--------------------------- MODULE GroupByProofs ---------------------------
(***************************************************************************)
(* The key strings of grouping_helper are equal exactly when the keys are, *)
(* for all texts; so grouping by strings implements grouping by keys, and  *)
(* agg gives every class of equal keys its aggregate.                      *)
(***************************************************************************)
EXTENDS Aggregation, SequenceTheorems, FiniteSetTheorems, WellFoundedInduction, TLAPS

\* A set of natural numbers has a least element: what induction over the
\* columns of a key rests on.
LEMMA LeastElement ==
  ASSUME NEW T \in SUBSET Nat, T # {}
  PROVE  \E n \in T : \A m \in T : n <= m
<1>1. \E n \in T : \A m \in T : ~(<<m, n>> \in OpToRel(<, Nat))
  BY WFMin, NatLessThanWellFounded
<1>2. PICK n \in T : \A m \in T : ~(<<m, n>> \in OpToRel(<, Nat))
  BY <1>1
<1>3. \A m \in T : ~(m < n)
  BY <1>2 DEF OpToRel
<1> QED
  BY <1>3

-----------------------------------------------------------------------------
(* One cell.                                                               *)

\* The parts of a cell's key string are strings, and a colon ends the first.
LEMMA TagIsString ==
  ASSUME NEW c \in Cells
  PROVE  /\ Tag(c) \in Seq(Chars)
         /\ \A x \in 1..Len(Tag(c)) : Tag(c)[x] # ":"
<1>1. CASE c = NULL
  <2>1. Tag(c) = <<"-", "1">>
    BY <1>1 DEF Tag
  <2> QED
    BY <2>1, CharsAssumption
<1>2. CASE c # NULL
  <2>1. c \in Texts /\ Tag(c) = Decimal[Len(c)]
    BY <1>2 DEF Tag, Cells
  <2>2. Len(c) \in DOMAIN Decimal /\ Decimal[Len(c)] \in Seq(Chars)
    BY <2>1, DecimalAssumption
  <2>3. DOMAIN Decimal[Len(c)] = 1..Len(Decimal[Len(c)])
    BY <2>2
  <2> QED
    BY <2>1, <2>2, <2>3, DecimalAssumption
<1> QED
  BY <1>1, <1>2

\* The text of a cell is a string over the characters.
LEMMA BodyIsString ==
  ASSUME NEW c \in Cells
  PROVE  Body(c) \in Seq(Chars)
<1>1. CASE c = NULL
  BY <1>1, CharsAssumption DEF Body
<1>2. CASE c # NULL
  BY <1>2, TextsAssumption DEF Body, Cells
<1> QED
  BY <1>1, <1>2

\* ... and so is what one column adds to a key string.
LEMMA KeyPartIsString ==
  ASSUME NEW c \in Cells
  PROVE  KeyPart(c) \in Seq(Chars)
<1>1. <<":">> \in Seq(Chars)
  BY CharsAssumption
<1> QED
  BY <1>1, TagIsString, BodyIsString DEF KeyPart

\* The tags tell the cells apart as far as the length: equal tags, equal lengths.
LEMMA TagsDecide ==
  ASSUME NEW c \in Cells, NEW d \in Cells, Tag(c) = Tag(d)
  PROVE  c = d \/ (c \in Texts /\ d \in Texts /\ Len(c) = Len(d))
<1>1. CASE c = NULL /\ d = NULL
  BY <1>1
<1>2. CASE c # NULL /\ d # NULL
  <2>1. c \in Texts /\ d \in Texts /\ Decimal[Len(c)] = Decimal[Len(d)]
    BY <1>2 DEF Tag, Cells
  <2>2. Len(c) \in DOMAIN Decimal /\ Len(d) \in DOMAIN Decimal
    BY <2>1, DecimalAssumption
  <2> QED
    BY <2>1, <2>2, DecimalAssumption
<1>3. ASSUME NEW e \in Texts, e # NULL
      PROVE  Tag(e) # Tag(NULL)
  <2>1. Tag(e) = Decimal[Len(e)] /\ Tag(NULL) = <<"-", "1">>
    BY <1>3 DEF Tag
  <2>2. Len(e) \in DOMAIN Decimal
    BY DecimalAssumption
  <2> QED
    BY <2>1, <2>2, DecimalAssumption
<1> QED
  BY <1>1, <1>2, <1>3, TextsAssumption DEF Cells

\* A string up to a colon is found again in any string that starts with it: two
\* strings without colons, each followed by one, agree if the whole strings do.
LEMMA UpToColon ==
  ASSUME NEW s \in Seq(Chars), NEW t \in Seq(Chars),
         NEW u \in Seq(Chars), NEW v \in Seq(Chars),
         \A x \in 1..Len(s) : s[x] # ":",
         \A x \in 1..Len(t) : t[x] # ":",
         (s \o <<":">>) \o u = (t \o <<":">>) \o v
  PROVE  s = t /\ u = v
<1> DEFINE a == s \o <<":">>
           b == t \o <<":">>
<1>1. <<":">> \in Seq(Chars)
  BY CharsAssumption
<1>2. /\ a \in Seq(Chars) /\ Len(a) = Len(s) + 1 /\ a[Len(s) + 1] = ":"
      /\ \A x \in 1..Len(s) : a[x] = s[x]
  BY <1>1
<1>3. /\ b \in Seq(Chars) /\ Len(b) = Len(t) + 1 /\ b[Len(t) + 1] = ":"
      /\ \A x \in 1..Len(t) : b[x] = t[x]
  BY <1>1
<1> HIDE DEF a, b
<1>4. /\ \A x \in 1..Len(a) : (a \o u)[x] = a[x]
      /\ \A x \in 1..Len(b) : (b \o v)[x] = b[x]
  BY <1>2, <1>3
<1>5. a \o u = b \o v
  BY DEF a, b
<1>6. Len(s) \in Nat /\ Len(t) \in Nat
  OBVIOUS
<1>7. ~(Len(s) < Len(t))
  <2> SUFFICES ASSUME Len(s) < Len(t) PROVE FALSE
    OBVIOUS
  <2>1. Len(s) + 1 \in 1..Len(t) /\ Len(s) + 1 \in 1..Len(a) /\ Len(s) + 1 \in 1..Len(b)
    BY <1>2, <1>3, <1>6
  <2>2. (a \o u)[Len(s) + 1] = ":" /\ (b \o v)[Len(s) + 1] = t[Len(s) + 1]
    BY <2>1, <1>2, <1>3, <1>4
  <2> QED
    BY <2>1, <2>2, <1>5
<1>8. ~(Len(t) < Len(s))
  <2> SUFFICES ASSUME Len(t) < Len(s) PROVE FALSE
    OBVIOUS
  <2>1. Len(t) + 1 \in 1..Len(s) /\ Len(t) + 1 \in 1..Len(a) /\ Len(t) + 1 \in 1..Len(b)
    BY <1>2, <1>3, <1>6
  <2>2. (b \o v)[Len(t) + 1] = ":" /\ (a \o u)[Len(t) + 1] = s[Len(t) + 1]
    BY <2>1, <1>2, <1>3, <1>4
  <2> QED
    BY <2>1, <2>2, <1>5
<1>9. Len(s) = Len(t)
  BY <1>6, <1>7, <1>8
<1>10. ASSUME NEW x \in 1..Len(s)
       PROVE  s[x] = t[x]
  <2>1. x \in 1..Len(t) /\ x \in 1..Len(a) /\ x \in 1..Len(b)
    BY <1>9, <1>2, <1>3, <1>6
  <2> QED
    BY <2>1, <1>2, <1>3, <1>4, <1>5
<1>11. s = t
  BY <1>9, <1>10, SeqEqual
<1>12. a = b
  BY <1>11 DEF a, b
<1> QED
  BY <1>2, <1>5, <1>11, <1>12, ConcatSimplifications

\* Texts of one length at the start of equal strings are equal.
LEMMA SameLengthStart ==
  ASSUME NEW s \in Seq(Chars), NEW t \in Seq(Chars),
         NEW u \in Seq(Chars), NEW v \in Seq(Chars),
         Len(s) = Len(t), s \o u = t \o v
  PROVE  s = t
<1>1. \A x \in 1..Len(s) : (s \o u)[x] = s[x]
  OBVIOUS
<1>2. \A x \in 1..Len(t) : (t \o v)[x] = t[x]
  OBVIOUS
<1>3. \A x \in 1..Len(s) : s[x] = t[x]
  BY <1>1, <1>2
<1> QED
  BY <1>3, SeqEqual

\* A cell's key string and what follows it, parted at the colon.
LEMMA KeyPartParted ==
  ASSUME NEW c \in Cells, NEW u \in Seq(Chars)
  PROVE  /\ KeyPart(c) \o u = (Tag(c) \o <<":">>) \o (Body(c) \o u)
         /\ Body(c) \o u \in Seq(Chars)
<1> DEFINE s == Tag(c) \o <<":">>
<1>1. Tag(c) \in Seq(Chars) /\ Body(c) \in Seq(Chars)
  BY TagIsString, BodyIsString
<1>2. s \in Seq(Chars)
  BY <1>1, CharsAssumption
<1>3. KeyPart(c) = s \o Body(c)
  BY DEF KeyPart
<1> HIDE DEF s
<1>4. (s \o Body(c)) \o u = s \o (Body(c) \o u) /\ Body(c) \o u \in Seq(Chars)
  BY <1>1, <1>2, ConcatAssociative, SMTT(30)
<1> QED
  BY <1>3, <1>4 DEF s

\* The key strings of two cells are not only different: whatever follows them,
\* the strings stay different.  A text holding bars or colons changes nothing.
LEMMA KeyPartIsPrefixFree ==
  ASSUME NEW c \in Cells, NEW d \in Cells,
         NEW u \in Seq(Chars), NEW v \in Seq(Chars),
         KeyPart(c) \o u = KeyPart(d) \o v
  PROVE  c = d
<1> DEFINE s == Tag(c)
           t == Tag(d)
           x == Body(c) \o u
           y == Body(d) \o v
<1>1. /\ s \in Seq(Chars) /\ \A i \in 1..Len(s) : s[i] # ":"
      /\ t \in Seq(Chars) /\ \A i \in 1..Len(t) : t[i] # ":"
  BY TagIsString
<1>2. Body(c) \in Seq(Chars) /\ Body(d) \in Seq(Chars)
  BY BodyIsString
<1>3. x \in Seq(Chars) /\ y \in Seq(Chars) /\ (s \o <<":">>) \o x = (t \o <<":">>) \o y
  BY KeyPartParted
<1> HIDE DEF s, t, x, y
<1>4. s = t /\ x = y
  BY <1>1, <1>3, UpToColon
<1>5. CASE c \in Texts /\ d \in Texts /\ Len(c) = Len(d)
  <2>1. Body(c) = c /\ Body(d) = d
    BY <1>5, TextsAssumption DEF Body
  <2>2. c \in Seq(Chars) /\ d \in Seq(Chars) /\ c \o u = d \o v
    BY <1>2, <1>4, <2>1 DEF x, y
  <2> QED
    BY <1>5, <2>2, SameLengthStart
<1> QED
  BY <1>4, <1>5, TagsDecide DEF s, t

-----------------------------------------------------------------------------
(* Whole keys.                                                             *)

\* ch holds the key string of k after each of the first c of n columns.
IsChain(ch, k, n, c) ==
  /\ ch \in [0..c -> Seq(Chars)]
  /\ ch[0] = << >>
  /\ \A d \in 1..c : ch[d] = (ch[d - 1] \o KeyPart(k[d])) \o Bar(d, n)

\* s is the key string of k after c of n columns.
Writes(s, k, n, c) == \E ch : IsChain(ch, k, n, c) /\ ch[c] = s

\* A bar, or nothing, is a string.
LEMMA BarIsString ==
  ASSUME NEW c, NEW n
  PROVE  Bar(c, n) \in Seq(Chars)
  BY CharsAssumption DEF Bar

\* No column written yet: the empty string.
LEMMA WritesNothing ==
  ASSUME NEW k, NEW n
  PROVE  Writes(<< >>, k, n, 0)
<1> DEFINE ch == [d \in 0..0 |-> << >>]
<1>1. ch \in [0..0 -> Seq(Chars)] /\ ch[0] = << >>
  OBVIOUS
<1>2. \A d \in 1..0 : FALSE
  OBVIOUS
<1> HIDE DEF ch
<1>3. IsChain(ch, k, n, 0)
  BY <1>1, <1>2 DEF IsChain
<1> QED
  BY <1>1, <1>3 DEF Writes

\* One more column.
LEMMA WritesColumn ==
  ASSUME NEW n \in Nat, NEW c \in 1..n, NEW k \in [1..n -> Cells], NEW s,
         Writes(s, k, n, c - 1)
  PROVE  /\ Writes((s \o KeyPart(k[c])) \o Bar(c, n), k, n, c)
         /\ (s \o KeyPart(k[c])) \o Bar(c, n) \in Seq(Chars)
<1> DEFINE t == (s \o KeyPart(k[c])) \o Bar(c, n)
<1>1. PICK ch : IsChain(ch, k, n, c - 1) /\ ch[c - 1] = s
  BY DEF Writes
<1>2. s \in Seq(Chars)
  <2>1. c - 1 \in 0..(c - 1)
    OBVIOUS
  <2> QED
    BY <1>1, <2>1 DEF IsChain
<1>3. t \in Seq(Chars)
  <2>1. KeyPart(k[c]) \in Seq(Chars) /\ Bar(c, n) \in Seq(Chars)
    BY KeyPartIsString, BarIsString
  <2>2. s \o KeyPart(k[c]) \in Seq(Chars)
    BY <1>2, <2>1
  <2> QED
    BY <2>1, <2>2
<1> DEFINE new == [d \in 0..c |-> IF d = c THEN t ELSE ch[d]]
<1>4. \A d \in 0..c : d # c => d \in 0..(c - 1)
  OBVIOUS
<1>5. \A d \in 0..(c - 1) : ch[d] \in Seq(Chars)
  BY <1>1 DEF IsChain
<1> HIDE DEF t
<1>6. /\ new \in [0..c -> Seq(Chars)]
      /\ new[c] = t
      /\ \A d \in 0..(c - 1) : new[d] = ch[d]
  BY <1>3, <1>4, <1>5
<1> HIDE DEF new
<1>7. \A d \in 1..c : new[d] = (new[d - 1] \o KeyPart(k[d])) \o Bar(d, n)
  <2> TAKE d \in 1..c
  <2>1. CASE d = c
    <3>1. new[d - 1] = s
      BY <2>1, <1>1, <1>6
    <3> QED
      BY <2>1, <3>1, <1>6 DEF t
  <2>2. CASE d # c
    <3>1. d \in 1..(c - 1) /\ d \in 0..(c - 1) /\ d - 1 \in 0..(c - 1)
      BY <2>2
    <3>2. ch[d] = (ch[d - 1] \o KeyPart(k[d])) \o Bar(d, n)
      BY <3>1, <1>1 DEF IsChain
    <3> QED
      BY <3>1, <3>2, <1>6
  <2> QED
    BY <2>1, <2>2
<1>8. new[0] = << >>
  BY <1>1, <1>6 DEF IsChain
<1>9. IsChain(new, k, n, c)
  BY <1>6, <1>7, <1>8 DEF IsChain
<1> QED
  BY <1>3, <1>6, <1>9 DEF Writes, t

\* Keys that agree up to a column have the same string up to it.
LEMMA AgreeingKeysAgree ==
  ASSUME NEW n \in Nat, NEW k, NEW l, NEW a, NEW b,
         IsChain(a, k, n, n), IsChain(b, l, n, n),
         NEW c \in 0..n, \A d \in 1..c : k[d] = l[d]
  PROVE  a[c] = b[c]
<1> DEFINE T == {d \in 0..c : a[d] # b[d]}
<1> SUFFICES ASSUME T # {} PROVE FALSE
  OBVIOUS
<1>0. T \in SUBSET Nat
  OBVIOUS
<1>1. PICK m \in T : \A d \in T : m <= d
  <2> HIDE DEF T
  <2> QED
    BY <1>0, LeastElement
<1>2. m # 0
  BY <1>1 DEF IsChain
<1>3. m \in 1..n /\ m \in 1..c /\ m - 1 \in 0..c /\ m - 1 \notin T
  BY <1>1, <1>2
<1>4. a[m - 1] = b[m - 1] /\ k[m] = l[m]
  BY <1>3
<1>5. /\ a[m] = (a[m - 1] \o KeyPart(k[m])) \o Bar(m, n)
      /\ b[m] = (b[m - 1] \o KeyPart(l[m])) \o Bar(m, n)
  BY <1>3 DEF IsChain
<1> QED
  BY <1>1, <1>4, <1>5

-----------------------------------------------------------------------------
(* Strings of different keys.                                             *)

\* Concatenation of strings.
LEMMA StringsConcat ==
  ASSUME NEW p \in Seq(Chars), NEW q \in Seq(Chars)
  PROVE  p \o q \in Seq(Chars)
  BY ConcatProperties

\* Concatenation is associative.
LEMMA StringsAssociate ==
  ASSUME NEW p \in Seq(Chars), NEW q \in Seq(Chars), NEW r \in Seq(Chars)
  PROVE  (p \o q) \o r = p \o (q \o r)
  BY ConcatAssociative, SMTT(30)

\* A concatenation the provers need not look into.
Cat(p, q) == p \o q

\* It stays among the strings and is associative.
LEMMA CatLaws ==
  /\ \A p, q \in Seq(Chars) : Cat(p, q) \in Seq(Chars)
  /\ \A p, q, r \in Seq(Chars) : Cat(Cat(p, q), r) = Cat(p, Cat(q, r))
<1>1. \A p, q \in Seq(Chars) : Cat(p, q) \in Seq(Chars)
  BY StringsConcat DEF Cat
<1>2. ASSUME NEW p \in Seq(Chars), NEW q \in Seq(Chars), NEW r \in Seq(Chars)
      PROVE  Cat(Cat(p, q), r) = Cat(p, Cat(q, r))
  BY StringsAssociate DEF Cat
<1> QED
  BY <1>1, <1>2

\* A key string and what follows it, parted before the last cell's string.
LEMMA ColumnParted ==
  ASSUME NEW p \in Seq(Chars), NEW q \in Seq(Chars), NEW r \in Seq(Chars),
         NEW u \in Seq(Chars)
  PROVE  /\ Cat(Cat(Cat(p, q), r), u) = Cat(p, Cat(q, Cat(r, u)))
         /\ Cat(r, u) \in Seq(Chars)
         /\ Cat(q, Cat(r, u)) \in Seq(Chars)
  BY CatLaws

\* The last column of a key string.
LEMMA ColumnWritten ==
  ASSUME NEW n \in Nat, NEW k, NEW a, IsChain(a, k, n, n), NEW c \in 1..n
  PROVE  /\ a[c] = Cat(Cat(a[c - 1], KeyPart(k[c])), Bar(c, n))
         /\ a[c - 1] \in Seq(Chars)
<1>1. a[c] = (a[c - 1] \o KeyPart(k[c])) \o Bar(c, n)
  BY DEF IsChain
<1>2. c - 1 \in 0..n
  OBVIOUS
<1>3. a[c - 1] \in Seq(Chars)
  BY <1>2 DEF IsChain
<1> QED
  BY <1>1, <1>3, Zenon DEF Cat

\* Strings that start with different cells differ.
LEMMA CellsDiffer ==
  ASSUME NEW c \in Cells, NEW d \in Cells, c # d,
         NEW u \in Seq(Chars), NEW v \in Seq(Chars)
  PROVE  Cat(KeyPart(c), u) # Cat(KeyPart(d), v)
  BY KeyPartIsPrefixFree DEF Cat

\* A common start can be left out.
LEMMA CatCancels ==
  ASSUME NEW p \in Seq(Chars), NEW u \in Seq(Chars), NEW v \in Seq(Chars),
         Cat(p, u) = Cat(p, v)
  PROVE  u = v
  BY ConcatSimplifications DEF Cat

\* Keys that differ have strings that differ, whatever follows them.
LEMMA DifferentKeysDiffer ==
  ASSUME NEW n \in Nat, NEW k \in [1..n -> Cells], NEW l \in [1..n -> Cells],
         NEW a, NEW b, IsChain(a, k, n, n), IsChain(b, l, n, n),
         NEW c \in 0..n, NEW e \in 1..c, k[e] # l[e],
         NEW u \in Seq(Chars), NEW v \in Seq(Chars)
  PROVE  Cat(a[c], u) # Cat(b[c], v)
<1> DEFINE Differ(d) == \E i \in 1..d : k[i] # l[i]
           Meet(d) == \E s, t \in Seq(Chars) : Cat(a[d], s) = Cat(b[d], t)
           T == {d \in 0..n : Differ(d) /\ Meet(d)}
<1>a. SUFFICES ASSUME Cat(a[c], u) = Cat(b[c], v) PROVE FALSE
  OBVIOUS
<1>b. c \in T
  BY <1>a
<1>1. PICK m \in T : \A d \in T : m <= d
  <2>1. T \in SUBSET Nat
    OBVIOUS
  <2>2. T # {}
    BY <1>b, Zenon
  <2> HIDE DEF T
  <2> QED
    BY <2>1, <2>2, LeastElement
<1>2. m \in 1..n /\ m - 1 \in 0..n /\ m - 1 \notin T
  <2>1. m \in 0..n /\ m # 0
    BY <1>1
  <2>2. m - 1 \in 0..n /\ ~(m <= m - 1) /\ m \in 1..n
    BY <2>1
  <2> HIDE DEF T
  <2> QED
    BY <1>1, <2>2
<1>3. PICK s \in Seq(Chars), t \in Seq(Chars) : Cat(a[m], s) = Cat(b[m], t)
  OBVIOUS
<1> DEFINE am == a[m - 1]
           bm == b[m - 1]
           kp == KeyPart(k[m])
           lp == KeyPart(l[m])
           bar == Bar(m, n)
<1>4. /\ a[m] = Cat(Cat(am, kp), bar) /\ am \in Seq(Chars)
      /\ b[m] = Cat(Cat(bm, lp), bar) /\ bm \in Seq(Chars)
  <2>1. m \in 1..n
    BY <1>2
  <2>2. a[m] = Cat(Cat(am, kp), bar) /\ am \in Seq(Chars)
    BY <2>1, ColumnWritten, Zenon
  <2>3. b[m] = Cat(Cat(bm, lp), bar) /\ bm \in Seq(Chars)
    BY <2>1, ColumnWritten, Zenon
  <2> QED
    BY <2>2, <2>3
<1>5. kp \in Seq(Chars) /\ lp \in Seq(Chars) /\ bar \in Seq(Chars)
  BY <1>2, KeyPartIsString, BarIsString
<1> DEFINE x == Cat(kp, Cat(bar, s))
           y == Cat(lp, Cat(bar, t))
<1>6. Cat(am, x) = Cat(bm, y) /\ x \in Seq(Chars) /\ y \in Seq(Chars)
  <2> HIDE DEF am, bm, kp, lp, bar
  <2> QED
    BY <1>3, <1>4, <1>5, ColumnParted
<1>7. CASE Differ(m - 1)
  <2>1. Meet(m - 1)
    BY <1>6
  <2> QED
    BY <2>1, <1>2, <1>7
<1>8. CASE ~Differ(m - 1)
  <2>1. am = bm
    <3>1. \A i \in 1..(m - 1) : k[i] = l[i]
      BY <1>8
    <3> DEFINE d == m - 1
    <3>2. d \in 0..n /\ \A i \in 1..d : k[i] = l[i]
      BY <1>2, <3>1
    <3> HIDE DEF d, T
    <3>3. a[d] = b[d]
      BY <3>2, AgreeingKeysAgree
    <3> QED
      BY <3>3 DEF d
  <2>2. k[m] # l[m]
    <3>1. PICK i \in 1..m : k[i] # l[i]
      OBVIOUS
    <3>2. i = m
      BY <3>1, <1>8, <1>2
    <3> QED
      BY <3>1, <3>2
  <2>3. x = y
    <3> HIDE DEF am, bm, x, y
    <3> QED
      BY <1>4, <1>6, <2>1, CatCancels
  <2>4. Cat(bar, s) \in Seq(Chars) /\ Cat(bar, t) \in Seq(Chars)
    <3> HIDE DEF bar
    <3> QED
      BY <1>5, CatLaws
  <2>5. k[m] \in Cells /\ l[m] \in Cells
    BY <1>2
  <2> QED
    BY <2>2, <2>3, <2>4, <2>5, CellsDiffer
<1> QED
  BY <1>7, <1>8

\* Two keys have the same string exactly when they are the same.
LEMMA StringsDecideKeys ==
  ASSUME NEW n \in Nat, NEW k \in [1..n -> Cells], NEW l \in [1..n -> Cells],
         NEW s, NEW t, Writes(s, k, n, n), Writes(t, l, n, n)
  PROVE  s = t <=> k = l
<1>1. PICK a : IsChain(a, k, n, n) /\ a[n] = s
  BY DEF Writes
<1>2. PICK b : IsChain(b, l, n, n) /\ b[n] = t
  BY DEF Writes
<1>3. ASSUME k = l PROVE s = t
  BY <1>1, <1>2, <1>3, AgreeingKeysAgree
<1>4. ASSUME k # l PROVE s # t
  <2>1. PICK e \in 1..n : k[e] # l[e]
    BY <1>4
  <2>2. << >> \in Seq(Chars) /\ n \in 0..n
    OBVIOUS
  <2>3. Cat(a[n], << >>) # Cat(b[n], << >>)
    <3> DEFINE w == << >>
    <3>1. w \in Seq(Chars)
      BY <2>2
    <3> HIDE DEF w
    <3>2. Cat(a[n], w) # Cat(b[n], w)
      BY <1>1, <1>2, <2>1, <2>2, <3>1, DifferentKeysDiffer
    <3> QED
      BY <3>2 DEF w
  <2>4. a[n] # b[n]
    BY <2>3, Zenon
  <2> QED
    BY <1>1, <1>2, <2>4, Zenon
<1> QED
  BY <1>3, <1>4

-----------------------------------------------------------------------------
(* The loop.                                                               *)

Counted ==
  /\ columns \in Nat
  /\ key \in Seq([1..columns -> Cells])
  /\ row \in 1..(Len(key) + 1)
  /\ column \in 1..(columns + 1)

\* The string so far is that of the columns passed.
StringSoFar == row <= Len(key) => Writes(gid, key[row], columns, column - 1)

\* grouping_order lists the strings of the map, each once.
Listed ==
  /\ grouping_order \in Seq(DOMAIN groups)
  /\ \A g \in DOMAIN groups : \E x \in DOMAIN grouping_order : grouping_order[x] = g
  /\ \A x, y \in DOMAIN grouping_order : grouping_order[x] = grouping_order[y] => x = y

\* A group's string is that of its first row.
GroupsWritten ==
  /\ groups \in [DOMAIN groups -> Seq(1..(row - 1)) \ {<< >>}]
  /\ \A g \in DOMAIN groups : Writes(g, key[groups[g][1]], columns, columns)

GroupInv == Counted /\ StringSoFar /\ Listed /\ GroupsWritten

\* The loop starts in the invariant: no rows, no groups.
LEMMA InitEstablishes == Init => GroupInv
<1> SUFFICES ASSUME NEW in \in Inputs, Take(in) PROVE GroupInv
  BY DEF Init
<1>1. Counted
  <2>1. /\ columns \in Nat /\ key \in Seq([1..columns -> Cells])
        /\ row = 1 /\ column = 1
    BY InputsAssumption DEF Take
  <2>2. Len(key) \in Nat
    BY <2>1
  <2> QED
    BY <2>1, <2>2 DEF Counted
<1>2. gid = << >> /\ column - 1 = 0
  BY DEF Take
<1>3. StringSoFar
  BY <1>2, WritesNothing DEF StringSoFar
<1>4. Listed /\ GroupsWritten
  <2>1. groups = << >> /\ grouping_order = << >>
    BY DEF Take
  <2>2. DOMAIN << >> = {} /\ << >> \in Seq({})
    OBVIOUS
  <2>3. Listed
    BY <2>1, <2>2 DEF Listed
  <2>4. groups \in [DOMAIN groups -> Seq(1..(row - 1)) \ {<< >>}]
    <3> DEFINE S == Seq(1..(row - 1)) \ {<< >>}
    <3>1. groups = [g \in {} |-> g]
      BY <2>1, <2>2
    <3>2. [g \in {} |-> g] \in [{} -> S]
      OBVIOUS
    <3> QED
      BY <3>1, <3>2, <2>1, <2>2
  <2> QED
    BY <2>1, <2>2, <2>3, <2>4 DEF GroupsWritten
<1> QED
  BY <1>1, <1>3, <1>4 DEF GroupInv

\* Within a row, and from a row to the next.
LEMMA ColumnKeeps ==
  ASSUME GroupInv, KeyColumn
  PROVE  GroupInv'
<1> USE DEF GroupInv
<1>1. Counted'
  BY DEF Counted, KeyColumn, inputs
<1>2. StringSoFar'
  <2>1. /\ columns \in Nat /\ column \in 1..columns /\ row \in 1..Len(key)
        /\ key[row] \in [1..columns -> Cells]
        /\ Writes(gid, key[row], columns, column - 1)
    BY DEF Counted, KeyColumn, StringSoFar
  <2>2. Writes((gid \o KeyPart(key[row][column])) \o Bar(column, columns), key[row], columns, column)
    BY <2>1, WritesColumn
  <2>3. /\ gid' = (gid \o KeyPart(key[row][column])) \o Bar(column, columns)
        /\ column' - 1 = column
        /\ row' = row /\ key' = key /\ columns' = columns
    BY <2>1 DEF KeyColumn, inputs
  <2> QED
    BY <2>2, <2>3, Zenon DEF StringSoFar
<1>3. Listed'
  BY DEF Listed, KeyColumn
<1>4. GroupsWritten'
  <2>1. UNCHANGED <<columns, key, row, groups>>
    BY DEF KeyColumn, inputs
  <2> QED
    BY <2>1 DEF GroupsWritten
<1> QED
  BY <1>1, <1>2, <1>3, <1>4

\* The next row starts with its whole key string written and the list of groups as it was.
LEMMA RowKeeps ==
  ASSUME GroupInv, NextRow
  PROVE  /\ Counted' /\ StringSoFar'
         /\ row \in DOMAIN key /\ row' = row + 1
         /\ columns' = columns /\ key' = key /\ columns \in Nat
         /\ key[row] \in [1..columns -> Cells]
         /\ Writes(gid, key[row], columns, columns)
<1> USE DEF GroupInv
<1>1. /\ Counted' /\ row \in DOMAIN key /\ row' = row + 1 /\ columns \in Nat
      /\ columns' = columns /\ key' = key /\ column - 1 = columns /\ column' - 1 = 0
      /\ gid' = << >>
      /\ key[row] \in [1..columns -> Cells] /\ row <= Len(key)
  BY DEF Counted, NextRow, inputs
<1>2. StringSoFar'
  BY <1>1, WritesNothing, Zenon DEF StringSoFar
<1>3. Writes(gid, key[row], columns, columns)
  BY <1>1 DEF StringSoFar
<1> QED
  BY <1>1, <1>2, <1>3

\* The strings of two groups' first rows tell whether the rows have one key.
LEMMA StringTellsGroup ==
  ASSUME GroupInv, NextRow, NEW g \in DOMAIN groups
  PROVE  g = gid <=> key[groups[g][1]] = key[row]
<1>1. /\ columns \in Nat /\ key[row] \in [1..columns -> Cells]
      /\ Writes(gid, key[row], columns, columns)
  BY RowKeeps
<1>2. groups[g] \in Seq(1..(row - 1)) /\ groups[g] # << >>
  BY DEF GroupInv, GroupsWritten
<1>3. groups[g][1] \in 1..(row - 1)
  <2> DEFINE s == groups[g]
             S == 1..(row - 1)
  <2>1. s \in Seq(S) /\ s # << >>
    BY <1>2
  <2> HIDE DEF s, S
  <2>2. s[1] \in S
    BY <2>1
  <2> QED
    BY <2>2 DEF s, S
<1>4. key[groups[g][1]] \in [1..columns -> Cells]
  <2>1. groups[g][1] \in DOMAIN key
    BY <1>3 DEF GroupInv, Counted
  <2> QED
    BY <2>1 DEF GroupInv, Counted
<1>5. Writes(g, key[groups[g][1]], columns, columns)
  BY DEF GroupInv, GroupsWritten
<1> QED
  BY <1>1, <1>4, <1>5, StringsDecideKeys

\* A row of a key seen before joins its group, and founds none.
LEMMA OldKeeps ==
  ASSUME GroupInv, OldGroup
  PROVE  GroupInv' /\ Grouped!Join
<1> USE DEF GroupInv
<1>1. NextRow /\ gid \in DOMAIN groups
  BY DEF OldGroup
<1>2. /\ Counted' /\ StringSoFar' /\ row \in DOMAIN key /\ row' = row + 1
      /\ columns' = columns /\ key' = key
  BY <1>1, RowKeeps
<1> DEFINE S == Seq(1..row) \ {<< >>}
<1>3. /\ groups' = [groups EXCEPT ![gid] = Append(groups[gid], row)]
      /\ grouping_order' = grouping_order
  BY DEF OldGroup
<1>4. /\ row \in Nat \ {0}
      /\ \A g \in DOMAIN groups : groups[g] \in Seq(1..(row - 1)) /\ groups[g] # << >>
  BY DEF Counted, GroupsWritten
<1>5. \A g \in DOMAIN groups : groups[g] \in S
  BY <1>4
<1>6. Append(groups[gid], row) \in S /\ Append(groups[gid], row)[1] = groups[gid][1]
  BY <1>1, <1>4
<1> DEFINE new == Append(groups[gid], row)
<1> HIDE DEF new, S
<1>7. /\ DOMAIN groups' = DOMAIN groups
      /\ groups'[gid] = new
      /\ \A g \in DOMAIN groups : g # gid => groups'[g] = groups[g]
      /\ groups' \in [DOMAIN groups' -> S]
  BY <1>1, <1>3, <1>5, <1>6 DEF new, GroupsWritten
<1>8. \A g \in DOMAIN groups : groups'[g][1] = groups[g][1]
  BY <1>6, <1>7 DEF new
<1>9. Listed'
  BY <1>3, <1>7 DEF Listed
<1>10. GroupsWritten'
  <2>1. row' - 1 = row
    BY <1>2, <1>4
  <2>2. groups' \in [DOMAIN groups' -> Seq(1..(row' - 1)) \ {<< >>}]
    BY <1>7, <2>1 DEF S
  <2>3. \A g \in DOMAIN groups' : Writes(g, key'[groups'[g][1]], columns', columns')
    BY <1>2, <1>7, <1>8 DEF GroupsWritten
  <2> QED
    BY <2>2, <2>3 DEF GroupsWritten
<1>11. PICK x \in DOMAIN grouping_order : grouping_order[x] = gid
  BY <1>1 DEF Listed
<1>12. Grouped!SameKey(Ordered[x][1], row)
  BY <1>1, <1>11, StringTellsGroup DEF Ordered, Grouped!SameKey
<1>13. Ordered' = [Ordered EXCEPT ![x] = Append(@, row)]
  <2>1. /\ Ordered' = [y \in DOMAIN grouping_order |-> groups'[grouping_order[y]]]
        /\ Ordered[x] = groups[gid]
    BY <1>3, <1>11 DEF Ordered
  <2>2. \A y \in DOMAIN grouping_order :
          /\ grouping_order[y] \in DOMAIN groups
          /\ y # x => grouping_order[y] # gid
    BY <1>11 DEF Listed
  <2>3. [Ordered EXCEPT ![x] = Append(@, row)]
          = [y \in DOMAIN grouping_order |-> IF y = x THEN new ELSE Ordered[y]]
    BY <2>1 DEF Ordered, new
  <2>4. \A y \in DOMAIN grouping_order :
          groups'[grouping_order[y]] = IF y = x THEN new ELSE Ordered[y]
    BY <1>7, <1>11, <2>2 DEF Ordered
  <2> QED
    BY <2>1, <2>3, <2>4
<1>14. x \in DOMAIN Ordered
  BY <1>11 DEF Ordered
<1>15. Grouped!Join
  BY <1>2, <1>12, <1>13, <1>14 DEF Grouped!Join
<1> QED
  BY <1>2, <1>9, <1>10, <1>15

\* What Append is, place by place.
LEMMA AppendedIs ==
  ASSUME NEW S, NEW s \in Seq(S), NEW e \in S, NEW t \in Seq(S),
         Len(t) = Len(s) + 1, t[Len(s) + 1] = e, \A y \in 1..Len(s) : t[y] = s[y]
  PROVE  t = Append(s, e)
<1> DEFINE n == Len(s)
           u == Append(s, e)
<1>1. u \in Seq(S) /\ Len(u) = n + 1 /\ n \in Nat
      /\ u[n + 1] = e /\ \A y \in 1..n : u[y] = s[y]
  BY AppendProperties
<1>2. Len(t) = n + 1 /\ t[n + 1] = e /\ \A y \in 1..n : t[y] = s[y]
  OBVIOUS
<1> HIDE DEF n, u
<1>3. \A y \in 1..(n + 1) : y \in 1..n \/ y = n + 1
  BY <1>1
<1>4. \A y \in 1..Len(t) : t[y] = u[y]
  BY <1>1, <1>2, <1>3
<1>5. t = u
  BY <1>1, <1>2, <1>4, SeqEqual
<1> QED
  BY <1>5 DEF u

\* A row of a new key founds a group, the last one.
LEMMA NewKeeps ==
  ASSUME GroupInv, NewGroup
  PROVE  GroupInv' /\ Grouped!Found
<1> USE DEF GroupInv
<1>1. /\ NextRow /\ gid \notin DOMAIN groups
      /\ grouping_order' = Append(grouping_order, gid)
      /\ groups' = [g \in DOMAIN groups \cup {gid} |-> IF g = gid THEN <<row>> ELSE groups[g]]
  BY DEF NewGroup
<1>2. /\ Counted' /\ StringSoFar' /\ row \in DOMAIN key /\ row' = row + 1
      /\ columns' = columns /\ key' = key
      /\ Writes(gid, key[row], columns, columns)
  BY <1>1, RowKeeps
<1> DEFINE S == Seq(1..row) \ {<< >>}
<1>3. /\ row \in Nat \ {0} /\ row' - 1 = row
      /\ \A g \in DOMAIN groups : groups[g] \in Seq(1..(row - 1)) /\ groups[g] # << >>
  BY <1>2 DEF Counted, GroupsWritten
<1>4. <<row>> \in S /\ \A g \in DOMAIN groups : groups[g] \in S
  BY <1>3
<1> HIDE DEF S
<1>5. /\ DOMAIN groups' = DOMAIN groups \cup {gid}
      /\ groups'[gid] = <<row>>
      /\ \A g \in DOMAIN groups : groups'[g] = groups[g]
      /\ groups' \in [DOMAIN groups' -> S]
  BY <1>1, <1>4
<1>6. <<row>>[1] = row
  OBVIOUS
<1>7. GroupsWritten'
  <2>1. groups' \in [DOMAIN groups' -> Seq(1..(row' - 1)) \ {<< >>}]
    BY <1>5, <1>3 DEF S
  <2>2. Writes(gid, key'[groups'[gid][1]], columns', columns')
    BY <1>2, <1>5, <1>6
  <2>3. \A g \in DOMAIN groups : Writes(g, key'[groups'[g][1]], columns', columns')
    BY <1>2, <1>5 DEF GroupsWritten
  <2> QED
    BY <1>5, <2>1, <2>2, <2>3 DEF GroupsWritten
<1> DEFINE n == Len(grouping_order)
<1>8. /\ grouping_order \in Seq(DOMAIN groups') /\ n \in Nat
      /\ DOMAIN grouping_order = 1..n
      /\ \A y \in 1..n : grouping_order[y] \in DOMAIN groups
  BY <1>5 DEF Listed
<1>9. /\ grouping_order' \in Seq(DOMAIN groups')
      /\ DOMAIN grouping_order' = 1..(n + 1)
      /\ grouping_order'[n + 1] = gid
      /\ \A y \in 1..n : grouping_order'[y] = grouping_order[y]
  BY <1>1, <1>5, <1>8
<1> HIDE DEF n
<1>10. Listed'
  <2>1. \A g \in DOMAIN groups' : \E x \in DOMAIN grouping_order' : grouping_order'[x] = g
    <3>1. \A g \in DOMAIN groups : \E x \in 1..n : grouping_order'[x] = g
      BY <1>8, <1>9 DEF Listed
    <3>2. 1..n \subseteq 1..(n + 1) /\ n + 1 \in 1..(n + 1)
      BY <1>8
    <3> QED
      BY <1>5, <1>9, <3>1, <3>2
  <2>2. \A x, y \in 1..n : grouping_order'[x] = grouping_order'[y] => x = y
    BY <1>8, <1>9 DEF Listed
  <2>3. \A x \in 1..n : grouping_order'[x] # gid
    BY <1>1, <1>8, <1>9
  <2>4. \A x \in 1..(n + 1) : x \in 1..n \/ x = n + 1
    BY <1>8
  <2>5. \A x, y \in DOMAIN grouping_order' :
          grouping_order'[x] = grouping_order'[y] => x = y
    BY <1>9, <2>2, <2>3, <2>4
  <2> QED
    BY <1>9, <2>1, <2>5 DEF Listed
<1>11. \A g \in DOMAIN Ordered : ~Grouped!SameKey(Ordered[g][1], row)
  <2> TAKE g \in DOMAIN Ordered
  <2>1. /\ g \in DOMAIN grouping_order /\ Ordered[g] = groups[grouping_order[g]]
        /\ grouping_order[g] \in DOMAIN groups /\ grouping_order[g] # gid
    BY <1>1, <1>8 DEF Ordered
  <2>2. key[groups[grouping_order[g]][1]] # key[row]
    BY <1>1, <2>1, StringTellsGroup
  <2> QED
    BY <2>1, <2>2 DEF Grouped!SameKey
<1>12. Ordered' = Append(Ordered, <<row>>)
  <2>1. Ordered' = [y \in 1..(n + 1) |-> groups'[grouping_order'[y]]]
    BY <1>9 DEF Ordered
  <2>2. Ordered = [y \in 1..n |-> groups[grouping_order[y]]]
    BY <1>8 DEF Ordered
  <2>3. \A y \in 1..n : groups[grouping_order[y]] \in S
    BY <1>4, <1>8
  <2>4. Ordered \in Seq(S) /\ Len(Ordered) = n
    BY <1>8, <2>2, <2>3
  <2>5. \A y \in 1..(n + 1) : groups'[grouping_order'[y]] \in S
    <3>1. \A y \in 1..(n + 1) : grouping_order'[y] \in DOMAIN groups'
      <4>1. \A y \in 1..(n + 1) : y \in 1..n \/ y = n + 1
        BY <1>8
      <4> QED
        BY <1>5, <1>8, <1>9, <4>1
    <3> QED
      BY <1>5, <3>1
  <2>6. Ordered' \in Seq(S) /\ Len(Ordered') = n + 1
    BY <1>8, <2>1, <2>5
  <2>7. Ordered'[n + 1] = <<row>>
    BY <1>5, <1>8, <1>9, <2>1
  <2>8. \A y \in 1..n : Ordered'[y] = Ordered[y]
    <3>1. 1..n \subseteq 1..(n + 1)
      BY <1>8
    <3> QED
      BY <1>5, <1>8, <1>9, <2>1, <2>2, <3>1
  <2> DEFINE old == Ordered
             new == Ordered'
             last == <<row>>
  <2>9. /\ old \in Seq(S) /\ new \in Seq(S) /\ last \in S
        /\ Len(new) = Len(old) + 1 /\ new[Len(old) + 1] = last
        /\ \A y \in 1..Len(old) : new[y] = old[y]
    BY <1>4, <2>4, <2>6, <2>7, <2>8
  <2> HIDE DEF old, new, last
  <2>10. new = Append(old, last)
    BY <2>9, AppendedIs
  <2> QED
    BY <2>10 DEF old, new, last
<1>13. Grouped!Found
  BY <1>2, <1>11, <1>12 DEF Grouped!Found
<1> QED
  BY <1>2, <1>7, <1>10, <1>13

-----------------------------------------------------------------------------
\* What a step of the loop is to the abstract grouping.
LEMMA StepIsGrouping ==
  GroupInv /\ [Next]_group_vars => GroupInv' /\ [Grouped!Next]_(Grouped!vars)
<1> SUFFICES ASSUME GroupInv, [Next]_group_vars
             PROVE  GroupInv' /\ [Grouped!Next]_(Grouped!vars)
  OBVIOUS
<1>1. CASE KeyColumn
  <2>1. UNCHANGED <<key, row, Ordered>>
    BY <1>1 DEF KeyColumn, inputs, Ordered
  <2> QED
    BY <1>1, <2>1, ColumnKeeps DEF Grouped!vars
<1>2. CASE OldGroup
  BY <1>2, OldKeeps DEF Grouped!Next
<1>3. CASE NewGroup
  BY <1>3, NewKeeps DEF Grouped!Next
<1>4. CASE UNCHANGED group_vars
  <2>1. GroupInv'
    BY <1>4 DEF group_vars, GroupInv, Counted, StringSoFar, Listed, GroupsWritten
  <2>2. UNCHANGED <<key, row, Ordered>>
    BY <1>4 DEF group_vars, Ordered
  <2> QED
    BY <2>1, <2>2 DEF Grouped!vars
<1> QED
  BY <1>1, <1>2, <1>3, <1>4 DEF Next

\* The strings the map is keyed by are those of the groups' keys, in every state.
THEOREM StringsStandForKeys == Spec => []GroupInv
<1>1. GroupInv /\ [Next]_group_vars => GroupInv'
  BY StepIsGrouping
<1> QED
  BY <1>1, InitEstablishes, PTL DEF Spec

\* Grouping by strings implements grouping by keys, for all texts: what the
\* texts hold, be it colons, bars or the look of a null, never joins two keys.
THEOREM GroupByIsGrouping == Spec => GroupsByKey
<1>1. Init => Grouped!Start
  BY DEF Init, Take, Ordered, Grouped!Start
<1>2. GroupInv /\ [Next]_group_vars => [Grouped!Next]_(Grouped!vars)
  BY StepIsGrouping
<1> QED
  BY <1>1, <1>2, StringsStandForKeys, PTL DEF Spec, GroupsByKey, Grouped!Spec

GP == INSTANCE GroupingProofs WITH groups <- Ordered

\* So its groups are the classes of equal keys over the rows taken.
THEOREM GroupByMakesClasses == Spec => []KeyClasses
<1>1. GP!Spec => []GP!Classes
  BY GP!GroupsAreClasses
<1>2. /\ GP!Start <=> Grouped!Start
      /\ [GP!Next]_(GP!vars) <=> [Grouped!Next]_(Grouped!vars)
      /\ GP!Classes <=> Grouped!Classes
  BY DEF GP!Start, GP!Next, GP!vars, GP!Join, GP!Found, GP!SameKey, GP!Classes, GP!Members,
         Grouped!Start, Grouped!Next, Grouped!vars, Grouped!Join, Grouped!Found,
         Grouped!SameKey, Grouped!Classes, Grouped!Members
<1>3. GP!Spec <=> Grouped!Spec
  BY <1>2, PTL DEF GP!Spec, Grouped!Spec
<1> QED
  BY <1>1, <1>2, <1>3, GroupByIsGrouping, PTL DEF GroupsByKey, KeyClasses

-----------------------------------------------------------------------------
(* The aggregation loops: induction, division, totals.                      *)

\* Induction over the numbers of a set.
LEMMA Induction ==
  ASSUME NEW T, 0 \in T, \A n \in Nat : n \in T => n + 1 \in T
  PROVE  Nat \subseteq T
<1> SUFFICES ASSUME Nat \ T # {} PROVE FALSE
  OBVIOUS
<1>1. PICK n \in Nat \ T : \A m \in Nat \ T : ~(<<m, n>> \in OpToRel(<, Nat))
  <2>1. Nat \ T \in SUBSET Nat
    OBVIOUS
  <2> QED
    BY <2>1, WFMin, NatLessThanWellFounded
<1>2. \A m \in Nat \ T : ~(m < n)
  BY <1>1 DEF OpToRel
<1>3. n # 0 /\ n - 1 \in Nat
  OBVIOUS
<1> QED
  BY <1>2, <1>3

-----------------------------------------------------------------------------
(* Quotients and remainders.                                               *)

\* Division with rest, as the integers have it.
LEMMA DivMod ==
  ASSUME NEW n \in Int, NEW m \in Int, m > 0
  PROVE  /\ n \div m \in Int /\ n % m \in 0..(m - 1)
         /\ n = m * (n \div m) + (n % m)
<1>1. n = m * (n \div m) + (n % m)
  BY SMTT(60)
<1> QED
  BY <1>1

\* Adding a multiple of the width changes no rest.
LEMMA MultipleHasNoRest ==
  ASSUME NEW q \in Int, NEW m \in Int, m > 0
  PROVE  (m * q) % m = 0
<1> DEFINE a == (m * q) \div m
           r == (m * q) % m
<1>1. a \in Int /\ r \in 0..(m - 1) /\ m * q = m * a + r
  BY DivMod
<1> HIDE DEF a, r
<1>2. m * (q - a) = r
  BY <1>1
<1>3. q - a >= 1 => m * (q - a) >= m
  BY <1>1
<1>4. q - a <= -1 => m * (q - a) <= -m
  BY <1>1
<1>5. q - a = 0
  BY <1>1, <1>2, <1>3, <1>4
<1>6. m * 0 = 0
  OBVIOUS
<1>7. r = 0
  BY <1>2, <1>5, <1>6
<1> QED
  BY <1>7 DEF r

\* A factor can be cancelled.
LEMMA Cancels ==
  ASSUME NEW a \in Int, NEW b \in Int, NEW d \in Int, d > 0
  PROVE  /\ d * a < d * b => a < b
         /\ d * a <= d * b => a <= b
<1>1. d * (a - b) = d * a - d * b /\ d * (b - a) = d * b - d * a
  OBVIOUS
<1>2. a - b >= 1 => d * (a - b) >= 1
  OBVIOUS
<1>3. a = b => d * a = d * b
  OBVIOUS
<1>4. d * a \in Int /\ d * b \in Int
  OBVIOUS
<1> QED
  BY <1>1, <1>2, <1>3, <1>4

\* A quotient rounded towards zero keeps every bound its dividend has.
LEMMA TruncatedBetween ==
  ASSUME NEW n \in Int, NEW d \in Int, d > 0, NEW m \in Int
  PROVE  /\ Truncated(n, d) \in Int
         /\ d * m <= n => m <= Truncated(n, d)
         /\ n <= d * m => Truncated(n, d) <= m
<1>1. CASE n >= 0
  <2> DEFINE q == n \div d
             r == n % d
  <2>1. q \in Int /\ r \in 0..(d - 1) /\ n = d * q + r
    BY DivMod
  <2>2. Truncated(n, d) = q
    BY <1>1 DEF Truncated
  <2> HIDE DEF q, r
  <2>3. d * (q + 1) = d * q + d /\ d * m \in Int /\ d * q \in Int
    BY <2>1
  <2>4. d * m <= n => d * m < d * (q + 1)
    BY <2>1, <2>3
  <2>5. n <= d * m => d * q <= d * m
    BY <2>1, <2>3
  <2>6. (d * m < d * (q + 1) => m < q + 1) /\ (d * q <= d * m => q <= m)
    BY <2>1, Cancels
  <2> QED
    BY <2>1, <2>2, <2>4, <2>5, <2>6
<1>2. CASE n < 0
  <2> DEFINE q == (-n) \div d
             r == (-n) % d
  <2>1. q \in Int /\ r \in 0..(d - 1) /\ -n = d * q + r
    BY DivMod
  <2>2. Truncated(n, d) = -q
    BY <1>2 DEF Truncated
  <2> HIDE DEF q, r
  <2>3. d * (q + 1) = d * q + d /\ d * (-m) = -(d * m) /\ d * m \in Int /\ d * q \in Int
    BY <2>1
  <2>4. d * m <= n => d * q <= d * (-m)
    BY <2>1, <2>3
  <2>5. n <= d * m => d * (-m) < d * (q + 1)
    BY <2>1, <2>3
  <2>6. (d * (-m) < d * (q + 1) => -m < q + 1) /\ (d * q <= d * (-m) => q <= -m)
    BY <2>1, Cancels
  <2> QED
    BY <2>1, <2>2, <2>4, <2>5, <2>6
<1> QED
  BY <1>1, <1>2

\* So the mean of a number of the column's width has that width.
LEMMA TruncatedInWidth ==
  ASSUME NEW n \in InWidth, NEW d \in Int, d > 0
  PROVE  Truncated(n, d) \in InWidth
<1>1. Half \in Int /\ Half > 0 /\ n \in Int /\ -Half <= n /\ n <= Half - 1
  BY HalfAssumption DEF InWidth
<1>2. d * (-Half) <= -Half
  BY <1>1
<1>3. Half - 1 <= d * (Half - 1)
  BY <1>1
<1>4. d * (-Half) \in Int /\ d * (Half - 1) \in Int
  BY <1>1
<1>5. -Half <= Truncated(n, d) /\ Truncated(n, d) <= Half - 1 /\ Truncated(n, d) \in Int
  BY <1>1, <1>2, <1>3, <1>4, TruncatedBetween
<1> QED
  BY <1>1, <1>5 DEF InWidth

\* Wrapping takes a number into the width, off by a multiple of 2 * Half.
LEMMA WrapIs ==
  ASSUME NEW n \in Int
  PROVE  /\ Wrap(n) \in InWidth
         /\ \E q \in Int : Wrap(n) = n + (2 * Half) * q
<1> DEFINE m == 2 * Half
           a == (n + Half) \div m
           r == (n + Half) % m
<1>1. Half \in Int /\ Half > 0 /\ m \in Int /\ m > 0 /\ m = Half + Half
  BY HalfAssumption
<1>2. a \in Int /\ r \in 0..(m - 1) /\ n + Half = m * a + r
  BY <1>1, DivMod
<1>3. Wrap(n) = r - Half
  BY DEF Wrap
<1>4. m * (-a) = -(m * a) /\ m * a \in Int
  BY <1>1, <1>2
<1> HIDE DEF m, a, r
<1>5. Wrap(n) = n + m * (-a) /\ -a \in Int
  BY <1>1, <1>2, <1>3, <1>4
<1>6. Wrap(n) \in InWidth
  BY <1>1, <1>2, <1>3 DEF InWidth
<1> QED
  BY <1>5, <1>6 DEF m

\* A number that stands for a sum stands, wrapped, for the sum with one more term.
LEMMA CongruentAdd ==
  ASSUME NEW s \in Int, NEW t \in Int, NEW v \in Int, (s - t) % (2 * Half) = 0
  PROVE  (Wrap(s + v) - (t + v)) % (2 * Half) = 0
<1> DEFINE m == 2 * Half
<1>1. m \in Int /\ m > 0
  BY HalfAssumption
<1>2. PICK q \in Int : Wrap(s + v) = (s + v) + m * q
  BY WrapIs
<1> DEFINE a == (s - t) \div m
<1>3. s - t = m * a + 0 /\ a \in Int
  <2>1. (s - t) % m = 0 /\ s - t \in Int
    OBVIOUS
  <2> HIDE DEF m
  <2>2. s - t = m * a + ((s - t) % m) /\ a \in Int
    BY <1>1, <2>1, DivMod
  <2> QED
    BY <2>1, <2>2
<1> HIDE DEF m, a
<1>4. m * (a + q) = m * a + m * q /\ m * a \in Int /\ m * q \in Int
  BY <1>1, <1>3
<1>5. Wrap(s + v) - (t + v) = m * (a + q) /\ a + q \in Int
  BY <1>2, <1>3, <1>4
<1>6. (m * (a + q)) % m = 0
  BY <1>1, <1>5, MultipleHasNoRest
<1> QED
  BY <1>5, <1>6 DEF m

\* Within the width, a number stands for one sum only.
LEMMA CongruentInWidth ==
  ASSUME NEW s \in InWidth, NEW t \in InWidth, (s - t) % (2 * Half) = 0
  PROVE  s = t
<1> DEFINE m == 2 * Half
           a == (s - t) \div m
<1>1. Half \in Int /\ Half > 0 /\ m \in Int /\ m > 0 /\ m = Half + Half
      /\ s \in Int /\ t \in Int /\ -m < s - t /\ s - t < m
  BY HalfAssumption DEF InWidth
<1>2. s - t = m * a + 0 /\ a \in Int
  <2>1. (s - t) % m = 0
    OBVIOUS
  <2> QED
    BY <1>1, <2>1, DivMod
<1> HIDE DEF m, a
<1>3. (a >= 1 => m * a >= m) /\ (a <= -1 => m * a <= -m) /\ m * 0 = 0 /\ m * a \in Int
  BY <1>1, <1>2
<1>4. a = 0
  BY <1>1, <1>2, <1>3
<1> QED
  BY <1>1, <1>2, <1>3, <1>4

-----------------------------------------------------------------------------
(* Totals.                                                                 *)

Term(vs, rows, n) == IF n \in rows THEN vs[n] ELSE 0

\* f adds the values of the rows up, row number by row number.
AddsUp(f, vs, rows) ==
  /\ f \in [0..Len(vs) -> Int]
  /\ f[0] = 0
  /\ \A n \in 1..Len(vs) : f[n] = f[n - 1] + Term(vs, rows, n)

IsNumeric(vs, rows) == \A i \in rows : vs[i] \in Int

\* There is such an f, and the total is what it ends with.
LEMMA TotalAddsUp ==
  ASSUME NEW vs, NEW rows, IsNumeric(vs, rows), Len(vs) \in Nat
  PROVE  \E f : AddsUp(f, vs, rows) /\ Total(vs, rows) = f[Len(vs)]
<1> DEFINE N == Len(vs)
           Sums(f, n) == /\ f \in [0..n -> Int]
                         /\ f[0] = 0
                         /\ \A m \in 1..n : f[m] = f[m - 1] + Term(vs, rows, m)
           T == {n \in Nat : \E f : Sums(f, n)}
<1>1. \A n \in Nat : Term(vs, rows, n) \in Int
  BY DEF Term, IsNumeric
<1>2. 0 \in T
  <2> DEFINE f == [m \in 0..0 |-> 0]
  <2>1. Sums(f, 0)
    OBVIOUS
  <2> QED
    BY <2>1
<1>3. ASSUME NEW n \in Nat, n \in T PROVE n + 1 \in T
  <2>1. PICK f : Sums(f, n)
    BY <1>3
  <2> DEFINE g == [m \in 0..(n + 1) |-> IF m = n + 1 THEN f[n] + Term(vs, rows, n + 1) ELSE f[m]]
  <2>2. f[n] + Term(vs, rows, n + 1) \in Int
    BY <1>1, <2>1
  <2>3. g \in [0..(n + 1) -> Int]
    BY <2>1, <2>2
  <2>4. g[0] = 0 /\ \A m \in 1..(n + 1) : g[m] = g[m - 1] + Term(vs, rows, m)
    BY <2>1
  <2>5. Sums(g, n + 1)
    BY <2>3, <2>4
  <2> HIDE DEF g
  <2> QED
    BY <2>5, SMTT(30)
<1>4. PICK f : Sums(f, N)
  <2> HIDE DEF T
  <2>1. N \in T
    BY <1>2, <1>3, Induction
  <2> QED
    BY <2>1 DEF T
<1> DEFINE Rec(h) == [n \in 0..N |-> IF n = 0 THEN 0 ELSE h[n - 1] + Term(vs, rows, n)]
           up_to == CHOOSE h : h = Rec(h)
<1>5. f = Rec(f)
  BY <1>4
<1>6. up_to = Rec(up_to)
  BY <1>5
<1>7. Total(vs, rows) = up_to[N]
  BY DEF Total, Term
<1> DEFINE U == {n \in Nat : n <= N => up_to[n] = f[n]}
<1> HIDE DEF up_to
<1>8. 0 \in U
  BY <1>4, <1>6
<1>9. ASSUME NEW n \in Nat, n \in U PROVE n + 1 \in U
  BY <1>4, <1>6, <1>9
<1>10. up_to[N] = f[N]
  <2> HIDE DEF U
  <2>1. N \in U
    BY <1>8, <1>9, Induction
  <2> QED
    BY <2>1 DEF U
<1> QED
  BY <1>4, <1>7, <1>10 DEF AddsUp

\* Two row sets that differ by a row have totals that differ by its value.
LEMMA TotalAdd ==
  ASSUME NEW vs, NEW rows, IsNumeric(vs, rows), Len(vs) \in Nat,
         NEW i \in 1..Len(vs), i \notin rows, vs[i] \in Int
  PROVE  /\ Total(vs, rows) \in Int
         /\ Total(vs, rows \cup {i}) = Total(vs, rows) + vs[i]
<1> DEFINE N == Len(vs)
<1>1. IsNumeric(vs, rows \cup {i})
  BY DEF IsNumeric
<1>2. PICK f : AddsUp(f, vs, rows) /\ Total(vs, rows) = f[N]
  BY TotalAddsUp
<1>3. PICK g : AddsUp(g, vs, rows \cup {i}) /\ Total(vs, rows \cup {i}) = g[N]
  BY <1>1, TotalAddsUp
<1> DEFINE T == {n \in Nat : n <= N => g[n] = f[n] + IF n < i THEN 0 ELSE vs[i]}
<1>4. 0 \in T
  BY <1>2, <1>3 DEF AddsUp
<1>5. ASSUME NEW n \in Nat, n \in T PROVE n + 1 \in T
  <2> SUFFICES ASSUME n + 1 <= N
               PROVE  g[n + 1] = f[n + 1] + IF n + 1 < i THEN 0 ELSE vs[i]
    OBVIOUS
  <2>1. /\ g[n + 1] = g[n] + Term(vs, rows \cup {i}, n + 1)
        /\ f[n + 1] = f[n] + Term(vs, rows, n + 1)
        /\ f[n] \in Int /\ f[n + 1] \in Int
    <3>1. n + 1 \in 1..N /\ (n + 1) - 1 = n /\ n \in 0..N /\ n + 1 \in 0..N
      OBVIOUS
    <3> QED
      BY <1>2, <1>3, <3>1 DEF AddsUp
  <2>2. g[n] = f[n] + IF n < i THEN 0 ELSE vs[i]
    BY <1>5
  <2>3. CASE n + 1 = i
    BY <2>1, <2>2, <2>3 DEF Term
  <2>4. CASE n + 1 # i
    <3>1. Term(vs, rows \cup {i}, n + 1) = Term(vs, rows, n + 1) /\ Term(vs, rows, n + 1) \in Int
      BY <2>4 DEF Term, IsNumeric
    <3> QED
      BY <2>1, <2>2, <2>4, <3>1
  <2> QED
    BY <2>3, <2>4
<1>6. N \in T
  <2> HIDE DEF T
  <2> QED
    BY <1>4, <1>5, Induction
<1> QED
  BY <1>2, <1>3, <1>6 DEF AddsUp

\* No rows add up to nothing.
LEMMA TotalOfNone ==
  ASSUME NEW vs, Len(vs) \in Nat
  PROVE  Total(vs, {}) = 0
<1> DEFINE N == Len(vs)
<1>1. PICK f : AddsUp(f, vs, {}) /\ Total(vs, {}) = f[N]
  BY TotalAddsUp DEF IsNumeric
<1> DEFINE T == {n \in Nat : n <= N => f[n] = 0}
<1>2. 0 \in T
  BY <1>1 DEF AddsUp
<1>3. ASSUME NEW n \in Nat, n \in T PROVE n + 1 \in T
  BY <1>1, <1>3 DEF AddsUp, Term
<1>4. N \in T
  <2> HIDE DEF T
  <2> QED
    BY <1>2, <1>3, Induction
<1> QED
  BY <1>1, <1>4

\* A bound of the values, times how many they are, bounds their total.
LEMMA TotalBetween ==
  ASSUME NEW vs, NEW rows \in SUBSET (1..Len(vs)), IsNumeric(vs, rows), Len(vs) \in Nat, NEW m \in Int
  PROVE  /\ Total(vs, rows) \in Int /\ Cardinality(rows) \in Nat
         /\ (\A i \in rows : m <= vs[i]) => Cardinality(rows) * m <= Total(vs, rows)
         /\ (\A i \in rows : vs[i] <= m) => Total(vs, rows) <= Cardinality(rows) * m
<1> DEFINE N == Len(vs)
           P(S) == /\ Total(vs, S) \in Int /\ Cardinality(S) \in Nat
                   /\ (\A i \in rows : m <= vs[i]) => Cardinality(S) * m <= Total(vs, S)
                   /\ (\A i \in rows : vs[i] <= m) => Total(vs, S) <= Cardinality(S) * m
           UpTo(n) == {i \in rows : i <= n}
           T == {n \in Nat : n <= N => P(UpTo(n))}
<1>0. \A i \in rows : i \in Nat /\ 1 <= i /\ i <= N
  OBVIOUS
<1>1. 0 \in T
  <2>1. UpTo(0) = {}
    <3>1. \A i \in rows : ~(i <= 0)
      BY <1>0
    <3> QED
      BY <3>1
  <2>2. Total(vs, {}) = 0 /\ Cardinality({}) = 0
    BY TotalOfNone, FS_EmptySet
  <2>3. P({})
    BY <2>2
  <2> HIDE DEF P, UpTo
  <2> QED
    BY <2>1, <2>3
<1>2. ASSUME NEW n \in Nat, n \in T PROVE n + 1 \in T
  <2> SUFFICES ASSUME n + 1 <= N PROVE P(UpTo(n + 1))
    OBVIOUS
  <2>1. P(UpTo(n))
    BY <1>2
  <2>2. CASE n + 1 \notin rows
    <3>1. \A i \in rows : i <= n + 1 <=> i <= n
      BY <1>0, <2>2
    <3>2. UpTo(n + 1) = UpTo(n)
      BY <3>1
    <3> HIDE DEF P, UpTo
    <3> QED
      BY <2>1, <3>2
  <2>3. CASE n + 1 \in rows
    <3> DEFINE S == UpTo(n)
    <3>0. \A i \in rows : i <= n + 1 <=> (i <= n \/ i = n + 1)
      BY <1>0, <2>3
    <3>1. UpTo(n + 1) = S \cup {n + 1} /\ n + 1 \notin S
      <4>1. ~(n + 1 <= n)
        OBVIOUS
      <4> QED
        BY <2>3, <3>0, <4>1, Zenon
    <3>2. IsNumeric(vs, S) /\ vs[n + 1] \in Int
      BY <2>3 DEF IsNumeric
    <3>3. Total(vs, S \cup {n + 1}) = Total(vs, S) + vs[n + 1] /\ Total(vs, S) \in Int
      BY <3>1, <3>2, TotalAdd, ZenonT(60)
    <3>4. Cardinality(S \cup {n + 1}) = Cardinality(S) + 1 /\ Cardinality(S) \in Nat
      <4>1. IsFiniteSet(S)
        <5>1. IsFiniteSet(1..N)
          BY FS_Interval
        <5>2. S \subseteq 1..N
          OBVIOUS
        <5> QED
          BY <5>1, <5>2, FS_Subset
      <4> QED
        BY <3>1, <4>1, FS_AddElement, FS_CardinalityType
    <3> DEFINE c == Cardinality(S)
               t == Total(vs, S)
               v == vs[n + 1]
    <3>5. (c + 1) * m = c * m + m /\ c * m \in Int
      BY <3>4
    <3>6. P(S)
      BY <2>1
    <3>7. /\ (\A i \in rows : m <= vs[i]) => m <= v
          /\ (\A i \in rows : vs[i] <= m) => v <= m
      BY <2>3
    <3> HIDE DEF S, c, t, v
    <3>8. /\ Cardinality(S \cup {n + 1}) = c + 1 /\ Total(vs, S \cup {n + 1}) = t + v
          /\ c \in Nat /\ t \in Int /\ v \in Int
      BY <3>2, <3>3, <3>4 DEF c, t, v
    <3>9. /\ (\A i \in rows : m <= vs[i]) => c * m <= t
          /\ (\A i \in rows : vs[i] <= m) => t <= c * m
      BY <3>6 DEF c, t
    <3>10. P(S \cup {n + 1})
      BY <3>5, <3>7, <3>8, <3>9
    <3> QED
      BY <3>1, <3>10 DEF S
  <2> QED
    BY <2>2, <2>3
<1>3. N \in T
  <2> HIDE DEF T
  <2> QED
    BY <1>1, <1>2, Induction
<1>4. UpTo(N) = rows
  BY <1>0
<1>5. P(UpTo(N))
  <2> HIDE DEF P, UpTo
  <2> QED
    BY <1>3
<1> QED
  BY <1>4, <1>5

-----------------------------------------------------------------------------
(* A set of numbers has one ascending enumeration.                         *)

\* Two ascending sequences that agree before a place: the second has none greater there.
LEMMA AscendingNext ==
  ASSUME NEW S \in SUBSET Int, NEW m \in Nat, NEW n \in Nat,
         NEW s \in [1..m -> S], NEW t \in [1..n -> S], IsAscending(s, S), IsAscending(t, S),
         NEW x \in 1..m, \A y \in 1..(x - 1) : y \in 1..n /\ s[y] = t[y]
  PROVE  x \in 1..n /\ t[x] <= s[x]
<1>1. PICK y \in 1..n : t[y] = s[x]
  BY DEF IsAscending
<1>2. /\ \A z \in 1..n : t[z] \in Int
      /\ \A z \in 1..m : s[z] \in Int
  OBVIOUS
<1>3. y >= x
  <2> SUFFICES ASSUME y < x PROVE FALSE
    OBVIOUS
  <2>1. y \in 1..(x - 1) /\ y \in 1..m
    OBVIOUS
  <2>2. s[y] = t[y] /\ s[y] < s[x]
    BY <2>1 DEF IsAscending
  <2> QED
    BY <1>1, <1>2, <2>1, <2>2
<1>4. x \in 1..n
  BY <1>3
<1>5. y > x => t[x] < t[y]
  BY <1>4 DEF IsAscending
<1> QED
  BY <1>1, <1>2, <1>3, <1>4, <1>5

\* A set has one ascending sequence at most.
LEMMA AscendingUnique ==
  ASSUME NEW S \in SUBSET Int, NEW m \in Nat, NEW n \in Nat,
         NEW s \in [1..m -> S], NEW t \in [1..n -> S], IsAscending(s, S), IsAscending(t, S)
  PROVE  s = t
<1> DEFINE Same(x) == x \in 1..m /\ x \in 1..n /\ s[x] = t[x]
           T == {x \in Nat \ {0} : (x \in 1..m \/ x \in 1..n) /\ ~Same(x)}
<1>1. T = {}
  <2> SUFFICES ASSUME T # {} PROVE FALSE
    OBVIOUS
  <2>1. PICK x \in T : \A y \in T : x <= y
    BY LeastElement
  <2>2. \A y \in 1..(x - 1) : Same(y)
    <3> TAKE y \in 1..(x - 1)
    <3>1. y \in Nat \ {0} /\ (y \in 1..m \/ y \in 1..n) /\ ~(x <= y)
      OBVIOUS
    <3> QED
      BY <2>1, <3>1
  <2>3. /\ \A z \in 1..n : t[z] \in Int
        /\ \A z \in 1..m : s[z] \in Int
    OBVIOUS
  <2>4. x \in 1..m => x \in 1..n /\ t[x] <= s[x]
    BY <2>2, AscendingNext
  <2>5. x \in 1..n => x \in 1..m /\ s[x] <= t[x]
    BY <2>2, AscendingNext
  <2> QED
    BY <2>3, <2>4, <2>5
<1>2. \A x \in Nat \ {0} : x \in 1..m \/ x \in 1..n => Same(x)
  BY <1>1
<1>3. m = n
  <2>1. m > 0 => m \in 1..m
    OBVIOUS
  <2>2. n > 0 => n \in 1..n
    OBVIOUS
  <2> QED
    BY <1>2, <2>1, <2>2
<1>4. \A x \in 1..m : s[x] = t[x]
  BY <1>2
<1> QED
  BY <1>3, <1>4

\* The ascending sequence of a set is any sequence found to be one.
LEMMA AscendingIs ==
  ASSUME NEW S \in SUBSET Int, NEW n \in Nat, NEW s \in [1..n -> S], IsAscending(s, S)
  PROVE  Ascending(S) = s
<1>1. s \in Bijection(1..n, S)
  <2>1. \A x, y \in 1..n : s[x] = s[y] => x = y
    <3> TAKE x, y \in 1..n
    <3>1. s[x] \in Int /\ s[y] \in Int
      OBVIOUS
    <3>2. (x < y => s[x] < s[y]) /\ (y < x => s[y] < s[x])
      BY DEF IsAscending
    <3> QED
      BY <3>1, <3>2
  <2>2. \A e \in S : \E x \in 1..n : s[x] = e
    BY DEF IsAscending
  <2> QED
    BY <2>1, <2>2 DEF Bijection, Injection, Surjection, IsInjective
<1>2. Cardinality(S) = n
  BY <1>1, FS_CountingElements DEF ExistsBijection
<1> DEFINE c == CHOOSE t \in [1..n -> S] : IsAscending(t, S)
<1>3. c \in [1..n -> S] /\ IsAscending(c, S)
  OBVIOUS
<1>4. Ascending(S) = c
  BY <1>2 DEF Ascending
<1> HIDE DEF c
<1> QED
  BY <1>3, <1>4, AscendingUnique

-----------------------------------------------------------------------------
(* The groups.                                                             *)

\* Ordered lists, for each place of grouping_order, the rows of a group of the map.
LEMMA OrderedIs ==
  ASSUME GroupInv
  PROVE  /\ Len(key) \in Nat /\ DOMAIN key = 1..Len(key) /\ row \in 1..(Len(key) + 1)
         /\ Len(grouping_order) \in Nat /\ DOMAIN grouping_order = 1..Len(grouping_order)
         /\ DOMAIN Ordered = 1..Len(grouping_order)
         /\ \A g \in DOMAIN Ordered :
              /\ grouping_order[g] \in DOMAIN groups
              /\ Ordered[g] = groups[grouping_order[g]]
              /\ Ordered[g] \in Seq(1..(row - 1)) /\ Ordered[g] # << >>
<1>1. /\ Len(key) \in Nat /\ DOMAIN key = 1..Len(key) /\ row \in 1..(Len(key) + 1)
  BY DEF GroupInv, Counted
<1>2. /\ Len(grouping_order) \in Nat /\ DOMAIN grouping_order = 1..Len(grouping_order)
      /\ \A g \in DOMAIN grouping_order : grouping_order[g] \in DOMAIN groups
  BY DEF GroupInv, Listed
<1>3. \A g \in DOMAIN groups : groups[g] \in Seq(1..(row - 1)) /\ groups[g] # << >>
  BY DEF GroupInv, GroupsWritten
<1> QED
  BY <1>1, <1>2, <1>3 DEF Ordered

\* A group lists its rows in ascending order, first the first row of its key.
LEMMA GroupsAscend ==
  ASSUME GroupInv, KeyClasses
  PROVE  \A g \in DOMAIN Ordered :
           /\ Len(Ordered[g]) \in Nat \ {0} /\ DOMAIN Ordered[g] = 1..Len(Ordered[g])
           /\ \A x \in DOMAIN Ordered[g] : Ordered[g][x] \in 1..(row - 1)
           /\ \A x, y \in DOMAIN Ordered[g] : x < y => Ordered[g][x] < Ordered[g][y]
           /\ IsAscending(Ordered[g], {i \in 1..(row - 1) : key[i] = key[Ordered[g][1]]})
<1> TAKE g \in DOMAIN Ordered
<1> DEFINE s == Ordered[g]
           S == {i \in 1..(row - 1) : key[i] = key[s[1]]}
<1>1. s \in Seq(1..(row - 1)) /\ s # << >>
  BY OrderedIs
<1>2. Len(s) \in Nat \ {0} /\ DOMAIN s = 1..Len(s) /\ \A x \in DOMAIN s : s[x] \in 1..(row - 1)
  <2> DEFINE R == 1..(row - 1)
  <2>1. s \in Seq(R) /\ s # << >>
    BY <1>1
  <2> HIDE DEF s, R
  <2>2. Len(s) \in Nat \ {0} /\ DOMAIN s = 1..Len(s) /\ \A x \in DOMAIN s : s[x] \in R
    BY <2>1
  <2> QED
    BY <2>2 DEF R
<1>3. 1 \in DOMAIN s
  BY <1>2
<1>4. \A x, y \in DOMAIN s : x < y => s[x] < s[y]
  BY DEF KeyClasses, Grouped!Classes
<1>5. \A x \in DOMAIN s : key[s[x]] = key[s[1]]
  BY <1>3 DEF KeyClasses, Grouped!Classes, Grouped!SameKey
<1>6. \A i \in S : \E x \in DOMAIN s : s[x] = i
  <2> TAKE i \in S
  <2>1. PICK h \in DOMAIN Ordered : i \in Grouped!Members(h)
    BY DEF KeyClasses, Grouped!Classes
  <2>2. PICK y \in DOMAIN Ordered[h] : Ordered[h][y] = i
    BY <2>1 DEF Grouped!Members
  <2>3. h = g
    BY <1>3, <2>2 DEF KeyClasses, Grouped!Classes, Grouped!SameKey
  <2> QED
    BY <2>2, <2>3
<1>7. {s[x] : x \in DOMAIN s} = S
  BY <1>2, <1>5, <1>6
<1> QED
  BY <1>2, <1>4, <1>7 DEF IsAscending

\* Once all rows are taken, the groups are those of the reference.
LEMMA OrderedIsGroupsOf ==
  ASSUME GroupInv, KeyClasses, row > Len(key)
  PROVE  Ordered = GroupsOf(key)
<1>1. row - 1 = Len(key) /\ DOMAIN key = 1..(row - 1) /\ DOMAIN key \subseteq Int
  BY OrderedIs
<1> DEFINE n == Len(grouping_order)
           firsts == [g \in 1..n |-> Ordered[g][1]]
<1>2. n \in Nat /\ DOMAIN Ordered = 1..n
  BY OrderedIs
<1>3. \A g \in 1..n : 1 \in DOMAIN Ordered[g] /\ firsts[g] \in DOMAIN key
  <2> TAKE g \in 1..n
  <2>1. 1 \in DOMAIN Ordered[g]
    <3>1. Len(Ordered[g]) \in Nat \ {0} /\ DOMAIN Ordered[g] = 1..Len(Ordered[g])
      BY <1>2, GroupsAscend
    <3> HIDE DEF firsts
    <3> QED
      BY <3>1
  <2>2. Ordered[g][1] \in 1..(row - 1)
    BY <1>2, <2>1, GroupsAscend
  <2> QED
    BY <1>1, <2>1, <2>2
<1>4. \A g \in 1..n : firsts[g] \in FirstRows(key)
  <2> TAKE g \in 1..n
  <2> SUFFICES ASSUME NEW j \in 1..(firsts[g] - 1), key[j] = key[firsts[g]] PROVE FALSE
    BY <1>3 DEF FirstRows
  <2>1. j \in 1..(row - 1) /\ j < firsts[g]
    BY <1>1, <1>3
  <2>2. PICK x \in DOMAIN Ordered[g] : Ordered[g][x] = j
    <3>1. j \in {i \in 1..(row - 1) : key[i] = key[Ordered[g][1]]}
      BY <2>1
    <3>2. IsAscending(Ordered[g], {i \in 1..(row - 1) : key[i] = key[Ordered[g][1]]})
      BY <1>2, GroupsAscend
    <3> QED
      BY <3>1, <3>2 DEF IsAscending
  <2>3. x = 1 \/ 1 < x
    <3>1. Len(Ordered[g]) \in Nat \ {0} /\ DOMAIN Ordered[g] = 1..Len(Ordered[g])
      BY <1>2, GroupsAscend
    <3> HIDE DEF n, firsts
    <3> QED
      BY <3>1
  <2>4. 1 < x => Ordered[g][1] < Ordered[g][x]
    BY <1>2, <1>3, <2>2, GroupsAscend
  <2>5. firsts[g] = Ordered[g][1] /\ firsts[g] \in Int /\ j \in Int
    BY <1>1, <1>3
  <2> HIDE DEF firsts
  <2> QED
    BY <2>1, <2>2, <2>3, <2>4, <2>5
<1>5. \A i \in FirstRows(key) : \E g \in 1..n : firsts[g] = i
  <2> TAKE i \in FirstRows(key)
  <2>1. i \in 1..(row - 1)
    BY <1>1 DEF FirstRows
  <2>2. PICK g \in DOMAIN Ordered : i \in Grouped!Members(g)
    BY <2>1 DEF KeyClasses, Grouped!Classes
  <2>3. PICK x \in DOMAIN Ordered[g] : Ordered[g][x] = i
    BY <2>2 DEF Grouped!Members
  <2>4. x = 1 \/ 1 < x
    <3>1. Len(Ordered[g]) \in Nat \ {0} /\ DOMAIN Ordered[g] = 1..Len(Ordered[g])
      BY <1>2, GroupsAscend
    <3> HIDE DEF n, firsts
    <3> QED
      BY <3>1
  <2>5. 1 < x => firsts[g] < i /\ firsts[g] \in Nat \ {0} /\ key[firsts[g]] = key[i]
    BY <1>1, <1>2, <1>3, <2>3, GroupsAscend, SMTT(30)
       DEF KeyClasses, Grouped!Classes, Grouped!SameKey
  <2>6. 1 < x => firsts[g] \in 1..(i - 1)
    BY <2>1, <2>5
  <2> QED
    BY <1>2, <2>3, <2>4, <2>5, <2>6 DEF FirstRows
<1>6. Ascending(FirstRows(key)) = firsts
  <2>1. firsts \in [1..n -> FirstRows(key)]
    BY <1>4
  <2>2. \A x, y \in 1..n : x < y => firsts[x] < firsts[y]
    BY <1>2, <1>3 DEF KeyClasses, Grouped!Classes
  <2>3. IsAscending(firsts, FirstRows(key))
    BY <1>4, <1>5, <2>2 DEF IsAscending
  <2>4. FirstRows(key) \in SUBSET Int
    BY <1>1 DEF FirstRows
  <2> HIDE DEF firsts
  <2> QED
    BY <1>2, <2>1, <2>3, <2>4, AscendingIs
<1>7. \A g \in 1..n : Ascending({i \in DOMAIN key : key[i] = key[firsts[g]]}) = Ordered[g]
  <2> TAKE g \in 1..n
  <2> DEFINE S == {i \in 1..(row - 1) : key[i] = key[Ordered[g][1]]}
             s == Ordered[g]
  <2>1. IsAscending(s, S) /\ Len(s) \in Nat /\ DOMAIN s = 1..Len(s)
    BY <1>2, GroupsAscend
  <2>2. s \in [1..Len(s) -> S]
    <3>1. \A x \in DOMAIN s : s[x] \in S
      BY <2>1 DEF IsAscending
    <3>2. s \in Seq(1..(row - 1))
      BY <1>2, OrderedIs
    <3> HIDE DEF s, S
    <3> QED
      BY <2>1, <3>1, <3>2
  <2>3. S \in SUBSET Int
    BY <1>1
  <2> HIDE DEF s, S
  <2>4. Ascending(S) = s
    BY <2>1, <2>2, <2>3, AscendingIs
  <2> QED
    BY <1>1, <2>4 DEF s, S
<1>8. GroupsOf(key) = [g \in 1..n |-> Ascending({i \in DOMAIN key : key[i] = key[firsts[g]]})]
  BY <1>6 DEF GroupsOf
<1>9. Ordered = [g \in 1..n |-> Ordered[g]]
  BY <1>2 DEF Ordered
<1> QED
  BY <1>7, <1>8, <1>9

-----------------------------------------------------------------------------
(* Sets of valid rows.                                                     *)

\* The valid cells of a column are numbers of its width.
LEMMA ValidRowsAre ==
  ASSUME AggTypeOK, NEW rows \in SUBSET DOMAIN key, Len(key) \in Nat, DOMAIN key = 1..Len(key)
  PROVE  LET valid == ValidRows(values, rows)
         IN  /\ IsNumeric(values, valid) /\ \A i \in valid : values[i] \in InWidth
             /\ valid \in SUBSET (1..Len(values)) /\ Len(values) = Len(key)
             /\ IsFiniteSet(valid) /\ Cardinality(valid) \in 0..Len(key)
             /\ Cardinality(valid) = 0 <=> valid = {}
<1> DEFINE valid == ValidRows(values, rows)
<1>1. InWidth \subseteq Int
  BY HalfAssumption DEF InWidth
<1>2. values \in [1..Len(key) -> InWidth \cup {NULL}]
  BY DEF AggTypeOK
<1>3. Len(values) = Len(key)
  BY <1>2
<1>4. \A i \in valid : values[i] \in InWidth /\ i \in 1..Len(key)
  BY <1>2 DEF ValidRows
<1>5. IsFiniteSet(1..Len(key)) /\ Cardinality(1..Len(key)) = Len(key)
  BY FS_Interval, SMTT(30)
<1>6. valid \in SUBSET (1..Len(key))
  BY <1>4
<1> HIDE DEF valid
<1>7. IsFiniteSet(valid) /\ Cardinality(valid) <= Len(key)
  <2> DEFINE all == 1..Len(key)
  <2>1. IsFiniteSet(all) /\ Cardinality(all) = Len(key) /\ valid \in SUBSET all
    BY <1>5, <1>6
  <2> HIDE DEF all
  <2> QED
    BY <2>1, FS_Subset
<1>8. Cardinality(valid) \in Nat /\ (Cardinality(valid) = 0 <=> valid = {})
  BY <1>7, FS_CardinalityType, FS_EmptySet
<1>9. IsNumeric(values, valid)
  BY <1>1, <1>4 DEF IsNumeric
<1> QED
  BY <1>3, <1>4, <1>6, <1>7, <1>8, <1>9 DEF valid

\* No row, and one more row.
LEMMA ValidRowsGrow ==
  ASSUME NEW rows, NEW r
  PROVE  /\ ValidRows(values, {}) = {}
         /\ values[r] = NULL => ValidRows(values, rows \cup {r}) = ValidRows(values, rows)
         /\ values[r] # NULL => ValidRows(values, rows \cup {r}) = ValidRows(values, rows) \cup {r}
  BY DEF ValidRows

\* accumulate keeps what the state stands for, with one more valid cell.
LEMMA SumStep ==
  ASSUME NEW vs, Len(vs) \in Nat, NEW rows, IsNumeric(vs, rows),
         NEW r \in 1..Len(vs), r \notin rows, vs[r] \in InWidth,
         NEW s, IsSum(s, vs, rows)
  PROVE  IsSum(Wrap(s + vs[r]), vs, rows \cup {r})
<1>1. s \in Int /\ vs[r] \in Int
  BY HalfAssumption DEF IsSum, InWidth
<1>2. Total(vs, rows) \in Int /\ Total(vs, rows \cup {r}) = Total(vs, rows) + vs[r]
  BY <1>1, TotalAdd
<1>3. (Wrap(s + vs[r]) - (Total(vs, rows) + vs[r])) % (2 * Half) = 0
  <2> DEFINE t == Total(vs, rows)
             v == vs[r]
  <2>1. (s - t) % (2 * Half) = 0 /\ t \in Int /\ v \in Int
    BY <1>1, <1>2 DEF IsSum
  <2> HIDE DEF t, v
  <2>2. (Wrap(s + v) - (t + v)) % (2 * Half) = 0
    BY <1>1, <2>1, CongruentAdd
  <2> QED
    BY <2>2 DEF t, v
<1>4. Wrap(s + vs[r]) \in InWidth
  <2>1. s + vs[r] \in Int
    BY <1>1
  <2> QED
    BY <2>1, WrapIs
<1> QED
  BY <1>2, <1>3, <1>4 DEF IsSum

\* The first valid cell is the sum of itself.
LEMMA SumStart ==
  ASSUME NEW vs, Len(vs) \in Nat, NEW r \in 1..Len(vs), vs[r] \in InWidth
  PROVE  IsSum(vs[r], vs, {r})
<1>1. vs[r] \in Int
  BY HalfAssumption DEF InWidth
<1>2. Total(vs, {} \cup {r}) = Total(vs, {}) + vs[r] /\ Total(vs, {}) = 0
  BY <1>1, TotalAdd, TotalOfNone DEF IsNumeric
<1>3. {} \cup {r} = {r}
  OBVIOUS
<1>4. vs[r] - Total(vs, {r}) = 0
  BY <1>1, <1>2, <1>3
<1>5. 0 % (2 * Half) = 0
  <2>1. 2 * Half \in Int /\ 2 * Half > 0 /\ (2 * Half) * 0 = 0
    BY HalfAssumption
  <2> QED
    BY <2>1, MultipleHasNoRest
<1> QED
  BY <1>4, <1>5 DEF IsSum

\* The smaller of the least cell and the next one is the least of both.
LEMMA LeastStep ==
  ASSUME NEW vs, NEW rows, NEW r, vs[r] \in Int, \A i \in rows : vs[i] \in Int, NEW s
  PROVE  /\ IsLeast(s, vs, rows) => IsLeast(Min({s, vs[r]}), vs, rows \cup {r})
         /\ IsGreatest(s, vs, rows) => IsGreatest(Max({s, vs[r]}), vs, rows \cup {r})
         /\ IsLeast(vs[r], vs, {r}) /\ IsGreatest(vs[r], vs, {r})
<1>1. ASSUME IsLeast(s, vs, rows) PROVE IsLeast(Min({s, vs[r]}), vs, rows \cup {r})
  <2>1. s \in Int /\ \A i \in rows : s <= vs[i]
    BY <1>1 DEF IsLeast
  <2> DEFINE m == Min({s, vs[r]})
  <2>2. m \in {s, vs[r]} /\ m <= s /\ m <= vs[r]
    <3>1. \E x \in {s, vs[r]} : \A y \in {s, vs[r]} : x <= y
      BY <2>1
    <3> QED
      BY <3>1 DEF Min
  <2> HIDE DEF m
  <2>3. m \in {vs[i] : i \in rows \cup {r}}
    BY <1>1, <2>2 DEF IsLeast
  <2>4. \A i \in rows \cup {r} : m <= vs[i]
    BY <2>1, <2>2
  <2> QED
    BY <2>3, <2>4 DEF IsLeast, m
<1>2. ASSUME IsGreatest(s, vs, rows) PROVE IsGreatest(Max({s, vs[r]}), vs, rows \cup {r})
  <2>1. s \in Int /\ \A i \in rows : s >= vs[i]
    BY <1>2 DEF IsGreatest
  <2> DEFINE m == Max({s, vs[r]})
  <2>2. m \in {s, vs[r]} /\ m >= s /\ m >= vs[r]
    <3>1. \E x \in {s, vs[r]} : \A y \in {s, vs[r]} : x >= y
      BY <2>1
    <3> QED
      BY <3>1 DEF Max
  <2> HIDE DEF m
  <2>3. m \in {vs[i] : i \in rows \cup {r}}
    BY <1>2, <2>2 DEF IsGreatest
  <2>4. \A i \in rows \cup {r} : m >= vs[i]
    BY <2>1, <2>2
  <2> QED
    BY <2>3, <2>4 DEF IsGreatest, m
<1>3. IsLeast(vs[r], vs, {r}) /\ IsGreatest(vs[r], vs, {r})
  BY DEF IsLeast, IsGreatest
<1> QED
  BY <1>1, <1>2, <1>3

-----------------------------------------------------------------------------
(* The aggregation.                                                        *)

\* Behind it goes the grouping of GroupBy.
LEMMA AggIsGrouping == AggSpec => Spec
<1>1. AggInit => Init
  BY DEF AggInit, Init
<1>2. [AggNext]_agg_vars => [Next]_group_vars
  BY DEF AggNext, agg_vars, Group, AppendKeys, AggregateRow, Aggregating, FinalizeGroup, Return
<1> QED
  BY <1>1, <1>2, PTL DEF AggSpec, Spec

\* Before the first row no valid cell has been seen.
LEMMA NoCells == Cardinality(ValidRows(values, {})) = 0
  BY FS_EmptySet, ValidRowsGrow

\* agg starts in the invariant.
LEMMA AggInitHolds == AggInit => AggInv
<1> SUFFICES ASSUME NEW in \in Inputs, Take(in), values = in.values, fn = in.fn, phase = "group",
                    group = 1, position = 1, state = 0, valid_count = 0,
                    key_rows = << >>, cells = << >>
             PROVE  AggInv
  BY DEF AggInit
<1>1. GroupInv
  BY InitEstablishes DEF Init
<1>2. /\ columns \in Nat /\ Len(key) \in Nat /\ row = 1 /\ column = 1 /\ gid = << >>
      /\ groups = << >> /\ grouping_order = << >>
  BY <1>1 DEF Take, GroupInv, Counted
<1>3. values \in [DOMAIN key -> InWidth \cup {NULL}] /\ fn \in AggregateFunctions
  BY AggregatesAssumption DEF Take
<1>4. 0 \in InWidth
  BY HalfAssumption DEF InWidth
<1>5. DOMAIN << >> = {} /\ Len(<< >>) = 0 /\ << >> \in Seq({})
  OBVIOUS
<1>6. AggTypeOK
  BY <1>2, <1>3, <1>4, <1>5 DEF AggTypeOK
<1>7. LoopsInv
  BY <1>2, <1>5 DEF LoopsInv
<1>8. KernelInv /\ CellsInv
  BY <1>5 DEF KernelInv, CellsInv
<1> QED
  BY <1>6, <1>7, <1>8 DEF AggInv

\* What the grouping keeps of the types.
LEMMA GroupTypes ==
  GroupInv => /\ row \in 1..(Len(key) + 1) /\ column \in 1..(columns + 1)
              /\ \A g \in DOMAIN groups : groups[g] \in Seq(DOMAIN key) \ {<< >>}
              /\ grouping_order \in Seq(DOMAIN groups)
<1> SUFFICES ASSUME GroupInv
             PROVE  /\ row \in 1..(Len(key) + 1) /\ column \in 1..(columns + 1)
                    /\ \A g \in DOMAIN groups : groups[g] \in Seq(DOMAIN key) \ {<< >>}
                    /\ grouping_order \in Seq(DOMAIN groups)
  OBVIOUS
<1>1. Len(key) \in Nat /\ DOMAIN key = 1..Len(key) /\ row \in 1..(Len(key) + 1)
  BY DEF GroupInv, Counted
<1>2. 1..(row - 1) \subseteq DOMAIN key
  BY <1>1
<1>3. \A g \in DOMAIN groups : groups[g] \in Seq(1..(row - 1)) /\ groups[g] # << >>
  BY DEF GroupInv, GroupsWritten
<1>4. \A g \in DOMAIN groups : groups[g] \in Seq(DOMAIN key)
  <2> DEFINE R == 1..(row - 1)
             D == DOMAIN key
  <2>1. R \subseteq D /\ \A g \in DOMAIN groups : groups[g] \in Seq(R)
    BY <1>2, <1>3
  <2> HIDE DEF R, D
  <2>2. \A g \in DOMAIN groups : groups[g] \in Seq(D)
    BY <2>1
  <2> QED
    BY <2>2 DEF D
<1> QED
  BY <1>1, <1>3, <1>4 DEF GroupInv, Counted, Listed

\* The grouping loop keeps the invariant: nothing is aggregated before it ends.
LEMMA GroupKeeps ==
  ASSUME AggInv, GroupInv, GroupInv', Group
  PROVE  AggInv'
<1>1. /\ phase = "group" /\ Next
      /\ UNCHANGED <<values, fn, phase, group, position, state, valid_count, key_rows, cells, key, columns>>
  BY DEF Group, Next, kernel, KeyColumn, OldGroup, NewGroup, NextRow, inputs
<1>2. AggTypeOK /\ LoopsInv
  BY DEF AggInv
<1>3. /\ group = 1 /\ Len(cells) = 0 /\ position = 1
      /\ state = 0 /\ valid_count = 0 /\ DOMAIN cells = {}
  BY <1>1, <1>2 DEF LoopsInv, AggTypeOK
<1>4. gid' \in Seq(Chars)
  <2>1. CASE KeyColumn
    <3>1. row \in DOMAIN key /\ column \in 1..columns
      BY <2>1 DEF GroupInv, Counted, KeyColumn
    <3>2. key[row][column] \in Cells
      BY <3>1 DEF GroupInv, Counted
    <3>3. KeyPart(key[row][column]) \in Seq(Chars)
      BY <3>2, KeyPartIsString
    <3>4. Bar(column, columns) \in Seq(Chars)
      BY BarIsString
    <3>5. gid \in Seq(Chars)
      BY <1>2 DEF AggTypeOK
    <3>6. gid' = gid \o KeyPart(key[row][column]) \o Bar(column, columns)
      BY <2>1 DEF KeyColumn
    <3> QED
      BY <3>3, <3>4, <3>5, <3>6
  <2>2. CASE OldGroup \/ NewGroup
    <3>1. gid' = << >>
      BY <2>2 DEF OldGroup, NewGroup, NextRow
    <3> QED
      BY <3>1
  <2> QED
    BY <1>1, <2>1, <2>2 DEF Next
<1>5. /\ (row \in 1..(Len(key) + 1))' /\ (column \in 1..(columns + 1))'
      /\ (\A g \in DOMAIN groups : groups[g] \in Seq(DOMAIN key) \ {<< >>})'
      /\ (grouping_order \in Seq(DOMAIN groups))'
  BY GroupTypes, PTL
<1>6. AggTypeOK'
  BY <1>1, <1>2, <1>4, <1>5 DEF AggTypeOK
<1>7. Len(grouping_order') \in Nat
  BY <1>5
<1>8. LoopsInv'
  BY <1>1, <1>3, <1>7 DEF LoopsInv
<1>9. KernelInv' /\ CellsInv'
  BY <1>1, <1>3 DEF KernelInv, CellsInv
<1> QED
  BY <1>6, <1>8, <1>9 DEF AggInv

\* The group the kernel runs over.
LEMMA CurrentGroup ==
  ASSUME GroupInv, KeyClasses, AggTypeOK, LoopsInv, Aggregating
  PROVE  /\ GroupRows = Ordered[group] /\ group \in DOMAIN Ordered
         /\ group \in DOMAIN grouping_order
         /\ Len(GroupRows) \in Nat \ {0} /\ DOMAIN GroupRows = 1..Len(GroupRows)
         /\ \A x \in DOMAIN GroupRows : GroupRows[x] \in DOMAIN key
         /\ \A x, y \in DOMAIN GroupRows : x < y => GroupRows[x] < GroupRows[y]
         /\ row > Len(key) /\ DOMAIN key = 1..Len(key) /\ Len(key) \in Nat
         /\ Len(grouping_order) \in Nat /\ DOMAIN Ordered = 1..Len(grouping_order)
<1>1. /\ Len(key) \in Nat /\ DOMAIN key = 1..Len(key) /\ row \in 1..(Len(key) + 1)
      /\ Len(grouping_order) \in Nat /\ DOMAIN grouping_order = 1..Len(grouping_order)
      /\ DOMAIN Ordered = 1..Len(grouping_order)
  BY OrderedIs
<1>2. /\ phase = "aggregate" /\ group <= Len(grouping_order)
      /\ group \in 1..(Len(grouping_order) + 1) /\ row > Len(key)
  BY DEF Aggregating, LoopsInv
<1>3. group \in DOMAIN Ordered /\ GroupRows = Ordered[group]
  BY <1>1, <1>2 DEF GroupRows, Ordered
<1>4. row - 1 = Len(key)
  BY <1>1, <1>2
<1> QED
  BY <1>1, <1>2, <1>3, <1>4, GroupsAscend

\* A step within the aggregation leaves the groups, and what the cells so far
\* are, alone.
LEMMA CellsKept ==
  ASSUME CellsInv, UNCHANGED <<values, fn, Ordered, cells>>
  PROVE  CellsInv'
  BY DEF CellsInv

\* Writing the key columns keeps it, and leaves the first group to be aggregated.
LEMMA AppendKeysKeeps ==
  ASSUME AggInv, GroupInv, KeyClasses, AppendKeys
  PROVE  AggInv'
<1>1. /\ phase = "group" /\ row > Len(key) /\ phase' = "aggregate"
      /\ key_rows' = [x \in DOMAIN grouping_order |-> key[groups[grouping_order[x]][1]]]
      /\ UNCHANGED <<columns, key, row, column, gid, groups, grouping_order, values, fn,
                     group, position, state, valid_count, cells>>
  BY DEF AppendKeys, kernel, group_vars, inputs
<1>2. AggTypeOK /\ LoopsInv /\ CellsInv
  BY DEF AggInv
<1>3. /\ group = 1 /\ Len(cells) = 0 /\ position = 1 /\ state = 0 /\ valid_count = 0
  BY <1>1, <1>2 DEF LoopsInv
<1>4. UNCHANGED Ordered
  BY <1>1 DEF Ordered
<1>5. AggTypeOK'
  BY <1>1, <1>2 DEF AggTypeOK
<1>6. \A x \in DOMAIN grouping_order : Ordered[x] = groups[grouping_order[x]]
  BY DEF Ordered
<1>7. key_rows' = [x \in DOMAIN grouping_order |-> key[Ordered[x][1]]]
  BY <1>1, <1>6
<1>8. LoopsInv'
  BY <1>1, <1>2, <1>3, <1>4, <1>7 DEF LoopsInv
<1>9. KernelInv'
  <2> SUFFICES ASSUME group <= Len(grouping_order)
               PROVE  KernelInv'
    BY <1>1 DEF KernelInv
  <2>1. GroupRows' = GroupRows /\ GroupRows = Ordered[group]
    <3>1. group \in DOMAIN grouping_order
      BY <1>2, <1>3 DEF AggTypeOK
    <3> QED
      BY <1>1, <3>1 DEF GroupRows, Ordered
  <2>2. Len(GroupRows) \in Nat
    <3>1. group \in DOMAIN Ordered
      BY <1>3, OrderedIs
    <3> QED
      BY <2>1, <3>1, GroupsAscend
  <2>3. Seen' = {}
    BY <1>1, <1>3 DEF Seen
  <2>4. ValidRows(values, {}) = {} /\ Cardinality({}) = 0
    BY ValidRowsGrow, FS_EmptySet
  <2>5. ValidRows(values', Seen') = {}
    BY <1>1, <2>3, <2>4
  <2> QED
    BY <1>1, <1>3, <2>1, <2>2, <2>4, <2>5 DEF KernelInv
<1>10. CellsInv'
  BY <1>1, <1>2, <1>4, CellsKept
<1> QED
  BY <1>5, <1>8, <1>9, <1>10 DEF AggInv

\* The return, or no step, changes none of it.
LEMMA AggReturnKeeps ==
  ASSUME AggInv, Return \/ UNCHANGED agg_vars
  PROVE  AggInv'
<1>1. /\ UNCHANGED <<columns, key, row, column, gid, groups, grouping_order, values, fn,
                     group, position, state, valid_count, key_rows, cells>>
      /\ \/ phase' = phase
         \/ phase = "aggregate" /\ phase' = "done" /\ group > Len(grouping_order)
  <2>1. CASE Return
    BY <2>1 DEF Return, kernel, group_vars, inputs
  <2>2. CASE UNCHANGED agg_vars
    BY <2>2 DEF agg_vars, kernel, group_vars, inputs
  <2> QED
    BY <2>1, <2>2
<1>2. AggTypeOK /\ LoopsInv /\ KernelInv /\ CellsInv
  BY DEF AggInv
<1>3. UNCHANGED <<Ordered, GroupRows, Seen>>
  BY <1>1 DEF Ordered, GroupRows, Seen
<1>4. AggTypeOK'
  BY <1>1, <1>2 DEF AggTypeOK
<1>5. LoopsInv'
  BY <1>1, <1>2, <1>3 DEF LoopsInv
<1>6. KernelInv'
  BY <1>1, <1>2, <1>3 DEF KernelInv
<1>7. CellsInv'
  BY <1>1, <1>2, <1>3, CellsKept
<1> QED
  BY <1>4, <1>5, <1>6, <1>7 DEF AggInv

\* The kernel takes a row of its group.
LEMMA AggregateRowKeeps ==
  ASSUME AggInv, GroupInv, KeyClasses, AggregateRow
  PROVE  AggInv'
<1> DEFINE r == GroupRows[position]
           old == ValidRows(values, Seen)
           new == ValidRows(values, Seen \cup {r})
<1>1. AggTypeOK /\ LoopsInv /\ KernelInv /\ CellsInv
  BY DEF AggInv
<1>2. /\ Aggregating /\ phase = "aggregate" /\ group <= Len(grouping_order)
      /\ UNCHANGED <<columns, key, row, column, gid, groups, grouping_order, values, fn,
                     phase, group, key_rows, cells>>
      /\ position <= Len(GroupRows) /\ position' = position + 1
      /\ \/ values[r] = NULL /\ UNCHANGED <<state, valid_count>>
         \/ values[r] # NULL /\ ValidRow(values[r])
  BY DEF AggregateRow, Aggregating, NullRow, ValidRow, group_vars, inputs
<1>3. UNCHANGED <<Ordered, GroupRows>>
  BY <1>2 DEF Ordered, GroupRows
<1>4. /\ Len(GroupRows) \in Nat \ {0} /\ DOMAIN GroupRows = 1..Len(GroupRows)
      /\ \A x \in DOMAIN GroupRows : GroupRows[x] \in DOMAIN key
      /\ \A x, y \in DOMAIN GroupRows : x < y => GroupRows[x] < GroupRows[y]
      /\ DOMAIN key = 1..Len(key) /\ Len(key) \in Nat
      /\ group \in DOMAIN grouping_order
  BY <1>1, <1>2, CurrentGroup
<1>5. position \in 1..Len(GroupRows) /\ valid_count = Cardinality(old)
  BY <1>1, <1>2, <1>4 DEF KernelInv
<1>6. r \in DOMAIN key /\ Seen \subseteq DOMAIN key /\ r \notin Seen
  <2>1. \A x \in 1..(position - 1) : GroupRows[x] < r /\ GroupRows[x] \in DOMAIN key
    BY <1>4, <1>5
  <2>2. r \in DOMAIN key
    BY <1>4, <1>5
  <2>3. \A x \in 1..(position - 1) : GroupRows[x] # r
    BY <1>4, <2>1, <2>2
  <2> QED
    BY <2>1, <2>2, <2>3 DEF Seen
<1>7. Seen' = Seen \cup {r}
  <2>1. 1..(position' - 1) = 1..(position - 1) \cup {position}
    BY <1>2, <1>4, <1>5
  <2> QED
    BY <1>3, <2>1 DEF Seen
<1>8. ValidRows(values', Seen') = new
  BY <1>2, <1>7
<1>9. /\ IsNumeric(values, old) /\ \A i \in old : values[i] \in Int
      /\ IsFiniteSet(old) /\ Cardinality(old) \in 0..Len(key) /\ (Cardinality(old) = 0 <=> old = {})
      /\ Len(values) = Len(key)
  BY <1>1, <1>4, <1>6, ValidRowsAre DEF IsNumeric
<1>10. Cardinality(new) \in 0..Len(key)
  <2>1. Seen \cup {r} \in SUBSET DOMAIN key
    BY <1>6
  <2> QED
    BY <1>1, <1>4, <2>1, ValidRowsAre
<1>11. InWidth \subseteq Int
  BY HalfAssumption DEF InWidth
<1>12. /\ state' \in InWidth /\ valid_count' = Cardinality(new)
       /\ fn \in {"sum", "mean"} /\ new # {} => IsSum(state', values, new)
       /\ fn = "min" /\ new # {} => IsLeast(state', values, new)
       /\ fn = "max" /\ new # {} => IsGreatest(state', values, new)
  <2>1. CASE values[r] = NULL
    <3>1. new = old /\ UNCHANGED <<state, valid_count>>
      BY <1>2, <2>1, ValidRowsGrow
    <3> HIDE DEF new, old, r
    <3> QED
      BY <1>1, <1>2, <1>5, <3>1 DEF AggTypeOK, KernelInv, old
  <2>2. CASE values[r] # NULL
    <3> DEFINE cell == values[r]
    <3>1. new = old \cup {r} /\ r \notin old
      BY <1>6, <2>2, ValidRowsGrow DEF ValidRows
    <3>2. cell \in InWidth /\ cell \in Int
      BY <1>1, <1>6, <1>11, <2>2 DEF AggTypeOK
    <3>3. /\ valid_count' = valid_count + 1
          /\ state' = IF fn = "count" THEN state
                      ELSE IF valid_count = 0 THEN cell
                      ELSE Accumulate(state, cell)
      BY <1>2, <2>2 DEF ValidRow
    <3>4. r \in 1..Len(values) /\ Len(values) \in Nat
      BY <1>4, <1>6, <1>9
    <3>5. /\ fn \in {"sum", "mean"} /\ old # {} => IsSum(state, values, old)
          /\ fn = "min" /\ old # {} => IsLeast(state, values, old)
          /\ fn = "max" /\ old # {} => IsGreatest(state, values, old)
          /\ state \in InWidth /\ fn \in AggregateFunctions
      BY <1>1, <1>2 DEF KernelInv, AggTypeOK
    <3> HIDE DEF new, old, r
    <3>6. valid_count' = Cardinality(new)
      BY <1>5, <1>9, <3>1, <3>3, FS_AddElement
    <3>7. CASE fn = "count"
      BY <3>3, <3>5, <3>6, <3>7
    <3>8. CASE fn # "count" /\ old = {}
      <4>1. state' = cell /\ new = {r}
        BY <1>5, <1>9, <3>1, <3>3, <3>8
      <4>2. IsSum(cell, values, {r})
        BY <3>2, <3>4, SumStart
      <4>3. IsLeast(cell, values, {r}) /\ IsGreatest(cell, values, {r})
        BY <1>9, <3>2, LeastStep
      <4> QED
        BY <3>2, <3>6, <4>1, <4>2, <4>3
    <3>9. CASE fn # "count" /\ old # {}
      <4>1. state' = Accumulate(state, cell)
        BY <1>5, <1>9, <3>3, <3>9
      <4>2. CASE fn \in {"sum", "mean"}
        <5>1. state' = Wrap(state + cell)
          BY <4>1, <4>2 DEF Accumulate
        <5>2. IsSum(Wrap(state + cell), values, new)
          BY <1>9, <3>1, <3>2, <3>4, <3>5, <3>9, <4>2, SumStep
        <5> QED
          BY <3>6, <4>2, <5>1, <5>2 DEF IsSum
      <4>3. CASE fn \in {"min", "max"}
        <5>1. state' = IF fn = "min" THEN Min({state, cell}) ELSE Max({state, cell})
          BY <4>1, <4>3 DEF Accumulate
        <5>2. /\ IsLeast(state, values, old) => IsLeast(Min({state, cell}), values, new)
              /\ IsGreatest(state, values, old) => IsGreatest(Max({state, cell}), values, new)
          BY <1>9, <3>1, <3>2, LeastStep
        <5>3. state' \in {state, cell}
          <6>1. state \in Int
            BY <1>11, <3>5
          <6>2. /\ \E x \in {state, cell} : \A y \in {state, cell} : x <= y
                /\ \E x \in {state, cell} : \A y \in {state, cell} : x >= y
            BY <3>2, <6>1
          <6> QED
            BY <5>1, <6>2 DEF Min, Max
        <5> QED
          BY <3>2, <3>5, <3>6, <3>9, <4>3, <5>1, <5>2, <5>3
      <4> QED
        BY <3>5, <3>9, <4>2, <4>3 DEF AggregateFunctions
    <3> QED
      BY <3>7, <3>8, <3>9
  <2> QED
    BY <2>1, <2>2
<1> HIDE DEF new, old
<1>13. AggTypeOK'
  <2>1. position' \in Nat
    BY <1>2, <1>5
  <2>2. valid_count' \in 0..Len(key)
    BY <1>10, <1>12
  <2> QED
    BY <1>1, <1>2, <1>12, <2>1, <2>2 DEF AggTypeOK
<1>14. LoopsInv'
  <2>1. position' # 1 /\ ~(group > Len(grouping_order))
    BY <1>2, <1>4, <1>5
  <2> QED
    BY <1>1, <1>2, <1>3, <2>1 DEF LoopsInv
<1>15. KernelInv'
  <2>1. position' \in 1..(Len(GroupRows') + 1)
    BY <1>2, <1>3, <1>4, <1>5
  <2> QED
    BY <1>2, <1>8, <1>12, <2>1 DEF KernelInv
<1>16. CellsInv'
  BY <1>1, <1>2, <1>3, CellsKept
<1> QED
  BY <1>13, <1>14, <1>15, <1>16 DEF AggInv

\* finalize gives the aggregate of the group the kernel has gone through.
LEMMA FinalizedIs ==
  ASSUME AggInv, GroupInv, KeyClasses, Aggregating, position > Len(GroupRows)
  PROVE  /\ IsAggregate(Finalized, fn, values, ValidRows(values, Range(GroupRows)))
         /\ Finalized \in InWidth \cup {NULL} \cup 0..Len(key)
<1> DEFINE rows == ValidRows(values, Seen)
<1>1. AggTypeOK /\ LoopsInv /\ KernelInv
  BY DEF AggInv
<1>2. phase = "aggregate" /\ group <= Len(grouping_order)
  BY DEF Aggregating
<1>3. /\ Len(GroupRows) \in Nat \ {0} /\ DOMAIN GroupRows = 1..Len(GroupRows)
      /\ \A x \in DOMAIN GroupRows : GroupRows[x] \in DOMAIN key
      /\ DOMAIN key = 1..Len(key) /\ Len(key) \in Nat
  BY <1>1, CurrentGroup
<1>4. position - 1 = Len(GroupRows) /\ valid_count = Cardinality(rows)
  BY <1>1, <1>2, <1>3 DEF KernelInv
<1>5. Range(GroupRows) = Seen /\ Seen \in SUBSET DOMAIN key
  BY <1>3, <1>4 DEF Range, Seen
<1>6. Cardinality(rows) \in 0..Len(key) /\ (Cardinality(rows) = 0 <=> rows = {})
  BY <1>1, <1>3, <1>5, ValidRowsAre
<1>7. /\ fn \in {"sum", "mean"} /\ rows # {} => IsSum(state, values, rows)
      /\ fn = "min" /\ rows # {} => IsLeast(state, values, rows)
      /\ fn = "max" /\ rows # {} => IsGreatest(state, values, rows)
      /\ state \in InWidth /\ fn \in AggregateFunctions
  BY <1>1, <1>2 DEF KernelInv, AggTypeOK
<1> HIDE DEF rows
<1>8. CASE fn = "count"
  BY <1>4, <1>5, <1>6, <1>8 DEF Finalized, IsAggregate, rows
<1>9. CASE fn # "count" /\ rows = {}
  <2>1. Finalized = NULL
    BY <1>4, <1>6, <1>9 DEF Finalized
  <2> QED
    BY <1>5, <1>9, <2>1 DEF IsAggregate, rows
<1>10. CASE fn = "mean" /\ rows # {}
  <2>1. Finalized = Truncated(state, valid_count) /\ valid_count \in Int /\ valid_count > 0
    BY <1>4, <1>6, <1>10 DEF Finalized
  <2>2. Finalized \in InWidth
    BY <1>7, <2>1, TruncatedInWidth
  <2>3. IsMean(Finalized, values, rows)
    BY <1>4, <1>7, <1>10, <2>1 DEF IsMean
  <2> QED
    BY <1>5, <1>10, <2>2, <2>3 DEF IsAggregate, rows
<1>11. CASE fn \in {"sum", "min", "max"} /\ rows # {}
  <2>1. Finalized = state
    BY <1>4, <1>6, <1>11 DEF Finalized
  <2> QED
    BY <1>5, <1>7, <1>11, <2>1 DEF IsAggregate, rows
<1> QED
  BY <1>7, <1>8, <1>9, <1>10, <1>11 DEF AggregateFunctions

\* A finished group has the aggregate of its rows, and the next one starts anew.
LEMMA FinalizeKeeps ==
  ASSUME AggInv, GroupInv, KeyClasses, FinalizeGroup
  PROVE  AggInv'
<1> DEFINE Cell == InWidth \cup {NULL} \cup 0..Len(key)
<1>1. AggTypeOK /\ LoopsInv /\ KernelInv /\ CellsInv
  BY DEF AggInv
<1>2. /\ Aggregating /\ phase = "aggregate" /\ group <= Len(grouping_order)
      /\ UNCHANGED <<columns, key, row, column, gid, groups, grouping_order, values, fn,
                     phase, key_rows>>
      /\ position > Len(GroupRows) /\ position' = 1 /\ group' = group + 1
      /\ state' = 0 /\ valid_count' = 0 /\ cells' = Append(cells, Finalized)
  BY DEF FinalizeGroup, Aggregating, group_vars, inputs
<1>3. UNCHANGED Ordered
  BY <1>2 DEF Ordered
<1>4. /\ group \in DOMAIN Ordered /\ GroupRows = Ordered[group]
      /\ DOMAIN Ordered = 1..Len(grouping_order)
      /\ Len(grouping_order) \in Nat /\ Len(key) \in Nat
  BY <1>1, <1>2, CurrentGroup
<1>5. /\ IsAggregate(Finalized, fn, values, ValidRows(values, Range(Ordered[group])))
      /\ Finalized \in Cell
  BY <1>2, <1>4, FinalizedIs
<1>6. cells \in Seq(Cell) /\ Len(cells) = group - 1 /\ group \in 1..Len(grouping_order)
  BY <1>1, <1>2, <1>4 DEF AggTypeOK, LoopsInv
<1>7. /\ cells' \in Seq(Cell) /\ Len(cells') = group /\ cells'[group] = Finalized
      /\ DOMAIN cells' = 1..group /\ DOMAIN cells = 1..(group - 1)
      /\ \A g \in 1..(group - 1) : cells'[g] = cells[g]
  <2> HIDE DEF Cell
  <2> QED
    BY <1>2, <1>5, <1>6
<1>8. 0 \in InWidth
  BY HalfAssumption DEF InWidth
<1>9. AggTypeOK'
  BY <1>1, <1>2, <1>4, <1>6, <1>7, <1>8 DEF AggTypeOK
<1>10. LoopsInv'
  BY <1>1, <1>2, <1>3, <1>4, <1>6, <1>7 DEF LoopsInv
<1>11. KernelInv'
  <2> SUFFICES ASSUME group' <= Len(grouping_order) PROVE KernelInv'
    BY <1>2 DEF KernelInv
  <2>1. group' \in DOMAIN Ordered
    BY <1>2, <1>4, <1>6
  <2>2. GroupRows' = Ordered[group']
    <3>1. group' \in DOMAIN grouping_order
      BY <2>1 DEF Ordered
    <3> QED
      BY <1>2, <3>1 DEF GroupRows, Ordered
  <2>3. Len(GroupRows') \in Nat
    BY <2>1, <2>2, GroupsAscend
  <2>4. Seen' = {}
    BY <1>2 DEF Seen
  <2>5. ValidRows(values', Seen') = {} /\ Cardinality({}) = 0
    BY <1>2, <2>4, ValidRowsGrow, FS_EmptySet
  <2> QED
    BY <1>2, <2>3, <2>5 DEF KernelInv
<1>12. CellsInv'
  <2> SUFFICES ASSUME NEW g \in 1..group
               PROVE  IsAggregate(cells'[g], fn, values, ValidRows(values, Range(Ordered[g])))
    BY <1>2, <1>3, <1>7 DEF CellsInv
  <2>1. CASE g = group
    BY <1>5, <1>7, <2>1
  <2>2. CASE g # group
    <3>1. g \in 1..(group - 1)
      BY <1>6, <2>2
    <3> QED
      BY <1>1, <1>7, <3>1 DEF CellsInv
  <2> QED
    BY <2>1, <2>2
<1> QED
  BY <1>9, <1>10, <1>11, <1>12 DEF AggInv

\* Every step of agg keeps the invariant.
LEMMA AggKeeps ==
  AggInv /\ GroupInv /\ GroupInv' /\ KeyClasses /\ [AggNext]_agg_vars => AggInv'
<1> SUFFICES ASSUME AggInv, GroupInv, GroupInv', KeyClasses, [AggNext]_agg_vars
             PROVE  AggInv'
  OBVIOUS
<1> QED
  BY GroupKeeps, AppendKeysKeeps, AggregateRowKeeps, FinalizeKeeps, AggReturnKeeps DEF AggNext

\* The kernel's state always stands for the cells it has seen, and the columns
\* built for the groups finished: the inductive invariant of the aggregation.
THEOREM AggInductiveInvariant == AggSpec => [](AggInv /\ GroupInv /\ KeyClasses)
<1>1. AggSpec => []GroupInv /\ []KeyClasses
  BY AggIsGrouping, StringsStandForKeys, GroupByMakesClasses, PTL
<1>2. AggInit => AggInv
  BY AggInitHolds
<1> QED
  BY <1>1, <1>2, AggKeeps, PTL DEF AggSpec

\* The variables of agg keep their types; above all the kernel's state and every
\* cell of the answer fit the column's width.
THEOREM AggTypeCorrect == AggSpec => []AggTypeOK
<1>1. AggInv => AggTypeOK
  BY DEF AggInv
<1> QED
  BY <1>1, AggInductiveInvariant, PTL

\* agg answers the query, for every table, column width, aggregate and text of
\* the keys: a row per class of equal keys, with its key and the aggregate of its
\* valid cells.
THEOREM AggAnswersQuery == AggSpec => []AnswersQuery
<1>1. AggInv /\ GroupInv /\ KeyClasses => AnswersQuery
  <2> SUFFICES ASSUME AggInv, GroupInv, KeyClasses, phase = "done" PROVE AnswersQuery
    BY DEF AnswersQuery
  <2>1. AggTypeOK /\ LoopsInv /\ CellsInv
    BY DEF AggInv
  <2>2. row > Len(key) /\ group > Len(grouping_order)
    BY <2>1 DEF LoopsInv
  <2>3. Ordered = GroupsOf(key)
    BY <2>2, OrderedIsGroupsOf
  <2>4. DOMAIN Ordered = DOMAIN grouping_order
    BY DEF Ordered
  <2>5. key_rows = [g \in DOMAIN Ordered |-> key[Ordered[g][1]]]
    BY <2>1, <2>4 DEF LoopsInv
  <2>6. DOMAIN cells = DOMAIN Ordered
    <3>1. /\ Len(grouping_order) \in Nat /\ DOMAIN Ordered = 1..Len(grouping_order)
      BY OrderedIs
    <3>2. Len(cells) = Len(grouping_order)
      BY <2>1, <2>2, <3>1 DEF LoopsInv
    <3>3. DOMAIN cells = 1..Len(cells)
      BY <2>1 DEF AggTypeOK
    <3> QED
      BY <3>1, <3>2, <3>3
  <2> QED
    BY <2>1, <2>3, <2>5, <2>6 DEF AnswersQuery, CellsInv
<1> QED
  BY <1>1, AggInductiveInvariant, PTL

\* A mean of a group whose sum fits the width lies between two of its cells: the
\* rounding towards zero never leaves their range, whatever their signs.
THEOREM MeansAreBetween == AggSpec => []MeanIsBetween
<1>1. AggInv /\ GroupInv /\ KeyClasses => MeanIsBetween
  <2> SUFFICES ASSUME AggInv, GroupInv, KeyClasses, phase = "done", fn = "mean",
                      NEW g \in DOMAIN cells
               PROVE  LET rows == ValidRows(values, Range(GroupsOf(key)[g]))
                      IN  rows # {} /\ Total(values, rows) \in InWidth =>
                            /\ \E i \in rows : values[i] <= cells[g]
                            /\ \E i \in rows : values[i] >= cells[g]
    BY DEF MeanIsBetween
  <2> DEFINE rows == ValidRows(values, Range(Ordered[g]))
             n == cells[g]
             c == Cardinality(rows)
  <2>1. AggTypeOK /\ LoopsInv /\ CellsInv
    BY DEF AggInv
  <2>2. row > Len(key) /\ group > Len(grouping_order)
    BY <2>1 DEF LoopsInv
  <2>3. Ordered = GroupsOf(key)
    BY <2>2, OrderedIsGroupsOf
  <2> SUFFICES ASSUME rows # {}, Total(values, rows) \in InWidth
               PROVE  /\ \E i \in rows : values[i] <= n
                      /\ \E i \in rows : values[i] >= n
    BY <2>3
  <2>4. /\ Len(key) \in Nat /\ DOMAIN key = 1..Len(key) /\ row \in 1..(Len(key) + 1)
        /\ Len(grouping_order) \in Nat /\ DOMAIN Ordered = 1..Len(grouping_order)
    BY OrderedIs
  <2>5. g \in DOMAIN Ordered
    <3>1. DOMAIN cells = 1..Len(cells) /\ Len(cells) = Len(grouping_order)
      BY <2>1, <2>2, <2>4 DEF AggTypeOK, LoopsInv
    <3> QED
      BY <2>4, <3>1
  <2>6. Range(Ordered[g]) \in SUBSET DOMAIN key
    <3>1. \A x \in DOMAIN Ordered[g] : Ordered[g][x] \in 1..(row - 1)
      BY <2>5, GroupsAscend
    <3> QED
      BY <2>2, <2>4, <3>1 DEF Range
  <2>7. /\ IsNumeric(values, rows) /\ rows \in SUBSET (1..Len(values)) /\ Len(values) \in Nat
        /\ c \in Nat /\ (c = 0 <=> rows = {})
    BY <2>1, <2>4, <2>6, ValidRowsAre
  <2>8. PICK s \in InWidth : IsSum(s, values, rows) /\ n = Truncated(s, c)
    BY <2>1 DEF CellsInv, IsAggregate, IsMean
  <2> HIDE DEF rows, n, c
  <2>9. s = Total(values, rows)
    BY <2>8, CongruentInWidth DEF IsSum
  <2>10. s \in Int /\ c \in Int /\ c > 0
    <3>1. s \in Int
      BY <2>8, HalfAssumption DEF InWidth
    <3>2. rows # {}
      OBVIOUS
    <3>3. c \in Nat /\ c # 0
      BY <2>7, <3>2, Zenon
    <3> QED
      BY <3>1, <3>3
  <2>11. n \in Int
    BY <2>8, <2>10, TruncatedBetween
  <2>12. \E i \in rows : values[i] <= n
    <3> SUFFICES ASSUME \A i \in rows : n + 1 <= values[i] PROVE FALSE
      BY <2>7, <2>11 DEF IsNumeric
    <3>1. c * (n + 1) <= s
      BY <2>7, <2>9, <2>11, TotalBetween DEF c
    <3> QED
      BY <2>8, <2>10, <2>11, <3>1, TruncatedBetween
  <2>13. \E i \in rows : values[i] >= n
    <3> SUFFICES ASSUME \A i \in rows : values[i] <= n - 1 PROVE FALSE
      BY <2>7, <2>11 DEF IsNumeric
    <3>1. s <= c * (n - 1)
      BY <2>7, <2>9, <2>11, TotalBetween DEF c
    <3> QED
      BY <2>8, <2>10, <2>11, <3>1, TruncatedBetween
  <2> QED
    BY <2>12, <2>13
<1> QED
  BY <1>1, AggInductiveInvariant, PTL

-----------------------------------------------------------------------------
(* The end of the call.                                                    *)

\* A triple gets lower at its first number ...
LEMMA LowerFirst ==
  ASSUME NEW new, NEW old, old = <<old[1], old[2], old[3]>>, new[1] < old[1]
  PROVE  Lower(new, old)
<1>1. 1 \in DOMAIN old /\ \A m \in 1..(1 - 1) : FALSE
  OBVIOUS
<1> QED
  BY <1>1 DEF Lower

\* ... at its second ...
LEMMA LowerSecond ==
  ASSUME NEW new, NEW old, old = <<old[1], old[2], old[3]>>, new[1] = old[1], new[2] < old[2]
  PROVE  Lower(new, old)
<1>1. 2 \in DOMAIN old /\ \A m \in 1..(2 - 1) : m = 1
  OBVIOUS
<1> QED
  BY <1>1 DEF Lower

\* ... or at its third.
LEMMA LowerThird ==
  ASSUME NEW new, NEW old, old = <<old[1], old[2], old[3]>>,
         new[1] = old[1], new[2] = old[2], new[3] < old[3]
  PROVE  Lower(new, old)
<1>1. 3 \in DOMAIN old /\ \A m \in 1..(3 - 1) : m = 1 \/ m = 2
  OBVIOUS
<1> QED
  BY <1>1 DEF Lower

\* The loops stay within bounds, and a group that the kernel runs over has rows.
LEMMA LoopBounds ==
  ASSUME AggInv, GroupInv
  PROVE  /\ phase \in {"group", "aggregate", "done"}
         /\ Len(key) \in Nat /\ row \in 1..(Len(key) + 1)
         /\ columns \in Nat /\ column \in 1..(columns + 1)
         /\ Len(grouping_order) \in Nat /\ group \in 1..(Len(grouping_order) + 1)
         /\ phase # "group" /\ group <= Len(grouping_order) =>
              /\ Len(GroupRows) \in Nat
              /\ phase = "aggregate" => position \in 1..(Len(GroupRows) + 1)
<1>1. /\ phase \in {"group", "aggregate", "done"}
      /\ columns \in Nat /\ Len(key) \in Nat
      /\ row \in 1..(Len(key) + 1) /\ column \in 1..(columns + 1)
  BY DEF AggInv, AggTypeOK, GroupInv, Counted
<1>2. Len(grouping_order) \in Nat /\ group \in 1..(Len(grouping_order) + 1)
  BY DEF AggInv, AggTypeOK, LoopsInv
<1>3. ASSUME group <= Len(grouping_order) PROVE Len(GroupRows) \in Nat
  <2>1. group \in DOMAIN grouping_order /\ grouping_order[group] \in DOMAIN groups
    BY <1>2, <1>3 DEF GroupInv, Listed
  <2>2. GroupRows \in Seq(DOMAIN key)
    BY <2>1 DEF AggInv, AggTypeOK, GroupRows
  <2> QED
    BY <2>2
<1>4. phase = "aggregate" /\ group <= Len(grouping_order) => position \in 1..(Len(GroupRows) + 1)
  BY DEF AggInv, KernelInv
<1> QED
  BY <1>1, <1>2, <1>3, <1>4

\* What is left is counted by natural numbers.
LEMMA RemainingIsNatural ==
  ASSUME AggInv, GroupInv
  PROVE  /\ Remaining \in Nat \X Nat \X Nat
         /\ Remaining = <<Remaining[1], Remaining[2], Remaining[3]>>
<1>1. phase = "done" => group > Len(grouping_order)
  BY DEF AggInv, LoopsInv
<1>2. /\ phase \in {"group", "aggregate", "done"}
      /\ Len(key) \in Nat /\ row \in 1..(Len(key) + 1)
      /\ columns \in Nat /\ column \in 1..(columns + 1)
      /\ Len(grouping_order) \in Nat /\ group \in 1..(Len(grouping_order) + 1)
      /\ phase = "aggregate" /\ group <= Len(grouping_order) =>
           Len(GroupRows) \in Nat /\ position \in 1..(Len(GroupRows) + 1)
  BY LoopBounds
<1>3. LoopsLeft \in Nat /\ TurnsLeft \in Nat
  BY <1>2 DEF LoopsLeft, TurnsLeft
<1>4. TurnLeft \in Nat
  <2> HIDE DEF GroupRows
  <2> QED
    BY <1>1, <1>2 DEF TurnLeft
<1> QED
  BY <1>3, <1>4 DEF Remaining

\* Every step lowers it.
LEMMA StepRunsDown ==
  ASSUME AggInv, GroupInv, GroupInv', AggNext
  PROVE  Lower(Remaining', Remaining)
<1> DEFINE old == Remaining
           new == Remaining'
<1>1. old = <<old[1], old[2], old[3]>>
  BY RemainingIsNatural
<1>2. ASSUME Group, KeyColumn PROVE Lower(new, old)
  <2>1. UNCHANGED <<phase, key, columns, row>> /\ phase = "group" /\ column' = column + 1
    BY <1>2 DEF Group, KeyColumn, inputs
  <2>2. new[1] = old[1] /\ new[2] = old[2] /\ new[3] < old[3]
    BY <2>1, LoopBounds DEF Remaining, LoopsLeft, TurnsLeft, TurnLeft
  <2> HIDE DEF old, new
  <2> QED
    BY <1>1, <2>2, LowerThird
<1>3. ASSUME Group, OldGroup \/ NewGroup PROVE Lower(new, old)
  <2>1. UNCHANGED <<phase, key, columns>> /\ phase = "group" /\ row' = row + 1
    BY <1>3 DEF Group, OldGroup, NewGroup, NextRow, inputs
  <2>2. new[1] = old[1] /\ new[2] < old[2]
    BY <2>1, LoopBounds DEF Remaining, LoopsLeft, TurnsLeft, TurnLeft
  <2> HIDE DEF old, new
  <2> QED
    BY <1>1, <2>2, LowerSecond
<1>4. ASSUME AppendKeys \/ Return PROVE Lower(new, old)
  <2>1. new[1] < old[1]
    BY <1>4 DEF AppendKeys, Return, Remaining, LoopsLeft
  <2> HIDE DEF old, new
  <2> QED
    BY <1>1, <2>1, LowerFirst
<1>5. ASSUME AggregateRow PROVE Lower(new, old)
  <2>1. /\ phase = "aggregate" /\ group <= Len(grouping_order)
        /\ UNCHANGED <<phase, groups, grouping_order, group>> /\ position' = position + 1
    BY <1>5 DEF AggregateRow, Aggregating, group_vars, NullRow, ValidRow
  <2>2. GroupRows' = GroupRows
    BY <2>1 DEF GroupRows
  <2>3. new[1] = old[1] /\ new[2] = old[2]
    BY <2>1 DEF Remaining, LoopsLeft, TurnsLeft, TurnLeft
  <2>4. new[3] < old[3]
    BY <2>1, <2>2, LoopBounds DEF Remaining, LoopsLeft, TurnsLeft, TurnLeft
  <2> HIDE DEF old, new
  <2> QED
    BY <1>1, <2>3, <2>4, LowerThird
<1>6. ASSUME FinalizeGroup PROVE Lower(new, old)
  <2>1. phase = "aggregate" /\ UNCHANGED <<phase, grouping_order>> /\ group' = group + 1
    BY <1>6 DEF FinalizeGroup, Aggregating, group_vars
  <2>2. new[1] = old[1] /\ new[2] < old[2]
    BY <2>1, LoopBounds DEF Remaining, LoopsLeft, TurnsLeft, TurnLeft
  <2> HIDE DEF old, new
  <2> QED
    BY <1>1, <2>2, LowerSecond
<1>7. Lower(new, old)
  <2> HIDE DEF old, new
  <2>1. Group => Next
    BY DEF Group
  <2> QED
    BY <1>2, <1>3, <1>4, <1>5, <1>6, <2>1 DEF AggNext, Next
<1> QED
  BY <1>7

\* agg ends: every step lowers a triple of natural numbers, for every table, column
\* width, aggregate and text of the keys.
THEOREM AggRunsDown == AggSpec => RunsDown
<1>1. AggInv /\ GroupInv /\ GroupInv' /\ [AggNext]_agg_vars
        => [Lower(Remaining', Remaining) /\ Remaining \in Nat \X Nat \X Nat]_agg_vars
  BY RemainingIsNatural, StepRunsDown
<1> QED
  BY <1>1, AggInductiveInvariant, PTL DEF AggSpec, RunsDown
=============================================================================
