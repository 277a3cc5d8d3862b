--------------------------- MODULE GroupingProofs ---------------------------
(* The groups of Grouping are the classes of equal keys, for any keys.       *)
EXTENDS Grouping, SequenceTheorems, TLAPS

Rows == Seq(Nat) \ {<< >>}

\* Groups are never empty, and hold rows by number.
TypeOK ==
  /\ row \in Nat \ {0}
  /\ groups \in Seq(Rows)

\* What a step does to the groups: an old place keeps its row, and the one new
\* place, the last of group g, holds the row taken.
Grows(g) ==
  /\ DOMAIN groups \subseteq DOMAIN groups'
  /\ g \in DOMAIN groups'
  /\ \A h \in DOMAIN groups :
       /\ DOMAIN groups[h] \subseteq DOMAIN groups'[h]
       /\ \A y \in DOMAIN groups[h] : groups'[h][y] = groups[h][y]
  /\ \E z \in DOMAIN groups'[g] :
       /\ groups'[g][z] = row
       /\ \A y \in DOMAIN groups'[g] : y <= z
       /\ \A h \in DOMAIN groups' : \A y \in DOMAIN groups'[h] :
            \/ h \in DOMAIN groups /\ y \in DOMAIN groups[h]
            \/ h = g /\ y = z

\* A row appended to a group is all that group gains, and the others gain none.
LEMMA JoinGrows ==
  ASSUME TypeOK, NEW g \in DOMAIN groups,
         groups' = [groups EXCEPT ![g] = Append(@, row)]
  PROVE  Grows(g) /\ groups' \in Seq(Rows)
<1> DEFINE new == Append(groups[g], row)
           z == Len(groups[g]) + 1
<1>1. groups[g] \in Seq(Nat) /\ row \in Nat
  BY DEF TypeOK, Rows
<1>2. /\ new \in Seq(Nat) /\ Len(new) = z /\ new[z] = row
      /\ \A y \in 1..Len(groups[g]) : new[y] = groups[g][y]
      /\ DOMAIN new = 1..z /\ DOMAIN groups[g] = 1..Len(groups[g]) /\ z \in Nat \ {0}
      /\ z - 1 = Len(groups[g])
  BY <1>1
<1>3. groups' = [groups EXCEPT ![g] = new]
  OBVIOUS
<1> HIDE DEF new, z
<1>4. new \in Rows
  BY <1>2 DEF Rows
<1>5. groups' \in Seq(Rows)
  <2>1. groups \in Seq(Rows) /\ g \in 1..Len(groups)
    BY DEF TypeOK
  <2>2. [groups EXCEPT ![g] = new] \in Seq(Rows)
    BY <2>1, <1>4, ExceptSeq
  <2> QED
    BY <2>2, <1>3
<1>6. /\ DOMAIN groups' = DOMAIN groups
      /\ \A h \in DOMAIN groups : groups'[h] = IF h = g THEN new ELSE groups[h]
  BY <1>3
<1>7. \A h \in DOMAIN groups :
        /\ DOMAIN groups[h] \subseteq DOMAIN groups'[h]
        /\ \A y \in DOMAIN groups[h] : groups'[h][y] = groups[h][y]
  BY <1>2, <1>6
<1>8. \A h \in DOMAIN groups' : \A y \in DOMAIN groups'[h] :
        \/ h \in DOMAIN groups /\ y \in DOMAIN groups[h]
        \/ h = g /\ y = z
  BY <1>2, <1>6
<1>9. z \in DOMAIN groups'[g] /\ groups'[g][z] = row /\ \A y \in DOMAIN groups'[g] : y <= z
  BY <1>2, <1>6
<1> QED
  BY <1>5, <1>6, <1>7, <1>8, <1>9 DEF Grows

\* A row that founds a group is all that group has.
LEMMA FoundGrows ==
  ASSUME TypeOK, groups' = Append(groups, <<row>>)
  PROVE  /\ Grows(Len(groups) + 1)
         /\ groups' \in Seq(Rows)
         /\ Len(groups) + 1 \notin DOMAIN groups
         /\ \A h \in DOMAIN groups' : h <= Len(groups) + 1
<1> DEFINE g == Len(groups) + 1
<1>1. <<row>> \in Rows /\ groups \in Seq(Rows)
  BY DEF TypeOK, Rows
<1>2. /\ groups' \in Seq(Rows)
      /\ DOMAIN groups = 1..Len(groups) /\ DOMAIN groups' = 1..g
      /\ groups'[g] = <<row>>
      /\ \A h \in DOMAIN groups : groups'[h] = groups[h]
      /\ Len(groups) \in Nat
  BY <1>1
<1>3. 1 \in DOMAIN groups'[g] /\ groups'[g][1] = row /\ \A y \in DOMAIN groups'[g] : y = 1
  BY <1>2
<1>4. \A h \in DOMAIN groups' : h \in DOMAIN groups \/ h = g
  BY <1>2
<1> HIDE DEF g
<1>5. /\ \A y \in DOMAIN groups'[g] : y <= 1
      /\ \A h \in DOMAIN groups' : \A y \in DOMAIN groups'[h] :
           \/ h \in DOMAIN groups /\ y \in DOMAIN groups[h]
           \/ h = g /\ y = 1
  BY <1>2, <1>3, <1>4
<1>6. g \in DOMAIN groups' /\ DOMAIN groups \subseteq DOMAIN groups'
  BY <1>2 DEF g
<1>7. Grows(g)
  BY <1>2, <1>3, <1>5, <1>6 DEF Grows
<1> QED
  BY <1>2, <1>7 DEF g

\* The conjuncts of Classes that a step disturbs, once it is known where the row
\* went: to a group of its key, or to a new one behind the others.
LEMMA ClassesGrow ==
  ASSUME TypeOK, Classes, NEW g, Grows(g), row' = row + 1, key' = key,
         groups' \in Seq(Rows),
         \A h \in DOMAIN groups : SameKey(groups[h][1], row) <=> g = h,
         g \notin DOMAIN groups => \A h \in DOMAIN groups : h < g
  PROVE  Classes'
<1> DEFINE Old(h, y) == h \in DOMAIN groups /\ y \in DOMAIN groups[h]
<1>1. PICK z \in DOMAIN groups'[g] :
        /\ groups'[g][z] = row
        /\ \A y \in DOMAIN groups'[g] : y <= z
        /\ \A h \in DOMAIN groups' : \A y \in DOMAIN groups'[h] : Old(h, y) \/ (h = g /\ y = z)
  BY DEF Grows
<1>2. \A h, y : Old(h, y) =>
        /\ h \in DOMAIN groups' /\ y \in DOMAIN groups'[h]
        /\ groups'[h][y] = groups[h][y]
        /\ groups[h][y] \in 1..(row - 1)
        /\ y \in Nat /\ h \in Nat
        /\ Old(h, 1)
  <2> SUFFICES ASSUME NEW h, NEW y, Old(h, y)
               PROVE  /\ h \in DOMAIN groups' /\ y \in DOMAIN groups'[h]
                      /\ groups'[h][y] = groups[h][y]
                      /\ groups[h][y] \in 1..(row - 1)
                      /\ y \in Nat /\ h \in Nat
                      /\ Old(h, 1)
    OBVIOUS
  <2>1. groups[h][y] \in UNION {Members(k) : k \in DOMAIN groups}
    BY DEF Members
  <2>2. groups[h] \in Seq(Nat) /\ groups[h] # << >> /\ h \in Nat
    <3>1. h \in 1..Len(groups) /\ groups \in Seq(Rows)
      BY DEF TypeOK
    <3>2. groups[h] \in Rows
      BY <3>1, ElementOfSeq
    <3> QED
      BY <3>1, <3>2 DEF Rows
  <2>3. y \in Nat /\ 1 \in DOMAIN groups[h]
    BY <2>2
  <2> QED
    BY <2>1, <2>2, <2>3 DEF Classes, Grows
<1>3. \A h, i, x, y : Old(h, x) /\ Old(i, y) =>
        /\ (key[groups[h][x]] = key[groups[i][y]]) <=> h = i
        /\ h = i /\ x < y => groups[h][x] < groups[i][y]
        /\ h < i /\ x = 1 => groups[h][x] < groups[i][y]
  BY DEF Classes, SameKey
<1>4. \A h, x : Old(h, x) => ((key[groups[h][x]] = key[row]) <=> h = g)
  BY <1>2, <1>3 DEF SameKey
<1>5. g \in Nat /\ g \in DOMAIN groups' /\ groups'[g] \in Rows
  BY DEF Grows
<1>6. z \in Nat \ {0} /\ 1 \in DOMAIN groups'[g]
  BY <1>5 DEF Rows
<1>7. row \in Nat \ {0}
  BY DEF TypeOK
<1> HIDE DEF Old
<1>8. ASSUME NEW h \in DOMAIN groups', NEW i \in DOMAIN groups',
             NEW x \in DOMAIN groups'[h], NEW y \in DOMAIN groups'[i]
      PROVE  /\ (key[groups'[h][x]] = key[groups'[i][y]]) <=> h = i
             /\ h = i /\ x < y => groups'[h][x] < groups'[i][y]
             /\ h < i /\ x = 1 => groups'[h][x] < groups'[i][y]
  <2>1. CASE Old(h, x) /\ Old(i, y)
    <3>1. groups'[h][x] = groups[h][x] /\ groups'[i][y] = groups[i][y]
      BY <2>1, <1>2
    <3> QED
      BY <2>1, <3>1, <1>3
  <2>2. CASE Old(h, x) /\ i = g /\ y = z
    <3>1. groups'[h][x] = groups[h][x] /\ groups'[i][y] = row /\ groups[h][x] \in 1..(row - 1)
      BY <2>2, <1>1, <1>2
    <3>2. groups'[h][x] < groups'[i][y]
      BY <3>1, <1>7
    <3>3. (key[groups'[h][x]] = key[groups'[i][y]]) <=> h = i
      BY <2>2, <3>1, <1>4
    <3> QED
      BY <3>2, <3>3
  <2>3. CASE h = g /\ x = z /\ Old(i, y)
    <3>1. groups'[i][y] = groups[i][y] /\ groups'[h][x] = row
      BY <2>3, <1>1, <1>2
    <3>2. (key[groups'[h][x]] = key[groups'[i][y]]) <=> h = i
      BY <2>3, <3>1, <1>4
    <3>3. y \in DOMAIN groups'[i] /\ y \in Nat /\ i \in Nat
      BY <2>3, <1>2
    <3>4. ~(h = i /\ x < y)
      BY <2>3, <3>3, <1>1, <1>6
    <3>5. ~(h < i /\ x = 1)
      <4>1. CASE g \in DOMAIN groups
        <5>1. Old(g, 1)
          BY <4>1 DEF Old, TypeOK, Rows
        <5>2. groups'[g][1] \in 1..(row - 1)
          BY <5>1, <1>2
        <5>3. z # 1
          BY <5>2, <1>1, <1>7
        <5> QED
          BY <5>3, <2>3
      <4>2. CASE g \notin DOMAIN groups
        <5>1. i < g
          BY <4>2, <2>3 DEF Old
        <5> QED
          BY <5>1, <2>3, <3>3, <1>5
      <4> QED
        BY <4>1, <4>2
    <3> QED
      BY <3>2, <3>4, <3>5
  <2>4. CASE h = g /\ x = z /\ i = g /\ y = z
    BY <2>4, <1>6
  <2> QED
    BY <1>1, <2>1, <2>2, <2>3, <2>4
<1>9. UNION {Members(h)' : h \in DOMAIN groups'} = 1..row
  <2>1. ASSUME NEW h \in DOMAIN groups', NEW y \in DOMAIN groups'[h]
        PROVE  groups'[h][y] \in 1..row
    <3>1. CASE Old(h, y)
      BY <3>1, <1>2, <1>7
    <3>2. CASE h = g /\ y = z
      BY <3>2, <1>1, <1>7
    <3> QED
      BY <3>1, <3>2, <1>1
  <2>2. ASSUME NEW r \in 1..row
        PROVE  \E h \in DOMAIN groups' : \E y \in DOMAIN groups'[h] : groups'[h][y] = r
    <3>1. CASE r = row
      BY <3>1, <1>1, <1>5
    <3>2. CASE r # row
      <4>1. r \in 1..(row - 1)
        BY <3>2, <1>7
      <4>2. PICK h \in DOMAIN groups : r \in Members(h)
        BY <4>1 DEF Classes
      <4>3. PICK y \in DOMAIN groups[h] : groups[h][y] = r
        BY <4>2 DEF Members
      <4> QED
        BY <4>3, <1>2 DEF Old
    <3> QED
      BY <3>1, <3>2
  <2> QED
    BY <2>1, <2>2 DEF Members
<1>10. (row + 1) - 1 = row
  BY <1>7
<1> QED
  BY <1>8, <1>9, <1>10 DEF Classes, SameKey

-----------------------------------------------------------------------------
\* The groups are the classes of the rows taken, at every step.
LEMMA GroupingInductive ==
  TypeOK /\ Classes /\ [Next]_vars => (TypeOK /\ Classes)'
<1> SUFFICES ASSUME TypeOK, Classes, [Next]_vars
             PROVE  (TypeOK /\ Classes)'
  OBVIOUS
<1> USE DEF Rows
<1>1. CASE Join
  <2>1. PICK g \in DOMAIN groups :
          /\ SameKey(groups[g][1], row)
          /\ groups' = [groups EXCEPT ![g] = Append(@, row)]
    BY <1>1 DEF Join
  <2>2. row' = row + 1 /\ key' = key
    BY <1>1 DEF Join
  <2>3. Grows(g) /\ groups' \in Seq(Rows)
    BY <2>1, JoinGrows
  <2>4. \A h \in DOMAIN groups : 1 \in DOMAIN groups[h]
    BY DEF TypeOK
  <2>5. \A h \in DOMAIN groups : SameKey(groups[h][1], row) <=> g = h
    BY <2>1, <2>4 DEF Classes, SameKey
  <2>6. Classes'
    BY <2>1, <2>2, <2>3, <2>5, ClassesGrow
  <2> QED
    BY <2>2, <2>3, <2>6 DEF TypeOK
<1>2. CASE Found
  <2>1. /\ groups' = Append(groups, <<row>>) /\ row' = row + 1 /\ key' = key
        /\ \A h \in DOMAIN groups : ~SameKey(groups[h][1], row)
    BY <1>2 DEF Found
  <2>2. /\ Grows(Len(groups) + 1) /\ groups' \in Seq(Rows)
        /\ Len(groups) + 1 \notin DOMAIN groups
    BY <2>1, FoundGrows
  <2>3. \A h \in DOMAIN groups : h < Len(groups) + 1
    BY DEF TypeOK
  <2>4. \A h \in DOMAIN groups : SameKey(groups[h][1], row) <=> Len(groups) + 1 = h
    BY <2>1, <2>2
  <2>5. Classes'
    BY <2>1, <2>2, <2>3, <2>4, ClassesGrow
  <2> QED
    BY <2>1, <2>2, <2>5 DEF TypeOK
<1>3. CASE UNCHANGED vars
  BY <1>3 DEF vars, TypeOK, Classes, Members, SameKey
<1> QED
  BY <1>1, <1>2, <1>3 DEF Next

\* Grouping makes the classes of equal keys, whatever the keys and their order:
\* no row is lost or taken twice, and no class is split.
THEOREM GroupsAreClasses == Spec => []Classes
<1>1. Start => TypeOK /\ Classes
  BY DEF Start, TypeOK, Classes, Members
<1>2. TypeOK /\ Classes /\ [Next]_vars => (TypeOK /\ Classes)'
  BY GroupingInductive
<1> QED
  BY <1>1, <1>2, PTL DEF Spec
=============================================================================
