-------------------------- MODULE GoalSizes_proofs ---------------------------
(* Proofs about the sizes of a goal, for words and GiB of any size, any     *)
(* goals and any DIMMs.                                                     *)
EXTENDS GoalSizes, TLAPS

USE WordAssumption DEF MaxGB

\* Word arithmetic.
LEMMA WordPositive == Word \in Nat \ {0}
  BY DEF Word

LEMMA WrapType == \A n \in Int : Wrap(n) \in Size
  BY WordPositive DEF Wrap, Size

LEMMA WrapDouble == \A n \in Nat : Wrap(2 * n) \in Nat
<1> TAKE n \in Nat
<1>1. 2 * n \in Int
  OBVIOUS
<1> QED BY <1>1, WrapType, WordPositive DEF Size

LEMMA WrapId == \A n \in Size : Wrap(n) = n
  BY WordPositive DEF Wrap, Size

LEMMA InWord == \A n \in 0 .. MaxGB : n \in Size /\ n * GB \in Size
  BY DEF Size, Word

LEMMA DivType == \A n \in Nat : n \div GB \in Nat /\ n \div GB <= n
  BY WordAssumption

LEMMA DivBound == \A n, k \in Nat : n <= k * GB => n \div GB \in 0 .. k
  BY WordAssumption

LEMMA HalfType == \A n \in Nat : n \div 2 \in Nat /\ n \div 2 <= n
  OBVIOUS

LEMMA TimesMonotone == \A a, b \in Nat : a <= b => a * GB <= b * GB
  BY WordAssumption

LEMMA UpToTwo == \A n \in Nat : n <= 2 => n \in {0, 1, 2}
  OBVIOUS

\* The capacity of a DIMM is a number of GiB that fits a word.
LEMMA UsableType ==
  ASSUME NEW d \in Dimm
  PROVE  d.gb \in 0 .. MaxGB /\ d.gb \in Size /\ Usable(d) = d.gb * GB /\ Usable(d) \in Size
<1>1. d.gb \in 0 .. MaxGB
  BY DEF Dimm
<1> QED BY <1>1, InWord DEF Usable

\* The size of a set, and what it takes, are numbers.
LEMMA SizeFromAny ==
  ASSUME NEW size \in Size, NEW left \in Nat, NEW mirrored \in BOOLEAN
  PROVE  SizeFrom(size, left, mirrored) \in Nat
<1>1. left \div GB \in Nat
  BY DivType
<1>2. (left \div GB) \div 2 \in Nat
  BY <1>1, HalfType
<1>3. size \in Nat
  BY WordPositive DEF Size
<1> QED BY <1>1, <1>2, <1>3 DEF SizeFrom

LEMMA SizeFromType ==
  ASSUME NEW size \in Size, NEW left \in Nat
  PROVE  SizeFrom(size, left, TRUE) \in Nat /\ SizeFrom(size, left, FALSE) \in Nat
<1> QED BY SizeFromAny

\* A size that was checked takes at least what was asked for, in numbers
\* that do not wrap, and leaves what it does not take.
LEMMA FitsTakes ==
  ASSUME NEW s, s.size \in Size, s.mirrored \in BOOLEAN, NEW left \in Nat,
         s.mirrored => s.size = All \/ 2 * s.size < Word,
         Fits(s, left)
  PROVE  /\ Asked(s) \in Nat /\ Taken(s, left) \in Nat /\ Asked(s) <= Taken(s, left)
         /\ After(s, left) \in Nat
         /\ After(s, left) + Taken(s, left) * GB = left
<1>1. s.size \in Nat /\ SizeFrom(s.size, left, TRUE) \in Nat /\ SizeFrom(s.size, left, FALSE) \in Nat
  <2>1. s.size \in Nat
    BY WordPositive DEF Size
  <2> QED BY <2>1, SizeFromType
<1>2. Wrap(2 * SizeFrom(s.size, left, TRUE)) \in Nat
  <2> DEFINE n == SizeFrom(s.size, left, TRUE)
  <2>1. n \in Nat
    BY <1>1
  <2> HIDE DEF n
  <2>2. Wrap(2 * n) \in Nat
    BY <2>1, WrapDouble
  <2> QED BY <2>2 DEF n
<1>3. Taken(s, left) \in Nat
  BY <1>1, <1>2 DEF Taken
<1>4. Asked(s) \in Nat
  BY <1>1 DEF Asked
<1>5. Asked(s) <= Taken(s, left)
  <2>1. CASE s.size = All
    BY <2>1, <1>3 DEF Asked
  <2>2. CASE s.size # All /\ s.mirrored
    <3>1. SizeFrom(s.size, left, TRUE) = s.size
      BY <2>2 DEF SizeFrom
    <3>2. 2 * s.size \in Size
      BY <2>2, <1>1, WordPositive DEF Size
    <3>3. Wrap(2 * s.size) = 2 * s.size
      BY <3>2, WrapId
    <3>4. Taken(s, left) = 2 * s.size
      BY <3>1, <3>3, <2>2 DEF Taken
    <3>5. Asked(s) = 2 * s.size
      BY <2>2 DEF Asked
    <3> QED BY <3>4, <3>5, <1>1
  <2>3. CASE s.size # All /\ ~s.mirrored
    BY <2>3, <1>1 DEF Asked, Taken, SizeFrom
  <2> QED BY <2>1, <2>2, <2>3
<1>6. Taken(s, left) * GB \in Nat /\ Taken(s, left) * GB <= left
  BY <1>3 DEF Fits
<1> QED BY <1>3, <1>4, <1>5, <1>6 DEF After

\* What a goal that passes the size check asks for fits the DIMM.
LEMMA CheckedFits ==
  ASSUME NEW g \in Goal, NEW d \in Dimm, Len(g.sets) <= MaxSets, SizesOK(g, d), NoWrap(g)
  PROVE  Total(g) * GB <= Usable(d)
<1> DEFINE left0 == Usable(d)
           left1 == After(Memory(g), left0)
           left2 == After(g.sets[1], left1)
           nothing == [size |-> 0, mirrored |-> FALSE]
           m  == Taken(Memory(g), left0)
           t1 == Taken(g.sets[1], left1)
           t2 == Taken(g.sets[2], left2)
<1>1. left0 \in Nat
  BY UsableType, WordPositive DEF Size
<1>2. g.sets \in Seq(Set) /\ Len(g.sets) \in Nat /\ DOMAIN g.sets = 1 .. Len(g.sets)
  BY DEF Goal
<1>3. \A i \in DOMAIN g.sets : g.sets[i].size \in Size /\ g.sets[i].mirrored \in BOOLEAN
  <2>1. \A i \in DOMAIN g.sets : g.sets[i] \in Set
    BY <1>2
  <2> QED BY <2>1 DEF Set
<1>4. /\ Asked(Memory(g)) \in Nat /\ m \in Nat /\ Asked(Memory(g)) <= m
      /\ left1 \in Nat /\ left1 + m * GB = left0
  <2>1. Memory(g).size \in Size /\ Memory(g).mirrored = FALSE
    BY DEF Memory, Goal
  <2>2. Fits(Memory(g), left0)
    BY DEF SizesOK
  <2> HIDE DEF left0
  <2> QED BY <2>1, <2>2, <1>1, FitsTakes
<1>5. Asked(nothing) = 0
  BY DEF Asked, All, Word
<1>6. ASSUME Len(g.sets) > 0
      PROVE  /\ Asked(g.sets[1]) \in Nat /\ t1 \in Nat /\ Asked(g.sets[1]) <= t1
             /\ left2 \in Nat /\ left2 + t1 * GB = left1
  <2>1. Fits(g.sets[1], left1)
    BY <1>6 DEF SizesOK
  <2>2. 1 \in DOMAIN g.sets
    BY <1>6, <1>2
  <2>3. g.sets[1].mirrored => g.sets[1].size = All \/ 2 * g.sets[1].size < Word
    BY <2>2 DEF NoWrap
  <2> HIDE DEF left1
  <2> QED BY <2>1, <2>2, <2>3, <1>3, <1>4, FitsTakes
<1>7. ASSUME Len(g.sets) > 1
      PROVE  /\ Asked(g.sets[2]) \in Nat /\ t2 \in Nat /\ Asked(g.sets[2]) <= t2
             /\ t2 * GB <= left2
  <2>1. Fits(g.sets[2], left2)
    BY <1>7 DEF SizesOK
  <2>2. 2 \in DOMAIN g.sets /\ Len(g.sets) > 0
    BY <1>7, <1>2
  <2>3. g.sets[2].mirrored => g.sets[2].size = All \/ 2 * g.sets[2].size < Word
    BY <2>2 DEF NoWrap
  <2>4. t2 * GB <= left2
    BY <2>1 DEF Fits
  <2> HIDE DEF left2
  <2> QED BY <2>1, <2>2, <2>3, <2>4, <1>3, <1>6, FitsTakes
<1>12. left0 = Usable(d)
  OBVIOUS
<1>13. Total(g) = Asked(Memory(g)) + Asked(SetAt(g, 1)) + Asked(SetAt(g, 2))
  BY DEF Total
<1>14. \A i \in {1, 2} : SetAt(g, i) = IF i \in DOMAIN g.sets THEN g.sets[i] ELSE nothing
  BY DEF SetAt
<1> HIDE DEF left0, left1, left2, m, t1, t2, nothing
<1>8. Asked(Memory(g)) * GB <= m * GB /\ m * GB \in Nat
  BY <1>4, TimesMonotone
<1>9. CASE Len(g.sets) = 0
  <2>1. Total(g) = Asked(Memory(g))
    BY <1>9, <1>2, <1>4, <1>5, <1>13, <1>14
  <2> QED BY <2>1, <1>4, <1>8, <1>12
<1>10. CASE Len(g.sets) = 1
  <2>1. Total(g) = Asked(Memory(g)) + Asked(g.sets[1])
    BY <1>10, <1>2, <1>4, <1>5, <1>6, <1>13, <1>14
  <2>2. Asked(g.sets[1]) * GB <= t1 * GB /\ t1 * GB \in Nat
    BY <1>6, <1>10, TimesMonotone
  <2>3. Total(g) * GB = Asked(Memory(g)) * GB + Asked(g.sets[1]) * GB
    BY <2>1, <1>4, <1>6, <1>10
  <2> QED BY <2>2, <2>3, <1>4, <1>6, <1>8, <1>10, <1>12
<1>11. CASE Len(g.sets) = 2
  <2>1. Total(g) = Asked(Memory(g)) + Asked(g.sets[1]) + Asked(g.sets[2])
    BY <1>11, <1>2, <1>13, <1>14
  <2>2. /\ Asked(g.sets[1]) * GB <= t1 * GB /\ t1 * GB \in Nat
        /\ Asked(g.sets[2]) * GB <= t2 * GB /\ t2 * GB \in Nat
    BY <1>6, <1>7, <1>11, TimesMonotone
  <2>3. Total(g) * GB = Asked(Memory(g)) * GB + Asked(g.sets[1]) * GB + Asked(g.sets[2]) * GB
    BY <2>1, <1>4, <1>6, <1>7, <1>11
  <2> QED BY <2>2, <2>3, <1>4, <1>6, <1>7, <1>8, <1>11, <1>12
<1>15. Len(g.sets) \in {0, 1, 2}
  <2>1. Len(g.sets) \in Nat
    BY <1>2
  <2>2. Len(g.sets) <= 2
    BY DEF MaxSets
  <2> QED BY <2>1, <2>2, UpToTwo
<1> QED BY <1>9, <1>10, <1>11, <1>15
-----------------------------------------------------------------------------
\* The inductive invariant: a goal past the checks has passed them, a table
\* is there once it is written, and its partition is within the DIMM, which
\* is what makes the memory that is read from it a size.
TableOK(t) == t \in Table /\ Len(t.sets) <= MaxSets /\ t.partition <= Usable(dimm)

SizesInv ==
  /\ TypeOK
  /\ pc \in {"valid", "written", "read"} => Accepted(goal, dimm)
  /\ pc \in {"written", "read"} => TableOK(table)
  /\ pc = "read" => read \in Goal

\* The partition of a goal that passed the checks is within its DIMM.
LEMMA PartitionType ==
  ASSUME NEW g \in Goal, NEW d \in Dimm, SizesOK(g, d)
  PROVE  Partition(g, d) \in Size /\ Partition(g, d) <= Usable(d)
<1>1. Usable(d) \in Size /\ Usable(d) \in Nat
  BY UsableType, WordPositive DEF Size
<1>2. CASE g.memory = All
  BY <1>1, <1>2, WordPositive DEF Partition, Size
<1>3. CASE g.memory # All
  <2>1. Taken(Memory(g), Usable(d)) = g.memory
    BY <1>3 DEF Taken, Memory, SizeFrom
  <2>2. Fits(Memory(g), Usable(d))
    BY DEF SizesOK
  <2>3. g.memory * GB <= Usable(d)
    BY <2>1, <2>2 DEF Fits
  <2>4. g.memory \in Nat
    BY WordPositive DEF Goal, Size
  <2>5. g.memory * GB \in Nat
    BY <2>4
  <2>6. Usable(d) - g.memory * GB \in Size /\ Usable(d) - g.memory * GB <= Usable(d)
    BY <1>1, <2>3, <2>5, WordPositive DEF Size
  <2>7. Wrap(Usable(d) - g.memory * GB) = Usable(d) - g.memory * GB
    BY <2>6, WrapId
  <2> QED BY <2>6, <2>7, <1>3 DEF Partition
<1> QED BY <1>2, <1>3

\* The table of a goal that passed the checks.
LEMMA ConfigInputType ==
  ASSUME NEW g \in Goal, NEW d \in Dimm, Accepted(g, d)
  PROVE  /\ ConfigInput(g, d) \in Table
         /\ Len(ConfigInput(g, d).sets) <= MaxSets
         /\ ConfigInput(g, d).partition <= Usable(d)
<1> DEFINE left1 == Wrap(Usable(d) - g.memory * GB)
           size1 == SizeFrom(g.sets[1].size, left1, g.sets[1].mirrored)
           left2 == Wrap(left1 - size1 * GB)
           size2 == SizeFrom(g.sets[2].size, left2, g.sets[2].mirrored)
           Of(s, size, offset) ==
             [size |-> Wrap(size * GB), offset |-> Wrap(offset * GB), mirrored |-> s.mirrored, here |-> s.here]
           Sets == CASE Len(g.sets) = 0 -> <<>>
                     [] Len(g.sets) = 1 -> <<Of(g.sets[1], size1, 0)>>
                     [] OTHER -> <<Of(g.sets[1], size1, 0), Of(g.sets[2], size2, SecondOffset(g))>>
           Row == [size : Size, offset : Size, mirrored : BOOLEAN, here : BOOLEAN]
<1>1. ConfigInput(g, d) = [partition |-> Partition(g, d), sets |-> Sets]
  BY DEF ConfigInput
<1>2. Partition(g, d) \in Size /\ Partition(g, d) <= Usable(d)
  BY PartitionType DEF Accepted
<1>3. Usable(d) \in Int /\ g.memory \in Int
  BY UsableType, WordPositive DEF Size, Goal
<1>4. g.sets \in Seq(Set) /\ Len(g.sets) \in Nat /\ Len(g.sets) <= 2
  BY DEF Goal, Accepted, MaxSets
<1>5. ASSUME NEW i \in 1 .. Len(g.sets)
      PROVE  g.sets[i].size \in Size /\ g.sets[i].size \in Int /\ g.sets[i].mirrored \in BOOLEAN /\ g.sets[i].here \in BOOLEAN
  <2>1. g.sets[i] \in Set
    BY <1>4
  <2> QED BY <2>1, WordPositive DEF Set, Size
<1>6. left1 \in Nat
  BY <1>3, WrapType, WordPositive DEF Size
<1>7. ASSUME Len(g.sets) > 0 PROVE size1 \in Nat /\ Of(g.sets[1], size1, 0) \in Row
  <2>1. 1 \in 1 .. Len(g.sets)
    BY <1>7, <1>4
  <2>2. size1 \in Nat
    BY <2>1, <1>5, <1>6, SizeFromAny
  <2>3. size1 * GB \in Int /\ 0 * GB \in Int
    BY <2>2
  <2>4. Wrap(size1 * GB) \in Size /\ Wrap(0 * GB) \in Size
    BY <2>3, WrapType
  <2> QED BY <2>1, <2>2, <2>4, <1>5
<1>8. ASSUME Len(g.sets) > 1 PROVE Of(g.sets[2], size2, SecondOffset(g)) \in Row
  <2>1. 2 \in 1 .. Len(g.sets) /\ 1 \in 1 .. Len(g.sets)
    BY <1>8, <1>4
  <2>2. left1 - size1 * GB \in Int
    BY <1>7, <1>8, <1>4, <1>6
  <2>3. left2 \in Nat
    BY <2>2, WrapType, WordPositive DEF Size
  <2>4. size2 \in Nat
    BY <2>1, <2>3, <1>5, SizeFromAny
  <2>5. size2 * GB \in Int /\ SecondOffset(g) * GB \in Int
    BY <2>4, <2>1, <1>5 DEF SecondOffset
  <2>6. Wrap(size2 * GB) \in Size /\ Wrap(SecondOffset(g) * GB) \in Size
    BY <2>5, WrapType
  <2> QED BY <2>1, <2>6, <1>5
<1>9. Sets \in Seq(Row) /\ Len(Sets) <= 2
  <2> HIDE DEF Of, size1, size2, Row
  <2>1. CASE Len(g.sets) = 0
    BY <2>1
  <2>2. CASE Len(g.sets) = 1
    <3>1. Of(g.sets[1], size1, 0) \in Row
      BY <2>2, <1>7
    <3> QED BY <3>1, <2>2
  <2>3. CASE Len(g.sets) = 2
    <3>1. Of(g.sets[1], size1, 0) \in Row /\ Of(g.sets[2], size2, SecondOffset(g)) \in Row
      BY <2>3, <1>7, <1>8
    <3> QED BY <3>1, <2>3
  <2>4. Len(g.sets) \in {0, 1, 2}
    BY <1>4, UpToTwo
  <2> QED BY <2>1, <2>2, <2>3, <2>4
<1> HIDE DEF Sets
<1> QED BY <1>1, <1>2, <1>9 DEF Table, MaxSets

\* Sequences of one element, and elements of sequences.
LEMMA OneElement ==
  ASSUME NEW S, NEW s \in Seq(S), s # <<>>, Len(s) <= 1
  PROVE  Len(s) = 1 /\ s[1] \in S
<1>1. Len(s) \in Nat /\ Len(s) # 0
  OBVIOUS
<1>2. \A n \in Nat : n # 0 /\ n <= 1 => n = 1
  OBVIOUS
<1>3. Len(s) = 1
  BY <1>1, <1>2
<1> QED BY <1>3

LEMMA ElementType ==
  ASSUME NEW S, NEW s \in Seq(S), NEW i \in Nat, i > 0, i <= Len(s)
  PROVE  s[i] \in S
  OBVIOUS

\* One set that is read is typed, and adds at most one to the goal.
LEMMA ReadSetType ==
  ASSUME NEW g \in Goal, Len(g.sets) <= 1,
         NEW t \in [size : Size, offset : Size, mirrored : BOOLEAN, here : BOOLEAN]
  PROVE  ReadSet(g, t) \in Goal /\ Len(ReadSet(g, t).sets) <= Len(g.sets) + 1
<1> DEFINE s == [size |-> IF t.here THEN t.size \div GB ELSE 0, mirrored |-> t.mirrored, here |-> t.here]
<1>1. t.size \in Nat /\ t.size <= Word - 1
  BY WordPositive DEF Size
<1>2. t.size \div GB \in Nat /\ t.size \div GB <= t.size
  BY <1>1, DivType
<1>3. t.size \div GB \in Size /\ 0 \in Size
  BY <1>1, <1>2, WordPositive DEF Size
<1>4. s \in Set
  BY <1>3 DEF Set
<1>5. g.memory \in Size /\ g.sets \in Seq(Set) /\ Len(g.sets) \in Nat
  BY DEF Goal
<1> HIDE DEF s
<1>6. CASE g.sets # <<>> /\ g.sets[1].size # 0
  <2>1. Len(g.sets) = 1 /\ g.sets[1] \in Set
    BY <1>5, <1>6, OneElement
  <2>2. ReadSet(g, t) = [g EXCEPT !.sets = <<g.sets[1], s>>]
    BY <1>6 DEF ReadSet, s
  <2>3. ReadSet(g, t) = [memory |-> g.memory, sets |-> <<g.sets[1], s>>]
    BY <2>2 DEF Goal
  <2> QED BY <2>1, <2>3, <1>4, <1>5 DEF Goal
<1>7. CASE ~(g.sets # <<>> /\ g.sets[1].size # 0)
  <2>1. ReadSet(g, t) = [g EXCEPT !.sets = <<s>>]
    BY <1>7 DEF ReadSet, s
  <2>2. ReadSet(g, t) = [memory |-> g.memory, sets |-> <<s>>]
    BY <2>1 DEF Goal
  <2> QED BY <2>2, <1>4, <1>5 DEF Goal
<1> QED BY <1>6, <1>7

\* The goal that is read from a table within its DIMM is typed.
LEMMA GoalReadType ==
  ASSUME NEW t \in Table, NEW d \in Dimm, Len(t.sets) <= MaxSets, t.partition <= Usable(d)
  PROVE  GoalRead(t, d) \in Goal
<1> DEFINE none == [memory |-> ReadMemory(t, d), sets |-> <<>>]
           Row == [size : Size, offset : Size, mirrored : BOOLEAN, here : BOOLEAN]
<1>1. ReadMemory(t, d) \in Size
  <2>1. t.partition \in Nat
    BY WordPositive DEF Table, Size
  <2>2. t.partition <= d.gb * GB /\ d.gb \in 0 .. MaxGB
    BY UsableType
  <2>3. t.partition \div GB \in 0 .. d.gb
    BY <2>1, <2>2, DivBound
  <2>4. d.gb - t.partition \div GB \in 0 .. MaxGB
    BY <2>2, <2>3
  <2> QED BY <2>4, InWord DEF ReadMemory
<1>2. none \in Goal /\ Len(none.sets) = 0
  BY <1>1 DEF Goal
<1>3. t.sets \in Seq(Row) /\ Len(t.sets) \in Nat
  BY DEF Table
<1>4. Len(t.sets) \in {0, 1, 2}
  <2>1. Len(t.sets) <= 2
    BY DEF MaxSets
  <2> QED BY <2>1, <1>3, UpToTwo
<1>5. GoalRead(t, d) = CASE Len(t.sets) = 0 -> none
                         [] Len(t.sets) = 1 -> ReadSet(none, t.sets[1])
                         [] OTHER -> ReadSet(ReadSet(none, t.sets[1]), t.sets[2])
  BY DEF GoalRead
<1> HIDE DEF none, Row
<1>6. CASE Len(t.sets) = 0
  BY <1>2, <1>5, <1>6
<1>7. CASE Len(t.sets) # 0
  <2>1. t.sets[1] \in Row
    <3>1. 1 <= Len(t.sets)
      BY <1>4, <1>7
    <3> QED BY <3>1, <1>3, ElementType
  <2>2. ReadSet(none, t.sets[1]) \in Goal /\ Len(ReadSet(none, t.sets[1]).sets) <= 1
    BY <2>1, <1>2, ReadSetType DEF Row
  <2>3. CASE Len(t.sets) = 1
    BY <2>2, <2>3, <1>5
  <2>4. CASE Len(t.sets) = 2
    <3>1. t.sets[2] \in Row
      BY <1>3, <2>4, ElementType
    <3>2. ReadSet(ReadSet(none, t.sets[1]), t.sets[2]) \in Goal
      BY <2>2, <3>1, ReadSetType DEF Row
    <3> QED BY <3>2, <2>4, <1>5
  <2> QED BY <2>3, <2>4, <1>4, <1>7
<1> QED BY <1>6, <1>7

LEMMA SizesInvInit == Init => SizesInv
<1> SUFFICES ASSUME Init PROVE SizesInv
  OBVIOUS
<1>1. dimm \in Dimm /\ goal \in Goal
  BY DimmsAssumption, GoalsAssumption DEF Init
<1> QED BY <1>1 DEF Init, SizesInv, TypeOK

LEMMA SizesInvNext == SizesInv /\ [Next]_vars => SizesInv'
<1> SUFFICES ASSUME SizesInv, [Next]_vars PROVE SizesInv'
  OBVIOUS
<1> USE DEF SizesInv, TypeOK, TableOK
<1>1. CASE Validate
  BY <1>1 DEF Validate
<1>2. CASE Write
  <2>1. /\ ConfigInput(goal, dimm) \in Table
        /\ Len(ConfigInput(goal, dimm).sets) <= MaxSets
        /\ ConfigInput(goal, dimm).partition <= Usable(dimm)
    BY <1>2, ConfigInputType DEF Write
  <2> QED BY <2>1, <1>2 DEF Write
<1>3. CASE WriteFails
  BY <1>3 DEF WriteFails
<1>4. CASE Read
  <2>1. GoalRead(table, dimm) \in Goal
    BY <1>4, GoalReadType DEF Read
  <2> QED BY <2>1, <1>4 DEF Read
<1>5. CASE AskAgain
  BY <1>5 DEF AskAgain
<1>6. CASE UNCHANGED vars
  BY <1>6 DEF vars
<1> QED BY <1>1, <1>2, <1>3, <1>4, <1>5, <1>6 DEF Next

\* Sizes never leave their word, however large the goals that are asked for.
THEOREM TypeCorrect == Spec => []TypeOK
<1>1. SizesInv => TypeOK
  BY DEF SizesInv
<1> QED BY <1>1, SizesInvInit, SizesInvNext, PTL DEF Spec

\* No goal passes the checks unless it fits its DIMM.
THEOREM AcceptedGoalsFit == Spec => []AcceptedFits
<1>1. SizesInv => AcceptedFits
  <2> SUFFICES ASSUME SizesInv, pc \in {"valid", "written", "read"}, NoWrap(goal)
               PROVE  Total(goal) * GB <= Usable(dimm)
    BY DEF AcceptedFits
  <2>1. goal \in Goal /\ dimm \in Dimm /\ Len(goal.sets) <= MaxSets /\ SizesOK(goal, dimm)
    BY DEF SizesInv, TypeOK, Accepted
  <2> QED BY <2>1, CheckedFits
<1> QED BY <1>1, SizesInvInit, SizesInvNext, PTL DEF Spec
-----------------------------------------------------------------------------
(* What is refused, what is written and what is read back, in GiB: a DIMM   *)
(* has L of them left, a set s gets Z(s, L) and takes that Times(s).        *)

Z(s, L) == IF s.size # All THEN s.size ELSE IF s.mirrored THEN L \div 2 ELSE L
Times(s) == IF s.mirrored THEN 2 ELSE 1
Sized(s) == s.size \in Size /\ s.mirrored \in BOOLEAN
Unwrapped(s) == s.mirrored => s.size = All \/ 2 * s.size < Word

LEMMA DivOfTimes == \A n \in Nat : (n * GB) \div GB = n
<1> TAKE n \in Nat
<1> DEFINE q == (n * GB) \div GB
<1>1. n * GB \in Nat
  BY WordAssumption
<1>2. q \in Nat /\ q <= n
  BY <1>1, DivBound
<1>3. q >= n
  <2>1. SUFFICES ASSUME q < n PROVE FALSE
    BY <1>2
  <2>2. q * GB + GB > n * GB
    BY <1>1, WordAssumption
  <2>3. q + 1 <= n
    BY <2>1, <1>2
  <2>4. (q + 1) * GB <= n * GB
    BY <2>3, <1>2, TimesMonotone
  <2>5. (q + 1) * GB = q * GB + GB
    BY <1>2, WordAssumption
  <2> QED BY <2>2, <2>4, <2>5, <1>1, <1>2
<1> QED BY <1>2, <1>3

LEMMA TimesMirrors == \A a, b \in Nat : a * GB <= b * GB => a <= b
<1> SUFFICES ASSUME NEW a \in Nat, NEW b \in Nat, a * GB <= b * GB PROVE a <= b
  OBVIOUS
<1>1. SUFFICES ASSUME b + 1 <= a PROVE FALSE
  OBVIOUS
<1>2. (b + 1) * GB <= a * GB
  BY <1>1, TimesMonotone
<1>3. (b + 1) * GB = b * GB + GB
  BY WordAssumption
<1>4. a * GB \in Nat /\ b * GB \in Nat
  BY WordAssumption
<1> QED BY <1>2, <1>3, <1>4, WordAssumption

LEMMA TimesMinus == \A a, b \in Int : a * GB - b * GB = (a - b) * GB /\ a * GB + b * GB = (a + b) * GB
  BY WordAssumption

\* What a size stands for when L GiB are left.
LEMMA SizeFromIs ==
  ASSUME NEW s, Sized(s), NEW L \in 0 .. MaxGB
  PROVE  /\ SizeFrom(s.size, L * GB, s.mirrored) = Z(s, L)
         /\ Z(s, L) \in Nat
<1>1. (L * GB) \div GB = L
  BY DivOfTimes, WordAssumption
<1>2. s.size \in Nat
  BY WordPositive DEF Sized, Size
<1> QED BY <1>1, <1>2 DEF SizeFrom, Z, Sized

\* What a set takes when L GiB are left.
LEMMA TakenIs ==
  ASSUME NEW s, Sized(s), NEW L \in 0 .. MaxGB, Unwrapped(s)
  PROVE  Taken(s, L * GB) = Times(s) * Z(s, L)
<1>1. SizeFrom(s.size, L * GB, s.mirrored) = Z(s, L) /\ Z(s, L) \in Nat
  BY SizeFromIs
<1>2. CASE s.mirrored
  <2>1. 2 * Z(s, L) \in Size
    <3>1. CASE s.size = All
      <4>1. Z(s, L) = L \div 2
        BY <3>1, <1>2 DEF Z
      <4>2. 2 * Z(s, L) <= L
        BY <4>1
      <4>3. L \in Size
        BY InWord
      <4> QED BY <4>2, <4>3, <1>1, WordPositive DEF Size
    <3>2. CASE s.size # All
      BY <3>2, <1>1, <1>2, WordPositive DEF Unwrapped, Z, Size
    <3> QED BY <3>1, <3>2
  <2>2. Wrap(2 * Z(s, L)) = 2 * Z(s, L)
    BY <2>1, WrapId
  <2> QED BY <2>2, <1>1, <1>2 DEF Taken, Times
<1>3. CASE ~s.mirrored
  <2>1. s.mirrored = FALSE
    BY <1>3 DEF Sized
  <2>2. SizeFrom(s.size, L * GB, FALSE) = Z(s, L)
    BY <2>1, <1>1
  <2>3. Taken(s, L * GB) = Z(s, L) /\ Times(s) = 1
    BY <2>1, <2>2 DEF Taken, Times
  <2> QED BY <2>3, <1>1
<1> QED BY <1>2, <1>3

\* A set that asks for no more than is left fits, and what it takes are GiB.
LEMMA FitsWhen ==
  ASSUME NEW s, Sized(s), NEW L \in 0 .. MaxGB, Unwrapped(s), Asked(s) <= L
  PROVE  /\ Fits(s, L * GB)
         /\ \E T \in 0 .. L : /\ After(s, L * GB) = (L - T) * GB
                              /\ s.size # All => T = Asked(s)
<1> DEFINE T == Times(s) * Z(s, L)
<1>1. Taken(s, L * GB) = T
  BY TakenIs
<1>2. T \in 0 .. L /\ (s.size # All => T = Asked(s))
  <2>1. Z(s, L) \in Nat /\ s.size \in Nat
    BY SizeFromIs, WordPositive DEF Sized, Size
  <2>2. CASE s.size = All
    BY <2>1, <2>2 DEF Z, Times
  <2>3. CASE s.size # All
    BY <2>1, <2>3 DEF Z, Times, Asked
  <2> QED BY <2>2, <2>3
<1> HIDE DEF T
<1>3. T * GB <= L * GB
  BY <1>2, TimesMonotone
<1>4. T <= MaxGB
  BY <1>2
<1>5. After(s, L * GB) = (L - T) * GB
  BY <1>1, <1>2, TimesMinus DEF After
<1> QED BY <1>1, <1>2, <1>3, <1>4, <1>5 DEF Fits

\* What a goal asks for, set by set.
LEMMA GoalParts ==
  ASSUME NEW g \in Goal, NoWrap(g)
  PROVE  /\ Sized(Memory(g)) /\ Unwrapped(Memory(g)) /\ Asked(Memory(g)) \in Nat
         /\ g.memory \in Nat /\ Memory(g).size = g.memory /\ (g.memory # All => Asked(Memory(g)) = g.memory)
         /\ \A i \in 1 .. Len(g.sets) :
              Sized(g.sets[i]) /\ Unwrapped(g.sets[i]) /\ Asked(g.sets[i]) \in Nat /\ g.sets[i] \in Set
         /\ Len(g.sets) \in Nat /\ DOMAIN g.sets = 1 .. Len(g.sets)
         /\ Len(g.sets) = 0 => Total(g) = Asked(Memory(g))
         /\ Len(g.sets) = 1 => Total(g) = Asked(Memory(g)) + Asked(g.sets[1])
         /\ Len(g.sets) = 2 => Total(g) = Asked(Memory(g)) + Asked(g.sets[1]) + Asked(g.sets[2])
<1>1. g.memory \in Size /\ g.sets \in Seq(Set) /\ Size \subseteq Nat
  BY WordPositive DEF Goal, Size
<1>2. Sized(Memory(g)) /\ Unwrapped(Memory(g)) /\ Asked(Memory(g)) \in Nat /\ g.memory \in Nat
      /\ Memory(g).size = g.memory /\ (g.memory # All => Asked(Memory(g)) = g.memory)
  BY <1>1 DEF Sized, Unwrapped, Memory, Asked
<1>3. Len(g.sets) \in Nat /\ DOMAIN g.sets = 1 .. Len(g.sets)
  BY <1>1
<1>4. ASSUME NEW i \in 1 .. Len(g.sets)
      PROVE  Sized(g.sets[i]) /\ Unwrapped(g.sets[i]) /\ Asked(g.sets[i]) \in Nat /\ g.sets[i] \in Set
  <2>1. g.sets[i] \in Set
    BY <1>1
  <2>2. Sized(g.sets[i]) /\ g.sets[i].size \in Nat
    BY <2>1, <1>1 DEF Set, Sized
  <2>3. Unwrapped(g.sets[i])
    BY <1>3 DEF NoWrap, Unwrapped
  <2> QED BY <2>1, <2>2, <2>3 DEF Asked
<1>5. \A i \in {1, 2} : i > Len(g.sets) => Asked(SetAt(g, i)) = 0
  BY <1>3 DEF SetAt, Asked, All, Word
<1>6. \A i \in {1, 2} : i <= Len(g.sets) => SetAt(g, i) = g.sets[i]
  BY <1>3 DEF SetAt
<1>7. Len(g.sets) = 0 => Total(g) = Asked(Memory(g))
  BY <1>2, <1>5 DEF Total
<1>8. Len(g.sets) = 1 => Total(g) = Asked(Memory(g)) + Asked(g.sets[1])
  BY <1>2, <1>4, <1>5, <1>6 DEF Total
<1>9. Len(g.sets) = 2 => Total(g) = Asked(Memory(g)) + Asked(g.sets[1]) + Asked(g.sets[2])
  BY <1>2, <1>4, <1>6 DEF Total
<1> QED BY <1>2, <1>3, <1>4, <1>7, <1>8, <1>9

\* What fits passes the check of sizes.
LEMMA FittingPasses ==
  ASSUME NEW g \in Goal, NEW d \in Dimm, NoWrap(g), Len(g.sets) <= MaxSets, RestLast(g),
         \A i \in DOMAIN g.sets : g.sets[i].size # 0,
         Total(g) * GB <= Usable(d)
  PROVE  SizesOK(g, d)
<1>1. d.gb \in 0 .. MaxGB /\ Usable(d) = d.gb * GB
  BY UsableType
<1>2. Asked(Memory(g)) \in Nat /\ Sized(Memory(g)) /\ Unwrapped(Memory(g)) /\ Memory(g).size = g.memory
      /\ DOMAIN g.sets = 1 .. Len(g.sets)
  BY GoalParts
<1>3. \A i \in 1 .. Len(g.sets) : Sized(g.sets[i]) /\ Unwrapped(g.sets[i]) /\ Asked(g.sets[i]) \in Nat
  BY GoalParts
<1>4. Len(g.sets) \in {0, 1, 2}
  BY GoalParts, UpToTwo DEF MaxSets
<1> DEFINE A1 == IF Len(g.sets) > 0 THEN Asked(g.sets[1]) ELSE 0
           A2 == IF Len(g.sets) > 1 THEN Asked(g.sets[2]) ELSE 0
           G == d.gb
<1>5. A1 \in Nat /\ A2 \in Nat
  BY <1>3, <1>4
<1>6. Total(g) = Asked(Memory(g)) + A1 + A2
  BY <1>2, <1>3, <1>4, GoalParts
<1>8. Len(g.sets) > 0 => A1 = Asked(g.sets[1])
  OBVIOUS
<1>9. Len(g.sets) > 1 => A2 = Asked(g.sets[2])
  OBVIOUS
<1>10. g.memory = All => A1 = 0 /\ A2 = 0
  BY <1>2, <1>4 DEF RestLast, Asked
<1>11. Len(g.sets) > 1 /\ g.sets[1].size = All => A2 = 0
  BY DEF RestLast, Asked
<1> HIDE DEF A1, A2, G
<1>12. G \in 0 .. MaxGB /\ Usable(d) = G * GB
  BY <1>1 DEF G
<1>7. Asked(Memory(g)) + A1 + A2 <= G
  <2>1. Total(g) \in Nat /\ G \in Nat /\ Total(g) * GB <= G * GB
    BY <1>2, <1>5, <1>6, <1>12
  <2>2. Total(g) <= G
    BY <2>1, TimesMirrors
  <2> QED BY <2>2, <1>6
<1>13. /\ Fits(Memory(g), G * GB)
       /\ \E T \in 0 .. G : /\ After(Memory(g), G * GB) = (G - T) * GB
                            /\ g.memory # All => T = Asked(Memory(g))
  <2>1. Asked(Memory(g)) <= G
    BY <1>2, <1>5, <1>7, <1>12
  <2> QED BY <2>1, <1>2, <1>12, FitsWhen
<1>14. PICK T \in 0 .. G : /\ After(Memory(g), G * GB) = (G - T) * GB
                           /\ g.memory # All => T = Asked(Memory(g))
  BY <1>13
<1> DEFINE L == G - T
<1>15. L \in 0 .. MaxGB /\ After(Memory(g), Usable(d)) = L * GB /\ A1 + A2 <= L
  BY <1>2, <1>5, <1>7, <1>10, <1>12, <1>14
<1> HIDE DEF L
<1>16. CASE Len(g.sets) = 0
  BY <1>12, <1>13, <1>16 DEF SizesOK
<1>17. ASSUME Len(g.sets) > 0
       PROVE  /\ g.sets[1].size # 0 /\ Fits(g.sets[1], L * GB)
              /\ \E U \in 0 .. L : /\ After(g.sets[1], L * GB) = (L - U) * GB
                                   /\ g.sets[1].size # All => U = A1
  <2>1. 1 \in 1 .. Len(g.sets) /\ A1 = Asked(g.sets[1])
    BY <1>4, <1>8, <1>17
  <2>2. Asked(g.sets[1]) <= L
    BY <2>1, <1>5, <1>15
  <2>3. g.sets[1].size # 0 /\ Sized(g.sets[1]) /\ Unwrapped(g.sets[1])
    BY <2>1, <1>2, <1>3
  <2> QED BY <2>1, <2>2, <2>3, <1>15, FitsWhen
<1>18. CASE Len(g.sets) = 1
  BY <1>12, <1>13, <1>15, <1>17, <1>18 DEF SizesOK
<1>19. CASE Len(g.sets) = 2
  <2>1. PICK U \in 0 .. L : /\ After(g.sets[1], L * GB) = (L - U) * GB
                            /\ g.sets[1].size # All => U = A1
    BY <1>17, <1>19
  <2>2. 2 \in 1 .. Len(g.sets) /\ A2 = Asked(g.sets[2])
    BY <1>9, <1>19
  <2> DEFINE M == L - U
  <2>3. M \in 0 .. MaxGB /\ A2 <= M
    BY <2>1, <1>5, <1>11, <1>15, <1>19
  <2>4. g.sets[2].size # 0 /\ Sized(g.sets[2]) /\ Unwrapped(g.sets[2])
    BY <2>2, <1>2, <1>3
  <2> HIDE DEF M
  <2>5. Fits(g.sets[2], M * GB)
    BY <2>2, <2>3, <2>4, FitsWhen
  <2>6. After(g.sets[1], L * GB) = M * GB
    BY <2>1 DEF M
  <2> QED BY <2>4, <2>5, <2>6, <1>12, <1>13, <1>15, <1>17, <1>19 DEF SizesOK
<1> QED BY <1>4, <1>16, <1>18, <1>19

\* A set that fits takes no more than is left.
LEMMA FittingTakes ==
  ASSUME NEW s, Sized(s), NEW L \in 0 .. MaxGB, Unwrapped(s), Fits(s, L * GB)
  PROVE  /\ Z(s, L) \in Nat /\ Times(s) \in {1, 2}
         /\ Times(s) * Z(s, L) \in 0 .. L
         /\ After(s, L * GB) = (L - Times(s) * Z(s, L)) * GB
<1>1. Z(s, L) \in Nat /\ Times(s) \in {1, 2}
  BY SizeFromIs DEF Times
<1> DEFINE T == Times(s) * Z(s, L)
<1>2. T \in Nat
  BY <1>1
<1>3. Taken(s, L * GB) = T
  BY TakenIs
<1> HIDE DEF T
<1>4. T <= L
  <2>1. T * GB <= L * GB
    BY <1>3 DEF Fits
  <2>2. L \in Nat
    OBVIOUS
  <2> QED BY <2>1, <2>2, <1>2, TimesMirrors
<1>5. After(s, L * GB) = (L - T) * GB
  BY <1>2, <1>3, TimesMinus DEF After
<1> QED BY <1>1, <1>2, <1>4, <1>5 DEF T

\* The GiB behind memory, those behind the first set, and what a row of a
\* table says of n GiB after o.
Rest(g, d) == IF g.memory = All THEN 0 ELSE d.gb - g.memory
First(g, d) == Z(g.sets[1], Rest(g, d))
Second(g, d) == Z(g.sets[2], Rest(g, d) - First(g, d))
Row(s, n, o) == [size |-> n * GB, offset |-> o * GB, mirrored |-> s.mirrored, here |-> s.here]

\* The table of a plain goal that passed the checks, in GiB.
LEMMA MemoryFits ==
  ASSUME NEW g \in Goal, NEW d \in Dimm, SizesOK(g, d), Plain(g)
  PROVE  /\ Rest(g, d) \in 0 .. d.gb /\ d.gb \in 0 .. MaxGB
         /\ Partition(g, d) = Rest(g, d) * GB
         /\ g.memory # All => /\ Wrap(Usable(d) - g.memory * GB) = Rest(g, d) * GB
                              /\ After(Memory(g), Usable(d)) = Rest(g, d) * GB
                              /\ g.memory <= d.gb
<1>1. d.gb \in 0 .. MaxGB /\ Usable(d) = d.gb * GB
  BY UsableType
<1>2. Sized(Memory(g)) /\ Unwrapped(Memory(g)) /\ Memory(g).size = g.memory /\ Memory(g).mirrored = FALSE
      /\ g.memory \in Nat
  <2>1. NoWrap(g)
    BY DEF Plain
  <2> QED BY <2>1, GoalParts DEF Memory
<1>3. CASE g.memory = All
  BY <1>1, <1>3, WordAssumption DEF Rest, Partition
<1>4. CASE g.memory # All
  <2>1. Z(Memory(g), d.gb) = g.memory /\ Times(Memory(g)) = 1
    BY <1>2, <1>4 DEF Z, Times
  <2>2. Fits(Memory(g), d.gb * GB)
    BY <1>1 DEF SizesOK
  <2>3. Times(Memory(g)) * Z(Memory(g), d.gb) \in 0 .. d.gb
        /\ After(Memory(g), d.gb * GB) = (d.gb - Times(Memory(g)) * Z(Memory(g), d.gb)) * GB
    BY <1>1, <1>2, <2>2, FittingTakes
  <2>4. Times(Memory(g)) * Z(Memory(g), d.gb) = g.memory
    BY <2>1, <1>2
  <2>5. g.memory \in 0 .. d.gb /\ After(Memory(g), Usable(d)) = (d.gb - g.memory) * GB
    BY <2>3, <2>4, <1>1
  <2>6. Rest(g, d) = d.gb - g.memory /\ Rest(g, d) \in 0 .. d.gb
    BY <2>5, <1>1, <1>4 DEF Rest
  <2>7. Usable(d) - g.memory * GB = Rest(g, d) * GB
    BY <1>1, <1>2, <2>6, TimesMinus
  <2>8. Rest(g, d) * GB \in Size
    BY <2>6, <1>1, InWord
  <2>9. Wrap(Rest(g, d) * GB) = Rest(g, d) * GB
    BY <2>8, WrapId
  <2> QED BY <1>1, <1>4, <2>5, <2>6, <2>7, <2>9 DEF Partition
<1> QED BY <1>3, <1>4

LEMMA TableIs ==
  ASSUME NEW g \in Goal, NEW d \in Dimm, Accepted(g, d), Plain(g)
  PROVE  /\ Rest(g, d) \in 0 .. d.gb
         /\ ConfigInput(g, d).partition = Rest(g, d) * GB
         /\ Len(g.sets) = 0 => ConfigInput(g, d).sets = <<>>
         /\ Len(g.sets) > 0 =>
              /\ First(g, d) \in Nat /\ Times(g.sets[1]) \in {1, 2}
              /\ Times(g.sets[1]) * First(g, d) \in 0 .. Rest(g, d)
              /\ g.memory # All
         /\ Len(g.sets) = 1 => ConfigInput(g, d).sets = <<Row(g.sets[1], First(g, d), 0)>>
         /\ Len(g.sets) = 2 =>
              /\ ConfigInput(g, d).sets =
                   <<Row(g.sets[1], First(g, d), 0), Row(g.sets[2], Second(g, d), First(g, d))>>
              /\ Second(g, d) \in Nat /\ Times(g.sets[2]) \in {1, 2}
              /\ Times(g.sets[1]) * First(g, d) + Times(g.sets[2]) * Second(g, d) \in 0 .. Rest(g, d)
              /\ g.sets[1].size # All /\ First(g, d) = g.sets[1].size
<1> DEFINE L == Rest(g, d)
           s1 == g.sets[1]
           s2 == g.sets[2]
           z1 == First(g, d)
           z2 == Second(g, d)
           left1 == Wrap(Usable(d) - g.memory * GB)
           size1 == SizeFrom(s1.size, left1, s1.mirrored)
           left2 == Wrap(left1 - size1 * GB)
           size2 == SizeFrom(s2.size, left2, s2.mirrored)
           Of(s, size, offset) ==
             [size |-> Wrap(size * GB), offset |-> Wrap(offset * GB), mirrored |-> s.mirrored, here |-> s.here]
<1>1. SizesOK(g, d) /\ NoWrap(g) /\ Len(g.sets) <= MaxSets
  BY DEF Accepted, Plain
<1>2. /\ L \in 0 .. d.gb /\ d.gb \in 0 .. MaxGB /\ Partition(g, d) = L * GB
      /\ g.memory # All => left1 = L * GB /\ After(Memory(g), Usable(d)) = L * GB
  BY <1>1, MemoryFits
<1>3. /\ Len(g.sets) \in Nat /\ DOMAIN g.sets = 1 .. Len(g.sets)
      /\ \A i \in 1 .. Len(g.sets) : Sized(g.sets[i]) /\ Unwrapped(g.sets[i])
  BY <1>1, GoalParts
<1>4. ConfigInput(g, d).partition = L * GB
  BY <1>2 DEF ConfigInput
<1>5. Len(g.sets) = 0 => ConfigInput(g, d).sets = <<>>
  BY DEF ConfigInput
<1>6. Len(g.sets) = 1 => ConfigInput(g, d).sets = <<Of(s1, size1, 0)>>
  BY DEF ConfigInput
<1>7. Len(g.sets) = 2 => ConfigInput(g, d).sets = <<Of(s1, size1, 0), Of(s2, size2, SecondOffset(g))>>
  BY DEF ConfigInput
<1>8. \A n, o \in 0 .. MaxGB : \A s : Of(s, n, o) = Row(s, n, o)
  <2> TAKE n, o \in 0 .. MaxGB
  <2>1. Wrap(n * GB) = n * GB /\ Wrap(o * GB) = o * GB
    BY InWord, WrapId
  <2> QED BY <2>1 DEF Row
<1>9. ASSUME Len(g.sets) > 0
      PROVE  /\ z1 \in Nat /\ Times(s1) \in {1, 2} /\ Times(s1) * z1 \in 0 .. L /\ g.memory # All
             /\ size1 = z1 /\ z1 \in 0 .. MaxGB /\ z1 <= L
             /\ After(s1, L * GB) = (L - Times(s1) * z1) * GB
  <2>1. g.memory # All
    BY <1>9, <1>3 DEF Plain
  <2>2. Sized(s1) /\ Unwrapped(s1)
    BY <1>3, <1>9
  <2>3. Fits(s1, L * GB)
    BY <2>1, <1>1, <1>2, <1>9 DEF SizesOK
  <2>4. L \in 0 .. MaxGB
    BY <1>2
  <2> HIDE DEF L, s1
  <2>5. Z(s1, L) \in Nat /\ Times(s1) \in {1, 2} /\ Times(s1) * Z(s1, L) \in 0 .. L
        /\ After(s1, L * GB) = (L - Times(s1) * Z(s1, L)) * GB
    BY <2>2, <2>3, <2>4, FittingTakes
  <2>6. SizeFrom(s1.size, L * GB, s1.mirrored) = Z(s1, L)
    BY <2>2, <2>4, SizeFromIs
  <2>7. z1 = Z(s1, L)
    BY DEF First, L, s1
  <2>8. size1 = z1
    BY <2>1, <2>6, <2>7, <1>2
  <2>9. z1 <= L
    BY <2>4, <2>5, <2>7
  <2> QED BY <2>1, <2>4, <2>5, <2>7, <2>8, <2>9
<1>10. ASSUME Len(g.sets) = 2
       PROVE  /\ z2 \in Nat /\ Times(s2) \in {1, 2} /\ z2 \in 0 .. MaxGB
              /\ Times(s1) * z1 + Times(s2) * z2 \in 0 .. L
              /\ size2 = z2 /\ s1.size # All /\ z1 = s1.size
  <2>1. Sized(s2) /\ Unwrapped(s2) /\ s1.size # All /\ (s1.mirrored => s2.size # All) /\ Sized(s1)
    BY <1>3, <1>10 DEF Plain
  <2>2. z1 = s1.size
    BY <2>1 DEF First, Z
  <2> DEFINE T == Times(s1) * z1
             K == L - T
  <2>3. K \in 0 .. MaxGB /\ T \in 0 .. L /\ z1 \in Nat /\ z1 <= L /\ size1 = z1 /\ After(s1, L * GB) = K * GB
        /\ g.memory # All
    BY <1>2, <1>9, <1>10
  <2>4. After(Memory(g), Usable(d)) = L * GB
    BY <2>3, <1>2
  <2>5. Fits(s2, K * GB)
    BY <2>3, <2>4, <1>1, <1>10 DEF SizesOK
  <2>6. z2 = Z(s2, K)
    <3>1. CASE s1.mirrored
      BY <2>1, <3>1 DEF Second, Z
    <3>2. CASE ~s1.mirrored
      <4>1. Times(s1) = 1
        BY <3>2 DEF Times
      <4>2. T = z1
        BY <4>1, <2>3
      <4>3. z2 = Z(s2, L - z1)
        BY DEF Second
      <4> QED BY <4>2, <4>3
    <3> QED BY <3>1, <3>2
  <2>7. left2 = (L - z1) * GB
    <3>1. left1 - size1 * GB = (L - z1) * GB
      BY <2>3, <1>2, TimesMinus
    <3>2. L - z1 \in 0 .. MaxGB
      BY <2>3, <1>2
    <3>3. (L - z1) * GB \in Size
      BY <3>2, InWord
    <3> QED BY <3>1, <3>3, WrapId
  <2>8. size2 = z2
    <3>1. L - z1 \in 0 .. MaxGB
      BY <2>3, <1>2
    <3>2. SizeFrom(s2.size, (L - z1) * GB, s2.mirrored) = Z(s2, L - z1)
      BY <3>1, <2>1, SizeFromIs
    <3> QED BY <3>2, <2>7 DEF Second
  <2> HIDE DEF K, T, s2, z2, L, z1
  <2>9. Z(s2, K) \in Nat /\ Times(s2) \in {1, 2} /\ Times(s2) * Z(s2, K) \in 0 .. K
    BY <2>1, <2>3, <2>5, FittingTakes
  <2>10. z2 <= K
    BY <2>3, <2>6, <2>9
  <2>11. T + Times(s2) * z2 \in 0 .. L
    BY <2>3, <2>6, <2>9, <1>2 DEF K
  <2> QED BY <2>1, <2>2, <2>3, <2>6, <2>8, <2>9, <2>10, <2>11 DEF T
<1> HIDE DEF Of, size1, size2, left1, left2
<1>11. Len(g.sets) = 1 => ConfigInput(g, d).sets = <<Row(s1, z1, 0)>>
  <2>1. 0 \in 0 .. MaxGB
    BY WordAssumption
  <2> QED BY <2>1, <1>6, <1>8, <1>9
<1>12. Len(g.sets) = 2 => ConfigInput(g, d).sets = <<Row(s1, z1, 0), Row(s2, z2, z1)>>
  <2> SUFFICES ASSUME Len(g.sets) = 2 PROVE ConfigInput(g, d).sets = <<Row(s1, z1, 0), Row(s2, z2, z1)>>
    OBVIOUS
  <2>1. 0 \in 0 .. MaxGB /\ z1 \in 0 .. MaxGB /\ z2 \in 0 .. MaxGB /\ size1 = z1 /\ size2 = z2
        /\ SecondOffset(g) = z1
    BY <1>9, <1>10, WordAssumption DEF SecondOffset
  <2> QED BY <2>1, <1>7, <1>8
<1>13. Len(g.sets) = 2 => Len(g.sets) > 0
  OBVIOUS
<1> HIDE DEF L, s1, s2, z1, z2
<1> QED BY <1>2, <1>4, <1>5, <1>9, <1>10, <1>11, <1>12, <1>13 DEF L, s1, s2, z1, z2

\* The offsets and sizes of a written table, in bytes.
LEMMA WrittenIn ==
  ASSUME NEW g \in Goal, NEW d \in Dimm, Accepted(g, d), Plain(g)
  PROVE  LET t == ConfigInput(g, d)
             s == t.sets
         IN /\ Len(s) > 0 => s[1].offset + s[1].size <= t.partition /\ Bytes(s[1]) <= t.partition
            /\ Len(s) > 1 => /\ s[1].offset + s[1].size <= s[2].offset
                             /\ s[2].offset + s[2].size <= t.partition
                             /\ Bytes(s[1]) + Bytes(s[2]) <= t.partition
<1> DEFINE t == ConfigInput(g, d)
           s == t.sets
           L == Rest(g, d)
           z1 == First(g, d)
           z2 == Second(g, d)
           m1 == Times(g.sets[1])
           m2 == Times(g.sets[2])
<1>1. Len(g.sets) \in {0, 1, 2}
  <2>1. NoWrap(g) /\ Len(g.sets) <= 2
    BY DEF Plain, Accepted, MaxSets
  <2> QED BY <2>1, GoalParts, UpToTwo
<1>2. L \in Nat /\ t.partition = L * GB /\ d.gb \in Nat
  BY TableIs, UsableType, WordAssumption
<1>3. Len(g.sets) = 0 => s = <<>>
  BY TableIs
<1>4. Len(g.sets) = 1 => s = <<Row(g.sets[1], z1, 0)>>
  BY TableIs
<1>5. Len(g.sets) = 2 => s = <<Row(g.sets[1], z1, 0), Row(g.sets[2], z2, z1)>>
  BY TableIs
<1>6. Len(g.sets) > 0 => z1 \in Nat /\ m1 \in {1, 2} /\ m1 * z1 \in 0 .. L
  BY TableIs
<1>7. Len(g.sets) = 2 => z2 \in Nat /\ m2 \in {1, 2} /\ m1 * z1 + m2 * z2 \in 0 .. L
  BY TableIs
<1>8. \A x, n, o : Row(x, n, o).size = n * GB /\ Row(x, n, o).offset = o * GB /\ Bytes(Row(x, n, o)) = (n * GB) * Times(x)
  BY DEF Row, Bytes, Times
<1> HIDE DEF t, L, z1, z2, m1, m2
<1>9. 0 * GB = 0 /\ GB \in Nat
  BY WordAssumption
<1>10. \A n \in Nat : \A m \in {1, 2} : (n * GB) * m = (m * n) * GB
  BY WordAssumption
<1>11. ASSUME Len(g.sets) > 0
       PROVE  /\ 0 * GB + z1 * GB <= t.partition /\ (z1 * GB) * m1 <= t.partition
              /\ (z1 * GB) * m1 = (m1 * z1) * GB
  <2>1. z1 <= L /\ m1 * z1 <= L /\ z1 \in Nat /\ m1 * z1 \in Nat /\ L \in Nat
    BY <1>2, <1>6, <1>11
  <2>2. z1 * GB <= L * GB /\ (m1 * z1) * GB <= L * GB
    BY <2>1, TimesMonotone
  <2>3. (z1 * GB) * m1 = (m1 * z1) * GB
    BY <1>6, <1>10, <1>11
  <2>4. z1 * GB \in Nat
    BY <2>1, <1>9
  <2> QED BY <2>2, <2>3, <2>4, <1>2, <1>9
<1>12. ASSUME Len(g.sets) = 2
       PROVE  /\ 0 * GB + z1 * GB <= z1 * GB
              /\ z1 * GB + z2 * GB <= t.partition
              /\ (z1 * GB) * m1 + (z2 * GB) * m2 <= t.partition
  <2>1. z1 + z2 <= L /\ m1 * z1 + m2 * z2 <= L /\ z1 + z2 \in Nat /\ m1 * z1 \in Nat /\ m2 * z2 \in Nat
        /\ z1 \in Nat /\ z2 \in Nat /\ m1 * z1 + m2 * z2 \in Nat
    BY <1>2, <1>6, <1>7, <1>12
  <2>2. (z1 + z2) * GB <= L * GB /\ (m1 * z1 + m2 * z2) * GB <= L * GB
    BY <2>1, <1>2, TimesMonotone
  <2>3. (z1 * GB) * m1 = (m1 * z1) * GB /\ (z2 * GB) * m2 = (m2 * z2) * GB
    BY <1>6, <1>7, <1>10, <1>12
  <2>4. z1 * GB + z2 * GB = (z1 + z2) * GB
    BY <2>1, TimesMinus
  <2>5. (m1 * z1) * GB + (m2 * z2) * GB = (m1 * z1 + m2 * z2) * GB
    <3>1. m1 * z1 \in Int /\ m2 * z2 \in Int
      BY <2>1
    <3> HIDE DEF m1, m2
    <3> QED BY <3>1, TimesMinus
  <2>6. z1 * GB \in Nat
    BY <2>1, <1>9
  <2>7. 0 * GB + z1 * GB <= z1 * GB
    BY <2>6, <1>9
  <2>8. z1 * GB + z2 * GB <= t.partition
    BY <2>2, <2>4, <1>2
  <2>9. (z1 * GB) * m1 + (z2 * GB) * m2 <= t.partition
    BY <2>2, <2>3, <2>5, <1>2
  <2> QED BY <2>7, <2>8, <2>9
<1> HIDE DEF s
<1>13. CASE Len(g.sets) = 0
  <2>1. Len(s) = 0
    BY <1>3, <1>13
  <2> QED BY <2>1 DEF s, t
<1>14. CASE Len(g.sets) = 1
  <2>1. Len(s) = 1 /\ s[1] = Row(g.sets[1], z1, 0)
    BY <1>4, <1>14
  <2>2. s[1].offset + s[1].size <= t.partition /\ Bytes(s[1]) <= t.partition
    BY <2>1, <1>8, <1>11, <1>14 DEF m1
  <2> QED BY <2>1, <2>2 DEF s, t
<1>15. CASE Len(g.sets) = 2
  <2>1. Len(s) = 2 /\ s[1] = Row(g.sets[1], z1, 0) /\ s[2] = Row(g.sets[2], z2, z1)
    BY <1>5, <1>15
  <2>2. s[1].offset + s[1].size <= t.partition /\ Bytes(s[1]) <= t.partition
    BY <2>1, <1>8, <1>11, <1>15 DEF m1
  <2>3. /\ s[1].offset + s[1].size <= s[2].offset
        /\ s[2].offset + s[2].size <= t.partition
        /\ Bytes(s[1]) + Bytes(s[2]) <= t.partition
    BY <2>1, <1>8, <1>12, <1>15 DEF m1, m2
  <2> QED BY <2>2, <2>3 DEF s, t
<1> QED BY <1>1, <1>13, <1>14, <1>15

\* Sets that are listed for this DIMM and have a size are read as they were
\* written: a set with another size, and a goal with other sets.
SizedAs(s, n) == [s EXCEPT !.size = n]
WithSets(g, sets) == [g EXCEPT !.sets = sets]

LEMMA ReadRow ==
  ASSUME NEW s \in Set, NEW n \in Nat, NEW o, Row(s, n, o).here, Row(s, n, o).size > 0, NEW g
  PROVE  /\ g.sets = <<>> => ReadSet(g, Row(s, n, o)) = WithSets(g, <<SizedAs(s, n)>>)
         /\ g.sets # <<>> /\ g.sets[1].size # 0 =>
              ReadSet(g, Row(s, n, o)) = WithSets(g, <<g.sets[1], SizedAs(s, n)>>)
         /\ n # 0
<1> DEFINE t == Row(s, n, o)
           x == [size |-> IF t.here THEN t.size \div GB ELSE 0, mirrored |-> t.mirrored, here |-> t.here]
<1>1. (n * GB) \div GB = n
  BY DivOfTimes
<1>2. t.size = n * GB /\ t.mirrored = s.mirrored /\ t.here = s.here
  BY DEF Row
<1>3. n # 0
  <2>1. 0 * GB = 0
    BY WordAssumption
  <2> QED BY <2>1, <1>2
<1>4. SizedAs(s, n) = [size |-> n, mirrored |-> s.mirrored, here |-> s.here]
  BY DEF Set, SizedAs
<1>5. t.here
  OBVIOUS
<1>6. ReadSet(g, t) = IF g.sets # <<>> /\ g.sets[1].size # 0 THEN WithSets(g, <<g.sets[1], x>>)
                      ELSE WithSets(g, <<x>>)
  BY Zenon DEF ReadSet, WithSets
<1> HIDE DEF t
<1>7. x = SizedAs(s, n)
  <2>1. (IF t.here THEN t.size \div GB ELSE 0) = n
    BY <1>1, <1>2, <1>5
  <2> QED BY Zenon, <2>1, <1>2, <1>4
<1> HIDE DEF x
<1> QED BY <1>3, <1>6, <1>7 DEF t

LEMMA ReadFirst ==
  ASSUME NEW s \in Set, NEW n \in Nat, NEW o, Row(s, n, o).here, Row(s, n, o).size > 0, NEW g, g.sets = <<>>
  PROVE  ReadSet(g, Row(s, n, o)) = WithSets(g, <<SizedAs(s, n)>>) /\ n # 0
BY ReadRow

LEMMA ReadSecond ==
  ASSUME NEW s \in Set, NEW n \in Nat, NEW o, Row(s, n, o).here, Row(s, n, o).size > 0,
         NEW g, g.sets # <<>>, g.sets[1].size # 0
  PROVE  ReadSet(g, Row(s, n, o)) = WithSets(g, <<g.sets[1], SizedAs(s, n)>>)
BY ReadRow

\* What a goal means.
LEMMA MeantIs ==
  ASSUME NEW g \in Goal, NEW d \in Dimm, Accepted(g, d), Plain(g)
  PROVE  /\ Meant(g, d).memory = d.gb - Rest(g, d)
         /\ Len(g.sets) = 0 => Meant(g, d).sets = <<>>
         /\ Len(g.sets) = 1 => Meant(g, d).sets = <<SizedAs(g.sets[1], First(g, d))>>
         /\ Len(g.sets) = 2 =>
              Meant(g, d).sets = <<SizedAs(g.sets[1], First(g, d)), SizedAs(g.sets[2], Second(g, d))>>
<1> DEFINE left == d.gb - Total(g)
           M(i) == IF g.sets[i].size # All THEN g.sets[i]
                   ELSE SizedAs(g.sets[i], IF g.sets[i].mirrored THEN left \div 2 ELSE left)
<1>1. NoWrap(g)
  BY DEF Plain
<1>2. /\ g.memory \in Nat /\ (g.memory # All => Asked(Memory(g)) = g.memory)
      /\ \A i \in 1 .. Len(g.sets) : Sized(g.sets[i]) /\ Asked(g.sets[i]) \in Nat /\ g.sets[i] \in Set
      /\ DOMAIN g.sets = 1 .. Len(g.sets)
  BY <1>1, GoalParts
<1>3. d.gb \in Nat /\ Rest(g, d) \in 0 .. d.gb
  BY UsableType, TableIs, WordAssumption
<1>4. Meant(g, d).memory = d.gb - Rest(g, d)
  <2>1. Meant(g, d).memory = IF g.memory = All THEN d.gb ELSE g.memory
    BY DEF Meant
  <2> QED BY <2>1, <1>2, <1>3 DEF Rest
<1>5. Meant(g, d).sets = [i \in 1 .. Len(g.sets) |-> M(i)]
  BY <1>2 DEF Meant, SizedAs
<1>6. \A s \in Set : s = SizedAs(s, s.size)
  BY DEF Set, SizedAs
<1>7. Len(g.sets) > 0 => g.memory # All /\ Rest(g, d) = d.gb - g.memory
  BY TableIs DEF Rest
<1>8. Len(g.sets) = 0 => Meant(g, d).sets = <<>>
  BY <1>5
<1>9. ASSUME Len(g.sets) = 1 PROVE M(1) = SizedAs(g.sets[1], First(g, d))
  <2>1. g.sets[1] \in Set
    BY <1>2, <1>9
  <2>2. CASE g.sets[1].size = All
    <3>1. Asked(g.sets[1]) = 0
      BY <2>2 DEF Asked
    <3>2. Total(g) = g.memory
      BY <3>1, <1>1, <1>2, <1>7, <1>9, GoalParts
    <3>3. left = Rest(g, d)
      BY <3>2, <1>7, <1>9
    <3> QED BY <2>2, <3>3 DEF First, Z
  <2>3. CASE g.sets[1].size # All
    BY <2>1, <2>3, <1>6 DEF First, Z
  <2> QED BY <2>2, <2>3
<1>10. ASSUME Len(g.sets) = 2
       PROVE  M(1) = SizedAs(g.sets[1], First(g, d)) /\ M(2) = SizedAs(g.sets[2], Second(g, d))
  <2>1. g.sets[1] \in Set /\ g.sets[2] \in Set /\ g.sets[1].size # All /\ First(g, d) = g.sets[1].size
        /\ First(g, d) \in Nat
    BY <1>2, <1>10, TableIs
  <2>2. M(1) = SizedAs(g.sets[1], First(g, d))
    BY <2>1, <1>6
  <2>3. CASE g.sets[2].size = All
    <3>1. Asked(g.sets[2]) = 0
      BY <2>3 DEF Asked
    <3>2. Asked(g.sets[1]) = First(g, d)
      BY <2>1, <2>3, <1>10 DEF Plain, Asked
    <3>3. Total(g) = g.memory + First(g, d)
      BY <2>1, <3>1, <3>2, <1>1, <1>2, <1>7, <1>10, GoalParts
    <3>4. Rest(g, d) = d.gb - g.memory /\ g.memory \in Nat /\ First(g, d) \in Nat /\ d.gb \in Nat
      BY <2>1, <1>2, <1>3, <1>7, <1>10
    <3>5. left = Rest(g, d) - First(g, d)
      BY <3>3, <3>4
    <3> QED BY <2>2, <2>3, <3>5 DEF Second, Z
  <2>4. CASE g.sets[2].size # All
    BY <2>1, <2>2, <2>4, <1>6 DEF Second, Z
  <2> QED BY <2>3, <2>4
<1> HIDE DEF M
<1>11. Len(g.sets) = 1 => Meant(g, d).sets = <<SizedAs(g.sets[1], First(g, d))>>
  BY <1>5, <1>9
<1>12. Len(g.sets) = 2 =>
         Meant(g, d).sets = <<SizedAs(g.sets[1], First(g, d)), SizedAs(g.sets[2], Second(g, d))>>
  BY <1>5, <1>10
<1> QED BY <1>4, <1>8, <1>11, <1>12

\* A goal is read back as it was meant.
LEMMA ReadsMeant ==
  ASSUME NEW g \in Goal, NEW d \in Dimm, Accepted(g, d), Plain(g),
         \A i \in DOMAIN ConfigInput(g, d).sets : ConfigInput(g, d).sets[i].here /\ ConfigInput(g, d).sets[i].size > 0
  PROVE  GoalRead(ConfigInput(g, d), d) = Meant(g, d)
<1> DEFINE t == ConfigInput(g, d)
           none == [memory |-> ReadMemory(t, d), sets |-> <<>>]
           r1 == SizedAs(g.sets[1], First(g, d))
           r2 == SizedAs(g.sets[2], Second(g, d))
<1>1. Len(g.sets) \in {0, 1, 2} /\ \A i \in 1 .. Len(g.sets) : g.sets[i] \in Set
  <2>1. NoWrap(g) /\ Len(g.sets) <= 2
    BY DEF Plain, Accepted, MaxSets
  <2> QED BY <2>1, GoalParts, UpToTwo
<1>2. ReadMemory(t, d) = d.gb - Rest(g, d)
  <2>1. Rest(g, d) \in Nat /\ t.partition = Rest(g, d) * GB
    BY TableIs, UsableType, WordAssumption
  <2>2. t.partition \div GB = Rest(g, d)
    BY <2>1, DivOfTimes
  <2> QED BY <2>2 DEF ReadMemory
<1>3. Meant(g, d) = [memory |-> Meant(g, d).memory, sets |-> Meant(g, d).sets]
  BY DEF Meant
<1>4. none.sets = <<>> /\ none.memory = Meant(g, d).memory
  BY <1>2, MeantIs
<1>5. GoalRead(t, d) = CASE Len(t.sets) = 0 -> none
                         [] Len(t.sets) = 1 -> ReadSet(none, t.sets[1])
                         [] OTHER -> ReadSet(ReadSet(none, t.sets[1]), t.sets[2])
  BY DEF GoalRead
<1>6. CASE Len(g.sets) = 0
  <2>1. t.sets = <<>> /\ Meant(g, d).sets = <<>>
    BY <1>6, TableIs, MeantIs
  <2>2. GoalRead(t, d) = none
    BY <2>1, <1>5
  <2> QED BY <2>1, <2>2, <1>3, <1>4
<1>7. ASSUME Len(g.sets) > 0, t.sets[1] = Row(g.sets[1], First(g, d), 0), 1 \in DOMAIN t.sets
      PROVE  /\ ReadSet(none, t.sets[1]) = [memory |-> none.memory, sets |-> <<r1>>]
             /\ r1.size # 0
  <2>1. First(g, d) \in Nat /\ g.sets[1] \in Set
    BY <1>1, <1>7, TableIs
  <2>2. Row(g.sets[1], First(g, d), 0).here /\ Row(g.sets[1], First(g, d), 0).size > 0
    BY <1>7
  <2>3. ReadSet(none, t.sets[1]) = WithSets(none, <<r1>>) /\ First(g, d) # 0
    <3> HIDE DEF none, t
    <3> QED BY <2>1, <2>2, <1>4, <1>7, ReadFirst
  <2>4. r1.size = First(g, d)
    BY <2>1 DEF Set, SizedAs
  <2> QED BY <2>3, <2>4 DEF WithSets
<1>8. CASE Len(g.sets) = 1
  <2>1. t.sets = <<Row(g.sets[1], First(g, d), 0)>> /\ Meant(g, d).sets = <<r1>>
    BY <1>8, TableIs, MeantIs
  <2> HIDE DEF t, none, r1
  <2>2. Len(t.sets) = 1 /\ t.sets[1] = Row(g.sets[1], First(g, d), 0) /\ 1 \in DOMAIN t.sets
    BY <2>1
  <2>3. GoalRead(t, d) = ReadSet(none, t.sets[1])
    BY <2>2, <1>5
  <2>4. GoalRead(t, d) = [memory |-> none.memory, sets |-> <<r1>>]
    BY <2>2, <2>3, <1>7, <1>8
  <2>5. GoalRead(t, d) = Meant(g, d)
    BY <2>1, <2>4, <1>3, <1>4
  <2> QED BY <2>5 DEF t
<1>9. CASE Len(g.sets) = 2
  <2>1. t.sets = <<Row(g.sets[1], First(g, d), 0), Row(g.sets[2], Second(g, d), First(g, d))>>
        /\ Meant(g, d).sets = <<r1, r2>> /\ Second(g, d) \in Nat /\ g.sets[2] \in Set
    BY <1>1, <1>9, TableIs, MeantIs
  <2>2. Len(t.sets) = 2 /\ 1 \in DOMAIN t.sets /\ 2 \in DOMAIN t.sets
        /\ t.sets[1] = Row(g.sets[1], First(g, d), 0) /\ t.sets[2] = Row(g.sets[2], Second(g, d), First(g, d))
    <3> HIDE DEF t
    <3> QED BY <2>1
  <2>3. Row(g.sets[2], Second(g, d), First(g, d)).here /\ Row(g.sets[2], Second(g, d), First(g, d)).size > 0
    BY <2>2
  <2> DEFINE one == [memory |-> none.memory, sets |-> <<r1>>]
  <2>4. ReadSet(none, t.sets[1]) = one /\ r1.size # 0
    BY <2>2, <1>7, <1>9
  <2>5. one.sets # <<>> /\ one.sets[1].size # 0 /\ one.sets[1] = r1 /\ one.sets = <<r1>>
    BY <2>4
  <2>6. ReadSet(one, t.sets[2]) = WithSets(one, <<r1, r2>>)
    <3> HIDE DEF t, one, r1
    <3>1. ReadSet(one, Row(g.sets[2], Second(g, d), First(g, d))) = WithSets(one, <<one.sets[1], r2>>)
      BY <2>1, <2>3, <2>5, ReadSecond
    <3> QED BY <3>1, <2>2, <2>5
  <2> HIDE DEF t, none, r1, r2
  <2>7. GoalRead(t, d) = ReadSet(ReadSet(none, t.sets[1]), t.sets[2])
    BY <2>2, <1>5
  <2>8. GoalRead(t, d) = [memory |-> none.memory, sets |-> <<r1, r2>>]
    BY <2>4, <2>6, <2>7 DEF WithSets
  <2>9. GoalRead(t, d) = Meant(g, d)
    BY <2>1, <2>8, <1>3, <1>4
  <2> QED BY <2>9 DEF t
<1> QED BY <1>1, <1>6, <1>8, <1>9
-----------------------------------------------------------------------------
\* The inductive invariant of what is kept: what was refused does not pass
\* the checks, and table and goal read are those of the goal.
KeptInv ==
  /\ SizesInv
  /\ pc = "refused" => ~Accepted(goal, dimm)
  /\ pc \in {"written", "read"} => table = ConfigInput(goal, dimm)
  /\ pc = "read" => read = GoalRead(table, dimm)

LEMMA KeptInvNext == KeptInv /\ [Next]_vars => KeptInv'
<1> SUFFICES ASSUME KeptInv, [Next]_vars PROVE KeptInv'
  OBVIOUS
<1>1. SizesInv'
  BY SizesInvNext DEF KeptInv
<1> USE DEF KeptInv
<1>2. CASE Validate
  BY <1>1, <1>2 DEF Validate
<1>3. CASE Write
  BY <1>1, <1>3 DEF Write
<1>4. CASE WriteFails
  BY <1>1, <1>4 DEF WriteFails
<1>5. CASE Read
  BY <1>1, <1>5 DEF Read
<1>6. CASE AskAgain
  BY <1>1, <1>6 DEF AskAgain
<1>7. CASE UNCHANGED vars
  BY <1>1, <1>7 DEF vars
<1> QED BY <1>2, <1>3, <1>4, <1>5, <1>6, <1>7 DEF Next

LEMMA KeptAlways == Spec => []KeptInv
<1>1. Init => KeptInv
  BY SizesInvInit DEF Init, KeptInv
<1> QED BY <1>1, KeptInvNext, PTL DEF Spec

\* A goal is refused only for its size, what is written fits, and a goal is
\* read back as it was meant, whatever the goals and DIMMs.
THEOREM GoalsAreKept == Spec => []GoalKept
<1>1. KeptInv => RefusedTooBig
  <2> SUFFICES ASSUME KeptInv, pc = "refused", NoWrap(goal), Len(goal.sets) <= MaxSets, Supported(goal, dimm),
                      AlignmentOK(goal, dimm), \A i \in DOMAIN goal.sets : goal.sets[i].size # 0, RestLast(goal)
               PROVE  Total(goal) * GB > Usable(dimm)
    BY DEF RefusedTooBig
  <2>1. goal \in Goal /\ dimm \in Dimm /\ ~SizesOK(goal, dimm)
    BY DEF KeptInv, SizesInv, TypeOK, Accepted
  <2>2. ~(Total(goal) * GB <= Usable(dimm))
    BY <2>1, FittingPasses
  <2>3. Total(goal) * GB \in Int /\ Usable(dimm) \in Int
    <3>1. Len(goal.sets) \in {0, 1, 2}
      BY <2>1, GoalParts, UpToTwo DEF MaxSets
    <3>2. Total(goal) \in Nat
      BY <2>1, <3>1, GoalParts
    <3> QED BY <2>1, <3>2, UsableType, WordAssumption
  <2> QED BY <2>2, <2>3
<1>2. KeptInv => WrittenFits
  <2> SUFFICES ASSUME KeptInv, pc \in {"written", "read"}, Plain(goal) PROVE WrittenFits
    BY DEF WrittenFits
  <2>1. goal \in Goal /\ dimm \in Dimm /\ Accepted(goal, dimm) /\ table = ConfigInput(goal, dimm)
    BY DEF KeptInv, SizesInv, TypeOK
  <2> QED BY <2>1, WrittenIn DEF WrittenFits
<1>3. KeptInv => ReadBack
  <2> SUFFICES ASSUME KeptInv, pc = "read", Whole(goal) PROVE read = Meant(goal, dimm)
    BY DEF ReadBack
  <2>1. goal \in Goal /\ dimm \in Dimm /\ Accepted(goal, dimm) /\ table = ConfigInput(goal, dimm)
        /\ read = GoalRead(table, dimm)
    BY DEF KeptInv, SizesInv, TypeOK
  <2>2. Plain(goal) /\ \A i \in DOMAIN ConfigInput(goal, dimm).sets :
                         ConfigInput(goal, dimm).sets[i].here /\ ConfigInput(goal, dimm).sets[i].size > 0
    BY <2>1 DEF Whole
  <2> QED BY <2>1, <2>2, ReadsMeant
<1> QED BY <1>1, <1>2, <1>3, KeptAlways, PTL DEF GoalKept
-----------------------------------------------------------------------------
(* A goal that was read is asked for again.  It need not be the goal that   *)
(* was written: a set of no size, or not of this DIMM, is lost.  Whatever   *)
(* was lost, sizes that were read fit the partition.                        *)

Count(s) == Times(s) * s.size
Sizes(g, L) ==
  /\ \A i \in DOMAIN g.sets : g.sets[i].size \in 0 .. L /\ Count(g.sets[i]) \in 0 .. L /\ g.sets[i].mirrored \in BOOLEAN
  /\ Len(g.sets) = 2 => Count(g.sets[1]) + Count(g.sets[2]) \in 0 .. L

LEMMA CountType ==
  ASSUME NEW s, s.size \in Nat
  PROVE  Count(s) \in Nat /\ s.size <= Count(s) /\ (s.mirrored => Count(s) = 2 * s.size)
BY DEF Count, Times

\* What is read of a row that says n GiB.
ReadsAs(t, r) ==
  \A g : ReadSet(g, t) = IF g.sets # <<>> /\ g.sets[1].size # 0 THEN WithSets(g, <<g.sets[1], r>>)
                         ELSE WithSets(g, <<r>>)

LEMMA ReadAny ==
  ASSUME NEW s, NEW n \in Nat, NEW o
  PROVE  \E r : r.mirrored = s.mirrored /\ r.size \in {0, n} /\ ReadsAs(Row(s, n, o), r)
<1> DEFINE t == Row(s, n, o)
           r == [size |-> IF t.here THEN t.size \div GB ELSE 0, mirrored |-> t.mirrored, here |-> t.here]
<1>1. t.size = n * GB /\ t.mirrored = s.mirrored
  BY DEF Row
<1>2. t.size \div GB = n
  BY <1>1, DivOfTimes
<1>3. ReadsAs(t, r)
  BY Zenon DEF ReadSet, WithSets, ReadsAs
<1> HIDE DEF t
<1>4. r.size \in {0, n} /\ r.mirrored = s.mirrored
  BY <1>1, <1>2
<1> HIDE DEF r
<1> QED BY <1>3, <1>4 DEF t

LEMMA ReadShape ==
  ASSUME NEW w \in Goal, NEW d \in Dimm, Accepted(w, d), Plain(w), NEW h, h = GoalRead(ConfigInput(w, d), d)
  PROVE  h.memory = d.gb - Rest(w, d) /\ Len(h.sets) \in {0, 1, 2} /\ Sizes(h, Rest(w, d))
<1> DEFINE t == ConfigInput(w, d)
           L == Rest(w, d)
           none == [memory |-> ReadMemory(t, d), sets |-> <<>>]
<1>1. Len(w.sets) \in {0, 1, 2} /\ \A i \in 1 .. Len(w.sets) : w.sets[i] \in Set
  <2>1. NoWrap(w) /\ Len(w.sets) <= 2
    BY DEF Plain, Accepted, MaxSets
  <2> QED BY <2>1, GoalParts, UpToTwo
<1>2. none.memory = d.gb - L /\ none.sets = <<>> /\ L \in Nat
  <2>1. L \in Nat /\ t.partition = L * GB
    BY TableIs, UsableType, WordAssumption
  <2>2. t.partition \div GB = L
    BY <2>1, DivOfTimes
  <2> QED BY <2>1, <2>2 DEF ReadMemory
<1>3. h = CASE Len(t.sets) = 0 -> none
            [] Len(t.sets) = 1 -> ReadSet(none, t.sets[1])
            [] OTHER -> ReadSet(ReadSet(none, t.sets[1]), t.sets[2])
  BY DEF GoalRead
<1>4. \A q : WithSets(none, q) = [memory |-> none.memory, sets |-> q]
  BY DEF WithSets
<1>5. \A p, q : WithSets([memory |-> none.memory, sets |-> p], q) = [memory |-> none.memory, sets |-> q]
  BY DEF WithSets
<1>6. CASE Len(w.sets) = 0
  <2>1. t.sets = <<>>
    BY <1>6, TableIs
  <2>2. h = none
    BY <2>1, <1>3
  <2> QED BY <2>2, <1>2 DEF Sizes
<1>7. CASE Len(w.sets) > 0
  <2> DEFINE s1 == w.sets[1]
             z1 == First(w, d)
  <2>1. z1 \in Nat /\ Times(s1) * z1 \in 0 .. L /\ s1 \in Set
    BY <1>1, <1>7, TableIs
  <2>2. PICK r1 : r1.mirrored = s1.mirrored /\ r1.size \in {0, z1} /\ ReadsAs(Row(s1, z1, 0), r1)
    <3> HIDE DEF s1, z1
    <3> QED BY <2>1, ReadAny
  <2>3. ReadSet(none, Row(s1, z1, 0)) = [memory |-> none.memory, sets |-> <<r1>>]
    <3> HIDE DEF none, s1, z1
    <3> QED BY <2>2, <1>2, <1>4 DEF ReadsAs
  <2>4. /\ r1.size \in 0 .. L /\ Count(r1) \in 0 .. L /\ r1.mirrored \in BOOLEAN
        /\ Count(r1) <= Times(s1) * z1
    <3>1. r1.size \in Nat /\ r1.size <= z1 /\ s1.mirrored \in BOOLEAN
      BY <2>1, <2>2 DEF Set
    <3>2. Count(r1) = IF s1.mirrored THEN 2 * r1.size ELSE r1.size
      BY <2>2, <3>1 DEF Count, Times
    <3>3. Times(s1) * z1 = IF s1.mirrored THEN 2 * z1 ELSE z1
      BY <2>1 DEF Times
    <3> HIDE DEF s1, z1, L
    <3> QED BY <2>1, <2>2, <3>1, <3>2, <3>3, <1>2
  <2>5. CASE Len(w.sets) = 1
    <3>1. t.sets = <<Row(s1, z1, 0)>>
      BY <2>5, TableIs
    <3>2. Len(t.sets) = 1 /\ t.sets[1] = Row(s1, z1, 0)
      <4> HIDE DEF t, s1, z1
      <4> QED BY <3>1
    <3>3. h = ReadSet(none, Row(s1, z1, 0))
      BY <3>2, <1>3
    <3>4. h = [memory |-> none.memory, sets |-> <<r1>>]
      BY <3>3, <2>3
    <3>5. Len(h.sets) = 1 /\ h.sets[1] = r1 /\ DOMAIN h.sets = {1} /\ h.memory = none.memory
      BY <3>4
    <3>6. Sizes(h, L)
      <4> HIDE DEF L
      <4> QED BY <3>5, <2>4 DEF Sizes
    <3> QED BY <3>5, <3>6, <1>2
  <2>6. CASE Len(w.sets) = 2
    <3> DEFINE s2 == w.sets[2]
               z2 == Second(w, d)
    <3>1. /\ t.sets = <<Row(s1, z1, 0), Row(s2, z2, z1)>>
          /\ z2 \in Nat /\ Times(s1) * z1 + Times(s2) * z2 \in 0 .. L /\ Times(s2) \in {1, 2} /\ s2 \in Set
      BY <1>1, <2>6, TableIs
    <3>2. Len(t.sets) = 2 /\ t.sets[1] = Row(s1, z1, 0) /\ t.sets[2] = Row(s2, z2, z1)
      <4> HIDE DEF t, s1, z1, s2, z2
      <4> QED BY <3>1
    <3>3. PICK r2 : r2.mirrored = s2.mirrored /\ r2.size \in {0, z2} /\ ReadsAs(Row(s2, z2, z1), r2)
      <4> HIDE DEF s1, z1, s2, z2
      <4> QED BY <3>1, ReadAny
    <3> DEFINE one == [memory |-> none.memory, sets |-> <<r1>>]
    <3>4. h = ReadSet(one, Row(s2, z2, z1))
      BY <3>2, <2>3, <1>3
    <3>5. one.sets # <<>> /\ one.sets[1] = r1
      OBVIOUS
    <3>6. h = IF r1.size # 0 THEN WithSets(one, <<r1, r2>>) ELSE WithSets(one, <<r2>>)
      <4> HIDE DEF one, s1, z1, s2, z2
      <4>1. ReadSet(one, Row(s2, z2, z1)) = IF one.sets # <<>> /\ one.sets[1].size # 0
                                            THEN WithSets(one, <<one.sets[1], r2>>) ELSE WithSets(one, <<r2>>)
        BY <3>3 DEF ReadsAs
      <4> QED BY <4>1, <3>4, <3>5
    <3>7. h = [memory |-> none.memory, sets |-> IF r1.size # 0 THEN <<r1, r2>> ELSE <<r2>>]
      BY <3>6, <1>5
    <3>8. /\ r2.size \in 0 .. L /\ Count(r2) \in 0 .. L /\ r2.mirrored \in BOOLEAN
          /\ Count(r1) + Count(r2) \in 0 .. L
      <4>1. r2.size \in Nat /\ r2.size <= z2 /\ s2.mirrored \in BOOLEAN
        BY <3>1, <3>3 DEF Set
      <4>2. Count(r2) = IF s2.mirrored THEN 2 * r2.size ELSE r2.size
        BY <3>3, <4>1 DEF Count, Times
      <4>3. Times(s2) * z2 = IF s2.mirrored THEN 2 * z2 ELSE z2
        BY <3>1 DEF Times
      <4> HIDE DEF s1, z1, s2, z2, L
      <4>4. Times(s2) * z2 \in Nat /\ Times(s1) * z1 \in Nat /\ Count(r2) <= Times(s2) * z2 /\ r2.size <= Count(r2)
            /\ Count(r2) \in Nat
        BY <2>1, <3>1, <4>1, <4>2, <4>3
      <4>5. Times(s2) * z2 <= L
        BY <2>1, <3>1, <4>4, <1>2
      <4>6. Count(r1) + Count(r2) <= L
        BY <2>1, <2>4, <3>1, <4>4, <1>2
      <4> QED BY <2>4, <3>3, <4>1, <4>4, <4>5, <4>6, <1>2
    <3>9. CASE r1.size # 0
      <4>1. Len(h.sets) = 2 /\ h.sets[1] = r1 /\ h.sets[2] = r2 /\ DOMAIN h.sets = {1, 2} /\ h.memory = none.memory
        BY <3>7, <3>9
      <4>2. Sizes(h, L)
        <5> HIDE DEF L
        <5> QED BY <4>1, <2>4, <3>8 DEF Sizes
      <4> QED BY <4>1, <4>2, <1>2
    <3>10. CASE r1.size = 0
      <4>1. Len(h.sets) = 1 /\ h.sets[1] = r2 /\ DOMAIN h.sets = {1} /\ h.memory = none.memory
        BY <3>7, <3>10
      <4>2. Sizes(h, L)
        <5> HIDE DEF L
        <5> QED BY <4>1, <3>8 DEF Sizes
      <4> QED BY <4>1, <4>2, <1>2
    <3> QED BY <3>9, <3>10
  <2> QED BY <2>5, <2>6, <1>1, <1>7
<1> QED BY <1>1, <1>6, <1>7

\* A goal whose sizes fit, and none of which is empty, is plain.
LEMMA SizedIsPlain ==
  ASSUME NEW h \in Goal, NEW d \in Dimm, NEW L \in 0 .. d.gb, h.memory = d.gb - L, Len(h.sets) \in {0, 1, 2},
         Sizes(h, L), \A i \in DOMAIN h.sets : h.sets[i].size # 0
  PROVE  /\ Plain(h) /\ RestLast(h) /\ Total(h) * GB <= Usable(d)
         /\ Rest(h, d) = L
         /\ \A i \in DOMAIN h.sets : h.sets[i].size = All => Z(h.sets[i], L) = h.sets[i].size
         /\ Len(h.sets) = 2 => h.sets[1].size # All /\ h.sets[2].size # All
<1>1. L \in Nat /\ L <= d.gb /\ d.gb \in Nat /\ d.gb <= All /\ All < Word /\ All \in Int /\ Usable(d) = d.gb * GB
  BY UsableType, WordPositive DEF Size, All
<1>2. DOMAIN h.sets = 1 .. Len(h.sets)
  BY DEF Goal
<1>3. ASSUME NEW i \in DOMAIN h.sets
      PROVE  /\ h.sets[i].size \in Nat /\ h.sets[i].size > 0 /\ h.sets[i].size <= L
             /\ Count(h.sets[i]) \in Nat /\ h.sets[i].size <= Count(h.sets[i]) /\ Count(h.sets[i]) <= L
             /\ (h.sets[i].mirrored => Count(h.sets[i]) = 2 * h.sets[i].size)
             /\ h.sets[i].mirrored \in BOOLEAN
  <2>1. h.sets[i].size \in 0 .. L /\ Count(h.sets[i]) \in 0 .. L /\ h.sets[i].size # 0 /\ h.sets[i].mirrored \in BOOLEAN
    BY <1>3 DEF Sizes
  <2>2. h.sets[i].size \in Nat
    BY <2>1, <1>1
  <2> QED BY <2>1, <2>2, <1>1, CountType
<1>4. NoWrap(h)
  <2> SUFFICES ASSUME NEW i \in DOMAIN h.sets, h.sets[i].mirrored PROVE 2 * h.sets[i].size < Word
    BY DEF NoWrap
  <2> QED BY <1>1, <1>3, WordPositive
<1>5. h.sets # <<>> => h.memory # All /\ L > 0
  <2> SUFFICES ASSUME h.sets # <<>> PROVE h.memory # All /\ L > 0
    OBVIOUS
  <2>1. Len(h.sets) # 0
    BY DEF Goal
  <2>2. 1 \in DOMAIN h.sets
    <3>1. Len(h.sets) \in Nat
      BY DEF Goal
    <3> QED BY <2>1, <3>1, <1>2
  <2>3. h.sets[1].size \in Nat /\ h.sets[1].size > 0 /\ h.sets[1].size <= L
    BY <2>2, <1>3
  <2>4. L > 0
    BY <2>3, <1>1
  <2>5. d.gb - L # All
    BY <2>4, <1>1
  <2> QED BY <2>4, <2>5
<1>6. Len(h.sets) = 2 => h.sets[1].size # All /\ h.sets[2].size # All
  <2> SUFFICES ASSUME Len(h.sets) = 2 PROVE h.sets[1].size # All /\ h.sets[2].size # All
    OBVIOUS
  <2>1. 1 \in DOMAIN h.sets /\ 2 \in DOMAIN h.sets /\ Count(h.sets[1]) + Count(h.sets[2]) <= L
    BY <1>1, <1>2 DEF Sizes
  <2> QED BY <2>1, <1>1, <1>3
<1>7. h.sets = <<>> <=> Len(h.sets) = 0
  BY DEF Goal
<1>8. Plain(h) /\ RestLast(h)
  <2>1. Len(h.sets) > 1 => Len(h.sets) = 2
    <3>1. \A n \in {0, 1, 2} : n > 1 => n = 2
      OBVIOUS
    <3> QED BY <3>1
  <2>2. h.memory = All => DOMAIN h.sets = {}
    <3>1. h.memory = All => Len(h.sets) = 0
      BY <1>5, <1>7
    <3> QED BY <3>1, <1>2
  <2>3. RestLast(h)
    BY <2>1, <2>2, <1>6 DEF RestLast
  <2>4. h.sets # <<>> => h.memory # All
    BY <1>5
  <2>5. Len(h.sets) > 1 => h.sets[1].size # All /\ h.sets[2].size # All
    BY <2>1, <1>6
  <2> QED BY <1>4, <2>3, <2>4, <2>5 DEF Plain
<1>9. Rest(h, d) = L
  BY <1>1, <1>5 DEF Rest
<1>10. \A i \in DOMAIN h.sets : h.sets[i].size = All => Z(h.sets[i], L) = h.sets[i].size
  <2> SUFFICES ASSUME NEW i \in DOMAIN h.sets, h.sets[i].size = All PROVE Z(h.sets[i], L) = h.sets[i].size
    OBVIOUS
  <2>1. L = All /\ All > 0
    <3>1. h.sets[i].size \in Nat /\ h.sets[i].size > 0 /\ h.sets[i].size <= L
      BY <1>3
    <3> QED BY <3>1, <1>1
  <2>2. ~h.sets[i].mirrored
    BY <2>1, <1>3
  <2> QED BY <2>1, <2>2 DEF Z
<1>11. Total(h) * GB <= Usable(d)
  <2>1. \A i \in DOMAIN h.sets : Asked(h.sets[i]) \in Nat /\ Asked(h.sets[i]) <= Count(h.sets[i])
    BY <1>3 DEF Asked
  <2>2. Asked(Memory(h)) \in Nat /\ Asked(Memory(h)) <= h.memory /\ h.memory \in Nat
    BY <1>1 DEF Asked, Memory
  <2>3. Total(h) \in Nat /\ Total(h) <= d.gb
    <3>1. CASE Len(h.sets) = 0
      <4>1. Total(h) = Asked(Memory(h))
        BY <3>1, <1>4, GoalParts
      <4> QED BY <4>1, <2>2, <1>1
    <3>2. CASE Len(h.sets) = 1
      <4>1. Total(h) = Asked(Memory(h)) + Asked(h.sets[1]) /\ 1 \in DOMAIN h.sets
        BY <3>2, <1>2, <1>4, GoalParts
      <4> QED BY <4>1, <2>1, <2>2, <1>1, <1>3
    <3>3. CASE Len(h.sets) = 2
      <4>1. Total(h) = Asked(Memory(h)) + Asked(h.sets[1]) + Asked(h.sets[2]) /\ 1 \in DOMAIN h.sets /\ 2 \in DOMAIN h.sets
            /\ Count(h.sets[1]) + Count(h.sets[2]) <= L
        BY <3>3, <1>1, <1>2, <1>4, GoalParts DEF Sizes
      <4>2. Asked(h.sets[1]) <= Count(h.sets[1]) /\ Asked(h.sets[2]) <= Count(h.sets[2])
            /\ Asked(h.sets[1]) \in Nat /\ Asked(h.sets[2]) \in Nat
            /\ Count(h.sets[1]) \in Nat /\ Count(h.sets[2]) \in Nat
        BY <4>1, <2>1, <1>3
      <4>3. Asked(Memory(h)) <= d.gb - L /\ Asked(Memory(h)) \in Nat
        BY <2>2
      <4> QED BY ONLY <4>1, <4>2, <4>3, <1>1
    <3> QED BY <3>1, <3>2, <3>3
  <2> QED BY <2>3, <1>1, TimesMonotone
<1> QED BY <1>6, <1>8, <1>9, <1>10, <1>11

\* A goal that was read and passes the check of sizes is plain.
LEMMA AgainPlain ==
  ASSUME NEW w \in Goal, NEW d \in Dimm, Accepted(w, d), Plain(w), NEW h \in Goal, h = GoalRead(ConfigInput(w, d), d),
         SizesOK(h, d)
  PROVE  Plain(h)
<1>1. h.memory = d.gb - Rest(w, d) /\ Len(h.sets) \in {0, 1, 2} /\ Sizes(h, Rest(w, d))
  BY ReadShape
<1>2. Rest(w, d) \in 0 .. d.gb
  BY TableIs
<1>3. DOMAIN h.sets = 1 .. Len(h.sets)
  BY DEF Goal
<1>4. \A i \in DOMAIN h.sets : h.sets[i].size # 0
  <2>1. Len(h.sets) > 0 => h.sets[1].size # 0
    BY DEF SizesOK
  <2>2. Len(h.sets) > 1 => h.sets[2].size # 0
    BY DEF SizesOK
  <2>3. \A i \in DOMAIN h.sets : (i = 1 \/ i = 2) /\ (i = 1 => Len(h.sets) > 0) /\ (i = 2 => Len(h.sets) > 1)
    <3>1. \A n \in {0, 1, 2} : \A i \in 1 .. n : (i = 1 \/ i = 2) /\ (i = 1 => n > 0) /\ (i = 2 => n > 1)
      OBVIOUS
    <3> QED BY <3>1, <1>1, <1>3
  <2> QED BY <2>1, <2>2, <2>3
<1> QED BY <1>1, <1>2, <1>4, SizedIsPlain

\* The rows of a table without loss have a size.
Sound(t) == \A i \in DOMAIN t.sets : t.sets[i].here /\ t.sets[i].size > 0

LEMMA RowHasSize ==
  ASSUME NEW s, NEW n \in Nat, NEW o, Row(s, n, o).size > 0
  PROVE  n # 0
<1>1. Row(s, n, o).size = n * GB
  BY DEF Row
<1>2. 0 * GB = 0
  BY WordAssumption
<1> QED BY <1>1, <1>2

\* What is read of a table without loss: the goal that was written with the
\* sizes that were written.
LEMMA AgainIs ==
  ASSUME NEW w \in Goal, NEW d \in Dimm, Accepted(w, d), Plain(w), NEW h \in Goal, h = GoalRead(ConfigInput(w, d), d),
         Sound(ConfigInput(w, d))
  PROVE  /\ h.memory = d.gb - Rest(w, d) /\ Len(h.sets) = Len(w.sets) /\ Len(w.sets) \in {0, 1, 2}
         /\ Len(h.sets) > 0 => First(w, d) # 0 /\ h.sets[1] = SizedAs(w.sets[1], First(w, d))
         /\ Len(h.sets) = 2 => Second(w, d) # 0 /\ h.sets[2] = SizedAs(w.sets[2], Second(w, d))
         /\ \A i \in DOMAIN h.sets : h.sets[i].size # 0 /\ h.sets[i].mirrored = w.sets[i].mirrored
<1> DEFINE t == ConfigInput(w, d)
<1>1. h = Meant(w, d)
  BY ReadsMeant DEF Sound
<1>2. Len(w.sets) \in {0, 1, 2} /\ \A i \in 1 .. Len(w.sets) : w.sets[i] \in Set
  <2>1. NoWrap(w) /\ Len(w.sets) <= 2
    BY DEF Plain, Accepted, MaxSets
  <2> QED BY <2>1, GoalParts, UpToTwo
<1>3. h.memory = d.gb - Rest(w, d)
  BY <1>1, MeantIs
<1>4. \A s \in Set : \A n : SizedAs(s, n).size = n /\ SizedAs(s, n).mirrored = s.mirrored
  BY DEF SizedAs, Set
<1>5. CASE Len(w.sets) = 0
  <2>1. h.sets = <<>>
    BY <1>1, <1>5, MeantIs
  <2> QED BY <2>1, <1>3, <1>5
<1>6. CASE Len(w.sets) = 1
  <2>1. h.sets = <<SizedAs(w.sets[1], First(w, d))>>
    BY <1>1, <1>6, MeantIs
  <2>2. t.sets = <<Row(w.sets[1], First(w, d), 0)>> /\ First(w, d) \in Nat
    BY <1>6, TableIs
  <2>3. 1 \in DOMAIN t.sets /\ t.sets[1] = Row(w.sets[1], First(w, d), 0)
    <3> HIDE DEF t
    <3> QED BY <2>2
  <2>4. First(w, d) # 0
    BY <2>2, <2>3, RowHasSize DEF Sound
  <2>5. Len(h.sets) = 1 /\ h.sets[1] = SizedAs(w.sets[1], First(w, d)) /\ DOMAIN h.sets = {1} /\ w.sets[1] \in Set
    BY <2>1, <1>2, <1>6
  <2> QED BY <2>4, <2>5, <1>3, <1>4, <1>6
<1>7. CASE Len(w.sets) = 2
  <2>1. h.sets = <<SizedAs(w.sets[1], First(w, d)), SizedAs(w.sets[2], Second(w, d))>>
    BY <1>1, <1>7, MeantIs
  <2>2. t.sets = <<Row(w.sets[1], First(w, d), 0), Row(w.sets[2], Second(w, d), First(w, d))>>
        /\ First(w, d) \in Nat /\ Second(w, d) \in Nat
    BY <1>7, TableIs
  <2>3. 1 \in DOMAIN t.sets /\ 2 \in DOMAIN t.sets
        /\ t.sets[1] = Row(w.sets[1], First(w, d), 0) /\ t.sets[2] = Row(w.sets[2], Second(w, d), First(w, d))
    <3> HIDE DEF t
    <3> QED BY <2>2
  <2>4. First(w, d) # 0
    BY <2>2, <2>3, RowHasSize DEF Sound
  <2>5. Second(w, d) # 0
    <3>1. Row(w.sets[2], Second(w, d), First(w, d)).size > 0
      BY <2>3 DEF Sound
    <3> QED BY <3>1, <2>2, RowHasSize
  <2>6. Len(h.sets) = 2 /\ h.sets[1] = SizedAs(w.sets[1], First(w, d)) /\ h.sets[2] = SizedAs(w.sets[2], Second(w, d))
        /\ DOMAIN h.sets = {1, 2} /\ w.sets[1] \in Set /\ w.sets[2] \in Set
    BY <2>1, <1>2, <1>7
  <2> QED BY <2>4, <2>5, <2>6, <1>3, <1>4, <1>7
<1> QED BY <1>2, <1>5, <1>6, <1>7

\* It passes all checks but that of the alignment.
LEMMA AgainPasses ==
  ASSUME NEW w \in Goal, NEW d \in Dimm, Accepted(w, d), Plain(w), NEW h \in Goal, h = GoalRead(ConfigInput(w, d), d),
         Sound(ConfigInput(w, d))
  PROVE  Len(h.sets) <= MaxSets /\ Supported(h, d) /\ SizesOK(h, d)
<1>1. /\ h.memory = d.gb - Rest(w, d) /\ Len(h.sets) = Len(w.sets) /\ Len(w.sets) \in {0, 1, 2}
      /\ \A i \in DOMAIN h.sets : h.sets[i].size # 0 /\ h.sets[i].mirrored = w.sets[i].mirrored
  BY AgainIs
<1>2. Rest(w, d) \in 0 .. d.gb /\ Sizes(h, Rest(w, d))
  BY TableIs, ReadShape
<1>3. Plain(h) /\ RestLast(h) /\ Total(h) * GB <= Usable(d)
  BY <1>1, <1>2, SizedIsPlain
<1>4. Len(h.sets) <= MaxSets
  <2>1. \A n \in {0, 1, 2} : n <= MaxSets
    BY DEF MaxSets
  <2> QED BY <2>1, <1>1
<1>5. SizesOK(h, d)
  BY <1>1, <1>3, <1>4, FittingPasses DEF Plain
<1>6. Supported(h, d)
  <2>1. DOMAIN h.sets = DOMAIN w.sets /\ (h.sets # <<>> <=> w.sets # <<>>)
    <3>1. h.sets \in Seq(Set) /\ w.sets \in Seq(Set)
      BY DEF Goal
    <3> QED BY <3>1, <1>1
  <2>2. {i \in DOMAIN h.sets : h.sets[i].mirrored} = {i \in DOMAIN w.sets : w.sets[i].mirrored}
    BY <2>1, <1>1
  <2>3. h.memory > 0 => w.memory > 0
    <3>1. w.memory \in Nat /\ d.gb \in Nat /\ d.gb <= All
      BY UsableType, WordPositive DEF Goal, Size, All
    <3>2. w.memory = 0 => h.memory = 0
      <4>1. CASE w.memory = All
        BY <4>1, <3>1, <1>1 DEF Rest
      <4>2. CASE w.memory # All
        BY <4>2, <3>1, <1>1 DEF Rest
      <4> QED BY <4>1, <4>2
    <3> QED BY <3>1, <3>2
  <2>4. Supported(w, d)
    BY DEF Accepted
  <2> QED BY <2>1, <2>2, <2>3, <2>4 DEF Supported
<1> QED BY <1>4, <1>5, <1>6

\* When it is accepted it writes the same table.
LEMMA AgainWrites ==
  ASSUME NEW w \in Goal, NEW d \in Dimm, Accepted(w, d), Plain(w), NEW h \in Goal, h = GoalRead(ConfigInput(w, d), d),
         Sound(ConfigInput(w, d)), Accepted(h, d)
  PROVE  ConfigInput(h, d) = ConfigInput(w, d)
<1>1. /\ h.memory = d.gb - Rest(w, d) /\ Len(h.sets) = Len(w.sets) /\ Len(w.sets) \in {0, 1, 2}
      /\ \A i \in DOMAIN h.sets : h.sets[i].size # 0
      /\ Len(h.sets) > 0 => h.sets[1] = SizedAs(w.sets[1], First(w, d))
      /\ Len(h.sets) = 2 => h.sets[2] = SizedAs(w.sets[2], Second(w, d))
  BY AgainIs
<1>2. Rest(w, d) \in 0 .. d.gb /\ Sizes(h, Rest(w, d))
  BY TableIs, ReadShape
<1>3. /\ Plain(h) /\ Rest(h, d) = Rest(w, d)
      /\ \A i \in DOMAIN h.sets : h.sets[i].size = All => Z(h.sets[i], Rest(w, d)) = h.sets[i].size
      /\ Len(h.sets) = 2 => h.sets[1].size # All /\ h.sets[2].size # All
  BY <1>1, <1>2, SizedIsPlain
<1>4. \A i \in 1 .. Len(w.sets) : w.sets[i] \in Set
  BY DEF Goal
<1>5. \A s \in Set : \A n, o : SizedAs(s, n).size = n /\ Row(SizedAs(s, n), n, o) = Row(s, n, o)
  BY DEF SizedAs, Set, Row
<1>6. ConfigInput(h, d).partition = ConfigInput(w, d).partition
  BY <1>3, TableIs
<1>7. ASSUME Len(h.sets) > 0
      PROVE  First(h, d) = First(w, d) /\ \A o : Row(h.sets[1], First(w, d), o) = Row(w.sets[1], First(w, d), o)
  <2>1. w.sets[1] \in Set /\ 1 \in DOMAIN h.sets
    <3>1. DOMAIN h.sets = 1 .. Len(h.sets)
      BY DEF Goal
    <3> QED BY <3>1, <1>1, <1>4, <1>7
  <2>2. h.sets[1].size = First(w, d) /\ \A o : Row(h.sets[1], First(w, d), o) = Row(w.sets[1], First(w, d), o)
    <3>1. h.sets[1] = SizedAs(w.sets[1], First(w, d))
      BY <1>1, <1>7
    <3>2. \A n, o : SizedAs(w.sets[1], n).size = n /\ Row(SizedAs(w.sets[1], n), n, o) = Row(w.sets[1], n, o)
      BY <2>1, <1>5
    <3> QED BY <3>1, <3>2
  <2>3. First(h, d) = h.sets[1].size
    <3>1. CASE h.sets[1].size = All
      BY <3>1, <2>1, <1>3 DEF First
    <3>2. CASE h.sets[1].size # All
      <4>1. \A s, n : s.size # All => Z(s, n) = s.size
        BY DEF Z
      <4> QED BY <3>2, <4>1 DEF First
    <3> QED BY <3>1, <3>2
  <2> QED BY <2>2, <2>3
<1>8. ASSUME Len(h.sets) = 2
      PROVE  Second(h, d) = Second(w, d) /\ \A o : Row(h.sets[2], Second(w, d), o) = Row(w.sets[2], Second(w, d), o)
  <2>1. w.sets[2] \in Set
    BY <1>1, <1>4, <1>8
  <2>2. h.sets[2].size = Second(w, d) /\ \A o : Row(h.sets[2], Second(w, d), o) = Row(w.sets[2], Second(w, d), o)
    <3>1. h.sets[2] = SizedAs(w.sets[2], Second(w, d))
      BY <1>1, <1>8
    <3>2. \A n, o : SizedAs(w.sets[2], n).size = n /\ Row(SizedAs(w.sets[2], n), n, o) = Row(w.sets[2], n, o)
      BY <2>1, <1>5
    <3> QED BY <3>1, <3>2
  <2>3. Second(h, d) = h.sets[2].size
    BY <1>3, <1>8 DEF Second, Z
  <2> QED BY <2>2, <2>3
<1>9. ConfigInput(h, d).sets = ConfigInput(w, d).sets
  <2>1. CASE Len(w.sets) = 0
    <3>1. ConfigInput(h, d).sets = <<>> /\ ConfigInput(w, d).sets = <<>>
      BY <2>1, <1>1, <1>3, TableIs
    <3> QED BY <3>1
  <2>2. CASE Len(w.sets) = 1
    <3>1. ConfigInput(h, d).sets = <<Row(h.sets[1], First(h, d), 0)>>
          /\ ConfigInput(w, d).sets = <<Row(w.sets[1], First(w, d), 0)>>
      BY <2>2, <1>1, <1>3, TableIs
    <3> QED BY <3>1, <2>2, <1>1, <1>7
  <2>3. CASE Len(w.sets) = 2
    <3>1. ConfigInput(h, d).sets = <<Row(h.sets[1], First(h, d), 0), Row(h.sets[2], Second(h, d), First(h, d))>>
      BY <2>3, <1>1, <1>3, TableIs
    <3>2. ConfigInput(w, d).sets = <<Row(w.sets[1], First(w, d), 0), Row(w.sets[2], Second(w, d), First(w, d))>>
      BY <2>3, TableIs
    <3> QED BY <3>1, <3>2, <2>3, <1>1, <1>7, <1>8
  <2> QED BY <2>1, <2>2, <2>3, <1>1
<1>10. \A g \in Goal : ConfigInput(g, d) = [partition |-> ConfigInput(g, d).partition, sets |-> ConfigInput(g, d).sets]
  BY DEF ConfigInput
<1> QED BY <1>6, <1>9, <1>10
-----------------------------------------------------------------------------
\* The inductive invariant of a caller who asks again, once its first goal
\* was plain: the goal is plain, or it is what was read of the table of a
\* goal that was.
AgainInv ==
  first # None /\ Plain(first) =>
    /\ pc \in {"written", "read"} => Plain(goal)
    /\ pc \notin {"written", "read"} =>
         /\ goal = GoalRead(table, dimm)
         /\ \E w \in Goal : Accepted(w, dimm) /\ Plain(w) /\ table = ConfigInput(w, dimm)

LEMMA AgainInvNext == KeptInv /\ AgainInv /\ [Next]_vars => AgainInv'
<1> SUFFICES ASSUME KeptInv, AgainInv, [Next]_vars, (first # None /\ Plain(first))'
             PROVE  /\ pc' \in {"written", "read"} => Plain(goal')
                    /\ pc' \notin {"written", "read"} =>
                         /\ goal' = GoalRead(table', dimm')
                         /\ \E w \in Goal : Accepted(w, dimm') /\ Plain(w) /\ table' = ConfigInput(w, dimm')
  BY DEF AgainInv, Plain, NoWrap
<1>1. dimm \in Dimm /\ goal \in Goal
  BY DEF KeptInv, SizesInv, TypeOK
<1>2. Plain(first') /\ first' # None
  BY DEF Plain, NoWrap
<1>3. CASE Validate
  BY <1>2, <1>3 DEF Validate, AgainInv
<1>4. CASE Write
  <2>1. first' = first /\ goal' = goal /\ pc = "valid" /\ pc' = "written"
    BY <1>4 DEF Write
  <2>2. goal = GoalRead(table, dimm) /\ \E w \in Goal : Accepted(w, dimm) /\ Plain(w) /\ table = ConfigInput(w, dimm)
    BY <2>1, <1>2 DEF AgainInv
  <2>3. SizesOK(goal, dimm)
    BY <2>1 DEF KeptInv, SizesInv, Accepted
  <2>4. Plain(goal)
    BY <2>2, <2>3, <1>1, AgainPlain
  <2> QED BY <2>1, <2>4
<1>5. CASE WriteFails
  BY <1>2, <1>5 DEF WriteFails, AgainInv
<1>6. CASE Read
  BY <1>2, <1>6 DEF Read, AgainInv
<1>7. CASE AskAgain
  <2>1. /\ pc = "read" /\ pc' = "asked" /\ goal' = read /\ table' = table /\ dimm' = dimm
        /\ first' = IF first = None THEN goal ELSE first
    BY <1>7 DEF AskAgain
  <2>2. Plain(goal)
    BY <2>1, <1>2 DEF AgainInv
  <2>3. read = GoalRead(table, dimm) /\ table = ConfigInput(goal, dimm) /\ Accepted(goal, dimm)
    BY <2>1 DEF KeptInv, SizesInv
  <2> QED BY <2>1, <2>2, <2>3, <1>1
<1>8. CASE UNCHANGED vars
  BY <1>2, <1>8 DEF vars, AgainInv
<1> QED BY <1>3, <1>4, <1>5, <1>6, <1>7, <1>8 DEF Next

\* A goal that was read and is asked for again is refused only because the
\* rest that "all" stood for is not aligned, and writes the table it was
\* read from.
THEOREM AgainIsStable == Spec => ReapplyStable
<1>1. Init => AgainInv
  BY DEF Init, AgainInv
<1>2. KeptInv /\ AgainInv /\ [Next]_vars => [Stable]_vars
  <2> SUFFICES ASSUME KeptInv, AgainInv, Next, first # None, Whole(first)
               PROVE  table' = table /\ (pc' = "refused" => ~AlignmentOK(goal, dimm))
    BY DEF Stable
  <2>1. dimm \in Dimm /\ goal \in Goal
    BY DEF KeptInv, SizesInv, TypeOK
  <2>2. Plain(first) /\ Sound(table)
    BY DEF Whole, Sound
  <2>3. CASE Validate
    <3>1. PICK w \in Goal : Accepted(w, dimm) /\ Plain(w) /\ table = ConfigInput(w, dimm)
      BY <2>2, <2>3 DEF Validate, AgainInv
    <3>2. goal = GoalRead(table, dimm)
      BY <2>2, <2>3 DEF Validate, AgainInv
    <3>3. Len(goal.sets) <= MaxSets /\ Supported(goal, dimm) /\ SizesOK(goal, dimm)
      BY <2>1, <2>2, <3>1, <3>2, AgainPasses
    <3> QED BY <2>3, <3>3 DEF Validate, Accepted
  <2>4. CASE Write
    <3>1. PICK w \in Goal : Accepted(w, dimm) /\ Plain(w) /\ table = ConfigInput(w, dimm)
      BY <2>2, <2>4 DEF Write, AgainInv
    <3>2. goal = GoalRead(table, dimm) /\ Accepted(goal, dimm)
      BY <2>2, <2>4 DEF Write, AgainInv, KeptInv, SizesInv
    <3>3. ConfigInput(goal, dimm) = table
      BY <2>1, <2>2, <3>1, <3>2, AgainWrites
    <3> QED BY <2>4, <3>3 DEF Write
  <2>5. CASE WriteFails \/ Read \/ AskAgain
    BY <2>5 DEF WriteFails, Read, AskAgain
  <2> QED BY <2>3, <2>4, <2>5 DEF Next
<1> QED BY <1>1, <1>2, KeptAlways, AgainInvNext, PTL DEF Spec, ReapplyStable
=============================================================================
