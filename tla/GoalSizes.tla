------------------------------ MODULE GoalSizes ------------------------------
(***************************************************************************)
(* The sizes of a configuration goal (src/src/lib/config_goal.c): how a    *)
(* goal is checked against the capacity and the alignments of a DIMM,      *)
(* turned into the bytes of a config input table, and read back as a goal. *)
(* A caller asks for a goal, reads what was stored and may ask again for   *)
(* what it read.                                                           *)
(*                                                                         *)
(* Sizes are words: a goal names GiB, a table bytes, both are 0..Word-1    *)
(* and arithmetic wraps.  The largest word, All, asks for all that is      *)
(* left.  A set has `here` when the DIMM of the goal is among the DIMMs    *)
(* its caller lists for it, which nothing checks.  Where the table is put  *)
(* and who else writes there is in PlatformConfig.                         *)
(***************************************************************************)
EXTENDS Integers, Sequences, FiniteSets

CONSTANTS
  GB,         \* bytes of a GiB (BYTES_PER_GB)
  WordGB,     \* GiB of a 64 bit word
  Goals,      \* the goals a caller asks for
  Dimms,      \* DIMMs: GiB, alignments in bytes, and what is supported
  None

Word == GB * WordGB
All == Word - 1
MaxGB == WordGB - 1
MaxSets == 2
Size == 0 .. Word - 1

Set == [size : Size, mirrored : BOOLEAN, here : BOOLEAN]
Goal == [memory : Size, sets : Seq(Set)]
Dimm == [gb : 0 .. MaxGB, memoryAlign : 1 .. Word - 1, setAlign : 1 .. Word - 1,
         memory : BOOLEAN, appDirect : BOOLEAN, mirror : BOOLEAN]

ASSUME WordAssumption == GB \in Nat \ {0} /\ WordGB \in Nat \ {0}
ASSUME GoalsAssumption == Goals \subseteq Goal
ASSUME DimmsAssumption == Dimms \subseteq Dimm

VARIABLES
  dimm,    \* the DIMM
  goal,    \* the goal asked for
  pc,      \* asked, valid, written, read, or ended: refused, failed
  table,   \* config input: the bytes of the PM partition and of its sets
  read,    \* the goal that was read back
  first    \* history: the goal first asked for, once the caller asks again

vars == <<dimm, goal, pc, table, read, first>>

Wrap(n) == n % Word
Usable(d) == d.gb * GB                       \* USABLE_CAPACITY_BYTES
-----------------------------------------------------------------------------
\* Mutant of SizeFrom: a mirrored set is given all that is left.
SizeFromWhole(size, left, mirrored) == IF size # All THEN size ELSE left \div GB

\* get_size_from_capacity
SizeFrom(size, left, mirrored) ==
  IF size # All THEN size
  ELSE IF mirrored THEN (left \div GB) \div 2 ELSE left \div GB

\* validate_interleave_set_size: the GiB a set takes, and what is left then.
Taken(s, left) ==
  IF s.mirrored THEN Wrap(2 * SizeFrom(s.size, left, TRUE)) ELSE SizeFrom(s.size, left, FALSE)

Fits(s, left) == Taken(s, left) <= MaxGB /\ Taken(s, left) * GB <= left

\* Mutant of After: what is left is not brought up to date.
AfterUnchanged(s, left) == left

After(s, left) == left - Taken(s, left) * GB

Memory(g) == [size |-> g.memory, mirrored |-> FALSE]

\* validate_config_goal_size
SizesOK(g, d) ==
  LET left0 == Usable(d)
      left1 == After(Memory(g), left0)
      left2 == After(g.sets[1], left1)
  IN /\ Fits(Memory(g), left0)
     /\ Len(g.sets) > 0 => g.sets[1].size # 0 /\ Fits(g.sets[1], left1)
     /\ Len(g.sets) > 1 => g.sets[2].size # 0 /\ Fits(g.sets[2], left2)

\* validate_size_alignment: all or none is always aligned
Aligned(size, alignment) == size \in {0, All} \/ Wrap(size * GB) % alignment = 0

\* validate_config_goal_alignment
AlignmentOK(g, d) ==
  /\ Aligned(g.memory, d.memoryAlign)
  /\ \A i \in DOMAIN g.sets : Aligned(g.sets[i].size, d.setAlign)

\* validate_config_goal_supported
Supported(g, d) ==
  LET mirrored == {i \in DOMAIN g.sets : g.sets[i].mirrored} IN
  /\ g.memory > 0 => d.memory
  /\ g.sets # <<>> => d.appDirect
  /\ mirrored # {} => d.mirror
  /\ Cardinality(mirrored) <= 1

\* validate_config_goal
Accepted(g, d) == Len(g.sets) <= MaxSets /\ Supported(g, d) /\ SizesOK(g, d) /\ AlignmentOK(g, d)
-----------------------------------------------------------------------------
\* Mutant of Partition: memory is given the rest by an empty size as well.
PartitionNone(g, d) == IF g.memory \in {0, All} THEN 0 ELSE Wrap(Usable(d) - g.memory * GB)

\* config_goal_to_partition_ext_table: what is not memory is PM.
Partition(g, d) == IF g.memory = All THEN 0 ELSE Wrap(Usable(d) - g.memory * GB)

\* Mutant of SecondOffset: the second set begins where the first does.
SecondOffsetNone(g) == 0

SecondOffset(g) == g.sets[1].size        \* as it was asked for

\* config_goal_to_config_input, config_goal_to_interleave_ext_table
ConfigInput(g, d) ==
  LET left1 == Wrap(Usable(d) - g.memory * GB)
      size1 == SizeFrom(g.sets[1].size, left1, g.sets[1].mirrored)
      left2 == Wrap(left1 - size1 * GB)
      size2 == SizeFrom(g.sets[2].size, left2, g.sets[2].mirrored)
      Of(s, size, offset) ==
        [size |-> Wrap(size * GB), offset |-> Wrap(offset * GB), mirrored |-> s.mirrored, here |-> s.here]
  IN [partition |-> Partition(g, d),
      sets |-> CASE Len(g.sets) = 0 -> <<>>
                 [] Len(g.sets) = 1 -> <<Of(g.sets[1], size1, 0)>>
                 [] OTHER -> <<Of(g.sets[1], size1, 0), Of(g.sets[2], size2, SecondOffset(g))>>]

\* config_input_table_to_config_goal, one interleave table: it is the second
\* set if the first has a size, which it has only from an entry of this DIMM.
ReadSet(g, t) ==
  LET s == [size |-> IF t.here THEN t.size \div GB ELSE 0, mirrored |-> t.mirrored, here |-> t.here]
  IN IF g.sets # <<>> /\ g.sets[1].size # 0 THEN [g EXCEPT !.sets = <<g.sets[1], s>>]
     ELSE [g EXCEPT !.sets = <<s>>]

\* Mutant of ReadMemory: PM is read for memory.
ReadMemorySwapped(t, d) == t.partition \div GB

ReadMemory(t, d) == d.gb - t.partition \div GB

\* nvm_get_config_goal, of a table of at most MaxSets sets
GoalRead(t, d) ==
  LET none == [memory |-> ReadMemory(t, d), sets |-> <<>>] IN
  CASE Len(t.sets) = 0 -> none
    [] Len(t.sets) = 1 -> ReadSet(none, t.sets[1])
    [] OTHER -> ReadSet(ReadSet(none, t.sets[1]), t.sets[2])
-----------------------------------------------------------------------------
Init ==
  /\ dimm \in Dimms /\ goal \in Goals
  /\ pc = "asked" /\ table = None /\ read = None /\ first = None

\* nvm_create_config_goal: the checks, then the table that is stored.
Validate ==
  /\ pc = "asked"
  /\ pc' = IF Accepted(goal, dimm) THEN "valid" ELSE "refused"
  /\ UNCHANGED <<dimm, goal, table, read, first>>

Write ==
  /\ pc = "valid"
  /\ pc' = "written" /\ table' = ConfigInput(goal, dimm)
  /\ UNCHANGED <<dimm, goal, read, first>>

\* A DIMM listed for a set is not there, or there is no memory for a table.
WriteFails ==
  /\ pc = "valid"
  /\ pc' = "failed"
  /\ UNCHANGED <<dimm, goal, table, read, first>>

\* nvm_get_config_goal
Read ==
  /\ pc = "written"
  /\ pc' = "read" /\ read' = GoalRead(table, dimm)
  /\ UNCHANGED <<dimm, goal, table, first>>

\* The caller asks for the goal it has read, as a saved configuration does.
AskAgain ==
  /\ pc = "read"
  /\ pc' = "asked" /\ goal' = read
  /\ first' = IF first = None THEN goal ELSE first
  /\ UNCHANGED <<dimm, table, read>>

Next == Validate \/ Write \/ WriteFails \/ Read \/ AskAgain

Spec == Init /\ [][Next]_vars
-----------------------------------------------------------------------------
\* What a size means, in whole numbers that do not wrap.
Asked(s) == IF s.size = All THEN 0 ELSE IF s.mirrored THEN 2 * s.size ELSE s.size
SetAt(g, i) == IF i \in DOMAIN g.sets THEN g.sets[i] ELSE [size |-> 0, mirrored |-> FALSE]
Total(g) == Asked(Memory(g)) + Asked(SetAt(g, 1)) + Asked(SetAt(g, 2))

\* Twice the size of a mirrored set is computed before it is compared with
\* the largest that fits a word, so half a word of GiB counts as none.
NoWrap(g) == \A i \in DOMAIN g.sets :
  g.sets[i].mirrored => g.sets[i].size = All \/ 2 * g.sets[i].size < Word

\* What takes all that is left leaves nothing for what comes after it.
RestLast(g) ==
  /\ g.memory = All => \A i \in DOMAIN g.sets : g.sets[i].size = All
  /\ Len(g.sets) > 1 /\ g.sets[1].size = All => g.sets[2].size = All

\* Goals whose sizes are written as they were checked.  Not so when all is
\* asked for memory and there is a set (All is subtracted as a number), when
\* the first set takes all (All is the offset of the second), or when the
\* second takes all beside a mirrored first (subtracted once, not twice).
Plain(g) ==
  /\ NoWrap(g)
  /\ g.memory = All => g.sets = <<>>
  /\ Len(g.sets) > 1 => /\ g.sets[1].size # All
                        /\ g.sets[1].mirrored => g.sets[2].size # All

\* A set of no size, or one this DIMM is not listed for, is lost in reading.
Whole(g) == Plain(g) /\ \A i \in DOMAIN table.sets : table.sets[i].here /\ table.sets[i].size > 0

Meant(g, d) ==
  LET left == d.gb - Total(g) IN
  [memory |-> IF g.memory = All THEN d.gb ELSE g.memory,
   sets |-> [i \in DOMAIN g.sets |->
     IF g.sets[i].size # All THEN g.sets[i]
     ELSE [g.sets[i] EXCEPT !.size = IF g.sets[i].mirrored THEN left \div 2 ELSE left]]]

Bytes(t) == t.size * (IF t.mirrored THEN 2 ELSE 1)
-----------------------------------------------------------------------------
Table == [partition : Size, sets : Seq([size : Size, offset : Size, mirrored : BOOLEAN, here : BOOLEAN])]

\* The type invariant: sizes in tables and goals are words.
TypeOK ==
  /\ dimm \in Dimm /\ goal \in Goal
  /\ pc \in {"asked", "valid", "written", "read", "refused", "failed"}
  /\ table \in Table \cup {None}
  /\ read \in Goal \cup {None}
  /\ first \in Goal \cup {None}

\* A goal that passes the checks fits its DIMM: memory and sets, a mirrored
\* set counted twice, take no more than the usable capacity.
AcceptedFits ==
  pc \in {"valid", "written", "read"} /\ NoWrap(goal) => Total(goal) * GB <= Usable(dimm)

\* A goal of one or two sets that are not empty, supported and aligned, is
\* refused for its sizes only when it does not fit, or when something is
\* asked for after all that is left.
RefusedTooBig ==
  /\ pc = "refused" /\ NoWrap(goal)
  /\ Len(goal.sets) <= MaxSets /\ Supported(goal, dimm) /\ AlignmentOK(goal, dimm)
  /\ \A i \in DOMAIN goal.sets : goal.sets[i].size # 0
  /\ RestLast(goal)
  => Total(goal) * GB > Usable(dimm)

\* What is written fits: the sets are in the PM partition and one after the
\* other, and there is room for the copies of a mirrored set.
WrittenFits ==
  pc \in {"written", "read"} /\ Plain(goal) =>
    LET s == table.sets IN
    /\ Len(s) > 0 => s[1].offset + s[1].size <= table.partition /\ Bytes(s[1]) <= table.partition
    /\ Len(s) > 1 => /\ s[1].offset + s[1].size <= s[2].offset
                     /\ s[2].offset + s[2].size <= table.partition
                     /\ Bytes(s[1]) + Bytes(s[2]) <= table.partition

\* Reading a goal back gives what was meant, with the rest for "all".
ReadBack == pc = "read" /\ Whole(goal) => read = Meant(goal, dimm)

\* One step of a goal that was read and is asked for again.
Stable ==
  first # None /\ Whole(first) => table' = table /\ (pc' = "refused" => ~AlignmentOK(goal, dimm))

\* A goal that was read can be asked for again: it is refused only because
\* the rest that "all" stood for is not aligned, and writes the same table.
ReapplyStable == [][Stable]_vars

\* A goal is refused only for its size, fits as it is written and is read
\* back as it was meant.
GoalKept == RefusedTooBig /\ WrittenFits /\ ReadBack
=============================================================================
