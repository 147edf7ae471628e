---------------------------- MODULE MCGoalPipeline ----------------------------
(* An instance of GoalPipeline for TLC.  Capacities are in sixteenths of a  *)
(* GiB, so that a DIMM is no whole number of GiB.                           *)
EXTENDS GoalPipeline

\* Goals of a caller of the library: sizes of a small DIMM, the first that
\* does not fit a word in bytes, half a word, which wraps when doubled, all.
GoalSize == 0 .. 5 \cup {WordGB, Word \div 2, All}
SomeSets == {<<>>} \cup {<<a>> : a \in [size : GoalSize, mirrored : BOOLEAN, here : BOOLEAN]}
  \cup {<<a, b>> : a, b \in [size : GoalSize, mirrored : BOOLEAN, here : BOOLEAN]}
ThreeSets == [i \in 1 .. 3 |-> [size |-> 1, mirrored |-> FALSE, here |-> TRUE]]
SomeGoals == [memory : GoalSize, sets : SomeSets \cup {ThreeSets}]

Able == [memory |-> TRUE, appDirect |-> TRUE, mirror |-> TRUE]
Lacking(f) == [Able EXCEPT ![f] = FALSE]
Capable(gb, memoryAlign, setAlign, c) ==
  [gb |-> gb, memoryAlign |-> memoryAlign, setAlign |-> setAlign,
   memory |-> c.memory, appDirect |-> c.appDirect, mirror |-> c.mirror]
SomeDimms ==
  {Capable(gb, m, a, Able) : gb \in {0, 1, 3, 5}, m \in {GB, 2 * GB}, a \in {GB, 2 * GB}}
    \cup {Capable(5, GB, GB, Lacking(f)) : f \in {"memory", "appDirect", "mirror"}}

D(i, size, socket, imc, channel) ==
  [id |-> i, capacity |-> size, socket |-> socket, imc |-> imc, channel |-> channel]

\* Socket 0: two DIMMs of one iMC, one of the other; socket 1: one; socket
\* 2: full, one DIMM smaller, with sets of other DIMMs that nearly use up
\* its decoders; sockets 3 and 4: four and three DIMMs, of a different size
\* each.  Sizes in sixteenths of a GB.
MCManageable ==
  <<D(1, 6 * 16, 0, 0, 0), D(2, 8 * 16, 0, 0, 1),
    D(3, 6 * 16 + 5, 0, 1, 0), D(4, 12 * 16, 1, 0, 3),
    D(5, 101, 2, 0, 0), D(6, 101, 2, 1, 0), D(7, 101, 2, 0, 1),
    D(8, 101, 2, 1, 1), D(9, 101, 2, 0, 2), D(10, 37, 2, 1, 2),
    D(11, 2 * 16, 3, 0, 0), D(12, 69, 3, 0, 1), D(13, 7 * 16 + 5, 3, 0, 2),
    D(14, 5 * 16, 3, 1, 2), D(15, 6 * 16, 4, 0, 0), D(16, 3 * 16, 4, 1, 0), D(17, 107, 4, 1, 2)>>
MCOldSets == [socket : {2}, dimms : {{k} : k \in 21..26}]

MCFeatures == {"modify_device_capacity", "memory_mode", "app_direct_supported", "x1_format",
               "storage_mode_supported", "app_direct_mode", "storage_mode", "volatile_mode_memory"}

Sizes == {1, 3, 5, 10, 13, All}

X(c, b) == [capacity |-> c, byOne |-> b, mirrored |-> FALSE]
ExtentLists ==
  {<<>>} \cup {<<X(c, b)>> : c \in Sizes, b \in BOOLEAN}
    \cup {<<X(c, a), X(e, b)>> : c \in Sizes, e \in Sizes, a \in BOOLEAN, b \in BOOLEAN}

M == MCManageable
DimmLists ==
  {<<M[1]>>, <<M[1], M[2]>>, <<M[1], M[3]>>, <<M[1], M[4]>>, SubSeq(M, 1, 4),
   SubSeq(M, 5, 9), SubSeq(M, 5, 10), SubSeq(M, 11, 14), SubSeq(M, 15, 17)}

\* What is left for storage is added where no memory or all of it is.
MCRequests ==
  {r \in [dimms : DimmLists, memory : {0} \cup Sizes, extents : ExtentLists,
          storage : BOOLEAN, reserve : BOOLEAN] : r.storage => r.memory \in {0, All}}
=============================================================================
