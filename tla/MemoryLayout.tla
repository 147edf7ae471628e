---------------------------- MODULE MemoryLayout ----------------------------
(***************************************************************************)
(* How a memory allocation request becomes a layout: the request rules,    *)
(* the ordered layout steps and the post-layout checks of                  *)
(* src/src/wbem/logic (MemoryAllocator::layout, LayoutBuilder::build).     *)
(*                                                                         *)
(* Every pass of a loop that places capacity is a step.  A thrown          *)
(* NvmExceptionBadRequestSize ends the layout step it is thrown in and     *)
(* leaves what the step did; the builder swallows it.  Sizes in bytes wrap *)
(* at Word, sizes in goals are whole GB.  Interleave formats are a         *)
(* function of the extent and the number of DIMMs and are left out: sets   *)
(* of one extent match when they span the same DIMMs.                      *)
(***************************************************************************)
EXTENDS Integers, Sequences, FiniteSets, SequencesExt, FiniteSetsExt, Functions

CONSTANTS
  GB,           \* BYTES_PER_GB, in the unit capacities are given in
  PmAlignment,  \* PM_ALIGNMENT_GIB
  Word,         \* sizes in bytes are unsigned words: numbers modulo Word
  Requests,     \* the requests considered: [dimms, memory, extents, storage, reserve]
  Manageable,   \* the manageable DIMMs: a function from id to DIMM
  Features,     \* capabilities: a set of the strings named below
  OldSets,      \* interleave sets of the current pools: [socket, dimms]
  SocketCount   \* sockets of the machine

VARIABLES
  req,      \* the request
  layout,   \* MemoryAllocationLayout
  steps,    \* layout steps still to run, the running one first
  pc,       \* where MemoryAllocator::layout is
  mem,      \* locals of LayoutStepMemory::execute
  ad,       \* locals of LayoutStepAppDirect::execute and layoutInterleavedAd
  set,      \* locals of layoutInterleavedAdAcrossSocket
  result    \* how the request was answered

vars == <<req, layout, steps, pc, mem, ad, set, result>>

Remaining == Word - 1             \* REQUEST_REMAINING_CAPACITY
MaxExtents == 2                   \* MAX_APPDIRECT_EXTENTS
ChannelsPerImc == 3

RoundDown(n, m) == n - (n % m)
RoundUp(n, m) == IF n % m = 0 THEN n ELSE n - (n % m) + m

Down(n) == (n % Word) \div GB     \* bytesToConfigGoalSize
Ids(ds) == {ds[k].id : k \in DOMAIN ds}
\* getRemainingBytesFromRequestedDimms and its kin add up in a word.
Total(ds, F(_)) == FoldLeft(LAMBDA sum, d : (sum + F(d)) % Word, 0, ds)

NoGoal == [memory |-> 0, count |-> 0, sets |-> <<>>]
IdleMem == [total |-> 0, done |-> 0, aligned |-> 0]
IdleAd == [total |-> 0, left |-> 0, existing |-> <<>>, sockets |-> <<>>, got |-> 0]
IdleSet == [rest |-> <<>>, most |-> 0, target |-> 0, got |-> 0]

-----------------------------------------------------------------------------
(* Request rules, in the order of populateRequestRules.  Those that ask    *)
(* for goals, namespaces, locks and new DIMMs are in GoalCalls.           *)

\* RuleDimmListInvalid: std::list::unique drops adjacent duplicates only;
\* the channel is not compared.
AdjacentTwins(ds) == \E k \in 1..(Len(ds) - 1) : ds[k].id = ds[k + 1].id

KnownDimm(d) ==
  /\ d.id \in DOMAIN Manageable
  /\ LET m == Manageable[d.id]
     IN <<d.socket, d.imc, d.capacity>> = <<m.socket, m.imc, m.capacity>>

\* RuleTooManyRemaining counts the capacities asked for as "remaining".
RemainingCount(r) ==
  (IF r.memory = Remaining THEN 1 ELSE 0) + (IF r.storage THEN 1 ELSE 0)
    + Cardinality({k \in DOMAIN r.extents : r.extents[k].capacity = Remaining})

\* RuleReserveDimmPropertyInvalid: nothing else with a lone reserved DIMM.
LoneReserve(r) ==
  r.reserve /\ Len(r.dimms) = 1 /\ (r.memory # 0 \/ r.extents # <<>>)

\* What the platform must support.
ProvisionSupported == "modify_device_capacity" \in Features
MemorySupported(r) == r.memory # 0 => "memory_mode" \in Features
StorageSupported(r) == r.storage => "storage_mode_supported" \in Features
AppDirectSupported(r) ==
  /\ r.extents # <<>> => "app_direct_supported" \in Features
  /\ \A k \in DOMAIN r.extents : r.extents[k].byOne => "x1_format" \in Features
NotMirrored(r) == \A k \in DOMAIN r.extents : ~r.extents[k].mirrored

RulesPass(r) ==
  /\ ProvisionSupported
  /\ r.dimms # <<>>
  /\ Len(r.extents) <= MaxExtents
  /\ RemainingCount(r) <= 1
  /\ ~LoneReserve(r)
  /\ ~AdjacentTwins(r.dimms)
  /\ \A k \in DOMAIN r.dimms : KnownDimm(r.dimms[k])
  /\ MemorySupported(r)
  /\ AppDirectSupported(r)
  /\ NotMirrored(r)
  /\ StorageSupported(r)

-----------------------------------------------------------------------------
(* What is left on a DIMM *)

SetBytes(g, k) == IF g.count >= k THEN g.sets[k].size * GB ELSE 0

\* Mutant of UnallocatedIn: the second set is forgotten.
UnallocatedFirst(goals, d) ==
  LET g == goals[d.id]
  IN (d.capacity - g.memory * GB - SetBytes(g, 1)) % Word

\* getDimmUnallocatedBytes; its rounding of the remainder is discarded.
UnallocatedIn(goals, d) ==
  LET g == goals[d.id]
  IN (d.capacity - g.memory * GB - SetBytes(g, 1) - SetBytes(g, 2)) % Word

Unallocated(d) == UnallocatedIn(layout.goals, d)
AlignedRoom(d) == RoundDown(Unallocated(d), GB)
WithRoom(ds) == SelectSeq(ds, LAMBDA d : AlignedRoom(d) > 0)

\* getLargestPerDimmSymmetricalBytes; 0 where it throws.
Symmetrical(ds, wanted) ==
  LET room == WithRoom(ds)
      bytes == Min({wanted \div Len(room)} \cup {AlignedRoom(room[k]) : k \in DOMAIN room})
  IN IF room = <<>> \/ bytes < GB THEN 0 ELSE RoundDown(bytes, GB)

\* Mutant of ToLayout: the reserved DIMM is used as well.
ToLayoutAll == req.dimms

\* The DIMMs a step may use: all but the reserved one.
ToLayout == SelectSeq(req.dimms, LAMBDA d : d.id # layout.reserved)

StepsAfter == Tail(steps)

\* A layout step is over: the next one begins, or the checks.
EndStep ==
  /\ steps' = StepsAfter
  /\ pc' = IF StepsAfter = <<>> THEN "check" ELSE "step"
  /\ mem' = IdleMem /\ ad' = IdleAd /\ set' = IdleSet
  /\ UNCHANGED <<req, result>>

-----------------------------------------------------------------------------
(* Validation and the plan *)

\* populateOrderedLayoutStepsForRequest, first the fixed amounts; of the
\* steps that ask for the rest the last one is kept and goes before storage.
AppDirectSteps(r, wanted(_)) ==
  SelectSeq([k \in DOMAIN r.extents |-> <<"appdirect", k>>],
            LAMBDA s : wanted(r.extents[s[2]].capacity))

Plan(r) ==
  LET fixed == AppDirectSteps(r, LAMBDA c : c # Remaining)
      rest == (IF r.memory = Remaining THEN <<<<"memory", 0>>>> ELSE <<>>)
                \o AppDirectSteps(r, LAMBDA c : c = Remaining)
  IN <<<<"reserve", 0>>>>
       \o (IF r.memory = Remaining THEN <<>> ELSE <<<<"memory", 0>>>>)
       \o fixed
       \o (IF rest = <<>> THEN <<>> ELSE <<Last(rest)>>)
       \o <<<<"storage", 0>>>>

SameSocket(ds, s) == SelectSeq(ds, LAMBDA d : d.socket = s)
Sockets(ds) == {ds[k].socket : k \in DOMAIN ds}

\* LayoutStepCheckAsymmetricalPopulation: sizes differ on a socket, or a
\* channel of it has a single DIMM.
Asymmetrical(ds) ==
  \E s \in Sockets(ds) :
    LET here == SameSocket(ds, s)
    IN \/ Cardinality({here[k].capacity : k \in DOMAIN here}) > 1
       \/ \E k \in DOMAIN here :
            \A j \in DOMAIN here \ {k} :
              here[j].channel % ChannelsPerImc # here[k].channel % ChannelsPerImc

AppDirectWarning(r) == r.extents # <<>> /\ "app_direct_mode" \notin Features
StorageWarning(r) == r.storage /\ "storage_mode" \notin Features
PopulationWarning(r) == (r.memory # 0 \/ r.extents # <<>>) /\ Asymmetrical(r.dimms)
VolatileWarning == "volatile_mode_memory" \notin Features

\* The steps that only warn; they come first and change nothing else.
Warnings(r) ==
  (IF AppDirectWarning(r) THEN {"app_direct_driver"} ELSE {})
    \cup (IF StorageWarning(r) THEN {"storage_driver"} ELSE {})
    \cup (IF PopulationWarning(r) THEN {"population"} ELSE {})
    \cup (IF VolatileWarning THEN {"volatile_mode"} ELSE {})

EmptyLayout(r) ==
  [goals |-> [d \in Ids(r.dimms) |-> NoGoal], memory |-> 0, extents |-> <<>>,
   storage |-> 0, reserved |-> 0, warnings |-> {}]

Init ==
  /\ req \in Requests
  /\ layout = EmptyLayout(req)
  /\ steps = <<>>
  /\ pc = "rules"
  /\ mem = IdleMem /\ ad = IdleAd /\ set = IdleSet
  /\ result = "none"

\* validateRequest: the first rule that is broken throws.
Refuse ==
  /\ pc = "rules"
  /\ ~RulesPass(req)
  /\ result' = "refused"
  /\ pc' = "done"
  /\ UNCHANGED <<req, layout, steps, mem, ad, set>>

Validate ==
  /\ pc = "rules"
  /\ RulesPass(req)
  /\ layout' = [layout EXCEPT !.warnings = Warnings(req)]
  /\ steps' = Plan(req)
  /\ pc' = "step"
  /\ UNCHANGED <<req, mem, ad, set, result>>

Running(name) == pc = "step" /\ Head(steps)[1] = name

-----------------------------------------------------------------------------
(* LayoutStepReserveDimm *)

\* The DIMMs alone in their group of the socket, in the order the maps have.
Singles(ds, Key(_)) ==
  {k \in DOMAIN ds : \A j \in DOMAIN ds \ {k} :
     ~(ds[j].socket = ds[k].socket /\ Key(ds[j]) = Key(ds[k]))}

FirstSingle(ds, Key(_)) ==
  CHOOSE k \in Singles(ds, Key) : \A j \in Singles(ds, Key) :
    \/ ds[k].socket < ds[j].socket
    \/ ds[k].socket = ds[j].socket /\ Key(ds[k]) <= Key(ds[j])

\* A DIMM alone on its iMC, else one without a partner on its channel, else
\* one of odd size, else the first.
ReserveChoice(ds) ==
  LET Imc(d) == d.imc
      Channel(d) == d.channel % ChannelsPerImc
      Size(d) == d.capacity
  IN CASE Len(ds) = 1 -> ds[1]
       [] OTHER -> IF Singles(ds, Imc) # {} THEN ds[FirstSingle(ds, Imc)]
                   ELSE IF Singles(ds, Channel) # {} THEN ds[FirstSingle(ds, Channel)]
                   ELSE IF Singles(ds, Size) # {} THEN ds[FirstSingle(ds, Size)]
                   ELSE ds[1]

Reserve ==
  /\ Running("reserve")
  /\ IF req.reserve
     THEN LET d == ReserveChoice(req.dimms)
          IN layout' = [layout EXCEPT !.storage = Down(d.capacity), !.reserved = d.id]
     ELSE UNCHANGED layout
  /\ EndStep

-----------------------------------------------------------------------------
(* LayoutStepMemory *)

PmBytes == PmAlignment * GB

\* roundDownMemoryToPMAlignment and roundUpMemoryToPMAlignment; 0 where they
\* throw.
MemoryRoundedDown(dimmBytes, bytes) ==
  LET pm == RoundUp((dimmBytes - bytes) % Word, PmBytes)
  IN IF pm > dimmBytes \/ dimmBytes - pm < GB THEN 0 ELSE dimmBytes - pm

MemoryRoundedUp(dimmBytes, bytes) ==
  LET pm == RoundDown((dimmBytes - bytes) % Word, PmBytes)
  IN IF dimmBytes > bytes /\ pm = 0 THEN 0 ELSE dimmBytes - pm

\* roundMemoryToNearestPMAlignment: a small step down also forbids going up.
MemoryNearest(dimmBytes, bytes) ==
  LET up == MemoryRoundedUp(dimmBytes, bytes)
      down == MemoryRoundedDown(dimmBytes, bytes)
      canUp == /\ up # 0 /\ up - bytes >= GB
               /\ down # 0 => bytes - down >= GB
  IN CASE canUp /\ down # 0 -> IF up - bytes < bytes - down THEN up ELSE down
       [] canUp /\ down = 0 -> up
       [] OTHER -> down

\* getAlignedDimmBytes; 0 where it throws.  The memory already on the DIMM
\* is converted the wrong way round, so it counts as almost nothing.
AlignedMemory(d, bytes) ==
  LET existing == layout.goals[d.id].memory \div GB
      total == RoundDown(existing + bytes, GB)
      dimmBytes == RoundDown(d.capacity, GB)
      aligned == CASE req.memory # Remaining -> MemoryNearest(dimmBytes, total)
                   [] req.memory = Remaining /\ req.extents # <<>> ->
                        MemoryRoundedDown(dimmBytes, total)
                   [] OTHER -> total
  IN IF aligned <= existing \/ aligned - existing < GB THEN 0 ELSE aligned - existing

\* getRemainingBytesFromRequestedDimms; 0 where it throws.
AllRemaining == Total(req.dimms, AlignedRoom)

MemoryBegin ==
  /\ Running("memory")
  /\ LET total == IF req.memory = Remaining THEN AllRemaining ELSE req.memory * GB
     IN IF total = 0
        THEN EndStep /\ UNCHANGED layout
        ELSE /\ pc' = "memory"
             /\ mem' = [IdleMem EXCEPT !.total = total]
             /\ UNCHANGED <<req, layout, steps, ad, set, result>>

\* The included DIMMs up to the first whose share cannot be aligned.
Placeable(ds, bytes) ==
  LET failing == {k \in DOMAIN ds : AlignedMemory(ds[k], bytes) = 0}
  IN IF failing = {} THEN ds ELSE SubSeq(ds, 1, Min(failing) - 1)

\* One round over the DIMMs that have room, the same share on each.
MemoryRound ==
  /\ pc = "memory"
  /\ mem.done < mem.total
  /\ LET bytes == Symmetrical(ToLayout, mem.total - mem.done)
         included == IF bytes = 0 THEN <<>> ELSE WithRoom(ToLayout)
         placed == Placeable(included, bytes)
         Share(d) == AlignedMemory(d, bytes)
         aligned == mem.aligned + Total(placed, Share)
     IN /\ layout' =
             [layout EXCEPT
                !.goals = [i \in DOMAIN @ |->
                   IF i \in Ids(placed)
                   THEN [@[i] EXCEPT !.memory = @ + Down(Share(Manageable[i]))]
                   ELSE @[i]],
                !.memory = IF placed = included /\ bytes # 0 THEN @ ELSE Down(aligned)]
        /\ IF placed = included /\ bytes # 0
           THEN /\ mem' = [mem EXCEPT !.done = @ + bytes * Len(placed), !.aligned = aligned]
                /\ UNCHANGED <<req, steps, pc, ad, set, result>>
           ELSE EndStep

MemoryEnd ==
  /\ pc = "memory"
  /\ mem.done >= mem.total
  /\ layout' = [layout EXCEPT !.memory = Down(mem.aligned)]
  /\ EndStep

-----------------------------------------------------------------------------
(* LayoutStepAppDirect *)

Extent == req.extents[Head(steps)[2]]

\* INTERLEAVE_SETS, in order of preference: sets of DIMM locations.
InterleaveSets ==
  <<0..5,
    0..3, 2..5, {0, 1, 4, 5},
    {0, 2, 4}, {1, 3, 5},
    {0, 1}, {2, 3}, {4, 5},
    {0, 2}, {1, 3}, {2, 4}, {3, 5}, {0, 4}, {1, 5},
    {0}, {1}, {2}, {3}, {4}, {5}>>

Ways == {1, 2, 3, 4, 6}

Location(d) == 2 * (d.channel % ChannelsPerImc) + d.imc

\* Mutant of AddSet: a set of an earlier extent may be extended.
AddSetAnyExtent(goal, i, s) ==
  IF goal.count \in {1, 2} /\ goal.sets[goal.count].dimms = s.dimms
  THEN [goal EXCEPT !.sets[goal.count].size = @ + s.size]
  ELSE [goal EXCEPT !.count = @ + 1,
                    !.sets = IF goal.count = 0 THEN <<s>> ELSE <<@[1], s>>]

\* addInterleaveSetToGoal: the newest set of this extent grows if it spans
\* the same DIMMs; otherwise a new one is counted, and every set after the
\* first lies in the place of the second.
AddSet(goal, i, s) ==
  IF /\ goal.count > ad.existing[i]
     /\ goal.count \in {1, 2}
     /\ goal.sets[goal.count].dimms = s.dimms
  THEN [goal EXCEPT !.sets[goal.count].size = @ + s.size]
  ELSE [goal EXCEPT !.count = @ + 1,
                    !.sets = IF goal.count = 0 THEN <<s>> ELSE <<@[1], s>>]

\* layoutInterleaveSet on DIMM i of a set over the DIMMs ds.  The extent the
\* set is laid out for stands for its id, which is new for every extent.
PlaceOn(goal, i, ds, bytes) ==
  AddSet(goal, i, [size |-> Down(bytes), dimms |-> [k \in DOMAIN ds |-> ds[k].id],
                   extent |-> Head(steps)[2]])

\* getRemainingAppDirectBytesFromDimms; 0 where it throws.
AppDirectRemaining ==
  LET Room(d) == IF layout.goals[d.id].count < MaxExtents THEN Unallocated(d) ELSE 0
  IN Total(ToLayout, Room)

\* The step ends, by itself or by a throw in a pass that began with left
\* bytes to place: what the passes before it placed is recorded.
ExtentOver(left) ==
  /\ layout' = [layout EXCEPT !.extents = Append(@, Down(ad.total - left))]
  /\ EndStep

ExtentBegin ==
  /\ Running("appdirect")
  /\ LET total == IF Extent.capacity = Remaining THEN AppDirectRemaining
                  ELSE Extent.capacity * GB
     IN IF total = 0
        THEN EndStep
        ELSE /\ pc' = "extent"
             /\ ad' = [IdleAd EXCEPT !.total = total, !.left = total,
                         !.existing = [i \in Ids(ToLayout) |-> layout.goals[i].count]]
             /\ UNCHANGED <<req, steps, mem, set, result>>
  /\ UNCHANGED layout

\* All of it is placed.
ExtentEnd ==
  /\ pc = "extent"
  /\ ad.left = 0
  /\ ExtentOver(0)

\* layoutByOneAd: a set of its own on every DIMM with room.
ByOneRound ==
  /\ pc = "extent"
  /\ ad.left # 0
  /\ Extent.byOne
  /\ LET bytes == Symmetrical(ToLayout, ad.left)
         included == WithRoom(ToLayout)
     IN IF bytes = 0
        THEN ExtentOver(ad.left)
        ELSE /\ layout' = [layout EXCEPT !.goals = [i \in DOMAIN @ |->
                  IF i \in Ids(included) THEN PlaceOn(@[i], i, <<Manageable[i]>>, bytes)
                  ELSE @[i]]]
             /\ ad' = [ad EXCEPT !.left = @ - bytes * Len(included)]
             /\ UNCHANGED <<req, steps, pc, mem, set, result>>

\* removeEmptySockets: the sockets with room for a share of what is left.
OpenSockets ==
  SelectSeq(SetToSortSeq(Sockets(ToLayout), <),
            LAMBDA s : Symmetrical(SameSocket(ToLayout, s), ad.left) # 0)

\* layoutInterleavedAd: what is left is shared by the DIMMs that have room,
\* but a socket's part is counted over all its DIMMs.
InterleavedRound ==
  /\ pc = "extent"
  /\ ad.left # 0
  /\ ~Extent.byOne
  /\ LET open == OpenSockets
         count == FoldLeft(LAMBDA n, s : n + Len(WithRoom(SameSocket(ToLayout, s))), 0, open)
         Target(ds) == ((ad.left \div count) * Len(ds)) % Word
     IN IF open = <<>>
        THEN ExtentOver(ad.left)
        ELSE /\ ad' = [ad EXCEPT !.got = 0,
                         !.sockets = [k \in DOMAIN open |->
                            [dimms |-> SameSocket(ToLayout, open[k]),
                             target |-> Target(SameSocket(ToLayout, open[k]))]]]
             /\ pc' = "socket"
             /\ UNCHANGED <<req, layout, steps, mem, set, result>>

\* layoutInterleavedAdAcrossSocket begins.
SocketBegin ==
  /\ pc = "socket"
  /\ ad.sockets # <<>>
  /\ LET s == Head(ad.sockets)
         rest == SelectSeq(s.dimms, LAMBDA d : Unallocated(d) > 0)
     IN set' = [rest |-> rest, most |-> s.target \div Len(rest), target |-> s.target, got |-> 0]
  /\ pc' = "sets"
  /\ UNCHANGED <<req, layout, steps, mem, ad, result>>

AtLocations(ds, locs) == SelectSeq(ds, LAMBDA d : Location(d) \in locs)

\* canMapInterleavedCapacity: no DIMM of the set is full of other sets.
CanMap(ds) ==
  \A k \in DOMAIN ds :
    LET i == ds[k].id
        g == layout.goals[i]
    IN g.count = MaxExtents =>
         /\ g.count > ad.existing[i]
         /\ g.sets[2].dimms = [j \in DOMAIN ds |-> ds[j].id]

\* The DIMMs of the best set that can be mapped; none if there is none.
BestSet(ds) ==
  LET populated == {Location(ds[k]) : k \in {j \in DOMAIN ds : Unallocated(ds[j]) > 0}}
      fitting == {n \in DOMAIN InterleaveSets :
                    /\ InterleaveSets[n] \subseteq populated
                    /\ CanMap(AtLocations(ds, InterleaveSets[n]))}
  IN IF fitting = {} THEN <<>> ELSE AtLocations(ds, InterleaveSets[Min(fitting)])

\* Mutant of Served: the DIMMs of a set stay to be served.
ServedStay(rest, included) == rest

\* getRemainingDimms
Served(rest, included) == SelectSeq(rest, LAMBDA d : d.id \notin Ids(included))

\* Another interleave set on the socket.
SetRound ==
  /\ pc = "sets"
  /\ set.got < set.target
  /\ set.rest # <<>>
  /\ LET best == BestSet(set.rest)
         bytes == Min({Symmetrical(best, set.most * Len(set.rest)), set.most})
         included == WithRoom(best)
     IN CASE bytes = 0 -> ExtentOver(ad.left)
          [] bytes # 0 /\ Len(included) \notin Ways ->
               /\ result' = "refused"
               /\ pc' = "done"
               /\ UNCHANGED <<req, layout, steps, mem, ad, set>>
          [] OTHER ->
               /\ layout' = [layout EXCEPT !.goals = [i \in DOMAIN @ |->
                    IF i \in Ids(included) THEN PlaceOn(@[i], i, included, bytes) ELSE @[i]]]
               /\ set' = [set EXCEPT !.got = @ + bytes * Len(included),
                            !.rest = Served(@, included)]
               /\ UNCHANGED <<req, steps, pc, mem, ad, result>>

SocketEnd ==
  /\ pc = "sets"
  /\ set.got >= set.target \/ set.rest = <<>>
  /\ ad' = [ad EXCEPT !.sockets = Tail(@), !.got = @ + set.got]
  /\ set' = IdleSet
  /\ pc' = "socket"
  /\ UNCHANGED <<req, layout, steps, mem, result>>

\* The sockets have their parts: the round is over, and so is the step if
\* nothing could be placed.
InterleavedEnd ==
  /\ pc = "socket"
  /\ ad.sockets = <<>>
  /\ IF ad.got = 0
     THEN ExtentOver(ad.left)
     ELSE /\ ad' = [ad EXCEPT !.left = (@ - ad.got) % Word, !.got = 0]
          /\ pc' = "extent"
          /\ UNCHANGED <<req, layout, steps, mem, set, result>>

-----------------------------------------------------------------------------
(* LayoutStepStorage and the post-layout checks *)

\* What is left on all DIMMs is storage, if a whole GB of it is anywhere.
Storage ==
  /\ Running("storage")
  /\ layout' = [layout EXCEPT !.storage =
                  IF AllRemaining = 0 THEN @ ELSE Down(Total(req.dimms, Unallocated))]
  /\ EndStep

CriticalSockets == 8
CriticalSets == 7

SetsOnSocket(s) ==
  Cardinality(UNION {{<<t.dimms, t.extent>> : t \in Range(layout.goals[i].sets)} :
                       i \in {j \in DOMAIN layout.goals : Manageable[j].socket = s}})
  + Cardinality({t \in OldSets : t.socket = s /\ t.dimms \cap DOMAIN layout.goals = {}})

\* PostLayoutAddressDecoderLimitCheck
WithinDecoders ==
  SocketCount >= CriticalSockets =>
    \A s \in Sockets(req.dimms) : SetsOnSocket(s) <= CriticalSets

Gap(expected, observed) ==
  CASE expected = Remaining -> observed + 1      \* the difference wraps
    [] expected # Remaining /\ expected >= observed -> expected - observed
    [] OTHER -> observed - expected

Acceptable(expected, observed) ==
  observed # 0 /\ 10 * Gap(expected, observed) <= expected

\* PostLayoutRequestDeviationCheck compares extent after extent with the
\* capacities in the order they were laid out, and reads past their end
\* when a step recorded none.
FirstBad ==
  Min({Len(req.extents) + 1} \cup
      {k \in DOMAIN req.extents :
         k > Len(layout.extents) \/ ~Acceptable(req.extents[k].capacity, layout.extents[k])})

Check ==
  /\ pc = "check"
  /\ result' =
       CASE ~WithinDecoders -> "refused"
         [] WithinDecoders /\ req.memory # 0 /\ ~Acceptable(req.memory, layout.memory) -> "refused"
         [] OTHER -> IF FirstBad > Len(req.extents) THEN "accepted"
                     ELSE IF FirstBad > Len(layout.extents) THEN "undefined"
                     ELSE "refused"
  /\ pc' = "done"
  /\ UNCHANGED <<req, layout, steps, mem, ad, set>>

-----------------------------------------------------------------------------
Next ==
  \/ Refuse \/ Validate
  \/ Reserve
  \/ MemoryBegin \/ MemoryRound \/ MemoryEnd
  \/ ExtentBegin \/ ExtentEnd \/ ByOneRound
  \/ InterleavedRound \/ SocketBegin \/ SetRound \/ SocketEnd \/ InterleavedEnd
  \/ Storage
  \/ Check

Spec == Init /\ [][Next]_vars

-----------------------------------------------------------------------------
(* Properties *)

Accepted == result = "accepted"

GoalGB(g) == g.memory + Total(g.sets, LAMBDA s : s.size)

\* A third set on a DIMM was laid out in the place of the second.
Crowded == \E i \in DOMAIN layout.goals : layout.goals[i].count > MaxExtents

\* DIMMs of one socket differ in size.
Mixed(ds) ==
  \E j, k \in DOMAIN ds : ds[j].socket = ds[k].socket /\ ds[j].capacity # ds[k].capacity

\* A fixed amount of memory is laid out over DIMMs of different size, that
\* is, in several rounds.  A later round rounds up to the alignment without
\* regard to the memory that the earlier ones placed.
MemoryMixed ==
  /\ req.memory \notin {0, Remaining}
  /\ \E j, k \in DOMAIN req.dimms : req.dimms[j].capacity \div GB # req.dimms[k].capacity \div GB

\* What a DIMM is given fits it, and a set is in the goal of every DIMM it
\* spans, with one size.
GoalsFit ==
  Accepted /\ ~Crowded /\ ~MemoryMixed =>
    \A i \in DOMAIN layout.goals :
      LET g == layout.goals[i]
      IN /\ GoalGB(g) * GB <= Manageable[i].capacity
         /\ \A s \in Range(g.sets) : \A j \in Range(s.dimms) : s \in Range(layout.goals[j].sets)

\* Only a second extent, or DIMMs of different size on a socket, can bring a
\* DIMM a third set: layoutByOneAd does not look at the count, and
\* canMapInterleavedCapacity looks at more DIMMs than the set then spans.
CrowdedWhen == Accepted /\ Crowded => Len(req.extents) = 2 \/ Mixed(ToLayout)

InGoals(Size(_)) == FoldFunction(+, 0, [i \in DOMAIN layout.goals |-> Size(layout.goals[i])])

PlacedFor(k) ==
  InGoals(LAMBDA g : Total(SelectSeq(g.sets, LAMBDA s : s.extent = k), LAMBDA s : s.size))

\* The extent that asks for the rest, if any, comes last, as its step does.
RestLast == \A k \in DOMAIN req.extents : req.extents[k].capacity = Remaining => k = Len(req.extents)

\* What the goals of an accepted layout give is what was asked for, give or
\* take a tenth.  The check compares with what the steps recorded, in the
\* order they ran.  They record bytes, of which the goal of each DIMM gets
\* the whole GB: an interleaved extent may lack one GB less than it has
\* DIMMs, and where these differ in size there is no telling.
AsAsked ==
  /\ Accepted /\ req.memory # 0 => Acceptable(req.memory, InGoals(LAMBDA g : g.memory))
  /\ Accepted /\ ~Crowded /\ ~MemoryMixed /\ RestLast =>
       \A k \in DOMAIN req.extents :
         LET asked == req.extents[k].capacity
         IN IF req.extents[k].byOne THEN Acceptable(asked, PlacedFor(k))
            ELSE \/ Mixed(ToLayout)
                 \/ \E lost \in 0 .. Len(ToLayout) - 1 : Acceptable(asked, PlacedFor(k) + lost)

\* The reserved DIMM stays empty: it is left out of every step that places,
\* though what is left on it counts in the amount to place.
ReserveKept == layout.reserved # 0 => layout.goals[layout.reserved] = NoGoal

\* A DIMM of the step is full to the byte.
SomeFull == \E k \in DOMAIN ToLayout : Unallocated(ToLayout[k]) = 0

\* Every pass of every loop makes what is to do smaller, so a request is
\* answered.  A socket's part is counted over all its DIMMs and shared by
\* those that are not full: only where one is can more be placed than is
\* left, and what is left wraps.
RoundsPlace ==
  [][ /\ pc = "memory" /\ pc' = "memory" => mem'.done > mem.done
      /\ pc \in {"extent", "socket"} /\ pc' = "extent" => ad'.left < ad.left \/ SomeFull
      /\ pc = "sets" /\ pc' = "sets" => Len(set'.rest) < Len(set.rest) ]_vars
=============================================================================
