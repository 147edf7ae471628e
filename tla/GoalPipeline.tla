----------------------------- MODULE GoalPipeline -----------------------------
(***************************************************************************)
(* From a memory allocation request to the tables of its DIMMs: the layout *)
(* of MemoryLayout (CIM provider) is handed to nvm_create_config_goal      *)
(* (GoalSizes) DIMM by DIMM (MemoryAllocator::allocate), and callers of    *)
(* the library ask for goals that no layout made.  The two components      *)
(* check the same request with rules of their own.                         *)
(*                                                                         *)
(* What one DIMM is told does not depend on the others, so a behaviour     *)
(* follows one DIMM; what a failure among several leaves is in GoalCalls.  *)
(***************************************************************************)
EXTENDS GoalSizes

CONSTANTS PmAlignment, Requests, Manageable, Features, OldSets, SocketCount

ASSUME UnitAssumption == PmAlignment \in Nat \ {0}
ASSUME ManageableAssumption == \A d \in DOMAIN Manageable : Manageable[d].capacity < Word

VARIABLES req, layout, steps, lpc, mem, ad, set, result

L == INSTANCE MemoryLayout WITH pc <- lpc

sizeVars == vars
layoutVars == <<req, layout, steps, lpc, mem, ad, set, result>>
allVars == <<sizeVars, layoutVars>>

\* The DIMM as the library sees it: whole GiB of the same raw capacity.
\* Sizes are aligned to a GiB when the platform reports no more than that.
LibraryDimm(i) ==
  [gb |-> Manageable[i].capacity \div GB, memoryAlign |-> GB, setAlign |-> GB,
   memory |-> TRUE, appDirect |-> TRUE, mirror |-> TRUE]

\* Mutant of ConfigGoal: sizes in bytes, as the layout steps count them.
ConfigGoalBytes(g, i) ==
  [memory |-> g.memory,
   sets |-> [k \in 1..g.count |-> [size |-> g.sets[k].size * GB, mirrored |-> FALSE, here |-> TRUE]]]

\* struct config_goal of DIMM i.  A third set was put in the second's place.
ConfigGoal(g, i) ==
  [memory |-> g.memory,
   sets |-> [k \in 1..g.count |->
     LET s == g.sets[IF k > MaxSets THEN MaxSets ELSE k]
     IN [size |-> s.size, mirrored |-> FALSE, here |-> i \in {s.dimms[j] : j \in DOMAIN s.dimms}]]]

NoLayout ==
  /\ req = CHOOSE r \in Requests : TRUE
  /\ layout = L!EmptyLayout(req)
  /\ steps = <<>> /\ lpc = "left" /\ result = "none"
  /\ mem = L!IdleMem /\ ad = L!IdleAd /\ set = L!IdleSet

\* A caller of the library, or one of the CIM provider.
InitBoth ==
  \/ NoLayout /\ Init
  \/ /\ L!Init
     /\ dimm = LibraryDimm(req.dimms[1].id) /\ goal = [memory |-> 0, sets |-> <<>>]
     /\ pc = "failed" /\ table = None /\ read = None /\ first = None

LayoutStep == L!Next /\ UNCHANGED sizeVars

\* The layout is accepted and its goals are created one after the other.
Allocate(i) ==
  /\ lpc = "done" /\ result = "accepted"
  /\ dimm' = LibraryDimm(i) /\ goal' = ConfigGoal(layout.goals[i], i)
  /\ pc' = "asked"
  /\ lpc' = "allocated"
  /\ UNCHANGED <<table, read, first, req, layout, steps, mem, ad, set, result>>

GoalStep == Next /\ UNCHANGED layoutVars

NextBoth == LayoutStep \/ (\E i \in DOMAIN layout.goals : Allocate(i)) \/ GoalStep

SpecBoth == InitBoth /\ [][NextBoth]_allVars

-----------------------------------------------------------------------------
(* Properties *)

\* The properties of MemoryLayout, where they are explained: an accepted
\* layout is what was asked for and leaves the reserved DIMM alone.
AsAsked == L!AsAsked /\ L!ReserveKept

\* Every pass of a loop of the layout steps makes progress.
RoundsPlace == L!RoundsPlace

\* The provider and the library agree: what an accepted layout gives a DIMM
\* passes nvm_create_config_goal, unless a third set crowds it or memory
\* overflows it, and is read back from the table as the layout has it.
LayoutTaken ==
  lpc = "allocated" /\ ~L!Crowded /\ ~L!MemoryMixed /\ first = None =>
    /\ pc # "refused"
    /\ pc = "read" => read = goal

\* An accepted layout fits its DIMMs, by the provider's rules and by those of
\* the library.
GoalsFit == L!GoalsFit /\ L!CrowdedWhen /\ LayoutTaken
===============================================================================
