--------------------------- MODULE MCProvisioning ---------------------------
(* Instances of GoalCalls and Namespaces for TLC, one beside the other: a   *)
(* behaviour is one of goals, or one of namespaces, by the same processes   *)
(* on the same DIMMs.                                                       *)
EXTENDS MCNamespaces

CONSTANTS SocketOf, Named, MaxTrouble

VARIABLES part, goal, config, use, size, new, file, goalCall, goalUsed

G == INSTANCE GoalCalls WITH Lists <- Named, call <- goalCall, used <- goalUsed

goalVars == <<goal, config, use, size, new, file, goalCall, goalUsed>>
allVars == <<part, vars, goalVars>>

\* Two DIMMs on one socket, one on another.
MCSocketOf == <<0, 0, 1>>

\* A part of a socket, a socket, and the machine.
MCNamed == {{2}, {1, 2}, {1, 2, 3}}

ASSUME DimmsAssumption ==
  /\ Dimms \subseteq Nat \ {0} /\ Dimms # {} /\ IsFiniteSet(Dimms)
  /\ SocketOf \in [Dimms -> Nat]
  /\ Named \subseteq (SUBSET Dimms) \ {{}}

NoNamespaces ==
  /\ ns = <<>> /\ call = [c \in Clients |-> Idle] /\ used = [calls |-> 0, faults |-> 0]

NoGoals ==
  /\ goal = <<>> /\ config = <<>> /\ use = <<>> /\ size = <<>> /\ new = {} /\ file = <<>>
  /\ goalCall = <<>> /\ goalUsed = <<>>

\* Goals that are pending at first, and a file, are those of a machine
\* without anything else: two calls lead to the other beginnings.
StartsAlone ==
  \/ file = G!NoFile /\ goal = [d \in Dimms |-> G!NoGoal]
  \/ config = [d \in Dimms |-> {}] /\ (file = G!NoFile \/ goal = [d \in Dimms |-> G!NoGoal])

InitAll ==
  \/ part = "goals" /\ NoNamespaces /\ G!Init /\ StartsAlone
  \/ part = "namespaces" /\ NoGoals /\ Init

NextAll ==
  \/ part = "goals" /\ G!Next /\ UNCHANGED <<part, vars>>
  \/ part = "namespaces" /\ Next /\ UNCHANGED <<part, goalVars>>

SpecAll == InitAll /\ [][NextAll]_allVars

-----------------------------------------------------------------------------
(* The properties of GoalCalls, where they are explained. *)

\* A call that succeeds leaves every set with a goal on all its DIMMs.
SetsWhole == part = "goals" => G!SetsWhole

\* A call that failed has left no goal of its own behind.
FailedLeavesNothing == part = "goals" => G!FailedLeavesNothing

\* An exported file has a line for every configured DIMM and no other.
ExportExact == part = "goals" => G!ExportExact
=============================================================================
