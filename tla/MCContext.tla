------------------------------ MODULE MCContext ------------------------------
(* Instances for TLC of what processes cache of the hardware: the platform  *)
(* config data of a DIMM (PlatformConfig), by two processes, and the lists  *)
(* of namespaces (NvmContext), by two threads beside another process.  A    *)
(* behaviour is one of one of the two.                                      *)
EXTENDS MCPlatformConfig

CONSTANTS
  Threads, Namespaces, NoContext, Nothing, MaxVersion, MaxCalls, MaxRooms, Others

ASSUME NamespacesAssumption == IsFiniteSet(Namespaces)

VARIABLES
  part, driver, clock, ctx, at, arg, goal, room, got, result, overran, snapshots, raced,
  calls, failures, contexts

N == INSTANCE NvmContext WITH pc <- at, faults <- failures

contextVars == <<driver, clock, ctx, at, arg, goal, room, got, result, overran, snapshots, raced,
                 calls, failures, contexts>>
allVars == <<part, vars, contextVars>>

NoContextPart ==
  /\ driver = 0 /\ clock = 0 /\ ctx = 0 /\ at = 0 /\ arg = 0 /\ goal = 0 /\ room = 0 /\ got = 0
  /\ result = 0 /\ overran = 0 /\ snapshots = 0 /\ raced = 0 /\ calls = 0 /\ failures = 0 /\ contexts = 0

InitAll ==
  \/ part = "config" /\ Init /\ NoContextPart
  \/ part = "namespaces" /\ Init /\ large /\ N!Init

NextAll ==
  /\ part' = part
  /\ \/ part = "config" /\ Next /\ UNCHANGED contextVars
     \/ part = "namespaces" /\ N!Next /\ UNCHANGED vars

SpecAll == InitAll /\ [][NextAll]_allVars

Alike == Symmetric \cup Permutations(Threads) \cup Permutations(Namespaces)

-----------------------------------------------------------------------------
(* The properties of NvmContext, where they are explained. *)

\* A list handed out is one the driver had, and a cached one is current.
ListSound == part = "namespaces" => N!ListSound

\* Details handed out are of the namespace as it is.
DetailsCurrent ==
  [][part = "namespaces" =>
       \A t \in Threads :
         /\ ~raced'
         /\ result'[t] \notin {result[t], Nothing}
         /\ "details" \in DOMAIN result'[t]
         => result'[t].details.version = driver[arg[t]]]_allVars
=============================================================================
