------------------------------ MODULE MCMonitor ------------------------------
(* Instances for TLC of the monitor service: the passes of its event        *)
(* monitor (DimmMonitor) and its life from start to stop (Daemon).  A       *)
(* behaviour is one of one of the two.                                      *)
EXTENDS MCDimmMonitor

CONSTANTS DimmCount, PerfMax, TrimPercent, MaxStarts, MaxTrimFails

VARIABLES
  part, prefs, shared, conn, opened, perfStore, built, main, worker, keepRunning,
  rows, added, starts, trimFails

D == INSTANCE Daemon WITH Dimms <- DimmCount

daemonVars == <<prefs, shared, conn, opened, perfStore, built, main, worker, keepRunning,
                rows, added, starts, trimFails>>
allVars == <<part, vars, daemonVars>>

\* Nothing runs: every thread is done, and no DIMM has been read.
NoDaemon ==
  /\ prefs = {} /\ shared = TRUE /\ conn = 0 /\ opened = 0 /\ perfStore = 0 /\ built = {}
  /\ main = "exited" /\ worker = [m \in D!Monitors |-> "done"] /\ keepRunning = TRUE
  /\ rows = 0 /\ added = FALSE /\ starts = 0 /\ trimFails = 0
NoPasses ==
  /\ hw = [o \in Objects |-> Fresh(o)] /\ stored = [o \in Objects |-> NoState]
  /\ open = [o \in Objects |-> {}]
  /\ pc = "down" /\ todo = {} /\ cur = NoObject /\ idx = 1 /\ reads = <<>> /\ work = <<>>
  /\ first = FALSE /\ changed = FALSE
  /\ told = [o \in Objects |-> [k \in Range(Attrs(o)) |-> NotTold]]
  /\ observed = [o \in Objects |-> NoState] /\ spoiled = [o \in Objects |-> {"died"}]
  /\ changes = 0 /\ faults = 0 /\ stops = 0

InitAll ==
  \/ part = "passes" /\ Init /\ NoDaemon
  \/ part = "daemon" /\ NoPasses /\ D!Init

Passes(A) == part = "passes" /\ A /\ UNCHANGED <<part, daemonVars>>
Lives(A) == part = "daemon" /\ A /\ UNCHANGED <<part, vars>>

NextAll == Passes(Next) \/ Lives(D!Next)

\* The fairness of both modules.
SpecAll ==
  /\ InitAll /\ [][NextAll]_allVars
  /\ WF_allVars(Passes(Pass)) /\ WF_allVars(Passes(Restart))
  /\ WF_allVars(Lives(D!MainNext))
  /\ \A m \in D!Monitors : WF_allVars(Lives(D!WorkerNext(m)))
  /\ WF_allVars(Lives(D!EventPass)) /\ WF_allVars(Lives(D!PerformancePass \/ D!Trim))

-----------------------------------------------------------------------------
(* The properties of Daemon, where they are explained. *)

\* The performance monitor uses an open store.
StoreInUse == part = "daemon" => D!StoreInUse

\* The performance table stays near its maximum.
PerfBounded == part = "daemon" => D!PerfBounded

\* A service that is told to stop ends.
StopEnds == D!StopEnds
=============================================================================
