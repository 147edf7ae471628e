------------------------------- MODULE MCStore -------------------------------
(* Instances for TLC of what is kept in the configuration store: the event  *)
(* log, the saved topology, the debug log and the snapshots.  A behaviour   *)
(* is one of one of these parts.                                            *)
EXTENDS EventLog, TLC

CONSTANTS
  Dimms, Handles, Unmanaged, Namespaces, NoHandle, NoTopology, Scenarios,
  Threads, ProcOf, Pollers, NoOne, Quoted, MaxLines, FlushAt, MaxLog, MaxCrashes,
  Taken, MaxSnapshots, MaxSaves

\* Variables of the other parts; step, failures and left are shared by them.
VARIABLES
  part, step, failures, left, crashes,
  sc, hw, topo, valid, open, wasValid, seen, status, old, todo, baseline, known, missing, unsafe,
  goalTold, clean, failed, changes,
  written, file, table, writer, view, inTxn, inPass, mutex, purging, users,
  historyIds, rows, sets, call, saves, saved, mixed, exact

T == INSTANCE Topology WITH pc <- step, faults <- failures, NoRow <- NoTopology
D == INSTANCE DebugLog WITH pc <- step, gone <- left, LogMax <- MaxLog
S == INSTANCE Snapshots WITH history <- historyIds, faults <- failures

topologyVars == <<sc, hw, topo, valid, open, wasValid, seen, status, old, todo, baseline, known,
                  missing, unsafe, goalTold, clean, failed, changes>>
debugVars == <<written, file, table, writer, view, inTxn, inPass, mutex, purging, users, left>>
snapshotVars == <<historyIds, rows, sets, call, saves, saved, mixed, exact>>
sharedVars == <<step, failures, crashes>>
allVars == <<part, vars, topologyVars, debugVars, snapshotVars, sharedVars>>

ASSUME SetsAssumption ==
  /\ Unmanaged \subseteq Dimms
  /\ Dimms \cap Namespaces = {}
  /\ NoHandle \notin Handles /\ NoTopology \notin T!Row
  /\ "system" \notin Dimms \cup Namespaces
ASSUME DebugAssumption ==
  /\ MaxLog \in Nat \ {0} /\ MaxLines \in Nat
  /\ ProcOf \in [Threads -> D!Procs]
  /\ NoOne \notin D!Procs \cup Threads
ASSUME SnapshotsAssumption == MaxSnapshots \in Nat \ {0}
ASSUME ScenariosAssumption ==
  \A s \in Scenarios :
    /\ s.dimms \subseteq Dimms /\ s.handles \subseteq Handles /\ s.namespaces \subseteq Namespaces
    /\ s.failing \subseteq T!Calls /\ {s.changes, s.faults, s.crashes} \subseteq Nat

NoTopologyPart ==
  /\ sc = 0 /\ hw = 0 /\ topo = 0 /\ valid = 0 /\ open = 0 /\ wasValid = 0
  /\ seen = 0 /\ status = 0 /\ old = 0 /\ todo = 0 /\ baseline = 0 /\ known = 0
  /\ missing = 0 /\ unsafe = 0 /\ goalTold = 0 /\ clean = 0 /\ failed = 0 /\ changes = 0

NoDebugPart ==
  /\ written = 0 /\ file = 0 /\ table = 0 /\ writer = 0 /\ view = 0 /\ inTxn = 0
  /\ inPass = 0 /\ mutex = 0 /\ purging = 0 /\ users = 0 /\ left = 0

NoSnapshotPart ==
  /\ historyIds = 0 /\ rows = 0 /\ sets = 0 /\ call = 0 /\ saves = 0 /\ saved = 0
  /\ mixed = 0 /\ exact = 0


InitAll ==
  \/ /\ part = "events" /\ Init
     /\ NoTopologyPart /\ NoDebugPart /\ NoSnapshotPart /\ step = 0 /\ failures = 0 /\ crashes = 0
  \/ /\ part = "topology" /\ T!Init /\ Init
     /\ NoDebugPart /\ NoSnapshotPart
  \/ /\ part = "debug" /\ D!Init /\ Init /\ failures = 0
     /\ NoTopologyPart /\ NoSnapshotPart
  \/ /\ part = "snapshots" /\ S!Init /\ Init /\ step = 0 /\ crashes = 0
     /\ NoTopologyPart /\ NoDebugPart

NextAll ==
  /\ part' = part
  /\ \/ /\ part = "events" /\ Next
        /\ UNCHANGED <<topologyVars, debugVars, snapshotVars, sharedVars>>
     \/ /\ part = "topology" /\ T!Next
        /\ UNCHANGED <<vars, debugVars, snapshotVars>>
     \/ /\ part = "debug" /\ D!Next
        /\ UNCHANGED <<vars, topologyVars, snapshotVars, failures>>
     \/ /\ part = "snapshots" /\ S!Next
        /\ UNCHANGED <<vars, topologyVars, debugVars, step, crashes>>

SpecAll == InitAll /\ [][NextAll]_allVars

-----------------------------------------------------------------------------
(* Values *)

CONSTANTS d1, d2, d3, h1, h2, n1, a, b, c, P, Q

\* DIMMs that come, go, move and are replaced while reads fail.
Moves ==
  [dimms |-> {d1, d2, d3}, handles |-> {h1, h2}, namespaces |-> {},
   varying |-> {"slot", "isNew"}, failing |-> {"discovery", "status", "goal", "host"},
   changes |-> 2, faults |-> 1, crashes |-> 0]

\* Alarms about devices and namespaces that disappear.
Orphans ==
  [dimms |-> {d1, d2}, handles |-> {h1}, namespaces |-> {n1},
   varying |-> {"slot", "isNew", "unclean", "namespaces", "mixed"},
   failing |-> {"status", "goal", "namespaces", "host"},
   changes |-> 2, faults |-> 1, crashes |-> 0]

\* The saved topology is damaged by crashes and failed writes.
Damage ==
  [dimms |-> {d1, d2}, handles |-> {h1, h2}, namespaces |-> {},
   varying |-> {"slot"}, failing |-> {"save", "topology", "events"},
   changes |-> 2, faults |-> 1, crashes |-> 1]

\* Goals and other faults of one DIMM over many starts, some of which die or
\* fail to save.
Processing ==
  [dimms |-> {d1}, handles |-> {h1}, namespaces |-> {},
   varying |-> {"slot", "goal", "sku", "isNew", "unclean"}, failing |-> {"save", "topology"},
   changes |-> 2, faults |-> 1, crashes |-> 1]

AllScenarios == {Moves, Orphans, Damage, Processing}

\* Two threads of one process and one of another.
MCProcOf == [t \in {a, b, c} |-> IF t = c THEN Q ELSE P]

\* The two threads of P, who are the callers of the other parts as well, can
\* be exchanged.
Alike == Permutations({a, b})

-----------------------------------------------------------------------------
(* The properties of the other parts, where they are explained. *)

\* What a start tells of topology, goals, SKUs and unsafe shutdowns is true.
StartTells == part = "topology" => T!StartTells

\* Alarms go with the device or the namespace they are about.
NoOrphanAlarm == part = "topology" => T!NoOrphanAlarm

\* A start acknowledges no alarm of a namespace that exists.
NamespaceAlarmKept ==
  [][part = "topology" /\ step # "running" /\ "namespaces" \notin failed' =>
       \A n \in hw.namespaces : T!AlarmsOf({n}) \subseteq open']_allVars

\* A line of the debug log is stored at most once.
StoredOnce == part = "debug" => D!StoredOnce

\* No line is lost between the file and the table.
NoneLost == part = "debug" => D!NoneLost

\* A snapshot whose save succeeded is there whole and unmixed.
SavedWhole == part = "snapshots" => S!SavedWhole

\* What is left of snapshots and support files by calls that fail or overlap.
LeftClean == part = "snapshots" => S!LeftClean
=============================================================================
