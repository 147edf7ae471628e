-------------------------------- MODULE Daemon --------------------------------
(***************************************************************************)
(* The life of the monitor service (src/src/monitor): the main thread      *)
(* builds the monitors the preferences ask for, a worker thread calls each *)
(* of them in turn until a signal arrives, and main joins the workers and  *)
(* deletes the monitors.  What an event monitor pass does is in DimmMonitor*)
(* and Topology; a performance pass stores one row per DIMM and trims.     *)
(*                                                                         *)
(* The monitors share one connection to the store that their constructors  *)
(* open and their destructors close.  In builds with hidden symbols        *)
(* (build.mk) it is the program's own and closed when main begins; in      *)
(* simulator builds it is the library's, which lib_load has opened.        *)
(***************************************************************************)
EXTENDS Integers

CONSTANTS
  Dimms,        \* number of manageable DIMMs
  PerfMax,      \* PERFORMANCE_LOG_MAX
  TrimPercent,  \* PERFORMANCE_LOG_TRIM_PERCENT
  MaxStarts,    \* bound on the starts of the service
  MaxTrimFails  \* bound on failing DELETEs

Monitors == {"event", "performance"}
Closed == 0

VARIABLES
  prefs,        \* the monitors that are enabled in the store
  shared,       \* the library's connection is the program's
  conn,         \* p_store: Closed, or the number of the connection
  opened,       \* connections opened so far in this process
  perfStore,    \* m_pStore of the performance monitor
  built,        \* the monitors that getMonitors returned
  main,         \* where the main thread is
  worker,       \* where a monitor's thread is
  keepRunning,
  rows,         \* rows of the performance table
  added,        \* the performance pass has stored a row
  starts,       \* starts of the service so far
  trimFails     \* failed DELETEs so far

stores == <<prefs, shared, conn, opened, perfStore>>
table == <<rows, added, starts, trimFails>>
vars == <<stores, built, main, worker, keepRunning, table>>

\* A process that has just been started.
Fresh(lib) ==
  /\ shared' = lib
  /\ conn' = IF lib THEN 1 ELSE Closed
  /\ opened' = conn'
  /\ perfStore' = Closed /\ built' = {}
  /\ main' = "event" /\ worker' = [m \in Monitors |-> "none"]
  /\ keepRunning' = TRUE /\ added' = FALSE

Init ==
  /\ prefs \in SUBSET Monitors
  /\ shared \in BOOLEAN
  /\ conn = (IF shared THEN 1 ELSE Closed) /\ opened = conn
  /\ perfStore = Closed /\ built = {}
  /\ main = "event" /\ worker = [m \in Monitors |-> "none"]
  /\ keepRunning = TRUE /\ added = FALSE
  /\ rows = 0 /\ starts = 1 /\ trimFails = 0

-----------------------------------------------------------------------------
(* The main thread *)

\* NvmMonitorBase: the preference is read before the derived constructor
\* opens the store; without a store the default, enabled, stands.
Enabled(m) == conn = Closed \/ m \in prefs

\* open_default_lib_store opens unless it is open.
Opened == IF conn = Closed THEN opened + 1 ELSE conn

\* getMonitors: an event monitor; one that is not enabled is deleted, which
\* closes the store.
BuildEvent ==
  /\ main = "event" /\ main' = "performance"
  /\ opened' = IF conn = Closed THEN opened + 1 ELSE opened
  /\ IF Enabled("event")
     THEN built' = {"event"} /\ conn' = Opened
     ELSE built' = {} /\ conn' = Closed
  /\ UNCHANGED <<prefs, shared, perfStore, worker, keepRunning, table>>

\* Then a performance monitor, deleted likewise, and the threads.
BuildPerformance ==
  /\ main = "performance" /\ main' = "run"
  /\ opened' = IF conn = Closed THEN opened + 1 ELSE opened
  /\ IF Enabled("performance")
     THEN built' = built \cup {"performance"} /\ conn' = Opened /\ perfStore' = conn'
     ELSE conn' = Closed /\ UNCHANGED <<built, perfStore>>
  /\ worker' = [m \in Monitors |-> IF m \in built' THEN "init" ELSE "none"]
  /\ UNCHANGED <<prefs, shared, keepRunning, table>>

\* signalHandler
Stop ==
  /\ keepRunning /\ main # "exited" /\ keepRunning' = FALSE
  /\ UNCHANGED <<stores, built, main, worker, table>>

\* Mutant of Join: the workers are not waited for.
JoinNone ==
  /\ main = "run" /\ ~keepRunning
  /\ main' = "delete"
  /\ UNCHANGED <<stores, built, worker, keepRunning, table>>

\* Main looks at the flag every second and joins the workers.
Join ==
  /\ main = "run" /\ ~keepRunning
  /\ \A m \in built : worker[m] = "done"
  /\ main' = "delete"
  /\ UNCHANGED <<stores, built, worker, keepRunning, table>>

\* deleteMonitors: each destructor closes the store it finds open.
Delete ==
  /\ main = "delete" /\ main' = "exited"
  /\ conn' = IF built = {} THEN conn ELSE Closed
  /\ built' = {}
  /\ UNCHANGED <<prefs, shared, opened, perfStore, worker, keepRunning, table>>

-----------------------------------------------------------------------------
(* A worker thread *)

MoveWorker(m, to) == worker' = [worker EXCEPT ![m] = to]

\* init, for the event monitor its start of day
WorkerInit(m) ==
  /\ worker[m] = "init" /\ MoveWorker(m, "wait")
  /\ UNCHANGED <<stores, built, main, keepRunning, table>>

\* Mutant of WorkerWake: a worker only looks at the time.
WorkerWakeDeaf(m) ==
  /\ worker[m] = "wait" /\ MoveWorker(m, "pass")
  /\ UNCHANGED <<stores, built, main, keepRunning, table>>

\* timeToQuit: the interval is over, or it is time to quit.
WorkerWake(m) ==
  /\ worker[m] = "wait"
  /\ MoveWorker(m, IF keepRunning THEN "pass" ELSE "done")
  /\ UNCHANGED <<stores, built, main, keepRunning, table>>

\* EventMonitor::monitor, which returns at once when the store is closed.
EventPass ==
  /\ worker["event"] = "pass" /\ MoveWorker("event", "wait")
  /\ UNCHANGED <<stores, built, main, keepRunning, table>>

\* PerformanceMonitor::monitor: a row for each DIMM that can be read and
\* whose INSERT succeeds.
PerformancePass ==
  /\ worker["performance"] = "pass"
  /\ \E n \in 0..Dimms :
       /\ rows' = rows + n
       /\ added' = (n > 0)
  /\ MoveWorker("performance", "trim")
  /\ UNCHANGED <<stores, built, main, keepRunning, starts, trimFails>>

\* Mutant of TrimCount: only the share is trimmed.
TrimShare(n) == (TrimPercent * PerfMax) \div 100

\* The overage and a share of the maximum, but not more than there is.
TrimCount(n) ==
  LET count == n - PerfMax + (TrimPercent * PerfMax) \div 100
  IN  IF count > n THEN n ELSE count

\* trimPerformanceData
Trim ==
  /\ worker["performance"] = "trim" /\ MoveWorker("performance", "wait")
  /\ IF added /\ rows > PerfMax
     THEN \/ rows' = rows - TrimCount(rows) /\ UNCHANGED trimFails
          \/ trimFails < MaxTrimFails /\ trimFails' = trimFails + 1 /\ UNCHANGED rows
     ELSE UNCHANGED <<rows, trimFails>>
  /\ added' = FALSE
  /\ UNCHANGED <<stores, built, main, keepRunning, starts>>

-----------------------------------------------------------------------------
(* Starts *)

\* The service is started again after it ended or died, with preferences that
\* the command line may have changed.
Start ==
  /\ starts < MaxStarts /\ starts' = starts + 1
  /\ prefs' \in SUBSET Monitors
  /\ Fresh(shared)
  /\ UNCHANGED <<rows, trimFails>>

MainNext == BuildEvent \/ BuildPerformance \/ Join \/ Delete
WorkerNext(m) == WorkerInit(m) \/ WorkerWake(m)
PassNext == EventPass \/ PerformancePass \/ Trim

\* The service has ended: any other end of its steps is a deadlock.
Ended == main = "exited" /\ UNCHANGED vars

Next ==
  \/ MainNext \/ Stop \/ Start \/ Ended
  \/ \E m \in Monitors : WorkerNext(m)
  \/ PassNext

Spec == Init /\ [][Next]_vars

\* Every thread of the process gets its turn, and a pass ends.
FairSpec ==
  /\ Spec
  /\ WF_vars(MainNext)
  /\ \A m \in Monitors : WF_vars(WorkerNext(m))
  /\ WF_vars(EventPass) /\ WF_vars(PerformancePass \/ Trim)

-----------------------------------------------------------------------------
(* Properties *)

\* The connection that the performance monitor took when it was built is the
\* open one whenever its thread uses it: no other monitor's end closed it.
StoreInUse ==
  worker["performance"] \in {"pass", "trim"} => perfStore # Closed /\ perfStore = conn

\* The performance table outgrows its maximum by one pass for each pass that
\* could not trim: because the DELETE failed, or because the service was
\* started again in the middle.
PerfBounded == rows <= PerfMax + Dimms * (trimFails + starts)

\* A service that is told to stop ends, whatever its workers are at.
StopEnds == ~keepRunning ~> (main = "exited" \/ keepRunning)

\* "Whether or not the monitor is periodically checking for NVM-DIMM events"
\* (EVENT_MONITOR_ENABLED): a pass of an enabled event monitor has a store.
EventsChecked ==
  worker["event"] = "pass" /\ "event" \in prefs => conn # Closed
===============================================================================
