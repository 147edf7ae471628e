------------------------------- MODULE Topology -------------------------------
(***************************************************************************)
(* What the event monitor does once at its start                           *)
(* (src/src/monitor/EventMonitor.cpp, startOfDay): the DIMMs it discovers  *)
(* are compared with the topology saved by the previous start, the         *)
(* differences become events, goals and SKU violations are checked, and    *)
(* the topology is saved anew, row by row.                                 *)
(*                                                                         *)
(* Hardware changes only while the machine is off.  What the user can know *)
(* is kept in history variables that replay the events.                    *)
(***************************************************************************)
EXTENDS Integers, FiniteSets

CONSTANTS
  Dimms,       \* DIMM guids
  Handles,     \* device handles: the slots of the machine
  Unmanaged,   \* DIMMs that are discovered but not manageable
  Namespaces,  \* namespace guids
  NoHandle,    \* the DIMM is not in the machine
  NoRow,       \* no row in topology_state
  Scenarios    \* what happens to the machine, and how much of it: see Scenario

Calls == {"discovery", "status", "goal", "topology", "save", "namespaces", "events", "host"}

\* The DIMMs, slots and namespaces in play, the parts of the hardware that
\* change, the calls that fail, and the bounds on changes, failures and
\* deaths of the daemon in startOfDay.
Scenario ==
  [dimms : SUBSET Dimms, handles : SUBSET Handles, namespaces : SUBSET Namespaces,
   varying : SUBSET {"slot", "isNew", "unclean", "sku", "goal", "namespaces", "mixed"},
   failing : SUBSET Calls, changes : Nat, faults : Nat, crashes : Nat]

GoalStatuses == {"unknown", "new", "success", "failed"}
Goals == GoalStatuses \cup {"none", "invalid"}   \* NVM_ERR_NOTFOUND, NVM_ERR_BADDEVICECONFIG

VARIABLES
  sc,        \* the scenario
  hw,        \* the machine: slot, isNew, unclean, sku, goal of a DIMM; its namespaces; mixed SKUs
  topo,      \* rows of topology_state: [handle, goal], or NoRow
  valid,     \* TOPOLOGY_STATE_VALID
  open,      \* action-required events: <<device or namespace, code>>
  pc,        \* the step of startOfDay that is due
  wasValid,  \* valid, as read at the start
  seen,      \* devMap: the handle of each discovered DIMM
  status,    \* devMap: the device_status fetched for it
  old,       \* devMap: the stored row
  todo,      \* DIMMs the current loop has yet to visit
  baseline,  \* history: a first topology has been recorded
  known,     \* history: the DIMMs present according to that record and the events since
  missing,   \* history: DIMMs told missing at this start
  unsafe,    \* history: DIMMs told to have shut down uncleanly at this start
  goalTold,  \* history: the last goal status an event told of
  clean,     \* history: no call failed and nothing died since the last power-on
  failed,    \* history: the calls that ever failed, and "crash"
  changes, faults, crashes

dbVars   == <<topo, valid, open>>
mapVars  == <<wasValid, seen, status, old, todo>>
history  == <<baseline, known, missing, unsafe, goalTold>>
trouble  == <<clean, failed>>
vars == <<sc, hw, dbVars, pc, mapVars, history, trouble, changes, faults, crashes>>

Present == {d \in Dimms : hw.slot[d] # NoHandle}
Seen    == {d \in Dimms : seen[d] # NoHandle}

Nothing == [d \in Dimms |-> NoHandle]
NoRows  == [d \in Dimms |-> NoRow]

\* A zeroed device_status: not new, no SKU violation, and the "clean" bit
\* of the last shutdown not set.
ZeroStatus == [isNew |-> FALSE, sku |-> FALSE, unclean |-> TRUE]

Placement ==
  {s \in [Dimms -> sc.handles \cup {NoHandle}] :
     /\ \A d, e \in Dimms : s[d] = s[e] /\ d # e => s[d] = NoHandle
     /\ \A d \in Dimms \ sc.dimms : s[d] = NoHandle}

Init ==
  /\ sc \in Scenarios
  /\ \E s \in Placement :
       hw = [slot |-> s, isNew |-> [d \in Dimms |-> FALSE],
             unclean |-> [d \in Dimms |-> FALSE], sku |-> [d \in Dimms |-> FALSE],
             goal |-> [d \in Dimms |-> "none"], namespaces |-> sc.namespaces, mixed |-> FALSE]
  /\ topo = NoRows /\ valid = FALSE /\ open = {}
  /\ pc = "off"
  /\ wasValid = FALSE /\ seen = Nothing /\ old = NoRows /\ todo = {}
  /\ status = [d \in Dimms |-> ZeroStatus]
  /\ baseline = FALSE /\ known = {} /\ missing = {} /\ unsafe = {}
  /\ goalTold = [d \in Dimms |-> "none"]
  /\ clean = TRUE /\ failed = {}
  /\ changes = 0 /\ faults = 0 /\ crashes = 0

-----------------------------------------------------------------------------
(* The machine *)

\* While the machine is off DIMMs come, go and move, and the BIOS works on
\* goals; the next boot may find a DIMM new, badly shut down or of a wrong
\* SKU, or a namespace gone.
Rewire ==
  /\ pc = "off" /\ changes < sc.changes
  /\ \/ "slot" \in sc.varying /\ \E s \in Placement : hw' = [hw EXCEPT !.slot = s]
     \/ "namespaces" \in sc.varying /\ \E S \in SUBSET sc.namespaces : hw' = [hw EXCEPT !.namespaces = S]
     \/ "mixed" \in sc.varying /\ hw' = [hw EXCEPT !.mixed = ~@]
     \/ \E d \in sc.dimms :
          \/ "isNew" \in sc.varying /\ hw' = [hw EXCEPT !.isNew[d] = ~@]
          \/ "unclean" \in sc.varying /\ hw' = [hw EXCEPT !.unclean[d] = ~@]
          \/ "sku" \in sc.varying /\ hw' = [hw EXCEPT !.sku[d] = ~@]
          \/ "goal" \in sc.varying /\ \E g \in Goals : hw' = [hw EXCEPT !.goal[d] = g]
  /\ hw' # hw
  /\ changes' = changes + 1
  /\ UNCHANGED <<sc, dbVars, pc, mapVars, history, trouble, faults, crashes>>

PowerOn ==
  /\ pc = "off"
  /\ pc' = "discover"
  /\ missing' = {} /\ unsafe' = {}
  /\ clean' = TRUE
  /\ UNCHANGED <<sc, failed, hw, dbVars, mapVars, baseline, known, goalTold, changes, faults, crashes>>

\* The daemon's memory goes, with the machine or without it.
Forget == wasValid' = FALSE /\ seen' = Nothing /\ old' = NoRows /\ todo' = {}
          /\ status' = [d \in Dimms |-> ZeroStatus]

PowerOff ==
  /\ pc = "running"
  /\ pc' = "off"
  /\ Forget
  /\ UNCHANGED <<sc, hw, dbVars, history, trouble, changes, faults, crashes>>

\* The machine goes down while the daemon is in startOfDay.
Crash ==
  /\ pc \notin {"off", "running"}
  /\ crashes < sc.crashes
  /\ crashes' = crashes + 1
  /\ pc' = "off"
  /\ clean' = FALSE /\ failed' = failed \cup {"crash"}
  /\ Forget
  /\ UNCHANGED <<sc, hw, dbVars, history, changes, faults>>

\* The periodic pass raises an alarm (DimmMonitor).
RaiseHealth(s) ==
  /\ pc = "running"
  /\ s \in (Present \ Unmanaged) \cup hw.namespaces
  /\ open' = open \cup {<<s, "health">>}
  /\ UNCHANGED <<sc, hw, topo, valid, pc, mapVars, history, trouble, changes, faults, crashes>>

-----------------------------------------------------------------------------
(* startOfDay *)

MayFail(kind) == kind \in sc.failing /\ faults < sc.faults
Fail(kind) == /\ MayFail(kind)
              /\ faults' = faults + 1
              /\ clean' = FALSE
              /\ failed' = failed \cup {kind}
NoFault == UNCHANGED <<faults, trouble>>

Go(step) == pc' = step

\* buildDeviceMap: the discovered DIMMs with the status of the manageable
\* ones.  A failed status read leaves a zeroed record.
Discover ==
  /\ pc = "discover"
  /\ wasValid' = valid
  /\ \E unread \in SUBSET (Present \ Unmanaged) :
       /\ unread # {} => MayFail("status")
       /\ \/ /\ unread = {} /\ NoFault
             /\ seen' = hw.slot
          \/ /\ unread # {} /\ Fail("status")
             /\ seen' = hw.slot
          \/ /\ unread = {} /\ Fail("discovery")
             /\ seen' = Nothing
       /\ status' = [d \in Dimms |->
            IF seen'[d] = NoHandle \/ d \in Unmanaged \cup unread THEN ZeroStatus
            ELSE [isNew |-> hw.isNew[d], sku |-> hw.sku[d], unclean |-> hw.unclean[d]]]
  /\ Go("rows")
  /\ UNCHANGED <<sc, hw, dbVars, old, todo, history, changes, crashes>>

\* ... and the rows of a valid topology.  A failed read leaves none.
ReadRows ==
  /\ pc = "rows"
  /\ \/ old' = (IF wasValid THEN topo ELSE NoRows) /\ NoFault
     \/ wasValid /\ old' = NoRows /\ Fail("topology")
  /\ IF wasValid THEN Go("new") /\ UNCHANGED todo
                 ELSE Go("startup") /\ todo' = Seen \ Unmanaged
  /\ UNCHANGED <<sc, hw, dbVars, wasValid, seen, status, history, changes, crashes>>

Stored(d) == old[d] # NoRow

New == {d \in Seen : ~Stored(d)}

\* getReplacedDimmGuid: the stored DIMM of this handle that is not seen.
ReplacedBy(d) == {o \in Dimms \ Seen : Stored(o) /\ old[o].handle = seen[d]}
Replaced == UNION {ReplacedBy(d) : d \in New}

\* Mutant of Missing: a DIMM counts as missing when it left its slot.
MissingFromSlot == {d \in Dimms : Stored(d) /\ old[d].handle # seen[d]} \ Replaced

Missing == {d \in Dimms \ Seen : Stored(d)} \ Replaced

AlarmsOf(S) == {a \in open : a[1] \in S}

\* Mutant of NewDimms: a replaced DIMM is not told gone.
NewDimmsNoReplace ==
  /\ pc = "new"
  /\ known' = known \cup New
  /\ open' = (open \ AlarmsOf(Replaced)) \cup {<<d, "newDevice">> : d \in {n \in New : status[n].isNew}}
  /\ Go("modified")
  /\ UNCHANGED <<sc, hw, topo, valid, mapVars, baseline, missing, unsafe, goalTold, trouble, changes, faults, crashes>>

\* processTopologyNewDimms: a new DIMM is told added, or told to replace
\* another, whose alarms are acknowledged.
NewDimms ==
  /\ pc = "new"
  /\ known' = (known \cup New) \ Replaced
  /\ open' = (open \ AlarmsOf(Replaced)) \cup {<<d, "newDevice">> : d \in {n \in New : status[n].isNew}}
  /\ Go("modified")
  /\ UNCHANGED <<sc, hw, topo, valid, mapVars, baseline, missing, unsafe, goalTold, trouble, changes, faults, crashes>>

\* Mutant of ModifiedDimms: the alarms of missing DIMMs stay.
ModifiedDimmsNoAcknowledge ==
  /\ pc = "modified"
  /\ missing' = Missing
  /\ known' = known \ Missing
  /\ todo' = Seen \ Unmanaged
  /\ Go("startup")
  /\ UNCHANGED <<sc, hw, dbVars, wasValid, seen, status, old, baseline, unsafe, goalTold, trouble, changes, faults, crashes>>

\* processTopologyModifiedDimms: the other stored DIMMs that are not seen
\* are told missing and their alarms acknowledged.  (A moved DIMM is told
\* too; nothing depends on it.)
ModifiedDimms ==
  /\ pc = "modified"
  /\ missing' = Missing
  /\ known' = known \ Missing
  /\ open' = open \ AlarmsOf(Missing)
  /\ todo' = Seen \ Unmanaged
  /\ Go("startup")
  /\ UNCHANGED <<sc, hw, topo, valid, wasValid, seen, status, old, baseline, unsafe, goalTold, trouble, changes, faults, crashes>>

ConfigCodes == {"newDevice", "goalFailed", "dataInvalid", "sku"}

\* Mutant of AfterGoal: a success acknowledges nothing.
AfterGoalNoAcknowledge(alarms, d, g) ==
  CASE g = "failed"                 -> alarms \cup {<<d, "goalFailed">>}
    [] g \in {"unknown", "invalid"} -> alarms \cup {<<d, "dataInvalid">>}
    [] OTHER                        -> alarms

\* What an event about goal g of d does to the alarms: success acknowledges
\* all configuration events of the DIMM.
AfterGoal(alarms, d, g) ==
  CASE g = "success"                -> alarms \ ({d} \X ConfigCodes)
    [] g = "failed"                 -> alarms \cup {<<d, "goalFailed">>}
    [] g \in {"unknown", "invalid"} -> alarms \cup {<<d, "dataInvalid">>}
    [] OTHER                        -> alarms

\* What the SKU check does to them.
AfterSku(alarms, d) ==
  IF status[d].sku THEN alarms \cup {<<d, "sku">>} ELSE alarms \ {<<d, "sku">>}

\* Mutant of TellGoal: a DIMM without a saved status is passed over.
TellGoalIfStored(d) ==
  \/ hw.goal[d] \in GoalStatuses /\ Stored(d) /\ hw.goal[d] # old[d].goal
  \/ hw.goal[d] = "invalid"

\* checkConfigGoalStatus: a status is told when it is not the saved one;
\* data that cannot be read as a goal is told every time.
TellGoal(d) ==
  \/ hw.goal[d] \in GoalStatuses /\ (~Stored(d) \/ hw.goal[d] # old[d].goal)
  \/ hw.goal[d] = "invalid"

\* Mutant of StartupDimm: the SKU is checked before the goal.
StartupDimmSkuFirst(d) ==
  /\ pc = "startup" /\ d \in todo
  /\ todo' = todo \ {d}
  /\ unsafe' = IF status[d].unclean THEN unsafe \cup {d} ELSE unsafe
  /\ \E tell \in BOOLEAN :
       /\ \/ tell = TellGoal(d) /\ NoFault
          \/ ~tell /\ Fail("goal")
       /\ goalTold' = IF tell THEN [goalTold EXCEPT ![d] = hw.goal[d]] ELSE goalTold
       /\ open' = IF tell THEN AfterGoal(AfterSku(open, d), d, hw.goal[d]) ELSE AfterSku(open, d)
  /\ UNCHANGED <<sc, hw, topo, valid, pc, wasValid, seen, status, old, baseline, known, missing, changes, crashes>>

\* Mutant of StartupDimm: the shutdown status of every DIMM is used.
StartupDimmAnyUnclean(d) ==
  /\ pc = "startup" /\ d \in todo
  /\ todo' = todo \ {d}
  /\ unsafe' = IF \E e \in Seen : status[e].unclean THEN unsafe \cup {d} ELSE unsafe
  /\ open' = AfterSku(open, d)
  /\ UNCHANGED <<sc, hw, topo, valid, pc, wasValid, seen, status, old, baseline, known, missing,
                 goalTold, trouble, changes, faults, crashes>>

\* processDeviceStartupStatus for one manageable DIMM: the last shutdown,
\* the goal (nothing if it cannot be read), the SKU.
StartupDimm(d) ==
  /\ pc = "startup" /\ d \in todo
  /\ todo' = todo \ {d}
  /\ unsafe' = IF status[d].unclean THEN unsafe \cup {d} ELSE unsafe
  /\ \E tell \in BOOLEAN :
       /\ \/ tell = TellGoal(d) /\ NoFault
          \/ ~tell /\ Fail("goal")
       /\ goalTold' = IF tell THEN [goalTold EXCEPT ![d] = hw.goal[d]] ELSE goalTold
       /\ open' = AfterSku(IF tell THEN AfterGoal(open, d, hw.goal[d]) ELSE open, d)
  /\ UNCHANGED <<sc, hw, topo, valid, pc, wasValid, seen, status, old, baseline, known, missing, changes, crashes>>

\* saveCurrentTopologyState: all rows go first; when that fails nothing is
\* saved.
DeleteRows ==
  /\ pc = "startup" /\ todo = {}
  /\ \/ topo' = NoRows /\ Go("save") /\ todo' = Seen /\ NoFault
     \/ UNCHANGED <<topo, todo>> /\ Go("namespaces") /\ Fail("save")
  /\ UNCHANGED <<sc, hw, valid, open, wasValid, seen, status, old, history, changes, crashes>>

\* A DIMM without a readable goal is saved with an unknown one.
SavedGoal(d) == IF hw.goal[d] \in GoalStatuses THEN hw.goal[d] ELSE "unknown"

\* Then each discovered DIMM is added; a failed insert ends it.
SaveRow(d) ==
  /\ pc = "save" /\ d \in todo
  /\ \/ /\ \/ topo' = [topo EXCEPT ![d] = [handle |-> seen[d], goal |-> SavedGoal(d)]] /\ NoFault
           \/ topo' = [topo EXCEPT ![d] = [handle |-> seen[d], goal |-> "unknown"]] /\ Fail("goal")
        /\ todo' = todo \ {d}
        /\ UNCHANGED pc
     \/ /\ Fail("save")
        /\ todo' = {}
        /\ Go("namespaces")
        /\ UNCHANGED topo
  /\ UNCHANGED <<sc, hw, valid, open, wasValid, seen, status, old, history, changes, crashes>>

\* add_config_value removes the old value ...
ClearValid ==
  /\ pc = "save" /\ todo = {}
  /\ valid' = FALSE
  /\ Go("valid")
  /\ UNCHANGED <<sc, hw, topo, open, mapVars, history, trouble, changes, faults, crashes>>

\* ... and adds the new one.  The first topology becomes the baseline.
SetValid ==
  /\ pc = "valid"
  /\ \/ valid' = TRUE /\ NoFault
     \/ valid' = FALSE /\ Fail("save")
  /\ baseline' = TRUE
  /\ known' = IF baseline THEN known ELSE Seen
  /\ Go("namespaces")
  /\ UNCHANGED <<sc, hw, topo, open, mapVars, missing, unsafe, goalTold, changes, crashes>>

\* Mutant of AckNamespaces: the list is not compared.
AckNamespacesAll ==
  /\ pc = "namespaces"
  /\ open' = open \ AlarmsOf(Namespaces)
  /\ Go("mixed")
  /\ UNCHANGED <<sc, hw, topo, valid, mapVars, history, trouble, changes, faults, crashes>>

\* acknowledgeDeletedNamespaces: alarms of namespaces not in the list go.
\* When the list cannot be read it is empty but its length negative, so all
\* go; when the events cannot be read none does.
AckNamespaces ==
  /\ pc = "namespaces"
  /\ \/ open' = open \ AlarmsOf(Namespaces \ hw.namespaces) /\ NoFault
     \/ AlarmsOf(Namespaces) # {} /\ open' = open \ AlarmsOf(Namespaces) /\ Fail("namespaces")
     \/ UNCHANGED open /\ Fail("events")
  /\ Go("mixed")
  /\ UNCHANGED <<sc, hw, topo, valid, mapVars, history, changes, crashes>>

\* processMixedSkuSystem, unless the host cannot be read.
MixedSku ==
  /\ pc = "mixed"
  /\ \/ /\ open' = IF hw.mixed THEN open \cup {<<"system", "mixed">>} ELSE open \ {<<"system", "mixed">>}
        /\ NoFault
     \/ UNCHANGED open /\ Fail("host")
  /\ Go("running")
  /\ UNCHANGED <<sc, hw, topo, valid, mapVars, history, changes, crashes>>

StartOfDay ==
  \/ Discover \/ ReadRows \/ NewDimms \/ ModifiedDimms
  \/ \E d \in Dimms : StartupDimm(d) \/ SaveRow(d)
  \/ DeleteRows \/ ClearValid \/ SetValid
  \/ AckNamespaces \/ MixedSku

Next ==
  \/ Rewire \/ PowerOn \/ PowerOff \/ Crash
  \/ \E s \in Dimms \cup Namespaces : RaiseHealth(s)
  \/ StartOfDay

Spec == Init /\ [][Next]_vars

-----------------------------------------------------------------------------
(* Properties *)

Row == [handle : Handles, goal : GoalStatuses]

\* The type invariant: rows, map and history are about DIMMs and their slots.
TypeOK ==
  /\ hw.slot \in Placement
  /\ failed \subseteq Calls \cup {"crash"}
  /\ topo \in [Dimms -> Row \cup {NoRow}] /\ old \in [Dimms -> Row \cup {NoRow}]
  /\ valid \in BOOLEAN /\ wasValid \in BOOLEAN
  /\ open \subseteq (Dimms \cup Namespaces \cup {"system"}) \X (ConfigCodes \cup {"health", "mixed"})
  /\ pc \in {"off", "discover", "rows", "new", "modified", "startup", "save", "valid",
             "namespaces", "mixed", "running"}
  /\ seen \in Placement
  /\ todo \subseteq Seen
  /\ known \cup missing \cup unsafe \subseteq Dimms
  /\ goalTold \in [Dimms -> Goals]

Running == pc = "running"

NoneFailed(kinds) == failed \cap kinds = {}

\* The events tell the topology: the DIMMs that the first saved topology
\* and the added, replaced and missing events since amount to are those in
\* the machine, after every start whose calls succeed, if no earlier one
\* died or failed at the stored topology.
TopologyTold ==
  Running /\ clean /\ NoneFailed({"crash", "save", "topology"}) => known = Present

\* What is told of a DIMM is true, whatever fails but the one call it rests
\* on, and wherever earlier starts died: it is told missing only when it is
\* ("old device not discovered"), and unsafely shut down only when it was
\* ("FW had an abnormal shutdown").
ToldIsTrue ==
  /\ pc # "off" /\ NoneFailed({"discovery"}) => missing \cap Present = {}
  /\ pc # "off" /\ NoneFailed({"status"}) => \A d \in unsafe : hw.unclean[d]

\* Alarms go with the device or the namespace they are about.
NoOrphanAlarm ==
  Running /\ NoneFailed({"crash", "discovery", "topology", "save", "events"}) =>
    \A a \in open : a[1] \in Present \cup hw.namespaces \cup {"system"}

Managed == Present \ Unmanaged

\* After a start the status of every goal that was processed has been told,
\* unless it is unknown, and a goal that succeeded leaves no alarm about a
\* goal ("acknowledge any old config events for this dimm").
GoalsTold ==
  Running /\ failed = {} => \A d \in Managed :
    /\ hw.goal[d] \in {"success", "failed", "invalid"} => goalTold[d] = hw.goal[d]
    /\ hw.goal[d] = "success" => open \cap {<<d, "goalFailed">>, <<d, "dataInvalid">>} = {}

\* There is an alarm for exactly the DIMMs that violate the SKU, whatever
\* else the start acknowledges and wherever it died before, if discovery
\* and statuses are read.
SkuAlarm ==
  Running /\ NoneFailed({"discovery", "status"}) =>
    \A d \in Managed : <<d, "sku">> \in open <=> hw.sku[d]

\* No alarm of a namespace that exists is acknowledged by a start ("don't
\* auto-acknowledge on failure to get namespaces"), if the list is read.
NamespaceAlarmKept ==
  [][pc # "running" /\ "namespaces" \notin failed' =>
       \A n \in hw.namespaces : AlarmsOf({n}) \subseteq open']_vars

\* What a start tells, under the conditions above: the topology, the DIMMs
\* it says are missing or were shut down uncleanly, goals, violated SKUs.
StartTells == TopologyTold /\ ToldIsTrue /\ GoalsTold /\ SkuAlarm
=============================================================================
