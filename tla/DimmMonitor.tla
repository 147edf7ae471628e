----------------------------- MODULE DimmMonitor -----------------------------
(***************************************************************************)
(* The periodic pass of the event monitor daemon                           *)
(* (src/src/monitor/EventMonitor.cpp, monitor()): what the hardware        *)
(* reports for every DIMM and namespace is compared with the state stored  *)
(* by an earlier pass, changes become events, and the stored state is      *)
(* replaced.  Every write to the store commits by itself, so the daemon    *)
(* can die between any two of them (an event and the acknowledgement of    *)
(* its predecessors are taken as one).                                     *)
(*                                                                         *)
(* DIMMs are named by their device handle, the key of the stored state.    *)
(* Readings are numbers: 0 is what a zeroed record holds (health or sensor *)
(* state unknown, no errors).                                              *)
(***************************************************************************)
EXTENDS Integers, FiniteSets, Sequences, SequencesExt

CONSTANTS
  Dimms,        \* device handles of manageable DIMMs
  Namespaces,   \* namespace guids
  DimmAttrs,    \* attributes of a DIMM, in the order the pass checks them
  NoState,      \* no row for the object in dimm_state / namespace_state
  MaxCount,     \* bound on the counters
  MaxChanges,   \* bound on the changes of the hardware
  MaxFaults,    \* bound on the reads that fail
  MaxStops      \* bound on the stops and crashes of the daemon

Unknown == 0   Normal == 1   Critical == 2   NonCritical == 3

NsHealth == "nsHealth"

\* What a change of the attribute does, in monitorDimmStatus,
\* monitorDimmSensors and monitorNamespaces.
Kind(a) ==
  CASE a = "health"                            -> "health"
    [] a = NsHealth                            -> "nsHealth"
    [] a \in {"mediaTemp", "controllerTemp"}   -> "temperature"
    [] a = "spare"                             -> "spare"
    [] a = "wear"                              -> "wear"
    [] OTHER                                   -> "count"

\* Attributes nvm_get_device_status returns; nvm_get_sensors has the others.
StatusAttrs == {"health", "dieSpares"}

Objects  == Dimms \cup Namespaces
Attrs(o) == IF o \in Dimms THEN DimmAttrs ELSE <<NsHealth>>

Values(a) ==
  CASE Kind(a) \in {"health", "nsHealth"}          -> {Unknown, Normal, Critical, NonCritical}
    [] Kind(a) \in {"temperature", "spare", "wear"} -> {Unknown, Normal, Critical}
    [] OTHER                                       -> 0..MaxCount

Reading(o) == {r \in [Range(Attrs(o)) -> 0..(MaxCount + 3)] :
                 \A a \in DOMAIN r : r[a] \in Values(a)}
Zero(o) == [a \in Range(Attrs(o)) |-> 0]

\* What a new, healthy object reports.
Fresh(o) == [a \in Range(Attrs(o)) |-> IF Kind(a) = "count" THEN 0 ELSE Normal]

NotTold == -1

ASSUME AttrsAssumption ==
  /\ DimmAttrs \in Seq({"health", "dieSpares", "mediaTemp", "controllerTemp", "spare",
                        "wear", "uncorrectable", "corrected", "erasureCoded"})
  /\ \A i, j \in DOMAIN DimmAttrs : DimmAttrs[i] = DimmAttrs[j] => i = j
  /\ Dimms \cap Namespaces = {}
ASSUME NoStateAssumption == \A o \in Objects : NoState \notin Reading(o)
ASSUME BoundsAssumption == {MaxCount, MaxChanges, MaxFaults, MaxStops} \subseteq Nat

VARIABLES
  hw,       \* what the hardware and the driver would report
  stored,   \* rows of dimm_state and namespace_state, or NoState
  open,     \* attributes with an action-required event not acknowledged
  pc,       \* where the daemon is
  todo,     \* objects the pass still has to visit
  cur,      \* the object being visited
  idx,      \* the attribute of it that is checked next
  reads,    \* what the reads of cur returned; a failed read leaves no entry
  work,     \* storedState, the local copy of the row
  first,    \* firstState
  changed,  \* storedStateChanged
  told,     \* history: the reading the event log last told of, or NotTold
  observed, \* history: what the last complete visit of the object read
  spoiled,  \* history: what befell the object that the code has no answer to
  changes, faults, stops    \* how much of each bound is used

envVars  == <<hw, changes>>
dbVars   == <<stored, open>>
passVars == <<todo, cur, idx, reads, work, first, changed>>
history  == <<told, observed, spoiled>>
vars == <<envVars, dbVars, pc, passVars, history, faults, stops>>

NoObject == "none"

Init ==
  /\ hw = [o \in Objects |-> Fresh(o)]
  /\ stored = [o \in Objects |-> NoState]
  /\ open = [o \in Objects |-> {}]
  /\ pc = "sleep"
  /\ todo = {} /\ cur = NoObject /\ idx = 1
  /\ reads = <<>> /\ work = <<>>
  /\ first = FALSE /\ changed = FALSE
  /\ told = [o \in Objects |-> [a \in Range(Attrs(o)) |-> NotTold]]
  /\ observed = [o \in Objects |-> NoState]
  /\ spoiled = [o \in Objects |-> {}]
  /\ changes = 0 /\ faults = 0 /\ stops = 0

-----------------------------------------------------------------------------
(* The environment *)

\* A reading changes; counters only grow.
HardwareChange(o, a, v) ==
  /\ changes < MaxChanges
  /\ v # hw[o][a]
  /\ Kind(a) = "count" => v > hw[o][a]
  /\ hw' = [hw EXCEPT ![o][a] = v]
  /\ changes' = changes + 1
  /\ UNCHANGED <<dbVars, pc, passVars, history, faults, stops>>

\* With the system off a DIMM is replaced by a new one under the same
\* handle; what the log told was about the old one.
ReplaceDimm(d) ==
  /\ pc = "down"
  /\ changes < MaxChanges
  /\ hw' = [hw EXCEPT ![d] = Fresh(d)]
  /\ changes' = changes + 1
  /\ spoiled' = [spoiled EXCEPT ![d] = @ \cup {"replaced"}]
  /\ UNCHANGED <<dbVars, pc, passVars, told, observed, faults, stops>>

\* A user acknowledges an event (nvm_acknowledge_event).
Acknowledge(o, a) ==
  /\ open' = [open EXCEPT ![o] = @ \ {a}]
  /\ UNCHANGED <<envVars, stored, pc, passVars, history, faults, stops>>

\* The daemon is stopped between passes, or dies; its memory is gone.
StopOrCrash ==
  /\ pc # "down"
  /\ stops < MaxStops
  /\ stops' = stops + 1
  /\ pc' = "down"
  /\ todo' = {} /\ cur' = NoObject /\ idx' = 1
  /\ reads' = <<>> /\ work' = <<>> /\ first' = FALSE /\ changed' = FALSE
  /\ spoiled' = IF cur \in Objects THEN [spoiled EXCEPT ![cur] = @ \cup {"died"}] ELSE spoiled
  /\ UNCHANGED <<envVars, dbVars, told, observed, faults>>

Restart ==
  /\ pc = "down"
  /\ pc' = "sleep"
  /\ UNCHANGED <<envVars, dbVars, passVars, history, faults, stops>>

-----------------------------------------------------------------------------
(* The pass *)

CanFail == faults < MaxFaults
Fail    == CanFail /\ faults' = faults + 1

\* monitor(): the device map is built; if that fails no DIMM is visited.
BeginPass ==
  /\ pc = "sleep"
  /\ \/ todo' = Dimms /\ UNCHANGED faults
     \/ todo' = {} /\ Fail
  /\ pc' = "dimms"
  /\ UNCHANGED <<envVars, dbVars, cur, idx, reads, work, first, changed, history, stops>>

\* The row of the DIMM is loaded, or, if there is none, a zeroed record is
\* set up to take the first values.  A failed read of the status or of the
\* sensors leaves their attributes out.
VisitDimm(d) ==
  /\ pc = "dimms" /\ d \in todo
  /\ todo' = todo \ {d}
  /\ cur' = d
  /\ idx' = 1
  /\ first' = (stored[d] = NoState)
  /\ changed' = (stored[d] = NoState)
  /\ work' = IF stored[d] = NoState THEN Zero(d) ELSE stored[d]
  /\ \E lost \in SUBSET {"status", "sensors"} :
       LET ok == {a \in Range(DimmAttrs) :
                    (IF a \in StatusAttrs THEN "status" ELSE "sensors") \notin lost}
       IN  /\ lost # {} => CanFail
           /\ faults' = IF lost = {} THEN faults ELSE faults + 1
           /\ reads' = [a \in ok |-> hw[d][a]]
  /\ pc' = "check"
  /\ UNCHANGED <<envVars, dbVars, history, stops>>

Attr == Attrs(cur)[idx]
Checking == pc = "check" /\ idx <= Len(Attrs(cur))

\* The next attribute is due.
Advance == idx' = idx + 1

\* The record takes the reading, and the event log tells of it.
Take(v) == work' = [work EXCEPT ![Attr] = v]
Tell(v) == told' = [told EXCEPT ![cur][Attr] = v]

Raise == open' = [open EXCEPT ![cur] = @ \cup {Attr}]
Clear == open' = [open EXCEPT ![cur] = @ \ {Attr}]

\* The read failed: the attribute is left as it was.
SkipAttr ==
  /\ Checking /\ Attr \notin DOMAIN reads
  /\ Advance
  /\ UNCHANGED <<envVars, dbVars, pc, todo, cur, reads, work, first, changed, history,
                 faults, stops>>

\* First values are stored without an event; they count as told when there
\* never was an earlier one.
TakeFirst ==
  /\ Checking /\ Attr \in DOMAIN reads
  /\ first
  /\ Take(reads[Attr])
  /\ IF told[cur][Attr] = NotTold THEN Tell(reads[Attr]) ELSE UNCHANGED told
  /\ Advance
  /\ UNCHANGED <<envVars, dbVars, pc, todo, cur, reads, first, changed, observed, spoiled,
                 faults, stops>>

\* Mutant of Unchanged: every attribute is compared like a counter.
UnchangedOrLower(v) == v <= work[Attr]

\* Nothing new: the state is the same, or a counter did not grow.
Unchanged(v) ==
  IF Kind(Attr) = "count" THEN v <= work[Attr] ELSE v = work[Attr]

SameReading ==
  /\ Checking /\ Attr \in DOMAIN reads
  /\ ~first
  /\ Unchanged(reads[Attr])
  /\ Advance
  /\ UNCHANGED <<envVars, dbVars, pc, todo, cur, reads, work, first, changed, history,
                 faults, stops>>

\* Mutant of NewReading: events of earlier over-threshold readings are not
\* acknowledged.
NewReadingNoAcknowledge ==
  LET v == reads[Attr]  k == Kind(Attr)
  IN  /\ Checking /\ Attr \in DOMAIN reads
      /\ ~first
      /\ ~Unchanged(v)
      /\ IF v = Critical /\ k # "count" THEN Raise ELSE UNCHANGED open
      /\ Tell(v)
      /\ Take(v)
      /\ changed' = TRUE
      /\ Advance
      /\ UNCHANGED <<envVars, stored, pc, todo, cur, reads, first, observed, spoiled,
                     faults, stops>>

\* Mutant of NewReading: storedStateChanged is not set.
NewReadingNotFlagged ==
  LET v == reads[Attr]  k == Kind(Attr)
  IN  /\ Checking /\ Attr \in DOMAIN reads
      /\ ~first
      /\ ~Unchanged(v)
      /\ IF v = Critical /\ k # "count" THEN Raise ELSE UNCHANGED open
      /\ Tell(v)
      /\ Take(v)
      /\ Advance
      /\ UNCHANGED <<envVars, stored, pc, todo, cur, reads, first, changed, observed, spoiled,
                 faults, stops>>

\* A transition is logged and taken into the record.  A critical reading
\* needs action; a normal temperature or spare capacity and a namespace
\* that is not failed acknowledge their earlier events; spare capacity and
\* wear are not worth an event when they are not critical.
NewReading ==
  LET v == reads[Attr]  k == Kind(Attr)
  IN  /\ Checking /\ Attr \in DOMAIN reads
      /\ ~first
      /\ ~Unchanged(v)
      /\ \/ v = Critical /\ k # "count" /\ Raise
         \/ v = Normal /\ k \in {"temperature", "spare"} /\ Clear
         \/ v # Critical /\ k = "nsHealth" /\ Clear
         \/ /\ ~(v = Critical /\ k # "count")
            /\ ~(v = Normal /\ k \in {"temperature", "spare"})
            /\ k # "nsHealth"
            /\ UNCHANGED open
      /\ Tell(v)
      /\ Take(v)
      /\ changed' = TRUE
      /\ Advance
      /\ UNCHANGED <<envVars, stored, pc, todo, cur, reads, first, observed, spoiled,
                     faults, stops>>

Checked == pc = "check" /\ idx > Len(Attrs(cur))

NextObject == IF cur \in Dimms THEN "dimms" ELSE "namespaces"

\* A first visit that could not read everything leaves zeros in the row.
Unread == first /\ DOMAIN reads # Range(Attrs(cur))

\* The visit is over and the locals of the loop body go out of scope.
EndVisit ==
  /\ observed' = [observed EXCEPT ![cur] = IF DOMAIN reads = Range(Attrs(cur)) THEN reads ELSE NoState]
  /\ spoiled' = IF Unread THEN [spoiled EXCEPT ![cur] = @ \cup {"unread"}] ELSE spoiled
  /\ pc' = NextObject
  /\ cur' = NoObject /\ idx' = 1
  /\ reads' = <<>> /\ work' = <<>> /\ first' = FALSE /\ changed' = FALSE

\* No change: the row stays.
KeepState ==
  /\ Checked /\ ~changed
  /\ EndVisit
  /\ UNCHANGED <<envVars, dbVars, todo, told, faults, stops>>

\* An existing row goes first ...
DeleteState ==
  /\ Checked /\ changed /\ ~first
  /\ stored' = [stored EXCEPT ![cur] = NoState]
  /\ pc' = "add"
  /\ UNCHANGED <<envVars, open, todo, cur, idx, reads, work, first, changed, history,
                 faults, stops>>

\* ... and the new one is added.
AddState ==
  /\ pc = "add" \/ (Checked /\ changed /\ first)
  /\ stored' = [stored EXCEPT ![cur] = work]
  /\ EndVisit
  /\ UNCHANGED <<envVars, open, todo, told, faults, stops>>

\* monitorNamespaces: the list is read, or the read fails.
BeginNamespaces ==
  /\ pc = "dimms" /\ todo = {}
  /\ \/ todo' = Namespaces /\ UNCHANGED faults
     \/ todo' = {} /\ Fail
  /\ pc' = "namespaces"
  /\ UNCHANGED <<envVars, dbVars, cur, idx, reads, work, first, changed, history, stops>>

\* A namespace whose details were read is checked like a DIMM with one
\* attribute.
VisitNamespace(n) ==
  /\ pc = "namespaces" /\ n \in todo
  /\ todo' = todo \ {n}
  /\ cur' = n
  /\ idx' = 1
  /\ first' = (stored[n] = NoState)
  /\ changed' = (stored[n] = NoState)
  /\ work' = IF stored[n] = NoState THEN Zero(n) ELSE stored[n]
  /\ reads' = hw[n]
  /\ pc' = "check"
  /\ UNCHANGED <<envVars, dbVars, history, faults, stops>>

\* nvm_get_namespace_details fails: the namespace is passed over.
SkipNamespace(n) ==
  /\ pc = "namespaces" /\ n \in todo
  /\ todo' = todo \ {n}
  /\ Fail
  /\ UNCHANGED <<envVars, dbVars, pc, cur, idx, reads, work, first, changed, history, stops>>

EndPass ==
  /\ pc = "namespaces" /\ todo = {}
  /\ pc' = "sleep"
  /\ UNCHANGED <<envVars, dbVars, passVars, history, faults, stops>>

Environment ==
  \/ \E o \in Objects : \E a \in DOMAIN hw[o] : \E v \in Values(a) : HardwareChange(o, a, v)
  \/ \E d \in Dimms : ReplaceDimm(d)
  \/ \E o \in Objects : \E a \in open[o] : Acknowledge(o, a)
  \/ StopOrCrash

Pass ==
  \/ BeginPass
  \/ \E d \in Dimms : VisitDimm(d)
  \/ SkipAttr \/ TakeFirst \/ SameReading \/ NewReading
  \/ KeepState \/ DeleteState \/ AddState
  \/ BeginNamespaces
  \/ \E n \in Namespaces : VisitNamespace(n) \/ SkipNamespace(n)
  \/ EndPass

Next == Environment \/ Restart \/ Pass

Spec == Init /\ [][Next]_vars

\* The worker thread loops until it is told to stop, and a daemon that went
\* down is started with the system.
FairSpec == Spec /\ WF_vars(Pass) /\ WF_vars(Restart)

-----------------------------------------------------------------------------
(* Properties *)

\* The type invariant: readings stay in their ranges, and a visit has a copy
\* of the whole row.
TypeOK ==
  /\ \A o \in Objects :
       /\ hw[o] \in Reading(o)
       /\ stored[o] \in Reading(o) \cup {NoState}
       /\ \A a \in Range(Attrs(o)) : told[o][a] \in Values(a) \cup {NotTold}
       /\ observed[o] \in Reading(o) \cup {NoState}
       /\ open[o] \subseteq Range(Attrs(o))
       /\ spoiled[o] \subseteq {"replaced", "died", "unread"}
  /\ pc \in {"down", "sleep", "dimms", "namespaces", "check", "add"}
  /\ todo \subseteq Objects
  /\ cur \in Objects \cup {NoObject}
  /\ pc \in {"check", "add"} => work \in Reading(cur) /\ idx \in 1..(Len(Attrs(cur)) + 1)
  /\ first \in BOOLEAN /\ changed \in BOOLEAN

Settled == pc = "sleep"

\* The event log and the stored state tell the same story: between passes
\* the stored reading of every attribute is the one the log told of last
\* ("initial state, just store current": the first reading counts as told).
\* A stored change nobody was told of is a missed event, a told change that
\* was not stored is told again.
LogMatchesState(O) ==
  Settled => \A o \in O : stored[o] # NoState => stored[o] = told[o]

\* The story holds for every object: what the daemon's restarts should not
\* change.
StoryAlwaysHolds == LogMatchesState(Objects)

\* It does hold, through failed reads and through stops and crashes, for
\* every object that was not being visited when the daemon died, whose first
\* visit read everything, and that was not replaced.
StoryHolds == LogMatchesState({o \in Objects : spoiled[o] = {}})

\* However the daemon dies and reads fail, the row a complete visit leaves
\* is what the hardware showed it, if the DIMM is still the same one.
FollowsHardware ==
  Settled => \A o \in Objects :
    "replaced" \notin spoiled[o] /\ stored[o] # NoState /\ observed[o] # NoState
      => stored[o] = observed[o]

\* "Auto-acknowledge any existing temperature over threshold events": when
\* the stored state is normal no action-required event of that attribute
\* waits for the user (temperatures, spare capacity, namespace health),
\* unless the daemon died while it visited the object.
NoStaleAlarm ==
  Settled => \A o \in Objects : \A a \in open[o] :
    /\ Kind(a) \in {"temperature", "spare", "nsHealth"}
    /\ "died" \notin spoiled[o]
    /\ stored[o] # NoState
    => stored[o][a] # Normal

\* A reading that stays is told of in the end, failed reads and restarts
\* notwithstanding.
EventuallyTold ==
  \A o \in Objects : \A a \in Range(Attrs(o)) : \A v \in Values(a) :
    hw[o][a] = v ~> told[o][a] = v \/ hw[o][a] # v \/ spoiled[o] # {}

\* The stored row agrees with the log on one side and the hardware on the
\* other.
RowsHonest == StoryHolds /\ FollowsHardware
=============================================================================
