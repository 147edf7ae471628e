----------------------------- MODULE EventNotify -----------------------------
(***************************************************************************)
(* Event subscriptions of the native library (src/src/lib/monitor.c):      *)
(* nvm_add_event_notify, nvm_remove_event_notify and the poll_events       *)
(* thread, over the event table of src/src/common/persistence/event.c.     *)
(*                                                                         *)
(* A critical section of g_eventmonitor_lock that touches nothing outside  *)
(* the lock is one step; a poll pass holds the lock over several steps,    *)
(* because the event table is written by others meanwhile.                 *)
(***************************************************************************)
EXTENDS Integers, FiniteSets, FiniteSetsExt

CONSTANTS
  Clients,       \* threads of the process that add and remove callbacks
  Pollers,       \* identities for poll_events threads (bounds how many live)
  Slots,         \* indexes of g_event_callback_list: 1..MAX_EVENT_SUBSCRIBERS
  Types,         \* event types
  AllTypes,      \* EVENT_TYPE_ALL
  Asked,         \* the types that clients subscribe to
  NoOne,         \* no callback in a slot, no holder of the lock
  MaxEventId,    \* bound on the events ever stored
  LocalWriters,  \* TRUE: threads of this process store and purge events too
  MaxFaults,     \* bound on the reads of a poll pass that give it up
  MaxMisreads    \* bound on the reads of the newest event id that fail

ASSUME SlotsAssumption ==
  /\ Slots \subseteq Nat
  /\ IsFiniteSet(Slots)
ASSUME TypesAssumption == AllTypes \notin Types /\ Asked \subseteq Types \cup {AllTypes}
ASSUME NoOneAssumption == NoOne \notin Pollers \cup Types \cup {AllTypes}
ASSUME BoundAssumption == {MaxEventId, MaxFaults, MaxMisreads} \subseteq Nat
ASSUME WritersAssumption == LocalWriters \in BOOLEAN

VARIABLES
  events,     \* rows of the event table: [id, type]
  lastId,     \* the table's AUTOINCREMENT counter
  lock,       \* poller that holds g_eventmonitor_lock over a pass, or NoOne
  isPolling,  \* g_is_polling
  callbacks,  \* g_event_callback_list: the subscribed type, or NoOne
  current,    \* g_current_event_id
  cpc,        \* where each client is in the library
  ctype,      \* type argument of the client's nvm_add_event_notify, until used
  subs,       \* callback ids the client got and has not given back
  ppc,        \* where each poll_events thread is
  next,       \* its next_event_id
  count,      \* its event_count: the size of the array it fetches into
  rows,       \* db_event_count inside process_events_matching_filter
  batch,      \* the events it fetched
  faults,     \* reads that failed so far: those that give up a pass, those of the newest id
  seen,       \* history: event ids delivered to the callback in each slot
  again,      \* history: event ids delivered to it more than once
  since       \* history: the last event id when the slot was filled

dbVars     == <<events, lastId>>
notifyVars == <<isPolling, callbacks, current>>
clientVars == <<cpc, ctype, subs>>
pollerVars == <<ppc, next, count, rows, batch>>
history    == <<seen, again, since>>
vars == <<dbVars, lock, notifyVars, clientVars, pollerVars, faults, history>>

EventIds == 1..MaxEventId
Event    == [id : EventIds, type : Types]
Ids(S)   == {e.id : e \in S}

\* Mutant of MaxId: an empty table is read as -1.
MaxIdEmptyIsError == Max(Ids(events) \cup {-1})

\* "select max(id) from event", NULL read as 0.
MaxId == Max(Ids(events) \cup {0})

\* The subscription of slot i wants event e.
Wants(i, e) == callbacks[i] \in {e.type, AllTypes}

LockFree == lock = NoOne

Living == {p \in Pollers : ppc[p] # "none"}

\* Thread identities no add in progress may still need.
SparePollers ==
  Cardinality(Pollers) - Cardinality(Living)
    - Cardinality({c \in Clients : cpc[c] \in {"init", "spawn"}})

Init ==
  /\ events = {} /\ lastId = 0
  /\ lock = NoOne
  /\ isPolling = FALSE
  /\ callbacks = [i \in Slots |-> NoOne]
  /\ current = 0
  /\ cpc = [c \in Clients |-> "idle"]
  /\ ctype = [c \in Clients |-> AllTypes]
  /\ subs = [c \in Clients |-> {}]
  /\ ppc = [p \in Pollers |-> "none"]
  /\ next = [p \in Pollers |-> 0]
  /\ count = [p \in Pollers |-> 0]
  /\ rows = [p \in Pollers |-> 0]
  /\ batch = [p \in Pollers |-> {}]
  /\ faults = [pass |-> 0, newest |-> 0]
  /\ seen = [i \in Slots |-> {}]
  /\ again = [i \in Slots |-> {}]
  /\ since = [i \in Slots |-> 0]

-----------------------------------------------------------------------------
(* The event table.  A poll pass runs in a transaction: another process    *)
(* cannot commit to the table meanwhile, but a thread of this process      *)
(* writes through the same connection (get_lib_store()) and can.           *)

CanWrite == LocalWriters \/ LockFree

\* store_event: the new row gets the next AUTOINCREMENT id.
StoreEvent(t) ==
  /\ CanWrite
  /\ lastId < MaxEventId
  /\ lastId' = lastId + 1
  /\ events' = events \cup {[id |-> lastId + 1, type |-> t]}
  /\ UNCHANGED <<lock, notifyVars, clientVars, pollerVars, faults, history>>

\* nvm_purge_events, or the trim in store_event: some rows go.
PurgeEvents(S) ==
  /\ CanWrite
  /\ S # {}
  /\ events' = events \ S
  /\ UNCHANGED <<lastId, lock, notifyVars, clientVars, pollerVars, faults, history>>

-----------------------------------------------------------------------------
(* nvm_add_event_notify *)

AddBegin(c, t) ==
  /\ cpc[c] = "idle"
  /\ SparePollers > 0
  /\ cpc' = [cpc EXCEPT ![c] = "init"]
  /\ ctype' = [ctype EXCEPT ![c] = t]
  /\ UNCHANGED <<dbVars, lock, notifyVars, subs, pollerVars, faults, history>>

\* init_event_notify finds a poller running: nothing to do.
InitAlreadyPolling(c) ==
  /\ cpc[c] = "init"
  /\ LockFree
  /\ isPolling
  /\ cpc' = [cpc EXCEPT ![c] = "claim"]
  /\ UNCHANGED <<dbVars, lock, notifyVars, ctype, subs, pollerVars, faults, history>>

\* init_event_notify, first registration: the whole list is zeroed and the
\* cursor set to the newest event.
InitStartPolling(c) ==
  /\ cpc[c] = "init"
  /\ LockFree
  /\ ~isPolling
  /\ callbacks' = [i \in Slots |-> NoOne]
  /\ seen' = [i \in Slots |-> {}]
  /\ again' = [i \in Slots |-> {}]
  /\ since' = [i \in Slots |-> 0]
  /\ current' = MaxId
  /\ isPolling' = TRUE
  /\ cpc' = [cpc EXCEPT ![c] = "spawn"]
  /\ UNCHANGED <<dbVars, lock, ctype, subs, pollerVars, faults>>

\* create_thread(poll_events), after the lock is released.
SpawnPoller(c) ==
  /\ cpc[c] = "spawn"
  /\ \E p \in Pollers \ Living : ppc' = [ppc EXCEPT ![p] = "wait"]
  /\ cpc' = [cpc EXCEPT ![c] = "claim"]
  /\ UNCHANGED <<dbVars, lock, notifyVars, ctype, subs, next, count, rows, batch,
                 faults, history>>

FreeSlots == {i \in Slots : callbacks[i] = NoOne}

\* The first open slot is filled; its index is the caller's callback id.
ClaimSlot(c) ==
  /\ cpc[c] = "claim"
  /\ LockFree
  /\ FreeSlots # {}
  /\ LET i == Min(FreeSlots)
     IN  /\ callbacks' = [callbacks EXCEPT ![i] = ctype[c]]
         /\ subs' = [subs EXCEPT ![c] = @ \cup {i}]
         /\ since' = [since EXCEPT ![i] = lastId]
  /\ cpc' = [cpc EXCEPT ![c] = "idle"]
  /\ ctype' = [ctype EXCEPT ![c] = AllTypes]
  /\ UNCHANGED <<dbVars, lock, isPolling, current, pollerVars, faults, seen, again>>

\* Mutant of ClaimRefused: a full list is tried again.
ClaimRefusedRetries(c) ==
  /\ cpc[c] = "claim"
  /\ LockFree
  /\ FreeSlots = {}
  /\ cpc' = [cpc EXCEPT ![c] = "init"]
  /\ UNCHANGED <<dbVars, lock, notifyVars, ctype, subs, pollerVars, faults, history>>

\* No open slot: NVM_ERR_EXCEEDSMAXSUBSCRIBERS.
ClaimRefused(c) ==
  /\ cpc[c] = "claim"
  /\ LockFree
  /\ FreeSlots = {}
  /\ cpc' = [cpc EXCEPT ![c] = "idle"]
  /\ ctype' = [ctype EXCEPT ![c] = AllTypes]
  /\ UNCHANGED <<dbVars, lock, notifyVars, subs, pollerVars, faults, history>>

-----------------------------------------------------------------------------
(* nvm_remove_event_notify *)

\* Mutant of RemoveCallback: the scan for other subscribers is forgotten.
RemoveCallbackNoScan(c, i) ==
  /\ cpc[c] = "idle"
  /\ i \in subs[c]
  /\ LockFree
  /\ callbacks' = [callbacks EXCEPT ![i] = NoOne]
  /\ subs' = [subs EXCEPT ![c] = @ \ {i}]
  /\ cpc' = [cpc EXCEPT ![c] = "stop"]
  /\ UNCHANGED <<dbVars, lock, isPolling, current, ctype, pollerVars, faults, history>>

\* The slot is cleared and the list scanned for others in one critical
\* section; what the scan found decides the next step.
RemoveCallback(c, i) ==
  /\ cpc[c] = "idle"
  /\ i \in subs[c]
  /\ LockFree
  /\ callbacks' = [callbacks EXCEPT ![i] = NoOne]
  /\ subs' = [subs EXCEPT ![c] = @ \ {i}]
  /\ LET stillListening == \E j \in Slots \ {i} : callbacks[j] # NoOne
     IN  cpc' = [cpc EXCEPT ![c] = IF stillListening THEN "idle" ELSE "stop"]
  /\ seen' = [seen EXCEPT ![i] = {}]
  /\ again' = [again EXCEPT ![i] = {}]
  /\ since' = [since EXCEPT ![i] = 0]
  /\ UNCHANGED <<dbVars, lock, isPolling, current, ctype, pollerVars, faults>>

\* remove_event_notify, a critical section of its own.
StopPolling(c) ==
  /\ cpc[c] = "stop"
  /\ LockFree
  /\ isPolling' = FALSE
  /\ cpc' = [cpc EXCEPT ![c] = "idle"]
  /\ UNCHANGED <<dbVars, lock, callbacks, current, ctype, subs, pollerVars, faults, history>>

-----------------------------------------------------------------------------
(* poll_events *)

\* timeToQuit sees g_is_polling cleared: the thread ends.
PollerQuit(p) ==
  /\ ppc[p] = "wait"
  /\ LockFree
  /\ ~isPolling
  /\ ppc' = [ppc EXCEPT ![p] = "none"]
  /\ UNCHANGED <<dbVars, lock, notifyVars, clientVars, next, count, rows, batch,
                 faults, history>>

\* timeToQuit's last look at g_is_polling; it sleeps once more and returns.
PollerWaited(p) ==
  /\ ppc[p] = "wait"
  /\ LockFree
  /\ isPolling
  /\ ppc' = [ppc EXCEPT ![p] = "poll"]
  /\ UNCHANGED <<dbVars, lock, notifyVars, clientVars, next, count, rows, batch,
                 faults, history>>

\* Lock, db_begin_transaction, get_nvm_event_id.  A read that fails leaves
\* event_id at 0.
PollBegin(p) ==
  /\ ppc[p] = "poll"
  /\ LockFree
  /\ lock' = p
  /\ \/ next' = [next EXCEPT ![p] = MaxId] /\ UNCHANGED faults
     \/ /\ faults.newest < MaxMisreads
        /\ faults' = [faults EXCEPT !.newest = @ + 1]
        /\ next' = [next EXCEPT ![p] = 0]
  /\ ppc' = [ppc EXCEPT ![p] = "compare"]
  /\ UNCHANGED <<dbVars, notifyVars, clientVars, count, rows, batch, history>>

\* The end of a pass: db_end_transaction, mutex_unlock, and the locals of
\* the loop body go out of scope.
EndPass(p) ==
  /\ lock' = NoOne
  /\ ppc' = [ppc EXCEPT ![p] = "wait"]
  /\ next' = [next EXCEPT ![p] = 0]
  /\ count' = [count EXCEPT ![p] = 0]
  /\ rows' = [rows EXCEPT ![p] = 0]
  /\ batch' = [batch EXCEPT ![p] = {}]

\* There are new events: how many rows does the table have?
PollCount(p) ==
  /\ ppc[p] = "compare"
  /\ current < next[p]
  /\ count' = [count EXCEPT ![p] = Cardinality(events)]
  /\ ppc' = [ppc EXCEPT ![p] = "size"]
  /\ UNCHANGED <<dbVars, lock, notifyVars, clientVars, next, rows, batch, faults, history>>

\* Nothing new, or the "should never happen" branch, which moves the
\* cursor back.
PollNothing(p) ==
  /\ ppc[p] = "compare"
  /\ next[p] <= current
  /\ current' = next[p]
  /\ EndPass(p)
  /\ UNCHANGED <<dbVars, isPolling, callbacks, clientVars, faults, history>>

\* The second process_events_matching_filter sizes its own array ...
PollSize(p) ==
  /\ ppc[p] = "size"
  /\ rows' = [rows EXCEPT ![p] = Cardinality(events)]
  /\ ppc' = [ppc EXCEPT ![p] = "fetch"]
  /\ UNCHANGED <<dbVars, lock, notifyVars, clientVars, next, count, batch, faults, history>>

\* The n newest rows: db_get_events orders by id, descending, and stops
\* when the array is full.
Newest(n) == {e \in events : Cardinality({f \in events : f.id > e.id}) < n}

\* ... and fetches that many rows, if the caller's array has room for them.
PollFetch(p) ==
  /\ ppc[p] = "fetch"
  /\ Cardinality(Newest(rows[p])) <= count[p]
  /\ batch' = [batch EXCEPT ![p] = Newest(rows[p])]
  /\ ppc' = [ppc EXCEPT ![p] = "deliver"]
  /\ UNCHANGED <<dbVars, lock, notifyVars, clientVars, next, count, rows, faults, history>>

\* Mutant of PollAbandon: the cursor moves although nothing was delivered.
PollAbandonMovesCursor(p) ==
  /\ ppc[p] \in {"size", "fetch"}
  /\ faults.pass < MaxFaults
  /\ faults' = [faults EXCEPT !.pass = @ + 1]
  /\ current' = next[p]
  /\ EndPass(p)
  /\ UNCHANGED <<dbVars, isPolling, callbacks, clientVars, history>>

\* The pass is given up with the cursor where it was: the array is too
\* small (NVM_ERR_ARRAYTOOSMALL), or a read failed.
PollAbandon(p) ==
  /\ \/ /\ ppc[p] = "fetch"
        /\ Cardinality(Newest(rows[p])) > count[p]
        /\ UNCHANGED faults
     \/ /\ ppc[p] \in {"size", "fetch"}
        /\ faults.pass < MaxFaults
        /\ faults' = [faults EXCEPT !.pass = @ + 1]
  /\ EndPass(p)
  /\ UNCHANGED <<dbVars, notifyVars, clientVars, history>>

\* Mutant of Delivered: compared with the new cursor, not the old one.
DeliveredBeyondNext(p, i) == Ids({e \in batch[p] : e.id > next[p] /\ Wants(i, e)})

\* The ids of the batch that go to the callback in slot i.
Delivered(p, i) == Ids({e \in batch[p] : e.id > current /\ Wants(i, e)})

\* Mutant of PollDeliver: the new current event id is not saved.
PollDeliverKeepsCursor(p) ==
  /\ ppc[p] = "deliver"
  /\ again' = [i \in Slots |-> again[i] \cup (seen[i] \cap Delivered(p, i))]
  /\ seen' = [i \in Slots |-> seen[i] \cup Delivered(p, i)]
  /\ EndPass(p)
  /\ UNCHANGED <<dbVars, notifyVars, clientVars, faults, since>>

\* The callbacks run, with the lock held; then the cursor moves.
PollDeliver(p) ==
  /\ ppc[p] = "deliver"
  /\ again' = [i \in Slots |-> again[i] \cup (seen[i] \cap Delivered(p, i))]
  /\ seen' = [i \in Slots |-> seen[i] \cup Delivered(p, i)]
  /\ current' = next[p]
  /\ EndPass(p)
  /\ UNCHANGED <<dbVars, isPolling, callbacks, clientVars, faults, since>>

-----------------------------------------------------------------------------
DbStep ==
  \/ \E t \in Types : StoreEvent(t)
  \/ \E S \in SUBSET events : PurgeEvents(S)

\* Steps of a library call a client has begun.
CallStep(c) ==
  \/ InitAlreadyPolling(c)
  \/ InitStartPolling(c)
  \/ SpawnPoller(c)
  \/ ClaimSlot(c)
  \/ ClaimRefused(c)
  \/ StopPolling(c)

ClientStep(c) ==
  \/ \E t \in Asked : AddBegin(c, t)
  \/ \E i \in Slots : RemoveCallback(c, i)
  \/ CallStep(c)

PollerStep(p) ==
  \/ PollerQuit(p)
  \/ PollerWaited(p)
  \/ PollBegin(p)
  \/ PollCount(p)
  \/ PollNothing(p)
  \/ PollSize(p)
  \/ PollFetch(p)
  \/ PollAbandon(p)
  \/ PollDeliver(p)

Next ==
  \/ DbStep
  \/ \E c \in Clients : ClientStep(c)
  \/ \E p \in Pollers : PollerStep(p)

Spec == Init /\ [][Next]_vars

\* A thread inside the library goes on.  Calls get strong fairness: they
\* compete for the mutex with pollers that sleep without it for at least a
\* second after every pass.
FairSpec ==
  /\ Spec
  /\ \A c \in Clients : SF_vars(CallStep(c))
  /\ \A p \in Pollers : WF_vars(PollerStep(p))

-----------------------------------------------------------------------------
(* Properties *)

\* Types of the library's state and of its callers; ids and counts stay within
\* the events ever stored.
TypeOK ==
  /\ events \subseteq Event /\ lastId \in 0..MaxEventId
  /\ lock \in Pollers \cup {NoOne}
  /\ isPolling \in BOOLEAN
  /\ callbacks \in [Slots -> Types \cup {AllTypes, NoOne}]
  /\ current \in 0..MaxEventId
  /\ cpc \in [Clients -> {"idle", "init", "spawn", "claim", "stop"}]
  /\ ctype \in [Clients -> Types \cup {AllTypes}]
  /\ subs \in [Clients -> SUBSET Slots]
  /\ ppc \in [Pollers -> {"none", "wait", "poll", "compare", "size", "fetch", "deliver"}]
  /\ next \in [Pollers -> 0..MaxEventId]
  /\ count \in [Pollers -> 0..MaxEventId]
  /\ rows \in [Pollers -> 0..MaxEventId]
  /\ batch \in [Pollers -> SUBSET Event]
  /\ faults \in [pass : 0..MaxFaults, newest : 0..MaxMisreads]
  /\ seen \in [Slots -> SUBSET EventIds]
  /\ again \in [Slots -> SUBSET EventIds]
  /\ since \in [Slots -> 0..MaxEventId]

\* "Save new current event id so events aren't repeatedly sent to
\* callbacks": whatever is stored or purged between and during passes, and
\* however many pollers run, no callback gets the same event twice, as long as
\* no read of the newest id failed (get_nvm_event_id then answers 0, and the
\* log is delivered again).
AtMostOnce == faults.newest = 0 => \A i \in Slots : again[i] = {}

\* The cursor never passes an event that a registered callback wanted and
\* did not get: every event stored after the registration, still in the
\* table and at or below g_current_event_id, was delivered.
NoneSkipped ==
  \A i \in Slots : \A e \in events :
    /\ Wants(i, e)
    /\ since[i] < e.id
    /\ e.id <= current
    => e.id \in seen[i]

\* "Be sure we have the polling setup and running to get callback when a
\* new event is created": a client whose nvm_add_event_notify returned a
\* callback id still has its callback in that slot, and polling is on.
Listening ==
  \A c \in Clients : \A i \in subs[c] : callbacks[i] # NoOne /\ isPolling

\* An event a registered callback wants is delivered, unless it is purged
\* or the callback removed first.
EventuallyDelivered ==
  \A i \in Slots : \A n \in EventIds :
    (\E e \in events : e.id = n /\ Wants(i, e) /\ since[i] < n)
      ~> (n \in seen[i] \/ n \notin Ids(events) \/ callbacks[i] = NoOne)

\* nvm_add_event_notify and nvm_remove_event_notify return.
CallsReturn == \A c \in Clients : (cpc[c] # "idle") ~> (cpc[c] = "idle")

\* Events arrive and calls return.
Served == EventuallyDelivered /\ CallsReturn
=============================================================================
