-------------------------- MODULE EventNotify_proofs --------------------------
(* Proofs about the event subscriptions, for any number of clients,         *)
(* pollers, slots and events.                                               *)
EXTENDS EventNotify, SetLemmas

\* Ids come from the AUTOINCREMENT counter: no row is above it, no two
\* rows share one.
IdsInv ==
  /\ \A e \in events : e.id <= lastId
  /\ \A e, f \in events : e.id = f.id => e = f

TypeInv == TypeOK /\ IdsInv

USE SlotsAssumption, TypesAssumption, NoOneAssumption, BoundAssumption, WritersAssumption

\* What the newest id is: in range, and above every row.
LEMMA MaxIdIsNewest ==
  ASSUME TypeOK
  PROVE  /\ MaxId \in 0..MaxEventId
         /\ \A e \in events : e.id <= MaxId
<1> DEFINE S == Ids(events) \cup {0}
<1>1. S \in SUBSET (0..MaxEventId) /\ S # {}
  BY DEF TypeOK, Event, EventIds, Ids
<1>2. Max(S) \in S /\ \A y \in S : Max(S) >= y
  BY <1>1, MaxIsGreatest
<1>3. \A e \in events : e.id \in S /\ e.id \in 0..MaxEventId
  BY <1>1 DEF Ids
<1> QED BY <1>1, <1>2, <1>3 DEF MaxId

\* The number of rows is within the bound on ids.
LEMMA RowCount ==
  ASSUME TypeInv
  PROVE  IsFiniteSet(events) /\ Cardinality(events) \in 0..MaxEventId
<1> DEFINE f == [e \in events |-> e.id]
<1>1. f \in [events -> 1..MaxEventId]
  BY DEF TypeInv, TypeOK, Event, EventIds
<1>2. \A x, y \in events : f[x] = f[y] => x = y
  BY DEF TypeInv, IdsInv
<1> QED BY <1>1, <1>2, NumberedSetIsBounded

\* The slot a client claims is a slot.
LEMMA FirstFreeSlot ==
  ASSUME FreeSlots # {}
  PROVE  Min(FreeSlots) \in Slots /\ callbacks[Min(FreeSlots)] = NoOne
<1>1. FreeSlots \in SUBSET Nat
  BY DEF FreeSlots
<1> QED BY <1>1, MinIsLeast DEF FreeSlots

\* Deliveries are event ids.
LEMMA DeliveredType ==
  ASSUME TypeOK, NEW p \in Pollers, NEW i \in Slots
  PROVE  Delivered(p, i) \in SUBSET EventIds
<1>1. batch[p] \in SUBSET Event
  BY DEF TypeOK
<1>2. \A e \in batch[p] : e.id \in EventIds
  BY <1>1 DEF Event
<1> QED BY <1>2 DEF Delivered, Ids

LEMMA TypeInvInit == Init => TypeInv
<1> SUFFICES ASSUME Init PROVE TypeInv
  OBVIOUS
<1>1. 0 \in 0..MaxEventId /\ 0 \in 0..MaxFaults /\ 0 \in 0..MaxMisreads
  OBVIOUS
<1>2. TypeOK
  BY <1>1 DEF Init, TypeOK
<1>3. IdsInv
  BY DEF Init, IdsInv
<1> QED BY <1>2, <1>3 DEF TypeInv

LEMMA TypeInvDb == TypeInv /\ DbStep => TypeInv'
<1> SUFFICES ASSUME TypeInv, DbStep PROVE TypeInv'
  OBVIOUS
<1> USE DEF TypeInv, TypeOK, IdsInv, Event, EventIds, history, notifyVars, clientVars, pollerVars
<1>1. CASE \E t \in Types : StoreEvent(t)
  BY <1>1 DEF StoreEvent
<1>2. CASE \E S \in SUBSET events : PurgeEvents(S)
  BY <1>2 DEF PurgeEvents
<1> QED BY <1>1, <1>2 DEF DbStep

LEMMA TypeInvClient == ASSUME NEW c \in Clients PROVE TypeInv /\ ClientStep(c) => TypeInv'
<1> SUFFICES ASSUME TypeInv, ClientStep(c) PROVE TypeInv'
  OBVIOUS
<1> USE DEF TypeInv, TypeOK, IdsInv, history, notifyVars, clientVars, pollerVars, dbVars
<1>1. CASE \E t \in Asked : AddBegin(c, t)
  BY <1>1 DEF AddBegin
<1>2. CASE \E i \in Slots : RemoveCallback(c, i)
  BY <1>2 DEF RemoveCallback
<1>3. CASE InitAlreadyPolling(c)
  BY <1>3 DEF InitAlreadyPolling
<1>4. CASE InitStartPolling(c)
  BY <1>4, MaxIdIsNewest DEF InitStartPolling
<1>5. CASE SpawnPoller(c)
  BY <1>5 DEF SpawnPoller
<1>6. CASE ClaimSlot(c)
  <2>1. Min(FreeSlots) \in Slots
    BY <1>6, FirstFreeSlot DEF ClaimSlot
  <2> QED BY <1>6, <2>1 DEF ClaimSlot
<1>7. CASE ClaimRefused(c)
  BY <1>7 DEF ClaimRefused
<1>8. CASE StopPolling(c)
  BY <1>8 DEF StopPolling
<1> QED BY <1>1, <1>2, <1>3, <1>4, <1>5, <1>6, <1>7, <1>8 DEF ClientStep, CallStep

LEMMA TypeInvPoller == ASSUME NEW p \in Pollers PROVE TypeInv /\ PollerStep(p) => TypeInv'
<1> SUFFICES ASSUME TypeInv, PollerStep(p) PROVE TypeInv'
  OBVIOUS
<1> USE DEF TypeInv, TypeOK, IdsInv, history, notifyVars, clientVars, pollerVars, dbVars
<1>1. CASE PollerQuit(p)
  BY <1>1 DEF PollerQuit
<1>2. CASE PollerWaited(p)
  BY <1>2 DEF PollerWaited
<1>3. CASE PollBegin(p)
  <2>1. MaxId \in 0..MaxEventId
    BY MaxIdIsNewest
  <2> QED BY <1>3, <2>1 DEF PollBegin
<1>4. CASE PollCount(p)
  BY <1>4, RowCount DEF PollCount
<1>5. CASE PollNothing(p)
  BY <1>5 DEF PollNothing, EndPass
<1>6. CASE PollSize(p)
  BY <1>6, RowCount DEF PollSize
<1>7. CASE PollFetch(p)
  <2>1. Newest(rows[p]) \in SUBSET events
    BY DEF Newest
  <2> QED BY <1>7, <2>1 DEF PollFetch
<1>8. CASE PollAbandon(p)
  BY <1>8 DEF PollAbandon, EndPass
<1>9. CASE PollDeliver(p)
  <2>1. \A i \in Slots : Delivered(p, i) \in SUBSET EventIds
    BY DeliveredType
  <2> QED BY <1>9, <2>1 DEF PollDeliver, EndPass
<1> QED BY <1>1, <1>2, <1>3, <1>4, <1>5, <1>6, <1>7, <1>8, <1>9 DEF PollerStep

\* The variables keep their types, however calls, passes, stores and purges
\* interleave; the id counter bounds the rows.
THEOREM TypeCorrect == Spec => []TypeOK
<1>1. TypeInv /\ [Next]_vars => TypeInv'
  <2>1. TypeInv /\ UNCHANGED vars => TypeInv'
    BY DEF TypeInv, TypeOK, IdsInv, vars, dbVars, notifyVars, clientVars, pollerVars, history
  <2> QED BY <2>1, TypeInvDb, TypeInvClient, TypeInvPoller DEF Next
<1>2. TypeInv => TypeOK
  BY DEF TypeInv
<1> QED BY TypeInvInit, <1>1, <1>2, PTL DEF Spec

-----------------------------------------------------------------------------
(* Nothing is skipped.  A pass works on a table nobody else changes: other  *)
(* processes wait for its transaction, and this part assumes that no thread *)
(* of the polling process writes.                                           *)

InPass(p) == ppc[p] \in {"compare", "size", "fetch", "deliver"}

\* A pass holds the lock, and what it has read is what the table holds.
PassInv ==
  \A p \in Pollers :
    /\ InPass(p) => lock = p
    /\ ppc[p] = "compare" => next[p] \in {0, MaxId}
    /\ ppc[p] \in {"size", "fetch", "deliver"} => next[p] = MaxId
    /\ ppc[p] \in {"fetch", "deliver"} => rows[p] = Cardinality(events)
    /\ ppc[p] = "deliver" => batch[p] = events

CursorInv == current <= lastId

SkipInv == TypeInv /\ PassInv /\ CursorInv /\ NoneSkipped

\* The newest id is not above the counter.
LEMMA MaxIdBelowCounter ==
  ASSUME TypeInv
  PROVE  MaxId <= lastId
<1> DEFINE S == Ids(events) \cup {0}
<1>1. S \in SUBSET (0..MaxEventId) /\ S # {}
  BY DEF TypeInv, TypeOK, Event, EventIds, Ids
<1>2. Max(S) \in S
  BY <1>1, MaxIsGreatest
<1>3. \A x \in S : x <= lastId
  BY DEF Ids, TypeInv, TypeOK, IdsInv
<1> QED BY <1>2, <1>3 DEF MaxId

\* As many newest rows as there are rows: all of them.
LEMMA NewestIsAll ==
  ASSUME TypeInv
  PROVE  Newest(Cardinality(events)) = events
<1>1. ASSUME NEW e \in events
      PROVE  Cardinality({f \in events : f.id > e.id}) < Cardinality(events)
  <2> DEFINE T == {f \in events : f.id > e.id}
  <2>1. IsFiniteSet(events) /\ Cardinality(events) \in Nat
    BY RowCount, FS_CardinalityType
  <2>2. T \in SUBSET events /\ e \notin T
    BY DEF TypeInv, TypeOK, Event, EventIds
  <2>3. IsFiniteSet(T) /\ Cardinality(T) <= Cardinality(events)
        /\ Cardinality(T) # Cardinality(events)
    BY <2>1, <2>2, FS_Subset
  <2> QED BY <2>1, <2>3, FS_CardinalityType
<1> QED BY <1>1 DEF Newest

\* Steps that leave the table and the passes alone keep PassInv.
LEMMA PassInvKept ==
  ASSUME PassInv, UNCHANGED <<events, lock, next, rows, batch>>,
         \A p \in Pollers : InPass(p)' => ppc'[p] = ppc[p]
  PROVE  PassInv'
<1>1. MaxId' = MaxId
  BY DEF MaxId, Ids
<1> QED BY <1>1 DEF PassInv, InPass

LEMMA SkipInvInit == Init => SkipInv
<1> SUFFICES ASSUME Init PROVE SkipInv
  OBVIOUS
<1>1. PassInv
  BY DEF Init, PassInv, InPass
<1>2. CursorInv
  BY DEF Init, CursorInv
<1>3. NoneSkipped
  BY DEF Init, NoneSkipped
<1> QED BY <1>1, <1>2, <1>3, TypeInvInit DEF SkipInv

\* With the lock free nobody is in a pass.
LEMMA NoPass == PassInv /\ LockFree => \A p \in Pollers : ~InPass(p)
BY DEF PassInv, LockFree

LEMMA SkipInvDb ==
  ASSUME ~LocalWriters, SkipInv, DbStep
  PROVE  PassInv' /\ CursorInv' /\ NoneSkipped'
<1>1. LockFree /\ UNCHANGED <<lock, current, callbacks, ppc, seen, since>>
  BY DEF DbStep, StoreEvent, PurgeEvents, CanWrite, notifyVars, pollerVars, history
<1>2. PassInv'
  BY <1>1, NoPass DEF SkipInv, PassInv, InPass
<1> USE DEF SkipInv, TypeInv, TypeOK
<1>3. CursorInv'
  BY <1>1 DEF DbStep, StoreEvent, PurgeEvents, CursorInv
<1>4. NoneSkipped'
  <2>1. CASE \E t \in Types : StoreEvent(t)
    <3>1. \A e \in events' \ events : e.id > current
      BY <2>1 DEF StoreEvent, CursorInv
    <3> QED BY <1>1, <3>1, <2>1 DEF NoneSkipped, Wants, StoreEvent, Event, EventIds
  <2>2. CASE \E S \in SUBSET events : PurgeEvents(S)
    BY <1>1, <2>2 DEF NoneSkipped, Wants, PurgeEvents
  <2> QED BY <2>1, <2>2 DEF DbStep
<1> QED BY <1>2, <1>3, <1>4

LEMMA SkipInvClient ==
  ASSUME NEW c \in Clients, SkipInv, ClientStep(c)
  PROVE  PassInv' /\ CursorInv' /\ NoneSkipped'
<1>1. UNCHANGED <<events, lastId, lock, next, rows, batch>>
  BY DEF ClientStep, CallStep, AddBegin, RemoveCallback, InitAlreadyPolling,
     InitStartPolling, SpawnPoller, ClaimSlot, ClaimRefused, StopPolling, dbVars, pollerVars
<1>2. \A p \in Pollers : InPass(p)' => ppc'[p] = ppc[p]
  BY DEF ClientStep, CallStep, AddBegin, RemoveCallback, InitAlreadyPolling,
     InitStartPolling, SpawnPoller, ClaimSlot, ClaimRefused, StopPolling, pollerVars,
     InPass, SkipInv, TypeInv, TypeOK
<1>3. PassInv'
  BY <1>1, <1>2, PassInvKept DEF SkipInv
<1>4. CASE InitStartPolling(c)
  <2>1. CursorInv'
    BY <1>4, MaxIdBelowCounter DEF InitStartPolling, CursorInv, SkipInv, dbVars
  <2>2. NoneSkipped'
    BY <1>4 DEF InitStartPolling, NoneSkipped, Wants, dbVars, SkipInv, TypeInv, TypeOK, Event
  <2> QED BY <1>3, <2>1, <2>2
<1>5. CASE ClaimSlot(c)
  <2>1. CursorInv'
    BY <1>5 DEF ClaimSlot, CursorInv, SkipInv, dbVars
  <2>2. NoneSkipped'
    BY <1>5, FirstFreeSlot
       DEF ClaimSlot, NoneSkipped, Wants, dbVars, SkipInv, TypeInv, TypeOK, IdsInv, Event, EventIds
  <2> QED BY <1>3, <2>1, <2>2
<1>6. CASE \E i \in Slots : RemoveCallback(c, i)
  <2>1. CursorInv'
    BY <1>6 DEF RemoveCallback, CursorInv, SkipInv, dbVars
  <2>2. NoneSkipped'
    <3>1. PICK i \in Slots : RemoveCallback(c, i)
      BY <1>6
    <3>2. callbacks'[i] = NoOne
          /\ \A j \in Slots \ {i} : callbacks'[j] = callbacks[j] /\ seen'[j] = seen[j]
                                     /\ since'[j] = since[j]
      BY <3>1 DEF RemoveCallback, SkipInv, TypeInv, TypeOK
    <3>3. events' = events /\ current' = current
      BY <3>1 DEF RemoveCallback, dbVars
    <3>4. \A e \in events : e.type \in Types
      BY DEF SkipInv, TypeInv, TypeOK, Event
    <3> QED BY <3>2, <3>3, <3>4 DEF NoneSkipped, Wants, SkipInv
  <2> QED BY <1>3, <2>1, <2>2
<1>7. CASE UNCHANGED <<callbacks, current, seen, since>>
  BY <1>1, <1>3, <1>7 DEF SkipInv, CursorInv, NoneSkipped, Wants
<1> QED BY <1>4, <1>5, <1>6, <1>7
     DEF ClientStep, CallStep, AddBegin, InitAlreadyPolling, SpawnPoller, ClaimRefused,
         StopPolling, notifyVars, history

LEMMA SkipInvPoller ==
  ASSUME NEW p \in Pollers, SkipInv, PollerStep(p)
  PROVE  PassInv' /\ CursorInv' /\ NoneSkipped'
<1> USE DEF SkipInv, TypeInv, TypeOK
<1>1. UNCHANGED <<events, lastId, callbacks, since>> /\ MaxId' = MaxId
  BY DEF PollerStep, PollerQuit, PollerWaited, PollBegin, PollCount, PollNothing, PollSize,
     PollFetch, PollAbandon, PollDeliver, EndPass, dbVars, notifyVars, history, MaxId, Ids
<1>2. CASE PollerQuit(p) \/ PollerWaited(p)
  <2>1. PassInv'
    BY <1>2, PassInvKept
       DEF PollerQuit, PollerWaited, InPass, dbVars
  <2>2. CursorInv' /\ NoneSkipped'
    BY <1>1, <1>2 DEF PollerQuit, PollerWaited, CursorInv, NoneSkipped, Wants, notifyVars, history
  <2> QED BY <2>1, <2>2
<1>3. CASE PollBegin(p)
  <2>1. \A q \in Pollers : ~InPass(q)
    BY <1>3, NoPass DEF PollBegin
  <2>2. PassInv'
    BY <1>1, <1>3, <2>1 DEF PollBegin, PassInv, InPass
  <2>3. CursorInv' /\ NoneSkipped'
    BY <1>1, <1>3 DEF PollBegin, CursorInv, NoneSkipped, Wants, notifyVars, history
  <2> QED BY <2>2, <2>3
<1>4. CASE PollCount(p) \/ PollSize(p) \/ PollFetch(p)
  <2>1. lock = p /\ \A q \in Pollers \ {p} : ~InPass(q)
    BY <1>4 DEF PollCount, PollSize, PollFetch, PassInv, InPass
  <2>2. PassInv'
    <3>1. CASE PollCount(p)
      <4>1. next[p] = MaxId
        BY <3>1 DEF PollCount, PassInv
      <4> QED BY <1>1, <2>1, <3>1, <4>1 DEF PollCount, PassInv, InPass
    <3>2. CASE PollSize(p)
      BY <1>1, <2>1, <3>2 DEF PollSize, PassInv, InPass
    <3>3. CASE PollFetch(p)
      <4>1. batch'[p] = events
        BY <3>3, NewestIsAll DEF PollFetch, PassInv
      <4> QED BY <1>1, <2>1, <3>3, <4>1 DEF PollFetch, PassInv, InPass
    <3> QED BY <1>4, <3>1, <3>2, <3>3
  <2>3. CursorInv' /\ NoneSkipped'
    BY <1>1, <1>4 DEF PollCount, PollSize, PollFetch, CursorInv, NoneSkipped, Wants, notifyVars, history
  <2> QED BY <2>2, <2>3
<1>5. CASE PollNothing(p) \/ PollAbandon(p) \/ PollDeliver(p)
  <2>1. \A q \in Pollers \ {p} : ~InPass(q)
    BY <1>5 DEF PollNothing, PollAbandon, PollDeliver, PassInv, InPass
  <2>2. PassInv'
    BY <1>1, <1>5, <2>1 DEF PollNothing, PollAbandon, PollDeliver, EndPass, PassInv, InPass
  <2>3. CursorInv'
    BY <1>1, <1>5, MaxIdBelowCounter
       DEF PollNothing, PollAbandon, PollDeliver, CursorInv, PassInv, notifyVars
  <2>4. NoneSkipped'
    <3>1. CASE PollNothing(p) \/ PollAbandon(p)
      BY <1>1, <3>1 DEF PollNothing, PollAbandon, NoneSkipped, Wants, notifyVars, history, Event, EventIds
    <3>2. CASE PollDeliver(p)
      <4>1. batch[p] = events
        BY <3>2 DEF PollDeliver, PassInv
      <4> SUFFICES ASSUME NEW i \in Slots, NEW e \in events, Wants(i, e), since[i] < e.id
                   PROVE  e.id \in seen'[i]
        BY <1>1 DEF NoneSkipped, Wants
      <4>2. CASE e.id <= current
        BY <3>2, <4>2 DEF PollDeliver, NoneSkipped
      <4>3. CASE e.id > current
        BY <3>2, <4>1, <4>3 DEF PollDeliver, Delivered, Ids
      <4> QED BY <4>2, <4>3 DEF Event, EventIds
    <3> QED BY <1>5, <3>1, <3>2
  <2> QED BY <2>2, <2>3, <2>4
<1> QED BY <1>2, <1>3, <1>4, <1>5 DEF PollerStep

\* Every step keeps SkipInv.
LEMMA SkipInvNext ==
  ASSUME ~LocalWriters, SkipInv, [Next]_vars
  PROVE  SkipInv'
<1>1. TypeInv'
  <2>1. CASE UNCHANGED vars
    BY <2>1 DEF SkipInv, TypeInv, TypeOK, IdsInv, vars, dbVars, notifyVars, clientVars,
       pollerVars, history
  <2> QED BY <2>1, TypeInvDb, TypeInvClient, TypeInvPoller DEF Next, SkipInv
<1>2. PassInv' /\ CursorInv' /\ NoneSkipped'
  <2>1. CASE UNCHANGED vars
    BY <2>1, PassInvKept DEF SkipInv, CursorInv, NoneSkipped, Wants, InPass, vars, dbVars,
       notifyVars, clientVars, pollerVars, history
  <2> QED BY <2>1, SkipInvDb, SkipInvClient, SkipInvPoller DEF Next
<1> QED BY <1>1, <1>2 DEF SkipInv

\* Whatever fails in a pass and however many pollers share the cursor, it
\* never passes an event that a registered callback wants and has not had,
\* as long as no thread of the polling process writes to the event table.
THEOREM NothingSkipped ==
  ASSUME ~LocalWriters
  PROVE  Spec => []NoneSkipped
<1>1. SkipInv /\ [Next]_vars => SkipInv'
  BY SkipInvNext
<1>2. SkipInv => NoneSkipped
  BY DEF SkipInv
<1> QED BY SkipInvInit, <1>1, <1>2, PTL DEF Spec

-----------------------------------------------------------------------------
(* Nothing is delivered twice until a read of the newest id fails and puts  *)
(* the cursor back to 0.                                                    *)

\* What lies above the cursor has not been delivered.
Undelivered ==
  \A i \in Slots : \A e \in events : e.id > current => e.id \notin seen[i]

SeenInv == \A i \in Slots : \A n \in seen[i] : n <= lastId

ReadInv == \A p \in Pollers : ppc[p] = "compare" => next[p] = MaxId

NoneTwice == \A i \in Slots : again[i] = {}

OnceInv == SkipInv /\ ReadInv /\ SeenInv /\ Undelivered /\ NoneTwice

LEMMA OnceInvDb ==
  ASSUME ~LocalWriters, OnceInv, DbStep
  PROVE  ReadInv' /\ SeenInv' /\ Undelivered' /\ NoneTwice'
<1>1. LockFree /\ UNCHANGED <<lock, current, ppc, seen, again>>
  BY DEF DbStep, StoreEvent, PurgeEvents, CanWrite, notifyVars, pollerVars, history
<1>2. ReadInv'
  BY <1>1, NoPass DEF OnceInv, SkipInv, ReadInv, InPass
<1> USE DEF OnceInv, SkipInv, TypeInv, TypeOK
<1>3. SeenInv'
  BY <1>1 DEF DbStep, StoreEvent, PurgeEvents, SeenInv, EventIds
<1>4. Undelivered'
  <2>1. CASE \E t \in Types : StoreEvent(t)
    <3>1. \A e \in events' \ events : e.id = lastId + 1
      BY <2>1 DEF StoreEvent
    <3>2. \A i \in Slots : lastId + 1 \notin seen[i]
      BY DEF SeenInv
    <3> QED BY <1>1, <3>1, <3>2 DEF Undelivered
  <2>2. CASE \E S \in SUBSET events : PurgeEvents(S)
    BY <1>1, <2>2 DEF Undelivered, PurgeEvents
  <2> QED BY <2>1, <2>2 DEF DbStep
<1> QED BY <1>1, <1>2, <1>3, <1>4 DEF NoneTwice

LEMMA OnceInvClient ==
  ASSUME NEW c \in Clients, OnceInv, ClientStep(c)
  PROVE  ReadInv' /\ SeenInv' /\ Undelivered' /\ NoneTwice'
<1> USE DEF OnceInv, SkipInv, TypeInv, TypeOK
<1>1. UNCHANGED <<events, lastId, next>> /\ MaxId' = MaxId
  BY DEF ClientStep, CallStep, AddBegin, RemoveCallback, InitAlreadyPolling, InitStartPolling,
     SpawnPoller, ClaimSlot, ClaimRefused, StopPolling, dbVars, pollerVars, MaxId, Ids
<1>2. \A p \in Pollers : ppc'[p] = "compare" => ppc[p] = "compare"
  BY DEF ClientStep, CallStep, AddBegin, RemoveCallback, InitAlreadyPolling, InitStartPolling,
     SpawnPoller, ClaimSlot, ClaimRefused, StopPolling, pollerVars
<1>3. ReadInv'
  BY <1>1, <1>2 DEF ReadInv
<1>4. CASE InitStartPolling(c)
  <2>1. \A i \in Slots : seen'[i] = {} /\ again'[i] = {}
    BY <1>4 DEF InitStartPolling
  <2> QED BY <1>3, <2>1 DEF SeenInv, Undelivered, NoneTwice
<1>5. CASE \E i \in Slots : RemoveCallback(c, i)
  <2>1. \A j \in Slots : seen'[j] \subseteq seen[j] /\ again'[j] \subseteq again[j]
    BY <1>5 DEF RemoveCallback
  <2>2. current' = current
    BY <1>5 DEF RemoveCallback
  <2> QED BY <1>1, <1>3, <2>1, <2>2 DEF SeenInv, Undelivered, NoneTwice
<1>6. CASE UNCHANGED <<current, seen, again>>
  BY <1>1, <1>3, <1>6 DEF SeenInv, Undelivered, NoneTwice
<1> QED BY <1>4, <1>5, <1>6
     DEF ClientStep, CallStep, AddBegin, InitAlreadyPolling, SpawnPoller, ClaimSlot, ClaimRefused,
         StopPolling, notifyVars, history

\* A batch that is the table delivers to a callback what it has not seen.
LEMMA DeliveredNotSeen ==
  ASSUME NEW p \in Pollers, batch[p] = events, Undelivered
  PROVE  \A i \in Slots : Delivered(p, i) \cap seen[i] = {}
<1> SUFFICES ASSUME NEW i \in Slots, NEW n \in Delivered(p, i)
             PROVE  n \notin seen[i]
  OBVIOUS
<1>1. PICK e \in events : e.id = n /\ e.id > current
  BY DEF Delivered, Ids
<1> QED BY <1>1 DEF Undelivered

LEMMA OnceInvPoller ==
  ASSUME faults'.newest = 0, NEW p \in Pollers, OnceInv, PollerStep(p)
  PROVE  ReadInv' /\ SeenInv' /\ Undelivered' /\ NoneTwice'
<1> USE DEF OnceInv, SkipInv, TypeInv, TypeOK
<1>1. UNCHANGED <<events, lastId>> /\ MaxId' = MaxId
  BY DEF PollerStep, PollerQuit, PollerWaited, PollBegin, PollCount, PollNothing, PollSize,
     PollFetch, PollAbandon, PollDeliver, EndPass, dbVars, MaxId, Ids
<1>2. ~(faults'.newest = faults.newest + 1)
  OBVIOUS
<1>3. ReadInv'
  BY <1>1, <1>2 DEF PollerStep, PollerQuit, PollerWaited, PollBegin, PollCount, PollNothing,
     PollSize, PollFetch, PollAbandon, PollDeliver, EndPass, ReadInv
<1>4. CASE PollNothing(p)
  <2>1. current' = MaxId /\ UNCHANGED <<seen, again>>
    BY <1>4 DEF PollNothing, ReadInv, history
  <2> QED BY <1>1, <1>3, <2>1, MaxIdIsNewest DEF SeenInv, Undelivered, NoneTwice, Event, EventIds
<1>5. CASE PollDeliver(p)
  <2>1. current' = MaxId /\ batch[p] = events
    BY <1>5 DEF PollDeliver, PassInv
  <2>2. \A i \in Slots : Delivered(p, i) \cap seen[i] = {}
    BY <2>1, DeliveredNotSeen
  <2>3. \A i \in Slots : again'[i] = again[i] /\ seen'[i] = seen[i] \cup Delivered(p, i)
    BY <1>5, <2>2 DEF PollDeliver
  <2>4. NoneTwice'
    BY <2>3 DEF NoneTwice
  <2>5. \A i \in Slots : \A n \in Delivered(p, i) : n <= lastId
    BY <2>1 DEF Delivered, Ids, IdsInv
  <2>6. SeenInv'
    BY <1>1, <2>3, <2>5 DEF SeenInv
  <2>7. Undelivered'
    BY <1>1, <2>1, MaxIdIsNewest DEF Undelivered, Event, EventIds
  <2> QED BY <1>3, <2>4, <2>6, <2>7
<1>6. CASE UNCHANGED <<current, seen, again>>
  BY <1>1, <1>3, <1>6 DEF SeenInv, Undelivered, NoneTwice
<1> QED BY <1>4, <1>5, <1>6
     DEF PollerStep, PollerQuit, PollerWaited, PollBegin, PollCount, PollSize, PollFetch,
         PollAbandon, notifyVars, history

UntilMisread == SkipInv /\ (faults.newest = 0 => OnceInv)

\* A read that failed is not forgotten.
LEMMA MisreadsKept ==
  ASSUME SkipInv, Next, faults'.newest = 0
  PROVE  faults.newest = 0
<1> USE DEF SkipInv, TypeInv, TypeOK
<1>1. CASE DbStep
  BY <1>1 DEF DbStep, StoreEvent, PurgeEvents
<1>2. CASE \E c \in Clients : ClientStep(c)
  BY <1>2 DEF ClientStep, CallStep, AddBegin, RemoveCallback, InitAlreadyPolling, InitStartPolling,
     SpawnPoller, ClaimSlot, ClaimRefused, StopPolling
<1>3. CASE \E p \in Pollers : PollerStep(p)
  BY <1>3 DEF PollerStep, PollerQuit, PollerWaited, PollBegin, PollCount, PollNothing, PollSize,
     PollFetch, PollAbandon, PollDeliver, EndPass
<1> QED BY <1>1, <1>2, <1>3 DEF Next

\* No callback gets an event twice, however many clients, pollers, stores
\* and purges there are, as long as no read of the newest id has failed and
\* no thread of the polling process writes to the event table.
THEOREM DeliveredAtMostOnce ==
  ASSUME ~LocalWriters
  PROVE  Spec => []AtMostOnce
<1>1. Init => UntilMisread
  <2> SUFFICES ASSUME Init PROVE UntilMisread
    OBVIOUS
  <2>1. ReadInv /\ SeenInv /\ Undelivered /\ NoneTwice
    BY DEF Init, ReadInv, SeenInv, Undelivered, NoneTwice
  <2> QED BY <2>1, SkipInvInit DEF OnceInv, UntilMisread
<1>2. UntilMisread /\ [Next]_vars => UntilMisread'
  <2> SUFFICES ASSUME UntilMisread, [Next]_vars PROVE UntilMisread'
    OBVIOUS
  <2>1. SkipInv'
    BY SkipInvNext DEF UntilMisread
  <2>2. ASSUME faults'.newest = 0
        PROVE  ReadInv' /\ SeenInv' /\ Undelivered' /\ NoneTwice'
    <3>1. CASE UNCHANGED vars
      <4>1. MaxId' = MaxId
        BY <3>1 DEF vars, dbVars, MaxId, Ids
      <4> QED BY <2>2, <3>1, <4>1 DEF UntilMisread, OnceInv, ReadInv, SeenInv, Undelivered,
               NoneTwice, vars, dbVars, notifyVars, pollerVars, history
    <3>2. CASE Next
      <4>1. OnceInv
        BY <2>2, <3>2, MisreadsKept DEF UntilMisread
      <4> QED BY <2>2, <3>2, <4>1, OnceInvDb, OnceInvClient, OnceInvPoller DEF Next
    <3> QED BY <3>1, <3>2
  <2> QED BY <2>1, <2>2 DEF UntilMisread, OnceInv
<1>3. UntilMisread => AtMostOnce
  BY DEF UntilMisread, OnceInv, AtMostOnce, NoneTwice
<1> QED BY <1>1, <1>2, <1>3, PTL DEF Spec

-----------------------------------------------------------------------------
(* A callback handed out stays in place while one thread uses the library.  *)
(* With two the run notify_lost shows how it is lost.                       *)

OneClient == \A c, d \in Clients : c = d

\* The client's callback ids are the slots in use; polling is on from the
\* registration that starts it to the removal of the last of them.
RegisteredInv ==
  \A c \in Clients :
    /\ \A i \in Slots : i \in subs[c] <=> callbacks[i] # NoOne
    /\ subs[c] # {} => isPolling
    /\ cpc[c] \in {"spawn", "claim"} => isPolling
    /\ cpc[c] = "stop" => subs[c] = {}

LEMMA RegisteredClient ==
  ASSUME OneClient, NEW c \in Clients, TypeOK, RegisteredInv, ClientStep(c)
  PROVE  RegisteredInv'
<1> SUFFICES /\ \A i \in Slots : i \in subs'[c] <=> callbacks'[i] # NoOne
             /\ subs'[c] # {} => isPolling'
             /\ cpc'[c] \in {"spawn", "claim"} => isPolling'
             /\ cpc'[c] = "stop" => subs'[c] = {}
  BY DEF OneClient, RegisteredInv
<1> USE DEF TypeOK, notifyVars, clientVars
<1>1. CASE \E t \in Asked : AddBegin(c, t)
  BY <1>1 DEF AddBegin, RegisteredInv
<1>2. CASE \E i \in Slots : RemoveCallback(c, i)
  <2>1. PICK i \in Slots : RemoveCallback(c, i)
    BY <1>2
  <2>2. /\ subs'[c] = subs[c] \ {i} /\ callbacks'[i] = NoOne
        /\ \A j \in Slots \ {i} : callbacks'[j] = callbacks[j]
        /\ isPolling' = isPolling /\ isPolling
    BY <2>1 DEF RemoveCallback, RegisteredInv
  <2>3. cpc'[c] = "stop" => \A j \in Slots \ {i} : callbacks[j] = NoOne
    BY <2>1 DEF RemoveCallback
  <2>4. cpc'[c] \in {"idle", "stop"}
    BY <2>1 DEF RemoveCallback
  <2> QED BY <2>2, <2>3, <2>4 DEF RegisteredInv
<1>3. CASE InitAlreadyPolling(c)
  BY <1>3 DEF InitAlreadyPolling, RegisteredInv
<1>4. CASE InitStartPolling(c)
  BY <1>4 DEF InitStartPolling, RegisteredInv
<1>5. CASE SpawnPoller(c)
  BY <1>5 DEF SpawnPoller, RegisteredInv
<1>6. CASE ClaimSlot(c)
  <2>1. ctype[c] # NoOne
    BY NoOneAssumption
  <2> QED BY <1>6, <2>1, FirstFreeSlot DEF ClaimSlot, RegisteredInv
<1>7. CASE ClaimRefused(c)
  BY <1>7 DEF ClaimRefused, RegisteredInv
<1>8. CASE StopPolling(c)
  BY <1>8 DEF StopPolling, RegisteredInv
<1> QED BY <1>1, <1>2, <1>3, <1>4, <1>5, <1>6, <1>7, <1>8 DEF ClientStep, CallStep

\* A client that was given a callback id keeps its callback, with polling on,
\* until it gives the id back, however many pollers run and whatever they
\* and the event table do, as long as one thread adds and removes callbacks.
THEOREM CallbackStays ==
  ASSUME OneClient
  PROVE  Spec => []Listening
<1>1. Init => RegisteredInv
  BY DEF Init, RegisteredInv
<1>2. TypeOK /\ RegisteredInv /\ [Next]_vars => RegisteredInv'
  <2> SUFFICES ASSUME TypeOK, RegisteredInv, [Next]_vars PROVE RegisteredInv'
    OBVIOUS
  <2>1. CASE UNCHANGED <<callbacks, isPolling, subs, cpc>>
    BY <2>1 DEF RegisteredInv
  <2>2. CASE DbStep
    BY <2>1, <2>2 DEF DbStep, StoreEvent, PurgeEvents, notifyVars, clientVars
  <2>3. CASE \E p \in Pollers : PollerStep(p)
    BY <2>1, <2>3 DEF PollerStep, PollerQuit, PollerWaited, PollBegin, PollCount, PollNothing,
       PollSize, PollFetch, PollAbandon, PollDeliver, notifyVars, clientVars
  <2>4. CASE UNCHANGED vars
    BY <2>1, <2>4 DEF vars, notifyVars, clientVars
  <2> QED BY <2>2, <2>3, <2>4, RegisteredClient DEF Next
<1>3. TypeOK /\ RegisteredInv => Listening
  BY DEF RegisteredInv, Listening, TypeOK
<1> QED BY TypeCorrect, <1>1, <1>2, <1>3, PTL DEF Spec
=============================================================================
