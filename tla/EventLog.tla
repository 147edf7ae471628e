------------------------------- MODULE EventLog -------------------------------
(***************************************************************************)
(* The event log (src/src/common/persistence/event.c): store_event with    *)
(* the roll of the table, acknowledge_events and the purge of              *)
(* process_events_matching_filter.  Callers are threads or processes that  *)
(* share the database; every SQL statement is one step and nothing holds   *)
(* them together.  Filters are on the event code.                          *)
(***************************************************************************)
EXTENDS Integers, FiniteSets, FiniteSetsExt

CONSTANTS
  Callers,      \* threads and processes that use the log
  Codes,        \* event codes
  NoCode,       \* no filter: the caller is not acknowledging or purging
  AlarmCodes,   \* codes stored with action required
  LogMax,       \* EVENT_LOG_MAX
  TrimPercent,  \* EVENT_LOG_TRIM_PERCENT
  MaxEventId,   \* bound on the events ever stored
  MaxCalls,     \* bound on the acknowledgements and purges
  MaxFaults     \* bound on the statements that fail

ASSUME CodesAssumption == AlarmCodes \subseteq Codes /\ NoCode \notin Codes
ASSUME NumbersAssumption == {LogMax, TrimPercent, MaxEventId, MaxCalls, MaxFaults} \subseteq Nat
ASSUME CallersAssumption == IsFiniteSet(Callers)
\* A roll takes at least one row (EVENT_LOG_MAX is 10000, the share 10 %).
ASSUME RollAssumption == TrimPercent * LogMax >= 100

VARIABLES
  events,   \* rows: [id, code, ar]
  lastId,   \* the AUTOINCREMENT counter
  pc,       \* the statement each caller executes next
  code,     \* its filter
  size,     \* event_count / db_event_count, as read
  room,     \* acknowledge_events: the first count, the size of the array
  batch,    \* ids it fetched and has not dealt with
  row,      \* acknowledge_events: the row read, to be written back
  rc,       \* acknowledge_events: rc; purge: the number of events counted
  wanted,   \* history: events that matched when the call began
  gone,     \* history: ids this call deleted
  alone,    \* history: nobody else wrote to the log during this call
  alarmed,  \* history: an event with action required was ever stored
  calls, faults

callVars == <<pc, code, size, room, batch, row, rc>>
history  == <<wanted, gone, alone, alarmed>>
vars == <<events, lastId, callVars, history, calls, faults>>

NoRow == [id |-> 0, code |-> NoCode, ar |-> FALSE]

Init ==
  /\ events = {} /\ lastId = 0
  /\ pc = [c \in Callers |-> "idle"]
  /\ code = [c \in Callers |-> NoCode]
  /\ size = [c \in Callers |-> 0]
  /\ room = [c \in Callers |-> 0]
  /\ batch = [c \in Callers |-> {}]
  /\ row = [c \in Callers |-> NoRow]
  /\ rc = [c \in Callers |-> 0]
  /\ wanted = [c \in Callers |-> {}]
  /\ gone = [c \in Callers |-> {}]
  /\ alone = [c \in Callers |-> TRUE]
  /\ alarmed = FALSE
  /\ calls = 0 /\ faults = 0

-----------------------------------------------------------------------------
(* Shared pieces *)

Step(c, from, to) == pc[c] = from /\ pc' = [pc EXCEPT ![c] = to]

CanFail == faults < MaxFaults
Fail == CanFail /\ faults' = faults + 1
NoFault == UNCHANGED faults

Ids(S) == {e.id : e \in S}

\* db_get_events: the newest n rows (ORDER BY id DESC).
Newest(n) == {e \in events : Cardinality({f \in events : f.id > e.id}) < n}

\* event_matches_filter, on the code.
Matching(S, k) == {e \in S : e.code = k}

InCall(c) == pc[c] \notin {"idle", "roll", "trim", "returned"}

\* Caller c writes to the log: what others are doing is disturbed.
Writes(c) == alone' = [d \in Callers |-> alone[d] /\ (d = c \/ ~InCall(d))]

\* The call is over; what it asked for and returned stays readable.
Return(c) == /\ pc' = [pc EXCEPT ![c] = "returned"]
             /\ batch' = [batch EXCEPT ![c] = {}]
             /\ row' = [row EXCEPT ![c] = NoRow]

Forget(c) ==
  /\ Step(c, "returned", "idle")
  /\ code' = [code EXCEPT ![c] = NoCode]
  /\ size' = [size EXCEPT ![c] = 0]
  /\ room' = [room EXCEPT ![c] = 0]
  /\ rc' = [rc EXCEPT ![c] = 0]
  /\ wanted' = [wanted EXCEPT ![c] = {}]
  /\ gone' = [gone EXCEPT ![c] = {}]
  /\ alone' = [alone EXCEPT ![c] = TRUE]
  /\ UNCHANGED <<events, lastId, batch, row, alarmed, calls, faults>>

-----------------------------------------------------------------------------
(* store_event *)

Insert(c, k) ==
  /\ Step(c, "idle", "roll")
  /\ lastId < MaxEventId
  /\ lastId' = lastId + 1
  /\ events' = events \cup {[id |-> lastId + 1, code |-> k, ar |-> k \in AlarmCodes]}
  /\ alarmed' = (alarmed \/ k \in AlarmCodes)
  /\ Writes(c)
  /\ UNCHANGED <<code, size, room, batch, row, rc, wanted, gone, calls, faults>>

\* Mutant of Full: the table may reach the maximum.
FullAbove(n) == n > LogMax

Full(n) == n >= LogMax

\* table_row_count; a failed read leaves the count 0.
RollCount(c) ==
  /\ \/ NoFault /\ IF Full(Cardinality(events)) THEN Step(c, "roll", "trim") ELSE Step(c, "roll", "idle")
     \/ Fail /\ Step(c, "roll", "idle")
  /\ UNCHANGED <<events, lastId, code, size, room, batch, row, rc, history, calls>>

TrimCount == (TrimPercent * LogMax) \div 100

\* Mutant of Rolled: alarms are rolled out too.
RolledAny == {e \in events : Cardinality({f \in events : f.id < e.id}) < TrimCount}

\* Mutant of Rolled: ORDER BY id DESC.
RolledNewest ==
  LET plain == {e \in events : ~e.ar}
  IN  {e \in plain : Cardinality({f \in plain : f.id > e.id}) < TrimCount}

\* The oldest TrimCount rows that need no action.
Rolled ==
  LET plain == {e \in events : ~e.ar}
  IN  {e \in plain : Cardinality({f \in plain : f.id < e.id}) < TrimCount}

Trim(c) ==
  /\ Step(c, "trim", "idle")
  /\ \/ events' = events \ Rolled /\ NoFault
     \/ UNCHANGED events /\ Fail
  /\ Writes(c)
  /\ UNCHANGED <<lastId, code, size, room, batch, row, rc, wanted, gone, alarmed, calls>>

-----------------------------------------------------------------------------
(* acknowledge_events *)

Begin(c, k, to) ==
  /\ Step(c, "idle", to)
  /\ calls < MaxCalls
  /\ calls' = calls + 1
  /\ code' = [code EXCEPT ![c] = k]
  /\ rc' = [rc EXCEPT ![c] = 0]
  /\ wanted' = [wanted EXCEPT ![c] = Matching(events, k)]
  /\ UNCHANGED <<events, lastId, size, room, batch, row, gone, alone, alarmed, faults>>

AckBegin(c, k) == Begin(c, k, "ackSize")

\* process_events_matching_filter sizes its array with one statement and
\* fills it with another, here to count the matches ...
AckSize(c) ==
  /\ pc[c] \in {"ackSize", "ackSizeAgain"}
  /\ \/ /\ NoFault
        /\ events # {}
        /\ size' = [size EXCEPT ![c] = Cardinality(events)]
        /\ pc' = [pc EXCEPT ![c] = IF pc[c] = "ackSize" THEN "ackCount" ELSE "ackFetch"]
        /\ UNCHANGED <<batch, row>>
     \/ events = {} /\ NoFault /\ Return(c) /\ UNCHANGED size
     \/ Fail /\ Return(c) /\ UNCHANGED size
  /\ UNCHANGED <<events, lastId, code, room, rc, history, calls>>

AckCount(c) ==
  /\ pc[c] = "ackCount"
  /\ room' = [room EXCEPT ![c] = Cardinality(Matching(Newest(size[c]), code[c]))]
  /\ IF room'[c] > 0 THEN pc' = [pc EXCEPT ![c] = "ackSizeAgain"] /\ UNCHANGED <<batch, row>>
                     ELSE Return(c)
  /\ UNCHANGED <<events, lastId, code, size, rc, history, calls, faults>>

\* ... and then to copy them; more matches than before do not fit, and
\* nothing is acknowledged.
AckFetch(c) ==
  /\ pc[c] = "ackFetch"
  /\ LET found == Matching(Newest(size[c]), code[c])
     IN  IF found # {} /\ Cardinality(found) <= room[c]
         THEN /\ batch' = [batch EXCEPT ![c] = Ids(found)]
              /\ pc' = [pc EXCEPT ![c] = "ackRead"]
              /\ UNCHANGED row
         ELSE Return(c)
  /\ UNCHANGED <<events, lastId, code, size, room, rc, history, calls, faults>>

AckNext(c, left) == IF left = {} THEN Return(c)
                    ELSE /\ batch' = [batch EXCEPT ![c] = left]
                         /\ pc' = [pc EXCEPT ![c] = "ackRead"]
                         /\ row' = [row EXCEPT ![c] = NoRow]

\* Each event is read again, newest first; one that is gone sets rc, which
\* the next event overwrites.
AckRead(c) ==
  /\ pc[c] = "ackRead"
  /\ LET id == Max(batch[c])
         now == {e \in events : e.id = id}
     IN  IF now = {}
         THEN /\ rc' = [rc EXCEPT ![c] = -1]
              /\ AckNext(c, batch[c] \ {id})
         ELSE /\ rc' = [rc EXCEPT ![c] = 0]
              /\ \E e \in now :
                   IF e.ar THEN /\ row' = [row EXCEPT ![c] = e]
                                /\ pc' = [pc EXCEPT ![c] = "ackWrite"]
                                /\ UNCHANGED batch
                           ELSE AckNext(c, batch[c] \ {id})
  /\ UNCHANGED <<events, lastId, code, size, room, history, calls, faults>>

\* Mutant of AckWrite: the row is written as it was read.
AckWriteUnchanged(c) ==
  /\ pc[c] = "ackWrite"
  /\ AckNext(c, batch[c] \ {row[c].id})
  /\ UNCHANGED <<events, lastId, code, size, room, rc, history, calls, faults>>

\* The row is written back, if it is still there, with action_required 0.
AckWrite(c) ==
  /\ pc[c] = "ackWrite"
  /\ LET same == {e \in events : e.id = row[c].id}
     IN  \/ /\ events' = (events \ same) \cup {[e EXCEPT !.ar = FALSE] : e \in same}
            /\ UNCHANGED rc /\ NoFault
         \/ /\ UNCHANGED events
            /\ rc' = [rc EXCEPT ![c] = -1] /\ Fail
  /\ AckNext(c, batch[c] \ {row[c].id})
  /\ Writes(c)
  /\ UNCHANGED <<lastId, code, size, room, wanted, gone, alarmed, calls>>

-----------------------------------------------------------------------------
(* nvm_purge_events *)

PurgeBegin(c, k) == Begin(c, k, "purgeSize")

PurgeSize(c) ==
  /\ pc[c] = "purgeSize"
  /\ \/ /\ events # {} /\ NoFault
        /\ size' = [size EXCEPT ![c] = Cardinality(events)]
        /\ pc' = [pc EXCEPT ![c] = "purgeFetch"]
        /\ UNCHANGED <<batch, row, rc>>
     \/ events = {} /\ NoFault /\ Return(c) /\ UNCHANGED <<size, rc>>
     \/ Fail /\ Return(c) /\ rc' = [rc EXCEPT ![c] = -1] /\ UNCHANGED size
  /\ UNCHANGED <<events, lastId, code, room, history, calls>>

\* Mutant of PurgeFetch: rows that do not match are counted too.
PurgeFetchCountsRows(c) ==
  /\ pc[c] = "purgeFetch"
  /\ LET found == Ids(Matching(Newest(size[c]), code[c]))
     IN  /\ rc' = [rc EXCEPT ![c] = Cardinality(Newest(size[c])) - Cardinality(found)]
         /\ IF found = {} THEN Return(c)
            ELSE /\ batch' = [batch EXCEPT ![c] = found]
                 /\ pc' = [pc EXCEPT ![c] = "purgeDelete"]
                 /\ UNCHANGED row
  /\ UNCHANGED <<events, lastId, code, size, room, history, calls, faults>>

PurgeFetch(c) ==
  /\ pc[c] = "purgeFetch"
  /\ LET found == Ids(Matching(Newest(size[c]), code[c]))
     IN  IF found = {} THEN Return(c)
         ELSE /\ batch' = [batch EXCEPT ![c] = found]
              /\ pc' = [pc EXCEPT ![c] = "purgeDelete"]
              /\ UNCHANGED row
  /\ UNCHANGED <<events, lastId, code, size, room, rc, history, calls, faults>>

\* Mutant of PurgeDelete: the last of the batch is left.
PurgeDeleteAllButLast(c) ==
  /\ pc[c] = "purgeDelete"
  /\ LET id == Max(batch[c])
     IN  /\ events' = events \ {e \in events : e.id = id}
         /\ gone' = [gone EXCEPT ![c] = @ \cup (Ids(events) \ Ids(events'))]
         /\ rc' = [rc EXCEPT ![c] = @ + 1]
         /\ IF Cardinality(batch[c]) <= 2 THEN Return(c)
            ELSE batch' = [batch EXCEPT ![c] = @ \ {id}] /\ UNCHANGED <<pc, row>>
  /\ Writes(c)
  /\ UNCHANGED <<lastId, code, size, room, wanted, alarmed, calls, faults>>

\* Each match is counted and deleted, newest first; a delete that finds no
\* row succeeds.
PurgeDelete(c) ==
  /\ pc[c] = "purgeDelete"
  /\ LET id == Max(batch[c])
     IN  /\ \/ events' = events \ {e \in events : e.id = id} /\ NoFault
            \/ UNCHANGED events /\ Fail
         /\ gone' = [gone EXCEPT ![c] = @ \cup (Ids(events) \ Ids(events'))]
         /\ rc' = [rc EXCEPT ![c] = @ + 1]
         /\ IF batch[c] = {id} THEN Return(c)
            ELSE batch' = [batch EXCEPT ![c] = @ \ {id}] /\ UNCHANGED <<pc, row>>
  /\ Writes(c)
  /\ UNCHANGED <<lastId, code, size, room, wanted, alarmed, calls>>

\* Nobody uses the log: a call that cannot go on is a deadlock all the same.
Rest == (\A c \in Callers : pc[c] = "idle") /\ UNCHANGED vars

Next ==
  Rest \/ \E c \in Callers :
    \/ \E k \in Codes : Insert(c, k) \/ AckBegin(c, k) \/ PurgeBegin(c, k)
    \/ RollCount(c) \/ Trim(c)
    \/ AckSize(c) \/ AckCount(c) \/ AckFetch(c) \/ AckRead(c) \/ AckWrite(c)
    \/ PurgeSize(c) \/ PurgeFetch(c) \/ PurgeDelete(c)
    \/ Forget(c)

Spec == Init /\ [][Next]_vars

-----------------------------------------------------------------------------
(* Properties *)

EventRow == [id : 1..MaxEventId, code : Codes, ar : BOOLEAN]

\* The type invariant: rows are events whose ids are unique and at most the
\* counter, and a call that works on rows has rows to work on.
TypeOK ==
  /\ events \subseteq EventRow
  /\ lastId \in 0..MaxEventId
  /\ \A e, f \in events : e.id = f.id => e = f
  /\ \A e \in events : e.id <= lastId /\ (e.ar => e.code \in AlarmCodes)
  /\ code \in [Callers -> Codes \cup {NoCode}]
  /\ \A c \in Callers :
       /\ pc[c] \in {"idle", "roll", "trim", "returned", "ackSize", "ackCount", "ackSizeAgain",
                     "ackFetch", "ackRead", "ackWrite", "purgeSize", "purgeFetch", "purgeDelete"}
       /\ batch[c] \subseteq 1..MaxEventId
       /\ pc[c] \in {"ackRead", "ackWrite", "purgeDelete"} => batch[c] # {}
       /\ pc[c] = "ackWrite" => row[c] \in EventRow
       /\ {size[c], room[c]} \subseteq 0..MaxEventId
       /\ rc[c] \in -1..MaxEventId

\* The log keeps the promise of Alarms: whatever is rolled, acknowledged or
\* purged at the same time, an alarm goes only when a caller asks for it.
Board == INSTANCE Alarms WITH
  board  <- {[id |-> e.id, code |-> e.code] : e \in {f \in events : f.ar}},
  last   <- lastId,
  asking <- code
KeepsAlarms == Board!Spec

\* Rolling takes the oldest of the rows that need no action: none that
\* stays is older than one that goes.
OldestGo ==
  \A c \in Callers : Trim(c) => \A e \in events \ events' : \A f \in events' : f.ar \/ f.id > e.id
RollsOldest == [][OldestGo]_vars

Quiet == \A c \in Callers : pc[c] \notin {"roll", "trim"}

\* "The native API library stores a maximum of 10,000 events in the table":
\* when no store is in progress the table is below its maximum, up to the
\* rolls that failed, as long as no event needs action (alarms are never
\* rolled out).
LogBounded == Quiet /\ ~alarmed => Cardinality(events) < LogMax + faults

\* A call that nobody disturbed and whose statements succeeded.
Undisturbed(c) == pc[c] = "returned" /\ alone[c] /\ faults = 0

\* "Acknowledge all events that meet the filter criteria": when the call
\* returns success no event that matched when it began needs action.
AckComplete ==
  \A c \in Callers : Undisturbed(c) /\ rc[c] = 0 =>
    \A e \in wanted[c] : \A f \in events : f.id = e.id => ~f.ar

\* A purge that reports no error removed what matched when it began, and
\* "returns the number of events removed".
PurgeExact ==
  \A c \in Callers : Undisturbed(c) =>
    /\ rc[c] > 0 => Ids(wanted[c]) \cap Ids(events) = {}
    /\ gone[c] # {} => rc[c] = Cardinality(gone[c])

\* What calls and the table come to when nothing else interferes.
LogExact == LogBounded /\ AckComplete /\ PurgeExact
=============================================================================
