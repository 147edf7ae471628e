------------------------------- MODULE DebugLog -------------------------------
(***************************************************************************)
(* The debug log (src/src/common/persistence/csv_log.c): lines are         *)
(* appended to a text file beside the store and moved into its log table   *)
(* when the file has grown, or when the log is asked for or purged         *)
(* (src/src/lib/nvm_logging.c).                                            *)
(*                                                                         *)
(* g_db_mutex is initialised from a copy of shared memory, so each process *)
(* has one of its own (lnx_os.c, mutex_init); a process is here each copy  *)
(* of this code, of which a program and the library it loads have two      *)
(* (build.mk hides their symbols).  The threads of a process share one     *)
(* connection to the store, on which a poll pass (EventNotify) begins and  *)
(* ends transactions too: an inner BEGIN fails and is ignored, the first   *)
(* END commits what all of them did.                                       *)
(***************************************************************************)
EXTENDS Integers, Sequences, FiniteSets, SequencesExt, FiniteSetsExt, Functions

CONSTANTS
  Threads,     \* threads that log
  ProcOf,      \* the process of a thread
  Pollers,     \* processes with a poll_events thread
  NoOne,       \* no holder of a mutex, no writer
  Quoted,      \* lines that are no SQL literals: their INSERT fails
  MaxLines,    \* bound on the lines ever written
  FlushAt,     \* MAX_CACHE_FILE_SIZE, in lines
  LogMax,      \* SQL_KEY_LOG_MAX
  MaxCrashes   \* bound on the processes that die

Procs == Range(ProcOf)
Lines == 1..MaxLines

VARIABLES
  written,  \* lines written so far; a line is its number, which is its time
  file,     \* the lines in the text file
  table,    \* the log table, committed: how often it has each line
  writer,   \* the process whose transaction has written to the store
  view,     \* the log table as that transaction sees it
  inTxn,    \* the processes with a transaction open on their connection
  inPass,   \* the processes with a poll pass running
  mutex,    \* g_db_mutex of a process: the thread that holds it
  pc,       \* where a thread is
  purging,  \* the thread purges when the flush is over
  users,    \* history: the processes that have used the log
  gone,     \* history: lines taken out of the table or rolled back by a death
  crashes   \* processes that died so far

store == <<table, writer, view, inTxn>>
vars == <<written, file, store, inPass, mutex, pc, purging, users, gone, crashes>>

NoRows == [l \in Lines |-> 0]

Init ==
  /\ written = 0 /\ file = <<>>
  /\ table = NoRows /\ writer = NoOne /\ view = NoRows /\ inTxn = {}
  /\ inPass = {}
  /\ mutex = [p \in Procs |-> NoOne]
  /\ pc = [t \in Threads |-> "idle"]
  /\ purging = [t \in Threads |-> FALSE]
  /\ users = {} /\ gone = {} /\ crashes = 0

-----------------------------------------------------------------------------
(* The connection of process p *)

\* What p sees.
Rows(p) == IF writer = p THEN view ELSE table

\* p may write: nobody else has a transaction that wrote.
CanWrite(p) == writer \in {NoOne, p}

\* The table becomes rows: at once, or when p's transaction ends.
WriteRows(p, rows) ==
  IF p \in inTxn
  THEN writer' = p /\ view' = rows /\ UNCHANGED table
  ELSE table' = rows /\ UNCHANGED <<writer, view>>

\* rows, then END TRANSACTION, which fails without effect when none is open.
WriteAndEnd(p, rows) ==
  /\ table' = rows
  /\ writer' = NoOne /\ view' = NoRows
  /\ inTxn' = inTxn \ {p}

EndTxn(p) == IF writer = p THEN WriteAndEnd(p, view)
             ELSE inTxn' = inTxn \ {p} /\ UNCHANGED <<table, writer, view>>

-----------------------------------------------------------------------------
(* csv_write_log and flush_csv_log_to_db *)

Go(t, step) == pc' = [pc EXCEPT ![t] = step]
Gone(lines) == gone' = gone \cup lines
Lost(before, after) == {l \in Lines : before[l] > 0 /\ after[l] = 0}
Uses(t) == users' = users \cup {ProcOf[t]}

\* csv_write_log: a line is appended; a file that is too long is flushed.
Write(t) ==
  /\ pc[t] = "idle" /\ mutex[ProcOf[t]] = NoOne
  /\ written < MaxLines
  /\ written' = written + 1
  /\ file' = Append(file, written')
  /\ IF Len(file') > FlushAt THEN Go(t, "flush") ELSE UNCHANGED pc
  /\ Uses(t)
  /\ UNCHANGED <<store, inPass, mutex, purging, gone, crashes>>

\* log_gather for a reader of the log, a support file or the end of the
\* process; nvm_purge_debug_log does it before it deletes the table.
Gather(t, purge) ==
  /\ pc[t] = "idle"
  /\ purging' = [purging EXCEPT ![t] = purge]
  /\ Go(t, "flush")
  /\ Uses(t)
  /\ UNCHANGED <<written, file, store, inPass, mutex, gone, crashes>>

AfterFlush(t) == IF purging[t] THEN "purge" ELSE "idle"

\* Mutant of FlushOpen: the mutex is not waited for.
FlushOpenUnlocked(t) ==
  LET p == ProcOf[t] IN
  /\ pc[t] = "flush"
  /\ IF file = <<>>
     THEN Go(t, AfterFlush(t)) /\ UNCHANGED <<inTxn, mutex>>
     ELSE Go(t, "read") /\ inTxn' = inTxn \cup {p} /\ mutex' = [mutex EXCEPT ![p] = t]
  /\ UNCHANGED <<written, file, table, writer, view, inPass, purging, users, gone, crashes>>

\* The file is opened, if there is one, and a transaction begun.
FlushOpen(t) ==
  LET p == ProcOf[t] IN
  /\ pc[t] = "flush" /\ mutex[p] = NoOne
  /\ IF file = <<>>
     THEN Go(t, AfterFlush(t)) /\ UNCHANGED <<inTxn, mutex>>
     ELSE Go(t, "read") /\ inTxn' = inTxn \cup {p} /\ mutex' = [mutex EXCEPT ![p] = t]
  /\ UNCHANGED <<written, file, table, writer, view, inPass, purging, users, gone, crashes>>

\* Every line up to the end of the file is inserted.  All inserts fail when
\* another process writes to the store for longer than the busy timeout.
FlushRead(t) ==
  LET p == ProcOf[t]
      added == [l \in Lines |-> IF l \in Range(file) \ Quoted THEN 1 ELSE 0]
  IN
  /\ pc[t] = "read"
  /\ IF CanWrite(p)
     THEN WriteRows(p, [l \in Lines |-> Rows(p)[l] + added[l]])
     ELSE UNCHANGED <<table, writer, view>>
  /\ Go(t, "delete")
  /\ UNCHANGED <<written, file, inTxn, inPass, mutex, purging, users, gone, crashes>>

FlushDelete(t) ==
  /\ pc[t] = "delete"
  /\ file' = <<>>
  /\ Go(t, "end")
  /\ UNCHANGED <<written, store, inPass, mutex, purging, users, gone, crashes>>

\* The rows of the lines in S, and how many there are of lines newer than l.
Copies(rows, S) == UNION {{m} \X (1..rows[m]) : m \in S}
Newer(rows, l) == Cardinality(Copies(rows, {m \in Lines : m > l}))

\* Mutant of Rolled: the oldest rows are kept.
RolledOldest(rows) ==
  [l \in Lines |->
     Max({0, Min({rows[l], LogMax - Cardinality(Copies(rows, {m \in Lines : m < l}))})})]

\* roll_db_log: the newest LogMax rows are kept.
Rolled(rows) ==
  [l \in Lines |-> Max({0, Min({rows[l], LogMax - Newer(rows, l)})})]

\* The table is rolled and the transaction, whoever began it, ends.
FlushEnd(t) ==
  LET p == ProcOf[t] IN
  /\ pc[t] = "end"
  /\ IF CanWrite(p)
     THEN /\ WriteAndEnd(p, Rolled(Rows(p)))
          /\ Gone({l \in Lost(Rows(p), table') : Newer(table', l) >= LogMax})
     ELSE EndTxn(p) /\ UNCHANGED gone
  /\ mutex' = [mutex EXCEPT ![p] = NoOne]
  /\ Go(t, AfterFlush(t))
  /\ UNCHANGED <<written, file, inPass, purging, users, crashes>>

\* db_delete_all_logs
Purge(t) ==
  LET p == ProcOf[t] IN
  /\ pc[t] = "purge"
  /\ IF CanWrite(p)
     THEN WriteRows(p, NoRows) /\ Gone(Lost(Rows(p), NoRows))
     ELSE UNCHANGED <<table, writer, view, gone>>
  /\ purging' = [purging EXCEPT ![t] = FALSE]
  /\ Go(t, "idle")
  /\ UNCHANGED <<written, file, inTxn, inPass, mutex, users, crashes>>

-----------------------------------------------------------------------------
(* poll_events on the same connection; deaths *)

PassBegin(p) ==
  /\ p \in Pollers \ inPass
  /\ inPass' = inPass \cup {p}
  /\ inTxn' = inTxn \cup {p}
  /\ UNCHANGED <<written, file, table, writer, view, mutex, pc, purging, users, gone, crashes>>

PassEnd(p) ==
  /\ p \in inPass
  /\ inPass' = inPass \ {p}
  /\ EndTxn(p)
  /\ UNCHANGED <<written, file, mutex, pc, purging, users, gone, crashes>>

\* The process dies; its transaction is rolled back.
Crash(p) ==
  /\ crashes < MaxCrashes
  /\ crashes' = crashes + 1
  /\ inTxn' = inTxn \ {p} /\ inPass' = inPass \ {p}
  /\ IF writer = p
     THEN writer' = NoOne /\ view' = NoRows /\ Gone(Lost(view, table) \ Range(file))
     ELSE UNCHANGED <<writer, view, gone>>
  /\ mutex' = [mutex EXCEPT ![p] = NoOne]
  /\ pc' = [t \in Threads |-> IF ProcOf[t] = p THEN "idle" ELSE pc[t]]
  /\ purging' = [t \in Threads |-> ProcOf[t] # p /\ purging[t]]
  /\ UNCHANGED <<written, file, table, users>>

Next ==
  \/ \E t \in Threads :
       \/ Write(t) \/ (\E purge \in BOOLEAN : Gather(t, purge))
       \/ FlushOpen(t) \/ FlushRead(t) \/ FlushDelete(t) \/ FlushEnd(t) \/ Purge(t)
  \/ \E p \in Procs : PassBegin(p) \/ PassEnd(p) \/ Crash(p)

Spec == Init /\ [][Next]_vars

-----------------------------------------------------------------------------
(* Properties *)

Alone == Cardinality(users) <= 1

\* A line is stored at most once, wherever a poll pass ends the transaction
\* of a flush or a flush that of a pass, as long as no process dies and no
\* second one flushes the same file.
StoredOnce ==
  crashes = 0 /\ Alone => \A l \in Lines : table[l] <= 1 /\ view[l] <= 1

\* A line is in the file, in the table, or was taken out: by a purge, because
\* the table is long enough without it, or because the process died after it
\* had deleted the file and before the transaction ended.
Held(l) == l \in Range(file) \/ table[l] > 0 \/ view[l] > 0

\* No line is lost on the way from the file to the table while one process
\* uses the log: not by another thread's flush or purge, and not by a poll
\* pass that ends the transaction early or late.
NoneLost == Alone => \A l \in 1..written \ Quoted : Held(l) \/ l \in gone
===============================================================================
