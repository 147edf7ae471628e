------------------------------- MODULE Snapshots -------------------------------
(***************************************************************************)
(* Support snapshots: nvm_save_state stores the state of the system under  *)
(* a new history id, part by part (src/src/lib/save_state.c), and          *)
(* nvm_purge_state_data and nvm_gather_support (src/src/lib/support.c)     *)
(* delete all snapshots and write a support file.                          *)
(*                                                                         *)
(* Nothing but the roll is in a transaction, and no lock is held: calls of *)
(* several threads and processes interleave between any two statements.    *)
(***************************************************************************)
EXTENDS Integers, Sequences, FiniteSets, FiniteSetsExt

CONSTANTS
  Callers,       \* threads that save, purge and gather
  Taken,         \* names of the parts a save stores
  MaxSnapshots,  \* SQL_KEY_SUPPORT_SNAPSHOT_MAX, not 0
  MaxFaults,     \* bound on failing statements and on callers that die
  MaxSaves       \* bound on the saves and on these together

VARIABLES
  history,  \* the history table: its ids
  rows,     \* the history tables of the parts: part, history id and save
  sets,     \* saves with rows in the main tables of interleave sets
  call,     \* the call of a caller
  saves,    \* saves so far
  faults,   \* failed statements and deaths so far
  saved,    \* history: successful saves that nobody purged or rolled away
  mixed,    \* history: saves whose id another one used, or a purge met
  exact     \* history: no saves overlapped and every clear succeeded

vars == <<history, rows, sets, call, saves, faults, saved, mixed, exact>>

-----------------------------------------------------------------------------
(* The parts of a snapshot, in the order of nvm_save_state: whether a      *)
(* failure to read the data, and to insert it, is returned to the caller.  *)

Part(name, readTold, insertTold) ==
  [name |-> name, readTold |-> readTold, insertTold |-> insertTold]

Host == Part("host", TRUE, FALSE)
Sockets == Part("sockets", TRUE, TRUE)
PlatformCapabilities == Part("capabilities", TRUE, TRUE)
NamespaceList == Part("namespaces", TRUE, TRUE)
DriverCapabilities == Part("driver", TRUE, FALSE)
DimmTopology == Part("topology", TRUE, TRUE)
IdentifyDimm == Part("identify", TRUE, TRUE)
Smart == Part("smart", TRUE, TRUE)
Memory == Part("memory", TRUE, FALSE)
FwImage == Part("fw_image", TRUE, TRUE)
DimmDetails == Part("details", TRUE, TRUE)
PartitionInfo == Part("partition", TRUE, TRUE)
SecurityState == Part("security", TRUE, TRUE)
\* The count of the log entries is unsigned: an error is a large count, for
\* which no buffer is found, and nothing is stored or told.
FwErrorLogs == Part("error_logs", FALSE, FALSE)
FwDebugLogs == Part("debug_logs", TRUE, FALSE)
DieSparing == Part("sparing", TRUE, FALSE)
OptionalConfig == Part("optional_config", TRUE, FALSE)
PlatformConfigData == Part("platform_config", TRUE, TRUE)

AllParts ==
  << Host, Sockets, PlatformCapabilities, NamespaceList, DriverCapabilities, DimmTopology,
     IdentifyDimm, Smart, Memory, FwImage, DimmDetails, PartitionInfo, SecurityState,
     FwErrorLogs, FwDebugLogs, DieSparing, OptionalConfig, PlatformConfigData >>

\* The parts stored once the host is and the interleave tables are cleared.
FirstOfDimm == 6
Steps == LET all == AllParts IN {i \in 2..Len(all) : all[i].name \in Taken}
First(i) == i >= FirstOfDimm /\ \A j \in Steps : j < i => j < FirstOfDimm

\* The next one after i, or the end.
After(i) == LET later == {j \in Steps : j > i}
            IN  IF later = {} THEN Len(AllParts) + 1 ELSE Min(later)

\* The parts that a successful save has stored.
ToldSteps == LET all == AllParts IN {i \in Steps : all[i].readTold /\ all[i].insertTold}

-----------------------------------------------------------------------------
\* file: what is at the path of the last call's support file; blind: the
\* DIMMs could not be counted
Idle == [at |-> "idle", num |-> 0, id |-> 0, part |-> 0, count |-> 0,
         ok |-> TRUE, blind |-> FALSE, gather |-> FALSE, file |-> "none"]

Init ==
  /\ history = {} /\ rows = {} /\ sets = {}
  /\ call = [c \in Callers |-> Idle]
  /\ saves = 0 /\ faults = 0
  /\ saved = {} /\ mixed = {} /\ exact = TRUE

Fault == faults < MaxFaults /\ saves + faults < MaxSaves /\ faults' = faults + 1
Return(c, file) == call' = [call EXCEPT ![c] = [Idle EXCEPT !.file = file]]
Move(c, r) == call' = [call EXCEPT ![c] = r]

\* Saves that have an id.
Stores(c) == call[c].at \in {"roll", "host", "clear", "store"}
Saving(c) == Stores(c) \/ call[c].at \in {"add", "insert"}
Running == {call[c].num : c \in {d \in Callers : Saving(d)}}
Using(id) == {call[c].num : c \in {d \in Callers : Stores(d) /\ call[d].id = id}}

\* The save r of c ends; a gathering caller goes on whatever it returned.
EndSave(c, r) ==
  /\ saved' = IF r.ok THEN saved \cup {[num |-> r.num, id |-> r.id, blind |-> r.blind]} ELSE saved
  /\ IF r.gather THEN Move(c, [r EXCEPT !.at = "copy"])
     ELSE Return(c, "none")

\* The call of a save that begins.
NewSave(num, count, gather) == [Idle EXCEPT !.num = num, !.count = count, !.gather = gather]

\* nvm_save_state, nvm_gather_support: the history rows are counted; without
\* a count nothing is stored.
Begin(c, gather) ==
  LET r == NewSave(saves + 1, Cardinality(history), gather) IN
  /\ call[c].at = "idle" /\ saves + faults < MaxSaves
  /\ saves' = saves + 1
  /\ exact' = (exact /\ Running = {})
  /\ \/ Move(c, [r EXCEPT !.at = "add"]) /\ UNCHANGED <<faults, saved>>
     \/ Fault /\ EndSave(c, [r EXCEPT !.ok = FALSE])
  /\ UNCHANGED <<history, rows, sets, mixed>>

\* SELECT MAX(history_id), and one more
NextId == IF history = {} THEN 1 ELSE Max(history) + 1

\* Mutant of MustRoll: more rows than the maximum.
MustRollOver(count) == count > MaxSnapshots
MustRoll(count) == count >= MaxSnapshots

AfterAdd(r) == [r EXCEPT !.at = IF MustRoll(r.count) THEN "roll" ELSE "host"]

\* db_add_history: without a maximum the id stays 0 and no row is added.
AddRead(c) ==
  /\ call[c].at = "add"
  /\ \/ Move(c, [call[c] EXCEPT !.at = "insert", !.id = NextId]) /\ UNCHANGED faults
     \/ Fault /\ Move(c, AfterAdd([call[c] EXCEPT !.ok = FALSE]))
  /\ UNCHANGED <<history, rows, sets, saves, saved, mixed, exact>>

\* The INSERT fails when another caller was faster; the save goes on under
\* the id it found, and only its return code remembers.
AddInsert(c) ==
  LET id == call[c].id IN
  /\ call[c].at = "insert"
  /\ \/ /\ id \notin history
        /\ history' = history \cup {id}
        /\ Move(c, AfterAdd(call[c]))
        /\ mixed' = IF Using(id) = {} /\ \A r \in rows : r.id # id THEN mixed
                    ELSE mixed \cup {call[c].num}
        /\ UNCHANGED faults
     \/ /\ IF id \in history THEN UNCHANGED faults ELSE Fault
        /\ Move(c, AfterAdd([call[c] EXCEPT !.ok = FALSE]))
        /\ mixed' = mixed \cup Using(id) \cup {s.num : s \in {t \in saved : t.id = id}}
        /\ UNCHANGED history
  /\ UNCHANGED <<rows, sets, saves, saved, exact>>

\* Mutant of Newest: the oldest ids.
NewestOldest == {id \in history : Cardinality({i \in history : i < id}) < MaxSnapshots}

\* SELECT history_id FROM history ORDER BY ROWID DESC LIMIT max; the id is the
\* row's id.
Newest == {id \in history : Cardinality({i \in history : i > id}) < MaxSnapshots}

\* For saved and mixed: the ids that a roll must keep.
Latest == {id \in history : \E n \in 0..(MaxSnapshots - 1) :
                              Cardinality({i \in history : i > id}) = n}

\* db_roll_history, in one transaction: some of the DELETEs may fail.
Roll(c) ==
  /\ call[c].at = "roll"
  /\ \/ /\ rows' = {r \in rows : r.id \in Newest}
        /\ history' = Newest
        /\ UNCHANGED faults
     \/ /\ Fault
        /\ \E kept \in SUBSET {r.part : r \in rows} :
             rows' = {r \in rows : r.part \in kept \/ r.id \in Newest}
        /\ history' \in {history, Newest}
  /\ saved' = {s \in saved : s.id \in Latest}
  /\ mixed' = mixed \cup {call[d].num : d \in {e \in Callers : Stores(e) /\ call[e].id \notin Latest}}
  /\ Move(c, [call[c] EXCEPT !.at = "host"])
  /\ UNCHANGED <<sets, saves, exact>>

\* The row of part p, or a failure that may be told: ok is what the save is
\* to return now.
StoreRow(c, p, ok) ==
  LET r == call[c] IN
  \/ /\ rows' = rows \cup {[part |-> p.name, id |-> r.id, num |-> r.num]}
     /\ sets' = IF p = PlatformConfigData THEN sets \cup {r.num} ELSE sets
     /\ ok = r.ok /\ UNCHANGED faults
  \/ /\ Fault
     /\ ok \in {r.ok /\ ~p.readTold, r.ok /\ ~p.insertTold}
     /\ UNCHANGED <<rows, sets>>

StoreHost(c) ==
  /\ call[c].at = "host"
  /\ \E ok \in BOOLEAN :
       StoreRow(c, Host, ok) /\ Move(c, [call[c] EXCEPT !.at = "clear", !.ok = ok])
  /\ UNCHANGED <<history, saves, saved, mixed, exact>>

\* Mutant of Clear: the tables are kept.
ClearNothing(c) ==
  /\ call[c].at = "clear"
  /\ Move(c, [call[c] EXCEPT !.at = "store", !.part = After(1)])
  /\ UNCHANGED <<history, rows, sets, saves, faults, saved, mixed, exact>>

\* The main interleave tables are emptied; a failure is ignored.
Clear(c) ==
  /\ call[c].at = "clear"
  /\ \/ sets' = {} /\ UNCHANGED <<faults, exact>>
     \/ Fault /\ exact' = FALSE /\ UNCHANGED sets
  /\ Move(c, [call[c] EXCEPT !.at = "store", !.part = After(1)])
  /\ UNCHANGED <<history, rows, saves, saved, mixed>>

NextPart(c, r) ==
  IF After(r.part) > Len(AllParts) THEN EndSave(c, r)
  ELSE Move(c, [r EXCEPT !.part = After(@)]) /\ UNCHANGED saved

\* The next part.  There are no parts of DIMMs without the topology, which is
\* told, or their count, which is not.
Store(c) ==
  LET i == call[c].part IN
  /\ call[c].at = "store"
  /\ \/ \E ok \in BOOLEAN :
          StoreRow(c, AllParts[i], ok) /\ NextPart(c, [call[c] EXCEPT !.ok = ok])
     \/ /\ First(i) /\ Fault
        /\ \/ EndSave(c, [call[c] EXCEPT !.ok = FALSE])
           \/ EndSave(c, [call[c] EXCEPT !.blind = TRUE])
        /\ UNCHANGED <<rows, sets>>
  /\ UNCHANGED <<history, saves, mixed, exact>>

-----------------------------------------------------------------------------
(* nvm_purge_state_data *)

PurgeBegin(c) ==
  /\ call[c].at = "idle"
  /\ Move(c, [Idle EXCEPT !.at = "purge", !.part = 1])
  /\ UNCHANGED <<history, rows, sets, saves, faults, saved, mixed, exact>>

\* db_clear_history, table by table and at last the ids; every DELETE may
\* fail, which only the return code remembers.
Purge(c) ==
  LET r == call[c] IN
  /\ r.at = "purge"
  /\ IF r.part <= Len(AllParts)
     THEN /\ \/ rows' = {w \in rows : w.part # AllParts[r.part].name} /\ UNCHANGED faults
             \/ Fault /\ UNCHANGED rows
          /\ Move(c, [r EXCEPT !.part = After(@)])
          /\ UNCHANGED history
     ELSE /\ \/ history' = {} /\ UNCHANGED faults
             \/ Fault /\ UNCHANGED history
          /\ Return(c, "none")
          /\ UNCHANGED rows
  /\ saved' = {} /\ mixed' = mixed \cup Running
  /\ UNCHANGED <<sets, saves, exact>>

-----------------------------------------------------------------------------
(* The support file *)

\* An older file is removed and the store copied; without the store the copy
\* stays empty, and a target that cannot be created leaves none.
Copy(c) ==
  /\ call[c].at = "copy"
  /\ \/ Move(c, [call[c] EXCEPT !.at = "filter", !.file = "raw"]) /\ UNCHANGED faults
     \/ Fault /\ \E file \in {"none", "empty"} : Return(c, file)
  /\ UNCHANGED <<history, rows, sets, saves, saved, mixed, exact>>

\* Mutant of Filter: a copy that could not be filtered stays.
FilterKept(c) ==
  /\ call[c].at = "filter"
  /\ \/ /\ \/ Move(c, [call[c] EXCEPT !.at = "encrypt", !.file = "filtered"])
           \/ Return(c, "filtered")
        /\ UNCHANGED faults
     \/ Fault /\ Return(c, "raw")
  /\ UNCHANGED <<history, rows, sets, saves, saved, mixed, exact>>

\* support_filter_data; a copy that could not be filtered is deleted, any
\* other one encrypted when the preference says so.
Filter(c) ==
  /\ call[c].at = "filter"
  /\ \/ /\ \/ Move(c, [call[c] EXCEPT !.at = "encrypt", !.file = "filtered"])
           \/ Return(c, "filtered")
        /\ UNCHANGED faults
     \/ Fault /\ Return(c, "none")
  /\ UNCHANGED <<history, rows, sets, saves, saved, mixed, exact>>

\* compress_file, which replaces the file or, once it has opened it, deletes
\* it; and rsa_encrypt, likewise.
Encrypt(c) ==
  /\ call[c].at = "encrypt"
  /\ \/ Return(c, "encrypted") /\ UNCHANGED faults
     \/ Fault /\ \E file \in {"filtered", "compressed", "none"} : Return(c, file)
  /\ UNCHANGED <<history, rows, sets, saves, saved, mixed, exact>>

\* The process of c dies; an unfiltered copy it had made stays.
Die(c) ==
  /\ call[c].at # "idle" /\ Fault
  /\ Return(c, IF call[c].file = "raw" THEN "left" ELSE call[c].file)
  /\ UNCHANGED <<history, rows, sets, saves, saved, mixed, exact>>

Next ==
  \E c \in Callers :
    \/ \E gather \in BOOLEAN : Begin(c, gather)
    \/ AddRead(c) \/ AddInsert(c) \/ Roll(c)
    \/ StoreHost(c) \/ Clear(c) \/ Store(c)
    \/ PurgeBegin(c) \/ Purge(c)
    \/ Copy(c) \/ Filter(c) \/ Encrypt(c)
    \/ Die(c)

Spec == Init /\ [][Next]_vars

-----------------------------------------------------------------------------
(* Properties *)

\* A save that returned success is there whole, but for the DIMMs when they
\* could not be counted, and nothing under its id comes from another save:
\* unless one that found the same id stored under it, or a purge or a roll
\* met it while it ran.
SavedWhole ==
  \A s \in saved :
    s.num \in mixed
    \/ /\ s.id \in history
       /\ \A i \in ToldSteps : i < FirstOfDimm \/ ~s.blind =>
            [part |-> AllParts[i].name, id |-> s.id, num |-> s.num] \in rows
       /\ \A r \in rows : r.id = s.id => r.num = s.num

\* The snapshots stay within their maximum: a caller that counted before the
\* others inserted adds one, and so does each failed roll and each death
\* between the insert and the roll.
HistoryBounded ==
  Cardinality(history) <= MaxSnapshots + Cardinality(Callers) - 1 + faults
                          + Cardinality({c \in Callers : call[c].at = "roll"})

\* The main interleave tables, which have no history id, show one save.
SetsCurrent == exact => Cardinality(sets) <= 1

\* A gather that returned, whatever it told, leaves no copy of the store that
\* is not filtered.
FileHonest == \A c \in Callers : call[c].at = "idle" => call[c].file # "raw"

\* What is left of snapshots and support files by calls that fail or overlap.
LeftClean == HistoryBounded /\ SetsCurrent /\ FileHonest
===============================================================================
