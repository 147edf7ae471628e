---------------------------- MODULE Store_proofs ----------------------------
(***************************************************************************)
(* Proofs about what is kept in the configuration store (MCStore): the     *)
(* support snapshots (Snapshots, S! here), the debug log (DebugLog, D!),   *)
(* the topology that the event monitor saves (Topology, T!) and the event  *)
(* log (EventLog), which has its own Spec here, as nothing it says is      *)
(* about the parts.                                                        *)
(*                                                                         *)
(* The variables are those of MCStore, and its SpecAll is the              *)
(* specification of every part; a step of another part leaves the others   *)
(* alone.                                                                  *)
(***************************************************************************)
EXTENDS Sequences, MCStore, SetLemmas

-----------------------------------------------------------------------------
(* Snapshots *)

Ats == {"idle", "add", "insert", "roll", "host", "clear", "store", "purge", "copy", "filter", "encrypt"}
CallType == [at : Ats, num : Nat, id : Nat, part : Nat, count : Nat,
             ok : BOOLEAN, blind : BOOLEAN, gather : BOOLEAN,
             file : {"none", "empty", "raw", "filtered", "compressed", "encrypted", "left"}]

\* Every caller has a call; the ids in the table start at 1.
SnapTypes ==
  /\ call \in [Callers -> CallType] /\ saves \in Nat /\ failures \in Nat
  /\ exact \in BOOLEAN
  /\ \E N \in Nat : historyIds \subseteq 1..N

\* A caller that looks for an id has none yet.
Numbered(u) ==
  /\ call[u].at = "add" => call[u].id = 0
  /\ call[u].at = "insert" => call[u].id # 0

\* The parts before i whose failure is told are stored under the id.
PartsBefore(i, id, num) ==
  \A j \in S!ToldSteps : j < i =>
    [part |-> S!AllParts[j].name, id |-> id, num |-> num] \in rows

\* The id is in the table, and all that is stored under it is of that save.
Owned(id, num) == id \in historyIds /\ \A r \in rows : r.id = id => r.num = num

Live(u) == S!Stores(u) /\ call[u].ok /\ call[u].num \notin mixed

\* A save that still can succeed has its id for itself, and what it was to
\* store so far.
LiveKept(u) ==
  Live(u) =>
    /\ Owned(call[u].id, call[u].num)
    /\ \A w \in Callers \ {u} : S!Stores(w) => call[w].id # call[u].id
    /\ call[u].at = "store" => PartsBefore(call[u].part, call[u].id, call[u].num)

\* A save that succeeded has kept its id and all of its parts.
SavedKept(s) ==
  s.num \notin mixed =>
    /\ Owned(s.id, s.num)
    /\ \A w \in Callers : S!Stores(w) => call[w].id # s.id
    /\ \A j \in S!ToldSteps : j < S!FirstOfDimm \/ ~s.blind =>
         [part |-> S!AllParts[j].name, id |-> s.id, num |-> s.num] \in rows

Whole ==
  /\ \A u \in Callers : Numbered(u) /\ LiveKept(u)
  /\ \A s \in saved : SavedKept(s)

\* Callers that counted room, and those whose row is yet to be rolled away.
Light == {u \in Callers : call[u].at \in {"add", "insert"} /\ call[u].count < MaxSnapshots}
Rolling == {u \in Callers : call[u].at = "roll"}

Room ==
  Cardinality(historyIds) + Cardinality(Light)
    <= MaxSnapshots + Cardinality(Callers) - 1 + failures + Cardinality(Rolling)

\* While saves do not overlap and tables are cleared, the interleave tables
\* are of one save, which is the one that runs.
OneSave ==
  exact =>
    /\ \A u, w \in Callers : S!Saving(u) /\ S!Saving(w) => u = w
    /\ \E n \in Nat : sets \subseteq {n}
    /\ \A u \in Callers : call[u].at = "store" => sets \subseteq {call[u].num}

\* An unfiltered copy is there only until the next step.
NoRaw == \A u \in Callers : call[u].file = "raw" => call[u].at = "filter"

SnapInv == SnapTypes /\ Whole /\ Room /\ OneSave /\ NoRaw

Storing == {"roll", "host", "clear", "store"}

-----------------------------------------------------------------------------
(* Snapshots: pieces of the steps *)

\* The instance of Snapshots counts as this module does.
LEMMA SnapCount ==
  ASSUME NEW X
  PROVE  S!Cardinality(X) = Cardinality(X)
BY Zenon DEF S!Cardinality, Cardinality

\* The id that is found is one that a row can have.
LEMMA NextIdIsNew == SnapTypes => S!NextId \in Nat \ {0}
<1> SUFFICES ASSUME SnapTypes PROVE S!NextId \in Nat \ {0} OBVIOUS
<1>1. PICK N \in Nat : historyIds \subseteq 1..N BY DEF SnapTypes
<1>2. CASE historyIds = {} BY <1>2 DEF S!NextId
<1>3. CASE historyIds # {}
  <2>1. historyIds \in SUBSET (0..N) BY <1>1
  <2>2. Max(historyIds) \in historyIds BY <1>3, <2>1, MaxIsGreatest
  <2>3. S!Max(historyIds) = Max(historyIds) BY Zenon DEF S!Max, Max
  <2>4. S!NextId = Max(historyIds) + 1 BY <1>3, <2>3, Zenon DEF S!NextId
  <2>5. PICK m \in historyIds : m = Max(historyIds) BY <2>2
  <2>6. m \in Nat BY <1>1
  <2>7. S!NextId = m + 1 BY <2>4, <2>5
  <2>8. QED BY <2>6, <2>7
<1>4. QED BY <1>2, <1>3

\* After a step of u the others have the calls they had.
LEMMA CallMoves ==
  ASSUME SnapTypes, NEW u \in Callers, NEW r \in CallType, S!Move(u, r)
  PROVE  /\ call' \in [Callers -> CallType] /\ call'[u] = r
         /\ \A w \in Callers \ {u} : call'[w] = call[w]
BY DEF SnapTypes, S!Move

\* The id of a save that can succeed is not the one that no row has.
LEMMA OwnedIsSome ==
  ASSUME SnapTypes, NEW id, NEW num, Owned(id, num)
  PROVE  id # 0
BY DEF SnapTypes, Owned

\* What is stored stays whole when u, if it stores, stores under its own id,
\* and succeeds with all of its parts.
LEMMA WholeStays ==
  ASSUME SnapTypes, Whole, NEW u \in Callers, NEW r \in CallType, S!Move(u, r),
         UNCHANGED <<historyIds, mixed>>,
         rows \subseteq rows',
         \A x \in rows' \ rows : S!Stores(u) /\ x.id = call[u].id /\ x.num = call[u].num,
         r.at = "add" => r.id = 0, r.at = "insert" => r.id # 0,
         r.at \in Storing => r.id = 0 \/ (S!Stores(u) /\ r.id = call[u].id),
         r.at \in Storing /\ r.ok /\ r.num \notin mixed =>
           /\ Live(u) /\ r.id = call[u].id /\ r.num = call[u].num
           /\ r.at = "store" => PartsBefore(r.part, r.id, r.num)',
         saved \subseteq saved',
         \A s \in saved' \ saved : s.num \notin mixed =>
           /\ Live(u) /\ s.id = call[u].id /\ s.num = call[u].num /\ r.at \notin Storing
           /\ \A j \in S!ToldSteps : j < S!FirstOfDimm \/ ~s.blind =>
                [part |-> S!AllParts[j].name, id |-> s.id, num |-> s.num] \in rows'
  PROVE  Whole'
<1>1. call'[u] = r /\ \A w \in Callers \ {u} : call'[w] = call[w] BY CallMoves
<1>2. \A w \in Callers : LiveKept(w) /\ Numbered(w) BY DEF Whole
<1>3. /\ \A w \in Callers \ {u} : (S!Stores(w)' <=> S!Stores(w)) /\ (Live(w)' <=> Live(w))
      /\ S!Stores(u)' <=> r.at \in Storing
  BY <1>1 DEF S!Stores, Live, Storing
<1>4. ASSUME NEW w \in Callers PROVE Numbered(w)' BY <1>1, <1>2 DEF Numbered
<1>5. ASSUME NEW w \in Callers PROVE LiveKept(w)'
  <2>1. CASE w # u
    <3> SUFFICES ASSUME Live(w) PROVE LiveKept(w)' BY <1>3, <2>1 DEF LiveKept
    <3>1. /\ Owned(call[w].id, call[w].num)
          /\ \A v \in Callers \ {w} : S!Stores(v) => call[v].id # call[w].id
          /\ call[w].at = "store" => PartsBefore(call[w].part, call[w].id, call[w].num)
      BY <1>2 DEF LiveKept
    <3>2. call[w].id # 0 BY <3>1, OwnedIsSome
    <3>3. Owned(call[w].id, call[w].num)' BY <1>1, <2>1, <3>1 DEF Owned
    <3>4. \A v \in Callers \ {w} : S!Stores(v)' => call'[v].id # call[w].id
      BY <1>1, <1>3, <2>1, <3>1, <3>2
    <3>5. call[w].at = "store" => PartsBefore(call[w].part, call[w].id, call[w].num)'
      BY <1>1, <2>1, <3>1 DEF PartsBefore
    <3>6. QED BY <1>1, <2>1, <3>3, <3>4, <3>5 DEF LiveKept
  <2>2. CASE w = u
    <3> SUFFICES ASSUME Live(u)' PROVE LiveKept(u)' BY <2>2 DEF LiveKept
    <3>1. r.at \in Storing /\ r.ok /\ r.num \notin mixed BY <1>1, <1>3 DEF Live
    <3>2. /\ Live(u) /\ r.id = call[u].id /\ r.num = call[u].num
          /\ r.at = "store" => PartsBefore(r.part, r.id, r.num)'
      BY <3>1
    <3>3. /\ Owned(r.id, r.num)
          /\ \A v \in Callers \ {u} : S!Stores(v) => call[v].id # r.id
      BY <1>2, <3>2 DEF LiveKept
    <3>4. Owned(r.id, r.num)' BY <3>2, <3>3 DEF Owned
    <3>5. \A v \in Callers \ {u} : S!Stores(v)' => call'[v].id # r.id BY <1>1, <1>3, <3>3
    <3>6. QED BY <1>1, <3>2, <3>4, <3>5 DEF LiveKept
  <2>3. QED BY <2>1, <2>2
<1>6. ASSUME NEW s \in saved' PROVE SavedKept(s)'
  <2> SUFFICES ASSUME s.num \notin mixed PROVE SavedKept(s)' BY DEF SavedKept
  <2>1. CASE s \in saved
    <3>1. /\ Owned(s.id, s.num)
          /\ \A w \in Callers : S!Stores(w) => call[w].id # s.id
          /\ \A j \in S!ToldSteps : j < S!FirstOfDimm \/ ~s.blind =>
               [part |-> S!AllParts[j].name, id |-> s.id, num |-> s.num] \in rows
      BY <2>1 DEF Whole, SavedKept
    <3>2. s.id # 0 BY <3>1, OwnedIsSome
    <3>3. Owned(s.id, s.num)' BY <3>1 DEF Owned
    <3>4. \A w \in Callers : S!Stores(w)' => call'[w].id # s.id BY <1>1, <1>3, <3>1, <3>2
    <3>5. QED BY <3>1, <3>3, <3>4 DEF SavedKept
  <2>2. CASE s \notin saved
    <3>1. /\ Live(u) /\ s.id = call[u].id /\ s.num = call[u].num /\ r.at \notin Storing
          /\ \A j \in S!ToldSteps : j < S!FirstOfDimm \/ ~s.blind =>
               [part |-> S!AllParts[j].name, id |-> s.id, num |-> s.num] \in rows'
      BY <2>2
    <3>2. /\ Owned(s.id, s.num)
          /\ \A v \in Callers \ {u} : S!Stores(v) => call[v].id # s.id
      BY <1>2, <3>1 DEF LiveKept
    <3>3. Owned(s.id, s.num)' BY <3>1, <3>2 DEF Owned
    <3>4. \A w \in Callers : S!Stores(w)' => call'[w].id # s.id BY <1>1, <1>3, <3>1, <3>2
    <3>5. QED BY <3>1, <3>3, <3>4 DEF SavedKept
  <2>3. QED BY <2>1, <2>2
<1>7. QED BY <1>4, <1>5, <1>6 DEF Whole

\* Sets that differ in one element differ by one in size.
LEMMA MovesOne ==
  ASSUME NEW X, IsFiniteSet(X), NEW Y, NEW u, \A w : w # u => (w \in Y <=> w \in X)
  PROVE  /\ IsFiniteSet(Y) /\ Cardinality(X) \in Nat
         /\ Cardinality(Y) = Cardinality(X) + (IF u \in Y THEN 1 ELSE 0) - (IF u \in X THEN 1 ELSE 0)
<1>1. Cardinality(X) \in Nat BY FS_CardinalityType
<1>2. CASE u \in X /\ u \notin Y
  <2>1. Y = X \ {u} BY <1>2
  <2>2. QED BY <1>1, <1>2, <2>1, FS_RemoveElement
<1>3. CASE u \notin X /\ u \in Y
  <2>1. Y = X \cup {u} BY <1>3
  <2>2. QED BY <1>1, <1>3, <2>1, FS_AddElement
<1>4. CASE u \in X <=> u \in Y
  <2>1. Y = X BY <1>4
  <2>2. QED BY <1>1, <2>1
<1>5. QED BY <1>2, <1>3, <1>4

\* The ids in the table are finitely many.
LEMMA FiniteHistory == SnapTypes => IsFiniteSet(historyIds) /\ Cardinality(historyIds) \in Nat
<1> SUFFICES ASSUME SnapTypes PROVE IsFiniteSet(historyIds) /\ Cardinality(historyIds) \in Nat OBVIOUS
<1>1. PICK N \in Nat : historyIds \subseteq 1..N BY DEF SnapTypes
<1>2. IsFiniteSet(1..N) BY FS_Interval
<1>3. QED BY <1>1, <1>2, FS_Subset, FS_CardinalityType

\* How a step of u counts in the bound of the table.
LEMMA RoomMoves ==
  ASSUME SnapTypes, NEW u \in Callers, NEW r \in CallType, S!Move(u, r)
  PROVE  /\ Cardinality(Light) \in 0..Cardinality(Callers) /\ Cardinality(Rolling) \in Nat
         /\ Cardinality(Light') \in 0..Cardinality(Callers)
         /\ Cardinality(Callers) \in Nat
         /\ u \notin Light' => Cardinality(Light') < Cardinality(Callers)
         /\ Cardinality(Light') = Cardinality(Light)
              + (IF r.at \in {"add", "insert"} /\ r.count < MaxSnapshots THEN 1 ELSE 0)
              - (IF call[u].at \in {"add", "insert"} /\ call[u].count < MaxSnapshots THEN 1 ELSE 0)
         /\ Cardinality(Rolling') = Cardinality(Rolling)
              + (IF r.at = "roll" THEN 1 ELSE 0) - (IF call[u].at = "roll" THEN 1 ELSE 0)
<1>1. call'[u] = r /\ \A w \in Callers \ {u} : call'[w] = call[w] BY CallMoves
<1>2. /\ Light \subseteq Callers /\ Rolling \subseteq Callers
      /\ Light' \subseteq Callers /\ Rolling' \subseteq Callers
  BY DEF Light, Rolling
<1>3. /\ IsFiniteSet(Light) /\ IsFiniteSet(Rolling) /\ IsFiniteSet(Light')
      /\ Cardinality(Light) <= Cardinality(Callers) /\ Cardinality(Light') <= Cardinality(Callers)
  BY <1>2, CallersAssumption, FS_Subset
<1>4. /\ Cardinality(Light) \in Nat /\ Cardinality(Rolling) \in Nat /\ Cardinality(Light') \in Nat
      /\ Cardinality(Callers) \in Nat
  BY <1>3, CallersAssumption, FS_CardinalityType
<1>5. \A w : w # u => (w \in Light' <=> w \in Light) BY <1>1 DEF Light
<1>6. \A w : w # u => (w \in Rolling' <=> w \in Rolling) BY <1>1 DEF Rolling
<1>7. /\ u \in Light <=> call[u].at \in {"add", "insert"} /\ call[u].count < MaxSnapshots
      /\ u \in Light' <=> r.at \in {"add", "insert"} /\ r.count < MaxSnapshots
      /\ u \in Rolling <=> call[u].at = "roll"
      /\ u \in Rolling' <=> r.at = "roll"
  BY <1>1 DEF Light, Rolling
<1>8. Cardinality(Light') = Cardinality(Light)
        + (IF u \in Light' THEN 1 ELSE 0) - (IF u \in Light THEN 1 ELSE 0)
  BY <1>3, <1>5, MovesOne
<1>9. Cardinality(Rolling') = Cardinality(Rolling)
        + (IF u \in Rolling' THEN 1 ELSE 0) - (IF u \in Rolling THEN 1 ELSE 0)
  BY <1>3, <1>6, MovesOne
<1>10. ASSUME u \notin Light' PROVE Cardinality(Light') < Cardinality(Callers)
  <2>1. Light' \subseteq Callers \ {u} BY <1>2, <1>10
  <2>2. IsFiniteSet(Callers \ {u}) /\ Cardinality(Callers \ {u}) = Cardinality(Callers) - 1
    BY CallersAssumption, FS_RemoveElement
  <2>3. Cardinality(Light') <= Cardinality(Callers \ {u}) BY <2>1, <2>2, FS_Subset
  <2>4. QED BY <1>4, <2>2, <2>3
<1>11. QED BY <1>3, <1>4, <1>7, <1>8, <1>9, <1>10

\* The bound stays when u neither inserts nor rolls.
LEMMA RoomStays ==
  ASSUME SnapTypes, Room, NEW u \in Callers, NEW r \in CallType, S!Move(u, r),
         UNCHANGED historyIds, failures' \in Nat, failures' >= failures,
         r.at \notin {"add", "insert", "roll"}, call[u].at # "roll" \/ failures' > failures
  PROVE  Room'
<1>1. Cardinality(historyIds) \in Nat BY FiniteHistory
<1>2. Cardinality(historyIds') = Cardinality(historyIds) OBVIOUS
<1>3. /\ Cardinality(Light) \in Nat /\ Cardinality(Rolling) \in Nat /\ Cardinality(Callers) \in Nat
      /\ Cardinality(Light') \in 0..Cardinality(Light)
      /\ Cardinality(Rolling') = Cardinality(Rolling) - (IF call[u].at = "roll" THEN 1 ELSE 0)
  BY RoomMoves
<1>4. failures \in Nat /\ MaxSnapshots \in Nat BY SnapshotsAssumption DEF SnapTypes
<1>5. CASE call[u].at = "roll"
  <2>1. Cardinality(Rolling') = Cardinality(Rolling) - 1 /\ failures' > failures BY <1>3, <1>5
  <2>2. QED BY <1>1, <1>2, <1>3, <1>4, <2>1 DEF Room
<1>6. CASE call[u].at # "roll" BY <1>1, <1>2, <1>3, <1>4, <1>6 DEF Room
<1>7. QED BY <1>5, <1>6

\* The interleave tables stay those of one save when u begins none.
LEMMA OneSaveStays ==
  ASSUME SnapTypes, OneSave, NEW u \in Callers, NEW r \in CallType, S!Move(u, r),
         exact' => exact,
         r.at \in Storing \cup {"add", "insert"} => S!Saving(u),
         r.at = "store" => call[u].at = "store" /\ r.num = call[u].num,
         sets' = sets \/ (call[u].at = "store" /\ sets' = sets \cup {call[u].num})
  PROVE  OneSave'
<1> SUFFICES ASSUME exact PROVE OneSave' BY DEF OneSave
<1>1. call'[u] = r /\ \A w \in Callers \ {u} : call'[w] = call[w] BY CallMoves
<1>2. /\ \A v, w \in Callers : S!Saving(v) /\ S!Saving(w) => v = w
      /\ \E n \in Nat : sets \subseteq {n}
      /\ \A w \in Callers : call[w].at = "store" => sets \subseteq {call[w].num}
  BY DEF OneSave
<1>3. \A w \in Callers : S!Saving(w)' => S!Saving(w)
  BY <1>1 DEF S!Saving, S!Stores, Storing
<1>4. \A v, w \in Callers : S!Saving(v)' /\ S!Saving(w)' => v = w BY <1>2, <1>3
<1>5. call[u].num \in Nat BY DEF SnapTypes, CallType
<1>6. \E n \in Nat : sets' \subseteq {n}
  <2>1. CASE sets' = sets BY <1>2, <2>1
  <2>2. CASE call[u].at = "store" /\ sets' = sets \cup {call[u].num} BY <1>2, <1>5, <2>2
  <2>3. QED BY <2>1, <2>2
<1>7. ASSUME NEW w \in Callers, call'[w].at = "store" PROVE sets' \subseteq {call'[w].num}
  <2>1. call[w].at = "store" /\ call'[w].num = call[w].num BY <1>1, <1>7
  <2>2. CASE sets' = sets BY <1>2, <2>1, <2>2
  <2>3. CASE call[u].at = "store" /\ sets' = sets \cup {call[u].num}
    <3>1. S!Saving(w) /\ S!Saving(u) BY <2>1, <2>3 DEF S!Saving, S!Stores
    <3>2. w = u BY <1>2, <3>1
    <3>3. QED BY <1>2, <2>1, <2>3, <3>2
  <2>4. QED BY <2>2, <2>3
<1>8. QED BY <1>4, <1>6, <1>7 DEF OneSave

\* No unfiltered copy comes to stay.
LEMMA NoRawStays ==
  ASSUME SnapTypes, NoRaw, NEW u \in Callers, NEW r \in CallType, S!Move(u, r),
         r.file = "raw" => r.at = "filter"
  PROVE  NoRaw'
BY CallMoves DEF NoRaw

-----------------------------------------------------------------------------
(* Snapshots: the steps *)

\* A step of u that ends its save, or is not one of a save.
LEMMA EndStays ==
  ASSUME SnapInv, NEW u \in Callers, NEW r \in CallType, S!Move(u, r),
         UNCHANGED <<historyIds, mixed, rows, saved, sets, exact>>,
         failures' \in Nat, failures' >= failures, saves' \in Nat,
         r.at \notin Storing \cup {"add", "insert"}, r.file = "raw" => r.at = "filter",
         call[u].at # "roll" \/ failures' > failures
  PROVE  SnapInv'
<1>1. SnapTypes /\ Whole /\ Room /\ OneSave /\ NoRaw BY DEF SnapInv
<1>2. SnapTypes' BY <1>1, CallMoves DEF SnapTypes
<1>3. r.at # "add" /\ r.at # "insert" /\ r.at \notin Storing /\ r.at # "store" /\ r.at # "roll"
  BY DEF Storing
<1>4. Whole' BY <1>1, <1>3, WholeStays
<1>5. Room' BY <1>1, <1>3, RoomStays
<1>6. OneSave' BY <1>1, <1>3, OneSaveStays
<1>7. NoRaw' BY <1>1, NoRawStays
<1>8. QED BY <1>2, <1>4, <1>5, <1>6, <1>7 DEF SnapInv

\* A call that returns is idle, with its file.
LEMMA Returned ==
  ASSUME NEW u \in Callers, NEW path \in {"none", "empty", "raw", "filtered", "compressed", "encrypted", "left"},
         S!Return(u, path)
  PROVE  \E r \in CallType : S!Move(u, r) /\ r.at = "idle" /\ r.file = path
<1> DEFINE r == [S!Idle EXCEPT !.file = path]
<1>1. S!Idle \in CallType /\ S!Idle.at = "idle" BY DEF S!Idle, CallType, Ats
<1>2. r \in CallType /\ r.at = "idle" /\ r.file = path BY <1>1 DEF CallType
<1>3. S!Move(u, r) BY DEF S!Return, S!Move
<1>4. QED BY <1>2, <1>3

\* A save that ends goes on as a gather or returns, and what succeeded is saved.
LEMMA SaveEnded ==
  ASSUME NEW u \in Callers, NEW q \in CallType, S!EndSave(u, q)
  PROVE  /\ \E r \in CallType : S!Move(u, r) /\ r.at \in {"copy", "idle"} /\ r.file \in {q.file, "none"}
         /\ saved' = IF q.ok THEN saved \cup {[num |-> q.num, id |-> q.id, blind |-> q.blind]} ELSE saved
<1>1. CASE q.gather
  <2> DEFINE r == [q EXCEPT !.at = "copy"]
  <2>1. r \in CallType /\ r.at = "copy" /\ r.file = q.file BY DEF CallType, Ats
  <2>2. S!Move(u, r) BY <1>1 DEF S!EndSave
  <2> HIDE DEF r
  <2>3. QED BY <2>1, <2>2 DEF S!EndSave
<1>2. CASE ~q.gather
  <2>1. S!Return(u, "none") BY <1>2 DEF S!EndSave
  <2>2. \E r \in CallType : S!Move(u, r) /\ r.at = "idle" /\ r.file = "none" BY <2>1, Returned
  <2>3. QED BY <2>2 DEF S!EndSave
<1>3. QED BY <1>1, <1>2

\* The call of a save that begins.
LEMMA Begun ==
  ASSUME NEW n \in Nat, NEW m \in Nat, NEW g \in BOOLEAN
  PROVE  /\ S!NewSave(m, n, g) \in CallType
         /\ S!NewSave(m, n, g).num = m /\ S!NewSave(m, n, g).count = n
         /\ S!NewSave(m, n, g).id = 0 /\ S!NewSave(m, n, g).file = "none"
         /\ S!NewSave(m, n, g).at = "idle"
<1> DEFINE q1 == [S!Idle EXCEPT !.num = m]
           q2 == [q1 EXCEPT !.count = n]
<1>1. S!Idle \in CallType BY DEF S!Idle, CallType, Ats
<1>2. q1 \in CallType BY <1>1 DEF CallType
<1>3. q2 \in CallType BY <1>2 DEF CallType
<1>4. [q2 EXCEPT !.gather = g] \in CallType BY <1>3 DEF CallType
<1>5. S!NewSave(m, n, g) = [q2 EXCEPT !.gather = g] BY DEF S!NewSave
<1>6. QED BY <1>4, <1>5 DEF S!Idle

\* A save, or a gather, begins with the count of the snapshots.
LEMMA BeginKeeps ==
  ASSUME SnapInv, NEW u \in Callers, NEW gather \in BOOLEAN, S!Begin(u, gather)
  PROVE  SnapInv'
<1> DEFINE q == S!NewSave(saves + 1, S!Cardinality(historyIds), gather)
<1>1. SnapTypes /\ Whole /\ Room /\ OneSave /\ NoRaw BY DEF SnapInv
<1>2. Cardinality(historyIds) \in Nat /\ saves \in Nat /\ failures \in Nat /\ exact \in BOOLEAN
  BY <1>1, FiniteHistory DEF SnapTypes
<1>3. S!Cardinality(historyIds) = Cardinality(historyIds) BY SnapCount
<1>4. /\ q \in CallType /\ q.num = saves + 1 /\ q.count = Cardinality(historyIds)
      /\ q.id = 0 /\ q.file = "none" /\ q.at = "idle"
  <2>1. saves + 1 \in Nat /\ S!Cardinality(historyIds) \in Nat BY <1>2, <1>3
  <2>2. QED BY <1>3, <2>1, Begun
<1>5. /\ call[u].at = "idle" /\ saves' = saves + 1 /\ exact' = (exact /\ S!Running = {})
      /\ UNCHANGED <<historyIds, rows, sets, mixed>>
  BY DEF S!Begin
<1>6. \/ S!Move(u, [q EXCEPT !.at = "add"]) /\ UNCHANGED <<failures, saved>>
      \/ S!Fault /\ S!EndSave(u, [q EXCEPT !.ok = FALSE])
  BY DEF S!Begin
<1> HIDE DEF q
<1>7. exact' \in BOOLEAN /\ (exact' => exact /\ S!Running = {}) BY <1>5
<1>8. Room' /\ NoRaw' /\ Whole' /\ failures' \in Nat /\ call' \in [Callers -> CallType]
      /\ \E r \in CallType : S!Move(u, r) /\ r.at # "store"
  <2>1. CASE S!Move(u, [q EXCEPT !.at = "add"]) /\ UNCHANGED <<failures, saved>>
    <3> DEFINE r == [q EXCEPT !.at = "add"]
    <3>1. /\ r \in CallType /\ r.at = "add" /\ r.id = 0 /\ r.file = "none"
          /\ r.count = Cardinality(historyIds)
      BY <1>4 DEF CallType, Ats
    <3>2. S!Move(u, r) BY <2>1
    <3> HIDE DEF r
    <3>3. r.at # "insert" /\ r.at \notin Storing /\ r.at # "store" BY <3>1 DEF Storing
    <3>4. Whole' BY <1>1, <1>5, <2>1, <3>1, <3>2, <3>3, WholeStays
    <3>5. Room'
      <4>1. /\ Cardinality(Light) \in Nat /\ Cardinality(Rolling) \in Nat
            /\ Cardinality(Light') <= Cardinality(Callers) /\ Cardinality(Light') \in Nat
            /\ Cardinality(Callers) \in Nat
            /\ Cardinality(Light') = Cardinality(Light)
                 + (IF r.count < MaxSnapshots THEN 1 ELSE 0)
            /\ Cardinality(Rolling') = Cardinality(Rolling)
        BY <1>1, <1>5, <3>1, <3>2, RoomMoves
      <4>2. Cardinality(historyIds') = Cardinality(historyIds) BY <1>5
      <4>3. CASE r.count < MaxSnapshots
        BY <1>2, <2>1, <3>1, <4>1, <4>2, <4>3, SnapshotsAssumption DEF Room
      <4>4. CASE ~(r.count < MaxSnapshots)
        BY <1>1, <1>2, <2>1, <3>1, <4>1, <4>2, <4>4, SnapshotsAssumption DEF Room
      <4>5. QED BY <4>3, <4>4
    <3>6. NoRaw' BY <1>1, <3>1, <3>2, NoRawStays
    <3>7. QED BY <1>1, <1>2, <2>1, <3>1, <3>2, <3>4, <3>5, <3>6, CallMoves
  <2>2. CASE S!Fault /\ S!EndSave(u, [q EXCEPT !.ok = FALSE])
    <3> DEFINE q2 == [q EXCEPT !.ok = FALSE]
    <3>1. q2 \in CallType /\ ~q2.ok /\ q2.file = "none" BY <1>4 DEF CallType
    <3>2. S!EndSave(u, q2) BY <2>2
    <3> HIDE DEF q2
    <3>3. saved' = saved BY <3>1, <3>2, SaveEnded
    <3>4. PICK r \in CallType : S!Move(u, r) /\ r.at \in {"copy", "idle"} /\ r.file = "none"
      BY <3>1, <3>2, SaveEnded
    <3>5. r.at # "add" /\ r.at # "insert" /\ r.at \notin Storing /\ r.at # "store" /\ r.at # "roll"
      BY <3>4 DEF Storing
    <3>6. failures' = failures + 1 BY <2>2 DEF S!Fault
    <3>7. Whole' BY <1>1, <1>5, <3>3, <3>4, <3>5, WholeStays
    <3>8. failures' \in Nat /\ failures' >= failures BY <1>2, <3>6
    <3>9. Room' BY <1>1, <1>5, <3>4, <3>5, <3>8, RoomStays
    <3>10. NoRaw' BY <1>1, <3>4, NoRawStays
    <3>11. QED BY <1>1, <3>4, <3>5, <3>7, <3>8, <3>9, <3>10, CallMoves
  <2>3. QED BY <1>6, <2>1, <2>2
<1>9. SnapTypes' BY <1>1, <1>2, <1>5, <1>7, <1>8 DEF SnapTypes
<1>10. OneSave'
  <2> SUFFICES ASSUME exact' PROVE OneSave' BY DEF OneSave
  <2>1. PICK r \in CallType : S!Move(u, r) /\ r.at # "store" BY <1>8
  <2>2. call'[u] = r /\ \A w \in Callers \ {u} : call'[w] = call[w] BY <1>1, <2>1, CallMoves
  <2>3. \A w \in Callers : ~S!Saving(w) BY <1>7 DEF S!Running
  <2>4. \A w \in Callers \ {u} : ~S!Saving(w)' BY <2>2, <2>3 DEF S!Saving, S!Stores
  <2>5. \A w \in Callers : call'[w].at # "store" BY <2>1, <2>2, <2>3 DEF S!Saving, S!Stores
  <2>6. \E n \in Nat : sets \subseteq {n} BY <1>1, <1>7 DEF OneSave
  <2>7. QED BY <1>5, <2>4, <2>5, <2>6 DEF OneSave
<1>11. QED BY <1>8, <1>9, <1>10 DEF SnapInv

\* After the id is sought the save goes on with the roll or the host.
LEMMA Added ==
  ASSUME NEW q \in CallType
  PROVE  /\ S!AfterAdd(q) \in CallType
         /\ S!AfterAdd(q).at = IF q.count >= MaxSnapshots THEN "roll" ELSE "host"
         /\ S!AfterAdd(q).id = q.id /\ S!AfterAdd(q).num = q.num /\ S!AfterAdd(q).ok = q.ok
         /\ S!AfterAdd(q).file = q.file
BY DEF S!AfterAdd, S!MustRoll, CallType, Ats

\* One row more at most, whose place was counted or is to be rolled away.
LEMMA RoomAfterAdd ==
  ASSUME SnapTypes, Room, NEW u \in Callers, NEW r \in CallType, S!Move(u, r),
         call[u].at \in {"add", "insert"},
         r.at = IF call[u].count >= MaxSnapshots THEN "roll" ELSE "host",
         historyIds' = historyIds \/ \E id : id \notin historyIds /\ historyIds' = historyIds \cup {id},
         failures' \in Nat, failures' >= failures
  PROVE  Room'
<1>1. Cardinality(historyIds) \in Nat /\ IsFiniteSet(historyIds) BY FiniteHistory
<1>2. Cardinality(historyIds') \in Cardinality(historyIds)..(Cardinality(historyIds) + 1)
  <2>1. CASE historyIds' = historyIds BY <1>1, <2>1
  <2>2. CASE \E id : id \notin historyIds /\ historyIds' = historyIds \cup {id}
    <3>1. PICK id : id \notin historyIds /\ historyIds' = historyIds \cup {id} BY <2>2
    <3>2. Cardinality(historyIds \cup {id}) = Cardinality(historyIds) + 1
      BY <1>1, <3>1, FS_AddElement
    <3>3. QED BY <1>1, <3>1, <3>2
  <2>3. QED BY <2>1, <2>2
<1>3. /\ Cardinality(Light) \in Nat /\ Cardinality(Rolling) \in Nat /\ Cardinality(Callers) \in Nat
      /\ Cardinality(Light') \in Nat /\ call[u].count \in Nat
      /\ Cardinality(Light') = Cardinality(Light) - (IF call[u].count < MaxSnapshots THEN 1 ELSE 0)
      /\ Cardinality(Rolling') = Cardinality(Rolling) + (IF r.at = "roll" THEN 1 ELSE 0)
  <2>1. call[u] \in CallType BY DEF SnapTypes
  <2>2. call[u].count \in Nat BY <2>1 DEF CallType
  <2>3. r.at \notin {"add", "insert"} OBVIOUS
  <2>4. QED BY <2>2, <2>3, RoomMoves
<1>4. failures \in Nat /\ MaxSnapshots \in Nat BY SnapshotsAssumption DEF SnapTypes
<1>5. CASE call[u].count < MaxSnapshots
  <2>1. Cardinality(Light') = Cardinality(Light) - 1 /\ Cardinality(Rolling') = Cardinality(Rolling)
    BY <1>3, <1>4, <1>5
  <2>2. QED BY <1>1, <1>2, <1>3, <1>4, <2>1 DEF Room
<1>6. CASE ~(call[u].count < MaxSnapshots)
  <2>1. Cardinality(Light') = Cardinality(Light) /\ Cardinality(Rolling') = Cardinality(Rolling) + 1
    BY <1>3, <1>4, <1>6
  <2>2. QED BY <1>1, <1>2, <1>3, <1>4, <2>1 DEF Room
<1>7. QED BY <1>5, <1>6

\* The newest id is sought.
LEMMA AddReadKeeps ==
  ASSUME SnapInv, NEW u \in Callers, S!AddRead(u)
  PROVE  SnapInv'
<1>1. SnapTypes /\ Whole /\ Room /\ OneSave /\ NoRaw BY DEF SnapInv
<1>2. /\ call[u].at = "add" /\ UNCHANGED <<historyIds, rows, sets, saves, saved, mixed, exact>>
      /\ failures \in Nat /\ saves \in Nat /\ exact \in BOOLEAN /\ call[u] \in CallType
  BY <1>1 DEF S!AddRead, SnapTypes
<1>3. call[u].id = 0 /\ call[u].file # "raw" /\ S!Saving(u)
  BY <1>1, <1>2 DEF Whole, Numbered, NoRaw, S!Saving
<1>4. \/ /\ S!Move(u, [call[u] EXCEPT !.at = "insert", !.id = S!NextId]) /\ UNCHANGED failures
      \/ /\ S!Fault /\ S!Move(u, S!AfterAdd([call[u] EXCEPT !.ok = FALSE]))
  BY DEF S!AddRead
<1>5. \E r \in CallType :
        /\ S!Move(u, r) /\ failures' \in Nat /\ failures' >= failures /\ r.file # "raw"
        /\ \/ r.at = "insert" /\ r.id # 0 /\ r.count = call[u].count
           \/ /\ ~r.ok /\ r.id = 0
              /\ r.at = IF call[u].count >= MaxSnapshots THEN "roll" ELSE "host"
  <2>1. CASE S!Move(u, [call[u] EXCEPT !.at = "insert", !.id = S!NextId]) /\ UNCHANGED failures
    <3> DEFINE q == [call[u] EXCEPT !.at = "insert"]
               r == [q EXCEPT !.id = S!NextId]
    <3>1. q \in CallType /\ q.file = call[u].file /\ q.at = "insert" /\ q.count = call[u].count
      BY <1>2 DEF CallType, Ats
    <3>2. S!NextId \in Nat \ {0} BY <1>1, NextIdIsNew
    <3>3. [call[u] EXCEPT !.at = "insert", !.id = S!NextId] = r OBVIOUS
    <3> HIDE DEF q
    <3>4. /\ r \in CallType /\ r.file = q.file /\ r.at = q.at /\ r.count = q.count
          /\ r.id = S!NextId
      BY <3>1, <3>2 DEF CallType
    <3> HIDE DEF r
    <3>5. S!Move(u, r) BY <2>1, <3>3
    <3>6. QED BY <1>2, <1>3, <2>1, <3>1, <3>2, <3>4, <3>5
  <2>2. CASE S!Fault /\ S!Move(u, S!AfterAdd([call[u] EXCEPT !.ok = FALSE]))
    <3> DEFINE q == [call[u] EXCEPT !.ok = FALSE]
               r == S!AfterAdd(q)
    <3>1. /\ q \in CallType /\ q.file = call[u].file /\ ~q.ok /\ q.id = call[u].id
          /\ q.count = call[u].count
      BY <1>2 DEF CallType
    <3> HIDE DEF q
    <3>2. /\ r \in CallType /\ r.file = q.file /\ r.ok = q.ok /\ r.id = q.id
          /\ r.at = IF q.count >= MaxSnapshots THEN "roll" ELSE "host"
      BY <3>1, Added
    <3>3. S!Move(u, r) BY <2>2 DEF q
    <3> HIDE DEF r
    <3>4. failures' = failures + 1 BY <2>2 DEF S!Fault
    <3>5. QED BY <1>2, <1>3, <3>1, <3>2, <3>3, <3>4
  <2>3. QED BY <1>4, <2>1, <2>2
<1>6. PICK r \in CallType :
        /\ S!Move(u, r) /\ failures' \in Nat /\ failures' >= failures /\ r.file # "raw"
        /\ \/ r.at = "insert" /\ r.id # 0 /\ r.count = call[u].count
           \/ /\ ~r.ok /\ r.id = 0
              /\ r.at = IF call[u].count >= MaxSnapshots THEN "roll" ELSE "host"
  BY <1>5
<1>7. SnapTypes' BY <1>1, <1>2, <1>6, CallMoves DEF SnapTypes
<1>8. r.at # "add" /\ r.at # "store" BY <1>6
<1>9. Whole' BY <1>1, <1>2, <1>6, <1>8, WholeStays DEF Storing
<1>10. OneSave' BY <1>1, <1>2, <1>3, <1>6, <1>8, OneSaveStays
<1>11. NoRaw' BY <1>1, <1>6, NoRawStays
<1>12. Room'
  <2>1. CASE r.at = "insert"
    <3>1. /\ Cardinality(Light) \in Nat /\ Cardinality(Rolling) \in Nat /\ Cardinality(Callers) \in Nat
          /\ Cardinality(Light') = Cardinality(Light) /\ Cardinality(Rolling') = Cardinality(Rolling)
      <4>1. r.count = call[u].count BY <1>6, <2>1
      <4>2. QED BY <1>1, <1>2, <1>6, <2>1, <4>1, RoomMoves
    <3>2. Cardinality(historyIds') = Cardinality(historyIds) /\ Cardinality(historyIds) \in Nat
      BY <1>1, <1>2, FiniteHistory
    <3>3. QED BY <1>1, <1>2, <1>6, <3>1, <3>2, SnapshotsAssumption DEF Room
  <2>2. CASE r.at # "insert"
    <3>1. r.at = IF call[u].count >= MaxSnapshots THEN "roll" ELSE "host" BY <1>6, <2>2
    <3>2. QED BY <1>1, <1>2, <1>6, <3>1, RoomAfterAdd
  <2>3. QED BY <2>1, <2>2
<1>13. QED BY <1>7, <1>9, <1>10, <1>11, <1>12 DEF SnapInv

\* The row of the id is inserted, or cannot be.
LEMMA AddInsertKeeps ==
  ASSUME SnapInv, NEW u \in Callers, S!AddInsert(u)
  PROVE  SnapInv'
<1> DEFINE id == call[u].id
<1>1. SnapTypes /\ Whole /\ Room /\ OneSave /\ NoRaw BY DEF SnapInv
<1>2. /\ call[u].at = "insert" /\ UNCHANGED <<rows, sets, saves, saved, exact>>
      /\ failures \in Nat /\ saves \in Nat /\ exact \in BOOLEAN /\ call[u] \in CallType
  BY <1>1 DEF S!AddInsert, SnapTypes
<1>3. id \in Nat \ {0} /\ call[u].file # "raw" /\ S!Saving(u) /\ ~S!Stores(u)
  BY <1>1, <1>2 DEF Whole, Numbered, NoRaw, S!Saving, S!Stores, CallType
<1>4. \/ /\ id \notin historyIds /\ historyIds' = historyIds \cup {id}
         /\ S!Move(u, S!AfterAdd(call[u]))
         /\ mixed' = IF S!Using(id) = {} /\ \A x \in rows : x.id # id THEN mixed
                     ELSE mixed \cup {call[u].num}
         /\ UNCHANGED failures
      \/ /\ UNCHANGED failures \/ S!Fault
         /\ S!Move(u, S!AfterAdd([call[u] EXCEPT !.ok = FALSE]))
         /\ mixed' = mixed \cup S!Using(id) \cup {s.num : s \in {t \in saved : t.id = id}}
         /\ UNCHANGED historyIds
  BY DEF S!AddInsert
<1> HIDE DEF id
<1>5. \E r \in CallType :
        /\ S!Move(u, r) /\ failures' \in Nat /\ failures' >= failures /\ r.file # "raw"
        /\ r.id = id /\ r.num = call[u].num
        /\ r.at = IF call[u].count >= MaxSnapshots THEN "roll" ELSE "host"
        /\ \/ /\ id \notin historyIds /\ historyIds' = historyIds \cup {id}
              /\ mixed' = IF S!Using(id) = {} /\ \A x \in rows : x.id # id THEN mixed
                          ELSE mixed \cup {call[u].num}
           \/ /\ ~r.ok /\ UNCHANGED historyIds
              /\ mixed' = mixed \cup S!Using(id) \cup {s.num : s \in {t \in saved : t.id = id}}
  <2>1. failures' \in Nat /\ failures' >= failures BY <1>2, <1>4 DEF S!Fault
  <2>2. CASE S!Move(u, S!AfterAdd(call[u]))
             /\ id \notin historyIds /\ historyIds' = historyIds \cup {id}
             /\ mixed' = IF S!Using(id) = {} /\ \A x \in rows : x.id # id THEN mixed
                         ELSE mixed \cup {call[u].num}
    <3> DEFINE r == S!AfterAdd(call[u])
    <3>1. /\ r \in CallType /\ r.file = call[u].file /\ r.id = call[u].id /\ r.num = call[u].num
          /\ r.at = IF call[u].count >= MaxSnapshots THEN "roll" ELSE "host"
      BY <1>2, Added
    <3>2. S!Move(u, r) BY <2>2
    <3> HIDE DEF r
    <3>3. QED BY <1>3, <2>1, <2>2, <3>1, <3>2 DEF id
  <2>3. CASE /\ S!Move(u, S!AfterAdd([call[u] EXCEPT !.ok = FALSE])) /\ UNCHANGED historyIds
             /\ mixed' = mixed \cup S!Using(id) \cup {s.num : s \in {t \in saved : t.id = id}}
    <3> DEFINE q == [call[u] EXCEPT !.ok = FALSE]
               r == S!AfterAdd(q)
    <3>1. /\ q \in CallType /\ q.file = call[u].file /\ ~q.ok /\ q.id = call[u].id
          /\ q.count = call[u].count /\ q.num = call[u].num
      BY <1>2 DEF CallType
    <3> HIDE DEF q
    <3>2. /\ r \in CallType /\ r.file = q.file /\ r.id = q.id /\ r.num = q.num /\ r.ok = q.ok
          /\ r.at = IF q.count >= MaxSnapshots THEN "roll" ELSE "host"
      BY <3>1, Added
    <3>3. S!Move(u, r) BY <2>3 DEF q
    <3> HIDE DEF r
    <3>4. QED BY <1>3, <2>1, <2>3, <3>1, <3>2, <3>3 DEF id
  <2>4. QED BY <1>4, <2>2, <2>3
<1>6. PICK r \in CallType :
        /\ S!Move(u, r) /\ failures' \in Nat /\ failures' >= failures /\ r.file # "raw"
        /\ r.id = id /\ r.num = call[u].num
        /\ r.at = IF call[u].count >= MaxSnapshots THEN "roll" ELSE "host"
        /\ \/ /\ id \notin historyIds /\ historyIds' = historyIds \cup {id}
              /\ mixed' = IF S!Using(id) = {} /\ \A x \in rows : x.id # id THEN mixed
                          ELSE mixed \cup {call[u].num}
           \/ /\ ~r.ok /\ UNCHANGED historyIds
              /\ mixed' = mixed \cup S!Using(id) \cup {s.num : s \in {t \in saved : t.id = id}}
  BY <1>5
<1>7. call'[u] = r /\ (\A w \in Callers \ {u} : call'[w] = call[w]) /\ call' \in [Callers -> CallType]
  BY <1>1, <1>6, CallMoves
<1>8. historyIds \subseteq historyIds' /\ historyIds' \subseteq historyIds \cup {id} /\ mixed \subseteq mixed'
  BY <1>6
<1>9. SnapTypes'
  <2>1. PICK N \in Nat : historyIds \subseteq 1..N BY <1>1 DEF SnapTypes
  <2>2. CASE id <= N
    <3>1. id \in 1..N BY <1>3, <2>1, <2>2
    <3>2. historyIds' \subseteq 1..N BY <1>8, <2>1, <3>1
    <3>3. QED BY <1>2, <1>6, <1>7, <3>2 DEF SnapTypes
  <2>3. CASE id > N
    <3>1. id \in 1..id /\ 1..N \subseteq 1..id BY <1>3, <2>1, <2>3
    <3>2. historyIds' \subseteq 1..id BY <1>8, <2>1, <3>1
    <3>3. QED BY <1>2, <1>3, <1>6, <1>7, <3>2 DEF SnapTypes
  <2>4. QED BY <1>3, <2>2, <2>3
<1>10. OneSave' BY <1>1, <1>2, <1>3, <1>6, OneSaveStays
<1>11. NoRaw' BY <1>1, <1>6, NoRawStays
<1>12. Room' BY <1>1, <1>2, <1>6, RoomAfterAdd
<1>13. \A w \in Callers \ {u} : (S!Stores(w)' <=> S!Stores(w)) BY <1>7 DEF S!Stores
<1>14. \A w \in Callers : LiveKept(w) /\ Numbered(w) BY <1>1 DEF Whole
<1>15. ASSUME NEW w \in Callers PROVE Numbered(w)' BY <1>6, <1>7, <1>14 DEF Numbered
<1>16. ASSUME NEW w \in Callers PROVE LiveKept(w)'
  <2>1. CASE w # u
    <3> SUFFICES ASSUME Live(w)' PROVE LiveKept(w)' BY DEF LiveKept
    <3>1. Live(w) /\ call[w].num \notin mixed' BY <1>7, <1>8, <1>13, <2>1 DEF Live
    <3>2. /\ Owned(call[w].id, call[w].num)
          /\ \A v \in Callers \ {w} : S!Stores(v) => call[v].id # call[w].id
          /\ call[w].at = "store" => PartsBefore(call[w].part, call[w].id, call[w].num)
      BY <1>14, <3>1 DEF LiveKept
    <3>3. call[w].id # id
      <4>1. CASE id \notin historyIds BY <3>2, <4>1 DEF Owned
      <4>2. CASE mixed' = mixed \cup S!Using(id) \cup {s.num : s \in {t \in saved : t.id = id}}
        BY <3>1, <4>2 DEF S!Using, Live
      <4>3. QED BY <1>6, <4>1, <4>2
    <3>4. Owned(call[w].id, call[w].num)' BY <1>2, <1>7, <1>8, <2>1, <3>2 DEF Owned
    <3>5. \A v \in Callers \ {w} : S!Stores(v)' => call'[v].id # call[w].id
      BY <1>6, <1>7, <1>13, <3>2, <3>3
    <3>6. call[w].at = "store" => PartsBefore(call[w].part, call[w].id, call[w].num)'
      BY <1>2, <1>7, <2>1, <3>2 DEF PartsBefore
    <3>7. QED BY <1>7, <2>1, <3>4, <3>5, <3>6 DEF LiveKept
  <2>2. CASE w = u
    <3> SUFFICES ASSUME Live(u)' PROVE LiveKept(u)' BY <2>2 DEF LiveKept
    <3>1. r.ok /\ r.num \notin mixed' BY <1>7 DEF Live
    <3>2. /\ historyIds' = historyIds \cup {id} /\ S!Using(id) = {} /\ \A x \in rows : x.id # id
      BY <1>6, <3>1
    <3>3. Owned(r.id, r.num)' BY <1>2, <1>6, <3>2 DEF Owned
    <3>4. \A v \in Callers \ {u} : S!Stores(v)' => call'[v].id # r.id
      BY <1>6, <1>7, <1>13, <3>2 DEF S!Using
    <3>5. r.at # "store" BY <1>6
    <3>6. QED BY <1>6, <1>7, <3>3, <3>4, <3>5 DEF LiveKept
  <2>3. QED BY <2>1, <2>2
<1>17. ASSUME NEW s \in saved' PROVE SavedKept(s)'
  <2> SUFFICES ASSUME s.num \notin mixed' PROVE SavedKept(s)' BY DEF SavedKept
  <2>1. s \in saved /\ s.num \notin mixed BY <1>2, <1>8
  <2>2. /\ Owned(s.id, s.num)
        /\ \A w \in Callers : S!Stores(w) => call[w].id # s.id
        /\ \A j \in S!ToldSteps : j < S!FirstOfDimm \/ ~s.blind =>
             [part |-> S!AllParts[j].name, id |-> s.id, num |-> s.num] \in rows
    BY <1>1, <2>1 DEF Whole, SavedKept
  <2>3. s.id # id
    <3>1. CASE id \notin historyIds BY <2>2, <3>1 DEF Owned
    <3>2. CASE mixed' = mixed \cup S!Using(id) \cup {x.num : x \in {t \in saved : t.id = id}}
      BY <2>1, <3>2
    <3>3. QED BY <1>6, <3>1, <3>2
  <2>4. Owned(s.id, s.num)' BY <1>2, <1>8, <2>2 DEF Owned
  <2>5. \A w \in Callers : S!Stores(w)' => call'[w].id # s.id BY <1>6, <1>7, <1>13, <2>2, <2>3
  <2>6. QED BY <1>2, <2>2, <2>4, <2>5 DEF SavedKept
<1>18. Whole' BY <1>15, <1>16, <1>17 DEF Whole
<1>19. QED BY <1>9, <1>10, <1>11, <1>12, <1>18 DEF SnapInv

\* A roll leaves as many ids as there may be.
LEMMA NewestFits ==
  ASSUME SnapTypes
  PROVE  /\ S!Newest \subseteq historyIds /\ S!Latest \subseteq S!Newest
         /\ IsFiniteSet(S!Newest) /\ Cardinality(S!Newest) \in 0..MaxSnapshots
<1> DEFINE Later(id) == {i \in historyIds : i > id}
<1>1. IsFiniteSet(historyIds) BY FiniteHistory
<1>2. S!Newest = {id \in historyIds : Cardinality(Later(id)) < MaxSnapshots}
  BY SnapCount DEF S!Newest
<1>3. S!Latest = {id \in historyIds : \E n \in 0..(MaxSnapshots - 1) : Cardinality(Later(id)) = n}
  BY SnapCount DEF S!Latest
<1>4. MaxSnapshots \in Nat \ {0} BY SnapshotsAssumption
<1>5. S!Newest \subseteq historyIds BY <1>2
<1>6. S!Latest \subseteq S!Newest BY <1>2, <1>3, <1>4
<1>7. IsFiniteSet(S!Newest) /\ Cardinality(S!Newest) \in Nat BY <1>1, <1>5, FS_Subset, FS_CardinalityType
<1>8. Cardinality(S!Newest) <= MaxSnapshots
  <2>1. CASE S!Newest = {} BY <1>4, <2>1, FS_EmptySet
  <2>2. CASE S!Newest # {}
    <3>1. PICK N \in Nat : historyIds \subseteq 1..N BY DEF SnapTypes
    <3>2. S!Newest \in SUBSET Nat BY <1>5, <3>1
    <3>3. PICK m \in S!Newest : \A y \in S!Newest : m <= y BY <2>2, <3>2, MinIsLeast
    <3>4. Later(m) \subseteq historyIds OBVIOUS
    <3>5. IsFiniteSet(Later(m)) /\ Cardinality(Later(m)) \in Nat BY <1>1, <3>4, FS_Subset, FS_CardinalityType
    <3>6. Cardinality(Later(m)) < MaxSnapshots BY <1>2, <3>3
    <3>7. S!Newest \ {m} \subseteq Later(m)
      <4> SUFFICES ASSUME NEW y \in S!Newest, y # m PROVE y \in Later(m) OBVIOUS
      <4>1. y \in Nat /\ m \in Nat /\ y \in historyIds /\ m <= y BY <1>5, <3>2, <3>3
      <4>2. QED BY <4>1
    <3> HIDE DEF Later
    <3>8. Cardinality(S!Newest \ {m}) <= Cardinality(Later(m)) BY <3>5, <3>7, FS_Subset
    <3>9. Cardinality(S!Newest \ {m}) = Cardinality(S!Newest) - 1 BY <1>7, <3>3, FS_RemoveElement
    <3>10. QED BY <1>4, <1>7, <3>5, <3>6, <3>8, <3>9
  <2>3. QED BY <2>1, <2>2
<1>9. QED BY <1>4, <1>5, <1>6, <1>7, <1>8

\* The oldest snapshots are rolled away.
LEMMA RollKeeps ==
  ASSUME SnapInv, NEW u \in Callers, S!Roll(u)
  PROVE  SnapInv'
<1> DEFINE r == [call[u] EXCEPT !.at = "host"]
<1>1. SnapTypes /\ Whole /\ Room /\ OneSave /\ NoRaw BY DEF SnapInv
<1>2. /\ call[u].at = "roll" /\ UNCHANGED <<sets, saves, exact>>
      /\ failures \in Nat /\ saves \in Nat /\ exact \in BOOLEAN /\ call[u] \in CallType
      /\ saved' = {s \in saved : s.id \in S!Latest}
      /\ mixed' = mixed \cup {call[v].num : v \in {w \in Callers : S!Stores(w) /\ call[w].id \notin S!Latest}}
      /\ S!Move(u, r)
  BY <1>1 DEF S!Roll, SnapTypes
<1>3. /\ rows' \subseteq rows /\ (\A x \in rows : x.id \in S!Newest => x \in rows')
      /\ \/ historyIds' = S!Newest /\ UNCHANGED failures
         \/ failures' = failures + 1 /\ historyIds' \in {historyIds, S!Newest}
  BY DEF S!Roll, S!Fault
<1>4. /\ r \in CallType /\ r.at = "host" /\ r.file = call[u].file /\ r.id = call[u].id
      /\ r.num = call[u].num /\ r.ok = call[u].ok
  BY <1>2 DEF CallType, Ats
<1> HIDE DEF r
<1>5. call[u].file # "raw" /\ S!Saving(u) /\ S!Stores(u)
  BY <1>1, <1>2 DEF NoRaw, S!Saving, S!Stores
<1>6. /\ S!Newest \subseteq historyIds /\ S!Latest \subseteq S!Newest
      /\ Cardinality(S!Newest) \in 0..MaxSnapshots
  BY <1>1, NewestFits
<1>7. call'[u] = r /\ (\A w \in Callers \ {u} : call'[w] = call[w]) /\ call' \in [Callers -> CallType]
  BY <1>1, <1>2, <1>4, CallMoves
<1>8. S!Latest \subseteq historyIds' /\ historyIds' \subseteq historyIds BY <1>3, <1>6
<1>9. failures' \in Nat /\ failures' >= failures BY <1>2, <1>3
<1>10. SnapTypes'
  <2>1. PICK N \in Nat : historyIds \subseteq 1..N BY <1>1 DEF SnapTypes
  <2>2. historyIds' \subseteq 1..N BY <1>8, <2>1
  <2>3. QED BY <1>2, <1>7, <1>9, <2>2 DEF SnapTypes
<1>11. OneSave' BY <1>1, <1>2, <1>4, <1>5, OneSaveStays
<1>12. NoRaw' BY <1>1, <1>2, <1>4, <1>5, NoRawStays
<1>13. Room'
  <2>1. /\ Cardinality(Light) \in Nat /\ Cardinality(Rolling) \in Nat /\ Cardinality(Callers) \in Nat
        /\ Cardinality(Light') = Cardinality(Light)
        /\ Cardinality(Rolling') = Cardinality(Rolling) - 1
    BY <1>1, <1>2, <1>4, RoomMoves
  <2>2. Cardinality(Light') < Cardinality(Callers) /\ Cardinality(Rolling') \in Nat
    <3>1. u \notin Light' BY <1>4, <1>7 DEF Light
    <3>2. Cardinality(Light') < Cardinality(Callers) BY <1>1, <1>2, <1>4, <3>1, RoomMoves
    <3>3. Rolling' \subseteq Callers BY DEF Rolling
    <3>4. QED BY <3>2, <3>3, CallersAssumption, FS_Subset, FS_CardinalityType
  <2>3. Cardinality(historyIds) \in Nat BY <1>1, FiniteHistory
  <2>4. MaxSnapshots \in Nat BY SnapshotsAssumption
  <2>5. CASE historyIds' = S!Newest
    <3>1. Cardinality(historyIds') \in 0..MaxSnapshots BY <1>6, <2>5
    <3>2. QED BY <1>9, <2>1, <2>2, <2>4, <3>1 DEF Room
  <2>6. CASE failures' = failures + 1 /\ historyIds' = historyIds
    <3>1. Cardinality(historyIds') = Cardinality(historyIds) BY <2>6
    <3>2. QED BY <1>1, <1>2, <2>1, <2>3, <2>4, <2>6, <3>1 DEF Room
  <2>7. QED BY <1>3, <2>5, <2>6
<1>14. \A w \in Callers : (S!Stores(w)' <=> S!Stores(w)) /\ call'[w].id = call[w].id
                          /\ call'[w].num = call[w].num /\ call'[w].ok = call[w].ok
  BY <1>2, <1>4, <1>7 DEF S!Stores
<1>15. \A w \in Callers : LiveKept(w) /\ Numbered(w) BY <1>1 DEF Whole
<1>16. ASSUME NEW w \in Callers PROVE Numbered(w)' BY <1>4, <1>7, <1>15 DEF Numbered
<1>17. ASSUME NEW w \in Callers PROVE LiveKept(w)'
  <2> SUFFICES ASSUME Live(w)' PROVE LiveKept(w)' BY DEF LiveKept
  <2>1. Live(w) /\ call[w].id \in S!Latest BY <1>2, <1>14 DEF Live
  <2>2. /\ Owned(call[w].id, call[w].num)
        /\ \A v \in Callers \ {w} : S!Stores(v) => call[v].id # call[w].id
        /\ call[w].at = "store" => PartsBefore(call[w].part, call[w].id, call[w].num)
    BY <1>15, <2>1 DEF LiveKept
  <2>3. Owned(call[w].id, call[w].num)' BY <1>3, <1>8, <1>14, <2>1, <2>2 DEF Owned
  <2>4. \A v \in Callers \ {w} : S!Stores(v)' => call'[v].id # call'[w].id BY <1>14, <2>2
  <2>5. call'[w].at = "store" => PartsBefore(call[w].part, call[w].id, call[w].num)'
    <3> SUFFICES ASSUME call'[w].at = "store" PROVE PartsBefore(call[w].part, call[w].id, call[w].num)'
      OBVIOUS
    <3>1. call'[w] = call[w] BY <1>4, <1>7
    <3>2. QED BY <1>3, <1>6, <2>1, <2>2, <3>1 DEF PartsBefore
  <2>6. QED BY <1>14, <2>3, <2>4, <2>5 DEF LiveKept
<1>18. ASSUME NEW s \in saved' PROVE SavedKept(s)'
  <2> SUFFICES ASSUME s.num \notin mixed' PROVE SavedKept(s)' BY DEF SavedKept
  <2>1. s \in saved /\ s.num \notin mixed /\ s.id \in S!Latest BY <1>2
  <2>2. /\ Owned(s.id, s.num)
        /\ \A w \in Callers : S!Stores(w) => call[w].id # s.id
        /\ \A j \in S!ToldSteps : j < S!FirstOfDimm \/ ~s.blind =>
             [part |-> S!AllParts[j].name, id |-> s.id, num |-> s.num] \in rows
    BY <1>1, <2>1 DEF Whole, SavedKept
  <2>3. Owned(s.id, s.num)' BY <1>3, <1>8, <2>1, <2>2 DEF Owned
  <2>4. \A w \in Callers : S!Stores(w)' => call'[w].id # s.id BY <1>14, <2>2
  <2>5. QED BY <1>3, <1>6, <2>1, <2>2, <2>3, <2>4 DEF SavedKept
<1>19. Whole' BY <1>16, <1>17, <1>18 DEF Whole
<1>20. QED BY <1>10, <1>11, <1>12, <1>13, <1>19 DEF SnapInv

\* After i comes a step that is later, and none is between.
LEMMA AfterIs ==
  ASSUME NEW i \in Nat
  PROVE  /\ S!After(i) \in Nat
         /\ \A j \in S!Steps : j \in Nat /\ j >= 2 /\ (j < S!After(i) => j <= i)
         /\ S!After(i) > Len(S!AllParts) => \A j \in S!Steps : j <= i
<1> DEFINE later == {j \in S!Steps : j > i}
<1>1. Len(S!AllParts) = 18 BY DEF S!AllParts
<1>2. S!Steps \subseteq 2..Len(S!AllParts) BY DEF S!Steps
<1>3. S!Steps \subseteq 2..18 BY <1>1, <1>2
<1>4. CASE later = {}
  <2>1. S!After(i) = Len(S!AllParts) + 1 BY <1>4 DEF S!After
  <2>2. \A j \in S!Steps : j \in Nat /\ j >= 2 /\ j <= i BY <1>3, <1>4
  <2>3. QED BY <1>1, <2>1, <2>2
<1>5. CASE later # {}
  <2>1. later \in SUBSET Nat
    <3>1. \A j \in later : j \in 2..18 BY <1>3
    <3>2. \A j \in 2..18 : j \in Nat OBVIOUS
    <3> HIDE DEF later
    <3>3. QED BY <3>1, <3>2
  <2>2. Min(later) \in later /\ \A y \in later : Min(later) <= y BY <1>5, <2>1, MinIsLeast
  <2>3. S!Min(later) = Min(later) BY Zenon DEF S!Min, Min
  <2>4. S!After(i) = S!Min(later) BY <1>5 DEF S!After
  <2>5. PICK m \in later : m = Min(later) BY <2>2
  <2>6. S!After(i) = m /\ m \in 2..18 /\ (\A y \in later : m <= y) BY <1>3, <2>2, <2>3, <2>4, <2>5
  <2>7. ASSUME NEW j \in S!Steps PROVE j \in Nat /\ j >= 2 /\ (j < m => j <= i) BY <1>3, <2>6
  <2>8. QED BY <1>1, <2>6, <2>7
<1>6. QED BY <1>4, <1>5

\* What is stored of p by a save that is still to succeed when ok says so.
RowKept(u, p, ok) ==
  /\ rows' = rows
     \/ rows' = rows \cup {[part |-> p.name, id |-> call[u].id, num |-> call[u].num]}
  /\ sets' = sets \/ (p = S!PlatformConfigData /\ sets' = sets \cup {call[u].num})
  /\ ok => call[u].ok
  /\ ok /\ p.readTold /\ p.insertTold =>
       [part |-> p.name, id |-> call[u].id, num |-> call[u].num] \in rows'
  /\ failures' \in Nat /\ failures' >= failures

\* A part whose failure is told is stored when the save is still to succeed.
LEMMA RowStored ==
  ASSUME SnapTypes, NEW u \in Callers, NEW p, NEW ok \in BOOLEAN, S!StoreRow(u, p, ok)
  PROVE  RowKept(u, p, ok)
<1> DEFINE entry == [part |-> p.name, id |-> call[u].id, num |-> call[u].num]
<1>1. failures \in Nat BY DEF SnapTypes
<1>2. \/ /\ rows' = rows \cup {entry}
         /\ sets' = IF p = S!PlatformConfigData THEN sets \cup {call[u].num} ELSE sets
         /\ ok = call[u].ok /\ failures' = failures
      \/ /\ failures' = failures + 1
         /\ ok \in {call[u].ok /\ ~p.readTold, call[u].ok /\ ~p.insertTold}
         /\ rows' = rows /\ sets' = sets
  BY DEF S!StoreRow, S!Fault
<1> HIDE DEF entry
<1>3. CASE /\ rows' = rows \cup {entry}
           /\ sets' = IF p = S!PlatformConfigData THEN sets \cup {call[u].num} ELSE sets
           /\ ok = call[u].ok /\ failures' = failures
  <2>1. entry \in rows' BY <1>3
  <2>2. failures' \in Nat /\ failures' >= failures BY <1>1, <1>3
  <2>3. ok => call[u].ok BY <1>3, Zenon
  <2>4. sets' = sets \/ (p = S!PlatformConfigData /\ sets' = sets \cup {call[u].num}) BY <1>3, Zenon
  <2>5. QED BY <1>3, <2>1, <2>2, <2>3, <2>4, Zenon DEF entry, RowKept
<1>4. CASE /\ failures' = failures + 1
           /\ ok \in {call[u].ok /\ ~p.readTold, call[u].ok /\ ~p.insertTold}
           /\ rows' = rows /\ sets' = sets
  <2>1. failures' \in Nat /\ failures' >= failures BY <1>1, <1>4
  <2>2. (ok => call[u].ok) /\ ~(ok /\ p.readTold /\ p.insertTold) BY <1>4, Zenon
  <2>3. QED BY <1>4, <2>1, <2>2, Zenon DEF entry, RowKept
<1>5. QED BY <1>2, <1>3, <1>4

\* The host is stored first.
LEMMA StoreHostKeeps ==
  ASSUME SnapInv, NEW u \in Callers, S!StoreHost(u)
  PROVE  SnapInv'
<1>1. SnapTypes /\ Whole /\ Room /\ OneSave /\ NoRaw BY DEF SnapInv
<1>2. /\ call[u].at = "host" /\ UNCHANGED <<historyIds, saves, saved, mixed, exact>>
      /\ failures \in Nat /\ saves \in Nat /\ exact \in BOOLEAN /\ call[u] \in CallType
  BY <1>1 DEF S!StoreHost, SnapTypes
<1>3. S!Stores(u) /\ S!Saving(u) /\ call[u].file # "raw"
  BY <1>1, <1>2 DEF NoRaw, S!Saving, S!Stores
<1>4. PICK ok \in BOOLEAN : S!StoreRow(u, S!Host, ok) /\ S!Move(u, [call[u] EXCEPT !.at = "clear", !.ok = ok])
  BY DEF S!StoreHost
<1> DEFINE q == [call[u] EXCEPT !.at = "clear"]
           r == [q EXCEPT !.ok = ok]
           entry == [part |-> S!Host.name, id |-> call[u].id, num |-> call[u].num]
<1>5. q \in CallType /\ q.file = call[u].file /\ q.at = "clear" /\ q.id = call[u].id /\ q.num = call[u].num
  BY <1>2 DEF CallType, Ats
<1>6. S!Move(u, r) BY <1>4
<1> HIDE DEF q
<1>7. /\ r \in CallType /\ r.file = q.file /\ r.at = q.at /\ r.id = q.id /\ r.num = q.num /\ r.ok = ok
  BY <1>5 DEF CallType
<1> HIDE DEF r
<1>8. S!Host # S!PlatformConfigData BY DEF S!Host, S!PlatformConfigData, S!Part
<1>9. /\ rows' = rows \/ rows' = rows \cup {entry}
      /\ sets' = sets \/ (S!Host = S!PlatformConfigData /\ sets' = sets \cup {call[u].num})
      /\ ok => call[u].ok
      /\ failures' \in Nat /\ failures' >= failures
  <2>1. RowKept(u, S!Host, ok) BY <1>1, <1>4, RowStored
  <2>2. QED BY <2>1, Zenon DEF RowKept
<1>10. sets' = sets BY <1>8, <1>9
<1>11. r.at = "clear" /\ r.id = call[u].id /\ r.num = call[u].num /\ r.file # "raw" BY <1>3, <1>5, <1>7
<1>12. SnapTypes' BY <1>1, <1>2, <1>6, <1>7, <1>9, CallMoves DEF SnapTypes
<1>13. Whole'
  <2>1. rows \subseteq rows' /\ (\A x \in rows' \ rows : x = entry) BY <1>9
  <2>2. entry.id = call[u].id /\ entry.num = call[u].num OBVIOUS
  <2> HIDE DEF entry
  <2>3. \A x \in rows' \ rows : S!Stores(u) /\ x.id = call[u].id /\ x.num = call[u].num
    BY <1>3, <2>1, <2>2
  <2>4. r.ok /\ r.num \notin mixed => Live(u)
    <3>1. r.ok => call[u].ok BY <1>7, <1>9, Zenon
    <3>2. QED BY <1>3, <1>11, <3>1 DEF Live
  <2>5. QED BY <1>1, <1>2, <1>3, <1>6, <1>7, <1>11, <2>1, <2>3, <2>4, WholeStays
<1>14. Room' BY <1>1, <1>2, <1>6, <1>7, <1>9, <1>11, RoomStays
<1>15. OneSave' BY <1>1, <1>2, <1>3, <1>6, <1>7, <1>10, <1>11, OneSaveStays
<1>16. NoRaw' BY <1>1, <1>6, <1>7, <1>11, NoRawStays
<1>17. QED BY <1>12, <1>13, <1>14, <1>15, <1>16 DEF SnapInv

\* The interleave tables are cleared.
LEMMA ClearKeeps ==
  ASSUME SnapInv, NEW u \in Callers, S!Clear(u)
  PROVE  SnapInv'
<1>1. SnapTypes /\ Whole /\ Room /\ OneSave /\ NoRaw BY DEF SnapInv
<1>2. /\ call[u].at = "clear" /\ UNCHANGED <<historyIds, rows, saves, saved, mixed>>
      /\ failures \in Nat /\ saves \in Nat /\ exact \in BOOLEAN /\ call[u] \in CallType
      /\ S!Move(u, [call[u] EXCEPT !.at = "store", !.part = S!After(1)])
      /\ \/ sets' = {} /\ UNCHANGED <<failures, exact>>
         \/ S!Fault /\ exact' = FALSE /\ UNCHANGED sets
  BY <1>1 DEF S!Clear, SnapTypes
<1>3. S!Stores(u) /\ S!Saving(u) /\ call[u].file # "raw"
  BY <1>1, <1>2 DEF NoRaw, S!Saving, S!Stores
<1>4. failures' \in Nat /\ failures' >= failures /\ exact' \in BOOLEAN
  <2>1. failures' = failures \/ failures' = failures + 1 BY <1>2 DEF S!Fault
  <2>2. exact' = exact \/ exact' = FALSE BY <1>2, Zenon
  <2>3. exact' \in BOOLEAN BY <1>2, <2>2, Zenon
  <2>4. QED BY <1>2, <2>1, <2>3
<1>5. \E r \in CallType :
        /\ S!Move(u, r) /\ r.at = "store" /\ r.id = call[u].id /\ r.num = call[u].num
        /\ r.ok = call[u].ok /\ r.file # "raw" /\ r.part = S!After(1)
  <2> DEFINE q == [call[u] EXCEPT !.at = "store"]
             r == [q EXCEPT !.part = S!After(1)]
  <2>1. /\ q \in CallType /\ q.file = call[u].file /\ q.at = "store" /\ q.id = call[u].id
        /\ q.num = call[u].num /\ q.ok = call[u].ok
    BY <1>2 DEF CallType, Ats
  <2>2. S!Move(u, r) BY <1>2
  <2> HIDE DEF q
  <2>3. S!After(1) \in Nat BY AfterIs
  <2>4. /\ r \in CallType /\ r.file = q.file /\ r.at = q.at /\ r.id = q.id /\ r.num = q.num
        /\ r.ok = q.ok /\ r.part = S!After(1)
    BY <2>1, <2>3 DEF CallType
  <2> HIDE DEF r
  <2>5. QED BY <1>3, <2>1, <2>2, <2>4
<1>6. PICK r \in CallType :
        /\ S!Move(u, r) /\ r.at = "store" /\ r.id = call[u].id /\ r.num = call[u].num
        /\ r.ok = call[u].ok /\ r.file # "raw" /\ r.part = S!After(1)
  BY <1>5
<1>10. SnapTypes' BY <1>1, <1>2, <1>4, <1>6, CallMoves DEF SnapTypes
<1>11. Whole'
  <2>1. \A j \in S!Steps : ~(j < S!After(1))
    <3> SUFFICES ASSUME NEW j \in S!Steps PROVE ~(j < S!After(1)) OBVIOUS
    <3>1. j \in Nat /\ j >= 2 /\ (j < S!After(1) => j <= 1) BY AfterIs
    <3>2. QED BY <3>1
  <2>2. S!ToldSteps \subseteq S!Steps BY DEF S!ToldSteps
  <2>3. PartsBefore(r.part, r.id, r.num)' BY <1>6, <2>1, <2>2 DEF PartsBefore
  <2>4. r.ok /\ r.num \notin mixed => Live(u) BY <1>3, <1>6 DEF Live
  <2>5. QED BY <1>1, <1>2, <1>3, <1>6, <2>3, <2>4, WholeStays
<1>12. Room' BY <1>1, <1>2, <1>4, <1>6, RoomStays
<1>13. NoRaw' BY <1>1, <1>6, NoRawStays
<1>14. OneSave'
  <2> SUFFICES ASSUME exact' PROVE OneSave' BY DEF OneSave
  <2>1. sets' = {} /\ exact' = exact BY <1>2
  <2>2. call'[u] = r /\ \A w \in Callers \ {u} : call'[w] = call[w] BY <1>1, <1>6, CallMoves
  <2>3. \A w \in Callers : S!Saving(w)' => S!Saving(w) BY <1>3, <2>2 DEF S!Saving, S!Stores
  <2>4. \A v, w \in Callers : S!Saving(v) /\ S!Saving(w) => v = w BY <1>1, <2>1 DEF OneSave
  <2>5. 0 \in Nat /\ sets' \subseteq {0} BY <2>1
  <2>6. QED BY <2>1, <2>3, <2>4, <2>5 DEF OneSave
<1>15. QED BY <1>10, <1>11, <1>12, <1>13, <1>14 DEF SnapInv

\* A save that ends with what it was to store.
LEMMA EndOfSaveKeeps ==
  ASSUME SnapInv, NEW u \in Callers, NEW q \in CallType, S!EndSave(u, q),
         call[u].at = "store", q.num = call[u].num, q.id = call[u].id, q.ok => call[u].ok,
         q.file # "raw", UNCHANGED <<historyIds, saves, mixed, exact>>,
         rows \subseteq rows',
         \A x \in rows' \ rows : x.id = call[u].id /\ x.num = call[u].num,
         sets' = sets \/ sets' = sets \cup {call[u].num},
         failures' \in Nat, failures' >= failures,
         q.ok /\ q.num \notin mixed =>
           \A j \in S!ToldSteps : j < S!FirstOfDimm \/ ~q.blind =>
             [part |-> S!AllParts[j].name, id |-> q.id, num |-> q.num] \in rows'
  PROVE  SnapInv'
<1>1. SnapTypes /\ Whole /\ Room /\ OneSave /\ NoRaw BY DEF SnapInv
<1>2. PICK r \in CallType : S!Move(u, r) /\ r.at \in {"copy", "idle"} /\ r.file \in {q.file, "none"}
  BY SaveEnded
<1>3. /\ r.at # "add" /\ r.at # "insert" /\ r.at \notin Storing /\ r.at # "store" /\ r.at # "roll"
      /\ r.file # "raw" /\ S!Stores(u)
  BY <1>2 DEF Storing, S!Stores
<1>4. /\ saved' = IF q.ok THEN saved \cup {[num |-> q.num, id |-> q.id, blind |-> q.blind]} ELSE saved
  BY SaveEnded
<1>5. SnapTypes' BY <1>1, <1>2, CallMoves DEF SnapTypes
<1>6. saved \subseteq saved' BY <1>4
<1>7. ASSUME NEW s \in saved' \ saved, s.num \notin mixed
      PROVE  /\ Live(u) /\ s.id = call[u].id /\ s.num = call[u].num /\ r.at \notin Storing
             /\ \A j \in S!ToldSteps : j < S!FirstOfDimm \/ ~s.blind =>
                  [part |-> S!AllParts[j].name, id |-> s.id, num |-> s.num] \in rows'
  <2>1. q.ok BY <1>4, <1>7, Zenon
  <2>2. s = [num |-> q.num, id |-> q.id, blind |-> q.blind] BY <1>4, <1>7, <2>1
  <2>3. s.num = q.num /\ s.id = q.id /\ s.blind = q.blind BY <2>2
  <2>4. q.num \notin mixed BY <1>7, <2>3
  <2>5. call[u].ok BY <2>1, Zenon
  <2>6. Live(u) BY <1>3, <2>4, <2>5 DEF Live
  <2>7. \A j \in S!ToldSteps : j < S!FirstOfDimm \/ ~s.blind =>
          [part |-> S!AllParts[j].name, id |-> s.id, num |-> s.num] \in rows'
    BY <2>1, <2>3, <2>4, Zenon
  <2>8. QED BY <1>3, <2>3, <2>6, <2>7
<1>8. Whole' BY <1>1, <1>2, <1>3, <1>6, <1>7, WholeStays
<1>9. Room' BY <1>1, <1>2, <1>3, RoomStays
<1>10. OneSave' BY <1>1, <1>2, <1>3, OneSaveStays
<1>11. NoRaw' BY <1>1, <1>2, <1>3, NoRawStays
<1>12. QED BY <1>5, <1>8, <1>9, <1>10, <1>11 DEF SnapInv

\* A save that still is to succeed has stored the part that it has come to.
LEMMA PartStored ==
  ASSUME SnapTypes, NEW u \in Callers, NEW ok \in BOOLEAN, ok,
         S!StoreRow(u, S!AllParts[call[u].part], ok),
         PartsBefore(call[u].part, call[u].id, call[u].num)
  PROVE  \A j \in S!ToldSteps : j <= call[u].part =>
           [part |-> S!AllParts[j].name, id |-> call[u].id, num |-> call[u].num] \in rows'
<1> SUFFICES ASSUME NEW j \in S!ToldSteps, j <= call[u].part
             PROVE  [part |-> S!AllParts[j].name, id |-> call[u].id, num |-> call[u].num] \in rows'
  OBVIOUS
<1> DEFINE i == call[u].part
<1>1. i \in Nat BY DEF SnapTypes, CallType
<1>2. j \in S!Steps /\ S!AllParts[j].readTold /\ S!AllParts[j].insertTold BY DEF S!ToldSteps
<1>3. j \in Nat BY <1>1, <1>2, AfterIs
<1>4. rows' = rows \/ rows' = rows \cup {[part |-> S!AllParts[i].name, id |-> call[u].id, num |-> call[u].num]}
  <2>1. PICK p : p = S!AllParts[i] OBVIOUS
  <2>2. S!StoreRow(u, p, ok) BY <2>1
  <2>3. rows' = rows \/ rows' = rows \cup {[part |-> p.name, id |-> call[u].id, num |-> call[u].num]}
    <3>1. RowKept(u, p, ok) BY <2>2, RowStored
    <3>2. QED BY <3>1, Zenon DEF RowKept
  <2>4. QED BY <2>1, <2>3
<1>5. CASE j < i BY <1>4, <1>5 DEF PartsBefore
<1>6. CASE j = i
  <2>1. S!AllParts[i].readTold /\ S!AllParts[i].insertTold BY <1>2, <1>6
  <2>2. ok /\ S!AllParts[i].readTold /\ S!AllParts[i].insertTold =>
          [part |-> S!AllParts[i].name, id |-> call[u].id, num |-> call[u].num] \in rows'
    <3>1. PICK p : p = S!AllParts[i] OBVIOUS
    <3>2. S!StoreRow(u, p, ok) BY <3>1
    <3>3. ok /\ p.readTold /\ p.insertTold =>
            [part |-> p.name, id |-> call[u].id, num |-> call[u].num] \in rows'
      <4>1. RowKept(u, p, ok) BY <3>2, RowStored
      <4>2. QED BY <4>1, Zenon DEF RowKept
    <3>4. QED BY <3>1, <3>3
  <2>3. [part |-> S!AllParts[i].name, id |-> call[u].id, num |-> call[u].num] \in rows'
    BY <2>1, <2>2, Zenon
  <2>4. QED BY <1>6, <2>3
<1>7. QED BY <1>1, <1>3, <1>5, <1>6

\* A part is stored, or the DIMMs are not.
LEMMA StoreKeeps ==
  ASSUME SnapInv, NEW u \in Callers, S!Store(u)
  PROVE  SnapInv'
<1> DEFINE i == call[u].part
<1>1. SnapTypes /\ Whole /\ Room /\ OneSave /\ NoRaw BY DEF SnapInv
<1>2. /\ call[u].at = "store" /\ UNCHANGED <<historyIds, saves, mixed, exact>>
      /\ failures \in Nat /\ saves \in Nat /\ exact \in BOOLEAN /\ call[u] \in CallType
  BY <1>1 DEF S!Store, SnapTypes
<1>3. S!Stores(u) /\ S!Saving(u) /\ call[u].file # "raw" /\ i \in Nat
  BY <1>1, <1>2 DEF NoRaw, S!Saving, S!Stores, CallType
<1>4. call[u].ok /\ call[u].num \notin mixed => Live(u) /\ PartsBefore(i, call[u].id, call[u].num)
  BY <1>1, <1>2, <1>3 DEF Whole, LiveKept, Live
<1>5. \/ \E ok \in BOOLEAN : S!StoreRow(u, S!AllParts[i], ok) /\ S!NextPart(u, [call[u] EXCEPT !.ok = ok])
      \/ /\ S!First(i) /\ S!Fault /\ UNCHANGED <<rows, sets>>
         /\ \/ S!EndSave(u, [call[u] EXCEPT !.ok = FALSE])
            \/ S!EndSave(u, [call[u] EXCEPT !.blind = TRUE])
  BY DEF S!Store
<1> HIDE DEF i
<1>6. ASSUME NEW ok \in BOOLEAN, S!StoreRow(u, S!AllParts[i], ok), S!NextPart(u, [call[u] EXCEPT !.ok = ok])
      PROVE  SnapInv'
  <2>1. PICK q \in CallType :
          /\ q = [call[u] EXCEPT !.ok = ok] /\ q.at = "store" /\ q.ok = ok /\ q.id = call[u].id
          /\ q.num = call[u].num /\ q.file = call[u].file /\ q.part = i /\ q.blind = call[u].blind
    <3> DEFINE q == [call[u] EXCEPT !.ok = ok]
    <3>1. /\ q \in CallType /\ q.at = "store" /\ q.ok = ok /\ q.id = call[u].id
          /\ q.num = call[u].num /\ q.file = call[u].file /\ q.part = i /\ q.blind = call[u].blind
      BY <1>2 DEF CallType, i
    <3> HIDE DEF q
    <3>2. q = [call[u] EXCEPT !.ok = ok] BY DEF q
    <3>3. QED BY <3>1, <3>2
  <2>2. S!NextPart(u, q) BY <1>6, <2>1
  <2>3. PICK p : p = S!AllParts[i] OBVIOUS
  <2>4. RowKept(u, p, ok)
    <3>1. S!StoreRow(u, p, ok) BY <1>6, <2>3
    <3>2. QED BY <1>1, <3>1, RowStored
  <2> DEFINE entry == [part |-> p.name, id |-> call[u].id, num |-> call[u].num]
  <2>5. rows' = rows \/ rows' = rows \cup {entry} BY <2>4, Zenon DEF RowKept
  <2>6. sets' = sets \/ sets' = sets \cup {call[u].num} BY <2>4, Zenon DEF RowKept
  <2>7. ok => call[u].ok BY <2>4, Zenon DEF RowKept
  <2>8. failures' \in Nat /\ failures' >= failures BY <2>4, Zenon DEF RowKept
  <2>9. rows \subseteq rows' /\ \A x \in rows' \ rows : x.id = call[u].id /\ x.num = call[u].num
    <3>1. entry.id = call[u].id /\ entry.num = call[u].num OBVIOUS
    <3> HIDE DEF entry
    <3>2. QED BY <2>5, <3>1
  <2>10. (q.ok => call[u].ok) /\ (q.ok => ok) BY <2>1, <2>7, Zenon
  <2>11. ASSUME q.ok, q.num \notin mixed
        PROVE  \A j \in S!ToldSteps : j <= i =>
                 [part |-> S!AllParts[j].name, id |-> q.id, num |-> q.num] \in rows'
    <3>1. ok /\ PartsBefore(i, call[u].id, call[u].num) BY <1>4, <2>1, <2>10, <2>11
    <3>2. \A j \in S!ToldSteps : j <= i =>
            [part |-> S!AllParts[j].name, id |-> call[u].id, num |-> call[u].num] \in rows'
      BY <1>1, <1>6, <3>1, PartStored DEF i
    <3>3. QED BY <2>1, <3>2
  <2>12. S!ToldSteps \subseteq S!Steps BY DEF S!ToldSteps
  <2>13. CASE S!After(q.part) > S!Len(S!AllParts)
    <3>1. S!EndSave(u, q) BY <2>2, <2>13 DEF S!NextPart
    <3>2. \A j \in S!Steps : j <= i BY <1>3, <2>1, <2>13, AfterIs
    <3>3. QED BY <1>2, <1>3, <2>1, <2>6, <2>8, <2>9, <2>10, <2>11, <2>12, <3>1, <3>2, EndOfSaveKeeps
  <2>14. CASE ~(S!After(q.part) > S!Len(S!AllParts))
    <3>1. S!Move(u, [q EXCEPT !.part = S!After(i)]) /\ saved' = saved
      BY <2>1, <2>2, <2>14 DEF S!NextPart
    <3>2. PICK r \in CallType :
            /\ S!Move(u, r) /\ r.at = q.at /\ r.ok = q.ok /\ r.id = q.id /\ r.num = q.num
            /\ r.file = q.file /\ r.part = S!After(i)
      <4> DEFINE r == [q EXCEPT !.part = S!After(i)]
      <4>1. S!After(i) \in Nat BY <1>3, AfterIs
      <4>2. /\ r \in CallType /\ r.at = q.at /\ r.ok = q.ok /\ r.id = q.id /\ r.num = q.num
            /\ r.file = q.file /\ r.part = S!After(i)
        BY <4>1 DEF CallType
      <4>3. S!Move(u, r) BY <3>1
      <4> HIDE DEF r
      <4>4. QED BY <4>2, <4>3
    <3>3. r.at = "store" /\ r.id = call[u].id /\ r.num = call[u].num /\ r.file # "raw"
      BY <1>3, <2>1, <3>2
    <3>4. SnapTypes' BY <1>1, <1>2, <2>8, <3>2, CallMoves DEF SnapTypes
    <3>5. Whole'
      <4>1. ASSUME r.ok, r.num \notin mixed
            PROVE  Live(u) /\ PartsBefore(r.part, r.id, r.num)'
        <5>1. q.ok /\ q.num \notin mixed BY <3>2, <4>1
        <5>2. call[u].ok BY <2>10, <5>1, Zenon
        <5>3. Live(u) BY <1>4, <2>1, <5>1, <5>2
        <5>4. \A j \in S!ToldSteps : j < S!After(i) => j <= i BY <1>3, <2>12, AfterIs
        <5>5. PartsBefore(r.part, r.id, r.num)' BY <2>11, <3>2, <5>1, <5>4 DEF PartsBefore
        <5>6. QED BY <5>3, <5>5
      <4>2. \A x \in rows' \ rows : S!Stores(u) /\ x.id = call[u].id /\ x.num = call[u].num
        BY <1>3, <2>9
      <4>3. QED BY <1>1, <1>2, <1>3, <2>9, <3>1, <3>2, <3>3, <4>1, <4>2, WholeStays
    <3>6. Room' BY <1>1, <1>2, <2>8, <3>2, <3>3, RoomStays
    <3>7. OneSave' BY <1>1, <1>2, <1>3, <2>6, <3>2, <3>3, OneSaveStays
    <3>8. NoRaw' BY <1>1, <3>2, <3>3, NoRawStays
    <3>9. QED BY <3>4, <3>5, <3>6, <3>7, <3>8 DEF SnapInv
  <2>15. QED BY <2>13, <2>14
<1>7. ASSUME S!First(i), S!Fault, UNCHANGED <<rows, sets>>, S!EndSave(u, [call[u] EXCEPT !.ok = FALSE])
      PROVE  SnapInv'
  <2> DEFINE q == [call[u] EXCEPT !.ok = FALSE]
  <2>1. q \in CallType /\ ~q.ok /\ q.id = call[u].id /\ q.num = call[u].num /\ q.file = call[u].file
    BY <1>2 DEF CallType
  <2>2. S!EndSave(u, q) BY <1>7
  <2> HIDE DEF q
  <2>3. failures' \in Nat /\ failures' >= failures BY <1>2, <1>7 DEF S!Fault
  <2>4. QED BY <1>2, <1>3, <1>7, <2>1, <2>2, <2>3, EndOfSaveKeeps
<1>8. ASSUME S!First(i), S!Fault, UNCHANGED <<rows, sets>>, S!EndSave(u, [call[u] EXCEPT !.blind = TRUE])
      PROVE  SnapInv'
  <2> DEFINE q == [call[u] EXCEPT !.blind = TRUE]
  <2>1. /\ q \in CallType /\ q.ok = call[u].ok /\ q.blind /\ q.id = call[u].id /\ q.num = call[u].num
        /\ q.file = call[u].file
    BY <1>2 DEF CallType
  <2>2. S!EndSave(u, q) BY <1>8
  <2> HIDE DEF q
  <2>3. failures' \in Nat /\ failures' >= failures BY <1>2, <1>8 DEF S!Fault
  <2>4. q.ok => call[u].ok BY <2>1, Zenon
  <2>5. ASSUME q.ok, q.num \notin mixed, NEW j \in S!ToldSteps, j < S!FirstOfDimm \/ ~q.blind
        PROVE  [part |-> S!AllParts[j].name, id |-> q.id, num |-> q.num] \in rows'
    <3>1. PartsBefore(i, call[u].id, call[u].num) BY <1>4, <2>1, <2>4, <2>5
    <3>2. i >= 6 /\ j < 6 BY <1>8, <2>1, <2>5 DEF S!First, S!FirstOfDimm
    <3>3. j \in S!Steps BY DEF S!ToldSteps
    <3>4. j \in Nat BY <1>3, <3>3, AfterIs
    <3>5. j < i BY <1>3, <3>2, <3>4
    <3>6. QED BY <1>8, <2>1, <3>1, <3>5 DEF PartsBefore
  <2>6. QED BY <1>2, <1>3, <1>8, <2>1, <2>2, <2>3, <2>4, <2>5, EndOfSaveKeeps
<1>9. QED BY <1>5, <1>6, <1>7, <1>8

\* A purge begins.
LEMMA PurgeBeginKeeps ==
  ASSUME SnapInv, NEW u \in Callers, S!PurgeBegin(u)
  PROVE  SnapInv'
<1> DEFINE q == [S!Idle EXCEPT !.at = "purge"]
           r == [q EXCEPT !.part = 1]
<1>1. /\ call[u].at = "idle" /\ UNCHANGED <<historyIds, rows, sets, saves, failures, saved, mixed, exact>>
      /\ S!Move(u, [S!Idle EXCEPT !.at = "purge", !.part = 1])
  BY DEF S!PurgeBegin
<1>2. S!Idle \in CallType /\ S!Idle.file = "none" BY DEF S!Idle, CallType, Ats
<1>3. q \in CallType /\ q.at = "purge" /\ q.file = "none" BY <1>2 DEF CallType, Ats
<1>4. S!Move(u, r) BY <1>1
<1> HIDE DEF q
<1>5. r \in CallType /\ r.at = "purge" /\ r.file = "none" BY <1>3 DEF CallType
<1> HIDE DEF r
<1>6. failures \in Nat /\ saves \in Nat BY DEF SnapInv, SnapTypes
<1>7. r.at \notin Storing \cup {"add", "insert"} BY <1>5 DEF Storing
<1>8. QED BY <1>1, <1>4, <1>5, <1>6, <1>7, EndStays

\* A table, or at last the ids, is purged: no save is trusted any more.
LEMMA PurgeKeeps ==
  ASSUME SnapInv, NEW u \in Callers, S!Purge(u)
  PROVE  SnapInv'
<1>1. SnapTypes /\ Whole /\ Room /\ OneSave /\ NoRaw BY DEF SnapInv
<1>2. /\ call[u].at = "purge" /\ saved' = {} /\ mixed' = mixed \cup S!Running
      /\ UNCHANGED <<sets, saves, exact>>
      /\ failures \in Nat /\ saves \in Nat /\ exact \in BOOLEAN /\ call[u] \in CallType
  BY <1>1 DEF S!Purge, SnapTypes
<1>3. call[u].file # "raw" BY <1>1, <1>2 DEF NoRaw
<1>4. /\ historyIds' \in {historyIds, {}}
      /\ UNCHANGED failures \/ S!Fault
      /\ S!Move(u, [call[u] EXCEPT !.part = S!After(call[u].part)]) \/ S!Return(u, "none")
  <2>1. CASE call[u].part <= S!Len(S!AllParts) BY <2>1 DEF S!Purge
  <2>2. CASE ~(call[u].part <= S!Len(S!AllParts)) BY <2>2 DEF S!Purge
  <2>3. QED BY <2>1, <2>2
<1>5. failures' \in Nat /\ failures' >= failures BY <1>2, <1>4 DEF S!Fault
<1>6. \E r \in CallType : S!Move(u, r) /\ r.at \in {"purge", "idle"} /\ r.file # "raw"
  <2>1. CASE S!Move(u, [call[u] EXCEPT !.part = S!After(call[u].part)])
    <3> DEFINE r == [call[u] EXCEPT !.part = S!After(call[u].part)]
    <3>1. call[u].part \in Nat BY <1>2 DEF CallType
    <3>2. S!After(call[u].part) \in Nat BY <3>1, AfterIs
    <3>3. r \in CallType /\ r.at = call[u].at /\ r.file = call[u].file BY <1>2, <3>2 DEF CallType
    <3>4. S!Move(u, r) BY <2>1
    <3> HIDE DEF r
    <3>5. QED BY <1>2, <1>3, <3>3, <3>4
  <2>2. CASE S!Return(u, "none")
    <3>1. \E r \in CallType : S!Move(u, r) /\ r.at = "idle" /\ r.file = "none" BY <2>2, Returned
    <3>2. QED BY <3>1
  <2>3. QED BY <1>4, <2>1, <2>2
<1>7. PICK r \in CallType : S!Move(u, r) /\ r.at \in {"purge", "idle"} /\ r.file # "raw" BY <1>6
<1>8. /\ r.at # "add" /\ r.at # "insert" /\ r.at \notin Storing /\ r.at # "store" /\ r.at # "roll"
      /\ r.at \notin Storing \cup {"add", "insert"}
  BY <1>7 DEF Storing
<1>9. call'[u] = r /\ (\A w \in Callers \ {u} : call'[w] = call[w]) /\ call' \in [Callers -> CallType]
  BY <1>1, <1>7, CallMoves
<1>10. SnapTypes'
  <2>1. PICK N \in Nat : historyIds \subseteq 1..N BY <1>1 DEF SnapTypes
  <2>2. historyIds' \subseteq 1..N BY <1>4, <2>1
  <2>3. QED BY <1>2, <1>5, <1>9, <2>2 DEF SnapTypes
<1>11. Whole'
  <2>1. ASSUME NEW w \in Callers PROVE Numbered(w)' /\ LiveKept(w)'
    <3>1. CASE w = u
      <4>1. ~S!Stores(u)' BY <1>8, <1>9 DEF S!Stores, Storing
      <4>2. QED BY <1>8, <1>9, <3>1, <4>1 DEF Numbered, LiveKept, Live
    <3>2. CASE w # u
      <4>1. call'[w] = call[w] BY <1>9, <3>2
      <4>2. S!Stores(w) => call[w].num \in mixed' BY <1>2 DEF S!Running, S!Saving
      <4>3. ~Live(w)' BY <4>1, <4>2 DEF Live, S!Stores
      <4>4. Numbered(w) BY <1>1 DEF Whole
      <4>5. QED BY <4>1, <4>3, <4>4 DEF Numbered, LiveKept
    <3>3. QED BY <3>1, <3>2
  <2>2. QED BY <1>2, <2>1 DEF Whole
<1>12. Room'
  <2>1. CASE historyIds' = historyIds BY <1>1, <1>2, <1>5, <1>7, <1>8, <2>1, RoomStays
  <2>2. CASE historyIds' = {}
    <3>1. Cardinality(historyIds') = 0 BY <2>2, FS_EmptySet
    <3>2. /\ Cardinality(Light') \in 0..Cardinality(Callers) /\ Cardinality(Callers) \in Nat
          /\ Cardinality(Rolling) \in Nat /\ Cardinality(Rolling') = Cardinality(Rolling)
      BY <1>1, <1>2, <1>7, <1>8, RoomMoves
    <3>3. QED BY <1>5, <3>1, <3>2, SnapshotsAssumption DEF Room
  <2>3. QED BY <1>4, <2>1, <2>2
<1>13. OneSave' BY <1>1, <1>2, <1>7, <1>8, OneSaveStays
<1>14. NoRaw' BY <1>1, <1>7, NoRawStays
<1>15. QED BY <1>10, <1>11, <1>12, <1>13, <1>14 DEF SnapInv

\* The calls of a support file, and a death.
LEMMA FileKeeps ==
  ASSUME SnapInv, NEW u \in Callers, S!Copy(u) \/ S!Filter(u) \/ S!Encrypt(u) \/ S!Die(u)
  PROVE  SnapInv'
<1> DEFINE Files == {"none", "empty", "filtered", "compressed", "encrypted", "left"}
<1>1. SnapTypes /\ failures \in Nat /\ saves \in Nat /\ call[u] \in CallType BY DEF SnapInv, SnapTypes
<1>2. UNCHANGED <<historyIds, rows, sets, saves, saved, mixed, exact>>
  BY DEF S!Copy, S!Filter, S!Encrypt, S!Die
<1>3. /\ failures' = failures \/ failures' = failures + 1
      /\ call[u].at # "roll" \/ failures' = failures + 1
  BY DEF S!Copy, S!Filter, S!Encrypt, S!Die, S!Fault
<1>4. failures' \in Nat /\ failures' >= failures /\ (call[u].at # "roll" \/ failures' > failures)
  BY <1>1, <1>3
<1>5. \/ S!Move(u, [call[u] EXCEPT !.at = "filter", !.file = "raw"])
      \/ S!Move(u, [call[u] EXCEPT !.at = "encrypt", !.file = "filtered"])
      \/ \E path \in Files : S!Return(u, path)
  <2>1. CASE S!Copy(u) BY <2>1 DEF S!Copy
  <2>2. CASE S!Filter(u) BY <2>2 DEF S!Filter
  <2>3. CASE S!Encrypt(u) BY <2>3 DEF S!Encrypt
  <2>4. CASE S!Die(u)
    <3>1. call[u].file \in {"none", "empty", "raw", "filtered", "compressed", "encrypted", "left"}
      BY <1>1 DEF CallType
    <3>2. CASE call[u].file = "raw" BY <2>4, <3>2 DEF S!Die
    <3>3. CASE call[u].file # "raw" BY <2>4, <3>1, <3>3 DEF S!Die
    <3>4. QED BY <3>2, <3>3
  <2>5. QED BY <2>1, <2>2, <2>3, <2>4
<1>6. ASSUME NEW at \in {"filter", "encrypt"}, NEW path \in {"raw", "filtered"},
             S!Move(u, [call[u] EXCEPT !.at = at, !.file = path])
      PROVE  \E r \in CallType : S!Move(u, r) /\ r.at = at /\ r.file = path
  <2> DEFINE q == [call[u] EXCEPT !.at = at]
             r == [q EXCEPT !.file = path]
  <2>1. q \in CallType /\ q.at = at BY <1>1 DEF CallType, Ats
  <2>2. S!Move(u, r) BY <1>6
  <2> HIDE DEF q
  <2>3. r \in CallType /\ r.at = q.at /\ r.file = path BY <2>1 DEF CallType
  <2> HIDE DEF r
  <2>4. QED BY <2>1, <2>2, <2>3
<1>7. \E r \in CallType : S!Move(u, r) /\ r.at \in {"filter", "encrypt", "idle"} /\ (r.file = "raw" => r.at = "filter")
  <2>1. CASE S!Move(u, [call[u] EXCEPT !.at = "filter", !.file = "raw"])
    <3>1. \E r \in CallType : S!Move(u, r) /\ r.at = "filter" /\ r.file = "raw" BY <1>6, <2>1
    <3>2. QED BY <3>1
  <2>2. CASE S!Move(u, [call[u] EXCEPT !.at = "encrypt", !.file = "filtered"])
    <3>1. \E r \in CallType : S!Move(u, r) /\ r.at = "encrypt" /\ r.file = "filtered" BY <1>6, <2>2
    <3>2. QED BY <3>1
  <2>3. CASE \E path \in Files : S!Return(u, path)
    <3>1. PICK path \in Files : S!Return(u, path) BY <2>3
    <3>2. \E r \in CallType : S!Move(u, r) /\ r.at = "idle" /\ r.file = path BY <3>1, Returned
    <3>3. QED BY <3>2
  <2>4. QED BY <1>5, <2>1, <2>2, <2>3
<1>8. PICK r \in CallType : S!Move(u, r) /\ r.at \in {"filter", "encrypt", "idle"} /\ (r.file = "raw" => r.at = "filter")
  BY <1>7
<1>9. r.at \notin Storing \cup {"add", "insert"} BY <1>8 DEF Storing
<1>10. QED BY <1>1, <1>2, <1>4, <1>8, <1>9, EndStays

-----------------------------------------------------------------------------
(* Snapshots: what follows *)

\* A step of the snapshots keeps the invariant.
LEMMA SnapNext ==
  ASSUME SnapInv, S!Next
  PROVE  SnapInv'
<1>1. PICK u \in Callers :
        \/ \E gather \in BOOLEAN : S!Begin(u, gather)
        \/ S!AddRead(u) \/ S!AddInsert(u) \/ S!Roll(u)
        \/ S!StoreHost(u) \/ S!Clear(u) \/ S!Store(u)
        \/ S!PurgeBegin(u) \/ S!Purge(u)
        \/ S!Copy(u) \/ S!Filter(u) \/ S!Encrypt(u)
        \/ S!Die(u)
  BY DEF S!Next
<1>2. CASE \E gather \in BOOLEAN : S!Begin(u, gather) BY <1>2, BeginKeeps
<1>3. CASE S!AddRead(u) BY <1>3, AddReadKeeps
<1>4. CASE S!AddInsert(u) BY <1>4, AddInsertKeeps
<1>5. CASE S!Roll(u) BY <1>5, RollKeeps
<1>6. CASE S!StoreHost(u) BY <1>6, StoreHostKeeps
<1>7. CASE S!Clear(u) BY <1>7, ClearKeeps
<1>8. CASE S!Store(u) BY <1>8, StoreKeeps
<1>9. CASE S!PurgeBegin(u) BY <1>9, PurgeBeginKeeps
<1>10. CASE S!Purge(u) BY <1>10, PurgeKeeps
<1>11. CASE S!Copy(u) \/ S!Filter(u) \/ S!Encrypt(u) \/ S!Die(u) BY <1>11, FileKeeps
<1>12. QED BY <1>1, <1>2, <1>3, <1>4, <1>5, <1>6, <1>7, <1>8, <1>9, <1>10, <1>11

\* The store begins without snapshots.
LEMMA SnapInit ==
  ASSUME S!Init
  PROVE  SnapInv
<1>1. /\ historyIds = {} /\ rows = {} /\ sets = {} /\ call = [u \in Callers |-> S!Idle]
      /\ saves = 0 /\ failures = 0 /\ saved = {} /\ mixed = {} /\ exact = TRUE
  BY DEF S!Init
<1>2. S!Idle \in CallType /\ S!Idle.at = "idle" /\ S!Idle.file = "none" BY DEF S!Idle, CallType, Ats
<1>3. call \in [Callers -> CallType] /\ \A u \in Callers : call[u].at = "idle" /\ call[u].file = "none"
  BY <1>1, <1>2
<1>4. SnapTypes
  <2>1. historyIds \subseteq 1..0 /\ 0 \in Nat BY <1>1
  <2>2. exact \in BOOLEAN BY <1>1
  <2>3. QED BY <1>1, <1>3, <2>1, <2>2 DEF SnapTypes
<1>5. \A u \in Callers : ~S!Stores(u) /\ ~S!Saving(u) BY <1>3 DEF S!Stores, S!Saving
<1>6. Whole BY <1>1, <1>3, <1>5 DEF Whole, Numbered, LiveKept, Live
<1>7. OneSave
  <2>1. 0 \in Nat /\ sets \subseteq {0} BY <1>1
  <2>2. QED BY <1>3, <1>5, <2>1 DEF OneSave
<1>8. NoRaw BY <1>3 DEF NoRaw
<1>9. Room
  <2>1. Light = {} /\ Rolling = {} BY <1>3 DEF Light, Rolling
  <2>2. Cardinality(historyIds) = 0 /\ Cardinality(Light) = 0 /\ Cardinality(Rolling) = 0
    BY <1>1, <2>1, FS_EmptySet
  <2>3. Cardinality(Callers) \in Nat BY CallersAssumption, FS_CardinalityType
  <2>4. QED BY <1>1, <2>2, <2>3, SnapshotsAssumption DEF Room
<1>10. QED BY <1>4, <1>6, <1>7, <1>8, <1>9 DEF SnapInv

\* Whatever part of the store a behaviour is of, the invariant holds of its
\* snapshots.
LEMMA SnapAlways == SpecAll => [](part = "snapshots" => SnapInv)
<1> DEFINE I == part = "snapshots" => SnapInv
<1>1. InitAll => I BY SnapInit DEF InitAll
<1>2. I /\ [NextAll]_allVars => I'
  <2> SUFFICES ASSUME I, [NextAll]_allVars, part' = "snapshots" PROVE SnapInv' OBVIOUS
  <2>1. CASE NextAll
    <3>1. part = "snapshots" /\ S!Next BY <2>1 DEF NextAll
    <3>2. QED BY <3>1, SnapNext
  <2>2. CASE UNCHANGED allVars
    <3>1. SnapInv /\ UNCHANGED <<failures, historyIds, rows, sets, call, saves, saved, mixed, exact>>
      BY <2>2 DEF allVars, snapshotVars, sharedVars
    <3>2. SnapTypes' BY <3>1 DEF SnapInv, SnapTypes
    <3>3. Whole'
      <4>1. Whole BY <3>1 DEF SnapInv
      <4>2. \A u \in Callers : (S!Stores(u)' <=> S!Stores(u)) BY <3>1 DEF S!Stores
      <4>3. ASSUME NEW u \in Callers PROVE Numbered(u)' /\ LiveKept(u)'
        <5>1. Numbered(u) /\ LiveKept(u) BY <4>1 DEF Whole
        <5>2. QED BY <3>1, <4>2, <5>1 DEF Numbered, LiveKept, Live, Owned, PartsBefore
      <4>4. ASSUME NEW s \in saved' PROVE SavedKept(s)'
        <5>1. SavedKept(s) BY <3>1, <4>1, <4>4 DEF Whole
        <5>2. QED BY <3>1, <4>2, <5>1 DEF SavedKept, Owned
      <4>5. QED BY <4>3, <4>4 DEF Whole
    <3>4. Room'
      <4>1. Light' = Light /\ Rolling' = Rolling BY <3>1 DEF Light, Rolling
      <4>2. QED BY <3>1, <4>1 DEF SnapInv, Room
    <3>5. OneSave' BY <3>1 DEF SnapInv, OneSave, S!Saving, S!Stores
    <3>6. NoRaw' BY <3>1 DEF SnapInv, NoRaw
    <3>7. QED BY <3>2, <3>3, <3>4, <3>5, <3>6 DEF SnapInv
  <2>3. QED BY <2>1, <2>2
<1>3. QED BY <1>1, <1>2, PTL DEF SpecAll

\* A save that returned success is there whole and unmixed, unless another
\* save found the same id or a purge or a roll met it: nvm_save_state without
\* a transaction, interleaved with saves, purges, rolls and deaths.
THEOREM SavesAreWhole == SpecAll => []SavedWhole
<1>1. (part = "snapshots" => SnapInv) => SavedWhole
  <2> SUFFICES ASSUME part = "snapshots", SnapInv PROVE S!SavedWhole BY DEF SavedWhole
  <2>1. \A s \in saved : SavedKept(s) BY DEF SnapInv, Whole
  <2>2. S!SavedWhole BY <2>1 DEF S!SavedWhole, SavedKept, Owned
  <2>3. QED BY <2>2
<1>2. QED BY <1>1, SnapAlways, PTL

\* The snapshots stay within what overlapping calls and failures may leave,
\* the interleave tables are of one save, and no unfiltered copy of the store
\* is left by a gather that returned.
THEOREM LittleIsLeft == SpecAll => []LeftClean
<1>1. (part = "snapshots" => SnapInv) => LeftClean
  <2> SUFFICES ASSUME part = "snapshots", SnapInv PROVE S!LeftClean BY DEF LeftClean
  <2>1. SnapTypes /\ Room /\ OneSave /\ NoRaw BY DEF SnapInv
  <2>2. S!HistoryBounded
    <3>1. /\ S!Cardinality(historyIds) = Cardinality(historyIds)
          /\ S!Cardinality(Callers) = Cardinality(Callers)
          /\ S!Cardinality(Rolling) = Cardinality(Rolling)
      BY SnapCount
    <3>2. Light \subseteq Callers /\ Rolling \subseteq Callers BY DEF Light, Rolling
    <3>3. /\ Cardinality(Light) \in Nat /\ Cardinality(Rolling) \in Nat /\ Cardinality(Callers) \in Nat
      BY <3>2, CallersAssumption, FS_Subset, FS_CardinalityType
    <3>4. Cardinality(historyIds) \in Nat BY <2>1, FiniteHistory
    <3>5. failures \in Nat BY <2>1 DEF SnapTypes
    <3>6. Cardinality(historyIds) <= MaxSnapshots + Cardinality(Callers) - 1 + failures + Cardinality(Rolling)
      BY <2>1, <3>3, <3>4, <3>5, SnapshotsAssumption DEF Room
    <3>7. {u \in Callers : call[u].at = "roll"} = Rolling BY DEF Rolling
    <3>8. QED BY <3>1, <3>6, <3>7 DEF S!HistoryBounded
  <2>3. S!SetsCurrent
    <3> SUFFICES ASSUME exact PROVE S!Cardinality(sets) <= 1 BY DEF S!SetsCurrent
    <3>1. PICK n \in Nat : sets \subseteq {n} BY <2>1 DEF OneSave
    <3>2. Cardinality(sets) \in {0, 1}
      <4>1. CASE sets = {} BY <4>1, FS_EmptySet
      <4>2. CASE sets = {n} BY <4>2, FS_Singleton
      <4>3. QED BY <3>1, <4>1, <4>2
    <3>3. QED BY <3>2, SnapCount
  <2>4. S!FileHonest BY <2>1 DEF NoRaw, S!FileHonest
  <2>5. QED BY <2>2, <2>3, <2>4 DEF S!LeftClean
<1>2. QED BY <1>1, SnapAlways, PTL

-----------------------------------------------------------------------------
(* The debug log: how it is rolled *)

\* A number of rows for each line.
Counts == [D!Lines -> Nat]

\* There are finitely many rows.
LEMMA CopiesFinite ==
  ASSUME NEW r \in Counts, NEW K \in SUBSET D!Lines
  PROVE  IsFiniteSet(D!Copies(r, K)) /\ Cardinality(D!Copies(r, K)) \in Nat
<1> DEFINE Of == [m \in K |-> {m} \X (1..r[m])]
           All == {{m} \X (1..r[m]) : m \in K}
<1>1. IsFiniteSet(K)
  <2>1. IsFiniteSet(1..MaxLines) BY FS_Interval, DebugAssumption
  <2>2. QED BY <2>1, FS_Subset DEF D!Lines
<1>2. IsFiniteSet(All)
  <2>1. Of \in [K -> All] /\ \A x \in All : \E m \in K : Of[m] = x OBVIOUS
  <2> HIDE DEF Of, All
  <2>2. Of \in Surjection(K, All) BY <2>1, Zenon DEF Surjection
  <2>3. QED BY <1>1, <2>2, FS_Surjection
<1>3. ASSUME NEW x \in All PROVE IsFiniteSet(x)
  <2>1. PICK m \in K : x = {m} \X (1..r[m]) BY <1>3
  <2>2. r[m] \in Nat BY DEF Counts
  <2>3. IsFiniteSet({m}) /\ IsFiniteSet(1..r[m]) 
    <3>1. IsFiniteSet({m}) BY FS_Singleton
    <3>2. IsFiniteSet(1..r[m]) BY <2>2, FS_Interval
    <3>3. QED BY <3>1, <3>2
  <2>4. QED BY <2>1, <2>3, FS_Product
<1> HIDE DEF All
<1>4. IsFiniteSet(UNION All) BY <1>2, <1>3, FS_UNION
<1>5. D!Copies(r, K) = UNION All BY DEF D!Copies, All
<1>6. QED BY <1>4, <1>5, FS_CardinalityType

\* More rows of more lines are more.
LEMMA CopiesGrow ==
  ASSUME NEW r \in Counts, NEW q \in Counts, NEW K \in SUBSET D!Lines, NEW J \in SUBSET K,
         \A m \in J : r[m] <= q[m]
  PROVE  Cardinality(D!Copies(r, J)) <= Cardinality(D!Copies(q, K))
<1>1. \A m \in J : 1..r[m] \subseteq 1..q[m] BY DEF Counts
<1>2. D!Copies(r, J) \subseteq D!Copies(q, K) BY <1>1 DEF D!Copies
<1>3. QED BY <1>2, CopiesFinite, FS_Subset

\* The rows of one more line.
LEMMA CopiesAdd ==
  ASSUME NEW r \in Counts, NEW K \in SUBSET D!Lines, NEW m \in D!Lines, m \notin K
  PROVE  Cardinality(D!Copies(r, K \cup {m})) = Cardinality(D!Copies(r, K)) + r[m]
<1> DEFINE one == {m} \X (1..r[m])
<1>1. r[m] \in Nat BY DEF Counts
<1>2. IsFiniteSet(one) /\ Cardinality(one) = r[m]
  <2>1. IsFiniteSet({m}) /\ Cardinality({m}) = 1 BY FS_Singleton
  <2>2. IsFiniteSet(1..r[m]) /\ Cardinality(1..r[m]) = r[m] BY <1>1, FS_Interval
  <2>3. Cardinality(one) = 1 * r[m] /\ IsFiniteSet(one) BY <2>1, <2>2, FS_Product
  <2>4. QED BY <1>1, <2>3
<1>3. D!Copies(r, K \cup {m}) = D!Copies(r, K) \cup one BY DEF D!Copies
<1>4. D!Copies(r, K) \cap one = {} BY DEF D!Copies
<1>5. IsFiniteSet(D!Copies(r, K)) /\ Cardinality(D!Copies(r, K)) \in Nat BY CopiesFinite
<1> HIDE DEF one
<1>6. PICK n \in Nat : n = Cardinality(D!Copies(r, K)) BY <1>5
<1>7. Cardinality(D!Copies(r, K) \cup one) = n + r[m]
  <2>1. Cardinality(D!Copies(r, K) \cup one) = n + r[m] - 0
    BY <1>2, <1>4, <1>5, <1>6, FS_Union, FS_EmptySet
  <2>2. QED BY <1>1, <2>1
<1>8. QED BY <1>3, <1>6, <1>7, Zenon

LEMMA LeastOfTwo ==
  ASSUME NEW i \in Int, NEW j \in Int
  PROVE  Min({i, j}) \in {i, j} /\ Min({i, j}) <= i /\ Min({i, j}) <= j
BY DEF Min

LEMMA GreatestOfTwo ==
  ASSUME NEW i \in Int, NEW j \in Int
  PROVE  Max({i, j}) \in {i, j} /\ Max({i, j}) >= i /\ Max({i, j}) >= j
BY DEF Max

\* The numbers of the other module are those of this one.
LEMMA NewerIs ==
  ASSUME NEW r, NEW l
  PROVE  D!Newer(r, l) = Cardinality(D!Copies(r, {m \in D!Lines : m > l}))
<1>1. \A x : D!Cardinality(x) = Cardinality(x) BY Zenon DEF D!Cardinality, Cardinality
<1>2. QED BY <1>1, Zenon DEF D!Newer

LEMMA RolledNumber ==
  ASSUME NEW r, NEW l \in D!Lines
  PROVE  D!Rolled(r)[l] = Max({0, Min({r[l], MaxLog - D!Newer(r, l)})})
<1>1. \A x : D!Max(x) = Max(x) /\ D!Min(x) = Min(x) BY Zenon DEF D!Max, Max, D!Min, Min
<1>2. D!Rolled(r)[l] = D!Max({0, D!Min({r[l], MaxLog - D!Newer(r, l)})}) BY Zenon DEF D!Rolled
<1>3. QED BY <1>1, <1>2, Zenon

LEMMA NewerIsNumber ==
  ASSUME NEW r \in Counts, NEW l
  PROVE  D!Newer(r, l) \in Nat
<1> DEFINE above == {m \in D!Lines : m > l}
<1>1. above \in SUBSET D!Lines OBVIOUS
<1>2. D!Newer(r, l) = Cardinality(D!Copies(r, above)) BY NewerIs
<1> HIDE DEF above
<1>3. QED BY <1>1, <1>2, CopiesFinite

\* What the roll leaves of a line.
LEMMA RolledIs ==
  ASSUME NEW r \in Counts, NEW l \in D!Lines
  PROVE  /\ D!Rolled(r)[l] \in Nat /\ D!Rolled(r)[l] <= r[l]
         /\ D!Newer(r, l) < MaxLog => D!Rolled(r)[l] = r[l] \/ D!Rolled(r)[l] = MaxLog - D!Newer(r, l)
         /\ D!Rolled(r)[l] = 0 /\ r[l] > 0 => D!Newer(r, l) >= MaxLog
<1>1. r[l] \in Nat /\ D!Newer(r, l) \in Nat BY NewerIsNumber DEF Counts
<1>2. PICK n : n = D!Newer(r, l) OBVIOUS
<1>3. D!Rolled(r)[l] = Max({0, Min({r[l], MaxLog - n})}) BY <1>2, RolledNumber
<1>4. MaxLog - n \in Int /\ n \in Nat BY <1>1, <1>2, DebugAssumption
<1>5. PICK i \in Nat, j \in Int : i = r[l] /\ j = MaxLog - n BY <1>1, <1>4
<1>6. PICK k : k = Min({i, j}) OBVIOUS
<1>7. k \in {i, j} /\ k <= i /\ k <= j BY <1>6, LeastOfTwo
<1>8. /\ D!Rolled(r)[l] \in {0, k} /\ D!Rolled(r)[l] >= 0 /\ D!Rolled(r)[l] >= k
  <2>1. PICK z : z = D!Rolled(r)[l] OBVIOUS
  <2>2. z = Max({0, k}) BY <1>3, <1>5, <1>6, <2>1
  <2>3. k \in Int BY <1>5, <1>7
  <2>4. z \in {0, k} /\ z >= 0 /\ z >= k BY <2>2, <2>3, GreatestOfTwo
  <2>5. QED BY <2>1, <2>4
<1>9. QED BY <1>1, <1>2, <1>4, <1>5, <1>7, <1>8, DebugAssumption

\* A line that is rolled away has as many newer rows after the roll as the log holds.
LEMMA RolledForNewer ==
  ASSUME NEW r \in Counts, NEW l \in D!Lines, D!Rolled(r)[l] = 0, r[l] > 0
  PROVE  D!Newer(D!Rolled(r), l) >= MaxLog
<1>0. PICK z : z = D!Rolled(r) OBVIOUS
<1> DEFINE above(k) == {m \in D!Lines : m > k}
           cut == {m \in above(l) : z[m] # r[m]}
<1>1. z \in Counts
  <2>1. \A m \in D!Lines : z[m] \in Nat BY <1>0, RolledIs
  <2>2. DOMAIN z = D!Lines /\ z = [m \in D!Lines |-> z[m]] BY <1>0, Zenon DEF D!Rolled
  <2>3. QED BY <1>0, <2>1, <2>2 DEF Counts
<1>2. D!Newer(r, l) >= MaxLog BY RolledIs
<1>3. \A m \in D!Lines : z[m] \in Nat /\ r[m] \in Nat BY <1>1 DEF Counts
<1>4. D!Newer(z, l) \in Nat /\ MaxLog \in Nat BY <1>1, NewerIsNumber, DebugAssumption
<1>5. \A k : above(k) \in SUBSET D!Lines OBVIOUS
<1>6. CASE cut = {}
  <2>1. \A m \in above(l) : r[m] <= z[m] BY <1>3, <1>6
  <2>2. Cardinality(D!Copies(r, above(l))) <= Cardinality(D!Copies(z, above(l)))
    BY <1>1, <1>5, <2>1, CopiesGrow
  <2>3. D!Newer(r, l) <= D!Newer(z, l) BY <2>2, NewerIs
  <2>4. QED BY <1>0, <1>2, <1>4, <2>3, NewerIsNumber
<1>7. CASE cut # {}
  <2>1. cut \in SUBSET (0..MaxLines) BY DEF D!Lines
  <2>2. PICK g : g = Max(cut) OBVIOUS
  <2>3. g \in cut /\ \A m \in cut : g >= m BY <1>7, <2>1, <2>2, MaxIsGreatest, DebugAssumption
  <2>4. g \in D!Lines /\ g > l /\ z[g] # r[g] BY <2>3
  <2>5. \A m \in above(g) : z[m] = r[m]
    <3> TAKE m \in above(g)
    <3>1. m \in D!Lines /\ m > g /\ m > l BY <2>4 DEF D!Lines
    <3>2. m \notin cut BY <2>3, <3>1 DEF D!Lines
    <3>3. QED BY <3>1, <3>2
  <2>6. D!Newer(r, g) <= D!Newer(z, g)
    <3>1. \A m \in above(g) : r[m] <= z[m] BY <1>3, <2>5
    <3>2. Cardinality(D!Copies(r, above(g))) <= Cardinality(D!Copies(z, above(g)))
      BY <1>1, <1>5, <3>1, CopiesGrow
    <3>3. QED BY <3>2, NewerIs
  <2>7. D!Newer(z, g) + z[g] <= D!Newer(z, l)
    <3>1. above(g) \cup {g} \in SUBSET above(l) /\ g \notin above(g) BY <2>4 DEF D!Lines
    <3>2. Cardinality(D!Copies(z, above(g) \cup {g})) = Cardinality(D!Copies(z, above(g))) + z[g]
      BY <1>1, <1>5, <2>4, <3>1, CopiesAdd
    <3>3. \A m \in above(g) \cup {g} : z[m] <= z[m] BY <1>3, <2>4
    <3>4. Cardinality(D!Copies(z, above(g) \cup {g})) <= Cardinality(D!Copies(z, above(l)))
      BY <1>1, <1>5, <3>1, <3>3, CopiesGrow
    <3>5. QED BY <3>2, <3>4, NewerIs
  <2>8. z[g] \in Nat /\ D!Newer(r, g) \in Nat /\ D!Newer(z, g) \in Nat BY <1>1, <1>3, <2>4, NewerIsNumber
  <2>9. CASE D!Newer(r, g) >= MaxLog BY <1>0, <1>4, <2>6, <2>7, <2>8, <2>9
  <2>10. CASE D!Newer(r, g) < MaxLog
    <3>1. D!Newer(r, g) < MaxLog => z[g] = r[g] \/ z[g] = MaxLog - D!Newer(r, g)
      BY <1>0, <2>4, RolledIs
    <3>2. QED BY <1>0, <1>4, <2>6, <2>7, <2>4, <2>8, <2>10, <3>1
  <2>11. QED BY <2>8, <2>9, <2>10, DebugAssumption
<1>8. QED BY <1>6, <1>7
-----------------------------------------------------------------------------
(* The debug log: what its threads and processes do *)

LogSteps == {"idle", "flush", "read", "delete", "end", "purge"}

\* The lines of the file were written, and each line has a number of rows.
LogTypes ==
  /\ written \in 0..MaxLines /\ file \in Seq(1..written)
  /\ table \in Counts /\ view \in Counts
  /\ writer \in D!Procs \cup {NoOne}
  /\ mutex \in [D!Procs -> Threads \cup {NoOne}]
  /\ step \in [Threads -> LogSteps] /\ purging \in [Threads -> BOOLEAN]
  /\ users \subseteq D!Procs /\ IsFiniteSet(users)
  /\ crashes \in Nat

\* Who is between opening the file and the end of the flush has the mutex of
\* its process, and who has written to the store a transaction.
Locks ==
  /\ \A t \in Threads : step[t] # "idle" => ProcOf[t] \in users
  /\ \A t \in Threads : step[t] \in {"read", "delete", "end"} => mutex[ProcOf[t]] = t
  /\ writer # NoOne => writer \in users /\ writer \in inTxn

OneUser == \A p, q \in users : p = q

\* The table as the process that uses the log sees it.
Shown == IF writer = NoOne THEN table ELSE view

\* No row is doubled, and the lines of the file have none yet, but while the
\* file that was read is being deleted.
Once ==
  crashes = 0 /\ OneUser =>
    /\ \A l \in D!Lines : table[l] <= 1 /\ view[l] <= 1
    /\ \A l \in D!Lines : l > written => table[l] = 0 /\ view[l] = 0
    /\ (\A t \in Threads : step[t] # "delete") =>
         \A i \in DOMAIN file : table[file[i]] = 0 /\ view[file[i]] = 0

\* A line is in the file or has rows, unless it was taken out, and while the
\* file is being deleted its lines have.
Kept ==
  OneUser =>
    /\ \A l \in 1..written \ Quoted :
         (\E i \in DOMAIN file : file[i] = l) \/ Shown[l] > 0 \/ l \in left
    /\ (\E t \in Threads : step[t] = "delete") =>
         \A i \in DOMAIN file : file[i] \in Quoted \/ Shown[file[i]] > 0 \/ file[i] \in left

LogInv == LogTypes /\ Locks /\ Once /\ Kept

LEMMA RangeIs == ASSUME NEW f PROVE D!Range(f) = {f[x] : x \in DOMAIN f}
BY DEF D!Range

LEMMA ProcIs ==
  ASSUME NEW t \in Threads
  PROVE  ProcOf[t] \in D!Procs /\ ProcOf[t] # NoOne /\ t # NoOne
BY DebugAssumption

\* What a write on the connection of p leaves.
WrittenBy(p, r) ==
  /\ Shown' = r /\ (table' = table \/ table' = r) /\ (view' = view \/ view' = r)
  /\ writer' \in {writer, p} /\ (writer' # NoOne => writer' = p /\ p \in inTxn)

\* ... when it is done.
LEMMA RowsWritten ==
  ASSUME LogTypes, Locks, NEW p \in D!Procs, D!CanWrite(p), NEW r \in Counts, D!WriteRows(p, r)
  PROVE  WrittenBy(p, r)
<1>1. p # NoOne BY DebugAssumption
<1>2. writer = NoOne \/ (writer = p /\ p \in inTxn) BY DEF D!CanWrite, Locks
<1>3. QED BY <1>1, <1>2 DEF D!WriteRows, WrittenBy, Shown

LEMMA RowsSeen ==
  ASSUME NEW p \in D!Procs, D!CanWrite(p)
  PROVE  D!Rows(p) = Shown
BY DebugAssumption DEF D!Rows, D!CanWrite, Shown

\* What the end of a transaction of p leaves.
EndedBy(p) ==
  /\ Shown' = Shown /\ (table' = table \/ table' = view) /\ (view' = view \/ view' = D!NoRows)
  /\ inTxn' = inTxn \ {p} /\ (writer' # NoOne => writer' = writer /\ writer # p)

LEMMA TxnEnded ==
  ASSUME NEW p \in D!Procs, D!EndTxn(p)
  PROVE  EndedBy(p)
<1>1. p # NoOne BY DebugAssumption
<1>2. CASE writer = p BY <1>1, <1>2 DEF D!EndTxn, D!WriteAndEnd, EndedBy, Shown
<1>3. CASE writer # p BY <1>1, <1>3 DEF D!EndTxn, EndedBy, Shown
<1>4. QED BY <1>2, <1>3

LEMMA ShownIsCounts ==
  ASSUME LogTypes PROVE Shown \in Counts /\ D!NoRows \in Counts
BY DEF LogTypes, Shown, Counts, D!NoRows

\* With one user nobody flushes while t has the mutex or may take it.
LEMMA AloneWithMutex ==
  ASSUME LogTypes, Locks, NEW t \in Threads, ProcOf[t] \in users', users \subseteq users', OneUser',
         mutex[ProcOf[t]] \in {NoOne, t},
         NEW s \in Threads, step[s] \in {"read", "delete", "end"}
  PROVE  s = t
<1>1. ProcOf[s] \in users' /\ mutex[ProcOf[s]] = s BY DEF Locks
<1>2. ProcOf[s] = ProcOf[t] BY <1>1 DEF OneUser
<1>3. QED BY <1>1, <1>2, ProcIs

LEMMA UserAdded ==
  ASSUME LogTypes, NEW t \in Threads, D!Uses(t)
  PROVE  /\ users' \subseteq D!Procs /\ IsFiniteSet(users') /\ users \subseteq users' /\ ProcOf[t] \in users'
         /\ OneUser' => OneUser
<1>1. users' = users \cup {ProcOf[t]} BY DEF D!Uses
<1>2. IsFiniteSet(users') BY <1>1, FS_AddElement DEF LogTypes
<1>3. OneUser' => OneUser BY <1>1 DEF OneUser
<1>4. QED BY <1>1, <1>2, <1>3, ProcIs DEF LogTypes

\* A line is appended.
LEMMA WriteKeeps ==
  ASSUME LogInv, NEW t \in Threads, D!Write(t)
  PROVE  LogInv'
<1>1. LogTypes /\ Locks /\ Once /\ Kept BY DEF LogInv
<1>2. /\ step[t] = "idle" /\ mutex[ProcOf[t]] = NoOne /\ written < MaxLines /\ written' = written + 1
      /\ file' = Append(file, written')
      /\ step' = step \/ step' = [step EXCEPT ![t] = "flush"]
      /\ UNCHANGED <<table, writer, view, inTxn, inPass, mutex, purging, left, crashes>> /\ D!Uses(t)
  BY DEF D!Write, D!Go, D!store
<1>3. /\ users' \subseteq D!Procs /\ IsFiniteSet(users') /\ users \subseteq users' /\ ProcOf[t] \in users'
      /\ OneUser' => OneUser
  BY <1>1, <1>2, UserAdded
<1>4. /\ written \in Nat /\ written' \in 0..MaxLines /\ file \in Seq(1..written')
      /\ \A i \in DOMAIN file : file[i] \in 1..written
  BY <1>1, <1>2, DebugAssumption DEF LogTypes
<1>5. /\ file' \in Seq(1..written') /\ DOMAIN file \subseteq DOMAIN file'
      /\ \A i \in DOMAIN file : file'[i] = file[i]
      /\ \A i \in DOMAIN file' : i \in DOMAIN file \/ file'[i] = written'
      /\ \E i \in DOMAIN file' : file'[i] = written'
  <2>1. file' \in Seq(1..written') BY <1>2, <1>4
  <2>2. /\ Len(file) \in Nat /\ DOMAIN file = 1..Len(file) /\ DOMAIN file' = 1..(Len(file) + 1)
        /\ \A i \in 1..Len(file) : file'[i] = file[i]
        /\ file'[Len(file) + 1] = written'
    BY <1>2, <1>4
  <2>3. QED BY <2>1, <2>2
<1>6. \A s \in Threads : (step'[s] = step[s] \/ step'[s] = "flush") /\ (step'[s] # step[s] => s = t)
  BY <1>1, <1>2 DEF LogTypes
<1>7. LogTypes'
  <2>1. step' \in [Threads -> LogSteps] BY <1>1, <1>2 DEF LogTypes, LogSteps
  <2>2. QED BY <1>1, <1>2, <1>3, <1>4, <1>5, <2>1 DEF LogTypes
<1>8. Locks' BY <1>1, <1>2, <1>3, <1>6 DEF Locks
<1>9. ASSUME OneUser' PROVE \A s \in Threads : step[s] # "delete" /\ step'[s] # "delete"
  BY <1>1, <1>2, <1>3, <1>6, <1>9, AloneWithMutex
<1>10. Once'
  <2> SUFFICES ASSUME crashes' = 0, OneUser'
               PROVE  /\ \A l \in D!Lines : table[l] <= 1 /\ view[l] <= 1
                      /\ \A l \in D!Lines : l > written' => table[l] = 0 /\ view[l] = 0
                      /\ \A i \in DOMAIN file' : table[file'[i]] = 0 /\ view[file'[i]] = 0
    BY <1>2 DEF Once
  <2>1. /\ \A l \in D!Lines : table[l] <= 1 /\ view[l] <= 1
        /\ \A l \in D!Lines : l > written => table[l] = 0 /\ view[l] = 0
        /\ \A i \in DOMAIN file : table[file[i]] = 0 /\ view[file[i]] = 0
    BY <1>1, <1>2, <1>3, <1>9 DEF Once
  <2>2. \A l \in D!Lines : l > written' => l > written BY <1>2, <1>4 DEF D!Lines
  <2>3. written' \in D!Lines /\ written' > written BY <1>2, <1>4 DEF D!Lines
  <2>4. \A i \in DOMAIN file' : table[file'[i]] = 0 /\ view[file'[i]] = 0 BY <1>5, <2>1, <2>3
  <2>5. QED BY <2>1, <2>2, <2>4
<1>11. Kept'
  <2> SUFFICES ASSUME OneUser', NEW l \in 1..written' \ Quoted
               PROVE  (\E i \in DOMAIN file' : file'[i] = l) \/ Shown'[l] > 0 \/ l \in left'
    BY <1>9 DEF Kept
  <2>1. Shown' = Shown /\ left' = left BY <1>2 DEF Shown
  <2>2. l = written' \/ l \in 1..written BY <1>2, <1>4
  <2>3. CASE l = written' BY <1>5, <2>3
  <2>4. CASE l \in 1..written BY <1>1, <1>3, <1>5, <2>1, <2>4 DEF Kept
  <2>5. QED BY <2>2, <2>3, <2>4
<1>12. QED BY <1>7, <1>8, <1>10, <1>11 DEF LogInv

\* A flush is asked for.
LEMMA GatherKeeps ==
  ASSUME LogInv, NEW t \in Threads, NEW purge \in BOOLEAN, D!Gather(t, purge)
  PROVE  LogInv'
<1>1. LogTypes /\ Locks /\ Once /\ Kept BY DEF LogInv
<1>2. /\ step[t] = "idle" /\ step' = [step EXCEPT ![t] = "flush"]
      /\ purging' = [purging EXCEPT ![t] = purge]
      /\ UNCHANGED <<written, file, table, writer, view, inTxn, inPass, mutex, left, crashes>> /\ D!Uses(t)
  BY DEF D!Gather, D!Go, D!store
<1>3. /\ users' \subseteq D!Procs /\ IsFiniteSet(users') /\ users \subseteq users' /\ ProcOf[t] \in users'
      /\ OneUser' => OneUser
  BY <1>1, <1>2, UserAdded
<1>4. \A s \in Threads : step'[s] = IF s = t THEN "flush" ELSE step[s] BY <1>1, <1>2 DEF LogTypes
<1>5. LogTypes'
  <2>1. step' \in [Threads -> LogSteps] BY <1>1, <1>2 DEF LogTypes, LogSteps
  <2>2. purging' \in [Threads -> BOOLEAN] BY <1>1, <1>2 DEF LogTypes
  <2>3. QED BY <1>1, <1>2, <1>3, <2>1, <2>2 DEF LogTypes
<1>6. Locks' BY <1>1, <1>2, <1>3, <1>4 DEF Locks
<1>7. \A s \in Threads : step'[s] = "delete" <=> step[s] = "delete" BY <1>2, <1>4
<1>8. Shown' = Shown BY <1>2 DEF Shown
<1>9. Once' BY <1>1, <1>2, <1>3, <1>7 DEF Once
<1>10. Kept' BY <1>1, <1>2, <1>3, <1>7, <1>8 DEF Kept
<1>11. QED BY <1>5, <1>6, <1>9, <1>10 DEF LogInv

\* A flush begins, if there is a file.
LEMMA FlushOpenKeeps ==
  ASSUME LogInv, NEW t \in Threads, D!FlushOpen(t)
  PROVE  LogInv'
<1>1. LogTypes /\ Locks /\ Once /\ Kept BY DEF LogInv
<1>2. /\ step[t] = "flush" /\ mutex[ProcOf[t]] = NoOne
      /\ UNCHANGED <<written, file, table, writer, view, inPass, purging, users, left, crashes>>
      /\ \/ /\ step' = [step EXCEPT ![t] = D!AfterFlush(t)] /\ UNCHANGED <<inTxn, mutex>>
         \/ /\ step' = [step EXCEPT ![t] = "read"] /\ inTxn' = inTxn \cup {ProcOf[t]}
            /\ mutex' = [mutex EXCEPT ![ProcOf[t]] = t]
  BY DEF D!FlushOpen, D!Go
<1>3. D!AfterFlush(t) \in {"idle", "purge"} BY DEF D!AfterFlush
<1>4. /\ \A s \in Threads \ {t} : step'[s] = step[s]
      /\ (step'[t] \in {"idle", "purge"} /\ mutex' = mutex) \/ (step'[t] = "read" /\ mutex'[ProcOf[t]] = t)
      /\ \A p \in D!Procs \ {ProcOf[t]} : mutex'[p] = mutex[p]
      /\ inTxn \subseteq inTxn'
  BY <1>1, <1>2, <1>3, ProcIs DEF LogTypes
<1>5. LogTypes'
  <2>1. step' \in [Threads -> LogSteps] BY <1>1, <1>2, <1>3 DEF LogTypes, LogSteps
  <2>2. mutex' \in [D!Procs -> Threads \cup {NoOne}] BY <1>1, <1>2 DEF LogTypes
  <2>3. QED BY <1>1, <1>2, <2>1, <2>2 DEF LogTypes
<1>6. Locks'
  <2>1. ASSUME NEW s \in Threads, step'[s] \in {"read", "delete", "end"} PROVE mutex'[ProcOf[s]] = s
    <3>1. CASE s = t BY <1>4, <2>1, <3>1
    <3>2. CASE s # t
      <4>1. mutex[ProcOf[s]] = s BY <1>1, <1>4, <2>1, <3>2 DEF Locks
      <4>2. ProcOf[s] # ProcOf[t] BY <1>2, <4>1, ProcIs
      <4>3. QED BY <1>4, <4>1, <4>2, ProcIs
    <3>3. QED BY <3>1, <3>2
  <2>2. \A s \in Threads : step'[s] # "idle" => ProcOf[s] \in users' BY <1>1, <1>2, <1>4 DEF Locks
  <2>3. QED BY <1>1, <1>2, <1>4, <2>1, <2>2 DEF Locks
<1>7. \A s \in Threads : step'[s] = "delete" <=> step[s] = "delete" BY <1>2, <1>4
<1>8. Shown' = Shown /\ (OneUser' => OneUser) BY <1>2 DEF Shown, OneUser
<1>9. Once' BY <1>1, <1>2, <1>7, <1>8 DEF Once
<1>10. Kept' BY <1>1, <1>2, <1>7, <1>8 DEF Kept
<1>11. QED BY <1>5, <1>6, <1>9, <1>10 DEF LogInv

\* The lines of the file are stored.
LEMMA FlushReadKeeps ==
  ASSUME LogInv, NEW t \in Threads, D!FlushRead(t)
  PROVE  LogInv'
<1> DEFINE p == ProcOf[t]
           added == [l \in D!Lines |-> IF l \in D!Range(file) \ Quoted THEN 1 ELSE 0]
           all == [l \in D!Lines |-> Shown[l] + added[l]]
<1>1. LogTypes /\ Locks /\ Once /\ Kept BY DEF LogInv
<1>2. /\ step[t] = "read" /\ step' = [step EXCEPT ![t] = "delete"]
      /\ UNCHANGED <<written, file, inTxn, inPass, mutex, purging, users, left, crashes>>
  BY DEF D!FlushRead, D!Go
<1>3. p \in D!Procs /\ p \in users /\ mutex[p] = t BY <1>1, <1>2, ProcIs DEF Locks
<1>4. IF D!CanWrite(p) THEN D!WriteRows(p, all) ELSE UNCHANGED <<table, writer, view>>
  <2>1. D!CanWrite(p) => D!Rows(p) = Shown BY <1>3, RowsSeen
  <2>2. IF D!CanWrite(p) THEN D!WriteRows(p, [l \in D!Lines |-> D!Rows(p)[l] + added[l]])
                         ELSE UNCHANGED <<table, writer, view>>
    BY Zenon DEF D!FlushRead
  <2>3. QED BY <2>1, <2>2, Zenon
<1>5. \A l \in D!Lines : added[l] = IF \E i \in DOMAIN file : file[i] = l /\ l \notin Quoted THEN 1 ELSE 0
  BY RangeIs
<1> HIDE DEF added
<1>6. Shown \in Counts BY <1>1, ShownIsCounts
<1>7. /\ all \in Counts
      /\ \A l \in D!Lines : all[l] = Shown[l] + IF \E i \in DOMAIN file : file[i] = l /\ l \notin Quoted THEN 1 ELSE 0
  <2>1. \A l \in D!Lines : added[l] \in Nat BY <1>5
  <2>2. QED BY <1>5, <1>6, <2>1 DEF Counts
<1> HIDE DEF all
<1>8. WrittenBy(p, all) \/ UNCHANGED <<table, writer, view, Shown>>
  BY <1>1, <1>3, <1>4, <1>7, RowsWritten DEF Shown
<1>9. \A s \in Threads : step'[s] = IF s = t THEN "delete" ELSE step[s] BY <1>1, <1>2 DEF LogTypes
<1>10. LogTypes'
  <2>1. step' \in [Threads -> LogSteps] BY <1>1, <1>2 DEF LogTypes, LogSteps
  <2>2. table' \in Counts /\ view' \in Counts /\ writer' \in D!Procs \cup {NoOne}
    BY <1>1, <1>3, <1>7, <1>8 DEF LogTypes, WrittenBy
  <2>3. QED BY <1>1, <1>2, <2>1, <2>2 DEF LogTypes
<1>11. Locks'
  <2>1. writer' # NoOne => writer' \in users /\ writer' \in inTxn BY <1>1, <1>3, <1>8 DEF Locks, WrittenBy
  <2>2. QED BY <1>1, <1>2, <1>3, <1>9, <2>1 DEF Locks
<1>12. ASSUME OneUser' PROVE \A s \in Threads : step[s] # "delete"
  BY <1>1, <1>2, <1>3, <1>12, AloneWithMutex
<1>13. OneUser' => OneUser /\ D!CanWrite(p)
  BY <1>1, <1>2, <1>3 DEF OneUser, Locks, D!CanWrite
<1>14. \A i \in DOMAIN file : file[i] \in D!Lines /\ file[i] <= written BY <1>1, DebugAssumption DEF LogTypes, D!Lines
<1>15. Once'
  <2> SUFFICES ASSUME crashes' = 0, OneUser'
               PROVE  /\ \A l \in D!Lines : table'[l] <= 1 /\ view'[l] <= 1
                      /\ \A l \in D!Lines : l > written => table'[l] = 0 /\ view'[l] = 0
    BY <1>2, <1>9 DEF Once
  <2>1. /\ \A l \in D!Lines : table[l] <= 1 /\ view[l] <= 1
        /\ \A l \in D!Lines : l > written => table[l] = 0 /\ view[l] = 0
        /\ \A i \in DOMAIN file : table[file[i]] = 0 /\ view[file[i]] = 0
    BY <1>1, <1>2, <1>12, <1>13 DEF Once
  <2>2. \A l \in D!Lines : Shown[l] \in {table[l], view[l]} /\ Shown[l] \in Nat BY <1>6 DEF Shown, Counts
  <2>3. \A l \in D!Lines : all[l] <= 1 BY <1>7, <2>1, <2>2
  <2>4. \A l \in D!Lines : l > written => all[l] = 0
    <3> TAKE l \in D!Lines
    <3> HAVE l > written
    <3>1. Shown[l] = 0 BY <2>1, <2>2
    <3>2. \A i \in DOMAIN file : file[i] # l BY <1>1, <1>14 DEF LogTypes, D!Lines
    <3>3. QED BY <1>7, <3>1, <3>2
  <2>5. QED BY <1>8, <2>1, <2>3, <2>4 DEF WrittenBy
<1>16. Kept'
  <2> SUFFICES ASSUME OneUser'
               PROVE  /\ \A l \in 1..written \ Quoted :
                           (\E i \in DOMAIN file : file[i] = l) \/ Shown'[l] > 0 \/ l \in left
                      /\ \A i \in DOMAIN file : file[i] \in Quoted \/ Shown'[file[i]] > 0 \/ file[i] \in left
    BY <1>2 DEF Kept
  <2>1. Shown' = all BY <1>1, <1>3, <1>4, <1>7, <1>13, RowsWritten DEF WrittenBy
  <2>2. \A l \in D!Lines : Shown[l] \in Nat BY <1>6 DEF Counts
  <2>3. \A l \in 1..written : l \in D!Lines BY <1>1, DebugAssumption DEF LogTypes, D!Lines
  <2>4. \A l \in 1..written \ Quoted : (\E i \in DOMAIN file : file[i] = l) \/ Shown'[l] > 0 \/ l \in left
    <3> TAKE l \in 1..written \ Quoted
    <3>1. (\E i \in DOMAIN file : file[i] = l) \/ Shown[l] > 0 \/ l \in left BY <1>1, <1>13 DEF Kept
    <3>2. Shown[l] > 0 => Shown'[l] > 0 BY <1>7, <2>1, <2>2, <2>3
    <3>3. QED BY <3>1, <3>2
  <2>5. \A i \in DOMAIN file : file[i] \in Quoted \/ Shown'[file[i]] > 0
    BY <1>7, <1>14, <2>1, <2>2
  <2>6. QED BY <2>4, <2>5
<1>17. QED BY <1>10, <1>11, <1>15, <1>16 DEF LogInv

\* The file is deleted.
LEMMA FlushDeleteKeeps ==
  ASSUME LogInv, NEW t \in Threads, D!FlushDelete(t)
  PROVE  LogInv'
<1>1. LogTypes /\ Locks /\ Once /\ Kept BY DEF LogInv
<1>2. /\ step[t] = "delete" /\ step' = [step EXCEPT ![t] = "end"] /\ file' = <<>>
      /\ UNCHANGED <<written, table, writer, view, inTxn, inPass, mutex, purging, users, left, crashes>>
  BY DEF D!FlushDelete, D!Go, D!store
<1>3. \A s \in Threads : step'[s] = IF s = t THEN "end" ELSE step[s] BY <1>1, <1>2 DEF LogTypes
<1>4. LogTypes'
  <2>1. step' \in [Threads -> LogSteps] BY <1>1, <1>2 DEF LogTypes, LogSteps
  <2>2. file' \in Seq(1..written') BY <1>2
  <2>3. QED BY <1>1, <1>2, <2>1, <2>2 DEF LogTypes
<1>5. Locks' BY <1>1, <1>2, <1>3 DEF Locks
<1>6. DOMAIN file' = {} BY <1>2
<1>7. Shown' = Shown /\ (OneUser' => OneUser) BY <1>2 DEF Shown, OneUser
<1>8. Once' BY <1>1, <1>2, <1>6, <1>7 DEF Once
<1>9. Kept' BY <1>1, <1>2, <1>6, <1>7 DEF Kept
<1>10. QED BY <1>4, <1>5, <1>8, <1>9 DEF LogInv

\* The log is rolled, and the transaction ends.
LEMMA FlushEndKeeps ==
  ASSUME LogInv, NEW t \in Threads, D!FlushEnd(t)
  PROVE  LogInv'
<1> DEFINE p == ProcOf[t]
<1>1. LogTypes /\ Locks /\ Once /\ Kept BY DEF LogInv
<1>2. /\ step[t] = "end" /\ step' = [step EXCEPT ![t] = D!AfterFlush(t)]
      /\ mutex' = [mutex EXCEPT ![p] = NoOne]
      /\ UNCHANGED <<written, file, inPass, purging, users, crashes>>
  BY DEF D!FlushEnd, D!Go
<1>3. p \in D!Procs /\ p # NoOne /\ p \in users /\ mutex[p] = t BY <1>1, <1>2, ProcIs DEF Locks
<1>4. D!AfterFlush(t) \in {"idle", "purge"} BY DEF D!AfterFlush
<1>5. \A s \in Threads : step'[s] = IF s = t THEN D!AfterFlush(t) ELSE step[s] BY <1>1, <1>2 DEF LogTypes
<1>6. PICK r : r = D!Rolled(Shown) OBVIOUS
<1>7. Shown \in Counts /\ D!NoRows \in Counts BY <1>1, ShownIsCounts
<1>8. /\ r \in Counts /\ \A l \in D!Lines : r[l] <= Shown[l]
      /\ \A l \in D!Lines : r[l] = 0 /\ Shown[l] > 0 => D!Newer(r, l) >= MaxLog
  <2>1. \A l \in D!Lines : r[l] \in Nat /\ r[l] <= Shown[l] BY <1>6, <1>7, RolledIs
  <2>2. r = [l \in D!Lines |-> r[l]] BY <1>6, Zenon DEF D!Rolled
  <2>3. \A l \in D!Lines : r[l] = 0 /\ Shown[l] > 0 => D!Newer(r, l) >= MaxLog BY <1>6, <1>7, RolledForNewer
  <2>4. QED BY <2>1, <2>2, <2>3 DEF Counts
<1>9. \/ /\ table' = r /\ writer' = NoOne /\ view' = D!NoRows /\ inTxn' = inTxn \ {p} /\ Shown' = r
         /\ left' = left \cup {l \in D!Lost(Shown, r) : D!Newer(r, l) >= MaxLog}
      \/ EndedBy(p) /\ left' = left /\ ~D!CanWrite(p)
  <2>1. CASE D!CanWrite(p)
    <3>1. D!Rows(p) = Shown BY <1>3, <2>1, RowsSeen
    <3>2. D!WriteAndEnd(p, r) /\ D!Gone({l \in D!Lost(Shown, table') : D!Newer(table', l) >= MaxLog})
      BY <1>6, <2>1, <3>1, Zenon DEF D!FlushEnd
    <3>3. table' = r /\ writer' = NoOne /\ view' = D!NoRows /\ inTxn' = inTxn \ {p} BY <3>2 DEF D!WriteAndEnd
    <3>4. left' = left \cup {l \in D!Lost(Shown, r) : D!Newer(r, l) >= MaxLog} BY <3>2, <3>3 DEF D!Gone
    <3>5. QED BY <3>3, <3>4 DEF Shown
  <2>2. CASE ~D!CanWrite(p)
    <3>1. D!EndTxn(p) /\ left' = left BY <2>2 DEF D!FlushEnd
    <3>2. QED BY <1>3, <2>2, <3>1, TxnEnded
  <2>3. QED BY <2>1, <2>2
<1>10. LogTypes'
  <2>1. step' \in [Threads -> LogSteps] BY <1>1, <1>2, <1>4 DEF LogTypes, LogSteps
  <2>2. table' \in Counts /\ view' \in Counts /\ writer' \in D!Procs \cup {NoOne}
    BY <1>1, <1>7, <1>8, <1>9 DEF LogTypes, EndedBy
  <2>3. mutex' \in [D!Procs -> Threads \cup {NoOne}] BY <1>1, <1>2 DEF LogTypes
  <2>4. QED BY <1>1, <1>2, <2>1, <2>2, <2>3 DEF LogTypes
<1>11. Locks'
  <2>1. writer' # NoOne => writer' \in users /\ writer' \in inTxn' BY <1>1, <1>3, <1>9 DEF Locks, EndedBy
  <2>2. ASSUME NEW s \in Threads, step'[s] \in {"read", "delete", "end"} PROVE mutex'[ProcOf[s]] = s
    <3>1. s # t /\ mutex[ProcOf[s]] = s BY <1>1, <1>4, <1>5, <2>2 DEF Locks
    <3>2. ProcOf[s] # p BY <1>3, <3>1
    <3>3. QED BY <1>1, <1>2, <3>1, <3>2, ProcIs DEF LogTypes
  <2>3. \A s \in Threads : step'[s] # "idle" => ProcOf[s] \in users' BY <1>1, <1>2, <1>3, <1>5 DEF Locks
  <2>4. QED BY <2>1, <2>2, <2>3, <1>2 DEF Locks
<1>12. \A s \in Threads : step'[s] = "delete" <=> step[s] = "delete" BY <1>2, <1>4, <1>5
<1>13. OneUser' => OneUser /\ D!CanWrite(p) BY <1>1, <1>2, <1>3 DEF OneUser, Locks, D!CanWrite
<1>14. Once'
  <2> SUFFICES ASSUME crashes' = 0, OneUser', Once
               PROVE  /\ \A l \in D!Lines : table'[l] <= 1 /\ view'[l] <= 1
                      /\ \A l \in D!Lines : l > written => table'[l] = 0 /\ view'[l] = 0
                      /\ (\A s \in Threads : step[s] # "delete") =>
                           \A i \in DOMAIN file : table'[file[i]] = 0 /\ view'[file[i]] = 0
    BY <1>1, <1>2, <1>12 DEF Once
  <2>1. table' = r /\ view' = D!NoRows BY <1>9, <1>13
  <2>2. \A l \in D!Lines : /\ r[l] \in Nat /\ Shown[l] \in Nat /\ r[l] <= Shown[l] /\ D!NoRows[l] = 0
                          /\ Shown[l] \in {table[l], view[l]}
    BY <1>7, <1>8 DEF Counts, D!NoRows, Shown
  <2>3. \A i \in DOMAIN file : file[i] \in D!Lines BY <1>1, DebugAssumption DEF LogTypes, D!Lines
  <2>4. /\ \A l \in D!Lines : table[l] <= 1 /\ view[l] <= 1
        /\ \A l \in D!Lines : l > written => table[l] = 0 /\ view[l] = 0
        /\ (\A s \in Threads : step[s] # "delete") =>
             \A i \in DOMAIN file : table[file[i]] = 0 /\ view[file[i]] = 0
    BY <1>2, <1>13 DEF Once
  <2>5. \A l \in D!Lines : /\ (table[l] <= 1 /\ view[l] <= 1 => table'[l] <= 1 /\ view'[l] <= 1)
                          /\ (table[l] = 0 /\ view[l] = 0 => table'[l] = 0 /\ view'[l] = 0)
    BY <2>1, <2>2
  <2>6. QED BY <2>3, <2>4, <2>5
<1>15. Kept'
  <2> SUFFICES ASSUME OneUser', Kept
               PROVE  /\ \A l \in 1..written \ Quoted :
                           (\E i \in DOMAIN file : file[i] = l) \/ Shown'[l] > 0 \/ l \in left'
                      /\ (\E s \in Threads : step[s] = "delete") =>
                           \A i \in DOMAIN file : file[i] \in Quoted \/ Shown'[file[i]] > 0 \/ file[i] \in left'
    BY <1>1, <1>2, <1>12 DEF Kept
  <2>1. Shown' = r /\ left' = left \cup {l \in D!Lost(Shown, r) : D!Newer(r, l) >= MaxLog} BY <1>9, <1>13
  <2>2. \A l \in D!Lines : Shown[l] > 0 \/ l \in left => Shown'[l] > 0 \/ l \in left'
    <3> TAKE l \in D!Lines
    <3>1. r[l] \in Nat /\ (r[l] = 0 /\ Shown[l] > 0 => l \in left')
      BY <1>8, <2>1 DEF D!Lost, Counts
    <3>2. QED BY <2>1, <3>1
  <2>3. \A l \in 1..written : l \in D!Lines BY <1>1, DebugAssumption DEF LogTypes, D!Lines
  <2>4. \A i \in DOMAIN file : file[i] \in D!Lines BY <1>1, DebugAssumption DEF LogTypes, D!Lines
  <2>5. QED BY <1>13, <2>2, <2>3, <2>4 DEF Kept
<1>16. QED BY <1>10, <1>11, <1>14, <1>15 DEF LogInv

\* The log is deleted.
LEMMA LogPurgeKeeps ==
  ASSUME LogInv, NEW t \in Threads, D!Purge(t)
  PROVE  LogInv'
<1> DEFINE p == ProcOf[t]
<1>1. LogTypes /\ Locks /\ Once /\ Kept BY DEF LogInv
<1>2. /\ step[t] = "purge" /\ step' = [step EXCEPT ![t] = "idle"] /\ purging' = [purging EXCEPT ![t] = FALSE]
      /\ UNCHANGED <<written, file, inTxn, inPass, mutex, users, crashes>>
  BY DEF D!Purge, D!Go
<1>3. p \in D!Procs /\ p \in users BY <1>1, <1>2, ProcIs DEF Locks
<1>4. \A s \in Threads : step'[s] = IF s = t THEN "idle" ELSE step[s] BY <1>1, <1>2 DEF LogTypes
<1>5. Shown \in Counts /\ D!NoRows \in Counts BY <1>1, ShownIsCounts
<1>6. \/ WrittenBy(p, D!NoRows) /\ left' = left \cup D!Lost(Shown, D!NoRows)
      \/ UNCHANGED <<table, writer, view, left, Shown>>
  <2>1. CASE D!CanWrite(p)
    <3>1. D!WriteRows(p, D!NoRows) /\ left' = left \cup D!Lost(Shown, D!NoRows)
      BY <1>3, <2>1, RowsSeen DEF D!Purge, D!Gone
    <3>2. QED BY <1>1, <1>3, <1>5, <2>1, <3>1, RowsWritten
  <2>2. CASE ~D!CanWrite(p) BY <2>2 DEF D!Purge, Shown
  <2>3. QED BY <2>1, <2>2
<1>7. LogTypes'
  <2>1. step' \in [Threads -> LogSteps] BY <1>1, <1>2 DEF LogTypes, LogSteps
  <2>2. table' \in Counts /\ view' \in Counts /\ writer' \in D!Procs \cup {NoOne}
    BY <1>1, <1>3, <1>5, <1>6 DEF LogTypes, WrittenBy
  <2>3. purging' \in [Threads -> BOOLEAN] BY <1>1, <1>2 DEF LogTypes
  <2>4. QED BY <1>1, <1>2, <2>1, <2>2, <2>3 DEF LogTypes
<1>8. Locks'
  <2>1. writer' # NoOne => writer' \in users /\ writer' \in inTxn BY <1>1, <1>3, <1>6 DEF Locks, WrittenBy
  <2>2. QED BY <1>1, <1>2, <1>4, <2>1 DEF Locks
<1>9. \A s \in Threads : step'[s] = "delete" <=> step[s] = "delete" BY <1>2, <1>4
<1>10. (OneUser' => OneUser) /\ \A l \in D!Lines : D!NoRows[l] = 0 BY <1>2 DEF OneUser, D!NoRows
<1>11. \A i \in DOMAIN file : file[i] \in D!Lines BY <1>1, DebugAssumption DEF LogTypes, D!Lines
<1>12. Once'
  <2>1. \A l \in D!Lines : /\ (table[l] <= 1 /\ view[l] <= 1 => table'[l] <= 1 /\ view'[l] <= 1)
                          /\ (table[l] = 0 /\ view[l] = 0 => table'[l] = 0 /\ view'[l] = 0)
    BY <1>6, <1>10 DEF WrittenBy
  <2>2. QED BY <1>1, <1>2, <1>9, <1>10, <1>11, <2>1 DEF Once
<1>13. Kept'
  <2>1. \A l \in D!Lines : Shown[l] > 0 \/ l \in left => Shown'[l] > 0 \/ l \in left'
    BY <1>6, <1>10 DEF WrittenBy, D!Lost
  <2>2. \A l \in 1..written : l \in D!Lines BY <1>1, DebugAssumption DEF LogTypes, D!Lines
  <2>3. QED BY <1>1, <1>2, <1>9, <1>10, <1>11, <2>1, <2>2 DEF Kept
<1>14. QED BY <1>7, <1>8, <1>12, <1>13 DEF LogInv

\* A poll pass begins.
LEMMA PassBeginKeeps ==
  ASSUME LogInv, NEW p \in D!Procs, D!PassBegin(p)
  PROVE  LogInv'
<1>1. LogTypes /\ Locks /\ Once /\ Kept BY DEF LogInv
<1>2. /\ UNCHANGED <<written, file, table, writer, view, mutex, step, purging, users, left, crashes>>
      /\ inTxn' = inTxn \cup {p}
  BY DEF D!PassBegin
<1>3. LogTypes' BY <1>1, <1>2 DEF LogTypes
<1>4. Locks' BY <1>1, <1>2 DEF Locks
<1>5. Shown' = Shown /\ (OneUser' => OneUser) BY <1>2 DEF Shown, OneUser
<1>6. Once' BY <1>1, <1>2, <1>5 DEF Once
<1>7. Kept' BY <1>1, <1>2, <1>5 DEF Kept
<1>8. QED BY <1>3, <1>4, <1>6, <1>7 DEF LogInv

\* A poll pass ends, with whatever transaction is open.
LEMMA PassEndKeeps ==
  ASSUME LogInv, NEW p \in D!Procs, D!PassEnd(p)
  PROVE  LogInv'
<1>1. LogTypes /\ Locks /\ Once /\ Kept BY DEF LogInv
<1>2. UNCHANGED <<written, file, mutex, step, purging, users, left, crashes>> /\ EndedBy(p)
  BY TxnEnded DEF D!PassEnd
<1>3. Shown' = Shown /\ (OneUser' => OneUser) BY <1>2 DEF EndedBy, OneUser
<1>4. D!NoRows \in Counts /\ \A l \in D!Lines : D!NoRows[l] = 0 BY <1>1, ShownIsCounts DEF D!NoRows
<1>5. table' \in Counts /\ view' \in Counts /\ writer' \in D!Procs \cup {NoOne}
  BY <1>1, <1>2, <1>4 DEF LogTypes, EndedBy
<1>6. LogTypes' BY <1>1, <1>2, <1>5 DEF LogTypes
<1>7. Locks'
  <2>1. writer' # NoOne => writer' \in users /\ writer' \in inTxn' BY <1>1, <1>2 DEF Locks, EndedBy
  <2>2. QED BY <1>1, <1>2, <2>1 DEF Locks
<1>8. Once'
  <2>1. \A i \in DOMAIN file : file[i] \in D!Lines BY <1>1, DebugAssumption DEF LogTypes, D!Lines
  <2>2. \A l \in D!Lines : /\ (table[l] <= 1 /\ view[l] <= 1 => table'[l] <= 1 /\ view'[l] <= 1)
                          /\ (table[l] = 0 /\ view[l] = 0 => table'[l] = 0 /\ view'[l] = 0)
    BY <1>2, <1>4 DEF EndedBy
  <2>3. QED BY <1>1, <1>2, <1>3, <2>1, <2>2 DEF Once
<1>9. Kept' BY <1>1, <1>2, <1>3 DEF Kept
<1>10. QED BY <1>6, <1>7, <1>8, <1>9 DEF LogInv

\* A process dies.
LEMMA CrashKeeps ==
  ASSUME LogInv, NEW p \in D!Procs, D!Crash(p)
  PROVE  LogInv'
<1>1. LogTypes /\ Locks /\ Once /\ Kept BY DEF LogInv
<1>2. /\ crashes' = crashes + 1 /\ inTxn' = inTxn \ {p} /\ mutex' = [mutex EXCEPT ![p] = NoOne]
      /\ step' = [t \in Threads |-> IF ProcOf[t] = p THEN "idle" ELSE step[t]]
      /\ purging' = [t \in Threads |-> ProcOf[t] # p /\ purging[t]]
      /\ UNCHANGED <<written, file, table, users>>
  BY DEF D!Crash
<1>3. IF writer = p
      THEN writer' = NoOne /\ view' = D!NoRows /\ left' = left \cup (D!Lost(view, table) \ D!Range(file))
      ELSE UNCHANGED <<writer, view, left>>
  BY DEF D!Crash, D!Gone
<1>4. p # NoOne /\ D!NoRows \in Counts BY <1>1, DebugAssumption, ShownIsCounts
<1>5. \A s \in Threads : step'[s] # "idle" => step'[s] = step[s] /\ ProcOf[s] # p BY <1>2
<1>6. LogTypes'
  <2>1. step' \in [Threads -> LogSteps] BY <1>1, <1>2 DEF LogTypes, LogSteps
  <2>2. purging' \in [Threads -> BOOLEAN] BY <1>2
  <2>3. mutex' \in [D!Procs -> Threads \cup {NoOne}] BY <1>1, <1>2 DEF LogTypes
  <2>4. view' \in Counts /\ writer' \in D!Procs \cup {NoOne} BY <1>1, <1>3, <1>4 DEF LogTypes
  <2>5. crashes' \in Nat BY <1>1, <1>2 DEF LogTypes
  <2>6. QED BY <1>1, <1>2, <2>1, <2>2, <2>3, <2>4, <2>5 DEF LogTypes
<1>7. Locks'
  <2>1. writer' # NoOne => writer' \in users /\ writer' \in inTxn' BY <1>1, <1>2, <1>3 DEF Locks
  <2>2. ASSUME NEW s \in Threads, step'[s] \in {"read", "delete", "end"} PROVE mutex'[ProcOf[s]] = s
    <3>1. mutex[ProcOf[s]] = s /\ ProcOf[s] # p BY <1>1, <1>5, <2>2 DEF Locks
    <3>2. QED BY <1>1, <1>2, <3>1, ProcIs DEF LogTypes
  <2>3. \A s \in Threads : step'[s] # "idle" => ProcOf[s] \in users' BY <1>1, <1>2, <1>5 DEF Locks
  <2>4. QED BY <1>2, <2>1, <2>2, <2>3 DEF Locks
<1>8. Once' BY <1>1, <1>2 DEF Once, LogTypes
<1>9. Kept'
  <2> SUFFICES ASSUME OneUser'
               PROVE  /\ \A l \in 1..written \ Quoted :
                           (\E i \in DOMAIN file : file[i] = l) \/ Shown'[l] > 0 \/ l \in left'
                      /\ (\E s \in Threads : step'[s] = "delete") =>
                           \A i \in DOMAIN file : file[i] \in Quoted \/ Shown'[file[i]] > 0 \/ file[i] \in left'
    BY <1>2 DEF Kept
  <2>1. OneUser BY <1>2 DEF OneUser
  <2>2. CASE writer = p
    <3>1. p \in users BY <1>1, <1>4, <2>2 DEF Locks
    <3>2. ASSUME NEW s \in Threads PROVE step'[s] # "delete"
      <4> SUFFICES ASSUME step'[s] = "delete" PROVE FALSE OBVIOUS
      <4>1. ProcOf[s] # p /\ step[s] # "idle" BY <1>5
      <4>2. ProcOf[s] \in users BY <1>1, <4>1 DEF Locks
      <4>3. QED BY <2>1, <3>1, <4>1, <4>2 DEF OneUser
    <3>3. Shown = view /\ Shown' = table BY <1>2, <1>3, <1>4, <2>2 DEF Shown
    <3>4. \A l \in D!Lines : table[l] \in Nat BY <1>1 DEF LogTypes, Counts
    <3>5. \A l \in 1..written : l \in D!Lines BY <1>1, DebugAssumption DEF LogTypes, D!Lines
    <3>6. \A l \in D!Lines : Shown[l] > 0 =>
            (\E i \in DOMAIN file : file[i] = l) \/ Shown'[l] > 0 \/ l \in left'
      <4> TAKE l \in D!Lines
      <4>1. view[l] > 0 /\ table[l] = 0 => l \in D!Lost(view, table) BY DEF D!Lost
      <4>2. l \in D!Range(file) => \E i \in DOMAIN file : file[i] = l BY RangeIs
      <4>3. table[l] # 0 => table[l] > 0 BY <3>4
      <4>4. left' = left \cup (D!Lost(view, table) \ D!Range(file)) BY <1>3, <2>2
      <4>5. QED BY <3>3, <4>1, <4>2, <4>3, <4>4
    <3>7. left \subseteq left' BY <1>3, <2>2
    <3>8. QED BY <1>1, <2>1, <3>2, <3>5, <3>6, <3>7 DEF Kept
  <2>3. CASE writer # p
    <3>1. Shown' = Shown /\ left' = left BY <1>2, <1>3, <2>3 DEF Shown
    <3>2. (\E s \in Threads : step'[s] = "delete") => \E s \in Threads : step[s] = "delete" BY <1>5
    <3>3. QED BY <1>1, <2>1, <3>1, <3>2 DEF Kept
  <2>4. QED BY <2>2, <2>3
<1>10. QED BY <1>6, <1>7, <1>8, <1>9 DEF LogInv

LEMMA LogNext ==
  ASSUME LogInv, D!Next
  PROVE  LogInv'
<1>1. ASSUME NEW t \in Threads,
             \/ D!Write(t) \/ (\E purge \in BOOLEAN : D!Gather(t, purge))
             \/ D!FlushOpen(t) \/ D!FlushRead(t) \/ D!FlushDelete(t) \/ D!FlushEnd(t) \/ D!Purge(t)
      PROVE  LogInv'
  BY <1>1, WriteKeeps, GatherKeeps, FlushOpenKeeps, FlushReadKeeps, FlushDeleteKeeps, FlushEndKeeps, LogPurgeKeeps
<1>2. ASSUME NEW p \in D!Procs, D!PassBegin(p) \/ D!PassEnd(p) \/ D!Crash(p)
      PROVE  LogInv'
  BY <1>2, PassBeginKeeps, PassEndKeeps, CrashKeeps
<1>3. QED BY <1>1, <1>2 DEF D!Next

LEMMA LogInit ==
  ASSUME D!Init
  PROVE  LogInv
<1>1. /\ written = 0 /\ file = <<>> /\ table = D!NoRows /\ writer = NoOne /\ view = D!NoRows
      /\ mutex = [p \in D!Procs |-> NoOne] /\ step = [t \in Threads |-> "idle"]
      /\ purging = [t \in Threads |-> FALSE] /\ users = {} /\ crashes = 0
  BY DEF D!Init
<1>2. D!NoRows \in Counts /\ \A l \in D!Lines : D!NoRows[l] = 0 BY DEF D!NoRows, Counts
<1>3. LogTypes
  <2>1. written \in 0..MaxLines /\ file \in Seq(1..written) BY <1>1, DebugAssumption
  <2>2. step \in [Threads -> LogSteps] BY <1>1 DEF LogSteps
  <2>3. IsFiniteSet(users) BY <1>1, FS_EmptySet
  <2>4. QED BY <1>1, <1>2, <2>1, <2>2, <2>3 DEF LogTypes
<1>4. Locks BY <1>1 DEF Locks
<1>5. Once BY <1>1, <1>2 DEF Once
<1>6. Kept BY <1>1, <1>2 DEF Kept
<1>7. QED BY <1>3, <1>4, <1>5, <1>6 DEF LogInv

\* Whatever part of the store a behaviour is of, the invariant holds of its
\* debug log.
LEMMA LogAlways == SpecAll => [](part = "debug" => LogInv)
<1> DEFINE I == part = "debug" => LogInv
<1>1. InitAll => I BY LogInit DEF InitAll
<1>2. I /\ [NextAll]_allVars => I'
  <2> SUFFICES ASSUME I, [NextAll]_allVars, part' = "debug" PROVE LogInv' OBVIOUS
  <2>1. CASE NextAll
    <3>1. part = "debug" /\ D!Next BY <2>1 DEF NextAll
    <3>2. QED BY <3>1, LogNext
  <2>2. CASE UNCHANGED allVars
    <3>1. LogTypes /\ Locks /\ Once /\ Kept BY <2>2 DEF allVars, LogInv
    <3>2. UNCHANGED <<written, file, table, writer, view, inTxn, mutex, step, purging, users, left, crashes>>
      BY <2>2 DEF allVars, debugVars, sharedVars
    <3>3. LogTypes' /\ Locks' BY <3>1, <3>2 DEF LogTypes, Locks
    <3>4. Once' BY <3>1, <3>2 DEF Once, OneUser
    <3>5. Shown' = Shown BY <3>2 DEF Shown
    <3>6. Kept' BY <3>1, <3>2, <3>5 DEF Kept, OneUser
    <3>7. QED BY <3>3, <3>4, <3>6 DEF LogInv
  <2>3. QED BY <2>1, <2>2
<1>3. QED BY <1>1, <1>2, PTL DEF SpecAll

LEMMA AloneIsOneUser ==
  ASSUME LogTypes, D!Alone
  PROVE  OneUser
<1>1. IsFiniteSet(users) BY DEF LogTypes
<1>2. D!Cardinality(users) = Cardinality(users) BY Zenon DEF D!Cardinality, Cardinality
<1>3. Cardinality(users) \in Nat /\ Cardinality(users) <= 1 BY <1>1, <1>2, FS_CardinalityType DEF D!Alone
<1>4. CASE Cardinality(users) = 0
  <2>1. users = {} BY <1>1, <1>4, FS_EmptySet
  <2>2. QED BY <2>1 DEF OneUser
<1>5. CASE Cardinality(users) = 1
  <2>1. \E x : users = {x} BY <1>1, <1>5, FS_Singleton
  <2>2. QED BY <2>1 DEF OneUser
<1>6. QED BY <1>3, <1>4, <1>5

\* No line is stored twice while one process uses the log and none dies:
\* flush_csv_log_to_db against poll passes that end its transaction, and the
\* other threads of the process.
THEOREM LinesAreStoredOnce == SpecAll => []StoredOnce
<1>1. (part = "debug" => LogInv) => StoredOnce
  <2> SUFFICES ASSUME part = "debug", LogInv PROVE D!StoredOnce BY DEF StoredOnce
  <2> SUFFICES ASSUME crashes = 0, D!Alone
               PROVE  \A l \in D!Lines : table[l] <= 1 /\ view[l] <= 1
    BY DEF D!StoredOnce
  <2>1. QED BY AloneIsOneUser DEF LogInv, Once
<1>2. QED BY <1>1, LogAlways, PTL

\* While one process uses the log no line is lost between file and table,
\* whatever its threads, purges and poll passes do, but by its death.
THEOREM NoLineIsLost == SpecAll => []NoneLost
<1>1. (part = "debug" => LogInv) => NoneLost
  <2> SUFFICES ASSUME part = "debug", LogInv PROVE D!NoneLost BY DEF NoneLost
  <2> SUFFICES ASSUME D!Alone, NEW l \in 1..written \ Quoted
               PROVE  D!Held(l) \/ l \in left
    BY DEF D!NoneLost
  <2>1. (\E i \in DOMAIN file : file[i] = l) \/ Shown[l] > 0 \/ l \in left
    BY AloneIsOneUser DEF LogInv, Kept
  <2>2. (\E i \in DOMAIN file : file[i] = l) => l \in D!Range(file) BY RangeIs
  <2>3. Shown[l] > 0 => table[l] > 0 \/ view[l] > 0 BY DEF Shown
  <2>4. QED BY <2>1, <2>2, <2>3 DEF D!Held
<1>2. QED BY <1>1, LogAlways, PTL

-----------------------------------------------------------------------------
(* The topology *)

Before == {"off", "discover", "rows"}                          \* old is not read yet
Ended == {"save", "valid", "namespaces", "mixed", "running"}   \* the DIMMs are processed
Phases == Before \cup {"new", "modified", "startup"} \cup Ended
AlarmNames == T!ConfigCodes \cup {"health", "mixed"}

Machine ==
  [slot : [Dimms -> Handles \cup {NoHandle}], isNew : [Dimms -> BOOLEAN], unclean : [Dimms -> BOOLEAN],
   sku : [Dimms -> BOOLEAN], goal : [Dimms -> T!Goals], namespaces : SUBSET Namespaces, mixed : BOOLEAN]

TopoTypes ==
  /\ sc \in Scenarios /\ hw \in Machine
  /\ topo \in [Dimms -> T!Row \cup {NoTopology}] /\ old \in [Dimms -> T!Row \cup {NoTopology}]
  /\ valid \in BOOLEAN /\ wasValid \in BOOLEAN /\ baseline \in BOOLEAN /\ clean \in BOOLEAN
  /\ open \subseteq (Dimms \cup Namespaces \cup {"system"}) \X AlarmNames
  /\ step \in Phases
  /\ seen \in [Dimms -> Handles \cup {NoHandle}]
  /\ status \in [Dimms -> [isNew : BOOLEAN, sku : BOOLEAN, unclean : BOOLEAN]]
  /\ todo \subseteq T!Seen
  /\ goalTold \in [Dimms -> T!Goals]

\* The DIMMs with a row in the store, and in what was read of it.
Rowed == {d \in Dimms : topo[d] # NoTopology}
Olds == {d \in Dimms : old[d] # NoTopology}

\* The map of the devices is that of the machine, unless a read failed.
Mapped ==
  /\ step \in Before \cup {"new", "modified"} => todo = {}
  /\ step = "startup" => todo \cap Unmanaged = {}
  /\ step \notin {"off", "discover"} =>
       /\ clean \/ "discovery" \notin failed => seen = hw.slot
       /\ "status" \notin failed => \A d \in T!Seen \ Unmanaged :
            (status[d].sku <=> hw.sku[d]) /\ (status[d].unclean <=> hw.unclean[d])

\* The DIMMs that are still to be processed.
Due(d) == step = "startup" /\ d \in todo

Skus ==
  step \in {"startup"} \cup Ended /\ failed \cap {"discovery", "status"} = {} =>
    \A d \in T!Managed : Due(d) \/ (<<d, "sku">> \in open <=> hw.sku[d])

NoGoalAlarm(d) == <<d, "goalFailed">> \notin open /\ <<d, "dataInvalid">> \notin open

\* Status g of the goal of d has been told, as far as it is.
GoalKnown(d, g) ==
  (g \in {"success", "failed", "invalid"} => goalTold[d] = g) /\ (g = "success" => NoGoalAlarm(d))

\* What a row says has been told: the next start does not tell it again.
GoalsKnown ==
  failed = {} =>
    /\ step # "startup" => \A d \in Rowed \ Unmanaged : GoalKnown(d, topo[d].goal)
    /\ step \in {"new", "modified"} => \A d \in Olds \ Unmanaged : GoalKnown(d, old[d].goal)
    /\ step = "startup" => \A d \in Olds \ Unmanaged : d \in todo => GoalKnown(d, old[d].goal)
    /\ step \in {"startup"} \cup Ended => \A d \in T!Managed : Due(d) \/ GoalKnown(d, hw.goal[d])

\* The rows are the DIMMs that the events tell.
KnownIs ==
  failed \cap {"crash", "save", "topology"} = {} =>
    /\ step # "valid" => valid = baseline
    /\ step \in Before => IF baseline THEN known = Rowed ELSE Rowed = {}
    /\ step = "rows" => wasValid = valid
    /\ step = "new" => baseline /\ known = Olds
    /\ step = "modified" => baseline /\ known = (Olds \cup T!Seen) \ T!Replaced
    /\ step \in {"startup"} \cup Ended => (baseline => known = T!Seen)
    /\ step = "save" => Rowed = T!Seen \ todo
    /\ step \in {"valid", "namespaces", "mixed", "running"} => Rowed = T!Seen
    /\ step \in {"namespaces", "mixed", "running"} => baseline

\* The devices that may have alarms.
Alarmed ==
  CASE step \in Before     -> Rowed
    [] step = "new"        -> Olds
    [] step = "modified"   -> (Olds \cup T!Seen) \ T!Replaced
    [] OTHER               -> T!Seen

Attached ==
  failed \cap {"crash", "discovery", "topology", "save", "events"} = {} =>
    \A z \in open :
      /\ z[1] \in Alarmed \cup Namespaces \cup {"system"}
      /\ step \in {"mixed", "running"} /\ z[1] \in Namespaces => z[1] \in hw.namespaces

Truths ==
  step # "off" =>
    /\ "discovery" \notin failed => missing \cap T!Present = {}
    /\ "status" \notin failed => \A d \in unsafe : hw.unclean[d]

TopoInv == TopoTypes /\ Mapped /\ Skus /\ GoalsKnown /\ KnownIs /\ Attached /\ Truths

USE DEF T!Go

LEMMA ScenarioIs ==
  ASSUME TopoTypes
  PROVE  sc.dimms \subseteq Dimms /\ sc.handles \subseteq Handles /\ sc.namespaces \subseteq Namespaces
BY ScenariosAssumption DEF TopoTypes

LEMMA PlacementIs ==
  ASSUME TopoTypes, NEW s \in T!Placement
  PROVE  s \in [Dimms -> Handles \cup {NoHandle}]
BY ScenarioIs DEF T!Placement

\* The machine remains one.
LEMMA RewiredMachine ==
  ASSUME TopoTypes, T!Rewire
  PROVE  hw' \in Machine
<1>1. hw \in Machine BY DEF TopoTypes
<1>2. ASSUME NEW s \in T!Placement, hw' = [hw EXCEPT !.slot = s] PROVE hw' \in Machine
  BY <1>1, <1>2, PlacementIs DEF Machine
<1>3. ASSUME NEW X \in SUBSET sc.namespaces, hw' = [hw EXCEPT !.namespaces = X] PROVE hw' \in Machine
  BY <1>1, <1>3, ScenarioIs DEF Machine
<1>4. ASSUME hw' = [hw EXCEPT !.mixed = ~@] PROVE hw' \in Machine
  <2>1. (~hw.mixed) \in BOOLEAN
    <3>1. CASE hw.mixed BY <3>1
    <3>2. CASE ~hw.mixed BY <3>2
    <3>3. QED BY <3>1, <3>2
  <2>2. QED BY <1>1, <1>4, <2>1 DEF Machine
<1>5. ASSUME NEW d \in sc.dimms, hw' = [hw EXCEPT !.isNew[d] = ~@] PROVE hw' \in Machine
  <2>1. [hw.isNew EXCEPT ![d] = ~@] \in [Dimms -> BOOLEAN] BY <1>1 DEF Machine
  <2>2. hw' = [hw EXCEPT !.isNew = [hw.isNew EXCEPT ![d] = ~@]] BY <1>5, Zenon
  <2>3. QED BY <1>1, <2>1, <2>2 DEF Machine
<1>6. ASSUME NEW d \in sc.dimms, hw' = [hw EXCEPT !.unclean[d] = ~@] PROVE hw' \in Machine
  <2>1. [hw.unclean EXCEPT ![d] = ~@] \in [Dimms -> BOOLEAN] BY <1>1 DEF Machine
  <2>2. hw' = [hw EXCEPT !.unclean = [hw.unclean EXCEPT ![d] = ~@]] BY <1>6, Zenon
  <2>3. QED BY <1>1, <2>1, <2>2 DEF Machine
<1>7. ASSUME NEW d \in sc.dimms, hw' = [hw EXCEPT !.sku[d] = ~@] PROVE hw' \in Machine
  <2>1. [hw.sku EXCEPT ![d] = ~@] \in [Dimms -> BOOLEAN] BY <1>1 DEF Machine
  <2>2. hw' = [hw EXCEPT !.sku = [hw.sku EXCEPT ![d] = ~@]] BY <1>7, Zenon
  <2>3. QED BY <1>1, <2>1, <2>2 DEF Machine
<1>8. ASSUME NEW d \in sc.dimms, NEW g \in T!Goals, hw' = [hw EXCEPT !.goal[d] = g] PROVE hw' \in Machine
  <2>1. [hw.goal EXCEPT ![d] = g] \in [Dimms -> T!Goals] BY <1>1 DEF Machine
  <2>2. hw' = [hw EXCEPT !.goal = [hw.goal EXCEPT ![d] = g]] BY <1>8, Zenon
  <2>3. QED BY <1>1, <2>1, <2>2 DEF Machine
<1>9. QED BY <1>2, <1>3, <1>4, <1>5, <1>6, <1>7, <1>8 DEF T!Rewire

\* Only while it is off does the machine change.
LEMMA MachineStays ==
  ASSUME T!Next, step # "off"
  PROVE  hw' = hw /\ sc' = sc
BY DEF T!Next, T!Rewire, T!PowerOn, T!PowerOff, T!Crash, T!RaiseHealth, T!StartOfDay, T!Discover,
       T!ReadRows, T!NewDimms, T!ModifiedDimms, T!StartupDimm, T!SaveRow, T!DeleteRows, T!ClearValid,
       T!SetValid, T!AckNamespaces, T!MixedSku

LEMMA TopoTypesStay ==
  ASSUME TopoTypes, Mapped, T!Next
  PROVE  TopoTypes'
<1> USE DEF Phases, Before, Ended, T!dbVars, T!mapVars, T!history, T!trouble, T!NoFault, T!Fail
<1>1. CASE T!Rewire
  BY <1>1, RewiredMachine DEF TopoTypes, T!Rewire, T!Seen
<1>2. CASE T!PowerOn BY <1>2 DEF TopoTypes, T!PowerOn, T!Seen
<1>3. ASSUME T!Forget
      PROVE  /\ seen' \in [Dimms -> Handles \cup {NoHandle}]
             /\ old' \in [Dimms -> T!Row \cup {NoTopology}]
             /\ wasValid' \in BOOLEAN /\ todo' \subseteq T!Seen'
             /\ status' \in [Dimms -> [isNew : BOOLEAN, sku : BOOLEAN, unclean : BOOLEAN]]
  BY <1>3 DEF T!Forget, T!Nothing, T!NoRows, T!ZeroStatus
<1>4. CASE T!PowerOff BY <1>3, <1>4 DEF TopoTypes, T!PowerOff
<1>5. CASE T!Crash BY <1>3, <1>5 DEF TopoTypes, T!Crash
<1>6. CASE \E s \in Dimms \cup Namespaces : T!RaiseHealth(s)
  BY <1>6 DEF TopoTypes, T!RaiseHealth, AlarmNames, T!Seen
<1>7. CASE T!Discover
  <2>1. hw.slot \in [Dimms -> Handles \cup {NoHandle}] BY DEF TopoTypes, Machine
  <2>2. seen' \in [Dimms -> Handles \cup {NoHandle}] BY <1>7, <2>1 DEF T!Discover, T!Nothing
  <2>3. status' \in [Dimms -> [isNew : BOOLEAN, sku : BOOLEAN, unclean : BOOLEAN]]
    BY <1>7 DEF T!Discover, TopoTypes, Machine, T!ZeroStatus
  <2>4. wasValid' \in BOOLEAN /\ clean' \in BOOLEAN BY <1>7 DEF T!Discover, TopoTypes
  <2>5. todo' = {} BY <1>7 DEF T!Discover, Mapped
  <2>6. QED BY <1>7, <2>2, <2>3, <2>4, <2>5 DEF T!Discover, TopoTypes
<1>8. CASE T!ReadRows BY <1>8 DEF TopoTypes, T!ReadRows, T!Seen, T!NoRows
<1>9. CASE T!NewDimms BY <1>9 DEF TopoTypes, T!NewDimms, T!Seen, AlarmNames, T!ConfigCodes, T!New
<1>10. CASE T!ModifiedDimms BY <1>10 DEF TopoTypes, T!ModifiedDimms, T!Seen
<1>11. CASE \E d \in Dimms : T!StartupDimm(d)
  <2>1. PICK d \in Dimms : T!StartupDimm(d) BY <1>11
  <2>2. PICK tell \in BOOLEAN :
          /\ goalTold' = (IF tell THEN [goalTold EXCEPT ![d] = hw.goal[d]] ELSE goalTold)
          /\ open' = T!AfterSku(IF tell THEN T!AfterGoal(open, d, hw.goal[d]) ELSE open, d)
    BY <2>1 DEF T!StartupDimm
  <2>3. hw.goal[d] \in T!Goals BY DEF TopoTypes, Machine
  <2>4. goalTold' \in [Dimms -> T!Goals] BY <2>2, <2>3 DEF TopoTypes
  <2> DEFINE X == (Dimms \cup Namespaces \cup {"system"}) \X AlarmNames
  <2>5. \A k \in T!ConfigCodes : <<d, k>> \in X BY DEF AlarmNames
  <2>6. open \subseteq X BY DEF TopoTypes
  <2> HIDE DEF X
  <2>7. T!AfterGoal(open, d, hw.goal[d]) \subseteq X BY <2>5, <2>6 DEF T!AfterGoal, T!ConfigCodes
  <2>8. open' \subseteq X BY <2>2, <2>5, <2>6, <2>7 DEF T!AfterSku, T!ConfigCodes
  <2>9. clean' \in BOOLEAN BY <2>1 DEF T!StartupDimm, TopoTypes
  <2>10. todo' \subseteq T!Seen' BY <2>1 DEF T!StartupDimm, TopoTypes, T!Seen
  <2>11. QED BY <2>1, <2>4, <2>8, <2>9, <2>10 DEF T!StartupDimm, TopoTypes, X
<1>12. CASE \E d \in Dimms : T!SaveRow(d)
  <2>1. PICK d \in Dimms : T!SaveRow(d) BY <1>12
  <2>2. d \in T!Seen /\ seen[d] \in Handles BY <2>1 DEF T!SaveRow, TopoTypes, T!Seen
  <2>3. T!SavedGoal(d) \in T!GoalStatuses /\ "unknown" \in T!GoalStatuses BY DEF T!SavedGoal, T!GoalStatuses
  <2>4. \A g \in T!GoalStatuses : [handle |-> seen[d], goal |-> g] \in T!Row BY <2>2 DEF T!Row
  <2>5. topo' \in [Dimms -> T!Row \cup {NoTopology}] BY <2>1, <2>3, <2>4 DEF T!SaveRow, TopoTypes
  <2>6. clean' \in BOOLEAN /\ step' \in Phases /\ todo' \subseteq T!Seen'
    BY <2>1 DEF T!SaveRow, TopoTypes, T!Seen
  <2>7. QED BY <2>1, <2>5, <2>6 DEF T!SaveRow, TopoTypes
<1>13. CASE T!DeleteRows BY <1>13 DEF TopoTypes, T!DeleteRows, T!Seen, T!NoRows
<1>14. CASE T!ClearValid BY <1>14 DEF TopoTypes, T!ClearValid, T!Seen
<1>15. CASE T!SetValid BY <1>15 DEF TopoTypes, T!SetValid, T!Seen
<1>16. CASE T!AckNamespaces BY <1>16 DEF TopoTypes, T!AckNamespaces, T!Seen
<1>17. CASE T!MixedSku
  <2>1. open' \subseteq open \cup {<<"system", "mixed">>} BY <1>17 DEF T!MixedSku
  <2>2. <<"system", "mixed">> \in (Dimms \cup Namespaces \cup {"system"}) \X AlarmNames BY DEF AlarmNames
  <2>3. open' \subseteq (Dimms \cup Namespaces \cup {"system"}) \X AlarmNames BY <2>1, <2>2 DEF TopoTypes
  <2>4. clean' \in BOOLEAN BY <1>17 DEF T!MixedSku, TopoTypes
  <2>5. QED BY <1>17, <2>3, <2>4 DEF TopoTypes, T!MixedSku, T!Seen
<1>18. QED BY <1>1, <1>2, <1>4, <1>5, <1>6, <1>7, <1>8, <1>9, <1>10, <1>11, <1>12, <1>13, <1>14, <1>15,
              <1>16, <1>17 DEF T!Next, T!StartOfDay

\* The map of the devices stays that of the machine.
LEMMA MappedStays ==
  ASSUME TopoTypes, Mapped, T!Next
  PROVE  Mapped'
<1> USE DEF Phases, Before, Ended, T!dbVars, T!mapVars, T!history, T!trouble, T!NoFault, T!Fail
<1>1. CASE T!Rewire BY <1>1 DEF Mapped, T!Rewire
<1>2. CASE T!PowerOn BY <1>2 DEF Mapped, T!PowerOn
<1>3. CASE T!PowerOff BY <1>3 DEF Mapped, T!PowerOff, T!Forget
<1>4. CASE T!Crash BY <1>4 DEF Mapped, T!Crash, T!Forget
<1>5. CASE T!Discover
  <2>1. step' = "rows" /\ hw' = hw /\ todo' = {} BY <1>5 DEF T!Discover, Mapped
  <2>2. clean' \/ "discovery" \notin failed' => seen' = hw.slot BY <1>5 DEF T!Discover
  <2>3. ASSUME "status" \notin failed', NEW d \in Dimms, seen'[d] # NoHandle, d \notin Unmanaged
        PROVE  status'[d] = [isNew |-> hw.isNew[d], sku |-> hw.sku[d], unclean |-> hw.unclean[d]]
    BY <1>5, <2>3 DEF T!Discover
  <2>4. ASSUME "status" \notin failed', NEW d \in T!Seen' \ Unmanaged
        PROVE  (status'[d].sku <=> hw.sku[d]) /\ (status'[d].unclean <=> hw.unclean[d])
    <3>1. d \in Dimms /\ seen'[d] # NoHandle /\ d \notin Unmanaged BY <2>4 DEF T!Seen
    <3>2. status'[d] = [isNew |-> hw.isNew[d], sku |-> hw.sku[d], unclean |-> hw.unclean[d]] BY <2>3, <2>4, <3>1
    <3>3. status'[d].sku = hw.sku[d] /\ status'[d].unclean = hw.unclean[d] BY <3>2
    <3>4. QED BY <3>3, Zenon
  <2>5. Mapped' <=>
          /\ clean' \/ "discovery" \notin failed' => seen' = hw.slot
          /\ "status" \notin failed' => \A d \in T!Seen' \ Unmanaged :
               (status'[d].sku <=> hw.sku[d]) /\ (status'[d].unclean <=> hw.unclean[d])
    BY <2>1 DEF Mapped
  <2>6. QED BY <2>2, <2>4, <2>5, Zenon
<1>6. ASSUME step \notin {"off", "discover"}, step' # "off", UNCHANGED <<hw, seen, status>>,
             failed \subseteq failed', clean' => clean
      PROVE  step' # "discover" =>
               /\ clean' \/ "discovery" \notin failed' => seen' = hw'.slot
               /\ "status" \notin failed' => \A d \in T!Seen' \ Unmanaged :
                    (status'[d].sku <=> hw'.sku[d]) /\ (status'[d].unclean <=> hw'.unclean[d])
  BY <1>6 DEF Mapped, T!Seen
<1>7. CASE \E s \in Dimms \cup Namespaces : T!RaiseHealth(s) BY <1>6, <1>7 DEF Mapped, T!RaiseHealth
<1>8. CASE T!ReadRows BY <1>6, <1>8 DEF Mapped, T!ReadRows
<1>9. CASE T!NewDimms BY <1>6, <1>9 DEF Mapped, T!NewDimms
<1>10. CASE T!ModifiedDimms BY <1>6, <1>10 DEF Mapped, T!ModifiedDimms
<1>11. CASE \E d \in Dimms : T!StartupDimm(d) BY <1>6, <1>11 DEF Mapped, T!StartupDimm
<1>12. CASE \E d \in Dimms : T!SaveRow(d) BY <1>6, <1>12 DEF Mapped, T!SaveRow
<1>13. CASE T!DeleteRows BY <1>6, <1>13 DEF Mapped, T!DeleteRows
<1>14. CASE T!ClearValid BY <1>6, <1>14 DEF Mapped, T!ClearValid
<1>15. CASE T!SetValid BY <1>6, <1>15 DEF Mapped, T!SetValid
<1>16. CASE T!AckNamespaces BY <1>6, <1>16 DEF Mapped, T!AckNamespaces
<1>17. CASE T!MixedSku BY <1>6, <1>17 DEF Mapped, T!MixedSku
<1>18. QED BY <1>1, <1>2, <1>3, <1>4, <1>5, <1>7, <1>8, <1>9, <1>10, <1>11, <1>12, <1>13, <1>14, <1>15,
              <1>16, <1>17 DEF T!Next, T!StartOfDay

\* What was told is true.
LEMMA TruthsStay ==
  ASSUME TopoTypes, Mapped, Truths, T!Next
  PROVE  Truths'
<1> USE DEF Phases, Before, Ended, T!dbVars, T!mapVars, T!history, T!trouble, T!NoFault, T!Fail
<1>1. CASE step = "off"
  BY <1>1 DEF Truths, T!Next, T!Rewire, T!PowerOn, T!PowerOff, T!Crash, T!RaiseHealth, T!StartOfDay, T!Discover,
       T!ReadRows, T!NewDimms, T!ModifiedDimms, T!StartupDimm, T!SaveRow, T!DeleteRows, T!ClearValid,
       T!SetValid, T!AckNamespaces, T!MixedSku
<1>2. CASE step # "off"
  <2>1. hw' = hw /\ T!Present' = T!Present BY <1>2, MachineStays DEF T!Present
  <2>2. failed \subseteq failed'
    BY <1>2 DEF T!Next, T!Rewire, T!PowerOn, T!PowerOff, T!Crash, T!RaiseHealth, T!StartOfDay, T!Discover,
       T!ReadRows, T!NewDimms, T!ModifiedDimms, T!StartupDimm, T!SaveRow, T!DeleteRows, T!ClearValid,
       T!SetValid, T!AckNamespaces, T!MixedSku
  <2>3. \/ UNCHANGED <<missing, unsafe>>
        \/ T!ModifiedDimms
        \/ \E d \in Dimms : T!StartupDimm(d)
    BY <1>2 DEF T!Next, T!Rewire, T!PowerOn, T!PowerOff, T!Crash, T!RaiseHealth, T!StartOfDay, T!Discover,
       T!ReadRows, T!NewDimms, T!SaveRow, T!DeleteRows, T!ClearValid, T!SetValid, T!AckNamespaces, T!MixedSku
  <2>4. CASE UNCHANGED <<missing, unsafe>> BY <1>2, <2>1, <2>2, <2>4 DEF Truths
  <2>5. CASE T!ModifiedDimms
    <3>1. missing' = T!Missing /\ unsafe' = unsafe /\ step = "modified" BY <2>5 DEF T!ModifiedDimms
    <3>2. "discovery" \notin failed => T!Seen = T!Present BY <3>1 DEF Mapped, T!Seen, T!Present
    <3>3. T!Missing \cap T!Seen = {} BY DEF T!Missing
    <3>4. QED BY <1>2, <2>1, <2>2, <3>1, <3>2, <3>3 DEF Truths
  <2>6. CASE \E d \in Dimms : T!StartupDimm(d)
    <3>1. PICK d \in Dimms : T!StartupDimm(d) BY <2>6
    <3>2. missing' = missing /\ unsafe' = (IF status[d].unclean THEN unsafe \cup {d} ELSE unsafe)
          /\ d \in todo /\ step = "startup"
      BY <3>1 DEF T!StartupDimm
    <3>3. d \in T!Seen \ Unmanaged BY <3>2 DEF Mapped, TopoTypes
    <3>4. "status" \notin failed /\ status[d].unclean => hw.unclean[d] BY <3>2, <3>3 DEF Mapped
    <3>5. "status" \notin failed => \A e \in unsafe' : hw.unclean[e] BY <1>2, <3>2, <3>4 DEF Truths
    <3>6. QED BY <1>2, <2>1, <2>2, <3>2, <3>5 DEF Truths
  <2>7. QED BY <2>3, <2>4, <2>5, <2>6
<1>3. QED BY <1>1, <1>2

\* Failures are remembered.
LEMMA FailedGrows ==
  ASSUME T!Next
  PROVE  failed \subseteq failed'
BY DEF T!Next, T!Rewire, T!PowerOn, T!PowerOff, T!Crash, T!RaiseHealth, T!StartOfDay, T!Discover,
       T!ReadRows, T!NewDimms, T!ModifiedDimms, T!StartupDimm, T!SaveRow, T!DeleteRows, T!ClearValid,
       T!SetValid, T!AckNamespaces, T!MixedSku, T!dbVars, T!mapVars, T!history, T!trouble, T!NoFault, T!Fail

\* How a start goes on.
LEMMA StartGoesOn ==
  ASSUME T!Next, step' \in {"startup"} \cup Ended
  PROVE  \/ /\ step \in {"rows", "modified"} /\ step' = "startup" /\ todo' = T!Seen \ Unmanaged
            /\ UNCHANGED <<hw, seen>>
         \/ \E d \in Dimms : T!StartupDimm(d)
         \/ /\ step \in {"startup"} \cup Ended /\ UNCHANGED <<hw, seen, old, goalTold>>
            /\ step = "startup" => step' # "startup" /\ todo = {}
            /\ step' = "startup" => step = "startup"
            /\ ~ \E d \in Dimms : T!StartupDimm(d)
<1> USE DEF Ended, T!dbVars, T!mapVars, T!history, T!trouble, T!NoFault, T!Fail
<1>1. ~T!PowerOn /\ ~T!PowerOff /\ ~T!Rewire /\ ~T!Crash /\ ~T!Discover /\ ~T!NewDimms
  BY DEF T!PowerOn, T!PowerOff, T!Rewire, T!Crash, T!Discover, T!NewDimms
<1>2. CASE T!ReadRows BY <1>2 DEF T!ReadRows, T!Seen
<1>3. CASE T!ModifiedDimms BY <1>3 DEF T!ModifiedDimms, T!Seen
<1>4. CASE \/ \E s \in Dimms \cup Namespaces : T!RaiseHealth(s)
           \/ \E d \in Dimms : T!SaveRow(d)
           \/ T!DeleteRows \/ T!ClearValid \/ T!SetValid \/ T!AckNamespaces \/ T!MixedSku
  BY <1>4 DEF T!RaiseHealth, T!SaveRow, T!DeleteRows, T!ClearValid, T!SetValid, T!AckNamespaces, T!MixedSku,
     T!StartupDimm
<1>5. QED BY <1>1, <1>2, <1>3, <1>4 DEF T!Next, T!StartOfDay

\* No other step than that for a DIMM touches the alarms about its configuration.
LEMMA ConfigAlarmsStay ==
  ASSUME T!Next, step \in {"startup"} \cup Ended \cup {"off", "discover", "rows"},
         ~ \E d \in Dimms : T!StartupDimm(d),
         NEW d \in Dimms, NEW k \in T!ConfigCodes
  PROVE  <<d, k>> \in open' <=> <<d, k>> \in open
<1> USE DEF Ended, T!dbVars, T!mapVars, T!history, T!trouble, T!NoFault, T!Fail
<1>1. k # "health" /\ k # "mixed" BY DEF T!ConfigCodes
<1>2. d \notin Namespaces BY SetsAssumption
<1>3. CASE \E s \in Dimms \cup Namespaces : T!RaiseHealth(s) BY <1>1, <1>3 DEF T!RaiseHealth
<1>4. CASE T!AckNamespaces BY <1>2, <1>4 DEF T!AckNamespaces, T!AlarmsOf
<1>5. CASE T!MixedSku BY <1>1, <1>5 DEF T!MixedSku
<1>6. ~T!NewDimms /\ ~T!ModifiedDimms BY DEF T!NewDimms, T!ModifiedDimms
<1>7. CASE \/ T!Rewire \/ T!PowerOn \/ T!PowerOff \/ T!Crash \/ T!Discover \/ T!ReadRows
           \/ (\E e \in Dimms : T!SaveRow(e)) \/ T!DeleteRows \/ T!ClearValid \/ T!SetValid
  <2>1. open' = open
    BY <1>7 DEF T!Rewire, T!PowerOn, T!PowerOff, T!Crash, T!Discover, T!ReadRows, T!SaveRow, T!DeleteRows,
       T!ClearValid, T!SetValid
  <2>2. QED BY <2>1
<1>8. QED BY <1>3, <1>4, <1>5, <1>6, <1>7 DEF T!Next, T!StartOfDay

\* A DIMM is processed.
LEMMA ProcessedIs ==
  ASSUME TopoTypes, Mapped, NEW d \in Dimms, T!StartupDimm(d)
  PROVE  /\ step = "startup" /\ step' = "startup" /\ d \in todo /\ todo' = todo \ {d} /\ d \notin Unmanaged
         /\ d \in T!Seen /\ UNCHANGED <<hw, seen, old, status, topo>>
         /\ \A e \in Dimms \ {d} : /\ goalTold'[e] = goalTold[e]
                                   /\ \A k : <<e, k>> \in open' <=> <<e, k>> \in open
         /\ <<d, "sku">> \in open' <=> status[d].sku
<1> USE DEF T!dbVars, T!mapVars, T!history, T!trouble, T!NoFault, T!Fail
<1>1. /\ step = "startup" /\ step' = "startup" /\ d \in todo /\ todo' = todo \ {d}
      /\ UNCHANGED <<hw, seen, old, status, topo>>
  BY DEF T!StartupDimm
<1>2. d \notin Unmanaged /\ d \in T!Seen BY <1>1 DEF Mapped, TopoTypes
<1>3. PICK tell \in BOOLEAN :
        /\ goalTold' = (IF tell THEN [goalTold EXCEPT ![d] = hw.goal[d]] ELSE goalTold)
        /\ open' = T!AfterSku(IF tell THEN T!AfterGoal(open, d, hw.goal[d]) ELSE open, d)
  BY DEF T!StartupDimm
<1>4. PICK A : A = (IF tell THEN T!AfterGoal(open, d, hw.goal[d]) ELSE open) OBVIOUS
<1>5. \A e \in Dimms \ {d} : \A k : <<e, k>> \in A <=> <<e, k>> \in open BY <1>4 DEF T!AfterGoal
<1>6. open' = T!AfterSku(A, d) BY <1>3, <1>4
<1>7. open' = IF status[d].sku THEN A \cup {<<d, "sku">>} ELSE A \ {<<d, "sku">>} BY <1>6, Zenon DEF T!AfterSku
<1>8. \A e \in Dimms \ {d} : \A k : <<e, k>> \in open' <=> <<e, k>> \in open BY <1>5, <1>7
<1>9. <<d, "sku">> \in open' <=> status[d].sku BY <1>7
<1>10. \A e \in Dimms \ {d} : goalTold'[e] = goalTold[e] BY <1>3 DEF TopoTypes
<1>11. QED BY <1>1, <1>2, <1>8, <1>9, <1>10

LEMMA SkusStay ==
  ASSUME TopoTypes, Mapped, Skus, T!Next
  PROVE  Skus'
<1> SUFFICES ASSUME step' \in {"startup"} \cup Ended, failed' \cap {"discovery", "status"} = {},
                    NEW d \in T!Managed'
             PROVE  Due(d)' \/ (<<d, "sku">> \in open' <=> hw.sku[d]')
  BY DEF Skus
<1>1. failed \cap {"discovery", "status"} = {} BY FailedGrows
<1>2. d \in Dimms /\ d \notin Unmanaged BY DEF T!Managed, T!Present
<1>3. CASE /\ step \in {"rows", "modified"} /\ step' = "startup" /\ todo' = T!Seen \ Unmanaged
           /\ UNCHANGED <<hw, seen>>
  <2>1. seen = hw.slot BY <1>1, <1>3 DEF Mapped
  <2>2. d \in T!Seen BY <1>3, <2>1 DEF T!Managed, T!Present, T!Seen
  <2>3. QED BY <1>2, <1>3, <2>2 DEF Due
<1>4. CASE \E e \in Dimms : T!StartupDimm(e)
  <2>1. PICK e \in Dimms : T!StartupDimm(e) BY <1>4
  <2>2. /\ step = "startup" /\ step' = "startup" /\ e \in todo /\ todo' = todo \ {e} /\ e \notin Unmanaged
        /\ e \in T!Seen /\ UNCHANGED <<hw, seen, old, status, topo>>
        /\ \A f \in Dimms \ {e} : \A k : <<f, k>> \in open' <=> <<f, k>> \in open
        /\ <<e, "sku">> \in open' <=> status[e].sku
    BY <2>1, ProcessedIs
  <2>3. CASE d = e
    <3>1. status[e].sku <=> hw.sku[e] BY <1>1, <2>2 DEF Mapped
    <3>2. hw' = hw BY <2>2
    <3>3. QED BY <2>2, <2>3, <3>1, <3>2
  <2>4. CASE d # e
    <3>1. d \in T!Managed BY <2>2 DEF T!Managed, T!Present
    <3>2. Due(d) \/ (<<d, "sku">> \in open <=> hw.sku[d]) BY <1>1, <2>2, <3>1 DEF Skus
    <3>3. Due(d) => Due(d)' BY <2>2, <2>4 DEF Due
    <3>4. <<d, "sku">> \in open' <=> <<d, "sku">> \in open BY <1>2, <2>2, <2>4
    <3>5. hw' = hw BY <2>2
    <3>6. QED BY <3>2, <3>3, <3>4, <3>5
  <2>5. QED BY <2>3, <2>4
<1>5. CASE /\ step \in {"startup"} \cup Ended /\ UNCHANGED <<hw, seen, old, goalTold>>
           /\ step = "startup" => step' # "startup" /\ todo = {}
           /\ ~ \E e \in Dimms : T!StartupDimm(e)
  <2>1. hw' = hw /\ d \in T!Managed /\ ~Due(d) BY <1>5 DEF T!Managed, T!Present, Due
  <2>2. <<d, "sku">> \in open <=> hw.sku[d] BY <1>1, <1>5, <2>1 DEF Skus
  <2>3. <<d, "sku">> \in open' <=> <<d, "sku">> \in open BY <1>2, <1>5, ConfigAlarmsStay DEF T!ConfigCodes
  <2>4. QED BY <2>1, <2>2, <2>3
<1>6. QED BY <1>3, <1>4, <1>5, StartGoesOn

\* What is known of a goal stays known while no alarm about it is raised.
LEMMA GoalKnownStays ==
  ASSUME NEW d, NEW g, GoalKnown(d, g), goalTold'[d] = goalTold[d],
         \A k \in {"goalFailed", "dataInvalid"} : <<d, k>> \in open' => <<d, k>> \in open
  PROVE  GoalKnown(d, g)'
BY DEF GoalKnown, NoGoalAlarm

\* The goal of a DIMM is known once it has been processed.
LEMMA ProcessedGoal ==
  ASSUME TopoTypes, Mapped, GoalsKnown, failed' = {}, NEW d \in Dimms, T!StartupDimm(d)
  PROVE  GoalKnown(d, hw.goal[d])'
<1>1. /\ step = "startup" /\ d \in todo /\ d \notin Unmanaged /\ UNCHANGED <<hw, seen, old, status, topo>>
  BY ProcessedIs
<1>2. failed = {} BY FailedGrows, T!StartupDimm(d) DEF T!Next, T!StartOfDay
<1>3. /\ goalTold' = IF T!TellGoal(d) THEN [goalTold EXCEPT ![d] = hw.goal[d]] ELSE goalTold
      /\ open' = T!AfterSku(IF T!TellGoal(d) THEN T!AfterGoal(open, d, hw.goal[d]) ELSE open, d)
  BY DEF T!StartupDimm, T!Fail, T!NoFault
<1>4. PICK g : g = hw.goal[d] OBVIOUS
<1>5. g \in T!Goals BY <1>4 DEF TopoTypes, Machine
<1>6. PICK A : A = (IF T!TellGoal(d) THEN T!AfterGoal(open, d, g) ELSE open) OBVIOUS
<1>7. open' = IF status[d].sku THEN A \cup {<<d, "sku">>} ELSE A \ {<<d, "sku">>}
  BY <1>3, <1>4, <1>6, Zenon DEF T!AfterSku
<1>8. \A k \in {"goalFailed", "dataInvalid"} : <<d, k>> \in open' <=> <<d, k>> \in A BY <1>7
<1>9. CASE T!TellGoal(d)
  <2>1. goalTold'[d] = g BY <1>3, <1>4, <1>9 DEF TopoTypes
  <2>2. A = T!AfterGoal(open, d, g) BY <1>6, <1>9
  <2>3. g = "success" => A = open \ ({d} \X T!ConfigCodes) BY <2>2 DEF T!AfterGoal
  <2>4. g = "success" => <<d, "goalFailed">> \notin A /\ <<d, "dataInvalid">> \notin A
    BY <2>3 DEF T!ConfigCodes
  <2>5. GoalKnown(d, g)' BY <1>8, <2>1, <2>4 DEF GoalKnown, NoGoalAlarm
  <2>6. QED BY <1>1, <1>4, <2>5
<1>10. CASE ~T!TellGoal(d)
  <2>1. goalTold' = goalTold /\ A = open BY <1>3, <1>6, <1>10
  <2>2. \/ g = "none"
        \/ d \in Olds /\ g = old[d].goal
    BY <1>4, <1>5, <1>10 DEF T!TellGoal, T!Goals, T!Stored, Olds
  <2>3. d \in Olds => GoalKnown(d, old[d].goal) BY <1>1, <1>2 DEF GoalsKnown
  <2>4. GoalKnown(d, g) BY <2>2, <2>3 DEF GoalKnown
  <2>5. GoalKnown(d, g)' BY <1>8, <2>1, <2>4, GoalKnownStays
  <2>6. QED BY <1>1, <1>4, <2>5
<1>11. QED BY <1>9, <1>10

\* The rows and the machine tell no goal that is not known.
LEMMA GoalsKnownStay ==
  ASSUME TopoTypes, Mapped, GoalsKnown, T!Next
  PROVE  GoalsKnown'
<1> USE DEF T!dbVars, T!mapVars, T!history, T!trouble, T!NoFault
<1> SUFFICES ASSUME failed' = {}
             PROVE  /\ step' # "startup" => \A d \in Rowed' \ Unmanaged : GoalKnown(d, topo[d].goal)'
                    /\ step' \in {"new", "modified"} => \A d \in Olds' \ Unmanaged : GoalKnown(d, old[d].goal)'
                    /\ step' = "startup" => \A d \in Olds' \ Unmanaged :
                         d \in todo' => GoalKnown(d, old[d].goal)'
                    /\ step' \in {"startup"} \cup Ended =>
                         \A d \in T!Managed' : Due(d)' \/ GoalKnown(d, hw.goal[d])'
  BY DEF GoalsKnown
<1>1. failed = {} BY FailedGrows
<1>2. CASE \E e \in Dimms : T!StartupDimm(e)
  <2>1. PICK e \in Dimms : T!StartupDimm(e) BY <1>2
  <2>2. /\ step = "startup" /\ step' = "startup" /\ e \in todo /\ todo' = todo \ {e} /\ e \notin Unmanaged
        /\ e \in T!Seen /\ UNCHANGED <<hw, seen, old, status, topo>>
        /\ \A f \in Dimms \ {e} : /\ goalTold'[f] = goalTold[f]
                                  /\ \A k : <<f, k>> \in open' <=> <<f, k>> \in open
    BY <2>1, ProcessedIs
  <2>3. GoalKnown(e, hw.goal[e])' BY <2>1, ProcessedGoal
  <2>4. ASSUME NEW f \in Dimms \ {e}, NEW g, GoalKnown(f, g) PROVE GoalKnown(f, g)'
    BY <2>2, <2>4, GoalKnownStays
  <2>5. ASSUME NEW f \in Olds' \ Unmanaged, f \in todo' PROVE GoalKnown(f, old[f].goal)'
    <3>1. f \in Dimms \ {e} /\ f \in Olds /\ f \in todo /\ f \notin Unmanaged BY <2>2, <2>5 DEF Olds
    <3>2. PICK g : g = old[f].goal OBVIOUS
    <3>3. GoalKnown(f, g) BY <1>1, <2>2, <3>1, <3>2 DEF GoalsKnown
    <3>4. GoalKnown(f, g)' BY <2>4, <3>1, <3>3
    <3>5. g' = old'[f].goal BY <2>2, <3>2
    <3>6. QED BY <3>4, <3>5
  <2>6. ASSUME NEW f \in T!Managed' PROVE Due(f)' \/ GoalKnown(f, hw.goal[f])'
    <3>1. CASE f = e BY <2>3, <3>1
    <3>2. CASE f # e
      <4>1. f \in Dimms \ {e} /\ f \in T!Managed BY <2>2, <2>6, <3>2 DEF T!Managed, T!Present
      <4>2. PICK g : g = hw.goal[f] OBVIOUS
      <4>3. Due(f) \/ GoalKnown(f, g) BY <1>1, <2>2, <4>1, <4>2 DEF GoalsKnown
      <4>4. Due(f) => Due(f)' BY <2>2, <3>2 DEF Due
      <4>5. GoalKnown(f, g) => GoalKnown(f, g)' BY <2>4, <4>1
      <4>6. g' = hw'.goal[f] BY <2>2, <4>2
      <4>7. QED BY <4>3, <4>4, <4>5, <4>6
    <3>3. QED BY <3>1, <3>2
  <2>7. QED BY <2>2, <2>5, <2>6 DEF Ended
<1>3. CASE ~ \E e \in Dimms : T!StartupDimm(e)
  <2>1. goalTold' = goalTold
    BY <1>3 DEF T!Next, T!Rewire, T!PowerOn, T!PowerOff, T!Crash, T!RaiseHealth, T!StartOfDay, T!Discover,
       T!ReadRows, T!NewDimms, T!ModifiedDimms, T!SaveRow, T!DeleteRows, T!ClearValid, T!SetValid,
       T!AckNamespaces, T!MixedSku
  <2>2. ASSUME NEW f \in Dimms, NEW k \in {"goalFailed", "dataInvalid"}, <<f, k>> \in open'
        PROVE  <<f, k>> \in open
    <3>1. CASE step \in {"startup"} \cup Ended \cup {"off", "discover", "rows"}
      BY <1>3, <2>2, <3>1, ConfigAlarmsStay DEF T!ConfigCodes
    <3>2. CASE step \in {"new", "modified"}
      <4>1. T!NewDimms \/ T!ModifiedDimms \/ open' = open
        BY <1>3, <3>2 DEF T!Next, T!Rewire, T!PowerOn, T!PowerOff, T!Crash, T!RaiseHealth, T!StartOfDay,
           T!Discover, T!ReadRows, T!SaveRow, T!DeleteRows, T!ClearValid, T!SetValid, T!AckNamespaces, T!MixedSku
      <4>2. QED BY <2>2, <4>1 DEF T!NewDimms, T!ModifiedDimms
    <3>3. QED BY <3>1, <3>2 DEF TopoTypes, Phases, Before
  <2>3. ASSUME NEW f \in Dimms, NEW g, GoalKnown(f, g) PROVE GoalKnown(f, g)'
    BY <2>1, <2>2, <2>3, GoalKnownStays
  <2>4. ASSUME step' # "startup", NEW f \in Rowed' \ Unmanaged PROVE GoalKnown(f, topo[f].goal)'
    <3>1. f \in Dimms BY <2>4 DEF Rowed
    <3>2. \/ step # "startup" /\ topo' = topo
          \/ topo' = T!NoRows
          \/ \E e \in Dimms : T!SaveRow(e)
      BY <1>1, <1>3, <2>4 DEF T!Next, T!Rewire, T!PowerOn, T!PowerOff, T!Crash, T!RaiseHealth, T!StartOfDay,
         T!Discover, T!ReadRows, T!NewDimms, T!ModifiedDimms, T!DeleteRows, T!ClearValid, T!SetValid,
         T!AckNamespaces, T!MixedSku, T!Fail
    <3>3. ASSUME step # "startup", topo'[f] = topo[f] PROVE GoalKnown(f, topo[f].goal)'
      <4>1. f \in Rowed \ Unmanaged BY <2>4, <3>3 DEF Rowed
      <4>2. PICK g : g = topo[f].goal OBVIOUS
      <4>3. GoalKnown(f, g) BY <1>1, <3>3, <4>1, <4>2 DEF GoalsKnown
      <4>4. GoalKnown(f, g)' BY <2>3, <3>1, <4>3
      <4>5. g' = topo'[f].goal BY <3>3, <4>2
      <4>6. QED BY <4>4, <4>5
    <3>4. CASE topo' = T!NoRows BY <2>4, <3>1, <3>4 DEF Rowed, T!NoRows
    <3>5. CASE \E e \in Dimms : T!SaveRow(e)
      <4>1. PICK e \in Dimms : T!SaveRow(e) BY <3>5
      <4>2. step = "save" /\ e \in todo BY <4>1 DEF T!SaveRow
      <4>3. topo' = [topo EXCEPT ![e] = [handle |-> seen[e], goal |-> T!SavedGoal(e)]]
        BY <1>1, <4>1 DEF T!SaveRow, T!Fail
      <4>4. CASE f # e
        <5>1. topo'[f] = topo[f] BY <4>3, <4>4
        <5>2. QED BY <3>3, <4>2, <5>1
      <4>5. CASE f = e
        <5>1. seen = hw.slot /\ f \in T!Seen BY <1>1, <4>2, <4>5 DEF Mapped, TopoTypes, Before
        <5>2. f \in T!Managed BY <2>4, <5>1 DEF T!Managed, T!Present, T!Seen
        <5>3. PICK h : h = hw.goal[f] OBVIOUS
        <5>4. GoalKnown(f, h) BY <1>1, <4>2, <5>2, <5>3 DEF GoalsKnown, Ended, Due
        <5>5. PICK g : g = T!SavedGoal(f) OBVIOUS
        <5>6. g = h \/ g = "unknown" BY <5>3, <5>5 DEF T!SavedGoal
        <5>7. GoalKnown(f, g) BY <5>4, <5>6 DEF GoalKnown
        <5>8. GoalKnown(f, g)' BY <2>3, <3>1, <5>7
        <5>9. topo'[f].goal = g BY <3>1, <4>3, <4>5, <5>5 DEF TopoTypes
        <5>10. QED BY <5>8, <5>9
      <4>6. QED BY <4>4, <4>5
    <3>6. QED BY <3>2, <3>3, <3>4, <3>5
  <2>5. ASSUME step' \in {"new", "modified"}, NEW f \in Olds' \ Unmanaged PROVE GoalKnown(f, old[f].goal)'
    <3>1. \/ step = "rows" /\ old' = topo
          \/ step = "rows" /\ old' = T!NoRows
          \/ step \in {"new", "modified"} /\ old' = old
      BY <2>5 DEF T!Next, T!Rewire, T!PowerOn, T!PowerOff, T!Crash, T!RaiseHealth, T!StartOfDay,
         T!Discover, T!ReadRows, T!NewDimms, T!ModifiedDimms, T!StartupDimm, T!SaveRow, T!DeleteRows,
         T!ClearValid, T!SetValid, T!AckNamespaces, T!MixedSku
    <3>2. f \in Dimms /\ old'[f] # NoTopology BY <2>5 DEF Olds
    <3>3. PICK g : g = old'[f].goal OBVIOUS
    <3>4. GoalKnown(f, g)
      <4>1. CASE step = "rows" /\ old' = topo BY <1>1, <2>5, <3>2, <3>3, <4>1 DEF GoalsKnown, Rowed
      <4>2. CASE old' = T!NoRows BY <3>2, <4>2 DEF T!NoRows
      <4>3. CASE step \in {"new", "modified"} /\ old' = old BY <1>1, <2>5, <3>2, <3>3, <4>3 DEF GoalsKnown, Olds
      <4>4. QED BY <3>1, <4>1, <4>2, <4>3
    <3>5. GoalKnown(f, g)' BY <2>3, <3>2, <3>4
    <3>6. QED BY <3>3, <3>5
  <2>6. ASSUME step' = "startup", NEW f \in Olds' \ Unmanaged PROVE GoalKnown(f, old[f].goal)'
    <3>1. \/ old' = T!NoRows
          \/ step = "modified" /\ old' = old
      BY <1>1, <1>3, <2>6, Zenon DEF T!Next, T!Rewire, T!PowerOn, T!PowerOff, T!Crash, T!RaiseHealth, T!StartOfDay,
         T!Discover, T!ReadRows, T!NewDimms, T!ModifiedDimms, T!SaveRow, T!DeleteRows,
         T!ClearValid, T!SetValid, T!AckNamespaces, T!MixedSku, T!Go
    <3>2. f \in Dimms /\ old'[f] # NoTopology BY <2>6 DEF Olds
    <3>3. PICK g : g = old'[f].goal OBVIOUS
    <3>4. GoalKnown(f, g) BY <1>1, <2>6, <3>1, <3>2, <3>3 DEF GoalsKnown, Olds, T!NoRows
    <3>5. GoalKnown(f, g)' BY <2>3, <3>2, <3>4
    <3>6. QED BY <3>3, <3>5
  <2>7. ASSUME step' \in {"startup"} \cup Ended, NEW f \in T!Managed'
        PROVE  Due(f)' \/ GoalKnown(f, hw.goal[f])'
    <3>1. CASE /\ step \in {"rows", "modified"} /\ step' = "startup" /\ todo' = T!Seen \ Unmanaged
               /\ UNCHANGED <<hw, seen>>
      <4>1. seen = hw.slot BY <1>1, <3>1 DEF Mapped
      <4>2. f \in T!Seen \ Unmanaged BY <2>7, <3>1, <4>1 DEF T!Managed, T!Present, T!Seen
      <4>3. QED BY <3>1, <4>2 DEF Due
    <3>2. CASE /\ step \in {"startup"} \cup Ended /\ UNCHANGED <<hw, seen, old, goalTold>>
               /\ step = "startup" => step' # "startup" /\ todo = {}
      <4>1. f \in Dimms /\ f \in T!Managed /\ ~Due(f) BY <2>7, <3>2 DEF T!Managed, T!Present, Due
      <4>2. PICK g : g = hw.goal[f] OBVIOUS
      <4>3. GoalKnown(f, g) BY <1>1, <3>2, <4>1, <4>2 DEF GoalsKnown
      <4>4. GoalKnown(f, g)' BY <2>3, <4>1, <4>3
      <4>5. g' = hw'.goal[f] BY <3>2, <4>2
      <4>6. QED BY <4>4, <4>5
    <3>3. QED BY <1>3, <2>7, <3>1, <3>2, StartGoesOn
  <2>8. QED BY <2>4, <2>5, <2>6, <2>7
<1>4. QED BY <1>2, <1>3

\* Which DIMMs the events tell, and which have a row.
LEMMA KnownStay ==
  ASSUME TopoTypes, KnownIs, T!Next
  PROVE  KnownIs'
<1> USE DEF Phases, Before, Ended, T!dbVars, T!mapVars, T!history, T!trouble, T!NoFault, T!Fail
<1> SUFFICES ASSUME failed' \cap {"crash", "save", "topology"} = {}
             PROVE  KnownIs'
  BY DEF KnownIs
<1>1. failed \cap {"crash", "save", "topology"} = {} BY FailedGrows
<1>2. ASSUME UNCHANGED <<topo, valid, baseline, known>>, step \in Before, step' \in {"off", "discover"}
      PROVE  KnownIs'
  BY <1>1, <1>2 DEF KnownIs, Rowed
<1>3. ASSUME UNCHANGED <<topo, valid, baseline, known, seen, todo>>, step \notin Before \cup {"new", "modified"},
             step' = step
      PROVE  KnownIs'
  BY <1>1, <1>3 DEF KnownIs, Rowed, T!Seen
<1>4. CASE T!Rewire BY <1>2, <1>4 DEF T!Rewire
<1>5. CASE T!PowerOn BY <1>2, <1>5 DEF T!PowerOn
<1>6. CASE T!PowerOff BY <1>1, <1>6 DEF T!PowerOff, KnownIs, Rowed
<1>7. CASE T!Crash BY <1>7 DEF T!Crash
<1>8. CASE \E s \in Dimms \cup Namespaces : T!RaiseHealth(s) BY <1>3, <1>8 DEF T!RaiseHealth
<1>9. CASE T!Discover BY <1>1, <1>9 DEF T!Discover, KnownIs, Rowed
<1>10. CASE T!ReadRows BY <1>1, <1>10 DEF T!ReadRows, KnownIs, Rowed, Olds
<1>11. CASE T!NewDimms
  <2>1. T!Replaced' = T!Replaced /\ Olds' = Olds /\ T!Seen' = T!Seen
    BY <1>11 DEF T!NewDimms, T!Replaced, T!ReplacedBy, T!New, T!Stored, T!Seen, Olds
  <2>2. Olds \cup T!New = Olds \cup T!Seen BY DEF Olds, T!New, T!Stored, T!Seen
  <2>3. known' = (known \cup T!New) \ T!Replaced /\ step = "new" /\ step' = "modified"
        /\ UNCHANGED <<valid, baseline>>
    BY <1>11 DEF T!NewDimms
  <2>4. known = Olds /\ baseline /\ valid = baseline BY <1>1, <2>3 DEF KnownIs
  <2>5. known' = (Olds' \cup T!Seen') \ T!Replaced' BY <2>1, <2>2, <2>3, <2>4
  <2>6. baseline' /\ valid' = baseline' BY <2>3, <2>4, Zenon
  <2>7. QED BY <2>3, <2>5, <2>6 DEF KnownIs
<1>12. CASE T!ModifiedDimms
  <2>1. T!Replaced \cap T!Seen = {} BY DEF T!Replaced, T!ReplacedBy
  <2>2. T!Missing = (Olds \ T!Seen) \ T!Replaced BY DEF T!Missing, Olds, T!Stored
  <2>3. known' = known \ T!Missing /\ step = "modified" /\ step' = "startup"
        /\ UNCHANGED <<valid, baseline, seen>>
    BY <1>12 DEF T!ModifiedDimms
  <2>4. known = (Olds \cup T!Seen) \ T!Replaced /\ valid = baseline BY <1>1, <2>3 DEF KnownIs
  <2>5. known' = T!Seen' BY <2>1, <2>2, <2>3, <2>4 DEF T!Seen
  <2>6. QED BY <2>3, <2>4, <2>5 DEF KnownIs
<1>13. CASE \E d \in Dimms : T!StartupDimm(d)
  BY <1>1, <1>13 DEF T!StartupDimm, KnownIs, Rowed, T!Seen
<1>14. CASE \E d \in Dimms : T!SaveRow(d)
  <2>1. PICK d \in Dimms : T!SaveRow(d) BY <1>14
  <2>2. /\ step = "save" /\ step' = "save" /\ d \in todo /\ todo' = todo \ {d}
        /\ UNCHANGED <<valid, baseline, known, seen>>
    BY <2>1 DEF T!SaveRow
  <2>3. PICK g \in T!GoalStatuses : topo' = [topo EXCEPT ![d] = [handle |-> seen[d], goal |-> g]]
    BY <2>1, <2>2 DEF T!SaveRow, T!SavedGoal, T!GoalStatuses
  <2>4. d \in T!Seen /\ seen[d] \in Handles BY <2>2 DEF TopoTypes, T!Seen
  <2>5. [handle |-> seen[d], goal |-> g] # NoTopology BY <2>3, <2>4, SetsAssumption DEF T!Row
  <2>6. Rowed' = Rowed \cup {d} BY <2>3, <2>5 DEF Rowed, TopoTypes
  <2>7. Rowed = T!Seen \ todo /\ valid = baseline /\ (baseline => known = T!Seen)
    BY <1>1, <2>2 DEF KnownIs
  <2>8. T!Seen' = T!Seen BY <2>2 DEF T!Seen
  <2>9. Rowed' = T!Seen' \ todo' BY <2>2, <2>4, <2>6, <2>7, <2>8
  <2>10. QED BY <2>2, <2>7, <2>8, <2>9 DEF KnownIs
<1>15. CASE T!DeleteRows BY <1>1, <1>15 DEF T!DeleteRows, KnownIs, Rowed, T!NoRows, T!Seen
<1>16. CASE T!ClearValid BY <1>1, <1>16 DEF T!ClearValid, KnownIs, Rowed, T!Seen
<1>17. CASE T!SetValid BY <1>1, <1>17 DEF T!SetValid, KnownIs, Rowed, T!Seen
<1>18. CASE T!AckNamespaces BY <1>1, <1>18 DEF T!AckNamespaces, KnownIs, Rowed, T!Seen
<1>19. CASE T!MixedSku BY <1>1, <1>19 DEF T!MixedSku, KnownIs, Rowed, T!Seen
<1>20. QED BY <1>4, <1>5, <1>6, <1>7, <1>8, <1>9, <1>10, <1>11, <1>12, <1>13, <1>14, <1>15, <1>16, <1>17,
              <1>18, <1>19 DEF T!Next, T!StartOfDay

\* The devices that have alarms are there.
LEMMA AttachedStay ==
  ASSUME TopoTypes, Mapped, KnownIs, Attached, T!Next
  PROVE  Attached'
<1> USE DEF Phases, Before, Ended, T!dbVars, T!mapVars, T!history, T!trouble, T!NoFault
<1> SUFFICES ASSUME failed' \cap {"crash", "discovery", "topology", "save", "events"} = {}
             PROVE  Attached'
  BY DEF Attached
<1>1. failed \cap {"crash", "discovery", "topology", "save", "events"} = {} BY FailedGrows
<1>2. \A z \in open : /\ z[1] \in Alarmed \cup Namespaces \cup {"system"}
                      /\ step \in {"mixed", "running"} /\ z[1] \in Namespaces => z[1] \in hw.namespaces
  BY <1>1 DEF Attached
<1>3. ASSUME open' \subseteq open, Alarmed \subseteq Alarmed',
             step' \in {"mixed", "running"} => step = step' /\ hw' = hw
      PROVE  Attached'
  BY <1>2, <1>3 DEF Attached
<1>4. CASE T!Rewire BY <1>3, <1>4 DEF T!Rewire, Alarmed, Rowed
<1>5. CASE T!PowerOn BY <1>3, <1>5 DEF T!PowerOn, Alarmed, Rowed
<1>6. CASE T!PowerOff
  <2>1. Rowed = T!Seen BY <1>1, <1>6 DEF T!PowerOff, KnownIs
  <2>2. QED BY <1>3, <1>6, <2>1 DEF T!PowerOff, Alarmed, Rowed
<1>7. CASE T!Crash BY <1>7 DEF T!Crash
<1>8. CASE \E s \in Dimms \cup Namespaces : T!RaiseHealth(s)
  <2>1. PICK s \in Dimms \cup Namespaces : T!RaiseHealth(s) BY <1>8
  <2>2. /\ step = "running" /\ s \in (T!Present \ Unmanaged) \cup hw.namespaces
        /\ open' = open \cup {<<s, "health">>} /\ UNCHANGED <<hw, step, seen>>
    BY <2>1 DEF T!RaiseHealth
  <2>3. seen = hw.slot BY <1>1, <2>2 DEF Mapped
  <2>4. T!Seen = T!Present BY <2>3 DEF T!Seen, T!Present
  <2>5. s \in T!Seen \cup hw.namespaces /\ (s \in Namespaces => s \in hw.namespaces)
    BY <2>2, <2>4, SetsAssumption DEF T!Seen
  <2>6. hw.namespaces \subseteq Namespaces BY DEF TopoTypes, Machine
  <2>7. Alarmed' = Alarmed /\ Alarmed = T!Seen BY <2>2 DEF Alarmed, T!Seen
  <2>8. \A z \in open' : z \in open \/ z[1] = s BY <2>2
  <2>9. QED BY <1>2, <2>2, <2>5, <2>6, <2>7, <2>8 DEF Attached
<1>9. CASE T!Discover BY <1>3, <1>9 DEF T!Discover, Alarmed, Rowed
<1>10. CASE T!ReadRows
  <2>1. step = "rows" /\ step' \in {"new", "startup"} /\ open' = open /\ topo' = topo BY <1>10 DEF T!ReadRows
  <2>2. Alarmed = Rowed BY <2>1 DEF Alarmed
  <2>3. CASE wasValid
    <3>1. old' = topo /\ step' = "new" BY <1>10, <2>3 DEF T!ReadRows, T!Fail
    <3>2. Alarmed' = Rowed BY <3>1 DEF Alarmed, Olds, Rowed
    <3>3. QED BY <1>3, <2>1, <2>2, <3>1, <3>2
  <2>4. CASE ~wasValid
    <3>1. Rowed = {} BY <1>1, <2>1, <2>4 DEF KnownIs
    <3>2. QED BY <1>3, <2>1, <2>2, <3>1
  <2>5. QED BY <2>3, <2>4
<1>11. CASE T!NewDimms
  <2>1. T!Replaced' = T!Replaced /\ Olds' = Olds /\ T!Seen' = T!Seen
    BY <1>11 DEF T!NewDimms, T!Replaced, T!ReplacedBy, T!New, T!Stored, T!Seen, Olds
  <2>2. T!New \subseteq T!Seen /\ T!Replaced \cap T!Seen = {} BY DEF T!New, T!Replaced, T!ReplacedBy
  <2>3. /\ step = "new" /\ step' = "modified"
        /\ \A z \in open' : (z \in open /\ z[1] \notin T!Replaced) \/ z[1] \in T!New
    BY <1>11 DEF T!NewDimms, T!AlarmsOf
  <2>4. Alarmed = Olds /\ Alarmed' = (Olds \cup T!Seen) \ T!Replaced BY <2>1, <2>3 DEF Alarmed
  <2>5. QED BY <1>2, <2>2, <2>3, <2>4 DEF Attached
<1>12. CASE T!ModifiedDimms
  <2>1. T!Missing = (Olds \ T!Seen) \ T!Replaced BY DEF T!Missing, Olds, T!Stored
  <2>2. /\ step = "modified" /\ step' = "startup" /\ T!Seen' = T!Seen
        /\ \A z \in open' : z \in open /\ z[1] \notin T!Missing
    BY <1>12 DEF T!ModifiedDimms, T!AlarmsOf, T!Seen
  <2>3. Alarmed = (Olds \cup T!Seen) \ T!Replaced /\ Alarmed' = T!Seen BY <2>2 DEF Alarmed
  <2>4. QED BY <1>2, <2>1, <2>2, <2>3 DEF Attached
<1>13. CASE \E d \in Dimms : T!StartupDimm(d)
  <2>1. PICK d \in Dimms : T!StartupDimm(d) BY <1>13
  <2>2. step = "startup" /\ step' = "startup" /\ d \in T!Seen /\ seen' = seen BY <2>1, ProcessedIs
  <2>3. PICK tell \in BOOLEAN : open' = T!AfterSku(IF tell THEN T!AfterGoal(open, d, hw.goal[d]) ELSE open, d)
    BY <2>1 DEF T!StartupDimm
  <2>4. \A z \in T!AfterGoal(open, d, hw.goal[d]) : z \in open \/ z[1] = d BY DEF T!AfterGoal
  <2>5. \A z \in open' : z \in open \/ z[1] = d BY <2>3, <2>4 DEF T!AfterSku
  <2>6. Alarmed = T!Seen /\ Alarmed' = T!Seen BY <2>2 DEF Alarmed, T!Seen
  <2>7. QED BY <1>2, <2>2, <2>5, <2>6 DEF Attached
<1>14. CASE \E d \in Dimms : T!SaveRow(d) BY <1>3, <1>14 DEF T!SaveRow, Alarmed, T!Seen
<1>15. CASE T!DeleteRows BY <1>3, <1>15 DEF T!DeleteRows, Alarmed, T!Seen
<1>16. CASE T!ClearValid BY <1>3, <1>16 DEF T!ClearValid, Alarmed, T!Seen
<1>17. CASE T!SetValid BY <1>3, <1>17 DEF T!SetValid, Alarmed, T!Seen
<1>18. CASE T!AckNamespaces
  <2>1. step = "namespaces" /\ step' = "mixed" /\ UNCHANGED <<hw, seen>> BY <1>18 DEF T!AckNamespaces
  <2>2. \A z \in open' : z \in open /\ (z[1] \in Namespaces => z[1] \in hw.namespaces)
    BY <1>18 DEF T!AckNamespaces, T!AlarmsOf, T!Fail
  <2>3. Alarmed' = Alarmed BY <2>1 DEF Alarmed, T!Seen
  <2>4. QED BY <1>2, <2>1, <2>2, <2>3 DEF Attached
<1>19. CASE T!MixedSku
  <2>1. /\ step = "mixed" /\ step' = "running" /\ UNCHANGED <<hw, seen>>
        /\ \A z \in open' : z \in open \/ z[1] = "system"
    BY <1>19 DEF T!MixedSku
  <2>2. Alarmed' = Alarmed BY <2>1 DEF Alarmed, T!Seen
  <2>3. QED BY <1>2, <2>1, <2>2, SetsAssumption DEF Attached
<1>20. QED BY <1>4, <1>5, <1>6, <1>7, <1>8, <1>9, <1>10, <1>11, <1>12, <1>13, <1>14, <1>15, <1>16, <1>17,
              <1>18, <1>19 DEF T!Next, T!StartOfDay

LEMMA TopoInit ==
  ASSUME T!Init
  PROVE  TopoInv
<1>1. sc \in Scenarios BY DEF T!Init
<1>2. PICK s \in T!Placement :
        hw = [slot |-> s, isNew |-> [d \in Dimms |-> FALSE],
              unclean |-> [d \in Dimms |-> FALSE], sku |-> [d \in Dimms |-> FALSE],
              goal |-> [d \in Dimms |-> "none"], namespaces |-> sc.namespaces, mixed |-> FALSE]
  BY DEF T!Init
<1>3. sc.namespaces \subseteq Namespaces /\ sc.handles \subseteq Handles BY <1>1, ScenariosAssumption
<1>4. s \in [Dimms -> Handles \cup {NoHandle}] BY <1>3 DEF T!Placement
<1>5. hw \in Machine BY <1>2, <1>3, <1>4 DEF Machine, T!Goals
<1>6. /\ step = "off" /\ topo = T!NoRows /\ old = T!NoRows /\ valid = FALSE /\ wasValid = FALSE
      /\ baseline = FALSE /\ clean = TRUE /\ open = {} /\ seen = T!Nothing /\ todo = {}
      /\ goalTold = [d \in Dimms |-> "none"]
  BY DEF T!Init
<1>7. status \in [Dimms -> [isNew : BOOLEAN, sku : BOOLEAN, unclean : BOOLEAN]]
  BY DEF T!Init, T!ZeroStatus
<1>8. TopoTypes BY <1>1, <1>5, <1>6, <1>7 DEF TopoTypes, Phases, Before, T!NoRows, T!Nothing, T!Goals
<1>9. Rowed = {} BY <1>6 DEF Rowed, T!NoRows
<1>10. Mapped /\ Skus /\ Truths BY <1>6 DEF Mapped, Skus, Truths, Ended
<1>11. GoalsKnown BY <1>6, <1>9 DEF GoalsKnown, Ended
<1>12. KnownIs BY <1>6, <1>9 DEF KnownIs, Ended
<1>13. Attached BY <1>6 DEF Attached
<1>14. QED BY <1>8, <1>10, <1>11, <1>12, <1>13 DEF TopoInv

LEMMA TopoStays ==
  ASSUME TopoInv, UNCHANGED <<topologyVars, sharedVars>>
  PROVE  TopoInv'
<1>1. UNCHANGED <<sc, hw, topo, valid, open, step, wasValid, seen, status, old, todo, baseline, known,
                  missing, unsafe, goalTold, clean, failed>>
  BY DEF topologyVars, sharedVars
<1>2. T!Seen' = T!Seen /\ T!Present' = T!Present /\ T!Managed' = T!Managed /\ Rowed' = Rowed /\ Olds' = Olds
  BY <1>1 DEF T!Seen, T!Present, T!Managed, Rowed, Olds
<1>3. T!Replaced' = T!Replaced BY <1>1, <1>2 DEF T!Replaced, T!ReplacedBy, T!New, T!Stored
<1>4. Alarmed' = Alarmed BY <1>1, <1>2, <1>3 DEF Alarmed
<1>5. TopoTypes' BY <1>1, <1>2 DEF TopoInv, TopoTypes
<1>6. Mapped' BY <1>1, <1>2 DEF TopoInv, Mapped
<1>7. Skus' BY <1>1, <1>2 DEF TopoInv, Skus, Due
<1>8. GoalsKnown' BY <1>1, <1>2 DEF TopoInv, GoalsKnown, GoalKnown, NoGoalAlarm, Due
<1>9. KnownIs' BY <1>1, <1>2, <1>3 DEF TopoInv, KnownIs
<1>10. Attached' BY <1>1, <1>4 DEF TopoInv, Attached
<1>11. Truths' BY <1>1, <1>2 DEF TopoInv, Truths
<1>12. QED BY <1>5, <1>6, <1>7, <1>8, <1>9, <1>10, <1>11 DEF TopoInv

LEMMA TopoAlways == SpecAll => [](part = "topology" => TopoInv)
<1> DEFINE I == part = "topology" => TopoInv
<1>1. InitAll => I BY TopoInit DEF InitAll
<1>2. I /\ [NextAll]_allVars => I'
  <2> SUFFICES ASSUME I, [NextAll]_allVars, part' = "topology" PROVE TopoInv' OBVIOUS
  <2>1. CASE NextAll
    <3>1. part = "topology" /\ T!Next BY <2>1 DEF NextAll
    <3>2. QED BY <3>1, TopoTypesStay, MappedStays, SkusStay, GoalsKnownStay, KnownStay, AttachedStay, TruthsStay
          DEF TopoInv
  <2>2. CASE UNCHANGED allVars BY <2>2, TopoStays DEF allVars
  <2>3. QED BY <2>1, <2>2
<1>3. QED BY <1>1, <1>2, PTL DEF SpecAll

\* What startOfDay tells is true: the topology after its events, the DIMMs it
\* says are missing or were shut down uncleanly, the goals and the violated
\* SKUs, each as far as the reads it rests on succeed, over any number of
\* starts, changes of the machine, failures and deaths of the daemon.
THEOREM StartTellsTheTruth == SpecAll => []StartTells
<1>1. (part = "topology" => TopoInv) => StartTells
  <2> SUFFICES ASSUME part = "topology", TopoInv PROVE T!StartTells BY DEF StartTells
  <2>1. TopoTypes /\ Mapped /\ Skus /\ GoalsKnown /\ KnownIs /\ Truths BY DEF TopoInv
  <2>2. T!TopologyTold
    <3> SUFFICES ASSUME step = "running", clean, failed \cap {"crash", "save", "topology"} = {}
                 PROVE  known = T!Present
      BY DEF T!TopologyTold, T!Running, T!NoneFailed
    <3>1. known = T!Seen BY <2>1 DEF KnownIs, Ended
    <3>2. T!Seen = T!Present BY <2>1 DEF Mapped, T!Seen, T!Present
    <3>3. QED BY <3>1, <3>2
  <2>3. T!ToldIsTrue BY <2>1 DEF T!ToldIsTrue, Truths, T!NoneFailed
  <2>4. T!GoalsTold
    <3> SUFFICES ASSUME step = "running", failed = {}, NEW d \in T!Managed
                 PROVE  /\ hw.goal[d] \in {"success", "failed", "invalid"} => goalTold[d] = hw.goal[d]
                        /\ hw.goal[d] = "success" =>
                             open \cap {<<d, "goalFailed">>, <<d, "dataInvalid">>} = {}
      BY DEF T!GoalsTold, T!Running
    <3>1. GoalKnown(d, hw.goal[d]) BY <2>1 DEF GoalsKnown, Due, Ended
    <3>2. QED BY <3>1 DEF GoalKnown, NoGoalAlarm
  <2>5. T!SkuAlarm
    <3> SUFFICES ASSUME step = "running", failed \cap {"discovery", "status"} = {}, NEW d \in T!Managed
                 PROVE  <<d, "sku">> \in open <=> hw.sku[d]
      BY DEF T!SkuAlarm, T!Running, T!NoneFailed
    <3>1. QED BY <2>1 DEF Skus, Due, Ended
  <2>6. QED BY <2>2, <2>3, <2>4, <2>5 DEF T!StartTells
<1>2. QED BY <1>1, TopoAlways, PTL

\* After a start no alarm is about a DIMM or a namespace that is gone, unless
\* a read or a write it rests on failed or the daemon died at it.
THEOREM AlarmsGoWithDevices == SpecAll => []NoOrphanAlarm
<1>1. (part = "topology" => TopoInv) => NoOrphanAlarm
  <2> SUFFICES ASSUME part = "topology", TopoInv, step = "running",
                      failed \cap {"crash", "discovery", "topology", "save", "events"} = {},
                      NEW z \in open
               PROVE  z[1] \in T!Present \cup hw.namespaces \cup {"system"}
    BY DEF NoOrphanAlarm, T!NoOrphanAlarm, T!Running, T!NoneFailed
  <2>1. /\ z[1] \in Alarmed \cup Namespaces \cup {"system"}
        /\ z[1] \in Namespaces => z[1] \in hw.namespaces
    BY DEF TopoInv, Attached
  <2>2. Alarmed = T!Seen BY DEF Alarmed, Before
  <2>3. T!Seen = T!Present BY DEF TopoInv, Mapped, T!Seen, T!Present
  <2>4. QED BY <2>1, <2>2, <2>3
<1>2. QED BY <1>1, TopoAlways, PTL

\* acknowledgeDeletedNamespaces and the rest of a start leave every alarm of a
\* namespace that exists, unless the list of namespaces could not be read.
THEOREM StartKeepsNamespaceAlarms == SpecAll => NamespaceAlarmKept
<1>1. TopoInv /\ part = "topology" /\ [NextAll]_allVars =>
        (step # "running" /\ "namespaces" \notin failed' =>
           \A n \in hw.namespaces : T!AlarmsOf({n}) \subseteq open')
  <2> SUFFICES ASSUME TopoInv, part = "topology", [NextAll]_allVars, step # "running",
                      "namespaces" \notin failed', NEW n \in hw.namespaces, NEW z \in open, z[1] = n
               PROVE  z \in open'
    BY DEF T!AlarmsOf
  <2> USE DEF T!dbVars, T!mapVars, T!history, T!trouble, T!NoFault, T!Fail
  <2>1. n \in Namespaces /\ n \notin Dimms /\ n # "system"
    BY SetsAssumption DEF TopoInv, TopoTypes, Machine
  <2>2. CASE UNCHANGED allVars BY <2>2 DEF allVars, topologyVars
  <2>3. CASE T!NewDimms BY <2>1, <2>3 DEF T!NewDimms, T!AlarmsOf, T!Replaced, T!ReplacedBy
  <2>4. CASE T!ModifiedDimms BY <2>1, <2>4 DEF T!ModifiedDimms, T!AlarmsOf, T!Missing
  <2>5. CASE \E d \in Dimms : T!StartupDimm(d)
    <3>1. PICK d \in Dimms : T!StartupDimm(d) BY <2>5
    <3>2. PICK tell \in BOOLEAN : open' = T!AfterSku(IF tell THEN T!AfterGoal(open, d, hw.goal[d]) ELSE open, d)
      BY <3>1 DEF T!StartupDimm
    <3>3. z \notin {d} \X T!ConfigCodes BY <2>1
    <3>4. z \in T!AfterGoal(open, d, hw.goal[d]) BY <3>3 DEF T!AfterGoal
    <3>5. z # <<d, "sku">> BY <2>1
    <3>6. QED BY <3>2, <3>4, <3>5 DEF T!AfterSku
  <2>6. CASE T!AckNamespaces BY <2>1, <2>6 DEF T!AckNamespaces, T!AlarmsOf
  <2>7. CASE T!MixedSku
    <3>1. z # <<"system", "mixed">> BY <2>1
    <3>2. QED BY <2>7, <3>1 DEF T!MixedSku
  <2>8. CASE \/ T!Rewire \/ T!PowerOn \/ T!PowerOff \/ T!Crash \/ T!Discover \/ T!ReadRows
             \/ (\E e \in Dimms : T!SaveRow(e)) \/ T!DeleteRows \/ T!ClearValid \/ T!SetValid
             \/ (\E s \in Dimms \cup Namespaces : T!RaiseHealth(s))
    BY <2>8 DEF T!Rewire, T!PowerOn, T!PowerOff, T!Crash, T!Discover, T!ReadRows, T!SaveRow, T!DeleteRows,
       T!ClearValid, T!SetValid, T!RaiseHealth
  <2>9. NextAll => T!Next BY DEF NextAll
  <2>10. QED BY <2>2, <2>3, <2>4, <2>5, <2>6, <2>7, <2>8, <2>9 DEF T!Next, T!StartOfDay
<1>2. QED BY <1>1, TopoAlways, PTL DEF SpecAll, NamespaceAlarmKept

-----------------------------------------------------------------------------
(* The event log, whose specification is Spec *)

HIDE DEF T!Go


Acknowledging == {"ackSize", "ackCount", "ackSizeAgain", "ackFetch", "ackRead", "ackWrite"}
Purging == {"purgeSize", "purgeFetch", "purgeDelete"}
StoreSteps == {"roll", "trim"}

USE CodesAssumption, NumbersAssumption

-----------------------------------------------------------------------------
(* Types *)

\* A purge counts what it deletes, and has no more to count than ids.
CountInv ==
  \A u \in Callers :
    /\ pc[u] \in {"purgeSize", "purgeFetch"} => rc[u] = 0
    /\ pc[u] = "purgeDelete" => rc[u] >= 0 /\ rc[u] + Cardinality(batch[u]) <= MaxEventId

FunctionsInv ==
  /\ DOMAIN pc = Callers /\ DOMAIN size = Callers /\ DOMAIN room = Callers
  /\ DOMAIN batch = Callers /\ DOMAIN row = Callers /\ DOMAIN rc = Callers
  /\ DOMAIN wanted = Callers /\ DOMAIN gone = Callers /\ DOMAIN alone = Callers
  /\ faults \in Nat

TypeInv == TypeOK /\ FunctionsInv /\ CountInv

\* The bounds are numbers.
LEMMA NumbersAreNaturals ==
  /\ LogMax \in Nat /\ TrimPercent \in Nat /\ MaxEventId \in Nat /\ MaxCalls \in Nat
  /\ MaxFaults \in Nat
BY NumbersAssumption

\* The number of rows is within the bound on ids.
LEMMA RowCount ==
  ASSUME TypeOK
  PROVE  IsFiniteSet(events) /\ Cardinality(events) \in 0..MaxEventId
<1> DEFINE f == [e \in events |-> e.id]
<1>1. f \in [events -> 1..MaxEventId]
  BY DEF TypeOK, EventRow
<1>2. \A x, y \in events : f[x] = f[y] => x = y
  BY DEF TypeOK
<1> QED BY <1>1, <1>2, NumbersAreNaturals, NumberedSetIsBounded

\* A row written back without its alarm.
LEMMA ClearedRow ==
  ASSUME NEW e \in EventRow
  PROVE  /\ [e EXCEPT !.ar = FALSE] \in EventRow
         /\ [e EXCEPT !.ar = FALSE].id = e.id /\ [e EXCEPT !.ar = FALSE].code = e.code
         /\ [e EXCEPT !.ar = FALSE].ar = FALSE
<1>1. [e EXCEPT !.ar = FALSE] \in EventRow
  BY Zenon DEF EventRow
<1>2. [e EXCEPT !.ar = FALSE].id = e.id
  BY Zenon DEF EventRow
<1>3. [e EXCEPT !.ar = FALSE].code = e.code
  BY Zenon DEF EventRow
<1>4. [e EXCEPT !.ar = FALSE].ar = FALSE
  BY Zenon DEF EventRow
<1> QED BY <1>1, <1>2, <1>3, <1>4

\* The table after row id has been written back without its alarm.
WrittenBack(id) ==
  LET same == {e \in events : e.id = id}
  IN  (events \ same) \cup {[e EXCEPT !.ar = FALSE] : e \in same}

\* It is the table, or one row of it has lost its alarm.
LEMMA WrittenBackRows ==
  ASSUME TypeOK, NEW id
  PROVE  \/ WrittenBack(id) = events /\ \A e \in events : e.id # id
         \/ \E e \in events, z \in EventRow :
              /\ WrittenBack(id) = (events \ {e}) \cup {z}
              /\ e.id = id /\ z.id = id /\ z.code = e.code /\ ~z.ar
<1> DEFINE same == {e \in events : e.id = id}
           Clear(e) == [e EXCEPT !.ar = FALSE]
<1>1. CASE same = {}
  BY <1>1 DEF WrittenBack
<1>2. CASE same # {}
  <2>1. PICK e \in events : e.id = id
    BY <1>2
  <2>2. same = {e} /\ e \in EventRow
    BY <2>1 DEF TypeOK
  <2>3. {Clear(f) : f \in same} = {Clear(e)}
    BY <2>2
  <2>4. WrittenBack(id) = (events \ {e}) \cup {Clear(e)}
    BY <2>2, <2>3 DEF WrittenBack
  <2>5. Clear(e) \in EventRow /\ Clear(e).id = e.id /\ Clear(e).code = e.code /\ Clear(e).ar = FALSE
    BY <2>2, ClearedRow
  <2> HIDE DEF Clear
  <2> QED BY <2>1, <2>4, <2>5
<1> QED BY <1>1, <1>2

\* So is the number of matches among the newest of them, and their ids are
\* ids of rows with that code.
LEMMA MatchCount ==
  ASSUME TypeOK, NEW n, NEW k
  PROVE  /\ Matching(Newest(n), k) \subseteq events
         /\ Cardinality(Matching(Newest(n), k)) \in 0..MaxEventId
         /\ Ids(Matching(Newest(n), k)) \subseteq 1..MaxEventId
         /\ \A id \in Ids(Matching(Newest(n), k)) :
              id <= lastId /\ \A e \in events : e.id = id => e.code = k
<1> DEFINE M == Matching(Newest(n), k)
<1>1. M \subseteq events /\ \A e \in M : e.code = k
  BY DEF Matching, Newest
<1>2. IsFiniteSet(M) /\ Cardinality(M) <= Cardinality(events) /\ Cardinality(events) \in 0..MaxEventId
  BY <1>1, RowCount, FS_Subset
<1>3. Cardinality(M) \in 0..MaxEventId
  BY <1>2, FS_CardinalityType, NumbersAreNaturals
<1>4. \A id \in Ids(M) : \E e \in M : e.id = id
  BY DEF Ids
<1> HIDE DEF M
<1>5. Ids(M) \subseteq 1..MaxEventId
  BY <1>1, <1>4 DEF TypeOK, EventRow
<1>6. \A id \in Ids(M) : id <= lastId /\ \A e \in events : e.id = id => e.code = k
  BY <1>1, <1>4 DEF TypeOK, EventRow
<1> QED BY <1>1, <1>3, <1>5, <1>6 DEF M

\* The id that is dealt with next is one of the batch.
LEMMA NextOfBatch ==
  ASSUME TypeOK, NEW u \in Callers, batch[u] # {}
  PROVE  Max(batch[u]) \in batch[u] /\ Max(batch[u]) \in 1..MaxEventId
<1>1. batch[u] \in SUBSET (0..MaxEventId)
  BY DEF TypeOK
<1>2. Max(batch[u]) \in batch[u]
  BY <1>1, NumbersAreNaturals, MaxIsGreatest
<1> QED BY <1>2 DEF TypeOK

\* Fewer than all of a batch remain when one of it has been dealt with.
LEMMA BatchShrinks ==
  ASSUME TypeOK, NEW u \in Callers, NEW id \in batch[u]
  PROVE  /\ Cardinality(batch[u]) \in 1..MaxEventId
         /\ Cardinality(batch[u] \ {id}) = Cardinality(batch[u]) - 1
         /\ batch[u] = {id} \/ batch[u] \ {id} # {}
<1>1. batch[u] \subseteq 1..MaxEventId
  BY DEF TypeOK
<1>2. IsFiniteSet(1..MaxEventId) /\ Cardinality(1..MaxEventId) = MaxEventId
  BY NumbersAreNaturals, FS_Interval
<1>3. IsFiniteSet(batch[u]) /\ Cardinality(batch[u]) <= MaxEventId
  BY <1>1, <1>2, FS_Subset
<1>4. Cardinality(batch[u]) # 0
  BY <1>3, FS_EmptySet
<1>5. Cardinality(batch[u]) \in Nat
  BY <1>3, FS_CardinalityType
<1>6. Cardinality(batch[u] \ {id}) = Cardinality(batch[u]) - 1
  BY <1>3, FS_RemoveElement
<1>7. Cardinality(batch[u]) \in 1..MaxEventId
  BY <1>3, <1>4, <1>5, NumbersAreNaturals
<1>8. batch[u] = {id} \/ batch[u] \ {id} # {}
  OBVIOUS
<1> QED BY <1>6, <1>7, <1>8

-----------------------------------------------------------------------------
(* Steps: one caller's, which leaves the others' variables alone.           *)

StoreStep(u) == (\E k \in Codes : Insert(u, k)) \/ RollCount(u) \/ Trim(u)
BeginStep(u) == \E k \in Codes : AckBegin(u, k) \/ PurgeBegin(u, k)
AckStep(u) == AckSize(u) \/ AckCount(u) \/ AckFetch(u) \/ AckRead(u) \/ AckWrite(u)
PurgeStep(u) == PurgeSize(u) \/ PurgeFetch(u) \/ PurgeDelete(u)
CallerStep(u) == StoreStep(u) \/ BeginStep(u) \/ AckStep(u) \/ PurgeStep(u) \/ Forget(u)

\* Next, sorted by operation.
LEMMA StepsOfCallers == Next <=> Rest \/ \E u \in Callers : CallerStep(u)
BY DEF Next, CallerStep, StoreStep, BeginStep, AckStep, PurgeStep

Same(d) ==
  /\ pc'[d] = pc[d] /\ size'[d] = size[d] /\ room'[d] = room[d] /\ batch'[d] = batch[d]
  /\ row'[d] = row[d] /\ rc'[d] = rc[d] /\ wanted'[d] = wanted[d] /\ gone'[d] = gone[d]
  /\ code'[d] = code[d]

\* Only the caller's own variables change.
LEMMA OthersStay ==
  ASSUME TypeInv, NEW u \in Callers, CallerStep(u)
  PROVE  FunctionsInv' /\ \A d \in Callers \ {u} : Same(d)
<1> USE DEF Same, FunctionsInv, TypeInv, TypeOK, Fail, NoFault, CanFail, Step, Return, AckNext,
            callVars, history, Writes
<1>1. CASE \E k \in Codes : Insert(u, k)
  BY <1>1 DEF Insert
<1>2. CASE RollCount(u)
  BY <1>2 DEF RollCount
<1>3. CASE Trim(u)
  BY <1>3 DEF Trim
<1>4. CASE BeginStep(u)
  BY <1>4 DEF BeginStep, AckBegin, PurgeBegin, Begin
<1>5. CASE AckSize(u)
  BY <1>5 DEF AckSize
<1>6. CASE AckCount(u)
  BY <1>6 DEF AckCount
<1>7. CASE AckFetch(u)
  BY <1>7 DEF AckFetch
<1>8. CASE AckRead(u)
  BY <1>8 DEF AckRead
<1>9. CASE AckWrite(u)
  BY <1>9 DEF AckWrite
<1>10. CASE PurgeSize(u)
  BY <1>10 DEF PurgeSize
<1>11. CASE PurgeFetch(u)
  BY <1>11 DEF PurgeFetch
<1>12. CASE PurgeDelete(u)
  BY <1>12 DEF PurgeDelete
<1>13. CASE Forget(u)
  BY <1>13 DEF Forget
<1> QED BY <1>1, <1>2, <1>3, <1>4, <1>5, <1>6, <1>7, <1>8, <1>9, <1>10, <1>11, <1>12, <1>13
     DEF CallerStep, StoreStep, AckStep, PurgeStep

\* TypeInv holds in the beginning.
LEMMA TypeInvInit == Init => TypeInv
<1> SUFFICES ASSUME Init PROVE TypeInv
  OBVIOUS
<1>1. 0 \in 0..MaxEventId /\ 0 \in -1..MaxEventId /\ 0 \in Nat
  BY NumbersAreNaturals
<1>2. TypeOK
  BY <1>1 DEF Init, TypeOK, EventRow
<1>3. FunctionsInv
  BY <1>1 DEF Init, FunctionsInv
<1>4. CountInv
  BY DEF Init, CountInv
<1> QED BY <1>2, <1>3, <1>4 DEF TypeInv

\* A step that keeps the rows' types and leaves the other callers alone has
\* only its own caller to answer for.
CallerType(u) ==
  /\ pc[u] \in {"idle", "returned"} \cup StoreSteps \cup Acknowledging \cup Purging
  /\ batch[u] \subseteq 1..MaxEventId
  /\ pc[u] \in {"ackRead", "ackWrite", "purgeDelete"} => batch[u] # {}
  /\ pc[u] = "ackWrite" => row[u] \in EventRow
  /\ size[u] \in 0..MaxEventId /\ room[u] \in 0..MaxEventId
  /\ rc[u] \in -1..MaxEventId
  /\ pc[u] \in {"purgeSize", "purgeFetch"} => rc[u] = 0
  /\ pc[u] = "purgeDelete" => rc[u] >= 0 /\ rc[u] + Cardinality(batch[u]) <= MaxEventId

RowsType ==
  /\ events \subseteq EventRow
  /\ lastId \in 0..MaxEventId
  /\ \A e, f \in events : e.id = f.id => e = f
  /\ \A e \in events : e.id <= lastId /\ (e.ar => e.code \in AlarmCodes)

\* TypeInv, one caller at a time.
LEMMA TypeInvParts ==
  TypeInv <=> /\ RowsType /\ FunctionsInv
              /\ code \in [Callers -> Codes \cup {NoCode}]
              /\ \A u \in Callers : CallerType(u)
<1> USE DEF StoreSteps, Acknowledging, Purging
<1>1. TypeInv => \A u \in Callers : CallerType(u)
  BY DEF TypeInv, TypeOK, CountInv, CallerType
<1>2. (\A u \in Callers : CallerType(u)) => CountInv
  BY DEF CountInv, CallerType
<1>3. /\ RowsType /\ code \in [Callers -> Codes \cup {NoCode}]
      /\ \A u \in Callers : CallerType(u)
      => TypeOK
  BY DEF TypeOK, RowsType, CallerType
<1>4. TypeInv => RowsType /\ FunctionsInv /\ code \in [Callers -> Codes \cup {NoCode}]
  BY DEF TypeInv, TypeOK, RowsType
<1> QED BY <1>1, <1>2, <1>3, <1>4 DEF TypeInv

\* The same after a step.
LEMMA TypeInvPartsNext ==
  (/\ RowsType /\ FunctionsInv
   /\ code \in [Callers -> Codes \cup {NoCode}]
   /\ \A u \in Callers : CallerType(u))' => TypeInv'
BY TypeInvParts, PTL

\* store_event keeps the rows' and its caller's types.
LEMMA TypeInvStore ==
  ASSUME TypeInv, NEW u \in Callers, StoreStep(u)
  PROVE  RowsType' /\ code' = code /\ CallerType(u)'
<1> USE NumbersAreNaturals DEF TypeInv, TypeOK, FunctionsInv, CountInv, CallerType, StoreSteps,
        Step, Fail, NoFault, callVars
<1>1. CASE \E k \in Codes : Insert(u, k)
  <2>1. PICK k \in Codes : Insert(u, k)
    BY <1>1
  <2> DEFINE new == [id |-> lastId + 1, code |-> k, ar |-> k \in AlarmCodes]
  <2>2. new \in EventRow /\ lastId' = lastId + 1 /\ lastId' \in 0..MaxEventId
    BY <2>1 DEF Insert, EventRow
  <2>3. events' = events \cup {new} /\ new.id = lastId + 1 /\ new.code = k /\ (new.ar => k \in AlarmCodes)
    BY <2>1 DEF Insert
  <2> HIDE DEF new
  <2>4. RowsType'
    BY <2>2, <2>3 DEF RowsType, EventRow
  <2> QED BY <2>1, <2>4 DEF Insert
<1>2. CASE RollCount(u)
  BY <1>2 DEF RollCount, RowsType
<1>3. CASE Trim(u)
  <2>1. events' \subseteq events /\ lastId' = lastId
    BY <1>3 DEF Trim
  <2>2. RowsType'
    BY <2>1 DEF RowsType
  <2> QED BY <1>3, <2>2 DEF Trim
<1> QED BY <1>1, <1>2, <1>3 DEF StoreStep

\* acknowledge_events keeps the rows' and its caller's types.
LEMMA TypeInvAck ==
  ASSUME TypeInv, NEW u \in Callers, AckStep(u)
  PROVE  RowsType' /\ code' = code /\ CallerType(u)'
<1> USE NumbersAreNaturals DEF TypeInv, TypeOK, FunctionsInv, CountInv, CallerType, Acknowledging,
        Return, AckNext, Fail, NoFault, callVars
<1>1. CASE AckSize(u)
  BY <1>1, RowCount DEF AckSize, RowsType
<1>2. CASE AckCount(u)
  <2>1. Cardinality(Matching(Newest(size[u]), code[u])) \in 0..MaxEventId
    BY MatchCount
  <2> QED BY <1>2, <2>1 DEF AckCount, RowsType
<1>3. CASE AckFetch(u)
  <2> DEFINE found == Matching(Newest(size[u]), code[u])
  <2>1. Ids(found) \subseteq 1..MaxEventId
    BY MatchCount
  <2>2. found # {} => Ids(found) # {}
    BY DEF Ids
  <2> QED BY <1>3, <2>1, <2>2 DEF AckFetch, RowsType
<1>4. CASE AckRead(u)
  <2>1. RowsType' /\ code' = code /\ rc'[u] \in -1..MaxEventId /\ size'[u] = size[u] /\ room'[u] = room[u]
    BY <1>4 DEF AckRead, RowsType
  <2>2. batch'[u] \subseteq batch[u] /\ pc'[u] \in {"returned", "ackRead", "ackWrite"}
        /\ (pc'[u] \in {"ackRead", "ackWrite"} => batch'[u] # {})
    BY <1>4 DEF AckRead
  <2>3. pc'[u] = "ackWrite" => row'[u] \in EventRow
    BY <1>4 DEF AckRead
  <2> QED BY <2>1, <2>2, <2>3
<1>5. CASE AckWrite(u)
  <2>1. code' = code /\ rc'[u] \in -1..MaxEventId /\ size'[u] = size[u] /\ room'[u] = room[u]
    BY <1>5 DEF AckWrite
  <2>2. batch'[u] \subseteq batch[u] /\ pc'[u] \in {"returned", "ackRead"}
        /\ (pc'[u] \in {"ackRead"} => batch'[u] # {})
    BY <1>5 DEF AckWrite
  <2>3. RowsType'
    <3>1. CASE UNCHANGED <<events, lastId>>
      BY <3>1 DEF RowsType
    <3>2. CASE events' = WrittenBack(row[u].id) /\ UNCHANGED lastId
      <4>1. CASE WrittenBack(row[u].id) = events
        BY <3>1, <3>2, <4>1
      <4>2. CASE \E e \in events, z \in EventRow :
                    WrittenBack(row[u].id) = (events \ {e}) \cup {z} /\ z.id = e.id /\ ~z.ar
        BY <3>2, <4>2 DEF RowsType
      <4> QED BY <4>1, <4>2, WrittenBackRows
    <3> QED BY <1>5, <3>1, <3>2 DEF AckWrite, WrittenBack
  <2> QED BY <2>1, <2>2, <2>3
<1> QED BY <1>1, <1>2, <1>3, <1>4, <1>5 DEF AckStep

\* The purge keeps the rows' and its caller's types, its count too.
LEMMA TypeInvPurge ==
  ASSUME TypeInv, NEW u \in Callers, PurgeStep(u)
  PROVE  RowsType' /\ code' = code /\ CallerType(u)'
<1> USE NumbersAreNaturals DEF TypeInv, TypeOK, FunctionsInv, CountInv, CallerType, Purging,
        Return, Fail, NoFault, callVars, history
<1>1. CASE PurgeSize(u)
  BY <1>1, RowCount DEF PurgeSize, RowsType
<1>2. CASE PurgeFetch(u)
  <2> DEFINE found == Ids(Matching(Newest(size[u]), code[u]))
  <2>1. found \subseteq 1..MaxEventId
    BY MatchCount
  <2>2. Cardinality(found) \in 0..MaxEventId
    <3>1. IsFiniteSet(1..MaxEventId) /\ Cardinality(1..MaxEventId) = MaxEventId
      BY FS_Interval
    <3> QED BY <2>1, <3>1, FS_Subset, FS_CardinalityType
  <2> HIDE DEF found
  <2> QED BY <1>2, <2>1, <2>2 DEF PurgeFetch, RowsType, found
<1>3. CASE PurgeDelete(u)
  <2> DEFINE id == Max(batch[u])
  <2>1. batch[u] # {} /\ id \in batch[u]
    BY <1>3, NextOfBatch DEF PurgeDelete
  <2>2. Cardinality(batch[u]) \in 1..MaxEventId
        /\ Cardinality(batch[u] \ {id}) = Cardinality(batch[u]) - 1
        /\ (batch[u] # {id} => batch[u] \ {id} # {})
    BY <2>1, BatchShrinks
  <2>3. events' \subseteq events /\ lastId' = lastId /\ code' = code /\ size'[u] = size[u] /\ room'[u] = room[u]
    BY <1>3 DEF PurgeDelete
  <2>4. RowsType'
    BY <2>3 DEF RowsType
  <2>5. /\ rc'[u] = rc[u] + 1 /\ pc[u] = "purgeDelete"
        /\ \/ pc'[u] = "returned" /\ batch'[u] = {}
           \/ batch[u] # {id} /\ batch'[u] = batch[u] \ {id} /\ pc'[u] = pc[u]
    BY <1>3 DEF PurgeDelete
  <2> HIDE DEF id
  <2>6. rc[u] \in 0..MaxEventId /\ rc[u] + Cardinality(batch[u]) <= MaxEventId
    BY <2>5
  <2>7. rc'[u] \in 0..MaxEventId /\ rc'[u] + Cardinality(batch[u] \ {id}) <= MaxEventId
    BY <2>2, <2>5, <2>6
  <2>8. batch[u] \ {id} \subseteq 1..MaxEventId /\ {} \subseteq 1..MaxEventId
    OBVIOUS
  <2>9. size[u] \in 0..MaxEventId /\ room[u] \in 0..MaxEventId
    OBVIOUS
  <2> HIDE DEF TypeInv, TypeOK, FunctionsInv, CountInv
  <2>10. CASE pc'[u] = "returned" /\ batch'[u] = {}
    BY <2>3, <2>4, <2>7, <2>9, <2>10
  <2>11. CASE batch[u] # {id} /\ batch'[u] = batch[u] \ {id} /\ pc'[u] = pc[u]
    BY <2>2, <2>3, <2>4, <2>5, <2>7, <2>8, <2>9, <2>11
  <2> QED BY <2>5, <2>10, <2>11
<1> QED BY <1>1, <1>2, <1>3 DEF PurgeStep

\* Whatever a caller does.
LEMMA TypeInvStep ==
  ASSUME TypeInv, NEW u \in Callers, CallerStep(u)
  PROVE  TypeInv'
<1>1. RowsType' /\ code' \in [Callers -> Codes \cup {NoCode}] /\ CallerType(u)'
  <2>1. CASE BeginStep(u)
    BY <2>1, NumbersAreNaturals
       DEF BeginStep, AckBegin, PurgeBegin, Begin, Step, TypeInv, TypeOK, FunctionsInv, CallerType,
           RowsType, Acknowledging, Purging
  <2>2. CASE Forget(u)
    BY <2>2, NumbersAreNaturals
       DEF Forget, Step, TypeInv, TypeOK, FunctionsInv, CallerType, RowsType
  <2>3. code \in [Callers -> Codes \cup {NoCode}]
    BY DEF TypeInv, TypeOK
  <2>4. CASE StoreStep(u) \/ AckStep(u) \/ PurgeStep(u)
    BY <2>3, <2>4, TypeInvStore, TypeInvAck, TypeInvPurge
  <2> QED BY <2>1, <2>2, <2>4 DEF CallerStep
<1>2. \A d \in Callers \ {u} : CallerType(d)'
  BY OthersStay, TypeInvParts DEF Same, CallerType
<1>3. (\A d \in Callers : CallerType(d))'
  BY <1>1, <1>2
<1>4. (/\ RowsType /\ FunctionsInv
       /\ code \in [Callers -> Codes \cup {NoCode}]
       /\ \A d \in Callers : CallerType(d))'
  BY <1>1, <1>3, OthersStay
<1> QED BY <1>4, TypeInvPartsNext

\* TypeInv is inductive.
LEMMA TypeInvNext == TypeInv /\ [Next]_vars => TypeInv'
<1>1. TypeInv /\ UNCHANGED vars => TypeInv'
  BY DEF TypeInv, TypeOK, FunctionsInv, CountInv, vars, callVars, history
<1> QED BY <1>1, TypeInvStep, StepsOfCallers DEF Rest

\* The variables keep their types, rows keep unique ids, and whoever works on
\* rows has some, however stores, rolls, acknowledgements, purges and failing
\* statements of any number of callers interleave.
THEOREM TypeCorrect == Spec => []TypeOK
<1>1. TypeInv => TypeOK
  BY DEF TypeInv
<1> QED BY TypeInvInit, TypeInvNext, <1>1, PTL DEF Spec

-----------------------------------------------------------------------------
(* What a call works on *)

\* A step adds the row with the next id, or leaves rows that were there,
\* with the codes they had and no alarm they had not.
LEMMA RowsEvolve ==
  ASSUME TypeInv, NEW u \in Callers, CallerStep(u)
  PROVE  /\ lastId' >= lastId
         /\ \A e \in events' : \/ e.id = lastId + 1 /\ lastId' = lastId + 1
                               \/ \E f \in events : f.id = e.id /\ f.code = e.code /\ (e.ar => f.ar)
<1> USE DEF TypeInv, TypeOK
<1>1. CASE UNCHANGED <<events, lastId>>
  BY <1>1
<1>2. CASE \E k \in Codes : Insert(u, k)
  BY <1>2 DEF Insert
<1>3. CASE Trim(u) \/ PurgeDelete(u)
  <2>1. events' \subseteq events /\ lastId' = lastId
    BY <1>3 DEF Trim, PurgeDelete
  <2> QED BY <2>1
<1>4. CASE AckWrite(u)
  <2>1. lastId' = lastId /\ (events' = events \/ events' = WrittenBack(row[u].id))
    BY <1>4 DEF AckWrite, WrittenBack
  <2>2. CASE WrittenBack(row[u].id) = events
    BY <2>1, <2>2
  <2>3. CASE \E e \in events, z \in EventRow :
               /\ WrittenBack(row[u].id) = (events \ {e}) \cup {z}
               /\ z.id = e.id /\ z.code = e.code /\ ~z.ar
    BY <2>1, <2>3
  <2> QED BY <2>2, <2>3, WrittenBackRows
<1> QED BY <1>1, <1>2, <1>3, <1>4
     DEF CallerStep, StoreStep, BeginStep, AckStep, PurgeStep, RollCount, AckBegin, PurgeBegin, Begin,
         AckSize, AckCount, AckFetch, AckRead, PurgeSize, PurgeFetch, Forget

\* CallInv of one caller.
FilterInv(u) ==
  /\ pc[u] \in {"idle"} \cup StoreSteps <=> code[u] = NoCode
  /\ pc[u] \in {"ackRead", "ackWrite", "purgeDelete"} =>
       \A id \in batch[u] : id <= lastId /\ \A e \in events : e.id = id => e.code = code[u]
  /\ pc[u] = "ackWrite" => row[u].id \in batch[u]

CallInv == \A u \in Callers : FilterInv(u)

\* What a caller's batch is said to be stays so through steps that leave
\* its filter and add nothing to it.
LEMMA FilterKept ==
  ASSUME TypeInv, NEW u \in Callers, CallerStep(u), NEW d \in Callers, FilterInv(d),
         code'[d] = code[d], pc[d] \in {"ackRead", "ackWrite", "purgeDelete"},
         batch'[d] \subseteq batch[d]
  PROVE  \A id \in batch'[d] : id <= lastId' /\ \A e \in events' : e.id = id => e.code = code'[d]
<1> SUFFICES ASSUME NEW id \in batch'[d]
             PROVE  id <= lastId' /\ \A e \in events' : e.id = id => e.code = code[d]
  OBVIOUS
<1>1. id \in Nat /\ id <= lastId /\ lastId \in Nat /\ \A f \in events : f.id = id => f.code = code[d]
  BY NumbersAreNaturals DEF FilterInv, TypeInv, TypeOK
<1>2. lastId' \in Nat
  BY TypeInvStep, NumbersAreNaturals DEF TypeInv, TypeOK
<1> QED BY <1>1, <1>2, RowsEvolve

\* A call's batch stays of events like those it asked for.
LEMMA CallInvStep ==
  ASSUME TypeInv, CallInv, NEW u \in Callers, CallerStep(u)
  PROVE  CallInv'
<1>1. ASSUME NEW d \in Callers \ {u}
      PROVE  FilterInv(d)'
  <2>1. Same(d) /\ FilterInv(d)
    BY OthersStay DEF CallInv
  <2> QED BY <2>1, FilterKept DEF FilterInv, Same
<1>2. FilterInv(u)'
  <2>0. FilterInv(u)
    BY DEF CallInv
  <2> USE DEF TypeInv, TypeOK, FunctionsInv, StoreSteps
  <2>1. CASE StoreStep(u)
    BY <2>0, <2>1 DEF StoreStep, Insert, RollCount, Trim, Step, FilterInv, callVars
  <2>2. CASE BeginStep(u)
    BY <2>0, <2>2 DEF BeginStep, AckBegin, PurgeBegin, Begin, Step, FilterInv
  <2>3. CASE Forget(u)
    BY <2>0, <2>3 DEF Forget, Step, FilterInv
  <2>4. CASE AckSize(u) \/ AckCount(u) \/ PurgeSize(u)
    BY <2>0, <2>4 DEF AckSize, AckCount, PurgeSize, Return, FilterInv
  <2>5. CASE AckFetch(u) \/ PurgeFetch(u)
    <3> DEFINE found == Matching(Newest(size[u]), code[u])
    <3>1. \A id \in Ids(found) : id <= lastId /\ \A e \in events : e.id = id => e.code = code[u]
      BY MatchCount
    <3>2. UNCHANGED <<events, lastId, code>> /\ pc[u] \in {"ackFetch", "purgeFetch"}
          /\ \/ pc'[u] = "returned"
             \/ batch'[u] = Ids(found) /\ pc'[u] \in {"ackRead", "purgeDelete"}
      BY <2>5 DEF AckFetch, PurgeFetch, Return
    <3> HIDE DEF found
    <3> QED BY <2>0, <3>1, <3>2 DEF FilterInv
  <2>6. CASE AckRead(u)
    <3>1. pc[u] = "ackRead" /\ UNCHANGED code /\ pc'[u] \in {"returned", "ackRead", "ackWrite"}
          /\ (pc'[u] # "returned" => batch'[u] \subseteq batch[u])
      BY <2>6 DEF AckRead, AckNext, Return
    <3>2. Max(batch[u]) \in batch[u]
      BY <3>1, NextOfBatch
    <3>3. pc'[u] = "ackWrite" => row'[u].id \in batch'[u]
      BY <2>6, <3>2 DEF AckRead, AckNext, Return
    <3> QED BY <2>0, <3>1, <3>3, FilterKept DEF FilterInv
  <2>7. CASE AckWrite(u) \/ PurgeDelete(u)
    <3>1. pc[u] \in {"ackWrite", "purgeDelete"} /\ UNCHANGED code
          /\ pc'[u] \in {"returned", "ackRead", "purgeDelete"}
          /\ (pc'[u] # "returned" => batch'[u] \subseteq batch[u])
      BY <2>7 DEF AckWrite, PurgeDelete, AckNext, Return
    <3> QED BY <2>0, <3>1, FilterKept DEF FilterInv
  <2> QED BY <2>1, <2>2, <2>3, <2>4, <2>5, <2>6, <2>7 DEF CallerStep, AckStep, PurgeStep
<1> QED BY <1>1, <1>2 DEF CallInv

\* CallInv is inductive relative to TypeInv.
LEMMA CallInvNext == TypeInv /\ CallInv /\ [Next]_vars => CallInv'
<1>1. CallInv /\ UNCHANGED vars => CallInv'
  BY DEF CallInv, FilterInv, vars, callVars
<1> QED BY <1>1, CallInvStep, StepsOfCallers DEF Rest

\* CallInv holds in the beginning.
LEMMA CallInvInit == Init => CallInv
BY DEF Init, CallInv, FilterInv, StoreSteps

-----------------------------------------------------------------------------
(* The log keeps the promise of Alarms.                                     *)

AlarmRows(R) == {[id |-> e.id, code |-> e.code] : e \in {f \in R : f.ar}}

\* Rows that need no action do not count.
LEMMA OnlyAlarmsCount ==
  ASSUME NEW R, NEW U, \A e \in R \ U : ~e.ar, \A e \in U \ R : ~e.ar
  PROVE  AlarmRows(R) = AlarmRows(U)
<1>1. {f \in R : f.ar} = {f \in U : f.ar}
  OBVIOUS
<1> QED BY <1>1 DEF AlarmRows

\* One row that goes, or loses its alarm, takes one alarm with it.
LEMMA OneAlarmGoes ==
  ASSUME TypeOK, NEW e \in events, e.ar, NEW Z, \A z \in Z : ~z.ar
  PROVE  /\ [id |-> e.id, code |-> e.code] \in AlarmRows(events)
         /\ AlarmRows((events \ {e}) \cup Z) = AlarmRows(events) \ {[id |-> e.id, code |-> e.code]}
<1> DEFINE Alarm(f) == [id |-> f.id, code |-> f.code]
           rest == {f \in events \ {e} : f.ar}
<1>1. {f \in (events \ {e}) \cup Z : f.ar} = rest
  OBVIOUS
<1>2. {f \in events : f.ar} = rest \cup {e}
  OBVIOUS
<1>3. \A f \in rest : Alarm(f) # Alarm(e)
  <2> SUFFICES ASSUME NEW f \in rest PROVE Alarm(f) # Alarm(e)
    OBVIOUS
  <2>1. f.id # e.id
    BY DEF TypeOK
  <2>2. Alarm(f).id = f.id /\ Alarm(e).id = e.id
    OBVIOUS
  <2> QED BY <2>1, <2>2
<1>4. AlarmRows(events) = {Alarm(f) : f \in rest \cup {e}}
  BY <1>2 DEF AlarmRows
<1>5. AlarmRows((events \ {e}) \cup Z) = {Alarm(f) : f \in rest}
  BY <1>1 DEF AlarmRows
<1> HIDE DEF Alarm, rest
<1>6. {Alarm(f) : f \in rest} = {Alarm(f) : f \in rest \cup {e}} \ {Alarm(e)}
  BY <1>3
<1> QED BY <1>4, <1>5, <1>6 DEF Alarm

\* An empty log is an empty board.
LEMMA BoardInit == Init => Board!Init
BY DEF Init, Board!Init

\* What a step of a caller is to the board.
BoardStep(u) ==
  \/ UNCHANGED <<events, lastId, code>>
  \/ \E k \in Codes : /\ lastId' = lastId + 1 /\ UNCHANGED code
                      /\ events' = events \cup {[id |-> lastId + 1, code |-> k, ar |-> k \in AlarmCodes]}
  \/ /\ UNCHANGED <<lastId, code>>
     /\ \E e \in events, Z \in SUBSET EventRow :
          /\ events' = (events \ {e}) \cup Z /\ \A z \in Z : ~z.ar
          /\ e.code = code[u]
  \/ UNCHANGED <<lastId, code>> /\ \E R \in SUBSET events : events' = events \ R /\ \A e \in R : ~e.ar
  \/ UNCHANGED <<events, lastId>> /\ code[u] = NoCode /\ \E k \in Codes : code' = [code EXCEPT ![u] = k]
  \/ UNCHANGED <<events, lastId>> /\ code[u] # NoCode /\ code' = [code EXCEPT ![u] = NoCode]

\* A step that takes one row, or the alarm off one.
LEMMA TakesOneRow ==
  ASSUME NEW u, UNCHANGED <<lastId, code>>, NEW e \in events, NEW Z \in SUBSET EventRow,
         events' = (events \ {e}) \cup Z, \A z \in Z : ~z.ar, e.code = code[u]
  PROVE  BoardStep(u)
BY DEF BoardStep

\* Each operation is such a step.
LEMMA BoardSteps ==
  ASSUME TypeInv, CallInv, NEW u \in Callers, CallerStep(u)
  PROVE  BoardStep(u)
<1> USE DEF TypeInv, TypeOK, FunctionsInv, BoardStep
<1>1. CASE \E k \in Codes : Insert(u, k)
  BY <1>1 DEF Insert
<1>2. CASE Trim(u)
  <2>1. UNCHANGED <<lastId, code>> /\ Rolled \in SUBSET events /\ \A e \in Rolled : ~e.ar
    BY <1>2 DEF Trim, Rolled
  <2> QED BY <1>2, <2>1 DEF Trim
<1>3. CASE BeginStep(u)
  BY <1>3 DEF BeginStep, AckBegin, PurgeBegin, Begin, Step, CallInv, FilterInv, StoreSteps
<1>4. CASE Forget(u)
  BY <1>4 DEF Forget, Step, CallInv, FilterInv, StoreSteps
<1>5. CASE AckWrite(u)
  <2>1. UNCHANGED <<lastId, code>> /\ (events' = events \/ events' = WrittenBack(row[u].id))
    BY <1>5 DEF AckWrite, WrittenBack
  <2>2. \A e \in events : e.id = row[u].id => e.code = code[u]
    BY <1>5 DEF AckWrite, CallInv, FilterInv
  <2>3. CASE WrittenBack(row[u].id) = events
    BY <2>1, <2>3
  <2>4. CASE \E e \in events, z \in EventRow :
               /\ WrittenBack(row[u].id) = (events \ {e}) \cup {z}
               /\ e.id = row[u].id /\ ~z.ar
    <3>1. PICK e \in events, z \in EventRow :
               /\ WrittenBack(row[u].id) = (events \ {e}) \cup {z}
               /\ e.id = row[u].id /\ ~z.ar
      BY <2>4
    <3>2. {z} \in SUBSET EventRow /\ \A y \in {z} : ~y.ar
      BY <3>1
    <3>3. CASE events' = events
      BY <2>1, <3>3
    <3>4. CASE events' = (events \ {e}) \cup {z}
      BY <2>1, <2>2, <3>1, <3>2, <3>4, TakesOneRow
    <3>5. events' = events \/ events' = (events \ {e}) \cup {z}
      BY <2>1, <3>1
    <3> QED BY <3>3, <3>4, <3>5
  <2>5. \/ WrittenBack(row[u].id) = events
        \/ \E e \in events, z \in EventRow :
              /\ WrittenBack(row[u].id) = (events \ {e}) \cup {z}
              /\ e.id = row[u].id /\ ~z.ar
    BY WrittenBackRows
  <2> HIDE DEF BoardStep
  <2> QED BY <2>3, <2>4, <2>5
<1>6. CASE PurgeDelete(u)
  <2> DEFINE id == Max(batch[u])
  <2>1. UNCHANGED <<lastId, code>> /\ (events' = events \/ events' = events \ {e \in events : e.id = id})
    BY <1>6 DEF PurgeDelete
  <2>2. \A e \in events : e.id = id => e.code = code[u]
    BY <1>6, NextOfBatch DEF PurgeDelete, CallInv, FilterInv
  <2>3. CASE \A e \in events : e.id # id
    BY <2>1, <2>3
  <2>4. CASE \E e \in events : e.id = id
    <3>1. PICK e \in events : e.id = id
      BY <2>4
    <3>2. {f \in events : f.id = id} = {e}
      BY <3>1
    <3>3. events \ {e} = (events \ {e}) \cup {} /\ {} \in SUBSET EventRow
      OBVIOUS
    <3>4. CASE events' = events
      BY <2>1, <3>4
    <3>5. CASE events' = (events \ {e}) \cup {}
      BY <2>1, <2>2, <3>1, <3>3, <3>5, TakesOneRow
    <3> QED BY <2>1, <3>2, <3>3, <3>4, <3>5
  <2> QED BY <2>3, <2>4
<1> QED BY <1>1, <1>2, <1>3, <1>4, <1>5, <1>6
     DEF CallerStep, StoreStep, AckStep, PurgeStep, RollCount, AckSize, AckCount, AckFetch, AckRead,
         PurgeSize, PurgeFetch

\* Each such step is one of Alarms, or leaves its variables alone.
LEMMA BoardNext ==
  ASSUME TypeInv, NEW u \in Callers, BoardStep(u)
  PROVE  [Board!Next]_(Board!avars)
<1> DEFINE board == AlarmRows(events)
<1>0. board = {[id |-> e.id, code |-> e.code] : e \in {f \in events : f.ar}}
  BY DEF AlarmRows
<1>1. CASE UNCHANGED <<events, lastId, code>>
  BY <1>1 DEF Board!avars
<1>2. ASSUME NEW k \in Codes, lastId' = lastId + 1, UNCHANGED code,
             events' = events \cup {[id |-> lastId + 1, code |-> k, ar |-> k \in AlarmCodes]}
      PROVE  Board!Raise(k) \/ Board!LogOther
  <2> DEFINE new == [id |-> lastId + 1, code |-> k, ar |-> k \in AlarmCodes]
  <2>1. new.id = lastId + 1 /\ new.code = k /\ new.ar = (k \in AlarmCodes)
    OBVIOUS
  <2>2. events' = events \cup {new}
    BY <1>2
  <2> HIDE DEF new
  <2>3. CASE k \in AlarmCodes
    <3>1. {f \in events' : f.ar} = {f \in events : f.ar} \cup {new}
      BY <2>1, <2>2, <2>3
    <3>2. AlarmRows(events') = AlarmRows(events) \cup {[id |-> lastId + 1, code |-> k]}
      BY <2>1, <3>1 DEF AlarmRows
    <3> QED BY <1>2, <3>2 DEF Board!Raise, AlarmRows
  <2>4. CASE k \notin AlarmCodes
    <3>1. AlarmRows(events') = AlarmRows(events)
      BY <2>1, <2>2, <2>4, OnlyAlarmsCount
    <3> QED BY <1>2, <3>1 DEF Board!LogOther, AlarmRows
  <2> QED BY <2>3, <2>4
<1>3. ASSUME NEW e \in events, NEW Z \in SUBSET EventRow,
             events' = (events \ {e}) \cup Z, \A z \in Z : ~z.ar, e.code = code[u],
             UNCHANGED <<lastId, code>>
      PROVE  (\E alarm \in board : Board!Drop(u, alarm)) \/ UNCHANGED Board!avars
  <2>1. CASE e.ar
    <3> DEFINE alarm == [id |-> e.id, code |-> e.code]
    <3>1. alarm \in board /\ AlarmRows(events') = board \ {alarm} /\ alarm.code = code[u]
      BY <1>3, <2>1, OneAlarmGoes DEF TypeInv
    <3> HIDE DEF alarm
    <3> QED BY <1>3, <3>1 DEF Board!Drop, AlarmRows
  <2>2. CASE ~e.ar
    <3>1. AlarmRows(events') = AlarmRows(events)
      BY <1>3, <2>2, OnlyAlarmsCount
    <3> QED BY <1>3, <3>1 DEF Board!avars, AlarmRows
  <2> QED BY <2>1, <2>2
<1>4. ASSUME NEW R \in SUBSET events, events' = events \ R, \A e \in R : ~e.ar, UNCHANGED <<lastId, code>>
      PROVE  UNCHANGED Board!avars
  <2>1. AlarmRows(events') = AlarmRows(events)
    BY <1>4, OnlyAlarmsCount
  <2> QED BY <1>4, <2>1 DEF Board!avars, AlarmRows
<1>5. ASSUME NEW k \in Codes, UNCHANGED <<events, lastId>>, code[u] = NoCode, code' = [code EXCEPT ![u] = k]
      PROVE  Board!Ask(u, k)
  BY <1>5 DEF Board!Ask
<1>6. CASE UNCHANGED <<events, lastId>> /\ code[u] # NoCode /\ code' = [code EXCEPT ![u] = NoCode]
  BY <1>6 DEF Board!Leave, Board!Next
<1> QED BY <1>0, <1>1, <1>2, <1>3, <1>4, <1>5, <1>6 DEF BoardStep, Board!Next

\* Whatever is stored, rolled, acknowledged or purged at the same time and
\* whichever statements fail, an alarm leaves the log only when a caller
\* that acknowledges or purges asks for events like it.
THEOREM LogImplementsAlarms == Spec => KeepsAlarms
<1>1. TypeInv /\ CallInv /\ [Next]_vars => [Board!Next]_(Board!avars)
  <2>1. UNCHANGED vars => UNCHANGED Board!avars
    BY DEF vars, callVars, Board!avars
  <2> QED BY <2>1, BoardSteps, BoardNext, StepsOfCallers DEF Rest
<1> QED BY TypeInvInit, TypeInvNext, CallInvInit, CallInvNext, BoardInit, <1>1, PTL
     DEF Spec, KeepsAlarms, Board!Spec

-----------------------------------------------------------------------------
(* The roll *)

\* Of the rows that need no action, the roll takes a row only with all that
\* are not younger.
LEMMA RolledIsOldest ==
  ASSUME TypeInv, NEW e \in Rolled, NEW f \in events, f.id <= e.id, ~f.ar
  PROVE  f \in Rolled
<1> DEFINE plain == {g \in events : ~g.ar}
           Older(g) == {h \in plain : h.id < g.id}
<1>1. e \in events /\ Cardinality(Older(e)) < TrimCount
  BY DEF Rolled
<1>2. Older(f) \subseteq Older(e) /\ Older(e) \subseteq events
  BY <1>1 DEF TypeInv, TypeOK, EventRow
<1>3. IsFiniteSet(Older(e)) /\ Cardinality(Older(f)) <= Cardinality(Older(e)) /\ IsFiniteSet(Older(f))
  BY <1>2, RowCount, FS_Subset DEF TypeInv
<1>4. TrimCount \in Int
  BY NumbersAreNaturals DEF TrimCount
<1>5. Cardinality(Older(f)) < TrimCount
  BY <1>1, <1>3, <1>4, FS_CardinalityType
<1> QED BY <1>5 DEF Rolled

\* Rolling takes the oldest rows that need no action, whatever is stored,
\* acknowledged and purged meanwhile.
THEOREM OldestRolledFirst == Spec => RollsOldest
<1>1. TypeInv /\ [Next]_vars => [OldestGo]_vars
  <2> SUFFICES ASSUME TypeInv, NEW u \in Callers, Trim(u),
                      NEW e \in events \ events', NEW f \in events', ~f.ar
               PROVE  f.id > e.id
    BY DEF OldestGo
  <2>1. events' = events \ Rolled
    BY DEF Trim
  <2>2. e \in Rolled /\ f \in events /\ f \notin Rolled
    BY <2>1
  <2>3. ~(f.id <= e.id)
    BY <2>2, RolledIsOldest
  <2> QED BY <2>2, <2>3 DEF TypeInv, TypeOK, EventRow
<1> QED BY TypeInvInit, TypeInvNext, <1>1, PTL DEF RollsOldest, Spec

-----------------------------------------------------------------------------
(* The size of the table *)

Busy == {u \in Callers : pc[u] \in StoreSteps}

\* A table without alarms is below its maximum, up to the stores in progress
\* and the rolls that failed.
RoomInv ==
  ~alarmed => /\ \A e \in events : ~e.ar
              /\ Cardinality(events) < LogMax + faults + Cardinality(Busy)

\* The stores in progress can be counted.
LEMMA BusyCount == IsFiniteSet(Busy) /\ Cardinality(Busy) \in Nat
BY CallersAssumption, FS_Subset, FS_CardinalityType DEF Busy

\* A roll takes at least one row.
LEMMA RollNumbers == LogMax > 0 /\ TrimCount \in Nat /\ TrimCount > 0
<1>1. LogMax # 0
  BY RollAssumption, NumbersAreNaturals
<1>2. TrimPercent * LogMax \in Nat
  BY NumbersAreNaturals
<1> QED BY <1>1, <1>2, RollAssumption, NumbersAreNaturals DEF TrimCount

\* A caller that begins a store is one more, one that ends it one less.
LEMMA BusyChanges ==
  ASSUME TypeInv, NEW u \in Callers, CallerStep(u)
  PROVE  /\ (pc[u] \in StoreSteps <=> pc'[u] \in StoreSteps) => Cardinality(Busy') = Cardinality(Busy)
         /\ pc[u] \notin StoreSteps /\ pc'[u] \in StoreSteps => Cardinality(Busy') = Cardinality(Busy) + 1
         /\ pc[u] \in StoreSteps /\ pc'[u] \notin StoreSteps => Cardinality(Busy') = Cardinality(Busy) - 1
<1>1. \A d \in Callers \ {u} : pc'[d] = pc[d]
  BY OthersStay DEF Same
<1>2. CASE pc[u] \in StoreSteps <=> pc'[u] \in StoreSteps
  <2>1. Busy' = Busy
    BY <1>1, <1>2 DEF Busy
  <2> QED BY <1>2, <2>1
<1>3. CASE pc[u] \notin StoreSteps /\ pc'[u] \in StoreSteps
  <2>1. Busy' = Busy \cup {u} /\ u \notin Busy
    BY <1>1, <1>3 DEF Busy
  <2>2. Cardinality(Busy') = Cardinality(Busy) + 1
    BY <2>1, BusyCount, FS_AddElement
  <2> QED BY <1>3, <2>2
<1>4. CASE pc[u] \in StoreSteps /\ pc'[u] \notin StoreSteps
  <2>1. Busy' = Busy \ {u} /\ u \in Busy
    BY <1>1, <1>4 DEF Busy
  <2>2. Cardinality(Busy') = Cardinality(Busy) - 1
    BY <2>1, BusyCount, FS_RemoveElement
  <2> QED BY <1>4, <2>2
<1> QED BY <1>2, <1>3, <1>4

\* Of a table without alarms a roll takes something.
LEMMA RollTakesSome ==
  ASSUME TypeInv, \A e \in events : ~e.ar, events # {}
  PROVE  Cardinality(events \ Rolled) < Cardinality(events)
<1> USE DEF TypeInv, TypeOK, EventRow
<1>1. Ids(events) \in SUBSET Nat /\ Ids(events) # {}
  BY DEF Ids
<1>2. PICK e \in events : \A f \in events : e.id <= f.id
  <2>1. Min(Ids(events)) \in Ids(events) /\ \A i \in Ids(events) : Min(Ids(events)) <= i
    BY <1>1, MinIsLeast
  <2>2. PICK e \in events : e.id = Min(Ids(events))
    BY <2>1 DEF Ids
  <2>3. \A f \in events : f.id \in Ids(events)
    BY DEF Ids
  <2> HIDE DEF TypeInv, TypeOK, EventRow
  <2> QED BY <2>1, <2>2, <2>3
<1>3. {f \in events : ~f.ar} = events /\ {f \in events : f.id < e.id} = {}
  BY <1>2
<1>4. e \in Rolled
  BY <1>3, RollNumbers, FS_EmptySet DEF Rolled
<1>5. events \ Rolled \subseteq events /\ events \ Rolled # events
  BY <1>4
<1> QED BY <1>5, RowCount, FS_Subset, FS_CardinalityType

\* Each store adds a row and a roll takes one, or the failure is counted.
LEMMA RoomInvStep ==
  ASSUME TypeInv, RoomInv, NEW u \in Callers, CallerStep(u)
  PROVE  RoomInv'
<1> SUFFICES ASSUME ~alarmed'
             PROVE  /\ \A e \in events' : ~e.ar
                    /\ Cardinality(events') < LogMax + faults' + Cardinality(Busy')
  BY DEF RoomInv
<1>0. /\ IsFiniteSet(events) /\ Cardinality(events) \in Nat /\ faults \in Nat
      /\ Cardinality(Busy) \in Nat /\ LogMax \in Nat /\ LogMax > 0
  BY RowCount, BusyCount, RollNumbers, NumbersAreNaturals DEF TypeInv, FunctionsInv
<1>1. ~alarmed
  BY DEF CallerStep, StoreStep, BeginStep, AckStep, PurgeStep, Insert, RollCount, Trim, AckBegin,
     PurgeBegin, Begin, AckSize, AckCount, AckFetch, AckRead, AckWrite, PurgeSize, PurgeFetch,
     PurgeDelete, Forget, history
<1>2. (\A e \in events : ~e.ar) /\ Cardinality(events) < LogMax + faults + Cardinality(Busy)
  BY <1>1 DEF RoomInv
<1>3. \A e \in events' : ~e.ar
  <2>1. CASE \E k \in Codes : Insert(u, k)
    <3>1. PICK k \in Codes : Insert(u, k)
      BY <2>1
    <3>2. k \notin AlarmCodes
      BY <3>1, Zenon DEF Insert
    <3> DEFINE new == [id |-> lastId + 1, code |-> k, ar |-> k \in AlarmCodes]
    <3>3. ~new.ar /\ events' = events \cup {new}
      BY <3>1, <3>2 DEF Insert
    <3> HIDE DEF new
    <3> QED BY <1>2, <3>3
  <2>2. CASE ~\E k \in Codes : Insert(u, k)
    <3>1. lastId' = lastId
      BY <2>2 DEF CallerStep, StoreStep, BeginStep, AckStep, PurgeStep, RollCount, Trim, AckBegin,
         PurgeBegin, Begin, AckSize, AckCount, AckFetch, AckRead, AckWrite, PurgeSize, PurgeFetch,
         PurgeDelete, Forget
    <3>2. lastId \in Int
      BY NumbersAreNaturals DEF TypeInv, TypeOK
    <3> QED BY <1>2, <3>1, <3>2, RowsEvolve
  <2> QED BY <2>1, <2>2
<1> USE DEF TypeInv, FunctionsInv, StoreSteps
<1>4. CASE \E k \in Codes : Insert(u, k)
  <2>1. PICK k \in Codes : Insert(u, k)
    BY <1>4
  <2> DEFINE new == [id |-> lastId + 1, code |-> k, ar |-> k \in AlarmCodes]
  <2>2. events' = events \cup {new} /\ new.id = lastId + 1
    BY <2>1 DEF Insert
  <2>3. new \notin events
    BY <2>2, NumbersAreNaturals DEF TypeOK
  <2>4. Cardinality(events') = Cardinality(events) + 1
    BY <1>0, <2>2, <2>3, FS_AddElement
  <2>5. Cardinality(Busy') = Cardinality(Busy) + 1 /\ faults' = faults
    BY <2>1, BusyChanges DEF Insert, Step
  <2> HIDE DEF new
  <2> QED BY <1>0, <1>2, <1>3, <2>4, <2>5
<1>5. CASE RollCount(u)
  <2>1. events' = events
    BY <1>5 DEF RollCount
  <2>2. CASE faults' = faults + 1 /\ pc'[u] = "idle" /\ pc[u] = "roll"
    <3>1. Cardinality(Busy') = Cardinality(Busy) - 1
      BY <2>2, BusyChanges
    <3> QED BY <1>0, <1>2, <1>3, <2>1, <2>2, <3>1
  <2>3. CASE faults' = faults /\ pc'[u] = "idle" /\ pc[u] = "roll" /\ ~Full(Cardinality(events))
    <3>1. Cardinality(Busy') = Cardinality(Busy) - 1
      BY <2>3, BusyChanges
    <3>2. Cardinality(Busy) # 0
      BY <2>3, BusyCount, FS_EmptySet DEF Busy
    <3> QED BY <1>0, <1>3, <2>1, <2>3, <3>1, <3>2 DEF Full
  <2>4. CASE faults' = faults /\ pc'[u] = "trim" /\ pc[u] = "roll"
    <3>1. Cardinality(Busy') = Cardinality(Busy)
      BY <2>4, BusyChanges
    <3> QED BY <1>2, <1>3, <2>1, <2>4, <3>1
  <2> QED BY <1>5, <2>2, <2>3, <2>4 DEF RollCount, Step, Fail, NoFault
<1>6. CASE Trim(u)
  <2>1. Cardinality(Busy') = Cardinality(Busy) - 1
    BY <1>6, BusyChanges DEF Trim, Step
  <2>2. CASE events' = events /\ faults' = faults + 1
    BY <1>0, <1>2, <1>3, <2>1, <2>2
  <2>3. CASE events' = events \ Rolled /\ faults' = faults /\ events # {}
    <3>1. Cardinality(events') < Cardinality(events)
      BY <1>2, <2>3, RollTakesSome
    <3>2. Cardinality(events') \in Nat
      BY <1>0, <2>3, FS_Subset, FS_CardinalityType
    <3> QED BY <1>0, <1>2, <1>3, <2>1, <2>3, <3>1, <3>2
  <2>4. CASE events' = {} /\ faults' = faults
    <3>1. Cardinality(events') = 0
      BY <2>4, FS_EmptySet
    <3>2. Cardinality(Busy) # 0
      BY <1>6, BusyCount, FS_EmptySet DEF Busy, Trim, Step
    <3> QED BY <1>0, <1>3, <2>1, <2>4, <3>1, <3>2
  <2> QED BY <1>6, <2>2, <2>3, <2>4 DEF Trim, Fail, NoFault
<1>7. CASE AckWrite(u) \/ PurgeDelete(u)
  <2>1. Cardinality(Busy') = Cardinality(Busy)
    BY <1>7, BusyChanges DEF AckWrite, PurgeDelete, AckNext, Return
  <2>2. faults' \in Nat /\ faults' >= faults
    BY <1>7 DEF AckWrite, PurgeDelete, Fail, NoFault
  <2>3. Cardinality(events') <= Cardinality(events) /\ Cardinality(events') \in Nat
    <3>1. CASE events' \subseteq events
      BY <1>0, <3>1, FS_Subset, FS_CardinalityType
    <3>2. CASE \E e \in events, z \in EventRow : events' = (events \ {e}) \cup {z}
      <4>1. PICK e \in events, z \in EventRow : events' = (events \ {e}) \cup {z}
        BY <3>2
      <4>2. IsFiniteSet(events \ {e}) /\ Cardinality(events \ {e}) = Cardinality(events) - 1
        BY <1>0, FS_RemoveElement
      <4>3. IsFiniteSet(events') /\ Cardinality(events') \in {Cardinality(events) - 1, Cardinality(events)}
        BY <1>0, <4>1, <4>2, FS_AddElement
      <4> QED BY <1>0, <4>3, FS_CardinalityType
    <3>3. CASE AckWrite(u)
      <4>1. events' = events \/ events' = WrittenBack(row[u].id)
        BY <3>3 DEF AckWrite, WrittenBack
      <4> QED BY <4>1, <3>1, <3>2, WrittenBackRows
    <3>4. CASE PurgeDelete(u)
      BY <3>1, <3>4 DEF PurgeDelete
    <3> QED BY <1>7, <3>3, <3>4
  <2> QED BY <1>0, <1>2, <1>3, <2>1, <2>2, <2>3
<1>8. CASE BeginStep(u) \/ AckSize(u) \/ AckCount(u) \/ AckFetch(u) \/ AckRead(u) \/ PurgeSize(u)
           \/ PurgeFetch(u) \/ Forget(u)
  <2>1. events' = events
    BY <1>8 DEF BeginStep, AckBegin, PurgeBegin, Begin, AckSize, AckCount, AckFetch, AckRead, PurgeSize,
       PurgeFetch, Forget
  <2>2. faults' \in Nat /\ faults' >= faults
    BY <1>8 DEF BeginStep, AckBegin, PurgeBegin, Begin, AckSize, AckCount, AckFetch, AckRead, PurgeSize,
       PurgeFetch, Forget, Fail, NoFault
  <2>3. pc[u] \notin StoreSteps /\ pc'[u] \notin StoreSteps
    BY <1>8 DEF BeginStep, AckBegin, PurgeBegin, Begin, AckSize, AckCount, AckFetch, AckRead, PurgeSize,
       PurgeFetch, Forget, Step, Return, AckNext
  <2>4. Cardinality(Busy') = Cardinality(Busy)
    BY <2>3, BusyChanges
  <2> QED BY <1>0, <1>2, <1>3, <2>1, <2>2, <2>4
<1> QED BY <1>4, <1>5, <1>6, <1>7, <1>8 DEF CallerStep, StoreStep, AckStep, PurgeStep

\* RoomInv is inductive relative to TypeInv.
LEMMA RoomInvNext == TypeInv /\ RoomInv /\ [Next]_vars => RoomInv'
<1>1. RoomInv /\ UNCHANGED vars => RoomInv'
  BY DEF RoomInv, Busy, vars, callVars, history
<1> QED BY <1>1, RoomInvStep, StepsOfCallers DEF Rest

\* RoomInv holds in the beginning.
LEMMA RoomInvInit == Init => RoomInv
<1> SUFFICES ASSUME Init PROVE RoomInv
  OBVIOUS
<1>1. Cardinality(events) = 0 /\ events = {}
  BY FS_EmptySet DEF Init
<1> QED BY <1>1, BusyCount, RollNumbers, NumbersAreNaturals DEF Init, RoomInv


\* With no store in progress the table is below its maximum, but for the
\* failed rolls.
LEMMA RoomBoundsLog ==
  ASSUME TypeInv, RoomInv
  PROVE  LogBounded
<1> SUFFICES ASSUME Quiet, ~alarmed
             PROVE  Cardinality(events) < LogMax + faults
  BY DEF LogBounded
<1>1. Busy = {}
  BY DEF Quiet, Busy, StoreSteps
<1>2. Cardinality(Busy) = 0
  BY <1>1, FS_EmptySet
<1> QED BY <1>2, NumbersAreNaturals DEF RoomInv, TypeInv, FunctionsInv

-----------------------------------------------------------------------------
(* What a call that nobody disturbs comes to *)

QuietCall(u) == alone[u] /\ faults = 0

\* What an undisturbed call knows is so.
Known(u) ==
  QuietCall(u) =>
    /\ pc[u] \in {"ackSize", "ackCount", "ackSizeAgain", "ackFetch", "purgeSize", "purgeFetch"} =>
         wanted[u] = Matching(events, code[u])
    /\ pc[u] \in {"ackCount", "ackFetch", "purgeFetch"} => size[u] = Cardinality(events)
    /\ pc[u] \in {"ackSizeAgain", "ackFetch"} =>
         wanted[u] # {} /\ room[u] = Cardinality(wanted[u])
    /\ pc[u] \in {"ackRead", "ackWrite"} =>
         \A e \in wanted[u] : \A f \in events : f.id = e.id /\ f.ar => f.id \in batch[u]
    /\ pc[u] = "purgeDelete" =>
         /\ batch[u] \subseteq Ids(events)
         /\ Ids(wanted[u]) \cap Ids(events) \subseteq batch[u]
         /\ rc[u] = Cardinality(gone[u]) /\ gone[u] \cap Ids(events) = {}

\* History of a call: ids that were there when it began, and ids it deleted.
Past(u) ==
  /\ Ids(wanted[u]) \subseteq 1..lastId /\ gone[u] \subseteq 1..lastId
  /\ pc[u] \in {"idle", "purgeSize", "purgeFetch"} \cup StoreSteps \cup Acknowledging => gone[u] = {}
  /\ pc[u] \in Acknowledging => rc[u] <= 0

\* An undisturbed call that is over did what it returned.
CallOver(u) ==
  pc[u] = "returned" /\ QuietCall(u) =>
    /\ rc[u] = 0 => \A e \in wanted[u] : \A f \in events : f.id = e.id => ~f.ar
    /\ rc[u] > 0 => Ids(wanted[u]) \cap Ids(events) = {}
    /\ gone[u] # {} => rc[u] = Cardinality(gone[u])

CallsInv == \A u \in Callers : Known(u) /\ Past(u) /\ CallOver(u)

\* All rows are among the newest of that many.
LEMMA NewestIsAll ==
  ASSUME TypeOK
  PROVE  Newest(Cardinality(events)) = events
<1> SUFFICES ASSUME NEW e \in events
             PROVE  Cardinality({f \in events : f.id > e.id}) < Cardinality(events)
  BY DEF Newest
<1>1. e.id \in Int /\ ~(e.id > e.id)
  BY DEF TypeOK, EventRow
<1>2. {f \in events : f.id > e.id} \subseteq events /\ {f \in events : f.id > e.id} # events
  BY <1>1
<1> QED BY <1>2, RowCount, FS_Subset, FS_CardinalityType

\* Who writes disturbs whoever is in a call.
LEMMA WritersDisturb ==
  ASSUME TypeInv, NEW u \in Callers, CallerStep(u), NEW d \in Callers \ {u}, QuietCall(d)'
  PROVE  QuietCall(d) /\ (events' = events \/ ~InCall(d))
<1>1. faults' = 0 => faults = 0
  BY NumbersAreNaturals
     DEF CallerStep, StoreStep, BeginStep, AckStep, PurgeStep, Insert, RollCount, Trim, AckBegin,
         PurgeBegin, Begin, AckSize, AckCount, AckFetch, AckRead, AckWrite, PurgeSize, PurgeFetch,
         PurgeDelete, Forget, Fail, NoFault, TypeInv, FunctionsInv
<1>2. \/ events' = events /\ (alone' = alone \/ alone' = [alone EXCEPT ![u] = TRUE])
      \/ Writes(u)
  BY DEF CallerStep, StoreStep, BeginStep, AckStep, PurgeStep, Insert, RollCount, Trim, AckBegin,
         PurgeBegin, Begin, AckSize, AckCount, AckFetch, AckRead, AckWrite, PurgeSize, PurgeFetch,
         PurgeDelete, Forget, history
<1>3. CASE events' = events /\ (alone' = alone \/ alone' = [alone EXCEPT ![u] = TRUE])
  BY <1>1, <1>3 DEF QuietCall, TypeInv, FunctionsInv
<1>4. CASE Writes(u)
  <2>1. alone'[d] = (alone[d] /\ (d = u \/ ~InCall(d)))
    BY <1>4 DEF Writes
  <2>2. alone'[d] /\ faults' = 0
    BY DEF QuietCall
  <2>3. alone[d] /\ ~InCall(d)
    BY <2>1, <2>2, Zenon
  <2> QED BY <1>1, <2>2, <2>3 DEF QuietCall
<1> QED BY <1>2, <1>3, <1>4

\* What the others did and know outlasts a step.
LEMMA OthersCalls ==
  ASSUME TypeInv, CallsInv, NEW u \in Callers, CallerStep(u), NEW d \in Callers \ {u}
  PROVE  Known(d)' /\ Past(d)' /\ CallOver(d)'
<1>1. Same(d) /\ Known(d) /\ Past(d) /\ CallOver(d)
  BY OthersStay DEF CallsInv
<1>2. lastId \in Nat /\ lastId' \in Nat /\ lastId' >= lastId
  BY TypeInvStep, RowsEvolve, NumbersAreNaturals DEF TypeInv, TypeOK
<1>3. Ids(wanted'[d]) = Ids(wanted[d])
  BY <1>1 DEF Same, Ids
<1>4. Past(d)'
  BY <1>1, <1>2, <1>3 DEF Past, Same
<1>5. CASE ~QuietCall(d)'
  BY <1>4, <1>5 DEF Known, CallOver
<1>6. CASE QuietCall(d)' /\ events' = events
  <2>1. QuietCall(d)
    BY <1>6, WritersDisturb
  <2>2. Ids(events') = Ids(events) /\ Matching(events', code'[d]) = Matching(events, code[d])
    BY <1>1, <1>6 DEF Same
  <2>3. Known(d)'
    BY <1>1, <1>3, <1>6, <2>1, <2>2 DEF Known, Same
  <2>4. CallOver(d)'
    BY <1>1, <1>3, <1>6, <2>1, <2>2 DEF CallOver, Same
  <2> QED BY <1>4, <2>3, <2>4
<1>7. CASE QuietCall(d)' /\ events' # events
  <2>1. QuietCall(d) /\ ~InCall(d)
    BY <1>7, WritersDisturb
  <2>2. pc'[d] \in {"idle", "roll", "trim", "returned"}
    BY <1>1, <2>1 DEF Same, InCall
  <2>3. Known(d)'
    BY <2>2 DEF Known
  <2>4. \A e \in wanted[d] : e.id \in Nat /\ e.id <= lastId
    BY <1>1, <1>2 DEF Past, Ids
  <2>5. \A e \in wanted[d] : \A f \in events' : f.id = e.id =>
          \E g \in events : g.id = e.id /\ (f.ar => g.ar)
    BY <1>2, <2>4, RowsEvolve
  <2>6. ASSUME pc[d] = "returned" PROVE CallOver(d)'
    <3>1. rc'[d] = 0 => \A e \in wanted'[d] : \A f \in events' : f.id = e.id => ~f.ar
      BY <1>1, <2>1, <2>5, <2>6 DEF CallOver, Same
    <3>2. rc'[d] > 0 => Ids(wanted'[d]) \cap Ids(events') = {}
      BY <1>1, <2>1, <2>5, <2>6 DEF CallOver, Same, Ids
    <3>3. gone'[d] # {} => rc'[d] = Cardinality(gone'[d])
      BY <1>1, <2>1, <2>6 DEF CallOver, Same
    <3> QED BY <3>1, <3>2, <3>3 DEF CallOver
  <2>7. CallOver(d)'
    BY <1>1, <2>6 DEF CallOver, Same
  <2> QED BY <1>4, <2>3, <2>7
<1> QED BY <1>5, <1>6, <1>7

\* The caller's own call, one operation at a time: a call begins with the
\* matches of that moment.
LEMMA BeginCalls ==
  ASSUME TypeInv, CallsInv, NEW u \in Callers, BeginStep(u)
  PROVE  Known(u)' /\ Past(u)' /\ CallOver(u)'
<1>1. PICK k \in Codes, to \in {"ackSize", "purgeSize"} : Begin(u, k, to)
  BY DEF BeginStep, AckBegin, PurgeBegin
<1>2. /\ pc[u] = "idle" /\ pc'[u] = to /\ code'[u] = k /\ rc'[u] = 0
      /\ wanted'[u] = Matching(events, k) /\ UNCHANGED <<events, lastId, gone, faults>>
  BY <1>1 DEF Begin, Step, TypeInv, TypeOK, FunctionsInv
<1>3. gone[u] = {} /\ gone'[u] = {}
  BY <1>2 DEF CallsInv, Past
<1>4. Ids(Matching(events, k)) \subseteq 1..lastId
  BY NumbersAreNaturals DEF Ids, Matching, TypeInv, TypeOK, EventRow
<1>5. Known(u)'
  BY <1>2 DEF Known
<1>6. CallOver(u)'
  BY <1>2 DEF CallOver
<1>7. Past(u)'
  BY <1>2, <1>3, <1>4 DEF Past
<1> QED BY <1>5, <1>6, <1>7

\* A store has no promise to keep.
LEMMA StoreCalls ==
  ASSUME TypeInv, CallsInv, NEW u \in Callers, StoreStep(u)
  PROVE  Known(u)' /\ Past(u)' /\ CallOver(u)'
<1>1. /\ pc[u] \in {"idle", "roll", "trim"} /\ pc'[u] \in {"idle", "roll", "trim"}
      /\ UNCHANGED <<wanted, gone>>
  BY DEF StoreStep, Insert, RollCount, Trim, Step, history, TypeInv, FunctionsInv
<1>2. lastId \in Nat /\ lastId' \in Nat /\ lastId' >= lastId
  BY TypeInvStep, RowsEvolve, NumbersAreNaturals DEF TypeInv, TypeOK, CallerStep
<1>3. Past(u)'
  BY <1>1, <1>2 DEF CallsInv, Past, StoreSteps, Acknowledging
<1> QED BY <1>1, <1>3 DEF Known, CallOver

\* Neither has a call that is forgotten.
LEMMA ForgetCalls ==
  ASSUME TypeInv, NEW u \in Callers, Forget(u)
  PROVE  Known(u)' /\ Past(u)' /\ CallOver(u)'
<1>1. pc'[u] = "idle" /\ wanted'[u] = {} /\ gone'[u] = {}
  BY DEF Forget, Step, TypeInv, FunctionsInv
<1> QED BY <1>1 DEF Known, Past, CallOver, Ids, Acknowledging

\* What an acknowledgement counts is all there is.
LEMMA AckSizeCalls ==
  ASSUME TypeInv, CallsInv, NEW u \in Callers, AckSize(u) \/ AckCount(u)
  PROVE  Known(u)' /\ Past(u)' /\ CallOver(u)'
<1>1. Known(u) /\ Past(u)
  BY DEF CallsInv
<1>2. gone[u] = {} /\ rc[u] <= 0 /\ rc[u] \in Int
  BY <1>1, NumbersAreNaturals DEF TypeInv, TypeOK, Past, Acknowledging, AckSize, AckCount
<1>3. UNCHANGED <<events, lastId, code, rc, wanted, gone, alone>>
  BY DEF AckSize, AckCount, history
<1>4. pc'[u] \in {"ackCount", "ackSizeAgain", "ackFetch", "returned"}
  BY DEF AckSize, AckCount, Return, TypeInv, FunctionsInv
<1>5. Past(u)'
  BY <1>1, <1>2, <1>3, <1>4 DEF Past, Acknowledging
<1>6. CASE ~QuietCall(u)'
  BY <1>5, <1>6 DEF Known, CallOver
<1>7. CASE QuietCall(u)'
  <2>1. QuietCall(u) /\ faults' = faults /\ faults = 0
    BY <1>3, <1>7, NumbersAreNaturals DEF AckSize, AckCount, QuietCall, Fail, NoFault, TypeInv, FunctionsInv
  <2>2. wanted[u] = Matching(events, code[u])
    BY <1>1, <2>1 DEF Known, AckSize, AckCount
  <2>3. CASE AckSize(u)
    <3>1. \/ events # {} /\ size'[u] = Cardinality(events) /\ pc'[u] = (IF pc[u] = "ackSize" THEN "ackCount" ELSE "ackFetch")
          \/ events = {} /\ pc'[u] = "returned"
      BY <2>1, <2>3, NumbersAreNaturals DEF AckSize, Return, TypeInv, FunctionsInv, Fail
    <3>2. room'[u] = room[u] /\ pc[u] \in {"ackSize", "ackSizeAgain"}
      BY <2>3 DEF AckSize
    <3>3. Known(u)'
      BY <1>1, <1>3, <2>1, <2>2, <3>1, <3>2 DEF Known
    <3>4. CallOver(u)'
      BY <1>2, <1>3, <3>1, <3>2 DEF CallOver
    <3> QED BY <1>5, <3>3, <3>4
  <2>4. CASE AckCount(u)
    <3>1. size[u] = Cardinality(events)
      BY <1>1, <2>1, <2>4 DEF Known, AckCount
    <3>2. Newest(size[u]) = events
      BY <3>1, NewestIsAll DEF TypeInv
    <3>3. /\ room'[u] = Cardinality(wanted[u])
          /\ room'[u] > 0 => pc'[u] = "ackSizeAgain"
          /\ ~(room'[u] > 0) => pc'[u] = "returned"
      BY <2>2, <2>4, <3>2 DEF AckCount, Return, TypeInv, FunctionsInv
    <3>4. wanted[u] = {} <=> Cardinality(wanted[u]) = 0
      BY <2>2, RowCount, FS_Subset, FS_EmptySet DEF Matching, TypeInv
    <3>5. Cardinality(wanted[u]) \in Nat
      BY <2>2, RowCount, FS_Subset, FS_CardinalityType DEF Matching, TypeInv
    <3>6. Known(u)'
      BY <1>3, <2>2, <3>3, <3>4, <3>5 DEF Known
    <3>7. CallOver(u)'
      BY <1>2, <1>3, <3>3, <3>4, <3>5 DEF CallOver
    <3> QED BY <1>5, <3>6, <3>7
  <2> QED BY <2>3, <2>4
<1> QED BY <1>6, <1>7

\* It has room for all matches and fetches them.
LEMMA AckFetchCalls ==
  ASSUME TypeInv, CallsInv, NEW u \in Callers, AckFetch(u)
  PROVE  Known(u)' /\ Past(u)' /\ CallOver(u)'
<1>1. Known(u) /\ Past(u)
  BY DEF CallsInv
<1>2. gone[u] = {} /\ rc[u] <= 0 /\ rc[u] \in Int
  BY <1>1, NumbersAreNaturals DEF TypeInv, TypeOK, Past, Acknowledging, AckFetch
<1>3. UNCHANGED <<events, lastId, code, rc, wanted, gone, alone, faults>>
  BY DEF AckFetch, history
<1>4. pc'[u] \in {"ackRead", "returned"}
  BY DEF AckFetch, Return, TypeInv, FunctionsInv
<1>5. Past(u)'
  BY <1>1, <1>2, <1>3, <1>4 DEF Past, Acknowledging
<1>6. CASE ~QuietCall(u)
  BY <1>3, <1>5, <1>6 DEF Known, CallOver, QuietCall
<1>7. CASE QuietCall(u)
  <2>1. /\ wanted[u] = Matching(events, code[u]) /\ size[u] = Cardinality(events)
        /\ wanted[u] # {} /\ room[u] = Cardinality(wanted[u])
    BY <1>1, <1>7 DEF Known, AckFetch
  <2>2. Newest(size[u]) = events
    BY <2>1, NewestIsAll DEF TypeInv
  <2>3. Cardinality(wanted[u]) \in Nat
    BY <2>1, RowCount, FS_Subset, FS_CardinalityType DEF Matching, TypeInv
  <2>4. pc'[u] = "ackRead" /\ batch'[u] = Ids(wanted[u])
    BY <2>1, <2>2, <2>3 DEF AckFetch, TypeInv, FunctionsInv
  <2>5. Known(u)'
    BY <1>3, <2>4 DEF Known, Ids
  <2> QED BY <1>5, <2>4, <2>5 DEF CallOver
<1> QED BY <1>6, <1>7

\* Of its batch it drops only what has no alarm.
LEMMA AckReadCalls ==
  ASSUME TypeInv, CallsInv, NEW u \in Callers, AckRead(u)
  PROVE  Known(u)' /\ Past(u)' /\ CallOver(u)'
<1>1. Known(u) /\ Past(u)
  BY DEF CallsInv
<1>2. gone[u] = {}
  BY <1>1 DEF Past, Acknowledging, AckRead
<1>3. UNCHANGED <<events, lastId, code, wanted, gone, alone, faults>>
  BY DEF AckRead, history
<1>4. pc'[u] \in {"ackRead", "ackWrite", "returned"} /\ rc'[u] <= 0 /\ rc'[u] \in Int
  BY DEF AckRead, AckNext, Return, TypeInv, FunctionsInv
<1>5. Past(u)'
  BY <1>1, <1>2, <1>3, <1>4 DEF Past, Acknowledging
<1>6. CASE ~QuietCall(u)
  BY <1>3, <1>5, <1>6 DEF Known, CallOver, QuietCall
<1>7. CASE QuietCall(u)
  <2> DEFINE id == Max(batch[u])
  <2>1. \A e \in wanted[u] : \A f \in events : f.id = e.id /\ f.ar => f.id \in batch[u]
    BY <1>1, <1>7 DEF Known, AckRead
  <2>2. CASE pc'[u] = "ackWrite" /\ batch'[u] = batch[u]
    <3>1. Known(u)'
      BY <1>3, <2>1, <2>2 DEF Known
    <3> QED BY <1>5, <2>2, <3>1 DEF CallOver
  <2>3. CASE (\A e \in events : e.id = id => ~e.ar) /\ AckNext(u, batch[u] \ {id})
    <3>1. \A e \in wanted[u] : \A f \in events : f.id = e.id /\ f.ar => f.id \in batch[u] \ {id}
      BY <2>1, <2>3
    <3>2. \/ pc'[u] = "returned" /\ batch[u] \ {id} = {}
          \/ pc'[u] = "ackRead" /\ batch'[u] = batch[u] \ {id}
      BY <2>3 DEF AckNext, Return, TypeInv, FunctionsInv
    <3> HIDE DEF id
    <3>3. Known(u)'
      BY <1>3, <3>1, <3>2 DEF Known
    <3>4. CallOver(u)'
      BY <1>2, <1>3, <1>4, <3>1, <3>2 DEF CallOver
    <3> QED BY <1>5, <3>3, <3>4
  <2>4. \A e, f \in events : e.id = id /\ f.id = id => e = f
    BY DEF TypeInv, TypeOK
  <2>5. \/ pc'[u] = "ackWrite" /\ batch'[u] = batch[u]
        \/ (\A e \in events : e.id = id => ~e.ar) /\ AckNext(u, batch[u] \ {id})
    BY <2>4 DEF AckRead, TypeInv, FunctionsInv
  <2> QED BY <2>2, <2>3, <2>5
<1> QED BY <1>6, <1>7

\* What it writes back has no alarm any more.
LEMMA AckWriteCalls ==
  ASSUME TypeInv, CallsInv, NEW u \in Callers, AckWrite(u)
  PROVE  Known(u)' /\ Past(u)' /\ CallOver(u)'
<1> DEFINE id == row[u].id
<1>1. Known(u) /\ Past(u)
  BY DEF CallsInv
<1>2. gone[u] = {} /\ rc[u] <= 0 /\ rc[u] \in Int
  BY <1>1, NumbersAreNaturals DEF TypeInv, TypeOK, Past, Acknowledging, AckWrite
<1>3. UNCHANGED <<lastId, code, wanted, gone>>
  BY DEF AckWrite
<1>4. pc'[u] \in {"ackRead", "returned"} /\ rc'[u] <= 0 /\ rc'[u] \in Int
  BY <1>2 DEF AckWrite, AckNext, Return, TypeInv, FunctionsInv
<1>5. Past(u)'
  BY <1>1, <1>2, <1>3, <1>4 DEF Past, Acknowledging
<1>6. CASE ~QuietCall(u)'
  BY <1>5, <1>6 DEF Known, CallOver
<1>7. CASE QuietCall(u)'
  <2>1. alone'[u] = (alone[u] /\ (u = u \/ ~InCall(u)))
    BY DEF AckWrite, Writes
  <2>2. alone[u]
    BY <1>7, <2>1, Zenon DEF QuietCall
  <2>3. faults = 0 /\ faults' = faults /\ events' = WrittenBack(id)
    BY <1>7, NumbersAreNaturals DEF AckWrite, WrittenBack, QuietCall, Fail, NoFault, TypeInv, FunctionsInv
  <2>4. \A e \in wanted[u] : \A f \in events : f.id = e.id /\ f.ar => f.id \in batch[u]
    BY <1>1, <2>2, <2>3 DEF Known, QuietCall, AckWrite
  <2>5. \A f \in events' : f.ar => f \in events /\ f.id # id
    <3>1. CASE WrittenBack(id) = events /\ \A e \in events : e.id # id
      BY <2>3, <3>1
    <3>2. CASE \E e \in events, z \in EventRow :
              /\ WrittenBack(id) = (events \ {e}) \cup {z}
              /\ e.id = id /\ z.id = id /\ z.code = e.code /\ ~z.ar
      <4>1. PICK e \in events, z \in EventRow :
              /\ WrittenBack(id) = (events \ {e}) \cup {z} /\ e.id = id /\ ~z.ar
        BY <3>2
      <4>2. \A f \in events : f.id = id => f = e
        BY <4>1 DEF TypeInv, TypeOK
      <4> QED BY <2>3, <4>1, <4>2
    <3> HIDE DEF id
    <3> QED BY <3>1, <3>2, WrittenBackRows DEF TypeInv
  <2>6. \A e \in wanted[u] : \A f \in events' : f.id = e.id /\ f.ar => f.id \in batch[u] \ {id}
    BY <2>4, <2>5
  <2>7. \/ pc'[u] = "returned" /\ batch[u] \ {id} = {}
        \/ pc'[u] = "ackRead" /\ batch'[u] = batch[u] \ {id}
    BY DEF AckWrite, AckNext, Return, TypeInv, FunctionsInv
  <2> HIDE DEF id
  <2>8. Known(u)'
    BY <1>3, <2>6, <2>7 DEF Known
  <2>9. CallOver(u)'
    BY <1>2, <1>3, <1>4, <2>6, <2>7 DEF CallOver
  <2> QED BY <1>5, <2>8, <2>9
<1> QED BY <1>6, <1>7

\* A purge fetches all matches.
LEMMA PurgeFetchCalls ==
  ASSUME TypeInv, CallsInv, NEW u \in Callers, PurgeSize(u) \/ PurgeFetch(u)
  PROVE  Known(u)' /\ Past(u)' /\ CallOver(u)'
<1>1. Known(u) /\ Past(u)
  BY DEF CallsInv
<1>2. gone[u] = {} /\ rc[u] = 0 /\ pc[u] \in {"purgeSize", "purgeFetch"}
  BY <1>1 DEF Past, PurgeSize, PurgeFetch, TypeInv, CountInv
<1>3. UNCHANGED <<events, lastId, code, wanted, gone, alone>>
  BY DEF PurgeSize, PurgeFetch, history
<1>4. pc'[u] \in {"purgeFetch", "purgeDelete", "returned"}
  BY DEF PurgeSize, PurgeFetch, Return, TypeInv, FunctionsInv
<1>5. Past(u)'
  BY <1>1, <1>2, <1>3, <1>4 DEF Past, Acknowledging
<1>6. CASE ~QuietCall(u)'
  BY <1>5, <1>6 DEF Known, CallOver
<1>7. CASE QuietCall(u)'
  <2>1. QuietCall(u) /\ faults' = faults /\ faults = 0
    BY <1>3, <1>7, NumbersAreNaturals DEF PurgeSize, PurgeFetch, QuietCall, Fail, NoFault, TypeInv, FunctionsInv
  <2>2. wanted[u] = Matching(events, code[u])
    BY <1>1, <1>2, <2>1 DEF Known
  <2>3. CASE PurgeSize(u)
    <3>1. \/ size'[u] = Cardinality(events) /\ pc'[u] = "purgeFetch" /\ rc'[u] = rc[u]
          \/ events = {} /\ pc'[u] = "returned" /\ rc'[u] = rc[u]
      BY <2>1, <2>3, NumbersAreNaturals DEF PurgeSize, Return, TypeInv, FunctionsInv, Fail
    <3>2. Known(u)'
      BY <1>3, <2>2, <3>1 DEF Known
    <3>3. CallOver(u)'
      BY <1>2, <1>3, <3>1 DEF CallOver
    <3> QED BY <1>5, <3>2, <3>3
  <2>4. CASE PurgeFetch(u)
    <3>1. size[u] = Cardinality(events)
      BY <1>1, <2>1, <2>4 DEF Known, PurgeFetch
    <3>2. Newest(size[u]) = events
      BY <3>1, NewestIsAll DEF TypeInv
    <3>3. /\ \/ Ids(wanted[u]) = {} /\ pc'[u] = "returned"
             \/ pc'[u] = "purgeDelete" /\ batch'[u] = Ids(wanted[u])
          /\ rc'[u] = 0
      BY <1>2, <2>2, <2>4, <3>2 DEF PurgeFetch, Return, TypeInv, FunctionsInv
    <3>4. Ids(wanted[u]) \subseteq Ids(events)
      BY <2>2 DEF Ids, Matching
    <3>5. \A e \in wanted[u] : e.id \in Ids(wanted[u])
      BY DEF Ids
    <3>6. Cardinality(gone'[u]) = 0 /\ gone'[u] = {}
      BY <1>2, <1>3, FS_EmptySet
    <3>7. Known(u)'
      BY <1>3, <3>3, <3>4, <3>6 DEF Known
    <3>8. CallOver(u)'
      BY <1>3, <3>3, <3>5, <3>6 DEF CallOver
    <3> QED BY <1>5, <3>7, <3>8
  <2> QED BY <2>3, <2>4
<1> QED BY <1>6, <1>7

\* Each delete takes an event that is there, and is counted.
LEMMA PurgeDeleteCalls ==
  ASSUME TypeInv, CallsInv, NEW u \in Callers, PurgeDelete(u)
  PROVE  Known(u)' /\ Past(u)' /\ CallOver(u)'
<1> DEFINE id == Max(batch[u])
<1>0. Known(u) /\ Past(u)
  BY DEF CallsInv
<1>1. /\ pc[u] = "purgeDelete" /\ rc'[u] = rc[u] + 1
      /\ \/ pc'[u] = "returned" /\ batch[u] = {id}
         \/ pc'[u] = "purgeDelete" /\ batch'[u] = batch[u] \ {id}
      /\ gone'[u] = gone[u] \cup (Ids(events) \ Ids(events'))
      /\ UNCHANGED <<lastId, wanted>>
  BY DEF PurgeDelete, Return, TypeInv, FunctionsInv
<1>2. id \in batch[u] /\ rc[u] \in Nat /\ lastId \in Nat
  BY <1>1, NextOfBatch, NumbersAreNaturals DEF TypeInv, TypeOK, CountInv
<1>3. Ids(events) \subseteq 1..lastId
  BY NumbersAreNaturals DEF Ids, TypeInv, TypeOK, EventRow
<1>4. Past(u)'
  BY <1>0, <1>1, <1>3 DEF Past, StoreSteps, Acknowledging
<1>5. CASE ~QuietCall(u)'
  BY <1>4, <1>5 DEF Known, CallOver
<1>6. CASE QuietCall(u)'
  <2>1. alone'[u] = (alone[u] /\ (u = u \/ ~InCall(u)))
    BY DEF PurgeDelete, Writes
  <2>2. alone[u]
    BY <1>6, <2>1, Zenon DEF QuietCall
  <2>3. faults = 0 /\ events' = events \ {e \in events : e.id = id}
    BY <1>6, NumbersAreNaturals DEF PurgeDelete, QuietCall, Fail, NoFault, TypeInv, FunctionsInv
  <2>4. /\ batch[u] \subseteq Ids(events)
        /\ Ids(wanted[u]) \cap Ids(events) \subseteq batch[u]
        /\ rc[u] = Cardinality(gone[u]) /\ gone[u] \cap Ids(events) = {}
    BY <1>0, <1>1, <2>2, <2>3 DEF Known, QuietCall
  <2> HIDE DEF id
  <2>5. Ids(events') = Ids(events) \ {id}
    BY <2>3 DEF Ids
  <2>6. gone'[u] = gone[u] \cup {id} /\ id \notin gone[u] /\ id \in Ids(events)
    BY <1>1, <1>2, <2>4, <2>5
  <2>7. IsFiniteSet(gone[u])
    <3>1. IsFiniteSet(1..lastId)
      BY <1>2, FS_Interval
    <3>2. gone[u] \subseteq 1..lastId
      BY <1>0 DEF Past
    <3> QED BY <3>1, <3>2, FS_Subset
  <2>8. rc'[u] = Cardinality(gone'[u]) /\ rc'[u] > 0
    <3>1. Cardinality(gone[u] \cup {id}) = Cardinality(gone[u]) + 1
      BY <2>6, <2>7, FS_AddElement
    <3>2. rc'[u] = rc[u] + 1 /\ rc[u] \in Nat
      BY <1>1, <1>2
    <3>3. Cardinality(gone'[u]) = rc[u] + 1
      BY <2>4, <2>6, <3>1
    <3> QED BY <3>2, <3>3
  <2>9. batch[u] \ {id} \subseteq Ids(events') /\ Ids(wanted[u]) \cap Ids(events') \subseteq batch[u] \ {id}
        /\ gone'[u] \cap Ids(events') = {}
    BY <2>4, <2>5, <2>6
  <2>10. Known(u)'
    BY <1>1, <2>8, <2>9 DEF Known
  <2>11. CallOver(u)'
    BY <1>1, <1>2, <2>8, <2>9 DEF CallOver
  <2> QED BY <1>4, <2>10, <2>11
<1> QED BY <1>5, <1>6

\* CallsInv is inductive relative to TypeInv.
LEMMA CallsInvNext == TypeInv /\ CallsInv /\ [Next]_vars => CallsInv'
<1>1. CallsInv /\ UNCHANGED vars => CallsInv'
  BY DEF CallsInv, Known, Past, CallOver, QuietCall, vars, callVars, history
<1>2. ASSUME TypeInv, CallsInv, NEW u \in Callers, CallerStep(u)
      PROVE  CallsInv'
  <2>1. Known(u)' /\ Past(u)' /\ CallOver(u)'
    BY <1>2, StoreCalls, BeginCalls, ForgetCalls, AckSizeCalls, AckFetchCalls, AckReadCalls, AckWriteCalls,
       PurgeFetchCalls, PurgeDeleteCalls DEF CallerStep, AckStep, PurgeStep
  <2>2. \A d \in Callers \ {u} : Known(d)' /\ Past(d)' /\ CallOver(d)'
    BY <1>2, OthersCalls
  <2> QED BY <2>1, <2>2 DEF CallsInv
<1> QED BY <1>1, <1>2, StepsOfCallers DEF Rest

\* CallsInv holds in the beginning.
LEMMA CallsInvInit == Init => CallsInv
<1>1. Init => 0 <= 0 /\ Ids({}) = {}
  BY DEF Ids
<1> QED BY <1>1 DEF Init, CallsInv, Known, Past, CallOver, Acknowledging

\* However calls, stores and failing statements interleave: an
\* acknowledgement that nobody disturbed and that returns success left no
\* alarm it was asked for, a purge removed what it was asked for and counted
\* it right, and the table keeps below its maximum as long as there is no
\* alarm in it.
THEOREM LogIsExact == Spec => []LogExact
<1>1. CallsInv => AckComplete /\ PurgeExact
  BY DEF CallsInv, CallOver, QuietCall, Undisturbed, AckComplete, PurgeExact
<1>2. TypeInv /\ RoomInv /\ CallsInv => LogExact
  BY <1>1, RoomBoundsLog DEF LogExact
<1> QED BY TypeInvInit, TypeInvNext, RoomInvInit, RoomInvNext, CallsInvInit, CallsInvNext, <1>2, PTL DEF Spec
=============================================================================
