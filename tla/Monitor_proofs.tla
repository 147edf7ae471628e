---------------------------- MODULE Monitor_proofs ----------------------------
(* Proofs about the monitor service: the passes of its event monitor        *)
(* (DimmMonitor), for any DIMMs, namespaces and attributes, and the life of *)
(* its threads and their store (Daemon), for any number of DIMMs, starts    *)
(* and failed deletes.                                                      *)
EXTENDS MCMonitor, TLAPS

-----------------------------------------------------------------------------
(* The pass: what holds at every step *)

A(o) == Range(Attrs(o))

\* An object is being visited; attributes that are not checked yet; attributes
\* whose alarms the pass acknowledges itself.
Visiting == pc \in {"check", "add"}
Due(a) == \E i \in idx..Len(Attrs(cur)) : Attrs(cur)[i] = a
Clearing(a) == Kind(a) \in {"temperature", "spare", "nsHealth"}

\* Types, by object, visit and pass.
ObjectType(o) ==
  /\ hw[o] \in Reading(o)
  /\ stored[o] \in Reading(o) \cup {NoState}
  /\ observed[o] \in Reading(o) \cup {NoState}
  /\ told[o] \in [A(o) -> Int]
  /\ \A a \in A(o) : told[o][a] \in Values(a) \cup {NotTold}
  /\ open[o] \subseteq A(o)
  /\ spoiled[o] \subseteq {"replaced", "died", "unread"}

VisitType ==
  Visiting =>
    /\ cur \in Objects
    /\ idx \in 1..(Len(Attrs(cur)) + 1)
    /\ work \in Reading(cur)
    /\ reads \in [DOMAIN reads -> Int] /\ DOMAIN reads \subseteq A(cur)
    /\ \A a \in DOMAIN reads : reads[a] \in Values(a)
    /\ pc = "add" => idx > Len(Attrs(cur)) /\ ~first /\ changed

PassType ==
  /\ pc \in {"down", "sleep", "dimms", "namespaces", "check", "add"}
  /\ first \in BOOLEAN /\ changed \in BOOLEAN
  /\ todo \subseteq Objects
  /\ cur \in Objects \cup {NoObject}

\* An object that is not being visited: the log told of its row (nothing,
\* when it has none), and a row that is normal has no alarm that waits.
RowKept(o) ==
  /\ spoiled[o] = {} => IF stored[o] = NoState THEN \A a \in A(o) : told[o][a] = NotTold
                        ELSE stored[o] = told[o]
  /\ "died" \notin spoiled[o] =>
       \A a \in open[o] : Clearing(a) => stored[o] # NoState /\ stored[o][a] # Normal

\* Any object that is not replaced: counters in its row are no higher than
\* the hardware's, which only grow, and the row is what the last complete
\* visit read.
RowSeen(o) ==
  "replaced" \notin spoiled[o] /\ stored[o] # NoState =>
    /\ \A a \in A(o) : Kind(a) = "count" => stored[o][a] <= hw[o][a]
    /\ observed[o] # NoState => stored[o] = observed[o]

\* The visited object: what the local record says of the row, the log, what
\* was read, and the alarms.  At a first visit the log has been told of no
\* attribute that is due, and of those that were read as the record has it;
\* later the record is what was told.  What was read and checked is in the
\* record, and a counter in it is no higher than what was read.
VisitRow ==
  /\ first => stored[cur] = NoState /\ changed
  /\ ~changed => stored[cur] = work

VisitTold ==
  spoiled[cur] = {} =>
    IF first THEN \A a \in A(cur) : IF Due(a) THEN told[cur][a] = NotTold
                                    ELSE a \in DOMAIN reads => work[a] = told[cur][a]
             ELSE work = told[cur]

VisitSeen ==
  "replaced" \notin spoiled[cur] =>
    /\ \A a \in A(cur) : Kind(a) = "count" => work[a] <= hw[cur][a]
    /\ \A a \in DOMAIN reads :
         /\ Kind(a) = "count" => work[a] <= reads[a] /\ reads[a] <= hw[cur][a]
         /\ ~Due(a) => work[a] = reads[a]

VisitAlarm ==
  "died" \notin spoiled[cur] =>
    \A a \in open[cur] : Clearing(a) => ~first /\ work[a] # Normal

VisitKept == VisitRow /\ VisitTold /\ VisitSeen /\ VisitAlarm

StoryInv ==
  /\ \A o \in Objects : (Visiting => o # cur) => RowKept(o)
  /\ \A o \in Objects : RowSeen(o)
  /\ Visiting => VisitKept

FunctionsInv ==
  /\ DOMAIN hw = Objects /\ DOMAIN stored = Objects /\ DOMAIN open = Objects
  /\ DOMAIN told = Objects /\ DOMAIN observed = Objects /\ DOMAIN spoiled = Objects
TypeInv == FunctionsInv /\ (\A o \in Objects : ObjectType(o)) /\ VisitType /\ PassType

Names == {"health", "dieSpares", "mediaTemp", "controllerTemp", "spare", "wear", "uncorrectable",
          "corrected", "erasureCoded", NsHealth}

\* The attributes of an object are a sequence of known names, each once.
LEMMA AttrsOfObjects ==
  ASSUME NEW o \in Objects
  PROVE  /\ Attrs(o) \in Seq(Names) /\ Len(Attrs(o)) \in Nat
         /\ A(o) = {Attrs(o)[i] : i \in 1..Len(Attrs(o))} /\ A(o) \subseteq Names
         /\ \A i, j \in 1..Len(Attrs(o)) : Attrs(o)[i] = Attrs(o)[j] => i = j
<1>1. CASE o \in Dimms
  <2>1. Attrs(o) = DimmAttrs
    BY <1>1 DEF Attrs
  <2>2. DimmAttrs \in Seq(Names)
    BY AttrsAssumption DEF Names
  <2> QED BY <2>1, <2>2, AttrsAssumption DEF A, Range
<1>2. CASE o \notin Dimms
  <2>1. Attrs(o) = <<NsHealth>>
    BY <1>2 DEF Attrs
  <2> QED BY <2>1 DEF A, Range, Names
<1> QED BY <1>1, <1>2

\* Values are numbers, and a new object can have them.
LEMMA ValuesOfNames ==
  \A a \in Names : /\ Values(a) \subseteq 0..(MaxCount + 3) /\ 0 \in Values(a)
                   /\ Kind(a) # "count" => Normal \in Values(a)
BY BoundsAssumption DEF Names, Values, Kind, Unknown, Normal, Critical, NonCritical, NsHealth

\* A reading, attribute by attribute.
LEMMA ReadingParts ==
  ASSUME NEW o \in Objects
  PROVE  \A r : r \in Reading(o) <=> r \in [A(o) -> Int] /\ \A a \in A(o) : r[a] \in Values(a)
<1>1. \A a \in A(o) : Values(a) \subseteq 0..(MaxCount + 3) /\ Values(a) \subseteq Int
  BY AttrsOfObjects, ValuesOfNames, BoundsAssumption
<1>2. ASSUME NEW r \in Reading(o)
      PROVE  r \in [A(o) -> Int] /\ \A a \in A(o) : r[a] \in Values(a)
  <2>1. r \in [A(o) -> 0..(MaxCount + 3)] /\ \A a \in DOMAIN r : r[a] \in Values(a)
    BY DEF Reading, A
  <2> QED BY <1>1, <2>1
<1>3. ASSUME NEW r \in [A(o) -> Int], \A a \in A(o) : r[a] \in Values(a)
      PROVE  r \in Reading(o)
  <2>1. r \in [A(o) -> 0..(MaxCount + 3)]
    BY <1>1, <1>3
  <2> QED BY <1>3, <2>1 DEF Reading, A
<1> QED BY <1>2, <1>3

\* What new objects report, and empty records, are readings.
LEMMA NewReadings ==
  ASSUME NEW o \in Objects
  PROVE  Fresh(o) \in Reading(o) /\ Zero(o) \in Reading(o)
<1>1. Zero(o) \in [A(o) -> Int] /\ \A a \in A(o) : Zero(o)[a] = 0
  BY DEF Zero, A
<1>2. Fresh(o) \in [A(o) -> Int] /\ \A a \in A(o) : Fresh(o)[a] = IF Kind(a) = "count" THEN 0 ELSE Normal
  BY DEF Fresh, A, Normal
<1>3. \A a \in A(o) : Zero(o)[a] \in Values(a) /\ Fresh(o)[a] \in Values(a)
  BY <1>1, <1>2, AttrsOfObjects, ValuesOfNames
<1> QED BY <1>1, <1>2, <1>3, ReadingParts

\* The attribute that is checked is one of the object's, and no longer due
\* after the step.
LEMMA Attribute ==
  ASSUME TypeInv, Checking
  PROVE  /\ cur \in Objects /\ Attr \in A(cur) /\ Due(Attr)
         /\ idx' = idx + 1 /\ cur' = cur =>
              \A a \in A(cur) : Due(a)' <=> Due(a) /\ a # Attr
<1>1. cur \in Objects /\ idx \in 1..Len(Attrs(cur))
  BY AttrsOfObjects DEF TypeInv, VisitType, Visiting, Checking
<1>2. Attr \in A(cur) /\ Due(Attr)
  BY <1>1, AttrsOfObjects DEF Attr, Due
<1>3. ASSUME idx' = idx + 1, cur' = cur, NEW a \in A(cur)
      PROVE  Due(a)' <=> Due(a) /\ a # Attr
  <2>1. Len(Attrs(cur)) \in Nat /\ \A i, j \in 1..Len(Attrs(cur)) : Attrs(cur)[i] = Attrs(cur)[j] => i = j
    BY <1>1, AttrsOfObjects
  <2>2. Due(a)' <=> \E i \in (idx + 1)..Len(Attrs(cur)) : Attrs(cur)[i] = a
    BY <1>3 DEF Due
  <2>3. Due(a) <=> \E i \in idx..Len(Attrs(cur)) : Attrs(cur)[i] = a
    BY DEF Due
  <2> QED BY <1>1, <2>1, <2>2, <2>3 DEF Attr
<1> QED BY <1>1, <1>2, <1>3

\* When the visit is over nothing is due.
LEMMA NothingDue ==
  ASSUME TypeInv, Visiting, idx > Len(Attrs(cur))
  PROVE  \A a : ~Due(a)
BY AttrsOfObjects DEF TypeInv, VisitType, Due

\* At the beginning of a visit all attributes are due.
LEMMA AllDue ==
  ASSUME NEW o \in Objects, cur' = o, idx' = 1
  PROVE  \A a \in A(o) : Due(a)'
BY AttrsOfObjects DEF Due

-----------------------------------------------------------------------------
(* Types *)

\* DIMMs and namespaces are visited.
LEMMA DimmsAreObjects == Dimms \subseteq Objects /\ Namespaces \subseteq Objects
BY DEF Objects

\* What the hardware, users and restarts do to types.
LEMMA TypeInvEnvironment ==
  ASSUME TypeInv, Environment \/ Restart
  PROVE  TypeInv'
<1> USE DEF TypeInv, FunctionsInv, ObjectType, VisitType, PassType, Visiting, envVars, dbVars, passVars, history
<1>1. ASSUME NEW o \in Objects, NEW a \in DOMAIN hw[o], NEW v \in Values(a), HardwareChange(o, a, v)
      PROVE  TypeInv'
  <2>1. hw[o] \in [A(o) -> Int] /\ \A k \in A(o) : hw[o][k] \in Values(k)
    BY ReadingParts
  <2>2. a \in A(o) /\ v \in Int
    BY <2>1, AttrsOfObjects, ValuesOfNames, BoundsAssumption
  <2>3. [hw[o] EXCEPT ![a] = v] \in Reading(o)
    BY <2>1, <2>2, ReadingParts
  <2>4. hw' = [hw EXCEPT ![o] = [hw[o] EXCEPT ![a] = v]]
    BY <1>1 DEF HardwareChange
  <2>5. \A k \in Objects : hw'[k] \in Reading(k)
    BY <2>3, <2>4
  <2>6. DOMAIN hw' = Objects
    BY <2>4
  <2> QED BY <1>1, <2>5, <2>6 DEF HardwareChange
<1>2. ASSUME NEW d \in Dimms, ReplaceDimm(d)
      PROVE  TypeInv'
  BY <1>2, DimmsAreObjects, NewReadings DEF ReplaceDimm
<1>3. ASSUME NEW o \in Objects, NEW a \in open[o], Acknowledge(o, a)
      PROVE  TypeInv'
  BY <1>3 DEF Acknowledge
<1>4. CASE StopOrCrash
  BY <1>4 DEF StopOrCrash
<1>5. CASE Restart
  BY <1>5 DEF Restart
<1> QED BY <1>1, <1>2, <1>3, <1>4, <1>5 DEF Environment

\* The visit of an object begins: VisitDimm and VisitNamespace.
VisitBegins(o) ==
  /\ ~Visiting /\ pc' = "check" /\ cur' = o /\ idx' = 1 /\ todo' \subseteq Objects
  /\ first' = (stored[o] = NoState) /\ changed' = (stored[o] = NoState)
  /\ work' = IF stored[o] = NoState THEN Zero(o) ELSE stored[o]
  /\ reads' \in [DOMAIN reads' -> Int] /\ DOMAIN reads' \subseteq A(o)
  /\ \A a \in DOMAIN reads' : reads'[a] = hw[o][a]
  /\ UNCHANGED <<hw, stored, open, told, observed, spoiled>>

\* Visits of DIMMs and namespaces begin alike.
LEMMA VisitsBegin ==
  ASSUME TypeInv
  PROVE  /\ \A d \in Dimms : VisitDimm(d) => VisitBegins(d)
         /\ \A n \in Namespaces : VisitNamespace(n) => VisitBegins(n)
<1> USE DimmsAreObjects DEF VisitBegins, Visiting, envVars, dbVars, history, TypeInv, PassType
<1>1. ASSUME NEW d \in Dimms, VisitDimm(d) PROVE VisitBegins(d)
  <2>1. A(d) = Range(DimmAttrs)
    BY DEF A, Attrs
  <2>2. PICK ok \in SUBSET A(d) : reads' = [a \in ok |-> hw[d][a]]
    BY <1>1, <2>1 DEF VisitDimm
  <2>3. hw[d] \in [A(d) -> Int]
    BY ReadingParts DEF ObjectType
  <2>4. reads' \in [DOMAIN reads' -> Int]
    BY <2>2, <2>3
  <2> QED BY <1>1, <2>2, <2>4 DEF VisitDimm
<1>2. ASSUME NEW n \in Namespaces, VisitNamespace(n) PROVE VisitBegins(n)
  <2>1. hw[n] \in [A(n) -> Int]
    BY ReadingParts DEF ObjectType
  <2> QED BY <1>2, <2>1 DEF VisitNamespace
<1> QED BY <1>1, <1>2

\* The beginning of a visit keeps types.
LEMMA TypeInvVisit ==
  ASSUME TypeInv, NEW o \in Objects, VisitBegins(o)
  PROVE  TypeInv'
<1> USE DEF TypeInv, VisitBegins
<1>1. FunctionsInv' /\ \A k \in Objects : ObjectType(k)'
  BY DEF FunctionsInv, ObjectType
<1>2. PassType'
  BY DEF PassType
<1>3. work' \in Reading(o)
  BY NewReadings DEF ObjectType
<1>4. \A a \in DOMAIN reads' : reads'[a] \in Values(a)
  BY ReadingParts DEF ObjectType
<1>5. VisitType'
  BY <1>3, <1>4, AttrsOfObjects DEF VisitType
<1> QED BY <1>1, <1>2, <1>5

\* An attribute is checked: what is common to the four outcomes.
CheckStep == SkipAttr \/ TakeFirst \/ SameReading \/ NewReading

\* An outcome is about the attribute that is due.
LEMMA CheckSteps ==
  ASSUME TypeInv, CheckStep
  PROVE  /\ Checking /\ pc' = "check" /\ idx' = idx + 1 /\ cur' = cur /\ reads' = reads /\ first' = first
         /\ UNCHANGED <<hw, stored, observed, spoiled, todo>>
BY DEF CheckStep, SkipAttr, TakeFirst, SameReading, NewReading, Checking, Advance, envVars, dbVars, history

\* A check keeps types.
LEMMA TypeInvCheck ==
  ASSUME TypeInv, CheckStep
  PROVE  TypeInv'
<1>1. cur \in Objects /\ Attr \in A(cur) /\ idx \in 1..Len(Attrs(cur)) /\ pc = "check"
  BY CheckSteps, Attribute, AttrsOfObjects DEF TypeInv, VisitType, Visiting, Checking
<1>2. ASSUME Attr \in DOMAIN reads PROVE reads[Attr] \in Values(Attr) /\ reads[Attr] \in Int
  <2>1. reads[Attr] \in Values(Attr)
    BY <1>1, <1>2 DEF TypeInv, VisitType, Visiting
  <2> QED BY <1>1, <2>1, AttrsOfObjects, ValuesOfNames, BoundsAssumption
<1>3. work' \in Reading(cur)
  <2>1. work \in [A(cur) -> Int] /\ \A a \in A(cur) : work[a] \in Values(a)
    BY <1>1, ReadingParts DEF TypeInv, VisitType, Visiting
  <2>2. work' = work \/ (Attr \in DOMAIN reads /\ work' = [work EXCEPT ![Attr] = reads[Attr]])
    BY DEF CheckStep, SkipAttr, TakeFirst, SameReading, NewReading, Take
  <2>3. work' \in [A(cur) -> Int] /\ \A a \in A(cur) : work'[a] \in Values(a)
    BY <1>1, <1>2, <2>1, <2>2
  <2> QED BY <1>1, <2>3, ReadingParts
<1>4. told' = told \/ (Attr \in DOMAIN reads /\ told' = [told EXCEPT ![cur] = [told[cur] EXCEPT ![Attr] = reads[Attr]]])
  BY DEF CheckStep, SkipAttr, TakeFirst, SameReading, NewReading, Tell, history
<1>5. DOMAIN open' = Objects /\ \A o \in Objects : open'[o] \subseteq open[o] \cup (IF o = cur THEN {Attr} ELSE {})
  BY <1>1 DEF CheckStep, SkipAttr, TakeFirst, SameReading, NewReading, Raise, Clear, dbVars, TypeInv, FunctionsInv
<1>6. \A o \in Objects : ObjectType(o)'
  <2>1. \A o \in Objects : open'[o] \subseteq A(o)
    BY <1>1, <1>5 DEF TypeInv, FunctionsInv, ObjectType
  <2>2. \A o \in Objects : told'[o] \in [A(o) -> Int] /\ \A a \in A(o) : told'[o][a] \in Values(a) \cup {NotTold}
    <3>1. CASE told' = told
      BY <3>1 DEF TypeInv, ObjectType
    <3>2. CASE Attr \in DOMAIN reads /\ told' = [told EXCEPT ![cur] = [told[cur] EXCEPT ![Attr] = reads[Attr]]]
      <4> DEFINE row == [told[cur] EXCEPT ![Attr] = reads[Attr]]
      <4>1. told[cur] \in [A(cur) -> Int] /\ \A a \in A(cur) : told[cur][a] \in Values(a) \cup {NotTold}
        BY <1>1 DEF TypeInv, ObjectType
      <4>2. row \in [A(cur) -> Int] /\ \A a \in A(cur) : row[a] \in Values(a) \cup {NotTold}
        BY <1>1, <1>2, <3>2, <4>1
      <4>3. \A o \in Objects : told'[o] = IF o = cur THEN row ELSE told[o]
        BY <3>2 DEF TypeInv, FunctionsInv
      <4> HIDE DEF row
      <4> QED BY <4>2, <4>3 DEF TypeInv, ObjectType
    <3> QED BY <1>4, <3>1, <3>2
  <2> QED BY <2>1, <2>2, CheckSteps DEF TypeInv, ObjectType
<1>7. FunctionsInv'
  BY <1>4, <1>5, CheckSteps DEF TypeInv, FunctionsInv
<1>8. PassType'
  <2>1. changed' = changed \/ changed' = TRUE
    BY DEF CheckStep, SkipAttr, TakeFirst, SameReading, NewReading
  <2> QED BY <1>1, <2>1, CheckSteps DEF TypeInv, PassType
<1>9. VisitType'
  BY <1>1, <1>3, CheckSteps, AttrsOfObjects DEF TypeInv, VisitType, Visiting
<1> QED BY <1>6, <1>7, <1>8, <1>9 DEF TypeInv

\* The end of a visit.
LEMMA TypeInvEnd ==
  ASSUME TypeInv, KeepState \/ DeleteState \/ AddState
  PROVE  TypeInv'
<1> USE DEF TypeInv, FunctionsInv, ObjectType, VisitType, PassType, Visiting, envVars, dbVars, passVars, history
<1>0. Visiting /\ cur \in Objects
  BY DEF KeepState, DeleteState, AddState, Checked
<1>1. DOMAIN reads = Range(Attrs(cur)) => reads \in Reading(cur)
  BY <1>0, ReadingParts DEF A
<1>2. CASE KeepState \/ AddState
  <2>1. /\ pc' = NextObject /\ UNCHANGED <<hw, open, told, todo>> /\ first' = FALSE /\ changed' = FALSE
        /\ cur' = NoObject /\ (stored' = stored \/ stored' = [stored EXCEPT ![cur] = work])
        /\ observed' = [observed EXCEPT ![cur] = IF DOMAIN reads = Range(Attrs(cur)) THEN reads ELSE NoState]
        /\ spoiled' = IF Unread THEN [spoiled EXCEPT ![cur] = @ \cup {"unread"}] ELSE spoiled
    BY <1>2 DEF KeepState, AddState, EndVisit
  <2>2. pc' \in {"dimms", "namespaces"}
    BY <2>1 DEF NextObject
  <2>3. \A o \in Objects : ObjectType(o)'
    BY <1>0, <1>1, <2>1
  <2>4. FunctionsInv'
    BY <2>1
  <2> QED BY <2>1, <2>2, <2>3, <2>4
<1>3. CASE DeleteState
  BY <1>0, <1>3 DEF DeleteState, Checked
<1> QED BY <1>2, <1>3

\* Between visits the pass only moves on.
MovesOn == BeginPass \/ BeginNamespaces \/ (\E n \in Namespaces : SkipNamespace(n)) \/ EndPass

\* The rest of a pass leaves rows, alarms and history alone.
LEMMA PassMovesOn ==
  ASSUME TypeInv, MovesOn
  PROVE  /\ ~Visiting /\ ~Visiting' /\ pc' \in {"sleep", "dimms", "namespaces"} /\ todo' \subseteq Objects
         /\ UNCHANGED <<hw, dbVars, cur, idx, reads, work, first, changed, history>>
BY DimmsAreObjects DEF MovesOn, BeginPass, BeginNamespaces, SkipNamespace, EndPass, Visiting, envVars, passVars,
   TypeInv, PassType

\* So it keeps types.
LEMMA TypeInvMovesOn ==
  ASSUME TypeInv, MovesOn
  PROVE  TypeInv'
BY PassMovesOn DEF TypeInv, FunctionsInv, ObjectType, VisitType, PassType, dbVars, history

\* Every step is one of these.
LEMMA StepsOfMonitor ==
  ASSUME TypeInv, Next
  PROVE  \/ Environment \/ Restart \/ MovesOn \/ CheckStep
         \/ KeepState \/ DeleteState \/ AddState
         \/ \E o \in Objects : VisitBegins(o)
BY VisitsBegin, DimmsAreObjects DEF Next, Pass, MovesOn, CheckStep

\* TypeInv is inductive.
LEMMA TypeInvNext == TypeInv /\ [Next]_vars => TypeInv'
<1>1. TypeInv /\ UNCHANGED vars => TypeInv'
  BY DEF TypeInv, FunctionsInv, ObjectType, VisitType, PassType, Visiting, vars, envVars, dbVars, passVars, history
<1> QED BY <1>1, StepsOfMonitor, TypeInvEnvironment, TypeInvMovesOn, TypeInvCheck, TypeInvEnd, TypeInvVisit

\* Nothing has been read or told.
LEMMA TypeInvInit == Init \/ NoPasses => TypeInv
<1> SUFFICES ASSUME Init \/ NoPasses PROVE TypeInv
  OBVIOUS
<1>1. \A o \in Objects : hw[o] = Fresh(o) /\ stored[o] = NoState /\ observed[o] = NoState /\ open[o] = {}
        /\ told[o] = [a \in A(o) |-> NotTold] /\ spoiled[o] \subseteq {"died"}
  BY DEF Init, NoPasses, A
<1>2. ASSUME NEW o \in Objects PROVE ObjectType(o)
  <2>1. told[o] \in [A(o) -> Int] /\ \A a \in A(o) : told[o][a] = NotTold
    <3>1. told[o] = [a \in A(o) |-> NotTold]
      BY DEF Init, NoPasses, A
    <3> QED BY <3>1 DEF NotTold
  <2> QED BY <1>1, <2>1, NewReadings DEF ObjectType
<1>3. FunctionsInv /\ PassType /\ VisitType
  BY DEF Init, NoPasses, FunctionsInv, PassType, VisitType, Visiting
<1> QED BY <1>2, <1>3 DEF TypeInv

-----------------------------------------------------------------------------
(* What rows say *)

\* A row that stays keeps its promises, whatever befalls its object.
LEMMA RowStays ==
  ASSUME NEW o, RowKept(o), stored'[o] = stored[o], told'[o] = told[o],
         open'[o] \subseteq open[o], spoiled[o] \subseteq spoiled'[o]
  PROVE  RowKept(o)'
BY DEF RowKept

\* So does what the hardware showed, as long as counters only grow.
LEMMA SeenStays ==
  ASSUME TypeInv, TypeInv', NEW o \in Objects, RowSeen(o), stored'[o] = stored[o], observed'[o] = observed[o],
         spoiled[o] \subseteq spoiled'[o],
         "replaced" \notin spoiled'[o] => \A a \in A(o) : Kind(a) = "count" => hw[o][a] <= hw'[o][a]
  PROVE  RowSeen(o)'
<1> SUFFICES ASSUME "replaced" \notin spoiled'[o], stored[o] # NoState
             PROVE  /\ \A a \in A(o) : Kind(a) = "count" => stored[o][a] <= hw'[o][a]
                    /\ observed[o] # NoState => stored[o] = observed[o]
  BY DEF RowSeen
<1>1. /\ \A a \in A(o) : Kind(a) = "count" => stored[o][a] <= hw[o][a]
      /\ observed[o] # NoState => stored[o] = observed[o]
  BY DEF RowSeen
<1>2. \A a \in A(o) : stored[o][a] \in Int /\ hw[o][a] \in Int /\ hw'[o][a] \in Int
  BY ReadingParts DEF TypeInv, ObjectType
<1> QED BY <1>1, <1>2

\* A counter of a DIMM that is not replaced does not fall.
LEMMA CountersGrow ==
  ASSUME TypeInv, [Next]_vars, NEW o \in Objects, "replaced" \notin spoiled'[o], NEW a \in A(o), Kind(a) = "count"
  PROVE  hw[o][a] <= hw'[o][a]
<1>1. hw[o] \in [A(o) -> Int]
  BY ReadingParts DEF TypeInv, ObjectType
<1>2. CASE hw' = hw
  BY <1>1, <1>2
<1>3. CASE \E p \in Objects : \E k \in DOMAIN hw[p] : \E v \in Values(k) : HardwareChange(p, k, v)
  <2>0. PICK p \in Objects : \E k \in DOMAIN hw[p] : \E v \in Values(k) : HardwareChange(p, k, v)
    BY <1>3
  <2>a. PICK k \in DOMAIN hw[p] : \E v \in Values(k) : HardwareChange(p, k, v)
    BY <2>0
  <2>1. PICK v \in Values(k) : HardwareChange(p, k, v)
    BY <2>a
  <2>2. hw[p] \in [A(p) -> Int]
    BY ReadingParts DEF TypeInv, ObjectType
  <2>3. hw'[o] = IF o = p THEN [hw[p] EXCEPT ![k] = v] ELSE hw[o]
    BY <2>1 DEF HardwareChange, TypeInv, FunctionsInv
  <2>4. v \in Int /\ (Kind(k) = "count" => v > hw[p][k])
    BY <2>1, <2>2, AttrsOfObjects, ValuesOfNames, BoundsAssumption DEF HardwareChange
  <2> QED BY <1>1, <2>2, <2>3, <2>4
<1>4. CASE \E d \in Dimms : ReplaceDimm(d)
  BY <1>1, <1>4, DimmsAreObjects DEF ReplaceDimm, TypeInv, FunctionsInv
<1>5. CASE \E p \in Objects : \E k \in open[p] : Acknowledge(p, k)
  BY <1>2, <1>5 DEF Acknowledge, envVars
<1>6. CASE StopOrCrash \/ Restart \/ KeepState \/ DeleteState \/ AddState
  BY <1>2, <1>6 DEF StopOrCrash, Restart, KeepState, DeleteState, AddState, envVars
<1>7. CASE MovesOn \/ CheckStep \/ \E p \in Objects : VisitBegins(p)
  BY <1>2, <1>7, PassMovesOn, CheckSteps DEF VisitBegins
<1>8. CASE UNCHANGED vars
  BY <1>2, <1>8 DEF vars, envVars
<1> QED BY <1>3, <1>4, <1>5, <1>6, <1>7, <1>8, StepsOfMonitor DEF Environment

\* A visit in progress is not disturbed by what happens outside.
LEMMA VisitStays ==
  ASSUME TypeInv, TypeInv', Visiting, VisitKept,
         UNCHANGED <<stored, told, spoiled, idx, cur, reads, work, first, changed>>,
         open'[cur] \subseteq open[cur],
         \A a \in A(cur) : Kind(a) = "count" => hw[cur][a] <= hw'[cur][a]
  PROVE  VisitKept'
<1>1. cur \in Objects /\ work \in [A(cur) -> Int]
  BY ReadingParts DEF TypeInv, VisitType
<1>2. hw[cur] \in [A(cur) -> Int] /\ hw'[cur] \in [A(cur) -> Int]
  BY <1>1, ReadingParts DEF TypeInv, ObjectType
<1>3. reads \in [DOMAIN reads -> Int] /\ DOMAIN reads \subseteq A(cur)
  BY DEF TypeInv, VisitType
<1>4. \A a : Due(a)' <=> Due(a)
  BY DEF Due
<1> USE DEF VisitKept, VisitRow, VisitTold, VisitSeen, VisitAlarm
<1>5. (first => stored[cur] = NoState /\ changed) /\ (~changed => stored[cur] = work)
  OBVIOUS
<1>6. "replaced" \notin spoiled[cur] =>
        /\ \A a \in A(cur) : Kind(a) = "count" => work[a] <= hw'[cur][a]
        /\ \A a \in DOMAIN reads :
             /\ Kind(a) = "count" => work[a] <= reads[a] /\ reads[a] <= hw'[cur][a]
             /\ ~Due(a) => work[a] = reads[a]
  BY <1>1, <1>2, <1>3
<1>7. spoiled[cur] = {} =>
        IF first THEN \A a \in A(cur) : IF Due(a) THEN told[cur][a] = NotTold
                                        ELSE a \in DOMAIN reads => work[a] = told[cur][a]
                 ELSE work = told[cur]
  OBVIOUS
<1>8. "died" \notin spoiled[cur] => \A a \in open'[cur] : Clearing(a) => ~first /\ work[a] # Normal
  OBVIOUS
<1> QED BY <1>4, <1>5, <1>6, <1>7, <1>8

\* What happens outside: hardware, users, stops and restarts.
LEMMA StoryOutside ==
  ASSUME TypeInv, TypeInv', StoryInv, Environment \/ Restart, Next
  PROVE  StoryInv'
<1> USE DEF envVars, dbVars, passVars, history
<1>1. /\ UNCHANGED <<stored, told, observed>>
      /\ \A o \in Objects : open'[o] \subseteq open[o] /\ spoiled[o] \subseteq spoiled'[o]
  BY DEF Environment, HardwareChange, ReplaceDimm, Acknowledge, StopOrCrash, Restart, TypeInv, FunctionsInv
<1>2. \A o \in Objects : RowSeen(o)'
  BY <1>1, SeenStays, CountersGrow DEF StoryInv
<1>3. CASE Visiting' /\ Visiting
  <2>1. UNCHANGED <<cur, idx, reads, work, first, changed>> /\ spoiled' = spoiled
    BY <1>3 DEF Environment, HardwareChange, ReplaceDimm, Acknowledge, StopOrCrash, Restart, Visiting
  <2>2. cur \in Objects
    BY <1>3 DEF TypeInv, VisitType
  <2>3. VisitKept'
    <3>1. CASE "replaced" \notin spoiled[cur]
      BY <1>1, <1>3, <2>1, <2>2, <3>1, VisitStays, CountersGrow DEF StoryInv
    <3>2. CASE "replaced" \in spoiled[cur]
      BY <1>1, <1>3, <2>1, <2>2, <3>2 DEF StoryInv, VisitKept, VisitRow, VisitTold, VisitSeen, VisitAlarm, Due
    <3> QED BY <3>1, <3>2
  <2>4. ASSUME NEW o \in Objects, o # cur PROVE RowKept(o)'
    BY <1>1, <1>3, <2>4, RowStays DEF StoryInv
  <2> QED BY <1>2, <1>3, <2>1, <2>3, <2>4 DEF StoryInv
<1>4. CASE ~Visiting' /\ ~Visiting
  <2>1. \A o \in Objects : RowKept(o)'
    BY <1>1, <1>4, RowStays DEF StoryInv
  <2> QED BY <1>2, <1>4, <2>1 DEF StoryInv
<1>5. CASE StopOrCrash /\ Visiting
  <2>1. ~Visiting' /\ cur \in Objects /\ "died" \in spoiled'[cur]
    BY <1>5 DEF StopOrCrash, Visiting, TypeInv, VisitType, FunctionsInv
  <2>2. ASSUME NEW o \in Objects, o = cur PROVE RowKept(o)'
    <3>1. spoiled'[o] # {} /\ "died" \in spoiled'[o]
      BY <2>1, <2>2
    <3> QED BY <3>1 DEF RowKept
  <2>3. ASSUME NEW o \in Objects, o # cur PROVE RowKept(o)'
    BY <1>1, <1>5, <2>3, RowStays DEF StoryInv
  <2>4. \A o \in Objects : RowKept(o)'
    BY <2>2, <2>3
  <2> QED BY <1>2, <2>1, <2>4 DEF StoryInv
<1>6. (Visiting' /\ Visiting) \/ (~Visiting' /\ ~Visiting) \/ (StopOrCrash /\ Visiting)
  BY DEF Environment, HardwareChange, ReplaceDimm, Acknowledge, StopOrCrash, Restart, Visiting
<1> QED BY <1>3, <1>4, <1>5, <1>6

\* The rest of a pass keeps the story.
LEMMA StoryMovesOn ==
  ASSUME TypeInv, TypeInv', StoryInv, MovesOn
  PROVE  StoryInv'
<1>1. ~Visiting /\ ~Visiting' /\ UNCHANGED <<hw, stored, open, told, observed, spoiled>>
  BY PassMovesOn DEF dbVars, history
<1> QED BY <1>1 DEF StoryInv, RowKept, RowSeen

\* A visit begins with what the row and the log say.
LEMMA StoryBegins ==
  ASSUME TypeInv, TypeInv', StoryInv, NEW o \in Objects, VisitBegins(o)
  PROVE  StoryInv'
<1> USE DEF VisitBegins
<1>1. UNCHANGED <<hw, stored, open, told, observed, spoiled>> /\ ~Visiting /\ cur' = o /\ Visiting'
  BY DEF Visiting
<1>2. \A p \in Objects : RowKept(p) /\ RowSeen(p)
  BY <1>1 DEF StoryInv
<1>3. \A p \in Objects : RowKept(p)' /\ RowSeen(p)'
  BY <1>1, <1>2 DEF RowKept, RowSeen
<1>4. hw[o] \in [A(o) -> Int] /\ \A a \in A(o) : hw[o][a] \in Values(a)
  BY ReadingParts DEF TypeInv, ObjectType
<1>5. \A a \in A(o) : Due(a)'
  BY AllDue
<1>6. VisitKept'
  <2>1. CASE stored[o] = NoState
    <3>1. first' /\ changed' /\ work' = Zero(o) /\ \A a \in A(o) : work'[a] = 0
      BY <2>1 DEF Zero, A
    <3>2. \A a \in A(o) : Kind(a) = "count" => 0 <= hw[o][a]
      BY <1>4, AttrsOfObjects, ValuesOfNames, BoundsAssumption
    <3>3. spoiled'[o] = {} => \A a \in A(o) : told'[o][a] = NotTold
      BY <1>1, <1>2, <2>1 DEF RowKept
    <3>4. "died" \notin spoiled'[o] => \A a \in open'[o] : ~Clearing(a)
      BY <1>1, <1>2, <2>1 DEF RowKept
    <3>5. \A a \in DOMAIN reads' : a \in A(o) /\ reads'[a] = hw'[o][a] /\ hw'[o][a] \in Int
      BY <1>1, <1>4
    <3>6. \A a \in A(o) : Kind(a) = "count" => work'[a] <= hw'[o][a]
      BY <1>1, <3>1, <3>2
    <3> QED BY <1>1, <1>5, <2>1, <3>1, <3>3, <3>4, <3>5, <3>6 DEF VisitKept, VisitRow, VisitTold, VisitSeen, VisitAlarm
  <2>2. CASE stored[o] # NoState
    <3>1. ~first' /\ ~changed' /\ work' = stored[o] /\ stored'[o] = stored[o]
      BY <1>1, <2>2
    <3>2. spoiled'[o] = {} => work' = told'[o]
      BY <1>1, <1>2, <2>2, <3>1 DEF RowKept
    <3>3. "died" \notin spoiled'[o] => \A a \in open'[o] : Clearing(a) => work'[a] # Normal
      BY <1>1, <1>2, <2>2, <3>1 DEF RowKept
    <3>4. "replaced" \notin spoiled'[o] => \A a \in A(o) : Kind(a) = "count" => work'[a] <= hw'[o][a]
      BY <1>1, <1>2, <2>2, <3>1 DEF RowSeen
    <3>5. \A a \in DOMAIN reads' : a \in A(o) /\ reads'[a] = hw'[o][a] /\ hw'[o][a] \in Int
      BY <1>1, <1>4
    <3> QED BY <1>1, <1>5, <3>1, <3>2, <3>3, <3>4, <3>5 DEF VisitKept, VisitRow, VisitTold, VisitSeen, VisitAlarm
  <2> QED BY <2>1, <2>2
<1> QED BY <1>1, <1>3, <1>6 DEF StoryInv

\* An attribute is checked: record and log stay together, and an attribute
\* that was read is in the record.
LEMMA StoryChecks ==
  ASSUME TypeInv, TypeInv', StoryInv, CheckStep
  PROVE  StoryInv'
<1>1. /\ Visiting /\ Visiting' /\ Checking /\ idx' = idx + 1 /\ cur' = cur /\ reads' = reads /\ first' = first
      /\ UNCHANGED <<hw, stored, observed, spoiled>>
  BY CheckSteps DEF Visiting, Checking
<1>2. cur \in Objects /\ Attr \in A(cur) /\ Due(Attr) /\ \A a \in A(cur) : Due(a)' <=> Due(a) /\ a # Attr
  BY <1>1, Attribute
<1>3. work \in [A(cur) -> Int] /\ reads \in [DOMAIN reads -> Int] /\ DOMAIN reads \subseteq A(cur)
  BY <1>1, <1>2, ReadingParts DEF TypeInv, VisitType
<1>4. told[cur] \in [A(cur) -> Int] /\ DOMAIN told = Objects /\ DOMAIN open = Objects
  BY <1>2 DEF TypeInv, ObjectType, FunctionsInv
<1> DEFINE at == Attr
           v == reads[Attr]
<1>5. \A o \in Objects : o # cur => told'[o] = told[o] /\ open'[o] = open[o]
  BY <1>4 DEF CheckStep, SkipAttr, TakeFirst, SameReading, NewReading, Tell, Raise, Clear, dbVars, history
<1>6. \A o \in Objects : RowSeen(o)' /\ (o # cur => RowKept(o)')
  BY <1>1, <1>5 DEF StoryInv, RowSeen, RowKept
<1>7. VisitKept
  BY <1>1 DEF StoryInv
<1>8. hw[cur] \in [A(cur) -> Int]
  BY <1>2, ReadingParts DEF TypeInv, ObjectType
<1> HIDE DEF at, v
<1>v. v = reads[at] /\ at \in A(cur) /\ Due(at) /\ (at \in DOMAIN reads => v \in Int)
      /\ \A a \in A(cur) : Due(a)' <=> Due(a) /\ a # at
  BY <1>2, <1>3 DEF at, v
<1>9. ASSUME UNCHANGED <<work, told, open, changed>>, at \in DOMAIN reads => ~first,
             at \in DOMAIN reads /\ "replaced" \notin spoiled[cur] => work[at] = v
      PROVE  VisitKept'
  <2>1. VisitRow' /\ VisitAlarm'
    BY <1>1, <1>7, <1>9 DEF VisitKept, VisitRow, VisitAlarm
  <2>2. VisitTold'
    BY <1>1, <1>v, <1>7, <1>9 DEF VisitKept, VisitTold
  <2>3. VisitSeen'
    BY <1>1, <1>3, <1>v, <1>7, <1>9 DEF VisitKept, VisitSeen
  <2> QED BY <2>1, <2>2, <2>3 DEF VisitKept
<1>10. ASSUME at \in DOMAIN reads, work' = [work EXCEPT ![at] = v], changed',
              told'[cur] = [told[cur] EXCEPT ![at] = v] \/ (first /\ told[cur][at] # NotTold /\ told' = told),
              \A a \in open'[cur] : a \in open[cur] \/ (a = at /\ v # Normal),
              "died" \notin spoiled[cur] /\ at \in open'[cur] /\ Clearing(at) => ~first /\ v # Normal
       PROVE  VisitKept'
  <2>1. \A a \in A(cur) : work'[a] = IF a = at THEN v ELSE work[a]
    BY <1>3, <1>10
  <2>2. VisitRow'
    BY <1>1, <1>7, <1>10 DEF VisitKept, VisitRow
  <2>3. VisitAlarm'
    BY <1>1, <1>2, <1>7, <1>10, <2>1 DEF VisitKept, VisitAlarm, TypeInv, ObjectType
  <2>4. VisitSeen'
    <3>1. Kind(at) = "count" /\ "replaced" \notin spoiled[cur] => v <= hw[cur][at]
      BY <1>7, <1>10, <1>v DEF VisitKept, VisitSeen
    <3> QED BY <1>1, <1>3, <1>7, <1>10, <1>v, <2>1, <3>1 DEF VisitKept, VisitSeen
  <2>5. VisitTold'
    <3>1. CASE told'[cur] = [told[cur] EXCEPT ![at] = v]
      <4>1. \A a \in A(cur) : told'[cur][a] = IF a = at THEN v ELSE told[cur][a]
        BY <1>4, <3>1
      <4>2. ~first /\ spoiled[cur] = {} => work' = told'[cur]
        BY <1>7, <1>10, <3>1 DEF VisitKept, VisitTold
      <4> QED BY <1>1, <1>7, <1>v, <2>1, <4>1, <4>2 DEF VisitKept, VisitTold
    <3>2. CASE first /\ told[cur][at] # NotTold
      BY <1>1, <1>7, <1>v, <3>2 DEF VisitKept, VisitTold
    <3> QED BY <1>10, <3>1, <3>2
  <2> QED BY <2>2, <2>3, <2>4, <2>5 DEF VisitKept
<1>11. ASSUME SkipAttr PROVE VisitKept'
  BY <1>9, <1>11 DEF SkipAttr, at, v, dbVars, history
<1>12. ASSUME SameReading PROVE VisitKept'
  <2>1. UNCHANGED <<work, told, open, changed>> /\ ~first /\ at \in DOMAIN reads /\ Unchanged(v)
    BY <1>12 DEF SameReading, at, v, dbVars, history
  <2>2. CASE Kind(at) # "count"
    BY <1>9, <2>1, <2>2 DEF Unchanged, at
  <2>3. CASE Kind(at) = "count"
    <3>1. v <= work[at] /\ work[at] \in Int /\ v \in Int
      BY <1>3, <1>v, <2>1, <2>3 DEF Unchanged, at
    <3>2. "replaced" \notin spoiled[cur] => work[at] <= v
      BY <1>7, <1>v, <2>1, <2>3 DEF VisitKept, VisitSeen
    <3> QED BY <1>9, <2>1, <3>1, <3>2
  <2> QED BY <2>2, <2>3
<1>13. ASSUME TakeFirst PROVE VisitKept'
  <2>1. /\ first /\ at \in DOMAIN reads /\ work' = [work EXCEPT ![at] = v] /\ UNCHANGED <<open, changed>>
        /\ IF told[cur][at] = NotTold THEN told' = [told EXCEPT ![cur] = [told[cur] EXCEPT ![at] = v]]
                                      ELSE told' = told
    BY <1>13 DEF TakeFirst, Take, Tell, at, v, dbVars, history
  <2>2. changed
    BY <1>7, <2>1 DEF VisitKept, VisitRow
  <2>3. told'[cur] = [told[cur] EXCEPT ![at] = v] \/ (first /\ told[cur][at] # NotTold /\ told' = told)
    BY <1>2, <1>4, <2>1
  <2>4. changed'
    BY <2>1, <2>2, Zenon
  <2>5. "died" \notin spoiled[cur] /\ at \in open'[cur] => ~Clearing(at)
    BY <1>7, <2>1 DEF VisitKept, VisitAlarm
  <2> QED BY <1>10, <2>1, <2>3, <2>4, <2>5
<1>14. ASSUME NewReading PROVE VisitKept'
  <2>1. /\ ~first /\ at \in DOMAIN reads /\ work' = [work EXCEPT ![at] = v] /\ changed'
        /\ told' = [told EXCEPT ![cur] = [told[cur] EXCEPT ![at] = v]]
        /\ \/ v = Critical /\ open' = [open EXCEPT ![cur] = @ \cup {at}]
           \/ open' = [open EXCEPT ![cur] = @ \ {at}]
           \/ open' = open /\ (v = Normal => ~Clearing(at))
    BY <1>14 DEF NewReading, Take, Tell, Raise, Clear, at, v, dbVars, history, Clearing, Normal, Critical
  <2>2. told'[cur] = [told[cur] EXCEPT ![at] = v]
    BY <1>2, <1>4, <2>1
  <2>3. \A a \in open'[cur] : a \in open[cur] \/ (a = at /\ v # Normal)
    BY <1>2, <1>4, <2>1 DEF Normal, Critical
  <2>4. at \in open'[cur] /\ Clearing(at) => v # Normal
    BY <1>2, <1>4, <2>1 DEF Normal, Critical
  <2> QED BY <1>10, <2>1, <2>2, <2>3, <2>4
<1>15. VisitKept'
  BY <1>11, <1>12, <1>13, <1>14 DEF CheckStep
<1> QED BY <1>1, <1>6, <1>15 DEF StoryInv

\* The visit ends: the record becomes the row.
LEMMA StoryEnds ==
  ASSUME TypeInv, TypeInv', StoryInv, KeepState \/ DeleteState \/ AddState
  PROVE  StoryInv'
<1>1. Visiting /\ cur \in Objects /\ idx > Len(Attrs(cur)) /\ VisitKept
  BY DEF KeepState, DeleteState, AddState, Checked, TypeInv, VisitType, Visiting, StoryInv
<1>2. \A a : ~Due(a)
  BY <1>1, NothingDue
<1>3. work \in Reading(cur) /\ work \in [A(cur) -> Int] /\ NoState \notin Reading(cur)
  BY <1>1, ReadingParts, NoStateAssumption DEF TypeInv, VisitType
<1>4. reads \in [DOMAIN reads -> Int]
  BY <1>1 DEF TypeInv, VisitType
<1>5. told[cur] \in [A(cur) -> Int]
  BY <1>1 DEF TypeInv, ObjectType
<1>6. CASE DeleteState
  <2>1. /\ UNCHANGED <<hw, open, told, observed, spoiled, cur, idx, reads, work, first, changed>>
        /\ stored' = [stored EXCEPT ![cur] = NoState] /\ Visiting' /\ ~first /\ changed
    BY <1>6 DEF DeleteState, envVars, history, Visiting
  <2>2. stored'[cur] = NoState /\ \A o \in Objects : o # cur => stored'[o] = stored[o]
    BY <1>1, <2>1 DEF TypeInv, FunctionsInv
  <2>3. \A o \in Objects : RowSeen(o)' /\ (o # cur => RowKept(o)')
    BY <1>1, <2>1, <2>2 DEF StoryInv, RowSeen, RowKept
  <2>4. VisitKept'
    BY <1>1, <2>1, <2>2 DEF VisitKept, VisitRow, VisitTold, VisitSeen, VisitAlarm, Due
  <2> QED BY <2>1, <2>3, <2>4 DEF StoryInv
<1>7. CASE KeepState \/ AddState
  <2>1. /\ UNCHANGED <<hw, open, told>> /\ ~Visiting'
        /\ observed' = [observed EXCEPT ![cur] = IF DOMAIN reads = Range(Attrs(cur)) THEN reads ELSE NoState]
        /\ spoiled' = IF Unread THEN [spoiled EXCEPT ![cur] = @ \cup {"unread"}] ELSE spoiled
        /\ \/ stored' = [stored EXCEPT ![cur] = work]
           \/ stored' = stored /\ ~changed
    BY <1>7 DEF KeepState, AddState, EndVisit, NextObject, Visiting, envVars, dbVars
  <2>2. stored'[cur] = work
    BY <1>1, <2>1 DEF VisitKept, VisitRow, TypeInv, FunctionsInv
  <2>3. /\ observed'[cur] = IF DOMAIN reads = A(cur) THEN reads ELSE NoState
        /\ spoiled[cur] \subseteq spoiled'[cur]
        /\ spoiled'[cur] = {} => ~(first /\ DOMAIN reads # A(cur))
    BY <1>1, <2>1 DEF TypeInv, FunctionsInv, Unread, A
  <2>4. \A o \in Objects : o # cur => stored'[o] = stored[o] /\ observed'[o] = observed[o] /\ spoiled'[o] = spoiled[o]
    BY <1>1, <2>1 DEF TypeInv, FunctionsInv
  <2>5. \A o \in Objects : o # cur => RowKept(o)' /\ RowSeen(o)'
    BY <1>1, <2>1, <2>4 DEF StoryInv, RowSeen, RowKept
  <2>6. ASSUME NEW o \in Objects, o = cur PROVE RowKept(o)'
    <3>1. stored'[o] # NoState
      BY <1>3, <2>2, <2>6
    <3>2. spoiled'[cur] = {} => work = told[cur]
      <4>1. CASE ~first
        BY <1>1, <2>3, <4>1 DEF VisitKept, VisitTold
      <4>2. CASE first
        <5>1. spoiled'[cur] = {} => \A a \in A(cur) : work[a] = told[cur][a]
          BY <1>1, <1>2, <2>3, <4>2 DEF VisitKept, VisitTold
        <5> QED BY <1>3, <1>5, <5>1
      <4> QED BY <4>1, <4>2
    <3>3. "died" \notin spoiled'[cur] => \A a \in open[cur] : Clearing(a) => work[a] # Normal
      BY <1>1, <2>3 DEF VisitKept, VisitAlarm
    <3> QED BY <2>1, <2>2, <2>6, <3>1, <3>2, <3>3 DEF RowKept
  <2>7. ASSUME NEW o \in Objects, o = cur PROVE RowSeen(o)'
    <3>1. "replaced" \notin spoiled'[cur] => \A a \in A(cur) : Kind(a) = "count" => work[a] <= hw[cur][a]
      BY <1>1, <2>3 DEF VisitKept, VisitSeen
    <3>2. "replaced" \notin spoiled'[cur] /\ DOMAIN reads = A(cur) => work = reads
      <4>1. "replaced" \notin spoiled'[cur] => \A a \in DOMAIN reads : work[a] = reads[a]
        BY <1>1, <1>2, <2>3 DEF VisitKept, VisitSeen
      <4> QED BY <1>3, <1>4, <4>1
    <3> QED BY <2>1, <2>2, <2>3, <2>7, <3>1, <3>2 DEF RowSeen
  <2> QED BY <2>1, <2>5, <2>6, <2>7 DEF StoryInv
<1> QED BY <1>6, <1>7

\* StoryInv is inductive relative to TypeInv.
LEMMA StoryInvNext == TypeInv /\ StoryInv /\ [Next]_vars => StoryInv'
<1>1. StoryInv /\ UNCHANGED vars => StoryInv'
  BY DEF StoryInv, RowKept, RowSeen, VisitKept, VisitRow, VisitTold, VisitSeen, VisitAlarm, Due, Visiting,
     vars, envVars, dbVars, passVars, history
<1> QED BY <1>1, TypeInvNext, StepsOfMonitor, StoryOutside, StoryMovesOn, StoryBegins, StoryChecks, StoryEnds

\* StoryInv holds in the beginning.
LEMMA StoryInvInit == Init \/ NoPasses => StoryInv
<1> SUFFICES ASSUME Init \/ NoPasses PROVE StoryInv
  OBVIOUS
<1>1. ~Visiting
  BY DEF Init, NoPasses, Visiting
<1>2. ASSUME NEW o \in Objects PROVE RowKept(o) /\ RowSeen(o)
  <2>1. stored[o] = NoState /\ open[o] = {}
    BY DEF Init, NoPasses
  <2>2. told[o] = [a \in A(o) |-> NotTold]
    BY DEF Init, NoPasses, A
  <2> QED BY <2>1, <2>2 DEF RowKept, RowSeen
<1> QED BY <1>1, <1>2 DEF StoryInv

\* Between passes.
LEMMA StoryTells ==
  ASSUME StoryInv
  PROVE  RowsHonest /\ NoStaleAlarm
<1>1. Settled => ~Visiting
  BY DEF Settled, Visiting
<1>2. StoryHolds
  BY <1>1 DEF StoryInv, RowKept, StoryHolds, LogMatchesState
<1>3. FollowsHardware
  BY <1>1 DEF StoryInv, RowSeen, FollowsHardware
<1>4. NoStaleAlarm
  BY <1>1 DEF StoryInv, RowKept, NoStaleAlarm, Clearing
<1> QED BY <1>2, <1>3, <1>4 DEF RowsHonest

\* The variables of the pass keep their types.
THEOREM PassTypes == Spec => []TypeOK
<1>1. Init => TypeInv
  BY TypeInvInit
<1>2. TypeInv => TypeOK
  BY DEF TypeInv, ObjectType, VisitType, PassType, TypeOK, Visiting, A
<1> QED BY <1>1, TypeInvNext, <1>2, PTL DEF Spec

\* A behaviour of the composed specification is one of the pass, or leaves
\* its variables alone.
LEMMA PassOfMonitor == SpecAll => [](TypeInv /\ StoryInv)
<1>1. InitAll => TypeInv /\ StoryInv
  BY TypeInvInit, StoryInvInit DEF InitAll
<1>2. [NextAll]_allVars => [Next]_vars
  BY DEF NextAll, Passes, Lives, allVars
<1> QED BY <1>1, <1>2, TypeInvNext, StoryInvNext, PTL DEF SpecAll

\* However the daemon dies and is started again, hardware changes and reads
\* fail: between passes the stored rows say what the event log told, and what
\* the hardware showed the last complete visit, but for objects that were
\* being visited when the daemon died, not read whole at first, or replaced.
THEOREM RowsAreHonest == SpecAll => []RowsHonest
BY PassOfMonitor, StoryTells, PTL

\* Between passes no alarm of a temperature, a spare capacity or a namespace
\* whose stored state is normal waits for the user, unless the daemon died
\* while it visited the object.
THEOREM AlarmsAreCleared == SpecAll => []NoStaleAlarm
BY PassOfMonitor, StoryTells, PTL

-----------------------------------------------------------------------------
(* The life of the service *)

Working == {"init", "wait", "pass", "trim"}

\* Threads run between their start and the join; while they do, the
\* connection is the one the performance monitor was built with.
ServiceInv ==
  /\ conn \in Nat /\ opened \in Nat /\ conn <= opened
  /\ worker \in [D!Monitors -> Working \cup {"none", "done"}]
  /\ main \in {"event", "performance", "run", "delete", "exited"}
  /\ main \in {"event", "performance"} => worker = [m \in D!Monitors |-> "none"]
  /\ main = "performance" => "performance" \notin built
  /\ \A m \in D!Monitors : worker[m] \in Working => main = "run" /\ m \in built
  /\ main = "run" /\ "performance" \in built => perfStore # D!Closed /\ perfStore = conn

\* ServiceInv holds in the beginning.
LEMMA ServiceInvInit == D!Init => ServiceInv
BY DEF D!Init, ServiceInv, D!Closed, D!Monitors, Working

\* ServiceInv is inductive.
LEMMA ServiceInvNext == ServiceInv /\ [D!Next]_(D!vars) => ServiceInv'
<1> SUFFICES ASSUME ServiceInv, [D!Next]_(D!vars) PROVE ServiceInv'
  OBVIOUS
<1> USE DEF ServiceInv, D!Closed, D!Monitors, Working, D!stores, D!table, D!vars
<1>1. CASE D!BuildEvent
  BY <1>1 DEF D!BuildEvent, D!Opened
<1>2. CASE D!BuildPerformance
  BY <1>2 DEF D!BuildPerformance, D!Opened
<1>3. CASE D!Join
  BY <1>3 DEF D!Join
<1>4. CASE D!Delete
  BY <1>4 DEF D!Delete
<1>5. CASE D!Stop \/ D!Ended \/ UNCHANGED D!vars
  BY <1>5 DEF D!Stop, D!Ended
<1>6. CASE D!Start
  BY <1>6 DEF D!Start, D!Fresh
<1>7. CASE \E m \in D!Monitors : D!WorkerNext(m)
  BY <1>7 DEF D!WorkerNext, D!WorkerInit, D!WorkerWake, D!MoveWorker
<1>8. CASE D!EventPass
  BY <1>8 DEF D!EventPass, D!MoveWorker
<1>9. CASE D!PerformancePass
  BY <1>9 DEF D!PerformancePass, D!MoveWorker
<1>10. CASE D!Trim
  BY <1>10 DEF D!Trim, D!MoveWorker
<1> QED BY <1>1, <1>2, <1>3, <1>4, <1>5, <1>6, <1>7, <1>8, <1>9, <1>10
     DEF D!Next, D!MainNext, D!PassNext

\* Whichever monitors are enabled and in whatever order threads run, stop
\* and are deleted, the performance monitor's thread works on the connection
\* that is open.
THEOREM PerformanceStoreOpen == D!Spec => []D!StoreInUse
<1>1. ServiceInv => D!StoreInUse
  BY DEF ServiceInv, D!StoreInUse, D!Monitors, Working
<1> QED BY ServiceInvInit, ServiceInvNext, <1>1, PTL DEF D!Spec

-----------------------------------------------------------------------------
(* The performance table *)

Numbers == {DimmCount, PerfMax, TrimPercent} \subseteq Nat

\* Passes so far that may have left their rows behind, the one in progress
\* not counted.
Untrimmed == trimFails + starts - 1

\* Between passes each of those passes may have left a row per DIMM above the
\* maximum; a pass in progress has added at most one row per DIMM to that,
\* and none when it says so.
TableInv ==
  /\ rows \in Nat /\ trimFails \in Nat /\ starts \in Nat \ {0}
  /\ worker["performance"] # "trim" \/ ~added => rows <= PerfMax + DimmCount * Untrimmed
  /\ rows <= PerfMax + DimmCount * (Untrimmed + 1)

\* One more pass, one more row per DIMM.
LEMMA OneMorePass ==
  ASSUME NEW d \in Nat, NEW k \in Nat
  PROVE  d * k \in Nat /\ d * (k + 1) \in Nat /\ d * (k + 1) = d * k + d
OBVIOUS

\* A trim leaves the maximum at most.
LEMMA TrimsToMaximum ==
  ASSUME Numbers, NEW n \in Nat, n > PerfMax
  PROVE  n - D!TrimCount(n) \in 0..PerfMax
<1>1. (TrimPercent * PerfMax) \in Nat
  BY DEF Numbers
<1>2. (TrimPercent * PerfMax) \div 100 \in Nat
  BY <1>1
<1> QED BY <1>2 DEF Numbers, D!TrimCount

\* TableInv holds in the beginning.
LEMMA TableInvInit ==
  ASSUME Numbers
  PROVE  D!Init => TableInv
BY OneMorePass DEF Numbers, D!Init, TableInv, Untrimmed

\* TableInv is inductive relative to ServiceInv.
LEMMA TableInvNext ==
  ASSUME Numbers, ServiceInv, TableInv, [D!Next]_(D!vars)
  PROVE  TableInv'
<1> DEFINE Bound(k) == PerfMax + DimmCount * k
<1>1. Untrimmed \in Nat /\ Bound(Untrimmed) \in Nat /\ Bound(Untrimmed + 1) = Bound(Untrimmed) + DimmCount
  <2>1. Untrimmed \in Nat
    BY DEF TableInv, Untrimmed
  <2> QED BY <2>1, OneMorePass DEF Numbers
<1>2. CASE UNCHANGED <<rows, trimFails, starts>> /\ (worker'["performance"] # "trim" => worker["performance"] # "trim")
           /\ (worker'["performance"] = "trim" => UNCHANGED added /\ worker["performance"] = "trim")
  BY <1>2 DEF TableInv, Untrimmed
<1>3. CASE D!PerformancePass
  <2>1. PICK n \in 0..DimmCount : rows' = rows + n /\ added' = (n > 0)
    BY <1>3 DEF D!PerformancePass
  <2>2. UNCHANGED <<starts, trimFails>> /\ worker["performance"] = "pass"
    BY <1>3 DEF D!PerformancePass
  <2>3. rows <= Bound(Untrimmed) /\ Untrimmed' = Untrimmed
    BY <2>2 DEF TableInv, Untrimmed
  <2>4. DimmCount \in Nat /\ PerfMax \in Nat
    BY DEF Numbers
  <2>5. rows' \in Nat /\ rows' <= Bound(Untrimmed + 1)
    BY <1>1, <2>1, <2>3, <2>4 DEF TableInv
  <2>6. ~added' => rows' <= Bound(Untrimmed)
    <3>1. CASE n > 0
      BY <2>1, <3>1
    <3>2. CASE n = 0
      BY <2>1, <2>3, <3>2 DEF TableInv
    <3> QED BY <2>4, <3>1, <3>2
  <2>7. worker'["performance"] # "trim" => rows' <= Bound(Untrimmed)
    BY <1>3 DEF D!PerformancePass, D!MoveWorker, ServiceInv, D!Monitors
  <2> QED BY <2>2, <2>3, <2>5, <2>6, <2>7 DEF TableInv
<1>4. CASE D!Trim
  <2>1. UNCHANGED starts /\ added' = FALSE
    BY <1>4 DEF D!Trim, D!stores
  <2>2. CASE UNCHANGED <<rows, trimFails>> /\ ~(added /\ rows > PerfMax)
    <3>1. rows <= Bound(Untrimmed)
      BY <1>1, <2>2 DEF TableInv, Numbers, ServiceInv
    <3> QED BY <1>1, <2>1, <2>2, <3>1 DEF TableInv, Untrimmed, Numbers
  <2>3. CASE rows' = rows - D!TrimCount(rows) /\ UNCHANGED trimFails /\ rows > PerfMax
    <3>1. rows' \in 0..PerfMax
      BY <2>3, TrimsToMaximum DEF TableInv
    <3>2. DimmCount * Untrimmed \in Nat
      BY <1>1, OneMorePass DEF Numbers
    <3> QED BY <1>1, <2>1, <2>3, <3>1, <3>2 DEF TableInv, Untrimmed, Numbers
  <2>4. CASE trimFails' = trimFails + 1 /\ UNCHANGED rows
    <3>1. Untrimmed' = Untrimmed + 1
      BY <2>1, <2>4 DEF Untrimmed, TableInv
    <3>2. rows <= Bound(Untrimmed + 1)
      BY DEF TableInv
    <3>3. Bound(Untrimmed + 1 + 1) = Bound(Untrimmed + 1) + DimmCount /\ Bound(Untrimmed + 1) \in Nat
      BY <1>1, OneMorePass DEF Numbers
    <3> QED BY <2>1, <2>4, <3>1, <3>2, <3>3 DEF TableInv, Numbers
  <2> QED BY <1>4, <2>2, <2>3, <2>4 DEF D!Trim
<1>5. CASE D!Start
  <2>1. UNCHANGED <<rows, trimFails>> /\ starts' = starts + 1 /\ worker'["performance"] # "trim"
    BY <1>5 DEF D!Start, D!Fresh, D!Monitors
  <2>2. Untrimmed' = Untrimmed + 1
    BY <2>1 DEF Untrimmed, TableInv
  <2>3. rows <= Bound(Untrimmed + 1)
    BY DEF TableInv
  <2>4. Bound(Untrimmed + 1 + 1) = Bound(Untrimmed + 1) + DimmCount /\ Bound(Untrimmed + 1) \in Nat
    BY <1>1, OneMorePass DEF Numbers
  <2> QED BY <2>1, <2>2, <2>3, <2>4 DEF TableInv, Numbers
<1>6. CASE UNCHANGED D!vars \/ D!BuildEvent \/ D!BuildPerformance \/ D!Join \/ D!Delete \/ D!Stop
           \/ D!Ended \/ D!EventPass \/ \E m \in D!Monitors : D!WorkerNext(m)
  <2>1. UNCHANGED <<rows, trimFails, starts, added>>
    BY <1>6 DEF D!vars, D!stores, D!table, D!BuildEvent, D!BuildPerformance, D!Join, D!Delete, D!Stop,
       D!Ended, D!EventPass, D!WorkerNext, D!WorkerInit, D!WorkerWake
  <2>2. worker'["performance"] = "trim" <=> worker["performance"] = "trim"
    BY <1>6 DEF D!vars, D!BuildEvent, D!BuildPerformance, D!Join, D!Delete, D!Stop, D!Ended, D!EventPass,
       D!WorkerNext, D!WorkerInit, D!WorkerWake, D!MoveWorker, D!Monitors, ServiceInv, Working
  <2> QED BY <1>2, <2>1, <2>2
<1> QED BY <1>3, <1>4, <1>5, <1>6 DEF D!Next, D!MainNext, D!PassNext

\* The performance table outgrows its maximum by no more than one pass for
\* each delete that failed and each start of the service, for any number of
\* DIMMs, any maximum and share, and however passes, signals and deaths of
\* the service interleave.
THEOREM PerformanceTableBounded ==
  ASSUME Numbers
  PROVE  D!Spec => []D!PerfBounded
<1>1. D!Init => TableInv
  BY TableInvInit
<1>2. ServiceInv /\ TableInv /\ [D!Next]_(D!vars) => TableInv'
  BY TableInvNext
<1>3. TableInv => D!PerfBounded
  BY DEF TableInv, Untrimmed, D!PerfBounded
<1> QED BY ServiceInvInit, ServiceInvNext, <1>1, <1>2, <1>3, PTL DEF D!Spec

-----------------------------------------------------------------------------
(* The same of MCMonitor, where a behaviour is the service's life or a      *)
(* number of its passes: what the runs check, for every instance.           *)

\* A step of the composed specification is one of the service or leaves it.
LEMMA StepOfService ==
  ASSUME [NextAll]_allVars
  PROVE  part' = part /\ (part = "daemon" => [D!Next]_(D!vars))
BY DEF NextAll, Passes, Lives, allVars, daemonVars, D!vars, D!stores, D!table

\* The performance monitor uses the open connection.
THEOREM StoreIsInUse == SpecAll => []StoreInUse
<1> DEFINE Inv == part = "daemon" => ServiceInv
<1>1. InitAll => Inv
  BY ServiceInvInit DEF InitAll
<1>2. Inv /\ [NextAll]_allVars => Inv'
  BY StepOfService, ServiceInvNext
<1>3. Inv => StoreInUse
  BY DEF ServiceInv, StoreInUse, D!StoreInUse, D!Monitors, Working
<1> QED BY <1>1, <1>2, <1>3, PTL DEF SpecAll

\* The performance table stays near its maximum.
THEOREM PerfIsBounded ==
  ASSUME Numbers
  PROVE  SpecAll => []PerfBounded
<1> DEFINE Inv == part = "daemon" => ServiceInv /\ TableInv
<1>1. InitAll => Inv
  BY ServiceInvInit, TableInvInit DEF InitAll
<1>2. Inv /\ [NextAll]_allVars => Inv'
  BY StepOfService, ServiceInvNext, TableInvNext
<1>3. Inv => PerfBounded
  BY DEF TableInv, Untrimmed, PerfBounded, D!PerfBounded
<1> QED BY <1>1, <1>2, <1>3, PTL DEF SpecAll
===============================================================================
