------------------------- MODULE Provisioning_proofs -------------------------
(***************************************************************************)
(* Proofs about the two parts of MCProvisioning: the calls for goals of    *)
(* several DIMMs (GoalCalls, G! here), then the calls for namespaces.  Its *)
(* SpecAll is the specification, and a step of one part leaves the other   *)
(* alone.  They hold for any clients, DIMMs, sockets, sets, sizes,         *)
(* requests, calls and faults.                                             *)
(*                                                                         *)
(* Goals: first what each action does, in terms of the call of its client  *)
(* and of the goal of a DIMM; then one section for each part of the        *)
(* invariant GoalInv; then the theorems.                                   *)
(*                                                                         *)
(* Namespaces: first sizes, and what is free as a function of the          *)
(* namespaces; that no place is taken more of than there is when a         *)
(* namespace is put or dropped; the invariant NsInv, with what a call next *)
(* to which there is no other knows of the namespaces; one lemma per       *)
(* action; then the theorems.                                              *)
(***************************************************************************)
EXTENDS MCProvisioning, SetLemmas

Kinds == {"idle", "create", "allocate", "delete", "remove", "export", "import"}
Pcs == {"idle", "check", "prompt", "write", "remove", "dump", "load", "told"}
Answers == {"none", "failed", "partial", "done", "unchanged"}
GoalType == [by : SUBSET Clients, set : SUBSET Dimms, status : {"none", "new", "applied", "bad"}]
LineType == [dimm : Nat, set : SUBSET Dimms, size : {0, 1, 2}]
CallType ==
  [kind : Kinds, dimms : SUBSET Dimms, prompt : BOOLEAN, plan : SUBSET (SUBSET Dimms), todo : SUBSET Dimms,
   sets : [Dimms -> SUBSET Dimms], wrote : SUBSET Dimms, whole : BOOLEAN, alone : BOOLEAN,
   pc : Pcs, answer : Answers]

GoalTypes ==
  /\ goal \in [Dimms -> GoalType] /\ config \in [Dimms -> SUBSET Dimms]
  /\ size \in [Dimms -> {1, 2}] /\ new \in SUBSET Dimms
  /\ file \in Seq(LineType)
  /\ goalCall \in [Clients -> CallType]
  /\ goalUsed \in [calls : Nat, faults : Nat, changes : Nat]

Pc(u) == goalCall[u].pc
Kind(u) == goalCall[u].kind

\* Where a call is goes with its kind, and its requests with where it is.
KindOK(u) ==
  /\ Pc(u) \in {"check", "prompt", "write"} => Kind(u) \in {"create", "allocate"}
  /\ Pc(u) = "load" => Kind(u) = "import"
  /\ Pc(u) = "dump" => Kind(u) = "export"
  /\ Pc(u) = "remove" => Kind(u) \in {"delete", "remove", "import"}
PlanOK(u) == {} \notin goalCall[u].plan /\ (Pc(u) = "check" => goalCall[u].plan # {})
PlanInv == \A u \in Clients : PlanOK(u)
KindsInv == \A u \in Clients : KindOK(u)

\* A set lies within a socket.
InSocket(d, set) == set \subseteq G!SocketDimms(SocketOf[d])
SocketsInv ==
  /\ \A d \in Dimms : InSocket(d, goal[d].set) /\ InSocket(d, config[d])
  /\ \A k \in DOMAIN file : file[k].dimm \in Dimms => InSocket(file[k].dimm, file[k].set)
  /\ \A d \in new : size[d] = 1

AloneInv ==
  \A u \in Clients : Pc(u) # "idle" /\ goalCall[u].alone => \A w \in Clients \ {u} : Pc(w) = "idle"

\* A request over one socket, and what a call k that wrote the goals of M
\* leaves behind, after f failures.
Mine(u) == {d \in Dimms : u \in goal[d].by}
One(k) == k.kind = "create" \/ (k.kind = "allocate" /\ Cardinality(G!SocketsOf(k.dimms)) = 1)
Left(k, M, f) ==
  /\ k.pc = "idle" => M = {}
  /\ k.pc \in {"load", "remove"} => k.todo \subseteq k.dimms
  /\ One(k) =>
       /\ k.pc = "check" => M = {} /\ \E D \in SUBSET Dimms : k.plan = {D}
       /\ k.pc \in {"prompt", "write"} => k.plan = {} /\ M \subseteq k.wrote
       /\ k.pc = "told" /\ k.answer = "failed" => M = {}
  /\ k.kind = "import" /\ f = 0 =>
       /\ k.pc = "load" => M \subseteq k.dimms
       /\ k.pc = "remove" => M \subseteq k.todo
       /\ k.pc = "told" /\ k.answer = "failed" => M = {}
LeavesInv == \A u \in Clients : Left(goalCall[u], Mine(u), goalUsed.faults)

\* The file f has the lines of the DIMMs of X, configured as c and s say; an
\* undisturbed export k of a machine whose first DIMM is configured has
\* written those of the DIMMs behind it.
LinesFor(X, c, s) == {G!LineFor(d, c[d], s[d]) : d \in {o \in X : c[o] # {}}}
Holds(f, X, c, s) == G!InOrder(f) /\ {f[j] : j \in DOMAIN f} = LinesFor(X, c, s)
Exported(k, f, c, s) ==
  k.kind = "export" /\ k.alone /\ c[Min(Dimms)] # {} =>
    /\ k.pc = "dump" =>
         /\ \A x \in Dimms \ k.todo, y \in k.todo : x < y
         /\ k.todo # Dimms => Holds(f, Dimms \ k.todo, c, s)
    /\ k.pc = "told" /\ k.answer = "done" => Holds(f, Dimms, c, s)
ExportInv == \A u \in Clients : Exported(goalCall[u], file, config, size)

\* The DIMMs on the sockets of D.
Within(D) == {d \in Dimms : SocketOf[d] \in G!SocketsOf(D)}

\* With the goals g: new goals, sets that have them on all their DIMMs, and
\* how far an undisturbed call k that found only such sets has come with
\* removing, writing or loading goals.
New(g, d) == g[d].status = "new"
WholeAt(g, d) == \A o \in g[d].set : New(g, o) /\ g[o].set = g[d].set
AllWhole(g) == \A d \in Dimms : New(g, d) => WholeAt(g, d)
Removing(k, g) ==
  /\ \A d \in Within(k.dimms) : New(g, d) => d \in k.todo
  /\ \A d \in Dimms \ Within(k.dimms) : New(g, d) => WholeAt(g, d)
Writing(k, g) ==
  /\ \A d \in k.wrote : New(g, d) /\ g[d].set = k.sets[d]
  /\ \A d \in k.todo \ k.wrote : ~New(g, d)
  /\ \A d \in Dimms \ (k.todo \cup k.wrote) :
       New(g, d) => WholeAt(g, d) /\ g[d].set \cap (k.todo \cup k.wrote) = {}
  /\ \A d \in k.todo \cup k.wrote :
       k.sets[d] \subseteq k.todo \cup k.wrote /\ \A o \in k.sets[d] : k.sets[o] = k.sets[d]
Loading(k, g, f) ==
  /\ \A d \in k.dimms \ k.todo :
       New(g, d) /\ \E j \in DOMAIN f : f[j].dimm = d /\ g[d].set = f[j].set
  /\ \A d \in Dimms \ Within(k.dimms) : New(g, d) => WholeAt(g, d)
  /\ Within(k.dimms) \subseteq k.dimms

\* The lines of f name a set alike, and the DIMMs k loads have not shrunk.
Agree(f) == \A i, j \in DOMAIN f : f[j].dimm \in f[i].set => f[j].set = f[i].set
Fits(k, s) == \A d \in k.dimms : s[d] = 2
WholeCall(k, g, f, s) ==
  k.pc # "idle" /\ k.alone /\ k.whole =>
    /\ k.kind \in {"create", "allocate"} =>
         /\ k.pc = "check" => AllWhole(g)
         /\ k.pc \in {"prompt", "write"} => Writing(k, g)
         /\ k.pc = "told" /\ k.answer = "done" => AllWhole(g)
    /\ k.kind \in {"delete", "remove"} =>
         /\ k.pc = "remove" /\ k.answer = "none" => Removing(k, g)
         /\ k.pc = "remove" => k.answer \in {"none", "failed"}
         /\ k.pc = "told" /\ k.answer = "done" => AllWhole(g)
    /\ k.kind = "import" /\ Agree(f) /\ Fits(k, s) =>
         /\ k.pc = "load" => Loading(k, g, f)
         /\ k.pc = "told" /\ k.answer = "done" => AllWhole(g)
    /\ k.kind \in {"export", "idle"} => AllWhole(g)
WholeInv == \A u \in Clients : WholeCall(goalCall[u], goal, file, size)

-----------------------------------------------------------------------------
(* How a call moves *)

\* The others stay where they are, and u goes on with its call.
Stays(u) ==
  /\ goalCall' \in [Clients -> CallType]
  /\ \A w \in Clients \ {u} : goalCall'[w] = goalCall[w]
  /\ goalCall'[u].kind = goalCall[u].kind /\ goalCall'[u].dimms = goalCall[u].dimms
  /\ goalCall'[u].whole = goalCall[u].whole /\ goalCall'[u].alone = goalCall[u].alone

LEMMA FirstIsLeast ==
  ASSUME GoalTypes, NEW u \in Clients, goalCall[u].todo # {}
  PROVE  /\ G!First(u) \in goalCall[u].todo /\ G!First(u) \in Dimms
         /\ \A y \in goalCall[u].todo : G!First(u) <= y
<1> DEFINE S == goalCall[u].todo
<1>1. S \in SUBSET Dimms /\ S \subseteq Nat /\ S # {}
  BY DimmsAssumption DEF GoalTypes, CallType
<1>2. Min(S) \in S /\ \A y \in S : Min(S) <= y
  BY <1>1, MinIsLeast
<1>3. G!First(u) = Min(S)
  BY Zenon DEF G!First, G!Min, Min
<1> QED BY <1>1, <1>2, <1>3

LEMMA StaysWith ==
  ASSUME GoalTypes, NEW u \in Clients, NEW r \in CallType, goalCall' = [goalCall EXCEPT ![u] = r],
         r.kind = goalCall[u].kind, r.dimms = goalCall[u].dimms, r.whole = goalCall[u].whole,
         r.alone = goalCall[u].alone
  PROVE  Stays(u) /\ goalCall'[u] = r
BY DEF Stays, GoalTypes

LEMMA ToldIs ==
  ASSUME GoalTypes, NEW u \in Clients, NEW x \in Answers, goalCall' = G!Told(u, x)
  PROVE  /\ Stays(u)
         /\ goalCall'[u].pc = "told" /\ goalCall'[u].answer = x
         /\ goalCall'[u].plan = {} /\ goalCall'[u].todo = {} /\ goalCall'[u].wrote = {}
<1> DEFINE r == [goalCall[u] EXCEPT !.answer = x, !.pc = "told", !.plan = {}, !.todo = {},
                               !.sets = G!NoSets, !.wrote = {}, !.prompt = FALSE]
<1>1. goalCall' = [goalCall EXCEPT ![u] = r]
  BY DEF G!Told
<1>2. goalCall[u] \in CallType
  BY DEF GoalTypes
<1>3. r \in CallType
  BY <1>2 DEF CallType, Pcs, G!NoSets
<1>4. r.kind = goalCall[u].kind /\ r.dimms = goalCall[u].dimms /\ r.whole = goalCall[u].whole
      /\ r.alone = goalCall[u].alone /\ r.pc = "told" /\ r.answer = x /\ r.plan = {} /\ r.todo = {} /\ r.wrote = {}
  BY <1>2 DEF CallType
<1> HIDE DEF r
<1> QED BY <1>1, <1>3, <1>4, StaysWith

LEMMA PcIs ==
  ASSUME GoalTypes, NEW u \in Clients, NEW x \in Pcs, goalCall' = [goalCall EXCEPT ![u].pc = x]
  PROVE  /\ Stays(u)
         /\ goalCall'[u] = [goalCall[u] EXCEPT !.pc = x]
<1> DEFINE r == [goalCall[u] EXCEPT !.pc = x]
<1>1. goalCall' = [goalCall EXCEPT ![u] = r]
  OBVIOUS
<1>2. goalCall[u] \in CallType
  BY DEF GoalTypes
<1>3. r \in CallType
  BY <1>2 DEF CallType
<1>4. r.kind = goalCall[u].kind /\ r.dimms = goalCall[u].dimms /\ r.whole = goalCall[u].whole
      /\ r.alone = goalCall[u].alone
  BY <1>2 DEF CallType
<1>5. Stays(u) /\ goalCall'[u] = r
  <2> HIDE DEF r
  <2> QED BY <1>1, <1>3, <1>4, StaysWith
<1> QED BY <1>5

LEMMA DoneIs ==
  ASSUME GoalTypes, NEW u \in Clients, goalCall' = G!Done(u)
  PROVE  Stays(u) /\ goalCall'[u] = [goalCall[u] EXCEPT !.todo = @ \ {G!First(u)}]
<1> DEFINE r == [goalCall[u] EXCEPT !.todo = @ \ {G!First(u)}]
<1>1. goalCall' = [goalCall EXCEPT ![u] = r]
  BY DEF G!Done
<1>2. goalCall[u] \in CallType
  BY DEF GoalTypes
<1>3. r \in CallType
  BY <1>2 DEF CallType
<1>4. r.kind = goalCall[u].kind /\ r.dimms = goalCall[u].dimms /\ r.whole = goalCall[u].whole
      /\ r.alone = goalCall[u].alone
  BY <1>2 DEF CallType
<1>5. Stays(u) /\ goalCall'[u] = r
  <2> HIDE DEF r
  <2> QED BY <1>1, <1>3, <1>4, StaysWith
<1> QED BY <1>5

LEMMA DoneFailedIs ==
  ASSUME GoalTypes, NEW u \in Clients, goalCall' = [G!Done(u) EXCEPT ![u].answer = "failed"]
  PROVE  /\ Stays(u)
         /\ goalCall'[u] = [goalCall[u] EXCEPT !.todo = @ \ {G!First(u)}, !.answer = "failed"]
<1> DEFINE r == [goalCall[u] EXCEPT !.todo = @ \ {G!First(u)}, !.answer = "failed"]
<1>1. goalCall' = [goalCall EXCEPT ![u] = r]
  BY DEF G!Done, GoalTypes
<1>2. goalCall[u] \in CallType
  BY DEF GoalTypes
<1>3. r \in CallType
  BY <1>2 DEF CallType, Answers
<1>4. r.kind = goalCall[u].kind /\ r.dimms = goalCall[u].dimms /\ r.whole = goalCall[u].whole
      /\ r.alone = goalCall[u].alone
  BY <1>2 DEF CallType
<1>5. Stays(u) /\ goalCall'[u] = r
  <2> HIDE DEF r
  <2> QED BY <1>1, <1>3, <1>4, StaysWith
<1> QED BY <1>5

LEMMA WroteIs ==
  ASSUME GoalTypes, NEW u \in Clients, goalCall[u].todo # {}, goalCall' = G!Wrote(u)
  PROVE  /\ Stays(u)
         /\ goalCall'[u] = [goalCall[u] EXCEPT !.todo = @ \ {G!First(u)}, !.wrote = @ \cup {G!First(u)}]
<1> DEFINE r == [goalCall[u] EXCEPT !.todo = @ \ {G!First(u)}, !.wrote = @ \cup {G!First(u)}]
<1>0. G!First(u) \in Dimms
  BY FirstIsLeast
<1>1. goalCall' = [goalCall EXCEPT ![u] = r]
  BY DEF G!Wrote, G!Done, GoalTypes
<1>2. goalCall[u] \in CallType
  BY DEF GoalTypes
<1>3. r \in CallType
  BY <1>0, <1>2 DEF CallType
<1>4. r.kind = goalCall[u].kind /\ r.dimms = goalCall[u].dimms /\ r.whole = goalCall[u].whole
      /\ r.alone = goalCall[u].alone
  BY <1>2 DEF CallType
<1>5. Stays(u) /\ goalCall'[u] = r
  <2> HIDE DEF r
  <2> QED BY <1>1, <1>3, <1>4, StaysWith
<1> QED BY <1>5

LEMMA RevertIs ==
  ASSUME GoalTypes, NEW u \in Clients,
         goalCall' = [goalCall EXCEPT ![u].todo = goalCall[u].dimms, ![u].pc = "remove"]
  PROVE  /\ Stays(u)
         /\ goalCall'[u] = [goalCall[u] EXCEPT !.todo = goalCall[u].dimms, !.pc = "remove"]
<1> DEFINE r == [goalCall[u] EXCEPT !.todo = goalCall[u].dimms, !.pc = "remove"]
<1>1. goalCall' = [goalCall EXCEPT ![u] = r]
  BY DEF GoalTypes
<1>2. goalCall[u] \in CallType
  BY DEF GoalTypes
<1>3. r \in CallType
  BY <1>2 DEF CallType, Pcs
<1>4. r.kind = goalCall[u].kind /\ r.dimms = goalCall[u].dimms /\ r.whole = goalCall[u].whole
      /\ r.alone = goalCall[u].alone
  BY <1>2 DEF CallType
<1>5. Stays(u) /\ goalCall'[u] = r
  <2> HIDE DEF r
  <2> QED BY <1>1, <1>3, <1>4, StaysWith
<1> QED BY <1>5

LEMMA LaidOutIs ==
  ASSUME GoalTypes, NEW u \in Clients, NEW D \in SUBSET Dimms, NEW f \in [Dimms -> SUBSET Dimms],
         NEW x \in {"prompt", "write"},
         goalCall' = [goalCall EXCEPT ![u].plan = @ \ {D}, ![u].todo = D, ![u].sets = f,
                                      ![u].wrote = {}, ![u].pc = x]
  PROVE  /\ Stays(u)
         /\ goalCall'[u].pc = x /\ goalCall'[u].plan = goalCall[u].plan \ {D} /\ goalCall'[u].todo = D
         /\ goalCall'[u].sets = f /\ goalCall'[u].wrote = {}
<1> DEFINE r == [goalCall[u] EXCEPT !.plan = @ \ {D}, !.todo = D, !.sets = f, !.wrote = {}, !.pc = x]
<1>1. goalCall' = [goalCall EXCEPT ![u] = r]
  BY DEF GoalTypes
<1>2. goalCall[u] \in CallType
  BY DEF GoalTypes
<1>3. r \in CallType
  BY <1>2 DEF CallType, Pcs
<1>4. r.kind = goalCall[u].kind /\ r.dimms = goalCall[u].dimms /\ r.whole = goalCall[u].whole
      /\ r.alone = goalCall[u].alone
  BY <1>2 DEF CallType
<1>5. Stays(u) /\ goalCall'[u] = r
  <2> HIDE DEF r
  <2> QED BY <1>1, <1>3, <1>4, StaysWith
<1>7. r.pc = x /\ r.plan = goalCall[u].plan \ {D} /\ r.todo = D /\ r.sets = f /\ r.wrote = {}
  BY <1>2 DEF CallType
<1> QED BY <1>5, <1>7

\* A call that begins ends the solitude of the others.
Begins(u, started) ==
  /\ goalCall[u].pc = "idle"
  /\ goalCall' \in [Clients -> CallType]
  /\ \A w \in Clients \ {u} : goalCall'[w] = [goalCall[w] EXCEPT !.alone = FALSE]
  /\ goalCall'[u] = [started EXCEPT !.whole = G!WholeSets, !.alone = \A o \in Clients : goalCall[o].pc = "idle"]
  /\ UNCHANGED <<goal, file, config, use, size, new>>
  /\ goalUsed' = [goalUsed EXCEPT !.calls = @ + 1]

LEMMA BeginIs ==
  ASSUME GoalTypes, NEW u \in Clients, NEW started \in CallType, G!Begin(u, started)
  PROVE  Begins(u, started)
<1> DEFINE alone == \A o \in Clients : goalCall[o].pc = "idle"
           r == [started EXCEPT !.whole = G!WholeSets, !.alone = alone]
<1>1. alone \in BOOLEAN /\ G!WholeSets \in BOOLEAN
  BY DEF G!WholeSets
<1>2. r \in CallType
  <2> HIDE DEF alone
  <2> QED BY <1>1 DEF CallType
<1>3. \A w \in Clients : [goalCall[w] EXCEPT !.alone = FALSE] \in CallType
  BY DEF CallType, GoalTypes
<1>4. goalCall' = [o \in Clients |-> IF o = u THEN r ELSE [goalCall[o] EXCEPT !.alone = FALSE]]
  BY Zenon DEF G!Begin
<1>5. goalCall[u].pc = "idle" /\ goalUsed' = [goalUsed EXCEPT !.calls = @ + 1]
      /\ UNCHANGED <<goal, file, config, use, size, new>>
  BY Zenon DEF G!Begin, G!machine
<1>6. goalCall' \in [Clients -> CallType] /\ goalCall'[u] = r
      /\ \A w \in Clients \ {u} : goalCall'[w] = [goalCall[w] EXCEPT !.alone = FALSE]
  <2> HIDE DEF r
  <2> QED BY <1>2, <1>3, <1>4
<1> QED BY Zenon, <1>5, <1>6 DEF Begins

-----------------------------------------------------------------------------
(* What the steps do *)

\* The answer is x.
ToldTo(u, x) ==
  /\ Stays(u) /\ goalCall'[u].pc = "told" /\ goalCall'[u].answer = x
  /\ goalCall'[u].plan = {} /\ goalCall'[u].todo = {} /\ goalCall'[u].wrote = {}

\* The call goes on at x, with what it has.
GoesTo(u, x) == Stays(u) /\ goalCall'[u] = [goalCall[u] EXCEPT !.pc = x]

\* The first DIMM is done with.
Drops(u) == Stays(u) /\ goalCall'[u] = [goalCall[u] EXCEPT !.todo = @ \ {G!First(u)}]
DropsWritten(u) ==
  /\ Stays(u)
  /\ goalCall'[u] = [goalCall[u] EXCEPT !.todo = @ \ {G!First(u)}, !.wrote = @ \cup {G!First(u)}]

\* Nothing but the calls and the number of failures is touched.
FaultsGrow == goalUsed'.faults >= goalUsed.faults
Nowhere == UNCHANGED <<goal, file, config, size, new>> /\ FaultsGrow

LEMMA FaultIs ==
  ASSUME GoalTypes, G!Fault \/ UNCHANGED goalUsed
  PROVE  /\ goalUsed' \in [calls : Nat, faults : Nat, changes : Nat] /\ FaultsGrow
         /\ G!Fault => goalUsed'.faults # 0
<1>1. goalUsed \in [calls : Nat, faults : Nat, changes : Nat]
  BY DEF GoalTypes
<1>2. CASE UNCHANGED goalUsed /\ ~G!Fault
  BY <1>1, <1>2 DEF FaultsGrow
<1>3. CASE G!Fault
  <2>1. goalUsed' = [goalUsed EXCEPT !.faults = @ + 1]
    BY <1>3 DEF G!Fault
  <2> QED BY <1>1, <2>1 DEF FaultsGrow
<1> QED BY <1>2, <1>3

\* The request that comes next is one of the plan.
LEMMA FirstRequestIs ==
  ASSUME NEW plan \in SUBSET (SUBSET Dimms), plan # {}, {} \notin plan
  PROVE  G!FirstRequest(plan) \in plan
<1> DEFINE m(D) == Min(G!SocketsOf(D))
           M == {m(D) : D \in plan}
<1>1. ASSUME NEW D \in plan PROVE m(D) \in Nat /\ G!Min(G!SocketsOf(D)) = m(D)
  <2>0. D \in SUBSET Dimms /\ D # {}
    OBVIOUS
  <2>1. G!SocketsOf(D) \in SUBSET Nat /\ G!SocketsOf(D) # {}
    <3>1. \A d \in D : SocketOf[d] \in Nat
      BY <2>0, DimmsAssumption
    <3> QED BY <2>0, <3>1 DEF G!SocketsOf
  <2>2. m(D) \in Nat
    BY <2>1, MinIsLeast
  <2>3. G!Min(G!SocketsOf(D)) = m(D)
    BY Zenon DEF G!Min, Min
  <2> QED BY <2>2, <2>3
<1>2. M \in SUBSET Nat /\ M # {}
  <2> HIDE DEF m
  <2> QED BY <1>1
<1>3. Min(M) \in M /\ \A y \in M : Min(M) <= y
  <2> HIDE DEF M
  <2> QED BY <1>2, MinIsLeast
<1>4. PICK D \in plan : m(D) = Min(M)
  BY <1>3
<1>5. \A F \in plan : G!Min(G!SocketsOf(D)) <= G!Min(G!SocketsOf(F))
  <2> HIDE DEF m
  <2> QED BY <1>1, <1>3, <1>4
<1> QED BY Zenon, <1>5 DEF G!FirstRequest

LaysOut(u) ==
  /\ Kind(u) \in {"create", "allocate"} /\ Pc(u) = "check" /\ Nowhere
  /\ \/ ToldTo(u, "failed")
     \/ \E D \in goalCall[u].plan, f \in [Dimms -> SUBSET Dimms], x \in {"prompt", "write"} :
          /\ G!MayLayOut(D) /\ f \in G!Layouts(D)
          /\ Stays(u)
          /\ goalCall'[u].pc = x /\ goalCall'[u].plan = goalCall[u].plan \ {D} /\ goalCall'[u].todo = D
          /\ goalCall'[u].sets = f /\ goalCall'[u].wrote = {}

LEMMA LayOutIs ==
  ASSUME GoalTypes, PlanInv, NEW u \in Clients, G!LayOut(u)
  PROVE  GoalTypes' /\ LaysOut(u)
<1> DEFINE D == G!FirstRequest(goalCall[u].plan)
<1>1. Kind(u) \in {"create", "allocate"} /\ Pc(u) = "check"
      /\ UNCHANGED <<goal, file, config, use, size, new>> /\ (G!Fault \/ UNCHANGED goalUsed)
  BY DEF G!LayOut, G!At, G!machine, Kind, Pc
<1>2. Nowhere /\ goalUsed' \in [calls : Nat, faults : Nat, changes : Nat]
  BY <1>1, FaultIs DEF Nowhere
<1>3. D \in goalCall[u].plan /\ D \in SUBSET Dimms
  <2>1. goalCall[u].plan \in SUBSET (SUBSET Dimms)
    BY DEF GoalTypes, CallType
  <2> QED BY <2>1, <1>1, FirstRequestIs DEF PlanInv, PlanOK
<1> HIDE DEF D
<1>4. CASE goalCall' = G!Told(u, "failed")
  <2>1. ToldTo(u, "failed")
    BY <1>4, ToldIs DEF ToldTo, Answers
  <2> QED BY <1>1, <1>2, <2>1 DEF LaysOut, GoalTypes, ToldTo, Stays
<1>5. ASSUME NEW f \in G!Layouts(D), G!MayLayOut(D),
             goalCall' = [goalCall EXCEPT ![u].plan = @ \ {D}, ![u].todo = D, ![u].sets = f,
                           ![u].wrote = {}, ![u].pc = IF goalCall[u].prompt THEN "prompt" ELSE "write"]
      PROVE GoalTypes' /\ LaysOut(u)
  <2>1. f \in [Dimms -> SUBSET Dimms]
    BY <1>3 DEF G!Layouts
  <2>2. PICK x \in {"prompt", "write"} : x = IF goalCall[u].prompt THEN "prompt" ELSE "write"
    OBVIOUS
  <2>3. goalCall' = [goalCall EXCEPT ![u].plan = @ \ {D}, ![u].todo = D, ![u].sets = f,
                           ![u].wrote = {}, ![u].pc = x]
    BY <1>5, <2>2
  <2>4. /\ Stays(u)
        /\ goalCall'[u].pc = x /\ goalCall'[u].plan = goalCall[u].plan \ {D} /\ goalCall'[u].todo = D
        /\ goalCall'[u].sets = f /\ goalCall'[u].wrote = {}
    <3>1. D \in SUBSET Dimms
      BY <1>3
    <3> QED BY ZenonT(30), <2>1, <2>3, <3>1, LaidOutIs
  <2>5. LaysOut(u)
    BY <1>1, <1>2, <1>3, <1>5, <2>1, <2>4 DEF LaysOut
  <2> QED BY <1>1, <1>2, <2>4, <2>5 DEF GoalTypes, Stays
<1>6. goalCall' = G!Told(u, "failed") \/ (G!MayLayOut(D) /\ \E f \in G!Layouts(D) :
             goalCall' = [goalCall EXCEPT ![u].plan = @ \ {D}, ![u].todo = D, ![u].sets = f,
                           ![u].wrote = {}, ![u].pc = IF goalCall[u].prompt THEN "prompt" ELSE "write"])
  BY DEF G!LayOut, D
<1> QED BY <1>4, <1>5, <1>6

\* The user agrees, or does not.
Confirms(u) ==
  /\ Kind(u) = "create" /\ Pc(u) = "prompt" /\ Nowhere
  /\ GoesTo(u, "write") \/ ToldTo(u, "unchanged")

LEMMA ConfirmIs ==
  ASSUME GoalTypes, NEW u \in Clients, G!Confirm(u)
  PROVE  GoalTypes' /\ Confirms(u)
<1>1. Kind(u) = "create" /\ Pc(u) = "prompt" /\ UNCHANGED <<goal, file, config, use, size, new, goalUsed>>
  BY DEF G!Confirm, G!At, G!machine, Kind, Pc
<1>2. Nowhere /\ goalUsed' \in [calls : Nat, faults : Nat, changes : Nat]
  BY <1>1, FaultIs DEF Nowhere
<1>3. GoesTo(u, "write") \/ ToldTo(u, "unchanged")
  BY PcIs, ToldIs DEF G!Confirm, GoesTo, ToldTo, Answers, Pcs
<1> QED BY <1>1, <1>2, <1>3 DEF Confirms, GoalTypes, GoesTo, ToldTo, Stays

LEMMA WrittenGoal ==
  ASSUME GoalTypes, NEW u \in Clients, NEW d \in Dimms, NEW set \in SUBSET Dimms,
         goal' = [goal EXCEPT ![d] = G!NewGoal(u, set)]
  PROVE  /\ goal' \in [Dimms -> GoalType]
         /\ goal'[d] = [by |-> {u}, set |-> set, status |-> "new"]
         /\ \A e \in Dimms \ {d} : goal'[e] = goal[e]
<1>1. G!NewGoal(u, set) \in GoalType
  BY DEF G!NewGoal, GoalType
<1> QED BY <1>1 DEF GoalTypes, G!NewGoal

\* DIMM d gets its goal, and no other one changes.
GetsGoal(u, d, set) ==
  /\ goal'[d] = [by |-> {u}, set |-> set, status |-> "new"]
  /\ \A e \in Dimms \ {d} : goal'[e] = goal[e]
LosesGoal(d) ==
  /\ goal'[d] = G!NoGoal
  /\ \A e \in Dimms \ {d} : goal'[e] = goal[e]

\* The goal of the next DIMM is written, or the call fails.
WritesGoal(u) ==
  /\ Kind(u) \in {"create", "allocate"} /\ Pc(u) = "write" /\ goalCall[u].todo # {}
  /\ UNCHANGED <<file, config, size, new>> /\ FaultsGrow
  /\ \/ GetsGoal(u, G!First(u), goalCall[u].sets[G!First(u)]) /\ DropsWritten(u)
     \/ ToldTo(u, G!FailedAnswer(goalCall[u].wrote)) /\ UNCHANGED goal

LEMMA WriteGoalIs ==
  ASSUME GoalTypes, NEW u \in Clients, G!WriteGoal(u)
  PROVE  GoalTypes' /\ WritesGoal(u)
<1> DEFINE d == G!First(u)
           set == goalCall[u].sets[d]
<1>1. Kind(u) \in {"create", "allocate"} /\ Pc(u) = "write" /\ goalCall[u].todo # {}
      /\ UNCHANGED <<file, config, use, size, new>> /\ (G!Fault \/ UNCHANGED goalUsed)
  BY DEF G!WriteGoal, G!At, G!machine, Kind, Pc
<1>2. FaultsGrow /\ goalUsed' \in [calls : Nat, faults : Nat, changes : Nat]
  BY <1>1, FaultIs
<1>3. d \in Dimms /\ set \in SUBSET Dimms
  BY <1>1, FirstIsLeast DEF GoalTypes, CallType
<1>4. CASE goal' = [goal EXCEPT ![d] = G!NewGoal(u, set)] /\ goalCall' = G!Wrote(u)
  <2>1. goal' \in [Dimms -> GoalType] /\ GetsGoal(u, d, set)
    <3> HIDE DEF d, set
    <3> QED BY <1>3, <1>4, WrittenGoal DEF GetsGoal
  <2>2. DropsWritten(u)
    BY <1>1, <1>4, WroteIs DEF DropsWritten
  <2>3. WritesGoal(u)
    BY <1>1, <1>2, <2>1, <2>2 DEF WritesGoal
  <2> QED BY <1>1, <1>2, <2>1, <2>2, <2>3 DEF GoalTypes, DropsWritten, Stays
<1>5. CASE goalCall' = G!Told(u, G!FailedAnswer(goalCall[u].wrote)) /\ UNCHANGED goal
  <2>1. G!FailedAnswer(goalCall[u].wrote) \in Answers
    BY DEF G!FailedAnswer, Answers
  <2>2. ToldTo(u, G!FailedAnswer(goalCall[u].wrote))
    <3> QED BY <1>5, <2>1, ToldIs DEF ToldTo
  <2>3. WritesGoal(u)
    BY <1>1, <1>2, <1>5, <2>2 DEF WritesGoal
  <2> QED BY <1>1, <1>2, <1>5, <2>2, <2>3 DEF GoalTypes, ToldTo, Stays
<1>6. \/ goal' = [goal EXCEPT ![d] = G!NewGoal(u, set)] /\ goalCall' = G!Wrote(u)
      \/ goalCall' = G!Told(u, G!FailedAnswer(goalCall[u].wrote)) /\ UNCHANGED goal
  BY DEF G!WriteGoal
<1> QED BY <1>4, <1>5, <1>6

\* A request is written: on to the next one, or success.
FinishesRequest(u) ==
  /\ Kind(u) \in {"create", "allocate"} /\ Pc(u) = "write" /\ goalCall[u].todo = {} /\ Nowhere
  /\ IF goalCall[u].plan = {} THEN ToldTo(u, "done") ELSE GoesTo(u, "check")

LEMMA RequestDoneIs ==
  ASSUME GoalTypes, NEW u \in Clients, G!RequestDone(u)
  PROVE  GoalTypes' /\ FinishesRequest(u)
<1>1. Kind(u) \in {"create", "allocate"} /\ Pc(u) = "write" /\ goalCall[u].todo = {}
      /\ UNCHANGED <<goal, file, config, use, size, new, goalUsed>>
  BY DEF G!RequestDone, G!At, G!machine, Kind, Pc
<1>2. Nowhere /\ goalUsed' \in [calls : Nat, faults : Nat, changes : Nat]
  BY <1>1, FaultIs DEF Nowhere
<1>3. CASE goalCall[u].plan = {}
  <2>1. ToldTo(u, "done")
    BY <1>3, ToldIs DEF G!RequestDone, ToldTo, Answers
  <2> QED BY <1>1, <1>2, <1>3, <2>1 DEF FinishesRequest, GoalTypes, ToldTo, Stays
<1>4. CASE goalCall[u].plan # {}
  <2>1. GoesTo(u, "check")
    BY <1>4, PcIs DEF G!RequestDone, GoesTo, Pcs
  <2> QED BY <1>1, <1>2, <1>4, <2>1 DEF FinishesRequest, GoalTypes, GoesTo, Stays
<1> QED BY <1>3, <1>4

\* The goal of the next DIMM is deleted, or there is none, or it fails.
Deletes(u) ==
  /\ Pc(u) = "remove" /\ goalCall[u].todo # {} /\ UNCHANGED <<file, config, size, new>> /\ FaultsGrow
  /\ \/ LosesGoal(G!First(u)) /\ DropsWritten(u)
     \/ UNCHANGED goal /\ goal[G!First(u)] = G!NoGoal /\ Kind(u) # "delete" /\ Drops(u)
     \/ /\ UNCHANGED goal /\ Kind(u) = "delete" /\ Stays(u)
        /\ goalCall'[u] = [goalCall[u] EXCEPT !.todo = @ \ {G!First(u)}, !.answer = "failed"]
     \/ /\ UNCHANGED goal /\ Kind(u) # "delete" /\ goalUsed'.faults # 0
        /\ ToldTo(u, G!FailedAnswer(goalCall[u].wrote))

LEMMA DeleteGoalIs ==
  ASSUME GoalTypes, NEW u \in Clients, G!DeleteGoal(u)
  PROVE  GoalTypes' /\ Deletes(u)
<1> DEFINE d == G!First(u)
           failed == IF Kind(u) = "delete" THEN [G!Done(u) EXCEPT ![u].answer = "failed"] ELSE G!Done(u)
<1>1. Pc(u) = "remove" /\ goalCall[u].todo # {}
      /\ UNCHANGED <<file, config, use, size, new>> /\ (G!Fault \/ UNCHANGED goalUsed)
  BY DEF G!DeleteGoal, G!machine, Pc
<1>2. FaultsGrow /\ goalUsed' \in [calls : Nat, faults : Nat, changes : Nat]
      /\ (G!Fault => goalUsed'.faults # 0)
  BY <1>1, FaultIs
<1>3. d \in Dimms
  BY <1>1, FirstIsLeast
<1>4. CASE goal' = [goal EXCEPT ![d] = G!NoGoal] /\ goalCall' = G!Wrote(u)
  <2>0. G!NoGoal \in GoalType
    BY DEF G!NoGoal, GoalType
  <2>1. goal' \in [Dimms -> GoalType] /\ LosesGoal(d)
    <3> HIDE DEF d
    <3> QED BY <1>3, <1>4, <2>0 DEF LosesGoal, GoalTypes
  <2>2. DropsWritten(u)
    BY <1>1, <1>4, WroteIs DEF DropsWritten
  <2>3. Deletes(u)
    BY <1>1, <1>2, <2>1, <2>2 DEF Deletes
  <2> QED BY <1>1, <1>2, <2>1, <2>2, <2>3 DEF GoalTypes, DropsWritten, Stays
<1>5. CASE goal[d] = G!NoGoal /\ Kind(u) # "delete" /\ goalCall' = G!Done(u) /\ UNCHANGED goal
  <2>1. Drops(u)
    BY <1>5, DoneIs DEF Drops
  <2>2. Deletes(u)
    BY <1>1, <1>2, <1>5, <2>1 DEF Deletes
  <2> QED BY <1>1, <1>2, <1>5, <2>1, <2>2 DEF GoalTypes, Drops, Stays
<1>6. CASE Kind(u) = "delete" /\ goalCall' = [G!Done(u) EXCEPT ![u].answer = "failed"] /\ UNCHANGED goal
  <2>1. Stays(u) /\ goalCall'[u] = [goalCall[u] EXCEPT !.todo = @ \ {d}, !.answer = "failed"]
    BY <1>6, DoneFailedIs
  <2>2. Deletes(u)
    BY <1>1, <1>2, <1>6, <2>1 DEF Deletes
  <2> QED BY <1>1, <1>2, <1>6, <2>1, <2>2 DEF GoalTypes, Stays
<1>7. CASE /\ Kind(u) # "delete" /\ G!Fault /\ UNCHANGED goal
           /\ goalCall' = G!Told(u, G!FailedAnswer(goalCall[u].wrote))
  <2>1. G!FailedAnswer(goalCall[u].wrote) \in Answers
    BY DEF G!FailedAnswer, Answers
  <2>2. ToldTo(u, G!FailedAnswer(goalCall[u].wrote))
    BY <1>7, <2>1, ToldIs DEF ToldTo
  <2>3. Deletes(u)
    BY <1>1, <1>2, <1>7, <2>2 DEF Deletes
  <2> QED BY <1>1, <1>2, <1>7, <2>2, <2>3 DEF GoalTypes, ToldTo, Stays
<1>8. \/ goal' = [goal EXCEPT ![d] = G!NoGoal] /\ goalCall' = G!Wrote(u)
      \/ goal[d] = G!NoGoal /\ goalCall' = failed /\ UNCHANGED goal
      \/ /\ G!Fault /\ UNCHANGED goal
         /\ goalCall' = IF Kind(u) = "delete" THEN failed ELSE G!Told(u, G!FailedAnswer(goalCall[u].wrote))
  BY DEF G!DeleteGoal, Kind
<1>9. \/ goal' = [goal EXCEPT ![d] = G!NoGoal] /\ goalCall' = G!Wrote(u)
      \/ goal[d] = G!NoGoal /\ Kind(u) # "delete" /\ goalCall' = G!Done(u) /\ UNCHANGED goal
      \/ Kind(u) = "delete" /\ goalCall' = [G!Done(u) EXCEPT ![u].answer = "failed"] /\ UNCHANGED goal
      \/ /\ Kind(u) # "delete" /\ G!Fault /\ UNCHANGED goal
         /\ goalCall' = G!Told(u, G!FailedAnswer(goalCall[u].wrote))
  <2> HIDE DEF d
  <2> QED BY Zenon, <1>8
<1> QED BY <1>4, <1>5, <1>6, <1>7, <1>9

FinishesRemoval(u) ==
  /\ Pc(u) = "remove" /\ goalCall[u].todo = {} /\ Nowhere
  /\ \E x \in Answers :
       /\ ToldTo(u, x)
       /\ Kind(u) = "import" => x = "failed"
       /\ Kind(u) # "import" /\ x = "done" => goalCall[u].answer \in {"none", "done"}

LEMMA RemoveDoneIs ==
  ASSUME GoalTypes, NEW u \in Clients, G!RemoveDone(u)
  PROVE  GoalTypes' /\ FinishesRemoval(u)
<1>1. Pc(u) = "remove" /\ goalCall[u].todo = {}
      /\ UNCHANGED <<goal, file, config, use, size, new, goalUsed>>
  BY DEF G!RemoveDone, G!machine, Pc
<1>2. Nowhere /\ goalUsed' \in [calls : Nat, faults : Nat, changes : Nat]
  BY <1>1, FaultIs DEF Nowhere
<1>3. goalCall[u].answer \in Answers
  BY DEF GoalTypes, CallType
<1>4. PICK x \in Answers : /\ goalCall' = G!Told(u, x)
                           /\ Kind(u) = "import" => x = "failed"
                           /\ Kind(u) # "import" /\ x = "done" => goalCall[u].answer \in {"none", "done"}
  <2>1. CASE Kind(u) = "import"
    BY <2>1 DEF G!RemoveDone, Kind, Answers
  <2>2. CASE Kind(u) # "import" /\ goalCall[u].answer = "none"
    BY <2>2 DEF G!RemoveDone, Kind, Answers
  <2>3. CASE Kind(u) # "import" /\ goalCall[u].answer # "none"
    <3>1. goalCall' = G!Told(u, goalCall[u].answer)
      BY <2>3 DEF G!RemoveDone, Kind
    <3> QED BY <1>3, <2>3, <3>1
  <2> QED BY <2>1, <2>2, <2>3
<1>5. ToldTo(u, x)
  BY <1>4, ToldIs DEF ToldTo
<1> QED BY <1>1, <1>2, <1>4, <1>5 DEF FinishesRemoval, GoalTypes, ToldTo, Stays

LineHere(d) == G!LineFor(d, config[d], size[d])

\* The line of the next DIMM is written, or it has none, or it fails.
Dumps(u) ==
  /\ Kind(u) = "export" /\ Pc(u) = "dump" /\ goalCall[u].todo # {}
  /\ UNCHANGED <<goal, config, size, new>> /\ FaultsGrow
  /\ \/ /\ config[G!First(u)] # {} /\ DropsWritten(u)
        /\ file' = IF goalCall[u].todo # Dimms /\ file # G!NoFile
                   THEN Append(file, LineHere(G!First(u))) ELSE <<LineHere(G!First(u))>>
     \/ config[G!First(u)] = {} /\ UNCHANGED file /\ Drops(u)
     \/ UNCHANGED file /\ ToldTo(u, "failed")

LEMMA DumpIs ==
  ASSUME GoalTypes, NEW u \in Clients, G!Dump(u)
  PROVE  GoalTypes' /\ Dumps(u)
<1> DEFINE d == G!First(u)
           line == LineHere(d)
<1>1. Kind(u) = "export" /\ Pc(u) = "dump" /\ goalCall[u].todo # {}
      /\ UNCHANGED <<goal, config, use, size, new>> /\ (G!Fault \/ UNCHANGED goalUsed)
  BY DEF G!Dump, G!At, G!machine, Kind, Pc
<1>2. FaultsGrow /\ goalUsed' \in [calls : Nat, faults : Nat, changes : Nat]
  BY <1>1, FaultIs
<1>3. d \in Dimms
  BY <1>1, FirstIsLeast
<1>4. CASE /\ config[d] # {} /\ goalCall' = G!Wrote(u)
           /\ file' = IF goalCall[u].todo # Dimms /\ file # G!NoFile THEN Append(file, line) ELSE <<line>>
  <2>1. line \in LineType
    <3>1. config[d] \in SUBSET Dimms /\ size[d] \in {0, 1, 2} /\ d \in Nat
      BY <1>3, DimmsAssumption DEF GoalTypes
    <3> QED BY <3>1 DEF LineHere, LineType, G!LineFor
  <2>2. file' \in Seq(LineType)
    <3> HIDE DEF line
    <3>1. file \in Seq(LineType)
      BY DEF GoalTypes
    <3>2. <<line>> \in Seq(LineType) /\ Append(file, line) \in Seq(LineType)
      BY <2>1, <3>1
    <3> QED BY <1>4, <3>2
  <2>3. DropsWritten(u)
    BY <1>1, <1>4, WroteIs DEF DropsWritten
  <2>4. Dumps(u)
    BY <1>1, <1>2, <1>4, <2>3 DEF Dumps
  <2> QED BY <1>1, <1>2, <2>2, <2>3, <2>4 DEF GoalTypes, DropsWritten, Stays
<1>5. CASE config[d] = {} /\ UNCHANGED file /\ goalCall' = G!Done(u)
  <2>1. Drops(u)
    BY <1>5, DoneIs DEF Drops
  <2>2. Dumps(u)
    BY <1>1, <1>2, <1>5, <2>1 DEF Dumps
  <2> QED BY <1>1, <1>2, <1>5, <2>1, <2>2 DEF GoalTypes, Drops, Stays
<1>6. CASE UNCHANGED file /\ goalCall' = G!Told(u, "failed")
  <2>1. ToldTo(u, "failed")
    BY <1>6, ToldIs DEF ToldTo, Answers
  <2>2. Dumps(u)
    BY <1>1, <1>2, <1>6, <2>1 DEF Dumps
  <2> QED BY <1>1, <1>2, <1>6, <2>1, <2>2 DEF GoalTypes, ToldTo, Stays
<1>7. \/ /\ config[d] # {} /\ goalCall' = G!Wrote(u)
         /\ file' = IF goalCall[u].todo # Dimms /\ file # G!NoFile THEN Append(file, line) ELSE <<line>>
      \/ config[d] = {} /\ UNCHANGED file /\ goalCall' = G!Done(u)
      \/ UNCHANGED file /\ goalCall' = G!Told(u, "failed")
  BY DEF G!Dump, G!Appends, LineHere
<1> QED BY <1>4, <1>5, <1>6, <1>7

FinishesDump(u) ==
  /\ Kind(u) = "export" /\ Pc(u) = "dump" /\ goalCall[u].todo = {} /\ Nowhere
  /\ ToldTo(u, "failed") \/ ToldTo(u, "done")

LEMMA DumpDoneIs ==
  ASSUME GoalTypes, NEW u \in Clients, G!DumpDone(u)
  PROVE  GoalTypes' /\ FinishesDump(u)
<1>1. Kind(u) = "export" /\ Pc(u) = "dump" /\ goalCall[u].todo = {}
      /\ UNCHANGED <<goal, file, config, use, size, new, goalUsed>>
  BY DEF G!DumpDone, G!At, G!machine, Kind, Pc
<1>2. Nowhere /\ goalUsed' \in [calls : Nat, faults : Nat, changes : Nat]
  BY <1>1, FaultIs DEF Nowhere
<1>3. goalCall' = G!Told(u, "failed") \/ goalCall' = G!Told(u, "done")
  BY DEF G!DumpDone
<1>4. ToldTo(u, "failed") \/ ToldTo(u, "done")
  BY <1>3, ToldIs DEF ToldTo, Answers
<1> QED BY <1>1, <1>2, <1>4 DEF FinishesDump, GoalTypes, ToldTo, Stays

\* The line of a DIMM is one of the file.
LEMMA LineOfIs ==
  ASSUME GoalTypes, NEW d \in Dimms, G!LinesOf(d) # {}
  PROVE  \E k \in DOMAIN file : file[k].dimm = d /\ G!LineOf(d) = file[k] /\ G!LineOf(d) \in LineType
<1>1. DOMAIN file \in SUBSET Nat
  BY DEF GoalTypes
<1>2. G!LinesOf(d) \in SUBSET Nat
  BY <1>1 DEF G!LinesOf
<1>3. Min(G!LinesOf(d)) \in G!LinesOf(d)
  BY <1>2, MinIsLeast
<1>4. G!Min(G!LinesOf(d)) = Min(G!LinesOf(d))
  BY Zenon DEF G!Min, Min
<1>5. PICK k \in DOMAIN file : k = Min(G!LinesOf(d)) /\ file[k].dimm = d
  BY <1>3 DEF G!LinesOf
<1>6. G!LineOf(d) = file[k]
  BY Zenon, <1>4, <1>5 DEF G!LineOf
<1>7. file[k] \in LineType
  BY DEF GoalTypes
<1> QED BY <1>5, <1>6, <1>7

\* The goal of the next DIMM is loaded, or it is passed over, or all are
\* removed.
Loads(u) ==
  /\ Kind(u) = "import" /\ Pc(u) = "load" /\ goalCall[u].todo # {}
  /\ UNCHANGED <<file, config, size, new>> /\ FaultsGrow
  /\ \/ /\ G!LinesOf(G!First(u)) # {}
        /\ GetsGoal(u, G!First(u), G!LineOf(G!First(u)).set) /\ Drops(u)
     \/ G!PassedOver(G!First(u)) /\ UNCHANGED goal /\ Drops(u)
     \/ /\ UNCHANGED goal /\ Stays(u)
        /\ goalCall'[u] = [goalCall[u] EXCEPT !.todo = goalCall[u].dimms, !.pc = "remove"]

LEMMA LoadIs ==
  ASSUME GoalTypes, NEW u \in Clients, G!Load(u)
  PROVE  GoalTypes' /\ Loads(u)
<1> DEFINE d == G!First(u)
           set == G!LineOf(d).set
           revert == [goalCall EXCEPT ![u].todo = goalCall[u].dimms, ![u].pc = "remove"]
<1>1. Kind(u) = "import" /\ Pc(u) = "load" /\ goalCall[u].todo # {}
      /\ UNCHANGED <<file, config, use, size, new>> /\ (G!Fault \/ UNCHANGED goalUsed)
  BY DEF G!Load, G!At, G!machine, Kind, Pc
<1>2. FaultsGrow /\ goalUsed' \in [calls : Nat, faults : Nat, changes : Nat]
  BY <1>1, FaultIs
<1>3. d \in Dimms
  BY <1>1, FirstIsLeast
<1>4. CASE G!LinesOf(d) # {} /\ goal' = [goal EXCEPT ![d] = G!NewGoal(u, set)] /\ goalCall' = G!Done(u)
  <2>1. set \in SUBSET Dimms
    BY <1>3, <1>4, LineOfIs DEF LineType
  <2>2. goal' \in [Dimms -> GoalType] /\ GetsGoal(u, d, set)
    <3> HIDE DEF d, set
    <3> QED BY <1>3, <1>4, <2>1, WrittenGoal DEF GetsGoal
  <2>3. Drops(u)
    BY <1>4, DoneIs DEF Drops
  <2>4. Loads(u)
    BY <1>1, <1>2, <1>4, <2>2, <2>3 DEF Loads
  <2> QED BY <1>1, <1>2, <2>2, <2>3, <2>4 DEF GoalTypes, Drops, Stays
<1>5. CASE G!PassedOver(d) /\ goalCall' = G!Done(u) /\ UNCHANGED goal
  <2>1. Drops(u)
    BY <1>5, DoneIs DEF Drops
  <2>2. Loads(u)
    BY <1>1, <1>2, <1>5, <2>1 DEF Loads
  <2> QED BY <1>1, <1>2, <1>5, <2>1, <2>2 DEF GoalTypes, Drops, Stays
<1>6. CASE goalCall' = revert /\ UNCHANGED goal
  <2>1. Stays(u) /\ goalCall'[u] = [goalCall[u] EXCEPT !.todo = goalCall[u].dimms, !.pc = "remove"]
    BY <1>6, RevertIs
  <2>2. Loads(u)
    BY <1>1, <1>2, <1>6, <2>1 DEF Loads
  <2> QED BY <1>1, <1>2, <1>6, <2>1, <2>2 DEF GoalTypes, Stays
<1>7. \/ G!LinesOf(d) # {} /\ goal' = [goal EXCEPT ![d] = G!NewGoal(u, set)] /\ goalCall' = G!Done(u)
      \/ G!PassedOver(d) /\ goalCall' = G!Done(u) /\ UNCHANGED goal
      \/ goalCall' = revert /\ UNCHANGED goal
  BY DEF G!Load, G!Loadable
<1> QED BY <1>4, <1>5, <1>6, <1>7

FinishesLoad(u) ==
  Kind(u) = "import" /\ Pc(u) = "load" /\ goalCall[u].todo = {} /\ Nowhere /\ ToldTo(u, "done")

LEMMA LoadDoneIs ==
  ASSUME GoalTypes, NEW u \in Clients, G!LoadDone(u)
  PROVE  GoalTypes' /\ FinishesLoad(u)
<1>1. Kind(u) = "import" /\ Pc(u) = "load" /\ goalCall[u].todo = {}
      /\ UNCHANGED <<goal, file, config, use, size, new, goalUsed>>
  BY DEF G!LoadDone, G!At, G!machine, Kind, Pc
<1>2. Nowhere /\ goalUsed' \in [calls : Nat, faults : Nat, changes : Nat]
  BY <1>1, FaultIs DEF Nowhere
<1>3. ToldTo(u, "done")
  BY ToldIs DEF G!LoadDone, ToldTo, Answers
<1> QED BY <1>1, <1>2, <1>3 DEF FinishesLoad, GoalTypes, ToldTo, Stays

\* A call begins, as one of six kinds.
StartedAs(r) ==
  \/ /\ r.kind = "create" /\ r.pc = "check" /\ r.plan = {r.dimms} /\ r.dimms # {}
  \/ /\ r.kind = "allocate" /\ r.pc = "check" /\ r.dimms # {}
     /\ r.plan = {r.dimms \cap G!SocketDimms(s) : s \in G!SocketsOf(r.dimms)}
  \/ /\ r.kind \in {"delete", "remove"} /\ r.pc = "remove" /\ r.todo = r.dimms /\ r.plan = {}
     /\ \A d \in Within(r.dimms) : goal[d] # G!NoGoal => d \in r.dimms
  \/ /\ r.kind = "export" /\ r.pc = "dump" /\ r.todo = Dimms /\ r.plan = {}
  \/ /\ r.kind = "import" /\ r.pc = "load" /\ r.todo = r.dimms /\ ~G!PartialSocket(r.dimms) /\ r.plan = {}
  \/ /\ r.kind = "import" /\ r.pc = "told" /\ r.answer = "failed" /\ r.plan = {}

BeginsCall(u) ==
  \E r \in CallType : Begins(u, r) /\ StartedAs(r) /\ r.answer \in {"none", "failed"} /\ (r.pc # "told" => r.answer = "none")

LEMMA IdleIs ==
  /\ G!Idle \in CallType /\ G!Idle.pc = "idle" /\ G!Idle.kind = "idle" /\ G!Idle.answer = "none"
  /\ G!Idle.plan = {} /\ G!Idle.todo = {} /\ G!Idle.wrote = {}
BY DEF G!Idle, CallType, Kinds, Pcs, Answers, G!NoSets

LEMMA BeginTypes ==
  ASSUME GoalTypes, NEW u \in Clients, NEW r \in CallType, Begins(u, r)
  PROVE  GoalTypes'
<1>1. goalUsed' \in [calls : Nat, faults : Nat, changes : Nat]
  BY DEF GoalTypes, Begins
<1> QED BY <1>1 DEF GoalTypes, Begins

LEMMA NamedAre ==
  ASSUME NEW D \in Named
  PROVE  D \in SUBSET Dimms /\ D # {}
BY DimmsAssumption

LEMMA CreateIs ==
  ASSUME GoalTypes, NEW u \in Clients, G!CreateGoal(u)
  PROVE  BeginsCall(u)
<1>1. PICK D \in Named, p \in BOOLEAN :
        G!Begin(u, [G!Idle EXCEPT !.kind = "create", !.dimms = D, !.prompt = p, !.plan = {D}, !.pc = "check"])
  BY DEF G!CreateGoal
<1> DEFINE r == [G!Idle EXCEPT !.kind = "create", !.dimms = D, !.prompt = p, !.plan = {D}, !.pc = "check"]
<1>2. D \in SUBSET Dimms /\ D # {}
  BY NamedAre
<1>3. /\ r \in CallType /\ r.kind = "create" /\ r.pc = "check" /\ r.plan = {D} /\ r.dimms = D
      /\ r.answer = "none"
  BY <1>2, IdleIs DEF CallType, Kinds, Pcs
<1> HIDE DEF r
<1>4. Begins(u, r)
  BY <1>1, <1>3, BeginIs DEF r
<1>5. StartedAs(r)
  BY <1>2, <1>3 DEF StartedAs
<1> QED BY <1>3, <1>4, <1>5 DEF BeginsCall

LEMMA AllocateIs ==
  ASSUME GoalTypes, NEW u \in Clients, G!AllocateFromPool(u)
  PROVE  BeginsCall(u)
<1>1. PICK D \in Named :
        G!Begin(u, [G!Idle EXCEPT !.kind = "allocate", !.dimms = D, !.pc = "check",
                                  !.plan = {D \cap G!SocketDimms(s) : s \in G!SocketsOf(D)}])
  BY DEF G!AllocateFromPool
<1>2. D \in SUBSET Dimms /\ D # {}
  BY NamedAre
<1>3. PICK plan \in SUBSET (SUBSET Dimms) : plan = {D \cap G!SocketDimms(s) : s \in G!SocketsOf(D)}
  <2>1. {D \cap G!SocketDimms(s) : s \in G!SocketsOf(D)} \in SUBSET (SUBSET Dimms)
    BY <1>2
  <2> QED BY <2>1
<1> DEFINE r == [G!Idle EXCEPT !.kind = "allocate", !.dimms = D, !.pc = "check", !.plan = plan]
<1>4. /\ r \in CallType /\ r.kind = "allocate" /\ r.pc = "check" /\ r.plan = plan /\ r.dimms = D
      /\ r.answer = "none"
  BY <1>2, IdleIs DEF CallType, Kinds, Pcs
<1>5. G!Begin(u, r)
  BY <1>1, <1>3
<1> HIDE DEF r
<1>6. Begins(u, r)
  BY <1>4, <1>5, BeginIs
<1>7. StartedAs(r)
  BY <1>2, <1>3, <1>4 DEF StartedAs
<1> QED BY <1>4, <1>6, <1>7 DEF BeginsCall

\* A call that removes goals begins with all of the sockets it touches.
LEMMA RemovalIs ==
  ASSUME GoalTypes, NEW u \in Clients, NEW D \in SUBSET Dimms, NEW k \in {"delete", "remove"},
         \A d \in Within(D) : goal[d] # G!NoGoal => d \in D,
         G!Begin(u, [G!Idle EXCEPT !.kind = k, !.dimms = D, !.todo = D, !.pc = "remove"])
  PROVE  BeginsCall(u)
<1> DEFINE r == [G!Idle EXCEPT !.kind = k, !.dimms = D, !.todo = D, !.pc = "remove"]
<1>1. /\ r \in CallType /\ r.kind = k /\ r.pc = "remove" /\ r.plan = {} /\ r.dimms = D /\ r.todo = D
      /\ r.answer = "none"
  BY IdleIs DEF CallType, Kinds, Pcs
<1> HIDE DEF r
<1>2. Begins(u, r)
  BY <1>1, BeginIs DEF r
<1>3. StartedAs(r)
  BY <1>1 DEF StartedAs
<1> QED BY <1>1, <1>2, <1>3 DEF BeginsCall

LEMMA DeleteIs ==
  ASSUME GoalTypes, NEW u \in Clients, G!DeleteConfigGoal(u)
  PROVE  BeginsCall(u)
<1>1. PICK D \in (SUBSET {d \in Dimms : goal[d] # G!NoGoal}) \ {{}} :
        /\ \A d \in Dimms : goal[d] # G!NoGoal /\ SocketOf[d] \in G!SocketsOf(D) => d \in D
        /\ G!Begin(u, [G!Idle EXCEPT !.kind = "delete", !.dimms = D, !.todo = D, !.pc = "remove"])
  BY DEF G!DeleteConfigGoal
<1>2. D \in SUBSET Dimms /\ \A d \in Within(D) : goal[d] # G!NoGoal => d \in D
  BY <1>1 DEF Within
<1> QED BY <1>1, <1>2, RemovalIs

LEMMA RemoveIs ==
  ASSUME GoalTypes, NEW u \in Clients, G!RemoveGoal(u)
  PROVE  BeginsCall(u)
<1>1. PICK D \in {Dimms} \cup {G!SocketDimms(s) : s \in G!SocketsOf(Dimms)} :
        G!Begin(u, [G!Idle EXCEPT !.kind = "remove", !.dimms = D, !.todo = D, !.pc = "remove"])
  BY DEF G!RemoveGoal
<1>2. D \in SUBSET Dimms /\ \A d \in Within(D) : d \in D
  BY <1>1 DEF Within, G!SocketDimms, G!SocketsOf
<1> QED BY <1>1, <1>2, RemovalIs

LEMMA ExportIs ==
  ASSUME GoalTypes, NEW u \in Clients, G!Export(u)
  PROVE  BeginsCall(u)
<1> DEFINE r == [G!Idle EXCEPT !.kind = "export", !.dimms = Dimms, !.todo = Dimms, !.pc = "dump"]
<1>1. /\ r \in CallType /\ r.kind = "export" /\ r.pc = "dump" /\ r.plan = {} /\ r.todo = Dimms
      /\ r.answer = "none"
  BY IdleIs DEF CallType, Kinds, Pcs
<1>2. G!Begin(u, r)
  BY DEF G!Export
<1> HIDE DEF r
<1>3. Begins(u, r)
  BY <1>1, <1>2, BeginIs
<1>4. StartedAs(r)
  BY <1>1 DEF StartedAs
<1> QED BY <1>1, <1>3, <1>4 DEF BeginsCall

LEMMA ImportIs ==
  ASSUME GoalTypes, NEW u \in Clients, G!Import(u)
  PROVE  BeginsCall(u)
<1>1. PICK D \in Named :
        G!Begin(u, [G!Idle EXCEPT !.kind = "import", !.dimms = D,
                                  !.todo = IF G!PartialSocket(D) THEN {} ELSE D,
                                  !.pc = IF G!PartialSocket(D) THEN "told" ELSE "load",
                                  !.answer = IF G!PartialSocket(D) THEN "failed" ELSE "none"])
  BY DEF G!Import
<1>2. D \in SUBSET Dimms
  BY NamedAre
<1>3. CASE G!PartialSocket(D)
  <2> DEFINE r == [G!Idle EXCEPT !.kind = "import", !.dimms = D, !.todo = {}, !.pc = "told", !.answer = "failed"]
  <2>1. r \in CallType /\ r.kind = "import" /\ r.pc = "told" /\ r.plan = {} /\ r.answer = "failed"
    BY <1>2, IdleIs DEF CallType, Kinds, Pcs, Answers
  <2>2. G!Begin(u, r)
    BY <1>1, <1>3
  <2> HIDE DEF r
  <2>3. Begins(u, r)
    BY <2>1, <2>2, BeginIs
  <2>4. StartedAs(r)
    BY <2>1 DEF StartedAs
  <2> QED BY <2>1, <2>3, <2>4 DEF BeginsCall
<1>4. CASE ~G!PartialSocket(D)
  <2> DEFINE r == [G!Idle EXCEPT !.kind = "import", !.dimms = D, !.todo = D, !.pc = "load", !.answer = "none"]
  <2>1. r \in CallType /\ r.kind = "import" /\ r.pc = "load" /\ r.plan = {} /\ r.answer = "none" /\ r.todo = D /\ r.dimms = D
    BY <1>2, IdleIs DEF CallType, Kinds, Pcs, Answers
  <2>2. G!Begin(u, r)
    BY <1>1, <1>4
  <2> HIDE DEF r
  <2>3. Begins(u, r)
    BY <2>1, <2>2, BeginIs
  <2>4. StartedAs(r)
    BY <1>4, <2>1 DEF StartedAs
  <2> QED BY <2>1, <2>3, <2>4 DEF BeginsCall
<1> QED BY <1>3, <1>4

\* The client has read its answer, and the goals are nobody's.
Returns(u) ==
  /\ Pc(u) = "told" /\ UNCHANGED <<file, config, size, new, goalUsed>>
  /\ goalCall'[u] = G!Idle /\ \A w \in Clients \ {u} : goalCall'[w] = goalCall[w]
  /\ \A d \in Dimms : /\ goal'[d].by = goal[d].by \ {u} /\ goal'[d].set = goal[d].set
                      /\ goal'[d].status = goal[d].status

LEMMA ReturnIs ==
  ASSUME GoalTypes, NEW u \in Clients, G!Return(u)
  PROVE  GoalTypes' /\ Returns(u)
<1>1. Pc(u) = "told" /\ UNCHANGED <<file, config, use, size, new, goalUsed>>
  BY DEF G!Return, G!machine, Pc
<1>2. goalCall' \in [Clients -> CallType] /\ goalCall'[u] = G!Idle
      /\ \A w \in Clients \ {u} : goalCall'[w] = goalCall[w]
  <2>1. goalCall' = [goalCall EXCEPT ![u] = G!Idle]
    BY DEF G!Return
  <2> QED BY <2>1, IdleIs DEF GoalTypes
<1>3. goal' = [d \in Dimms |-> [goal[d] EXCEPT !.by = @ \ {u}]]
  BY DEF G!Return
<1>4. \A d \in Dimms : /\ [goal[d] EXCEPT !.by = @ \ {u}] \in GoalType
                       /\ [goal[d] EXCEPT !.by = @ \ {u}].by = goal[d].by \ {u}
                       /\ [goal[d] EXCEPT !.by = @ \ {u}].set = goal[d].set
                       /\ [goal[d] EXCEPT !.by = @ \ {u}].status = goal[d].status
  <2>1. ASSUME NEW g \in GoalType, NEW o \in SUBSET Clients
        PROVE  /\ [g EXCEPT !.by = o] \in GoalType /\ [g EXCEPT !.by = o].by = o
               /\ [g EXCEPT !.by = o].set = g.set /\ [g EXCEPT !.by = o].status = g.status
    BY DEF GoalType
  <2>2. TAKE d \in Dimms
  <2>3. goal[d] \in GoalType /\ goal[d].by \ {u} \in SUBSET Clients
    BY DEF GoalTypes, GoalType
  <2> QED BY Zenon, <2>1, <2>3
<1>5. goal' \in [Dimms -> GoalType]
      /\ \A d \in Dimms : /\ goal'[d].by = goal[d].by \ {u} /\ goal'[d].set = goal[d].set
                          /\ goal'[d].status = goal[d].status
  BY <1>3, <1>4
<1> QED BY <1>1, <1>2, <1>5 DEF GoalTypes, Returns

\* Every call is over, and goals may have become the configuration.
Restarts ==
  /\ UNCHANGED <<file, size, goalUsed>> /\ new' \subseteq new
  /\ \A u \in Clients : goalCall'[u] = G!Idle
  /\ \A d \in Dimms : goal'[d].by = {} /\ goal'[d].set = goal[d].set
  /\ \A d \in Dimms : config'[d] \in {goal[d].set, config[d]}

LEMMA RestartIs ==
  ASSUME GoalTypes, G!Restart
  PROVE  GoalTypes' /\ Restarts
<1>1. PICK applied \in SUBSET Dimms :
        /\ goal' = [d \in Dimms |->
                      [goal[d] EXCEPT !.by = {}, !.status = IF @ # "new" THEN @
                                                  ELSE IF d \in applied THEN "applied" ELSE "bad"]]
        /\ config' = [d \in Dimms |-> IF d \in applied THEN goal[d].set ELSE config[d]]
        /\ new' = new \ applied
  BY DEF G!Restart
<1>2. goalCall' = [u \in Clients |-> G!Idle] /\ UNCHANGED <<use, size, file, goalUsed>>
  BY DEF G!Restart
<1>3. ASSUME NEW d \in Dimms
      PROVE  goal'[d] \in GoalType /\ goal'[d].by = {} /\ goal'[d].set = goal[d].set
  <2>0. PICK st \in {"none", "new", "applied", "bad"} :
          st = IF goal[d].status # "new" THEN goal[d].status ELSE IF d \in applied THEN "applied" ELSE "bad"
    BY DEF GoalTypes, GoalType
  <2>1. goal'[d] = [goal[d] EXCEPT !.by = {}, !.status = st]
    BY <1>1, <2>0 DEF GoalTypes, GoalType
  <2>2. goal[d] \in GoalType
    BY DEF GoalTypes
  <2> QED BY <2>1, <2>2 DEF GoalType
<1>4. goal' \in [Dimms -> GoalType]
  BY <1>1, <1>3
<1>5. config' \in [Dimms -> SUBSET Dimms] /\ \A d \in Dimms : config'[d] \in {goal[d].set, config[d]}
  BY <1>1 DEF GoalTypes, GoalType
<1>6. new' \in SUBSET Dimms /\ new' \subseteq new
  BY <1>1 DEF GoalTypes
<1>7. goalCall' \in [Clients -> CallType] /\ \A u \in Clients : goalCall'[u] = G!Idle
  BY <1>2, IdleIs
<1> QED BY <1>2, <1>3, <1>4, <1>5, <1>6, <1>7 DEF GoalTypes, Restarts

ChangesUse == UNCHANGED <<goal, config, size, new, file, goalCall>> /\ FaultsGrow

LEMMA ChangeUseIs ==
  ASSUME GoalTypes, NEW d \in Dimms, G!ChangeUse(d)
  PROVE  GoalTypes' /\ ChangesUse
<1>1. UNCHANGED <<goal, config, size, new, file, goalCall>>
  BY DEF G!ChangeUse
<1>2. goalUsed' = [goalUsed EXCEPT !.changes = @ + 1]
  BY DEF G!ChangeUse, G!Change
<1> QED BY <1>1, <1>2 DEF GoalTypes, ChangesUse, FaultsGrow

\* A DIMM is replaced while nobody calls.
Replaces(d) ==
  /\ \A u \in Clients : Pc(u) = "idle"
  /\ UNCHANGED <<file, goalCall>> /\ FaultsGrow
  /\ size'[d] = 1 /\ (\A e \in Dimms \ {d} : size'[e] = size[e]) /\ new' = new \cup {d}
  /\ LosesGoal(d)
  /\ config'[d] = {} /\ (\A e \in Dimms \ {d} : config'[e] = config[e])

LEMMA ReplaceIs ==
  ASSUME GoalTypes, NEW d \in Dimms, G!Replace(d)
  PROVE  GoalTypes' /\ Replaces(d)
<1>1. UNCHANGED <<file, goalCall>> /\ \A u \in Clients : Pc(u) = "idle"
  BY DEF G!Replace, Pc
<1>2. goalUsed' = [goalUsed EXCEPT !.changes = @ + 1]
  BY DEF G!Replace, G!Change
<1>3. goalUsed' \in [calls : Nat, faults : Nat, changes : Nat] /\ FaultsGrow
  BY <1>2 DEF GoalTypes, FaultsGrow
<1>4. G!NoGoal \in GoalType
  BY DEF G!NoGoal, GoalType
<1>5. goal' \in [Dimms -> GoalType] /\ LosesGoal(d)
  BY <1>4 DEF G!Replace, GoalTypes, LosesGoal
<1>6. /\ config' \in [Dimms -> SUBSET Dimms] /\ config'[d] = {}
      /\ \A e \in Dimms \ {d} : config'[e] = config[e]
  BY DEF G!Replace, GoalTypes
<1>7. /\ size' \in [Dimms -> {1, 2}] /\ size'[d] = 1
      /\ \A e \in Dimms \ {d} : size'[e] = size[e]
  BY DEF G!Replace, GoalTypes
<1>8. new' = new \cup {d} /\ new' \in SUBSET Dimms
  BY DEF G!Replace, GoalTypes
<1> QED BY <1>1, <1>3, <1>5, <1>6, <1>7, <1>8 DEF GoalTypes, Replaces

\* A step of client u, as it was described.
Moves(u) ==
  \/ BeginsCall(u) \/ LaysOut(u) \/ Confirms(u) \/ WritesGoal(u) \/ FinishesRequest(u)
  \/ Deletes(u) \/ FinishesRemoval(u) \/ Dumps(u) \/ FinishesDump(u) \/ Loads(u) \/ FinishesLoad(u)
  \/ Returns(u)

\* What any step is.
LEMMA StepIs ==
  ASSUME GoalTypes, PlanInv, G!Next
  PROVE  /\ GoalTypes'
         /\ (\E u \in Clients : Moves(u)) \/ Restarts \/ ChangesUse \/ \E d \in Dimms : Replaces(d)
<1>1. ASSUME NEW u \in Clients, G!Return(u) PROVE GoalTypes' /\ Moves(u)
  BY <1>1, ReturnIs DEF Moves
<1>2. ASSUME NEW u \in Clients, G!Calls(u) PROVE GoalTypes' /\ Moves(u)
  <2>1. CASE G!CreateGoal(u) \/ G!AllocateFromPool(u) \/ G!DeleteConfigGoal(u) \/ G!RemoveGoal(u)
             \/ G!Export(u) \/ G!Import(u)
    <3>1. BeginsCall(u)
      BY <2>1, CreateIs, AllocateIs, DeleteIs, RemoveIs, ExportIs, ImportIs
    <3>2. GoalTypes'
      BY <3>1, BeginTypes DEF BeginsCall
    <3> QED BY <3>1, <3>2 DEF Moves
  <2>2. CASE G!LayOut(u)
    BY <2>2, LayOutIs DEF Moves
  <2>3. CASE G!Confirm(u)
    BY <2>3, ConfirmIs DEF Moves
  <2>4. CASE G!WriteGoal(u)
    BY <2>4, WriteGoalIs DEF Moves
  <2>5. CASE G!RequestDone(u)
    BY <2>5, RequestDoneIs DEF Moves
  <2>6. CASE G!DeleteGoal(u)
    BY <2>6, DeleteGoalIs DEF Moves
  <2>7. CASE G!RemoveDone(u)
    BY <2>7, RemoveDoneIs DEF Moves
  <2>8. CASE G!Dump(u)
    BY <2>8, DumpIs DEF Moves
  <2>9. CASE G!DumpDone(u)
    BY <2>9, DumpDoneIs DEF Moves
  <2>10. CASE G!Load(u)
    BY <2>10, LoadIs DEF Moves
  <2>11. CASE G!LoadDone(u)
    BY <2>11, LoadDoneIs DEF Moves
  <2> QED BY Zenon, <1>2, <2>1, <2>2, <2>3, <2>4, <2>5, <2>6, <2>7, <2>8, <2>9, <2>10, <2>11 DEF G!Calls
<1>3. CASE G!Restart
  BY <1>3, RestartIs
<1>4. ASSUME NEW d \in Dimms, G!ChangeUse(d) PROVE GoalTypes' /\ ChangesUse
  BY <1>4, ChangeUseIs
<1>5. ASSUME NEW d \in Dimms, G!Replace(d) PROVE GoalTypes' /\ Replaces(d)
  BY <1>5, ReplaceIs
<1> QED BY Zenon, <1>1, <1>2, <1>3, <1>4, <1>5 DEF G!Next

-----------------------------------------------------------------------------
(* What the calls hold *)

LEMMA GoesToFields ==
  ASSUME GoalTypes, NEW u \in Clients, NEW x \in Pcs, GoesTo(u, x)
  PROVE  /\ goalCall'[u].pc = x
         /\ goalCall'[u].plan = goalCall[u].plan /\ goalCall'[u].todo = goalCall[u].todo
         /\ goalCall'[u].sets = goalCall[u].sets /\ goalCall'[u].wrote = goalCall[u].wrote
         /\ goalCall'[u].answer = goalCall[u].answer
<1>1. goalCall[u] \in CallType
  BY DEF GoalTypes
<1> QED BY <1>1 DEF CallType, GoesTo

LEMMA DropsFields ==
  ASSUME GoalTypes, NEW u \in Clients, Drops(u)
  PROVE  /\ goalCall'[u].pc = goalCall[u].pc
         /\ goalCall'[u].plan = goalCall[u].plan /\ goalCall'[u].todo = goalCall[u].todo \ {G!First(u)}
         /\ goalCall'[u].sets = goalCall[u].sets /\ goalCall'[u].wrote = goalCall[u].wrote
         /\ goalCall'[u].answer = goalCall[u].answer
<1>1. goalCall[u] \in CallType
  BY DEF GoalTypes
<1> QED BY <1>1 DEF CallType, Drops

LEMMA DropsWrittenFields ==
  ASSUME GoalTypes, NEW u \in Clients, DropsWritten(u)
  PROVE  /\ goalCall'[u].pc = goalCall[u].pc
         /\ goalCall'[u].plan = goalCall[u].plan /\ goalCall'[u].todo = goalCall[u].todo \ {G!First(u)}
         /\ goalCall'[u].sets = goalCall[u].sets
         /\ goalCall'[u].wrote = goalCall[u].wrote \cup {G!First(u)}
         /\ goalCall'[u].answer = goalCall[u].answer
<1>1. goalCall[u] \in CallType
  BY DEF GoalTypes
<1> QED BY <1>1 DEF CallType, DropsWritten

LEMMA FailedFields ==
  ASSUME GoalTypes, NEW u \in Clients,
         goalCall'[u] = [goalCall[u] EXCEPT !.todo = @ \ {G!First(u)}, !.answer = "failed"]
  PROVE  /\ goalCall'[u].pc = goalCall[u].pc /\ goalCall'[u].plan = goalCall[u].plan
         /\ goalCall'[u].answer = "failed" /\ goalCall'[u].todo = goalCall[u].todo \ {G!First(u)}
<1>1. goalCall[u] \in CallType
  BY DEF GoalTypes
<1> QED BY <1>1 DEF CallType

LEMMA RevertFields ==
  ASSUME GoalTypes, NEW u \in Clients,
         goalCall'[u] = [goalCall[u] EXCEPT !.todo = goalCall[u].dimms, !.pc = "remove"]
  PROVE  /\ goalCall'[u].pc = "remove" /\ goalCall'[u].plan = goalCall[u].plan
         /\ goalCall'[u].todo = goalCall[u].dimms
<1>1. goalCall[u] \in CallType
  BY DEF GoalTypes
<1> QED BY <1>1 DEF CallType

LEMMA BeginFields ==
  ASSUME GoalTypes, NEW u \in Clients, NEW r \in CallType, Begins(u, r)
  PROVE  /\ goalCall'[u].kind = r.kind /\ goalCall'[u].pc = r.pc /\ goalCall'[u].plan = r.plan
         /\ goalCall'[u].todo = r.todo /\ goalCall'[u].dimms = r.dimms /\ goalCall'[u].answer = r.answer
         /\ goalCall'[u].alone => \A w \in Clients : Pc(w) = "idle"
         /\ goalCall'[u].whole => G!WholeSets
         /\ \A w \in Clients \ {u} :
              /\ goalCall'[w].kind = goalCall[w].kind /\ goalCall'[w].pc = goalCall[w].pc
              /\ goalCall'[w].plan = goalCall[w].plan /\ goalCall'[w].todo = goalCall[w].todo
              /\ goalCall'[w].dimms = goalCall[w].dimms /\ goalCall'[w].answer = goalCall[w].answer
              /\ goalCall'[w].wrote = goalCall[w].wrote /\ goalCall'[w].sets = goalCall[w].sets /\ ~goalCall'[w].alone
<1>1. PICK al \in BOOLEAN : al = \A o \in Clients : goalCall[o].pc = "idle"
  OBVIOUS
<1>2. PICK wh \in BOOLEAN : wh = G!WholeSets
  BY DEF G!WholeSets
<1>3. goalCall'[u] = [r EXCEPT !.whole = wh, !.alone = al]
  BY Zenon, <1>1, <1>2 DEF Begins
<1>4. /\ goalCall'[u].kind = r.kind /\ goalCall'[u].pc = r.pc /\ goalCall'[u].plan = r.plan
      /\ goalCall'[u].todo = r.todo /\ goalCall'[u].dimms = r.dimms /\ goalCall'[u].answer = r.answer
  BY <1>3 DEF CallType
<1>5. goalCall'[u].alone = al /\ goalCall'[u].whole = wh
  BY <1>3 DEF CallType
<1>6. ASSUME NEW w \in Clients \ {u}
      PROVE  /\ goalCall'[w].kind = goalCall[w].kind /\ goalCall'[w].pc = goalCall[w].pc
             /\ goalCall'[w].plan = goalCall[w].plan /\ goalCall'[w].todo = goalCall[w].todo
             /\ goalCall'[w].dimms = goalCall[w].dimms /\ goalCall'[w].answer = goalCall[w].answer
             /\ goalCall'[w].wrote = goalCall[w].wrote /\ goalCall'[w].sets = goalCall[w].sets /\ ~goalCall'[w].alone
  <2>1. goalCall[w] \in CallType
    BY DEF GoalTypes
  <2>2. goalCall'[w] = [goalCall[w] EXCEPT !.alone = FALSE]
    BY DEF Begins
  <2> QED BY <2>1, <2>2 DEF CallType
<1>7. goalCall'[u].alone => \A w \in Clients : Pc(w) = "idle"
  BY Zenon, <1>1, <1>5 DEF Pc
<1>8. ASSUME goalCall'[u].whole PROVE G!WholeSets
  <2>1. wh
    BY Zenon, <1>5, <1>8
  <2> QED BY Zenon, <1>2, <2>1
<1> QED BY <1>4, <1>6, <1>7, <1>8

LEMMA OthersSound ==
  ASSUME NEW u \in Clients, NEW w \in Clients \ {u}, KindOK(w), PlanOK(w),
         goalCall'[w].kind = goalCall[w].kind, goalCall'[w].pc = goalCall[w].pc,
         goalCall'[w].plan = goalCall[w].plan
  PROVE  KindOK(w)' /\ PlanOK(w)'
BY DEF KindOK, PlanOK, Pc, Kind

LEMMA SoundMove ==
  ASSUME GoalTypes, NEW u \in Clients, KindOK(u), PlanOK(u), Moves(u)
  PROVE  /\ KindOK(u)' /\ PlanOK(u)'
         /\ \A w \in Clients \ {u} : /\ goalCall'[w].kind = goalCall[w].kind
                                     /\ goalCall'[w].pc = goalCall[w].pc
                                     /\ goalCall'[w].plan = goalCall[w].plan
<1>1. CASE BeginsCall(u)
  <2>1. PICK r \in CallType : Begins(u, r) /\ StartedAs(r)
    BY <1>1 DEF BeginsCall
  <2>2. /\ goalCall'[u].kind = r.kind /\ goalCall'[u].pc = r.pc /\ goalCall'[u].plan = r.plan
        /\ \A w \in Clients \ {u} : /\ goalCall'[w].kind = goalCall[w].kind
                                    /\ goalCall'[w].pc = goalCall[w].pc
                                    /\ goalCall'[w].plan = goalCall[w].plan
    BY <2>1, BeginFields
  <2>3. {} \notin r.plan /\ (r.pc = "check" => r.plan # {})
    <3>1. CASE r.kind = "allocate"
      <4>1. r.plan = {r.dimms \cap G!SocketDimms(s) : s \in G!SocketsOf(r.dimms)} /\ r.dimms # {} /\ r.dimms \in SUBSET Dimms
        BY <2>1, <3>1 DEF StartedAs, CallType
      <4>2. ASSUME NEW s \in G!SocketsOf(r.dimms) PROVE r.dimms \cap G!SocketDimms(s) # {}
        <5>1. PICK d \in r.dimms : SocketOf[d] = s
          BY <4>2 DEF G!SocketsOf
        <5>2. d \in G!SocketDimms(s)
          BY <4>1, <5>1 DEF G!SocketDimms
        <5> QED BY <5>1, <5>2
      <4>3. G!SocketsOf(r.dimms) # {}
        <5>1. PICK d : d \in r.dimms
          BY Zenon, <4>1
        <5>2. SocketOf[d] \in G!SocketsOf(r.dimms)
          BY <5>1 DEF G!SocketsOf
        <5> QED BY <5>2
      <4> QED BY <3>1, <4>1, <4>2, <4>3
    <3> QED BY <2>1, <3>1 DEF StartedAs
  <2> QED BY <2>1, <2>2, <2>3 DEF StartedAs, KindOK, PlanOK, Pc, Kind
<1>2. ASSUME Stays(u), NEW x \in Pcs, goalCall'[u].pc = x, goalCall'[u].plan \subseteq goalCall[u].plan,
             x \in {"check", "prompt", "write"} => Kind(u) \in {"create", "allocate"},
             x = "check" => goalCall'[u].plan # {},
             x = "load" => Kind(u) = "import", x = "dump" => Kind(u) = "export",
             x = "remove" => Kind(u) \in {"delete", "remove", "import"}
      PROVE  /\ KindOK(u)' /\ PlanOK(u)'
             /\ \A w \in Clients \ {u} : /\ goalCall'[w].kind = goalCall[w].kind
                                         /\ goalCall'[w].pc = goalCall[w].pc
                                         /\ goalCall'[w].plan = goalCall[w].plan
  BY <1>2 DEF Stays, KindOK, PlanOK, Pc, Kind
<1>3. ASSUME NEW x, ToldTo(u, x)
      PROVE  /\ Stays(u) /\ goalCall'[u].pc = "told" /\ goalCall'[u].plan \subseteq goalCall[u].plan
  BY <1>3 DEF ToldTo
<1>p. {"check", "prompt", "write", "told", "remove", "load", "dump"} \subseteq Pcs
  BY DEF Pcs
<1>4. CASE LaysOut(u)
  <2>1. CASE ToldTo(u, "failed")
    BY <1>p, <1>2, <1>3, <2>1
  <2>2. CASE Stays(u) /\ goalCall'[u].pc \in {"prompt", "write"} /\ goalCall'[u].plan \subseteq goalCall[u].plan
    <3>1. Kind(u) \in {"create", "allocate"}
      BY <1>4 DEF LaysOut
    <3> QED BY <1>p, <1>2, <2>2, <3>1
  <2> QED BY <1>4, <2>1, <2>2 DEF LaysOut
<1>5. CASE Confirms(u)
  <2>1. CASE GoesTo(u, "write")
    <3>1. Kind(u) = "create" /\ Stays(u)
      BY <1>5, <2>1 DEF Confirms, GoesTo
    <3>2. goalCall'[u].pc = "write" /\ goalCall'[u].plan = goalCall[u].plan
      BY <2>1, <1>p, GoesToFields
    <3> QED BY <1>p, <1>2, <3>1, <3>2
  <2> QED BY <1>p, <1>5, <1>2, <1>3, <2>1 DEF Confirms
<1>6. CASE WritesGoal(u)
  <2>1. CASE DropsWritten(u)
    <3>1. Kind(u) \in {"create", "allocate"} /\ Pc(u) = "write" /\ Stays(u)
      BY <1>6, <2>1 DEF WritesGoal, DropsWritten
    <3>2. goalCall'[u].pc = "write" /\ goalCall'[u].plan = goalCall[u].plan
      BY <2>1, <3>1, DropsWrittenFields DEF Pc
    <3> QED BY <1>p, <1>2, <3>1, <3>2
  <2> QED BY <1>p, <1>6, <1>2, <1>3, <2>1 DEF WritesGoal
<1>7. CASE FinishesRequest(u)
  <2>1. CASE GoesTo(u, "check") /\ goalCall[u].plan # {}
    <3>1. Kind(u) \in {"create", "allocate"} /\ Stays(u)
      BY <1>7, <2>1 DEF FinishesRequest, GoesTo
    <3>2. goalCall'[u].pc = "check" /\ goalCall'[u].plan = goalCall[u].plan
      BY <2>1, <1>p, GoesToFields
    <3> QED BY <1>p, <1>2, <2>1, <3>1, <3>2
  <2> QED BY <1>p, <1>7, <1>2, <1>3, <2>1 DEF FinishesRequest
<1>8. CASE Deletes(u)
  <2>0. Kind(u) \in {"delete", "remove", "import"} /\ Pc(u) = "remove"
    BY <1>8 DEF Deletes, KindOK
  <2>1. CASE DropsWritten(u)
    <3>1. Stays(u) /\ goalCall'[u].pc = "remove" /\ goalCall'[u].plan = goalCall[u].plan
      BY <2>0, <2>1, DropsWrittenFields DEF Pc, DropsWritten
    <3> QED BY <1>p, <1>2, <2>0, <3>1
  <2>2. CASE Drops(u)
    <3>1. Stays(u) /\ goalCall'[u].pc = "remove" /\ goalCall'[u].plan = goalCall[u].plan
      BY <2>0, <2>2, DropsFields DEF Pc, Drops
    <3> QED BY <1>p, <1>2, <2>0, <3>1
  <2>3. CASE Stays(u) /\ goalCall'[u] = [goalCall[u] EXCEPT !.todo = @ \ {G!First(u)}, !.answer = "failed"]
    <3>1. Stays(u) /\ goalCall'[u].pc = "remove" /\ goalCall'[u].plan = goalCall[u].plan
      BY <2>0, <2>3, FailedFields DEF Pc
    <3> QED BY <1>p, <1>2, <2>0, <3>1
  <2> QED BY <1>p, <1>8, <1>2, <1>3, <2>1, <2>2, <2>3 DEF Deletes
<1>9. CASE FinishesRemoval(u)
  BY <1>p, <1>9, <1>2, <1>3 DEF FinishesRemoval
<1>10. CASE Dumps(u)
  <2>0. Kind(u) = "export" /\ Pc(u) = "dump"
    BY <1>10 DEF Dumps
  <2>1. CASE DropsWritten(u)
    <3>1. Stays(u) /\ goalCall'[u].pc = "dump" /\ goalCall'[u].plan = goalCall[u].plan
      BY <2>0, <2>1, DropsWrittenFields DEF Pc, DropsWritten
    <3> QED BY <1>p, <1>2, <2>0, <3>1
  <2>2. CASE Drops(u)
    <3>1. Stays(u) /\ goalCall'[u].pc = "dump" /\ goalCall'[u].plan = goalCall[u].plan
      BY <2>0, <2>2, DropsFields DEF Pc, Drops
    <3> QED BY <1>p, <1>2, <2>0, <3>1
  <2> QED BY <1>p, <1>10, <1>2, <1>3, <2>1, <2>2 DEF Dumps
<1>11. CASE FinishesDump(u)
  BY <1>p, <1>11, <1>2, <1>3 DEF FinishesDump
<1>12. CASE Loads(u)
  <2>0. Kind(u) = "import" /\ Pc(u) = "load"
    BY <1>12 DEF Loads
  <2>1. CASE Drops(u)
    <3>1. Stays(u) /\ goalCall'[u].pc = "load" /\ goalCall'[u].plan = goalCall[u].plan
      BY <2>0, <2>1, DropsFields DEF Pc, Drops
    <3> QED BY <1>p, <1>2, <2>0, <3>1
  <2>2. CASE Stays(u) /\ goalCall'[u] = [goalCall[u] EXCEPT !.todo = goalCall[u].dimms, !.pc = "remove"]
    <3>1. goalCall'[u].pc = "remove" /\ goalCall'[u].plan = goalCall[u].plan
      BY <2>2, RevertFields
    <3> QED BY <1>p, <1>2, <2>0, <2>2, <3>1
  <2> QED BY <1>12, <2>1, <2>2 DEF Loads
<1>13. CASE FinishesLoad(u)
  BY <1>p, <1>13, <1>2, <1>3 DEF FinishesLoad
<1>14. CASE Returns(u)
  BY <1>14, IdleIs DEF Returns, KindOK, PlanOK, Pc, Kind
<1> QED BY Zenon, <1>1, <1>4, <1>5, <1>6, <1>7, <1>8, <1>9, <1>10, <1>11, <1>12, <1>13, <1>14 DEF Moves

-----------------------------------------------------------------------------
(* Kinds and plans *)

\* What a move of u leaves of the calls of others.
OthersKeep(u) ==
  \A w \in Clients \ {u} :
    /\ goalCall'[w].kind = goalCall[w].kind /\ goalCall'[w].pc = goalCall[w].pc
    /\ goalCall'[w].plan = goalCall[w].plan /\ goalCall'[w].todo = goalCall[w].todo
    /\ goalCall'[w].dimms = goalCall[w].dimms /\ goalCall'[w].answer = goalCall[w].answer
    /\ goalCall'[w].wrote = goalCall[w].wrote /\ goalCall'[w].sets = goalCall[w].sets

LEMMA BusyMove ==
  ASSUME NEW u \in Clients, Moves(u), ~BeginsCall(u)
  PROVE  /\ Pc(u) # "idle" /\ \A w \in Clients \ {u} : goalCall'[w] = goalCall[w]
         /\ ~Returns(u) => Stays(u)
<1>1. CASE Returns(u)
  BY <1>1 DEF Returns
<1>2. CASE LaysOut(u) \/ Confirms(u) \/ WritesGoal(u) \/ FinishesRequest(u)
  BY <1>2 DEF LaysOut, Confirms, WritesGoal, FinishesRequest, ToldTo, GoesTo, DropsWritten, Stays
<1>3. CASE Deletes(u) \/ FinishesRemoval(u) \/ Dumps(u) \/ FinishesDump(u) \/ Loads(u) \/ FinishesLoad(u)
  BY <1>3 DEF Deletes, FinishesRemoval, Dumps, FinishesDump, Loads, FinishesLoad, ToldTo, Drops, DropsWritten, Stays
<1> QED BY <1>1, <1>2, <1>3 DEF Moves

LEMMA OthersAre ==
  ASSUME GoalTypes, NEW u \in Clients, Moves(u)
  PROVE  OthersKeep(u)
<1>1. CASE BeginsCall(u)
  <2>1. PICK r \in CallType : Begins(u, r)
    BY <1>1 DEF BeginsCall
  <2> QED BY <2>1, BeginFields DEF OthersKeep
<1>2. CASE ~BeginsCall(u)
  BY <1>2, BusyMove DEF OthersKeep
<1> QED BY <1>1, <1>2

LEMMA SoundStep ==
  ASSUME GoalTypes, KindsInv, PlanInv, G!Next
  PROVE  KindsInv' /\ PlanInv'
<1>1. ASSUME NEW u \in Clients, Moves(u) PROVE KindsInv' /\ PlanInv'
  <2>1. KindOK(u)' /\ PlanOK(u)'
    BY <1>1, SoundMove DEF KindsInv, PlanInv
  <2>2. ASSUME NEW w \in Clients \ {u} PROVE KindOK(w)' /\ PlanOK(w)'
    BY <1>1, SoundMove, OthersSound DEF KindsInv, PlanInv
  <2> QED BY <2>1, <2>2 DEF KindsInv, PlanInv
<1>2. CASE Restarts
  BY <1>2, IdleIs DEF Restarts, KindsInv, PlanInv, KindOK, PlanOK, Pc, Kind
<1>3. CASE UNCHANGED goalCall
  BY <1>3 DEF KindsInv, PlanInv, KindOK, PlanOK, Pc, Kind
<1> QED BY <1>1, <1>2, <1>3, StepIs DEF ChangesUse, Replaces

-----------------------------------------------------------------------------
(* A call alone *)

LEMMA AloneStep ==
  ASSUME GoalTypes, PlanInv, AloneInv, G!Next
  PROVE  AloneInv'
<1>1. ASSUME NEW u \in Clients, Moves(u) PROVE AloneInv'
  <2>1. CASE BeginsCall(u)
    <3>1. PICK r \in CallType : Begins(u, r)
      BY <2>1 DEF BeginsCall
    <3>2. /\ goalCall'[u].alone => \A w \in Clients : Pc(w) = "idle"
          /\ \A w \in Clients \ {u} : goalCall'[w].pc = goalCall[w].pc /\ ~goalCall'[w].alone
      BY <3>1, BeginFields
    <3> QED BY <3>2 DEF AloneInv, Pc
  <2>2. CASE ~BeginsCall(u)
    <3>1. Pc(u) # "idle" /\ \A w \in Clients \ {u} : goalCall'[w] = goalCall[w]
      BY <1>1, <2>2, BusyMove
    <3>2. CASE Returns(u)
      BY <3>1, <3>2, IdleIs DEF Returns, AloneInv, Pc
    <3>3. CASE Stays(u)
      BY <3>1, <3>3 DEF Stays, AloneInv, Pc
    <3> QED BY <1>1, <2>2, <3>2, <3>3, BusyMove
  <2> QED BY <2>1, <2>2
<1>2. CASE Restarts
  BY <1>2, IdleIs DEF Restarts, AloneInv, Pc
<1>3. CASE UNCHANGED goalCall
  BY <1>3 DEF AloneInv, Pc
<1> QED BY <1>1, <1>2, <1>3, StepIs DEF ChangesUse, Replaces

\* A step of u leaves no other call alone.
LEMMA OthersNotAlone ==
  ASSUME GoalTypes, AloneInv, NEW u \in Clients, Moves(u), NEW w \in Clients \ {u}
  PROVE  ~(Pc(w)' # "idle" /\ goalCall'[w].alone)
<1>1. CASE BeginsCall(u)
  <2>1. PICK r \in CallType : Begins(u, r)
    BY <1>1 DEF BeginsCall
  <2> QED BY <2>1, BeginFields
<1>2. CASE ~BeginsCall(u)
  BY <1>2, BusyMove DEF AloneInv, Pc
<1> QED BY <1>1, <1>2

-----------------------------------------------------------------------------
(* Sets lie on sockets *)

\* The sets a call is about to write.
SetsInv ==
  \A u \in Clients :
    Pc(u) \in {"prompt", "write"} => \A d \in Dimms : InSocket(d, goalCall[u].sets[d])

LEMMA SetsStep ==
  ASSUME GoalTypes, PlanInv, SetsInv, G!Next
  PROVE  SetsInv'
<1>1. ASSUME NEW u \in Clients, Moves(u) PROVE SetsInv'
  <2>1. ASSUME NEW w \in Clients \ {u}, (Pc(w) \in {"prompt", "write"})'
        PROVE  \A d \in Dimms : InSocket(d, goalCall'[w].sets[d])
    BY <1>1, <2>1, OthersAre DEF OthersKeep, SetsInv, Pc
  <2>2. ASSUME goalCall'[u].pc \in {"prompt", "write"}
        PROVE  \A d \in Dimms : InSocket(d, goalCall'[u].sets[d])
    <3>1. CASE LaysOut(u)
      <4>1. PICK D \in goalCall[u].plan, f \in [Dimms -> SUBSET Dimms] :
              f \in G!Layouts(D) /\ goalCall'[u].sets = f
        BY <2>2, <3>1 DEF LaysOut, ToldTo
      <4>2. ASSUME NEW d \in Dimms PROVE InSocket(d, f[d])
        <5>1. CASE f = [e \in Dimms |-> D \cap G!SocketDimms(SocketOf[e])]
          BY <5>1 DEF InSocket
        <5>2. CASE f = [e \in Dimms |-> {e}]
          BY <5>2 DEF InSocket, G!SocketDimms
        <5> QED BY <4>1, <5>1, <5>2 DEF G!Layouts
      <4> QED BY <4>1, <4>2
    <3>2. CASE Pc(u) \in {"prompt", "write"} /\ goalCall'[u].sets = goalCall[u].sets
      BY <3>2 DEF SetsInv
    <3>3. CASE BeginsCall(u)
      <4>1. PICK r \in CallType : Begins(u, r) /\ StartedAs(r)
        BY <3>3 DEF BeginsCall
      <4>2. goalCall'[u].pc = r.pc
        BY <4>1, BeginFields
      <4> QED BY <2>2, <4>1, <4>2 DEF StartedAs
    <3>4. CASE Confirms(u)
      <4>1. GoesTo(u, "write") /\ Pc(u) = "prompt"
        BY <2>2, <3>4 DEF Confirms, ToldTo
      <4> QED BY <3>2, <4>1, GoesToFields DEF Pcs
    <3>5. CASE WritesGoal(u)
      <4>1. DropsWritten(u) /\ Pc(u) = "write"
        BY <2>2, <3>5 DEF WritesGoal, ToldTo
      <4> QED BY <3>2, <4>1, DropsWrittenFields
    <3>6. CASE FinishesRequest(u)
      <4>1. GoesTo(u, "check")
        BY <2>2, <3>6 DEF FinishesRequest, ToldTo
      <4> QED BY <2>2, <4>1, GoesToFields DEF Pcs
    <3>7. CASE Deletes(u)
      <4>1. goalCall'[u].pc = "told" \/ goalCall'[u].pc = goalCall[u].pc
        BY <3>7, DropsWrittenFields, DropsFields, FailedFields DEF Deletes, ToldTo
      <4> QED BY <2>2, <3>7, <4>1 DEF Deletes, Pc
    <3>8. CASE FinishesRemoval(u) \/ FinishesDump(u) \/ FinishesLoad(u)
      BY <2>2, <3>8 DEF FinishesRemoval, FinishesDump, FinishesLoad, ToldTo
    <3>9. CASE Dumps(u)
      <4>1. goalCall'[u].pc = "told" \/ goalCall'[u].pc = goalCall[u].pc
        BY <3>9, DropsWrittenFields, DropsFields DEF Dumps, ToldTo
      <4> QED BY <2>2, <3>9, <4>1 DEF Dumps, Pc
    <3>10. CASE Loads(u)
      <4>1. goalCall'[u].pc = "remove" \/ goalCall'[u].pc = goalCall[u].pc
        BY <3>10, DropsFields, RevertFields DEF Loads
      <4> QED BY <2>2, <3>10, <4>1 DEF Loads, Pc
    <3>11. CASE Returns(u)
      BY <2>2, <3>11, IdleIs DEF Returns
    <3> QED BY <1>1, <3>1, <3>3, <3>4, <3>5, <3>6, <3>7, <3>8, <3>9, <3>10, <3>11 DEF Moves
  <2> QED BY <2>1, <2>2 DEF SetsInv, Pc, InSocket
<1>2. CASE Restarts
  BY <1>2, IdleIs DEF Restarts, SetsInv, Pc
<1>3. CASE UNCHANGED goalCall
  BY <1>3 DEF SetsInv, Pc, InSocket
<1> QED BY <1>1, <1>2, <1>3, StepIs DEF ChangesUse, Replaces

\* Sets that the goals and the file name lie within sockets.
LineInSocket(line) == line.dimm \in Dimms => InSocket(line.dimm, line.set)
GoalsInSockets == \A d \in Dimms : InSocket(d, goal[d].set)
ConfigInSockets == \A d \in Dimms : InSocket(d, config[d])
LinesInSockets == \A k \in DOMAIN file : LineInSocket(file[k])

LEMMA GoalInSocket ==
  ASSUME GoalsInSockets, NEW u \in Clients, NEW d \in Dimms, NEW set, GetsGoal(u, d, set), InSocket(d, set)
  PROVE  GoalsInSockets'
<1>1. goal'[d].set = set /\ \A e \in Dimms \ {d} : goal'[e] = goal[e]
  BY DEF GetsGoal
<1> QED BY <1>1 DEF GoalsInSockets, InSocket

LEMMA NoGoalInSocket ==
  ASSUME GoalsInSockets, NEW d \in Dimms, LosesGoal(d)
  PROVE  GoalsInSockets'
<1>1. goal'[d].set = {} /\ \A e \in Dimms \ {d} : goal'[e] = goal[e]
  BY DEF LosesGoal, G!NoGoal
<1> QED BY <1>1 DEF GoalsInSockets, InSocket

LEMMA FileInSockets ==
  ASSUME GoalTypes, LinesInSockets, ConfigInSockets, NEW d \in Dimms,
         file' = Append(file, LineHere(d)) \/ file' = <<LineHere(d)>>
  PROVE  LinesInSockets'
<1>1. LineInSocket(LineHere(d))
  BY DEF LineInSocket, LineHere, G!LineFor, ConfigInSockets
<1>2. file \in Seq(LineType)
  BY DEF GoalTypes
<1>3. ASSUME NEW k \in DOMAIN file' PROVE LineInSocket(file'[k])
  <2>1. file'[k] = LineHere(d) \/ (k \in DOMAIN file /\ file'[k] = file[k])
    BY <1>2
  <2> QED BY <1>1, <2>1 DEF LinesInSockets
<1> QED BY <1>3 DEF LinesInSockets, LineInSocket, InSocket

\* A DIMM the platform has not seen is a replacement, and smaller.
NewIsSmall == \A d \in new : size[d] = 1

LEMMA SocketsAre == SocketsInv <=> GoalsInSockets /\ ConfigInSockets /\ LinesInSockets /\ NewIsSmall
BY DEF SocketsInv, GoalsInSockets, ConfigInSockets, LinesInSockets, LineInSocket, NewIsSmall

LEMMA SocketsStep ==
  ASSUME GoalTypes, PlanInv, SetsInv, SocketsInv, G!Next
  PROVE  SocketsInv'
<1>0. GoalsInSockets /\ ConfigInSockets /\ LinesInSockets /\ NewIsSmall
  BY SocketsAre
<1>1. UNCHANGED goal => GoalsInSockets'
  BY <1>0 DEF GoalsInSockets, InSocket
<1>2. UNCHANGED config => ConfigInSockets'
  BY <1>0 DEF ConfigInSockets, InSocket
<1>3. UNCHANGED file => LinesInSockets'
  BY <1>0 DEF LinesInSockets, LineInSocket, InSocket
<1>4. UNCHANGED <<size, new>> => NewIsSmall'
  BY <1>0 DEF NewIsSmall
<1>5. ASSUME NEW u \in Clients, Moves(u)
      PROVE  GoalsInSockets' /\ ConfigInSockets' /\ LinesInSockets' /\ NewIsSmall'
  <2>1. CASE BeginsCall(u) \/ LaysOut(u) \/ Confirms(u) \/ FinishesRequest(u) \/ FinishesRemoval(u)
             \/ FinishesDump(u) \/ FinishesLoad(u)
    <3>1. UNCHANGED <<goal, config, size, new, file>>
      BY <2>1 DEF BeginsCall, Begins, LaysOut, Confirms, FinishesRequest, FinishesRemoval, FinishesDump,
                  FinishesLoad, Nowhere
    <3> QED BY <3>1, <1>1, <1>2, <1>3, <1>4
  <2>2. CASE WritesGoal(u)
    <3>1. UNCHANGED <<config, size, new, file>>
      BY <2>2 DEF WritesGoal
    <3>2. GoalsInSockets'
      <4>1. CASE UNCHANGED goal
        BY <4>1, <1>1
      <4>2. CASE GetsGoal(u, G!First(u), goalCall[u].sets[G!First(u)])
        <5>1. G!First(u) \in Dimms
          BY <2>2, FirstIsLeast DEF WritesGoal
        <5>2. InSocket(G!First(u), goalCall[u].sets[G!First(u)])
          BY <2>2, <5>1 DEF WritesGoal, SetsInv
        <5> QED BY <1>0, <4>2, <5>1, <5>2, GoalInSocket
      <4> QED BY <2>2, <4>1, <4>2 DEF WritesGoal
    <3> QED BY <3>1, <3>2, <1>2, <1>3, <1>4
  <2>3. CASE Deletes(u)
    <3>1. UNCHANGED <<config, size, new, file>>
      BY <2>3 DEF Deletes
    <3>2. G!First(u) \in Dimms
      BY <2>3, FirstIsLeast DEF Deletes
    <3>3. GoalsInSockets'
      BY <1>0, <1>1, <2>3, <3>2, NoGoalInSocket DEF Deletes
    <3> QED BY <3>1, <3>3, <1>2, <1>3, <1>4
  <2>4. CASE Dumps(u)
    <3>1. UNCHANGED <<goal, config, size, new>>
      BY <2>4 DEF Dumps
    <3>2. G!First(u) \in Dimms
      BY <2>4, FirstIsLeast DEF Dumps
    <3>3. LinesInSockets'
      <4>1. UNCHANGED file \/ file' = Append(file, LineHere(G!First(u))) \/ file' = <<LineHere(G!First(u))>>
        BY <2>4 DEF Dumps
      <4> QED BY <1>0, <1>3, <3>2, <4>1, FileInSockets
    <3> QED BY <3>1, <3>3, <1>1, <1>2, <1>4
  <2>5. CASE Loads(u)
    <3>1. UNCHANGED <<config, size, new, file>>
      BY <2>5 DEF Loads
    <3>2. GoalsInSockets'
      <4>1. CASE UNCHANGED goal
        BY <4>1, <1>1
      <4>2. CASE G!LinesOf(G!First(u)) # {} /\ GetsGoal(u, G!First(u), G!LineOf(G!First(u)).set)
        <5>1. G!First(u) \in Dimms
          BY <2>5, FirstIsLeast DEF Loads
        <5>2. PICK k \in DOMAIN file : G!LineOf(G!First(u)) = file[k] /\ file[k].dimm = G!First(u)
          BY <4>2, <5>1, LineOfIs
        <5>3. InSocket(G!First(u), G!LineOf(G!First(u)).set)
          BY <1>0, <5>1, <5>2 DEF LinesInSockets, LineInSocket
        <5> QED BY <1>0, <4>2, <5>1, <5>3, GoalInSocket
      <4> QED BY <2>5, <4>1, <4>2 DEF Loads
    <3> QED BY <3>1, <3>2, <1>2, <1>3, <1>4
  <2>6. CASE Returns(u)
    <3>1. UNCHANGED <<file, config, size, new>> /\ \A d \in Dimms : goal'[d].set = goal[d].set
      BY <2>6 DEF Returns
    <3>2. GoalsInSockets'
      BY <1>0, <3>1 DEF GoalsInSockets, InSocket
    <3> QED BY <3>1, <3>2, <1>2, <1>3, <1>4
  <2> QED BY <1>5, <2>1, <2>2, <2>3, <2>4, <2>5, <2>6 DEF Moves
<1>6. ASSUME Restarts
      PROVE  GoalsInSockets' /\ ConfigInSockets' /\ LinesInSockets' /\ NewIsSmall'
  <2>1. /\ UNCHANGED <<file, size>> /\ new' \subseteq new
        /\ \A d \in Dimms : goal'[d].set = goal[d].set /\ config'[d] \in {goal[d].set, config[d]}
    BY <1>6 DEF Restarts
  <2>2. GoalsInSockets' /\ ConfigInSockets' /\ NewIsSmall'
    BY <1>0, <2>1 DEF GoalsInSockets, ConfigInSockets, NewIsSmall, InSocket
  <2> QED BY <2>1, <2>2, <1>3
<1>7. ASSUME ChangesUse
      PROVE  GoalsInSockets' /\ ConfigInSockets' /\ LinesInSockets' /\ NewIsSmall'
  <2>1. UNCHANGED <<goal, config, size, new, file>>
    BY <1>7 DEF ChangesUse
  <2> QED BY <2>1, <1>1, <1>2, <1>3, <1>4
<1>8. ASSUME NEW d \in Dimms, Replaces(d)
      PROVE  GoalsInSockets' /\ ConfigInSockets' /\ LinesInSockets' /\ NewIsSmall'
  <2>1. /\ UNCHANGED file /\ LosesGoal(d) /\ new' = new \cup {d} /\ size'[d] = 1
        /\ (\A e \in Dimms \ {d} : size'[e] = size[e]) /\ config'[d] = {}
        /\ \A e \in Dimms \ {d} : config'[e] = config[e]
    BY <1>8 DEF Replaces
  <2>2. GoalsInSockets'
    BY <1>0, <2>1, NoGoalInSocket
  <2>3. ConfigInSockets'
    BY <1>0, <2>1 DEF ConfigInSockets, InSocket
  <2>4. NewIsSmall'
    BY <1>0, <2>1 DEF NewIsSmall, GoalTypes
  <2> QED BY <2>1, <2>2, <2>3, <2>4, <1>3
<1>9. CASE GoalsInSockets' /\ ConfigInSockets' /\ LinesInSockets' /\ NewIsSmall'
  BY <1>9, SocketsAre, PTL
<1> QED BY <1>5, <1>6, <1>7, <1>8, <1>9, StepIs

-----------------------------------------------------------------------------
(* What calls leave behind *)

LEMMA MoveFaults ==
  ASSUME GoalTypes, NEW u \in Clients, Moves(u)
  PROVE  FaultsGrow
<1>1. CASE BeginsCall(u)
  <2>1. goalUsed' = [goalUsed EXCEPT !.calls = @ + 1]
    BY <1>1 DEF BeginsCall, Begins
  <2> QED BY <2>1 DEF FaultsGrow, GoalTypes
<1>2. CASE Returns(u)
  BY <1>2 DEF Returns, FaultsGrow, GoalTypes
<1>3. CASE LaysOut(u) \/ Confirms(u) \/ WritesGoal(u) \/ FinishesRequest(u)
  BY <1>3 DEF LaysOut, Confirms, WritesGoal, FinishesRequest, Nowhere
<1>4. CASE Deletes(u) \/ FinishesRemoval(u) \/ Dumps(u) \/ FinishesDump(u) \/ Loads(u) \/ FinishesLoad(u)
  BY <1>4 DEF Deletes, FinishesRemoval, Dumps, FinishesDump, Loads, FinishesLoad, Nowhere
<1> QED BY <1>1, <1>2, <1>3, <1>4 DEF Moves

\* A step of u adds nothing to the goals of others.
LEMMA OthersLose ==
  ASSUME GoalTypes, NEW u \in Clients, Moves(u), NEW w \in Clients \ {u}
  PROVE  Mine(w)' \subseteq Mine(w)
<1>1. ASSUME UNCHANGED goal PROVE Mine(w)' \subseteq Mine(w)
  BY <1>1 DEF Mine
<1>2. ASSUME NEW d \in Dimms, NEW set, GetsGoal(u, d, set) PROVE Mine(w)' \subseteq Mine(w)
  <2>1. goal'[d].by = {u} /\ \A e \in Dimms \ {d} : goal'[e] = goal[e]
    BY <1>2 DEF GetsGoal
  <2> QED BY <2>1 DEF Mine
<1>3. ASSUME NEW d \in Dimms, LosesGoal(d) PROVE Mine(w)' \subseteq Mine(w)
  <2>1. goal'[d].by = {} /\ \A e \in Dimms \ {d} : goal'[e] = goal[e]
    BY <1>3 DEF LosesGoal, G!NoGoal
  <2> QED BY <2>1 DEF Mine
<1>4. CASE BeginsCall(u) \/ LaysOut(u) \/ Confirms(u) \/ FinishesRequest(u) \/ FinishesRemoval(u)
           \/ FinishesDump(u) \/ FinishesLoad(u) \/ Dumps(u)
  <2>1. UNCHANGED goal
    BY <1>4 DEF BeginsCall, Begins, LaysOut, Confirms, FinishesRequest, FinishesRemoval, FinishesDump,
                FinishesLoad, Dumps, Nowhere
  <2> QED BY <2>1, <1>1
<1>5. CASE WritesGoal(u)
  <2>1. G!First(u) \in Dimms
    BY <1>5, FirstIsLeast DEF WritesGoal
  <2> QED BY <1>1, <1>2, <1>5, <2>1 DEF WritesGoal
<1>6. CASE Deletes(u)
  <2>1. G!First(u) \in Dimms
    BY <1>6, FirstIsLeast DEF Deletes
  <2> QED BY <1>1, <1>3, <1>6, <2>1 DEF Deletes
<1>7. CASE Loads(u)
  <2>1. G!First(u) \in Dimms
    BY <1>7, FirstIsLeast DEF Loads
  <2> QED BY <1>1, <1>2, <1>7, <2>1 DEF Loads
<1>8. CASE Returns(u)
  <2>1. \A d \in Dimms : goal'[d].by = goal[d].by \ {u}
    BY <1>8 DEF Returns
  <2> QED BY <2>1 DEF Mine
<1> QED BY <1>4, <1>5, <1>6, <1>7, <1>8, <1>1 DEF Moves

LEMMA LeftLess ==
  ASSUME NEW k \in CallType, NEW l \in CallType, NEW M, NEW N, NEW f \in Nat, NEW g \in Nat,
         Left(k, M, f), N \subseteq M, f <= g,
         l.kind = k.kind, l.pc = k.pc, l.plan = k.plan, l.todo = k.todo, l.dimms = k.dimms,
         l.answer = k.answer, l.wrote = k.wrote
  PROVE  Left(l, N, g)
BY DEF Left, One

LEMMA OthersLeft ==
  ASSUME GoalTypes, GoalTypes', LeavesInv, NEW u \in Clients, Moves(u), NEW w \in Clients \ {u}
  PROVE  Left(goalCall'[w], Mine(w)', goalUsed'.faults)
<1>1. goalCall[w] \in CallType /\ goalCall'[w] \in CallType /\ goalUsed.faults \in Nat /\ goalUsed'.faults \in Nat
  BY DEF GoalTypes
<1>2. Mine(w)' \subseteq Mine(w)
  BY OthersLose
<1>3. goalUsed.faults <= goalUsed'.faults
  BY <1>1, MoveFaults DEF FaultsGrow
<1>4. /\ goalCall'[w].kind = goalCall[w].kind /\ goalCall'[w].pc = goalCall[w].pc
      /\ goalCall'[w].plan = goalCall[w].plan /\ goalCall'[w].todo = goalCall[w].todo
      /\ goalCall'[w].dimms = goalCall[w].dimms /\ goalCall'[w].answer = goalCall[w].answer
      /\ goalCall'[w].wrote = goalCall[w].wrote
  BY OthersAre DEF OthersKeep
<1>5. Left(goalCall[w], Mine(w), goalUsed.faults)
  BY DEF LeavesInv
<1> HIDE DEF Mine
<1> QED BY <1>1, <1>2, <1>3, <1>4, <1>5, LeftLess

\* A single socket makes a single request.
LEMMA SingleRequest ==
  ASSUME NEW D \in SUBSET Dimms, Cardinality(G!SocketsOf(D)) = 1
  PROVE  \E E \in SUBSET Dimms : {D \cap G!SocketDimms(s) : s \in G!SocketsOf(D)} = {E}
<1>1. IsFiniteSet(D)
  <2>1. IsFiniteSet(Dimms)
    BY DimmsAssumption
  <2> QED BY <2>1, FS_Subset, Zenon
<1>2. IsFiniteSet(G!SocketsOf(D))
  <2> DEFINE f == [d \in D |-> SocketOf[d]]
  <2>1. f \in Surjection(D, G!SocketsOf(D))
    <3>1. f \in [D -> G!SocketsOf(D)]
      BY DEF G!SocketsOf
    <3>2. ASSUME NEW s \in G!SocketsOf(D) PROVE \E d \in D : f[d] = s
      BY DEF G!SocketsOf
    <3> QED BY Zenon, <3>1, <3>2 DEF Surjection
  <2> HIDE DEF f
  <2> QED BY <1>1, <2>1, FS_Surjection, Zenon
<1>3. PICK s : G!SocketsOf(D) = {s}
  BY <1>2, FS_Singleton
<1>4. {D \cap G!SocketDimms(t) : t \in {s}} = {D \cap G!SocketDimms(s)}
  OBVIOUS
<1>5. D \cap G!SocketDimms(s) \in SUBSET Dimms
  OBVIOUS
<1> QED BY Zenon, <1>3, <1>4, <1>5

\* What a step of u leaves u.
LEMMA LeftBegin ==
  ASSUME GoalTypes, NEW u \in Clients, Left(goalCall[u], Mine(u), goalUsed.faults), BeginsCall(u)
  PROVE  Left(goalCall'[u], Mine(u)', goalUsed'.faults)
<1>1. PICK r \in CallType : Begins(u, r) /\ StartedAs(r)
  BY DEF BeginsCall
<1>2. /\ goalCall'[u].kind = r.kind /\ goalCall'[u].pc = r.pc /\ goalCall'[u].plan = r.plan
      /\ goalCall'[u].todo = r.todo /\ goalCall'[u].dimms = r.dimms
  BY <1>1, BeginFields
<1>3. Mine(u)' = {}
  <2>1. Mine(u) = {} /\ UNCHANGED goal
    BY <1>1 DEF Left, Begins
  <2> QED BY <2>1 DEF Mine
<1>4. /\ r.pc \in {"check", "remove", "dump", "load", "told"} /\ (r.pc \in {"load", "remove"} => r.todo = r.dimms)
      /\ One(r) /\ r.pc = "check" => \E D \in SUBSET Dimms : r.plan = {D}
  <2>1. CASE r.kind = "allocate"
    <3>1. r.pc = "check" /\ r.plan = {r.dimms \cap G!SocketDimms(s) : s \in G!SocketsOf(r.dimms)}
          /\ r.dimms \in SUBSET Dimms
      BY <1>1, <2>1 DEF StartedAs, CallType
    <3>2. Cardinality(G!SocketsOf(r.dimms)) = 1 => \E D \in SUBSET Dimms : r.plan = {D}
      BY <3>1, SingleRequest
    <3> QED BY <2>1, <3>1, <3>2 DEF One
  <2>2. CASE r.kind # "allocate"
    BY <1>1, <2>2 DEF StartedAs, One, CallType
  <2> QED BY <2>1, <2>2
<1> HIDE DEF Mine
<1> QED BY <1>2, <1>3, <1>4 DEF Left, One

LEMMA LeftMove ==
  ASSUME GoalTypes, GoalTypes', NEW u \in Clients, KindOK(u), Moves(u), ~BeginsCall(u),
         Left(goalCall[u], Mine(u), goalUsed.faults)
  PROVE  Left(goalCall'[u], Mine(u)', goalUsed'.faults)
<1> DEFINE k == goalCall[u]
           l == goalCall'[u]
           M == Mine(u)
           f == goalUsed.faults
           g == goalUsed'.faults
<1>0. PICK N : N = Mine(u)'
  OBVIOUS
<1>1. k \in CallType /\ l \in CallType /\ f \in Nat /\ g \in Nat /\ g >= f
  BY MoveFaults DEF GoalTypes, FaultsGrow
<1>2. UNCHANGED goal => N = M
  BY <1>0 DEF Mine
<1>3. Left(k, M, f)
  OBVIOUS
<1>4. ASSUME Stays(u) PROVE l.kind = k.kind /\ l.dimms = k.dimms
  BY <1>4 DEF Stays
<1>5. ASSUME NEW x, ToldTo(u, x),
             x = "failed" /\ (One(k) \/ (k.kind = "import" /\ g = 0)) => N = {}
      PROVE  Left(l, N, g)
  <2>1. l.pc = "told" /\ l.answer = x /\ l.kind = k.kind /\ l.dimms = k.dimms
    BY <1>4, <1>5 DEF ToldTo
  <2> HIDE DEF l, k, g
  <2> QED BY <2>1, <1>5 DEF Left, One
<1>6. SUFFICES Left(l, N, g)
  BY <1>0
<1>d. k.todo # {} => G!First(u) \in k.todo /\ k.todo \subseteq Dimms
  BY FirstIsLeast DEF GoalTypes, CallType
<1>w. ASSUME NEW set, GetsGoal(u, G!First(u), set) PROVE N \subseteq M \cup {G!First(u)}
  <2>1. \A e \in Dimms \ {G!First(u)} : goal'[e] = goal[e]
    BY <1>w DEF GetsGoal
  <2> QED BY <1>0, <2>1 DEF Mine
<1>7. CASE LaysOut(u)
  <2>1. UNCHANGED goal /\ k.pc = "check" /\ k.kind \in {"create", "allocate"}
    BY <1>7 DEF LaysOut, Nowhere, Pc, Kind
  <2>2. One(k) => N = {} /\ \E D \in SUBSET Dimms : k.plan = {D}
    BY <1>2, <1>3, <2>1 DEF Left
  <2>3. CASE ToldTo(u, "failed")
    <3> HIDE DEF k, l, M, f, g
    <3> QED BY <1>5, <2>1, <2>2, <2>3
  <2>4. ASSUME NEW D \in goalCall[u].plan, NEW x \in {"prompt", "write"},
               Stays(u), l.pc = x, l.plan = k.plan \ {D}, l.wrote = {}
        PROVE  Left(l, N, g)
    <3>1. l.kind = k.kind /\ l.dimms = k.dimms
      BY <1>4, <2>4
    <3>2. D \in k.plan
      OBVIOUS
    <3> HIDE DEF k, l, M, f, g
    <3> QED BY <2>1, <2>2, <2>4, <3>1, <3>2 DEF Left, One
  <2> QED BY <1>7, <2>3, <2>4 DEF LaysOut
<1>8. CASE Confirms(u)
  <2>1. UNCHANGED goal /\ k.pc = "prompt" /\ k.kind = "create"
    BY <1>8 DEF Confirms, Nowhere, Pc, Kind
  <2>2. CASE GoesTo(u, "write")
    <3>1. l.pc = "write" /\ l.plan = k.plan /\ l.wrote = k.wrote /\ l.kind = k.kind
      BY <2>2, <1>4, GoesToFields DEF GoesTo, Pcs
    <3> HIDE DEF k, l, M, f, g
    <3> QED BY <1>2, <1>3, <2>1, <3>1 DEF Left, One
  <2>3. CASE ToldTo(u, "unchanged")
    <3> HIDE DEF k, l, M, f, g
    <3> QED BY <1>5, <2>3
  <2> QED BY <1>8, <2>2, <2>3 DEF Confirms
<1>9. CASE WritesGoal(u)
  <2>1. k.pc = "write" /\ k.kind \in {"create", "allocate"} /\ k.todo # {}
    BY <1>9 DEF WritesGoal, Pc, Kind
  <2>2. One(k) => k.plan = {} /\ M \subseteq k.wrote
    BY <1>3, <2>1 DEF Left
  <2>3. CASE GetsGoal(u, G!First(u), goalCall[u].sets[G!First(u)]) /\ DropsWritten(u)
    <3>1. l.pc = "write" /\ l.plan = k.plan /\ l.wrote = k.wrote \cup {G!First(u)} /\ l.kind = k.kind
          /\ l.dimms = k.dimms
      BY <2>1, <2>3, <1>4, DropsWrittenFields DEF DropsWritten
    <3>2. N \subseteq M \cup {G!First(u)}
      BY <1>w, <2>3
    <3> HIDE DEF k, l, M, f, g
    <3> QED BY <2>1, <2>2, <3>1, <3>2 DEF Left, One
  <2>4. CASE ToldTo(u, G!FailedAnswer(goalCall[u].wrote)) /\ UNCHANGED goal
    <3>1. G!FailedAnswer(goalCall[u].wrote) = "failed" => k.wrote = {}
      BY DEF G!FailedAnswer
    <3>2. N = M
      BY <1>2, <2>4
    <3>3. PICK x : x = G!FailedAnswer(goalCall[u].wrote)
      OBVIOUS
    <3>4. ToldTo(u, x)
      BY <2>4, <3>3
    <3>5. x = "failed" /\ One(k) => N = {}
      BY <2>2, <3>1, <3>2, <3>3
    <3> HIDE DEF k, l, M, f, g
    <3> QED BY <1>5, <2>1, <3>4, <3>5
  <2> QED BY <1>9, <2>3, <2>4 DEF WritesGoal
<1>10. CASE FinishesRequest(u)
  <2>1. k.pc = "write" /\ k.kind \in {"create", "allocate"}
    BY <1>10 DEF FinishesRequest, Pc, Kind
  <2>2. CASE ToldTo(u, "done")
    <3> HIDE DEF k, l, M, f, g
    <3> QED BY <1>5, <2>2
  <2>3. CASE GoesTo(u, "check") /\ k.plan # {}
    <3>1. l.pc = "check" /\ l.kind = k.kind /\ l.dimms = k.dimms
      BY <2>3, <1>4, GoesToFields DEF GoesTo, Pcs
    <3> HIDE DEF k, l, M, f, g
    <3> QED BY <1>3, <2>1, <2>3, <3>1 DEF Left, One
  <2> QED BY <1>10, <2>2, <2>3 DEF FinishesRequest
<1>11. CASE Deletes(u)
  <2>1. k.pc = "remove" /\ k.kind \in {"delete", "remove", "import"} /\ k.todo # {}
    BY <1>11 DEF Deletes, Pc, Kind, KindOK
  <2>2. k.todo \subseteq k.dimms /\ (k.kind = "import" /\ f = 0 => M \subseteq k.todo)
    BY <1>3, <2>1 DEF Left
  <2>3. ASSUME Stays(u), l.pc = "remove", l.todo = k.todo \ {G!First(u)},
               k.kind # "delete" => N \subseteq M \ {G!First(u)}
        PROVE  Left(l, N, g)
    <3>1. l.kind = k.kind /\ l.dimms = k.dimms
      BY <1>4, <2>3
    <3> HIDE DEF k, l, M, f, g
    <3> QED BY <1>1, <2>1, <2>2, <2>3, <3>1 DEF Left, One
  <2>4. CASE LosesGoal(G!First(u)) /\ DropsWritten(u)
    <3>1. l.pc = "remove" /\ l.todo = k.todo \ {G!First(u)} /\ Stays(u)
      BY <2>1, <2>4, DropsWrittenFields DEF DropsWritten
    <3>2. N \subseteq M \ {G!First(u)}
      <4>1. goal'[G!First(u)].by = {} /\ \A e \in Dimms \ {G!First(u)} : goal'[e] = goal[e]
        BY <2>4 DEF LosesGoal, G!NoGoal
      <4> QED BY <1>0, <4>1 DEF Mine
    <3> QED BY <2>3, <3>1, <3>2
  <2>5. CASE UNCHANGED goal /\ goal[G!First(u)] = G!NoGoal /\ Drops(u)
    <3>1. l.pc = "remove" /\ l.todo = k.todo \ {G!First(u)} /\ Stays(u)
      BY <2>1, <2>5, DropsFields DEF Drops
    <3>2. N \subseteq M \ {G!First(u)}
      <4>1. goal[G!First(u)].by = {}
        BY <2>5 DEF G!NoGoal
      <4> QED BY <1>0, <2>5, <4>1 DEF Mine
    <3> QED BY <2>3, <3>1, <3>2
  <2>6. CASE k.kind = "delete" /\ Stays(u)
             /\ goalCall'[u] = [goalCall[u] EXCEPT !.todo = @ \ {G!First(u)}, !.answer = "failed"]
    <3>1. l.pc = "remove" /\ l.todo = k.todo \ {G!First(u)}
      BY <2>1, <2>6, FailedFields
    <3> QED BY <2>3, <2>6, <3>1
  <2>7. CASE k.kind # "delete" /\ g # 0 /\ ToldTo(u, G!FailedAnswer(goalCall[u].wrote))
    <3>1. ~One(k)
      BY <2>1 DEF One
    <3>2. PICK x : x = G!FailedAnswer(goalCall[u].wrote)
      OBVIOUS
    <3>3. ToldTo(u, x)
      BY <2>7, <3>2
    <3> HIDE DEF k, l, M, f, g
    <3> QED BY <1>5, <2>7, <3>1, <3>3
  <2> QED BY <1>11, <2>4, <2>5, <2>6, <2>7 DEF Deletes, Kind
<1>12. CASE FinishesRemoval(u)
  <2>1. k.pc = "remove" /\ k.kind \in {"delete", "remove", "import"} /\ k.todo = {} /\ UNCHANGED goal
    BY <1>12 DEF FinishesRemoval, Nowhere, Pc, Kind, KindOK
  <2>2. PICK x \in Answers : ToldTo(u, x)
    BY <1>12 DEF FinishesRemoval
  <2>3. ~One(k)
    BY <2>1 DEF One
  <2>4. k.kind = "import" /\ g = 0 => N = {}
    <3> HIDE DEF k, l, M, f, g
    <3> QED BY <1>1, <1>2, <1>3, <2>1 DEF Left
  <2> HIDE DEF k, l, M, f, g
  <2> QED BY <1>5, <2>2, <2>3, <2>4
<1>13. CASE Dumps(u) \/ FinishesDump(u)
  <2>1. k.pc = "dump" /\ k.kind = "export"
    BY <1>13 DEF Dumps, FinishesDump, Pc, Kind
  <2>2. l.kind = "export" /\ l.pc \in {"dump", "told"}
    BY <1>13, <2>1, <1>4, DropsFields, DropsWrittenFields DEF Dumps, FinishesDump, Drops, DropsWritten, ToldTo
  <2> HIDE DEF k, l, M, f, g
  <2> QED BY <2>2 DEF Left, One
<1>14. CASE Loads(u)
  <2>1. k.pc = "load" /\ k.kind = "import" /\ k.todo # {}
    BY <1>14 DEF Loads, Pc, Kind
  <2>2. k.todo \subseteq k.dimms /\ (f = 0 => M \subseteq k.dimms)
    BY <1>3, <2>1 DEF Left
  <2>3. CASE Drops(u) /\ N \subseteq M \cup {G!First(u)}
    <3>1. l.pc = "load" /\ l.todo = k.todo \ {G!First(u)} /\ l.kind = k.kind /\ l.dimms = k.dimms
      BY <2>1, <2>3, <1>4, DropsFields DEF Drops
    <3> HIDE DEF k, l, M, f, g
    <3> QED BY <1>1, <1>d, <2>1, <2>2, <2>3, <3>1 DEF Left, One
  <2>4. CASE UNCHANGED goal /\ Stays(u)
             /\ goalCall'[u] = [goalCall[u] EXCEPT !.todo = goalCall[u].dimms, !.pc = "remove"]
    <3>1. l.pc = "remove" /\ l.todo = k.dimms /\ l.kind = k.kind /\ l.dimms = k.dimms
      BY <2>4, <1>4, RevertFields
    <3> HIDE DEF k, l, M, f, g
    <3> QED BY <1>1, <1>2, <2>1, <2>2, <2>4, <3>1 DEF Left, One
  <2> QED BY <1>14, <1>2, <1>w, <2>3, <2>4 DEF Loads
<1>15. CASE FinishesLoad(u)
  <2>1. ToldTo(u, "done")
    BY <1>15 DEF FinishesLoad
  <2> HIDE DEF k, l, M, f, g
  <2> QED BY <1>5, <2>1
<1>16. CASE Returns(u)
  <2>1. l.pc = "idle" /\ l.kind = "idle"
    BY <1>16, IdleIs DEF Returns
  <2>2. N = {}
    <3>1. \A d \in Dimms : goal'[d].by = goal[d].by \ {u}
      BY <1>16 DEF Returns
    <3> QED BY <1>0, <3>1 DEF Mine
  <2> HIDE DEF k, l, M, f, g
  <2> QED BY <2>1, <2>2 DEF Left, One
<1> QED BY <1>7, <1>8, <1>9, <1>10, <1>11, <1>12, <1>13, <1>14, <1>15, <1>16 DEF Moves

LEMMA LeavesStep ==
  ASSUME GoalTypes, PlanInv, KindsInv, LeavesInv, G!Next
  PROVE  LeavesInv'
<1>0. GoalTypes'
  BY StepIs
<1>1. ASSUME NEW u \in Clients, Moves(u), NEW w \in Clients
      PROVE  Left(goalCall'[w], Mine(w)', goalUsed'.faults)
  <2>0. Left(goalCall[w], Mine(w), goalUsed.faults) /\ KindOK(w)
    BY DEF LeavesInv, KindsInv
  <2>1. CASE w = u /\ BeginsCall(u)
    BY <2>0, <2>1, LeftBegin
  <2>2. CASE w = u /\ ~BeginsCall(u)
    BY <1>0, <1>1, <2>0, <2>2, LeftMove
  <2>3. CASE w # u
    BY <1>0, <1>1, <2>3, OthersLeft
  <2> QED BY <2>1, <2>2, <2>3
<1>2. ASSUME Restarts, NEW w \in Clients
      PROVE  Left(goalCall'[w], Mine(w)', goalUsed'.faults)
  <2>1. goalCall'[w].pc = "idle" /\ goalCall'[w].kind = "idle"
    BY <1>2, IdleIs DEF Restarts
  <2>2. Mine(w)' = {}
    BY <1>2 DEF Restarts, Mine
  <2> QED BY <2>1, <2>2 DEF Left, One
<1>3. ASSUME ChangesUse \/ \E d \in Dimms : Replaces(d), NEW w \in Clients
      PROVE  Left(goalCall'[w], Mine(w)', goalUsed'.faults)
  <2>1. UNCHANGED goalCall /\ FaultsGrow
    BY <1>3 DEF ChangesUse, Replaces
  <2>2. Mine(w)' \subseteq Mine(w)
    <3>1. CASE ChangesUse
      BY <3>1 DEF ChangesUse, Mine
    <3>2. ASSUME NEW d \in Dimms, Replaces(d) PROVE Mine(w)' \subseteq Mine(w)
      <4>1. goal'[d].by = {} /\ \A e \in Dimms \ {d} : goal'[e] = goal[e]
        BY <3>2 DEF Replaces, LosesGoal, G!NoGoal
      <4> QED BY <4>1 DEF Mine
    <3> QED BY <1>3, <3>1, <3>2
  <2>3. goalCall[w] \in CallType /\ goalUsed.faults \in Nat /\ goalUsed'.faults \in Nat
        /\ goalUsed.faults <= goalUsed'.faults
    BY <1>0, <2>1 DEF GoalTypes, FaultsGrow
  <2>4. Left(goalCall[w], Mine(w), goalUsed.faults)
    BY DEF LeavesInv
  <2>5. Left(goalCall[w], Mine(w)', goalUsed'.faults)
    <3> HIDE DEF Mine
    <3> QED BY <2>2, <2>3, <2>4, LeftLess
  <2> QED BY <2>1, <2>5
<1>4. ASSUME NEW w \in Clients PROVE Left(goalCall'[w], Mine(w)', goalUsed'.faults)
  BY <1>1, <1>2, <1>3, StepIs
<1> QED BY <1>4 DEF LeavesInv

\* The invariant gives the property.
LEMMA LeavesGives ==
  ASSUME GoalTypes, LeavesInv
  PROVE  G!FailedLeavesNothing
<1>1. ASSUME NEW u \in Clients, goalCall[u].pc = "told", goalCall[u].answer = "failed",
             One(goalCall[u]) \/ (goalCall[u].kind = "import" /\ goalUsed.faults = 0)
      PROVE  \A d \in Dimms : u \notin goal[d].by
  <2>1. Mine(u) = {}
    BY <1>1 DEF LeavesInv, Left
  <2> QED BY <2>1 DEF Mine
<1>2. \A D : G!Cardinality(D) = Cardinality(D)
  BY Zenon DEF G!Cardinality, Cardinality
<1> QED BY Zenon, <1>1, <1>2 DEF G!FailedLeavesNothing, G!Answered, One

-----------------------------------------------------------------------------
(* Lines of an export *)

LEMMA AppendedLines ==
  ASSUME NEW f \in Seq(LineType), NEW line \in LineType
  PROVE  /\ {Append(f, line)[k] : k \in DOMAIN Append(f, line)} = {f[k] : k \in DOMAIN f} \cup {line}
         /\ (\A k \in DOMAIN f : f[k].dimm < line.dimm) /\ G!InOrder(f) => G!InOrder(Append(f, line))
<1> DEFINE g == Append(f, line)
           n == Len(f)
<1>1. /\ n \in Nat /\ DOMAIN f = 1..n /\ DOMAIN g = 1..(n + 1) /\ g[n + 1] = line
      /\ \A k \in 1..n : g[k] = f[k]
  OBVIOUS
<1> HIDE DEF g, n
<1>2. {g[k] : k \in DOMAIN g} = {f[k] : k \in DOMAIN f} \cup {line}
  <2>1. \A k \in DOMAIN g : k = n + 1 \/ k \in DOMAIN f
    BY <1>1
  <2>2. \A k \in DOMAIN f : k \in DOMAIN g
    BY <1>1
  <2>3. n + 1 \in DOMAIN g
    BY <1>1
  <2> QED BY <1>1, <2>1, <2>2, <2>3
<1>3. ASSUME \A k \in DOMAIN f : f[k].dimm < line.dimm, G!InOrder(f),
             NEW j \in DOMAIN g, NEW k \in DOMAIN g, j < k
      PROVE  g[j].dimm < g[k].dimm
  <2>1. j \in DOMAIN f /\ g[j] = f[j]
    BY <1>1, <1>3
  <2>2. CASE k = n + 1
    BY <1>1, <1>3, <2>1, <2>2
  <2>3. CASE k # n + 1
    <3>1. k \in DOMAIN f /\ g[k] = f[k]
      BY <1>1, <2>3
    <3> QED BY <1>3, <2>1, <3>1 DEF G!InOrder
  <2> QED BY <2>2, <2>3
<1>4. (\A k \in DOMAIN f : f[k].dimm < line.dimm) /\ G!InOrder(f) => G!InOrder(g)
  BY <1>3 DEF G!InOrder
<1> QED BY <1>2, <1>4 DEF g

\* One line more.
LEMMA AnotherLine ==
  ASSUME NEW f \in Seq(LineType), NEW c \in [Dimms -> SUBSET Dimms], NEW s \in [Dimms -> {1, 2}],
         NEW X \in SUBSET Dimms, NEW d \in Dimms, \A x \in X : x < d, c[d] # {}, Holds(f, X, c, s)
  PROVE  f # G!NoFile /\ Holds(Append(f, G!LineFor(d, c[d], s[d])), X \cup {d}, c, s)
<1> DEFINE line == G!LineFor(d, c[d], s[d])
<1>1. line \in LineType /\ line.dimm = d
  BY DimmsAssumption DEF G!LineFor, LineType
<1>2. \A k \in DOMAIN f : f[k].dimm \in X
  <2>1. ASSUME NEW k \in DOMAIN f PROVE f[k].dimm \in X
    <3>1. f[k] \in LinesFor(X, c, s)
      BY DEF Holds
    <3>2. PICK o \in X : f[k] = G!LineFor(o, c[o], s[o])
      BY <3>1 DEF LinesFor
    <3> QED BY <3>2 DEF G!LineFor
  <2> QED BY <2>1
<1>3. f # G!NoFile
  <2>1. ASSUME f = G!NoFile PROVE FALSE
    <3>1. 1 \in DOMAIN f /\ f[1].dimm = 0
      BY <2>1 DEF G!NoFile, G!LineFor
    <3> QED BY <3>1, <1>2, DimmsAssumption
  <2> QED BY <2>1
<1>4. LinesFor(X \cup {d}, c, s) = LinesFor(X, c, s) \cup {line}
  BY DEF LinesFor
<1>5. \A k \in DOMAIN f : f[k].dimm < line.dimm
  BY <1>1, <1>2
<1> HIDE DEF line
<1>6. /\ {Append(f, line)[k] : k \in DOMAIN Append(f, line)} = {f[k] : k \in DOMAIN f} \cup {line}
      /\ G!InOrder(Append(f, line))
  BY <1>1, <1>5, AppendedLines DEF Holds
<1>7. Holds(Append(f, line), X \cup {d}, c, s)
  BY Zenon, <1>4, <1>6 DEF Holds
<1> QED BY <1>3, <1>7 DEF line

LEMMA FirstLine ==
  ASSUME NEW c, NEW s, NEW d, c[d] # {}
  PROVE  Holds(<<G!LineFor(d, c[d], s[d])>>, {d}, c, s)
<1> DEFINE line == G!LineFor(d, c[d], s[d])
<1>1. G!InOrder(<<line>>)
  BY DEF G!InOrder
<1>2. {<<line>>[j] : j \in DOMAIN <<line>>} = {line}
  OBVIOUS
<1>3. LinesFor({d}, c, s) = {line}
  BY DEF LinesFor
<1> QED BY <1>1, <1>2, <1>3 DEF Holds

LEMMA NoLineMore ==
  ASSUME NEW f, NEW c, NEW s, NEW X, NEW d, c[d] = {}, Holds(f, X, c, s)
  PROVE  Holds(f, X \cup {d}, c, s)
BY DEF Holds, LinesFor

LEMMA DumpStep ==
  ASSUME GoalTypes, NEW u \in Clients, Dumps(u), Exported(goalCall[u], file, config, size)
  PROVE  Exported(goalCall'[u], file', config', size')
<1> DEFINE k == goalCall[u]
           l == goalCall'[u]
           d == G!First(u)
<1>0. /\ k.kind = "export" /\ k.pc = "dump" /\ k.todo # {} /\ k.todo \in SUBSET Dimms
      /\ UNCHANGED <<config, size>>
  BY DEF Dumps, Kind, Pc, GoalTypes, CallType
<1>1. d \in k.todo /\ d \in Dimms /\ \A y \in k.todo : d <= y
  BY <1>0, FirstIsLeast
<1>2. Dimms \subseteq Nat
  BY DimmsAssumption
<1>3. CASE ToldTo(u, "failed")
  BY <1>3 DEF ToldTo, Exported
<1>4. ASSUME Drops(u) \/ DropsWritten(u), k.alone, config[Min(Dimms)] # {}
      PROVE  /\ l.pc = "dump" /\ l.todo = k.todo \ {d} /\ l.todo # Dimms
             /\ \A x \in Dimms \ l.todo, y \in l.todo : x < y
             /\ k.todo # Dimms => Holds(file, Dimms \ k.todo, config, size)
             /\ Dimms \ l.todo = (Dimms \ k.todo) \cup {d}
             /\ \A x \in Dimms \ k.todo : x < d
  <2>1. l.pc = "dump" /\ l.todo = k.todo \ {d}
    BY <1>0, <1>4, DropsFields, DropsWrittenFields
  <2>2. /\ \A x \in Dimms \ k.todo, y \in k.todo : x < y
        /\ k.todo # Dimms => Holds(file, Dimms \ k.todo, config, size)
    BY <1>0, <1>4 DEF Exported
  <2> HIDE DEF k, l, d
  <2>3. \A x \in Dimms \ l.todo, y \in l.todo : x < y
    <3> SUFFICES ASSUME NEW x \in Dimms \ l.todo, NEW y \in l.todo PROVE x < y
      OBVIOUS
    <3>1. CASE x = d
      BY <1>0, <1>1, <1>2, <2>1, <3>1
    <3>2. CASE x # d
      BY <1>0, <1>1, <2>1, <2>2, <3>2
    <3> QED BY <3>1, <3>2
  <2> QED BY <1>0, <1>1, <2>1, <2>2, <2>3
<1>5. CASE /\ config[G!First(u)] # {} /\ DropsWritten(u)
           /\ file' = IF goalCall[u].todo # Dimms /\ file # G!NoFile
                      THEN Append(file, LineHere(G!First(u))) ELSE <<LineHere(G!First(u))>>
  <2> SUFFICES ASSUME k.alone, config[Min(Dimms)] # {} PROVE Exported(l, file', config', size')
    BY <1>0, <1>5 DEF Exported, DropsWritten, Stays
  <2>1. /\ l.pc = "dump" /\ \A x \in Dimms \ l.todo, y \in l.todo : x < y
        /\ k.todo # Dimms => Holds(file, Dimms \ k.todo, config, size)
        /\ Dimms \ l.todo = (Dimms \ k.todo) \cup {d} /\ \A x \in Dimms \ k.todo : x < d
    BY <1>4, <1>5
  <2>2. Holds(file', Dimms \ l.todo, config, size)
    <3>1. CASE k.todo # Dimms
      <4>1. file \in Seq(LineType) /\ config \in [Dimms -> SUBSET Dimms] /\ size \in [Dimms -> {1, 2}]
        BY DEF GoalTypes
      <4>2. file # G!NoFile
            /\ Holds(Append(file, G!LineFor(d, config[d], size[d])), (Dimms \ k.todo) \cup {d}, config, size)
        <5>1. Dimms \ k.todo \in SUBSET Dimms /\ config[d] # {} /\ Holds(file, Dimms \ k.todo, config, size)
          BY <1>5, <2>1, <3>1
        <5> HIDE DEF k, l, d
        <5> QED BY <1>1, <2>1, <4>1, <5>1, AnotherLine
      <4>3. file' = Append(file, G!LineFor(d, config[d], size[d]))
        BY <1>5, <3>1, <4>2 DEF LineHere
      <4> QED BY <2>1, <4>2, <4>3
    <3>2. CASE k.todo = Dimms
      <4>1. file' = <<G!LineFor(d, config[d], size[d])>>
        BY <1>5, <3>2 DEF LineHere
      <4>2. Dimms \ l.todo = {d}
        BY <2>1, <3>2
      <4> QED BY <1>5, <4>1, <4>2, FirstLine
    <3> QED BY <3>1, <3>2
  <2> HIDE DEF k, l, d
  <2> QED BY <1>0, <2>1, <2>2 DEF Exported
<1>6. CASE config[G!First(u)] = {} /\ UNCHANGED file /\ Drops(u)
  <2> SUFFICES ASSUME k.alone, config[Min(Dimms)] # {} PROVE Exported(l, file', config', size')
    BY <1>0, <1>6 DEF Exported, Drops, Stays
  <2>1. /\ l.pc = "dump" /\ \A x \in Dimms \ l.todo, y \in l.todo : x < y
        /\ k.todo # Dimms => Holds(file, Dimms \ k.todo, config, size)
        /\ Dimms \ l.todo = (Dimms \ k.todo) \cup {d}
    BY <1>4, <1>6
  <2>2. k.todo # Dimms
    <3>1. d = Min(k.todo)
      BY Zenon DEF G!First, G!Min, Min
    <3>2. config[Min(k.todo)] = {}
      BY <1>6, <3>1
    <3> QED BY <3>2
  <2>3. Holds(file', Dimms \ l.todo, config, size)
    <3>1. config[d] = {} /\ Holds(file, Dimms \ k.todo, config, size) /\ file' = file
      BY <1>6, <2>1, <2>2
    <3> HIDE DEF k, l, d
    <3>2. Holds(file, (Dimms \ k.todo) \cup {d}, config, size)
      BY Zenon, <3>1, NoLineMore
    <3> QED BY <2>1, <3>1, <3>2
  <2> HIDE DEF k, l, d
  <2> QED BY <1>0, <2>1, <2>3 DEF Exported
<1> QED BY <1>3, <1>5, <1>6 DEF Dumps

LEMMA ExportMove ==
  ASSUME GoalTypes, NEW u \in Clients, KindOK(u), Moves(u), Exported(goalCall[u], file, config, size)
  PROVE  Exported(goalCall'[u], file', config', size')
<1>1. CASE BeginsCall(u)
  <2>1. PICK r \in CallType : Begins(u, r) /\ StartedAs(r)
    BY <1>1 DEF BeginsCall
  <2>2. goalCall'[u].kind = r.kind /\ goalCall'[u].pc = r.pc /\ goalCall'[u].todo = r.todo
    BY <2>1, BeginFields
  <2>3. r.kind = "export" => r.pc = "dump" /\ r.todo = Dimms
    BY <2>1 DEF StartedAs
  <2> QED BY <2>2, <2>3 DEF Exported
<1>2. ASSUME goalCall[u].kind # "export", Stays(u) PROVE Exported(goalCall'[u], file', config', size')
  BY <1>2 DEF Stays, Exported
<1>3. CASE ~BeginsCall(u) /\ ~Returns(u) /\ ~Dumps(u) /\ ~FinishesDump(u)
  <2>1. Stays(u)
    BY <1>3, BusyMove
  <2>2. goalCall[u].kind # "export"
    BY <1>3 DEF Moves, LaysOut, Confirms, WritesGoal, FinishesRequest, Deletes, FinishesRemoval, Loads,
                FinishesLoad, KindOK, Kind, Pc
  <2> QED BY <1>2, <2>1, <2>2
<1>4. CASE Returns(u)
  BY <1>4, IdleIs DEF Returns, Exported
<1>5. CASE Dumps(u)
  BY <1>5, DumpStep
<1>6. CASE FinishesDump(u)
  <2>1. goalCall[u].kind = "export" /\ goalCall[u].pc = "dump" /\ goalCall[u].todo = {}
        /\ UNCHANGED <<file, config, size>>
    BY <1>6 DEF FinishesDump, Kind, Pc, Nowhere
  <2>2. goalCall'[u].pc = "told" /\ goalCall'[u].alone = goalCall[u].alone
    BY <1>6 DEF FinishesDump, ToldTo, Stays
  <2>3. goalCall[u].alone /\ config[Min(Dimms)] # {} => Holds(file, Dimms, config, size)
    <3>1. Dimms \ goalCall[u].todo = Dimms /\ goalCall[u].todo # Dimms
      BY <2>1, DimmsAssumption
    <3> QED BY <2>1, <3>1 DEF Exported
  <2> QED BY <2>1, <2>2, <2>3 DEF Exported
<1> QED BY <1>1, <1>3, <1>4, <1>5, <1>6

LEMMA ExportStep ==
  ASSUME GoalTypes, PlanInv, KindsInv, AloneInv, ExportInv, G!Next
  PROVE  ExportInv'
<1>1. ASSUME NEW u \in Clients, Moves(u), NEW w \in Clients
      PROVE  Exported(goalCall'[w], file', config', size')
  <2>1. CASE w = u
    BY <1>1, <2>1, ExportMove DEF ExportInv, KindsInv
  <2>2. CASE w # u
    <3>1. ~(goalCall'[w].pc # "idle" /\ goalCall'[w].alone)
      BY <1>1, <2>2, OthersNotAlone DEF Pc
    <3> QED BY <3>1 DEF Exported
  <2> QED BY <2>1, <2>2
<1>2. ASSUME Restarts, NEW w \in Clients PROVE Exported(goalCall'[w], file', config', size')
  BY <1>2, IdleIs DEF Restarts, Exported
<1>3. ASSUME ChangesUse, NEW w \in Clients PROVE Exported(goalCall'[w], file', config', size')
  BY <1>3 DEF ChangesUse, ExportInv
<1>4. ASSUME NEW d \in Dimms, Replaces(d), NEW w \in Clients PROVE Exported(goalCall'[w], file', config', size')
  <2>1. goalCall'[w].pc = "idle"
    BY <1>4 DEF Replaces, Pc
  <2> QED BY <2>1 DEF Exported
<1>5. ASSUME NEW w \in Clients PROVE Exported(goalCall'[w], file', config', size')
  BY <1>1, <1>2, <1>3, <1>4, StepIs
<1> QED BY <1>5 DEF ExportInv

LEMMA ExportGives ==
  ASSUME GoalTypes, ExportInv
  PROVE  G!ExportExact
<1>1. G!Min(Dimms) = Min(Dimms)
  BY Zenon DEF G!Min, Min
<1>2. ASSUME NEW u \in Clients, goalCall[u].pc = "told", goalCall[u].answer = "done",
             goalCall[u].kind = "export", goalCall[u].alone, config[Min(Dimms)] # {}
      PROVE  G!InOrder(file) /\ {file[j] : j \in DOMAIN file} = LinesFor(Dimms, config, size)
  BY <1>2 DEF ExportInv, Exported, Holds
<1>3. LinesFor(Dimms, config, size) = G!Configured
  BY Zenon DEF LinesFor, G!Configured
<1> QED BY Zenon, <1>1, <1>2, <1>3 DEF G!ExportExact, G!Answered

-----------------------------------------------------------------------------
(* Whole sets *)

LEMMA WholeSetsAre == G!WholeSets <=> AllWhole(goal)
BY DEF G!WholeSets, AllWhole, New, WholeAt

\* The sets of the DIMMs that are not on a socket of D hold none that is.
LEMMA OffSocket ==
  ASSUME GoalsInSockets, NEW D \in SUBSET Dimms, NEW d \in Dimms \ Within(D), NEW o \in goal[d].set
  PROVE  o \in Dimms /\ o \notin Within(D)
BY DEF GoalsInSockets, InSocket, G!SocketDimms, Within

LEMMA InWithin ==
  ASSUME NEW D \in SUBSET Dimms
  PROVE  D \subseteq Within(D)
BY DEF Within, G!SocketsOf

\* Goals on the sockets of D change nothing for the others.
LEMMA OthersWhole ==
  ASSUME GoalsInSockets, NEW D \in SUBSET Dimms, NEW e \in Within(D),
         \A d \in Dimms \ {e} : goal'[d] = goal[d],
         \A d \in Dimms \ Within(D) : New(goal, d) => WholeAt(goal, d)
  PROVE  \A d \in Dimms \ Within(D) : New(goal', d) => WholeAt(goal', d)
<1> SUFFICES ASSUME NEW d \in Dimms \ Within(D), New(goal', d), NEW o \in goal'[d].set
             PROVE  New(goal', o) /\ goal'[o].set = goal'[d].set
  BY DEF WholeAt
<1>1. goal'[d] = goal[d]
  OBVIOUS
<1>2. o \in Dimms /\ o \notin Within(D)
  BY <1>1, OffSocket
<1>3. goal'[o] = goal[o]
  BY <1>2
<1>4. New(goal, d) /\ o \in goal[d].set
  BY <1>1 DEF New
<1>5. New(goal, o) /\ goal[o].set = goal[d].set
  BY <1>4 DEF WholeAt
<1> QED BY <1>1, <1>3, <1>5 DEF New

\* A layout comes back to its own DIMMs.
LEMMA LayoutClosed ==
  ASSUME NEW D \in SUBSET Dimms, NEW f \in G!Layouts(D), NEW d \in D
  PROVE  f[d] \subseteq D /\ \A o \in f[d] : f[o] = f[d]
<1>1. CASE f = [e \in Dimms |-> D \cap G!SocketDimms(SocketOf[e])]
  BY <1>1 DEF G!SocketDimms
<1>2. CASE f = [e \in Dimms |-> {e}]
  BY <1>2
<1> QED BY <1>1, <1>2 DEF G!Layouts

\* Writing begins with sets that are whole, and ends with them.
LEMMA WritingBegins ==
  ASSUME GoalTypes, AllWhole(goal), NEW D \in SUBSET Dimms, G!MayLayOut(D), NEW f \in G!Layouts(D),
         NEW l, l.todo = D, l.wrote = {}, l.sets = f
  PROVE  Writing(l, goal)
<1>1. \A d \in D : ~New(goal, d)
  BY DEF G!MayLayOut, G!HasGoal, New
<1>2. ASSUME NEW d \in Dimms \ D, New(goal, d) PROVE WholeAt(goal, d) /\ goal[d].set \cap D = {}
  <2>1. WholeAt(goal, d)
    BY <1>2 DEF AllWhole
  <2> QED BY <1>1, <2>1 DEF WholeAt
<1>3. \A d \in D : f[d] \subseteq D /\ \A o \in f[d] : f[o] = f[d]
  BY LayoutClosed
<1> QED BY <1>1, <1>2, <1>3 DEF Writing

LEMMA WritingGoesOn ==
  ASSUME GoalTypes, NEW k \in CallType, NEW l, Writing(k, goal), NEW e \in k.todo, NEW by,
         l.todo = k.todo \ {e}, l.wrote = k.wrote \cup {e}, l.sets = k.sets,
         goal'[e] = [by |-> by, set |-> k.sets[e], status |-> "new"],
         \A d \in Dimms \ {e} : goal'[d] = goal[d]
  PROVE  Writing(l, goal')
<1> DEFINE D == k.todo \cup k.wrote
<1>0. D \subseteq Dimms /\ l.todo \cup l.wrote = D /\ k.todo \subseteq Dimms /\ k.wrote \subseteq Dimms
  BY DEF CallType
<1>1. New(goal', e) /\ goal'[e].set = k.sets[e]
  BY DEF New
<1>2. \A d \in l.wrote : New(goal', d) /\ goal'[d].set = l.sets[d]
  BY <1>0, <1>1 DEF Writing, New
<1>3. \A d \in l.todo \ l.wrote : ~New(goal', d)
  BY <1>0 DEF Writing, New
<1>4. ASSUME NEW d \in Dimms \ D, New(goal', d) PROVE WholeAt(goal', d) /\ goal'[d].set \cap D = {}
  <2>1. goal'[d] = goal[d]
    BY <1>4
  <2>2. WholeAt(goal, d) /\ goal[d].set \cap D = {}
    BY <1>4, <2>1 DEF Writing, New
  <2>3. goal[d].set \subseteq Dimms /\ e \in D
    BY DEF GoalTypes, GoalType
  <2>4. \A o \in goal[d].set : goal'[o] = goal[o]
    BY <2>2, <2>3
  <2> QED BY <2>1, <2>2, <2>4 DEF WholeAt, New
<1>5. \A d \in D : l.sets[d] \subseteq D /\ \A o \in l.sets[d] : l.sets[o] = l.sets[d]
  BY DEF Writing
<1> QED BY <1>0, <1>2, <1>3, <1>4, <1>5 DEF Writing

LEMMA WritingEnds ==
  ASSUME GoalTypes, NEW k \in CallType, Writing(k, goal), k.todo = {}
  PROVE  AllWhole(goal)
<1>1. k.wrote \subseteq Dimms
  BY DEF CallType
<1>2. ASSUME NEW d \in k.wrote PROVE WholeAt(goal, d)
  <2>1. goal[d].set = k.sets[d] /\ k.sets[d] \subseteq k.wrote /\ \A o \in k.sets[d] : k.sets[o] = k.sets[d]
    BY <1>2 DEF Writing
  <2>2. \A o \in k.sets[d] : New(goal, o) /\ goal[o].set = k.sets[o]
    BY <2>1 DEF Writing
  <2> QED BY <2>1, <2>2 DEF WholeAt
<1>3. \A d \in Dimms \ k.wrote : New(goal, d) => WholeAt(goal, d)
  BY DEF Writing
<1> QED BY <1>2, <1>3 DEF AllWhole

\* Removing, one goal after the other.
LEMMA RemovingGoesOn ==
  ASSUME GoalTypes, GoalsInSockets, NEW k \in CallType, NEW l, Removing(k, goal), NEW e \in k.todo,
         k.todo \subseteq k.dimms, l.todo = k.todo \ {e}, l.dimms = k.dimms,
         goal'[e] = G!NoGoal, \A d \in Dimms \ {e} : goal'[d] = goal[d]
  PROVE  Removing(l, goal')
<1>1. e \in Within(k.dimms) /\ k.dimms \in SUBSET Dimms
  BY InWithin DEF CallType
<1>2. \A d \in Dimms \ Within(k.dimms) : New(goal', d) => WholeAt(goal', d)
  BY <1>1, OthersWhole DEF Removing
<1>3. ~New(goal', e)
  BY DEF New, G!NoGoal
<1>4. \A d \in Within(k.dimms) : New(goal', d) => d \in l.todo
  <2> SUFFICES ASSUME NEW d \in Within(k.dimms), New(goal', d) PROVE d \in l.todo
    OBVIOUS
  <2>1. d # e /\ d \in Dimms
    BY <1>3 DEF Within
  <2>2. New(goal, d)
    BY <2>1 DEF New
  <2> QED BY <2>1, <2>2 DEF Removing
<1> QED BY <1>2, <1>4 DEF Removing

LEMMA RemovingSkips ==
  ASSUME NEW k, NEW l, Removing(k, goal), NEW e, ~New(goal, e), l.todo = k.todo \ {e}, l.dimms = k.dimms
  PROVE  Removing(l, goal)
BY DEF Removing

LEMMA RemovingEnds ==
  ASSUME NEW k, Removing(k, goal), k.todo = {}
  PROVE  AllWhole(goal)
BY DEF Removing, AllWhole

\* Loading, one goal after the other, from lines that agree.
LEMMA LoadingBegins ==
  ASSUME AllWhole(goal), NewIsSmall, NEW k \in CallType, k.todo = k.dimms, ~G!PartialSocket(k.dimms),
         Fits(k, size)
  PROVE  Loading(k, goal, file)
<1>1. k.dimms \subseteq Dimms
  BY DEF CallType
<1>2. ASSUME NEW d \in Within(k.dimms) PROVE d \in k.dimms
  <2>1. PICK s \in G!SocketsOf(k.dimms) : SocketOf[d] = s
    BY <1>2 DEF Within
  <2>2. k.dimms \cap G!SocketDimms(s) \in {G!SocketDimms(s), new \cap G!SocketDimms(s)}
    BY Zenon, <2>1 DEF G!PartialSocket
  <2>3. PICK e \in k.dimms : SocketOf[e] = s
    BY <2>1 DEF G!SocketsOf
  <2>4. e \in k.dimms \cap G!SocketDimms(s)
    BY <1>1, <2>3 DEF G!SocketDimms
  <2>5. e \notin new
    BY <2>3 DEF Fits, NewIsSmall
  <2>6. k.dimms \cap G!SocketDimms(s) = G!SocketDimms(s)
    BY <2>2, <2>4, <2>5
  <2>7. d \in G!SocketDimms(s)
    BY <1>2, <2>1 DEF Within, G!SocketDimms
  <2> QED BY <2>6, <2>7
<1> QED BY <1>1, <1>2 DEF Loading, AllWhole

LEMMA LoadingGoesOn ==
  ASSUME GoalTypes, GoalsInSockets, NEW k \in CallType, NEW l, Loading(k, goal, file), NEW e \in k.todo,
         k.todo \subseteq k.dimms, l.todo = k.todo \ {e}, l.dimms = k.dimms,
         NEW j \in DOMAIN file, file[j].dimm = e, NEW by,
         goal'[e] = [by |-> by, set |-> file[j].set, status |-> "new"],
         \A d \in Dimms \ {e} : goal'[d] = goal[d]
  PROVE  Loading(l, goal', file)
<1>1. e \in Within(k.dimms) /\ k.dimms \in SUBSET Dimms
  BY InWithin DEF CallType
<1>2. \A d \in Dimms \ Within(k.dimms) : New(goal', d) => WholeAt(goal', d)
  BY <1>1, OthersWhole DEF Loading
<1>3. ASSUME NEW d \in k.dimms \ l.todo
      PROVE  New(goal', d) /\ \E i \in DOMAIN file : file[i].dimm = d /\ goal'[d].set = file[i].set
  <2>1. CASE d = e
    BY <2>1 DEF New
  <2>2. CASE d # e
    <3>1. d \in k.dimms \ k.todo /\ goal'[d] = goal[d]
      BY <1>1, <1>3, <2>2
    <3> QED BY <3>1 DEF Loading, New
  <2> QED BY <2>1, <2>2
<1> QED BY <1>2, <1>3 DEF Loading

LEMMA LoadingEnds ==
  ASSUME GoalsInSockets, NEW k \in CallType, Loading(k, goal, file), k.todo = {}, Agree(file)
  PROVE  AllWhole(goal)
<1>1. \A d \in Dimms \ Within(k.dimms) : New(goal, d) => WholeAt(goal, d)
  BY DEF Loading
<1>2. ASSUME NEW d \in Dimms, d \in Within(k.dimms), NEW o \in goal[d].set
      PROVE  New(goal, o) /\ goal[o].set = goal[d].set
  <2>1. d \in k.dimms /\ o \in k.dimms
    <3>1. o \in Within(k.dimms)
      BY <1>2 DEF GoalsInSockets, InSocket, G!SocketDimms, Within
    <3> QED BY <1>2, <3>1 DEF Loading
  <2>2. PICK i \in DOMAIN file : file[i].dimm = d /\ goal[d].set = file[i].set
    BY <2>1 DEF Loading
  <2>3. PICK j \in DOMAIN file : file[j].dimm = o /\ goal[o].set = file[j].set
    BY <2>1 DEF Loading
  <2>4. file[j].set = file[i].set
    BY <1>2, <2>2, <2>3 DEF Agree
  <2> QED BY <2>1, <2>2, <2>3, <2>4 DEF Loading
<1> QED BY <1>1, <1>2 DEF AllWhole, WholeAt

\* A file written by this platform asks for no more than a DIMM that has
\* not shrunk holds.
LEMMA NonePassed ==
  ASSUME GoalTypes, NEW d \in Dimms, size[d] = 2
  PROVE  ~G!PassedOver(d)
<1> SUFFICES ASSUME G!PassedOver(d) PROVE FALSE
  OBVIOUS
<1>1. G!LinesOf(d) # {} /\ size[d] < G!LineOf(d).size
  BY DEF G!PassedOver
<1>2. G!LineOf(d) \in LineType
  BY <1>1, LineOfIs
<1> QED BY <1>1, <1>2 DEF LineType

LEMMA WholeBegin ==
  ASSUME GoalTypes, NewIsSmall, NEW u \in Clients, BeginsCall(u)
  PROVE  WholeCall(goalCall'[u], goal', file', size')
<1>1. PICK r \in CallType : Begins(u, r) /\ StartedAs(r) /\ (r.pc # "told" => r.answer = "none")
  BY DEF BeginsCall
<1>2. /\ goalCall'[u].kind = r.kind /\ goalCall'[u].pc = r.pc /\ goalCall'[u].todo = r.todo
      /\ goalCall'[u].dimms = r.dimms /\ goalCall'[u].answer = r.answer
      /\ goalCall'[u].whole => AllWhole(goal)
  BY <1>1, BeginFields, WholeSetsAre
<1>3. UNCHANGED <<goal, file, size>>
  BY <1>1 DEF Begins
<1> SUFFICES ASSUME AllWhole(goal) PROVE WholeCall(goalCall'[u], goal, file, size)
  BY <1>2, <1>3 DEF WholeCall
<1> DEFINE l == goalCall'[u]
<1>l. l \in CallType
  BY <1>1 DEF Begins
<1>4. CASE r.kind \in {"create", "allocate"}
  <2>1. r.pc = "check"
    BY <1>1, <1>4 DEF StartedAs
  <2> QED BY <1>2, <1>4, <2>1 DEF WholeCall
<1>5. CASE r.kind \in {"delete", "remove"}
  <2>1. r.pc = "remove" /\ r.todo = r.dimms /\ \A d \in Within(r.dimms) : goal[d] # G!NoGoal => d \in r.dimms
    BY <1>1, <1>5 DEF StartedAs
  <2>2. \A d \in Dimms : New(goal, d) => goal[d] # G!NoGoal
    BY DEF New, G!NoGoal
  <2>3. Removing(l, goal)
    BY <1>2, <2>1, <2>2 DEF Removing, AllWhole, Within
  <2>4. l.pc = "remove" /\ l.answer = "none" /\ l.kind \in {"delete", "remove"}
    BY <1>1, <1>2, <1>5, <2>1
  <2> HIDE DEF l
  <2>5. WholeCall(l, goal, file, size)
    BY <2>3, <2>4 DEF WholeCall
  <2> QED BY <2>5 DEF l
<1>6. CASE r.kind = "import"
  <2>1. r.pc = "load" => r.todo = r.dimms /\ ~G!PartialSocket(r.dimms)
    BY <1>1, <1>6 DEF StartedAs
  <2>2. r.pc \in {"load", "told"} /\ (r.pc = "told" => r.answer = "failed")
    BY <1>1, <1>6 DEF StartedAs
  <2>3. l.pc = "load" /\ Fits(l, size) => Loading(l, goal, file)
    <3>1. l.pc = r.pc /\ l.todo = r.todo /\ l.dimms = r.dimms
      BY <1>2
    <3>2. l.pc = "load" => l.todo = l.dimms /\ ~G!PartialSocket(l.dimms)
      BY <2>1, <3>1
    <3> HIDE DEF l
    <3> QED BY <1>l, <3>2, LoadingBegins
  <2>4. l.kind = "import" /\ l.pc \in {"load", "told"} /\ (l.pc = "told" => l.answer = "failed")
    BY <1>2, <1>6, <2>2
  <2> HIDE DEF l
  <2>5. WholeCall(l, goal, file, size)
    BY <2>3, <2>4 DEF WholeCall
  <2> QED BY <2>5 DEF l
<1>7. CASE r.kind \in {"export", "idle"}
  BY <1>2, <1>7 DEF WholeCall
<1> QED BY <1>4, <1>5, <1>6, <1>7 DEF CallType, Kinds

LEMMA WholeMove ==
  ASSUME GoalTypes, GoalsInSockets, NEW u \in Clients, KindOK(u), Moves(u), ~BeginsCall(u),
         Left(goalCall[u], Mine(u), goalUsed.faults), WholeCall(goalCall[u], goal, file, size)
  PROVE  WholeCall(goalCall'[u], goal', file', size')
<1> DEFINE k == goalCall[u]
           l == goalCall'[u]
<1>1. CASE Returns(u)
  BY <1>1, IdleIs DEF Returns, WholeCall
<1>0. SUFFICES ASSUME ~Returns(u), k.alone, k.whole
               PROVE  WholeCall(l, goal', file', size')
  <2>1. ~Returns(u) => k.alone = l.alone /\ k.whole = l.whole
    BY BusyMove DEF Stays
  <2> QED BY <1>1, <2>1 DEF WholeCall
<1>2. k \in CallType /\ k.pc # "idle" /\ l.kind = k.kind /\ l.dimms = k.dimms
  BY <1>0, BusyMove DEF Stays, Pc, GoalTypes
<1>3. WholeCall(k, goal, file, size)
  OBVIOUS
<1>d. k.todo # {} => G!First(u) \in k.todo /\ G!First(u) \in Dimms
  BY FirstIsLeast
<1>s. UNCHANGED size
  BY DEF Moves, BeginsCall, Begins, LaysOut, Confirms, WritesGoal, FinishesRequest, Deletes, FinishesRemoval,
         Dumps, FinishesDump, Loads, FinishesLoad, Returns, Nowhere
\* An answer that is not success promises nothing.
<1>4. ASSUME l.pc = "told", l.answer # "done", k.kind \notin {"export", "idle"}
      PROVE  WholeCall(l, goal', file', size')
  <2> HIDE DEF l, k
  <2> QED BY <1>2, <1>4 DEF WholeCall
<1>5. CASE LaysOut(u)
  <2>1. UNCHANGED goal /\ k.pc = "check" /\ k.kind \in {"create", "allocate"}
    BY <1>5 DEF LaysOut, Nowhere, Pc, Kind
  <2>2. AllWhole(goal)
    BY <1>0, <1>3, <2>1 DEF WholeCall
  <2>3. CASE ToldTo(u, "failed")
    BY <1>4, <2>1, <2>3 DEF ToldTo
  <2>4. ASSUME NEW D \in k.plan, NEW f \in G!Layouts(D), NEW x \in {"prompt", "write"}, G!MayLayOut(D),
               l.pc = x, l.todo = D, l.wrote = {}, l.sets = f
        PROVE  WholeCall(l, goal', file', size')
    <3>1. D \in SUBSET Dimms
      BY <1>2 DEF CallType
    <3> HIDE DEF l, k
    <3>2. Writing(l, goal)
      BY <2>2, <2>4, <3>1, WritingBegins
    <3> QED BY <1>2, <2>1, <2>4, <3>2 DEF WholeCall
  <2> QED BY <1>5, <2>3, <2>4 DEF LaysOut
<1>6. CASE Confirms(u)
  <2>1. UNCHANGED goal /\ k.pc = "prompt" /\ k.kind = "create"
    BY <1>6 DEF Confirms, Nowhere, Pc, Kind
  <2>2. CASE GoesTo(u, "write")
    <3>1. l.pc = "write" /\ l.todo = k.todo /\ l.sets = k.sets /\ l.wrote = k.wrote
      BY <2>2, GoesToFields DEF Pcs
    <3> HIDE DEF l, k
    <3>2. Writing(k, goal)
      BY <1>0, <1>3, <2>1 DEF WholeCall
    <3>3. Writing(l, goal)
      BY <3>1, <3>2 DEF Writing
    <3> QED BY <1>2, <2>1, <3>1, <3>3 DEF WholeCall
  <2>3. CASE ToldTo(u, "unchanged")
    BY <1>4, <2>1, <2>3 DEF ToldTo
  <2> QED BY <1>6, <2>2, <2>3 DEF Confirms
<1>7. CASE WritesGoal(u)
  <2>1. k.pc = "write" /\ k.kind \in {"create", "allocate"} /\ k.todo # {}
    BY <1>7 DEF WritesGoal, Pc, Kind
  <2>2. Writing(k, goal)
    BY <1>0, <1>3, <2>1 DEF WholeCall
  <2>3. CASE GetsGoal(u, G!First(u), goalCall[u].sets[G!First(u)]) /\ DropsWritten(u)
    <3>1. l.pc = "write" /\ l.todo = k.todo \ {G!First(u)} /\ l.sets = k.sets
          /\ l.wrote = k.wrote \cup {G!First(u)}
      BY <2>1, <2>3, DropsWrittenFields
    <3>2. /\ goal'[G!First(u)] = [by |-> {u}, set |-> k.sets[G!First(u)], status |-> "new"]
          /\ \A d \in Dimms \ {G!First(u)} : goal'[d] = goal[d]
      BY <2>3 DEF GetsGoal
    <3>3. G!First(u) \in k.todo
      BY <1>d, <2>1
    <3> HIDE DEF l, k
    <3>4. Writing(l, goal')
      BY <1>2, <2>2, <3>1, <3>2, <3>3, WritingGoesOn
    <3> QED BY <1>2, <2>1, <3>1, <3>4 DEF WholeCall
  <2>4. CASE ToldTo(u, G!FailedAnswer(goalCall[u].wrote))
    BY <1>4, <2>1, <2>4 DEF ToldTo, G!FailedAnswer
  <2> QED BY <1>7, <2>3, <2>4 DEF WritesGoal
<1>8. CASE FinishesRequest(u)
  <2>1. k.pc = "write" /\ k.kind \in {"create", "allocate"} /\ k.todo = {} /\ UNCHANGED goal
    BY <1>8 DEF FinishesRequest, Nowhere, Pc, Kind
  <2>2. AllWhole(goal)
    <3>1. Writing(k, goal)
      BY <1>0, <1>3, <2>1 DEF WholeCall
    <3> QED BY <1>2, <2>1, <3>1, WritingEnds
  <2>3. l.pc \in {"told", "check"}
    BY <1>8, GoesToFields DEF FinishesRequest, ToldTo, Pcs
  <2> HIDE DEF l, k
  <2> QED BY <1>2, <2>1, <2>2, <2>3 DEF WholeCall
<1>9. CASE Deletes(u)
  <2>1. k.pc = "remove" /\ k.kind \in {"delete", "remove", "import"} /\ k.todo # {}
    BY <1>9 DEF Deletes, Pc, Kind, KindOK
  <2>2. k.todo \subseteq k.dimms
    BY <2>1 DEF Left
  <2>3. k.kind \in {"delete", "remove"} => k.answer \in {"none", "failed"} /\ (k.answer = "none" => Removing(k, goal))
    BY <1>0, <1>2, <1>3, <2>1 DEF WholeCall
  <2>4. ASSUME l.pc = "remove", l.answer \in {k.answer, "failed"},
               k.kind \in {"delete", "remove"} /\ l.answer = "none" => Removing(l, goal')
        PROVE  WholeCall(l, goal', file', size')
    <3> HIDE DEF l, k
    <3> QED BY <1>2, <2>1, <2>3, <2>4 DEF WholeCall
  <2>5. CASE LosesGoal(G!First(u)) /\ DropsWritten(u)
    <3>1. l.pc = "remove" /\ l.todo = k.todo \ {G!First(u)} /\ l.answer = k.answer
      BY <2>1, <2>5, DropsWrittenFields
    <3>2. /\ goal'[G!First(u)] = G!NoGoal
          /\ \A d \in Dimms \ {G!First(u)} : goal'[d] = goal[d]
      BY <2>5 DEF LosesGoal
    <3>3. ASSUME Removing(k, goal) PROVE Removing(l, goal')
      <4>1. G!First(u) \in k.todo
        BY <1>d, <2>1
      <4> HIDE DEF l, k
      <4> QED BY <1>2, <2>2, <3>1, <3>2, <3>3, <4>1, RemovingGoesOn
    <3> QED BY <2>3, <2>4, <3>1, <3>3
  <2>6. CASE UNCHANGED goal /\ goal[G!First(u)] = G!NoGoal /\ Drops(u)
    <3>1. l.pc = "remove" /\ l.todo = k.todo \ {G!First(u)} /\ l.answer = k.answer
      BY <2>1, <2>6, DropsFields
    <3>2. ~New(goal, G!First(u))
      BY <2>6 DEF New, G!NoGoal
    <3>3. ASSUME Removing(k, goal) PROVE Removing(l, goal)
      <4> HIDE DEF l, k
      <4> QED BY <1>2, <3>1, <3>2, <3>3, RemovingSkips
    <3> QED BY <2>3, <2>4, <2>6, <3>1, <3>3
  <2>7. CASE goalCall'[u] = [goalCall[u] EXCEPT !.todo = @ \ {G!First(u)}, !.answer = "failed"]
    <3>1. l.pc = "remove" /\ l.answer = "failed"
      BY <2>1, <2>7, FailedFields
    <3> QED BY <2>4, <3>1
  <2>8. CASE ToldTo(u, G!FailedAnswer(goalCall[u].wrote))
    BY <1>4, <2>1, <2>8 DEF ToldTo, G!FailedAnswer
  <2> QED BY <1>9, <2>5, <2>6, <2>7, <2>8 DEF Deletes
<1>10. CASE FinishesRemoval(u)
  <2>1. k.pc = "remove" /\ k.kind \in {"delete", "remove", "import"} /\ k.todo = {} /\ UNCHANGED goal
    BY <1>10 DEF FinishesRemoval, Nowhere, Pc, Kind, KindOK
  <2>2. PICK x \in Answers : /\ ToldTo(u, x) /\ (k.kind = "import" => x = "failed")
                             /\ k.kind # "import" /\ x = "done" => k.answer \in {"none", "done"}
    BY <1>10 DEF FinishesRemoval, Kind
  <2>3. l.pc = "told" /\ l.answer = x
    BY <2>2 DEF ToldTo
  <2>4. CASE x = "done"
    <3>1. k.kind \in {"delete", "remove"} /\ k.answer \in {"none", "done"}
      BY <2>1, <2>2, <2>4
    <3>2. Removing(k, goal)
      BY <1>0, <1>2, <1>3, <2>1, <3>1 DEF WholeCall
    <3>3. AllWhole(goal)
      BY <2>1, <3>2, RemovingEnds
    <3> HIDE DEF l, k
    <3> QED BY <1>2, <2>1, <2>3, <3>1, <3>3 DEF WholeCall
  <2> QED BY <1>4, <2>1, <2>3, <2>4
<1>11. CASE Dumps(u) \/ FinishesDump(u)
  <2>1. k.kind = "export" /\ UNCHANGED goal
    BY <1>11 DEF Dumps, FinishesDump, Nowhere, Kind
  <2> HIDE DEF l, k
  <2> QED BY <1>0, <1>2, <1>3, <2>1 DEF WholeCall
<1>12. CASE Loads(u)
  <2>1. k.pc = "load" /\ k.kind = "import" /\ k.todo # {} /\ UNCHANGED file
    BY <1>12 DEF Loads, Pc, Kind
  <2>2. k.todo \subseteq k.dimms
    BY <2>1 DEF Left
  <2>3. Agree(file) /\ Fits(k, size) => Loading(k, goal, file)
    BY <1>0, <1>3, <2>1 DEF WholeCall
  <2>4. ASSUME l.pc = "remove" \/ (Agree(file) /\ Fits(k, size) => Loading(l, goal', file)),
               l.pc \in {"load", "remove"}
        PROVE  WholeCall(l, goal', file', size')
    <3>1. Fits(l, size) <=> Fits(k, size)
      BY <1>2 DEF Fits
    <3> HIDE DEF l, k
    <3> QED BY <1>2, <1>s, <2>1, <2>4, <3>1 DEF WholeCall
  <2>5. CASE G!LinesOf(G!First(u)) # {} /\ GetsGoal(u, G!First(u), G!LineOf(G!First(u)).set) /\ Drops(u)
    <3>1. l.pc = "load" /\ l.todo = k.todo \ {G!First(u)}
      BY <2>1, <2>5, DropsFields
    <3>2. PICK j \in DOMAIN file : file[j].dimm = G!First(u) /\ G!LineOf(G!First(u)) = file[j]
      BY <1>d, <2>1, <2>5, LineOfIs
    <3>3. /\ goal'[G!First(u)] = [by |-> {u}, set |-> file[j].set, status |-> "new"]
          /\ \A d \in Dimms \ {G!First(u)} : goal'[d] = goal[d]
      BY <2>5, <3>2 DEF GetsGoal
    <3>4. ASSUME Loading(k, goal, file) PROVE Loading(l, goal', file)
      <4>1. G!First(u) \in k.todo
        BY <1>d, <2>1
      <4> HIDE DEF l, k
      <4> QED BY <1>2, <2>2, <3>1, <3>2, <3>3, <3>4, <4>1, LoadingGoesOn
    <3> QED BY <2>3, <2>4, <3>1, <3>4
  <2>6. CASE G!PassedOver(G!First(u)) /\ Drops(u)
    <3>1. l.pc = "load"
      BY <2>1, <2>6, DropsFields
    <3>2. ~Fits(k, size)
      <4>1. G!First(u) \in k.dimms /\ G!First(u) \in Dimms
        BY <1>d, <2>1, <2>2
      <4>2. size[G!First(u)] # 2
        BY <2>6, <4>1, NonePassed
      <4> QED BY <4>1, <4>2 DEF Fits
    <3> QED BY <2>4, <3>1, <3>2
  <2>7. CASE goalCall'[u] = [goalCall[u] EXCEPT !.todo = goalCall[u].dimms, !.pc = "remove"]
    <3>1. l.pc = "remove"
      BY <2>7, RevertFields
    <3> QED BY <2>4, <3>1
  <2> QED BY <1>12, <2>5, <2>6, <2>7 DEF Loads
<1>13. CASE FinishesLoad(u)
  <2>1. k.pc = "load" /\ k.kind = "import" /\ k.todo = {} /\ UNCHANGED <<goal, file>> /\ l.pc = "told"
    BY <1>13 DEF FinishesLoad, Nowhere, Pc, Kind, ToldTo
  <2>2. Agree(file) /\ Fits(k, size) => AllWhole(goal)
    <3>1. Agree(file) /\ Fits(k, size) => Loading(k, goal, file)
      BY <1>0, <1>3, <2>1 DEF WholeCall
    <3> QED BY <1>2, <2>1, <3>1, LoadingEnds
  <2>3. Fits(l, size) <=> Fits(k, size)
    BY <1>2 DEF Fits
  <2> HIDE DEF l, k
  <2> QED BY <1>2, <1>s, <2>1, <2>2, <2>3 DEF WholeCall
<1> QED BY <1>0, <1>5, <1>6, <1>7, <1>8, <1>9, <1>10, <1>11, <1>12, <1>13 DEF Moves

LEMMA WholeStep ==
  ASSUME GoalTypes, PlanInv, KindsInv, AloneInv, SocketsInv, LeavesInv, WholeInv, G!Next
  PROVE  WholeInv'
<1>0. GoalsInSockets /\ NewIsSmall
  BY SocketsAre
<1>1. ASSUME NEW u \in Clients, Moves(u), NEW w \in Clients
      PROVE  WholeCall(goalCall'[w], goal', file', size')
  <2>1. CASE w = u /\ BeginsCall(u)
    BY <1>0, <2>1, WholeBegin
  <2>2. CASE w = u /\ ~BeginsCall(u)
    <3>1. Left(goalCall[u], Mine(u), goalUsed.faults) /\ KindOK(u) /\ WholeCall(goalCall[u], goal, file, size)
      BY DEF LeavesInv, KindsInv, WholeInv
    <3> QED BY <1>0, <1>1, <2>2, <3>1, WholeMove
  <2>3. CASE w # u
    <3>1. ~(goalCall'[w].pc # "idle" /\ goalCall'[w].alone)
      BY <1>1, <2>3, OthersNotAlone DEF Pc
    <3> QED BY <3>1 DEF WholeCall
  <2> QED BY <2>1, <2>2, <2>3
<1>2. ASSUME Restarts, NEW w \in Clients PROVE WholeCall(goalCall'[w], goal', file', size')
  BY <1>2, IdleIs DEF Restarts, WholeCall
<1>3. ASSUME ChangesUse, NEW w \in Clients PROVE WholeCall(goalCall'[w], goal', file', size')
  BY <1>3 DEF ChangesUse, WholeInv
<1>4. ASSUME NEW d \in Dimms, Replaces(d), NEW w \in Clients PROVE WholeCall(goalCall'[w], goal', file', size')
  <2>1. goalCall'[w].pc = "idle"
    BY <1>4 DEF Replaces, Pc
  <2> QED BY <2>1 DEF WholeCall
<1>5. ASSUME NEW w \in Clients PROVE WholeCall(goalCall'[w], goal', file', size')
  BY <1>1, <1>2, <1>3, <1>4, StepIs
<1> QED BY <1>5 DEF WholeInv

LEMMA WholeGives ==
  ASSUME GoalTypes, WholeInv
  PROVE  G!SetsWhole
<1>1. ASSUME NEW u \in Clients, goalCall[u].pc = "told", goalCall[u].answer = "done",
             goalCall[u].alone, goalCall[u].whole,
             goalCall[u].kind = "import" => G!SetsAgree /\ \A d \in goalCall[u].dimms : size[d] = 2
      PROVE  G!WholeSets
  <2>1. WholeCall(goalCall[u], goal, file, size) /\ goalCall[u].kind \in Kinds
    BY DEF WholeInv, GoalTypes, CallType
  <2>2. goalCall[u].kind = "import" => Agree(file) /\ Fits(goalCall[u], size)
    BY <1>1 DEF Agree, Fits, G!SetsAgree
  <2>3. AllWhole(goal)
    BY <1>1, <2>1, <2>2 DEF WholeCall, Kinds
  <2> QED BY <2>3, WholeSetsAre
<1> QED BY Zenon, <1>1 DEF G!SetsWhole, G!Answered

-----------------------------------------------------------------------------
(* The calls for goals, always *)

GoalInv ==
  /\ GoalTypes /\ KindsInv /\ PlanInv /\ SetsInv /\ SocketsInv /\ AloneInv
  /\ LeavesInv /\ ExportInv /\ WholeInv

LEMMA GoalsBegin ==
  ASSUME G!Init
  PROVE  GoalInv
<1>1. goalCall = [u \in Clients |-> G!Idle] /\ goalUsed = [calls |-> 0, faults |-> 0, changes |-> 0]
      /\ new = {} /\ size = [d \in Dimms |-> 2]
  BY DEF G!Init
<1>2. \A u \in Clients : goalCall[u].pc = "idle" /\ goalCall[u].kind = "idle" /\ goalCall[u].plan = {}
  BY <1>1, IdleIs
<1>3. \A d \in Dimms : G!Whole[d] \in SUBSET Dimms /\ InSocket(d, G!Whole[d])
  BY DEF G!Whole, InSocket, G!SocketDimms
<1>4. /\ config \in [Dimms -> SUBSET Dimms] /\ ConfigInSockets
  <2>1. CASE config = [d \in Dimms |-> {}]
    BY <2>1 DEF ConfigInSockets, InSocket
  <2>2. CASE config = G!Whole
    BY <1>3, <2>2 DEF ConfigInSockets, G!Whole
  <2> QED BY <2>1, <2>2 DEF G!Init
<1>5. /\ goal \in [Dimms -> GoalType] /\ GoalsInSockets /\ \A d \in Dimms : goal[d].by = {}
  <2>1. goal \in [Dimms -> {G!NoGoal} \cup {[by |-> {}, set |-> G!Whole[d], status |-> "new"] : d \in Dimms}]
        /\ \A d \in Dimms : goal[d] \in {G!NoGoal, [by |-> {}, set |-> G!Whole[d], status |-> "new"]}
    BY DEF G!Init
  <2>2. ASSUME NEW d \in Dimms PROVE goal[d] \in GoalType /\ InSocket(d, goal[d].set) /\ goal[d].by = {}
    <3>1. CASE goal[d] = G!NoGoal
      BY <3>1 DEF G!NoGoal, GoalType, InSocket
    <3>2. CASE goal[d] = [by |-> {}, set |-> G!Whole[d], status |-> "new"]
      BY <1>3, <3>2 DEF GoalType
    <3> QED BY <2>1, <3>1, <3>2
  <2> QED BY <2>1, <2>2 DEF GoalsInSockets
<1>6. file \in Seq(LineType) /\ LinesInSockets
  <2>1. CASE file = G!NoFile
    <3>1. G!LineFor(0, {}, 0) \in LineType /\ LineInSocket(G!LineFor(0, {}, 0))
      BY DEF G!LineFor, LineType, LineInSocket, InSocket
    <3> QED BY <2>1, <3>1 DEF G!NoFile, LinesInSockets
  <2>2. CASE file \in [1..G!Cardinality(Dimms) -> G!Everything]
    <3>1. G!Cardinality(Dimms) = Cardinality(Dimms)
      BY Zenon DEF G!Cardinality, Cardinality
    <3>2. Cardinality(Dimms) \in Nat
      BY DimmsAssumption, FS_CardinalityType
    <3>3. ASSUME NEW line \in G!Everything PROVE line \in LineType /\ LineInSocket(line)
      <4>1. PICK d \in Dimms : line = G!LineFor(d, G!Whole[d], 2)
        BY DEF G!Everything
      <4> QED BY <1>3, <4>1, DimmsAssumption DEF G!LineFor, LineType, LineInSocket
    <3>4. PICK n \in Nat : file \in [1..n -> G!Everything]
      BY <2>2, <3>1, <3>2
    <3>5. file \in [1..n -> LineType] /\ \A j \in DOMAIN file : LineInSocket(file[j])
      BY <3>3, <3>4
    <3> QED BY <3>5 DEF LinesInSockets
  <2> QED BY <2>1, <2>2 DEF G!Init
<1>7. GoalTypes
  <2>1. goalCall \in [Clients -> CallType] /\ goalUsed \in [calls : Nat, faults : Nat, changes : Nat]
        /\ new \in SUBSET Dimms /\ size \in [Dimms -> {1, 2}]
    BY <1>1, IdleIs
  <2> QED BY <2>1, <1>4, <1>5, <1>6 DEF GoalTypes
<1>8. KindsInv /\ PlanInv /\ SetsInv /\ AloneInv
  BY <1>2 DEF KindsInv, PlanInv, SetsInv, AloneInv, KindOK, PlanOK, Pc, Kind
<1>9. SocketsInv
  BY <1>1, <1>4, <1>5, <1>6, SocketsAre DEF NewIsSmall
<1>10. LeavesInv
  <2>1. \A u \in Clients : Mine(u) = {}
    BY <1>5 DEF Mine
  <2> QED BY <1>2, <2>1 DEF LeavesInv, Left, One
<1>11. ExportInv /\ WholeInv
  BY <1>2 DEF ExportInv, Exported, WholeInv, WholeCall
<1> QED BY <1>7, <1>8, <1>9, <1>10, <1>11 DEF GoalInv

LEMMA GoalsStep ==
  ASSUME GoalInv, G!Next
  PROVE  GoalInv'
BY StepIs, SoundStep, SetsStep, SocketsStep, AloneStep, LeavesStep, ExportStep, WholeStep DEF GoalInv

LEMMA GoalsStay ==
  ASSUME GoalInv, UNCHANGED goalVars
  PROVE  GoalInv'
<1>1. UNCHANGED <<goal, config, use, size, new, file, goalCall, goalUsed>>
  BY DEF goalVars
<1>2. GoalTypes' /\ KindsInv' /\ PlanInv' /\ SetsInv' /\ SocketsInv' /\ AloneInv'
  BY <1>1 DEF GoalInv, GoalTypes, KindsInv, PlanInv, SetsInv, SocketsInv, AloneInv, KindOK, PlanOK, Pc, Kind,
              InSocket
<1>3. LeavesInv' /\ ExportInv' /\ WholeInv'
  BY <1>1 DEF GoalInv, LeavesInv, ExportInv, WholeInv, Mine
<1> QED BY <1>2, <1>3 DEF GoalInv

LEMMA GoalsAlways == SpecAll => [](part = "goals" => GoalInv)
<1>1. InitAll => (part = "goals" => GoalInv)
  BY GoalsBegin DEF InitAll
<1>2. (part = "goals" => GoalInv) /\ [NextAll]_allVars => (part = "goals" => GoalInv)'
  <2> SUFFICES ASSUME part = "goals" => GoalInv, [NextAll]_allVars, part' = "goals"
               PROVE  GoalInv'
    OBVIOUS
  <2>1. CASE part = "goals" /\ G!Next
    BY <2>1, GoalsStep
  <2>2. CASE part = "namespaces" /\ UNCHANGED <<part, goalVars>>
    BY <2>2
  <2>3. CASE UNCHANGED allVars
    <3>1. UNCHANGED goalVars /\ part = "goals"
      BY <2>3 DEF allVars
    <3> QED BY <3>1, GoalsStay
  <2> QED BY <2>1, <2>2, <2>3 DEF NextAll
<1> QED BY <1>1, <1>2, PTL DEF SpecAll

\* A call that failed, and not in part, has left no goal of its own behind.
THEOREM FailedLeavesNone == SpecAll => []FailedLeavesNothing
<1>1. (part = "goals" => GoalInv) => FailedLeavesNothing
  BY LeavesGives DEF GoalInv, FailedLeavesNothing
<1> QED BY <1>1, GoalsAlways, PTL

\* An export that succeeded undisturbed wrote a line for every configured
\* DIMM, in order, and no other.
THEOREM ExportsAreExact == SpecAll => []ExportExact
<1>1. (part = "goals" => GoalInv) => ExportExact
  BY ExportGives DEF GoalInv, ExportExact
<1> QED BY <1>1, GoalsAlways, PTL

\* A call that succeeded undisturbed left whole sets whole.
THEOREM SetsStayWhole == SpecAll => []SetsWhole
<1>1. (part = "goals" => GoalInv) => SetsWhole
  BY WholeGives DEF GoalInv, SetsWhole
<1> QED BY <1>1, GoalsAlways, PTL

-----------------------------------------------------------------------------
(* Sizes of namespaces *)

LEMMA UnitsAre ==
  /\ Page \in Nat \ {0} /\ Line \in Nat \ {0} /\ BlockSize \in Nat \ {0} /\ Minimum \in Nat \ {0} /\ Minimum % Page = 0
  BY SizeAssumption

\* Division without a rest.
LEMMA ExactDiv ==
  ASSUME NEW m \in Int, NEW u \in Nat \ {0}, m % u = 0
  PROVE  m \div u \in Int /\ m = u * (m \div u)
<1>1. m \div u \in Int /\ m = u * (m \div u) + (m % u)
  BY DivModIs
<1>2. u * (m \div u) \in Int
  BY <1>1, TimesIs
<1> QED BY <1>1, <1>2

PlaceOK(type, place) == type \in Types /\ place \in PlaceOf(type)

LEMMA RoundUpIs ==
  ASSUME NEW n \in Nat, NEW u \in Nat \ {0}
  PROVE  /\ RoundUp(n, u) \in Nat /\ RoundUp(n, u) % u = 0 /\ n <= RoundUp(n, u) /\ RoundUp(n, u) < n + u
         /\ n % u = 0 => RoundUp(n, u) = n
<1> DEFINE q == n \div u
           r == n % u
<1>1. q \in Int /\ r \in 0 .. u - 1 /\ n = u * q + r
  BY DivModIs
<1>2. CASE r = 0
  <2>1. RoundUp(n, u) = n
    BY <1>2 DEF RoundUp
  <2> QED BY <2>1, <1>2
<1>3. CASE r # 0
  <2>1. RoundUp(n, u) = n + u - r
    BY <1>3 DEF RoundUp
  <2> HIDE DEF q, r
  <2>2. u * (q + 1) = u * q + u /\ u * q \in Int
    BY <1>1, TimesIs
  <2>3. RoundUp(n, u) = u * (q + 1)
    BY <2>1, <2>2, <1>1
  <2>4. RoundUp(n, u) % u = 0
    BY <2>3, <1>1, ModOfTimes
  <2>5. n + u - r \in Nat /\ n <= n + u - r /\ n + u - r < n + u
    BY <1>1, <1>3
  <2> USE DEF r
  <2> QED BY <2>1, <2>4, <2>5, <1>3
<1> QED BY <1>2, <1>3

\* No multiple lies between.
LEMMA RoundUpLeast ==
  ASSUME NEW n \in Nat, NEW u \in Nat \ {0}, NEW m \in Nat, m % u = 0, n <= m
  PROVE  RoundUp(n, u) <= m
<1> DEFINE a == RoundUp(n, u) \div u
           b == m \div u
<1>1. a \in Int /\ RoundUp(n, u) = u * a /\ RoundUp(n, u) \in Nat /\ RoundUp(n, u) < n + u
  <2>1. RoundUp(n, u) \in Nat /\ RoundUp(n, u) < n + u /\ RoundUp(n, u) % u = 0
    BY RoundUpIs
  <2>2. RoundUp(n, u) \in Int
    BY <2>1
  <2> QED BY <2>1, <2>2, ExactDiv
<1>2. b \in Int /\ m = u * b
  BY ExactDiv
<1> HIDE DEF a, b
<1>3. u * (a - 1) = u * a - u
  BY <1>1, TimesIs
<1>4. u * (a - 1) < u * b
  BY <1>1, <1>2, <1>3
<1>5. ~ (b <= a - 1)
  BY <1>1, <1>2, <1>4, TimesLess
<1>6. a <= b
  BY <1>1, <1>2, <1>5
<1> QED BY <1>1, <1>2, <1>6, TimesLess

LEMMA GcdIs ==
  ASSUME NEW a \in Nat \ {0}, NEW b \in Nat \ {0}
  PROVE  Gcd(a, b) \in 1 .. a /\ a % Gcd(a, b) = 0 /\ b % Gcd(a, b) = 0
<1> DEFINE G0 == {g \in 1 .. a : a % g = 0 /\ b % g = 0}
<1>1. G0 \subseteq Int /\ G0 \in SUBSET (1 .. a)
  OBVIOUS
<1>2. 1 \in G0
  <2>1. 1 \in 1 .. a
    OBVIOUS
  <2>2. a % 1 = 0 /\ b % 1 = 0
    OBVIOUS
  <2> QED BY <2>1, <2>2
<1>3. IsFiniteSet(G0)
  <2>1. IsFiniteSet(1 .. a)
    BY FS_Interval
  <2> QED BY <2>1, <1>1, FS_Subset
<1>4. Max(G0) \in G0
  <2> HIDE DEF G0
  <2> QED BY <1>1, <1>2, <1>3, MaxOfFinite
<1> QED BY <1>4 DEF Gcd

LEMMA TimesPositive ==
  ASSUME NEW a \in Nat \ {0}, NEW b \in Nat \ {0}
  PROVE  a * b \in Nat \ {0}
  OBVIOUS

LEMMA WaysIs ==
  ASSUME NEW type, NEW place, PlaceOK(type, place)
  PROVE  Ways(type, place) \in Nat \ {0}
<1>1. CASE type = "app direct"
  <2>1. DimmsOf[place] \subseteq Dimms /\ DimmsOf[place] # {} /\ IsFiniteSet(Dimms)
    BY <1>1, SetsAssumption DEF PlaceOK, PlaceOf
  <2>2. IsFiniteSet(DimmsOf[place])
    BY <2>1, FS_Subset
  <2>3. Cardinality(DimmsOf[place]) \in Nat /\ Cardinality(DimmsOf[place]) # 0
    BY <2>1, <2>2, FS_EmptySet, FS_CardinalityType
  <2> QED BY <2>3, <1>1 DEF Ways
<1>2. CASE type # "app direct"
  <2>1. Ways(type, place) = 1
    BY <1>2 DEF Ways
  <2> QED BY <2>1
<1> QED BY <1>1, <1>2

LEMMA RealIs ==
  ASSUME NEW type
  PROVE  /\ SizeOfBlock(type) \in Nat \ {0} /\ Real(type) \in Nat \ {0} /\ SizeOfBlock(type) <= Real(type)
         /\ type = "app direct" => Real(type) = 1
<1> DEFINE s == SizeOfBlock(type)
<1>0. type = "app direct" => s = 1
  BY DEF SizeOfBlock
<1>1. s \in Nat \ {0}
  <2>1. s = 1 \/ s = BlockSize
    BY DEF SizeOfBlock
  <2> HIDE DEF s
  <2> QED BY <2>1, UnitsAre
<1> HIDE DEF s
<1>2. RoundUp(s, Line) \in Nat /\ s <= RoundUp(s, Line)
  BY <1>1, UnitsAre, RoundUpIs
<1>3. Real(type) = IF s = 1 THEN 1 ELSE RoundUp(s, Line)
  BY DEF Real, RealBlockSize, s
<1>4. Real(type) \in Nat \ {0} /\ s <= Real(type)
  BY <1>1, <1>2, <1>3
<1>5. type = "app direct" => Real(type) = 1
  BY <1>0, <1>3
<1> QED BY <1>1, <1>4, <1>5 DEF s

LEMMA AlignmentIs ==
  ASSUME NEW type, NEW place, PlaceOK(type, place)
  PROVE  /\ Alignment(type, place) \in Nat \ {0} /\ Alignment(type, place) % Real(type) = 0
         /\ type = "app direct" => Alignment(type, place) = Page * Ways(type, place)
<1> DEFINE r == Real(type)
           page == Page * Ways(type, place)
           g == Gcd(r, page)
           a == r \div g
           b == page \div g
<1>0. type = "app direct" => r = 1
  BY RealIs
<1>1. r \in Nat \ {0} /\ page \in Nat \ {0}
  BY RealIs, WaysIs, TimesPositive, UnitsAre
<1> HIDE DEF r, page
<1>2. g \in 1 .. r /\ r % g = 0 /\ page % g = 0
  BY <1>1, GcdIs
<1> HIDE DEF g
<1>3. a \in Int /\ b \in Int /\ r = g * a /\ page = g * b
  <2>1. g \in Nat \ {0} /\ r \in Int /\ page \in Int
    BY <1>1, <1>2
  <2> QED BY <2>1, <1>2, ExactDiv
<1> HIDE DEF a, b
<1>4. Alignment(type, place) = a * page
  BY DEF Alignment, r, page, g, a
<1>5. a \in Nat \ {0}
  <2>1. g \in Nat \ {0}
    BY <1>1, <1>2
  <2>2. \A x \in Nat \ {0} : \A y \in Int : x * y > 0 => y > 0
    OBVIOUS
  <2>3. g * a > 0
    BY <1>1, <1>3
  <2> QED BY <2>1, <2>2, <2>3, <1>3
<1>6. a * page \in Nat \ {0}
  BY <1>1, <1>5, TimesPositive
<1>7. a * page = r * b
  <2>1. a * (g * b) = (a * g) * b /\ a * g = g * a
    BY <1>2, <1>3, TimesIs
  <2> QED BY <2>1, <1>3
<1>8. (r * b) % r = 0
  BY <1>1, <1>3, ModOfTimes
<1>9. type = "app direct" => a * page = page
  <2>1. r = 1 => g = 1
    BY <1>2
  <2>2. r = 1 => a = 1
    BY <2>1, <1>3
  <2>3. r = 1 => a * page = page
    BY <2>2, <1>1
  <2> QED BY <2>3, <1>0
<1> QED BY <1>4, <1>6, <1>7, <1>8, <1>9 DEF r, page

\* What is a multiple of a multiple.
LEMMA MultipleOf ==
  ASSUME NEW m \in Int, NEW u \in Nat \ {0}, NEW r \in Nat \ {0}, m % u = 0, u % r = 0
  PROVE  m % r = 0 /\ (m \div r) * r = m
<1>1. m \div u \in Int /\ m = u * (m \div u)
  BY DivModIs
<1>2. u \div r \in Int /\ u = r * (u \div r)
  BY DivModIs
<1> DEFINE a == m \div u
           b == u \div r
<1> HIDE DEF a, b
<1>3. m = r * (b * a) /\ b * a \in Int
  <2>1. r * (b * a) = (r * b) * a /\ b * a \in Int
    BY <1>1, <1>2, TimesIs DEF a, b
  <2> QED BY <2>1, <1>1, <1>2 DEF a, b
<1>4. m % r = 0 /\ m \div r = b * a
  BY <1>3, ModOfTimes
<1> QED BY <1>3, <1>4, TimesIs

\* The count that fits a place, and the capacity it has.
CountOf(type, place, count) == Adjusted(type, place, count, TRUE) \div Real(type)

LEMMA SizesAre ==
  ASSUME NEW type, NEW place, PlaceOK(type, place), NEW count \in Nat
  PROVE  /\ Adjusted(type, place, count, TRUE) \in Nat
         /\ Adjusted(type, place, count, TRUE) % Alignment(type, place) = 0
         /\ Adjusted(type, place, count, TRUE) % Real(type) = 0
         /\ count * Real(type) \in Nat
         /\ count * Real(type) <= Adjusted(type, place, count, TRUE)
         /\ Adjusted(type, place, count, TRUE) < count * Real(type) + Alignment(type, place)
         /\ CountOf(type, place, count) \in Nat
         /\ CountOf(type, place, count) * Real(type) = Adjusted(type, place, count, TRUE)
         /\ count * SizeOfBlock(type) \in Nat
         /\ count * SizeOfBlock(type) <= count * Real(type)
<1> DEFINE r == Real(type)
           u == Alignment(type, place)
           n == count * r
           a == Adjusted(type, place, count, TRUE)
           b == SizeOfBlock(type)
<1>1. r \in Nat \ {0} /\ u \in Nat \ {0} /\ u % r = 0 /\ b \in Nat /\ b <= r
  BY RealIs, AlignmentIs
<1>2. a = RoundUp(n, u)
  BY DEF Adjusted
<1> HIDE DEF r, u, a, b
<1>3. n \in Nat /\ count * b \in Nat /\ count * b <= n
  BY <1>1
<1> HIDE DEF n
<1>4. a \in Nat /\ a % u = 0 /\ n <= a /\ a < n + u
  BY <1>1, <1>2, <1>3, RoundUpIs
<1>5. a % r = 0 /\ (a \div r) * r = a
  <2>1. a \in Int
    BY <1>4
  <2> QED BY <2>1, <1>1, <1>4, MultipleOf
<1>6. a \div r \in Nat
  BY <1>1, <1>4
<1> QED BY <1>3, <1>4, <1>5, <1>6 DEF CountOf, r, u, a, b, n

\* What is aligned fits as it is.
LEMMA AlignedFits ==
  ASSUME NEW type, NEW place, PlaceOK(type, place), NEW count \in Nat,
         (count * Real(type)) % Alignment(type, place) = 0
  PROVE  Adjusted(type, place, count, TRUE) = count * Real(type) /\ CountOf(type, place, count) = count
<1> DEFINE r == Real(type)
           u == Alignment(type, place)
           n == count * r
           a == Adjusted(type, place, count, TRUE)
<1>1. r \in Nat \ {0} /\ u \in Nat \ {0} /\ n % u = 0
  BY RealIs, AlignmentIs
<1>2. a = RoundUp(n, u)
  BY DEF Adjusted
<1> HIDE DEF r, u, a
<1>3. n \in Nat /\ n = r * count
  BY <1>1
<1>4. n \div r = count
  BY <1>1, <1>3, ModOfTimes
<1> HIDE DEF n
<1>5. a = n
  BY <1>1, <1>2, <1>3, RoundUpIs
<1> QED BY <1>4, <1>5 DEF CountOf, r, u, a, n

\* What fits already is kept.
LEMMA FitsOnce ==
  ASSUME NEW type, NEW place, PlaceOK(type, place), NEW count \in Nat
  PROVE  /\ Adjusted(type, place, CountOf(type, place, count), TRUE) = Adjusted(type, place, count, TRUE)
         /\ CountOf(type, place, CountOf(type, place, count)) = CountOf(type, place, count)
<1> DEFINE m == CountOf(type, place, count)
<1>1. m \in Nat /\ m * Real(type) = Adjusted(type, place, count, TRUE)
      /\ Adjusted(type, place, count, TRUE) % Alignment(type, place) = 0
  BY SizesAre
<1> HIDE DEF m
<1>2. (m * Real(type)) % Alignment(type, place) = 0
  BY <1>1
<1>3. Adjusted(type, place, m, TRUE) = m * Real(type) /\ CountOf(type, place, m) = m
  BY <1>1, <1>2, AlignedFits
<1> QED BY <1>1, <1>3 DEF m

LEMMA MinimumIs ==
  ASSUME NEW type, NEW place, PlaceOK(type, place)
  PROVE  MinimumSize(type, place) \in Nat \ {0}
  BY WaysIs, UnitsAre, TimesPositive DEF MinimumSize

-----------------------------------------------------------------------------
(* The check of a modification *)

\* A namespace there is, at a place there is.
Sited(n) == n \in Namespace /\ PlaceOK(n.type, n.place)

LEMMA NamespaceIs ==
  ASSUME NEW n, Sited(n)
  PROVE  /\ n # NoNs /\ PlaceOK(n.type, n.place) /\ n.count \in Nat /\ n.name \in Int /\ n.on \in BOOLEAN
         /\ Capacity(n) \in Nat /\ Capacity(n) = n.count * Real(n.type)
<1>1. n.type \in Types /\ n.count \in Nat /\ n.name \in Int /\ n.on \in BOOLEAN
  BY DEF Sited, Namespace
<1>2. "none" \notin Types
  BY DEF Types
<1>3. n # NoNs
  BY <1>1, <1>2 DEF NoNs
<1>4. Real(n.type) \in Nat
  BY RealIs
<1>5. n.count * Real(n.type) \in Nat
  BY <1>1, <1>4
<1> QED BY <1>1, <1>3, <1>5 DEF Sited, Capacity

Quotient(capacity, type) == capacity \div Real(type)

LEMMA FoundIs ==
  /\ \A place, capacity, type : /\ Found(place, capacity, type).rc = "found" /\ Found(place, capacity, type).place = place
                               /\ Found(place, capacity, type).count = Quotient(capacity, type)
  /\ \A rc : NotFound(rc).rc = rc
  BY DEF NotFound, Found, Quotient

\* What the check finds is the count that fits.
LEMMA CheckModifyFinds ==
  ASSUME NEW id, Sited(ns[id]), NEW count \in Nat, CheckModify(id, count).rc = "found"
  PROVE  /\ CheckModify(id, count).count = CountOf(ns[id].type, ns[id].place, count)
         /\ Adjusted(ns[id].type, ns[id].place, count, TRUE) >= MinimumSize(ns[id].type, ns[id].place)
<1> DEFINE n == ns[id]
           asked == count * SizeOfBlock(n.type)
           capacity == Adjusted(n.type, n.place, count, TRUE)
           TooBig == \/ asked > Capacity(n) /\ PoolFree < asked - Capacity(n)
                     \/ capacity > Capacity(n) /\ Free(n.type, n.place) < capacity - Capacity(n)
           small == capacity < MinimumSize(n.type, n.place)
<1>1. n # NoNs
  BY NamespaceIs
<1>2. CheckModify(id, count) =
        IF TooBig \/ small THEN NotFound("size") ELSE Found(n.place, capacity, n.type)
  BY <1>1 DEF CheckModify
<1> HIDE DEF TooBig
<1>3. ~ small /\ ~ TooBig
  <2>1. CASE TooBig \/ small
    <3>1. CheckModify(id, count) = NotFound("size")
      BY <1>2, <2>1
    <3> QED BY <3>1, FoundIs
  <2> QED BY <2>1
<1>5. CheckModify(id, count).count = capacity \div Real(n.type)
  <2>1. CheckModify(id, count) = Found(n.place, capacity, n.type)
    BY <1>2, <1>3
  <2>2. CheckModify(id, count).count = Quotient(capacity, n.type)
    <3> HIDE DEF capacity, n
    <3> QED BY <2>1, FoundIs
  <2> QED BY <2>2 DEF Quotient
<1>6. capacity \in Nat /\ MinimumSize(n.type, n.place) \in Nat
  BY NamespaceIs, SizesAre, MinimumIs
<1>7. capacity >= MinimumSize(n.type, n.place)
  <2> HIDE DEF capacity, n
  <2> QED BY <1>3, <1>6
<1> QED BY <1>5, <1>7 DEF CountOf

\* What takes no more than there is, together with what it has, is found.
LEMMA CheckModifyFits ==
  ASSUME NEW id, Sited(ns[id]), NEW count \in Nat,
         Adjusted(ns[id].type, ns[id].place, count, TRUE) >= MinimumSize(ns[id].type, ns[id].place),
         Free(ns[id].type, ns[id].place) \in Int, PoolFree \in Int,
         \/ Adjusted(ns[id].type, ns[id].place, count, TRUE) <= Capacity(ns[id])
         \/ /\ Adjusted(ns[id].type, ns[id].place, count, TRUE)
                 <= Capacity(ns[id]) + Free(ns[id].type, ns[id].place)
            /\ Free(ns[id].type, ns[id].place) <= PoolFree
  PROVE  /\ CheckModify(id, count).rc = "found"
         /\ CheckModify(id, count).count = CountOf(ns[id].type, ns[id].place, count)
<1> DEFINE n == ns[id]
           asked == count * SizeOfBlock(n.type)
           capacity == Adjusted(n.type, n.place, count, TRUE)
           free == Free(n.type, n.place)
           TooBig == \/ asked > Capacity(n) /\ PoolFree < asked - Capacity(n)
                     \/ capacity > Capacity(n) /\ free < capacity - Capacity(n)
           small == capacity < MinimumSize(n.type, n.place)
<1>1. n # NoNs /\ Capacity(n) \in Nat
  BY NamespaceIs
<1>2. CheckModify(id, count) =
        IF TooBig \/ small THEN NotFound("size") ELSE Found(n.place, capacity, n.type)
  BY <1>1 DEF CheckModify
<1>3. asked \in Nat /\ asked <= capacity /\ capacity \in Nat
  <2>1. PlaceOK(n.type, n.place)
    BY NamespaceIs
  <2>2. asked \in Nat /\ capacity \in Nat /\ count * Real(n.type) \in Nat
        /\ asked <= count * Real(n.type) /\ count * Real(n.type) <= capacity
    BY <2>1, SizesAre
  <2> HIDE DEF asked, capacity
  <2> QED BY <2>2
<1>4. ~ TooBig /\ ~ small
  <2>1. capacity >= MinimumSize(n.type, n.place) /\ MinimumSize(n.type, n.place) \in Nat
    BY NamespaceIs, MinimumIs
  <2>2. capacity <= Capacity(n) \/ (capacity <= Capacity(n) + free /\ free <= PoolFree)
    OBVIOUS
  <2>3. free \in Int /\ PoolFree \in Int
    OBVIOUS
  <2> HIDE DEF asked, capacity, free, n
  <2> QED BY <2>1, <2>2, <2>3, <1>1, <1>3
<1> HIDE DEF TooBig, small
<1>5. CheckModify(id, count) = Found(n.place, capacity, n.type)
  BY <1>2, <1>4
<1>6. CheckModify(id, count).rc = "found" /\ CheckModify(id, count).count = Quotient(capacity, n.type)
  <2> HIDE DEF capacity, n
  <2> QED BY <1>5, FoundIs
<1> QED BY <1>6 DEF CountOf, Quotient

-----------------------------------------------------------------------------
(* What is free, as a function of the namespaces *)

OnIn(N, t, p) == {i \in DOMAIN N : N[i] # NoNs /\ N[i].type = t /\ N[i].place = p}
TakenIn(N, t, p) == SumFunction([i \in OnIn(N, t, p) |-> Capacity(N[i])])
Share(N, s) == (SetSize[s] - TakenIn(N, "app direct", s)) \div Cardinality(DimmsOf[s])
SpillIn(N, d) == Max({0, TakenIn(N, "storage", d) - StorageSize[d]})
SetFree(N, s) ==
  SetSize[s] - TakenIn(N, "app direct", s) - Cardinality(DimmsOf[s]) * Max({SpillIn(N, d) : d \in DimmsOf[s]})
DimmFree(N, d) ==
  StorageSize[d] - TakenIn(N, "storage", d) + SumFunction([s \in {t \in Sets : d \in DimmsOf[t]} |-> Share(N, s)])
FreeAt(N, type, place) == IF type = "app direct" THEN SetFree(N, place) ELSE DimmFree(N, place)
PoolAt(N) == SumFunction([d \in Dimms |-> DimmFree(N, d)])

\* Namespaces, each at a place there is and of a size the library leaves.
WellMade(N) ==
  /\ DOMAIN N \subseteq Nat /\ IsFiniteSet(DOMAIN N) /\ N \in [DOMAIN N -> Namespace \cup {NoNs}]
  /\ \A i \in DOMAIN N : N[i] # NoNs => Sited(N[i]) /\ WellSized(N[i])
SoundIn(N) ==
  /\ WellMade(N) /\ \A s \in Sets : SetFree(N, s) >= 0
  /\ \A d \in Dimms : DimmFree(N, d) >= 0

LEMMA FreeIs ==
  /\ \A s : FreeIn(s) = SetFree(ns, s)
  /\ \A d : FreeOn(d) = DimmFree(ns, d)
  /\ PoolFree = PoolAt(ns)
<1>1. \A t, p : On(t, p) = OnIn(ns, t, p)
  BY DEF On, OnIn, Existing, Ids
<1>2. \A t, p : TakenOn(t, p) = TakenIn(ns, t, p)
  BY <1>1 DEF TakenOn, TakenIn
<1>3. \A d : Spill(d) = SpillIn(ns, d)
  BY <1>2 DEF Spill, SpillIn
<1>4. \A s : FreeIn(s) = SetFree(ns, s)
  BY <1>2, <1>3 DEF FreeIn, SetFree
<1>5. \A d : FreeOn(d) = DimmFree(ns, d)
  BY <1>2 DEF FreeOn, DimmFree, Share
<1>6. PoolFree = PoolAt(ns)
  BY <1>5 DEF PoolFree, PoolAt
<1> QED BY <1>4, <1>5, <1>6

LEMMA FreeAtIs == \A type, place : Free(type, place) = FreeAt(ns, type, place)
  BY FreeIs DEF Free, FreeAt

\* Sums of capacities.
CapacityOf(N, t, p) == [i \in OnIn(N, t, p) |-> Capacity(N[i])]

LEMMA OnFinite ==
  ASSUME NEW N, WellMade(N), NEW t, NEW p
  PROVE  /\ IsFiniteSet(OnIn(N, t, p))
         /\ \A i \in OnIn(N, t, p) : /\ CapacityOf(N, t, p)[i] \in Nat /\ CapacityOf(N, t, p)[i] = Capacity(N[i])
                                      /\ Sited(N[i]) /\ WellSized(N[i]) /\ N[i].type = t /\ N[i].place = p
         /\ TakenIn(N, t, p) = SumFunctionOnSet(CapacityOf(N, t, p), OnIn(N, t, p))
<1>1. IsFiniteSet(OnIn(N, t, p))
  BY FS_Subset DEF OnIn, WellMade
<1>2. \A i \in OnIn(N, t, p) : Sited(N[i]) /\ WellSized(N[i]) /\ N[i].type = t /\ N[i].place = p
  BY DEF OnIn, WellMade
<1>3. \A i \in OnIn(N, t, p) : CapacityOf(N, t, p)[i] = Capacity(N[i])
  BY DEF CapacityOf
<1>4. \A i \in OnIn(N, t, p) : CapacityOf(N, t, p)[i] \in Nat
  BY <1>2, <1>3, NamespaceIs
<1>5. TakenIn(N, t, p) = SumFunctionOnSet(CapacityOf(N, t, p), OnIn(N, t, p))
  BY DEF TakenIn, CapacityOf, SumFunction, FoldFunction, SumFunctionOnSet
<1> QED BY <1>1, <1>2, <1>3, <1>4, <1>5

LEMMA TakenNat ==
  ASSUME NEW N, WellMade(N), NEW t, NEW p
  PROVE  TakenIn(N, t, p) \in Nat
<1>1. SumFunctionOnSet(CapacityOf(N, t, p), OnIn(N, t, p)) \in Nat
  BY OnFinite, SumNat
<1> QED BY <1>1, OnFinite

\* What one namespace takes of a place.
PartOf(n, t, p) == IF n # NoNs /\ n.type = t /\ n.place = p THEN Capacity(n) ELSE 0

LEMMA TakenRest ==
  ASSUME NEW N, WellMade(N), NEW id \in DOMAIN N, NEW t, NEW p
  PROVE  /\ SumFunctionOnSet(CapacityOf(N, t, p), OnIn(N, t, p) \ {id}) \in Nat
         /\ PartOf(N[id], t, p) \in Nat
         /\ TakenIn(N, t, p) = PartOf(N[id], t, p) + SumFunctionOnSet(CapacityOf(N, t, p), OnIn(N, t, p) \ {id})
<1> DEFINE S == OnIn(N, t, p)
           f == CapacityOf(N, t, p)
<1>1. IsFiniteSet(S) /\ (\A i \in S : f[i] \in Nat) /\ TakenIn(N, t, p) = SumFunctionOnSet(f, S)
  BY OnFinite
<1>2. IsFiniteSet(S \ {id}) /\ \A i \in S \ {id} : f[i] \in Nat
  BY <1>1, FS_Subset
<1>3. id \in S => f[id] = Capacity(N[id]) /\ PartOf(N[id], t, p) = Capacity(N[id])
  BY DEF OnIn, PartOf, CapacityOf
<1>4. id \notin S => PartOf(N[id], t, p) = 0 /\ S \ {id} = S
  BY DEF OnIn, PartOf
<1> HIDE DEF S, f
<1>5. SumFunctionOnSet(f, S \ {id}) \in Nat /\ SumFunctionOnSet(f, S) \in Nat
  BY <1>1, <1>2, SumNat
<1>6. CASE id \in S
  <2>0. \A i \in S : f[i] \in Int
    BY <1>1
  <2>1. SumFunctionOnSet(f, S) = f[id] + SumFunctionOnSet(f, S \ {id})
    BY ONLY <2>0, <1>1, <1>6, SumRemove
  <2> QED BY <2>1, <1>1, <1>3, <1>5, <1>6 DEF S, f
<1>7. CASE id \notin S
  <2>1. SumFunctionOnSet(f, S \ {id}) = SumFunctionOnSet(f, S)
    BY <1>4, <1>7
  <2> QED BY <2>1, <1>1, <1>4, <1>5, <1>7 DEF S, f
<1> QED BY <1>6, <1>7

Changed(N, id, n) == [N EXCEPT ![id] = n]

LEMMA TakenChange ==
  ASSUME NEW N, WellMade(N), NEW id \in DOMAIN N, NEW n, WellMade(Changed(N, id, n)), NEW t, NEW p
  PROVE  /\ PartOf(n, t, p) \in Nat /\ PartOf(N[id], t, p) \in Nat
         /\ TakenIn(Changed(N, id, n), t, p) = TakenIn(N, t, p) - PartOf(N[id], t, p) + PartOf(n, t, p)
<1> DEFINE M == Changed(N, id, n)
<1>1. DOMAIN M = DOMAIN N /\ M[id] = n /\ \A i \in DOMAIN N : i # id => M[i] = N[i]
  BY DEF WellMade, Changed
<1>0. WellMade(M)
  OBVIOUS
<1> HIDE DEF M
<1>2. OnIn(M, t, p) \ {id} = OnIn(N, t, p) \ {id}
  BY <1>1 DEF OnIn
<1>3. \A i \in OnIn(N, t, p) \ {id} : CapacityOf(M, t, p)[i] = CapacityOf(N, t, p)[i]
  <2> SUFFICES ASSUME NEW i \in OnIn(N, t, p) \ {id} PROVE CapacityOf(M, t, p)[i] = CapacityOf(N, t, p)[i]
    OBVIOUS
  <2>1. i \in OnIn(M, t, p) /\ i \in OnIn(N, t, p)
    BY <1>2
  <2>2. M[i] = N[i]
    BY <1>1 DEF OnIn
  <2> QED BY <2>1, <2>2 DEF CapacityOf
<1>4. IsFiniteSet(OnIn(N, t, p) \ {id})
  BY OnFinite, FS_Subset
<1>5. SumFunctionOnSet(CapacityOf(M, t, p), OnIn(N, t, p) \ {id})
        = SumFunctionOnSet(CapacityOf(N, t, p), OnIn(N, t, p) \ {id})
  BY <1>3, <1>4, SumSame
<1> DEFINE r == SumFunctionOnSet(CapacityOf(N, t, p), OnIn(N, t, p) \ {id})
<1>6. r \in Nat /\ PartOf(N[id], t, p) \in Nat /\ TakenIn(N, t, p) = PartOf(N[id], t, p) + r
  BY TakenRest
<1>7. PartOf(n, t, p) \in Nat /\ TakenIn(M, t, p) = PartOf(n, t, p) + r
  <2>1. id \in DOMAIN M /\ M[id] = n
    BY <1>1
  <2>2. PartOf(M[id], t, p) \in Nat
        /\ TakenIn(M, t, p) = PartOf(M[id], t, p) + SumFunctionOnSet(CapacityOf(M, t, p), OnIn(M, t, p) \ {id})
    BY <2>1, <1>0, TakenRest
  <2> QED BY <2>1, <2>2, <1>2, <1>5
<1> HIDE DEF r
<1> QED BY <1>6, <1>7 DEF M

-----------------------------------------------------------------------------
(* Places and what is taken of them *)

LEMMA SumOne ==
  ASSUME NEW x, NEW f, f[x] \in Int
  PROVE  SumFunctionOnSet(f, {x}) = f[x] /\ SumFunctionOnSet(f, {}) = 0
<1>1. IsFiniteSet({x}) /\ IsFiniteSet({})
  BY FS_Singleton, FS_EmptySet
<1>2. SumFunctionOnSet(f, {}) = 0
  BY <1>1, SumPick
<1>3. SumFunctionOnSet(f, {x}) = f[x] + SumFunctionOnSet(f, {x} \ {x})
  <2>1. \A y \in {x} : f[y] \in Int
    OBVIOUS
  <2>2. x \in {x}
    OBVIOUS
  <2> QED BY ONLY <2>1, <2>2, <1>1, SumRemove
<1>4. {x} \ {x} = {}
  OBVIOUS
<1>5. SumFunctionOnSet(f, {x}) = f[x] + 0
  BY <1>2, <1>3, <1>4
<1> QED BY <1>2, <1>5

LEMMA SetsAre ==
  ASSUME NEW s \in Sets
  PROVE  /\ DimmsOf[s] \subseteq Dimms /\ IsFiniteSet(DimmsOf[s]) /\ DimmsOf[s] # {}
         /\ Cardinality(DimmsOf[s]) \in Nat \ {0} /\ SetSize[s] \in Nat
         /\ SetSize[s] % Cardinality(DimmsOf[s]) = 0
         /\ PlaceOK("app direct", s) /\ Ways("app direct", s) = Cardinality(DimmsOf[s])
<1>1. DimmsOf[s] \subseteq Dimms /\ DimmsOf[s] # {} /\ IsFiniteSet(Dimms)
  BY SetsAssumption
<1>2. IsFiniteSet(DimmsOf[s])
  BY <1>1, FS_Subset
<1>3. PlaceOK("app direct", s)
  BY DEF PlaceOK, PlaceOf, Types
<1>4. Ways("app direct", s) = Cardinality(DimmsOf[s])
  BY DEF Ways
<1>5. Ways("app direct", s) \in Nat \ {0}
  BY <1>3, WaysIs
<1>6. SetSize[s] \in Nat /\ SetSize[s] % Cardinality(DimmsOf[s]) = 0
  BY SizeAssumption
<1> QED BY <1>1, <1>2, <1>3, <1>4, <1>5, <1>6

LEMMA DimmsAre ==
  ASSUME NEW d \in Dimms
  PROVE  StorageSize[d] \in Nat /\ PlaceOK("storage", d)
<1>1. StorageSize[d] \in Nat
  BY SizeAssumption
<1>2. PlaceOK("storage", d)
  BY DEF PlaceOK, PlaceOf, Types
<1> QED BY <1>1, <1>2

LEMMA TakenSum ==
  \A N, t, p : TakenIn(N, t, p) = SumFunctionOnSet(CapacityOf(N, t, p), OnIn(N, t, p))
  BY DEF TakenIn, CapacityOf, SumFunction

LEMMA CapacityAt ==
  ASSUME NEW N, WellMade(N), NEW t, NEW p, NEW i \in OnIn(N, t, p)
  PROVE  /\ CapacityOf(N, t, p)[i] \in Nat /\ CapacityOf(N, t, p)[i] % Alignment(t, p) = 0
<1>1. CapacityOf(N, t, p)[i] \in Nat /\ CapacityOf(N, t, p)[i] = Capacity(N[i]) /\ WellSized(N[i])
      /\ N[i].type = t /\ N[i].place = p
  BY OnFinite
<1>2. Capacity(N[i]) % Alignment(N[i].type, N[i].place) = 0
  BY <1>1 DEF WellSized
<1>3. Alignment(N[i].type, N[i].place) = Alignment(t, p)
  BY <1>1
<1> QED BY <1>1, <1>2, <1>3

\* App direct namespaces take the same of each DIMM of their set.
LEMMA TakenEvenly ==
  ASSUME NEW N, WellMade(N), NEW s \in Sets
  PROVE  TakenIn(N, "app direct", s) % Cardinality(DimmsOf[s]) = 0
<1> DEFINE S == OnIn(N, "app direct", s)
           g == CapacityOf(N, "app direct", s)
           k == Cardinality(DimmsOf[s])
           f == [i \in S |-> g[i] \div k]
<1>1. k \in Nat \ {0}
  BY SetsAre
<1>2. IsFiniteSet(S) /\ \A i \in S : g[i] \in Nat
  BY OnFinite
<1>10. \A i \in S : g[i] % (Page * k) = 0
  <2>1. Alignment("app direct", s) = Page * k
    BY SetsAre, AlignmentIs
  <2>2. \A i \in S : g[i] % Alignment("app direct", s) = 0
    BY CapacityAt
  <2> QED BY <2>1, <2>2
<1>11. \A i \in S : f[i] = g[i] \div k
  OBVIOUS
<1>4. TakenIn(N, "app direct", s) = SumFunctionOnSet(g, S)
  BY TakenSum
<1> HIDE DEF S, f, g, k
<1>12. Page * k \in Nat \ {0} /\ (Page * k) % k = 0
  <2>1. Page \in Nat \ {0}
    BY UnitsAre
  <2>2. Page * k \in Nat \ {0}
    BY <2>1, <1>1, TimesPositive
  <2>3. Page \in Int /\ k \in Int
    BY <2>1, <1>1
  <2>4. Page * k = k * Page
    BY <2>3
  <2>5. (k * Page) % k = 0
    BY <2>3, <1>1, ModOfTimes
  <2> QED BY <2>2, <2>4, <2>5
<1>3. ASSUME NEW i \in S PROVE f[i] \in Int /\ g[i] = k * f[i]
  <2>1. g[i] \in Int /\ g[i] % (Page * k) = 0
    BY <1>2, <1>10
  <2>2. g[i] % k = 0
    BY <2>1, <1>12, <1>1, MultipleOf
  <2>3. g[i] \div k \in Int /\ g[i] = k * (g[i] \div k)
    BY <2>1, <2>2, <1>1, ExactDiv
  <2> QED BY <2>3, <1>11
<1>5. \A i \in S : f[i] \in Int
  BY <1>3
<1>6. \A i \in S : g[i] = k * f[i]
  BY <1>3
<1>7. SumFunctionOnSet(g, S) = k * SumFunctionOnSet(f, S)
  <2>1. k \in Int
    BY <1>1
  <2> QED BY ONLY <2>1, <1>2, <1>5, <1>6, SumTimes
<1>8. SumFunctionOnSet(f, S) \in Int
  BY <1>2, <1>5, SumInt
<1>9. (k * SumFunctionOnSet(f, S)) % k = 0
  BY <1>1, <1>8, ModOfTimes
<1> QED BY <1>4, <1>7, <1>9 DEF k

\* What each DIMM of a set has left of it.
LEMMA ShareIs ==
  ASSUME NEW N, WellMade(N), NEW s \in Sets
  PROVE  /\ Share(N, s) \in Int
         /\ SetSize[s] - TakenIn(N, "app direct", s) = Cardinality(DimmsOf[s]) * Share(N, s)
         /\ 0 <= Share(N, s) <=> TakenIn(N, "app direct", s) <= SetSize[s]
<1> DEFINE k == Cardinality(DimmsOf[s])
           a == TakenIn(N, "app direct", s)
           z == SetSize[s]
<1>1. k \in Nat \ {0} /\ z \in Nat /\ z % k = 0 /\ a \in Nat /\ a % k = 0
  BY SetsAre, TakenEvenly, TakenNat
<1> HIDE DEF k, a, z
<1>2. z = k * (z \div k) /\ a = k * (a \div k) /\ z \div k \in Int /\ a \div k \in Int
  BY <1>1, ExactDiv
<1> DEFINE y == z \div k
           b == a \div k
<1>3. y \in Int /\ b \in Int /\ z = k * y /\ a = k * b
  BY <1>2
<1> HIDE DEF y, b
<1>4. z - a = k * (y - b) /\ y - b \in Int
  <2>1. \A v, w, x \in Int : x * v - x * w = x * (v - w)
    OBVIOUS
  <2> QED BY <1>1, <1>3, <2>1
<1>5. (z - a) \div k = y - b
  BY <1>1, <1>4, ModOfTimes
<1>6. 0 <= y - b <=> k * 0 <= k * (y - b)
  BY <1>1, <1>4, TimesLess
<1>7. k * 0 = 0
  BY <1>1
<1>8. 0 <= y - b <=> a <= z
  BY <1>1, <1>4, <1>6, <1>7
<1> QED BY <1>4, <1>5, <1>8 DEF Share, k, a, z

\* What the storage namespaces of a DIMM take of its set.
LEMMA SpillIs ==
  ASSUME NEW N, WellMade(N), NEW d \in Dimms
  PROVE  /\ SpillIn(N, d) \in Nat
         /\ TakenIn(N, "storage", d) - StorageSize[d] <= SpillIn(N, d)
         /\ \A q \in Int : SpillIn(N, d) <= q <=> 0 <= q /\ TakenIn(N, "storage", d) - StorageSize[d] <= q
<1> DEFINE x == TakenIn(N, "storage", d) - StorageSize[d]
           S == {0, x}
<1>1. x \in Int
  BY TakenNat, DimmsAre
<1> HIDE DEF x
<1>2. S \subseteq Int /\ S # {}
  BY <1>1
<1>3. IsFiniteSet(S)
  <2>1. IsFiniteSet({0})
    BY FS_Singleton
  <2>2. S = {0} \cup {x}
    OBVIOUS
  <2> QED BY <2>1, <2>2, FS_AddElement
<1>4. Max(S) \in S /\ \A y \in S : y <= Max(S)
  BY <1>2, <1>3, MaxOfFinite
<1>5. SpillIn(N, d) = Max(S)
  BY DEF SpillIn, x
<1>6. (SpillIn(N, d) = 0 \/ SpillIn(N, d) = x) /\ 0 <= SpillIn(N, d) /\ x <= SpillIn(N, d)
  BY <1>4, <1>5
<1>7. SpillIn(N, d) \in Nat
  BY <1>1, <1>6
<1>8. \A q \in Int : SpillIn(N, d) <= q <=> 0 <= q /\ x <= q
  BY <1>1, <1>6, <1>7
<1> QED BY <1>6, <1>7, <1>8 DEF x

MostSpill(N, s) == Max({SpillIn(N, d) : d \in DimmsOf[s]})

LEMMA MostSpillIs ==
  ASSUME NEW N, WellMade(N), NEW s \in Sets
  PROVE  /\ MostSpill(N, s) \in Nat
         /\ \A d \in DimmsOf[s] : SpillIn(N, d) <= MostSpill(N, s)
         /\ \E d \in DimmsOf[s] : SpillIn(N, d) = MostSpill(N, s)
<1> DEFINE S == {SpillIn(N, d) : d \in DimmsOf[s]}
           f == [d \in DimmsOf[s] |-> SpillIn(N, d)]
<1>1. DimmsOf[s] # {} /\ IsFiniteSet(DimmsOf[s]) /\ DimmsOf[s] \subseteq Dimms
  BY SetsAre
<1>2. \A d \in DimmsOf[s] : SpillIn(N, d) \in Nat
  BY <1>1, SpillIs
<1>3. IsFiniteSet({f[d] : d \in DimmsOf[s]})
  BY <1>1, ImageFinite
<1>4. S = {f[d] : d \in DimmsOf[s]}
  OBVIOUS
<1>5. S \subseteq Nat /\ S # {} /\ IsFiniteSet(S)
  BY <1>1, <1>2, <1>3, <1>4
<1>6. S \subseteq Int
  BY <1>5
<1>7. Max(S) \in S /\ \A y \in S : y <= Max(S)
  BY <1>5, <1>6, MaxOfFinite
<1>8. Max(S) \in Nat
  BY <1>5, <1>7
<1> QED BY <1>7, <1>8 DEF MostSpill

\* What a set has free, of what each of its DIMMs has left of it.
LEMMA SetFreeIs ==
  ASSUME NEW N, WellMade(N), NEW s \in Sets
  PROVE  /\ SetFree(N, s) \in Int
         /\ SetFree(N, s) = Cardinality(DimmsOf[s]) * (Share(N, s) - MostSpill(N, s))
         /\ SetFree(N, s) = SetSize[s] - TakenIn(N, "app direct", s) - Cardinality(DimmsOf[s]) * MostSpill(N, s)
         /\ 0 <= SetFree(N, s) <=> \A d \in DimmsOf[s] : SpillIn(N, d) <= Share(N, s)
<1> DEFINE k == Cardinality(DimmsOf[s])
           q == Share(N, s)
           m == MostSpill(N, s)
<1>1. k \in Nat \ {0}
  BY SetsAre
<1>2. q \in Int
  BY ShareIs
<1>11. SetSize[s] - TakenIn(N, "app direct", s) = k * q
  BY ShareIs
<1>3. m \in Nat
  BY MostSpillIs
<1>4. SetFree(N, s) = SetSize[s] - TakenIn(N, "app direct", s) - k * m
  BY DEF SetFree, MostSpill
<1>5. 0 <= q - m <=> \A d \in DimmsOf[s] : SpillIn(N, d) <= q
  <2>1. \A d \in DimmsOf[s] : SpillIn(N, d) \in Nat /\ SpillIn(N, d) <= m
    BY MostSpillIs, SpillIs, SetsAre
  <2>2. PICK d \in DimmsOf[s] : SpillIn(N, d) = m
    BY MostSpillIs
  <2>3. q \in Int
    BY <1>2
  <2>4. ASSUME 0 <= q - m, NEW e \in DimmsOf[s] PROVE SpillIn(N, e) <= q
    <3>1. SpillIn(N, e) \in Nat /\ SpillIn(N, e) <= m
      BY <2>1
    <3> HIDE DEF q, m
    <3> QED BY <3>1, <2>3, <2>4, <1>3
  <2>5. ASSUME \A e \in DimmsOf[s] : SpillIn(N, e) <= q PROVE 0 <= q - m
    <3>1. m <= q
      BY <2>2, <2>5
    <3> HIDE DEF q, m
    <3> QED BY <3>1, <2>3, <1>3
  <2> QED BY <2>4, <2>5
<1> HIDE DEF k, q, m
<1>6. k * q - k * m = k * (q - m) /\ k * (q - m) \in Int /\ q - m \in Int
  <2>1. \A v, w, x \in Int : x * v - x * w = x * (v - w) /\ x * (v - w) \in Int
    OBVIOUS
  <2>2. k \in Int /\ q \in Int /\ m \in Int
    BY <1>1, <1>2, <1>3
  <2> QED BY <2>1, <2>2
<1>7. SetFree(N, s) = k * (q - m)
  BY <1>11, <1>4, <1>6
<1>8. 0 <= q - m <=> k * 0 <= k * (q - m)
  BY <1>1, <1>6, TimesLess
<1>9. k * 0 = 0
  BY <1>1
<1>10. 0 <= SetFree(N, s) <=> \A d \in DimmsOf[s] : SpillIn(N, d) <= q
  BY <1>5, <1>7, <1>8, <1>9
<1> QED BY <1>4, <1>6, <1>7, <1>10 DEF k, q, m

-----------------------------------------------------------------------------
(* DIMMs and the sets they are in, together *)

\* What a DIMM has free: of its own, and of its set if it is in one.
OwnFree(N, d) == StorageSize[d] - TakenIn(N, "storage", d)

LEMMA OwnFreeIs ==
  ASSUME NEW N, WellMade(N), NEW d \in Dimms
  PROVE  /\ OwnFree(N, d) \in Int
         /\ \A q \in Int : SpillIn(N, d) <= q <=> 0 <= q /\ 0 <= OwnFree(N, d) + q
         /\ - SpillIn(N, d) <= OwnFree(N, d) /\ SpillIn(N, d) \in Nat
<1> DEFINE z == StorageSize[d]
           t == TakenIn(N, "storage", d)
<1>1. z \in Nat
  BY DimmsAre
<1>2. t \in Nat
  BY TakenNat
<1>3. SpillIn(N, d) \in Nat /\ t - z <= SpillIn(N, d)
  BY SpillIs
<1>4. \A q \in Int : SpillIn(N, d) <= q <=> 0 <= q /\ t - z <= q
  BY SpillIs
<1>5. OwnFree(N, d) = z - t
  BY DEF OwnFree
<1> HIDE DEF z, t
<1>6. \A q \in Int : t - z <= q <=> 0 <= OwnFree(N, d) + q
  BY <1>1, <1>2, <1>5
<1> QED BY <1>1, <1>2, <1>3, <1>4, <1>5, <1>6

LEMMA DimmFreeIs ==
  ASSUME NEW N, WellMade(N), NEW d \in Dimms
  PROVE  /\ \A s \in Sets : d \in DimmsOf[s] => DimmFree(N, d) = OwnFree(N, d) + Share(N, s)
         /\ (\A s \in Sets : d \notin DimmsOf[s]) => DimmFree(N, d) = OwnFree(N, d)
         /\ DimmFree(N, d) \in Int
<1> DEFINE S == {t \in Sets : d \in DimmsOf[t]}
           f == [s \in S |-> Share(N, s)]
<1>1. DimmFree(N, d) = OwnFree(N, d) + SumFunctionOnSet(f, S)
  BY DEF DimmFree, OwnFree, SumFunction
<1>2. OwnFree(N, d) \in Int
  BY OwnFreeIs
<1>3. ASSUME NEW s \in Sets, d \in DimmsOf[s] PROVE DimmFree(N, d) = OwnFree(N, d) + Share(N, s) /\ DimmFree(N, d) \in Int
  <2>1. S = {s}
    BY <1>3, SetsAssumption
  <2>2. Share(N, s) \in Int
    BY ShareIs
  <2>3. f[s] = Share(N, s)
    BY <1>3
  <2> HIDE DEF f, S
  <2>4. SumFunctionOnSet(f, {s}) = f[s]
    BY <2>2, <2>3, SumOne
  <2> QED BY <2>1, <2>2, <2>3, <2>4, <1>1, <1>2
<1>4. ASSUME \A s \in Sets : d \notin DimmsOf[s] PROVE DimmFree(N, d) = OwnFree(N, d) /\ DimmFree(N, d) \in Int
  <2>1. S = {}
    BY <1>4
  <2> HIDE DEF f, S
  <2>2. SumFunctionOnSet(f, {}) = 0
    BY FS_EmptySet, SumPick
  <2> QED BY <2>1, <2>2, <1>1, <1>2
<1> HIDE DEF S, f
<1> QED BY <1>3, <1>4

\* A set and its DIMMs have room together.
LEMMA FreeTogether ==
  ASSUME NEW N, WellMade(N), NEW s \in Sets
  PROVE  0 <= SetFree(N, s) <=> /\ TakenIn(N, "app direct", s) <= SetSize[s]
                                /\ \A d \in DimmsOf[s] : 0 <= DimmFree(N, d)
<1> DEFINE q == Share(N, s)
           fits == TakenIn(N, "app direct", s) <= SetSize[s]
<1>1. q \in Int
  BY ShareIs
<1>2. 0 <= q <=> fits
  BY ShareIs
<1>3. 0 <= SetFree(N, s) <=> \A d \in DimmsOf[s] : SpillIn(N, d) <= q
  BY SetFreeIs
<1>4. DimmsOf[s] \subseteq Dimms /\ DimmsOf[s] # {}
  BY SetsAre
<1>5. \A d \in DimmsOf[s] : DimmFree(N, d) = OwnFree(N, d) + q
  BY <1>4, DimmFreeIs
<1>6. \A d \in DimmsOf[s] : SpillIn(N, d) <= q <=> 0 <= q /\ 0 <= OwnFree(N, d) + q
  BY <1>1, <1>4, OwnFreeIs
<1> HIDE DEF q, fits
<1>7. \A d \in DimmsOf[s] : SpillIn(N, d) <= q <=> 0 <= q /\ 0 <= DimmFree(N, d)
  BY <1>5, <1>6
<1>8. 0 <= SetFree(N, s) <=> fits /\ \A d \in DimmsOf[s] : 0 <= DimmFree(N, d)
  BY <1>2, <1>3, <1>4, <1>7
<1> QED BY <1>8 DEF fits

LEMMA PoolSums ==
  ASSUME NEW N, SoundIn(N), NEW D \in SUBSET Dimms
  PROVE  /\ PoolAt(N) \in Nat
         /\ SumFunctionOnSet([d \in Dimms |-> DimmFree(N, d)], D) \in Nat
         /\ SumFunctionOnSet([d \in Dimms |-> DimmFree(N, d)], D) <= PoolAt(N)
<1> DEFINE f == [d \in Dimms |-> DimmFree(N, d)]
<1>1. \A d \in Dimms : f[d] \in Nat
  <2> SUFFICES ASSUME NEW d \in Dimms PROVE f[d] \in Nat
    OBVIOUS
  <2>1. DimmFree(N, d) \in Int /\ DimmFree(N, d) >= 0
    BY DimmFreeIs DEF SoundIn
  <2> QED BY <2>1
<1>2. IsFiniteSet(Dimms)
  BY SetsAssumption
<1>3. IsFiniteSet(D)
  BY <1>2, FS_Subset
<1>4. PoolAt(N) = SumFunctionOnSet(f, Dimms)
  BY DEF PoolAt, SumFunction
<1> HIDE DEF f
<1>5. SumFunctionOnSet(f, D) <= SumFunctionOnSet(f, Dimms)
  BY <1>1, <1>2, SumPart
<1>6. SumFunctionOnSet(f, D) \in Nat /\ SumFunctionOnSet(f, Dimms) \in Nat
  BY <1>1, <1>2, <1>3, SumNat
<1> QED BY <1>4, <1>5, <1>6 DEF f

\* The pool has no less free than any of its places.
LEMMA PoolIsMost ==
  ASSUME NEW N, SoundIn(N), NEW type, NEW place, PlaceOK(type, place)
  PROVE  /\ FreeAt(N, type, place) \in Nat /\ PoolAt(N) \in Nat
         /\ FreeAt(N, type, place) <= PoolAt(N)
<1> DEFINE f == [d \in Dimms |-> DimmFree(N, d)]
<1>0. WellMade(N) /\ PoolAt(N) \in Nat
  BY PoolSums DEF SoundIn
<1>1. CASE type = "app direct"
  <2>1. FreeAt(N, type, place) = SetFree(N, place) /\ place \in Sets
    BY <1>1 DEF FreeAt, PlaceOK, PlaceOf
  <2> DEFINE D == DimmsOf[place]
             k == Cardinality(D)
             c == Share(N, place) - MostSpill(N, place)
             g == [d \in Dimms |-> c]
  <2>2. D \subseteq Dimms /\ IsFiniteSet(D) /\ k \in Nat
    BY <2>1, SetsAre
  <2>3. SetFree(N, place) \in Int /\ SetFree(N, place) >= 0
    BY <2>1, <1>0, SetFreeIs DEF SoundIn
  <2>9. SetFree(N, place) = k * c
    BY <2>1, <1>0, SetFreeIs
  <2>4. c \in Int
    <3>1. Share(N, place) \in Int
      BY <2>1, <1>0, ShareIs
    <3>2. MostSpill(N, place) \in Nat
      BY <2>1, <1>0, MostSpillIs
    <3> QED BY <3>1, <3>2
  <2>5. \A d \in D : g[d] = c /\ f[d] = DimmFree(N, d)
    BY <2>2
  <2>6. ASSUME NEW d \in D PROVE DimmFree(N, d) \in Int /\ c <= DimmFree(N, d)
    <3>0. d \in Dimms
      BY <2>2
    <3>1. DimmFree(N, d) \in Int /\ DimmFree(N, d) = OwnFree(N, d) + Share(N, place)
      BY <3>0, <2>1, <1>0, DimmFreeIs
    <3>2. OwnFree(N, d) \in Int /\ - SpillIn(N, d) <= OwnFree(N, d) /\ SpillIn(N, d) \in Nat
      BY <3>0, <1>0, OwnFreeIs
    <3>3. SpillIn(N, d) <= MostSpill(N, place) /\ MostSpill(N, place) \in Nat
      BY <2>1, <1>0, MostSpillIs
    <3>4. Share(N, place) \in Int
      BY <2>1, <1>0, ShareIs
    <3> QED BY <3>1, <3>2, <3>3, <3>4
  <2>7. SumFunctionOnSet(f, D) \in Nat /\ SumFunctionOnSet(f, D) <= PoolAt(N)
    BY <2>2, PoolSums
  <2> HIDE DEF D, k, c, g, f
  <2>8. SumFunctionOnSet(g, D) = k * c
    <3>1. \A d \in D : g[d] = c
      BY <2>5
    <3>2. SumFunctionOnSet(g, D) = Cardinality(D) * c
      BY ONLY <2>2, <2>4, <3>1, SumConst
    <3> QED BY <3>2 DEF k
  <2>10. SumFunctionOnSet(g, D) <= SumFunctionOnSet(f, D)
    <3>1. \A d \in D : g[d] \in Int /\ f[d] \in Int /\ g[d] <= f[d]
      BY <2>4, <2>5, <2>6
    <3> QED BY ONLY <2>2, <3>1, SumLess
  <2> QED BY <2>1, <2>3, <2>9, <2>7, <2>8, <2>10, <1>0
<1>2. CASE type # "app direct"
  <2>1. FreeAt(N, type, place) = DimmFree(N, place) /\ place \in Dimms
    BY <1>2 DEF FreeAt, PlaceOK, PlaceOf
  <2>2. DimmFree(N, place) \in Int /\ DimmFree(N, place) >= 0
    BY <2>1, <1>0, DimmFreeIs DEF SoundIn
  <2>3. f[place] = DimmFree(N, place)
    BY <2>1
  <2>4. SumFunctionOnSet(f, {place}) <= PoolAt(N)
    BY <2>1, PoolSums
  <2> HIDE DEF f
  <2>5. SumFunctionOnSet(f, {place}) = f[place]
    BY <2>2, <2>3, SumOne
  <2> QED BY <2>1, <2>2, <2>3, <2>4, <2>5, <1>0
<1> QED BY <1>1, <1>2

-----------------------------------------------------------------------------
(* A change of one place *)

\* Sound, of namespaces at places there are, is what SoundIn says.
LEMMA SoundIs ==
  ASSUME WellMade(ns)
  PROVE  Sound <=> SoundIn(ns)
<1>1. \A i \in Existing : WellSized(ns[i])
  BY DEF WellMade, Existing, Ids
<1>2. (\A s \in Sets : FreeIn(s) >= 0) <=> \A s \in Sets : SetFree(ns, s) >= 0
  BY FreeIs
<1>3. (\A d \in Dimms : FreeOn(d) >= 0) <=> \A d \in Dimms : DimmFree(ns, d) >= 0
  BY FreeIs
<1> QED BY <1>1, <1>2, <1>3 DEF Sound, SoundIn

\* One place takes more or less, and has room for it.
LEMMA SoundChange ==
  ASSUME NEW N, SoundIn(N), NEW M, WellMade(M), NEW t, NEW p, PlaceOK(t, p), NEW delta \in Int,
         TakenIn(M, t, p) = TakenIn(N, t, p) + delta,
         \A t2, p2 : t2 # t \/ p2 # p => TakenIn(M, t2, p2) = TakenIn(N, t2, p2),
         delta <= FreeAt(N, t, p)
  PROVE  SoundIn(M) /\ FreeAt(M, t, p) = FreeAt(N, t, p) - delta
<1>1. WellMade(N)
  BY DEF SoundIn
<1>2. \A s \in Sets : SetFree(N, s) \in Int /\ 0 <= SetFree(N, s) /\ SetFree(M, s) \in Int
  <2> SUFFICES ASSUME NEW s \in Sets PROVE SetFree(N, s) \in Int /\ 0 <= SetFree(N, s) /\ SetFree(M, s) \in Int
    OBVIOUS
  <2>1. SetFree(N, s) \in Int /\ SetFree(M, s) \in Int
    BY <1>1, SetFreeIs
  <2>2. SetFree(N, s) >= 0
    BY DEF SoundIn
  <2> QED BY <2>1, <2>2
<1>3. \A d \in Dimms : DimmFree(N, d) \in Int /\ 0 <= DimmFree(N, d) /\ DimmFree(M, d) \in Int
  <2> SUFFICES ASSUME NEW d \in Dimms PROVE DimmFree(N, d) \in Int /\ 0 <= DimmFree(N, d) /\ DimmFree(M, d) \in Int
    OBVIOUS
  <2>1. DimmFree(N, d) \in Int /\ DimmFree(M, d) \in Int
    BY <1>1, DimmFreeIs
  <2>2. DimmFree(N, d) >= 0
    BY DEF SoundIn
  <2> QED BY <2>1, <2>2
<1>4. CASE t = "app direct"
  <2>1. p \in Sets /\ FreeAt(N, t, p) = SetFree(N, p) /\ FreeAt(M, t, p) = SetFree(M, p)
    BY <1>4 DEF FreeAt, PlaceOK, PlaceOf
  <2>2. \A d : TakenIn(M, "storage", d) = TakenIn(N, "storage", d)
    BY <1>4
  <2>3. \A s : s # p => TakenIn(M, "app direct", s) = TakenIn(N, "app direct", s)
    BY <1>4
  <2>4. \A d : SpillIn(M, d) = SpillIn(N, d) /\ OwnFree(M, d) = OwnFree(N, d)
    BY <2>2 DEF SpillIn, OwnFree
  <2>5. \A s : MostSpill(M, s) = MostSpill(N, s)
    BY <2>4 DEF MostSpill
  <2>6. \A s : s # p => SetFree(M, s) = SetFree(N, s) /\ Share(M, s) = Share(N, s)
    BY <2>3, <2>5 DEF SetFree, MostSpill, Share
  <2>7. SetFree(M, p) = SetFree(N, p) - delta
    <3> DEFINE a == TakenIn(N, "app direct", p)
               b == TakenIn(M, "app direct", p)
               x == Cardinality(DimmsOf[p]) * MostSpill(N, p)
               z == SetSize[p]
    <3>1. b = a + delta
      BY <1>4
    <3>2. SetFree(N, p) = z - a - x
      BY <2>1, <1>1, SetFreeIs
    <3>3. SetFree(M, p) = z - b - x
      BY <2>1, <2>5, SetFreeIs
    <3>4. a \in Nat /\ b \in Nat
      BY <1>1, TakenNat
    <3>5. x \in Int
      <4>1. MostSpill(N, p) \in Nat
        BY <2>1, <1>1, MostSpillIs
      <4>2. Cardinality(DimmsOf[p]) \in Nat \ {0}
        BY <2>1, SetsAre
      <4>3. MostSpill(N, p) \in Int /\ Cardinality(DimmsOf[p]) \in Int
        BY <4>1, <4>2
      <4> QED BY <4>3, TimesIs
    <3>6. z \in Nat
      BY <2>1, SetsAre
    <3> HIDE DEF a, b, x, z
    <3> QED BY <3>1, <3>2, <3>3, <3>4, <3>5, <3>6
  <2>8. SetFree(M, p) \in Int /\ 0 <= SetFree(M, p)
    <3>1. delta <= SetFree(N, p) /\ SetFree(N, p) \in Int
      BY <2>1, <1>2
    <3> QED BY <3>1, <2>7
  <2>9. \A s \in Sets : SetFree(M, s) >= 0
    BY <2>6, <2>8, <1>2
  <2>10. \A d \in DimmsOf[p] : 0 <= DimmFree(M, d)
    BY <2>1, <2>8, FreeTogether
  <2>11. ASSUME NEW d \in Dimms, d \notin DimmsOf[p] PROVE DimmFree(M, d) = DimmFree(N, d)
    <3>1. CASE \E s \in Sets : d \in DimmsOf[s]
      <4>1. PICK s \in Sets : d \in DimmsOf[s]
        BY <3>1
      <4>2. s # p
        BY <4>1, <2>11
      <4>3. DimmFree(M, d) = OwnFree(M, d) + Share(M, s) /\ DimmFree(N, d) = OwnFree(N, d) + Share(N, s)
        BY <4>1, <1>1, DimmFreeIs
      <4> QED BY <4>2, <4>3, <2>4, <2>6
    <3>2. CASE ~ \E s \in Sets : d \in DimmsOf[s]
      <4>1. DimmFree(M, d) = OwnFree(M, d) /\ DimmFree(N, d) = OwnFree(N, d)
        BY <3>2, <1>1, DimmFreeIs
      <4> QED BY <4>1, <2>4
    <3> QED BY <3>1, <3>2
  <2>12. \A d \in Dimms : DimmFree(M, d) >= 0
    <3> SUFFICES ASSUME NEW d \in Dimms PROVE DimmFree(M, d) >= 0
      OBVIOUS
    <3>1. 0 <= DimmFree(M, d)
      BY <2>10, <2>11, <1>3
    <3> QED BY <3>1, <1>3
  <2>13. SoundIn(M)
    BY <2>9, <2>12 DEF SoundIn
  <2>14. FreeAt(M, t, p) = FreeAt(N, t, p) - delta
    BY <2>1, <2>7
  <2> QED BY <2>13, <2>14
<1>5. CASE t # "app direct"
  <2>1. p \in Dimms /\ FreeAt(N, t, p) = DimmFree(N, p) /\ FreeAt(M, t, p) = DimmFree(M, p) /\ t = "storage"
    BY <1>5 DEF FreeAt, PlaceOK, PlaceOf, Types
  <2>2. \A s : TakenIn(M, "app direct", s) = TakenIn(N, "app direct", s)
    BY <1>5
  <2>3. \A d : d # p => TakenIn(M, "storage", d) = TakenIn(N, "storage", d)
    BY <2>1
  <2>4. \A s : Share(M, s) = Share(N, s)
    BY <2>2 DEF Share
  <2>5. \A d : d # p => OwnFree(M, d) = OwnFree(N, d)
    BY <2>3 DEF OwnFree
  <2>6. OwnFree(M, p) = OwnFree(N, p) - delta /\ OwnFree(N, p) \in Int
    <3> DEFINE a == TakenIn(N, "storage", p)
               b == TakenIn(M, "storage", p)
               z == StorageSize[p]
    <3>1. b = a + delta
      BY <2>1
    <3>2. OwnFree(N, p) = z - a /\ OwnFree(M, p) = z - b
      BY DEF OwnFree
    <3>3. a \in Nat /\ b \in Nat
      BY <1>1, TakenNat
    <3>4. z \in Nat
      BY <2>1, DimmsAre
    <3> HIDE DEF a, b, z
    <3> QED BY <3>1, <3>2, <3>3, <3>4
  <2>7. \A d \in Dimms : d # p => DimmFree(M, d) = DimmFree(N, d)
    <3> SUFFICES ASSUME NEW d \in Dimms, d # p PROVE DimmFree(M, d) = DimmFree(N, d)
      OBVIOUS
    <3>1. CASE \E s \in Sets : d \in DimmsOf[s]
      <4>1. PICK s \in Sets : d \in DimmsOf[s]
        BY <3>1
      <4>3. DimmFree(M, d) = OwnFree(M, d) + Share(M, s) /\ DimmFree(N, d) = OwnFree(N, d) + Share(N, s)
        BY <4>1, <1>1, DimmFreeIs
      <4> QED BY <4>3, <2>4, <2>5
    <3>2. CASE ~ \E s \in Sets : d \in DimmsOf[s]
      <4>1. DimmFree(M, d) = OwnFree(M, d) /\ DimmFree(N, d) = OwnFree(N, d)
        BY <3>2, <1>1, DimmFreeIs
      <4> QED BY <4>1, <2>5
    <3> QED BY <3>1, <3>2
  <2>8. DimmFree(M, p) = DimmFree(N, p) - delta
    <3>1. CASE \E s \in Sets : p \in DimmsOf[s]
      <4>1. PICK s \in Sets : p \in DimmsOf[s]
        BY <3>1
      <4>3. DimmFree(M, p) = OwnFree(M, p) + Share(M, s) /\ DimmFree(N, p) = OwnFree(N, p) + Share(N, s)
        BY <2>1, <4>1, <1>1, DimmFreeIs
      <4>4. Share(M, s) = Share(N, s)
        BY <2>4
      <4>5. Share(N, s) \in Int
        BY <1>1, ShareIs
      <4> QED BY <4>3, <4>4, <4>5, <2>6
    <3>2. CASE ~ \E s \in Sets : p \in DimmsOf[s]
      <4>1. DimmFree(M, p) = OwnFree(M, p) /\ DimmFree(N, p) = OwnFree(N, p)
        BY <2>1, <3>2, <1>1, DimmFreeIs
      <4> QED BY <4>1, <2>6
    <3> QED BY <3>1, <3>2
  <2>9. \A d \in Dimms : 0 <= DimmFree(M, d)
    <3> SUFFICES ASSUME NEW d \in Dimms PROVE 0 <= DimmFree(M, d)
      OBVIOUS
    <3>1. CASE d = p
      <4>1. delta <= DimmFree(N, p) /\ DimmFree(N, p) \in Int
        BY <2>1, <1>3
      <4>2. 0 <= DimmFree(M, p)
        BY <4>1, <2>8
      <4> QED BY <4>2, <3>1
    <3>2. CASE d # p
      BY <3>2, <2>7, <1>3
    <3> QED BY <3>1, <3>2
  <2>10. \A s \in Sets : 0 <= SetFree(M, s)
    <3> SUFFICES ASSUME NEW s \in Sets PROVE 0 <= SetFree(M, s)
      OBVIOUS
    <3>1. TakenIn(N, "app direct", s) <= SetSize[s]
      BY <1>1, <1>2, FreeTogether
    <3>2. TakenIn(M, "app direct", s) <= SetSize[s]
      BY <3>1, <2>2
    <3>3. \A d \in DimmsOf[s] : 0 <= DimmFree(M, d)
      BY <2>9, SetsAre
    <3> QED BY <3>2, <3>3, FreeTogether
  <2>11. (\A s \in Sets : SetFree(M, s) >= 0) /\ \A d \in Dimms : DimmFree(M, d) >= 0
    BY <2>9, <2>10, <1>2, <1>3
  <2>12. SoundIn(M)
    BY <2>11 DEF SoundIn
  <2>13. FreeAt(M, t, p) = FreeAt(N, t, p) - delta
    BY <2>1, <2>8
  <2> QED BY <2>12, <2>13
<1> QED BY <1>4, <1>5

LEMMA WellMadePut ==
  ASSUME NEW N, WellMade(N), NEW id \in DOMAIN N, NEW n, n = NoNs \/ (Sited(n) /\ WellSized(n))
  PROVE  WellMade(Changed(N, id, n))
<1> DEFINE M == Changed(N, id, n)
<1>1. n \in Namespace \cup {NoNs}
  BY DEF Sited
<1>2. DOMAIN M = DOMAIN N /\ M \in [DOMAIN N -> Namespace \cup {NoNs}]
  BY <1>1 DEF WellMade, Changed
<1>3. \A i \in DOMAIN N : M[i] = n \/ M[i] = N[i]
  BY DEF WellMade, Changed
<1> HIDE DEF M
<1>4. \A i \in DOMAIN M : M[i] # NoNs => Sited(M[i]) /\ WellSized(M[i])
  BY <1>2, <1>3 DEF WellMade
<1>5. DOMAIN M \subseteq Nat /\ IsFiniteSet(DOMAIN M) /\ M \in [DOMAIN M -> Namespace \cup {NoNs}]
  BY <1>2 DEF WellMade
<1>6. WellMade(M)
  BY <1>4, <1>5 DEF WellMade
<1> QED BY <1>6 DEF M

\* A namespace is made, or changed where it is.
LEMMA Put ==
  ASSUME NEW N, SoundIn(N), NEW id \in DOMAIN N, NEW n, Sited(n), WellSized(n), NEW t, NEW p, t = n.type, p = n.place,
         N[id] = NoNs \/ (N[id].type = t /\ N[id].place = p),
         Capacity(n) <= FreeAt(N, t, p) + PartOf(N[id], t, p)
  PROVE  /\ SoundIn(Changed(N, id, n))
         /\ FreeAt(Changed(N, id, n), t, p) = FreeAt(N, t, p) + PartOf(N[id], t, p) - Capacity(n)
<1> DEFINE M == Changed(N, id, n)
           delta == Capacity(n) - PartOf(N[id], t, p)
<1>1. WellMade(N) /\ WellMade(M)
  BY WellMadePut DEF SoundIn
<1>2. PlaceOK(t, p) /\ n # NoNs /\ Capacity(n) \in Nat
  BY NamespaceIs
<1>3. PartOf(n, t, p) = Capacity(n)
  BY <1>2 DEF PartOf
<1>4. \A t2, p2 : t2 # t \/ p2 # p => PartOf(n, t2, p2) = 0 /\ PartOf(N[id], t2, p2) = 0
  BY DEF PartOf
<1>5. \A t2, p2 : /\ PartOf(n, t2, p2) \in Nat /\ PartOf(N[id], t2, p2) \in Nat /\ TakenIn(N, t2, p2) \in Nat
                  /\ TakenIn(M, t2, p2) = TakenIn(N, t2, p2) - PartOf(N[id], t2, p2) + PartOf(n, t2, p2)
  <2> TAKE t2, p2
  <2>1. TakenIn(N, t2, p2) \in Nat
    BY <1>1, TakenNat
  <2>3. /\ PartOf(n, t2, p2) \in Nat /\ PartOf(N[id], t2, p2) \in Nat
        /\ TakenIn(M, t2, p2) = TakenIn(N, t2, p2) - PartOf(N[id], t2, p2) + PartOf(n, t2, p2)
    BY <1>1, TakenChange
  <2> QED BY <2>1, <2>3
<1>6. FreeAt(N, t, p) \in Nat
  BY <1>2, PoolIsMost
<1>9. Capacity(n) <= FreeAt(N, t, p) + PartOf(N[id], t, p)
  OBVIOUS
<1> HIDE DEF M
<1>7. /\ delta \in Int /\ TakenIn(M, t, p) = TakenIn(N, t, p) + delta
      /\ delta <= FreeAt(N, t, p)
  <2>1. /\ PartOf(N[id], t, p) \in Nat /\ TakenIn(N, t, p) \in Nat
        /\ TakenIn(M, t, p) = TakenIn(N, t, p) - PartOf(N[id], t, p) + Capacity(n)
    BY <1>5, <1>3
  <2> QED BY ONLY <2>1, <1>2, <1>6, <1>9
<1>8. \A t2, p2 : t2 # t \/ p2 # p => TakenIn(M, t2, p2) = TakenIn(N, t2, p2)
  <2> SUFFICES ASSUME NEW t2, NEW p2, t2 # t \/ p2 # p PROVE TakenIn(M, t2, p2) = TakenIn(N, t2, p2)
    OBVIOUS
  <2>1. PartOf(n, t2, p2) = 0 /\ PartOf(N[id], t2, p2) = 0 /\ TakenIn(N, t2, p2) \in Nat
        /\ TakenIn(M, t2, p2) = TakenIn(N, t2, p2) - PartOf(N[id], t2, p2) + PartOf(n, t2, p2)
    BY <1>4, <1>5
  <2> QED BY ONLY <2>1
<1> HIDE DEF delta
<1>10. SoundIn(M) /\ FreeAt(M, t, p) = FreeAt(N, t, p) - delta
  BY ONLY SoundIn(N), <1>1, <1>2, <1>7, <1>8, SoundChange
<1>11. FreeAt(M, t, p) = FreeAt(N, t, p) + PartOf(N[id], t, p) - Capacity(n)
  <2>1. PartOf(N[id], t, p) \in Nat
    BY <1>5
  <2> QED BY <2>1, <1>2, <1>6, <1>10 DEF delta
<1> QED BY <1>10, <1>11 DEF M

\* A namespace is deleted.
LEMMA Drop ==
  ASSUME NEW N, SoundIn(N), NEW id \in DOMAIN N, N[id] # NoNs
  PROVE  SoundIn(Changed(N, id, NoNs))
<1> DEFINE M == Changed(N, id, NoNs)
           t == N[id].type
           p == N[id].place
           delta == - PartOf(N[id], t, p)
<1>1. WellMade(N) /\ WellMade(M)
  BY WellMadePut DEF SoundIn
<1>2. PlaceOK(t, p)
  <2>1. Sited(N[id])
    BY <1>1 DEF WellMade
  <2> QED BY <2>1, NamespaceIs
<1>3. \A t2, p2 : PartOf(NoNs, t2, p2) = 0
  BY DEF PartOf
<1>4. \A t2, p2 : t2 # t \/ p2 # p => PartOf(N[id], t2, p2) = 0
  BY DEF PartOf
<1>5. \A t2, p2 : /\ PartOf(N[id], t2, p2) \in Nat /\ TakenIn(N, t2, p2) \in Nat
                  /\ TakenIn(M, t2, p2) = TakenIn(N, t2, p2) - PartOf(N[id], t2, p2)
  <2> TAKE t2, p2
  <2>1. TakenIn(N, t2, p2) \in Nat
    BY <1>1, TakenNat
  <2>3. /\ PartOf(N[id], t2, p2) \in Nat
        /\ TakenIn(M, t2, p2) = TakenIn(N, t2, p2) - PartOf(N[id], t2, p2) + PartOf(NoNs, t2, p2)
    BY <1>1, TakenChange
  <2>4. PartOf(NoNs, t2, p2) = 0
    BY <1>3
  <2> QED BY ONLY <2>1, <2>3, <2>4
<1>6. FreeAt(N, t, p) \in Nat
  BY <1>2, PoolIsMost
<1> HIDE DEF M, t, p
<1>7. /\ delta \in Int /\ TakenIn(M, t, p) = TakenIn(N, t, p) + delta
      /\ delta <= FreeAt(N, t, p)
  <2>1. /\ PartOf(N[id], t, p) \in Nat /\ TakenIn(N, t, p) \in Nat
        /\ TakenIn(M, t, p) = TakenIn(N, t, p) - PartOf(N[id], t, p)
    BY <1>5
  <2> QED BY ONLY <2>1, <1>6
<1>8. \A t2, p2 : t2 # t \/ p2 # p => TakenIn(M, t2, p2) = TakenIn(N, t2, p2)
  <2> SUFFICES ASSUME NEW t2, NEW p2, t2 # t \/ p2 # p PROVE TakenIn(M, t2, p2) = TakenIn(N, t2, p2)
    OBVIOUS
  <2>1. PartOf(N[id], t2, p2) = 0 /\ TakenIn(N, t2, p2) \in Nat
        /\ TakenIn(M, t2, p2) = TakenIn(N, t2, p2) - PartOf(N[id], t2, p2)
    BY <1>4, <1>5
  <2> QED BY ONLY <2>1
<1> HIDE DEF delta
<1>10. SoundIn(M)
  BY ONLY SoundIn(N), <1>1, <1>2, <1>7, <1>8, SoundChange
<1> QED BY <1>10 DEF M

-----------------------------------------------------------------------------
(* The calls *)

Points == {"idle", "adjust", "check", "driver", "next", "size", "parts", "undo", "told"}
Outcomes == {"none", "ok", "failed", "undo failed", "gone", "refused", "size", "security", "alignment", "too many"}
CallsOf(I) ==
  [kind : {"idle", "create", "change", "delete"}, pc : Points, ask : Asks, todo : Seq(I), id : Nat, count : Nat,
   made : Namespace \cup {NoNs}, old : Namespace \cup {NoNs}, at : Nat, undo : BOOLEAN, answer : Outcomes,
   alone : BOOLEAN]

WantedOf(r) ==
  [r.old EXCEPT !.count = IF r.ask.given THEN r.count ELSE @,
                !.name = IF r.ask.rename THEN UserName ELSE @,
                !.on = IF r.ask.on = "keep" THEN @ ELSE r.ask.on = "on"]

\* What every call keeps, of namespaces with the identifiers I.
Bound(r) == Sited(r.old) /\ WellSized(r.old)
CreateKeeps(r) ==
  /\ r.ask \in Creates /\ r.todo = <<>> /\ r.pc \in {"adjust", "check", "driver", "told"}
  /\ r.pc = "adjust" => r.ask.by = "cli"
  /\ r.pc = "driver" => Sited(r.made) /\ WellSized(r.made)
ChangeKeeps(r, I) ==
  /\ r.ask \in Changes /\ r.pc \in {"next", "size", "parts", "undo", "told"}
  /\ r.pc \in {"size", "parts", "undo"} => r.id \in I /\ Bound(r)
  /\ r.pc = "size" => r.at = 1 /\ ~ r.undo
  /\ r.pc = "parts" => r.at \in {1, 2, 3} /\ (r.ask.by = "cim" => r.at # 3)
  /\ r.pc = "undo" => r.ask.by = "cli"
Keeps(r, I) ==
  /\ r \in CallsOf(I)
  /\ r.kind = "idle" <=> r.pc = "idle"
  /\ r.kind = "create" => CreateKeeps(r)
  /\ r.kind = "change" => ChangeKeeps(r, I)
  /\ r.kind = "delete" => r.pc \in {"next", "driver", "told"} /\ (r.pc = "driver" => r.id \in I)
  /\ r.pc = "next" => r.todo # <<>>

-----------------------------------------------------------------------------
(* A change next to which there is no other *)

Same(n, o) == n # NoNs /\ n.type = o.type /\ n.place = o.place
Room(N, n, o) == Capacity(o) <= FreeAt(N, o.type, o.place) + Capacity(n)

\* The count that was asked for has been written.
Done(r, n) ==
  /\ n.count = CountOf(r.old.type, r.old.place, WantedOf(r).count)
  /\ Adjusted(r.old.type, r.old.place, WantedOf(r).count, TRUE) >= MinimumSize(r.old.type, r.old.place)

Parts(n, name, count, on) == n.name = name /\ n.count = count /\ n.on = on

Forth(r, n) ==
  LET o == r.old
      w == WantedOf(r)
  IN IF r.ask.by = "cli"
     THEN /\ r.at = 1 => Parts(n, o.name, o.count, o.on)
          /\ r.at = 2 => Parts(n, w.name, o.count, o.on)
          /\ r.at = 3 => n.name = w.name /\ Done(r, n) /\ n.on = o.on
     ELSE /\ r.at = 1 => Parts(n, o.name, o.count, o.on)
          /\ r.at = 2 => n.name = o.name /\ Done(r, n) /\ n.on = o.on
Back(r, n, faults) ==
  LET o == r.old
      m == r.made
  IN IF r.ask.by = "cli"
     THEN /\ r.at = 1 => Parts(n, m.name, m.count, m.on)
          /\ r.at = 2 => Parts(n, o.name, m.count, m.on)
          /\ r.at = 3 => Parts(n, o.name, o.count, m.on)
     ELSE /\ m = WantedOf(r) /\ n.name = o.name /\ n.on = o.on
          /\ n.count = o.count \/ (Done(r, n) /\ faults >= 1)

ChangeAlone(r, N, faults) ==
  LET n == N[r.id]
      o == r.old
      w == WantedOf(r)
  IN /\ r.pc \in {"size", "parts", "undo"} => Same(n, o) /\ Room(N, n, o)
     /\ r.pc = "size" => Parts(n, o.name, o.count, o.on)
     /\ r.pc = "parts" /\ ~ r.undo => Forth(r, n)
     /\ r.pc = "parts" /\ r.undo => Back(r, n, faults)
     /\ r.pc = "told" /\ r.answer = "ok" =>
          r.id \in DOMAIN N /\ Bound(r) /\ Same(n, o) /\ n.name = w.name /\ n.on = w.on /\ Done(r, n)
     /\ r.pc = "told" /\ r.answer = "failed" /\ (r.ask.by = "cli" \/ faults <= 1) => n = o

-----------------------------------------------------------------------------
(* A creation next to which there is no other *)

DimmsOn(type, place) == IF type = "app direct" THEN DimmsOf[place] ELSE {place}

\* A place takes the size, open and secure as asked for.
GoodAt(N, ask, p, cap) ==
  /\ FreeAt(N, ask.type, p) >= cap /\ cap >= MinimumSize(ask.type, p) /\ cap % Alignment(ask.type, p) = 0
  /\ Meets(DimmsOn(ask.type, p), ask)
  /\ ask.type = "app direct" => OnIn(N, "app direct", p) = {}

Near(ask, p, cap) ==
  LET asked == ask.count * Real(ask.type)
      unit == Alignment(ask.type, p)
  IN asked - unit <= cap /\ cap <= asked + unit

\* The adjusted size has a place, and is near what was asked for at every
\* place before it that takes it.
Ready(r, N) ==
  LET cap == r.count * Real(r.ask.type)
  IN \E p \in PlaceOf(r.ask.type) :
       /\ GoodAt(N, r.ask, p, cap)
       /\ \A q \in PlaceOf(r.ask.type) : q <= p /\ GoodAt(N, r.ask, q, cap) => Near(r.ask, q, cap)

\* No place takes the size rounded up, nor, where that is tried, down.
NoRoom(ask, N) ==
  \A p \in PlaceOf(ask.type) :
    LET up == Adjusted(ask.type, p, ask.count, TRUE)
        unit == Alignment(ask.type, p)
        fits(x) == FreeAt(N, ask.type, p) >= x /\ x >= MinimumSize(ask.type, p)
    IN (ask.type = "app direct" => OnIn(N, "app direct", p) = {}) =>
         /\ ~ fits(up)
         /\ (/\ ask.type = "storage" /\ up # ask.count * Real(ask.type)
             /\ \E d \in Dimms : ask.count * SizeOfBlock("storage") <= DimmFree(N, d))
              => ~ fits(up - unit)

AsWanted(r, N, n) ==
  /\ Meets(DimmsOn(n.type, n.place), r.ask)
  /\ r.ask.given => Near(r.ask, n.place, Capacity(n))
  /\ n.type = r.ask.type

CreateAlone(r, N) ==
  /\ r.pc = "adjust" /\ r.ask.given => r.count = r.ask.count
  /\ r.pc = "check" /\ r.ask.given => IF r.ask.by = "cli" THEN Ready(r, N) ELSE r.count = r.ask.count
  /\ r.pc = "driver" =>
       /\ AsWanted(r, N, r.made)
       /\ r.ask.type = "app direct" => OnIn(N, "app direct", r.made.place) = {}
       /\ ~ r.ask.rename => \A i \in DOMAIN N : N[i] # NoNs => N[i].name # r.made.name
  /\ r.pc = "told" /\ r.answer = "ok" =>
       /\ r.id \in DOMAIN N /\ N[r.id] # NoNs /\ AsWanted(r, N, N[r.id])
       /\ r.ask.type = "app direct" => OnIn(N, "app direct", N[r.id].place) = {r.id}
       /\ ~ r.ask.rename => \A i \in DOMAIN N : i # r.id /\ N[i] # NoNs => N[i].name # N[r.id].name
  /\ /\ r.pc = "told" /\ r.answer \in {"size", "too many"} /\ r.ask.given /\ r.ask.by = "cli"
     /\ ~ r.ask.encryption /\ ~ r.ask.erase
     => NoRoom(r.ask, N)

Alone(r, N, faults) ==
  r.alone => /\ r.kind = "change" => ChangeAlone(r, N, faults)
             /\ r.kind = "create" => CreateAlone(r, N)

Uses(u) == u.calls \in Nat /\ u.faults \in Nat /\ u = [calls |-> u.calls, faults |-> u.faults]

NsInv ==
  /\ SoundIn(ns) /\ Uses(used)
  /\ call \in [Clients -> CallsOf(DOMAIN ns)]
  /\ \A c \in Clients : Keeps(call[c], DOMAIN ns) /\ Alone(call[c], ns, used.faults)
  /\ \A c, d \in Clients : c # d /\ call[c].pc # "idle" /\ call[c].alone => call[d].pc = "idle"

-----------------------------------------------------------------------------

\* A step of one call.
NextIs(c, r) ==
  /\ call' = [call EXCEPT ![c] = r] /\ DOMAIN ns' = DOMAIN ns
  /\ r.pc = "idle" \/ r.alone = call[c].alone
  /\ Keeps(r, DOMAIN ns) /\ Alone(r, ns', used'.faults)

LEMMA IdleAlone ==
  ASSUME NEW r, NEW N, NEW faults, NEW I, Keeps(r, I), r.pc = "idle"
  PROVE  Alone(r, N, faults)
  BY DEF Keeps, Alone

LEMMA StepKeeps ==
  ASSUME NsInv, NEW c \in Clients, call[c].pc # "idle", NEW r, NextIs(c, r), SoundIn(ns'), Uses(used')
  PROVE  NsInv'
<1>1. call' \in [Clients -> CallsOf(DOMAIN ns')]
  BY DEF NsInv, NextIs, Keeps
<1>2. \A d \in Clients : call'[d] = IF d = c THEN r ELSE call[d]
  BY DEF NsInv, NextIs
<1>3. ASSUME NEW d \in Clients PROVE Keeps(call'[d], DOMAIN ns') /\ Alone(call'[d], ns', used'.faults)
  <2>1. CASE d = c
    BY <2>1, <1>2 DEF NextIs
  <2>2. CASE d # c
    <3>1. call'[d] = call[d] /\ Keeps(call[d], DOMAIN ns')
      BY <2>2, <1>2 DEF NsInv, NextIs
    <3>2. CASE call[d].pc = "idle"
      BY <3>1, <3>2, IdleAlone
    <3>3. CASE call[d].pc # "idle"
      <4>1. ~ call[d].alone
        BY <2>2, <3>3 DEF NsInv
      <4> QED BY <3>1, <4>1 DEF Alone
    <3> QED BY <3>1, <3>2, <3>3
  <2> QED BY <2>1, <2>2
<1>4. \A d, e \in Clients : d # e /\ call'[d].pc # "idle" /\ call'[d].alone => call'[e].pc = "idle"
  <2> SUFFICES ASSUME NEW d \in Clients, NEW e \in Clients, d # e, call'[d].pc # "idle", call'[d].alone
               PROVE  call'[e].pc = "idle"
    OBVIOUS
  <2>1. CASE d = c
    <3>1. call[c].alone /\ call'[e] = call[e]
      BY <2>1, <1>2 DEF NextIs
    <3> QED BY <3>1, <2>1 DEF NsInv
  <2>2. CASE d # c
    <3>1. call'[d] = call[d]
      BY <2>2, <1>2
    <3>2. call[c].pc = "idle"
      BY <3>1, <2>2 DEF NsInv
    <3> QED BY <3>2
  <2> QED BY <2>1, <2>2
<1> QED BY <1>1, <1>3, <1>4 DEF NsInv

\* Its forms.
LEMMA Forms ==
  ASSUME NsInv, NEW c \in Clients
  PROVE  /\ \A answer : Told(c, answer) => call' = [call EXCEPT ![c] = [call[c] EXCEPT !.pc = "told", !.answer = answer]]
         /\ \A pc : Step(c, pc) => call' = [call EXCEPT ![c] = [call[c] EXCEPT !.pc = pc]]
         /\ Fault => Uses(used') /\ used'.faults = used.faults + 1
         /\ Wanted(c) = WantedOf(call[c])
<1>1. \A answer : Told(c, answer) => call' = [call EXCEPT ![c] = [call[c] EXCEPT !.pc = "told", !.answer = answer]]
  BY DEF NsInv, Told
<1>2. \A pc : Step(c, pc) => call' = [call EXCEPT ![c] = [call[c] EXCEPT !.pc = pc]]
  BY DEF NsInv, Step
<1>3. Fault => Uses(used') /\ used'.faults = used.faults + 1
  <2> SUFFICES ASSUME Fault PROVE Uses(used') /\ used'.faults = used.faults + 1
    OBVIOUS
  <2>1. Uses(used)
    BY DEF NsInv
  <2> QED BY <2>1 DEF Fault, Uses
<1>4. Wanted(c) = WantedOf(call[c])
  BY DEF Wanted, WantedOf
<1> QED BY <1>1, <1>2, <1>3, <1>4

-----------------------------------------------------------------------------
(* Answers *)

LEMMA SoundHere ==
  ASSUME NsInv
  PROVE  SoundIn(ns) /\ WellMade(ns) /\ DOMAIN ns \subseteq Nat /\ Uses(used) /\ used.faults \in Nat
         /\ \A i \in DOMAIN ns : ns[i] # NoNs => Sited(ns[i]) /\ WellSized(ns[i])
  BY DEF NsInv, SoundIn, WellMade, Uses

\* What a call is told, and that it is shown.
ToldWith(r, answer) == [r EXCEPT !.pc = "told", !.answer = answer]

LEMMA AnsweredIs ==
  ASSUME NEW I, NEW r, r \in CallsOf(I), NEW answer \in Outcomes
  PROVE  /\ ToldWith(r, answer) \in CallsOf(I)
         /\ ToldWith(r, answer).pc = "told" /\ ToldWith(r, answer).answer = answer
         /\ ToldWith(r, answer).kind = r.kind /\ ToldWith(r, answer).ask = r.ask /\ ToldWith(r, answer).id = r.id
         /\ ToldWith(r, answer).old = r.old /\ ToldWith(r, answer).alone = r.alone
         /\ ToldWith(r, answer).todo = r.todo /\ ToldWith(r, answer).count = r.count
         /\ WantedOf(ToldWith(r, answer)) = WantedOf(r)
  BY DEF ToldWith, CallsOf, Points, WantedOf

LEMMA ToldKeeps ==
  ASSUME NEW I, NEW r, Keeps(r, I), r.pc # "idle", NEW answer \in Outcomes
  PROVE  Keeps(ToldWith(r, answer), I)
<1> DEFINE t == ToldWith(r, answer)
<1>1. /\ t \in CallsOf(I) /\ t.pc = "told" /\ t.kind = r.kind /\ t.ask = r.ask /\ t.todo = r.todo
  BY AnsweredIs DEF Keeps
<1> HIDE DEF t
<1>2. t.kind = "create" => CreateKeeps(t)
  BY <1>1 DEF Keeps, CreateKeeps
<1>3. t.kind = "change" => ChangeKeeps(t, I)
  BY <1>1 DEF Keeps, ChangeKeeps
<1>4. Keeps(t, I)
  BY <1>1, <1>2, <1>3 DEF Keeps
<1> QED BY <1>4 DEF t

\* Answers that say nothing of what was done.
LEMMA ToldNothing ==
  ASSUME NEW I, NEW r, Keeps(r, I), NEW answer \in Outcomes, NEW N, NEW faults,
         answer \notin {"ok", "failed", "size", "too many"} \/ r.kind = "delete"
           \/ (r.kind = "change" /\ answer \in {"size", "too many"}) \/ (r.kind = "create" /\ answer = "failed")
  PROVE  Alone(ToldWith(r, answer), N, faults)
<1> DEFINE t == ToldWith(r, answer)
<1>1. t.pc = "told" /\ t.answer = answer /\ t.kind = r.kind
  BY AnsweredIs DEF Keeps
<1> HIDE DEF t
<1>2. t.kind = "change" => ChangeAlone(t, N, faults)
  BY <1>1 DEF ChangeAlone
<1>3. t.kind = "create" => CreateAlone(t, N)
  BY <1>1 DEF CreateAlone
<1>4. Alone(t, N, faults)
  BY <1>2, <1>3 DEF Alone
<1> QED BY <1>4 DEF t

\* A call is told that, and nothing else happens.
LEMMA ToldStep ==
  ASSUME NsInv, NEW c \in Clients, call[c].pc # "idle", NEW answer \in Outcomes, Told(c, answer),
         SoundIn(ns'), DOMAIN ns' = DOMAIN ns, Uses(used'),
         Alone(ToldWith(call[c], answer), ns', used'.faults)
  PROVE  NsInv'
<1> DEFINE r == ToldWith(call[c], answer)
<1>1. Keeps(call[c], DOMAIN ns)
  BY DEF NsInv
<1>2. Keeps(r, DOMAIN ns) /\ r.alone = call[c].alone
  BY <1>1, ToldKeeps, AnsweredIs DEF Keeps
<1>3. call' = [call EXCEPT ![c] = r]
  BY Forms DEF ToldWith
<1> HIDE DEF r
<1>4. NextIs(c, r)
  BY <1>2, <1>3 DEF NextIs, r
<1> QED BY <1>4, StepKeeps

-----------------------------------------------------------------------------

LEMMA CheckModifySays ==
  ASSUME NEW id, NEW count
  PROVE  CheckModify(id, count).rc \in {"found", "gone", "size"}
<1> DEFINE x == CheckModify(id, count)
           y == Adjusted(ns[id].type, ns[id].place, count, TRUE)
<1>1. x = NotFound("gone") \/ x = NotFound("size") \/ x = Found(ns[id].place, y, ns[id].type)
  BY DEF CheckModify
<1> HIDE DEF x, y
<1>2. x.rc \in {"found", "gone", "size"}
  BY <1>1, FoundIs
<1> QED BY <1>2 DEF x

LEMMA SizeKeeps ==
  ASSUME NsInv, NEW c \in Clients, Size(c)
  PROVE  NsInv'
<1> DEFINE r == call[c]
           f == CheckModify(r.id, r.count)
<1>0. SoundIn(ns') /\ Uses(used') /\ ns' = ns /\ used' = used /\ DOMAIN ns' = DOMAIN ns
  BY SoundHere DEF Size
<1>1. r.pc = "size" /\ Keeps(r, DOMAIN ns) /\ Alone(r, ns, used.faults)
  BY DEF NsInv, Size
<1>2. r \in CallsOf(DOMAIN ns) /\ r.kind = "change"
  BY <1>1 DEF Keeps, CreateKeeps, CallsOf
<1>3. ChangeKeeps(r, DOMAIN ns)
  BY <1>1, <1>2 DEF Keeps
<1>4. CASE \E answer \in {"gone", "size", "refused"} : Told(c, answer)
  <2>1. PICK answer \in {"gone", "size", "refused"} : Told(c, answer)
    BY <1>4
  <2>2. answer \in Outcomes
    BY DEF Outcomes
  <2>3. Alone(ToldWith(r, answer), ns', used'.faults)
    BY <1>1, <1>2, <2>2, ToldNothing
  <2> QED BY <1>0, <1>1, <2>1, <2>2, <2>3, ToldStep
<1>5. ASSUME NEW count \in Nat, call' = [call EXCEPT ![c] = [r EXCEPT !.count = count, !.pc = "parts"]]
      PROVE  NsInv'
  <2> DEFINE t == [r EXCEPT !.count = count, !.pc = "parts"]
  <2>1. /\ t \in CallsOf(DOMAIN ns) /\ t.pc = "parts" /\ t.kind = "change" /\ t.ask = r.ask /\ t.id = r.id /\ t.old = r.old
        /\ t.at = r.at /\ t.undo = r.undo /\ t.alone = r.alone
    BY <1>2 DEF CallsOf, Points
  <2>2. call' = [call EXCEPT ![c] = t]
    BY <1>5
  <2> HIDE DEF t
  <2>3. ChangeKeeps(t, DOMAIN ns)
    BY <2>1, <1>1, <1>3 DEF ChangeKeeps, Bound
  <2>4. Keeps(t, DOMAIN ns)
    BY <2>1, <2>3 DEF Keeps
  <2>5. Alone(t, ns, used.faults)
    <3> SUFFICES ASSUME t.alone PROVE ChangeAlone(t, ns, used.faults)
      BY <2>1 DEF Alone
    <3>1. ChangeAlone(r, ns, used.faults)
      BY <1>1, <1>2, <2>1 DEF Alone
    <3>2. Same(ns[r.id], r.old) /\ Room(ns, ns[r.id], r.old) /\ Parts(ns[r.id], r.old.name, r.old.count, r.old.on)
      BY <3>1, <1>1 DEF ChangeAlone
    <3>3. t.at = 1 /\ ~ t.undo
      BY <2>1, <1>1, <1>3 DEF ChangeKeeps
    <3>4. Forth(t, ns[t.id])
      BY <2>1, <3>2, <3>3 DEF Forth
    <3> QED BY <2>1, <3>2, <3>3, <3>4 DEF ChangeAlone
  <2>6. NextIs(c, t)
    BY <2>1, <2>2, <2>4, <2>5, <1>0 DEF NextIs
  <2> QED BY <2>6, <1>0, <1>1, StepKeeps
<1>6. f.rc \in {"found", "gone", "size"}
  BY CheckModifySays
<1>7. CASE r.ask.given /\ r.ask.by = "cli"
  <2>1. \/ f.rc # "found" /\ Told(c, f.rc)
        \/ f.rc = "found" /\ call' = [call EXCEPT ![c].count = f.count, ![c].pc = "parts"]
        \/ f.rc = "found" /\ f.count # r.count /\ r.ask.prompt /\ Told(c, "refused")
    BY <1>7 DEF Size
  <2>2. CASE f.rc # "found" /\ Told(c, f.rc)
    <3>1. \E answer \in {"gone", "size", "refused"} : Told(c, answer)
      BY <2>2, <1>6
    <3> QED BY <3>1, <1>4
  <2>3. CASE f.rc = "found" /\ call' = [call EXCEPT ![c].count = f.count, ![c].pc = "parts"]
    <3>1. f.count \in Nat
      <4>1. r.id \in DOMAIN ns /\ r.count \in Nat
        BY <1>1, <1>2, <1>3 DEF ChangeKeeps, CallsOf
      <4>2. ns[r.id] # NoNs
        <5>1. NotFound("gone").rc = "gone"
          BY FoundIs
        <5> QED BY <5>1, <2>3 DEF CheckModify
      <4>3. Sited(ns[r.id])
        BY <4>1, <4>2, SoundHere
      <4>4. f.count = CountOf(ns[r.id].type, ns[r.id].place, r.count)
        BY <4>1, <4>3, <2>3, CheckModifyFinds
      <4>5. PlaceOK(ns[r.id].type, ns[r.id].place)
        BY <4>3, NamespaceIs
      <4>6. CountOf(ns[r.id].type, ns[r.id].place, r.count) \in Nat
        BY <4>1, <4>5, SizesAre
      <4> QED BY <4>4, <4>6
    <3>2. call' = [call EXCEPT ![c] = [r EXCEPT !.count = f.count, !.pc = "parts"]]
      BY <2>3 DEF NsInv
    <3> HIDE DEF f
    <3> QED BY <3>1, <3>2, <1>5
  <2>4. CASE Told(c, "refused")
    BY <2>4, <1>4
  <2> QED BY <2>1, <2>2, <2>3, <2>4
<1>8. CASE ~ (r.ask.given /\ r.ask.by = "cli")
  <2>1. Step(c, "parts")
    BY <1>8 DEF Size
  <2>2. call' = [call EXCEPT ![c] = [r EXCEPT !.pc = "parts"]]
    BY <2>1, Forms
  <2>3. r.count \in Nat /\ [r EXCEPT !.pc = "parts"] = [r EXCEPT !.count = r.count, !.pc = "parts"]
    BY <1>2 DEF CallsOf
  <2>4. call' = [call EXCEPT ![c] = [r EXCEPT !.count = r.count, !.pc = "parts"]]
    BY <2>2, <2>3
  <2> QED BY <2>3, <2>4, <1>5
<1> QED BY <1>7, <1>8

-----------------------------------------------------------------------------
(* Deleting, showing, and going through a list *)

LEMMA UndoKeeps ==
  ASSUME NsInv, NEW c \in Clients, Undo(c)
  PROVE  NsInv'
<1> DEFINE r == call[c]
           n == ns[r.id]
<1>0. SoundIn(ns') /\ Uses(used') /\ ns' = ns /\ used' = used /\ DOMAIN ns' = DOMAIN ns
  BY SoundHere DEF Undo
<1>1. r.pc = "undo" /\ Keeps(r, DOMAIN ns) /\ Alone(r, ns, used.faults)
  BY DEF NsInv, Undo
<1>2. r \in CallsOf(DOMAIN ns) /\ r.kind = "change"
  BY <1>1 DEF Keeps, CreateKeeps, CallsOf
<1>3. ChangeKeeps(r, DOMAIN ns)
  BY <1>1, <1>2 DEF Keeps
<1>4. CASE n = NoNs
  <2>1. Told(c, "undo failed") /\ "undo failed" \in Outcomes
    BY <1>4 DEF Undo, Outcomes
  <2>2. Alone(ToldWith(r, "undo failed"), ns', used'.faults)
    BY <1>1, <2>1, ToldNothing
  <2> QED BY <2>1, <2>2, <1>0, <1>1, ToldStep
<1>5. CASE n # NoNs
  <2> DEFINE t == [r EXCEPT !.pc = "parts", !.undo = TRUE, !.at = 1, !.made = n]
  <2>1. r.id \in DOMAIN ns /\ r.ask.by = "cli" /\ Bound(r)
    BY <1>1, <1>3 DEF ChangeKeeps
  <2>2. n \in Namespace
    BY <2>1, <1>5, SoundHere DEF Sited
  <2>3. /\ t \in CallsOf(DOMAIN ns) /\ t.pc = "parts" /\ t.kind = "change" /\ t.ask = r.ask /\ t.id = r.id /\ t.old = r.old
        /\ t.at = 1 /\ t.undo /\ t.alone = r.alone /\ t.made = n
    BY <1>2, <2>2 DEF CallsOf, Points
  <2>4. call' = [call EXCEPT ![c] = t]
    <3>1. call' = [call EXCEPT ![c].pc = "parts", ![c].undo = TRUE, ![c].at = 1, ![c].made = n]
      BY <1>5 DEF Undo
    <3> QED BY <3>1 DEF NsInv
  <2> HIDE DEF t
  <2>5. ChangeKeeps(t, DOMAIN ns)
    BY <2>1, <2>3, <1>3 DEF ChangeKeeps, Bound
  <2>6. Keeps(t, DOMAIN ns)
    BY <2>3, <2>5 DEF Keeps
  <2>7. Alone(t, ns, used.faults)
    <3> SUFFICES ASSUME t.alone PROVE ChangeAlone(t, ns, used.faults)
      BY <2>3 DEF Alone
    <3>1. Same(n, r.old) /\ Room(ns, n, r.old)
      BY <1>1, <1>2, <2>3 DEF Alone, ChangeAlone
    <3>2. Back(t, ns[t.id], used.faults)
      BY <2>1, <2>3 DEF Back, Parts
    <3> QED BY <2>3, <3>1, <3>2 DEF ChangeAlone
  <2>8. NextIs(c, t)
    BY <2>3, <2>4, <2>6, <2>7, <1>0 DEF NextIs
  <2> QED BY <2>8, <1>0, <1>1, StepKeeps
<1> QED BY <1>4, <1>5

LEMMA DeleteKeeps ==
  ASSUME NsInv, NEW c \in Clients, Delete(c)
  PROVE  NsInv'
<1> DEFINE r == call[c]
<1>1. r.pc = "driver" /\ r.kind = "delete" /\ Keeps(r, DOMAIN ns) /\ r.id \in DOMAIN ns
  BY DEF NsInv, Delete, Keeps
<1>2. \E answer \in {"gone", "failed", "ok"} : Told(c, answer)
  BY DEF Delete
<1>3. SoundIn(ns') /\ DOMAIN ns' = DOMAIN ns
  <2>1. CASE ns' = ns
    BY <2>1, SoundHere
  <2>2. CASE ns' # ns
    <3>1. ns[r.id] # NoNs /\ ns' = Changed(ns, r.id, NoNs)
      BY <2>2 DEF Delete, Changed
    <3>2. DOMAIN ns' = DOMAIN ns
      BY <3>1 DEF Changed
    <3> QED BY <3>1, <3>2, <1>1, SoundHere, Drop
  <2> QED BY <2>1, <2>2
<1>4. Uses(used')
  BY Forms, SoundHere DEF Delete
<1>5. PICK answer \in {"gone", "failed", "ok"} : Told(c, answer)
  BY <1>2
<1>6. answer \in Outcomes
  BY DEF Outcomes
<1>7. Alone(ToldWith(r, answer), ns', used'.faults)
  BY <1>1, <1>6, ToldNothing
<1> QED BY <1>1, <1>3, <1>4, <1>5, <1>6, <1>7, ToldStep

LEMMA IdleKeeps ==
  ASSUME NEW I
  PROVE  Keeps(Idle, I)
<1>1. NoAsk \in Asks
  BY DEF NoAsk, Asks
<1>2. Idle \in CallsOf(I) /\ Idle.kind = "idle" /\ Idle.pc = "idle"
  BY <1>1 DEF Idle, CallsOf, Points, Outcomes
<1> QED BY <1>2 DEF Keeps

LEMMA ShowKeeps ==
  ASSUME NsInv, NEW c \in Clients, Show(c)
  PROVE  NsInv'
<1> DEFINE r == call[c]
<1>0. SoundIn(ns') /\ Uses(used') /\ ns' = ns /\ used' = used /\ DOMAIN ns' = DOMAIN ns
  BY SoundHere DEF Show
<1>1. r.pc = "told" /\ Keeps(r, DOMAIN ns)
  BY DEF NsInv, Show
<1>2. call' = [call EXCEPT ![c] = IF r.todo = <<>> THEN Idle ELSE [r EXCEPT !.pc = "next"]]
  BY DEF Show, NsInv
<1>3. CASE r.todo = <<>>
  <2>1. Keeps(Idle, DOMAIN ns) /\ Idle.pc = "idle"
    BY IdleKeeps DEF Idle
  <2>2. Alone(Idle, ns', used'.faults)
    BY <2>1, IdleAlone
  <2>3. call' = [call EXCEPT ![c] = Idle]
    BY <1>2, <1>3
  <2>4. NextIs(c, Idle)
    BY <2>1, <2>2, <2>3, <1>0 DEF NextIs
  <2> QED BY <2>4, <1>0, <1>1, StepKeeps
<1>4. CASE r.todo # <<>>
  <2> DEFINE t == [r EXCEPT !.pc = "next"]
  <2>1. r \in CallsOf(DOMAIN ns) /\ r.kind \in {"change", "delete"}
    BY <1>1, <1>4 DEF Keeps, CreateKeeps, CallsOf
  <2>2. /\ t \in CallsOf(DOMAIN ns) /\ t.pc = "next" /\ t.kind = r.kind /\ t.ask = r.ask /\ t.alone = r.alone /\ t.todo = r.todo
    BY <2>1 DEF CallsOf, Points
  <2>3. call' = [call EXCEPT ![c] = t]
    BY <1>2, <1>4
  <2> HIDE DEF t
  <2>4. t.kind = "change" => ChangeKeeps(t, DOMAIN ns)
    BY <2>2, <1>1 DEF Keeps, ChangeKeeps
  <2>5. Keeps(t, DOMAIN ns)
    BY <2>1, <2>2, <2>4, <1>4 DEF Keeps
  <2>6. Alone(t, ns', used'.faults)
    BY <2>1, <2>2 DEF Alone, ChangeAlone
  <2>7. NextIs(c, t)
    BY <2>2, <2>3, <2>5, <2>6, <1>0 DEF NextIs
  <2> QED BY <2>7, <1>0, <1>1, StepKeeps
<1> QED BY <1>3, <1>4

LEMMA HeadAndTail ==
  ASSUME NEW I, NEW s \in Seq(I), s # <<>>
  PROVE  Head(s) \in I /\ Tail(s) \in Seq(I)
<1>1. Len(s) \in Nat /\ Len(s) # 0
  OBVIOUS
<1>2. 1 \in 1 .. Len(s)
  BY <1>1
<1>3. s[1] \in I
  BY <1>2
<1> QED BY <1>3

LEMMA Next1Keeps ==
  ASSUME NsInv, NEW c \in Clients, Next1(c)
  PROVE  NsInv'
<1> DEFINE r == call[c]
           id == Head(r.todo)
           n == ns[id]
           to == [r EXCEPT !.id = id, !.old = n, !.todo = Tail(@), !.at = 1, !.undo = FALSE]
<1>0. SoundIn(ns') /\ Uses(used') /\ ns' = ns /\ used' = used /\ DOMAIN ns' = DOMAIN ns
  BY SoundHere DEF Next1
<1>1. r.pc = "next" /\ Keeps(r, DOMAIN ns)
  BY DEF NsInv, Next1
<1>2. r \in CallsOf(DOMAIN ns) /\ r.kind \in {"change", "delete"} /\ r.todo # <<>>
  BY <1>1 DEF Keeps, CreateKeeps, CallsOf
<1>3. r.todo \in Seq(DOMAIN ns)
  BY <1>2 DEF CallsOf
<1>4. id \in DOMAIN ns /\ Tail(r.todo) \in Seq(DOMAIN ns)
  BY <1>2, <1>3, HeadAndTail
<1>5. n \in Namespace \cup {NoNs} /\ id \in Nat
  BY <1>4, SoundHere DEF WellMade
<1> HIDE DEF id, n
<1>6. /\ to \in CallsOf(DOMAIN ns) /\ to.kind = r.kind /\ to.ask = r.ask /\ to.alone = r.alone /\ to.id = id
      /\ to.old = n /\ to.at = 1 /\ ~ to.undo
  BY <1>2, <1>4, <1>5 DEF CallsOf
<1>7. \/ call' = [call EXCEPT ![c] = IF n = NoNs THEN [to EXCEPT !.pc = "told", !.answer = "gone"]
                                     ELSE [to EXCEPT !.pc = IF to.kind = "delete" THEN "driver" ELSE "size"]]
      \/ call' = [call EXCEPT ![c] = [to EXCEPT !.pc = "told", !.answer = "refused"]]
  BY DEF Next1, id, n
<1> HIDE DEF to
<1>8. ASSUME NEW answer \in {"gone", "refused"}, call' = [call EXCEPT ![c] = [to EXCEPT !.pc = "told", !.answer = answer]]
      PROVE  NsInv'
  <2> DEFINE t == [to EXCEPT !.pc = "told", !.answer = answer]
  <2>1. /\ t \in CallsOf(DOMAIN ns) /\ t.pc = "told" /\ t.answer = answer /\ t.kind = r.kind /\ t.ask = r.ask /\ t.alone = r.alone
    BY <1>6, <1>8 DEF CallsOf, Points, Outcomes
  <2>2. call' = [call EXCEPT ![c] = t]
    BY <1>8
  <2> HIDE DEF t
  <2>3. t.kind = "change" => ChangeKeeps(t, DOMAIN ns)
    BY <2>1, <1>1 DEF Keeps, ChangeKeeps
  <2>4. Keeps(t, DOMAIN ns)
    BY <2>1, <2>3, <1>2 DEF Keeps
  <2>5. Alone(t, ns', used'.faults)
    BY <2>1, <1>2, <1>8 DEF Alone, ChangeAlone
  <2>6. NextIs(c, t)
    BY <2>1, <2>2, <2>4, <2>5, <1>0 DEF NextIs
  <2> QED BY <2>6, <1>0, <1>1, StepKeeps
<1>9. ASSUME n # NoNs, call' = [call EXCEPT ![c] = [to EXCEPT !.pc = IF to.kind = "delete" THEN "driver" ELSE "size"]]
      PROVE  NsInv'
  <2> DEFINE t == [to EXCEPT !.pc = IF to.kind = "delete" THEN "driver" ELSE "size"]
  <2>1. /\ t \in CallsOf(DOMAIN ns) /\ t.pc = (IF r.kind = "delete" THEN "driver" ELSE "size") /\ t.kind = r.kind /\ t.ask = r.ask
        /\ t.alone = r.alone /\ t.id = id /\ t.old = n /\ t.at = 1 /\ ~ t.undo
    BY <1>6 DEF CallsOf, Points
  <2>2. call' = [call EXCEPT ![c] = t]
    BY <1>9
  <2> HIDE DEF t
  <2>3. Sited(n) /\ WellSized(n)
    BY <1>4, <1>9, SoundHere DEF n
  <2>4. t.kind = "change" => ChangeKeeps(t, DOMAIN ns)
    BY <2>1, <2>3, <1>1, <1>4 DEF Keeps, ChangeKeeps, Bound
  <2>5. Keeps(t, DOMAIN ns)
    BY <2>1, <2>4, <1>2, <1>4 DEF Keeps
  <2>6. t.kind = "change" => ChangeAlone(t, ns, used.faults)
    <3> SUFFICES ASSUME t.kind = "change" PROVE ChangeAlone(t, ns, used.faults)
      OBVIOUS
    <3>1. ns[t.id] = n /\ t.old = n /\ t.pc = "size"
      BY <2>1 DEF n
    <3>2. Same(n, n)
      BY <1>9 DEF Same
    <3>3. Room(ns, n, n)
      <4>1. PlaceOK(n.type, n.place) /\ Capacity(n) \in Nat
        BY <2>3, NamespaceIs
      <4>2. FreeAt(ns, n.type, n.place) \in Nat
        BY <4>1, SoundHere, PoolIsMost
      <4>3. Capacity(n) <= FreeAt(ns, n.type, n.place) + Capacity(n)
        BY <4>1, <4>2
      <4> QED BY <4>3 DEF Room
    <3>4. Parts(n, n.name, n.count, n.on)
      BY DEF Parts
    <3> QED BY <3>1, <3>2, <3>3, <3>4 DEF ChangeAlone
  <2>7. Alone(t, ns', used'.faults)
    BY <2>1, <2>6, <1>0, <1>2 DEF Alone
  <2>8. NextIs(c, t)
    BY <2>1, <2>2, <2>5, <2>7, <1>0 DEF NextIs
  <2> QED BY <2>8, <1>0, <1>1, StepKeeps
<1>10. CASE n = NoNs
  BY <1>7, <1>8, <1>10
<1>11. CASE n # NoNs
  BY <1>7, <1>8, <1>9, <1>11
<1> QED BY <1>10, <1>11

LEMMA WantedIs ==
  ASSUME NEW I, NEW r, r \in CallsOf(I), Sited(r.old)
  PROVE  /\ WantedOf(r).type = r.old.type /\ WantedOf(r).place = r.old.place
         /\ WantedOf(r).name \in Int /\ WantedOf(r).count \in Nat /\ WantedOf(r).on \in BOOLEAN
         /\ WantedOf(r).count = (IF r.ask.given THEN r.count ELSE r.old.count)
         /\ WantedOf(r).name = (IF r.ask.rename THEN UserName ELSE r.old.name)
         /\ WantedOf(r).on = (IF r.ask.on = "keep" THEN r.old.on ELSE r.ask.on = "on")
         /\ WantedOf(r) \in Namespace
<1> DEFINE o == r.old
           name == IF r.ask.rename THEN UserName ELSE o.name
           count == IF r.ask.given THEN r.count ELSE o.count
           on == IF r.ask.on = "keep" THEN o.on ELSE r.ask.on = "on"
<1>1. o \in Namespace /\ r.count \in Nat
  BY DEF Sited, CallsOf
<1>2. UserName \in Int
  BY DEF UserName
<1>3. name \in Int /\ count \in Nat /\ on \in BOOLEAN
  BY <1>1, <1>2 DEF Namespace
<1>4. WantedOf(r) = [r.old EXCEPT !.count = count, !.name = name, !.on = on]
  BY DEF WantedOf
<1> HIDE DEF name, count, on
<1>5. /\ WantedOf(r).type = r.old.type /\ WantedOf(r).place = r.old.place
      /\ WantedOf(r).name = name /\ WantedOf(r).count = count /\ WantedOf(r).on = on
      /\ WantedOf(r) \in Namespace
  BY <1>1, <1>3, <1>4 DEF Namespace
<1> QED BY <1>3, <1>5 DEF name, count, on

\* A namespace is what it is by its five fields.
LEMMA SameParts ==
  ASSUME NEW n, n \in Namespace, NEW o, o \in Namespace, Same(n, o), Parts(n, o.name, o.count, o.on)
  PROVE  n = o
  BY DEF Namespace, Same, Parts

\* The count it had is done.
LEMMA OldFits ==
  ASSUME NEW o, Sited(o), WellSized(o)
  PROVE  /\ CountOf(o.type, o.place, o.count) = o.count
         /\ Adjusted(o.type, o.place, o.count, TRUE) = Capacity(o)
         /\ Adjusted(o.type, o.place, o.count, TRUE) >= MinimumSize(o.type, o.place)
<1>1. PlaceOK(o.type, o.place) /\ o.count \in Nat /\ Capacity(o) = o.count * Real(o.type)
  BY NamespaceIs
<1>2. (o.count * Real(o.type)) % Alignment(o.type, o.place) = 0 /\ Capacity(o) >= MinimumSize(o.type, o.place)
  BY <1>1 DEF WellSized
<1>3. Adjusted(o.type, o.place, o.count, TRUE) = o.count * Real(o.type) /\ CountOf(o.type, o.place, o.count) = o.count
  BY <1>1, <1>2, AlignedFits
<1> QED BY <1>1, <1>2, <1>3

-----------------------------------------------------------------------------
(* The parts of a modification *)

PartAt(r) ==
  IF r.ask.by = "cli" THEN IF r.at = 1 THEN "name" ELSE IF r.at = 2 THEN "count" ELSE "on"
  ELSE IF r.undo THEN IF r.at = 1 THEN "name" ELSE "count"
       ELSE IF r.at = 1 THEN "count" ELSE "name"
Last(r) == r.at = 3 \/ (r.ask.by = "cim" /\ r.at = 2)
Goal(r) == IF r.undo THEN r.old ELSE WantedOf(r)
WritesOf(r, p) ==
  CASE r.undo -> r.made[p] # r.old[p]
    [] ~ r.undo /\ r.ask.by = "cli" -> Asked(r.ask, p)
    [] OTHER -> r.old[p] # WantedOf(r)[p]

\* m is n with a part written, or n where that is not to be written.
Wrote(r, n, m) ==
  IF WritesOf(r, PartAt(r))
  THEN /\ PartAt(r) = "name" => Parts(m, Goal(r).name, n.count, n.on)
       /\ PartAt(r) = "count" =>
            /\ m.name = n.name /\ m.on = n.on
            /\ m.count = CountOf(r.old.type, r.old.place, Goal(r).count)
            /\ Adjusted(r.old.type, r.old.place, Goal(r).count, TRUE) >= MinimumSize(r.old.type, r.old.place)
       /\ PartAt(r) = "on" => Parts(m, n.name, n.count, Goal(r).on)
  ELSE Parts(m, n.name, n.count, n.on)

\* Where a modification is that is going on.
Going(r, I) ==
  /\ r \in CallsOf(I) /\ r.kind = "change" /\ r.pc = "parts" /\ Bound(r) /\ r.ask \in Changes
  /\ r.at \in {1, 2, 3} /\ (r.ask.by = "cim" => r.at # 3)

LEMMA ByEither ==
  ASSUME NEW I, NEW r, Going(r, I)
  PROVE  /\ r.ask.by \in {"cli", "cim"} /\ r.undo \in BOOLEAN
         /\ r.ask.by = "cim" => r.ask.on = "keep" /\ WantedOf(r).on = r.old.on
         /\ ~ r.ask.given => WantedOf(r).count = r.old.count
         /\ ~ r.ask.rename => WantedOf(r).name = r.old.name
         /\ r.ask.on = "keep" => WantedOf(r).on = r.old.on
<1>1. r.ask \in Changes /\ r.ask \in Asks /\ r.undo \in BOOLEAN
  BY AsksAssumption DEF Going, CallsOf
<1>2. r.ask.by \in {"cli", "cim"}
  BY <1>1 DEF Asks
<1>3. r.ask.by = "cim" => r.ask.on = "keep"
  BY <1>1, AsksAssumption
<1>4. /\ WantedOf(r).count = (IF r.ask.given THEN r.count ELSE r.old.count)
      /\ WantedOf(r).name = (IF r.ask.rename THEN UserName ELSE r.old.name)
      /\ WantedOf(r).on = (IF r.ask.on = "keep" THEN r.old.on ELSE r.ask.on = "on")
  BY WantedIs DEF Going, Bound
<1> QED BY <1>1, <1>2, <1>3, <1>4

\* What is not asked for is as wanted.
LEMMA NotWritten ==
  ASSUME NEW I, NEW r, Going(r, I), ~ r.undo, ~ WritesOf(r, PartAt(r))
  PROVE  /\ PartAt(r) = "name" => WantedOf(r).name = r.old.name
         /\ PartAt(r) = "count" => WantedOf(r).count = r.old.count
         /\ PartAt(r) = "on" => WantedOf(r).on = r.old.on
<1>1. CASE r.ask.by = "cli"
  <2>1. ~ Asked(r.ask, PartAt(r))
    BY <1>1 DEF WritesOf
  <2>2. /\ PartAt(r) = "name" => ~ r.ask.rename
        /\ PartAt(r) = "count" => ~ r.ask.given
        /\ PartAt(r) = "on" => r.ask.on = "keep"
    BY <2>1 DEF Asked
  <2> QED BY <2>2, ByEither
<1>2. CASE r.ask.by = "cim"
  <2>1. r.old[PartAt(r)] = WantedOf(r)[PartAt(r)]
    BY <1>2 DEF WritesOf
  <2> QED BY <2>1
<1> QED BY <1>1, <1>2, ByEither

LEMMA ForthOn ==
  ASSUME NEW I, NEW r, Going(r, I), ~ r.undo, NEW n, NEW m, Forth(r, n), Wrote(r, n, m)
  PROVE  /\ ~ Last(r) => \A t : t.ask = r.ask /\ t.old = r.old /\ WantedOf(t) = WantedOf(r)
                                /\ (r.at = 1 => t.at = 2) /\ (r.at = 2 => t.at = 3) => Forth(t, m)
         /\ Last(r) => m.name = WantedOf(r).name /\ m.on = WantedOf(r).on /\ Done(r, m)
<1> DEFINE o == r.old
           w == WantedOf(r)
           p == PartAt(r)
           fit == CountOf(o.type, o.place, w.count)
           least == Adjusted(o.type, o.place, w.count, TRUE) >= MinimumSize(o.type, o.place)
<1>0. r.at \in {1, 2, 3} /\ r.ask.by \in {"cli", "cim"} /\ (r.ask.by = "cim" => r.at # 3) /\ (r.ask.by = "cim" => w.on = o.on)
  BY ByEither DEF Going
<1>1. \A x : Done(r, x) <=> x.count = fit /\ least
  BY DEF Done
<1>2. w.count = o.count => fit = o.count /\ least
  BY OldFits DEF Going, Bound
<1>3. WritesOf(r, p) =>
        /\ p = "name" => Parts(m, w.name, n.count, n.on)
        /\ p = "count" => m.name = n.name /\ m.on = n.on /\ m.count = fit /\ least
        /\ p = "on" => Parts(m, n.name, n.count, w.on)
  BY DEF Wrote, Goal
<1>4. ~ WritesOf(r, p) => /\ Parts(m, n.name, n.count, n.on)
                          /\ p = "name" => w.name = o.name
                          /\ p = "count" => w.count = o.count
                          /\ p = "on" => w.on = o.on
  BY NotWritten DEF Wrote
<1>5. Forth(r, n)
  OBVIOUS
<1>6. \A t : t.ask = r.ask /\ t.old = r.old /\ WantedOf(t) = WantedOf(r) => \A x : Done(t, x) <=> Done(r, x)
  BY DEF Done
<1> HIDE DEF fit, least
<1>7. CASE r.ask.by = "cli" /\ r.at = 1
  <2>1. p = "name" /\ Parts(n, o.name, o.count, o.on)
    BY <1>5, <1>7 DEF PartAt, Forth
  <2>2. Parts(m, w.name, o.count, o.on)
    BY <2>1, <1>3, <1>4 DEF Parts
  <2> QED BY <2>2, <1>7 DEF Last, Forth
<1>8. CASE r.ask.by = "cli" /\ r.at = 2
  <2>1. p = "count" /\ Parts(n, w.name, o.count, o.on)
    BY <1>5, <1>8 DEF PartAt, Forth
  <2>2. m.name = w.name /\ m.on = o.on /\ m.count = fit /\ least
    BY <2>1, <1>2, <1>3, <1>4 DEF Parts
  <2>3. Done(r, m)
    BY <2>2, <1>1
  <2> QED BY <2>2, <2>3, <1>6, <1>8 DEF Last, Forth
<1>9. CASE r.ask.by = "cli" /\ r.at = 3
  <2>1. p = "on" /\ n.name = w.name /\ n.count = fit /\ least /\ n.on = o.on
    BY <1>1, <1>5, <1>9 DEF PartAt, Forth
  <2>2. m.name = w.name /\ m.on = w.on /\ m.count = fit /\ least
    BY <2>1, <1>3, <1>4 DEF Parts
  <2> QED BY <2>2, <1>1, <1>9 DEF Last
<1>10. CASE r.ask.by = "cim" /\ r.at = 1
  <2>1. p = "count" /\ Parts(n, o.name, o.count, o.on)
    BY <1>5, <1>10 DEF PartAt, Forth
  <2>2. m.name = o.name /\ m.on = o.on /\ m.count = fit /\ least
    BY <2>1, <1>2, <1>3, <1>4 DEF Parts
  <2>3. Done(r, m)
    BY <2>2, <1>1
  <2> QED BY <2>2, <2>3, <1>6, <1>10 DEF Last, Forth
<1>11. CASE r.ask.by = "cim" /\ r.at = 2
  <2>1. p = "name" /\ n.name = o.name /\ n.count = fit /\ least /\ n.on = o.on
    BY <1>1, <1>5, <1>11 DEF PartAt, Forth
  <2>2. m.name = w.name /\ m.on = o.on /\ m.count = fit /\ least
    BY <2>1, <1>3, <1>4 DEF Parts
  <2> QED BY <2>2, <1>0, <1>1, <1>11 DEF Last
<1> QED BY <1>0, <1>7, <1>8, <1>9, <1>10, <1>11

LEMMA BackOn ==
  ASSUME NEW I, NEW r, Going(r, I), r.undo, NEW n, NEW m, NEW faults, Back(r, n, faults), Wrote(r, n, m)
  PROVE  /\ ~ Last(r) => \A t : t.ask = r.ask /\ t.old = r.old /\ WantedOf(t) = WantedOf(r) /\ t.made = r.made
                                /\ (r.at = 1 => t.at = 2) /\ (r.at = 2 => t.at = 3) => Back(t, m, faults)
         /\ Last(r) => Parts(m, r.old.name, r.old.count, r.old.on)
<1> DEFINE o == r.old
           w == WantedOf(r)
           p == PartAt(r)
<1>0. r.at \in {1, 2, 3} /\ r.ask.by \in {"cli", "cim"} /\ (r.ask.by = "cim" => r.at # 3)
  BY ByEither DEF Going
<1>1. CountOf(o.type, o.place, o.count) = o.count
  BY OldFits DEF Going, Bound
<1>2. WritesOf(r, p) =>
        /\ p = "name" => Parts(m, o.name, n.count, n.on)
        /\ p = "count" => m.name = n.name /\ m.on = n.on /\ m.count = o.count
        /\ p = "on" => Parts(m, n.name, n.count, o.on)
  BY <1>1 DEF Wrote, Goal
<1>3. ~ WritesOf(r, p) => Parts(m, n.name, n.count, n.on) /\ r.made[p] = o[p]
  BY DEF Wrote, WritesOf
<1>4. ~ WritesOf(r, p) => /\ p = "name" => r.made.name = o.name
                          /\ p = "count" => r.made.count = o.count
                          /\ p = "on" => r.made.on = o.on
  BY <1>3
<1>5. Back(r, n, faults)
  OBVIOUS
<1>6. \A t : t.ask = r.ask /\ t.old = r.old /\ WantedOf(t) = WantedOf(r) => \A x : Done(t, x) <=> Done(r, x)
  BY DEF Done
<1>12. \A x : Done(r, x) => x.count = CountOf(o.type, o.place, w.count)
  BY DEF Done
<1>13. \A x, y : x.count = y.count => (Done(r, x) <=> Done(r, y))
  BY DEF Done
<1>7. CASE r.ask.by = "cli" /\ r.at = 1
  <2>1. p = "name" /\ Parts(n, r.made.name, r.made.count, r.made.on)
    BY <1>5, <1>7 DEF PartAt, Back
  <2>2. Parts(m, o.name, r.made.count, r.made.on)
    BY <2>1, <1>2, <1>3, <1>4 DEF Parts
  <2> QED BY <2>2, <1>7 DEF Last, Back
<1>8. CASE r.ask.by = "cli" /\ r.at = 2
  <2>1. p = "count" /\ Parts(n, o.name, r.made.count, r.made.on)
    BY <1>5, <1>8 DEF PartAt, Back
  <2>2. Parts(m, o.name, o.count, r.made.on)
    BY <2>1, <1>2, <1>3, <1>4 DEF Parts
  <2> QED BY <2>2, <1>8 DEF Last, Back
<1>9. CASE r.ask.by = "cli" /\ r.at = 3
  <2>1. p = "on" /\ Parts(n, o.name, o.count, r.made.on)
    BY <1>5, <1>9 DEF PartAt, Back
  <2>2. Parts(m, o.name, o.count, o.on)
    BY <2>1, <1>2, <1>3, <1>4 DEF Parts
  <2> QED BY <2>2, <1>9 DEF Last
<1>10. CASE r.ask.by = "cim" /\ r.at = 1
  <2>1. p = "name" /\ r.made = w /\ n.name = o.name /\ n.on = o.on /\ (n.count = o.count \/ (Done(r, n) /\ faults >= 1))
    BY <1>5, <1>10 DEF PartAt, Back
  <2>2. m.name = o.name /\ m.on = o.on /\ m.count = n.count
    BY <2>1, <1>2, <1>3 DEF Parts
  <2>3. m.count = o.count \/ (Done(r, m) /\ faults >= 1)
    BY <2>1, <2>2, <1>13
  <2> QED BY <2>1, <2>2, <2>3, <1>6, <1>10 DEF Last, Back
<1>11. CASE r.ask.by = "cim" /\ r.at = 2
  <2>1. p = "count" /\ r.made = w /\ n.name = o.name /\ n.on = o.on /\ (n.count = o.count \/ Done(r, n))
    BY <1>5, <1>11 DEF PartAt, Back
  <2>2. m.name = o.name /\ m.on = o.on
    BY <2>1, <1>2, <1>3 DEF Parts
  <2>3. m.count = o.count
    <3>1. CASE WritesOf(r, p)
      BY <2>1, <3>1, <1>2
    <3>2. CASE ~ WritesOf(r, p)
      <4>1. m.count = n.count /\ w.count = o.count
        BY <2>1, <3>2, <1>3, <1>4 DEF Parts
      <4> QED BY <4>1, <2>1, <1>1, <1>12
    <3> QED BY <3>1, <3>2
  <2> QED BY <2>2, <2>3, <1>11 DEF Last, Parts
<1> QED BY <1>0, <1>7, <1>8, <1>9, <1>10, <1>11

-----------------------------------------------------------------------------
(* A part of a modification that is done *)

LEMMA GoingIs ==
  ASSUME NsInv, NEW c \in Clients, call[c].pc = "parts"
  PROVE  /\ Going(call[c], DOMAIN ns) /\ call[c].id \in DOMAIN ns
         /\ Keeps(call[c], DOMAIN ns) /\ ChangeKeeps(call[c], DOMAIN ns)
         /\ call[c].alone => ChangeAlone(call[c], ns, used.faults)
<1> DEFINE r == call[c]
<1>1. Keeps(r, DOMAIN ns) /\ Alone(r, ns, used.faults)
  BY DEF NsInv
<1>2. r \in CallsOf(DOMAIN ns) /\ r.kind = "change"
  BY <1>1 DEF Keeps, CreateKeeps, CallsOf
<1>3. ChangeKeeps(r, DOMAIN ns)
  BY <1>1, <1>2 DEF Keeps
<1>4. Going(r, DOMAIN ns) /\ r.id \in DOMAIN ns
  BY <1>2, <1>3 DEF Going, ChangeKeeps
<1> QED BY <1>1, <1>2, <1>3, <1>4 DEF Alone

LEMMA OrderIs ==
  ASSUME NEW c, NEW I, Going(call[c], I)
  PROVE  /\ Order(c)[call[c].at] = PartAt(call[c])
         /\ call[c].at < Len(Order(c)) <=> ~ Last(call[c])
         /\ \A p : Writes(c, p) = WritesOf(call[c], p)
<1> DEFINE r == call[c]
<1>0. r.at \in {1, 2, 3} /\ r.ask.by \in {"cli", "cim"} /\ (r.ask.by = "cim" => r.at # 3) /\ r.undo \in BOOLEAN
  BY ByEither DEF Going
<1>1. \A p : Writes(c, p) = WritesOf(r, p)
  BY DEF Writes, WritesOf, Wanted, WantedOf
<1>2. CASE r.ask.by = "cli"
  <2>1. Order(c) = <<"name", "count", "on">>
    BY <1>2 DEF Order
  <2>2. Len(Order(c)) = 3 /\ Order(c)[1] = "name" /\ Order(c)[2] = "count" /\ Order(c)[3] = "on"
    BY <2>1
  <2>3. Order(c)[r.at] = PartAt(r)
    BY <2>2, <1>0, <1>2 DEF PartAt
  <2>4. r.at < 3 <=> r.at # 3
    BY <1>0
  <2>5. Last(r) <=> r.at = 3
    BY <1>2 DEF Last
  <2> QED BY <2>2, <2>3, <2>4, <2>5, <1>1
<1>3. CASE r.ask.by = "cim"
  <2>1. Order(c) = IF r.undo THEN <<"name", "count">> ELSE <<"count", "name">>
    BY <1>3, <1>0 DEF Order
  <2>2. Len(Order(c)) = 2 /\ Order(c)[1] = (IF r.undo THEN "name" ELSE "count") /\ Order(c)[2] = (IF r.undo THEN "count" ELSE "name")
    BY <2>1
  <2>3. Order(c)[r.at] = PartAt(r)
    BY <2>2, <1>0, <1>3 DEF PartAt
  <2>4. r.at < 2 <=> r.at # 2
    BY <1>0, <1>3
  <2>5. Last(r) <=> r.at = 2
    BY <1>0, <1>3 DEF Last
  <2> QED BY <2>2, <2>3, <2>4, <2>5, <1>1
<1> QED BY <1>0, <1>2, <1>3

LEMMA AdvanceStep ==
  ASSUME NsInv, NEW c \in Clients, call[c].pc = "parts", Advance(c),
         SoundIn(ns'), DOMAIN ns' = DOMAIN ns, used' = used, NEW m, m = ns'[call[c].id],
         call[c].alone => Same(m, call[c].old) /\ Room(ns', m, call[c].old) /\ Wrote(call[c], ns[call[c].id], m)
  PROVE  NsInv'
<1> DEFINE r == call[c]
           n == ns[r.id]
<1>1. Going(r, DOMAIN ns) /\ r.id \in DOMAIN ns /\ Keeps(r, DOMAIN ns) /\ ChangeKeeps(r, DOMAIN ns)
      /\ (r.alone => ChangeAlone(r, ns, used.faults))
  BY GoingIs
<1>2. Uses(used') /\ used'.faults = used.faults
  BY SoundHere
<1>3. r \in CallsOf(DOMAIN ns) /\ r.kind = "change" /\ Bound(r) /\ r.at \in {1, 2, 3} /\ r.undo \in BOOLEAN
      /\ r.ask.by \in {"cli", "cim"} /\ (r.ask.by = "cim" => r.at # 3)
  BY <1>1, ByEither DEF Going
<1>4. CASE Last(r)
  <2> DEFINE answer == IF r.undo THEN "failed" ELSE "ok"
             t == ToldWith(r, answer)
  <2>1. Told(c, answer) /\ answer \in Outcomes
    BY <1>1, <1>4, OrderIs DEF Advance, Outcomes
  <2>2. /\ t.pc = "told" /\ t.answer = answer /\ t.kind = "change" /\ t.ask = r.ask /\ t.id = r.id
        /\ t.old = r.old /\ t.alone = r.alone /\ WantedOf(t) = WantedOf(r)
    BY <1>3, <2>1, AnsweredIs
  <2> HIDE DEF t
  <2>3. Bound(t) /\ \A x : Done(t, x) <=> Done(r, x)
    BY <1>3, <2>2 DEF Bound, Done
  <2>4. r.alone => ChangeAlone(t, ns', used'.faults)
    <3> SUFFICES ASSUME r.alone PROVE ChangeAlone(t, ns', used'.faults)
      OBVIOUS
    <3>1. CASE r.undo
      <4>1. Back(r, n, used.faults)
        BY <3>1, <1>1 DEF ChangeAlone
      <4>2. Parts(m, r.old.name, r.old.count, r.old.on)
        BY <3>1, <4>1, <1>1, <1>4, BackOn
      <4>3. m \in Namespace /\ r.old \in Namespace
        <5>1. m # NoNs /\ r.id \in DOMAIN ns'
          BY <1>1 DEF Same
        <5>2. Sited(m)
          BY <5>1 DEF SoundIn, WellMade
        <5> QED BY <5>2, <1>3 DEF Sited, Bound
      <4>4. m = r.old
        BY <4>2, <4>3, SameParts
      <4>5. ns'[t.id] = t.old
        BY <4>4, <2>2
      <4> QED BY <4>5, <2>2, <3>1 DEF ChangeAlone
    <3>2. CASE ~ r.undo
      <4>1. Forth(r, n)
        BY <3>2, <1>1 DEF ChangeAlone
      <4>2. m.name = WantedOf(r).name /\ m.on = WantedOf(r).on /\ Done(r, m)
        BY <3>2, <4>1, <1>1, <1>4, ForthOn
      <4>3. ns'[t.id] = m /\ t.id \in DOMAIN ns' /\ Same(m, t.old)
        BY <1>1, <2>2
      <4> QED BY <4>2, <4>3, <2>2, <2>3, <3>2 DEF ChangeAlone
    <3> QED BY <3>1, <3>2, <1>3
  <2>5. Alone(t, ns', used'.faults)
    BY <2>2, <2>4 DEF Alone
  <2>6. r.pc # "idle"
    OBVIOUS
  <2> QED BY <2>1, <2>5, <2>6, <1>2, ToldStep DEF t
<1>5. CASE ~ Last(r)
  <2> DEFINE t == [r EXCEPT !.at = r.at + 1]
  <2>0. r.at \in {1, 2} /\ (r.ask.by = "cim" => r.at = 1)
    BY <1>3, <1>5 DEF Last
  <2>9. r.at + 1 \in Nat /\ (r.at = 1 => r.at + 1 = 2) /\ (r.at = 2 => r.at + 1 = 3)
    BY <2>0
  <2>1. /\ t \in CallsOf(DOMAIN ns) /\ t.pc = "parts" /\ t.kind = "change" /\ t.ask = r.ask /\ t.id = r.id /\ t.old = r.old
        /\ t.at = r.at + 1 /\ t.undo = r.undo /\ t.alone = r.alone /\ t.made = r.made /\ WantedOf(t) = WantedOf(r)
    BY <1>3, <2>9 DEF CallsOf, WantedOf
  <2>2. call' = [call EXCEPT ![c] = t]
    <3>1. call' = [call EXCEPT ![c].at = @ + 1]
      BY <1>1, <1>5, OrderIs DEF Advance
    <3> QED BY <3>1 DEF NsInv
  <2> HIDE DEF t
  <2>10. (r.at = 1 => t.at = 2) /\ (r.at = 2 => t.at = 3)
    BY <2>1, <2>9
  <2>3. ChangeKeeps(t, DOMAIN ns)
    BY <2>0, <2>1, <2>10, <1>1 DEF ChangeKeeps, Bound
  <2>4. Keeps(t, DOMAIN ns)
    BY <2>1, <2>3 DEF Keeps
  <2>5. r.alone => ChangeAlone(t, ns', used'.faults)
    <3> SUFFICES ASSUME r.alone PROVE ChangeAlone(t, ns', used'.faults)
      OBVIOUS
    <3>1. r.undo => Back(t, m, used'.faults)
      <4> SUFFICES ASSUME r.undo PROVE Back(t, m, used'.faults)
        OBVIOUS
      <4>1. Back(r, n, used.faults) /\ Wrote(r, n, m)
        BY <1>1 DEF ChangeAlone
      <4> QED BY <4>1, <1>1, <1>2, <1>5, <2>1, <2>10, BackOn
    <3>2. ~ r.undo => Forth(t, m)
      <4> SUFFICES ASSUME ~ r.undo PROVE Forth(t, m)
        OBVIOUS
      <4>1. Forth(r, n) /\ Wrote(r, n, m)
        BY <1>1 DEF ChangeAlone
      <4> QED BY <4>1, <1>1, <1>5, <2>1, <2>10, ForthOn
    <3>3. ns'[t.id] = m /\ Same(m, t.old) /\ Room(ns', m, t.old)
      BY <2>1
    <3> QED BY <2>1, <3>1, <3>2, <3>3 DEF ChangeAlone
  <2>6. Alone(t, ns', used'.faults)
    BY <2>1, <2>5 DEF Alone
  <2>7. NextIs(c, t)
    BY <2>1, <2>2, <2>4, <2>6 DEF NextIs
  <2> QED BY <2>7, <1>2, StepKeeps
<1> QED BY <1>4, <1>5

-----------------------------------------------------------------------------
(* A part of a modification that fails *)

LEMMA FailIs ==
  ASSUME NsInv, NEW c \in Clients, call[c].pc = "parts", Fail(c)
  PROVE  LET r == call[c]
         IN IF r.undo THEN Told(c, IF r.ask.by = "cli" THEN "undo failed" ELSE "failed")
            ELSE call' = [call EXCEPT ![c] = IF r.ask.by = "cim" THEN [r EXCEPT !.undo = TRUE, !.at = 1, !.made = WantedOf(r)]
                                             ELSE [r EXCEPT !.pc = "undo"]]
<1> DEFINE r == call[c]
<1>0. r.ask.by \in {"cli", "cim"} /\ r.undo \in BOOLEAN
  BY GoingIs, ByEither
<1>1. CASE r.undo
  BY <1>1 DEF Fail
<1>2. CASE ~ r.undo /\ r.ask.by = "cim"
  <2>1. call' = [call EXCEPT ![c].undo = TRUE, ![c].at = 1, ![c].made = WantedOf(r)]
    BY <1>2, Forms DEF Fail
  <2>2. call' = [call EXCEPT ![c] = [r EXCEPT !.undo = TRUE, !.at = 1, !.made = WantedOf(r)]]
    BY <2>1 DEF NsInv
  <2> QED BY <2>2, <1>2
<1>3. CASE ~ r.undo /\ r.ask.by = "cli"
  <2>1. Step(c, "undo")
    BY <1>3 DEF Fail
  <2>2. call' = [call EXCEPT ![c] = [r EXCEPT !.pc = "undo"]]
    BY <2>1, Forms
  <2> QED BY <2>2, <1>3
<1> QED BY <1>0, <1>1, <1>2, <1>3

\* A part is not written: for a failure of the driver, or because there is
\* no room for the count, which does not happen to an undo next to which
\* there is nothing.
LEMMA FailStep ==
  ASSUME NsInv, NEW c \in Clients, call[c].pc = "parts", Fail(c), ns' = ns, Uses(used'),
         \/ used'.faults = used.faults + 1
         \/ used'.faults = used.faults /\ (call[c].alone => ~ call[c].undo /\ PartAt(call[c]) = "count")
  PROVE  NsInv'
<1> DEFINE r == call[c]
           n == ns[r.id]
           o == r.old
<1>0. SoundIn(ns') /\ DOMAIN ns' = DOMAIN ns /\ used.faults \in Nat
  BY SoundHere
<1>1. Going(r, DOMAIN ns) /\ r.id \in DOMAIN ns /\ Keeps(r, DOMAIN ns) /\ ChangeKeeps(r, DOMAIN ns)
      /\ (r.alone => ChangeAlone(r, ns, used.faults))
  BY GoingIs
<1>3. r \in CallsOf(DOMAIN ns) /\ r.kind = "change" /\ Bound(r) /\ r.at \in {1, 2, 3} /\ r.undo \in BOOLEAN
      /\ r.ask.by \in {"cli", "cim"} /\ (r.ask.by = "cim" => r.at # 3)
  BY <1>1, ByEither DEF Going
<1>4. r.alone => Same(n, o) /\ Room(ns, n, o)
  BY <1>1 DEF ChangeAlone
<1>5. CASE r.undo /\ r.ask.by = "cli"
  <2>1. Told(c, "undo failed") /\ "undo failed" \in Outcomes
    BY <1>5, FailIs DEF Outcomes
  <2>2. Alone(ToldWith(r, "undo failed"), ns', used'.faults)
    BY <1>1, <2>1, ToldNothing
  <2>3. r.pc # "idle"
    OBVIOUS
  <2> QED BY <2>1, <2>2, <2>3, <1>0, ToldStep
<1>6. CASE r.undo /\ r.ask.by = "cim"
  <2> DEFINE t == ToldWith(r, "failed")
  <2>1. Told(c, "failed") /\ "failed" \in Outcomes
    BY <1>6, FailIs DEF Outcomes
  <2>2. /\ t.pc = "told" /\ t.answer = "failed" /\ t.kind = "change" /\ t.ask = r.ask /\ t.id = r.id
        /\ t.old = r.old /\ t.alone = r.alone
    BY <1>3, <2>1, AnsweredIs
  <2> HIDE DEF t
  <2>3. r.alone /\ used'.faults <= 1 => n = o
    <3> SUFFICES ASSUME r.alone, used'.faults <= 1 PROVE n = o
      OBVIOUS
    <3>1. n.name = o.name /\ n.on = o.on /\ (n.count = o.count \/ used.faults >= 1)
      BY <1>1, <1>6 DEF ChangeAlone, Back
    <3>2. used'.faults = used.faults + 1
      BY <1>6
    <3>3. ~ (used.faults >= 1)
      BY <3>2, <1>0
    <3>4. Parts(n, o.name, o.count, o.on) /\ Same(n, o)
      BY <3>1, <3>3, <1>4 DEF Parts
    <3>5. n \in Namespace /\ o \in Namespace
      BY <3>4, <1>1, <1>3, SoundHere DEF Same, Sited, Bound
    <3> QED BY <3>4, <3>5, SameParts
  <2>4. r.alone => ChangeAlone(t, ns', used'.faults)
    BY <2>2, <2>3, <1>6 DEF ChangeAlone
  <2>5. Alone(t, ns', used'.faults)
    BY <2>2, <2>4 DEF Alone
  <2>6. r.pc # "idle"
    OBVIOUS
  <2> QED BY <2>1, <2>5, <2>6, <1>0, ToldStep DEF t
<1>7. CASE ~ r.undo /\ r.ask.by = "cli"
  <2> DEFINE t == [r EXCEPT !.pc = "undo"]
  <2>1. /\ t \in CallsOf(DOMAIN ns) /\ t.pc = "undo" /\ t.kind = "change" /\ t.ask = r.ask /\ t.id = r.id /\ t.old = r.old
        /\ t.alone = r.alone
    BY <1>3 DEF CallsOf, Points
  <2>2. call' = [call EXCEPT ![c] = t]
    BY <1>7, FailIs
  <2> HIDE DEF t
  <2>3. ChangeKeeps(t, DOMAIN ns)
    BY <2>1, <1>1, <1>7 DEF ChangeKeeps, Bound
  <2>4. Keeps(t, DOMAIN ns)
    BY <2>1, <2>3 DEF Keeps
  <2>5. r.alone => ChangeAlone(t, ns', used'.faults)
    BY <2>1, <1>4 DEF ChangeAlone
  <2>6. Alone(t, ns', used'.faults)
    BY <2>1, <2>5 DEF Alone
  <2>7. NextIs(c, t)
    BY <2>1, <2>2, <2>4, <2>6, <1>0 DEF NextIs
  <2> QED BY <2>7, <1>0, StepKeeps
<1>8. CASE ~ r.undo /\ r.ask.by = "cim"
  <2> DEFINE t == [r EXCEPT !.undo = TRUE, !.at = 1, !.made = WantedOf(r)]
  <2>0. WantedOf(r) \in Namespace
    BY <1>3, WantedIs DEF Bound
  <2>1. /\ t \in CallsOf(DOMAIN ns) /\ t.pc = "parts" /\ t.kind = "change" /\ t.ask = r.ask /\ t.id = r.id /\ t.old = r.old
        /\ t.alone = r.alone /\ t.undo /\ t.at = 1 /\ t.made = WantedOf(r) /\ WantedOf(t) = WantedOf(r)
    BY <1>3, <2>0 DEF CallsOf, WantedOf
  <2>2. call' = [call EXCEPT ![c] = t]
    BY <1>8, FailIs
  <2> HIDE DEF t
  <2>3. ChangeKeeps(t, DOMAIN ns)
    BY <2>1, <1>1 DEF ChangeKeeps, Bound
  <2>4. Keeps(t, DOMAIN ns)
    BY <2>1, <2>3 DEF Keeps
  <2>5. r.alone => Back(t, n, used'.faults)
    <3> SUFFICES ASSUME r.alone PROVE Back(t, n, used'.faults)
      OBVIOUS
    <3>1. Forth(r, n)
      BY <1>1, <1>8 DEF ChangeAlone
    <3>2. n.name = o.name /\ n.on = o.on /\ (n.count = o.count \/ (r.at = 2 /\ Done(r, n)))
      BY <3>1, <1>3, <1>8 DEF Forth, Parts
    <3>3. r.at = 2 => used'.faults = used.faults + 1
      BY <1>8 DEF PartAt
    <3>4. r.at = 2 => used'.faults >= 1
      BY <3>3, <1>0
    <3>5. Done(t, n) <=> Done(r, n)
      BY <2>1 DEF Done
    <3> QED BY <2>1, <3>2, <3>4, <3>5, <1>8 DEF Back
  <2>6. r.alone => ChangeAlone(t, ns', used'.faults)
    BY <2>1, <2>5, <1>4 DEF ChangeAlone
  <2>7. Alone(t, ns', used'.faults)
    BY <2>1, <2>6 DEF Alone
  <2>8. NextIs(c, t)
    BY <2>1, <2>2, <2>4, <2>7, <1>0 DEF NextIs
  <2> QED BY <2>8, <1>0, StepKeeps
<1> QED BY <1>3, <1>5, <1>6, <1>7, <1>8

-----------------------------------------------------------------------------
(* What is written *)

\* What a check that finds says of the room there is.
LEMMA CheckModifyRoom ==
  ASSUME NEW id, Sited(ns[id]), NEW count \in Nat, CheckModify(id, count).rc = "found",
         Free(ns[id].type, ns[id].place) \in Nat
  PROVE  Adjusted(ns[id].type, ns[id].place, count, TRUE) <= Capacity(ns[id]) + Free(ns[id].type, ns[id].place)
<1> DEFINE n == ns[id]
           asked == count * SizeOfBlock(n.type)
           capacity == Adjusted(n.type, n.place, count, TRUE)
           free == Free(n.type, n.place)
           Little == asked > Capacity(n) /\ PoolFree < asked - Capacity(n)
           Big == capacity > Capacity(n) /\ free < capacity - Capacity(n)
           small == capacity < MinimumSize(n.type, n.place)
<1>1. n # NoNs
  BY NamespaceIs
<1>2. CheckModify(id, count) =
        IF Little \/ Big \/ small THEN NotFound("size") ELSE Found(n.place, capacity, n.type)
  BY <1>1 DEF CheckModify
<1>3. capacity \in Nat /\ free \in Nat
  <2>1. PlaceOK(n.type, n.place)
    BY NamespaceIs
  <2>2. capacity \in Nat
    BY <2>1, SizesAre
  <2> QED BY <2>2
<1>4. Capacity(n) \in Nat
  BY NamespaceIs
<1> HIDE DEF Little, Big, small
<1>5. ~ Big
  <2>1. CASE Big
    <3>1. CheckModify(id, count) = NotFound("size")
      BY <1>2, <2>1
    <3> QED BY <3>1, FoundIs
  <2> QED BY <2>1
<1> HIDE DEF n, capacity, free
<1>6. capacity <= Capacity(n) + free
  BY <1>3, <1>4, <1>5 DEF Big
<1> QED BY <1>6 DEF n, capacity, free

LEMMA WriteIs ==
  ASSUME NEW N, SoundIn(N), NEW id \in DOMAIN N, NEW n, n = N[id], n # NoNs, NEW m, Sited(m), WellSized(m),
         m.type = n.type, m.place = n.place, Capacity(m) <= Capacity(n) + FreeAt(N, n.type, n.place),
         NEW o, o.type = n.type, o.place = n.place, Capacity(o) \in Nat
  PROVE  /\ SoundIn(Changed(N, id, m))
         /\ Room(N, n, o) => Room(Changed(N, id, m), m, o)
<1> DEFINE t == n.type
           p == n.place
           M == Changed(N, id, m)
<1>1. Sited(n) /\ Capacity(n) \in Nat /\ Capacity(m) \in Nat /\ PlaceOK(t, p)
  <2>1. Sited(n)
    BY DEF SoundIn, WellMade
  <2> QED BY <2>1, NamespaceIs
<1>2. PartOf(n, t, p) = Capacity(n)
  BY DEF PartOf
<1>3. FreeAt(N, t, p) \in Nat
  BY <1>1, PoolIsMost
<1>4. Capacity(m) <= FreeAt(N, t, p) + PartOf(N[id], t, p)
  BY <1>1, <1>2, <1>3
<1>5. SoundIn(M) /\ FreeAt(M, t, p) = FreeAt(N, t, p) + Capacity(n) - Capacity(m)
  <2>1. t = m.type /\ p = m.place /\ N[id].type = t /\ N[id].place = p
    OBVIOUS
  <2> HIDE DEF t, p, M
  <2>2. SoundIn(Changed(N, id, m)) /\ FreeAt(Changed(N, id, m), t, p) = FreeAt(N, t, p) + PartOf(N[id], t, p) - Capacity(m)
    BY <2>1, <1>4, Put
  <2> QED BY <2>2, <1>2 DEF M
<1> HIDE DEF M
<1>6. Room(N, n, o) => Room(M, m, o)
  <2>1. Room(N, n, o) <=> Capacity(o) <= FreeAt(N, t, p) + Capacity(n)
    BY DEF Room
  <2>2. Room(M, m, o) <=> Capacity(o) <= FreeAt(M, t, p) + Capacity(m)
    BY DEF Room
  <2>3. Capacity(o) \in Nat
    OBVIOUS
  <2> HIDE DEF t, p
  <2> QED BY ONLY <2>1, <2>2, <2>3, <1>1, <1>3, <1>5
<1> QED BY <1>5, <1>6 DEF M

\* A part written: what it makes of the namespace.
LEMMA WrittenName ==
  ASSUME NEW n, Sited(n), WellSized(n), NEW x \in Int, NEW m, m = [n EXCEPT !["name"] = x]
  PROVE  Sited(m) /\ WellSized(m) /\ m.type = n.type /\ m.place = n.place /\ Capacity(m) = Capacity(n)
         /\ Parts(m, x, n.count, n.on)
<1>1. m \in Namespace /\ m.type = n.type /\ m.place = n.place /\ m.count = n.count /\ m.name = x /\ m.on = n.on
  BY DEF Sited, Namespace
<1>2. Capacity(m) = Capacity(n)
  BY <1>1 DEF Capacity
<1> QED BY <1>1, <1>2 DEF Sited, WellSized, Parts

LEMMA WrittenOn ==
  ASSUME NEW n, Sited(n), WellSized(n), NEW x \in BOOLEAN, NEW m, m = [n EXCEPT !["on"] = x]
  PROVE  Sited(m) /\ WellSized(m) /\ m.type = n.type /\ m.place = n.place /\ Capacity(m) = Capacity(n)
         /\ Parts(m, n.name, n.count, x)
<1>1. m \in Namespace /\ m.type = n.type /\ m.place = n.place /\ m.count = n.count /\ m.name = n.name /\ m.on = x
  BY DEF Sited, Namespace
<1>2. Capacity(m) = Capacity(n)
  BY <1>1 DEF Capacity
<1> QED BY <1>1, <1>2 DEF Sited, WellSized, Parts

CountSet(n, x) == [n EXCEPT !["count"] = x]
SizeFor(n, count) == Adjusted(n.type, n.place, count, TRUE)
CountFor(n, count) == CountOf(n.type, n.place, count)

LEMMA WrittenCount ==
  ASSUME NEW n, Sited(n), WellSized(n), NEW count \in Nat, SizeFor(n, count) >= MinimumSize(n.type, n.place)
  PROVE  LET m == CountSet(n, CountFor(n, count))
         IN Sited(m) /\ WellSized(m) /\ m.type = n.type /\ m.place = n.place
            /\ Capacity(m) = SizeFor(n, count) /\ Parts(m, n.name, CountFor(n, count), n.on)
<1> DEFINE x == CountFor(n, count)
           m == CountSet(n, x)
           up == SizeFor(n, count)
<1>1. PlaceOK(n.type, n.place)
  BY NamespaceIs
<1>2. x \in Nat /\ x * Real(n.type) = up /\ up % Alignment(n.type, n.place) = 0
  BY <1>1, SizesAre DEF CountFor, SizeFor
<1> HIDE DEF x, up
<1>3. m \in Namespace /\ m.type = n.type /\ m.place = n.place /\ m.count = x /\ m.name = n.name /\ m.on = n.on
  BY <1>2 DEF Sited, Namespace, CountSet
<1> HIDE DEF m
<1>4. Capacity(m) = up
  BY <1>2, <1>3 DEF Capacity
<1>5. up >= MinimumSize(n.type, n.place)
  BY DEF up
<1>6. Sited(m) /\ WellSized(m) /\ m.type = n.type /\ m.place = n.place /\ Capacity(m) = up /\ Parts(m, n.name, x, n.on)
  BY <1>1, <1>2, <1>3, <1>4, <1>5 DEF Sited, WellSized, Parts
<1> QED BY <1>6 DEF x, m, up

LEMMA ModifyKeeps ==
  ASSUME NsInv, NEW c \in Clients, Modify(c)
  PROVE  NsInv'
<1> DEFINE r == call[c]
           n == ns[r.id]
           o == r.old
           to == Goal(r)
           p == PartAt(r)
           f == CheckModify(r.id, to.count)
           fails == n = NoNs \/ (p = "count" /\ f.rc # "found")
<1>1. r.pc = "parts"
  BY DEF Modify
<1>2. Going(r, DOMAIN ns) /\ r.id \in DOMAIN ns /\ Keeps(r, DOMAIN ns) /\ ChangeKeeps(r, DOMAIN ns)
      /\ (r.alone => ChangeAlone(r, ns, used.faults))
  BY <1>1, GoingIs
<1>3. r \in CallsOf(DOMAIN ns) /\ r.kind = "change" /\ Bound(r) /\ r.undo \in BOOLEAN
  BY <1>2, ByEither DEF Going
<1>4. r.alone => Same(n, o) /\ Room(ns, n, o)
  BY <1>1, <1>2 DEF ChangeAlone
<1>5. SoundIn(ns) /\ Uses(used) /\ WellMade(ns) /\ (n # NoNs => Sited(n) /\ WellSized(n))
  BY <1>2, SoundHere
<1>6. Order(c)[r.at] = p /\ (\A q : Writes(c, q) = WritesOf(r, q)) /\ to = IF r.undo THEN r.old ELSE Wanted(c)
  BY <1>2, OrderIs, Forms DEF Goal
<1>7. to \in Namespace /\ to.type = o.type /\ to.place = o.place /\ to.count \in Nat /\ to.name \in Int /\ to.on \in BOOLEAN
  <2>1. o \in Namespace
    BY <1>3 DEF Bound, Sited
  <2>2. WantedOf(r) \in Namespace /\ WantedOf(r).type = o.type /\ WantedOf(r).place = o.place
    BY <1>3, WantedIs DEF Bound
  <2>3. to \in Namespace /\ to.type = o.type /\ to.place = o.place
    BY <2>1, <2>2 DEF Goal
  <2> HIDE DEF to
  <2> QED BY <2>3 DEF Namespace
<1> HIDE DEF to, p
<1>8. IF ~ WritesOf(r, p) THEN Advance(c) /\ UNCHANGED <<ns, used>>
      ELSE \/ fails /\ Fail(c) /\ UNCHANGED <<ns, used>>
           \/ Fault /\ Fail(c) /\ UNCHANGED ns
           \/ /\ ~ fails /\ Advance(c) /\ UNCHANGED used
              /\ ns' = [ns EXCEPT ![r.id] = [n EXCEPT ![p] = IF p = "count" THEN f.count ELSE to[p]]]
  BY <1>6 DEF Modify
<1>9. p \in {"name", "count", "on"}
  BY DEF PartAt, p
<1> HIDE DEF f
<1>10. CASE ~ WritesOf(r, p)
  <2>1. Advance(c) /\ ns' = ns /\ used' = used
    BY <1>8, <1>10
  <2>2. Wrote(r, n, n)
    BY <1>10 DEF Wrote, Parts, p
  <2>3. SoundIn(ns') /\ DOMAIN ns' = DOMAIN ns /\ n = ns'[r.id]
        /\ (r.alone => Same(n, o) /\ Room(ns', n, o) /\ Wrote(r, n, n))
    BY <2>1, <2>2, <1>4, <1>5
  <2> QED BY <2>1, <2>3, <1>1, AdvanceStep
<1>11. CASE WritesOf(r, p) /\ fails /\ Fail(c) /\ UNCHANGED <<ns, used>>
  <2>1. Fail(c) /\ ns' = ns /\ used' = used /\ Uses(used') /\ used'.faults = used.faults
    BY <1>5, <1>11
  <2>2. r.alone => ~ r.undo /\ p = "count"
    <3> SUFFICES ASSUME r.alone PROVE ~ r.undo /\ p = "count"
      OBVIOUS
    <3>1. n # NoNs /\ n.type = o.type /\ n.place = o.place
      BY <1>4 DEF Same
    <3>2. p = "count" /\ f.rc # "found"
      BY <3>1, <1>11
    <3>3. ASSUME r.undo PROVE FALSE
      <4>1. to = o
        BY <3>3 DEF Goal, to
      <4>2. Sited(n) /\ PlaceOK(n.type, n.place)
        BY <3>1, <1>5, NamespaceIs
      <4>3. /\ Adjusted(n.type, n.place, o.count, TRUE) = Capacity(o)
            /\ Adjusted(n.type, n.place, o.count, TRUE) >= MinimumSize(n.type, n.place)
        BY <3>1, <1>3, OldFits DEF Bound
      <4>4. Free(n.type, n.place) = FreeAt(ns, n.type, n.place) /\ PoolFree = PoolAt(ns)
        BY FreeAtIs, FreeIs
      <4>5. FreeAt(ns, n.type, n.place) \in Nat /\ PoolAt(ns) \in Nat /\ FreeAt(ns, n.type, n.place) <= PoolAt(ns)
        BY <4>2, <1>5, PoolIsMost
      <4>6. Free(n.type, n.place) \in Int /\ PoolFree \in Int /\ Free(n.type, n.place) <= PoolFree
        BY <4>4, <4>5
      <4>7. Capacity(o) <= FreeAt(ns, n.type, n.place) + Capacity(n)
        BY <3>1, <1>4 DEF Room
      <4>8. Adjusted(n.type, n.place, o.count, TRUE) <= Capacity(n) + Free(n.type, n.place)
        <5>1. Capacity(n) \in Nat /\ Capacity(o) \in Nat
          BY <4>2, <1>3, NamespaceIs DEF Bound
        <5> DEFINE a == Adjusted(n.type, n.place, o.count, TRUE)
                   b == FreeAt(ns, n.type, n.place)
        <5>2. a = Capacity(o) /\ b \in Nat /\ Capacity(o) <= b + Capacity(n)
          BY <4>3, <4>5, <4>7
        <5>3. b = Free(n.type, n.place)
          BY <4>4
        <5> HIDE DEF n, o, a, b
        <5>4. a <= Capacity(n) + b
          BY <5>1, <5>2
        <5> QED BY <5>3, <5>4 DEF a
      <4>9. o.count \in Nat
        BY <4>1, <1>7
      <4>10. CheckModify(r.id, o.count).rc = "found"
        BY <4>2, <4>3, <4>6, <4>8, <4>9, CheckModifyFits
      <4> QED BY <4>1, <4>10, <3>2 DEF f
    <3> QED BY <3>2, <3>3
  <2> QED BY <2>1, <2>2, <1>1, FailStep DEF p
<1>12. CASE WritesOf(r, p) /\ Fault /\ Fail(c) /\ UNCHANGED ns
  <2>1. Uses(used') /\ used'.faults = used.faults + 1
    BY <1>12, Forms
  <2> QED BY <2>1, <1>1, <1>12, FailStep
<1>13. CASE /\ WritesOf(r, p) /\ ~ fails /\ Advance(c) /\ UNCHANGED used
            /\ ns' = [ns EXCEPT ![r.id] = [n EXCEPT ![p] = IF p = "count" THEN f.count ELSE to[p]]]
  <2> DEFINE m == [n EXCEPT ![p] = IF p = "count" THEN f.count ELSE to[p]]
             fit == CountOf(n.type, n.place, to.count)
             need == Adjusted(n.type, n.place, to.count, TRUE)
  <2>1. n # NoNs /\ Sited(n) /\ WellSized(n) /\ (p = "count" => f.rc = "found")
    BY <1>5, <1>13
  <2>2. PlaceOK(n.type, n.place) /\ Capacity(n) \in Nat /\ n.count \in Nat
    BY <2>1, NamespaceIs
  <2>3. FreeAt(ns, n.type, n.place) \in Nat /\ Free(n.type, n.place) = FreeAt(ns, n.type, n.place)
    BY <2>2, <1>5, PoolIsMost, FreeAtIs
  <2>4. p = "count" => f.count = fit /\ need >= MinimumSize(n.type, n.place)
                       /\ need <= Capacity(n) + FreeAt(ns, n.type, n.place)
    <3> SUFFICES ASSUME p = "count" PROVE f.count = fit /\ need >= MinimumSize(n.type, n.place)
                       /\ need <= Capacity(n) + FreeAt(ns, n.type, n.place)
      OBVIOUS
    <3>1. CheckModify(r.id, to.count).rc = "found"
      BY <2>1 DEF f
    <3>2. f.count = fit /\ need >= MinimumSize(n.type, n.place)
      BY <3>1, <2>1, <1>7, CheckModifyFinds DEF f
    <3>3. need <= Capacity(n) + Free(n.type, n.place)
      BY <3>1, <2>1, <2>3, <1>7, CheckModifyRoom
    <3> QED BY <3>2, <3>3, <2>3
  <2> HIDE DEF n, fit, need, m
  <2>5. /\ Sited(m) /\ WellSized(m) /\ m.type = n.type /\ m.place = n.place
        /\ Capacity(m) <= Capacity(n) + FreeAt(ns, n.type, n.place)
        /\ p = "name" => Parts(m, to.name, n.count, n.on)
        /\ p = "count" => Parts(m, n.name, fit, n.on)
        /\ p = "on" => Parts(m, n.name, n.count, to.on)
    <3>1. CASE p = "name"
      <4>1. m = [n EXCEPT !["name"] = to.name]
        BY <3>1 DEF m
      <4>2. Sited(m) /\ WellSized(m) /\ m.type = n.type /\ m.place = n.place /\ Capacity(m) = Capacity(n)
            /\ Parts(m, to.name, n.count, n.on)
        BY <4>1, <2>1, <1>7, WrittenName
      <4>3. Capacity(m) <= Capacity(n) + FreeAt(ns, n.type, n.place)
        BY <4>2, <2>2, <2>3
      <4> QED BY <4>2, <4>3, <3>1
    <3>2. CASE p = "on"
      <4>1. m = [n EXCEPT !["on"] = to.on]
        BY <3>2 DEF m
      <4>2. Sited(m) /\ WellSized(m) /\ m.type = n.type /\ m.place = n.place /\ Capacity(m) = Capacity(n)
            /\ Parts(m, n.name, n.count, to.on)
        BY <4>1, <2>1, <1>7, WrittenOn
      <4>3. Capacity(m) <= Capacity(n) + FreeAt(ns, n.type, n.place)
        BY <4>2, <2>2, <2>3
      <4> QED BY <4>2, <4>3, <3>2
    <3>3. CASE p = "count"
      <4>1. m = [n EXCEPT !["count"] = f.count]
        BY <3>3 DEF m
      <4>2. f.count = CountOf(n.type, n.place, to.count)
            /\ Adjusted(n.type, n.place, to.count, TRUE) >= MinimumSize(n.type, n.place)
            /\ Adjusted(n.type, n.place, to.count, TRUE) <= Capacity(n) + FreeAt(ns, n.type, n.place)
        BY <3>3, <2>4 DEF fit, need
      <4>3. Sited(m) /\ WellSized(m) /\ m.type = n.type /\ m.place = n.place
            /\ Capacity(m) = Adjusted(n.type, n.place, to.count, TRUE) /\ Parts(m, n.name, f.count, n.on)
        <5> DEFINE k == to.count
        <5>1. k \in Nat /\ f.count = CountFor(n, k) /\ SizeFor(n, k) >= MinimumSize(n.type, n.place)
              /\ m = CountSet(n, CountFor(n, k)) /\ SizeFor(n, k) = Adjusted(n.type, n.place, k, TRUE)
          BY <4>1, <4>2, <1>7 DEF CountSet, CountFor, SizeFor
        <5> HIDE DEF k, n, m
        <5>2. Sited(m) /\ WellSized(m) /\ m.type = n.type /\ m.place = n.place
              /\ Capacity(m) = SizeFor(n, k) /\ Parts(m, n.name, CountFor(n, k), n.on)
          BY ONLY <5>1, <2>1, WrittenCount
        <5> QED BY <5>1, <5>2 DEF k
      <4> QED BY <4>2, <4>3, <3>3 DEF fit
    <3> QED BY <3>1, <3>2, <3>3, <1>9
  <2>6. ns' = Changed(ns, r.id, m)
    BY <1>13 DEF Changed, m, n
  <2>7. DOMAIN ns' = DOMAIN ns /\ ns'[r.id] = m
    BY <2>6, <1>2 DEF Changed
  <2>8. SoundIn(ns') /\ (r.alone => Room(ns', m, o))
    <3>1. n = ns[r.id] /\ r.id \in DOMAIN ns
      BY <1>2 DEF n
    <3>2. Capacity(n) \in Nat
      BY <2>2
    <3>3. SoundIn(ns')
      BY <3>1, <3>2, <2>1, <2>5, <2>6, <1>5, WriteIs
    <3>4. ASSUME r.alone PROVE Room(ns', m, o)
      <4>1. o.type = n.type /\ o.place = n.place /\ Capacity(o) \in Nat /\ Room(ns, n, o)
        BY <3>4, <1>3, <1>4, NamespaceIs DEF Same, Bound, n
      <4> QED BY <4>1, <3>1, <2>1, <2>5, <2>6, <1>5, WriteIs
    <3> QED BY <3>3, <3>4
  <2>9. r.alone => Same(m, o) /\ Wrote(r, n, m)
    <3> SUFFICES ASSUME r.alone PROVE Same(m, o) /\ Wrote(r, n, m)
      OBVIOUS
    <3>1. n.type = o.type /\ n.place = o.place
      BY <1>4 DEF Same, n
    <3>2. Same(m, o)
      BY <3>1, <2>5, NamespaceIs DEF Same
    <3>3. p = "count" => m.name = n.name /\ m.on = n.on /\ m.count = CountOf(o.type, o.place, to.count)
                         /\ Adjusted(o.type, o.place, to.count, TRUE) >= MinimumSize(o.type, o.place)
      BY <3>1, <2>4, <2>5 DEF Parts, fit, need
    <3>4. Wrote(r, n, m)
      BY <3>3, <2>5, <1>13 DEF Wrote, p, to
    <3> QED BY <3>2, <3>4
  <2>10. Advance(c) /\ used' = used
    BY <1>13
  <2> QED BY <2>7, <2>8, <2>9, <2>10, <1>1, AdvanceStep DEF n
<1> QED BY <1>8, <1>10, <1>11, <1>12, <1>13

-----------------------------------------------------------------------------
(* The largest there is *)

LEMMA LargestIs ==
  ASSUME SoundIn(ns), NEW type \in Types
  PROVE  /\ Largest(type) \in Nat /\ PoolFree \in Nat /\ Largest(type) <= PoolFree
         /\ \A p \in PlaceOf(type) : (type = "app direct" => ~ Taken(p)) =>
               FreeAt(ns, type, p) \in Nat /\ FreeAt(ns, type, p) <= Largest(type)
         /\ type = "storage" => \E d \in Dimms : Largest(type) = DimmFree(ns, d)
<1>1. \A p \in PlaceOf(type) : FreeAt(ns, type, p) \in Nat /\ PoolAt(ns) \in Nat /\ FreeAt(ns, type, p) <= PoolAt(ns)
  BY PoolIsMost DEF PlaceOK
<1>2. PoolFree = PoolAt(ns) /\ PoolAt(ns) \in Nat
  BY FreeIs, PoolSums
<1>3. CASE type = "app direct"
  <2> DEFINE T == {s \in Sets : ~ Taken(s)}
             f == [s \in T |-> FreeIn(s)]
             S == {f[s] : s \in T}
  <2>1. PlaceOf(type) = Sets /\ \A s \in Sets : FreeAt(ns, type, s) = FreeIn(s)
    BY <1>3, FreeIs DEF PlaceOf, FreeAt
  <2>2. \A s \in T : f[s] \in Nat /\ f[s] = FreeAt(ns, type, s) /\ f[s] <= PoolAt(ns)
    BY <1>1, <2>1
  <2>3. IsFiniteSet(T)
    BY SetsAssumption, FS_Subset
  <2>4. Largest(type) = Max({0} \cup S)
    <3>1. S = {FreeIn(s) : s \in T}
      OBVIOUS
    <3> QED BY <3>1, <1>3 DEF Largest, LargestAppDirect
  <2>5. \A s \in Sets : ~ Taken(s) <=> s \in T
    OBVIOUS
  <2> HIDE DEF T, f
  <2>6. IsFiniteSet(S)
    BY <2>3, ImageFinite
  <2>7. IsFiniteSet({0} \cup S)
    BY <2>6, FS_AddElement
  <2>8. S \subseteq Nat
    BY <2>2
  <2> HIDE DEF S
  <2>9. {0} \cup S \subseteq Int /\ {0} \cup S # {}
    BY <2>8
  <2>10. Largest(type) \in {0} \cup S /\ \A y \in {0} \cup S : y <= Largest(type)
    BY <2>4, <2>7, <2>9, MaxOfFinite
  <2>11. Largest(type) \in Nat
    <3>1. {0} \cup S \subseteq Nat
      BY <2>8
    <3> QED BY ONLY <3>1, <2>10
  <2>12. \A y \in S : y <= PoolAt(ns)
    BY <2>2 DEF S
  <2>13. Largest(type) <= PoolFree
    BY <1>2, <2>10, <2>12
  <2>14. \A s \in T : FreeAt(ns, type, s) \in Nat /\ FreeAt(ns, type, s) <= Largest(type)
    <3>1. \A s \in T : f[s] \in S
      BY DEF S
    <3> QED BY <3>1, <2>2, <2>10
  <2>15. \A p \in PlaceOf(type) : (type = "app direct" => ~ Taken(p)) =>
               FreeAt(ns, type, p) \in Nat /\ FreeAt(ns, type, p) <= Largest(type)
    BY <1>3, <2>1, <2>5, <2>14
  <2>16. type # "storage"
    BY <1>3
  <2> QED BY <1>2, <2>11, <2>13, <2>15, <2>16
<1>4. CASE type # "app direct"
  <2> DEFINE f == [d \in Dimms |-> FreeOn(d)]
             S == {f[d] : d \in Dimms}
  <2>1. PlaceOf(type) = Dimms /\ (\A d \in Dimms : FreeAt(ns, type, d) = FreeOn(d)) /\ \A d \in Dimms : FreeOn(d) = DimmFree(ns, d)
    BY <1>4, FreeIs DEF PlaceOf, FreeAt
  <2>2. \A d \in Dimms : f[d] \in Nat /\ f[d] = FreeAt(ns, type, d) /\ f[d] <= PoolAt(ns) /\ f[d] = DimmFree(ns, d)
    BY <1>1, <2>1
  <2>3. IsFiniteSet(Dimms) /\ Dimms # {}
    BY SetsAssumption
  <2>4. Largest(type) = Max(S)
    <3>1. S = {FreeOn(d) : d \in Dimms}
      OBVIOUS
    <3> QED BY <3>1, <1>4 DEF Largest, LargestStorage
  <2> HIDE DEF f
  <2>6. IsFiniteSet(S)
    BY <2>3, ImageFinite
  <2>8. S \subseteq Nat /\ S # {}
    BY <2>2, <2>3
  <2> HIDE DEF S
  <2>9. S \subseteq Int
    BY <2>8
  <2>10. Largest(type) \in S /\ \A y \in S : y <= Largest(type)
    BY <2>4, <2>6, <2>8, <2>9, MaxOfFinite
  <2>11. Largest(type) \in Nat
    BY <2>8, <2>10
  <2>12. \A y \in S : y <= PoolAt(ns)
    BY <2>2 DEF S
  <2>13. Largest(type) <= PoolFree
    BY <1>2, <2>10, <2>12
  <2>14. \A d \in Dimms : FreeAt(ns, type, d) \in Nat /\ FreeAt(ns, type, d) <= Largest(type)
    <3>1. \A d \in Dimms : f[d] \in S
      BY DEF S
    <3> QED BY <3>1, <2>2, <2>10
  <2>15. \E d \in Dimms : Largest(type) = DimmFree(ns, d)
    BY <2>2, <2>10 DEF S
  <2> QED BY <1>2, <2>1, <2>11, <2>13, <2>14, <2>15
<1> QED BY <1>3, <1>4

-----------------------------------------------------------------------------
(* A call begins *)

AloneAs(r, b) == [r EXCEPT !.alone = b]

LEMMA AloneAsIs ==
  ASSUME NEW I, NEW r, Keeps(r, I), NEW b \in BOOLEAN
  PROVE  Keeps(AloneAs(r, b), I) /\ AloneAs(r, b).pc = r.pc /\ AloneAs(r, b).alone = b
<1> DEFINE t == AloneAs(r, b)
<1>1. /\ t \in CallsOf(I) /\ t.pc = r.pc /\ t.kind = r.kind /\ t.ask = r.ask /\ t.todo = r.todo /\ t.id = r.id /\ t.old = r.old
      /\ t.made = r.made /\ t.at = r.at /\ t.undo = r.undo /\ t.alone = b
  BY DEF AloneAs, Keeps, CallsOf
<1> HIDE DEF t
<1>2. t.kind = "create" => CreateKeeps(t)
  BY <1>1 DEF Keeps, CreateKeeps
<1>3. t.kind = "change" => ChangeKeeps(t, I)
  BY <1>1 DEF Keeps, ChangeKeeps, Bound
<1>4. Keeps(t, I)
  BY <1>1, <1>2, <1>3 DEF Keeps
<1> QED BY <1>1, <1>4 DEF t

LEMMA BeginStep ==
  ASSUME NsInv, NEW c \in Clients, NEW r, Begin(c, r), Keeps(r, DOMAIN ns), r.pc # "idle",
         \A b \in BOOLEAN : Alone(AloneAs(r, b), ns, used.faults)
  PROVE  NsInv'
<1> DEFINE alone == \A d \in Clients \ {c} : call[d].pc = "idle"
           left(d) == call[d].alone /\ call[d].pc = "idle"
<1>1. ns' = ns /\ used' = [used EXCEPT !.calls = @ + 1] /\ Uses(used)
  BY DEF Begin, NsInv
<1>2. Uses(used') /\ used'.faults = used.faults
  BY <1>1 DEF Uses
<1>3. call' = [d \in Clients |-> IF d = c THEN AloneAs(r, alone) ELSE AloneAs(call[d], left(d))]
  BY DEF Begin, AloneAs
<1>4. alone \in BOOLEAN /\ \A d \in Clients : left(d) \in BOOLEAN
  BY DEF NsInv, CallsOf
<1>5. call'[c] = AloneAs(r, alone) /\ Keeps(call'[c], DOMAIN ns) /\ call'[c].alone = alone
  <2> HIDE DEF alone, left
  <2> QED BY <1>3, <1>4, AloneAsIs
<1>6. \A d \in Clients \ {c} : call'[d] = AloneAs(call[d], left(d)) /\ Keeps(call'[d], DOMAIN ns)
                               /\ call'[d].alone = left(d) /\ call'[d].pc = call[d].pc
  <2> HIDE DEF alone, left
  <2> QED BY <1>3, <1>4, AloneAsIs DEF NsInv
<1>7. call' \in [Clients -> CallsOf(DOMAIN ns')]
  <2> HIDE DEF alone, left
  <2>1. \A d \in Clients : call'[d] \in CallsOf(DOMAIN ns')
    BY <1>1, <1>5, <1>6 DEF Keeps
  <2> QED BY <2>1, <1>3
<1>8. ASSUME NEW d \in Clients PROVE Keeps(call'[d], DOMAIN ns') /\ Alone(call'[d], ns', used'.faults)
  <2>1. CASE d = c
    BY <2>1, <1>1, <1>2, <1>4, <1>5
  <2>2. CASE d # c
    <3>1. Keeps(call'[d], DOMAIN ns')
      BY <2>2, <1>1, <1>6
    <3>2. CASE call[d].pc = "idle"
      BY <2>2, <3>1, <3>2, <1>6, IdleAlone
    <3>3. CASE call[d].pc # "idle"
      <4>1. ~ call'[d].alone
        BY <2>2, <3>3, <1>6
      <4> QED BY <3>1, <4>1 DEF Alone
    <3> QED BY <3>1, <3>2, <3>3
  <2> QED BY <2>1, <2>2
<1>9. \A d, e \in Clients : d # e /\ call'[d].pc # "idle" /\ call'[d].alone => call'[e].pc = "idle"
  <2> SUFFICES ASSUME NEW d \in Clients, NEW e \in Clients, d # e, call'[d].pc # "idle", call'[d].alone
               PROVE  call'[e].pc = "idle"
    OBVIOUS
  <2>1. CASE d = c
    BY <2>1, <1>5, <1>6
  <2>2. CASE d # c
    BY <2>2, <1>6
  <2> QED BY <2>1, <2>2
<1>10. SoundIn(ns')
  BY <1>1 DEF NsInv
<1> QED BY <1>2, <1>7, <1>8, <1>9, <1>10 DEF NsInv

\* A call as it begins.
Fresh(kind, ask, pc, count, todo) ==
  [Idle EXCEPT !.kind = kind, !.ask = ask, !.pc = pc, !.count = count, !.todo = todo]

LEMMA FreshHas ==
  ASSUME NEW kind, NEW ask, NEW pc, NEW count, NEW todo
  PROVE  Fresh(kind, ask, pc, count, todo) =
           [kind |-> kind, pc |-> pc, ask |-> ask, todo |-> todo, id |-> 0, count |-> count,
            made |-> NoNs, old |-> NoNs, at |-> 1, undo |-> FALSE, answer |-> "none", alone |-> TRUE]
<1> SUFFICES ASSUME NEW r, r = Fresh(kind, ask, pc, count, todo)
             PROVE  r =
               [kind |-> kind, pc |-> pc, ask |-> ask, todo |-> todo, id |-> 0, count |-> count,
                made |-> NoNs, old |-> NoNs, at |-> 1, undo |-> FALSE, answer |-> "none", alone |-> TRUE]
  OBVIOUS
<1> QED BY DEF Fresh, Idle

LEMMA FreshIs ==
  ASSUME NEW I, NEW kind \in {"create", "change", "delete"}, NEW ask \in Asks, NEW pc \in Points, NEW count \in Nat,
         NEW todo \in Seq(I)
  PROVE  LET r == Fresh(kind, ask, pc, count, todo)
         IN /\ r \in CallsOf(I) /\ r.kind = kind /\ r.ask = ask /\ r.pc = pc /\ r.count = count /\ r.todo = todo
            /\ \A b : /\ AloneAs(r, b).kind = kind /\ AloneAs(r, b).ask = ask /\ AloneAs(r, b).pc = pc
                      /\ AloneAs(r, b).count = count
<1> DEFINE r == Fresh(kind, ask, pc, count, todo)
           ms == Namespace \cup {NoNs}
           T == CallsOf(I)
<1>1. NoNs \in ms
  OBVIOUS
<1>2. 0 \in Nat /\ 1 \in Nat /\ "none" \in Outcomes /\ kind \in {"idle", "create", "change", "delete"} /\ TRUE \in BOOLEAN /\ FALSE \in BOOLEAN
  BY DEF Outcomes
<1>3. T = [kind : {"idle", "create", "change", "delete"}, pc : Points, ask : Asks, todo : Seq(I), id : Nat, count : Nat,
           made : ms, old : ms, at : Nat, undo : BOOLEAN, answer : Outcomes, alone : BOOLEAN]
  BY DEF CallsOf
<1> HIDE DEF ms, T
<1>4. r \in T
  BY <1>1, <1>2, <1>3, FreshHas
<1>5. \A b : /\ AloneAs(r, b).kind = kind /\ AloneAs(r, b).ask = ask /\ AloneAs(r, b).pc = pc /\ AloneAs(r, b).count = count
  BY FreshHas DEF AloneAs
<1> QED BY <1>4, <1>5, FreshHas DEF T

LEMMA BeginCreateKeeps ==
  ASSUME NsInv, NEW c \in Clients, BeginCreate(c)
  PROVE  NsInv'
<1>1. PICK ask \in Creates :
        Begin(c, [Idle EXCEPT !.kind = "create", !.ask = ask,
                              !.pc = IF ask.by = "cli" THEN "adjust" ELSE "check",
                              !.count = IF ask.given THEN ask.count ELSE Largest(ask.type) \div Real(ask.type)])
  BY DEF BeginCreate
<1> DEFINE count == IF ask.given THEN ask.count ELSE Largest(ask.type) \div Real(ask.type)
           pc == IF ask.by = "cli" THEN "adjust" ELSE "check"
           r == Fresh("create", ask, pc, count, <<>>)
<1>2. ask \in Asks /\ ask.type \in Types
  BY AsksAssumption
<1>3. count \in Nat
  <2>1. ask.count \in Nat
    BY <1>2 DEF Asks
  <2>2. Largest(ask.type) \in Nat /\ Real(ask.type) \in Nat \ {0}
    BY <1>2, SoundHere, LargestIs, RealIs
  <2>3. Largest(ask.type) \div Real(ask.type) \in Nat
    BY <2>2
  <2> QED BY <2>1, <2>3
<1>4. pc \in Points /\ <<>> \in Seq(DOMAIN ns)
  BY DEF Points
<1>5. Begin(c, r)
  <2>1. r = [Idle EXCEPT !.kind = "create", !.ask = ask, !.pc = pc, !.count = count]
    <3>1. ASSUME NEW q, q = [Idle EXCEPT !.kind = "create", !.ask = ask, !.pc = pc, !.count = count]
          PROVE  q = [kind |-> "create", pc |-> pc, ask |-> ask, todo |-> <<>>, id |-> 0, count |-> count,
            made |-> NoNs, old |-> NoNs, at |-> 1, undo |-> FALSE, answer |-> "none", alone |-> TRUE]
      BY <3>1 DEF Idle
    <3> QED BY <3>1, FreshHas
  <2> QED BY <1>1, <2>1
<1>6. ask.given => count = ask.count
  OBVIOUS
<1>7. pc \in {"adjust", "check"} /\ (pc = "adjust" => ask.by = "cli") /\ (pc = "check" => ask.by # "cli")
  OBVIOUS
<1> HIDE DEF count, pc
<1>8. /\ r \in CallsOf(DOMAIN ns) /\ r.kind = "create" /\ r.ask = ask /\ r.pc = pc /\ r.count = count /\ r.todo = <<>>
      /\ \A b : /\ AloneAs(r, b).kind = "create" /\ AloneAs(r, b).ask = ask /\ AloneAs(r, b).pc = pc
                /\ AloneAs(r, b).count = count
  <2>1. "create" \in {"create", "change", "delete"}
    OBVIOUS
  <2> DEFINE I == DOMAIN ns
             kind == "create"
             todo == <<>>
  <2>2. todo \in Seq(I) /\ kind \in {"create", "change", "delete"}
    OBVIOUS
  <2> HIDE DEF I, kind, todo
  <2>3. ask \in Asks
    BY <1>2
  <2>4. LET t == Fresh(kind, ask, pc, count, todo)
        IN /\ t \in CallsOf(I) /\ t.kind = kind /\ t.ask = ask /\ t.pc = pc /\ t.count = count /\ t.todo = todo
           /\ \A b : /\ AloneAs(t, b).kind = kind /\ AloneAs(t, b).ask = ask /\ AloneAs(t, b).pc = pc
                     /\ AloneAs(t, b).count = count
    BY ONLY <2>2, <2>3, <1>3, <1>4, FreshIs
  <2> QED BY <2>4 DEF I, kind, todo
<1> HIDE DEF r
<1>9. Keeps(r, DOMAIN ns) /\ r.pc # "idle"
  BY <1>7, <1>8 DEF Keeps, CreateKeeps
<1>10. \A b \in BOOLEAN : Alone(AloneAs(r, b), ns, used.faults)
  <2> TAKE b \in BOOLEAN
  <2> DEFINE t == AloneAs(r, b)
  <2>1. t.kind = "create" /\ t.ask = ask /\ t.pc = pc /\ t.count = count
    BY <1>8
  <2> HIDE DEF t
  <2>2. CreateAlone(t, ns)
    BY <2>1, <1>6, <1>7 DEF CreateAlone
  <2>3. Alone(t, ns, used.faults)
    BY <2>1, <2>2 DEF Alone
  <2> QED BY <2>3 DEF t
<1> QED BY <1>5, <1>9, <1>10, BeginStep

LEMMA ListsAre ==
  ASSUME NEW ids \in Lists
  PROVE  ids \in Seq(DOMAIN ns) /\ ids # <<>>
<1> DEFINE I == DOMAIN ns
<1>1. Existing \subseteq I
  BY DEF Existing, Ids
<1>2. CASE \E i \in Existing : ids = <<i>>
  <2>1. PICK i \in I : ids = <<i>>
    BY <1>1, <1>2
  <2> HIDE DEF I
  <2>2. <<i>> \in Seq(I) /\ <<i>> # <<>>
    OBVIOUS
  <2> QED BY <2>1, <2>2 DEF I
<1>3. CASE \E p \in Existing \X Existing : ids = <<p[1], p[2]>>
  <2>1. PICK i \in I, j \in I : ids = <<i, j>>
    <3>1. PICK p \in Existing \X Existing : ids = <<p[1], p[2]>>
      BY <1>3
    <3>2. p[1] \in I /\ p[2] \in I
      BY <1>1
    <3> QED BY <3>1, <3>2
  <2> HIDE DEF I
  <2>2. <<i, j>> \in Seq(I) /\ <<i, j>> # <<>>
    OBVIOUS
  <2> QED BY <2>1, <2>2 DEF I
<1> QED BY <1>2, <1>3 DEF Lists

LEMMA BeginListKeeps ==
  ASSUME NsInv, NEW c \in Clients, BeginChange(c) \/ BeginDelete(c)
  PROVE  NsInv'
<1>1. ASSUME NEW kind \in {"change", "delete"}, NEW ask \in Asks, kind = "change" => ask \in Changes,
             NEW count \in Nat, NEW ids \in Lists,
             Begin(c, Fresh(kind, ask, "next", count, ids))
      PROVE  NsInv'
  <2> DEFINE r == Fresh(kind, ask, "next", count, ids)
  <2>1. ids \in Seq(DOMAIN ns) /\ ids # <<>> /\ "next" \in Points /\ kind \in {"create", "change", "delete"}
    BY ListsAre DEF Points
  <2>2. /\ r \in CallsOf(DOMAIN ns) /\ r.kind = kind /\ r.ask = ask /\ r.pc = "next" /\ r.count = count /\ r.todo = ids
        /\ \A b : AloneAs(r, b).kind = kind /\ AloneAs(r, b).ask = ask /\ AloneAs(r, b).pc = "next"
    <3>1. ask \in Asks /\ count \in Nat
      OBVIOUS
    <3> QED BY ONLY <3>1, <2>1, FreshIs
  <2>3. Begin(c, r)
    BY <1>1
  <2> HIDE DEF r
  <2>4. r.kind = "change" => ChangeKeeps(r, DOMAIN ns)
    BY <2>2, <1>1 DEF ChangeKeeps
  <2>5. Keeps(r, DOMAIN ns) /\ r.pc # "idle"
    BY <2>1, <2>2, <2>4, <1>1 DEF Keeps
  <2>6. \A b \in BOOLEAN : Alone(AloneAs(r, b), ns, used.faults)
    <3> TAKE b \in BOOLEAN
    <3> DEFINE t == AloneAs(r, b)
    <3>1. t.kind = kind /\ t.pc = "next"
      BY <2>2
    <3> HIDE DEF t
    <3>2. ChangeAlone(t, ns, used.faults)
      BY <3>1 DEF ChangeAlone
    <3>3. Alone(t, ns, used.faults)
      BY <3>1, <3>2, <1>1 DEF Alone
    <3> QED BY <3>3 DEF t
  <2> QED BY <2>3, <2>5, <2>6, BeginStep
<1>2. CASE BeginChange(c)
  <2>1. PICK ask \in Changes, ids \in Lists :
          Begin(c, [Idle EXCEPT !.kind = "change", !.ask = ask, !.pc = "next", !.count = ask.count, !.todo = ids])
    BY <1>2 DEF BeginChange
  <2>2. ask \in Asks /\ ask.count \in Nat
    BY AsksAssumption DEF Asks
  <2>3. Begin(c, Fresh("change", ask, "next", ask.count, ids))
    <3>1. Fresh("change", ask, "next", ask.count, ids)
           = [Idle EXCEPT !.kind = "change", !.ask = ask, !.pc = "next", !.count = ask.count, !.todo = ids]
      BY DEF Fresh
    <3> QED BY <2>1, <3>1
  <2>4. "change" \in {"change", "delete"}
    OBVIOUS
  <2> QED BY ONLY <2>2, <2>3, <2>4, <1>1
<1>3. CASE BeginDelete(c)
  <2>1. PICK ids \in Lists : Begin(c, [Idle EXCEPT !.kind = "delete", !.pc = "next", !.todo = ids])
    BY <1>3 DEF BeginDelete
  <2>2. NoAsk \in Asks /\ 0 \in Nat
    BY DEF NoAsk, Asks
  <2>3. Fresh("delete", NoAsk, "next", 0, ids) = [Idle EXCEPT !.kind = "delete", !.pc = "next", !.todo = ids]
    <3>1. ASSUME NEW q, q = [Idle EXCEPT !.kind = "delete", !.pc = "next", !.todo = ids]
          PROVE  q = [kind |-> "delete", pc |-> "next", ask |-> NoAsk, todo |-> ids, id |-> 0, count |-> 0,
            made |-> NoNs, old |-> NoNs, at |-> 1, undo |-> FALSE, answer |-> "none", alone |-> TRUE]
      BY <3>1 DEF Idle
    <3> QED BY <3>1, FreshHas
  <2>4. Begin(c, Fresh("delete", NoAsk, "next", 0, ids))
    BY <2>1, <2>3
  <2>5. "delete" \in {"change", "delete"} /\ "delete" # "change"
    OBVIOUS
  <2> QED BY ONLY <2>2, <2>4, <2>5, <1>1
<1> QED BY <1>2, <1>3

-----------------------------------------------------------------------------
(* Where a namespace is created *)

LEMMA PlacesAre ==
  ASSUME NEW type \in Types
  PROVE  PlaceOf(type) \in SUBSET Nat /\ \A p \in PlaceOf(type) : PlaceOK(type, p)
  BY SetsAssumption DEF PlaceOf, PlaceOK, Types

\* The units of DIMMs are the same.
LEMMA DimmUnit ==
  /\ \A d : Alignment("storage", d) = Alignment("storage", 0) /\ MinimumSize("storage", d) = MinimumSize("storage", 0)
  /\ \A d, count, allow : Adjusted("storage", d, count, allow) = Adjusted("storage", 0, count, allow)
  BY DEF Alignment, MinimumSize, Adjusted, Ways

\* A size that a place takes, its count.
LEMMA GoodIs ==
  ASSUME SoundIn(ns), NEW ask \in Asks, ask.type \in Types, NEW p \in PlaceOf(ask.type), NEW cap \in Int, GoodAt(ns, ask, p, cap)
  PROVE  /\ cap \in Nat \ {0} /\ Quotient(cap, ask.type) \in Nat /\ Quotient(cap, ask.type) * Real(ask.type) = cap
         /\ FreeAt(ns, ask.type, p) \in Nat /\ cap <= FreeAt(ns, ask.type, p)
<1> DEFINE type == ask.type
           unit == Alignment(type, p)
           least == MinimumSize(type, p)
           real == Real(type)
           free == FreeAt(ns, type, p)
<1>1. PlaceOK(type, p)
  BY PlacesAre
<1>2. unit \in Nat \ {0} /\ unit % real = 0 /\ least \in Nat \ {0} /\ real \in Nat \ {0}
  BY <1>1, AlignmentIs, MinimumIs, RealIs
<1>3. free \in Nat
  BY <1>1, PoolIsMost
<1>4. free >= cap /\ cap >= least /\ cap % unit = 0
  BY DEF GoodAt
<1> HIDE DEF unit, least, real, free
<1>5. cap \in Nat \ {0} /\ cap <= free
  BY <1>2, <1>3, <1>4
<1>6. cap % real = 0 /\ (cap \div real) * real = cap
  BY <1>2, <1>4, MultipleOf
<1>7. cap \div real \in Nat
  <2>1. cap \in Nat /\ real \in Nat \ {0}
    BY <1>2, <1>5
  <2> QED BY ONLY <2>1
<1> QED BY <1>3, <1>5, <1>6, <1>7 DEF Quotient, real, free

LEMMA SizeIs ==
  ASSUME NEW ask \in Asks, NEW p, NEW cap, cap % Alignment(ask.type, p) = 0,
         ask.type = "app direct" => OnIn(ns, "app direct", p) = {}
  PROVE  GoodAt(ns, ask, p, cap) <=> SizeIsGood(ask.type, p, cap) /\ Meets(DimmsOn(ask.type, p), ask)
  BY FreeAtIs DEF GoodAt, SizeIsGood

LEMMA TakenIs == \A s : Taken(s) <=> OnIn(ns, "app direct", s) # {}
  BY DEF Taken, On, OnIn, Existing, Ids

LEMMA CheckDimmsSays ==
  ASSUME SoundIn(ns), NEW ask \in Asks, ask.type = "storage", NEW cap \in Int, cap % Alignment("storage", 0) = 0
  PROVE  LET f == CheckDimms(cap, ask)
         IN /\ f.rc \in {"found", "security", "size"}
            /\ f.rc = "found" => /\ f.place \in Dimms /\ GoodAt(ns, ask, f.place, cap) /\ f.count = Quotient(cap, "storage")
                                 /\ \A d \in Dimms : GoodAt(ns, ask, d, cap) => f.place <= d
            /\ (\E d \in Dimms : GoodAt(ns, ask, d, cap)) => f.rc = "found"
            /\ f.rc = "size" /\ ~ ask.encryption /\ ~ ask.erase => \A d \in Dimms : ~ SizeIsGood("storage", d, cap)
<1> DEFINE Good == {d \in Dimms : SizeIsGood("storage", d, cap) /\ Meets({d}, ask)}
           f == CheckDimms(cap, ask)
           m == Min(Good)
<1>1. \A d \in Dimms : d \in Good <=> GoodAt(ns, ask, d, cap)
  <2> TAKE d \in Dimms
  <2>1. cap % Alignment(ask.type, d) = 0 /\ (ask.type = "app direct" => OnIn(ns, "app direct", d) = {})
    BY DimmUnit
  <2>2. DimmsOn(ask.type, d) = {d}
    BY DEF DimmsOn
  <2>3. GoodAt(ns, ask, d, cap) <=> SizeIsGood(ask.type, d, cap) /\ Meets(DimmsOn(ask.type, d), ask)
    BY <2>1, SizeIs
  <2> QED BY <2>2, <2>3
<1>2. f = IF Good # {} THEN Found(m, cap, "storage")
          ELSE NotFound(IF SizeIsGood("storage", Max(Dimms), cap) THEN "security" ELSE "size")
  BY DEF CheckDimms
<1>3. Good \in SUBSET Nat /\ Good \subseteq Dimms
  BY SetsAssumption
<1>4. ~ ask.encryption /\ ~ ask.erase => \A d : Meets({d}, ask)
  BY DEF Meets
<1>5. ~ ask.encryption /\ ~ ask.erase => (Good = {} => \A d \in Dimms : ~ SizeIsGood("storage", d, cap))
  BY <1>4
<1>6. Good = {} <=> ~ \E d \in Dimms : GoodAt(ns, ask, d, cap)
  BY <1>1, <1>3
<1>7. CASE Good # {}
  <2> HIDE DEF Good
  <2>1. m \in Good /\ \A d \in Good : m <= d
    BY <1>3, <1>7, MinIsLeast
  <2> HIDE DEF m, f
  <2>2. f.rc = "found" /\ f.place = m /\ f.count = Quotient(cap, "storage")
    BY <1>2, <1>7, FoundIs
  <2>3. f.place \in Dimms /\ GoodAt(ns, ask, f.place, cap) /\ \A d \in Dimms : GoodAt(ns, ask, d, cap) => f.place <= d
    BY <2>1, <2>2, <1>1, <1>3
  <2> QED BY <2>2, <2>3 DEF f
<1>8. CASE Good = {}
  <2> HIDE DEF Good, f
  <2>1. f.rc \in {"security", "size"}
    BY <1>2, <1>8, FoundIs
  <2>2. f.rc # "found"
    BY <2>1
  <2> QED BY <2>1, <2>2, <1>5, <1>6, <1>8 DEF f
<1> QED BY <1>7, <1>8

LEMMA FindDimmSays ==
  ASSUME SoundIn(ns), NEW ask \in Asks, ask.type = "storage", NEW count \in Nat, NEW allow \in BOOLEAN,
         NEW cap \in Nat, cap = Adjusted("storage", 0, count, allow), NEW unit \in Nat, unit = Alignment("storage", 0)
  PROVE  LET f == FindDimm(count, ask, allow)
         IN /\ f.rc \in {"found", "security", "size", "alignment"}
            /\ f.rc = "found" => /\ f.place \in Dimms
                                 /\ \E x \in {cap, cap - unit} : GoodAt(ns, ask, f.place, x) /\ f.count = Quotient(x, "storage")
            /\ (\E d \in Dimms : GoodAt(ns, ask, d, cap)) =>
                 /\ f.rc = "found" /\ f.count = Quotient(cap, "storage") /\ GoodAt(ns, ask, f.place, cap)
                 /\ \A d \in Dimms : GoodAt(ns, ask, d, cap) => f.place <= d
            /\ f.rc = "size" /\ ~ ask.encryption /\ ~ ask.erase =>
                 \A d \in Dimms : ~ SizeIsGood("storage", d, cap) /\ ~ SizeIsGood("storage", d, cap - unit)
<1> DEFINE f == FindDimm(count, ask, allow)
           a == CheckDimms(cap, ask)
           b == CheckDimms(cap - unit, ask)
<1>1. f = CASE cap % unit # 0 -> NotFound("alignment")
            [] cap % unit = 0 /\ a.rc = "size" -> b
            [] OTHER -> a
  BY DEF FindDimm
<1>2. CASE cap % unit # 0
  <2>1. f.rc = "alignment"
    BY <1>1, <1>2, FoundIs
  <2>2. \A d : ~ GoodAt(ns, ask, d, cap)
    BY <1>2, DimmUnit DEF GoodAt
  <2> HIDE DEF f
  <2> QED BY <2>1, <2>2 DEF f
<1>3. CASE cap % unit = 0
  <2>1. PlaceOK("storage", CHOOSE d \in Dimms : TRUE)
    BY SetsAssumption DEF PlaceOK, PlaceOf, Types
  <2>2. unit \in Nat \ {0}
    BY <2>1, AlignmentIs, DimmUnit
  <2>3. cap - unit \in Int /\ (cap - unit) % unit = 0
    <3> DEFINE q == cap \div unit
    <3>1. q \in Int /\ cap = unit * q
      BY <2>2, <1>3, ExactDiv
    <3> HIDE DEF q
    <3>2. unit * (q - 1) = cap - unit
      BY <3>1, <2>2, TimesIs
    <3>3. (unit * (q - 1)) % unit = 0
      BY <3>1, <2>2, ModOfTimes
    <3> QED BY <3>2, <3>3
  <2>4. /\ a.rc \in {"found", "security", "size"}
        /\ a.rc = "found" => /\ a.place \in Dimms /\ GoodAt(ns, ask, a.place, cap) /\ a.count = Quotient(cap, "storage")
                             /\ \A d \in Dimms : GoodAt(ns, ask, d, cap) => a.place <= d
        /\ (\E d \in Dimms : GoodAt(ns, ask, d, cap)) => a.rc = "found"
        /\ a.rc = "size" /\ ~ ask.encryption /\ ~ ask.erase => \A d \in Dimms : ~ SizeIsGood("storage", d, cap)
    BY <1>3, CheckDimmsSays
  <2>5. /\ b.rc \in {"found", "security", "size"}
        /\ b.rc = "found" => /\ b.place \in Dimms /\ GoodAt(ns, ask, b.place, cap - unit) /\ b.count = Quotient(cap - unit, "storage")
        /\ b.rc = "size" /\ ~ ask.encryption /\ ~ ask.erase => \A d \in Dimms : ~ SizeIsGood("storage", d, cap - unit)
    BY <2>3, CheckDimmsSays
  <2>6. f = IF a.rc = "size" THEN b ELSE a
    BY <1>1, <1>3
  <2> HIDE DEF f, a, b
  <2>7. CASE a.rc = "size"
    <3>1. f = b
      BY <2>6, <2>7
    <3>2. ~ \E d \in Dimms : GoodAt(ns, ask, d, cap)
      BY <2>4, <2>7
    <3> QED BY <3>1, <3>2, <2>4, <2>5, <2>7 DEF f
  <2>8. CASE a.rc # "size"
    <3>1. f = a
      BY <2>6, <2>8
    <3> QED BY <3>1, <2>4, <2>8 DEF f
  <2> QED BY <2>7, <2>8
<1> QED BY <1>2, <1>3

LEMMA FindSetSays ==
  ASSUME SoundIn(ns), NEW ask \in Asks, ask.type = "app direct", NEW count \in Nat, NEW allow \in BOOLEAN
  PROVE  LET f == FindSet(count, ask, allow)
             cap(s) == Adjusted("app direct", s, count, allow)
         IN /\ f.rc \in {"found", "security", "size", "alignment"}
            /\ f.rc = "found" => /\ f.place \in Sets /\ GoodAt(ns, ask, f.place, cap(f.place))
                                 /\ f.count = Quotient(cap(f.place), "app direct")
                                 /\ \A s \in Sets : GoodAt(ns, ask, s, cap(s)) => f.place <= s
            /\ (\E s \in Sets : GoodAt(ns, ask, s, cap(s))) => f.rc = "found"
            /\ f.rc = "size" => \A s \in Sets : OnIn(ns, "app direct", s) = {} => ~ SizeIsGood("app direct", s, cap(s))
<1> DEFINE cap(s) == Adjusted("app direct", s, count, allow)
           aligned(s) == cap(s) % Alignment("app direct", s) = 0
           Open == {s \in Sets : ~Taken(s) /\ SizeIsGood("app direct", s, cap(s))}
           Good == {s \in Open : Meets(DimmsOf[s], ask) /\ aligned(s)}
           f == FindSet(count, ask, allow)
           m == Min(Good)
<1>1. f = CASE Good # {} -> Found(m, cap(m), "app direct")
            [] Good = {} /\ Open # {} /\ ~\E s \in Open : aligned(s) -> NotFound("alignment")
            [] OTHER -> NotFound(IF Open # {} THEN "security" ELSE "size")
  BY DEF FindSet
<1>2. ASSUME NEW s \in Sets PROVE s \in Good <=> GoodAt(ns, ask, s, cap(s))
  <2> DEFINE c == cap(s)
             unit == Alignment("app direct", s)
  <2>1. s \in Good <=> ~ Taken(s) /\ SizeIsGood("app direct", s, c) /\ Meets(DimmsOf[s], ask) /\ c % unit = 0
    OBVIOUS
  <2>2. DimmsOn(ask.type, s) = DimmsOf[s]
    BY DEF DimmsOn
  <2>3. ASSUME c % unit = 0, ~ Taken(s)
        PROVE  GoodAt(ns, ask, s, c) <=> SizeIsGood("app direct", s, c) /\ Meets(DimmsOf[s], ask)
    <3>1. OnIn(ns, "app direct", s) = {}
      BY <2>3, TakenIs
    <3> HIDE DEF c
    <3>2. c % Alignment(ask.type, s) = 0
      BY <2>3
    <3>3. GoodAt(ns, ask, s, c) <=> SizeIsGood(ask.type, s, c) /\ Meets(DimmsOn(ask.type, s), ask)
      BY <3>1, <3>2, SizeIs
    <3> QED BY <3>3, <2>2
  <2>4. GoodAt(ns, ask, s, c) => c % unit = 0 /\ ~ Taken(s)
    <3> HIDE DEF c
    <3> QED BY TakenIs DEF GoodAt
  <2> QED BY <2>1, <2>3, <2>4
<1>3. Good \in SUBSET Nat /\ Good \subseteq Sets /\ Open \subseteq Sets
  BY SetsAssumption
<1>4. \A s \in Sets : s \in Open <=> OnIn(ns, "app direct", s) = {} /\ SizeIsGood("app direct", s, cap(s))
  BY TakenIs
<1>5. CASE Good # {}
  <2> HIDE DEF Good
  <2>1. m \in Good /\ \A s \in Good : m <= s
    BY <1>3, <1>5, MinIsLeast
  <2> HIDE DEF m, f, Open, aligned, cap
  <2>2. f = Found(m, cap(m), "app direct")
    BY <1>1, <1>5
  <2>3. f.rc = "found" /\ f.place = m /\ f.count = Quotient(cap(m), "app direct")
    <3> DEFINE x == cap(m)
    <3> HIDE DEF x
    <3>1. f = Found(m, x, "app direct")
      BY <2>2 DEF x
    <3> DEFINE type == "app direct"
    <3> HIDE DEF type
    <3>2. f = Found(m, x, type)
      BY <3>1 DEF type
    <3>3. f.rc = "found"
      BY ONLY <3>2, FoundIs
    <3>4. f.place = m
      BY ONLY <3>2, FoundIs
    <3>5. f.count = Quotient(x, type)
      BY ONLY <3>2, FoundIs
    <3> QED BY <3>3, <3>4, <3>5 DEF x, type
  <2>4. f.place \in Sets /\ GoodAt(ns, ask, f.place, cap(f.place)) /\ \A s \in Sets : GoodAt(ns, ask, s, cap(s)) => f.place <= s
    BY <2>1, <2>3, <1>2, <1>3
  <2> QED BY <2>3, <2>4 DEF f, cap
<1>6. CASE Good = {}
  <2> DEFINE alone == ~\E s \in Open : aligned(s)
  <2> HIDE DEF Good, f, aligned, Open, cap, alone
  <2>1. f = IF Open # {} /\ alone THEN NotFound("alignment") ELSE NotFound(IF Open # {} THEN "security" ELSE "size")
    BY <1>1, <1>6 DEF alone
  <2>2. f.rc = IF Open # {} /\ alone THEN "alignment" ELSE IF Open # {} THEN "security" ELSE "size"
    BY <2>1, FoundIs
  <2>3. f.rc \in {"security", "size", "alignment"} /\ f.rc # "found" /\ (f.rc = "size" => Open = {})
    BY <2>2
  <2>4. ~ \E s \in Sets : GoodAt(ns, ask, s, cap(s))
    BY <1>2, <1>6
  <2>5. f.rc = "size" => \A s \in Sets : OnIn(ns, "app direct", s) = {} => ~ SizeIsGood("app direct", s, cap(s))
    BY <2>3, <1>4
  <2> QED BY <2>3, <2>4, <2>5 DEF f, cap
<1> QED BY <1>5, <1>6

LEMMA AdjustedNat ==
  ASSUME NEW count \in Nat, NEW allow \in BOOLEAN
  PROVE  Adjusted("storage", 0, count, allow) \in Nat /\ Alignment("storage", 0) \in Nat \ {0}
<1> DEFINE d == CHOOSE d \in Dimms : TRUE
<1>1. PlaceOK("storage", d)
  BY SetsAssumption DEF PlaceOK, PlaceOf, Types
<1> HIDE DEF d
<1>2. Alignment("storage", d) \in Nat \ {0}
  BY <1>1, AlignmentIs
<1>3. Alignment("storage", 0) \in Nat \ {0}
  BY <1>2, DimmUnit
<1>4. CASE allow = TRUE
  <2>1. Adjusted("storage", d, count, TRUE) \in Nat
    BY <1>1, SizesAre
  <2> QED BY <1>3, <1>4, <2>1, DimmUnit
<1>5. CASE allow = FALSE
  <2>1. count * Real("storage") \in Nat
    <3> DEFINE real == Real("storage")
    <3>1. real \in Nat
      BY RealIs
    <3> HIDE DEF real
    <3>2. count * real \in Nat
      BY <3>1
    <3> QED BY <3>2 DEF real
  <2> QED BY <1>3, <1>5, <2>1 DEF Adjusted
<1> QED BY <1>4, <1>5

LEMMA CheckCreateSays ==
  ASSUME SoundIn(ns), NEW ask \in Asks, ask.type \in Types, NEW count \in Nat, NEW allow \in BOOLEAN
  PROVE  LET f == CheckCreate(count, ask, allow)
         IN /\ f.rc \in {"found", "security", "size", "alignment", "too many"}
            /\ f.rc = "found" => f = Find(count, ask, allow)
            /\ Largest(ask.type) # 0 /\ count * SizeOfBlock(ask.type) <= Largest(ask.type) => f = Find(count, ask, allow)
            /\ f.rc \in {"size", "too many"} =>
                 \/ Largest(ask.type) = 0 \/ count * SizeOfBlock(ask.type) > Largest(ask.type)
                 \/ f = Find(count, ask, allow)
<1> DEFINE f == CheckCreate(count, ask, allow)
           g == Find(count, ask, allow)
           most == Largest(ask.type)
           capacity == count * SizeOfBlock(ask.type)
<1>1. f = CASE most = 0 -> NotFound("too many")
            [] most # 0 /\ (capacity > PoolFree \/ capacity > most) -> NotFound("size")
            [] OTHER -> g
  BY DEF CheckCreate
<1>2. most \in Nat /\ PoolFree \in Nat /\ most <= PoolFree
  BY LargestIs
<1>3. capacity \in Nat
  <2>1. SizeOfBlock(ask.type) \in Nat
    BY RealIs
  <2> QED BY <2>1
<1>4. g.rc \in {"found", "security", "size", "alignment"}
  <2>1. CASE ask.type = "app direct"
    <3>1. FindSet(count, ask, allow).rc \in {"found", "security", "size", "alignment"}
      BY <2>1, FindSetSays
    <3> QED BY <2>1, <3>1 DEF Find
  <2>2. CASE ask.type # "app direct"
    <3> DEFINE cap == Adjusted("storage", 0, count, allow)
               unit == Alignment("storage", 0)
    <3>1. ask.type = "storage"
      BY <2>2 DEF Types
    <3>2. cap \in Nat /\ unit \in Nat
      BY AdjustedNat
    <3> HIDE DEF cap, unit
    <3>3. FindDimm(count, ask, allow).rc \in {"found", "security", "size", "alignment"}
      BY <3>1, <3>2, FindDimmSays DEF cap, unit
    <3> QED BY <2>2, <3>3 DEF Find
  <2> QED BY <2>1, <2>2
<1> HIDE DEF f, g, most, capacity
<1>5. CASE most = 0
  <2>1. f.rc = "too many"
    BY <1>1, <1>5, FoundIs
  <2> QED BY <2>1, <1>5 DEF f, g, most, capacity
<1>6. CASE most # 0 /\ capacity > most
  <2>1. f.rc = "size"
    BY <1>1, <1>6, FoundIs
  <2>2. ~ capacity <= most
    BY <1>2, <1>3, <1>6
  <2> QED BY <2>1, <2>2, <1>6 DEF f, g, most, capacity
<1>7. CASE most # 0 /\ ~ capacity > most
  <2>1. ~ capacity > PoolFree
    BY <1>2, <1>3, <1>7
  <2>2. f = g
    BY <1>1, <1>7, <2>1
  <2> QED BY <2>2, <1>4 DEF f, g, most, capacity
<1> QED BY <1>5, <1>6, <1>7

-----------------------------------------------------------------------------
(* Near what was asked for *)

LEMMA NearNumbers ==
  ASSUME NEW A \in Nat \ {0}, NEW B \in Nat \ {0}, NEW q \in Nat \ {0}, NEW asked \in Nat, NEW R \in Nat, NEW C \in Nat,
         NEW j \in Int, R = A * j, asked <= R, R < A * q, C >= B * q, C < asked + B
  PROVE  C <= asked + A
<1>1. CASE B <= A
  BY <1>1
<1>2. CASE A <= B
  <2>1. ~ q <= j
    <3>1. q <= j => A * q <= A * j
      BY TimesLess
    <3>2. A * q \in Int
      OBVIOUS
    <3> QED BY <3>1, <3>2
  <2>2. j <= q - 1
    BY <2>1
  <2>3. A * j <= A * (q - 1)
    BY <2>2, TimesLess
  <2>4. (q - 1) * A <= (q - 1) * B
    <3>1. CASE q = 1
      BY <3>1
    <3>2. CASE q # 1
      <4>1. q - 1 \in Nat \ {0}
        BY <3>2
      <4> DEFINE u == q - 1
      <4> HIDE DEF u
      <4>2. u * A <= u * B
        BY <4>1, <1>2, TimesLess DEF u
      <4> QED BY <4>2 DEF u
    <3> QED BY <3>1, <3>2
  <2>5. A * (q - 1) = (q - 1) * A /\ (q - 1) * B = B * q - B /\ A * (q - 1) \in Int /\ B * q \in Int
    <3>1. A * (q - 1) = (q - 1) * A /\ A * (q - 1) \in Int
      BY TimesIs
    <3>2. (q - 1) * B = B * (q - 1) /\ B * q \in Int
      BY TimesIs
    <3>3. B * (q - 1) = B * q - B * 1 /\ B * 1 = B
      BY TimesIs
    <3> QED BY <3>1, <3>2, <3>3
  <2>6. asked <= A * (q - 1) /\ A * (q - 1) <= B * q - B
    BY <2>3, <2>4, <2>5
  <2>7. B * q - B < asked
    BY <2>5
  <2> QED BY <2>5, <2>6, <2>7
<1> QED BY <1>1, <1>2

LEMMA PagesAre ==
  LET q == Minimum \div Page
  IN Page \in Nat \ {0} /\ q \in Nat \ {0} /\ Minimum = Page * q
<1> DEFINE q == Minimum \div Page
<1>1. Page \in Nat \ {0} /\ Minimum \in Nat \ {0} /\ Minimum % Page = 0
  BY UnitsAre
<1>2. q \in Int /\ Minimum = Page * q
  BY <1>1, ExactDiv
<1> HIDE DEF q
<1>3. ~ q <= 0
  <2>1. q <= 0 => Page * q <= Page * 0
    <3>1. 0 \in Int
      OBVIOUS
    <3> QED BY ONLY <3>1, <1>1, <1>2, TimesLess
  <2>2. Page * 0 = 0
    BY <1>1
  <2> QED BY <1>1, <1>2, <2>1, <2>2
<1>4. q \in Nat \ {0}
  BY <1>2, <1>3
<1> QED BY <1>1, <1>2, <1>4 DEF q

LEMMA SetUnits ==
  ASSUME NEW s \in Sets
  PROVE  LET unit == Alignment("app direct", s)
         IN unit \in Nat \ {0} /\ MinimumSize("app direct", s) = unit * (Minimum \div Page)
<1> DEFINE k == Cardinality(DimmsOf[s])
           q == Minimum \div Page
           unit == Alignment("app direct", s)
<1>0. k \in Nat \ {0}
  BY SetsAre
<1>1. PlaceOK("app direct", s) /\ Ways("app direct", s) = k
  BY SetsAre
<1>2. unit \in Nat \ {0} /\ unit = Page * k
  BY <1>1, AlignmentIs
<1>3. MinimumSize("app direct", s) = Minimum * k
  BY <1>1 DEF MinimumSize
<1> HIDE DEF k, q, unit
<1>4. Page \in Nat \ {0} /\ q \in Int /\ Minimum = Page * q
  BY PagesAre DEF q
<1>5. (Page * q) * k = (Page * k) * q
  <2>0. k \in Int /\ Page \in Int /\ q \in Int
    BY ONLY <1>0, <1>4
  <2>1. k * (Page * q) = (k * Page) * q
    BY ONLY <2>0, TimesIs
  <2>2. Page * q \in Int
    BY ONLY <2>0
  <2>3. k * (Page * q) = (Page * q) * k /\ k * Page = Page * k
    BY ONLY <2>0, <2>2, TimesIs
  <2> QED BY <2>1, <2>3
<1>6. MinimumSize("app direct", s) = unit * q
  BY <1>2, <1>3, <1>4, <1>5
<1> QED BY <1>2, <1>6 DEF unit, q

\* The set found first for the size rounded up to its unit, and the sets
\* before it that take that size.
LEMMA NearSet ==
  ASSUME SoundIn(ns), NEW ask \in Asks, ask.type = "app direct", NEW p \in Sets, NEW C,
         C = Adjusted("app direct", p, ask.count, TRUE), GoodAt(ns, ask, p, C),
         \A s \in Sets : GoodAt(ns, ask, s, Adjusted("app direct", s, ask.count, TRUE)) => p <= s,
         NEW n \in Sets, n <= p, GoodAt(ns, ask, n, C)
  PROVE  Near(ask, n, C)
<1> DEFINE type == "app direct"
           asked == ask.count * Real(type)
           A == Alignment(type, n)
           B == Alignment(type, p)
           R == Adjusted(type, n, ask.count, TRUE)
           q == Minimum \div Page
<1>1. ask.count \in Nat /\ p \in Nat /\ n \in Nat
  BY SetsAssumption DEF Asks
<1>2. PlaceOK(type, n) /\ PlaceOK(type, p)
  BY SetsAre
<1>3. C \in Nat /\ C % B = 0 /\ asked <= C /\ C < asked + B /\ asked \in Nat
  BY <1>1, <1>2, SizesAre
<1>4. R \in Nat /\ R % A = 0 /\ asked <= R /\ R < asked + A
  BY <1>1, <1>2, SizesAre
<1>0. A \in Nat \ {0} /\ B \in Nat \ {0}
  BY SetUnits
<1>5. MinimumSize(type, n) = A * q /\ MinimumSize(type, p) = B * q
  BY SetUnits
<1>6. q \in Nat \ {0}
  BY PagesAre
<1>7. FreeAt(ns, type, n) \in Nat
  BY <1>2, PoolIsMost
<1>8. /\ C % A = 0 /\ FreeAt(ns, type, n) >= C /\ Meets(DimmsOn(type, n), ask) /\ OnIn(ns, "app direct", n) = {}
      /\ C >= MinimumSize(type, p)
  BY DEF GoodAt
<1>9. R = RoundUp(asked, A)
  BY DEF Adjusted
<1>10. n # p => ~ GoodAt(ns, ask, n, R)
  <2>1. GoodAt(ns, ask, n, R) => p <= n
    OBVIOUS
  <2>2. n <= p
    OBVIOUS
  <2>3. p <= n => n = p
    BY ONLY <2>2, <1>1
  <2> QED BY <2>1, <2>3
<1>11. n # p => ~ R >= MinimumSize(type, n)
  <2> SUFFICES ASSUME n # p, R >= MinimumSize(type, n) PROVE FALSE
    OBVIOUS
  <2> DEFINE free == FreeAt(ns, type, n)
  <2>1. R <= C
    <3> HIDE DEF asked, A, R
    <3> QED BY <1>0, <1>3, <1>4, <1>8, <1>9, RoundUpLeast
  <2>2. free >= R
    <3> HIDE DEF free, R, asked, A
    <3>1. free \in Nat /\ free >= C
      BY <1>7, <1>8 DEF free
    <3>2. R \in Nat /\ C \in Nat
      BY <1>3, <1>4
    <3> QED BY ONLY <3>1, <3>2, <2>1
  <2>3. GoodAt(ns, ask, n, R)
    <3> HIDE DEF R
    <3> QED BY <2>2, <1>4, <1>8 DEF GoodAt
  <2> QED BY <2>3, <1>10
<1>12. Near(ask, n, C) <=> asked - A <= C /\ C <= asked + A
  BY DEF Near
<1>13. n = p => A = B
  OBVIOUS
<1> DEFINE j == R \div A
<1> HIDE DEF asked, A, B, R, q, j
<1>14. j \in Int /\ R = A * j
  <2>1. R \in Int /\ A \in Nat \ {0} /\ R % A = 0
    BY ONLY <1>4, <1>0
  <2> QED BY ONLY <2>1, ExactDiv DEF j
<1>15. C <= asked + A
  <2>1. CASE n = p
    <3>1. A = B
      BY <2>1, <1>13
    <3> QED BY ONLY <3>1, <1>3, <1>0
  <2>2. CASE n # p
    <3>1. ~ R >= A * q /\ C >= B * q
      BY <2>2, <1>5, <1>8, <1>11
    <3>3. A * q \in Int
      BY ONLY <1>0, <1>6
    <3>4. R < A * q /\ C >= B * q
      BY ONLY <3>1, <3>3, <1>4
    <3> QED BY ONLY <1>0, <3>4, <1>3, <1>4, <1>6, <1>14, NearNumbers
  <2> QED BY <2>1, <2>2
<1>16. asked - A <= C
  <2>1. A \in Nat
    BY <1>0
  <2> QED BY ONLY <2>1, <1>3
<1> QED BY <1>12, <1>15, <1>16

LEMMA NearDimm ==
  ASSUME NEW ask \in Asks, ask.type = "storage", NEW d \in Dimms,
         NEW cap, cap = Adjusted("storage", 0, ask.count, TRUE), NEW x,
         x \in {cap, cap - Alignment("storage", 0)}
  PROVE  Near(ask, d, x)
<1> DEFINE type == "storage"
           asked == ask.count * Real(type)
           unit == Alignment(type, d)
<1>1. ask.count \in Nat /\ PlaceOK(type, d)
  BY DimmsAre DEF Asks
<1>2. cap = Adjusted(type, d, ask.count, TRUE) /\ Alignment("storage", 0) = unit
  BY DimmUnit
<1>3. cap \in Nat /\ asked <= cap /\ cap < asked + unit /\ asked \in Nat
  <2> DEFINE up == Adjusted(type, d, ask.count, TRUE)
  <2>1. up \in Nat /\ asked <= up /\ up < asked + unit /\ asked \in Nat
    BY <1>1, SizesAre
  <2> HIDE DEF up, asked, unit
  <2>2. cap = up
    BY <1>2 DEF up
  <2> QED BY <2>1, <2>2
<1>4. unit \in Nat \ {0}
  BY <1>1, AlignmentIs
<1>5. Near(ask, d, x) <=> asked - unit <= x /\ x <= asked + unit
  BY DEF Near
<1>6. x \in {cap, cap - unit}
  BY <1>2
<1> HIDE DEF asked, unit
<1>7. asked - unit <= x /\ x <= asked + unit
  BY ONLY <1>3, <1>4, <1>6
<1> QED BY <1>5, <1>7

LEMMA AdjustedInt ==
  ASSUME NEW type, NEW p, PlaceOK(type, p), NEW count \in Nat, NEW allow \in BOOLEAN
  PROVE  Adjusted(type, p, count, allow) \in Int
<1>1. CASE allow = TRUE
  <2>1. Adjusted(type, p, count, TRUE) \in Nat
    BY SizesAre
  <2> DEFINE x == Adjusted(type, p, count, TRUE)
  <2> HIDE DEF x
  <2>2. x \in Nat
    BY <2>1 DEF x
  <2>3. x \in Int
    BY <2>2
  <2> QED BY <1>1, <2>3 DEF x
<1>2. CASE allow = FALSE
  <2> DEFINE real == Real(type)
  <2>1. real \in Nat
    BY RealIs
  <2> HIDE DEF real
  <2>2. count * real \in Int
    BY <2>1
  <2> QED BY <1>2, <2>2 DEF Adjusted, real
<1> QED BY <1>1, <1>2

\* What is found takes the size, whatever was asked for.
LEMMA FindGood ==
  ASSUME SoundIn(ns), NEW ask \in Asks, ask.type \in Types, NEW count \in Nat, NEW allow \in BOOLEAN,
         NEW f, f = Find(count, ask, allow), f.rc = "found"
  PROVE  f.place \in PlaceOf(ask.type) /\ f.count \in Nat /\ GoodAt(ns, ask, f.place, f.count * Real(ask.type))
<1>1. \E x \in Int : f.place \in PlaceOf(ask.type) /\ GoodAt(ns, ask, f.place, x) /\ f.count = Quotient(x, ask.type)
  <2>1. CASE ask.type = "app direct"
    <3> DEFINE x == Adjusted("app direct", f.place, count, allow)
    <3>1. f = FindSet(count, ask, allow)
      BY <2>1 DEF Find
    <3>2. f.place \in Sets /\ GoodAt(ns, ask, f.place, x) /\ f.count = Quotient(x, "app direct")
      BY <2>1, <3>1, FindSetSays
    <3>3. PlaceOK("app direct", f.place)
      BY <3>2, SetsAre
    <3>4. x \in Int
      BY <3>3, AdjustedInt
    <3> HIDE DEF x
    <3> QED BY <2>1, <3>2, <3>4 DEF PlaceOf
  <2>2. CASE ask.type # "app direct"
    <3> DEFINE cap == Adjusted("storage", 0, count, allow)
               unit == Alignment("storage", 0)
    <3>1. ask.type = "storage" /\ f = FindDimm(count, ask, allow)
      BY <2>2 DEF Types, Find
    <3>2. cap \in Nat /\ unit \in Nat
      BY AdjustedNat
    <3> HIDE DEF cap, unit
    <3>3. f.place \in Dimms /\ \E x \in {cap, cap - unit} : GoodAt(ns, ask, f.place, x) /\ f.count = Quotient(x, "storage")
      BY <3>1, <3>2, FindDimmSays DEF cap, unit
    <3>4. cap - unit \in Int /\ cap \in Int
      BY <3>2
    <3> QED BY <3>1, <3>3, <3>4 DEF PlaceOf
  <2> QED BY <2>1, <2>2
<1>2. PICK x \in Int : f.place \in PlaceOf(ask.type) /\ GoodAt(ns, ask, f.place, x) /\ f.count = Quotient(x, ask.type)
  BY <1>1
<1>3. Quotient(x, ask.type) \in Nat /\ Quotient(x, ask.type) * Real(ask.type) = x
  BY <1>2, GoodIs
<1> QED BY <1>2, <1>3

\* What is found for the size that was asked for and may be adjusted is near
\* it, at every place up to the one found.
LEMMA FindReady ==
  ASSUME SoundIn(ns), NEW ask \in Asks, ask.type \in Types, NEW f, f = Find(ask.count, ask, TRUE), f.rc = "found",
         NEW q \in PlaceOf(ask.type), q <= f.place, GoodAt(ns, ask, q, f.count * Real(ask.type))
  PROVE  Near(ask, q, f.count * Real(ask.type))
<1> DEFINE cap == f.count * Real(ask.type)
<1>1. ask.count \in Nat /\ TRUE \in BOOLEAN
  BY DEF Asks
<1>2. f.place \in PlaceOf(ask.type) /\ GoodAt(ns, ask, f.place, cap)
  BY <1>1, FindGood
<1>3. CASE ask.type = "app direct"
  <2> DEFINE x == Adjusted("app direct", f.place, ask.count, TRUE)
  <2>1. f = FindSet(ask.count, ask, TRUE)
    BY <1>3 DEF Find
  <2>2. /\ f.place \in Sets /\ GoodAt(ns, ask, f.place, x) /\ f.count = Quotient(x, "app direct")
        /\ \A s \in Sets : GoodAt(ns, ask, s, Adjusted("app direct", s, ask.count, TRUE)) => f.place <= s
    BY <1>1, <1>3, <2>1, FindSetSays
  <2>3. PlaceOK("app direct", f.place)
    BY <2>2, SetsAre
  <2>4. x \in Int
    BY <1>1, <2>3, AdjustedInt
  <2> HIDE DEF x
  <2>5. cap = x
    BY <1>2, <1>3, <2>2, <2>4, GoodIs
  <2> HIDE DEF cap
  <2>6. q \in Sets
    BY <1>3 DEF PlaceOf
  <2>7. Near(ask, q, x)
    BY <1>3, <2>2, <2>5, <2>6, NearSet DEF x, cap
  <2> QED BY <2>5, <2>7 DEF cap
<1>4. CASE ask.type # "app direct"
  <2> DEFINE up == Adjusted("storage", 0, ask.count, TRUE)
             unit == Alignment("storage", 0)
  <2>1. ask.type = "storage" /\ f = FindDimm(ask.count, ask, TRUE) /\ q \in Dimms
    BY <1>4 DEF Types, Find, PlaceOf
  <2>2. up \in Nat /\ unit \in Nat
    BY <1>1, AdjustedNat
  <2>9. \E x \in {up, up - unit} : GoodAt(ns, ask, f.place, x) /\ f.count = Quotient(x, "storage")
    <3> DEFINE allow == TRUE
               count == ask.count
    <3>1. allow \in BOOLEAN /\ count \in Nat /\ up = Adjusted("storage", 0, count, allow) /\ unit = Alignment("storage", 0)
      BY <1>1
    <3>2. f = FindDimm(count, ask, allow)
      BY <2>1
    <3> HIDE DEF allow, count, up, unit
    <3>3. LET g == FindDimm(count, ask, allow)
          IN g.rc = "found" => \E x \in {up, up - unit} : GoodAt(ns, ask, g.place, x) /\ g.count = Quotient(x, "storage")
      BY <2>1, <2>2, <3>1, FindDimmSays
    <3> QED BY <3>2, <3>3
  <2> HIDE DEF up, unit
  <2>3. PICK x \in {up, up - unit} : GoodAt(ns, ask, f.place, x) /\ f.count = Quotient(x, "storage")
    BY <2>9
  <2>4. x \in Int
    BY <2>2
  <2>5. cap = x
    BY <1>2, <2>1, <2>3, <2>4, GoodIs
  <2> HIDE DEF cap
  <2>6. Near(ask, q, x)
    BY <2>1, <2>3, NearDimm DEF up, unit
  <2> QED BY <2>5, <2>6 DEF cap
<1> QED BY <1>3, <1>4

\* A size that a place takes is found again, at a place not after it.
LEMMA FindAgain ==
  ASSUME SoundIn(ns), NEW ask \in Asks, ask.type \in Types, NEW count \in Nat, NEW p \in PlaceOf(ask.type),
         GoodAt(ns, ask, p, count * Real(ask.type)), NEW f, f = Find(count, ask, FALSE)
  PROVE  f.rc = "found" /\ f.count = count /\ f.place <= p
<1> DEFINE cap == count * Real(ask.type)
<1>1. \A s : Adjusted(ask.type, s, count, FALSE) = cap
  BY DEF Adjusted
<1>2. Real(ask.type) \in Nat \ {0}
  BY RealIs
<1>3. cap \in Nat /\ Quotient(cap, ask.type) = count
  <2> DEFINE real == Real(ask.type)
  <2>1. real \in Nat \ {0}
    BY <1>2
  <2> HIDE DEF real
  <2>2. count * real \in Nat
    BY <2>1
  <2>3. (real * count) \div real = count /\ real * count = count * real
    BY <2>1, ModOfTimes, TimesIs
  <2> QED BY <2>2, <2>3 DEF Quotient, real
<1> HIDE DEF cap
<1>4. GoodAt(ns, ask, p, cap)
  BY DEF cap
<1>5. CASE ask.type = "app direct"
  <2>1. f = FindSet(count, ask, FALSE) /\ p \in Sets
    BY <1>5 DEF Find, PlaceOf
  <2> DEFINE x(s) == Adjusted("app direct", s, count, FALSE)
  <2>2. \A s : x(s) = cap
    BY <1>1, <1>5
  <2>3. /\ f.rc = "found" => /\ f.place \in Sets /\ f.count = Quotient(x(f.place), "app direct")
                             /\ \A s \in Sets : GoodAt(ns, ask, s, x(s)) => f.place <= s
        /\ (\E s \in Sets : GoodAt(ns, ask, s, x(s))) => f.rc = "found"
    <3>1. FALSE \in BOOLEAN
      OBVIOUS
    <3> QED BY <1>5, <2>1, <3>1, FindSetSays
  <2> HIDE DEF x
  <2>7. p \in Sets /\ GoodAt(ns, ask, p, x(p))
    <3>1. x(p) = cap
      BY <2>2
    <3> QED BY <1>4, <2>1, <3>1
  <2>4. f.rc = "found"
    BY <2>3, <2>7
  <2>5. f.count = count
    BY <1>3, <1>5, <2>2, <2>3, <2>4
  <2>6. f.place <= p
    BY <2>3, <2>4, <2>7
  <2> QED BY <2>4, <2>5, <2>6
<1>6. CASE ask.type # "app direct"
  <2> DEFINE up == Adjusted("storage", 0, count, FALSE)
             unit == Alignment("storage", 0)
  <2>1. ask.type = "storage" /\ f = FindDimm(count, ask, FALSE) /\ p \in Dimms
    BY <1>6 DEF Types, Find, PlaceOf
  <2>2. up \in Nat /\ unit \in Nat /\ FALSE \in BOOLEAN
    BY AdjustedNat
  <2>3. up = cap
    BY <1>1, <2>1
  <2>4. (\E d \in Dimms : GoodAt(ns, ask, d, up)) =>
                 /\ f.rc = "found" /\ f.count = Quotient(up, "storage")
                 /\ \A d \in Dimms : GoodAt(ns, ask, d, up) => f.place <= d
    <3> DEFINE allow == FALSE
    <3>1. /\ allow \in BOOLEAN /\ f = FindDimm(count, ask, allow)
          /\ up = Adjusted("storage", 0, count, allow) /\ unit = Alignment("storage", 0)
      BY <2>1
    <3> HIDE DEF allow, up, unit
    <3>2. LET g == FindDimm(count, ask, allow)
          IN (\E d \in Dimms : GoodAt(ns, ask, d, up)) =>
                 /\ g.rc = "found" /\ g.count = Quotient(up, "storage")
                 /\ \A d \in Dimms : GoodAt(ns, ask, d, up) => g.place <= d
      BY <2>1, <2>2, <3>1, FindDimmSays
    <3> QED BY <3>1, <3>2
  <2> HIDE DEF up, unit
  <2>5. GoodAt(ns, ask, p, up)
    BY <1>4, <2>3
  <2>6. f.rc = "found" /\ f.count = Quotient(up, "storage") /\ f.place <= p
    BY <2>1, <2>4, <2>5
  <2> QED BY <1>3, <2>1, <2>3, <2>6
<1> QED BY <1>5, <1>6

\* What is found for the size that was asked for, which is not adjusted, is
\* that size or, for storage, less by a unit.
LEMMA FindNear ==
  ASSUME SoundIn(ns), NEW ask \in Asks, ask.type \in Types, NEW f, f = Find(ask.count, ask, FALSE), f.rc = "found"
  PROVE  Near(ask, f.place, f.count * Real(ask.type))
<1> DEFINE cap == f.count * Real(ask.type)
           asked == ask.count * Real(ask.type)
           unit == Alignment(ask.type, f.place)
<1>1. ask.count \in Nat /\ FALSE \in BOOLEAN
  BY DEF Asks
<1>2. f.place \in PlaceOf(ask.type) /\ GoodAt(ns, ask, f.place, cap)
  BY <1>1, FindGood
<1>3. unit \in Nat
  BY <1>2, PlacesAre, AlignmentIs
<1>4. asked \in Nat /\ \A s : Adjusted(ask.type, s, ask.count, FALSE) = asked
  <2> DEFINE real == Real(ask.type)
  <2>1. real \in Nat
    BY RealIs
  <2> HIDE DEF real
  <2>2. ask.count * real \in Nat
    BY <1>1, <2>1
  <2> QED BY <2>2 DEF Adjusted, real
<1>5. CASE ask.type = "app direct"
  <2> DEFINE x == Adjusted("app direct", f.place, ask.count, FALSE)
  <2>1. f = FindSet(ask.count, ask, FALSE)
    BY <1>5 DEF Find
  <2>2. GoodAt(ns, ask, f.place, x) /\ f.count = Quotient(x, "app direct")
    BY <1>1, <1>5, <2>1, FindSetSays
  <2>3. x = asked
    BY <1>4, <1>5
  <2> HIDE DEF x
  <2>4. x \in Int
    BY <2>3, <1>4
  <2>5. cap = x
    BY <1>2, <1>5, <2>2, <2>4, GoodIs
  <2> HIDE DEF cap, asked, unit
  <2>6. cap = asked
    BY <2>3, <2>5
  <2>7. asked - unit <= cap /\ cap <= asked + unit
    BY ONLY <2>6, <1>3, <1>4
  <2> QED BY <2>7 DEF Near, cap, asked, unit
<1>6. CASE ask.type # "app direct"
  <2> DEFINE up == Adjusted("storage", 0, ask.count, FALSE)
             by == Alignment("storage", 0)
  <2>1. ask.type = "storage" /\ f = FindDimm(ask.count, ask, FALSE)
    BY <1>6 DEF Types, Find
  <2>2. up \in Nat /\ by \in Nat
    BY <1>1, AdjustedNat
  <2>3. up = asked /\ by = unit
    BY <1>4, <2>1, DimmUnit
  <2>9. \E x \in {up, up - by} : GoodAt(ns, ask, f.place, x) /\ f.count = Quotient(x, "storage")
    <3> DEFINE allow == FALSE
               count == ask.count
    <3>1. allow \in BOOLEAN /\ count \in Nat /\ up = Adjusted("storage", 0, count, allow) /\ by = Alignment("storage", 0)
      BY <1>1
    <3>2. f = FindDimm(count, ask, allow)
      BY <2>1
    <3> HIDE DEF allow, count, up, by
    <3>3. LET g == FindDimm(count, ask, allow)
          IN g.rc = "found" => \E x \in {up, up - by} : GoodAt(ns, ask, g.place, x) /\ g.count = Quotient(x, "storage")
      BY <2>1, <2>2, <3>1, FindDimmSays
    <3> QED BY <3>2, <3>3
  <2> HIDE DEF up, by
  <2>4. PICK x \in {up, up - by} : GoodAt(ns, ask, f.place, x) /\ f.count = Quotient(x, "storage")
    BY <2>9
  <2>5. x \in Int
    BY <2>2
  <2>6. cap = x
    BY <1>2, <2>1, <2>4, <2>5, GoodIs
  <2> HIDE DEF cap, asked, unit
  <2>7. cap \in {asked, asked - unit}
    BY <2>3, <2>4, <2>6
  <2>8. asked - unit <= cap /\ cap <= asked + unit
    BY ONLY <2>7, <1>3, <1>4
  <2> QED BY <2>8 DEF Near, cap, asked, unit
<1> QED BY <1>5, <1>6

\* A creation refused for its size had no room.
LEMMA NoRoomIs ==
  ASSUME SoundIn(ns), NEW ask \in Asks, ask.type \in Types, NEW f, f = CheckCreate(ask.count, ask, TRUE),
         f.rc \in {"size", "too many"}, ~ ask.encryption, ~ ask.erase
  PROVE  NoRoom(ask, ns)
<1> DEFINE type == ask.type
           count == ask.count
           up(p) == Adjusted(type, p, count, TRUE)
           unit(p) == Alignment(type, p)
           fits(p, x) == FreeAt(ns, type, p) >= x /\ x >= MinimumSize(type, p)
           open(p) == type = "app direct" => OnIn(ns, "app direct", p) = {}
           capacity == count * SizeOfBlock(type)
           most == Largest(type)
           little == \E d \in Dimms : ask.count * SizeOfBlock("storage") <= DimmFree(ns, d)
<1>1. count \in Nat /\ \A p \in PlaceOf(type) : PlaceOK(type, p)
  BY PlacesAre DEF Asks
<1>2. \A p, x : fits(p, x) <=> SizeIsGood(type, p, x)
  BY FreeAtIs DEF SizeIsGood
<1>3. \/ most = 0 \/ capacity > most \/ f = Find(count, ask, TRUE)
  <2>1. TRUE \in BOOLEAN
    OBVIOUS
  <2> QED BY <1>1, <2>1, CheckCreateSays
<1>4. SUFFICES ASSUME NEW p \in PlaceOf(type), open(p)
               PROVE  ~ fits(p, up(p)) /\ (type = "storage" /\ little => ~ fits(p, up(p) - unit(p)))
  BY DEF NoRoom
<1>5. CASE f = Find(count, ask, TRUE)
  <2>1. CASE type = "app direct"
    <3>1. f = FindSet(count, ask, TRUE)
      BY <1>5, <2>1 DEF Find
    <3>2. f.rc \in {"found", "security", "size", "alignment"}
          /\ (f.rc = "size" => \A s \in Sets : OnIn(ns, "app direct", s) = {} => ~ SizeIsGood("app direct", s, up(s)))
      <4>1. TRUE \in BOOLEAN
        OBVIOUS
      <4> QED BY <1>1, <2>1, <3>1, <4>1, FindSetSays
    <3>3. f.rc = "size"
      BY <3>2
    <3>4. p \in Sets /\ OnIn(ns, "app direct", p) = {}
      BY <1>4, <2>1 DEF PlaceOf
    <3>5. ~ SizeIsGood(type, p, up(p))
      <4> HIDE DEF up
      <4> QED BY <2>1, <3>2, <3>3, <3>4
    <3> HIDE DEF fits, up, unit, little
    <3> QED BY <1>2, <2>1, <3>5
  <2>2. CASE type # "app direct"
    <3> DEFINE cap == Adjusted("storage", 0, count, TRUE)
               by == Alignment("storage", 0)
               allow == TRUE
    <3>1. type = "storage" /\ f = FindDimm(count, ask, TRUE) /\ p \in Dimms
      BY <1>5, <2>2 DEF Types, Find, PlaceOf
    <3>2. cap \in Nat /\ by \in Nat /\ allow \in BOOLEAN
      BY <1>1, AdjustedNat
    <3>3. cap = Adjusted("storage", 0, count, allow) /\ by = Alignment("storage", 0) /\ f = FindDimm(count, ask, allow)
      BY <3>1
    <3>8. up(p) = Adjusted("storage", p, count, allow) /\ unit(p) = Alignment("storage", p)
      BY <3>1
    <3> HIDE DEF cap, by, allow, up, unit
    <3>4. up(p) = cap /\ unit(p) = by
      BY <3>3, <3>8, DimmUnit
    <3>5. f.rc \in {"found", "security", "size", "alignment"}
           /\ (f.rc = "size" => \A d \in Dimms : ~ SizeIsGood("storage", d, cap) /\ ~ SizeIsGood("storage", d, cap - by))
      <4>1. LET g == FindDimm(count, ask, allow)
            IN /\ g.rc \in {"found", "security", "size", "alignment"}
               /\ g.rc = "size" => \A d \in Dimms : ~ SizeIsGood("storage", d, cap) /\ ~ SizeIsGood("storage", d, cap - by)
        <5> HIDE DEF count, fits, little, most, capacity, open
        <5>1. ask.type = "storage" /\ count \in Nat
          BY <1>1, <3>1
        <5> QED BY <5>1, <3>2, <3>3, FindDimmSays
      <4> QED BY <3>3, <4>1
    <3>6. f.rc = "size"
      BY <3>5
    <3>7. ~ SizeIsGood(type, p, cap) /\ ~ SizeIsGood(type, p, cap - by)
      BY <3>1, <3>5, <3>6
    <3> HIDE DEF fits, up, unit, little
    <3> QED BY <1>2, <3>4, <3>7
  <2> QED BY <2>1, <2>2
<1>6. CASE most = 0 \/ capacity > most
  <2> DEFINE free == FreeAt(ns, type, p)
             least == MinimumSize(type, p)
             asked == count * Real(type)
             x == up(p)
             y == x - unit(p)
  <2>1. most \in Nat /\ free \in Nat /\ free <= most
    <3>1. type = "app direct" => ~ Taken(p)
      BY <1>4, TakenIs
    <3> QED BY <3>1, LargestIs
  <2>2. x \in Nat /\ asked <= x /\ asked \in Nat /\ capacity \in Nat /\ capacity <= asked
    BY <1>1, SizesAre
  <2>3. least \in Nat \ {0} /\ unit(p) \in Nat
    BY <1>1, MinimumIs, AlignmentIs
  <2>4. type = "storage" /\ little => capacity <= most
    <3> SUFFICES ASSUME type = "storage", little PROVE capacity <= most
      OBVIOUS
    <3>1. PICK d \in Dimms : capacity <= DimmFree(ns, d)
      OBVIOUS
    <3>2. d \in PlaceOf(type) /\ FreeAt(ns, type, d) = DimmFree(ns, d) /\ type # "app direct"
      BY DEF PlaceOf, FreeAt
    <3>3. FreeAt(ns, type, d) \in Nat /\ FreeAt(ns, type, d) <= most
      BY <3>2, LargestIs
    <3> DEFINE z == DimmFree(ns, d)
    <3>4. z \in Nat /\ z <= most /\ capacity <= z
      BY <3>1, <3>2, <3>3
    <3> HIDE DEF z, most, capacity, asked, x
    <3> QED BY ONLY <3>4, <2>1, <2>2
  <2>5. fits(p, x) <=> free >= x /\ x >= least
    OBVIOUS
  <2>6. fits(p, y) <=> free >= y /\ y >= least
    OBVIOUS
  <2>7. y \in Int
    <3> DEFINE u == unit(p)
    <3>1. u \in Nat
      BY <2>3
    <3> HIDE DEF u, x
    <3>2. x - u \in Int
      BY ONLY <3>1, <2>2
    <3> QED BY <3>2 DEF u
  <2> HIDE DEF free, least, asked, x, y, most, capacity, fits, little
  <2>8. ~ (free >= x /\ x >= least)
    BY ONLY <1>6, <2>1, <2>2, <2>3
  <2>9. capacity <= most => ~ (free >= y /\ y >= least)
    <3> SUFFICES ASSUME capacity <= most PROVE ~ (free >= y /\ y >= least)
      OBVIOUS
    <3>0. capacity <= most
      OBVIOUS
    <3>1. most = 0
      BY ONLY <1>6, <2>1, <2>2, <3>0
    <3> QED BY ONLY <3>1, <2>1, <2>3, <2>7
  <2>10. ~ fits(p, x) /\ (type = "storage" /\ little => ~ fits(p, y))
    BY <2>4, <2>5, <2>6, <2>8, <2>9
  <2> QED BY <2>10 DEF x, y
<1> QED BY <1>3, <1>5, <1>6

-----------------------------------------------------------------------------
(* The steps of a creation *)

CheckedWith(r, count) == [r EXCEPT !.count = count, !.pc = "check"]
MadeWith(r, n) == [r EXCEPT !.pc = "driver", !.made = n]
CreatedWith(r, id) == [r EXCEPT !.pc = "told", !.answer = "ok", !.id = id]

LEMMA CreatingIs ==
  ASSUME NsInv, NEW c \in Clients, call[c].kind = "create"
  PROVE  /\ Keeps(call[c], DOMAIN ns) /\ call[c] \in CallsOf(DOMAIN ns) /\ CreateKeeps(call[c])
         /\ call[c].ask \in Asks /\ call[c].ask.type \in Types /\ call[c].count \in Nat
         /\ call[c].alone => CreateAlone(call[c], ns)
<1>1. Keeps(call[c], DOMAIN ns) /\ Alone(call[c], ns, used.faults)
  BY DEF NsInv
<1>2. call[c] \in CallsOf(DOMAIN ns) /\ CreateKeeps(call[c])
  BY <1>1 DEF Keeps
<1>3. call[c].ask \in Creates /\ call[c].count \in Nat
  BY <1>2 DEF CreateKeeps, CallsOf
<1>4. call[c].ask \in Asks /\ call[c].ask.type \in Types
  BY <1>3, AsksAssumption
<1> QED BY <1>1, <1>2, <1>3, <1>4 DEF Alone

LEMMA ToldCall ==
  ASSUME NEW I, NEW r, r \in CallsOf(I), NEW answer \in Outcomes
  PROVE  LET t == ToldWith(r, answer)
         IN t.kind = r.kind /\ t.alone = r.alone /\ t.pc = "told" /\ t.answer = answer /\ t.ask = r.ask
  BY AnsweredIs

LEMMA CreateTold ==
  ASSUME NsInv, NEW c \in Clients, call[c].kind = "create", NEW answer \in Outcomes, Told(c, answer),
         ns' = ns, Uses(used'),
         call[c].alone /\ answer \in {"ok", "size", "too many"} =>
           CreateAlone(ToldWith(call[c], answer), ns)
  PROVE  NsInv'
<1> DEFINE r == call[c]
           t == ToldWith(r, answer)
<1>1. Keeps(r, DOMAIN ns) /\ r \in CallsOf(DOMAIN ns) /\ CreateKeeps(r)
  BY CreatingIs
<1>2. r.pc # "idle"
  BY <1>1 DEF CreateKeeps
<1>3. SoundIn(ns') /\ DOMAIN ns' = DOMAIN ns
  BY SoundHere
<1>4. Alone(t, ns, used'.faults)
  <2>1. CASE answer \in {"ok", "size", "too many"}
    <3>1. t.kind = r.kind /\ t.alone = r.alone
      <4>1. r \in CallsOf(DOMAIN ns) /\ answer \in Outcomes
        BY <1>1
      <4> QED BY ONLY <4>1, ToldCall
    <3> HIDE DEF t
    <3>2. t.alone => CreateAlone(t, ns)
      BY <2>1, <3>1 DEF t
    <3> QED BY <3>1, <3>2 DEF Alone
  <2>2. CASE answer \notin {"ok", "size", "too many"}
    BY <1>1, <2>2, ToldNothing
  <2> QED BY <2>1, <2>2
<1> HIDE DEF t
<1>5. Alone(t, ns', used'.faults)
  BY <1>4
<1> QED BY <1>2, <1>3, <1>5, ToldStep DEF t

LEMMA AdjustKeeps ==
  ASSUME NsInv, NEW c \in Clients, Adjust(c)
  PROVE  NsInv'
<1> DEFINE r == call[c]
           ask == r.ask
           f == CheckCreate(r.count, ask, TRUE)
<1>1. r.kind = "create" /\ r.pc = "adjust" /\ ns' = ns /\ used' = used
  BY DEF Adjust
<1>2. /\ Keeps(r, DOMAIN ns) /\ r \in CallsOf(DOMAIN ns) /\ CreateKeeps(r) /\ ask \in Asks /\ ask.type \in Types
      /\ r.count \in Nat /\ (r.alone => CreateAlone(r, ns))
  BY <1>1, CreatingIs
<1>3. SoundIn(ns) /\ Uses(used) /\ SoundIn(ns') /\ Uses(used') /\ DOMAIN ns' = DOMAIN ns
  BY <1>1, SoundHere
<1>4. f.rc \in {"found", "security", "size", "alignment", "too many"} /\ (f.rc = "found" => f = Find(r.count, ask, TRUE))
  <2>1. TRUE \in BOOLEAN
    OBVIOUS
  <2> QED BY <1>2, <1>3, <2>1, CheckCreateSays
<1>5. \/ f.rc # "found" /\ Told(c, f.rc)
      \/ f.rc = "found" /\ call' = [call EXCEPT ![c].count = f.count, ![c].pc = "check"]
      \/ Told(c, "refused")
  BY DEF Adjust
<1>6. r.alone /\ ask.given => r.count = ask.count
  BY <1>1, <1>2 DEF CreateAlone
<1>7. CASE f.rc # "found" /\ Told(c, f.rc)
  <2> DEFINE answer == f.rc
             t == ToldWith(r, answer)
  <2>1. answer \in Outcomes /\ answer # "ok"
    BY <1>4, <1>7 DEF Outcomes
  <2>2. ASSUME r.alone, answer \in {"size", "too many"} PROVE CreateAlone(t, ns)
    <3>1. t.pc = "told" /\ t.answer = answer /\ t.ask = ask
      <4>1. r \in CallsOf(DOMAIN ns) /\ answer \in Outcomes
        BY <1>2, <2>1
      <4> HIDE DEF answer
      <4> QED BY ONLY <4>1, ToldCall DEF ask
    <3>2. ask.given /\ ~ ask.encryption /\ ~ ask.erase => NoRoom(ask, ns)
      <4> SUFFICES ASSUME ask.given, ~ ask.encryption, ~ ask.erase PROVE NoRoom(ask, ns)
        OBVIOUS
      <4>1. f = CheckCreate(ask.count, ask, TRUE)
        BY <1>6, <2>2
      <4> HIDE DEF f
      <4>2. f.rc \in {"size", "too many"}
        BY <2>2
      <4> QED BY <1>2, <1>3, <4>1, <4>2, NoRoomIs
    <3>3. answer # "ok"
      BY <2>1
    <3> HIDE DEF t, f, ask, answer
    <3> QED BY <3>1, <3>2, <3>3 DEF CreateAlone
  <2>3. r.alone /\ answer \in {"ok", "size", "too many"} => CreateAlone(t, ns)
    BY <2>1, <2>2
  <2>4. Told(c, answer)
    BY <1>7
  <2> HIDE DEF answer, f
  <2> QED BY <1>1, <1>3, <2>1, <2>3, <2>4, CreateTold
<1>8. CASE Told(c, "refused")
  <2>1. "refused" \in Outcomes /\ "refused" \notin {"ok", "size", "too many"}
    BY DEF Outcomes
  <2> QED BY <1>1, <1>3, <1>8, <2>1, CreateTold
<1>9. CASE f.rc = "found" /\ call' = [call EXCEPT ![c].count = f.count, ![c].pc = "check"]
  <2> DEFINE t == CheckedWith(r, f.count)
  <2>1. f = Find(r.count, ask, TRUE) /\ f.rc = "found"
    BY <1>4, <1>9
  <2>2. call' = [call EXCEPT ![c] = t]
    BY <1>9 DEF CheckedWith, NsInv
  <2> HIDE DEF f
  <2>3. f.place \in PlaceOf(ask.type) /\ f.count \in Nat /\ GoodAt(ns, ask, f.place, f.count * Real(ask.type))
    <3>1. TRUE \in BOOLEAN
      OBVIOUS
    <3> QED BY <1>2, <1>3, <2>1, <3>1, FindGood
  <2>4. /\ t \in CallsOf(DOMAIN ns) /\ t.pc = "check" /\ t.kind = "create" /\ t.ask = ask /\ t.todo = r.todo
        /\ t.count = f.count /\ t.alone = r.alone
    BY <1>1, <1>2, <2>3 DEF CheckedWith, CallsOf, Points
  <2> HIDE DEF t
  <2>5. Keeps(t, DOMAIN ns)
    <3>1. CreateKeeps(t)
      BY <1>2, <2>4 DEF CreateKeeps
    <3> QED BY <2>4, <3>1 DEF Keeps
  <2>6. Alone(t, ns, used.faults)
    <3> SUFFICES ASSUME r.alone, ask.given PROVE Ready(t, ns)
      <4>1. (t.alone /\ ask.given => Ready(t, ns)) => Alone(t, ns, used.faults)
        <5>1. ask.by = "cli"
          BY <1>1, <1>2 DEF CreateKeeps
        <5> HIDE DEF ask
        <5> QED BY <2>4, <5>1 DEF Alone, CreateAlone
      <4> QED BY <4>1, <2>4
    <3>1. f = Find(ask.count, ask, TRUE)
      BY <1>6, <2>1
    <3> DEFINE cap == f.count * Real(ask.type)
    <3>2. \A q \in PlaceOf(ask.type) : q <= f.place /\ GoodAt(ns, ask, q, cap) => Near(ask, q, cap)
      BY <1>2, <1>3, <2>1, <3>1, FindReady
    <3> HIDE DEF ask
    <3> QED BY <2>3, <2>4, <3>2 DEF Ready
  <2>7. NextIs(c, t)
    BY <1>1, <1>3, <2>2, <2>4, <2>5, <2>6 DEF NextIs
  <2> QED BY <1>1, <1>3, <2>7, StepKeeps
<1> QED BY <1>5, <1>7, <1>8, <1>9

\* A default name is that of no other namespace.
LEMMA DefaultNameIs ==
  ASSUME WellMade(ns)
  PROVE  DefaultName \in Int /\ \A i \in DOMAIN ns : ns[i] # NoNs => ns[i].name # DefaultName
<1> DEFINE name == [i \in Existing |-> ns[i].name]
           all == {name[i] : i \in Existing}
           S == {0} \cup (all \ {UserName})
<1>1. Existing \subseteq DOMAIN ns /\ \A i \in DOMAIN ns : ns[i] # NoNs <=> i \in Existing
  BY DEF Existing, Ids
<1>2. IsFiniteSet(Existing)
  BY <1>1, FS_Subset DEF WellMade
<1>3. \A i \in Existing : name[i] = ns[i].name /\ ns[i].name \in Int
  BY <1>1, NamespaceIs DEF WellMade
<1>4. all = {ns[i].name : i \in Existing}
  OBVIOUS
<1>5. DefaultName = Max(S) + 1
  BY <1>4 DEF DefaultName
<1> HIDE DEF name
<1>6. IsFiniteSet(all)
  BY <1>2, ImageFinite
<1>7. all \subseteq Int
  BY <1>3
<1>8. \A i \in Existing : ns[i].name \in all
  BY <1>3
<1> HIDE DEF all
<1>9. IsFiniteSet(all \ {UserName})
  BY <1>6, FS_Subset
<1>10. IsFiniteSet(S)
  BY <1>9, FS_AddElement
<1>11. S \subseteq Int /\ S # {} /\ 0 \in S
  <2>1. {0} \subseteq Int /\ 0 \in {0}
    OBVIOUS
  <2> DEFINE zero == {0}
             rest == all \ {UserName}
  <2>2. rest \subseteq Int
    BY <1>7
  <2>3. S = zero \cup rest
    OBVIOUS
  <2> HIDE DEF zero, rest, S
  <2> QED BY <2>1, <2>2, <2>3 DEF zero
<1>12. \A x \in all : x = UserName \/ x \in S
  OBVIOUS
<1> HIDE DEF S
<1>13. Max(S) \in S /\ \A y \in S : y <= Max(S)
  BY <1>10, <1>11, MaxOfFinite
<1> DEFINE m == Max(S)
<1>14. m \in Int /\ 0 <= m /\ \A y \in S : y <= m
  BY <1>11, <1>13
<1>15. DefaultName = m + 1
  BY <1>5
<1> HIDE DEF m
<1>16. \A x \in all : x # m + 1
  BY <1>7, <1>12, <1>14 DEF UserName
<1> QED BY <1>1, <1>8, <1>14, <1>15, <1>16

\* A size that is ready is found.
LEMMA ReadyFound ==
  ASSUME SoundIn(ns), NEW r, Ready(r, ns), r.ask \in Asks, r.ask.type \in Types, r.count \in Nat,
         NEW f, f = CheckCreate(r.count, r.ask, FALSE)
  PROVE  /\ f.rc = "found" /\ f.count = r.count
         /\ f.place \in PlaceOf(r.ask.type) /\ GoodAt(ns, r.ask, f.place, f.count * Real(r.ask.type))
         /\ Near(r.ask, f.place, f.count * Real(r.ask.type))
<1> DEFINE ask == r.ask
           type == ask.type
           cap == r.count * Real(type)
           most == Largest(type)
           capacity == r.count * SizeOfBlock(type)
           g == Find(r.count, ask, FALSE)
<1>0. FALSE \in BOOLEAN
  OBVIOUS
<1>1. PICK p \in PlaceOf(type) :
        /\ GoodAt(ns, ask, p, cap)
        /\ \A q \in PlaceOf(type) : q <= p /\ GoodAt(ns, ask, q, cap) => Near(ask, q, cap)
  BY DEF Ready
<1>2. PlaceOK(type, p)
  BY PlacesAre
<1>3. capacity \in Nat /\ capacity <= cap /\ cap \in Nat
  BY <1>2, SizesAre
<1>4. cap # 0 /\ FreeAt(ns, type, p) \in Nat /\ cap <= FreeAt(ns, type, p)
  <2>1. cap \in Int
    BY <1>3
  <2> HIDE DEF cap
  <2> QED BY <1>1, <2>1, GoodIs
<1>5. most \in Nat /\ FreeAt(ns, type, p) <= most
  <2>1. type = "app direct" => ~ Taken(p)
    BY <1>1, TakenIs DEF GoodAt
  <2> QED BY <2>1, LargestIs
<1>6. most # 0 /\ capacity <= most
  <2> DEFINE free == FreeAt(ns, type, p)
  <2> HIDE DEF free, most, capacity, cap
  <2>1. free \in Nat /\ cap <= free /\ free <= most
    BY <1>4, <1>5 DEF free
  <2> QED BY <2>1, <1>3, <1>4, <1>5
<1>7. f = g
  <2> HIDE DEF g
  <2> QED BY <1>0, <1>6, CheckCreateSays DEF g
<1>8. g.rc = "found" /\ g.count = r.count /\ g.place <= p
  BY <1>1, FindAgain
<1>9. g.place \in PlaceOf(type) /\ GoodAt(ns, ask, g.place, g.count * Real(type))
  BY <1>0, <1>8, FindGood
<1> HIDE DEF g
<1>10. Near(ask, g.place, cap)
  BY <1>1, <1>8, <1>9
<1> QED BY <1>7, <1>8, <1>9, <1>10

LEMMA MadeIs ==
  ASSUME SoundIn(ns), NEW ask \in Asks, ask.type \in Types, NEW place \in PlaceOf(ask.type), NEW count \in Nat,
         GoodAt(ns, ask, place, count * Real(ask.type)), NEW name \in Int, NEW n,
         n = [type |-> ask.type, place |-> place, count |-> count, on |-> TRUE, name |-> name]
  PROVE  /\ Sited(n) /\ WellSized(n) /\ Capacity(n) = count * Real(ask.type)
         /\ n.type = ask.type /\ n.place = place /\ n.name = name
         /\ Meets(DimmsOn(n.type, n.place), ask)
         /\ ask.type = "app direct" => OnIn(ns, "app direct", n.place) = {}
<1>1. place \in Nat /\ PlaceOK(ask.type, place)
  BY PlacesAre
<1>2. n.type = ask.type /\ n.place = place /\ n.name = name /\ n.count = count /\ n.on = TRUE
  OBVIOUS
<1>3. n \in Namespace
  BY <1>1 DEF Namespace
<1>4. Sited(n)
  BY <1>1, <1>2, <1>3 DEF Sited
<1>5. Capacity(n) = count * Real(ask.type)
  BY <1>2 DEF Capacity
<1> DEFINE cap == count * Real(ask.type)
<1> HIDE DEF cap
<1>6. /\ cap >= MinimumSize(ask.type, place) /\ cap % Alignment(ask.type, place) = 0 /\ Meets(DimmsOn(ask.type, place), ask)
      /\ ask.type = "app direct" => OnIn(ns, "app direct", place) = {}
  BY DEF GoodAt, cap
<1>7. Capacity(n) = cap
  BY <1>5 DEF cap
<1>8. WellSized(n)
  BY <1>2, <1>6, <1>7 DEF WellSized
<1> QED BY <1>2, <1>4, <1>5, <1>6, <1>8

LEMMA MadeWithIs ==
  ASSUME NEW I, NEW r, r \in CallsOf(I), NEW n \in Namespace
  PROVE  LET t == MadeWith(r, n)
         IN /\ t \in CallsOf(I) /\ t.pc = "driver" /\ t.made = n /\ t.kind = r.kind /\ t.ask = r.ask /\ t.todo = r.todo
            /\ t.alone = r.alone
<1> DEFINE ms == Namespace \cup {NoNs}
<1>1. n \in ms
  OBVIOUS
<1> HIDE DEF ms
<1>2. CallsOf(I) =
        [kind : {"idle", "create", "change", "delete"}, pc : Points, ask : Asks, todo : Seq(I), id : Nat, count : Nat,
         made : ms, old : ms, at : Nat, undo : BOOLEAN, answer : Outcomes, alone : BOOLEAN]
  BY DEF CallsOf, ms
<1>3. "driver" \in Points
  BY DEF Points
<1> DEFINE t == [r EXCEPT !.pc = "driver", !.made = n]
<1>4. t \in CallsOf(I)
  <2> DEFINE T == CallsOf(I)
  <2>1. "driver" \in Points /\ n \in ms /\ r \in T
    BY <1>1, <1>3
  <2>2. T = [kind : {"idle", "create", "change", "delete"}, pc : Points, ask : Asks, todo : Seq(I), id : Nat, count : Nat,
         made : ms, old : ms, at : Nat, undo : BOOLEAN, answer : Outcomes, alone : BOOLEAN]
    BY <1>2
  <2> HIDE DEF T
  <2>3. t \in T
    BY ONLY <2>1, <2>2
  <2> QED BY <2>3 DEF T
<1>5. t.pc = "driver" /\ t.made = n /\ t.kind = r.kind /\ t.ask = r.ask /\ t.todo = r.todo /\ t.alone = r.alone
  BY <1>2
<1> QED BY <1>4, <1>5 DEF MadeWith

LEMMA CheckKeeps ==
  ASSUME NsInv, NEW c \in Clients, Check(c)
  PROVE  NsInv'
<1> DEFINE r == call[c]
           ask == r.ask
           f == CheckCreate(r.count, ask, FALSE)
           name == IF ask.rename THEN UserName ELSE DefaultName
           n == [type |-> ask.type, place |-> f.place, count |-> f.count, on |-> TRUE, name |-> name]
<1>0. FALSE \in BOOLEAN
  OBVIOUS
<1>1. r.kind = "create" /\ r.pc = "check" /\ ns' = ns /\ used' = used
  BY DEF Check
<1>2. /\ Keeps(r, DOMAIN ns) /\ r \in CallsOf(DOMAIN ns) /\ CreateKeeps(r) /\ ask \in Asks /\ ask.type \in Types
      /\ r.count \in Nat /\ (r.alone => CreateAlone(r, ns))
  BY <1>1, CreatingIs
<1>3. SoundIn(ns) /\ WellMade(ns) /\ Uses(used) /\ SoundIn(ns') /\ Uses(used') /\ DOMAIN ns' = DOMAIN ns
  BY <1>1, SoundHere
<1>4. f.rc \in {"found", "security", "size", "alignment", "too many"} /\ (f.rc = "found" => f = Find(r.count, ask, FALSE))
  BY <1>0, <1>2, <1>3, CheckCreateSays
<1>5. \/ f.rc # "found" /\ Told(c, f.rc)
      \/ f.rc = "found" /\ call' = [call EXCEPT ![c].pc = "driver", ![c].made = n]
  BY DEF Check
<1>6. r.alone /\ ask.given => IF ask.by = "cli" THEN Ready(r, ns) ELSE r.count = ask.count
  BY <1>1, <1>2 DEF CreateAlone
<1>7. CASE f.rc # "found" /\ Told(c, f.rc)
  <2> DEFINE answer == f.rc
             t == ToldWith(r, answer)
  <2>1. answer \in Outcomes /\ answer # "ok"
    BY <1>4, <1>7 DEF Outcomes
  <2>2. ~ (r.alone /\ ask.given /\ ask.by = "cli")
    <3> SUFFICES ASSUME r.alone, ask.given, ask.by = "cli" PROVE FALSE
      OBVIOUS
    <3>1. Ready(r, ns)
      BY <1>6
    <3> HIDE DEF f
    <3>2. f.rc = "found"
      BY <1>2, <1>3, <3>1, ReadyFound DEF f
    <3> QED BY <1>7, <3>2
  <2>3. r.alone /\ answer \in {"ok", "size", "too many"} => CreateAlone(t, ns)
    <3>1. t.pc = "told" /\ t.answer = answer /\ t.ask = ask
      <4>1. r \in CallsOf(DOMAIN ns) /\ answer \in Outcomes
        BY <1>2, <2>1
      <4> HIDE DEF answer
      <4> QED BY ONLY <4>1, ToldCall DEF ask
    <3> HIDE DEF t, f, ask, answer
    <3> QED BY <3>1, <2>1, <2>2 DEF CreateAlone
  <2>4. Told(c, answer)
    BY <1>7
  <2> HIDE DEF answer, f
  <2> QED BY <1>1, <1>3, <2>1, <2>3, <2>4, CreateTold
<1>8. CASE f.rc = "found" /\ call' = [call EXCEPT ![c].pc = "driver", ![c].made = n]
  <2> DEFINE t == MadeWith(r, n)
  <2>1. f = Find(r.count, ask, FALSE) /\ f.rc = "found"
    BY <1>4, <1>8
  <2>2. call' = [call EXCEPT ![c] = t]
    BY <1>8 DEF MadeWith, NsInv
  <2>3. r.alone /\ ask.given => Near(ask, f.place, f.count * Real(ask.type))
    <3> SUFFICES ASSUME r.alone, ask.given PROVE Near(ask, f.place, f.count * Real(ask.type))
      OBVIOUS
    <3>1. CASE ask.by = "cli"
      <4>1. Ready(r, ns)
        BY <1>6, <3>1
      <4> HIDE DEF f
      <4> QED BY <1>2, <1>3, <4>1, ReadyFound DEF f
    <3>2. CASE ask.by # "cli"
      <4>1. r.count = ask.count
        BY <1>6, <3>2
      <4> HIDE DEF f
      <4>2. f = Find(ask.count, ask, FALSE)
        BY <2>1, <4>1
      <4> QED BY <1>2, <1>3, <2>1, <4>2, FindNear
    <3> QED BY <3>1, <3>2
  <2> HIDE DEF f
  <2>4. f.place \in PlaceOf(ask.type) /\ f.count \in Nat /\ GoodAt(ns, ask, f.place, f.count * Real(ask.type))
    BY <1>0, <1>2, <1>3, <2>1, FindGood
  <2>5. DefaultName \in Int /\ \A i \in DOMAIN ns : ns[i] # NoNs => ns[i].name # DefaultName
    BY <1>3, DefaultNameIs
  <2>6. name \in Int /\ (~ ask.rename => name = DefaultName)
    BY <2>5 DEF UserName
  <2> HIDE DEF name
  <2>7. /\ Sited(n) /\ WellSized(n) /\ Capacity(n) = f.count * Real(ask.type)
        /\ n.type = ask.type /\ n.place = f.place /\ n.name = name
        /\ Meets(DimmsOn(n.type, n.place), ask)
        /\ ask.type = "app direct" => OnIn(ns, "app direct", n.place) = {}
    BY <1>2, <1>3, <2>4, <2>6, MadeIs
  <2> HIDE DEF n
  <2>8. n \in Namespace
    BY <2>7 DEF Sited
  <2>9. /\ t \in CallsOf(DOMAIN ns) /\ t.pc = "driver" /\ t.made = n /\ t.kind = "create" /\ t.ask = ask /\ t.todo = r.todo
        /\ t.alone = r.alone
    BY <1>1, <1>2, <2>8, MadeWithIs
  <2> HIDE DEF t
  <2>10. Keeps(t, DOMAIN ns)
    <3>1. CreateKeeps(t)
      BY <1>2, <2>7, <2>9 DEF CreateKeeps
    <3> QED BY <2>9, <3>1 DEF Keeps
  <2>11. Alone(t, ns, used.faults)
    <3> SUFFICES ASSUME r.alone PROVE CreateAlone(t, ns)
      BY <2>9 DEF Alone
    <3>1. AsWanted(t, ns, n)
      BY <2>3, <2>7, <2>9 DEF AsWanted
    <3>2. ~ ask.rename => \A i \in DOMAIN ns : ns[i] # NoNs => ns[i].name # n.name
      BY <2>5, <2>6, <2>7
    <3> HIDE DEF ask
    <3> QED BY <2>7, <2>9, <3>1, <3>2 DEF CreateAlone
  <2>12. NextIs(c, t)
    BY <1>1, <1>3, <2>2, <2>9, <2>10, <2>11 DEF NextIs
  <2> QED BY <1>1, <1>3, <2>12, StepKeeps
<1> QED BY <1>5, <1>7, <1>8

LEMMA CreatedWithIs ==
  ASSUME NEW I, NEW r, r \in CallsOf(I), NEW id \in Nat
  PROVE  LET t == CreatedWith(r, id)
         IN /\ t \in CallsOf(I) /\ t.pc = "told" /\ t.answer = "ok" /\ t.id = id /\ t.kind = r.kind /\ t.ask = r.ask
            /\ t.todo = r.todo /\ t.alone = r.alone
  BY DEF CreatedWith, CallsOf, Points, Outcomes

LEMMA CreatePuts ==
  ASSUME NsInv, NEW c \in Clients, call[c].kind = "create", call[c].pc = "driver", Ids # Existing,
         NEW n, n = call[c].made, NEW id, id = Min(Ids \ Existing), Free(n.type, n.place) >= Capacity(n),
         ns' = [ns EXCEPT ![id] = n],
         call' = [call EXCEPT ![c].pc = "told", ![c].answer = "ok", ![c].id = id], used' = used
  PROVE  NsInv'
<1> DEFINE r == call[c]
           ask == r.ask
           t == CreatedWith(r, id)
           M == Changed(ns, id, n)
<1>1. /\ Keeps(r, DOMAIN ns) /\ r \in CallsOf(DOMAIN ns) /\ CreateKeeps(r) /\ ask \in Asks /\ ask.type \in Types
      /\ r.count \in Nat /\ (r.alone => CreateAlone(r, ns))
  BY CreatingIs
<1>2. SoundIn(ns) /\ WellMade(ns) /\ DOMAIN ns \subseteq Nat /\ Uses(used)
  BY SoundHere
<1>3. id \in DOMAIN ns /\ ns[id] = NoNs /\ id \in Nat
  <2> DEFINE S == Ids \ Existing
  <2>1. S \in SUBSET Nat /\ S # {}
    BY <1>2 DEF Ids, Existing
  <2> HIDE DEF S
  <2>2. Min(S) \in S
    BY <2>1, MinIsLeast
  <2>3. id \in S
    BY <2>2 DEF S
  <2> QED BY <1>2, <2>3 DEF S, Ids, Existing
<1>4. Sited(n) /\ WellSized(n)
  BY <1>1 DEF CreateKeeps
<1>5. n # NoNs /\ PlaceOK(n.type, n.place) /\ Capacity(n) \in Nat
  BY <1>4, NamespaceIs
<1>6. M = ns' /\ DOMAIN M = DOMAIN ns /\ M[id] = n /\ \A i \in DOMAIN ns : i # id => M[i] = ns[i]
  BY <1>2, <1>3 DEF Changed, WellMade
<1>7. SoundIn(M)
  <2> DEFINE type == n.type
             place == n.place
             had == PartOf(ns[id], type, place)
  <2>1. had = 0
    BY <1>3 DEF PartOf
  <2>2. FreeAt(ns, type, place) \in Nat
    BY <1>2, <1>5, PoolIsMost
  <2>3. Capacity(n) <= FreeAt(ns, type, place)
    BY FreeAtIs, <1>5, <2>2
  <2>4. Capacity(n) <= FreeAt(ns, type, place) + had
    <3> DEFINE free == FreeAt(ns, type, place)
               size0 == Capacity(n)
    <3>1. free \in Nat /\ size0 \in Nat /\ size0 <= free
      BY <1>5, <2>2, <2>3
    <3> HIDE DEF free, size0, had
    <3>2. size0 <= free + had
      BY ONLY <2>1, <3>1
    <3> QED BY <3>2 DEF free, size0
  <2> HIDE DEF had
  <2>5. type = n.type /\ place = n.place
    OBVIOUS
  <2> HIDE DEF type, place
  <2> QED BY <1>2, <1>3, <1>4, <2>4, <2>5, Put DEF had
<1>8. call' = [call EXCEPT ![c] = t]
  BY DEF CreatedWith, NsInv
<1>9. /\ t \in CallsOf(DOMAIN ns) /\ t.pc = "told" /\ t.answer = "ok" /\ t.id = id /\ t.kind = "create" /\ t.ask = ask
      /\ t.todo = r.todo /\ t.alone = r.alone
  BY <1>1, <1>3, CreatedWithIs
<1> HIDE DEF t
<1>10. Keeps(t, DOMAIN ns)
  <2>1. CreateKeeps(t)
    BY <1>1, <1>9 DEF CreateKeeps
  <2> QED BY <1>9, <2>1 DEF Keeps
<1> HIDE DEF M
<1>11. ASSUME r.alone PROVE CreateAlone(t, M)
  <2>1. /\ AsWanted(r, ns, n)
        /\ ask.type = "app direct" => OnIn(ns, "app direct", n.place) = {}
        /\ ~ ask.rename => \A i \in DOMAIN ns : ns[i] # NoNs => ns[i].name # n.name
    BY <1>1, <1>11 DEF CreateAlone
  <2>2. AsWanted(t, M, n) /\ n.type = ask.type
    BY <1>9, <2>1 DEF AsWanted
  <2>3. ask.type = "app direct" => OnIn(M, "app direct", n.place) = {id}
    <3> SUFFICES ASSUME ask.type = "app direct" PROVE OnIn(M, "app direct", n.place) = {id}
      OBVIOUS
    <3>1. id \in OnIn(M, "app direct", n.place)
      BY <1>3, <1>5, <1>6, <2>2 DEF OnIn
    <3>2. \A i \in OnIn(M, "app direct", n.place) : i = id
      <4> SUFFICES ASSUME NEW i \in OnIn(M, "app direct", n.place), i # id PROVE FALSE
        OBVIOUS
      <4>1. i \in OnIn(ns, "app direct", n.place)
        BY <1>6 DEF OnIn
      <4> QED BY <4>1, <2>1
    <3> QED BY <3>1, <3>2
  <2>4. ~ ask.rename => \A i \in DOMAIN M : i # id /\ M[i] # NoNs => M[i].name # n.name
    BY <1>6, <2>1
  <2> HIDE DEF ask
  <2> QED BY <1>3, <1>5, <1>6, <1>9, <2>2, <2>3, <2>4 DEF CreateAlone
<1>12. Alone(t, M, used.faults)
  BY <1>9, <1>11 DEF Alone
<1>13. NextIs(c, t)
  BY <1>6, <1>8, <1>9, <1>10, <1>12 DEF NextIs
<1>14. SoundIn(ns') /\ Uses(used')
  BY <1>2, <1>6, <1>7
<1> QED BY <1>13, <1>14, StepKeeps

LEMMA CreateStepKeeps ==
  ASSUME NsInv, NEW c \in Clients, Create(c)
  PROVE  NsInv'
<1> DEFINE n == call[c].made
           id == Min(Ids \ Existing)
<1>1. call[c].kind = "create" /\ call[c].pc = "driver"
  BY DEF Create
<1>2. \/ /\ Free(n.type, n.place) >= Capacity(n) /\ Ids # Existing /\ ns' = [ns EXCEPT ![id] = n]
         /\ call' = [call EXCEPT ![c].pc = "told", ![c].answer = "ok", ![c].id = id] /\ used' = used
      \/ Told(c, "failed") /\ ns' = ns /\ (used' = used \/ Fault)
  BY DEF Create
<1>3. CASE Told(c, "failed") /\ ns' = ns /\ (used' = used \/ Fault)
  <2>1. Uses(used')
    BY <1>3, SoundHere, Forms
  <2>2. "failed" \in Outcomes /\ "failed" \notin {"ok", "size", "too many"}
    BY DEF Outcomes
  <2> QED BY <1>1, <1>3, <2>1, <2>2, CreateTold
<1>4. CASE /\ Free(n.type, n.place) >= Capacity(n) /\ Ids # Existing /\ ns' = [ns EXCEPT ![id] = n]
           /\ call' = [call EXCEPT ![c].pc = "told", ![c].answer = "ok", ![c].id = id] /\ used' = used
  BY <1>1, <1>4, CreatePuts
<1> QED BY <1>2, <1>3, <1>4

-----------------------------------------------------------------------------
(* The invariant *)

LEMMA NamespacesBegin ==
  ASSUME Init
  PROVE  NsInv
<1>1. ns \in Starts /\ Sound /\ call = [c \in Clients |-> Idle] /\ used = [calls |-> 0, faults |-> 0]
  BY DEF Init
<1>2. /\ DOMAIN ns \subseteq Nat /\ IsFiniteSet(DOMAIN ns) /\ ns \in [DOMAIN ns -> Namespace \cup {NoNs}]
      /\ \A i \in DOMAIN ns : ns[i] # NoNs => ns[i].place \in PlaceOf(ns[i].type)
  BY <1>1, StartsAssumption
<1>3. ASSUME NEW i \in DOMAIN ns, ns[i] # NoNs PROVE Sited(ns[i]) /\ WellSized(ns[i])
  <2>1. ns[i] \in Namespace
    BY <1>2, <1>3
  <2>2. PlaceOK(ns[i].type, ns[i].place)
    BY <2>1, <1>2, <1>3 DEF PlaceOK, Namespace
  <2>3. i \in Existing
    BY <1>3 DEF Existing, Ids
  <2>4. WellSized(ns[i])
    BY <1>1, <2>3 DEF Sound
  <2> QED BY <2>1, <2>2, <2>4 DEF Sited
<1>4. WellMade(ns)
  BY <1>2, <1>3 DEF WellMade
<1>5. SoundIn(ns)
  BY <1>1, <1>4, SoundIs
<1>6. Uses(used)
  BY <1>1 DEF Uses
<1>7. \A c \in Clients : call[c] = Idle
  BY <1>1
<1>8. Idle.pc = "idle" /\ Keeps(Idle, DOMAIN ns) /\ Idle \in CallsOf(DOMAIN ns)
  BY IdleKeeps DEF Idle, Keeps
<1>9. call \in [Clients -> CallsOf(DOMAIN ns)]
  BY <1>1, <1>8
<1>10. Alone(Idle, ns, used.faults)
  BY <1>8, IdleAlone
<1> HIDE DEF NsInv
<1> QED BY <1>5, <1>6, <1>7, <1>8, <1>9, <1>10 DEF NsInv

LEMMA NamespacesStep ==
  ASSUME NsInv, Next
  PROVE  NsInv'
<1>1. PICK c \in Clients :
        \/ BeginCreate(c) \/ Adjust(c) \/ Check(c) \/ Create(c)
        \/ BeginChange(c) \/ BeginDelete(c) \/ Next1(c) \/ Size(c) \/ Modify(c) \/ Undo(c) \/ Delete(c)
        \/ Show(c)
  BY DEF Next
<1> QED BY <1>1, BeginCreateKeeps, AdjustKeeps, CheckKeeps, CreateStepKeeps, BeginListKeeps, Next1Keeps, SizeKeeps,
           ModifyKeeps, UndoKeeps, DeleteKeeps, ShowKeeps

LEMMA NamespacesStay ==
  ASSUME NsInv, UNCHANGED vars
  PROVE  NsInv'
<1>1. ns' = ns /\ call' = call /\ used' = used
  BY DEF vars
<1> QED BY <1>1 DEF NsInv

NoCalls == call = [c \in Clients |-> Idle]
NamespacesInv == (part = "goals" /\ NoCalls) \/ (part = "namespaces" /\ NsInv)

LEMMA NamespacesAlways == SpecAll => []NamespacesInv
<1>1. InitAll => NamespacesInv
  <2> SUFFICES ASSUME InitAll PROVE NamespacesInv
    OBVIOUS
  <2>1. CASE part = "goals" /\ NoNamespaces
    BY <2>1 DEF NamespacesInv, NoCalls, NoNamespaces
  <2>2. CASE part = "namespaces" /\ Init
    BY <2>2, NamespacesBegin DEF NamespacesInv
  <2> QED BY <2>1, <2>2 DEF InitAll
<1>2. NamespacesInv /\ [NextAll]_allVars => NamespacesInv'
  <2> SUFFICES ASSUME NamespacesInv, [NextAll]_allVars PROVE NamespacesInv'
    OBVIOUS
  <2>1. CASE UNCHANGED <<part, vars>>
    <3>1. part' = part /\ UNCHANGED vars
      BY <2>1
    <3>2. call' = call
      BY <3>1 DEF vars
    <3>3. CASE NoCalls /\ part = "goals"
      BY <3>1, <3>2, <3>3 DEF NamespacesInv, NoCalls
    <3>4. CASE NsInv /\ part = "namespaces"
      BY <3>1, <3>4, NamespacesStay DEF NamespacesInv
    <3> QED BY <3>3, <3>4 DEF NamespacesInv
  <2>2. CASE part = "namespaces" /\ Next /\ UNCHANGED <<part, goalVars>>
    <3>1. NsInv /\ part' = "namespaces"
      BY <2>2 DEF NamespacesInv
    <3> QED BY <2>2, <3>1, NamespacesStep DEF NamespacesInv
  <2>3. CASE part = "goals" /\ G!Next /\ UNCHANGED <<part, vars>>
    BY <2>1, <2>3
  <2>4. CASE UNCHANGED allVars
    BY <2>1, <2>4 DEF allVars
  <2> QED BY <2>2, <2>3, <2>4 DEF NextAll
<1> QED BY <1>1, <1>2, PTL DEF SpecAll

-----------------------------------------------------------------------------
(* What it says *)

LEMMA NoCallsGive ==
  ASSUME NoCalls
  PROVE  CreationExact /\ ChangedOrUndone
<1>1. \A c \in Clients : call[c].pc = "idle"
  BY DEF NoCalls, Idle
<1>2. \A kind : ToldAlone(kind) = {}
  BY <1>1 DEF ToldAlone
<1> QED BY <1>2 DEF CreationExact, CreatedAsAsked, RoomIsFound, ChangedOrUndone

LEMMA OnIs == \A t, p : On(t, p) = OnIn(ns, t, p)
  BY DEF On, OnIn, Existing, Ids

LEMMA CreatedGive ==
  ASSUME NsInv, NEW c \in ToldAlone("create"), call[c].answer = "ok"
  PROVE  LET n == ns[call[c].id]
             ask == call[c].ask
             unit == Alignment(n.type, n.place)
             asked == ask.count * Real(n.type)
             others == Existing \ {call[c].id}
         IN /\ Capacity(n) % unit = 0 /\ Capacity(n) >= MinimumSize(n.type, n.place)
            /\ ask.given => Capacity(n) \in (asked - unit)..(asked + unit)
            /\ Meets(DimmsAt(n), ask)
            /\ n.type = "app direct" => On(n.type, n.place) = {call[c].id}
            /\ ~ask.rename => \A i \in others : ns[i].name # n.name
<1> DEFINE r == call[c]
           n == ns[r.id]
           ask == r.ask
           unit == Alignment(n.type, n.place)
           asked == ask.count * Real(n.type)
<1>1. c \in Clients /\ r.kind = "create" /\ r.pc = "told" /\ r.alone
  BY DEF ToldAlone
<1>2. CreateAlone(r, ns) /\ ask \in Asks
  BY <1>1, CreatingIs
<1>3. /\ r.id \in DOMAIN ns /\ n # NoNs /\ AsWanted(r, ns, n)
      /\ ask.type = "app direct" => OnIn(ns, "app direct", n.place) = {r.id}
      /\ ~ ask.rename => \A i \in DOMAIN ns : i # r.id /\ ns[i] # NoNs => ns[i].name # n.name
  BY <1>1, <1>2 DEF CreateAlone
<1>4. Sited(n) /\ WellSized(n)
  BY <1>3, SoundHere
<1>5. Capacity(n) \in Nat /\ PlaceOK(n.type, n.place)
  BY <1>4, NamespaceIs
<1>6. unit \in Nat \ {0} /\ asked \in Nat
  <2>1. ask.count \in Nat
    BY <1>2 DEF Asks
  <2>2. asked \in Nat
    BY <1>5, <2>1, SizesAre
  <2> QED BY <1>5, <2>2, AlignmentIs
<1>7. n.type = ask.type /\ Meets(DimmsOn(n.type, n.place), ask) /\ (ask.given => Near(ask, n.place, Capacity(n)))
  BY <1>3 DEF AsWanted
<1>8. ask.given => Capacity(n) \in (asked - unit)..(asked + unit)
  <2> DEFINE cap == Capacity(n)
  <2>1. ask.given => asked - unit <= cap /\ cap <= asked + unit
    BY <1>7 DEF Near
  <2>2. cap \in Int
    BY <1>5
  <2>3. unit \in Int /\ asked \in Int
    BY <1>6
  <2> HIDE DEF cap, unit, asked, ask
  <2>4. ask.given => cap \in (asked - unit)..(asked + unit)
    BY ONLY <2>1, <2>2, <2>3
  <2> QED BY <2>4 DEF cap
<1>9. Meets(DimmsAt(n), ask)
  BY <1>7 DEF DimmsAt, DimmsOn
<1>10. n.type = "app direct" => On(n.type, n.place) = {r.id}
  BY <1>3, <1>7, OnIs
<1>11. ~ask.rename => \A i \in Existing \ {r.id} : ns[i].name # n.name
  BY <1>3 DEF Existing, Ids
<1>12. Capacity(n) % unit = 0 /\ Capacity(n) >= MinimumSize(n.type, n.place)
  BY <1>4 DEF WellSized
<1> QED BY <1>8, <1>9, <1>10, <1>11, <1>12

LEMMA RoomGive ==
  ASSUME NsInv, NEW c \in ToldAlone("create")
  PROVE  LET ask == call[c].ask
             capacity == ask.count * Real(ask.type)
             Places == IF ask.type = "storage" THEN Dimms ELSE {s \in Sets : ~Taken(s)}
             up(p) == RoundUp(capacity, Alignment(ask.type, p))
             tried == ask.type = "storage" /\ ask.count * SizeOfBlock(ask.type) <= Largest(ask.type)
             down(p) == IF tried /\ up(p) # capacity THEN up(p) - Alignment(ask.type, p) ELSE up(p)
         IN call[c].answer \in {"size", "too many"} /\ ask.given /\ ask.by = "cli"
              /\ ~ask.encryption /\ ~ask.erase
            => ~\E p \in Places : \E x \in {up(p), down(p)} : SizeIsGood(ask.type, p, x)
<1> DEFINE r == call[c]
           ask == r.ask
           type == ask.type
           capacity == ask.count * Real(type)
           Places == IF type = "storage" THEN Dimms ELSE {s \in Sets : ~Taken(s)}
           up(p) == RoundUp(capacity, Alignment(type, p))
           tried == type = "storage" /\ ask.count * SizeOfBlock(type) <= Largest(type)
           down(p) == IF tried /\ up(p) # capacity THEN up(p) - Alignment(type, p) ELSE up(p)
           had == r.answer \in {"size", "too many"} /\ ask.given /\ ask.by = "cli" /\ ~ask.encryption /\ ~ask.erase
<1>1. SUFFICES ASSUME had, NEW p \in Places PROVE ~ SizeIsGood(type, p, up(p)) /\ ~ SizeIsGood(type, p, down(p))
  OBVIOUS
<1>2. c \in Clients /\ r.kind = "create" /\ r.pc = "told" /\ r.alone
  BY DEF ToldAlone
<1>3. CreateAlone(r, ns) /\ ask \in Asks /\ type \in Types
  BY <1>2, CreatingIs
<1>4. NoRoom(ask, ns)
  BY <1>1, <1>2, <1>3 DEF CreateAlone
<1>5. p \in PlaceOf(type) /\ (type = "app direct" => OnIn(ns, "app direct", p) = {})
  <2>1. type = "storage" <=> type # "app direct"
    BY <1>3 DEF Types
  <2> QED BY <2>1, TakenIs DEF PlaceOf
<1> DEFINE x == Adjusted(type, p, ask.count, TRUE)
           unit == Alignment(type, p)
           fits(y) == FreeAt(ns, type, p) >= y /\ y >= MinimumSize(type, p)
           little == \E d \in Dimms : ask.count * SizeOfBlock("storage") <= DimmFree(ns, d)
<1>6. ~ fits(x) /\ (type = "storage" /\ x # capacity /\ little => ~ fits(x - unit))
  BY <1>4, <1>5 DEF NoRoom
<1>7. x = up(p)
  BY DEF Adjusted
<1>8. \A y : fits(y) <=> SizeIsGood(type, p, y)
  BY FreeAtIs DEF SizeIsGood
<1>9. tried => type = "storage" /\ little
  <2> SUFFICES ASSUME tried PROVE little
    OBVIOUS
  <2>1. type = "storage"
    OBVIOUS
  <2>2. SoundIn(ns)
    BY SoundHere
  <2>3. \E d \in Dimms : Largest(type) = DimmFree(ns, d)
    BY <1>3, <2>1, <2>2, LargestIs
  <2> QED BY <2>1, <2>3
<1>10. down(p) = IF tried /\ x # capacity THEN x - unit ELSE x
  BY <1>7
<1> HIDE DEF x, unit, fits, little, tried, down, up, capacity
<1>11. ~ SizeIsGood(type, p, x) /\ ~ SizeIsGood(type, p, down(p))
  BY <1>6, <1>8, <1>9, <1>10
<1> QED BY <1>7, <1>11

LEMMA ChangedGive ==
  ASSUME NsInv, NEW c \in ToldAlone("change")
  PROVE  LET n == ns[call[c].id]
         IN /\ call[c].answer = "failed" /\ (call[c].ask.by = "cli" \/ used.faults <= 1) => n = call[c].old
            /\ call[c].answer = "ok" =>
                 /\ n.name = Wanted(c).name /\ n.on = Wanted(c).on
                 /\ n.count = CheckModify(call[c].id, Wanted(c).count).count
<1> DEFINE r == call[c]
           n == ns[r.id]
           o == r.old
           w == WantedOf(r)
<1>1. c \in Clients /\ r.kind = "change" /\ r.pc = "told" /\ r.alone
  BY DEF ToldAlone
<1>2. Keeps(r, DOMAIN ns) /\ Alone(r, ns, used.faults)
  BY <1>1 DEF NsInv
<1>3. ChangeAlone(r, ns, used.faults) /\ r \in CallsOf(DOMAIN ns)
  BY <1>1, <1>2 DEF Alone, Keeps
<1>4. r.answer = "failed" /\ (r.ask.by = "cli" \/ used.faults <= 1) => n = o
  BY <1>1, <1>3 DEF ChangeAlone
<1>5. ASSUME r.answer = "ok"
      PROVE  n.name = w.name /\ n.on = w.on /\ n.count = CheckModify(r.id, w.count).count
  <2>1. r.id \in DOMAIN ns /\ Bound(r) /\ Same(n, o) /\ n.name = w.name /\ n.on = w.on /\ Done(r, n)
    BY <1>1, <1>3, <1>5 DEF ChangeAlone
  <2>2. n # NoNs /\ n.type = o.type /\ n.place = o.place /\ Sited(o)
    BY <2>1 DEF Same, Bound
  <2>3. Sited(n)
    BY <2>1, <2>2, SoundHere
  <2>4. w.count \in Nat
    BY <1>3, <2>2, WantedIs
  <2> DEFINE count == w.count
             up == Adjusted(n.type, n.place, count, TRUE)
  <2>5. n.count = CountOf(n.type, n.place, count) /\ up >= MinimumSize(n.type, n.place)
    BY <2>1, <2>2 DEF Done
  <2>6. PlaceOK(n.type, n.place) /\ Capacity(n) = n.count * Real(n.type)
    BY <2>3, NamespaceIs
  <2>7. Capacity(n) = up /\ up \in Nat
    BY <2>4, <2>5, <2>6, SizesAre
  <2>8. FreeAt(ns, n.type, n.place) \in Nat /\ PoolAt(ns) \in Nat
    BY <2>6, PoolIsMost, SoundHere
  <2>9. Free(n.type, n.place) \in Int /\ PoolFree \in Int
    <3>1. Free(n.type, n.place) \in Nat /\ PoolFree \in Nat
      BY <2>8, FreeIs, FreeAtIs
    <3> QED BY <3>1
  <2>10. up <= Capacity(n)
    <3> HIDE DEF up
    <3> QED BY <2>7
  <2> HIDE DEF count
  <2>11. CheckModify(r.id, count).count = CountOf(n.type, n.place, count)
    BY <2>3, <2>4, <2>5, <2>9, <2>10, CheckModifyFits DEF count
  <2> QED BY <2>1, <2>5, <2>11 DEF count
<1>6. Wanted(c) = w
  BY <1>1, Forms
<1> QED BY <1>4, <1>5, <1>6

\* A creation that succeeded undisturbed made what was asked for; one that
\* was refused for its size had no room.
THEOREM NamespacesAsAsked == SpecAll => []CreationExact
<1>1. NamespacesInv => CreationExact
  <2>1. NsInv => CreatedAsAsked
    BY CreatedGive DEF CreatedAsAsked
  <2>2. NsInv => RoomIsFound
    BY RoomGive DEF RoomIsFound
  <2> QED BY <2>1, <2>2, NoCallsGive DEF NamespacesInv, CreationExact
<1> QED BY <1>1, NamespacesAlways, PTL

\* A modification that failed undisturbed left the namespace as it was; one
\* that succeeded did all that was asked.
THEOREM ChangesUndone == SpecAll => []ChangedOrUndone
<1>1. NamespacesInv => ChangedOrUndone
  <2>1. NsInv => ChangedOrUndone
    BY ChangedGive DEF ChangedOrUndone
  <2> QED BY <2>1, NoCallsGive DEF NamespacesInv
<1> QED BY <1>1, NamespacesAlways, PTL
=============================================================================
