----------------------------- MODULE Namespaces -----------------------------
(***************************************************************************)
(* Creating, modifying and deleting namespaces: the checks of              *)
(* lib/namespace.c, the commands of cli/features/core/                     *)
(* NamespaceFeature_Namespaces.cpp with their prompts and their undo, and  *)
(* the methods of wbem/pmem_config/PersistentMemoryServiceFactory.cpp, by  *)
(* processes next to each other.                                           *)
(*                                                                         *)
(* Sizes are in small units; Page, Line and Minimum stand for 4096, 64 and *)
(* 1 GB.  One pool: app direct namespaces are on interleave sets, storage  *)
(* namespaces on DIMMs.  A check is one step, the change by the driver is  *)
(* another.  What the driver has free is external.                         *)
(***************************************************************************)
EXTENDS Integers, Sequences, FiniteSets, FiniteSetsExt, Functions

CONSTANTS
  Dimms,       \* DIMMs of the pool, by number
  Sets,        \* interleave sets, by number
  DimmsOf,     \* DIMMs of a set; a DIMM is in at most one
  SetSize,     \* app direct capacity of a set
  StorageSize, \* capacity of a DIMM outside its set
  Page, Line, Minimum,
  BlockSize,   \* block size of storage namespaces
  Encrypted,   \* DIMMs with encryption enabled
  EraseCapable,\* DIMMs that support erase
  Starts,      \* namespaces there can be at first
  Creates,     \* what creations ask for
  Changes,     \* what modifications ask for
  Clients,     \* processes that call
  MaxCalls,    \* bound on calls
  MaxFaults    \* bound on failures of the driver

ASSUME SetsAssumption ==
  /\ Dimms \subseteq Nat /\ Dimms # {} /\ IsFiniteSet(Dimms) /\ Sets \subseteq Nat /\ IsFiniteSet(Sets)
  /\ DimmsOf \in [Sets -> (SUBSET Dimms) \ {{}}]
  /\ \A s, t \in Sets : s # t => DimmsOf[s] \cap DimmsOf[t] = {}
ASSUME SizeAssumption ==
  /\ {Page, Line, BlockSize, Minimum} \subseteq Nat \ {0} /\ Minimum % Page = 0
  /\ SetSize \in [Sets -> Nat] /\ StorageSize \in [Dimms -> Nat]
  /\ \A s \in Sets : SetSize[s] % Cardinality(DimmsOf[s]) = 0

VARIABLES
  ns,    \* namespaces by identifier: NoNs or [type, place, count, name, on]
  call,  \* call of a client: its kind and locals
  used   \* calls and faults so far

vars == <<ns, call, used>>

NoNs == [type |-> "none", place |-> 0, count |-> 0, name |-> 0, on |-> FALSE]
NoAsk == [by |-> "cli", type |-> "none", count |-> 0, given |-> FALSE, encryption |-> FALSE,
          erase |-> FALSE, prompt |-> FALSE, rename |-> FALSE, on |-> "keep"]
Idle == [kind |-> "idle", pc |-> "idle", ask |-> NoAsk, todo |-> <<>>, id |-> 0, count |-> 0,
         made |-> NoNs, old |-> NoNs, at |-> 1, undo |-> FALSE, answer |-> "none", alone |-> TRUE]

Types == {"app direct", "storage"}
Asks == [by : {"cli", "cim"}, type : Types \cup {"none"}, count : Nat, given : BOOLEAN, encryption : BOOLEAN,
         erase : BOOLEAN, prompt : BOOLEAN, rename : BOOLEAN, on : {"keep", "on", "off"}]

\* The CIM service does not enable or disable.
ASSUME AsksAssumption ==
  /\ Creates \subseteq Asks /\ \A ask \in Creates : ask.type \in Types
  /\ Changes \subseteq Asks /\ \A ask \in Changes : ask.by = "cim" => ask.on = "keep"

Namespace == [type : Types, place : Nat, count : Nat, name : Int, on : BOOLEAN]
PlaceOf(type) == IF type = "app direct" THEN Sets ELSE Dimms
ASSUME StartsAssumption ==
  \A start \in Starts :
    /\ DOMAIN start \subseteq Nat /\ IsFiniteSet(DOMAIN start)
    /\ start \in [DOMAIN start -> Namespace \cup {NoNs}]
    /\ \A i \in DOMAIN start : start[i] # NoNs => start[i].place \in PlaceOf(start[i].type)

Ids == DOMAIN ns
Existing == {i \in Ids : ns[i] # NoNs}

-----------------------------------------------------------------------------
(* Sizes *)

RoundUp(n, unit) == IF n % unit = 0 THEN n ELSE n + unit - (n % unit)
Gcd(a, b) == Max({g \in 1..a : a % g = 0 /\ b % g = 0})

RealBlockSize(size) == IF size = 1 THEN 1 ELSE RoundUp(size, Line)
SizeOfBlock(type) == IF type = "app direct" THEN 1 ELSE BlockSize
Real(type) == RealBlockSize(SizeOfBlock(type))
Ways(type, place) == IF type = "app direct" THEN Cardinality(DimmsOf[place]) ELSE 1

Alignment(type, place) ==
  LET page == Page * Ways(type, place) IN (Real(type) \div Gcd(Real(type), page)) * page
MinimumSize(type, place) == Minimum * Ways(type, place)
Capacity(n) == n.count * Real(n.type)

\* adjust_namespace_block_count_if_allowed, as a capacity
Adjusted(type, place, count, allow) ==
  IF allow THEN RoundUp(count * Real(type), Alignment(type, place)) ELSE count * Real(type)

\* What the driver has free: storage namespaces take the capacity of a DIMM
\* outside its set first, then that of the set.
On(type, place) == {i \in Existing : ns[i].type = type /\ ns[i].place = place}
TakenOn(type, place) == SumFunction([i \in On(type, place) |-> Capacity(ns[i])])
Spill(d) == Max({0, TakenOn("storage", d) - StorageSize[d]})
FreeIn(s) ==
  SetSize[s] - TakenOn("app direct", s) - Cardinality(DimmsOf[s]) * Max({Spill(d) : d \in DimmsOf[s]})
FreeOn(d) ==
  StorageSize[d] - TakenOn("storage", d)
    + SumFunction([s \in {t \in Sets : d \in DimmsOf[t]} |->
                     (SetSize[s] - TakenOn("app direct", s)) \div Cardinality(DimmsOf[s])])
Free(type, place) == IF type = "app direct" THEN FreeIn(place) ELSE FreeOn(place)
PoolFree == SumFunction([d \in Dimms |-> FreeOn(d)])

\* interleave_set_has_namespace
Taken(s) == On("app direct", s) # {}
LargestAppDirect == Max({0} \cup {FreeIn(s) : s \in {t \in Sets : ~Taken(t)}})
LargestStorage == Max({FreeOn(d) : d \in Dimms})
Largest(type) == IF type = "app direct" THEN LargestAppDirect ELSE LargestStorage

-----------------------------------------------------------------------------
(* Where a namespace is created *)

DimmMeets(d, ask) ==
  (d \in Encrypted) = ask.encryption /\ (d \in EraseCapable) = ask.erase
Meets(D, ask) ==
  (~ask.encryption /\ ~ask.erase) \/ \A d \in D : DimmMeets(d, ask)

Found(place, capacity, type) == [rc |-> "found", place |-> place, count |-> capacity \div Real(type)]
NotFound(rc) == [rc |-> rc, place |-> 0, count |-> 0]

\* Mutant of SizeIsGood: the smallest size is not looked at.
SizeIsGoodAny(type, place, capacity) == Free(type, place) >= capacity

SizeIsGood(type, place, capacity) ==
  Free(type, place) >= capacity /\ capacity >= MinimumSize(type, place)

\* check_namespace_capacity_and_security: the error is that of the last DIMM.
CheckDimms(capacity, ask) ==
  LET Good == {d \in Dimms : SizeIsGood("storage", d, capacity) /\ Meets({d}, ask)}
  IN IF Good # {} THEN Found(Min(Good), capacity, "storage")
     ELSE NotFound(IF SizeIsGood("storage", Max(Dimms), capacity) THEN "security" ELSE "size")

\* Mutant of FindDimm: no second try with the size rounded down.
FindDimmOnce(count, ask, allow) ==
  LET capacity == Adjusted("storage", 0, count, allow)
  IN IF capacity % Alignment("storage", 0) # 0 THEN NotFound("alignment") ELSE CheckDimms(capacity, ask)

\* find_dimm_with_capacity: a size that is too big is rounded down.
FindDimm(count, ask, allow) ==
  LET capacity == Adjusted("storage", 0, count, allow)
      unit == Alignment("storage", 0)
      first == CheckDimms(capacity, ask)
  IN CASE capacity % unit # 0 -> NotFound("alignment")
       [] capacity % unit = 0 /\ first.rc = "size" -> CheckDimms(capacity - unit, ask)
       [] OTHER -> first

\* find_interleave_with_capacity
FindSet(count, ask, allow) ==
  LET capacity(s) == Adjusted("app direct", s, count, allow)
      aligned(s) == capacity(s) % Alignment("app direct", s) = 0
      Open == {s \in Sets : ~Taken(s) /\ SizeIsGood("app direct", s, capacity(s))}
      Good == {s \in Open : Meets(DimmsOf[s], ask) /\ aligned(s)}
  IN CASE Good # {} -> Found(Min(Good), capacity(Min(Good)), "app direct")
       [] Good = {} /\ Open # {} /\ ~\E s \in Open : aligned(s) -> NotFound("alignment")
       [] OTHER -> NotFound(IF Open # {} THEN "security" ELSE "size")

Find(count, ask, allow) ==
  IF ask.type = "app direct" THEN FindSet(count, ask, allow) ELSE FindDimm(count, ask, allow)

\* validate_namespace_create_settings and validate_ns_size_for_creation
CheckCreate(count, ask, allow) ==
  LET capacity == count * SizeOfBlock(ask.type)
  IN CASE Largest(ask.type) = 0 -> NotFound("too many")
       [] Largest(ask.type) # 0 /\ (capacity > PoolFree \/ capacity > Largest(ask.type)) -> NotFound("size")
       [] OTHER -> Find(count, ask, allow)

\* The name users give; default names, NvDimmVolN, are positive numbers.
UserName == -1

\* nvm_create_namespace: one above the highest in use
DefaultName == Max({0} \cup ({ns[i].name : i \in Existing} \ {UserName})) + 1

\* validate_namespace_size_for_modification and those it calls
CheckModify(id, count) ==
  LET n == ns[id]
      asked == count * SizeOfBlock(n.type)
      capacity == Adjusted(n.type, n.place, count, TRUE)
      TooBig == \/ asked > Capacity(n) /\ PoolFree < asked - Capacity(n)
                \/ capacity > Capacity(n) /\ Free(n.type, n.place) < capacity - Capacity(n)
  IN IF n = NoNs THEN NotFound("gone")
     ELSE IF TooBig \/ capacity < MinimumSize(n.type, n.place) THEN NotFound("size")
     ELSE Found(n.place, capacity, n.type)

-----------------------------------------------------------------------------
(* Calls *)

Step(c, pc) == call' = [call EXCEPT ![c].pc = pc]
Told(c, answer) == call' = [call EXCEPT ![c].pc = "told", ![c].answer = answer]
Fault == used.faults < MaxFaults /\ used' = [used EXCEPT !.faults = @ + 1]

\* A call is alone when no other one overlaps with it.
Begin(c, new) ==
  /\ call[c].pc = "idle" /\ used.calls < MaxCalls
  /\ LET alone == \A d \in Clients \ {c} : call[d].pc = "idle"
     IN call' = [d \in Clients |-> IF d = c THEN [new EXCEPT !.alone = alone]
                                   ELSE [call[d] EXCEPT !.alone = @ /\ call[d].pc = "idle"]]
  /\ used' = [used EXCEPT !.calls = @ + 1]
  /\ UNCHANGED ns

\* createNamespace of the command line after parsing: no count means the
\* largest.  AllocateFromPool of the CIM service asks for a count as it is.
BeginCreate(c) ==
  \E ask \in Creates :
    Begin(c, [Idle EXCEPT !.kind = "create", !.ask = ask,
                          !.pc = IF ask.by = "cli" THEN "adjust" ELSE "check",
                          !.count = IF ask.given THEN ask.count ELSE Largest(ask.type) \div Real(ask.type)])

\* getAdjustedCreateNamespaceBlockCount, and what the user is asked after it
Adjust(c) ==
  /\ call[c].kind = "create" /\ call[c].pc = "adjust"
  /\ LET ask == call[c].ask
         f == CheckCreate(call[c].count, ask, TRUE)
         prompts == ask.prompt /\ (\/ ask.given /\ f.count # call[c].count
                                   \/ Real(ask.type) # SizeOfBlock(ask.type))
     IN IF f.rc # "found" THEN Told(c, f.rc)
        ELSE \/ call' = [call EXCEPT ![c].count = f.count, ![c].pc = "check"]
             \/ prompts /\ Told(c, "refused")
  /\ UNCHANGED <<ns, used>>

\* nvm_create_namespace up to the driver
Check(c) ==
  /\ call[c].kind = "create" /\ call[c].pc = "check"
  /\ LET ask == call[c].ask
         f == CheckCreate(call[c].count, ask, FALSE)
     IN IF f.rc # "found" THEN Told(c, f.rc)
        ELSE call' = [call EXCEPT ![c].pc = "driver", ![c].made =
                [type |-> ask.type, place |-> f.place, count |-> f.count, on |-> TRUE,
                 name |-> IF ask.rename THEN UserName ELSE DefaultName]]
  /\ UNCHANGED <<ns, used>>

\* create_namespace of the driver, which refuses what it has no room or no
\* identifier for
Create(c) ==
  /\ call[c].kind = "create" /\ call[c].pc = "driver"
  /\ LET n == call[c].made
         id == Min(Ids \ Existing)
         room == Free(n.type, n.place) >= Capacity(n) /\ Ids # Existing
     IN \/ /\ room
           /\ ns' = [ns EXCEPT ![id] = n]
           /\ call' = [call EXCEPT ![c].pc = "told", ![c].answer = "ok", ![c].id = id]
           /\ UNCHANGED used
        \/ ~room /\ Told(c, "failed") /\ UNCHANGED <<ns, used>>
        \/ Fault /\ Told(c, "failed") /\ UNCHANGED ns

-----------------------------------------------------------------------------
(* Modifying and deleting: the command line goes through a list *)

Lists == {<<i>> : i \in Existing} \cup {<<p[1], p[2]>> : p \in {q \in Existing \X Existing : q[1] < q[2]}}

BeginChange(c) ==
  \E ask \in Changes, ids \in Lists :
    /\ ask.by = "cim" => Len(ids) = 1
    /\ Begin(c, [Idle EXCEPT !.kind = "change", !.ask = ask, !.pc = "next", !.count = ask.count,
                             !.todo = ids])
BeginDelete(c) ==
  \E ids \in Lists : Begin(c, [Idle EXCEPT !.kind = "delete", !.pc = "next", !.todo = ids])

\* The next namespace of the list, which the user may skip: its details.
Next1(c) ==
  /\ call[c].pc = "next"
  /\ LET id == Head(call[c].todo)
         to == [call[c] EXCEPT !.id = id, !.old = ns[id], !.todo = Tail(@), !.at = 1, !.undo = FALSE]
     IN \/ call' = [call EXCEPT ![c] = IF ns[id] = NoNs THEN [to EXCEPT !.pc = "told", !.answer = "gone"]
                                      ELSE [to EXCEPT !.pc = IF to.kind = "delete" THEN "driver" ELSE "size"]]
        \/ to.ask.prompt /\ call' = [call EXCEPT ![c] = [to EXCEPT !.pc = "told", !.answer = "refused"]]
  /\ UNCHANGED <<ns, used>>

\* isBlockCountAligned: the count that fits this namespace is what the next
\* one of the list is then asked to have.  The CIM service goes on with the
\* count it was given.
Size(c) ==
  /\ call[c].pc = "size"
  /\ LET f == CheckModify(call[c].id, call[c].count)
     IN IF call[c].ask.given /\ call[c].ask.by = "cli"
        THEN \/ f.rc # "found" /\ Told(c, f.rc)
             \/ f.rc = "found" /\ call' = [call EXCEPT ![c].count = f.count, ![c].pc = "parts"]
             \/ f.rc = "found" /\ f.count # call[c].count /\ call[c].ask.prompt /\ Told(c, "refused")
        ELSE Step(c, "parts")
  /\ UNCHANGED <<ns, used>>

\* What is changed, in which order: atomicModifyNamespace and
\* performAtomicModification
Order(c) == CASE call[c].ask.by = "cli" -> <<"name", "count", "on">>
              [] call[c].ask.by = "cim" /\ ~call[c].undo -> <<"count", "name">>
              [] OTHER -> <<"name", "count">>

Wanted(c) ==
  LET ask == call[c].ask
  IN [call[c].old EXCEPT !.count = IF ask.given THEN call[c].count ELSE @,
                         !.name = IF ask.rename THEN UserName ELSE @,
                         !.on = IF ask.on = "keep" THEN @ ELSE ask.on = "on"]

Asked(ask, part) ==
  CASE part = "name" -> ask.rename
    [] part = "count" -> ask.given
    [] part = "on" -> ask.on # "keep"

\* Mutant of Writes: the undo leaves the count.
WritesNoCount(c, part) ==
  IF call[c].undo THEN part # "count" /\ call[c].made[part] # call[c].old[part]
                  ELSE Asked(call[c].ask, part)

\* The command line writes what it was given, the CIM service what differs.
\* The undo of the first restores what differs in the details read after the
\* failure, that of the second what it was to change.
Writes(c, part) ==
  CASE call[c].undo -> call[c].made[part] # call[c].old[part]
    [] ~call[c].undo /\ call[c].ask.by = "cli" -> Asked(call[c].ask, part)
    [] OTHER -> call[c].old[part] # Wanted(c)[part]

Fail(c) ==
  CASE call[c].undo -> Told(c, IF call[c].ask.by = "cli" THEN "undo failed" ELSE "failed")
    [] ~call[c].undo /\ call[c].ask.by = "cim" ->
         call' = [call EXCEPT ![c].undo = TRUE, ![c].at = 1, ![c].made = Wanted(c)]
    [] OTHER -> Step(c, "undo")

Advance(c) ==
  IF call[c].at < Len(Order(c)) THEN call' = [call EXCEPT ![c].at = @ + 1]
  ELSE Told(c, IF call[c].undo THEN "failed" ELSE "ok")

\* One call of the library: the name, the count, which is checked again, or
\* the state.  Its check and that of the driver are one step, as what is
\* written does not depend on what is free.
Modify(c) ==
  /\ call[c].pc = "parts"
  /\ LET part == Order(c)[call[c].at]
         id == call[c].id
         to == IF call[c].undo THEN call[c].old ELSE Wanted(c)
         f == CheckModify(id, to.count)
         fails == ns[id] = NoNs \/ (part = "count" /\ f.rc # "found")
     IN IF ~Writes(c, part) THEN Advance(c) /\ UNCHANGED <<ns, used>>
        ELSE \/ fails /\ Fail(c) /\ UNCHANGED <<ns, used>>
             \/ Fault /\ Fail(c) /\ UNCHANGED ns
             \/ /\ ~fails /\ Advance(c) /\ UNCHANGED used
                /\ ns' = [ns EXCEPT ![id] = [@ EXCEPT ![part] = IF part = "count" THEN f.count ELSE to[part]]]

\* undoModifyNamespace: the details now
Undo(c) ==
  /\ call[c].pc = "undo"
  /\ IF ns[call[c].id] = NoNs THEN Told(c, "undo failed")
     ELSE call' = [call EXCEPT ![c].pc = "parts", ![c].undo = TRUE, ![c].at = 1, ![c].made = ns[call[c].id]]
  /\ UNCHANGED <<ns, used>>

Delete(c) ==
  /\ call[c].kind = "delete" /\ call[c].pc = "driver"
  /\ \/ ns[call[c].id] = NoNs /\ Told(c, "gone") /\ UNCHANGED <<ns, used>>
     \/ Fault /\ Told(c, "failed") /\ UNCHANGED ns
     \/ /\ ns[call[c].id] # NoNs /\ ns' = [ns EXCEPT ![call[c].id] = NoNs]
        /\ Told(c, "ok") /\ UNCHANGED used

\* The result is shown, and the list goes on.
Show(c) ==
  /\ call[c].pc = "told"
  /\ call' = [call EXCEPT ![c] = IF @.todo = <<>> THEN Idle ELSE [@ EXCEPT !.pc = "next"]]
  /\ UNCHANGED <<ns, used>>

-----------------------------------------------------------------------------
\* What the library leaves: namespaces are aligned and not too small, and
\* take no more than there is.
WellSized(n) == Capacity(n) % Alignment(n.type, n.place) = 0 /\ Capacity(n) >= MinimumSize(n.type, n.place)
Sound ==
  /\ \A i \in Existing : WellSized(ns[i])
  /\ \A s \in Sets : FreeIn(s) >= 0
  /\ \A d \in Dimms : FreeOn(d) >= 0

Init ==
  /\ ns \in Starts /\ Sound
  /\ call = [c \in Clients |-> Idle]
  /\ used = [calls |-> 0, faults |-> 0]

Next ==
  \E c \in Clients :
    \/ BeginCreate(c) \/ Adjust(c) \/ Check(c) \/ Create(c)
    \/ BeginChange(c) \/ BeginDelete(c) \/ Next1(c) \/ Size(c) \/ Modify(c) \/ Undo(c) \/ Delete(c)
    \/ Show(c)

Spec == Init /\ [][Next]_vars

-----------------------------------------------------------------------------
(* Properties *)

DimmsAt(n) == IF n.type = "app direct" THEN DimmsOf[n.place] ELSE {n.place}
ToldAlone(kind) == {c \in Clients : call[c].kind = kind /\ call[c].pc = "told" /\ call[c].alone}

\* A creation that nothing overlaps with and that succeeds has made a
\* namespace that is aligned, not smaller than the least size and less than
\* one unit off what was asked for, on DIMMs with the security asked for,
\* the only one of its interleave set and the only one of its default name.
CreatedAsAsked ==
  \A c \in ToldAlone("create") : call[c].answer = "ok" =>
    LET n == ns[call[c].id]
        ask == call[c].ask
        unit == Alignment(n.type, n.place)
        asked == ask.count * Real(n.type)
        others == Existing \ {call[c].id}
    IN /\ Capacity(n) % unit = 0 /\ Capacity(n) >= MinimumSize(n.type, n.place)
       /\ ask.given => Capacity(n) \in (asked - unit)..(asked + unit)
       /\ Meets(DimmsAt(n), ask)
       /\ n.type = "app direct" => On(n.type, n.place) = {call[c].id}
       /\ ~ask.rename => \A i \in others : ns[i].name # n.name

\* A creation from the command line is refused for its size only when no
\* place has room: not for the size rounded up, nor, for storage, down (that
\* is tried only if what is asked for is not more than the largest there is).
RoomIsFound ==
  \A c \in ToldAlone("create") :
    LET ask == call[c].ask
        capacity == ask.count * Real(ask.type)
        Places == IF ask.type = "storage" THEN Dimms ELSE {s \in Sets : ~Taken(s)}
        up(p) == RoundUp(capacity, Alignment(ask.type, p))
        tried == ask.type = "storage" /\ ask.count * SizeOfBlock(ask.type) <= Largest(ask.type)
        down(p) == IF tried /\ up(p) # capacity THEN up(p) - Alignment(ask.type, p) ELSE up(p)
    IN call[c].answer \in {"size", "too many"} /\ ask.given /\ ask.by = "cli"
         /\ ~ask.encryption /\ ~ask.erase
       => ~\E p \in Places : \E x \in {up(p), down(p)} : SizeIsGood(ask.type, p, x)

\* Creation succeeds as asked, and when it can.
CreationExact == CreatedAsAsked /\ RoomIsFound

\* A modification that nothing overlaps with and that fails without saying
\* that its undo failed has left the namespace as it was; one that succeeds
\* has done all that was asked.  The undo of the CIM service does not say
\* that it failed: two failures are left out for it.
ChangedOrUndone ==
  \A c \in ToldAlone("change") :
    LET n == ns[call[c].id]
    IN /\ call[c].answer = "failed" /\ (call[c].ask.by = "cli" \/ used.faults <= 1) => n = call[c].old
       /\ call[c].answer = "ok" =>
            /\ n.name = Wanted(c).name /\ n.on = Wanted(c).on
            /\ n.count = CheckModify(call[c].id, Wanted(c).count).count

\* Each namespace of a list gets the count asked for, aligned for itself:
\* the prompt says what the capacity asked for is changed to.
EachAsAsked ==
  \A c \in ToldAlone("change") :
    call[c].answer = "ok" /\ call[c].ask.given
      => ns[call[c].id].count = CheckModify(call[c].id, call[c].ask.count).count
=============================================================================
