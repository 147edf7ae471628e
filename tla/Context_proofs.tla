--------------------------- MODULE Context_proofs ---------------------------
(***************************************************************************)
(* Proofs about what processes cache of the hardware (MCContext): the      *)
(* lists and details of namespaces (NvmContext, N! here), and the platform *)
(* config data of a DIMM (PlatformConfig).                                 *)
(***************************************************************************)
EXTENDS MCContext, FiniteSetTheorems, SequenceTheorems, TLAPS

-----------------------------------------------------------------------------
(* Namespaces *)

Places == {"idle", "create", "list", "listFetch", "listStore", "details", "detailsFetch",
           "detailsStore", "change", "invalidate", "pools", "poolsFetch", "poolsStore"}

\* The variables of the threads; a context has its three parts.
Shape ==
  /\ driver \in [Namespaces -> Nat] /\ clock \in Nat
  /\ at \in [Threads -> Places]
  /\ goal \in [Threads -> {"return", "change"}]
  /\ room \in [Threads -> Nat]
  /\ DOMAIN arg = Threads /\ DOMAIN got = Threads /\ DOMAIN result = Threads
  /\ overran \in BOOLEAN /\ raced \in BOOLEAN
  /\ ctx # NoContext => DOMAIN ctx = {"list", "details", "pools"} /\ DOMAIN ctx.details = Namespaces
  /\ \A t \in Threads :
       at[t] \in {"details", "detailsFetch", "detailsStore", "change", "invalidate"}
         => arg[t] \in Namespaces

\* While a change has not reached the cache nobody reads.
Apart ==
  ~raced => \A t, u \in Threads : at[t] = "invalidate" => ~N!Reading(u)

\* What is cached is the driver's.
ListFresh == ~raced /\ N!NoneBetween /\ N!Cached("list") => ctx.list = N!Now
DetailsFresh ==
  ~raced /\ N!NoneBetween /\ ctx # NoContext =>
    \A n \in Namespaces : ctx.details[n] # Nothing => ctx.details[n].version = driver[n]

\* What a thread has read of the driver is still so.
ReadFresh(t) ==
  ~raced =>
    /\ at[t] \in {"list", "listFetch", "listStore"} => room[t] = N!Cardinality(N!Present)
    /\ at[t] = "listStore" => got[t] = N!Now
    /\ at[t] = "detailsStore" => got[t].version = driver[arg[t]]

\* Every list that is kept or handed out is one the driver had.
ListsWhole ==
  /\ N!Now \in snapshots
  /\ N!Cached("list") => ctx.list \in snapshots
  /\ \A t \in Threads : at[t] = "listStore" => got[t] \in snapshots
  /\ N!ListWhole

NsInv ==
  /\ Shape /\ Apart /\ ListFresh /\ DetailsFresh
  /\ \A t \in Threads : ReadFresh(t)
  /\ ListsWhole /\ N!NoOverrun

-----------------------------------------------------------------------------

\* The instance of NvmContext counts as this module does.
LEMMA SameCount ==
  ASSUME NEW S
  PROVE  N!Cardinality(S) = Cardinality(S)
BY Zenon DEF N!Cardinality, Cardinality

\* A list has one entry for each namespace that exists.
LEMMA OneEntryEach ==
  /\ N!Cardinality(N!Now) = N!Cardinality(N!Present)
  /\ N!Cardinality(N!Now) \in Nat
<1> DEFINE f == [n \in N!Present |-> <<n, driver[n]>>]
<1>1. N!Present \subseteq Namespaces BY DEF N!Present
<1>2. IsFiniteSet(N!Present) BY <1>1, NamespacesAssumption, FS_Subset
<1>3. f \in Bijection(N!Present, N!Now)
  <2>1. f \in [N!Present -> N!Now] BY DEF N!Now
  <2>2. \A m, n \in N!Present : f[m] = f[n] => m = n OBVIOUS
  <2>3. \A e \in N!Now : \E n \in N!Present : f[n] = e BY DEF N!Now
  <2> HIDE DEF f
  <2>4. QED BY <2>1, <2>2, <2>3 DEF Bijection, Injection, Surjection, IsInjective
<1>4. ExistsBijection(N!Present, N!Now) BY <1>3 DEF ExistsBijection
<1>5. IsFiniteSet(N!Now) /\ Cardinality(N!Now) = Cardinality(N!Present)
  BY <1>2, <1>4, FS_Bijection
<1>6. Cardinality(N!Now) \in Nat BY <1>5, FS_CardinalityType
<1>7. QED BY <1>5, <1>6, SameCount

\* The invariant holds when the process has no context yet.
LEMMA NsInvInit == N!Init => NsInv
<1> SUFFICES ASSUME N!Init PROVE NsInv OBVIOUS
<1> USE DEF N!Init
<1>1. Shape
  <2>1. driver \in [Namespaces -> Nat] OBVIOUS
  <2>2. ctx = NoContext /\ \A t \in Threads : at[t] = "idle" OBVIOUS
  <2>3. /\ at \in [Threads -> Places] /\ goal \in [Threads -> {"return", "change"}]
        /\ room \in [Threads -> Nat]
    BY DEF Places
  <2>4. DOMAIN arg = Threads /\ DOMAIN got = Threads /\ DOMAIN result = Threads OBVIOUS
  <2>5. QED BY <2>1, <2>2, <2>3, <2>4 DEF Shape
<1>2. Apart BY DEF Apart
<1>3. ListFresh /\ DetailsFresh BY DEF ListFresh, DetailsFresh, N!Cached
<1>4. \A t \in Threads : ReadFresh(t) BY DEF ReadFresh
<1>5. ListsWhole BY DEF ListsWhole, N!ListWhole, N!Cached
<1>6. N!NoOverrun BY DEF N!NoOverrun
<1>7. QED BY <1>1, <1>2, <1>3, <1>4, <1>5, <1>6 DEF NsInv

\* The driver's list follows from its versions.
LEMMA SameDriver == driver' = driver => N!Now' = N!Now /\ N!Present' = N!Present
BY DEF N!Now, N!Present

\* A context that takes a list, or loses it, loses its details.
LEMMA StoredList ==
  ASSUME Shape, NEW list, N!StoreList(list)
  PROVE  \/ ctx = NoContext /\ ctx' = ctx
         \/ /\ ctx # NoContext
            /\ DOMAIN ctx' = {"list", "details", "pools"} /\ DOMAIN ctx'.details = Namespaces
            /\ ctx'.list = list /\ \A n \in Namespaces : ctx'.details[n] = Nothing
<1>1. CASE ctx = NoContext BY <1>1 DEF N!StoreList
<1>2. CASE ctx # NoContext
  <2>1. ctx' = [ctx EXCEPT !.list = list, !.details = N!NoDetails] BY <1>2 DEF N!StoreList
  <2>2. DOMAIN ctx = {"list", "details", "pools"} BY <1>2 DEF Shape
  <2>3. DOMAIN ctx' = {"list", "details", "pools"} BY <2>1, <2>2
  <2>4. ctx'.list = list BY <2>1, <2>2
  <2>5. ctx'.details = N!NoDetails BY <2>1, <2>2
  <2>6. DOMAIN ctx'.details = Namespaces /\ \A n \in Namespaces : ctx'.details[n] = Nothing
    BY <2>5 DEF N!NoDetails
  <2>7. QED BY <1>2, <2>3, <2>4, <2>6
<1>3. QED BY <1>1, <1>2

\* A change makes another list, which the driver then has.
LEMMA ChangedDriver ==
  ASSUME Shape, NEW n \in Namespaces, N!Change(n)
  PROVE  /\ driver' \in [Namespaces -> Nat] /\ clock' \in Nat
         /\ N!Now' \in snapshots' /\ snapshots \subseteq snapshots'
BY DEF Shape, N!Change, N!Now, N!Present

\* Every step of a thread, and of another process, keeps it.
LEMMA NsInvNext == NsInv /\ [N!Next]_(N!vars) => NsInv'
<1> SUFFICES ASSUME NsInv, [N!Next]_(N!vars) PROVE NsInv' OBVIOUS
<1> USE DEF NsInv, Shape, Apart, N!Reading, N!NoneBetween, N!Cached,
            N!threadVars, N!Step, N!Call, N!Return, N!ReadBegins, N!Fail, N!CanFail
<1>1. ASSUME NEW t \in Threads, N!FreeContext(t) PROVE NsInv'
  <2>1. Shape' BY <1>1 DEF N!FreeContext, Places
  <2>2. Apart' BY <1>1 DEF N!FreeContext
  <2>3. ListFresh' BY <1>1, SameDriver DEF N!FreeContext, ListFresh
  <2>4. DetailsFresh' BY <1>1 DEF N!FreeContext, ReadFresh, DetailsFresh
  <2>5. \A u \in Threads : ReadFresh(u)' BY <1>1, SameDriver DEF N!FreeContext, ReadFresh
  <2>6. ListsWhole' BY <1>1, SameDriver DEF N!FreeContext, ListsWhole, N!ListWhole
  <2>7. N!NoOverrun' BY <1>1 DEF N!FreeContext, N!NoOverrun
  <2>8. QED BY <2>1, <2>2, <2>3, <2>4, <2>5, <2>6, <2>7
<1>2. ASSUME NEW t \in Threads, N!CreateContext(t) PROVE NsInv'
  <2>1. Shape' BY <1>2 DEF N!CreateContext, Places
  <2>2. Apart' BY <1>2 DEF N!CreateContext
  <2>3. ListFresh' BY <1>2, SameDriver DEF N!CreateContext, ListFresh
  <2>4. DetailsFresh' BY <1>2 DEF N!CreateContext, ReadFresh, DetailsFresh
  <2>5. \A u \in Threads : ReadFresh(u)' BY <1>2, SameDriver DEF N!CreateContext, ReadFresh
  <2>6. ListsWhole' BY <1>2, SameDriver DEF N!CreateContext, ListsWhole, N!ListWhole
  <2>7. N!NoOverrun' BY <1>2 DEF N!CreateContext, N!NoOverrun
  <2>8. QED BY <2>1, <2>2, <2>3, <2>4, <2>5, <2>6, <2>7
<1>3. ASSUME NEW t \in Threads, N!NewContext(t) PROVE NsInv'
  <2>1. Shape' BY <1>3 DEF N!NewContext, N!Empty, N!NoDetails, Places
  <2>2. Apart' BY <1>3 DEF N!NewContext
  <2>3. ListFresh' BY <1>3, SameDriver DEF N!NewContext, N!Empty, N!NoDetails, ListFresh
  <2>4. DetailsFresh' BY <1>3 DEF N!NewContext, N!Empty, N!NoDetails, ReadFresh, DetailsFresh
  <2>5. \A u \in Threads : ReadFresh(u)' BY <1>3, SameDriver DEF N!NewContext, N!Empty, N!NoDetails, ReadFresh
  <2>6. ListsWhole' BY <1>3, SameDriver DEF N!NewContext, N!Empty, N!NoDetails, ListsWhole, N!ListWhole
  <2>7. N!NoOverrun' BY <1>3 DEF N!NewContext, N!Empty, N!NoDetails, N!NoOverrun
  <2>8. QED BY <2>1, <2>2, <2>3, <2>4, <2>5, <2>6, <2>7
<1>4. ASSUME NEW t \in Threads, N!CountNamespaces(t) PROVE NsInv'
  <2>1. Shape' BY <1>4, OneEntryEach DEF N!CountNamespaces, Places
  <2>2. Apart' BY <1>4 DEF N!CountNamespaces
  <2>3. ListFresh' BY <1>4, OneEntryEach, SameDriver DEF N!CountNamespaces, ListFresh
  <2>4. DetailsFresh' BY <1>4, OneEntryEach DEF N!CountNamespaces, ReadFresh, DetailsFresh
  <2>5. \A u \in Threads : ReadFresh(u)' BY <1>4, OneEntryEach, SameDriver DEF N!CountNamespaces, ReadFresh
  <2>6. ListsWhole' BY <1>4, OneEntryEach, SameDriver DEF N!CountNamespaces, ListsWhole, N!ListWhole
  <2>7. N!NoOverrun' BY <1>4, OneEntryEach DEF N!CountNamespaces, N!NoOverrun
  <2>8. QED BY <2>1, <2>2, <2>3, <2>4, <2>5, <2>6, <2>7
<1>5. ASSUME NEW t \in Threads, N!ListRead(t) PROVE NsInv'
  <2>1. overran' \in BOOLEAN BY Zenon, <1>5 DEF N!ListRead
  <2>2. Shape' BY <1>5, <2>1 DEF N!ListRead, Places
  <2>3. Apart' BY <1>5 DEF N!ListRead
  <2>4. ListFresh' BY <1>5, SameDriver DEF N!ListRead, ReadFresh, ListFresh
  <2>5. DetailsFresh' BY <1>5 DEF N!ListRead, ReadFresh, DetailsFresh
  <2>6. \A u \in Threads : ReadFresh(u)' BY <1>5, SameDriver DEF N!ListRead, ReadFresh
  <2>7. ListsWhole' BY <1>5, SameDriver DEF N!ListRead, ListsWhole, N!ListWhole
  <2>8. N!NoOverrun' BY <1>5, OneEntryEach DEF N!ListRead, ReadFresh, ListFresh, N!NoOverrun
  <2>9. QED BY <2>2, <2>3, <2>4, <2>5, <2>6, <2>7, <2>8
<1>6. ASSUME NEW t \in Threads, N!ListFetch(t) PROVE NsInv'
  <2>1. Shape' BY <1>6 DEF N!ListFetch, Places
  <2>2. Apart' BY <1>6 DEF N!ListFetch
  <2>3. ListFresh' BY <1>6, SameDriver DEF N!ListFetch, ListFresh
  <2>4. DetailsFresh' BY <1>6 DEF N!ListFetch, ReadFresh, DetailsFresh
  <2>5. \A u \in Threads : ReadFresh(u)' BY <1>6, SameDriver DEF N!ListFetch, ReadFresh
  <2>6. ListsWhole'
    <3> USE DEF N!ListFetch, Shape, ListsWhole, N!ListWhole, N!Cached
    <3>1. ctx' = ctx /\ snapshots' = snapshots /\ N!Now' = N!Now BY <1>6, SameDriver
    <3>2. CASE got' = [got EXCEPT ![t] = N!Now] /\ UNCHANGED <<arg, goal, room, result>>
      BY <1>6, <3>1, <3>2
    <3>3. CASE N!Present = {} /\ N!Return(t, [list |-> {}])
      <4>1. {} \in snapshots'
        <5>1. N!Now = {} BY <3>3 DEF N!Now
        <5>2. N!Now \in snapshots OBVIOUS
        <5>3. QED BY <3>1, <5>1, <5>2
      <4>2. result'[t] = [list |-> {}] /\ \A u \in Threads \ {t} : result'[u] = result[u]
        BY <3>3
      <4>3. at'[t] = "idle" /\ \A u \in Threads \ {t} : at'[u] = at[u] /\ got'[u] = got[u]
        BY <3>3
      <4>4. N!Now' \in snapshots' /\ (N!Cached("list")' => ctx'.list \in snapshots') BY <3>1
      <4>5. \A u \in Threads : at'[u] = "listStore" => got'[u] \in snapshots' BY <3>1, <4>3
      <4>6. ASSUME NEW u \in Threads, result'[u] # Nothing, "list" \in DOMAIN result'[u]
            PROVE  result'[u].list \in snapshots'
        <5>1. CASE u = t
          <6>1. result'[u].list = {} BY <4>2, <5>1
          <6>2. QED BY <4>1, <6>1
        <5>2. CASE u # t BY <3>1, <4>2, <4>6, <5>2
        <5>3. QED BY <5>1, <5>2
      <4>7. QED BY <4>4, <4>5, <4>6
    <3>4. CASE N!Return(t, Nothing) BY <1>6, <3>1, <3>4
    <3>5. QED BY <1>6, <3>2, <3>3, <3>4
  <2>7. N!NoOverrun' BY <1>6 DEF N!ListFetch, N!NoOverrun
  <2>8. QED BY <2>1, <2>2, <2>3, <2>4, <2>5, <2>6, <2>7
<1>7. ASSUME NEW t \in Threads, N!ListStore(t) PROVE NsInv'
  <2>1. Shape' BY <1>7, StoredList DEF N!ListStore, Places
  <2>2. Apart' BY <1>7 DEF N!ListStore
  <2>3. ListFresh' BY <1>7, StoredList, SameDriver DEF N!ListStore, ReadFresh, ListFresh
  <2>4. DetailsFresh' BY <1>7, StoredList DEF N!ListStore, ReadFresh, DetailsFresh
  <2>5. \A u \in Threads : ReadFresh(u)' BY <1>7, StoredList, SameDriver DEF N!ListStore, ReadFresh
  <2>6. ListsWhole' BY <1>7, StoredList, SameDriver DEF N!ListStore, ListsWhole, N!ListWhole
  <2>7. N!NoOverrun' BY <1>7, StoredList DEF N!ListStore, ReadFresh, ListFresh, N!NoOverrun
  <2>8. QED BY <2>1, <2>2, <2>3, <2>4, <2>5, <2>6, <2>7
<1>8. ASSUME NEW t \in Threads, NEW n \in Namespaces, N!ChangeCall(t, n) PROVE NsInv'
  <2>1. Shape' BY <1>8 DEF N!ChangeCall, Places
  <2>2. Apart' BY <1>8 DEF N!ChangeCall
  <2>3. ListFresh' BY <1>8, SameDriver DEF N!ChangeCall, ListFresh
  <2>4. DetailsFresh' BY <1>8 DEF N!ChangeCall, ReadFresh, DetailsFresh
  <2>5. \A u \in Threads : ReadFresh(u)' BY <1>8, SameDriver DEF N!ChangeCall, ReadFresh
  <2>6. ListsWhole' BY <1>8, SameDriver DEF N!ChangeCall, ListsWhole, N!ListWhole
  <2>7. N!NoOverrun' BY <1>8 DEF N!ChangeCall, N!NoOverrun
  <2>8. QED BY <2>1, <2>2, <2>3, <2>4, <2>5, <2>6, <2>7
<1>9. ASSUME NEW t \in Threads, NEW n \in Namespaces, NEW next \in {"return", "change"},
             N!DetailsCall(t, n, next)
      PROVE  NsInv'
  <2>1. Shape' BY <1>9 DEF N!DetailsCall, Places
  <2>2. Apart' BY <1>9 DEF N!DetailsCall
  <2>3. ListFresh' BY <1>9, SameDriver DEF N!DetailsCall, ListFresh
  <2>4. DetailsFresh' BY <1>9 DEF N!DetailsCall, ReadFresh, DetailsFresh
  <2>5. \A u \in Threads : ReadFresh(u)' BY <1>9, SameDriver DEF N!DetailsCall, ReadFresh
  <2>6. ListsWhole' BY <1>9, SameDriver DEF N!DetailsCall, ListsWhole, N!ListWhole
  <2>7. N!NoOverrun' BY <1>9 DEF N!DetailsCall, N!NoOverrun
  <2>8. QED BY <2>1, <2>2, <2>3, <2>4, <2>5, <2>6, <2>7
<1>10. ASSUME NEW t \in Threads, N!DetailsRead(t) PROVE NsInv'
  <2>1. Shape' BY <1>10 DEF N!DetailsRead, N!DetailsDone, Places
  <2>2. Apart' BY <1>10 DEF N!DetailsRead, N!DetailsDone
  <2>3. ListFresh' BY <1>10, SameDriver DEF N!DetailsRead, N!DetailsDone, ListFresh
  <2>4. DetailsFresh' BY <1>10 DEF N!DetailsRead, N!DetailsDone, ReadFresh, DetailsFresh
  <2>5. \A u \in Threads : ReadFresh(u)' BY <1>10, SameDriver DEF N!DetailsRead, N!DetailsDone, ReadFresh
  <2>6. ListsWhole' BY <1>10, SameDriver DEF N!DetailsRead, N!DetailsDone, ListsWhole, N!ListWhole
  <2>7. N!NoOverrun' BY <1>10 DEF N!DetailsRead, N!DetailsDone, N!NoOverrun
  <2>8. QED BY <2>1, <2>2, <2>3, <2>4, <2>5, <2>6, <2>7
<1>11. ASSUME NEW t \in Threads, N!DetailsFetch(t) PROVE NsInv'
  <2>1. Shape' BY <1>11 DEF N!DetailsFetch, N!DetailsDone, N!Present, Places
  <2>2. Apart' BY <1>11 DEF N!DetailsFetch, N!DetailsDone, N!Present
  <2>3. ListFresh' BY <1>11, SameDriver DEF N!DetailsFetch, N!DetailsDone, N!Present, ListFresh
  <2>4. DetailsFresh' BY <1>11 DEF N!DetailsFetch, N!DetailsDone, N!Present, ReadFresh, DetailsFresh
  <2>5. \A u \in Threads : ReadFresh(u)' BY <1>11, SameDriver DEF N!DetailsFetch, N!DetailsDone, N!Present, ReadFresh
  <2>6. ListsWhole' BY <1>11, SameDriver DEF N!DetailsFetch, N!DetailsDone, N!Present, ListsWhole, N!ListWhole
  <2>7. N!NoOverrun' BY <1>11 DEF N!DetailsFetch, N!DetailsDone, N!Present, N!NoOverrun
  <2>8. QED BY <2>1, <2>2, <2>3, <2>4, <2>5, <2>6, <2>7
<1>12. ASSUME NEW t \in Threads, N!DetailsStore(t) PROVE NsInv'
  <2>1. Shape'
    <3>1. ctx' # NoContext => /\ DOMAIN ctx' = {"list", "details", "pools"}
                              /\ DOMAIN ctx'.details = Namespaces
      <4>1. CASE ctx' = ctx BY <4>1
      <4>2. CASE ctx' # ctx
        <5>1. ctx # NoContext /\ ctx' = [ctx EXCEPT !.details[arg[t]] = got[t]]
          BY <1>12, <4>2 DEF N!DetailsStore
        <5>2. ctx' = [ctx EXCEPT !.details = [ctx.details EXCEPT ![arg[t]] = got[t]]]
          BY <5>1
        <5>3. QED BY <5>1, <5>2
      <4>3. QED BY <4>1, <4>2
    <3>2. QED BY <1>12, <3>1 DEF N!DetailsStore, Places
  <2>2. Apart' BY <1>12 DEF N!DetailsStore
  <2>3. ListFresh' BY <1>12, SameDriver DEF N!DetailsStore, ReadFresh, ListFresh
  <2>4. DetailsFresh' BY <1>12 DEF N!DetailsStore, ReadFresh, DetailsFresh
  <2>5. \A u \in Threads : ReadFresh(u)' BY <1>12, SameDriver DEF N!DetailsStore, ReadFresh
  <2>6. ListsWhole' BY <1>12, SameDriver DEF N!DetailsStore, ListsWhole, N!ListWhole
  <2>7. N!NoOverrun' BY <1>12 DEF N!DetailsStore, ReadFresh, ListFresh, N!NoOverrun
  <2>8. QED BY <2>1, <2>2, <2>3, <2>4, <2>5, <2>6, <2>7
<1>13. ASSUME NEW t \in Threads, N!ChangeDriver(t) PROVE NsInv'
  <2>1. arg[t] \in Namespaces BY <1>13 DEF N!ChangeDriver
  <2>2. CASE /\ N!Change(arg[t]) /\ at' = [at EXCEPT ![t] = "invalidate"]
             /\ raced' = (raced \/ \E u \in Threads \ {t} : N!Reading(u))
             /\ UNCHANGED <<arg, goal, room, got, result>>
    <3>1. ctx' = ctx /\ overran' = overran /\ at[t] = "change" BY <1>13 DEF N!ChangeDriver
    <3>2. raced' \in BOOLEAN BY Zenon, <2>2
    <3>3. /\ driver' \in [Namespaces -> Nat] /\ clock' \in Nat
          /\ N!Now' \in snapshots' /\ snapshots \subseteq snapshots'
      BY <2>1, <2>2, ChangedDriver
    <3>4. ~raced' => ~raced /\ \A u \in Threads \ {t} : ~N!Reading(u)
      BY Zenon, <2>2
    <3>5. at'[t] = "invalidate" /\ \A u \in Threads \ {t} : at'[u] = at[u]
      BY <2>2
    <3>6. Shape' BY <2>1, <2>2, <3>1, <3>2, <3>3 DEF Places
    <3>7. \A u \in Threads : ~raced' => ~(N!Reading(u)')
      BY <3>4, <3>5
    <3>8. Apart' BY <3>7
    <3>9. ListFresh' /\ DetailsFresh' BY <3>5 DEF ListFresh, DetailsFresh
    <3>10. \A u \in Threads : ReadFresh(u)' BY <3>7 DEF ReadFresh
    <3>11. ListsWhole' BY <2>2, <3>1, <3>3, <3>5 DEF ListsWhole, N!ListWhole
    <3>12. N!NoOverrun' BY <3>1, <3>4 DEF N!NoOverrun
    <3>13. QED BY <3>6, <3>8, <3>9, <3>10, <3>11, <3>12
  <2>3. CASE N!Return(t, Nothing) /\ UNCHANGED <<driver, clock, snapshots, raced>>
    <3>1. ctx' = ctx /\ overran' = overran /\ at[t] = "change" BY <1>13 DEF N!ChangeDriver
    <3>2. Shape' /\ Apart' BY <2>3, <3>1 DEF Places
    <3>3. ListFresh' /\ DetailsFresh'
      BY <2>3, <3>1, SameDriver DEF ListFresh, DetailsFresh
    <3>4. \A u \in Threads : ReadFresh(u)' BY <2>3, <3>1, SameDriver DEF ReadFresh
    <3>5. ListsWhole' BY <2>3, <3>1, SameDriver DEF ListsWhole, N!ListWhole
    <3>6. N!NoOverrun' BY <2>3, <3>1 DEF N!NoOverrun
    <3>7. QED BY <3>2, <3>3, <3>4, <3>5, <3>6
  <2>4. QED BY <1>13, <2>2, <2>3 DEF N!ChangeDriver
<1>14. ASSUME NEW t \in Threads, N!Invalidate(t) PROVE NsInv'
  <2>1. Shape' BY <1>14, StoredList DEF N!Invalidate, Places
  <2>2. Apart' BY <1>14 DEF N!Invalidate
  <2>3. ListFresh' BY <1>14, StoredList, SameDriver DEF N!Invalidate, ListFresh
  <2>4. DetailsFresh' BY <1>14, StoredList DEF N!Invalidate, ReadFresh, DetailsFresh
  <2>5. \A u \in Threads : ReadFresh(u)' BY <1>14, StoredList, SameDriver DEF N!Invalidate, ReadFresh
  <2>6. ListsWhole' BY <1>14, StoredList, SameDriver DEF N!Invalidate, ListsWhole, N!ListWhole
  <2>7. N!NoOverrun' BY <1>14, StoredList DEF N!Invalidate, N!NoOverrun
  <2>8. QED BY <2>1, <2>2, <2>3, <2>4, <2>5, <2>6, <2>7
<1>15. ASSUME NEW t \in Threads, N!PoolsCall(t) PROVE NsInv'
  <2>1. Shape' BY <1>15 DEF N!PoolsCall, Places
  <2>2. Apart' BY <1>15 DEF N!PoolsCall
  <2>3. ListFresh' BY <1>15, SameDriver DEF N!PoolsCall, ListFresh
  <2>4. DetailsFresh' BY <1>15 DEF N!PoolsCall, ReadFresh, DetailsFresh
  <2>5. \A u \in Threads : ReadFresh(u)' BY <1>15, SameDriver DEF N!PoolsCall, ReadFresh
  <2>6. ListsWhole' BY <1>15, SameDriver DEF N!PoolsCall, ListsWhole, N!ListWhole
  <2>7. N!NoOverrun' BY <1>15 DEF N!PoolsCall, N!NoOverrun
  <2>8. QED BY <2>1, <2>2, <2>3, <2>4, <2>5, <2>6, <2>7
<1>16. ASSUME NEW t \in Threads, N!PoolsRead(t) PROVE NsInv'
  <2>1. Shape' BY <1>16 DEF N!PoolsRead, Places
  <2>2. Apart' BY <1>16 DEF N!PoolsRead
  <2>3. ListFresh' BY <1>16, SameDriver DEF N!PoolsRead, ListFresh
  <2>4. DetailsFresh' BY <1>16 DEF N!PoolsRead, ReadFresh, DetailsFresh
  <2>5. \A u \in Threads : ReadFresh(u)' BY <1>16, SameDriver DEF N!PoolsRead, ReadFresh
  <2>6. ListsWhole' BY <1>16, SameDriver DEF N!PoolsRead, ListsWhole, N!ListWhole
  <2>7. N!NoOverrun' BY <1>16 DEF N!PoolsRead, N!NoOverrun
  <2>8. QED BY <2>1, <2>2, <2>3, <2>4, <2>5, <2>6, <2>7
<1>17. ASSUME NEW t \in Threads, N!PoolsFetch(t) PROVE NsInv'
  <2>1. Shape' BY <1>17 DEF N!PoolsFetch, Places
  <2>2. Apart' BY <1>17 DEF N!PoolsFetch
  <2>3. ListFresh' BY <1>17, SameDriver DEF N!PoolsFetch, ListFresh
  <2>4. DetailsFresh' BY <1>17 DEF N!PoolsFetch, ReadFresh, DetailsFresh
  <2>5. \A u \in Threads : ReadFresh(u)' BY <1>17, SameDriver DEF N!PoolsFetch, ReadFresh
  <2>6. ListsWhole' BY <1>17, SameDriver DEF N!PoolsFetch, ListsWhole, N!ListWhole
  <2>7. N!NoOverrun' BY <1>17 DEF N!PoolsFetch, N!NoOverrun
  <2>8. QED BY <2>1, <2>2, <2>3, <2>4, <2>5, <2>6, <2>7
<1>18. ASSUME NEW t \in Threads, N!PoolsStore(t) PROVE NsInv'
  <2>1. Shape' BY <1>18 DEF N!PoolsStore, Places
  <2>2. Apart' BY <1>18 DEF N!PoolsStore
  <2>3. ListFresh' BY <1>18, SameDriver DEF N!PoolsStore, ListFresh
  <2>4. DetailsFresh' BY <1>18 DEF N!PoolsStore, ReadFresh, DetailsFresh
  <2>5. \A u \in Threads : ReadFresh(u)' BY <1>18, SameDriver DEF N!PoolsStore, ReadFresh
  <2>6. ListsWhole' BY <1>18, SameDriver DEF N!PoolsStore, ListsWhole, N!ListWhole
  <2>7. N!NoOverrun' BY <1>18 DEF N!PoolsStore, N!NoOverrun
  <2>8. QED BY <2>1, <2>2, <2>3, <2>4, <2>5, <2>6, <2>7
<1>19. ASSUME NEW n \in Namespaces, N!OtherProcess(n) PROVE NsInv'
  <2>1. Shape' BY <1>19, ChangedDriver DEF N!OtherProcess
  <2>2. Apart' /\ ListFresh' /\ DetailsFresh' /\ N!NoOverrun' /\ \A u \in Threads : ReadFresh(u)'
    BY <1>19 DEF N!OtherProcess, ListFresh, DetailsFresh, N!NoOverrun, ReadFresh
  <2>3. ListsWhole' BY <1>19, ChangedDriver DEF N!OtherProcess, ListsWhole, N!ListWhole
  <2>4. QED BY <2>1, <2>2, <2>3
<1>20. CASE UNCHANGED N!vars
  <2>1. Shape' /\ Apart' BY <1>20 DEF N!vars
  <2>2. ListFresh' /\ DetailsFresh' /\ \A u \in Threads : ReadFresh(u)'
    BY <1>20, SameDriver DEF N!vars, ListFresh, DetailsFresh, ReadFresh
  <2>3. ListsWhole' /\ N!NoOverrun'
    BY <1>20, SameDriver DEF N!vars, ListsWhole, N!ListWhole, N!NoOverrun
  <2>4. QED BY <2>1, <2>2, <2>3
<1> HIDE DEF NsInv, Shape, Apart, N!Reading, N!NoneBetween, N!Cached,
             N!threadVars, N!Step, N!Call, N!Return, N!ReadBegins, N!Fail, N!CanFail
<1>21. QED
  BY <1>1, <1>2, <1>3, <1>4, <1>5, <1>6, <1>7, <1>8, <1>9, <1>10, <1>11, <1>12, <1>13, <1>14,
     <1>15, <1>16, <1>17, <1>18, <1>19, <1>20 DEF N!Next, N!Rest

\* Details come to a caller from the driver, or from a cache that is fresh.
LEMMA DetailsReturned ==
  ASSUME NsInv, N!Next, NEW u \in Threads, ~raced',
         result'[u] \notin {result[u], Nothing}, "details" \in DOMAIN result'[u]
  PROVE  result'[u].details.version = driver[arg[u]]
<1> USE DEF NsInv, Shape, N!Step, N!Call, N!Return, N!ReadBegins
<1>1. ASSUME NEW t \in Threads, N!DetailsRead(t) PROVE result'[u].details.version = driver[arg[u]]
  <2>1. u = t /\ ctx # NoContext /\ ctx.details[arg[t]] # Nothing
        /\ result'[u] = [details |-> ctx.details[arg[t]]]
    BY <1>1 DEF N!DetailsRead, N!DetailsDone
  <2>2. ~raced /\ N!NoneBetween
    BY <1>1 DEF N!DetailsRead, Apart, N!Reading, N!NoneBetween
  <2>3. arg[t] \in Namespaces BY <1>1 DEF N!DetailsRead
  <2>4. QED BY <2>1, <2>2, <2>3 DEF DetailsFresh
<1>2. ASSUME NEW t \in Threads, N!DetailsFetch(t) PROVE result'[u].details.version = driver[arg[u]]
  <2>1. u = t /\ result'[u] = [details |-> [version |-> driver[arg[t]], whole |-> TRUE]]
    BY <1>2 DEF N!DetailsFetch, N!DetailsDone
  <2>2. QED BY <2>1
<1>3. ASSUME NEW t \in Threads,
             \/ N!FreeContext(t) \/ N!CreateContext(t) \/ N!NewContext(t)
             \/ N!CountNamespaces(t) \/ N!PoolsCall(t) \/ N!PoolsFetch(t)
             \/ \E n \in Namespaces :
                  N!ChangeCall(t, n) \/ N!DetailsCall(t, n, "return") \/ N!DetailsCall(t, n, "change")
      PROVE  FALSE
  BY <1>3 DEF N!FreeContext, N!CreateContext, N!NewContext, N!CountNamespaces, N!PoolsCall,
              N!PoolsFetch, N!ChangeCall, N!DetailsCall, N!threadVars
<1>4. ASSUME NEW t \in Threads,
             N!ListRead(t) \/ N!ListFetch(t) \/ N!ListStore(t) \/ N!DetailsStore(t)
               \/ N!ChangeDriver(t) \/ N!Invalidate(t)
      PROVE  FALSE
  BY <1>4 DEF N!ListRead, N!ListFetch, N!ListStore, N!DetailsStore, N!ChangeDriver, N!Invalidate
<1>5. ASSUME NEW t \in Threads, N!PoolsRead(t) \/ N!PoolsStore(t)
      PROVE  FALSE
  BY <1>5 DEF N!PoolsRead, N!PoolsStore
<1>6. ASSUME NEW n \in Namespaces, N!OtherProcess(n) PROVE FALSE
  BY <1>6 DEF N!OtherProcess, N!threadVars
<1>7. ASSUME N!Rest PROVE FALSE BY <1>7 DEF N!Rest, N!vars, N!threadVars
<1> HIDE DEF NsInv, N!Step, N!Call, N!Return, N!ReadBegins
<1>8. QED BY <1>1, <1>2, <1>3, <1>4, <1>5, <1>6, <1>7 DEF N!Next

-----------------------------------------------------------------------------
(* MCContext *)

\* The invariant of the part that a behaviour is about.
NsPart == part = "namespaces" => NsInv

\* No step leaves the part it is of.
LEMMA NsPartStays ==
  /\ InitAll => NsPart
  /\ NsPart /\ [NextAll]_allVars => NsPart'
<1>1. InitAll => NsPart BY NsInvInit DEF InitAll, NsPart
<1>2. ASSUME NsPart, [NextAll]_allVars PROVE NsPart'
  <2>1. CASE part = "namespaces" /\ N!Next /\ part' = part
    BY <1>2, <2>1, NsInvNext DEF NsPart
  <2>2. CASE part = "config" /\ part' = part BY <2>2 DEF NsPart
  <2>3. CASE UNCHANGED allVars
    <3>1. UNCHANGED N!vars /\ part' = part
      BY <2>3 DEF allVars, contextVars, N!vars, N!threadVars
    <3>2. QED BY <1>2, <3>1, NsInvNext DEF NsPart
  <2>4. QED BY <1>2, <2>1, <2>2, <2>3 DEF NextAll
<1>3. QED BY <1>1, <1>2

\* A list of namespaces that is handed out is one the driver had as a whole,
\* a cached one is current after a change, and no copy runs over it, unless
\* the change overlapped a read or came from another process.
THEOREM ListsAreSound == SpecAll => []ListSound
<1>1. NsPart => ListSound
  BY DEF NsPart, NsInv, ListSound, N!ListSound, N!ListCoherent, ListFresh, ListsWhole
<1>2. QED BY <1>1, NsPartStays, PTL DEF SpecAll

\* Details that are handed out are of the namespace as it is, under the same
\* condition.
THEOREM DetailsAreCurrent == SpecAll => DetailsCurrent
<1> DEFINE Current == part = "namespaces" =>
             \A t \in Threads :
               /\ ~raced'
               /\ result'[t] \notin {result[t], Nothing}
               /\ "details" \in DOMAIN result'[t]
               => result'[t].details.version = driver[arg[t]]
<1>1. ASSUME NsPart, [NextAll]_allVars PROVE [Current]_allVars
  <2>1. CASE part = "namespaces" /\ N!Next BY <1>1, <2>1, DetailsReturned DEF NsPart
  <2>2. CASE part = "config" BY <2>2
  <2>3. QED BY <1>1, <2>1, <2>2 DEF NextAll
<1>2. QED BY <1>1, NsPartStays, PTL DEF SpecAll, DetailsCurrent

-----------------------------------------------------------------------------
(* Platform config data *)

\* A PCD with tables of the right kinds.
IsPcd(d) ==
  /\ d = PCD(d.current, d.input, d.output)
  /\ d.current \in Tables /\ d.current.kind = "current" /\ d.current.length = 1
  /\ d.input # None =>
       /\ d.input \in Tables /\ d.input.kind = "input" /\ d.input.seq # 0
       /\ d.input.body \in Goals /\ d.input.length = Length[d.input.body]
  /\ d.output # None =>
       d.output \in Tables /\ d.output.kind = "output" /\ d.output.length = 1

HeaderOf(d) == [current |-> Size(d.current), input |-> Size(d.input), output |-> Size(d.output)]
End(d) == 1 + Size(d.current) + Size(d.input) + Size(d.output)

\* Where the chunks of a PCD are on the partition.
Laid(d, c) ==
  /\ c[1] = HeaderOf(d)
  /\ \A i \in 1..Size(d.current) : c[1 + i] = [table |-> d.current, part |-> i]
  /\ \A i \in 1..Size(d.input) :
       c[1 + Size(d.current) + i] = [table |-> d.input, part |-> i]
  /\ \A i \in 1..Size(d.output) :
       c[1 + Size(d.current) + Size(d.input) + i] = [table |-> d.output, part |-> i]

\* The sizes of the tables.
LEMMA Sizes ==
  ASSUME NEW d, IsPcd(d)
  PROVE  /\ Size(d.current) = 1
         /\ Size(d.input) \in Nat /\ (Size(d.input) = 0 <=> d.input = None)
         /\ Size(d.output) \in Nat /\ (Size(d.output) = 0 <=> d.output = None)
         /\ End(d) \in 2..PartSize
<1>1. Size(d.current) = 1 BY NoneAssumption DEF IsPcd, Size, Tables, Bodies
<1>2. /\ Size(d.input) \in Nat /\ (Size(d.input) = 0 <=> d.input = None)
      /\ Size(d.input) + 3 <= PartSize
  <2>1. CASE d.input = None
    <3>1. Size(d.current) \in Nat BY <1>1
    <3>2. Size(d.input) = 0 BY <2>1 DEF Size
    <3>3. QED BY <2>1, <3>2, GoalAssumption DEF IsPcd
  <2>2. CASE d.input # None
    <3>1. d.input.body \in Goals /\ Size(d.input) = Length[d.input.body]
      BY <2>2 DEF IsPcd, Size
    <3>2. QED BY <2>2, <3>1, GoalAssumption
  <2>3. QED BY <2>1, <2>2
<1>3. Size(d.output) \in 0..1 /\ (Size(d.output) = 0 <=> d.output = None)
  BY DEF IsPcd, Size
<1>4. QED BY <1>1, <1>2, <1>3, GoalAssumption DEF End

\* Chunks that follow each other.
LEMMA JoinedChunks ==
  ASSUME NEW S, NEW s \in Seq(S), NEW t \in Seq(S)
  PROVE  /\ s \o t \in Seq(S) /\ Len(s \o t) = Len(s) + Len(t)
         /\ \A i \in 1..Len(s) : (s \o t)[i] = s[i]
         /\ \A i \in 1..Len(t) : (s \o t)[Len(s) + i] = t[i]
<1>1. Len(s) \in Nat /\ Len(t) \in Nat BY LenProperties
<1>2. /\ s \o t \in Seq(S) /\ Len(s \o t) = Len(s) + Len(t)
      /\ \A i \in 1..(Len(s) + Len(t)) : (s \o t)[i] = IF i <= Len(s) THEN s[i] ELSE t[i - Len(s)]
  BY ConcatProperties
<1>3. ASSUME NEW i \in 1..Len(t) PROVE (s \o t)[Len(s) + i] = t[i]
  <2>1. (Len(s) + i) - Len(s) = i /\ Len(s) + i \in 1..(Len(s) + Len(t)) /\ ~(Len(s) + i <= Len(s))
    BY <1>1
  <2>2. QED BY <1>2, <2>1
<1>4. QED BY <1>1, <1>2, <1>3

\* A PCD takes its length on the partition, and its chunks follow each other.
LEMMA LayoutIsLaid ==
  ASSUME NEW d, IsPcd(d)
  PROVE  /\ Len(Layout(d)) = End(d)
         /\ Laid(d, Layout(d))
         /\ DOMAIN Layout(d) = 1..End(d)
<1> DEFINE T == {d.current, d.input, d.output}
           S == {HeaderOf(d)} \cup [table : T, part : Nat]
           s0 == <<HeaderOf(d)>>
           s1 == Chunks(d.current)
           s2 == Chunks(d.input)
           s3 == Chunks(d.output)
<1>1. /\ Size(d.current) \in Nat /\ Size(d.input) \in Nat /\ Size(d.output) \in Nat
  BY Sizes
<1>2. ASSUME NEW t \in T, Size(t) \in Nat
      PROVE  /\ Chunks(t) \in Seq(S) /\ Len(Chunks(t)) = Size(t)
             /\ \A i \in 1..Size(t) : Chunks(t)[i] = [table |-> t, part |-> i]
  <2>1. Chunks(t) \in [1..Size(t) -> S] BY <1>2 DEF Chunks
  <2>2. Chunks(t) \in Seq(S) BY <1>2, <2>1, SeqDef
  <2>3. DOMAIN Chunks(t) = 1..Size(t) BY DEF Chunks
  <2>4. Len(Chunks(t)) = Size(t) BY <1>2, <2>2, <2>3
  <2>5. QED BY <2>2, <2>4 DEF Chunks
<1>3. s0 \in Seq(S) /\ Len(s0) = 1 /\ s0[1] = HeaderOf(d) OBVIOUS
<1>4. Layout(d) = ((s0 \o s1) \o s2) \o s3 BY DEF Layout, HeaderOf
<1>5. /\ s1 \in Seq(S) /\ Len(s1) = Size(d.current)
      /\ s2 \in Seq(S) /\ Len(s2) = Size(d.input)
      /\ s3 \in Seq(S) /\ Len(s3) = Size(d.output)
  BY <1>1, <1>2
<1>6. /\ \A i \in 1..Size(d.current) : s1[i] = [table |-> d.current, part |-> i]
      /\ \A i \in 1..Size(d.input) : s2[i] = [table |-> d.input, part |-> i]
      /\ \A i \in 1..Size(d.output) : s3[i] = [table |-> d.output, part |-> i]
  BY <1>1, <1>2
<1> HIDE DEF T, S, s0, s1, s2, s3
<1> DEFINE c1 == s0 \o s1
           c2 == c1 \o s2
<1>7. /\ c1 \in Seq(S) /\ Len(c1) = 1 + Size(d.current)
      /\ \A i \in 1..Len(s0) : c1[i] = s0[i]
      /\ \A i \in 1..Len(s1) : c1[Len(s0) + i] = s1[i]
  <2>1. s0 \in Seq(S) /\ s1 \in Seq(S) BY <1>3, <1>5
  <2>2. c1 \in Seq(S) /\ Len(c1) = Len(s0) + Len(s1) BY <2>1, JoinedChunks
  <2>3. \A i \in 1..Len(s0) : c1[i] = s0[i] BY <2>1, JoinedChunks
  <2>4. \A i \in 1..Len(s1) : c1[Len(s0) + i] = s1[i] BY <2>1, JoinedChunks
  <2> HIDE DEF c1
  <2>5. QED BY <1>3, <1>5, <2>2, <2>3, <2>4
<1> HIDE DEF c1
<1>8. /\ c2 \in Seq(S) /\ Len(c2) = 1 + Size(d.current) + Size(d.input)
      /\ \A i \in 1..Len(c1) : c2[i] = c1[i]
      /\ \A i \in 1..Len(s2) : c2[Len(c1) + i] = s2[i]
  <2>1. c1 \in Seq(S) /\ s2 \in Seq(S) BY <1>5, <1>7
  <2>2. c2 \in Seq(S) /\ Len(c2) = Len(c1) + Len(s2) BY <2>1, JoinedChunks
  <2>3. \A i \in 1..Len(c1) : c2[i] = c1[i] BY <2>1, JoinedChunks
  <2>4. \A i \in 1..Len(s2) : c2[Len(c1) + i] = s2[i] BY <2>1, JoinedChunks
  <2> HIDE DEF c2
  <2>5. QED BY <1>5, <1>7, <2>2, <2>3, <2>4
<1> HIDE DEF c2
<1>9. /\ Layout(d) \in Seq(S)
      /\ Len(Layout(d)) = 1 + Size(d.current) + Size(d.input) + Size(d.output)
      /\ \A i \in 1..Len(c2) : Layout(d)[i] = c2[i]
      /\ \A i \in 1..Len(s3) : Layout(d)[Len(c2) + i] = s3[i]
  <2>1. Layout(d) = c2 \o s3 BY <1>4 DEF c1, c2
  <2>2. c2 \in Seq(S) /\ s3 \in Seq(S) BY <1>5, <1>8
  <2>3. Layout(d) \in Seq(S) /\ Len(Layout(d)) = Len(c2) + Len(s3) BY <2>1, <2>2, JoinedChunks
  <2>4. \A i \in 1..Len(c2) : Layout(d)[i] = c2[i] BY <2>1, <2>2, JoinedChunks
  <2>5. \A i \in 1..Len(s3) : Layout(d)[Len(c2) + i] = s3[i] BY <2>1, <2>2, JoinedChunks
  <2>6. QED BY <1>5, <1>8, <2>3, <2>4, <2>5
<1>10. Len(Layout(d)) = End(d) /\ DOMAIN Layout(d) = 1..End(d)
  BY <1>9, LenProperties DEF End
<1>11. Layout(d)[1] = HeaderOf(d)
  <2>1. 1 \in 1..Len(s0) /\ 1 \in 1..Len(c1) /\ 1 \in 1..Len(c2) BY <1>1, <1>3, <1>7, <1>8
  <2>2. QED BY <1>3, <1>7, <1>8, <1>9, <2>1
<1>12. \A i \in 1..Size(d.current) : Layout(d)[1 + i] = [table |-> d.current, part |-> i]
  <2> TAKE i \in 1..Size(d.current)
  <2>1. 1 + i \in 1..Len(c1) /\ 1 + i \in 1..Len(c2) BY <1>1, <1>7, <1>8
  <2>2. c1[1 + i] = s1[i] BY <1>3, <1>5, <1>7
  <2>3. QED BY <1>6, <1>8, <1>9, <2>1, <2>2
<1>13. \A i \in 1..Size(d.input) :
         Layout(d)[1 + Size(d.current) + i] = [table |-> d.input, part |-> i]
  <2> TAKE i \in 1..Size(d.input)
  <2>1. 1 + Size(d.current) + i \in 1..Len(c2) BY <1>1, <1>8
  <2>2. c2[1 + Size(d.current) + i] = s2[i] BY <1>5, <1>7, <1>8
  <2>3. QED BY <1>6, <1>9, <2>1, <2>2
<1>14. \A i \in 1..Size(d.output) :
         Layout(d)[1 + Size(d.current) + Size(d.input) + i] = [table |-> d.output, part |-> i]
  <2> TAKE i \in 1..Size(d.output)
  <2>1. QED BY <1>5, <1>6, <1>8, <1>9
<1>15. QED BY <1>10, <1>11, <1>12, <1>13, <1>14 DEF Laid

\* What is laid out is accepted and decodes to the PCD it was built from.
LEMMA LaidDecodes ==
  ASSUME NEW d, IsPcd(d), NEW c, Laid(d, c), Len(c) = End(d)
  PROVE  Accepted(c) /\ Decoded(c) = d
<1>1. /\ Size(d.current) = 1
      /\ Size(d.input) \in Nat /\ (Size(d.input) = 0 <=> d.input = None)
      /\ Size(d.output) \in Nat /\ (Size(d.output) = 0 <=> d.output = None)
  BY Sizes
<1>2. /\ c[1].current = 1 /\ c[1].input = Size(d.input) /\ c[1].output = Size(d.output)
  BY <1>1 DEF Laid, HeaderOf
<1>3. /\ c[2] = [table |-> d.current, part |-> 1]
      /\ \A i \in 1..Size(d.input) : c[2 + i] = [table |-> d.input, part |-> i]
      /\ \A i \in 1..Size(d.output) : c[2 + Size(d.input) + i] = [table |-> d.output, part |-> i]
  BY <1>1 DEF Laid
<1>4. /\ d.current.kind = "current" /\ d.current.length = 1
      /\ d.input # None => d.input.kind = "input" /\ d.input.length = Size(d.input)
      /\ d.output # None => d.output.kind = "output" /\ d.output.length = Size(d.output)
  BY DEF IsPcd, Size
<1>5. InputOffset(c[1]) = 2 /\ OutputOffset(c[1]) = 2 + Size(d.input) /\ Len(c) = 2 + Size(d.input) + Size(d.output)
  BY <1>1, <1>2 DEF InputOffset, OutputOffset, End
<1>6. CurrentOK(c) /\ TableAt(c, 1, c[1].current) = d.current
  BY <1>1, <1>2, <1>3, <1>4, <1>5 DEF CurrentOK, Whole, TableAt
<1>7. InputOK(c) /\ TableAt(c, InputOffset(c[1]), c[1].input) = d.input
  <2>1. CASE d.input = None BY <1>1, <1>2, <2>1 DEF InputOK, TableAt
  <2>2. CASE d.input # None
    <3>1. c[3] = [table |-> d.input, part |-> 1] BY <1>1, <1>3, <2>2
    <3>2. QED BY <1>1, <1>2, <1>3, <1>4, <1>5, <2>2, <3>1 DEF InputOK, Whole, TableAt
  <2>3. QED BY <2>1, <2>2
<1>8. OutputOK(c) /\ TableAt(c, OutputOffset(c[1]), c[1].output) = d.output
  <2>1. CASE d.output = None BY <1>1, <1>2, <2>1 DEF OutputOK, TableAt
  <2>2. CASE d.output # None
    <3>1. c[2 + Size(d.input) + 1] = [table |-> d.output, part |-> 1] BY <1>1, <1>3, <2>2
    <3>2. QED BY <1>1, <1>2, <1>3, <1>4, <1>5, <2>2, <3>1 DEF OutputOK, Whole, TableAt
  <2>3. QED BY <2>1, <2>2
<1>9. QED BY <1>6, <1>7, <1>8 DEF Accepted, Decoded, IsPcd

-----------------------------------------------------------------------------
(* The invariant *)

\* BIOS's answer in a PCD is to the goal in it.
Honest(d) ==
  d.input # None /\ d.output # None /\ d.output.seq = d.input.seq =>
    d.output.body.goal = d.input.body

\* A PCD with the tables that BIOS left.
Good(d) == IsPcd(d) /\ Honest(d) /\ d.current = bios.current /\ d.output = bios.output

\* A PCD with the goal that was written last.
Answers(d) ==
  IF last = None THEN d.input = None
  ELSE d.input # None /\ d.input.body = last /\ (awaiting <=> GoalStatus(d) = "new")

PcTypes ==
  /\ large \in BOOLEAN /\ awaiting \in BOOLEAN
  /\ flash = [i \in 1..PartSize |-> flash[i]]
  /\ pc \in [Procs -> {"idle", "size", "read", "act", "write", "done"}]
  /\ view \in [Procs -> {"clear", "stale", "blurred"}]
  /\ mixed \in {"no", "failed", "cut"}
  /\ DOMAIN cache = Procs /\ DOMAIN call = Procs
  /\ DOMAIN need = Procs /\ DOMAIN buf = Procs /\ DOMAIN pos = Procs

\* What a process keeps between its steps.
Tidy(p) ==
  /\ pc[p] # "idle" => call[p] \in Requests
  /\ pc[p] \in {"idle", "size"} => buf[p] = <<>>
  /\ pc[p] # "write" => pos[p] = 0
  /\ pc[p] \in {"size", "read"} => cache[p] = None

\* It works on a PCD.
Has(p) == cache[p] # None \/ pc[p] \in {"act", "write"}

\* The flash between writes that did not overlap and were not cut short.
FlashInv ==
  mixed = "no" /\ Quiet => \E d : Good(d) /\ Answers(d) /\ Laid(d, flash)

\* A write that nobody else disturbs has come to its position.
Writing(p) ==
  mixed = "no" /\ pc[p] = "write" =>
    /\ ~OthersWriting(p)
    /\ view[p] # "blurred" /\ call[p].op # "get"
    /\ buf[p] = Layout(Updated(cache[p], call[p]))
    /\ pos[p] \in 0..(Len(buf[p]) - 1)
    /\ \A i \in 1..pos[p] : flash[i] = buf[p][i]

\* A read that nobody disturbs is of such a flash.
Reading(p) ==
  pc[p] \in {"size", "read"} /\ view[p] # "blurred" =>
    /\ view[p] = "clear" /\ mixed = "no" /\ Quiet
    /\ pc[p] = "read" =>
         /\ need[p] = Total(flash[1]) /\ Len(buf[p]) \in 0..(need[p] - 1)
         /\ buf[p] = SubSeq(flash, 1, Len(buf[p]))

\* A copy that was read so has BIOS's tables, and is the flash until the
\* next write.
Holding(p) ==
  Has(p) /\ view[p] # "blurred" =>
    /\ Good(cache[p])
    /\ view[p] = "clear" /\ pc[p] \notin {"write", "done"} =>
         mixed = "no" /\ Quiet /\ Laid(cache[p], flash)

\* After a write that failed somebody still has a copy.
Retry ==
  mixed = "failed" =>
    Quiet /\ \E p \in Procs : cache[p] # None /\ view[p] # "blurred" /\ pc[p] # "done"

PcInv ==
  /\ PcTypes /\ FlashInv /\ Retry
  /\ \A p \in Procs : Tidy(p) /\ Writing(p) /\ Reading(p) /\ Holding(p)

-----------------------------------------------------------------------------
(* Pieces of the steps *)

\* Chunks that are those of a layout are laid like it.
LEMMA CopyIsLaid ==
  ASSUME NEW d, IsPcd(d), NEW f, \A i \in 1..End(d) : f[i] = Layout(d)[i]
  PROVE  Laid(d, f)
<1>1. Laid(d, Layout(d)) BY LayoutIsLaid
<1>2. /\ Size(d.current) = 1 /\ Size(d.input) \in Nat /\ Size(d.output) \in Nat
      /\ End(d) = 2 + Size(d.input) + Size(d.output)
  BY Sizes DEF End
<1>3. f[1] = HeaderOf(d) BY <1>1, <1>2 DEF Laid
<1>4. \A i \in 1..Size(d.current) : f[1 + i] = [table |-> d.current, part |-> i]
  BY <1>1, <1>2 DEF Laid
<1>5. \A i \in 1..Size(d.input) : f[1 + Size(d.current) + i] = [table |-> d.input, part |-> i]
  BY <1>1, <1>2 DEF Laid
<1>6. \A i \in 1..Size(d.output) :
        f[1 + Size(d.current) + Size(d.input) + i] = [table |-> d.output, part |-> i]
  BY <1>1, <1>2 DEF Laid
<1>7. QED BY <1>3, <1>4, <1>5, <1>6 DEF Laid

\* The beginning of what is laid is laid as well.
LEMMA PrefixIsLaid ==
  ASSUME NEW d, IsPcd(d), NEW f, Laid(d, f), NEW c, \A i \in 1..End(d) : c[i] = f[i]
  PROVE  Laid(d, c)
<1>1. /\ Size(d.current) = 1 /\ Size(d.input) \in Nat /\ Size(d.output) \in Nat
      /\ End(d) = 2 + Size(d.input) + Size(d.output)
  BY Sizes DEF End
<1>2. c[1] = HeaderOf(d) BY <1>1 DEF Laid
<1>3. \A i \in 1..Size(d.current) : c[1 + i] = [table |-> d.current, part |-> i]
  BY <1>1 DEF Laid
<1>4. \A i \in 1..Size(d.input) : c[1 + Size(d.current) + i] = [table |-> d.input, part |-> i]
  BY <1>1 DEF Laid
<1>5. \A i \in 1..Size(d.output) :
        c[1 + Size(d.current) + Size(d.input) + i] = [table |-> d.output, part |-> i]
  BY <1>1 DEF Laid
<1>6. QED BY <1>2, <1>3, <1>4, <1>5 DEF Laid

\* What lies on the flash is read back.
LEMMA StoredDecodes ==
  ASSUME NEW d, IsPcd(d), Laid(d, flash)
  PROVE  Readable /\ Decoded(Stored) = d /\ Total(flash[1]) = End(d)
<1>1. Total(flash[1]) = End(d) BY DEF Laid, HeaderOf, Total, End
<1>2. End(d) \in Nat BY Sizes
<1>3. Len(Stored) = End(d) /\ \A i \in 1..End(d) : Stored[i] = flash[i]
  BY <1>1, <1>2 DEF Stored
<1>4. Laid(d, Stored) BY <1>3, PrefixIsLaid
<1>5. Accepted(Stored) /\ Decoded(Stored) = d BY <1>3, <1>4, LaidDecodes
<1>6. QED BY <1>1, <1>5 DEF Readable

\* The commands of a read bring the flash piece by piece.
LEMMA ReadsOn ==
  ASSUME PcTypes, NEW p \in Procs, need[p] \in 1..PartSize,
         Len(buf[p]) \in 0..(need[p] - 1), buf[p] = SubSeq(flash, 1, Len(buf[p]))
  PROVE  LET c == buf[p] \o Fetched(p) IN
         /\ Len(c) \in 0..need[p]
         /\ c = SubSeq(flash, 1, Len(c))
         /\ \A i \in 1..Len(c) : c[i] = flash[i]
<1> DEFINE S == {flash[i] : i \in 1..PartSize}
           m == Len(buf[p])
           n == IF large \/ m + 2 > need[p] THEN need[p] ELSE m + 2
           c == buf[p] \o Fetched(p)
<1>1. PartSize \in Nat BY GoalAssumption
<1>2. flash \in Seq(S) /\ Len(flash) = PartSize
  <2>1. flash \in [1..PartSize -> S] BY DEF PcTypes
  <2>2. flash \in Seq(S) BY <1>1, <2>1, SeqDef
  <2>3. DOMAIN flash = 1..PartSize BY <2>1
  <2>4. QED BY <1>1, <2>2, <2>3, LenProperties
<1> HIDE DEF S
<1>3. m \in 0..(need[p] - 1) /\ n \in m..need[p] /\ n \in 0..PartSize BY <1>1
<1>4. Fetched(p) = SubSeq(flash, m + 1, n) BY DEF Fetched
<1>5. c = SubSeq(flash, 1, m) \o SubSeq(flash, m + 1, n) BY <1>4
<1> HIDE DEF c, m, n
<1>6. SubSeq(flash, 1, m) \o SubSeq(flash, m + 1, n) = SubSeq(flash, 1, n)
  <2>1. /\ 1 \in 1..(Len(flash) + 1) /\ m \in (1 - 1)..Len(flash) /\ n \in m..Len(flash)
    BY <1>1, <1>2, <1>3
  <2>2. QED BY <1>2, <2>1, ConcatAdjacentSubSeq
<1>7. \A i \in 1..n : flash[i] \in S BY <1>1, <1>2, <1>3, ElementOfSeq
<1>8. /\ Len(SubSeq(flash, 1, n)) = n
      /\ \A i \in 1..n : SubSeq(flash, 1, n)[i] = flash[i]
  <2>1. n \in Int /\ 1 \in Int BY <1>3
  <2>2. /\ Len(SubSeq(flash, 1, n)) = (IF 1 <= n THEN n - 1 + 1 ELSE 0)
        /\ \A i \in 1..(n - 1 + 1) : SubSeq(flash, 1, n)[i] = flash[1 + i - 1]
    BY <1>7, <2>1, SubSeqProperties
  <2>3. n - 1 + 1 = n /\ \A i \in 1..n : 1 + i - 1 = i BY <1>3
  <2>4. QED BY <1>3, <2>2, <2>3
<1>9. Len(c) = n /\ c = SubSeq(flash, 1, Len(c)) /\ \A i \in 1..Len(c) : c[i] = flash[i]
  BY <1>5, <1>6, <1>8
<1>10. QED BY <1>3, <1>9 DEF c

\* A table that the library or BIOS makes is a table.
LEMMA NewTables ==
  ASSUME NEW kind \in Kinds, NEW seq \in Nat, NEW body \in Bodies, NEW length \in Nat \ {0}
  PROVE  Table(kind, seq, body, length) \in Tables /\ Table(kind, seq, body, length) # None
BY NoneAssumption DEF Table, Tables, Bodies

\* The PCD that a call builds from a good one is good, and has the call's goal
\* under a number that BIOS has not answered.
LEMMA UpdatedIsGood ==
  ASSUME NEW d, Good(d), NEW r \in Requests, r.op # "get"
  PROVE  /\ Good(Updated(d, r))
         /\ r.op = "create" => /\ r.goal \in Goals
                              /\ Updated(d, r).input # None
                              /\ Updated(d, r).input.body = r.goal
                              /\ GoalStatus(Updated(d, r)) = "new"
         /\ r.op # "create" => r.goal = None /\ Updated(d, r).input = None
<1> DEFINE u == Updated(d, r)
<1>1. u.current = d.current /\ u.output = d.output /\ u = PCD(u.current, u.input, u.output)
  BY DEF Updated, PCD
<1>2. LastSeq(d) \in Nat BY DEF Good, IsPcd, LastSeq, Tables
<1>3. CASE r.op = "create"
  <2>1. r.goal \in Goals BY <1>3 DEF Requests
  <2>2. /\ u.input = NewInput(d, r.goal)
    BY <1>3 DEF Updated, PCD
  <2>3. Length[r.goal] \in Nat \ {0} /\ r.goal \in Bodies BY <2>1, GoalAssumption DEF Bodies
  <2>4. u.input \in Tables /\ u.input # None
    <3>1. LastSeq(d) + 1 \in Nat /\ "input" \in Kinds BY <1>2 DEF Kinds
    <3>2. QED BY <2>2, <2>3, <3>1, NewTables DEF NewInput
  <2>5. /\ u.input.kind = "input" /\ u.input.seq = LastSeq(d) + 1
        /\ u.input.body = r.goal /\ u.input.length = Length[r.goal]
    BY <2>2 DEF NewInput, Table
  <2>6. IsPcd(u)
    BY <1>1, <1>2, <2>1, <2>4, <2>5 DEF Good, IsPcd
  <2>7. u.output = None \/ u.output.seq # u.input.seq
    BY <1>1, <1>2, <2>5 DEF LastSeq
  <2>8. GoalStatus(u) = "new" BY <2>7 DEF GoalStatus
  <2>9. QED BY <1>1, <1>3, <2>1, <2>4, <2>5, <2>6, <2>7, <2>8 DEF Good, Honest
<1>4. CASE r.op # "create"
  <2>1. r.goal = None BY <1>4 DEF Requests
  <2>2. u.input = None BY <1>4 DEF Updated, PCD
  <2>3. QED BY <1>1, <1>4, <2>1, <2>2 DEF Good, Honest, IsPcd
<1>5. QED BY <1>3, <1>4

\* The PCD that BIOS makes of a goal it answers.
LEMMA ProcessedIsGood ==
  ASSUME NEW d, IsPcd(d), d.input # None, NEW ok \in BOOLEAN
  PROVE  LET new == Processed(d, ok) IN
         /\ IsPcd(new) /\ Honest(new)
         /\ new.input = d.input /\ GoalStatus(new) # "new"
<1> DEFINE new == Processed(d, ok)
           b == [goal |-> d.input.body, ok |-> ok]
<1>1. /\ new.input = d.input /\ new = PCD(new.current, new.input, new.output)
      /\ new.output = Table("output", d.input.seq, b, 1)
      /\ new.current = IF ok THEN Table("current", 0, d.input.body, 1) ELSE d.current
  BY DEF Processed, PCD
<1>2. d.input.seq \in Nat /\ d.input.body \in Goals BY DEF IsPcd, Tables
<1>3. d.input.body \in Bodies /\ b \in Bodies BY <1>2 DEF Bodies
<1>4. new.output \in Tables /\ new.output # None
  <2>1. 1 \in Nat \ {0} /\ "output" \in Kinds BY DEF Kinds
  <2>2. QED BY <1>1, <1>2, <1>3, <2>1, NewTables
<1>5. /\ new.output.kind = "output" /\ new.output.length = 1
      /\ new.output.seq = d.input.seq /\ new.output.body = b
  BY <1>1 DEF Table
<1>6. new.current \in Tables /\ new.current.kind = "current" /\ new.current.length = 1
  <2>1. CASE ok
    <3>1. new.current = Table("current", 0, d.input.body, 1) BY <1>1, <2>1
    <3>2. 0 \in Nat /\ 1 \in Nat \ {0} /\ "current" \in Kinds BY DEF Kinds
    <3>3. new.current \in Tables BY <1>3, <3>1, <3>2, NewTables
    <3>4. QED BY <3>1, <3>3 DEF Table
  <2>2. CASE ~ok BY <1>1, <2>2 DEF IsPcd
  <2>3. QED BY <2>1, <2>2
<1>7. IsPcd(new) BY <1>1, <1>4, <1>5, <1>6 DEF IsPcd
<1>8. Honest(new) BY <1>1, <1>5 DEF Honest
<1>9. GoalStatus(new) # "new"
  <2>1. ~(new.output = None \/ new.output.seq # new.input.seq) BY <1>1, <1>4, <1>5
  <2>2. GoalStatus(new) = IF new.output.body.ok THEN "success" ELSE "error"
    BY <2>1 DEF GoalStatus
  <2>3. QED BY <2>2
<1>10. QED BY <1>1, <1>7, <1>8, <1>9

\* What has to hold of a process.
Sound(p) == Tidy(p) /\ Writing(p) /\ Reading(p) /\ Holding(p)

\* A PCD is none.
LEMMA PcdIsSome ==
  ASSUME NEW d, IsPcd(d)
  PROVE  d # None
BY NoneAssumption DEF IsPcd, PCD

\* A new machine has the tables of the factory.
LEMMA PcInvInit == Init => PcInv
<1> SUFFICES ASSUME Init PROVE PcInv OBVIOUS
<1> USE DEF Init
<1>1. IsPcd(Factory)
  <2>1. Table("current", 0, None, 1) \in Tables
    <3>1. 0 \in Nat /\ 1 \in Nat \ {0} /\ None \in Bodies /\ "current" \in Kinds BY DEF Bodies, Kinds
    <3>2. QED BY <3>1, NewTables
  <2>2. QED BY <2>1 DEF IsPcd, Factory, PCD, Table
<1>2. Good(Factory) /\ Answers(Factory)
  BY <1>1 DEF Good, Answers, Honest, Factory, PCD
<1>3. Laid(Factory, flash)
  <2>1. Len(Layout(Factory)) = End(Factory) /\ End(Factory) \in 2..PartSize
    BY <1>1, LayoutIsLaid, Sizes
  <2>2. \A i \in 1..End(Factory) : flash[i] = Layout(Factory)[i]
    BY <2>1, GoalAssumption
  <2>3. QED BY <1>1, <2>2, CopyIsLaid
<1>4. PcTypes BY DEF PcTypes
<1>5. FlashInv BY <1>2, <1>3 DEF FlashInv
<1>6. Retry BY DEF Retry
<1>7. ASSUME NEW p \in Procs PROVE Sound(p)
  BY DEF Sound, Tidy, Writing, Reading, Holding, Has
<1>8. QED BY <1>4, <1>5, <1>6, <1>7 DEF PcInv, Sound

\* What a step of another leaves to a process.
LEMMA OtherStays ==
  ASSUME NEW q \in Procs, Sound(q),
         UNCHANGED <<flash, bios, pc[q], call[q], cache[q], need[q], buf[q], pos[q], view[q]>>,
         mixed' = "no" => mixed = "no",
         mixed = "no" /\ Quiet => mixed' = "no" /\ Quiet',
         OthersWriting(q)' => OthersWriting(q)
  PROVE  Sound(q)'
<1>1. Tidy(q) /\ Writing(q) /\ Reading(q) /\ Holding(q) BY DEF Sound
<1>2. Tidy(q)' BY <1>1 DEF Tidy
<1>3. Writing(q)' BY <1>1 DEF Writing
<1>4. Reading(q)' BY <1>1 DEF Reading
<1>5. Holding(q)' BY <1>1 DEF Holding, Has, Good
<1>6. QED BY <1>2, <1>3, <1>4, <1>5 DEF Sound

\* A call is made.
LEMMA CallKeeps ==
  ASSUME PcInv, NEW p \in Procs, NEW r \in Requests, Call(p, r)
  PROVE  PcInv'
<1> USE DEF Call, Goto, readVars
<1>1. PcTypes /\ FlashInv /\ Retry /\ \A q \in Procs : Sound(q) BY DEF PcInv, Sound
<1>2. PcTypes' BY <1>1 DEF PcTypes
<1>3. /\ Quiet' <=> Quiet
      /\ \A q \in Procs \ {p} : OthersWriting(q)' <=> OthersWriting(q)
      /\ ~OthersWriting(p) /\ pc[p] # "write" => Quiet
  BY <1>1 DEF PcTypes, Quiet, OthersWriting
<1>4. \A d : (Good(d) => Good(d)') /\ (Answers(d) => Answers(d)') BY DEF Good, Answers
<1>5. FlashInv' BY <1>1, <1>3, <1>4 DEF FlashInv
<1>6. Retry' BY <1>1, <1>3 DEF PcTypes, Retry, Sound, Tidy
<1>7. ASSUME NEW q \in Procs \ {p} PROVE Sound(q)'
  <2>1. UNCHANGED <<flash, bios, pc[q], call[q], cache[q], need[q], buf[q], pos[q], view[q], mixed>>
    BY <1>1 DEF PcTypes
  <2>2. QED BY <1>1, <1>3, <2>1, OtherStays
<1>8. Tidy(p) /\ Writing(p) /\ Reading(p) /\ Holding(p) BY <1>1 DEF Sound
<1>9. Sound(p)'
  <2>1. Tidy(p)' BY <1>1, <1>8 DEF PcTypes, Tidy
  <2>2. Writing(p)' BY <1>1 DEF PcTypes, Writing
  <2>3. Reading(p)' BY <1>1, <1>3 DEF PcTypes, Reading
  <2>4. Holding(p)' BY <1>1, <1>3, <1>4, <1>8 DEF PcTypes, Holding, Has, Tidy
  <2>5. QED BY <2>1, <2>2, <2>3, <2>4 DEF Sound
<1>10. QED BY <1>2, <1>5, <1>6, <1>7, <1>9 DEF PcInv, Sound

\* The length of a read is got.
LEMMA ReadSizeKeeps ==
  ASSUME PcInv, NEW p \in Procs, ReadSize(p)
  PROVE  PcInv'
<1> USE DEF ReadSize, Goto, CommandFails, Fault, Return, history
<1>1. PcTypes /\ FlashInv /\ Retry /\ \A q \in Procs : Sound(q) BY DEF PcInv, Sound
<1>2. PcTypes' BY <1>1 DEF PcTypes
<1>3. /\ Quiet' <=> Quiet
      /\ \A q \in Procs \ {p} : OthersWriting(q)' <=> OthersWriting(q)
      /\ ~OthersWriting(p) /\ pc[p] # "write" => Quiet
  BY <1>1 DEF PcTypes, Quiet, OthersWriting
<1>4. \A d : (Good(d) => Good(d)') /\ (Answers(d) => Answers(d)') BY DEF Good, Answers
<1>5. FlashInv' BY <1>1, <1>3, <1>4 DEF FlashInv
<1>6. Retry' BY <1>1, <1>3 DEF PcTypes, Retry, Sound, Tidy
<1>7. ASSUME NEW q \in Procs \ {p} PROVE Sound(q)'
  <2>1. UNCHANGED <<flash, bios, pc[q], call[q], cache[q], need[q], buf[q], pos[q], view[q], mixed>>
    BY <1>1 DEF PcTypes
  <2>2. QED BY <1>1, <1>3, <2>1, OtherStays
<1>8. Tidy(p) /\ Writing(p) /\ Reading(p) /\ Holding(p) BY <1>1 DEF Sound
<1>9. Sound(p)'
  <2>1. Tidy(p)' BY <1>1, <1>8 DEF PcTypes, Tidy
  <2>2. Writing(p)' BY <1>1 DEF PcTypes, Writing
  <2>3. Reading(p)'
    <3>1. CASE view[p] # "blurred"
      <4>1. view[p] = "clear" /\ mixed = "no" /\ Quiet BY <1>8, <3>1 DEF Reading
      <4>2. PICK d : Good(d) /\ Laid(d, flash) BY <1>1, <4>1 DEF FlashInv
      <4>3. Total(flash[1]) = End(d) /\ End(d) \in 2..PartSize
        BY <4>2, StoredDecodes, Sizes DEF Good
      <4>4. buf[p] = <<>> BY <1>8 DEF Tidy
      <4>5. Len(<<>>) = 0 /\ SubSeq(flash, 1, 0) = <<>> OBVIOUS
      <4>6. need'[p] = End(d) \/ pc'[p] = "idle" BY <1>1, <4>3 DEF PcTypes
      <4>7. UNCHANGED <<view[p], flash, mixed>> BY <1>1 DEF PcTypes
      <4>8. buf'[p] = <<>> BY <1>1, <4>4 DEF PcTypes
      <4>9. QED BY <1>3, <4>1, <4>3, <4>5, <4>6, <4>7, <4>8 DEF Reading
    <3>2. CASE view[p] = "blurred" BY <3>2 DEF Reading
    <3>3. QED BY <3>1, <3>2
  <2>4. Holding(p)' BY <1>1, <1>3, <1>4, <1>8 DEF PcTypes, Holding, Has, Tidy
  <2>5. QED BY <2>1, <2>2, <2>3, <2>4 DEF Sound
<1>10. QED BY <1>2, <1>5, <1>6, <1>7, <1>9 DEF PcInv, Sound

\* A get or a delete ends.
LEMMA AnswerKeeps ==
  ASSUME PcInv, NEW p \in Procs, Answer(p)
  PROVE  PcInv'
<1> USE DEF Answer, Return, history
<1>1. PcTypes /\ FlashInv /\ Retry /\ \A q \in Procs : Sound(q) BY DEF PcInv, Sound
<1>2. PcTypes' BY <1>1 DEF PcTypes
<1>3. /\ Quiet' <=> Quiet
      /\ \A q \in Procs \ {p} : OthersWriting(q)' <=> OthersWriting(q)
      /\ ~OthersWriting(p) /\ pc[p] # "write" => Quiet
  BY <1>1 DEF PcTypes, Quiet, OthersWriting
<1>4. \A d : (Good(d) => Good(d)') /\ (Answers(d) => Answers(d)') BY DEF Good, Answers
<1>5. FlashInv' BY <1>1, <1>3, <1>4 DEF FlashInv
<1>6. Retry' BY <1>1, <1>3 DEF PcTypes, Retry, Sound, Tidy
<1>7. ASSUME NEW q \in Procs \ {p} PROVE Sound(q)'
  <2>1. UNCHANGED <<flash, bios, pc[q], call[q], cache[q], need[q], buf[q], pos[q], view[q], mixed>>
    BY <1>1 DEF PcTypes
  <2>2. QED BY <1>1, <1>3, <2>1, OtherStays
<1>8. Tidy(p) /\ Writing(p) /\ Reading(p) /\ Holding(p) BY <1>1 DEF Sound
<1>9. Sound(p)'
  <2>1. Tidy(p)' BY <1>1, <1>8 DEF PcTypes, Tidy
  <2>2. Writing(p)' BY <1>1 DEF PcTypes, Writing
  <2>3. Reading(p)' BY <1>1 DEF PcTypes, Reading
  <2>4. Holding(p)' BY <1>1, <1>3, <1>4, <1>8 DEF PcTypes, Holding, Has, Tidy
  <2>5. QED BY <2>1, <2>2, <2>3, <2>4 DEF Sound
<1>10. QED BY <1>2, <1>5, <1>6, <1>7, <1>9 DEF PcInv, Sound

\* A write is over.
LEMMA WriteDoneKeeps ==
  ASSUME PcInv, NEW p \in Procs, WriteDone(p)
  PROVE  PcInv'
<1> USE DEF WriteDone, Return, history
<1>1. PcTypes /\ FlashInv /\ Retry /\ \A q \in Procs : Sound(q) BY DEF PcInv, Sound
<1>2. PcTypes' BY <1>1 DEF PcTypes
<1>3. /\ Quiet' <=> Quiet
      /\ \A q \in Procs \ {p} : OthersWriting(q)' <=> OthersWriting(q)
      /\ ~OthersWriting(p) /\ pc[p] # "write" => Quiet
  BY <1>1 DEF PcTypes, Quiet, OthersWriting
<1>4. \A d : (Good(d) => Good(d)') /\ (Answers(d) => Answers(d)') BY DEF Good, Answers
<1>5. FlashInv' BY <1>1, <1>3, <1>4 DEF FlashInv
<1>6. Retry' BY <1>1, <1>3 DEF PcTypes, Retry, Sound, Tidy
<1>7. ASSUME NEW q \in Procs \ {p} PROVE Sound(q)'
  <2>1. UNCHANGED <<flash, bios, pc[q], call[q], cache[q], need[q], buf[q], pos[q], view[q], mixed>>
    BY <1>1 DEF PcTypes
  <2>2. QED BY <1>1, <1>3, <2>1, OtherStays
<1>8. Tidy(p) /\ Writing(p) /\ Reading(p) /\ Holding(p) BY <1>1 DEF Sound
<1>9. Sound(p)'
  <2>1. Tidy(p)' BY <1>1, <1>8 DEF PcTypes, Tidy
  <2>2. Writing(p)' BY <1>1 DEF PcTypes, Writing
  <2>3. Reading(p)' BY <1>1 DEF PcTypes, Reading
  <2>4. Holding(p)' BY <1>1, <1>3, <1>4, <1>8 DEF PcTypes, Holding, Has, Tidy
  <2>5. QED BY <2>1, <2>2, <2>3, <2>4 DEF Sound
<1>10. QED BY <1>2, <1>5, <1>6, <1>7, <1>9 DEF PcInv, Sound

\* A piece of the flash is read: a part, the last that is accepted, or the
\* last that is not.
LEMMA ReadChunkKeeps ==
  ASSUME PcInv, NEW p \in Procs, ReadChunk(p)
  PROVE  PcInv'
<1> USE DEF ReadChunk, Goto, CommandFails, Fault, Return, history
<1>1. PcTypes /\ FlashInv /\ Retry /\ \A q \in Procs : Sound(q) BY DEF PcInv, Sound
<1>2. PcTypes' BY <1>1 DEF PcTypes
<1>3. /\ Quiet' <=> Quiet
      /\ \A q \in Procs \ {p} : OthersWriting(q)' <=> OthersWriting(q)
      /\ ~OthersWriting(p) /\ pc[p] # "write" => Quiet
  BY <1>1 DEF PcTypes, Quiet, OthersWriting
<1>4. \A d : (Good(d) => Good(d)') /\ (Answers(d) => Answers(d)') BY DEF Good, Answers
<1>5. FlashInv' BY <1>1, <1>3, <1>4 DEF FlashInv
<1>6. Retry' BY <1>1, <1>3 DEF PcTypes, Retry, Sound, Tidy
<1>7. ASSUME NEW q \in Procs \ {p} PROVE Sound(q)'
  <2>1. UNCHANGED <<flash, bios, pc[q], call[q], cache[q], need[q], buf[q], pos[q], view[q], mixed>>
    BY <1>1 DEF PcTypes
  <2>2. QED BY <1>1, <1>3, <2>1, OtherStays
<1>8. Tidy(p) /\ Writing(p) /\ Reading(p) /\ Holding(p) BY <1>1 DEF Sound
<1>9. Sound(p)'
  <2> DEFINE c == buf[p] \o Fetched(p)
  <2>1. \/ Len(c) < need[p] /\ buf' = [buf EXCEPT ![p] = c] /\ UNCHANGED <<cache, pc, call, need, pos>>
        \/ /\ Len(c) = need[p] /\ cache' = [cache EXCEPT ![p] = Decoded(c)]
           /\ buf' = [buf EXCEPT ![p] = <<>>] /\ Goto(p, "act") /\ UNCHANGED <<call, pos>>
        \/ Return(p) /\ UNCHANGED cache
    OBVIOUS
  <2>2. pc[p] = "read" /\ UNCHANGED <<flash, history>> OBVIOUS
  <2>3. view[p] # "blurred" =>
          \E d : /\ Good(d) /\ Laid(d, flash) /\ mixed = "no" /\ Quiet /\ view[p] = "clear"
                 /\ need[p] = End(d) /\ need[p] = Total(flash[1]) /\ need[p] \in Nat
                 /\ Len(c) \in 0..need[p] /\ c = SubSeq(flash, 1, Len(c))
                 /\ \A i \in 1..Len(c) : c[i] = flash[i]
    <3> HAVE view[p] # "blurred"
    <3>1. view[p] = "clear" /\ mixed = "no" /\ Quiet BY <1>8, <2>2 DEF Reading
    <3>2. PICK d : Good(d) /\ Laid(d, flash) BY <1>1, <3>1 DEF FlashInv
    <3>3. Total(flash[1]) = End(d) /\ End(d) \in 2..PartSize
      BY <3>2, StoredDecodes, Sizes DEF Good
    <3>4. /\ need[p] = Total(flash[1]) /\ Len(buf[p]) \in 0..(need[p] - 1)
          /\ buf[p] = SubSeq(flash, 1, Len(buf[p]))
      BY <1>8, <2>2 DEF Reading
    <3>5. need[p] \in 1..PartSize BY <3>3, <3>4
    <3>6. /\ Len(c) \in 0..need[p] /\ c = SubSeq(flash, 1, Len(c))
          /\ \A i \in 1..Len(c) : c[i] = flash[i]
      BY <1>1, <3>4, <3>5, ReadsOn
    <3>7. QED BY <3>1, <3>2, <3>3, <3>4, <3>5, <3>6
  <2> HIDE DEF c
  <2>4. cache[p] = None /\ pos[p] = 0 BY <1>8, <2>2 DEF Tidy
  <2>5. CASE Len(c) < need[p] /\ buf' = [buf EXCEPT ![p] = c] /\ UNCHANGED <<cache, pc, call, need, pos>>
    <3>1. Tidy(p)' BY <1>8, <2>2, <2>5 DEF Tidy
    <3>2. Writing(p)' BY <2>2, <2>5 DEF Writing
    <3>3. UNCHANGED <<pc[p], view[p], need[p], flash, mixed>> /\ buf'[p] = c BY <1>1, <2>2, <2>5 DEF PcTypes
    <3>4. Reading(p)' BY <1>3, <2>2, <2>3, <2>5, <3>3 DEF Reading
    <3>5. Holding(p)' BY <2>2, <2>4, <2>5 DEF Holding, Has
    <3>6. QED BY <3>1, <3>2, <3>4, <3>5 DEF Sound
  <2>6. CASE /\ Len(c) = need[p] /\ cache' = [cache EXCEPT ![p] = Decoded(c)]
             /\ buf' = [buf EXCEPT ![p] = <<>>] /\ Goto(p, "act") /\ UNCHANGED <<call, pos>>
    <3>1. Tidy(p)' BY <1>1, <1>8, <2>2, <2>4, <2>6 DEF PcTypes, Tidy
    <3>2. Writing(p)' BY <1>1, <2>6 DEF PcTypes, Writing
    <3>3. Reading(p)' BY <1>1, <2>6 DEF PcTypes, Reading
    <3>4. Holding(p)'
      <4>1. SUFFICES ASSUME view[p] # "blurred" PROVE Holding(p)' BY <2>2 DEF Holding
      <4>2. PICK d : /\ Good(d) /\ Laid(d, flash) /\ mixed = "no" /\ Quiet /\ view[p] = "clear"
                     /\ Len(c) = End(d) /\ \A i \in 1..End(d) : c[i] = flash[i]
        BY <2>3, <2>6, <4>1
      <4>3. IsPcd(d) BY <4>2 DEF Good
      <4>4. Laid(d, c) BY <4>2, <4>3, PrefixIsLaid
      <4>5. Decoded(c) = d BY <4>2, <4>3, <4>4, LaidDecodes
      <4>6. cache'[p] = d BY <1>1, <2>6, <4>5 DEF PcTypes
      <4>7. QED BY <1>3, <1>4, <2>2, <4>2, <4>6 DEF Holding
    <3>5. QED BY <3>1, <3>2, <3>3, <3>4 DEF Sound
  <2>7. CASE Return(p) /\ UNCHANGED cache
    <3>1. Tidy(p)' BY <1>1, <1>8, <2>4, <2>7 DEF PcTypes, Tidy
    <3>2. Writing(p)' BY <1>1, <2>7 DEF PcTypes, Writing
    <3>3. Reading(p)' BY <1>1, <2>7 DEF PcTypes, Reading
    <3>4. Holding(p)' BY <1>1, <2>4, <2>7 DEF PcTypes, Holding, Has
    <3>5. QED BY <3>1, <3>2, <3>3, <3>4 DEF Sound
  <2>8. QED BY <2>1, <2>5, <2>6, <2>7
<1>10. QED BY <1>2, <1>5, <1>6, <1>7, <1>9 DEF PcInv, Sound

\* A process dies.
LEMMA CrashKeeps ==
  ASSUME PcInv, NEW p \in Procs, Crash(p)
  PROVE  PcInv'
<1> USE DEF Crash, Fault, Return
<1>1. PcTypes /\ FlashInv /\ Retry /\ \A q \in Procs : Sound(q) BY DEF PcInv, Sound
<1>2. PcTypes' BY <1>1 DEF PcTypes
<1>3. /\ pc[p] # "write" => (Quiet' <=> Quiet)
      /\ Quiet => pc[p] # "write"
      /\ \A q \in Procs \ {p} : OthersWriting(q)' => OthersWriting(q)
      /\ mixed' = "no" => mixed = "no" /\ pc[p] # "write"
      /\ mixed = "no" /\ pc[p] # "write" => mixed' = "no"
      /\ mixed' # "failed"
  BY <1>1 DEF PcTypes, Quiet, OthersWriting
<1>4. \A d : (Good(d) => Good(d)') /\ (Answers(d) => Answers(d)') BY DEF Good, Answers
<1>5. FlashInv' BY <1>1, <1>3, <1>4 DEF FlashInv
<1>6. Retry' BY <1>3 DEF Retry
<1>7. ASSUME NEW q \in Procs \ {p} PROVE Sound(q)'
  <2>1. UNCHANGED <<flash, bios, pc[q], call[q], cache[q], need[q], buf[q], pos[q], view[q]>>
    BY <1>1 DEF PcTypes
  <2>2. QED BY <1>1, <1>3, <2>1, OtherStays
<1>8. pc'[p] = "idle" /\ cache'[p] = None /\ buf'[p] = <<>> /\ pos'[p] = 0 BY <1>1 DEF PcTypes
<1>9. Sound(p)' BY <1>8 DEF Sound, Tidy, Writing, Reading, Holding, Has
<1>10. QED BY <1>2, <1>5, <1>6, <1>7, <1>9 DEF PcInv, Sound

\* What a write does to the others: a read is blurred, a copy grows old.
LEMMA OthersDisturbed ==
  ASSUME NEW p \in Procs, NEW q \in Procs \ {p}, PcTypes, Sound(q), pc'[p] = "write" \/ mixed' = mixed,
         UNCHANGED <<bios, pc[q], call[q], cache[q], need[q], buf[q], pos[q]>>,
         view' = Disturbed(p),
         ~(mixed' = "no" /\ pc[q] = "write")
  PROVE  Sound(q)'
<1>1. Tidy(q) /\ Writing(q) /\ Reading(q) /\ Holding(q) BY DEF Sound
<1>2. /\ Has(q) => view'[q] = IF view[q] = "blurred" THEN "blurred" ELSE "stale"
      /\ pc[q] \in {"size", "read"} => view'[q] = "blurred"
  BY <1>1 DEF Disturbed, Tidy, Has
<1>3. Tidy(q)' BY <1>1 DEF Tidy
<1>4. Writing(q)' BY DEF Writing
<1>5. Reading(q)' BY <1>2 DEF Reading
<1>6. Holding(q)' BY <1>1, <1>2 DEF Holding, Has, Good
<1>7. QED BY <1>3, <1>4, <1>5, <1>6 DEF Sound

\* The PCD to write is built.
LEMMA PrepareKeeps ==
  ASSUME PcInv, NEW p \in Procs, Prepare(p)
  PROVE  PcInv'
<1> USE DEF Prepare, Goto
<1>1. PcTypes /\ FlashInv /\ Retry /\ \A q \in Procs : Sound(q) BY DEF PcInv, Sound
<1>2. Tidy(p) /\ Writing(p) /\ Reading(p) /\ Holding(p) BY <1>1 DEF Sound
<1>3. view' \in [Procs -> {"clear", "stale", "blurred"}] /\ view'[p] = view[p]
  BY <1>1 DEF PcTypes, Disturbed
<1>4. PcTypes' BY <1>1, <1>3 DEF PcTypes
<1>5. pc'[p] = "write" /\ ~Quiet' BY <1>1 DEF PcTypes, Quiet
<1>6. FlashInv' BY <1>5 DEF FlashInv
<1>7. Retry' BY DEF Retry
<1>8. ASSUME NEW q \in Procs \ {p} PROVE Sound(q)'
  <2>1. UNCHANGED <<bios, pc[q], call[q], cache[q], need[q], buf[q], pos[q]>>
    BY <1>1 DEF PcTypes
  <2>2. ~(mixed' = "no" /\ pc[q] = "write") BY DEF OthersWriting
  <2>3. QED BY <1>1, <1>5, <2>1, <2>2, OthersDisturbed
<1>9. call[p] \in Requests /\ pos[p] = 0 BY <1>2 DEF Tidy
<1>10. call[p].op # "get" BY DEF Updates
<1>11. UNCHANGED <<cache, call, pos, bios>> /\ buf'[p] = Layout(Updated(cache[p], call[p]))
  BY <1>1 DEF PcTypes
<1>12. view[p] # "blurred" => Good(cache[p]) BY <1>2 DEF Holding, Has
<1>13. Tidy(p)' BY <1>5, <1>9, <1>11 DEF Tidy
<1>14. Writing(p)'
  <2> SUFFICES ASSUME mixed' = "no" PROVE Writing(p)' BY DEF Writing
  <2>1. view[p] # "blurred" /\ ~OthersWriting(p) OBVIOUS
  <2>2. ~OthersWriting(p)' BY <1>1, <2>1 DEF PcTypes, OthersWriting
  <2> DEFINE u == Updated(cache[p], call[p])
  <2>3. IsPcd(u) BY <1>9, <1>10, <1>12, <2>1, UpdatedIsGood DEF Good
  <2>4. Len(Layout(u)) \in 2..PartSize BY <2>3, LayoutIsLaid, Sizes
  <2> HIDE DEF u
  <2>5. buf'[p] = Layout(u) /\ u = Updated(cache'[p], call'[p]) BY <1>11 DEF u
  <2>6. pos'[p] \in 0..(Len(buf'[p]) - 1) BY <1>9, <1>11, <2>4, <2>5
  <2>7. 1..pos'[p] = {} BY <1>9, <1>11
  <2>8. QED BY <1>3, <1>10, <1>11, <2>1, <2>2, <2>5, <2>6, <2>7 DEF Writing
<1>15. Reading(p)' BY <1>5 DEF Reading
<1>16. Holding(p)' BY <1>3, <1>5, <1>11, <1>12 DEF Holding, Good
<1>17. Sound(p)' BY <1>13, <1>14, <1>15, <1>16 DEF Sound
<1>18. QED BY <1>4, <1>6, <1>7, <1>8, <1>17 DEF PcInv, Sound

\* A piece is written.
LEMMA WriteChunkKeeps ==
  ASSUME PcInv, NEW p \in Procs, WriteChunk(p)
  PROVE  PcInv'
<1> USE DEF WriteChunk, Goto
<1> DEFINE to == IF large THEN Len(buf[p]) ELSE pos[p] + 1
<1>1. PcTypes /\ FlashInv /\ Retry /\ \A q \in Procs : Sound(q) BY DEF PcInv, Sound
<1>2. Tidy(p) /\ Writing(p) /\ Reading(p) /\ Holding(p) BY <1>1 DEF Sound
<1>3. view' \in [Procs -> {"clear", "stale", "blurred"}] /\ view'[p] = view[p]
  BY <1>1 DEF PcTypes, Disturbed
<1>4. /\ flash' = Overwritten(buf[p], pos[p] + 1, to)
      /\ UNCHANGED <<cache, call, need, buf, bios, mixed>> /\ pc[p] = "write" /\ view' = Disturbed(p)
  OBVIOUS
<1>5. \/ /\ to < Len(buf[p]) /\ pos' = [pos EXCEPT ![p] = to] /\ UNCHANGED <<pc, last, awaiting>>
      \/ /\ to = Len(buf[p]) /\ pos' = [pos EXCEPT ![p] = 0] /\ pc' = [pc EXCEPT ![p] = "done"]
         /\ last' = call[p].goal /\ awaiting' = TRUE
  OBVIOUS
<1>6. flash' = [i \in 1..PartSize |-> flash'[i]]
      /\ \A i \in 1..PartSize : flash'[i] = IF i \in (pos[p] + 1)..to THEN buf[p][i] ELSE flash[i]
  BY <1>4 DEF Overwritten
<1> HIDE DEF to
<1>7. PcTypes'
  <2>1. pc' \in [Procs -> {"idle", "size", "read", "act", "write", "done"}] /\ DOMAIN pos' = Procs
    BY <1>1, <1>5 DEF PcTypes
  <2>2. awaiting' \in BOOLEAN /\ large' \in BOOLEAN
    BY <1>1, <1>5, Zenon DEF PcTypes
  <2>3. /\ DOMAIN cache' = Procs /\ DOMAIN call' = Procs /\ DOMAIN need' = Procs /\ DOMAIN buf' = Procs
        /\ mixed' \in {"no", "failed", "cut"}
    BY <1>1, <1>4 DEF PcTypes
  <2>4. flash' = [i \in 1..PartSize |-> flash'[i]] BY <1>6
  <2>5. QED BY <1>3, <2>1, <2>2, <2>3, <2>4 DEF PcTypes
<1>8. mixed = "no" =>
        \E u : /\ u = Updated(cache[p], call[p]) /\ buf[p] = Layout(u) /\ Good(u) /\ IsPcd(u)
               /\ call[p] \in Requests /\ call[p].op # "get" /\ Good(cache[p]) /\ Len(buf[p]) = End(u)
               /\ pos[p] \in 0..(Len(buf[p]) - 1) /\ End(u) \in 2..PartSize
               /\ view[p] # "blurred" /\ ~OthersWriting(p)
               /\ \A i \in 1..pos[p] : flash[i] = buf[p][i]
  <2> HAVE mixed = "no"
  <2>1. /\ ~OthersWriting(p) /\ view[p] # "blurred" /\ call[p].op # "get"
        /\ buf[p] = Layout(Updated(cache[p], call[p])) /\ pos[p] \in 0..(Len(buf[p]) - 1)
        /\ \A i \in 1..pos[p] : flash[i] = buf[p][i]
    BY <1>2, <1>4 DEF Writing
  <2>2. call[p] \in Requests /\ Good(cache[p]) BY <1>2, <1>4, <2>1 DEF Tidy, Holding, Has
  <2> DEFINE u == Updated(cache[p], call[p])
  <2>3. Good(u) BY <2>1, <2>2, UpdatedIsGood
  <2>4. IsPcd(u) BY <2>3 DEF Good
  <2>5. Len(Layout(u)) = End(u) /\ End(u) \in 2..PartSize BY <2>4, LayoutIsLaid, Sizes
  <2> HIDE DEF u
  <2>6. buf[p] = Layout(u) BY <2>1 DEF u
  <2>7. u = Updated(cache[p], call[p]) BY DEF u
  <2>8. QED BY <2>1, <2>2, <2>3, <2>4, <2>5, <2>6, <2>7
<1>9. mixed = "no" => \A i \in 1..to : flash'[i] = buf[p][i] /\ i \in 1..PartSize
  <2> HAVE mixed = "no"
  <2>1. /\ Len(buf[p]) \in 2..PartSize /\ pos[p] \in 0..(Len(buf[p]) - 1)
        /\ \A i \in 1..pos[p] : flash[i] = buf[p][i]
    BY <1>8
  <2>2. to \in 1..PartSize BY <2>1, GoalAssumption DEF to
  <2> TAKE i \in 1..to
  <2>3. i \in 1..pos[p] \/ i \in (pos[p] + 1)..to
    BY <2>1, <2>2, GoalAssumption
  <2>4. i \in 1..PartSize BY <2>2, GoalAssumption
  <2>5. flash'[i] = IF i \in (pos[p] + 1)..to THEN buf[p][i] ELSE flash[i] BY <1>6, <2>4
  <2>6. QED BY <2>1, <2>3, <2>4, <2>5
<1>10. FlashInv'
  <2> SUFFICES ASSUME mixed = "no", Quiet'
               PROVE  \E d : Good(d)' /\ Answers(d)' /\ Laid(d, flash')
    BY <1>4 DEF FlashInv
  <2>1. /\ to = Len(buf[p]) /\ last' = call[p].goal /\ awaiting' = TRUE
    BY <1>1, <1>4, <1>5 DEF Quiet, PcTypes
  <2>2. PICK u : /\ u = Updated(cache[p], call[p]) /\ buf[p] = Layout(u) /\ Good(u) /\ IsPcd(u)
                 /\ call[p] \in Requests /\ call[p].op # "get" /\ Good(cache[p]) /\ Len(buf[p]) = End(u)
    BY <1>8
  <2>3. Laid(u, flash') BY <1>9, <2>1, <2>2, CopyIsLaid
  <2>4. Good(u)' BY <1>4, <2>2 DEF Good
  <2>5. Answers(u)'
    <3>1. CASE call[p].op = "create"
      <4>1. /\ call[p].goal \in Goals /\ u.input # None /\ u.input.body = call[p].goal
            /\ GoalStatus(u) = "new"
        BY <2>2, <3>1, UpdatedIsGood
      <4>2. QED BY <2>1, <4>1, NoneAssumption DEF Answers
    <3>2. CASE call[p].op # "create"
      <4>1. call[p].goal = None /\ u.input = None BY <2>2, <3>2, UpdatedIsGood
      <4>2. QED BY <2>1, <4>1 DEF Answers
    <3>3. QED BY <3>1, <3>2
  <2>6. QED BY <2>3, <2>4, <2>5
<1>11. Retry' BY <1>1, <1>4 DEF Retry, Quiet
<1>12. ASSUME NEW q \in Procs \ {p} PROVE Sound(q)'
  <2>1. UNCHANGED <<bios, pc[q], call[q], cache[q], need[q], buf[q], pos[q]>>
    BY <1>1, <1>4, <1>5 DEF PcTypes
  <2>2. ~(mixed' = "no" /\ pc[q] = "write") BY <1>4, <1>8 DEF OthersWriting
  <2>3. QED BY <1>1, <1>4, <2>1, <2>2, OthersDisturbed
<1>13. Tidy(p)' BY <1>1, <1>2, <1>4, <1>5 DEF PcTypes, Tidy
<1>14. Writing(p)'
  <2> SUFFICES ASSUME mixed = "no", pc'[p] = "write" PROVE Writing(p)' BY <1>4 DEF Writing
  <2>1. to < Len(buf[p]) /\ pos'[p] = to /\ UNCHANGED pc BY <1>1, <1>5 DEF PcTypes
  <2>2. /\ buf[p] = Layout(Updated(cache[p], call[p])) /\ call[p].op # "get" /\ ~OthersWriting(p)
        /\ view[p] # "blurred" /\ pos[p] \in 0..(Len(buf[p]) - 1) /\ Len(buf[p]) \in Nat
    BY <1>8
  <2>3. to \in 0..(Len(buf[p]) - 1) BY <2>1, <2>2 DEF to
  <2>4. ~OthersWriting(p)' BY <2>1, <2>2 DEF OthersWriting
  <2>5. UNCHANGED <<buf[p], cache[p], call[p], view[p]>> BY <1>3, <1>4
  <2>6. \A i \in 1..pos'[p] : flash'[i] = buf'[p][i] BY <1>9, <2>1, <2>5
  <2>7. QED BY <2>1, <2>2, <2>3, <2>4, <2>5, <2>6 DEF Writing
<1>15. Reading(p)' BY <1>1, <1>4, <1>5 DEF PcTypes, Reading
<1>16. Holding(p)'
  <2>1. pc'[p] \in {"write", "done"} /\ (Has(p)' => Has(p)) BY <1>1, <1>4, <1>5 DEF PcTypes, Has
  <2>2. QED BY <1>2, <1>3, <1>4, <2>1 DEF Holding, Good
<1>17. Sound(p)' BY <1>13, <1>14, <1>15, <1>16 DEF Sound
<1>18. QED BY <1>7, <1>10, <1>11, <1>12, <1>17 DEF PcInv, Sound

\* A write fails.
LEMMA WriteFailsKeeps ==
  ASSUME PcInv, NEW p \in Procs, WriteFails(p)
  PROVE  PcInv'
<1> USE DEF WriteFails, CommandFails, Fault, Return
<1>1. PcTypes /\ FlashInv /\ Retry /\ \A q \in Procs : Sound(q) BY DEF PcInv, Sound
<1>2. Tidy(p) /\ Writing(p) /\ Reading(p) /\ Holding(p) BY <1>1 DEF Sound
<1>3. PcTypes' BY <1>1 DEF PcTypes
<1>4. /\ pc[p] = "write" /\ ~Quiet /\ mixed' # "no"
      /\ mixed' = "failed" => mixed = "no"
      /\ UNCHANGED <<flash, cache, bios>>
  BY DEF Quiet
<1>5. /\ pc'[p] = "idle" /\ buf'[p] = <<>> /\ pos'[p] = 0
      /\ view'[p] = IF view[p] = "clear" THEN "stale" ELSE view[p]
      /\ \A q \in Procs \ {p} : UNCHANGED <<pc[q], call[q], need[q], buf[q], pos[q], view[q]>>
  BY <1>1 DEF PcTypes
<1>6. FlashInv' BY <1>4 DEF FlashInv
<1>7. Retry'
  <2> SUFFICES ASSUME mixed = "no" PROVE Retry' BY <1>4 DEF Retry
  <2>1. ~OthersWriting(p) /\ view[p] # "blurred" BY <1>2, <1>4 DEF Writing
  <2>2. Quiet' BY <1>5, <2>1 DEF Quiet, OthersWriting
  <2>3. IsPcd(cache[p]) BY <1>2, <1>4, <2>1 DEF Holding, Has, Good
  <2>4. cache'[p] # None BY <1>4, <2>3, PcdIsSome
  <2>5. view'[p] # "blurred" BY <1>5, <2>1
  <2>6. QED BY <1>5, <2>2, <2>4, <2>5 DEF Retry
<1>8. ASSUME NEW q \in Procs \ {p} PROVE Sound(q)'
  <2>1. UNCHANGED <<pc[q], call[q], cache[q], need[q], buf[q], pos[q], view[q]>> BY <1>4, <1>5
  <2>2. Tidy(q) /\ Writing(q) /\ Reading(q) /\ Holding(q) BY <1>1 DEF Sound
  <2>3. Tidy(q)' BY <2>1, <2>2 DEF Tidy
  <2>4. Writing(q)' BY <1>4 DEF Writing
  <2>5. Reading(q)' BY <1>4, <2>1, <2>2 DEF Reading
  <2>6. Holding(q)' BY <1>4, <2>1, <2>2 DEF Holding, Has, Good
  <2>7. QED BY <2>3, <2>4, <2>5, <2>6 DEF Sound
<1>9. Sound(p)'
  <2>1. Tidy(p)' BY <1>5 DEF Tidy
  <2>2. Writing(p)' BY <1>4 DEF Writing
  <2>3. Reading(p)' BY <1>5 DEF Reading
  <2>4. Holding(p)' BY <1>2, <1>4, <1>5 DEF Holding, Has, Good
  <2>5. QED BY <2>1, <2>2, <2>3, <2>4 DEF Sound
<1>10. QED BY <1>3, <1>6, <1>7, <1>8, <1>9 DEF PcInv, Sound

\* The machine restarts, and BIOS answers a goal that is new to it.
LEMMA BootKeeps ==
  ASSUME PcInv, Boot
  PROVE  PcInv'
<1> USE DEF Boot
<1> DEFINE d0 == Decoded(Stored)
           fresh == Readable /\ d0.input # None /\ LastSeq(d0) # d0.input.seq
<1>1. PcTypes /\ FlashInv /\ Retry /\ \A q \in Procs : Sound(q) BY DEF PcInv, Sound
<1>2. /\ pc' = [p \in Procs |-> "idle"] /\ cache' = [p \in Procs |-> None]
      /\ buf' = [p \in Procs |-> <<>>] /\ pos' = [p \in Procs |-> 0]
      /\ mixed' # "failed" /\ (mixed' = "no" => mixed = "no" /\ Quiet)
      /\ awaiting' = FALSE /\ last' = last
  OBVIOUS
<1>3. \/ /\ fresh
         /\ \E ok \in BOOLEAN :
              LET new == Processed(d0, ok) IN
              /\ flash' = Overwritten(Layout(new), 1, Len(Layout(new)))
              /\ bios' = [current |-> new.current, output |-> new.output]
      \/ ~fresh /\ UNCHANGED <<flash, bios>>
  OBVIOUS
<1>4. PcTypes' BY <1>1 DEF PcTypes, Overwritten
<1>5. FlashInv'
  <2> SUFFICES ASSUME mixed = "no", Quiet
               PROVE  \E d : Good(d)' /\ Answers(d)' /\ Laid(d, flash')
    BY <1>2 DEF FlashInv
  <2>1. PICK d : Good(d) /\ Answers(d) /\ Laid(d, flash) BY <1>1 DEF FlashInv
  <2>2. IsPcd(d) BY <2>1 DEF Good
  <2>3. Readable /\ d0 = d BY <2>1, <2>2, StoredDecodes
  <2> HIDE DEF d0
  <2>4. CASE fresh
    <3>1. d.input # None BY <2>3, <2>4
    <3>2. PICK ok \in BOOLEAN :
            /\ flash' = Overwritten(Layout(Processed(d, ok)), 1, Len(Layout(Processed(d, ok))))
            /\ bios' = [current |-> Processed(d, ok).current, output |-> Processed(d, ok).output]
      BY <1>3, <2>3, <2>4
    <3> DEFINE new == Processed(d, ok)
    <3>3. /\ IsPcd(new) /\ Honest(new) /\ new.input = d.input /\ GoalStatus(new) # "new"
      BY <2>2, <3>1, ProcessedIsGood
    <3> HIDE DEF new
    <3>4. /\ flash' = Overwritten(Layout(new), 1, Len(Layout(new)))
          /\ bios' = [current |-> new.current, output |-> new.output]
      BY <3>2 DEF new
    <3>5. Len(Layout(new)) = End(new) /\ End(new) \in 2..PartSize BY <3>3, LayoutIsLaid, Sizes
    <3>6. \A i \in 1..End(new) : flash'[i] = Layout(new)[i]
      BY <3>4, <3>5, GoalAssumption DEF Overwritten
    <3>7. Laid(new, flash') BY <3>3, <3>6, CopyIsLaid
    <3>8. Good(new)' BY <3>3, <3>4 DEF Good
    <3>9. Answers(new)' BY <1>2, <2>1, <3>1, <3>3 DEF Answers
    <3>10. QED BY <3>7, <3>8, <3>9
  <2>5. CASE ~fresh
    <3>1. UNCHANGED <<flash, bios>> BY <1>3, <2>5
    <3>2. Good(d)' BY <2>1, <3>1 DEF Good
    <3>3. ASSUME last # None PROVE d.input # None /\ d.input.body = last /\ GoalStatus(d) # "new"
      <4>1. d.input # None /\ d.input.body = last BY <2>1, <3>3 DEF Answers
      <4>2. LastSeq(d) = d.input.seq BY <2>3, <2>5, <4>1
      <4>3. d.output # None /\ d.output.seq = d.input.seq BY <2>2, <4>1, <4>2 DEF IsPcd, LastSeq
      <4>4. ~(d.output = None \/ d.output.seq # d.input.seq) BY <4>3
      <4>5. GoalStatus(d) = IF d.output.body.ok THEN "success" ELSE "error"
        BY <4>4 DEF GoalStatus
      <4>6. QED BY <4>1, <4>5
    <3>4. Answers(d)' BY <1>2, <2>1, <3>3 DEF Answers
    <3>5. QED BY <2>1, <3>1, <3>2, <3>4
  <2>6. QED BY <2>4, <2>5
<1>6. Retry' BY <1>2 DEF Retry
<1>7. ASSUME NEW q \in Procs PROVE Sound(q)'
  <2>1. pc'[q] = "idle" /\ cache'[q] = None /\ buf'[q] = <<>> /\ pos'[q] = 0 BY <1>2
  <2>2. QED BY <2>1 DEF Sound, Tidy, Writing, Reading, Holding, Has
<1>8. QED BY <1>4, <1>5, <1>6, <1>7 DEF PcInv, Sound

\* Nothing happens to the DIMM.
LEMMA PcStays ==
  ASSUME PcInv, UNCHANGED vars
  PROVE  PcInv'
<1> USE DEF vars, procVars, readVars, history
<1>1. PcTypes /\ FlashInv /\ Retry /\ \A q \in Procs : Sound(q) BY DEF PcInv, Sound
<1>2. PcTypes' BY <1>1 DEF PcTypes
<1>3. (Quiet' <=> Quiet) /\ \A q \in Procs : OthersWriting(q)' <=> OthersWriting(q)
  BY DEF Quiet, OthersWriting
<1>4. FlashInv' BY <1>1, <1>3 DEF FlashInv, Good, Answers
<1>5. Retry' BY <1>1, <1>3 DEF Retry
<1>6. ASSUME NEW q \in Procs PROVE Sound(q)' BY <1>1, <1>3, OtherStays
<1>7. QED BY <1>2, <1>4, <1>5, <1>6 DEF PcInv, Sound

\* The invariant holds from step to step.
LEMMA PcInvNext == PcInv /\ [Next]_vars => PcInv'
<1> SUFFICES ASSUME PcInv, [Next]_vars PROVE PcInv' OBVIOUS
<1>1. ASSUME NEW p \in Procs, NEW r \in Requests, Call(p, r) PROVE PcInv' BY <1>1, CallKeeps
<1>2. ASSUME NEW p \in Procs, ReadSize(p) PROVE PcInv' BY <1>2, ReadSizeKeeps
<1>3. ASSUME NEW p \in Procs, ReadChunk(p) PROVE PcInv' BY <1>3, ReadChunkKeeps
<1>4. ASSUME NEW p \in Procs, Answer(p) PROVE PcInv' BY <1>4, AnswerKeeps
<1>5. ASSUME NEW p \in Procs, Prepare(p) PROVE PcInv' BY <1>5, PrepareKeeps
<1>6. ASSUME NEW p \in Procs, WriteChunk(p) PROVE PcInv' BY <1>6, WriteChunkKeeps
<1>7. ASSUME NEW p \in Procs, WriteFails(p) PROVE PcInv' BY <1>7, WriteFailsKeeps
<1>8. ASSUME NEW p \in Procs, WriteDone(p) PROVE PcInv' BY <1>8, WriteDoneKeeps
<1>9. ASSUME NEW p \in Procs, Crash(p) PROVE PcInv' BY <1>9, CrashKeeps
<1>10. CASE Boot BY <1>10, BootKeeps
<1>11. CASE UNCHANGED vars BY <1>11, PcStays
<1>12. QED
  BY <1>1, <1>2, <1>3, <1>4, <1>5, <1>6, <1>7, <1>8, <1>9, <1>10, <1>11 DEF Next

\* So it holds always, beside the lists of namespaces too.
LEMMA PcAlways == SpecAll => []PcInv
<1>1. InitAll => PcInv BY PcInvInit DEF InitAll
<1>2. PcInv /\ [NextAll]_allVars => PcInv'
  <2>1. [NextAll]_allVars => [Next]_vars BY DEF NextAll, allVars
  <2>2. QED BY <2>1, PcInvNext
<1>3. QED BY <1>1, <1>2, PTL DEF SpecAll

\* Whatever the processes do, and whichever commands fail, what is on the flash
\* is what BIOS and the last writer left, as long as writes neither overlapped
\* nor were cut short; and after one that failed somebody can write it again.
THEOREM TablesStandAlways == SpecAll => []TablesStand
<1>1. PcInv => TablesStand
  <2> SUFFICES ASSUME PcInv PROVE TablesStand OBVIOUS
  <2>1. FlashInv /\ Retry BY DEF PcInv
  <2>2. WriterCanRetry BY <2>1 DEF Retry, WriterCanRetry
  <2>3. ASSUME mixed = "no", Quiet
        PROVE  Readable /\ Good(Decoded(Stored)) /\ Answers(Decoded(Stored))
    <3>1. PICK d : Good(d) /\ Answers(d) /\ Laid(d, flash) BY <2>1, <2>3 DEF FlashInv
    <3>2. QED BY <3>1, StoredDecodes DEF Good
  <2>4. BiosTablesKept BY <2>3 DEF BiosTablesKept, Good
  <2>5. LastWriteStands BY <2>3 DEF LastWriteStands, Answers
  <2>6. QED BY <2>2, <2>4, <2>5 DEF TablesStand
<1>2. QED BY <1>1, PcAlways, PTL

\* The answer of BIOS that a PCD carries is about the goal in it.
THEOREM StatusIsHonest == SpecAll => []StatusHonest
<1>1. PcInv => StatusHonest
  <2> SUFFICES ASSUME PcInv PROVE StatusHonest OBVIOUS
  <2>1. ASSUME NEW d \in Undisturbed PROVE Honest(d)
    <3>1. CASE \E p \in Procs : cache[p] # None /\ view[p] # "blurred" /\ d = cache[p]
      BY <3>1 DEF PcInv, Holding, Has, Good
    <3>2. CASE mixed = "no" /\ Quiet /\ d = Decoded(Stored)
      <4>1. PICK e : Good(e) /\ Laid(e, flash) BY <3>2 DEF PcInv, FlashInv
      <4>2. QED BY <3>2, <4>1, StoredDecodes DEF Good
    <3>3. QED BY <2>1, <3>1, <3>2 DEF Undisturbed
  <2>2. ASSUME NEW d \in Undisturbed, d.input # None, GoalStatus(d) # "new"
        PROVE  d.output.body.goal = d.input.body
    <3>1. d.output # None /\ d.output.seq = d.input.seq BY <2>2 DEF GoalStatus
    <3>2. QED BY <2>1, <2>2, <3>1 DEF Honest
  <2>3. QED BY <2>2 DEF StatusHonest
<1>2. QED BY <1>1, PcAlways, PTL

\* A process does not go on with a copy that its own write made stale.
THEOREM CachesAreCoherent == SpecAll => []CacheCoherent
<1>1. PcInv => CacheCoherent
  <2> SUFFICES ASSUME PcInv, NEW p \in Procs,
                      cache[p] # None, view[p] = "clear", pc[p] \notin {"write", "done"}
               PROVE  Readable /\ cache[p] = Decoded(Stored)
    BY DEF CacheCoherent
  <2>1. IsPcd(cache[p]) /\ Laid(cache[p], flash) BY DEF PcInv, Holding, Has, Good
  <2>2. QED BY <2>1, StoredDecodes
<1>2. QED BY <1>1, PcAlways, PTL
=============================================================================
