------------------------------ MODULE NvmContext ------------------------------
(***************************************************************************)
(* The library's cache of what the driver reports                          *)
(* (src/src/lib/nvm_context.c) and the calls that fill, use and invalidate *)
(* it for namespaces and pools (src/src/lib/namespace.c, pool.c).          *)
(*                                                                         *)
(* Every function of nvm_context.c is one critical section of              *)
(* g_context_lock and one step; the calls to the driver are steps of their *)
(* own, outside the lock.  Threads of one process share the cache; other   *)
(* processes share only the driver.                                        *)
(***************************************************************************)
EXTENDS Integers, FiniteSets, FiniteSetsExt

CONSTANTS
  Threads,      \* threads of this process
  Namespaces,   \* namespace guids
  NoContext,    \* p_context = NULL
  Nothing,      \* an entry of the context that is not filled
  MaxVersion,   \* bound on the changes of namespaces
  MaxCalls,     \* bound on the calls
  MaxFaults,    \* bound on the driver calls that fail
  MaxRooms,     \* bound on the contexts created
  Others        \* TRUE: another process changes namespaces too

VARIABLES
  driver,    \* version of each namespace; 0 when it does not exist
  clock,     \* the last version given out
  ctx,       \* p_context: [list, details, pools], or NoContext
  pc,        \* where each thread is in the library
  arg,       \* the namespace its call is about
  goal,      \* what follows a details read: "return" or "change"
  room,      \* size of the array it passed for the list
  got,       \* what it fetched from the driver
  result,    \* what its last call returned, or Nothing for an error
  overran,   \* history: a copy went beyond the cached list
  snapshots, \* history: every list the driver has had
  raced,     \* history: a change overlapped a read, or was another process's
  calls, faults, contexts

threadVars == <<pc, arg, goal, room, got, result>>
vars == <<driver, clock, ctx, threadVars, overran, snapshots, raced, calls, faults, contexts>>

\* Lists and pools are sets of <<namespace, version>>.
Present == {n \in Namespaces : driver[n] > 0}
Now == {<<n, driver[n]>> : n \in Present}
Names(list) == {e[1] : e \in list}

NoDetails == [n \in Namespaces |-> Nothing]
Empty == [list |-> Nothing, details |-> NoDetails, pools |-> Nothing]

Cached(entry) == ctx # NoContext /\ ctx[entry] # Nothing

Init ==
  /\ driver \in [Namespaces -> {0, 1}] /\ clock = 1
  /\ ctx = NoContext
  /\ pc = [t \in Threads |-> "idle"]
  /\ arg = [t \in Threads |-> Nothing]
  /\ goal = [t \in Threads |-> "return"]
  /\ room = [t \in Threads |-> 0]
  /\ got = [t \in Threads |-> Nothing]
  /\ result = [t \in Threads |-> Nothing]
  /\ overran = FALSE
  /\ snapshots = {Now}
  /\ raced = FALSE
  /\ calls = 0 /\ faults = 0 /\ contexts = 0

-----------------------------------------------------------------------------
(* Pieces *)

Reading(t) == pc[t] \in {"list", "listFetch", "listStore", "details", "detailsFetch", "detailsStore"}

\* A read that begins while the cache has not caught up with a change.
ReadBegins == raced' = (raced \/ \E t \in Threads : pc[t] = "invalidate")

Step(t, from, to) == pc[t] = from /\ pc' = [pc EXCEPT ![t] = to]

CanFail == faults < MaxFaults
Fail == CanFail /\ faults' = faults + 1

\* A call begins; the driver and the cache are as they are.
Call(t, to) ==
  /\ Step(t, "idle", to)
  /\ calls < MaxCalls
  /\ calls' = calls + 1
  /\ result' = [result EXCEPT ![t] = Nothing]

Return(t, value) ==
  /\ pc' = [pc EXCEPT ![t] = "idle"]
  /\ result' = [result EXCEPT ![t] = value]
  /\ got' = [got EXCEPT ![t] = Nothing]
  /\ room' = [room EXCEPT ![t] = 0]
  /\ arg' = [arg EXCEPT ![t] = Nothing]
  /\ goal' = [goal EXCEPT ![t] = "return"]

\* A namespace is created, changed or deleted; the driver's view of it moves.
Change(n) ==
  /\ clock < MaxVersion
  /\ clock' = clock + 1
  /\ \E v \in {0, clock + 1} : driver[n] # v /\ driver' = [driver EXCEPT ![n] = v]
  /\ snapshots' = snapshots \cup {{<<m, driver'[m]>> : m \in {k \in Namespaces : driver'[k] > 0}}}

-----------------------------------------------------------------------------
(* The life of the context *)

\* nvm_free_context.
FreeContext(t) ==
  /\ pc[t] = "idle"
  /\ ctx # NoContext
  /\ ctx' = NoContext
  /\ UNCHANGED <<driver, clock, threadVars, overran, snapshots, raced, calls, faults, contexts>>

\* nvm_create_context frees the old context in one section ...
CreateContext(t) ==
  /\ Step(t, "idle", "create")
  /\ contexts < MaxRooms
  /\ contexts' = contexts + 1
  /\ ctx' = NoContext
  /\ UNCHANGED <<driver, clock, arg, goal, room, got, result, overran, snapshots, raced, calls, faults>>

\* ... and sets up a new one in another; a context that came up in between
\* is dropped without being freed.
NewContext(t) ==
  /\ Step(t, "create", "idle")
  /\ ctx' = Empty
  /\ UNCHANGED <<driver, clock, arg, goal, room, got, result, overran, snapshots, raced, calls, faults, contexts>>

-----------------------------------------------------------------------------
(* nvm_get_namespaces *)

\* The caller sizes its array with nvm_get_namespace_count, which asks the
\* driver.
CountNamespaces(t) ==
  /\ Call(t, "list")
  /\ Present # {}
  /\ room' = [room EXCEPT ![t] = Cardinality(Present)]
  /\ ReadBegins
  /\ UNCHANGED <<driver, clock, ctx, arg, goal, got, overran, snapshots, faults, contexts>>

\* get_nvm_context_namespaces: the loop runs to the caller's count, not to
\* the smaller of the two.
ListRead(t) ==
  /\ pc[t] = "list"
  /\ IF Cached("list")
     THEN /\ Return(t, IF room[t] < Cardinality(ctx.list) THEN Nothing ELSE [list |-> ctx.list])
          /\ overran' = (overran \/ room[t] > Cardinality(ctx.list))
     ELSE /\ pc' = [pc EXCEPT ![t] = "listFetch"]
          /\ UNCHANGED <<arg, goal, room, got, result, overran>>
  /\ UNCHANGED <<driver, clock, ctx, snapshots, raced, calls, faults, contexts>>

\* The list comes from the driver; with none there is nothing to store.
ListFetch(t) ==
  /\ pc[t] = "listFetch"
  /\ \/ /\ Present # {} /\ got' = [got EXCEPT ![t] = Now] /\ UNCHANGED faults
        /\ pc' = [pc EXCEPT ![t] = "listStore"]
        /\ UNCHANGED <<arg, goal, room, result>>
     \/ Present = {} /\ Return(t, [list |-> {}]) /\ UNCHANGED faults
     \/ Fail /\ Return(t, Nothing)
  /\ UNCHANGED <<driver, clock, ctx, overran, snapshots, raced, calls, contexts>>

\* Mutant of StoreList: the details stay, whatever list they belong to.
StoreListKeepsDetails(list) == IF ctx = NoContext THEN UNCHANGED ctx
                               ELSE ctx' = [ctx EXCEPT !.list = list]

StoreList(list) == IF ctx = NoContext THEN UNCHANGED ctx
                   ELSE ctx' = [ctx EXCEPT !.list = list, !.details = NoDetails]

\* Mutant of ListStore: what fitted into the array is stored.
ListStoreTruncated(t) ==
  /\ pc[t] = "listStore"
  /\ IF Cardinality(got[t]) > room[t]
     THEN (\E part \in kSubset(room[t], got[t]) : StoreList(part)) /\ Return(t, Nothing)
     ELSE StoreList(got[t]) /\ Return(t, [list |-> got[t]])
  /\ UNCHANGED <<driver, clock, overran, snapshots, raced, calls, faults, contexts>>

\* set_nvm_context_namespaces.  An array that has become too small passes
\* a negative count: the old list goes and no new one can be allocated.
ListStore(t) ==
  /\ pc[t] = "listStore"
  /\ IF Cardinality(got[t]) > room[t]
     THEN StoreList(Nothing) /\ Return(t, Nothing)
     ELSE StoreList(got[t]) /\ Return(t, [list |-> got[t]])
  /\ UNCHANGED <<driver, clock, overran, snapshots, raced, calls, faults, contexts>>

-----------------------------------------------------------------------------
(* nvm_get_namespace_details, and the calls that begin with it *)

DetailsCall(t, n, next) ==
  /\ Call(t, "details")
  /\ arg' = [arg EXCEPT ![t] = n]
  /\ goal' = [goal EXCEPT ![t] = next]
  /\ ReadBegins
  /\ UNCHANGED <<driver, clock, ctx, room, got, overran, snapshots, faults, contexts>>

\* A success ends the read or goes on to the change.
DetailsDone(t, details) ==
  IF goal[t] = "return" THEN Return(t, [details |-> details])
  ELSE pc' = [pc EXCEPT ![t] = "change"] /\ UNCHANGED <<arg, goal, room, got, result>>

DetailsRead(t) ==
  /\ pc[t] = "details"
  /\ IF ctx # NoContext /\ ctx.details[arg[t]] # Nothing
     THEN DetailsDone(t, ctx.details[arg[t]])
     ELSE /\ pc' = [pc EXCEPT ![t] = "detailsFetch"]
          /\ UNCHANGED <<arg, goal, room, got, result>>
  /\ UNCHANGED <<driver, clock, ctx, overran, snapshots, raced, calls, faults, contexts>>

\* The driver knows the namespace or not; a failed query for its security or
\* its interleave set leaves the details incomplete and is an error.
DetailsFetch(t) ==
  /\ pc[t] = "detailsFetch"
  /\ \/ /\ arg[t] \in Present
        /\ DetailsDone(t, [version |-> driver[arg[t]], whole |-> TRUE])
        /\ UNCHANGED faults
     \/ /\ arg[t] \in Present
        /\ got' = [got EXCEPT ![t] = [version |-> driver[arg[t]], whole |-> FALSE]]
        /\ pc' = [pc EXCEPT ![t] = "detailsStore"]
        /\ Fail
        /\ UNCHANGED <<arg, goal, room, result>>
     \/ arg[t] \notin Present /\ Return(t, Nothing) /\ UNCHANGED faults
  /\ UNCHANGED <<driver, clock, ctx, overran, snapshots, raced, calls, contexts>>

\* set_nvm_context_namespace_details, which the caller reaches with an
\* error; a namespace that is not in the cached list is not stored.
DetailsStore(t) ==
  /\ pc[t] = "detailsStore"
  /\ ctx' = IF Cached("list") /\ arg[t] \in Names(ctx.list)
            THEN [ctx EXCEPT !.details[arg[t]] = got[t]] ELSE ctx
  /\ Return(t, Nothing)
  /\ UNCHANGED <<driver, clock, overran, snapshots, raced, calls, faults, contexts>>

-----------------------------------------------------------------------------
(* The calls that change a namespace *)

\* nvm_create_namespace and nvm_modify_namespace_name go to the driver at
\* once; the block count, the enabled state and the deletion read the
\* details first (DetailsCall).
ChangeCall(t, n) ==
  /\ Call(t, "change")
  /\ arg' = [arg EXCEPT ![t] = n]
  /\ UNCHANGED <<driver, clock, ctx, goal, room, got, overran, snapshots, raced, faults, contexts>>

ChangeDriver(t) ==
  /\ pc[t] = "change"
  /\ \/ Change(arg[t]) /\ pc' = [pc EXCEPT ![t] = "invalidate"]
        /\ raced' = (raced \/ \E u \in Threads \ {t} : Reading(u))
        /\ UNCHANGED <<arg, goal, room, got, result>>
     \/ Return(t, Nothing) /\ UNCHANGED <<driver, clock, snapshots, raced>>
  /\ UNCHANGED <<ctx, overran, calls, faults, contexts>>

\* Mutant of Invalidate: the details go, the list stays.
InvalidateDetails(t) ==
  /\ pc[t] = "invalidate"
  /\ ctx' = IF ctx = NoContext THEN ctx ELSE [ctx EXCEPT !.details = NoDetails]
  /\ Return(t, Nothing)
  /\ UNCHANGED <<driver, clock, overran, snapshots, raced, calls, faults, contexts>>

\* invalidate_namespaces: the list goes, and the details in it.
Invalidate(t) ==
  /\ pc[t] = "invalidate"
  /\ StoreList(Nothing)
  /\ Return(t, Nothing)
  /\ UNCHANGED <<driver, clock, overran, snapshots, raced, calls, faults, contexts>>

OtherProcess(n) ==
  /\ Others
  /\ Change(n)
  /\ raced' = TRUE
  /\ UNCHANGED <<ctx, threadVars, overran, calls, faults, contexts>>

-----------------------------------------------------------------------------
(* nvm_get_pools; what a pool holds follows from the namespaces in it *)

PoolsCall(t) ==
  /\ Call(t, "pools")
  /\ UNCHANGED <<driver, clock, ctx, arg, goal, room, got, overran, snapshots, raced, faults, contexts>>

PoolsRead(t) ==
  /\ pc[t] = "pools"
  /\ IF Cached("pools") THEN Return(t, [pools |-> ctx.pools.view, whole |-> ctx.pools.whole])
     ELSE pc' = [pc EXCEPT ![t] = "poolsFetch"] /\ UNCHANGED <<arg, goal, room, got, result>>
  /\ UNCHANGED <<driver, clock, ctx, overran, snapshots, raced, calls, faults, contexts>>

\* A pool that cannot be converted ends the loop; those before it stay.
PoolsFetch(t) ==
  /\ Step(t, "poolsFetch", "poolsStore")
  /\ \/ got' = [got EXCEPT ![t] = [view |-> Now, whole |-> TRUE]] /\ UNCHANGED faults
     \/ got' = [got EXCEPT ![t] = [view |-> Now, whole |-> FALSE]] /\ Fail
  /\ UNCHANGED <<driver, clock, ctx, arg, goal, room, result, overran, snapshots, raced, calls, contexts>>

\* set_nvm_context_pools, with as many pools as were converted.
PoolsStore(t) ==
  /\ pc[t] = "poolsStore"
  /\ ctx' = IF ctx = NoContext THEN ctx ELSE [ctx EXCEPT !.pools = got[t]]
  /\ Return(t, IF got[t].whole THEN [pools |-> got[t].view, whole |-> TRUE] ELSE Nothing)
  /\ UNCHANGED <<driver, clock, overran, snapshots, raced, calls, faults, contexts>>

\* All threads are between calls: the program may rest.
Rest == (\A t \in Threads : pc[t] = "idle") /\ UNCHANGED vars

Next ==
  \/ Rest
  \/ \E n \in Namespaces : OtherProcess(n)
  \/ \E t \in Threads :
       \/ FreeContext(t) \/ CreateContext(t) \/ NewContext(t)
       \/ CountNamespaces(t) \/ ListRead(t) \/ ListFetch(t) \/ ListStore(t)
       \/ \E n \in Namespaces :
            ChangeCall(t, n) \/ DetailsCall(t, n, "return") \/ DetailsCall(t, n, "change")
       \/ DetailsRead(t) \/ DetailsFetch(t) \/ DetailsStore(t)
       \/ ChangeDriver(t) \/ Invalidate(t)
       \/ PoolsCall(t) \/ PoolsRead(t) \/ PoolsFetch(t) \/ PoolsStore(t)

Spec == Init /\ [][Next]_vars

-----------------------------------------------------------------------------
(* Properties *)

Lists   == SUBSET (Namespaces \X (1..MaxVersion))
Details == [version : 1..MaxVersion, whole : BOOLEAN]

\* The type invariant: details are cached only beside a list that has their
\* namespace.
TypeOK ==
  /\ driver \in [Namespaces -> 0..clock] /\ clock \in 1..MaxVersion
  /\ ctx # NoContext =>
       /\ ctx.list # Nothing => ctx.list \in Lists \ {{}}
       /\ \A n \in Namespaces : ctx.details[n] # Nothing =>
            ctx.details[n] \in Details /\ Cached("list") /\ n \in Names(ctx.list)
       /\ ctx.pools # Nothing => ctx.pools.view \in Lists
  /\ \A t \in Threads :
       /\ arg[t] \in Namespaces \cup {Nothing}
       /\ pc[t] \in {"details", "detailsFetch", "detailsStore", "change", "invalidate"}
            => arg[t] \in Namespaces
       /\ room[t] \in 0..Cardinality(Namespaces)

NoneBetween == \A t \in Threads : pc[t] # "invalidate"

\* "The context is no longer valid" after a change: once the change is over,
\* a cached list is the driver's, unless a change overlapped a read or came
\* from another process.
ListCoherent == NoneBetween /\ ~raced /\ Cached("list") => ctx.list = Now

\* The copy out of the cache stays within the cached list, under the same
\* condition: nothing but coherence bounds it.
NoOverrun == ~raced => ~overran

\* A list handed out is one the driver had as a whole, whatever the threads
\* and processes do: neither truncated by somebody's small array nor mixed
\* from two states.
ListWhole ==
  \A t \in Threads : result[t] # Nothing /\ "list" \in DOMAIN result[t]
    => result[t].list \in snapshots

\* Details returned as a success, from the driver or from the cache, are of
\* the namespace as it is now, unless a change overlapped a read or came
\* from another process.
DetailsCurrent ==
  [][\A t \in Threads :
       /\ ~raced'
       /\ result'[t] \notin {result[t], Nothing}
       /\ "details" \in DOMAIN result'[t]
       => result'[t].details.version = driver[arg[t]]]_vars

\* What the cache of lists shows and hands out, under the conditions above.
ListSound == ListCoherent /\ NoOverrun /\ ListWhole
=============================================================================
