----------------------------- MODULE GoalCalls -----------------------------
(***************************************************************************)
(* Calls for configuration goals on several DIMMs: goals are laid out and  *)
(* created, deleted, exported and imported by the command line             *)
(* (cli/features/core/NamespaceFeature_Goals.cpp) and by the CIM service   *)
(* (wbem/mem_config/MemoryConfigurationServiceFactory.cpp), which write    *)
(* the goals of the library DIMM by DIMM while other processes call.       *)
(*                                                                         *)
(* A goal is the app direct set it puts its DIMM in; what a layout gives a *)
(* DIMM is in MemoryLayout, the goal of one DIMM in PlatformConfig and     *)
(* GoalSizes.  The call that wrote a goal is history.                      *)
(***************************************************************************)
EXTENDS Integers, Sequences, FiniteSets, FiniteSetsExt

CONSTANTS
  Dimms,      \* DIMMs, by number; maps of the code hold them in this order
  SocketOf,   \* their sockets, by number as well
  Lists,      \* the lists of DIMMs that callers name
  Clients,    \* processes that call
  MaxCalls,   \* bound on calls
  MaxTrouble  \* bound on calls of the library that fail and on changes by
              \* others (namespaces, locks, replacements), together

VARIABLES
  goal,     \* goal of a DIMM: NoGoal or [by, set, status]
  config,   \* set the DIMM is configured in: {} if it is not configured
  use,      \* "free", "namespaces" or "locked"
  size,     \* capacity class of a DIMM; a replacement is smaller
  new,      \* DIMMs the platform has not seen before
  file,     \* lines of the configuration file; NoFile if there is none
  call,     \* call of a client: its kind and locals; whether the sets were whole
            \* before it and whether it ran alone are history
  used      \* calls, failures and changes so far

vars == <<goal, config, use, size, new, file, call, used>>

\* by: the client whose call, which has not returned, wrote the goal
NoGoal == [by |-> {}, set |-> {}, status |-> "none"]
NoSets == [d \in Dimms |-> {}]
\* What a call goes through, todo and plan, it goes through in order.
Idle == [kind |-> "idle", dimms |-> {}, prompt |-> FALSE, plan |-> {}, todo |-> {},
         sets |-> NoSets, wrote |-> {}, whole |-> TRUE, alone |-> TRUE, pc |-> "idle", answer |-> "none"]

SocketDimms(s) == {d \in Dimms : SocketOf[d] = s}
SocketsOf(D) == {SocketOf[d] : d \in D}
Whole == [d \in Dimms |-> SocketDimms(SocketOf[d])]

\* A line of the configuration file.
LineFor(d, set, s) == [dimm |-> d, set |-> set, size |-> s]
NoFile == <<LineFor(0, {}, 0)>>
InOrder(lines) == \A j, k \in DOMAIN lines : j < k => lines[j].dimm < lines[k].dimm
Everything == {LineFor(d, Whole[d], 2) : d \in Dimms}

Init ==
  /\ config \in {[d \in Dimms |-> {}], Whole}
  /\ goal \in {[d \in Dimms |-> NoGoal],
              [d \in Dimms |-> IF SocketOf[d] = SocketOf[Min(Dimms)]
                               THEN [by |-> {}, set |-> Whole[d], status |-> "new"] ELSE NoGoal]}
  /\ use = [d \in Dimms |-> "free"]
  /\ size = [d \in Dimms |-> 2]
  /\ new = {}
  /\ file \in {NoFile} \cup {f \in [1..Cardinality(Dimms) -> Everything] : InOrder(f)}
  /\ call = [c \in Clients |-> Idle]
  /\ used = [calls |-> 0, faults |-> 0, changes |-> 0]

machine == <<config, use, size, new>>

-----------------------------------------------------------------------------
(* Calls begin, fail and end *)

\* No set has new goals on a part of its DIMMs only.
WholeSets ==
  \A d \in Dimms : goal[d].status = "new" =>
    \A o \in goal[d].set : goal[o].status = "new" /\ goal[o].set = goal[d].set

Begin(c, started) ==
  /\ call[c].pc = "idle"
  /\ used.calls < MaxCalls
  /\ used' = [used EXCEPT !.calls = @ + 1]
  /\ LET alone == \A o \in Clients : call[o].pc = "idle"
     IN call' = [o \in Clients |->
                  IF o = c THEN [started EXCEPT !.whole = WholeSets, !.alone = alone]
                  ELSE [call[o] EXCEPT !.alone = FALSE]]
  /\ UNCHANGED <<goal, file, machine>>

At(c, kinds, pc) == call[c].kind \in kinds /\ call[c].pc = pc

Told(c, answer) ==
  [call EXCEPT ![c] = [@ EXCEPT !.answer = answer, !.pc = "told", !.plan = {}, !.todo = {},
                               !.sets = NoSets, !.wrote = {}, !.prompt = FALSE]]

Trouble == used.faults + used.changes < MaxTrouble

\* A call of the library may fail: the driver, the firmware, memory.
Fault == Trouble /\ used' = [used EXCEPT !.faults = @ + 1]

Return(c) ==
  /\ call[c].pc = "told"
  /\ call' = [call EXCEPT ![c] = Idle]
  /\ goal' = [d \in Dimms |-> [goal[d] EXCEPT !.by = @ \ {c}]]
  /\ UNCHANGED <<file, used, machine>>

\* The client goes on to the next DIMM of its list.
First(c) == Min(call[c].todo)
Done(c) == [call EXCEPT ![c].todo = @ \ {First(c)}]
Wrote(c) == [Done(c) EXCEPT ![c].wrote = @ \cup {First(c)}]

-----------------------------------------------------------------------------
(* Creating goals *)

\* The command line: one request, and the user is asked unless -force.
CreateGoal(c) ==
  \E D \in Lists, prompt \in BOOLEAN :
    Begin(c, [Idle EXCEPT !.kind = "create", !.dimms = D, !.prompt = prompt, !.plan = {D}, !.pc = "check"])

\* The CIM method AllocateFromPool: a request for every socket.
AllocateFromPool(c) ==
  \E D \in Lists :
    Begin(c, [Idle EXCEPT !.kind = "allocate", !.dimms = D, !.pc = "check",
                          !.plan = {D \cap SocketDimms(s) : s \in SocketsOf(D)}])

\* Mutant of PartialSocket: any DIMMs of a socket will do.
PartialSocketAny(D) == FALSE

\* RulePartialSocketConfigured: the whole socket or all of its new DIMMs.
PartialSocket(D) ==
  \E s \in SocketsOf(D) :
    D \cap SocketDimms(s) \notin {SocketDimms(s), new \cap SocketDimms(s)}

\* RuleDimmHasConfigGoal, RuleNamespacesExist, RuleRejectLockedDimms
HasGoal(d) == goal[d].status \notin {"none", "applied"}
HasNamespaces(d) == use[d] = "namespaces"
Locked(d) == use[d] = "locked"

MayLayOut(D) ==
  /\ \A d \in D : ~HasGoal(d) /\ ~HasNamespaces(d) /\ ~Locked(d)
  /\ ~PartialSocket(D)

\* The sets of a layout: over all DIMMs of a socket, or of one DIMM each.
Layouts(D) ==
  {[d \in Dimms |-> D \cap SocketDimms(SocketOf[d])], [d \in Dimms |-> {d}]}

\* The next request of a plan.
FirstRequest(plan) ==
  CHOOSE D \in plan : \A E \in plan : Min(SocketsOf(D)) <= Min(SocketsOf(E))

\* MemoryAllocator::layout, once for a request.
LayOut(c) ==
  /\ At(c, {"create", "allocate"}, "check")
  /\ LET D == FirstRequest(call[c].plan)
     IN \/ /\ MayLayOut(D)
           /\ \E sets \in Layouts(D) :
                call' = [call EXCEPT ![c].plan = @ \ {D}, ![c].todo = D, ![c].sets = sets,
                           ![c].wrote = {}, ![c].pc = IF call[c].prompt THEN "prompt" ELSE "write"]
           /\ UNCHANGED used
        \/ ~MayLayOut(D) /\ call' = Told(c, "failed") /\ UNCHANGED used
        \/ Fault /\ call' = Told(c, "failed")
  /\ UNCHANGED <<goal, file, machine>>

\* promptUserConfirmationForLayout: time passes between the checks and the
\* writes.
Confirm(c) ==
  /\ At(c, {"create"}, "prompt")
  /\ call' \in {[call EXCEPT ![c].pc = "write"], Told(c, "unchanged")}
  /\ UNCHANGED <<goal, file, used, machine>>

\* Mutant of FailedAnswer: how much was written is not looked at.
FailedAnswerPlain(wrote) == "failed"

\* What a failure in the middle of a list is reported as.
FailedAnswer(wrote) == IF wrote = {} THEN "failed" ELSE "partial"

NewGoal(c, set) == [by |-> {c}, set |-> set, status |-> "new"]

\* MemoryAllocator::allocate, a DIMM: nvm_create_config_goal looks for
\* namespaces again.
WriteGoal(c) ==
  /\ At(c, {"create", "allocate"}, "write")
  /\ call[c].todo # {}
  /\ LET d == First(c)
     IN \/ /\ ~HasNamespaces(d)
           /\ goal' = [goal EXCEPT ![d] = NewGoal(c, call[c].sets[d])]
           /\ call' = Wrote(c)
           /\ UNCHANGED used
        \/ /\ (HasNamespaces(d) /\ UNCHANGED used) \/ Fault
           /\ call' = Told(c, FailedAnswer(call[c].wrote))
           /\ UNCHANGED goal
  /\ UNCHANGED <<file, machine>>

\* The goals of a request are written: the next socket, or success.
RequestDone(c) ==
  /\ At(c, {"create", "allocate"}, "write")
  /\ call[c].todo = {}
  /\ call' = IF call[c].plan = {} THEN Told(c, "done") ELSE [call EXCEPT ![c].pc = "check"]
  /\ UNCHANGED <<goal, file, used, machine>>

-----------------------------------------------------------------------------
(* Deleting goals *)

\* The command line deletes the goals a filter selects, those of a socket
\* only together (validRequest); the answers are counted DIMM by DIMM.
DeleteConfigGoal(c) ==
  \E D \in (SUBSET {d \in Dimms : goal[d] # NoGoal}) \ {{}} :
    /\ \A d \in Dimms : goal[d] # NoGoal /\ SocketOf[d] \in SocketsOf(D) => d \in D
    /\ Begin(c, [Idle EXCEPT !.kind = "delete", !.dimms = D, !.todo = D, !.pc = "remove"])

\* The CIM method RemoveGoal: a socket or the machine.
RemoveGoal(c) ==
  \E D \in {Dimms} \cup {SocketDimms(s) : s \in SocketsOf(Dimms)} :
    Begin(c, [Idle EXCEPT !.kind = "remove", !.dimms = D, !.todo = D, !.pc = "remove"])

\* nvm_delete_config_goal of a DIMM.  The command line goes on after a
\* failure; removeGoalFromDimms stops, but takes a missing goal for deleted.
\* An import that failed removes goals this way and keeps its own answer.
DeleteGoal(c) ==
  /\ call[c].pc = "remove"
  /\ call[c].todo # {}
  /\ LET d == First(c)
         failed == IF call[c].kind = "delete" THEN [Done(c) EXCEPT ![c].answer = "failed"] ELSE Done(c)
     IN \/ /\ goal[d] # NoGoal
           /\ goal' = [goal EXCEPT ![d] = NoGoal]
           /\ call' = Wrote(c)
           /\ UNCHANGED used
        \/ goal[d] = NoGoal /\ call' = failed /\ UNCHANGED <<goal, used>>
        \/ /\ Fault
           /\ call' = IF call[c].kind = "delete" THEN failed ELSE Told(c, FailedAnswer(call[c].wrote))
           /\ UNCHANGED goal
  /\ UNCHANGED <<file, machine>>

RemoveDone(c) ==
  /\ call[c].pc = "remove"
  /\ call[c].todo = {}
  /\ call' = Told(c, CASE call[c].kind = "import" -> "failed"
                       [] call[c].kind # "import" /\ call[c].answer = "none" -> "done"
                       [] OTHER -> call[c].answer)
  /\ UNCHANGED <<goal, file, used, machine>>

-----------------------------------------------------------------------------
(* The configuration file *)

\* exportSystemConfigToPath begins; the first dump truncates the file.
Export(c) ==
  Begin(c, [Idle EXCEPT !.kind = "export", !.dimms = Dimms, !.todo = Dimms, !.pc = "dump"])

\* Mutant of Appends: every DIMM starts the file over.
AppendsNever(c) == FALSE

\* Every DIMM after the first is appended, also when the first had nothing
\* to write.
Appends(c) == call[c].todo # Dimms

\* nvm_dump_config of a DIMM.
Dump(c) ==
  /\ At(c, {"export"}, "dump")
  /\ call[c].todo # {}
  /\ LET d == First(c)
         line == LineFor(d, config[d], size[d])
     IN \/ /\ config[d] # {}
           /\ file' = IF Appends(c) /\ file # NoFile THEN Append(file, line) ELSE <<line>>
           /\ call' = Wrote(c)
           /\ UNCHANGED used
        \/ config[d] = {} /\ call' = Done(c) /\ UNCHANGED <<file, used>>
        \/ Fault /\ call' = Told(c, "failed") /\ UNCHANGED file
  /\ UNCHANGED <<goal, machine>>

\* Only when every DIMM is unconfigured the export has failed.
DumpDone(c) ==
  /\ At(c, {"export"}, "dump")
  /\ call[c].todo = {}
  /\ call' = Told(c, IF call[c].wrote = {} THEN "failed" ELSE "done")
  /\ UNCHANGED <<goal, file, used, machine>>

\* importDimmConfigsFromPath: validateDimmList first.
Import(c) ==
  \E D \in Lists :
    Begin(c, [Idle EXCEPT !.kind = "import", !.dimms = D,
                          !.todo = IF PartialSocket(D) THEN {} ELSE D,
                          !.pc = IF PartialSocket(D) THEN "told" ELSE "load",
                          !.answer = IF PartialSocket(D) THEN "failed" ELSE "none"])

\* read_dimm_config: the first line of the DIMM, if there is one.
LinesOf(d) == {k \in DOMAIN file : file[k].dimm = d}
LineOf(d) == file[Min(LinesOf(d))]

\* fill_goal_dimm_guids: all DIMMs of the set have a line, and no more lines
\* name the set than it has DIMMs.
SetInFile(line) == Cardinality({k \in DOMAIN file : file[k].set = line.set}) = Cardinality(line.set)

\* nvm_load_config of a DIMM: a DIMM too small for its line is passed over
\* with success.
PassedOver(d) == LinesOf(d) # {} /\ size[d] < LineOf(d).size
Loadable(d) ==
  LinesOf(d) # {} /\ size[d] >= LineOf(d).size /\ SetInFile(LineOf(d)) /\ ~HasNamespaces(d)

\* Any failure removes the goals of all DIMMs listed.
Load(c) ==
  /\ At(c, {"import"}, "load")
  /\ call[c].todo # {}
  /\ LET d == First(c)
         revert == [call EXCEPT ![c].todo = call[c].dimms, ![c].pc = "remove"]
     IN \/ /\ Loadable(d)
           /\ goal' = [goal EXCEPT ![d] = NewGoal(c, LineOf(d).set)]
           /\ call' = Done(c)
           /\ UNCHANGED used
        \/ PassedOver(d) /\ call' = Done(c) /\ UNCHANGED <<goal, used>>
        \/ ~Loadable(d) /\ ~PassedOver(d) /\ call' = revert /\ UNCHANGED <<goal, used>>
        \/ Fault /\ call' = revert /\ UNCHANGED goal
  /\ UNCHANGED <<file, machine>>

LoadDone(c) ==
  /\ At(c, {"import"}, "load")
  /\ call[c].todo = {}
  /\ call' = Told(c, "done")
  /\ UNCHANGED <<goal, file, used, machine>>

-----------------------------------------------------------------------------
(* The machine *)

Applicable(d) == \A o \in goal[d].set : goal[o].set = goal[d].set /\ HasGoal(o)

\* A restart ends every call; the BIOS applies the goals whose sets are
\* complete and marks the others.
Restart ==
  /\ \E d \in Dimms : goal[d].status = "new"
  /\ LET applied == {d \in Dimms : goal[d].status = "new" /\ Applicable(d)}
     IN /\ goal' = [d \in Dimms |->
                      [goal[d] EXCEPT !.by = {}, !.status = IF @ # "new" THEN @
                                                  ELSE IF d \in applied THEN "applied" ELSE "bad"]]
        /\ config' = [d \in Dimms |-> IF d \in applied THEN goal[d].set ELSE config[d]]
        /\ new' = new \ applied
  /\ call' = [c \in Clients |-> Idle]
  /\ UNCHANGED <<use, size, file, used>>

Change == Trouble /\ used' = [used EXCEPT !.changes = @ + 1]

\* Namespaces come and go, and DIMMs are locked, by other calls.
ChangeUse(d) ==
  /\ Change
  /\ use' \in {[use EXCEPT ![d] = u] : u \in {"free", "namespaces", "locked"} \ {use[d]}}
  /\ use'[d] = "namespaces" => config[d] # {}
  /\ UNCHANGED <<goal, config, size, new, file, call>>

\* A smaller DIMM takes the place of one while the machine is off.
Replace(d) ==
  /\ Change
  /\ \A c \in Clients : call[c].pc = "idle"
  /\ size' = [size EXCEPT ![d] = 1]
  /\ new' = new \cup {d}
  /\ goal' = [goal EXCEPT ![d] = NoGoal]
  /\ config' = [config EXCEPT ![d] = {}]
  /\ use' = [use EXCEPT ![d] = "free"]
  /\ UNCHANGED <<file, call>>

Calls(c) ==
  \/ CreateGoal(c) \/ AllocateFromPool(c) \/ LayOut(c) \/ Confirm(c) \/ WriteGoal(c) \/ RequestDone(c)
  \/ DeleteConfigGoal(c) \/ RemoveGoal(c) \/ DeleteGoal(c) \/ RemoveDone(c)
  \/ Export(c) \/ Dump(c) \/ DumpDone(c)
  \/ Import(c) \/ Load(c) \/ LoadDone(c)

\* A call that has its answer returns before anything else happens: what it
\* leaves behind is settled.
Next ==
  \/ \E c \in Clients : Return(c)
  \/ /\ \A c \in Clients : call[c].pc # "told"
     /\ \/ \E c \in Clients : Calls(c)
        \/ Restart
        \/ \E d \in Dimms : ChangeUse(d) \/ Replace(d)

Spec == Init /\ [][Next]_vars

-----------------------------------------------------------------------------
(* Properties *)

Answered(c, answer) == call[c].pc = "told" /\ call[c].answer = answer

\* The lines of a set name it alike, as those of one export do.
SetsAgree == \A j, k \in DOMAIN file : file[k].dimm \in file[j].set => file[k].set = file[j].set

\* A call that nobody disturbed and that reports success leaves every set
\* with a goal on all its DIMMs, if it found them so: else the BIOS refuses
\* the goals at the next start.  An import that passes over a small DIMM
\* does not keep to that, nor need one from a file that exports of several
\* times were added to.
SetsWhole ==
  \A c \in Clients :
    /\ Answered(c, "done") /\ call[c].alone /\ call[c].whole
    /\ call[c].kind = "import" => SetsAgree /\ \A d \in call[c].dimms : size[d] = 2
    => WholeSets

\* A request that is told as failed, and not as done in part, has left no
\* goal of its own behind, whatever others do meanwhile.  AllocateFromPool
\* over several sockets does not keep to that: the sockets before the one
\* that failed are forgotten.
FailedLeavesNothing ==
  \A c \in Clients :
    /\ Answered(c, "failed")
    /\ \/ call[c].kind = "create"
       \/ call[c].kind = "allocate" /\ Cardinality(SocketsOf(call[c].dimms)) = 1
       \/ call[c].kind = "import" /\ used.faults = 0
    => \A d \in Dimms : c \notin goal[d].by

\* The lines that an export writes.
Configured == {LineFor(d, config[d], size[d]) : d \in {o \in Dimms : config[o] # {}}}

\* The file of an export that reports success has a line for every
\* configured DIMM, in order, and no other.  When the first DIMM is not
\* configured the lines are added to what the file held.
ExportExact ==
  \A c \in Clients :
    Answered(c, "done") /\ call[c].kind = "export" /\ call[c].alone /\ config[Min(Dimms)] # {} =>
      InOrder(file) /\ {file[k] : k \in DOMAIN file} = Configured
=============================================================================
