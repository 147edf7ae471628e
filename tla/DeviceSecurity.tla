--------------------------- MODULE DeviceSecurity ---------------------------
(***************************************************************************)
(* Data-at-rest security of one DIMM (src/src/lib/security.c): setting,    *)
(* changing and removing the passphrase, unlocking and erasing, by         *)
(* processes that decide on the lock state each has cached                 *)
(* (src/src/lib/device.c, nvm_context.c).                                  *)
(*                                                                         *)
(* The state is in the DIMM; a call sends it up to three commands - unlock *)
(* if it was locked, the change, freeze - and another process may come     *)
(* between any two.  The firmware is external: it is modelled by the lock  *)
(* states of nvm_management.h and the results the library looks at.  An    *)
(* unlock of a DIMM that is not locked may be accepted or refused.         *)
(* Callers have permission and the device is manageable; passphrases are   *)
(* of a valid length.                                                      *)
(***************************************************************************)
EXTENDS Integers, FiniteSets

CONSTANTS
  Procs,        \* processes that use the library
  Passphrases,
  Asked,        \* what each process may ask for: a set of Requests
  Skus,         \* capabilities of the DIMM: passphrase, unlock, overwrite, crypto
  None,         \* no passphrase, nothing cached, no call
  Tries,        \* wrong passphrases the firmware takes
  Retries       \* commands sent to a busy DIMM: 5

Requests ==
  [op : {"set"}, old : Passphrases \cup {None}, new : Passphrases]
    \cup [op : {"remove", "unlock"}, old : Passphrases, new : {None}]
    \cup [op : {"crypto"}, old : Passphrases \cup {None}, new : {None}]
    \cup [op : {"quick", "multi"}, old : {None}, new : {None}]

\* The states security_state_to_enum gives.
LockStates == {"disabled", "unlocked", "locked", "frozen", "limit"}

ASSUME NoneAssumption ==
  None \notin Passphrases /\ None \notin Requests /\ None \notin LockStates \cup {"unknown"}
ASSUME RequestAssumption == Asked \in [Procs -> SUBSET Requests]
ASSUME BoundsAssumption == Tries \in Nat \ {0} /\ Retries \in Nat \ {0}

VARIABLES
  sku,       \* the capabilities of this DIMM
  dimm,      \* [lock, frozen, pass, wrong]: state, passphrase, wrong attempts
  known,     \* lock_state of the device as each process has it cached
  pc,        \* idle, look, prepare, command, freeze, finish
  call,      \* the request each process works on
  sent,      \* commands its retry loop has sent
  rc,        \* result of its call so far
  ran,       \* history: passes the DIMM ran for this call; 0 a crypto erase, -1 nothing
  meddled    \* history: processes whose view of the DIMM another one changed

procVars == <<known, pc, call, sent, rc>>
vars == <<sku, dimm, procVars, ran, meddled>>

-----------------------------------------------------------------------------
\* The firmware.

\* security_state_to_enum: which bit decides.
LockState(d) ==
  CASE d.lock = "disabled"                              -> "disabled"
    [] d.lock # "disabled" /\ d.wrong = Tries           -> "limit"
    [] d.lock # "disabled" /\ d.wrong < Tries /\ d.frozen -> "frozen"
    [] OTHER                                            -> d.lock

Open(d) == ~d.frozen /\ d.wrong < Tries

Wrong(d) == [d EXCEPT !.wrong = @ + 1]
Disabled(d) == [d EXCEPT !.lock = "disabled", !.pass = None, !.wrong = 0]

\* Each command gives the DIMM after it and whether it was accepted.
UnlockUnit(d, p) ==
  CASE ~Open(d) \/ d.lock = "disabled" -> {<<d, "error">>}
    [] Open(d) /\ d.lock # "disabled" /\ d.pass # p -> {<<Wrong(d), "error">>}
    [] Open(d) /\ d.lock = "locked" /\ d.pass = p -> {<<[d EXCEPT !.lock = "unlocked", !.wrong = 0], "ok">>}
    [] OTHER -> {<<d, "ok">>, <<d, "error">>}

SetPass(d, old, new) ==
  CASE ~Open(d) \/ d.lock = "locked" -> {<<d, "error">>}
    [] Open(d) /\ d.lock = "unlocked" /\ d.pass # old -> {<<Wrong(d), "error">>}
    [] OTHER -> {<<[d EXCEPT !.lock = "unlocked", !.pass = new, !.wrong = 0], "ok">>}

\* Disable passphrase and secure erase: the one who knows the passphrase
\* leaves the DIMM without.
DisablePass(d, p) ==
  CASE ~Open(d) \/ d.lock # "unlocked" -> {<<d, "error">>}
    [] Open(d) /\ d.lock = "unlocked" /\ d.pass # p -> {<<Wrong(d), "error">>}
    [] OTHER -> {<<Disabled(d), "ok">>}

\* Sanitize commands: refused when frozen.
Sanitize(d) == IF d.frozen THEN {<<d, "error">>} ELSE {<<Disabled(d), "ok">>}

Freeze(d) == {<<[d EXCEPT !.frozen = TRUE], "ok">>}

-----------------------------------------------------------------------------
Init ==
  /\ sku \in Skus
  /\ dimm \in [lock : {"disabled"}, frozen : {FALSE}, pass : {None}, wrong : {0}]
         \cup [lock : {"locked"}, frozen : {FALSE}, pass : Passphrases, wrong : {0}]
  /\ known = [p \in Procs |-> None]
  /\ pc = [p \in Procs |-> "idle"]
  /\ call = [p \in Procs |-> None]
  /\ sent = [p \in Procs |-> 0]
  /\ rc = [p \in Procs |-> "ok"]
  /\ ran = [p \in Procs |-> -1]
  /\ meddled = {}

Goto(p, label) == pc' = [pc EXCEPT ![p] = label]

\* A call returns; what it had learnt of the device stays cached.
Return(p) ==
  /\ Goto(p, "idle")
  /\ call' = [call EXCEPT ![p] = None]
  /\ sent' = [sent EXCEPT ![p] = 0]
  /\ rc' = [rc EXCEPT ![p] = "ok"]
  /\ ran' = [ran EXCEPT ![p] = -1]

\* The DIMM becomes d by a command of p.
Becomes(p, d) ==
  /\ dimm' = d
  /\ meddled' = IF d = dimm THEN meddled ELSE meddled \cup (Procs \ {p})

Call(p) ==
  /\ pc[p] = "idle"
  /\ \E r \in Asked[p] : call' = [call EXCEPT ![p] = r]
  /\ Goto(p, "look")
  /\ UNCHANGED <<sku, dimm, known, sent, rc, ran, meddled>>

\* exists_and_manageable: discovery comes from the context, or from the
\* DIMM and then into the context.  When the security state cannot be read
\* the device is cached with an unknown one.
Look(p) ==
  /\ pc[p] = "look"
  /\ Goto(p, "prepare")
  /\ \/ known[p] # None /\ UNCHANGED <<known, meddled>>
     \/ /\ known[p] = None
        /\ \E state \in {LockState(dimm), "unknown"} : known' = [known EXCEPT ![p] = state]
        /\ meddled' = meddled \ {p}
  /\ UNCHANGED <<sku, dimm, call, sent, rc, ran>>

IsSanitize(p) ==
  call[p].op \in {"quick", "multi"} \/ (call[p].op = "crypto" /\ "passphrase" \notin sku)

Capable(p) ==
  CASE call[p].op \in {"set", "remove"}    -> "passphrase" \in sku
    [] call[p].op = "unlock"               -> "unlock" \in sku
    [] call[p].op \in {"quick", "multi"}   -> "overwrite" \in sku
    [] call[p].op = "crypto"               -> {"passphrase", "crypto"} \cap sku # {}

\* Mutant of Refused: a reached limit does not stop a call.
RefusedNotAtLimit(p) ==
  \/ ~Capable(p)
  \/ known[p] = "frozen"
  \/ ~IsSanitize(p) /\ known[p] = "unknown"
  \/ ~IsSanitize(p) /\ call[p].op # "set" /\ known[p] = "disabled"

\* The early returns of security_change_prepare, and those of
\* overwrite_crypto_change_prepare, which looks at frozen only.
Refused(p) ==
  \/ ~Capable(p)
  \/ known[p] = "frozen"
  \/ ~IsSanitize(p) /\ known[p] \in {"limit", "unknown"}
  \/ ~IsSanitize(p) /\ call[p].op # "set" /\ known[p] = "disabled"

PrepareRefuses(p) ==
  /\ pc[p] = "prepare" /\ Refused(p)
  /\ Return(p)
  /\ UNCHANGED <<sku, dimm, known, meddled>>

PreparePasses(p) ==
  /\ pc[p] = "prepare" /\ ~Refused(p) /\ (IsSanitize(p) \/ known[p] # "locked")
  /\ Goto(p, "command")
  /\ UNCHANGED <<sku, dimm, known, call, sent, rc, ran, meddled>>

\* "if locked, try to unlock".  When that fails the call returns at once,
\* past the invalidation of the context.
PrepareUnlocks(p) ==
  /\ pc[p] = "prepare" /\ ~Refused(p) /\ ~IsSanitize(p) /\ known[p] = "locked"
  /\ \E result \in UnlockUnit(dimm, call[p].old) \cup {<<dimm, "error">>} :
       /\ Becomes(p, result[1])
       /\ \/ result[2] = "ok" /\ Goto(p, "command") /\ UNCHANGED <<call, sent, rc, ran>>
          \/ result[2] # "ok" /\ Return(p)
  /\ UNCHANGED <<sku, known>>

\* Mutant of Options: both kinds of overwrite ask for one pass.
OptionsOnePass(p) == IF call[p].op \in {"quick", "multi"} /\ sent[p] = 0 THEN 1 ELSE 0

\* The passes of an overwrite.  s_memset clears the payload after the first
\* attempt, so a second one asks for none.
Options(p) ==
  CASE call[p].op = "quick" /\ sent[p] = 0 -> 1
    [] call[p].op = "multi" /\ sent[p] = 0 -> 3
    [] OTHER -> 0

Results(p) ==
  {<<dimm, "error">>} \cup
  CASE call[p].op = "set"    -> SetPass(dimm, call[p].old, call[p].new)
    [] call[p].op = "remove" -> DisablePass(dimm, call[p].old)
    [] call[p].op = "unlock" -> UnlockUnit(dimm, call[p].old)
    [] call[p].op = "crypto" /\ ~IsSanitize(p) -> DisablePass(dimm, call[p].old)
    [] OTHER -> Sanitize(dimm)

Erases(p) == call[p].op \in {"quick", "multi", "crypto"}

\* The command of the call; the next is to freeze, after a set or unlock.
Command(p) ==
  /\ pc[p] = "command"
  /\ \E result \in Results(p) :
       /\ Becomes(p, result[1])
       /\ rc' = [rc EXCEPT ![p] = result[2]]
       /\ ran' = [ran EXCEPT ![p] = IF result[2] = "ok" /\ Erases(p) THEN Options(p) ELSE @]
       /\ Goto(p, IF result[2] = "ok" /\ call[p].op \in {"set", "unlock"} THEN "freeze" ELSE "finish")
  /\ sent' = [sent EXCEPT ![p] = IF Erases(p) THEN @ + 1 ELSE @]
  /\ UNCHANGED <<sku, known, call>>

\* Mutant of Busy: prepare and erase are tried again, and not counted.
BusyUncounted(p) ==
  /\ pc[p] = "command"
  /\ rc' = [rc EXCEPT ![p] = "busy"]
  /\ Goto(p, IF Erases(p) THEN "prepare" ELSE "finish")
  /\ UNCHANGED <<sku, dimm, known, call, sent, ran, meddled>>

\* The DIMM is busy: an erase is sent again, up to Retries times; any other
\* call ends.
Busy(p) ==
  /\ pc[p] = "command"
  /\ rc' = [rc EXCEPT ![p] = "busy"]
  /\ sent' = [sent EXCEPT ![p] = IF Erases(p) THEN @ + 1 ELSE @]
  /\ Goto(p, IF Erases(p) /\ sent[p] + 1 < Retries THEN "command" ELSE "finish")
  /\ UNCHANGED <<sku, dimm, known, call, ran, meddled>>

\* Mutant of SendFreeze: its result is not looked at.
SendFreezeUnchecked(p) ==
  /\ pc[p] = "freeze"
  /\ \E result \in Freeze(dimm) \cup {<<dimm, "error">>} : Becomes(p, result[1])
  /\ Goto(p, "finish")
  /\ UNCHANGED <<sku, known, call, sent, rc, ran>>

\* freeze_security
SendFreeze(p) ==
  /\ pc[p] = "freeze"
  /\ \E result \in Freeze(dimm) \cup {<<dimm, "error">>} :
       Becomes(p, result[1]) /\ rc' = [rc EXCEPT ![p] = result[2]]
  /\ Goto(p, "finish")
  /\ UNCHANGED <<sku, known, call, sent, ran>>

\* Mutant of Finish: the context is left as it is after an error.
FinishIfOk(p) ==
  /\ pc[p] = "finish"
  /\ known' = [known EXCEPT ![p] = IF rc[p] = "ok" THEN None ELSE @]
  /\ Return(p)
  /\ UNCHANGED <<sku, dimm, meddled>>

\* The event of a success; invalidate_devices, whatever the result.
Finish(p) ==
  /\ pc[p] = "finish"
  /\ known' = [known EXCEPT ![p] = None]
  /\ Return(p)
  /\ UNCHANGED <<sku, dimm, meddled>>

-----------------------------------------------------------------------------
\* The machine is reset: an enabled DIMM locks, and every process is gone.
Reset ==
  /\ dimm' = [dimm EXCEPT !.lock = IF @ = "disabled" THEN @ ELSE "locked", !.frozen = FALSE, !.wrong = 0]
  /\ known' = [p \in Procs |-> None]
  /\ pc' = [p \in Procs |-> "idle"]
  /\ call' = [p \in Procs |-> None]
  /\ sent' = [p \in Procs |-> 0]
  /\ rc' = [p \in Procs |-> "ok"]
  /\ ran' = [p \in Procs |-> -1]
  /\ meddled' = {}
  /\ UNCHANGED sku

Step(p) ==
  \/ Look(p) \/ PrepareRefuses(p) \/ PreparePasses(p) \/ PrepareUnlocks(p)
  \/ Command(p) \/ Busy(p) \/ SendFreeze(p) \/ Finish(p)

Next == (\E p \in Procs : Call(p) \/ Step(p)) \/ Reset

Spec == Init /\ [][Next]_vars

\* A process that is in a call runs on.
FairSpec == Spec /\ \A p \in Procs : WF_vars(Step(p))

-----------------------------------------------------------------------------
\* The type invariant: a DIMM has a passphrase exactly when its security is
\* enabled, and a call looks at the lock state before it acts.
TypeOK ==
  /\ sku \in Skus
  /\ dimm \in [lock : {"disabled", "unlocked", "locked"}, frozen : BOOLEAN,
               pass : Passphrases \cup {None}, wrong : 0..Tries]
  /\ dimm.lock = "disabled" <=> dimm.pass = None
  /\ \A p \in Procs :
       /\ known[p] \in LockStates \cup {"unknown", None}
       /\ pc[p] = "idle" <=> call[p] = None
       /\ pc[p] \in {"prepare", "command", "freeze", "finish"} => known[p] # None
       /\ sent[p] \in 0..Retries /\ ran[p] \in {-1, 0, 1, 3}

Succeeded(p, ops) == pc[p] = "finish" /\ rc[p] = "ok" /\ call[p].op \in ops

\* What holds when a call returns success.  nvm_set_passphrase and
\* nvm_unlock_device: "the device will be unlocked and frozen", with the
\* passphrase of the call (frozen, whatever other processes do).
\* nvm_erase_device: an overwrite ran the passes it reports, if the DIMM took
\* the first command (after that the payload is gone).
DoneAsAsked ==
  \A p \in Procs :
    /\ Succeeded(p, {"set", "unlock"}) =>
         /\ dimm.frozen
         /\ p \notin meddled => /\ dimm.lock = "unlocked"
                                /\ dimm.pass = IF call[p].op = "set" THEN call[p].new ELSE call[p].old
    /\ Succeeded(p, {"quick"}) /\ sent[p] = 1 => ran[p] = 1
    /\ Succeeded(p, {"multi"}) /\ sent[p] = 1 => ran[p] = 3

\* "Do not proceed if max password attempts have been reached": a change is
\* not sent to a DIMM at its limit, unless another process brought it there.
LimitRespected ==
  \A p \in Procs : pc[p] = "command" /\ ~IsSanitize(p) /\ p \notin meddled => dimm.wrong < Tries

\* "Security state has likely changed": what a process has cached is the
\* state of the DIMM, however its calls ended, unless another process
\* changed it, it could not be read, or a failed unlock reached the limit.
StateKnown ==
  \A p \in Procs :
    known[p] \notin {None, "unknown"} /\ p \notin meddled /\ pc[p] \in {"idle", "look", "prepare"} =>
      \/ known[p] = LockState(dimm)
      \/ known[p] = "locked" /\ LockState(dimm) = "limit"

\* Every call returns: retries to a busy DIMM are bounded.
CallsReturn == \A p \in Procs : pc[p] # "idle" ~> pc[p] = "idle"

\* What a process believes of the DIMM: the state, and the limit it decides on.
StateTrusted == LimitRespected /\ StateKnown
=============================================================================
