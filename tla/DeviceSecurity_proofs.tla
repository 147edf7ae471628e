----------------------- MODULE DeviceSecurity_proofs -----------------------
(***************************************************************************)
(* Proofs about DeviceSecurity: the type invariant, what a call that       *)
(* returned success has done, and what a process may believe of the DIMM.  *)
(***************************************************************************)
EXTENDS DeviceSecurity, TLAPS

-----------------------------------------------------------------------------
(* The firmware *)

Units == [lock : {"disabled", "unlocked", "locked"}, frozen : BOOLEAN,
          pass : Passphrases \cup {None}, wrong : 0..Tries]

\* A DIMM whose security is disabled has no passphrase to get wrong.
Sound(d) ==
  /\ d.lock = "disabled" <=> d.pass = None
  /\ d.lock = "disabled" => d.wrong = 0

\* A DIMM that a command leaves is one that can be, and stays frozen.
Follows(e, d) == e \in Units /\ Sound(e) /\ (d.frozen => e.frozen)

\* A DIMM with another lock state, passphrase and count of wrong attempts.
With(d, l, p, w) == [d EXCEPT !.lock = l, !.pass = p, !.wrong = w]

\* The updates of the commands, field by field.
LEMMA WithFields ==
  ASSUME NEW d \in Units, NEW l \in {"disabled", "unlocked", "locked"},
         NEW p \in Passphrases \cup {None}, NEW w \in 0..Tries
  PROVE  /\ With(d, l, p, w) \in Units
         /\ With(d, l, p, w).lock = l /\ With(d, l, p, w).pass = p
         /\ With(d, l, p, w).wrong = w /\ With(d, l, p, w).frozen = d.frozen
BY DEF Units, With

\* A wrong passphrase is taken only while there are attempts left.
LEMMA WrongFollows ==
  ASSUME NEW d \in Units, Sound(d), Open(d), d.lock # "disabled"
  PROVE  Follows(Wrong(d), d)
BY BoundsAssumption DEF Units, Sound, Follows, Open, Wrong

\* A DIMM without a passphrase is sound, however it was before.
LEMMA DisabledFollows ==
  ASSUME NEW d \in Units
  PROVE  Follows(Disabled(d), d)
<1>1. /\ Disabled(d) \in Units
      /\ Disabled(d).lock = "disabled" /\ Disabled(d).pass = None
      /\ Disabled(d).wrong = 0 /\ Disabled(d).frozen = d.frozen
  <2>1. 0 \in 0..Tries BY BoundsAssumption
  <2>2. Disabled(d) = With(d, "disabled", None, 0) BY DEF Disabled, With
  <2>3. QED BY <2>1, <2>2, WithFields
<1>2. QED BY <1>1 DEF Sound, Follows

\* An accepted unlock leaves a DIMM unlocked, below its limit and with the
\* passphrase that was given; a refused one changes at most the count of the
\* wrong attempts of a DIMM that takes more.
LEMMA UnlockUnitIsSound ==
  ASSUME NEW d \in Units, Sound(d), NEW p, NEW r \in UnlockUnit(d, p)
  PROVE  /\ Follows(r[1], d)
         /\ r[2] \in {"ok", "error"}
         /\ r[2] = "ok" => r[1].lock = "unlocked" /\ r[1].pass = p /\ r[1].wrong < Tries
         /\ r[2] # "ok" => r[1] = d \/ (Open(d) /\ d.lock # "disabled" /\ r[1] = Wrong(d))
<1>1. CASE ~Open(d) \/ d.lock = "disabled"
  BY <1>1 DEF UnlockUnit, Follows
<1>2. CASE Open(d) /\ d.lock # "disabled" /\ d.pass # p
  BY <1>2, WrongFollows DEF UnlockUnit
<1>3. CASE Open(d) /\ d.lock = "locked" /\ d.pass = p
  <2>1. r = <<[d EXCEPT !.lock = "unlocked", !.wrong = 0], "ok">>
    BY <1>3 DEF UnlockUnit, Open
  <2>2. /\ r[1] \in Units /\ r[2] = "ok"
        /\ r[1].lock = "unlocked" /\ r[1].pass = d.pass /\ r[1].wrong = 0 /\ r[1].frozen = d.frozen
    <3>1. 0 \in 0..Tries /\ d.pass \in Passphrases \cup {None}
      BY BoundsAssumption DEF Units
    <3> DEFINE e == [d EXCEPT !.lock = "unlocked", !.wrong = 0]
    <3>2. e \in Units BY <3>1 DEF Units
    <3>3. e.lock = "unlocked" /\ e.wrong = 0 BY DEF Units
    <3>4. e.pass = d.pass /\ e.frozen = d.frozen BY DEF Units
    <3>5. r[1] = e /\ r[2] = "ok" BY <2>1
    <3> HIDE DEF e
    <3>6. QED BY <3>2, <3>3, <3>4, <3>5
  <2>3. d.pass # None BY <1>3 DEF Sound
  <2>4. QED BY <1>3, <2>2, <2>3, BoundsAssumption DEF Sound, Follows
<1>4. CASE Open(d) /\ d.lock = "unlocked" /\ d.pass = p
  <2>1. r \in {<<d, "ok">>, <<d, "error">>}
    BY <1>4 DEF UnlockUnit
  <2>2. QED BY <1>4, <2>1 DEF Follows, Open
<1>5. QED BY <1>1, <1>2, <1>3, <1>4 DEF Units

\* A passphrase that was accepted is the DIMM's, which is unlocked.
LEMMA SetPassIsSound ==
  ASSUME NEW d \in Units, Sound(d), NEW old, NEW new \in Passphrases, NEW r \in SetPass(d, old, new)
  PROVE  /\ Follows(r[1], d)
         /\ r[2] \in {"ok", "error"}
         /\ r[2] = "ok" => r[1].lock = "unlocked" /\ r[1].pass = new
<1>1. CASE ~Open(d) \/ d.lock = "locked"
  BY <1>1 DEF SetPass, Follows
<1>2. CASE Open(d) /\ d.lock = "unlocked" /\ d.pass # old
  BY <1>2, WrongFollows DEF SetPass
<1>3. CASE ~(~Open(d) \/ d.lock = "locked") /\ ~(Open(d) /\ d.lock = "unlocked" /\ d.pass # old)
  <2>1. r = <<[d EXCEPT !.lock = "unlocked", !.pass = new, !.wrong = 0], "ok">>
    BY <1>3 DEF SetPass
  <2>2. /\ r[1] \in Units /\ r[2] = "ok"
        /\ r[1].lock = "unlocked" /\ r[1].pass = new /\ r[1].wrong = 0 /\ r[1].frozen = d.frozen
    <3>1. 0 \in 0..Tries BY BoundsAssumption
    <3>2. r = <<With(d, "unlocked", new, 0), "ok">> BY <2>1 DEF With
    <3>3. QED BY <3>1, <3>2, WithFields
  <2>3. QED BY <2>2, NoneAssumption DEF Sound, Follows
<1>4. QED BY <1>1, <1>2, <1>3

\* Disabling the passphrase; it may be refused.
LEMMA DisablePassIsSound ==
  ASSUME NEW d \in Units, Sound(d), NEW p, NEW r \in DisablePass(d, p)
  PROVE  Follows(r[1], d) /\ r[2] \in {"ok", "error"}
<1>1. CASE ~Open(d) \/ d.lock # "unlocked"
  BY <1>1 DEF DisablePass, Follows
<1>2. CASE Open(d) /\ d.lock = "unlocked" /\ d.pass # p
  BY <1>2, WrongFollows DEF DisablePass
<1>3. CASE ~(~Open(d) \/ d.lock # "unlocked") /\ ~(Open(d) /\ d.lock = "unlocked" /\ d.pass # p)
  BY <1>3, DisabledFollows DEF DisablePass
<1>4. QED BY <1>1, <1>2, <1>3

\* A sanitize command, whatever the passphrase.
LEMMA SanitizeIsSound ==
  ASSUME NEW d \in Units, Sound(d), NEW r \in Sanitize(d)
  PROVE  Follows(r[1], d) /\ r[2] \in {"ok", "error"}
BY DisabledFollows DEF Sanitize, Follows

\* Freezing changes neither the lock state nor the passphrase.
LEMMA FreezeIsSound ==
  ASSUME NEW d \in Units, Sound(d), NEW r \in Freeze(d) \cup {<<d, "error">>}
  PROVE  /\ Follows(r[1], d) /\ r[2] \in {"ok", "error"}
         /\ r[1].lock = d.lock /\ r[1].pass = d.pass
         /\ r[2] = "ok" => r[1].frozen
<1>1. CASE r = <<d, "error">> BY <1>1 DEF Follows
<1>2. CASE r = <<[d EXCEPT !.frozen = TRUE], "ok">> BY <1>2 DEF Follows, Units, Sound
<1>3. QED BY <1>1, <1>2 DEF Freeze
-----------------------------------------------------------------------------
(* Types *)

Labels == {"idle", "look", "prepare", "command", "freeze", "finish"}

Types ==
  /\ sku \in Skus
  /\ dimm \in Units /\ Sound(dimm)
  /\ known \in [Procs -> LockStates \cup {"unknown", None}]
  /\ pc \in [Procs -> Labels]
  /\ call \in [Procs -> Requests \cup {None}]
  /\ sent \in [Procs -> 0..Retries]
  /\ rc \in [Procs -> {"ok", "error", "busy"}]
  /\ ran \in [Procs -> {-1, 0, 1, 3}]

\* Where a process is in its call says what it has done so far.
Stage(p) ==
  /\ pc[p] = "idle" <=> call[p] = None
  /\ pc[p] \in {"prepare", "command", "freeze", "finish"} => known[p] # None
  /\ pc[p] \in {"idle", "look", "prepare"} => sent[p] = 0
  /\ pc[p] = "command" => sent[p] < Retries
  /\ pc[p] = "freeze" => call[p].op \in {"set", "unlock"} /\ rc[p] = "ok"

Stages == \A p \in Procs : Stage(p)

TypeInv == Types /\ Stages

\* What a request asks for.
LEMMA RequestFields ==
  ASSUME NEW r \in Requests
  PROVE  /\ r.op \in {"set", "remove", "unlock", "crypto", "quick", "multi"}
         /\ r.op = "set" => r.new \in Passphrases
         /\ r # None
BY NoneAssumption DEF Requests

\* The lock state that security_state_to_enum tells.
LEMMA LockStateType ==
  ASSUME NEW d \in Units
  PROVE  LockState(d) \in LockStates
BY DEF LockState, LockStates, Units

\* The call of a process that is not idle.
LEMMA InCall ==
  ASSUME TypeInv, NEW p \in Procs, pc[p] # "idle"
  PROVE  call[p] \in Requests
BY DEF TypeInv, Types, Stages, Stage

\* What the command of a call can make of the DIMM.
LEMMA ResultsAreSound ==
  ASSUME TypeInv, NEW p \in Procs, pc[p] # "idle", NEW r \in Results(p)
  PROVE  /\ Follows(r[1], dimm)
         /\ r[2] \in {"ok", "error"}
         /\ r[2] = "ok" /\ call[p].op \in {"set", "unlock"} =>
              /\ r[1].lock = "unlocked"
              /\ r[1].pass = IF call[p].op = "set" THEN call[p].new ELSE call[p].old
<1> USE DEF TypeInv, Types
<1>0. call[p] \in Requests BY InCall
<1>1. CASE r = <<dimm, "error">> BY <1>1 DEF Follows
<1>2. CASE call[p].op = "set" /\ r \in SetPass(dimm, call[p].old, call[p].new)
  BY <1>0, <1>2, RequestFields, SetPassIsSound
<1>3. CASE call[p].op \in {"remove", "crypto"} /\ r \in DisablePass(dimm, call[p].old)
  BY <1>3, DisablePassIsSound
<1>4. CASE call[p].op = "unlock" /\ r \in UnlockUnit(dimm, call[p].old)
  BY <1>4, UnlockUnitIsSound
<1>5. CASE call[p].op \in {"quick", "multi", "crypto"} /\ r \in Sanitize(dimm)
  BY <1>5, SanitizeIsSound
<1>6. QED
  BY <1>0, <1>1, <1>2, <1>3, <1>4, <1>5, RequestFields DEF Results

\* A call that returns leaves its process idle and the others as they are.
LEMMA ReturnTypes ==
  ASSUME TypeInv, NEW p \in Procs, Return(p), dimm' \in Units, Sound(dimm'), UNCHANGED sku,
         known' \in [Procs -> LockStates \cup {"unknown", None}],
         \A q \in Procs \ {p} : known'[q] = known[q]
  PROVE  TypeInv'
<1> USE DEF TypeInv, Types, Return, Goto
<1>1. Types'
  <2>1. 0 \in 0..Retries BY BoundsAssumption
  <2>2. pc' \in [Procs -> Labels] /\ call' \in [Procs -> Requests \cup {None}] BY DEF Labels
  <2>3. sent' \in [Procs -> 0..Retries] BY <2>1
  <2>4. rc' \in [Procs -> {"ok", "error", "busy"}] /\ ran' \in [Procs -> {-1, 0, 1, 3}] OBVIOUS
  <2>5. QED BY <2>2, <2>3, <2>4
<1>2. ASSUME NEW q \in Procs PROVE Stage(q)'
  <2>1. CASE q = p BY <2>1 DEF Stages, Stage
  <2>2. CASE q # p
    <3>1. Stage(q) BY DEF Stages
    <3>2. /\ pc'[q] = pc[q] /\ call'[q] = call[q] /\ sent'[q] = sent[q]
          /\ rc'[q] = rc[q] /\ known'[q] = known[q]
      BY <2>2
    <3>3. QED BY <3>1, <3>2 DEF Stage
  <2>3. QED BY <2>1, <2>2
<1>3. QED BY <1>1, <1>2 DEF Stages

\* The DIMM and the processes at the start.
LEMMA TypeInvInit == Init => TypeInv
<1> SUFFICES ASSUME Init PROVE TypeInv OBVIOUS
<1>1. dimm \in Units /\ Sound(dimm)
  <2>1. 0 \in 0..Tries BY BoundsAssumption
  <2>2. CASE dimm \in [lock : {"disabled"}, frozen : {FALSE}, pass : {None}, wrong : {0}]
    BY <2>1, <2>2 DEF Units, Sound
  <2>3. CASE dimm \in [lock : {"locked"}, frozen : {FALSE}, pass : Passphrases, wrong : {0}]
    BY <2>1, <2>3, NoneAssumption DEF Units, Sound
  <2>4. QED BY <2>2, <2>3 DEF Init
<1>2. QED BY <1>1, BoundsAssumption DEF Init, TypeInv, Types, Stages, Stage, Labels

\* Every step keeps the types and the stages of the calls.
LEMMA TypeInvNext == TypeInv /\ [Next]_vars => TypeInv'
<1> SUFFICES ASSUME TypeInv, [Next]_vars PROVE TypeInv' OBVIOUS
<1> USE DEF TypeInv
<1>1. ASSUME NEW p \in Procs, Call(p) PROVE TypeInv'
  <2>1. PICK r \in Asked[p] : call' = [call EXCEPT ![p] = r] BY <1>1 DEF Call
  <2>2. r \in Requests BY RequestAssumption
  <2>3. r # None BY <2>2, RequestFields
  <2>4. Types' BY <1>1, <2>1, <2>2 DEF Types, Call, Goto, Labels
  <2>5. Stages' BY <1>1, <2>1, <2>2, <2>3 DEF Types, Stages, Stage, Call, Goto
  <2>6. QED BY <2>4, <2>5
<1>2. ASSUME NEW p \in Procs, Look(p) PROVE TypeInv'
  <2>1. LockState(dimm) \in LockStates BY LockStateType DEF Types
  <2>2. CASE known[p] # None /\ UNCHANGED <<known, meddled>>
    <3>1. Types' BY <1>2, <2>2 DEF Types, Look, Goto, Labels
    <3>2. Stages' BY <1>2, <2>2 DEF Types, Stages, Stage, Look, Goto
    <3>3. QED BY <3>1, <3>2
  <2>3. CASE known[p] = None
    <3>1. PICK state \in LockStates \cup {"unknown"} : known' = [known EXCEPT ![p] = state]
      BY <1>2, <2>1, <2>3 DEF Look
    <3>2. state # None BY NoneAssumption
    <3>3. Types' BY <1>2, <3>1 DEF Types, Look, Goto, Labels
    <3>4. Stages' BY <1>2, <3>1, <3>2 DEF Types, Stages, Stage, Look, Goto
    <3>5. QED BY <3>3, <3>4
  <2>4. QED BY <1>2, <2>2, <2>3 DEF Look
<1>3. ASSUME NEW p \in Procs, PrepareRefuses(p) PROVE TypeInv'
  BY <1>3, ReturnTypes DEF PrepareRefuses, Types
<1>4. ASSUME NEW p \in Procs, PreparePasses(p) PROVE TypeInv'
  <2>1. Types' BY <1>4 DEF Types, PreparePasses, Goto, Labels
  <2>2. Stages' BY <1>4, BoundsAssumption DEF Types, Stages, Stage, PreparePasses, Goto
  <2>3. QED BY <2>1, <2>2
<1>5. ASSUME NEW p \in Procs, PrepareUnlocks(p) PROVE TypeInv'
  <2>1. PICK r \in UnlockUnit(dimm, call[p].old) \cup {<<dimm, "error">>} :
          /\ Becomes(p, r[1])
          /\ \/ r[2] = "ok" /\ Goto(p, "command") /\ UNCHANGED <<call, sent, rc, ran>>
             \/ r[2] # "ok" /\ Return(p)
    BY <1>5 DEF PrepareUnlocks
  <2>2. dimm' \in Units /\ Sound(dimm')
    BY <2>1, UnlockUnitIsSound DEF Types, Becomes, Follows
  <2>3. CASE r[2] = "ok"
    <3>1. Types' BY <1>5, <2>1, <2>2, <2>3 DEF Types, PrepareUnlocks, Goto, Labels
    <3>2. Stages' BY <1>5, <2>1, <2>3, BoundsAssumption DEF Types, Stages, Stage, PrepareUnlocks, Goto
    <3>3. QED BY <3>1, <3>2
  <2>4. CASE r[2] # "ok" BY <1>5, <2>1, <2>2, <2>4, ReturnTypes DEF PrepareUnlocks, Types
  <2>5. QED BY <2>3, <2>4
<1>6. ASSUME NEW p \in Procs, Command(p) PROVE TypeInv'
  <2> DEFINE to(r) == IF r[2] = "ok" /\ call[p].op \in {"set", "unlock"} THEN "freeze" ELSE "finish"
  <2>1. PICK r \in Results(p) :
          /\ Becomes(p, r[1])
          /\ rc' = [rc EXCEPT ![p] = r[2]]
          /\ ran' = [ran EXCEPT ![p] = IF r[2] = "ok" /\ Erases(p) THEN Options(p) ELSE @]
          /\ Goto(p, to(r))
    BY <1>6 DEF Command
  <2>2. Follows(r[1], dimm) /\ r[2] \in {"ok", "error"}
    BY <1>6, <2>1, ResultsAreSound DEF Command
  <2>3. dimm' \in Units /\ Sound(dimm') BY <2>1, <2>2 DEF Becomes, Follows
  <2>4. sent' \in [Procs -> 0..Retries]
    BY <1>6, BoundsAssumption DEF Command, Types, Stages, Stage
  <2>5. Options(p) \in {0, 1, 3} BY DEF Options
  <2>6. ran' \in [Procs -> {-1, 0, 1, 3}]
    BY <2>1, <2>5 DEF Types
  <2>7. Types' BY <1>6, <2>1, <2>2, <2>3, <2>4, <2>6 DEF Types, Command, Goto, Labels
  <2>8. Stages'
    BY <1>6, <2>1, <2>2 DEF Types, Stages, Stage, Command, Goto
  <2>9. QED BY <2>7, <2>8
<1>7. ASSUME NEW p \in Procs, Busy(p) PROVE TypeInv'
  <2>1. sent' \in [Procs -> 0..Retries]
    BY <1>7, BoundsAssumption DEF Busy, Types, Stages, Stage
  <2>2. Types' BY <1>7, <2>1 DEF Types, Busy, Goto, Labels
  <2>3. Stages' BY <1>7, BoundsAssumption DEF Types, Stages, Stage, Busy, Goto
  <2>4. QED BY <2>2, <2>3
<1>8. ASSUME NEW p \in Procs, SendFreeze(p) PROVE TypeInv'
  <2>1. PICK r \in Freeze(dimm) \cup {<<dimm, "error">>} :
          Becomes(p, r[1]) /\ rc' = [rc EXCEPT ![p] = r[2]]
    BY <1>8 DEF SendFreeze
  <2>2. /\ dimm' \in Units /\ Sound(dimm')
        /\ r[2] \in {"ok", "error"}
    BY <2>1, FreezeIsSound DEF Types, Becomes, Follows
  <2>3. Types' BY <1>8, <2>1, <2>2 DEF Types, SendFreeze, Goto, Labels
  <2>4. Stages' BY <1>8, <2>1 DEF Types, Stages, Stage, SendFreeze, Goto
  <2>5. QED BY <2>3, <2>4
<1>9. ASSUME NEW p \in Procs, Finish(p) PROVE TypeInv'
  BY <1>9, ReturnTypes DEF Finish, Types
<1>10. ASSUME Reset PROVE TypeInv'
  <2>1. dimm' \in Units /\ Sound(dimm')
    <3> DEFINE l == IF dimm.lock = "disabled" THEN "disabled" ELSE "locked"
    <3>1. dimm \in Units /\ Sound(dimm) BY DEF Types
    <3>2. 0 \in 0..Tries BY BoundsAssumption
    <3>3. dimm' = [dimm EXCEPT !.lock = l, !.frozen = FALSE, !.wrong = 0]
      BY <1>10, <3>1 DEF Reset, Units
    <3>4. dimm'.lock = l /\ dimm'.pass = dimm.pass BY <3>1, <3>3 DEF Units
    <3>5. dimm'.wrong = 0 /\ dimm' \in Units BY <3>1, <3>2, <3>3 DEF Units
    <3>6. QED BY <3>1, <3>4, <3>5 DEF Sound
  <2>2. QED BY <1>10, <2>1, BoundsAssumption DEF Reset, Types, Stages, Stage, Labels
<1>11. CASE UNCHANGED vars
  BY <1>11 DEF vars, procVars, Types, Stages, Stage
<1>12. QED
  BY <1>1, <1>2, <1>3, <1>4, <1>5, <1>6, <1>7, <1>8, <1>9, <1>10, <1>11 DEF Next, Step

\* The type invariant, for any number of processes, attempts and retries.
THEOREM TypeCorrect == Spec => []TypeOK
<1>1. TypeInv => TypeOK
  BY DEF TypeInv, Types, Stages, Stage, TypeOK, Units, Sound, LockStates
<1>2. QED BY <1>1, TypeInvInit, TypeInvNext, PTL DEF Spec

-----------------------------------------------------------------------------
(* What the steps of one process mean to the others *)

\* Another process goes on where it was, and when its view of the DIMM was
\* not taken from it, the DIMM is as it was.
LEMMA Bystander ==
  ASSUME TypeInv, NEW p \in Procs, Call(p) \/ Step(p), NEW q \in Procs \ {p}
  PROVE  /\ pc'[q] = pc[q] /\ call'[q] = call[q] /\ known'[q] = known[q]
         /\ sent'[q] = sent[q] /\ rc'[q] = rc[q] /\ ran'[q] = ran[q]
         /\ sku' = sku
         /\ q \notin meddled' => q \notin meddled /\ dimm' = dimm
<1> USE DEF TypeInv, Types, Goto, Return
<1>1. CASE Call(p) BY <1>1 DEF Call
<1>2. CASE Look(p) BY <1>2 DEF Look
<1>3. CASE PrepareRefuses(p) BY <1>3 DEF PrepareRefuses
<1>4. CASE PreparePasses(p) BY <1>4 DEF PreparePasses
<1>5. CASE PrepareUnlocks(p) BY <1>5 DEF PrepareUnlocks, Becomes
<1>6. CASE Command(p) BY <1>6 DEF Command, Becomes
<1>7. CASE Busy(p) BY <1>7 DEF Busy
<1>8. CASE SendFreeze(p) BY <1>8 DEF SendFreeze, Becomes
<1>9. CASE Finish(p) BY <1>9 DEF Finish
<1>10. QED BY <1>1, <1>2, <1>3, <1>4, <1>5, <1>6, <1>7, <1>8, <1>9 DEF Step

\* Only a reset thaws a DIMM.
LEMMA StaysFrozen ==
  ASSUME TypeInv, NEW p \in Procs, Call(p) \/ Step(p), dimm.frozen
  PROVE  dimm'.frozen
<1> USE DEF TypeInv, Types
<1>1. CASE PrepareUnlocks(p)
  <2>1. PICK r \in UnlockUnit(dimm, call[p].old) \cup {<<dimm, "error">>} : dimm' = r[1]
    BY <1>1 DEF PrepareUnlocks, Becomes
  <2>2. QED BY <2>1, UnlockUnitIsSound DEF Follows
<1>2. CASE Command(p)
  <2>1. PICK r \in Results(p) : dimm' = r[1]
    BY <1>2 DEF Command, Becomes
  <2>2. QED BY <1>2, <2>1, ResultsAreSound DEF Command, Follows
<1>3. CASE SendFreeze(p)
  <2>1. PICK r \in Freeze(dimm) \cup {<<dimm, "error">>} : dimm' = r[1]
    BY <1>3 DEF SendFreeze, Becomes
  <2>2. QED BY <2>1, FreezeIsSound DEF Follows
<1>4. QED
  BY <1>1, <1>2, <1>3 DEF Step, Call, Look, PrepareRefuses, PreparePasses, Busy, Finish

-----------------------------------------------------------------------------
(* What a process may believe *)

Within(p) == pc[p] = "command" /\ ~IsSanitize(p) /\ p \notin meddled => dimm.wrong < Tries

Informed(p) ==
  known[p] \notin {None, "unknown"} /\ p \notin meddled /\ pc[p] \in {"idle", "look", "prepare"} =>
    \/ known[p] = LockState(dimm)
    \/ known[p] = "locked" /\ LockState(dimm) = "limit"

Beliefs == \A p \in Procs : Within(p) /\ Informed(p)

\* A DIMM that is told to be neither at its limit nor locked takes more
\* attempts.
LEMMA BelowLimit ==
  ASSUME NEW d \in Units, Sound(d), LockState(d) \in {"disabled", "unlocked"}
  PROVE  d.wrong < Tries
BY BoundsAssumption DEF LockState, Units, Sound

\* A wrong passphrase leaves a locked DIMM locked or at its limit.
LEMMA WrongOnLocked ==
  ASSUME NEW d \in Units, LockState(d) = "locked", Open(d)
  PROVE  LockState(Wrong(d)) \in {"locked", "limit"}
<1>1. d.lock = "locked" /\ ~d.frozen BY DEF LockState, Units, Open
<1>2. Wrong(d).lock = "locked" /\ Wrong(d).frozen = d.frozen BY <1>1 DEF Wrong, Units
<1>3. QED BY <1>1, <1>2 DEF LockState

\* A step of one process leaves the beliefs of the others true.
LEMMA BeliefsOfOthers ==
  ASSUME TypeInv, Beliefs, NEW p \in Procs, Call(p) \/ Step(p), NEW q \in Procs \ {p}
  PROVE  Within(q)' /\ Informed(q)'
<1>1. /\ pc'[q] = pc[q] /\ call'[q] = call[q] /\ known'[q] = known[q] /\ sku' = sku
      /\ q \notin meddled' => q \notin meddled /\ dimm' = dimm
  BY Bystander
<1>2. Within(q) /\ Informed(q) BY DEF Beliefs
<1>3. Within(q)' BY <1>1, <1>2 DEF Within, IsSanitize
<1>4. Informed(q)' BY <1>1, <1>2 DEF Informed
<1>5. QED BY <1>3, <1>4

\* Nothing is cached at the start.
LEMMA BeliefsInit == Init => Beliefs
BY DEF Init, Beliefs, Within, Informed

\* Every step keeps what the processes believe true; only the unlock of a
\* call can take a locked DIMM to its limit.
LEMMA BeliefsNext == TypeInv /\ Beliefs /\ [Next]_vars => Beliefs'
<1> SUFFICES ASSUME TypeInv, Beliefs, [Next]_vars PROVE Beliefs' OBVIOUS
<1> USE DEF TypeInv
<1>1. ASSUME NEW p \in Procs, Call(p) PROVE Within(p)' /\ Informed(p)'
  BY <1>1 DEF Call, Goto, Types, Beliefs, Within, Informed
<1>2. ASSUME NEW p \in Procs, Look(p) PROVE Within(p)' /\ Informed(p)'
  BY <1>2 DEF Look, Goto, Types, Beliefs, Within, Informed
<1>3. ASSUME NEW p \in Procs, PrepareRefuses(p) PROVE Within(p)' /\ Informed(p)'
  BY <1>3 DEF PrepareRefuses, Return, Goto, Types, Beliefs, Within, Informed
<1>4. ASSUME NEW p \in Procs, PreparePasses(p) PROVE Within(p)' /\ Informed(p)'
  <2>1. pc'[p] = "command" /\ dimm' = dimm /\ meddled' = meddled /\ call' = call /\ sku' = sku
    BY <1>4 DEF PreparePasses, Goto, Types
  <2>2. ASSUME ~IsSanitize(p), p \notin meddled PROVE dimm.wrong < Tries
    <3>1. known[p] \in {"disabled", "unlocked"}
      BY <1>4, <2>2 DEF PreparePasses, Refused, Types, LockStates, Stages, Stage
    <3>2. known[p] = LockState(dimm)
      BY <1>4, <2>2, <3>1, NoneAssumption DEF PreparePasses, Beliefs, Informed, LockStates
    <3>3. QED BY <3>1, <3>2, BelowLimit DEF Types
  <2>3. QED BY <2>1, <2>2 DEF Within, Informed, IsSanitize
<1>5. ASSUME NEW p \in Procs, PrepareUnlocks(p) PROVE Within(p)' /\ Informed(p)'
  <2>1. PICK r \in UnlockUnit(dimm, call[p].old) \cup {<<dimm, "error">>} :
          /\ Becomes(p, r[1])
          /\ \/ r[2] = "ok" /\ Goto(p, "command") /\ UNCHANGED <<call, sent, rc, ran>>
             \/ r[2] # "ok" /\ Return(p)
    BY <1>5 DEF PrepareUnlocks
  <2>2. /\ dimm' = r[1] /\ known' = known
        /\ p \notin meddled' => p \notin meddled
    BY <1>5, <2>1 DEF PrepareUnlocks, Becomes
  <2>3. CASE r[2] = "ok"
    <3>1. r[1].wrong < Tries BY <2>1, <2>3, UnlockUnitIsSound DEF Types
    <3>2. pc'[p] = "command" BY <2>1, <2>3 DEF Goto, Types
    <3>3. QED BY <2>2, <3>1, <3>2 DEF Within, Informed
  <2>4. CASE r[2] # "ok"
    <3>1. pc'[p] = "idle" BY <2>1, <2>4 DEF Return, Goto, Types
    <3>2. known[p] = "locked" /\ pc[p] = "prepare" BY <1>5 DEF PrepareUnlocks
    <3>3. r[1] = dimm \/ (Open(dimm) /\ dimm.lock # "disabled" /\ r[1] = Wrong(dimm))
      BY <2>1, <2>4, UnlockUnitIsSound DEF Types
    <3>4. ASSUME p \notin meddled PROVE LockState(r[1]) \in {"locked", "limit"}
      <4>1. LockState(dimm) \in {"locked", "limit"}
        BY <3>2, <3>4, NoneAssumption DEF Beliefs, Informed, LockStates
      <4>2. LockState(dimm) = "limit" => ~Open(dimm)
        BY DEF LockState, Open, Types, Units
      <4>3. QED BY <3>3, <4>1, <4>2, WrongOnLocked DEF Types
    <3>5. QED BY <2>2, <3>1, <3>2, <3>4 DEF Within, Informed
  <2>5. QED BY <2>3, <2>4
<1>6. ASSUME NEW p \in Procs, Command(p) PROVE Within(p)' /\ Informed(p)'
  <2>1. pc'[p] \in {"freeze", "finish"} BY <1>6 DEF Command, Goto, Types
  <2>2. QED BY <2>1 DEF Within, Informed
<1>7. ASSUME NEW p \in Procs, Busy(p) PROVE Within(p)' /\ Informed(p)'
  <2>1. /\ pc[p] = "command" /\ pc'[p] \in {"command", "finish"}
        /\ dimm' = dimm /\ meddled' = meddled /\ call' = call /\ sku' = sku
    BY <1>7 DEF Busy, Goto, Types
  <2>2. QED BY <2>1 DEF Beliefs, Within, Informed, IsSanitize
<1>8. ASSUME NEW p \in Procs, SendFreeze(p) PROVE Within(p)' /\ Informed(p)'
  <2>1. pc'[p] = "finish" BY <1>8 DEF SendFreeze, Goto, Types
  <2>2. QED BY <2>1 DEF Within, Informed
<1>9. ASSUME NEW p \in Procs, Finish(p) PROVE Within(p)' /\ Informed(p)'
  <2>1. pc'[p] = "idle" /\ known'[p] = None BY <1>9 DEF Finish, Return, Goto, Types
  <2>2. QED BY <2>1 DEF Within, Informed
<1>10. ASSUME NEW p \in Procs, Call(p) \/ Step(p) PROVE Beliefs'
  <2>1. Within(p)' /\ Informed(p)'
    BY <1>1, <1>2, <1>3, <1>4, <1>5, <1>6, <1>7, <1>8, <1>9, <1>10 DEF Step
  <2>2. ASSUME NEW q \in Procs \ {p} PROVE Within(q)' /\ Informed(q)'
    BY <1>10, BeliefsOfOthers
  <2>3. QED BY <2>1, <2>2 DEF Beliefs
<1>11. CASE Reset BY <1>11 DEF Reset, Beliefs, Within, Informed
<1>12. CASE UNCHANGED vars
  BY <1>12 DEF vars, procVars, Beliefs, Within, Informed, IsSanitize
<1>13. QED BY <1>10, <1>11, <1>12 DEF Next

\* A process that nobody meddled with knows the state of the DIMM, and does
\* not send a change to one that takes no more attempts.
THEOREM BeliefsAreTrue == Spec => []StateTrusted
<1>1. Beliefs => StateTrusted
  BY DEF Beliefs, Within, Informed, StateTrusted, LimitRespected, StateKnown
<1>2. QED BY <1>1, TypeInvInit, TypeInvNext, BeliefsInit, BeliefsNext, PTL DEF Spec

-----------------------------------------------------------------------------
(* What a call that returned success has done *)

Held(p) ==
  /\ dimm.lock = "unlocked"
  /\ dimm.pass = IF call[p].op = "set" THEN call[p].new ELSE call[p].old

\* A DIMM that is about to be frozen is unlocked, with the passphrase of the
\* call, unless another process came between.
ToFreeze(p) == pc[p] = "freeze" /\ p \notin meddled => Held(p)

Frozen(p) ==
  Succeeded(p, {"set", "unlock"}) => dimm.frozen /\ (p \notin meddled => Held(p))

Overwritten(p) ==
  /\ Succeeded(p, {"quick"}) /\ sent[p] = 1 => ran[p] = 1
  /\ Succeeded(p, {"multi"}) /\ sent[p] = 1 => ran[p] = 3

DoneBy(p) == ToFreeze(p) /\ Frozen(p) /\ Overwritten(p)

Done == \A p \in Procs : DoneBy(p)

\* A step of one process does not take away what another has done, but for
\* what it meddles with.
LEMMA DoneByOthers ==
  ASSUME TypeInv, Done, NEW p \in Procs, Call(p) \/ Step(p), NEW q \in Procs \ {p}
  PROVE  DoneBy(q)'
<1>1. /\ pc'[q] = pc[q] /\ call'[q] = call[q] /\ sent'[q] = sent[q]
      /\ rc'[q] = rc[q] /\ ran'[q] = ran[q]
      /\ q \notin meddled' => q \notin meddled /\ dimm' = dimm
  BY Bystander
<1>2. dimm.frozen => dimm'.frozen BY StaysFrozen
<1>3. DoneBy(q) BY DEF Done
<1>4. ToFreeze(q)' BY <1>1, <1>3 DEF DoneBy, ToFreeze, Held
<1>5. Frozen(q)' BY <1>1, <1>2, <1>3 DEF DoneBy, Frozen, Succeeded, Held
<1>6. Overwritten(q)' BY <1>1, <1>3 DEF DoneBy, Overwritten, Succeeded
<1>7. QED BY <1>4, <1>5, <1>6 DEF DoneBy

\* Before its command a call has nothing to show.
LEMMA NothingDone ==
  ASSUME NEW p \in Procs, pc[p] \notin {"freeze", "finish"}
  PROVE  DoneBy(p)
BY DEF DoneBy, ToFreeze, Frozen, Overwritten, Succeeded

\* No call has returned at the start.
LEMMA DoneInit == Init => Done
BY NothingDone DEF Init, Done

\* The command of a call does what was asked and freezing ends it.
LEMMA DoneNext == TypeInv /\ Done /\ [Next]_vars => Done'
<1> SUFFICES ASSUME TypeInv, Done, [Next]_vars PROVE Done' OBVIOUS
<1> USE DEF TypeInv
<1>1. ASSUME NEW p \in Procs, pc'[p] \notin {"freeze", "finish"} PROVE DoneBy(p)'
  BY <1>1 DEF DoneBy, ToFreeze, Frozen, Overwritten, Succeeded
<1>2. ASSUME NEW p \in Procs,
             Call(p) \/ Look(p) \/ PrepareRefuses(p) \/ PreparePasses(p) \/ PrepareUnlocks(p) \/ Finish(p)
      PROVE  DoneBy(p)'
  <2>1. pc'[p] \in {"idle", "look", "prepare", "command"}
    BY <1>2 DEF Call, Look, PrepareRefuses, PreparePasses, PrepareUnlocks, Finish, Return, Goto, Types
  <2>2. QED BY <1>1, <2>1
<1>3. ASSUME NEW p \in Procs, Command(p) PROVE DoneBy(p)'
  <2> DEFINE to(r) == IF r[2] = "ok" /\ call[p].op \in {"set", "unlock"} THEN "freeze" ELSE "finish"
  <2>1. PICK r \in Results(p) :
          /\ Becomes(p, r[1])
          /\ rc' = [rc EXCEPT ![p] = r[2]]
          /\ ran' = [ran EXCEPT ![p] = IF r[2] = "ok" /\ Erases(p) THEN Options(p) ELSE @]
          /\ Goto(p, to(r))
    BY <1>3 DEF Command
  <2>2. /\ dimm' = r[1] /\ rc'[p] = r[2] /\ pc'[p] = to(r) /\ call' = call
        /\ ran'[p] = IF r[2] = "ok" /\ Erases(p) THEN Options(p) ELSE ran[p]
    BY <1>3, <2>1 DEF Command, Becomes, Goto, Types
  <2>3. pc[p] = "command" /\ sent'[p] = IF Erases(p) THEN sent[p] + 1 ELSE sent[p]
    BY <1>3 DEF Command, Types
  <2>4. r[2] = "ok" /\ call[p].op \in {"set", "unlock"} =>
          /\ r[1].lock = "unlocked"
          /\ r[1].pass = IF call[p].op = "set" THEN call[p].new ELSE call[p].old
    BY <2>3, ResultsAreSound
  <2>5. ToFreeze(p)' BY <2>2, <2>4 DEF ToFreeze, Held
  <2>6. Frozen(p)' BY <2>2 DEF Frozen, Succeeded
  <2>7. sent[p] \in Nat BY BoundsAssumption DEF Types
  <2>8. Overwritten(p)' BY <2>2, <2>3, <2>7 DEF Overwritten, Succeeded, Erases, Options
  <2>9. QED BY <2>5, <2>6, <2>8 DEF DoneBy
<1>4. ASSUME NEW p \in Procs, Busy(p) PROVE DoneBy(p)'
  <2>1. rc'[p] = "busy" /\ pc'[p] \in {"command", "finish"} BY <1>4 DEF Busy, Goto, Types
  <2>2. QED BY <2>1 DEF DoneBy, ToFreeze, Frozen, Overwritten, Succeeded
<1>5. ASSUME NEW p \in Procs, SendFreeze(p) PROVE DoneBy(p)'
  <2>1. PICK r \in Freeze(dimm) \cup {<<dimm, "error">>} :
          Becomes(p, r[1]) /\ rc' = [rc EXCEPT ![p] = r[2]]
    BY <1>5 DEF SendFreeze
  <2>2. /\ dimm'.lock = dimm.lock /\ dimm'.pass = dimm.pass
        /\ rc'[p] = "ok" => dimm'.frozen
    BY <2>1, FreezeIsSound DEF Types, Becomes
  <2>3. /\ pc[p] = "freeze" /\ pc'[p] = "finish" /\ call' = call
        /\ p \notin meddled' => p \notin meddled
    BY <1>5, <2>1 DEF SendFreeze, Becomes, Goto, Types
  <2>4. call[p].op \in {"set", "unlock"} BY <2>3 DEF Stages, Stage
  <2>5. ToFreeze(p) BY DEF Done, DoneBy
  <2>6. ToFreeze(p)' BY <2>3 DEF ToFreeze
  <2>7. Frozen(p)' BY <2>2, <2>3, <2>5 DEF Frozen, ToFreeze, Succeeded, Held
  <2>8. Overwritten(p)' BY <2>3, <2>4 DEF Overwritten, Succeeded
  <2>9. QED BY <2>6, <2>7, <2>8 DEF DoneBy
<1>6. ASSUME NEW p \in Procs, Call(p) \/ Step(p) PROVE Done'
  <2>1. DoneBy(p)' BY <1>2, <1>3, <1>4, <1>5, <1>6 DEF Step
  <2>2. ASSUME NEW q \in Procs \ {p} PROVE DoneBy(q)' BY <1>6, DoneByOthers
  <2>3. QED BY <2>1, <2>2 DEF Done
<1>7. CASE Reset BY <1>1, <1>7 DEF Reset, Done
<1>8. CASE UNCHANGED vars
  BY <1>8 DEF vars, procVars, Done, DoneBy, ToFreeze, Frozen, Overwritten, Succeeded, Held
<1>9. QED BY <1>6, <1>7, <1>8 DEF Next

\* nvm_set_passphrase and nvm_unlock_device that return success leave the
\* DIMM frozen, and unlocked with the passphrase of the call when no other
\* process came between; an overwrite accepted at its first command ran its
\* passes.
THEOREM SuccessIsDone == Spec => []DoneAsAsked
<1>1. Done => DoneAsAsked
  BY DEF Done, DoneBy, Frozen, Overwritten, Held, DoneAsAsked
<1>2. QED BY <1>1, TypeInvInit, TypeInvNext, DoneInit, DoneNext, PTL DEF Spec
=============================================================================
