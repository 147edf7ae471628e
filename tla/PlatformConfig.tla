--------------------------- MODULE PlatformConfig ---------------------------
(***************************************************************************)
(* The platform config data (PCD) of one DIMM: how a configuration goal is *)
(* created, read and deleted (src/src/lib/config_goal.c) through the       *)
(* flash partition that software and BIOS share                            *)
(* (src/src/lib/platform_config_data.c), and the copy of it each process   *)
(* caches (src/src/lib/nvm_context.c).                                     *)
(*                                                                         *)
(* A PCD is a header and three tables: current config and config output    *)
(* are BIOS's, config input is the goal.  Software never edits it in       *)
(* place: it reads the whole, checks it, builds a new one and writes that, *)
(* in one command where the build has large payloads and else chunk by     *)
(* chunk.  Nothing excludes another process meanwhile.                     *)
(*                                                                         *)
(* A chunk written is 64 bytes and a chunk read 128, as in the code; here  *)
(* every table starts on a chunk, and a chunk is named by what it holds.   *)
(* The 8-bit checksum of a table stands for "all of its chunks belong to   *)
(* one table": a collision is not modelled.  Callers pass the checks on    *)
(* permissions, capabilities and sizes that precede the flash; the log     *)
(* entries written after a success are left out.                           *)
(***************************************************************************)
EXTENDS Integers, Sequences, FiniteSets

CONSTANTS
  Procs,      \* processes that use the library on this DIMM
  Goals,      \* configuration goals, each with
  Length,     \*   the chunks of its config input table
  PartSize,   \* chunks in the partition
  None,       \* no table, no cached PCD, no outcome
  MaxBoots,   \* bound on the restarts of the machine
  MaxFaults,  \* bound on the commands that fail and the processes that die
  MaxSmall    \* bound on both together where a command takes one small chunk

ASSUME GoalAssumption ==
  /\ PartSize \in Nat /\ PartSize >= 3
  /\ Length \in [Goals -> Nat \ {0}] /\ \A g \in Goals : Length[g] + 3 <= PartSize
\* A table has a sequence number, a length and a body: a goal, or what BIOS
\* says of one.
Bodies == Goals \cup {None} \cup [goal : Goals, ok : BOOLEAN]
Kinds == {"current", "input", "output"}
Tables == [kind : Kinds, seq : Nat, length : Nat \ {0}, body : Bodies]

ASSUME NoneAssumption ==
  /\ None \notin Goals /\ None \notin Tables
  /\ None \notin [current : Tables, input : Tables \cup {None}, output : Tables \cup {None}]
ASSUME BoundsAssumption == {MaxBoots, MaxFaults, MaxSmall} \subseteq Nat

VARIABLES
  large,    \* __LARGE_PAYLOAD__ of the build
  flash,    \* the partition: its chunks
  cache,    \* the PCD in the context of each process
  pc,       \* where each process is: idle, size, read, act, write, done
  call,     \* what it was called for: [op, goal]
  need,     \* chunks its read is to fetch
  buf,      \* chunks it has read, or is to write
  pos,      \* chunks it has written
  bios,     \* history: the tables BIOS left: [current, output]
  last,     \* history: what the last write to end left as a goal, and
  awaiting, \*   whether no boot has come since
  mixed,    \* history: the last writes: "no", one "failed", or they were "cut"
  view,     \* history: each process's PCD: "clear", "stale", or read "blurred"
  boots, faults

readVars == <<need, buf, pos>>
procVars == <<cache, pc, call, readVars>>
history  == <<bios, last, awaiting, mixed, view>>
vars     == <<large, flash, procVars, history, boots, faults>>

-----------------------------------------------------------------------------
\* Tables, PCDs and their chunks.

Table(kind, seq, body, length) == [kind |-> kind, seq |-> seq, body |-> body, length |-> length]
PCD(current, input, output) == [current |-> current, input |-> input, output |-> output]

Size(t) == IF t = None THEN 0 ELSE t.length
Chunks(t) == [i \in 1..Size(t) |-> [table |-> t, part |-> i]]

\* build_platform_config_data: a header with the sizes of the tables that
\* are there, then those tables, each at the offset where the last one ends.
Layout(d) ==
  <<[current |-> Size(d.current), input |-> Size(d.input), output |-> Size(d.output)]>>
    \o Chunks(d.current) \o Chunks(d.input) \o Chunks(d.output)

Total(header) == 1 + header.current + header.input + header.output

\* A checksum over the table's own length and a signature of its kind.
Whole(chunks, offset, kind) ==
  /\ offset < Len(chunks) /\ "table" \in DOMAIN chunks[offset + 1]
  /\ LET t == chunks[offset + 1].table IN
       /\ t.kind = kind
       /\ offset + t.length <= Len(chunks)
       /\ \A i \in 1..t.length : chunks[offset + i] = [table |-> t, part |-> i]

InputOffset(header)  == 1 + header.current
OutputOffset(header) == 1 + header.current + header.input

\* check_current_config, check_config_input (which compares the lengths
\* too) and check_config_output: an absent table passes.
CurrentOK(c) == c[1].current > 0 => Whole(c, 1, "current")
InputOK(c)   == c[1].input > 0 => /\ Whole(c, InputOffset(c[1]), "input")
                                  /\ c[InputOffset(c[1]) + 1].table.length = c[1].input
OutputOK(c)  == c[1].output > 0 => Whole(c, OutputOffset(c[1]), "output")

\* check_platform_config.  The header's own checksum is made valid before
\* it is verified, so it rejects nothing.
Accepted(c) == CurrentOK(c) /\ InputOK(c) /\ OutputOK(c)

TableAt(c, offset, size) == IF size = 0 \/ offset >= Len(c) THEN None ELSE c[offset + 1].table
Decoded(c) == PCD(TableAt(c, 1, c[1].current), TableAt(c, InputOffset(c[1]), c[1].input),
                  TableAt(c, OutputOffset(c[1]), c[1].output))

\* The partition with chunks from..to of c written over it.
Overwritten(c, from, to) == [i \in 1..PartSize |-> IF i \in from..to THEN c[i] ELSE flash[i]]

\* What the flash holds for whoever reads it undisturbed.
Stored == [i \in 1..Total(flash[1]) |-> flash[i]]
Readable == Accepted(Stored)

LastSeq(d) == IF d.output = None THEN 0 ELSE d.output.seq

\* Mutant of NewInput: every request is the first.
NewInputFirst(d, g) == Table("input", 1, g, Length[g])

\* config_goal_to_config_input: a request with a number BIOS has not seen.
NewInput(d, g) == Table("input", LastSeq(d) + 1, g, Length[g])

\* Mutant of Updated: the tables of BIOS are not carried over.
UpdatedClobbers(d, c) ==
  PCD(d.current, IF c.op = "create" THEN NewInput(d, c.goal) ELSE None, None)

\* Mutant of Updated: a delete leaves the goal there.
UpdatedKeepsGoal(d, c) ==
  PCD(d.current, IF c.op = "create" THEN NewInput(d, c.goal) ELSE d.input, d.output)

\* update_config_goal: the goal is replaced, or dropped, and the tables of
\* BIOS are carried over.
Updated(d, c) ==
  PCD(d.current, IF c.op = "create" THEN NewInput(d, c.goal) ELSE None, d.output)

\* get_config_goal_status_from_platform_config_data
GoalStatus(d) ==
  CASE d.output = None \/ d.output.seq # d.input.seq -> "new"
    [] d.output # None /\ d.output.seq = d.input.seq -> IF d.output.body.ok THEN "success" ELSE "error"

-----------------------------------------------------------------------------
Blank == [current |-> 0, input |-> 0, output |-> 0]   \* zeros
Factory == PCD(Table("current", 0, None, 1), None, None)

Init ==
  /\ large \in BOOLEAN
  /\ flash = [i \in 1..PartSize |-> IF i <= Len(Layout(Factory)) THEN Layout(Factory)[i] ELSE Blank]
  /\ cache = [p \in Procs |-> None]
  /\ pc = [p \in Procs |-> "idle"] /\ call = [p \in Procs |-> None]
  /\ need = [p \in Procs |-> 0] /\ buf = [p \in Procs |-> <<>>] /\ pos = [p \in Procs |-> 0]
  /\ bios = [current |-> Factory.current, output |-> None]
  /\ last = None /\ awaiting = FALSE
  /\ mixed = "no" /\ view = [p \in Procs |-> "clear"]
  /\ boots = 0 /\ faults = 0

Quiet == \A p \in Procs : pc[p] # "write"
OthersWriting(p) == \E q \in Procs \ {p} : pc[q] = "write"

\* History: what a write by p, begun or carried on, does to the others.
Disturbed(p) ==
  [q \in Procs |-> IF q = p \/ (pc[q] = "idle" /\ cache[q] = None) THEN view[q]
                   ELSE IF pc[q] \in {"size", "read"} \/ view[q] = "blurred" THEN "blurred"
                   ELSE "stale"]

Return(p) ==
  /\ pc' = [pc EXCEPT ![p] = "idle"] /\ call' = [call EXCEPT ![p] = None]
  /\ need' = [need EXCEPT ![p] = 0] /\ buf' = [buf EXCEPT ![p] = <<>>] /\ pos' = [pos EXCEPT ![p] = 0]

Goto(p, label) == pc' = [pc EXCEPT ![p] = label]

\* Whether another restart, failure or death is within the bounds.
MoreTrouble == large \/ boots + faults < MaxSmall

Fault == faults < MaxFaults /\ MoreTrouble /\ faults' = faults + 1

CommandFails(p) == Fault /\ Return(p)

-----------------------------------------------------------------------------
\* nvm_create_config_goal, nvm_get_config_goal, nvm_delete_config_goal: each
\* begins with get_dimm_platform_config, which takes the cached PCD if
\* there is one and else reads the flash.

Requests == [op : {"create"}, goal : Goals] \cup [op : {"get", "delete"}, goal : {None}]

Call(p, r) ==
  /\ pc[p] = "idle"
  /\ call' = [call EXCEPT ![p] = r]
  /\ IF cache[p] # None
     THEN Goto(p, "act") /\ UNCHANGED view
     ELSE /\ Goto(p, "size")
          /\ view' = [view EXCEPT ![p] = IF mixed # "no" \/ OthersWriting(p) THEN "blurred" ELSE "clear"]
  /\ UNCHANGED <<large, flash, cache, readVars, bios, last, awaiting, mixed, boots, faults>>

\* get_pcd_table_size: the header tells how much there is to read.
ReadSize(p) ==
  /\ pc[p] = "size"
  /\ \/ /\ need' = [need EXCEPT ![p] = Total(flash[1])]
        /\ Goto(p, "read")
        /\ UNCHANGED <<call, buf, pos, faults>>
     \/ CommandFails(p)
  /\ UNCHANGED <<large, flash, cache, history, boots>>

\* What the next command of a read brings: all, or two chunks of 64 bytes.
Fetched(p) ==
  LET upto == IF large \/ Len(buf[p]) + 2 > need[p] THEN need[p] ELSE Len(buf[p]) + 2
  IN  SubSeq(flash, Len(buf[p]) + 1, upto)

\* get_hw_dimm_platform_config_alloc: the last chunk is followed by the
\* check; what passes it is cached by get_dimm_platform_config.
ReadChunk(p) ==
  /\ pc[p] = "read"
  /\ \/ LET c == buf[p] \o Fetched(p) IN
          /\ \/ /\ Len(c) < need[p]
                /\ buf' = [buf EXCEPT ![p] = c]
                /\ UNCHANGED <<cache, pc, call, need, pos>>
             \/ /\ Len(c) = need[p] /\ Accepted(c)
                /\ cache' = [cache EXCEPT ![p] = Decoded(c)]
                /\ buf' = [buf EXCEPT ![p] = <<>>] /\ need' = [need EXCEPT ![p] = 0]
                /\ Goto(p, "act")
                /\ UNCHANGED <<call, pos>>
             \/ Len(c) = need[p] /\ ~Accepted(c) /\ Return(p) /\ UNCHANGED cache
          /\ UNCHANGED faults
     \/ CommandFails(p) /\ UNCHANGED cache
  /\ UNCHANGED <<large, flash, history, boots>>

Updates(p) == call[p].op = "create" \/ (call[p].op = "delete" /\ cache[p].input # None)

\* A get answers with the goal and its status; a delete that finds no goal
\* ends.
Answer(p) ==
  /\ pc[p] = "act" /\ ~Updates(p)
  /\ Return(p)
  /\ UNCHANGED <<large, flash, cache, history, boots, faults>>

\* A delete that finds a goal gets the PCD again, now out of the cache, and
\* like a create builds the one to write.
Prepare(p) ==
  /\ pc[p] = "act" /\ Updates(p)
  /\ buf' = [buf EXCEPT ![p] = Layout(Updated(cache[p], call[p]))]
  /\ Goto(p, "write")
  /\ mixed' = IF OthersWriting(p) \/ view[p] = "blurred" THEN "cut" ELSE "no"
  /\ view' = Disturbed(p)
  /\ UNCHANGED <<large, flash, cache, call, need, pos, bios, last, awaiting, boots, faults>>

\* set_dimm_platform_config: one command for all, or one for a chunk.
WriteChunk(p) ==
  /\ pc[p] = "write"
  /\ LET to == IF large THEN Len(buf[p]) ELSE pos[p] + 1 IN
       /\ flash' = Overwritten(buf[p], pos[p] + 1, to)
       /\ \/ /\ to < Len(buf[p])
             /\ pos' = [pos EXCEPT ![p] = to]
             /\ UNCHANGED <<pc, last, awaiting>>
          \/ /\ to = Len(buf[p])
             /\ pos' = [pos EXCEPT ![p] = 0]
             /\ Goto(p, "done")
             /\ last' = call[p].goal /\ awaiting' = TRUE
  /\ view' = Disturbed(p)
  /\ UNCHANGED <<large, cache, call, need, buf, bios, mixed, boots, faults>>

\* Mutant of WriteFails: the cached PCD is dropped here as well.
WriteFailsForgets(p) ==
  /\ pc[p] = "write" /\ CommandFails(p)
  /\ cache' = [cache EXCEPT ![p] = None]
  /\ mixed' = IF mixed = "no" THEN "failed" ELSE "cut"
  /\ view' = [view EXCEPT ![p] = IF @ = "clear" THEN "stale" ELSE @]
  /\ UNCHANGED <<large, flash, bios, last, awaiting, boots>>

\* The first command that fails ends the call; what was written stays, and
\* so does the cached PCD.
WriteFails(p) ==
  /\ pc[p] = "write" /\ CommandFails(p)
  /\ mixed' = IF mixed = "no" THEN "failed" ELSE "cut"
  /\ view' = [view EXCEPT ![p] = IF @ = "clear" THEN "stale" ELSE @]
  /\ UNCHANGED <<large, flash, cache, bios, last, awaiting, boots>>

\* Mutant of WriteDone: the cached PCD outlives the write.
WriteDoneKeepsCache(p) ==
  /\ pc[p] = "done"
  /\ Return(p)
  /\ UNCHANGED <<large, flash, cache, history, boots, faults>>

\* invalidate_device_pcd, after a write that succeeded.
WriteDone(p) ==
  /\ pc[p] = "done"
  /\ cache' = [cache EXCEPT ![p] = None]
  /\ Return(p)
  /\ UNCHANGED <<large, flash, history, boots, faults>>

-----------------------------------------------------------------------------
\* A process dies and is started again: its context is gone.
Crash(p) ==
  /\ Fault
  /\ pc[p] # "idle"
  /\ cache' = [cache EXCEPT ![p] = None]
  /\ Return(p)
  /\ mixed' = IF pc[p] = "write" \/ mixed = "failed" THEN "cut" ELSE mixed
  /\ UNCHANGED <<large, flash, bios, last, awaiting, view, boots>>

\* What BIOS makes of an input: current config changes if it applied it.
Processed(d, ok) ==
  PCD(IF ok THEN Table("current", 0, d.input.body, 1) ELSE d.current, d.input,
      Table("output", d.input.seq, [goal |-> d.input.body, ok |-> ok], 1))

\* The machine restarts.  BIOS reads the PCD; an input whose number is not
\* the one of its last output is applied, or refused, and answered.  BIOS
\* leaves a PCD it cannot read as it is.
Boot ==
  /\ boots < MaxBoots /\ MoreTrouble /\ boots' = boots + 1
  /\ cache' = [p \in Procs |-> None]
  /\ pc' = [p \in Procs |-> "idle"] /\ call' = [p \in Procs |-> None]
  /\ need' = [p \in Procs |-> 0] /\ buf' = [p \in Procs |-> <<>>] /\ pos' = [p \in Procs |-> 0]
  /\ view' = [p \in Procs |-> "clear"]
  /\ mixed' = IF ~Quiet \/ mixed = "failed" THEN "cut" ELSE mixed
  /\ awaiting' = FALSE
  /\ LET d     == Decoded(Stored)
         fresh == Readable /\ d.input # None /\ LastSeq(d) # d.input.seq
     IN  \/ /\ fresh
            /\ \E ok \in BOOLEAN :
                 LET new == Processed(d, ok) IN
                 /\ flash' = Overwritten(Layout(new), 1, Len(Layout(new)))
                 /\ bios' = [current |-> new.current, output |-> new.output]
         \/ ~fresh /\ UNCHANGED <<flash, bios>>
  /\ UNCHANGED <<large, last, faults>>

Next ==
  \/ \E p \in Procs :
       \/ \E r \in Requests : Call(p, r)
       \/ ReadSize(p) \/ ReadChunk(p) \/ Answer(p) \/ Prepare(p) \/ WriteChunk(p)
       \/ WriteFails(p) \/ WriteDone(p) \/ Crash(p)
  \/ Boot

Spec == Init /\ [][Next]_vars

-----------------------------------------------------------------------------
IsTable(t, kind) == t.kind = kind /\ t.seq \in 0..(MaxBoots + 1) /\ t.length \in Nat \ {0}
IsPCD(d) == /\ IsTable(d.current, "current") /\ d.current.body \in Goals \cup {None}
            /\ d.input # None => IsTable(d.input, "input") /\ d.input.body \in Goals
            /\ d.output # None => IsTable(d.output, "output") /\ d.output.body.goal \in Goals

\* The type invariant: what passes the checks decodes to tables of the right
\* kinds, and a process works on a PCD when its step needs one.
TypeOK ==
  /\ Len(flash) = PartSize /\ Total(flash[1]) <= PartSize
  /\ Readable => IsPCD(Decoded(Stored))
  /\ \A p \in Procs :
       /\ cache[p] # None => IsPCD(cache[p])
       /\ (pc[p] = "idle") = (call[p] = None)
       /\ pc[p] = "act" => cache[p] # None
       /\ pc[p] = "read" => Len(buf[p]) <= need[p] /\ need[p] <= PartSize
       /\ pc[p] = "write" => pos[p] < Len(buf[p])

\* "We won't be changing these, but we need to avoid clobbering them": the
\* PCD holds the tables that BIOS left, unless writes overlapped, one was
\* cut short or one was built from a read that such a write blurred.
BiosTablesKept ==
  mixed = "no" /\ Quiet => /\ Readable
                           /\ Decoded(Stored).current = bios.current
                           /\ Decoded(Stored).output = bios.output

\* The status of a goal is about that goal: whoever reads that BIOS applied
\* or refused it reads BIOS's answer to this goal and to no earlier one,
\* under the same condition.
Undisturbed == {cache[p] : p \in {q \in Procs : cache[q] # None /\ view[q] # "blurred"}}
                 \cup (IF mixed = "no" /\ Quiet THEN {Decoded(Stored)} ELSE {})
StatusHonest ==
  \A d \in Undisturbed : d.input # None =>
    (GoalStatus(d) # "new" => d.output.body.goal = d.input.body)

\* Under that condition the last write to end stands: its
\* goal is stored, is new to BIOS until a boot and answered after it; after
\* a delete no goal is left.
LastWriteStands ==
  mixed = "no" /\ Quiet =>
    LET d == Decoded(Stored) IN
    IF last = None THEN d.input = None
    ELSE d.input # None /\ d.input.body = last /\ (awaiting <=> GoalStatus(d) = "new")

\* A process does not go on with a copy that its own write made stale.
CacheCoherent ==
  \A p \in Procs : cache[p] # None /\ view[p] = "clear" /\ pc[p] \notin {"write", "done"} =>
    Readable /\ cache[p] = Decoded(Stored)

\* A write that fails can be tried again: a torn flash can be read by nobody,
\* so the process must still hold the PCD it started from.
WriterCanRetry ==
  mixed = "failed" /\ Quiet => \E p \in Procs : cache[p] # None /\ view[p] # "blurred"

\* "must be one the BIOS hasn't seen before", of the sequence number of a
\* new input.
NumberUnseen ==
  \A p \in Procs : pc[p] = "write" /\ call[p].op = "create" /\ bios.output # None =>
    Updated(cache[p], call[p]).input.seq > bios.output.seq

\* What is on the flash is what BIOS and the last writer left, and a torn
\* flash can be repaired.
TablesStand == BiosTablesKept /\ LastWriteStands /\ WriterCanRetry
=============================================================================
