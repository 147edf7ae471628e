-------------------------------- MODULE Alarms --------------------------------
(***************************************************************************)
(* What the event log promises of action-required events: an alarm stays   *)
(* on the board until somebody who is acknowledging or purging asks for    *)
(* events like it.                                                         *)
(***************************************************************************)
EXTENDS Integers

CONSTANTS Callers, Codes, NoCode

VARIABLES
  board,   \* the alarms: [id, code]
  last,    \* the id of the last event
  asking   \* the code a caller acknowledges or purges, or NoCode

avars == <<board, last, asking>>

Init == board = {} /\ last = 0 /\ asking = [c \in Callers |-> NoCode]

Raise(code) ==
  /\ last' = last + 1
  /\ board' = board \cup {[id |-> last + 1, code |-> code]}
  /\ UNCHANGED asking

LogOther == last' = last + 1 /\ UNCHANGED <<board, asking>>

Ask(c, code) ==
  /\ asking[c] = NoCode
  /\ asking' = [asking EXCEPT ![c] = code]
  /\ UNCHANGED <<board, last>>

Drop(c, a) ==
  /\ a \in board /\ a.code = asking[c]
  /\ board' = board \ {a}
  /\ UNCHANGED <<last, asking>>

Leave(c) ==
  /\ asking[c] # NoCode
  /\ asking' = [asking EXCEPT ![c] = NoCode]
  /\ UNCHANGED <<board, last>>

Next ==
  \/ \E code \in Codes : Raise(code)
  \/ LogOther
  \/ \E c \in Callers :
       \/ \E code \in Codes : Ask(c, code)
       \/ \E a \in board : Drop(c, a)
       \/ Leave(c)

Spec == Init /\ [][Next]_avars
=============================================================================
