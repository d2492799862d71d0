------------------------------- MODULE Serial -------------------------------
(***************************************************************************)
(* What the chapter loop promises, without its machinery: a serial that    *)
(* grows by one chapter at a time and never rewrites one, audio that comes *)
(* and goes per chapter, and notes that are stamped, once and for ever,    *)
(* with the chapter at whose boundary they were consumed.  Module          *)
(* ChapterCycle implements it.                                             *)
(***************************************************************************)
EXTENDS Naturals

CONSTANTS
  Limit,     \* bound: chapters of a behaviour
  Messages   \* director notes

VARIABLES
  length,    \* chapters published
  voiced,    \* chapters with audio
  received,  \* notes posted
  stamp,     \* the chapter that consumed a note, 0 for none
  boundary   \* the chapter being completed, 0 between chapters

serialVars == <<length, voiced, received, stamp, boundary>>

SerialInit ==
  /\ length = 0 /\ voiced = {} /\ received = {}
  /\ stamp = [n \in Messages |-> 0]
  /\ boundary = 0

(* The prose of the next chapter becomes readable.                         *)
Publish ==
  /\ boundary = 0 /\ length < Limit
  /\ length' = length + 1 /\ boundary' = length + 1
  /\ UNCHANGED <<voiced, received, stamp>>

Voice ==
  /\ \E c \in (1..length) \ voiced : voiced' = voiced \cup {c}
  /\ UNCHANGED <<length, received, stamp, boundary>>

Requeue ==
  /\ \E c \in voiced : voiced' = voiced \ {c}
  /\ UNCHANGED <<length, received, stamp, boundary>>

Receive ==
  /\ \E n \in Messages \ received : received' = received \cup {n}
  /\ UNCHANGED <<length, voiced, stamp, boundary>>

(* The chapter boundary: every note still waiting is stamped with it.      *)
Consume ==
  /\ boundary # 0
  /\ stamp' = [n \in Messages |->
                 IF n \in received /\ stamp[n] = 0 THEN boundary ELSE stamp[n]]
  /\ boundary' = 0
  /\ UNCHANGED <<length, voiced, received>>

(* The chapter is readable but its boundary was never reached.             *)
Lapse ==
  /\ boundary # 0 /\ boundary' = 0
  /\ UNCHANGED <<length, voiced, received, stamp>>

SerialNext == Publish \/ Voice \/ Requeue \/ Receive \/ Consume \/ Lapse

SerialSpec == SerialInit /\ [][SerialNext]_serialVars
=============================================================================
