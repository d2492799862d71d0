------------------------------ MODULE MCMainLoop ------------------------------
(* Instances of MainLoop for TLC.  A tick is half a minute: 60 s for pass  *)
(* 1, 30 s for pass 2, 150 s for a render, 300 s before SIGKILL, 900 s     *)
(* before a heartbeat is stale; the 45 s between turns are one tick.       *)
EXTENDS MainLoop

MCLongest == [resume |-> 5, write |-> 2, extract |-> 1, render |-> 5]

Looping  == [once |-> FALSE, limit |-> NoLimit]
Counting == [once |-> FALSE, limit |-> 1]
Once     == [once |-> TRUE, limit |-> NoLimit]

MCInvocations == {Looping, Counting, Once}
UnitOnly      == {Looping}
=============================================================================
