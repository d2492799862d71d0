---------------------------- MODULE MCPublication ----------------------------
(* Instances of Publication for TLC: two voices, in one of which the       *)
(* chapter is longer; clients ask for all of it or for its second half.    *)
EXTENDS Publication

CONSTANTS Cori, Bella

MCVoices == {Cori, Bella}
MCLength == [v \in MCVoices |-> IF v = Cori THEN 2 ELSE 4]
MCStarts == {0, 2}
=============================================================================
