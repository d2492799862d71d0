------------------------------ MODULE MCCasting ------------------------------
(* Two characters; three voices for them at one backend and only one at    *)
(* the other, where the second character drawn has to share it.            *)
EXTENDS Casting

MCVoices     == {"s0", "s1", "s2", "sN", "sS", "aN", "aS", "a1"}
MCBackends   == {"sherpa", "azure"}
MCBackendOf  == [v \in MCVoices |-> IF v \in {"s0", "s1", "s2", "sN", "sS"} THEN "sherpa" ELSE "azure"]
MCGenders    == <<"female", "male">>
MCGenderOf   == [v \in MCVoices |-> IF v \in {"s0", "sN", "aN", "a1"} THEN "female" ELSE "male"]
MCAdvertised == <<"aN", "aS", "a1", "s0", "s1", "s2", "sN", "sS">>
MCPool       == <<"s0", "s1", "s2">>
MCSex        == [c \in Characters |-> IF c = "Kaelen" THEN "male" ELSE "female"]
MCScripts    == {<<"narrator", "Kaelen", "Mira", "Kaelen">>, <<"Mira", "SYSTEM">>}
MCCastOrders == [speaker : {"Mira"}, voice : {"s1", "a1"}] \cup
                 [speaker : {"narrator"}, voice : {"aN"}]
=============================================================================
