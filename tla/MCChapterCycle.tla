--------------------------- MODULE MCChapterCycle ---------------------------
(* Instances of ChapterCycle for TLC: a protagonist, one other character   *)
(* who is only introduced by lore, and chapters whose extraction names     *)
(* both, gets a delta refused, discarded or applied, or is empty.          *)
EXTENDS ChapterCycle

CONSTANTS Kaelen, Mira

MCSubjects == {Kaelen, Mira}
MCCasts    == {{Kaelen}}

Change(s, g) == [subject |-> s, gate |-> g]

(* Mira appears with the chapter and is hit at once; a delta is discarded. *)
Introduction ==
  [lore |-> {Mira}, deltas |-> <<Change(Mira, "accept"), Change(Kaelen, "discard")>>]

(* Mira is hit; whether she is known depends on the chapters before.       *)
Encounter == [lore |-> {}, deltas |-> <<Change(Mira, "accept")>>]

MCExtractions == {Introduction, Encounter}
FewExtractions == {Introduction}
Encounters == {Encounter}
MCTargets     == {1, 2}
None          == {}
First         == {1}
=============================================================================
