------------------------------ MODULE MCSpeech ------------------------------
(* Chapters for two backends: texts of several sentences, a sentence and a *)
(* word over the budget, unusable voices of every kind.                    *)
EXTENDS Speech, TLC

ava    == [backend |-> "azure",  model |-> NoModel, sound |-> TRUE]
broken == [backend |-> "azure",  model |-> NoModel, sound |-> FALSE]
cori   == [backend |-> "sherpa", model |-> "cori",  sound |-> TRUE]
puck   == [backend |-> "sherpa", model |-> "kokoro", sound |-> TRUE]
nobody == [backend |-> "sherpa", model |-> "cori",  sound |-> FALSE]
lost   == [backend |-> "gone",   model |-> NoModel, sound |-> TRUE]

Word(id, len, ends) == [id |-> id, len |-> len, ends |-> ends]
Short(id) == <<Word(id, 2, TRUE)>>

(* Two sentences that fit one by one; a sentence that must be cut; a word  *)
(* that cannot be.                                                         *)
two  == <<Word(1, 2, FALSE), Word(2, 2, TRUE), Word(3, 4, TRUE)>>
long == <<Word(4, 3, FALSE), Word(5, 3, FALSE), Word(6, 2, TRUE), Word(7, 2, FALSE)>>
huge == <<Word(8, 9, TRUE), Word(9, 1, FALSE)>>

Turn(v, t) == [voice |-> v, text |-> t]

piper   == {"dir", "onnx", "tokens.txt", "espeak-ng-data"}
kokoro  == piper \cup {"voices.bin", "dict", "us", "gb"}

(* Absent, half installed and complete; without the first lexicon, with    *)
(* the second, kokoro counts as half installed and loads all the same.     *)
MCInstallations ==
  [m \in {"cori", "kokoro"} |->
     IF m = "cori" THEN {{}, piper \ {"tokens.txt"}, piper}
     ELSE {{}, kokoro \ {"dict"}, kokoro \ {"us"}, kokoro}]

MCChapters ==
  { <<Turn(ava, two), Turn(cori, Short(10)), Turn(ava, Short(11))>>,
    <<Turn(cori, long), Turn(ava, Short(10)), Turn(puck, Short(11))>>,
    <<Turn(ava, two), Turn(ava, Short(10)), Turn(ava, Short(11))>>,
    <<Turn(ava, huge), Turn(broken, Short(10))>>,
    <<Turn(ava, Short(10)), Turn(nobody, Short(11))>>,
    <<Turn(ava, Short(10)), Turn(lost, Short(11))>> }
=============================================================================
