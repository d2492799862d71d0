-------------------------------- MODULE Prose --------------------------------
(***************************************************************************)
(* The prose of a chapter, as the model writes it: lines that may open     *)
(* with a speaker's tag, read into turns of one speaker each, and written  *)
(* out as the chapter's markdown, from which a chapter whose segments were *)
(* never stored is read again.                                             *)
(*                                                                         *)
(* Abstracted: the words of a line are the number of that line, so that a  *)
(* lost, repeated or misplaced line is visible, and a colon the text opens *)
(* with is a word of its own; of a tag's letters the lengths and distances *)
(* is_typo_of computes.                                                    *)
(***************************************************************************)
EXTENDS Names, SequencesExt

CONSTANTS
  Tags, NoTag,   \* what stands between brackets, whitespace collapsed
  NameOf,        \* a tag less the one colon it may end in
  RoleWords, RoleOf,   \* the spellings of the two roles
  Spells,        \* tag |-> the role words it equals but for case
  WordCount, LengthOf, SharedStart, Edits,   \* of a tag; the last two to a role word
  Narrator, SystemVoice   \* the one stored spelling of each role

ASSUME TagsAssumption ==
  /\ NoTag \notin Tags /\ Spellings \subseteq Tags /\ NameOf \in [Tags -> Tags]
  /\ {Narrator, SystemVoice} \subseteq Spellings
  /\ RoleOf \in [RoleWords -> {"narrator", "system"}]
  /\ Spells \in [Tags -> SUBSET RoleWords]
  /\ LengthOf \in [Tags \cup RoleWords -> Nat] /\ WordCount \in [Tags -> Nat]
  /\ SharedStart \in [Tags -> [RoleWords -> Nat]] /\ Edits \in [Tags -> [RoleWords -> Nat]]

MaxEdits == 2   \* ROLE_TYPO_DISTANCE
MinShared == 2  \* ROLE_TYPO_PREFIX
MinLength == 4  \* ROLE_TYPO_MIN_LEN

IsTypoOf(t, w) ==
  /\ LengthOf[t] >= MinLength
  /\ LengthOf[t] <= LengthOf[w] + MaxEdits /\ LengthOf[w] <= LengthOf[t] + MaxEdits
  /\ SharedStart[t][w] >= MinShared
  /\ Edits[t][w] <= MaxEdits

(* The roles a tag may stand for: exactly, or else misspelt in one word.   *)
Meant(t) ==
  IF Spells[t] # {} THEN {RoleOf[w] : w \in Spells[t]}
  ELSE {RoleOf[w] : w \in {v \in RoleWords : WordCount[t] = 1 /\ IsTypoOf(t, v)}}

ClassifySpeaker(t) ==
  LET roles == Meant(t) IN
  IF "system" \in roles THEN "system"
  ELSE IF "narrator" \in roles THEN "narrator"
  ELSE "character"

CanonicalSpeaker(t) ==
  LET kind == ClassifySpeaker(t) IN
  CASE kind = "system"    -> SystemVoice
    [] kind = "narrator"  -> Narrator
    [] kind = "character" -> t

(* What is no role is a name, and a role's one spelling is that role's.    *)
ASSUME SpeakersAssumption ==
  /\ ClassifySpeaker(Narrator) = "narrator" /\ ClassifySpeaker(SystemVoice) = "system"
  /\ \A t \in Tags : ClassifySpeaker(NameOf[t]) = "character" => NameOf[t] \in Spellings

-----------------------------------------------------------------------------
(* A line: a tag or none, whether its brackets are sound, and its text.    *)
(* The brackets of an unsound tag belong to the text.                      *)

Blank(l)    == l.tag = NoTag /\ l.text = <<>>
SplitTag(l) == l.tag # NoTag /\ l.sound

(* [Kaelen:] and [Kaelen]: are [Kaelen].                                   *)
Colon == 0
TagSpeaker(l) == CanonicalSpeaker(NameOf[l.tag])
LineText(l) ==
  IF SplitTag(l) /\ l.text # <<>> /\ Head(l.text) = Colon THEN Tail(l.text) ELSE l.text

(* Text joins the last turn when the speaker is the same.                  *)
PushText(turns, s, text) ==
  IF turns # <<>> /\ SameSpeaker(Last(turns).speaker, s)
  THEN [turns EXCEPT ![Len(turns)].text = @ \o text]
  ELSE Append(turns, [speaker |-> s, kind |-> ClassifySpeaker(s), text |-> text])

(* Mutant: a blank line does not end the block.                            *)
ReadLine_BlankContinues(st, l) ==
  IF Blank(l) THEN st
  ELSE IF SplitTag(l)
       THEN LET s == TagSpeaker(l) IN
            [current |-> s,
             turns   |-> IF LineText(l) = <<>> THEN st.turns
                         ELSE PushText(st.turns, s, LineText(l))]
       ELSE [st EXCEPT !.turns = PushText(@, st.current, l.text)]

(* One line: a blank one ends the block, a tag changes the speaker, with   *)
(* or without text, and everything else is story text.                     *)
ReadLine(st, l) ==
  IF Blank(l) THEN [st EXCEPT !.current = Narrator]
  ELSE IF SplitTag(l)
       THEN LET s == TagSpeaker(l) IN
            [current |-> s,
             turns   |-> IF LineText(l) = <<>> THEN st.turns
                         ELSE PushText(st.turns, s, LineText(l))]
       ELSE [st EXCEPT !.turns = PushText(@, st.current, l.text)]

ParseTaggedProse(lines) ==
  LET read[n \in 0..Len(lines)] ==
        IF n = 0 THEN [turns |-> <<>>, current |-> Narrator]
        ELSE ReadLine(read[n - 1], lines[n])
  IN read[Len(lines)].turns

(* The chapter's markdown below its title: each turn under its tag, then a *)
(* blank line.  A stored name is the tag; what it loses of its colons when *)
(* it is read again, it loses.                                             *)
ChapterMarkdown(turns) ==
  FlattenSeq([i \in DOMAIN turns |->
    << [tag |-> turns[i].speaker, sound |-> TRUE, text |-> turns[i].text],
       [tag |-> NoTag, sound |-> TRUE, text |-> <<>>] >>])

-----------------------------------------------------------------------------
(* What a reader would say of the same lines, without reading them in      *)
(* turn: a line is spoken by the last tag above it in its block.           *)

TagsAbove(lines, i) ==
  {j \in 1..i : SplitTag(lines[j]) /\ \A k \in j..i : ~Blank(lines[k])}

SpokenBy(lines, i) ==
  IF TagsAbove(lines, i) = {} THEN Narrator
  ELSE TagSpeaker(lines[CHOOSE j \in TagsAbove(lines, i) :
                          \A k \in TagsAbove(lines, i) : k <= j])

(* No turn begins, and no speaker's name ends, with a colon.               *)
WithoutColons(turns) ==
  \A i \in DOMAIN turns : /\ turns[i].text[1] # Colon
                          /\ NameOf[turns[i].speaker] = turns[i].speaker

(* Every line's text once, in order, at the speaker that said it, and no   *)
(* two turns of one speaker side by side.                                  *)
FaithfulTurns(lines, turns) ==
  /\ FlattenSeq([i \in DOMAIN turns |->
        [w \in DOMAIN turns[i].text |-> <<WordsOf[turns[i].speaker], turns[i].text[w]>>]])
     = FlattenSeq([i \in DOMAIN lines |->
        [w \in DOMAIN LineText(lines[i]) |-> <<WordsOf[SpokenBy(lines, i)], LineText(lines[i])[w]>>]])
  /\ \A i \in DOMAIN turns : i + 1 \in DOMAIN turns =>
        ~SameSpeaker(turns[i].speaker, turns[i + 1].speaker)
=============================================================================
