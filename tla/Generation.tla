------------------------------ MODULE Generation ------------------------------
(***************************************************************************)
(* How a chapter is made with Ember: pass 1 asks for prose at rising       *)
(* temperatures, the prose is parsed and its speakers join the cast, pass  *)
(* 2 asks for bookkeeping, and every name in the bookkeeping is resolved   *)
(* before it becomes a key of lore or ledger.                              *)
(*                                                                         *)
(* The store is the memory of the story, and a cycle reads it four times:  *)
(* for the names offered to pass 2, for the names lore is resolved         *)
(* against, and again for each delta.                                      *)
(*                                                                         *)
(* Abstracted: voices are in module Casting, the other judgements of the   *)
(* gate and the aliases in Ledger, notes and restarts in ChapterCycle, the *)
(* wording of both prompts; a chapter's words are the numbers of its       *)
(* lines (module Prose).                                                   *)
(***************************************************************************)
EXTENDS Prose

CONSTANTS
  Drafts,        \* the lines of prose Ember may write
  Extractions,   \* and what it may report of them
  MaxChapters    \* bound: chapters of a behaviour

Nothing == [title |-> "", summary |-> "", lore |-> <<>>, deltas |-> <<>>]

ASSUME DraftsAssumption ==
  /\ Drafts \subseteq Seq([tag : Tags \cup {NoTag}, sound : BOOLEAN, text : Seq(Nat)])
  /\ \A lines \in Drafts : \A i \in DOMAIN lines :
       lines[i].tag # NoTag /\ ~lines[i].sound => lines[i].text # <<>>
ASSUME ExtractionsAssumption ==
  Extractions \subseteq [title : {"", "stub", "own"}, summary : {"", "told"},
                         lore : Seq([name : Spellings, person : BOOLEAN]),
                         deltas : Seq([subject : Spellings, form : {"fact", "hollow", "badOp"}])]
ASSUME BoundsAssumption == MaxChapters \in Nat

(* What each pass plans to ask at, in hundredths; its length is the number *)
(* of attempts.                                                            *)
Pass1Temperatures == <<90, 95, 100>>
Pass2Temperatures == <<0, 15, 30>>

VARIABLES
  (* the store *)
  cast,      \* rows [speaker, kind]
  lore,      \* name |-> whether the entry is of a character
  ledger,    \* subjects of applied rows
  chapters,  \* [whole, dirty, titled, summed]
  (* the cycle *)
  pc, attempt,
  prose, turns,   \* the draft kept, and its parse
  whole,          \* it was not cut off
  offered,        \* the names pass 2 was told to use
  before,         \* known_subjects before the lore
  extraction,
  applied,        \* the subjects of this chapter's rows
  ghosts,         \* proposed subjects refused as unknown
  (* history *)
  cut             \* chapters whose cycle ended between their insertion and their summary

storeVars == <<cast, lore, ledger, chapters>>
draftVars == <<prose, turns, whole, offered>>
keepVars  == <<before, extraction, applied, ghosts>>
vars == <<storeVars, pc, attempt, draftVars, keepVars, cut>>

-----------------------------------------------------------------------------
(* The store's and the prompt's views of who is who.                       *)

Roles == {"narrator", "system"}

KnownWith(rows) ==
  (({Protagonist} \ {Nobody})
     \cup {r.speaker : r \in {c \in rows : c.kind \notin Roles}}
     \cup ledger
     \cup {n \in DOMAIN lore : lore[n]})
  \ {r.speaker : r \in {c \in rows : c.kind \in Roles}}

(* Mutant: a character who has only spoken is not known.                   *)
KnownSubjects_NotByVoice == KnownWith({})

KnownSubjects == KnownWith(cast)

Reserved(n) == SameSpeaker(n, Narrator) \/ SameSpeaker(n, SystemVoice)

SubjectIsARole(n) == \E r \in cast : SameSpeaker(r.speaker, n) /\ r.kind \in Roles

(* The first turn of each speaker that has no row, by any spelling.        *)
NewRows(ts) ==
  {[speaker |-> ts[i].speaker, kind |-> ts[i].kind] :
     i \in {j \in DOMAIN ts :
       /\ ~\E r \in cast : SameSpeaker(r.speaker, ts[j].speaker)
       /\ \A k \in 1..(j - 1) : ~SameSpeaker(ts[k].speaker, ts[j].speaker)}}

-----------------------------------------------------------------------------
(* Ember's answers and the client's errors.                                *)

Failures == {"Transport", "Unwell", "Refused", "Protocol", "EmptyContent"}

IsTransport(err) == err \in {"Transport", "Unwell"}
IsRetryable(err) == err \notin {"Refused", "Config"}

(* What a call ends in: an error, or content, which may have been cut off: *)
(* prose at max_tokens, JSON before its object closed.                     *)
Answers(contents) ==
  [error : Failures, content : {<<>>}, cut : {FALSE}] \cup
  [error : {"None"}, content : contents, cut : BOOLEAN]

(* Mutant: a chapter that hit max_tokens is taken.                         *)
Pass1Error_TakesCut(a) ==
  IF a.error = "None" /\ (\A i \in DOMAIN a.content : Blank(a.content[i]))
  THEN "EmptyContent" ELSE a.error

(* Prose that stops mid-sentence is malformed, and blank lines are no      *)
(* prose: the cycle tries again after either.                              *)
Pass1Error(a) ==
  IF a.error # "None" THEN a.error
  ELSE IF a.cut THEN "Malformed"
  ELSE IF \A i \in DOMAIN a.content : Blank(a.content[i]) THEN "EmptyContent"
  ELSE "None"

(* A JSON object that never closed, or without summary or title.           *)
Pass2Error(a) ==
  IF a.error # "None" THEN a.error
  ELSE IF a.cut \/ a.content.summary = "" \/ a.content.title = "" THEN "Malformed"
  ELSE "None"

Attempts == IF pc = "pass1" THEN Len(Pass1Temperatures) ELSE Len(Pass2Temperatures)

(* Mutant: one attempt too many.                                           *)
GivesUp_OneMore(err) == IsTransport(err) \/ ~IsRetryable(err) \/ attempt = Attempts + 1

(* A failed attempt is the last one.                                       *)
GivesUp(err) == IsTransport(err) \/ ~IsRetryable(err) \/ attempt = Attempts

-----------------------------------------------------------------------------
Parsed == [lines \in Drafts |-> ParseTaggedProse(lines)]

Init ==
  /\ cast = {} /\ lore = <<>> /\ ledger = {} /\ chapters = <<>>
  /\ pc = "idle" /\ attempt = 0
  /\ prose = <<>> /\ turns = <<>> /\ whole = TRUE /\ offered = {}
  /\ before = {} /\ extraction = Nothing /\ applied = {} /\ ghosts = {}
  /\ cut = {}

NoDraft == prose' = <<>> /\ turns' = <<>> /\ whole' = TRUE /\ offered' = {}

Begin ==
  /\ pc = "idle" /\ Len(chapters) < MaxChapters
  /\ pc' = "pass1" /\ attempt' = 1
  /\ UNCHANGED <<storeVars, draftVars, keepVars, cut>>

Pass1Fails(a) ==
  /\ pc = "pass1" /\ Pass1Error(a) # "None"
  /\ IF GivesUp(Pass1Error(a)) THEN pc' = "idle" /\ attempt' = 0   \* Abandoned
     ELSE pc' = pc /\ attempt' = attempt + 1
  /\ UNCHANGED <<storeVars, draftVars, keepVars, cut>>

(* Prose of tags alone has no segments, and no chapter; nor a second try.  *)
Pass1Empty(a) ==
  /\ pc = "pass1" /\ Pass1Error(a) = "None" /\ Parsed[a.content] = <<>>
  /\ pc' = "idle" /\ attempt' = 0                                   \* Abandoned
  /\ UNCHANGED <<storeVars, draftVars, keepVars, cut>>

(* The draft is parsed and its new speakers are cast before pass 2 is told *)
(* whom the story knows.                                                   *)
Pass1Answers(a) ==
  /\ pc = "pass1" /\ Pass1Error(a) = "None" /\ Parsed[a.content] # <<>>
  /\ prose' = a.content /\ turns' = Parsed[a.content] /\ whole' = ~a.cut
  /\ cast' = cast \cup NewRows(turns')
  /\ offered' = {n \in KnownWith(cast') : ~Reserved(n)}
  /\ pc' = "pass2" /\ attempt' = 1
  /\ UNCHANGED <<lore, ledger, chapters, keepVars, cut>>

(* The rows are written one by one; a store that refuses one, or does not  *)
(* say whom the story knows, ends the cycle, and so does a crash: the rows *)
(* of the first turns stay.                                                *)
CastingBreaksOff(a) ==
  /\ pc = "pass1" /\ Pass1Error(a) = "None"
  /\ \E k \in DOMAIN Parsed[a.content] :
       cast' = cast \cup NewRows(SubSeq(Parsed[a.content], 1, k))
  /\ pc' = "idle" /\ attempt' = 0
  /\ UNCHANGED <<lore, ledger, chapters, draftVars, keepVars, cut>>

(* The title is for readers: a stub gives way to the chapter's number.     *)
Chapter(e, dirty) ==
  [whole |-> whole, dirty |-> dirty, summed |-> FALSE,
   titled |-> IF e.title = "own" THEN "own" ELSE "number"]

Pass2Retries(a) ==
  /\ pc = "pass2" /\ Pass2Error(a) # "None" /\ ~GivesUp(Pass2Error(a))
  /\ attempt' = attempt + 1
  /\ UNCHANGED <<storeVars, pc, draftVars, keepVars, cut>>

(* The chapter ships without its bookkeeping.                              *)
Pass2Fails(a) ==
  /\ pc = "pass2" /\ Pass2Error(a) # "None" /\ GivesUp(Pass2Error(a))
  /\ chapters' = Append(chapters, Chapter(Nothing, TRUE))
  /\ pc' = "idle" /\ attempt' = 0 /\ NoDraft
  /\ UNCHANGED <<cast, lore, ledger, keepVars, cut>>

Pass2Answers(a) ==
  /\ pc = "pass2" /\ Pass2Error(a) = "None"
  /\ chapters' = Append(chapters, Chapter(a.content, FALSE))
  /\ extraction' = a.content /\ before' = KnownSubjects
  /\ pc' = "lore" /\ attempt' = 0
  /\ prose' = <<>> /\ turns' = <<>> /\ whole' = TRUE
  /\ UNCHANGED <<cast, lore, ledger, offered, applied, ghosts, cut>>

(* Only a character's name is an identity.                                 *)
LoreName(l) == IF l.person THEN Resolve(l.name, before) ELSE l.name

UpsertLore ==
  /\ pc = "lore" /\ extraction.lore # <<>>
  /\ LET l == Head(extraction.lore) IN
       lore' = [n \in DOMAIN lore \cup {LoreName(l)} |->
                  IF n = LoreName(l) THEN l.person ELSE lore[n]]
  /\ extraction' = [extraction EXCEPT !.lore = Tail(@)]
  /\ UNCHANGED <<cast, ledger, chapters, pc, attempt, draftVars, before, applied, ghosts, cut>>

LoreDone ==
  /\ pc = "lore" /\ extraction.lore = <<>>
  /\ pc' = "deltas"
  /\ UNCHANGED <<storeVars, attempt, draftVars, keepVars, cut>>

Subject(d) == Resolve(d.subject, KnownSubjects)

(* An illegal op, a placeholder or a role's subject never meets the gate.  *)
Dropped(d) == d.form # "fact" \/ SubjectIsARole(Subject(d))

NextDelta ==
  /\ pc = "deltas" /\ extraction.deltas # <<>>
  /\ extraction' = [extraction EXCEPT !.deltas = Tail(@)]
  /\ UNCHANGED <<cast, lore, chapters, pc, attempt, draftVars, before, cut>>

DropDelta ==
  /\ NextDelta /\ Dropped(Head(extraction.deltas))
  /\ UNCHANGED <<ledger, applied, ghosts>>

AppendDelta ==
  LET d == Head(extraction.deltas) IN
  /\ NextDelta /\ ~Dropped(d) /\ Subject(d) \in KnownSubjects
  /\ ledger' = ledger \cup {Subject(d)} /\ applied' = applied \cup {Subject(d)}
  /\ UNCHANGED ghosts

RefuseGhost ==
  LET d == Head(extraction.deltas) IN
  /\ NextDelta /\ ~Dropped(d) /\ Subject(d) \notin KnownSubjects
  /\ ghosts' = ghosts \cup {d.subject}
  /\ UNCHANGED <<ledger, applied>>

(* The summary is put last; the render and the notes follow.               *)
PutSummary ==
  /\ pc = "deltas" /\ extraction.deltas = <<>>
  /\ chapters' = [chapters EXCEPT ![Len(chapters)].summed = extraction.summary # ""]
  /\ pc' = "idle" /\ extraction' = Nothing /\ before' = {} /\ applied' = {} /\ ghosts' = {}
  /\ offered' = {}
  /\ UNCHANGED <<cast, lore, ledger, attempt, prose, turns, whole, cut>>

(* A store or a library that fails ends the cycle with an error, and the   *)
(* process may be gone at any moment: what was written stays, and nobody   *)
(* comes back to a chapter that was inserted as clean.                     *)
CutShort ==
  /\ pc # "idle"
  /\ pc' = "idle" /\ attempt' = 0 /\ NoDraft
  /\ before' = {} /\ extraction' = Nothing /\ applied' = {} /\ ghosts' = {}
  /\ cut' = IF pc \in {"lore", "deltas"} THEN cut \cup {Len(chapters)} ELSE cut
  /\ UNCHANGED storeVars

Next ==
  \/ Begin
  \/ \E a \in Answers(Drafts) :
       Pass1Fails(a) \/ Pass1Empty(a) \/ Pass1Answers(a) \/ CastingBreaksOff(a)
  \/ \E a \in Answers(Extractions) : Pass2Retries(a) \/ Pass2Fails(a) \/ Pass2Answers(a)
  \/ UpsertLore \/ LoreDone
  \/ DropDelta \/ AppendDelta \/ RefuseGhost
  \/ PutSummary
  \/ CutShort

Spec == Init /\ [][Next]_vars

-----------------------------------------------------------------------------
(* Every variable stays in its range.                                      *)
TypeOK ==
  /\ cast \subseteq [speaker : Spellings, kind : Roles \cup {"character"}]
  /\ DOMAIN lore \subseteq Spellings /\ \A n \in DOMAIN lore : lore[n] \in BOOLEAN
  /\ ledger \subseteq Spellings
  /\ chapters \in Seq([whole : BOOLEAN, dirty : BOOLEAN, summed : BOOLEAN,
                       titled : {"own", "number"}])
  /\ Len(chapters) <= MaxChapters
  /\ pc \in {"idle", "pass1", "pass2", "lore", "deltas"}
  /\ attempt \in 0..Attempts /\ (attempt > 0 <=> pc \in {"pass1", "pass2"})
  /\ offered \subseteq Spellings /\ before \subseteq Spellings
  /\ applied \subseteq ledger /\ ghosts \subseteq Spellings
  /\ cut \subseteq DOMAIN chapters

(* The turns of a chapter are its prose: nothing lost, repeated or said by *)
(* another speaker, whatever the model did to its tags.  The markdown a    *)
(* resumed render parses again says what it says, a tag's colon aside; and *)
(* where no turn begins and no name ends with a colon, the turns it gives  *)
(* are the first ones.                                                     *)
TurnsAsWritten ==
  pc = "pass2" =>
    LET again == ParseTaggedProse(ChapterMarkdown(turns)) IN
    /\ FaithfulTurns(prose, turns)
    /\ FaithfulTurns(ChapterMarkdown(turns), again)
    /\ WithoutColons(turns) => again = turns

(* Somebody else's name that begins with a short name of the protagonist.  *)
Namesakes(n) == {m \in Spellings : ~IsProtagonist(m) /\ StartsWith(WordsOf[m], WordsOf[n])}

(* One key for the protagonist: whatever the model calls him, and although *)
(* the cast may know him by a short name, the ledger and the characters of *)
(* the lore never hold him under another name; only a namesake's, being    *)
(* resolved onto a short name in the cast, can put it there.               *)
OneKeyForTheProtagonist ==
  \A n \in ledger \cup {m \in DOMAIN lore : lore[m]} :
    IsProtagonist(n) => n = Protagonist \/ Namesakes(n) # {}

(* A chapter is never published cut off; one that does not say it is dirty *)
(* is remembered by later prompts once its cycle is over, unless the cycle *)
(* ended before its summary, and then nothing says so.                     *)
WholeAndRemembered ==
  \A c \in DOMAIN chapters :
    /\ chapters[c].whole
    /\ ~chapters[c].dirty =>
         (chapters[c].summed <=>
            c \notin cut /\ ~(c = Len(chapters) /\ pc \in {"lore", "deltas"}))
    /\ chapters[c].dirty =>
         ~chapters[c].summed /\ c \notin cut /\ chapters[c].titled = "number"

(* The prompt tells pass 2 to use the known names exactly as given: a fact *)
(* about one of them is never refused as being about nobody, though lore   *)
(* and resolution come in between, unless the same answer filed that name  *)
(* as something other than a person.                                       *)
OfferedNamesAreKnown ==
  \A n \in offered \cap ghosts : n \in DOMAIN lore /\ ~lore[n]

=============================================================================
