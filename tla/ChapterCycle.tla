---------------------------- MODULE ChapterCycle ----------------------------
(***************************************************************************)
(* The chapter loop of litrpg-engine: Engine::run_cycle over the SQLite    *)
(* store, called again and again by the main loop.  One engine process     *)
(* runs the cycle; the daemon and the CLI are other processes on the same  *)
(* database, so their writes land between any two store calls of a cycle.  *)
(* The engine may crash at any point, any of its store calls may fail, the *)
(* language model may refuse a chapter and the speech backend may be down. *)
(*                                                                         *)
(* Abstracted: the prose, titles, prompts and lore bodies; the arithmetic  *)
(* of the gate (module Ledger); voices; the files of a publication (module *)
(* Publication).  The retries inside pass 1 and pass 2 write nothing, so a *)
(* pass is one step with its final outcome.                                *)
(***************************************************************************)
EXTENDS Naturals, Sequences, FiniteSets, FiniteSetsExt

CONSTANTS
  MaxChapters,        \* bound: chapters the model writes
  MaxFaults,          \* bound: crashes, failed calls and outages of a behaviour
  MaxOrders,          \* bound: operator commands other than posting a note
  Notes,              \* director notes that may be posted
  Subjects,           \* character names
  Protagonist,        \* story.protagonist
  Casts,              \* sets of characters a chapter's prose may give a voice
  Extractions,        \* what pass 2 may return: [lore, deltas]
  NoExtraction,       \* pass 2 gave up: the chapter ships state_dirty
  Targets,            \* buffer targets an operator may record
  NoTarget,           \* buffer_target_changes is empty
  ConfigTarget,       \* EngineConfig::buffer_target, the seed
  CursorMode,         \* "Stored", "At" or "Drain": BufferCursor
  CursorAt,           \* the operand of BufferCursor::At
  MaxResumeAttempts,  \* MAX_RESUME_ATTEMPTS
  Poison              \* chapters no backend can ever render

Chapter == 1..MaxChapters

(* A proposed delta: whose it is, and what happens to it if the gate knows *)
(* the subject.  "discard" is a delta run_cycle drops before the gate: an  *)
(* illegal op, a placeholder value or a role row.                          *)
Delta == [subject : Subjects, gate : {"accept", "reject", "discard"}]

ASSUME BoundsAssumption ==
  /\ MaxChapters \in Nat /\ MaxFaults \in Nat /\ MaxOrders \in Nat
  /\ MaxResumeAttempts \in Nat /\ CursorAt \in Nat
  /\ ConfigTarget \in Nat /\ Targets \subseteq Nat /\ NoTarget \notin Nat
  /\ CursorMode \in {"Stored", "At", "Drain"}
ASSUME StoryAssumption ==
  /\ Protagonist \in Subjects
  /\ Casts \subseteq SUBSET Subjects
  /\ Extractions \subseteq [lore : SUBSET Subjects, deltas : Seq(Delta)]
  /\ NoExtraction \notin [lore : SUBSET Subjects, deltas : Seq(Delta)]

VARIABLES
  (* the store, shared by every process *)
  chapters,         \* numbers of the chapter rows
  hasAudio,         \* chapters.has_audio
  dirty,            \* chapters.state_dirty
  summarised,       \* chapters with a summaries row
  ledger,           \* ledger rows
  cast,             \* characters with a cast row
  lore,             \* names of lore rows of kind character
  posted,           \* notes rows
  consumedBy,       \* notes.consumed_chapter, 0 for NULL
  consumedThrough,  \* story.consumed_through, the playback cursor
  target,           \* newest buffer_target_changes row
  (* one turn of run_cycle: the engine's memory *)
  pc,               \* the step run_cycle is about to take
  cursor,           \* consumed_through as read at the top of the cycle
  depth,            \* buffer_depth
  number,           \* the chapter being rendered or written
  notes,            \* the notes drained into the prompt
  speakers,         \* the characters the prose gave a voice
  extraction,       \* what pass 2 returned
  next,             \* index of the next delta
  resumeFailures,   \* Engine::resume_failures, lost on restart
  (* the environment *)
  tts,              \* whether the speech backend answers
  faults,           \* faults so far
  orders,           \* operator commands so far
  (* history, read by the properties only *)
  told,             \* the notes that were in each chapter's prompt
  extracted,        \* the extraction of each chapter
  arrivedDuring,    \* the chapter under way when a note arrived, 0 for none
  cut               \* chapters whose cycle ended between insert and step 10

chapterVars == <<chapters, hasAudio, dirty, summarised>>
stateVars   == <<ledger, cast, lore>>
noteVars    == <<posted, consumedBy>>
bufferVars  == <<consumedThrough, target>>
storeVars   == <<chapterVars, stateVars, noteVars, bufferVars>>
cycleVars   == <<cursor, depth, number, notes, speakers, extraction, next>>
engineVars  == <<pc, cycleVars, resumeFailures>>
worldVars   == <<tts, faults, orders>>
historyVars == <<told, extracted, arrivedDuring, cut>>
vars        == <<storeVars, engineVars, worldVars, historyVars>>

-----------------------------------------------------------------------------
(* What the cycle reads from the store.                                    *)

HighestOf(S) == IF S = {} THEN 0 ELSE Max(S)

latest == HighestOf(chapters)

pendingNotes == {n \in posted : consumedBy[n] = 0}

chaptersSince(after) == {c \in chapters : c > after}

bufferDepth(after) == Cardinality(chaptersSince(after) \cap hasAudio)

bufferTarget == IF target = NoTarget THEN ConfigTarget ELSE target

resolvedCursor ==
  IF CursorMode = "Stored" THEN consumedThrough
  ELSE IF CursorMode = "At" THEN CursorAt ELSE latest

knownSubjects ==
  {Protagonist} \cup cast \cup lore
    \cup {r.subject : r \in {q \in ledger : q.status = "applied"}}

(* Mutant: only the last chapter is resumed.                               *)
resumable_Latest ==
  {c \in chapters \ hasAudio : c = latest /\ resumeFailures[c] < MaxResumeAttempts}

(* Chapters with prose, no audio, and retries left.                        *)
resumable == {c \in chapters \ hasAudio : resumeFailures[c] < MaxResumeAttempts}

-----------------------------------------------------------------------------
Publishing == {"extract", "render", "consume"}   \* the chapter row is written
Drained    == {"pass1", "cast", "insert"} \cup Publishing
InCycle    == {"resume", "rerender", "measure", "decide", "drain"} \cup Drained

Init ==
  /\ chapters = {} /\ hasAudio = {} /\ dirty = {} /\ summarised = {}
  /\ ledger = {} /\ cast = {} /\ lore = {}
  /\ posted = {} /\ consumedBy = [n \in Notes |-> 0]
  /\ consumedThrough = 0 /\ target = NoTarget
  /\ pc = "idle"
  /\ cursor = 0 /\ depth = 0 /\ number = 0 /\ notes = {} /\ speakers = {}
  /\ extraction = NoExtraction /\ next = 1
  /\ resumeFailures = [c \in Chapter |-> 0]
  /\ tts = "up" /\ faults = 0 /\ orders = 0
  /\ told = [c \in Chapter |-> {}]
  /\ extracted = [c \in Chapter |-> NoExtraction]
  /\ arrivedDuring = [n \in Notes |-> 0]
  /\ cut = {}

(* run_cycle returns: its locals are gone.                                 *)
Return ==
  /\ pc' = "idle"
  /\ cursor' = 0 /\ depth' = 0 /\ number' = 0 /\ notes' = {} /\ speakers' = {}
  /\ extraction' = NoExtraction /\ next' = 1

(* The cycle ends before step 10: if the chapter row is already written,   *)
(* what was left to do for that chapter is never done.                     *)
CutShort == cut' = IF pc \in Publishing THEN cut \cup {number} ELSE cut

Fault == faults < MaxFaults /\ faults' = faults + 1 /\ UNCHANGED orders
Order == orders < MaxOrders /\ orders' = orders + 1 /\ UNCHANGED <<tts, faults>>

-----------------------------------------------------------------------------
(* The engine.                                                             *)

(* The main loop calls run_cycle, which resolves the cursor first.         *)
BeginCycle ==
  /\ pc = "idle"
  /\ pc' = "resume" /\ cursor' = resolvedCursor
  /\ UNCHANGED <<depth, number, notes, speakers, extraction, next>>
  /\ UNCHANGED <<storeVars, resumeFailures, worldVars, historyVars>>

(* Step 0: the lowest chapter that still has retries, if there is one.     *)
PickResumable ==
  /\ pc = "resume"
  /\ \/ /\ resumable = {}
        /\ pc' = "measure" /\ UNCHANGED number
     \/ \E c \in resumable :
          /\ \A d \in resumable : c <= d
          /\ pc' = "rerender" /\ number' = c
  /\ UNCHANGED <<cursor, depth, notes, speakers, extraction, next>>
  /\ UNCHANGED <<storeVars, resumeFailures, worldVars, historyVars>>

Renders(c) == tts = "up" /\ c \notin Poison

ResumeSucceeds ==
  /\ pc = "rerender" /\ Renders(number)
  /\ hasAudio' = hasAudio \cup {number}
  /\ resumeFailures' = [resumeFailures EXCEPT ![number] = 0]
  /\ Return
  /\ UNCHANGED <<chapters, dirty, summarised, stateVars, noteVars, bufferVars>>
  /\ UNCHANGED <<worldVars, told, extracted, arrivedDuring, cut>>

(* Mutant: a failed resume ends the turn and is not counted.               *)
ResumeFails_Returns ==
  /\ pc = "rerender" /\ ~Renders(number)
  /\ Return
  /\ UNCHANGED <<storeVars, resumeFailures, worldVars, historyVars>>

(* A failed resume falls through to the buffer check.                      *)
ResumeFails ==
  /\ pc = "rerender" /\ ~Renders(number)
  /\ resumeFailures' = [resumeFailures EXCEPT ![number] = @ + 1]
  /\ pc' = "measure" /\ number' = 0
  /\ UNCHANGED <<cursor, depth, notes, speakers, extraction, next>>
  /\ UNCHANGED <<storeVars, worldVars, historyVars>>

(* Step 1: buffer_depth is measured from the cursor of BeginCycle ...      *)
MeasureBuffer ==
  /\ pc = "measure"
  /\ depth' = bufferDepth(cursor) /\ pc' = "decide"
  /\ UNCHANGED <<cursor, number, notes, speakers, extraction, next>>
  /\ UNCHANGED <<storeVars, resumeFailures, worldVars, historyVars>>

(* ... and compared with the target read now.  MaxChapters bounds the      *)
(* model: the engine itself has no last chapter.                           *)
BufferFull ==
  /\ pc = "decide"
  /\ depth >= bufferTarget \/ latest = MaxChapters
  /\ Return
  /\ UNCHANGED <<storeVars, resumeFailures, worldVars, historyVars>>

BufferShort ==
  /\ pc = "decide"
  /\ depth < bufferTarget /\ latest < MaxChapters
  /\ pc' = "drain" /\ number' = latest + 1
  /\ UNCHANGED <<cursor, depth, notes, speakers, extraction, next>>
  /\ UNCHANGED <<storeVars, resumeFailures, worldVars, historyVars>>

(* Mutant: the notes are consumed when they are read.                      *)
DrainNotes_Consumes ==
  /\ pc = "drain"
  /\ notes' = pendingNotes /\ pc' = "pass1"
  /\ consumedBy' = [n \in Notes |-> IF n \in pendingNotes THEN number ELSE consumedBy[n]]
  /\ UNCHANGED <<cursor, depth, number, speakers, extraction, next>>
  /\ UNCHANGED <<chapterVars, stateVars, posted, bufferVars>>
  /\ UNCHANGED <<resumeFailures, worldVars, historyVars>>

(* Step 2: read the pending notes; they are consumed only at step 10.      *)
DrainNotes ==
  /\ pc = "drain"
  /\ notes' = pendingNotes /\ pc' = "pass1"
  /\ UNCHANGED <<cursor, depth, number, speakers, extraction, next>>
  /\ UNCHANGED <<storeVars, resumeFailures, worldVars, historyVars>>

(* Step 3.                                                                 *)
Pass1Succeeds ==
  /\ pc = "pass1"
  /\ speakers' \in Casts /\ pc' = "cast"
  /\ UNCHANGED <<cursor, depth, number, notes, extraction, next>>
  /\ UNCHANGED <<storeVars, resumeFailures, worldVars, historyVars>>

(* Transport failure, refusal, three malformed drafts, or prose with no    *)
(* parseable segment: CycleOutcome::Abandoned.                             *)
Pass1Abandons ==
  /\ pc = "pass1" /\ Fault /\ Return
  /\ UNCHANGED <<storeVars, resumeFailures, tts, historyVars>>

(* Step 4, one upsert_cast per new speaker.                                *)
CastSpeaker ==
  /\ pc = "cast"
  /\ \E s \in speakers \ cast : cast' = cast \cup {s}
  /\ UNCHANGED <<chapterVars, ledger, lore, noteVars, bufferVars>>
  /\ UNCHANGED <<engineVars, worldVars, historyVars>>

(* Step 5: extract, or give up and let the chapter ship state_dirty.       *)
Pass2Succeeds ==
  /\ pc = "cast" /\ speakers \subseteq cast
  /\ extraction' \in Extractions /\ pc' = "insert"
  /\ UNCHANGED <<cursor, depth, number, notes, speakers, next>>
  /\ UNCHANGED <<storeVars, resumeFailures, worldVars, historyVars>>

Pass2Fails ==
  /\ pc = "cast" /\ speakers \subseteq cast
  /\ Fault
  /\ extraction' = NoExtraction /\ pc' = "insert"
  /\ UNCHANGED <<cursor, depth, number, notes, speakers, next>>
  /\ UNCHANGED <<storeVars, resumeFailures, tts, historyVars>>

(* Mutant: a failed pass 2 is not recorded.                                *)
InsertChapter_NeverDirty ==
  /\ pc = "insert"
  /\ number \notin chapters
  /\ chapters' = chapters \cup {number}
  /\ pc' = IF extraction = NoExtraction THEN "render" ELSE "extract"
  /\ told' = [told EXCEPT ![number] = notes]
  /\ extracted' = [extracted EXCEPT ![number] = extraction]
  /\ UNCHANGED <<dirty, hasAudio, summarised, stateVars, noteVars, bufferVars>>
  /\ UNCHANGED <<cycleVars, resumeFailures, worldVars>>
  /\ UNCHANGED <<arrivedDuring, cut>>

(* insert_chapter: from here on the prose is published.                    *)
InsertChapter ==
  /\ pc = "insert"
  /\ number \notin chapters
  /\ chapters' = chapters \cup {number}
  /\ dirty' = IF extraction = NoExtraction THEN dirty \cup {number} ELSE dirty
  /\ pc' = IF extraction = NoExtraction THEN "render" ELSE "extract"
  /\ told' = [told EXCEPT ![number] = notes]
  /\ extracted' = [extracted EXCEPT ![number] = extraction]
  /\ UNCHANGED <<hasAudio, summarised, stateVars, noteVars, bufferVars>>
  /\ UNCHANGED <<cycleVars, resumeFailures, worldVars>>
  /\ UNCHANGED <<arrivedDuring, cut>>

(* Step 6, one upsert_lore per new_lore entry of kind character.           *)
RecordLore ==
  /\ pc = "extract"
  /\ \E l \in extraction.lore \ lore : lore' = lore \cup {l}
  /\ UNCHANGED <<chapterVars, ledger, cast, noteVars, bufferVars>>
  /\ UNCHANGED <<engineVars, worldVars, historyVars>>

(* Step 7, one delta.  A rejection is a row too; a discard is not.         *)
Verdict(d) ==
  IF d.subject \notin knownSubjects THEN "UnknownSubject"
  ELSE IF d.gate = "accept" THEN "applied" ELSE "rejected"

AppendDelta ==
  /\ pc = "extract" /\ extraction.lore \subseteq lore
  /\ next <= Len(extraction.deltas)
  /\ LET d == extraction.deltas[next] IN
       ledger' = IF d.gate = "discard" THEN ledger
                 ELSE ledger \cup {[chapter |-> number, index |-> next,
                                    subject |-> d.subject, status |-> Verdict(d)]}
  /\ next' = next + 1
  /\ UNCHANGED <<chapterVars, cast, lore, noteVars, bufferVars>>
  /\ UNCHANGED <<pc, cursor, depth, number, notes, speakers, extraction>>
  /\ UNCHANGED <<resumeFailures, worldVars, historyVars>>

PutSummary ==
  /\ pc = "extract" /\ extraction.lore \subseteq lore
  /\ next > Len(extraction.deltas)
  /\ summarised' = summarised \cup {number} /\ pc' = "render"
  /\ UNCHANGED <<chapters, hasAudio, dirty, stateVars, noteVars, bufferVars>>
  /\ UNCHANGED <<cycleVars, resumeFailures, worldVars, historyVars>>

(* Steps 8 and 9: a failed render is logged, never raised.                 *)
RenderAndPublish ==
  /\ pc = "render"
  /\ hasAudio' = IF Renders(number) THEN hasAudio \cup {number} ELSE hasAudio
  /\ pc' = "consume"
  /\ UNCHANGED <<chapters, dirty, summarised, stateVars, noteVars, bufferVars>>
  /\ UNCHANGED <<cycleVars, resumeFailures, worldVars>>
  /\ UNCHANGED <<told, extracted, arrivedDuring, cut>>

(* Mutant: the notes of earlier chapters are stamped again.                *)
MarkNotesConsumed_Restamps ==
  /\ pc = "consume"
  /\ consumedBy' = [n \in Notes |-> IF n \in posted THEN number ELSE 0]
  /\ Return
  /\ UNCHANGED <<chapterVars, stateVars, posted, bufferVars>>
  /\ UNCHANGED <<resumeFailures, worldVars, historyVars>>

(* Mutant: the notes of a chapter without audio stay pending.              *)
MarkNotesConsumed_IfHeard ==
  /\ pc = "consume"
  /\ consumedBy' = [n \in Notes |-> IF n \in pendingNotes /\ number \in hasAudio
                                    THEN number ELSE consumedBy[n]]
  /\ Return
  /\ UNCHANGED <<chapterVars, stateVars, posted, bufferVars>>
  /\ UNCHANGED <<resumeFailures, worldVars, historyVars>>

(* Step 10: every note pending now, whether or not it was drained.         *)
MarkNotesConsumed ==
  /\ pc = "consume"
  /\ consumedBy' = [n \in Notes |-> IF n \in pendingNotes THEN number ELSE consumedBy[n]]
  /\ Return
  /\ UNCHANGED <<chapterVars, stateVars, posted, bufferVars>>
  /\ UNCHANGED <<resumeFailures, worldVars, historyVars>>

(* A store or library call returns an error and `?` ends the cycle; the    *)
(* two renders swallow their errors, so they are not among these steps.    *)
CycleFails ==
  /\ pc \in InCycle \ {"rerender", "render", "pass1"} /\ Fault
  /\ Return /\ CutShort
  /\ UNCHANGED <<storeVars, resumeFailures, tts>>
  /\ UNCHANGED <<told, extracted, arrivedDuring>>

Crash ==
  /\ pc # "down" /\ Fault /\ CutShort
  /\ pc' = "down"
  /\ cursor' = 0 /\ depth' = 0 /\ number' = 0 /\ notes' = {} /\ speakers' = {}
  /\ extraction' = NoExtraction /\ next' = 1
  /\ resumeFailures' = [c \in Chapter |-> 0]
  /\ UNCHANGED <<storeVars, tts, told, extracted, arrivedDuring>>

(* systemd starts the process again.                                       *)
Restart ==
  /\ pc = "down" /\ pc' = "idle"
  /\ UNCHANGED <<storeVars, cycleVars, resumeFailures, worldVars, historyVars>>

-----------------------------------------------------------------------------
(* The other processes and the environment.                                *)

(* POST /api/notes and `litrpg note`.                                      *)
PostNote(n) ==
  /\ n \notin posted
  /\ posted' = posted \cup {n}
  /\ arrivedDuring' =
       [arrivedDuring EXCEPT ![n] = IF pc \in Drained THEN number ELSE 0]
  /\ UNCHANGED <<chapterVars, stateVars, consumedBy, bufferVars>>
  /\ UNCHANGED <<engineVars, worldVars, told, extracted, cut>>

(* PUT /api/progress and `litrpg listened`.  Both refuse a chapter that    *)
(* does not exist; the CLI's check and write are two statements, but       *)
(* chapter rows are never deleted, so what it checked still holds.         *)
Listen(c) ==
  /\ c <= latest /\ Order
  /\ consumedThrough' = c
  /\ UNCHANGED <<chapterVars, stateVars, noteVars, target>>
  /\ UNCHANGED <<engineVars, historyVars>>

(* Mutant: a bump is added without its ceiling.                            *)
RecordTarget_Unbounded(t) ==
  /\ target' = bufferTarget + t /\ Order
  /\ UNCHANGED <<chapterVars, stateVars, noteVars, consumedThrough>>
  /\ UNCHANGED <<engineVars, historyVars>>

(* POST /api/buffer, once its arithmetic has settled the new target.       *)
RecordTarget(t) ==
  /\ target' = t /\ Order
  /\ UNCHANGED <<chapterVars, stateVars, noteVars, consumedThrough>>
  /\ UNCHANGED <<engineVars, historyVars>>

(* `litrpg render N`: clear_audio.  A chapter that has no audio is         *)
(* reported as AlreadyQueued and nothing is written.                       *)
RequestRender(c) ==
  /\ c \in chapters /\ Order
  /\ hasAudio' = hasAudio \ {c}
  /\ UNCHANGED <<chapters, dirty, summarised, stateVars, noteVars, bufferVars>>
  /\ UNCHANGED <<engineVars, told, extracted, arrivedDuring, cut>>

(* The chapter row is written and its cycle is not over.                   *)
InFlight(c) == pc \in Publishing /\ number = c

(* `litrpg rewind N`: only ledger rows change.                             *)
Rewind(n) ==
  /\ Order
  /\ ledger' = {IF r.chapter > n /\ r.status = "applied"
                THEN [r EXCEPT !.status = "rewound"] ELSE r : r \in ledger}
  /\ UNCHANGED <<chapterVars, cast, lore, noteVars, bufferVars>>
  /\ UNCHANGED <<engineVars, told, extracted, arrivedDuring, cut>>

TtsFails ==
  /\ tts = "up" /\ tts' = "down" /\ Fault
  /\ UNCHANGED <<storeVars, engineVars, told, extracted, arrivedDuring, cut>>

TtsRecovers ==
  /\ tts = "down" /\ tts' = "up"
  /\ UNCHANGED <<storeVars, engineVars, faults, orders, historyVars>>

-----------------------------------------------------------------------------
Cycle ==
  \/ BeginCycle \/ PickResumable \/ ResumeSucceeds \/ ResumeFails
  \/ MeasureBuffer \/ BufferFull \/ BufferShort \/ DrainNotes
  \/ Pass1Succeeds \/ CastSpeaker \/ Pass2Succeeds \/ InsertChapter
  \/ RecordLore \/ AppendDelta \/ PutSummary \/ RenderAndPublish
  \/ MarkNotesConsumed

Faults == Pass1Abandons \/ Pass2Fails \/ CycleFails \/ Crash \/ TtsFails

Operator ==
  \/ \E n \in Notes : PostNote(n)
  \/ \E c \in 0..MaxChapters : Listen(c) \/ Rewind(c)
  \/ \E t \in Targets : RecordTarget(t)
  \/ \E c \in Chapter : RequestRender(c)

Next == Cycle \/ Restart \/ Faults \/ Operator \/ TtsRecovers

Spec == Init /\ [][Next]_vars

(* The main loop calls run_cycle for ever (loop_until_signal), the cycle   *)
(* itself blocks on nothing but calls that end in an answer or a timeout,  *)
(* and systemd restarts a crashed engine.  Nothing is assumed of people.   *)
FairSpec == Spec /\ WF_vars(Cycle) /\ WF_vars(Restart)
-----------------------------------------------------------------------------
(* Safety.                                                                 *)

(* The variables range over what the code stores in them.                  *)
StoreTypeOK ==
  /\ chapters \subseteq Chapter /\ hasAudio \subseteq Chapter
  /\ dirty \subseteq Chapter /\ summarised \subseteq Chapter
  /\ ledger \subseteq [chapter : Chapter, index : Nat, subject : Subjects,
                       status : {"applied", "UnknownSubject", "rejected", "rewound"}]
  /\ cast \subseteq Subjects /\ lore \subseteq Subjects
  /\ posted \subseteq Notes /\ consumedBy \in [Notes -> 0..MaxChapters]
  /\ consumedThrough \in Nat /\ target \in Targets \cup {NoTarget}

EngineTypeOK ==
  /\ pc \in InCycle \cup {"idle", "down"}
  /\ cursor \in Nat /\ depth \in Nat /\ number \in 0..MaxChapters
  /\ notes \subseteq Notes /\ speakers \subseteq Subjects
  /\ extraction \in Extractions \cup {NoExtraction} /\ next \in Nat \ {0}
  /\ resumeFailures \in [Chapter -> Nat]

HistoryTypeOK ==
  /\ told \in [Chapter -> SUBSET Notes]
  /\ extracted \in [Chapter -> Extractions \cup {NoExtraction}]
  /\ arrivedDuring \in [Notes -> 0..MaxChapters]
  /\ cut \subseteq Chapter

TypeOK ==
  /\ StoreTypeOK /\ EngineTypeOK /\ HistoryTypeOK
  /\ tts \in {"up", "down"} /\ faults \in Nat /\ orders \in Nat

(* A note is stamped consumed only by a chapter whose prompt carried it,   *)
(* unless it arrived while that chapter was being written: steps 2 and 10  *)
(* are far apart, and a crash, a failed call or another chapter may lie    *)
(* between them.                                                           *)
PromptCarriedItsNotes ==
  \A n \in Notes :
    consumedBy[n] # 0 /\ arrivedDuring[n] # consumedBy[n] => n \in told[consumedBy[n]]

(* A note steers one chapter, whatever became of its audio or its state.   *)
(* It reaches a second prompt only if the cycle of the first was cut short *)
(* between insert_chapter and mark_notes_consumed.                         *)
NoteToldOnce ==
  \A c, d \in Chapter : c < d /\ told[c] \cap told[d] # {} => c \in cut

(* A chapter that is not state_dirty and whose cycle was not cut short has *)
(* its summary, and a ledger row for every delta that reached the gate.    *)
CompleteState(c) ==
  /\ c \in summarised
  /\ \A i \in 1..Len(extracted[c].deltas) :
       \/ extracted[c].deltas[i].gate = "discard"
       \/ \E r \in ledger : r.chapter = c /\ r.index = i

CleanChaptersComplete ==
  \A c \in chapters \ (dirty \cup cut) :
    (InFlight(c) /\ pc = "extract") \/ CompleteState(c)

(* Why the note properties hold: chapters are numbered without a gap, the  *)
(* chapter under way is the next one until it is written and the last one  *)
(* afterwards (with an extraction, while there is one to record), and what *)
(* a prompt carried was pending when it was drained and stays so until the *)
(* boundary, unless the cycle is cut short.                                *)
Contiguous == latest \in Nat /\ chapters = 1..latest

UnderWay ==
  /\ pc \in {"drain", "pass1", "cast", "insert"} => number = latest + 1
  /\ pc \in Publishing => number = latest /\ number # 0
  /\ pc = "rerender" => number \in chapters
  /\ pc = "extract" => extraction # NoExtraction

DrainedAreKnown ==
  /\ pc \in {"pass1", "cast", "insert"} =>
       /\ notes \subseteq pendingNotes
       /\ \A n \in pendingNotes \ notes : arrivedDuring[n] = number
  /\ pc \in Publishing =>
       \A n \in pendingNotes \ told[number] : arrivedDuring[n] = number

ToldBookkeeping ==
  /\ \A c \in Chapter \ chapters : told[c] = {}
  /\ \A c \in Chapter : told[c] \subseteq posted
  /\ \A c \in Chapter : \A n \in told[c] :
       consumedBy[n] = 0 => c \in cut \/ (pc \in Publishing /\ c = number)
  /\ \A n \in Notes : consumedBy[n] # 0 => n \in posted /\ consumedBy[n] \in chapters

CycleInvariant ==
  /\ Contiguous /\ UnderWay /\ DrainedAreKnown /\ ToldBookkeeping
  /\ PromptCarriedItsNotes /\ NoteToldOnce

(* The loop implements the serial its readers see.                         *)
Promise == INSTANCE Serial WITH
  Limit <- MaxChapters, Messages <- Notes,
  length <- latest, voiced <- hasAudio, received <- posted, stamp <- consumedBy,
  boundary <- IF pc \in Publishing THEN number ELSE 0
SerialPromise == Promise!SerialSpec

-----------------------------------------------------------------------------
(* Liveness, under FairSpec.                                               *)

(* A published chapter is heard, or its retries run out, even when another *)
(* chapter can never be rendered or is never rendered in time.             *)
EveryChapterTried ==
  \A c \in Chapter :
    c \in chapters ~> c \in hasAudio \/ resumeFailures[c] >= MaxResumeAttempts

Short == bufferDepth(resolvedCursor) < bufferTarget

(* A failed resume falls through: while the buffer is short the next       *)
(* chapter comes, although an earlier one may never have audio.            *)
SerialKeepsMoving ==
  \A c \in Chapter : (latest = c - 1 /\ Short) ~> (latest >= c \/ ~Short)

(* A pending note is consumed by a chapter, unless no chapter is due.      *)
NotesReachTheStory ==
  \A n \in Notes :
    n \in posted ~> (consumedBy[n] # 0 \/ ~Short \/ latest = MaxChapters)

-----------------------------------------------------------------------------
(* What the repository says of the loop and the code does not do.          *)

(* cycle.rs:800: "the notes were honoured by the prose, which is written". *)
NotesHonoured ==
  \A n \in Notes : consumedBy[n] # 0 => n \in told[consumedBy[n]]
=============================================================================
