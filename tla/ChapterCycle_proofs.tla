------------------------ MODULE ChapterCycle_proofs ------------------------
(***************************************************************************)
(* Proofs about module ChapterCycle, for every value of its constants: the *)
(* types of the variables; the two promises about director notes, that a   *)
(* note is stamped only by a chapter whose prompt carried it (or during    *)
(* which it arrived) and that it reaches a second prompt only after a      *)
(* cycle that was cut short; that a clean chapter has all that pass 2      *)
(* found of it; and that the loop implements module Serial.  All rest on   *)
(* the inductive CycleInvariant, the chapters' state on Recording too.     *)
(***************************************************************************)
EXTENDS ChapterCycle, FiniteSetTheorems, TLAPS

-----------------------------------------------------------------------------
(* The rows are numbered from 1, so SELECT MAX(number) counts them.        *)
LEMMA HighestOfInterval ==
  ASSUME NEW k \in Nat
  PROVE  HighestOf(1..k) = k
<1>1. CASE k = 0
  BY <1>1 DEF HighestOf
<1>2. CASE k > 0
  <2>1. k \in 1..k /\ \A d \in 1..k : k >= d
    BY <1>2
  <2>2. Max(1..k) \in 1..k /\ \A d \in 1..k : Max(1..k) >= d
    BY <2>1 DEF Max
  <2>3. Max(1..k) = k
    BY <2>1, <2>2
  <2> QED
    BY <1>2, <2>1, <2>3 DEF HighestOf
<1> QED
  BY <1>1, <1>2

(* buffer_depth is a number: it counts some of the chapters.               *)
LEMMA BufferDepthType ==
  ASSUME StoreTypeOK, NEW after
  PROVE  bufferDepth(after) \in Nat
<1>1. IsFiniteSet(Chapter)
  BY BoundsAssumption, FS_Interval DEF Chapter
<1>2. chaptersSince(after) \cap hasAudio \subseteq Chapter
  BY DEF chaptersSince, StoreTypeOK
<1>3. IsFiniteSet(chaptersSince(after) \cap hasAudio)
  BY <1>1, <1>2, FS_Subset
<1> QED
  BY <1>3, FS_CardinalityType DEF bufferDepth

-----------------------------------------------------------------------------
(* Types.                                                                  *)
LEMMA InitType == Init => TypeOK
<1> SUFFICES ASSUME Init PROVE TypeOK
  OBVIOUS
<1>1. StoreTypeOK
  BY BoundsAssumption DEF Init, StoreTypeOK
<1>2. EngineTypeOK
  BY BoundsAssumption DEF Init, EngineTypeOK
<1>3. HistoryTypeOK
  BY BoundsAssumption DEF Init, HistoryTypeOK
<1> QED
  BY <1>1, <1>2, <1>3 DEF Init, TypeOK

LEMMA UnchangedType ==
  /\ StoreTypeOK /\ UNCHANGED storeVars => StoreTypeOK'
  /\ EngineTypeOK /\ UNCHANGED engineVars => EngineTypeOK'
  /\ HistoryTypeOK /\ UNCHANGED historyVars => HistoryTypeOK'
BY DEF StoreTypeOK, EngineTypeOK, HistoryTypeOK, storeVars, chapterVars, stateVars,
       noteVars, bufferVars, engineVars, cycleVars, historyVars

LEMMA ReturnType ==
  ASSUME Return, resumeFailures' \in [Chapter -> Nat]
  PROVE  EngineTypeOK'
BY BoundsAssumption DEF Return, EngineTypeOK

(* number stays a chapter because a chapter is begun only below            *)
(* MaxChapters, and the highest number is one because rows are contiguous. *)
LEMMA CycleType ==
  ASSUME TypeOK, Contiguous, UnderWay, Cycle
  PROVE  TypeOK'
<1> USE DEF TypeOK
<1> DEFINE Rest == tts \in {"up", "down"} /\ faults \in Nat /\ orders \in Nat
<1>0. UNCHANGED worldVars => Rest'
  BY DEF worldVars
<1>1. CASE BeginCycle
  <2>1. resolvedCursor \in Nat
    BY BoundsAssumption DEF resolvedCursor, Contiguous, StoreTypeOK
  <2>2. EngineTypeOK'
    BY <1>1, <2>1 DEF BeginCycle, EngineTypeOK, InCycle
  <2> QED
    BY <1>0, <1>1, <2>2, UnchangedType DEF BeginCycle
<1>2. CASE PickResumable
  <2>1. resumable \subseteq Chapter
    BY DEF resumable, StoreTypeOK
  <2>2. EngineTypeOK'
    <3>1. number' \in 0..MaxChapters /\ pc' \in InCycle
      BY <1>2, <2>1, BoundsAssumption DEF PickResumable, EngineTypeOK, InCycle, Chapter
    <3> QED
      BY <1>2, <3>1 DEF PickResumable, EngineTypeOK
  <2> QED
    BY <1>0, <1>2, <2>2, UnchangedType DEF PickResumable
<1>3. CASE ResumeSucceeds
  <2>2. EngineTypeOK'
    BY <1>3, ReturnType DEF ResumeSucceeds, EngineTypeOK
  <2>3. number \in Chapter
    BY <1>3 DEF ResumeSucceeds, UnderWay, StoreTypeOK
  <2>4. StoreTypeOK'
    BY <1>3, <2>3 DEF ResumeSucceeds, StoreTypeOK, chapterVars, stateVars, noteVars, bufferVars
  <2>5. HistoryTypeOK'
    BY <1>3 DEF ResumeSucceeds, HistoryTypeOK
  <2> QED
    BY <1>0, <1>3, <2>2, <2>4, <2>5 DEF ResumeSucceeds
<1>4. CASE ResumeFails
  <2>1. number \in Chapter
    BY <1>4 DEF ResumeFails, UnderWay, StoreTypeOK
  <2>2. EngineTypeOK'
    BY <1>4, <2>1, BoundsAssumption DEF ResumeFails, EngineTypeOK, InCycle
  <2> QED
    BY <1>0, <1>4, <2>2, UnchangedType DEF ResumeFails
<1>5. CASE MeasureBuffer
  <2>1. EngineTypeOK'
    BY <1>5, BufferDepthType DEF MeasureBuffer, EngineTypeOK, InCycle
  <2> QED
    BY <1>0, <1>5, <2>1, UnchangedType DEF MeasureBuffer
<1>6. CASE BufferFull
  <2>1. EngineTypeOK'
    BY <1>6, ReturnType DEF BufferFull, EngineTypeOK
  <2> QED
    BY <1>0, <1>6, <2>1, UnchangedType DEF BufferFull
<1>7. CASE BufferShort
  <2>1. EngineTypeOK'
    BY <1>7, BoundsAssumption DEF BufferShort, Contiguous, EngineTypeOK, InCycle
  <2> QED
    BY <1>0, <1>7, <2>1, UnchangedType DEF BufferShort
<1>8. CASE DrainNotes
  <2>1. EngineTypeOK'
    BY <1>8 DEF DrainNotes, EngineTypeOK, StoreTypeOK, pendingNotes, InCycle, Drained
  <2> QED
    BY <1>0, <1>8, <2>1, UnchangedType DEF DrainNotes
<1>9. CASE Pass1Succeeds
  <2>1. EngineTypeOK'
    BY <1>9, StoryAssumption DEF Pass1Succeeds, EngineTypeOK, InCycle, Drained
  <2> QED
    BY <1>0, <1>9, <2>1, UnchangedType DEF Pass1Succeeds
<1>10. CASE CastSpeaker
  <2>1. StoreTypeOK'
    BY <1>10 DEF CastSpeaker, StoreTypeOK, EngineTypeOK, chapterVars, noteVars, bufferVars
  <2> QED
    BY <1>0, <1>10, <2>1, UnchangedType DEF CastSpeaker
<1>11. CASE Pass2Succeeds
  <2>1. EngineTypeOK'
    BY <1>11 DEF Pass2Succeeds, EngineTypeOK, InCycle, Drained
  <2> QED
    BY <1>0, <1>11, <2>1, UnchangedType DEF Pass2Succeeds
<1>12. CASE InsertChapter
  <2>1. number \in Chapter
    BY <1>12 DEF InsertChapter, UnderWay, Contiguous, EngineTypeOK, Chapter
  <2>2. StoreTypeOK'
    BY <1>12, <2>1 DEF InsertChapter, StoreTypeOK, stateVars, noteVars, bufferVars
  <2>3. EngineTypeOK'
    BY <1>12 DEF InsertChapter, EngineTypeOK, cycleVars, InCycle, Drained, Publishing
  <2>4. HistoryTypeOK'
    BY <1>12, <2>1 DEF InsertChapter, HistoryTypeOK, EngineTypeOK
  <2> QED
    BY <1>0, <1>12, <2>2, <2>3, <2>4 DEF InsertChapter
<1>13. CASE RecordLore
  <2>1. extraction.lore \subseteq Subjects
    BY <1>13, StoryAssumption DEF RecordLore, EngineTypeOK, UnderWay
  <2>2. StoreTypeOK'
    BY <1>13, <2>1 DEF RecordLore, StoreTypeOK, chapterVars, noteVars, bufferVars
  <2> QED
    BY <1>0, <1>13, <2>2, UnchangedType DEF RecordLore
<1>14. CASE AppendDelta
  <2>1. EngineTypeOK'
    BY <1>14 DEF AppendDelta, EngineTypeOK
  <2>2. StoreTypeOK'
    <3> DEFINE d == extraction.deltas[next]
               row == [chapter |-> number, index |-> next, subject |-> d.subject,
                       status |-> Verdict(d)]
               Rows == [chapter : Chapter, index : Nat, subject : Subjects,
                        status : {"applied", "UnknownSubject", "rejected", "rewound"}]
    <3>1. /\ pc = "extract" /\ next \in 1..Len(extraction.deltas)
          /\ number \in Chapter
      BY <1>14 DEF AppendDelta, UnderWay, Publishing, EngineTypeOK, Chapter
    <3>2. d \in Delta
      BY <1>14, <3>1, StoryAssumption DEF UnderWay, EngineTypeOK
    <3>3. row \in Rows
      BY <3>1, <3>2 DEF Verdict, Delta, EngineTypeOK
    <3>4. ledger' = ledger \/ ledger' = ledger \cup {row}
      BY <1>14 DEF AppendDelta
    <3>5. ledger' \subseteq Rows
      <4> HIDE DEF row
      <4> QED
        BY <3>3, <3>4 DEF StoreTypeOK
    <3> QED
      BY <1>14, <3>5 DEF AppendDelta, StoreTypeOK, chapterVars, noteVars, bufferVars
  <2> QED
    BY <1>0, <1>14, <2>1, <2>2, UnchangedType DEF AppendDelta
<1>15. CASE PutSummary
  <2>1. number \in Chapter
    BY <1>15 DEF PutSummary, UnderWay, Publishing, EngineTypeOK, Chapter
  <2>2. StoreTypeOK'
    BY <1>15, <2>1 DEF PutSummary, StoreTypeOK, stateVars, noteVars, bufferVars
  <2>3. EngineTypeOK'
    BY <1>15 DEF PutSummary, EngineTypeOK, cycleVars, InCycle, Drained, Publishing
  <2> QED
    BY <1>0, <1>15, <2>2, <2>3, UnchangedType DEF PutSummary
<1>16. CASE RenderAndPublish
  <2>1. number \in Chapter
    BY <1>16 DEF RenderAndPublish, UnderWay, Publishing, EngineTypeOK, Chapter
  <2>2. StoreTypeOK'
    BY <1>16, <2>1 DEF RenderAndPublish, StoreTypeOK, stateVars, noteVars, bufferVars
  <2>3. EngineTypeOK'
    BY <1>16 DEF RenderAndPublish, EngineTypeOK, cycleVars, InCycle, Drained, Publishing
  <2>4. HistoryTypeOK'
    BY <1>16 DEF RenderAndPublish, HistoryTypeOK
  <2> QED
    BY <1>0, <1>16, <2>2, <2>3, <2>4 DEF RenderAndPublish
<1>17. CASE MarkNotesConsumed
  <2>1. EngineTypeOK'
    BY <1>17, ReturnType DEF MarkNotesConsumed, EngineTypeOK
  <2>2. StoreTypeOK'
    BY <1>17 DEF MarkNotesConsumed, StoreTypeOK, EngineTypeOK, chapterVars, stateVars,
                bufferVars
  <2> QED
    BY <1>0, <1>17, <2>1, <2>2, UnchangedType DEF MarkNotesConsumed
<1> QED
  BY <1>1, <1>2, <1>3, <1>4, <1>5, <1>6, <1>7, <1>8, <1>9, <1>10, <1>11, <1>12,
     <1>13, <1>14, <1>15, <1>16, <1>17 DEF Cycle

LEMMA RestType ==
  ASSUME TypeOK, UnderWay, Restart \/ Faults \/ Operator \/ TtsRecovers
  PROVE  TypeOK'
<1> USE DEF TypeOK
<1> DEFINE Rest == tts \in {"up", "down"} /\ faults \in Nat /\ orders \in Nat
<1>0. /\ UNCHANGED worldVars => Rest'
      /\ Fault /\ tts' \in {"up", "down"} => Rest'
      /\ Order => Rest'
  BY DEF worldVars, Fault, Order
<1>1. pc \in Publishing => number \in Chapter
  BY DEF UnderWay, EngineTypeOK, Chapter
<1>2. CASE Restart
  <2>1. EngineTypeOK'
    BY <1>2 DEF Restart, EngineTypeOK, cycleVars
  <2> QED
    BY <1>0, <1>2, <2>1, UnchangedType DEF Restart
<1>3. CASE Pass1Abandons
  <2>1. EngineTypeOK'
    BY <1>3, ReturnType DEF Pass1Abandons, EngineTypeOK
  <2> QED
    BY <1>0, <1>3, <2>1, UnchangedType DEF Pass1Abandons
<1>4. CASE Pass2Fails
  <2>1. EngineTypeOK'
    BY <1>4 DEF Pass2Fails, EngineTypeOK, InCycle, Drained
  <2> QED
    BY <1>0, <1>4, <2>1, UnchangedType DEF Pass2Fails
<1>5. CASE CycleFails
  <2>1. EngineTypeOK'
    BY <1>5, ReturnType DEF CycleFails, EngineTypeOK
  <2>2. HistoryTypeOK'
    BY <1>1, <1>5 DEF CycleFails, CutShort, HistoryTypeOK
  <2> QED
    BY <1>0, <1>5, <2>1, <2>2, UnchangedType DEF CycleFails
<1>6. CASE Crash
  <2>1. EngineTypeOK'
    BY <1>6, BoundsAssumption DEF Crash, EngineTypeOK
  <2>2. HistoryTypeOK'
    BY <1>1, <1>6 DEF Crash, CutShort, HistoryTypeOK
  <2> QED
    BY <1>0, <1>6, <2>1, <2>2, UnchangedType DEF Crash
<1>7. CASE TtsFails
  <2>1. HistoryTypeOK'
    BY <1>7 DEF TtsFails, HistoryTypeOK
  <2> QED
    BY <1>0, <1>7, <2>1, UnchangedType DEF TtsFails
<1>8. CASE TtsRecovers
  BY <1>0, <1>8, UnchangedType DEF TtsRecovers
<1>9. ASSUME NEW n \in Notes, PostNote(n) PROVE TypeOK'
  <2>1. StoreTypeOK'
    BY <1>9 DEF PostNote, StoreTypeOK, chapterVars, stateVars, bufferVars
  <2>2. HistoryTypeOK'
    BY <1>9, BoundsAssumption DEF PostNote, HistoryTypeOK, EngineTypeOK
  <2> QED
    BY <1>0, <1>9, <2>1, <2>2, UnchangedType DEF PostNote
<1>10. ASSUME NEW c \in 0..MaxChapters, Listen(c) PROVE TypeOK'
  <2>1. StoreTypeOK'
    BY <1>10 DEF Listen, StoreTypeOK, chapterVars, stateVars, noteVars
  <2> QED
    BY <1>0, <1>10, <2>1, UnchangedType DEF Listen
<1>11. ASSUME NEW t \in Targets, RecordTarget(t) PROVE TypeOK'
  <2>1. StoreTypeOK'
    BY <1>11 DEF RecordTarget, StoreTypeOK, chapterVars, stateVars, noteVars
  <2> QED
    BY <1>0, <1>11, <2>1, UnchangedType DEF RecordTarget
<1>12. ASSUME NEW c \in Chapter, RequestRender(c) PROVE TypeOK'
  <2>1. StoreTypeOK'
    BY <1>12 DEF RequestRender, StoreTypeOK, stateVars, noteVars, bufferVars
  <2>2. HistoryTypeOK'
    BY <1>12 DEF RequestRender, HistoryTypeOK
  <2> QED
    BY <1>0, <1>12, <2>1, <2>2, UnchangedType DEF RequestRender
<1>13. ASSUME NEW n \in 0..MaxChapters, Rewind(n) PROVE TypeOK'
  <2>1. StoreTypeOK'
    BY <1>13 DEF Rewind, StoreTypeOK, chapterVars, noteVars, bufferVars
  <2>2. HistoryTypeOK'
    BY <1>13 DEF Rewind, HistoryTypeOK, StoreTypeOK, chaptersSince
  <2> QED
    BY <1>0, <1>13, <2>1, <2>2, UnchangedType DEF Rewind
<1> QED
  BY <1>2, <1>3, <1>4, <1>5, <1>6, <1>7, <1>8, <1>9, <1>10, <1>11, <1>12, <1>13
     DEF Faults, Operator

-----------------------------------------------------------------------------
(* The notes.  Four steps matter: the drain, the insertion of the chapter, *)
(* its boundary, and the arrival of a note.  The others leave the notes    *)
(* and the prompts alone, and the lemmas sort them by the phase they end   *)
(* in: outside a chapter, still before its row, or after its row.          *)
Outside == {"idle", "down", "resume", "rerender", "measure", "decide"}
Before  == {"pass1", "cast", "insert"}

LEMMA CycleInvariantInit == Init => CycleInvariant
<1> SUFFICES ASSUME Init PROVE CycleInvariant
  OBVIOUS
<1>1. latest = 0
  BY DEF Init, latest, HighestOf
<1> QED
  BY <1>1 DEF Init, CycleInvariant, Contiguous, UnderWay, DrainedAreKnown, ToldBookkeeping,
     PromptCarriedItsNotes, NoteToldOnce, Publishing

LEMMA QuietStep ==
  ASSUME TypeOK, CycleInvariant,
         UNCHANGED <<chapters, posted, consumedBy, told, arrivedDuring>>,
         UNCHANGED <<cut, pc, number, notes, extraction>>
  PROVE  CycleInvariant'
BY DEF CycleInvariant, Contiguous, UnderWay, DrainedAreKnown, ToldBookkeeping,
   PromptCarriedItsNotes, NoteToldOnce, latest, pendingNotes

LEMMA OutsideStep ==
  ASSUME TypeOK, CycleInvariant,
         UNCHANGED <<chapters, posted, consumedBy, told, arrivedDuring>>,
         pc' \in Outside, pc' = "rerender" => number' \in chapters,
         CutShort
  PROVE  CycleInvariant'
<1>1. Contiguous' /\ UnderWay' /\ DrainedAreKnown'
  BY DEF CycleInvariant, Contiguous, UnderWay, DrainedAreKnown, latest, Outside, Publishing
<1>2. ToldBookkeeping'
  BY DEF CycleInvariant, ToldBookkeeping, CutShort
<1>3. PromptCarriedItsNotes' /\ NoteToldOnce'
  BY DEF CycleInvariant, PromptCarriedItsNotes, NoteToldOnce, CutShort
<1> QED
  BY <1>1, <1>2, <1>3 DEF CycleInvariant

LEMMA BeforeStep ==
  ASSUME TypeOK, CycleInvariant,
         UNCHANGED <<chapters, posted, consumedBy, told, arrivedDuring, cut>>,
         UNCHANGED <<number, notes>>, pc \in Before, pc' \in Before
  PROVE  CycleInvariant'
<1>1. Contiguous' /\ UnderWay' /\ DrainedAreKnown'
  BY DEF CycleInvariant, Contiguous, UnderWay, DrainedAreKnown, latest, Before, Publishing,
         pendingNotes
<1>2. ToldBookkeeping'
  BY DEF CycleInvariant, ToldBookkeeping, Before, Publishing
<1>3. PromptCarriedItsNotes' /\ NoteToldOnce'
  BY DEF CycleInvariant, PromptCarriedItsNotes, NoteToldOnce
<1> QED
  BY <1>1, <1>2, <1>3 DEF CycleInvariant

LEMMA AfterStep ==
  ASSUME TypeOK, CycleInvariant,
         UNCHANGED <<chapters, posted, consumedBy, told, arrivedDuring, cut>>,
         number' = number, pc \in Publishing, pc' \in {"render", "consume"}
  PROVE  CycleInvariant'
<1>1. Contiguous' /\ UnderWay' /\ DrainedAreKnown'
  BY DEF CycleInvariant, Contiguous, UnderWay, DrainedAreKnown, latest, Publishing,
         pendingNotes
<1>2. ToldBookkeeping'
  BY DEF CycleInvariant, ToldBookkeeping, Publishing
<1>3. PromptCarriedItsNotes' /\ NoteToldOnce'
  BY DEF CycleInvariant, PromptCarriedItsNotes, NoteToldOnce
<1> QED
  BY <1>1, <1>2, <1>3 DEF CycleInvariant

(* A new chapter is begun and its notes are drained.                       *)
LEMMA BeginChapter ==
  ASSUME TypeOK, CycleInvariant, BufferShort \/ DrainNotes
  PROVE  CycleInvariant'
<1>1. /\ UNCHANGED <<chapters, posted, consumedBy, told, arrivedDuring, cut, extraction>>
      /\ pc \in {"decide", "drain"} /\ pc' \in {"drain", "pass1"}
  BY DEF BufferShort, DrainNotes, storeVars, chapterVars, noteVars, historyVars
<1>2. Contiguous' /\ UnderWay'
  BY <1>1 DEF BufferShort, DrainNotes, CycleInvariant, Contiguous, UnderWay, latest,
              Publishing
<1>3. DrainedAreKnown'
  BY <1>1 DEF BufferShort, DrainNotes, DrainedAreKnown, pendingNotes, Publishing
<1>4. ToldBookkeeping'
  BY <1>1 DEF CycleInvariant, ToldBookkeeping, Publishing
<1>5. PromptCarriedItsNotes' /\ NoteToldOnce'
  BY <1>1 DEF CycleInvariant, PromptCarriedItsNotes, NoteToldOnce
<1> QED
  BY <1>2, <1>3, <1>4, <1>5 DEF CycleInvariant

(* The row is written: what the prompt carried becomes history.  The notes *)
(* it shares with an earlier prompt are pending, so that chapter was cut.  *)
LEMMA InsertKeeps ==
  ASSUME TypeOK, CycleInvariant, InsertChapter
  PROVE  CycleInvariant'
<1> USE DEF TypeOK
<1>1. /\ latest \in Nat /\ chapters = 1..latest /\ number = latest + 1
      /\ number \in Chapter /\ number \notin chapters
  BY DEF InsertChapter, CycleInvariant, Contiguous, UnderWay, EngineTypeOK, Chapter
<1>2. chapters' = 1..(latest + 1)
  BY <1>1 DEF InsertChapter
<1>3. latest' = latest + 1
  BY <1>1, <1>2, HighestOfInterval DEF latest
<1>4. UNCHANGED <<posted, consumedBy, arrivedDuring, cut, number, notes, extraction>>
  BY DEF InsertChapter, noteVars, cycleVars
<1>5. /\ told'[number] = notes /\ told[number] = {}
      /\ \A c \in Chapter : c # number => told'[c] = told[c]
  BY <1>1 DEF InsertChapter, HistoryTypeOK, CycleInvariant, ToldBookkeeping
<1>6. /\ pc = "insert" /\ pc' \in {"extract", "render"}
      /\ pc' = "extract" => extraction' # NoExtraction
  BY <1>4 DEF InsertChapter
<1>7. /\ notes \subseteq pendingNotes
      /\ \A n \in pendingNotes \ notes : arrivedDuring[n] = number
  BY <1>6 DEF CycleInvariant, DrainedAreKnown
<1>8. Contiguous' /\ UnderWay'
  BY <1>1, <1>2, <1>3, <1>4, <1>6 DEF Contiguous, UnderWay, Publishing
<1>9. DrainedAreKnown'
  BY <1>4, <1>5, <1>6, <1>7 DEF DrainedAreKnown, pendingNotes, Publishing
<1>10. ToldBookkeeping'
  <2>1. /\ \A c \in Chapter \ chapters' : told'[c] = {}
        /\ \A c \in Chapter : told'[c] \subseteq posted'
    BY <1>1, <1>2, <1>4, <1>5, <1>7 DEF CycleInvariant, ToldBookkeeping, pendingNotes
  <2>2. ASSUME NEW c \in Chapter, NEW n \in told'[c], consumedBy'[n] = 0
        PROVE  c \in cut' \/ (pc' \in Publishing /\ c = number')
    BY <1>4, <1>5, <1>6, <2>2 DEF CycleInvariant, ToldBookkeeping, Publishing
  <2>3. \A n \in Notes : consumedBy'[n] # 0 => n \in posted' /\ consumedBy'[n] \in chapters'
    BY <1>1, <1>2, <1>4 DEF CycleInvariant, ToldBookkeeping
  <2> QED
    BY <2>1, <2>2, <2>3 DEF ToldBookkeeping
<1>11. PromptCarriedItsNotes'
  <2>1. \A n \in Notes : consumedBy[n] # 0 =>
          consumedBy[n] \in Chapter /\ told'[consumedBy[n]] = told[consumedBy[n]]
    BY <1>1, <1>5 DEF CycleInvariant, ToldBookkeeping, StoreTypeOK
  <2> QED
    BY <1>4, <2>1 DEF CycleInvariant, PromptCarriedItsNotes
<1>12. NoteToldOnce'
  <2> SUFFICES ASSUME NEW c \in Chapter, NEW d \in Chapter, c < d,
                      NEW n \in told'[c], n \in told'[d]
               PROVE  c \in cut
    BY <1>4 DEF NoteToldOnce
  <2>1. CASE d = number
    <3>1. n \in notes /\ consumedBy[n] = 0
      BY <1>5, <1>7, <2>1 DEF pendingNotes
    <3>2. c # number /\ n \in told[c]
      BY <1>5, <2>1 DEF Chapter
    <3> QED
      BY <1>6, <3>1, <3>2 DEF CycleInvariant, ToldBookkeeping, Publishing
  <2>2. CASE c = number
    <3>1. d \notin chapters /\ d # number
      BY <1>1, <2>2 DEF Chapter
    <3> QED
      BY <1>5, <3>1 DEF CycleInvariant, ToldBookkeeping
  <2>3. CASE c # number /\ d # number
    BY <1>5, <2>3 DEF CycleInvariant, NoteToldOnce
  <2> QED
    BY <2>1, <2>2, <2>3
<1> QED
  BY <1>8, <1>9, <1>10, <1>11, <1>12 DEF CycleInvariant

(* The boundary: what is pending there was in the prompt or arrived since. *)
LEMMA BoundaryKeeps ==
  ASSUME TypeOK, CycleInvariant, MarkNotesConsumed
  PROVE  CycleInvariant'
<1> USE DEF TypeOK
<1>1. /\ UNCHANGED <<chapters, posted, told, arrivedDuring, cut>>
      /\ pc = "consume" /\ pc' = "idle" /\ number' = 0
  BY DEF MarkNotesConsumed, Return, chapterVars, historyVars
<1>2. number \in chapters
  BY <1>1 DEF CycleInvariant, UnderWay, Contiguous, Publishing, EngineTypeOK
<1>3. \A n \in Notes :
        consumedBy'[n] = IF n \in pendingNotes THEN number ELSE consumedBy[n]
  BY DEF MarkNotesConsumed
<1>4. Contiguous' /\ UnderWay' /\ DrainedAreKnown'
  BY <1>1 DEF CycleInvariant, Contiguous, UnderWay, DrainedAreKnown, latest, Publishing
<1>5. number # 0 /\ pendingNotes = {n \in posted : consumedBy[n] = 0}
  BY <1>1 DEF CycleInvariant, UnderWay, Publishing, pendingNotes
<1>6. ToldBookkeeping'
  <2>1. /\ \A c \in Chapter \ chapters' : told'[c] = {}
        /\ \A c \in Chapter : told'[c] \subseteq posted'
    BY <1>1 DEF CycleInvariant, ToldBookkeeping
  <2>2. ASSUME NEW c \in Chapter, NEW n \in told'[c], consumedBy'[n] = 0
        PROVE  c \in cut'
    <3>1. consumedBy[n] = 0 /\ n \notin pendingNotes
      BY <1>1, <1>3, <1>5, <2>2 DEF HistoryTypeOK
    <3>2. n \in posted
      BY <1>1, <2>2 DEF CycleInvariant, ToldBookkeeping
    <3> QED
      BY <1>5, <3>1, <3>2
  <2>3. \A n \in Notes : consumedBy'[n] # 0 => n \in posted' /\ consumedBy'[n] \in chapters'
    BY <1>1, <1>2, <1>3, <1>5 DEF CycleInvariant, ToldBookkeeping
  <2> QED
    BY <2>1, <2>2, <2>3 DEF ToldBookkeeping
<1>7. PromptCarriedItsNotes'
  BY <1>1, <1>3 DEF CycleInvariant, PromptCarriedItsNotes, DrainedAreKnown, Publishing
<1>8. NoteToldOnce'
  BY <1>1 DEF CycleInvariant, NoteToldOnce
<1> QED
  BY <1>4, <1>6, <1>7, <1>8 DEF CycleInvariant

(* A note arrives: it is new, so no prompt carries it and no chapter has   *)
(* consumed it; if a chapter is under way, it arrived during that chapter. *)
LEMMA ArrivalKeeps ==
  ASSUME TypeOK, CycleInvariant, NEW n \in Notes, PostNote(n)
  PROVE  CycleInvariant'
<1> USE DEF TypeOK
<1>1. /\ UNCHANGED <<chapters, consumedBy, told, cut, pc, number, notes, extraction>>
      /\ posted' = posted \cup {n} /\ n \notin posted /\ consumedBy[n] = 0
  BY DEF PostNote, chapterVars, engineVars, cycleVars, CycleInvariant, ToldBookkeeping
<1>2. /\ \A m \in Notes : m # n => arrivedDuring'[m] = arrivedDuring[m]
      /\ pc \in Drained => arrivedDuring'[n] = number
  BY DEF PostNote, HistoryTypeOK
<1>3. Contiguous' /\ UnderWay'
  BY <1>1 DEF CycleInvariant, Contiguous, UnderWay, latest
<1>4. DrainedAreKnown'
  <2>1. pendingNotes' = pendingNotes \cup {n} /\ pendingNotes \subseteq Notes
    BY <1>1 DEF pendingNotes, StoreTypeOK
  <2> QED
    BY <1>1, <1>2, <2>1 DEF CycleInvariant, DrainedAreKnown, Drained
<1>5. ToldBookkeeping'
  BY <1>1 DEF CycleInvariant, ToldBookkeeping
<1>6. PromptCarriedItsNotes'
  BY <1>1, <1>2 DEF CycleInvariant, PromptCarriedItsNotes
<1>7. NoteToldOnce'
  BY <1>1 DEF CycleInvariant, NoteToldOnce
<1> QED
  BY <1>3, <1>4, <1>5, <1>6, <1>7 DEF CycleInvariant

LEMMA CycleKeeps ==
  ASSUME TypeOK, CycleInvariant, Cycle
  PROVE  CycleInvariant'
<1> USE DEF storeVars, chapterVars, noteVars, engineVars, cycleVars, historyVars, Outside,
            Before, Publishing
<1>1. CASE BeginCycle
  BY <1>1, OutsideStep DEF BeginCycle, CutShort
<1>2. CASE PickResumable
  BY <1>2, OutsideStep DEF PickResumable, CutShort, resumable
<1>3. CASE ResumeSucceeds
  BY <1>3, OutsideStep DEF ResumeSucceeds, CutShort, Return
<1>4. CASE ResumeFails
  BY <1>4, OutsideStep DEF ResumeFails, CutShort
<1>5. CASE MeasureBuffer
  BY <1>5, OutsideStep DEF MeasureBuffer, CutShort
<1>6. CASE BufferFull
  BY <1>6, OutsideStep DEF BufferFull, CutShort, Return
<1>7. CASE BufferShort
  BY <1>7, BeginChapter
<1>8. CASE DrainNotes
  BY <1>8, BeginChapter
<1>9. CASE Pass1Succeeds
  BY <1>9, BeforeStep DEF Pass1Succeeds
<1>10. CASE CastSpeaker
  BY <1>10, QuietStep DEF CastSpeaker
<1>11. CASE Pass2Succeeds
  BY <1>11, BeforeStep DEF Pass2Succeeds
<1>12. CASE InsertChapter
  BY <1>12, InsertKeeps
<1>13. CASE RecordLore
  BY <1>13, QuietStep DEF RecordLore
<1>14. CASE AppendDelta
  BY <1>14, QuietStep DEF AppendDelta
<1>15. CASE PutSummary
  BY <1>15, AfterStep DEF PutSummary
<1>16. CASE RenderAndPublish
  BY <1>16, AfterStep DEF RenderAndPublish
<1>17. CASE MarkNotesConsumed
  BY <1>17, BoundaryKeeps
<1> QED
  BY <1>1, <1>2, <1>3, <1>4, <1>5, <1>6, <1>7, <1>8, <1>9, <1>10, <1>11, <1>12,
     <1>13, <1>14, <1>15, <1>16, <1>17 DEF Cycle

LEMMA RestKeeps ==
  ASSUME TypeOK, CycleInvariant, Restart \/ Faults \/ Operator \/ TtsRecovers
  PROVE  CycleInvariant'
<1> USE DEF storeVars, chapterVars, noteVars, engineVars, cycleVars, historyVars, Outside,
            Before, Publishing
<1>1. CASE Restart
  BY <1>1, OutsideStep DEF Restart, CutShort
<1>2. CASE Pass1Abandons
  BY <1>2, OutsideStep DEF Pass1Abandons, CutShort, Return
<1>3. CASE Pass2Fails
  BY <1>3, BeforeStep DEF Pass2Fails
<1>4. CASE CycleFails
  BY <1>4, OutsideStep DEF CycleFails, Return
<1>5. CASE Crash
  BY <1>5, OutsideStep DEF Crash
<1>6. CASE TtsFails
  BY <1>6, QuietStep DEF TtsFails
<1>7. CASE TtsRecovers
  BY <1>7, QuietStep DEF TtsRecovers
<1>8. ASSUME NEW n \in Notes, PostNote(n) PROVE CycleInvariant'
  BY <1>8, ArrivalKeeps
<1>9. ASSUME NEW c, Listen(c) \/ RecordTarget(c) \/ RequestRender(c) \/ Rewind(c)
      PROVE  CycleInvariant'
  BY <1>9, QuietStep DEF Listen, RecordTarget, RequestRender, Rewind
<1> QED
  BY <1>1, <1>2, <1>3, <1>4, <1>5, <1>6, <1>7, <1>8, <1>9 DEF Faults, Operator

-----------------------------------------------------------------------------
LEMMA StepKeeps ==
  ASSUME TypeOK, CycleInvariant, [Next]_vars
  PROVE  TypeOK' /\ CycleInvariant'
<1>1. CASE Cycle
  BY <1>1, CycleType, CycleKeeps DEF CycleInvariant
<1>2. CASE Restart \/ Faults \/ Operator \/ TtsRecovers
  BY <1>2, RestType, RestKeeps DEF CycleInvariant
<1>3. CASE UNCHANGED vars
  BY <1>3, UnchangedType, QuietStep
     DEF vars, TypeOK, storeVars, chapterVars, noteVars, engineVars, cycleVars, worldVars,
         historyVars
<1> QED
  BY <1>1, <1>2, <1>3 DEF Next

(* The variables keep their types, and the bookkeeping of chapters, notes  *)
(* and prompts holds at every step of every cycle: rows contiguous, the    *)
(* chapter under way the next one, every pending note accounted for.       *)
THEOREM TypesAndBookkeeping == Spec => [](TypeOK /\ CycleInvariant)
<1>1. Init => TypeOK /\ CycleInvariant
  BY InitType, CycleInvariantInit
<1>2. TypeOK /\ CycleInvariant /\ [Next]_vars => (TypeOK /\ CycleInvariant)'
  BY StepKeeps
<1> QED
  BY <1>1, <1>2, PTL DEF Spec

(* Every variable keeps its type.                                          *)
THEOREM TypeCorrect == Spec => []TypeOK
BY TypesAndBookkeeping, PTL

(* mark_notes_consumed stamps a note only with a chapter whose prompt      *)
(* carried it or during which it arrived, whatever crashes in between.     *)
THEOREM StampsAreEarned == Spec => []PromptCarriedItsNotes
<1>1. CycleInvariant => PromptCarriedItsNotes
  BY DEF CycleInvariant
<1> QED
  BY <1>1, TypesAndBookkeeping, PTL

(* A note reaches a second prompt only after a cycle that was cut short    *)
(* between insert_chapter and mark_notes_consumed.                         *)
THEOREM NotesSteerOnce == Spec => []NoteToldOnce
<1>1. CycleInvariant => NoteToldOnce
  BY DEF CycleInvariant
<1> QED
  BY <1>1, TypesAndBookkeeping, PTL

-----------------------------------------------------------------------------
(* What pass 2 found.  A delta that reached the gate has a row; while they *)
(* are recorded, those before the next one do; the cycle goes on with the  *)
(* extraction the chapter was written with, from its first delta.          *)
Kept(c, d, i) == d.gate = "discard" \/ \E r \in ledger : r.chapter = c /\ r.index = i

Recording ==
  /\ CleanChaptersComplete
  /\ pc = "extract" =>
       /\ extracted[number] = extraction
       /\ \A i \in 1..Len(extraction.deltas) : i < next => Kept(number, extraction.deltas[i], i)
  /\ pc \notin Publishing => next = 1

(* No row goes away, although its verdict may change.                      *)
RowsStay ==
  \A r \in ledger : \E q \in ledger' : q.chapter = r.chapter /\ q.index = r.index

(* What is complete stays so.                                              *)
LEMMA StaysComplete ==
  ASSUME RowsStay, UNCHANGED extracted, NEW c, c \in summarised => c \in summarised',
         CompleteState(c)
  PROVE  CompleteState(c)'
BY DEF CompleteState, RowsStay

(* Nothing is written yet.                                                 *)
LEMMA InitRecords == Init => Recording
BY DEF Init, Recording, CleanChaptersComplete, Publishing

(* A step that is not about the state of the story.                        *)
LEMMA RecordingQuiet ==
  ASSUME Recording, RowsStay,
         UNCHANGED <<chapters, dirty, summarised, extracted, pc, number, extraction, next, cut>>
  PROVE  Recording'
<1>1. CleanChaptersComplete'
  <2> SUFFICES ASSUME NEW c \in chapters \ (dirty \cup cut), ~(InFlight(c) /\ pc = "extract")
               PROVE  CompleteState(c)'
    BY DEF CleanChaptersComplete, InFlight
  <2>1. CompleteState(c)
    BY DEF Recording, CleanChaptersComplete
  <2> QED
    BY <2>1, StaysComplete
<1>2. ASSUME pc = "extract", NEW i \in 1..Len(extraction.deltas), i < next
      PROVE  Kept(number, extraction.deltas[i], i)'
  <2>1. Kept(number, extraction.deltas[i], i)
    BY <1>2 DEF Recording
  <2> QED
    BY <2>1 DEF Kept, RowsStay
<1> QED
  BY <1>1, <1>2 DEF Recording

(* A step that does not end in the recording, and cuts the chapter short   *)
(* when it began there.                                                    *)
LEMMA RecordingLeft ==
  ASSUME Recording, RowsStay, UNCHANGED <<chapters, dirty, summarised, extracted>>,
         pc' # "extract", pc' \in Publishing \/ next' = 1,
         CutShort \/ (pc # "extract" /\ UNCHANGED cut)
  PROVE  Recording'
<1>1. CleanChaptersComplete'
  <2> SUFFICES ASSUME NEW c \in chapters \ (dirty \cup cut') PROVE CompleteState(c)'
    BY DEF CleanChaptersComplete
  <2>1. c \notin cut /\ ~(InFlight(c) /\ pc = "extract")
    BY DEF CutShort, InFlight
  <2>2. CompleteState(c)
    BY <2>1 DEF Recording, CleanChaptersComplete
  <2> QED
    BY <2>2, StaysComplete
<1> QED
  BY <1>1 DEF Recording

(* The chapter's row is written with its extraction, or as state_dirty.    *)
LEMMA InsertRecords ==
  ASSUME TypeOK, CycleInvariant, Recording, InsertChapter
  PROVE  Recording'
<1>1. /\ pc = "insert" /\ chapters' = chapters \cup {number} /\ number \notin chapters
      /\ dirty' = IF extraction = NoExtraction THEN dirty \cup {number} ELSE dirty
      /\ pc' = IF extraction = NoExtraction THEN "render" ELSE "extract"
      /\ extracted' = [extracted EXCEPT ![number] = extraction]
      /\ UNCHANGED <<ledger, summarised, number, extraction, next, cut>>
  BY DEF InsertChapter, chapterVars, stateVars, cycleVars
<1>2. number \in Chapter /\ extracted \in [Chapter -> Extractions \cup {NoExtraction}]
  <2>1. number = latest + 1 /\ latest \in Nat
    BY <1>1 DEF CycleInvariant, Contiguous, UnderWay
  <2> QED
    BY <2>1 DEF TypeOK, EngineTypeOK, HistoryTypeOK, Chapter
<1>3. next = 1
  BY <1>1 DEF Recording, Publishing
<1>4. extracted'[number] = extraction /\ \A c \in Chapter : c # number => extracted'[c] = extracted[c]
  BY <1>1, <1>2
<1>5. CleanChaptersComplete'
  <2> SUFFICES ASSUME NEW c \in chapters' \ (dirty' \cup cut),
                      ~(InFlight(c)' /\ pc' = "extract")
               PROVE  CompleteState(c)'
    BY <1>1 DEF CleanChaptersComplete
  <2>1. c # number
    BY <1>1 DEF InFlight, Publishing
  <2>2. c \in chapters /\ c \notin dirty /\ ~(InFlight(c) /\ pc = "extract")
    BY <1>1, <2>1
  <2>3. CompleteState(c)
    BY <2>2 DEF Recording, CleanChaptersComplete
  <2>4. c \in Chapter
    BY <2>2 DEF TypeOK, StoreTypeOK
  <2>5. extracted'[c] = extracted[c]
    BY <1>4, <2>1, <2>4
  <2> QED
    BY <1>1, <2>3, <2>5 DEF CompleteState
<1>6. \A i \in 1..Len(extraction'.deltas) : ~(i < next')
  BY <1>1, <1>3
<1> QED
  BY <1>1, <1>4, <1>5, <1>6 DEF Recording, Publishing

(* The next delta gets its row, or is dropped before the gate.             *)
LEMMA AppendRecords ==
  ASSUME TypeOK, CycleInvariant, Recording, AppendDelta
  PROVE  Recording'
<1> DEFINE d == extraction.deltas[next]
           row == [chapter |-> number, index |-> next, subject |-> d.subject, status |-> Verdict(d)]
<1>1. /\ pc = "extract" /\ next <= Len(extraction.deltas) /\ next' = next + 1
      /\ ledger' = IF d.gate = "discard" THEN ledger ELSE ledger \cup {row}
      /\ UNCHANGED <<chapters, dirty, summarised, extracted, pc, number, extraction, cut>>
  BY DEF AppendDelta, chapterVars, historyVars
<1>2. RowsStay
  BY <1>1 DEF RowsStay
<1>3. d.gate = "discard" \/ \E r \in ledger' : r.chapter = number /\ r.index = next
  <2>1. row.chapter = number /\ row.index = next
    OBVIOUS
  <2> HIDE DEF row
  <2> QED
    BY <1>1, <2>1
<1>4. CleanChaptersComplete'
  <2> SUFFICES ASSUME NEW c \in chapters \ (dirty \cup cut), ~(InFlight(c) /\ pc = "extract")
               PROVE  CompleteState(c)'
    BY <1>1 DEF CleanChaptersComplete, InFlight
  <2>1. CompleteState(c)
    BY DEF Recording, CleanChaptersComplete
  <2> QED
    BY <1>1, <1>2, <2>1, StaysComplete
<1>5. ASSUME NEW i \in 1..Len(extraction.deltas), i < next + 1
      PROVE  Kept(number, extraction.deltas[i], i)'
  <2>1. next \in Nat
    BY DEF TypeOK, EngineTypeOK
  <2>2. CASE i = next
    <3>1. extraction' = extraction /\ number' = number
      BY <1>1
    <3> QED
      BY <1>3, <2>2, <3>1 DEF Kept
  <2>3. CASE i # next
    <3>1. i < next
      BY <1>5, <2>1, <2>3
    <3>2. Kept(number, extraction.deltas[i], i)
      BY <1>1, <3>1 DEF Recording
    <3> QED
      BY <1>1, <1>2, <3>2 DEF Kept, RowsStay
  <2> QED
    BY <2>2, <2>3
<1> HIDE DEF d, row
<1> QED
  BY <1>1, <1>4, <1>5 DEF Recording, Publishing

(* All deltas are recorded when the summary is put.                        *)
LEMMA SummaryRecords ==
  ASSUME TypeOK, CycleInvariant, Recording, PutSummary
  PROVE  Recording'
<1>1. /\ pc = "extract" /\ next > Len(extraction.deltas) /\ pc' = "render"
      /\ summarised' = summarised \cup {number}
      /\ UNCHANGED <<chapters, dirty, ledger, extracted, number, extraction, next, cut>>
  BY DEF PutSummary, stateVars, cycleVars, historyVars
<1>2. RowsStay
  BY <1>1 DEF RowsStay
<1>3. CompleteState(number)'
  <2>1. extracted[number] = extraction
        /\ \A i \in 1..Len(extraction.deltas) : i < next => Kept(number, extraction.deltas[i], i)
    BY <1>1 DEF Recording
  <2>2. extraction \in [lore : SUBSET Subjects, deltas : Seq(Delta)]
    BY <1>1, StoryAssumption DEF TypeOK, EngineTypeOK, CycleInvariant, UnderWay
  <2>3. Len(extraction.deltas) \in Nat /\ next \in Nat
    BY <2>2 DEF TypeOK, EngineTypeOK
  <2>4. \A i \in 1..Len(extraction.deltas) : Kept(number, extraction.deltas[i], i)
    BY <1>1, <2>1, <2>3
  <2> QED
    BY <1>1, <2>1, <2>4 DEF CompleteState, Kept
<1>4. CleanChaptersComplete'
  <2> SUFFICES ASSUME NEW c \in chapters \ (dirty \cup cut) PROVE CompleteState(c)'
    BY <1>1 DEF CleanChaptersComplete
  <2>1. CASE c = number
    BY <1>1, <1>3, <2>1
  <2>2. CASE c # number
    <3>1. CompleteState(c)
      BY <2>2 DEF Recording, CleanChaptersComplete, InFlight
    <3> QED
      BY <1>1, <1>2, <3>1, StaysComplete
  <2> QED
    BY <2>1, <2>2
<1> QED
  BY <1>1, <1>4 DEF Recording, Publishing

(* `litrpg rewind` changes verdicts, never what a row is about.            *)
LEMMA RewindRecords ==
  ASSUME TypeOK, Recording, NEW n, Rewind(n)
  PROVE  Recording'
<1>1. /\ ledger' = {IF r.chapter > n /\ r.status = "applied"
                    THEN [r EXCEPT !.status = "rewound"] ELSE r : r \in ledger}
      /\ UNCHANGED <<chapters, dirty, summarised, extracted, pc, number, extraction, next, cut>>
  BY DEF Rewind, chapterVars, engineVars, cycleVars
<1>2. RowsStay
  <2> SUFFICES ASSUME NEW r \in ledger
               PROVE  \E q \in ledger' : q.chapter = r.chapter /\ q.index = r.index
    BY DEF RowsStay
  <2> DEFINE q == IF r.chapter > n /\ r.status = "applied" THEN [r EXCEPT !.status = "rewound"] ELSE r
  <2>1. q \in ledger'
    BY <1>1
  <2>2. q.chapter = r.chapter /\ q.index = r.index
    BY DEF TypeOK, StoreTypeOK
  <2> QED
    BY <2>1, <2>2
<1> QED
  BY <1>1, <1>2, RecordingQuiet

(* Every step keeps it.                                                    *)
LEMMA StepRecords ==
  ASSUME TypeOK, CycleInvariant, Recording, [Next]_vars
  PROVE  Recording'
<1> USE DEF storeVars, chapterVars, stateVars, noteVars, engineVars, cycleVars, historyVars,
            Publishing
<1>0. UNCHANGED ledger => RowsStay
  BY DEF RowsStay
<1>1. CASE BeginCycle \/ PickResumable \/ MeasureBuffer \/ BufferShort \/ DrainNotes \/ Restart
  BY <1>0, <1>1, RecordingLeft
     DEF Recording, BeginCycle, PickResumable, MeasureBuffer, BufferShort, DrainNotes, Restart
<1>2. CASE ResumeSucceeds \/ ResumeFails \/ BufferFull \/ Pass1Abandons
  BY <1>0, <1>2, RecordingLeft
     DEF Recording, ResumeSucceeds, ResumeFails, BufferFull, Pass1Abandons, Return
<1>3. CASE Pass1Succeeds \/ Pass2Succeeds \/ Pass2Fails
  BY <1>0, <1>3, RecordingLeft DEF Recording, Pass1Succeeds, Pass2Succeeds, Pass2Fails
<1>4. CASE RenderAndPublish \/ MarkNotesConsumed
  BY <1>0, <1>4, RecordingLeft DEF Recording, RenderAndPublish, MarkNotesConsumed, Return
<1>5. CASE CycleFails \/ Crash
  BY <1>0, <1>5, RecordingLeft DEF CycleFails, Crash, Return
<1>6. CASE CastSpeaker \/ RecordLore \/ TtsFails \/ TtsRecovers
  BY <1>0, <1>6, RecordingQuiet DEF CastSpeaker, RecordLore, TtsFails, TtsRecovers
<1>7. ASSUME NEW n, PostNote(n) \/ Listen(n) \/ RecordTarget(n) \/ RequestRender(n)
      PROVE  Recording'
  BY <1>0, <1>7, RecordingQuiet DEF PostNote, Listen, RecordTarget, RequestRender
<1>8. CASE InsertChapter \/ AppendDelta \/ PutSummary
  BY <1>8, InsertRecords, AppendRecords, SummaryRecords
<1>9. CASE UNCHANGED vars
  BY <1>0, <1>9, RecordingQuiet DEF vars
<1>10. CASE Cycle \/ Restart \/ Faults \/ TtsRecovers
  BY <1>1, <1>2, <1>3, <1>4, <1>5, <1>6, <1>8, <1>10 DEF Cycle, Faults
<1>11. CASE Operator
  BY <1>7, <1>11, RewindRecords DEF Operator
<1> QED
  BY <1>9, <1>10, <1>11 DEF Next

(* A chapter that is neither state_dirty nor cut short has its summary and *)
(* a ledger row for every delta that reached the gate, whatever rewinds,   *)
(* crashes and other commands came since: nothing pass 2 found of it is    *)
(* lost in silence.                                                        *)
THEOREM CleanChaptersAreComplete == Spec => []CleanChaptersComplete
<1>1. Init => Recording
  BY InitRecords
<1>2. TypeOK /\ CycleInvariant /\ Recording /\ [Next]_vars => Recording'
  BY StepRecords
<1>3. Recording => CleanChaptersComplete
  BY DEF Recording
<1> QED
  BY <1>1, <1>2, <1>3, TypesAndBookkeeping, PTL DEF Spec

-----------------------------------------------------------------------------
(* The loop implements the serial.                                         *)

Boundary == IF pc \in Publishing THEN number ELSE 0

(* What the readers of the serial see.                                     *)
seen == <<latest, hasAudio, posted, consumedBy, Boundary>>

LEMMA SeenStutters ==
  ASSUME UNCHANGED seen
  PROVE  UNCHANGED Promise!serialVars
BY DEF seen, Boundary, Promise!serialVars

LEMMA InitIsSerial == Init => Promise!SerialInit
<1> SUFFICES ASSUME Init PROVE Promise!SerialInit
  OBVIOUS
<1>1. latest = 0
  BY DEF Init, latest, HighestOf
<1> QED
  BY <1>1 DEF Init, Promise!SerialInit, Publishing

(* The cycle ends, with or without a chapter on its way.                   *)
LEMMA EndIsSerial ==
  ASSUME TypeOK, CycleInvariant, UNCHANGED <<chapters, hasAudio, posted, consumedBy>>,
         pc' \notin Publishing
  PROVE  Promise!Lapse \/ UNCHANGED Promise!serialVars
<1>1. latest' = latest /\ Boundary' = 0
  BY DEF latest, Boundary
<1>2. CASE Boundary = 0
  BY <1>1, <1>2, SeenStutters DEF seen
<1>3. CASE Boundary # 0
  BY <1>1, <1>3 DEF Promise!Lapse, Boundary, Publishing
<1> QED
  BY <1>2, <1>3

(* The chapter row is written.                                             *)
LEMMA InsertIsSerial ==
  ASSUME TypeOK, CycleInvariant, InsertChapter
  PROVE  Promise!Publish
<1>1. /\ latest \in Nat /\ chapters = 1..latest /\ number = latest + 1
      /\ number \in 0..MaxChapters /\ MaxChapters \in Nat
  BY BoundsAssumption DEF InsertChapter, CycleInvariant, Contiguous, UnderWay, TypeOK, EngineTypeOK
<1>2. chapters' = 1..(latest + 1)
  BY <1>1 DEF InsertChapter
<1>3. latest' = latest + 1
  BY <1>1, <1>2, HighestOfInterval DEF latest
<1>4. Boundary = 0 /\ Boundary' = latest + 1
  BY <1>1 DEF InsertChapter, Boundary, Publishing, cycleVars
<1> QED
  BY <1>1, <1>3, <1>4 DEF InsertChapter, Promise!Publish, Boundary, noteVars

(* Audio comes, at the end of the cycle or for an older chapter.           *)
LEMMA VoiceIsSerial ==
  ASSUME TypeOK, CycleInvariant, ResumeSucceeds \/ RenderAndPublish
  PROVE  Promise!Voice \/ UNCHANGED Promise!serialVars
<1>1. number \in 1..latest
  BY DEF CycleInvariant, UnderWay, Contiguous, ResumeSucceeds, RenderAndPublish, Publishing
<1>2. latest' = latest /\ UNCHANGED <<posted, consumedBy>> /\ Boundary' = Boundary
  BY DEF ResumeSucceeds, RenderAndPublish, Return, latest, Boundary, Publishing, noteVars, cycleVars
<1>3. hasAudio' = hasAudio \cup {number} \/ hasAudio' = hasAudio
  BY DEF ResumeSucceeds, RenderAndPublish
<1>4. CASE hasAudio' = hasAudio
  BY <1>2, <1>4, SeenStutters DEF seen
<1>5. CASE hasAudio' = hasAudio \cup {number} /\ number \notin hasAudio
  BY <1>1, <1>2, <1>5 DEF Promise!Voice, Boundary
<1> QED
  BY <1>3, <1>4, <1>5

(* The boundary of the chapter stamps the notes.                           *)
LEMMA BoundaryIsSerial ==
  ASSUME TypeOK, CycleInvariant, MarkNotesConsumed
  PROVE  Promise!Consume
<1>1. Boundary = number /\ number # 0 /\ Boundary' = 0
  BY DEF MarkNotesConsumed, Return, Boundary, Publishing, CycleInvariant, UnderWay
<1>2. latest' = latest /\ UNCHANGED <<hasAudio, posted>>
  BY DEF MarkNotesConsumed, latest, chapterVars
<1>3. consumedBy' = [n \in Notes |-> IF n \in posted /\ consumedBy[n] = 0 THEN Boundary
                                     ELSE consumedBy[n]]
  BY <1>1 DEF MarkNotesConsumed, pendingNotes
<1> QED
  BY <1>1, <1>2, <1>3 DEF Promise!Consume, Boundary

LEMMA CycleIsSerial ==
  ASSUME TypeOK, CycleInvariant, Cycle
  PROVE  [Promise!SerialNext]_(Promise!serialVars)
<1> USE DEF storeVars, chapterVars, noteVars, engineVars, cycleVars
<1>1. CASE ResumeSucceeds \/ RenderAndPublish
  BY <1>1, VoiceIsSerial DEF Promise!SerialNext
<1>2. CASE InsertChapter
  BY <1>2, InsertIsSerial DEF Promise!SerialNext
<1>3. CASE MarkNotesConsumed
  BY <1>3, BoundaryIsSerial DEF Promise!SerialNext
<1>4. CASE RecordLore \/ AppendDelta \/ PutSummary
  <2>1. UNCHANGED <<chapters, hasAudio, posted, consumedBy, number>>
        /\ pc \in Publishing /\ pc' \in Publishing
    BY <1>4 DEF RecordLore, AppendDelta, PutSummary, Publishing
  <2>2. UNCHANGED seen
    BY <2>1 DEF seen, Boundary, latest
  <2> QED
    BY <2>2, SeenStutters
<1>5. CASE \/ BeginCycle \/ PickResumable \/ ResumeFails \/ MeasureBuffer \/ BufferFull
           \/ BufferShort \/ DrainNotes \/ Pass1Succeeds \/ CastSpeaker \/ Pass2Succeeds
  <2>1. UNCHANGED <<chapters, hasAudio, posted, consumedBy>>
    BY <1>5 DEF BeginCycle, PickResumable, ResumeFails, MeasureBuffer, BufferFull,
                BufferShort, DrainNotes, Pass1Succeeds, CastSpeaker, Pass2Succeeds
  <2>2. pc' \notin Publishing
    BY <1>5 DEF BeginCycle, PickResumable, ResumeFails, MeasureBuffer, BufferFull,
                BufferShort, DrainNotes, Pass1Succeeds, CastSpeaker, Pass2Succeeds,
                Return, Publishing
  <2> QED
    BY <2>1, <2>2, EndIsSerial DEF Promise!SerialNext
<1> QED
  BY <1>1, <1>2, <1>3, <1>4, <1>5 DEF Cycle

(* A note arrives, or a render is asked for.                               *)
LEMMA OperatorIsSerial ==
  ASSUME TypeOK, CycleInvariant, Operator
  PROVE  [Promise!SerialNext]_(Promise!serialVars)
<1> USE DEF storeVars, chapterVars, noteVars, bufferVars, engineVars, cycleVars
<1>1. UNCHANGED <<chapters, consumedBy, pc, number>>
  BY DEF Operator, PostNote, Listen, RecordTarget, RequestRender, Rewind
<1>2. latest' = latest /\ Boundary' = Boundary
  BY <1>1 DEF latest, Boundary
<1>3. ASSUME NEW n \in Notes, PostNote(n)
      PROVE  Promise!Receive
  BY <1>1, <1>2, <1>3 DEF PostNote, Promise!Receive, Boundary
<1>4. ASSUME NEW c, RequestRender(c)
      PROVE  Promise!Requeue \/ UNCHANGED Promise!serialVars
  <2>1. UNCHANGED posted /\ hasAudio' = hasAudio \ {c}
    BY <1>4 DEF RequestRender
  <2>2. CASE c \in hasAudio
    BY <1>1, <1>2, <2>1, <2>2 DEF Promise!Requeue, Boundary
  <2>3. CASE c \notin hasAudio
    BY <1>1, <1>2, <2>1, <2>3, SeenStutters DEF seen
  <2> QED
    BY <2>2, <2>3
<1>5. ASSUME NEW c, Listen(c) \/ RecordTarget(c) \/ Rewind(c)
      PROVE  UNCHANGED Promise!serialVars
  <2>1. UNCHANGED <<posted, hasAudio>>
    BY <1>5 DEF Listen, RecordTarget, Rewind
  <2> QED
    BY <1>1, <1>2, <2>1, SeenStutters DEF seen
<1> QED
  BY <1>3, <1>4, <1>5 DEF Operator, Promise!SerialNext

LEMMA RestIsSerial ==
  ASSUME TypeOK, CycleInvariant, Restart \/ Faults \/ TtsRecovers
  PROVE  [Promise!SerialNext]_(Promise!serialVars)
<1> USE DEF storeVars, chapterVars, noteVars, engineVars, cycleVars
<1>1. UNCHANGED <<chapters, hasAudio, posted, consumedBy>>
  BY DEF Restart, Faults, Pass1Abandons, Pass2Fails, CycleFails, Crash, TtsFails, TtsRecovers
<1>2. CASE TtsFails \/ TtsRecovers
  <2>1. UNCHANGED <<pc, number>>
    BY <1>2 DEF TtsFails, TtsRecovers
  <2> QED
    BY <1>1, <2>1, SeenStutters DEF seen, latest, Boundary
<1>3. CASE Restart \/ Pass1Abandons \/ Pass2Fails \/ CycleFails \/ Crash
  <2>1. pc' \notin Publishing
    BY <1>3 DEF Restart, Pass1Abandons, Pass2Fails, CycleFails, Crash, Return, Publishing
  <2> QED
    BY <1>1, <2>1, EndIsSerial DEF Promise!SerialNext
<1> QED
  BY <1>2, <1>3 DEF Faults

(* Every step of the loop, of a crash, or of an operator is a step of the  *)
(* serial or invisible to its readers.                                     *)
LEMMA StepIsSerial ==
  ASSUME TypeOK, CycleInvariant, [Next]_vars
  PROVE  [Promise!SerialNext]_(Promise!serialVars)
<1>1. CASE UNCHANGED vars
  <2>1. UNCHANGED <<chapters, hasAudio, posted, consumedBy, pc, number>>
    BY <1>1 DEF vars, storeVars, chapterVars, noteVars, engineVars, cycleVars
  <2> QED
    BY <2>1, SeenStutters DEF seen, latest, Boundary
<1> QED
  BY <1>1, CycleIsSerial, OperatorIsSerial, RestIsSerial DEF Next

(* The engine implements the serial its readers are promised: chapters     *)
(* come one at a time and are never rewritten, notes are stamped once, at  *)
(* the boundary of a chapter, with that chapter.                           *)
THEOREM LoopImplementsSerial == Spec => SerialPromise
<1>1. Init => Promise!SerialInit
  BY InitIsSerial
<1>2. TypeOK /\ CycleInvariant /\ [Next]_vars => [Promise!SerialNext]_(Promise!serialVars)
  BY StepIsSerial
<1> QED
  BY <1>1, <1>2, TypesAndBookkeeping, PTL DEF Spec, SerialPromise, Promise!SerialSpec
=============================================================================
