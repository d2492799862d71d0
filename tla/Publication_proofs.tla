------------------------- MODULE Publication_proofs -------------------------
(***************************************************************************)
(* Proofs about module Publication, for any voices, lengths and bounds.    *)
(* PublicationInvariant is inductive once the types are known: while a     *)
(* render is being published the flag is clear, the files renamed so far   *)
(* are those of the plan, and the plan is a voice the cast had since the   *)
(* last request answered Queued.                                           *)
(***************************************************************************)
EXTENDS Publication, TLAPS

IInv == TypeOK /\ PublicationInvariant

USE DEF storeVars, fileVars, engineVars, readerVars, boundVars, historyVars

-----------------------------------------------------------------------------
(* The types.                                                              *)

LEMMA InForceType ==
  ASSUME NEW S \in SUBSET Voices, NEW v \in Voices
  PROVE  InForce(S, v) \in SUBSET Voices
BY DEF InForce

LEMMA InitType == Init => TypeOK
<1> SUFFICES ASSUME Init PROVE TypeOK
  OBVIOUS
<1>1. media \in [Kinds -> Render] /\ temp \in Render
  BY DEF Init, Render
<1>2. /\ detail \in [has : BOOLEAN, segments : Render]
      /\ reply \in [start : Nat, promised : Nat, sent : Nat]
  BY DEF Init, Render
<1> QED
  BY <1>1, <1>2 DEF Init, TypeOK, Render, Working

LEMMA EngineType ==
  ASSUME TypeOK, Publish
  PROVE  TypeOK'
<1>1. CASE CastSpeaker
  BY <1>1, InForceType DEF CastSpeaker, TypeOK, Render, Working
<1>2. CASE InsertChapter
  BY <1>2 DEF InsertChapter, TypeOK, Working
<1>3. CASE Regender
  BY <1>3, InForceType DEF Regender, TypeOK, Render, Working
<1>4. CASE KeepVoice
  BY <1>4 DEF KeepVoice, TypeOK, Working
<1>5. CASE ResumeRender
  BY <1>5 DEF ResumeRender, TypeOK, Working
<1>6. ASSUME NEW k \in Kinds, OpenTemp(k)
      PROVE  TypeOK'
  BY <1>6 DEF OpenTemp, TypeOK
<1>7. ASSUME NEW k \in Kinds, FillTemp(k)
      PROVE  TypeOK'
  <2>1. Source(k) \in Render
    BY DEF Source, TypeOK, Kinds
  <2> QED
    BY <1>7, <2>1 DEF FillTemp, TypeOK
<1>8. ASSUME NEW k \in Kinds, RenameTemp(k)
      PROVE  TypeOK'
  <2>1. temp \in Render /\ After(k) \in Working
    BY <1>8 DEF RenameTemp, TypeOK, After, Working
  <2>2. media' \in [Kinds -> Render]
    BY <1>8, <2>1 DEF RenameTemp, TypeOK
  <2> QED
    BY <1>8, <2>1, <2>2 DEF RenameTemp, TypeOK, Render
<1>9. CASE AttachAudio
  BY <1>9 DEF AttachAudio, TypeOK, Render
<1> QED
  BY <1>1, <1>2, <1>3, <1>4, <1>5, <1>6, <1>7, <1>8, <1>9 DEF Publish

LEMMA ServeType ==
  ASSUME TypeOK, Readers, Serve
  PROVE  TypeOK'
<1>1. CASE ReadRow
  BY <1>1 DEF ReadRow, TypeOK, Render
<1>2. CASE ReadSegments
  BY <1>2 DEF ReadSegments, TypeOK
<1>3. ASSUME NEW start \in Starts, StatMedia(start)
      PROVE  TypeOK'
  <2>1. media["pcm"] \in Voices
    BY <1>3 DEF StatMedia, TypeOK, Render, Kinds
  <2>2. Length[media["pcm"]] \in Nat /\ start \in Nat
    BY <2>1, LengthAssumption
  <2>3. reply' \in [start : Nat, promised : Nat, sent : Nat]
    BY <1>3, <2>2 DEF StatMedia
  <2> QED
    BY <1>3, <2>3 DEF StatMedia, TypeOK
<1>4. CASE StreamMedia
  <2>1. media["pcm"] \in Voices
    BY <1>4 DEF StreamMedia, Readers, TypeOK, Render, Kinds
  <2>2. Length[media["pcm"]] \in Nat /\ reply.start \in Nat /\ reply.promised \in Nat
    BY <2>1, LengthAssumption DEF TypeOK
  <2>3. Rest(reply.start) \in Nat
    BY <2>2 DEF Rest
  <2> QED
    BY <1>4, <2>2, <2>3 DEF StreamMedia, TypeOK
<1>5. CASE Hangup
  BY <1>5 DEF Hangup, TypeOK, Render
<1> QED
  BY <1>1, <1>2, <1>3, <1>4, <1>5 DEF Serve

LEMMA RestType ==
  ASSUME TypeOK, PublishedSoFar, Abort \/ RequestRender \/ \E v \in Voices : CastSet(v)
  PROVE  TypeOK'
<1>1. CASE Abort
  <2>1. plan' \in Render /\ temp' \in Render
    BY <1>1 DEF Abort, Render
  <2>2. faults' \in Nat
    BY <1>1 DEF Abort, TypeOK
  <2> QED
    BY <1>1, <2>1, <2>2 DEF Abort, TypeOK
<1>2. CASE RequestRender
  <2>1. voice \in Voices
    BY <1>2 DEF RequestRender, PublishedSoFar, TypeOK, Render
  <2>2. sinceQueued' \in SUBSET Voices
    BY <1>2, <2>1 DEF RequestRender, TypeOK
  <2>3. orders' \in Nat /\ faults' \in Nat
    BY <1>2 DEF RequestRender, Order, TypeOK
  <2> QED
    BY <1>2, <2>2, <2>3 DEF RequestRender, TypeOK
<1>3. ASSUME NEW v \in Voices, CastSet(v)
      PROVE  TypeOK'
  BY <1>3, InForceType DEF CastSet, Order, TypeOK, Render
<1> QED
  BY <1>1, <1>2, <1>3

-----------------------------------------------------------------------------
(* The invariant.                                                          *)

LEMMA InvariantInit == Init => PublicationInvariant
BY VoicesAssumption
DEF Init, PublicationInvariant, AudioIsPublished, NoTornMedia, DetailHasSegments,
    NeverMoreThanPromised, PublishedSoFar, Readers, Requests, QueuedRequestHonoured,
    Done, Working, Nothing, Torn, Kinds

(* Writing the chapter: no file changes, and the plan is the voice of the  *)
(* cast, which is in force from now on.                                    *)
LEMMA WritingKeeps ==
  ASSUME IInv, CastSpeaker \/ InsertChapter \/ Regender \/ KeepVoice \/ ResumeRender
  PROVE  PublicationInvariant'
<1> USE DEF IInv
<1>1. CASE CastSpeaker
  BY <1>1, VoicesAssumption DEF CastSpeaker, TypeOK, Done, Working, Kinds, Source, InForce,
     PublicationInvariant, AudioIsPublished, NoTornMedia, DetailHasSegments,
     NeverMoreThanPromised, PublishedSoFar, Readers, Requests, QueuedRequestHonoured
<1>2. CASE InsertChapter
  <2>1. PublishedSoFar' /\ Requests'
    BY <1>2 DEF InsertChapter, PublicationInvariant, PublishedSoFar, Requests,
       Done, Working, Kinds, Source
  <2> QED
    BY <1>2, <2>1 DEF InsertChapter, PublicationInvariant, AudioIsPublished, NoTornMedia,
       DetailHasSegments, NeverMoreThanPromised, Readers, QueuedRequestHonoured
<1>3. CASE Regender
  BY <1>3, VoicesAssumption DEF Regender, TypeOK, Done, Working, Kinds, Source, InForce,
     PublicationInvariant, AudioIsPublished, NoTornMedia, DetailHasSegments,
     NeverMoreThanPromised, PublishedSoFar, Readers, Requests, QueuedRequestHonoured
<1>4. CASE KeepVoice
  BY <1>4 DEF KeepVoice, TypeOK, Done, Working, Kinds, Source,
     PublicationInvariant, AudioIsPublished, NoTornMedia, DetailHasSegments,
     NeverMoreThanPromised, PublishedSoFar, Readers, Requests, QueuedRequestHonoured
<1>5. CASE ResumeRender
  BY <1>5 DEF ResumeRender, TypeOK, Done, Working, Kinds, Source,
     PublicationInvariant, AudioIsPublished, NoTornMedia, DetailHasSegments,
     NeverMoreThanPromised, PublishedSoFar, Readers, Requests, QueuedRequestHonoured
<1> QED
  BY <1>1, <1>2, <1>3, <1>4, <1>5
(* Publishing a file: the flag is clear, and a file is renamed only when   *)
(* its temporary one holds the plan, or the .pcm that does.                *)
LEMMA FileKeeps ==
  ASSUME IInv, NEW k \in Kinds, OpenTemp(k) \/ FillTemp(k) \/ RenameTemp(k)
  PROVE  PublicationInvariant'
<1> USE DEF IInv
<1>1. CASE OpenTemp(k)
  <2>1. PublishedSoFar' /\ Requests'
    BY <1>1 DEF OpenTemp, PublicationInvariant, PublishedSoFar, Requests, Done, Source
  <2> QED
    BY <1>1, <2>1 DEF OpenTemp, PublicationInvariant, AudioIsPublished, NoTornMedia,
       DetailHasSegments, NeverMoreThanPromised, Readers, QueuedRequestHonoured
<1>2. CASE FillTemp(k)
  <2>1. PublishedSoFar' /\ Requests'
    BY <1>2 DEF FillTemp, PublicationInvariant, PublishedSoFar, Requests, Done, Source
  <2> QED
    BY <1>2, <2>1 DEF FillTemp, PublicationInvariant, AudioIsPublished, NoTornMedia,
       DetailHasSegments, NeverMoreThanPromised, Readers, QueuedRequestHonoured
<1>3. CASE RenameTemp(k)
  <2>1. /\ pc = k /\ pc \in Working /\ pc' \in Working /\ pc' # "insert"
        /\ temp \in {Torn, Source(pc)} /\ temp # Torn /\ ~hasAudio /\ plan # Nothing
    BY <1>3 DEF RenameTemp, PublicationInvariant, PublishedSoFar, Working, Kinds, After
  <2>2. /\ ~hasAudio /\ pc \in Working /\ pc = k /\ temp = plan
        /\ plan \in Voices /\ ~hasAudio' /\ pc' \in Working /\ pc' # "insert"
    <3>1. Source(k) = plan
      BY <2>1 DEF PublicationInvariant, PublishedSoFar, Done, Source, Kinds
    <3> QED
      BY <1>3, <2>1, <3>1 DEF RenameTemp, TypeOK, Render
  <2>3. /\ media' \in [Kinds -> Render] /\ media'[k] = plan
        /\ \A j \in Kinds : j # k => media'[j] = media[j]
    BY <1>3, <2>2 DEF RenameTemp, TypeOK, Render
  <2>4. \A j \in Kinds : Done(j)' => j = k \/ Done(j)
    <3>1. CASE k = "pcm"
      BY <1>3, <3>1 DEF RenameTemp, Done, After
    <3>2. CASE k = "mp3"
      BY <1>3, <3>2 DEF RenameTemp, Done, After, Kinds
    <3>3. CASE k = "json"
      BY <1>3, <3>3 DEF RenameTemp, Done, After, Kinds
    <3> QED
      BY <3>1, <3>2, <3>3 DEF Kinds
  <2>5. PublishedSoFar' /\ Requests'
    BY <1>3, <2>2, <2>3, <2>4
    DEF RenameTemp, PublicationInvariant, PublishedSoFar, Requests, Working, Kinds
  <2>6. NoTornMedia' /\ Readers'
    BY <1>3, <2>2, <2>3, VoicesAssumption
    DEF RenameTemp, PublicationInvariant, NoTornMedia, Readers, Kinds
  <2> QED
    BY <1>3, <2>2, <2>5, <2>6 DEF RenameTemp, PublicationInvariant, AudioIsPublished,
       DetailHasSegments, NeverMoreThanPromised, QueuedRequestHonoured
<1> QED
  BY <1>1, <1>2, <1>3

(* At the end every file is of the plan, and the transaction says so.      *)
LEMMA AttachKeeps ==
  ASSUME IInv, AttachAudio
  PROVE  PublicationInvariant'
<1>1. /\ \A k \in Kinds : media[k] = plan
      /\ plan # Nothing /\ plan # Torn /\ written /\ voice # Nothing /\ temp = Nothing
  BY VoicesAssumption DEF IInv, TypeOK, Render, AttachAudio, PublicationInvariant,
     PublishedSoFar, Done, Kinds, Working
<1>2. sinceQueued # {} => plan \in sinceQueued /\ voice \in sinceQueued
  BY DEF IInv, AttachAudio, PublicationInvariant, Requests, Working
<1>3. AudioIsPublished' /\ NoTornMedia' /\ QueuedRequestHonoured' /\ Requests'
  BY <1>1, <1>2 DEF AttachAudio, AudioIsPublished, NoTornMedia, QueuedRequestHonoured,
     Requests, Working
<1>4. PublishedSoFar'
  BY <1>1 DEF AttachAudio, PublishedSoFar, Done, Working
<1> QED
  BY <1>1, <1>3, <1>4 DEF IInv, AttachAudio, PublicationInvariant, DetailHasSegments,
     NeverMoreThanPromised, Readers

(* The daemon changes no state but its answers.                            *)
LEMMA ServeKeeps ==
  ASSUME IInv, Serve
  PROVE  PublicationInvariant'
<1>1. CASE ReadRow
  BY <1>1 DEF IInv, ReadRow, PublicationInvariant, AudioIsPublished, NoTornMedia,
     DetailHasSegments, NeverMoreThanPromised, PublishedSoFar, Readers, Requests,
     QueuedRequestHonoured, Done, Source, TypeOK
<1>2. CASE ReadSegments
  BY <1>2 DEF IInv, ReadSegments, PublicationInvariant, AudioIsPublished, NoTornMedia,
     DetailHasSegments, NeverMoreThanPromised, PublishedSoFar, Readers, Requests,
     QueuedRequestHonoured, Done, Source, TypeOK
<1>3. ASSUME NEW start \in Starts, StatMedia(start)
      PROVE  PublicationInvariant'
  <2>1. media["pcm"] \in Voices
    BY <1>3 DEF IInv, StatMedia, TypeOK, Render, Kinds
  <2>2. Length[media["pcm"]] \in Nat /\ start \in Nat
    BY <2>1, LengthAssumption
  <2>3. NeverMoreThanPromised'
    BY <1>3, <2>2 DEF StatMedia, NeverMoreThanPromised
  <2> QED
    BY <1>3, <2>3 DEF IInv, StatMedia, PublicationInvariant, AudioIsPublished, NoTornMedia,
       DetailHasSegments, PublishedSoFar, Readers, Requests, QueuedRequestHonoured,
       Done, Source
<1>4. CASE StreamMedia
  <2>1. media["pcm"] \in Voices
    BY <1>4 DEF IInv, StreamMedia, PublicationInvariant, Readers, TypeOK, Render, Kinds
  <2>2. Rest(reply.start) \in Nat /\ reply.promised \in Nat
    BY <2>1, LengthAssumption DEF IInv, TypeOK, Rest
  <2>3. NeverMoreThanPromised'
    BY <1>4, <2>2 DEF IInv, TypeOK, StreamMedia, NeverMoreThanPromised
  <2> QED
    BY <1>4, <2>3 DEF IInv, StreamMedia, PublicationInvariant, AudioIsPublished, NoTornMedia,
       DetailHasSegments, PublishedSoFar, Readers, Requests, QueuedRequestHonoured,
       Done, Source
<1>5. CASE Hangup
  BY <1>5 DEF IInv, Hangup, PublicationInvariant, AudioIsPublished, NoTornMedia,
     DetailHasSegments, NeverMoreThanPromised, PublishedSoFar, Readers, Requests,
     QueuedRequestHonoured, Done, Source
<1> QED
  BY <1>1, <1>2, <1>3, <1>4, <1>5 DEF Serve
(* Failures, crashes and the operator: a file left behind is a whole one,  *)
(* and a voice the operator sets is in force from then on.                 *)
LEMMA RestKeeps ==
  ASSUME IInv, Abort \/ RequestRender \/ \E v \in Voices : CastSet(v)
  PROVE  PublicationInvariant'
<1>1. CASE Abort
  <2>1. ~hasAudio /\ written' = written /\ voice' = voice
    BY <1>1 DEF IInv, TypeOK, Abort, PublicationInvariant, PublishedSoFar
  <2>2. PublishedSoFar' /\ Requests'
    BY <1>1, <2>1 DEF IInv, Abort, PublicationInvariant, PublishedSoFar, Requests,
       Done, Working
  <2> QED
    BY <1>1, <2>1, <2>2 DEF IInv, Abort, PublicationInvariant, AudioIsPublished,
       NoTornMedia, DetailHasSegments, NeverMoreThanPromised, Readers, QueuedRequestHonoured
<1>2. CASE RequestRender
  <2>1. PublishedSoFar' /\ Requests'
    BY <1>2 DEF IInv, RequestRender, PublicationInvariant, PublishedSoFar, Requests,
       Done, Source
  <2> QED
    BY <1>2, <2>1 DEF IInv, RequestRender, PublicationInvariant, AudioIsPublished,
       NoTornMedia, DetailHasSegments, NeverMoreThanPromised, Readers, QueuedRequestHonoured
<1>3. ASSUME NEW v \in Voices, CastSet(v)
      PROVE  PublicationInvariant'
  <2>1. v # Nothing
    BY VoicesAssumption
  <2>2. PublishedSoFar' /\ Requests' /\ QueuedRequestHonoured'
    BY <1>3, <2>1 DEF IInv, CastSet, InForce, PublicationInvariant, PublishedSoFar,
       Requests, QueuedRequestHonoured, Done, Source
  <2> QED
    BY <1>3, <2>2 DEF IInv, CastSet, PublicationInvariant, AudioIsPublished,
       NoTornMedia, DetailHasSegments, NeverMoreThanPromised, Readers
<1> QED
  BY <1>1, <1>2, <1>3

LEMMA StutterKeeps ==
  ASSUME IInv, UNCHANGED vars
  PROVE  IInv'
BY DEF IInv, vars, TypeOK, PublicationInvariant, AudioIsPublished, NoTornMedia,
   DetailHasSegments, NeverMoreThanPromised, PublishedSoFar, Readers, Requests,
   QueuedRequestHonoured, Done, Source

(* Publication is well typed, and its invariant holds whatever fails, in   *)
(* whatever order engine, operator and daemon act.                         *)
THEOREM PublicationIsSound == Spec => [](TypeOK /\ PublicationInvariant)
<1>1. Init => IInv
  BY InitType, InvariantInit DEF IInv
<1>2. ASSUME IInv, [Next]_vars
      PROVE  IInv'
  <2>1. CASE Publish
    <3>1. TypeOK'
      BY <2>1, <1>2, EngineType DEF IInv
    <3>2. PublicationInvariant'
      BY <2>1, <1>2, WritingKeeps, FileKeeps, AttachKeeps DEF Publish
    <3> QED
      BY <3>1, <3>2 DEF IInv
  <2>2. CASE Serve
    BY <2>2, <1>2, ServeType, ServeKeeps DEF IInv, PublicationInvariant
  <2>3. CASE Abort \/ RequestRender \/ \E v \in Voices : CastSet(v)
    BY <2>3, <1>2, RestType, RestKeeps DEF IInv, PublicationInvariant
  <2>4. CASE UNCHANGED vars
    BY <2>4, <1>2, StutterKeeps
  <2> QED
    BY <1>2, <2>1, <2>2, <2>3, <2>4 DEF Next
<1>3. IInv => TypeOK /\ PublicationInvariant
  BY DEF IInv
<1> QED
  BY <1>1, <1>2, <1>3, PTL DEF Spec

(* The types alone.                                                        *)
THEOREM PublicationTypes == Spec => []TypeOK
BY PublicationIsSound, PTL

(* Audio that is announced is there: three files and the segments, all of  *)
(* one render.                                                             *)
THEOREM AnnouncedAudioIsThere == Spec => []AudioIsPublished
<1>1. PublicationInvariant => AudioIsPublished
  BY DEF PublicationInvariant
<1> QED
  BY <1>1, PublicationIsSound, PTL

(* A request answered Queued is honoured by the next audio.                *)
THEOREM QueuedMeansRendered == Spec => []QueuedRequestHonoured
<1>1. PublicationInvariant => QueuedRequestHonoured
  BY DEF PublicationInvariant
<1> QED
  BY <1>1, PublicationIsSound, PTL

(* Only the operator, or the cycle that cast it, changes a voice.          *)
THEOREM VoicesStay == Spec => EstablishedVoiceStays
<1>1. ASSUME [Next]_vars, voice' # voice
      PROVE  \/ voice = Nothing \/ (newcomer /\ pc = "gender")
             \/ \E v \in Voices : CastSet(v)
  BY <1>1 DEF vars, Next, Publish, Serve, CastSpeaker, InsertChapter, Regender, KeepVoice,
     ResumeRender, OpenTemp, FillTemp, RenameTemp, AttachAudio, ReadRow, ReadSegments,
     StatMedia, StreamMedia, Hangup, Abort, RequestRender
<1> QED
  BY <1>1, PTL DEF Spec, EstablishedVoiceStays
(* As long as the operator keeps out, plan and audio are in the voice of   *)
(* the cast row.                                                           *)
Untouched ==
  ~meddled => /\ pc \in Working => plan = voice
              /\ hasAudio => attached = voice

LEMMA UntouchedStep ==
  ASSUME IInv, Untouched, [Next]_vars
  PROVE  Untouched'
<1>1. (hasAudio => written) /\ (pc \in Working => ~hasAudio)
  BY DEF IInv, PublicationInvariant, PublishedSoFar
<1>2. CASE CastSpeaker \/ InsertChapter \/ Regender \/ KeepVoice \/ ResumeRender
  BY <1>1, <1>2 DEF Untouched, CastSpeaker, InsertChapter, Regender, KeepVoice,
     ResumeRender, Working
<1>3. ASSUME NEW k \in Kinds, OpenTemp(k) \/ FillTemp(k) \/ RenameTemp(k)
      PROVE  Untouched'
  <2>1. pc = k /\ pc \in Working
    BY <1>3 DEF OpenTemp, FillTemp, RenameTemp, Kinds, Working
  <2> QED
    BY <1>1, <1>3, <2>1 DEF Untouched, OpenTemp, FillTemp, RenameTemp
<1>4. CASE AttachAudio
  BY <1>4 DEF Untouched, AttachAudio, Working
<1>5. CASE Serve
  BY <1>5 DEF Untouched, Serve, ReadRow, ReadSegments, StatMedia, StreamMedia, Hangup
<1>6. CASE Abort
  BY <1>6 DEF Untouched, Abort, Working
<1>7. CASE RequestRender
  BY <1>7 DEF Untouched, RequestRender
<1>8. ASSUME NEW v \in Voices, CastSet(v)
      PROVE  Untouched'
  BY <1>8 DEF Untouched, CastSet
<1>9. CASE UNCHANGED vars
  BY <1>9 DEF Untouched, vars
<1> QED
  BY <1>2, <1>3, <1>4, <1>5, <1>6, <1>7, <1>8, <1>9 DEF Next, Publish

(* The first audio of a character is already in the voice of its cast row, *)
(* whatever fails between the correction of step 6 and the render.         *)
THEOREM FirstAudioFits == Spec => []FirstAudioInCastVoice
<1>1. Init => Untouched
  BY DEF Init, Untouched, Working
<1>2. TypeOK /\ PublicationInvariant /\ Untouched /\ [Next]_vars => Untouched'
  BY UntouchedStep DEF IInv
<1>3. Untouched => FirstAudioInCastVoice
  BY DEF Untouched, FirstAudioInCastVoice
<1> QED
  BY <1>1, <1>2, <1>3, PublicationIsSound, PTL DEF Spec
=============================================================================
