---------------------------- MODULE Publication ----------------------------
(***************************************************************************)
(* One chapter on its way to the listener: the engine casts its speaker,   *)
(* writes the chapter row, renders the audio, publishes .pcm, .mp3 and     *)
(* .json through temporary files and attaches the manifest to the row; the *)
(* operator re-casts the speaker and asks for renders; the daemon answers  *)
(* GET /api/chapters/n and GET /media/n.pcm while all this happens.        *)
(*                                                                         *)
(* Abstracted: the chapter has one speaking character, and the voice it is *)
(* rendered in stands for the whole render (its bytes, its segments, its   *)
(* duration); every voice has a backend that is loaded, so none is         *)
(* substituted.  The cap on resume attempts is in ChapterCycle.            *)
(***************************************************************************)
EXTENDS Naturals

CONSTANTS
  Voices,     \* voice refs the character may be given
  Length,     \* how long the chapter is in each voice
  Starts,     \* first bytes a client may ask for
  MaxFaults,  \* bound: failed steps and crashes of a behaviour
  MaxOrders   \* bound: operator commands

Nothing == "nothing"   \* no row, no file, no segments
Torn    == "torn"      \* half a file
Kinds   == {"pcm", "mp3", "json"}
Render  == Voices \cup {Nothing}

ASSUME VoicesAssumption == {Nothing, Torn} \cap Voices = {}
ASSUME LengthAssumption == Length \in [Voices -> Nat] /\ Starts \subseteq Nat
ASSUME LimitsAssumption == MaxFaults \in Nat /\ MaxOrders \in Nat

VARIABLES
  (* the store *)
  voice,     \* cast.voice_ref of the character
  written,   \* the chapter row exists
  hasAudio,  \* chapters.has_audio
  attached,  \* the segments rows, duration_ms and manifest_json: of which render
  (* the media directory *)
  media,     \* what each of the three files holds
  temp,      \* the temporary file being written
  (* the engine *)
  pc,        \* the step of run_cycle
  plan,      \* the voice of the planned segments
  newcomer,  \* the character was cast in this cycle
  (* the daemon, answering one client *)
  rd,        \* the step of the handler
  detail,    \* GET /api/chapters/n: [has, segments]
  reply,     \* GET /media/n.pcm: [start, promised, sent]
  (* the bounds *)
  faults, orders,
  (* history *)
  meddled,   \* the operator has set the voice
  sinceQueued  \* voices in force since the last `litrpg render` that was Queued

storeVars   == <<voice, written, hasAudio, attached>>
fileVars    == <<media, temp>>
engineVars  == <<pc, plan, newcomer>>
readerVars  == <<rd, detail, reply>>
boundVars   == <<faults, orders>>
historyVars == <<meddled, sinceQueued>>
vars == <<storeVars, fileVars, engineVars, readerVars, boundVars, historyVars>>

Init ==
  /\ voice = Nothing /\ written = FALSE /\ hasAudio = FALSE /\ attached = Nothing
  /\ media = [k \in Kinds |-> Nothing] /\ temp = Nothing
  /\ pc = "idle" /\ plan = Nothing /\ newcomer = FALSE
  /\ rd = "idle" /\ detail = [has |-> FALSE, segments |-> Nothing]
  /\ reply = [start |-> 0, promised |-> 0, sent |-> 0]
  /\ faults = 0 /\ orders = 0
  /\ meddled = FALSE /\ sinceQueued = {}

(* What the operator may still ask for; a voice joins those in force since *)
(* a render was requested.                                                 *)
Order == orders < MaxOrders /\ orders' = orders + 1 /\ UNCHANGED faults

InForce(S, v) == IF S = {} THEN {} ELSE S \cup {v}

-----------------------------------------------------------------------------
(* The engine writes the chapter.                                          *)

(* Step 4: the speaker keeps its voice, or is drawn one and cast.          *)
CastSpeaker ==
  /\ pc = "idle" /\ ~written
  /\ \E v \in Voices :
       /\ voice # Nothing => v = voice
       /\ voice' = v /\ plan' = v
       /\ sinceQueued' = InForce(sinceQueued, v)
  /\ newcomer' = (voice = Nothing)
  /\ pc' = "insert"
  /\ UNCHANGED <<written, hasAudio, attached, fileVars, readerVars, boundVars>>
  /\ UNCHANGED meddled

InsertChapter ==
  /\ pc = "insert"
  /\ written' = TRUE /\ pc' = "gender"
  /\ UNCHANGED <<voice, hasAudio, attached, fileVars, plan, newcomer>>
  /\ UNCHANGED <<readerVars, boundVars, historyVars>>

(* Mutant: the correction does not reach the planned segments.             *)
Regender_RowOnly ==
  /\ pc = "gender" /\ newcomer
  /\ \E v \in Voices :
       /\ voice' = v
       /\ sinceQueued' = InForce(sinceQueued, v)
  /\ pc' = "pcm" /\ plan' = plan
  /\ UNCHANGED <<written, hasAudio, attached, fileVars, newcomer>>
  /\ UNCHANGED <<readerVars, boundVars, meddled>>

(* Step 6: pass 2 told the gender of a character cast in this cycle; its   *)
(* row and its planned segments get a matching voice.                      *)
Regender ==
  /\ pc = "gender" /\ newcomer
  /\ \E v \in Voices :
       /\ voice' = v /\ plan' = v
       /\ sinceQueued' = InForce(sinceQueued, v)
  /\ pc' = "pcm"
  /\ UNCHANGED <<written, hasAudio, attached, fileVars, newcomer>>
  /\ UNCHANGED <<readerVars, boundVars, meddled>>

KeepVoice ==
  /\ pc = "gender" /\ pc' = "pcm"
  /\ UNCHANGED <<storeVars, fileVars, plan, newcomer, readerVars, boundVars, historyVars>>

(* Mutants: a resumed render replays the voices of the last one; a chapter *)
(* that has audio is rendered again; one that had audio never is.          *)
ResumeRender_Replays ==
  /\ pc = "idle" /\ written /\ ~hasAudio
  /\ plan' = (IF attached = Nothing THEN voice ELSE attached)
  /\ newcomer' = FALSE /\ pc' = "pcm"
  /\ UNCHANGED <<storeVars, fileVars, readerVars, boundVars, historyVars>>
ResumeRender_Always ==
  /\ pc = "idle" /\ written
  /\ plan' = voice
  /\ newcomer' = FALSE /\ pc' = "pcm"
  /\ UNCHANGED <<storeVars, fileVars, readerVars, boundVars, historyVars>>

ResumeRender_Unmanifested ==
  /\ pc = "idle" /\ written /\ ~hasAudio /\ attached = Nothing
  /\ plan' = voice
  /\ newcomer' = FALSE /\ pc' = "pcm"
  /\ UNCHANGED <<storeVars, fileVars, readerVars, boundVars, historyVars>>

(* Step 0: a chapter without audio is planned again, from the cast.        *)
ResumeRender ==
  /\ pc = "idle" /\ written /\ ~hasAudio
  /\ plan' = voice
  /\ newcomer' = FALSE /\ pc' = "pcm"
  /\ UNCHANGED <<storeVars, fileVars, readerVars, boundVars, historyVars>>

-----------------------------------------------------------------------------
(* The engine publishes the render, one file after the other.              *)

Source(k) == IF k = "mp3" THEN media["pcm"] ELSE plan

After(k) == IF k = "pcm" THEN "mp3" ELSE IF k = "mp3" THEN "json" ELSE "attach"

(* Mutant: the file itself is overwritten.                                 *)
OpenTemp_InPlace(k) ==
  /\ pc = k /\ temp = Nothing
  /\ temp' = Torn /\ media' = [media EXCEPT ![k] = Torn]
  /\ UNCHANGED <<storeVars, engineVars, readerVars, boundVars, historyVars>>

OpenTemp(k) ==
  /\ pc = k /\ temp = Nothing
  /\ temp' = Torn
  /\ UNCHANGED <<storeVars, media, engineVars, readerVars, boundVars, historyVars>>

FillTemp(k) ==
  /\ pc = k /\ temp = Torn
  /\ temp' = Source(k)
  /\ UNCHANGED <<storeVars, media, engineVars, readerVars, boundVars, historyVars>>

RenameTemp(k) ==
  /\ pc = k /\ temp \notin {Nothing, Torn}
  /\ media' = [media EXCEPT ![k] = temp] /\ temp' = Nothing
  /\ pc' = After(k)
  /\ UNCHANGED <<storeVars, plan, newcomer, readerVars, boundVars, historyVars>>

(* attach_audio, in one transaction.                                       *)
AttachAudio ==
  /\ pc = "attach"
  /\ hasAudio' = TRUE /\ attached' = plan /\ pc' = "idle"
  /\ plan' = Nothing /\ newcomer' = FALSE
  /\ UNCHANGED <<voice, written, fileVars, readerVars, boundVars, historyVars>>

(* A step fails and the cycle ends, or the process dies and is started     *)
(* again.  A temporary file left behind is truncated by the next write.    *)
Abort ==
  /\ pc # "idle" /\ faults < MaxFaults
  /\ faults' = faults + 1
  /\ pc' = "idle" /\ plan' = Nothing /\ newcomer' = FALSE /\ temp' = Nothing
  /\ UNCHANGED <<storeVars, media, readerVars, orders, historyVars>>

-----------------------------------------------------------------------------
(* The operator.                                                           *)

(* `litrpg cast set`, or `--new` for a character not cast yet.             *)
CastSet(v) ==
  /\ Order
  /\ voice' = v /\ meddled' = TRUE
  /\ sinceQueued' = InForce(sinceQueued, v)
  /\ UNCHANGED <<written, hasAudio, attached, fileVars, engineVars, readerVars>>

(* `litrpg render n`: Queued, or AlreadyQueued if the flag is clear.       *)
RequestRender ==
  /\ written /\ Order
  /\ hasAudio' = FALSE
  /\ sinceQueued' = (IF hasAudio THEN {voice} ELSE sinceQueued)
  /\ UNCHANGED <<voice, written, attached, fileVars, engineVars, readerVars>>
  /\ UNCHANGED meddled

-----------------------------------------------------------------------------
(* The daemon.                                                             *)

(* get_chapter reads the row, then the segments.                           *)
ReadRow ==
  /\ rd = "idle" /\ written
  /\ detail' = [has |-> hasAudio, segments |-> Nothing] /\ rd' = "row"
  /\ UNCHANGED <<storeVars, fileVars, engineVars, reply, boundVars, historyVars>>

ReadSegments ==
  /\ rd = "row"
  /\ detail' = [detail EXCEPT !.segments = attached] /\ rd' = "answered"
  /\ UNCHANGED <<storeVars, fileVars, engineVars, reply, boundVars, historyVars>>

(* serve_media asks for the size of the file, and promises what is there   *)
(* from the first byte asked for.  A start past the end is a 416.          *)
StatMedia(start) ==
  /\ rd = "idle" /\ media["pcm"] # Nothing /\ start < Length[media["pcm"]]
  /\ reply' = [start |-> start, promised |-> Length[media["pcm"]] - start, sent |-> 0]
  /\ rd' = "stat"
  /\ UNCHANGED <<storeVars, fileVars, engineVars, detail, boundVars, historyVars>>

Rest(start) == IF start < Length[media["pcm"]] THEN Length[media["pcm"]] - start ELSE 0

(* It then opens the file, which may be another one by now, and streams    *)
(* at most what it promised.  An open file outlives the next rename.       *)
StreamMedia ==
  /\ rd = "stat"
  /\ reply' = [reply EXCEPT !.sent = IF Rest(reply.start) < reply.promised
                                     THEN Rest(reply.start) ELSE reply.promised]
  /\ rd' = "served"
  /\ UNCHANGED <<storeVars, fileVars, engineVars, detail, boundVars, historyVars>>

Hangup ==
  /\ rd \in {"answered", "served"} /\ rd' = "idle"
  /\ detail' = [has |-> FALSE, segments |-> Nothing]
  /\ reply' = [start |-> 0, promised |-> 0, sent |-> 0]
  /\ UNCHANGED <<storeVars, fileVars, engineVars, boundVars, historyVars>>

-----------------------------------------------------------------------------
Publish ==
  \/ CastSpeaker \/ InsertChapter \/ Regender \/ KeepVoice \/ ResumeRender
  \/ \E k \in Kinds : OpenTemp(k) \/ FillTemp(k) \/ RenameTemp(k)
  \/ AttachAudio

Serve ==
  \/ ReadRow \/ ReadSegments
  \/ \E start \in Starts : StatMedia(start)
  \/ StreamMedia \/ Hangup

Next ==
  \/ Publish \/ Serve \/ Abort \/ RequestRender
  \/ \E v \in Voices : CastSet(v)

Spec == Init /\ [][Next]_vars

FairSpec == Spec /\ WF_vars(Publish)

-----------------------------------------------------------------------------
Working == {"insert", "gender", "pcm", "mp3", "json", "attach"}

(* The variables range over what the code keeps in them.                   *)
TypeOK ==
  /\ voice \in Render /\ attached \in Render
  /\ written \in BOOLEAN /\ hasAudio \in BOOLEAN
  /\ media \in [Kinds -> Render] /\ temp \in Render \cup {Torn}
  /\ pc \in Working \cup {"idle"} /\ plan \in Render /\ newcomer \in BOOLEAN
  /\ rd \in {"idle", "row", "answered", "stat", "served"}
  /\ detail \in [has : BOOLEAN, segments : Render]
  /\ reply \in [start : Nat, promised : Nat, sent : Nat]
  /\ faults \in Nat /\ orders \in Nat
  /\ meddled \in BOOLEAN
  /\ sinceQueued \subseteq Voices

(* A chapter that has audio has all of it: the three files, the manifest   *)
(* and the segments are of one render, whatever failed or crashed before.  *)
AudioIsPublished ==
  hasAudio => attached # Nothing /\ \A k \in Kinds : media[k] = attached

(* A file in the media directory is never half written: a write that is    *)
(* cut short leaves the file that was there.                               *)
NoTornMedia == \A k \in Kinds : media[k] # Torn

(* The detail of a chapter that says it has audio carries its segments,    *)
(* although row and segments are two reads.                                *)
DetailHasSegments ==
  rd = "answered" /\ detail.has => detail.segments # Nothing

(* No more bytes than Content-Length said, although the file may have been *)
(* replaced by a longer one since.                                         *)
NeverMoreThanPromised == reply.sent <= reply.promised

(* The first audio of a character is already in the voice of its cast row, *)
(* as long as the operator keeps out: the correction of step 6 reaches row *)
(* and render, even through a crash between the two.                       *)
FirstAudioInCastVoice == hasAudio /\ ~meddled => attached = voice

(* A request answered Queued is honoured: the next audio is in a voice the *)
(* cast had at or after the request.                                       *)
QueuedRequestHonoured ==
  hasAudio /\ sinceQueued # {} => attached \in sinceQueued

(* Only the operator re-voices a character that was not cast in the very   *)
(* cycle under way.                                                        *)
EstablishedVoiceStays ==
  [][ voice' # voice =>
        \/ voice = Nothing \/ (newcomer /\ pc = "gender")
        \/ \E v \in Voices : CastSet(v) ]_vars

(* Once written, a chapter gets audio, whatever is left over from failed   *)
(* attempts; the faults of a behaviour are bounded.                        *)
ChapterGetsAudio == written ~> hasAudio

(* Why these hold: while a render is published the flag is clear, the      *)
(* files already renamed are those of the plan, and the plan is a voice of *)
(* the cast since the last request answered Queued.                        *)
Done(k) == \/ k = "pcm" /\ pc \in {"mp3", "json", "attach"}
           \/ k = "mp3" /\ pc \in {"json", "attach"}
           \/ k = "json" /\ pc = "attach"

PublishedSoFar ==
  /\ hasAudio \/ pc \in Working \ {"insert"} => written
  /\ written \/ pc \in Working => voice # Nothing
  /\ pc \in Working => ~hasAudio /\ plan # Nothing
  /\ \A k \in Kinds : Done(k) => media[k] = plan
  /\ temp # Nothing => pc \in Kinds /\ temp \in {Torn, Source(pc)}

Readers ==
  /\ rd = "row" /\ detail.has => attached # Nothing
  /\ rd = "stat" => media["pcm"] # Nothing

Requests ==
  /\ sinceQueued # {} => voice \in sinceQueued
  /\ sinceQueued # {} /\ pc \in Working => plan \in sinceQueued

PublicationInvariant ==
  /\ AudioIsPublished /\ NoTornMedia /\ DetailHasSegments /\ NeverMoreThanPromised
  /\ PublishedSoFar /\ Readers /\ Requests /\ QueuedRequestHonoured

=============================================================================
