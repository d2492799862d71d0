-------------------------------- MODULE Speech --------------------------------
(***************************************************************************)
(* How a chapter is voiced: its turns are split into sentences, every      *)
(* sentence is a request, the registry gives each backend its own batch,   *)
(* Azure answers a few requests at a time over the network, sherpa shares  *)
(* its batch out to threads, each of which holds one worker for its whole  *)
(* shard and has it load a model when it first needs it, and the buffers   *)
(* that come back, in whatever order, are joined into one stream and a     *)
(* manifest that addresses it.                                             *)
(*                                                                         *)
(* Abstracted: a text is its words with their lengths, sound is how many   *)
(* bytes it takes and what it says in which voice.  The files and rows the *)
(* result goes to are in module Publication, the number of times a chapter *)
(* is tried in ChapterCycle, the choice of voices in Casting.              *)
(***************************************************************************)
EXTENDS Integers, Sequences, FiniteSets, SequencesExt

CONSTANTS
  Chapters,        \* turns [voice, text] a chapter may have
  Models,          \* of sherpa
  Kokoro,          \* those of its kokoro family; the others are piper's
  Lexicons,        \* kokoro_lexicon_files
  FirstLexicon,    \* the first of them
  Installations,   \* model |-> sets of its files that may be there
  NoModel,         \* what an Azure voice is made of
  SentenceTarget,  \* SENTENCE_TARGET_CHARS
  MaxChars,        \* MAX_CHARS_PER_REQUEST
  Concurrency,     \* BATCH_CONCURRENCY
  MaxAttempts,     \* MAX_ATTEMPTS
  Workers,         \* of sherpa's pool
  Lengths,         \* bytes of sound a synthesis may give
  MaxRenders,      \* bound: renders of a behaviour
  MaxChanges       \* bound: changes of what is installed

Backends == {"azure", "sherpa"}
Files    == {"dir", "onnx", "tokens.txt", "espeak-ng-data", "voices.bin", "dict"} \cup Lexicons
Words    == [id : Nat, len : Nat \ {0}, ends : BOOLEAN]
Voices   == [backend : {"azure", "gone"}, model : {NoModel}, sound : BOOLEAN]
              \cup [backend : {"sherpa"}, model : Models, sound : BOOLEAN]

ASSUME ChaptersAssumption == Chapters \subseteq Seq([voice : Voices, text : Seq(Words)])
ASSUME SizesAssumption ==
  /\ SentenceTarget \in Nat \ {0} /\ MaxChars \in Nat \ {0} /\ Concurrency \in Nat \ {0}
  /\ MaxAttempts \in Nat \ {0} /\ Workers \in Nat \ {0} /\ Lengths \subseteq Nat
ASSUME InstallationsAssumption == Installations \in [Models -> SUBSET SUBSET Files]
ASSUME BoundsAssumption == MaxRenders \in Nat /\ MaxChanges \in Nat

BytesPerMs == 32

VARIABLES
  turns,      \* the chapter, as it was written
  rows,       \* its segments in the store, once it has been voiced
  segs,       \* the planned segments of this render
  pc, groups, \* the backends whose batch is still to come
  batch,      \* outcomes of the current batch, by its own positions
  rest,       \* Azure: positions whose chunk has not begun
  tasks,      \* Azure: requests in flight, by position
  shards,     \* sherpa: what the thread of a render on a worker has left
  holder,     \* worker |-> render whose thread has its lock, 0 for none
  loading,    \* worker |-> model whose files were looked for, and found
  out,        \* sound by position in the chapter
  manifest, stream,
  disk,       \* model |-> its files that are installed
  sherpaSays, \* availability, as it was when the engine was built
  loaded,     \* worker |-> models in its memory
  aborted,    \* sherpa-onnx called exit()
  renders, changes,
  (* for the properties *)
  cause,      \* why it failed
  snatched    \* a file went away between its check and its model's loading

planVars == <<turns, rows, segs, groups, out>>
artVars  == <<manifest, stream>>
diskVars == <<disk, sherpaSays, changes, snatched>>
azureVars  == <<rest, tasks>>
sherpaVars == <<shards, holder, loading, loaded, aborted>>
vars == <<planVars, pc, batch, artVars, diskVars, azureVars, sherpaVars, renders, cause>>

-----------------------------------------------------------------------------
(* Splitting text.                                                         *)

Total(bytes) ==
  LET sum[n \in 0..Len(bytes)] == IF n = 0 THEN 0 ELSE sum[n - 1] + bytes[n]
  IN sum[Len(bytes)]

(* Words stand one blank apart.                                            *)
Chars(t) == Total([i \in DOMAIN t |-> t[i].len]) + (IF t = <<>> THEN 0 ELSE Len(t) - 1)

(* p begins a new piece of acc, or goes on with the last one.              *)
Piece(acc, p, new) ==
  IF new THEN Append(acc, p) ELSE [acc EXCEPT ![Len(acc)] = @ \o p]

(* A sentence keeps the word that ends it; the last one need not end.      *)
Sentences(t) ==
  LET cut[n \in 0..Len(t)] ==
        IF n = 0 THEN <<>>
        ELSE Piece(cut[n - 1], <<t[n]>>, cut[n - 1] = <<>> \/ Last(Last(cut[n - 1])).ends)
  IN cut[Len(t)]

(* Pieces are put together up to the budget, never cut.                    *)
Pack(pieces, max) ==
  LET pack[n \in 0..Len(pieces)] ==
        IF n = 0 THEN <<>>
        ELSE Piece(pack[n - 1], pieces[n],
               pack[n - 1] = <<>> \/ Chars(Last(pack[n - 1])) + 1 + Chars(pieces[n]) > max)
  IN pack[Len(pieces)]

Singly(t) == [k \in DOMAIN t |-> <<t[k]>>]

(* By sentences, and a sentence over the budget by words.                  *)
SplitForRequests(t, max) ==
  IF t = <<>> THEN <<>>
  ELSE IF Chars(t) <= max THEN <<t>>
  ELSE LET units == Sentences(t) IN
       Pack(FlattenSeq([i \in DOMAIN units |->
              IF Chars(units[i]) <= max THEN <<units[i]>>
              ELSE Pack(Singly(units[i]), max)]), max)

(* Each piece of a turn in the turn's voice; a blank turn stays.           *)
InSentences(turn) ==
  LET pieces == SplitForRequests(turn.text, SentenceTarget) IN
  IF pieces = <<>> THEN <<turn>>
  ELSE [k \in DOMAIN pieces |-> [voice |-> turn.voice, text |-> pieces[k]]]

SplitBySentence(planned) == FlattenSeq([i \in DOMAIN planned |-> InSentences(planned[i])])

-----------------------------------------------------------------------------
(* Sound.                                                                  *)

Silence == [bytes |-> 0, says |-> <<>>]

(* A text as a voice says it.                                              *)
Said(text, voice) == [k \in DOMAIN text |-> <<text[k].id, voice>>]

Says(seg) == Said(seg.text, seg.voice)

(* Mutant: buffers keep their sub-millisecond tails.                       *)
Padded_No(n) == n

(* Up to a whole millisecond.                                              *)
Padded(n) == ((n + BytesPerMs - 1) \div BytesPerMs) * BytesPerMs

None     == [state |-> "none", pcm |-> Silence]
Err      == [state |-> "err",  pcm |-> Silence]
Ok(pcm)  == [state |-> "ok",   pcm |-> pcm]

-----------------------------------------------------------------------------
(* The registry.                                                           *)

(* The places where p holds, in order.                                     *)
Where(p) == FlattenSeq([i \in DOMAIN p |-> IF p[i] THEN <<i>> ELSE <<>>])

Positions(b) == Where([i \in DOMAIN segs |-> segs[i].voice.backend = b])

(* The backends a plan needs, in order of first appearance.                *)
GroupsOf(plan) ==
  LET first == Where([i \in DOMAIN plan |->
                 \A j \in 1..(i - 1) : plan[j].voice.backend # plan[i].voice.backend])
  IN [k \in DOMAIN first |-> plan[first[k]].voice.backend]

(* Every backend is resolved before any is asked.                          *)
Refused(order, ready) == \E k \in DOMAIN order : order[k] \notin ready

SoFar == [k \in DOMAIN batch |-> batch[k].pcm]

(* Mutant: results are appended as batches end.                            *)
Restored_InBatchOrder(b) ==
  LET done == Cardinality({i \in DOMAIN out : out[i] # Silence}) IN
  [i \in DOMAIN out |-> IF i - done \in DOMAIN SoFar THEN SoFar[i - done] ELSE out[i]]

(* A batch's results go back to the positions their requests came from.    *)
Restored(b) ==
  [i \in DOMAIN out |-> IF segs[i].voice.backend # b THEN out[i]
                        ELSE SoFar[CHOOSE k \in DOMAIN SoFar : Positions(b)[k] = i]]

-----------------------------------------------------------------------------
(* What is installed of sherpa.                                            *)

Common == {"onnx", "tokens.txt", "espeak-ng-data"}
Own(m) == IF m \in Kokoro THEN {"voices.bin", "dict"} ELSE {}
LexiconsOf(m) == IF m \in Kokoro THEN Lexicons ELSE {}

(* Of the lexicons the first stands in for the list.                       *)
RequiredAssets(m) ==
  (Common \ {"onnx"}) \cup Own(m) \cup (LexiconsOf(m) \cap {FirstLexicon})

(* A model that is half installed makes the whole plugin unavailable.      *)
Available(d) ==
  LET installed == {m \in Models : "dir" \in d[m]} IN
  installed # {} /\ \A m \in installed : RequiredAssets(m) \cup {"onnx"} \subseteq d[m]

(* What a constructor is given, of the files there are.                    *)
Given(m) == disk[m] \cap (Common \cup Own(m) \cup LexiconsOf(m))

(* What it cannot do without; any lexicon will do.                         *)
Enough(m, given) ==
  /\ Common \cup Own(m) \subseteq given
  /\ m \in Kokoro => given \cap Lexicons # {}

(* Mutant: dict/ is an optional asset.                                     *)
AssetsPresent_DictOptional(m) == Enough(m, Given(m) \cup {"dict"})

(* Every asset is looked for again, whatever availability said.            *)
AssetsPresent(m) == Enough(m, Given(m))

(* sherpa-onnx exits the process when it misses one, or a file it was      *)
(* given is gone.                                                          *)
NativeAborts(m, given) == ~Enough(m, given) \/ ~(given \subseteq disk[m])

Unloaded == [model |-> NoModel, given |-> {}]

-----------------------------------------------------------------------------
Init ==
  /\ turns \in Chapters /\ rows = <<>> /\ segs = <<>> /\ pc = "idle" /\ groups = <<>>
  /\ batch = <<>> /\ rest = <<>> /\ tasks = <<>>
  /\ shards = [r \in 1..MaxRenders |-> [w \in 1..Workers |-> <<>>]] /\ out = <<>>
  /\ holder = [w \in 1..Workers |-> 0] /\ loading = [w \in 1..Workers |-> Unloaded]
  /\ manifest = <<>> /\ stream = <<>>
  /\ disk \in [Models -> SUBSET Files] /\ \A m \in Models : disk[m] \in Installations[m]
  /\ sherpaSays = Available(disk) /\ snatched = FALSE
  /\ loaded = [w \in 1..Workers |-> {}] /\ aborted = FALSE
  /\ renders = 0 /\ changes = 0 /\ cause = "none"

Fail(why) == pc' = "failed" /\ cause' = why

(* A chapter without audio, or whose audio is asked for again: its stored  *)
(* segments are what is voiced then.                                       *)
Start(azure, bySentence) ==
  LET planned == IF rows = <<>> THEN turns ELSE rows
      usable  == {b \in Backends : IF b = "azure" THEN azure ELSE sherpaSays}
  IN
  /\ pc \in {"idle", "failed", "published"} /\ renders < MaxRenders
  /\ renders' = renders + 1
  /\ segs' = IF bySentence THEN SplitBySentence(planned) ELSE planned
  /\ groups' = GroupsOf(segs') /\ out' = [i \in DOMAIN segs' |-> Silence]
  /\ IF Refused(groups', usable) THEN Fail("refused") ELSE pc' = "registry" /\ cause' = "none"
  /\ UNCHANGED <<turns, rows, batch, artVars, diskVars, azureVars, sherpaVars>>

BatchBegins(b) ==
  /\ pc = "registry" /\ groups # <<>> /\ Head(groups) = b
  /\ batch' = [k \in DOMAIN Positions(b) |-> None]

BatchEnds(b) ==
  /\ out' = Restored(b) /\ groups' = Tail(groups) /\ pc' = "registry"
  /\ UNCHANGED <<turns, rows, segs, cause>>

Seg(b, k) == segs[Positions(b)[k]]

(* A text in the voice of the batch's request k, levelled to n bytes.      *)
Voiced(b, k, text, n) == Ok([bytes |-> Padded(n), says |-> Said(text, Seg(b, k).voice)])

-----------------------------------------------------------------------------
(* Azure: chunks of requests, joined as they end.                          *)

AzureBegins ==
  /\ BatchBegins("azure") /\ pc' = "azure"
  /\ rest' = [k \in DOMAIN batch' |-> k] /\ tasks' = <<>>
  /\ UNCHANGED <<planVars, artVars, diskVars, sherpaVars, renders, cause>>

(* A voice that may not stand in an attribute costs its own segment, and a *)
(* blank one is not asked for.                                             *)
NextChunk ==
  LET size  == IF Len(rest) < Concurrency THEN Len(rest) ELSE Concurrency
      chunk == {rest[k] : k \in 1..size}
      bad   == {k \in chunk : ~Seg("azure", k).voice.sound}
      blank == {k \in chunk \ bad : Seg("azure", k).text = <<>>}
  IN
  /\ pc = "azure" /\ tasks = <<>> /\ rest # <<>>
  /\ rest' = SubSeq(rest, size + 1, Len(rest))
  /\ tasks' = [k \in chunk \ (bad \cup blank) |-> [part |-> 1, attempt |-> 1]]
  /\ batch' = [k \in DOMAIN batch |-> IF k \in bad THEN Err
                                      ELSE IF k \in blank THEN Ok(Silence) ELSE batch[k]]
  /\ UNCHANGED <<planVars, pc, artVars, diskVars, sherpaVars, renders, cause>>

Parts(k) == SplitForRequests(Seg("azure", k).text, MaxChars)

InFlight(k) == pc = "azure" /\ k \in DOMAIN tasks

(* Mutant: the last attempt is retried too.                                *)
MayRetry_AfterLast(t) == t.attempt <= MaxAttempts

MayRetry(t) == t.attempt < MaxAttempts

AzureKeeps == UNCHANGED <<planVars, pc, rest, artVars, diskVars, sherpaVars, renders, cause>>

(* One part of the segment's text is answered in full.                     *)
PartAnswered(k) ==
  /\ InFlight(k) /\ tasks[k].part <= Len(Parts(k))
  /\ tasks' = [tasks EXCEPT ![k] = [part |-> @.part + 1, attempt |-> 1]]
  /\ AzureKeeps /\ UNCHANGED batch

(* The transport, 5xx, 429 or 408: the same part is asked for again.       *)
PartRetried(k) ==
  /\ InFlight(k) /\ tasks[k].part <= Len(Parts(k)) /\ MayRetry(tasks[k])
  /\ tasks' = [tasks EXCEPT ![k].attempt = @ + 1]
  /\ AzureKeeps /\ UNCHANGED batch

TaskEnds(k) ==
  /\ InFlight(k)
  /\ tasks' = [j \in DOMAIN tasks \ {k} |-> tasks[j]]
  /\ AzureKeeps

(* All parts are there: joined they are levelled to n bytes, and replace   *)
(* what another task's panic may have left in the slot.                    *)
TaskVoiced(k, n) ==
  /\ TaskEnds(k) /\ tasks[k].part > Len(Parts(k))
  /\ batch' = [batch EXCEPT ![k] = Voiced("azure", k, FlattenSeq(Parts(k)), n)]

(* Refused for good, cut off in mid-sample, out of attempts, or not to be  *)
(* levelled.                                                               *)
TaskFails(k) ==
  /\ TaskEnds(k)
  /\ batch' = [batch EXCEPT ![k] = Err]

(* A panic does not say whose task it was: the first slot without an       *)
(* outcome takes it.                                                       *)
TaskPanics(k) ==
  LET open == {j \in DOMAIN batch : batch[j].state = "none"} IN
  /\ TaskEnds(k)
  /\ batch' = [j \in DOMAIN batch |->
                 IF j \in open /\ \A i \in open : j <= i THEN Err ELSE batch[j]]

(* The first error, or a slot without an outcome, is the batch's.          *)
AzureEnds ==
  /\ pc = "azure" /\ tasks = <<>> /\ rest = <<>>
  /\ IF \E k \in DOMAIN batch : batch[k].state # "ok" THEN Fail("azure") /\ UNCHANGED planVars
     ELSE BatchEnds("azure")
  /\ UNCHANGED <<batch, artVars, diskVars, azureVars, sherpaVars, renders>>

-----------------------------------------------------------------------------
(* Sherpa: a shard for each worker, and a thread for each shard.           *)

(* Each takes copies of its requests with it.                              *)
Shards(n) ==
  LET size    == IF n < Workers THEN n ELSE Workers
      ours(w) == Where([k \in 1..n |-> (k - 1) % size = w - 1])
  IN [w \in 1..Workers |->
        [j \in DOMAIN ours(w) |-> [pos |-> ours(w)[j], seg |-> Seg("sherpa", ours(w)[j])]]]

(* A voice that is not configured costs nothing of sherpa's.               *)
SherpaBegins ==
  /\ BatchBegins("sherpa")
  /\ IF \E k \in DOMAIN batch' : ~Seg("sherpa", k).voice.sound
     THEN Fail("voice") /\ UNCHANGED shards
     ELSE /\ pc' = "sherpa" /\ shards' = [shards EXCEPT ![renders] = Shards(Len(batch'))]
          /\ UNCHANGED cause
  /\ UNCHANGED <<planVars, artVars, diskVars, azureVars, holder, loading, loaded, aborted,
                 renders>>

(* The batch still waits for the threads of this render; those of failed   *)
(* ones go on, and nobody takes what they bring.                           *)
Live(r) == pc = "sherpa" /\ r = renders

(* The thread of render r has worker w, or may have it.                    *)
Runs(r, w) == shards[r][w] # <<>> /\ holder[w] \in {0, r}

Current(r, w) == Head(shards[r][w])

(* The files of a model the worker has not loaded yet are all there ...    *)
ModelChecked(r, w) ==
  LET m == Current(r, w).seg.voice.model IN
  /\ Runs(r, w) /\ loading[w] = Unloaded
  /\ Current(r, w).seg.text # <<>> /\ m \notin loaded[w] /\ AssetsPresent(m)
  /\ holder' = [holder EXCEPT ![w] = r]
  /\ loading' = [loading EXCEPT ![w] = [model |-> m, given |-> Given(m)]]
  /\ UNCHANGED <<planVars, pc, batch, artVars, diskVars, azureVars, shards, loaded, aborted,
                 renders, cause>>

(* ... and then the native constructor opens them.                         *)
ModelLoaded(w) ==
  LET m == loading[w].model IN
  /\ loading[w] # Unloaded
  /\ aborted' = NativeAborts(m, loading[w].given)
  /\ loaded' = [loaded EXCEPT ![w] = @ \cup {m}]
  /\ loading' = [loading EXCEPT ![w] = Unloaded]
  /\ UNCHANGED <<planVars, pc, batch, artVars, diskVars, azureVars, shards, holder, renders, cause>>

(* A thread does the next of its shard, and gives its worker back after    *)
(* the last.                                                               *)
WorkerVoices(r, w, n) ==
  LET it == Current(r, w) IN
  /\ Runs(r, w) /\ loading[w] = Unloaded
  /\ it.seg.text # <<>> => it.seg.voice.model \in loaded[w]
  /\ batch' = IF ~Live(r) THEN batch
              ELSE [batch EXCEPT ![it.pos] =
                      IF it.seg.text = <<>> THEN Ok(Silence)
                      ELSE Ok([bytes |-> Padded(n), says |-> Says(it.seg)])]
  /\ shards' = [shards EXCEPT ![r][w] = Tail(@)]
  /\ holder' = [holder EXCEPT ![w] = IF Tail(shards[r][w]) = <<>> THEN 0 ELSE r]
  /\ UNCHANGED <<planVars, pc, artVars, diskVars, azureVars, loading, loaded, aborted, renders,
                 cause>>

(* The model is not there, or synthesis or ffmpeg fails, or the thread     *)
(* panics: it leaves its shard and its worker.                             *)
ThreadFails(r, w) ==
  /\ Runs(r, w)
  /\ holder' = [holder EXCEPT ![w] = 0] /\ loading' = [loading EXCEPT ![w] = Unloaded]

(* The batch is over with the first failure.  Threads that run cannot be   *)
(* stopped, those that have not begun are.                                 *)
WorkerFails(w, running) ==
  /\ pc = "sherpa" /\ ThreadFails(renders, w) /\ w \notin running
  /\ \A v \in 1..Workers \ {w} : holder[v] = renders => v \in running
  /\ Fail("sherpa")
  /\ shards' = [shards EXCEPT ![renders] =
                  [v \in 1..Workers |-> IF v \in running THEN @[v] ELSE <<>>]]
  /\ UNCHANGED <<planVars, batch, artVars, diskVars, azureVars, loaded, aborted, renders>>

OldThreadFails(r, w) ==
  /\ ~Live(r) /\ ThreadFails(r, w)
  /\ shards' = [shards EXCEPT ![r][w] = <<>>]
  /\ UNCHANGED <<planVars, pc, batch, artVars, diskVars, azureVars, loaded, aborted, renders, cause>>

SherpaEnds ==
  /\ pc = "sherpa" /\ \A w \in 1..Workers : shards[renders][w] = <<>>
  /\ BatchEnds("sherpa")
  /\ UNCHANGED <<batch, artVars, diskVars, azureVars, sherpaVars, renders>>

-----------------------------------------------------------------------------
(* The stream and its manifest, from what the buffers measure.             *)

Duration(n) == n \div BytesPerMs

Starts(sizes) ==
  [i \in DOMAIN sizes |-> Total([j \in 1..(i - 1) |-> Duration(sizes[j])])]

Assemble ==
  LET sizes == [i \in DOMAIN out |-> Padded(out[i].bytes)]
      made  == [i \in DOMAIN out |-> [start |-> Starts(sizes)[i],
                                      end   |-> Starts(sizes)[i] + Duration(sizes[i])]]
      end   == IF made = <<>> THEN 0 ELSE Last(made).end
  IN
  /\ pc = "registry" /\ groups = <<>>
  /\ IF end * BytesPerMs # Total(sizes)
     THEN Fail("mismatch") /\ UNCHANGED <<rows, artVars>>
     ELSE /\ manifest' = made
          /\ stream' = [i \in DOMAIN out |-> [bytes |-> sizes[i], says |-> out[i].says]]
          /\ rows' = segs /\ pc' = "published" /\ UNCHANGED cause
  /\ UNCHANGED <<turns, segs, groups, out, batch, diskVars, azureVars, sherpaVars,
                 renders>>

(* The operator, or an upgrade, changes what is installed.                 *)
Change(m, s) ==
  /\ changes < MaxChanges /\ s \in Installations[m] /\ disk[m] # s
  /\ disk' = [disk EXCEPT ![m] = s] /\ changes' = changes + 1
  /\ snatched' = (snatched \/ \E w \in 1..Workers :
                    loading[w].model = m /\ ~(loading[w].given \subseteq s))
  /\ UNCHANGED <<planVars, pc, batch, artVars, sherpaSays, azureVars, sherpaVars,
                 renders, cause>>

TaskStep ==
  \E k \in DOMAIN tasks :
    \/ PartAnswered(k) \/ PartRetried(k)
    \/ \E n \in Lengths : TaskVoiced(k, n)
    \/ TaskFails(k) \/ TaskPanics(k)

ThreadStep(w) ==
  \/ ModelLoaded(w)
  \/ \E running \in SUBSET (1..Workers) : WorkerFails(w, running)
  \/ \E r \in 1..MaxRenders :
       \/ ModelChecked(r, w) \/ OldThreadFails(r, w)
       \/ \E n \in Lengths : WorkerVoices(r, w, n)

Next ==
  /\ ~aborted
  /\ \/ \E azure, bySentence \in BOOLEAN : Start(azure, bySentence)
     \/ AzureBegins \/ NextChunk \/ TaskStep \/ AzureEnds
     \/ SherpaBegins \/ SherpaEnds
     \/ \E w \in 1..Workers : ThreadStep(w)
     \/ Assemble
     \/ \E m \in Models : \E s \in Installations[m] : Change(m, s)

Spec == Init /\ [][Next]_vars

-----------------------------------------------------------------------------
(* Every variable stays in its range, and the outcomes of a batch are as   *)
(* many as its requests.                                                   *)
TypeOK ==
  /\ turns \in Chapters /\ pc \in {"idle", "registry", "azure", "sherpa", "failed", "published"}
  /\ \A b \in ToSet(groups) : b \in Backends \cup {"gone"}
  /\ DOMAIN out = DOMAIN segs /\ DOMAIN stream = DOMAIN manifest
  /\ \A k \in DOMAIN batch : batch[k].state \in {"none", "ok", "err"}
  /\ pc \in {"azure", "sherpa"} => Len(batch) = Len(Positions(Head(groups)))
  /\ DOMAIN tasks \subseteq DOMAIN batch /\ Cardinality(DOMAIN tasks) <= Concurrency
  /\ \A k \in DOMAIN tasks : tasks[k].attempt \in 1..MaxAttempts
  /\ \A w \in 1..Workers :
       /\ pc = "sherpa" => \A it \in ToSet(shards[renders][w]) : it.pos \in DOMAIN batch
       /\ holder[w] \in 0..MaxRenders /\ loaded[w] \subseteq Models
  /\ disk \in [Models -> SUBSET Files]
  /\ renders \in 0..MaxRenders /\ changes \in 0..MaxChanges
  /\ cause \in {"none", "refused", "voice", "azure", "sherpa", "mismatch"}

(* A published chapter says every word of its prose once, in order, each   *)
(* in its own turn's voice, however texts were cut, batches were grouped   *)
(* and results came back; and cutting what is cut already changes nothing. *)
SaysEveryWord ==
  pc = "published" =>
    /\ FlattenSeq([i \in DOMAIN stream |-> stream[i].says])
         = FlattenSeq([i \in DOMAIN turns |-> Says(turns[i])])
    /\ SplitBySentence(SplitBySentence(segs)) = SplitBySentence(segs)

(* Manifest::segment_at_ms, the player's look-up.                          *)
SegmentAtMs(ms) ==
  {i \in DOMAIN manifest :
     /\ manifest[i].start <= ms /\ ms < manifest[i].end
     /\ \A j \in 1..(i - 1) : ~(manifest[j].start <= ms /\ ms < manifest[j].end)}

(* What the player shows is what it plays: every millisecond of a chapter  *)
(* belongs to the segment whose bytes are at that offset of the stream;    *)
(* and the engine's own check of this never fails a chapter.               *)
ShownIsPlayed ==
  /\ cause # "mismatch"
  /\ \A i \in DOMAIN stream :
       LET before == Total([j \in 1..(i - 1) |-> stream[j].bytes]) IN
       \A ms \in 0..(Total([j \in DOMAIN stream |-> stream[j].bytes]) \div BytesPerMs) :
         ms * BytesPerMs \in before..(before + stream[i].bytes - 1) => SegmentAtMs(ms) = {i}

(* The process exits under sherpa-onnx only if a file a worker had just    *)
(* found was taken away before the constructor opened it: not for what     *)
(* went missing, was half installed or replaced at any other time since    *)
(* availability was judged, nor for a thread that outlived its render.     *)
AbortsOnlyWhenSnatched == aborted => snatched
=============================================================================
