# A TLA+ model of endlesslitrpg

endlesslitrpg writes a LitRPG serial for one listener: a local language model writes a chapter,
a second pass extracts the state changes, a validation gate judges them, speech backends render
the chapter, and a small HTTP daemon streams it to a watch. Three kinds of process share one
SQLite database and one media directory, and nothing but SQLite's own locks orders their writes:

- `litrpg-engine`, the chapter loop (one process; `crates/litrpg-engine`),
- `litrpg-daemon`, the HTTP API (`crates/litrpg-daemon`),
- `litrpg`, the operator's command line (`crates/litrpg-cli`).

`litrpg-store` is the database layer all three link, `litrpg-core` the pure code (fold, gate,
manifest), `litrpg-ember` the client of the language model, `litrpg-tts` the speech backends.
Paths below are relative to `src/crates/`.

## Inventory

| Part | State it keeps | Operations | What is hard | What makes it correct |
|---|---|---|---|---|
| Chapter cycle (`litrpg-engine/src/cycle.rs`) | a dozen locals that live across awaits; the failure counts of resumed renders, in memory | `run_cycle`: resume a render, measure the buffer, drain notes, pass 1, cast, pass 2, insert, lore, gender, deltas, summary, render, consume notes | each store call is a transaction of its own, so the other processes write between any two; any call may fail, the process may die anywhere | notes steer one chapter and are told once; clean chapters are complete; a chapter that cannot be rendered blocks nothing |
| Main loop (`litrpg-engine/src/main.rs`, `deploy/litrpg-engine.service`) | count of chapters produced, the signal listener at hand, the unit's state | poll, cycle, sleep, stop on a signal; start, restart, kill | signals during a cycle, failures that must not end the loop, outages at a restart | stops cleanly when asked, spares the chapter in flight, comes back |
| Heartbeat (`litrpg-store/src/heartbeat.rs`, `litrpg-cli/src/engine.rs`) | one row | stamp at every phase, judge its age | long phases, full buffers, lost stamps | a live engine is never called stopped |
| Ledger and gate (`litrpg-store/src/ledger.rs`, `litrpg-core/src/{ledger,validate}.rs`) | ledger rows, never deleted | append a judged delta, fold, rewind, preview | verdict and row are apart; gate and fold compute separately; rows come and go with rewinds | sheets stay within their bounds, rewinding restores them |
| Aliases (`litrpg-store/src/alias.rs`) | alias rows | resolve, seed at an upgrade | merges histories that were judged apart | one character, one sheet |
| Publication (`litrpg-engine/src/publish.rs`, `litrpg-store/src/chapters.rs`) | files, the audio flag, the segments | write, encode, attach, clear | four writes that are not one; readers meanwhile | audio that is announced is there, and of one render |
| Cast and voices (`litrpg-engine/src/{cast,voices}.rs`, `litrpg-cli/src/cast.rs`) | cast rows; the voice plan of a running engine | reconcile the configuration with the build, assign, correct by gender, override, substitute | the operator overrides while a cycle holds a copy; a finite pool; builds with other backends | an established voice stays, every render is renderable, characters sound apart |
| Ember client and parsing (`litrpg-ember`, `litrpg-engine/src/{adapters,canon}.rs`) | none that lasts | two passes with rising temperatures, tags into turns, names into keys | a model that cuts off, misspells, renames and forgets | no line lost, one key per person, no chapter forgotten |
| Story row, premise, cursor (`litrpg-store/src/story.rs`, `litrpg-engine/src/library.rs`, `litrpg-cli/src/{init,prompt,story}.rs`) | one row: title, protagonist, prompt hash, cursor; `prompt.md` | init, edits, setters, read-modify-write | three processes write one row; the file, the row and the chapter change apart | status tells which premise is in effect; no setter undoes another |
| Library (`litrpg-store/src/library.rs`, `litrpg-ember/src/prompt.rs`) | summaries, lore | remember, choose what the next prompt carries | keywords inside words, chapters without a summary | the prompt carries what it should |
| Throttle (`litrpg-store/src/buffer.rs`, `litrpg-daemon/src/{buffer,progress}.rs`, `litrpg-cli/src/listened.rs`) | target rows, the cursor | bump or set, measure | cursor, depth and target are read apart while others move them | never more chapters than were asked for |
| Speech (`litrpg-tts`, `litrpg-engine/src/render.rs`, `litrpg-core/src/manifest.rs`) | models in memory, requests in flight | split, route, chunk, retry, shard, join, measure | results in any order, panics, threads that cannot be stopped, a native library that exits the process | every word once, in its voice; what is shown is what plays |
| Daemon media (`litrpg-daemon/src/{media,range,chapters}.rs`) | none | ranges of a file, chapter detail | size and bytes are read apart, as are row and segments | never more bytes than promised |
| Schema (`litrpg-store/src/{lib,migrations}.rs`) | `user_version`, tables | apply what is missing | a crash between two statements, two first openers | nobody works on half a schema |

Parts that only read and format (state, feed, play, read), configuration and logging
are listed in `PROJECT.json` with the reason they have no module.

How they meet: the engine and the daemon never talk; each reads what the other wrote at its next
statement. The daemon serializes its own requests on one mutex, and so does the engine, but neither
lock reaches the other process. The command line opens the database, writes and exits. All that
makes the hard behaviours: an operator's write lands between two reads of a cycle, and a cycle's
local copy outlives the row it was read from.

## Modules

| Module | Models | Grain |
|---|---|---|
| `ChapterCycle` | `run_cycle`, the loop around it, crashes, and what the other processes write meanwhile | one action per step that reads or writes the store |
| `Serial` | the abstract promise of the loop | a serial that grows by one, audio that comes and goes, notes stamped once |
| `Generation` (over `Prose`, `Names`) | steps 3 to 7: drafts, parsing, cast rows, replies, resolution of names, lore, deltas, summary | one action per call of the model and per row |
| `Casting` | voices, from the configuration of a build to the audio of a chapter | one action per speaker |
| `Story` (over `Schema`) | the premise, the story row, cursor and target, the library; the commands and the daemon's orders that change them | one action per statement |
| `Speech` | from the turns of a chapter to its stream and manifest | one action per request, worker step and batch |
| `Publication` | the life of one chapter's audio, with the daemon reading and the operator re-casting | one action per file operation |
| `Ledger` | the gate, the fold, `append_delta`, rewind and its prompt, aliases | verdict and insert are two actions |
| `MainLoop` | the life of the engine process: startup, turns, signals, heartbeat, systemd | one action per decision of the loop; time in ticks |
| `..._proofs` | the proofs about the module of that name | |
| `MC...` | instances for TLC | |

The engine appears in each module as the part of `run_cycle` that the module is about, and the rest of
the cycle as the one step it is to that part. `ChapterCycle` is the frame: its step `pass1` is drawn out in
`Generation` and `Story`, `cast` in `Casting` and `Generation`, `render` in `Casting`, `Speech` and
`Publication`. The steps have the same order in each. Each module has the failures and the crashes
that its own variables can tell apart; what fails elsewhere in the cycle is there the step that ends it
(`CutShort`, `Abandon`, `RenderFails`, `Abort`).

### ChapterCycle

`pc` names the step `run_cycle` is about to take. `resume` is step 0 (`next_resumable`), `rerender`
the resumed render, `measure` and `decide` the two halves of step 1, `drain` the notes, then
`pass1` (step 3), `cast` (the voices of step 4 and pass 2), `insert`, and, once the chapter row exists,
`extract` (lore, deltas, summary), `render` (steps 8 and 9) and `consume` (the notes, step 10). Variables that mirror tables have the names of the tables or of
the functions that read them (`chapters`, `hasAudio`, `ledger`, `pendingNotes`, `bufferDepth`);
`cursor`, `depth`, `number`, `notes`, `speakers`, `extraction` are the locals of `run_cycle`;
`resumeFailures` is the engine's map, which a crash empties. A `?` after the insert is `CutShort`:
the cycle ends and the chapter stays as it is. The operator and the listener (`PostNote`, `Listen`,
`RecordTarget`, `RequestRender`, `Rewind`) act at any time. What the gate answers is part of the
proposed delta here (accept, reject or discard) except for the one answer that depends on the
order of steps, whether the subject is known.

History variables (`told`, `extracted`, `arrivedDuring`, `cut`) are read by
properties only. Retries inside a pass write nothing and are one step.

### Generation, Prose, Names

`Names` is `canon.rs` and `speaker.rs` on names as sequences of words: `SameSpeaker`, `PrefixRelated`,
`Resolve`. `Prose` is `parse.rs`: a line opens with a tag or not, the tag is sound or not, and its text is
the number of the line, so that a line that is lost, repeated or given to another speaker shows; a text may
begin with colons (`Colon`), and `split_tag` takes the first one after a tag (`LineText`) and the last
one in it (`NameOf`, `TagSpeaker`).
`ChapterMarkdown` is the file a resumed render parses again. `ParseTaggedProse` is a fold over the
lines, a recursive function of the number of lines read. In `Generation`, `Answers` is what a call
of the model ends in, a client error included, `Pass1Temperatures` and `Pass2Temperatures` are the
planned attempts, `Parsed` the parse of each draft. Prose of blank lines costs an attempt (`Pass1Error`),
prose of tags alone ends the cycle (`Pass1Empty`). A store that fails ends it where it fails, and so
does a crash: `CastingBreaksOff` leaves the rows of the first turns, `CutShort` whatever has been written of lore
and ledger; `cut` (history) is the chapters that were in the store by then. `offered`, `before` and the knowledge `AppendDelta` reads are three reads of the store
at three moments, as in the code. The four views of who is who (`KnownSubjects`, the names of the
cast, of the lore, of the ledger) are operators on the same tables. `Namesakes` are people whose name
begins with a short name of the protagonist: `Resolve` may give his short name for theirs, which is the
exception in `OneKeyForTheProtagonist`; the run has one (Kaelen Ash, where the protagonist is Kaelen Vord Dun).

### Casting

`Start(B)` is an engine built with the backends `B`: `PlanVoices` reconciles the configuration with
them (`plan_voices`), `narrator`, `system` and `pool` are its result. A cycle reads the cast (`known`),
draws one voice per new speaker (`CastNext`), writes the rows (`Cast`), corrects newcomers by gender
(`RegenderNext`), gives one substitute to each speaker this build cannot render (`SubstituteNext`, a single pass over
the speakers; `meant` is the plan before it) and renders what came out. `Replanned`
is the plan of a resumed chapter. `Die` loses everything but the store, and the next `Start` may be
of another build. The operator's `CastSet` and `RequestRender` come between any two steps;
`CastOrders` is what he may say. Sequences of voices are filtered and interleaved with `FlattenSeq`.

### Story, Schema

`Schema` is `Store::open` for any number of processes on one database file: `MIGRATIONS` gives the
number of statements of each migration, `objects` the statements the database has seen, `opening`
where each process is in `migrate`. A statement that has been run cannot be run again. `Story` runs the engine's turn, the operator's `init`, `prompt` and `story`, and
the daemon's progress and buffer handlers over it. A hash is the text it is of. `litrpg render` (`RenderCommand`, `RenderClears`) takes
chapters back into the queue, one statement each, while the throttle measures. `told` is the prompt
that pass 1 is given: the premise, the last summaries, the lore `match_lore` picks; texts are sequences
of characters there, because the search for a keyword is about their neighbours. `newest` is the newest
chapter with the premise it was written from. The lore is keyed by name (`upsert_lore`); pass 2
never files an entry that is always told, so `OwnLore` is what somebody has put into the database by
hand. What the store orders (summaries by chapter, lore by weight) is the listing of a set in that
order. `seeded`, `missed`, `asked`, `furthest`, `most` and
`lacked` (the chapters that were without audio when the throttle may have looked) are history.

### Speech

A text is its words with their lengths, sound is a number of bytes and what it says in which voice,
and a voice carries the model it is made of. `Sentences`, `Pack` and `Total` are recursive functions.
`Start` plans and routes (`SplitBySentence`, `GroupsOf`, `Refused`), `AzureBegins` to `AzureEnds` are a batch of
requests in chunks, joined as they end (a result goes to the place of its request, whenever it comes), `SherpaBegins` to `SherpaEnds` a batch in shards whose workers
load models when they first need them, in two steps: the files are looked for (`ModelChecked`), and then
the native constructor opens them (`ModelLoaded`, `NativeAborts`). `Assemble` measures what came back and writes the
manifest. The threads of a failed batch go on with their shards, load models and hold their workers
(`shards` and `holder` are by render), and nobody takes what they bring. `Change` is
somebody installing or removing a model while the engine runs, the moment between the two steps included; `snatched`
(history) says that it took a file of a model being loaded. External: which files the native code exits
over (`Enough`), and that it does so at the constructor. One look at the disk stands for the `exists()` of each file
of a model.

### Publication

The voice a chapter is rendered in stands for the render. Each file is written to a temporary one
(`OpenTemp`, `FillTemp`) and renamed (`RenameTemp`), in the order .pcm, .mp3 (encoded from the
.pcm on disk), .json; `AttachAudio` is the transaction of `attach_audio`. `Abort` is an error of any
step or a crash. The daemon's handlers are two actions each, because they read twice.

### Ledger

`Judge` is `append_delta` up to the verdict, `Record` its insert, `Lose` its failure. `fold` is the
fold of litrpg-core with its two quirks: `Set` prefers the number, and `Sub` negates before it adds
(`Negated` wraps at the smallest integer, as a release build does). `FieldVerdict` is
`validate_delta` rule by rule, with the rejections' names. `Deactivate` is `Store::rewind`;
`PlanRewind`, `ConfirmRewind` and `DeclineRewind` are the command that asks first. `SeedAlias`
is migration 007's step, which a newer binary may run while the engine is between verdict and row.
Integers are `IntMin..IntMax`, two's complement of any width. A row that subtracts the smallest
integer wraps (`Wraps`) and is the exception `Wrapped` in `SheetsWithinBounds` and `NeverRegress`.
`closing` is history: the sheets as each chapter ended, which `RewindRestores` compares with the fold
of the ledger rewound to it.

### MainLoop

A turn of `run_cycle` is here the sequence of its long phases (`resume`, `write`, `extract`,
`render`), each with a length it may not exceed (`Longest`); `ChapterCycle` has what it does to the
story. `phase` is where `main` is, `work` the ticks it has spent there, `beat` the age of the heartbeat
row, `unit` and `waited` what systemd knows. `handled` and `heard` model tokio's signals (external):
the first listener of the process (`Listen`) replaces SIGTERM's default effect for good, and a listener
hears only what arrives while it exists (`Listening`). `Stop`, `Kill`, `Start` and `Launch` are systemd,
`Restarts` its `Restart=on-failure` without status 2. `Exit` is every end of the process.

## Runs

Passing runs:

| Run | Question | Bounds | States |
|---|---|---|---|
| `CycleSafety` | does the loop keep its promises when anything fails or crashes and the operator interferes? | 2 chapters, 2 notes, 2 faults, 1 command | 1.3 million |
| `CycleLiveness` | does the serial go on, with a chapter no backend can render? | 3 chapters, 1 fault (possibly a lasting outage), 1 command, 2 retries | 39,000 |
| `Generation` | does a chapter survive everything the model does to its prose, its replies and its names, and a cycle that ends early? | 2 chapters, drafts of up to 3 lines, 1 lore entry and 1 delta each, every step cut short | 272,000 |
| `Casting` | is every render renderable, are characters told apart, and is audio in the voices of the cast? | 2 chapters, 2 characters, 3 builds, 1 fault, 2 commands | 1.8 million |
| `Ledger` | do sheets stay legal and rewinds restore them, at the edge of the integers and across a merge of two names? | 2 chapters, 3 rows, 4-bit integers, the seeded alias | 564,000 |
| `Speech` | does a published chapter say its words in its voices, whatever order they come back in? | 6 chapters of up to 5 segments, chunks and shards of 2, 2 attempts, 2 renders, 1 change on disk | 930,000 |
| `Story` | does everybody work on one whole schema, and do premise, library and buffer stay in step? | 3 chapters, 3 orders (renders asked for anew among them), 1 fault, 2 migrations of 2 and 1 statements | 2.5 million |
| `Publication` | is announced audio always there, whole, and in the right voice, and does it come? | 2 voices, 2 faults, 3 commands | 34,000 |
| `MainLoop` | is a live engine never called stopped, does it spare its chapter when stopped, and survive failures? | 3 command lines, 2 faults, 1 start or stop; the configured intervals in ticks of 30 s | 290,000 |

Why the bounds are enough: two chapters are the least that tell "the chapter under way" from "an
earlier one", three let a resumed chapter be neither the first nor the last and let a summary fall out of a
window of two; two notes may be on
different sides of the drain; two faults allow a failure during the recovery from another; three
ledger rows allow a rewind between rows that depend on each other and a row after it. Four-bit
integers meet every sign and both ends of the range within a few rows. The retry cap is 1 or 2
instead of 3: what matters is that it is reached and that a failure below it is retried. Chunks, shards and
attempts of two have a first, a last and a second round. Two migrations, one of them of two statements,
give a process that stops within a batch, between two, and before the version is written. The chapters
of `Speech` and the drafts of `Generation` were chosen to contain each kind of text, voice and tag the code
tells apart (named in their MC modules).
`CHECK_DEADLOCK` is off where the bounds really end the story (`Generation`, `Speech`, `Story`); elsewhere
some process can always act.

Fairness: `CycleLiveness` assumes weak fairness of the engine's own steps (the loop calls
`run_cycle` forever and each await ends, for every call has a timeout) and of the restart (systemd
restarts the engine). Nothing is assumed of the operator, the listener or the speech backend,
whose faults are bounded in number, not in duration: the last outage may last for ever.
`Publication` assumes weak fairness of the engine alone; its liveness property is checked over the
same behaviours as its safety properties. `MainLoop` assumes weak fairness of the engine's steps, of
time, of systemd's restart and kill, and that Ember comes back in the end; faults and commands are
bounded. Its lengths are those the code is written for: 300 s before SIGKILL and 45 s between turns
(rounded down to a tick; the threshold of 900 s is exact) are configured, and cycle.rs:320-321 measures
60 s for generation and 140 s for a render.

Runs that end in a violation, each the counterexample to a sentence in the repository:

| Run | Sentence | What happens |
|---|---|---|
| `NoteDuringCycle` | cycle.rs:800, "the notes were honoured by the prose" | a note posted after the drain is stamped by a chapter that never saw it |
| `StopDuringCycle` | deploy/litrpg-engine.service:35, "Signals are checked *between* cycles"; main.rs:479, "already pending" | a SIGTERM during a turn reaches no listener: the loop sleeps and begins another turn, until SIGKILL |
| `RenameReverted` | engine library.rs:130, one lock, "otherwise a concurrent `litrpg init --force --protagonist X` could be reverted by this write" | the lock is the engine's; the operator's process renames between the read and the write and is reverted |

Other differences between the code and what the repository says of it, met while modelling. The
models behave like the code in each of them; no run is spent on them.

Cycle and loop:

- main.rs:416-417 calls stopping between cycles always safe, and the design document (:887) has every
  stage resumable; a crash after `insert_chapter` and before the deltas and the summary leaves a clean
  chapter that is never completed and that nothing marks (`Crash`, `CutShort`; the exception `cut` in
  `CleanChaptersComplete` and `WholeAndRemembered`).
- cycle.rs:350 wants both halves of `buffer_depth < buffer_target` current; the cursor is read at the
  top of the cycle (`BeginCycle`) and the depth measured from it after a resumed render (`MeasureBuffer`).
- The depth counts chapters with audio only, so during an outage of speech the engine writes on past the
  target, and `litrpg render` takes chapters out of the depth in the same way (`lacked` in `BufferBounded`).
- cli render.rs:52 answers "Already awaiting a render" for a chapter whose retries are used up; the
  count is in the engine's memory and only a restart resets it (`resumable`, `RequestRender`). And :66-67
  says a render will change the audio; asked for while the chapter is being rendered, it changes nothing.
- deploy/litrpg-engine.service:15-16 has systemd restart an engine that starts without the network;
  such a start ends with 2, which :43-45 of the same file exempts from restarts (`StartupFails`,
  `Restarts`). After a crash during an outage the unit stays down (the exception in `CrashedComesBack`).
- cycle.rs:316-317 bounds the heartbeat's age by the longest single phase; a failed resume leaves no
  heartbeat, so it and pass 1 add up (`ResumeFails`).
- store heartbeat.rs:5 makes staleness depend on the engine's `poll_interval_secs`; the CLI takes its
  own configuration's, so an engine started with a long `--poll-secs` is called stopped while it sleeps
  (`ConfigTicks` and `PollTicks`, equal in the run).
- main.rs:438 has a failing cycle logged; with `--once` it ends the process as "startup failed"
  (`CycleFails`), and `--chapters 0` still runs one turn (`EndTurn`).

Ledger:

- The design document (:512-513) has every applied row legal on top of those before it; a rewind that
  slips between verdict and insert makes a sheet illegal (`Judge`, `Record`; `raced` in the properties).
- rewind.rs:3-5 says the plan "cannot describe something different" from what is done; rows appended
  while the operator reads the prompt are deactivated too (`PlanRewind`, `ConfirmRewind`).
- design document :491 has a rewind make the snapshot "simply correct again"; the chapter that is
  being generated goes on appending rows past the chapter rewound to (`Rewind`, `AppendDelta`). And
  :794 has it drop chapters, which the command does not do and says so (`litrpg-cli/src/rewind.rs:75`).
- README.md:44 and the design document :502 promise hit points within the maximum; the gate compares
  a new `hp` with `max_hp` but not a new `max_hp` with `hp` (`AboveMax`; the exception `Outgrown` in
  `SheetsWithinBounds`).
- The gate computes a subtraction with `saturating_sub` (validate.rs:130), the fold with `-magnitude`
  (core ledger.rs:99); they differ for the smallest i64, which wraps or panics (`Proposed`, `Negated`).
- validate.rs:159 has text fields assigned absolutely; one with a text and a number passes the gate and
  folds as the number (`TextVerdict`, `Effect`).
- The seeded alias merges two sheets that were judged apart, and the merged one may be illegal
  (`SeedAlias`): hence `~merged` in the properties of sheets.

Generation:

- adapters.rs:78 asks pass 2 at the temperature 0.0 in every attempt, though cycle.rs:56-57 and
  `Pass2Temperatures` plan jitter for its retries.
- extract.rs:319-322 fails a whole reply for one malformed delta; cycle.rs:722-726 says the offender alone
  is dropped.
- canon.rs:141-142 counts on the cast and lore for established names; a person in the lore of chapter 1
  as "Sera" who first speaks in chapter 2 as "SERA" has two keys in the ledger (`Resolve`).
- canon.rs:116-152 gives the protagonist one key; where the cast knows him by a short name, a stranger whose
  name begins with it is resolved onto that short name (`Namesakes`).
- cycle.rs:969-971 has a resumed render fall back on the chapter's markdown; a segment whose
  text begins with a colon loses it there, and a speaker whose name ends in one changes (`LineText`,
  `NameOf`; `WithoutColons` in `TurnsAsWritten`).
- parse.rs joins neighbours whose speakers are equal up to ASCII case, identity keys lower all of Unicode;
  `Prose` has one notion of case.

Publication and speech:

- cli render.rs:63 has a re-render overwrite the media "on success"; the .pcm is replaced before the
  .mp3 is encoded and the manifest attached (`RenameTemp`).
- media.rs:170 streams "exactly `len` bytes"; a shorter file that has replaced the one whose size was
  promised gives fewer (`StreamMedia`).
- design document :792 lets the operator override a voice; the gender correction of the cycle that
  cast the character overwrites an override made meanwhile (`Regender`).
- sherpa/engine.rs:392-393: "a bad cast assignment should cost nothing"; `render_all` resolves backends
  before it asks any, not voices, so the Azure segments are rendered and paid for before a sherpa voice
  that cannot be resolved fails the chapter, at every attempt (`Refused`, `SherpaBegins`).
- sherpa/engine.rs:41-45 has checking the assets convert "an unkillable process abort into a catchable
  `TtsError::ModelMissing`"; a file that goes between the check and the constructor still ends the process
  (`ModelChecked`, `ModelLoaded`; `snatched` in `AbortsOnlyWhenSnatched`).
- registry.rs:84-86 has only usable voices advertised; sherpa's `voice_descs` (sherpa/mod.rs:269) lists
  those of models that are not installed too. `refresh_availability` and
  `with_normalize(false)`, which sherpa's documentation asks callers to use, have none.
- Azure's 200 with an empty body makes a segment of no length. The proofs allow it (`Lengths` are
  naturals); the run's lengths are positive.

Story and store:

- store lib.rs:156 calls `migrate` idempotent; the version is written after the last batch, so after a
  crash in between, or with two first openers, a statement is repeated, fails, and no process can
  open that database again (`Migrate`).
- `init --force` reads the row and writes it back too (`InitReads`, `InitWrites`), with the same window
  as `RenameReverted`; a chapter can be written from the starter template; and a crash between the insert
  of a chapter and `set_prompt_hash` leaves the older premise recorded (`missed`).
- cli status.rs:296 says of a missing prompt file that "chapters keep generating" from the prompt in effect
  (and tests/commands.rs:666 agrees); the engine reads the file for every chapter and fails the turn without it
  (engine library.rs:75, `NoStory`). No property is about that message.
- `litrpg prompt` complains of an empty file and leaves it on disk (`EditPrompt`).
- `litrpg status` and `litrpg listened` judge the buffer by the configured target and by the run of playable chapters
  (cli main.rs:242, status.rs:35-92), the engine by the recorded target and all chapters that are ready.

## Proofs

TLAPS proves, for every value of the constants that satisfies the named assumptions, every invariant
that a run checks. Each module's proof has the same shape: an inductive invariant (mostly named
`IInv`; `CycleInvariant`, `Sound` and `StopInvariant` elsewhere) of named parts that the properties need;
one lemma per action or per part; and a theorem per property that follows from the invariant.

Where a definition is a recursion over data (a fold of rows, the parsing of lines, sums of lengths,
places in a sequence) the proof is an induction all the same: the set of the counterexamples' sizes is
a set of naturals, so it has a least element (`Least`, from `WFMin`), and that one would have a
smaller one. `Shortest` says it for sequences. The recursive functions are given as
`CHOOSE f : f = [...]`; that there is such an `f`, and only one, is shown first (`JointsExist`,
`SheetsExist`, `ScanExists` and the like). The library's induction theorems, which take an operator as
a parameter, cannot be used with the installed provers, and they are not needed. `Least` and what
follows about `FlattenSeq` are repeated in the proof modules that need them, as these extend the modules they
are about and not each other.

`ChapterCycle_proofs`: `TypesAndBookkeeping`, with the corollaries `TypeCorrect`, `StampsAreEarned`
(`PromptCarriedItsNotes`) and `NotesSteerOnce` (`NoteToldOnce`). The two properties of notes relate
the stamp of a note to the prompts of the past, and are not inductive: nothing in them says what
the engine's copy `notes` has to do with the table between step 2 and step 10. `CycleInvariant`
adds that. Its parts: chapters are numbered without a gap, so `MAX(number)` is their count
(`Contiguous`); the chapter under way is the next one before the insert and the last one after it
(`UnderWay`); what was drained was pending, and what is pending and was not drained arrived during
this chapter (`DrainedAreKnown`); what a prompt carried and is still unstamped belongs to a cycle
that was cut short or to the one under way (`ToldBookkeeping`). One lemma per action carries it,
and shared lemmas cover the steps that leave one side of it alone. On top of it,
`LoopImplementsSerial` (`SerialPromise`): under the mapping `latest`, `has_audio`, notes, stamps and the
chapter between its row and its boundary, the loop starts as the serial starts and each of its steps is
a step of `Serial` or invisible. `Contiguous` is what makes `MAX(number) + 1` the next chapter, and
`UnderWay` what makes the stamp the chapter just written. `CleanChaptersAreComplete`
(`CleanChaptersComplete`) needs `Recording`: while the deltas of a chapter are recorded, those before
the next one have their rows, the cycle goes on with the extraction the chapter was written
with, and it begins with the first delta. `RowsStay` is what the other processes must respect, and do: a rewind
changes verdicts and deletes no row. Assumptions: `BoundsAssumption` and
`StoryAssumption`, which give the constants their types.

`Ledger_proofs`: `LedgerIsSound` (the types and `NoGhosts`), `GhostsStayOut`, and `RowsAreForEver`
(`AuditTrail`). `NoGhosts` needs what is between verdict and row to be a known character's
(`JudgedKnown`) and survives the upgrade that merges two names because before it every name stands for
itself (`OwnNames`); `Room` bounds the rows, and with them the count an operator is told.
Then the sheets: `RowsAreJudgedOnTheirPast` (`JudgedOnItsPast`), `SheetsStayWithinBounds`
(`SheetsWithinBounds`), `RewindIsFree` (`RewindRestores`) and `LevelsNeverRegress` (`NeverRegress`).
`FoldIs` writes the fold as the last of a sequence of sheets, one after each row (`Sheets`), and
`SameSheets` has two ledgers that agree on the rows that count give the same. `Sound` is the invariant: rows stand
in the order of their chapters (`Ordered`), so that a rewind strikes out a tail (`Cut`); each row that counts passed the gate on
the sheets before it (`RowsLegal`), and so does the one between verdict and insert (`JudgedLegal`);
the ledger without the later chapters folds to each chapter's closing sheets (`Restored`); and what has
been judged of level and experience does not lie below them (`Grown`). `GateKeepsBounds` and
`GateGrows` are the gate itself, for one row: what `validate_delta` accepts keeps a sheet within its
bounds. That hit points stay within their maximum unless that was written after them is not a fact of a
sheet but of the rows: `Capped` says it of each prefix of the ledger, and `LegalRowsKeepMax` shows it by
the least prefix of which it would not be true. They hold unless the row wraps an integer; that is the exception `Wrapped` in the properties.
Assumptions: `WidthAssumption`, `NamesAssumption`, `FieldsAssumption`, `LimitsAssumption`.

`Generation_proofs`: first the parser. `ParseIsFaithful`: the turns of any draft say each of
its lines once, in order, under the speaker its tag names, and no two neighbours have one speaker.
`RoundTrip`: `ChapterMarkdown` of any such turns is parsed to the same turns, which is what a resumed render
relies on, provided no turn begins and no name ends with a colon (`WithoutColons`): those the parser takes away
as the tag's. Without that, the turns read again still say what the markdown says (`MarkdownWritten`, which makes
it lines, and `ParseIsFaithful`). Then the invariant of the cycle, `GenerationIsSound`, with `GenerationIsTyped`,
`TurnsAreTheProse` (`TurnsAsWritten`), `TheProtagonistHasOneKey` (`OneKeyForTheProtagonist`),
`ChaptersAreWholeAndRemembered` (`WholeAndRemembered`) and `OfferedNamesAreAccepted`
(`OfferedNamesAreKnown`). `InHand` says that the turns are those of the prose in hand, `Told` that of the clean chapters exactly the
one being worked on and those cut short are without a summary, `Offered` that a name offered to pass 2 stays known whatever rows are
added, unless it is filed as something other than a person, and `Keys` that every key written is what
`Resolve` gives: it never answers with another form of the protagonist's name, but for a namesake's.
Assumptions: `NamesAssumption`, `TagsAssumption`, `SpeakersAssumption` (which speaker is a role, and that
what is none has a spelling), `DraftsAssumption`, `ExtractionsAssumption`, `BoundsAssumption`.

`Casting_proofs`: `CastingIsSound`, with `CastingIsTyped`, `VoicesAreRenderable` (`RenderableVoices`),
`VoicesAreDistinct` (`DistinctUnlessCrowded`) and `AudioIsInTheCastsVoices` (`AudioMatchesCast`). About
`plan_voices` it is shown that the pool has no voice twice and neither the narrator's nor the
system's. `RowsSeen` ties the engine's copies to the table: while speakers are cast, a row
the engine set last is one it knew or one it wrote, although the operator overrides others
meanwhile. `NewVoices` and `VoicesToCorrect` follow a newcomer's voice from the draw to the correction by gender: it is nobody
else's, and the correction knows all that are taken. `VoicedAreKnown` has the speakers of every chapter with audio
be no newcomers, so that no correction changes a voice that has been heard. `PlanMatchesCast` ties the plan
to the cast, as far as this build has its voices. `StandInsOwn` follows the pass of substitution: what is usable
in the plan is taken, so that a voice given next is nobody's, or the narrator's or the system's. Assumptions: `VoicesAssumption`,
`SpeakersAssumption`, `BackendsAssumption`, `LimitsAssumption`.

`Speech_proofs`: first the texts. `SplittingLosesNothing`: `SplitBySentence` drops, adds, moves and
revoices no word of any chapter, and applied again changes nothing, which is why segments that were stored can be
split again. `RequestsLoseNothing`: nor does the limit on a request. Then every render, `SpeechIsSound`, with
`SpeechIsTyped`, `EveryWordIsSaid` (`SaysEveryWord`), `WhatIsShownIsPlayed` (`ShownIsPlayed`) and
`OnlyTheWindowAborts` (`AbortsOnlyWhenSnatched`). `InTheAir` bounds the requests in flight and keeps those that wait
apart from them; `Sharded` has every request without a result in the shard of some worker of this render, so that a batch that ends is complete;
`FoundWhole` says of a model being loaded, for whatever render, that its check found all it needs, and that what it
found is there still unless it was taken away since;
`Asked` ties the results of a batch to the first group's segments, whatever order they come in;
`Gathered` ties what has been gathered to its segment unless its group is still to come; `IsTheProse` ties rows and
segments to the turns; `AsRendered` and `Addressed` the stream and the manifest to the segments. The last
rests on sums: a segment's start times the bytes of a millisecond is the total of the bytes before
it (`StartsAre` and the lemmas on `Total`), because each piece of sound is a whole number of milliseconds.
Assumptions: `ChaptersAssumption`, `SizesAssumption`, `BoundsAssumption`.

`Publication_proofs`: `PublicationIsSound`, with the corollaries `AnnouncedAudioIsThere` (`AudioIsPublished`),
`QueuedMeansRendered` (`QueuedRequestHonoured`), `PublicationTypes`, and the separate `VoicesStay` and `FirstAudioFits`.
`AudioIsPublished` is not inductive: it says nothing while the flag is clear, which is when files
change. `PublishedSoFar` says it: during a render the flag is clear, a file that has been renamed
is of the plan, and the temporary file is of the one being written. `Requests` does the same for
requests, `Readers` for the daemon's two-step answers. Assumptions: voices are not the two marker
values, lengths are numbers.

`MainLoop_proofs`: `LoopTypes`, `SleepersStopCleanly` (`IdleStopIsClean`), `ChaptersAreSpared`
(`StopSparesItsChapter`), `LoopGoesOn` (`LoopNeverGivesUp`) and `AliveIsFresh` (`AliveIsNotStale`), for all
lengths of phases and intervals.
`AskedAsleep` strengthens the first: a stop heard in the sleep freezes the clock of the sleep, so no
timer can win against it. `WaitedSoFar` strengthens the second: how long systemd has waited is at most
the time of the phases since the turn began. It rests on `ChapterFits`, that pass 1, pass 2 and a render
together are shorter than `TimeoutStopSec`: that is the premise of the unit file's comment and is a
hypothesis of the theorem. `Beating` is for the heartbeat: its age is at most the time since the last
stamp was due, plus a whole gap for every fault so far. A gap (`Gap`) is the longest stretch between two
stamps: a failed resume, pass 1 and a sleep, which has no stamp between them, or a phase after them. The theorem's hypothesis is
`BeatsFit`: the stamps that `MaxFaults` faults can lose in a row, and one gap more, fit into the CLI's
threshold. With the configured intervals and two faults they do (24 ticks of 30), and without such a premise
the statement is false, as cycle.rs:316-317 concedes. Assumptions: `TicksAssumption`, `LimitsAssumption`.

`Story_proofs`: `TypeCorrect`, `OpenedDatabaseIsMigrated` (`OpenedIsMigrated`),
`EditIsPendingUntilUsed` (`EditPendingUntilUsed`), `BufferIsBounded` (`BufferBounded`) and
`ThePromptRemembers` (`PromptRemembers`), for any number of migrations, premises, texts, orders and faults. `OpenedIsMigrated` says nothing of a process
that is still migrating; `SchemaInv` adds that it has every statement before its own behind it
(`Before`) and that whoever has opened the store saw the version written. It is preserved by every step of `Schema`, whoever takes
it, and each action of `Story` is such a step or leaves the schema alone (`StepsOfTheStore`). `Typed` adds to the types what a turn and a
command may rely on between two steps: a turn past the prompt has a row to stamp, a command that
read the row still finds one. `HashInv` ties the hash of the row to the premise in effect outside
the stamp, and the newest chapter to the turn's premise within it. `BufferInv` counts all chapters ahead of the
listener, whether they have audio or not: they are at most the largest target and the `Lacking`, those of them that have
ever been without audio outside their own turn, so that a chapter that is cleared, voiced and cleared again counts
once. It follows the throttle's three
reads: the cursor read is not beyond the furthest point, the depth read and the lacking cover what was there,
and the turn that goes on has seen less than the largest target. `LibraryInv` keeps the
entries of the lore apart by name; only `Assemble` makes a prompt, and until the chapter is inserted nothing
touches what it was made from. That the prompt is right when it is made rests on two facts about any texts and
any set: the loop of `contains_bounded`, which goes on one character after an occurrence that is no word,
finds a bounded occurrence wherever there is one (`ScanFinds`: the last place from which it did not would be before
another one), and a finite set can be listed in any strict linear order of its elements (`Sortable`: the number of
those before an element is its place). Assumptions: `MigrationsAssumption`, `StoryAssumption`.

Some theorems state what no run checks on its own: the inductive invariants (`TypesAndBookkeeping`,
`PublicationIsSound`, `CastingIsSound` and so on), the lemmas on texts (`ParseIsFaithful`, `RoundTrip`,
`SplittingLosesNothing`, `RequestsLoseNothing`), and `RowsAreForEver`, `VoicesStay`, `FirstAudioFits`, `SleepersStopCleanly`, `LoopGoesOn`.

Only model-checked: everything about liveness (`EveryChapterTried`, `SerialKeepsMoving`,
`NotesReachTheStory`, `ChapterGetsAudio`, `CrashedComesBack`), which is out of the prover's reach, as is `ENABLED`; and the three runs that end in a violation. What the
theorems say holds for every constant; that the instances are not trivial, that each action can happen, is what the runs show.


## What the plan has left

1. `Publication` has one voice for a chapter where `Casting` has one for each speaker; a refinement
   of the one by the other would say that a re-render replaces exactly what a cast order changed.
2. The hazards of `PROJECT.json` that no property covers, each with its reason there. Most are what the
   code does today (a chapter cut short after its insert, the excess of an outage, a lost render request, an
   exhausted pool, the smallest integer, a delta with both values, voices unknown to sherpa, a stale rewind
   prompt, chapters given up on until a restart); once the code rules one of them out, the exception that names it in a
   property can go. A second engine is outside the deployment.
3. A common module for the lemmas that several proof modules repeat (`Least`, `FlattenSeq`).

## Not modelled

The wording of prose, prompts and titles; signal processing, SSML and HTTP of the speech
backends; feeds, reports and logging, which change nothing; configuration, which is read once and whose values are constants. A second
engine on one database: the units in `deploy/` run one, and the heartbeat's comment (`litrpg-store/src/heartbeat.rs:42`) calls
two "a separate problem". Functions that only tests call: `render_joined`, `render_all_partial`,
`fill_failures_with_silence`, fallback on a rejected request, `set_arc_outline`, `Store::set_prompt_hash`, adding and
removing aliases.

## Running

    tlc -workers 2 -config CycleSafety.cfg MCChapterCycle
    tlapm ChapterCycle_proofs.tla

and so for the other runs (the table of runs and `PROJECT.json` name the configurations; `Generation.cfg`
goes with `MCGeneration`, and so on) and for `Casting_proofs`, `Generation_proofs`, `Ledger_proofs`,
`MainLoop_proofs`, `Publication_proofs`, `Speech_proofs` and `Story_proofs`.
