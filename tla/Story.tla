------------------------------- MODULE Story --------------------------------
(* What surrounds a cycle and is changed by several processes: the premise *)
(* (prompt.md and the story row that records the one in effect), the       *)
(* playback cursor and the buffer target, and the library of summaries and *)
(* lore from which the next prompt is assembled. The engine takes turns,   *)
(* the operator runs `litrpg init`, `prompt`, `story` and `render`,        *)
(* listener and operator reach the daemon; each opens the database itself. *)
(* Abstracted: a hash is the text it is of; deltas, notes and voices are   *)
(* of other modules; of a chapter there is what its text mentions.         *)
EXTENDS Schema, FiniteSets, SequencesExt

CONSTANTS
  Premises,       \* what an operator may make of prompt.md
  Starter, Blank, NoText,
  Names, NoName,  \* names for --title and --protagonist
  InitOptions,    \* invocations of `litrpg init`: [force, title, protagonist]
  StoryEdits,     \* invocations of `litrpg story`: [title, protagonist]
  Prose,          \* chapter texts, as sequences of characters
  AlphaNum,       \* the characters that are letters or digits
  Alphabet,       \* the characters
  LoreBook,       \* the entries pass 2 may return: [key, keywords, priority, always]
  OwnLore,        \* entries somebody has put into the database by hand
  SUMMARY_WINDOW, ConfigTarget, MIN_BUFFER_TARGET, MAX_BUFFER_TARGET, MAX_BUMP,
  NoTarget, NoRow, NoArg,
  MaxChapters, MaxOrders, MaxFaults   \* bounds

Texts == Premises \cup {Starter, Blank}

(* The story row: a hash is the text it is of.                             *)
Rows == [title : Names \cup {NoName}, protagonist : Names \cup {NoName},
         hash : Texts, consumed : 0..MaxChapters]

(* Lore: a keyword is a text, a name has a place in the order of names.    *)
Entries == [key : Nat, keywords : SUBSET Seq(Alphabet), priority : Int, always : BOOLEAN]

ASSUME StoryAssumption ==
  /\ {"engine", "daemon", "cli"} = Processes
  /\ Starter \notin Premises \cup {Blank} /\ NoText \notin Texts /\ Blank \notin Premises
  /\ NoArg \notin Names \cup {NoName}
  /\ InitOptions \subseteq [force : BOOLEAN, title : Names \cup {NoArg},
                             protagonist : Names \cup {NoArg}]
  /\ StoryEdits \subseteq [title : Names \cup {NoArg}, protagonist : Names \cup {NoArg}]
  /\ SUMMARY_WINDOW \in Nat \ {0} /\ ConfigTarget \in Nat /\ MAX_BUMP \in Nat /\ NoTarget \notin Nat
  /\ MIN_BUFFER_TARGET \in Nat /\ MAX_BUFFER_TARGET \in Nat
  /\ NoRow \notin Rows
  /\ Prose \subseteq Seq(Alphabet) /\ LoreBook \subseteq Entries /\ OwnLore \subseteq Entries
  /\ \A e \in LoreBook : ~e.always
  /\ IsFiniteSet(OwnLore) /\ \A e, f \in OwnLore : e.key = f.key => e = f
  /\ MaxChapters \in Nat /\ MaxOrders \in Nat /\ MaxFaults \in Nat

VARIABLES
  config,     \* the config file: "none", "loads" or "broken"
  file,       \* prompt.md
  row,        \* the story row
  shelf,      \* the chapters: [audio, summed]
  newest,     \* of the newest chapter: the premise it was written from, its text
  lore,
  recorded,   \* the newest row of buffer_target_changes
  pc, cursor, depth, told, copy,   \* the engine's turn
  cmd,        \* the operator's command
  (* history, read by the properties only *)
  seeded,     \* the text whose hash init has recorded since the last stamp
  missed,     \* the newest chapter's stamp was lost
  asked,      \* the names the operator last gave
  furthest, most,  \* the furthest cursor, the largest target
  lacked,     \* the chapters that have lacked audio outside their own turn
  orders, faults

storeVars   == <<row, shelf, newest, lore, recorded>>
engineVars  == <<pc, cursor, depth, told, copy>>
historyVars == <<seeded, missed, asked, furthest, most, lacked>>
vars == <<schemaVars, config, file, storeVars, engineVars, cmd, historyVars, orders, faults>>

NoPrompt  == [premise |-> NoText, summaries |-> <<>>, lore |-> <<>>]
NoCommand == [op |-> "none", at |-> "start", force |-> FALSE, title |-> NoArg,
              protagonist |-> NoArg, hash |-> NoText, seen |-> NoRow, left |-> {}]

Init ==
  /\ SchemaInit
  /\ config \in {"none", "broken"} /\ file = NoText
  /\ row = NoRow /\ shelf = <<>> /\ newest = [premise |-> NoText, text |-> <<>>]
  /\ lore = (IF userVersion = 0 THEN {} ELSE OwnLore) /\ recorded = NoTarget
  /\ pc = "idle" /\ cursor = 0 /\ depth = 0 /\ told = NoPrompt /\ copy = NoRow
  /\ cmd = NoCommand
  /\ seeded = NoText /\ missed = FALSE /\ asked = [title |-> NoName, protagonist |-> NoName]
  /\ furthest = 0 /\ most = ConfigTarget /\ lacked = {}
  /\ orders = 0 /\ faults = 0

-----------------------------------------------------------------------------
(* The readers of the store.                                               *)

consumed_through == IF row = NoRow THEN 0 ELSE row.consumed
buffer_target == IF recorded = NoTarget THEN ConfigTarget ELSE recorded
ReadyAfter(c) == {n \in DOMAIN shelf : n > c /\ shelf[n].audio}
buffer_depth(c) == Cardinality(ReadyAfter(c))
Summarised == {n \in DOMAIN shelf : shelf[n].summed}

(* ORDER BY to_ch DESC LIMIT, reversed.                                    *)
recent_summaries(limit) ==
  LET rows == CHOOSE s \in SetToSeqs(Summarised) : \A i, j \in DOMAIN s : i < j => s[i] > s[j]
  IN Reverse(SubSeq(rows, 1, IF Len(rows) < limit THEN Len(rows) ELSE limit))

-----------------------------------------------------------------------------
(* match_lore: which entries a prompt carries.                             *)

At(hay, needle, i) == i + Len(needle) - 1 <= Len(hay) /\ SubSeq(hay, i, i + Len(needle) - 1) = needle
Bounded(hay, needle, i) ==
  /\ i = 1 \/ hay[i - 1] \notin AlphaNum
  /\ i + Len(needle) > Len(hay) \/ hay[i + Len(needle)] \notin AlphaNum

(* Mutant: it goes on after the occurrence that is not bounded.            *)
contains_bounded_SkipNeedle(hay, needle) ==
  LET scan[from \in 1..(Len(hay) + 1)] ==
        LET later == {i \in from..Len(hay) : At(hay, needle, i)}
            start == CHOOSE i \in later : \A j \in later : i <= j
        IN later # {} /\ (Bounded(hay, needle, start) \/ scan[start + Len(needle)])
  IN needle # <<>> /\ scan[1]

(* The loop looks for the next occurrence from `from` on, and goes on one  *)
(* character after its start if it is not bounded.                         *)
contains_bounded(hay, needle) ==
  LET scan[from \in 1..(Len(hay) + 1)] ==
        LET later == {i \in from..Len(hay) : At(hay, needle, i)}
            start == CHOOSE i \in later : \A j \in later : i <= j
        IN later # {} /\ (Bounded(hay, needle, start) \/ scan[start + 1])
  IN needle # <<>> /\ scan[1]

(* hits.sort_by: by priority, then by name.                                *)
Stronger(a, b) == a.priority > b.priority \/ (a.priority = b.priority /\ a.key < b.key)

match_lore(entries, text) ==
  LET hits == {e \in entries : e.always \/ \E k \in e.keywords : contains_bounded(text, k)}
  IN CHOOSE s \in SetToSeqs(hits) : \A i, j \in DOMAIN s : i < j => Stronger(s[i], s[j])

-----------------------------------------------------------------------------
(* A turn of the engine (Engine::run_cycle).                               *)

Begin ==
  /\ pc = "idle" /\ Open("engine")
  /\ cursor' = consumed_through /\ pc' = "resume"
  /\ UNCHANGED <<schemaVars, config, file, storeVars, depth, told, copy, cmd, historyVars>>
  /\ UNCHANGED <<orders, faults>>

Rest ==
  /\ pc' = "idle" /\ cursor' = 0 /\ depth' = 0 /\ told' = NoPrompt /\ copy' = NoRow

(* A chapter without audio comes first (its retries: ChapterCycle); when   *)
(* it is voiced, that was the turn.                                        *)
ResumeRenders(n) ==
  /\ pc = "resume" /\ ~shelf[n].audio
  /\ shelf' = [shelf EXCEPT ![n].audio = TRUE]
  /\ Rest
  /\ UNCHANGED <<schemaVars, config, file, row, newest, lore, recorded, cmd, historyVars>>
  /\ UNCHANGED <<orders, faults>>

(* Nothing to resume, or no luck with it: the turn goes on.                *)
FallThrough ==
  /\ pc = "resume"
  /\ pc' = "depth"
  /\ faults' = (IF \E n \in DOMAIN shelf : ~shelf[n].audio THEN faults + 1 ELSE faults)
  /\ faults' <= MaxFaults
  /\ UNCHANGED <<schemaVars, config, file, storeVars, cursor, depth, told, copy, cmd>>
  /\ UNCHANGED <<historyVars, orders>>

ReadDepth ==
  /\ pc = "depth" /\ depth' = buffer_depth(cursor) /\ pc' = "target"
  /\ UNCHANGED <<schemaVars, config, file, storeVars, cursor, told, copy, cmd, historyVars>>
  /\ UNCHANGED <<orders, faults>>

BufferFull ==
  /\ pc = "target" /\ depth >= buffer_target
  /\ Rest
  /\ UNCHANGED <<schemaVars, config, file, storeVars, cmd, historyVars, orders, faults>>

(* Mutant: a full buffer is not full yet.                                  *)
BufferShort_OffByOne ==
  /\ pc = "target" /\ depth <= buffer_target
  /\ pc' = "assemble"
  /\ UNCHANGED <<schemaVars, config, file, storeVars, cursor, depth, told, copy, cmd>>
  /\ UNCHANGED <<historyVars, orders, faults>>

BufferShort ==
  /\ pc = "target" /\ depth < buffer_target
  /\ pc' = "assemble"
  /\ UNCHANGED <<schemaVars, config, file, storeVars, cursor, depth, told, copy, cmd>>
  /\ UNCHANGED <<historyVars, orders, faults>>

(* Library::story: no row, no file and an empty premise fail the turn.     *)
NoStory ==
  /\ pc = "assemble" /\ (row = NoRow \/ file \in {NoText, Blank})
  /\ Rest
  /\ UNCHANGED <<schemaVars, config, file, storeVars, cmd, historyVars, orders, faults>>

(* The prompt: premise, last summaries, lore the last text calls for.      *)
Assemble ==
  /\ pc = "assemble" /\ row # NoRow /\ file \notin {NoText, Blank}
  /\ told' = [premise   |-> file,
              summaries |-> recent_summaries(SUMMARY_WINDOW),
              lore      |-> match_lore(lore, newest.text)]
  /\ pc' = "pass1"
  /\ UNCHANGED <<schemaVars, config, file, storeVars, cursor, depth, copy, cmd, historyVars>>
  /\ UNCHANGED <<orders, faults>>

(* No prose, or a store that cannot be read: the edit of the premise stays *)
(* pending.                                                                *)
Abandon ==
  /\ pc \in {"resume", "depth", "target", "assemble", "pass1"} /\ faults < MaxFaults
  /\ Rest /\ faults' = faults + 1
  /\ UNCHANGED <<schemaVars, config, file, storeVars, cmd, historyVars, orders>>

InsertChapter(text) ==
  /\ pc = "pass1" /\ Len(shelf) < MaxChapters
  /\ shelf' = Append(shelf, [audio |-> FALSE, summed |-> FALSE])
  /\ newest' = [premise |-> told.premise, text |-> text]
  /\ pc' = "stamp"
  /\ UNCHANGED <<schemaVars, config, file, row, lore, recorded, cursor, depth, told, copy>>
  /\ UNCHANGED <<cmd, historyVars, orders, faults>>

(* set_prompt_hash reads the row ...                                       *)
StampReads ==
  /\ pc = "stamp" /\ copy' = row /\ pc' = "stamping"
  /\ UNCHANGED <<schemaVars, config, file, storeVars, cursor, depth, told, cmd, historyVars>>
  /\ UNCHANGED <<orders, faults>>

(* UPDATE story: what a caller owns; outline and cursor are not named.     *)
upsert_story(title, protagonist, hash) ==
  [title |-> title, protagonist |-> protagonist, hash |-> hash, consumed |-> consumed_through]

(* Mutant: the hash recorded is that of the file as it is by now.          *)
StampWrites_Rehash ==
  /\ pc = "stamping"
  /\ row' = upsert_story(copy.title, copy.protagonist, file)
  /\ seeded' = NoText /\ missed' = FALSE
  /\ pc' = "remember" /\ copy' = NoRow
  /\ UNCHANGED <<schemaVars, config, file, shelf, newest, lore, recorded, cursor, depth, told>>
  /\ UNCHANGED <<cmd, asked, furthest, most, lacked, orders, faults>>

(* ... and writes it back with the hash of the premise that was used.      *)
StampWrites ==
  /\ pc = "stamping"
  /\ row' = upsert_story(copy.title, copy.protagonist, told.premise)
  /\ seeded' = NoText /\ missed' = FALSE
  /\ pc' = "remember" /\ copy' = NoRow
  /\ UNCHANGED <<schemaVars, config, file, shelf, newest, lore, recorded, cursor, depth, told>>
  /\ UNCHANGED <<cmd, asked, furthest, most, lacked, orders, faults>>

(* A failed stamp must not cost the chapter.                               *)
StampFails ==
  /\ pc \in {"stamp", "stamping"} /\ faults < MaxFaults
  /\ missed' = TRUE /\ faults' = faults + 1
  /\ pc' = "remember" /\ copy' = NoRow
  /\ UNCHANGED <<schemaVars, config, file, storeVars, cursor, depth, told, cmd>>
  /\ UNCHANGED <<seeded, asked, furthest, most, lacked, orders>>

(* INSERT ... ON CONFLICT(name) DO UPDATE.                                 *)
upsert_lore(e) == {f \in lore : f.key # e.key} \cup {e}

(* Lore and summary of pass 2.                                             *)
Remember(e) ==
  /\ pc = "remember"
  /\ lore' = upsert_lore(e)
  /\ shelf' = [shelf EXCEPT ![Len(shelf)].summed = TRUE]
  /\ pc' = "render"
  /\ UNCHANGED <<schemaVars, config, file, row, newest, recorded, cursor, depth, told, copy>>
  /\ UNCHANGED <<cmd, historyVars, orders, faults>>

(* Pass 2 had failed: the chapter is dirty, and nothing is remembered.     *)
Dirty ==
  /\ pc = "remember" /\ faults < MaxFaults
  /\ faults' = faults + 1 /\ pc' = "render"
  /\ UNCHANGED <<schemaVars, config, file, storeVars, cursor, depth, told, copy, cmd>>
  /\ UNCHANGED <<historyVars, orders>>

Render ==
  /\ pc = "render"
  /\ shelf' = [shelf EXCEPT ![Len(shelf)].audio = TRUE]
  /\ Rest
  /\ UNCHANGED <<schemaVars, config, file, row, newest, lore, recorded, cmd, historyVars>>
  /\ UNCHANGED <<orders, faults>>

(* What pass 2 has found cannot be written, which ends the turn, or the    *)
(* render fails.                                                           *)
RenderFails ==
  /\ pc \in {"remember", "render"} /\ faults < MaxFaults
  /\ faults' = faults + 1 /\ lacked' = lacked \cup {Len(shelf)}
  /\ Rest
  /\ UNCHANGED <<schemaVars, config, file, storeVars, cmd, seeded, missed, asked, furthest>>
  /\ UNCHANGED <<most, orders>>

EngineDies ==
  /\ opening["engine"] # Closed /\ faults < MaxFaults
  /\ CloseStore("engine") /\ Rest
  /\ faults' = faults + 1
  /\ missed' = (missed \/ pc \in {"stamp", "stamping"})
  /\ lacked' = (IF pc \in {"stamp", "stamping", "remember", "render"}
                THEN lacked \cup {Len(shelf)} ELSE lacked)
  /\ UNCHANGED <<config, file, storeVars, cmd, seeded, asked, furthest, most, orders>>

EngineTurn ==
  \/ Begin \/ FallThrough \/ (\E n \in DOMAIN shelf : ResumeRenders(n))
  \/ ReadDepth \/ BufferFull \/ BufferShort \/ NoStory \/ Assemble \/ Abandon
  \/ (\E t \in Prose : InsertChapter(t))
  \/ StampReads \/ StampWrites \/ StampFails
  \/ (\E e \in LoreBook : Remember(e)) \/ Dirty
  \/ Render \/ RenderFails \/ EngineDies

-----------------------------------------------------------------------------
(* The operator's commands, one at a time.                                 *)

Order == orders < MaxOrders /\ orders' = orders + 1

(* ensure_config: only a file that cannot be loaded is ever replaced, and  *)
(* that under --force; without, it fails the command.                      *)
InitConfig(opts) ==
  /\ cmd = NoCommand /\ Order
  /\ config = "broken" => opts.force
  /\ config' = "loads"
  /\ cmd' = [NoCommand EXCEPT !.op = "init", !.at = "prompt", !.force = opts.force,
                              !.title = opts.title, !.protagonist = opts.protagonist]
  /\ UNCHANGED <<schemaVars, file, storeVars, engineVars, historyVars, faults>>

(* ensure_prompt: the starter template, unless there is a file to keep.    *)
InitPrompt ==
  /\ cmd.op = "init" /\ cmd.at = "prompt"
  /\ file' = (IF file = NoText \/ cmd.force THEN Starter ELSE file)
  /\ cmd' = [cmd EXCEPT !.at = "row", !.hash = file']
  /\ UNCHANGED <<schemaVars, config, storeVars, engineVars, historyVars, orders, faults>>

Done == cmd' = NoCommand /\ CloseStore("cli")

(* ensure_story: a row that exists is left alone unless forced.            *)
InitReads ==
  /\ cmd.op = "init" /\ cmd.at = "row" /\ Open("cli")
  /\ IF row # NoRow /\ ~cmd.force
     THEN Done
     ELSE cmd' = [cmd EXCEPT !.at = "write", !.seen = row] /\ UNCHANGED schemaVars
  /\ UNCHANGED <<config, file, storeVars, engineVars, historyVars, orders, faults>>

Given(arg, kept) == IF arg = NoArg THEN kept ELSE arg

InitWrites ==
  /\ cmd.op = "init" /\ cmd.at = "write"
  /\ LET title == Given(cmd.title, IF cmd.seen = NoRow THEN NoName ELSE cmd.seen.title)
         protagonist == Given(cmd.protagonist,
                              IF cmd.seen = NoRow THEN NoName ELSE cmd.seen.protagonist)
     IN /\ row' = upsert_story(title, protagonist, cmd.hash)
        /\ asked' = [title |-> title, protagonist |-> protagonist]
  /\ seeded' = cmd.hash /\ missed' = FALSE
  /\ Done
  /\ UNCHANGED <<config, file, shelf, newest, lore, recorded, engineVars, furthest, most>>
  /\ UNCHANGED <<lacked, orders, faults>>

(* litrpg prompt: whatever the editor leaves, an empty file included: the  *)
(* command complains of that, but the file stays.                          *)
EditPrompt(text) ==
  /\ cmd = NoCommand /\ Order
  /\ file' = text
  /\ UNCHANGED <<schemaVars, config, storeVars, engineVars, cmd, historyVars, faults>>

(* litrpg story: each field is one UPDATE, the protagonist first.          *)
StoryCommand(edit) ==
  /\ cmd = NoCommand /\ Order
  /\ cmd' = [NoCommand EXCEPT !.op = "story", !.title = edit.title,
                              !.protagonist = edit.protagonist]
  /\ UNCHANGED <<schemaVars, config, file, storeVars, engineVars, historyVars, faults>>

StoryReads ==
  /\ cmd.op = "story" /\ cmd.at = "start" /\ Open("cli")
  /\ IF row = NoRow THEN Done
     ELSE cmd' = [cmd EXCEPT !.at = "protagonist", !.seen = row] /\ UNCHANGED schemaVars
  /\ UNCHANGED <<config, file, storeVars, engineVars, historyVars, orders, faults>>

SetProtagonist ==
  /\ cmd.op = "story" /\ cmd.at = "protagonist"
  /\ IF cmd.protagonist \in {NoArg, cmd.seen.protagonist}
     THEN UNCHANGED <<row, asked>>
     ELSE /\ row' = [row EXCEPT !.protagonist = cmd.protagonist]
          /\ asked' = [asked EXCEPT !.protagonist = cmd.protagonist]
  /\ cmd' = [cmd EXCEPT !.at = "title"]
  /\ UNCHANGED <<schemaVars, config, file, shelf, newest, lore, recorded, engineVars>>
  /\ UNCHANGED <<seeded, missed, furthest, most, lacked, orders, faults>>

SetTitle ==
  /\ cmd.op = "story" /\ cmd.at = "title"
  /\ IF cmd.title \in {NoArg, cmd.seen.title}
     THEN UNCHANGED <<row, asked>>
     ELSE /\ row' = [row EXCEPT !.title = cmd.title]
          /\ asked' = [asked EXCEPT !.title = cmd.title]
  /\ Done
  /\ UNCHANGED <<config, file, shelf, newest, lore, recorded, engineVars>>
  /\ UNCHANGED <<seeded, missed, furthest, most, lacked, orders, faults>>

(* litrpg render: the chapters asked for are looked up, none for --all     *)
(* where none has audio ...                                                *)
RenderCommand ==
  /\ cmd = NoCommand /\ Order
  /\ cmd' = [NoCommand EXCEPT !.op = "render"]
  /\ UNCHANGED <<schemaVars, config, file, storeVars, engineVars, historyVars, faults>>

RenderResolves(chapters) ==
  /\ cmd.op = "render" /\ cmd.at = "start" /\ Open("cli")
  /\ IF chapters = {} THEN Done
     ELSE cmd' = [cmd EXCEPT !.at = "clear", !.left = chapters] /\ UNCHANGED schemaVars
  /\ UNCHANGED <<config, file, storeVars, engineVars, historyVars, orders, faults>>

(* ... and clear_audio takes each back to the queue, one UPDATE after the  *)
(* other, unless it is queued already.                                     *)
RenderClears(n) ==
  /\ cmd.op = "render" /\ cmd.at = "clear" /\ n \in cmd.left
  /\ shelf' = [shelf EXCEPT ![n].audio = FALSE]
  /\ lacked' = (IF shelf[n].audio THEN lacked \cup {n} ELSE lacked)
  /\ IF cmd.left = {n} THEN Done
     ELSE cmd' = [cmd EXCEPT !.left = @ \ {n}] /\ UNCHANGED schemaVars
  /\ UNCHANGED <<config, file, row, newest, lore, recorded, engineVars, seeded, missed>>
  /\ UNCHANGED <<asked, furthest, most, orders, faults>>

(* Ctrl-C, or the store cannot be opened.                                  *)
CommandDies ==
  /\ cmd # NoCommand
  /\ \/ opening["cli"] = Failed /\ UNCHANGED faults
     \/ faults < MaxFaults /\ faults' = faults + 1
  /\ Done
  /\ UNCHANGED <<config, file, storeVars, engineVars, historyVars, orders>>

Operator ==
  \/ (\E opts \in InitOptions : InitConfig(opts))
  \/ InitPrompt \/ InitReads \/ InitWrites
  \/ (\E text \in Texts : EditPrompt(text))
  \/ (\E edit \in StoryEdits : StoryCommand(edit))
  \/ StoryReads \/ SetProtagonist \/ SetTitle
  \/ RenderCommand
  \/ (\E chapters \in SUBSET DOMAIN shelf : RenderResolves(chapters))
  \/ (\E n \in DOMAIN shelf : RenderClears(n))
  \/ CommandDies

-----------------------------------------------------------------------------
(* The daemon, for listener and operator.                                  *)

(* Mutant: a position beyond the story is taken.                           *)
PutProgress_Beyond(n) ==
  /\ Open("daemon") /\ row # NoRow /\ n # row.consumed /\ Order
  /\ row' = [row EXCEPT !.consumed = n]
  /\ furthest' = (IF n > furthest THEN n ELSE furthest)
  /\ UNCHANGED <<schemaVars, config, file, shelf, newest, lore, recorded, engineVars, cmd>>
  /\ UNCHANGED <<seeded, missed, asked, most, lacked, faults>>

(* PUT /api/progress (and `litrpg listened`, on a connection of its own):  *)
(* back is allowed, beyond the last chapter is not.                        *)
PutProgress(n) ==
  /\ Open("daemon") /\ row # NoRow /\ n <= Len(shelf) /\ n # row.consumed /\ Order
  /\ row' = [row EXCEPT !.consumed = n]
  /\ furthest' = (IF n > furthest THEN n ELSE furthest)
  /\ UNCHANGED <<schemaVars, config, file, shelf, newest, lore, recorded, engineVars, cmd>>
  /\ UNCHANGED <<seeded, missed, asked, most, lacked, faults>>

Refused == NoTarget
Requests == [bump : {NoArg} \cup 0..(MAX_BUMP + 1),
             target : {NoArg} \cup 0..(MAX_BUFFER_TARGET + 1)]

resolve_target(req, current) ==
  LET wanted == IF req.bump = NoArg THEN req.target ELSE current + req.bump IN
  IF \/ (req.bump = NoArg) = (req.target = NoArg)
     \/ req.bump # NoArg /\ req.bump \notin 1..MAX_BUMP
     \/ wanted \notin MIN_BUFFER_TARGET..MAX_BUFFER_TARGET
  THEN Refused ELSE wanted

(* POST /api/buffer: read, resolved and written under one lock.            *)
PostBuffer(req) ==
  /\ Open("daemon") /\ resolve_target(req, buffer_target) # Refused /\ Order
  /\ recorded' = resolve_target(req, buffer_target)
  /\ most' = (IF recorded' > most THEN recorded' ELSE most)
  /\ UNCHANGED <<schemaVars, config, file, row, shelf, newest, lore, engineVars, cmd>>
  /\ UNCHANGED <<seeded, missed, asked, furthest, lacked, faults>>

Daemon == (\E n \in 0..MaxChapters : PutProgress(n)) \/ (\E req \in Requests : PostBuffer(req))

(* A command opens the store when it comes to it; systemd starts the rest, *)
(* and starts it again after a failure.                                    *)
Opening(p) ==
  /\ \/ Opens(p) /\ (p = "cli" => cmd.op \in {"story", "render"} \/ cmd.at = "row")
     \/ p # "cli" /\ opening[p] = Failed /\ CloseStore(p)
  /\ UNCHANGED <<config, file, storeVars, engineVars, cmd, historyVars, orders, faults>>

Next == EngineTurn \/ Operator \/ Daemon \/ \E p \in Processes : Opening(p)

Spec == Init /\ [][Next]_vars

-----------------------------------------------------------------------------
TypeOK ==
  /\ userVersion \in Nat /\ objects \subseteq UpTo(TARGET_VERSION)
  /\ config \in {"none", "loads", "broken"} /\ file \in Texts \cup {NoText}
  /\ row \in Rows \cup {NoRow} /\ copy \in Rows \cup {NoRow}
  /\ shelf \in Seq([audio : BOOLEAN, summed : BOOLEAN]) /\ Len(shelf) <= MaxChapters
  /\ consumed_through <= Len(shelf)
  /\ newest.premise \in Premises \cup {Starter, NoText} /\ lore \subseteq LoreBook \cup OwnLore
  /\ recorded = NoTarget \/ recorded \in MIN_BUFFER_TARGET..MAX_BUFFER_TARGET
  /\ pc \in {"idle", "resume", "depth", "target", "assemble", "pass1", "stamp", "stamping",
             "remember", "render"}
  /\ pc # "idle" => Open("engine")
  /\ cmd.op \in {"none", "init", "story", "render"} /\ seeded \in Texts \cup {NoText}
  /\ orders \in 0..MaxOrders /\ faults \in 0..MaxFaults

(* cli status.rs, prompt_sync.                                             *)
prompt_sync ==
  IF row = NoRow THEN "not_initialised"
  ELSE IF file = NoText THEN "missing"
  ELSE IF file = row.hash THEN "in_sync" ELSE "pending"

(* `litrpg status` reports an edit of the premise as pending exactly until *)
(* a chapter has been written from it, although the file, the row and the  *)
(* chapter change apart and the operator may edit during pass 1; after an  *)
(* init, the file it has recorded counts; a stamp that was lost is         *)
(* forgiven until the next.                                                *)
InEffect == IF seeded # NoText THEN seeded ELSE newest.premise
EditPendingUntilUsed ==
  ~missed /\ pc \notin {"stamp", "stamping"} /\ prompt_sync \in {"in_sync", "pending"} =>
    (prompt_sync = "in_sync" <=> file = InEffect)

(* The prompt remembers: the newest summaries in order, none between them  *)
(* left out; and of the lore what is always told or named in the last      *)
(* chapter as words of their own, wherever it occurs, strongest first.     *)
Named(text, k) == k # <<>> /\ \E i \in DOMAIN text : At(text, k, i) /\ Bounded(text, k, i)
PromptRemembers ==
  pc = "pass1" =>
    LET s == told.summaries  l == told.lore IN
    /\ Len(s) <= SUMMARY_WINDOW
    /\ \A i, j \in DOMAIN s : i < j => s[i] < s[j]
    /\ \A n \in Summarised \ ToSet(s) : Len(s) = SUMMARY_WINDOW /\ n < s[1]
    /\ ToSet(l) = {e \in lore : e.always \/ \E k \in e.keywords : Named(newest.text, k)}
    /\ \A i, j \in DOMAIN l : i < j => l[i] # l[j] /\ l[i].priority >= l[j].priority

(* Ahead of the furthest point the listener has been to there are never    *)
(* more chapters ready than were ever asked for, although cursor, depth    *)
(* and target are read one after the other while listener and operator     *)
(* move them. On top come only the chapters, of those ahead, that the      *)
(* throttle may have missed: those whose render failed or was cut off, and *)
(* those that `litrpg render` has put back into the queue; each once, no   *)
(* matter how often it was put back.                                       *)
BufferBounded ==
  Cardinality(ReadyAfter(furthest)) <= most + Cardinality({n \in lacked : n > furthest})

-----------------------------------------------------------------------------
(* engine library.rs:137, set_prompt_hash: one lock, "otherwise a          *)
(* concurrent `litrpg init --force --protagonist X` could be reverted".    *)
RenameStands ==
  row # NoRow => row.title = asked.title /\ row.protagonist = asked.protagonist
=============================================================================
