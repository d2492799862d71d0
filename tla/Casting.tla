------------------------------- MODULE Casting -------------------------------
(***************************************************************************)
(* Who speaks in which voice.  An engine starts with the TTS backends it   *)
(* was built with and reconciles the configured voices with them; each     *)
(* chapter's new speakers draw a voice and are cast; pass 2 tells genders  *)
(* and the newcomers are cast again; voices of other builds are replaced   *)
(* for this render only; the operator re-casts speakers and asks for       *)
(* renders.  The engine may die at any point and come back as another      *)
(* build.                                                                  *)
(*                                                                         *)
(* VoiceAssigner::assign, regender and substitute_unrenderable are pure    *)
(* functions of what was read before them, and their results are written   *)
(* or used one speaker at a time: each is an action per speaker here.      *)
(*                                                                         *)
(* Abstracted: a speaker stands for all the spellings same_speaker equates *)
(* (identity_key); a segment is its speaker; the number of attempts to     *)
(* resume a render is in ChapterCycle.                                     *)
(***************************************************************************)
EXTENDS Naturals, Sequences, FiniteSets, SequencesExt

CONSTANTS
  Characters,   \* people of the story
  Voices,       \* voice refs
  Backends, BackendOf,   \* the backend a voice ref names
  Genders,      \* in the order of interleave_by_gender
  GenderOf,     \* as the registry advertises it
  Advertised,   \* TtsRegistry::all_voices, were every backend registered
  ConfigNarrator, ConfigSystem, ConfigPool,
  Sex,          \* what pass 2 says of a character when it says anything
  Scripts,      \* the speakers of a chapter, segment by segment
  CastOrders,   \* [speaker, voice]: what the operator may say to `litrpg cast`
  MaxChapters, MaxFaults, MaxOrders   \* bounds of a behaviour

Roles    == {"narrator", "SYSTEM"}
Speakers == Characters \cup Roles

ASSUME VoicesAssumption ==
  /\ Genders \in Seq(STRING)
  /\ BackendOf \in [Voices -> Backends] /\ GenderOf \in [Voices -> {Genders[g] : g \in DOMAIN Genders}]
  /\ ConfigNarrator \in Voices /\ ConfigSystem \in Voices
  /\ ConfigPool \in Seq(Voices) /\ Advertised \in Seq(Voices)
ASSUME SpeakersAssumption ==
  /\ Characters \cap Roles = {} /\ Sex \in [Characters -> {Genders[g] : g \in DOMAIN Genders}]
  /\ Scripts \subseteq Seq(Speakers) /\ CastOrders \subseteq [speaker : Speakers, voice : Voices]
(* Every backend advertises a voice: tables and sherpa.toml do.            *)
ASSUME BackendsAssumption ==
  \A b \in Backends : \E i \in DOMAIN Advertised : BackendOf[Advertised[i]] = b
ASSUME LimitsAssumption == MaxChapters \in Nat /\ MaxFaults \in Nat /\ MaxOrders \in Nat

VARIABLES
  (* the store *)
  cast,     \* rows: speaker |-> [voice, by], by whom the voice was set last
  shelf,    \* chapters: [script, voices of its segments, audio, build]
  (* the engine process *)
  build,    \* registered_backends: those that are ready
  narrator, system, pool,   \* VoicePlan
  (* its cycle *)
  pc,
  chapter, script, resuming,
  known,    \* existing_cast: the rows read at the start of step 4
  newcast,  \* CastAssignments of this cycle
  todo,     \* speakers regender, or the substitution, has still to decide on
  taken,
  plan,     \* voice_ref of the planned segments
  (* bounds, history *)
  faults, orders,
  meant,    \* the plan as it was before voices were substituted
  crowded   \* a character was drawn while no voice of the pool was free

storeVars   == <<cast, shelf>>
processVars == <<build, narrator, system, pool>>
cycleVars   == <<chapter, script, resuming, known, newcast, todo, taken, plan>>
boundVars   == <<faults, orders, meant>>
vars == <<storeVars, processVars, pc, cycleVars, boundVars, crowded>>

-----------------------------------------------------------------------------
(* Voices and backends.                                                    *)

Usable(v, B) == BackendOf[v] \in B

VoicesOf(rows) == {rows[s] : s \in DOMAIN rows}

(* The first of the sequence S that is one of T.                           *)
FirstIndex(S, T) == CHOOSE i \in DOMAIN S : S[i] \in T /\ \A j \in 1..(i - 1) : S[j] \notin T

FirstOf(S, T, default) ==
  IF \E i \in DOMAIN S : S[i] \in T THEN S[FirstIndex(S, T)] ELSE default

(* Those of the sequence S that are in T, in their order.                  *)
Those(S, T) == FlattenSeq([i \in DOMAIN S |-> IF S[i] \in T THEN <<S[i]>> ELSE <<>>])

(* Round robin over the genders: in each round, the next of each group.    *)
InterleaveByGender(S) ==
  LET group == [g \in DOMAIN Genders |-> Those(S, {v \in Voices : GenderOf[v] = Genders[g]})]
      turn(i, g) == IF i \in DOMAIN group[g] THEN <<group[g][i]>> ELSE <<>>
  IN FlattenSeq([i \in DOMAIN S |-> FlattenSeq([g \in DOMAIN Genders |-> turn(i, g)])])

UsableVoices(B) == {v \in Voices : Usable(v, B)}

(* plan_voices.  Mutant: the configured narrator is kept as it is.         *)
PlanVoices_KeepsNarrator(B) ==
  [narrator |-> ConfigNarrator,
   system |-> FirstOf(<<ConfigSystem>> \o Advertised,
                      UsableVoices(B) \ {ConfigNarrator}, ConfigNarrator),
   pool |-> Those(ConfigPool, UsableVoices(B))]

PlanVoices(B) ==
  LET advertised == Those(Advertised, UsableVoices(B))
      nar == IF Usable(ConfigNarrator, B) THEN ConfigNarrator ELSE advertised[1]
      sys == IF Usable(ConfigSystem, B) THEN ConfigSystem
             ELSE FirstOf(advertised, Voices \ {nar}, nar)
      kept == Those(ConfigPool, UsableVoices(B) \ {nar, sys})
  IN [narrator |-> nar, system |-> sys,
      pool |-> IF kept # <<>> THEN kept
               ELSE InterleaveByGender(Those(advertised, Voices \ {nar, sys}))]

-----------------------------------------------------------------------------
NoRows == [s \in {} |-> ConfigNarrator]

Init ==
  /\ cast = [s \in {} |-> [voice |-> ConfigNarrator, by |-> "engine"]] /\ shelf = <<>>
  /\ build = {} /\ narrator = ConfigNarrator /\ system = ConfigSystem /\ pool = <<>>
  /\ pc = "down"
  /\ chapter = 0 /\ script = <<>> /\ resuming = FALSE
  /\ known = NoRows /\ newcast = NoRows /\ todo = {} /\ taken = {} /\ plan = <<>>
  /\ faults = 0 /\ orders = 0 /\ meant = <<>> /\ crowded = FALSE

(* An engine starts with the backends B, at least one, that are ready.     *)
Start(B) ==
  /\ pc = "down" /\ B # {}
  /\ build' = B
  /\ LET p == PlanVoices(B) IN
       narrator' = p.narrator /\ system' = p.system /\ pool' = p.pool
  /\ pc' = "idle"
  /\ UNCHANGED <<storeVars, cycleVars, boundVars, crowded>>

(* The process dies: all it had planned is lost.                           *)
Die ==
  /\ pc # "down" /\ pc' = "down"
  /\ build' = {} /\ narrator' = ConfigNarrator /\ system' = ConfigSystem /\ pool' = <<>>
  /\ chapter' = 0 /\ script' = <<>> /\ resuming' = FALSE
  /\ known' = NoRows /\ newcast' = NoRows /\ todo' = {} /\ taken' = {} /\ plan' = <<>>
  /\ meant' = <<>>
  /\ UNCHANGED <<storeVars, faults, orders, crowded>>

-----------------------------------------------------------------------------
(* Step 4: the chapter's new speakers are cast.                            *)

Unrendered == {n \in DOMAIN shelf : ~shelf[n].audio}

CastVoices == [s \in DOMAIN cast |-> cast[s].voice]

(* upsert_cast: the row of this identity, with its voice replaced.         *)
Upsert(s, v, who) ==
  cast' = [t \in DOMAIN cast \cup {s} |->
             IF t = s THEN [voice |-> v, by |-> who] ELSE cast[t]]

(* Pass 1 wrote a chapter, after a resume that failed or found nothing.    *)
BeginChapter(lines) ==
  /\ pc = "fresh" \/ (pc = "idle" /\ Unrendered = {})
  /\ Len(shelf) < MaxChapters
  /\ chapter' = Len(shelf) + 1 /\ script' = lines /\ resuming' = FALSE
  /\ known' = CastVoices /\ newcast' = NoRows
  /\ pc' = "cast"
  /\ UNCHANGED <<storeVars, processVars, todo, taken, plan, boundVars, crowded>>

GiveUpCycle ==
  /\ pc = "fresh" /\ pc' = "idle"
  /\ UNCHANGED <<storeVars, processVars, cycleVars, boundVars, crowded>>

Seen == DOMAIN known \cup DOMAIN newcast

Uncast == {i \in DOMAIN script : script[i] \notin Seen}

(* Mutant: only the voices of this chapter count as taken.                 *)
Taken_ThisChapter == VoicesOf(newcast)

Taken == VoicesOf(known) \cup VoicesOf(newcast)

Drawn == Cardinality({s \in DOMAIN known : \E i \in DOMAIN pool : pool[i] = known[s]})
         + Cardinality({s \in DOMAIN newcast : \E i \in DOMAIN pool : pool[i] = newcast[s]})

SomeFree == \E i \in DOMAIN pool : pool[i] \notin Taken

(* draw_character_voice: the first free one; none left, the pool again     *)
(* from where it began; no pool, the narrator's.                           *)
DrawCharacterVoice ==
  IF SomeFree THEN FirstOf(pool, Voices \ Taken, narrator)
  ELSE IF pool = <<>> THEN narrator
  ELSE pool[(Drawn % Len(pool)) + 1]

VoiceFor(s) == CASE s = "narrator" -> narrator
                 [] s = "SYSTEM"   -> system
                 [] OTHER          -> DrawCharacterVoice

CastNext ==
  /\ pc = "cast" /\ Uncast # {}
  /\ LET i == CHOOSE i \in Uncast : \A j \in Uncast : i <= j
         s == script[i]
         v == VoiceFor(s)
     IN /\ newcast' = [t \in DOMAIN newcast \cup {s} |-> IF t = s THEN v ELSE newcast[t]]
        /\ Upsert(s, v, "engine")
        /\ crowded' = (crowded \/ (s \in Characters /\ ~SomeFree))
  /\ UNCHANGED <<shelf, processVars, pc, chapter, script, resuming, known, todo, taken>>
  /\ UNCHANGED <<plan, boundVars>>

(* plan_segments: this cycle's assignments, then the rows read before.     *)
PlanSegments ==
  [i \in DOMAIN script |->
     IF script[i] \in DOMAIN newcast THEN newcast[script[i]] ELSE known[script[i]]]

(* substitute_unrenderable is called for the segments of `lines` with the  *)
(* voices p: it will decide once for every speaker with a segment that     *)
(* this build cannot render.                                               *)
BeginSubstitution(lines, p) ==
  /\ plan' = p /\ meant' = p
  /\ taken' = {p[i] : i \in {j \in DOMAIN p : Usable(p[j], build)}}
  /\ todo' = {lines[i] : i \in {j \in DOMAIN p : ~Usable(p[j], build)}}
  /\ pc' = "substitute"

Cast ==
  /\ pc = "cast" /\ Uncast = {}
  /\ IF resuming THEN BeginSubstitution(script, PlanSegments)
     ELSE plan' = PlanSegments /\ pc' = "pass2" /\ UNCHANGED <<meant, taken, todo>>
  /\ UNCHANGED <<storeVars, processVars, chapter, script, resuming, known, newcast>>
  /\ UNCHANGED <<faults, orders, crowded>>

-----------------------------------------------------------------------------
(* Step 6: pass 2 tells genders.                                           *)

(* The chapter is inserted; the characters in T got a gender hint.         *)
InsertChapter(T) ==
  /\ pc = "pass2"
  /\ shelf' = Append(shelf, [script |-> script, voices |-> <<>>, audio |-> FALSE, build |-> {}])
  /\ todo' = DOMAIN newcast \cap T
  /\ taken' = Taken
  /\ pc' = "regender"
  /\ UNCHANGED <<cast, processVars, chapter, script, resuming, known, newcast, plan>>
  /\ UNCHANGED <<boundVars, crowded>>

FirstLine(s) == CHOOSE i \in DOMAIN script : script[i] = s /\ \A j \in 1..(i - 1) : script[j] # s

(* Mutant: only the speaker's first segment hears of it.                   *)
Replan_FirstSegment(s, v) == [plan EXCEPT ![FirstLine(s)] = v]
Replan(s, v) == [i \in DOMAIN plan |-> IF script[i] = s THEN v ELSE plan[i]]

(* regender, one newcomer: a free voice of the pool with the told gender.  *)
RegenderNext ==
  /\ pc = "regender" /\ todo # {}
  /\ LET s == CHOOSE s \in todo : \A t \in todo : FirstLine(s) <= FirstLine(t)
         match == {v \in Voices : GenderOf[v] = Sex[s]} \ taken
         now == newcast[s]
         v == IF GenderOf[now] = Sex[s] THEN now ELSE FirstOf(pool, match, now)
     IN /\ todo' = todo \ {s}
        /\ IF v = now THEN UNCHANGED <<cast, taken, plan>>
           ELSE /\ Upsert(s, v, "engine")
                /\ taken' = (taken \ {now}) \cup {v}
                /\ plan' = Replan(s, v)
  /\ UNCHANGED <<shelf, processVars, pc, chapter, script, resuming, known, newcast>>
  /\ UNCHANGED <<boundVars, crowded>>

Regendered ==
  /\ pc = "regender" /\ todo = {}
  /\ BeginSubstitution(script, plan)
  /\ UNCHANGED <<storeVars, processVars, chapter, script, resuming, known, newcast>>
  /\ UNCHANGED <<faults, orders, crowded>>

-----------------------------------------------------------------------------
(* Step 8: what this build cannot render is substituted, and rendered.     *)

Unusable == {i \in DOMAIN plan : ~Usable(plan[i], build)}

(* Mutant: a voice of the pool, whoever else has it.                       *)
StandIn_Anyones(s) ==
  CASE s = "narrator" -> narrator
    [] s = "SYSTEM"   -> system
    [] OTHER          -> FirstOf(pool, UsableVoices(build), narrator)
StandIn(s) ==
  CASE s = "narrator" -> narrator
    [] s = "SYSTEM"   -> system
    [] OTHER          -> FirstOf(pool, UsableVoices(build) \ taken, narrator)

(* The first speaker not yet decided on gets one voice for all of them.    *)
SubstituteNext ==
  /\ pc = "substitute" /\ todo # {}
  /\ LET left == {i \in Unusable : script[i] \in todo}
         s == script[CHOOSE i \in left : \A j \in left : i <= j]
         v == StandIn(s)
     IN /\ plan' = [j \in DOMAIN plan |-> IF j \in Unusable /\ script[j] = s THEN v ELSE plan[j]]
        /\ taken' = taken \cup {v}
        /\ todo' = todo \ {s}
  /\ UNCHANGED <<storeVars, processVars, pc, chapter, script, resuming, known, newcast>>
  /\ UNCHANGED <<boundVars, crowded>>

(* The one pass is over, and what it left goes to the renderer as it is.   *)
Substituted ==
  /\ pc = "substitute" /\ todo = {} /\ pc' = "render"
  /\ UNCHANGED <<storeVars, processVars, cycleVars, boundVars, crowded>>

Publish ==
  /\ pc = "render"
  /\ shelf' = [shelf EXCEPT ![chapter] =
                 [script |-> script, voices |-> plan, audio |-> TRUE, build |-> build]]
  /\ pc' = "idle"
  /\ chapter' = 0 /\ script' = <<>> /\ resuming' = FALSE
  /\ known' = NoRows /\ newcast' = NoRows /\ todo' = {} /\ taken' = {} /\ plan' = <<>>
  /\ meant' = <<>>
  /\ UNCHANGED <<cast, processVars, faults, orders, crowded>>

RenderFails ==
  /\ pc = "render" /\ faults < MaxFaults
  /\ faults' = faults + 1
  /\ pc' = (IF resuming THEN "fresh" ELSE "idle")
  /\ chapter' = 0 /\ script' = <<>> /\ resuming' = FALSE
  /\ known' = NoRows /\ newcast' = NoRows /\ todo' = {} /\ taken' = {} /\ plan' = <<>>
  /\ meant' = <<>>
  /\ UNCHANGED <<storeVars, processVars, orders, crowded>>

-----------------------------------------------------------------------------
(* Step 0: a chapter without audio.                                        *)

(* replan_from_store, of a chapter that has segments: the voices of the    *)
(* cast; the stored voice of a speaker the cast does not have.  Mutant:    *)
(* the stored voices (issue #15).                                          *)
Replanned_Stored(n) == shelf[n].voices
Replanned(n) ==
  [i \in DOMAIN shelf[n].script |->
     IF shelf[n].script[i] \in DOMAIN cast THEN cast[shelf[n].script[i]].voice
     ELSE shelf[n].voices[i]]

Resume ==
  /\ pc = "idle" /\ Unrendered # {}
  /\ chapter' = (CHOOSE n \in Unrendered : \A m \in Unrendered : n <= m)
  /\ script' = shelf[chapter'].script /\ resuming' = TRUE
  /\ IF shelf[chapter'].voices # <<>>
     THEN /\ BeginSubstitution(script', Replanned(chapter'))
          /\ UNCHANGED <<known, newcast>>
     ELSE /\ known' = CastVoices /\ newcast' = NoRows
          /\ pc' = "cast" /\ UNCHANGED <<plan, meant, taken, todo>>
  /\ UNCHANGED <<storeVars, processVars, faults, orders, crowded>>

-----------------------------------------------------------------------------
(* The operator, at any time.                                              *)

(* `litrpg cast <speaker> <voice>`, with --new for a speaker not yet cast. *)
CastSet(s, v) ==
  /\ orders < MaxOrders /\ orders' = orders + 1
  /\ Upsert(s, v, "operator")
  /\ UNCHANGED <<shelf, processVars, pc, cycleVars, faults, meant, crowded>>

(* `litrpg render n`.                                                      *)
RequestRender(n) ==
  /\ orders < MaxOrders /\ orders' = orders + 1
  /\ shelf[n].audio
  /\ shelf' = [shelf EXCEPT ![n].audio = FALSE]
  /\ UNCHANGED <<cast, processVars, pc, cycleVars, faults, meant, crowded>>

Next ==
  \/ \E B \in SUBSET Backends : Start(B)
  \/ Die
  \/ \E lines \in Scripts : BeginChapter(lines)
  \/ GiveUpCycle \/ CastNext \/ Cast
  \/ \E T \in SUBSET Characters : InsertChapter(T)
  \/ RegenderNext \/ Regendered \/ SubstituteNext \/ Substituted
  \/ Publish \/ RenderFails \/ Resume
  \/ \E c \in CastOrders : CastSet(c.speaker, c.voice)
  \/ \E n \in DOMAIN shelf : RequestRender(n)

Spec == Init /\ [][Next]_vars

-----------------------------------------------------------------------------
RowsOK(rows) == DOMAIN rows \subseteq Speakers /\ \A s \in DOMAIN rows : rows[s] \in Voices

(* The voice plan of a running engine names only voices of its backends,   *)
(* and characters draw neither the narrator's nor the system's.            *)
PlanOK ==
  pc # "down" =>
    /\ Usable(narrator, build) /\ Usable(system, build)
    /\ \A i \in DOMAIN pool : Usable(pool[i], build) /\ pool[i] \notin {narrator, system}

(* The variables range over what the code keeps in them.                   *)
TypeOK ==
  /\ PlanOK
  /\ DOMAIN cast \subseteq Speakers
  /\ \A s \in DOMAIN cast : cast[s] \in [voice : Voices, by : {"engine", "operator"}]
  /\ \A n \in DOMAIN shelf :
       /\ shelf[n].script \in Scripts /\ shelf[n].voices \in Seq(Voices)
       /\ shelf[n].audio \in BOOLEAN /\ shelf[n].build \subseteq Backends
  /\ build \subseteq Backends /\ narrator \in Voices /\ system \in Voices /\ pool \in Seq(Voices)
  /\ pc \in {"down", "idle", "fresh", "cast", "pass2", "regender", "substitute", "render"}
  /\ RowsOK(known) /\ RowsOK(newcast)
  /\ todo \subseteq Speakers /\ taken \subseteq Voices
  /\ plan \in Seq(Voices) /\ meant \in Seq(Voices)
  /\ resuming \in BOOLEAN /\ crowded \in BOOLEAN

(* What goes to the renderer is renderable by this build, whatever build   *)
(* or operator cast the speaker; a speaker has one voice throughout; and a *)
(* voice that stands in for a missing one is not another speaker's in this *)
(* chapter, unless it is the narrator's or the system's.                   *)
RenderableVoices ==
  pc = "render" =>
    /\ \A i \in DOMAIN plan : Usable(plan[i], build)
    /\ \A i, j \in DOMAIN plan : script[i] = script[j] => plan[i] = plan[j]
    /\ \A i, j \in DOMAIN plan :
         plan[i] # meant[i] /\ plan[j] = plan[i] /\ script[j] # script[i] =>
           plan[i] \in {narrator, system}

(* No two characters that the engine cast share a voice unless the pool    *)
(* ran out, across crashes, builds, corrections and operator's changes.    *)
DistinctUnlessCrowded ==
  ~crowded =>
    \A s, t \in Characters \cap DOMAIN cast :
      cast[s].by = "engine" /\ cast[t].by = "engine" /\ s # t => cast[s].voice # cast[t].voice

(* Audio is in the voices of the cast, but for speakers the operator has   *)
(* re-cast and voices the build that rendered it did not have: a           *)
(* substitution never outlives the build that made it.                     *)
AudioMatchesCast ==
  \A n \in DOMAIN shelf : shelf[n].audio =>
    \A i \in DOMAIN shelf[n].script :
      LET row == cast[shelf[n].script[i]] IN
        row.by = "engine" /\ Usable(row.voice, shelf[n].build) => shelf[n].voices[i] = row.voice
=============================================================================
