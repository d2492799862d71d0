----------------------------- MODULE Story_proofs -----------------------------
(* For any number of processes, migrations, premises, texts and orders:    *)
(* who opens the database has the whole schema; an edit of the premise is  *)
(* pending until a chapter was written from it; the buffer is bounded; the *)
(* prompt remembers. Each rests on an invariant of its own, all but the    *)
(* first also on the typing of turn and command.                           *)
EXTENDS Story, FiniteSetTheorems, SequenceTheorems, WellFoundedInduction, TLAPS

-----------------------------------------------------------------------------
(* The schema.                                                             *)

(* What has run when migrate comes to statement i of migration m.          *)
Before(m, i) == UpTo(m - 1) \cup ({m} \X (1..(i - 1)))

Positions == {n \in Nat \X Nat :
                \/ n[1] \in 1..TARGET_VERSION /\ n[2] \in 1..MIGRATIONS[n[1]]
                \/ n[1] = TARGET_VERSION + 1 /\ n[2] = 1}

Places == {Closed, Opened, Failed} \cup [at : {"migrating"}, next : Positions]

(* Whoever migrates has all behind it; whoever has opened saw the version. *)
SchemaInv ==
  /\ userVersion \in Nat /\ objects \subseteq UpTo(TARGET_VERSION)
  /\ userVersion <= TARGET_VERSION => UpTo(userVersion) \subseteq objects
  /\ opening \in [Processes -> Places]
  /\ \A p \in Processes :
       /\ opening[p].at = "migrating" =>
            /\ userVersion <= TARGET_VERSION
            /\ Before(opening[p].next[1], opening[p].next[2]) \subseteq objects
       /\ Open(p) => userVersion = TARGET_VERSION

LEMMA Sizes ==
  /\ TARGET_VERSION \in Nat
  /\ \A m \in 1..TARGET_VERSION : MIGRATIONS[m] \in Nat \ {0}
BY MigrationsAssumption DEF MigrationsAssumption, TARGET_VERSION

LEMMA UpToNothing == UpTo(0) = {}
<1>1. 1..0 = {}
  OBVIOUS
<1> QED
  BY <1>1 DEF UpTo

LEMMA UpToNext ==
  ASSUME NEW m \in Nat \ {0}
  PROVE  UpTo(m) = UpTo(m - 1) \cup ({m} \X (1..MIGRATIONS[m]))
<1>1. 1..m = (1..(m - 1)) \cup {m}
  OBVIOUS
<1> QED
  BY <1>1 DEF UpTo

LEMMA UpToGrows ==
  ASSUME NEW v \in Nat, NEW w \in Nat, v <= w
  PROVE  UpTo(v) \subseteq UpTo(w)
<1>1. 1..v \subseteq 1..w
  OBVIOUS
<1> QED
  BY <1>1 DEF UpTo

LEMMA InUpTo ==
  ASSUME NEW v \in Nat, NEW m \in 1..v, NEW i \in 1..MIGRATIONS[m]
  PROVE  <<m, i>> \in UpTo(v)
<1>1. <<m, i>> \in {m} \X (1..MIGRATIONS[m])
  OBVIOUS
<1> QED
  BY <1>1 DEF UpTo

(* Where the next statement is, what was behind the last one is too.       *)
LEMMA NextStatement ==
  ASSUME NEW next \in Positions, next[1] <= TARGET_VERSION
  PROVE  /\ After(next[1], next[2]) \in Positions
         /\ Before(After(next[1], next[2])[1], After(next[1], next[2])[2])
              = Before(next[1], next[2]) \cup {next}
         /\ next \in UpTo(TARGET_VERSION)
<1> DEFINE m == next[1]
           i == next[2]
<1>1. m \in 1..TARGET_VERSION /\ i \in 1..MIGRATIONS[m] /\ next = <<m, i>>
  BY Sizes DEF Positions
<1>2. m \in Nat \ {0} /\ i \in Nat \ {0} /\ MIGRATIONS[m] \in Nat \ {0}
  BY <1>1, Sizes
<1>3. next \in UpTo(TARGET_VERSION)
  BY <1>1, InUpTo, Sizes
<1>4. CASE i < MIGRATIONS[m]
  <2>1. After(m, i) = <<m, i + 1>>
    BY <1>4 DEF After
  <2>2. 1..((i + 1) - 1) = (1..(i - 1)) \cup {i}
    BY <1>2
  <2>3. Before(m, i + 1) = Before(m, i) \cup {<<m, i>>}
    BY <2>2 DEF Before
  <2> QED
    BY <1>1, <1>2, <1>3, <1>4, <2>1, <2>3, Sizes DEF Positions
<1>5. CASE i = MIGRATIONS[m]
  <2>1. After(m, i) = <<m + 1, 1>>
    BY <1>5, <1>2 DEF After
  <2>2. 1..(1 - 1) = {} /\ (m + 1) - 1 = m
    BY <1>2
  <2>3. Before(m + 1, 1) = UpTo(m)
    BY <2>2 DEF Before
  <2>4. 1..MIGRATIONS[m] = (1..(i - 1)) \cup {i}
    BY <1>2, <1>5
  <2>5. UpTo(m) = Before(m, i) \cup {<<m, i>>}
    BY <2>4, <1>2, UpToNext DEF Before
  <2>6. <<m + 1, 1>> \in Positions
    BY <1>1, <1>2, Sizes DEF Positions
  <2> QED
    BY <1>1, <1>3, <2>1, <2>3, <2>5, <2>6
<1> QED
  BY <1>1, <1>2, <1>4, <1>5

SchemaStep == \E p \in Processes : Opens(p) \/ CloseStore(p)

LEMMA SchemaStarts == SchemaInit => SchemaInv
<1> SUFFICES ASSUME SchemaInit PROVE SchemaInv
  OBVIOUS
<1>1. userVersion \in Nat /\ opening = [p \in Processes |-> Closed]
  BY Sizes DEF SchemaInit
<1>2. objects \subseteq UpTo(TARGET_VERSION)
  BY <1>1, Sizes, UpToGrows DEF SchemaInit
<1>3. userVersion <= TARGET_VERSION => objects = UpTo(userVersion)
  BY <1>1, Sizes DEF SchemaInit
<1>4. \A p \in Processes : opening[p] = Closed
  BY <1>1
<1>5. Closed.at # "migrating" /\ Closed # Opened
  BY DEF Closed, Opened
<1>6. opening \in [Processes -> Places]
  BY <1>1 DEF Places
<1> QED
  BY <1>1, <1>2, <1>3, <1>4, <1>5, <1>6 DEF SchemaInv, Open

LEMMA SchemaHolds == SchemaInv /\ [SchemaStep]_schemaVars => SchemaInv'
<1> SUFFICES ASSUME SchemaInv, [SchemaStep]_schemaVars PROVE SchemaInv'
  OBVIOUS
<1> USE Sizes
<1>0. /\ Closed.at # "migrating" /\ Opened.at # "migrating" /\ Failed.at # "migrating"
      /\ Closed # Opened /\ Failed # Opened
  BY DEF Closed, Opened, Failed
<1>1. CASE UNCHANGED schemaVars
  BY <1>1 DEF schemaVars, SchemaInv, Open
<1>2. ASSUME NEW p \in Processes, OpenStore(p) PROVE SchemaInv'
  <2>1. CASE userVersion > TARGET_VERSION
    BY <2>1, <1>2, <1>0 DEF OpenStore, SchemaInv, Open, Places
  <2>2. CASE userVersion = TARGET_VERSION
    BY <2>2, <1>2, <1>0 DEF OpenStore, SchemaInv, Open, Places
  <2>3. CASE userVersion < TARGET_VERSION
    <3> DEFINE next == <<userVersion + 1, 1>>
    <3>1. userVersion \in Nat /\ next \in Positions
      BY <2>3 DEF SchemaInv, Positions
    <3>2. 1..(1 - 1) = {} /\ (userVersion + 1) - 1 = userVersion
      BY <3>1
    <3>3. Before(userVersion + 1, 1) = UpTo(userVersion)
      BY <3>2 DEF Before
    <3>4. opening' = [opening EXCEPT ![p] = [at |-> "migrating", next |-> next]]
      <4>1. ~(userVersion > TARGET_VERSION) /\ userVersion # TARGET_VERSION
        BY <2>3, <3>1
      <4>2. (CASE userVersion > TARGET_VERSION -> Failed
               [] userVersion = TARGET_VERSION -> Opened
               [] OTHER -> [at |-> "migrating", next |-> <<userVersion + 1, 1>>])
            = [at |-> "migrating", next |-> <<userVersion + 1, 1>>]
        BY <4>1
      <4> QED
        BY <4>2, <1>2 DEF OpenStore
    <3>5. [at |-> "migrating", next |-> next] \in Places
      BY <3>1 DEF Places
    <3>6. [at |-> "migrating", next |-> next] # Opened
      BY DEF Opened
    <3>7. UNCHANGED <<userVersion, objects>>
      BY <1>2 DEF OpenStore
    <3>8. opening' \in [Processes -> Places]
      BY <3>4, <3>5 DEF SchemaInv
    <3>9. UpTo(userVersion) \subseteq objects
      BY <2>3, <3>1 DEF SchemaInv
    <3>10. opening'[p] = [at |-> "migrating", next |-> next]
      BY <3>4 DEF SchemaInv
    <3>11. \A q \in Processes : q # p => opening'[q] = opening[q]
      BY <3>4 DEF SchemaInv
    <3>12. userVersion <= TARGET_VERSION
      BY <2>3, <3>1
    <3> HIDE DEF next
    <3>13. next[1] = userVersion + 1 /\ next[2] = 1
      BY DEF next
    <3>14. ASSUME NEW q \in Processes
          PROVE  /\ opening'[q].at = "migrating" =>
                      /\ userVersion <= TARGET_VERSION
                      /\ Before(opening'[q].next[1], opening'[q].next[2]) \subseteq objects
                 /\ Open(q)' => userVersion = TARGET_VERSION
      <4>1. CASE q = p
        BY <4>1, <3>3, <3>6, <3>9, <3>10, <3>12, <3>13 DEF Open
      <4>2. CASE q # p
        BY <4>2, <3>11 DEF SchemaInv, Open
      <4> QED
        BY <4>1, <4>2
    <3> QED
      BY <3>7, <3>8, <3>14 DEF SchemaInv
  <2> QED
    BY <2>1, <2>2, <2>3 DEF SchemaInv
<1>3. ASSUME NEW p \in Processes, Migrate(p) PROVE SchemaInv'
  <2> DEFINE next == opening[p].next
  <2>1. opening[p] \in [at : {"migrating"}, next : Positions]
    BY <1>3, <1>0 DEF Migrate, SchemaInv, Places
  <2>2. next \in Positions /\ next[1] <= TARGET_VERSION
    BY <2>1, <1>3 DEF Migrate
  <2>3. /\ After(next[1], next[2]) \in Positions
        /\ Before(After(next[1], next[2])[1], After(next[1], next[2])[2])
             = Before(next[1], next[2]) \cup {next}
        /\ next \in UpTo(TARGET_VERSION)
    BY <2>2, NextStatement
  <2>4. objects' = objects \cup {next} /\ userVersion' = userVersion
    BY <1>3 DEF Migrate
  <2>5. /\ userVersion <= TARGET_VERSION
        /\ Before(next[1], next[2]) \subseteq objects
    BY <1>3 DEF Migrate, SchemaInv
  <2>6. CASE next \in objects
    <3>1. opening' = [opening EXCEPT ![p] = Failed] /\ objects' = objects
      BY <1>3, <2>4, <2>6 DEF Migrate
    <3>2. opening' \in [Processes -> Places]
      BY <3>1 DEF SchemaInv, Places
    <3>3. ASSUME NEW q \in Processes
          PROVE  opening'[q] = opening[q] \/ opening'[q] = Failed
      BY <3>1 DEF SchemaInv
    <3> QED
      BY <3>1, <3>2, <3>3, <2>4, <1>0 DEF SchemaInv, Open
  <2>7. CASE next \notin objects
    <3> DEFINE moved == [at |-> "migrating", next |-> After(next[1], next[2])]
    <3>1. opening' = [opening EXCEPT ![p] = moved]
      <4>1. [opening[p] EXCEPT !.next = After(next[1], next[2])] = moved
        BY <2>1
      <4>2. opening' = [opening EXCEPT
                          ![p] = [opening[p] EXCEPT !.next = After(next[1], next[2])]]
        BY <1>3, <2>7 DEF Migrate
      <4> QED
        BY <4>1, <4>2
    <3>2. moved \in Places /\ moved # Opened
      BY <2>3 DEF Places, Opened
    <3>3. opening' \in [Processes -> Places]
      BY <3>1, <3>2 DEF SchemaInv
    <3>4. objects' \subseteq UpTo(TARGET_VERSION) /\ objects \subseteq objects'
      BY <2>3, <2>4 DEF SchemaInv
    <3>5. ASSUME NEW q \in Processes
          PROVE  /\ opening'[q].at = "migrating" =>
                      /\ userVersion <= TARGET_VERSION
                      /\ Before(opening'[q].next[1], opening'[q].next[2]) \subseteq objects'
                 /\ Open(q)' => userVersion = TARGET_VERSION
      <4>1. CASE q = p
        <5>1. opening'[q] = moved
          BY <4>1, <3>1 DEF SchemaInv
        <5>2. Before(moved.next[1], moved.next[2]) \subseteq objects'
          BY <2>3, <2>4, <2>5
        <5> QED
          BY <5>1, <5>2, <2>5, <3>2 DEF Open
      <4>2. CASE q # p
        <5>1. opening'[q] = opening[q]
          BY <4>2, <3>1 DEF SchemaInv
        <5> QED
          BY <5>1, <3>4 DEF SchemaInv, Open
      <4> QED
        BY <4>1, <4>2
    <3> QED
      BY <3>3, <3>4, <3>5, <2>4 DEF SchemaInv
  <2> QED
    BY <2>6, <2>7
<1>4. ASSUME NEW p \in Processes, StampVersion(p) PROVE SchemaInv'
  <2> DEFINE next == opening[p].next
  <2>1. opening[p] \in [at : {"migrating"}, next : Positions]
    BY <1>4, <1>0 DEF StampVersion, SchemaInv, Places
  <2>2. next[1] = TARGET_VERSION + 1 /\ next[2] = 1
    BY <2>1, <1>4 DEF StampVersion, Positions
  <2>3. 1..(1 - 1) = {} /\ (TARGET_VERSION + 1) - 1 = TARGET_VERSION
    OBVIOUS
  <2>4. UpTo(TARGET_VERSION) = Before(next[1], next[2])
    BY <2>2, <2>3 DEF Before
  <2>5. UpTo(TARGET_VERSION) \subseteq objects
    BY <2>4, <1>4 DEF StampVersion, SchemaInv
  <2>6. /\ userVersion' = TARGET_VERSION /\ objects' = objects
        /\ opening' = [opening EXCEPT ![p] = Opened]
    BY <1>4 DEF StampVersion
  <2> QED
    BY <2>5, <2>6, <1>0 DEF SchemaInv, Open, Places
<1>5. ASSUME NEW p \in Processes, CloseStore(p) PROVE SchemaInv'
  BY <1>5, <1>0 DEF CloseStore, SchemaInv, Open, Places
<1> QED
  BY <1>1, <1>2, <1>3, <1>4, <1>5 DEF SchemaStep, Opens

LEMMA SchemaSound == SchemaInv => OpenedIsMigrated
<1> SUFFICES ASSUME SchemaInv, NEW p \in Processes, Open(p)
             PROVE  objects = UpTo(TARGET_VERSION)
  BY DEF OpenedIsMigrated
<1>1. userVersion = TARGET_VERSION
  BY DEF SchemaInv
<1>2. userVersion <= TARGET_VERSION
  BY <1>1, Sizes
<1> QED
  BY <1>1, <1>2 DEF SchemaInv

-----------------------------------------------------------------------------
(* Types, and what a turn and a command may rely on between two steps.     *)

Chapters == [audio : BOOLEAN, summed : BOOLEAN]

StoreTyped ==
  /\ config \in {"none", "loads", "broken"} /\ file \in Texts \cup {NoText}
  /\ row \in Rows \cup {NoRow}
  /\ shelf \in Seq(Chapters) /\ Len(shelf) <= MaxChapters
  /\ consumed_through <= Len(shelf)
  /\ newest.premise \in Premises \cup {Starter, NoText} /\ lore \subseteq LoreBook \cup OwnLore
  /\ recorded = NoTarget \/ recorded \in MIN_BUFFER_TARGET..MAX_BUFFER_TARGET
  /\ seeded \in Texts \cup {NoText}

Counted == orders \in 0..MaxOrders /\ faults \in 0..MaxFaults

Steps == {"idle", "resume", "depth", "target", "assemble", "pass1", "stamp", "stamping",
          "remember", "render"}

UnderWay == pc \in {"stamp", "stamping", "remember", "render"}

TurnTyped ==
  /\ pc \in Steps /\ copy \in Rows \cup {NoRow}
  /\ pc # "idle" => Open("engine")
  /\ pc = "pass1" \/ UnderWay => row # NoRow
  /\ pc \in {"pass1", "stamp", "stamping"} => told.premise \in Premises \cup {Starter}
  /\ pc = "stamping" => copy \in Rows
  /\ UnderWay => Len(shelf) > 0

Commands == [op : {"none", "init", "story", "render"},
             at : {"start", "prompt", "row", "write", "protagonist", "title", "clear"},
             force : BOOLEAN, title : Names \cup {NoArg}, protagonist : Names \cup {NoArg},
             hash : Texts \cup {NoText}, seen : Rows \cup {NoRow}, left : SUBSET Nat]

CommandTyped ==
  /\ cmd \in Commands
  /\ cmd.op = "init" /\ cmd.at \in {"row", "write"} => cmd.hash \in Texts
  /\ cmd.op = "story" /\ cmd.at # "start" => row # NoRow

LEMMA VoicedShelf ==
  ASSUME shelf \in Seq(Chapters), NEW n \in 1..Len(shelf),
         NEW voiced, voiced = [shelf EXCEPT ![n].audio = TRUE]
  PROVE  /\ voiced \in Seq(Chapters) /\ Len(voiced) = Len(shelf)
         /\ voiced[n].audio = TRUE
         /\ \A m \in 1..Len(shelf) : m # n => voiced[m] = shelf[m]
<1> DEFINE e == [shelf[n] EXCEPT !.audio = TRUE]
<1>1. shelf[n] \in Chapters
  BY ElementOfSeq
<1>2. e \in Chapters /\ e.audio = TRUE
  BY <1>1 DEF Chapters
<1>3. voiced = [shelf EXCEPT ![n] = e]
  OBVIOUS
<1> HIDE DEF e
<1> DEFINE t == [shelf EXCEPT ![n] = e]
<1>4. /\ t \in Seq(Chapters) /\ Len(t) = Len(shelf)
      /\ \A j \in 1..Len(shelf) : t[j] = IF j = n THEN e ELSE shelf[j]
  BY <1>2, ExceptSeq
<1> HIDE DEF t
<1> QED
  BY <1>2, <1>3, <1>4 DEF t

LEMMA QueuedShelf ==
  ASSUME shelf \in Seq(Chapters), NEW n \in 1..Len(shelf),
         NEW queued, queued = [shelf EXCEPT ![n].audio = FALSE]
  PROVE  /\ queued \in Seq(Chapters) /\ Len(queued) = Len(shelf)
         /\ \A m \in 1..Len(shelf) : m # n => queued[m] = shelf[m]
         /\ \A m \in 1..Len(shelf) : queued[m].summed = shelf[m].summed
         /\ ~shelf[n].audio => queued = shelf
<1> DEFINE e == [shelf[n] EXCEPT !.audio = FALSE]
<1>1. shelf[n] \in Chapters
  BY ElementOfSeq
<1>2. e \in Chapters /\ e.summed = shelf[n].summed /\ (~shelf[n].audio => e = shelf[n])
  BY <1>1 DEF Chapters
<1>3. queued = [shelf EXCEPT ![n] = e]
  OBVIOUS
<1> HIDE DEF e
<1> DEFINE t == [shelf EXCEPT ![n] = e]
<1>4. /\ t \in Seq(Chapters) /\ Len(t) = Len(shelf)
      /\ \A j \in 1..Len(shelf) : t[j] = IF j = n THEN e ELSE shelf[j]
  BY <1>2, ExceptSeq
<1>5. e = shelf[n] => t = shelf
  OBVIOUS
<1> HIDE DEF t
<1> QED
  BY <1>2, <1>3, <1>4, <1>5 DEF t

LEMMA SummedShelf ==
  ASSUME shelf \in Seq(Chapters), NEW n \in 1..Len(shelf),
         NEW summed, summed = [shelf EXCEPT ![n].summed = TRUE]
  PROVE  /\ summed \in Seq(Chapters) /\ Len(summed) = Len(shelf)
         /\ \A m \in 1..Len(shelf) : summed[m].audio = shelf[m].audio
<1> DEFINE e == [shelf[n] EXCEPT !.summed = TRUE]
<1>1. shelf[n] \in Chapters
  BY ElementOfSeq
<1>2. e \in Chapters /\ e.audio = shelf[n].audio
  BY <1>1 DEF Chapters
<1>3. summed = [shelf EXCEPT ![n] = e]
  OBVIOUS
<1> HIDE DEF e
<1> DEFINE t == [shelf EXCEPT ![n] = e]
<1>4. /\ t \in Seq(Chapters) /\ Len(t) = Len(shelf)
      /\ \A j \in 1..Len(shelf) : t[j] = IF j = n THEN e ELSE shelf[j]
  BY <1>2, ExceptSeq
<1> HIDE DEF t
<1> QED
  BY <1>2, <1>3, <1>4 DEF t

LEMMA Upserted ==
  ASSUME StoreTyped, NEW title \in Names \cup {NoName}, NEW protagonist \in Names \cup {NoName},
         NEW hash \in Texts
  PROVE  /\ upsert_story(title, protagonist, hash) \in Rows
         /\ upsert_story(title, protagonist, hash).consumed = consumed_through
         /\ upsert_story(title, protagonist, hash).hash = hash
<1>1. consumed_through \in 0..MaxChapters
  BY StoryAssumption DEF StoryAssumption, StoreTyped, consumed_through, Rows
<1> QED
  BY <1>1 DEF upsert_story, Rows

Typed == StoreTyped /\ TurnTyped /\ CommandTyped

(* The five statements that write the story row.                           *)
LEMMA StampedRow ==
  ASSUME Typed, StampWrites
  PROVE  /\ row' \in Rows /\ row'.hash = told.premise
         /\ consumed_through' = consumed_through
<1>1. copy \in Rows /\ told.premise \in Texts
  BY DEF Typed, StampWrites, TurnTyped, Texts
<1>2. copy.title \in Names \cup {NoName} /\ copy.protagonist \in Names \cup {NoName}
  BY <1>1 DEF Rows
<1>3. row' \in Rows /\ row'.hash = told.premise /\ row'.consumed = consumed_through
  BY <1>1, <1>2, Upserted DEF Typed, StampWrites
<1> QED
  BY <1>3, StoryAssumption DEF StoryAssumption, consumed_through

LEMMA InitialRow ==
  ASSUME Typed, InitWrites
  PROVE  /\ row' \in Rows /\ row'.hash = cmd.hash /\ cmd.hash \in Texts
         /\ consumed_through' = consumed_through
<1> DEFINE title == Given(cmd.title, IF cmd.seen = NoRow THEN NoName ELSE cmd.seen.title)
           protagonist == Given(cmd.protagonist,
                                IF cmd.seen = NoRow THEN NoName ELSE cmd.seen.protagonist)
<1>1. /\ title \in Names \cup {NoName} /\ protagonist \in Names \cup {NoName}
      /\ cmd.hash \in Texts
  BY DEF Typed, InitWrites, CommandTyped, Commands, Given, Rows
<1>2. row' = upsert_story(title, protagonist, cmd.hash)
  BY DEF InitWrites
<1> HIDE DEF title, protagonist
<1>3. row' \in Rows /\ row'.hash = cmd.hash /\ row'.consumed = consumed_through
  BY <1>1, <1>2, Upserted DEF Typed
<1> QED
  BY <1>1, <1>3, StoryAssumption DEF StoryAssumption, consumed_through

LEMMA RenamedRow ==
  ASSUME Typed, SetProtagonist \/ SetTitle
  PROVE  /\ row \in Rows /\ row' \in Rows /\ row'.hash = row.hash
         /\ consumed_through' = consumed_through
<1>1. /\ row \in Rows
      /\ cmd.protagonist \in Names \cup {NoArg} /\ cmd.title \in Names \cup {NoArg}
  BY DEF Typed, SetProtagonist, SetTitle, StoreTyped, CommandTyped, Commands
<1>2. \/ row' = row
      \/ row' = [row EXCEPT !.protagonist = cmd.protagonist] /\ cmd.protagonist \in Names
      \/ row' = [row EXCEPT !.title = cmd.title] /\ cmd.title \in Names
  BY <1>1 DEF SetProtagonist, SetTitle
<1>3. row' \in Rows /\ row'.hash = row.hash /\ row'.consumed = row.consumed
  BY <1>1, <1>2 DEF Rows
<1> QED
  BY <1>1, <1>3, StoryAssumption DEF StoryAssumption, consumed_through

LEMMA ListenedRow ==
  ASSUME Typed, NEW n \in 0..MaxChapters, PutProgress(n)
  PROVE  /\ row \in Rows /\ row' \in Rows /\ row'.hash = row.hash
         /\ consumed_through' = n /\ n <= Len(shelf)
<1>1. row \in Rows /\ row' = [row EXCEPT !.consumed = n] /\ n <= Len(shelf)
  BY DEF PutProgress, Typed, StoreTyped
<1>2. row' \in Rows /\ row'.hash = row.hash /\ row'.consumed = n
  BY <1>1 DEF Rows
<1> QED
  BY <1>1, <1>2, StoryAssumption DEF StoryAssumption, consumed_through

LEMMA StoreHolds == Typed /\ [Next]_vars => StoreTyped'
<1> SUFFICES ASSUME Typed, [Next]_vars PROVE StoreTyped'
  OBVIOUS
<1> USE DEF Typed
<1>1. CASE Begin
  BY <1>1 DEF Begin, storeVars, historyVars, StoreTyped, consumed_through
<1>2. CASE FallThrough
  BY <1>2 DEF FallThrough, storeVars, historyVars, StoreTyped, consumed_through
<1>3. ASSUME NEW n \in DOMAIN shelf, ResumeRenders(n) PROVE StoreTyped'
  <2>1. n \in 1..Len(shelf) /\ shelf' = [shelf EXCEPT ![n].audio = TRUE]
    BY <1>3 DEF ResumeRenders, StoreTyped, TurnTyped, UnderWay
  <2>2. shelf' \in Seq(Chapters) /\ Len(shelf') = Len(shelf)
    BY <2>1, VoicedShelf DEF StoreTyped
  <2>4. consumed_through' = consumed_through
    BY <1>3 DEF ResumeRenders, consumed_through
  <2>5. /\ UNCHANGED <<config, file, row, recorded, seeded, newest>>
        /\ lore' \subseteq LoreBook \cup OwnLore
    BY <1>3 DEF ResumeRenders, StoreTyped, historyVars
  <2> QED
    BY <2>2, <2>4, <2>5 DEF StoreTyped
<1>4. CASE ReadDepth
  BY <1>4 DEF ReadDepth, storeVars, historyVars, StoreTyped, consumed_through
<1>5. CASE BufferFull
  BY <1>5 DEF BufferFull, Rest, storeVars, historyVars, StoreTyped, consumed_through
<1>6. CASE BufferShort
  BY <1>6 DEF BufferShort, storeVars, historyVars, StoreTyped, consumed_through
<1>7. CASE NoStory
  BY <1>7 DEF NoStory, Rest, storeVars, historyVars, StoreTyped, consumed_through
<1>8. CASE Assemble
  BY <1>8 DEF Assemble, storeVars, historyVars, StoreTyped, consumed_through
<1>9. CASE Abandon
  BY <1>9 DEF Abandon, Rest, storeVars, historyVars, StoreTyped, consumed_through
<1>10. ASSUME NEW t \in Prose, InsertChapter(t) PROVE StoreTyped'
  <2>1. [audio |-> FALSE, summed |-> FALSE] \in Chapters
    BY DEF Chapters
  <2>2. shelf' \in Seq(Chapters) /\ Len(shelf') = Len(shelf) + 1 /\ Len(shelf) \in Nat
    BY <1>10, <2>1, AppendProperties, LenProperties DEF InsertChapter, StoreTyped
  <2>3. consumed_through' = consumed_through /\ consumed_through \in Nat
    BY <1>10 DEF InsertChapter, consumed_through, StoreTyped, Rows
  <2>4. Len(shelf') <= MaxChapters /\ consumed_through' <= Len(shelf')
    BY <1>10, <2>2, <2>3, StoryAssumption DEF InsertChapter, StoreTyped, StoryAssumption
  <2>5. newest'.premise \in Premises \cup {Starter}
    BY <1>10 DEF InsertChapter, TurnTyped
  <2>6. UNCHANGED <<config, file, row, recorded, seeded, lore>>
    BY <1>10 DEF InsertChapter, historyVars
  <2> QED
    BY <2>2, <2>4, <2>5, <2>6 DEF StoreTyped
<1>11. CASE StampReads
  BY <1>11 DEF StampReads, storeVars, historyVars, StoreTyped, consumed_through
<1>12. CASE StampWrites
  BY <1>12, StampedRow DEF StampWrites, StoreTyped
<1>13. CASE StampFails
  BY <1>13 DEF StampFails, storeVars, historyVars, StoreTyped, consumed_through
<1>14. ASSUME NEW e \in LoreBook, Remember(e) PROVE StoreTyped'
  <2>1. Len(shelf) \in 1..Len(shelf) /\ shelf' = [shelf EXCEPT ![Len(shelf)].summed = TRUE]
    BY <1>14, LenProperties DEF Remember, StoreTyped, TurnTyped, UnderWay
  <2>2. shelf' \in Seq(Chapters) /\ Len(shelf') = Len(shelf)
    BY <2>1, SummedShelf DEF StoreTyped
  <2>4. consumed_through' = consumed_through
    BY <1>14 DEF Remember, consumed_through
  <2>5. /\ UNCHANGED <<config, file, row, recorded, seeded, newest>>
        /\ lore' \subseteq LoreBook \cup OwnLore
    BY <1>14 DEF Remember, upsert_lore, StoreTyped, historyVars
  <2> QED
    BY <2>2, <2>4, <2>5 DEF StoreTyped
<1>15. CASE Dirty
  BY <1>15 DEF Dirty, storeVars, historyVars, StoreTyped, consumed_through
<1>16. CASE Render
  <2>1. Len(shelf) \in 1..Len(shelf) /\ shelf' = [shelf EXCEPT ![Len(shelf)].audio = TRUE]
    BY <1>16, LenProperties DEF Render, StoreTyped, TurnTyped, UnderWay
  <2>2. shelf' \in Seq(Chapters) /\ Len(shelf') = Len(shelf)
    BY <2>1, VoicedShelf DEF StoreTyped
  <2>4. consumed_through' = consumed_through
    BY <1>16 DEF Render, consumed_through
  <2>5. /\ UNCHANGED <<config, file, row, recorded, seeded, newest>>
        /\ lore' \subseteq LoreBook \cup OwnLore
    BY <1>16 DEF Render, StoreTyped, historyVars
  <2> QED
    BY <2>2, <2>4, <2>5 DEF StoreTyped
<1>17. CASE RenderFails
  BY <1>17 DEF RenderFails, Rest, storeVars, historyVars, StoreTyped, consumed_through
<1>18. CASE EngineDies
  BY <1>18 DEF EngineDies, Rest, storeVars, historyVars, StoreTyped, consumed_through
<1>19. ASSUME NEW opts \in InitOptions, InitConfig(opts) PROVE StoreTyped'
  BY <1>19 DEF InitConfig, Order, storeVars, historyVars, StoreTyped, consumed_through
<1>20. CASE InitPrompt
  <2>1. file' \in Texts
    BY <1>20 DEF InitPrompt, StoreTyped, Texts
  <2> QED
    BY <1>20, <2>1 DEF InitPrompt, storeVars, historyVars, StoreTyped, consumed_through
<1>21. CASE InitReads
  BY <1>21 DEF InitReads, Done, storeVars, historyVars, StoreTyped, consumed_through
<1>22. CASE InitWrites
  BY <1>22, InitialRow DEF InitWrites, StoreTyped
<1>23. ASSUME NEW text \in Texts, EditPrompt(text) PROVE StoreTyped'
  BY <1>23 DEF EditPrompt, Order, storeVars, historyVars, StoreTyped, consumed_through
<1>24. ASSUME NEW edit \in StoryEdits, StoryCommand(edit) PROVE StoreTyped'
  BY <1>24 DEF StoryCommand, Order, storeVars, historyVars, StoreTyped, consumed_through
<1>25. CASE StoryReads
  BY <1>25 DEF StoryReads, Done, storeVars, historyVars, StoreTyped, consumed_through
<1>26. CASE SetProtagonist
  BY <1>26, RenamedRow DEF SetProtagonist, StoreTyped
<1>27. CASE SetTitle
  BY <1>27, RenamedRow DEF SetTitle, StoreTyped
<1>28. CASE CommandDies
  BY <1>28 DEF CommandDies, Done, storeVars, historyVars, StoreTyped, consumed_through
<1>29. ASSUME NEW n \in 0..MaxChapters, PutProgress(n) PROVE StoreTyped'
  BY <1>29, ListenedRow DEF PutProgress, StoreTyped
<1>30. ASSUME NEW req \in Requests, PostBuffer(req) PROVE StoreTyped'
  <2>1. recorded' \in MIN_BUFFER_TARGET..MAX_BUFFER_TARGET
    BY <1>30 DEF PostBuffer, resolve_target
  <2> QED
    BY <1>30, <2>1 DEF PostBuffer, StoreTyped, consumed_through
<1>31. ASSUME NEW p \in Processes, Opening(p) PROVE StoreTyped'
  BY <1>31 DEF Opening, storeVars, historyVars, StoreTyped, consumed_through
<1>32. CASE UNCHANGED vars
  BY <1>32 DEF vars, storeVars, historyVars, StoreTyped, consumed_through
<1>33. CASE RenderCommand
  BY <1>33 DEF RenderCommand, Order, storeVars, historyVars, StoreTyped, consumed_through
<1>34. ASSUME NEW chapters \in SUBSET DOMAIN shelf, RenderResolves(chapters)
       PROVE  StoreTyped'
  BY <1>34 DEF RenderResolves, Done, storeVars, historyVars, StoreTyped, consumed_through
<1>35. ASSUME NEW n \in DOMAIN shelf, RenderClears(n) PROVE StoreTyped'
  <2>1. n \in 1..Len(shelf) /\ shelf' = [shelf EXCEPT ![n].audio = FALSE]
    BY <1>35 DEF RenderClears, StoreTyped
  <2>2. shelf' \in Seq(Chapters) /\ Len(shelf') = Len(shelf)
    BY <2>1, QueuedShelf DEF StoreTyped
  <2>3. consumed_through' = consumed_through
    BY <1>35 DEF RenderClears, consumed_through
  <2>4. UNCHANGED <<config, file, row, recorded, seeded, newest, lore>>
    BY <1>35 DEF RenderClears
  <2> QED
    BY <2>2, <2>3, <2>4 DEF StoreTyped
<1> QED
  BY <1>1, <1>2, <1>3, <1>4, <1>5, <1>6, <1>7, <1>8, <1>9, <1>10, <1>11, <1>12, <1>13,
     <1>14, <1>15, <1>16, <1>17, <1>18, <1>19, <1>20, <1>21, <1>22, <1>23, <1>24, <1>25,
     <1>26, <1>27, <1>28, <1>29, <1>30, <1>31, <1>32, <1>33, <1>34, <1>35
     DEF Next, EngineTurn, Operator, Daemon

LEMMA RowStays == Typed /\ [Next]_vars /\ row # NoRow => row' # NoRow
<1> SUFFICES ASSUME Typed, [Next]_vars, row # NoRow
             PROVE  row' # NoRow
  OBVIOUS
<1>1. CASE Begin
  BY <1>1 DEF Begin, storeVars
<1>2. CASE FallThrough
  BY <1>2 DEF FallThrough, storeVars
<1>3. ASSUME NEW n \in DOMAIN shelf, ResumeRenders(n) PROVE row' # NoRow
  BY <1>3 DEF ResumeRenders, storeVars
<1>4. CASE ReadDepth
  BY <1>4 DEF ReadDepth, storeVars
<1>5. CASE BufferFull
  BY <1>5 DEF BufferFull, storeVars
<1>6. CASE BufferShort
  BY <1>6 DEF BufferShort, storeVars
<1>7. CASE NoStory
  BY <1>7 DEF NoStory, storeVars
<1>8. CASE Assemble
  BY <1>8 DEF Assemble, storeVars
<1>9. CASE Abandon
  BY <1>9 DEF Abandon, storeVars
<1>10. ASSUME NEW t \in Prose, InsertChapter(t) PROVE row' # NoRow
  BY <1>10 DEF InsertChapter, storeVars
<1>11. CASE StampReads
  BY <1>11 DEF StampReads, storeVars
<1>12. CASE StampWrites
  BY <1>12, StampedRow, StoryAssumption DEF StoryAssumption
<1>13. CASE StampFails
  BY <1>13 DEF StampFails, storeVars
<1>14. ASSUME NEW e \in LoreBook, Remember(e) PROVE row' # NoRow
  BY <1>14 DEF Remember, storeVars
<1>15. CASE Dirty
  BY <1>15 DEF Dirty, storeVars
<1>16. CASE Render
  BY <1>16 DEF Render, storeVars
<1>17. CASE RenderFails
  BY <1>17 DEF RenderFails, storeVars
<1>18. CASE EngineDies
  BY <1>18 DEF EngineDies, storeVars
<1>19. ASSUME NEW opts \in InitOptions, InitConfig(opts) PROVE row' # NoRow
  BY <1>19 DEF InitConfig, storeVars
<1>20. CASE InitPrompt
  BY <1>20 DEF InitPrompt, storeVars
<1>21. CASE InitReads
  BY <1>21 DEF InitReads, storeVars
<1>22. CASE InitWrites
  BY <1>22, InitialRow, StoryAssumption DEF StoryAssumption
<1>23. ASSUME NEW text \in Texts, EditPrompt(text) PROVE row' # NoRow
  BY <1>23 DEF EditPrompt, storeVars
<1>24. ASSUME NEW edit \in StoryEdits, StoryCommand(edit) PROVE row' # NoRow
  BY <1>24 DEF StoryCommand, storeVars
<1>25. CASE StoryReads
  BY <1>25 DEF StoryReads, storeVars
<1>26. CASE SetProtagonist
  BY <1>26, RenamedRow, StoryAssumption DEF StoryAssumption
<1>27. CASE SetTitle
  BY <1>27, RenamedRow, StoryAssumption DEF StoryAssumption
<1>28. CASE CommandDies
  BY <1>28 DEF CommandDies, storeVars
<1>29. ASSUME NEW n \in 0..MaxChapters, PutProgress(n) PROVE row' # NoRow
  BY <1>29, ListenedRow, StoryAssumption DEF StoryAssumption
<1>30. ASSUME NEW req \in Requests, PostBuffer(req) PROVE row' # NoRow
  BY <1>30 DEF PostBuffer, storeVars
<1>31. ASSUME NEW p \in Processes, Opening(p) PROVE row' # NoRow
  BY <1>31 DEF Opening, storeVars
<1>32. CASE UNCHANGED vars
  BY <1>32 DEF vars, storeVars
<1>33. CASE RenderCommand
  BY <1>33 DEF RenderCommand, storeVars
<1>34. ASSUME NEW chapters \in SUBSET DOMAIN shelf, RenderResolves(chapters)
       PROVE  row' # NoRow
  BY <1>34 DEF RenderResolves, storeVars
<1>35. ASSUME NEW n \in DOMAIN shelf, RenderClears(n) PROVE row' # NoRow
  BY <1>35 DEF RenderClears
<1> QED
  BY <1>1, <1>2, <1>3, <1>4, <1>5, <1>6, <1>7, <1>8, <1>9, <1>10, <1>11, <1>12, <1>13,
     <1>14, <1>15, <1>16, <1>17, <1>18, <1>19, <1>20, <1>21, <1>22, <1>23, <1>24, <1>25,
     <1>26, <1>27, <1>28, <1>29, <1>30, <1>31, <1>32, <1>33, <1>34, <1>35
     DEF Next, EngineTurn, Operator, Daemon

LEMMA CountedHolds == Counted /\ [Next]_vars => Counted'
<1> SUFFICES ASSUME Counted, [Next]_vars PROVE Counted'
  OBVIOUS
<1> USE StoryAssumption DEF StoryAssumption
<1>1. CASE Begin
  BY <1>1 DEF Begin, Counted
<1>2. CASE FallThrough
  BY <1>2 DEF FallThrough, Counted
<1>3. ASSUME NEW n \in DOMAIN shelf, ResumeRenders(n) PROVE Counted'
  BY <1>3 DEF ResumeRenders, Rest, Counted
<1>4. CASE ReadDepth
  BY <1>4 DEF ReadDepth, Counted
<1>5. CASE BufferFull
  BY <1>5 DEF BufferFull, Rest, Counted
<1>6. CASE BufferShort
  BY <1>6 DEF BufferShort, Counted
<1>7. CASE NoStory
  BY <1>7 DEF NoStory, Rest, Counted
<1>8. CASE Assemble
  BY <1>8 DEF Assemble, Counted
<1>9. CASE Abandon
  BY <1>9 DEF Abandon, Rest, Counted
<1>10. ASSUME NEW t \in Prose, InsertChapter(t) PROVE Counted'
  BY <1>10 DEF InsertChapter, Counted
<1>11. CASE StampReads
  BY <1>11 DEF StampReads, Counted
<1>12. CASE StampWrites
  BY <1>12 DEF StampWrites, Counted
<1>13. CASE StampFails
  BY <1>13 DEF StampFails, Counted
<1>14. ASSUME NEW e \in LoreBook, Remember(e) PROVE Counted'
  BY <1>14 DEF Remember, Counted
<1>15. CASE Dirty
  BY <1>15 DEF Dirty, Counted
<1>16. CASE Render
  BY <1>16 DEF Render, Rest, Counted
<1>17. CASE RenderFails
  BY <1>17 DEF RenderFails, Rest, Counted
<1>18. CASE EngineDies
  BY <1>18 DEF EngineDies, Rest, Counted
<1>19. ASSUME NEW opts \in InitOptions, InitConfig(opts) PROVE Counted'
  BY <1>19 DEF InitConfig, Order, Counted
<1>20. CASE InitPrompt
  BY <1>20 DEF InitPrompt, Counted
<1>21. CASE InitReads
  BY <1>21 DEF InitReads, Done, Counted
<1>22. CASE InitWrites
  BY <1>22 DEF InitWrites, Done, Counted
<1>23. ASSUME NEW text \in Texts, EditPrompt(text) PROVE Counted'
  BY <1>23 DEF EditPrompt, Order, Counted
<1>24. ASSUME NEW edit \in StoryEdits, StoryCommand(edit) PROVE Counted'
  BY <1>24 DEF StoryCommand, Order, Counted
<1>25. CASE StoryReads
  BY <1>25 DEF StoryReads, Done, Counted
<1>26. CASE SetProtagonist
  BY <1>26 DEF SetProtagonist, Counted
<1>27. CASE SetTitle
  BY <1>27 DEF SetTitle, Done, Counted
<1>28. CASE CommandDies
  BY <1>28 DEF CommandDies, Done, Counted
<1>29. ASSUME NEW n \in 0..MaxChapters, PutProgress(n) PROVE Counted'
  BY <1>29 DEF PutProgress, Order, Counted
<1>30. ASSUME NEW req \in Requests, PostBuffer(req) PROVE Counted'
  BY <1>30 DEF PostBuffer, Order, Counted
<1>31. ASSUME NEW p \in Processes, Opening(p) PROVE Counted'
  BY <1>31 DEF Opening, Counted
<1>32. CASE UNCHANGED vars
  BY <1>32 DEF vars, Counted
<1>33. CASE RenderCommand
  BY <1>33 DEF RenderCommand, Order, Counted
<1>34. ASSUME NEW chapters \in SUBSET DOMAIN shelf, RenderResolves(chapters)
       PROVE  Counted'
  BY <1>34 DEF RenderResolves, Done, Counted
<1>35. ASSUME NEW n \in DOMAIN shelf, RenderClears(n) PROVE Counted'
  BY <1>35 DEF RenderClears, Done, Counted
<1> QED
  BY <1>1, <1>2, <1>3, <1>4, <1>5, <1>6, <1>7, <1>8, <1>9, <1>10, <1>11, <1>12, <1>13,
     <1>14, <1>15, <1>16, <1>17, <1>18, <1>19, <1>20, <1>21, <1>22, <1>23, <1>24, <1>25,
     <1>26, <1>27, <1>28, <1>29, <1>30, <1>31, <1>32, <1>33, <1>34, <1>35
     DEF Next, EngineTurn, Operator, Daemon

LEMMA CommandHolds == Typed /\ [Next]_vars => CommandTyped'
<1> SUFFICES ASSUME Typed, [Next]_vars PROVE CommandTyped'
  OBVIOUS
<1> USE RowStays DEF Typed
<1>1. CASE Begin
  BY <1>1 DEF Begin, NoCommand, CommandTyped, Commands
<1>2. CASE FallThrough
  BY <1>2 DEF FallThrough, NoCommand, CommandTyped, Commands
<1>3. ASSUME NEW n \in DOMAIN shelf, ResumeRenders(n) PROVE CommandTyped'
  BY <1>3 DEF ResumeRenders, Rest, NoCommand, CommandTyped, Commands
<1>4. CASE ReadDepth
  BY <1>4 DEF ReadDepth, NoCommand, CommandTyped, Commands
<1>5. CASE BufferFull
  BY <1>5 DEF BufferFull, Rest, NoCommand, CommandTyped, Commands
<1>6. CASE BufferShort
  BY <1>6 DEF BufferShort, NoCommand, CommandTyped, Commands
<1>7. CASE NoStory
  BY <1>7 DEF NoStory, Rest, NoCommand, CommandTyped, Commands
<1>8. CASE Assemble
  BY <1>8 DEF Assemble, NoCommand, CommandTyped, Commands
<1>9. CASE Abandon
  BY <1>9 DEF Abandon, Rest, NoCommand, CommandTyped, Commands
<1>10. ASSUME NEW t \in Prose, InsertChapter(t) PROVE CommandTyped'
  BY <1>10 DEF InsertChapter, NoCommand, CommandTyped, Commands
<1>11. CASE StampReads
  BY <1>11 DEF StampReads, NoCommand, CommandTyped, Commands
<1>12. CASE StampWrites
  BY <1>12 DEF StampWrites, NoCommand, CommandTyped, Commands
<1>13. CASE StampFails
  BY <1>13 DEF StampFails, NoCommand, CommandTyped, Commands
<1>14. ASSUME NEW e \in LoreBook, Remember(e) PROVE CommandTyped'
  BY <1>14 DEF Remember, NoCommand, CommandTyped, Commands
<1>15. CASE Dirty
  BY <1>15 DEF Dirty, NoCommand, CommandTyped, Commands
<1>16. CASE Render
  BY <1>16 DEF Render, Rest, NoCommand, CommandTyped, Commands
<1>17. CASE RenderFails
  BY <1>17 DEF RenderFails, Rest, NoCommand, CommandTyped, Commands
<1>18. CASE EngineDies
  BY <1>18 DEF EngineDies, Rest, NoCommand, CommandTyped, Commands
<1>19. ASSUME NEW opts \in InitOptions, InitConfig(opts) PROVE CommandTyped'
  <2>1. opts \in [force : BOOLEAN, title : Names \cup {NoArg}, protagonist : Names \cup {NoArg}]
    BY StoryAssumption DEF StoryAssumption
  <2>2. cmd' = [op |-> "init", at |-> "prompt", force |-> opts.force, title |-> opts.title,
                protagonist |-> opts.protagonist, hash |-> NoText, seen |-> NoRow, left |-> {}]
    BY <1>19 DEF InitConfig, NoCommand
  <2> QED
    BY <2>1, <2>2 DEF CommandTyped, Commands
<1>20. CASE InitPrompt
  <2>1. file' \in Texts /\ row' = row
    BY <1>20 DEF InitPrompt, StoreTyped, Texts, storeVars
  <2>2. cmd' = [cmd EXCEPT !.at = "row", !.hash = file']
    BY <1>20 DEF InitPrompt
  <2>3. cmd \in Commands /\ cmd.op = "init"
    BY <1>20 DEF InitPrompt, CommandTyped
  <2>4. cmd' \in Commands /\ cmd'.op = "init" /\ cmd'.hash \in Texts
    BY <2>1, <2>2, <2>3 DEF Commands
  <2> QED
    BY <2>4 DEF CommandTyped
<1>21. CASE InitReads
  <2>1. cmd \in Commands /\ cmd.op = "init" /\ cmd.hash \in Texts /\ row \in Rows \cup {NoRow}
    BY <1>21 DEF InitReads, CommandTyped, StoreTyped
  <2>2. CASE cmd' = [cmd EXCEPT !.at = "write", !.seen = row]
    <3>1. cmd' \in Commands /\ cmd'.op = "init" /\ cmd'.hash \in Texts
      BY <2>1, <2>2 DEF Commands
    <3> QED
      BY <3>1 DEF CommandTyped
  <2>3. CASE cmd' = NoCommand
    BY <2>3 DEF NoCommand, CommandTyped, Commands
  <2> QED
    BY <1>21, <2>2, <2>3 DEF InitReads, Done
<1>22. CASE InitWrites
  BY <1>22 DEF InitWrites, Done, NoCommand, CommandTyped, Commands
<1>23. ASSUME NEW text \in Texts, EditPrompt(text) PROVE CommandTyped'
  BY <1>23 DEF EditPrompt, Order, NoCommand, CommandTyped, Commands
<1>24. ASSUME NEW edit \in StoryEdits, StoryCommand(edit) PROVE CommandTyped'
  <2>1. edit \in [title : Names \cup {NoArg}, protagonist : Names \cup {NoArg}]
    BY StoryAssumption DEF StoryAssumption
  <2>2. cmd' = [op |-> "story", at |-> "start", force |-> FALSE, title |-> edit.title,
                protagonist |-> edit.protagonist, hash |-> NoText, seen |-> NoRow, left |-> {}]
    BY <1>24 DEF StoryCommand, NoCommand
  <2> QED
    BY <2>1, <2>2 DEF CommandTyped, Commands
<1>25. CASE StoryReads
  <2>1. cmd \in Commands /\ cmd.op = "story" /\ row \in Rows \cup {NoRow} /\ row' = row
    BY <1>25 DEF StoryReads, CommandTyped, StoreTyped, storeVars
  <2>2. CASE row # NoRow /\ cmd' = [cmd EXCEPT !.at = "protagonist", !.seen = row]
    <3>1. cmd' \in Commands /\ cmd'.op = "story" /\ row' # NoRow
      BY <2>1, <2>2 DEF Commands
    <3> QED
      BY <3>1 DEF CommandTyped
  <2>3. CASE cmd' = NoCommand
    BY <2>3 DEF NoCommand, CommandTyped, Commands
  <2> QED
    BY <1>25, <2>2, <2>3 DEF StoryReads, Done
<1>26. CASE SetProtagonist
  BY <1>26 DEF SetProtagonist, NoCommand, CommandTyped, Commands
<1>27. CASE SetTitle
  BY <1>27 DEF SetTitle, Done, NoCommand, CommandTyped, Commands
<1>28. CASE CommandDies
  BY <1>28 DEF CommandDies, Done, NoCommand, CommandTyped, Commands
<1>29. ASSUME NEW n \in 0..MaxChapters, PutProgress(n) PROVE CommandTyped'
  BY <1>29 DEF PutProgress, Order, NoCommand, CommandTyped, Commands
<1>30. ASSUME NEW req \in Requests, PostBuffer(req) PROVE CommandTyped'
  BY <1>30 DEF PostBuffer, Order, NoCommand, CommandTyped, Commands
<1>31. ASSUME NEW p \in Processes, Opening(p) PROVE CommandTyped'
  BY <1>31 DEF Opening, NoCommand, CommandTyped, Commands
<1>32. CASE UNCHANGED vars
  BY <1>32 DEF vars, CommandTyped
<1>33. CASE RenderCommand
  BY <1>33 DEF RenderCommand, NoCommand, CommandTyped, Commands
<1>34. ASSUME NEW chapters \in SUBSET DOMAIN shelf, RenderResolves(chapters)
       PROVE  CommandTyped'
  <2>1. cmd \in Commands /\ cmd.op = "render" /\ chapters \in SUBSET Nat
    BY <1>34 DEF RenderResolves, CommandTyped, StoreTyped
  <2>2. CASE cmd' = [cmd EXCEPT !.at = "clear", !.left = chapters]
    <3>1. cmd' \in Commands /\ cmd'.op = "render"
      BY <2>1, <2>2 DEF Commands
    <3> QED
      BY <3>1 DEF CommandTyped
  <2>3. CASE cmd' = NoCommand
    BY <2>3 DEF NoCommand, CommandTyped, Commands
  <2> QED
    BY <1>34, <2>2, <2>3 DEF RenderResolves, Done
<1>35. ASSUME NEW n \in DOMAIN shelf, RenderClears(n) PROVE CommandTyped'
  <2>1. cmd \in Commands /\ cmd.op = "render"
    BY <1>35 DEF RenderClears, CommandTyped
  <2>2. CASE cmd' = [cmd EXCEPT !.left = @ \ {n}]
    <3>1. cmd' \in Commands /\ cmd'.op = "render"
      BY <2>1, <2>2 DEF Commands
    <3> QED
      BY <3>1 DEF CommandTyped
  <2>3. CASE cmd' = NoCommand
    BY <2>3 DEF NoCommand, CommandTyped, Commands
  <2> QED
    BY <1>35, <2>2, <2>3 DEF RenderClears, Done
<1> QED
  BY <1>1, <1>2, <1>3, <1>4, <1>5, <1>6, <1>7, <1>8, <1>9, <1>10, <1>11, <1>12, <1>13,
     <1>14, <1>15, <1>16, <1>17, <1>18, <1>19, <1>20, <1>21, <1>22, <1>23, <1>24, <1>25,
     <1>26, <1>27, <1>28, <1>29, <1>30, <1>31, <1>32, <1>33, <1>34, <1>35
     DEF Next, EngineTurn, Operator, Daemon

LEMMA TurnHolds ==
  SchemaInv /\ Typed /\ [Next]_vars => TurnTyped'
<1> SUFFICES ASSUME SchemaInv, Typed, [Next]_vars PROVE TurnTyped'
  OBVIOUS
<1> USE DEF Typed
<1>1. CASE Begin
  BY <1>1, RowStays
     DEF Begin, storeVars, schemaVars, engineVars, TurnTyped, UnderWay, Steps, Open
<1>2. CASE FallThrough
  BY <1>2, RowStays
     DEF FallThrough, storeVars, schemaVars, engineVars, TurnTyped, UnderWay, Steps, Open
<1>3. ASSUME NEW n \in DOMAIN shelf, ResumeRenders(n) PROVE TurnTyped'
  BY <1>3, RowStays
     DEF ResumeRenders, Rest, storeVars, schemaVars, engineVars, TurnTyped, UnderWay,
         Steps, Open
<1>4. CASE ReadDepth
  BY <1>4, RowStays
     DEF ReadDepth, storeVars, schemaVars, engineVars, TurnTyped, UnderWay, Steps, Open
<1>5. CASE BufferFull
  BY <1>5, RowStays
     DEF BufferFull, Rest, storeVars, schemaVars, engineVars, TurnTyped, UnderWay, Steps,
         Open
<1>6. CASE BufferShort
  BY <1>6, RowStays
     DEF BufferShort, storeVars, schemaVars, engineVars, TurnTyped, UnderWay, Steps, Open
<1>7. CASE NoStory
  BY <1>7, RowStays
     DEF NoStory, Rest, storeVars, schemaVars, engineVars, TurnTyped, UnderWay, Steps,
         Open
<1>8. CASE Assemble
  <2>1. told'.premise = file /\ file \in Premises \cup {Starter}
    BY <1>8 DEF Assemble, StoreTyped, Texts
  <2> QED
    BY <1>8, <2>1 DEF Assemble, storeVars, schemaVars, TurnTyped, UnderWay, Steps, Open
<1>9. CASE Abandon
  BY <1>9, RowStays
     DEF Abandon, Rest, storeVars, schemaVars, engineVars, TurnTyped, UnderWay, Steps,
         Open
<1>10. ASSUME NEW t \in Prose, InsertChapter(t) PROVE TurnTyped'
  <2>1. Len(shelf') > 0
    BY <1>10, AppendProperties, LenProperties DEF InsertChapter, StoreTyped, Chapters
  <2> QED
    BY <1>10, <2>1 DEF InsertChapter, schemaVars, TurnTyped, UnderWay, Steps, Open
<1>11. CASE StampReads
  <2>1. row \in Rows /\ UnderWay
    BY <1>11 DEF StampReads, StoreTyped, TurnTyped, UnderWay
  <2>2. copy' = row /\ row' = row
    BY <1>11 DEF StampReads, storeVars
  <2> QED
    BY <1>11, <2>1, <2>2
       DEF StampReads, storeVars, schemaVars, TurnTyped, UnderWay, Steps, Open
<1>12. CASE StampWrites
  BY <1>12, RowStays
     DEF StampWrites, storeVars, schemaVars, engineVars, TurnTyped, UnderWay, Steps, Open
<1>13. CASE StampFails
  BY <1>13, RowStays
     DEF StampFails, storeVars, schemaVars, engineVars, TurnTyped, UnderWay, Steps, Open
<1>14. ASSUME NEW e \in LoreBook, Remember(e) PROVE TurnTyped'
  <2>1. Len(shelf) \in 1..Len(shelf)
    BY <1>14, LenProperties DEF Remember, StoreTyped, TurnTyped, UnderWay
  <2>2. Len(shelf') = Len(shelf)
    BY <1>14, <2>1, SummedShelf DEF Remember, StoreTyped
  <2> QED
    BY <1>14, <2>1, <2>2 DEF Remember, schemaVars, TurnTyped, UnderWay, Steps, Open
<1>15. CASE Dirty
  BY <1>15, RowStays
     DEF Dirty, storeVars, schemaVars, engineVars, TurnTyped, UnderWay, Steps, Open
<1>16. CASE Render
  BY <1>16, RowStays
     DEF Render, Rest, storeVars, schemaVars, engineVars, TurnTyped, UnderWay, Steps, Open
<1>17. CASE RenderFails
  BY <1>17, RowStays
     DEF RenderFails, Rest, storeVars, schemaVars, engineVars, TurnTyped, UnderWay, Steps,
         Open
<1>18. CASE EngineDies
  BY <1>18, RowStays
     DEF EngineDies, Rest, storeVars, schemaVars, engineVars, TurnTyped, UnderWay, Steps,
         Open, CloseStore
<1>19. ASSUME NEW opts \in InitOptions, InitConfig(opts) PROVE TurnTyped'
  BY <1>19, RowStays
     DEF InitConfig, Order, storeVars, schemaVars, engineVars, TurnTyped, UnderWay, Steps,
         Open
<1>20. CASE InitPrompt
  BY <1>20, RowStays
     DEF InitPrompt, storeVars, schemaVars, engineVars, TurnTyped, UnderWay, Steps, Open
<1>21. CASE InitReads
  <2>1. opening'["engine"] = opening["engine"]
    BY <1>21, StoryAssumption
       DEF InitReads, Done, CloseStore, schemaVars, SchemaInv, StoryAssumption
  <2> QED
    BY <1>21, <2>1, RowStays
       DEF InitReads, storeVars, engineVars, TurnTyped, UnderWay, Steps, Open
<1>22. CASE InitWrites
  <2>1. opening'["engine"] = opening["engine"]
    BY <1>22, StoryAssumption
       DEF InitWrites, Done, CloseStore, schemaVars, SchemaInv, StoryAssumption
  <2> QED
    BY <1>22, <2>1, RowStays
       DEF InitWrites, storeVars, engineVars, TurnTyped, UnderWay, Steps, Open
<1>23. ASSUME NEW text \in Texts, EditPrompt(text) PROVE TurnTyped'
  BY <1>23, RowStays
     DEF EditPrompt, Order, storeVars, schemaVars, engineVars, TurnTyped, UnderWay, Steps,
         Open
<1>24. ASSUME NEW edit \in StoryEdits, StoryCommand(edit) PROVE TurnTyped'
  BY <1>24, RowStays
     DEF StoryCommand, Order, storeVars, schemaVars, engineVars, TurnTyped, UnderWay,
         Steps, Open
<1>25. CASE StoryReads
  <2>1. opening'["engine"] = opening["engine"]
    BY <1>25, StoryAssumption
       DEF StoryReads, Done, CloseStore, schemaVars, SchemaInv, StoryAssumption
  <2> QED
    BY <1>25, <2>1, RowStays
       DEF StoryReads, storeVars, engineVars, TurnTyped, UnderWay, Steps, Open
<1>26. CASE SetProtagonist
  BY <1>26, RowStays
     DEF SetProtagonist, storeVars, schemaVars, engineVars, TurnTyped, UnderWay, Steps,
         Open
<1>27. CASE SetTitle
  <2>1. opening'["engine"] = opening["engine"]
    BY <1>27, StoryAssumption
       DEF SetTitle, Done, CloseStore, schemaVars, SchemaInv, StoryAssumption
  <2> QED
    BY <1>27, <2>1, RowStays
       DEF SetTitle, storeVars, engineVars, TurnTyped, UnderWay, Steps, Open
<1>28. CASE CommandDies
  <2>1. opening'["engine"] = opening["engine"]
    BY <1>28, StoryAssumption
       DEF CommandDies, Done, CloseStore, schemaVars, SchemaInv, StoryAssumption
  <2> QED
    BY <1>28, <2>1, RowStays
       DEF CommandDies, storeVars, engineVars, TurnTyped, UnderWay, Steps, Open
<1>29. ASSUME NEW n \in 0..MaxChapters, PutProgress(n) PROVE TurnTyped'
  BY <1>29, RowStays
     DEF PutProgress, Order, storeVars, schemaVars, engineVars, TurnTyped, UnderWay,
         Steps, Open
<1>30. ASSUME NEW req \in Requests, PostBuffer(req) PROVE TurnTyped'
  BY <1>30, RowStays
     DEF PostBuffer, Order, storeVars, schemaVars, engineVars, TurnTyped, UnderWay, Steps,
         Open
<1>31. ASSUME NEW p \in Processes, Opening(p) PROVE TurnTyped'
  <2>1. CASE p = "engine"
    <3>1. ~Open("engine")
      BY <1>31, <2>1
         DEF Opening, Opens, OpenStore, Migrate, StampVersion, Open, Closed, Opened,
             Failed
    <3>2. pc = "idle"
      BY <3>1 DEF TurnTyped
    <3> QED
      BY <1>31, <3>2 DEF Opening, storeVars, engineVars, TurnTyped, UnderWay, Steps
  <2>2. CASE p # "engine"
    <3>1. opening'["engine"] = opening["engine"]
      BY <1>31, <2>2, StoryAssumption
         DEF Opening, Opens, OpenStore, Migrate, StampVersion, CloseStore, SchemaInv, StoryAssumption
    <3> QED
      BY <1>31, <3>1 DEF Opening, storeVars, engineVars, TurnTyped, UnderWay, Steps, Open
  <2> QED
    BY <2>1, <2>2
<1>32. CASE UNCHANGED vars
  BY <1>32 DEF vars, schemaVars, storeVars, engineVars, TurnTyped, UnderWay, Steps, Open
<1>33. CASE RenderCommand
  BY <1>33, RowStays
     DEF RenderCommand, Order, storeVars, schemaVars, engineVars, TurnTyped, UnderWay,
         Steps, Open
<1>34. ASSUME NEW chapters \in SUBSET DOMAIN shelf, RenderResolves(chapters)
       PROVE  TurnTyped'
  <2>1. opening'["engine"] = opening["engine"]
    BY <1>34, StoryAssumption
       DEF RenderResolves, Done, CloseStore, schemaVars, SchemaInv, StoryAssumption
  <2> QED
    BY <1>34, <2>1, RowStays
       DEF RenderResolves, storeVars, engineVars, TurnTyped, UnderWay, Steps, Open
<1>35. ASSUME NEW n \in DOMAIN shelf, RenderClears(n) PROVE TurnTyped'
  <2>1. opening'["engine"] = opening["engine"]
    BY <1>35, StoryAssumption
       DEF RenderClears, Done, CloseStore, schemaVars, SchemaInv, StoryAssumption
  <2>2. Len(shelf') = Len(shelf)
    BY <1>35, QueuedShelf DEF RenderClears, StoreTyped
  <2> QED
    BY <1>35, <2>1, <2>2, RowStays
       DEF RenderClears, engineVars, TurnTyped, UnderWay, Steps, Open
<1> QED
  BY <1>1, <1>2, <1>3, <1>4, <1>5, <1>6, <1>7, <1>8, <1>9, <1>10, <1>11, <1>12, <1>13,
     <1>14, <1>15, <1>16, <1>17, <1>18, <1>19, <1>20, <1>21, <1>22, <1>23, <1>24, <1>25,
     <1>26, <1>27, <1>28, <1>29, <1>30, <1>31, <1>32, <1>33, <1>34, <1>35
     DEF Next, EngineTurn, Operator, Daemon

-----------------------------------------------------------------------------
(* The premise in effect.                                                  *)

(* The row has the hash of what is in effect unless its stamp is on the    *)
(* way or lost; until then the newest chapter is of the turn's premise.    *)
HashInv ==
  /\ row # NoRow /\ ~missed /\ pc \notin {"stamp", "stamping"} => row.hash = InEffect
  /\ pc \in {"stamp", "stamping"} => newest.premise = told.premise

LEMMA HashHolds ==
  Typed /\ HashInv /\ [Next]_vars => HashInv'
<1> SUFFICES ASSUME Typed, HashInv, [Next]_vars PROVE HashInv'
  OBVIOUS
<1>1. CASE Begin
  BY <1>1 DEF Begin, storeVars, engineVars, historyVars, HashInv, InEffect
<1>2. CASE FallThrough
  BY <1>2 DEF FallThrough, storeVars, engineVars, historyVars, HashInv, InEffect
<1>3. ASSUME NEW n \in DOMAIN shelf, ResumeRenders(n) PROVE HashInv'
  BY <1>3 DEF ResumeRenders, Rest, storeVars, engineVars, historyVars, HashInv, InEffect
<1>4. CASE ReadDepth
  BY <1>4 DEF ReadDepth, storeVars, engineVars, historyVars, HashInv, InEffect
<1>5. CASE BufferFull
  BY <1>5 DEF BufferFull, Rest, storeVars, engineVars, historyVars, HashInv, InEffect
<1>6. CASE BufferShort
  BY <1>6 DEF BufferShort, storeVars, engineVars, historyVars, HashInv, InEffect
<1>7. CASE NoStory
  BY <1>7 DEF NoStory, Rest, storeVars, engineVars, historyVars, HashInv, InEffect
<1>8. CASE Assemble
  BY <1>8 DEF Assemble, storeVars, engineVars, historyVars, HashInv, InEffect
<1>9. CASE Abandon
  BY <1>9 DEF Abandon, Rest, storeVars, engineVars, historyVars, HashInv, InEffect
<1>10. ASSUME NEW t \in Prose, InsertChapter(t) PROVE HashInv'
  BY <1>10 DEF InsertChapter, storeVars, engineVars, historyVars, HashInv, InEffect
<1>11. CASE StampReads
  BY <1>11 DEF StampReads, storeVars, engineVars, historyVars, HashInv, InEffect
<1>12. CASE StampWrites
  BY <1>12, StampedRow DEF StampWrites, HashInv, InEffect
<1>13. CASE StampFails
  BY <1>13 DEF StampFails, storeVars, engineVars, historyVars, HashInv, InEffect
<1>14. ASSUME NEW e \in LoreBook, Remember(e) PROVE HashInv'
  BY <1>14 DEF Remember, storeVars, engineVars, historyVars, HashInv, InEffect
<1>15. CASE Dirty
  BY <1>15 DEF Dirty, storeVars, engineVars, historyVars, HashInv, InEffect
<1>16. CASE Render
  BY <1>16 DEF Render, Rest, storeVars, engineVars, historyVars, HashInv, InEffect
<1>17. CASE RenderFails
  BY <1>17 DEF RenderFails, Rest, storeVars, engineVars, historyVars, HashInv, InEffect
<1>18. CASE EngineDies
  BY <1>18 DEF EngineDies, Rest, storeVars, engineVars, historyVars, HashInv, InEffect
<1>19. ASSUME NEW opts \in InitOptions, InitConfig(opts) PROVE HashInv'
  BY <1>19 DEF InitConfig, Order, storeVars, engineVars, historyVars, HashInv, InEffect
<1>20. CASE InitPrompt
  BY <1>20 DEF InitPrompt, storeVars, engineVars, historyVars, HashInv, InEffect
<1>21. CASE InitReads
  BY <1>21 DEF InitReads, Done, storeVars, engineVars, historyVars, HashInv, InEffect
<1>22. CASE InitWrites
  BY <1>22, InitialRow, StoryAssumption
     DEF InitWrites, engineVars, HashInv, InEffect, StoryAssumption
<1>23. ASSUME NEW text \in Texts, EditPrompt(text) PROVE HashInv'
  BY <1>23 DEF EditPrompt, Order, storeVars, engineVars, historyVars, HashInv, InEffect
<1>24. ASSUME NEW edit \in StoryEdits, StoryCommand(edit) PROVE HashInv'
  BY <1>24 DEF StoryCommand, Order, storeVars, engineVars, historyVars, HashInv, InEffect
<1>25. CASE StoryReads
  BY <1>25 DEF StoryReads, Done, storeVars, engineVars, historyVars, HashInv, InEffect
<1>26. CASE SetProtagonist
  BY <1>26, RenamedRow, StoryAssumption
     DEF SetProtagonist, engineVars, HashInv, InEffect, StoryAssumption
<1>27. CASE SetTitle
  BY <1>27, RenamedRow, StoryAssumption
     DEF SetTitle, engineVars, HashInv, InEffect, StoryAssumption
<1>28. CASE CommandDies
  BY <1>28 DEF CommandDies, Done, storeVars, engineVars, historyVars, HashInv, InEffect
<1>29. ASSUME NEW n \in 0..MaxChapters, PutProgress(n) PROVE HashInv'
  BY <1>29, ListenedRow, StoryAssumption
     DEF PutProgress, engineVars, HashInv, InEffect, StoryAssumption
<1>30. ASSUME NEW req \in Requests, PostBuffer(req) PROVE HashInv'
  BY <1>30 DEF PostBuffer, Order, storeVars, engineVars, historyVars, HashInv, InEffect
<1>31. ASSUME NEW p \in Processes, Opening(p) PROVE HashInv'
  BY <1>31 DEF Opening, storeVars, engineVars, historyVars, HashInv, InEffect
<1>32. CASE UNCHANGED vars
  BY <1>32 DEF vars, storeVars, engineVars, historyVars, HashInv, InEffect
<1>33. CASE RenderCommand
  BY <1>33 DEF RenderCommand, Order, storeVars, engineVars, historyVars, HashInv, InEffect
<1>34. ASSUME NEW chapters \in SUBSET DOMAIN shelf, RenderResolves(chapters)
       PROVE  HashInv'
  BY <1>34 DEF RenderResolves, Done, storeVars, engineVars, historyVars, HashInv, InEffect
<1>35. ASSUME NEW n \in DOMAIN shelf, RenderClears(n) PROVE HashInv'
  BY <1>35 DEF RenderClears, Done, engineVars, HashInv, InEffect
<1> QED
  BY <1>1, <1>2, <1>3, <1>4, <1>5, <1>6, <1>7, <1>8, <1>9, <1>10, <1>11, <1>12, <1>13,
     <1>14, <1>15, <1>16, <1>17, <1>18, <1>19, <1>20, <1>21, <1>22, <1>23, <1>24, <1>25,
     <1>26, <1>27, <1>28, <1>29, <1>30, <1>31, <1>32, <1>33, <1>34, <1>35
     DEF Next, EngineTurn, Operator, Daemon

LEMMA HashSound == HashInv => EditPendingUntilUsed
BY DEF HashInv, EditPendingUntilUsed, prompt_sync

-----------------------------------------------------------------------------
(* The buffer.                                                             *)

(* The chapters that were not voiced in their own turn, nor since.         *)
Missing == {n \in DOMAIN shelf : ~shelf[n].audio /\ ~(UnderWay /\ n = Len(shelf))}

(* The chapters that have been missing ahead of the listener.              *)
Lacking == {n \in lacked : n > furthest}

(* Every chapter ahead is ready, under way or has been missing: the turn   *)
(* that writes has seen fewer ready than the target.                       *)
BufferInv ==
  /\ furthest \in 0..Len(shelf) /\ most \in Nat /\ lacked \subseteq 1..Len(shelf)
  /\ consumed_through <= furthest
  /\ buffer_target \in Nat /\ buffer_target <= most
  /\ Missing \subseteq lacked
  /\ Len(shelf) - furthest <= most + Cardinality(Lacking)
  /\ pc \in {"resume", "depth"} => cursor \in Nat /\ cursor <= furthest
  /\ pc = "target" => depth \in Nat /\ Len(shelf) - furthest <= depth + Cardinality(Lacking)
  /\ pc \in {"assemble", "pass1"} => Len(shelf) - furthest < most + Cardinality(Lacking)

LEMMA Shelved ==
  ASSUME Typed
  PROVE  /\ shelf \in Seq(Chapters) /\ Len(shelf) \in Nat /\ DOMAIN shelf = 1..Len(shelf)
         /\ consumed_through \in Nat
<1>1. shelf \in Seq(Chapters)
  BY DEF Typed, StoreTyped
<1>2. Len(shelf) \in Nat /\ DOMAIN shelf = 1..Len(shelf)
  BY <1>1, LenProperties
<1>3. consumed_through \in Nat
  BY StoryAssumption DEF Typed, StoreTyped, consumed_through, Rows, StoryAssumption
<1> QED
  BY <1>1, <1>2, <1>3

LEMMA Counts ==
  ASSUME Typed
  PROVE  \A c : IsFiniteSet(ReadyAfter(c)) /\ Cardinality(ReadyAfter(c)) \in Nat
<1>1. IsFiniteSet(DOMAIN shelf)
  BY Shelved, FS_Interval
<1>2. \A c : ReadyAfter(c) \subseteq DOMAIN shelf
  BY DEF ReadyAfter
<1> QED
  BY <1>1, <1>2, FS_Subset, FS_CardinalityType

(* Those that have been missing can be counted.                            *)
LEMMA LackingFew ==
  ASSUME Typed, BufferInv
  PROVE  IsFiniteSet(Lacking) /\ Cardinality(Lacking) \in Nat
<1>1. IsFiniteSet(1..Len(shelf))
  BY Shelved, FS_Interval
<1>2. lacked \subseteq 1..Len(shelf)
  BY DEF BufferInv
<1>3. Lacking \subseteq 1..Len(shelf)
  BY <1>2 DEF Lacking
<1> HIDE DEF Lacking
<1> QED
  BY <1>1, <1>3, FS_Subset, FS_CardinalityType

(* The chapters from one to another.                                       *)
LEMMA Span ==
  ASSUME NEW a \in Nat, NEW b \in Nat, a <= b
  PROVE  IsFiniteSet((a + 1)..b) /\ Cardinality((a + 1)..b) = b - a
<1> DEFINE first == a + 1
<1>1. first \in Int /\ b \in Int /\ first <= b + 1
  OBVIOUS
<1> HIDE DEF first
<1>2. /\ IsFiniteSet(first..b)
      /\ Cardinality(first..b) = (IF first > b THEN 0 ELSE b - first + 1)
  BY <1>1, FS_Interval
<1>3. Cardinality(first..b) = b - first + 1
  BY <1>1, <1>2
<1> QED
  BY <1>2, <1>3 DEF first

(* A union has at most as many elements as its parts together.             *)
LEMMA Together ==
  ASSUME NEW A, NEW B, NEW C, IsFiniteSet(A), IsFiniteSet(B), C \subseteq A \cup B
  PROVE  /\ IsFiniteSet(C) /\ Cardinality(A) \in Nat /\ Cardinality(B) \in Nat
         /\ Cardinality(C) <= Cardinality(A) + Cardinality(B)
<1>1. /\ IsFiniteSet(A \cup B)
      /\ Cardinality(A \cup B) = Cardinality(A) + Cardinality(B) - Cardinality(A \cap B)
  BY FS_Union
<1>2. IsFiniteSet(A \cap B)
  BY FS_Subset
<1>3. Cardinality(A) \in Nat /\ Cardinality(B) \in Nat /\ Cardinality(A \cap B) \in Nat
  BY <1>2, FS_CardinalityType
<1>4. IsFiniteSet(C) /\ Cardinality(C) <= Cardinality(A \cup B) /\ Cardinality(C) \in Nat
  BY <1>1, FS_Subset, FS_CardinalityType
<1> QED
  BY <1>1, <1>3, <1>4

(* A step that leaves the shelf, the target and the cursor as they are.    *)
LEMMA Still ==
  ASSUME UNCHANGED <<shelf, recorded, furthest, lacked>>, UnderWay' = UnderWay
  PROVE  /\ Missing' = Missing /\ Lacking' = Lacking
         /\ buffer_target' = buffer_target
BY DEF Missing, Lacking, buffer_target

(* Chapters that come to be missing outside a turn are added up.           *)
LEMMA MoreLacking ==
  ASSUME Typed, BufferInv, UNCHANGED <<recorded, furthest, most>>,
         consumed_through' = consumed_through, Len(shelf') = Len(shelf),
         lacked \subseteq lacked', lacked' \subseteq 1..Len(shelf), Missing' \subseteq lacked',
         \/ UNCHANGED <<pc, cursor, depth>>
         \/ pc' = "idle"
  PROVE  BufferInv'
<1>1. IsFiniteSet(Lacking') /\ Lacking \subseteq Lacking'
  <2>1. IsFiniteSet(1..Len(shelf))
    BY Shelved, FS_Interval
  <2>2. Lacking' \subseteq 1..Len(shelf) /\ Lacking \subseteq Lacking'
    BY DEF Lacking
  <2> HIDE DEF Lacking
  <2> QED
    BY <2>1, <2>2, FS_Subset
<1>2. /\ Cardinality(Lacking) \in Nat /\ Cardinality(Lacking') \in Nat
      /\ Cardinality(Lacking) <= Cardinality(Lacking')
  BY <1>1, LackingFew, FS_Subset, FS_CardinalityType
<1>3. buffer_target' = buffer_target
  BY DEF buffer_target
<1>4. Len(shelf) \in Nat
  BY Shelved
<1> HIDE DEF Lacking, Missing
<1> QED
  BY <1>2, <1>3, <1>4 DEF BufferInv

LEMMA BufferStarts == Init => BufferInv
<1> SUFFICES ASSUME Init PROVE BufferInv
  OBVIOUS
<1>1. shelf = <<>> /\ Len(shelf) = 0 /\ Missing = {} /\ Lacking = {}
  BY DEF Init, Missing, Lacking
<1>2. Cardinality(Lacking) = 0
  BY <1>1, FS_EmptySet
<1>3. consumed_through = 0 /\ buffer_target = ConfigTarget /\ ConfigTarget \in Nat
  BY StoryAssumption DEF Init, consumed_through, buffer_target, StoryAssumption
<1>4. pc = "idle" /\ furthest = 0 /\ most = ConfigTarget /\ lacked = {} /\ ~UnderWay
  BY DEF Init, UnderWay
<1> QED
  BY <1>1, <1>2, <1>3, <1>4 DEF BufferInv

LEMMA BufferHolds == Typed /\ BufferInv /\ [Next]_vars => BufferInv'
<1> SUFFICES ASSUME Typed, BufferInv, [Next]_vars PROVE BufferInv'
  OBVIOUS
<1>1. CASE Begin
  <2>1. /\ UNCHANGED <<shelf, recorded, furthest, most, lacked>> /\ UnderWay' = UnderWay
        /\ consumed_through' = consumed_through
    BY <1>1 DEF Begin, storeVars, engineVars, historyVars, UnderWay, consumed_through
  <2> QED
    BY <1>1, <2>1, Still, Shelved DEF Begin, BufferInv, UnderWay
<1>2. CASE FallThrough
  <2>1. /\ UNCHANGED <<shelf, recorded, furthest, most, lacked>> /\ UnderWay' = UnderWay
        /\ consumed_through' = consumed_through
    BY <1>2 DEF FallThrough, storeVars, engineVars, historyVars, UnderWay, consumed_through
  <2> QED
    BY <1>2, <2>1, Still DEF FallThrough, BufferInv, UnderWay
<1>3. ASSUME NEW n \in DOMAIN shelf, ResumeRenders(n) PROVE BufferInv'
  <2>1. /\ n \in 1..Len(shelf) /\ shelf' = [shelf EXCEPT ![n].audio = TRUE]
        /\ pc = "resume" /\ pc' = "idle"
        /\ UNCHANGED <<row, recorded, furthest, most, lacked>>
    BY <1>3, Shelved DEF ResumeRenders, Rest, historyVars
  <2>2. /\ shelf' \in Seq(Chapters) /\ Len(shelf') = Len(shelf) /\ shelf'[n].audio = TRUE
        /\ \A m \in 1..Len(shelf) : m # n => shelf'[m] = shelf[m]
    BY <2>1, VoicedShelf, Shelved
  <2>3. Missing' \subseteq Missing
    BY <2>1, <2>2, Shelved DEF Missing, UnderWay
  <2>4. Missing \subseteq lacked /\ lacked \subseteq 1..Len(shelf)
    BY DEF BufferInv
  <2>5. consumed_through' = consumed_through
    BY <2>1 DEF consumed_through
  <2> QED
    BY <2>1, <2>2, <2>3, <2>4, <2>5, MoreLacking
<1>4. CASE ReadDepth
  <2>1. /\ UNCHANGED <<shelf, recorded, furthest, most, lacked>> /\ UnderWay' = UnderWay
        /\ consumed_through' = consumed_through
    BY <1>4 DEF ReadDepth, storeVars, engineVars, historyVars, UnderWay, consumed_through
  <2>2. cursor \in Nat /\ cursor <= furthest /\ depth' = Cardinality(ReadyAfter(cursor))
    BY <1>4 DEF ReadDepth, BufferInv, buffer_depth
  <2>3. (furthest + 1)..Len(shelf) \subseteq ReadyAfter(cursor) \cup Lacking
    <3> SUFFICES ASSUME NEW n \in (furthest + 1)..Len(shelf), n \notin ReadyAfter(cursor)
                 PROVE  n \in Lacking
      OBVIOUS
    <3>1. n \in DOMAIN shelf /\ n > furthest /\ n > cursor
      BY <2>2, Shelved DEF BufferInv
    <3>2. n \in Missing
      BY <1>4, <3>1 DEF ReadyAfter, Missing, UnderWay, ReadDepth
    <3> QED
      BY <3>1, <3>2 DEF Lacking, BufferInv
  <2>4. Cardinality((furthest + 1)..Len(shelf)) = Len(shelf) - furthest
    BY Shelved, Span DEF BufferInv
  <2>5. depth' \in Nat /\ Len(shelf) - furthest <= depth' + Cardinality(Lacking)
    BY <2>2, <2>3, <2>4, Counts, LackingFew, Together
  <2> QED
    BY <1>4, <2>1, <2>5, Still DEF ReadDepth, BufferInv, UnderWay
<1>5. CASE BufferFull
  <2>1. /\ UNCHANGED <<shelf, recorded, furthest, most, lacked>> /\ UnderWay' = UnderWay
        /\ consumed_through' = consumed_through
    BY <1>5
       DEF BufferFull, Rest, storeVars, engineVars, historyVars, UnderWay,
           consumed_through
  <2> QED
    BY <1>5, <2>1, Still DEF BufferFull, Rest, BufferInv, UnderWay
<1>6. CASE BufferShort
  <2>1. /\ UNCHANGED <<shelf, recorded, furthest, most, lacked>> /\ UnderWay' = UnderWay
        /\ consumed_through' = consumed_through
    BY <1>6 DEF BufferShort, storeVars, engineVars, historyVars, UnderWay, consumed_through
  <2>2. Len(shelf) - furthest < most + Cardinality(Lacking)
    BY <1>6, LackingFew, Shelved DEF BufferShort, BufferInv
  <2> QED
    BY <1>6, <2>1, <2>2, Still DEF BufferShort, BufferInv, UnderWay
<1>7. CASE NoStory
  <2>1. /\ UNCHANGED <<shelf, recorded, furthest, most, lacked>> /\ UnderWay' = UnderWay
        /\ consumed_through' = consumed_through
    BY <1>7
       DEF NoStory, Rest, storeVars, engineVars, historyVars, UnderWay, consumed_through
  <2> QED
    BY <1>7, <2>1, Still DEF NoStory, Rest, BufferInv, UnderWay
<1>8. CASE Assemble
  <2>1. /\ UNCHANGED <<shelf, recorded, furthest, most, lacked>> /\ UnderWay' = UnderWay
        /\ consumed_through' = consumed_through
    BY <1>8 DEF Assemble, storeVars, engineVars, historyVars, UnderWay, consumed_through
  <2> QED
    BY <1>8, <2>1, Still DEF Assemble, BufferInv, UnderWay
<1>9. CASE Abandon
  <2>1. /\ UNCHANGED <<shelf, recorded, furthest, most, lacked>> /\ UnderWay' = UnderWay
        /\ consumed_through' = consumed_through
    BY <1>9
       DEF Abandon, Rest, storeVars, engineVars, historyVars, UnderWay, consumed_through
  <2> QED
    BY <1>9, <2>1, Still DEF Abandon, Rest, BufferInv, UnderWay
<1>10. ASSUME NEW t \in Prose, InsertChapter(t) PROVE BufferInv'
  <2>1. /\ shelf' = Append(shelf, [audio |-> FALSE, summed |-> FALSE])
        /\ pc = "pass1" /\ pc' = "stamp"
        /\ UNCHANGED <<row, recorded, furthest, most, lacked>>
    BY <1>10 DEF InsertChapter, historyVars
  <2>2. [audio |-> FALSE, summed |-> FALSE] \in Chapters
    BY DEF Chapters
  <2>3. /\ shelf' \in Seq(Chapters) /\ Len(shelf') = Len(shelf) + 1
        /\ shelf'[Len(shelf) + 1].audio = FALSE
        /\ \A m \in 1..Len(shelf) : shelf'[m] = shelf[m]
    BY <2>1, <2>2, Shelved, AppendProperties
  <2>4. Missing' = Missing /\ Lacking' = Lacking
    <3>1. DOMAIN shelf' = DOMAIN shelf \cup {Len(shelf) + 1} /\ DOMAIN shelf = 1..Len(shelf)
      BY <2>3, Shelved, LenProperties
    <3> QED
      BY <2>1, <2>3, <3>1, Shelved DEF Missing, Lacking, UnderWay
  <2>5. consumed_through' = consumed_through /\ buffer_target' = buffer_target
    BY <2>1 DEF consumed_through, buffer_target
  <2> QED
    BY <2>1, <2>3, <2>4, <2>5, LackingFew, Shelved DEF BufferInv, UnderWay
<1>11. CASE StampReads
  <2>1. /\ UNCHANGED <<shelf, recorded, furthest, most, lacked>> /\ UnderWay' = UnderWay
        /\ consumed_through' = consumed_through
    BY <1>11 DEF StampReads, storeVars, engineVars, historyVars, UnderWay, consumed_through
  <2> QED
    BY <1>11, <2>1, Still DEF StampReads, BufferInv, UnderWay
<1>12. CASE StampWrites
  <2>1. /\ UNCHANGED <<shelf, recorded, furthest, most, lacked>>
        /\ pc = "stamping" /\ pc' = "remember"
    BY <1>12 DEF StampWrites
  <2>2. UnderWay /\ UnderWay'
    BY <2>1 DEF UnderWay
  <2>3. consumed_through' = consumed_through
    BY <1>12, StampedRow
  <2> QED
    BY <2>1, <2>2, <2>3, Still DEF BufferInv
<1>13. CASE StampFails
  <2>1. /\ UNCHANGED <<shelf, recorded, furthest, most, lacked>> /\ UnderWay' = UnderWay
        /\ consumed_through' = consumed_through
    BY <1>13 DEF StampFails, storeVars, engineVars, historyVars, UnderWay, consumed_through
  <2> QED
    BY <1>13, <2>1, Still DEF StampFails, BufferInv, UnderWay
<1>14. ASSUME NEW e \in LoreBook, Remember(e) PROVE BufferInv'
  <2>1. /\ Len(shelf) \in 1..Len(shelf) /\ shelf' = [shelf EXCEPT ![Len(shelf)].summed = TRUE]
        /\ pc = "remember" /\ pc' = "render"
        /\ UNCHANGED <<row, recorded, furthest, most, lacked>>
    BY <1>14, Shelved DEF Remember, historyVars, Typed, TurnTyped, UnderWay
  <2>2. /\ shelf' \in Seq(Chapters) /\ Len(shelf') = Len(shelf)
        /\ \A m \in 1..Len(shelf) : shelf'[m].audio = shelf[m].audio
    BY <2>1, SummedShelf, Shelved
  <2>3. Missing' = Missing /\ Lacking' = Lacking
    BY <2>1, <2>2, Shelved DEF Missing, Lacking, UnderWay
  <2>4. consumed_through' = consumed_through /\ buffer_target' = buffer_target
    BY <2>1 DEF consumed_through, buffer_target
  <2> QED
    BY <2>1, <2>2, <2>3, <2>4 DEF BufferInv, UnderWay
<1>15. CASE Dirty
  <2>1. /\ UNCHANGED <<shelf, recorded, furthest, most, lacked>> /\ UnderWay' = UnderWay
        /\ consumed_through' = consumed_through
    BY <1>15 DEF Dirty, storeVars, engineVars, historyVars, UnderWay, consumed_through
  <2> QED
    BY <1>15, <2>1, Still DEF Dirty, BufferInv, UnderWay
<1>16. CASE Render
  <2> DEFINE n == Len(shelf)
  <2>1. /\ n \in 1..Len(shelf) /\ shelf' = [shelf EXCEPT ![n].audio = TRUE]
        /\ pc = "render" /\ pc' = "idle"
        /\ UNCHANGED <<row, recorded, furthest, most, lacked>>
    BY <1>16, Shelved DEF Render, Rest, historyVars, Typed, TurnTyped, UnderWay
  <2>2. /\ shelf' \in Seq(Chapters) /\ Len(shelf') = Len(shelf) /\ shelf'[n].audio = TRUE
        /\ \A m \in 1..Len(shelf) : m # n => shelf'[m] = shelf[m]
    BY <2>1, VoicedShelf, Shelved
  <2>3. Missing' = Missing
    BY <2>1, <2>2, Shelved DEF Missing, UnderWay
  <2>4. Missing \subseteq lacked /\ lacked \subseteq 1..Len(shelf)
    BY DEF BufferInv
  <2>5. consumed_through' = consumed_through
    BY <2>1 DEF consumed_through
  <2> QED
    BY <2>1, <2>2, <2>3, <2>4, <2>5, MoreLacking
<1>17. CASE RenderFails
  <2>1. /\ UNCHANGED <<shelf, row, recorded, furthest, most>> /\ pc' = "idle"
        /\ lacked' = (IF UnderWay THEN lacked \cup {Len(shelf)} ELSE lacked)
    BY <1>17 DEF RenderFails, Rest, storeVars, UnderWay
  <2>2. Missing' \subseteq Missing \cup {Len(shelf)} /\ (~UnderWay => Missing' = Missing)
    BY <2>1 DEF Missing, UnderWay
  <2>3. /\ Missing \subseteq lacked /\ lacked \subseteq 1..Len(shelf)
        /\ UnderWay => Len(shelf) \in 1..Len(shelf)
    BY Shelved DEF BufferInv, Typed, TurnTyped
  <2>4. consumed_through' = consumed_through
    BY <2>1 DEF consumed_through
  <2> QED
    BY <2>1, <2>2, <2>3, <2>4, MoreLacking
<1>18. CASE EngineDies
  <2>1. /\ UNCHANGED <<shelf, row, recorded, furthest, most>> /\ pc' = "idle"
        /\ lacked' = (IF UnderWay THEN lacked \cup {Len(shelf)} ELSE lacked)
    BY <1>18 DEF EngineDies, Rest, storeVars, UnderWay
  <2>2. Missing' \subseteq Missing \cup {Len(shelf)} /\ (~UnderWay => Missing' = Missing)
    BY <2>1 DEF Missing, UnderWay
  <2>3. /\ Missing \subseteq lacked /\ lacked \subseteq 1..Len(shelf)
        /\ UnderWay => Len(shelf) \in 1..Len(shelf)
    BY Shelved DEF BufferInv, Typed, TurnTyped
  <2>4. consumed_through' = consumed_through
    BY <2>1 DEF consumed_through
  <2> QED
    BY <2>1, <2>2, <2>3, <2>4, MoreLacking
<1>19. ASSUME NEW opts \in InitOptions, InitConfig(opts) PROVE BufferInv'
  <2>1. /\ UNCHANGED <<shelf, recorded, furthest, most, lacked>> /\ UnderWay' = UnderWay
        /\ consumed_through' = consumed_through
    BY <1>19 DEF InitConfig, storeVars, engineVars, historyVars, UnderWay, consumed_through
  <2>2. UNCHANGED <<pc, cursor, depth>>
    BY <1>19 DEF InitConfig, engineVars
  <2> QED
    BY <1>19, <2>1, <2>2, Still DEF BufferInv
<1>20. CASE InitPrompt
  <2>1. /\ UNCHANGED <<shelf, recorded, furthest, most, lacked>> /\ UnderWay' = UnderWay
        /\ consumed_through' = consumed_through
    BY <1>20 DEF InitPrompt, storeVars, engineVars, historyVars, UnderWay, consumed_through
  <2>2. UNCHANGED <<pc, cursor, depth>>
    BY <1>20 DEF InitPrompt, engineVars
  <2> QED
    BY <1>20, <2>1, <2>2, Still DEF BufferInv
<1>21. CASE InitReads
  <2>1. /\ UNCHANGED <<shelf, recorded, furthest, most, lacked>> /\ UnderWay' = UnderWay
        /\ consumed_through' = consumed_through
    BY <1>21
       DEF InitReads, Done, storeVars, engineVars, historyVars, UnderWay, consumed_through
  <2>2. UNCHANGED <<pc, cursor, depth>>
    BY <1>21 DEF InitReads, engineVars
  <2> QED
    BY <1>21, <2>1, <2>2, Still DEF BufferInv
<1>22. CASE InitWrites
  <2>1. /\ UNCHANGED <<shelf, recorded, furthest, most, lacked>> /\ UnderWay' = UnderWay
        /\ consumed_through' = consumed_through
    BY <1>22, InitialRow DEF InitWrites, Done, storeVars, engineVars, historyVars, UnderWay
  <2>2. UNCHANGED <<pc, cursor, depth>>
    BY <1>22 DEF InitWrites, engineVars
  <2> QED
    BY <1>22, <2>1, <2>2, Still DEF BufferInv
<1>23. ASSUME NEW text \in Texts, EditPrompt(text) PROVE BufferInv'
  <2>1. /\ UNCHANGED <<shelf, recorded, furthest, most, lacked>> /\ UnderWay' = UnderWay
        /\ consumed_through' = consumed_through
    BY <1>23 DEF EditPrompt, storeVars, engineVars, historyVars, UnderWay, consumed_through
  <2>2. UNCHANGED <<pc, cursor, depth>>
    BY <1>23 DEF EditPrompt, engineVars
  <2> QED
    BY <1>23, <2>1, <2>2, Still DEF BufferInv
<1>24. ASSUME NEW edit \in StoryEdits, StoryCommand(edit) PROVE BufferInv'
  <2>1. /\ UNCHANGED <<shelf, recorded, furthest, most, lacked>> /\ UnderWay' = UnderWay
        /\ consumed_through' = consumed_through
    BY <1>24
       DEF StoryCommand, storeVars, engineVars, historyVars, UnderWay, consumed_through
  <2>2. UNCHANGED <<pc, cursor, depth>>
    BY <1>24 DEF StoryCommand, engineVars
  <2> QED
    BY <1>24, <2>1, <2>2, Still DEF BufferInv
<1>25. CASE StoryReads
  <2>1. /\ UNCHANGED <<shelf, recorded, furthest, most, lacked>> /\ UnderWay' = UnderWay
        /\ consumed_through' = consumed_through
    BY <1>25
       DEF StoryReads, Done, storeVars, engineVars, historyVars, UnderWay,
           consumed_through
  <2>2. UNCHANGED <<pc, cursor, depth>>
    BY <1>25 DEF StoryReads, engineVars
  <2> QED
    BY <1>25, <2>1, <2>2, Still DEF BufferInv
<1>26. CASE SetProtagonist
  <2>1. /\ UNCHANGED <<shelf, recorded, furthest, most, lacked>> /\ UnderWay' = UnderWay
        /\ consumed_through' = consumed_through
    BY <1>26, RenamedRow DEF SetProtagonist, storeVars, engineVars, historyVars, UnderWay
  <2>2. UNCHANGED <<pc, cursor, depth>>
    BY <1>26 DEF SetProtagonist, engineVars
  <2> QED
    BY <1>26, <2>1, <2>2, Still DEF BufferInv
<1>27. CASE SetTitle
  <2>1. /\ UNCHANGED <<shelf, recorded, furthest, most, lacked>> /\ UnderWay' = UnderWay
        /\ consumed_through' = consumed_through
    BY <1>27, RenamedRow DEF SetTitle, Done, storeVars, engineVars, historyVars, UnderWay
  <2>2. UNCHANGED <<pc, cursor, depth>>
    BY <1>27 DEF SetTitle, engineVars
  <2> QED
    BY <1>27, <2>1, <2>2, Still DEF BufferInv
<1>28. CASE CommandDies
  <2>1. /\ UNCHANGED <<shelf, recorded, furthest, most, lacked>> /\ UnderWay' = UnderWay
        /\ consumed_through' = consumed_through
    BY <1>28
       DEF CommandDies, Done, storeVars, engineVars, historyVars, UnderWay,
           consumed_through
  <2>2. UNCHANGED <<pc, cursor, depth>>
    BY <1>28 DEF CommandDies, engineVars
  <2> QED
    BY <1>28, <2>1, <2>2, Still DEF BufferInv
<1>29. ASSUME NEW n \in 0..MaxChapters, PutProgress(n) PROVE BufferInv'
  <2>1. /\ UNCHANGED <<shelf, recorded, most, lacked, pc, cursor, depth>>
        /\ furthest' = (IF n > furthest THEN n ELSE furthest)
    BY <1>29 DEF PutProgress, engineVars
  <2>2. consumed_through' = n /\ n \in Nat /\ n <= Len(shelf)
    BY <1>29, ListenedRow
  <2>3. /\ furthest' \in 0..Len(shelf) /\ furthest \in 0..Len(shelf)
        /\ furthest <= furthest' /\ n <= furthest'
    BY <2>1, <2>2, Shelved DEF BufferInv
  <2>4. Lacking \subseteq Lacking' \cup (furthest + 1)..furthest'
    <3> SUFFICES ASSUME NEW m \in lacked, m > furthest, ~(m > furthest')
                 PROVE  m \in (furthest + 1)..furthest'
      BY <2>1 DEF Lacking
    <3>1. m \in Nat
      BY DEF BufferInv
    <3> QED
      BY <2>3, <3>1
  <2>5. /\ IsFiniteSet((furthest + 1)..furthest')
        /\ Cardinality((furthest + 1)..furthest') = furthest' - furthest
    BY <2>3, Span, Shelved
  <2>6. IsFiniteSet(Lacking')
    <3>1. ASSUME NEW m \in Lacking' PROVE m \in Lacking
      <4>1. m \in lacked /\ m > furthest' /\ m \in Nat
        BY <2>1, Shelved DEF Lacking, BufferInv
      <4> QED
        BY <2>3, <4>1 DEF Lacking
    <3> QED
      BY <3>1, LackingFew, FS_Subset
  <2>7. /\ Cardinality(Lacking') \in Nat /\ Cardinality(Lacking) \in Nat
        /\ Cardinality(Lacking) <= Cardinality(Lacking') + (furthest' - furthest)
    BY <2>4, <2>5, <2>6, LackingFew, Together
  <2>8. buffer_target' = buffer_target /\ UnderWay' = UnderWay /\ Missing' = Missing
    BY <2>1 DEF buffer_target, UnderWay, Missing
  <2>9. Len(shelf) \in Nat
    BY Shelved
  <2> HIDE DEF Lacking, Missing
  <2> QED
    BY <2>1, <2>2, <2>3, <2>7, <2>8, <2>9 DEF BufferInv
<1>30. ASSUME NEW req \in Requests, PostBuffer(req) PROVE BufferInv'
  <2>1. /\ UNCHANGED <<shelf, row, furthest, lacked, pc, cursor, depth>>
        /\ recorded' \in MIN_BUFFER_TARGET..MAX_BUFFER_TARGET
        /\ most' = (IF recorded' > most THEN recorded' ELSE most)
    BY <1>30 DEF PostBuffer, engineVars, resolve_target
  <2>2. recorded' \in Nat /\ buffer_target' = recorded'
    BY <2>1, StoryAssumption DEF StoryAssumption, buffer_target
  <2>3. most' \in Nat /\ most <= most' /\ buffer_target' <= most'
    BY <2>1, <2>2 DEF BufferInv
  <2>4. Lacking' = Lacking /\ Missing' = Missing
    BY <2>1 DEF Lacking, Missing, UnderWay
  <2>5. consumed_through' = consumed_through /\ UnderWay' = UnderWay
    BY <2>1 DEF consumed_through, UnderWay
  <2> QED
    BY <2>1, <2>2, <2>3, <2>4, <2>5, LackingFew, Shelved DEF BufferInv
<1>31. ASSUME NEW p \in Processes, Opening(p) PROVE BufferInv'
  <2>1. /\ UNCHANGED <<shelf, recorded, furthest, most, lacked>> /\ UnderWay' = UnderWay
        /\ consumed_through' = consumed_through
    BY <1>31 DEF Opening, storeVars, engineVars, historyVars, UnderWay, consumed_through
  <2>2. UNCHANGED <<pc, cursor, depth>>
    BY <1>31 DEF Opening, engineVars
  <2> QED
    BY <1>31, <2>1, <2>2, Still DEF BufferInv
<1>32. CASE UNCHANGED vars
  <2>1. UNCHANGED <<shelf, row, recorded, furthest, most, lacked, pc, cursor, depth>>
    BY <1>32 DEF vars, storeVars, engineVars, historyVars
  <2>2. consumed_through' = consumed_through /\ UnderWay' = UnderWay
    BY <2>1 DEF consumed_through, UnderWay
  <2> QED
    BY <2>1, <2>2, Still DEF BufferInv
<1>33. CASE RenderCommand
  <2>1. /\ UNCHANGED <<shelf, recorded, furthest, most, lacked>> /\ UnderWay' = UnderWay
        /\ consumed_through' = consumed_through
    BY <1>33
       DEF RenderCommand, storeVars, engineVars, historyVars, UnderWay, consumed_through
  <2>2. UNCHANGED <<pc, cursor, depth>>
    BY <1>33 DEF RenderCommand, engineVars
  <2> QED
    BY <1>33, <2>1, <2>2, Still DEF BufferInv
<1>34. ASSUME NEW chapters \in SUBSET DOMAIN shelf, RenderResolves(chapters) PROVE BufferInv'
  <2>1. /\ UNCHANGED <<shelf, recorded, furthest, most, lacked>> /\ UnderWay' = UnderWay
        /\ consumed_through' = consumed_through
    BY <1>34
       DEF RenderResolves, Done, storeVars, engineVars, historyVars, UnderWay,
           consumed_through
  <2>2. UNCHANGED <<pc, cursor, depth>>
    BY <1>34 DEF RenderResolves, engineVars
  <2> QED
    BY <1>34, <2>1, <2>2, Still DEF BufferInv
<1>35. ASSUME NEW n \in DOMAIN shelf, RenderClears(n) PROVE BufferInv'
  <2>1. /\ n \in 1..Len(shelf) /\ shelf' = [shelf EXCEPT ![n].audio = FALSE]
        /\ lacked' = (IF shelf[n].audio THEN lacked \cup {n} ELSE lacked)
        /\ UNCHANGED <<row, recorded, furthest, most, pc, cursor, depth>>
    BY <1>35, Shelved DEF RenderClears, engineVars
  <2>2. /\ shelf' \in Seq(Chapters) /\ Len(shelf') = Len(shelf)
        /\ \A m \in 1..Len(shelf) : m # n => shelf'[m] = shelf[m]
        /\ ~shelf[n].audio => shelf' = shelf
    BY <2>1, QueuedShelf, Shelved
  <2>3. Missing' \subseteq lacked'
    <3> SUFFICES ASSUME NEW m \in Missing' PROVE m \in lacked'
      OBVIOUS
    <3>1. m \in 1..Len(shelf) /\ ~shelf'[m].audio /\ ~(UnderWay /\ m = Len(shelf))
      BY <2>1, <2>2, Shelved, LenProperties DEF Missing, UnderWay
    <3>2. CASE shelf[m].audio
      BY <2>1, <2>2, <3>1, <3>2
    <3>3. CASE ~shelf[m].audio
      BY <2>1, <3>1, <3>3, Shelved DEF Missing, BufferInv
    <3> QED
      BY <3>2, <3>3
  <2>4. lacked \subseteq lacked' /\ lacked' \subseteq 1..Len(shelf)
    BY <2>1 DEF BufferInv
  <2>5. consumed_through' = consumed_through
    BY <2>1 DEF consumed_through
  <2> QED
    BY <2>1, <2>2, <2>3, <2>4, <2>5, MoreLacking
<1> QED
  BY <1>1, <1>2, <1>3, <1>4, <1>5, <1>6, <1>7, <1>8, <1>9, <1>10, <1>11, <1>12, <1>13,
     <1>14, <1>15, <1>16, <1>17, <1>18, <1>19, <1>20, <1>21, <1>22, <1>23, <1>24, <1>25,
     <1>26, <1>27, <1>28, <1>29, <1>30, <1>31, <1>32, <1>33, <1>34, <1>35
     DEF Next, EngineTurn, Operator, Daemon

LEMMA BufferSound == Typed /\ BufferInv => BufferBounded
<1> SUFFICES ASSUME Typed, BufferInv PROVE BufferBounded
  OBVIOUS
<1>1. ReadyAfter(furthest) \subseteq (furthest + 1)..Len(shelf)
  BY Shelved DEF ReadyAfter, BufferInv
<1>2. /\ IsFiniteSet((furthest + 1)..Len(shelf))
      /\ Cardinality((furthest + 1)..Len(shelf)) = Len(shelf) - furthest
  BY Shelved, Span DEF BufferInv
<1>3. Cardinality(ReadyAfter(furthest)) <= Len(shelf) - furthest
  BY <1>1, <1>2, FS_Subset
<1>4. Cardinality(ReadyAfter(furthest)) <= most + Cardinality(Lacking)
  BY <1>3, Counts, LackingFew, Shelved DEF BufferInv
<1> QED
  BY <1>4 DEF BufferBounded, Lacking

-----------------------------------------------------------------------------
(* All of it together.                                                     *)

-----------------------------------------------------------------------------
(* Sorting.                                                                *)

(* A set of numbers that is not empty has a least one.                     *)
LEMMA Least ==
  ASSUME NEW S \in SUBSET Nat, S # {}
  PROVE  \E m \in S : \A k \in S : m <= k
<1> DEFINE R == {ss \in Nat \X Nat : ss[1] < ss[2]}
<1>1. IsWellFoundedOn(R, Nat)
  BY NatLessThanWellFounded DEF OpToRel
<1> HIDE DEF R
<1>2. PICK x \in S : \A y \in S : ~ (<<y, x>> \in R)
  BY <1>1, WFMin
<1>3. ASSUME NEW y \in S
      PROVE  x <= y
  <2>1. x \in Nat /\ y \in Nat /\ ~ (<<y, x>> \in R)
    BY <1>2
  <2>2. ~(y < x)
    BY <2>1 DEF R
  <2> QED
    BY <2>1, <2>2
<1> QED
  BY <1>3

(* What is sorted: a finite set can be listed in every strict linear order *)
(* of its elements, for the number of those before each is its place.      *)
LEMMA Sortable ==
  ASSUME NEW S, IsFiniteSet(S), NEW R,
         \A x \in S : <<x, x>> \notin R,
         \A x, y, z \in S : <<x, y>> \in R /\ <<y, z>> \in R => <<x, z>> \in R,
         \A x, y \in S : x # y => <<x, y>> \in R \/ <<y, x>> \in R
  PROVE  \E f \in SetToSeqs(S) : \A i, j \in DOMAIN f : i < j => <<f[i], f[j]>> \in R
<1> DEFINE n == Cardinality(S)
           Under(x) == {y \in S : <<y, x>> \in R}
           place == [x \in S |-> Cardinality(Under(x)) + 1]
<1>1. n \in Nat
  BY FS_CardinalityType
<1>2. ASSUME NEW x \in S
      PROVE  IsFiniteSet(Under(x)) /\ Cardinality(Under(x)) \in Nat /\ Cardinality(Under(x)) < n
  <2>1. IsFiniteSet(Under(x)) /\ Cardinality(Under(x)) <= n
        /\ (n = Cardinality(Under(x)) => S = Under(x))
    BY FS_Subset
  <2>2. Cardinality(Under(x)) \in Nat
    BY <2>1, FS_CardinalityType
  <2>3. S # Under(x)
    OBVIOUS
  <2> QED
    BY <1>1, <2>1, <2>2, <2>3
<1>3. ASSUME NEW x \in S, NEW y \in S, <<x, y>> \in R
      PROVE  place[x] < place[y]
  <2>1. Under(x) \in SUBSET Under(y) /\ x \in Under(y) /\ x \notin Under(x)
    BY <1>3
  <2>2. /\ Cardinality(Under(x)) <= Cardinality(Under(y))
        /\ Cardinality(Under(y)) = Cardinality(Under(x)) => Under(y) = Under(x)
    <3>1. IsFiniteSet(Under(x)) /\ IsFiniteSet(Under(y))
      BY <1>2
    <3> HIDE DEF Under
    <3> QED
      BY <2>1, <3>1, FS_Subset
  <2>3. Cardinality(Under(x)) \in Nat /\ Cardinality(Under(y)) \in Nat
    BY <1>2
  <2>4. Under(x) # Under(y)
    BY <2>1
  <2>5. Cardinality(Under(x)) < Cardinality(Under(y))
    <3> HIDE DEF Under
    <3> QED
      BY <2>2, <2>3, <2>4
  <2>6. place[x] = Cardinality(Under(x)) + 1 /\ place[y] = Cardinality(Under(y)) + 1
    OBVIOUS
  <2> HIDE DEF place, Under
  <2> QED
    BY <2>3, <2>5, <2>6
<1>4. place \in [S -> 1..n]
  BY <1>1, <1>2
<1>5. place \in Injection(S, 1..n)
  <2>1. ASSUME NEW x \in S, NEW y \in S, place[x] = place[y]
        PROVE  x = y
    <3>1. place[x] < place[x] => FALSE
      BY <1>4
    <3>2. x # y => place[x] < place[y] \/ place[y] < place[x]
      BY <1>3
    <3> HIDE DEF place
    <3> QED
      BY <2>1, <3>1, <3>2
  <2> HIDE DEF place
  <2> QED
    BY <1>4, <2>1 DEF Injection, IsInjective
<1> HIDE DEF place
<1>6. place \in Surjection(S, 1..n)
  BY <1>1, <1>5, FS_Interval, FS_Injection
<1> DEFINE f == [i \in 1..n |-> CHOOSE x \in S : place[x] = i]
<1>7. \A i \in 1..n : f[i] \in S /\ place[f[i]] = i
  BY <1>6 DEF Surjection
<1> HIDE DEF f
<1>8. DOMAIN f = 1..n /\ f = [i \in 1..n |-> f[i]]
  BY DEF f
<1>9. f \in SetToSeqs(S)
  <2>1. f \in [1..n -> S]
    BY <1>7, <1>8
  <2>2. \A i, j \in 1..n : i # j => f[i] # f[j]
    BY <1>7
  <2> QED
    BY <2>1, <2>2 DEF SetToSeqs
<1>10. ASSUME NEW i \in 1..n, NEW j \in 1..n, i < j
       PROVE  <<f[i], f[j]>> \in R
  <2>1. f[i] \in S /\ f[j] \in S /\ place[f[i]] = i /\ place[f[j]] = j
    BY <1>7
  <2>2. f[i] # f[j] /\ ~(<<f[j], f[i]>> \in R)
    <3>1. <<f[j], f[i]>> \in R => j < i
      BY <1>3, <2>1
    <3> QED
      BY <1>1, <1>10, <2>1, <3>1
  <2> QED
    BY <2>1, <2>2
<1> QED
  BY <1>8, <1>9, <1>10

(* A listing of a finite set has each of its elements, and none twice.     *)
LEMMA Listing ==
  ASSUME NEW S, IsFiniteSet(S), NEW s \in SetToSeqs(S)
  PROVE  /\ s \in Seq(S) /\ Len(s) = Cardinality(S) /\ ToSet(s) = S
         /\ \A i, j \in DOMAIN s : i # j => s[i] # s[j]
<1> DEFINE n == Cardinality(S)
<1>1. n \in Nat
  BY FS_CardinalityType
<1>2. s \in [1..n -> S] /\ \A i, j \in 1..n : i # j => s[i] # s[j]
  BY DEF SetToSeqs
<1>3. s \in Injection(1..n, S)
  BY <1>2 DEF Injection, IsInjective
<1>4. s \in Surjection(1..n, S)
  <2>1. Cardinality(1..n) = n
    BY <1>1, FS_Interval
  <2> QED
    BY <1>3, <2>1, FS_Injection
<1>5. s \in Seq(S) /\ Len(s) = n
  BY <1>1, <1>2, SeqDef, LenProperties
<1>6. ToSet(s) = S
  BY <1>2, <1>4 DEF ToSet, Surjection
<1> QED
  BY <1>2, <1>5, <1>6

-----------------------------------------------------------------------------
(* recent_chapter_summaries.                                               *)

(* Each element is less than those before it.                              *)
Descends(r) == \A i, j \in DOMAIN r : i < j => r[i] > r[j]

(* The last of a set of numbers listed in descending order, reversed.      *)
LEMMA TheLast ==
  ASSUME NEW S \in SUBSET Nat, IsFiniteSet(S), NEW rows \in SetToSeqs(S),
         Descends(rows), NEW limit \in Nat \ {0}, NEW m \in Nat,
         m <= limit, m <= Len(rows), m < limit => m >= Len(rows),
         NEW s, s = Reverse(SubSeq(rows, 1, m))
  PROVE  /\ s \in Seq(Nat) /\ Len(s) <= limit
         /\ \A i, j \in DOMAIN s : i < j => s[i] < s[j]
         /\ \A n \in S \ ToSet(s) : Len(s) = limit /\ n < s[1]
<1>1. /\ rows \in Seq(S) /\ Len(rows) \in Nat /\ ToSet(rows) = S
      /\ DOMAIN rows = 1..Len(rows)
  BY Listing, LenProperties
<1>2. m \in Nat /\ m <= limit /\ m <= Len(rows) /\ (m < limit => m >= Len(rows))
  OBVIOUS
<1>3. /\ SubSeq(rows, 1, m) \in Seq(S) /\ Len(SubSeq(rows, 1, m)) = m
      /\ \A i \in 1..m : SubSeq(rows, 1, m)[i] = rows[i]
  <2>1. ASSUME NEW i \in 1..m
        PROVE  rows[i] \in S
    <3>1. i \in 1..Len(rows)
      BY <1>1, <1>2
    <3> QED
      BY <1>1, <3>1, ElementOfSeq
  <2>2. /\ SubSeq(rows, 1, m) \in Seq(S)
        /\ Len(SubSeq(rows, 1, m)) = IF 1 <= m THEN (m - 1) + 1 ELSE 0
        /\ \A i \in 1..((m - 1) + 1) : SubSeq(rows, 1, m)[i] = rows[(1 + i) - 1]
    BY <1>2, <2>1, SubSeqProperties
  <2>3. (m - 1) + 1 = m /\ \A i \in 1..m : (1 + i) - 1 = i
    BY <1>2
  <2> QED
    BY <1>2, <2>2, <2>3
<1>4. s = [i \in 1..m |-> rows[(m - i) + 1]]
  <2>1. \A i \in 1..m : (m - i) + 1 \in 1..m
    BY <1>2
  <2> QED
    BY <1>3, <2>1 DEF Reverse
<1>5. /\ \A i \in 1..m : (m - i) + 1 \in 1..m /\ (m - i) + 1 \in DOMAIN rows
      /\ DOMAIN s = 1..m /\ \A i \in 1..m : s[i] = rows[(m - i) + 1]
      /\ \A i \in DOMAIN rows : rows[i] \in S /\ rows[i] \in Nat
  <2>1. ASSUME NEW i \in 1..m
        PROVE  (m - i) + 1 \in 1..m /\ (m - i) + 1 \in 1..Len(rows)
    BY <1>1, <1>2
  <2>2. DOMAIN s = 1..m /\ \A i \in 1..m : s[i] = rows[(m - i) + 1]
    BY <1>4
  <2>3. \A i \in DOMAIN rows : rows[i] \in S
    BY <1>1, ElementOfSeq
  <2> QED
    BY <1>1, <2>1, <2>2, <2>3
<1>6. s \in Seq(Nat) /\ Len(s) = m
  BY <1>2, <1>4, <1>5, SeqDef, LenProperties
<1>7. ASSUME NEW i \in DOMAIN s, NEW j \in DOMAIN s, i < j
       PROVE  s[i] < s[j]
  <2>1. (m - j) + 1 < (m - i) + 1
    BY <1>2, <1>5, <1>7
  <2>2. rows[(m - j) + 1] > rows[(m - i) + 1]
    BY <1>5, <2>1 DEF Descends
  <2> QED
    BY <1>5, <2>2
<1>8. ASSUME NEW n \in S \ ToSet(s)
       PROVE  m = limit /\ n < s[1]
  <2>1. PICK k \in DOMAIN rows : rows[k] = n
    BY <1>1 DEF ToSet
  <2>2. ~(k <= m)
    <3> SUFFICES ASSUME k <= m PROVE FALSE
      OBVIOUS
    <3>1. (m - k) + 1 \in 1..m /\ (m - ((m - k) + 1)) + 1 = k
      <4>1. k \in 1..m
        BY <1>1, <1>2, <2>1
      <4> QED
        BY <1>2, <4>1
    <3>2. s[(m - k) + 1] = n
      BY <1>5, <2>1, <3>1
    <3> QED
      BY <1>5, <3>1, <3>2 DEF ToSet
  <2>3. m = limit /\ m < k
    <3>1. k \in 1..Len(rows)
      BY <1>1, <2>1
    <3> QED
      BY <1>1, <1>2, <2>2, <3>1
  <2>4. 1 \in 1..m /\ m \in DOMAIN rows /\ (m - 1) + 1 = m
    BY <1>1, <1>2, <2>3
  <2>5. s[1] = rows[m] /\ rows[m] > rows[k]
    BY <1>5, <2>1, <2>3, <2>4 DEF Descends
  <2> QED
    BY <1>5, <2>1, <2>3, <2>4, <2>5
<1> QED
  BY <1>2, <1>3, <1>6, <1>7, <1>8

(* The last of the chapters that have a summary, in order.                 *)
LEMMA RecentSummaries ==
  ASSUME shelf \in Seq(Chapters), NEW limit \in Nat \ {0}
  PROVE  LET s == recent_summaries(limit) IN
         /\ s \in Seq(Nat) /\ Len(s) <= limit
         /\ \A i, j \in DOMAIN s : i < j => s[i] < s[j]
         /\ \A n \in Summarised \ ToSet(s) : Len(s) = limit /\ n < s[1]
<1> DEFINE rows == CHOOSE r \in SetToSeqs(Summarised) : Descends(r)
           m == IF Len(rows) < limit THEN Len(rows) ELSE limit
           s == recent_summaries(limit)
           R == {p \in Nat \X Nat : p[1] > p[2]}
<1>1. Summarised \in SUBSET Nat /\ IsFiniteSet(Summarised)
  <2>1. Summarised \in SUBSET (1..Len(shelf)) /\ Len(shelf) \in Nat
    BY LenProperties DEF Summarised
  <2>2. IsFiniteSet(1..Len(shelf))
    BY <2>1, FS_Interval
  <2>3. IsFiniteSet(Summarised)
    BY <2>1, <2>2, FS_Subset
  <2> QED
    BY <2>1, <2>3
<1>2. rows \in SetToSeqs(Summarised) /\ Descends(rows)
  <2>1. \E r \in SetToSeqs(Summarised) : \A i, j \in DOMAIN r : i < j => <<r[i], r[j]>> \in R
    <3>1. \A x, y \in Summarised : <<x, y>> \in R <=> x > y
      BY <1>1
    <3>2. /\ \A x \in Summarised : <<x, x>> \notin R
          /\ \A x, y, z \in Summarised : <<x, y>> \in R /\ <<y, z>> \in R => <<x, z>> \in R
          /\ \A x, y \in Summarised : x # y => <<x, y>> \in R \/ <<y, x>> \in R
      <4> HIDE DEF R
      <4> QED
        BY <1>1, <3>1
    <3>3. IsFiniteSet(Summarised)
      BY <1>1
    <3> HIDE DEF R
    <3> QED
      BY <3>2, <3>3, Sortable
  <2>2. PICK r \in SetToSeqs(Summarised) : \A i, j \in DOMAIN r : i < j => <<r[i], r[j]>> \in R
    BY <2>1
  <2>3. Descends(r)
    BY <2>2 DEF Descends
  <2> QED
    BY <2>3
<1>3. s = Reverse(SubSeq(rows, 1, m))
  BY DEF recent_summaries, Descends
<1>4. Descends(rows)
  BY <1>2
<1>5. rows \in SetToSeqs(Summarised)
  BY <1>2
<1>6. m \in Nat /\ m <= limit /\ m <= Len(rows) /\ (m < limit => m >= Len(rows))
  <2>1. Len(rows) \in Nat
    BY <1>1, <1>5, Listing, LenProperties
  <2> HIDE DEF rows
  <2> QED
    BY <2>1
<1> HIDE DEF rows, s, m
<1>7. /\ s \in Seq(Nat) /\ Len(s) <= limit
      /\ \A i, j \in DOMAIN s : i < j => s[i] < s[j]
      /\ \A n \in Summarised \ ToSet(s) : Len(s) = limit /\ n < s[1]
  BY <1>1, <1>3, <1>4, <1>5, <1>6, TheLast
<1> QED
  BY <1>7 DEF s

-----------------------------------------------------------------------------
(* match_lore.                                                             *)

(* contains_bounded, its loop taken apart.                                 *)
Later(hay, needle, from) == {i \in from..Len(hay) : At(hay, needle, i)}
First(hay, needle, from) ==
  CHOOSE i \in Later(hay, needle, from) : \A j \in Later(hay, needle, from) : i <= j
AreScans(f, hay, needle) ==
  f = [from \in 1..(Len(hay) + 1) |->
         /\ Later(hay, needle, from) # {}
         /\ Bounded(hay, needle, First(hay, needle, from)) \/ f[First(hay, needle, from) + 1]]
Scans(hay, needle) == CHOOSE f : AreScans(f, hay, needle)
Found(hay, needle, from) ==
  \E i \in from..Len(hay) : At(hay, needle, i) /\ Bounded(hay, needle, i)

(* They are what contains_bounded is made of.                              *)
LEMMA ContainsIsScan ==
  ASSUME NEW hay, NEW needle
  PROVE  contains_bounded(hay, needle) <=> needle # <<>> /\ Scans(hay, needle)[1]
BY DEF contains_bounded, Scans, AreScans, First, Later

(* One round of the loop leaves nothing behind.                            *)
LEMMA ScanStep ==
  ASSUME NEW hay, Len(hay) \in Nat, NEW needle, NEW from \in 1..(Len(hay) + 1)
  PROVE  /\ Later(hay, needle, from) # {} =>
              /\ First(hay, needle, from) \in from..Len(hay)
              /\ First(hay, needle, from) + 1 \in 1..(Len(hay) + 1)
         /\ Found(hay, needle, from) <=>
              /\ Later(hay, needle, from) # {}
              /\ \/ Bounded(hay, needle, First(hay, needle, from))
                 \/ Found(hay, needle, First(hay, needle, from) + 1)
<1> DEFINE L == Later(hay, needle, from)
           s == First(hay, needle, from)
<1>1. CASE L = {}
  <2>1. ~Found(hay, needle, from)
    BY <1>1 DEF Found, Later
  <2> QED
    BY <1>1, <2>1
<1>2. CASE L # {}
  <2>1. L \in SUBSET Nat
    BY DEF Later
  <2>2. s \in L /\ \A j \in L : s <= j
    <3>1. \E i \in L : \A j \in L : i <= j
      BY <1>2, <2>1, Least
    <3> QED
      BY <3>1 DEF First
  <2> HIDE DEF s
  <2>3. s \in from..Len(hay) /\ At(hay, needle, s)
    BY <2>2 DEF Later
  <2>4. s + 1 \in 1..(Len(hay) + 1)
    BY <2>3
  <2>5. ASSUME Found(hay, needle, from)
        PROVE  Bounded(hay, needle, s) \/ Found(hay, needle, s + 1)
    <3>1. PICK i \in from..Len(hay) : At(hay, needle, i) /\ Bounded(hay, needle, i)
      BY <2>5 DEF Found
    <3>2. i \in L
      BY <3>1 DEF Later
    <3>3. s <= i
      BY <2>2, <3>2
    <3>4. i = s \/ i \in (s + 1)..Len(hay)
      BY <2>3, <3>1, <3>3
    <3> QED
      BY <3>1, <3>4 DEF Found
  <2>6. ASSUME Bounded(hay, needle, s)
        PROVE  Found(hay, needle, from)
    BY <2>3, <2>6 DEF Found
  <2>7. ASSUME Found(hay, needle, s + 1)
        PROVE  Found(hay, needle, from)
    <3>1. PICK i \in (s + 1)..Len(hay) : At(hay, needle, i) /\ Bounded(hay, needle, i)
      BY <2>7 DEF Found
    <3>2. i \in from..Len(hay)
      BY <2>3, <3>1
    <3> QED
      BY <3>1, <3>2 DEF Found
  <2> QED
    BY <1>2, <2>3, <2>4, <2>5, <2>6, <2>7 DEF s
<1> QED
  BY <1>1, <1>2

(* The recursion has a solution ...                                        *)
LEMMA ScanExists ==
  ASSUME NEW hay, Len(hay) \in Nat, NEW needle
  PROVE  AreScans(Scans(hay, needle), hay, needle)
<1> DEFINE g == [from \in 1..(Len(hay) + 1) |-> Found(hay, needle, from)]
           Body(from) == /\ Later(hay, needle, from) # {}
                         /\ \/ Bounded(hay, needle, First(hay, needle, from))
                            \/ g[First(hay, needle, from) + 1]
<1>1. \A from \in 1..(Len(hay) + 1) : Found(hay, needle, from) \in BOOLEAN
  BY DEF Found
<1>2. ASSUME NEW from \in 1..(Len(hay) + 1)
      PROVE  Found(hay, needle, from) = Body(from)
  <2>1. Later(hay, needle, from) # {} =>
          (g[First(hay, needle, from) + 1] <=> Found(hay, needle, First(hay, needle, from) + 1))
    BY ScanStep
  <2>2. Found(hay, needle, from) <=> Body(from)
    <3> HIDE DEF g
    <3> QED
      BY <2>1, ScanStep
  <2> QED
    BY <1>1, <2>2
<1>3. g = [from \in 1..(Len(hay) + 1) |-> Body(from)]
  <2> HIDE DEF Body
  <2> QED
    BY <1>2
<1>4. AreScans(g, hay, needle)
  <2> HIDE DEF g
  <2> QED
    BY <1>3 DEF AreScans
<1> HIDE DEF g
<1> QED
  BY <1>4 DEF Scans

(* ... and one only: the loop finds what there is, or the last place from  *)
(* which it does not would be before another one.                          *)
LEMMA ScanFinds ==
  ASSUME NEW hay, Len(hay) \in Nat, NEW needle
  PROVE  \A from \in 1..(Len(hay) + 1) :
           Scans(hay, needle)[from] <=> Found(hay, needle, from)
<1> DEFINE f == Scans(hay, needle)
           n == Len(hay) + 1
           Bad == {from \in 1..n : ~(f[from] <=> Found(hay, needle, from))}
           Gaps == {n - from : from \in Bad}
<1>1. \A from \in 1..n :
        f[from] <=> /\ Later(hay, needle, from) # {}
                    /\ \/ Bounded(hay, needle, First(hay, needle, from))
                       \/ f[First(hay, needle, from) + 1]
  <2>1. AreScans(f, hay, needle)
    BY ScanExists
  <2> HIDE DEF f
  <2> QED
    BY <2>1 DEF AreScans
<1> HIDE DEF f
<1>2. SUFFICES ASSUME Bad # {} PROVE FALSE
  BY DEF f
<1>3. Gaps \in SUBSET Nat /\ Gaps # {}
  BY <1>2
<1>4. PICK d \in Gaps : \A e \in Gaps : d <= e
  <2> HIDE DEF Gaps
  <2> QED
    BY <1>3, Least
<1>5. PICK k \in Bad : d = n - k
  BY <1>4
<1>6. k \in 1..n /\ ~(f[k] <=> Found(hay, needle, k))
  BY <1>5
<1>7. \A j \in 1..n : j > k => (f[j] <=> Found(hay, needle, j))
  <2> SUFFICES ASSUME NEW j \in 1..n, j > k, j \in Bad PROVE FALSE
    OBVIOUS
  <2>1. n - j \in Gaps
    OBVIOUS
  <2>2. d <= n - j
    <3> HIDE DEF Gaps
    <3> QED
      BY <1>4, <2>1
  <2>3. n \in Nat /\ d = n - k /\ k \in Nat /\ j \in Nat
    BY <1>5, <1>6
  <2> HIDE DEF n, Gaps, Bad
  <2> QED
    BY <2>2, <2>3
<1> DEFINE s == First(hay, needle, k)
<1>8. Later(hay, needle, k) # {} => (f[s + 1] <=> Found(hay, needle, s + 1))
  <2> SUFFICES ASSUME Later(hay, needle, k) # {} PROVE f[s + 1] <=> Found(hay, needle, s + 1)
    OBVIOUS
  <2>1. s \in k..Len(hay) /\ s + 1 \in 1..n
    BY <1>6, ScanStep
  <2>2. s + 1 > k
    BY <1>6, <2>1
  <2> HIDE DEF s
  <2> QED
    BY <1>7, <2>1, <2>2
<1> HIDE DEF Bad, Gaps
<1> QED
  BY <1>1, <1>6, <1>8, ScanStep

(* contains_bounded: the text names the keyword, wherever it does.         *)
LEMMA ContainsIsNamed ==
  ASSUME NEW A, NEW hay \in Seq(A), NEW needle
  PROVE  contains_bounded(hay, needle) <=> Named(hay, needle)
<1>1. Len(hay) \in Nat /\ DOMAIN hay = 1..Len(hay)
  BY LenProperties
<1>2. Scans(hay, needle)[1] <=> Found(hay, needle, 1)
  <2>1. 1 \in 1..(Len(hay) + 1)
    BY <1>1
  <2> QED
    BY <1>1, <2>1, ScanFinds
<1> QED
  BY <1>1, <1>2, ContainsIsScan DEF Named, Found

(* No two entries of one name.                                             *)
Keyed(entries) == \A e, f \in entries : e.key = f.key => e = f

(* match_lore: what is always told or named, each once, strongest first.   *)
LEMMA MatchedLore ==
  ASSUME NEW entries \in SUBSET Entries, IsFiniteSet(entries), Keyed(entries),
         NEW text \in Seq(Alphabet)
  PROVE  LET l == match_lore(entries, text) IN
         /\ ToSet(l) = {e \in entries : e.always \/ \E k \in e.keywords : Named(text, k)}
         /\ \A i, j \in DOMAIN l : i < j => l[i] # l[j] /\ l[i].priority >= l[j].priority
<1> DEFINE hits == {e \in entries : e.always \/ \E k \in e.keywords : contains_bounded(text, k)}
           R == {p \in Entries \X Entries : Stronger(p[1], p[2])}
           Sorted(s) == \A i, j \in DOMAIN s : i < j => Stronger(s[i], s[j])
           l == match_lore(entries, text)
<1>1. hits = {e \in entries : e.always \/ \E k \in e.keywords : Named(text, k)}
  <2>1. \A k : contains_bounded(text, k) <=> Named(text, k)
    BY ContainsIsNamed
  <2> QED
    BY <2>1
<1>2. hits \in SUBSET Entries /\ Keyed(hits)
  BY DEF Keyed
<1>3. IsFiniteSet(hits)
  <2>1. hits \in SUBSET entries
    OBVIOUS
  <2> HIDE DEF hits
  <2> QED
    BY <2>1, FS_Subset
<1>4. l = CHOOSE s \in SetToSeqs(hits) : Sorted(s)
  BY DEF match_lore
<1> HIDE DEF hits, l
<1>5. \A x \in Entries : x.key \in Nat /\ x.priority \in Int
  BY DEF Entries
<1>6. \A x, y \in hits : <<x, y>> \in R <=> Stronger(x, y)
  BY <1>2
<1> HIDE DEF R
<1>7. /\ \A x \in hits : <<x, x>> \notin R
      /\ \A x, y, z \in hits : <<x, y>> \in R /\ <<y, z>> \in R => <<x, z>> \in R
      /\ \A x, y \in hits : x # y => <<x, y>> \in R \/ <<y, x>> \in R
  <2>1. ASSUME NEW x \in hits
        PROVE  <<x, x>> \notin R
    BY <1>2, <1>5, <1>6 DEF Stronger
  <2>2. ASSUME NEW x \in hits, NEW y \in hits, NEW z \in hits, <<x, y>> \in R, <<y, z>> \in R
        PROVE  <<x, z>> \in R
    BY <1>2, <1>5, <1>6, <2>2 DEF Stronger
  <2>3. ASSUME NEW x \in hits, NEW y \in hits, x # y
        PROVE  <<x, y>> \in R \/ <<y, x>> \in R
    <3>1. x.key # y.key
      BY <1>2, <2>3 DEF Keyed
    <3> QED
      BY <1>2, <1>5, <1>6, <3>1 DEF Stronger
  <2> QED
    BY <2>1, <2>2, <2>3
<1>8. PICK f \in SetToSeqs(hits) : \A i, j \in DOMAIN f : i < j => <<f[i], f[j]>> \in R
  BY <1>3, <1>7, Sortable
<1>9. Sorted(f)
  <2>1. f \in Seq(hits)
    BY <1>3, <1>8, Listing
  <2>2. \A i \in DOMAIN f : f[i] \in hits
    BY <2>1, ElementOfSeq
  <2> QED
    BY <1>6, <1>8, <2>2
<1>10. l \in SetToSeqs(hits) /\ Sorted(l)
  <2> HIDE DEF Sorted
  <2> QED
    BY <1>4, <1>8, <1>9
<1>11. l \in Seq(hits) /\ ToSet(l) = hits /\ \A i, j \in DOMAIN l : i # j => l[i] # l[j]
  BY <1>3, <1>10, Listing
<1>12. ASSUME NEW i \in DOMAIN l, NEW j \in DOMAIN l, i < j
       PROVE  l[i] # l[j] /\ l[i].priority >= l[j].priority
  <2>1. l[i] \in hits /\ l[j] \in hits
    BY <1>11, ElementOfSeq
  <2>2. i # j
    <3>1. i \in Nat /\ j \in Nat
      BY <1>11, LenProperties
    <3> QED
      BY <1>12, <3>1
  <2>3. Stronger(l[i], l[j])
    BY <1>10, <1>12
  <2> QED
    BY <1>2, <1>5, <1>11, <2>1, <2>2, <2>3 DEF Stronger
<1> QED
  BY <1>1, <1>11, <1>12 DEF l

-----------------------------------------------------------------------------
(* The prompt.                                                             *)

(* The library between two turns, and what was taken from it for this one. *)
LibraryInv ==
  /\ newest.text \in Seq(Alphabet)
  /\ lore \subseteq Entries /\ IsFiniteSet(lore) /\ Keyed(lore)
  /\ PromptRemembers

(* A step that neither assembles a prompt nor adds to the library.         *)
Elsewhere ==
  /\ UNCHANGED <<newest.text, lore>>
  /\ pc' = "pass1" => UNCHANGED <<pc, told, shelf>>

(* Such a step leaves prompt and library as they were to each other.       *)
LEMMA ElsewhereKeeps == LibraryInv /\ Elsewhere => LibraryInv'
<1> SUFFICES ASSUME LibraryInv, Elsewhere PROVE LibraryInv'
  OBVIOUS
<1>1. /\ newest.text' \in Seq(Alphabet)
      /\ lore' \subseteq Entries /\ IsFiniteSet(lore') /\ Keyed(lore')
  BY DEF LibraryInv, Elsewhere
<1>2. PromptRemembers'
  <2> SUFFICES ASSUME pc' = "pass1" PROVE PromptRemembers'
    BY DEF PromptRemembers
  <2>1. UNCHANGED <<pc, told, shelf, newest.text, lore>>
    BY DEF Elsewhere
  <2>2. Summarised' = Summarised
    BY <2>1 DEF Summarised
  <2>3. PromptRemembers
    BY DEF LibraryInv
  <2> QED
    BY <2>1, <2>2, <2>3 DEF PromptRemembers
<1> QED
  BY <1>1, <1>2 DEF LibraryInv

(* Typed, the prompt that is assembled is as it should be.                 *)
LEMMA AssembleRemembers ==
  ASSUME StoreTyped, LibraryInv, Assemble
  PROVE  LibraryInv'
<1>1. UNCHANGED <<newest, lore, shelf>>
  BY DEF Assemble, storeVars
<1>2. /\ told'.summaries = recent_summaries(SUMMARY_WINDOW)
      /\ told'.lore = match_lore(lore, newest.text)
  BY DEF Assemble
<1>3. Summarised' = Summarised
  BY <1>1 DEF Summarised
<1> DEFINE s == recent_summaries(SUMMARY_WINDOW)
           l == match_lore(lore, newest.text)
<1>4. /\ Len(s) <= SUMMARY_WINDOW
      /\ \A i, j \in DOMAIN s : i < j => s[i] < s[j]
      /\ \A n \in Summarised \ ToSet(s) : Len(s) = SUMMARY_WINDOW /\ n < s[1]
  BY StoryAssumption, RecentSummaries DEF StoreTyped, StoryAssumption
<1>5. /\ ToSet(l) = {e \in lore : e.always \/ \E k \in e.keywords : Named(newest.text, k)}
      /\ \A i, j \in DOMAIN l : i < j => l[i] # l[j] /\ l[i].priority >= l[j].priority
  BY MatchedLore DEF LibraryInv
<1> HIDE DEF s, l
<1>6. told'.summaries = s /\ told'.lore = l
  BY <1>2 DEF s, l
<1>7. PromptRemembers'
  BY <1>1, <1>3, <1>4, <1>5, <1>6 DEF PromptRemembers
<1> QED
  BY <1>1, <1>7 DEF LibraryInv

(* A chapter and what pass 2 found in it.                                  *)
LEMMA LibraryGrows ==
  ASSUME LibraryInv,
         \/ \E t \in Prose : InsertChapter(t)
         \/ \E e \in LoreBook : Remember(e)
  PROVE  LibraryInv'
<1>1. ASSUME NEW t \in Prose, InsertChapter(t)
      PROVE  LibraryInv'
  <2>1. newest'.text = t /\ UNCHANGED lore /\ pc' # "pass1"
    BY <1>1 DEF InsertChapter
  <2>2. t \in Seq(Alphabet)
    BY StoryAssumption DEF StoryAssumption
  <2> QED
    BY <2>1, <2>2 DEF LibraryInv, PromptRemembers
<1>2. ASSUME NEW e \in LoreBook, Remember(e)
      PROVE  LibraryInv'
  <2> DEFINE kept == {f \in lore : f.key # e.key}
  <2>1. UNCHANGED newest /\ lore' = kept \cup {e} /\ pc' # "pass1"
    BY <1>2 DEF Remember, upsert_lore
  <2>2. IsFiniteSet(kept)
    <3>1. kept \in SUBSET lore
      OBVIOUS
    <3> HIDE DEF kept
    <3> QED
      BY <3>1, FS_Subset DEF LibraryInv
  <2>3. IsFiniteSet(lore')
    <3> HIDE DEF kept
    <3> QED
      BY <2>1, <2>2, FS_AddElement
  <2>4. lore' \subseteq Entries
    BY <2>1, StoryAssumption DEF LibraryInv, StoryAssumption
  <2>5. Keyed(lore')
    BY <2>1 DEF LibraryInv, Keyed
  <2> QED
    BY <2>1, <2>3, <2>4, <2>5 DEF LibraryInv, PromptRemembers
<1> QED
  BY <1>1, <1>2

(* Of all steps only three touch the library or the prompt.                *)
LEMMA LibraryHolds == Typed /\ LibraryInv /\ [Next]_vars => LibraryInv'
<1> SUFFICES ASSUME Typed, LibraryInv, [Next]_vars PROVE LibraryInv'
  OBVIOUS
<1>A. CASE Assemble
  BY <1>A, AssembleRemembers DEF Typed
<1>B. CASE (\E t \in Prose : InsertChapter(t)) \/ (\E e \in LoreBook : Remember(e))
  BY <1>B, LibraryGrows
<1>1. CASE Begin
  BY <1>1, ElsewhereKeeps DEF Begin, storeVars, Elsewhere
<1>2. CASE FallThrough
  BY <1>2, ElsewhereKeeps DEF FallThrough, storeVars, Elsewhere
<1>3. ASSUME NEW n \in DOMAIN shelf, ResumeRenders(n) PROVE LibraryInv'
  BY <1>3, ElsewhereKeeps DEF ResumeRenders, Rest, Elsewhere
<1>4. CASE ReadDepth
  BY <1>4, ElsewhereKeeps DEF ReadDepth, storeVars, Elsewhere
<1>5. CASE BufferFull
  BY <1>5, ElsewhereKeeps DEF BufferFull, Rest, storeVars, Elsewhere
<1>6. CASE BufferShort
  BY <1>6, ElsewhereKeeps DEF BufferShort, storeVars, Elsewhere
<1>7. CASE NoStory
  BY <1>7, ElsewhereKeeps DEF NoStory, Rest, storeVars, Elsewhere
<1>9. CASE Abandon
  BY <1>9, ElsewhereKeeps DEF Abandon, Rest, storeVars, Elsewhere
<1>11. CASE StampReads
  BY <1>11, ElsewhereKeeps DEF StampReads, storeVars, Elsewhere
<1>12. CASE StampWrites
  BY <1>12, ElsewhereKeeps DEF StampWrites, Elsewhere
<1>13. CASE StampFails
  BY <1>13, ElsewhereKeeps DEF StampFails, storeVars, Elsewhere
<1>15. CASE Dirty
  BY <1>15, ElsewhereKeeps DEF Dirty, storeVars, Elsewhere
<1>16. CASE Render
  BY <1>16, ElsewhereKeeps DEF Render, Rest, Elsewhere
<1>17. CASE RenderFails
  BY <1>17, ElsewhereKeeps DEF RenderFails, Rest, storeVars, Elsewhere
<1>18. CASE EngineDies
  BY <1>18, ElsewhereKeeps DEF EngineDies, Rest, storeVars, Elsewhere
<1>19. ASSUME NEW opts \in InitOptions, InitConfig(opts) PROVE LibraryInv'
  BY <1>19, ElsewhereKeeps DEF InitConfig, storeVars, engineVars, Elsewhere
<1>20. CASE InitPrompt
  BY <1>20, ElsewhereKeeps DEF InitPrompt, storeVars, engineVars, Elsewhere
<1>21. CASE InitReads
  BY <1>21, ElsewhereKeeps DEF InitReads, storeVars, engineVars, Elsewhere
<1>22. CASE InitWrites
  BY <1>22, ElsewhereKeeps DEF InitWrites, engineVars, Elsewhere
<1>23. ASSUME NEW text \in Texts, EditPrompt(text) PROVE LibraryInv'
  BY <1>23, ElsewhereKeeps DEF EditPrompt, storeVars, engineVars, Elsewhere
<1>24. ASSUME NEW edit \in StoryEdits, StoryCommand(edit) PROVE LibraryInv'
  BY <1>24, ElsewhereKeeps DEF StoryCommand, storeVars, engineVars, Elsewhere
<1>25. CASE StoryReads
  BY <1>25, ElsewhereKeeps DEF StoryReads, storeVars, engineVars, Elsewhere
<1>26. CASE SetProtagonist
  BY <1>26, ElsewhereKeeps DEF SetProtagonist, engineVars, Elsewhere
<1>27. CASE SetTitle
  BY <1>27, ElsewhereKeeps DEF SetTitle, engineVars, Elsewhere
<1>28. CASE CommandDies
  BY <1>28, ElsewhereKeeps DEF CommandDies, storeVars, engineVars, Elsewhere
<1>29. ASSUME NEW k \in 0..MaxChapters, PutProgress(k) PROVE LibraryInv'
  BY <1>29, ElsewhereKeeps DEF PutProgress, engineVars, Elsewhere
<1>30. ASSUME NEW req \in Requests, PostBuffer(req) PROVE LibraryInv'
  BY <1>30, ElsewhereKeeps DEF PostBuffer, engineVars, Elsewhere
<1>31. ASSUME NEW p \in Processes, Opening(p) PROVE LibraryInv'
  BY <1>31, ElsewhereKeeps DEF Opening, storeVars, engineVars, Elsewhere
<1>32. CASE UNCHANGED vars
  BY <1>32, ElsewhereKeeps DEF vars, storeVars, engineVars, Elsewhere
<1>33. CASE RenderCommand
  BY <1>33, ElsewhereKeeps DEF RenderCommand, storeVars, engineVars, Elsewhere
<1>34. ASSUME NEW chapters \in SUBSET DOMAIN shelf, RenderResolves(chapters)
       PROVE  LibraryInv'
  BY <1>34, ElsewhereKeeps DEF RenderResolves, storeVars, engineVars, Elsewhere
<1>35. ASSUME NEW n \in DOMAIN shelf, RenderClears(n) PROVE LibraryInv'
  <2>1. UNCHANGED <<newest, lore, pc, told>>
    BY <1>35 DEF RenderClears, engineVars
  <2>2. /\ DOMAIN shelf = 1..Len(shelf) /\ n \in 1..Len(shelf)
        /\ shelf' = [shelf EXCEPT ![n].audio = FALSE] /\ shelf \in Seq(Chapters)
    BY <1>35, Shelved DEF RenderClears
  <2>3. /\ DOMAIN shelf' = DOMAIN shelf
        /\ \A m \in 1..Len(shelf) : shelf'[m].summed = shelf[m].summed
    BY <2>2, QueuedShelf
  <2>4. Summarised' = Summarised
    BY <2>2, <2>3 DEF Summarised
  <2> QED
    BY <2>1, <2>4 DEF LibraryInv, PromptRemembers
<1> QED
  BY <1>A, <1>B, <1>1, <1>2, <1>3, <1>4, <1>5, <1>6, <1>7, <1>9, <1>11, <1>12, <1>13, <1>15,
     <1>16, <1>17, <1>18, <1>19, <1>20, <1>21, <1>22, <1>23, <1>24, <1>25, <1>26, <1>27, <1>28,
     <1>29, <1>30, <1>31, <1>32, <1>33, <1>34, <1>35
     DEF Next, EngineTurn, Operator, Daemon

(* Nobody has been told anything yet.                                      *)
LEMMA LibraryStarts == Init => LibraryInv
<1> SUFFICES ASSUME Init PROVE LibraryInv
  OBVIOUS
<1>1. newest.text = <<>> /\ pc # "pass1" /\ (lore = {} \/ lore = OwnLore)
  BY DEF Init
<1>2. <<>> \in Seq(Alphabet)
  BY EmptySeq
<1>3. lore \subseteq Entries /\ IsFiniteSet(lore) /\ Keyed(lore)
  BY <1>1, FS_EmptySet, StoryAssumption DEF StoryAssumption, Keyed
<1> QED
  BY <1>1, <1>2, <1>3 DEF LibraryInv, PromptRemembers

(* A step of the story opens or closes the store, or leaves it alone.      *)
LEMMA StepsOfTheStore == [Next]_vars => [SchemaStep]_schemaVars
<1> SUFFICES ASSUME [Next]_vars PROVE [SchemaStep]_schemaVars
  OBVIOUS
<1>1. CASE Begin
  BY <1>1, StoryAssumption DEF Begin, SchemaStep, StoryAssumption
<1>2. CASE FallThrough
  BY <1>2, StoryAssumption DEF FallThrough, SchemaStep, StoryAssumption
<1>3. ASSUME NEW n \in DOMAIN shelf, ResumeRenders(n) PROVE [SchemaStep]_schemaVars
  BY <1>3, StoryAssumption DEF ResumeRenders, SchemaStep, StoryAssumption
<1>4. CASE ReadDepth
  BY <1>4, StoryAssumption DEF ReadDepth, SchemaStep, StoryAssumption
<1>5. CASE BufferFull
  BY <1>5, StoryAssumption DEF BufferFull, SchemaStep, StoryAssumption
<1>6. CASE BufferShort
  BY <1>6, StoryAssumption DEF BufferShort, SchemaStep, StoryAssumption
<1>7. CASE NoStory
  BY <1>7, StoryAssumption DEF NoStory, SchemaStep, StoryAssumption
<1>8. CASE Assemble
  BY <1>8, StoryAssumption DEF Assemble, SchemaStep, StoryAssumption
<1>9. CASE Abandon
  BY <1>9, StoryAssumption DEF Abandon, SchemaStep, StoryAssumption
<1>10. ASSUME NEW t \in Prose, InsertChapter(t) PROVE [SchemaStep]_schemaVars
  BY <1>10, StoryAssumption DEF InsertChapter, SchemaStep, StoryAssumption
<1>11. CASE StampReads
  BY <1>11, StoryAssumption DEF StampReads, SchemaStep, StoryAssumption
<1>12. CASE StampWrites
  BY <1>12, StoryAssumption DEF StampWrites, SchemaStep, StoryAssumption
<1>13. CASE StampFails
  BY <1>13, StoryAssumption DEF StampFails, SchemaStep, StoryAssumption
<1>14. ASSUME NEW e \in LoreBook, Remember(e) PROVE [SchemaStep]_schemaVars
  BY <1>14, StoryAssumption DEF Remember, SchemaStep, StoryAssumption
<1>15. CASE Dirty
  BY <1>15, StoryAssumption DEF Dirty, SchemaStep, StoryAssumption
<1>16. CASE Render
  BY <1>16, StoryAssumption DEF Render, SchemaStep, StoryAssumption
<1>17. CASE RenderFails
  BY <1>17, StoryAssumption DEF RenderFails, SchemaStep, StoryAssumption
<1>18. CASE EngineDies
  BY <1>18, StoryAssumption DEF EngineDies, SchemaStep, StoryAssumption
<1>19. ASSUME NEW opts \in InitOptions, InitConfig(opts) PROVE [SchemaStep]_schemaVars
  BY <1>19, StoryAssumption DEF InitConfig, SchemaStep, StoryAssumption
<1>20. CASE InitPrompt
  BY <1>20, StoryAssumption DEF InitPrompt, SchemaStep, StoryAssumption
<1>21. CASE InitReads
  BY <1>21, StoryAssumption DEF InitReads, Done, SchemaStep, StoryAssumption
<1>22. CASE InitWrites
  BY <1>22, StoryAssumption DEF InitWrites, Done, SchemaStep, StoryAssumption
<1>23. ASSUME NEW text \in Texts, EditPrompt(text) PROVE [SchemaStep]_schemaVars
  BY <1>23, StoryAssumption DEF EditPrompt, SchemaStep, StoryAssumption
<1>24. ASSUME NEW edit \in StoryEdits, StoryCommand(edit) PROVE [SchemaStep]_schemaVars
  BY <1>24, StoryAssumption DEF StoryCommand, SchemaStep, StoryAssumption
<1>25. CASE StoryReads
  BY <1>25, StoryAssumption DEF StoryReads, Done, SchemaStep, StoryAssumption
<1>26. CASE SetProtagonist
  BY <1>26, StoryAssumption DEF SetProtagonist, SchemaStep, StoryAssumption
<1>27. CASE SetTitle
  BY <1>27, StoryAssumption DEF SetTitle, Done, SchemaStep, StoryAssumption
<1>28. CASE CommandDies
  BY <1>28, StoryAssumption DEF CommandDies, Done, SchemaStep, StoryAssumption
<1>29. ASSUME NEW n \in 0..MaxChapters, PutProgress(n) PROVE [SchemaStep]_schemaVars
  BY <1>29, StoryAssumption DEF PutProgress, SchemaStep, StoryAssumption
<1>30. ASSUME NEW req \in Requests, PostBuffer(req) PROVE [SchemaStep]_schemaVars
  BY <1>30, StoryAssumption DEF PostBuffer, SchemaStep, StoryAssumption
<1>31. ASSUME NEW p \in Processes, Opening(p) PROVE [SchemaStep]_schemaVars
  BY <1>31, StoryAssumption DEF Opening, SchemaStep, StoryAssumption
<1>32. CASE UNCHANGED vars
  BY <1>32 DEF vars
<1>33. CASE RenderCommand
  BY <1>33, StoryAssumption DEF RenderCommand, SchemaStep, StoryAssumption
<1>34. ASSUME NEW chapters \in SUBSET DOMAIN shelf, RenderResolves(chapters)
       PROVE  [SchemaStep]_schemaVars
  BY <1>34, StoryAssumption DEF RenderResolves, Done, SchemaStep, StoryAssumption
<1>35. ASSUME NEW n \in DOMAIN shelf, RenderClears(n) PROVE [SchemaStep]_schemaVars
  BY <1>35, StoryAssumption DEF RenderClears, Done, SchemaStep, StoryAssumption
<1> QED
  BY <1>1, <1>2, <1>3, <1>4, <1>5, <1>6, <1>7, <1>8, <1>9, <1>10, <1>11, <1>12, <1>13,
     <1>14, <1>15, <1>16, <1>17, <1>18, <1>19, <1>20, <1>21, <1>22, <1>23, <1>24, <1>25,
     <1>26, <1>27, <1>28, <1>29, <1>30, <1>31, <1>32, <1>33, <1>34, <1>35
     DEF Next, EngineTurn, Operator, Daemon

IInv == SchemaInv /\ Typed /\ Counted /\ HashInv /\ BufferInv /\ LibraryInv

LEMMA StoryStarts == Init => IInv
<1> SUFFICES ASSUME Init PROVE IInv
  OBVIOUS
<1>1. SchemaInv
  BY SchemaStarts DEF Init
<1>2. StoreTyped
  BY StoryAssumption, EmptySeq
     DEF Init, StoreTyped, consumed_through, StoryAssumption
<1>3. TurnTyped
  BY DEF Init, TurnTyped, Steps, UnderWay
<1>4. CommandTyped
  BY DEF Init, NoCommand, CommandTyped, Commands
<1>5. Counted
  BY StoryAssumption DEF Init, Counted, StoryAssumption
<1>6. HashInv
  BY DEF Init, HashInv
<1>7. BufferInv
  BY BufferStarts
<1>8. LibraryInv
  BY LibraryStarts
<1> QED
  BY <1>1, <1>2, <1>3, <1>4, <1>5, <1>6, <1>7, <1>8 DEF IInv, Typed

LEMMA StoryInvariant == Spec => []IInv
<1>1. IInv /\ [Next]_vars => IInv'
  <2> SUFFICES ASSUME IInv, [Next]_vars PROVE IInv'
    OBVIOUS
  <2>1. SchemaInv'
    BY StepsOfTheStore, SchemaHolds DEF IInv
  <2>2. Typed'
    BY StoreHolds, TurnHolds, CommandHolds DEF IInv, Typed
  <2>3. Counted'
    BY CountedHolds DEF IInv
  <2>4. HashInv'
    BY HashHolds DEF IInv
  <2>5. BufferInv'
    BY BufferHolds DEF IInv
  <2>6. LibraryInv'
    BY LibraryHolds DEF IInv
  <2> QED
    BY <2>1, <2>2, <2>3, <2>4, <2>5, <2>6 DEF IInv
<1> QED
  BY <1>1, StoryStarts, PTL DEF Spec

(* Files, row, chapters, target, turn and command are of their kinds, and  *)
(* a turn runs only while the engine has the store open.                   *)
THEOREM TypeCorrect == Spec => []TypeOK
<1>1. IInv => TypeOK
  <2> SUFFICES ASSUME IInv PROVE TypeOK
    OBVIOUS
  <2>1. userVersion \in Nat /\ objects \subseteq UpTo(TARGET_VERSION)
    BY DEF IInv, SchemaInv
  <2>2. shelf \in Seq([audio : BOOLEAN, summed : BOOLEAN])
    BY DEF IInv, Typed, StoreTyped, Chapters
  <2>3. cmd.op \in {"none", "init", "story", "render"}
    BY DEF IInv, Typed, CommandTyped, Commands
  <2> QED
    BY <2>1, <2>2, <2>3 DEF IInv, Typed, StoreTyped, TurnTyped, Counted, Steps, TypeOK
<1> QED
  BY <1>1, StoryInvariant, PTL

(* Store::migrate: whoever has opened the database has the whole schema,   *)
(* for any number of processes and migrations, and however many of them    *)
(* die or fail on the way.                                                 *)
THEOREM OpenedDatabaseIsMigrated == Spec => []OpenedIsMigrated
<1>1. IInv => OpenedIsMigrated
  BY SchemaSound DEF IInv
<1> QED
  BY <1>1, StoryInvariant, PTL

(* prompt_sync and set_prompt_hash: an edit of the premise is pending      *)
(* exactly until a chapter has been written from it.                       *)
THEOREM EditIsPendingUntilUsed == Spec => []EditPendingUntilUsed
<1>1. IInv => EditPendingUntilUsed
  BY HashSound DEF IInv
<1> QED
  BY <1>1, StoryInvariant, PTL

(* The throttle of run_cycle: never more chapters are ready ahead of the   *)
(* listener's furthest point than were ever asked for, but for those that  *)
(* were once missing there: not voiced in their turn, or put back into the *)
(* queue by `litrpg render`, once each.                                    *)
THEOREM BufferIsBounded == Spec => []BufferBounded
<1>1. IInv => BufferBounded
  BY BufferSound DEF IInv
<1> QED
  BY <1>1, StoryInvariant, PTL

(* recent_summaries, match_lore and contains_bounded: the prompt carries   *)
(* the newest summaries without a gap and in order, and exactly the lore   *)
(* that is always told or named in the last chapter, strongest first, for  *)
(* any texts, keywords and priorities.                                     *)
THEOREM ThePromptRemembers == Spec => []PromptRemembers
<1>1. IInv => PromptRemembers
  BY DEF IInv, LibraryInv
<1> QED
  BY <1>1, StoryInvariant, PTL
===============================================================================
