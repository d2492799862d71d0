------------------------------- MODULE Ledger -------------------------------
(***************************************************************************)
(* The append-only ledger: deltas judged by the validation gate of         *)
(* litrpg-core against the fold of the applied rows, stored with their     *)
(* verdict by litrpg-store, and rewound by the CLI.  append_delta reads    *)
(* the snapshot, the known subjects and the aliases, and inserts its row   *)
(* in a statement of its own, so a rewind by another process may come      *)
(* between the verdict and the row.                                        *)
(*                                                                         *)
(* Abstracted: the text of items and traits, and the spelling of names     *)
(* (a name is one member of Subjects, whatever its case and spacing).      *)
(* Integers are as wide as IntMin and IntMax say.                          *)
(***************************************************************************)
EXTENDS Integers, Sequences, FiniteSets

CONSTANTS
  Subjects,         \* names a delta may carry
  Protagonist,      \* story.protagonist
  Characters,       \* names of character cast rows and character lore rows
  Collision,        \* <<alias, canonical>> of seed_known_aliases
  MaySeed,          \* whether the database is upgraded past migration 007
  MayPrompt,        \* whether `litrpg rewind` asks, or is always given --force
  InventoryFields,  \* inv:<item>
  SlotFields,       \* equip:<slot> and appear:<trait> on their whitelists
  BadSlots,         \* equip:<slot> off the whitelist
  BadTraits,        \* appear:<trait> off the whitelist
  StrangeFields,    \* any other name
  Texts,            \* values of text fields
  NoNum, NoTxt,     \* value_num and value_txt are NULL
  Proposals,        \* deltas pass 2 may propose
  IntMin, IntMax,   \* the range of i64
  MaxChapter,       \* bound: chapters
  MaxRows           \* bound: ledger rows

NumericFields == {"hp", "max_hp", "level", "xp", "gold"}
TextFields    == {"location", "status"} \cup SlotFields
CountFields   == NumericFields \cup InventoryFields
Fields == CountFields \cup TextFields \cup BadSlots \cup BadTraits \cup StrangeFields

I64 == IntMin..IntMax

Delta == [subject : Subjects, field : Fields, op : {"set", "add", "sub"},
          num : I64 \cup {NoNum}, txt : Texts \cup {NoTxt}]

ASSUME WidthAssumption ==
  /\ IntMin \in Int /\ IntMax \in Int /\ IntMin < 0 /\ IntMax = -(IntMin + 1)
  /\ NoNum \notin I64 /\ NoTxt \notin Texts
ASSUME NamesAssumption ==
  /\ Protagonist \in Subjects /\ Characters \subseteq Subjects
  /\ Collision \in Subjects \X Subjects /\ Collision[1] # Collision[2]
  /\ MaySeed \in BOOLEAN /\ MayPrompt \in BOOLEAN
ASSUME FieldsAssumption ==
  /\ InventoryFields \cap (NumericFields \cup TextFields) = {}
  /\ TextFields \cap NumericFields = {}
  /\ (BadSlots \cup BadTraits \cup StrangeFields) \cap (CountFields \cup TextFields) = {}
  /\ BadSlots \cap (BadTraits \cup StrangeFields) = {} /\ BadTraits \cap StrangeFields = {}
  /\ Proposals \subseteq Delta
ASSUME LimitsAssumption == MaxChapter \in Nat \ {0} /\ MaxRows \in Nat

VARIABLES
  ledger,     \* the rows in the order of seq: [chapter, delta, verdict]
  alias,      \* subject_alias: the name a name stands for
  chapter,    \* the chapter whose deltas are being appended
  pc,         \* "idle", or "judged" between the verdict and the insert
  judged,     \* the row about to be inserted
  plan,       \* the rewind an operator is asked to confirm
  closing,    \* history: the sheets when each finished chapter ended
  raced,      \* history: the state changed between a verdict and its row
  merged      \* history: two sheets were merged by an alias

vars == <<ledger, alias, chapter, pc, judged, plan, closing, raced, merged>>

-----------------------------------------------------------------------------
(* The fold.                                                               *)

Absent == [is |-> "absent"]
Num(n) == [is |-> "num", n |-> n]
Txt(t) == [is |-> "txt", t |-> t]

Value == [is : {"absent"}] \cup [is : {"num"}, n : I64] \cup [is : {"txt"}, t : Texts]
AllSheets == [Subjects -> [Fields -> Value]]

Saturated(n) == IF n < IntMin THEN IntMin ELSE IF n > IntMax THEN IntMax ELSE n

(* `-magnitude` in the release build, which wraps; a debug build panics.   *)
Negated(n) == IF n = IntMin THEN IntMin ELSE -n

Signed(d) == IF d.op = "sub" THEN Negated(d.num) ELSE d.num

(* One applied row against the value it changes.  A row that fits neither  *)
(* case is an anomaly: it is noted and changes nothing.                    *)
Effect(old, d) ==
  IF d.op = "set"
  THEN IF d.num # NoNum THEN Num(d.num) ELSE IF d.txt # NoTxt THEN Txt(d.txt) ELSE old
  ELSE IF d.num = NoNum \/ old.is = "txt" THEN old
  ELSE IF old.is = "absent" THEN Num(Signed(d))
  ELSE Num(Saturated(old.n + Signed(d)))

resolve(s) == alias[s]

ApplyRow(snap, row) ==
  IF row.verdict # "applied" THEN snap
  ELSE [snap EXCEPT ![resolve(row.delta.subject)][row.delta.field] = Effect(@, row.delta)]

Blank == [s \in Subjects |-> [f \in Fields |-> Absent]]

(* The state after the first i rows, and the snapshot after all of them.   *)
fold(rows) ==
  LET after[i \in 0..Len(rows)] ==
        IF i = 0 THEN Blank ELSE ApplyRow(after[i - 1], rows[i])
  IN  after[Len(rows)]

snapshot == fold(ledger)

-----------------------------------------------------------------------------
(* The gate.                                                               *)

number(v) == IF v.is = "num" THEN v.n ELSE 0

(* What a numeric field would become.                                      *)
Proposed(current, d) ==
  CASE d.op = "set" -> d.num
    [] d.op = "add" -> Saturated(current + d.num)
    [] OTHER        -> Saturated(current - d.num)

(* Mutant: any operation will do on a text field.                          *)
TextVerdict_AnyOp(d) == IF d.txt = NoTxt THEN "MissingTextValue" ELSE "applied"

TextVerdict(d) ==
  IF d.op # "set" THEN "TextFieldRequiresSet"
  ELSE IF d.txt = NoTxt THEN "MissingTextValue" ELSE "applied"

(* Mutants: a bound that is never checked.                                 *)
BelowZero_Never(d, next) == FALSE
AboveMax_Never(sheet, d, next) == FALSE
Regresses_Never(d, current, next) == FALSE

BelowZero(d, next) == d.field \in InventoryFields \cup {"hp"} /\ next < 0

AboveMax(sheet, d, next) ==
  d.field = "hp" /\ sheet["max_hp"].is = "num" /\ next > sheet["max_hp"].n

Regresses(d, current, next) == d.field \in {"level", "xp"} /\ next < current

CountVerdict(sheet, d) ==
  LET current == number(sheet[d.field])
      next    == Proposed(current, d)
  IN  IF d.num = NoNum THEN "MissingNumericValue"
      ELSE IF BelowZero(d, next)
           THEN IF d.field = "hp" THEN "HpBelowZero" ELSE "InventoryWouldGoNegative"
      ELSE IF AboveMax(sheet, d, next) THEN "HpAboveMax"
      ELSE IF Regresses(d, current, next)
           THEN IF d.field = "level" THEN "LevelWouldDecrease" ELSE "XpWouldDecrease"
      ELSE "applied"

(* What the gate says of a delta against its subject's sheet.              *)
FieldVerdict(sheet, d) ==
  CASE d.field \in BadSlots      -> "UnknownEquipSlot"
    [] d.field \in BadTraits     -> "UnknownAppearTrait"
    [] d.field \in StrangeFields -> "UnknownField"
    [] d.field \in TextFields    -> TextVerdict(d)
    [] OTHER                     -> CountVerdict(sheet, d)

(* Mutant: a refused row makes its subject known.                          *)
appliedSubjects_All == {ledger[i].delta.subject : i \in DOMAIN ledger}

appliedSubjects ==
  {ledger[i].delta.subject : i \in {j \in DOMAIN ledger : ledger[j].verdict = "applied"}}

knownSubjects == {resolve(s) : s \in {Protagonist} \cup Characters \cup appliedSubjects}

validate_delta(d) ==
  IF resolve(d.subject) \notin knownSubjects THEN "UnknownSubject"
  ELSE FieldVerdict(snapshot[resolve(d.subject)], d)

-----------------------------------------------------------------------------
NoRow == [chapter |-> 0]
NoPlan == [rows |-> 0]

Init ==
  /\ ledger = <<>>
  /\ alias = [s \in Subjects |-> s]
  /\ chapter = 1 /\ pc = "idle" /\ judged = NoRow /\ plan = NoPlan
  /\ closing = [c \in {0} |-> Blank] /\ raced = FALSE /\ merged = FALSE

(* append_delta reads the ledger, the subjects and the aliases, and takes  *)
(* its verdict from what it read.                                          *)
Judge(d) ==
  /\ pc = "idle" /\ Len(ledger) < MaxRows
  /\ judged' = [chapter |-> chapter, delta |-> d, verdict |-> validate_delta(d)]
  /\ pc' = "judged"
  /\ UNCHANGED <<ledger, alias, chapter, plan, closing, raced, merged>>

(* The row is stored whatever the verdict; a rejection is a stored outcome. *)
Record ==
  /\ pc = "judged"
  /\ ledger' = Append(ledger, judged)
  /\ pc' = "idle" /\ judged' = NoRow
  /\ UNCHANGED <<alias, chapter, plan, closing, raced, merged>>

(* A store error or a crash: the delta leaves no row.                      *)
Lose ==
  /\ pc = "judged"
  /\ pc' = "idle" /\ judged' = NoRow
  /\ UNCHANGED <<ledger, alias, chapter, plan, closing, raced, merged>>

NextChapter ==
  /\ pc = "idle" /\ chapter < MaxChapter
  /\ chapter' = chapter + 1
  /\ closing' = [c \in 0..chapter |-> IF c = chapter THEN snapshot ELSE closing[c]]
  /\ UNCHANGED <<ledger, alias, pc, judged, plan, raced, merged>>

(* Mutants: only the next chapter is deactivated; chapter n is as well.    *)
Deactivated_OneChapter(n) ==
  [i \in DOMAIN ledger |->
    IF ledger[i].chapter = n + 1 /\ ledger[i].verdict = "applied"
    THEN [ledger[i] EXCEPT !.verdict = "rewound"] ELSE ledger[i]]
Deactivated_Inclusive(n) ==
  [i \in DOMAIN ledger |->
    IF ledger[i].chapter >= n /\ ledger[i].verdict = "applied"
    THEN [ledger[i] EXCEPT !.verdict = "rewound"] ELSE ledger[i]]

Affected(n) ==
  {i \in DOMAIN ledger : ledger[i].chapter > n /\ ledger[i].verdict = "applied"}

Deactivated(n) ==
  [i \in DOMAIN ledger |->
    IF i \in Affected(n) THEN [ledger[i] EXCEPT !.verdict = "rewound"] ELSE ledger[i]]

(* Store::rewind.  The sheets of the finished chapters after n are now     *)
(* those of n.                                                             *)
Deactivate(n) ==
  /\ ledger' = Deactivated(n)
  /\ closing' = [c \in DOMAIN closing |-> IF c <= n THEN closing[c] ELSE closing[n]]
  /\ raced' = (raced \/ (pc = "judged" /\ ledger' # ledger))
  /\ UNCHANGED <<alias, chapter, pc, judged, merged>>

(* `litrpg rewind n --force`.                                              *)
Rewind(n) == Deactivate(n) /\ UNCHANGED plan

(* `litrpg rewind n`: tell the operator what it would do, and wait.        *)
PlanRewind(n) ==
  /\ MayPrompt /\ plan = NoPlan /\ Affected(n) # {}
  /\ plan' = [rows |-> Cardinality(Affected(n)), through |-> n]
  /\ UNCHANGED <<ledger, alias, chapter, pc, judged, closing, raced, merged>>

ConfirmRewind ==
  /\ plan # NoPlan /\ Deactivate(plan.through)
  /\ plan' = NoPlan

DeclineRewind ==
  /\ plan # NoPlan /\ plan' = NoPlan
  /\ UNCHANGED <<ledger, alias, chapter, pc, judged, closing, raced, merged>>

(* post_migration for migration 007, when a newer process opens the        *)
(* database, perhaps while the engine is between a verdict and its row.    *)
SeedAlias ==
  /\ MaySeed /\ ~merged
  /\ \A k \in {1, 2} : \E i \in DOMAIN ledger : ledger[i].delta.subject = Collision[k]
  /\ alias' = [alias EXCEPT ![Collision[1]] = Collision[2]]
  /\ merged' = TRUE /\ raced' = (raced \/ pc = "judged")
  /\ UNCHANGED <<ledger, chapter, pc, judged, plan, closing>>

Next ==
  \/ \E d \in Proposals : Judge(d)
  \/ Record \/ Lose \/ NextChapter \/ SeedAlias
  \/ \E n \in 0..MaxChapter : Rewind(n) \/ PlanRewind(n)
  \/ ConfirmRewind \/ DeclineRewind

Spec == Init /\ [][Next]_vars

-----------------------------------------------------------------------------
Row == [chapter : 1..MaxChapter, delta : Delta,
        verdict : {"applied", "rewound", "UnknownSubject", "UnknownField",
                   "UnknownEquipSlot", "UnknownAppearTrait", "TextFieldRequiresSet",
                   "MissingTextValue", "MissingNumericValue", "HpBelowZero", "HpAboveMax",
                   "LevelWouldDecrease", "XpWouldDecrease", "InventoryWouldGoNegative"}]

(* A change the fold can carry out: a number for a count, a text to put in *)
(* a text field, and no other field.                                       *)
Fits(d) ==
  \/ d.field \in CountFields /\ d.num # NoNum
  \/ d.field \in TextFields /\ d.op = "set" /\ d.txt # NoTxt

(* The variables range over what the code stores in them; whatever was     *)
(* refused, no row that counts is an anomaly to the fold, and the sheets   *)
(* hold integers of their width, whatever was added up.                    *)
TypeOK ==
  /\ ledger \in Seq(Row) /\ alias \in [Subjects -> Subjects]
  /\ \A i \in DOMAIN ledger : ledger[i].verdict = "applied" => Fits(ledger[i].delta)
  /\ chapter \in 1..MaxChapter
  /\ \/ pc = "idle" /\ judged = NoRow
     \/ /\ pc = "judged" /\ judged \in Row /\ judged.verdict # "rewound"
        /\ judged.verdict = "applied" => Fits(judged.delta)
  /\ plan = NoPlan \/ plan \in [rows : 1..MaxRows, through : 0..MaxChapter]
  /\ closing \in [0..(chapter - 1) -> AllSheets]
  /\ raced \in BOOLEAN /\ merged \in BOOLEAN

(* Every row that counts was legal on top of the rows that count before    *)
(* it, however many stretches of story were rewound and written again:     *)
(* rewinding drops a suffix of the applied rows, never one from the middle.*)
JudgedOnItsPast ==
  ~raced /\ ~merged =>
    \A i \in DOMAIN ledger :
      LET d == ledger[i].delta
          before == fold(SubSeq(ledger, 1, i - 1))
      IN  ledger[i].verdict = "applied" =>
            FieldVerdict(before[resolve(d.subject)], d) = "applied"

Within(snap) ==
  \A s \in Subjects : \A f \in InventoryFields \cup {"hp", "level", "xp"} :
    snap[s][f].is # "txt" /\ number(snap[s][f]) >= 0

(* The rows that count and write a field of one sheet.                     *)
Writes(s, f) ==
  {i \in DOMAIN ledger : /\ ledger[i].verdict = "applied"
                         /\ resolve(ledger[i].delta.subject) = s /\ ledger[i].delta.field = f}

(* The maximum was written after the hit points: no gate compares them.    *)
Outgrown(s) == \E k \in Writes(s, "max_hp") : \A i \in Writes(s, "hp") : i < k

HpWithinMax(snap) ==
  \A s \in Subjects :
    LET hp == snap[s]["hp"]
        max == snap[s]["max_hp"]
    IN  hp.is = "num" /\ max.is = "num" /\ ~Outgrown(s) => hp.n <= max.n

(* The one subtraction the gate and the fold do differently: the gate takes *)
(* the smallest integer away and saturates, the fold negates it and wraps.  *)
Wraps(d) == d.op = "sub" /\ d.num = IntMin

Wrapped(verdicts) ==
  \E i \in DOMAIN ledger : ledger[i].verdict \in verdicts /\ Wraps(ledger[i].delta)

(* Hit points, levels, experience and item counts are never negative, and  *)
(* hit points pass their maximum only where the maximum came down after    *)
(* them, however much was rewound; as long as no rewind slips between a    *)
(* verdict and its row, no two sheets are merged and no row that counts    *)
(* takes the smallest integer away.                                        *)
SheetsWithinBounds ==
  ~raced /\ ~merged /\ ~Wrapped({"applied"}) => Within(snapshot) /\ HpWithinMax(snapshot)

(* rewind N is free: whatever was rewound and written again before, going   *)
(* back to chapter N now gives the sheets as they were when it ended.       *)
RewindRestores ==
  ~merged => \A n \in DOMAIN closing : fold(Deactivated(n)) = closing[n]

(* The gate never teaches itself a ghost: no applied row belongs to anyone *)
(* but the protagonist or a character, however often a ghost was refused.  *)
NoGhosts ==
  \A i \in DOMAIN ledger : ledger[i].verdict = "applied" =>
    \E s \in {Protagonist} \cup Characters :
      resolve(ledger[i].delta.subject) = resolve(s)

(* Levels and experience only fall when the operator rewinds or two sheets *)
(* are merged, even if a rewind slips in front of a row, unless the sheet  *)
(* is a merged one or the smallest integer was ever taken away.            *)
NeverRegress ==
  [][ \A s \in Subjects : \A f \in {"level", "xp"} :
        number(snapshot'[s][f]) < number(snapshot[s][f])
          => \/ alias' # alias \/ (merged /\ raced)
             \/ Wrapped({"applied", "rewound"})'
             \/ \E n \in 0..MaxChapter : Deactivate(n) ]_vars

(* The ledger is an audit trail: a row is never deleted or rewritten, and  *)
(* its verdict changes only from applied to rewound.                       *)
AuditTrail ==
  [][ \A i \in DOMAIN ledger :
        /\ i \in DOMAIN ledger'
        /\ ledger'[i].chapter = ledger[i].chapter /\ ledger'[i].delta = ledger[i].delta
        /\ \/ ledger'[i].verdict = ledger[i].verdict
           \/ ledger[i].verdict = "applied" /\ ledger'[i].verdict = "rewound" ]_vars

=============================================================================
