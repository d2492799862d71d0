--------------------------- MODULE Ledger_proofs ---------------------------
(***************************************************************************)
(* Proofs about module Ledger, for any names, fields, width of integers    *)
(* and bounds.  First what happens to the rows: they are well formed,      *)
(* never lost or rewritten, and never a ghost's.  Then what they fold to,  *)
(* by induction over the rows: a fold is a sequence of sheets, and a set   *)
(* of bad positions in it would have a least one.                          *)
(***************************************************************************)
EXTENDS Ledger, SequenceTheorems, FiniteSetTheorems, WellFoundedInduction, TLAPS

(* The bound on the rows, which makes the count shown to the operator one. *)
Room == Len(ledger) <= MaxRows /\ (pc = "judged" => Len(ledger) < MaxRows)

(* Names are merged at most once, from a state in which each name stands   *)
(* for itself.                                                             *)
OwnNames == ~merged => \A s \in Subjects : alias[s] = s

(* A row that is judged or that counts belongs to a known character.       *)
Known(names, s) == \E t \in {Protagonist} \cup Characters : names[s] = names[t]

JudgedKnown == pc = "judged" /\ judged.verdict = "applied" => Known(alias, judged.delta.subject)

IInv == TypeOK /\ Room /\ OwnNames /\ JudgedKnown /\ NoGhosts

Verdicts == {"applied", "rewound", "UnknownSubject", "UnknownField",
             "UnknownEquipSlot", "UnknownAppearTrait", "TextFieldRequiresSet",
             "MissingTextValue", "MissingNumericValue", "HpBelowZero", "HpAboveMax",
             "LevelWouldDecrease", "XpWouldDecrease", "InventoryWouldGoNegative"}

(* A row with the set of verdicts by its name.                             *)
LEMMA RowIs == Row = [chapter : 1..MaxChapter, delta : Delta, verdict : Verdicts]
BY DEF Row, Verdicts

-----------------------------------------------------------------------------
(* Induction over the rows.                                                *)

(* Induction over the rows: a set of numbers has a least one.              *)
LEMMA Least ==
  ASSUME NEW S \in SUBSET Nat, S # {}
  PROVE  \E m \in S : \A k \in S : m <= k
<1> DEFINE R == {ss \in Nat \X Nat : ss[1] < ss[2]}
<1>1. IsWellFoundedOn(R, Nat)
  BY NatLessThanWellFounded DEF OpToRel
<1> HIDE DEF R
<1>2. PICK x \in S : \A y \in S : ~ (<<y, x>> \in R)
  BY <1>1, WFMin
<1>3. ASSUME NEW y \in S
      PROVE  x <= y
  <2>1. x \in Nat /\ y \in Nat /\ ~ (<<y, x>> \in R)
    BY <1>2
  <2>2. ~(y < x)
    BY <2>1 DEF R
  <2> QED
    BY <2>1, <2>2
<1> QED
  BY <1>3

(* One row on top of the sheets, under given names.                        *)
Applied(names, snap, row) ==
  IF row.verdict # "applied" THEN snap
  ELSE [snap EXCEPT ![names[row.delta.subject]][row.delta.field] = Effect(@, row.delta)]

(* g is the sheets after each of the first n rows.                         *)
AreSheets(g, names, rows, n) ==
  g = [i \in 0..n |-> IF i = 0 THEN Blank ELSE Applied(names, g[i - 1], rows[i])]

Sheets(names, rows) == CHOOSE g : AreSheets(g, names, rows, Len(rows))

(* There is such a function for any rows: by induction over their number.  *)
LEMMA SheetsExist ==
  ASSUME NEW names, NEW rows, NEW n \in Nat
  PROVE  \E g : AreSheets(g, names, rows, n)
<1> DEFINE Bad == {m \in Nat : ~\E g : AreSheets(g, names, rows, m)}
<1> SUFFICES ASSUME n \in Bad PROVE FALSE
  OBVIOUS
<1>1. PICK m \in Bad : \A k \in Bad : m <= k
  <2>1. Bad \in SUBSET Nat /\ Bad # {}
    OBVIOUS
  <2> HIDE DEF Bad
  <2> QED
    BY <2>1, Least
<1>2. m # 0
  <2> DEFINE g == [i \in 0..0 |-> Blank]
  <2>1. g = [i \in 0..0 |-> IF i = 0 THEN Blank ELSE Applied(names, g[i - 1], rows[i])]
    OBVIOUS
  <2>2. AreSheets(g, names, rows, 0)
    BY <2>1 DEF AreSheets
  <2> QED
    BY <2>2
<1>3. m - 1 \in Nat /\ m - 1 \notin Bad
  <2>1. m \in Nat
    OBVIOUS
  <2>2. m - 1 \in Nat /\ ~(m <= m - 1)
    BY <2>1, <1>2
  <2> HIDE DEF Bad
  <2> QED
    BY <1>1, <2>2
<1>4. PICK g : AreSheets(g, names, rows, m - 1)
  BY <1>3
<1> DEFINE h == [i \in 0..m |-> IF i = m THEN Applied(names, g[m - 1], rows[m]) ELSE g[i]]
<1>5. h = [i \in 0..m |-> IF i = 0 THEN Blank ELSE Applied(names, h[i - 1], rows[i])]
  <2>1. g = [i \in 0..(m - 1) |-> IF i = 0 THEN Blank ELSE Applied(names, g[i - 1], rows[i])]
    BY <1>4 DEF AreSheets
  <2>2. ASSUME NEW i \in 0..m
        PROVE  h[i] = IF i = 0 THEN Blank ELSE Applied(names, h[i - 1], rows[i])
    <3>1. CASE i = m
      <4>1. h[i] = Applied(names, g[m - 1], rows[m]) /\ h[m - 1] = g[m - 1]
        BY <1>3, <3>1
      <4> QED
        BY <1>2, <3>1, <4>1
    <3>2. CASE i # m
      <4>1. i \in 0..(m - 1) /\ h[i] = g[i] /\ (i # 0 => h[i - 1] = g[i - 1])
        BY <1>3, <3>2
      <4> HIDE DEF h
      <4>2. g[i] = IF i = 0 THEN Blank ELSE Applied(names, g[i - 1], rows[i])
        BY <2>1, <4>1
      <4> QED
        BY <4>1, <4>2
    <3> QED
      BY <3>1, <3>2
  <2>3. h = [i \in 0..m |-> h[i]]
    OBVIOUS
  <2> HIDE DEF h
  <2> QED
    BY <2>2, <2>3
<1>6. AreSheets(h, names, rows, m)
  BY <1>5 DEF AreSheets
<1> QED
  BY <1>6

(* So the sheets are the blank ones, and each row on top of those before.  *)
LEMMA SheetsAre ==
  ASSUME NEW names, NEW rows, Len(rows) \in Nat
  PROVE  /\ Sheets(names, rows)[0] = Blank
         /\ \A i \in 1..Len(rows) :
              Sheets(names, rows)[i] = Applied(names, Sheets(names, rows)[i - 1], rows[i])
<1> DEFINE g == Sheets(names, rows)
<1>1. AreSheets(g, names, rows, Len(rows))
  BY SheetsExist DEF Sheets
<1> HIDE DEF g
<1>2. g = [i \in 0..Len(rows) |-> IF i = 0 THEN Blank ELSE Applied(names, g[i - 1], rows[i])]
  BY <1>1 DEF AreSheets
<1>3. g[0] = Blank
  BY <1>2
<1>4. ASSUME NEW i \in 1..Len(rows)
      PROVE  g[i] = Applied(names, g[i - 1], rows[i])
  <2>1. i \in 0..Len(rows) /\ i # 0
    OBVIOUS
  <2> QED
    BY <1>2, <2>1
<1> QED
  BY <1>3, <1>4 DEF g

(* The fold of the model is the last of the sheets.                        *)
LEMMA FoldIs ==
  ASSUME NEW rows
  PROVE  fold(rows) = Sheets(alias, rows)[Len(rows)]
BY DEF fold, Sheets, AreSheets, Applied, ApplyRow, resolve

(* So is the snapshot, before a step and after it.                         *)
LEMMA SnapshotIs ==
  /\ snapshot = Sheets(alias, ledger)[Len(ledger)]
  /\ snapshot' = Sheets(alias', ledger')[Len(ledger')]
BY DEF snapshot, fold, Sheets, AreSheets, Applied, ApplyRow, resolve

(* Two rows that change the sheets alike: they are one, or neither counts. *)
Alike(row, other) == row = other \/ (row.verdict # "applied" /\ other.verdict # "applied")

LEMMA AlikeRows ==
  ASSUME NEW names, NEW snap, NEW row, NEW other, Alike(row, other)
  PROVE  Applied(names, snap, row) = Applied(names, snap, other)
BY DEF Alike, Applied

(* The first n rows change the sheets alike.                               *)
Agree(rows, more, n) == \A i \in 1..n : Alike(rows[i], more[i])

(* Rows that change the sheets alike give the same sheets.                 *)
LEMMA SameSheets ==
  ASSUME NEW names, NEW rows, NEW more, NEW n \in Nat,
         Len(rows) \in Nat, Len(more) \in Nat, n <= Len(rows), n <= Len(more),
         Agree(rows, more, n)
  PROVE  \A i \in 0..n : Sheets(names, rows)[i] = Sheets(names, more)[i]
<1> DEFINE g == Sheets(names, rows)
           h == Sheets(names, more)
           Bad == {i \in 0..n : g[i] # h[i]}
<1> SUFFICES ASSUME Bad # {} PROVE FALSE
  OBVIOUS
<1>1. /\ g[0] = Blank /\ h[0] = Blank
      /\ \A i \in 1..Len(rows) : g[i] = Applied(names, g[i - 1], rows[i])
      /\ \A i \in 1..Len(more) : h[i] = Applied(names, h[i - 1], more[i])
  BY SheetsAre
<1> HIDE DEF g, h
<1>2. PICK m \in Bad : \A k \in Bad : m <= k
  <2>1. Bad \in SUBSET Nat
    OBVIOUS
  <2> HIDE DEF Bad
  <2> QED
    BY <2>1, Least
<1>3. m \in 1..n /\ m - 1 \in 0..n /\ m - 1 \notin Bad
  <2>1. m \in 0..n /\ m # 0
    BY <1>1
  <2>2. m - 1 \in 0..n /\ ~(m <= m - 1) /\ m \in 1..n
    BY <2>1
  <2> HIDE DEF Bad
  <2> QED
    BY <1>2, <2>2
<1>4. g[m - 1] = h[m - 1]
  BY <1>3
<1>5. m \in 1..Len(rows) /\ m \in 1..Len(more)
  BY <1>3
<1>6. Applied(names, g[m - 1], rows[m]) = Applied(names, g[m - 1], more[m])
  BY <1>3, AlikeRows DEF Agree
<1> QED
  BY <1>1, <1>2, <1>4, <1>5, <1>6

-----------------------------------------------------------------------------
(* The sheets are sheets.                                                  *)

(* What the constructors of values make.                                   *)
LEMMA ValuesAre ==
  /\ Absent \in Value
  /\ \A n \in I64 : Num(n) \in Value
  /\ \A t \in Texts : Txt(t) \in Value
BY DEF Value, Absent, Num, Txt

(* And what a value can be.                                                *)
LEMMA ValueIs ==
  ASSUME NEW v \in Value
  PROVE  \/ v = Absent /\ v.is = "absent"
         \/ v.is = "num" /\ v.n \in I64 /\ v = Num(v.n)
         \/ v.is = "txt"
BY DEF Value, Absent, Num

(* What a field is worth after a change, and that it fits.                 *)
LEMMA EffectIs ==
  ASSUME NEW old \in Value, NEW d \in Delta
  PROVE  Effect(old, d) \in Value
<1>1. d.op \in {"set", "add", "sub"} /\ d.num \in I64 \cup {NoNum} /\ d.txt \in Texts \cup {NoTxt}
  BY DEF Delta
<1>2. IntMin \in Int /\ IntMax \in Int /\ IntMin < 0 /\ IntMax = -(IntMin + 1)
  BY WidthAssumption DEF WidthAssumption
<1>3. \A k \in Int : Saturated(k) \in I64
  BY <1>2 DEF Saturated, I64
<1>4. d.num # NoNum => Signed(d) \in I64
  BY <1>1, <1>2 DEF Signed, Negated, I64
<1>5. CASE d.op = "set"
  BY <1>1, <1>5, ValuesAre DEF Effect
<1>6. CASE d.op # "set" /\ (d.num = NoNum \/ old.is = "txt")
  BY <1>6 DEF Effect
<1>7. CASE d.op # "set" /\ d.num # NoNum /\ old.is = "absent"
  <2>1. Effect(old, d) = Num(Signed(d))
    BY <1>7 DEF Effect
  <2> QED
    BY <1>4, <1>7, <2>1, ValuesAre
<1>8. CASE d.op # "set" /\ d.num # NoNum /\ old.is = "num"
  <2>1. Effect(old, d) = Num(Saturated(old.n + Signed(d)))
    BY <1>8 DEF Effect
  <2>2. old.n \in Int /\ Signed(d) \in Int
    BY <1>2, <1>4, <1>8, ValueIs DEF I64
  <2>3. Saturated(old.n + Signed(d)) \in I64
    BY <1>3, <2>2
  <2> QED
    BY <2>1, <2>3, ValuesAre
<1> QED
  BY <1>5, <1>6, <1>7, <1>8, ValueIs

(* A row changes one field of one sheet.                                   *)
LEMMA AppliedIs ==
  ASSUME NEW names \in [Subjects -> Subjects], NEW snap \in AllSheets, NEW row \in Row
  PROVE  /\ Applied(names, snap, row) \in AllSheets
         /\ \A s \in Subjects, f \in Fields :
              Applied(names, snap, row)[s][f] =
                IF /\ row.verdict = "applied"
                   /\ s = names[row.delta.subject] /\ f = row.delta.field
                THEN Effect(snap[s][f], row.delta) ELSE snap[s][f]
<1>1. row.delta \in Delta
  BY RowIs
<1>2. row.delta.subject \in Subjects /\ row.delta.field \in Fields
  BY <1>1 DEF Delta
<1> DEFINE d == row.delta
           p == names[d.subject]
           v == Effect(snap[p][d.field], d)
<1>3. p \in Subjects /\ snap[p] \in [Fields -> Value] /\ snap[p][d.field] \in Value
  BY <1>2 DEF AllSheets
<1>4. v \in Value
  BY <1>1, <1>3, EffectIs
<1>5. CASE row.verdict # "applied"
  BY <1>5 DEF Applied
<1>6. CASE row.verdict = "applied"
  <2> DEFINE sheet == [snap[p] EXCEPT ![d.field] = v]
  <2>1. Applied(names, snap, row) = [snap EXCEPT ![p] = sheet]
    BY <1>6 DEF Applied
  <2> HIDE DEF v, p
  <2>2. sheet \in [Fields -> Value]
    BY <1>3, <1>4
  <2>3. \A f \in Fields : sheet[f] = IF f = d.field THEN v ELSE snap[p][f]
    BY <1>3
  <2> HIDE DEF sheet
  <2>4. Applied(names, snap, row) \in AllSheets
    BY <1>3, <2>1, <2>2 DEF AllSheets
  <2>5. \A s \in Subjects : Applied(names, snap, row)[s] = IF s = p THEN sheet ELSE snap[s]
    BY <2>1 DEF AllSheets
  <2>6. \A s \in Subjects, f \in Fields :
          Applied(names, snap, row)[s][f] = IF s = p /\ f = d.field THEN v ELSE snap[s][f]
    BY <2>3, <2>5
  <2> QED
    BY <1>6, <2>4, <2>6 DEF v, p
<1> QED
  BY <1>5, <1>6

(* The sheets of nobody.                                                   *)
LEMMA BlankIs == Blank \in AllSheets /\ \A s \in Subjects, f \in Fields : Blank[s][f] = Absent
BY ValuesAre DEF Blank, AllSheets

(* Induction over the rows: the sheets are sheets.                         *)
LEMMA SheetsTyped ==
  ASSUME NEW names \in [Subjects -> Subjects], NEW rows \in Seq(Row)
  PROVE  \A i \in 0..Len(rows) : Sheets(names, rows)[i] \in AllSheets
<1> DEFINE g == Sheets(names, rows)
           n == Len(rows)
           Bad == {i \in 0..n : g[i] \notin AllSheets}
<1> SUFFICES ASSUME Bad # {} PROVE FALSE
  OBVIOUS
<1>1. n \in Nat /\ \A i \in 1..n : rows[i] \in Row
  BY LenProperties, ElementOfSeq
<1>2. g[0] = Blank /\ \A i \in 1..n : g[i] = Applied(names, g[i - 1], rows[i])
  BY <1>1, SheetsAre
<1> HIDE DEF g, n
<1>3. PICK m \in Bad : \A k \in Bad : m <= k
  <2>1. Bad \in SUBSET Nat
    OBVIOUS
  <2> HIDE DEF Bad
  <2> QED
    BY <2>1, Least
<1>4. m \in 1..n /\ m - 1 \in 0..n /\ m - 1 \notin Bad
  <2>1. m \in 0..n /\ m # 0
    BY <1>2, BlankIs
  <2>2. m - 1 \in 0..n /\ ~(m <= m - 1) /\ m \in 1..n
    BY <1>1, <2>1
  <2> HIDE DEF Bad
  <2> QED
    BY <1>3, <2>2
<1>5. g[m - 1] \in AllSheets
  BY <1>4
<1>6. g[m] \in AllSheets
  BY <1>1, <1>2, <1>4, <1>5, AppliedIs
<1> QED
  BY <1>3, <1>6

-----------------------------------------------------------------------------
(* The types.                                                              *)

(* The gate answers with one of its verdicts, and never with "rewound".    *)
LEMMA GateAnswers ==
  ASSUME NEW sheet, NEW d
  PROVE  FieldVerdict(sheet, d) \in Verdicts \ {"rewound"}
<1>1. TextVerdict(d) \in Verdicts \ {"rewound"}
  BY DEF TextVerdict, Verdicts
<1>2. CountVerdict(sheet, d) \in Verdicts \ {"rewound"}
  BY DEF CountVerdict, Verdicts
<1> QED
  BY <1>1, <1>2 DEF FieldVerdict, Verdicts

(* What it accepts fits its field.                                         *)
LEMMA AcceptedFits ==
  ASSUME NEW sheet, NEW d \in Delta, FieldVerdict(sheet, d) = "applied"
  PROVE  Fits(d)
<1>1. CASE d.field \in BadSlots \cup BadTraits \cup StrangeFields
  <2>1. d.field \notin TextFields /\ d.field \notin CountFields
    BY <1>1, FieldsAssumption
  <2> HIDE DEF TextFields
  <2> QED
    BY <1>1, <2>1 DEF FieldVerdict
<1>2. CASE d.field \notin BadSlots \cup BadTraits \cup StrangeFields /\ d.field \in TextFields
  <2>1. TextVerdict(d) = "applied"
    BY <1>2 DEF FieldVerdict
  <2> QED
    BY <1>2, <2>1 DEF TextVerdict, Fits
<1>3. CASE d.field \notin BadSlots \cup BadTraits \cup StrangeFields /\ d.field \notin TextFields
  <2>1. CountVerdict(sheet, d) = "applied"
    BY <1>3 DEF FieldVerdict
  <2>2. d.num # NoNum
    BY <2>1 DEF CountVerdict
  <2>3. d.field \in CountFields
    BY <1>3 DEF Delta, Fields
  <2> QED
    BY <2>2, <2>3 DEF Fits
<1> QED
  BY <1>1, <1>2, <1>3

(* Striking a row out keeps everything but its verdict.                    *)
LEMMA StruckOut ==
  ASSUME NEW r \in Row
  PROVE  LET q == [r EXCEPT !.verdict = "rewound"] IN
         q \in Row /\ q.chapter = r.chapter /\ q.delta = r.delta /\ q.verdict = "rewound"
BY RowIs DEF Verdicts

(* Deactivating rows leaves a sequence of as many rows.                    *)
LEMMA DeactivatedIs ==
  ASSUME ledger \in Seq(Row), NEW n
  PROVE  /\ Deactivated(n) \in Seq(Row)
         /\ DOMAIN Deactivated(n) = DOMAIN ledger
         /\ \A i \in DOMAIN ledger :
              /\ Deactivated(n)[i].chapter = ledger[i].chapter
              /\ Deactivated(n)[i].delta = ledger[i].delta
              /\ \/ Deactivated(n)[i] = ledger[i]
                 \/ ledger[i].verdict = "applied" /\ Deactivated(n)[i].verdict = "rewound"
<1>1. DOMAIN ledger = 1..Len(ledger) /\ Len(ledger) \in Nat
  BY LenProperties
<1>2. ASSUME NEW i \in DOMAIN ledger
      PROVE  /\ Deactivated(n)[i] \in Row
             /\ Deactivated(n)[i].chapter = ledger[i].chapter
             /\ Deactivated(n)[i].delta = ledger[i].delta
             /\ \/ Deactivated(n)[i] = ledger[i]
                \/ ledger[i].verdict = "applied" /\ Deactivated(n)[i].verdict = "rewound"
  <2>1. ledger[i] \in Row
    BY <1>1, ElementOfSeq
  <2>2. CASE i \in Affected(n)
    <3>1. Deactivated(n)[i] = [ledger[i] EXCEPT !.verdict = "rewound"]
      BY <2>2 DEF Deactivated
    <3>2. ledger[i].verdict = "applied"
      BY <2>2 DEF Affected
    <3> HIDE DEF Deactivated
    <3> QED
      BY <2>1, <3>1, <3>2, StruckOut
  <2>3. CASE i \notin Affected(n)
    <3>1. Deactivated(n)[i] = ledger[i]
      BY <2>3 DEF Deactivated
    <3> QED
      BY <2>1, <3>1
  <2> QED
    BY <2>2, <2>3
<1>3. Deactivated(n) \in [1..Len(ledger) -> Row]
  <2>1. Deactivated(n) = [i \in 1..Len(ledger) |-> Deactivated(n)[i]]
    BY <1>1 DEF Deactivated
  <2> QED
    BY <1>1, <1>2, <2>1
<1>4. Deactivated(n) \in Seq(Row)
  BY <1>1, <1>3, SeqDef
<1>5. DOMAIN Deactivated(n) = DOMAIN ledger
  BY DEF Deactivated
<1> QED
  BY <1>2, <1>4, <1>5

(* The types hold at first, and each step keeps them.                      *)
LEMMA TypeInit == Init => TypeOK
<1> SUFFICES ASSUME Init PROVE TypeOK
  OBVIOUS
<1>1. ledger \in Seq(Row) /\ alias \in [Subjects -> Subjects]
  BY EmptySeq DEF Init
<1>2. chapter \in 1..MaxChapter /\ DOMAIN ledger = {}
  BY LimitsAssumption DEF Init
<1>3. closing \in [0..(chapter - 1) -> AllSheets]
  <2>1. closing = [c \in {0} |-> Blank] /\ 0..(chapter - 1) = {0}
    BY DEF Init
  <2> QED
    BY <2>1, BlankIs
<1> QED
  BY <1>1, <1>2, <1>3 DEF Init, TypeOK

LEMMA JudgeType ==
  ASSUME TypeOK, NEW d \in Proposals, Judge(d)
  PROVE  TypeOK'
<1>1. validate_delta(d) \in Verdicts \ {"rewound"}
  BY GateAnswers DEF validate_delta, Verdicts
<1>2. d \in Delta
  BY FieldsAssumption
<1>3. judged' \in Row /\ judged'.verdict # "rewound"
  <2>1. judged' = [chapter |-> chapter, delta |-> d, verdict |-> validate_delta(d)]
    BY DEF Judge
  <2> QED
    BY <1>1, <1>2, <2>1, RowIs DEF TypeOK
<1>4. judged'.verdict = "applied" => Fits(judged'.delta)
  <2>1. judged'.delta = d /\ judged'.verdict = validate_delta(d)
    BY DEF Judge
  <2>2. validate_delta(d) = "applied" =>
          FieldVerdict(snapshot[resolve(d.subject)], d) = "applied"
    BY DEF validate_delta
  <2> QED
    BY <1>2, <2>1, <2>2, AcceptedFits
<1> QED
  BY <1>3, <1>4 DEF Judge, TypeOK

LEMMA RecordType ==
  ASSUME TypeOK, Record
  PROVE  TypeOK'
<1>1. ledger' \in Seq(Row)
  <2>1. judged \in Row /\ ledger \in Seq(Row) /\ ledger' = Append(ledger, judged)
    BY DEF Record, TypeOK
  <2> QED
    BY <2>1, AppendProperties
<1>2. \A i \in DOMAIN ledger' : ledger'[i].verdict = "applied" => Fits(ledger'[i].delta)
  <2>1. judged \in Row /\ ledger \in Seq(Row) /\ ledger' = Append(ledger, judged)
    BY DEF Record, TypeOK
  <2>2. \A i \in DOMAIN ledger' :
          (i \in DOMAIN ledger /\ ledger'[i] = ledger[i]) \/ ledger'[i] = judged
    BY <2>1, AppendProperties, LenProperties
  <2> QED
    BY <2>2 DEF Record, TypeOK
<1> QED
  BY <1>1, <1>2 DEF Record, TypeOK

(* Rewinding, whoever asked for it, leaves everything but the plan typed.  *)
LEMMA DeactivateType ==
  ASSUME TypeOK, NEW n \in Nat, Deactivate(n),
         plan' = NoPlan \/ plan' \in [rows : 1..MaxRows, through : 0..MaxChapter]
  PROVE  TypeOK'
<1>1. ledger' \in Seq(Row)
  BY DeactivatedIs DEF Deactivate, TypeOK
<1>2. closing' \in [0..(chapter' - 1) -> AllSheets]
  <2>1. closing' = [c \in DOMAIN closing |-> IF c <= n THEN closing[c] ELSE closing[n]]
    BY DEF Deactivate
  <2>2. closing \in [0..(chapter - 1) -> AllSheets] /\ chapter' = chapter /\ chapter \in Nat
    BY LimitsAssumption DEF Deactivate, TypeOK
  <2>3. ASSUME NEW c \in 0..(chapter - 1)
        PROVE  (IF c <= n THEN closing[c] ELSE closing[n]) \in AllSheets
    BY <2>2
  <2> HIDE DEF AllSheets
  <2> QED
    BY <2>1, <2>2, <2>3
<1>3. raced' \in BOOLEAN
  BY DEF Deactivate, TypeOK
<1>4. \A i \in DOMAIN ledger' : ledger'[i].verdict = "applied" => Fits(ledger'[i].delta)
  BY DeactivatedIs DEF Deactivate, TypeOK
<1> QED
  BY <1>1, <1>2, <1>3, <1>4 DEF Deactivate, TypeOK

(* The operator is told of one row at least and of MaxRows at most.        *)
LEMMA PlanType ==
  ASSUME TypeOK, Room, NEW n \in 0..MaxChapter, PlanRewind(n)
  PROVE  TypeOK'
<1>1. DOMAIN ledger = 1..Len(ledger) /\ Len(ledger) \in Nat
  BY LenProperties DEF TypeOK
<1>2. IsFiniteSet(DOMAIN ledger) /\ Cardinality(DOMAIN ledger) = Len(ledger)
  <2> DEFINE k == Len(ledger)
  <2>1. k \in Int /\ 1 \in Int
    BY <1>1
  <2> HIDE DEF k
  <2>2. IsFiniteSet(1..k) /\ Cardinality(1..k) = IF 1 > k THEN 0 ELSE k - 1 + 1
    BY <2>1, FS_Interval
  <2> USE DEF k
  <2> QED
    BY <1>1, <2>2
<1>3. /\ IsFiniteSet(Affected(n)) /\ Cardinality(Affected(n)) <= Len(ledger)
      /\ Cardinality(Affected(n)) \in Nat
  <2>1. Affected(n) \subseteq DOMAIN ledger
    BY DEF Affected
  <2> QED
    BY <1>2, <2>1, FS_Subset, FS_CardinalityType
<1>4. Cardinality(Affected(n)) # 0
  BY <1>3, FS_EmptySet DEF PlanRewind
<1>5. Cardinality(Affected(n)) \in 1..MaxRows
  BY <1>1, <1>3, <1>4, LimitsAssumption DEF Room
<1>6. plan' \in [rows : 1..MaxRows, through : 0..MaxChapter]
  BY <1>5 DEF PlanRewind
<1> QED
  BY <1>6 DEF PlanRewind, TypeOK

(* The remaining steps.                                                    *)
LEMMA OtherTypes ==
  ASSUME TypeOK, Lose \/ NextChapter \/ SeedAlias \/ DeclineRewind
  PROVE  TypeOK'
<1>1. CASE Lose
  BY <1>1 DEF Lose, TypeOK
<1>2. CASE NextChapter
  <2>1. /\ chapter' \in 1..MaxChapter /\ 0..chapter = 0..(chapter' - 1)
        /\ closing \in [0..(chapter - 1) -> AllSheets] /\ chapter \in Nat
    BY <1>2, LimitsAssumption DEF NextChapter, TypeOK
  <2>2. snapshot \in AllSheets
    <3>1. ledger \in Seq(Row) /\ alias \in [Subjects -> Subjects] /\ Len(ledger) \in 0..Len(ledger)
      BY LenProperties DEF TypeOK
    <3> QED
      BY <3>1, SnapshotIs, SheetsTyped
  <2>3. closing' = [c \in 0..chapter |-> IF c = chapter THEN snapshot ELSE closing[c]]
    BY <1>2 DEF NextChapter
  <2>4. closing' \in [0..(chapter' - 1) -> AllSheets]
    <3> HIDE DEF snapshot, AllSheets
    <3>1. \A c \in 0..chapter : c # chapter => c \in 0..(chapter - 1)
      BY <2>1
    <3> QED
      BY <2>1, <2>2, <2>3, <3>1
  <2> QED
    BY <1>2, <2>1, <2>4 DEF NextChapter, TypeOK
<1>3. CASE SeedAlias
  <2>1. Collision[1] \in Subjects /\ Collision[2] \in Subjects
    BY NamesAssumption
  <2>2. alias' \in [Subjects -> Subjects]
    BY <1>3, <2>1 DEF SeedAlias, TypeOK
  <2> QED
    BY <1>3, <2>2 DEF SeedAlias, TypeOK
<1>4. CASE DeclineRewind
  BY <1>4 DEF DeclineRewind, TypeOK
<1> QED
  BY <1>1, <1>2, <1>3, <1>4

LEMMA StepType ==
  ASSUME TypeOK, Room, [Next]_vars
  PROVE  TypeOK'
<1>1. ASSUME NEW d \in Proposals, Judge(d)
      PROVE  TypeOK'
  BY <1>1, JudgeType
<1>2. ASSUME NEW n \in 0..MaxChapter, Rewind(n) \/ PlanRewind(n)
      PROVE  TypeOK'
  <2>1. n \in Nat
    BY LimitsAssumption
  <2> QED
    BY <1>2, <2>1, DeactivateType, PlanType DEF Rewind, TypeOK
<1>3. CASE ConfirmRewind
  <2>1. plan.through \in Nat
    BY <1>3, LimitsAssumption DEF ConfirmRewind, TypeOK
  <2> QED
    BY <1>3, <2>1, DeactivateType DEF ConfirmRewind
<1>4. CASE UNCHANGED vars
  BY <1>4 DEF vars, TypeOK
<1> QED
  BY <1>1, <1>2, <1>3, <1>4, RecordType, OtherTypes DEF Next

-----------------------------------------------------------------------------
(* The rows.                                                               *)

(* What a step does to the rows that are there, and to the room for more.  *)
LEMMA StepOnRows ==
  ASSUME TypeOK, Room, [Next]_vars
  PROVE  /\ Room'
         /\ \A i \in DOMAIN ledger :
              /\ i \in DOMAIN ledger'
              /\ ledger'[i].chapter = ledger[i].chapter
              /\ ledger'[i].delta = ledger[i].delta
              /\ \/ ledger'[i].verdict = ledger[i].verdict
                 \/ ledger[i].verdict = "applied" /\ ledger'[i].verdict = "rewound"
<1>1. ledger \in Seq(Row) /\ DOMAIN ledger = 1..Len(ledger) /\ Len(ledger) \in Nat
  BY LenProperties DEF TypeOK
<1> DEFINE Kept == \A i \in DOMAIN ledger :
                     /\ i \in DOMAIN ledger'
                     /\ ledger'[i].chapter = ledger[i].chapter
                     /\ ledger'[i].delta = ledger[i].delta
                     /\ \/ ledger'[i].verdict = ledger[i].verdict
                        \/ ledger[i].verdict = "applied" /\ ledger'[i].verdict = "rewound"
<1>2. CASE Record
  <2>1. judged \in Row /\ ledger' = Append(ledger, judged) /\ pc' = "idle"
    BY <1>2 DEF Record, TypeOK
  <2>2. /\ Len(ledger') = Len(ledger) + 1
        /\ DOMAIN ledger' = 1..(Len(ledger) + 1)
        /\ \A i \in 1..Len(ledger) : ledger'[i] = ledger[i]
    BY <1>1, <2>1, AppendProperties, LenProperties
  <2>3. Room'
    BY <1>1, <1>2, <2>1, <2>2, LimitsAssumption DEF Record, Room
  <2> QED
    BY <1>1, <2>2, <2>3
<1>3. ASSUME NEW n, Deactivate(n)
      PROVE  Room' /\ Kept
  <2>1. /\ ledger' \in Seq(Row) /\ DOMAIN ledger' = DOMAIN ledger
        /\ Kept
    BY <1>1, <1>3, DeactivatedIs DEF Deactivate
  <2>2. Len(ledger') = Len(ledger)
    BY <1>1, <2>1, LenProperties
  <2> QED
    BY <1>3, <2>1, <2>2 DEF Room, Deactivate
<1>4. CASE UNCHANGED ledger /\ (pc' = "judged" => pc = "judged" \/ Len(ledger) < MaxRows)
  BY <1>4 DEF Room
<1> HIDE DEF Kept
<1>5. ASSUME NEW d \in Proposals, Judge(d)
      PROVE  UNCHANGED ledger /\ (pc' = "judged" => pc = "judged" \/ Len(ledger) < MaxRows)
  BY <1>5 DEF Judge
<1>6. ASSUME NEW n \in 0..MaxChapter, PlanRewind(n)
      PROVE  UNCHANGED ledger /\ (pc' = "judged" => pc = "judged" \/ Len(ledger) < MaxRows)
  BY <1>6 DEF PlanRewind
<1>7. CASE Lose \/ NextChapter \/ SeedAlias \/ DeclineRewind \/ UNCHANGED vars
  <2>1. UNCHANGED ledger /\ (pc' = "judged" => pc = "judged" \/ Len(ledger) < MaxRows)
    BY <1>7 DEF Lose, NextChapter, SeedAlias, DeclineRewind, vars
  <2> QED
    BY <2>1, <1>4 DEF Kept
<1> USE DEF Kept
<1> QED
  BY <1>2, <1>3, <1>4, <1>5, <1>6, <1>7 DEF Next, Rewind, ConfirmRewind

-----------------------------------------------------------------------------
(* The names.                                                              *)

(* A row that was accepted belongs to a character that was known.          *)
LEMMA AcceptedIsKnown ==
  ASSUME NoGhosts, NEW d, validate_delta(d) = "applied"
  PROVE  Known(alias, d.subject)
<1>1. resolve(d.subject) \in knownSubjects
  BY DEF validate_delta
<1>2. PICK s \in {Protagonist} \cup Characters \cup appliedSubjects :
        resolve(d.subject) = resolve(s)
  BY <1>1 DEF knownSubjects
<1>3. CASE s \in {Protagonist} \cup Characters
  BY <1>2, <1>3 DEF Known, resolve
<1>4. CASE s \in appliedSubjects
  <2>1. PICK i \in DOMAIN ledger : ledger[i].verdict = "applied" /\ s = ledger[i].delta.subject
    BY <1>4 DEF appliedSubjects
  <2> QED
    BY <1>2, <2>1 DEF NoGhosts, Known, resolve
<1> QED
  BY <1>3, <1>4

(* Merging two names keeps the names that stood for one character together.*)
LEMMA StepOnNames ==
  ASSUME TypeOK, OwnNames, [Next]_vars
  PROVE  /\ OwnNames'
         /\ \A s \in Subjects : Known(alias, s) => Known(alias', s)
<1>1. CASE UNCHANGED <<alias, merged>>
  BY <1>1 DEF OwnNames, Known, resolve
<1>2. CASE SeedAlias
  <2>1. merged' = TRUE /\ \A s, t \in Subjects : alias[s] = alias[t] => s = t
    BY <1>2 DEF SeedAlias, OwnNames
  <2>2. {Protagonist} \cup Characters \subseteq Subjects
    BY NamesAssumption
  <2> QED
    BY <2>1, <2>2 DEF OwnNames, Known, resolve
<1>3. CASE ~SeedAlias
  <2>1. UNCHANGED <<alias, merged>>
    BY <1>3 DEF Next, Judge, Record, Lose, NextChapter, Rewind, PlanRewind, ConfirmRewind,
                DeclineRewind, Deactivate, vars
  <2> QED
    BY <1>1, <2>1
<1> QED
  BY <1>2, <1>3

(* Neither a row nor the verdict under way comes to belong to a ghost.     *)
LEMMA StepOnGhosts ==
  ASSUME IInv, [Next]_vars
  PROVE  NoGhosts' /\ JudgedKnown'
<1>1. /\ \A s \in Subjects : Known(alias, s) => Known(alias', s)
      /\ \A i \in DOMAIN ledger :
              /\ i \in DOMAIN ledger'
              /\ ledger'[i].delta = ledger[i].delta
              /\ ledger'[i].verdict = "applied" => ledger[i].verdict = "applied"
  BY StepOnNames, StepOnRows DEF IInv
<1>2. TypeOK /\ TypeOK' /\ JudgedKnown /\ NoGhosts
  BY StepType DEF IInv
<1>3. ledger \in Seq(Row) /\ DOMAIN ledger = 1..Len(ledger) /\ Len(ledger) \in Nat
  BY <1>2, LenProperties DEF TypeOK
<1>4. \A r \in Row : r.delta.subject \in Subjects
  BY RowIs DEF Delta
<1>5. \A i \in DOMAIN ledger : ledger[i].delta.subject \in Subjects
  BY <1>3, <1>4, ElementOfSeq
<1>6. \A i \in DOMAIN ledger : ledger[i].verdict = "applied" => Known(alias, ledger[i].delta.subject)
  BY <1>2 DEF NoGhosts, Known, resolve
<1>7. ASSUME NEW i \in DOMAIN ledger, ledger'[i].verdict = "applied"
      PROVE  Known(alias', ledger'[i].delta.subject)
  BY <1>1, <1>5, <1>6, <1>7
<1>8. CASE Record
  <2>1. judged \in Row /\ ledger' = Append(ledger, judged) /\ pc' = "idle" /\ pc = "judged"
    BY <1>2, <1>8 DEF Record, TypeOK
  <2>2. /\ DOMAIN ledger' = 1..(Len(ledger) + 1)
        /\ ledger'[Len(ledger) + 1] = judged
    BY <1>3, <2>1, AppendProperties, LenProperties
  <2>3. judged.verdict = "applied" => Known(alias', judged.delta.subject)
    <3>1. judged.delta.subject \in Subjects
      BY <1>4, <2>1
    <3>2. alias' = alias
      BY <1>8 DEF Record
    <3> QED
      BY <1>2, <2>1, <3>1, <3>2 DEF JudgedKnown
  <2>4. ASSUME NEW i \in DOMAIN ledger', ledger'[i].verdict = "applied"
        PROVE  Known(alias', ledger'[i].delta.subject)
    BY <1>3, <1>7, <2>2, <2>3, <2>4
  <2> QED
    BY <2>1, <2>4 DEF NoGhosts, JudgedKnown, Known, resolve
<1>9. CASE ~Record
  <2>1. DOMAIN ledger' = DOMAIN ledger
    <3>1. ASSUME NEW n, Deactivate(n)
          PROVE  DOMAIN ledger' = DOMAIN ledger
      BY <1>3, <3>1, DeactivatedIs DEF Deactivate
    <3> QED
      BY <1>9, <3>1 DEF Next, Judge, Lose, NextChapter, SeedAlias, Rewind, PlanRewind,
                        ConfirmRewind, DeclineRewind, vars
  <2>2. NoGhosts'
    BY <1>7, <2>1 DEF NoGhosts, Known, resolve
  <2>3. ASSUME NEW d \in Proposals, Judge(d)
        PROVE  JudgedKnown'
    <3>1. judged'.delta = d /\ judged'.verdict = validate_delta(d) /\ alias' = alias
      BY <2>3 DEF Judge
    <3>2. judged'.verdict = "applied" => Known(alias, d.subject)
      BY <1>2, <3>1, AcceptedIsKnown
    <3> QED
      BY <3>1, <3>2 DEF JudgedKnown
  <2>4. CASE pc' = "judged" => pc = "judged" /\ judged' = judged
    <3>1. ASSUME pc' = "judged", judged'.verdict = "applied"
          PROVE  Known(alias', judged'.delta.subject)
      <4>1. judged' = judged /\ pc = "judged" /\ judged \in Row
        BY <1>2, <2>4, <3>1 DEF TypeOK
      <4>2. judged.delta.subject \in Subjects /\ Known(alias, judged.delta.subject)
        BY <1>2, <1>4, <3>1, <4>1 DEF JudgedKnown
      <4> QED
        BY <1>1, <4>1, <4>2
    <3> QED
      BY <2>2, <3>1 DEF JudgedKnown
  <2>5. \/ \E d \in Proposals : Judge(d)
        \/ pc' = "judged" => pc = "judged" /\ judged' = judged
    BY <1>9 DEF Next, Lose, NextChapter, SeedAlias, Rewind, PlanRewind,
                ConfirmRewind, DeclineRewind, Deactivate, vars
  <2> QED
    BY <2>2, <2>3, <2>4, <2>5
<1> QED
  BY <1>8, <1>9

-----------------------------------------------------------------------------
(* The theorems.                                                           *)

LEMMA InvariantInit == Init => IInv
<1> SUFFICES ASSUME Init PROVE IInv
  OBVIOUS
<1>1. TypeOK
  BY TypeInit
<1>2. Len(ledger) = 0 /\ DOMAIN ledger = {}
  BY DEF Init
<1> QED
  BY <1>1, <1>2, LimitsAssumption DEF Init, IInv, Room, OwnNames, JudgedKnown, NoGhosts

LEMMA InvariantStep == IInv /\ [Next]_vars => IInv'
BY StepType, StepOnRows, StepOnNames, StepOnGhosts DEF IInv

(* The rows are well formed and none that counts belongs to a ghost, in    *)
(* whatever order deltas, rewinds and an upgrade of the database come.     *)
THEOREM LedgerIsSound == Spec => [](TypeOK /\ NoGhosts)
<1>1. Init => IInv
  BY InvariantInit
<1>2. IInv /\ [Next]_vars => IInv'
  BY InvariantStep
<1>3. IInv => TypeOK /\ NoGhosts
  BY DEF IInv
<1> QED
  BY <1>1, <1>2, <1>3, PTL DEF Spec

(* The gate never teaches itself a ghost, however often one is refused.    *)
THEOREM GhostsStayOut == Spec => []NoGhosts
BY LedgerIsSound, PTL

(* The ledger is an audit trail: rewinding marks rows, and nothing deletes *)
(* or rewrites one.                                                        *)
THEOREM RowsAreForEver == Spec => AuditTrail
<1>1. Init => IInv
  BY InvariantInit
<1>2. IInv /\ [Next]_vars => IInv'
  BY InvariantStep
<1> DEFINE Trail == \A i \in DOMAIN ledger :
        /\ i \in DOMAIN ledger'
        /\ ledger'[i].chapter = ledger[i].chapter /\ ledger'[i].delta = ledger[i].delta
        /\ \/ ledger'[i].verdict = ledger[i].verdict
           \/ ledger[i].verdict = "applied" /\ ledger'[i].verdict = "rewound"
<1>3. IInv /\ [Next]_vars => [Trail]_vars
  BY StepOnRows DEF IInv
<1> QED
  BY <1>1, <1>2, <1>3, PTL DEF Spec, AuditTrail

(* One more row leaves the sheets before it and adds one.                  *)
LEMMA SheetsAppend ==
  ASSUME NEW names, NEW rows \in Seq(Row), NEW row \in Row
  PROVE  /\ \A i \in 0..Len(rows) : Sheets(names, Append(rows, row))[i] = Sheets(names, rows)[i]
         /\ Sheets(names, Append(rows, row))[Len(rows) + 1]
              = Applied(names, Sheets(names, rows)[Len(rows)], row)
<1> DEFINE more == Append(rows, row)
           n == Len(rows)
<1>1. /\ n \in Nat /\ Len(more) = n + 1 /\ more[n + 1] = row
      /\ \A i \in 1..n : more[i] = rows[i]
  BY LenProperties, AppendProperties
<1> HIDE DEF more
<1>2. \A i \in 0..n : Sheets(names, rows)[i] = Sheets(names, more)[i]
  BY <1>1, SameSheets DEF Agree, Alike
<1>3. Sheets(names, more)[n + 1] = Applied(names, Sheets(names, more)[n], more[n + 1])
  <2>1. Len(more) \in Nat /\ n + 1 \in 1..Len(more) /\ n + 1 - 1 = n
    BY <1>1
  <2>2. Sheets(names, more)[n + 1] = Applied(names, Sheets(names, more)[n + 1 - 1], more[n + 1])
    BY <2>1, SheetsAre
  <2> QED
    BY <2>1, <2>2
<1> QED
  BY <1>1, <1>2, <1>3 DEF more

-----------------------------------------------------------------------------
(* Rewinding.                                                              *)

(* Rows with those after chapter n rewound.                                *)
Struck(rows, n) ==
  [i \in DOMAIN rows |->
    IF rows[i].chapter > n /\ rows[i].verdict = "applied"
    THEN [rows[i] EXCEPT !.verdict = "rewound"] ELSE rows[i]]

(* It is what a rewind does to the ledger.                                 *)
LEMMA DeactivatedIsStruck ==
  /\ \A n : Deactivated(n) = Struck(ledger, n)
  /\ \A n : Deactivated(n)' = Struck(ledger', n)
BY DEF Deactivated, Affected, Struck

(* Which rows it leaves alone and which no longer count.                   *)
LEMMA StruckIs ==
  ASSUME NEW rows \in Seq(Row), NEW n \in Nat
  PROVE  /\ Struck(rows, n) \in Seq(Row) /\ Len(Struck(rows, n)) = Len(rows)
         /\ \A i \in 1..Len(rows) :
              /\ Struck(rows, n)[i].chapter = rows[i].chapter
              /\ rows[i].chapter <= n => Struck(rows, n)[i] = rows[i]
              /\ rows[i].chapter > n => Struck(rows, n)[i].verdict # "applied"
<1>1. DOMAIN rows = 1..Len(rows) /\ Len(rows) \in Nat /\ \A i \in 1..Len(rows) : rows[i] \in Row
  BY LenProperties, ElementOfSeq
<1>2. \A r \in Row : r.chapter \in Nat
  BY LimitsAssumption, RowIs
<1>3. ASSUME NEW i \in 1..Len(rows)
      PROVE  /\ Struck(rows, n)[i] \in Row
             /\ Struck(rows, n)[i].chapter = rows[i].chapter
             /\ rows[i].chapter <= n => Struck(rows, n)[i] = rows[i]
             /\ rows[i].chapter > n => Struck(rows, n)[i].verdict # "applied"
  <2>1. CASE rows[i].chapter > n /\ rows[i].verdict = "applied"
    <3>1. Struck(rows, n)[i] = [rows[i] EXCEPT !.verdict = "rewound"]
      BY <1>1, <2>1 DEF Struck
    <3>2. ~(rows[i].chapter <= n)
      BY <1>1, <1>2, <2>1
    <3> QED
      BY <1>1, <3>1, <3>2, StruckOut
  <2>2. CASE ~(rows[i].chapter > n /\ rows[i].verdict = "applied")
    <3>1. Struck(rows, n)[i] = rows[i]
      BY <1>1, <2>2 DEF Struck
    <3> QED
      BY <1>1, <2>2, <3>1
  <2> QED
    BY <2>1, <2>2
<1>4. DOMAIN Struck(rows, n) = 1..Len(rows)
        /\ Struck(rows, n) = [i \in 1..Len(rows) |-> Struck(rows, n)[i]]
  BY <1>1 DEF Struck
<1>5. Struck(rows, n) \in [1..Len(rows) -> Row]
  BY <1>3, <1>4
<1>6. Struck(rows, n) \in Seq(Row)
  BY <1>1, <1>5, SeqDef
<1>7. Len(Struck(rows, n)) = Len(rows)
  BY <1>1, <1>4, <1>6, LenProperties
<1> QED
  BY <1>3, <1>6, <1>7

(* Rewinding twice is rewinding to the earlier of the two chapters.        *)
LEMMA StruckTwice ==
  ASSUME NEW names, NEW rows \in Seq(Row), NEW m \in Nat, NEW n \in Nat
  PROVE  Sheets(names, Struck(Struck(rows, m), n))[Len(rows)]
           = Sheets(names, Struck(rows, IF n <= m THEN n ELSE m))[Len(rows)]
<1> DEFINE len == Len(rows)
           q == IF n <= m THEN n ELSE m
           once == Struck(rows, m)
           twice == Struck(once, n)
           least == Struck(rows, q)
<1>1. q \in Nat /\ len \in Nat /\ \A i \in 1..len : rows[i] \in Row
  BY LenProperties, ElementOfSeq
<1>2. \A r \in Row : r.chapter \in Nat
  BY LimitsAssumption, RowIs
<1>3. /\ once \in Seq(Row) /\ Len(once) = len
      /\ \A i \in 1..len :
           /\ once[i].chapter = rows[i].chapter
           /\ rows[i].chapter <= m => once[i] = rows[i]
           /\ rows[i].chapter > m => once[i].verdict # "applied"
  BY StruckIs
<1>4. /\ Len(least) = len
      /\ \A i \in 1..len :
           /\ rows[i].chapter <= q => least[i] = rows[i]
           /\ rows[i].chapter > q => least[i].verdict # "applied"
  <2> HIDE DEF q
  <2> QED
    BY <1>1, StruckIs
<1> HIDE DEF once
<1>5. /\ Len(twice) = len
      /\ \A i \in 1..len :
           /\ once[i].chapter <= n => twice[i] = once[i]
           /\ once[i].chapter > n => twice[i].verdict # "applied"
  BY <1>3, StruckIs
<1> HIDE DEF twice, least
<1>6. ASSUME NEW i \in 1..len
      PROVE  twice[i] = least[i] \/ (twice[i].verdict # "applied" /\ least[i].verdict # "applied")
  <2>1. rows[i].chapter \in Nat
    BY <1>1, <1>2
  <2> DEFINE c == rows[i].chapter
  <2>2. CASE c <= q
    <3>1. c <= n /\ c <= m
      BY <2>1, <2>2
    <3> QED
      BY <1>3, <1>4, <1>5, <2>2, <3>1
  <2>3. CASE c > q
    <3>1. least[i].verdict # "applied"
      BY <1>4, <2>3
    <3>2. c > n \/ (c <= n /\ c > m)
      BY <2>1, <2>3
    <3>3. twice[i].verdict # "applied"
      BY <1>3, <1>5, <3>2
    <3> QED
      BY <3>1, <3>3
  <2> QED
    BY <1>1, <2>1, <2>2, <2>3
<1>7. Agree(twice, least, len)
  BY <1>6 DEF Agree, Alike
<1>8. \A i \in 0..len : Sheets(names, twice)[i] = Sheets(names, least)[i]
  <2>1. len \in Nat /\ Len(twice) \in Nat /\ Len(least) \in Nat /\ len <= Len(twice)
          /\ len <= Len(least)
    BY <1>1, <1>4, <1>5
  <2> HIDE DEF len
  <2> QED
    BY <1>7, <2>1, SameSheets
<1> QED
  BY <1>1, <1>8 DEF twice, least, once

(* Chapters only go forward.                                               *)
Ordered ==
  /\ \A i, j \in DOMAIN ledger : i <= j => ledger[i].chapter <= ledger[j].chapter
  /\ \A i \in DOMAIN ledger : ledger[i].chapter <= chapter
  /\ pc = "judged" => judged.chapter = chapter

(* Rewinding cuts the applied rows off after some row k: the sheets up to  *)
(* it stay, and the rows after it change nothing any more.                 *)
LEMMA Cut ==
  ASSUME TypeOK, Ordered, NEW n \in Nat, NEW names
  PROVE  \E k \in 0..Len(ledger) :
           /\ \A i \in 1..Len(ledger) : i <= k <=> ledger[i].chapter <= n
           /\ \A i \in 0..Len(ledger) :
                Sheets(names, Deactivated(n))[i]
                  = Sheets(names, ledger)[IF i <= k THEN i ELSE k]
<1> DEFINE len == Len(ledger)
<1>1. /\ DOMAIN ledger = 1..len /\ len \in Nat
      /\ \A i \in 1..len : ledger[i].chapter \in Nat
  <2>1. DOMAIN ledger = 1..len /\ len \in Nat /\ \A i \in 1..len : ledger[i] \in Row
    BY LenProperties, ElementOfSeq DEF TypeOK
  <2>2. \A r \in Row : r.chapter \in Nat
    BY LimitsAssumption, RowIs
  <2> QED
    BY <2>1, <2>2
<1> DEFINE Later == {i \in 1..len : ledger[i].chapter > n} \cup {len + 1}
<1>2. PICK m \in Later : \A j \in Later : m <= j
  <2>1. Later \in SUBSET Nat /\ Later # {}
    BY <1>1
  <2> HIDE DEF Later
  <2> QED
    BY <2>1, Least
<1> DEFINE k == m - 1
<1>3. k \in 0..len
  BY <1>1, <1>2
<1>4. ASSUME NEW i \in 1..len
      PROVE  i <= k <=> ledger[i].chapter <= n
  <2>1. ASSUME ledger[i].chapter > n
        PROVE  m <= i
    BY <1>2, <2>1
  <2>2. ASSUME m <= i
        PROVE  ledger[i].chapter > n
    <3>1. m \in 1..len /\ ledger[m].chapter > n
      BY <1>1, <1>2, <2>2
    <3>2. ledger[m].chapter <= ledger[i].chapter
      BY <1>1, <2>2, <3>1 DEF Ordered
    <3> QED
      BY <1>1, <3>1, <3>2
  <2> QED
    BY <1>1, <1>3, <2>1, <2>2
<1> HIDE DEF k
<1> DEFINE struck == Deactivated(n)
           g == Sheets(names, ledger)
           h == Sheets(names, struck)
<1>5. /\ struck \in Seq(Row) /\ Len(struck) = len
      /\ \A i \in 1..k : struck[i] = ledger[i]
      /\ \A i \in 1..len : i > k => struck[i].verdict # "applied"
  <2>1. /\ struck \in Seq(Row) /\ Len(struck) = len
        /\ \A i \in 1..len : /\ ledger[i].chapter <= n => struck[i] = ledger[i]
                             /\ ledger[i].chapter > n => struck[i].verdict # "applied"
    BY StruckIs, DeactivatedIsStruck DEF TypeOK
  <2>2. \A i \in 1..k : i \in 1..len /\ i <= k
    BY <1>1, <1>3
  <2>3. \A i \in 1..len : i > k => ledger[i].chapter > n
    BY <1>1, <1>3, <1>4
  <2> HIDE DEF struck
  <2> QED
    BY <1>4, <2>1, <2>2, <2>3
<1> HIDE DEF struck
<1>6. \A i \in 0..k : h[i] = g[i]
  BY <1>1, <1>3, <1>5, SameSheets DEF Agree, Alike
<1>7. \A i \in 1..len : i > k => h[i] = h[i - 1]
  <2>1. \A i \in 1..len : h[i] = Applied(names, h[i - 1], struck[i])
    BY <1>1, <1>5, SheetsAre
  <2> QED
    BY <1>5, <2>1 DEF Applied
<1> HIDE DEF g, h
<1>8. \A i \in 0..len : i >= k => h[i] = g[k]
  <2> DEFINE Bad == {i \in 0..len : i >= k /\ h[i] # g[k]}
  <2> SUFFICES ASSUME Bad # {} PROVE FALSE
    OBVIOUS
  <2>1. PICK b \in Bad : \A j \in Bad : b <= j
    <3>1. Bad \in SUBSET Nat
      BY <1>1
    <3> HIDE DEF Bad
    <3> QED
      BY <3>1, Least
  <2>2. b # k
    BY <1>3, <1>6
  <2>3. b \in 1..len /\ b > k /\ b - 1 \in 0..len /\ b - 1 >= k
    BY <1>1, <1>3, <2>2
  <2>4. b - 1 \notin Bad
    <3>1. ~(b <= b - 1)
      BY <2>3
    <3> HIDE DEF Bad
    <3> QED
      BY <2>1, <3>1
  <2>5. h[b - 1] = g[k]
    BY <2>3, <2>4
  <2> QED
    BY <1>7, <2>1, <2>3, <2>5
<1>9. \A i \in 0..len : h[i] = g[IF i <= k THEN i ELSE k]
  BY <1>1, <1>3, <1>6, <1>8
<1> QED
  BY <1>3, <1>4, <1>9 DEF g, h, struck

-----------------------------------------------------------------------------
(* What the rows were judged on.                                           *)

(* What a row that counts was judged on.                                   *)
Legal(names, snap, row) ==
  row.verdict = "applied" => FieldVerdict(snap[names[row.delta.subject]], row.delta) = "applied"

RowsLegal ==
  ~raced /\ ~merged =>
    \A i \in 1..Len(ledger) : Legal(alias, Sheets(alias, ledger)[i - 1], ledger[i])

JudgedLegal ==
  pc = "judged" /\ ~raced => Legal(alias, Sheets(alias, ledger)[Len(ledger)], judged)

(* Rewinding to a chapter gives the sheets at its end.                     *)
Restored == ~merged =>
  \A n \in DOMAIN closing : Sheets(alias, Deactivated(n))[Len(ledger)] = closing[n]

(* The chapter only grows, and a row carries the one it was judged in.     *)
LEMMA OrderedStep ==
  ASSUME TypeOK, Room, Ordered, [Next]_vars
  PROVE  Ordered'
<1> DEFINE len == Len(ledger)
<1>1. /\ DOMAIN ledger = 1..len /\ len \in Nat /\ chapter \in Nat
      /\ \A i \in 1..len : ledger[i].chapter \in Nat
  <2>1. DOMAIN ledger = 1..len /\ len \in Nat /\ \A i \in 1..len : ledger[i] \in Row
    BY LenProperties, ElementOfSeq DEF TypeOK
  <2>2. \A r \in Row : r.chapter \in Nat
    BY LimitsAssumption, RowIs
  <2>3. chapter \in Nat
    BY LimitsAssumption DEF TypeOK
  <2> QED
    BY <2>1, <2>2, <2>3
<1>2. \A i \in DOMAIN ledger : i \in DOMAIN ledger' /\ ledger'[i].chapter = ledger[i].chapter
  BY StepOnRows
<1>3. CASE Record
  <2>1. judged \in Row /\ ledger' = Append(ledger, judged) /\ pc = "judged" /\ pc' = "idle"
          /\ chapter' = chapter
    BY <1>3 DEF Record, TypeOK
  <2>2. ledger' = Append(ledger, judged) /\ ledger \in Seq(Row)
    BY <2>1 DEF TypeOK
  <2>3. DOMAIN ledger' = 1..(len + 1) /\ ledger'[len + 1] = judged
    BY <2>1, <2>2, AppendProperties, LenProperties
  <2>4. judged.chapter = chapter
    BY <2>1 DEF Ordered
  <2>5. \A i \in 1..(len + 1) : ledger'[i].chapter <= chapter
    BY <1>1, <1>2, <2>3, <2>4 DEF Ordered
  <2>6. \A i, j \in 1..(len + 1) : i <= j => ledger'[i].chapter <= ledger'[j].chapter
    <3>1. \A i \in 1..(len + 1) : i = len + 1 \/ i \in 1..len
      BY <1>1
    <3>2. \A i, j \in 1..len : i <= j => ledger'[i].chapter <= ledger'[j].chapter
      BY <1>1, <1>2 DEF Ordered
    <3>3. \A i \in 1..len : ~(len + 1 <= i)
      BY <1>1
    <3> QED
      BY <1>1, <2>3, <2>4, <2>5, <3>1, <3>2, <3>3
  <2> QED
    BY <2>1, <2>3, <2>5, <2>6 DEF Ordered
<1>4. CASE DOMAIN ledger' = DOMAIN ledger /\ chapter' \in Nat /\ chapter <= chapter'
             /\ (pc' = "judged" => judged'.chapter = chapter')
  <2>1. \A i \in DOMAIN ledger : ledger'[i].chapter = ledger[i].chapter /\ ledger[i].chapter <= chapter'
    BY <1>1, <1>2, <1>4 DEF Ordered
  <2> QED
    BY <1>4, <2>1 DEF Ordered
<1>5. ASSUME ~Record
      PROVE  DOMAIN ledger' = DOMAIN ledger /\ chapter' \in Nat /\ chapter <= chapter'
               /\ (pc' = "judged" => judged'.chapter = chapter')
  <2>1. ASSUME NEW n, Deactivate(n)
        PROVE  DOMAIN ledger' = DOMAIN ledger /\ UNCHANGED <<chapter, pc, judged>>
    BY <2>1, DeactivatedIs DEF Deactivate, TypeOK
  <2>2. ASSUME NEW d \in Proposals, Judge(d)
        PROVE  UNCHANGED <<ledger, chapter>> /\ judged'.chapter = chapter
    BY <2>2 DEF Judge
  <2>3. ASSUME NEW n, PlanRewind(n)
        PROVE  UNCHANGED <<ledger, chapter, pc, judged>>
    BY <2>3 DEF PlanRewind
  <2>4. CASE Lose \/ SeedAlias \/ DeclineRewind \/ UNCHANGED vars
    <3>1. UNCHANGED <<ledger, chapter>> /\ (pc' = "judged" => UNCHANGED <<pc, judged>>)
      BY <2>4 DEF Lose, SeedAlias, DeclineRewind, vars
    <3> QED
      BY <1>1, <3>1 DEF Ordered
  <2>5. CASE NextChapter
    <3>1. chapter' = chapter + 1 /\ UNCHANGED ledger /\ pc' # "judged"
      BY <2>5 DEF NextChapter
    <3> QED
      BY <1>1, <3>1
  <2>6. \/ \E n : Deactivate(n) \/ PlanRewind(n)
        \/ \E d \in Proposals : Judge(d)
        \/ Lose \/ SeedAlias \/ DeclineRewind \/ UNCHANGED vars \/ NextChapter
    BY <1>5 DEF Next, Rewind, ConfirmRewind
  <2> QED
    BY <1>1, <2>1, <2>2, <2>3, <2>4, <2>5, <2>6 DEF Ordered
<1> QED
  BY <1>3, <1>4, <1>5

(* What each step does to the rows, the names and the chapter, in terms of *)
(* which the sheets change.                                                *)
LEMMA StepOnLedger ==
  ASSUME TypeOK, [Next]_vars
  PROVE  \/ Record /\ UNCHANGED <<alias, merged, raced, closing, chapter>>
         \/ \E n \in Nat : n <= MaxChapter /\ Deactivate(n)
         \/ UNCHANGED <<ledger, alias, merged, raced, closing>>
              /\ ((\E d \in Proposals : Judge(d)) \/ pc' # "judged" \/ UNCHANGED <<pc, judged>>)
         \/ SeedAlias
         \/ NextChapter
<1>1. \A n \in 0..MaxChapter : n \in Nat /\ n <= MaxChapter
  BY LimitsAssumption
<1>2. CASE Record
  BY <1>2 DEF Record
<1>3. ASSUME NEW n \in 0..MaxChapter, Rewind(n) \/ PlanRewind(n)
      PROVE  \/ \E m \in Nat : m <= MaxChapter /\ Deactivate(m)
             \/ UNCHANGED <<ledger, alias, merged, raced, closing>> /\ UNCHANGED <<pc, judged>>
  BY <1>1, <1>3 DEF Rewind, PlanRewind
<1>4. ASSUME ConfirmRewind
      PROVE  \E n \in Nat : n <= MaxChapter /\ Deactivate(n)
  <2>1. plan.through \in 0..MaxChapter /\ Deactivate(plan.through)
    BY <1>4 DEF ConfirmRewind, TypeOK
  <2> QED
    BY <1>1, <2>1
<1>5. ASSUME Lose \/ DeclineRewind \/ UNCHANGED vars
      PROVE  UNCHANGED <<ledger, alias, merged, raced, closing>>
               /\ (pc' # "judged" \/ UNCHANGED <<pc, judged>>)
  BY <1>5 DEF Lose, DeclineRewind, vars
<1>6. ASSUME NEW d \in Proposals, Judge(d)
      PROVE  UNCHANGED <<ledger, alias, merged, raced, closing>>
  BY <1>6 DEF Judge
<1> QED
  BY <1>2, <1>3, <1>4, <1>5, <1>6 DEF Next

(* What a row that counts was judged on is legal, whatever happens next.   *)
LEMMA LegalStep ==
  ASSUME TypeOK, Room, Ordered, RowsLegal, JudgedLegal, [Next]_vars
  PROVE  RowsLegal' /\ JudgedLegal'
<1> DEFINE len == Len(ledger)
<1>1. /\ ledger \in Seq(Row) /\ DOMAIN ledger = 1..len /\ len \in Nat
      /\ \A i \in 1..len : ledger[i] \in Row
  BY LenProperties, ElementOfSeq DEF TypeOK
<1>2. CASE Record /\ UNCHANGED <<alias, merged, raced, closing, chapter>>
  <2>1. judged \in Row /\ ledger' = Append(ledger, judged) /\ pc = "judged" /\ pc' = "idle"
    BY <1>2 DEF Record, TypeOK
  <2>2. /\ Len(ledger') = len + 1 /\ ledger'[len + 1] = judged
        /\ \A i \in 1..len : ledger'[i] = ledger[i]
    BY <1>1, <2>1, AppendProperties
  <2>3. \A i \in 0..len : Sheets(alias, ledger')[i] = Sheets(alias, ledger)[i]
    BY <1>1, <2>1, SheetsAppend
  <2>4. ASSUME ~raced, ~merged, NEW i \in 1..(len + 1)
        PROVE  Legal(alias, Sheets(alias, ledger')[i - 1], ledger'[i])
    <3>1. CASE i \in 1..len
      <4>1. i - 1 \in 0..len
        BY <1>1, <3>1
      <4> QED
        BY <2>2, <2>3, <2>4, <3>1, <4>1 DEF RowsLegal
    <3>2. CASE i = len + 1
      <4>1. i - 1 = len /\ len \in 0..len
        BY <1>1, <3>2
      <4> QED
        BY <2>1, <2>2, <2>3, <2>4, <3>2, <4>1 DEF JudgedLegal
    <3> QED
      BY <1>1, <3>1, <3>2
  <2> QED
    BY <1>2, <2>1, <2>2, <2>4 DEF RowsLegal, JudgedLegal
<1>3. ASSUME NEW n \in Nat, Deactivate(n)
      PROVE  RowsLegal' /\ JudgedLegal'
  <2>1. /\ ledger' = Deactivated(n) /\ UNCHANGED <<alias, pc, judged, merged>>
        /\ raced' = (raced \/ (pc = "judged" /\ ledger' # ledger))
    BY <1>3 DEF Deactivate
  <2>2. PICK k \in 0..len :
          /\ \A i \in 1..len : i <= k <=> ledger[i].chapter <= n
          /\ \A i \in 0..len :
               Sheets(alias, Deactivated(n))[i] = Sheets(alias, ledger)[IF i <= k THEN i ELSE k]
    BY Cut
  <2>3. Len(ledger') = len
    BY <1>1, <2>1, DeactivatedIs, LenProperties
  <2>4. ASSUME ~raced, ~merged, NEW i \in 1..len
        PROVE  Legal(alias, Sheets(alias, ledger')[i - 1], ledger'[i])
    <3>1. CASE i <= k
      <4>1. ledger'[i] = ledger[i]
        BY <1>1, <2>1, <2>2, <3>1, StruckIs, DeactivatedIsStruck
      <4>2. i - 1 \in 0..len /\ i - 1 <= k
        BY <1>1, <2>2, <3>1
      <4>3. Sheets(alias, ledger')[i - 1] = Sheets(alias, ledger)[i - 1]
        BY <2>1, <2>2, <4>2
      <4> QED
        BY <2>4, <4>1, <4>3 DEF RowsLegal
    <3>2. CASE ~(i <= k)
      <4>1. ledger[i].chapter \in Nat
        BY <1>1, LimitsAssumption, RowIs
      <4>2. ledger[i].chapter > n
        BY <2>2, <3>2, <4>1
      <4>3. ledger'[i].verdict # "applied"
        BY <1>1, <2>1, <4>2, StruckIs, DeactivatedIsStruck
      <4> QED
        BY <4>3 DEF Legal
    <3> QED
      BY <3>1, <3>2
  <2>5. RowsLegal'
    BY <2>1, <2>3, <2>4 DEF RowsLegal
  <2>6. JudgedLegal'
    <3>1. CASE ledger' = ledger
      BY <2>1, <3>1 DEF JudgedLegal
    <3>2. CASE ledger' # ledger
      BY <2>1, <3>2 DEF JudgedLegal
    <3> QED
      BY <3>1, <3>2
  <2> QED
    BY <2>5, <2>6
<1>4. ASSUME NEW d \in Proposals, Judge(d)
      PROVE  RowsLegal' /\ JudgedLegal'
  <2>1. /\ UNCHANGED <<ledger, alias, raced, merged>>
        /\ judged'.verdict = validate_delta(d) /\ judged'.delta = d
    BY <1>4 DEF Judge
  <2>2. validate_delta(d) = "applied" =>
          FieldVerdict(Sheets(alias, ledger)[Len(ledger)][alias[d.subject]], d) = "applied"
    BY SnapshotIs DEF validate_delta, resolve
  <2> QED
    BY <2>1, <2>2 DEF RowsLegal, JudgedLegal, Legal
<1>5. CASE UNCHANGED <<ledger, alias, merged, raced>> /\ (pc' # "judged" \/ UNCHANGED <<pc, judged>>)
  BY <1>5 DEF RowsLegal, JudgedLegal
<1>6. CASE SeedAlias
  <2>1. merged' = TRUE /\ UNCHANGED pc /\ raced' = (raced \/ pc = "judged")
    BY <1>6 DEF SeedAlias
  <2> QED
    BY <2>1 DEF RowsLegal, JudgedLegal
<1>7. CASE NextChapter
  <2>1. UNCHANGED <<ledger, alias, merged, raced, pc, judged>>
    BY <1>7 DEF NextChapter
  <2> QED
    BY <1>5, <2>1
<1> QED
  BY <1>2, <1>3, <1>4, <1>5, <1>6, <1>7, StepOnLedger

-----------------------------------------------------------------------------
(* Rewinding is free.                                                      *)

(* No step changes what a rewind to a finished chapter would give, or the  *)
(* sheets of that chapter are changed with it.                             *)
LEMMA RestoredStep ==
  ASSUME TypeOK, Room, Ordered, Restored, [Next]_vars
  PROVE  Restored'
<1> DEFINE len == Len(ledger)
           At(n) == Sheets(alias, Struck(ledger, n))[len]
<1>1. /\ ledger \in Seq(Row) /\ DOMAIN ledger = 1..len /\ len \in Nat
      /\ \A i \in 1..len : ledger[i] \in Row
  BY LenProperties, ElementOfSeq DEF TypeOK
<1>2. chapter \in Nat /\ DOMAIN closing = 0..(chapter - 1) /\ \A n \in DOMAIN closing : n \in Nat
  BY LimitsAssumption DEF TypeOK
<1>3. ~merged => \A n \in DOMAIN closing : At(n) = closing[n]
  BY DeactivatedIsStruck DEF Restored
<1>4. SUFFICES ASSUME ~merged', NEW n \in DOMAIN closing'
               PROVE  Sheets(alias', Struck(ledger', n))[Len(ledger')] = closing'[n]
  BY DeactivatedIsStruck DEF Restored
<1>5. CASE Record /\ UNCHANGED <<alias, merged, raced, closing, chapter>>
  <2>1. /\ judged \in Row /\ ledger' = Append(ledger, judged) /\ pc = "judged"
        /\ judged.chapter = chapter
    BY <1>5 DEF Record, TypeOK, Ordered
  <2>2. n \in Nat /\ chapter > n /\ n \in DOMAIN closing
    BY <1>2, <1>4, <1>5
  <2> DEFINE old == Struck(ledger, n)
             new == Struck(ledger', n)
  <2>3. ledger' \in Seq(Row) /\ Len(ledger') = len + 1 /\ ledger'[len + 1] = judged
        /\ \A i \in 1..len : ledger'[i] = ledger[i]
    BY <1>1, <2>1, AppendProperties
  <2>4. /\ Len(old) = len
        /\ \A i \in 1..len : /\ ledger[i].chapter <= n => old[i] = ledger[i]
                             /\ ledger[i].chapter > n => old[i].verdict # "applied"
    BY <1>1, <2>2, StruckIs
  <2>5. /\ Len(new) = len + 1
        /\ \A i \in 1..(len + 1) : /\ ledger'[i].chapter <= n => new[i] = ledger'[i]
                                   /\ ledger'[i].chapter > n => new[i].verdict # "applied"
    BY <2>2, <2>3, StruckIs
  <2> HIDE DEF old, new
  <2>6. new[len + 1].verdict # "applied"
    BY <1>1, <2>1, <2>2, <2>3, <2>5
  <2>7. ASSUME NEW i \in 1..len
        PROVE  Alike(new[i], old[i])
    <3>1. i \in 1..(len + 1) /\ ledger'[i] = ledger[i] /\ ledger[i].chapter \in Nat
      BY <1>1, <2>3, LimitsAssumption, RowIs
    <3>2. CASE ledger[i].chapter <= n
      BY <2>4, <2>5, <3>1, <3>2 DEF Alike
    <3>3. CASE ledger[i].chapter > n
      BY <2>4, <2>5, <3>1, <3>3 DEF Alike
    <3> QED
      BY <2>2, <3>1, <3>2, <3>3
  <2>8. Sheets(alias, new)[len] = Sheets(alias, old)[len]
    <3>1. Len(new) \in Nat /\ Len(old) \in Nat /\ len <= Len(new) /\ len <= Len(old) /\ len \in 0..len
      BY <1>1, <2>4, <2>5
    <3>2. Agree(new, old, len)
      BY <2>7 DEF Agree
    <3> HIDE DEF len
    <3> QED
      BY <1>1, <3>1, <3>2, SameSheets
  <2>9. Sheets(alias, new)[len + 1] = Sheets(alias, new)[len]
    <3>1. Len(new) \in Nat /\ len + 1 \in 1..Len(new) /\ (len + 1) - 1 = len
      BY <1>1, <2>5
    <3>2. Sheets(alias, new)[len + 1] = Applied(alias, Sheets(alias, new)[(len + 1) - 1], new[len + 1])
      BY <3>1, SheetsAre
    <3> QED
      BY <2>6, <3>1, <3>2 DEF Applied
  <2> QED
    BY <1>3, <1>4, <1>5, <2>2, <2>3, <2>8, <2>9 DEF old, new
<1>6. ASSUME NEW m \in Nat, Deactivate(m)
      PROVE  Sheets(alias', Struck(ledger', n))[Len(ledger')] = closing'[n]
  <2>1. /\ ledger' = Struck(ledger, m) /\ UNCHANGED <<alias, merged>>
        /\ DOMAIN closing' = DOMAIN closing
        /\ closing' = [c \in DOMAIN closing |-> IF c <= m THEN closing[c] ELSE closing[m]]
    BY <1>6, DeactivatedIsStruck DEF Deactivate
  <2>2. n \in DOMAIN closing /\ n \in Nat
    BY <1>2, <1>4, <2>1
  <2> DEFINE q == IF n <= m THEN n ELSE m
  <2>3. q \in DOMAIN closing /\ closing'[n] = closing[q]
    BY <1>2, <2>1, <2>2
  <2>4. Len(ledger') = len
    BY <1>1, <2>1, StruckIs
  <2>5. Sheets(alias, Struck(ledger', n))[len] = Sheets(alias, Struck(ledger, q))[len]
    BY <1>1, <2>1, <2>2, StruckTwice
  <2> HIDE DEF q
  <2> QED
    BY <1>3, <1>4, <2>1, <2>3, <2>4, <2>5
<1>7. CASE UNCHANGED <<ledger, alias, merged, closing>>
  BY <1>3, <1>4, <1>7
<1>8. CASE SeedAlias
  BY <1>4, <1>8 DEF SeedAlias
<1>9. CASE NextChapter
  <2>1. /\ UNCHANGED <<ledger, alias, merged>> /\ DOMAIN closing' = 0..chapter
        /\ closing' = [c \in 0..chapter |-> IF c = chapter THEN snapshot ELSE closing[c]]
    BY <1>9 DEF NextChapter
  <2>2. CASE n # chapter
    <3>1. n \in DOMAIN closing /\ closing'[n] = closing[n]
      BY <1>2, <1>4, <2>1, <2>2
    <3> QED
      BY <1>3, <1>4, <2>1, <3>1
  <2>3. CASE n = chapter
    <3>1. \A i \in 1..len : ledger[i].chapter <= chapter
      BY <1>1 DEF Ordered
    <3>2. Len(Struck(ledger, chapter)) = len /\ \A i \in 1..len : Struck(ledger, chapter)[i] = ledger[i]
      BY <1>1, <1>2, <3>1, StruckIs
    <3>3. Sheets(alias, Struck(ledger, chapter))[len] = Sheets(alias, ledger)[len]
      <4> DEFINE all == Struck(ledger, chapter)
      <4>1. len \in Nat /\ Len(all) = len /\ Len(ledger) = len /\ len <= len /\ len \in 0..len
        BY <1>1, <3>2
      <4>2. Agree(all, ledger, len)
        BY <3>2 DEF Agree, Alike
      <4> HIDE DEF all, len
      <4>3. Sheets(alias, all)[len] = Sheets(alias, ledger)[len]
        BY <4>1, <4>2, SameSheets
      <4> QED
        BY <4>3 DEF all
    <3>4. closing'[n] = Sheets(alias, ledger)[len]
      BY <1>2, <2>1, <2>3, SnapshotIs
    <3> QED
      BY <2>1, <2>3, <3>3, <3>4
  <2> QED
    BY <2>2, <2>3
<1> HIDE DEF At
<1> QED
  BY <1>5, <1>6, <1>7, <1>8, <1>9, StepOnLedger

-----------------------------------------------------------------------------
(* The bounds.                                                             *)

(* The fields that never shrink, and those that are never negative.        *)
Growing == {"level", "xp"}
Bounded == InventoryFields \cup {"hp", "level", "xp"}

(* These fields are counted ones, and no other kind.                       *)
LEMMA FieldKinds ==
  /\ Growing \subseteq Bounded /\ Bounded \subseteq Fields
  /\ \A f \in Bounded : f \in CountFields /\ f \notin BadSlots /\ f \notin BadTraits
                        /\ f \notin StrangeFields /\ f \notin TextFields
<1>1. Bounded \subseteq CountFields
  BY DEF Bounded, CountFields, NumericFields
<1>2. \A f \in CountFields : f \notin BadSlots /\ f \notin BadTraits /\ f \notin StrangeFields
  BY FieldsAssumption DEF FieldsAssumption
<1>3. \A f \in CountFields : f \notin TextFields
  BY FieldsAssumption DEF FieldsAssumption, CountFields
<1> QED
  BY <1>1, <1>2, <1>3 DEF Growing, Bounded, Fields

(* The gate and the fold agree on a change: what the gate lets through is  *)
(* not negative and, for levels and experience, not less than before.      *)
LEMMA GateKeepsBounds ==
  ASSUME NEW sheet \in [Fields -> Value], NEW d \in Delta,
         FieldVerdict(sheet, d) = "applied", ~Wraps(d),
         d.field \in Bounded, sheet[d.field].is # "txt", number(sheet[d.field]) >= 0
  PROVE  LET new == Effect(sheet[d.field], d) IN
         /\ new.is # "txt" /\ number(new) >= 0
         /\ d.field \in Growing => number(new) >= number(sheet[d.field])
         /\ d.num \in I64
         /\ d.op = "set" => d.num >= 0 /\ (d.field \in Growing => d.num >= number(sheet[d.field]))
         /\ d.op = "add" /\ d.field \in Growing => d.num >= 0
         /\ d.op = "sub" /\ d.field \in Growing => d.num <= 0
         /\ d.field = "hp" /\ sheet["max_hp"].is = "num" => number(new) <= sheet["max_hp"].n
<1> DEFINE old == sheet[d.field]
           new == Effect(old, d)
           current == number(old)
           next == Proposed(current, d)
<1>1. d.op \in {"set", "add", "sub"} /\ d.num \in I64 \cup {NoNum}
  BY DEF Delta
<1>2. IntMin \in Int /\ IntMax \in Int /\ IntMin < 0 /\ IntMax = -(IntMin + 1) /\ NoNum \notin I64
  BY WidthAssumption DEF WidthAssumption
<1>3. FieldVerdict(sheet, d) = CountVerdict(sheet, d)
  <2>1. d.field \notin BadSlots /\ d.field \notin BadTraits /\ d.field \notin StrangeFields
          /\ d.field \notin TextFields
    BY FieldKinds
  <2> QED
    BY <2>1 DEF FieldVerdict
<1>4. /\ d.num # NoNum /\ ~BelowZero(d, next) /\ ~Regresses(d, current, next)
      /\ ~AboveMax(sheet, d, next)
  BY <1>3 DEF CountVerdict
<1>5. d.num \in I64 /\ d.num \in Int /\ d.num >= IntMin /\ d.num <= IntMax
  BY <1>1, <1>2, <1>4 DEF I64
<1>6. old \in Value /\ (old = Absent \/ (old.is = "num" /\ old.n \in I64 /\ old = Num(old.n)))
  <2>1. old \in Value
    BY FieldKinds
  <2> QED
    BY <2>1, ValueIs
<1>7. current \in I64 /\ current \in Int /\ current >= 0 /\ current <= IntMax
  <2>1. CASE old = Absent
    BY <1>2, <2>1 DEF number, Absent, I64
  <2>2. CASE old.is = "num" /\ old.n \in I64
    BY <1>2, <2>2 DEF number, I64
  <2> QED
    BY <1>6, <2>1, <2>2
<1>8. next >= 0 /\ (d.field \in Growing => next >= current) /\ next \in Int
  <2>1. next \in Int
    BY <1>1, <1>2, <1>5, <1>7 DEF Proposed, Saturated
  <2>2. d.field \in Growing => next >= current
    BY <1>4, <1>7, <2>1 DEF Regresses, Growing
  <2>3. d.field \notin Growing => next >= 0
    BY <1>4, <2>1 DEF BelowZero, Growing, Bounded
  <2> QED
    BY <1>7, <2>1, <2>2, <2>3
<1>9. new = Num(next)
  <2>1. CASE d.op = "set"
    BY <1>4, <2>1 DEF Effect, Proposed
  <2>2. CASE d.op = "add"
    <3>1. Signed(d) = d.num /\ next = Saturated(current + d.num)
      BY <2>2 DEF Signed, Proposed
    <3>2. CASE old = Absent
      <4>1. current = 0 /\ new = Num(Signed(d))
        BY <1>4, <2>2, <3>2 DEF number, Absent, Effect
      <4> QED
        BY <1>2, <1>5, <3>1, <4>1 DEF Saturated
    <3>3. CASE old.is = "num"
      BY <1>4, <2>2, <3>1, <3>3 DEF Effect, number
    <3> QED
      BY <1>6, <3>2, <3>3
  <2>3. CASE d.op = "sub"
    <3>1. d.num # IntMin
      BY <2>3 DEF Wraps
    <3>2. Signed(d) = -d.num /\ next = Saturated(current - d.num)
      BY <2>3, <3>1 DEF Signed, Negated, Proposed
    <3>3. CASE old = Absent
      <4>1. current = 0 /\ new = Num(Signed(d))
        BY <1>4, <2>3, <3>3 DEF number, Absent, Effect
      <4> QED
        BY <1>2, <1>5, <3>1, <3>2, <4>1 DEF Saturated
    <3>4. CASE old.is = "num"
      <4>1. new = Num(Saturated(current + (-d.num)))
        BY <1>4, <2>3, <3>2, <3>4 DEF Effect, number
      <4>2. current + (-d.num) = current - d.num
        BY <1>5, <1>7
      <4> QED
        BY <3>2, <4>1, <4>2
    <3> QED
      BY <1>6, <3>3, <3>4
  <2> QED
    BY <1>1, <2>1, <2>2, <2>3
<1>10. new.is = "num" /\ number(new) = next
  BY <1>9 DEF Num, number
<1>11. d.op = "set" => d.num >= 0 /\ (d.field \in Growing => d.num >= current)
  BY <1>8 DEF Proposed
<1>12. d.op = "add" /\ d.field \in Growing => d.num >= 0
  <2> SUFFICES ASSUME d.op = "add", d.field \in Growing, d.num < 0
               PROVE  FALSE
    BY <1>5
  <2>1. Saturated(current + d.num) < current
    BY <1>2, <1>5, <1>7 DEF Saturated
  <2>2. next = Saturated(current + d.num)
    BY DEF Proposed
  <2> QED
    BY <1>7, <1>8, <2>1, <2>2
<1>13. d.op = "sub" /\ d.field \in Growing => d.num <= 0
  <2> SUFFICES ASSUME d.op = "sub", d.field \in Growing, d.num > 0
               PROVE  FALSE
    BY <1>5
  <2>1. Saturated(current - d.num) < current
    BY <1>2, <1>5, <1>7 DEF Saturated
  <2>2. next = Saturated(current - d.num)
    BY DEF Proposed
  <2> QED
    BY <1>7, <1>8, <2>1, <2>2
<1>14. d.field = "hp" /\ sheet["max_hp"].is = "num" => next <= sheet["max_hp"].n
  <2> SUFFICES ASSUME d.field = "hp", sheet["max_hp"].is = "num"
               PROVE  next <= sheet["max_hp"].n
    OBVIOUS
  <2>1. sheet["max_hp"] \in Value
    BY DEF Fields, CountFields, NumericFields
  <2>2. sheet["max_hp"].n \in Int
    BY <1>2, <2>1, ValueIs DEF I64
  <2>3. ~(next > sheet["max_hp"].n)
    BY <1>4 DEF AboveMax
  <2> QED
    BY <1>8, <2>2, <2>3
<1> QED
  BY <1>5, <1>8, <1>10, <1>11, <1>12, <1>13, <1>14

(* Rows that are legal, each on the sheets before it, and do not wrap keep *)
(* the sheets within their bounds.                                         *)
LEMMA LegalRowsKeepBounds ==
  ASSUME NEW names \in [Subjects -> Subjects], NEW rows \in Seq(Row),
         \A i \in 1..Len(rows) : Legal(names, Sheets(names, rows)[i - 1], rows[i]),
         \A i \in 1..Len(rows) : rows[i].verdict = "applied" => ~Wraps(rows[i].delta)
  PROVE  \A i \in 0..Len(rows) : Within(Sheets(names, rows)[i])
<1> DEFINE g == Sheets(names, rows)
           n == Len(rows)
           Bad == {i \in 0..n : ~Within(g[i])}
<1> SUFFICES ASSUME Bad # {} PROVE FALSE
  OBVIOUS
<1>1. /\ n \in Nat /\ \A i \in 1..n : rows[i] \in Row
      /\ \A i \in 0..n : g[i] \in AllSheets
      /\ g[0] = Blank /\ \A i \in 1..n : g[i] = Applied(names, g[i - 1], rows[i])
  BY LenProperties, ElementOfSeq, SheetsAre, SheetsTyped
<1>2. \A i \in 1..n : Legal(names, g[i - 1], rows[i])
  OBVIOUS
<1> HIDE DEF g
<1>3. PICK m \in Bad : \A k \in Bad : m <= k
  <2>1. Bad \in SUBSET Nat
    BY <1>1
  <2> HIDE DEF Bad
  <2> QED
    BY <2>1, Least
<1>4. Within(Blank)
  <2>1. \A s \in Subjects, f \in Fields : Blank[s][f].is # "txt" /\ number(Blank[s][f]) = 0
    BY BlankIs DEF Absent, number
  <2> QED
    BY <2>1, FieldKinds DEF Within, Bounded
<1>5. m \in 1..n /\ m - 1 \in 0..n /\ m - 1 \notin Bad
  <2>1. m \in 0..n /\ m # 0
    BY <1>1, <1>4
  <2>2. m - 1 \in 0..n /\ ~(m <= m - 1) /\ m \in 1..n
    BY <1>1, <2>1
  <2> HIDE DEF Bad
  <2> QED
    BY <1>3, <2>2
<1>6. Within(g[m - 1]) /\ g[m - 1] \in AllSheets
  BY <1>1, <1>5
<1> DEFINE row == rows[m]
           d == row.delta
           snap == g[m - 1]
           p == names[d.subject]
<1>7. row \in Row /\ d \in Delta /\ d.subject \in Subjects /\ d.field \in Fields
  <2>1. row \in Row
    BY <1>1, <1>5
  <2>2. d \in Delta
    BY <2>1, RowIs
  <2> QED
    BY <2>1, <2>2 DEF Delta
<1>8. \A s \in Subjects, f \in Fields :
        g[m][s][f] = IF row.verdict = "applied" /\ s = p /\ f = d.field
                     THEN Effect(snap[s][f], d) ELSE snap[s][f]
  <2>1. g[m] = Applied(names, snap, row) /\ snap \in AllSheets
    BY <1>1, <1>5, <1>6
  <2>2. row \in Row
    BY <1>7
  <2> HIDE DEF snap, row
  <2>3. \A s \in Subjects, f \in Fields :
          Applied(names, snap, row)[s][f] =
            IF /\ row.verdict = "applied"
               /\ s = names[row.delta.subject] /\ f = row.delta.field
            THEN Effect(snap[s][f], row.delta) ELSE snap[s][f]
    BY <2>1, <2>2, AppliedIs
  <2> QED
    BY <2>1, <2>3
<1>9. ASSUME NEW s \in Subjects, NEW f \in Bounded
      PROVE  g[m][s][f].is # "txt" /\ number(g[m][s][f]) >= 0
  <2>1. f \in Fields /\ snap[s][f].is # "txt" /\ number(snap[s][f]) >= 0
    BY <1>6, FieldKinds DEF Within, Bounded
  <2>2. CASE row.verdict = "applied" /\ s = p /\ f = d.field
    <3>1. FieldVerdict(snap[p], d) = "applied" /\ ~Wraps(d)
      BY <1>2, <1>5, <2>2 DEF Legal
    <3>2. snap[p] \in [Fields -> Value]
      BY <1>6, <2>2 DEF AllSheets
    <3> HIDE DEF snap, d, p
    <3>3. Effect(snap[p][d.field], d).is # "txt" /\ number(Effect(snap[p][d.field], d)) >= 0
      BY <1>7, <2>1, <2>2, <3>1, <3>2, GateKeepsBounds
    <3> QED
      BY <1>8, <2>1, <2>2, <3>3
  <2>3. CASE ~(row.verdict = "applied" /\ s = p /\ f = d.field)
    <3>1. g[m][s][f] = snap[s][f]
      BY <1>8, <2>1, <2>3
    <3> HIDE DEF snap
    <3> QED
      BY <2>1, <3>1
  <2> QED
    BY <2>2, <2>3
<1>10. Within(g[m])
  BY <1>9 DEF Within, Bounded
<1> QED
  BY <1>3, <1>10

(* The same rows keep hit points within a maximum that was written before  *)
(* them.                                                                   *)
Writing(names, row, s, f) ==
  row.verdict = "applied" /\ names[row.delta.subject] = s /\ row.delta.field = f

OutgrownBy(names, rows, j, s) ==
  \E k \in 1..j : /\ Writing(names, rows[k], s, "max_hp")
                  /\ \A i \in 1..j : Writing(names, rows[i], s, "hp") => i < k

Capped(names, rows, snap, j) ==
  \A s \in Subjects :
    /\ snap[s]["hp"].is = "num" /\ snap[s]["max_hp"].is = "num"
    /\ ~OutgrownBy(names, rows, j, s)
    => snap[s]["hp"].n <= snap[s]["max_hp"].n

LEMMA LegalRowsKeepMax ==
  ASSUME NEW names \in [Subjects -> Subjects], NEW rows \in Seq(Row),
         \A i \in 1..Len(rows) : Legal(names, Sheets(names, rows)[i - 1], rows[i]),
         \A i \in 1..Len(rows) : rows[i].verdict = "applied" => ~Wraps(rows[i].delta)
  PROVE  \A i \in 0..Len(rows) : Capped(names, rows, Sheets(names, rows)[i], i)
<1> DEFINE g == Sheets(names, rows)
           n == Len(rows)
           Bad == {i \in 0..n : ~Capped(names, rows, g[i], i)}
<1> SUFFICES ASSUME Bad # {} PROVE FALSE
  OBVIOUS
<1>1. /\ n \in Nat /\ \A i \in 1..n : rows[i] \in Row
      /\ \A i \in 0..n : g[i] \in AllSheets /\ Within(g[i])
      /\ g[0] = Blank /\ \A i \in 1..n : g[i] = Applied(names, g[i - 1], rows[i])
  BY LenProperties, ElementOfSeq, SheetsAre, SheetsTyped, LegalRowsKeepBounds
<1>2. \A i \in 1..n : Legal(names, g[i - 1], rows[i])
  OBVIOUS
<1> HIDE DEF g
<1>3. PICK m \in Bad : \A k \in Bad : m <= k
  <2>1. Bad \in SUBSET Nat
    BY <1>1
  <2> HIDE DEF Bad
  <2> QED
    BY <2>1, Least
<1>4. "hp" \in Fields /\ "max_hp" \in Fields /\ "hp" \in Bounded
  BY DEF Fields, CountFields, NumericFields, Bounded
<1>5. Capped(names, rows, Blank, 0)
  <2>1. \A s \in Subjects : Blank[s]["hp"].is # "num"
    BY <1>4, BlankIs DEF Absent
  <2> QED
    BY <2>1 DEF Capped
<1>6. m \in 1..n /\ m - 1 \in 0..n /\ m - 1 \notin Bad
  <2>1. m \in 0..n /\ m # 0
    BY <1>1, <1>5
  <2>2. m - 1 \in 0..n /\ ~(m <= m - 1) /\ m \in 1..n
    BY <1>1, <2>1
  <2> HIDE DEF Bad
  <2> QED
    BY <1>3, <2>2
<1>7. Capped(names, rows, g[m - 1], m - 1) /\ Within(g[m - 1]) /\ g[m - 1] \in AllSheets
  BY <1>1, <1>6
<1> DEFINE row == rows[m]
           d == row.delta
           snap == g[m - 1]
<1>8. row \in Row /\ d \in Delta
  BY <1>1, <1>6, RowIs
<1>9. \A s \in Subjects, f \in Fields :
        g[m][s][f] = IF Writing(names, row, s, f) THEN Effect(snap[s][f], d) ELSE snap[s][f]
  <2>1. g[m] = Applied(names, snap, row) /\ snap \in AllSheets
    BY <1>1, <1>6, <1>7
  <2>2. row \in Row
    BY <1>8
  <2> HIDE DEF snap, row
  <2>3. \A s \in Subjects, f \in Fields :
          Applied(names, snap, row)[s][f] =
            IF /\ row.verdict = "applied"
               /\ s = names[row.delta.subject] /\ f = row.delta.field
            THEN Effect(snap[s][f], row.delta) ELSE snap[s][f]
    BY <2>1, <2>2, AppliedIs
  <2> QED
    BY <2>1, <2>3 DEF Writing
<1>10. ASSUME NEW s \in Subjects, g[m][s]["hp"].is = "num", g[m][s]["max_hp"].is = "num",
              ~OutgrownBy(names, rows, m, s)
       PROVE  g[m][s]["hp"].n <= g[m][s]["max_hp"].n
  <2>1. ~Writing(names, row, s, "max_hp")
    <3> SUFFICES ASSUME Writing(names, row, s, "max_hp") PROVE OutgrownBy(names, rows, m, s)
      BY <1>10
    <3>1. \A i \in 1..m : Writing(names, rows[i], s, "hp") => i < m
      <4>1. ~Writing(names, rows[m], s, "hp")
        BY DEF Writing
      <4> QED
        BY <1>6, <4>1
    <3>2. m \in 1..m
      BY <1>6
    <3> QED
      BY <3>1, <3>2 DEF OutgrownBy
  <2>2. g[m][s]["max_hp"] = snap[s]["max_hp"]
    BY <1>4, <1>9, <2>1
  <2>3. CASE ~Writing(names, row, s, "hp")
    <3>1. g[m][s]["hp"] = snap[s]["hp"]
      BY <1>4, <1>9, <2>3
    <3>2. ~OutgrownBy(names, rows, m - 1, s)
      <4> SUFFICES ASSUME NEW k \in 1..(m - 1), Writing(names, rows[k], s, "max_hp"),
                          \A i \in 1..(m - 1) : Writing(names, rows[i], s, "hp") => i < k
                   PROVE  OutgrownBy(names, rows, m, s)
        BY <1>10 DEF OutgrownBy
      <4>1. k \in 1..m /\ \A i \in 1..m : i = m \/ i \in 1..(m - 1)
        BY <1>6
      <4>2. \A i \in 1..m : Writing(names, rows[i], s, "hp") => i < k
        BY <2>3, <4>1
      <4> QED
        BY <4>1, <4>2 DEF OutgrownBy
    <3> HIDE DEF snap
    <3>3. snap[s]["hp"].is = "num" /\ snap[s]["max_hp"].is = "num"
      BY <1>10, <2>2, <3>1
    <3>4. snap[s]["hp"].n <= snap[s]["max_hp"].n
      BY <1>7, <3>2, <3>3 DEF Capped, snap
    <3> QED
      BY <2>2, <3>1, <3>4
  <2>4. CASE Writing(names, row, s, "hp")
    <3>1. FieldVerdict(snap[s], d) = "applied" /\ ~Wraps(d) /\ d.field = "hp"
      BY <1>2, <1>6, <2>4 DEF Legal, Writing
    <3>2. snap[s] \in [Fields -> Value]
      BY <1>7 DEF AllSheets
    <3>3. snap[s]["hp"].is # "txt" /\ number(snap[s]["hp"]) >= 0
      BY <1>7 DEF Within
    <3>4. g[m][s]["hp"] = Effect(snap[s]["hp"], d) /\ snap[s]["max_hp"].is = "num"
      BY <1>4, <1>9, <1>10, <2>2, <2>4
    <3> HIDE DEF snap, d
    <3>5. number(Effect(snap[s]["hp"], d)) <= snap[s]["max_hp"].n
      BY <1>4, <1>8, <3>1, <3>2, <3>3, <3>4, GateKeepsBounds
    <3>6. number(g[m][s]["hp"]) = g[m][s]["hp"].n
      BY <1>10 DEF number
    <3> QED
      BY <2>2, <3>4, <3>5, <3>6
  <2> QED
    BY <2>3, <2>4
<1>11. Capped(names, rows, g[m], m)
  BY <1>10 DEF Capped
<1> QED
  BY <1>3, <1>11

-----------------------------------------------------------------------------
(* Levels and experience.                                                  *)

Counted == {"applied", "rewound"}

(* A change that cannot shrink what is already there.                      *)
Growth(d) ==
  /\ d.num \in I64 /\ ~Wraps(d)
  /\ d.op = "set" => d.num >= 0
  /\ d.op = "add" => d.num >= 0
  /\ d.op = "sub" => d.num <= 0

GrowthRow(row) == row.verdict \in Counted /\ row.delta.field \in Growing => Growth(row.delta)

GrowthRows == ~Wrapped(Counted) => \A i \in 1..Len(ledger) : GrowthRow(ledger[i])

JudgedGrowth ==
  /\ ~Wrapped(Counted) /\ pc = "judged" /\ judged.verdict = "applied"
  /\ ~Wraps(judged.delta) /\ judged.delta.field \in Growing
  => Growth(judged.delta)

(* Levels and experience grow along the rows, even the ones that were      *)
(* recorded after a rewind they had not seen.                              *)
Monotone ==
  ~merged /\ ~Wrapped(Counted) =>
    \A i, j \in 0..Len(ledger) : i <= j =>
      \A s \in Subjects, f \in Growing :
        number(Sheets(alias, ledger)[i][s][f]) <= number(Sheets(alias, ledger)[j][s][f])

JudgedAbove ==
  /\ pc = "judged" /\ ~merged /\ ~Wrapped(Counted) /\ judged.verdict = "applied"
  /\ judged.delta.field \in Growing /\ judged.delta.op = "set"
  => judged.delta.num >=
       number(Sheets(alias, ledger)[Len(ledger)][alias[judged.delta.subject]][judged.delta.field])

Grown == GrowthRows /\ JudgedGrowth /\ Monotone /\ JudgedAbove

(* Absent or a text, a value counts as zero.                               *)
LEMMA NumberIs ==
  ASSUME NEW v \in Value
  PROVE  number(v) \in Int
<1>1. \A n \in I64 : n \in Int
  BY DEF I64
<1> QED
  BY <1>1, ValueIs DEF number, Absent

(* What such a change makes of a value.                                    *)
LEMMA EffectGrows ==
  ASSUME NEW old \in Value, old.is # "txt", number(old) >= 0, NEW d \in Delta, Growth(d)
  PROVE  /\ Effect(old, d).is # "txt" /\ number(Effect(old, d)) >= 0
         /\ d.op = "set" => number(Effect(old, d)) = d.num
         /\ d.op # "set" => number(Effect(old, d)) >= number(old)
<1>1. d.op \in {"set", "add", "sub"} /\ d.num # NoNum
  BY WidthAssumption DEF Delta, Growth, WidthAssumption
<1>2. IntMin \in Int /\ IntMax \in Int /\ IntMin < 0 /\ IntMax = -(IntMin + 1)
  BY WidthAssumption DEF WidthAssumption
<1>3. d.num \in Int /\ d.num >= IntMin /\ d.num <= IntMax
  BY <1>2 DEF Growth, I64
<1>4. CASE d.op = "set"
  <2>1. Effect(old, d) = Num(d.num) /\ d.num >= 0
    BY <1>1, <1>4 DEF Effect, Growth
  <2> QED
    BY <1>4, <2>1 DEF Num, number
<1>5. CASE d.op # "set"
  <2>1. Signed(d) \in Int /\ Signed(d) >= 0 /\ Signed(d) <= IntMax
    BY <1>1, <1>2, <1>3, <1>5 DEF Growth, Wraps, Signed, Negated
  <2>2. CASE old = Absent
    <3>1. Effect(old, d) = Num(Signed(d)) /\ number(old) = 0
      BY <1>1, <1>5, <2>2 DEF Effect, Absent, number
    <3> QED
      BY <1>5, <2>1, <3>1 DEF Num, number
  <2>3. CASE old.is = "num" /\ old.n \in I64
    <3>1. Effect(old, d) = Num(Saturated(old.n + Signed(d))) /\ number(old) = old.n
      BY <1>1, <1>5, <2>3 DEF Effect, number
    <3>2. old.n \in Int /\ old.n <= IntMax /\ old.n >= 0
      BY <1>2, <2>3, <3>1 DEF I64
    <3>3. Saturated(old.n + Signed(d)) >= old.n
      BY <1>2, <2>1, <3>2 DEF Saturated
    <3>4. Saturated(old.n + Signed(d)) \in Int
      BY <1>2, <2>1, <3>2 DEF Saturated
    <3>5. number(Effect(old, d)) = Saturated(old.n + Signed(d)) /\ Effect(old, d).is = "num"
      BY <3>1 DEF Num, number
    <3> QED
      BY <1>5, <3>1, <3>2, <3>3, <3>4, <3>5
  <2> QED
    BY <2>2, <2>3, ValueIs
<1> QED
  BY <1>4, <1>5

(* Induction over the rows: levels and experience are natural numbers.     *)
LEMMA GrowingNatural ==
  ASSUME NEW names \in [Subjects -> Subjects], NEW rows \in Seq(Row),
         \A i \in 1..Len(rows) : GrowthRow(rows[i])
  PROVE  \A i \in 0..Len(rows) : \A s \in Subjects, f \in Growing :
           Sheets(names, rows)[i][s][f].is # "txt" /\ number(Sheets(names, rows)[i][s][f]) >= 0
<1> DEFINE g == Sheets(names, rows)
           n == Len(rows)
           Good(snap) == \A s \in Subjects, f \in Growing :
                           snap[s][f].is # "txt" /\ number(snap[s][f]) >= 0
           Bad == {i \in 0..n : ~Good(g[i])}
<1> SUFFICES ASSUME Bad # {} PROVE FALSE
  OBVIOUS
<1>1. /\ n \in Nat /\ \A i \in 1..n : rows[i] \in Row
      /\ \A i \in 0..n : g[i] \in AllSheets
      /\ g[0] = Blank /\ \A i \in 1..n : g[i] = Applied(names, g[i - 1], rows[i])
  BY LenProperties, ElementOfSeq, SheetsAre, SheetsTyped
<1> HIDE DEF g
<1>2. Good(Blank)
  BY BlankIs, FieldKinds DEF Absent, number
<1>3. PICK m \in Bad : \A k \in Bad : m <= k
  <2>1. Bad \in SUBSET Nat
    BY <1>1
  <2> HIDE DEF Bad
  <2> QED
    BY <2>1, Least
<1>4. m \in 1..n /\ m - 1 \in 0..n /\ m - 1 \notin Bad
  <2>1. m \in 0..n /\ m # 0
    BY <1>1, <1>2
  <2>2. m - 1 \in 0..n /\ ~(m <= m - 1) /\ m \in 1..n
    BY <1>1, <2>1
  <2> HIDE DEF Bad
  <2> QED
    BY <1>3, <2>2
<1> DEFINE row == rows[m]
           snap == g[m - 1]
<1>5. row \in Row /\ snap \in AllSheets /\ Good(snap) /\ GrowthRow(row)
        /\ g[m] = Applied(names, snap, row)
  BY <1>1, <1>4
<1> HIDE DEF row, snap
<1>6. row.delta \in Delta
  BY <1>5, RowIs
<1>7. ASSUME NEW s \in Subjects, NEW f \in Growing
      PROVE  g[m][s][f].is # "txt" /\ number(g[m][s][f]) >= 0
  <2>1. f \in Fields /\ snap[s][f] \in Value /\ snap[s][f].is # "txt" /\ number(snap[s][f]) >= 0
    BY <1>5, FieldKinds DEF AllSheets
  <2>2. g[m][s][f] = IF /\ row.verdict = "applied"
                        /\ s = names[row.delta.subject] /\ f = row.delta.field
                     THEN Effect(snap[s][f], row.delta) ELSE snap[s][f]
    BY <1>5, <2>1, AppliedIs
  <2>3. row.verdict = "applied" /\ f = row.delta.field => Growth(row.delta)
    BY <1>5 DEF GrowthRow, Counted
  <2> QED
    BY <1>6, <2>1, <2>2, <2>3, EffectGrows
<1>8. Good(g[m])
  BY <1>7
<1> QED
  BY <1>3, <1>8

(* A row that wraps stays in the ledger.                                   *)
LEMMA WrappedStays ==
  ASSUME TypeOK, Room, [Next]_vars, ~Wrapped(Counted)'
  PROVE  ~Wrapped(Counted)
BY StepOnRows DEF Wrapped, Counted

(* What the gate has let through is growth.                                *)
LEMMA GateGrows ==
  ASSUME TypeOK, GrowthRows, ~Wrapped(Counted), NEW d \in Delta,
         validate_delta(d) = "applied", d.field \in Growing, ~Wraps(d)
  PROVE  /\ Growth(d)
         /\ d.op = "set" => d.num >= number(snapshot[alias[d.subject]][d.field])
<1>1. ledger \in Seq(Row) /\ alias \in [Subjects -> Subjects] /\ Len(ledger) \in 0..Len(ledger)
  BY LenProperties DEF TypeOK
<1>2. d.subject \in Subjects
  BY DEF Delta
<1> DEFINE sheet == snapshot[alias[d.subject]]
<1>3. /\ sheet \in [Fields -> Value] /\ sheet[d.field].is # "txt" /\ number(sheet[d.field]) >= 0
  <2>1. snapshot = Sheets(alias, ledger)[Len(ledger)] /\ alias[d.subject] \in Subjects
    BY <1>1, <1>2, SnapshotIs
  <2>2. \A i \in 1..Len(ledger) : GrowthRow(ledger[i])
    BY DEF GrowthRows
  <2>3. snapshot \in AllSheets
    BY <1>1, <2>1, SheetsTyped
  <2>4. \A s \in Subjects, f \in Growing : snapshot[s][f].is # "txt" /\ number(snapshot[s][f]) >= 0
    BY <1>1, <2>1, <2>2, GrowingNatural
  <2> QED
    BY <2>1, <2>3, <2>4 DEF AllSheets
<1>4. FieldVerdict(sheet, d) = "applied"
  BY DEF validate_delta, resolve
<1>5. d.field \in Bounded
  BY FieldKinds
<1> HIDE DEF sheet
<1>6. /\ d.num \in I64
      /\ d.op = "set" => d.num >= 0 /\ d.num >= number(sheet[d.field])
      /\ d.op = "add" => d.num >= 0
      /\ d.op = "sub" => d.num <= 0
  BY <1>3, <1>4, <1>5, GateKeepsBounds
<1> QED
  BY <1>6 DEF Growth, sheet

(* A row recorded on the sheets of its growth does not lower any level.    *)
LEMMA RecordGrows ==
  ASSUME TypeOK, Grown, Record, ~merged, ~Wrapped(Counted)'
  PROVE  \A s \in Subjects, f \in Growing :
           number(Sheets(alias, ledger')[Len(ledger) + 1][s][f])
             >= number(Sheets(alias, ledger)[Len(ledger)][s][f])
<1> DEFINE len == Len(ledger)
           snap == Sheets(alias, ledger)[len]
           d == judged.delta
<1>1. /\ ledger \in Seq(Row) /\ len \in Nat /\ alias \in [Subjects -> Subjects]
      /\ judged \in Row /\ judged.verdict # "rewound" /\ ledger' = Append(ledger, judged)
           /\ pc = "judged"
  BY LenProperties DEF TypeOK, Record
<1>2. /\ DOMAIN ledger' = 1..(len + 1) /\ ledger'[len + 1] = judged
      /\ \A i \in 1..len : ledger'[i] = ledger[i]
  BY <1>1, AppendProperties, LenProperties
<1>3. ~Wrapped(Counted) /\ (judged.verdict = "applied" => ~Wraps(d))
  <2>1. DOMAIN ledger = 1..len /\ len + 1 \in 1..(len + 1) /\ \A i \in 1..len : i \in 1..(len + 1)
    BY <1>1, LenProperties
  <2> QED
    BY <1>2, <2>1 DEF Wrapped, Counted
<1>4. snap \in AllSheets /\ \A s \in Subjects, f \in Growing : snap[s][f].is # "txt"
        /\ number(snap[s][f]) >= 0
  <2>1. \A i \in 1..len : GrowthRow(ledger[i])
    BY <1>3 DEF Grown, GrowthRows
  <2>2. len \in 0..len
    BY <1>1
  <2> QED
    BY <1>1, <2>1, <2>2, SheetsTyped, GrowingNatural
<1>5. Sheets(alias, ledger')[len + 1] = Applied(alias, snap, judged)
  BY <1>1, SheetsAppend
<1>6. d \in Delta /\ judged.verdict = "applied" /\ d.field \in Growing =>
        Growth(d) /\ (d.op = "set" => d.num >= number(snap[alias[d.subject]][d.field]))
  BY <1>1, <1>3 DEF Grown, JudgedGrowth, JudgedAbove
<1>7. d \in Delta
  BY <1>1, RowIs
<1> HIDE DEF snap
<1>8. ASSUME NEW s \in Subjects, NEW f \in Growing
      PROVE  number(Applied(alias, snap, judged)[s][f]) >= number(snap[s][f])
  <2>1. f \in Fields /\ snap[s][f] \in Value /\ snap[s][f].is # "txt" /\ number(snap[s][f]) >= 0
    BY <1>4, FieldKinds DEF AllSheets
  <2>2. Applied(alias, snap, judged)[s][f] =
          IF judged.verdict = "applied" /\ s = alias[judged.delta.subject] /\ f = judged.delta.field
          THEN Effect(snap[s][f], judged.delta) ELSE snap[s][f]
    BY <1>1, <1>4, <2>1, AppliedIs
  <2>3. number(snap[s][f]) \in Int
    BY <2>1, NumberIs
  <2>4. CASE judged.verdict = "applied" /\ s = alias[d.subject] /\ f = d.field
    <3>1. Growth(d) /\ (d.op = "set" => d.num >= number(snap[s][f]))
      BY <1>6, <1>7, <2>4
    <3>2. number(Effect(snap[s][f], d)) >= number(snap[s][f])
      BY <1>7, <2>1, <3>1, EffectGrows
    <3> QED
      BY <2>2, <2>4, <3>2
  <2>5. CASE ~(judged.verdict = "applied" /\ s = alias[d.subject] /\ f = d.field)
    BY <2>2, <2>3, <2>5
  <2> QED
    BY <2>4, <2>5
<1> QED
  BY <1>5, <1>8 DEF snap

(* A step keeps the rows growing.                                          *)
LEMMA GrownStep ==
  ASSUME TypeOK, Room, Ordered, Grown, [Next]_vars
  PROVE  Grown'
<1> DEFINE len == Len(ledger)
           g == Sheets(alias, ledger)
           Levels(i, j) == \A s \in Subjects, f \in Growing :
                             number(g[i][s][f]) <= number(g[j][s][f])
<1>1. /\ ledger \in Seq(Row) /\ DOMAIN ledger = 1..len /\ len \in Nat
      /\ alias \in [Subjects -> Subjects] /\ \A i \in 1..len : ledger[i] \in Row
  BY LenProperties, ElementOfSeq DEF TypeOK
<1>2. \A i \in 0..len : \A s \in Subjects, f \in Growing : number(g[i][s][f]) \in Int
  BY <1>1, SheetsTyped, NumberIs, FieldKinds DEF AllSheets
<1>3. SUFFICES ASSUME ~Wrapped(Counted)' PROVE Grown'
  BY DEF Grown, GrowthRows, JudgedGrowth, Monotone, JudgedAbove
<1>4. ~Wrapped(Counted)
  BY <1>3, WrappedStays
<1>5. /\ \A i \in 1..len : GrowthRow(ledger[i])
      /\ ~merged => \A i, j \in 0..len : i <= j => Levels(i, j)
  BY <1>4 DEF Grown, GrowthRows, Monotone
<1>6. /\ DOMAIN ledger' = 1..len => \A i \in 1..len : GrowthRow(ledger'[i])
      /\ \A i \in 1..len : GrowthRow(ledger'[i])
  BY <1>1, <1>5, StepOnRows DEF GrowthRow, Counted
<1>7. CASE Record /\ UNCHANGED <<alias, merged, raced, closing, chapter>>
  <2>1. /\ judged \in Row /\ judged.verdict # "rewound"
        /\ ledger' = Append(ledger, judged) /\ pc = "judged" /\ pc' = "idle"
    BY <1>7 DEF Record, TypeOK
  <2>2. Len(ledger') = len + 1 /\ ledger'[len + 1] = judged /\ DOMAIN ledger' = 1..(len + 1)
    BY <1>1, <2>1, AppendProperties, LenProperties
  <2>3. GrowthRow(judged)
    <3>1. judged.verdict = "applied" => ~Wraps(judged.delta)
      <4>1. len + 1 \in DOMAIN ledger'
        BY <1>1, <2>2
      <4> QED
        BY <1>3, <2>2, <4>1 DEF Wrapped, Counted
    <3> QED
      BY <1>4, <2>1, <3>1 DEF Grown, JudgedGrowth, GrowthRow, Counted
  <2>4. GrowthRows'
    <3>1. \A i \in 1..(len + 1) : i \in 1..len \/ i = len + 1
      BY <1>1
    <3> QED
      BY <1>6, <2>2, <2>3, <3>1 DEF GrowthRows
  <2>5. Monotone'
    <3> SUFFICES ASSUME ~merged, NEW i \in 0..(len + 1), NEW j \in 0..(len + 1), i <= j,
                        NEW s \in Subjects, NEW f \in Growing
                 PROVE  number(Sheets(alias, ledger')[i][s][f]) <= number(Sheets(alias, ledger')[j][s][f])
      BY <1>7, <2>2 DEF Monotone
    <3> DEFINE h == Sheets(alias, ledger')
    <3>1. \A k \in 0..len : h[k] = g[k]
      BY <1>1, <2>1, SheetsAppend
    <3>2. number(h[len + 1][s][f]) >= number(g[len][s][f])
      BY <1>3, <1>7, RecordGrows
    <3>3. ledger' \in Seq(Row) /\ len + 1 \in 0..Len(ledger')
      BY <1>1, <2>1, <2>2, AppendProperties
    <3>4. number(h[len + 1][s][f]) \in Int
      BY <1>1, <3>3, SheetsTyped, NumberIs, FieldKinds DEF AllSheets
    <3> HIDE DEF g, h
    <3>5. CASE j \in 0..len
      <4>1. i \in 0..len
        BY <1>1, <3>5
      <4> QED
        BY <1>5, <3>1, <3>5, <4>1 DEF h
    <3>6. CASE j = len + 1 /\ i \in 0..len
      <4>1. number(g[i][s][f]) <= number(g[len][s][f])
        <5>1. len \in 0..len /\ i <= len
          BY <1>1, <3>6
        <5> QED
          BY <1>5, <3>6, <5>1
      <4>2. number(g[i][s][f]) \in Int /\ number(g[len][s][f]) \in Int
        BY <1>1, <1>2, <3>6
      <4>3. number(h[i][s][f]) <= number(h[j][s][f])
        BY <3>1, <3>2, <3>4, <3>6, <4>1, <4>2
      <4> QED
        BY <4>3 DEF h
    <3>7. CASE j = len + 1 /\ i = len + 1
      BY <3>4, <3>7 DEF h
    <3> QED
      BY <1>1, <3>5, <3>6, <3>7
  <2> QED
    BY <2>1, <2>4, <2>5 DEF Grown, JudgedGrowth, JudgedAbove
<1>8. ASSUME NEW n \in Nat, Deactivate(n)
      PROVE  Grown'
  <2>1. ledger' = Deactivated(n) /\ UNCHANGED <<alias, pc, judged, merged>>
    BY <1>8 DEF Deactivate
  <2>2. PICK k \in 0..len :
          \A i \in 0..len :
            Sheets(alias, Deactivated(n))[i] = Sheets(alias, ledger)[IF i <= k THEN i ELSE k]
    BY Cut
  <2>3. Len(ledger') = len
    BY <1>1, <2>1, DeactivatedIs, LenProperties
  <2>4. GrowthRows' /\ JudgedGrowth'
    BY <1>4, <1>6, <2>1, <2>3 DEF Grown, GrowthRows, JudgedGrowth
  <2> DEFINE cut(i) == IF i <= k THEN i ELSE k
  <2>5. \A i \in 0..len : Sheets(alias, ledger')[i] = g[cut(i)] /\ cut(i) \in 0..len
    BY <1>1, <2>1, <2>2
  <2>6. Monotone'
    <3> SUFFICES ASSUME ~merged, NEW i \in 0..len, NEW j \in 0..len, i <= j
                 PROVE  \A s \in Subjects, f \in Growing :
                          number(Sheets(alias, ledger')[i][s][f]) <= number(Sheets(alias, ledger')[j][s][f])
      BY <2>1, <2>3 DEF Monotone
    <3>1. cut(i) <= cut(j)
      BY <1>1
    <3>2. Levels(cut(i), cut(j))
      <4> HIDE DEF cut, g
      <4> QED
        BY <1>5, <2>5, <3>1
    <3> HIDE DEF cut, g
    <3> QED
      BY <2>5, <3>2
  <2>7. JudgedAbove'
    <3> SUFFICES ASSUME pc = "judged", ~merged, judged.verdict = "applied",
                        judged.delta.field \in Growing, judged.delta.op = "set"
                 PROVE  judged.delta.num >=
                          number(Sheets(alias, ledger')[len][alias[judged.delta.subject]][judged.delta.field])
      BY <2>1, <2>3 DEF JudgedAbove
    <3> DEFINE p == alias[judged.delta.subject]
               f == judged.delta.field
    <3>1. judged.delta.num >= number(g[len][p][f])
      BY <1>4 DEF Grown, JudgedAbove
    <3>2. len \in 0..len /\ cut(len) \in 0..len /\ cut(len) <= len
      BY <1>1
    <3>3. judged \in Row /\ judged.delta \in Delta
      BY RowIs DEF TypeOK
    <3>4. p \in Subjects
      BY <1>1, <3>3 DEF Delta
    <3>5. judged.delta.num \in Int
      <4>1. ~Wraps(judged.delta)
        BY DEF Wraps
      <4>2. Growth(judged.delta)
        BY <1>4, <4>1 DEF Grown, JudgedGrowth
      <4> QED
        BY <4>2, WidthAssumption DEF Growth, I64
    <3> HIDE DEF p, f, cut, g
    <3>6. number(g[cut(len)][p][f]) <= number(g[len][p][f])
      <4>1. f \in Growing
        BY DEF f
      <4> QED
        BY <1>5, <3>2, <3>4, <4>1
    <3>7. number(g[cut(len)][p][f]) \in Int /\ number(g[len][p][f]) \in Int
      <4>1. f \in Growing
        BY DEF f
      <4> QED
        BY <1>2, <3>2, <3>4, <4>1
    <3>8. judged.delta.num >= number(g[cut(len)][p][f])
      BY <3>1, <3>5, <3>6, <3>7
    <3>9. Sheets(alias, ledger')[len] = g[cut(len)]
      BY <2>5, <3>2
    <3> QED
      BY <3>8, <3>9 DEF p, f
  <2> QED
    BY <2>4, <2>6, <2>7 DEF Grown
<1>9. ASSUME NEW d \in Proposals, Judge(d)
      PROVE  Grown'
  <2>1. /\ UNCHANGED <<ledger, alias, raced, merged>>
        /\ judged'.verdict = validate_delta(d) /\ judged'.delta = d
    BY <1>9 DEF Judge
  <2>2. d \in Delta
    BY FieldsAssumption DEF FieldsAssumption
  <2>3. validate_delta(d) = "applied" /\ d.field \in Growing /\ ~Wraps(d) =>
          Growth(d) /\ (d.op = "set" => d.num >= number(snapshot[alias[d.subject]][d.field]))
    BY <1>4, <2>2, GateGrows DEF Grown
  <2>4. d.op = "set" => ~Wraps(d)
    BY DEF Wraps
  <2>5. GrowthRows' /\ Monotone'
    BY <2>1 DEF Grown, GrowthRows, Monotone, Wrapped
  <2>6. JudgedGrowth'
    BY <2>1, <2>3 DEF JudgedGrowth
  <2>7. JudgedAbove'
    <3>1. snapshot = Sheets(alias, ledger)[Len(ledger)]
      BY SnapshotIs
    <3> QED
      BY <2>1, <2>3, <2>4, <3>1 DEF JudgedAbove
  <2> QED
    BY <2>5, <2>6, <2>7 DEF Grown
<1>10. CASE UNCHANGED <<ledger, alias, merged>> /\ (pc' # "judged" \/ UNCHANGED <<pc, judged>>)
  BY <1>10 DEF Grown, GrowthRows, JudgedGrowth, Monotone, JudgedAbove, Wrapped
<1>11. CASE SeedAlias
  <2>1. merged' = TRUE /\ UNCHANGED <<ledger, pc, judged>>
    BY <1>11 DEF SeedAlias
  <2> QED
    BY <2>1 DEF Grown, GrowthRows, JudgedGrowth, Monotone, JudgedAbove, Wrapped
<1>12. CASE NextChapter
  <2>1. UNCHANGED <<ledger, alias, merged, pc, judged>>
    BY <1>12 DEF NextChapter
  <2> QED
    BY <1>10, <2>1
<1> QED
  BY <1>7, <1>8, <1>9, <1>10, <1>11, <1>12, StepOnLedger

-----------------------------------------------------------------------------
(* The theorems about the sheets.                                          *)

(* The inductive invariant of the sheets.                                  *)
Sound == IInv /\ Ordered /\ RowsLegal /\ JudgedLegal /\ Restored /\ Grown

(* The inductive invariant holds at first and is kept by every step.       *)
LEMMA SoundInit == Init => Sound
<1> SUFFICES ASSUME Init PROVE Sound
  OBVIOUS
<1>1. ledger = <<>> /\ Len(ledger) = 0 /\ DOMAIN ledger = {} /\ pc = "idle" /\ 1..Len(ledger) = {}
  BY DEF Init
<1>2. closing = [c \in {0} |-> Blank]
  BY DEF Init
<1>3. IInv
  BY InvariantInit
<1>4. Ordered /\ RowsLegal /\ JudgedLegal
  BY <1>1 DEF Ordered, RowsLegal, JudgedLegal
<1>5. Restored
  <2>1. Struck(ledger, 0) \in Seq(Row) /\ Len(Struck(ledger, 0)) = 0
    BY <1>1, <1>3, StruckIs DEF IInv, TypeOK
  <2>2. Sheets(alias, Struck(ledger, 0))[0] = Blank
    BY <2>1, SheetsAre
  <2>3. DOMAIN closing = {0} /\ closing[0] = Blank
    BY <1>2
  <2> QED
    BY <1>1, <2>2, <2>3, DeactivatedIsStruck DEF Restored
<1>6. Grown
  <2>1. Blank \in AllSheets /\ Sheets(alias, ledger)[0] = Blank
    BY <1>1, BlankIs, SheetsAre
  <2>2. \A s \in Subjects, f \in Growing : number(Blank[s][f]) \in Int
    BY <2>1, FieldKinds, NumberIs DEF AllSheets
  <2>3. \A i \in 0..Len(ledger) : i = 0
    BY <1>1
  <2>4. Monotone
    BY <2>1, <2>2, <2>3 DEF Monotone
  <2> QED
    BY <1>1, <2>4 DEF Grown, GrowthRows, JudgedGrowth, JudgedAbove
<1> QED
  BY <1>3, <1>4, <1>5, <1>6 DEF Sound

LEMMA SoundStep == Sound /\ [Next]_vars => Sound'
<1> SUFFICES ASSUME Sound, [Next]_vars PROVE Sound'
  OBVIOUS
<1>1. TypeOK /\ Room /\ IInv'
  BY InvariantStep DEF Sound, IInv
<1> QED
  BY <1>1, OrderedStep, LegalStep, RestoredStep, GrownStep DEF Sound

(* A sheet before a row is the fold of the rows before it.                 *)
LEMMA FoldBefore ==
  ASSUME TypeOK, NEW i \in 1..Len(ledger)
  PROVE  fold(SubSeq(ledger, 1, i - 1)) = Sheets(alias, ledger)[i - 1]
<1> DEFINE past == SubSeq(ledger, 1, i - 1)
           n == i - 1
<1>1. ledger \in Seq(Row) /\ Len(ledger) \in Nat
  BY LenProperties DEF TypeOK
<1>2. n \in Nat /\ n <= Len(ledger)
  BY <1>1
<1>3. Len(past) = n /\ \A j \in 1..n : past[j] = ledger[j]
  BY <1>1, <1>2, SubSeqProperties
<1> HIDE DEF past
<1>4. Agree(past, ledger, n)
  BY <1>3 DEF Agree, Alike
<1>5. Sheets(alias, past)[n] = Sheets(alias, ledger)[n]
  <2>1. Len(past) \in Nat /\ n <= Len(past) /\ n \in 0..n
    BY <1>2, <1>3
  <2> HIDE DEF n
  <2> QED
    BY <1>1, <1>2, <1>4, <2>1, SameSheets
<1>6. fold(past) = Sheets(alias, past)[n]
  BY <1>3, FoldIs
<1> QED
  BY <1>5, <1>6 DEF past

(* It is what the properties of the sheets follow from.                    *)
LEMMA SoundSheets == Sound => JudgedOnItsPast /\ SheetsWithinBounds /\ RewindRestores
<1> SUFFICES ASSUME Sound PROVE JudgedOnItsPast /\ SheetsWithinBounds /\ RewindRestores
  OBVIOUS
<1>1. /\ TypeOK /\ ledger \in Seq(Row) /\ DOMAIN ledger = 1..Len(ledger)
      /\ alias \in [Subjects -> Subjects] /\ Len(ledger) \in Nat
  BY LenProperties DEF Sound, IInv, TypeOK
<1>2. JudgedOnItsPast
  <2> SUFFICES ASSUME ~raced, ~merged, NEW i \in 1..Len(ledger), ledger[i].verdict = "applied"
               PROVE  FieldVerdict(fold(SubSeq(ledger, 1, i - 1))[resolve(ledger[i].delta.subject)],
                                   ledger[i].delta) = "applied"
    BY <1>1 DEF JudgedOnItsPast
  <2>1. fold(SubSeq(ledger, 1, i - 1)) = Sheets(alias, ledger)[i - 1]
    BY <1>1, FoldBefore
  <2> QED
    BY <2>1 DEF Sound, RowsLegal, Legal, resolve
<1>3. SheetsWithinBounds
  <2> SUFFICES ASSUME ~raced, ~merged, ~Wrapped({"applied"})
               PROVE  Within(snapshot) /\ HpWithinMax(snapshot)
    BY DEF SheetsWithinBounds
  <2>1. \A i \in 1..Len(ledger) : Legal(alias, Sheets(alias, ledger)[i - 1], ledger[i])
    BY DEF Sound, RowsLegal
  <2>2. \A i \in 1..Len(ledger) : ledger[i].verdict = "applied" => ~Wraps(ledger[i].delta)
    BY <1>1 DEF Wrapped
  <2> DEFINE len == Len(ledger)
             sheets == Sheets(alias, ledger)[len]
  <2>3. snapshot = sheets /\ len \in 0..len
    BY <1>1, SnapshotIs
  <2>4. Within(sheets) /\ Capped(alias, ledger, sheets, len)
    BY <1>1, <2>1, <2>2, <2>3, LegalRowsKeepBounds, LegalRowsKeepMax
  <2>5. \A s \in Subjects : OutgrownBy(alias, ledger, len, s) => Outgrown(s)
    <3>1. \A s, f : Writes(s, f) = {i \in 1..len : Writing(alias, ledger[i], s, f)}
      BY <1>1 DEF Writes, Writing, resolve
    <3> QED
      BY <3>1 DEF OutgrownBy, Outgrown
  <2> HIDE DEF len, sheets
  <2>6. HpWithinMax(sheets)
    BY <2>4, <2>5 DEF Capped, HpWithinMax
  <2> QED
    BY <2>3, <2>4, <2>6
<1>4. RewindRestores
  <2> SUFFICES ASSUME ~merged, NEW n \in DOMAIN closing
               PROVE  fold(Deactivated(n)) = closing[n]
    BY DEF RewindRestores
  <2>1. n \in Nat
    BY LimitsAssumption, <1>1 DEF TypeOK
  <2>2. Len(Deactivated(n)) = Len(ledger)
    BY <1>1, <2>1, StruckIs, DeactivatedIsStruck
  <2> QED
    BY <2>2, FoldIs DEF Sound, Restored
<1> QED
  BY <1>2, <1>3, <1>4

(* A step under which a level or experience falls is a rewind.             *)
LEMMA NoRegressStep ==
  ASSUME Sound, [Next]_vars,
         NEW s \in Subjects, NEW f \in {"level", "xp"},
         number(snapshot'[s][f]) < number(snapshot[s][f]),
         alias' = alias, ~(merged /\ raced), ~Wrapped({"applied", "rewound"})'
  PROVE  \E n \in 0..MaxChapter : Deactivate(n)
<1> DEFINE len == Len(ledger)
           snap == Sheets(alias, ledger)[len]
<1>1. /\ TypeOK /\ Room /\ ledger \in Seq(Row) /\ len \in Nat /\ alias \in [Subjects -> Subjects]
      /\ Grown /\ f \in Growing /\ f \in Bounded /\ f \in Fields /\ ~Wrapped(Counted)' /\ Grown'
  BY LenProperties, FieldKinds, GrownStep DEF Sound, IInv, TypeOK, Growing, Counted
<1>2. snapshot = snap /\ snapshot' = Sheets(alias, ledger')[Len(ledger')]
  BY SnapshotIs
<1>3. /\ snap \in AllSheets /\ number(snap[s][f]) \in Int
      /\ snap[s][f].is # "txt" /\ number(snap[s][f]) >= 0
  <2>1. ~Wrapped(Counted)
    BY <1>1, WrappedStays
  <2>2. \A i \in 1..len : GrowthRow(ledger[i])
    BY <1>1, <2>1 DEF Grown, GrowthRows
  <2>3. len \in 0..len
    BY <1>1
  <2>4. snap \in AllSheets /\ snap[s][f].is # "txt" /\ number(snap[s][f]) >= 0
    BY <1>1, <2>2, <2>3, SheetsTyped, GrowingNatural
  <2> QED
    BY <1>1, <2>4, NumberIs DEF AllSheets
<1>4. snapshot' # snapshot
  BY <1>2, <1>3
<1>5. ASSUME Record
      PROVE  FALSE
  <2>1. /\ judged \in Row /\ ledger' = Append(ledger, judged) /\ pc = "judged"
        /\ judged.verdict # "rewound"
    BY <1>1, <1>5 DEF Record, TypeOK
  <2>2. Len(ledger') = len + 1 /\ ledger'[len + 1] = judged /\ DOMAIN ledger' = 1..(len + 1)
    BY <1>1, <2>1, AppendProperties, LenProperties
  <2>3. snapshot' = Applied(alias, snap, judged)
    BY <1>1, <1>2, <2>1, <2>2, SheetsAppend
  <2>4. merged
    <3>1. ASSUME ~merged
          PROVE  number(snapshot'[s][f]) >= number(snap[s][f])
      BY <1>1, <1>2, <1>5, <2>2, <3>1, RecordGrows
    <3>2. number(snapshot'[s][f]) \in Int
      <4>1. snapshot' \in AllSheets
        BY <1>1, <1>3, <2>1, <2>3, AppliedIs
      <4> QED
        BY <1>1, <4>1, NumberIs DEF AllSheets
    <3> QED
      BY <1>2, <1>3, <3>1, <3>2
  <2>5. ~raced
    BY <2>4
  <2> DEFINE d == judged.delta
  <2>6. Legal(alias, snap, judged) /\ d \in Delta
    BY <2>1, <2>5, RowIs DEF Sound, JudgedLegal
  <2> HIDE DEF snap
  <2>7. snapshot'[s][f] = IF judged.verdict = "applied" /\ s = alias[d.subject] /\ f = d.field
                          THEN Effect(snap[s][f], d) ELSE snap[s][f]
    BY <1>1, <1>3, <2>1, <2>3, AppliedIs
  <2>8. judged.verdict = "applied" /\ s = alias[d.subject] /\ f = d.field
    BY <1>2, <1>3, <2>7
  <2>9. ~Wraps(d)
    <3>1. len + 1 \in DOMAIN ledger'
      BY <1>1, <2>2
    <3> QED
      BY <1>1, <2>2, <2>8, <3>1 DEF Wrapped, Counted
  <2>10. FieldVerdict(snap[s], d) = "applied" /\ snap[s] \in [Fields -> Value]
    BY <1>3, <2>6, <2>8 DEF Legal, AllSheets
  <2> HIDE DEF d
  <2>11. number(Effect(snap[s][f], d)) >= number(snap[s][f])
    BY <1>1, <1>3, <2>6, <2>8, <2>9, <2>10, GateKeepsBounds
  <2>12. snapshot'[s][f] = Effect(snap[s][f], d)
    BY <2>7, <2>8
  <2>13. Effect(snap[s][f], d) \in Value
    BY <1>1, <2>6, <2>10, EffectIs
  <2>14. number(Effect(snap[s][f], d)) \in Int
    BY <2>13, NumberIs
  <2> QED
    BY <1>2, <1>3, <2>11, <2>12, <2>14
<1>6. ASSUME NEW n \in Nat, n <= MaxChapter, Deactivate(n)
      PROVE  \E m \in 0..MaxChapter : Deactivate(m)
  BY <1>6, LimitsAssumption
<1>7. UNCHANGED ledger => FALSE
  BY <1>2, <1>4
<1>8. CASE SeedAlias
  BY <1>7, <1>8 DEF SeedAlias
<1>9. CASE NextChapter
  BY <1>7, <1>9 DEF NextChapter
<1> QED
  BY <1>1, <1>5, <1>6, <1>7, <1>8, <1>9, StepOnLedger

(* Every row that counts was legal on top of the rows that count before it. *)
THEOREM RowsAreJudgedOnTheirPast == Spec => []JudgedOnItsPast
<1>1. Init => Sound
  BY SoundInit
<1>2. Sound /\ [Next]_vars => Sound'
  BY SoundStep
<1>3. Sound => JudgedOnItsPast
  BY SoundSheets
<1> QED
  BY <1>1, <1>2, <1>3, PTL DEF Spec

(* Nothing of a sheet is ever negative, and hit points pass their maximum  *)
(* only where it was written after them, whatever the gate was asked,      *)
(* unless a rewind raced a verdict, sheets were merged or a sum wrapped.   *)
THEOREM SheetsStayWithinBounds == Spec => []SheetsWithinBounds
<1>1. Init => Sound
  BY SoundInit
<1>2. Sound /\ [Next]_vars => Sound'
  BY SoundStep
<1>3. Sound => SheetsWithinBounds
  BY SoundSheets
<1> QED
  BY <1>1, <1>2, <1>3, PTL DEF Spec

(* Rewinding to a chapter gives the sheets as they were at its end, however*)
(* often the story was rewound and written again since.                    *)
THEOREM RewindIsFree == Spec => []RewindRestores
<1>1. Init => Sound
  BY SoundInit
<1>2. Sound /\ [Next]_vars => Sound'
  BY SoundStep
<1>3. Sound => RewindRestores
  BY SoundSheets
<1> QED
  BY <1>1, <1>2, <1>3, PTL DEF Spec

(* Levels and experience only fall when the operator rewinds or two sheets *)
(* are merged, even if a rewind slips in front of a row.                   *)
THEOREM LevelsNeverRegress == Spec => NeverRegress
<1>1. Init => Sound
  BY SoundInit
<1>2. Sound /\ [Next]_vars => Sound'
  BY SoundStep
<1> DEFINE Kept == \A s \in Subjects : \A f \in {"level", "xp"} :
        number(snapshot'[s][f]) < number(snapshot[s][f])
          => \/ alias' # alias \/ (merged /\ raced)
             \/ Wrapped({"applied", "rewound"})'
             \/ \E n \in 0..MaxChapter : Deactivate(n)
<1>3. Sound /\ [Next]_vars => [Kept]_vars
  BY NoRegressStep
<1> QED
  BY <1>1, <1>2, <1>3, PTL DEF Spec, NeverRegress

=============================================================================
