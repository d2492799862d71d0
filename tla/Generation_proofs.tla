-------------------------- MODULE Generation_proofs --------------------------
(***************************************************************************)
(* Proofs about module Generation, for any names, tags, drafts, reports    *)
(* and bounds: that reading a draft is faithful to it, by induction over   *)
(* its lines (a shortest draft misread would have a shorter one); that     *)
(* names are resolved onto one key; and the inductive invariant of the     *)
(* cycle, which ties what a chapter in the making holds to the store.      *)
(***************************************************************************)
EXTENDS Generation, SequenceTheorems, FiniteSetTheorems, WellFoundedInduction, TLAPS

(* A set of numbers that is not empty has a least one.                     *)
LEMMA Least ==
  ASSUME NEW S \in SUBSET Nat, S # {}
  PROVE  \E m \in S : \A k \in S : m <= k
<1> DEFINE R == {ss \in Nat \X Nat : ss[1] < ss[2]}
<1>1. IsWellFoundedOn(R, Nat)
  BY NatLessThanWellFounded DEF OpToRel
<1> HIDE DEF R
<1>2. PICK x \in S : \A y \in S : ~ (<<y, x>> \in R)
  BY <1>1, WFMin
<1>3. ASSUME NEW y \in S
      PROVE  x <= y
  <2>1. x \in Nat /\ y \in Nat /\ ~ (<<y, x>> \in R)
    BY <1>2
  <2>2. ~(y < x)
    BY <2>1 DEF R
  <2> QED
    BY <2>1, <2>2
<1> QED
  BY <1>3

(* f is the joints of the first n of the sequences.                        *)
AreJoints(f, seqs, n) ==
  f = [i \in 1..n |-> IF i = 1 THEN seqs[i] ELSE f[i - 1] \o seqs[i]]

Joints(seqs) == CHOOSE f : AreJoints(f, seqs, Len(seqs))

(* What FlattenSeq gives is the last of them.                              *)
LEMMA FlattenSeqIs ==
  ASSUME NEW seqs
  PROVE  FlattenSeq(seqs) = IF Len(seqs) = 0 THEN seqs ELSE Joints(seqs)[Len(seqs)]
BY DEF FlattenSeq, Joints, AreJoints

(* There is such a function, by induction over n.                          *)
LEMMA JointsExist ==
  ASSUME NEW seqs, NEW n \in Nat
  PROVE  \E f : AreJoints(f, seqs, n)
<1> DEFINE Bad == {m \in Nat : ~\E f : AreJoints(f, seqs, m)}
<1> SUFFICES ASSUME n \in Bad PROVE FALSE
  OBVIOUS
<1>1. PICK m \in Bad : \A k \in Bad : m <= k
  <2>1. Bad \in SUBSET Nat /\ Bad # {}
    OBVIOUS
  <2> HIDE DEF Bad
  <2> QED
    BY <2>1, Least
<1>2. m # 0
  <2> DEFINE f == [i \in 1..0 |-> seqs[i]]
  <2>1. f = [i \in 1..0 |-> IF i = 1 THEN seqs[i] ELSE f[i - 1] \o seqs[i]]
    OBVIOUS
  <2>2. AreJoints(f, seqs, 0)
    BY <2>1 DEF AreJoints
  <2> QED
    BY <2>2
<1>3. m - 1 \in Nat /\ m - 1 \notin Bad
  <2>1. m \in Nat
    OBVIOUS
  <2>2. m - 1 \in Nat /\ ~(m <= m - 1)
    BY <2>1, <1>2
  <2> HIDE DEF Bad
  <2> QED
    BY <1>1, <2>2
<1>4. PICK f : AreJoints(f, seqs, m - 1)
  BY <1>3
<1> DEFINE last == IF m = 1 THEN seqs[m] ELSE f[m - 1] \o seqs[m]
           h == [i \in 1..m |-> IF i = m THEN last ELSE f[i]]
<1>5. h = [i \in 1..m |-> IF i = 1 THEN seqs[i] ELSE h[i - 1] \o seqs[i]]
  <2>1. f = [i \in 1..(m - 1) |-> IF i = 1 THEN seqs[i] ELSE f[i - 1] \o seqs[i]]
    BY <1>4 DEF AreJoints
  <2>2. ASSUME NEW i \in 1..m
        PROVE  h[i] = IF i = 1 THEN seqs[i] ELSE h[i - 1] \o seqs[i]
    <3>1. CASE i = m
      <4>1. h[i] = last /\ (m # 1 => h[m - 1] = f[m - 1])
        BY <1>3, <3>1
      <4> HIDE DEF h
      <4> QED
        BY <1>2, <3>1, <4>1
    <3>2. CASE i # m
      <4>1. i \in 1..(m - 1) /\ h[i] = f[i] /\ (i # 1 => h[i - 1] = f[i - 1])
        BY <1>3, <3>2
      <4> HIDE DEF h
      <4>2. f[i] = IF i = 1 THEN seqs[i] ELSE f[i - 1] \o seqs[i]
        BY <2>1, <4>1
      <4> QED
        BY <4>1, <4>2
    <3> QED
      BY <3>1, <3>2
  <2>3. h = [i \in 1..m |-> h[i]]
    OBVIOUS
  <2> HIDE DEF h
  <2> QED
    BY <2>2, <2>3
<1>6. AreJoints(h, seqs, m)
  BY <1>5 DEF AreJoints
<1> QED
  BY <1>6

(* So each joint is the one before with the next sequence.                 *)
LEMMA JointsAre ==
  ASSUME NEW seqs, Len(seqs) \in Nat
  PROVE  \A i \in 1..Len(seqs) :
           Joints(seqs)[i] = IF i = 1 THEN seqs[i] ELSE Joints(seqs)[i - 1] \o seqs[i]
<1> DEFINE f == Joints(seqs)
<1>1. AreJoints(f, seqs, Len(seqs))
  BY JointsExist DEF Joints
<1> HIDE DEF f
<1>2. f = [i \in 1..Len(seqs) |-> IF i = 1 THEN seqs[i] ELSE f[i - 1] \o seqs[i]]
  BY <1>1 DEF AreJoints
<1>3. ASSUME NEW i \in 1..Len(seqs)
      PROVE  f[i] = IF i = 1 THEN seqs[i] ELSE f[i - 1] \o seqs[i]
  BY <1>2
<1> QED
  BY <1>3 DEF f

(* The joints of a sequence and of one more agree on the first.            *)
LEMMA JointsAppend ==
  ASSUME NEW A, NEW seqs \in Seq(Seq(A)), NEW x \in Seq(A)
  PROVE  \A i \in 1..Len(seqs) : Joints(Append(seqs, x))[i] = Joints(seqs)[i]
<1> DEFINE more == Append(seqs, x)
           f == Joints(seqs)
           g == Joints(more)
           len == Len(seqs)
           Bad == {i \in 1..len : g[i] # f[i]}
<1>1. len \in Nat /\ Len(more) = len + 1 /\ Len(more) \in Nat
  BY LenProperties, AppendProperties
<1>2. \A i \in 1..len : more[i] = seqs[i]
  BY <1>1, AppendProperties
<1>3. \A i \in 1..len : f[i] = IF i = 1 THEN seqs[i] ELSE f[i - 1] \o seqs[i]
  BY <1>1, JointsAre
<1>4. \A i \in 1..(len + 1) : g[i] = IF i = 1 THEN more[i] ELSE g[i - 1] \o more[i]
  <2> HIDE DEF more
  <2> QED
    BY <1>1, JointsAre
<1> HIDE DEF f, g, len, more
<1>5. Bad = {}
  <2> SUFFICES ASSUME Bad # {} PROVE FALSE
    OBVIOUS
  <2>1. PICK i \in Bad : \A k \in Bad : i <= k
    <3>1. Bad \in SUBSET Nat
      BY <1>1
    <3> HIDE DEF Bad
    <3> QED
      BY <3>1, Least
  <2>2. i \in 1..len /\ g[i] # f[i]
    OBVIOUS
  <2>3. i \in 1..(len + 1) /\ g[i] = IF i = 1 THEN seqs[i] ELSE g[i - 1] \o seqs[i]
    BY <1>1, <1>2, <1>4, <2>2
  <2>4. i # 1
    BY <1>3, <2>2, <2>3
  <2>5. i - 1 \in 1..len /\ ~(i <= i - 1)
    BY <1>1, <2>2, <2>4
  <2>6. i - 1 \notin Bad
    <3> HIDE DEF Bad
    <3> QED
      BY <2>1, <2>5
  <2>7. g[i - 1] = f[i - 1]
    BY <2>5, <2>6
  <2> QED
    BY <1>3, <2>2, <2>3, <2>4, <2>7
<1> QED
  BY <1>5 DEF f, g, len, more

(* Joining a sequence and one more.                                        *)
LEMMA FlattenAppend ==
  ASSUME NEW A, NEW seqs \in Seq(Seq(A)), NEW x \in Seq(A)
  PROVE  FlattenSeq(Append(seqs, x)) = FlattenSeq(seqs) \o x
<1> DEFINE more == Append(seqs, x)
           len == Len(seqs)
<1>1. len \in Nat /\ Len(more) = len + 1 /\ more[len + 1] = x /\ more \in Seq(Seq(A))
  BY LenProperties, AppendProperties
<1>2. FlattenSeq(more) = Joints(more)[len + 1]
  <2>1. Len(more) # 0
    BY <1>1
  <2> HIDE DEF more, len
  <2> QED
    BY <1>1, <2>1, FlattenSeqIs
<1>3. Joints(more)[len + 1] = IF len + 1 = 1 THEN more[len + 1]
                              ELSE Joints(more)[len + 1 - 1] \o more[len + 1]
  <2>1. len + 1 \in 1..Len(more)
    BY <1>1
  <2>2. \A i \in 1..Len(more) :
          Joints(more)[i] = IF i = 1 THEN more[i] ELSE Joints(more)[i - 1] \o more[i]
    <3>1. Len(more) \in Nat
      BY <1>1
    <3> HIDE DEF more
    <3> QED
      BY <3>1, JointsAre
  <2> HIDE DEF more, len
  <2>3. PICK i \in 1..Len(more) : i = len + 1
    BY <2>1
  <2>4. Joints(more)[i] = IF i = 1 THEN more[i] ELSE Joints(more)[i - 1] \o more[i]
    BY <2>2
  <2> QED
    BY <1>1, <2>3, <2>4
<1>4. CASE len = 0
  <2>1. seqs = <<>> /\ FlattenSeq(seqs) = <<>>
    BY <1>4, FlattenSeqIs, EmptySeq
  <2>2. FlattenSeq(more) = x
    <3> HIDE DEF more
    <3> QED
      BY <1>1, <1>2, <1>3, <1>4
  <2> QED
    BY <2>1, <2>2, ConcatEmptySeq
<1>5. CASE len # 0
  <2>1. len \in 1..len /\ len + 1 - 1 = len /\ len + 1 # 1
    BY <1>1, <1>5
  <2>2. Joints(more)[len] = Joints(seqs)[len]
    BY <2>1, JointsAppend
  <2>3. FlattenSeq(seqs) = Joints(seqs)[len]
    BY <1>5, FlattenSeqIs
  <2>4. FlattenSeq(more) = Joints(more)[len] \o x
    <3> HIDE DEF more, len
    <3> QED
      BY <1>1, <1>2, <1>3, <2>1
  <2> QED
    BY <2>2, <2>3, <2>4
<1> QED
  BY <1>4, <1>5

(* Joining nothing.                                                         *)
LEMMA FlattenEmpty == FlattenSeq(<<>>) = <<>>
BY FlattenSeqIs, EmptySeq

(* What is joined of sequences over a set is one.                          *)
LEMMA FlattenType ==
  ASSUME NEW A, NEW seqs \in Seq(Seq(A))
  PROVE  FlattenSeq(seqs) \in Seq(A)
<1> DEFINE f == Joints(seqs)
           len == Len(seqs)
           Bad == {i \in 1..len : f[i] \notin Seq(A)}
<1>1. len \in Nat /\ \A i \in 1..len : seqs[i] \in Seq(A)
  BY LenProperties, ElementOfSeq
<1>2. \A i \in 1..len : f[i] = IF i = 1 THEN seqs[i] ELSE f[i - 1] \o seqs[i]
  BY <1>1, JointsAre
<1> HIDE DEF f, len
<1>3. Bad = {}
  <2> SUFFICES ASSUME Bad # {} PROVE FALSE
    OBVIOUS
  <2>1. PICK i \in Bad : \A k \in Bad : i <= k
    <3>1. Bad \in SUBSET Nat
      BY <1>1
    <3> HIDE DEF Bad
    <3> QED
      BY <3>1, Least
  <2>2. i \in 1..len /\ f[i] \notin Seq(A) /\ seqs[i] \in Seq(A)
    BY <1>1
  <2>3. i # 1
    BY <1>2, <2>2
  <2>4. i - 1 \in 1..len /\ ~(i <= i - 1)
    BY <1>1, <2>2, <2>3
  <2>5. i - 1 \notin Bad
    <3> HIDE DEF Bad
    <3> QED
      BY <2>1, <2>4
  <2>6. f[i - 1] \in Seq(A) /\ f[i] = f[i - 1] \o seqs[i]
    BY <1>2, <2>2, <2>3, <2>4, <2>5
  <2> QED
    BY <2>2, <2>6, ConcatProperties
<1>4. CASE len = 0
  <2>1. FlattenSeq(seqs) = seqs /\ seqs = <<>>
    BY <1>4, FlattenSeqIs, EmptySeq DEF len
  <2> QED
    BY <2>1, EmptySeq
<1>5. CASE len # 0
  <2>1. FlattenSeq(seqs) = f[len] /\ len \in 1..len
    BY <1>1, <1>5, FlattenSeqIs DEF len, f
  <2> QED
    BY <1>3, <2>1
<1> QED
  BY <1>4, <1>5

(* What holds of the empty sequence, and of a sequence and one more when   *)
(* it holds of the sequence, holds of every sequence: there is no shortest *)
(* one of which it does not.                                               *)
LEMMA Shortest ==
  ASSUME NEW A, NEW Bad \in SUBSET Seq(A), <<>> \notin Bad,
         \A s \in Seq(A), x \in A : Append(s, x) \in Bad => s \in Bad
  PROVE  Bad = {}
<1> SUFFICES ASSUME Bad # {} PROVE FALSE
  OBVIOUS
<1> DEFINE Lengths == {Len(s) : s \in Bad}
<1>1. PICK n \in Lengths : \A k \in Lengths : n <= k
  <2>1. \A s \in Bad : Len(s) \in Nat
    BY LenProperties
  <2>2. Lengths \in SUBSET Nat
    BY <2>1
  <2>3. PICK s \in Bad : TRUE
    OBVIOUS
  <2>4. Len(s) \in Lengths
    OBVIOUS
  <2> HIDE DEF Lengths
  <2> QED
    BY <2>2, <2>4, Least
<1>2. PICK s \in Bad : n = Len(s)
  OBVIOUS
<1>3. PICK t \in Seq(A), x \in A : s = Append(t, x)
  <2>1. s \in Seq(A) /\ s # <<>>
    OBVIOUS
  <2> QED
    BY <2>1, SequenceEmptyOrAppend
<1>4. t \in Bad /\ Len(t) \in Nat /\ Len(s) = Len(t) + 1
  BY <1>3, AppendProperties, LenProperties
<1>5. Len(t) \in Lengths /\ ~(n <= Len(t))
  BY <1>2, <1>4
<1> HIDE DEF Lengths
<1> QED
  BY <1>1, <1>5

-----------------------------------------------------------------------------
(* Reading prose, a line at a time.                                        *)

Fresh == [turns |-> <<>>, current |-> Narrator]

(* f is what has been read before the first line and after each of n.      *)
AreReads(f, lines, n) ==
  f = [i \in 0..n |-> IF i = 0 THEN Fresh ELSE ReadLine(f[i - 1], lines[i])]

Reads(lines) == CHOOSE f : AreReads(f, lines, Len(lines))
Read(lines)  == Reads(lines)[Len(lines)]

(* What the model parses is what has been read after the last line.         *)
LEMMA ParseIs ==
  ASSUME NEW lines
  PROVE  ParseTaggedProse(lines) = Read(lines).turns
BY DEF ParseTaggedProse, Read, Reads, AreReads, Fresh

(* There are such readings, by induction over n.                           *)
LEMMA ReadsExist ==
  ASSUME NEW lines, NEW n \in Nat
  PROVE  \E f : AreReads(f, lines, n)
<1> DEFINE Bad == {m \in Nat : ~\E f : AreReads(f, lines, m)}
<1> SUFFICES ASSUME n \in Bad PROVE FALSE
  OBVIOUS
<1>1. PICK m \in Bad : \A k \in Bad : m <= k
  <2>1. Bad \in SUBSET Nat /\ Bad # {}
    OBVIOUS
  <2> HIDE DEF Bad
  <2> QED
    BY <2>1, Least
<1>2. m # 0
  <2> DEFINE f == [i \in 0..0 |-> Fresh]
  <2>1. f = [i \in 0..0 |-> IF i = 0 THEN Fresh ELSE ReadLine(f[i - 1], lines[i])]
    OBVIOUS
  <2>2. AreReads(f, lines, 0)
    BY <2>1 DEF AreReads
  <2> QED
    BY <2>2
<1>3. m - 1 \in Nat /\ m - 1 \notin Bad
  <2>1. m \in Nat
    OBVIOUS
  <2>2. m - 1 \in Nat /\ ~(m <= m - 1)
    BY <2>1, <1>2
  <2> HIDE DEF Bad
  <2> QED
    BY <1>1, <2>2
<1>4. PICK f : AreReads(f, lines, m - 1)
  BY <1>3
<1> DEFINE h == [i \in 0..m |-> IF i = m THEN ReadLine(f[m - 1], lines[m]) ELSE f[i]]
<1>5. h = [i \in 0..m |-> IF i = 0 THEN Fresh ELSE ReadLine(h[i - 1], lines[i])]
  <2>1. f = [i \in 0..(m - 1) |-> IF i = 0 THEN Fresh ELSE ReadLine(f[i - 1], lines[i])]
    BY <1>4 DEF AreReads
  <2>2. ASSUME NEW i \in 0..m
        PROVE  h[i] = IF i = 0 THEN Fresh ELSE ReadLine(h[i - 1], lines[i])
    <3>1. CASE i = m
      <4>1. h[i] = ReadLine(f[m - 1], lines[m]) /\ h[m - 1] = f[m - 1]
        BY <1>3, <3>1
      <4> QED
        BY <1>2, <3>1, <4>1
    <3>2. CASE i # m
      <4>1. i \in 0..(m - 1) /\ h[i] = f[i] /\ (i # 0 => h[i - 1] = f[i - 1])
        BY <1>3, <3>2
      <4> HIDE DEF h
      <4>2. f[i] = IF i = 0 THEN Fresh ELSE ReadLine(f[i - 1], lines[i])
        BY <2>1, <4>1
      <4> QED
        BY <4>1, <4>2
    <3> QED
      BY <3>1, <3>2
  <2>3. h = [i \in 0..m |-> h[i]]
    OBVIOUS
  <2> HIDE DEF h
  <2> QED
    BY <2>2, <2>3
<1>6. AreReads(h, lines, m)
  BY <1>5 DEF AreReads
<1> QED
  BY <1>6

(* So each reading is that of one more line.                                *)
LEMMA ReadsAre ==
  ASSUME NEW lines, Len(lines) \in Nat
  PROVE  /\ Reads(lines)[0] = Fresh
         /\ \A i \in 1..Len(lines) : Reads(lines)[i] = ReadLine(Reads(lines)[i - 1], lines[i])
<1> DEFINE f == Reads(lines)
<1>1. AreReads(f, lines, Len(lines))
  BY ReadsExist DEF Reads
<1> HIDE DEF f
<1>2. f = [i \in 0..Len(lines) |-> IF i = 0 THEN Fresh ELSE ReadLine(f[i - 1], lines[i])]
  BY <1>1 DEF AreReads
<1>3. f[0] = Fresh
  BY <1>2
<1>4. ASSUME NEW i \in 1..Len(lines)
      PROVE  f[i] = ReadLine(f[i - 1], lines[i])
  <2>1. i \in 0..Len(lines) /\ i # 0
    OBVIOUS
  <2> QED
    BY <1>2, <2>1
<1> QED
  BY <1>3, <1>4 DEF f

(* The readings of some lines and of one more agree on the first.          *)
LEMMA ReadsAppend ==
  ASSUME NEW A, NEW lines \in Seq(A), NEW l \in A
  PROVE  \A i \in 0..Len(lines) : Reads(Append(lines, l))[i] = Reads(lines)[i]
<1> DEFINE more == Append(lines, l)
           f == Reads(lines)
           g == Reads(more)
           len == Len(lines)
           Bad == {i \in 0..len : g[i] # f[i]}
<1>1. len \in Nat /\ Len(more) = len + 1 /\ Len(more) \in Nat
  BY LenProperties, AppendProperties
<1>2. \A i \in 1..len : more[i] = lines[i]
  BY <1>1, AppendProperties
<1>3. f[0] = Fresh /\ \A i \in 1..len : f[i] = ReadLine(f[i - 1], lines[i])
  BY <1>1, ReadsAre
<1>4. g[0] = Fresh /\ \A i \in 1..(len + 1) : g[i] = ReadLine(g[i - 1], more[i])
  <2> HIDE DEF more
  <2> QED
    BY <1>1, ReadsAre
<1> HIDE DEF f, g, len, more
<1>5. Bad = {}
  <2> SUFFICES ASSUME Bad # {} PROVE FALSE
    OBVIOUS
  <2>1. PICK i \in Bad : \A k \in Bad : i <= k
    <3>1. Bad \in SUBSET Nat
      BY <1>1
    <3> HIDE DEF Bad
    <3> QED
      BY <3>1, Least
  <2>2. i \in 0..len /\ g[i] # f[i]
    OBVIOUS
  <2>3. i # 0
    BY <1>3, <1>4, <2>2
  <2>4. i \in 1..len /\ i - 1 \in 0..len /\ ~(i <= i - 1)
    BY <1>1, <2>2, <2>3
  <2>5. i - 1 \notin Bad
    <3> HIDE DEF Bad
    <3> QED
      BY <2>1, <2>4
  <2>6. g[i - 1] = f[i - 1]
    BY <2>4, <2>5
  <2>7. g[i] = ReadLine(g[i - 1], lines[i])
    BY <1>1, <1>2, <1>4, <2>4
  <2> QED
    BY <1>3, <2>2, <2>4, <2>6, <2>7
<1> QED
  BY <1>5 DEF f, g, len, more

(* Reading is line by line.                                                *)
LEMMA ReadNothing == Read(<<>>) = Fresh
BY ReadsAre, EmptySeq DEF Read

(* Reading one line more reads that line.                                   *)
LEMMA ReadAppend ==
  ASSUME NEW A, NEW lines \in Seq(A), NEW l \in A
  PROVE  Read(Append(lines, l)) = ReadLine(Read(lines), l)
<1> DEFINE more == Append(lines, l)
           len == Len(lines)
<1>1. len \in Nat /\ Len(more) = len + 1 /\ Len(more) \in Nat /\ more[len + 1] = l
  BY LenProperties, AppendProperties
<1>2. \A i \in 1..Len(more) : Reads(more)[i] = ReadLine(Reads(more)[i - 1], more[i])
  <2> HIDE DEF more
  <2> QED
    BY <1>1, ReadsAre
<1>3. Reads(more)[len] = Reads(lines)[len]
  BY <1>1, ReadsAppend
<1>4. PICK n \in 1..Len(more) : n = len + 1
  BY <1>1
<1>5. n - 1 = len /\ n = Len(more)
  BY <1>1, <1>4
<1> HIDE DEF more, len
<1>6. Reads(more)[n] = ReadLine(Reads(more)[n - 1], more[n])
  BY <1>2
<1>7. Reads(more)[Len(more)] = ReadLine(Reads(lines)[len], l)
  BY <1>1, <1>3, <1>4, <1>5, <1>6
<1> QED
  BY <1>7 DEF Read, more, len

Kinds == {"narrator", "system", "character"}

(* The names a turn may be stored under: each is its own tag.              *)
Stored == {s \in Spellings : CanonicalSpeaker(s) = s}

Line == [tag : Tags \cup {NoTag}, sound : BOOLEAN, text : Seq(Nat)]

(* A line of a draft: brackets that are not sound belong to the text.      *)
Written == {l \in Line : l.tag # NoTag /\ ~l.sound => l.text # <<>>}

Turn == {t \in [speaker : Stored, kind : Kinds, text : Seq(Nat)] :
           t.kind = ClassifySpeaker(t.speaker) /\ t.text # <<>>}

(* No two turns of one speaker side by side.                               *)
Apart(said) ==
  \A i \in DOMAIN said : i + 1 \in DOMAIN said =>
    ~SameSpeaker(said[i].speaker, said[i + 1].speaker)

(* A text as s says it, and all that is said in turns.                     *)
Said(s, text) == [w \in DOMAIN text |-> <<WordsOf[s], text[w]>>]
Words(said)  == FlattenSeq([i \in DOMAIN said |-> Said(said[i].speaker, said[i].text)])

Pair == Seq(STRING) \X Nat

(* Names have words.                                                        *)
LEMMA WordsTyped == \A n \in Spellings \cup {Nobody} : WordsOf[n] \in Seq(STRING)
BY NamesAssumption

(* There are three kinds of speaker.                                        *)
LEMMA KindsAre ==
  ASSUME NEW t
  PROVE  ClassifySpeaker(t) \in Kinds
BY DEF ClassifySpeaker, Kinds

(* The canonical form of a tag's name is a name that stands for itself, of *)
(* the kind of the tag's name.                                             *)
LEMMA CanonicalIs ==
  ASSUME NEW t, ClassifySpeaker(t) = "character" => t \in Spellings
  PROVE  CanonicalSpeaker(t) \in Stored
<1>1. ClassifySpeaker(t) \in Kinds
  BY KindsAre
<1>2. CanonicalSpeaker(Narrator) = Narrator /\ CanonicalSpeaker(SystemVoice) = SystemVoice
  BY SpeakersAssumption DEF CanonicalSpeaker
<1>3. Narrator \in Stored /\ SystemVoice \in Stored
  BY <1>2, TagsAssumption DEF Stored
<1>4. CASE ClassifySpeaker(t) = "character"
  <2>1. t \in Spellings /\ CanonicalSpeaker(t) = t
    BY <1>4 DEF CanonicalSpeaker
  <2> QED
    BY <2>1 DEF Stored
<1>5. CASE ClassifySpeaker(t) = "narrator"
  <2>1. CanonicalSpeaker(t) = Narrator
    BY <1>5 DEF CanonicalSpeaker
  <2> QED
    BY <1>3, <2>1
<1>6. CASE ClassifySpeaker(t) = "system"
  <2>1. CanonicalSpeaker(t) = SystemVoice
    BY <1>6 DEF CanonicalSpeaker
  <2> QED
    BY <1>3, <2>1
<1> QED
  BY <1>1, <1>4, <1>5, <1>6 DEF Kinds

(* Whom a tag names can be stored.                                          *)
LEMMA TagSpeakerIs ==
  ASSUME NEW l \in Written, SplitTag(l)
  PROVE  TagSpeaker(l) \in Stored
<1>1. l.tag \in Tags
  BY DEF SplitTag, Written, Line
<1>2. ClassifySpeaker(NameOf[l.tag]) = "character" => NameOf[l.tag] \in Spellings
  BY <1>1, SpeakersAssumption
<1> QED
  BY <1>2, CanonicalIs DEF TagSpeaker

(* A line's text is words, and without a tag all of them.                  *)
LEMMA LineTextIs ==
  ASSUME NEW l \in Written
  PROVE  /\ LineText(l) \in Seq(Nat)
         /\ ~SplitTag(l) => LineText(l) = l.text
<1>1. l.text \in Seq(Nat)
  BY DEF Written, Line
<1>2. l.text # <<>> => Tail(l.text) \in Seq(Nat)
  BY <1>1, HeadTailProperties
<1> QED
  BY <1>1, <1>2 DEF LineText

(* The narrator's name is his tag.                                          *)
LEMMA NarratorStored == Narrator \in Stored
<1>1. CanonicalSpeaker(Narrator) = Narrator
  BY SpeakersAssumption DEF CanonicalSpeaker
<1> QED
  BY <1>1, TagsAssumption DEF Stored

(* What is said of a text is as long as it.                                 *)
LEMMA SaidIs ==
  ASSUME NEW s \in Spellings, NEW text \in Seq(Nat)
  PROVE  /\ Said(s, text) \in Seq(Pair) /\ Len(Said(s, text)) = Len(text)
         /\ \A w \in 1..Len(text) : Said(s, text)[w] = <<WordsOf[s], text[w]>>
<1>1. Len(text) \in Nat /\ DOMAIN text = 1..Len(text) /\ \A w \in 1..Len(text) : text[w] \in Nat
  BY LenProperties, ElementOfSeq
<1>2. WordsOf[s] \in Seq(STRING)
  BY WordsTyped
<1>3. Said(s, text) \in [1..Len(text) -> Pair]
  BY <1>1, <1>2 DEF Said, Pair
<1>4. Said(s, text) \in Seq(Pair)
  BY <1>1, <1>3, SeqDef
<1>5. Len(Said(s, text)) = Len(text)
  BY <1>1, <1>3, <1>4, LenProperties
<1> QED
  BY <1>1, <1>4, <1>5 DEF Said

(* A speaker's words joined to a like-named one's are said by him.         *)
LEMMA SaidJoined ==
  ASSUME NEW s \in Spellings, NEW t \in Spellings, SameSpeaker(s, t),
         NEW text \in Seq(Nat), NEW more \in Seq(Nat)
  PROVE  Said(s, text \o more) = Said(s, text) \o Said(t, more)
<1>1. /\ text \o more \in Seq(Nat) /\ Len(text \o more) = Len(text) + Len(more)
      /\ \A i \in 1..(Len(text) + Len(more)) :
           (text \o more)[i] = IF i <= Len(text) THEN text[i] ELSE more[i - Len(text)]
  BY ConcatProperties
<1> DEFINE a == Said(s, text)
           b == Said(t, more)
           c == Said(s, text \o more)
<1>2. /\ a \in Seq(Pair) /\ Len(a) = Len(text) 
      /\ \A w \in 1..Len(text) : a[w] = <<WordsOf[s], text[w]>>
  BY SaidIs
<1>3. /\ b \in Seq(Pair) /\ Len(b) = Len(more) 
      /\ \A w \in 1..Len(more) : b[w] = <<WordsOf[t], more[w]>>
  BY SaidIs
<1>4. /\ c \in Seq(Pair) /\ Len(c) = Len(text) + Len(more)
      /\ \A w \in 1..(Len(text) + Len(more)) : c[w] = <<WordsOf[s], (text \o more)[w]>>
  <2> DEFINE all == text \o more
  <2>1. c = Said(s, all)
    OBVIOUS
  <2> HIDE DEF all, c
  <2>2. Said(s, all) \in Seq(Pair) /\ Len(Said(s, all)) = Len(all)
        /\ \A w \in 1..Len(all) : Said(s, all)[w] = <<WordsOf[s], all[w]>>
    BY <1>1, SaidIs DEF all
  <2> QED
    BY <1>1, <2>1, <2>2 DEF all
<1>5. /\ a \o b \in Seq(Pair) /\ Len(a \o b) = Len(text) + Len(more)
      /\ \A i \in 1..(Len(text) + Len(more)) :
           (a \o b)[i] = IF i <= Len(text) THEN a[i] ELSE b[i - Len(text)]
  <2> HIDE DEF a, b
  <2> QED
    BY <1>2, <1>3, ConcatProperties
<1>6. Len(text) \in Nat /\ Len(more) \in Nat /\ WordsOf[s] = WordsOf[t]
  BY LenProperties DEF SameSpeaker
<1> HIDE DEF a, b, c
<1>7. ASSUME NEW i \in 1..Len(c)
      PROVE  c[i] = (a \o b)[i]
  <2>0. i \in 1..(Len(text) + Len(more))
    BY <1>4, <1>6
  <2>1. CASE i <= Len(text)
    <3>1. i \in 1..Len(text)
      BY <1>6, <2>0, <2>1
    <3>2. c[i] = <<WordsOf[s], text[i]>>
      BY <1>1, <1>4, <2>0, <2>1
    <3>3. (a \o b)[i] = a[i]
      BY <1>5, <2>0, <2>1
    <3> QED
      BY <1>2, <3>1, <3>2, <3>3
  <2>2. CASE ~(i <= Len(text))
    <3>1. PICK j \in 1..Len(more) : j = i - Len(text)
      <4>1. i - Len(text) \in 1..Len(more)
        BY <1>6, <2>0, <2>2
      <4> QED
        BY <4>1
    <3>2. c[i] = <<WordsOf[s], more[j]>>
      BY <1>1, <1>4, <2>0, <2>2, <3>1
    <3>3. (a \o b)[i] = b[j]
      BY <1>5, <2>0, <2>2, <3>1
    <3> QED
      BY <1>3, <1>6, <3>1, <3>2, <3>3
  <2> QED
    BY <2>1, <2>2
<1>8. c = a \o b
  BY <1>4, <1>5, <1>7, SeqEqual
<1> QED
  BY <1>8 DEF a, b, c

(* What is known of a turn.                                                *)
LEMMA TurnIs ==
  ASSUME NEW t \in Turn
  PROVE  /\ t.speaker \in Stored /\ t.speaker \in Spellings
         /\ t.kind = ClassifySpeaker(t.speaker) /\ t.text \in Seq(Nat) /\ t.text # <<>>
         /\ t = [speaker |-> t.speaker, kind |-> t.kind, text |-> t.text]
BY DEF Turn, Stored

(* What turns say is sequences of pairs.                                    *)
LEMMA PiecesTyped ==
  ASSUME NEW said \in Seq(Turn)
  PROVE  [i \in DOMAIN said |-> Said(said[i].speaker, said[i].text)] \in Seq(Seq(Pair))
<1>1. Len(said) \in Nat /\ DOMAIN said = 1..Len(said)
  BY LenProperties
<1>2. ASSUME NEW i \in 1..Len(said)
      PROVE  Said(said[i].speaker, said[i].text) \in Seq(Pair)
  <2>1. said[i] \in Turn
    BY ElementOfSeq
  <2>2. said[i].speaker \in Spellings /\ said[i].text \in Seq(Nat)
    BY <2>1, TurnIs
  <2> QED
    BY <2>2, SaidIs
<1>3. [i \in 1..Len(said) |-> Said(said[i].speaker, said[i].text)] \in [1..Len(said) -> Seq(Pair)]
  BY <1>2
<1> QED
  BY <1>1, <1>3, SeqDef

(* And all they say is one.                                                 *)
LEMMA WordsType ==
  ASSUME NEW said \in Seq(Turn)
  PROVE  Words(said) \in Seq(Pair)
BY PiecesTyped, FlattenType DEF Words

(* One more turn says one thing more.                                       *)
LEMMA WordsAppend ==
  ASSUME NEW said \in Seq(Turn), NEW t \in Turn
  PROVE  Words(Append(said, t)) = Words(said) \o Said(t.speaker, t.text)
<1> DEFINE more == Append(said, t)
           pieces == [i \in DOMAIN said |-> Said(said[i].speaker, said[i].text)]
           all == [i \in DOMAIN more |-> Said(more[i].speaker, more[i].text)]
           new == Said(t.speaker, t.text)
           len == Len(said)
<1>1. /\ len \in Nat /\ DOMAIN said = 1..len /\ more \in Seq(Turn) /\ Len(more) = len + 1
      /\ DOMAIN more = 1..(len + 1) /\ more[len + 1] = t /\ \A i \in 1..len : more[i] = said[i]
  BY LenProperties, AppendProperties
<1>2. pieces \in Seq(Seq(Pair)) /\ Len(pieces) = len
        /\ \A i \in 1..len : pieces[i] = Said(said[i].speaker, said[i].text)
  <2>1. pieces \in Seq(Seq(Pair))
    BY PiecesTyped
  <2>2. DOMAIN pieces = 1..len
    BY <1>1
  <2>3. Len(pieces) = len
    BY <1>1, <2>1, <2>2, LenProperties
  <2> QED
    BY <1>1, <2>1, <2>3
<1>3. all \in Seq(Seq(Pair)) /\ Len(all) = len + 1
        /\ \A i \in 1..(len + 1) : all[i] = Said(more[i].speaker, more[i].text)
  <2>1. all \in Seq(Seq(Pair))
    <3> HIDE DEF more
    <3> QED
      BY <1>1, PiecesTyped
  <2>2. DOMAIN all = 1..(len + 1)
    BY <1>1
  <2>3. Len(all) = len + 1
    <3> HIDE DEF all
    <3> QED
      BY <1>1, <2>1, <2>2, LenProperties
  <2> QED
    BY <1>1, <2>1, <2>3
<1>4. new \in Seq(Pair)
  BY TurnIs, SaidIs
<1> HIDE DEF more, pieces, all, new, len
<1>5. all = Append(pieces, new)
  <2>1. /\ Append(pieces, new) \in Seq(Seq(Pair)) /\ Len(Append(pieces, new)) = len + 1
        /\ Append(pieces, new)[len + 1] = new
        /\ \A i \in 1..len : Append(pieces, new)[i] = pieces[i]
    BY <1>2, <1>4, AppendProperties
  <2>2. ASSUME NEW i \in 1..(len + 1)
        PROVE  all[i] = Append(pieces, new)[i]
    <3>1. CASE i = len + 1
      <4>1. all[i] = Said(t.speaker, t.text)
        BY <1>1, <1>3, <3>1
      <4> QED
        BY <2>1, <3>1, <4>1 DEF new
    <3>2. CASE i # len + 1
      <4>1. i \in 1..len
        BY <1>1, <3>2
      <4>2. all[i] = Said(said[i].speaker, said[i].text)
        BY <1>1, <1>3, <4>1
      <4> QED
        BY <1>2, <2>1, <4>1, <4>2
    <3> QED
      BY <3>1, <3>2
  <2> QED
    BY <1>3, <2>1, <2>2, SeqEqual
<1>6. FlattenSeq(all) = FlattenSeq(pieces) \o new
  BY <1>2, <1>4, <1>5, FlattenAppend
<1> QED
  BY <1>6 DEF Words, more, pieces, all, new

(* A turn with another text.                                                *)
LEMMA TurnExcept ==
  ASSUME NEW A, NEW B, NEW D, NEW r \in [speaker : A, kind : B, text : D], NEW x
  PROVE  [r EXCEPT !.text = x] = [speaker |-> r.speaker, kind |-> r.kind, text |-> x]
OBVIOUS

(* Saying one thing more adds just that, under the speaker's name.         *)
LEMMA PushTextIs ==
  ASSUME NEW said \in Seq(Turn), Apart(said), NEW s \in Stored,
         NEW text \in Seq(Nat), text # <<>>
  PROVE  /\ PushText(said, s, text) \in Seq(Turn) /\ PushText(said, s, text) # <<>>
         /\ Apart(PushText(said, s, text))
         /\ Words(PushText(said, s, text)) = Words(said) \o Said(s, text)
<1> DEFINE t == [speaker |-> s, kind |-> ClassifySpeaker(s), text |-> text]
           len == Len(said)
<1>1. len \in Nat /\ DOMAIN said = 1..len /\ \A i \in 1..len : said[i] \in Turn
  BY LenProperties, ElementOfSeq
<1>2. t \in Turn
  <2>1. ClassifySpeaker(s) \in Kinds
    BY KindsAre
  <2> QED
    BY <2>1 DEF Turn
<1>3. CASE said # <<>> /\ SameSpeaker(Last(said).speaker, s)
  <2>1. PICK front \in Seq(Turn), old \in Turn : said = Append(front, old)
    BY <1>3, SequenceEmptyOrAppend
  <2> DEFINE new == [old EXCEPT !.text = @ \o text]
             f == Len(front)
  <2>2. /\ f \in Nat /\ len = f + 1 /\ said[f + 1] = old /\ \A i \in 1..f : said[i] = front[i]
    BY <2>1, LenProperties, AppendProperties
  <2>3. SameSpeaker(old.speaker, s)
    BY <1>3, <2>2 DEF Last
  <2>4. /\ old.speaker \in Stored /\ old.speaker \in Spellings /\ s \in Spellings
        /\ old.kind = ClassifySpeaker(old.speaker) /\ old.text \in Seq(Nat)
        /\ old = [speaker |-> old.speaker, kind |-> old.kind, text |-> old.text]
    BY TurnIs DEF Stored
  <2>5. old.text \o text \in Seq(Nat) /\ old.text \o text # <<>>
    BY <2>4, ConcatProperties, ConcatEqualIffEmpty
  <2>6. new = [speaker |-> old.speaker, kind |-> old.kind, text |-> old.text \o text]
    <3>1. old \in [speaker : Stored, kind : Kinds, text : Seq(Nat)]
      BY DEF Turn
    <3>2. PICK x : x = old.text \o text
      OBVIOUS
    <3>3. new = [old EXCEPT !.text = x]
      BY <3>2
    <3>4. [old EXCEPT !.text = x] = [speaker |-> old.speaker, kind |-> old.kind, text |-> x]
      BY <3>1, TurnExcept
    <3> HIDE DEF new
    <3> QED
      BY <3>2, <3>3, <3>4
  <2>7. new \in Turn
    <3>1. ClassifySpeaker(old.speaker) \in Kinds
      BY KindsAre
    <3> HIDE DEF new
    <3> QED
      BY <2>4, <2>5, <2>6, <3>1 DEF Turn
  <2>8. PushText(said, s, text) = Append(front, new)
    <3> DEFINE put == [said EXCEPT ![len].text = @ \o text]
               g == Append(front, new)
    <3>1. PushText(said, s, text) = put
      BY <1>3 DEF PushText
    <3>2. put = [said EXCEPT ![len] = new]
      BY <2>2
    <3>3. put \in Seq(Turn) /\ Len(put) = len
            /\ \A i \in 1..len : put[i] = IF i = len THEN new ELSE said[i]
      <4>1. len \in 1..len
        BY <1>1, <2>2
      <4> HIDE DEF put, new
      <4> QED
        BY <2>7, <3>2, <4>1, ExceptSeq
    <3>4. g \in Seq(Turn) /\ Len(g) = len /\ g[len] = new /\ \A i \in 1..f : g[i] = front[i]
      <4> HIDE DEF new
      <4> QED
        BY <2>2, <2>7, AppendProperties
    <3> HIDE DEF put, g, new
    <3>5. ASSUME NEW i \in 1..len
          PROVE  put[i] = g[i]
      <4>1. CASE i = len
        BY <3>3, <3>4, <4>1
      <4>2. CASE i # len
        <5>1. i \in 1..f
          BY <2>2, <4>2
        <5> QED
          BY <2>2, <3>3, <3>4, <4>2, <5>1
      <4> QED
        BY <4>1, <4>2
    <3>6. put = g
      BY <3>3, <3>4, <3>5, SeqEqual
    <3> QED
      BY <3>1, <3>6 DEF g
  <2>9. Words(Append(front, new)) = Words(said) \o Said(s, text)
    <3> DEFINE a == Said(old.speaker, old.text)
               b == Said(s, text)
    <3>1. a \in Seq(Pair) /\ b \in Seq(Pair) /\ Words(front) \in Seq(Pair)
      BY <2>4, SaidIs, WordsType
    <3>2. Words(said) = Words(front) \o a
      BY <2>1, WordsAppend
    <3>3. new.speaker = old.speaker /\ new.text = old.text \o text
      BY <2>6
    <3>4. Said(new.speaker, new.text) = a \o b
      <4>1. Said(old.speaker, old.text \o text) = a \o b
        BY <2>3, <2>4, SaidJoined
      <4> HIDE DEF new, a, b
      <4> QED
        BY <3>3, <4>1
    <3>5. Words(Append(front, new)) = Words(front) \o Said(new.speaker, new.text)
      <4> HIDE DEF new
      <4> QED
        BY <2>7, WordsAppend
    <3> HIDE DEF a, b, new
    <3>6. (Words(front) \o a) \o b = Words(front) \o (a \o b)
      <4> DEFINE c == Words(front)
      <4>1. c \in Seq(Pair)
        BY <3>1
      <4> HIDE DEF c
      <4>2. (c \o a) \o b = c \o (a \o b)
        BY <3>1, <4>1, ConcatAssociative, SMTT(30)
      <4> QED
        BY <4>2 DEF c
    <3>7. Words(Append(front, new)) = Words(said) \o b
      BY <3>2, <3>4, <3>5, <3>6
    <3> QED
      BY <3>7 DEF b
  <2>10. Apart(Append(front, new))
    <3> DEFINE g == Append(front, new)
    <3>1. /\ g \in Seq(Turn) /\ Len(g) = len /\ DOMAIN g = 1..len
          /\ g[len] = new /\ \A i \in 1..f : g[i] = front[i]
      <4> HIDE DEF new
      <4> QED
        BY <2>2, <2>7, AppendProperties, LenProperties
    <3>2. new.speaker = old.speaker
      BY <2>6
    <3>3. \A i \in 1..len : g[i].speaker = said[i].speaker
      <4> HIDE DEF g, new
      <4>1. ASSUME NEW i \in 1..len
            PROVE  g[i].speaker = said[i].speaker
        <5>1. CASE i = len
          BY <2>2, <3>1, <3>2, <5>1
        <5>2. CASE i # len
          <6>1. i \in 1..f
            BY <2>2, <5>2
          <6> QED
            BY <2>2, <3>1, <6>1
        <5> QED
          BY <5>1, <5>2
      <4> QED
        BY <4>1
    <3> HIDE DEF g
    <3>4. Apart(g)
      BY <1>1, <3>1, <3>3 DEF Apart
    <3> QED
      BY <3>4 DEF g
  <2>11. Append(front, new) \in Seq(Turn) /\ Append(front, new) # <<>>
    <3> HIDE DEF new
    <3> QED
      BY <2>7, AppendProperties
  <2> QED
    BY <2>8, <2>9, <2>10, <2>11
<1>4. CASE ~(said # <<>> /\ SameSpeaker(Last(said).speaker, s))
  <2> DEFINE g == Append(said, t)
  <2>1. PushText(said, s, text) = g
    BY <1>4 DEF PushText
  <2>2. g \in Seq(Turn) /\ g # <<>> /\ Len(g) = len + 1 /\ DOMAIN g = 1..(len + 1)
        /\ g[len + 1] = t /\ \A i \in 1..len : g[i] = said[i]
    <3> HIDE DEF t
    <3> QED
      BY <1>1, <1>2, AppendProperties, LenProperties
  <2>3. Words(g) = Words(said) \o Said(s, text)
    <3>1. t.speaker = s /\ t.text = text
      OBVIOUS
    <3> HIDE DEF t
    <3>2. Words(g) = Words(said) \o Said(t.speaker, t.text)
      BY <1>2, WordsAppend
    <3> QED
      BY <3>1, <3>2
  <2>4. Apart(g)
    <3>1. t.speaker = s
      OBVIOUS
    <3> HIDE DEF g, t
    <3>2. ASSUME NEW i \in DOMAIN g, i + 1 \in DOMAIN g
          PROVE  ~SameSpeaker(g[i].speaker, g[i + 1].speaker)
      <4>1. i \in 1..len
        BY <1>1, <2>2, <3>2
      <4>2. CASE i = len
        <5>1. said # <<>> /\ Last(said) = g[i] /\ g[i + 1] = t
          <6>1. said # <<>>
            BY <1>1, <4>1, EmptySeq
          <6> QED
            BY <2>2, <4>1, <4>2, <6>1 DEF Last
        <5> QED
          BY <1>4, <3>1, <5>1
      <4>3. CASE i # len
        <5>1. i + 1 \in 1..len
          BY <1>1, <4>1, <4>3
        <5> QED
          BY <1>1, <2>2, <4>1, <5>1 DEF Apart
      <4> QED
        BY <4>2, <4>3
    <3> QED
      BY <3>2 DEF Apart
  <2> QED
    BY <2>1, <2>2, <2>3, <2>4
<1> QED
  BY <1>3, <1>4

(* What may have been read of a draft.                                     *)
Sound(st) == st \in [turns : Seq(Turn), current : Stored] /\ Apart(st.turns)

(* The text of each line goes to the speaker it leaves behind.             *)
LEMMA ReadLineIs ==
  ASSUME NEW st, Sound(st), NEW l \in Written
  PROVE  /\ Sound(ReadLine(st, l))
         /\ ReadLine(st, l).current = IF Blank(l) THEN Narrator
                                      ELSE IF SplitTag(l) THEN TagSpeaker(l)
                                      ELSE st.current
         /\ Words(ReadLine(st, l).turns)
              = Words(st.turns) \o Said(ReadLine(st, l).current, LineText(l))
<1>1. /\ st.turns \in Seq(Turn) /\ st.current \in Stored /\ Apart(st.turns)
      /\ st = [turns |-> st.turns, current |-> st.current]
  BY DEF Sound
<1>2. /\ LineText(l) \in Seq(Nat) /\ (~SplitTag(l) => LineText(l) = l.text)
      /\ (l.tag # NoTag /\ ~l.sound => l.text # <<>>)
  BY LineTextIs DEF Written
<1>3. \A s \in Stored : Words(st.turns) = Words(st.turns) \o Said(s, <<>>)
  <2>1. Words(st.turns) \in Seq(Pair)
    BY <1>1, WordsType
  <2>2. ASSUME NEW s \in Stored
        PROVE  Said(s, <<>>) = <<>>
    <3>1. s \in Spellings /\ <<>> \in Seq(Nat) /\ Len(<<>>) = 0
      BY EmptySeq DEF Stored
    <3>2. Said(s, <<>>) \in Seq(Pair) /\ Len(Said(s, <<>>)) = 0
      BY <3>1, SaidIs
    <3> QED
      BY <3>2, EmptySeq
  <2> QED
    BY <2>1, <2>2, ConcatEmptySeq
<1> DEFINE read == ReadLine(st, l)
<1>4. CASE Blank(l)
  <2>1. read = [turns |-> st.turns, current |-> Narrator] /\ LineText(l) = <<>>
    BY <1>1, <1>2, <1>4 DEF ReadLine, Blank, SplitTag
  <2> HIDE DEF read
  <2>2. Sound(read)
    BY <1>1, <2>1, NarratorStored DEF Sound
  <2>3. Words(read.turns) = Words(st.turns) \o Said(read.current, LineText(l))
    BY <1>3, <2>1, NarratorStored
  <2> QED
    BY <1>4, <2>1, <2>2, <2>3 DEF read
<1>5. CASE ~Blank(l) /\ SplitTag(l)
  <2> DEFINE s == TagSpeaker(l)
  <2>1. s \in Stored
    BY <1>5, TagSpeakerIs
  <2>2. read = [current |-> s, turns |-> IF LineText(l) = <<>> THEN st.turns
                                         ELSE PushText(st.turns, s, LineText(l))]
    BY <1>5 DEF ReadLine
  <2> HIDE DEF read, s
  <2>3. read.turns \in Seq(Turn) /\ Apart(read.turns)
        /\ Words(read.turns) = Words(st.turns) \o Said(s, LineText(l))
    <3>1. CASE LineText(l) = <<>>
      BY <1>1, <1>3, <2>1, <2>2, <3>1
    <3>2. CASE LineText(l) # <<>>
      <4>1. read.turns = PushText(st.turns, s, LineText(l))
        BY <2>2, <3>2
      <4> QED
        BY <1>1, <1>2, <2>1, <3>2, <4>1, PushTextIs
    <3> QED
      BY <3>1, <3>2
  <2>4. read.current = s /\ read = [turns |-> read.turns, current |-> read.current]
    BY <2>2
  <2>5. Sound(read)
    BY <2>1, <2>3, <2>4 DEF Sound
  <2> QED
    BY <1>5, <2>3, <2>4, <2>5 DEF read, s
<1>6. CASE ~Blank(l) /\ ~SplitTag(l)
  <2> DEFINE s == st.current
  <2>1. LineText(l) # <<>> /\ LineText(l) = l.text
    BY <1>2, <1>6 DEF Blank, SplitTag
  <2>2. read = [turns |-> PushText(st.turns, s, LineText(l)), current |-> s]
    <3>1. read = [st EXCEPT !.turns = PushText(@, s, LineText(l))]
      BY <1>6, <2>1 DEF ReadLine
    <3> HIDE DEF read
    <3> QED
      BY <1>1, <3>1
  <2> HIDE DEF read
  <2>3. read.turns \in Seq(Turn) /\ Apart(read.turns)
        /\ Words(read.turns) = Words(st.turns) \o Said(s, LineText(l))
    BY <1>1, <1>2, <2>1, <2>2, PushTextIs
  <2>4. Sound(read) /\ read.current = st.current
    BY <1>1, <2>2, <2>3 DEF Sound
  <2> QED
    BY <1>6, <2>3, <2>4 DEF read
<1> QED
  BY <1>4, <1>5, <1>6

(* A set of numbers up to n that is not empty has a greatest one.          *)
LEMMA Greatest ==
  ASSUME NEW n \in Nat, NEW S \in SUBSET (1..n), S # {}
  PROVE  \E m \in S : \A k \in S : k <= m
<1> DEFINE Rest == {n - k : k \in S}
<1>1. PICK r \in Rest : \A q \in Rest : r <= q
  <2>1. Rest \in SUBSET Nat
    OBVIOUS
  <2>2. PICK k \in S : TRUE
    OBVIOUS
  <2>3. n - k \in Rest
    OBVIOUS
  <2> HIDE DEF Rest
  <2> QED
    BY <2>1, <2>3, Least
<1>2. PICK m \in S : r = n - m
  OBVIOUS
<1>3. ASSUME NEW k \in S
      PROVE  k <= m
  <2>1. n - k \in Rest
    OBVIOUS
  <2>2. r <= n - k
    <3> HIDE DEF Rest
    <3> QED
      BY <1>1, <2>1
  <2> QED
    BY <1>2, <2>2
<1> QED
  BY <1>3

(* The last tag above a line in its block.                                 *)
LastTag(lines, i) == CHOOSE j \in TagsAbove(lines, i) : \A k \in TagsAbove(lines, i) : k <= j

(* The speaker of a line, by its last tag.                                  *)
LEMMA SpokenByIs ==
  ASSUME NEW lines, NEW i
  PROVE  SpokenBy(lines, i) = IF TagsAbove(lines, i) = {} THEN Narrator
                              ELSE TagSpeaker(lines[LastTag(lines, i)])
BY DEF SpokenBy, LastTag

(* The last tag is one, and none comes after it.                            *)
LEMMA LastTagIs ==
  ASSUME NEW lines, NEW i \in Nat, TagsAbove(lines, i) # {}
  PROVE  /\ LastTag(lines, i) \in TagsAbove(lines, i)
         /\ \A k \in TagsAbove(lines, i) : k <= LastTag(lines, i)
         /\ LastTag(lines, i) \in 1..i /\ SplitTag(lines[LastTag(lines, i)])
<1> DEFINE S == TagsAbove(lines, i)
<1>1. S \in SUBSET (1..i) /\ \A j \in S : SplitTag(lines[j])
  BY DEF TagsAbove
<1>2. \E m \in S : \A k \in S : k <= m
  <2> HIDE DEF S
  <2>1. S # {}
    BY DEF S
  <2> QED
    BY <1>1, <2>1, Greatest
<1>3. LastTag(lines, i) = CHOOSE j \in S : \A k \in S : k <= j
  BY DEF LastTag
<1> HIDE DEF S
<1>4. LastTag(lines, i) \in S /\ \A k \in S : k <= LastTag(lines, i)
  BY <1>2, <1>3
<1> QED
  BY <1>1, <1>4 DEF S

(* Whoever says a line can be stored.                                       *)
LEMMA SpokenByStored ==
  ASSUME NEW lines \in Seq(Written), NEW i \in 1..Len(lines)
  PROVE  SpokenBy(lines, i) \in Stored
<1>0. i \in Nat /\ Len(lines) \in Nat
  BY LenProperties
<1>1. CASE TagsAbove(lines, i) = {}
  BY <1>1, NarratorStored, SpokenByIs
<1>2. CASE TagsAbove(lines, i) # {}
  <2> DEFINE j == LastTag(lines, i)
  <2>1. j \in 1..i /\ SplitTag(lines[j])
    BY <1>0, <1>2, LastTagIs
  <2>2. lines[j] \in Written
    <3>1. j \in 1..Len(lines)
      BY <1>0, <2>1
    <3> HIDE DEF j
    <3> QED
      BY <3>1, ElementOfSeq
  <2>3. TagSpeaker(lines[j]) \in Stored
    <3> HIDE DEF j
    <3> QED
      BY <2>1, <2>2, TagSpeakerIs
  <2> QED
    BY <1>2, <2>3, SpokenByIs
<1> QED
  BY <1>1, <1>2

(* Two drafts alike up to a line say it alike.                             *)
LEMMA SpokenByAlike ==
  ASSUME NEW lines, NEW more, NEW i \in Nat, \A j \in 1..i : more[j] = lines[j]
  PROVE  SpokenBy(more, i) = SpokenBy(lines, i)
<1>1. TagsAbove(more, i) = TagsAbove(lines, i)
  <2>1. ASSUME NEW j \in 1..i
        PROVE  j \in TagsAbove(more, i) <=> j \in TagsAbove(lines, i)
    <3>1. more[j] = lines[j] /\ \A k \in j..i : more[k] = lines[k]
      OBVIOUS
    <3>2. (\A k \in j..i : ~Blank(more[k])) <=> (\A k \in j..i : ~Blank(lines[k]))
      BY <3>1
    <3> QED
      BY <3>1, <3>2 DEF TagsAbove
  <2>2. TagsAbove(more, i) \subseteq 1..i /\ TagsAbove(lines, i) \subseteq 1..i
    BY DEF TagsAbove
  <2> QED
    BY <2>1, <2>2
<1>2. LastTag(more, i) = LastTag(lines, i)
  BY <1>1 DEF LastTag
<1>3. CASE TagsAbove(lines, i) = {}
  BY <1>1, <1>3, SpokenByIs
<1>4. CASE TagsAbove(lines, i) # {}
  <2>1. LastTag(lines, i) \in 1..i
    BY <1>4, LastTagIs
  <2>2. more[LastTag(lines, i)] = lines[LastTag(lines, i)]
    BY <2>1
  <2> QED
    BY <1>1, <1>2, <1>4, <2>2, SpokenByIs
<1> QED
  BY <1>3, <1>4

(* Who says a line: the narrator, whom its tag names, or who said the last.*)
LEMMA SpokenByNext ==
  ASSUME NEW lines, NEW n \in Nat
  PROVE  SpokenBy(lines, n + 1)
           = IF Blank(lines[n + 1]) THEN Narrator
             ELSE IF SplitTag(lines[n + 1]) THEN TagSpeaker(lines[n + 1])
             ELSE IF n = 0 THEN Narrator ELSE SpokenBy(lines, n)
<1> DEFINE m == n + 1
           S == TagsAbove(lines, m)
<1>1. \A j : j \in S <=> j \in 1..m /\ SplitTag(lines[j]) /\ \A k \in j..m : ~Blank(lines[k])
  BY DEF TagsAbove
<1>2. m \in Nat /\ m \in 1..m
  OBVIOUS
<1>3. CASE Blank(lines[m])
  <2>1. \A j \in 1..m : m \in j..m
    OBVIOUS
  <2>2. S = {}
    <3> HIDE DEF m, S
    <3> QED
      BY <1>1, <1>3, <2>1
  <2>3. SpokenBy(lines, m) = Narrator
    BY <2>2, SpokenByIs
  <2> QED
    BY <1>3, <2>3
<1>4. CASE ~Blank(lines[m]) /\ SplitTag(lines[m])
  <2>1. m \in S
    <3>1. \A k \in m..m : k = m
      OBVIOUS
    <3> HIDE DEF m, S
    <3> QED
      BY <1>1, <1>2, <1>4, <3>1
  <2>2. LastTag(lines, m) \in 1..m /\ m <= LastTag(lines, m)
    <3>1. S # {}
      BY <2>1
    <3> HIDE DEF m
    <3> QED
      BY <1>2, <2>1, <3>1, LastTagIs
  <2>3. LastTag(lines, m) = m
    BY <2>2
  <2>4. SpokenBy(lines, m) = TagSpeaker(lines[m])
    <3>1. S # {}
      BY <2>1
    <3> HIDE DEF m
    <3> QED
      BY <2>3, <3>1, SpokenByIs
  <2> QED
    BY <1>4, <2>4
<1>5. CASE ~Blank(lines[m]) /\ ~SplitTag(lines[m])
  <2>1. S = TagsAbove(lines, n)
    <3>1. \A j : j \in TagsAbove(lines, n) <=>
                   j \in 1..n /\ SplitTag(lines[j]) /\ \A k \in j..n : ~Blank(lines[k])
      BY DEF TagsAbove
    <3>2. \A j : j \in 1..m <=> j \in 1..n \/ j = m
      OBVIOUS
    <3>3. ASSUME NEW j \in 1..n
          PROVE  (\A k \in j..m : ~Blank(lines[k])) <=> (\A k \in j..n : ~Blank(lines[k]))
      <4>1. \A k : k \in j..m <=> k \in j..n \/ k = m
        OBVIOUS
      <4> HIDE DEF m
      <4> QED
        BY <1>5, <4>1
    <3> HIDE DEF m, S
    <3>4. ASSUME NEW j
          PROVE  j \in S <=> j \in TagsAbove(lines, n)
      <4>1. CASE j \in 1..n
        BY <1>1, <3>1, <3>2, <3>3, <4>1
      <4>2. CASE j \notin 1..n
        BY <1>1, <1>5, <3>1, <3>2, <4>2
      <4> QED
        BY <4>1, <4>2
    <3> QED
      BY <3>4
  <2>2. LastTag(lines, m) = LastTag(lines, n)
    BY <2>1 DEF LastTag
  <2>3. SpokenBy(lines, m) = SpokenBy(lines, n)
    BY <2>1, <2>2, SpokenByIs
  <2>4. n = 0 => SpokenBy(lines, n) = Narrator
    <3>1. n = 0 => TagsAbove(lines, n) = {}
      BY DEF TagsAbove
    <3> QED
      BY <3>1, SpokenByIs
  <2> QED
    BY <1>5, <2>3, <2>4
<1> QED
  BY <1>3, <1>4, <1>5

(* All that is said in a draft, line by line.                              *)
SaidIn(lines) == FlattenSeq([i \in DOMAIN lines |-> Said(SpokenBy(lines, i), LineText(lines[i]))])

(* What lines say is sequences of pairs.                                    *)
LEMMA LinesTyped ==
  ASSUME NEW lines \in Seq(Written)
  PROVE  [i \in DOMAIN lines |-> Said(SpokenBy(lines, i), LineText(lines[i]))] \in Seq(Seq(Pair))
<1>1. Len(lines) \in Nat /\ DOMAIN lines = 1..Len(lines)
  BY LenProperties
<1>2. ASSUME NEW i \in 1..Len(lines)
      PROVE  Said(SpokenBy(lines, i), LineText(lines[i])) \in Seq(Pair)
  <2>1. lines[i] \in Written
    BY ElementOfSeq
  <2>2. SpokenBy(lines, i) \in Spellings /\ LineText(lines[i]) \in Seq(Nat)
    BY <2>1, SpokenByStored, LineTextIs DEF Stored
  <2> QED
    BY <2>2, SaidIs
<1>3. [i \in 1..Len(lines) |-> Said(SpokenBy(lines, i), LineText(lines[i]))]
        \in [1..Len(lines) -> Seq(Pair)]
  BY <1>2
<1> QED
  BY <1>1, <1>3, SeqDef

(* One more line says one thing more.                                       *)
LEMMA SaidInAppend ==
  ASSUME NEW lines \in Seq(Written), NEW l \in Written
  PROVE  SaidIn(Append(lines, l))
           = SaidIn(lines) \o Said(SpokenBy(Append(lines, l), Len(lines) + 1), LineText(l))
<1> DEFINE more == Append(lines, l)
           len == Len(lines)
           pieces == [i \in DOMAIN lines |-> Said(SpokenBy(lines, i), LineText(lines[i]))]
           all == [i \in DOMAIN more |-> Said(SpokenBy(more, i), LineText(more[i]))]
           new == Said(SpokenBy(more, len + 1), LineText(l))
<1>1. /\ len \in Nat /\ DOMAIN lines = 1..len /\ more \in Seq(Written) /\ Len(more) = len + 1
      /\ DOMAIN more = 1..(len + 1) /\ more[len + 1] = l /\ \A i \in 1..len : more[i] = lines[i]
  BY LenProperties, AppendProperties
<1>2. pieces \in Seq(Seq(Pair)) /\ Len(pieces) = len
        /\ \A i \in 1..len : pieces[i] = Said(SpokenBy(lines, i), LineText(lines[i]))
  <2>1. pieces \in Seq(Seq(Pair))
    BY LinesTyped
  <2>2. DOMAIN pieces = 1..len
    BY <1>1
  <2>3. Len(pieces) = len
    <3> HIDE DEF pieces
    <3> QED
      BY <1>1, <2>1, <2>2, LenProperties
  <2> QED
    BY <1>1, <2>1, <2>3
<1>3. all \in Seq(Seq(Pair)) /\ Len(all) = len + 1
        /\ \A i \in 1..(len + 1) : all[i] = Said(SpokenBy(more, i), LineText(more[i]))
  <2>1. all \in Seq(Seq(Pair))
    <3> HIDE DEF more
    <3> QED
      BY <1>1, LinesTyped
  <2>2. DOMAIN all = 1..(len + 1)
    BY <1>1
  <2>3. Len(all) = len + 1
    <3> HIDE DEF all
    <3> QED
      BY <1>1, <2>1, <2>2, LenProperties
  <2> QED
    BY <1>1, <2>1, <2>3
<1>4. \A i \in 1..len : SpokenBy(more, i) = SpokenBy(lines, i)
  <2>1. ASSUME NEW i \in 1..len
        PROVE  SpokenBy(more, i) = SpokenBy(lines, i)
    <3>1. i \in Nat /\ \A j \in 1..i : more[j] = lines[j]
      BY <1>1
    <3> HIDE DEF more
    <3> QED
      BY <3>1, SpokenByAlike
  <2> QED
    BY <2>1
<1>5. new \in Seq(Pair)
  <2>1. SpokenBy(more, len + 1) \in Stored
    <3>1. len + 1 \in 1..Len(more)
      BY <1>1
    <3> HIDE DEF more, len
    <3> QED
      BY <1>1, <3>1, SpokenByStored
  <2>2. SpokenBy(more, len + 1) \in Spellings /\ LineText(l) \in Seq(Nat)
    BY <2>1, LineTextIs DEF Stored
  <2> QED
    BY <2>2, SaidIs
<1> HIDE DEF more, pieces, all, new, len
<1>6. all = Append(pieces, new)
  <2>1. /\ Append(pieces, new) \in Seq(Seq(Pair)) /\ Len(Append(pieces, new)) = len + 1
        /\ Append(pieces, new)[len + 1] = new
        /\ \A i \in 1..len : Append(pieces, new)[i] = pieces[i]
    BY <1>2, <1>5, AppendProperties
  <2>2. ASSUME NEW i \in 1..(len + 1)
        PROVE  all[i] = Append(pieces, new)[i]
    <3>1. CASE i = len + 1
      <4>1. all[i] = Said(SpokenBy(more, len + 1), LineText(l))
        BY <1>1, <1>3, <3>1
      <4> QED
        BY <2>1, <3>1, <4>1 DEF new
    <3>2. CASE i # len + 1
      <4>1. i \in 1..len
        BY <1>1, <3>2
      <4>2. all[i] = Said(SpokenBy(lines, i), LineText(lines[i]))
        BY <1>1, <1>3, <1>4, <4>1
      <4> QED
        BY <1>2, <2>1, <4>1, <4>2
    <3> QED
      BY <3>1, <3>2
  <2> QED
    BY <1>3, <2>1, <2>2, SeqEqual
<1>7. FlattenSeq(all) = FlattenSeq(pieces) \o new
  BY <1>2, <1>5, <1>6, FlattenAppend
<1> QED
  BY <1>7 DEF SaidIn, more, pieces, all, new, len

(* Reading a draft gives sound turns, which say what its lines say.        *)
LEMMA ReadSays ==
  ASSUME NEW lines \in Seq(Written)
  PROVE  /\ Sound(Read(lines))
         /\ Words(Read(lines).turns) = SaidIn(lines)
<1> DEFINE Speaker(ls) == IF ls = <<>> THEN Narrator ELSE SpokenBy(ls, Len(ls))
           Says(ls) == /\ Sound(Read(ls))
                       /\ Read(ls).current = Speaker(ls)
                       /\ Words(Read(ls).turns) = SaidIn(ls)
           Bad == {ls \in Seq(Written) : ~Says(ls)}
<1>1. Says(<<>>)
  <2>1. Read(<<>>) = [turns |-> <<>>, current |-> Narrator]
    BY ReadNothing DEF Fresh
  <2>2. <<>> \in Seq(Turn) /\ DOMAIN <<>> = {} /\ Apart(<<>>)
    BY EmptySeq DEF Apart
  <2>3. Words(<<>>) = <<>> /\ SaidIn(<<>>) = <<>>
    <3>1. [i \in DOMAIN <<>> |-> Said(<<>>[i].speaker, <<>>[i].text)] = <<>>
      OBVIOUS
    <3>2. [i \in DOMAIN <<>> |-> Said(SpokenBy(<<>>, i), LineText(<<>>[i]))] = <<>>
      OBVIOUS
    <3> QED
      BY <3>1, <3>2, FlattenEmpty DEF Words, SaidIn
  <2> DEFINE st == Read(<<>>)
             none == <<>>
  <2>4. st = [turns |-> none, current |-> Narrator]
    BY <2>1
  <2>5. st.turns = <<>> /\ st.current = Narrator
    BY <2>1
  <2> HIDE DEF st, none
  <2>7. st \in [turns : Seq(Turn), current : Stored]
    <3>1. none \in Seq(Turn)
      BY <2>2 DEF none
    <3> QED
      BY <2>4, <3>1, NarratorStored
  <2>6. Sound(st)
    BY <2>2, <2>5, <2>7 DEF Sound
  <2> QED
    BY <2>3, <2>5, <2>6 DEF st
<1>2. ASSUME NEW ls \in Seq(Written), NEW l \in Written, Says(ls)
      PROVE  Says(Append(ls, l))
  <2> DEFINE more == Append(ls, l)
             st == Read(ls)
             read == ReadLine(st, l)
             m == Len(ls) + 1
  <2>1. Read(more) = read
    BY ReadAppend
  <2>2. /\ Sound(read)
        /\ read.current = IF Blank(l) THEN Narrator
                          ELSE IF SplitTag(l) THEN TagSpeaker(l) ELSE st.current
        /\ Words(read.turns) = Words(st.turns) \o Said(read.current, LineText(l))
    <3>1. Sound(st)
      BY <1>2
    <3> HIDE DEF st
    <3> QED
      BY <3>1, ReadLineIs
  <2>3. Len(ls) \in Nat /\ more # <<>> /\ Len(more) = m /\ more[m] = l /\ (ls = <<>> <=> Len(ls) = 0)
        /\ \A i \in 1..Len(ls) : more[i] = ls[i]
    BY LenProperties, AppendProperties, EmptySeq
  <2>4. SpokenBy(more, m) = IF Blank(l) THEN Narrator
                            ELSE IF SplitTag(l) THEN TagSpeaker(l)
                            ELSE IF Len(ls) = 0 THEN Narrator ELSE SpokenBy(more, Len(ls))
    <3> HIDE DEF more
    <3> QED
      BY <2>3, SpokenByNext
  <2>5. SpokenBy(more, Len(ls)) = SpokenBy(ls, Len(ls))
    <3> HIDE DEF more
    <3> QED
      BY <2>3, SpokenByAlike
  <2>6. st.current = IF Len(ls) = 0 THEN Narrator ELSE SpokenBy(ls, Len(ls))
    BY <1>2, <2>3
  <2>7. SaidIn(more) = SaidIn(ls) \o Said(SpokenBy(more, m), LineText(l))
    BY SaidInAppend
  <2>8. Words(st.turns) = SaidIn(ls)
    BY <1>2
  <2> HIDE DEF read, st, more, m
  <2>9. read.current = SpokenBy(more, m)
    BY <2>2, <2>4, <2>5, <2>6
  <2>10. Read(more).current = Speaker(more)
    BY <2>1, <2>3, <2>9
  <2>11. Words(Read(more).turns) = SaidIn(more)
    BY <2>1, <2>2, <2>7, <2>8, <2>9
  <2>12. Sound(Read(more))
    BY <2>1, <2>2
  <2>13. Says(more)
    BY <2>10, <2>11, <2>12
  <2> QED
    BY <2>13 DEF more
<1> HIDE DEF Says
<1>3. Bad = {}
  <2>1. Bad \in SUBSET Seq(Written) /\ <<>> \notin Bad
    BY <1>1
  <2>2. \A ls \in Seq(Written), l \in Written : Append(ls, l) \in Bad => ls \in Bad
    BY <1>2
  <2> HIDE DEF Bad
  <2> QED
    BY <2>1, <2>2, Shortest
<1>4. Says(lines)
  BY <1>3
<1> QED
  BY <1>4 DEF Says

(* The turns of any draft are its prose.                                   *)
THEOREM ParseIsFaithful ==
  ASSUME NEW lines \in Seq(Written)
  PROVE  /\ ParseTaggedProse(lines) \in Seq(Turn) /\ Apart(ParseTaggedProse(lines))
         /\ FaithfulTurns(lines, ParseTaggedProse(lines))
<1> DEFINE said == Read(lines).turns
<1>1. ParseTaggedProse(lines) = said
  BY ParseIs
<1>2. said \in Seq(Turn) /\ Apart(said) /\ Words(said) = SaidIn(lines)
  BY ReadSays DEF Sound
<1> HIDE DEF said
<1>3. FaithfulTurns(lines, said)
  BY <1>2 DEF FaithfulTurns, Words, SaidIn, Said, Apart
<1> QED
  BY <1>1, <1>2, <1>3

-----------------------------------------------------------------------------
(* Writing turns down and reading them again.                              *)

Tagged(t) == [tag |-> t.speaker, sound |-> TRUE, text |-> t.text]
BlankLine == [tag |-> NoTag, sound |-> TRUE, text |-> <<>>]

(* A turn that is read as it was written.                                  *)
Plain(t) == t.text[1] # Colon /\ NameOf[t.speaker] = t.speaker

(* A sequence of two.                                                       *)
LEMMA PairIs ==
  ASSUME NEW A, NEW a \in A, NEW b \in A
  PROVE  Append(<<a>>, b) = <<a, b>>
<1>1. <<a>> \in Seq(A) /\ Len(<<a>>) = 1 /\ <<a>>[1] = a
  OBVIOUS
<1>2. <<a, b>> \in Seq(A) /\ Len(<<a, b>>) = 2 /\ <<a, b>>[1] = a /\ <<a, b>>[2] = b
  OBVIOUS
<1> DEFINE s == Append(<<a>>, b)
<1>3. s \in Seq(A) /\ Len(s) = 2 /\ s[1] = a /\ s[2] = b
  BY <1>1, AppendProperties
<1> HIDE DEF s
<1>4. \A i \in 1..2 : s[i] = <<a, b>>[i]
  <2>1. \A i \in 1..2 : i = 1 \/ i = 2
    OBVIOUS
  <2> QED
    BY <1>2, <1>3, <2>1
<1>5. s = <<a, b>>
  BY <1>2, <1>3, <1>4, SeqEqual
<1> QED
  BY <1>5 DEF s

(* A turn written down is a line under a tag, of his name who says it, if  *)
(* no colon is taken for the tag's.                                        *)
LEMMA TaggedIs ==
  ASSUME NEW t \in Turn
  PROVE  /\ Tagged(t) \in Written /\ BlankLine \in Written
         /\ SplitTag(Tagged(t)) /\ ~Blank(Tagged(t)) /\ Blank(BlankLine)
         /\ Plain(t) => TagSpeaker(Tagged(t)) = t.speaker /\ LineText(Tagged(t)) = t.text
<1>1. t.speaker \in Stored /\ t.speaker \in Spellings /\ t.text \in Seq(Nat) /\ t.text # <<>>
  BY TurnIs
<1>2. t.speaker \in Tags /\ t.speaker # NoTag
  BY <1>1, TagsAssumption
<1>3. CanonicalSpeaker(t.speaker) = t.speaker
  BY <1>1 DEF Stored
<1>4. <<>> \in Seq(Nat)
  BY EmptySeq
<1>5. Tagged(t) \in Written /\ BlankLine \in Written
  BY <1>1, <1>2, <1>4 DEF Tagged, BlankLine, Written, Line
<1>6. SplitTag(Tagged(t)) /\ ~Blank(Tagged(t)) /\ Blank(BlankLine)
  BY <1>2 DEF Tagged, BlankLine, SplitTag, Blank
<1>7. ASSUME Plain(t)
      PROVE  TagSpeaker(Tagged(t)) = t.speaker /\ LineText(Tagged(t)) = t.text
  <2>1. TagSpeaker(Tagged(t)) = t.speaker
    BY <1>3, <1>7 DEF TagSpeaker, Tagged, Plain
  <2>2. Tagged(t).text = t.text
    BY DEF Tagged
  <2>3. Head(t.text) # Colon
    BY <1>1, <1>7, HeadTailProperties DEF Plain
  <2> QED
    BY <2>1, <2>2, <2>3 DEF LineText
<1> QED
  BY <1>5, <1>6, <1>7

(* Turns written down are sequences of lines.                               *)
LEMMA BlocksTyped ==
  ASSUME NEW said \in Seq(Turn)
  PROVE  [i \in DOMAIN said |-> <<Tagged(said[i]), BlankLine>>] \in Seq(Seq(Written))
<1>1. Len(said) \in Nat /\ DOMAIN said = 1..Len(said)
  BY LenProperties
<1>2. ASSUME NEW i \in 1..Len(said)
      PROVE  <<Tagged(said[i]), BlankLine>> \in Seq(Written)
  <2>1. said[i] \in Turn
    BY ElementOfSeq
  <2>2. Tagged(said[i]) \in Written /\ BlankLine \in Written
    BY <2>1, TaggedIs
  <2> QED
    BY <2>2
<1>3. [i \in 1..Len(said) |-> <<Tagged(said[i]), BlankLine>>] \in [1..Len(said) -> Seq(Written)]
  BY <1>2
<1> QED
  BY <1>1, <1>3, SeqDef

(* The markdown is their blocks, joined.                                    *)
LEMMA MarkdownIs ==
  ASSUME NEW said
  PROVE  ChapterMarkdown(said) = FlattenSeq([i \in DOMAIN said |-> <<Tagged(said[i]), BlankLine>>])
BY DEF ChapterMarkdown, Tagged, BlankLine

(* The markdown is lines.                                                   *)
LEMMA MarkdownWritten ==
  ASSUME NEW said \in Seq(Turn)
  PROVE  ChapterMarkdown(said) \in Seq(Written)
<1> DEFINE blocks == [i \in DOMAIN said |-> <<Tagged(said[i]), BlankLine>>]
<1>1. blocks \in Seq(Seq(Written))
  BY BlocksTyped
<1>2. ChapterMarkdown(said) = FlattenSeq(blocks)
  BY MarkdownIs
<1> HIDE DEF blocks
<1> QED
  BY <1>1, <1>2, FlattenType

(* One more turn is two more lines.                                         *)
LEMMA MarkdownAppend ==
  ASSUME NEW said \in Seq(Turn), NEW t \in Turn
  PROVE  /\ ChapterMarkdown(said) \in Seq(Written)
         /\ ChapterMarkdown(Append(said, t))
              = Append(Append(ChapterMarkdown(said), Tagged(t)), BlankLine)
<1> DEFINE more == Append(said, t)
           blocks == [i \in DOMAIN said |-> <<Tagged(said[i]), BlankLine>>]
           all == [i \in DOMAIN more |-> <<Tagged(more[i]), BlankLine>>]
           new == <<Tagged(t), BlankLine>>
           len == Len(said)
<1>1. /\ len \in Nat /\ DOMAIN said = 1..len /\ more \in Seq(Turn) /\ Len(more) = len + 1
      /\ DOMAIN more = 1..(len + 1) /\ more[len + 1] = t /\ \A i \in 1..len : more[i] = said[i]
  BY LenProperties, AppendProperties
<1>2. blocks \in Seq(Seq(Written)) /\ Len(blocks) = len
        /\ \A i \in 1..len : blocks[i] = <<Tagged(said[i]), BlankLine>>
  <2>1. blocks \in Seq(Seq(Written))
    BY BlocksTyped
  <2>2. DOMAIN blocks = 1..len
    BY <1>1
  <2>3. Len(blocks) = len
    <3> HIDE DEF blocks
    <3> QED
      BY <1>1, <2>1, <2>2, LenProperties
  <2> QED
    BY <1>1, <2>1, <2>3
<1>3. all \in Seq(Seq(Written)) /\ Len(all) = len + 1
        /\ \A i \in 1..(len + 1) : all[i] = <<Tagged(more[i]), BlankLine>>
  <2>1. all \in Seq(Seq(Written))
    <3> HIDE DEF more
    <3> QED
      BY <1>1, BlocksTyped
  <2>2. DOMAIN all = 1..(len + 1)
    BY <1>1
  <2>3. Len(all) = len + 1
    <3> HIDE DEF all
    <3> QED
      BY <1>1, <2>1, <2>2, LenProperties
  <2> QED
    BY <1>1, <2>1, <2>3
<1>4. new \in Seq(Written) /\ Tagged(t) \in Written /\ BlankLine \in Written
  <2>1. Tagged(t) \in Written /\ BlankLine \in Written
    BY TaggedIs
  <2> QED
    BY <2>1
<1>5. FlattenSeq(blocks) \in Seq(Written)
  BY <1>2, FlattenType
<1> HIDE DEF more, blocks, all, len
<1>6. all = Append(blocks, new)
  <2>1. /\ Append(blocks, new) \in Seq(Seq(Written)) /\ Len(Append(blocks, new)) = len + 1
        /\ Append(blocks, new)[len + 1] = new
        /\ \A i \in 1..len : Append(blocks, new)[i] = blocks[i]
    <3> HIDE DEF new
    <3> QED
      BY <1>2, <1>4, AppendProperties
  <2>2. ASSUME NEW i \in 1..(len + 1)
        PROVE  all[i] = Append(blocks, new)[i]
    <3>1. CASE i = len + 1
      <4>1. all[i] = new
        BY <1>1, <1>3, <3>1
      <4> HIDE DEF new
      <4> QED
        BY <2>1, <3>1, <4>1
    <3>2. CASE i # len + 1
      <4>1. i \in 1..len
        BY <1>1, <3>2
      <4>2. all[i] = <<Tagged(said[i]), BlankLine>>
        BY <1>1, <1>3, <4>1
      <4> HIDE DEF new
      <4> QED
        BY <1>2, <2>1, <4>1, <4>2
    <3> QED
      BY <3>1, <3>2
  <2> HIDE DEF new
  <2> QED
    BY <1>3, <2>1, <2>2, SeqEqual
<1>7. FlattenSeq(all) = FlattenSeq(blocks) \o new
  <2> HIDE DEF new
  <2> QED
    BY <1>2, <1>4, <1>6, FlattenAppend
<1>8. FlattenSeq(blocks) \o new = Append(Append(FlattenSeq(blocks), Tagged(t)), BlankLine)
  <2> DEFINE s == FlattenSeq(blocks)
             a == Tagged(t)
             b == BlankLine
  <2>1. s \in Seq(Written) /\ a \in Written /\ b \in Written
    BY <1>4, <1>5
  <2>2. new = <<a>> \o <<b>> /\ <<a>> \in Seq(Written) /\ <<b>> \in Seq(Written)
    <3>1. new = <<a, b>>
      OBVIOUS
    <3> HIDE DEF a, b, new
    <3>2. <<a>> \in Seq(Written) /\ <<b>> \in Seq(Written)
      BY <2>1
    <3>3. Append(<<a>>, b) = <<a>> \o <<b>>
      BY <2>1, <3>2, AppendIsConcat
    <3>4. Append(<<a>>, b) = <<a, b>>
      BY <2>1, PairIs
    <3> QED
      BY <3>1, <3>2, <3>3, <3>4
  <2> HIDE DEF s, a, b, new
  <2>3. Append(s, a) = s \o <<a>> /\ Append(s, a) \in Seq(Written)
    BY <2>1, AppendIsConcat, AppendProperties
  <2>4. Append(Append(s, a), b) = (s \o <<a>>) \o <<b>>
    BY <2>1, <2>3, AppendIsConcat
  <2>5. (s \o <<a>>) \o <<b>> = s \o (<<a>> \o <<b>>)
    BY <2>1, <2>2, ConcatAssociative
  <2>6. s \o new = Append(Append(s, a), b)
    BY <2>2, <2>4, <2>5
  <2> QED
    BY <2>6 DEF s, a, b
<1> QED
  BY <1>5, <1>7, <1>8, MarkdownIs DEF more, blocks, all

(* A turn of another speaker than the last is one more turn.               *)
LEMMA PushTurn ==
  ASSUME NEW ts \in Seq(Turn), NEW t \in Turn, Apart(Append(ts, t))
  PROVE  Apart(ts) /\ PushText(ts, t.speaker, t.text) = Append(ts, t)
<1> DEFINE more == Append(ts, t)
           len == Len(ts)
<1>1. /\ len \in Nat /\ DOMAIN ts = 1..len /\ DOMAIN more = 1..(len + 1)
      /\ more[len + 1] = t /\ \A i \in 1..len : more[i] = ts[i]
  BY LenProperties, AppendProperties
<1>2. Apart(more)
  OBVIOUS
<1> HIDE DEF more
<1>3. \A i \in 1..len : ~SameSpeaker(more[i].speaker, more[i + 1].speaker)
  BY <1>1, <1>2 DEF Apart
<1>4. Apart(ts)
  <2>1. ASSUME NEW i \in DOMAIN ts, i + 1 \in DOMAIN ts
        PROVE  ~SameSpeaker(ts[i].speaker, ts[i + 1].speaker)
    <3>1. i \in 1..len /\ i + 1 \in 1..len
      BY <1>1, <2>1
    <3>2. more[i] = ts[i] /\ more[i + 1] = ts[i + 1]
      BY <1>1, <3>1
    <3> QED
      BY <1>3, <3>1, <3>2
  <2> QED
    BY <2>1 DEF Apart
<1>5. ~(ts # <<>> /\ SameSpeaker(Last(ts).speaker, t.speaker))
  <2> SUFFICES ASSUME ts # <<>> PROVE ~SameSpeaker(Last(ts).speaker, t.speaker)
    OBVIOUS
  <2>1. len \in 1..len
    BY <1>1, EmptySeq
  <2>2. more[len] = Last(ts) /\ more[len + 1] = t
    BY <1>1, <2>1 DEF Last
  <2> QED
    BY <1>3, <2>1, <2>2
<1>6. t = [speaker |-> t.speaker, kind |-> ClassifySpeaker(t.speaker), text |-> t.text]
  BY TurnIs
<1>7. PushText(ts, t.speaker, t.text)
        = Append(ts, [speaker |-> t.speaker, kind |-> ClassifySpeaker(t.speaker), text |-> t.text])
  BY <1>5 DEF PushText
<1> QED
  BY <1>4, <1>6, <1>7

(* What is written down of turns is read as those turns, unless a turn     *)
(* begins or a name ends with a colon.                                     *)
THEOREM RoundTrip ==
  ASSUME NEW said \in Seq(Turn), Apart(said), WithoutColons(said)
  PROVE  ParseTaggedProse(ChapterMarkdown(said)) = said
<1> DEFINE Again(ts) == Apart(ts) /\ WithoutColons(ts) =>
                         /\ Read(ChapterMarkdown(ts)).turns = ts
                         /\ Read(ChapterMarkdown(ts)).current = Narrator
           Bad == {ts \in Seq(Turn) : ~Again(ts)}
<1>1. Again(<<>>)
  <2>1. [i \in DOMAIN <<>> |-> <<Tagged(<<>>[i]), BlankLine>>] = <<>>
    OBVIOUS
  <2>2. ChapterMarkdown(<<>>) = <<>>
    BY <2>1, FlattenEmpty, MarkdownIs
  <2> QED
    BY <2>2, ReadNothing DEF Fresh
<1>2. ASSUME NEW ts \in Seq(Turn), NEW t \in Turn, Again(ts), Apart(Append(ts, t)),
             WithoutColons(Append(ts, t))
      PROVE  /\ Read(ChapterMarkdown(Append(ts, t))).turns = Append(ts, t)
             /\ Read(ChapterMarkdown(Append(ts, t))).current = Narrator
  <2> DEFINE m == ChapterMarkdown(ts)
             a == Tagged(t)
             b == BlankLine
             st == Read(m)
             one == ReadLine(st, a)
             two == ReadLine(one, b)
  <2>1. /\ m \in Seq(Written) /\ a \in Written /\ b \in Written
        /\ ChapterMarkdown(Append(ts, t)) = Append(Append(m, a), b)
    BY MarkdownAppend, TaggedIs
  <2>2. Read(Append(Append(m, a), b)) = two
    <3> HIDE DEF m, a, b
    <3>1. Append(m, a) \in Seq(Written)
      BY <2>1, AppendProperties
    <3>2. Read(Append(Append(m, a), b)) = ReadLine(Read(Append(m, a)), b)
      BY <2>1, <3>1, ReadAppend
    <3>3. Read(Append(m, a)) = one
      BY <2>1, ReadAppend
    <3> QED
      BY <3>2, <3>3
  <2>3. Apart(ts) /\ PushText(ts, t.speaker, t.text) = Append(ts, t)
    BY <1>2, PushTurn
  <2>7. WithoutColons(ts) /\ Plain(t)
    <3> DEFINE more == Append(ts, t)
               len == Len(ts)
    <3>1. /\ len \in Nat /\ DOMAIN ts = 1..len /\ DOMAIN more = 1..(len + 1)
          /\ more[len + 1] = t /\ \A i \in 1..len : more[i] = ts[i]
      BY LenProperties, AppendProperties
    <3>2. WithoutColons(more)
      BY <1>2
    <3> HIDE DEF more, len
    <3>3. \A i \in 1..(len + 1) : Plain(more[i])
      BY <3>1, <3>2 DEF WithoutColons, Plain
    <3>4. \A i \in 1..len : i \in 1..(len + 1) /\ len + 1 \in 1..(len + 1)
      BY <3>1
    <3>5. Plain(t) /\ \A i \in 1..len : Plain(ts[i])
      BY <3>1, <3>3, <3>4
    <3> QED
      BY <3>1, <3>5 DEF WithoutColons, Plain
  <2>4. st.turns = ts
    BY <1>2, <2>3, <2>7
  <2>5. one = [current |-> t.speaker, turns |-> Append(ts, t)]
    <3>1. SplitTag(a) /\ ~Blank(a) /\ TagSpeaker(a) = t.speaker /\ LineText(a) = t.text
            /\ t.text # <<>>
      BY <2>7, TaggedIs, TurnIs
    <3>2. one = [current |-> TagSpeaker(a),
                 turns |-> IF LineText(a) = <<>> THEN st.turns
                           ELSE PushText(st.turns, TagSpeaker(a), LineText(a))]
      BY <3>1 DEF ReadLine
    <3> HIDE DEF st, a, one
    <3> QED
      BY <2>3, <2>4, <3>1, <3>2
  <2>6. two.turns = Append(ts, t) /\ two.current = Narrator
    <3>1. Blank(b)
      BY TaggedIs
    <3> HIDE DEF b, one
    <3>2. two = [one EXCEPT !.current = Narrator]
      BY <3>1 DEF ReadLine
    <3> HIDE DEF two
    <3> QED
      BY <2>5, <3>2
  <2> HIDE DEF m, a, b, two
  <2> QED
    BY <2>1, <2>2, <2>6
<1>3. ASSUME NEW ts \in Seq(Turn), NEW t \in Turn, Again(ts)
      PROVE  Again(Append(ts, t))
  BY <1>2, <1>3
<1> HIDE DEF Again
<1>4. Bad = {}
  <2>1. Bad \in SUBSET Seq(Turn) /\ <<>> \notin Bad
    BY <1>1
  <2>2. \A ts \in Seq(Turn), t \in Turn : Append(ts, t) \in Bad => ts \in Bad
    BY <1>3
  <2> HIDE DEF Bad
  <2> QED
    BY <2>1, <2>2, Shortest
<1>5. Again(said)
  BY <1>4
<1>6. Read(ChapterMarkdown(said)).turns = said
  BY <1>5 DEF Again
<1> QED
  BY <1>6, ParseIs

(* The first of some names is one of them.                                 *)
LEMMA FirstIs ==
  ASSUME NEW names \in SUBSET Spellings, names # {}
  PROVE  First(names) \in names
<1> DEFINE Places == {Place[n] : n \in names}
<1>1. \A n \in names : Place[n] \in Nat
  BY NamesAssumption
<1>2. PICK p \in Places : \A q \in Places : p <= q
  <2>1. Places \in SUBSET Nat
    BY <1>1
  <2>2. PICK n \in names : TRUE
    OBVIOUS
  <2>3. Place[n] \in Places
    OBVIOUS
  <2> HIDE DEF Places
  <2> QED
    BY <2>1, <2>3, Least
<1>3. PICK n \in names : p = Place[n]
  OBVIOUS
<1>4. \A m \in names : Place[n] <= Place[m]
  <2>1. \A m \in names : Place[m] \in Places
    OBVIOUS
  <2> HIDE DEF Places
  <2> QED
    BY <1>2, <1>3, <2>1
<1> QED
  BY <1>4 DEF First

(* The protagonist by whatever name: there is one.                         *)
LEMMA ProtagonistIs ==
  ASSUME NEW n, IsProtagonist(n)
  PROVE  Protagonist \in Spellings /\ Protagonist # Nobody
<1>1. WordsOf[Protagonist] # <<>>
  BY DEF IsProtagonist
<1> QED
  BY <1>1, NamesAssumption

(* A set of one is not empty.                                               *)
LEMMA OneIsSome ==
  ASSUME NEW S, Cardinality(S) = 1
  PROVE  S # {}
BY FS_EmptySet

(* Resolved names are names; of a known one, known or the protagonist's.   *)
LEMMA ResolveIs ==
  ASSUME NEW n \in Spellings, NEW known \in SUBSET Spellings
  PROVE  /\ Resolve(n, known) \in Spellings
         /\ n \in known => Resolve(n, known) \in known \cup {Protagonist}
         /\ Resolve(n, known) = Protagonist => Protagonist \in Spellings
<1>1. CASE IsProtagonist(n)
  BY <1>1, ProtagonistIs DEF Resolve
<1>2. CASE ~IsProtagonist(n) /\ Alike(n, known) # {}
  <2> DEFINE S == Alike(n, known)
  <2>1. S \in SUBSET Spellings /\ S \subseteq known
    BY DEF Alike
  <2>2. Resolve(n, known) = First(S)
    BY <1>2 DEF Resolve
  <2> HIDE DEF S
  <2>3. First(S) \in S
    BY <1>2, <2>1, FirstIs DEF S
  <2> QED
    BY <2>1, <2>2, <2>3
<1>3. CASE ~IsProtagonist(n) /\ Alike(n, known) = {}
  <2> DEFINE S == Near(n, known)
  <2>1. S \in SUBSET Spellings
    BY DEF Near
  <2>2. n \notin known
    BY <1>3 DEF Alike, SameSpeaker
  <2>3. CASE Cardinality(S) = 1
    <3>1. Resolve(n, known) = First(S)
      BY <1>3, <2>3 DEF Resolve
    <3> HIDE DEF S
    <3>2. First(S) \in S
      BY <2>1, <2>3, OneIsSome, FirstIs
    <3> QED
      BY <2>1, <2>2, <3>1, <3>2
  <2>4. CASE Cardinality(S) # 1
    <3>1. Resolve(n, known) = n
      BY <1>3, <2>4 DEF Resolve
    <3> QED
      BY <2>2, <3>1
  <2> QED
    BY <2>3, <2>4
<1> QED
  BY <1>1, <1>2, <1>3

(* Sequences of words and their beginnings.                                *)
LEMMA Beginnings ==
  ASSUME NEW A, NEW a \in Seq(A), NEW b \in Seq(A), NEW p \in Seq(A), StartsWith(b, a)
  PROVE  /\ StartsWith(p, b) => StartsWith(p, a)
         /\ StartsWith(b, p) => StartsWith(p, a) \/ StartsWith(a, p)
<1>1. /\ Len(a) \in Nat /\ Len(b) \in Nat /\ Len(p) \in Nat
      /\ DOMAIN a = 1..Len(a) /\ DOMAIN b = 1..Len(b) /\ DOMAIN p = 1..Len(p)
  BY LenProperties
<1>2. Len(a) <= Len(b) /\ \A i \in 1..Len(a) : b[i] = a[i]
  BY <1>1 DEF StartsWith
<1>3. ASSUME StartsWith(p, b)
      PROVE  StartsWith(p, a)
  <2>1. Len(b) <= Len(p) /\ \A i \in 1..Len(b) : p[i] = b[i]
    BY <1>1, <1>3 DEF StartsWith
  <2>2. Len(a) <= Len(p) /\ \A i \in 1..Len(a) : p[i] = a[i]
    BY <1>1, <1>2, <2>1
  <2> QED
    BY <1>1, <2>2 DEF StartsWith
<1>4. ASSUME StartsWith(b, p)
      PROVE  StartsWith(p, a) \/ StartsWith(a, p)
  <2>1. Len(p) <= Len(b) /\ \A i \in 1..Len(p) : b[i] = p[i]
    BY <1>1, <1>4 DEF StartsWith
  <2>2. CASE Len(a) <= Len(p)
    <3>1. \A i \in 1..Len(a) : p[i] = a[i]
      BY <1>1, <1>2, <2>1, <2>2
    <3> QED
      BY <1>1, <2>2, <3>1 DEF StartsWith
  <2>3. CASE Len(p) <= Len(a)
    <3>1. \A i \in 1..Len(p) : a[i] = p[i]
      BY <1>1, <1>2, <2>1, <2>3
    <3> QED
      BY <1>1, <2>3, <3>1 DEF StartsWith
  <2> QED
    BY <1>1, <2>2, <2>3
<1> QED
  BY <1>3, <1>4

(* A key that is not another name of the protagonist, or is a namesake's.  *)
Proper(n) == IsProtagonist(n) => n = Protagonist \/ Namesakes(n) # {}

(* Somebody who is resolved onto a short name of the protagonist, and is   *)
(* not he, has a name that lengthens it.                                   *)
LEMMA NearIsProper ==
  ASSUME NEW n \in Spellings, ~IsProtagonist(n),
         NEW k \in Spellings, PrefixRelated(WordsOf[k], WordsOf[n])
  PROVE  Proper(k)
<1> SUFFICES ASSUME IsProtagonist(k) PROVE Namesakes(k) # {}
  BY DEF Proper
<1> DEFINE a == WordsOf[n]
           b == WordsOf[k]
           p == WordsOf[Protagonist]
<1>1. /\ a \in Seq(STRING) /\ b \in Seq(STRING) /\ p \in Seq(STRING)
      /\ a # <<>> /\ b # <<>> /\ p # <<>>
  BY NamesAssumption, WordsTyped, ProtagonistIs DEF IsProtagonist
<1>2. a # p /\ ~PrefixRelated(a, p)
  BY <1>1 DEF IsProtagonist, SameSpeaker
<1>3. b = p \/ PrefixRelated(b, p)
  BY DEF IsProtagonist, SameSpeaker
<1>4. PrefixRelated(b, a)
  OBVIOUS
<1> HIDE DEF a, b, p
<1>5. ~StartsWith(a, p) /\ ~StartsWith(p, a)
  <2>1. ASSUME StartsWith(a, p) \/ StartsWith(p, a), Len(a) = Len(p)
        PROVE  a = p
    <3>1. DOMAIN a = 1..Len(a) /\ DOMAIN p = 1..Len(p)
      BY <1>1, LenProperties
    <3>2. \A i \in 1..Len(a) : a[i] = p[i]
      BY <2>1, <3>1 DEF StartsWith
    <3> QED
      BY <1>1, <2>1, <3>2, SeqEqual
  <2> QED
    BY <1>1, <1>2, <2>1 DEF PrefixRelated
<1>6. ~StartsWith(b, a)
  <2> SUFFICES ASSUME StartsWith(b, a) PROVE FALSE
    OBVIOUS
  <2>1. CASE b = p
    BY <1>5, <2>1
  <2>2. CASE PrefixRelated(b, p)
    <3>1. StartsWith(b, p) \/ StartsWith(p, b)
      BY <2>2 DEF PrefixRelated
    <3> QED
      BY <1>1, <1>5, <3>1, Beginnings
  <2> QED
    BY <1>3, <2>1, <2>2
<1>7. StartsWith(a, b)
  BY <1>4, <1>6 DEF PrefixRelated
<1> QED
  BY <1>7 DEF Namesakes, a, b

(* So every name is resolved onto a proper key.                             *)
LEMMA ResolveIsProper ==
  ASSUME NEW n \in Spellings, NEW known \in SUBSET Spellings
  PROVE  Proper(Resolve(n, known))
<1>1. CASE IsProtagonist(n)
  <2>1. Resolve(n, known) = Protagonist
    BY <1>1 DEF Resolve
  <2> QED
    BY <2>1 DEF Proper
<1>2. CASE ~IsProtagonist(n) /\ Alike(n, known) # {}
  <2> DEFINE r == First(Alike(n, known))
  <2>1. Resolve(n, known) = r
    BY <1>2 DEF Resolve
  <2>2. r \in Alike(n, known)
    <3>1. Alike(n, known) \in SUBSET Spellings
      BY DEF Alike
    <3> QED
      BY <1>2, <3>1, FirstIs
  <2>3. WordsOf[r] = WordsOf[n]
    BY <2>2 DEF Alike, SameSpeaker
  <2>4. ~IsProtagonist(r)
    BY <1>2, <2>3 DEF IsProtagonist, SameSpeaker
  <2> QED
    BY <2>1, <2>4 DEF Proper
<1>3. CASE ~IsProtagonist(n) /\ Alike(n, known) = {} /\ Cardinality(Near(n, known)) = 1
  <2> DEFINE r == First(Near(n, known))
  <2>1. Resolve(n, known) = r
    BY <1>3 DEF Resolve
  <2>2. r \in Near(n, known)
    <3>1. Near(n, known) \in SUBSET Spellings
      BY DEF Near
    <3> QED
      BY <1>3, <3>1, OneIsSome, FirstIs
  <2>3. r \in Spellings /\ PrefixRelated(WordsOf[r], WordsOf[n])
    BY <2>2 DEF Near
  <2> HIDE DEF r
  <2> QED
    BY <1>3, <2>1, <2>3, NearIsProper
<1>4. CASE ~IsProtagonist(n) /\ Alike(n, known) = {} /\ Cardinality(Near(n, known)) # 1
  <2>1. Resolve(n, known) = n
    BY <1>4 DEF Resolve
  <2> QED
    BY <1>4, <2>1 DEF Proper
<1> QED
  BY <1>1, <1>2, <1>3, <1>4

(* An extraction, as it is and while its entries are worked through.       *)
Report == [title : {"", "stub", "own"}, summary : {"", "told"},
           lore : Seq([name : Spellings, person : BOOLEAN]),
           deltas : Seq([subject : Spellings, form : {"fact", "hollow", "badOp"}])]

Shipped == [whole : BOOLEAN, dirty : BOOLEAN, summed : BOOLEAN, titled : {"own", "number"}]

Entering == pc \in {"lore", "deltas"}

(* What a cycle holds is what it will need.                                *)
InHand ==
  /\ extraction \in Report
  /\ pc = "pass2" => prose \in Seq(Written) /\ turns = ParseTaggedProse(prose) /\ whole
  /\ pc \in {"pass1", "pass2"} => Len(chapters) < MaxChapters
  /\ Entering => chapters # <<>> /\ extraction.summary # ""

(* Only the chapter whose entries are being made, and those whose cycle    *)
(* was cut short, are still without summary.                               *)
Told ==
  \A c \in DOMAIN chapters :
    /\ chapters[c].whole
    /\ ~chapters[c].dirty =>
         (chapters[c].summed <=> c \notin cut /\ ~(c = Len(chapters) /\ Entering))
    /\ chapters[c].dirty =>
         ~chapters[c].summed /\ c \notin cut /\ chapters[c].titled = "number"
    /\ c = Len(chapters) /\ Entering => ~chapters[c].dirty /\ c \notin cut

(* A name once offered is no role's, and known unless it is filed as       *)
(* something other than a person.                                          *)
RoleNames == {r.speaker : r \in {c \in cast : c.kind \in Roles}}

Mentioned(names) ==
  /\ names \cap RoleNames = {}
  /\ \A n \in names : n \in KnownSubjects \/ (n \in DOMAIN lore /\ ~lore[n])

Offered ==
  /\ pc = "pass2" \/ Entering => Mentioned(offered)
  /\ pc # "deltas" => ghosts = {}

Keys == \A n \in ledger \cup {m \in DOMAIN lore : lore[m]} : Proper(n)

IInv == TypeOK /\ InHand /\ Told /\ Offered /\ OfferedNamesAreKnown /\ Keys

-----------------------------------------------------------------------------
(* Drafts are sequences of lines.                                           *)
LEMMA DraftsAreWritten == Drafts \subseteq Seq(Written)
<1> SUFFICES ASSUME NEW d \in Drafts PROVE d \in Seq(Written)
  OBVIOUS
<1>1. d \in Seq(Line) /\ \A i \in DOMAIN d : d[i].tag # NoTag /\ ~d[i].sound => d[i].text # <<>>
  BY DraftsAssumption DEF Line
<1>2. Len(d) \in Nat /\ DOMAIN d = 1..Len(d) /\ d = [i \in 1..Len(d) |-> d[i]]
  BY <1>1, LenProperties
<1>3. ASSUME NEW i \in 1..Len(d)
      PROVE  d[i] \in Written
  <2>1. d[i] \in Line
    BY <1>1, ElementOfSeq
  <2> QED
    BY <1>1, <1>2, <2>1 DEF Written
<1>4. d \in [1..Len(d) -> Written]
  BY <1>2, <1>3
<1> QED
  BY <1>2, <1>4, SeqDef

(* An answer that is taken is one Ember may give, and was not cut off.     *)
LEMMA TakenDraft ==
  ASSUME NEW a \in Answers(Drafts), Pass1Error(a) = "None"
  PROVE  /\ a.content \in Seq(Written) /\ ~a.cut
         /\ Parsed[a.content] = ParseTaggedProse(a.content)
<1>1. a.error = "None" /\ ~a.cut
  BY DEF Pass1Error
<1>2. a \in [error : {"None"}, content : Drafts, cut : BOOLEAN]
  BY <1>1 DEF Answers, Failures
<1> QED
  BY <1>1, <1>2, DraftsAreWritten DEF Parsed

(* So is a report that is taken, and it has a summary.                      *)
LEMMA TakenReport ==
  ASSUME NEW a \in Answers(Extractions), Pass2Error(a) = "None"
  PROVE  a.content \in Report /\ a.content.summary # ""
<1>1. a.error = "None" /\ a.content.summary # ""
  BY DEF Pass2Error
<1>2. a \in [error : {"None"}, content : Extractions, cut : BOOLEAN]
  BY <1>1 DEF Answers, Failures
<1> QED
  BY <1>1, <1>2, ExtractionsAssumption DEF Report

(* The known are names.                                                     *)
LEMMA KnownTyped ==
  ASSUME NEW rows, rows \subseteq [speaker : Spellings, kind : Roles \cup {"character"}],
         ledger \subseteq Spellings, DOMAIN lore \subseteq Spellings
  PROVE  KnownWith(rows) \subseteq Spellings
<1>1. {Protagonist} \ {Nobody} \subseteq Spellings
  BY NamesAssumption
<1>2. \A r \in rows : r.speaker \in Spellings
  OBVIOUS
<1> QED
  BY <1>1, <1>2 DEF KnownWith

(* New rows are rows.                                                       *)
LEMMA NewRowsTyped ==
  ASSUME NEW ts \in Seq(Turn)
  PROVE  NewRows(ts) \subseteq [speaker : Spellings, kind : Roles \cup {"character"}]
<1>1. DOMAIN ts = 1..Len(ts)
  BY LenProperties
<1>2. ASSUME NEW j \in DOMAIN ts
      PROVE  [speaker |-> ts[j].speaker, kind |-> ts[j].kind]
               \in [speaker : Spellings, kind : Roles \cup {"character"}]
  <2>1. ts[j] \in Turn
    BY <1>1, ElementOfSeq
  <2>2. ts[j].speaker \in Spellings /\ ts[j].kind \in Kinds
    BY <2>1 DEF Turn, Stored
  <2> QED
    BY <2>2 DEF Kinds, Roles
<1> QED
  BY <1>2 DEF NewRows

(* The number of attempts of either pass.                                  *)
LEMMA AttemptsAre == Attempts = 3 /\ Attempts' = 3
<1>1. Len(Pass1Temperatures) = 3 /\ Len(Pass2Temperatures) = 3
  BY DEF Pass1Temperatures, Pass2Temperatures
<1> QED
  BY <1>1 DEF Attempts

(* No report is one.                                                        *)
LEMMA NothingReported == Nothing \in Report
BY EmptySeq DEF Nothing, Report

(* The invariant holds at first, and each step keeps it.                    *)
LEMMA InitIInv == Init => IInv
<1> SUFFICES ASSUME Init PROVE IInv
  OBVIOUS
<1>1. chapters = <<>> /\ DOMAIN chapters = {} /\ Len(chapters) = 0 /\ chapters \in Seq(Shipped)
  BY EmptySeq DEF Init
<1>2. lore = <<>> /\ DOMAIN lore = {}
  BY DEF Init
<1>3. TypeOK
  <2>1. 0 \in 0..Attempts
    BY AttemptsAre
  <2>2. Len(chapters) <= MaxChapters
    BY <1>1, BoundsAssumption
  <2> QED
    BY <1>1, <1>2, <2>1, <2>2 DEF Init, TypeOK, Shipped
<1>4. InHand
  BY NothingReported DEF Init, InHand, Entering
<1>5. Told
  BY <1>1 DEF Told
<1>6. Offered /\ OfferedNamesAreKnown /\ Keys
  BY <1>2 DEF Init, Offered, OfferedNamesAreKnown, Keys, Mentioned, Entering
<1> QED
  BY <1>3, <1>4, <1>5, <1>6 DEF IInv

(* Steps that leave the store and what is kept of the extraction alone.    *)
LEMMA QuietStep ==
  ASSUME IInv, UNCHANGED <<storeVars, keepVars, cut>>,
         pc' \in {"idle", "pass1", "pass2"}, pc \in {"idle", "pass1", "pass2"},
         pc' = "pass2" => pc = "pass2" /\ UNCHANGED draftVars,
         pc' = "pass1" => Len(chapters) < MaxChapters,
         offered' = offered,
         attempt' \in 0..3, attempt' > 0 <=> pc' \in {"pass1", "pass2"}
  PROVE  IInv'
<1>1. UNCHANGED <<cast, lore, ledger, chapters, before, extraction, applied, ghosts, cut>>
  BY DEF storeVars, keepVars
<1>2. TypeOK'
  BY <1>1, AttemptsAre DEF IInv, TypeOK
<1>3. InHand'
  BY <1>1 DEF IInv, InHand, Entering, draftVars
<1>4. Told'
  BY <1>1 DEF IInv, Told, Entering
<1>5. ghosts = {} /\ ghosts' = {}
  BY <1>1 DEF IInv, Offered
<1>6. Offered'
  <2>1. pc' = "pass2" => Mentioned(offered)
    BY DEF IInv, Offered
  <2>2. Mentioned(offered) => Mentioned(offered)'
    BY <1>1 DEF Mentioned, KnownSubjects, KnownWith, RoleNames
  <2>3. ~Entering'
    BY DEF Entering
  <2> QED
    BY <1>5, <2>1, <2>2, <2>3 DEF Offered
<1>7. OfferedNamesAreKnown'
  BY <1>5 DEF OfferedNamesAreKnown
<1>8. Keys'
  BY <1>1 DEF IInv, Keys
<1> QED
  BY <1>2, <1>3, <1>4, <1>6, <1>7, <1>8 DEF IInv

LEMMA BeginKeeps ==
  ASSUME IInv, Begin
  PROVE  IInv'
<1>1. /\ pc = "idle" /\ pc' = "pass1" /\ attempt' = 1 /\ Len(chapters) < MaxChapters
      /\ UNCHANGED <<storeVars, keepVars, cut>> /\ offered' = offered
  BY DEF Begin, draftVars
<1> QED
  BY <1>1, QuietStep

LEMMA Pass1FailsKeeps ==
  ASSUME IInv, NEW a, Pass1Fails(a)
  PROVE  IInv'
<1>1. pc = "pass1" /\ UNCHANGED <<storeVars, keepVars, cut>> /\ offered' = offered
  BY DEF Pass1Fails, draftVars
<1>2. Len(chapters) < MaxChapters /\ attempt \in 0..3
  BY <1>1, AttemptsAre DEF IInv, InHand, TypeOK
<1>3. \/ pc' = "idle" /\ attempt' = 0
      \/ pc' = "pass1" /\ attempt' = attempt + 1 /\ attempt # 3
  BY <1>1, AttemptsAre DEF Pass1Fails, GivesUp
<1>4. attempt' \in 0..3 /\ (attempt' > 0 <=> pc' \in {"pass1", "pass2"})
  BY <1>2, <1>3
<1> QED
  BY <1>1, <1>2, <1>3, <1>4, QuietStep

LEMMA Pass1EmptyKeeps ==
  ASSUME IInv, NEW a, Pass1Empty(a)
  PROVE  IInv'
<1>1. /\ pc = "pass1" /\ pc' = "idle" /\ attempt' = 0
      /\ UNCHANGED <<storeVars, keepVars, cut>> /\ offered' = offered
  BY DEF Pass1Empty, draftVars
<1> QED
  BY <1>1, QuietStep

LEMMA Pass2RetriesKeeps ==
  ASSUME IInv, NEW a, Pass2Retries(a)
  PROVE  IInv'
<1>1. /\ pc = "pass2" /\ pc' = "pass2" /\ attempt' = attempt + 1 /\ attempt # 3
      /\ UNCHANGED <<storeVars, draftVars, keepVars, cut>> /\ offered' = offered
  BY AttemptsAre DEF Pass2Retries, draftVars, GivesUp
<1>2. attempt' \in 0..3 /\ (attempt' > 0 <=> pc' \in {"pass1", "pass2"})
  BY <1>1, AttemptsAre DEF IInv, TypeOK
<1> QED
  BY <1>1, <1>2, QuietStep

(* The new speakers join the cast, and the names offered are those known.  *)
LEMMA Pass1AnswersKeeps ==
  ASSUME IInv, NEW a \in Answers(Drafts), Pass1Answers(a)
  PROVE  IInv'
<1>1. /\ pc = "pass1" /\ pc' = "pass2" /\ attempt' = 1
      /\ prose' = a.content /\ turns' = Parsed[a.content] /\ whole' = ~a.cut
      /\ cast' = cast \cup NewRows(turns')
      /\ offered' = {n \in KnownWith(cast') : ~Reserved(n)}
      /\ UNCHANGED <<lore, ledger, chapters, before, extraction, applied, ghosts, cut>>
  BY DEF Pass1Answers, keepVars
<1>2. /\ a.content \in Seq(Written) /\ ~a.cut
      /\ Parsed[a.content] = ParseTaggedProse(a.content)
  BY TakenDraft DEF Pass1Answers
<1>3. cast' \subseteq [speaker : Spellings, kind : Roles \cup {"character"}]
  <2>1. turns' \in Seq(Turn)
    BY <1>1, <1>2, ParseIsFaithful
  <2>2. NewRows(turns') \subseteq [speaker : Spellings, kind : Roles \cup {"character"}]
    BY <2>1, NewRowsTyped
  <2>3. cast \subseteq [speaker : Spellings, kind : Roles \cup {"character"}]
    BY DEF IInv, TypeOK
  <2> QED
    BY <1>1, <2>2, <2>3
<1>4. offered' \subseteq Spellings
  <2>1. KnownWith(cast') \subseteq Spellings
    BY <1>3, KnownTyped DEF IInv, TypeOK
  <2> QED
    BY <1>1, <2>1
<1>5. TypeOK'
  <2>1. attempt' \in 0..Attempts' /\ (attempt' > 0 <=> pc' \in {"pass1", "pass2"})
    BY <1>1, AttemptsAre
  <2> QED
    BY <1>1, <1>3, <1>4, <2>1 DEF IInv, TypeOK
<1>6. InHand'
  BY <1>1, <1>2 DEF IInv, InHand, Entering
<1>7. Told'
  BY <1>1 DEF IInv, Told, Entering
<1>8. ghosts = {} /\ ghosts' = {}
  BY <1>1 DEF IInv, Offered
<1>9. Offered'
  <2>1. \A n \in offered' : n \in KnownSubjects'
    BY <1>1 DEF KnownSubjects, KnownWith
  <2>2. offered' \cap RoleNames' = {}
    BY <1>1 DEF KnownWith, RoleNames
  <2> QED
    BY <1>1, <1>8, <2>1, <2>2 DEF Offered, Mentioned
<1>10. OfferedNamesAreKnown'
  BY <1>8 DEF OfferedNamesAreKnown
<1>11. Keys'
  BY <1>1 DEF IInv, Keys
<1> QED
  BY <1>5, <1>6, <1>7, <1>9, <1>10, <1>11 DEF IInv

(* The rows of the first turns stay, and nothing else.                     *)
LEMMA CastingBreaksOffKeeps ==
  ASSUME IInv, NEW a \in Answers(Drafts), CastingBreaksOff(a)
  PROVE  IInv'
<1>1. /\ pc = "pass1" /\ pc' = "idle" /\ attempt' = 0 /\ offered' = offered
      /\ UNCHANGED <<lore, ledger, chapters, before, extraction, applied, ghosts, cut>>
  BY DEF CastingBreaksOff, draftVars, keepVars
<1>2. PICK k \in DOMAIN Parsed[a.content] :
        cast' = cast \cup NewRows(SubSeq(Parsed[a.content], 1, k))
  BY DEF CastingBreaksOff
<1> DEFINE ts == Parsed[a.content]
<1>3. ts \in Seq(Turn)
  BY TakenDraft, ParseIsFaithful DEF CastingBreaksOff
<1>4. cast' = cast \cup NewRows(SubSeq(ts, 1, k)) /\ k \in DOMAIN ts
  BY <1>2
<1> HIDE DEF ts
<1>5. cast' \subseteq [speaker : Spellings, kind : Roles \cup {"character"}]
  <2>1. Len(ts) \in Nat /\ k \in 1..Len(ts)
    BY <1>3, <1>4, LenProperties
  <2>2. \A i \in 1..k : ts[i] \in Turn
    BY <1>3, <2>1, ElementOfSeq
  <2>3. SubSeq(ts, 1, k) \in Seq(Turn)
    BY <1>3, <2>1, <2>2, SubSeqProperties
  <2>4. NewRows(SubSeq(ts, 1, k)) \subseteq [speaker : Spellings, kind : Roles \cup {"character"}]
    BY <2>3, NewRowsTyped
  <2> QED
    BY <1>4, <2>4 DEF IInv, TypeOK
<1>6. TypeOK'
  <2>1. attempt' \in 0..Attempts' /\ (attempt' > 0 <=> pc' \in {"pass1", "pass2"})
    BY <1>1, AttemptsAre
  <2> QED
    BY <1>1, <1>5, <2>1 DEF IInv, TypeOK
<1>7. InHand' /\ Told'
  BY <1>1 DEF IInv, InHand, Told, Entering
<1>8. Offered' /\ OfferedNamesAreKnown' /\ Keys'
  BY <1>1 DEF IInv, Offered, OfferedNamesAreKnown, Keys, Entering
<1> QED
  BY <1>6, <1>7, <1>8 DEF IInv

(* One chapter more, of which is true what is true of all.                 *)
LEMMA ChapterAdded ==
  ASSUME chapters \in Seq(Shipped), NEW c \in Shipped, chapters' = Append(chapters, c)
  PROVE  /\ chapters' \in Seq(Shipped) /\ chapters' # <<>> /\ Len(chapters) \in Nat
         /\ Len(chapters') = Len(chapters) + 1 /\ DOMAIN chapters' = 1..(Len(chapters) + 1)
         /\ DOMAIN chapters = 1..Len(chapters)
         /\ chapters'[Len(chapters) + 1] = c
         /\ \A i \in 1..Len(chapters) : chapters'[i] = chapters[i]
<1> DEFINE s == chapters
           t == Append(s, c)
<1>1. s \in Seq(Shipped)
  OBVIOUS
<1>2. /\ t \in Seq(Shipped) /\ t # <<>> /\ Len(s) \in Nat /\ Len(t) = Len(s) + 1
      /\ DOMAIN s = 1..Len(s) /\ t[Len(s) + 1] = c /\ \A i \in 1..Len(s) : t[i] = s[i]
  BY <1>1, AppendProperties, LenProperties
<1>3. DOMAIN t = 1..Len(t)
  BY <1>2, LenProperties
<1> QED
  BY <1>2, <1>3

(* A chapter is as whole as its draft, and not summed up yet.               *)
LEMMA ChapterIs ==
  ASSUME TypeOK, NEW e \in Report, NEW d \in BOOLEAN, whole \in BOOLEAN
  PROVE  /\ Chapter(e, d) \in Shipped
         /\ Chapter(e, d).whole = whole /\ Chapter(e, d).dirty = d /\ ~Chapter(e, d).summed
         /\ e.title # "own" => Chapter(e, d).titled = "number"
BY DEF Chapter, Shipped

LEMMA Pass2FailsKeeps ==
  ASSUME IInv, NEW a, Pass2Fails(a)
  PROVE  IInv'
<1> DEFINE c == Chapter(Nothing, TRUE)
<1>1. /\ pc = "pass2" /\ pc' = "idle" /\ attempt' = 0 /\ offered' = {}
      /\ chapters' = Append(chapters, c)
      /\ UNCHANGED <<cast, lore, ledger, before, extraction, applied, ghosts, cut>>
  BY DEF Pass2Fails, NoDraft, keepVars
<1>2. /\ chapters \in Seq(Shipped) /\ whole = TRUE /\ Len(chapters) < MaxChapters
      /\ TypeOK /\ Told /\ ghosts = {}
  BY <1>1 DEF IInv, InHand, TypeOK, Offered, Shipped
<1>3. c \in Shipped /\ c.whole /\ c.dirty /\ ~c.summed /\ c.titled = "number"
  <2>1. Nothing \in Report /\ Nothing.title = ""
    BY NothingReported DEF Nothing
  <2> QED
    BY <1>2, <2>1, ChapterIs
<1> HIDE DEF c
<1>4. /\ chapters' \in Seq(Shipped) /\ Len(chapters) \in Nat
      /\ Len(chapters') = Len(chapters) + 1 /\ DOMAIN chapters' = 1..(Len(chapters) + 1)
      /\ DOMAIN chapters = 1..Len(chapters)
      /\ chapters'[Len(chapters) + 1] = c
      /\ \A i \in 1..Len(chapters) : chapters'[i] = chapters[i]
  BY <1>1, <1>2, <1>3, ChapterAdded
<1> DEFINE n == Len(chapters) + 1
<1>10. cut' \subseteq DOMAIN chapters' /\ n \notin cut'
  BY <1>1, <1>2, <1>4 DEF TypeOK
<1> HIDE DEF n
<1>5. TypeOK'
  <2>1. attempt' \in 0..Attempts' /\ (attempt' > 0 <=> pc' \in {"pass1", "pass2"})
    BY <1>1, AttemptsAre
  <2>2. Len(chapters') <= MaxChapters
    BY <1>2, <1>4, BoundsAssumption
  <2> QED
    BY <1>1, <1>4, <1>10, <2>1, <2>2 DEF IInv, TypeOK, Shipped
<1>6. InHand'
  BY <1>1 DEF IInv, InHand, Entering
<1>7. Told'
  <2>1. ASSUME NEW i \in DOMAIN chapters'
        PROVE  /\ chapters'[i].whole
               /\ ~chapters'[i].dirty => (chapters'[i].summed <=> i \notin cut')
               /\ chapters'[i].dirty =>
                    ~chapters'[i].summed /\ i \notin cut' /\ chapters'[i].titled = "number"
    <3>1. CASE i = Len(chapters) + 1
      BY <1>3, <1>4, <1>10, <3>1 DEF n
    <3>2. CASE i # Len(chapters) + 1
      <4>1. i \in DOMAIN chapters /\ chapters'[i] = chapters[i]
        BY <1>4, <3>2
      <4>2. ~Entering
        BY <1>1 DEF Entering
      <4> QED
        BY <1>1, <1>2, <4>1, <4>2 DEF Told
    <3> QED
      BY <3>1, <3>2
  <2>2. ~Entering'
    BY <1>1 DEF Entering
  <2> QED
    BY <2>1, <2>2 DEF Told
<1>8. Offered' /\ OfferedNamesAreKnown'
  BY <1>1, <1>2 DEF Offered, OfferedNamesAreKnown, Entering
<1>9. Keys'
  BY <1>1 DEF IInv, Keys
<1> QED
  BY <1>5, <1>6, <1>7, <1>8, <1>9 DEF IInv

LEMMA Pass2AnswersKeeps ==
  ASSUME IInv, NEW a \in Answers(Extractions), Pass2Answers(a)
  PROVE  IInv'
<1> DEFINE c == Chapter(a.content, FALSE)
<1>1. /\ pc = "pass2" /\ pc' = "lore" /\ attempt' = 0 /\ offered' = offered
      /\ chapters' = Append(chapters, c)
      /\ extraction' = a.content /\ before' = KnownSubjects
      /\ UNCHANGED <<cast, lore, ledger, applied, ghosts, cut>>
  BY DEF Pass2Answers
<1>2. /\ chapters \in Seq(Shipped) /\ whole = TRUE /\ Len(chapters) < MaxChapters
      /\ TypeOK /\ Told /\ ghosts = {} /\ Mentioned(offered)
  BY <1>1 DEF IInv, InHand, TypeOK, Offered, Shipped
<1>3. a.content \in Report /\ a.content.summary # ""
  BY TakenReport DEF Pass2Answers
<1>4. c \in Shipped /\ c.whole /\ ~c.dirty /\ ~c.summed
  BY <1>2, <1>3, ChapterIs
<1> HIDE DEF c
<1>5. /\ chapters' \in Seq(Shipped) /\ Len(chapters) \in Nat /\ chapters' # <<>>
      /\ Len(chapters') = Len(chapters) + 1 /\ DOMAIN chapters' = 1..(Len(chapters) + 1)
      /\ DOMAIN chapters = 1..Len(chapters)
      /\ chapters'[Len(chapters) + 1] = c
      /\ \A i \in 1..Len(chapters) : chapters'[i] = chapters[i]
  BY <1>1, <1>2, <1>4, ChapterAdded
<1>6. KnownSubjects \subseteq Spellings
  BY <1>2, KnownTyped DEF TypeOK, KnownSubjects
<1> DEFINE n == Len(chapters) + 1
<1>13. cut' \subseteq DOMAIN chapters' /\ n \notin cut'
  BY <1>1, <1>2, <1>5 DEF TypeOK
<1> HIDE DEF n
<1>7. TypeOK'
  <2>1. attempt' \in 0..Attempts' /\ (attempt' > 0 <=> pc' \in {"pass1", "pass2"})
    BY <1>1, AttemptsAre
  <2>2. Len(chapters') <= MaxChapters
    BY <1>2, <1>5, BoundsAssumption
  <2> QED
    BY <1>1, <1>5, <1>6, <1>13, <2>1, <2>2 DEF IInv, TypeOK, Shipped
<1>8. InHand'
  BY <1>1, <1>3, <1>5 DEF IInv, InHand, Entering
<1>9. Told'
  <2>1. ASSUME NEW i \in DOMAIN chapters'
        PROVE  /\ chapters'[i].whole
               /\ ~chapters'[i].dirty =>
                    (chapters'[i].summed <=> i \notin cut' /\ i # Len(chapters'))
               /\ chapters'[i].dirty =>
                    ~chapters'[i].summed /\ i \notin cut' /\ chapters'[i].titled = "number"
               /\ i = Len(chapters') => ~chapters'[i].dirty /\ i \notin cut'
    <3>1. CASE i = Len(chapters) + 1
      BY <1>4, <1>5, <1>13, <3>1 DEF n
    <3>2. CASE i # Len(chapters) + 1
      <4>1. i \in DOMAIN chapters /\ chapters'[i] = chapters[i] /\ i # Len(chapters')
        BY <1>5, <3>2
      <4>2. ~Entering
        BY <1>1 DEF Entering
      <4> QED
        BY <1>1, <1>2, <4>1, <4>2 DEF Told
    <3> QED
      BY <3>1, <3>2
  <2>2. Entering'
    BY <1>1 DEF Entering
  <2> QED
    BY <2>1, <2>2 DEF Told
<1>10. Offered'
  <2>1. Mentioned(offered)'
    BY <1>1, <1>2 DEF Mentioned, KnownSubjects, KnownWith, RoleNames
  <2> QED
    BY <1>1, <1>2, <2>1 DEF Offered
<1>11. OfferedNamesAreKnown'
  BY <1>1, <1>2 DEF OfferedNamesAreKnown
<1>12. Keys'
  BY <1>1 DEF IInv, Keys
<1> QED
  BY <1>7, <1>8, <1>9, <1>10, <1>11, <1>12 DEF IInv

(* A name's entry is of a person or not, and the latter makes it nobody's. *)
LEMMA UpsertLoreKeeps ==
  ASSUME IInv, UpsertLore
  PROVE  IInv'
<1> DEFINE l == Head(extraction.lore)
<1>1. /\ pc = "lore" /\ extraction.lore # <<>>
      /\ UNCHANGED <<cast, ledger, chapters, pc, attempt, before, applied, ghosts, cut>>
      /\ offered' = offered
      /\ extraction' = [extraction EXCEPT !.lore = Tail(@)]
  BY DEF UpsertLore, draftVars
<1>2. lore' = [n \in DOMAIN lore \cup {LoreName(l)} |-> IF n = LoreName(l) THEN l.person ELSE lore[n]]
  BY DEF UpsertLore
<1>3. TypeOK /\ InHand /\ Told /\ extraction \in Report /\ ghosts = {} /\ Mentioned(offered)
  BY <1>1 DEF IInv, InHand, Offered, Entering
<1>4. /\ extraction.lore \in Seq([name : Spellings, person : BOOLEAN])
      /\ extraction.summary # ""
  BY <1>1, <1>3 DEF Report, InHand, Entering
<1>5. l.name \in Spellings /\ l.person \in BOOLEAN
        /\ Tail(extraction.lore) \in Seq([name : Spellings, person : BOOLEAN])
  <2>1. l \in [name : Spellings, person : BOOLEAN]
          /\ Tail(extraction.lore) \in Seq([name : Spellings, person : BOOLEAN])
    BY <1>1, <1>4, HeadTailProperties
  <2> HIDE DEF l
  <2> QED
    BY <2>1
<1>6. extraction' \in Report /\ extraction'.summary = extraction.summary
  BY <1>1, <1>3, <1>5 DEF Report
<1>7. LoreName(l) \in Spellings /\ (l.person => Proper(LoreName(l)))
  <2>1. before \in SUBSET Spellings
    BY <1>3 DEF TypeOK
  <2> HIDE DEF l
  <2> QED
    BY <1>5, <2>1, ResolveIs, ResolveIsProper DEF LoreName
<1> HIDE DEF l
<1>8. /\ DOMAIN lore' = DOMAIN lore \cup {LoreName(l)}
      /\ \A n \in DOMAIN lore' : lore'[n] = IF n = LoreName(l) THEN l.person ELSE lore[n]
  BY <1>2
<1>9. TypeOK'
  <2>1. DOMAIN lore' \subseteq Spellings /\ \A n \in DOMAIN lore' : lore'[n] \in BOOLEAN
    BY <1>3, <1>5, <1>7, <1>8 DEF TypeOK
  <2>2. attempt' \in 0..Attempts' /\ (attempt' > 0 <=> pc' \in {"pass1", "pass2"})
    BY <1>1, <1>3, AttemptsAre DEF TypeOK
  <2> QED
    BY <1>1, <1>3, <2>1, <2>2 DEF TypeOK
<1>10. InHand'
  BY <1>1, <1>3, <1>6 DEF InHand, Entering
<1>11. Told'
  BY <1>1, <1>3 DEF Told, Entering
<1>12. Mentioned(offered)'
  <2>1. ASSUME NEW n \in offered
        PROVE  n \in KnownSubjects' \/ (n \in DOMAIN lore' /\ ~lore'[n])
    <3>1. n \in KnownSubjects \/ (n \in DOMAIN lore /\ ~lore[n])
      BY <1>3 DEF Mentioned
    <3>2. CASE n = LoreName(l) /\ ~l.person
      BY <1>8, <3>2
    <3>3. CASE n # LoreName(l)
      BY <1>1, <1>8, <3>1, <3>3 DEF KnownSubjects, KnownWith
    <3>4. CASE n = LoreName(l) /\ l.person
      <4>1. n \in DOMAIN lore' /\ lore'[n]
        BY <1>8, <3>4
      <4>2. n \notin RoleNames
        BY <1>3 DEF Mentioned
      <4> QED
        BY <1>1, <4>1, <4>2 DEF KnownSubjects, KnownWith, RoleNames
    <3> QED
      BY <1>5, <3>2, <3>3, <3>4
  <2>2. offered' \cap RoleNames' = {}
    BY <1>1, <1>3 DEF Mentioned, RoleNames
  <2> QED
    BY <1>1, <2>1, <2>2 DEF Mentioned
<1>13. Offered' /\ OfferedNamesAreKnown'
  BY <1>1, <1>3, <1>12 DEF Offered, OfferedNamesAreKnown, Entering
<1>14. Keys'
  BY <1>1, <1>7, <1>8 DEF IInv, Keys
<1> QED
  BY <1>9, <1>10, <1>11, <1>13, <1>14 DEF IInv

LEMMA LoreDoneKeeps ==
  ASSUME IInv, LoreDone
  PROVE  IInv'
<1>1. /\ pc = "lore" /\ pc' = "deltas" /\ offered' = offered /\ attempt' = attempt
      /\ UNCHANGED <<cast, lore, ledger, chapters, before, extraction, applied, ghosts, cut>>
  BY DEF LoreDone, storeVars, draftVars, keepVars
<1>2. TypeOK'
  <2>1. attempt' \in 0..Attempts' /\ (attempt' > 0 <=> pc' \in {"pass1", "pass2"})
    BY <1>1, AttemptsAre DEF IInv, TypeOK
  <2> QED
    BY <1>1, <2>1 DEF IInv, TypeOK
<1>3. InHand' /\ Told'
  BY <1>1 DEF IInv, InHand, Told, Entering
<1>4. Offered'
  <2>1. Mentioned(offered)'
    BY <1>1 DEF IInv, Offered, Entering, Mentioned, KnownSubjects, KnownWith, RoleNames
  <2> QED
    BY <1>1, <2>1 DEF Offered
<1>5. OfferedNamesAreKnown' /\ Keys'
  BY <1>1 DEF IInv, OfferedNamesAreKnown, Keys
<1> QED
  BY <1>2, <1>3, <1>4, <1>5 DEF IInv

(* One delta less, whatever becomes of it.                                 *)
LEMMA DeltaTaken ==
  ASSUME IInv, NextDelta
  PROVE  /\ UNCHANGED <<cast, lore, chapters, pc, attempt, before, cut>> /\ offered' = offered
         /\ pc = "deltas" /\ Head(extraction.deltas).subject \in Spellings
         /\ InHand' /\ Told'
<1> DEFINE d == Head(extraction.deltas)
           Claim == [subject : Spellings, form : {"fact", "hollow", "badOp"}]
<1>1. /\ pc = "deltas" /\ extraction.deltas # <<>>
      /\ UNCHANGED <<cast, lore, chapters, pc, attempt, before, cut>> /\ offered' = offered
      /\ extraction' = [extraction EXCEPT !.deltas = Tail(@)]
  BY DEF NextDelta, draftVars
<1>2. extraction \in Report /\ InHand /\ Told
  BY DEF IInv, InHand
<1>3. d \in Claim /\ Tail(extraction.deltas) \in Seq(Claim)
  <2>1. extraction.deltas \in Seq(Claim)
    BY <1>2 DEF Report
  <2> HIDE DEF Claim
  <2> QED
    BY <1>1, <2>1, HeadTailProperties
<1>4. d.subject \in Spellings
  <2> HIDE DEF d
  <2> QED
    BY <1>3
<1>5. extraction' \in Report /\ extraction'.summary = extraction.summary
  BY <1>1, <1>2, <1>3 DEF Report
<1>6. InHand'
  BY <1>1, <1>2, <1>5 DEF InHand, Entering
<1>7. Told'
  BY <1>1, <1>2 DEF Told, Entering
<1> QED
  BY <1>1, <1>4, <1>6, <1>7

(* What a delta leaves as it was, and the subjects it adds.                *)
LEMMA DeltaKeeps ==
  ASSUME IInv, NextDelta,
         ledger \subseteq ledger', ledger' \subseteq Spellings, applied' \subseteq ledger',
         ghosts' \subseteq Spellings, OfferedNamesAreKnown',
         \A n \in ledger' : Proper(n)
  PROVE  IInv'
<1>1. /\ UNCHANGED <<cast, lore, chapters, pc, attempt, before, cut>> /\ offered' = offered
      /\ pc = "deltas" /\ InHand' /\ Told'
  BY DeltaTaken
<1>2. TypeOK'
  <2>1. attempt' \in 0..Attempts' /\ (attempt' > 0 <=> pc' \in {"pass1", "pass2"})
    BY <1>1, AttemptsAre DEF IInv, TypeOK
  <2> QED
    BY <1>1, <2>1 DEF IInv, TypeOK
<1>3. Offered'
  <2>1. Mentioned(offered)
    BY <1>1 DEF IInv, Offered, Entering
  <2>2. \A n \in KnownSubjects : n \in KnownSubjects'
    BY <1>1 DEF KnownSubjects, KnownWith
  <2>3. offered' \cap RoleNames' = {}
    BY <1>1, <2>1 DEF Mentioned, RoleNames
  <2>4. Mentioned(offered)'
    BY <1>1, <2>1, <2>2, <2>3 DEF Mentioned
  <2> QED
    BY <1>1, <2>4 DEF Offered
<1>4. Keys'
  BY <1>1 DEF IInv, Keys
<1> QED
  BY <1>1, <1>2, <1>3, <1>4 DEF IInv

(* A delta's subject is a proper key.                                       *)
LEMMA SubjectTyped ==
  ASSUME TypeOK, NEW d, d.subject \in Spellings
  PROVE  Subject(d) \in Spellings /\ Proper(Subject(d))
<1>1. KnownSubjects \in SUBSET Spellings
  BY KnownTyped DEF TypeOK, KnownSubjects
<1> QED
  BY <1>1, ResolveIs, ResolveIsProper DEF Subject

LEMMA DropDeltaKeeps ==
  ASSUME IInv, DropDelta
  PROVE  IInv'
<1>1. NextDelta /\ UNCHANGED <<ledger, applied, ghosts>>
  BY DEF DropDelta
<1>2. UNCHANGED <<cast, lore, chapters, pc, attempt, before, cut>> /\ offered' = offered
  BY <1>1, DeltaTaken
<1>3. ledger' \subseteq Spellings /\ applied' \subseteq ledger' /\ ghosts' \subseteq Spellings
  BY <1>1 DEF IInv, TypeOK
<1>4. OfferedNamesAreKnown' /\ \A n \in ledger' : Proper(n)
  BY <1>1, <1>2 DEF IInv, OfferedNamesAreKnown, Keys
<1> QED
  BY <1>1, <1>3, <1>4, DeltaKeeps

LEMMA AppendDeltaKeeps ==
  ASSUME IInv, AppendDelta
  PROVE  IInv'
<1> DEFINE s == Subject(Head(extraction.deltas))
<1>1. /\ NextDelta /\ ledger' = ledger \cup {s} /\ applied' = applied \cup {s}
      /\ ghosts' = ghosts
  BY DEF AppendDelta
<1>2. /\ UNCHANGED <<cast, lore, chapters, pc, attempt, before, cut>> /\ offered' = offered
      /\ s \in Spellings /\ Proper(s)
  BY <1>1, DeltaTaken, SubjectTyped DEF IInv
<1> HIDE DEF s
<1>3. /\ ledger \subseteq ledger' /\ ledger' \subseteq Spellings /\ applied' \subseteq ledger'
      /\ ghosts' \subseteq Spellings
  BY <1>1, <1>2 DEF IInv, TypeOK
<1>4. OfferedNamesAreKnown' /\ \A n \in ledger' : Proper(n)
  BY <1>1, <1>2 DEF IInv, OfferedNamesAreKnown, Keys
<1> QED
  BY <1>1, <1>3, <1>4, DeltaKeeps

(* A name that resolves to nobody known was not offered, or is filed as    *)
(* something other than a person's.                                        *)
LEMMA RefuseGhostKeeps ==
  ASSUME IInv, RefuseGhost
  PROVE  IInv'
<1> DEFINE d == Head(extraction.deltas)
           n == d.subject
<1>1. /\ NextDelta /\ ~Dropped(d) /\ Subject(d) \notin KnownSubjects
      /\ ghosts' = ghosts \cup {n} /\ UNCHANGED <<ledger, applied>>
  BY DEF RefuseGhost
<1>2. /\ UNCHANGED <<cast, lore, chapters, pc, attempt, before, cut>> /\ offered' = offered
      /\ n \in Spellings /\ pc = "deltas"
  BY <1>1, DeltaTaken
<1> HIDE DEF d
<1>3. n \notin KnownSubjects
  <2> SUFFICES ASSUME n \in KnownSubjects PROVE FALSE
    OBVIOUS
  <2>1. KnownSubjects \in SUBSET Spellings
    BY KnownTyped DEF IInv, TypeOK, KnownSubjects
  <2>2. Subject(d) = Protagonist /\ Protagonist \in Spellings
    <3>1. Resolve(n, KnownSubjects) \in KnownSubjects \cup {Protagonist}
      BY <1>2, <2>1, ResolveIs
    <3> QED
      BY <1>1, <1>2, <2>1, <3>1, ResolveIs DEF Subject
  <2>3. Protagonist \in RoleNames
    <3>1. Protagonist \in {Protagonist} \ {Nobody}
      BY <2>2, NamesAssumption
    <3> QED
      BY <1>1, <2>2, <3>1 DEF KnownSubjects, KnownWith, RoleNames
  <2>4. SubjectIsARole(Protagonist)
    BY <2>3 DEF RoleNames, SubjectIsARole, SameSpeaker
  <2> QED
    BY <1>1, <2>2, <2>4 DEF Dropped
<1> HIDE DEF n
<1>4. OfferedNamesAreKnown'
  <2>1. n \in offered => n \in DOMAIN lore /\ ~lore[n]
    BY <1>2, <1>3 DEF IInv, Offered, Entering, Mentioned
  <2>2. \A m \in offered \cap ghosts : m \in DOMAIN lore /\ ~lore[m]
    BY DEF IInv, OfferedNamesAreKnown
  <2> QED
    BY <1>1, <1>2, <2>1, <2>2 DEF OfferedNamesAreKnown
<1>5. /\ ledger' \subseteq Spellings /\ applied' \subseteq ledger' /\ ghosts' \subseteq Spellings
      /\ \A m \in ledger' : Proper(m)
  BY <1>1, <1>2 DEF IInv, TypeOK, Keys
<1> QED
  BY <1>1, <1>4, <1>5, DeltaKeeps

(* The summary is the last thing a chapter waits for.                      *)
LEMMA PutSummaryKeeps ==
  ASSUME IInv, PutSummary
  PROVE  IInv'
<1> DEFINE k == Len(chapters)
           told == [chapters[k] EXCEPT !.summed = extraction.summary # ""]
<1>1. /\ pc = "deltas" /\ pc' = "idle" /\ extraction' = Nothing /\ before' = {}
      /\ applied' = {} /\ ghosts' = {} /\ offered' = {}
      /\ UNCHANGED <<cast, lore, ledger, attempt, cut>>
      /\ chapters' = [chapters EXCEPT ![k].summed = extraction.summary # ""]
  BY DEF PutSummary
<1>2. /\ chapters \in Seq(Shipped) /\ chapters # <<>> /\ extraction.summary # ""
      /\ TypeOK /\ Told /\ Entering
  BY <1>1 DEF IInv, InHand, TypeOK, Shipped, Entering
<1>3. k \in Nat /\ DOMAIN chapters = 1..k /\ k \in 1..k /\ chapters[k] \in Shipped
  <2>1. k \in Nat /\ DOMAIN chapters = 1..k /\ k # 0
    BY <1>2, LenProperties, EmptySeq
  <2>2. k \in 1..k
    BY <2>1
  <2> HIDE DEF k
  <2>3. \A i \in 1..Len(chapters) : chapters[i] \in Shipped
    BY <1>2, ElementOfSeq
  <2> QED
    BY <2>1, <2>2, <2>3 DEF k
<1>4. /\ told \in Shipped /\ told.whole = chapters[k].whole /\ told.dirty = chapters[k].dirty
      /\ told.titled = chapters[k].titled /\ told.summed
  <2>1. told = [chapters[k] EXCEPT !.summed = TRUE]
    BY <1>2
  <2> HIDE DEF told, k
  <2> QED
    BY <1>3, <2>1 DEF Shipped
<1>5. chapters' = [chapters EXCEPT ![k] = told]
  BY <1>1
<1> HIDE DEF told
<1>6. /\ chapters' \in Seq(Shipped) /\ Len(chapters') = k /\ DOMAIN chapters' = 1..k
      /\ \A i \in 1..k : chapters'[i] = IF i = k THEN told ELSE chapters[i]
  <2> DEFINE s == chapters
             t == [s EXCEPT ![k] = told]
  <2>1. t \in Seq(Shipped) /\ Len(t) = k /\ \A i \in 1..k : t[i] = IF i = k THEN told ELSE s[i]
    <3>1. s \in Seq(Shipped) /\ k \in 1..Len(s) /\ told \in Shipped /\ Len(s) = k
      BY <1>2, <1>3, <1>4
    <3> HIDE DEF s, k
    <3> QED
      BY <3>1, ExceptSeq
  <2>2. DOMAIN t = 1..k
    BY <2>1, LenProperties
  <2> QED
    BY <1>5, <2>1, <2>2
<1>7. TypeOK'
  <2>1. attempt' \in 0..Attempts' /\ (attempt' > 0 <=> pc' \in {"pass1", "pass2"})
    BY <1>1, <1>2, AttemptsAre DEF TypeOK
  <2> QED
    BY <1>1, <1>2, <1>3, <1>6, <2>1 DEF TypeOK, Shipped
<1>8. InHand'
  BY <1>1, NothingReported DEF InHand, Entering
<1>9. Told'
  <2>1. ASSUME NEW i \in DOMAIN chapters'
        PROVE  /\ chapters'[i].whole
               /\ ~chapters'[i].dirty => (chapters'[i].summed <=> i \notin cut')
               /\ chapters'[i].dirty =>
                    ~chapters'[i].summed /\ i \notin cut' /\ chapters'[i].titled = "number"
    <3>1. i \in DOMAIN chapters
      BY <1>3, <1>6
    <3>2. CASE i = k
      BY <1>1, <1>2, <1>4, <1>6, <3>1, <3>2 DEF Told
    <3>3. CASE i # k
      BY <1>1, <1>2, <1>6, <3>1, <3>3 DEF Told
    <3> QED
      BY <3>2, <3>3
  <2>2. ~Entering'
    BY <1>1 DEF Entering
  <2> QED
    BY <2>1, <2>2 DEF Told
<1>10. Offered' /\ OfferedNamesAreKnown' /\ Keys'
  BY <1>1 DEF IInv, Offered, OfferedNamesAreKnown, Keys, Entering
<1> QED
  BY <1>7, <1>8, <1>9, <1>10 DEF IInv

(* A cycle cut short leaves the store as it is; if the chapter is there,   *)
(* it stays without summary.                                               *)
LEMMA CutShortKeeps ==
  ASSUME IInv, CutShort
  PROVE  IInv'
<1>1. /\ pc # "idle" /\ pc' = "idle" /\ attempt' = 0 /\ offered' = {}
      /\ before' = {} /\ extraction' = Nothing /\ applied' = {} /\ ghosts' = {}
      /\ UNCHANGED <<cast, lore, ledger, chapters>>
      /\ cut' = IF Entering THEN cut \cup {Len(chapters)} ELSE cut
  BY DEF CutShort, NoDraft, storeVars, Entering
<1>2. TypeOK /\ Told /\ chapters \in Seq(Shipped) /\ (Entering => chapters # <<>>)
  BY DEF IInv, TypeOK, InHand, Shipped
<1>3. Entering => Len(chapters) \in DOMAIN chapters
  <2>1. Len(chapters) \in Nat /\ DOMAIN chapters = 1..Len(chapters)
          /\ (chapters # <<>> => Len(chapters) # 0)
    BY <1>2, LenProperties, EmptySeq
  <2> QED
    BY <1>2, <2>1
<1>4. TypeOK'
  <2>1. attempt' \in 0..Attempts' /\ (attempt' > 0 <=> pc' \in {"pass1", "pass2"})
    BY <1>1, AttemptsAre
  <2>2. cut' \subseteq DOMAIN chapters'
    BY <1>1, <1>2, <1>3 DEF TypeOK
  <2> QED
    BY <1>1, <1>2, <2>1, <2>2 DEF TypeOK
<1>5. InHand'
  BY <1>1, NothingReported DEF InHand, Entering
<1>6. ~Entering'
  BY <1>1 DEF Entering
<1>7. Told'
  <2>1. ASSUME NEW c \in DOMAIN chapters'
        PROVE  /\ chapters'[c].whole
               /\ ~chapters'[c].dirty => (chapters'[c].summed <=> c \notin cut')
               /\ chapters'[c].dirty =>
                    ~chapters'[c].summed /\ c \notin cut' /\ chapters'[c].titled = "number"
    <3>1. c \in DOMAIN chapters /\ chapters'[c] = chapters[c]
      BY <1>1
    <3>2. CASE Entering /\ c = Len(chapters)
      BY <1>1, <1>2, <3>1, <3>2 DEF Told
    <3>3. CASE ~(Entering /\ c = Len(chapters))
      <4>1. c \in cut' <=> c \in cut
        BY <1>1, <3>3
      <4> QED
        BY <1>2, <3>1, <3>3, <4>1 DEF Told
    <3> QED
      BY <3>2, <3>3
  <2> QED
    BY <1>6, <2>1 DEF Told
<1>8. Offered' /\ OfferedNamesAreKnown' /\ Keys'
  BY <1>1, <1>6 DEF IInv, Offered, OfferedNamesAreKnown, Keys
<1> QED
  BY <1>4, <1>5, <1>7, <1>8 DEF IInv

LEMMA StutterKeeps ==
  ASSUME IInv, UNCHANGED vars
  PROVE  IInv'
<1>1. /\ UNCHANGED <<cast, lore, ledger, chapters, pc, attempt, prose, turns, whole, offered>>
      /\ UNCHANGED <<before, extraction, applied, ghosts, cut>>
  BY DEF vars, storeVars, draftVars, keepVars
<1>2. TypeOK'
  <2>1. attempt' \in 0..Attempts'
    BY <1>1, AttemptsAre DEF IInv, TypeOK
  <2> QED
    BY <1>1, <2>1 DEF IInv, TypeOK
<1>3. InHand' /\ Told' /\ OfferedNamesAreKnown' /\ Keys'
  BY <1>1 DEF IInv, InHand, Told, OfferedNamesAreKnown, Keys, Entering
<1>4. Offered'
  BY <1>1 DEF IInv, Offered, Mentioned, KnownSubjects, KnownWith, RoleNames, Entering
<1> QED
  BY <1>2, <1>3, <1>4 DEF IInv

LEMMA InvariantStep == IInv /\ [Next]_vars => IInv'
<1> SUFFICES ASSUME IInv, [Next]_vars PROVE IInv'
  OBVIOUS
<1>1. ASSUME NEW a \in Answers(Drafts),
             Pass1Fails(a) \/ Pass1Empty(a) \/ Pass1Answers(a) \/ CastingBreaksOff(a)
      PROVE  IInv'
  BY <1>1, Pass1FailsKeeps, Pass1EmptyKeeps, Pass1AnswersKeeps, CastingBreaksOffKeeps
<1>2. ASSUME NEW a \in Answers(Extractions), Pass2Retries(a) \/ Pass2Fails(a) \/ Pass2Answers(a)
      PROVE  IInv'
  BY <1>2, Pass2RetriesKeeps, Pass2FailsKeeps, Pass2AnswersKeeps
<1>3. CASE \/ Begin \/ UpsertLore \/ LoreDone \/ DropDelta \/ AppendDelta \/ RefuseGhost
           \/ PutSummary \/ CutShort
  BY <1>3, BeginKeeps, UpsertLoreKeeps, LoreDoneKeeps, DropDeltaKeeps, AppendDeltaKeeps,
     RefuseGhostKeeps, PutSummaryKeeps, CutShortKeeps
<1>4. CASE UNCHANGED vars
  BY <1>4, StutterKeeps
<1> QED
  BY <1>1, <1>2, <1>3, <1>4 DEF Next

-----------------------------------------------------------------------------
(* The invariant holds for ever.                                           *)
THEOREM GenerationIsSound == Spec => []IInv
<1>1. Init => IInv
  BY InitIInv
<1>2. IInv /\ [Next]_vars => IInv'
  BY InvariantStep
<1> QED
  BY <1>1, <1>2, PTL DEF Spec

(* Every variable stays in its range.                                      *)
THEOREM GenerationIsTyped == Spec => []TypeOK
<1>1. IInv => TypeOK
  BY DEF IInv
<1> QED
  BY <1>1, GenerationIsSound, PTL

(* parse_tagged_prose, chapter_markdown: the turns are the prose; the       *)
(* markdown of a chapter, parsed again, says what the markdown says, and   *)
(* gives back the turns it was written from unless a turn begins or a name *)
(* ends with a colon, which the parser would take for the tag's.           *)
THEOREM TurnsAreTheProse == Spec => []TurnsAsWritten
<1>1. IInv => TurnsAsWritten
  <2> SUFFICES ASSUME IInv, pc = "pass2"
               PROVE  LET again == ParseTaggedProse(ChapterMarkdown(turns)) IN
                      /\ FaithfulTurns(prose, turns)
                      /\ FaithfulTurns(ChapterMarkdown(turns), again)
                      /\ WithoutColons(turns) => again = turns
    BY DEF TurnsAsWritten
  <2>1. prose \in Seq(Written) /\ turns = ParseTaggedProse(prose)
    BY DEF IInv, InHand
  <2>2. FaithfulTurns(prose, turns) /\ turns \in Seq(Turn) /\ Apart(turns)
    BY <2>1, ParseIsFaithful
  <2>3. ChapterMarkdown(turns) \in Seq(Written)
    BY <2>2, MarkdownWritten
  <2>4. FaithfulTurns(ChapterMarkdown(turns), ParseTaggedProse(ChapterMarkdown(turns)))
    BY <2>3, ParseIsFaithful
  <2>5. WithoutColons(turns) => ParseTaggedProse(ChapterMarkdown(turns)) = turns
    BY <2>2, RoundTrip
  <2> QED
    BY <2>2, <2>4, <2>5
<1> QED
  BY <1>1, GenerationIsSound, PTL

(* resolve_subject: no key of the ledger or the lore is a short or long    *)
(* form of the protagonist's name, but for a namesake's.                   *)
THEOREM TheProtagonistHasOneKey == Spec => []OneKeyForTheProtagonist
<1>1. IInv => OneKeyForTheProtagonist
  BY DEF IInv, Keys, Proper, OneKeyForTheProtagonist
<1> QED
  BY <1>1, GenerationIsSound, PTL

(* run_cycle: no chapter is cut off; a clean one is summed up once its     *)
(* cycle is over, except exactly those whose cycle ended in between.       *)
THEOREM ChaptersAreWholeAndRemembered == Spec => []WholeAndRemembered
<1>1. IInv => WholeAndRemembered
  <2> SUFFICES ASSUME IInv, NEW c \in DOMAIN chapters
               PROVE  /\ chapters[c].whole
                      /\ ~chapters[c].dirty =>
                           (chapters[c].summed <=>
                              c \notin cut /\ ~(c = Len(chapters) /\ pc \in {"lore", "deltas"}))
                      /\ chapters[c].dirty =>
                           ~chapters[c].summed /\ c \notin cut /\ chapters[c].titled = "number"
    BY DEF WholeAndRemembered
  <2> QED
    BY DEF IInv, Told, Entering
<1> QED
  BY <1>1, GenerationIsSound, PTL

(* known_subjects and resolve_subject: a name pass 2 was told to use is    *)
(* not refused when it is used.                                            *)
THEOREM OfferedNamesAreAccepted == Spec => []OfferedNamesAreKnown
<1>1. IInv => OfferedNamesAreKnown
  BY DEF IInv
<1> QED
  BY <1>1, GenerationIsSound, PTL
==============================================================================
