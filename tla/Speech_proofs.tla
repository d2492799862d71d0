---------------------------- MODULE Speech_proofs ----------------------------
(***************************************************************************)
(* Proofs about module Speech, for any chapters, voices, models, budgets,  *)
(* workers and lengths of sound.  First what the functions on texts and    *)
(* plans compute: cutting, packing and joining lose no word, positions     *)
(* name every segment once, the starts are the sums of what is before.  A  *)
(* recursive function is what its equation says, and what holds of every   *)
(* sequence holds because a shortest counterexample would have a shorter   *)
(* one.  Then the inductive invariant of a render and what follows of it.  *)
(***************************************************************************)
EXTENDS Speech, SequenceTheorems, FiniteSetTheorems, WellFoundedInduction, TLAPS

(* A set of numbers that is not empty has a least one.                     *)
LEMMA Least ==
  ASSUME NEW S \in SUBSET Nat, S # {}
  PROVE  \E m \in S : \A k \in S : m <= k
<1> DEFINE R == {ss \in Nat \X Nat : ss[1] < ss[2]}
<1>1. IsWellFoundedOn(R, Nat)
  BY NatLessThanWellFounded DEF OpToRel
<1> HIDE DEF R
<1>2. PICK x \in S : \A y \in S : ~ (<<y, x>> \in R)
  BY <1>1, WFMin
<1>3. ASSUME NEW y \in S
      PROVE  x <= y
  <2>1. x \in Nat /\ y \in Nat /\ ~ (<<y, x>> \in R)
    BY <1>2
  <2>2. ~(y < x)
    BY <2>1 DEF R
  <2> QED
    BY <2>1, <2>2
<1> QED
  BY <1>3

(* f is the joints of the first n of the sequences.                        *)
AreJoints(f, seqs, n) ==
  f = [i \in 1..n |-> IF i = 1 THEN seqs[i] ELSE f[i - 1] \o seqs[i]]

Joints(seqs) == CHOOSE f : AreJoints(f, seqs, Len(seqs))

(* What FlattenSeq gives is the last of them.                              *)
LEMMA FlattenSeqIs ==
  ASSUME NEW seqs
  PROVE  FlattenSeq(seqs) = IF Len(seqs) = 0 THEN seqs ELSE Joints(seqs)[Len(seqs)]
BY DEF FlattenSeq, Joints, AreJoints

(* There is such a function, by induction over n.                          *)
LEMMA JointsExist ==
  ASSUME NEW seqs, NEW n \in Nat
  PROVE  \E f : AreJoints(f, seqs, n)
<1> DEFINE Bad == {m \in Nat : ~\E f : AreJoints(f, seqs, m)}
<1> SUFFICES ASSUME n \in Bad PROVE FALSE
  OBVIOUS
<1>1. PICK m \in Bad : \A k \in Bad : m <= k
  <2>1. Bad \in SUBSET Nat /\ Bad # {}
    OBVIOUS
  <2> HIDE DEF Bad
  <2> QED
    BY <2>1, Least
<1>2. m # 0
  <2> DEFINE f == [i \in 1..0 |-> seqs[i]]
  <2>1. f = [i \in 1..0 |-> IF i = 1 THEN seqs[i] ELSE f[i - 1] \o seqs[i]]
    OBVIOUS
  <2>2. AreJoints(f, seqs, 0)
    BY <2>1 DEF AreJoints
  <2> QED
    BY <2>2
<1>3. m - 1 \in Nat /\ m - 1 \notin Bad
  <2>1. m \in Nat
    OBVIOUS
  <2>2. m - 1 \in Nat /\ ~(m <= m - 1)
    BY <2>1, <1>2
  <2> HIDE DEF Bad
  <2> QED
    BY <1>1, <2>2
<1>4. PICK f : AreJoints(f, seqs, m - 1)
  BY <1>3
<1> DEFINE last == IF m = 1 THEN seqs[m] ELSE f[m - 1] \o seqs[m]
           h == [i \in 1..m |-> IF i = m THEN last ELSE f[i]]
<1>5. h = [i \in 1..m |-> IF i = 1 THEN seqs[i] ELSE h[i - 1] \o seqs[i]]
  <2>1. f = [i \in 1..(m - 1) |-> IF i = 1 THEN seqs[i] ELSE f[i - 1] \o seqs[i]]
    BY <1>4 DEF AreJoints
  <2>2. ASSUME NEW i \in 1..m
        PROVE  h[i] = IF i = 1 THEN seqs[i] ELSE h[i - 1] \o seqs[i]
    <3>1. CASE i = m
      <4>1. h[i] = last /\ (m # 1 => h[m - 1] = f[m - 1])
        BY <1>3, <3>1
      <4> HIDE DEF h
      <4> QED
        BY <1>2, <3>1, <4>1
    <3>2. CASE i # m
      <4>1. i \in 1..(m - 1) /\ h[i] = f[i] /\ (i # 1 => h[i - 1] = f[i - 1])
        BY <1>3, <3>2
      <4> HIDE DEF h
      <4>2. f[i] = IF i = 1 THEN seqs[i] ELSE f[i - 1] \o seqs[i]
        BY <2>1, <4>1
      <4> QED
        BY <4>1, <4>2
    <3> QED
      BY <3>1, <3>2
  <2>3. h = [i \in 1..m |-> h[i]]
    OBVIOUS
  <2> HIDE DEF h
  <2> QED
    BY <2>2, <2>3
<1>6. AreJoints(h, seqs, m)
  BY <1>5 DEF AreJoints
<1> QED
  BY <1>6

(* So each joint is the one before with the next sequence.                 *)
LEMMA JointsAre ==
  ASSUME NEW seqs, Len(seqs) \in Nat
  PROVE  \A i \in 1..Len(seqs) :
           Joints(seqs)[i] = IF i = 1 THEN seqs[i] ELSE Joints(seqs)[i - 1] \o seqs[i]
<1> DEFINE f == Joints(seqs)
<1>1. AreJoints(f, seqs, Len(seqs))
  BY JointsExist DEF Joints
<1> HIDE DEF f
<1>2. f = [i \in 1..Len(seqs) |-> IF i = 1 THEN seqs[i] ELSE f[i - 1] \o seqs[i]]
  BY <1>1 DEF AreJoints
<1>3. ASSUME NEW i \in 1..Len(seqs)
      PROVE  f[i] = IF i = 1 THEN seqs[i] ELSE f[i - 1] \o seqs[i]
  BY <1>2
<1> QED
  BY <1>3 DEF f

(* The joints of a sequence and of one more agree on the first.            *)
LEMMA JointsAppend ==
  ASSUME NEW A, NEW seqs \in Seq(Seq(A)), NEW x \in Seq(A)
  PROVE  \A i \in 1..Len(seqs) : Joints(Append(seqs, x))[i] = Joints(seqs)[i]
<1> DEFINE more == Append(seqs, x)
           f == Joints(seqs)
           g == Joints(more)
           len == Len(seqs)
           Bad == {i \in 1..len : g[i] # f[i]}
<1>1. len \in Nat /\ Len(more) = len + 1 /\ Len(more) \in Nat
  BY LenProperties, AppendProperties
<1>2. \A i \in 1..len : more[i] = seqs[i]
  BY <1>1, AppendProperties
<1>3. \A i \in 1..len : f[i] = IF i = 1 THEN seqs[i] ELSE f[i - 1] \o seqs[i]
  BY <1>1, JointsAre
<1>4. \A i \in 1..(len + 1) : g[i] = IF i = 1 THEN more[i] ELSE g[i - 1] \o more[i]
  <2> HIDE DEF more
  <2> QED
    BY <1>1, JointsAre
<1> HIDE DEF f, g, len, more
<1>5. Bad = {}
  <2> SUFFICES ASSUME Bad # {} PROVE FALSE
    OBVIOUS
  <2>1. PICK i \in Bad : \A k \in Bad : i <= k
    <3>1. Bad \in SUBSET Nat
      BY <1>1
    <3> HIDE DEF Bad
    <3> QED
      BY <3>1, Least
  <2>2. i \in 1..len /\ g[i] # f[i]
    OBVIOUS
  <2>3. i \in 1..(len + 1) /\ g[i] = IF i = 1 THEN seqs[i] ELSE g[i - 1] \o seqs[i]
    BY <1>1, <1>2, <1>4, <2>2
  <2>4. i # 1
    BY <1>3, <2>2, <2>3
  <2>5. i - 1 \in 1..len /\ ~(i <= i - 1)
    BY <1>1, <2>2, <2>4
  <2>6. i - 1 \notin Bad
    <3> HIDE DEF Bad
    <3> QED
      BY <2>1, <2>5
  <2>7. g[i - 1] = f[i - 1]
    BY <2>5, <2>6
  <2> QED
    BY <1>3, <2>2, <2>3, <2>4, <2>7
<1> QED
  BY <1>5 DEF f, g, len, more

(* Joining a sequence and one more.                                        *)
LEMMA FlattenAppend ==
  ASSUME NEW A, NEW seqs \in Seq(Seq(A)), NEW x \in Seq(A)
  PROVE  FlattenSeq(Append(seqs, x)) = FlattenSeq(seqs) \o x
<1> DEFINE more == Append(seqs, x)
           len == Len(seqs)
<1>1. len \in Nat /\ Len(more) = len + 1 /\ more[len + 1] = x /\ more \in Seq(Seq(A))
  BY LenProperties, AppendProperties
<1>2. FlattenSeq(more) = Joints(more)[len + 1]
  <2>1. Len(more) # 0
    BY <1>1
  <2> HIDE DEF more, len
  <2> QED
    BY <1>1, <2>1, FlattenSeqIs
<1>3. Joints(more)[len + 1] = IF len + 1 = 1 THEN more[len + 1]
                              ELSE Joints(more)[len + 1 - 1] \o more[len + 1]
  <2>1. len + 1 \in 1..Len(more)
    BY <1>1
  <2>2. \A i \in 1..Len(more) :
          Joints(more)[i] = IF i = 1 THEN more[i] ELSE Joints(more)[i - 1] \o more[i]
    <3>1. Len(more) \in Nat
      BY <1>1
    <3> HIDE DEF more
    <3> QED
      BY <3>1, JointsAre
  <2> HIDE DEF more, len
  <2>3. PICK i \in 1..Len(more) : i = len + 1
    BY <2>1
  <2>4. Joints(more)[i] = IF i = 1 THEN more[i] ELSE Joints(more)[i - 1] \o more[i]
    BY <2>2
  <2> QED
    BY <1>1, <2>3, <2>4
<1>4. CASE len = 0
  <2>1. seqs = <<>> /\ FlattenSeq(seqs) = <<>>
    BY <1>4, FlattenSeqIs, EmptySeq
  <2>2. FlattenSeq(more) = x
    <3> HIDE DEF more
    <3> QED
      BY <1>1, <1>2, <1>3, <1>4
  <2> QED
    BY <2>1, <2>2, ConcatEmptySeq
<1>5. CASE len # 0
  <2>1. len \in 1..len /\ len + 1 - 1 = len /\ len + 1 # 1
    BY <1>1, <1>5
  <2>2. Joints(more)[len] = Joints(seqs)[len]
    BY <2>1, JointsAppend
  <2>3. FlattenSeq(seqs) = Joints(seqs)[len]
    BY <1>5, FlattenSeqIs
  <2>4. FlattenSeq(more) = Joints(more)[len] \o x
    <3> HIDE DEF more, len
    <3> QED
      BY <1>1, <1>2, <1>3, <2>1
  <2> QED
    BY <2>2, <2>3, <2>4
<1> QED
  BY <1>4, <1>5

(* Joining nothing.                                                         *)
LEMMA FlattenEmpty == FlattenSeq(<<>>) = <<>>
BY FlattenSeqIs, EmptySeq

(* What is joined of sequences over a set is one.                          *)
LEMMA FlattenType ==
  ASSUME NEW A, NEW seqs \in Seq(Seq(A))
  PROVE  FlattenSeq(seqs) \in Seq(A)
<1> DEFINE f == Joints(seqs)
           len == Len(seqs)
           Bad == {i \in 1..len : f[i] \notin Seq(A)}
<1>1. len \in Nat /\ \A i \in 1..len : seqs[i] \in Seq(A)
  BY LenProperties, ElementOfSeq
<1>2. \A i \in 1..len : f[i] = IF i = 1 THEN seqs[i] ELSE f[i - 1] \o seqs[i]
  BY <1>1, JointsAre
<1> HIDE DEF f, len
<1>3. Bad = {}
  <2> SUFFICES ASSUME Bad # {} PROVE FALSE
    OBVIOUS
  <2>1. PICK i \in Bad : \A k \in Bad : i <= k
    <3>1. Bad \in SUBSET Nat
      BY <1>1
    <3> HIDE DEF Bad
    <3> QED
      BY <3>1, Least
  <2>2. i \in 1..len /\ f[i] \notin Seq(A) /\ seqs[i] \in Seq(A)
    BY <1>1
  <2>3. i # 1
    BY <1>2, <2>2
  <2>4. i - 1 \in 1..len /\ ~(i <= i - 1)
    BY <1>1, <2>2, <2>3
  <2>5. i - 1 \notin Bad
    <3> HIDE DEF Bad
    <3> QED
      BY <2>1, <2>4
  <2>6. f[i - 1] \in Seq(A) /\ f[i] = f[i - 1] \o seqs[i]
    BY <1>2, <2>2, <2>3, <2>4, <2>5
  <2> QED
    BY <2>2, <2>6, ConcatProperties
<1>4. CASE len = 0
  <2>1. FlattenSeq(seqs) = seqs /\ seqs = <<>>
    BY <1>4, FlattenSeqIs, EmptySeq DEF len
  <2> QED
    BY <2>1, EmptySeq
<1>5. CASE len # 0
  <2>1. FlattenSeq(seqs) = f[len] /\ len \in 1..len
    BY <1>1, <1>5, FlattenSeqIs DEF len, f
  <2> QED
    BY <1>3, <2>1
<1> QED
  BY <1>4, <1>5

(* What holds of the empty sequence, and of a sequence and one more when   *)
(* it holds of the sequence, holds of every sequence: there is no shortest *)
(* one of which it does not.                                               *)
LEMMA Shortest ==
  ASSUME NEW A, NEW Bad \in SUBSET Seq(A), <<>> \notin Bad,
         \A s \in Seq(A), x \in A : Append(s, x) \in Bad => s \in Bad
  PROVE  Bad = {}
<1> SUFFICES ASSUME Bad # {} PROVE FALSE
  OBVIOUS
<1> DEFINE Measures == {Len(s) : s \in Bad}
<1>1. PICK n \in Measures : \A k \in Measures : n <= k
  <2>1. \A s \in Bad : Len(s) \in Nat
    BY LenProperties
  <2>2. Measures \in SUBSET Nat
    BY <2>1
  <2>3. PICK s \in Bad : TRUE
    OBVIOUS
  <2>4. Len(s) \in Measures
    OBVIOUS
  <2> HIDE DEF Measures
  <2> QED
    BY <2>2, <2>4, Least
<1>2. PICK s \in Bad : n = Len(s)
  OBVIOUS
<1>3. PICK t \in Seq(A), x \in A : s = Append(t, x)
  <2>1. s \in Seq(A) /\ s # <<>>
    OBVIOUS
  <2> QED
    BY <2>1, SequenceEmptyOrAppend
<1>4. t \in Bad /\ Len(t) \in Nat /\ Len(s) = Len(t) + 1
  BY <1>3, AppendProperties, LenProperties
<1>5. Len(t) \in Measures /\ ~(n <= Len(t))
  BY <1>2, <1>4
<1> HIDE DEF Measures
<1> QED
  BY <1>1, <1>5

(* A function on 1..n is a sequence.                                       *)
LEMMA FunctionSeq ==
  ASSUME NEW B, NEW n \in Nat, NEW g \in [1..n -> B]
  PROVE  g \in Seq(B) /\ Len(g) = n /\ DOMAIN g = 1..n
<1>1. g \in Seq(B)
  BY SeqDef
<1>2. Len(g) \in Nat /\ DOMAIN g = 1..Len(g) /\ DOMAIN g = 1..n
  BY <1>1, LenProperties
<1>3. Len(g) = n
  BY <1>2
<1> QED
  BY <1>1, <1>2, <1>3

(* One that goes on where another ends is it with one more.                *)
LEMMA GoesOn ==
  ASSUME NEW B, NEW n \in Nat, NEW m \in [1..n -> B], NEW g \in [1..(n + 1) -> B],
         \A i \in 1..n : g[i] = m[i]
  PROVE  g = Append(m, g[n + 1])
<1>1. m \in Seq(B) /\ Len(m) = n /\ n + 1 \in Nat
  BY FunctionSeq
<1>2. g \in Seq(B) /\ Len(g) = n + 1
  BY <1>1, FunctionSeq
<1> DEFINE x == g[n + 1]
<1>3. x \in B
  BY <1>1
<1> HIDE DEF x
<1>4. /\ Append(m, x) \in Seq(B) /\ Len(Append(m, x)) = n + 1 /\ Append(m, x)[n + 1] = x
      /\ \A i \in 1..n : Append(m, x)[i] = m[i]
  BY <1>1, <1>3, AppendProperties
<1>5. ASSUME NEW i \in 1..(n + 1)
      PROVE  g[i] = Append(m, x)[i]
  <2>1. CASE i = n + 1
    BY <1>4, <2>1 DEF x
  <2>2. CASE i # n + 1
    <3>1. i \in 1..n
      BY <2>2
    <3> QED
      BY <1>4, <3>1
  <2> QED
    BY <2>1, <2>2
<1>6. g = Append(m, x)
  BY <1>2, <1>4, <1>5, SeqEqual
<1> QED
  BY <1>6 DEF x

(* Appending to a joined sequence.                                         *)
LEMMA AppendConcat ==
  ASSUME NEW A, NEW s \in Seq(A), NEW t \in Seq(A), NEW x \in A
  PROVE  s \o Append(t, x) = Append(s \o t, x)
<1>1. <<x>> \in Seq(A) /\ s \o t \in Seq(A)
  BY ConcatProperties
<1>2. Append(t, x) = t \o <<x>> /\ Append(s \o t, x) = (s \o t) \o <<x>>
  BY <1>1, AppendIsConcat
<1> QED
  BY <1>1, <1>2, ConcatAssociative

(* Joining joins.                                                           *)
LEMMA FlattenConcat ==
  ASSUME NEW A, NEW s \in Seq(Seq(A)), NEW t \in Seq(Seq(A))
  PROVE  FlattenSeq(s \o t) = FlattenSeq(s) \o FlattenSeq(t)
<1> DEFINE Bad == {u \in Seq(Seq(A)) : FlattenSeq(s \o u) # FlattenSeq(s) \o FlattenSeq(u)}
<1>1. <<>> \notin Bad
  <2>1. s \o <<>> = s /\ FlattenSeq(s) \in Seq(A) /\ FlattenSeq(<<>>) = <<>>
    BY ConcatEmptySeq, FlattenType, FlattenEmpty
  <2>2. FlattenSeq(s) \o <<>> = FlattenSeq(s)
    BY <2>1, ConcatEmptySeq
  <2> QED
    BY <2>1, <2>2
<1>2. ASSUME NEW u \in Seq(Seq(A)), NEW x \in Seq(A), u \notin Bad
      PROVE  Append(u, x) \notin Bad
  <2>1. s \o Append(u, x) = Append(s \o u, x) /\ s \o u \in Seq(Seq(A))
    BY AppendConcat, ConcatProperties
  <2>2. FlattenSeq(Append(s \o u, x)) = FlattenSeq(s \o u) \o x
    BY <2>1, FlattenAppend
  <2>3. FlattenSeq(Append(u, x)) = FlattenSeq(u) \o x
    BY FlattenAppend
  <2>4. FlattenSeq(s \o u) = FlattenSeq(s) \o FlattenSeq(u)
    BY <1>2
  <2>5. FlattenSeq(s) \in Seq(A) /\ FlattenSeq(u) \in Seq(A)
    BY FlattenType
  <2>6. (FlattenSeq(s) \o FlattenSeq(u)) \o x = FlattenSeq(s) \o (FlattenSeq(u) \o x)
    BY <2>5, ConcatAssociative
  <2> QED
    BY <2>1, <2>2, <2>3, <2>4, <2>6
<1>3. Bad = {}
  <2>1. Bad \in SUBSET Seq(Seq(A))
    OBVIOUS
  <2> HIDE DEF Bad
  <2> QED
    BY <1>1, <1>2, <2>1, Shortest
<1> QED
  BY <1>3

(* Joining one.                                                             *)
LEMMA FlattenOne ==
  ASSUME NEW A, NEW x \in Seq(A)
  PROVE  FlattenSeq(<<x>>) = x
<1>1. <<x>> = Append(<<>>, x) /\ <<>> \in Seq(Seq(A))
  BY EmptySeq
<1>2. FlattenSeq(Append(<<>>, x)) = FlattenSeq(<<>>) \o x
  BY <1>1, FlattenAppend
<1> QED
  BY <1>1, <1>2, FlattenEmpty, ConcatEmptySeq

-----------------------------------------------------------------------------
(* Sums, one summand at a time.                                            *)

(* f is what the first n of s add up to, for each n.                       *)
AreSums(f, s, n) ==
  f = [i \in 0..n |-> IF i = 0 THEN 0 ELSE f[i - 1] + s[i]]

Sums(s) == CHOOSE f : AreSums(f, s, Len(s))

(* A total is the last of the sums.                                        *)
LEMMA TotalIs ==
  ASSUME NEW s
  PROVE  Total(s) = Sums(s)[Len(s)]
BY DEF Total, Sums, AreSums

(* There are such sums, by induction over n.                               *)
LEMMA SumsExist ==
  ASSUME NEW s, NEW n \in Nat
  PROVE  \E f : AreSums(f, s, n)
<1> DEFINE Bad == {m \in Nat : ~\E f : AreSums(f, s, m)}
<1> SUFFICES ASSUME n \in Bad PROVE FALSE
  OBVIOUS
<1>1. PICK m \in Bad : \A k \in Bad : m <= k
  <2>1. Bad \in SUBSET Nat /\ Bad # {}
    OBVIOUS
  <2> HIDE DEF Bad
  <2> QED
    BY <2>1, Least
<1>2. m # 0
  <2> DEFINE f == [i \in 0..0 |-> 0]
  <2>1. f = [i \in 0..0 |-> IF i = 0 THEN 0 ELSE f[i - 1] + s[i]]
    OBVIOUS
  <2>2. AreSums(f, s, 0)
    BY <2>1 DEF AreSums
  <2> QED
    BY <2>2
<1>3. m - 1 \in Nat /\ m - 1 \notin Bad
  <2>1. m \in Nat
    OBVIOUS
  <2>2. m - 1 \in Nat /\ ~(m <= m - 1)
    BY <2>1, <1>2
  <2> HIDE DEF Bad
  <2> QED
    BY <1>1, <2>2
<1>4. PICK f : AreSums(f, s, m - 1)
  BY <1>3
<1> DEFINE h == [i \in 0..m |-> IF i = m THEN f[m - 1] + s[m] ELSE f[i]]
<1>5. h = [i \in 0..m |-> IF i = 0 THEN 0 ELSE h[i - 1] + s[i]]
  <2>1. f = [i \in 0..(m - 1) |-> IF i = 0 THEN 0 ELSE f[i - 1] + s[i]]
    BY <1>4 DEF AreSums
  <2>2. ASSUME NEW i \in 0..m
        PROVE  h[i] = IF i = 0 THEN 0 ELSE h[i - 1] + s[i]
    <3>1. CASE i = m
      <4>1. h[i] = f[m - 1] + s[m] /\ h[m - 1] = f[m - 1]
        BY <1>3, <3>1
      <4> QED
        BY <1>2, <3>1, <4>1
    <3>2. CASE i # m
      <4>1. i \in 0..(m - 1) /\ h[i] = f[i] /\ (i # 0 => h[i - 1] = f[i - 1])
        BY <1>3, <3>2
      <4> HIDE DEF h
      <4>2. f[i] = IF i = 0 THEN 0 ELSE f[i - 1] + s[i]
        BY <2>1, <4>1
      <4> QED
        BY <4>1, <4>2
    <3> QED
      BY <3>1, <3>2
  <2>3. h = [i \in 0..m |-> h[i]]
    OBVIOUS
  <2> HIDE DEF h
  <2> QED
    BY <2>2, <2>3
<1>6. AreSums(h, s, m)
  BY <1>5 DEF AreSums
<1> QED
  BY <1>6

(* So each sum is of one more.                                             *)
LEMMA SumsAre ==
  ASSUME NEW s, Len(s) \in Nat
  PROVE  /\ Sums(s)[0] = 0
         /\ \A i \in 1..Len(s) : Sums(s)[i] = Sums(s)[i - 1] + s[i]
<1> DEFINE f == Sums(s)
<1>1. AreSums(f, s, Len(s))
  BY SumsExist DEF Sums
<1> HIDE DEF f
<1>2. f = [i \in 0..Len(s) |-> IF i = 0 THEN 0 ELSE f[i - 1] + s[i]]
  BY <1>1 DEF AreSums
<1>3. f[0] = 0
  BY <1>2
<1>4. ASSUME NEW i \in 1..Len(s)
      PROVE  f[i] = f[i - 1] + s[i]
  <2>1. i \in 0..Len(s) /\ i # 0
    OBVIOUS
  <2> QED
    BY <1>2, <2>1
<1> QED
  BY <1>3, <1>4 DEF f

(* The sums of a sequence and of one more agree on the first.              *)
LEMMA SumsAppend ==
  ASSUME NEW A, NEW s \in Seq(A), NEW x \in A
  PROVE  \A i \in 0..Len(s) : Sums(Append(s, x))[i] = Sums(s)[i]
<1> DEFINE more == Append(s, x)
           f == Sums(s)
           g == Sums(more)
           len == Len(s)
           Bad == {i \in 0..len : g[i] # f[i]}
<1>1. len \in Nat /\ Len(more) = len + 1 /\ Len(more) \in Nat
  BY LenProperties, AppendProperties
<1>2. \A i \in 1..len : more[i] = s[i]
  BY <1>1, AppendProperties
<1>3. f[0] = 0 /\ \A i \in 1..len : f[i] = f[i - 1] + s[i]
  BY <1>1, SumsAre
<1>4. g[0] = 0 /\ \A i \in 1..(len + 1) : g[i] = g[i - 1] + more[i]
  <2> HIDE DEF more
  <2> QED
    BY <1>1, SumsAre
<1> HIDE DEF f, g, len, more
<1>5. Bad = {}
  <2> SUFFICES ASSUME Bad # {} PROVE FALSE
    OBVIOUS
  <2>1. PICK i \in Bad : \A k \in Bad : i <= k
    <3>1. Bad \in SUBSET Nat
      BY <1>1
    <3> HIDE DEF Bad
    <3> QED
      BY <3>1, Least
  <2>2. i \in 0..len /\ g[i] # f[i]
    OBVIOUS
  <2>3. i # 0
    BY <1>3, <1>4, <2>2
  <2>4. i \in 1..len /\ i - 1 \in 0..len /\ ~(i <= i - 1)
    BY <1>1, <2>2, <2>3
  <2>5. i - 1 \notin Bad
    <3> HIDE DEF Bad
    <3> QED
      BY <2>1, <2>4
  <2>6. g[i - 1] = f[i - 1]
    BY <2>4, <2>5
  <2>7. g[i] = g[i - 1] + s[i]
    BY <1>1, <1>2, <1>4, <2>4
  <2> QED
    BY <1>3, <2>2, <2>4, <2>6, <2>7
<1> QED
  BY <1>5 DEF f, g, len, more

(* Nothing sums up to nothing.                                             *)
LEMMA TotalNothing == Total(<<>>) = 0
BY SumsAre, EmptySeq, TotalIs

(* One more adds to the total.                                             *)
LEMMA TotalAppend ==
  ASSUME NEW A, NEW s \in Seq(A), NEW x \in A
  PROVE  Total(Append(s, x)) = Total(s) + x
<1> DEFINE more == Append(s, x)
           len == Len(s)
<1>1. len \in Nat /\ Len(more) = len + 1 /\ Len(more) \in Nat /\ more[len + 1] = x
  BY LenProperties, AppendProperties
<1>2. \A i \in 1..Len(more) : Sums(more)[i] = Sums(more)[i - 1] + more[i]
  <2> HIDE DEF more
  <2> QED
    BY <1>1, SumsAre
<1>3. Sums(more)[len] = Sums(s)[len]
  BY <1>1, SumsAppend
<1>4. PICK n \in 1..Len(more) : n = len + 1
  BY <1>1
<1>5. n - 1 = len /\ n = Len(more)
  BY <1>1, <1>4
<1> HIDE DEF more, len
<1>6. Sums(more)[n] = Sums(more)[n - 1] + more[n]
  BY <1>2
<1>7. Sums(more)[Len(more)] = Sums(s)[len] + x
  BY <1>1, <1>3, <1>4, <1>5, <1>6
<1> QED
  BY <1>7, TotalIs DEF more, len

-----------------------------------------------------------------------------
(* Texts, one word at a time, and pieces, one piece at a time.             *)

(* When the next word, or the next piece, begins one of its own.           *)
Ended(acc)        == acc = <<>> \/ Last(Last(acc)).ends
Full(acc, p, max) == acc = <<>> \/ Chars(Last(acc)) + 1 + Chars(p) > max

WithWord(acc, w)       == Piece(acc, <<w>>, Ended(acc))
WithPiece(acc, p, max) == Piece(acc, p, Full(acc, p, max))

(* f is how the first n words of t are cut, for each n.                    *)
AreCuts(f, t, n) ==
  f = [i \in 0..n |-> IF i = 0 THEN <<>> ELSE WithWord(f[i - 1], t[i])]

Cuts(t) == CHOOSE f : AreCuts(f, t, Len(t))

(* The sentences are the last of the cuts.                                 *)
LEMMA SentencesIs ==
  ASSUME NEW t
  PROVE  Sentences(t) = Cuts(t)[Len(t)]
BY DEF Sentences, Cuts, AreCuts, WithWord, Ended

(* There are such cuts, by induction over n.                               *)
LEMMA CutsExist ==
  ASSUME NEW t, NEW n \in Nat
  PROVE  \E f : AreCuts(f, t, n)
<1> DEFINE Bad == {m \in Nat : ~\E f : AreCuts(f, t, m)}
<1> SUFFICES ASSUME n \in Bad PROVE FALSE
  OBVIOUS
<1>1. PICK m \in Bad : \A k \in Bad : m <= k
  <2>1. Bad \in SUBSET Nat /\ Bad # {}
    OBVIOUS
  <2> HIDE DEF Bad
  <2> QED
    BY <2>1, Least
<1>2. m # 0
  <2> DEFINE f == [i \in 0..0 |-> <<>>]
  <2>1. f = [i \in 0..0 |-> IF i = 0 THEN <<>> ELSE WithWord(f[i - 1], t[i])]
    OBVIOUS
  <2>2. AreCuts(f, t, 0)
    BY <2>1 DEF AreCuts
  <2> QED
    BY <2>2
<1>3. m - 1 \in Nat /\ m - 1 \notin Bad
  <2>1. m \in Nat
    OBVIOUS
  <2>2. m - 1 \in Nat /\ ~(m <= m - 1)
    BY <2>1, <1>2
  <2> HIDE DEF Bad
  <2> QED
    BY <1>1, <2>2
<1>4. PICK f : AreCuts(f, t, m - 1)
  BY <1>3
<1> DEFINE h == [i \in 0..m |-> IF i = m THEN WithWord(f[m - 1], t[m]) ELSE f[i]]
<1>5. h = [i \in 0..m |-> IF i = 0 THEN <<>> ELSE WithWord(h[i - 1], t[i])]
  <2>1. f = [i \in 0..(m - 1) |-> IF i = 0 THEN <<>> ELSE WithWord(f[i - 1], t[i])]
    BY <1>4 DEF AreCuts
  <2>2. ASSUME NEW i \in 0..m
        PROVE  h[i] = IF i = 0 THEN <<>> ELSE WithWord(h[i - 1], t[i])
    <3>1. CASE i = m
      <4>1. h[i] = WithWord(f[m - 1], t[m]) /\ h[m - 1] = f[m - 1]
        BY <1>3, <3>1
      <4> QED
        BY <1>2, <3>1, <4>1
    <3>2. CASE i # m
      <4>1. i \in 0..(m - 1) /\ h[i] = f[i] /\ (i # 0 => h[i - 1] = f[i - 1])
        BY <1>3, <3>2
      <4> HIDE DEF h
      <4>2. f[i] = IF i = 0 THEN <<>> ELSE WithWord(f[i - 1], t[i])
        BY <2>1, <4>1
      <4> QED
        BY <4>1, <4>2
    <3> QED
      BY <3>1, <3>2
  <2>3. h = [i \in 0..m |-> h[i]]
    OBVIOUS
  <2> HIDE DEF h
  <2> QED
    BY <2>2, <2>3
<1>6. AreCuts(h, t, m)
  BY <1>5 DEF AreCuts
<1> QED
  BY <1>6

(* So each cut is of one more word.                                        *)
LEMMA CutsAre ==
  ASSUME NEW t, Len(t) \in Nat
  PROVE  /\ Cuts(t)[0] = <<>>
         /\ \A i \in 1..Len(t) : Cuts(t)[i] = WithWord(Cuts(t)[i - 1], t[i])
<1> DEFINE f == Cuts(t)
<1>1. AreCuts(f, t, Len(t))
  BY CutsExist DEF Cuts
<1> HIDE DEF f
<1>2. f = [i \in 0..Len(t) |-> IF i = 0 THEN <<>> ELSE WithWord(f[i - 1], t[i])]
  BY <1>1 DEF AreCuts
<1>3. f[0] = <<>>
  BY <1>2
<1>4. ASSUME NEW i \in 1..Len(t)
      PROVE  f[i] = WithWord(f[i - 1], t[i])
  <2>1. i \in 0..Len(t) /\ i # 0
    OBVIOUS
  <2> QED
    BY <1>2, <2>1
<1> QED
  BY <1>3, <1>4 DEF f

(* The cuts of a text and of one word more agree on the first.             *)
LEMMA CutsAppend ==
  ASSUME NEW A, NEW t \in Seq(A), NEW w \in A
  PROVE  \A i \in 0..Len(t) : Cuts(Append(t, w))[i] = Cuts(t)[i]
<1> DEFINE more == Append(t, w)
           f == Cuts(t)
           g == Cuts(more)
           len == Len(t)
           Bad == {i \in 0..len : g[i] # f[i]}
<1>1. len \in Nat /\ Len(more) = len + 1 /\ Len(more) \in Nat
  BY LenProperties, AppendProperties
<1>2. \A i \in 1..len : more[i] = t[i]
  BY <1>1, AppendProperties
<1>3. f[0] = <<>> /\ \A i \in 1..len : f[i] = WithWord(f[i - 1], t[i])
  BY <1>1, CutsAre
<1>4. g[0] = <<>> /\ \A i \in 1..(len + 1) : g[i] = WithWord(g[i - 1], more[i])
  <2> HIDE DEF more
  <2> QED
    BY <1>1, CutsAre
<1> HIDE DEF f, g, len, more
<1>5. Bad = {}
  <2> SUFFICES ASSUME Bad # {} PROVE FALSE
    OBVIOUS
  <2>1. PICK i \in Bad : \A k \in Bad : i <= k
    <3>1. Bad \in SUBSET Nat
      BY <1>1
    <3> HIDE DEF Bad
    <3> QED
      BY <3>1, Least
  <2>2. i \in 0..len /\ g[i] # f[i]
    OBVIOUS
  <2>3. i # 0
    BY <1>3, <1>4, <2>2
  <2>4. i \in 1..len /\ i - 1 \in 0..len /\ ~(i <= i - 1)
    BY <1>1, <2>2, <2>3
  <2>5. i - 1 \notin Bad
    <3> HIDE DEF Bad
    <3> QED
      BY <2>1, <2>4
  <2>6. g[i - 1] = f[i - 1]
    BY <2>4, <2>5
  <2>7. g[i] = WithWord(g[i - 1], t[i])
    BY <1>1, <1>2, <1>4, <2>4
  <2> QED
    BY <1>3, <2>2, <2>4, <2>6, <2>7
<1> QED
  BY <1>5 DEF f, g, len, more

(* A text without words has no sentences.                                  *)
LEMMA SentencesNothing == Sentences(<<>>) = <<>>
BY CutsAre, EmptySeq, SentencesIs

(* One word more goes on with the last sentence or begins one.             *)
LEMMA SentencesAppend ==
  ASSUME NEW A, NEW t \in Seq(A), NEW w \in A
  PROVE  Sentences(Append(t, w)) = Piece(Sentences(t), <<w>>, Ended(Sentences(t)))
<1> DEFINE more == Append(t, w)
           len == Len(t)
<1>1. len \in Nat /\ Len(more) = len + 1 /\ Len(more) \in Nat /\ more[len + 1] = w
  BY LenProperties, AppendProperties
<1>2. \A i \in 1..Len(more) : Cuts(more)[i] = WithWord(Cuts(more)[i - 1], more[i])
  <2> HIDE DEF more
  <2> QED
    BY <1>1, CutsAre
<1>3. Cuts(more)[len] = Cuts(t)[len]
  BY <1>1, CutsAppend
<1>4. PICK n \in 1..Len(more) : n = len + 1
  BY <1>1
<1>5. n - 1 = len /\ n = Len(more)
  BY <1>1, <1>4
<1> HIDE DEF more, len
<1>6. Cuts(more)[n] = WithWord(Cuts(more)[n - 1], more[n])
  BY <1>2
<1>7. Cuts(more)[Len(more)] = WithWord(Cuts(t)[len], w)
  BY <1>1, <1>3, <1>4, <1>5, <1>6
<1> QED
  BY <1>7, SentencesIs DEF more, len, WithWord

(* f is how the first n pieces are packed, for each n.                     *)
ArePacks(f, pieces, max, n) ==
  f = [i \in 0..n |-> IF i = 0 THEN <<>>
                      ELSE WithPiece(f[i - 1], pieces[i], max)]

Packs(pieces, max) == CHOOSE f : ArePacks(f, pieces, max, Len(pieces))

(* What is packed is the last of the packs.                                *)
LEMMA PackIs ==
  ASSUME NEW pieces, NEW max
  PROVE  Pack(pieces, max) = Packs(pieces, max)[Len(pieces)]
BY DEF Pack, Packs, ArePacks, WithPiece, Full

(* There are such packs, by induction over n.                              *)
LEMMA PacksExist ==
  ASSUME NEW pieces, NEW max, NEW n \in Nat
  PROVE  \E f : ArePacks(f, pieces, max, n)
<1> DEFINE Bad == {m \in Nat : ~\E f : ArePacks(f, pieces, max, m)}
<1> SUFFICES ASSUME n \in Bad PROVE FALSE
  OBVIOUS
<1>1. PICK m \in Bad : \A k \in Bad : m <= k
  <2>1. Bad \in SUBSET Nat /\ Bad # {}
    OBVIOUS
  <2> HIDE DEF Bad
  <2> QED
    BY <2>1, Least
<1>2. m # 0
  <2> DEFINE f == [i \in 0..0 |-> <<>>]
  <2>1. f = [i \in 0..0 |-> IF i = 0 THEN <<>> ELSE WithPiece(f[i - 1], pieces[i], max)]
    OBVIOUS
  <2>2. ArePacks(f, pieces, max, 0)
    BY <2>1 DEF ArePacks
  <2> QED
    BY <2>2
<1>3. m - 1 \in Nat /\ m - 1 \notin Bad
  <2>1. m \in Nat
    OBVIOUS
  <2>2. m - 1 \in Nat /\ ~(m <= m - 1)
    BY <2>1, <1>2
  <2> HIDE DEF Bad
  <2> QED
    BY <1>1, <2>2
<1>4. PICK f : ArePacks(f, pieces, max, m - 1)
  BY <1>3
<1> DEFINE h == [i \in 0..m |-> IF i = m THEN WithPiece(f[m - 1], pieces[m], max) ELSE f[i]]
<1>5. h = [i \in 0..m |-> IF i = 0 THEN <<>> ELSE WithPiece(h[i - 1], pieces[i], max)]
  <2>1. f = [i \in 0..(m - 1) |-> IF i = 0 THEN <<>> ELSE WithPiece(f[i - 1], pieces[i], max)]
    BY <1>4 DEF ArePacks
  <2>2. ASSUME NEW i \in 0..m
        PROVE  h[i] = IF i = 0 THEN <<>> ELSE WithPiece(h[i - 1], pieces[i], max)
    <3>1. CASE i = m
      <4>1. h[i] = WithPiece(f[m - 1], pieces[m], max) /\ h[m - 1] = f[m - 1]
        BY <1>3, <3>1
      <4> QED
        BY <1>2, <3>1, <4>1
    <3>2. CASE i # m
      <4>1. i \in 0..(m - 1) /\ h[i] = f[i] /\ (i # 0 => h[i - 1] = f[i - 1])
        BY <1>3, <3>2
      <4> HIDE DEF h
      <4>2. f[i] = IF i = 0 THEN <<>> ELSE WithPiece(f[i - 1], pieces[i], max)
        BY <2>1, <4>1
      <4> QED
        BY <4>1, <4>2
    <3> QED
      BY <3>1, <3>2
  <2>3. h = [i \in 0..m |-> h[i]]
    OBVIOUS
  <2> HIDE DEF h
  <2> QED
    BY <2>2, <2>3
<1>6. ArePacks(h, pieces, max, m)
  BY <1>5 DEF ArePacks
<1> QED
  BY <1>6

(* So each pack is of one more piece.                                      *)
LEMMA PacksAre ==
  ASSUME NEW pieces, NEW max, Len(pieces) \in Nat
  PROVE  /\ Packs(pieces, max)[0] = <<>>
         /\ \A i \in 1..Len(pieces) :
              Packs(pieces, max)[i] = WithPiece(Packs(pieces, max)[i - 1], pieces[i], max)
<1> DEFINE f == Packs(pieces, max)
<1>1. ArePacks(f, pieces, max, Len(pieces))
  BY PacksExist DEF Packs
<1> HIDE DEF f
<1>2. f = [i \in 0..Len(pieces) |-> IF i = 0 THEN <<>> ELSE WithPiece(f[i - 1], pieces[i], max)]
  BY <1>1 DEF ArePacks
<1>3. f[0] = <<>>
  BY <1>2
<1>4. ASSUME NEW i \in 1..Len(pieces)
      PROVE  f[i] = WithPiece(f[i - 1], pieces[i], max)
  <2>1. i \in 0..Len(pieces) /\ i # 0
    OBVIOUS
  <2> QED
    BY <1>2, <2>1
<1> QED
  BY <1>3, <1>4 DEF f

(* The packs of some pieces and of one more agree on the first.            *)
LEMMA PacksAppend ==
  ASSUME NEW A, NEW pieces \in Seq(A), NEW max, NEW p \in A
  PROVE  \A i \in 0..Len(pieces) : Packs(Append(pieces, p), max)[i] = Packs(pieces, max)[i]
<1> DEFINE more == Append(pieces, p)
           f == Packs(pieces, max)
           g == Packs(more, max)
           len == Len(pieces)
           Bad == {i \in 0..len : g[i] # f[i]}
<1>1. len \in Nat /\ Len(more) = len + 1 /\ Len(more) \in Nat
  BY LenProperties, AppendProperties
<1>2. \A i \in 1..len : more[i] = pieces[i]
  BY <1>1, AppendProperties
<1>3. f[0] = <<>> /\ \A i \in 1..len : f[i] = WithPiece(f[i - 1], pieces[i], max)
  BY <1>1, PacksAre
<1>4. g[0] = <<>> /\ \A i \in 1..(len + 1) : g[i] = WithPiece(g[i - 1], more[i], max)
  <2> HIDE DEF more
  <2> QED
    BY <1>1, PacksAre
<1> HIDE DEF f, g, len, more
<1>5. Bad = {}
  <2> SUFFICES ASSUME Bad # {} PROVE FALSE
    OBVIOUS
  <2>1. PICK i \in Bad : \A k \in Bad : i <= k
    <3>1. Bad \in SUBSET Nat
      BY <1>1
    <3> HIDE DEF Bad
    <3> QED
      BY <3>1, Least
  <2>2. i \in 0..len /\ g[i] # f[i]
    OBVIOUS
  <2>3. i # 0
    BY <1>3, <1>4, <2>2
  <2>4. i \in 1..len /\ i - 1 \in 0..len /\ ~(i <= i - 1)
    BY <1>1, <2>2, <2>3
  <2>5. i - 1 \notin Bad
    <3> HIDE DEF Bad
    <3> QED
      BY <2>1, <2>4
  <2>6. g[i - 1] = f[i - 1]
    BY <2>4, <2>5
  <2>7. g[i] = WithPiece(g[i - 1], pieces[i], max)
    BY <1>1, <1>2, <1>4, <2>4
  <2> QED
    BY <1>3, <2>2, <2>4, <2>6, <2>7
<1> QED
  BY <1>5 DEF f, g, len, more

(* Nothing packs into nothing.                                             *)
LEMMA PackNothing ==
  ASSUME NEW max
  PROVE  Pack(<<>>, max) = <<>>
BY PacksAre, EmptySeq, PackIs

(* One piece more goes with the last or begins another.                    *)
LEMMA PackAppend ==
  ASSUME NEW A, NEW pieces \in Seq(A), NEW max, NEW p \in A
  PROVE  Pack(Append(pieces, p), max) = Piece(Pack(pieces, max), p, Full(Pack(pieces, max), p, max))
<1> DEFINE more == Append(pieces, p)
           len == Len(pieces)
<1>1. len \in Nat /\ Len(more) = len + 1 /\ Len(more) \in Nat /\ more[len + 1] = p
  BY LenProperties, AppendProperties
<1>2. \A i \in 1..Len(more) : Packs(more, max)[i] = WithPiece(Packs(more, max)[i - 1], more[i], max)
  <2> HIDE DEF more
  <2> QED
    BY <1>1, PacksAre
<1>3. Packs(more, max)[len] = Packs(pieces, max)[len]
  BY <1>1, PacksAppend
<1>4. PICK n \in 1..Len(more) : n = len + 1
  BY <1>1
<1>5. n - 1 = len /\ n = Len(more)
  BY <1>1, <1>4
<1> HIDE DEF more, len
<1>6. Packs(more, max)[n] = WithPiece(Packs(more, max)[n - 1], more[n], max)
  BY <1>2
<1>7. Packs(more, max)[Len(more)] = WithPiece(Packs(pieces, max)[len], p, max)
  BY <1>1, <1>3, <1>4, <1>5, <1>6
<1> QED
  BY <1>7, PackIs DEF more, len, WithPiece

(* Totals are numbers.                                                      *)
LEMMA TotalType ==
  ASSUME NEW s \in Seq(Nat)
  PROVE  Total(s) \in Nat
<1> DEFINE Bad == {t \in Seq(Nat) : Total(t) \notin Nat}
<1>1. <<>> \notin Bad
  BY TotalNothing
<1>2. ASSUME NEW t \in Seq(Nat), NEW x \in Nat, t \notin Bad
      PROVE  Append(t, x) \notin Bad
  <2>1. Total(Append(t, x)) = Total(t) + x /\ Total(t) \in Nat
    BY <1>2, TotalAppend
  <2> QED
    BY <2>1
<1>3. Bad = {}
  <2>1. Bad \in SUBSET Seq(Nat)
    OBVIOUS
  <2> HIDE DEF Bad
  <2> QED
    BY <1>1, <1>2, <2>1, Shortest
<1> QED
  BY <1>3

(* The total of what is joined is the sum of the totals.                   *)
LEMMA TotalConcat ==
  ASSUME NEW s \in Seq(Nat), NEW t \in Seq(Nat)
  PROVE  Total(s \o t) = Total(s) + Total(t)
<1> DEFINE Bad == {u \in Seq(Nat) : Total(s \o u) # Total(s) + Total(u)}
<1>1. <<>> \notin Bad
  <2>1. s \o <<>> = s /\ Total(s) \in Nat /\ Total(<<>>) = 0
    BY ConcatEmptySeq, TotalType, TotalNothing
  <2> QED
    BY <2>1
<1>2. ASSUME NEW u \in Seq(Nat), NEW x \in Nat, u \notin Bad
      PROVE  Append(u, x) \notin Bad
  <2>1. s \o Append(u, x) = Append(s \o u, x) /\ s \o u \in Seq(Nat)
    BY AppendConcat, ConcatProperties
  <2>2. Total(Append(s \o u, x)) = Total(s \o u) + x /\ Total(Append(u, x)) = Total(u) + x
    BY <2>1, TotalAppend
  <2>3. Total(s) \in Nat /\ Total(u) \in Nat /\ Total(s \o u) = Total(s) + Total(u)
    BY <1>2, TotalType
  <2>4. Total(s \o Append(u, x)) = Total(s) + Total(Append(u, x))
    BY <2>1, <2>2, <2>3
  <2> QED
    BY <2>4
<1>3. Bad = {}
  <2>1. Bad \in SUBSET Seq(Nat)
    OBVIOUS
  <2> HIDE DEF Bad
  <2> QED
    BY <1>1, <1>2, <2>1, Shortest
<1> QED
  BY <1>3

(* What is in milliseconds adds up as its bytes do.                        *)
InBytes(d) == [i \in 1..Len(d) |-> d[i] * BytesPerMs]

(* A total of milliseconds is a total of bytes.                            *)
LEMMA TotalInBytes ==
  ASSUME NEW d \in Seq(Nat)
  PROVE  Total(InBytes(d)) = Total(d) * BytesPerMs
<1> DEFINE Bad == {t \in Seq(Nat) : Total(InBytes(t)) # Total(t) * BytesPerMs}
<1>1. <<>> \notin Bad
  <2>1. InBytes(<<>>) = <<>>
    <3>1. InBytes(<<>>) \in [1..0 -> Nat]
      BY EmptySeq DEF InBytes
    <3>2. InBytes(<<>>) \in Seq(Nat) /\ Len(InBytes(<<>>)) = 0
      BY <3>1, FunctionSeq
    <3> QED
      BY <3>2, EmptySeq
  <2> QED
    BY <2>1, TotalNothing DEF BytesPerMs
<1>2. ASSUME NEW t \in Seq(Nat), NEW x \in Nat, t \notin Bad
      PROVE  Append(t, x) \notin Bad
  <2> DEFINE more == Append(t, x)
             len == Len(t)
             m == InBytes(t)
             g == InBytes(more)
             y == x * BytesPerMs
  <2>1. /\ len \in Nat /\ more \in Seq(Nat) /\ Len(more) = len + 1 /\ more[len + 1] = x
        /\ \A i \in 1..len : more[i] = t[i] /\ t[i] \in Nat
    BY LenProperties, AppendProperties, ElementOfSeq
  <2>2. \A i \in 1..(len + 1) : more[i] \in Nat
    <3> HIDE DEF more
    <3> QED
      BY <2>1, ElementOfSeq
  <2> HIDE DEF more, len
  <2>3. m \in [1..len -> Nat] /\ \A i \in 1..len : m[i] = t[i] * BytesPerMs
    BY <2>1 DEF len, InBytes, BytesPerMs
  <2>4. g \in [1..(len + 1) -> Nat] /\ \A i \in 1..(len + 1) : g[i] = more[i] * BytesPerMs
    BY <2>1, <2>2 DEF InBytes, BytesPerMs
  <2>5. g[len + 1] = y /\ y \in Nat /\ \A i \in 1..len : g[i] = m[i]
    <3>1. len + 1 \in 1..(len + 1)
      BY <2>1
    <3>2. g[len + 1] = y
      BY <2>1, <2>4, <3>1
    <3>3. y \in Nat
      BY DEF BytesPerMs
    <3>4. ASSUME NEW i \in 1..len
          PROVE  g[i] = m[i]
      <4>1. i \in 1..(len + 1)
        BY <2>1
      <4> HIDE DEF g, m
      <4> QED
        BY <2>1, <2>3, <2>4, <4>1
    <3> QED
      BY <3>2, <3>3, <3>4
  <2> HIDE DEF m, g, y
  <2>6. g = Append(m, g[len + 1]) /\ m \in Seq(Nat)
    BY <2>1, <2>3, <2>4, <2>5, GoesOn, FunctionSeq
  <2>7. Total(g) = Total(m) + y
    BY <2>5, <2>6, TotalAppend
  <2>8. Total(more) = Total(t) + x /\ Total(t) \in Nat
    BY TotalAppend, TotalType DEF more
  <2>9. Total(m) = Total(t) * BytesPerMs
    BY <1>2 DEF m
  <2>10. Total(g) = Total(more) * BytesPerMs
    BY <2>7, <2>8, <2>9 DEF BytesPerMs, y
  <2> QED
    BY <2>10 DEF g, more
<1>3. Bad = {}
  <2>1. Bad \in SUBSET Seq(Nat)
    OBVIOUS
  <2> HIDE DEF Bad
  <2> QED
    BY <1>1, <1>2, <2>1, Shortest
<1> QED
  BY <1>3

(* What is one sequence and then another is the two joined.                *)
LEMMA Joined ==
  ASSUME NEW B, NEW a \in Seq(B), NEW b \in Seq(B), NEW c \in Seq(B),
         Len(c) = Len(a) + Len(b),
         \A i \in 1..Len(a) : c[i] = a[i],
         \A i \in 1..Len(b) : c[Len(a) + i] = b[i]
  PROVE  c = a \o b
<1> DEFINE m == Len(a)
           n == Len(b)
<1>1. m \in Nat /\ n \in Nat
  BY LenProperties
<1>2. c \in Seq(B) /\ Len(c) = m + n
  OBVIOUS
<1>0. /\ \A i \in 1..m : c[i] = a[i]
      /\ \A i \in 1..n : c[m + i] = b[i]
  OBVIOUS
<1>3. /\ a \o b \in Seq(B) /\ Len(a \o b) = m + n
      /\ \A i \in 1..(m + n) : (a \o b)[i] = IF i <= m THEN a[i] ELSE b[i - m]
  BY ConcatProperties
<1> HIDE DEF m, n
<1>4. ASSUME NEW i \in 1..(m + n)
      PROVE  c[i] = (a \o b)[i]
  <2>1. CASE i <= m
    <3>1. i \in 1..m
      BY <1>1, <2>1
    <3> QED
      BY <1>0, <1>3, <2>1, <3>1
  <2>2. CASE ~(i <= m)
    <3>1. i - m \in 1..n /\ m + (i - m) = i
      BY <1>1, <2>2
    <3>2. c[m + (i - m)] = b[i - m]
      BY <1>0, <3>1
    <3> QED
      BY <1>3, <2>2, <3>1, <3>2
  <2> QED
    BY <2>1, <2>2
<1> QED
  BY <1>2, <1>3, <1>4, SeqEqual

-----------------------------------------------------------------------------
(* Texts.                                                                  *)

Text    == Seq(Words)
Lens(t) == [i \in DOMAIN t |-> t[i].len]

(* Words have a length.                                                     *)
LEMMA LensAre ==
  ASSUME NEW t \in Text
  PROVE  /\ Len(t) \in Nat /\ DOMAIN t = 1..Len(t) /\ Lens(t) \in [1..Len(t) -> Nat]
         /\ Lens(t) \in Seq(Nat) /\ \A i \in 1..Len(t) : Lens(t)[i] = t[i].len
<1>1. Len(t) \in Nat /\ DOMAIN t = 1..Len(t)
  BY LenProperties DEF Text
<1>2. \A i \in 1..Len(t) : t[i].len \in Nat
  <2> SUFFICES ASSUME NEW i \in 1..Len(t) PROVE t[i].len \in Nat
    OBVIOUS
  <2>1. t[i] \in Words
    BY ElementOfSeq DEF Text
  <2> QED
    BY <2>1 DEF Words
<1>3. Lens(t) \in [1..Len(t) -> Nat]
  BY <1>1, <1>2 DEF Lens
<1> QED
  BY <1>1, <1>3, FunctionSeq DEF Lens

(* The characters of a text are its words' and the blanks between them.    *)
LEMMA CharsAre ==
  ASSUME NEW t \in Text
  PROVE  /\ Chars(t) = Total(Lens(t)) + (IF t = <<>> THEN 0 ELSE Len(t) - 1)
         /\ Chars(t) \in Nat
<1>1. Total(Lens(t)) \in Nat
  BY LensAre, TotalType
<1>2. t # <<>> => Len(t) - 1 \in Nat
  BY EmptySeq DEF Text
<1> QED
  BY <1>1, <1>2 DEF Chars, Lens

(* Texts joined are a blank apart.                                          *)
LEMMA CharsJoined ==
  ASSUME NEW s \in Text, NEW t \in Text, s # <<>>, t # <<>>
  PROVE  Chars(s \o t) = Chars(s) + 1 + Chars(t) /\ s \o t \in Text /\ s \o t # <<>>
<1> DEFINE st == s \o t
<1>1. /\ st \in Text /\ Len(st) = Len(s) + Len(t)
      /\ \A i \in 1..(Len(s) + Len(t)) : st[i] = IF i <= Len(s) THEN s[i] ELSE t[i - Len(s)]
  BY ConcatProperties DEF Text
<1>2. Len(s) \in Nat \ {0} /\ Len(t) \in Nat \ {0}
  BY EmptySeq DEF Text
<1>3. st # <<>>
  <2> HIDE DEF st
  <2> QED
    BY <1>1, <1>2, EmptySeq
<1> HIDE DEF st
<1>4. Lens(st) = Lens(s) \o Lens(t)
  <2>1. /\ Lens(st) \in [1..(Len(s) + Len(t)) -> Nat]
        /\ \A i \in 1..(Len(s) + Len(t)) : Lens(st)[i] = st[i].len
    BY <1>1, LensAre
  <2>2. \A i \in 1..Len(s) : Lens(st)[i] = Lens(s)[i]
    <3> SUFFICES ASSUME NEW i \in 1..Len(s) PROVE Lens(st)[i] = Lens(s)[i]
      OBVIOUS
    <3>1. i \in 1..(Len(s) + Len(t)) /\ i <= Len(s)
      BY <1>2
    <3> QED
      BY <1>1, <2>1, <3>1, LensAre
  <2>3. \A i \in 1..Len(t) : Lens(st)[Len(s) + i] = Lens(t)[i]
    <3> SUFFICES ASSUME NEW i \in 1..Len(t) PROVE Lens(st)[Len(s) + i] = Lens(t)[i]
      OBVIOUS
    <3>1. PICK j \in 1..(Len(s) + Len(t)) : j = Len(s) + i
      BY <1>2
    <3>2. ~(j <= Len(s)) /\ j - Len(s) = i
      BY <1>2, <3>1
    <3>3. Lens(st)[j] = t[i].len
      BY <1>1, <2>1, <3>2
    <3> QED
      BY <3>1, <3>3, LensAre
  <2>4. Lens(s) \in [1..Len(s) -> Nat] /\ Lens(t) \in [1..Len(t) -> Nat]
    BY LensAre
  <2> DEFINE a == Lens(s)
             b == Lens(t)
             c == Lens(st)
  <2>5. /\ a \in Seq(Nat) /\ Len(a) = Len(s) /\ b \in Seq(Nat) /\ Len(b) = Len(t)
        /\ c \in Seq(Nat) /\ Len(c) = Len(st)
    <3>1. Len(s) \in Nat /\ Len(t) \in Nat /\ Len(st) \in Nat
      BY <1>1, <1>2
    <3> QED
      BY <1>1, <2>1, <2>4, <3>1, FunctionSeq
  <2>6. /\ Len(c) = Len(a) + Len(b)
        /\ \A i \in 1..Len(a) : c[i] = a[i]
        /\ \A i \in 1..Len(b) : c[Len(a) + i] = b[i]
    BY <1>1, <2>2, <2>3, <2>5
  <2> HIDE DEF a, b, c
  <2>7. c = a \o b
    BY <2>5, <2>6, Joined
  <2> QED
    BY <2>7 DEF a, b, c
<1>5. Total(Lens(st)) = Total(Lens(s)) + Total(Lens(t))
  BY <1>4, LensAre, TotalConcat
<1>6. Total(Lens(s)) \in Nat /\ Total(Lens(t)) \in Nat
  BY LensAre, TotalType
<1>7. Chars(st) = Chars(s) + 1 + Chars(t)
  BY <1>1, <1>2, <1>3, <1>5, <1>6, CharsAre
<1> QED
  BY <1>1, <1>3, <1>7 DEF st

(* A sequence that is not empty has a last.                               *)
LEMMA LastIs ==
  ASSUME NEW A, NEW s \in Seq(A), s # <<>>
  PROVE  \E front \in Seq(A), l \in A : s = Append(front, l) /\ Last(s) = l
<1>1. PICK front \in Seq(A), l \in A : s = Append(front, l)
  BY SequenceEmptyOrAppend
<1>2. Len(s) = Len(front) + 1 /\ s[Len(front) + 1] = l
  BY <1>1, AppendProperties
<1>3. Last(s) = l
  BY <1>2 DEF Last
<1> QED
  BY <1>1, <1>3

(* A sequence that begins as another does and has one more.                *)
LEMMA OneMore ==
  ASSUME NEW A, NEW front \in Seq(A), NEW g \in Seq(A), Len(g) = Len(front) + 1,
         \A i \in 1..Len(front) : g[i] = front[i], NEW y \in A, g[Len(front) + 1] = y
  PROVE  g = Append(front, y)
<1> DEFINE len == Len(front)
           h == Append(front, y)
<1>1. len \in Nat /\ Len(g) = len + 1 /\ g[len + 1] = y /\ \A i \in 1..len : g[i] = front[i]
  BY LenProperties
<1>2. /\ h \in Seq(A) /\ Len(h) = len + 1 /\ h[len + 1] = y
      /\ \A i \in 1..len : h[i] = front[i]
  BY AppendProperties
<1> HIDE DEF h, len
<1>3. ASSUME NEW i \in 1..(len + 1)
      PROVE  g[i] = h[i]
  <2>1. CASE i = len + 1
    BY <1>1, <1>2, <2>1
  <2>2. CASE i # len + 1
    <3>1. i \in 1..len
      BY <1>1, <2>2
    <3> QED
      BY <1>1, <1>2, <3>1
  <2> QED
    BY <2>1, <2>2
<1>4. g = h
  BY <1>1, <1>2, <1>3, SeqEqual
<1> QED
  BY <1>4 DEF h

(* Beginning a piece or going on with one loses nothing.                   *)
LEMMA PieceIs ==
  ASSUME NEW A, NEW C \in SUBSET Seq(A), NEW acc \in Seq(C), NEW p \in C, NEW new \in BOOLEAN,
         ~new => acc # <<>> /\ Last(acc) \o p \in C
  PROVE  /\ Piece(acc, p, new) \in Seq(C)
         /\ FlattenSeq(Piece(acc, p, new)) = FlattenSeq(acc) \o p
<1>1. acc \in Seq(Seq(A)) /\ p \in Seq(A)
  BY SeqMonotonic
<1>2. CASE new
  <2>1. Piece(acc, p, new) = Append(acc, p)
    BY <1>2 DEF Piece
  <2>2. FlattenSeq(Append(acc, p)) = FlattenSeq(acc) \o p /\ Append(acc, p) \in Seq(C)
    BY <1>1, FlattenAppend, AppendProperties
  <2> QED
    BY <2>1, <2>2
<1>3. CASE ~new
  <2>1. acc # <<>> /\ Last(acc) \o p \in C
    BY <1>3
  <2>2. PICK front \in Seq(C), l \in C :
          acc = Append(front, l) /\ Last(acc) = l
    BY <2>1, LastIs
  <2>3. acc[Len(acc)] = l
    BY <2>2 DEF Last
  <2> DEFINE y == l \o p
  <2>4. y \in C
    BY <2>1, <2>2
  <2>5. Piece(acc, p, new) = [acc EXCEPT ![Len(acc)] = y]
    BY <1>3, <2>3 DEF Piece
  <2>6. Piece(acc, p, new) = Append(front, y)
    <3> DEFINE len == Len(acc)
               e == [acc EXCEPT ![len] = y]
    <3>1. /\ front \in Seq(C) /\ Len(acc) = Len(front) + 1 /\ Len(front) \in Nat
          /\ \A i \in 1..Len(front) : acc[i] = front[i]
      BY <2>2, AppendProperties, LenProperties
    <3>2. len \in 1..Len(acc) /\ len = Len(front) + 1
      BY <3>1
    <3> HIDE DEF y, len
    <3>3. /\ e \in Seq(C) /\ Len(e) = Len(acc)
          /\ \A j \in 1..Len(acc) : e[j] = IF j = len THEN y ELSE acc[j]
      BY <2>4, <3>2, ExceptSeq
    <3> HIDE DEF e
    <3>4. Len(e) = Len(front) + 1 /\ e[Len(front) + 1] = y
      BY <3>1, <3>2, <3>3
    <3>5. ASSUME NEW i \in 1..Len(front)
          PROVE  e[i] = front[i]
      <4>1. i \in 1..Len(acc) /\ i # len
        BY <3>1, <3>2
      <4> QED
        BY <3>1, <3>3, <4>1
    <3>6. e = Append(front, y)
      BY <2>4, <3>1, <3>3, <3>4, <3>5, OneMore
    <3> QED
      BY <2>5, <3>6 DEF e, len
  <2>7. front \in Seq(Seq(A)) /\ l \in Seq(A) /\ y \in Seq(A)
    BY <2>4, SeqMonotonic
  <2>8. FlattenSeq(acc) = FlattenSeq(front) \o l
    BY <2>2, <2>7, FlattenAppend
  <2> HIDE DEF y
  <2>9. FlattenSeq(Append(front, y)) = FlattenSeq(front) \o y /\ Append(front, y) \in Seq(C)
    BY <2>4, <2>7, FlattenAppend, AppendProperties
  <2>10. FlattenSeq(front) \in Seq(A)
    BY <2>7, FlattenType
  <2>11. (FlattenSeq(front) \o l) \o p = FlattenSeq(front) \o (l \o p)
    <3> DEFINE ff == FlattenSeq(front)
    <3>1. ff \in Seq(A) /\ l \in Seq(A) /\ p \in Seq(A)
      BY <1>1, <2>7, <2>10
    <3> HIDE DEF ff
    <3>2. (ff \o l) \o p = ff \o (l \o p)
      BY <3>1, ConcatAssociative
    <3> QED
      BY <3>2 DEF ff
  <2> QED
    BY <2>6, <2>8, <2>9, <2>11 DEF y
<1> QED
  BY <1>2, <1>3

Pieces == Text \ {<<>>}

(* A text's sentences are the text, and none of them is empty.             *)
LEMMA SentencesSay ==
  ASSUME NEW t \in Text
  PROVE  Sentences(t) \in Seq(Pieces) /\ FlattenSeq(Sentences(t)) = t
<1> DEFINE Bad == {s \in Text : ~(Sentences(s) \in Seq(Pieces) /\ FlattenSeq(Sentences(s)) = s)}
<1>1. <<>> \notin Bad
  <2>1. Sentences(<<>>) = <<>> /\ FlattenSeq(<<>>) = <<>> /\ <<>> \in Seq(Pieces)
    BY SentencesNothing, FlattenEmpty, EmptySeq
  <2> QED
    BY <2>1
<1>2. ASSUME NEW s \in Text, NEW w \in Words, s \notin Bad
      PROVE  Append(s, w) \notin Bad
  <2> DEFINE acc == Sentences(s)
             new == Ended(acc)
             p == <<w>>
  <2>1. acc \in Seq(Pieces) /\ FlattenSeq(acc) = s
    BY <1>2
  <2>2. p \in Pieces /\ Pieces \in SUBSET Seq(Words)
    BY DEF Pieces, Text
  <2>3. Sentences(Append(s, w)) = Piece(acc, p, new) /\ Append(s, w) = s \o p
    BY SentencesAppend, AppendIsConcat DEF Text
  <2>4. ~new => acc # <<>> /\ Last(acc) \o p \in Pieces
    <3> HIDE DEF acc, p
    <3> SUFFICES ASSUME ~new PROVE acc # <<>> /\ Last(acc) \o p \in Pieces
      OBVIOUS
    <3>1. acc # <<>>
      BY DEF Ended
    <3>2. Last(acc) \in Pieces
      <4>1. PICK front \in Seq(Pieces), l \in Pieces : acc = Append(front, l) /\ Last(acc) = l
        BY <2>1, <3>1, LastIs
      <4> QED
        BY <4>1
    <3>3. Last(acc) \o p \in Text /\ Last(acc) \o p # <<>>
      BY <2>2, <3>2, CharsJoined DEF Pieces
    <3> QED
      BY <3>1, <3>3 DEF Pieces
  <2>0. new \in BOOLEAN
    BY DEF Ended
  <2> HIDE DEF acc, p, new
  <2>5. Piece(acc, p, new) \in Seq(Pieces) /\ FlattenSeq(Piece(acc, p, new)) = FlattenSeq(acc) \o p
    BY <2>1, <2>2, <2>4, <2>0, PieceIs
  <2>6. Sentences(Append(s, w)) \in Seq(Pieces)
        /\ FlattenSeq(Sentences(Append(s, w))) = Append(s, w)
    BY <2>1, <2>3, <2>5
  <2> QED
    BY <2>6
<1>3. Bad = {}
  <2>1. Bad \in SUBSET Seq(Words)
    BY DEF Text
  <2>2. Text = Seq(Words)
    BY DEF Text
  <2> HIDE DEF Bad, Text
  <2> QED
    BY <1>1, <1>2, <2>1, <2>2, Shortest
<1> QED
  BY <1>3

(* What may be asked for at once: a text within the budget, or one word.   *)
Fits(max) == {p \in Pieces : Chars(p) <= max \/ Len(p) = 1}

(* Packing loses nothing, and what it makes fits when its pieces do.       *)
LEMMA PackSays ==
  ASSUME NEW max \in Nat, NEW pieces \in Seq(Fits(max))
  PROVE  Pack(pieces, max) \in Seq(Fits(max)) /\ FlattenSeq(Pack(pieces, max)) = FlattenSeq(pieces)
<1> DEFINE F == Fits(max)
           Bad == {s \in Seq(F) :
                     ~(Pack(s, max) \in Seq(F) /\ FlattenSeq(Pack(s, max)) = FlattenSeq(s))}
<1>0. F \in SUBSET Seq(Words)
  BY DEF Fits, Pieces, Text
<1>1. <<>> \notin Bad
  <2>1. Pack(<<>>, max) = <<>> /\ <<>> \in Seq(F)
    BY PackNothing, EmptySeq
  <2> QED
    BY <2>1
<1>2. ASSUME NEW s \in Seq(F), NEW p \in F, s \notin Bad
      PROVE  Append(s, p) \notin Bad
  <2> DEFINE acc == Pack(s, max)
             new == Full(acc, p, max)
  <2>1. acc \in Seq(F) /\ FlattenSeq(acc) = FlattenSeq(s)
    BY <1>2
  <2>2. Pack(Append(s, p), max) = Piece(acc, p, new)
    BY PackAppend
  <2>3. FlattenSeq(Append(s, p)) = FlattenSeq(s) \o p
    <3>1. s \in Seq(Seq(Words)) /\ p \in Seq(Words)
      BY <1>0, SeqMonotonic
    <3> QED
      BY <3>1, FlattenAppend
  <2>4. ~new => acc # <<>> /\ Last(acc) \o p \in F
    <3> HIDE DEF acc
    <3> SUFFICES ASSUME ~new PROVE acc # <<>> /\ Last(acc) \o p \in F
      OBVIOUS
    <3>1. acc # <<>> /\ ~(Chars(Last(acc)) + 1 + Chars(p) > max)
      BY DEF Full
    <3>2. Last(acc) \in F
      <4>1. PICK front \in Seq(F), l \in F : acc = Append(front, l) /\ Last(acc) = l
        BY <2>1, <3>1, LastIs
      <4> QED
        BY <4>1
    <3>3. Last(acc) \in Pieces /\ p \in Pieces
      BY <3>2 DEF Fits
    <3>4. /\ Chars(Last(acc) \o p) = Chars(Last(acc)) + 1 + Chars(p)
          /\ Last(acc) \o p \in Text /\ Last(acc) \o p # <<>>
      BY <3>3, CharsJoined DEF Pieces
    <3>5. Chars(Last(acc) \o p) \in Nat
      BY <3>4, CharsAre
    <3> QED
      BY <3>1, <3>4, <3>5 DEF Fits, Pieces
  <2>0. new \in BOOLEAN
    BY DEF Full
  <2> HIDE DEF acc, new, F
  <2>5. Piece(acc, p, new) \in Seq(F) /\ FlattenSeq(Piece(acc, p, new)) = FlattenSeq(acc) \o p
    BY <1>0, <2>1, <2>4, <2>0, PieceIs
  <2>6. /\ Pack(Append(s, p), max) \in Seq(F)
        /\ FlattenSeq(Pack(Append(s, p), max)) = FlattenSeq(Append(s, p))
    BY <2>1, <2>2, <2>3, <2>5
  <2> QED
    BY <2>6
<1>3. Bad = {}
  <2>1. Bad \in SUBSET Seq(F)
    OBVIOUS
  <2> HIDE DEF Bad, F
  <2> QED
    BY <1>1, <1>2, <2>1, Shortest
<1> QED
  BY <1>3

(* What fits is a piece, and a word fits.                                   *)
LEMMA FitsAre ==
  ASSUME NEW max
  PROVE  /\ Fits(max) \in SUBSET Pieces /\ Fits(max) \in SUBSET Seq(Words)
         /\ \A w \in Words : <<w>> \in Fits(max)
<1>1. Fits(max) \in SUBSET Pieces /\ Fits(max) \in SUBSET Seq(Words)
  BY DEF Fits, Pieces, Text
<1>2. ASSUME NEW w \in Words
      PROVE  <<w>> \in Fits(max)
  <2>1. <<w>> \in Seq(Words) /\ <<w>> # <<>> /\ Len(<<w>>) = 1
    OBVIOUS
  <2> QED
    BY <2>1 DEF Fits, Pieces, Text
<1> QED
  BY <1>1, <1>2

(* A text word by word.                                                     *)
LEMMA SinglySays ==
  ASSUME NEW max, NEW t \in Text
  PROVE  Singly(t) \in Seq(Fits(max)) /\ FlattenSeq(Singly(t)) = t
<1> DEFINE F == Fits(max)
           Bad == {s \in Seq(Words) : ~(Singly(s) \in Seq(F) /\ FlattenSeq(Singly(s)) = s)}
<1>1. <<>> \notin Bad
  <2>1. Singly(<<>>) = <<>>
    <3>1. Singly(<<>>) \in [1..0 -> F]
      BY EmptySeq DEF Singly
    <3>2. Singly(<<>>) \in Seq(F) /\ Len(Singly(<<>>)) = 0
      BY <3>1, FunctionSeq
    <3> QED
      BY <3>2, EmptySeq
  <2> QED
    BY <2>1, FlattenEmpty, EmptySeq
<1>2. ASSUME NEW s \in Seq(Words), NEW w \in Words, s \notin Bad
      PROVE  Append(s, w) \notin Bad
  <2> DEFINE more == Append(s, w)
             len == Len(s)
             m == Singly(s)
             g == Singly(more)
             p == <<w>>
  <2>1. /\ len \in Nat /\ more \in Seq(Words) /\ Len(more) = len + 1 /\ more[len + 1] = w
        /\ DOMAIN s = 1..len /\ \A i \in 1..len : more[i] = s[i]
    BY LenProperties, AppendProperties
  <2>2. DOMAIN more = 1..(len + 1) /\ \A i \in 1..(len + 1) : more[i] \in Words
    <3> HIDE DEF more, len
    <3> QED
      BY <2>1, ElementOfSeq, LenProperties
  <2>3. m \in Seq(F) /\ FlattenSeq(m) = s /\ Len(m) = len
    <3>1. m \in Seq(F) /\ FlattenSeq(m) = s
      BY <1>2
    <3>2. DOMAIN m = 1..len /\ len \in Nat
      BY <2>1 DEF Singly
    <3> HIDE DEF m, len, F
    <3>3. DOMAIN m = 1..Len(m) /\ Len(m) \in Nat
      BY <3>1, LenProperties
    <3> QED
      BY <3>1, <3>2, <3>3
  <2> HIDE DEF more, len, F
  <2>4. \A v \in Words : <<v>> \in F
    BY FitsAre DEF F
  <2>5. g \in [1..(len + 1) -> F] /\ \A i \in 1..(len + 1) : g[i] = <<more[i]>>
    BY <2>2, <2>4 DEF Singly
  <2>6. g \in Seq(F) /\ Len(g) = len + 1
    BY <2>1, <2>5, FunctionSeq
  <2>7. \A i \in 1..len : m[i] = <<s[i]>>
    BY <2>1 DEF Singly
  <2>8. g[len + 1] = p /\ p \in F
    <3>1. len + 1 \in 1..(len + 1)
      BY <2>1
    <3>2. g[len + 1] = <<more[len + 1]>>
      BY <2>5, <3>1
    <3> QED
      BY <2>1, <2>4, <3>2
  <2>9. \A i \in 1..len : g[i] = m[i]
    <3> SUFFICES ASSUME NEW i \in 1..len PROVE g[i] = m[i]
      OBVIOUS
    <3>1. i \in 1..(len + 1)
      BY <2>1
    <3> QED
      BY <2>1, <2>5, <2>7, <3>1
  <2> HIDE DEF m, g, p
  <2>10. g = Append(m, p)
    BY <2>3, <2>6, <2>8, <2>9, OneMore
  <2>11. m \in Seq(Seq(Words)) /\ p \in Seq(Words)
    <3>1. F \in SUBSET Seq(Words)
      BY FitsAre DEF F
    <3> QED
      BY <2>3, <2>8, <3>1, SeqMonotonic
  <2>12. FlattenSeq(g) = s \o p
    BY <2>3, <2>10, <2>11, FlattenAppend
  <2>13. more = s \o p
    BY AppendIsConcat DEF more, p
  <2>14. Singly(more) \in Seq(F) /\ FlattenSeq(Singly(more)) = more
    BY <2>6, <2>12, <2>13 DEF g
  <2> QED
    BY <2>14 DEF more
<1>3. Bad = {}
  <2>1. Bad \in SUBSET Seq(Words)
    OBVIOUS
  <2> HIDE DEF Bad
  <2> QED
    BY <1>1, <1>2, <2>1, Shortest
<1> QED
  BY <1>3 DEF Text

(* A sentence in pieces that fit.                                           *)
Cut(u, max) == IF Chars(u) <= max THEN <<u>> ELSE Pack(Singly(u), max)

AllCut(units, max) == [i \in DOMAIN units |-> Cut(units[i], max)]

(* A sentence over the budget, cut, is that sentence.                      *)
LEMMA CutSays ==
  ASSUME NEW max \in Nat, NEW u \in Pieces
  PROVE  Cut(u, max) \in Seq(Fits(max)) /\ FlattenSeq(Cut(u, max)) = u
<1>0. u \in Text /\ u \in Seq(Words)
  BY DEF Pieces, Text
<1>1. CASE Chars(u) <= max
  <2>1. u \in Fits(max)
    BY <1>1 DEF Fits
  <2>2. <<u>> \in Seq(Fits(max)) /\ FlattenSeq(<<u>>) = u
    BY <1>0, <2>1, FlattenOne
  <2> QED
    BY <1>1, <2>2 DEF Cut
<1>2. CASE ~(Chars(u) <= max)
  <2>1. Singly(u) \in Seq(Fits(max)) /\ FlattenSeq(Singly(u)) = u
    BY <1>0, SinglySays
  <2>2. Cut(u, max) = Pack(Singly(u), max)
    BY <1>2 DEF Cut
  <2> QED
    BY <2>1, <2>2, PackSays
<1> QED
  BY <1>1, <1>2

(* All sentences in pieces are what the sentences are.                      *)
LEMMA AllCutSays ==
  ASSUME NEW max \in Nat, NEW units \in Seq(Pieces)
  PROVE  /\ AllCut(units, max) \in Seq(Seq(Fits(max)))
         /\ FlattenSeq(AllCut(units, max)) \in Seq(Fits(max))
         /\ FlattenSeq(FlattenSeq(AllCut(units, max))) = FlattenSeq(units)
<1> DEFINE F == Fits(max)
           Good(s) == /\ AllCut(s, max) \in Seq(Seq(F))
                      /\ FlattenSeq(AllCut(s, max)) \in Seq(F)
                      /\ FlattenSeq(FlattenSeq(AllCut(s, max))) = FlattenSeq(s)
           Bad == {s \in Seq(Pieces) : ~Good(s)}
<1>0. F \in SUBSET Seq(Words)
  BY FitsAre
<1>1. <<>> \notin Bad
  <2>1. AllCut(<<>>, max) = <<>>
    <3>1. AllCut(<<>>, max) \in [1..0 -> Seq(F)]
      BY EmptySeq DEF AllCut
    <3>2. AllCut(<<>>, max) \in Seq(Seq(F)) /\ Len(AllCut(<<>>, max)) = 0
      BY <3>1, FunctionSeq
    <3> QED
      BY <3>2, EmptySeq
  <2>2. <<>> \in Seq(F) /\ <<>> \in Seq(Seq(F)) /\ FlattenSeq(<<>>) = <<>>
    BY FlattenEmpty, EmptySeq
  <2>3. Good(<<>>)
    BY <2>1, <2>2
  <2> QED
    BY <2>3
<1>2. ASSUME NEW s \in Seq(Pieces), NEW u \in Pieces, s \notin Bad
      PROVE  Append(s, u) \notin Bad
  <2> DEFINE more == Append(s, u)
             len == Len(s)
             m == AllCut(s, max)
             g == AllCut(more, max)
             p == Cut(u, max)
  <2>1. /\ len \in Nat /\ more \in Seq(Pieces) /\ Len(more) = len + 1 /\ more[len + 1] = u
        /\ DOMAIN s = 1..len /\ \A i \in 1..len : more[i] = s[i]
    BY LenProperties, AppendProperties
  <2>2. DOMAIN more = 1..(len + 1) /\ \A i \in 1..(len + 1) : more[i] \in Pieces
    <3> HIDE DEF more, len
    <3> QED
      BY <2>1, ElementOfSeq, LenProperties
  <2>3. /\ m \in Seq(Seq(F)) /\ FlattenSeq(m) \in Seq(F)
        /\ FlattenSeq(FlattenSeq(m)) = FlattenSeq(s) /\ Len(m) = len
    <3>1. /\ m \in Seq(Seq(F)) /\ FlattenSeq(m) \in Seq(F)
          /\ FlattenSeq(FlattenSeq(m)) = FlattenSeq(s)
      BY <1>2
    <3>2. DOMAIN m = 1..len /\ len \in Nat
      BY <2>1 DEF AllCut
    <3> HIDE DEF m, len, F
    <3>3. DOMAIN m = 1..Len(m) /\ Len(m) \in Nat
      BY <3>1, LenProperties
    <3> QED
      BY <3>1, <3>2, <3>3
  <2> HIDE DEF more, len, F
  <2>4. \A v \in Pieces : Cut(v, max) \in Seq(F) /\ FlattenSeq(Cut(v, max)) = v
    BY CutSays DEF F
  <2>5. g \in [1..(len + 1) -> Seq(F)] /\ \A i \in 1..(len + 1) : g[i] = Cut(more[i], max)
    BY <2>2, <2>4 DEF AllCut
  <2>6. g \in Seq(Seq(F)) /\ Len(g) = len + 1
    BY <2>1, <2>5, FunctionSeq
  <2>7. \A i \in 1..len : m[i] = Cut(s[i], max)
    BY <2>1 DEF AllCut
  <2>8. g[len + 1] = p /\ p \in Seq(F) /\ FlattenSeq(p) = u
    <3>1. len + 1 \in 1..(len + 1)
      BY <2>1
    <3>2. g[len + 1] = Cut(more[len + 1], max)
      BY <2>5, <3>1
    <3> QED
      BY <2>1, <2>4, <3>2
  <2>9. \A i \in 1..len : g[i] = m[i]
    <3> SUFFICES ASSUME NEW i \in 1..len PROVE g[i] = m[i]
      OBVIOUS
    <3>1. i \in 1..(len + 1)
      BY <2>1
    <3> QED
      BY <2>1, <2>5, <2>7, <3>1
  <2> HIDE DEF m, g, p
  <2>10. g = Append(m, p)
    BY <2>3, <2>6, <2>8, <2>9, OneMore
  <2>11. FlattenSeq(g) = FlattenSeq(m) \o p
    BY <2>3, <2>8, <2>10, FlattenAppend
  <2>12. FlattenSeq(g) \in Seq(F)
    BY <2>3, <2>8, <2>11, ConcatProperties
  <2>13. FlattenSeq(FlattenSeq(g)) = FlattenSeq(FlattenSeq(m)) \o FlattenSeq(p)
    <3> DEFINE a == FlattenSeq(m)
    <3>1. a \in Seq(Seq(Words)) /\ p \in Seq(Seq(Words))
      BY <1>0, <2>3, <2>8, SeqMonotonic DEF F
    <3> HIDE DEF a
    <3>2. FlattenSeq(a \o p) = FlattenSeq(a) \o FlattenSeq(p)
      BY <3>1, FlattenConcat
    <3> QED
      BY <2>11, <3>2 DEF a
  <2>14. FlattenSeq(more) = FlattenSeq(s) \o u
    <3>1. s \in Seq(Seq(Words)) /\ u \in Seq(Words)
      <4>1. Pieces \in SUBSET Seq(Words)
        BY DEF Pieces, Text
      <4> QED
        BY <4>1, SeqMonotonic
    <3> QED
      BY <3>1, FlattenAppend DEF more
  <2>15. Good(more)
    BY <2>3, <2>6, <2>8, <2>12, <2>13, <2>14 DEF g, F
  <2> QED
    BY <2>15 DEF more, F
<1>3. Bad = {}
  <2>1. Bad \in SUBSET Seq(Pieces)
    OBVIOUS
  <2> HIDE DEF Bad
  <2> QED
    BY <1>1, <1>2, <2>1, Shortest
<1> QED
  BY <1>3

(* Splitting a text loses nothing, and what it gives fits.                 *)
LEMMA SplitSays ==
  ASSUME NEW max \in Nat, NEW t \in Text
  PROVE  /\ SplitForRequests(t, max) \in Seq(Fits(max))
         /\ FlattenSeq(SplitForRequests(t, max)) = t
<1>1. CASE t = <<>>
  BY <1>1, FlattenEmpty, EmptySeq DEF SplitForRequests
<1>2. CASE t # <<>> /\ Chars(t) <= max
  <2>1. SplitForRequests(t, max) = <<t>> /\ t \in Fits(max) /\ t \in Seq(Words)
    BY <1>2 DEF SplitForRequests, Fits, Pieces, Text
  <2>2. <<t>> \in Seq(Fits(max)) /\ FlattenSeq(<<t>>) = t
    BY <2>1, FlattenOne
  <2> QED
    BY <2>1, <2>2
<1>3. CASE t # <<>> /\ ~(Chars(t) <= max)
  <2> DEFINE units == Sentences(t)
             all == FlattenSeq(AllCut(units, max))
  <2>1. SplitForRequests(t, max) = Pack(all, max)
    BY <1>3 DEF SplitForRequests, AllCut, Cut
  <2>2. units \in Seq(Pieces) /\ FlattenSeq(units) = t
    BY SentencesSay
  <2> HIDE DEF units
  <2>3. all \in Seq(Fits(max)) /\ FlattenSeq(all) = t
    BY <2>2, AllCutSays
  <2> HIDE DEF all
  <2> QED
    BY <2>1, <2>3, PackSays
<1> QED
  BY <1>1, <1>2, <1>3

(* One goes nowhere but into itself.                                        *)
LEMMA PackOne ==
  ASSUME NEW max, NEW p \in Pieces
  PROVE  Pack(<<p>>, max) = <<p>>
<1>1. <<p>> = Append(<<>>, p) /\ <<>> \in Seq(Pieces)
  BY EmptySeq
<1>2. Pack(Append(<<>>, p), max) = Piece(<<>>, p, Full(<<>>, p, max))
  BY <1>1, PackAppend, PackNothing
<1> QED
  BY <1>1, <1>2 DEF Piece, Full

(* What fits is not split again.                                            *)
LEMMA SplitFit ==
  ASSUME NEW max \in Nat, NEW p \in Fits(max)
  PROVE  SplitForRequests(p, max) = <<p>>
<1>0. p \in Text /\ p # <<>> /\ p \in Pieces
  BY DEF Fits, Pieces
<1>1. CASE Chars(p) <= max
  BY <1>0, <1>1 DEF SplitForRequests
<1>2. CASE ~(Chars(p) <= max)
  <2>1. Len(p) = 1
    BY <1>2 DEF Fits
  <2>2. PICK w \in Words : p = <<w>>
    <3>1. p \in Seq(Words)
      BY <1>0 DEF Text
    <3>2. p[1] \in Words
      BY <2>1, <3>1, ElementOfSeq
    <3>3. p = <<p[1]>>
      BY <2>1, <3>1
    <3> QED
      BY <3>2, <3>3
  <2>3. Sentences(p) = <<p>>
    <3>1. p = Append(<<>>, w) /\ <<>> \in Seq(Words)
      BY <2>2, EmptySeq
    <3>2. Sentences(Append(<<>>, w)) = Piece(<<>>, <<w>>, Ended(<<>>))
      BY <3>1, SentencesAppend, SentencesNothing
    <3>3. Piece(<<>>, <<w>>, Ended(<<>>)) = <<p>>
      BY <2>2 DEF Piece, Ended
    <3> QED
      BY <3>1, <3>2, <3>3
  <2>4. Singly(p) = <<p>>
    <3>1. DOMAIN p = {1} /\ p[1] = w
      BY <2>2
    <3>2. Singly(p) = [k \in {1} |-> p]
      BY <2>2, <3>1 DEF Singly
    <3>3. [k \in {1} |-> p] = <<p>>
      <4>1. [k \in {1} |-> p] \in [1..1 -> Pieces]
        BY <1>0
      <4>2. [k \in {1} |-> p] \in Seq(Pieces) /\ Len([k \in {1} |-> p]) = 1
        BY <4>1, FunctionSeq
      <4>3. <<p>> \in Seq(Pieces) /\ Len(<<p>>) = 1 /\ <<p>>[1] = p
        BY <1>0
      <4>4. \A i \in 1..1 : [k \in {1} |-> p][i] = <<p>>[i]
        BY <4>3
      <4> QED
        BY <4>2, <4>3, <4>4, SeqEqual
    <3> QED
      BY <3>2, <3>3
  <2>5. Cut(p, max) = <<p>>
    BY <1>0, <1>2, <2>4, PackOne DEF Cut
  <2>6. FlattenSeq(AllCut(<<p>>, max)) = <<p>>
    <3>1. AllCut(<<p>>, max) \in Seq(Seq(Pieces)) /\ Len(AllCut(<<p>>, max)) = 1
          /\ AllCut(<<p>>, max)[1] = <<p>>
      <4>1. AllCut(<<p>>, max) \in [1..1 -> Seq(Pieces)] /\ AllCut(<<p>>, max)[1] = <<p>>
        <5> DEFINE one == <<p>>
        <5>1. DOMAIN one = 1..1 /\ one[1] = p /\ Cut(p, max) = one /\ one \in Seq(Pieces)
          BY <1>0, <2>5
        <5> HIDE DEF one
        <5>2. \A i \in 1..1 : Cut(one[i], max) = one
          BY <5>1
        <5>3. AllCut(one, max) \in [1..1 -> Seq(Pieces)] /\ AllCut(one, max)[1] = one
          BY <5>1, <5>2 DEF AllCut
        <5> QED
          BY <5>3 DEF one
      <4> QED
        BY <4>1, FunctionSeq
    <3>2. <<>> \in Seq(Seq(Pieces)) /\ Len(<<>>) = 0 /\ <<p>> \in Seq(Pieces)
      BY <1>0, EmptySeq
    <3>3. AllCut(<<p>>, max) = Append(<<>>, <<p>>)
      <4> DEFINE g == AllCut(<<p>>, max)
                 y == <<p>>
      <4>1. /\ g \in Seq(Seq(Pieces)) /\ Len(g) = 1 /\ g[1] = y /\ y \in Seq(Pieces)
        BY <3>1, <3>2
      <4> HIDE DEF g, y
      <4>2. /\ Len(g) = Len(<<>>) + 1 /\ g[Len(<<>>) + 1] = y
            /\ \A i \in 1..Len(<<>>) : g[i] = <<>>[i]
        BY <3>2, <4>1
      <4>3. g = Append(<<>>, y)
        BY <3>2, <4>1, <4>2, OneMore
      <4> QED
        BY <4>3 DEF g, y
    <3>4. Append(<<>>, <<p>>) = << <<p>> >>
      OBVIOUS
    <3> QED
      BY <3>2, <3>3, <3>4, FlattenOne
  <2>7. SplitForRequests(p, max) = Pack(FlattenSeq(AllCut(Sentences(p), max)), max)
    BY <1>0, <1>2 DEF SplitForRequests, AllCut, Cut
  <2> QED
    BY <1>0, <2>3, <2>6, <2>7, PackOne
<1> QED
  BY <1>1, <1>2

-----------------------------------------------------------------------------
(* Chapters: what all segments say.                                        *)

Segment == [voice : Voices, text : Text]
Spoken  == Nat \X Voices

Sayings(plan) == [i \in DOMAIN plan |-> Says(plan[i])]
SayAll(plan)  == FlattenSeq(Sayings(plan))

(* What a voice says of a text is as long as the text.                     *)
LEMMA SaidIs ==
  ASSUME NEW v \in Voices, NEW t \in Text
  PROVE  /\ Said(t, v) \in Seq(Spoken) /\ Len(Said(t, v)) = Len(t)
         /\ \A i \in 1..Len(t) : Said(t, v)[i] = <<t[i].id, v>>
<1>1. Len(t) \in Nat /\ DOMAIN t = 1..Len(t)
  BY LenProperties DEF Text
<1>2. ASSUME NEW i \in 1..Len(t)
      PROVE  <<t[i].id, v>> \in Spoken
  <2>1. t[i] \in Words
    BY ElementOfSeq DEF Text
  <2>2. t[i].id \in Nat
    BY <2>1 DEF Words
  <2> QED
    BY <2>2 DEF Spoken
<1>3. Said(t, v) \in [1..Len(t) -> Spoken]
  BY <1>1, <1>2 DEF Said
<1> QED
  BY <1>1, <1>3, FunctionSeq DEF Said

(* A voice says joined texts one after the other.                          *)
LEMMA SaidJoined ==
  ASSUME NEW v \in Voices, NEW s \in Text, NEW t \in Text
  PROVE  Said(s \o t, v) = Said(s, v) \o Said(t, v)
<1> DEFINE st == s \o t
           a == Said(s, v)
           b == Said(t, v)
           c == Said(st, v)
<1>1. /\ st \in Text /\ Len(st) = Len(s) + Len(t) /\ Len(s) \in Nat /\ Len(t) \in Nat
      /\ \A i \in 1..(Len(s) + Len(t)) : st[i] = IF i <= Len(s) THEN s[i] ELSE t[i - Len(s)]
  BY ConcatProperties, LenProperties DEF Text
<1>2. /\ a \in Seq(Spoken) /\ Len(a) = Len(s) /\ \A i \in 1..Len(s) : a[i] = <<s[i].id, v>>
      /\ b \in Seq(Spoken) /\ Len(b) = Len(t) /\ \A i \in 1..Len(t) : b[i] = <<t[i].id, v>>
  BY SaidIs
<1> HIDE DEF st
<1>3. /\ c \in Seq(Spoken) /\ Len(c) = Len(st) /\ \A i \in 1..Len(st) : c[i] = <<st[i].id, v>>
  BY <1>1, SaidIs
<1> HIDE DEF a, b, c
<1>4. Len(c) = Len(a) + Len(b)
  BY <1>1, <1>2, <1>3
<1>5. ASSUME NEW i \in 1..Len(a)
      PROVE  c[i] = a[i]
  <2>1. i \in 1..Len(st) /\ i \in 1..(Len(s) + Len(t)) /\ i <= Len(s) /\ i \in 1..Len(s)
    BY <1>1, <1>2
  <2>2. st[i] = s[i]
    BY <1>1, <2>1
  <2> QED
    BY <1>2, <1>3, <2>1, <2>2
<1>6. ASSUME NEW i \in 1..Len(b)
      PROVE  c[Len(a) + i] = b[i]
  <2>1. PICK j \in 1..(Len(s) + Len(t)) : j = Len(a) + i
    BY <1>1, <1>2
  <2>2. j \in 1..Len(st) /\ ~(j <= Len(s)) /\ j - Len(s) = i /\ i \in 1..Len(t)
    BY <1>1, <1>2, <2>1
  <2>3. st[j] = t[i]
    BY <1>1, <2>2
  <2> QED
    BY <1>2, <1>3, <2>1, <2>2, <2>3
<1>7. c = a \o b
  BY <1>2, <1>3, <1>4, <1>5, <1>6, Joined
<1> QED
  BY <1>7 DEF a, b, c, st

(* Segments say sequences of words in voices.                              *)
LEMMA SayingsAre ==
  ASSUME NEW plan \in Seq(Segment)
  PROVE  /\ Sayings(plan) \in Seq(Seq(Spoken)) /\ Len(Sayings(plan)) = Len(plan)
         /\ \A i \in 1..Len(plan) : Sayings(plan)[i] = Says(plan[i])
         /\ SayAll(plan) \in Seq(Spoken)
<1>1. Len(plan) \in Nat /\ DOMAIN plan = 1..Len(plan)
  BY LenProperties
<1>2. ASSUME NEW i \in 1..Len(plan)
      PROVE  Says(plan[i]) \in Seq(Spoken)
  <2>1. plan[i] \in Segment
    BY ElementOfSeq
  <2>2. plan[i].voice \in Voices /\ plan[i].text \in Text
    BY <2>1 DEF Segment
  <2> QED
    BY <2>2, SaidIs DEF Says
<1>3. Sayings(plan) \in [1..Len(plan) -> Seq(Spoken)]
  BY <1>1, <1>2 DEF Sayings
<1>4. Sayings(plan) \in Seq(Seq(Spoken)) /\ Len(Sayings(plan)) = Len(plan)
  BY <1>1, <1>3, FunctionSeq
<1> QED
  BY <1>1, <1>4, FlattenType DEF Sayings, SayAll

(* Nobody says nothing.                                                     *)
LEMMA SayNothing == SayAll(<<>>) = <<>>
<1>1. Sayings(<<>>) \in Seq(Seq(Spoken)) /\ Len(Sayings(<<>>)) = 0
  BY SayingsAre, EmptySeq
<1>2. Sayings(<<>>) = <<>>
  BY <1>1, EmptySeq
<1> QED
  BY <1>2, FlattenEmpty DEF SayAll

(* One segment more says one thing more.                                   *)
LEMMA SayAppend ==
  ASSUME NEW plan \in Seq(Segment), NEW t \in Segment
  PROVE  SayAll(Append(plan, t)) = SayAll(plan) \o Says(t)
<1> DEFINE more == Append(plan, t)
           len == Len(plan)
           m == Sayings(plan)
           g == Sayings(more)
           p == Says(t)
<1>1. /\ len \in Nat /\ more \in Seq(Segment) /\ Len(more) = len + 1 /\ more[len + 1] = t
      /\ \A i \in 1..len : more[i] = plan[i]
  BY LenProperties, AppendProperties
<1>2. m \in Seq(Seq(Spoken)) /\ Len(m) = len /\ \A i \in 1..len : m[i] = Says(plan[i])
  BY SayingsAre
<1> HIDE DEF more
<1>3. g \in Seq(Seq(Spoken)) /\ Len(g) = Len(more) /\ \A i \in 1..Len(more) : g[i] = Says(more[i])
  BY <1>1, SayingsAre
<1> HIDE DEF len, m, g
<1>4. g[len + 1] = p
  <2>1. len + 1 \in 1..Len(more)
    BY <1>1
  <2>2. g[len + 1] = Says(more[len + 1])
    BY <1>3, <2>1
  <2> QED
    BY <1>1, <2>2
<1>5. p \in Seq(Spoken)
  <2>1. t.voice \in Voices /\ t.text \in Text
    BY DEF Segment
  <2> QED
    BY <2>1, SaidIs DEF Says
<1> HIDE DEF p
<1>6. ASSUME NEW i \in 1..len
      PROVE  g[i] = m[i]
  <2>1. i \in 1..Len(more)
    BY <1>1
  <2> QED
    BY <1>1, <1>2, <1>3, <2>1
<1>7. g = Append(m, p)
  BY <1>1, <1>2, <1>3, <1>4, <1>5, <1>6, OneMore
<1>8. FlattenSeq(g) = FlattenSeq(m) \o p
  BY <1>2, <1>5, <1>7, FlattenAppend
<1> QED
  BY <1>8 DEF SayAll, m, g, p, more

(* Plans joined say what they say one after the other.                     *)
LEMMA SayConcat ==
  ASSUME NEW s \in Seq(Segment), NEW t \in Seq(Segment)
  PROVE  SayAll(s \o t) = SayAll(s) \o SayAll(t)
<1> DEFINE Bad == {u \in Seq(Segment) : SayAll(s \o u) # SayAll(s) \o SayAll(u)}
<1>1. <<>> \notin Bad
  <2>1. s \o <<>> = s /\ SayAll(s) \in Seq(Spoken)
    BY ConcatEmptySeq, SayingsAre
  <2>2. SayAll(s) \o <<>> = SayAll(s)
    BY <2>1, ConcatEmptySeq
  <2> QED
    BY <2>1, <2>2, SayNothing
<1>2. ASSUME NEW u \in Seq(Segment), NEW x \in Segment, u \notin Bad
      PROVE  Append(u, x) \notin Bad
  <2>1. s \o Append(u, x) = Append(s \o u, x) /\ s \o u \in Seq(Segment)
    BY AppendConcat, ConcatProperties
  <2>2. SayAll(Append(s \o u, x)) = SayAll(s \o u) \o Says(x)
    BY <2>1, SayAppend
  <2>3. SayAll(Append(u, x)) = SayAll(u) \o Says(x)
    BY SayAppend
  <2>4. SayAll(s \o u) = SayAll(s) \o SayAll(u)
    BY <1>2
  <2>5. SayAll(s) \in Seq(Spoken) /\ SayAll(u) \in Seq(Spoken) /\ Says(x) \in Seq(Spoken)
    <3>1. x.voice \in Voices /\ x.text \in Text
      BY DEF Segment
    <3> QED
      BY <3>1, SayingsAre, SaidIs DEF Says
  <2>6. (SayAll(s) \o SayAll(u)) \o Says(x) = SayAll(s) \o (SayAll(u) \o Says(x))
    BY <2>5, ConcatAssociative
  <2>7. SayAll(s \o Append(u, x)) = SayAll(s) \o SayAll(Append(u, x))
    BY <2>1, <2>2, <2>3, <2>4, <2>6
  <2> QED
    BY <2>7
<1>3. Bad = {}
  <2>1. Bad \in SUBSET Seq(Segment)
    OBVIOUS
  <2> HIDE DEF Bad
  <2> QED
    BY <1>1, <1>2, <2>1, Shortest
<1> QED
  BY <1>3

(* A text in pieces is said as it was written.                             *)
InVoice(pieces, v) == [k \in DOMAIN pieces |-> [voice |-> v, text |-> pieces[k]]]

(* Pieces in a voice are segments of that voice.                           *)
LEMMA InVoiceIs ==
  ASSUME NEW v \in Voices, NEW pieces \in Seq(Text)
  PROVE  /\ InVoice(pieces, v) \in Seq(Segment) /\ Len(InVoice(pieces, v)) = Len(pieces)
         /\ \A k \in 1..Len(pieces) : InVoice(pieces, v)[k] = [voice |-> v, text |-> pieces[k]]
<1>1. Len(pieces) \in Nat /\ DOMAIN pieces = 1..Len(pieces)
  BY LenProperties
<1>2. ASSUME NEW k \in 1..Len(pieces)
      PROVE  [voice |-> v, text |-> pieces[k]] \in Segment
  <2>1. pieces[k] \in Text
    BY ElementOfSeq
  <2> QED
    BY <2>1 DEF Segment
<1>3. InVoice(pieces, v) \in [1..Len(pieces) -> Segment]
  BY <1>1, <1>2 DEF InVoice
<1> QED
  BY <1>1, <1>3, FunctionSeq DEF InVoice

(* They say what the pieces say together.                                  *)
LEMMA InVoiceSays ==
  ASSUME NEW v \in Voices, NEW pieces \in Seq(Text)
  PROVE  SayAll(InVoice(pieces, v)) = Said(FlattenSeq(pieces), v)
<1> DEFINE Bad == {s \in Seq(Text) : SayAll(InVoice(s, v)) # Said(FlattenSeq(s), v)}
<1>1. <<>> \notin Bad
  <2>1. InVoice(<<>>, v) \in Seq(Segment) /\ Len(InVoice(<<>>, v)) = 0
    BY InVoiceIs, EmptySeq
  <2>2. InVoice(<<>>, v) = <<>>
    BY <2>1, EmptySeq
  <2>3. Said(<<>>, v) \in Seq(Spoken) /\ Len(Said(<<>>, v)) = 0
    BY SaidIs, EmptySeq DEF Text
  <2>4. Said(<<>>, v) = <<>>
    BY <2>3, EmptySeq
  <2>5. SayAll(InVoice(<<>>, v)) = Said(FlattenSeq(<<>>), v)
    BY <2>2, <2>4, SayNothing, FlattenEmpty
  <2> QED
    BY <2>5
<1>2. ASSUME NEW s \in Seq(Text), NEW x \in Text, s \notin Bad
      PROVE  Append(s, x) \notin Bad
  <2> DEFINE more == Append(s, x)
             len == Len(s)
             m == InVoice(s, v)
             g == InVoice(more, v)
             p == [voice |-> v, text |-> x]
  <2>1. /\ len \in Nat /\ more \in Seq(Text) /\ Len(more) = len + 1 /\ more[len + 1] = x
        /\ \A i \in 1..len : more[i] = s[i]
    BY LenProperties, AppendProperties
  <2>2. /\ m \in Seq(Segment) /\ Len(m) = len
        /\ \A k \in 1..len : m[k] = [voice |-> v, text |-> s[k]]
    BY InVoiceIs
  <2> HIDE DEF more
  <2>3. /\ g \in Seq(Segment) /\ Len(g) = Len(more)
        /\ \A k \in 1..Len(more) : g[k] = [voice |-> v, text |-> more[k]]
    BY <2>1, InVoiceIs
  <2> HIDE DEF len, m, g
  <2>4. g[len + 1] = p
    <3>1. len + 1 \in 1..Len(more)
      BY <2>1
    <3>2. g[len + 1] = [voice |-> v, text |-> more[len + 1]]
      BY <2>3, <3>1
    <3> QED
      BY <2>1, <3>2
  <2>5. p \in Segment /\ Says(p) = Said(x, v)
    BY DEF Segment, Says
  <2> HIDE DEF p
  <2>6. ASSUME NEW i \in 1..len
        PROVE  g[i] = m[i]
    <3>1. i \in 1..Len(more)
      BY <2>1
    <3> QED
      BY <2>1, <2>2, <2>3, <3>1
  <2>7. g = Append(m, p)
    BY <2>1, <2>2, <2>3, <2>4, <2>5, <2>6, OneMore
  <2>8. SayAll(g) = SayAll(m) \o Said(x, v)
    BY <2>2, <2>5, <2>7, SayAppend
  <2>9. SayAll(m) = Said(FlattenSeq(s), v)
    BY <1>2 DEF m
  <2>10. FlattenSeq(more) = FlattenSeq(s) \o x /\ FlattenSeq(s) \in Text
    BY FlattenAppend, FlattenType DEF more, Text
  <2>11. SayAll(g) = Said(FlattenSeq(more), v)
    BY <2>8, <2>9, <2>10, SaidJoined
  <2> QED
    BY <2>11 DEF g, more
<1>3. Bad = {}
  <2>1. Bad \in SUBSET Seq(Text)
    OBVIOUS
  <2> HIDE DEF Bad
  <2> QED
    BY <1>1, <1>2, <2>1, Shortest
<1> QED
  BY <1>3

(* Segments that will not be split: they are blank, or fit.                *)
Settled == {s \in Segment : s.text = <<>> \/ s.text \in Fits(SentenceTarget)}

(* A turn's sentences say what the turn says, and are settled.             *)
LEMMA InSentencesSay ==
  ASSUME NEW t \in Segment
  PROVE  InSentences(t) \in Seq(Settled) /\ SayAll(InSentences(t)) = Says(t)
<1> DEFINE pieces == SplitForRequests(t.text, SentenceTarget)
<1>1. t.voice \in Voices /\ t.text \in Text /\ SentenceTarget \in Nat
  BY SizesAssumption DEF Segment
<1>2. pieces \in Seq(Fits(SentenceTarget)) /\ FlattenSeq(pieces) = t.text
  BY <1>1, SplitSays
<1> HIDE DEF pieces
<1>3. CASE pieces = <<>>
  <2>1. InSentences(t) = <<t>> /\ t \in Settled
    BY <1>2, <1>3, FlattenEmpty DEF InSentences, Settled, pieces
  <2>2. <<t>> = Append(<<>>, t) /\ <<>> \in Seq(Segment) /\ <<t>> \in Seq(Settled)
    BY <2>1, EmptySeq
  <2>3. SayAll(Append(<<>>, t)) = SayAll(<<>>) \o Says(t) /\ Says(t) \in Seq(Spoken)
    BY <1>1, <2>2, SayAppend, SaidIs DEF Says
  <2> QED
    BY <2>1, <2>2, <2>3, SayNothing, ConcatEmptySeq
<1>4. CASE pieces # <<>>
  <2>1. InSentences(t) = InVoice(pieces, t.voice)
    BY <1>4 DEF InSentences, InVoice, pieces
  <2>2. pieces \in Seq(Text)
    <3>1. Fits(SentenceTarget) \in SUBSET Text
      BY DEF Fits, Pieces
    <3> QED
      BY <1>2, <3>1, SeqMonotonic
  <2>3. SayAll(InSentences(t)) = Says(t)
    BY <1>1, <1>2, <2>1, <2>2, InVoiceSays DEF Says
  <2> DEFINE s == InVoice(pieces, t.voice)
  <2>4. /\ s \in Seq(Segment) /\ Len(s) = Len(pieces)
        /\ \A k \in 1..Len(pieces) : s[k] = [voice |-> t.voice, text |-> pieces[k]]
    BY <1>1, <2>2, InVoiceIs
  <2>5. s \in [1..Len(s) -> Segment] /\ Len(s) \in Nat
    BY <2>4, LenProperties
  <2> HIDE DEF s
  <2>6. ASSUME NEW k \in 1..Len(s)
        PROVE  s[k] \in Settled
    <3>1. pieces[k] \in Fits(SentenceTarget)
      BY <1>2, <2>4, ElementOfSeq
    <3>2. s[k] \in Segment /\ s[k].text = pieces[k]
      BY <2>4, <2>5
    <3> QED
      BY <3>1, <3>2 DEF Settled
  <2>7. s \in [1..Len(s) -> Settled]
    BY <2>5, <2>6
  <2>8. s \in Seq(Settled)
    BY <2>5, <2>7, FunctionSeq
  <2> QED
    BY <2>1, <2>3, <2>8 DEF s
<1> QED
  BY <1>3, <1>4

(* A settled segment stays as it is.                                        *)
LEMMA SettledStays ==
  ASSUME NEW s \in Settled
  PROVE  InSentences(s) = <<s>>
<1>1. s \in [voice : Voices, text : Text] /\ SentenceTarget \in Nat
  BY SizesAssumption DEF Settled, Segment
<1>2. CASE s.text = <<>>
  BY <1>2 DEF InSentences, SplitForRequests
<1>3. CASE s.text # <<>>
  <2>1. s.text \in Fits(SentenceTarget)
    BY <1>3 DEF Settled
  <2>2. SplitForRequests(s.text, SentenceTarget) = <<s.text>>
    BY <1>1, <2>1, SplitFit
  <2> DEFINE pieces == <<s.text>>
  <2>3. InSentences(s) = InVoice(pieces, s.voice)
    BY <2>2 DEF InSentences, InVoice
  <2>4. s.voice \in Voices /\ s.text \in Text /\ s = [voice |-> s.voice, text |-> s.text]
    BY <1>1
  <2>5. pieces \in Seq(Text) /\ Len(pieces) = 1 /\ pieces[1] = s.text
    BY <2>4
  <2> HIDE DEF pieces
  <2> DEFINE g == InVoice(pieces, s.voice)
             one == <<s>>
  <2>6. g \in Seq(Segment) /\ Len(g) = 1 /\ g[1] = [voice |-> s.voice, text |-> pieces[1]]
    <3>1. 1 \in 1..Len(pieces)
      BY <2>5
    <3>2. /\ g \in Seq(Segment) /\ Len(g) = Len(pieces)
          /\ \A k \in 1..Len(pieces) : g[k] = [voice |-> s.voice, text |-> pieces[k]]
      BY <2>4, <2>5, InVoiceIs
    <3> HIDE DEF g
    <3> QED
      BY <2>5, <3>1, <3>2
  <2>7. one \in Seq(Segment) /\ Len(one) = 1 /\ one[1] = s
    BY DEF Settled
  <2> HIDE DEF g, one
  <2>8. g = one
    <3>1. Len(g) = Len(one)
      BY <2>6, <2>7
    <3>2. ASSUME NEW i \in 1..Len(g)
          PROVE  g[i] = one[i]
      <4>1. i = 1
        BY <2>6
      <4> QED
        BY <2>4, <2>5, <2>6, <2>7, <4>1
    <3> QED
      BY <2>6, <2>7, <3>1, <3>2, SeqEqual
  <2> QED
    BY <2>3, <2>8 DEF g, one
<1> QED
  BY <1>2, <1>3

InSentencesAll(plan) == [i \in DOMAIN plan |-> InSentences(plan[i])]

(* Splitting a chapter is turn by turn.                                     *)
LEMMA SplitNothing == SplitBySentence(<<>>) = <<>>
<1>1. InSentencesAll(<<>>) \in [1..0 -> Seq(Segment)]
  BY EmptySeq DEF InSentencesAll
<1>2. InSentencesAll(<<>>) \in Seq(Seq(Segment)) /\ Len(InSentencesAll(<<>>)) = 0
  BY <1>1, FunctionSeq
<1>3. InSentencesAll(<<>>) = <<>>
  BY <1>2, EmptySeq
<1> QED
  BY <1>3, FlattenEmpty DEF SplitBySentence, InSentencesAll

(* One turn more is split after the others.                                *)
LEMMA SplitAppend ==
  ASSUME NEW plan \in Seq(Segment), NEW t \in Segment
  PROVE  SplitBySentence(Append(plan, t)) = SplitBySentence(plan) \o InSentences(t)
<1> DEFINE more == Append(plan, t)
           len == Len(plan)
           m == InSentencesAll(plan)
           g == InSentencesAll(more)
           p == InSentences(t)
<1>1. /\ len \in Nat /\ more \in Seq(Segment) /\ Len(more) = len + 1 /\ more[len + 1] = t
      /\ DOMAIN plan = 1..len /\ \A i \in 1..len : more[i] = plan[i] /\ plan[i] \in Segment
  BY LenProperties, AppendProperties, ElementOfSeq
<1>2. DOMAIN more = 1..(len + 1) /\ \A i \in 1..(len + 1) : more[i] \in Segment
  <2> HIDE DEF more, len
  <2> QED
    BY <1>1, ElementOfSeq, LenProperties
<1>3. \A s \in Segment : InSentences(s) \in Seq(Segment)
  <2> SUFFICES ASSUME NEW s \in Segment PROVE InSentences(s) \in Seq(Segment)
    OBVIOUS
  <2>1. InSentences(s) \in Seq(Settled) /\ Settled \subseteq Segment
    BY InSentencesSay DEF Settled
  <2> QED
    BY <2>1, SeqMonotonic
<1> HIDE DEF more, len
<1>4. m \in Seq(Seq(Segment)) /\ Len(m) = len /\ \A i \in 1..len : m[i] = InSentences(plan[i])
  <2>1. m \in [1..len -> Seq(Segment)] /\ \A i \in 1..len : m[i] = InSentences(plan[i])
    BY <1>1, <1>3 DEF InSentencesAll
  <2> QED
    BY <1>1, <2>1, FunctionSeq
<1>5. /\ g \in Seq(Seq(Segment)) /\ Len(g) = len + 1
      /\ \A i \in 1..(len + 1) : g[i] = InSentences(more[i])
  <2>1. /\ g \in [1..(len + 1) -> Seq(Segment)]
        /\ \A i \in 1..(len + 1) : g[i] = InSentences(more[i])
    BY <1>2, <1>3 DEF InSentencesAll
  <2> QED
    BY <1>1, <2>1, FunctionSeq
<1> HIDE DEF m, g, p
<1>6. g[len + 1] = p /\ p \in Seq(Segment)
  <2>1. len + 1 \in 1..(len + 1)
    BY <1>1
  <2>2. g[len + 1] = InSentences(more[len + 1])
    BY <1>5, <2>1
  <2> QED
    BY <1>1, <1>3, <2>2 DEF p
<1>7. ASSUME NEW i \in 1..len
      PROVE  g[i] = m[i]
  <2>1. i \in 1..(len + 1)
    BY <1>1
  <2> QED
    BY <1>1, <1>4, <1>5, <2>1
<1>8. g = Append(m, p)
  BY <1>4, <1>5, <1>6, <1>7, OneMore
<1>9. FlattenSeq(g) = FlattenSeq(m) \o p
  BY <1>4, <1>6, <1>8, FlattenAppend
<1> QED
  BY <1>9 DEF SplitBySentence, InSentencesAll, m, g, p, more

(* What is split says what was to be said, and is settled.                 *)
LEMMA SplitChapter ==
  ASSUME NEW plan \in Seq(Segment)
  PROVE  SplitBySentence(plan) \in Seq(Settled) /\ SayAll(SplitBySentence(plan)) = SayAll(plan)
<1> DEFINE Good(s) == SplitBySentence(s) \in Seq(Settled) /\ SayAll(SplitBySentence(s)) = SayAll(s)
           Bad == {s \in Seq(Segment) : ~Good(s)}
<1>1. <<>> \notin Bad
  <2>1. Good(<<>>)
    BY SplitNothing, EmptySeq
  <2> QED
    BY <2>1
<1>2. ASSUME NEW s \in Seq(Segment), NEW t \in Segment, s \notin Bad
      PROVE  Append(s, t) \notin Bad
  <2> DEFINE a == SplitBySentence(s)
             b == InSentences(t)
             more == Append(s, t)
  <2>1. a \in Seq(Settled) /\ SayAll(a) = SayAll(s)
    BY <1>2
  <2>2. b \in Seq(Settled) /\ SayAll(b) = Says(t)
    BY InSentencesSay
  <2>3. SplitBySentence(more) = a \o b
    BY SplitAppend
  <2>4. SayAll(more) = SayAll(s) \o Says(t)
    BY SayAppend
  <2> HIDE DEF a, b, more
  <2>5. Settled \subseteq Segment
    BY DEF Settled
  <2>6. a \in Seq(Segment) /\ b \in Seq(Segment)
    BY <2>1, <2>2, <2>5, SeqMonotonic
  <2>7. a \o b \in Seq(Settled) /\ SayAll(a \o b) = SayAll(a) \o SayAll(b)
    BY <2>1, <2>2, <2>6, ConcatProperties, SayConcat
  <2>8. Good(more)
    BY <2>1, <2>2, <2>3, <2>4, <2>7
  <2> QED
    BY <2>8 DEF more
<1>3. Bad = {}
  <2>1. Bad \in SUBSET Seq(Segment)
    OBVIOUS
  <2> HIDE DEF Bad
  <2> QED
    BY <1>1, <1>2, <2>1, Shortest
<1> QED
  BY <1>3

(* And is not split again.                                                  *)
LEMMA SettledChapterStays ==
  ASSUME NEW plan \in Seq(Settled)
  PROVE  SplitBySentence(plan) = plan
<1> DEFINE Bad == {s \in Seq(Settled) : SplitBySentence(s) # s}
<1>1. <<>> \notin Bad
  BY SplitNothing
<1>2. ASSUME NEW s \in Seq(Settled), NEW t \in Settled, s \notin Bad
      PROVE  Append(s, t) \notin Bad
  <2>1. Settled \subseteq Segment
    BY DEF Settled
  <2>2. s \in Seq(Segment) /\ t \in Segment
    BY <2>1, SeqMonotonic
  <2>3. SplitBySentence(Append(s, t)) = SplitBySentence(s) \o <<t>>
    BY <2>2, SplitAppend, SettledStays
  <2>4. SplitBySentence(s) = s /\ Append(s, t) = s \o <<t>>
    BY <1>2, AppendIsConcat
  <2>5. SplitBySentence(Append(s, t)) = Append(s, t)
    BY <2>3, <2>4
  <2> QED
    BY <2>5
<1>3. Bad = {}
  <2>1. Bad \in SUBSET Seq(Settled)
    OBVIOUS
  <2> HIDE DEF Bad
  <2> QED
    BY <1>1, <1>2, <2>1, Shortest
<1> QED
  BY <1>3

(* Splitting a chapter by sentences, as try_render_and_publish does before *)
(* it voices one, drops, adds, moves and revoices no word, and is          *)
(* idempotent, which is what lets stored segments be split again: for any  *)
(* chapter and any sizes of sentences and words.                           *)
THEOREM SplittingLosesNothing ==
  ASSUME NEW plan \in Seq(Segment)
  PROVE  /\ SayAll(SplitBySentence(plan)) = SayAll(plan)
         /\ SplitBySentence(SplitBySentence(plan)) = SplitBySentence(plan)
BY SplitChapter, SettledChapterStays

(* The parts a segment is asked for in say it, when they are joined: no    *)
(* text is lost to the limit on a request.                                 *)
THEOREM RequestsLoseNothing ==
  ASSUME NEW t \in Text, NEW v \in Voices
  PROVE  Said(FlattenSeq(SplitForRequests(t, MaxChars)), v) = Said(t, v)
<1>1. MaxChars \in Nat
  BY SizesAssumption
<1> QED
  BY <1>1, SplitSays

-----------------------------------------------------------------------------
(* Batches and shards.                                                     *)

Marks(p) == [i \in DOMAIN p |-> IF p[i] THEN <<i>> ELSE <<>>]

(* Marks are sequences of numbers.                                          *)
LEMMA MarksAre ==
  ASSUME NEW p \in Seq(BOOLEAN)
  PROVE  /\ Marks(p) \in Seq(Seq(Nat)) /\ Len(Marks(p)) = Len(p)
         /\ \A i \in 1..Len(p) : Marks(p)[i] = IF p[i] THEN <<i>> ELSE <<>>
<1>1. Len(p) \in Nat /\ DOMAIN p = 1..Len(p)
  BY LenProperties
<1>2. ASSUME NEW i \in 1..Len(p)
      PROVE  (IF p[i] THEN <<i>> ELSE <<>>) \in Seq(Nat)
  <2>1. <<i>> \in Seq(Nat) /\ <<>> \in Seq(Nat)
    BY <1>1
  <2> QED
    BY <2>1
<1>3. Marks(p) \in [1..Len(p) -> Seq(Nat)]
  BY <1>1, <1>2 DEF Marks
<1> QED
  BY <1>1, <1>3, FunctionSeq DEF Marks

(* The marked places are all there.                                         *)
Marked(p) ==
  /\ Where(p) \in Seq(1..Len(p))
  /\ \A k \in 1..Len(Where(p)) : p[Where(p)[k]]
  /\ \A i \in 1..Len(p) : p[i] => \E k \in 1..Len(Where(p)) : Where(p)[k] = i

(* One mark more, and one place more if it holds there.                    *)
LEMMA WhereAppend ==
  ASSUME NEW p \in Seq(BOOLEAN), NEW x \in BOOLEAN
  PROVE  Where(Append(p, x)) = Where(p) \o (IF x THEN <<Len(p) + 1>> ELSE <<>>)
<1> DEFINE more == Append(p, x)
           len == Len(p)
           m == Marks(p)
           g == Marks(more)
           y == IF x THEN <<len + 1>> ELSE <<>>
<1>1. /\ len \in Nat /\ more \in Seq(BOOLEAN) /\ Len(more) = len + 1 /\ more[len + 1] = x
      /\ \A i \in 1..len : more[i] = p[i]
  BY LenProperties, AppendProperties
<1>2. m \in Seq(Seq(Nat)) /\ Len(m) = len /\ \A i \in 1..len : m[i] = IF p[i] THEN <<i>> ELSE <<>>
  BY MarksAre
<1> HIDE DEF more
<1>3. /\ g \in Seq(Seq(Nat)) /\ Len(g) = Len(more)
      /\ \A i \in 1..Len(more) : g[i] = IF more[i] THEN <<i>> ELSE <<>>
  BY <1>1, MarksAre
<1> HIDE DEF len, m, g
<1>4. g[len + 1] = y
  <2>1. PICK n \in 1..Len(more) : n = len + 1
    BY <1>1
  <2>2. g[n] = IF more[n] THEN <<n>> ELSE <<>>
    BY <1>3
  <2> QED
    BY <1>1, <2>1, <2>2
<1>5. y \in Seq(Nat)
  <2>1. <<len + 1>> \in Seq(Nat) /\ <<>> \in Seq(Nat)
    BY <1>1
  <2> QED
    BY <2>1
<1> HIDE DEF y
<1>6. ASSUME NEW i \in 1..len
      PROVE  g[i] = m[i]
  <2>1. i \in 1..Len(more)
    BY <1>1
  <2> QED
    BY <1>1, <1>2, <1>3, <2>1
<1>7. g = Append(m, y)
  BY <1>1, <1>2, <1>3, <1>4, <1>5, <1>6, OneMore
<1>8. FlattenSeq(g) = FlattenSeq(m) \o y
  BY <1>2, <1>5, <1>7, FlattenAppend
<1> QED
  BY <1>8 DEF Where, Marks, m, g, y, more, len

(* Where finds the places that are marked, and all of them.                *)
LEMMA WhereIs ==
  ASSUME NEW p \in Seq(BOOLEAN)
  PROVE  Marked(p)
<1> DEFINE Bad == {q \in Seq(BOOLEAN) : ~Marked(q)}
<1>1. <<>> \notin Bad
  <2>1. Marks(<<>>) \in Seq(Seq(Nat)) /\ Len(Marks(<<>>)) = 0 /\ Len(<<>>) = 0
    BY MarksAre, EmptySeq
  <2>2. Marks(<<>>) = <<>>
    BY <2>1, EmptySeq
  <2>3. Where(<<>>) = <<>>
    BY <2>2, FlattenEmpty DEF Where, Marks
  <2>4. Marked(<<>>)
    BY <2>1, <2>3, EmptySeq DEF Marked
  <2> QED
    BY <2>4
<1>2. ASSUME NEW q \in Seq(BOOLEAN), NEW x \in BOOLEAN, q \notin Bad
      PROVE  Append(q, x) \notin Bad
  <2> DEFINE more == Append(q, x)
             len == Len(q)
             w == Where(q)
             y == IF x THEN <<len + 1>> ELSE <<>>
             all == Where(more)
  <2>1. /\ len \in Nat /\ more \in Seq(BOOLEAN) /\ Len(more) = len + 1 /\ more[len + 1] = x
        /\ \A i \in 1..len : more[i] = q[i]
    BY LenProperties, AppendProperties
  <2>2. /\ w \in Seq(1..len) /\ \A k \in 1..Len(w) : q[w[k]]
        /\ \A i \in 1..len : q[i] => \E k \in 1..Len(w) : w[k] = i
    BY <1>2 DEF Marked
  <2>3. all = w \o y
    BY WhereAppend
  <2> HIDE DEF more, len, w, all
  <2>4. Marked(more) <=>
          /\ all \in Seq(1..(len + 1)) /\ \A k \in 1..Len(all) : more[all[k]]
          /\ \A i \in 1..(len + 1) : more[i] => \E k \in 1..Len(all) : all[k] = i
    BY <2>1 DEF Marked, all
  <2>5. w \in Seq(1..(len + 1)) /\ Len(w) \in Nat /\ \A k \in 1..Len(w) : w[k] \in 1..len
    <3>1. 1..len \subseteq 1..(len + 1)
      BY <2>1
    <3> QED
      BY <2>2, <3>1, SeqMonotonic, LenProperties, ElementOfSeq
  <2>6. CASE ~x
    <3>1. all = w
      BY <2>2, <2>3, <2>6, ConcatEmptySeq
    <3>2. \A k \in 1..Len(all) : more[all[k]]
      BY <2>1, <2>2, <2>5, <3>1
    <3>3. ASSUME NEW i \in 1..(len + 1), more[i]
          PROVE  \E k \in 1..Len(all) : all[k] = i
      <4>1. i # len + 1
        BY <2>1, <2>6, <3>3
      <4>2. i \in 1..len
        BY <2>1, <4>1
      <4> QED
        BY <2>1, <2>2, <3>1, <3>3, <4>2
    <3>4. Marked(more)
      BY <2>4, <2>5, <3>1, <3>2, <3>3
    <3> QED
      BY <3>4 DEF more
  <2>7. CASE x
    <3> DEFINE z == len + 1
    <3>1. all = w \o <<z>> /\ z \in 1..(len + 1)
      BY <2>1, <2>3, <2>7
    <3>2. all = Append(w, z)
      BY <2>5, <3>1, AppendIsConcat
    <3>3. /\ all \in Seq(1..(len + 1)) /\ Len(all) = Len(w) + 1 /\ all[Len(w) + 1] = z
          /\ \A k \in 1..Len(w) : all[k] = w[k]
      BY <2>5, <3>1, <3>2, AppendProperties
    <3> HIDE DEF z
    <3>4. ASSUME NEW k \in 1..Len(all)
          PROVE  more[all[k]]
      <4>1. CASE k = Len(w) + 1
        BY <2>1, <2>7, <3>3, <4>1 DEF z
      <4>2. CASE k # Len(w) + 1
        <5>1. k \in 1..Len(w)
          BY <2>5, <3>3, <4>2
        <5> QED
          BY <2>1, <2>2, <2>5, <3>3, <5>1
      <4> QED
        BY <4>1, <4>2
    <3>5. ASSUME NEW i \in 1..(len + 1), more[i]
          PROVE  \E k \in 1..Len(all) : all[k] = i
      <4>1. CASE i = len + 1
        <5>1. Len(w) + 1 \in 1..Len(all) /\ all[Len(w) + 1] = i
          BY <2>5, <3>3, <4>1 DEF z
        <5> QED
          BY <5>1
      <4>2. CASE i # len + 1
        <5>1. i \in 1..len
          BY <2>1, <4>2
        <5>2. PICK k \in 1..Len(w) : w[k] = i
          BY <2>1, <2>2, <3>5, <5>1
        <5>3. k \in 1..Len(all) /\ all[k] = i
          BY <2>5, <3>3, <5>2
        <5> QED
          BY <5>3
      <4> QED
        BY <4>1, <4>2
    <3>6. Marked(more)
      BY <2>4, <3>3, <3>4, <3>5
    <3> QED
      BY <3>6 DEF more
  <2> QED
    BY <2>6, <2>7
<1>3. Bad = {}
  <2>1. Bad \in SUBSET Seq(BOOLEAN)
    OBVIOUS
  <2> HIDE DEF Bad
  <2> QED
    BY <1>1, <1>2, <2>1, Shortest
<1> QED
  BY <1>3

(* A batch has the requests of its backend, and all of them.               *)
LEMMA PositionsAre ==
  ASSUME NEW b, segs \in Seq(Segment)
  PROVE  /\ Positions(b) \in Seq(1..Len(segs)) /\ Len(Positions(b)) \in Nat
         /\ \A k \in 1..Len(Positions(b)) :
              Positions(b)[k] \in 1..Len(segs) /\ segs[Positions(b)[k]].voice.backend = b
         /\ \A i \in 1..Len(segs) : segs[i].voice.backend = b =>
              \E k \in 1..Len(Positions(b)) : Positions(b)[k] = i
<1> DEFINE p == [i \in DOMAIN segs |-> segs[i].voice.backend = b]
           w == Positions(b)
<1>1. Len(segs) \in Nat /\ DOMAIN segs = 1..Len(segs)
  BY LenProperties
<1>2. p \in [1..Len(segs) -> BOOLEAN] /\ \A i \in 1..Len(segs) : p[i] = (segs[i].voice.backend = b)
  BY <1>1
<1>3. w = Where(p)
  BY DEF Positions
<1> HIDE DEF p, w
<1>4. p \in Seq(BOOLEAN) /\ Len(p) = Len(segs)
  BY <1>1, <1>2, FunctionSeq
<1>5. /\ w \in Seq(1..Len(segs)) /\ \A k \in 1..Len(w) : p[w[k]]
      /\ \A i \in 1..Len(segs) : p[i] => \E k \in 1..Len(w) : w[k] = i
  BY <1>3, <1>4, WhereIs DEF Marked
<1>6. Len(w) \in Nat /\ \A k \in 1..Len(w) : w[k] \in 1..Len(segs)
  BY <1>5, LenProperties, ElementOfSeq
<1>7. \A k \in 1..Len(w) : w[k] \in 1..Len(segs) /\ segs[w[k]].voice.backend = b
  BY <1>2, <1>5, <1>6
<1>8. \A i \in 1..Len(segs) : segs[i].voice.backend = b => \E k \in 1..Len(w) : w[k] = i
  BY <1>2, <1>5
<1> QED
  BY <1>5, <1>6, <1>7, <1>8 DEF w

(* A segment's place in its batch is the place its result comes back to.   *)
LEMMA SegIs ==
  ASSUME NEW b, segs \in Seq(Segment), NEW k \in 1..Len(Positions(b))
  PROVE  /\ Seg(b, k) \in Segment /\ Seg(b, k).voice.backend = b
         /\ Seg(b, k).voice \in Voices /\ Seg(b, k).text \in Text
<1> DEFINE i == Positions(b)[k]
<1>1. i \in 1..Len(segs) /\ segs[i].voice.backend = b
  BY PositionsAre
<1> HIDE DEF i
<1>2. segs[i] \in Segment
  BY <1>1, ElementOfSeq
<1>3. Seg(b, k) = segs[i]
  BY DEF Seg, i
<1> QED
  BY <1>1, <1>2, <1>3 DEF Segment

(* The groups are backends, and every segment's is one of them.            *)
LEMMA GroupsAre ==
  ASSUME NEW plan \in Seq(Segment)
  PROVE  /\ GroupsOf(plan) \in Seq(Backends \cup {"gone"})
         /\ \A i \in 1..Len(plan) : \E k \in 1..Len(GroupsOf(plan)) :
              GroupsOf(plan)[k] = plan[i].voice.backend
<1> DEFINE New(i) == \A j \in 1..(i - 1) : plan[j].voice.backend # plan[i].voice.backend
           p == [i \in DOMAIN plan |-> New(i)]
           w == Where(p)
           g == GroupsOf(plan)
           len == Len(plan)
<1>1. len \in Nat /\ DOMAIN plan = 1..len
  BY LenProperties
<1>2. \A i \in 1..len : plan[i].voice.backend \in Backends \cup {"gone"}
  <2> SUFFICES ASSUME NEW i \in 1..len PROVE plan[i].voice.backend \in Backends \cup {"gone"}
    OBVIOUS
  <2>1. plan[i] \in Segment
    BY ElementOfSeq
  <2>2. plan[i].voice \in Voices
    BY <2>1 DEF Segment
  <2> QED
    BY <2>2 DEF Voices, Backends
<1>3. p \in [1..len -> BOOLEAN] /\ \A i \in 1..len : p[i] = New(i)
  BY <1>1
<1>4. g = [k \in DOMAIN w |-> plan[w[k]].voice.backend]
  BY DEF GroupsOf
<1> HIDE DEF p, w, g, len
<1>5. p \in Seq(BOOLEAN) /\ Len(p) = len
  BY <1>1, <1>3, FunctionSeq
<1>6. /\ w \in Seq(1..len) /\ \A i \in 1..len : p[i] => \E k \in 1..Len(w) : w[k] = i
  BY <1>5, WhereIs DEF Marked, w
<1>7. Len(w) \in Nat /\ DOMAIN w = 1..Len(w) /\ \A k \in 1..Len(w) : w[k] \in 1..len
  BY <1>6, LenProperties, ElementOfSeq
<1>8. g \in [1..Len(w) -> Backends \cup {"gone"}]
  BY <1>2, <1>4, <1>7
<1>9. g \in Seq(Backends \cup {"gone"}) /\ Len(g) = Len(w)
  BY <1>7, <1>8, FunctionSeq
<1>10. ASSUME NEW i \in 1..len
       PROVE  \E k \in 1..Len(g) : g[k] = plan[i].voice.backend
  <2> DEFINE b == plan[i].voice.backend
             Same == {j \in 1..len : plan[j].voice.backend = b}
  <2>1. PICK m \in Same : \A j \in Same : m <= j
    <3>1. Same \in SUBSET Nat /\ i \in Same
      BY <1>1
    <3> HIDE DEF Same
    <3> QED
      BY <3>1, Least
  <2>2. m \in 1..len /\ plan[m].voice.backend = b
    OBVIOUS
  <2>3. ASSUME NEW j \in 1..(m - 1), plan[j].voice.backend = b
        PROVE  FALSE
    <3>1. j \in Same /\ ~(m <= j)
      BY <1>1, <2>2, <2>3
    <3> HIDE DEF Same
    <3> QED
      BY <2>1, <3>1
  <2>4. New(m)
    BY <2>2, <2>3
  <2>5. p[m]
    BY <1>3, <2>2, <2>4
  <2>6. PICK k \in 1..Len(w) : w[k] = m
    BY <1>6, <2>2, <2>5
  <2>7. g[k] = b
    BY <1>4, <1>7, <2>2, <2>6
  <2> QED
    BY <1>9, <2>7
<1> QED
  BY <1>9, <1>10 DEF g, len

(* What a thread has to do: a place in its batch, and a copy of the request. *)
Task == [pos : Nat, seg : {s \in Segment : s.voice.backend = "sherpa"}]

(* The request is the one at that place.                                   *)
OwnRequest(it, n) == it.pos \in 1..n /\ it.seg = Seg("sherpa", it.pos)

(* Every position is in some worker's shard, with its request.             *)
LEMMA ShardsAre ==
  ASSUME segs \in Seq(Segment), NEW n \in Nat, n = Len(Positions("sherpa"))
  PROVE  /\ Shards(n) \in [1..Workers -> Seq(Task)]
         /\ \A w \in 1..Workers : \A j \in 1..Len(Shards(n)[w]) : OwnRequest(Shards(n)[w][j], n)
         /\ \A k \in 1..n : \E w \in 1..Workers : \E j \in 1..Len(Shards(n)[w]) :
              Shards(n)[w][j].pos = k
<1> DEFINE size == IF n < Workers THEN n ELSE Workers
           P(w) == [k \in 1..n |-> (k - 1) % size = w - 1]
           ours(w) == Where(P(w))
           task(w) == [j \in DOMAIN ours(w) |-> [pos |-> ours(w)[j], seg |-> Seg("sherpa", ours(w)[j])]]
<1>1. Workers \in Nat /\ size \in Nat /\ size <= Workers /\ (n # 0 => size # 0)
  BY SizesAssumption
<1>2. Shards(n) = [w \in 1..Workers |-> task(w)]
  BY DEF Shards
<1>3. ASSUME NEW w \in 1..Workers
      PROVE  /\ ours(w) \in Seq(1..n)
             /\ \A k \in 1..n : (k - 1) % size = w - 1 =>
                  \E j \in 1..Len(ours(w)) : ours(w)[j] = k
  <2> DEFINE p == P(w)
  <2>1. p \in [1..n -> BOOLEAN] /\ \A k \in 1..n : p[k] = ((k - 1) % size = w - 1)
    OBVIOUS
  <2> HIDE DEF p
  <2>2. p \in Seq(BOOLEAN) /\ Len(p) = n
    BY <2>1, FunctionSeq
  <2>3. /\ Where(p) \in Seq(1..n)
        /\ \A i \in 1..n : p[i] => \E k \in 1..Len(Where(p)) : Where(p)[k] = i
    BY <2>2, WhereIs DEF Marked
  <2>4. /\ Where(p) \in Seq(1..n)
        /\ \A k \in 1..n : (k - 1) % size = w - 1 =>
             \E j \in 1..Len(Where(p)) : Where(p)[j] = k
    BY <2>1, <2>3
  <2> QED
    BY <2>4 DEF p
<1> HIDE DEF P, ours
<1>4. ASSUME NEW w \in 1..Workers
      PROVE  /\ task(w) \in Seq(Task) /\ Len(task(w)) = Len(ours(w))
             /\ \A j \in 1..Len(ours(w)) : task(w)[j].pos = ours(w)[j] /\ OwnRequest(task(w)[j], n)
  <2>1. Len(ours(w)) \in Nat /\ DOMAIN ours(w) = 1..Len(ours(w))
    BY <1>3, LenProperties
  <2>2. ASSUME NEW j \in 1..Len(ours(w))
        PROVE  task(w)[j] \in Task /\ task(w)[j].pos = ours(w)[j] /\ OwnRequest(task(w)[j], n)
    <3>1. ours(w)[j] \in 1..n
      BY <1>3, <2>1, ElementOfSeq
    <3>2. Seg("sherpa", ours(w)[j]) \in Segment /\ Seg("sherpa", ours(w)[j]).voice.backend = "sherpa"
      BY <3>1, SegIs
    <3>3. task(w)[j] = [pos |-> ours(w)[j], seg |-> Seg("sherpa", ours(w)[j])]
      BY <2>1
    <3> QED
      BY <3>1, <3>2, <3>3 DEF Task, OwnRequest
  <2> DEFINE t == task(w)
  <2>3. t \in [1..Len(ours(w)) -> Task]
    BY <2>1, <2>2
  <2> HIDE DEF t
  <2>4. t \in Seq(Task) /\ Len(t) = Len(ours(w))
    BY <2>1, <2>3, FunctionSeq
  <2> QED
    BY <2>2, <2>4 DEF t
<1> HIDE DEF task
<1>5. ASSUME NEW k \in 1..n
      PROVE  \E w \in 1..Workers : \E j \in 1..Len(Shards(n)[w]) : Shards(n)[w][j].pos = k
  <2>1. size \in Nat /\ size # 0 /\ k - 1 \in Nat
    BY <1>1
  <2> HIDE DEF size
  <2>2. (k - 1) % size \in 0..(size - 1)
    BY <2>1
  <2>3. PICK w \in 1..Workers : (k - 1) % size = w - 1
    <3>1. ((k - 1) % size) + 1 \in 1..Workers /\ (k - 1) % size = (((k - 1) % size) + 1) - 1
      BY <1>1, <2>1, <2>2
    <3> QED
      BY <3>1
  <2>4. Shards(n)[w] = task(w)
    BY <1>2
  <2>5. PICK j \in 1..Len(ours(w)) : ours(w)[j] = k
    BY <1>3, <2>3
  <2> QED
    BY <1>4, <2>4, <2>5
<1>6. Shards(n) \in [1..Workers -> Seq(Task)]
  BY <1>2, <1>4
<1>7. \A w \in 1..Workers : \A j \in 1..Len(Shards(n)[w]) : OwnRequest(Shards(n)[w][j], n)
  <2>1. ASSUME NEW w \in 1..Workers, NEW j \in 1..Len(Shards(n)[w])
        PROVE  OwnRequest(Shards(n)[w][j], n)
    <3>1. Shards(n)[w] = task(w)
      BY <1>2
    <3>2. j \in 1..Len(ours(w))
      BY <1>4, <2>1, <3>1
    <3> QED
      BY <1>4, <3>1, <3>2
  <2> QED
    BY <2>1
<1> QED
  BY <1>5, <1>6, <1>7

-----------------------------------------------------------------------------
(* The manifest and the stream.                                            *)

(* What comes before the ith of s.                                         *)
Before(s, i) == [j \in 1..(i - 1) |-> s[j]]

(* The total before a place, and before the next.                          *)
LEMMA BeforeIs ==
  ASSUME NEW s \in Seq(Nat), NEW i \in 1..(Len(s) + 1)
  PROVE  /\ Before(s, i) \in Seq(Nat) /\ Len(Before(s, i)) = i - 1
         /\ Total(Before(s, i)) \in Nat
         /\ i \in 1..Len(s) => Total(Before(s, i + 1)) = Total(Before(s, i)) + s[i]
<1>1. Len(s) \in Nat /\ i - 1 \in Nat /\ \A j \in 1..Len(s) : s[j] \in Nat
  BY LenProperties, ElementOfSeq
<1>2. Before(s, i) \in [1..(i - 1) -> Nat]
  <2>1. \A j \in 1..(i - 1) : j \in 1..Len(s)
    BY <1>1
  <2> QED
    BY <1>1, <2>1 DEF Before
<1>3. Before(s, i) \in Seq(Nat) /\ Len(Before(s, i)) = i - 1
  BY <1>1, <1>2, FunctionSeq
<1>4. ASSUME i \in 1..Len(s)
      PROVE  Total(Before(s, i + 1)) = Total(Before(s, i)) + s[i]
  <2> DEFINE m == Before(s, i)
             g == Before(s, i + 1)
             x == s[i]
  <2>1. g \in [1..i -> Nat] /\ \A j \in 1..i : g[j] = s[j]
    <3>1. (i + 1) - 1 = i /\ \A j \in 1..i : j \in 1..Len(s)
      BY <1>1, <1>4
    <3> QED
      BY <1>1, <3>1 DEF Before
  <2>2. g \in Seq(Nat) /\ Len(g) = i /\ x \in Nat
    BY <1>1, <1>4, <2>1, FunctionSeq
  <2>3. m \in Seq(Nat) /\ Len(m) = i - 1 /\ \A j \in 1..(i - 1) : m[j] = s[j]
    BY <1>3 DEF Before
  <2> HIDE DEF m, g, x
  <2>4. Len(g) = Len(m) + 1 /\ g[Len(m) + 1] = x
    <3>1. Len(m) + 1 = i /\ i \in 1..i
      BY <1>1, <2>3
    <3> QED
      BY <2>1, <2>2, <3>1 DEF x
  <2>5. \A j \in 1..Len(m) : g[j] = m[j]
    <3> SUFFICES ASSUME NEW j \in 1..Len(m) PROVE g[j] = m[j]
      OBVIOUS
    <3>1. j \in 1..(i - 1) /\ j \in 1..i
      BY <1>1, <2>3
    <3> QED
      BY <2>1, <2>3, <3>1
  <2>6. g = Append(m, x)
    BY <2>2, <2>3, <2>4, <2>5, OneMore
  <2> QED
    BY <2>2, <2>3, <2>6, TotalAppend DEF m, g, x
<1> QED
  BY <1>3, <1>4, TotalType

(* All of it comes before what would follow.                                *)
LEMMA BeforeAll ==
  ASSUME NEW s \in Seq(Nat)
  PROVE  Before(s, Len(s) + 1) = s
<1>1. Len(s) \in Nat /\ (Len(s) + 1) - 1 = Len(s)
  BY LenProperties
<1>2. s = [j \in 1..Len(s) |-> s[j]]
  BY LenProperties
<1> QED
  BY <1>1, <1>2 DEF Before

(* What ends before another begins: sums only grow.                        *)
LEMMA SumsGrow ==
  ASSUME NEW s \in Seq(Nat), NEW j \in 1..Len(s), NEW i \in 1..(Len(s) + 1), j < i
  PROVE  Total(Before(s, j)) + s[j] <= Total(Before(s, i))
<1> DEFINE T(k) == Total(Before(s, k))
           Bad == {k \in 1..(Len(s) + 1) : j < k /\ ~(T(j) + s[j] <= T(k))}
<1>1. Len(s) \in Nat /\ \A k \in 1..Len(s) : s[k] \in Nat
  BY LenProperties, ElementOfSeq
<1>2. \A k \in 1..(Len(s) + 1) : T(k) \in Nat
  BY BeforeIs
<1>3. \A k \in 1..Len(s) : k \in 1..(Len(s) + 1) /\ T(k + 1) = T(k) + s[k]
  <2> SUFFICES ASSUME NEW k \in 1..Len(s)
               PROVE  k \in 1..(Len(s) + 1) /\ T(k + 1) = T(k) + s[k]
    OBVIOUS
  <2>1. k \in 1..(Len(s) + 1)
    BY <1>1
  <2> QED
    BY <2>1, BeforeIs
<1> HIDE DEF T
<1>4. Bad = {}
  <2> SUFFICES ASSUME Bad # {} PROVE FALSE
    OBVIOUS
  <2>1. PICK k \in Bad : \A l \in Bad : k <= l
    <3>1. Bad \in SUBSET Nat
      BY <1>1
    <3> HIDE DEF Bad
    <3> QED
      BY <3>1, Least
  <2>2. k \in 1..(Len(s) + 1) /\ j < k /\ ~(T(j) + s[j] <= T(k))
    OBVIOUS
  <2>3. j \in 1..(Len(s) + 1) /\ T(j + 1) = T(j) + s[j] /\ T(j) \in Nat /\ s[j] \in Nat
    BY <1>1, <1>2, <1>3
  <2>4. k # j + 1
    BY <2>2, <2>3
  <2>5. k - 1 \in 1..Len(s) /\ j < k - 1 /\ ~(k <= k - 1) /\ (k - 1) + 1 = k
    BY <1>1, <2>2, <2>3, <2>4
  <2>6. PICK l \in 1..Len(s) : l = k - 1
    BY <2>5
  <2>7. l \in 1..(Len(s) + 1) /\ T(l + 1) = T(l) + s[l] /\ T(l) \in Nat /\ s[l] \in Nat /\ l + 1 = k
    BY <1>1, <1>2, <1>3, <2>5, <2>6
  <2>8. l \notin Bad
    <3>1. ~(k <= l)
      BY <2>5, <2>6
    <3> HIDE DEF Bad
    <3> QED
      BY <2>1, <3>1
  <2>9. T(j) + s[j] <= T(l)
    BY <2>5, <2>6, <2>7, <2>8
  <2>10. T(k) = T(l) + s[l]
    BY <2>7
  <2> QED
    <3> DEFINE a == T(j) + s[j]
               b == T(l)
               c == T(k)
               e == s[l]
    <3>2. a \in Nat
      BY <2>3
    <3>3. b \in Nat /\ e \in Nat
      BY <2>7
    <3>4. a <= b
      BY <2>9
    <3>5. c = b + e
      BY <2>10
    <3>6. ~(a <= c)
      BY <2>2
    <3>1. a \in Nat /\ b \in Nat /\ e \in Nat /\ a <= b /\ c = b + e /\ ~(a <= c)
      BY <3>2, <3>3, <3>4, <3>5, <3>6
    <3> HIDE DEF a, b, c, e
    <3> QED
      BY <3>1
<1>5. i \notin Bad
  BY <1>4
<1> QED
  BY <1>5 DEF T

(* Padded sound is whole milliseconds.                                     *)
LEMMA PaddedIs ==
  ASSUME NEW n \in Nat
  PROVE  /\ Padded(n) \in Nat /\ Duration(Padded(n)) \in Nat
         /\ Padded(n) = Duration(Padded(n)) * BytesPerMs
<1> DEFINE d == (n + BytesPerMs - 1) \div BytesPerMs
<1>1. d \in Nat
  BY DEF BytesPerMs
<1>2. Padded(n) = d * BytesPerMs
  BY DEF Padded
<1> HIDE DEF d
<1>3. Duration(Padded(n)) = d
  BY <1>1, <1>2 DEF Duration, BytesPerMs
<1> QED
  BY <1>1, <1>2, <1>3 DEF BytesPerMs

(* Sizes that are whole milliseconds add up as their durations do: a       *)
(* segment's start is where its bytes begin, and the last one ends where   *)
(* the stream does.                                                        *)
LEMMA StartsAre ==
  ASSUME NEW sizes \in Seq(Nat),
         \A i \in 1..Len(sizes) :
           Duration(sizes[i]) \in Nat /\ sizes[i] = Duration(sizes[i]) * BytesPerMs
  PROVE  \A i \in 1..Len(sizes) :
           /\ Starts(sizes)[i] \in Nat
           /\ Starts(sizes)[i] * BytesPerMs = Total(Before(sizes, i))
<1> SUFFICES ASSUME NEW i \in 1..Len(sizes)
             PROVE  /\ Starts(sizes)[i] \in Nat
                    /\ Starts(sizes)[i] * BytesPerMs = Total(Before(sizes, i))
  OBVIOUS
<1> DEFINE d == [j \in 1..(i - 1) |-> Duration(sizes[j])]
<1>1. Len(sizes) \in Nat /\ DOMAIN sizes = 1..Len(sizes) /\ i - 1 \in Nat
      /\ \A j \in 1..(i - 1) : j \in 1..Len(sizes)
  BY LenProperties
<1>2. d \in [1..(i - 1) -> Nat] /\ \A j \in 1..(i - 1) : d[j] = Duration(sizes[j])
  BY <1>1
<1>3. Starts(sizes)[i] = Total(d)
  BY <1>1 DEF Starts
<1> HIDE DEF d
<1>4. d \in Seq(Nat) /\ Len(d) = i - 1
  BY <1>1, <1>2, FunctionSeq
<1>5. InBytes(d) = Before(sizes, i)
  <2>1. \A j \in 1..(i - 1) : d[j] * BytesPerMs = sizes[j]
    BY <1>1, <1>2
  <2> QED
    BY <1>4, <2>1 DEF InBytes, Before
<1>6. Total(InBytes(d)) = Total(d) * BytesPerMs /\ Total(d) \in Nat
  BY <1>4, TotalInBytes, TotalType
<1> QED
  BY <1>3, <1>5, <1>6

-----------------------------------------------------------------------------
(* The inductive invariant.                                                *)

Sound   == [bytes : Nat, says : Seq(Spoken)]
Outcome == [state : {"none", "ok", "err"}, pcm : Sound]
Mark    == [start : Nat, end : Nat]
Request == [part : Nat, attempt : 1..MaxAttempts]

Rendering == {"registry", "azure", "sherpa"}
Batching  == {"azure", "sherpa"}

(* Every variable is what it seems.                                        *)
Typed ==
  /\ turns \in Chapters /\ pc \in Rendering \cup {"idle", "failed", "published"}
  /\ rows \in Seq(Segment) /\ segs \in Seq(Segment)
  /\ groups \in Seq(Backends \cup {"gone"})
  /\ out \in Seq(Sound) /\ Len(out) = Len(segs)
  /\ batch \in Seq(Outcome)
  /\ manifest \in Seq(Mark) /\ stream \in Seq(Sound)
  /\ shards \in [1..MaxRenders -> [1..Workers -> Seq(Task)]]
  /\ holder \in [1..Workers -> 0..MaxRenders]
  /\ loading \in [1..Workers -> [model : Models \cup {NoModel}, given : SUBSET Files]]
  /\ loaded \in [1..Workers -> SUBSET Models]
  /\ disk \in [Models -> SUBSET Files]
  /\ pc \in Rendering => renders \in 1..MaxRenders
  /\ renders \in 0..MaxRenders /\ changes \in 0..MaxChanges
  /\ cause \in {"none", "refused", "voice", "azure", "sherpa"}

(* Requests are in flight, and wait, while Azure's batch is made.          *)
InTheAir ==
  /\ rest \in Seq(1..Len(batch))
  /\ tasks \in [DOMAIN tasks -> Request] /\ DOMAIN tasks \subseteq 1..Len(batch)
  /\ IsFiniteSet(DOMAIN tasks) /\ Cardinality(DOMAIN tasks) <= Concurrency
  /\ pc # "azure" => rest = <<>> /\ DOMAIN tasks = {}

(* What sherpa's batch still waits for is in the shards of this render.    *)
Sharded ==
  pc = "sherpa" =>
    /\ \A w \in 1..Workers : \A j \in 1..Len(shards[renders][w]) :
         OwnRequest(shards[renders][w][j], Len(batch))
    /\ \A k \in 1..Len(batch) : batch[k].state # "ok" =>
         \E w \in 1..Workers : \E j \in 1..Len(shards[renders][w]) : shards[renders][w][j].pos = k

(* A model a worker is about to load was found whole, and what was found is *)
(* there unless it was taken away since.                                   *)
FoundWhole ==
  /\ \A w \in 1..Workers : loading[w] # Unloaded =>
       /\ loading[w].model \in Models /\ Enough(loading[w].model, loading[w].given)
       /\ snatched \/ loading[w].given \subseteq disk[loading[w].model]
  /\ AbortsOnlyWhenSnatched

(* A batch is of the first group's requests, and a result says its own.    *)
Asked ==
  pc \in Batching =>
    /\ groups # <<>> /\ Head(groups) = pc /\ Len(batch) = Len(Positions(pc))
    /\ \A k \in 1..Len(batch) : batch[k].state = "ok" => batch[k].pcm.says = Says(Seg(pc, k))

(* A segment's sound is there, or its group is to come.                    *)
Gathered ==
  pc \in Rendering =>
    \A i \in 1..Len(segs) :
      \/ \E g \in 1..Len(groups) : groups[g] = segs[i].voice.backend
      \/ out[i].says = Says(segs[i])

(* What is rendered, and what is stored, is the prose.                     *)
IsTheProse ==
  /\ rows # <<>> => SayAll(rows) = SayAll(turns)
  /\ pc # "idle" => SayAll(segs) = SayAll(turns)

(* What is published is what was rendered.                                 *)
AsRendered ==
  pc = "published" =>
    Len(stream) = Len(segs) /\ \A i \in 1..Len(segs) : stream[i].says = Says(segs[i])

Bytes == [j \in DOMAIN stream |-> stream[j].bytes]

(* The manifest's times are the stream's offsets.                          *)
Addressed ==
  /\ Len(manifest) = Len(stream)
  /\ \A i \in 1..Len(stream) :
       /\ manifest[i].start * BytesPerMs = Total(Before(Bytes, i))
       /\ manifest[i].end * BytesPerMs = manifest[i].start * BytesPerMs + stream[i].bytes

IInv ==
  /\ Typed /\ InTheAir /\ Sharded /\ Asked /\ Gathered /\ IsTheProse /\ AsRendered /\ Addressed
  /\ FoundWhole

-----------------------------------------------------------------------------
(* Turns are segments.                                                      *)
LEMMA ChaptersAre == Chapters \subseteq Seq(Segment)
BY ChaptersAssumption DEF Segment, Text

(* What is silent is sound that says nothing.                              *)
LEMMA SilenceIs ==
  /\ Silence \in Sound /\ Silence.says = <<>>
  /\ None \in Outcome /\ None.state = "none" /\ Err \in Outcome /\ Err.state = "err"
  /\ Ok(Silence) \in Outcome /\ Ok(Silence).state = "ok" /\ Ok(Silence).pcm = Silence
<1>1. <<>> \in Seq(Spoken)
  BY EmptySeq
<1>2. Silence \in Sound /\ Silence.says = <<>>
  BY <1>1 DEF Silence, Sound
<1> QED
  BY <1>2 DEF None, Err, Ok, Outcome

(* A blank segment says nothing.                                            *)
LEMMA BlankSays ==
  ASSUME NEW s \in Segment, s.text = <<>>
  PROVE  Says(s) = <<>>
<1>1. s.voice \in Voices /\ <<>> \in Text /\ Len(<<>>) = 0
  BY EmptySeq DEF Segment, Text
<1>2. Said(<<>>, s.voice) \in Seq(Spoken) /\ Len(Said(<<>>, s.voice)) = 0
  BY <1>1, SaidIs
<1> QED
  BY <1>2, EmptySeq DEF Says

(* A text that is voiced for a request says the request's segment.         *)
LEMMA VoicedIs ==
  ASSUME NEW b, segs \in Seq(Segment), NEW k \in 1..Len(Positions(b)), NEW text,
         text = Seg(b, k).text, NEW n \in Lengths
  PROVE  /\ Voiced(b, k, text, n) \in Outcome /\ Voiced(b, k, text, n).state = "ok"
         /\ Voiced(b, k, text, n).pcm.says = Says(Seg(b, k))
<1>1. Seg(b, k).voice \in Voices /\ Seg(b, k).text \in Text
  BY SegIs
<1>2. n \in Nat /\ Padded(n) \in Nat
  BY SizesAssumption, PaddedIs
<1>3. Said(text, Seg(b, k).voice) \in Seq(Spoken)
  BY <1>1, SaidIs
<1> DEFINE p == [bytes |-> Padded(n), says |-> Said(text, Seg(b, k).voice)]
<1>4. p \in Sound /\ p.says = Says(Seg(b, k))
  BY <1>2, <1>3 DEF Sound, Says
<1>5. Voiced(b, k, text, n) = Ok(p)
  BY DEF Voiced
<1> HIDE DEF p
<1> QED
  BY <1>4, <1>5 DEF Ok, Outcome

(* A new batch has no outcomes.                                             *)
LEMMA BatchBegun ==
  ASSUME NEW b, segs \in Seq(Segment), BatchBegins(b)
  PROVE  /\ batch' \in Seq(Outcome) /\ Len(batch') = Len(Positions(b))
         /\ DOMAIN batch' = 1..Len(Positions(b))
         /\ \A k \in 1..Len(batch') : batch'[k].state = "none"
         /\ groups # <<>> /\ Head(groups) = b /\ pc = "registry"
<1> DEFINE p == Positions(b)
<1>1. Len(p) \in Nat /\ DOMAIN p = 1..Len(p)
  BY PositionsAre, LenProperties
<1>2. batch' = [k \in DOMAIN p |-> None]
  BY DEF BatchBegins
<1> HIDE DEF p
<1>3. batch' \in [1..Len(p) -> Outcome] /\ \A k \in 1..Len(p) : batch'[k] = None
  BY <1>1, <1>2, SilenceIs
<1>4. batch' \in Seq(Outcome) /\ Len(batch') = Len(p) /\ DOMAIN batch' = 1..Len(p)
  BY <1>1, <1>3, FunctionSeq
<1>5. groups # <<>> /\ Head(groups) = b /\ pc = "registry"
  BY DEF BatchBegins
<1> QED
  BY <1>3, <1>4, <1>5, SilenceIs DEF p

(* A batch that ends gives its group's segments their sound, each its own. *)
LEMMA BatchEnded ==
  ASSUME IInv, NEW b, b = pc, pc \in Batching, BatchEnds(b),
         \A k \in 1..Len(batch) : batch[k].state = "ok"
  PROVE  /\ out' \in Seq(Sound) /\ Len(out') = Len(segs') /\ Gathered'
         /\ groups' \in Seq(Backends \cup {"gone"})
<1>0. /\ segs \in Seq(Segment) /\ out \in Seq(Sound) /\ Len(out) = Len(segs)
      /\ batch \in Seq(Outcome) /\ groups \in Seq(Backends \cup {"gone"})
  BY DEF IInv, Typed
<1>1. /\ Len(segs) \in Nat /\ DOMAIN out = 1..Len(segs) /\ Len(batch) \in Nat
      /\ DOMAIN batch = 1..Len(batch)
  BY <1>0, LenProperties
<1>2. /\ groups # <<>> /\ Head(groups) = b /\ Len(batch) = Len(Positions(b))
      /\ \A k \in 1..Len(batch) : batch[k].pcm.says = Says(Seg(b, k))
  BY DEF IInv, Asked
<1>3. \A k \in 1..Len(batch) : batch[k].pcm \in Sound
  <2> SUFFICES ASSUME NEW k \in 1..Len(batch) PROVE batch[k].pcm \in Sound
    OBVIOUS
  <2>1. batch[k] \in Outcome
    BY <1>0, ElementOfSeq
  <2> QED
    BY <2>1 DEF Outcome
<1>4. DOMAIN SoFar = 1..Len(batch) /\ \A k \in 1..Len(batch) : SoFar[k] = batch[k].pcm
  BY <1>1 DEF SoFar
<1>5. ASSUME NEW i \in 1..Len(segs)
      PROVE  /\ Restored(b)[i] \in Sound
             /\ segs[i].voice.backend = b => Restored(b)[i].says = Says(segs[i])
             /\ segs[i].voice.backend # b => Restored(b)[i] = out[i]
  <2>1. CASE segs[i].voice.backend # b
    <3>1. Restored(b)[i] = out[i] /\ out[i] \in Sound
      BY <1>0, <1>1, <2>1, ElementOfSeq DEF Restored
    <3> QED
      BY <2>1, <3>1
  <2>2. CASE segs[i].voice.backend = b
    <3> DEFINE k == CHOOSE j \in DOMAIN SoFar : Positions(b)[j] = i
    <3>1. \E j \in DOMAIN SoFar : Positions(b)[j] = i
      <4>1. \E j \in 1..Len(Positions(b)) : Positions(b)[j] = i
        BY <1>0, <2>2, PositionsAre
      <4> QED
        BY <1>2, <1>4, <4>1
    <3>2. k \in DOMAIN SoFar /\ Positions(b)[k] = i
      BY <3>1
    <3>3. Restored(b)[i] = SoFar[k]
      BY <1>1, <2>2 DEF Restored
    <3> HIDE DEF k
    <3>4. k \in 1..Len(batch) /\ Seg(b, k) = segs[i]
      BY <1>4, <3>2 DEF Seg
    <3> QED
      BY <1>2, <1>3, <1>4, <2>2, <3>3, <3>4
  <2> QED
    BY <2>1, <2>2
<1> DEFINE r == Restored(b)
<1>6. out' = r /\ segs' = segs /\ groups' = Tail(groups) /\ pc' = "registry"
  BY DEF BatchEnds
<1>7. DOMAIN r = 1..Len(segs) /\ r = [i \in 1..Len(segs) |-> r[i]]
  BY <1>1 DEF Restored
<1> HIDE DEF r
<1>8. r \in [1..Len(segs) -> Sound]
  BY <1>5, <1>7 DEF r
<1>9. out' \in Seq(Sound) /\ Len(out') = Len(segs')
  BY <1>1, <1>6, <1>8, FunctionSeq
<1>10. /\ groups' \in Seq(Backends \cup {"gone"}) /\ Len(groups) \in Nat /\ Len(groups) # 0
       /\ Len(groups') = Len(groups) - 1 /\ groups[1] = b
       /\ \A g \in 1..Len(groups') : groups'[g] = groups[g + 1]
  BY <1>0, <1>2, <1>6, HeadTailProperties, LenProperties, EmptySeq
<1>11. ASSUME NEW i \in 1..Len(segs), segs[i].voice.backend # b,
              ~\E g \in 1..Len(groups') : groups'[g] = segs[i].voice.backend
       PROVE  r[i].says = Says(segs[i])
  <2>1. ~\E g \in 1..Len(groups) : groups[g] = segs[i].voice.backend
    <3> SUFFICES ASSUME NEW g \in 1..Len(groups), groups[g] = segs[i].voice.backend PROVE FALSE
      OBVIOUS
    <3>1. g # 1
      BY <1>10, <1>11
    <3>2. PICK h \in 1..Len(groups') : h = g - 1
      BY <1>10, <3>1
    <3>3. groups'[h] = groups[g]
      <4>1. h + 1 = g
        BY <3>2
      <4> QED
        BY <1>10, <4>1
    <3> QED
      BY <1>11, <3>3
  <2>2. out[i].says = Says(segs[i])
    BY <2>1 DEF IInv, Gathered, Batching, Rendering
  <2> QED
    BY <1>5, <1>11, <2>2 DEF r
<1>12. \A i \in 1..Len(segs) :
         \/ \E g \in 1..Len(groups') : groups'[g] = segs[i].voice.backend
         \/ r[i].says = Says(segs[i])
  BY <1>5, <1>11 DEF r
<1>13. Gathered'
  BY <1>6, <1>12 DEF Gathered
<1> QED
  BY <1>9, <1>10, <1>13

(* What an action leaves alone.                                             *)
LEMMA AddressedKept ==
  ASSUME Addressed, UNCHANGED artVars
  PROVE  Addressed'
BY DEF Addressed, Bytes, artVars

(* What was found is still there.                                          *)
LEMMA FoundKept ==
  ASSUME FoundWhole, UNCHANGED <<loading, aborted, disk, snatched>>
  PROVE  FoundWhole'
BY DEF FoundWhole, AbortsOnlyWhenSnatched

(* A batch's outcomes are still its own.                                   *)
LEMMA AskedKept ==
  ASSUME Asked, UNCHANGED <<segs, groups, pc, batch>>
  PROVE  Asked'
BY DEF Asked, Positions, Seg

(* A batch's shards still hold what it waits for.                          *)
LEMMA ShardedKept ==
  ASSUME Sharded, UNCHANGED <<segs, pc, batch, renders>>,
         pc = "sherpa" => shards'[renders] = shards[renders]
  PROVE  Sharded'
<1>1. Positions("sherpa")' = Positions("sherpa")
  BY DEF Positions
<1>2. ASSUME pc' = "sherpa", NEW w \in 1..Workers, NEW j \in 1..Len(shards'[renders'][w])
      PROVE  OwnRequest(shards[renders][w][j], Len(batch))'
  <2>1. pc = "sherpa" /\ shards'[renders'] = shards[renders] /\ Len(batch') = Len(batch)
    BY <1>2
  <2>2. OwnRequest(shards[renders][w][j], Len(batch))
    BY <1>2, <2>1 DEF Sharded
  <2> QED
    BY <1>1, <2>1, <2>2 DEF OwnRequest, Seg
<1>3. ASSUME pc' = "sherpa", NEW k \in 1..Len(batch'), batch'[k].state # "ok"
      PROVE  \E w \in 1..Workers : \E j \in 1..Len(shards'[renders'][w]) :
               shards'[renders'][w][j].pos = k
  <2>1. pc = "sherpa" /\ shards'[renders'] = shards[renders] /\ batch' = batch
    BY <1>3
  <2> QED
    BY <1>3, <2>1 DEF Sharded
<1> QED
  BY <1>2, <1>3 DEF Sharded

(* And while the batch is made, whatever its outcomes.                     *)
LEMMA AskedGoesOn ==
  ASSUME Asked, pc \in Batching, UNCHANGED <<segs, groups, pc>>, Len(batch') = Len(batch),
         \A k \in 1..Len(batch) : batch'[k].state = "ok" => batch'[k].pcm.says = Says(Seg(pc, k))
  PROVE  Asked'
BY DEF Asked, Positions, Seg

(* The plan stays what it was while the chapter is rendered.               *)
LEMMA ProseKept ==
  ASSUME IsTheProse, UNCHANGED <<turns, rows, segs>>, pc # "idle"
  PROVE  IsTheProse'
BY DEF IsTheProse

(* So does what was gathered.                                              *)
LEMMA GatheredKept ==
  ASSUME Gathered, UNCHANGED <<segs, groups, out>>, pc' \in Rendering => pc \in Rendering
  PROVE  Gathered'
BY DEF Gathered

-----------------------------------------------------------------------------
(* The invariant holds at first, and each action keeps it.                 *)
LEMMA InitIInv == Init => IInv
<1> SUFFICES ASSUME Init PROVE IInv
  OBVIOUS
<1>1. /\ turns \in Chapters /\ rows = <<>> /\ segs = <<>> /\ pc = "idle" /\ groups = <<>>
      /\ batch = <<>> /\ rest = <<>> /\ tasks = <<>> /\ out = <<>>
      /\ shards = [r \in 1..MaxRenders |-> [w \in 1..Workers |-> <<>>]]
      /\ holder = [w \in 1..Workers |-> 0] /\ loading = [w \in 1..Workers |-> Unloaded]
      /\ manifest = <<>> /\ stream = <<>>
      /\ disk \in [Models -> SUBSET Files] /\ loaded = [w \in 1..Workers |-> {}]
      /\ aborted = FALSE /\ renders = 0 /\ changes = 0 /\ cause = "none"
  BY DEF Init
<1>2. Typed
  <2>1. Unloaded \in [model : Models \cup {NoModel}, given : SUBSET Files] /\ 0 \in 0..MaxRenders
    BY BoundsAssumption DEF Unloaded
  <2>2. /\ shards \in [1..MaxRenders -> [1..Workers -> Seq(Task)]]
        /\ holder \in [1..Workers -> 0..MaxRenders]
        /\ loading \in [1..Workers -> [model : Models \cup {NoModel}, given : SUBSET Files]]
    BY <1>1, <2>1, EmptySeq
  <2> QED
    BY <1>1, <2>2, BoundsAssumption, EmptySeq DEF Typed, Rendering
<1>3. InTheAir
  <2>1. DOMAIN tasks = {} /\ tasks \in [DOMAIN tasks -> Request]
    BY <1>1
  <2>2. IsFiniteSet({}) /\ Cardinality({}) = 0
    BY FS_EmptySet
  <2> QED
    BY <1>1, <2>1, <2>2, SizesAssumption, EmptySeq DEF InTheAir
<1>4. Sharded
  BY <1>1 DEF Sharded
<1>5. Asked /\ Gathered /\ IsTheProse /\ AsRendered /\ FoundWhole
  BY <1>1 DEF Asked, Gathered, IsTheProse, AsRendered, FoundWhole, AbortsOnlyWhenSnatched,
              Batching, Rendering
<1>6. Addressed
  BY <1>1, EmptySeq DEF Addressed
<1> QED
  BY <1>2, <1>3, <1>4, <1>5, <1>6 DEF IInv

(* A chapter is planned: its prose, or its stored segments, split or not.  *)
LEMMA StartKeeps ==
  ASSUME IInv, NEW azure \in BOOLEAN, NEW bySentence \in BOOLEAN, Start(azure, bySentence)
  PROVE  IInv'
<1> DEFINE planned == IF rows = <<>> THEN turns ELSE rows
           plan == IF bySentence THEN SplitBySentence(planned) ELSE planned
<1>1. /\ turns \in Seq(Segment) /\ rows \in Seq(Segment) /\ planned \in Seq(Segment)
      /\ SayAll(planned) = SayAll(turns)
  BY ChaptersAre DEF IInv, Typed, IsTheProse
<1>2. plan \in Seq(Segment) /\ SayAll(plan) = SayAll(turns)
  <2>1. Settled \subseteq Segment
    BY DEF Settled
  <2> HIDE DEF planned
  <2>2. SplitBySentence(planned) \in Seq(Settled) /\ SayAll(SplitBySentence(planned)) = SayAll(turns)
    BY <1>1, SplitChapter
  <2>3. SplitBySentence(planned) \in Seq(Segment)
    BY <2>1, <2>2, SeqMonotonic
  <2> QED
    BY <1>1, <2>2, <2>3
<1>3. segs' = plan /\ groups' = GroupsOf(plan) /\ out' = [i \in DOMAIN plan |-> Silence]
  BY DEF Start
<1>4. pc' \in {"failed", "registry"} /\ cause' \in {"refused", "none"} /\ pc \notin Batching
      /\ renders' = renders + 1 /\ renders < MaxRenders
  BY DEF Start, Fail, Batching
<1>5. UNCHANGED <<turns, rows, batch, artVars, diskVars, azureVars, sherpaVars>>
  BY DEF Start
<1> HIDE DEF plan, planned
<1>6. Len(plan) \in Nat /\ DOMAIN plan = 1..Len(plan)
  BY <1>2, LenProperties
<1>7. out' \in Seq(Sound) /\ Len(out') = Len(segs')
  <2>1. out' \in [1..Len(plan) -> Sound]
    BY <1>3, <1>6, SilenceIs
  <2> QED
    BY <1>3, <1>6, <2>1, FunctionSeq
<1>8. /\ groups' \in Seq(Backends \cup {"gone"})
      /\ \A i \in 1..Len(plan) : \E k \in 1..Len(groups') : groups'[k] = plan[i].voice.backend
  BY <1>2, <1>3, GroupsAre
<1>9. Typed'
  <2>1. renders' \in 0..MaxRenders /\ renders' \in 1..MaxRenders
    BY <1>4, BoundsAssumption DEF IInv, Typed
  <2> QED
    BY <1>2, <1>3, <1>4, <1>5, <1>7, <1>8, <2>1
    DEF IInv, Typed, Rendering, artVars, diskVars, sherpaVars
<1>10. InTheAir'
  BY <1>4, <1>5 DEF IInv, InTheAir, azureVars, Batching
<1>11. Sharded'
  BY <1>4 DEF Sharded
<1>12. Asked' /\ AsRendered'
  BY <1>4 DEF Asked, AsRendered, Batching
<1>13. Gathered'
  BY <1>3, <1>8 DEF Gathered
<1>14. IsTheProse'
  BY <1>2, <1>3, <1>5 DEF IInv, IsTheProse
<1>15. Addressed' /\ FoundWhole'
  BY <1>5, AddressedKept, FoundKept DEF IInv, diskVars, sherpaVars
<1> QED
  BY <1>9, <1>10, <1>11, <1>12, <1>13, <1>14, <1>15 DEF IInv

(* Azure's batch begins.                                                    *)
LEMMA AzureBeginsKeeps ==
  ASSUME IInv, AzureBegins
  PROVE  IInv'
<1>1. segs \in Seq(Segment)
  BY DEF IInv, Typed
<1>2. /\ batch' \in Seq(Outcome) /\ Len(batch') = Len(Positions("azure"))
      /\ DOMAIN batch' = 1..Len(Positions("azure"))
      /\ \A k \in 1..Len(batch') : batch'[k].state = "none"
      /\ groups # <<>> /\ Head(groups) = "azure" /\ pc = "registry"
  <2>1. BatchBegins("azure")
    BY DEF AzureBegins
  <2> QED
    BY <1>1, <2>1, BatchBegun
<1>3. /\ pc' = "azure" /\ rest' = [k \in DOMAIN batch' |-> k] /\ tasks' = <<>>
      /\ UNCHANGED <<planVars, artVars, diskVars, sherpaVars, renders, cause>>
  BY DEF AzureBegins
<1>4. Len(Positions("azure")) \in Nat /\ Len(batch') \in Nat
  BY <1>1, <1>2, PositionsAre
<1>5. Typed'
  BY <1>2, <1>3 DEF IInv, Typed, Rendering, planVars, artVars, diskVars, sherpaVars
<1>6. InTheAir'
  <2>1. rest' \in [1..Len(batch') -> 1..Len(batch')]
    BY <1>2, <1>3
  <2>2. rest' \in Seq(1..Len(batch'))
    BY <1>4, <2>1, FunctionSeq
  <2>3. DOMAIN tasks' = {} /\ tasks' \in [DOMAIN tasks' -> Request]
    BY <1>3
  <2>4. IsFiniteSet({}) /\ Cardinality({}) = 0
    BY FS_EmptySet
  <2> QED
    BY <1>3, <2>2, <2>3, <2>4, SizesAssumption DEF InTheAir
<1>7. Sharded'
  BY <1>3 DEF Sharded
<1>8. Asked'
  BY <1>2, <1>3 DEF Asked, planVars, Positions
<1>9. Gathered' /\ IsTheProse'
  BY <1>2, <1>3, GatheredKept, ProseKept DEF IInv, planVars, Rendering
<1>10. AsRendered' /\ Addressed' /\ FoundWhole'
  BY <1>3, AddressedKept, FoundKept DEF IInv, AsRendered, diskVars, sherpaVars
<1> QED
  BY <1>5, <1>6, <1>7, <1>8, <1>9, <1>10 DEF IInv

(* What holds of every step of Azure's batch before its last.              *)
LEMMA AzureGoesOn ==
  ASSUME IInv, pc = "azure", InTheAir',
         UNCHANGED <<planVars, pc, artVars, diskVars, sherpaVars, renders, cause>>,
         batch' \in Seq(Outcome), Len(batch') = Len(batch),
         \A k \in 1..Len(batch) :
           batch'[k].state = "ok" => batch'[k].pcm.says = Says(Seg("azure", k))
  PROVE  IInv'
<1>1. Typed'
  BY DEF IInv, Typed, planVars, artVars, diskVars, sherpaVars
<1>2. Sharded'
  BY DEF Sharded
<1>3. Asked'
  BY AskedGoesOn DEF IInv, planVars, Batching
<1>4. Gathered' /\ IsTheProse'
  BY GatheredKept, ProseKept DEF IInv, planVars
<1>5. AsRendered' /\ Addressed' /\ FoundWhole'
  BY AddressedKept, FoundKept DEF IInv, AsRendered, diskVars, sherpaVars
<1> QED
  BY <1>1, <1>2, <1>3, <1>4, <1>5 DEF IInv

(* Such a step that leaves the outcomes alone.                             *)
LEMMA AzureKeepsBatch ==
  ASSUME IInv, pc = "azure", InTheAir', AzureKeeps, UNCHANGED batch
  PROVE  IInv'
<1>1. batch \in Seq(Outcome)
      /\ \A k \in 1..Len(batch) : batch[k].state = "ok" => batch[k].pcm.says = Says(Seg("azure", k))
  BY DEF IInv, Typed, Asked, Batching
<1>2. /\ batch' \in Seq(Outcome) /\ Len(batch') = Len(batch)
      /\ \A k \in 1..Len(batch) :
           batch'[k].state = "ok" => batch'[k].pcm.says = Says(Seg("azure", k))
  BY <1>1
<1>3. UNCHANGED <<planVars, pc, artVars, diskVars, sherpaVars, renders, cause>>
  BY DEF AzureKeeps
<1> QED
  BY <1>2, <1>3, AzureGoesOn

(* The next chunk is asked for.                                             *)
LEMMA NextChunkKeeps ==
  ASSUME IInv, NextChunk
  PROVE  IInv'
<1> DEFINE size == IF Len(rest) < Concurrency THEN Len(rest) ELSE Concurrency
           chunk == {rest[k] : k \in 1..size}
           bad == {k \in chunk : ~Seg("azure", k).voice.sound}
           blank == {k \in chunk \ bad : Seg("azure", k).text = <<>>}
           asked == chunk \ (bad \cup blank)
<1>1. /\ pc = "azure" /\ rest' = SubSeq(rest, size + 1, Len(rest))
      /\ tasks' = [k \in asked |-> [part |-> 1, attempt |-> 1]]
      /\ batch' = [k \in DOMAIN batch |-> IF k \in bad THEN Err
                                          ELSE IF k \in blank THEN Ok(Silence) ELSE batch[k]]
      /\ UNCHANGED <<planVars, pc, artVars, diskVars, sherpaVars, renders, cause>>
  BY DEF NextChunk
<1>2. /\ rest \in Seq(1..Len(batch)) /\ batch \in Seq(Outcome) /\ segs \in Seq(Segment)
      /\ Len(batch) = Len(Positions("azure"))
      /\ \A k \in 1..Len(batch) : batch[k].state = "ok" => batch[k].pcm.says = Says(Seg("azure", k))
  BY <1>1 DEF IInv, Typed, InTheAir, Asked, Batching
<1>3. /\ Len(rest) \in Nat /\ size \in Nat /\ size <= Len(rest) /\ size <= Concurrency
      /\ \A k \in 1..Len(rest) : rest[k] \in 1..Len(batch)
  BY <1>2, SizesAssumption, LenProperties, ElementOfSeq
<1>4. Len(batch) \in Nat /\ DOMAIN batch = 1..Len(batch)
      /\ \A k \in 1..Len(batch) : batch[k] \in Outcome
  BY <1>2, LenProperties, ElementOfSeq
<1> HIDE DEF size
<1>5. chunk \subseteq 1..Len(batch) /\ asked \subseteq 1..Len(batch)
  BY <1>3
<1>6. IsFiniteSet(asked) /\ Cardinality(asked) <= Concurrency
  <2>1. IsFiniteSet(1..size) /\ Cardinality(1..size) = size
    BY <1>3, FS_Interval
  <2> DEFINE f == [k \in 1..size |-> rest[k]]
  <2>2. f \in Surjection(1..size, chunk)
    BY DEF Surjection
  <2>3. IsFiniteSet(chunk) /\ Cardinality(chunk) <= size
    <3> HIDE DEF f, chunk
    <3> QED
      BY <2>1, <2>2, FS_Surjection
  <2>4. asked \subseteq chunk
    OBVIOUS
  <2> HIDE DEF asked, chunk
  <2>5. IsFiniteSet(asked) /\ Cardinality(asked) <= Cardinality(chunk)
    BY <2>3, <2>4, FS_Subset
  <2>6. Cardinality(asked) \in Nat /\ Cardinality(chunk) \in Nat
    BY <2>3, <2>5, FS_CardinalityType
  <2> QED
    BY <1>3, <2>3, <2>5, <2>6, SizesAssumption
<1>7. /\ batch' \in Seq(Outcome) /\ Len(batch') = Len(batch)
      /\ \A k \in 1..Len(batch) :
           batch'[k].state = "ok" => batch'[k].pcm.says = Says(Seg("azure", k))
  <2> HIDE DEF bad, asked, chunk
  <2>1. \A k \in blank : k \in chunk /\ Seg("azure", k).text = <<>>
    BY DEF blank
  <2> HIDE DEF blank
  <2>2. batch' \in [1..Len(batch) -> Outcome]
    BY <1>1, <1>4, SilenceIs
  <2>3. batch' \in Seq(Outcome) /\ Len(batch') = Len(batch)
    BY <1>4, <2>2, FunctionSeq
  <2>4. ASSUME NEW k \in 1..Len(batch), batch'[k].state = "ok"
        PROVE  batch'[k].pcm.says = Says(Seg("azure", k))
    <3>1. batch'[k] = IF k \in bad THEN Err ELSE IF k \in blank THEN Ok(Silence) ELSE batch[k]
      BY <1>1, <1>4
    <3>2. CASE k \in bad
      BY <2>4, <3>1, <3>2, SilenceIs
    <3>3. CASE k \notin bad /\ k \in blank
      <4>1. Seg("azure", k) \in Segment /\ Seg("azure", k).text = <<>>
        BY <1>2, <2>1, <3>3, SegIs
      <4> QED
        BY <3>1, <3>3, <4>1, BlankSays, SilenceIs
    <3>4. CASE k \notin bad /\ k \notin blank
      BY <1>2, <2>4, <3>1, <3>4
    <3> QED
      BY <3>2, <3>3, <3>4
  <2> QED
    BY <2>3, <2>4
<1>8. InTheAir'
  <2>1. rest' \in Seq(1..Len(batch))
    <3>1. \A i \in (size + 1)..Len(rest) : rest[i] \in 1..Len(batch)
      BY <1>3
    <3>2. SubSeq(rest, size + 1, Len(rest)) \in Seq(1..Len(batch))
      BY <1>3, <3>1, SubSeqProperties
    <3> QED
      BY <1>1, <3>2
  <2> HIDE DEF asked
  <2>2. DOMAIN tasks' = asked
    BY <1>1
  <2>3. tasks' \in [asked -> Request]
    BY <1>1, SizesAssumption DEF Request
  <2> QED
    BY <1>1, <1>5, <1>6, <1>7, <2>1, <2>2, <2>3 DEF InTheAir
<1> QED
  BY <1>1, <1>7, <1>8, AzureGoesOn

(* Requests in flight go on.                                                *)
LEMMA TaskGoesOn ==
  ASSUME IInv, NEW k, InFlight(k), NEW r \in Request, tasks' = [tasks EXCEPT ![k] = r],
         AzureKeeps, UNCHANGED batch
  PROVE  IInv'
<1>1. tasks' \in [DOMAIN tasks -> Request] /\ DOMAIN tasks' = DOMAIN tasks
  BY DEF IInv, InTheAir, InFlight
<1>2. InTheAir'
  BY <1>1 DEF IInv, InTheAir, InFlight, AzureKeeps
<1> QED
  BY <1>2, AzureKeepsBatch DEF InFlight

(* A part is answered.                                                     *)
LEMMA PartAnsweredKeeps ==
  ASSUME IInv, NEW k \in DOMAIN tasks, PartAnswered(k)
  PROVE  IInv'
<1>1. tasks \in [DOMAIN tasks -> Request] /\ tasks[k] \in Request
  BY DEF IInv, InTheAir
<1> DEFINE r == [part |-> tasks[k].part + 1, attempt |-> 1]
<1>2. r \in Request
  BY <1>1, SizesAssumption DEF Request
<1>3. tasks' = [tasks EXCEPT ![k] = r] /\ InFlight(k) /\ AzureKeeps /\ UNCHANGED batch
  BY DEF PartAnswered
<1> HIDE DEF r
<1> QED
  BY <1>2, <1>3, TaskGoesOn

(* A part is asked for again.                                              *)
LEMMA PartRetriedKeeps ==
  ASSUME IInv, NEW k \in DOMAIN tasks, PartRetried(k)
  PROVE  IInv'
<1>1. tasks \in [DOMAIN tasks -> Request] /\ tasks[k] \in Request
  BY DEF IInv, InTheAir
<1> DEFINE r == [tasks[k] EXCEPT !.attempt = @ + 1]
<1>2. r \in Request
  <2>1. tasks[k].attempt \in 1..MaxAttempts /\ tasks[k].attempt < MaxAttempts
    BY <1>1 DEF Request, PartRetried, MayRetry
  <2>2. tasks[k].attempt + 1 \in 1..MaxAttempts
    BY <2>1, SizesAssumption
  <2> QED
    BY <1>1, <2>2 DEF Request
<1>3. tasks' = [tasks EXCEPT ![k] = r] /\ InFlight(k) /\ AzureKeeps /\ UNCHANGED batch
  BY <1>1 DEF PartRetried
<1> HIDE DEF r
<1> QED
  BY <1>2, <1>3, TaskGoesOn

(* A request ends with an outcome for one of the batch's slots.            *)
LEMMA TaskEndsKeeps ==
  ASSUME IInv, NEW k, TaskEnds(k), NEW j \in 1..Len(batch), NEW o \in Outcome,
         o.state = "ok" => o.pcm.says = Says(Seg("azure", j)),
         batch' = [batch EXCEPT ![j] = o] \/ UNCHANGED batch
  PROVE  IInv'
<1>1. /\ pc = "azure" /\ k \in DOMAIN tasks
      /\ tasks' = [i \in DOMAIN tasks \ {k} |-> tasks[i]]
      /\ UNCHANGED <<planVars, pc, rest, artVars, diskVars, sherpaVars, renders, cause>>
  BY DEF TaskEnds, InFlight, AzureKeeps
<1>2. /\ batch \in Seq(Outcome) /\ Len(batch) \in Nat
      /\ \A i \in 1..Len(batch) : batch[i].state = "ok" => batch[i].pcm.says = Says(Seg("azure", i))
  BY <1>1, LenProperties DEF IInv, Typed, Asked, Batching
<1>3. /\ batch' \in Seq(Outcome) /\ Len(batch') = Len(batch)
      /\ \A i \in 1..Len(batch) : (batch'[i] = o /\ i = j) \/ batch'[i] = batch[i]
  <2>1. CASE UNCHANGED batch
    BY <1>2, <2>1
  <2>2. CASE batch' = [batch EXCEPT ![j] = o]
    <3> DEFINE b == [batch EXCEPT ![j] = o]
    <3>1. /\ b \in Seq(Outcome) /\ Len(b) = Len(batch)
          /\ \A i \in 1..Len(batch) : b[i] = IF i = j THEN o ELSE batch[i]
      BY <1>2, ExceptSeq
    <3>2. batch' = b
      BY <2>2
    <3> HIDE DEF b
    <3> QED
      BY <3>1, <3>2
  <2> QED
    BY <2>1, <2>2
<1>4. \A i \in 1..Len(batch) : batch'[i].state = "ok" => batch'[i].pcm.says = Says(Seg("azure", i))
  BY <1>2, <1>3
<1>5. InTheAir'
  <2> DEFINE left == DOMAIN tasks \ {k}
  <2>1. /\ IsFiniteSet(DOMAIN tasks) /\ Cardinality(DOMAIN tasks) <= Concurrency
        /\ DOMAIN tasks \subseteq 1..Len(batch) /\ tasks \in [DOMAIN tasks -> Request]
        /\ rest \in Seq(1..Len(batch))
    BY DEF IInv, InTheAir
  <2>2. DOMAIN tasks' = left /\ tasks' \in [left -> Request] /\ left \subseteq 1..Len(batch)
    BY <1>1, <2>1
  <2>3. left \in SUBSET DOMAIN tasks
    OBVIOUS
  <2> HIDE DEF left
  <2>4. IsFiniteSet(left) /\ Cardinality(left) <= Cardinality(DOMAIN tasks)
    BY <2>1, <2>3, FS_Subset
  <2>5. Cardinality(left) \in Nat /\ Cardinality(DOMAIN tasks) \in Nat
    BY <2>1, <2>4, FS_CardinalityType
  <2>6. Cardinality(left) <= Concurrency
    BY <2>1, <2>4, <2>5, SizesAssumption
  <2>7. IsFiniteSet(DOMAIN tasks') /\ Cardinality(DOMAIN tasks') <= Concurrency
    BY <2>2, <2>4, <2>6
  <2>8. rest' \in Seq(1..Len(batch')) /\ tasks' \in [DOMAIN tasks' -> Request]
    BY <1>1, <1>3, <2>1, <2>2
  <2>9. DOMAIN tasks' \subseteq 1..Len(batch')
    BY <1>3, <2>2
  <2>10. pc' = "azure"
    BY <1>1
  <2> QED
    BY <2>7, <2>8, <2>9, <2>10 DEF InTheAir
<1> QED
  BY <1>1, <1>3, <1>4, <1>5, AzureGoesOn

(* A request in flight is one of the batch.                                *)
LEMMA InFlightIs ==
  ASSUME IInv, NEW k, InFlight(k)
  PROVE  k \in 1..Len(batch) /\ k \in 1..Len(Positions("azure")) /\ segs \in Seq(Segment)
BY DEF IInv, Typed, InTheAir, InFlight, Asked, Batching

(* A request's sound is its segment's: its parts are its text.             *)
LEMMA TaskVoicedKeeps ==
  ASSUME IInv, NEW k \in DOMAIN tasks, NEW n \in Lengths, TaskVoiced(k, n)
  PROVE  IInv'
<1>1. TaskEnds(k) /\ InFlight(k)
  BY DEF TaskVoiced, TaskEnds
<1>2. k \in 1..Len(batch) /\ k \in 1..Len(Positions("azure")) /\ segs \in Seq(Segment)
  BY <1>1, InFlightIs
<1> DEFINE o == Voiced("azure", k, FlattenSeq(Parts(k)), n)
<1>3. FlattenSeq(Parts(k)) = Seg("azure", k).text
  <2>1. Seg("azure", k).text \in Text
    BY <1>2, SegIs
  <2>2. MaxChars \in Nat
    BY SizesAssumption
  <2> QED
    BY <2>1, <2>2, SplitSays DEF Parts
<1>4. o \in Outcome /\ o.pcm.says = Says(Seg("azure", k))
  BY <1>2, <1>3, VoicedIs
<1>5. batch' = [batch EXCEPT ![k] = o]
  BY DEF TaskVoiced
<1> HIDE DEF o
<1> QED
  BY <1>1, <1>2, <1>4, <1>5, TaskEndsKeeps

(* A request fails.                                                        *)
LEMMA TaskFailsKeeps ==
  ASSUME IInv, NEW k \in DOMAIN tasks, TaskFails(k)
  PROVE  IInv'
<1>1. TaskEnds(k) /\ InFlight(k) /\ batch' = [batch EXCEPT ![k] = Err]
  BY DEF TaskFails, TaskEnds
<1>2. k \in 1..Len(batch) /\ Err \in Outcome /\ Err.state # "ok"
  BY <1>1, InFlightIs, SilenceIs
<1> QED
  BY <1>1, <1>2, TaskEndsKeeps

(* A task panics, and some slot without an outcome takes it.               *)
LEMMA TaskPanicsKeeps ==
  ASSUME IInv, NEW k \in DOMAIN tasks, TaskPanics(k)
  PROVE  IInv'
<1> DEFINE open == {j \in DOMAIN batch : batch[j].state = "none"}
           hit(j) == j \in open /\ \A i \in open : j <= i
<1>1. TaskEnds(k) /\ InFlight(k) /\ batch' = [j \in DOMAIN batch |-> IF hit(j) THEN Err ELSE batch[j]]
  BY DEF TaskPanics, TaskEnds
<1>2. k \in 1..Len(batch) /\ Err \in Outcome /\ Err.state # "ok"
  BY <1>1, InFlightIs, SilenceIs
<1>3. batch \in Seq(Outcome)
  BY DEF IInv, Typed
<1>4. DOMAIN batch = 1..Len(batch) /\ batch = [j \in DOMAIN batch |-> batch[j]]
  BY <1>3, LenProperties, SeqDef
<1>5. CASE ~\E j \in DOMAIN batch : hit(j)
  <2>1. batch' = [j \in DOMAIN batch |-> batch[j]]
    BY <1>1, <1>5
  <2>2. UNCHANGED batch
    BY <1>4, <2>1
  <2> QED
    BY <1>1, <1>2, <2>2, TaskEndsKeeps
<1>6. CASE \E j \in DOMAIN batch : hit(j)
  <2>1. PICK j \in DOMAIN batch : hit(j)
    BY <1>6
  <2>2. \A i \in DOMAIN batch : hit(i) <=> i = j
    BY <1>4, <2>1
  <2> HIDE DEF hit
  <2>3. batch' = [i \in DOMAIN batch |-> IF i = j THEN Err ELSE batch[i]]
    BY <1>1, <2>2
  <2>4. batch' = [batch EXCEPT ![j] = Err]
    BY <2>3
  <2>5. j \in 1..Len(batch)
    BY <1>4, <2>1
  <2> QED
    BY <1>1, <1>2, <2>4, <2>5, TaskEndsKeeps
<1> QED
  BY <1>5, <1>6

(* Threads, of this render or of one that failed, are what they were asked. *)
PoolTyped ==
  /\ shards \in [1..MaxRenders -> [1..Workers -> Seq(Task)]]
  /\ holder \in [1..Workers -> 0..MaxRenders]
  /\ loading \in [1..Workers -> [model : Models \cup {NoModel}, given : SUBSET Files]]
  /\ loaded \in [1..Workers -> SUBSET Models]

(* A render that fails leaves no request behind, though threads may run on. *)
LEMMA FailKeeps ==
  ASSUME IInv, pc \in Rendering, NEW why \in {"voice", "azure", "sherpa"}, Fail(why),
         UNCHANGED <<planVars, artVars, diskVars, rest, tasks, renders>>,
         rest = <<>>, DOMAIN tasks = {}, batch' \in Seq(Outcome), PoolTyped', FoundWhole'
  PROVE  IInv'
<1>1. pc' = "failed" /\ cause' = why /\ pc' \notin Rendering /\ pc' \notin Batching
  BY DEF Fail, Rendering, Batching
<1>2. Typed'
  BY <1>1 DEF IInv, Typed, PoolTyped, planVars, artVars, diskVars
<1>3. InTheAir'
  <2>1. IsFiniteSet({}) /\ Cardinality({}) = 0
    BY FS_EmptySet
  <2>2. rest' = <<>> /\ tasks' = tasks /\ DOMAIN tasks' = {} /\ tasks' \in [DOMAIN tasks' -> Request]
    BY DEF IInv, InTheAir
  <2> QED
    BY <1>1, <2>1, <2>2, SizesAssumption, EmptySeq DEF InTheAir
<1>4. Sharded' /\ Asked' /\ Gathered' /\ AsRendered'
  BY <1>1 DEF Sharded, Asked, Gathered, AsRendered, Rendering, Batching
<1>5. IsTheProse' /\ Addressed'
  BY AddressedKept, ProseKept DEF IInv, planVars, Rendering
<1> QED
  BY <1>2, <1>3, <1>4, <1>5 DEF IInv

(* A batch all of whose outcomes are there ends.                           *)
LEMMA BatchEndsKeeps ==
  ASSUME IInv, NEW b, b = pc, pc \in Batching, BatchEnds(b),
         \A k \in 1..Len(batch) : batch[k].state = "ok",
         UNCHANGED <<batch, artVars, diskVars, azureVars, sherpaVars, renders>>,
         rest = <<>>, DOMAIN tasks = {}
  PROVE  IInv'
<1>1. /\ out' \in Seq(Sound) /\ Len(out') = Len(segs') /\ Gathered'
      /\ groups' \in Seq(Backends \cup {"gone"})
  BY BatchEnded
<1>2. pc' = "registry" /\ UNCHANGED <<turns, rows, segs, cause>>
  BY DEF BatchEnds
<1>3. Typed'
  BY <1>1, <1>2 DEF IInv, Typed, Rendering, Batching, artVars, diskVars, sherpaVars
<1>4. InTheAir'
  BY <1>2 DEF IInv, InTheAir, azureVars
<1>5. Sharded'
  BY <1>2 DEF Sharded
<1>6. Asked' /\ AsRendered'
  BY <1>2 DEF Asked, AsRendered, Batching
<1>7. IsTheProse'
  BY <1>2, ProseKept DEF IInv, Batching
<1>8. Addressed' /\ FoundWhole'
  BY AddressedKept, FoundKept DEF IInv, diskVars, sherpaVars
<1> QED
  BY <1>1, <1>3, <1>4, <1>5, <1>6, <1>7, <1>8 DEF IInv

(* Azure's batch ends, or fails the chapter.                               *)
LEMMA AzureEndsKeeps ==
  ASSUME IInv, AzureEnds
  PROVE  IInv'
<1>1. /\ pc = "azure" /\ rest = <<>> /\ DOMAIN tasks = {}
      /\ UNCHANGED <<batch, artVars, diskVars, azureVars, sherpaVars, renders>>
  <2>1. pc = "azure" /\ rest = <<>> /\ tasks = <<>>
        /\ UNCHANGED <<batch, artVars, diskVars, azureVars, sherpaVars, renders>>
    BY DEF AzureEnds
  <2>2. DOMAIN tasks = {}
    BY <2>1
  <2> QED
    BY <2>1, <2>2
<1>2. pc \in Rendering /\ pc \in Batching
  BY <1>1 DEF Rendering, Batching
<1>3. batch \in Seq(Outcome) /\ DOMAIN batch = 1..Len(batch)
  BY LenProperties DEF IInv, Typed
<1>4. CASE \E k \in DOMAIN batch : batch[k].state # "ok"
  <2>1. Fail("azure") /\ UNCHANGED planVars
    BY <1>4 DEF AzureEnds
  <2>2. UNCHANGED <<planVars, artVars, diskVars, rest, tasks, renders>> /\ batch' = batch
    BY <1>1, <2>1 DEF azureVars
  <2>3. PoolTyped' /\ FoundWhole'
    BY <1>1, FoundKept DEF IInv, Typed, PoolTyped, diskVars, sherpaVars
  <2> QED
    BY <1>1, <1>2, <1>3, <2>1, <2>2, <2>3, FailKeeps
<1>5. CASE ~\E k \in DOMAIN batch : batch[k].state # "ok"
  <2>1. BatchEnds("azure")
    BY <1>5 DEF AzureEnds
  <2>2. \A k \in 1..Len(batch) : batch[k].state = "ok"
    BY <1>3, <1>5
  <2> QED
    BY <1>1, <1>2, <1>3, <2>1, <2>2, BatchEndsKeeps
<1> QED
  BY <1>4, <1>5

(* While sherpa's batch is made nothing waits for Azure.                   *)
LEMMA NothingInTheAir ==
  ASSUME IInv, pc # "azure"
  PROVE  rest = <<>> /\ DOMAIN tasks = {}
BY DEF IInv, InTheAir

(* Sherpa's batch begins: all of it is in the shards.                      *)
LEMMA SherpaBeginsKeeps ==
  ASSUME IInv, SherpaBegins
  PROVE  IInv'
<1>1. segs \in Seq(Segment)
  BY DEF IInv, Typed
<1>2. /\ batch' \in Seq(Outcome) /\ Len(batch') = Len(Positions("sherpa"))
      /\ \A k \in 1..Len(batch') : batch'[k].state = "none"
      /\ groups # <<>> /\ Head(groups) = "sherpa" /\ pc = "registry"
  <2>1. BatchBegins("sherpa")
    BY DEF SherpaBegins
  <2> QED
    BY <1>1, <2>1, BatchBegun
<1>3. /\ UNCHANGED <<planVars, artVars, diskVars, azureVars, holder, loading, loaded, aborted,
                     renders>>
      /\ \/ Fail("voice") /\ UNCHANGED shards
         \/ /\ pc' = "sherpa" /\ UNCHANGED cause
            /\ shards' = [shards EXCEPT ![renders] = Shards(Len(batch'))]
  BY DEF SherpaBegins
<1>4. rest = <<>> /\ DOMAIN tasks = {}
  BY <1>2, NothingInTheAir
<1>5. CASE Fail("voice") /\ UNCHANGED shards
  <2>1. pc \in Rendering
    BY <1>2 DEF Rendering
  <2>2. PoolTyped' /\ FoundWhole'
    BY <1>3, <1>5, FoundKept DEF IInv, Typed, PoolTyped, diskVars
  <2>3. UNCHANGED <<planVars, artVars, diskVars, rest, tasks, renders>>
    BY <1>3 DEF azureVars
  <2> QED
    BY <1>2, <1>4, <1>5, <2>1, <2>2, <2>3, FailKeeps
<1>6. CASE /\ pc' = "sherpa" /\ UNCHANGED cause
           /\ shards' = [shards EXCEPT ![renders] = Shards(Len(batch'))]
  <2> DEFINE n == Len(batch')
             new == Shards(n)
  <2>1. n \in Nat /\ n = Len(Positions("sherpa")) /\ renders \in 1..MaxRenders
    BY <1>1, <1>2, PositionsAre DEF IInv, Typed, Rendering
  <2>8. /\ new \in [1..Workers -> Seq(Task)]
        /\ \A w \in 1..Workers : \A j \in 1..Len(new[w]) : OwnRequest(new[w][j], n)
        /\ \A k \in 1..n : \E w \in 1..Workers : \E j \in 1..Len(new[w]) : new[w][j].pos = k
    BY <1>1, <2>1, ShardsAre
  <2> HIDE DEF new
  <2>9. shards' \in [1..MaxRenders -> [1..Workers -> Seq(Task)]] /\ shards'[renders] = new
    BY <1>6, <2>1, <2>8 DEF IInv, Typed, new
  <2>2. Typed'
    BY <1>2, <1>3, <1>6, <2>1, <2>9 DEF IInv, Typed, Rendering, planVars, artVars, diskVars
  <2>3. InTheAir'
    <3>1. IsFiniteSet({}) /\ Cardinality({}) = 0
      BY FS_EmptySet
    <3>2. rest' = <<>> /\ DOMAIN tasks' = {} /\ tasks' \in [DOMAIN tasks' -> Request]
      BY <1>3, <1>4 DEF IInv, InTheAir, azureVars
    <3> QED
      BY <3>1, <3>2, SizesAssumption, EmptySeq DEF InTheAir
  <2>4. Sharded'
    <3>1. renders' = renders /\ segs' = segs
      BY <1>3 DEF planVars
    <3>2. Positions("sherpa")' = Positions("sherpa")
      BY <3>1 DEF Positions
    <3>3. Len(batch') = n
      OBVIOUS
    <3> HIDE DEF n
    <3>4. ASSUME NEW w \in 1..Workers, NEW j \in 1..Len(shards'[renders'][w])
          PROVE  OwnRequest(shards[renders][w][j], Len(batch))'
      <4>1. shards'[renders'] = new
        BY <2>9, <3>1
      <4>2. OwnRequest(new[w][j], n)
        BY <2>8, <3>4, <4>1
      <4> QED
        BY <3>1, <3>2, <3>3, <4>1, <4>2 DEF OwnRequest, Seg
    <3>5. ASSUME NEW k \in 1..Len(batch')
          PROVE  \E w \in 1..Workers : \E j \in 1..Len(shards'[renders'][w]) :
                   shards'[renders'][w][j].pos = k
      <4>1. shards'[renders'] = new
        BY <2>9, <3>1
      <4> QED
        BY <2>8, <3>3, <3>5, <4>1
    <3> QED
      BY <3>4, <3>5 DEF Sharded
  <2>5. Asked'
    BY <1>2, <1>3, <1>6 DEF Asked, planVars, Positions
  <2>6. Gathered' /\ IsTheProse'
    BY <1>2, <1>3, GatheredKept, ProseKept DEF IInv, planVars, Rendering
  <2>7. AsRendered' /\ Addressed' /\ FoundWhole'
    BY <1>3, <1>6, AddressedKept, FoundKept DEF IInv, AsRendered, diskVars
  <2> QED
    BY <2>2, <2>3, <2>4, <2>5, <2>6, <2>7 DEF IInv
<1> QED
  BY <1>3, <1>5, <1>6

(* The first of a thread's shard is a task, and what comes after it.       *)
LEMMA CurrentIs ==
  ASSUME IInv, NEW r \in 1..MaxRenders, NEW w \in 1..Workers, shards[r][w] # <<>>
  PROVE  /\ Current(r, w) \in Task /\ Current(r, w) = shards[r][w][1] /\ Len(shards[r][w]) \in Nat
         /\ Tail(shards[r][w]) \in Seq(Task) /\ Len(Tail(shards[r][w])) = Len(shards[r][w]) - 1
         /\ \A i \in 1..Len(Tail(shards[r][w])) : Tail(shards[r][w])[i] = shards[r][w][i + 1]
         /\ Current(r, w).seg.voice.model \in Models /\ 1 \in 1..Len(shards[r][w])
<1> DEFINE s == shards[r][w]
<1>0. shards \in [1..MaxRenders -> [1..Workers -> Seq(Task)]]
  BY DEF IInv, Typed
<1>1. s \in Seq(Task) /\ s # <<>>
  BY <1>0
<1>2. Current(r, w) = Head(s)
  BY DEF Current
<1> HIDE DEF s
<1>3. /\ Head(s) \in Task /\ Head(s) = s[1] /\ Len(s) \in Nat /\ Tail(s) \in Seq(Task)
      /\ Len(Tail(s)) = Len(s) - 1 /\ \A i \in 1..Len(Tail(s)) : Tail(s)[i] = s[i + 1]
  BY <1>1, HeadTailProperties, LenProperties
<1>4. 1 \in 1..Len(s)
  BY <1>1, <1>3, EmptySeq
<1>5. Head(s).seg.voice.model \in Models
  BY <1>3 DEF Task, Segment, Voices
<1> QED
  BY <1>2, <1>3, <1>4, <1>5 DEF s

(* A thread changes one worker's shard of its own render.                  *)
LEMMA ShardChanged ==
  ASSUME IInv, NEW r \in 1..MaxRenders, NEW w \in 1..Workers, NEW t \in Seq(Task),
         shards' = [shards EXCEPT ![r][w] = t]
  PROVE  /\ shards' \in [1..MaxRenders -> [1..Workers -> Seq(Task)]]
         /\ shards'[r][w] = t /\ \A v \in 1..Workers : v # w => shards'[r][v] = shards[r][v]
         /\ \A q \in 1..MaxRenders : q # r => shards'[q] = shards[q]
<1>1. shards \in [1..MaxRenders -> [1..Workers -> Seq(Task)]]
  BY DEF IInv, Typed
<1> QED
  BY <1>1

(* Steps of threads that leave the batch, and this render's shards, alone. *)
LEMMA PoolKeeps ==
  ASSUME IInv, PoolTyped', FoundWhole', pc = "sherpa" => shards'[renders] = shards[renders],
         UNCHANGED <<planVars, pc, batch, artVars, diskVars, azureVars, renders, cause>>
  PROVE  IInv'
<1>1. Typed'
  BY DEF IInv, Typed, PoolTyped, planVars, artVars, diskVars
<1>2. InTheAir'
  BY DEF IInv, InTheAir, azureVars
<1>3. Sharded'
  BY ShardedKept DEF IInv, planVars
<1>4. Asked' /\ Gathered' /\ IsTheProse'
  BY AskedKept, GatheredKept DEF IInv, IsTheProse, planVars
<1>5. AsRendered' /\ Addressed'
  BY AddressedKept DEF IInv, AsRendered, planVars, artVars
<1> QED
  BY <1>1, <1>2, <1>3, <1>4, <1>5 DEF IInv

(* A model's files are found.                                              *)
LEMMA ModelCheckedKeeps ==
  ASSUME IInv, NEW r \in 1..MaxRenders, NEW w \in 1..Workers, ModelChecked(r, w)
  PROVE  IInv'
<1> DEFINE m == Current(r, w).seg.voice.model
           l == [model |-> m, given |-> Given(m)]
<1>1. /\ AssetsPresent(m) /\ shards[r][w] # <<>>
      /\ holder' = [holder EXCEPT ![w] = r] /\ loading' = [loading EXCEPT ![w] = l]
      /\ UNCHANGED <<planVars, pc, batch, artVars, diskVars, azureVars, shards, loaded, aborted,
                     renders, cause>>
  BY DEF ModelChecked, Runs
<1>2. m \in Models
  BY <1>1, CurrentIs
<1> HIDE DEF m
<1>3. Given(m) \subseteq disk[m] /\ Given(m) \subseteq Files /\ Enough(m, Given(m))
  BY <1>1, <1>2 DEF IInv, Typed, Given, AssetsPresent
<1>4. l \in [model : Models \cup {NoModel}, given : SUBSET Files] /\ r \in 0..MaxRenders
      /\ l.model = m /\ l.given = Given(m)
  BY <1>2, <1>3, BoundsAssumption
<1> HIDE DEF l
<1>5. PoolTyped'
  BY <1>1, <1>4 DEF IInv, Typed, PoolTyped
<1>6. FoundWhole'
  <2>1. disk' = disk /\ snatched' = snatched /\ aborted' = aborted
    BY <1>1 DEF diskVars
  <2>2. \A v \in 1..Workers : loading'[v] = IF v = w THEN l ELSE loading[v]
    BY <1>1 DEF IInv, Typed
  <2>3. AbortsOnlyWhenSnatched'
    BY <2>1 DEF IInv, FoundWhole, AbortsOnlyWhenSnatched
  <2>4. ASSUME NEW v \in 1..Workers, loading'[v] # Unloaded
        PROVE  /\ loading'[v].model \in Models /\ Enough(loading'[v].model, loading'[v].given)
               /\ snatched \/ loading'[v].given \subseteq disk[loading'[v].model]
    BY <1>2, <1>3, <1>4, <2>2, <2>4 DEF IInv, FoundWhole
  <2> QED
    BY <2>1, <2>3, <2>4 DEF FoundWhole
<1> QED
  BY <1>1, <1>5, <1>6, PoolKeeps

(* A constructor opens what was found: it exits only if that is gone.      *)
LEMMA ModelLoadedKeeps ==
  ASSUME IInv, NEW w \in 1..Workers, ModelLoaded(w)
  PROVE  IInv'
<1> DEFINE m == loading[w].model
<1>1. /\ loading[w] # Unloaded /\ aborted' = NativeAborts(m, loading[w].given)
      /\ loaded' = [loaded EXCEPT ![w] = @ \cup {m}] /\ loading' = [loading EXCEPT ![w] = Unloaded]
      /\ UNCHANGED <<planVars, pc, batch, artVars, diskVars, azureVars, shards, holder, renders,
                     cause>>
  BY DEF ModelLoaded
<1>2. /\ m \in Models /\ Enough(m, loading[w].given)
      /\ snatched \/ loading[w].given \subseteq disk[m]
  BY <1>1 DEF IInv, FoundWhole
<1> HIDE DEF m
<1>3. Unloaded \in [model : Models \cup {NoModel}, given : SUBSET Files]
  BY DEF Unloaded
<1>4. PoolTyped'
  BY <1>1, <1>2, <1>3 DEF IInv, Typed, PoolTyped
<1>5. FoundWhole'
  <2>1. disk' = disk /\ snatched' = snatched
    BY <1>1 DEF diskVars
  <2>2. AbortsOnlyWhenSnatched'
    BY <1>1, <1>2, <2>1 DEF AbortsOnlyWhenSnatched, NativeAborts
  <2>3. \A v \in 1..Workers : loading'[v] = IF v = w THEN Unloaded ELSE loading[v]
    BY <1>1 DEF IInv, Typed
  <2>4. ASSUME NEW v \in 1..Workers, loading'[v] # Unloaded
        PROVE  /\ loading'[v].model \in Models /\ Enough(loading'[v].model, loading'[v].given)
               /\ snatched \/ loading'[v].given \subseteq disk[loading'[v].model]
    BY <2>3, <2>4 DEF IInv, FoundWhole
  <2> QED
    BY <2>1, <2>2, <2>4 DEF FoundWhole
<1> QED
  BY <1>1, <1>4, <1>5, PoolKeeps

(* A thread that fails leaves its worker as it would be without it.        *)
LEMMA ThreadFailed ==
  ASSUME IInv, NEW r \in 1..MaxRenders, NEW w \in 1..Workers, ThreadFails(r, w),
         UNCHANGED <<loaded, aborted, disk, snatched>>,
         shards' \in [1..MaxRenders -> [1..Workers -> Seq(Task)]]
  PROVE  PoolTyped' /\ FoundWhole'
<1>1. holder' = [holder EXCEPT ![w] = 0] /\ loading' = [loading EXCEPT ![w] = Unloaded]
  BY DEF ThreadFails
<1>2. Unloaded \in [model : Models \cup {NoModel}, given : SUBSET Files] /\ 0 \in 0..MaxRenders
  BY BoundsAssumption DEF Unloaded
<1>3. PoolTyped'
  BY <1>1, <1>2 DEF IInv, Typed, PoolTyped
<1>4. \A v \in 1..Workers : loading'[v] = IF v = w THEN Unloaded ELSE loading[v]
  BY <1>1 DEF IInv, Typed
<1>5. AbortsOnlyWhenSnatched'
  BY DEF IInv, FoundWhole, AbortsOnlyWhenSnatched
<1>6. ASSUME NEW v \in 1..Workers, loading'[v] # Unloaded
      PROVE  /\ loading'[v].model \in Models /\ Enough(loading'[v].model, loading'[v].given)
             /\ snatched \/ loading'[v].given \subseteq disk[loading'[v].model]
  BY <1>4, <1>6 DEF IInv, FoundWhole
<1>7. FoundWhole'
  BY <1>5, <1>6 DEF FoundWhole
<1> QED
  BY <1>3, <1>7

(* A worker fails the batch.                                               *)
LEMMA WorkerFailsKeeps ==
  ASSUME IInv, NEW w \in 1..Workers, NEW running \in SUBSET (1..Workers), WorkerFails(w, running)
  PROVE  IInv'
<1>1. /\ pc = "sherpa" /\ Fail("sherpa") /\ ThreadFails(renders, w)
      /\ shards' = [shards EXCEPT ![renders] =
                     [v \in 1..Workers |-> IF v \in running THEN @[v] ELSE <<>>]]
      /\ UNCHANGED <<planVars, batch, artVars, diskVars, azureVars, loaded, aborted, renders>>
  BY DEF WorkerFails
<1>2. UNCHANGED <<planVars, artVars, diskVars, rest, tasks, renders>>
      /\ UNCHANGED <<loaded, aborted, disk, snatched>>
  BY <1>1 DEF azureVars, diskVars
<1>3. rest = <<>> /\ DOMAIN tasks = {}
  BY <1>1, NothingInTheAir
<1>4. batch' \in Seq(Outcome) /\ pc \in Rendering /\ renders \in 1..MaxRenders
  BY <1>1 DEF IInv, Typed, Rendering
<1>5. shards' \in [1..MaxRenders -> [1..Workers -> Seq(Task)]]
  <2> DEFINE new == [v \in 1..Workers |-> IF v \in running THEN shards[renders][v] ELSE <<>>]
  <2>1. shards \in [1..MaxRenders -> [1..Workers -> Seq(Task)]]
    BY DEF IInv, Typed
  <2>2. new \in [1..Workers -> Seq(Task)]
    BY <1>4, <2>1, EmptySeq
  <2>3. shards' = [shards EXCEPT ![renders] = new]
    BY <1>1
  <2> HIDE DEF new
  <2> QED
    BY <1>4, <2>1, <2>2, <2>3
<1>6. PoolTyped' /\ FoundWhole'
  BY <1>1, <1>2, <1>4, <1>5, ThreadFailed
<1> QED
  BY <1>1, <1>2, <1>3, <1>4, <1>6, FailKeeps

(* A thread of a failed render fails.                                      *)
LEMMA OldThreadFailsKeeps ==
  ASSUME IInv, NEW r \in 1..MaxRenders, NEW w \in 1..Workers, OldThreadFails(r, w)
  PROVE  IInv'
<1>1. /\ ~Live(r) /\ ThreadFails(r, w) /\ shards' = [shards EXCEPT ![r][w] = <<>>]
      /\ UNCHANGED <<planVars, pc, batch, artVars, diskVars, azureVars, loaded, aborted, renders,
                     cause>>
  BY DEF OldThreadFails
<1>2. /\ shards' \in [1..MaxRenders -> [1..Workers -> Seq(Task)]]
      /\ \A q \in 1..MaxRenders : q # r => shards'[q] = shards[q]
  <2>1. <<>> \in Seq(Task)
    BY EmptySeq
  <2> QED
    BY <1>1, <2>1, ShardChanged
<1>3. PoolTyped' /\ FoundWhole'
  BY <1>1, <1>2, ThreadFailed DEF diskVars
<1>4. pc = "sherpa" => shards'[renders] = shards[renders]
  BY <1>1, <1>2 DEF IInv, Typed, Live, Rendering
<1> QED
  BY <1>1, <1>3, <1>4, PoolKeeps

(* No shard has anything left, so every request has its outcome.           *)
LEMMA SherpaEndsKeeps ==
  ASSUME IInv, SherpaEnds
  PROVE  IInv'
<1>1. /\ pc = "sherpa" /\ \A w \in 1..Workers : shards[renders][w] = <<>>
      /\ BatchEnds("sherpa")
      /\ UNCHANGED <<batch, artVars, diskVars, azureVars, sherpaVars, renders>>
  BY DEF SherpaEnds
<1>2. rest = <<>> /\ DOMAIN tasks = {} /\ pc \in Batching
  BY <1>1, NothingInTheAir DEF Batching
<1>3. \A k \in 1..Len(batch) : batch[k].state = "ok"
  <2>1. Len(<<>>) = 0
    BY EmptySeq
  <2>2. \A w \in 1..Workers : ~\E j \in 1..Len(shards[renders][w]) : TRUE
    BY <1>1, <2>1
  <2> QED
    BY <1>1, <2>2 DEF IInv, Sharded
<1> QED
  BY <1>1, <1>2, <1>3, BatchEndsKeeps

(* The thread the batch waits for gives its next request its own sound, and *)
(* nobody takes what another brings.                                       *)
LEMMA WorkerVoicesKeeps ==
  ASSUME IInv, NEW r \in 1..MaxRenders, NEW w \in 1..Workers, NEW n \in Lengths,
         WorkerVoices(r, w, n)
  PROVE  IInv'
<1> DEFINE it == Current(r, w)
           o == IF it.seg.text = <<>> THEN Ok(Silence)
                ELSE Ok([bytes |-> Padded(n), says |-> Says(it.seg)])
           left == Tail(shards[r][w])
<1>1. /\ shards[r][w] # <<>> /\ shards' = [shards EXCEPT ![r][w] = left]
      /\ batch' = IF ~Live(r) THEN batch ELSE [batch EXCEPT ![it.pos] = o]
      /\ holder' = [holder EXCEPT ![w] = IF left = <<>> THEN 0 ELSE r]
      /\ UNCHANGED <<planVars, pc, artVars, diskVars, azureVars, loading, loaded, aborted, renders,
                     cause>>
  BY DEF WorkerVoices, Runs
<1>2. /\ it \in Task /\ it = shards[r][w][1] /\ Len(shards[r][w]) \in Nat
      /\ left \in Seq(Task) /\ Len(left) = Len(shards[r][w]) - 1
      /\ \A i \in 1..Len(left) : left[i] = shards[r][w][i + 1]
      /\ 1 \in 1..Len(shards[r][w])
  BY <1>1, CurrentIs
<1> HIDE DEF it, left
<1>3. /\ shards' \in [1..MaxRenders -> [1..Workers -> Seq(Task)]]
      /\ shards'[r][w] = left /\ \A v \in 1..Workers : v # w => shards'[r][v] = shards[r][v]
      /\ \A q \in 1..MaxRenders : q # r => shards'[q] = shards[q]
  BY <1>1, <1>2, ShardChanged
<1>4. PoolTyped'
  <2>1. (IF left = <<>> THEN 0 ELSE r) \in 0..MaxRenders
    BY BoundsAssumption
  <2> QED
    BY <1>1, <1>3, <2>1 DEF IInv, Typed, PoolTyped
<1>5. FoundWhole'
  BY <1>1, FoundKept DEF IInv, diskVars
<1>6. CASE ~Live(r)
  <2>1. batch' = batch
    BY <1>1, <1>6
  <2>2. pc = "sherpa" => shards'[renders] = shards[renders]
    BY <1>3, <1>6 DEF IInv, Typed, Live, Rendering
  <2> QED
    BY <1>1, <1>4, <1>5, <2>1, <2>2, PoolKeeps
<1>7. CASE Live(r)
  <2>1. /\ pc = "sherpa" /\ r = renders /\ batch' = [batch EXCEPT ![it.pos] = o]
    BY <1>1, <1>7 DEF Live
  <2>2. /\ segs \in Seq(Segment) /\ batch \in Seq(Outcome) /\ Len(batch) \in Nat
        /\ Len(batch) = Len(Positions("sherpa"))
    BY <2>1, LenProperties DEF IInv, Typed, Asked, Batching
  <2>3. it.pos \in 1..Len(batch) /\ it.seg = Seg("sherpa", it.pos)
    BY <1>2, <2>1 DEF IInv, Sharded, OwnRequest
  <2>4. o \in Outcome /\ o.state = "ok" /\ o.pcm.says = Says(Seg("sherpa", it.pos))
    <3>1. Seg("sherpa", it.pos) \in Segment
      BY <2>2, <2>3, SegIs
    <3>2. CASE it.seg.text = <<>>
      BY <2>3, <3>1, <3>2, BlankSays, SilenceIs
    <3>3. CASE it.seg.text # <<>>
      <4>1. o = Voiced("sherpa", it.pos, it.seg.text, n)
        BY <2>3, <3>3 DEF Voiced, Says
      <4> HIDE DEF o
      <4> QED
        BY <2>2, <2>3, <4>1, VoicedIs
    <3> QED
      BY <3>2, <3>3
  <2> HIDE DEF o
  <2>5. /\ batch' \in Seq(Outcome) /\ Len(batch') = Len(batch)
        /\ \A j \in 1..Len(batch) : batch'[j] = IF j = it.pos THEN o ELSE batch[j]
    <3> DEFINE k == it.pos
    <3> HIDE DEF k
    <3>0. k \in 1..Len(batch)
      BY <2>3 DEF k
    <3> DEFINE b == [batch EXCEPT ![k] = o]
    <3>1. /\ b \in Seq(Outcome) /\ Len(b) = Len(batch)
          /\ \A j \in 1..Len(batch) : b[j] = IF j = k THEN o ELSE batch[j]
      BY <2>2, <2>4, <3>0, ExceptSeq
    <3>2. batch' = b
      BY <2>1 DEF k
    <3> HIDE DEF b
    <3> QED
      BY <3>1, <3>2 DEF k
  <2>6. Typed'
    BY <1>1, <1>4, <2>5 DEF IInv, Typed, PoolTyped, planVars, artVars, diskVars
  <2>7. InTheAir'
    BY <1>1, <2>5 DEF IInv, InTheAir, azureVars
  <2>8. ASSUME NEW v \in 1..Workers, NEW j \in 1..Len(shards'[r][v])
        PROVE  OwnRequest(shards'[r][v][j], Len(batch))
    <3>1. CASE v # w
      BY <1>3, <2>1, <2>8, <3>1 DEF IInv, Sharded
    <3>2. CASE v = w
      <4>1. left[j] = shards[r][w][j + 1] /\ j + 1 \in 1..Len(shards[r][w])
        BY <1>2, <1>3, <2>8, <3>2
      <4> QED
        BY <1>3, <2>1, <3>2, <4>1 DEF IInv, Sharded
    <3> QED
      BY <3>1, <3>2
  <2>9. ASSUME NEW j \in 1..Len(batch), batch'[j].state # "ok"
        PROVE  \E v \in 1..Workers : \E i \in 1..Len(shards'[r][v]) : shards'[r][v][i].pos = j
    <3>1. j # it.pos /\ batch[j].state # "ok"
      BY <2>4, <2>5, <2>9
    <3>2. PICK v \in 1..Workers : \E i \in 1..Len(shards[r][v]) : shards[r][v][i].pos = j
      BY <2>1, <3>1 DEF IInv, Sharded
    <3>3. PICK i \in 1..Len(shards[r][v]) : shards[r][v][i].pos = j
      BY <3>2
    <3>4. CASE v # w
      BY <1>3, <3>2, <3>4
    <3>5. CASE v = w
      <4>1. i # 1
        BY <1>2, <3>1, <3>3, <3>5
      <4>2. PICK h \in 1..Len(left) : h = i - 1
        BY <1>2, <3>3, <3>5, <4>1
      <4>3. h + 1 = i
        BY <4>2
      <4>4. shards'[r][w][h].pos = j
        BY <1>2, <1>3, <3>3, <3>5, <4>2, <4>3
      <4>5. h \in 1..Len(shards'[r][w])
        BY <1>3, <4>2
      <4> QED
        BY <4>4, <4>5
    <3> QED
      BY <3>4, <3>5
  <2>10. Sharded'
    <3>1. renders' = r /\ Len(batch') = Len(batch) /\ segs' = segs
      BY <1>1, <2>1, <2>5 DEF planVars
    <3>2. Positions("sherpa")' = Positions("sherpa")
      BY <3>1 DEF Positions
    <3> QED
      BY <2>8, <2>9, <3>1, <3>2 DEF Sharded, OwnRequest, Seg
  <2>11. Asked'
    <3>1. Asked /\ pc \in Batching /\ UNCHANGED <<segs, groups, pc>>
      BY <1>1, <2>1 DEF IInv, planVars, Batching
    <3>2. \A j \in 1..Len(batch) : batch'[j].state = "ok" => batch'[j].pcm.says = Says(Seg(pc, j))
      BY <2>1, <2>4, <2>5, <3>1 DEF Asked
    <3> QED
      BY <2>5, <3>1, <3>2, AskedGoesOn
  <2>12. Gathered' /\ IsTheProse'
    BY <1>1, <2>1, GatheredKept, ProseKept DEF IInv, planVars
  <2>13. AsRendered' /\ Addressed'
    BY <1>1, <2>1, AddressedKept DEF IInv, AsRendered
  <2> QED
    BY <1>5, <2>6, <2>7, <2>10, <2>11, <2>12, <2>13 DEF IInv
<1> QED
  BY <1>6, <1>7

(* What is installed changes.                                              *)
LEMMA ChangeKeeps ==
  ASSUME IInv, NEW m \in Models, NEW s \in Installations[m], Change(m, s)
  PROVE  IInv'
<1>1. /\ changes < MaxChanges /\ disk' = [disk EXCEPT ![m] = s] /\ changes' = changes + 1
      /\ snatched' = (snatched \/ \E w \in 1..Workers :
                       loading[w].model = m /\ ~(loading[w].given \subseteq s))
      /\ UNCHANGED <<planVars, pc, batch, artVars, sherpaSays, azureVars, sherpaVars,
                     renders, cause>>
  BY DEF Change
<1>2. s \subseteq Files
  BY InstallationsAssumption
<1>3. Typed'
  <2>1. changes' \in 0..MaxChanges /\ disk' \in [Models -> SUBSET Files]
    BY <1>1, <1>2, BoundsAssumption DEF IInv, Typed
  <2> QED
    BY <1>1, <2>1 DEF IInv, Typed, planVars, artVars, sherpaVars
<1>4. InTheAir' /\ Sharded'
  BY <1>1, ShardedKept DEF IInv, InTheAir, azureVars, sherpaVars, planVars
<1>5. Asked' /\ Gathered' /\ IsTheProse'
  BY <1>1, AskedKept, GatheredKept DEF IInv, IsTheProse, planVars
<1>6. AsRendered' /\ Addressed'
  BY <1>1, AddressedKept DEF IInv, AsRendered, planVars, artVars
<1>7. FoundWhole'
  <2>1. loading' = loading /\ aborted' = aborted /\ (snatched => snatched')
    BY <1>1 DEF sherpaVars
  <2>2. \A q \in Models : disk'[q] = IF q = m THEN s ELSE disk[q]
    BY <1>1 DEF IInv, Typed
  <2>3. AbortsOnlyWhenSnatched'
    BY <2>1 DEF IInv, FoundWhole, AbortsOnlyWhenSnatched
  <2>4. ASSUME NEW v \in 1..Workers, loading[v] # Unloaded
        PROVE  /\ loading[v].model \in Models /\ Enough(loading[v].model, loading[v].given)
               /\ snatched' \/ loading[v].given \subseteq disk'[loading[v].model]
    <3>1. /\ loading[v].model \in Models /\ Enough(loading[v].model, loading[v].given)
          /\ snatched \/ loading[v].given \subseteq disk[loading[v].model]
      BY <2>4 DEF IInv, FoundWhole
    <3>2. CASE loading[v].model = m
      BY <1>1, <2>2, <3>1, <3>2
    <3>3. CASE loading[v].model # m
      BY <2>1, <2>2, <3>1, <3>3
    <3> QED
      BY <3>1, <3>2, <3>3
  <2> QED
    BY <2>1, <2>3, <2>4 DEF FoundWhole
<1> QED
  BY <1>3, <1>4, <1>5, <1>6, <1>7 DEF IInv

(* Nothing changes.                                                        *)
LEMMA StutterKeeps ==
  ASSUME IInv, UNCHANGED vars
  PROVE  IInv'
<1>1. UNCHANGED <<planVars, pc, batch, artVars, diskVars, azureVars, sherpaVars, renders, cause>>
  BY DEF vars
<1>2. PoolTyped' /\ FoundWhole'
  BY <1>1, FoundKept DEF IInv, Typed, PoolTyped, diskVars, sherpaVars
<1>3. shards' = shards
  BY <1>1 DEF sherpaVars
<1> QED
  BY <1>1, <1>2, <1>3, PoolKeeps

(* The stream's bytes by segment, and the manifest that is made of them.   *)
Sizes == [i \in DOMAIN out |-> Padded(out[i].bytes)]
Made  == [i \in DOMAIN out |-> [start |-> Starts(Sizes)[i],
                                end   |-> Starts(Sizes)[i] + Duration(Sizes[i])]]

(* Whole milliseconds of sound.                                            *)
LEMMA SizesAre ==
  ASSUME out \in Seq(Sound)
  PROVE  /\ Sizes \in Seq(Nat) /\ Len(Sizes) = Len(out) /\ DOMAIN out = 1..Len(out)
         /\ \A i \in 1..Len(out) : /\ Sizes[i] = Padded(out[i].bytes)
                                   /\ Duration(Sizes[i]) \in Nat
                                   /\ Sizes[i] = Duration(Sizes[i]) * BytesPerMs
<1>1. Len(out) \in Nat /\ DOMAIN out = 1..Len(out)
  BY LenProperties
<1>2. ASSUME NEW i \in 1..Len(out)
      PROVE  /\ Sizes[i] = Padded(out[i].bytes) /\ Sizes[i] \in Nat
             /\ Duration(Sizes[i]) \in Nat /\ Sizes[i] = Duration(Sizes[i]) * BytesPerMs
  <2>1. out[i] \in Sound
    BY ElementOfSeq
  <2>2. out[i].bytes \in Nat
    BY <2>1 DEF Sound
  <2>3. Sizes[i] = Padded(out[i].bytes)
    BY <1>1 DEF Sizes
  <2> QED
    BY <2>2, <2>3, PaddedIs
<1>3. DOMAIN Sizes = 1..Len(out) /\ Sizes = [i \in 1..Len(out) |-> Sizes[i]]
  BY <1>1 DEF Sizes
<1>4. Sizes \in [1..Len(out) -> Nat]
  BY <1>2, <1>3
<1>5. Sizes \in Seq(Nat) /\ Len(Sizes) = Len(out)
  BY <1>1, <1>4, FunctionSeq
<1> QED
  BY <1>1, <1>2, <1>5

(* The manifest's marks are the stream's offsets, the last one its end.    *)
LEMMA MadeIs ==
  ASSUME out \in Seq(Sound)
  PROVE  /\ Made \in Seq(Mark) /\ Len(Made) = Len(out)
         /\ \A i \in 1..Len(out) :
              /\ Made[i].start * BytesPerMs = Total(Before(Sizes, i))
              /\ Made[i].end * BytesPerMs = Made[i].start * BytesPerMs + Sizes[i]
         /\ (IF Made = <<>> THEN 0 ELSE Last(Made).end) * BytesPerMs = Total(Sizes)
<1> DEFINE z == Sizes
<1>1. /\ z \in Seq(Nat) /\ Len(z) = Len(out) /\ DOMAIN out = 1..Len(out) /\ Len(out) \in Nat
      /\ \A i \in 1..Len(out) : Duration(z[i]) \in Nat /\ z[i] = Duration(z[i]) * BytesPerMs
  BY SizesAre, LenProperties
<1>2. \A i \in 1..Len(out) :
        Starts(z)[i] \in Nat /\ Starts(z)[i] * BytesPerMs = Total(Before(z, i))
  <2> HIDE DEF z
  <2> QED
    BY <1>1, StartsAre
<1>3. Made = [i \in 1..Len(out) |-> [start |-> Starts(z)[i], end |-> Starts(z)[i] + Duration(z[i])]]
  BY <1>1 DEF Made
<1> HIDE DEF z
<1>4. Made \in [1..Len(out) -> Mark]
  BY <1>1, <1>2, <1>3 DEF Mark
<1>5. Made \in Seq(Mark) /\ Len(Made) = Len(out)
  BY <1>1, <1>4, FunctionSeq
<1>6. ASSUME NEW i \in 1..Len(out)
      PROVE  /\ Made[i].start * BytesPerMs = Total(Before(z, i))
             /\ Made[i].end * BytesPerMs = Made[i].start * BytesPerMs + z[i]
  <2>1. Made[i].start = Starts(z)[i] /\ Made[i].end = Starts(z)[i] + Duration(z[i])
    BY <1>3
  <2>2. /\ Starts(z)[i] \in Nat /\ Duration(z[i]) \in Nat
        /\ Starts(z)[i] * BytesPerMs = Total(Before(z, i)) /\ z[i] = Duration(z[i]) * BytesPerMs
    BY <1>1, <1>2
  <2> QED
    BY <2>1, <2>2 DEF BytesPerMs
<1>7. CASE Made = <<>>
  <2>1. Len(out) = 0
    BY <1>5, <1>7, EmptySeq
  <2>2. z = <<>>
    BY <1>1, <2>1, EmptySeq
  <2> QED
    BY <1>5, <1>6, <1>7, <2>2, TotalNothing DEF z, BytesPerMs
<1>8. CASE Made # <<>>
  <2>1. Len(out) # 0
    BY <1>5, <1>8, EmptySeq
  <2>2. Last(Made) = Made[Len(out)]
    BY <1>5 DEF Last
  <2>3. PICK n \in 1..Len(out) : n = Len(out)
    BY <1>1, <2>1
  <2>4. Last(Made).end * BytesPerMs = Total(Before(z, n)) + z[n]
    BY <1>6, <2>2, <2>3
  <2>5. Total(Before(z, n + 1)) = Total(Before(z, n)) + z[n]
    <3>1. n \in 1..(Len(z) + 1) /\ n \in 1..Len(z)
      BY <1>1, <2>3
    <3> QED
      BY <1>1, <3>1, BeforeIs
  <2>6. Before(z, n + 1) = z
    BY <1>1, <2>3, BeforeAll
  <2>7. Last(Made).end * BytesPerMs = Total(z)
    BY <2>4, <2>5, <2>6
  <2> QED
    BY <1>5, <1>6, <1>8, <2>7 DEF z
<1> QED
  BY <1>7, <1>8

(* A chapter is joined; the engine's check of its length never fails it.   *)
LEMMA AssembleKeeps ==
  ASSUME IInv, Assemble
  PROVE  IInv'
<1>1. out \in Seq(Sound) /\ Len(out) = Len(segs) /\ segs \in Seq(Segment)
  BY DEF IInv, Typed
<1>2. /\ pc = "registry" /\ groups = <<>>
      /\ UNCHANGED <<turns, segs, groups, out, batch, diskVars, azureVars, sherpaVars, renders>>
      /\ IF (IF Made = <<>> THEN 0 ELSE Last(Made).end) * BytesPerMs # Total(Sizes)
         THEN Fail("mismatch") /\ UNCHANGED <<rows, artVars>>
         ELSE /\ manifest' = Made
              /\ stream' = [i \in DOMAIN out |-> [bytes |-> Sizes[i], says |-> out[i].says]]
              /\ rows' = segs /\ pc' = "published" /\ UNCHANGED cause
  BY DEF Assemble, Made, Sizes
<1>3. /\ manifest' = Made /\ rows' = segs /\ pc' = "published" /\ UNCHANGED cause
      /\ stream' = [i \in DOMAIN out |-> [bytes |-> Sizes[i], says |-> out[i].says]]
  BY <1>1, <1>2, MadeIs
<1>4. /\ Sizes \in Seq(Nat) /\ Len(Sizes) = Len(out) /\ DOMAIN out = 1..Len(out)
      /\ Len(out) \in Nat /\ DOMAIN Sizes = 1..Len(out)
  BY <1>1, SizesAre, LenProperties
<1>5. /\ Made \in Seq(Mark) /\ Len(Made) = Len(out)
      /\ \A i \in 1..Len(out) :
           /\ Made[i].start * BytesPerMs = Total(Before(Sizes, i))
           /\ Made[i].end * BytesPerMs = Made[i].start * BytesPerMs + Sizes[i]
  BY <1>1, MadeIs
<1>6. \A i \in 1..Len(out) : out[i].says = Says(segs[i])
  <2>1. Len(groups) = 0
    BY <1>2, EmptySeq
  <2>2. ~\E g \in 1..Len(groups) : TRUE
    BY <2>1
  <2> QED
    BY <1>1, <1>2, <2>2 DEF IInv, Gathered, Rendering
<1>7. ASSUME NEW i \in 1..Len(out)
      PROVE  stream'[i].bytes = Sizes[i] /\ stream'[i].says = out[i].says /\ stream'[i] \in Sound
  <2>1. stream'[i] = [bytes |-> Sizes[i], says |-> out[i].says]
    BY <1>3, <1>4
  <2>2. out[i] \in Sound /\ Sizes[i] \in Nat
    BY <1>1, <1>4, ElementOfSeq
  <2> QED
    BY <2>1, <2>2 DEF Sound
<1>8. DOMAIN stream' = 1..Len(out) /\ stream' = [i \in 1..Len(out) |-> stream'[i]]
  BY <1>3, <1>4
<1>9. stream' \in [1..Len(out) -> Sound]
  BY <1>7, <1>8
<1>10. stream' \in Seq(Sound) /\ Len(stream') = Len(out)
  BY <1>4, <1>9, FunctionSeq
<1>11. Typed'
  BY <1>1, <1>2, <1>3, <1>5, <1>10 DEF IInv, Typed, Rendering, diskVars, sherpaVars
<1>12. InTheAir' /\ Sharded'
  BY <1>2, <1>3 DEF IInv, InTheAir, Sharded, azureVars
<1>13. Asked' /\ Gathered'
  BY <1>3 DEF Asked, Gathered, Batching, Rendering
<1>14. IsTheProse'
  BY <1>2, <1>3 DEF IInv, IsTheProse
<1>15. AsRendered'
  BY <1>1, <1>2, <1>6, <1>7, <1>10 DEF AsRendered
<1>16. Addressed'
  <2>1. Bytes' = Sizes
    <3>1. Bytes' = [j \in 1..Len(out) |-> stream'[j].bytes]
      BY <1>8 DEF Bytes
    <3>2. Sizes = [j \in 1..Len(out) |-> Sizes[j]]
      BY <1>4 DEF Sizes
    <3> QED
      BY <1>7, <3>1, <3>2
  <2>2. Len(manifest') = Len(stream')
    BY <1>3, <1>5, <1>10
  <2>3. \A i \in 1..Len(stream') :
          /\ manifest'[i].start * BytesPerMs = Total(Before(Sizes, i))
          /\ manifest'[i].end * BytesPerMs = manifest'[i].start * BytesPerMs + stream'[i].bytes
    BY <1>3, <1>5, <1>7, <1>10
  <2> QED
    BY <2>1, <2>2, <2>3 DEF Addressed
<1>17. FoundWhole'
  BY <1>2, FoundKept DEF IInv, diskVars, sherpaVars
<1> QED
  BY <1>11, <1>12, <1>13, <1>14, <1>15, <1>16, <1>17 DEF IInv

(* Every step keeps the invariant.                                         *)
LEMMA NextIInv == IInv /\ [Next]_vars => IInv'
<1> SUFFICES ASSUME IInv, [Next]_vars PROVE IInv'
  OBVIOUS
<1>1. CASE \E azure, bySentence \in BOOLEAN : Start(azure, bySentence)
  BY <1>1, StartKeeps
<1>2. CASE AzureBegins
  BY <1>2, AzureBeginsKeeps
<1>3. CASE NextChunk
  BY <1>3, NextChunkKeeps
<1>4. CASE TaskStep
  <2>1. PICK k \in DOMAIN tasks :
          \/ PartAnswered(k) \/ PartRetried(k)
          \/ \E n \in Lengths : TaskVoiced(k, n)
          \/ TaskFails(k) \/ TaskPanics(k)
    BY <1>4 DEF TaskStep
  <2> QED
    BY <2>1, PartAnsweredKeeps, PartRetriedKeeps, TaskVoicedKeeps, TaskFailsKeeps, TaskPanicsKeeps
<1>5. CASE AzureEnds
  BY <1>5, AzureEndsKeeps
<1>6. CASE SherpaBegins
  BY <1>6, SherpaBeginsKeeps
<1>7. CASE \E w \in 1..Workers : ThreadStep(w)
  <2>1. PICK w \in 1..Workers : ThreadStep(w)
    BY <1>7
  <2>2. \/ ModelLoaded(w)
        \/ \E running \in SUBSET (1..Workers) : WorkerFails(w, running)
        \/ \E r \in 1..MaxRenders :
             \/ ModelChecked(r, w) \/ OldThreadFails(r, w)
             \/ \E n \in Lengths : WorkerVoices(r, w, n)
    BY <2>1 DEF ThreadStep
  <2> QED
    BY <2>2, ModelLoadedKeeps, WorkerFailsKeeps, ModelCheckedKeeps, OldThreadFailsKeeps,
       WorkerVoicesKeeps
<1>8. CASE SherpaEnds
  BY <1>8, SherpaEndsKeeps
<1>9. CASE Assemble
  BY <1>9, AssembleKeeps
<1>10. CASE \E m \in Models : \E s \in Installations[m] : Change(m, s)
  BY <1>10, ChangeKeeps
<1>11. CASE UNCHANGED vars
  BY <1>11, StutterKeeps
<1> QED
  BY <1>1, <1>2, <1>3, <1>4, <1>5, <1>6, <1>7, <1>8, <1>9, <1>10, <1>11 DEF Next

(* In every render, for any chapters, voices, budgets, workers and orders of *)
(* answers: what is planned is the prose, what a batch has is its own requests', *)
(* what is gathered is its segments', and the manifest is the stream's.    *)
THEOREM SpeechIsSound == Spec => []IInv
<1>1. Init => IInv
  BY InitIInv
<1>2. IInv /\ [Next]_vars => IInv'
  BY NextIInv
<1> QED
  BY <1>1, <1>2, PTL DEF Spec

(* The variables stay in their ranges: no more requests are in flight than *)
(* the batch concurrency, and no part is attempted more than MAX_ATTEMPTS times. *)
THEOREM SpeechIsTyped == Spec => []TypeOK
<1>1. IInv => TypeOK
  <2> SUFFICES ASSUME IInv PROVE TypeOK
    OBVIOUS
  <2>1. /\ turns \in Chapters /\ pc \in {"idle", "registry", "azure", "sherpa", "failed", "published"}
        /\ disk \in [Models -> SUBSET Files]
        /\ renders \in 0..MaxRenders /\ changes \in 0..MaxChanges
        /\ cause \in {"none", "refused", "voice", "azure", "sherpa", "mismatch"}
    BY DEF IInv, Typed, Rendering
  <2>2. \A b \in ToSet(groups) : b \in Backends \cup {"gone"}
    <3>1. groups \in Seq(Backends \cup {"gone"})
      BY DEF IInv, Typed
    <3>2. \A i \in DOMAIN groups : groups[i] \in Backends \cup {"gone"}
      BY <3>1, LenProperties, ElementOfSeq
    <3> QED
      BY <3>2 DEF ToSet
  <2>3. /\ DOMAIN out = DOMAIN segs /\ DOMAIN stream = DOMAIN manifest
        /\ DOMAIN batch = 1..Len(batch)
    <3>1. /\ out \in Seq(Sound) /\ segs \in Seq(Segment) /\ Len(out) = Len(segs)
          /\ stream \in Seq(Sound) /\ manifest \in Seq(Mark) /\ Len(manifest) = Len(stream)
          /\ batch \in Seq(Outcome)
      BY DEF IInv, Typed, Addressed
    <3> QED
      BY <3>1, LenProperties
  <2>4. \A k \in DOMAIN batch : batch[k].state \in {"none", "ok", "err"}
    <3> SUFFICES ASSUME NEW k \in 1..Len(batch) PROVE batch[k].state \in {"none", "ok", "err"}
      BY <2>3
    <3>1. batch[k] \in Outcome
      BY ElementOfSeq DEF IInv, Typed
    <3> QED
      BY <3>1 DEF Outcome
  <2>5. pc \in {"azure", "sherpa"} => Len(batch) = Len(Positions(Head(groups)))
    BY DEF IInv, Asked, Batching
  <2>6. DOMAIN tasks \subseteq DOMAIN batch /\ Cardinality(DOMAIN tasks) <= Concurrency
    BY <2>3 DEF IInv, InTheAir
  <2>7. \A k \in DOMAIN tasks : tasks[k].attempt \in 1..MaxAttempts
    BY DEF IInv, InTheAir, Request
  <2>8. ASSUME NEW w \in 1..Workers
        PROVE  /\ pc = "sherpa" => \A it \in ToSet(shards[renders][w]) : it.pos \in DOMAIN batch
               /\ holder[w] \in 0..MaxRenders /\ loaded[w] \subseteq Models
    <3>1. holder[w] \in 0..MaxRenders /\ loaded[w] \subseteq Models
      BY DEF IInv, Typed
    <3>2. ASSUME pc = "sherpa", NEW it \in ToSet(shards[renders][w])
          PROVE  it.pos \in DOMAIN batch
      <4>0. shards \in [1..MaxRenders -> [1..Workers -> Seq(Task)]] /\ renders \in 1..MaxRenders
        BY <3>2 DEF IInv, Typed, Rendering
      <4>1. shards[renders][w] \in Seq(Task)
        BY <2>8, <4>0
      <4>2. PICK j \in DOMAIN shards[renders][w] : it = shards[renders][w][j]
        BY <3>2 DEF ToSet
      <4>3. j \in 1..Len(shards[renders][w])
        BY <4>1, <4>2, LenProperties
      <4> QED
        BY <2>3, <3>2, <4>2, <4>3 DEF IInv, Sharded, OwnRequest
    <3> QED
      BY <3>1, <3>2
  <2> QED
    BY <2>1, <2>2, <2>3, <2>4, <2>5, <2>6, <2>7, <2>8 DEF TypeOK
<1> QED
  BY <1>1, SpeechIsSound, PTL

(* A published chapter says every word of its prose once, in order, each in*)
(* its turn's voice, and cutting its segments again changes nothing.       *)
THEOREM EveryWordIsSaid == Spec => []SaysEveryWord
<1>1. IInv => SaysEveryWord
  <2> SUFFICES ASSUME IInv, pc = "published"
               PROVE  /\ FlattenSeq([i \in DOMAIN stream |-> stream[i].says])
                           = FlattenSeq([i \in DOMAIN turns |-> Says(turns[i])])
                      /\ SplitBySentence(SplitBySentence(segs)) = SplitBySentence(segs)
    BY DEF SaysEveryWord
  <2>1. segs \in Seq(Segment) /\ stream \in Seq(Sound)
    BY DEF IInv, Typed
  <2>2. Len(stream) = Len(segs) /\ \A i \in 1..Len(segs) : stream[i].says = Says(segs[i])
    BY DEF IInv, AsRendered
  <2>3. DOMAIN stream = DOMAIN segs /\ DOMAIN segs = 1..Len(segs)
    BY <2>1, <2>2, LenProperties
  <2>4. [i \in DOMAIN stream |-> stream[i].says] = Sayings(segs)
    BY <2>2, <2>3 DEF Sayings
  <2>5. SayAll(segs) = SayAll(turns)
    BY DEF IInv, IsTheProse
  <2>6. FlattenSeq([i \in DOMAIN stream |-> stream[i].says])
          = FlattenSeq([i \in DOMAIN turns |-> Says(turns[i])])
    BY <2>4, <2>5 DEF SayAll, Sayings
  <2> QED
    BY <2>1, <2>6, SplittingLosesNothing
<1> QED
  BY <1>1, SpeechIsSound, PTL

(* Every millisecond of a chapter belongs to the one segment whose bytes are *)
(* at that offset of the stream, and the engine's own check never fails one. *)
THEOREM WhatIsShownIsPlayed == Spec => []ShownIsPlayed
<1>1. IInv => ShownIsPlayed
  <2> SUFFICES ASSUME IInv PROVE ShownIsPlayed
    OBVIOUS
  <2>1. stream \in Seq(Sound) /\ manifest \in Seq(Mark) /\ Len(manifest) = Len(stream)
    BY DEF IInv, Typed, Addressed
  <2>2. /\ Len(stream) \in Nat /\ DOMAIN stream = 1..Len(stream) /\ DOMAIN manifest = 1..Len(stream)
    BY <2>1, LenProperties
  <2>3. \A i \in 1..Len(stream) : stream[i].bytes \in Nat
    <3> SUFFICES ASSUME NEW i \in 1..Len(stream) PROVE stream[i].bytes \in Nat
      OBVIOUS
    <3>1. stream[i] \in Sound
      BY <2>1, ElementOfSeq
    <3> QED
      BY <3>1 DEF Sound
  <2>4. \A i \in 1..Len(stream) : manifest[i].start \in Nat /\ manifest[i].end \in Nat
    <3> SUFFICES ASSUME NEW i \in 1..Len(stream)
                 PROVE  manifest[i].start \in Nat /\ manifest[i].end \in Nat
      OBVIOUS
    <3>1. manifest[i] \in Mark
      BY <2>1, ElementOfSeq
    <3> QED
      BY <3>1 DEF Mark
  <2> DEFINE z == Bytes
             at(i) == Total(Before(z, i))
  <2>5. z \in Seq(Nat) /\ Len(z) = Len(stream) /\ \A i \in 1..Len(stream) : z[i] = stream[i].bytes
    <3>1. z \in [1..Len(stream) -> Nat] /\ \A i \in 1..Len(stream) : z[i] = stream[i].bytes
      BY <2>2, <2>3 DEF Bytes
    <3> HIDE DEF z
    <3> QED
      BY <2>2, <3>1, FunctionSeq
  <2>6. \A i \in 1..Len(stream) :
          /\ manifest[i].start * BytesPerMs = at(i)
          /\ manifest[i].end * BytesPerMs = manifest[i].start * BytesPerMs + z[i]
    BY <2>5 DEF IInv, Addressed
  <2> HIDE DEF z
  <2>7. \A i \in 1..Len(stream) : at(i) \in Nat /\ z[i] \in Nat
    <3> SUFFICES ASSUME NEW i \in 1..Len(stream) PROVE at(i) \in Nat /\ z[i] \in Nat
      OBVIOUS
    <3>1. i \in 1..(Len(z) + 1)
      BY <2>2, <2>5
    <3> QED
      BY <2>3, <2>5, <3>1, BeforeIs
  <2>8. \A i, j \in 1..Len(stream) : j < i => at(j) + z[j] <= at(i)
    <3> SUFFICES ASSUME NEW i \in 1..Len(stream), NEW j \in 1..Len(stream), j < i
                 PROVE  at(j) + z[j] <= at(i)
      OBVIOUS
    <3>1. i \in 1..(Len(z) + 1) /\ j \in 1..Len(z)
      BY <2>2, <2>5
    <3> QED
      BY <2>5, <3>1, SumsGrow
  <2> HIDE DEF at
  <2>9. ASSUME NEW i \in 1..Len(stream), NEW ms \in Nat,
               at(i) <= ms * BytesPerMs, ms * BytesPerMs < at(i) + z[i]
        PROVE  SegmentAtMs(ms) = {i}
    <3>1. \A j \in 1..Len(stream) : manifest[j].start <= ms <=> at(j) <= ms * BytesPerMs
      BY <2>4, <2>6 DEF BytesPerMs
    <3>2. \A j \in 1..Len(stream) : ms < manifest[j].end <=> ms * BytesPerMs < at(j) + z[j]
      <4> SUFFICES ASSUME NEW j \in 1..Len(stream)
                   PROVE  ms < manifest[j].end <=> ms * BytesPerMs < at(j) + z[j]
        OBVIOUS
      <4>1. manifest[j].end * BytesPerMs = at(j) + z[j]
        BY <2>6
      <4>2. manifest[j].end \in Nat
        BY <2>4
      <4> QED
        BY <4>1, <4>2 DEF BytesPerMs
    <3>3. \A j \in 1..Len(stream) : j < i => ~(ms < manifest[j].end)
      <4> SUFFICES ASSUME NEW j \in 1..Len(stream), j < i PROVE ~(ms * BytesPerMs < at(j) + z[j])
        BY <3>2
      <4> QED
        BY <2>7, <2>8, <2>9 DEF BytesPerMs
    <3>4. \A j \in 1..Len(stream) : i < j => ~(manifest[j].start <= ms)
      <4> SUFFICES ASSUME NEW j \in 1..Len(stream), i < j PROVE ~(at(j) <= ms * BytesPerMs)
        BY <3>1
      <4> QED
        BY <2>7, <2>8, <2>9 DEF BytesPerMs
    <3>5. manifest[i].start <= ms /\ ms < manifest[i].end
      BY <2>9, <3>1, <3>2
    <3>6. i \in SegmentAtMs(ms)
      <4>1. \A j \in 1..(i - 1) : j \in 1..Len(stream) /\ j < i
        BY <2>2
      <4> QED
        BY <2>2, <3>3, <3>5, <4>1 DEF SegmentAtMs
    <3>7. \A k \in SegmentAtMs(ms) : k = i
      <4> SUFFICES ASSUME NEW k \in SegmentAtMs(ms) PROVE k = i
        OBVIOUS
      <4>1. k \in 1..Len(stream) /\ manifest[k].start <= ms /\ ms < manifest[k].end
        BY <2>2 DEF SegmentAtMs
      <4> QED
        BY <3>3, <3>4, <4>1
    <3> QED
      BY <3>6, <3>7
  <2>10. ASSUME NEW i \in DOMAIN stream
         PROVE  LET before == Total([j \in 1..(i - 1) |-> stream[j].bytes]) IN
                \A ms \in 0..(Total([j \in DOMAIN stream |-> stream[j].bytes]) \div BytesPerMs) :
                  ms * BytesPerMs \in before..(before + stream[i].bytes - 1) => SegmentAtMs(ms) = {i}
    <3>1. i \in 1..Len(stream)
      BY <2>2
    <3> DEFINE before == Total([j \in 1..(i - 1) |-> stream[j].bytes])
    <3>2. before = at(i)
      <4>1. \A j \in 1..(i - 1) : stream[j].bytes = z[j]
        BY <2>2, <2>5, <3>1
      <4>2. [j \in 1..(i - 1) |-> stream[j].bytes] = Before(z, i)
        BY <4>1 DEF Before
      <4> QED
        BY <4>2 DEF at
    <3>3. ASSUME NEW top, NEW ms \in 0..top, ms * BytesPerMs \in before..(before + stream[i].bytes - 1)
          PROVE  SegmentAtMs(ms) = {i}
      <4> HIDE DEF before
      <4>1. before \in Nat /\ z[i] \in Nat /\ z[i] = stream[i].bytes
        BY <2>5, <2>7, <3>1, <3>2
      <4>2. ms \in Nat /\ at(i) <= ms * BytesPerMs /\ ms * BytesPerMs < at(i) + z[i]
        BY <3>2, <3>3, <4>1 DEF BytesPerMs
      <4> QED
        BY <2>9, <3>1, <4>2
    <3> QED
      BY <3>3
  <2>11. cause # "mismatch"
    BY DEF IInv, Typed
  <2> QED
    BY <2>10, <2>11 DEF ShownIsPlayed
<1> QED
  BY <1>1, SpeechIsSound, PTL

(* For any models, files and workers, and whatever is installed or removed *)
(* at any other time, sherpa-onnx exits the process only if a file was     *)
(* taken away between a worker finding it and the constructor opening it.  *)
THEOREM OnlyTheWindowAborts == Spec => []AbortsOnlyWhenSnatched
<1>1. IInv => AbortsOnlyWhenSnatched
  BY DEF IInv, FoundWhole
<1> QED
  BY <1>1, SpeechIsSound, PTL
==============================================================================
