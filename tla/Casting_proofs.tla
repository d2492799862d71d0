--------------------------- MODULE Casting_proofs ----------------------------
(***************************************************************************)
(* Proofs about module Casting, for any characters, voices, backends,      *)
(* scripts, orders and bounds: what is planned from sequences of voices,   *)
(* then the inductive invariant, which ties the rows of the cast to what a *)
(* cycle read and wrote of them, and both to the plan and to the audio.    *)
(***************************************************************************)
EXTENDS Casting, SequenceTheorems, FiniteSetTheorems, WellFoundedInduction, TLAPS

(* A set of numbers that is not empty has a least one.                     *)
LEMMA Least ==
  ASSUME NEW S \in SUBSET Nat, S # {}
  PROVE  \E m \in S : \A k \in S : m <= k
<1> DEFINE R == {ss \in Nat \X Nat : ss[1] < ss[2]}
<1>1. IsWellFoundedOn(R, Nat)
  BY NatLessThanWellFounded DEF OpToRel
<1> HIDE DEF R
<1>2. PICK x \in S : \A y \in S : ~ (<<y, x>> \in R)
  BY <1>1, WFMin
<1>3. ASSUME NEW y \in S
      PROVE  x <= y
  <2>1. x \in Nat /\ y \in Nat /\ ~ (<<y, x>> \in R)
    BY <1>2
  <2>2. ~(y < x)
    BY <2>1 DEF R
  <2> QED
    BY <2>1, <2>2
<1> QED
  BY <1>3

(* f is the joints of the first n of the sequences.                        *)
AreJoints(f, seqs, n) ==
  f = [i \in 1..n |-> IF i = 1 THEN seqs[i] ELSE f[i - 1] \o seqs[i]]

Joints(seqs) == CHOOSE f : AreJoints(f, seqs, Len(seqs))

(* What FlattenSeq gives is the last of them.                              *)
LEMMA FlattenSeqIs ==
  ASSUME NEW seqs
  PROVE  FlattenSeq(seqs) = IF Len(seqs) = 0 THEN seqs ELSE Joints(seqs)[Len(seqs)]
BY DEF FlattenSeq, Joints, AreJoints

(* There is such a function, by induction over n.                          *)
LEMMA JointsExist ==
  ASSUME NEW seqs, NEW n \in Nat
  PROVE  \E f : AreJoints(f, seqs, n)
<1> DEFINE Bad == {m \in Nat : ~\E f : AreJoints(f, seqs, m)}
<1> SUFFICES ASSUME n \in Bad PROVE FALSE
  OBVIOUS
<1>1. PICK m \in Bad : \A k \in Bad : m <= k
  <2>1. Bad \in SUBSET Nat /\ Bad # {}
    OBVIOUS
  <2> HIDE DEF Bad
  <2> QED
    BY <2>1, Least
<1>2. m # 0
  <2> DEFINE f == [i \in 1..0 |-> seqs[i]]
  <2>1. f = [i \in 1..0 |-> IF i = 1 THEN seqs[i] ELSE f[i - 1] \o seqs[i]]
    OBVIOUS
  <2>2. AreJoints(f, seqs, 0)
    BY <2>1 DEF AreJoints
  <2> QED
    BY <2>2
<1>3. m - 1 \in Nat /\ m - 1 \notin Bad
  <2>1. m \in Nat
    OBVIOUS
  <2>2. m - 1 \in Nat /\ ~(m <= m - 1)
    BY <2>1, <1>2
  <2> HIDE DEF Bad
  <2> QED
    BY <1>1, <2>2
<1>4. PICK f : AreJoints(f, seqs, m - 1)
  BY <1>3
<1> DEFINE last == IF m = 1 THEN seqs[m] ELSE f[m - 1] \o seqs[m]
           h == [i \in 1..m |-> IF i = m THEN last ELSE f[i]]
<1>5. h = [i \in 1..m |-> IF i = 1 THEN seqs[i] ELSE h[i - 1] \o seqs[i]]
  <2>1. f = [i \in 1..(m - 1) |-> IF i = 1 THEN seqs[i] ELSE f[i - 1] \o seqs[i]]
    BY <1>4 DEF AreJoints
  <2>2. ASSUME NEW i \in 1..m
        PROVE  h[i] = IF i = 1 THEN seqs[i] ELSE h[i - 1] \o seqs[i]
    <3>1. CASE i = m
      <4>1. h[i] = last /\ (m # 1 => h[m - 1] = f[m - 1])
        BY <1>3, <3>1
      <4> HIDE DEF h
      <4> QED
        BY <1>2, <3>1, <4>1
    <3>2. CASE i # m
      <4>1. i \in 1..(m - 1) /\ h[i] = f[i] /\ (i # 1 => h[i - 1] = f[i - 1])
        BY <1>3, <3>2
      <4> HIDE DEF h
      <4>2. f[i] = IF i = 1 THEN seqs[i] ELSE f[i - 1] \o seqs[i]
        BY <2>1, <4>1
      <4> QED
        BY <4>1, <4>2
    <3> QED
      BY <3>1, <3>2
  <2>3. h = [i \in 1..m |-> h[i]]
    OBVIOUS
  <2> HIDE DEF h
  <2> QED
    BY <2>2, <2>3
<1>6. AreJoints(h, seqs, m)
  BY <1>5 DEF AreJoints
<1> QED
  BY <1>6

(* So each joint is the one before with the next sequence.                 *)
LEMMA JointsAre ==
  ASSUME NEW seqs, Len(seqs) \in Nat
  PROVE  \A i \in 1..Len(seqs) :
           Joints(seqs)[i] = IF i = 1 THEN seqs[i] ELSE Joints(seqs)[i - 1] \o seqs[i]
<1> DEFINE f == Joints(seqs)
<1>1. AreJoints(f, seqs, Len(seqs))
  BY JointsExist DEF Joints
<1> HIDE DEF f
<1>2. f = [i \in 1..Len(seqs) |-> IF i = 1 THEN seqs[i] ELSE f[i - 1] \o seqs[i]]
  BY <1>1 DEF AreJoints
<1>3. ASSUME NEW i \in 1..Len(seqs)
      PROVE  f[i] = IF i = 1 THEN seqs[i] ELSE f[i - 1] \o seqs[i]
  BY <1>2
<1> QED
  BY <1>3 DEF f

(* What is joined of sequences over a set is one, and not empty if one of  *)
(* them is not.                                                            *)
LEMMA Flattened ==
  ASSUME NEW A, NEW seqs \in Seq(Seq(A))
  PROVE  /\ FlattenSeq(seqs) \in Seq(A)
         /\ (\E i \in DOMAIN seqs : seqs[i] # <<>>) => FlattenSeq(seqs) # <<>>
<1> DEFINE f == Joints(seqs)
           len == Len(seqs)
           Good(i) == f[i] \in Seq(A) /\ ((\E j \in 1..i : seqs[j] # <<>>) => f[i] # <<>>)
           Bad == {i \in 1..len : ~Good(i)}
<1>1. len \in Nat /\ DOMAIN seqs = 1..len /\ \A i \in 1..len : seqs[i] \in Seq(A)
  BY LenProperties, ElementOfSeq
<1>2. \A i \in 1..len : f[i] = IF i = 1 THEN seqs[i] ELSE f[i - 1] \o seqs[i]
  BY <1>1, JointsAre
<1> HIDE DEF f, len
<1>3. Bad = {}
  <2> SUFFICES ASSUME Bad # {} PROVE FALSE
    OBVIOUS
  <2>1. PICK i \in Bad : \A k \in Bad : i <= k
    <3>1. Bad \in SUBSET Nat
      BY <1>1
    <3> HIDE DEF Bad
    <3> QED
      BY <3>1, Least
  <2>2. i \in 1..len /\ ~Good(i)
    OBVIOUS
  <2>3. CASE i = 1
    <3>1. f[i] = seqs[i]
      BY <1>2, <2>2, <2>3
    <3> QED
      BY <1>1, <2>2, <2>3, <3>1
  <2>4. CASE i # 1
    <3>1. i - 1 \in 1..len /\ ~(i <= i - 1)
      BY <1>1, <2>2, <2>4
    <3>2. Good(i - 1)
      <4>1. i - 1 \notin Bad
        <5> HIDE DEF Bad
        <5> QED
          BY <2>1, <3>1
      <4> QED
        BY <3>1, <4>1
    <3>3. f[i] = f[i - 1] \o seqs[i]
      BY <1>2, <2>2, <2>4
    <3>4. f[i] \in Seq(A) /\ Len(f[i]) = Len(f[i - 1]) + Len(seqs[i])
      BY <1>1, <2>2, <3>2, <3>3, ConcatProperties
    <3>5. ASSUME NEW j \in 1..i, seqs[j] # <<>>
          PROVE  f[i] # <<>>
      <4>1. f[i - 1] # <<>> \/ seqs[i] # <<>>
        <5>1. j = i \/ j \in 1..(i - 1)
          BY <1>1, <2>2
        <5> QED
          BY <3>2, <3>5, <5>1
      <4>2. f[i - 1] \in Seq(A) /\ seqs[i] \in Seq(A)
        BY <1>1, <2>2, <3>2
      <4> QED
        BY <3>3, <4>1, <4>2, ConcatEmptySeq
    <3> QED
      BY <2>2, <3>4, <3>5
  <2> QED
    BY <2>3, <2>4
<1>4. CASE len = 0
  <2>1. seqs = <<>> /\ FlattenSeq(seqs) = seqs
    BY <1>4, FlattenSeqIs, EmptySeq DEF len
  <2>2. DOMAIN seqs = {} /\ seqs \in Seq(A)
    BY <1>1, <1>4, <2>1, EmptySeq
  <2> QED
    BY <2>1, <2>2
<1>5. CASE len # 0
  <2>1. FlattenSeq(seqs) = f[len]
    BY <1>5, FlattenSeqIs DEF len, f
  <2>2. len \in 1..len
    BY <1>1, <1>5
  <2>3. Good(len)
    BY <1>3, <2>2
  <2> QED
    BY <1>1, <2>1, <2>3
<1> QED
  BY <1>4, <1>5

(* Those of S that are in T.                                               *)
LEMMA ThoseAre ==
  ASSUME NEW A, NEW S \in Seq(A), NEW T
  PROVE  /\ Those(S, T) \in Seq(A \cap T)
         /\ (\E i \in DOMAIN S : S[i] \in T) => Those(S, T) # <<>>
<1> DEFINE parts == [i \in DOMAIN S |-> IF S[i] \in T THEN <<S[i]>> ELSE <<>>]
<1>1. DOMAIN S = 1..Len(S) /\ Len(S) \in Nat /\ \A i \in DOMAIN S : S[i] \in A
  BY LenProperties, ElementOfSeq
<1>2. \A i \in DOMAIN S : parts[i] \in Seq(A \cap T)
  <2>1. ASSUME NEW i \in DOMAIN S
        PROVE  parts[i] \in Seq(A \cap T)
    <3>1. CASE S[i] \in T
      <4>1. parts[i] = <<S[i]>> /\ S[i] \in A \cap T
        BY <1>1, <3>1
      <4> QED
        BY <4>1
    <3>2. CASE S[i] \notin T
      BY <3>2, EmptySeq
    <3> QED
      BY <3>1, <3>2
  <2> QED
    BY <2>1
<1>3. parts \in Seq(Seq(A \cap T))
  <2>1. parts \in [1..Len(S) -> Seq(A \cap T)]
    BY <1>1, <1>2
  <2> QED
    BY <1>1, <2>1, SeqDef
<1>4. DOMAIN parts = DOMAIN S
  OBVIOUS
<1>5. \A i \in DOMAIN S : S[i] \in T => parts[i] # <<>>
  OBVIOUS
<1>6. Those(S, T) = FlattenSeq(parts)
  BY DEF Those
<1> HIDE DEF parts
<1> QED
  BY <1>3, <1>4, <1>5, <1>6, Flattened

(* Interleaving gives nothing that was not there.                          *)
LEMMA InterleaveIs ==
  ASSUME NEW A, NEW S \in Seq(A)
  PROVE  InterleaveByGender(S) \in Seq(A)
<1> DEFINE group == [g \in DOMAIN Genders |-> Those(S, {v \in Voices : GenderOf[v] = Genders[g]})]
           turn(i, g) == IF i \in DOMAIN group[g] THEN <<group[g][i]>> ELSE <<>>
           round(i) == [g \in DOMAIN Genders |-> turn(i, g)]
           rounds == [i \in DOMAIN S |-> FlattenSeq(round(i))]
<1>1. \A g \in DOMAIN Genders : group[g] \in Seq(A)
  <2>1. ASSUME NEW g \in DOMAIN Genders
        PROVE  group[g] \in Seq(A)
    <3> DEFINE T == {v \in Voices : GenderOf[v] = Genders[g]}
    <3>1. group[g] = Those(S, T)
      OBVIOUS
    <3> HIDE DEF T, group
    <3>2. Those(S, T) \in Seq(A \cap T)
      BY ThoseAre
    <3> QED
      BY <3>1, <3>2
  <2> QED
    BY <2>1
<1>2. InterleaveByGender(S) = FlattenSeq(rounds)
  BY DEF InterleaveByGender
<1> HIDE DEF group
<1>3. \A i \in DOMAIN S, g \in DOMAIN Genders : turn(i, g) \in Seq(A)
  <2>1. ASSUME NEW i \in DOMAIN S, NEW g \in DOMAIN Genders
        PROVE  turn(i, g) \in Seq(A)
    <3>1. group[g] \in Seq(A)
      BY <1>1
    <3>2. CASE i \in DOMAIN group[g]
      <4>1. group[g][i] \in A
        BY <3>1, <3>2, ElementOfSeq, LenProperties
      <4> QED
        BY <3>2, <4>1
    <3> QED
      BY <3>2
  <2> QED
    BY <2>1
<1> HIDE DEF turn
<1>4. DOMAIN Genders = 1..Len(Genders) /\ Len(Genders) \in Nat
  BY VoicesAssumption, LenProperties
<1>5. \A i \in DOMAIN S : round(i) \in Seq(Seq(A))
  <2>1. ASSUME NEW i \in DOMAIN S
        PROVE  round(i) \in Seq(Seq(A))
    <3>1. round(i) \in [1..Len(Genders) -> Seq(A)]
      BY <1>3, <1>4
    <3> QED
      BY <1>4, <3>1, SeqDef
  <2> QED
    BY <2>1
<1> HIDE DEF round
<1>6. \A i \in DOMAIN S : FlattenSeq(round(i)) \in Seq(A)
  BY <1>5, Flattened
<1>7. rounds \in Seq(Seq(A))
  <2>1. DOMAIN S = 1..Len(S) /\ Len(S) \in Nat
    BY LenProperties
  <2>2. rounds \in [1..Len(S) -> Seq(A)]
    BY <1>6, <2>1
  <2> QED
    BY <2>1, <2>2, SeqDef
<1> HIDE DEF rounds
<1> QED
  BY <1>2, <1>7, Flattened

(* There is a first of S that is in T, if any is.                          *)
LEMMA FirstIndexIs ==
  ASSUME NEW A, NEW S \in Seq(A), NEW T, \E i \in DOMAIN S : S[i] \in T
  PROVE  FirstIndex(S, T) \in DOMAIN S /\ S[FirstIndex(S, T)] \in A \cap T
<1> DEFINE In == {i \in DOMAIN S : S[i] \in T}
<1>1. DOMAIN S = 1..Len(S) /\ Len(S) \in Nat /\ \A i \in DOMAIN S : S[i] \in A
  BY LenProperties, ElementOfSeq
<1>2. PICK i \in In : \A k \in In : i <= k
  <2>1. In \in SUBSET Nat /\ In # {}
    BY <1>1
  <2> HIDE DEF In
  <2> QED
    BY <2>1, Least
<1>3. ASSUME NEW j \in 1..(i - 1)
      PROVE  S[j] \notin T
  <2>1. i \in 1..Len(S) /\ j \in DOMAIN S /\ ~(i <= j)
    BY <1>1
  <2>2. j \notin In
    <3> HIDE DEF In
    <3> QED
      BY <1>2, <2>1
  <2> QED
    BY <2>1, <2>2
<1>4. FirstIndex(S, T) \in DOMAIN S /\ S[FirstIndex(S, T)] \in T
  <2>1. \E k \in DOMAIN S : S[k] \in T /\ \A j \in 1..(k - 1) : S[j] \notin T
    BY <1>3
  <2> QED
    BY <2>1 DEF FirstIndex
<1> QED
  BY <1>1, <1>4

(* So the first of S that is in T, or the default.                         *)
LEMMA FirstOfIs ==
  ASSUME NEW A, NEW S \in Seq(A), NEW T, NEW default
  PROVE  \/ FirstOf(S, T, default) \in A \cap T
         \/ FirstOf(S, T, default) = default /\ \A i \in DOMAIN S : S[i] \notin T
BY FirstIndexIs DEF FirstOf

(* The voice plan names usable voices only, and the pool has neither the   *)
(* narrator's nor the system's.                                            *)
LEMMA VoicesPlanned ==
  ASSUME NEW B \in SUBSET Backends, B # {}
  PROVE  LET p == PlanVoices(B) IN
         /\ p.narrator \in UsableVoices(B) /\ p.system \in UsableVoices(B)
         /\ p.pool \in Seq(UsableVoices(B) \ {p.narrator, p.system})
<1> DEFINE U == UsableVoices(B)
           adv == Those(Advertised, U)
           nar == IF Usable(ConfigNarrator, B) THEN ConfigNarrator ELSE adv[1]
           sys == IF Usable(ConfigSystem, B) THEN ConfigSystem
                  ELSE FirstOf(adv, Voices \ {nar}, nar)
           kept == Those(ConfigPool, U \ {nar, sys})
           others == InterleaveByGender(Those(adv, Voices \ {nar, sys}))
           pl == IF kept # <<>> THEN kept ELSE others
<1>1. PlanVoices(B) = [narrator |-> nar, system |-> sys, pool |-> pl]
  BY DEF PlanVoices
<1>2. adv \in Seq(U) /\ adv # <<>>
  <2>1. PICK b \in B : TRUE
    OBVIOUS
  <2>2. PICK i \in DOMAIN Advertised : BackendOf[Advertised[i]] = b
    BY <2>1, BackendsAssumption DEF BackendsAssumption
  <2>3. Advertised[i] \in Voices
    BY <2>2, VoicesAssumption, LenProperties, ElementOfSeq DEF VoicesAssumption
  <2>4. Advertised[i] \in U
    BY <2>1, <2>2, <2>3 DEF UsableVoices, Usable
  <2>5. Voices \cap U = U
    BY DEF UsableVoices
  <2> HIDE DEF U
  <2>6. adv \in Seq(Voices \cap U) /\ adv # <<>>
    BY <2>4, ThoseAre, VoicesAssumption DEF VoicesAssumption
  <2> QED
    BY <2>5, <2>6
<1>3. \A v \in Voices : v \in U <=> Usable(v, B)
  BY DEF UsableVoices
<1>4. U \subseteq Voices
  BY DEF UsableVoices
<1> HIDE DEF U, adv
<1>5. adv[1] \in U
  BY <1>2, EmptySeq, LenProperties, ElementOfSeq
<1>6. nar \in U
  BY <1>3, <1>5, VoicesAssumption DEF VoicesAssumption
<1> HIDE DEF nar
<1>7. sys \in U
  BY <1>2, <1>3, <1>6, FirstOfIs, VoicesAssumption DEF VoicesAssumption
<1> HIDE DEF sys
<1>8. kept \in Seq(U \ {nar, sys})
  <2> DEFINE T == U \ {nar, sys}
  <2>1. Voices \cap T = T
    BY <1>4
  <2> HIDE DEF T
  <2>2. Those(ConfigPool, T) \in Seq(Voices \cap T)
    BY ThoseAre, VoicesAssumption DEF VoicesAssumption
  <2> QED
    BY <2>1, <2>2 DEF T
<1>9. others \in Seq(U \ {nar, sys})
  <2> DEFINE T == Voices \ {nar, sys}
             R == Those(adv, T)
  <2>1. U \cap T = U \ {nar, sys}
    BY <1>4
  <2> HIDE DEF T
  <2>2. R \in Seq(U \cap T)
    BY <1>2, ThoseAre
  <2> HIDE DEF R
  <2>3. InterleaveByGender(R) \in Seq(U \cap T)
    BY <2>2, InterleaveIs
  <2> QED
    BY <2>1, <2>3 DEF R, T
<1> HIDE DEF kept, others
<1> QED
  BY <1>1, <1>6, <1>7, <1>8, <1>9 DEF U

Chapter == [script : Scripts, voices : Seq(Voices), audio : BOOLEAN, build : SUBSET Backends]
CastRow == [voice : Voices, by : {"engine", "operator"}]

(* The rows of the cast are finitely many, and so are the copies of them.  *)
Finite ==
  IsFiniteSet(DOMAIN cast) /\ IsFiniteSet(DOMAIN known) /\ IsFiniteSet(DOMAIN newcast)

(* A chapter that was inserted has its speakers in the cast, and a voiced  *)
(* one a voice for each of its segments.                                   *)
ShelfOK ==
  /\ shelf \in Seq(Chapter)
  /\ \A n \in DOMAIN shelf :
       /\ \A i \in DOMAIN shelf[n].script : shelf[n].script[i] \in DOMAIN cast
       /\ shelf[n].audio \/ shelf[n].voices # <<>> =>
            DOMAIN shelf[n].voices = DOMAIN shelf[n].script

Planned == pc \in {"pass2", "regender", "substitute", "render"}

(* What a cycle works with: rows of the cast, newcomers that speak in the  *)
(* chapter, and a plan that gives a speaker one voice.                     *)
CycleOK ==
  /\ pc \in {"down", "idle", "fresh"} => known = NoRows /\ newcast = NoRows
  /\ DOMAIN known \subseteq DOMAIN cast /\ DOMAIN newcast \subseteq DOMAIN cast
  /\ DOMAIN known \cap DOMAIN newcast = {}
  /\ \A s \in DOMAIN newcast : \E i \in DOMAIN script : script[i] = s
  /\ pc = "cast" \/ Planned => script \in Scripts
  /\ Planned =>
       /\ DOMAIN plan = DOMAIN script
       /\ \A i \in DOMAIN script : script[i] \in DOMAIN cast
       /\ \A i, j \in DOMAIN script : script[i] = script[j] => plan[i] = plan[j]
  /\ pc = "regender" => todo \subseteq DOMAIN newcast \cap Characters
  /\ pc = "substitute" => todo = {script[i] : i \in Unusable}
  /\ pc = "render" => Unusable = {}

ByEngine(s) == s \in DOMAIN cast /\ cast[s].by = "engine"

(* While speakers are cast, the rows the engine set last are those it knew *)
(* and those it wrote.                                                     *)
RowsSeen ==
  pc \in {"cast", "pass2"} =>
    \A s \in Speakers : ByEngine(s) =>
      \/ s \in DOMAIN known /\ cast[s].voice = known[s]
      \/ s \in DOMAIN newcast /\ cast[s].voice = newcast[s]

(* A newcomer's voice is nobody else's, and pass 2 knows the voices that   *)
(* are taken.                                                              *)
NewVoices ==
  ~crowded /\ pc \in {"cast", "pass2"} =>
    \A s \in Characters \cap DOMAIN newcast :
      /\ newcast[s] \notin VoicesOf(known)
      /\ \A t \in Characters \cap DOMAIN newcast : newcast[t] = newcast[s] => t = s

VoicesToCorrect ==
  ~crowded /\ pc = "regender" =>
    /\ \A s \in todo :
         /\ newcast[s] \in taken
         /\ \A t \in todo : newcast[t] = newcast[s] => t = s
         /\ \A t \in Characters : ByEngine(t) /\ cast[t].voice = newcast[s] => t = s
    /\ \A t \in Characters : ByEngine(t) => cast[t].voice \in taken

(* Who speaks in a chapter with audio is no newcomer.                      *)
VoicedAreKnown ==
  pc \in {"cast", "pass2", "regender"} =>
    \A n \in DOMAIN shelf : shelf[n].audio =>
      \A i \in DOMAIN shelf[n].script : shelf[n].script[i] \in DOMAIN known

(* The plan is in the voices of the cast, as far as this build has them.   *)
PlanMatchesCast ==
  Planned =>
    \A i \in DOMAIN plan :
      ByEngine(script[i]) /\ Usable(cast[script[i]].voice, build) =>
        plan[i] = cast[script[i]].voice

(* A voice that stands in for another is of the narrator or the system, or *)
(* nobody else's; those still in use and usable are known to the pass.     *)
StandInsOwn ==
  pc \in {"substitute", "render"} =>
    /\ pc = "substitute" =>
         \A i \in DOMAIN plan : Usable(plan[i], build) => plan[i] \in taken
    /\ \A i, j \in DOMAIN plan :
         plan[i] # meant[i] /\ plan[j] = plan[i] /\ script[j] # script[i] =>
           plan[i] \in {narrator, system}

Typed == TypeOK /\ Finite /\ ShelfOK /\ CycleOK

IInv ==
  /\ Typed /\ RowsSeen /\ NewVoices /\ VoicesToCorrect /\ VoicedAreKnown /\ PlanMatchesCast
  /\ DistinctUnlessCrowded /\ AudioMatchesCast /\ StandInsOwn
-----------------------------------------------------------------------------
(* What the steps that choose do.                                          *)

(* The voices that are taken are voices.                                   *)
LEMMA VoicesAreTyped ==
  ASSUME TypeOK
  PROVE  Taken \subseteq Voices /\ VoicesOf(known) \subseteq Voices
BY DEF TypeOK, Taken, VoicesOf, RowsOK

(* How many were drawn is a number.                                        *)
LEMMA DrawnIsNatural ==
  ASSUME Finite
  PROVE  Drawn \in Nat
<1> DEFINE K == {s \in DOMAIN known : \E i \in DOMAIN pool : pool[i] = known[s]}
           N == {s \in DOMAIN newcast : \E i \in DOMAIN pool : pool[i] = newcast[s]}
<1>1. IsFiniteSet(K) /\ IsFiniteSet(N)
  <2>1. K \subseteq DOMAIN known /\ N \subseteq DOMAIN newcast
    OBVIOUS
  <2> HIDE DEF K, N
  <2> QED
    BY <2>1, FS_Subset DEF Finite
<1>2. Drawn = Cardinality(K) + Cardinality(N)
  BY DEF Drawn
<1> HIDE DEF K, N
<1> QED
  BY <1>1, <1>2, FS_CardinalityType

(* A drawn voice is a voice, and one that is free if any of the pool is.   *)
LEMMA DrawIs ==
  ASSUME TypeOK, Finite
  PROVE  DrawCharacterVoice \in Voices /\ (SomeFree => DrawCharacterVoice \notin Taken)
<1>1. pool \in Seq(Voices) /\ narrator \in Voices
  BY DEF TypeOK
<1>2. CASE SomeFree
  <2>1. \E i \in DOMAIN pool : pool[i] \in Voices \ Taken
    BY <1>1, <1>2, ElementOfSeq, LenProperties DEF SomeFree
  <2>2. FirstOf(pool, Voices \ Taken, narrator) \in Voices \cap (Voices \ Taken)
    BY <1>1, <2>1, FirstOfIs
  <2> QED
    BY <1>2, <2>2 DEF DrawCharacterVoice
<1>3. CASE ~SomeFree /\ pool = <<>>
  BY <1>1, <1>3 DEF DrawCharacterVoice
<1>4. CASE ~SomeFree /\ pool # <<>>
  <2>1. Len(pool) \in Nat \ {0} /\ Drawn \in Nat
    BY <1>1, <1>4, DrawnIsNatural, LenProperties, EmptySeq
  <2>2. (Drawn % Len(pool)) + 1 \in 1..Len(pool)
    BY <2>1
  <2> QED
    BY <1>1, <1>4, <2>2, ElementOfSeq DEF DrawCharacterVoice
<1> QED
  BY <1>2, <1>3, <1>4

(* A script is a sequence of speakers.                                     *)
LEMMA SpeakersOfScripts ==
  ASSUME NEW lines \in Scripts
  PROVE  /\ lines \in Seq(Speakers) /\ DOMAIN lines = 1..Len(lines) /\ Len(lines) \in Nat
         /\ \A i \in DOMAIN lines : lines[i] \in Speakers
BY SpeakersAssumption, LenProperties, ElementOfSeq

(* The next to be cast is one nobody has seen, and gets a drawn voice.     *)
LEMMA CastNextIs ==
  ASSUME Typed, CastNext
  PROVE  \E i \in DOMAIN script, v \in Voices :
           /\ script[i] \in Speakers \ Seen
           /\ newcast' = [t \in DOMAIN newcast \cup {script[i]} |->
                            IF t = script[i] THEN v ELSE newcast[t]]
           /\ Upsert(script[i], v, "engine")
           /\ crowded' \in BOOLEAN
           /\ ~crowded' => ~crowded /\ (script[i] \in Characters => v \notin Taken)
<1>1. Uncast \subseteq DOMAIN script /\ Uncast # {} /\ pc = "cast"
  BY DEF CastNext, Uncast
<1>2. script \in Scripts
  BY <1>1 DEF Typed, CycleOK
<1> DEFINE i == CHOOSE i \in Uncast : \A j \in Uncast : i <= j
           s == script[i]
           v == VoiceFor(s)
<1>3. i \in Uncast
  <2>1. Uncast \in SUBSET Nat
    BY <1>1, <1>2, SpeakersOfScripts
  <2>2. \E k \in Uncast : \A j \in Uncast : k <= j
    BY <1>1, <2>1, Least
  <2> QED
    BY <2>2
<1>4. /\ newcast' = [t \in DOMAIN newcast \cup {s} |-> IF t = s THEN v ELSE newcast[t]]
      /\ Upsert(s, v, "engine")
      /\ crowded' = (crowded \/ (s \in Characters /\ ~SomeFree))
  BY DEF CastNext
<1> HIDE DEF i
<1>5. i \in DOMAIN script /\ s \in Speakers /\ s \notin Seen
  BY <1>1, <1>2, <1>3, SpeakersOfScripts DEF Uncast
<1> HIDE DEF s
<1>6. v \in Voices /\ (s \in Characters /\ SomeFree => v \notin Taken)
  <2>1. s \in Characters => s # "narrator" /\ s # "SYSTEM"
    BY SpeakersAssumption DEF Roles
  <2>2. narrator \in Voices /\ system \in Voices
    BY DEF Typed, TypeOK
  <2>3. DrawCharacterVoice \in Voices /\ (SomeFree => DrawCharacterVoice \notin Taken)
    BY DrawIs DEF Typed
  <2> QED
    BY <2>1, <2>2, <2>3 DEF VoiceFor
<1> HIDE DEF v
<1>7. ~crowded' => ~crowded /\ (s \in Characters => v \notin Taken)
  BY <1>4, <1>6
<1>8. crowded' \in BOOLEAN
  BY <1>4 DEF Typed, TypeOK
<1> QED
  BY <1>4, <1>5, <1>6, <1>7, <1>8 DEF s

(* The next to be corrected keeps the voice or gets one that is free.      *)
LEMMA RegenderNextIs ==
  ASSUME Typed, RegenderNext
  PROVE  \E s \in todo :
           /\ s \in DOMAIN newcast /\ newcast[s] \in Voices
           /\ todo' = todo \ {s}
           /\ \/ UNCHANGED <<cast, taken, plan>>
              \/ \E v \in Voices \ taken :
                   /\ Upsert(s, v, "engine")
                   /\ taken' = (taken \ {newcast[s]}) \cup {v}
                   /\ plan' = Replan(s, v)
<1>1. pc = "regender" /\ todo # {} /\ todo \subseteq DOMAIN newcast /\ script \in Scripts
  BY DEF RegenderNext, Typed, CycleOK, Planned
<1>2. \A s \in todo : \E i \in DOMAIN script : script[i] = s
  BY <1>1 DEF Typed, CycleOK
<1>3. ASSUME NEW s \in todo
      PROVE  FirstLine(s) \in Nat
  <2> DEFINE Lines == {i \in DOMAIN script : script[i] = s}
  <2>1. Lines \in SUBSET Nat /\ Lines # {}
    BY <1>1, <1>2, SpeakersOfScripts
  <2>2. PICK i \in Lines : \A k \in Lines : i <= k
    <3> HIDE DEF Lines
    <3> QED
      BY <2>1, Least
  <2>3. ASSUME NEW j \in 1..(i - 1)
        PROVE  script[j] # s
    <3>1. i \in 1..Len(script) /\ Len(script) \in Nat /\ DOMAIN script = 1..Len(script)
      BY <1>1, SpeakersOfScripts
    <3>2. j \in DOMAIN script /\ ~(i <= j)
      BY <3>1
    <3>3. j \notin Lines
      <4> HIDE DEF Lines
      <4> QED
        BY <2>2, <3>2
    <3> QED
      BY <3>2, <3>3
  <2>4. \E k \in DOMAIN script : script[k] = s /\ \A j \in 1..(k - 1) : script[j] # s
    BY <2>3
  <2> QED
    BY <1>1, <2>4, SpeakersOfScripts DEF FirstLine
<1> DEFINE s == CHOOSE s \in todo : \A t \in todo : FirstLine(s) <= FirstLine(t)
           match == {v \in Voices : GenderOf[v] = Sex[s]} \ taken
           now == newcast[s]
           v == IF GenderOf[now] = Sex[s] THEN now ELSE FirstOf(pool, match, now)
<1>4. s \in todo
  <2> DEFINE Firsts == {FirstLine(t) : t \in todo}
  <2>1. PICK m \in Firsts : \A k \in Firsts : m <= k
    <3>1. Firsts \in SUBSET Nat /\ Firsts # {}
      BY <1>1, <1>3
    <3> HIDE DEF Firsts
    <3> QED
      BY <3>1, Least
  <2>2. PICK u \in todo : m = FirstLine(u)
    OBVIOUS
  <2>3. \A t \in todo : FirstLine(t) \in Firsts
    OBVIOUS
  <2> HIDE DEF Firsts
  <2>4. \E t \in todo : \A w \in todo : FirstLine(t) <= FirstLine(w)
    BY <2>1, <2>2, <2>3
  <2> QED
    BY <2>4
<1>5. /\ todo' = todo \ {s}
      /\ IF v = now THEN UNCHANGED <<cast, taken, plan>>
         ELSE /\ Upsert(s, v, "engine")
              /\ taken' = (taken \ {now}) \cup {v}
              /\ plan' = Replan(s, v)
  BY DEF RegenderNext
<1> HIDE DEF s
<1>6. s \in DOMAIN newcast /\ now \in Voices /\ pool \in Seq(Voices)
  BY <1>1, <1>4 DEF Typed, TypeOK, RowsOK
<1>7. v = now \/ v \in Voices \ taken
  <2>1. match \subseteq Voices \ taken
    OBVIOUS
  <2> HIDE DEF match, now
  <2>2. FirstOf(pool, match, now) \in Voices \cap match \/ FirstOf(pool, match, now) = now
    BY <1>6, FirstOfIs
  <2> QED
    BY <2>1, <2>2
<1> HIDE DEF v
<1> QED
  BY <1>4, <1>5, <1>6, <1>7

(* What the pass finds when it begins: who has no usable voice.            *)
LEMMA BeginSubstitutionIs ==
  ASSUME NEW lines \in Scripts, NEW p \in Seq(Voices), DOMAIN p = DOMAIN lines,
         BeginSubstitution(lines, p), build' = build
  PROVE  /\ plan' = p /\ meant' = p /\ pc' = "substitute"
         /\ taken' \subseteq Voices /\ todo' \subseteq Speakers
         /\ Unusable' \subseteq DOMAIN p
         /\ todo' = {lines[i] : i \in Unusable'}
         /\ \A i \in DOMAIN p : Usable(p[i], build) => p[i] \in taken'
<1>1. \A i \in DOMAIN p : p[i] \in Voices /\ lines[i] \in Speakers
  BY ElementOfSeq, LenProperties, SpeakersOfScripts
<1>2. Unusable' = {i \in DOMAIN p : ~Usable(p[i], build)}
  BY DEF BeginSubstitution, Unusable, Usable
<1> QED
  BY <1>1, <1>2 DEF BeginSubstitution

(* A substitute is a usable voice, of the narrator or the system or nobody *)
(* else's, and only unusable segments get it.                              *)
LEMMA SubstituteNextIs ==
  ASSUME Typed, SubstituteNext
  PROVE  \E s \in Speakers, v \in Voices :
           /\ plan' = [j \in DOMAIN plan |-> IF j \in Unusable /\ script[j] = s THEN v ELSE plan[j]]
           /\ taken' = taken \cup {v} /\ todo' = todo \ {s}
           /\ Usable(v, build) /\ (v \in taken => v \in {narrator, system})
<1>1. pc = "substitute" /\ todo # {} /\ Unusable \subseteq DOMAIN plan
  BY DEF SubstituteNext, Unusable
<1>2. script \in Scripts /\ DOMAIN plan = DOMAIN script /\ todo = {script[i] : i \in Unusable}
  BY <1>1 DEF Typed, CycleOK, Planned
<1> DEFINE left == {i \in Unusable : script[i] \in todo}
           i == CHOOSE i \in left : \A j \in left : i <= j
           s == script[i]
           v == StandIn(s)
<1>3. i \in left
  <2>1. left \in SUBSET Nat
    BY <1>1, <1>2, SpeakersOfScripts
  <2>2. left # {}
    BY <1>1, <1>2
  <2> HIDE DEF left
  <2>3. \E k \in left : \A j \in left : k <= j
    BY <2>1, <2>2, Least
  <2> QED
    BY <2>3
<1>4. /\ plan' = [j \in DOMAIN plan |-> IF j \in Unusable /\ script[j] = s THEN v ELSE plan[j]]
      /\ taken' = taken \cup {v} /\ todo' = todo \ {s}
  BY DEF SubstituteNext
<1> HIDE DEF i
<1>5. s \in Speakers
  BY <1>1, <1>2, <1>3, SpeakersOfScripts
<1> HIDE DEF s
<1>6. v \in Voices /\ Usable(v, build) /\ (v \in taken => v \in {narrator, system})
  <2>1. /\ narrator \in Voices /\ system \in Voices /\ pool \in Seq(Voices)
        /\ Usable(narrator, build) /\ Usable(system, build)
    BY <1>1 DEF Typed, TypeOK, PlanOK
  <2> DEFINE T == UsableVoices(build) \ taken
  <2>2. \A w \in T : w \in Voices /\ Usable(w, build) /\ w \notin taken
    BY DEF UsableVoices
  <2> HIDE DEF T
  <2>3. FirstOf(pool, T, narrator) \in Voices \cap T \/ FirstOf(pool, T, narrator) = narrator
    BY <2>1, FirstOfIs
  <2>4. v \in {narrator, system, FirstOf(pool, T, narrator)}
    BY DEF StandIn, T
  <2> HIDE DEF v
  <2> QED
    BY <2>1, <2>2, <2>3, <2>4
<1> HIDE DEF v
<1> QED
  BY <1>4, <1>5, <1>6

(* What is resumed is a chapter of the shelf.                              *)
LEMMA ResumeIs ==
  ASSUME Typed, Resume
  PROVE  /\ chapter' \in DOMAIN shelf
         /\ script' = shelf[chapter'].script /\ script' \in Scripts
<1> DEFINE n == CHOOSE n \in Unrendered : \A m \in Unrendered : n <= m
<1>1. Unrendered # {} /\ Unrendered \subseteq DOMAIN shelf /\ chapter' = n
      /\ script' = shelf[chapter'].script
  BY DEF Resume, Unrendered
<1>2. shelf \in Seq(Chapter)
  BY DEF Typed, ShelfOK
<1>3. n \in Unrendered
  <2>1. Unrendered \in SUBSET Nat
    BY <1>1, <1>2, LenProperties
  <2>2. \E k \in Unrendered : \A j \in Unrendered : k <= j
    BY <1>1, <2>1, Least
  <2> QED
    BY <2>2
<1> HIDE DEF n
<1>4. shelf[chapter'] \in Chapter
  BY <1>1, <1>2, <1>3, ElementOfSeq, LenProperties
<1> QED
  BY <1>1, <1>3, <1>4 DEF Chapter

-----------------------------------------------------------------------------
(* Types and structure, step by step.                                      *)

LEMMA TypedInit == Init => Typed
<1> SUFFICES ASSUME Init PROVE Typed
  OBVIOUS
<1>1. DOMAIN cast = {} /\ DOMAIN known = {} /\ DOMAIN newcast = {} /\ DOMAIN shelf = {}
  BY DEF Init, NoRows
<1>2. /\ shelf \in Seq(Chapter) /\ pool \in Seq(Voices)
      /\ plan \in Seq(Voices) /\ meant \in Seq(Voices)
  BY EmptySeq DEF Init
<1>3. Finite
  BY <1>1, FS_EmptySet DEF Finite
<1>4. ShelfOK
  BY <1>1, <1>2 DEF ShelfOK
<1>5. CycleOK
  BY <1>1 DEF Init, CycleOK, Planned
<1>6. TypeOK
  BY <1>1, <1>2, VoicesAssumption DEF Init, TypeOK, PlanOK, RowsOK
<1> QED
  BY <1>3, <1>4, <1>5, <1>6 DEF Typed

(* An engine starts, or ends.                                              *)
LEMMA StartTyped ==
  ASSUME Typed, NEW B \in SUBSET Backends, Start(B)
  PROVE  Typed'
<1> DEFINE p == PlanVoices(B)
<1>1. /\ p.narrator \in UsableVoices(B) /\ p.system \in UsableVoices(B)
      /\ p.pool \in Seq(UsableVoices(B) \ {p.narrator, p.system})
  BY VoicesPlanned DEF Start
<1>2. narrator' = p.narrator /\ system' = p.system /\ pool' = p.pool
  BY DEF Start
<1> HIDE DEF p
<1>3. \A v \in UsableVoices(B) : v \in Voices /\ Usable(v, B)
  BY DEF UsableVoices
<1>4. /\ narrator' \in Voices /\ system' \in Voices /\ pool' \in Seq(Voices)
      /\ Usable(narrator', B) /\ Usable(system', B)
      /\ \A i \in DOMAIN pool' : Usable(pool'[i], B) /\ pool'[i] \notin {narrator', system'}
  <2>1. pool' \in Seq(UsableVoices(B) \ {narrator', system'})
    BY <1>1, <1>2
  <2>2. UsableVoices(B) \ {narrator', system'} \subseteq Voices
    BY <1>3
  <2>3. \A i \in DOMAIN pool' : pool'[i] \in UsableVoices(B) \ {narrator', system'}
    BY <2>1, ElementOfSeq, LenProperties
  <2>4. pool' \in Seq(Voices)
    BY <2>1, <2>2
  <2> QED
    BY <1>1, <1>2, <1>3, <2>3, <2>4
<1>5. TypeOK'
  BY <1>4 DEF Start, Typed, TypeOK, PlanOK, Usable, storeVars, cycleVars, boundVars, RowsOK
<1>6. Finite' /\ ShelfOK'
  BY DEF Start, Typed, Finite, ShelfOK, storeVars, cycleVars
<1>7. CycleOK'
  BY DEF Start, Typed, CycleOK, Planned, storeVars, cycleVars
<1> QED
  BY <1>5, <1>6, <1>7 DEF Typed

(* The chapters of a shelf are typed.                                      *)
LEMMA ShelfTypes ==
  ASSUME NEW sh \in Seq(Chapter)
  PROVE  /\ DOMAIN sh = 1..Len(sh) /\ Len(sh) \in Nat
         /\ \A n \in DOMAIN sh :
              /\ sh[n] \in Chapter
              /\ sh[n].script \in Scripts /\ sh[n].voices \in Seq(Voices)
              /\ sh[n].audio \in BOOLEAN /\ sh[n].build \subseteq Backends
<1>1. DOMAIN sh = 1..Len(sh) /\ Len(sh) \in Nat /\ \A n \in DOMAIN sh : sh[n] \in Chapter
  BY ElementOfSeq, LenProperties
<1> QED
  BY <1>1 DEF Chapter

(* The cycle forgets all it had: the process died, or rendered, or failed. *)
Forgets ==
  /\ known' = NoRows /\ newcast' = NoRows /\ todo' = {} /\ taken' = {} /\ plan' = <<>>
  /\ script' = <<>> /\ resuming' = FALSE /\ meant' = <<>>

(* Then it works with nothing, and what it leaves is as it was.            *)
LEMMA ForgetsTyped ==
  ASSUME Typed, Forgets, pc' \in {"down", "idle", "fresh"}, UNCHANGED <<cast, crowded>>,
         ShelfOK',
         \/ UNCHANGED processVars /\ (pc = "down" => pc' = "down")
         \/ /\ pc' = "down" /\ build' = {} /\ pool' = <<>>
            /\ narrator' = ConfigNarrator /\ system' = ConfigSystem
  PROVE  Typed'
<1>1. DOMAIN known' = {} /\ DOMAIN newcast' = {} /\ plan' \in Seq(Voices) /\ meant' \in Seq(Voices)
  BY EmptySeq DEF Forgets, NoRows
<1>2. Finite'
  BY <1>1, FS_EmptySet DEF Typed, Finite
<1>3. CycleOK'
  BY <1>1 DEF Forgets, CycleOK, Planned
<1>4. build' \subseteq Backends /\ narrator' \in Voices /\ system' \in Voices /\ pool' \in Seq(Voices)
  BY VoicesAssumption, EmptySeq DEF Typed, TypeOK, processVars
<1>5. PlanOK'
  BY DEF Typed, TypeOK, PlanOK, Usable, processVars
<1>6. \A n \in DOMAIN shelf' :
        /\ shelf'[n].script \in Scripts /\ shelf'[n].voices \in Seq(Voices)
        /\ shelf'[n].audio \in BOOLEAN /\ shelf'[n].build \subseteq Backends
  BY ShelfTypes DEF ShelfOK
<1>7. TypeOK'
  BY <1>1, <1>4, <1>5, <1>6 DEF Typed, TypeOK, Forgets, RowsOK
<1> QED
  BY <1>2, <1>3, <1>7 DEF Typed

(* So with a crash, a publication and a failed render.                     *)
LEMMA ForgettingTyped ==
  ASSUME Typed, Die \/ Publish \/ RenderFails
  PROVE  Typed'
<1>1. CASE Die
  <2>1. ShelfOK'
    BY <1>1 DEF Die, Typed, ShelfOK, storeVars
  <2> QED
    BY <1>1, <2>1, ForgetsTyped DEF Die, Forgets, storeVars
<1>2. CASE RenderFails
  <2>1. ShelfOK'
    BY <1>2 DEF RenderFails, Typed, ShelfOK, storeVars
  <2> QED
    BY <1>2, <2>1, ForgetsTyped DEF RenderFails, Forgets, storeVars
<1>3. CASE Publish
  <2> DEFINE new == [script |-> script, voices |-> plan, audio |-> TRUE, build |-> build]
  <2>1. script \in Scripts /\ DOMAIN plan = DOMAIN script
        /\ \A i \in DOMAIN script : script[i] \in DOMAIN cast
    BY <1>3 DEF Publish, Typed, CycleOK, Planned
  <2>2. new \in Chapter
    BY <2>1 DEF Typed, TypeOK, Chapter
  <2>3. shelf' = [shelf EXCEPT ![chapter] = new] /\ shelf \in Seq(Chapter)
    BY <1>3 DEF Publish, Typed, ShelfOK
  <2>4. shelf' \in Seq(Chapter) /\ DOMAIN shelf' = DOMAIN shelf
    <3>1. DOMAIN shelf = 1..Len(shelf) /\ Len(shelf) \in Nat
          /\ \A n \in DOMAIN shelf : shelf[n] \in Chapter
      BY <2>3, ShelfTypes
    <3> HIDE DEF new
    <3>2. shelf' \in [1..Len(shelf) -> Chapter] /\ DOMAIN shelf' = DOMAIN shelf
      BY <2>2, <2>3, <3>1
    <3> QED
      BY <3>1, <3>2, SeqDef
  <2>5. ShelfOK'
    <3> SUFFICES ASSUME NEW n \in DOMAIN shelf'
                 PROVE  /\ \A i \in DOMAIN shelf'[n].script : shelf'[n].script[i] \in DOMAIN cast'
                        /\ shelf'[n].audio \/ shelf'[n].voices # <<>> =>
                             DOMAIN shelf'[n].voices = DOMAIN shelf'[n].script
      BY <2>4 DEF ShelfOK
    <3>1. cast' = cast
      BY <1>3 DEF Publish
    <3>2. CASE n = chapter
      <4>1. shelf'[n].script = script /\ shelf'[n].voices = plan
        BY <2>3, <2>4, <3>2
      <4> QED
        BY <2>1, <3>1, <4>1
    <3>3. CASE n # chapter
      <4>1. shelf'[n] = shelf[n]
        BY <2>3, <2>4, <3>3
      <4> QED
        BY <2>4, <3>1, <4>1 DEF Typed, ShelfOK
    <3> QED
      BY <3>2, <3>3
  <2> QED
    BY <1>3, <2>5, ForgetsTyped DEF Publish, Forgets, storeVars
<1> QED
  BY <1>1, <1>2, <1>3

(* Steps on which little changes.                                          *)
LEMMA SmallTyped ==
  ASSUME Typed, GiveUpCycle \/ Substituted \/ Regendered \/ UNCHANGED vars
  PROVE  Typed'
<1>1. CASE UNCHANGED vars
  BY <1>1 DEF vars, storeVars, processVars, cycleVars, boundVars, Typed, TypeOK, PlanOK, Usable,
              RowsOK, Finite, ShelfOK, CycleOK, Planned, Unusable
<1>2. CASE GiveUpCycle
  <2>1. TypeOK'
    BY <1>2 DEF GiveUpCycle, storeVars, processVars, cycleVars, boundVars, Typed, TypeOK, PlanOK,
                Usable, RowsOK
  <2>2. Finite' /\ ShelfOK' /\ CycleOK'
    BY <1>2 DEF GiveUpCycle, storeVars, processVars, cycleVars, Typed, Finite, ShelfOK, CycleOK,
                Planned
  <2> QED
    BY <2>1, <2>2 DEF Typed
<1>3. CASE Substituted
  <2>1. TypeOK'
    BY <1>3 DEF Substituted, storeVars, processVars, cycleVars, boundVars, Typed, TypeOK, PlanOK,
                Usable, RowsOK
  <2>2. Unusable = {}
    BY <1>3 DEF Substituted, Typed, CycleOK
  <2>3. Finite' /\ ShelfOK' /\ CycleOK'
    BY <1>3, <2>2 DEF Substituted, storeVars, processVars, cycleVars, Typed, Finite, ShelfOK,
                CycleOK, Planned, Unusable, Usable
  <2> QED
    BY <2>1, <2>3 DEF Typed
<1>4. CASE Regendered
  <2>1. /\ script \in Scripts /\ plan \in Seq(Voices) /\ DOMAIN plan = DOMAIN script
        /\ BeginSubstitution(script, plan) /\ UNCHANGED build /\ pc = "regender"
    BY <1>4 DEF Regendered, processVars, Typed, TypeOK, CycleOK, Planned
  <2>2. /\ plan' = plan /\ meant' = plan /\ pc' = "substitute"
        /\ taken' \subseteq Voices /\ todo' \subseteq Speakers
        /\ todo' = {script[i] : i \in Unusable'}
    BY <2>1, BeginSubstitutionIs
  <2> HIDE DEF BeginSubstitution
  <2>3. TypeOK'
    BY <1>4, <2>1, <2>2 DEF Regendered, storeVars, processVars, Typed, TypeOK, PlanOK, Usable, RowsOK
  <2>4. Finite' /\ ShelfOK' /\ CycleOK'
    BY <1>4, <2>1, <2>2 DEF Regendered, storeVars, Typed, Finite, ShelfOK, CycleOK, Planned
  <2> QED
    BY <2>3, <2>4 DEF Typed
<1> QED
  BY <1>1, <1>2, <1>3, <1>4

(* A cycle begins with a copy of the cast.                                 *)
LEMMA BeginTyped ==
  ASSUME Typed, NEW lines \in Scripts, BeginChapter(lines)
  PROVE  Typed'
<1>1. RowsOK(known)' /\ RowsOK(newcast)'
  BY DEF BeginChapter, Typed, TypeOK, RowsOK, CastVoices, NoRows
<1>2. DOMAIN known' = DOMAIN cast /\ DOMAIN newcast' = {}
  BY DEF BeginChapter, CastVoices, NoRows
<1>3. TypeOK'
  BY <1>1 DEF BeginChapter, storeVars, processVars, boundVars, Typed, TypeOK, PlanOK, Usable
<1>4. Finite'
  BY <1>2, FS_EmptySet DEF BeginChapter, storeVars, Typed, Finite
<1>5. ShelfOK' /\ CycleOK'
  BY <1>2 DEF BeginChapter, storeVars, Typed, ShelfOK, CycleOK, Planned
<1> QED
  BY <1>3, <1>4, <1>5 DEF Typed

(* A row of the cast is written.                                           *)
LEMMA UpsertIs ==
  ASSUME TypeOK, Finite, NEW s \in Speakers, NEW v \in Voices,
         NEW who \in {"engine", "operator"}, Upsert(s, v, who)
  PROVE  /\ DOMAIN cast' = DOMAIN cast \cup {s} /\ DOMAIN cast' \subseteq Speakers
         /\ IsFiniteSet(DOMAIN cast')
         /\ cast'[s] = [voice |-> v, by |-> who]
         /\ \A t \in DOMAIN cast : t # s => cast'[t] = cast[t]
         /\ \A t \in DOMAIN cast' : cast'[t] \in [voice : Voices, by : {"engine", "operator"}]
<1>1. DOMAIN cast' = DOMAIN cast \cup {s}
  BY DEF Upsert
<1>2. IsFiniteSet(DOMAIN cast')
  BY <1>1, FS_AddElement DEF Finite
<1> QED
  BY <1>1, <1>2 DEF Upsert, TypeOK

(* The operator's order adds or replaces one row.                          *)
LEMMA CastSetTyped ==
  ASSUME Typed, NEW c \in CastOrders, CastSet(c.speaker, c.voice)
  PROVE  Typed'
<1>1. c.speaker \in Speakers /\ c.voice \in Voices
  BY SpeakersAssumption
<1>2. /\ DOMAIN cast \subseteq DOMAIN cast' /\ DOMAIN cast' \subseteq Speakers
      /\ IsFiniteSet(DOMAIN cast')
      /\ \A t \in DOMAIN cast' : cast'[t] \in [voice : Voices, by : {"engine", "operator"}]
  BY <1>1, UpsertIs DEF CastSet, Typed
<1>3. TypeOK'
  BY <1>2 DEF CastSet, processVars, cycleVars, Typed, TypeOK, PlanOK, Usable, RowsOK
<1>4. Finite' /\ ShelfOK'
  BY <1>2 DEF CastSet, cycleVars, Typed, Finite, ShelfOK
<1>5. CycleOK'
  BY <1>2 DEF CastSet, processVars, cycleVars, Typed, CycleOK, Planned, Unusable, Usable
<1> QED
  BY <1>3, <1>4, <1>5 DEF Typed

(* A request for a render takes a chapter's audio, and nothing else.       *)
LEMMA RequestRenderTyped ==
  ASSUME Typed, NEW n \in DOMAIN shelf, RequestRender(n)
  PROVE  Typed'
<1>1. shelf \in Seq(Chapter) /\ shelf' = [shelf EXCEPT ![n].audio = FALSE]
  BY DEF RequestRender, Typed, ShelfOK
<1>2. DOMAIN shelf = 1..Len(shelf) /\ Len(shelf) \in Nat
      /\ \A m \in DOMAIN shelf : shelf[m] \in Chapter
  BY <1>1, ShelfTypes
<1>3. [shelf[n] EXCEPT !.audio = FALSE] \in Chapter
  BY <1>2 DEF Chapter
<1>4. DOMAIN shelf' = DOMAIN shelf
      /\ \A m \in DOMAIN shelf : /\ shelf'[m] \in Chapter
                                 /\ shelf'[m].script = shelf[m].script
                                 /\ shelf'[m].voices = shelf[m].voices
                                 /\ shelf'[m].audio => shelf[m].audio
                                 /\ shelf'[m].build = shelf[m].build
  <2>1. ASSUME NEW m \in DOMAIN shelf
        PROVE  /\ shelf'[m] \in Chapter
               /\ shelf'[m].script = shelf[m].script
               /\ shelf'[m].voices = shelf[m].voices
               /\ shelf'[m].audio => shelf[m].audio
               /\ shelf'[m].build = shelf[m].build
    <3>1. CASE m = n
      <4>1. shelf'[m] = [shelf[n] EXCEPT !.audio = FALSE]
        BY <1>1, <3>1
      <4> QED
        BY <1>2, <1>3, <3>1, <4>1 DEF Chapter
    <3>2. CASE m # n
      <4>1. shelf'[m] = shelf[m]
        BY <1>1, <3>2
      <4> QED
        BY <1>2, <4>1
    <3> QED
      BY <3>1, <3>2
  <2> QED
    BY <1>1, <2>1
<1>5. shelf' \in Seq(Chapter)
  <2>1. shelf' = [m \in 1..Len(shelf) |-> shelf'[m]]
    BY <1>1, <1>2
  <2>2. shelf' \in [1..Len(shelf) -> Chapter]
    BY <1>2, <1>4, <2>1
  <2> QED
    BY <1>2, <2>2, SeqDef
<1>6. ShelfOK'
  BY <1>4, <1>5 DEF RequestRender, Typed, ShelfOK
<1>7. \A m \in DOMAIN shelf' :
        /\ shelf'[m].script \in Scripts /\ shelf'[m].voices \in Seq(Voices)
        /\ shelf'[m].audio \in BOOLEAN /\ shelf'[m].build \subseteq Backends
  BY <1>5, ShelfTypes
<1>8. TypeOK'
  BY <1>7 DEF RequestRender, processVars, cycleVars, Typed, TypeOK, PlanOK, Usable, RowsOK
<1>9. Finite' /\ CycleOK'
  BY DEF RequestRender, processVars, cycleVars, Typed, Finite, CycleOK, Planned, Unusable, Usable
<1> QED
  BY <1>6, <1>8, <1>9 DEF Typed

(* Casting one speaker.                                                    *)
LEMMA CastNextTyped ==
  ASSUME Typed, CastNext
  PROVE  Typed'
<1>1. PICK i \in DOMAIN script, v \in Voices :
        /\ script[i] \in Speakers \ Seen
        /\ newcast' = [t \in DOMAIN newcast \cup {script[i]} |->
                         IF t = script[i] THEN v ELSE newcast[t]]
        /\ Upsert(script[i], v, "engine")
        /\ crowded' \in BOOLEAN
  BY CastNextIs
<1> DEFINE s == script[i]
<1>2. UNCHANGED <<shelf, build, narrator, system, pool, pc, chapter, script, resuming, known,
                  todo, taken, plan, meant>>
  BY DEF CastNext, processVars, boundVars
<1>3. /\ DOMAIN cast' = DOMAIN cast \cup {s} /\ DOMAIN cast' \subseteq Speakers
      /\ IsFiniteSet(DOMAIN cast')
      /\ \A t \in DOMAIN cast' : cast'[t] \in [voice : Voices, by : {"engine", "operator"}]
  BY <1>1, UpsertIs DEF Typed
<1>4. DOMAIN newcast' = DOMAIN newcast \cup {s} /\ s \notin DOMAIN known /\ s \notin DOMAIN newcast
  BY <1>1 DEF Seen
<1>5. RowsOK(newcast)'
  BY <1>1, <1>4 DEF Typed, TypeOK, RowsOK
<1>6. TypeOK'
  BY <1>1, <1>2, <1>3, <1>5 DEF Typed, TypeOK, PlanOK, Usable, RowsOK
<1>7. Finite'
  BY <1>2, <1>3, <1>4, FS_AddElement DEF Typed, Finite
<1>8. ShelfOK'
  BY <1>2, <1>3 DEF Typed, ShelfOK
<1>9. CycleOK'
  <2>1. pc = "cast" /\ pc' = "cast"
    BY <1>2 DEF CastNext
  <2>2. \A t \in DOMAIN newcast' : \E j \in DOMAIN script' : script'[j] = t
    BY <1>2, <1>4 DEF Typed, CycleOK
  <2> QED
    BY <1>2, <1>3, <1>4, <2>1, <2>2 DEF Typed, CycleOK, Planned
<1> QED
  BY <1>6, <1>7, <1>8, <1>9 DEF Typed

(* The plan when every speaker has a voice.                                *)
LEMMA PlanSegmentsIs ==
  ASSUME Typed, pc = "cast", Uncast = {}
  PROVE  /\ PlanSegments \in Seq(Voices) /\ DOMAIN PlanSegments = DOMAIN script
         /\ \A i \in DOMAIN script : /\ script[i] \in Seen
                                     /\ script[i] \in DOMAIN cast
                                     /\ PlanSegments[i] \in Voices
<1>1. script \in Scripts
  BY DEF Typed, CycleOK
<1>2. DOMAIN script = 1..Len(script) /\ Len(script) \in Nat
  BY <1>1, SpeakersOfScripts
<1>3. \A i \in DOMAIN script : script[i] \in Seen
  BY DEF Uncast
<1>4. \A i \in DOMAIN script : script[i] \in DOMAIN cast /\ PlanSegments[i] \in Voices
  BY <1>3 DEF Seen, PlanSegments, Typed, TypeOK, RowsOK, CycleOK
<1>5. PlanSegments \in [1..Len(script) -> Voices]
  BY <1>2, <1>4 DEF PlanSegments
<1>6. DOMAIN PlanSegments = DOMAIN script
  BY DEF PlanSegments
<1> QED
  BY <1>2, <1>3, <1>4, <1>5, <1>6, SeqDef

(* The plan is made.                                                       *)
LEMMA CastTyped ==
  ASSUME Typed, Cast
  PROVE  Typed'
<1>1. /\ PlanSegments \in Seq(Voices) /\ DOMAIN PlanSegments = DOMAIN script
      /\ \A i \in DOMAIN script : script[i] \in DOMAIN cast /\ PlanSegments[i] \in Voices
  BY PlanSegmentsIs DEF Cast
<1>2. \A i, j \in DOMAIN script : script[i] = script[j] => PlanSegments[i] = PlanSegments[j]
  BY DEF PlanSegments
<1>3. /\ script \in Scripts /\ pc = "cast"
      /\ UNCHANGED <<cast, shelf, build, narrator, system, pool, script, resuming, known, newcast,
                     crowded>>
  BY DEF Cast, storeVars, processVars, Typed, CycleOK
<1>4. /\ plan' = PlanSegments /\ pc' \in {"substitute", "pass2"} /\ meant' \in Seq(Voices)
      /\ taken' \subseteq Voices /\ todo' \subseteq Speakers
      /\ pc' = "substitute" => todo' = {script[i] : i \in Unusable'}
  <2>1. CASE resuming
    <3>1. BeginSubstitution(script, PlanSegments)
      BY <2>1 DEF Cast
    <3> HIDE DEF PlanSegments
    <3> QED
      BY <1>1, <1>3, <3>1, BeginSubstitutionIs
  <2>2. CASE ~resuming
    BY <2>2 DEF Cast, Typed, TypeOK
  <2> QED
    BY <2>1, <2>2
<1> HIDE DEF PlanSegments
<1>5. TypeOK'
  BY <1>1, <1>3, <1>4 DEF Typed, TypeOK, PlanOK, Usable, RowsOK
<1>6. Finite' /\ ShelfOK'
  BY <1>3 DEF Typed, Finite, ShelfOK
<1>7. CycleOK'
  BY <1>1, <1>2, <1>3, <1>4 DEF Typed, CycleOK, Planned
<1> QED
  BY <1>5, <1>6, <1>7 DEF Typed

(* The chapter goes to the shelf when all who speak in it are cast.        *)
LEMMA InsertChapterTyped ==
  ASSUME Typed, NEW T \in SUBSET Characters, InsertChapter(T)
  PROVE  Typed'
<1> DEFINE new == [script |-> script, voices |-> <<>>, audio |-> FALSE, build |-> {}]
<1>1. pc = "pass2" /\ script \in Scripts /\ \A i \in DOMAIN script : script[i] \in DOMAIN cast
  BY DEF InsertChapter, Typed, CycleOK, Planned
<1>2. new \in Chapter
  BY <1>1, EmptySeq DEF Chapter
<1>3. shelf' = Append(shelf, new) /\ shelf \in Seq(Chapter)
  BY DEF InsertChapter, Typed, ShelfOK
<1>4. /\ shelf' \in Seq(Chapter) /\ DOMAIN shelf = 1..Len(shelf) /\ Len(shelf) \in Nat
      /\ DOMAIN shelf' = 1..(Len(shelf) + 1)
      /\ shelf'[Len(shelf) + 1] = new
      /\ \A n \in 1..Len(shelf) : shelf'[n] = shelf[n]
  <2> HIDE DEF new
  <2> QED
    BY <1>2, <1>3, AppendProperties, LenProperties
<1>5. ASSUME NEW n \in DOMAIN shelf'
      PROVE  /\ \A i \in DOMAIN shelf'[n].script : shelf'[n].script[i] \in DOMAIN cast
             /\ shelf'[n].audio \/ shelf'[n].voices # <<>> =>
                  DOMAIN shelf'[n].voices = DOMAIN shelf'[n].script
  <2>1. CASE n = Len(shelf) + 1
    BY <1>1, <1>4, <2>1
  <2>2. CASE n # Len(shelf) + 1
    <3>1. n \in DOMAIN shelf /\ shelf'[n] = shelf[n]
      BY <1>4, <2>2
    <3> QED
      BY <3>1 DEF Typed, ShelfOK
  <2> QED
    BY <2>1, <2>2
<1>6. ShelfOK'
  <2>1. cast' = cast
    BY DEF InsertChapter
  <2> QED
    BY <1>4, <1>5, <2>1 DEF ShelfOK
<1>7. \A n \in DOMAIN shelf' :
        /\ shelf'[n].script \in Scripts /\ shelf'[n].voices \in Seq(Voices)
        /\ shelf'[n].audio \in BOOLEAN /\ shelf'[n].build \subseteq Backends
  BY <1>4, ShelfTypes
<1>8. /\ taken' \subseteq Voices /\ todo' \subseteq Speakers
      /\ todo' \subseteq DOMAIN newcast \cap Characters
  BY VoicesAreTyped DEF InsertChapter, Typed, Speakers
<1>9. TypeOK'
  BY <1>7, <1>8 DEF InsertChapter, processVars, boundVars, Typed, TypeOK, PlanOK, Usable, RowsOK
<1>10. Finite' /\ CycleOK'
  BY <1>8 DEF InsertChapter, processVars, Typed, Finite, CycleOK, Planned
<1> QED
  BY <1>6, <1>9, <1>10 DEF Typed

(* A plan in which some segments have another voice is one still.          *)
LEMMA ReplannedSeq ==
  ASSUME plan \in Seq(Voices), NEW v \in Voices, NEW S
  PROVE  LET q == [i \in DOMAIN plan |-> IF i \in S THEN v ELSE plan[i]] IN
         q \in Seq(Voices) /\ DOMAIN q = DOMAIN plan
<1> DEFINE q == [i \in DOMAIN plan |-> IF i \in S THEN v ELSE plan[i]]
<1>1. DOMAIN plan = 1..Len(plan) /\ Len(plan) \in Nat /\ \A i \in DOMAIN plan : plan[i] \in Voices
  BY ElementOfSeq, LenProperties
<1>2. q \in [1..Len(plan) -> Voices]
  BY <1>1
<1>3. DOMAIN q = DOMAIN plan
  OBVIOUS
<1> HIDE DEF q
<1>4. q \in Seq(Voices)
  BY <1>1, <1>2, SeqDef
<1> QED
  BY <1>3, <1>4 DEF q

(* One newcomer's voice is corrected.                                      *)
LEMMA RegenderNextTyped ==
  ASSUME Typed, RegenderNext
  PROVE  Typed'
<1>1. PICK s \in todo :
           /\ s \in DOMAIN newcast /\ newcast[s] \in Voices
           /\ todo' = todo \ {s}
           /\ \/ UNCHANGED <<cast, taken, plan>>
              \/ \E v \in Voices \ taken :
                   /\ Upsert(s, v, "engine")
                   /\ taken' = (taken \ {newcast[s]}) \cup {v}
                   /\ plan' = Replan(s, v)
  BY RegenderNextIs
<1>2. /\ pc = "regender" /\ pc' = "regender"
      /\ UNCHANGED <<shelf, build, narrator, system, pool, chapter, script, resuming, known,
                     newcast, meant, crowded>>
  BY DEF RegenderNext, processVars, boundVars
<1>3. s \in Speakers
  BY DEF Typed, TypeOK, Speakers
<1>4. plan \in Seq(Voices) /\ DOMAIN plan = DOMAIN script
  BY <1>2 DEF Typed, TypeOK, CycleOK, Planned
<1>5. /\ DOMAIN cast \subseteq DOMAIN cast' /\ DOMAIN cast' \subseteq Speakers
      /\ IsFiniteSet(DOMAIN cast')
      /\ \A t \in DOMAIN cast' : cast'[t] \in [voice : Voices, by : {"engine", "operator"}]
      /\ taken' \subseteq Voices /\ plan' \in Seq(Voices) /\ DOMAIN plan' = DOMAIN plan
      /\ \A i, j \in DOMAIN script : script[i] = script[j] => plan'[i] = plan'[j]
  <2>0. \A i, j \in DOMAIN script : script[i] = script[j] => plan[i] = plan[j]
    BY <1>2 DEF Typed, CycleOK, Planned
  <2>1. CASE UNCHANGED <<cast, taken, plan>>
    BY <1>4, <2>0, <2>1 DEF Typed, TypeOK, Finite
  <2>2. ASSUME NEW v \in Voices \ taken, Upsert(s, v, "engine"),
               taken' = (taken \ {newcast[s]}) \cup {v}, plan' = Replan(s, v)
        PROVE  <1>5!:
    <3>1. /\ DOMAIN cast \subseteq DOMAIN cast' /\ DOMAIN cast' \subseteq Speakers
          /\ IsFiniteSet(DOMAIN cast')
          /\ \A t \in DOMAIN cast' : cast'[t] \in [voice : Voices, by : {"engine", "operator"}]
      BY <1>3, <2>2, UpsertIs DEF Typed
    <3>2. taken' \subseteq Voices
      BY <2>2 DEF Typed, TypeOK
    <3> DEFINE S == {i \in DOMAIN plan : script[i] = s}
    <3>3. plan' = [i \in DOMAIN plan |-> IF i \in S THEN v ELSE plan[i]]
      BY <2>2 DEF Replan
    <3>4. plan' \in Seq(Voices) /\ DOMAIN plan' = DOMAIN plan
      <4> HIDE DEF S
      <4> QED
        BY <1>4, <3>3, ReplannedSeq
    <3>5. \A i, j \in DOMAIN script : script[i] = script[j] => plan'[i] = plan'[j]
      BY <1>4, <2>0, <3>3
    <3> QED
      BY <3>1, <3>2, <3>4, <3>5
  <2> QED
    BY <1>1, <2>1, <2>2
<1>6. todo' \subseteq todo
  BY <1>1
<1>7. TypeOK'
  BY <1>2, <1>5, <1>6 DEF Typed, TypeOK, PlanOK, Usable, RowsOK
<1>8. Finite' /\ ShelfOK'
  BY <1>2, <1>5 DEF Typed, Finite, ShelfOK
<1>9. CycleOK'
  BY <1>2, <1>4, <1>5, <1>6 DEF Typed, CycleOK, Planned
<1> QED
  BY <1>7, <1>8, <1>9 DEF Typed

(* One speaker's voice is substituted.                                     *)
LEMMA SubstituteNextTyped ==
  ASSUME Typed, SubstituteNext
  PROVE  Typed'
<1>1. PICK s \in Speakers, v \in Voices :
        /\ plan' = [j \in DOMAIN plan |-> IF j \in Unusable /\ script[j] = s THEN v ELSE plan[j]]
        /\ taken' = taken \cup {v} /\ todo' = todo \ {s} /\ Usable(v, build)
  BY SubstituteNextIs
<1>2. /\ pc = "substitute" /\ pc' = "substitute"
      /\ UNCHANGED <<cast, shelf, build, narrator, system, pool, chapter, script, resuming, known,
                     newcast, meant, crowded>>
  BY DEF SubstituteNext, storeVars, processVars, boundVars
<1>3. /\ plan \in Seq(Voices) /\ DOMAIN plan = DOMAIN script
      /\ \A i, j \in DOMAIN script : script[i] = script[j] => plan[i] = plan[j]
      /\ todo = {script[i] : i \in Unusable}
  BY <1>2 DEF Typed, TypeOK, CycleOK, Planned
<1> DEFINE S == {j \in Unusable : script[j] = s}
<1>4. plan' = [j \in DOMAIN plan |-> IF j \in S THEN v ELSE plan[j]]
  BY <1>1
<1>5. \A i, j \in DOMAIN script : script[i] = script[j] => (i \in S <=> j \in S)
  BY <1>3 DEF Unusable
<1>6. todo' = {script[i] : i \in Unusable'}
  <2>1. Unusable' = {i \in DOMAIN plan' : ~Usable(plan'[i], build)}
    BY <1>2 DEF Unusable, Usable
  <2>2. Unusable = {i \in DOMAIN plan : ~Usable(plan[i], build)}
    BY DEF Unusable
  <2>3. Unusable' = {i \in Unusable : script[i] # s}
    BY <1>1, <1>4, <2>1, <2>2
  <2> QED
    BY <1>1, <1>3, <2>3
<1> HIDE DEF S
<1>7. plan' \in Seq(Voices) /\ DOMAIN plan' = DOMAIN plan
  BY <1>3, <1>4, ReplannedSeq
<1>8. \A i, j \in DOMAIN script : script[i] = script[j] => plan'[i] = plan'[j]
  BY <1>3, <1>4, <1>5
<1>9. TypeOK'
  BY <1>1, <1>2, <1>7 DEF Typed, TypeOK, PlanOK, Usable, RowsOK
<1>10. Finite' /\ ShelfOK'
  BY <1>2 DEF Typed, Finite, ShelfOK
<1>11. CycleOK'
  BY <1>2, <1>3, <1>6, <1>7, <1>8 DEF Typed, CycleOK, Planned
<1> QED
  BY <1>9, <1>10, <1>11 DEF Typed

(* The speakers of a chapter of the shelf are all in the cast.             *)
LEMMA ReplannedIs ==
  ASSUME Typed, NEW n \in DOMAIN shelf
  PROVE  /\ Replanned(n) \in Seq(Voices) /\ DOMAIN Replanned(n) = DOMAIN shelf[n].script
         /\ \A i \in DOMAIN shelf[n].script :
              /\ shelf[n].script[i] \in DOMAIN cast
              /\ Replanned(n)[i] = cast[shelf[n].script[i]].voice
<1>1. shelf[n].script \in Scripts
  BY DEF Typed, TypeOK
<1>2. DOMAIN shelf[n].script = 1..Len(shelf[n].script) /\ Len(shelf[n].script) \in Nat
  BY <1>1, SpeakersOfScripts
<1>3. \A i \in DOMAIN shelf[n].script : shelf[n].script[i] \in DOMAIN cast
  BY DEF Typed, ShelfOK
<1>4. \A i \in DOMAIN shelf[n].script : Replanned(n)[i] = cast[shelf[n].script[i]].voice
  BY <1>3 DEF Replanned
<1>5. \A i \in DOMAIN shelf[n].script : Replanned(n)[i] \in Voices
  BY <1>3, <1>4 DEF Typed, TypeOK
<1>6. Replanned(n) \in [1..Len(shelf[n].script) -> Voices]
  BY <1>2, <1>5 DEF Replanned
<1>7. DOMAIN Replanned(n) = DOMAIN shelf[n].script
  BY DEF Replanned
<1> QED
  BY <1>2, <1>3, <1>4, <1>6, <1>7, SeqDef

(* A chapter is resumed, with its segments or without.                     *)
LEMMA ResumeTyped ==
  ASSUME Typed, Resume
  PROVE  Typed'
<1>1. /\ chapter' \in DOMAIN shelf
      /\ script' = shelf[chapter'].script /\ script' \in Scripts
  BY ResumeIs
<1>2. /\ pc = "idle" /\ resuming' = TRUE /\ known = NoRows /\ newcast = NoRows
      /\ UNCHANGED <<cast, shelf, build, narrator, system, pool, crowded>>
  BY DEF Resume, storeVars, processVars, boundVars, Typed, CycleOK
<1>3. DOMAIN NoRows = {}
  BY DEF NoRows
<1>4. CASE shelf[chapter'].voices # <<>>
  <2>0. BeginSubstitution(script', Replanned(chapter')) /\ UNCHANGED <<known, newcast>>
    BY <1>4 DEF Resume
  <2>1. /\ plan' = Replanned(chapter') /\ meant' = Replanned(chapter') /\ pc' = "substitute"
        /\ taken' \subseteq Voices /\ todo' \subseteq Speakers
        /\ todo' = {script'[i] : i \in Unusable'}
    <3>1. Replanned(chapter') \in Seq(Voices) /\ DOMAIN Replanned(chapter') = DOMAIN script'
      BY <1>1, ReplannedIs
    <3> HIDE DEF Replanned
    <3>2. BeginSubstitution(shelf[chapter'].script, Replanned(chapter'))
      BY <1>1, <2>0
    <3> QED
      BY <1>1, <1>2, <3>1, <3>2, BeginSubstitutionIs
  <2>2. /\ plan' \in Seq(Voices) /\ DOMAIN plan' = DOMAIN script'
        /\ \A i \in DOMAIN script' : script'[i] \in DOMAIN cast
        /\ \A i, j \in DOMAIN script' : script'[i] = script'[j] => plan'[i] = plan'[j]
    BY <1>1, <2>1, ReplannedIs
  <2>3. TypeOK'
    BY <1>2, <2>0, <2>1, <2>2 DEF Typed, TypeOK, PlanOK, Usable, RowsOK
  <2>4. Finite' /\ ShelfOK'
    BY <1>2, <2>0 DEF Typed, Finite, ShelfOK
  <2>5. CycleOK'
    BY <1>1, <1>2, <1>3, <2>0, <2>1, <2>2 DEF Typed, CycleOK, Planned
  <2> QED
    BY <2>3, <2>4, <2>5 DEF Typed
<1>5. CASE shelf[chapter'].voices = <<>>
  <2>1. /\ known' = CastVoices /\ newcast' = NoRows
        /\ pc' = "cast" /\ UNCHANGED <<plan, meant, taken, todo>>
    BY <1>5 DEF Resume
  <2>2. RowsOK(known)' /\ RowsOK(newcast)' /\ DOMAIN known' = DOMAIN cast /\ DOMAIN newcast' = {}
    BY <1>3, <2>1 DEF Typed, TypeOK, RowsOK, CastVoices
  <2>3. TypeOK'
    BY <1>2, <2>1, <2>2 DEF Typed, TypeOK, PlanOK, Usable
  <2>4. Finite' /\ ShelfOK'
    BY <1>2, <2>2, FS_EmptySet DEF Typed, Finite, ShelfOK
  <2>5. CycleOK'
    BY <1>1, <1>2, <2>1, <2>2 DEF Typed, CycleOK, Planned
  <2> QED
    BY <2>3, <2>4, <2>5 DEF Typed
<1> QED
  BY <1>4, <1>5

(* So every step keeps types and structure.                                *)
LEMMA StepTyped ==
  ASSUME Typed, [Next]_vars
  PROVE  Typed'
BY StartTyped, ForgettingTyped, SmallTyped, BeginTyped, CastSetTyped, RequestRenderTyped,
   CastNextTyped, CastTyped, InsertChapterTyped, RegenderNextTyped, SubstituteNextTyped, ResumeTyped
   DEF Next

-----------------------------------------------------------------------------
(* What the writers of the cast do to its rows.                            *)

(* The steps that write no row of the cast.                                *)
LEMMA RowsKept ==
  ASSUME [Next]_vars
  PROVE  \/ cast' = cast
         \/ CastNext \/ RegenderNext \/ \E c \in CastOrders : CastSet(c.speaker, c.voice)
BY DEF Next, Start, Die, BeginChapter, GiveUpCycle, Cast, InsertChapter, Regendered,
       SubstituteNext, Substituted, Publish, RenderFails, Resume, RequestRender, vars, storeVars

(* An order of the operator makes the row his.                             *)
LEMMA CastSetIs ==
  ASSUME Typed, NEW c \in CastOrders, CastSet(c.speaker, c.voice)
  PROVE  /\ UNCHANGED <<shelf, build, pc, chapter, script, resuming, known, newcast, todo, taken,
                        plan, crowded>>
         /\ \A s \in Speakers : ByEngine(s)' => ByEngine(s) /\ cast'[s] = cast[s]
<1>1. c.speaker \in Speakers /\ c.voice \in Voices
  BY SpeakersAssumption
<1>2. /\ DOMAIN cast' = DOMAIN cast \cup {c.speaker}
      /\ cast'[c.speaker] = [voice |-> c.voice, by |-> "operator"]
      /\ \A t \in DOMAIN cast : t # c.speaker => cast'[t] = cast[t]
  BY <1>1, UpsertIs DEF CastSet, Typed
<1>3. cast'[c.speaker].by = "operator"
  BY <1>2
<1> QED
  BY <1>2, <1>3 DEF CastSet, ByEngine, processVars, cycleVars

(* Who is cast has a row of the engine's, with the voice drawn.            *)
LEMMA CastNextRows ==
  ASSUME Typed, CastNext
  PROVE  /\ UNCHANGED <<shelf, build, pc, script, known, todo, taken, plan>> /\ pc = "cast"
         /\ \E s \in Speakers \ Seen, v \in Voices :
              /\ DOMAIN newcast' = DOMAIN newcast \cup {s} /\ newcast'[s] = v
              /\ \A t \in DOMAIN newcast : newcast'[t] = newcast[t]
              /\ ByEngine(s)' /\ cast'[s].voice = v
              /\ \A t \in Speakers : t # s /\ ByEngine(t)' => ByEngine(t) /\ cast'[t] = cast[t]
              /\ ~crowded' => ~crowded /\ (s \in Characters => v \notin Taken)
<1>1. PICK s \in Speakers \ Seen, v \in Voices :
        /\ newcast' = [t \in DOMAIN newcast \cup {s} |-> IF t = s THEN v ELSE newcast[t]]
        /\ Upsert(s, v, "engine")
        /\ ~crowded' => ~crowded /\ (s \in Characters => v \notin Taken)
  BY CastNextIs
<1>2. /\ DOMAIN cast' = DOMAIN cast \cup {s}
      /\ cast'[s] = [voice |-> v, by |-> "engine"]
      /\ \A t \in DOMAIN cast : t # s => cast'[t] = cast[t]
  BY <1>1, UpsertIs DEF Typed
<1>3. /\ DOMAIN newcast' = DOMAIN newcast \cup {s} /\ newcast'[s] = v
      /\ \A t \in DOMAIN newcast : newcast'[t] = newcast[t]
  BY <1>1 DEF Seen
<1>4. ByEngine(s)' /\ cast'[s].voice = v
  BY <1>2 DEF ByEngine
<1>5. \A t \in Speakers : t # s /\ ByEngine(t)' => ByEngine(t) /\ cast'[t] = cast[t]
  BY <1>2 DEF ByEngine
<1>6. UNCHANGED <<shelf, build, pc, script, known, todo, taken, plan>> /\ pc = "cast"
  BY DEF CastNext, processVars
<1> QED
  BY <1>1, <1>3, <1>4, <1>5, <1>6

(* Who is corrected has a row of the engine's, with a free voice.          *)
LEMMA RegenderNextRows ==
  ASSUME Typed, RegenderNext
  PROVE  /\ UNCHANGED <<shelf, build, pc, script, known, newcast, crowded>> /\ pc = "regender"
         /\ \E s \in todo :
              /\ s \in Characters \cap DOMAIN newcast /\ todo' = todo \ {s}
              /\ \/ UNCHANGED <<cast, taken, plan>>
                 \/ \E v \in Voices \ taken :
                      /\ ByEngine(s)' /\ cast'[s].voice = v
                      /\ \A t \in Speakers : t # s /\ ByEngine(t)' => ByEngine(t) /\ cast'[t] = cast[t]
                      /\ taken' = (taken \ {newcast[s]}) \cup {v}
                      /\ plan' = [i \in DOMAIN plan |-> IF script[i] = s THEN v ELSE plan[i]]
<1>1. PICK s \in todo :
           /\ s \in DOMAIN newcast
           /\ todo' = todo \ {s}
           /\ \/ UNCHANGED <<cast, taken, plan>>
              \/ \E v \in Voices \ taken :
                   /\ Upsert(s, v, "engine")
                   /\ taken' = (taken \ {newcast[s]}) \cup {v}
                   /\ plan' = Replan(s, v)
  BY RegenderNextIs
<1>2. s \in Characters /\ s \in Speakers
  BY DEF RegenderNext, Typed, CycleOK, Speakers
<1>3. ASSUME NEW v \in Voices \ taken, Upsert(s, v, "engine")
      PROVE  /\ ByEngine(s)' /\ cast'[s].voice = v
             /\ \A t \in Speakers : t # s /\ ByEngine(t)' => ByEngine(t) /\ cast'[t] = cast[t]
  <2>1. /\ DOMAIN cast' = DOMAIN cast \cup {s}
        /\ cast'[s] = [voice |-> v, by |-> "engine"]
        /\ \A t \in DOMAIN cast : t # s => cast'[t] = cast[t]
    BY <1>2, <1>3, UpsertIs DEF Typed
  <2> QED
    BY <2>1 DEF ByEngine
<1>4. UNCHANGED <<shelf, build, pc, script, known, newcast, crowded>> /\ pc = "regender"
  BY DEF RegenderNext, processVars, boundVars
<1> QED
  BY <1>1, <1>2, <1>3, <1>4 DEF Replan

-----------------------------------------------------------------------------
(* Rows, voices and plans, step by step.                                   *)

(* The voices of the engine's rows are among those it takes for taken.     *)
LEMMA EngineVoicesTaken ==
  ASSUME RowsSeen, pc \in {"cast", "pass2"}, NEW s \in Speakers, ByEngine(s)
  PROVE  cast[s].voice \in Taken
BY DEF RowsSeen, Taken, VoicesOf

(* Rows come from the cycle, or are the operator's.                        *)
LEMMA RowsSeenStep ==
  ASSUME Typed, RowsSeen, [Next]_vars
  PROVE  RowsSeen'
<1>1. CASE CastNext
  <2>1. PICK s \in Speakers \ Seen, v \in Voices :
              /\ DOMAIN newcast' = DOMAIN newcast \cup {s} /\ newcast'[s] = v
              /\ \A t \in DOMAIN newcast : newcast'[t] = newcast[t]
              /\ ByEngine(s)' /\ cast'[s].voice = v
              /\ \A t \in Speakers : t # s /\ ByEngine(t)' => ByEngine(t) /\ cast'[t] = cast[t]
    BY <1>1, CastNextRows
  <2>2. known' = known /\ pc' = pc
    BY <1>1, CastNextRows
  <2>3. ASSUME pc' \in {"cast", "pass2"}, NEW t \in Speakers, ByEngine(t)'
        PROVE  \/ t \in DOMAIN known' /\ cast'[t].voice = known'[t]
               \/ t \in DOMAIN newcast' /\ cast'[t].voice = newcast'[t]
    <3>1. CASE t = s
      BY <2>1, <3>1
    <3>2. CASE t # s
      BY <2>1, <2>2, <2>3, <3>2 DEF RowsSeen
    <3> QED
      BY <3>1, <3>2
  <2> QED
    BY <2>3 DEF RowsSeen
<1>2. ASSUME NEW c \in CastOrders, CastSet(c.speaker, c.voice)
      PROVE  RowsSeen'
  <2>1. /\ UNCHANGED <<pc, known, newcast>>
        /\ \A s \in Speakers : ByEngine(s)' => ByEngine(s) /\ cast'[s] = cast[s]
    BY <1>2, CastSetIs
  <2> QED
    BY <2>1 DEF RowsSeen
<1>3. CASE RegenderNext
  BY <1>3 DEF RegenderNext, RowsSeen
<1>4. CASE cast' = cast
  <2>1. CASE (\E lines \in Scripts : BeginChapter(lines)) \/ Resume
    <3>1. pc' \in {"cast", "pass2"} => known' = CastVoices
      BY <2>1 DEF BeginChapter, Resume, BeginSubstitution
    <3> QED
      BY <1>4, <3>1 DEF RowsSeen, ByEngine, CastVoices
  <2>2. CASE UNCHANGED <<known, newcast>> /\ (pc' \in {"cast", "pass2"} => pc \in {"cast", "pass2"})
    BY <1>4, <2>2 DEF RowsSeen, ByEngine
  <2>3. CASE pc' \notin {"cast", "pass2"}
    BY <2>3 DEF RowsSeen
  <2> QED
    BY <1>1, <1>2, <1>3, <2>1, <2>2, <2>3 DEF Next, Start, Die, GiveUpCycle, Cast, InsertChapter,
       Regendered, SubstituteNext, Substituted, Publish, RenderFails, RequestRender, vars, cycleVars,
       BeginSubstitution
<1> QED
  BY <1>1, <1>2, <1>3, <1>4, RowsKept

(* A free voice is nobody's, and no voice is given back while casting.     *)
LEMMA NewVoicesStep ==
  ASSUME Typed, NewVoices, [Next]_vars
  PROVE  NewVoices'
<1>1. CASE CastNext
  <2> SUFFICES ASSUME ~crowded' PROVE NewVoices'
    BY DEF NewVoices
  <2>1. PICK s \in Speakers \ Seen, v \in Voices :
              /\ DOMAIN newcast' = DOMAIN newcast \cup {s} /\ newcast'[s] = v
              /\ \A t \in DOMAIN newcast : newcast'[t] = newcast[t]
              /\ ~crowded /\ (s \in Characters => v \notin Taken)
    BY <1>1, CastNextRows
  <2>2. known' = known /\ pc = "cast"
    BY <1>1, CastNextRows
  <2>3. s \notin DOMAIN newcast
    BY <2>1 DEF Seen
  <2>4. \A t \in Characters \cap DOMAIN newcast :
          /\ newcast[t] \notin VoicesOf(known) /\ newcast[t] \in Taken
          /\ \A u \in Characters \cap DOMAIN newcast : newcast[u] = newcast[t] => u = t
    BY <2>1, <2>2 DEF NewVoices, Taken, VoicesOf
  <2>5. s \in Characters => v \notin Taken /\ v \notin VoicesOf(known)
    BY <2>1 DEF Taken
  <2>6. ASSUME NEW t \in Characters \cap DOMAIN newcast'
        PROVE  /\ newcast'[t] \notin VoicesOf(known)
               /\ \A u \in Characters \cap DOMAIN newcast' : newcast'[u] = newcast'[t] => u = t
    BY <2>1, <2>3, <2>4, <2>5
  <2>7. VoicesOf(known)' = VoicesOf(known)
    BY <2>2 DEF VoicesOf
  <2> QED
    BY <2>6, <2>7 DEF NewVoices
<1>2. ASSUME UNCHANGED <<known, newcast>>, pc' \in {"cast", "pass2"} => pc \in {"cast", "pass2"},
             crowded' = crowded
      PROVE  NewVoices'
  <2>1. VoicesOf(known)' = VoicesOf(known)
    BY <1>2 DEF VoicesOf
  <2> QED
    BY <1>2, <2>1 DEF NewVoices
<1>3. CASE (\E lines \in Scripts : BeginChapter(lines)) \/ Resume
  <2>1. pc' \in {"cast", "pass2"} => newcast' = NoRows
    BY <1>3 DEF BeginChapter, Resume, BeginSubstitution
  <2> QED
    BY <2>1 DEF NewVoices, NoRows
<1>4. ASSUME pc' \notin {"cast", "pass2"}
      PROVE  NewVoices'
  BY <1>4 DEF NewVoices
<1> HIDE DEF NewVoices
<1>5. ASSUME NEW c \in CastOrders, CastSet(c.speaker, c.voice)
      PROVE  NewVoices'
  BY <1>5, <1>2, CastSetIs
<1> QED
  BY <1>1, <1>2, <1>3, <1>4, <1>5 DEF Next, Start, Die, GiveUpCycle, Cast, InsertChapter,
     RegenderNext, Regendered, SubstituteNext, Substituted, Publish, RenderFails, RequestRender,
     BeginSubstitution, vars, cycleVars

(* A correction gives back the voice of the corrected only.                *)
LEMMA VoicesToCorrectStep ==
  ASSUME Typed, RowsSeen, NewVoices, VoicesToCorrect, [Next]_vars
  PROVE  VoicesToCorrect'
<1>1. ASSUME NEW T \in SUBSET Characters, InsertChapter(T)
      PROVE  VoicesToCorrect'
  <2> SUFFICES ASSUME ~crowded PROVE VoicesToCorrect'
    BY <1>1 DEF VoicesToCorrect, InsertChapter
  <2>1. /\ pc = "pass2" /\ todo' = DOMAIN newcast \cap T /\ taken' = Taken
        /\ UNCHANGED <<cast, newcast>>
    BY <1>1 DEF InsertChapter
  <2>2. \A s \in Characters \cap DOMAIN newcast :
          /\ newcast[s] \notin VoicesOf(known)
          /\ \A t \in Characters \cap DOMAIN newcast : newcast[t] = newcast[s] => t = s
    BY <2>1 DEF NewVoices
  <2>3. ASSUME NEW s \in todo'
        PROVE  /\ newcast[s] \in taken'
               /\ \A t \in todo' : newcast[t] = newcast[s] => t = s
               /\ \A t \in Characters : ByEngine(t) /\ cast[t].voice = newcast[s] => t = s
    <3>1. s \in Characters \cap DOMAIN newcast
      BY <2>1, <2>3
    <3>2. newcast[s] \in taken'
      BY <2>1, <3>1 DEF Taken, VoicesOf
    <3>3. ASSUME NEW t \in Characters, ByEngine(t), cast[t].voice = newcast[s]
          PROVE  t = s
      <4>1. \/ t \in DOMAIN known /\ cast[t].voice = known[t]
            \/ t \in DOMAIN newcast /\ cast[t].voice = newcast[t]
        BY <2>1, <3>3 DEF RowsSeen, Speakers
      <4>2. t \in DOMAIN known => known[t] \in VoicesOf(known)
        BY DEF VoicesOf
      <4> QED
        BY <2>2, <3>1, <3>3, <4>1, <4>2
    <3> QED
      BY <2>1, <2>2, <3>1, <3>2, <3>3
  <2>4. ASSUME NEW t \in Characters, ByEngine(t)
        PROVE  cast[t].voice \in taken'
    BY <2>1, <2>4, EngineVoicesTaken DEF Speakers
  <2> QED
    BY <2>1, <2>3, <2>4 DEF VoicesToCorrect, ByEngine
<1>2. CASE RegenderNext
  <2> SUFFICES ASSUME ~crowded PROVE VoicesToCorrect'
    <3>1. crowded' = crowded
      BY <1>2, RegenderNextRows
    <3> QED
      BY <3>1 DEF VoicesToCorrect
  <2>1. pc = "regender" /\ newcast' = newcast
    BY <1>2, RegenderNextRows
  <2>2. PICK s \in todo :
              /\ s \in Characters \cap DOMAIN newcast /\ todo' = todo \ {s}
              /\ \/ UNCHANGED <<cast, taken, plan>>
                 \/ \E v \in Voices \ taken :
                      /\ ByEngine(s)' /\ cast'[s].voice = v
                      /\ \A t \in Speakers : t # s /\ ByEngine(t)' => ByEngine(t) /\ cast'[t] = cast[t]
                      /\ taken' = (taken \ {newcast[s]}) \cup {v}
    BY <1>2, RegenderNextRows
  <2>3. /\ \A t \in todo :
             /\ newcast[t] \in taken
             /\ \A u \in todo : newcast[u] = newcast[t] => u = t
             /\ \A u \in Characters : ByEngine(u) /\ cast[u].voice = newcast[t] => u = t
        /\ \A t \in Characters : ByEngine(t) => cast[t].voice \in taken
    BY <2>1 DEF VoicesToCorrect
  <2>4. CASE UNCHANGED <<cast, taken, plan>>
    BY <2>1, <2>2, <2>3, <2>4 DEF VoicesToCorrect, ByEngine
  <2>5. ASSUME NEW v \in Voices \ taken, ByEngine(s)', cast'[s].voice = v,
               \A t \in Speakers : t # s /\ ByEngine(t)' => ByEngine(t) /\ cast'[t] = cast[t],
               taken' = (taken \ {newcast[s]}) \cup {v}
        PROVE  VoicesToCorrect'
    <3>1. \A t \in Characters : t \in Speakers
      BY DEF Speakers
    <3>2. ASSUME NEW t \in todo'
          PROVE  /\ newcast[t] \in taken'
                 /\ \A u \in todo' : newcast[u] = newcast[t] => u = t
                 /\ \A u \in Characters : ByEngine(u)' /\ cast'[u].voice = newcast[t] => u = t
      <4>1. t \in todo /\ t # s /\ newcast[t] # newcast[s] /\ newcast[t] \in taken
        BY <2>2, <2>3, <3>2
      <4>2. newcast[t] # v
        BY <2>5, <4>1
      <4>3. ASSUME NEW u \in Characters, ByEngine(u)', cast'[u].voice = newcast[t]
            PROVE  u = t
        <5>1. u # s
          BY <2>5, <4>2, <4>3
        <5>2. ByEngine(u) /\ cast'[u] = cast[u]
          BY <2>5, <3>1, <4>3, <5>1
        <5> QED
          BY <2>3, <4>1, <4>3, <5>2
      <4> QED
        BY <2>2, <2>3, <2>5, <4>1, <4>3
    <3>3. ASSUME NEW t \in Characters, ByEngine(t)'
          PROVE  cast'[t].voice \in taken'
      <4>1. CASE t = s
        BY <2>5, <4>1
      <4>2. CASE t # s
        <5>1. ByEngine(t) /\ cast'[t] = cast[t]
          BY <2>5, <3>1, <3>3, <4>2
        <5>2. cast[t].voice \in taken /\ cast[t].voice # newcast[s]
          BY <2>3, <4>2, <5>1
        <5> QED
          BY <2>5, <5>1, <5>2
      <4> QED
        BY <4>1, <4>2
    <3> QED
      BY <2>1, <3>2, <3>3 DEF VoicesToCorrect
  <2> QED
    BY <2>2, <2>4, <2>5
<1>3. ASSUME NEW c \in CastOrders, CastSet(c.speaker, c.voice)
      PROVE  VoicesToCorrect'
  <2>1. /\ UNCHANGED <<pc, newcast, todo, taken, crowded>>
        /\ \A s \in Characters : ByEngine(s)' => ByEngine(s) /\ cast'[s] = cast[s]
    BY <1>3, CastSetIs DEF Speakers
  <2> QED
    BY <2>1 DEF VoicesToCorrect
<1>4. ASSUME pc' # "regender"
      PROVE  VoicesToCorrect'
  BY <1>4 DEF VoicesToCorrect
<1>5. ASSUME UNCHANGED <<cast, newcast, todo, taken, pc, crowded>>
      PROVE  VoicesToCorrect'
  BY <1>5 DEF VoicesToCorrect, ByEngine
<1>6. CASE CastNext
  BY <1>6, <1>4, CastNextRows
<1> HIDE DEF VoicesToCorrect
<1> QED
  BY <1>1, <1>2, <1>3, <1>4, <1>5, <1>6 DEF Next, Start, Die, BeginChapter, GiveUpCycle, Cast,
     Regendered, SubstituteNext, Substituted, Publish, RenderFails, Resume, RequestRender,
     BeginSubstitution, vars, cycleVars, storeVars

(* A chapter is voiced at the end of a cycle, and known from the next on.  *)
LEMMA VoicedAreKnownStep ==
  ASSUME Typed, VoicedAreKnown, [Next]_vars
  PROVE  VoicedAreKnown'
<1>1. CASE (\E lines \in Scripts : BeginChapter(lines)) \/ Resume
  <2>1. shelf' = shelf /\ (pc' \in {"cast", "pass2", "regender"} => DOMAIN known' = DOMAIN cast)
    BY <1>1 DEF BeginChapter, Resume, BeginSubstitution, CastVoices, storeVars
  <2> QED
    BY <2>1 DEF VoicedAreKnown, Typed, ShelfOK
<1>2. ASSUME NEW n \in DOMAIN shelf, RequestRender(n)
      PROVE  VoicedAreKnown'
  <2>1. /\ shelf' = [shelf EXCEPT ![n].audio = FALSE] /\ UNCHANGED <<pc, known>>
        /\ \A m \in DOMAIN shelf : shelf[m] \in Chapter
    BY <1>2, ShelfTypes DEF RequestRender, cycleVars, Typed, ShelfOK
  <2>2. ASSUME NEW m \in DOMAIN shelf', shelf'[m].audio
        PROVE  m \in DOMAIN shelf /\ shelf[m].audio /\ shelf'[m].script = shelf[m].script
    <3>1. m \in DOMAIN shelf /\ (m # n => shelf'[m] = shelf[m])
          /\ (m = n => shelf'[m] = [shelf[n] EXCEPT !.audio = FALSE])
      BY <2>1
    <3> QED
      BY <2>1, <2>2, <3>1 DEF Chapter
  <2> QED
    BY <2>1, <2>2 DEF VoicedAreKnown
<1>3. ASSUME NEW T \in SUBSET Characters, InsertChapter(T)
      PROVE  VoicedAreKnown'
  <2> DEFINE new == [script |-> script, voices |-> <<>>, audio |-> FALSE, build |-> {}]
  <2>1. /\ pc = "pass2" /\ known' = known /\ shelf' = Append(shelf, new)
        /\ script \in Scripts /\ shelf \in Seq(Chapter)
    BY <1>3 DEF InsertChapter, Typed, CycleOK, Planned, ShelfOK
  <2>2. new \in Chapter /\ new.audio = FALSE
    BY <2>1, EmptySeq DEF Chapter
  <2> HIDE DEF new
  <2>3. /\ DOMAIN shelf' = 1..(Len(shelf) + 1) /\ DOMAIN shelf = 1..Len(shelf) /\ Len(shelf) \in Nat
        /\ shelf'[Len(shelf) + 1] = new
        /\ \A n \in 1..Len(shelf) : shelf'[n] = shelf[n]
    BY <2>1, <2>2, AppendProperties, LenProperties
  <2>4. ASSUME NEW m \in DOMAIN shelf', shelf'[m].audio
        PROVE  m \in DOMAIN shelf /\ shelf'[m] = shelf[m]
    BY <2>2, <2>3, <2>4
  <2> QED
    BY <2>1, <2>4 DEF VoicedAreKnown
<1>4. ASSUME pc' \notin {"cast", "pass2", "regender"}
      PROVE  VoicedAreKnown'
  BY <1>4 DEF VoicedAreKnown
<1>5. ASSUME UNCHANGED <<shelf, known>>,
             pc' \in {"cast", "pass2", "regender"} => pc \in {"cast", "pass2", "regender"}
      PROVE  VoicedAreKnown'
  BY <1>5 DEF VoicedAreKnown
<1> HIDE DEF VoicedAreKnown
<1> QED
  BY <1>1, <1>2, <1>3, <1>4, <1>5 DEF Next, Start, Die, GiveUpCycle, CastNext, Cast, RegenderNext,
     Regendered, SubstituteNext, Substituted, Publish, RenderFails, CastSet, vars, cycleVars, storeVars

(* Corrections reach the plan, substitutions only what cannot be rendered. *)
LEMMA PlanMatchesCastStep ==
  ASSUME Typed, RowsSeen, PlanMatchesCast, [Next]_vars
  PROVE  PlanMatchesCast'
<1>1. CASE Cast
  <2>1. /\ pc = "cast" /\ plan' = PlanSegments /\ DOMAIN PlanSegments = DOMAIN script
        /\ UNCHANGED <<cast, script, build>> /\ script \in Scripts
        /\ \A i \in DOMAIN script : script[i] \in Seen
    BY <1>1, PlanSegmentsIs DEF Cast, BeginSubstitution, storeVars, processVars, Typed, CycleOK
  <2>2. \A i \in DOMAIN script : script[i] \in Speakers
    BY <2>1, SpeakersOfScripts
  <2>3. ASSUME NEW i \in DOMAIN script, ByEngine(script[i])
        PROVE  PlanSegments[i] = cast[script[i]].voice
    <3>1. \/ script[i] \in DOMAIN known /\ cast[script[i]].voice = known[script[i]]
          \/ script[i] \in DOMAIN newcast /\ cast[script[i]].voice = newcast[script[i]]
      BY <2>1, <2>2, <2>3 DEF RowsSeen
    <3>2. DOMAIN known \cap DOMAIN newcast = {}
      BY DEF Typed, CycleOK
    <3> QED
      BY <3>1, <3>2 DEF PlanSegments
  <2> HIDE DEF PlanSegments
  <2> QED
    BY <2>1, <2>3 DEF PlanMatchesCast, ByEngine
<1>2. CASE Resume
  <2>1. CASE pc' # "substitute"
    BY <1>2, <2>1 DEF Resume, BeginSubstitution, PlanMatchesCast, Planned
  <2>2. CASE pc' = "substitute"
    <3>1. /\ chapter' \in DOMAIN shelf /\ script' = shelf[chapter'].script
          /\ plan' = Replanned(chapter') /\ cast' = cast
      BY <1>2, <2>2, ResumeIs DEF Resume, BeginSubstitution, storeVars
    <3>2. DOMAIN plan' = DOMAIN script'
          /\ \A i \in DOMAIN script' : plan'[i] = cast'[script'[i]].voice
      BY <3>1, ReplannedIs
    <3> QED
      BY <3>2 DEF PlanMatchesCast
  <2> QED
    BY <2>1, <2>2
<1>3. CASE RegenderNext
  <2>1. UNCHANGED <<build, pc, script>> /\ pc = "regender"
    BY <1>3, RegenderNextRows
  <2>2. script \in Scripts /\ DOMAIN plan = DOMAIN script
    BY <2>1 DEF Typed, CycleOK, Planned
  <2>3. \A i \in DOMAIN script : script[i] \in Speakers
    BY <2>2, SpeakersOfScripts
  <2>4. PICK s \in todo :
              \/ UNCHANGED <<cast, taken, plan>>
              \/ \E v \in Voices \ taken :
                      /\ cast'[s].voice = v
                      /\ \A t \in Speakers : t # s /\ ByEngine(t)' => ByEngine(t) /\ cast'[t] = cast[t]
                      /\ plan' = [i \in DOMAIN plan |-> IF script[i] = s THEN v ELSE plan[i]]
    BY <1>3, RegenderNextRows
  <2>5. CASE UNCHANGED <<cast, taken, plan>>
    BY <2>1, <2>5 DEF PlanMatchesCast, ByEngine, Planned
  <2>6. ASSUME NEW v \in Voices, cast'[s].voice = v,
               \A t \in Speakers : t # s /\ ByEngine(t)' => ByEngine(t) /\ cast'[t] = cast[t],
               plan' = [i \in DOMAIN plan |-> IF script[i] = s THEN v ELSE plan[i]]
        PROVE  PlanMatchesCast'
    <3>1. ASSUME NEW i \in DOMAIN plan, ByEngine(script[i])', Usable(cast'[script[i]].voice, build)
          PROVE  plan'[i] = cast'[script[i]].voice
      <4>1. CASE script[i] = s
        BY <2>6, <4>1
      <4>2. CASE script[i] # s
        <5>1. ByEngine(script[i]) /\ cast'[script[i]] = cast[script[i]]
          <6> DEFINE t == script[i]
          <6>1. t \in Speakers /\ t # s
            BY <2>2, <2>3, <4>2
          <6>2. t \in DOMAIN cast' /\ cast'[t].by = "engine"
            BY <2>1, <3>1 DEF ByEngine
          <6> HIDE DEF t
          <6>3. ByEngine(t) /\ cast'[t] = cast[t]
            BY <2>6, <6>1, <6>2 DEF ByEngine
          <6> QED
            BY <6>3 DEF t
        <5> QED
          BY <2>1, <2>6, <3>1, <4>2, <5>1 DEF PlanMatchesCast, Planned
      <4> QED
        BY <4>1, <4>2
    <3>2. DOMAIN plan' = DOMAIN plan
      BY <2>6
    <3> QED
      BY <2>1, <3>1, <3>2 DEF PlanMatchesCast, ByEngine
  <2> QED
    BY <2>4, <2>5, <2>6
<1>4. CASE SubstituteNext
  <2>1. PICK s \in Speakers, v \in Voices :
          plan' = [j \in DOMAIN plan |-> IF j \in Unusable /\ script[j] = s THEN v ELSE plan[j]]
    BY <1>4, SubstituteNextIs
  <2>2. UNCHANGED <<cast, script, build>> /\ pc = "substitute"
    BY <1>4 DEF SubstituteNext, storeVars, processVars
  <2>3. ASSUME NEW i \in DOMAIN plan, ByEngine(script[i]), Usable(cast[script[i]].voice, build)
        PROVE  plan'[i] = cast[script[i]].voice
    <3>1. plan[i] = cast[script[i]].voice
      BY <2>2, <2>3 DEF PlanMatchesCast, Planned
    <3>2. i \notin Unusable
      BY <2>3, <3>1 DEF Unusable
    <3> QED
      BY <2>1, <3>1, <3>2
  <2>4. DOMAIN plan' = DOMAIN plan
    BY <2>1
  <2> QED
    BY <2>2, <2>3, <2>4 DEF PlanMatchesCast, ByEngine
<1>5. ASSUME NEW c \in CastOrders, CastSet(c.speaker, c.voice)
      PROVE  PlanMatchesCast'
  <2>1. /\ UNCHANGED <<build, pc, script, plan>>
        /\ \A s \in Speakers : ByEngine(s)' => ByEngine(s) /\ cast'[s] = cast[s]
    BY <1>5, CastSetIs
  <2> SUFFICES ASSUME Planned PROVE PlanMatchesCast'
    BY <2>1 DEF PlanMatchesCast, Planned
  <2>2. DOMAIN plan = DOMAIN script /\ \A i \in DOMAIN script : script[i] \in Speakers
    BY SpeakersOfScripts DEF Typed, CycleOK
  <2>3. \A s \in Speakers : s \in DOMAIN cast' /\ cast'[s].by = "engine" =>
                              s \in DOMAIN cast /\ cast[s].by = "engine" /\ cast'[s] = cast[s]
    BY <2>1 DEF ByEngine
  <2> QED
    BY <2>1, <2>2, <2>3 DEF PlanMatchesCast, ByEngine
<1>6. ASSUME pc' \notin {"pass2", "regender", "substitute", "render"}
      PROVE  PlanMatchesCast'
  BY <1>6 DEF PlanMatchesCast, Planned
<1>7. ASSUME UNCHANGED <<cast, plan, script, build>>, Planned' => Planned
      PROVE  PlanMatchesCast'
  BY <1>7 DEF PlanMatchesCast, ByEngine
<1>8. CASE CastNext
  BY <1>6, <1>8, CastNextRows
<1> HIDE DEF PlanMatchesCast
<1> QED
  BY <1>1, <1>2, <1>3, <1>4, <1>5, <1>6, <1>7, <1>8 DEF Next, Start, Die, BeginChapter, GiveUpCycle,
     InsertChapter, Regendered, BeginSubstitution, Substituted, Publish, RenderFails, RequestRender,
     vars, cycleVars, storeVars, processVars, Planned

(* A stand-in is taken from then on, so nobody else gets it.               *)
LEMMA StandInsStep ==
  ASSUME Typed, StandInsOwn, [Next]_vars
  PROVE  StandInsOwn'
<1>1. ASSUME NEW lines \in Scripts, NEW p \in Seq(Voices), DOMAIN p = DOMAIN lines,
             BeginSubstitution(lines, p), build' = build
      PROVE  StandInsOwn'
  <2>1. plan' = p /\ meant' = p /\ \A i \in DOMAIN p : Usable(p[i], build) => p[i] \in taken'
    BY <1>1, BeginSubstitutionIs
  <2> QED
    BY <1>1, <2>1 DEF StandInsOwn
<1>2. CASE Cast
  <2>1. CASE resuming
    <3>1. script \in Scripts /\ build' = build /\ BeginSubstitution(script, PlanSegments)
      BY <1>2, <2>1 DEF Cast, processVars, Typed, CycleOK
    <3>2. PlanSegments \in Seq(Voices) /\ DOMAIN PlanSegments = DOMAIN script
      BY <1>2, PlanSegmentsIs DEF Cast
    <3> HIDE DEF PlanSegments
    <3> QED
      BY <1>1, <3>1, <3>2
  <2>2. CASE ~resuming
    BY <1>2, <2>2 DEF Cast, StandInsOwn
  <2> QED
    BY <2>1, <2>2
<1>3. CASE Regendered
  <2>1. /\ script \in Scripts /\ plan \in Seq(Voices) /\ DOMAIN plan = DOMAIN script
        /\ BeginSubstitution(script, plan) /\ build' = build
    BY <1>3 DEF Regendered, processVars, Typed, TypeOK, CycleOK, Planned
  <2> QED
    BY <1>1, <2>1
<1>4. CASE Resume
  <2>1. /\ chapter' \in DOMAIN shelf /\ script' = shelf[chapter'].script /\ script' \in Scripts
        /\ build' = build
    BY <1>4, ResumeIs DEF Resume, processVars
  <2>2. CASE shelf[chapter'].voices # <<>>
    <3>1. BeginSubstitution(shelf[chapter'].script, Replanned(chapter'))
      BY <1>4, <2>1, <2>2 DEF Resume
    <3>2. /\ Replanned(chapter') \in Seq(Voices)
          /\ DOMAIN Replanned(chapter') = DOMAIN shelf[chapter'].script
      BY <2>1, ReplannedIs
    <3> HIDE DEF Replanned
    <3> QED
      BY <1>1, <2>1, <3>1, <3>2
  <2>3. CASE shelf[chapter'].voices = <<>>
    BY <1>4, <2>3 DEF Resume, StandInsOwn
  <2> QED
    BY <2>2, <2>3
<1>5. CASE SubstituteNext
  <2>1. PICK s \in Speakers, v \in Voices :
          /\ plan' = [j \in DOMAIN plan |-> IF j \in Unusable /\ script[j] = s THEN v ELSE plan[j]]
          /\ taken' = taken \cup {v}
          /\ Usable(v, build) /\ (v \in taken => v \in {narrator, system})
    BY <1>5, SubstituteNextIs
  <2>2. /\ pc = "substitute" /\ pc' = "substitute" /\ DOMAIN plan' = DOMAIN plan
        /\ UNCHANGED <<build, narrator, system, script, meant>>
    BY <1>5, <2>1 DEF SubstituteNext, storeVars, processVars, boundVars
  <2>3. \A i \in DOMAIN plan : Usable(plan[i], build) => plan[i] \in taken
    BY <2>2 DEF StandInsOwn
  <2>4. \A i \in DOMAIN plan : Usable(plan'[i], build) => plan'[i] \in taken'
    BY <2>1, <2>3
  <2>5. ASSUME NEW i \in DOMAIN plan, NEW j \in DOMAIN plan, plan'[i] # meant[i],
               plan'[j] = plan'[i], script[j] # script[i]
        PROVE  plan'[i] \in {narrator, system}
    <3>1. CASE i \in Unusable /\ script[i] = s
      <4>1. plan'[i] = v /\ plan'[j] = plan[j]
        BY <2>1, <2>5, <3>1
      <4> QED
        BY <2>1, <2>3, <2>5, <4>1
    <3>2. CASE j \in Unusable /\ script[j] = s
      <4>1. plan'[j] = v /\ plan'[i] = plan[i]
        BY <2>1, <2>5, <3>2
      <4> QED
        BY <2>1, <2>3, <2>5, <4>1
    <3>3. CASE ~(i \in Unusable /\ script[i] = s) /\ ~(j \in Unusable /\ script[j] = s)
      <4>1. plan'[i] = plan[i] /\ plan'[j] = plan[j]
        BY <2>1, <3>3
      <4> QED
        BY <2>2, <2>5, <4>1 DEF StandInsOwn
    <3> QED
      BY <3>1, <3>2, <3>3
  <2> QED
    BY <2>2, <2>4, <2>5 DEF StandInsOwn, Usable
<1>6. CASE Substituted
  BY <1>6 DEF Substituted, StandInsOwn, cycleVars, processVars, boundVars, Usable
<1>7. ASSUME pc' \notin {"substitute", "render"}
      PROVE  StandInsOwn'
  BY <1>7 DEF StandInsOwn
<1>8. ASSUME UNCHANGED <<pc, plan, meant, taken, script, build, narrator, system>>
      PROVE  StandInsOwn'
  BY <1>8 DEF StandInsOwn, Usable
<1>9. CASE CastNext
  BY <1>7, <1>9 DEF CastNext
<1>10. CASE RegenderNext
  BY <1>7, <1>10 DEF RegenderNext
<1> HIDE DEF StandInsOwn
<1> QED
  BY <1>2, <1>3, <1>4, <1>5, <1>6, <1>7, <1>8, <1>9, <1>10 DEF Next, Start, Die, BeginChapter,
     GiveUpCycle, InsertChapter, Publish, RenderFails, CastSet, RequestRender, vars, cycleVars,
     storeVars, processVars, boundVars

(* Voices stay distinct: who writes a row takes a voice nobody has.        *)
LEMMA DistinctStep ==
  ASSUME Typed, RowsSeen, VoicesToCorrect, DistinctUnlessCrowded, [Next]_vars
  PROVE  DistinctUnlessCrowded'
<1> DEFINE Distinct == \A s, t \in Characters :
             ByEngine(s) /\ ByEngine(t) /\ s # t => cast[s].voice # cast[t].voice
<1>1. DistinctUnlessCrowded <=> (~crowded => Distinct)
  BY DEF DistinctUnlessCrowded, ByEngine
<1>2. DistinctUnlessCrowded' <=> (~crowded' => Distinct')
  BY DEF DistinctUnlessCrowded, ByEngine
<1>3. \A t \in Characters : t \in Speakers
  BY DEF Speakers
<1>4. CASE CastNext
  <2> SUFFICES ASSUME ~crowded' PROVE Distinct'
    BY <1>2
  <2>1. PICK s \in Speakers \ Seen, v \in Voices :
              /\ ByEngine(s)' /\ cast'[s].voice = v
              /\ \A t \in Speakers : t # s /\ ByEngine(t)' => ByEngine(t) /\ cast'[t] = cast[t]
              /\ ~crowded' => ~crowded /\ (s \in Characters => v \notin Taken)
    BY <1>4, CastNextRows
  <2>2. pc = "cast" /\ Distinct
    BY <1>1, <1>4, <2>1, CastNextRows
  <2>3. \A t \in Characters : ByEngine(t) => cast[t].voice \in Taken
    BY <1>3, <2>2, EngineVoicesTaken
  <2> SUFFICES ASSUME NEW a \in Characters, NEW b \in Characters, ByEngine(a)', ByEngine(b)', a # b
               PROVE  cast'[a].voice # cast'[b].voice
    OBVIOUS
  <2>4. CASE a = s
    BY <1>3, <2>1, <2>3, <2>4
  <2>5. CASE b = s
    BY <1>3, <2>1, <2>3, <2>5
  <2>6. CASE a # s /\ b # s
    BY <1>3, <2>1, <2>2, <2>6
  <2> QED
    BY <2>4, <2>5, <2>6
<1>5. CASE RegenderNext
  <2> SUFFICES ASSUME ~crowded' PROVE Distinct'
    BY <1>2
  <2>1. pc = "regender" /\ newcast' = newcast /\ ~crowded
    BY <1>5, RegenderNextRows
  <2>2. PICK s \in todo :
              \/ UNCHANGED <<cast, taken, plan>>
              \/ \E v \in Voices \ taken :
                      /\ ByEngine(s)' /\ cast'[s].voice = v
                      /\ \A t \in Speakers : t # s /\ ByEngine(t)' => ByEngine(t) /\ cast'[t] = cast[t]
    BY <1>5, RegenderNextRows
  <2>3. Distinct /\ \A t \in Characters : ByEngine(t) => cast[t].voice \in taken
    BY <1>1, <2>1 DEF VoicesToCorrect
  <2>4. CASE UNCHANGED <<cast, taken, plan>>
    BY <2>3, <2>4 DEF ByEngine
  <2>5. ASSUME NEW v \in Voices \ taken, ByEngine(s)', cast'[s].voice = v,
               \A t \in Speakers : t # s /\ ByEngine(t)' => ByEngine(t) /\ cast'[t] = cast[t]
        PROVE  Distinct'
    <3> SUFFICES ASSUME NEW a \in Characters, NEW b \in Characters, ByEngine(a)', ByEngine(b)', a # b
                 PROVE  cast'[a].voice # cast'[b].voice
      OBVIOUS
    <3>1. CASE a = s
      BY <1>3, <2>3, <2>5, <3>1
    <3>2. CASE b = s
      BY <1>3, <2>3, <2>5, <3>2
    <3>3. CASE a # s /\ b # s
      BY <1>3, <2>3, <2>5, <3>3
    <3> QED
      BY <3>1, <3>2, <3>3
  <2> QED
    BY <2>2, <2>4, <2>5
<1>6. ASSUME NEW c \in CastOrders, CastSet(c.speaker, c.voice)
      PROVE  DistinctUnlessCrowded'
  <2>1. /\ crowded' = crowded
        /\ \A s \in Characters : ByEngine(s)' => ByEngine(s) /\ cast'[s] = cast[s]
    BY <1>3, <1>6, CastSetIs
  <2> QED
    BY <1>1, <1>2, <2>1
<1>7. CASE cast' = cast
  <2>1. crowded' = crowded \/ CastNext
    BY DEF Next, Start, Die, BeginChapter, GiveUpCycle, Cast, InsertChapter, RegenderNext,
       Regendered, SubstituteNext, Substituted, Publish, RenderFails, Resume, CastSet,
       RequestRender, vars, boundVars
  <2> QED
    BY <1>4, <1>7, <2>1 DEF DistinctUnlessCrowded
<1> QED
  BY <1>4, <1>5, <1>6, <1>7, RowsKept

(* A chapter's voices are those of the rows the engine set last.           *)
InVoices(ch, rows) ==
  \A i \in DOMAIN ch.script :
    LET s == ch.script[i] IN
      s \in DOMAIN rows /\ rows[s].by = "engine" /\ Usable(rows[s].voice, ch.build) =>
        ch.voices[i] = rows[s].voice

(* Audio stays in the voices of the cast.                                  *)
LEMMA AudioStep ==
  ASSUME Typed, VoicedAreKnown, PlanMatchesCast, AudioMatchesCast, [Next]_vars
  PROVE  AudioMatchesCast'
<1>1. Typed'
        /\ \A n \in DOMAIN shelf : \A i \in DOMAIN shelf[n].script : shelf[n].script[i] \in Speakers
  BY StepTyped, SpeakersOfScripts DEF Typed, TypeOK
<1>2. \A n \in DOMAIN shelf : shelf[n].audio => InVoices(shelf[n], cast)
  BY DEF AudioMatchesCast, InVoices
<1>3. ASSUME \A n \in DOMAIN shelf' : shelf'[n].audio => InVoices(shelf'[n], cast')
      PROVE  AudioMatchesCast'
  <2>1. \A n \in DOMAIN shelf' : \A i \in DOMAIN shelf'[n].script : shelf'[n].script[i] \in DOMAIN cast'
    BY <1>1 DEF Typed, ShelfOK
  <2> QED
    BY <1>3, <2>1 DEF AudioMatchesCast, InVoices
<1>4. ASSUME shelf' = shelf, NEW s \in Speakers \ DOMAIN known, pc \in {"cast", "regender"},
             \A t \in Speakers : t # s /\ ByEngine(t)' => ByEngine(t) /\ cast'[t] = cast[t]
      PROVE  AudioMatchesCast'
  <2>1. ASSUME NEW n \in DOMAIN shelf, shelf[n].audio, NEW i \in DOMAIN shelf[n].script,
               NEW t, t = shelf[n].script[i], t \in DOMAIN cast', cast'[t].by = "engine",
               Usable(cast'[t].voice, shelf[n].build)
        PROVE  shelf[n].voices[i] = cast'[t].voice
    <3>1. t \in Speakers
      BY <1>1, <2>1
    <3>2. t \in DOMAIN known
      BY <1>4, <2>1 DEF VoicedAreKnown
    <3>3. ByEngine(t) /\ cast'[t] = cast[t]
      BY <1>4, <2>1, <3>1, <3>2 DEF ByEngine
    <3> QED
      BY <1>2, <2>1, <3>3 DEF InVoices, ByEngine
  <2>2. ASSUME NEW n \in DOMAIN shelf, shelf[n].audio
        PROVE  InVoices(shelf[n], cast')
    BY <2>1, <2>2 DEF InVoices
  <2> QED
    BY <1>3, <1>4, <2>2
<1>5. CASE CastNext
  BY <1>4, <1>5, CastNextRows DEF Seen
<1>6. CASE RegenderNext
  <2>1. UNCHANGED shelf /\ pc = "regender"
    BY <1>6, RegenderNextRows
  <2>2. PICK s \in todo :
          /\ s \in Characters \cap DOMAIN newcast
          /\ \/ cast' = cast
             \/ \A t \in Speakers : t # s /\ ByEngine(t)' => ByEngine(t) /\ cast'[t] = cast[t]
    BY <1>6, RegenderNextRows
  <2>3. s \in Speakers \ DOMAIN known
    BY <2>2 DEF Typed, CycleOK, Speakers
  <2>4. CASE cast' = cast
    BY <2>1, <2>4 DEF AudioMatchesCast
  <2> QED
    BY <1>4, <2>1, <2>2, <2>3, <2>4
<1>7. ASSUME NEW c \in CastOrders, CastSet(c.speaker, c.voice)
      PROVE  AudioMatchesCast'
  <2>1. /\ shelf' = shelf
        /\ \A s \in Speakers : s \in DOMAIN cast' /\ cast'[s].by = "engine" =>
                                ByEngine(s) /\ cast'[s] = cast[s]
    BY <1>7, CastSetIs DEF ByEngine
  <2>2. ASSUME NEW n \in DOMAIN shelf, shelf[n].audio
        PROVE  InVoices(shelf[n], cast')
    BY <1>1, <1>2, <2>1, <2>2 DEF ByEngine, InVoices
  <2> QED
    BY <1>3, <2>1, <2>2
<1>8. CASE cast' = cast
  <2>1. ASSUME \A n \in DOMAIN shelf' : shelf'[n].audio =>
                 \/ n \in DOMAIN shelf /\ shelf[n].audio /\ shelf'[n] = shelf[n]
                 \/ InVoices(shelf'[n], cast)
        PROVE  AudioMatchesCast'
    <3>1. ASSUME NEW n \in DOMAIN shelf', shelf'[n].audio
          PROVE  InVoices(shelf'[n], cast')
      BY <1>2, <1>8, <2>1, <3>1
    <3> QED
      BY <1>3, <3>1
  <2>2. ASSUME NEW n \in DOMAIN shelf, RequestRender(n)
        PROVE  AudioMatchesCast'
    <3>1. /\ shelf' = [shelf EXCEPT ![n].audio = FALSE]
          /\ \A m \in DOMAIN shelf : shelf[m] \in Chapter
      BY <2>2, ShelfTypes DEF RequestRender, Typed, ShelfOK
    <3>2. ASSUME NEW m \in DOMAIN shelf', shelf'[m].audio
          PROVE  m \in DOMAIN shelf /\ shelf[m].audio /\ shelf'[m] = shelf[m]
      <4>1. m \in DOMAIN shelf /\ (m # n => shelf'[m] = shelf[m])
            /\ (m = n => shelf'[m] = [shelf[n] EXCEPT !.audio = FALSE])
        BY <3>1
      <4> QED
        BY <3>1, <3>2, <4>1 DEF Chapter
    <3> QED
      BY <2>1, <3>2
  <2>3. ASSUME NEW T \in SUBSET Characters, InsertChapter(T)
        PROVE  AudioMatchesCast'
    <3> DEFINE new == [script |-> script, voices |-> <<>>, audio |-> FALSE, build |-> {}]
    <3>1. /\ pc = "pass2" /\ shelf' = Append(shelf, new)
          /\ script \in Scripts /\ shelf \in Seq(Chapter)
      BY <2>3 DEF InsertChapter, Typed, CycleOK, Planned, ShelfOK
    <3>2. new \in Chapter /\ new.audio = FALSE
      BY <3>1, EmptySeq DEF Chapter
    <3> HIDE DEF new
    <3>3. /\ DOMAIN shelf' = 1..(Len(shelf) + 1) /\ DOMAIN shelf = 1..Len(shelf) /\ Len(shelf) \in Nat
          /\ shelf'[Len(shelf) + 1] = new
          /\ \A n \in 1..Len(shelf) : shelf'[n] = shelf[n]
      BY <3>1, <3>2, AppendProperties, LenProperties
    <3>4. ASSUME NEW m \in DOMAIN shelf', shelf'[m].audio
          PROVE  m \in DOMAIN shelf /\ shelf[m].audio /\ shelf'[m] = shelf[m]
      BY <3>2, <3>3, <3>4
    <3> QED
      BY <2>1, <3>4
  <2>4. CASE Publish
    <3>1. /\ shelf' = [shelf EXCEPT ![chapter] =
                         [script |-> script, voices |-> plan, audio |-> TRUE, build |-> build]]
          /\ DOMAIN plan = DOMAIN script
          /\ \A i \in DOMAIN plan :
               ByEngine(script[i]) /\ Usable(cast[script[i]].voice, build) =>
                 plan[i] = cast[script[i]].voice
      BY <2>4 DEF Publish, PlanMatchesCast, Planned, Typed, CycleOK
    <3>2. ASSUME NEW n \in DOMAIN shelf', shelf'[n].audio
          PROVE  \/ n \in DOMAIN shelf /\ shelf[n].audio /\ shelf'[n] = shelf[n]
                 \/ InVoices(shelf'[n], cast)
      <4>1. CASE n = chapter
        <5>1. shelf'[n] = [script |-> script, voices |-> plan, audio |-> TRUE, build |-> build]
          BY <3>1, <4>1
        <5> QED
          BY <3>1, <5>1 DEF InVoices, ByEngine
      <4>2. CASE n # chapter
        BY <3>1, <3>2, <4>2
      <4> QED
        BY <4>1, <4>2
    <3> QED
      BY <2>1, <3>2
  <2>5. CASE shelf' = shelf
    BY <1>8, <2>5 DEF AudioMatchesCast
  <2> QED
    BY <1>5, <1>6, <1>7, <2>2, <2>3, <2>4, <2>5 DEF Next, Start, Die, BeginChapter, GiveUpCycle,
       Cast, Regendered, SubstituteNext, Substituted, RenderFails, Resume, vars, storeVars
<1> QED
  BY <1>5, <1>6, <1>7, <1>8, RowsKept

-----------------------------------------------------------------------------
(* The theorems.                                                           *)

LEMMA InvariantInit == Init => IInv
<1> SUFFICES ASSUME Init PROVE IInv
  OBVIOUS
<1>1. Typed
  BY TypedInit
<1>2. DOMAIN cast = {} /\ DOMAIN shelf = {} /\ pc = "down"
  BY DEF Init
<1> QED
  BY <1>1, <1>2 DEF IInv, RowsSeen, NewVoices, VoicesToCorrect, VoicedAreKnown, PlanMatchesCast,
                    Planned, DistinctUnlessCrowded, AudioMatchesCast, StandInsOwn

LEMMA InvariantStep == IInv /\ [Next]_vars => IInv'
BY StepTyped, RowsSeenStep, NewVoicesStep, VoicesToCorrectStep, VoicedAreKnownStep,
   PlanMatchesCastStep, DistinctStep, AudioStep, StandInsStep DEF IInv

(* The inductive invariant: the parts above hold together in every state,  *)
(* with any voices, backends, characters, scripts and bounds.              *)
THEOREM CastingIsSound == Spec => []IInv
<1>1. Init => IInv
  BY InvariantInit
<1>2. IInv /\ [Next]_vars => IInv'
  BY InvariantStep
<1> QED
  BY <1>1, <1>2, PTL DEF Spec

(* What the engine and the store keep is typed, and the voice plan of a    *)
(* running engine (plan_voices) names only voices of its backends.         *)
THEOREM CastingIsTyped == Spec => []TypeOK
<1>1. IInv => TypeOK
  BY DEF IInv, Typed
<1> QED
  BY <1>1, CastingIsSound, PTL

(* What substitute_unrenderable hands to the renderer can be rendered by   *)
(* this build, in one voice per speaker, and a stand-in is no other        *)
(* speaker's voice unless it is the narrator's or the system's.            *)
THEOREM VoicesAreRenderable == Spec => []RenderableVoices
<1>1. IInv => RenderableVoices
  BY DEF IInv, Typed, CycleOK, Planned, StandInsOwn, RenderableVoices, Unusable
<1> QED
  BY <1>1, CastingIsSound, PTL

(* VoiceAssigner's assign and regender give no two characters one voice    *)
(* while the pool has a free one, whatever crashes and orders intervene.   *)
THEOREM VoicesAreDistinct == Spec => []DistinctUnlessCrowded
<1>1. IInv => DistinctUnlessCrowded
  BY DEF IInv
<1> QED
  BY <1>1, CastingIsSound, PTL

(* A chapter's audio is in the voices of the cast, for every row the       *)
(* engine set last and every voice its build had.                          *)
THEOREM AudioIsInTheCastsVoices == Spec => []AudioMatchesCast
<1>1. IInv => AudioMatchesCast
  BY DEF IInv
<1> QED
  BY <1>1, CastingIsSound, PTL
==============================================================================
