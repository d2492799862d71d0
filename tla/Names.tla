-------------------------------- MODULE Names --------------------------------
(***************************************************************************)
(* Names of people: when two spellings are one person, and onto which      *)
(* established name a name proposed by the model is resolved.              *)
(*                                                                         *)
(* Abstracted: a name is its spelling, in ASCII; of its letters only the   *)
(* words, lower-cased, and its place in the order of BTreeSet count.       *)
(***************************************************************************)
EXTENDS Naturals, Sequences, FiniteSets

CONSTANTS
  Spellings,    \* of the names that occur
  Nobody,       \* the empty name
  WordsOf,      \* its whitespace-separated words, lower-cased
  Place,        \* where a spelling sorts among the others
  Protagonist   \* story.protagonist, which may be empty

ASSUME NamesAssumption ==
  /\ Nobody \notin Spellings /\ Protagonist \in Spellings \cup {Nobody}
  /\ WordsOf \in [Spellings \cup {Nobody} -> Seq(STRING)] /\ WordsOf[Nobody] = <<>>
  /\ \A n \in Spellings : WordsOf[n] # <<>>
  /\ Place \in [Spellings -> Nat] /\ \A m, n \in Spellings : Place[m] = Place[n] => m = n

SameSpeaker(m, n) == WordsOf[m] = WordsOf[n]

StartsWith(long, short) ==
  Len(short) <= Len(long) /\ \A i \in DOMAIN short : long[i] = short[i]

PrefixRelated(a, b) ==
  /\ a # <<>> /\ b # <<>> /\ Len(a) # Len(b)
  /\ StartsWith(a, b) \/ StartsWith(b, a)

(* The protagonist by another name, or by his own.                         *)
IsProtagonist(n) ==
  /\ WordsOf[Protagonist] # <<>>
  /\ SameSpeaker(n, Protagonist) \/ PrefixRelated(WordsOf[n], WordsOf[Protagonist])

Alike(n, known) == {k \in known : SameSpeaker(k, n)}
Near(n, known)  == {k \in known : PrefixRelated(WordsOf[k], WordsOf[n])}

First(names) == CHOOSE n \in names : \A m \in names : Place[n] <= Place[m]

(* Mutant: an exact match outranks the protagonist.                        *)
Resolve_ExactFirst(n, known) ==
  CASE Alike(n, known) # {} -> First(Alike(n, known))
    [] Alike(n, known) = {} /\ IsProtagonist(n) -> Protagonist
    [] OTHER -> IF Cardinality(Near(n, known)) = 1 THEN First(Near(n, known)) ELSE n

(* The protagonist first; then the established spelling of the same words; *)
(* then the one established name it shortens or lengthens; else the name   *)
(* as it stands: a wrong merge could not be undone.                        *)
Resolve(n, known) ==
  IF IsProtagonist(n) THEN Protagonist
  ELSE IF Alike(n, known) # {} THEN First(Alike(n, known))
  ELSE IF Cardinality(Near(n, known)) = 1 THEN First(Near(n, known))
  ELSE n
=============================================================================
