---------------------------- MODULE MCGeneration ----------------------------
(* The protagonist Kaelen Vord Dun, whom the prose may call Kaelen Vord or *)
(* Kaelen, as it may shorten Kaelen Ash; Sera, whom it may shout; Sera     *)
(* Vane, who may or may not be Sera; tags of the roles, one of them        *)
(* misspelt in two letters; and tags with a colon inside, or two.          *)
EXTENDS Generation, TLC

CONSTANTS DraftLength, Reports   \* bounds: lines of a draft, entries of a report

(* The same function, written out.                                         *)
Tabulated(f) == f @@ <<>>

SpellingsTable == {"Kaelen Vord Dun", "Kaelen Vord", "Kaelen", "Kaelen:", "Kaelen Ash",
                   "SERA", "Sera", "Sera Vane", "SYSTEM", "narrator"}
TagsTable      == SpellingsTable \cup {"narraraor", "system", "Kaelen::"}

NameOfTable == Tabulated([t \in TagsTable |->
  CASE t = "Kaelen:"  -> "Kaelen"
    [] t = "Kaelen::" -> "Kaelen:"
    [] OTHER -> t])

WordsOfTable == "Nobody" :> <<>> @@ "Kaelen Vord Dun" :> <<"kaelen", "vord", "dun">>
  @@ "Kaelen Vord" :> <<"kaelen", "vord">> @@ "Kaelen" :> <<"kaelen">>
  @@ "Kaelen:" :> <<"kaelen:">> @@ "Kaelen Ash" :> <<"kaelen", "ash">>
  @@ "SERA" :> <<"sera">> @@ "Sera" :> <<"sera">> @@ "Sera Vane" :> <<"sera", "vane">>
  @@ "SYSTEM" :> <<"system">> @@ "narrator" :> <<"narrator">>

(* As bytes sort: capitals first.                                          *)
PlaceTable == "Kaelen" :> 1 @@ "Kaelen Ash" :> 2 @@ "Kaelen Vord" :> 3 @@ "Kaelen Vord Dun" :> 4
  @@ "Kaelen:" :> 5 @@ "SERA" :> 6 @@ "SYSTEM" :> 7 @@ "Sera" :> 8 @@ "Sera Vane" :> 9
  @@ "narrator" :> 10

RoleWordsTable == {"narrator", "narration", "system"}
RoleOfTable    == Tabulated([w \in RoleWordsTable |-> IF w = "system" THEN "system" ELSE "narrator"])
SpellsTable    == Tabulated([t \in TagsTable |->
  CASE t = "narrator" -> {"narrator"}
    [] t \in {"SYSTEM", "system"} -> {"system"}
    [] OTHER -> {}])
WordCountTable == Tabulated([t \in TagsTable |->
  IF t \in SpellingsTable THEN Len(WordsOfTable[t]) ELSE 1])

LengthOfTable == "Kaelen Vord Dun" :> 15 @@ "Kaelen Vord" :> 11 @@ "Kaelen" :> 6
  @@ "Kaelen:" :> 7 @@ "Kaelen::" :> 8 @@ "Kaelen Ash" :> 10 @@ "SERA" :> 4 @@ "Sera" :> 4
  @@ "Sera Vane" :> 9 @@ "SYSTEM" :> 6 @@ "system" :> 6 @@ "narrator" :> 8
  @@ "narraraor" :> 9 @@ "narration" :> 9

SharedStartTable == Tabulated([t \in TagsTable |-> Tabulated([w \in RoleWordsTable |->
  CASE t \in {"narrator", "narraraor"} /\ w # "system" -> 5
    [] t \in {"SYSTEM", "system"} /\ w = "system" -> 6
    [] t \in {"SERA", "Sera", "Sera Vane"} /\ w = "system" -> 1
    [] OTHER -> 0])])
EditsTable == Tabulated([t \in TagsTable |-> Tabulated([w \in RoleWordsTable |->
  CASE t = "narrator" -> IF w = "narrator" THEN 0 ELSE IF w = "narration" THEN 2 ELSE 6
    [] t = "narraraor" -> IF w = "narrator" THEN 2 ELSE IF w = "narration" THEN 3 ELSE 7
    [] t \in {"SYSTEM", "system"} -> IF w = "system" THEN 0 ELSE 6
    [] OTHER -> 5])])

(* Tags with words and without, prose without a tag, a blank line.         *)
LineShapes ==
  [tag : {"Kaelen", "SERA"}, sound : {TRUE}, text : {"words"}]
  \cup [tag : {"Kaelen"}, sound : {TRUE}, text : {"none"}]
  \cup [tag : {NoTag}, sound : {TRUE}, text : {"none", "words"}]

(* The system's voice, a role misspelt, a longer name, brackets that do    *)
(* not close, colons inside a tag, after it and before prose.              *)
OddShapes ==
  [tag : {"SYSTEM", "narraraor", "Kaelen Vord", "Kaelen:", "Kaelen::"}, sound : {TRUE},
   text : {"words"}]
  \cup [tag : {"Kaelen"}, sound : {FALSE}, text : {"words"}]
  \cup [tag : {"SERA"}, sound : {TRUE}, text : {"colon", "colons"}]
  \cup [tag : {NoTag}, sound : {TRUE}, text : {"colon"}]

Spoken(d) == [i \in DOMAIN d |->
  [tag |-> d[i].tag, sound |-> d[i].sound,
   text |-> CASE d[i].text = "none"   -> <<>>
              [] d[i].text = "words"  -> <<i>>
              [] d[i].text = "colon"  -> <<Colon, i>>
              [] d[i].text = "colons" -> <<Colon, Colon>>]]

(* Every draft of two lines; each odd line after a tag without words, and  *)
(* before another speaker; every longer draft of those that can tell a     *)
(* block that ended from one that goes on.                                 *)
DraftsTable ==
  LET line(t, x) == [tag |-> t, sound |-> TRUE, text |-> x]
  IN {Spoken(d) : d \in
       UNION {[1..k -> LineShapes] : k \in 1..2}
       \cup UNION {{<<line("Kaelen", "none"), o>>, <<o, line("SERA", "words")>>} :
                     o \in OddShapes}
       \cup {<<line("Kaelen", "words")>> \o d : d \in
               [1..(DraftLength - 1) ->
                  {line("Kaelen", "words"), line(NoTag, "words"), line(NoTag, "none")}]}}

UpTo(S, k) == UNION {[1..j -> S] : j \in 0..k}

Namesake == {"Kaelen Vord", "Kaelen Ash"}
Seras    == {"Sera", "Sera Vane"}

(* What is filed under one of the names may be in the way of the others.   *)
ExtractionsTable ==
  {[title |-> "own", summary |-> "told", lore |-> l, deltas |-> d] :
     l \in UpTo([name : {"Kaelen Vord"}, person : {TRUE}], 1),
     d \in UpTo([subject : Namesake, form : {"fact"}], Reports)}
  \cup
  {[title |-> "own", summary |-> "told", lore |-> l, deltas |-> d] :
     l \in UpTo([name : Seras, person : {TRUE}] \cup [name : {"Sera"}, person : {FALSE}], 1),
     d \in UpTo([subject : Seras \cup {"SERA", "SYSTEM"}, form : {"fact"}] \cup
                [subject : {"Sera"}, form : {"hollow", "badOp"}], Reports)}
  \cup [title : {"", "own"}, summary : {"", "told"}, lore : {<<>>}, deltas : {<<>>}]

(* A constant's value is computed once when it is a definition by itself,  *)
(* and at every use when the configuration names that definition.          *)
MCSpellings   == SpellingsTable
MCWordsOf     == WordsOfTable
MCPlace       == PlaceTable
MCTags        == TagsTable
MCNameOf      == NameOfTable
MCRoleWords   == RoleWordsTable
MCRoleOf      == RoleOfTable
MCSpells      == SpellsTable
MCWordCount   == WordCountTable
MCLengthOf    == LengthOfTable
MCSharedStart == SharedStartTable
MCEdits       == EditsTable
MCDrafts      == DraftsTable
MCExtractions == ExtractionsTable
=============================================================================
