------------------------------ MODULE MCStory -------------------------------
(* Two migrations, texts in which a keyword occurs within a word, next to  *)
(* itself and not at all, and lore with an empty keyword.                  *)
EXTENDS Story

MCMigrations == <<2, 1>>

Twice == <<"b", "a", "-", "a", "-", "a">>
Other == <<"a", "b", "-", "b">>

Entry(key, keywords, priority, always) ==
  [key |-> key, keywords |-> keywords, priority |-> priority, always |-> always]

MCLoreBook == {Entry(1, {<<"a", "-", "a">>, <<>>}, 2, FALSE)}
MCOwnLore  == {Entry(1, {<<"b">>}, 1, FALSE), Entry(3, {}, 2, TRUE)}
MCAlphabet == {"a", "b", "-"}
MCProse == {Twice, Other}

MCInitOptions == {[force |-> FALSE, title |-> NoArg, protagonist |-> NoArg],
                  [force |-> TRUE, title |-> NoArg, protagonist |-> "Kael"]}
MCStoryEdits  == {[title |-> "Kael", protagonist |-> "Kael"]}
=============================================================================
