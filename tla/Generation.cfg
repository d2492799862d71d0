\* Two chapters, drafts of up to three lines, one lore entry and one delta each.
SPECIFICATION Spec
CONSTANTS
  Spellings <- MCSpellings
  Nobody = "Nobody"
  WordsOf <- MCWordsOf
  Place <- MCPlace
  Protagonist = "Kaelen Vord Dun"
  Tags <- MCTags
  NoTag = "NoTag"
  NameOf <- MCNameOf
  RoleWords <- MCRoleWords
  RoleOf <- MCRoleOf
  Spells <- MCSpells
  WordCount <- MCWordCount
  LengthOf <- MCLengthOf
  SharedStart <- MCSharedStart
  Edits <- MCEdits
  Narrator = "narrator"
  SystemVoice = "SYSTEM"
  Drafts <- MCDrafts
  Extractions <- MCExtractions
  DraftLength = 3
  Reports = 1
  MaxChapters = 2
INVARIANTS
  TypeOK
  TurnsAsWritten
  OneKeyForTheProtagonist
  WholeAndRemembered
  OfferedNamesAreKnown
CHECK_DEADLOCK FALSE
