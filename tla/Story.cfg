\* Three chapters, three orders of the operator or the listener, one fault.
SPECIFICATION Spec
CONSTANTS
  Processes = {"engine", "daemon", "cli"}
  MIGRATIONS <- MCMigrations
  Premises = {"p1"}
  Starter = "starter"
  Blank = "blank"
  NoText = "none"
  Names = {"Kael"}
  NoName = ""
  InitOptions <- MCInitOptions
  StoryEdits <- MCStoryEdits
  Prose <- MCProse
  AlphaNum = {"a", "b"}
  Alphabet <- MCAlphabet
  LoreBook <- MCLoreBook
  OwnLore <- MCOwnLore
  SUMMARY_WINDOW = 2
  ConfigTarget = 2
  MIN_BUFFER_TARGET = 1
  MAX_BUFFER_TARGET = 3
  MAX_BUMP = 1
  NoTarget = NoTarget
  NoRow = NoRow
  NoArg = NoArg
  MaxChapters = 3
  MaxOrders = 3
  MaxFaults = 1
INVARIANTS
  TypeOK
  OpenedIsMigrated
  EditPendingUntilUsed
  PromptRemembers
  BufferBounded
CHECK_DEADLOCK FALSE
