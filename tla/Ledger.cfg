\* Deeds and refusals, numbers at the edge of i64 (four bits here), a character
\* under two names, and rewinds at any time.
SPECIFICATION Spec
CONSTANTS
  Subjects <- MCSubjects
  Protagonist = "Kaelen Vord"
  Characters <- OtherName
  Collision <- MCCollision
  MaySeed = TRUE
  MayPrompt = TRUE
  InventoryFields <- Items
  SlotFields <- Slots
  BadSlots <- WrongSlots
  BadTraits <- None
  StrangeFields <- Wrong
  Texts <- Helmet
  NoNum = NoNum
  NoTxt = "NULL"
  Proposals <- MCProposals
  IntMin <- Narrow
  IntMax = 7
  MaxChapter = 2
  MaxRows = 3
INVARIANTS
  TypeOK
  SheetsWithinBounds
  NoGhosts
  JudgedOnItsPast
  RewindRestores
PROPERTIES
  NeverRegress
