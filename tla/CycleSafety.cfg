\* Two chapters, two notes, two faults and one operator command.
SPECIFICATION Spec
CONSTANTS
  Kaelen = Kaelen
  Mira = Mira
  MaxChapters = 2
  MaxFaults = 2
  MaxOrders = 1
  Notes = {n1, n2}
  Subjects <- MCSubjects
  Protagonist = Kaelen
  Casts <- MCCasts
  Extractions <- MCExtractions
  NoExtraction = NoExtraction
  Targets <- MCTargets
  NoTarget = NoTarget
  ConfigTarget = 2
  CursorMode = "Stored"
  CursorAt = 0
  MaxResumeAttempts = 1
  Poison <- None
INVARIANTS
  TypeOK
  PromptCarriedItsNotes
  NoteToldOnce
  CleanChaptersComplete
PROPERTIES
  SerialPromise
