\* A note posted while a chapter is being written.
SPECIFICATION Spec
CONSTANTS
  Kaelen = Kaelen
  Mira = Mira
  MaxChapters = 2
  MaxFaults = 0
  MaxOrders = 0
  Notes = {n1}
  Subjects <- MCSubjects
  Protagonist = Kaelen
  Casts <- MCCasts
  Extractions <- FewExtractions
  NoExtraction = NoExtraction
  Targets <- MCTargets
  NoTarget = NoTarget
  ConfigTarget = 2
  CursorMode = "Stored"
  CursorAt = 0
  MaxResumeAttempts = 1
  Poison <- None
INVARIANTS
  NotesHonoured
