\* Three chapters, the first of which no backend can render; one fault (it may
\* be an outage that never ends), one operator command, two retries.
SPECIFICATION FairSpec
CONSTANTS
  Kaelen = Kaelen
  Mira = Mira
  MaxChapters = 3
  MaxFaults = 1
  MaxOrders = 1
  Notes = {n1}
  Subjects <- MCSubjects
  Protagonist = Kaelen
  Casts <- MCCasts
  Extractions <- Encounters
  NoExtraction = NoExtraction
  Targets <- MCTargets
  NoTarget = NoTarget
  ConfigTarget = 2
  CursorMode = "Stored"
  CursorAt = 0
  MaxResumeAttempts = 2
  Poison <- First
PROPERTIES
  EveryChapterTried
  SerialKeepsMoving
  NotesReachTheStory
