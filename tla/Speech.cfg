\* Six chapters of up to five segments, two renders, one change on disk.
SPECIFICATION Spec
CONSTANTS
  Chapters <- MCChapters
  Models = {"cori", "kokoro"}
  Kokoro = {"kokoro"}
  Lexicons = {"us", "gb"}
  FirstLexicon = "us"
  Installations <- MCInstallations
  NoModel = "none"
  SentenceTarget = 6
  MaxChars = 7
  Concurrency = 2
  MaxAttempts = 2
  Workers = 2
  Lengths = {30, 64}
  MaxRenders = 2
  MaxChanges = 1
INVARIANTS
  TypeOK
  SaysEveryWord
  ShownIsPlayed
  AbortsOnlyWhenSnatched
CHECK_DEADLOCK FALSE
