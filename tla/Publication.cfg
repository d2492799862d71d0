\* Two voices, two faults, three operator commands.
SPECIFICATION FairSpec
CONSTANTS
  Cori = Cori
  Bella = Bella
  Voices <- MCVoices
  Length <- MCLength
  Starts <- MCStarts
  MaxFaults = 2
  MaxOrders = 3
INVARIANTS
  TypeOK
  AudioIsPublished
  QueuedRequestHonoured
PROPERTIES
  ChapterGetsAudio
