\* Two chapters, one failed render, two operator commands, three builds.
SPECIFICATION Spec
CONSTANTS
  Characters = {"Kaelen", "Mira"}
  Voices <- MCVoices
  Backends <- MCBackends
  BackendOf <- MCBackendOf
  Genders <- MCGenders
  GenderOf <- MCGenderOf
  Advertised <- MCAdvertised
  ConfigNarrator = "sN"
  ConfigSystem = "sS"
  ConfigPool <- MCPool
  Sex <- MCSex
  Scripts <- MCScripts
  CastOrders <- MCCastOrders
  MaxChapters = 2
  MaxFaults = 1
  MaxOrders = 2
INVARIANTS
  TypeOK
  RenderableVoices
  DistinctUnlessCrowded
  AudioMatchesCast
