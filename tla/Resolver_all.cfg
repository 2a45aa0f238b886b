SPECIFICATION FairSpec
CONSTANTS
  a = a  b = b  c = c  l = l  g = g
  Local = Local  Invalid = Invalid  Garbled = Garbled
  Packages <- Names
  NameRank <- Order
  Versions <- TwoVersions
  Tables <- AllTables
  Published <- PublishedTables
  LocalTable <- LocalTables
  GatedPackages <- Gated1
  Registries <- AllRegistries
  MaxEvents = 1
INVARIANTS AnswerClosed AnswerBest FewPasses
PROPERTIES NeverRises ResolutionEnds
CHECK_DEADLOCK FALSE
