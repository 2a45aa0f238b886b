SPECIFICATION Spec
CONSTANTS
  j1 = j1  j2 = j2  a = a  g = g  l = l
  Local = Local  Gated = Gated  Torn = Torn  NoLock = NoLock
  Projects <- TwoProjects
  Packages <- Names
  Versions <- TwoVersions
  Tables <- Manifests
  TablesOf <- ManifestsOf
  LocalTable <- Locals
  Deps <- Published
  GatedPackages <- Gateds
  Rank <- Alphabet
  MaxCrashes = 1
INVARIANTS LockSettles LockedIsThere IncompleteExplained
PROPERTIES Reproducible
CHECK_DEADLOCK FALSE
