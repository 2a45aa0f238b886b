SPECIFICATION Spec
CONSTANTS
  main = main  lib = lib  util = util  arm = arm  intel = intel  debug = debug  release = release
  Gone = Gone  Null = Null
  Files <- All
  Main = main
  Texts <- Contents
  Written <- MayWrite
  Imports <- ImportsIn
  Breaks <- ApiBreak
  Targets <- Both
  Plans <- OneOrBoth
  Modes = {debug, release}
  MaxBuilds = 3  MaxEdits = 2
INVARIANTS OneIdentity BaselineExplained LinksSources BreakageSurfaces
SYMMETRY Identities
CHECK_DEADLOCK FALSE
