SPECIFICATION Spec
CONSTANTS
  main = main  lib = lib  h1 = h1  h2 = h2
  Null = Null
  Files <- Both
  Imports <- MainImportsLib
  Packaged <- Lib
  Texts <- TwoTexts
  Handlers <- TwoHandlers
INVARIANTS MemoFresh SettlesOnDocument
SYMMETRY Swaps
