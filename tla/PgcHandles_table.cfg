\* Two objects with any number of handles; the table doubles twice.
SPECIFICATION HandlesSpec
CONSTANTS
  o1 = o1  o2 = o2  a1 = a1  a2 = a2  a3 = a3  null = null  none = none
  NoAddress <- null  NoObject <- none
  Objects <- SomeObjects
  Addresses <- SomeAddresses
  InitialCapacity = 2  MaxCapacity = 8
SYMMETRY Swaps
INVARIANTS HandlesResolve FreeListIsChain NoSlotLost
