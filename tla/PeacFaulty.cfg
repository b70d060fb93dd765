SPECIFICATION Spec
CONSTANTS
  main = main
  a = a
  Mods <- MCMods
  Root = main
  Order <- MCOrder
  LinkOrder <- MCLinkOrder
  Copies <- MCCopies
  ValRefs = {}
  Files = {f, g}
  Modes = {"main","test"}
  EditsDuringBuild = FALSE
  Deletes = TRUE
  Crashes = TRUE
  MaxTime = 3
  MaxEdits = 3
INVARIANTS TypeOK ForcedFresh
