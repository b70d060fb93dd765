SPECIFICATION FairSpec
CONSTANTS
  main = main
  a = a
  Mods <- MCMods
  Root = main
  Order <- MCOrder
  LinkOrder <- MCLinkOrder
  Copies <- MCCopies
  ValRefs = {}
  Files = {f}
  Modes = {"main","test"}
  EditsDuringBuild = FALSE
  Deletes = FALSE
  Crashes = FALSE
  MaxTime = 4
  MaxEdits = 3
INVARIANTS OwnFresh BinMatchesObjs
PROPERTIES NoNeedlessBuild Terminates
