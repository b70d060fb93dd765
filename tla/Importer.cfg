SPECIFICATION FairSpec
CONSTANTS
  Mods = {main, a, b}
  Root = main
  MaxImports = 2
INVARIANT AcceptsSound
PROPERTIES WorkShrinks Terminates
