SPECIFICATION Spec
CONSTANTS
  Keys = {a, b, c}
  Threads = {t1, t2}
  Boot = boot
  Monitors = {}
  Generations <- SmallGenerations
  Policies <- PanickingPolicies
  MaxPreloads = 1
  NoKey = NoKey
  NoSlot = NoSlot
  NoInst = NoInst
SYMMETRY Symmetry
PROPERTY RefusedOnlyWhenTaken
