SPECIFICATION Spec
CONSTANTS
  Keys = {a, b, c}
  Threads = {t1, t2}
  Boot = boot
  Monitors = {}
  Generations <- SmallGenerations
  Policies <- SoundPolicies
  MaxPreloads = 1
  NoKey = NoKey
  NoSlot = NoSlot
  NoInst = NoInst
SYMMETRY Symmetry
INVARIANTS
  TypeOK
  ActiveInstanceStaysShared
  OneInstancePerKey
  ResidentBounded
PROPERTY RefusedOnlyWhenTaken
