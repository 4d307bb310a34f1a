SPECIFICATION Spec
CONSTANTS
  Runtimes = {r1}
  Gpus <- SharedGpu
PROPERTY OwnGroupsOnly
