CONSTANTS
  ItemCount <- MCItemCount
  Miners <- MCMiners
  AllocResults = {"ok", "null"}
  VmFlagSets = {"large", "host", "default"}
  SpawnResults = {"ok"}
SPECIFICATION Spec
INVARIANT AllocFailureNotUsed
