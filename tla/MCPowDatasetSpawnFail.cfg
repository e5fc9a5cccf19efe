CONSTANTS
  ItemCount <- MCItemCount
  Miners <- MCMiners
  AllocResults = {"ok"}
  VmFlagSets = {"large", "host", "default"}
  SpawnResults = {"ok", "fail"}
SPECIFICATION Spec
INVARIANT BuiltComplete
