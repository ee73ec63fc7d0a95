SPECIFICATION Spec
CONSTANTS
  world_size = 4
  Setups <- MCSetups
INVARIANTS
  MimpiInv
  ReceivesInOrder
  NoLostWakeup
  BarrierHolds
  GroupResults
  Completes
  DetectsDeadlock
CHECK_DEADLOCK FALSE
