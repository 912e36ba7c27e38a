SPECIFICATION Spec
CONSTANTS
  N = 2
  LostAfter = 2
  MaxPanics = 3
  Quarantined = TRUE
INVARIANTS TypeOK LossAgreed EndIsStated
PROPERTIES KeepsLossLog QuitReturns LossReachesUI
CHECK_DEADLOCK FALSE
