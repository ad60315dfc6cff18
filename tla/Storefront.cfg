SPECIFICATION Spec
CONSTANTS
  Readers = {r1}
  Writers = {w1}
  MaxChanges = 2
  MaxLosses = 1
  Payloads = {cart}
  MaxSubmissions = 2
INVARIANTS
  StaleOnlyByRace
  KeyPerRound
PROPERTIES
  CacheCatchesUp
  ButtonComesBack
CHECK_DEADLOCK FALSE
