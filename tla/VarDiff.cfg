\* One connection; bursts, steady shares and long silences.
CONSTANTS
  Options <- MCOptions
  Gaps = {0, 1, 3, 7}
  Second = 4
  MaxShares = 7
SPECIFICATION Spec
CHECK_DEADLOCK FALSE
INVARIANTS TypeOK WindowIsLatest X2Bounded
PROPERTY RetargetsApart
