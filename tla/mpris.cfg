CONSTANTS
  Names = {n1, n2}
  Players = {p1, p2, p3}
  NoPlayer = NoPlayer
  MaxSignals = 3
SPECIFICATION MprisSpec
SYMMETRY BusSymmetry
INVARIANTS
  MprisTypeOK
  PlayingConverges
  InhibitWithdrawn
