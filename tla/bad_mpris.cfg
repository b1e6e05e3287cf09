CONSTANTS
  Names = {n1}
  Players = {p1, p2}
  NoPlayer = NoPlayer
  MaxSignals = 2
SPECIFICATION MprisSpec
SYMMETRY BusSymmetry
INVARIANTS
  PlayingInhibits
