SPECIFICATION Spec
CONSTANTS
  MaxU64 = 4
  Slabs = {btc, eth}
  Depositors = {alice, bob}
  Amounts = {1, 2}
  LpMoves = {1}
SYMMETRY Symmetry
INVARIANTS
  EachPoolCovered
  SharesStayApart

  
