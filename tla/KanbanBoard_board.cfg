SPECIFICATION FairSpec
CONSTANTS
  main = main
  side = side
  c1 = c1
  Boards = {main, side}
  Cards = {c1}
  Home <- MCHome
  Follow = Follow
  Nowhere = Nowhere
  Offered = {side}
  First = main
  Begun <- MCBegun
  MaxAttempts = 3
  MaxHappens = 2
INVARIANTS
  GoneStaysGone
  DeletesAreMeant
  QuietMeansFresh
PROPERTIES
  BoardCatchesUp
