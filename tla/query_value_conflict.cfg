SPECIFICATION Spec
CONSTANTS
  c1 = c1
  i1 = i1
  i2 = i2
  i3 = i3
  x = x
  y = y
  up = up
  down = down
  public = public
  internal = internal
  a = a
  b = b
  None = None
  Ids <- MCIds
  Nodes <- MCNodes
  Clients = {c1}
  Bound <- Accepts
  Mentions <- MentionsOf
  Batches <- MCBatches
  Openings <- MCOpenings
  Queries = {}
  ToolQueries <- ValueQueries
  Now = 3
  Public = {public}
  MaxQueries = 1
  MaxErrors = 0
INVARIANT MostAuthoritativeWins
