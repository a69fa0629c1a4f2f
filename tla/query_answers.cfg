SPECIFICATION Spec
CONSTANTS
  c1 = c1
  i1 = i1
  i2 = i2
  i3 = i3
  x = x
  y = y
  up = up
  down = down
  public = public
  internal = internal
  a = a
  b = b
  None = None
  Ids <- MCIds
  Nodes <- MCNodes
  Clients = {c1}
  Bound <- Accepts
  Mentions <- MentionsOf
  Batches <- MCBatches
  Openings <- MCOpenings
  Queries <- MCQueries
  ToolQueries <- MCToolQueries
  Now = 3
  Public = {public}
  MaxQueries = 1
  MaxErrors = 1
INVARIANTS CandidatesRegular AnswersArbitrate AnswersInstances
