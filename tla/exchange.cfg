\* One client that says everything there is to say, in both ways.
SPECIFICATION Spec
CONSTANTS
  c1 = c1
  c2 = c2
  Clients = {c1}
  None = None
  Nodes = {}
  Ids <- MCIds
  MaxMantissa = 9999
  ScaleWidth = 5
  MaxU64 = 99
  MaxU32 = 20
  UnitSecs <- MCUnitSecs
  NsPerSec = 2
  Letters <- MCLetters
  MaxTokens = 200
  Days = {"day1", "day2"}
  Clocks = {"midnight", "noon"}
  Midnight = "midnight"
  MaxDepth = 4
  Seeds <- MCSeeds
  MaxScale = 3
  MaxDigits = 3
  Certain = 100
  Documents <- MCDocuments
  Bundles <- MCBundles
  Assertions <- MCAssertions
  Questions <- MCQuestions
  Entities <- MCEntities
  Searches <- MCSearches
  ParseText <- MCParse
  ParsePred <- MCParsePred
  NodeText <- canonical
  PredText <- canonical_predicate
  ShortTerm <- CompactTerm
  Verdict <- MCVerdict
  Bound <- Accepts
  Mentions <- MentionsOf
  Names <- MCNames
  ContentId <- MCContentId
  Lower <- MCLower
  DefaultHits = 1
  MaxHits = 2
  Declared = {"none", "canonical", "compact", ""}
  Retractable <- MCRetractable
  Verifying = {TRUE, FALSE}
  MaxRequests = 3
  Meaning <- MCMeaning
INVARIANTS
  TypeOK
  AssertedFactKnown
  ReadsBack
  MorphemesTold
PROPERTIES
  Understood
  BatchUnderstood
  SearchComplete
