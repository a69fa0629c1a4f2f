SPECIFICATION HandlerSpec
CONSTANTS
  v = v
  w = w
  d = d
  x = x
  t1 = t1
  t2 = t2
  e = e
  p = p
  q = q
  alice = alice
  bob = bob
  always = always
  None = None
  Ids = {v, w, d, x}
  Keys = {e, p, q, alice, bob}
  Principals = {alice, bob}
  Windows = {always}
  Nodes <- AllNodes
  Wants <- TheFact
  OutOfBand <- Unlikely
  Subs = {}
  Watches <- NoWatches
  MaxCrashes = 0
  MaxCalls = 20
  Threads = {t1, t2}
  Offers <- BothAll
  Inserts <- BothNothing
  Batches <- BothNothing
  Upserts <- BothNothing
  Asserts <- BothAsserts
  Repeats <- Nowhere
  Reviewers = {t2}
  MaxNodes = {3}
  Limits = {3}
  DefaultLimit = 3
  MaxRequests = 3
  Persistent = FALSE
INVARIANT RejectRetracts
