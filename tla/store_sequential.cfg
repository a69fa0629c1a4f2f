SPECIFICATION Spec
CONSTANTS
  a = a
  b = b
  c = c
  t1 = t1
  t2 = t2
  s1 = s1
  s2 = s2
  k1 = k1
  k2 = k2
  w1 = w1
  w2 = w2
  None = None
  Ids = {a, b, c}
  Keys = {k1, k2}
  Windows = {w1, w2}
  Nodes <- AllNodes
  Threads = {t1}
  Offers <- SeqOffers
  Batches <- SeqBatches
  Watches <- WatchTwo
  Subs = {s1, s2}
  Limits = {0, 1, 2, 3}
  Persistent = FALSE
  MaxCalls = 4
  MaxCrashes = 0
INVARIANTS TypeOK TruncationHonest LogReplaysStore SubscribersCurrent
