-------------------------- MODULE StoreProperties --------------------------
(***************************************************************************)
(* What the store of module FactumStore should guarantee.                  *)
(***************************************************************************)
EXTENDS FactumStore

InsertLocals ==
  [op: {"none", "insert", "batch"}, load: SUBSET Nodes, todo: SUBSET Nodes,
   node: Nodes \cup {None}, keys: SUBSET Keys, deps: SUBSET Ids]
CascadeLocals ==
  [root: Ids \cup {None}, limit: Nat, id: Ids \cup {None}, node: Nodes \cup {None},
   retracted: Seq(Ids), truncated: BOOLEAN, depth: Nat]
Frames  == Seq([id: Ids, todo: SUBSET Ids])
Results == {"none", "Ok", "InvalidNode", "AlreadyExists", "NotFound", "Storage"}
Replies == [op: {"none", "insert", "retract"}, result: Results, root: Ids \cup {None},
            ids: SUBSET Ids, truncated: BOOLEAN, depth: Nat]

\* The step a thread is at finds the node or id it works on.
LocalsReady(t) ==
  /\ pc[t] \in {"log", "index", "deps", "validity", "notify"} => ins[t].node \in Nodes
  /\ pc[t] \in {"enter", "mark", "logRetract", "fan"} => cas[t].id \in Ids
  /\ pc[t] \in {"enter", "mark", "logRetract", "fan", "loop"} => cas[t].root \in Ids
  /\ pc[t] = "mark" => cas[t].node \in Nodes

\* Every variable has the type of the field or local it stands for, and a
\* thread inside insert or retract has the locals that its next step reads
\* (store.rs:34-60, 218-404).
TypeOK ==
  /\ nodes \in [Ids -> Stored \cup {None}]
  /\ index \subseteq Keys \X Ids
  /\ deps_rev \in [Ids -> SUBSET Ids]
  /\ by_validity \in [Windows -> SUBSET Ids]
  /\ wal \in Seq(WalEntry)
  /\ subs \subseteq Subs
  /\ events \in [Subs -> Seq(Event)]
  /\ view \in [Subs -> [Ids -> Status \cup {"Absent"}]]
  /\ pc \in [Threads -> Steps]
  /\ ins \in [Threads -> InsertLocals]
  /\ cas \in [Threads -> CascadeLocals]
  /\ stack \in [Threads -> Frames]
  /\ ret \in [Threads -> Replies]
  /\ asked \subseteq Ids /\ forgotten \subseteq Ids /\ spared \subseteq Ids
  /\ calls \in Nat /\ crashes \in Nat
  /\ \A t \in Threads : LocalsReady(t)

-----------------------------------------------------------------------------
(* Properties of every interleaving.                                       *)

\* retract_with_limit never retracts more nodes than max_nodes, and its
\* recursion is never deeper than the nodes it retracted: the count limit is
\* also the stack limit (store.rs:310-317, 349-352, 387-390).
CascadeBounded ==
  \A t \in Threads :
    /\ Len(cas[t].retracted) <= cas[t].limit
    /\ Len(stack[t]) <= Len(cas[t].retracted)

\* Nodes of t's call that t has written but not yet begun to register.
Unregistered(t) ==
  IF pc[t] \in {"put", "index"} THEN ins[t].load \ ins[t].todo
  ELSE IF pc[t] \in {"next", "deps", "validity", "notify"} \/ (pc[t] = "log" /\ ins[t].op = "batch")
  THEN ins[t].todo ELSE {}

KeyPending(t, n, k) == pc[t] = "index" /\ ins[t].node = n /\ k \in ins[t].keys
DepPending(t, n, d) ==
  n \in Unregistered(t) \/ (pc[t] = "deps" /\ ins[t].node = n /\ d \in ins[t].deps)
ValidityPending(t, n) ==
  n \in Unregistered(t) \/ (pc[t] \in {"deps", "validity"} /\ ins[t].node = n)

IndexedAs(n) ==
  /\ \A k \in n.keys : <<k, n.id>> \in index \/ \E t \in Threads : KeyPending(t, n, k)
  /\ n.id \in forgotten \/
       /\ \A d \in n.deps : n.id \in deps_rev[d] \/ \E t \in Threads : DepPending(t, n, d)
       /\ n.id \in by_validity[n.window] \/ \E t \in Threads : ValidityPending(t, n)

\* A stored node is missing from a secondary index only while the call that
\* inserts it still has that entry to make, also after a crash, since RocksDB
\* writes both at once. It is missing from deps_rev or by_validity only for the
\* same reason, or since a rebuild failed: rebuild_indices restores all of it
\* or, when iter_nodes fails, nothing (store.rs:148-185, 233-244).
IndexesComplete == \A i \in Ids : nodes[i] # None => IndexedAs(nodes[i].node)

Offered(t) == Offers[t] \cup UNION Batches[t]

\* No two clients insert nodes of the same id. One agent who writes is enough;
\* agents who assert the same fact, whose id is a hash of its text, are not of
\* this kind (NoDuplicateRace is weaker).
DisjointOffers ==
  \A t, u \in Threads : t # u =>
    \A n \in Offered(t), m \in Offered(u) : n.id # m.id

\* Nodes of t's call that have passed the check for duplicates and are still unwritten.
ToWrite(t) ==
  IF pc[t] \in {"put", "index"} \/ (pc[t] = "log" /\ ins[t].op = "insert")
  THEN ins[t].todo ELSE {}

\* No two calls are at the same time past that check with nodes of one id.
NoDuplicateRace ==
  \A t, u \in Threads : t # u =>
    \A n \in ToWrite(t), m \in ToWrite(u) : n.id # m.id

KB == INSTANCE KnowledgeBase WITH facts <- nodes

\* The store implements the knowledge base: no retracted node comes back, no
\* content is replaced, and a node is retracted only when asked for or when it
\* is Derived from a retracted one (store.rs:298-302, 363, 385).
ImplementsKnowledgeBase == KB!KBSpec

\* Two clients that both got Ok inserted different ids
\* (store.rs:216 "Fails if a node with the same ID already exists").
DuplicateRejected ==
  \A t, u \in Threads :
    /\ t # u
    /\ ret[t].op = "insert" /\ ret[t].result = "Ok"
    /\ ret[u].op = "insert" /\ ret[u].result = "Ok"
    => ret[t].ids \cap ret[u].ids = {}

\* The status of i according to the log: its last entry about i.
Replayed(i) ==
  LET about == {k \in 1..Len(wal) : wal[k].id = i} IN
  IF about = {} THEN "Absent"
  ELSE LET last == CHOOSE k \in about : \A j \in about : j <= k IN
       IF wal[last].type = "Insert" THEN "Active" ELSE "Retracted"

StatusOf(i) == IF nodes[i] = None THEN "Absent" ELSE nodes[i].status

\* When no call is in flight, replaying the log gives the store
\* (store.rs:498 "Get WAL entries for replay", subscription.rs:7).
LogReplaysStore == AllIdle => \A i \in Ids : Replayed(i) = StatusOf(i)

-----------------------------------------------------------------------------
(* Properties of a retraction.                                             *)

\* t's cascade is over and about to be reported.
Reporting(t) == pc[t] = "loop" /\ stack[t] = <<>>

Orphan(i) == Follows(i) /\ \E d \in nodes[i].node.deps : StatusOf(d) = "Retracted"

\* Active Derived nodes on a node that t's cascade retracted.
LeftBehind(t) ==
  {i \in Ids : Follows(i) /\ nodes[i].node.deps \cap RangeOf(cas[t].retracted) # {}}

\* With one client: `truncated` is reported only when the cascade left an active
\* Derived node on a node it retracted, or could retract none, and always then --
\* unless all it left are nodes a failed rebuild forgot, of which the cascade
\* does not know (store.rs:149-152, 310-317, 349-352, 381-401).
TruncationHonest ==
  \A t \in Threads : Reporting(t) =>
    /\ cas[t].truncated => cas[t].limit = 0 \/ LeftBehind(t) # {}
    /\ cas[t].limit = 0 \/ LeftBehind(t) \ forgotten # {} => cas[t].truncated

\* A retraction that reports no truncation leaves no active Derived node on
\* its root (store.rs:301 "All downstream Derived nodes are cascade-retracted").
DerivedFollowRoot ==
  \A t \in Threads : Reporting(t) /\ ~cas[t].truncated =>
    \A i \in Ids : Follows(i) => cas[t].root \notin nodes[i].node.deps

\* With one client: a subscriber that has polled every event knows the status
\* of every node it watches, except that the root of a retraction with limit 0
\* passes for retracted: its event names it though nothing was retracted
\* (subscription.rs:122-140, store.rs:249, 325, 349-352).
SubscribersCurrent ==
  AllIdle => \A s \in subs : events[s] = <<>> =>
    \A i \in Ids : nodes[i] # None /\ nodes[i].node \in Watches[s] =>
      \/ view[s][i] = StatusOf(i)
      \/ i \in spared /\ view[s][i] = "Retracted"

\* The same without the exception (subscription.rs:35 "A node was retracted
\* (directly or via cascade)").
ToldOnlyOfRetractions ==
  AllIdle => \A s \in subs : events[s] = <<>> =>
    \A i \in Ids : view[s][i] = "Retracted" => StatusOf(i) = "Retracted"

\* Every call returns, also a cascade over cyclic deps (store.rs:362).
CallsReturn == \A t \in Threads : pc[t] # "idle" ~> pc[t] = "idle"
=============================================================================
