# Factum in TLA+

TLA+ specifications of [Factum](../src/README.md), a knowledge store for agents:
typed facts with provenance and dependencies, soft retraction that cascades along
derivations, a review queue for what the system refuses to decide, and an MCP
server on top. This directory models the store, the review queue, the server and its text
formats, queries with their arbitration, and the Factum-L codecs; checks them with TLC on
small instances, and proves the main results with TLAPS for instances of any size.

`tlc -config X.cfg MCStore.tla` checks one configuration, `tlapm StoreProofs.tla` a
proof module. `PROJECT.json` lists components, runs, mutants, findings, hazards and the
source lines every definition models.

## 1. Inventory

| Component | State | Operations | Talks to | What is hard |
|---|---|---|---|---|
| **Store** `factum-rt/src/store.rs` | storage backend, `deps_rev`, `by_validity`, `wal`, verifiers | `insert`, `insert_batch`, `retract(_with_limit)`, look-ups, `rebuild_indices` | backend, subscriptions, verifiers | no lock spans a call: check-then-write, index after write, cascade over copies; node limit; restart |
| **Storage backends** `storage.rs`, `rocksdb_backend.rs` | nodes, four secondary indexes | get, put, scan, `batch_write`, `iter_nodes` | – | in memory a batch is a sequence of visible writes, on RocksDB one `WriteBatch`; I/O errors |
| **Subscriptions** `subscription.rs` | a queue per subscriber | `subscribe`, `notify_*`, `poll`, `unsubscribe` | called by the store after its writes | events of two calls in either order |
| **Review queue** `review.rs` | a deque of events, an id counter | `enqueue`, `approve`, `reject`, `auto_resolve`, listings | called by the handler | id taken before the lock; insertion position depends on statuses |
| **MCP handler** `factum-mcp/src/handler.rs` | `preferred_form`, shared store and queue | one tool per request: query, insert, retract, lookup, insert_batch, upsert, assert, search, review | store, review queue | a tool is several store calls with nothing held in between; HTTP clients are concurrent |
| **Transports** `bin/http.rs`, `bin/stdio.rs` | – | read a request, call the handler, write the answer | handler | HTTP runs handlers on many threads, stdio one after another |
| **Arbitration** `arbitration.rs` | – | LatestWins, HighestAuthority, Unanimous, WeightedVote, Custom | query | ties, tolerances, exact halves, grouping by canonical predicate, hash map order |
| **Query**, **Permission** `query.rs`, `permission.rs` | – | look up, resolve, filter by permission, time and confidence, match, arbitrate | store | a scan and then one read per node, others write in between; order of the filters; read errors taken for absence |
| **Verifiers** `verifier.rs` | registry | verify a node; the first failure wins | store | arity counts named arguments; digits and scale apart |
| **Calibration** `factum-core/src/calibration.rs` | – | bands and defaults of confidence, derived confidence | handler | boundaries, an assertion just outside its band |
| **Lexer, parser, serializer** `factum-core/src` | token stream, depth counter | documents, batches and predicates from text; canonical and compact text | handler | escapes, names `@` cannot spell, decimals and durations at their width, depth limit across three kinds of nesting, what reads back |
| **Types, morphemes** `types.rs`, `morphemes.rs` | a registry filled once | ids, decimals, times, look-up by name and id | all | the table a client was given and the numbers it is sent |
| **Factum-L** `factum-l/src` | – | two encoders and decoders between nodes and vectors, semantic equivalence, benchmark gates | – | four digits in one float, texts that do not fit, several hops, what a score means |
| **Bench, demo, fuzz, conformance** | – | measure, demonstrate, generate input | all | – |

What makes each correct:

* Store: an id is inserted once and its content never changes; a node goes from Active to
  Retracted only, and only because somebody asked or because it is Derived from a
  retracted one; secondary indexes contain every stored node; a cascade respects its
  limit and says so when it stops short; the log replays to the store; calls return.
* Subscriptions: a subscriber that has polled everything knows the status of what it watches.
* Review queue: ids are unique, an event is decided once, the listing order is the documented one.
* Handler: a tool does to store and queue what its answer says; what the system refuses to
  decide is enqueued; every request is answered.
* Query: what it considers lies between what was believed all along and what was believed at some
  moment of it; hidden, expired or unsure nodes have no influence; a repeated variable means one thing.
* Arbitration: each policy answers as documented, whatever order the candidates come in.
* Text: what a client wrote is what is stored, in any layout, or it is refused for a reason; what
  the server hands out reads back; a compact id is sent to nobody who was not given the table; a
  search that stops early says so.
* Factum-L: a score of 1 means the same statement and the same metadata; a decoder invents nothing;
  relaying stops losing things; the benchmark counts what it was given.

## 2. Plan

Done:

1. `FactumStore`, the abstract `KnowledgeBase`, and the proofs of all their invariants and of
   the refinement (section 3).
2. `ReviewQueue` and its proofs (section 4).
3. `McpHandler`, which composes store and queue, and its proofs, those of what single tools
   promise included (section 5).
4. `Arbitration`, `TermMatching` and `QueryEngine` with permissions, over a store that others
   write, and the proofs about candidates and answers (section 6).
5. `Literals`, `Lexer`, `Parser`, `Serializer`, `Calibration`, `Verifiers` and `Exchange`: every
   tool of the server from text to text, over `KnowledgeBase`, and the proofs of what the server does
   around its grammar, for any grammar (section 7).
6. `SemEquiv`, `Packing`, `PackedCodec`, `BaselineCodec` and `FactumL`, and the proofs of what either
   codec carries through any number of hops and of the benchmark's figures (section 8).

Next, in this order:

7. Algebra of `Calibration` (a derived confidence exceeds none of its premises).
8. Subscriptions with subscribe, unsubscribe and the pattern of `matches`, in the store's runs;
   undecodable records and scans of the RocksDB backend.

## 3. The store

### Modules

| Module | Role |
|---|---|
| `KnowledgeBase` | the abstract specification: facts are learned once, keep their content, are withdrawn only with a justification |
| `FactumStore` | the store, its backend and the subscribers' queues; one action per critical section |
| `StoreProperties` | type invariant, invariants, refinement and liveness of the store |
| `MCStore` | the instances for TLC |
| `StoreProofs`, `ObserverProofs` | the theorems |

### How state and actions correspond to the code

`store.rs` holds no lock across the steps of a call. Each `RwLock`, `Mutex` or backend
call is taken and released inside one statement, so another thread can run between any
two of them. An action of `FactumStore` is one such section together with the local
computation up to the next one. `pc[t]` is the statement thread `t` is at; `ins[t]` and
`cas[t]` are the locals of `insert`/`insert_batch` and of `retract_with_limit`; `stack[t]`
holds the activations of `retract_recursive` with the dependents each still has to visit.

| Variable | Code |
|---|---|
| `nodes`, `index` | `StorageBackend` (nodes; the four index column families) |
| `deps_rev`, `by_validity`, `wal` | the fields of `FactumStore` |
| `subs`, `events` | `SubscriptionManager`, the queue in each `Subscription` |
| `view` | what a subscriber concludes from the events it polled, applied in order |
| `ret` | the `Result` of a thread's last call |
| `asked` | history: the roots clients asked to retract |
| `forgotten` | history: the nodes a failed rebuild left out of `deps_rev` and `by_validity` |
| `spared` | history: the nodes reported as the root of a retraction with limit 0 |

`insert` is `CallInsert`, `RejectInvalid`/`RejectDuplicate`/`Admit` (verifiers and
`get_node`), `LogInsert`, the backend write, `RegisterDep` per dependency,
`RegisterValidity`, `NotifyInsert`, `InsertDone`. `insert_batch` takes the same steps
with the log entry after the write. The write is `PutNode` and a `PutIndex` per index entry
in memory and the single `WriteBatch` on RocksDB. `retract_recursive` is `EnterAtLimit`/`EnterMissing`/
`EnterRetracted`/`EnterActive`, `MarkRetracted` (the write of the *copy read earlier*),
`LogRetract`, `FanOut` (the copy of the dependents), then per dependent `SkipDependent`, `Truncate`
or `Recurse`, and `ReturnFromFrame`; `NotifyRetract` ends the call with the event
`Retracted(root, cascade)`, which names the root even when the limit was 0 and nothing was retracted. `StorageFails`
is any backend call returning an error on RocksDB. `Crash` is the process dying and `with_backend` running again:
`nodes` and `index` survive, everything else is gone, and `deps_rev` and `by_validity` are either rebuilt (`Rebuild`) or, when
`iter_nodes` fails, left empty without a word (`RebuildFails`, `store.rs:149-152`).

Abstractions. A node is a record of what the calls test: id, deps, whether its provenance is
Derived, the index keys `build_insert_ops` makes of it, its window, the verdict of the verifiers. A
`Vec` whose order no property depends on is a set visited in any order (dependents,
index entries, nodes of a batch), which includes the code's order. Subscribers are registered before the run;
`Watches[s]` is what `Subscription::matches` accepts. Look-ups change nothing and are not
actions of this module.

### Runs

| Run | Instance | Shows |
|---|---|---|
| `store_sequential` | one client, 4 calls, limits 0–3, two subscribers, cycles, batches, invalid nodes | `TypeOK`, `TruncationHonest`, `LogReplaysStore`, `SubscribersCurrent` |
| `store_concurrent` | two clients with different ids, 4 calls, limits 1 and 3 | `CascadeBounded`, `IndexesComplete`, `LogReplaysStore`, `ImplementsKnowledgeBase` |
| `store_rocksdb` | two clients, batches, storage errors, one crash with a rebuild that succeeds or fails | `IndexesComplete`, `ImplementsKnowledgeBase` |
| `store_cascade_race` | an insert of a Derived node and a retraction of its premise | violation: the node stays active, no truncation is reported |

Bounds. Three ids are the smallest set with a chain, a fan-out, a node with two premises and a
cycle; limits 0 to 3 cover none, the root only, the exact size of a cascade and more. Four calls
are two inserts, a truncated retraction and its repetition. Two threads suffice for every
race between two calls. `MaxCalls` and `MaxCrashes` guard only the start of calls and
`Crash`; nothing inside a call is bounded. `Finished` is a stutter that tells TLC the bounded run is over, so deadlock is
checked in all runs.

What the properties leave open. `IndexesComplete` excepts from `deps_rev` and `by_validity` the nodes a failed rebuild forgot,
`TruncationHonest` the dependents among them; `SubscribersCurrent` excepts the root of a retraction with limit 0, which passes
for retracted with its subscribers. The exceptions are what the code does; that it disagrees with
its comments there is shown in section 9 (`store_failed_rebuild.cfg`, `ToldOnlyOfRetractions`).

Why some properties are checked with one client only. `TruncationHonest` and
`SubscribersCurrent` do not hold under concurrency: another thread may register a dependent
or push its event between the two steps the property relates. Neither is promised by the
code for concurrent callers. What is promised and fails is a violation run or a row of section 9.
`ImplementsKnowledgeBase` is checked for clients that insert different ids (`DisjointOffers`), and proved for all that never
have two inserts of one id between the duplicate test and the write at the same time (`NoDuplicateRace`). One agent who
writes, or agents with ids of their own, are of the first kind. Agents that assert the same fact are not: its id is a hash of
its text, so they share it, and nothing but timing keeps them apart; section 9 shows what happens when timing does not.

Liveness is checked behind the handler (`handler_liveness`, section 5), where `CallsReturn` covers
every store call.

### Proofs

* `StoreProofs!TypeCorrect`: `Spec => []TypeOK`. The type invariant includes `LocalsReady`: the
  node or id that the next step of a call reads is there. `TypeOK` is inductive.
* `StoreProofs!CascadesBounded`: `Spec => []CascadeBounded`. By itself `CascadeBounded` is not
  inductive: that a node may still be appended depends on the limit test made at the
  entry of the activation. `BoundInv` adds, for each thread, that between `enter`
  and `logRetract` fewer than `limit` nodes are retracted, and that frames and
  retracted nodes grow together.
* `StoreProofs!IndexesAlwaysComplete`: `Spec => []IndexesComplete`, across crashes and rebuilds that succeed, and save for
  what a rebuild that failed forgot. `IndexInv` adds that a
  node is stored under its own id, that a thread registering a node is registering the one
  it stored, and that the copy a retraction writes back is that of an indexed node.
* `StoreProofs!RacelessImplementsKnowledgeBase`: `Spec /\ []NoDuplicateRace => ImplementsKnowledgeBase`, whatever ids the clients
  share. The invariant `RefInv` says that `deps_rev` lists only nodes that do depend (`DepsSound`), that
  a node whose insertion passed the duplicate test is still absent when it is written
  (`FreshInv`, which needs that no other insertion of its id passed it meanwhile), and that whatever a cascade is about to mark was asked
  for or is Derived from a retracted node (`CascadeInv`). The last step maps
  each step to `Ask`, `Learn`, `Withdraw` or a stutter. `StoreImplementsKnowledgeBase` is its corollary for
  `DisjointOffers`, which excludes the race altogether.

`ObserverProofs` is about what the store tells those who watch it. Its theorems take as hypotheses
what the runs take, and each has a reason in the code. `OneClient` says that there is at most one thread.

* `LogAlwaysReplays`: `ASSUME LogOrdered PROVE Spec => []LogReplaysStore`. `LogOrdered` is the in-memory
  backend, `DisjointOffers`, and a single client if anybody calls `insert_batch`. `insert` logs
  before it writes, so a retraction cannot find the node before its entry is there;
  `insert_batch` logs last, and a concurrent retraction's entry can precede the one it undoes (section 9). On RocksDB the
  store outlives the log. `LogInv` says of every id that the log agrees with the store, or which
  thread owes the entry or the write that makes it agree; `LoadInv` says which nodes a call has
  done and which it has still to do.
* `TruncationAlwaysHonest`: `ASSUME OneClient PROVE Spec => []TruncationHonest`, on both backends, through storage
  failures, crashes and rebuilds, the dependents that a failed rebuild forgot excepted. `HonestInv` says that, until the cascade is cut,
  every other active Derived dependent of a node it retracted is one the cascade still comes to (about to be entered, or in the list of an activation on the
  stack), and that once it is cut such a dependent is left behind or the limit was 0.
  A second client can insert a dependent behind the cascade's back, so the hypothesis is needed.
* `SubscribersAlwaysCurrent`: `ASSUME OneClient, ~Persistent PROVE Spec => []SubscribersCurrent`. `TellInv` says that replaying the
  unpolled events over `view` gives the status of the node, or Retracted for a node in `spared`, or whose call is about to push the
  event that does. On
  RocksDB a failure in the middle of a cascade returns before `notify_retract`: nodes it had marked
  are retracted and nobody is told.
* `RetractionsAlwaysReach`: `ASSUME DisjointOffers, IsFiniteSet(Ids)`: whatever the interleaving, backend, failures
  and crashes, a cascade that is about to be reported has retracted its root unless its limit was 0, and reports a truncation only if the limit
  was 0 or below the number of ids. `RootInv` follows the root; `CountInv` says that a cascade counts a node
  once, which bounds what it counts by the number of ids. The handler's theorems rest on it.

The assumptions are those on the constants (`NodesAssumption`, `ClientsAssumption`,
`BoundsAssumption`, `NoneAssumption`), evaluated by TLC in every run. Model-checked only: liveness
(fairness and ENABLED are beyond the prover).

## 4. The review queue

`ReviewQueue` models `review.rs`. `deque` is the `VecDeque` behind the lock, resolved
events included, `next_id` the atomic counter; `held[t]` is the event a caller inside
`enqueue` has built with its id and not pushed yet, `decisions` a history of successful
`approve` and `reject` calls. `enqueue` is `TakeId` (the `fetch_add`) and `PushEvent` (the
insertion under the lock, at the position `Slots` computes). `Approve`, `Reject`
and `AutoResolve` are single critical sections; a call that returns an error changes
nothing and is no action. `list_pending`, `list_all` and `get` only read. Event text, timestamps and notes are
left out.

| Run | Instance | Shows |
|---|---|---|
| `review_queue` | two callers, three events of both priorities, every order of decisions | `AuditComplete`, `DecidedOnce`, `HighFirst` |

Three events are the smallest number for which an event is inserted between two
others, or behind a resolved one. `HighFirst` holds of a queue in which nothing was decided; the comment at
`review.rs:179` says more, and `NormalAfterPending`, which states it, fails (section 9): a Normal event
gets in front of a pending High one once something was approved
(`list_pending` sorts what it returns).

`ReviewProofs` proves `Spec => []AuditComplete`, `Spec => []DecidedOnce` and `Spec => []HighFirst` (`QueueInOrder`) for any number of callers and events.
`HighFirst` is inductive together with `ReviewInv`: the slot found for a High event has only High ones before it, the slot of a Normal one is the end.
`AuditComplete` is not inductive as it stands: `ReviewInv` adds the types, that
ids in the queue and in callers' hands are below the counter (`IdsGiven`), and splits the single place of an
id into existence (`NoneLost`) and uniqueness (`IdsUnique`). `DecidedOnce` needs `DecidedSettled`: what was decided
is in the queue and no longer pending. Lemma `Insertion` says what `InsertAt` does to a sequence.

## 5. The handler

`McpHandler` extends `FactumStore` and instantiates `ReviewQueue` on its own queue variables.
`HandlerProperties` states its properties, `MCHandler` its instances, `HandlerProofs` its theorems.

A thread is one client's request: on HTTP each request has a thread and all share
store and queue; with one thread the model is the stdio server. `req[t]` holds the tool and its locals,
`req[t].stage` where the handler is between two calls: `store` while a store call runs (its steps are those of
`FactumStore`), `push` between the id and the insertion of `enqueue`, `scan` and `read` in the look-up of an upsert, `compare` after
`AlreadyExists` in an assertion, `replace` while an upsert retracts the old node, `reject` between the retractions of a
rejection and `condemn` during one. `req[t].errors` are the nodes a rejection could not retract so far. `answer[t]` is the
outcome of the last tool.

| Tool | Actions |
|---|---|
| `factum_insert`, `_insert_batch` | `ToolInsert`, `ToolInsertBatch`, store steps, `InsertAnswered` |
| `factum_retract` | `ToolRetract`, store steps, `RetractAnswered`, or `RetractTruncated` and `PushThenAnswer` |
| `factum_upsert` | `ToolUpsert`, `UpsertScan`, `UpsertRead` per node, then `UpsertInsert` … `UpsertInserted`, or `UpsertReplace` … `UpsertReplaced`, or `UpsertAmbiguous` and `PushThenAnswer` |
| `factum_assert` | `ToolAssert` (with the event of an out-of-band confidence, then `PushThenInsert`), `AssertAnswered`, or `AssertExists` and `AssertCompare` |
| `factum_review` | `ToolApprove`; `ToolReject`, `RejectNext` and `RejectReturned` per node, `RejectAnswered` |

Abstractions. What an upsert looks for is an entity with further keys, the predicate
head and the permission key among them; the principal of a node is the key
under which `by_src` lists it. A confidence is in or out of its band (`OutOfBand`). A node that mentions an
entity twice (`Repeats`) matters because the in-memory index lists it twice. A refused `approve` or `reject` is
no action. The tools that only read, and the texts that go in and out, are the subject of section 7.

| Run | Instance | Shows |
|---|---|---|
| `handler_one_client` | one client, five requests of every tool but batches | `RetractionQueued`, `UpdatedHolds` |
| `handler_two_clients` | a client and a reviewer, four requests: batch, retraction, upserts, decisions | `RetractionQueued`, `RejectRetracts` |
| `handler_liveness` | two clients, Derived nodes on a cycle, an assertion beyond its band, decisions | `RejectAccounts`, `RequestsAnswered`, `CallsReturn` |
| `handler_upsert_race` | two upserts of one fact | violation: both versions stay active |

Bounds. `v` and `w` are two versions of one fact, `d` depends on `v`, `x` is asserted by two
principals. Five requests of one client make two versions, a dependent, a truncated
retraction and its review; four of two clients make a batch, a race and a decision on its outcome. `MaxRequests`
bounds only the start of requests; `MaxCalls` is large enough never to bind. `DefaultLimit`, which upserts and rejections
use, is 2 in `handler_one_client`, so that their cascades are cut as well, 3 in `handler_liveness` and 4, the number of ids, in
`handler_two_clients`; `MaxNodes` cuts the cascades of `factum_retract`.

What is promised of several clients, and what is not. `RejectAccounts` is what a rejection promises whatever others do: each
node of the event is retracted, or named among the errors of the answer, and stays so. That the nodes of a rejected event are
not active (`RejectRetracts`) is checked with a reviewer beside a client who asserts nothing out of band, since
`handler_reject_race.cfg` (section 9) is how it fails otherwise. That a fact written by upserts only has one current version (`OneCurrent`) is
proved for a single client; two break it (`handler_upsert_race`). `UpdatedHolds` is about one client, as anybody else may retract
the new node before the answer; a new node that is Derived from the old one is retracted with it, and the property says so.
`RetractionQueued` is about `factum_retract`; `TruncationQueued`, the same of every tool, is what `review.rs` says and what
`handler_truncation_lost.cfg` (section 9) refutes.

Fairness. `HandlerFairSpec` has weak fairness of each thread's steps inside a request: no step of a
tool or a store call waits for another thread (locks are held within one step), so a scheduled thread takes its next step.
Clients need not ask for anything.

### Proofs

`HandlerUsesStore` proves `HandlerSpec => Spec` of the store: the tools reach it
only through `insert`, `insert_batch` and `retract`. The invariant `HandlerInv` carries the types of store and requests, that a
request inserts only what its client passed (`RequestReady`), that a retraction and its result know their
root (`RootReady`), and the queue's `ReviewInv`. From it follow `HandlerKeepsIndexes` (indexes complete, cascades bounded),
`HandlerImplementsKnowledgeBase` (`HandlerSpec /\ []NoDuplicateRace => ImplementsKnowledgeBase`: whatever ids clients share,
corroborated assertions included, as long as no two inserts of one id are between test and write at once) and `HandlerKeepsEvents` (the queue's two theorems behind the handler, by
instantiating `ReviewProofs`). `HandlerAssumption` is evaluated by TLC.

What single tools promise rests on `ToolInv`: `HandlerInv`, the store's invariants, and `WorkInv`, which ties the
stage of a request to the store call its thread is in. Each theorem has the hypotheses under which
the code keeps the promise; without them a configuration of section 9 or the code named here breaks it.

| Theorem | Hypotheses and their reasons | Invariant |
|---|---|---|
| `RetractionsAlwaysQueued`: `[]RetractionQueued` | none | `CutInv`: the event of a truncated retraction is in the hands of its tool or in the queue |
| `RejectAlwaysAccounts`: `[]RejectAccounts` | `[]NoDuplicateRace`: an insert that lost the race would overwrite a retracted node with an active one | `AccountInv`: a node of the event is still to come, under way, retracted or noted as an error |
| `UpdatedAlwaysHolds`: `[]UpdatedHolds` | one client; finitely many ids, so that no cascade reaches the default limit before its root | `UpsertInv`: what the upsert knows of its node and of those it replaces, and that its node was reached by a cascade only if it is Derived from a retracted one |
| `UpsertsKeepOneCurrent`: `[]OneCurrent` | one client; in memory, where no retraction fails; one wanted fact, written by upserts only | `CurrentInv`: the current versions, from the look-up over the insertion to the retraction of the old one |

TLC checked the invariants before they were proved. Liveness and `RejectRetracts` are model-checked only; the latter needs
in-memory storage, ids that differ and no out-of-band assertion, and then says little more than `RejectAccounts`.

## 6. The query engine

### Modules

| Module | Role |
|---|---|
| `Arbitration` | pure: the answers `arbitrate` can return for candidates at their places in the look-up |
| `Terms` | terms and predicates, shared with Factum-L |
| `TermMatching` | pure, recursive: `match_pattern`, `match_term`, and how often a predicate mentions an entity |
| `QueryEngine` | queries as steps, over `KnowledgeBase` (section 3), which stands for everybody who writes |
| `QueryProperties` | what a query should answer, stated over sets of nodes, with no index and no order |
| `MCQuery` | instances: shapes of node, stores, questions |
| `QueryProofs` | the theorems; induction and sums over finite sets are in `FiniteSums` |

`query` takes one lock for the index (`Scan`), one for each id (`Fetch`, with the test of
`resolve_nodes`), and does the rest on its own copies (`Answer`: permission, validity, confidence,
match, arbitrate). `Query` is a call of the library, `ToolQuery` a `factum_query` with its defaults and policy
names. Between these steps others insert and retract: the store is the abstract
`KnowledgeBase`, since `FactumStore` is proved to implement it; `listed` says which nodes have
their index entries, because the in-memory backend writes a node before its entries
(`Publish`). `ScanFails` and `FetchFails` are reads the backend refuses, which the code takes for
absence. `before` is a history variable: the store when the call began.

Module parameters. `QueryEngine` takes "does the pattern match" (`Bound`) and "how often does it mention" (`Mentions`) as
constant operators, because recursive operators cannot be used where something is proved;
`MCQuery` gives them the definitions of `TermMatching`. The theorems hold for any.

Abstractions. Authorities are integers in ten-thousandths (the tolerance 0.001 is 10).
Weights are `f32` numbers in units of 2^-25, of which those from 1/4 up are multiples, and `Tally` adds
them as the code does: in the order of the candidates, each sum rounded to 24 significant bits (`Rounded`). From 32.0 on
`f32` rounds to coarser steps than the model's, and the property says nothing (`Light`). Times are
small integers, `Forever` is an earliest start. A permission tag and a role mask are sets of bits. Predicates are
compared as such, which is what `canonical_predicate` is for. The order in which a hash map yields ids is
arbitrary (`\E e \in todo[c]`). A result is its node; the bindings beside it are left out,
and so is the grouping by bindings, which only tests reach. Stored nodes are Active or Retracted: nothing makes a `Pending` one.

### Runs

| Run | Shows |
|---|---|
| `query_answers` | `CandidatesRegular`, `AnswersArbitrate`, `AnswersInstances` |

`CandidatesRegular` is about time: a query considers nothing that was retracted before it
began and misses nothing it could find throughout. `AnswersArbitrate` is about the answer:
each policy is compared with a definition over the set of visible, valid, confident, matching
candidates. It would fail if a hidden node took part in a vote, if
the order of the index mattered, or if the heaviest of three facts won without a majority. Votes near a half are the exception: with
weights 0.8 against 0.3 and 0.5, which the run asks about, `f32` sums in one order answer and in another refuse. So the property gives a weighted vote a
`Slack` of 128 units of 2^-25 (4 millionths) per candidate: beyond it the heaviest fact must answer or nothing,
within it either may happen. `AnswersInstances` says that an answer is the pattern with
one value for each variable.

Bounds. Three ids: two sources that tie and a third that decides, or two values and a majority. Seven shapes differ
in one respect each (near tie, window, hidden, other value, confident source without weight, other subject), and all
multisets of three of them are openings; five more are told apart by matching only. One
query of one client suffices, since queries share nothing but the store; writers insert a node or a pair and carry out two
retractions at any moment; one read may fail. `MaxQueries` guards the start of calls, `MaxErrors` only errors.

The counterexample of `query_value_conflict.cfg` (section 9) is the first scenario of `docs/multi-agent-usage.md`:
`sub_group_by_predicate` separates `(status @X up)` from `(status @X down)` before authorities are
compared, so LatestWins returns both and does not flag the answer.

### Proofs

`QueryProofs!QueriesRegular` proves `Spec => []CandidatesRegular` for any store, number of clients, calls and interleaving,
from `QueryAssumption`, which TLC evaluates. `CandidatesRegular` speaks of finished reads; `QueryInv` says what holds in the middle:
the store only grows and never revives (`StoreInv`, `HistoryInv`, from `Learn` and `Withdraw`), what was read is
and stays the content of its id (`GotInv`), what must be found is found or still to be resolved (`PendingInv`), and no id is resolved
twice (`OnceInv`).

`QueryProofs!AnswersAlwaysArbitrate` proves `Spec => []AnswersArbitrate` for any number of candidates, authorities, windows and weights,
under two hypotheses:

* `Unrepeated`: no node names the entity of an entity look-up more than once. The in-memory index lists a node once
  per mention (`MentionsOf`, `store.rs:554-572`) and nothing removes the repetition, so such a node is arbitrated against itself
  (section 9). Look-ups by predicate, hence all of `factum_query`, need no hypothesis.
* `Weighable`: weights are numbers. `tools.rs:39` says 0.0 to 1.0, `handler.rs:68-83` checks nothing, and the theorem
  needs neither: negative weights are among the run's too.

The argument goes from places to nodes. By `OnceInv` the candidates of a call are distinct nodes at their places, and their image is the set the property speaks of
(`MatchesAreCandidates`). Then one lemma per policy: a choice of one place for each subgroup
is a choice of one node for each fact (`OneForEach`), which gives `LatestArbitrates` and `HighestArbitrates`; the
second needs that finitely many candidates have a highest authority (`HighestExists`), and that the nodes within the tolerance of it are as many as their
places (`WinnersAreForemost`). `WeightedArbitrates` is about sums: an addition rounds by 32 units at most (`RoundedNear`), so a tally
differs from the exact sum over its places by 32 for each (`TallyNear`), which is the support of their nodes (`SumMoves`);
the slack is what three such sums can come to, and a little more.

Sums and extrema need induction over finite sets. The library's induction theorems take an operator, which the provers cannot instantiate; `FiniteInduction` takes
a *set* of sets instead, and rests on a smallest counterexample (`SmallestSet`), which exists because `<` on naturals is well-founded
(`LeastNat`). `SumFunction` is a recursive function with a `CHOOSE` at each step; `IsSum` is what does not depend on that choice,
and `SumIs` says that the library's function has it. A tally does depend on the order; `TallyExists` shows that adding the last place last is well-defined.

`AnswersInstances` is model-checked only: it is about recursive operators.

## 7. The text exchange

### Modules

| Module | Code | Role |
|---|---|---|
| `Literals` | `types.rs`, `parser.rs`, `serialize.rs` | numbers, decimals and durations as text and back, with the widths of `i128`, `u64` and `u8` as constants |
| `Lexer` | `lexer.rs` | pure: a text to tokens, or the first error |
| `Parser` | `parser.rs` | pure, recursive: tokens to nodes or a predicate, one operator per `parse_*` method |
| `Serializer` | `serialize.rs` | pure, recursive: nodes to canonical text, terms to their compact form |
| `Calibration` | `calibration.rs` | pure: defaults, bands, derived confidence, in integer hundredths |
| `Verifiers` | `verifier.rs`, `morphemes.rs` | the registry, arity and decimal checks, the first failure wins |
| `Exchange` | `handler.rs`, `serialize.rs` | a request of a client as one step, over `KnowledgeBase` (section 3); the compact form of a node |
| `ExchangeProperties` | – | what clients may rely on |
| `MCExchange` | – | documents and questions, with the grammar filled in; what can only be said of that grammar |
| `ExchangeProofs` | – | the theorems |

### How state and actions correspond to the code

A text is a sequence of atoms: a letter stands for a word of letters, `quote`, `nl` and the
punctuation for themselves. The lexer is a function of text and place, the parser threads a
result `[err, at, depth, val]` through its operators, so an error and the depth
counter leave every production as `?` and `with_depth` do. The order of node fields, the aliases of their
names, comments, escapes and the two ways to write an entity are those of the grammar in the code.

`Exchange` keeps the store's `facts` and of the handler `preferred_form`, `verifying` (are the built-in verifiers
registered) and `flagged` (ids with a `BandClippingExceeded` event); per client `told`, the morpheme table it was sent, and its last
`request` and `answer`. Its actions are `Initialize`, `Insert`, `InsertBatch`, `AssertFact`, `Query`, `Lookup`,
`Search` (keyword), `Overview` (`predicates`, `stats`), `ListResources`, `ReadResource`, and
`Elsewhere`, a retraction by somebody else. A request is one step here: what happens between
the store calls of a tool is the subject of sections 5 and 6, which leave texts out.

`Exchange` does not know the grammar. The operators that build or take apart text and terms (`ParseText`, `ParsePred`, `NodeText`,
`PredText`, `ShortTerm`, `Verdict`, `Bound`, `Mentions`, `ContentId`) are its constants: `MCExchange` gives them the operators of
`Parser`, `Serializer`, `Verifiers` and `TermMatching`, which are recursive, and the theorems hold whatever they are.

Abstractions. An unrecognised character, UTF-8, lines, columns and the wording of errors are left out; an error is
its kind. `generate_content_id` is some function of the canonical predicate, `ContentId`: the code's is `DefaultHasher`
masked to 48 bits (`handler.rs:55-62`), so two predicates may have one id, and a document may give any node that id by
hand. Seeds are two morphemes, one for each kind of arity. A date and a clock time are atoms. The JSON of an answer is the record it shows.

### Runs

| Run | Instance | Shows |
|---|---|---|
| `exchange` | one client, three requests, eleven nodes in two layouts each, batches, assertions, searches | `TypeOK`, `Understood`, `BatchUnderstood`, `AssertedFactKnown`, `ReadsBack`, `MorphemesTold`, `SearchComplete` |

`Understood` compares the parser with the writing of documents: `Meaning` gives the node a text was written
to say, and the two layouts (one near the canonical form, one with reordered fields, aliases, comments and bare symbols) must both
be stored as that node, be refused by the store or the verifiers, or exceed the depth
limit when their tree does. `ReadsBack` says exactly which nodes survive their canonical text (`Readable`), alone and
in one document with the others. `AssertedFactKnown` ties an answer of `factum_assert`, whichever of its three actions it names,
to the fact the store has, its predicate and its review event. For a duplicate or a corroboration this holds if nothing else that is sent
has its id (`Unmistakable`): the code compares ids only, so without that condition the run finds an assertion that is called a
duplicate of a fact the store does not have (section 9). `MorphemesTold` and `SearchComplete` are about answers.

Bounds. The nodes are one per feature that can go wrong: plain, every field at once, every literal, the deepest form that is accepted and
the one beyond it, a symbol `@` cannot spell, a quote in a provenance, a duration beyond `u64`, a decimal too wide, an entity
with arguments, an id given as `auto`. Depth is limited to 4 (128 in the code) so that the limit is met with each kind of nesting; three requests are two
insertions that meet (same content, same id) and a question about them. The predicates asserted have different numbers, and
one node of the documents was given the number of another fact by hand, so that an assertion meets what is not its fact. Widths are four digits; only their order matters.

Without exceptions, as the repository's `README.md:162` states it (`round_trip`), the claim fails: `exchange_round_trip.cfg` (section 9) finds
a provenance with a quote in it; `ReadsBack` names the other two kinds too (a name with `/` or the like, a duration beyond 64 bits of nanoseconds).

### Proofs

`ExchangeProofs` holds for any texts, grammar, verifiers and number of clients, requests and nodes.

* `ExchangeTyped`: `Spec => []TypeOK`. The store has only nodes that a document, a batch or an assertion
  of the clients means (`Storable`), each under its own id.
* `AssertedFactsKnown`: `Spec => []AssertedFactKnown`. `AssertedInv` says of every assertion answered `ok`
  that the store keeps the fact; `Persists` (nodes and review events are never taken back) carries it over every other step, the
  retractions of others included. A duplicate or a corroboration is about whatever node has the id; that this
  node has the predicate asserted follows from `Unmistakable`, a condition of the property on that one assertion. Nothing is assumed of
  `ContentId`, which may collide elsewhere.
* `MorphemesAlwaysTold`: `ASSUME EachDeclares PROVE Spec => []MorphemesTold`. `EachDeclares` is that there is one
  client, or that every client declares the capability when it initializes. It cannot be left out: in `exchange_two_clients.cfg`
  (section 9) one client declares nothing and is sent numbers because another did. `ToldInv` says that whoever spoke while the form is
  compact has the table, `ShownInv` that an answer shows nodes the store has.
* `BatchesUnderstood`: `Spec => BatchUnderstood`. All nodes of all texts are in the store, or it is as before.
* `SearchesComplete`: `Spec => SearchComplete`. Taking hits up to a limit takes all or fills the limit (`TakenOrFull`); a
  predicate is searched through the text of its node, which has it as a part (`WordWithin`, letter by letter).

The assumptions on the constants are evaluated by TLC for the grammar of `MCExchange`. `ExchangeAssumption` is about kinds
(finitely many ids, documents parse to sequences of nodes with ids, limits are natural numbers, and `DefaultHits <= MaxHits`, 50 and 200). `TextAssumption` is that `canonical` writes the text of
the predicate into that of the node. `MeaningAssumption` is what `Understood` says of batches and assertions: the
parser understands what was written.

`Understood` and `ReadsBack` are model-checked only: they are about what the recursive parser and serializer compute.

## 8. Factum-L

### Modules

| Module | Role |
|---|---|
| `SemEquiv` | `sequiv.rs`: level and score of two predicates, nodes, sequences |
| `Packing` | the numbers of `packed_codec.rs`: characters in pairs, argument count and types |
| `PackedCodec` | nodes to 24 floats and back |
| `BaselineCodec` | `encoder.rs`, `decoder.rs`: features, and a node built from them |
| `FactumL` | a channel of several hops, and the benchmark with its gates |
| `FactumLProperties` | what the codecs carry and the figures say |
| `MCFactumL` | instances, and the definition of closeness the scores are compared with |
| `FactumLProofs`, `FiniteSums` | the theorems; sums over finite sets, used in `QueryProofs` too |

`FactumL` has two halves that share `sent` and the codec. In the channel `Encode`, `Disturb`
(the latent operation of gate 2) and `Decode` pass a vector `wire` from hop to hop; `held` is what the last receiver
has, `error` ends it; `reader` may be the other codec's. In the benchmark `BenchNode` takes the
test nodes one by one through the gates and appends a `NodeResult` to `details`; `Summary` is the struct it returns.

Abstractions. A packed float is the integer the encoder divides by a constant; the decoder
multiplies by it and rounds. One latent operation moves the ratio of a float to the first by at most 0.000005, always in the same
direction; the closest a float is read is half a unit of 1/4488, which some 30 to 110 operations use up. So the model keeps
what is rounded for at most `NoiseMargin` = 20 operations on one vector (`NoiseAssumption`), and nothing is claimed beyond them. A vector that is encoded
again starts afresh. Confidence is not read back, authority is not rounded, so noise may move it by one unit. A baseline feature is a fraction with the denominator `Unit`, chosen so that
the divisions that occur are exact. N-gram frequencies and the cosine similarity
feed no decoder and are left out, but for the length of the vector, `Length(n)`: the latent operation divides the features of a baseline vector, which has no
scale reference, by it, and its noise leaves no morpheme at zero, so that an unknown head is decoded as the first morpheme instead of
failing (`disturb_baseline`). The code runs it in the benchmark only, where a text must be long enough for some 500 floats; in the run three nodes are.
In the channel only packed vectors are disturbed. The divisor `MaxUsize` means no budget; the divisor 0, by which `benchmark.rs:156` would
divide, is excluded (`BoundAssumption`).
Texts of differences are left out of scores.

The functions that walk through a term (`compare_terms`, `term_value_string`, the two counts of the baseline encoder)
take its outermost layer apart themselves and refer for the rest to a recursive function over
`Inner`, the terms that stand in other terms. They are the code's functions for whatever `Inner` is, if it contains the parts.

| Run | Instance | Shows |
|---|---|---|
| `factum_l` | 23 nodes, sequences of them, both codecs and readers, four hops, two disturbances of each vector, three gate settings | `TypeOK`, `ScoresMeaning`, `PackedCarries`, `NothingInvented`, `RelaysSettle`, `BaselineKeeps`, `BenchHonest` |

`ScoresMeaning` compares the pairwise walk of `SemEquiv` with what each node says on its own (heads by name, shape, values). `PackedCarries` says exactly which
predicates get through, `NothingInvented` what the others become, `RelaysSettle` that a
second hop loses nothing the first did not (the third, for the baseline), `BaselineKeeps` what the lossy codec
promises through every hop, `BenchHonest` what the figures count.

Bounds. An argument has two floats, four characters, so that texts of 3, 4 and 5 occur; 14
characters have codes; each node misses the codec by one respect. Four hops are one more than the baseline needs to settle.

### Proofs

`FactumLProofs` holds for any registry, charset, room of an argument, nodes, gate settings, threshold from 31 to 85 (the code's is 50), any
number of hops, and at most `NoiseMargin` disturbances of each vector.

* `ArgumentsRecovered`: `unpack_args` undoes `pack_args`. `TextKept`: a text comes back up to its first character without a code, its end
  or the room, whichever is first; hence `TextRecovered`, unchanged if it fits. They rest on
  `LastDigit` (a digit below the base can be split off) and `CodeRead` (the j-th code read is the j-th written).
* `FactumLTyped`: `Spec => []TypeOK`. `ChannelInv` says what is under way (`WireShape`: its numbers are in range for the
  codec it comes from), `BenchInv` that what the benchmark has done and what it has left are the test nodes.
* `NothingIsInvented`, `PackedCarriesWhatFits`: `Spec => []NothingInvented`, `Spec => []PackedCarries`. Neither property is inductive, since
  after the second hop what is sent is a copy. `PackedInv` says that a vector bears (`Bears`) the first node or a copy of it, and
  that what was received is `Copy(n, auth)` for some authority. The step is that a copy is carried as its own copy
  (`CopyArgs`: what arrived once arrives the same again). `CarriedArrives` and `CopyCompared` then show that `compare` reaches the threshold
  exactly if `Carries`; `ArrivalJudged` decides of an argument of each type whether it comes back as it is.
* `BaselineKeepsMeta`: `Spec => []BaselineKeeps`. `BaselineInv` says that the channel has the node or one that `MetaKept` relates
  to it; the relation is transitive along hops because rounding a flag or a level gives it back (`MetaReadBack`). The head of a node without
  nested terms is the only morpheme in its bag (`HeadExtracted`), and what the decoder builds has no
  nested terms (`PlaceholdersAreFlat`).
* `FiguresAreHonest`: `Spec => []BenchHonest`. `GatesHonest` follows one node through the gates with either codec, the latent operation on baseline vectors of any length included; `Figures` bounds the sum by
  the number of nodes that pass and by the maximum.

Assumptions, evaluated by TLC in `factum_l`. `BatchAssumption`: nodes are made as `types.rs` makes them (confidence and authority from 0 to 1, a
status, a level and a provenance of the enumerations), the names in the registry differ (`register` gives a known name its old number, `morphemes.rs:126`), no
morpheme is called `M` and a number, as an unknown id is written (the seeds are lower-case words), and vectors have a length above zero. `NoiseAssumption`: see above. `CodecAssumption`:
there is no space in the charset, the digits 0 and 1 and the text UNKNOWN are spelt in it. `BoundAssumption`: the vectors
of the codecs differ in length, divisors are positive. `InnerAssumption`: `Inner` has the parts of terms, and counting over them gives numbers. `NumberAssumption`:
from the start of its text that has room, a decimal or a duration is read back exactly if that is the whole text, and what is read stays what it is.
It speaks of texts only; that the codec delivers just this start is the theorem `TextKept`. The last two stand for inductions
over terms and over digits, which the prover cannot do. That rounding restores the integers, within the noise margin, is an assumption of the model.

Model-checked only: `ScoresMeaning`, which compares recursive functions over terms, and `RelaysSettle`.

## 9. Further counterexamples

These configurations state promises of comments that the code does not keep, or properties outside the
conditions their passing runs name. They are kept to reproduce the counterexamples.

| Configuration | Property | What happens |
|---|---|---|
| `store_failed_rebuild.cfg` (`MCStore`) | `DerivedFollowRoot` | `iter_nodes` fails at a restart and the rebuild returns with empty indexes (`store.rs:149-152`); a cascade then knows no dependents and reports no truncation, though `CHANGELOG.md:136` says they "are rebuilt in-memory on startup" |
| `handler_truncation_lost.cfg` (`MCHandler`) | `TruncationQueued` | `retract`, which upsert and reject call, drops the truncation flag (`handler.rs:619`, `store.rs:304`); nothing is enqueued, though `review.rs:20` says "Cascade truncated: Enqueue (high priority)" |
| `handler_reject_race.cfg` (`MCHandler`) | `RejectRetracts` | a rejection between the event and the insertion of an assertion; the rejected fact becomes active |
| `handler_partial.cfg` (`MCHandler`) | `PartialKeepsBoth` | a cascade fails after the old node was written; the answer is `partial`, but only the new node is active (`handler.rs:553-555`) |
| `query_value_conflict.cfg` (`MCQuery`) | `MostAuthoritativeWins` | two values of one attribute never compete (section 6) |
| `exchange_round_trip.cfg` (`MCExchange`) | `round_trip` | `serialize.rs:256-275` writes strings of a provenance without escapes, names `@` cannot spell, and durations `parse_duration` cannot read; `README.md:162` says "`parse(serialize(parse(x))) == parse(x)`. 100%" |
| `exchange_two_clients.cfg` (`MCExchange`) | `MorphemesTold` | `preferred_form` is one field for all clients (`handler.rs:99`): after another client's `initialize` a client is sent numbers of a table it never got |

Further ones take a change of constants in a listed configuration:

| Instance | Property | What happens |
|---|---|---|
| `store_sequential.cfg` with `Threads = {t1, t2}`, `Offers <- TwoOffers`, `Batches <- TwoBatches`, `Subs = {}`, `Watches <- WatchNone`, `Limits = {3}`, `MaxCalls = 2` | `LogReplaysStore` | a retraction overtakes a batch's log entries; the log replays to a node the store has retracted |
| `store_sequential.cfg` with `Subs = {}`, `Watches <- WatchNone`, `Limits = {1}` | `DerivedFollowRoot` | retracting the root of a truncated cascade again does nothing and reports no truncation |
| `store_sequential.cfg` with `Limits = {0}` | `ToldOnlyOfRetractions` | the event of a retraction with limit 0 names its root, which stays active (`store.rs:325`) |
| `store_concurrent.cfg` with `Offers <- SameOffers`, `Limits = {3}`, `MaxCalls = 3` | `DuplicateRejected` | two clients insert one id at once; both calls return Ok (`store.rs:229`) |
| `review_queue.cfg` | `NormalAfterPending` | `review.rs:179`, section 4 |
| `handler_one_client.cfg` with `Inserts` and `Upserts <- OneNothing`, `Reviewers = {}`, `MaxNodes = {3}`, `Limits = {3}`, `DefaultLimit = 3`, `MaxRequests = 3` | `AssertHolds` | asserting a retracted fact is answered as a duplicate or a corroboration (`handler.rs:786, 799`); it stays retracted |
| `handler_one_client.cfg` with `Inserts` and `Asserts <- OneNothing`, `Reviewers = {}`, `MaxNodes = {1}`, `MaxRequests = 3`, `Repeats <- Twice` | `AmbiguousIsConflict` | one node that mentions its entity twice counts as two matches (`handler.rs:591`) |
| `query_answers.cfg` with `Queries = {}`, `ToolQueries <- PastQueries`, `MaxErrors = 0` | `AsOfSeesPast` | `as_of` moves the time of the validity test only: what is retracted now is missing from yesterday's answer (`design-rationale.md:99-101`) |
| `query_answers.cfg` with `Queries <- EntityQueries`, `ToolQueries = {}` | `AnswersArbitrate` | under an entity filter a node that mentions its entity twice is a candidate twice, and its answer is flagged as ambiguous with itself |
| `query_answers.cfg` with `Queries <- SharedQueries`, `ToolQueries = {}` | `AnswersInstances` | bindings made inside a compound are dropped (`query.rs:217`), so a variable in- and outside of it may mean two things |
| `exchange.cfg` | `AssertedFactKnown` without `Unmistakable` | a node with a hand-given id is taken for the fact whose content id that is; asserting the fact is answered as a duplicate |

## 10. Where code and words differ, without a run

Met while modelling; the model follows the code.

* `parser.rs:194-216`: `skip_sexp` counts brackets of both kinds as opened but only its own as closed, so
  a skipped form with a list in it, `(comment [x])`, swallows what follows.
* `types.rs:327`: the scale of a decimal is the length of its fraction as `u8`; 256 digits give scale 0.
* `handler.rs:946-966`: `retracted_nodes` of the `stats` mode is the total minus the visible ones, so nodes
  hidden by permission count as retracted.
* `handler.rs:532`: `inserted` of a batch counts texts, not nodes, and ids given as `auto` are stored as they are.
* `handler.rs:726`: the confidence of an assertion is not confined to 0–1; what was stored with 1.5 is handed out as text the parser refuses.
* `handler.rs:50-54, 692` call the content id a SHA-256 hash; lines 55-62 mask `DefaultHasher` to 48 bits.
* `benchmark.rs:156` divides by the budget's divisor; 0 is accepted and panics.
* `packed-codec-design.md:17` says the packed codec passes gate 1 with 768 bits against 888/3; `benchmark.rs:152-163` requires
  768 to be *less* than 296.
* `packed_codec.rs:307-316`: an unknown head is encoded as index 0, which is the first seed, and so is the vector of an
  empty sequence; both decode as a node about it.
* `sequiv.rs:49` ("lowered further if multiple values are wrong"): one wrong value already lowers the score to 0.2.
* `sequiv.rs:444` ("with epsilon for Dec values"): decimals are compared by mantissa and scale, `1.0` differs from `1.00`.

## 11. Not modelled

* Transports: I/O around one handler; their concurrency is that of the threads of `McpHandler`.
* Subscriptions that come and go, the pattern matching of `matches`, undecodable records: planned (section 2).
* Decimals through `f64`, `Display`, `serde`, the wording of errors: formatting.
* The 230 seeds of the morpheme registry: a constant table.
* Benchmarks, demo, fuzz targets, conformance vectors: no behaviour of their own.
* A crash of the server: the review queue is in memory only and is lost; the handler model has no crash.
