----------------------------- MODULE McpHandler -----------------------------
(***************************************************************************)
(* The tools of crates/factum-mcp/src/handler.rs that change something, on *)
(* one store and one review queue shared by all clients. Over HTTP every   *)
(* request is handled by a thread of its own; over stdio there is one.     *)
(*                                                                         *)
(* A tool is a sequence of store and queue calls with nothing held between *)
(* them. The calls are those of FactumStore and ReviewQueue, at their      *)
(* granularity; an action of this module is what the handler itself does   *)
(* between two of them. Tools that only read are left out.                 *)
(*                                                                         *)
(* A node asserted by a principal has that principal among its keys, as    *)
(* build_insert_ops puts it into by_src.                                   *)
(***************************************************************************)
EXTENDS FactumStore

CONSTANTS
  Inserts,       \* Inserts[t]: the nodes t may pass to factum_insert
  Upserts,       \* Upserts[t]: the nodes t may pass to factum_upsert
  Wants,         \* what upserts look for: an entity and keys of the node
  Repeats,       \* <<node, entity>>: the node mentions the entity twice
  Asserts,       \* Asserts[t]: the nodes factum_assert makes of t's predicates
  OutOfBand,     \* nodes whose confidence is outside the band of their provenance
  Principals,    \* the keys that name a principal or a model
  Reviewers,     \* threads whose client answers reviews
  MaxNodes,      \* the max_cascade_nodes values passed to factum_retract
  DefaultLimit,  \* DEFAULT_MAX_CASCADE_NODES, 100 in the code
  MaxRequests    \* bound on the requests made in a run

ASSUME HandlerAssumption ==
  /\ \A t \in Threads : Inserts[t] \cup Upserts[t] \cup Asserts[t] \subseteq Offers[t]
  /\ MaxNodes \cup {DefaultLimit} \subseteq Limits
  /\ Wants \subseteq [entity: Keys, keys: SUBSET Keys]
  /\ Repeats \subseteq Nodes \X Keys
  /\ OutOfBand \subseteq Nodes /\ Principals \subseteq Keys /\ Reviewers \subseteq Threads
  /\ DefaultLimit > 0 /\ MaxRequests \in Nat
  /\ Threads \cap Nat = {}
  /\ None \notin [id: Nat, type: {"AmbiguousArbitration", "BandClippingExceeded", "CascadeTruncated"},
                  priority: {"Normal", "High"}, nodes: SUBSET Ids, status: {"Pending"}]

VARIABLES
  deque, next_id, held, decisions,   \* of the review queue
  req,        \* the request each thread handles
  answer,     \* the last answer of each thread
  requests

ReviewCase(type, priority, ids) == [type |-> type, priority |-> priority, nodes |-> ids]

RQ == INSTANCE ReviewQueue WITH
        Callers <- Threads, NodeIds <- Ids, MaxEvents <- MaxRequests,
        Cases <- [type: {"AmbiguousArbitration", "BandClippingExceeded", "CascadeTruncated"},
                  priority: {"Normal", "High"}, nodes: SUBSET Ids]

queue_vars == <<deque, next_id, held, decisions>>
handler_vars == <<req, answer, requests>>
all_vars == <<vars, queue_vars, handler_vars>>

Stages == {"idle", "store", "push", "scan", "read", "compare", "replace", "reject", "condemn"}

NoWant == [entity |-> None, keys |-> {}]
NoRequest == [tool |-> "none", stage |-> "idle", node |-> None, want |-> NoWant,
              ids |-> {}, matching |-> {}, errors |-> {}]
NoAnswer == [tool |-> "none", action |-> "none", ids |-> {}, errors |-> {}]

-----------------------------------------------------------------------------
(* Requests and answers.                                                   *)

Begin(t, request) ==
  /\ req[t].stage = "idle" /\ requests < MaxRequests
  /\ requests' = requests + 1
  /\ req' = [req EXCEPT ![t] = request]
  /\ UNCHANGED answer

AtStage(t, tools, stage) == req[t].tool \in tools /\ req[t].stage = stage

\* The store call the request has made has returned.
Returned(t, tools, stage) == AtStage(t, tools, stage) /\ pc[t] = "idle"

Proceed(t, stage) == req' = [req EXCEPT ![t].stage = stage] /\ UNCHANGED <<answer, requests>>

Answer(t, action, ids) ==
  /\ answer' = [answer EXCEPT ![t] =
       [tool |-> req[t].tool, action |-> action, ids |-> ids, errors |-> req[t].errors]]
  /\ req' = [req EXCEPT ![t] = NoRequest]
  /\ UNCHANGED requests

Enqueue(t, type, priority, ids) ==
  /\ RQ!TakeId(t, ReviewCase(type, priority, ids))
  /\ Proceed(t, "push")
  /\ UNCHANGED vars

-----------------------------------------------------------------------------
(* factum_insert, factum_insert_batch, factum_retract.                     *)

ToolInsert(t) ==
  /\ \E n \in Inserts[t] :
       /\ Call(t, "insert", {n})
       /\ Begin(t, [NoRequest EXCEPT !.tool = "insert", !.stage = "store", !.node = n])
  /\ UNCHANGED queue_vars

ToolInsertBatch(t) ==
  /\ \E S \in Batches[t] : Call(t, "batch", S)
  /\ Begin(t, [NoRequest EXCEPT !.tool = "insert", !.stage = "store"])
  /\ UNCHANGED queue_vars

InsertAnswered(t) ==
  /\ Returned(t, {"insert"}, "store")
  /\ Answer(t, IF ret[t].result = "Ok" THEN "inserted" ELSE "error", ret[t].ids)
  /\ UNCHANGED <<vars, queue_vars>>

ToolRetract(t) ==
  /\ \E root \in Ids, limit \in MaxNodes : StartRetract(t, root, limit)
  /\ Begin(t, [NoRequest EXCEPT !.tool = "retract", !.stage = "store"])
  /\ UNCHANGED queue_vars

DeepCascade(t) == ret[t].truncated /\ ret[t].depth > 0
NeedsReview(t) == ret[t].truncated

RetractAnswered(t) ==
  /\ Returned(t, {"retract"}, "store")
  /\ ~NeedsReview(t)
  /\ Answer(t, IF ret[t].result = "Ok" THEN "retracted" ELSE "error", ret[t].ids)
  /\ UNCHANGED <<vars, queue_vars>>

RetractTruncated(t) ==
  /\ Returned(t, {"retract"}, "store")
  /\ NeedsReview(t)
  /\ Enqueue(t, "CascadeTruncated", "High", {ret[t].root})

-----------------------------------------------------------------------------
(* factum_upsert.                                                          *)

ToolUpsert(t) ==
  /\ pc[t] = "idle"
  /\ \E n \in Upserts[t], want \in Wants :
       Begin(t, [NoRequest EXCEPT !.tool = "upsert", !.stage = "scan", !.node = n, !.want = want])
  /\ UNCHANGED <<vars, queue_vars>>

\* lookup_by_entity: the scan of the index; an error of the backend is an empty result.
UpsertScan(t) ==
  /\ AtStage(t, {"upsert"}, "scan")
  /\ \E ids \in {{i \in Ids : <<req[t].want.entity, i>> \in index}}
                \cup (IF Persistent THEN {{}} ELSE {}) :
       req' = [req EXCEPT ![t].stage = "read", ![t].ids = ids]
  /\ UNCHANGED <<vars, queue_vars, answer, requests>>

\* As in FactumStore, some definitions stand next to a plausible mistake that
\* only serves to check the properties: DeepCascade, SameForever, NewNode,
\* FirstOnly, NoErrors.
SameForever(ids, i) == ids
Rest(ids, i) == ids \ {i}

Matches(t, i) ==
  /\ nodes[i] # None /\ nodes[i].status = "Active"
  /\ req[t].want.keys \subseteq nodes[i].node.keys

\* resolve_nodes and the filter of the upsert, node by node; a read error drops the node.
UpsertRead(t) ==
  /\ AtStage(t, {"upsert"}, "read")
  /\ \E i \in req[t].ids :
       \/ /\ Matches(t, i)
          /\ req' = [req EXCEPT ![t].ids = Rest(@, i), ![t].matching = @ \cup {i}]
       \/ /\ ~Matches(t, i) \/ Persistent
          /\ req' = [req EXCEPT ![t].ids = Rest(@, i)]
  /\ UNCHANGED <<vars, queue_vars, answer, requests>>

\* InMemoryBackend lists a node once per mention of the entity.
Repeated(t) ==
  ~Persistent /\ \E i \in req[t].matching :
                   nodes[i] # None /\ <<nodes[i].node, req[t].want.entity>> \in Repeats

Ambiguous(t) == Cardinality(req[t].matching) > 1 \/ Repeated(t)

UpsertInsert(t) ==
  /\ AtStage(t, {"upsert"}, "read") /\ req[t].ids = {}
  /\ ~Ambiguous(t)
  /\ Call(t, "insert", {req[t].node})
  /\ Proceed(t, "store")
  /\ UNCHANGED queue_vars

UpsertAmbiguous(t) ==
  /\ AtStage(t, {"upsert"}, "read") /\ req[t].ids = {}
  /\ Ambiguous(t)
  /\ Enqueue(t, "AmbiguousArbitration", "Normal", req[t].matching)

\* Nothing matched, or the new node was refused: the old one is untouched.
UpsertInserted(t) ==
  /\ Returned(t, {"upsert"}, "store")
  /\ ret[t].result # "Ok" \/ req[t].matching = {}
  /\ Answer(t, IF ret[t].result = "Ok" THEN "inserted" ELSE "error", ret[t].ids)
  /\ UNCHANGED <<vars, queue_vars>>

NewNode(t) == {req[t].node.id}
Superseded(t) == req[t].matching

\* One node matched: it is retracted after the new one is in.
UpsertReplace(t) ==
  /\ Returned(t, {"upsert"}, "store")
  /\ ret[t].result = "Ok"
  /\ \E old \in Superseded(t) : StartRetract(t, old, DefaultLimit)
  /\ Proceed(t, "replace")
  /\ UNCHANGED queue_vars

UpsertReplaced(t) ==
  /\ Returned(t, {"upsert"}, "replace")
  /\ Answer(t, IF ret[t].result = "Ok" THEN "updated" ELSE "partial", ret[t].ids)
  /\ UNCHANGED <<vars, queue_vars>>

-----------------------------------------------------------------------------
(* factum_assert.                                                          *)

ToolAssert(t) ==
  /\ pc[t] = "idle"
  /\ \E n \in Asserts[t] :
       LET request == [NoRequest EXCEPT !.tool = "assert", !.node = n] IN
       \/ /\ n \in OutOfBand
          /\ RQ!TakeId(t, ReviewCase("BandClippingExceeded", "Normal", {n.id}))
          /\ Begin(t, [request EXCEPT !.stage = "push"])
          /\ UNCHANGED vars
       \/ /\ n \notin OutOfBand
          /\ Call(t, "insert", {n})
          /\ Begin(t, [request EXCEPT !.stage = "store"])
          /\ UNCHANGED queue_vars

AssertAnswered(t) ==
  /\ Returned(t, {"assert"}, "store")
  /\ ret[t].result # "AlreadyExists"
  /\ Answer(t, IF ret[t].result = "Ok" THEN "asserted" ELSE "error", ret[t].ids)
  /\ UNCHANGED <<vars, queue_vars>>

AssertExists(t) ==
  /\ Returned(t, {"assert"}, "store")
  /\ ret[t].result = "AlreadyExists"
  /\ Proceed(t, "compare")
  /\ UNCHANGED <<vars, queue_vars>>

Source(n) == n.keys \cap Principals

\* store.get: whoever asserted the existing node, whatever its status.
AssertCompare(t) ==
  /\ AtStage(t, {"assert"}, "compare")
  /\ LET existing == nodes[req[t].node.id] IN
     Answer(t, IF existing # None /\ Source(existing.node) = Source(req[t].node)
               THEN "duplicate" ELSE "corroborated", {req[t].node.id})
  /\ UNCHANGED <<vars, queue_vars>>

-----------------------------------------------------------------------------
(* The queue side of a request, and factum_review.                         *)

PushThenAnswer(t) ==
  /\ AtStage(t, {"retract", "upsert"}, "push")
  /\ RQ!PushEvent(t)
  /\ Answer(t, IF req[t].tool = "upsert" THEN "ambiguous" ELSE "truncated", held[t].nodes)
  /\ UNCHANGED vars

PushThenInsert(t) ==
  /\ AtStage(t, {"assert"}, "push")
  /\ RQ!PushEvent(t)
  /\ Call(t, "insert", {req[t].node})
  /\ Proceed(t, "store")

ToolApprove(t) ==
  /\ t \in Reviewers /\ pc[t] = "idle"
  /\ \E id \in 1..MaxRequests : RQ!Approve(id)
  /\ Begin(t, NoRequest)
  /\ UNCHANGED vars

FirstOnly(ids) == {CHOOSE i \in ids : TRUE}
Condemned(ids) == ids

\* reject, and get of the same event, whose nodes never change.
ToolReject(t) ==
  /\ t \in Reviewers /\ pc[t] = "idle"
  /\ \E id \in 1..MaxRequests :
       LET about == deque[RQ!Find(id)].nodes IN
       /\ RQ!Reject(id)
       /\ Begin(t, [NoRequest EXCEPT !.tool = "reject", !.stage = "reject",
                                    !.ids = Condemned(about), !.matching = about])
  /\ UNCHANGED vars

\* The nodes are retracted one after another.
RejectNext(t) ==
  /\ AtStage(t, {"reject"}, "reject") /\ pc[t] = "idle"
  /\ \E i \in req[t].ids :
       /\ StartRetract(t, i, DefaultLimit)
       /\ req' = [req EXCEPT ![t].ids = Rest(@, i), ![t].stage = "condemn"]
  /\ UNCHANGED <<queue_vars, answer, requests>>

NoErrors(t) == {}
Errors(t) == IF ret[t].result = "Ok" THEN {} ELSE {ret[t].root}

\* An error is kept for the answer, and the loop goes on.
RejectReturned(t) ==
  /\ Returned(t, {"reject"}, "condemn")
  /\ req' = [req EXCEPT ![t].errors = @ \cup Errors(t), ![t].stage = "reject"]
  /\ UNCHANGED <<vars, queue_vars, answer, requests>>

\* The answer names the event; its nodes stand for it here.
RejectAnswered(t) ==
  /\ AtStage(t, {"reject"}, "reject") /\ pc[t] = "idle" /\ req[t].ids = {}
  /\ Answer(t, "rejected", req[t].matching)
  /\ UNCHANGED <<vars, queue_vars>>

-----------------------------------------------------------------------------

HandlerInit ==
  /\ Init /\ RQ!Init
  /\ req = [t \in Threads |-> NoRequest]
  /\ answer = [t \in Threads |-> NoAnswer]
  /\ requests = 0

Request(t) ==
  \/ ToolInsert(t) \/ ToolInsertBatch(t) \/ ToolRetract(t) \/ ToolUpsert(t)
  \/ ToolAssert(t) \/ ToolApprove(t) \/ ToolReject(t)

\* The steps of a request, in the handler, the queue or the store.
RequestStep(t) ==
  \/ InsertAnswered(t) \/ RetractAnswered(t) \/ RetractTruncated(t)
  \/ UpsertScan(t) \/ UpsertRead(t) \/ UpsertInsert(t) \/ UpsertAmbiguous(t)
  \/ UpsertInserted(t) \/ UpsertReplace(t) \/ UpsertReplaced(t)
  \/ AssertAnswered(t) \/ AssertExists(t) \/ AssertCompare(t)
  \/ PushThenAnswer(t) \/ PushThenInsert(t)
  \/ RejectNext(t) \/ RejectReturned(t) \/ RejectAnswered(t)
  \/ StoreStep(t) /\ UNCHANGED <<queue_vars, handler_vars>>

AllAnswered == \A t \in Threads : req[t].stage = "idle"

\* Not a step of the program: the bounded run has made its requests.
HandlerFinished == AllAnswered /\ requests = MaxRequests /\ UNCHANGED all_vars

HandlerNext ==
  \/ \E t \in Threads : Request(t) \/ RequestStep(t)
  \/ HandlerFinished

HandlerSpec == HandlerInit /\ [][HandlerNext]_all_vars

\* A thread that handles a request is scheduled again: no step of a tool or of
\* a store call waits for another thread, locks are held only within a step.
HandlerFairSpec == HandlerSpec /\ \A t \in Threads : WF_all_vars(RequestStep(t))
=============================================================================
