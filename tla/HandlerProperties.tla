------------------------- MODULE HandlerProperties -------------------------
(***************************************************************************)
(* What the tools of module McpHandler should guarantee.                   *)
(***************************************************************************)
EXTENDS McpHandler, StoreProperties

Is(i, status) == nodes[i] # None /\ nodes[i].status = status
Events(type) == {k \in 1..Len(deque) : deque[k].type = type}

\* When factum_retract has answered, a retraction that was cut short has an
\* event of its own in the review queue, at high priority (handler.rs:416-430,
\* review.rs:20 "Cascade truncated | Enqueue (high priority)").
RetractionQueued ==
  \A t \in Threads :
    req[t].stage = "idle" /\ answer[t].tool = "retract" /\ ret[t].truncated =>
      \E k \in Events("CascadeTruncated") :
        deque[k].priority = "High" /\ deque[k].nodes = {ret[t].root}

\* The same of every tool that retracts, factum_upsert and factum_review too.
TruncationQueued ==
  \A t \in Threads : req[t].stage = "idle" /\ ret[t].truncated =>
    \E k \in Events("CascadeTruncated") : ret[t].root \in deque[k].nodes

\* Once a rejection has been carried out and nothing else is in flight, the
\* nodes it is about are not active (review.rs:91 "Human rejected -- the fact
\* should be retracted").
RejectRetracts ==
  AllAnswered => \A k \in 1..Len(deque) :
    deque[k].status = "Rejected" => \A i \in deque[k].nodes : ~Is(i, "Active")

\* When a rejection is answered, every node its event is about is retracted or
\* among the errors of the answer, and remains so, whatever other clients did
\* meanwhile and do later (handler.rs:1126-1143).
RejectAccounts ==
  \A t \in Threads : answer[t].tool = "reject" =>
    \A i \in answer[t].ids : Is(i, "Retracted") \/ i \in answer[t].errors

Current(want) ==
  {i \in Ids : Is(i, "Active") /\ want.keys \cup {want.entity} \subseteq nodes[i].node.keys}

\* Where upserts alone write what they look for, they keep one version of it
\* active, in whatever order their requests were served (handler.rs:548-551,
\* docs/http-transport-design.md:82-83 "the `RwLock` serializes writes safely").
OneCurrent == AllAnswered => \A want \in Wants : Cardinality(Current(want)) <= 1

\* With one client: an upsert that answers "updated" has retracted the old node
\* and stored the new one, which is active unless the cascade reached it, and
\* then it is Derived from a retracted node (handler.rs:553-555, 609-625 "old
\* node retracted, new node inserted").
UpdatedHolds ==
  \A t \in Threads :
    Returned(t, {"upsert"}, "replace") /\ ret[t].result = "Ok" =>
      LET n == req[t].node IN
      /\ nodes[n.id] # None /\ nodes[n.id].node = n
      /\ Is(n.id, "Retracted") => n.derived /\ \E d \in n.deps : Is(d, "Retracted")
      /\ \A old \in req[t].matching : Is(old, "Retracted")

\* With one client: an upsert that answers "partial" has left both versions
\* (handler.rs:553-555 "both nodes will exist").
PartialKeepsBoth ==
  \A t \in Threads :
    Returned(t, {"upsert"}, "replace") /\ ret[t].result # "Ok" =>
      \A i \in req[t].matching \cup {req[t].node.id} : Is(i, "Active")

\* With one client: an assertion answered with "duplicate" or "corroborated" is
\* of a fact that the store holds (handler.rs:692-697, 799 "fact already exists").
AssertHolds ==
  \A t \in Threads : AtStage(t, {"assert"}, "compare") => Is(req[t].node.id, "Active")

\* What is enqueued as ambiguous is a choice between at least two nodes
\* (review.rs:71 "multiple matching nodes with conflicting values").
AmbiguousIsConflict ==
  \A k \in Events("AmbiguousArbitration") : Cardinality(deque[k].nodes) > 1

\* Every request is answered.
RequestsAnswered == \A t \in Threads : req[t].stage # "idle" ~> req[t].stage = "idle"
=============================================================================
