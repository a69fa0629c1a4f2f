---------------------------- MODULE ReviewQueue ----------------------------
(***************************************************************************)
(* The review queue of crates/factum-rt/src/review.rs: events that a human *)
(* has to decide, in a deque behind one lock, with ids from an atomic      *)
(* counter. enqueue takes the id before it takes the lock, so events can   *)
(* enter the deque in another order than their ids.                        *)
(***************************************************************************)
EXTENDS Integers, FiniteSets, SequencesExt

CONSTANTS
  Callers,    \* threads that share the queue
  NodeIds,    \* what events are about
  Cases,      \* the events callers may enqueue here: type, priority, nodes
  MaxEvents,  \* bound on the events enqueued in a run
  None        \* no event

EventTypes == {"AmbiguousArbitration", "BandClippingExceeded", "CascadeTruncated"}
Priorities == {"Normal", "High"}
CaseType   == [type: EventTypes, priority: Priorities, nodes: SUBSET NodeIds]

ASSUME CasesAssumption ==
  /\ Cases \subseteq CaseType /\ MaxEvents \in Nat
  /\ Callers \cap Nat = {}
  /\ None \notin [id: Nat, type: EventTypes, priority: Priorities, nodes: SUBSET NodeIds,
                  status: {"Pending"}]

VARIABLES
  deque,      \* all events, pending and resolved
  next_id,    \* the id of the next event
  held,       \* the event each caller has an id for and has not pushed yet
  decisions   \* history: the approve and reject calls that succeeded, in order

queue_vars == <<deque, next_id, held, decisions>>

NewEvent(id, case) ==
  [id |-> id, type |-> case.type, priority |-> case.priority,
   nodes |-> case.nodes, status |-> "Pending"]

-----------------------------------------------------------------------------
(* As in FactumStore, LengthId, AnyPending, Replaced and Unsettled are      *)
(* plausible mistakes, which only serve to check that properties notice.   *)

LengthId == Len(deque) + 1
FreshId == next_id

\* enqueue, first step: next_id.fetch_add.
TakeId(t, case) ==
  /\ held[t] = None
  /\ held' = [held EXCEPT ![t] = NewEvent(FreshId, case)]
  /\ next_id' = next_id + 1
  /\ UNCHANGED <<deque, decisions>>

\* A new event goes before the first event that is not ahead of it.
AnyPending(e, priority) == e.status = "Pending"
Ahead(e, priority) == e.status = "Pending" /\ (priority = "High" => e.priority = "High")

\* position(..).unwrap_or(events.len()), one-based: the set of the one such slot.
Slots(priority) ==
  {k \in 1..(Len(deque) + 1) :
     /\ \A j \in 1..(k - 1) : Ahead(deque[j], priority)
     /\ k <= Len(deque) => ~Ahead(deque[k], priority)}

Replaced(k, e) == ReplaceAt(Append(deque, e), k, e)
Inserted(k, e) == InsertAt(deque, k, e)

\* enqueue, second step: insertion under the write lock.
PushEvent(t) ==
  /\ held[t] # None
  /\ \E k \in Slots(held[t].priority) : deque' = Inserted(k, held[t])
  /\ held' = [held EXCEPT ![t] = None]
  /\ UNCHANGED <<next_id, decisions>>

Known(id) == \E k \in 1..Len(deque) : deque[k].id = id
Find(id) == CHOOSE k \in 1..Len(deque) : deque[k].id = id

Unsettled(id) == Known(id) /\ deque[Find(id)].status # "AutoResolved"
Decidable(id) == Known(id) /\ deque[Find(id)].status = "Pending"

SetStatus(id, status) == deque' = [deque EXCEPT ![Find(id)].status = status]

\* approve and reject: an error, and no change, unless the event is pending.
Decide(id, status) ==
  /\ Decidable(id)
  /\ SetStatus(id, status)
  /\ decisions' = Append(decisions, [id |-> id, status |-> status])
  /\ UNCHANGED <<next_id, held>>

Approve(id) == Decide(id, "Approved")
Reject(id)  == Decide(id, "Rejected")

\* auto_resolve does not look at the status.
AutoResolve(id) ==
  /\ Known(id)
  /\ SetStatus(id, "AutoResolved")
  /\ UNCHANGED <<next_id, held, decisions>>

-----------------------------------------------------------------------------

Init ==
  /\ deque = <<>> /\ next_id = 1
  /\ held = [t \in Callers |-> None]
  /\ decisions = <<>>

\* Not a step of the program: the bounded run has enqueued its events.
Finished == next_id > MaxEvents /\ (\A t \in Callers : held[t] = None) /\ UNCHANGED queue_vars

Next ==
  \/ \E t \in Callers, case \in Cases : next_id <= MaxEvents /\ TakeId(t, case)
  \/ \E t \in Callers : PushEvent(t)
  \/ \E id \in 1..MaxEvents : Approve(id) \/ Reject(id) \/ AutoResolve(id)
  \/ Finished

Spec == Init /\ [][Next]_queue_vars

-----------------------------------------------------------------------------
(* Properties.                                                             *)

\* The places where the event of an id can be.
Places(id) ==
  {k \in 1..Len(deque) : deque[k].id = id} \cup {t \in Callers : held[t] # None /\ held[t].id = id}

\* Every id given out belongs to exactly one event, in the deque or about to
\* be pushed, and events are never lost: enqueues overlap freely, and resolved
\* events stay (review.rs:100, 125-127 "retained for audit trail").
AuditComplete ==
  \A id \in 1..(next_id - 1) : \E place \in Places(id) : Places(id) = {place}

\* Of all approve and reject calls for an event, at most one succeeds, also
\* when two reviewers answer at once (review.rs:221, 233).
DecidedOnce ==
  \A i, j \in 1..Len(decisions) : decisions[i].id = decisions[j].id => i = j

\* As long as nothing is resolved, the deque is what its reader expects:
\* pending High events, then pending Normal ones (review.rs:171-183).
HighFirst ==
  (\A k \in 1..Len(deque) : deque[k].status = "Pending") =>
    \A i, j \in 1..Len(deque) : i < j /\ deque[i].priority = "Normal" => deque[j].priority = "Normal"

\* A Normal event that is pending has no pending High event behind it
\* (review.rs:179 "Normal priority: append after all pending events").
NormalAfterPending ==
  \A i, j \in 1..Len(deque) :
    /\ i < j
    /\ deque[i].status = "Pending" /\ deque[j].status = "Pending"
    /\ deque[i].priority = "Normal"
    => deque[j].priority = "Normal"
=============================================================================
