---------------------------- MODULE QueryEngine ----------------------------
(***************************************************************************)
(* Queries (factum-rt/src/query.rs, permission.rs; the look-ups of         *)
(* store.rs; the tool factum_query of handler.rs) against a store that     *)
(* other clients go on writing. The store is KnowledgeBase, which          *)
(* FactumStore implements; `listed` adds what that hides and a query sees: *)
(* a node is in the indexes only some time after it is stored.             *)
(*                                                                         *)
(* `Bound(pattern, predicate)` says whether match_pattern accepts; module  *)
(* TermMatching defines it. Confidence and roles are abstract: sets of bits,   *)
(* integers.                                                               *)
(***************************************************************************)
EXTENDS Arbitration, KnowledgeBase

CONSTANTS
  Clients,      \* one thread per client
  Bound(_, _),  \* pattern, predicate: do they match
  Mentions(_, _), \* predicate, entity: how often the one names the other
  Batches,      \* the sets of nodes that are stored in one step
  Openings,     \* the stores the server may be started on: [facts, asked, listed]
  Queries,      \* the calls of the library: [pattern, entity, policy, now, minConf, roles]
  ToolQueries,  \* the requests of factum_query: [query, policy, weights, asOf, minConf]
  Now, Public,  \* the time of the run, the bits of PermissionContext::public
  MaxQueries,   \* queries per client
  MaxErrors     \* read errors of the backend per query

VARIABLES
  listed,   \* ids that have their entries in the secondary indexes
  pc,       \* pc[c]: "idle", "scan", "fetch"
  call,     \* call[c]: Query and QueryOptions of c's call
  todo,     \* todo[c]: index entries still to resolve
  got,      \* got[c]: the active nodes read so far (Arc clones)
  reply,    \* reply[c]: the last ResultSet
  asking,   \* asking[c]: number of queries c made
  errors,   \* errors[c]: read errors during c's call, which the code swallows
  before    \* before[c]: history, facts and listed when c's call began

engine == <<pc, call, todo, got, reply, asking, errors, before>>
vars == <<facts, asked, listed, engine>>

Known(i) == facts[i] # None
NoReply == [results |-> {}, ambiguous |-> FALSE]
Statuses == {"Active", "Retracted"}

QueryAssumption ==
  /\ None \notin [node : Nodes, status : Statuses]
  /\ \A n \in Nodes : n.id \in Ids /\ n.auth \in Int
  /\ Batches \subseteq SUBSET Nodes
  /\ \A o \in Openings :
       /\ o.facts \in [Ids -> [node : Nodes, status : Statuses] \cup {None}]
       /\ o.asked \subseteq Ids
       /\ o.listed \subseteq {i \in Ids : o.facts[i] # None}
       /\ \A i \in Ids : o.facts[i] # None => o.facts[i].node.id = i
  /\ \A q \in Queries, n \in Nodes : Mentions(n.pred, q.entity) \in Nat
  /\ \A q \in Queries : q.policy.kind \in PolicyKinds
  /\ MaxQueries \in Nat /\ MaxErrors \in Nat
ASSUME QueryAssumption

-----------------------------------------------------------------------------
(* What a call asks.                                                       *)

\* The policy string of factum_query; anything else is LatestWins.
PolicyOf(p) ==
  CASE p.policy = "authority" -> [kind |-> "HighestAuthority"]
    [] p.policy = "unanimous" -> [kind |-> "Unanimous"]
    [] p.policy = "weighted"  -> [kind |-> "WeightedVote", weights |-> p.weights]
    [] OTHER                  -> [kind |-> "LatestWins"]

\* factum_query sets no entity filter and asks with public permission.
ToolCall(p) ==
  [pattern |-> p.query, entity |-> None, policy |-> PolicyOf(p),
   now |-> IF p.asOf = None THEN Now ELSE p.asOf,
   minConf |-> IF p.minConf = None THEN 0 ELSE p.minConf, roles |-> Public]

\* The index entries a look-up finds. The in-memory entity index lists a node
\* once per mention of the entity.
Entries(q) ==
  IF q.entity # None
  THEN UNION {{i} \X (1..Mentions(facts[i].node.pred, q.entity)) : i \in listed}
  ELSE {i \in listed : facts[i].node.head = q.pattern.head} \X {1}

-----------------------------------------------------------------------------
(* The filters between look-up and arbitration.                            *)

Grants(n, roles) == n.perm \cap roles # {}

ValidAt(n, t) == n.from = Forever \/ (n.from <= t /\ (n.until = None \/ t < n.until))

\* is_active_valid_at also tests the status, of the immutable Arc for which
\* resolve_nodes has tested it: `got` holds active nodes only.
EligibleUnseen(n, q) == ValidAt(n, q.now) /\ n.conf >= q.minConf
Eligible(n, q) == Grants(n, q.roles) /\ ValidAt(n, q.now) /\ n.conf >= q.minConf

\* They keep their places: the order is that of the look-up.
Matches(nodes, q) ==
  RestrictValues(nodes, LAMBDA n : Eligible(n, q) /\ Bound(q.pattern, n.pred))

-----------------------------------------------------------------------------
(* A query: one lock for the scan, one per node, the rest is local.        *)

Begin(c, q) ==
  /\ pc[c] = "idle" /\ asking[c] < MaxQueries
  /\ pc' = [pc EXCEPT ![c] = "scan"]
  /\ call' = [call EXCEPT ![c] = q]
  /\ got' = [got EXCEPT ![c] = <<>>]
  /\ reply' = [reply EXCEPT ![c] = NoReply]
  /\ asking' = [asking EXCEPT ![c] = @ + 1]
  /\ errors' = [errors EXCEPT ![c] = 0]
  /\ before' = [before EXCEPT ![c] = [facts |-> facts, listed |-> listed]]
  /\ UNCHANGED <<facts, asked, listed, todo>>

Query(c) == \E q \in Queries : Begin(c, q)
ToolQuery(c) == \E p \in ToolQueries : Begin(c, ToolCall(p))

Scan(c) ==
  /\ pc[c] = "scan"
  /\ todo' = [todo EXCEPT ![c] = Entries(call[c])]
  /\ pc' = [pc EXCEPT ![c] = "fetch"]
  /\ UNCHANGED <<facts, asked, listed, call, got, reply, asking, errors, before>>

\* resolve_nodes keeps the node if it is active.
ResolvedAny(i) == IF Known(i) THEN <<facts[i].node>> ELSE <<>>
Resolved(i) == IF Believed(i) THEN <<facts[i].node>> ELSE <<>>

\* The entries come in the order of a hash map.
Fetch(c) ==
  /\ pc[c] = "fetch"
  /\ \E e \in todo[c] :
       /\ todo' = [todo EXCEPT ![c] = @ \ {e}]
       /\ got' = [got EXCEPT ![c] = @ \o Resolved(e[1])]
  /\ UNCHANGED <<facts, asked, listed, pc, call, reply, asking, errors, before>>

\* An error of the backend reads as "nothing there": unwrap_or_default, ok().
MayFail(c) == errors[c] < MaxErrors /\ errors' = [errors EXCEPT ![c] = @ + 1]

ScanFails(c) ==
  /\ pc[c] = "scan" /\ MayFail(c)
  /\ todo' = [todo EXCEPT ![c] = {}]
  /\ pc' = [pc EXCEPT ![c] = "fetch"]
  /\ UNCHANGED <<facts, asked, listed, call, got, reply, asking, before>>

FetchFails(c) ==
  /\ pc[c] = "fetch" /\ MayFail(c)
  /\ \E e \in todo[c] : todo' = [todo EXCEPT ![c] = @ \ {e}]
  /\ UNCHANGED <<facts, asked, listed, pc, call, got, reply, asking, before>>

Answer(c) ==
  /\ pc[c] = "fetch" /\ todo[c] = {}
  /\ LET m == Matches(got[c], call[c])
     IN \E o \in Outcomes(m, call[c].policy) :
          reply' = [reply EXCEPT ![c] = [results |-> {m[k] : k \in o.results},
                                         ambiguous |-> o.ambiguous]]
  /\ pc' = [pc EXCEPT ![c] = "idle"]
  /\ UNCHANGED <<facts, asked, listed, call, todo, got, asking, errors, before>>

-----------------------------------------------------------------------------
(* Everybody else's writes, and the whole. Which retractions are asked for *)
(* is settled by the opening; when they happen is not.                     *)

StoreStep ==
  /\ (\E S \in Batches : Learn(S)) \/ (\E i \in Ids : Withdraw(i))
  /\ UNCHANGED <<listed, engine>>

Publish ==
  /\ \E i \in Ids \ listed : Known(i) /\ listed' = listed \cup {i}
  /\ UNCHANGED <<facts, asked, engine>>

Finished ==
  /\ \A c \in Clients : pc[c] = "idle" /\ asking[c] = MaxQueries
  /\ UNCHANGED vars

Init ==
  /\ \E o \in Openings : facts = o.facts /\ asked = o.asked /\ listed = o.listed
  /\ pc = [c \in Clients |-> "idle"]
  /\ call = [c \in Clients |-> None]
  /\ todo = [c \in Clients |-> {}]
  /\ got = [c \in Clients |-> <<>>]
  /\ reply = [c \in Clients |-> NoReply]
  /\ asking = [c \in Clients |-> 0]
  /\ errors = [c \in Clients |-> 0]
  /\ before = [c \in Clients |-> [facts |-> facts, listed |-> listed]]

Next ==
  \/ StoreStep \/ Publish \/ Finished
  \/ \E c \in Clients : \/ Query(c) \/ ToolQuery(c) \/ Scan(c) \/ ScanFails(c)
                        \/ Fetch(c) \/ FetchFails(c) \/ Answer(c)

Spec == Init /\ [][Next]_vars
=============================================================================
