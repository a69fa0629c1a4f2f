--------------------------- MODULE KnowledgeBase ---------------------------
(***************************************************************************)
(* What a store of factum-rt promises, whatever its threads, indexes and   *)
(* backend do: a fact is learned once, keeps its content, and goes from    *)
(* Active to Retracted only -- because somebody asked for it, or because   *)
(* it is Derived and one of its own premises is retracted.                 *)
(***************************************************************************)
CONSTANTS Ids, Nodes, None

VARIABLES
  facts,   \* facts[i]: None, or the node of that id with its status
  asked    \* the ids somebody asked to retract

kb_vars == <<facts, asked>>

Believed(i) == facts[i] # None /\ facts[i].status = "Active"
Disbelieved(i) == facts[i] # None /\ facts[i].status = "Retracted"

Start == facts = [i \in Ids |-> None] /\ asked = {}

Ask(i) == asked' = asked \cup {i} /\ UNCHANGED facts

\* All nodes of S become known at once (a RocksDB batch), or one at a time.
Learn(S) ==
  /\ \A n \in S : facts[n.id] = None
  /\ \A n, m \in S : n.id = m.id => n = m
  /\ facts' = [i \in Ids |-> IF \E n \in S : n.id = i
                             THEN [node |-> CHOOSE n \in S : n.id = i, status |-> "Active"]
                             ELSE facts[i]]
  /\ UNCHANGED asked

Justified(i) ==
  \/ i \in asked
  \/ facts[i].node.derived /\ \E d \in facts[i].node.deps : Disbelieved(d)

Withdraw(i) ==
  /\ Believed(i)
  /\ Justified(i)
  /\ facts' = [facts EXCEPT ![i] = [node |-> facts[i].node, status |-> "Retracted"]]
  /\ UNCHANGED asked

KBNext ==
  \/ \E i \in Ids : Ask(i) \/ Withdraw(i)
  \/ \E S \in SUBSET Nodes : Learn(S)

KBSpec == Start /\ [][KBNext]_kb_vars
=============================================================================
