---------------------------- MODULE FactumStore ----------------------------
(***************************************************************************)
(* The store of crates/factum-rt: nodes in a storage backend, the indexes  *)
(* derived from them, the in-memory event log and the subscribers' queues, *)
(* under concurrent insert, insert_batch and retract calls.                *)
(*                                                                         *)
(* The store holds no lock across the steps of a call: every backend call, *)
(* every index update, every log push is a critical section of its own.    *)
(* An action of this module is one such section together with the          *)
(* thread-local computation that follows it.                               *)
(*                                                                         *)
(* Abstractions. A node is a record of what the calls test: its id, deps,  *)
(* whether its provenance is Derived, the index keys build_insert_ops      *)
(* derives from it, its validity window and the verdict of the verifiers.  *)
(* A Vec whose order no property depends on (dependents of a node, index   *)
(* keys, nodes of a batch) is a set, taken in any order.                   *)
(***************************************************************************)
EXTENDS Integers, Sequences, FiniteSets

CONSTANTS
  Ids,         \* node identifiers
  Keys,        \* secondary-index keys (entity, predicate, source, permission)
  Windows,     \* validity windows, the keys of by_validity
  Nodes,       \* the nodes clients may insert
  Threads,     \* concurrent callers
  Subs,        \* subscribers registered before the run
  Watches,     \* Watches[s]: the nodes Subscription::matches accepts for s
  Offers,      \* Offers[t]: the nodes t may pass to insert
  Batches,     \* Batches[t]: the sets of nodes t may pass to insert_batch
  Limits,      \* the max_nodes values passed to retract_with_limit
  Persistent,  \* TRUE: RocksDB backend; FALSE: InMemoryBackend
  MaxCalls,    \* bound on the calls made in a run
  MaxCrashes,  \* bound on process crashes (RocksDB only)
  None         \* no node

NodeType == [id: Ids, deps: SUBSET Ids, derived: BOOLEAN,
             keys: SUBSET Keys, window: Windows, valid: BOOLEAN]

ASSUME NodesAssumption ==
  /\ Nodes \subseteq NodeType
  /\ \A n \in Nodes : n.keys # {}    \* every node has by_pred and by_perm entries
ASSUME ClientsAssumption ==
  /\ Offers \in [Threads -> SUBSET Nodes]
  /\ Batches \in [Threads -> SUBSET (SUBSET Nodes)]
  /\ \A t \in Threads : {} \notin Batches[t]
  /\ Watches \in [Subs -> SUBSET Nodes]
ASSUME BoundsAssumption ==
  /\ Limits \subseteq Nat
  /\ MaxCalls \in Nat /\ MaxCrashes \in Nat
  /\ Persistent \in BOOLEAN
ASSUME NoneAssumption ==
  /\ None \notin Ids /\ None \notin NodeType
  /\ None \notin [node: NodeType, status: {"Active", "Retracted"}]

-----------------------------------------------------------------------------

(***************************************************************************)
(* Right above some definitions stands a second version of it, named after *)
(* a plausible mistake (LogsLast, PastLimit, ...). The specification never *)
(* uses them: they are there to check that the properties notice.          *)
(***************************************************************************)

VARIABLES
  nodes,        \* backend: the stored version of each id, or None
  index,        \* backend: secondary index entries <<key, id>>
  deps_rev,     \* dependents registered for each id
  by_validity,  \* ids registered under each window
  wal,          \* in-memory log of Insert / Retract / Checkpoint entries
  subs,         \* live subscriptions
  events,       \* undelivered events of each subscriber
  view,         \* what each subscriber has concluded from the events it polled
  pc,           \* where each thread is in its call
  ins,          \* locals of insert / insert_batch
  cas,          \* locals of retract_with_limit / retract_recursive
  stack,        \* recursion frames of retract_recursive
  ret,          \* result of each thread's last call
  asked,        \* history: ids some client asked to retract
  forgotten,    \* history: ids a failed rebuild left out of deps_rev and by_validity
  spared,       \* history: ids reported as the root of a retraction with limit 0
  calls, crashes

store_vars  == <<nodes, index, deps_rev, by_validity, forgotten>>
event_vars  == <<subs, events, view, spared>>
local_vars  == <<ins, cas, stack>>
bound_vars  == <<calls, crashes>>
vars == <<store_vars, wal, event_vars, pc, local_vars, ret, asked, bound_vars>>

Status    == {"Active", "Retracted"}
Stored    == [node: Nodes, status: Status]
Active(n) == [node |-> n, status |-> "Active"]
Retracted(n) == [node |-> n, status |-> "Retracted"]

WalEntry == [type: {"Insert", "Retract", "Checkpoint"}, id: Ids \cup {None}]
\* Inserted(node); Retracted(root, cascade) names the root beside the cascade.
Event    == [type: {"Inserted", "Retracted"}, root: Ids, ids: SUBSET Ids]

Steps == {"idle", "check", "log", "put", "index", "next", "deps", "validity",
          "notify", "enter", "mark", "logRetract", "fan", "loop"}

NoInsert  == [op |-> "none", load |-> {}, todo |-> {}, node |-> None,
              keys |-> {}, deps |-> {}]
NoCascade == [root |-> None, limit |-> 0, id |-> None, node |-> None,
              retracted |-> <<>>, truncated |-> FALSE, depth |-> 0]
NoReply   == [op |-> "none", result |-> "none", root |-> None, ids |-> {},
              truncated |-> FALSE, depth |-> 0]

-----------------------------------------------------------------------------
(* Results.                                                                *)

Goto(t, step) == pc' = [pc EXCEPT ![t] = step]

\* A call ends: its locals are dropped and its result is handed to the caller.
Reply(t, reply) ==
  /\ Goto(t, "idle")
  /\ ret' = [ret EXCEPT ![t] = reply]
  /\ ins' = [ins EXCEPT ![t] = NoInsert]
  /\ cas' = [cas EXCEPT ![t] = NoCascade]
  /\ stack' = [stack EXCEPT ![t] = <<>>]

Fail(t, error) ==
  /\ Reply(t, [NoReply EXCEPT !.op = IF cas[t].root = None THEN "insert" ELSE "retract",
                             !.result = error, !.root = cas[t].root])
  /\ UNCHANGED <<store_vars, wal, event_vars, asked, bound_vars>>

\* A backend call returns Err(StorageError); the `?` of the caller propagates it.
StorageFails(t) ==
  /\ Persistent
  /\ pc[t] \in {"check", "put", "enter", "mark", "loop"}
  /\ pc[t] = "check" => \A n \in ins[t].load : n.valid
  /\ pc[t] = "loop" => stack[t] # <<>> /\ stack[t][Len(stack[t])].todo # {}
  /\ pc[t] = "enter" => Len(cas[t].retracted) < cas[t].limit
  /\ Fail(t, "Storage")

-----------------------------------------------------------------------------
(* insert and insert_batch.                                                *)

Call(t, op, load) ==
  /\ pc[t] = "idle" /\ calls < MaxCalls
  /\ calls' = calls + 1
  /\ Goto(t, "check")
  /\ ins' = [ins EXCEPT ![t] = [NoInsert EXCEPT !.op = op, !.load = load, !.todo = load]]
  /\ UNCHANGED <<store_vars, wal, event_vars, cas, stack, ret, asked, crashes>>

CallInsert(t) == \E n \in Offers[t] : Call(t, "insert", {n})

CallBatch(t) == \E S \in Batches[t] : Call(t, "batch", S)

\* The first failing verifier verdict rejects the whole call.
RejectInvalid(t) ==
  /\ pc[t] = "check"
  /\ \E n \in ins[t].load : ~n.valid
  /\ Fail(t, "InvalidNode")

DuplicatesInBatch(load) == {n \in load : \E m \in load \ {n} : m.id = n.id}
Duplicates(load) ==
  {n \in load : nodes[n.id] # None \/ \E m \in load \ {n} : m.id = n.id}

RejectDuplicate(t) ==
  /\ pc[t] = "check"
  /\ \A n \in ins[t].load : n.valid
  /\ Duplicates(ins[t].load) # {}
  /\ Fail(t, "AlreadyExists")

\* insert pushes its log entry before the write, insert_batch after it.
LogsLast(op) == FALSE
LogsFirst(op) == op = "insert"

Admit(t) ==
  /\ pc[t] = "check"
  /\ \A n \in ins[t].load : n.valid
  /\ Duplicates(ins[t].load) = {}
  /\ Goto(t, IF LogsFirst(ins[t].op) THEN "log" ELSE "put")
  /\ IF ins[t].op = "insert"
     THEN \E n \in ins[t].load : ins' = [ins EXCEPT ![t].node = n]
     ELSE UNCHANGED ins
  /\ UNCHANGED <<store_vars, wal, event_vars, cas, stack, ret, asked, bound_vars>>

LogInsert(t) ==
  /\ pc[t] = "log"
  /\ wal' = Append(wal, [type |-> "Insert", id |-> ins[t].node.id])
  /\ Goto(t, IF LogsFirst(ins[t].op) THEN "put" ELSE "notify")
  /\ UNCHANGED <<store_vars, event_vars, local_vars, ret, asked, bound_vars>>

\* InMemoryBackend::batch_write executes the operations one by one:
\* a node becomes visible before its index entries and before the other nodes.
PutNode(t) ==
  /\ pc[t] = "put" /\ ~Persistent
  /\ \E n \in ins[t].todo :
       /\ nodes' = [nodes EXCEPT ![n.id] = Active(n)]
       /\ ins' = [ins EXCEPT ![t].todo = @ \ {n}, ![t].node = n, ![t].keys = n.keys]
  /\ Goto(t, "index")
  /\ UNCHANGED <<index, deps_rev, by_validity, forgotten, wal, event_vars, cas, stack, ret, asked, bound_vars>>

\* After the last operation of the batch the loop over the nodes starts anew,
\* to update the in-memory indexes and to notify.
PutIndex(t) ==
  /\ pc[t] = "index"
  /\ \E k \in ins[t].keys :
       LET rest == ins[t].keys \ {k} IN
       /\ index' = index \cup {<<k, ins[t].node.id>>}
       /\ IF rest = {} /\ ins[t].todo = {}
          THEN /\ ins' = [ins EXCEPT ![t].keys = rest, ![t].todo = ins[t].load]
               /\ Goto(t, "next")
          ELSE /\ ins' = [ins EXCEPT ![t].keys = rest]
               /\ Goto(t, IF rest = {} THEN "put" ELSE "index")
  /\ UNCHANGED <<nodes, deps_rev, by_validity, forgotten, wal, event_vars, cas, stack, ret, asked, bound_vars>>

\* The index entries build_insert_ops makes of a node.
IndexEntries(n) == n.keys \X {n.id}

\* RocksDB writes nodes and index entries in one WriteBatch.
WriteBatch(t) ==
  /\ pc[t] = "put" /\ Persistent
  /\ nodes' = [i \in Ids |-> IF \E n \in ins[t].load : n.id = i
                             THEN Active(CHOOSE n \in ins[t].load : n.id = i)
                             ELSE nodes[i]]
  /\ index' = index \cup UNION {IndexEntries(n) : n \in ins[t].load}
  /\ ins' = [ins EXCEPT ![t].todo = ins[t].load]
  /\ Goto(t, "next")
  /\ UNCHANGED <<deps_rev, by_validity, forgotten, wal, event_vars, cas, stack, ret, asked, bound_vars>>

NextNode(t) ==
  /\ pc[t] = "next"
  /\ \E n \in ins[t].todo :
       /\ ins' = [ins EXCEPT ![t].todo = @ \ {n}, ![t].node = n, ![t].deps = n.deps]
       /\ Goto(t, IF n.deps = {} THEN "validity" ELSE "deps")
  /\ UNCHANGED <<store_vars, wal, event_vars, cas, stack, ret, asked, bound_vars>>

RegisteredBackwards(id, d) == [deps_rev EXCEPT ![id] = @ \cup {d}]
Registered(id, d) == [deps_rev EXCEPT ![d] = @ \cup {id}]

\* update_deps_rev takes the write lock once per dependency.
RegisterDep(t) ==
  /\ pc[t] = "deps"
  /\ \E d \in ins[t].deps :
       /\ deps_rev' = Registered(ins[t].node.id, d)
       /\ ins' = [ins EXCEPT ![t].deps = @ \ {d}]
       /\ Goto(t, IF ins[t].deps = {d} THEN "validity" ELSE "deps")
  /\ UNCHANGED <<nodes, index, by_validity, forgotten, wal, event_vars, cas, stack, ret, asked, bound_vars>>

RegisterValidity(t) ==
  /\ pc[t] = "validity"
  /\ by_validity' = [by_validity EXCEPT ![ins[t].node.window] = @ \cup {ins[t].node.id}]
  /\ Goto(t, IF LogsFirst(ins[t].op) THEN "notify" ELSE "log")
  /\ UNCHANGED <<nodes, index, deps_rev, forgotten, wal, event_vars, local_vars, ret, asked, bound_vars>>

Push(receivers, event) ==
  events' = [s \in Subs |-> IF s \in receivers THEN Append(events[s], event) ELSE events[s]]

NotifyInsert(t) ==
  /\ pc[t] = "notify"
  /\ Push({s \in subs : ins[t].node \in Watches[s]},
          [type |-> "Inserted", root |-> ins[t].node.id, ids |-> {ins[t].node.id}])
  /\ Goto(t, "next")
  /\ UNCHANGED <<store_vars, wal, subs, view, spared, local_vars, ret, asked, bound_vars>>

InsertDone(t) ==
  /\ pc[t] = "next" /\ ins[t].todo = {}
  /\ wal' = IF ins[t].op = "batch"
            THEN Append(wal, [type |-> "Checkpoint", id |-> None]) ELSE wal
  /\ Reply(t, [NoReply EXCEPT !.op = "insert", !.result = "Ok",
                             !.ids = {n.id : n \in ins[t].load}])
  /\ UNCHANGED <<store_vars, event_vars, asked, bound_vars>>

-----------------------------------------------------------------------------
(* retract_with_limit and retract_recursive.                               *)

StartRetract(t, root, limit) ==
  /\ pc[t] = "idle" /\ calls < MaxCalls
  /\ cas' = [cas EXCEPT ![t] = [NoCascade EXCEPT !.root = root, !.limit = limit, !.id = root]]
  /\ asked' = asked \cup {root}
  /\ calls' = calls + 1
  /\ Goto(t, "enter")
  /\ UNCHANGED <<store_vars, wal, event_vars, ins, stack, ret, crashes>>

CallRetract(t) == \E root \in Ids, limit \in Limits : StartRetract(t, root, limit)

PastLimit(t) == Len(cas[t].retracted) > cas[t].limit
AtLimit(t) == Len(cas[t].retracted) >= cas[t].limit

LevelBelow(t) == Len(stack[t]) - 1
Deeper(t) == IF Len(stack[t]) > cas[t].depth THEN Len(stack[t]) ELSE cas[t].depth

\* The node count limit, checked on entry of every activation.
EnterAtLimit(t) ==
  /\ pc[t] = "enter" /\ AtLimit(t)
  /\ cas' = [cas EXCEPT ![t].truncated = TRUE]
  /\ Goto(t, "loop")
  /\ UNCHANGED <<store_vars, wal, event_vars, ins, stack, ret, asked, bound_vars>>

EnterMissing(t) ==
  /\ pc[t] = "enter" /\ ~AtLimit(t)
  /\ nodes[cas[t].id] = None
  /\ Fail(t, "NotFound")

\* Already retracted: return without cascading ("prevents cycles").
EnterRetracted(t) ==
  /\ pc[t] = "enter" /\ ~AtLimit(t)
  /\ nodes[cas[t].id] # None /\ nodes[cas[t].id].status = "Retracted"
  /\ cas' = [cas EXCEPT ![t].depth = Deeper(t)]
  /\ Goto(t, "loop")
  /\ UNCHANGED <<store_vars, wal, event_vars, ins, stack, ret, asked, bound_vars>>

EnterActive(t) ==
  /\ pc[t] = "enter" /\ ~AtLimit(t)
  /\ nodes[cas[t].id] # None /\ nodes[cas[t].id].status = "Active"
  /\ cas' = [cas EXCEPT ![t].depth = Deeper(t), ![t].node = nodes[cas[t].id].node]
  /\ Goto(t, "mark")
  /\ UNCHANGED <<store_vars, wal, event_vars, ins, stack, ret, asked, bound_vars>>

\* put_node of the copy read by EnterActive, with its status changed.
MarkRetracted(t) ==
  /\ pc[t] = "mark"
  /\ nodes' = [nodes EXCEPT ![cas[t].id] = Retracted(cas[t].node)]
  /\ Goto(t, "logRetract")
  /\ UNCHANGED <<index, deps_rev, by_validity, forgotten, wal, event_vars, local_vars, ret, asked, bound_vars>>

RootEntry(t) == [type |-> "Retract", id |-> cas[t].root]
RetractEntry(t) == [type |-> "Retract", id |-> cas[t].id]

LogRetract(t) ==
  /\ pc[t] = "logRetract"
  /\ wal' = Append(wal, RetractEntry(t))
  /\ cas' = [cas EXCEPT ![t].retracted = Append(@, cas[t].id)]
  /\ Goto(t, "fan")
  /\ UNCHANGED <<store_vars, event_vars, ins, stack, ret, asked, bound_vars>>

\* The dependents are copied out of deps_rev under its read lock.
FanOut(t) ==
  /\ pc[t] = "fan"
  /\ stack' = [stack EXCEPT ![t] = Append(@, [id |-> cas[t].id, todo |-> deps_rev[cas[t].id]])]
  /\ Goto(t, "loop")
  /\ UNCHANGED <<store_vars, wal, event_vars, ins, cas, ret, asked, bound_vars>>

Top(t) == stack[t][Len(stack[t])]

SetTodo(t, ids) == stack' = [stack EXCEPT ![t] = [@ EXCEPT ![Len(@)].todo = ids]]

FollowsAnything(d) == nodes[d] # None /\ nodes[d].status = "Active"
\* Only Derived nodes that are still Active are retracted with what they depend on.
Follows(d) == nodes[d] # None /\ nodes[d].node.derived /\ nodes[d].status = "Active"

Looping(t) == pc[t] = "loop" /\ stack[t] # <<>>

SkipDependent(t) ==
  /\ Looping(t)
  /\ \E d \in Top(t).todo : ~Follows(d) /\ SetTodo(t, Top(t).todo \ {d})
  /\ UNCHANGED <<store_vars, wal, event_vars, pc, ins, cas, ret, asked, bound_vars>>

TruncateSilently(t) ==
  /\ Looping(t) /\ AtLimit(t)
  /\ \E d \in Top(t).todo : Follows(d)
  /\ SetTodo(t, {})
  /\ UNCHANGED <<store_vars, wal, event_vars, pc, ins, cas, ret, asked, bound_vars>>

\* `break`: the remaining dependents of this node are left alone.
Truncate(t) ==
  /\ Looping(t) /\ AtLimit(t)
  /\ \E d \in Top(t).todo : Follows(d)
  /\ cas' = [cas EXCEPT ![t].truncated = TRUE]
  /\ SetTodo(t, {})
  /\ UNCHANGED <<store_vars, wal, event_vars, pc, ins, ret, asked, bound_vars>>

Recurse(t) ==
  /\ Looping(t) /\ ~AtLimit(t)
  /\ \E d \in Top(t).todo :
       /\ Follows(d)
       /\ SetTodo(t, Top(t).todo \ {d})
       /\ cas' = [cas EXCEPT ![t].id = d]
  /\ Goto(t, "enter")
  /\ UNCHANGED <<store_vars, wal, event_vars, ins, ret, asked, bound_vars>>

ScannedAgain(t) == [stack[t] EXCEPT ![Len(stack[t])].todo = deps_rev[Top(t).id]]
Popped(t) == SubSeq(stack[t], 1, Len(stack[t]) - 1)

ReturnFromFrame(t) ==
  /\ Looping(t) /\ Top(t).todo = {}
  /\ stack' = [stack EXCEPT ![t] = Popped(t)]
  /\ UNCHANGED <<store_vars, wal, event_vars, pc, ins, cas, ret, asked, bound_vars>>

RangeOf(s) == {s[i] : i \in 1..Len(s)}

RootOnly(t) == [type |-> "Retracted", root |-> cas[t].root, ids |-> {}]
RetractEvent(t) ==
  [type |-> "Retracted", root |-> cas[t].root, ids |-> RangeOf(cas[t].retracted)]

\* Every subscriber is told, whatever it watches and whether or not anything was
\* retracted; then the call returns.
NotifyRetract(t) ==
  /\ pc[t] = "loop" /\ stack[t] = <<>>
  /\ Push(subs, RetractEvent(t))
  /\ spared' = IF cas[t].limit = 0 THEN spared \cup {cas[t].root} ELSE spared
  /\ Reply(t, [op |-> "retract", result |-> "Ok", root |-> cas[t].root,
               ids |-> RangeOf(cas[t].retracted), truncated |-> cas[t].truncated,
               depth |-> cas[t].depth])
  /\ UNCHANGED <<store_vars, wal, subs, view, asked, bound_vars>>

-----------------------------------------------------------------------------
(* Subscribers, and the process itself.                                    *)

\* An event says of its root and of every id of its list that it was inserted or retracted.
Named(event) == {event.root} \cup event.ids

\* A subscriber drains its queue and applies the events in order.
Believe(belief, queue) ==
  [i \in Ids |->
     LET about == {k \in 1..Len(queue) : i \in Named(queue[k])} IN
     IF about = {} THEN belief[i]
     ELSE LET last == CHOOSE k \in about : \A j \in about : j <= k IN
          IF queue[last].type = "Inserted" THEN "Active" ELSE "Retracted"]

Poll(s) ==
  /\ events[s] # <<>>
  /\ view' = [view EXCEPT ![s] = Believe(@, events[s])]
  /\ events' = [events EXCEPT ![s] = <<>>]
  /\ UNCHANGED <<store_vars, wal, subs, spared, pc, local_vars, ret, asked, bound_vars>>

\* rebuild_indices: both in-memory indexes are functions of the stored nodes.
ActiveDependentsOf(d) ==
  {i \in Ids : nodes[i] # None /\ nodes[i].status = "Active" /\ d \in nodes[i].node.deps}
DependentsOf(d) == {i \in Ids : nodes[i] # None /\ d \in nodes[i].node.deps}

ValidIn(w) == {i \in Ids : nodes[i] # None /\ nodes[i].node.window = w}

Rebuild ==
  /\ deps_rev' = [d \in Ids |-> DependentsOf(d)]
  /\ by_validity' = [w \in Windows |-> ValidIn(w)]
  /\ forgotten' = {}

StoredIds == {i \in Ids : nodes[i] # None}

\* iter_nodes fails: rebuild_indices returns, with the indexes as empty as they were
\* created, and nobody is told.
RebuildFails ==
  /\ deps_rev' = [d \in Ids |-> {}]
  /\ by_validity' = [w \in Windows |-> {}]
  /\ forgotten' = StoredIds

\* The process dies and is started again on the same database: calls in
\* flight, the log and the subscriptions are gone.
Crash ==
  /\ Persistent /\ crashes < MaxCrashes
  /\ crashes' = crashes + 1
  /\ Rebuild \/ RebuildFails
  /\ wal' = <<>>
  /\ subs' = {}
  /\ events' = [s \in Subs |-> <<>>]
  /\ pc' = [t \in Threads |-> "idle"]
  /\ ins' = [t \in Threads |-> NoInsert]
  /\ cas' = [t \in Threads |-> NoCascade]
  /\ stack' = [t \in Threads |-> <<>>]
  /\ ret' = [t \in Threads |-> NoReply]
  /\ UNCHANGED <<nodes, index, view, spared, asked, calls>>

-----------------------------------------------------------------------------

Init ==
  /\ nodes = [i \in Ids |-> None]
  /\ index = {}
  /\ deps_rev = [d \in Ids |-> {}]
  /\ by_validity = [w \in Windows |-> {}]
  /\ wal = <<>>
  /\ subs = Subs
  /\ events = [s \in Subs |-> <<>>]
  /\ view = [s \in Subs |-> [i \in Ids |-> "Absent"]]
  /\ pc = [t \in Threads |-> "idle"]
  /\ ins = [t \in Threads |-> NoInsert]
  /\ cas = [t \in Threads |-> NoCascade]
  /\ stack = [t \in Threads |-> <<>>]
  /\ ret = [t \in Threads |-> NoReply]
  /\ asked = {} /\ forgotten = {} /\ spared = {}
  /\ calls = 0 /\ crashes = 0

InsertStep(t) ==
  \/ RejectInvalid(t) \/ RejectDuplicate(t) \/ Admit(t) \/ LogInsert(t)
  \/ PutNode(t) \/ PutIndex(t) \/ WriteBatch(t) \/ NextNode(t)
  \/ RegisterDep(t) \/ RegisterValidity(t) \/ NotifyInsert(t) \/ InsertDone(t)

RetractStep(t) ==
  \/ EnterAtLimit(t) \/ EnterMissing(t) \/ EnterRetracted(t) \/ EnterActive(t)
  \/ MarkRetracted(t) \/ LogRetract(t) \/ FanOut(t)
  \/ SkipDependent(t) \/ Truncate(t) \/ Recurse(t) \/ ReturnFromFrame(t)
  \/ NotifyRetract(t)

\* The steps a thread takes by itself once it has been called.
StoreStep(t) == InsertStep(t) \/ RetractStep(t) \/ StorageFails(t)

ClientCall(t) == CallInsert(t) \/ CallBatch(t) \/ CallRetract(t)

AllIdle == \A t \in Threads : pc[t] = "idle"

\* Not a step of the program: the bounded run has made its calls.
Finished == AllIdle /\ calls = MaxCalls /\ UNCHANGED vars

Next ==
  \/ \E t \in Threads : ClientCall(t) \/ StoreStep(t)
  \/ \E s \in Subs : Poll(s)
  \/ Crash
  \/ Finished

Spec == Init /\ [][Next]_vars
=============================================================================
