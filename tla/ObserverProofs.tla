--------------------------- MODULE ObserverProofs ---------------------------
(***************************************************************************)
(* Proofs of what the store tells its observers: the log what a replay     *)
(* makes of it, the subscribers the status of what they watch, the caller  *)
(* of a retraction whether the cascade was cut short and that its root is  *)
(* retracted.                                                              *)
(***************************************************************************)
EXTENDS StoreProofs, FiniteSetTheorems

OneClient == \A t, u \in Threads : t = u

CascadeSteps == {"enter", "mark", "logRetract", "fan", "loop"}

\* The node t works on is one of its call, not one still to do, and insert
\* works on a single node.
LoadInv(t) ==
  /\ pc[t] \in {"index", "deps", "validity", "notify"} => ins[t].node \in ins[t].load
  /\ pc[t] = "log" => ins[t].node \in ins[t].load
  /\ pc[t] \in {"index", "deps", "validity", "notify"} => ins[t].node \notin ins[t].todo
  /\ pc[t] = "log" /\ ins[t].op = "batch" => ins[t].node \notin ins[t].todo
  /\ pc[t] \in InsertSteps /\ ins[t].op = "insert" =>
       /\ \A n, m \in ins[t].load : n = m
       /\ pc[t] = "put" => ins[t].node \in ins[t].load
       /\ pc[t] \in {"check", "log", "put"} => ins[t].todo = ins[t].load
       /\ pc[t] = "index" => ins[t].todo = {}
  /\ pc[t] \in InsertSteps /\ ins[t].op = "batch" =>
       Batches[t] # {} /\ (pc[t] = "check" => ins[t].todo = ins[t].load)

-----------------------------------------------------------------------------
(* What the steps of insert do to the locals of the call.                  *)

SameLoad(t) == ins'[t].op = ins[t].op /\ ins'[t].load = ins[t].load
TakesNode(t) ==
  /\ SameLoad(t) /\ ins'[t].node \in ins[t].todo
  /\ ins'[t].todo = ins[t].todo \ {ins'[t].node}

Begins(t) ==
  /\ pc[t] = "idle" /\ pc'[t] = "check" /\ ins'[t].todo = ins'[t].load
  /\ \/ ins'[t].op = "insert" /\ \A n, m \in ins'[t].load : n = m
     \/ ins'[t].op = "batch" /\ Batches[t] # {}
Ends(t) ==
  /\ pc[t] = "check" \/ (pc[t] = "next" /\ ins[t].todo = {})
  /\ pc'[t] = "idle"
Passes(t) ==
  /\ pc[t] = "check" /\ SameLoad(t) /\ ins'[t].todo = ins[t].todo
  /\ IF ins[t].op = "insert" THEN pc'[t] = "log" /\ ins'[t].node \in ins[t].load
     ELSE pc'[t] = "put"
Logs(t) ==
  /\ pc[t] = "log" /\ ins'[t] = ins[t]
  /\ pc'[t] = IF ins[t].op = "insert" THEN "put" ELSE "notify"
Puts(t) == pc[t] = "put" /\ pc'[t] = "index" /\ TakesNode(t)
Indexes(t) ==
  /\ pc[t] = "index" /\ SameLoad(t) /\ ins'[t].node = ins[t].node
  /\ \/ pc'[t] = "next" /\ ins[t].todo = {} /\ ins'[t].todo = ins[t].load
     \/ pc'[t] = "put" /\ ins[t].todo # {} /\ ins'[t].todo = ins[t].todo
     \/ pc'[t] = "index" /\ ins'[t].todo = ins[t].todo
Visits(t) == pc[t] = "next" /\ pc'[t] \in {"deps", "validity"} /\ TakesNode(t)
Registers(t) ==
  /\ SameLoad(t) /\ ins'[t].node = ins[t].node /\ ins'[t].todo = ins[t].todo
  /\ \/ pc[t] = "deps" /\ pc'[t] \in {"deps", "validity"}
     \/ pc[t] = "validity" /\ pc'[t] = IF ins[t].op = "insert" THEN "notify" ELSE "log"
Notifies(t) == pc[t] = "notify" /\ pc'[t] = "next" /\ ins'[t] = ins[t]

Moves(t) ==
  \/ Begins(t) \/ Ends(t) \/ Passes(t)
  \/ LogInsert(t) /\ Logs(t)
  \/ PutNode(t) /\ Puts(t)
  \/ Indexes(t) \/ Visits(t) \/ Registers(t)
  \/ NotifyInsert(t) /\ Notifies(t)

LEMMA InsertMoves ==
  ASSUME NEW t \in Threads, TypeOK, ~Persistent, CallInsert(t) \/ CallBatch(t) \/ InsertStep(t)
  PROVE  Moves(t)
<1> USE DEF Goto, local_vars, SameLoad, TakesNode
<1>0. /\ ins[t] \in InsertLocals /\ ins \in [Threads -> InsertLocals]
      /\ pc \in [Threads -> Steps]
  BY DEF TypeOK
<1>1. CASE CallInsert(t) \/ CallBatch(t)
  <2>1. ASSUME NEW op, NEW load, Call(t, op, load)
        PROVE  /\ pc[t] = "idle" /\ pc'[t] = "check"
               /\ ins'[t].op = op /\ ins'[t].load = load /\ ins'[t].todo = load
    BY <1>0, <2>1 DEF Call, NoInsert
  <2>2. CASE CallInsert(t)
    <3>1. PICK n \in Offers[t] : Call(t, "insert", {n})
      BY <2>2 DEF CallInsert
    <3> QED BY <2>1, <3>1 DEF Moves, Begins
  <2>3. CASE CallBatch(t)
    <3>1. PICK S \in Batches[t] : Call(t, "batch", S)
      BY <2>3 DEF CallBatch
    <3> QED BY <2>1, <3>1 DEF Moves, Begins
  <2> QED BY <1>1, <2>2, <2>3
<1>2. CASE RejectInvalid(t) \/ RejectDuplicate(t) \/ InsertDone(t)
  BY <1>0, <1>2 DEF RejectInvalid, RejectDuplicate, InsertDone, Fail, Reply, Moves, Ends
<1>3. CASE Admit(t)
  BY <1>0, <1>3 DEF Admit, LogsFirst, InsertLocals, Moves, Passes
<1>4. CASE LogInsert(t)
  <2>1. Logs(t)
    BY <1>0, <1>4 DEF LogInsert, LogsFirst, Logs
  <2> QED BY <1>4, <2>1 DEF Moves
<1>5. CASE PutNode(t)
  <2>1. PICK n \in ins[t].todo :
          ins' = [ins EXCEPT ![t].todo = @ \ {n}, ![t].node = n, ![t].keys = n.keys]
    BY <1>5 DEF PutNode
  <2>2. Puts(t)
    BY <1>0, <1>5, <2>1 DEF PutNode, InsertLocals, Puts
  <2> QED BY <1>5, <2>2 DEF Moves
<1>6. CASE PutIndex(t)
  <2>1. PICK k \in ins[t].keys :
          LET rest == ins[t].keys \ {k} IN
          IF rest = {} /\ ins[t].todo = {}
          THEN /\ ins' = [ins EXCEPT ![t].keys = rest, ![t].todo = ins[t].load]
               /\ Goto(t, "next")
          ELSE /\ ins' = [ins EXCEPT ![t].keys = rest]
               /\ Goto(t, IF rest = {} THEN "put" ELSE "index")
    BY <1>6 DEF PutIndex
  <2> QED BY <1>0, <1>6, <2>1 DEF PutIndex, InsertLocals, Moves, Indexes
<1>7. CASE WriteBatch(t)
  BY <1>7 DEF WriteBatch
<1>8. CASE NextNode(t)
  <2>1. PICK n \in ins[t].todo :
          /\ ins' = [ins EXCEPT ![t].todo = @ \ {n}, ![t].node = n, ![t].deps = n.deps]
          /\ pc'[t] \in {"validity", "deps"}
    BY <1>0, <1>8 DEF NextNode
  <2>2. Visits(t)
    BY <1>0, <1>8, <2>1 DEF NextNode, InsertLocals, Visits
  <2> QED BY <2>2 DEF Moves
<1>9. CASE RegisterDep(t)
  <2>1. PICK d \in ins[t].deps : ins' = [ins EXCEPT ![t].deps = @ \ {d}]
    BY <1>9 DEF RegisterDep
  <2>2. pc[t] = "deps" /\ pc'[t] \in {"validity", "deps"}
    BY <1>0, <1>9 DEF RegisterDep
  <2>3. Registers(t)
    BY <1>0, <2>1, <2>2 DEF InsertLocals, Registers
  <2> QED BY <2>3 DEF Moves
<1>10. CASE RegisterValidity(t)
  <2>1. Registers(t)
    BY <1>0, <1>10 DEF RegisterValidity, LogsFirst, Registers
  <2> QED BY <2>1 DEF Moves
<1>11. CASE NotifyInsert(t)
  <2>1. Notifies(t)
    BY <1>0, <1>11 DEF NotifyInsert, Notifies
  <2> QED BY <1>11, <2>1 DEF Moves
<1> QED BY <1>1, <1>2, <1>3, <1>4, <1>5, <1>6, <1>7, <1>8, <1>9, <1>10, <1>11 DEF InsertStep

\* A retraction stays outside the steps of insert.
LEMMA RetractMoves ==
  ASSUME NEW t \in Threads, TypeOK, CallRetract(t) \/ RetractStep(t)
  PROVE  /\ pc[t] \in CascadeSteps \cup {"idle"} /\ pc'[t] \in CascadeSteps \cup {"idle"}
         /\ pc'[t] = "logRetract" => MarkRetracted(t)
         /\ pc[t] = "logRetract" => LogRetract(t)
<1> USE DEF CascadeSteps, TypeOK, Goto, Reply, Fail
<1>1. CASE CallRetract(t)
  BY <1>1 DEF CallRetract, StartRetract
<1>2. CASE EnterAtLimit(t) \/ EnterMissing(t) \/ EnterRetracted(t) \/ EnterActive(t)
  BY <1>2 DEF EnterAtLimit, EnterMissing, EnterRetracted, EnterActive
<1>3. CASE MarkRetracted(t) \/ LogRetract(t) \/ FanOut(t) \/ NotifyRetract(t)
  BY <1>3 DEF MarkRetracted, LogRetract, FanOut, NotifyRetract
<1>4. CASE SkipDependent(t) \/ Truncate(t) \/ Recurse(t) \/ ReturnFromFrame(t)
  BY <1>4 DEF SkipDependent, Truncate, Recurse, ReturnFromFrame, Looping
<1> QED BY <1>1, <1>2, <1>3, <1>4 DEF RetractStep

LEMMA LoadKept ==
  ASSUME NEW t \in Threads, TypeOK, IndexInv, LoadInv(t), ~Persistent,
         ClientCall(t) \/ StoreStep(t)
  PROVE  LoadInv(t)'
<1>0. InsertReady(t)
  BY DEF IndexInv
<1>1. CASE CallInsert(t) \/ CallBatch(t) \/ InsertStep(t)
  <2>1. Moves(t)
    BY <1>1, InsertMoves
  <2> USE DEF LoadInv, InsertReady, InsertSteps, SameLoad, TakesNode
  <2>2. CASE Begins(t) \/ Ends(t) \/ Passes(t) \/ Logs(t)
    BY <1>0, <2>2 DEF Begins, Ends, Passes, Logs
  <2>3. CASE Puts(t) \/ Indexes(t) \/ Visits(t)
    BY <1>0, <2>3 DEF Puts, Indexes, Visits
  <2>4. CASE Registers(t) \/ Notifies(t)
    BY <1>0, <2>4 DEF Registers, Notifies
  <2> QED BY <2>1, <2>2, <2>3, <2>4 DEF Moves
<1>2. CASE CallRetract(t) \/ RetractStep(t)
  BY <1>2, RetractMoves DEF LoadInv, InsertSteps, CascadeSteps
<1>3. ~StorageFails(t)
  BY DEF StorageFails
<1> QED BY <1>1, <1>2, <1>3 DEF ClientCall, StoreStep

LEMMA NextLoad ==
  ASSUME TypeOK, IndexInv, NEW t \in Threads, LoadInv(t), ~Persistent, [Next]_vars
  PROVE  LoadInv(t)'
<1>1. ASSUME NEW u \in Threads, ClientCall(u) \/ StoreStep(u) PROVE LoadInv(t)'
  <2>1. CASE u # t
    BY <1>1, <2>1, OtherThreads DEF LoadInv
  <2> QED BY <1>1, <2>1, LoadKept
<1>2. CASE UNCHANGED vars \/ \E s \in Subs : Poll(s)
  BY <1>2 DEF vars, local_vars, Poll, LoadInv
<1> QED BY <1>1, <1>2 DEF Next, Finished, Crash

\* The second pass over the nodes of t's call, which logs them (for a batch)
\* and tells the subscribers, has still to do that for n.
Unlogged(t, n) ==
  /\ ins[t].op = "batch"
  /\ n \in Unregistered(t) \/ (pc[t] \in {"deps", "validity", "log"} /\ n = ins[t].node)
Untold(t, n) == n \in Unregistered(t) \/ (Written(t) /\ pc[t] # "next" /\ n = ins[t].node)

LEMMA OwedMoves ==
  ASSUME NEW t \in Threads, NEW n, TypeOK, IndexInv, LoadInv(t), ~Persistent,
         ClientCall(t) \/ StoreStep(t)
  PROVE  /\ Unlogged(t, n)' <=>
              /\ Unlogged(t, n) \/ (PutNode(t) /\ ins[t].op = "batch" /\ n = ins'[t].node)
              /\ ~(LogInsert(t) /\ n = ins[t].node)
         /\ Untold(t, n)' <=>
              /\ Untold(t, n) \/ (PutNode(t) /\ n = ins'[t].node)
              /\ ~(NotifyInsert(t) /\ n = ins[t].node)
<1>0. InsertReady(t)
  BY DEF IndexInv
<1>p. /\ PutNode(t) => pc[t] = "put"
      /\ LogInsert(t) => pc[t] = "log"
      /\ NotifyInsert(t) => pc[t] = "notify"
  BY DEF PutNode, LogInsert, NotifyInsert
<1> USE DEF Unlogged, Untold, Unregistered, Written, InsertReady, InsertSteps
<1>1. CASE CallInsert(t) \/ CallBatch(t) \/ InsertStep(t)
  <2>1. Moves(t)
    BY <1>1, InsertMoves
  <2> USE DEF LoadInv, SameLoad, TakesNode
  <2>2. CASE Begins(t) \/ Ends(t) \/ Passes(t)
    BY <1>0, <1>p, <2>2 DEF Begins, Ends, Passes
  <2>3. CASE LogInsert(t) /\ Logs(t)
    BY <1>0, <1>p, <2>3 DEF Logs
  <2>4. CASE PutNode(t) /\ Puts(t)
    BY <1>0, <1>p, <2>4 DEF Puts
  <2>5. CASE Indexes(t)
    BY <1>0, <1>p, <2>5 DEF Indexes
  <2>6. CASE Visits(t)
    BY <1>0, <1>p, <2>6 DEF Visits
  <2>7. CASE Registers(t)
    BY <1>0, <1>p, <2>7 DEF Registers
  <2>8. CASE NotifyInsert(t) /\ Notifies(t)
    BY <1>0, <1>p, <2>8 DEF Notifies
  <2> QED BY <2>1, <2>2, <2>3, <2>4, <2>5, <2>6, <2>7, <2>8 DEF Moves
<1>2. CASE CallRetract(t) \/ RetractStep(t)
  BY <1>2, <1>p, RetractMoves DEF CascadeSteps
<1>3. ~StorageFails(t)
  BY DEF StorageFails
<1> QED BY <1>1, <1>2, <1>3 DEF ClientCall, StoreStep

-----------------------------------------------------------------------------
(* The log.                                                                *)

\* insert logs first, so another client may do anything between its two steps;
\* insert_batch logs last, so a retraction may get its entry in before.
LogOrdered ==
  /\ ~Persistent /\ DisjointOffers
  /\ (\E t \in Threads : Batches[t] # {}) => OneClient

EntriesAbout(i) == {k \in 1..Len(wal) : wal[k].id = i}

\* Replayed(i) = status, without CHOOSE.
LogSays(i, status) ==
  \/ EntriesAbout(i) = {} /\ status = "Absent"
  \/ \E k \in EntriesAbout(i) :
       /\ \A j \in EntriesAbout(i) : j <= k
       /\ status = IF wal[k].type = "Insert" THEN "Active" ELSE "Retracted"

LEMMA LogReplayed ==
  ASSUME TypeOK, NEW i \in Ids, NEW status, LogSays(i, status)
  PROVE  Replayed(i) = status
<1> DEFINE E == EntriesAbout(i)
<1>1. CASE E = {}
  BY <1>1 DEF LogSays, EntriesAbout, Replayed
<1>2. CASE E # {}
  <2>1. PICK k \in E : /\ \A j \in E : j <= k
                       /\ status = IF wal[k].type = "Insert" THEN "Active" ELSE "Retracted"
    BY <1>2 DEF LogSays
  <2>2. \A j \in E : j \in Nat
    BY DEF EntriesAbout
  <2>3. (CHOOSE m \in E : \A j \in E : j <= m) = k
    BY <2>1, <2>2
  <2> QED BY <1>2, <2>1, <2>3 DEF Replayed, EntriesAbout
<1> QED BY <1>1, <1>2

LEMMA LogAppended ==
  ASSUME TypeOK, NEW e \in WalEntry, wal' = Append(wal, e), NEW i \in Ids
  PROVE  /\ e.id = i => LogSays(i, IF e.type = "Insert" THEN "Active" ELSE "Retracted")'
         /\ \A status : e.id # i /\ LogSays(i, status) => LogSays(i, status)'
<1>1. /\ wal \in Seq(WalEntry) /\ Len(wal) \in Nat
      /\ Len(wal') = Len(wal) + 1 /\ wal'[Len(wal) + 1] = e
      /\ \A k \in 1..Len(wal) : wal'[k] = wal[k]
  BY AppendProperties DEF TypeOK
<1>2. ASSUME e.id = i
      PROVE  LogSays(i, IF e.type = "Insert" THEN "Active" ELSE "Retracted")'
  <2>1. Len(wal) + 1 \in EntriesAbout(i)'
    BY <1>1, <1>2 DEF EntriesAbout
  <2>2. \A j \in EntriesAbout(i)' : j <= Len(wal) + 1
    BY <1>1 DEF EntriesAbout
  <2> QED BY <1>1, <2>1, <2>2 DEF LogSays
<1>3. ASSUME NEW status, e.id # i, LogSays(i, status) PROVE LogSays(i, status)'
  <2>1. EntriesAbout(i)' = EntriesAbout(i)
    BY <1>1, <1>3 DEF EntriesAbout
  <2>2. \A k \in EntriesAbout(i) : wal'[k] = wal[k]
    BY <1>1 DEF EntriesAbout
  <2> QED BY <1>3, <2>1, <2>2 DEF LogSays
<1> QED BY <1>2, <1>3

LEMMA SameLog ==
  ASSUME wal' = wal, NEW i, NEW status, LogSays(i, status)
  PROVE  LogSays(i, status)'
BY DEF LogSays, EntriesAbout

\* i is logged and not yet stored, stored and not yet logged, marked and not yet logged.
StoresNext(t, i) == pc[t] = "put" /\ ins[t].op = "insert" /\ ins[t].node.id = i
LogOwed(t, i) == \E n \in Nodes : n.id = i /\ Unlogged(t, n)
LogsNext(t, i) == pc[t] = "logRetract" /\ cas[t].id = i

\* LogReplaysStore between the steps of the calls.
LogInv(i) ==
  \/ LogSays(i, StatusOf(i)) /\ \A t \in Threads : ~StoresNext(t, i) /\ ~LogOwed(t, i)
  \/ /\ LogSays(i, "Active")
     /\ \E t \in Threads : StoresNext(t, i) \/ (LogsNext(t, i) /\ IsRetracted(i))
  \/ LogSays(i, "Absent") /\ StatusOf(i) = "Active" /\ \E t \in Threads : LogOwed(t, i)

LEMMA LogWriters ==
  ASSUME NEW t \in Threads, ClientCall(t) \/ StoreStep(t)
  PROVE  \/ wal' = wal
         \/ LogInsert(t) \/ LogRetract(t)
         \/ InsertDone(t) /\ wal' = Append(wal, [type |-> "Checkpoint", id |-> None])
<1>1. CASE ClientCall(t) \/ StorageFails(t)
  BY <1>1 DEF ClientCall, CallInsert, CallBatch, Call, CallRetract, StartRetract, StorageFails, Fail
<1>2. CASE InsertStep(t)
  BY <1>2 DEF InsertStep, RejectInvalid, RejectDuplicate, Admit, PutNode, PutIndex, WriteBatch,
              IndexEntries, NextNode, RegisterDep, RegisterValidity, NotifyInsert, InsertDone, Fail
<1>3. CASE RetractStep(t)
  BY <1>3 DEF RetractStep, EnterAtLimit, EnterMissing, EnterRetracted, EnterActive, MarkRetracted,
              FanOut, SkipDependent, Truncate, Recurse, ReturnFromFrame, NotifyRetract, Fail
<1> QED BY <1>1, <1>2, <1>3 DEF StoreStep

LEMMA StatusChanges ==
  ASSUME NEW t \in Threads, TypeOK, ~Persistent, ClientCall(t) \/ StoreStep(t), NEW i \in Ids,
         nodes'[i] # nodes[i]
  PROVE  \/ PutNode(t) /\ i = ins'[t].node.id /\ nodes'[i] = Active(ins'[t].node)
         \/ MarkRetracted(t) /\ i = cas[t].id /\ nodes'[i] = Retracted(cas[t].node)
<1> USE DEF store_vars
<1>1. CASE ClientCall(t) \/ StorageFails(t)
  BY <1>1 DEF ClientCall, CallInsert, CallBatch, Call, CallRetract, StartRetract, StorageFails, Fail
<1>2. CASE PutNode(t)
  <2>1. PICK n \in ins[t].todo :
          /\ nodes' = [nodes EXCEPT ![n.id] = Active(n)]
          /\ ins' = [ins EXCEPT ![t].todo = @ \ {n}, ![t].node = n, ![t].keys = n.keys]
    BY <1>2 DEF PutNode
  <2>2. ins'[t].node = n
    BY <2>1 DEF TypeOK, InsertLocals
  <2> QED BY <1>2, <2>1, <2>2 DEF TypeOK
<1>3. CASE InsertStep(t) /\ ~PutNode(t)
  BY <1>3 DEF InsertStep, RejectInvalid, RejectDuplicate, Admit, LogInsert, PutIndex, WriteBatch,
              NextNode, RegisterDep, RegisterValidity, NotifyInsert, InsertDone, Fail
<1>4. CASE MarkRetracted(t)
  BY <1>4 DEF MarkRetracted, TypeOK
<1>5. CASE RetractStep(t) /\ ~MarkRetracted(t)
  BY <1>5 DEF RetractStep, EnterAtLimit, EnterMissing, EnterRetracted, EnterActive, LogRetract,
              FanOut, SkipDependent, Truncate, Recurse, ReturnFromFrame, NotifyRetract, Fail
<1> QED BY <1>1, <1>2, <1>3, <1>4, <1>5 DEF StoreStep

\* What a step of t does to the three flags of LogInv.
LEMMA FlagMoves ==
  ASSUME NEW t \in Threads, TypeOK, IndexInv, LoadInv(t), ~Persistent,
         ClientCall(t) \/ StoreStep(t), NEW i \in Ids
  PROVE  /\ StoresNext(t, i) => PutNode(t) /\ ins'[t].node = ins[t].node /\ ins[t].op = "insert"
         /\ StoresNext(t, i)' => LogInsert(t) /\ ins[t].op = "insert" /\ ins[t].node.id = i
         /\ LogsNext(t, i) => LogRetract(t)
         /\ LogsNext(t, i)' => MarkRetracted(t) /\ cas[t].id = i
         /\ LogOwed(t, i) => LogOwed(t, i)' \/ (LogInsert(t) /\ ins[t].node.id = i)
         /\ LogOwed(t, i)' => LogOwed(t, i) \/ (PutNode(t) /\ ins[t].op = "batch" /\ ins'[t].node.id = i)
<1>0. InsertReady(t)
  BY DEF IndexInv
<1>o. /\ LogOwed(t, i) => LogOwed(t, i)' \/ (LogInsert(t) /\ ins[t].node.id = i)
      /\ LogOwed(t, i)' => LogOwed(t, i) \/ (PutNode(t) /\ ins[t].op = "batch" /\ ins'[t].node.id = i)
  <2>1. ASSUME NEW n \in Nodes
        PROVE  Unlogged(t, n)' <=>
                 /\ Unlogged(t, n) \/ (PutNode(t) /\ ins[t].op = "batch" /\ n = ins'[t].node)
                 /\ ~(LogInsert(t) /\ n = ins[t].node)
    BY OwedMoves
  <2>2. ASSUME LogOwed(t, i)
        PROVE  LogOwed(t, i)' \/ (LogInsert(t) /\ ins[t].node.id = i)
    <3>1. PICK n \in Nodes : n.id = i /\ Unlogged(t, n)
      BY <2>2 DEF LogOwed
    <3>2. Unlogged(t, n)' \/ (LogInsert(t) /\ n = ins[t].node)
      BY <2>1, <3>1
    <3> QED BY <3>1, <3>2 DEF LogOwed
  <2>3. ASSUME LogOwed(t, i)'
        PROVE  LogOwed(t, i) \/ (PutNode(t) /\ ins[t].op = "batch" /\ ins'[t].node.id = i)
    <3>1. PICK n \in Nodes : n.id = i /\ Unlogged(t, n)'
      BY <2>3 DEF LogOwed
    <3>2. Unlogged(t, n) \/ (PutNode(t) /\ ins[t].op = "batch" /\ n = ins'[t].node)
      BY <2>1, <3>1
    <3> QED BY <3>1, <3>2 DEF LogOwed
  <2> QED BY <2>2, <2>3
<1>1. CASE CallInsert(t) \/ CallBatch(t) \/ InsertStep(t)
  <2>1. Moves(t)
    BY <1>1, InsertMoves
  <2> USE DEF LoadInv, InsertReady, InsertSteps, SameLoad, TakesNode, StoresNext, LogsNext
  <2>2. ~LogsNext(t, i) /\ ~LogsNext(t, i)'
    BY <2>1 DEF Moves, Begins, Ends, Passes, Logs, Puts, Indexes, Visits, Registers, Notifies
  <2>3. StoresNext(t, i) => PutNode(t) /\ ins'[t].node = ins[t].node
    <3>1. ASSUME StoresNext(t, i) PROVE PutNode(t) /\ Puts(t)
      BY <2>1, <3>1 DEF Moves, Begins, Ends, Passes, Logs, Indexes, Visits, Registers, Notifies
    <3> QED BY <3>1 DEF Puts
  <2>4. StoresNext(t, i)' => LogInsert(t) /\ ins[t].op = "insert" /\ ins[t].node.id = i
    <3>1. ASSUME StoresNext(t, i)' PROVE LogInsert(t) /\ Logs(t)
      BY <1>0, <2>1, <3>1
      DEF Moves, Begins, Ends, Passes, Puts, Indexes, Visits, Registers, Notifies
    <3> QED BY <3>1 DEF Logs
  <2>5. StoresNext(t, i) => ins[t].op = "insert"
    OBVIOUS
  <2> QED BY ONLY <1>o, <2>2, <2>3, <2>4, <2>5
<1>2. CASE CallRetract(t) \/ RetractStep(t)
  <2>1. /\ pc[t] \in CascadeSteps \cup {"idle"} /\ pc'[t] \in CascadeSteps \cup {"idle"}
        /\ pc'[t] = "logRetract" => MarkRetracted(t) /\ cas' = cas
        /\ pc[t] = "logRetract" => LogRetract(t)
    BY <1>2, RetractMoves DEF MarkRetracted, local_vars
  <2> QED BY <1>o, <2>1 DEF CascadeSteps, StoresNext, LogsNext
<1>3. ~StorageFails(t)
  BY DEF StorageFails
<1> QED BY <1>1, <1>2, <1>3 DEF ClientCall, StoreStep

LEMMA OtherFlags ==
  ASSUME NEW t \in Threads, NEW u \in Threads, u # t, TypeOK, ClientCall(t) \/ StoreStep(t), NEW i
  PROVE  /\ StoresNext(u, i)' <=> StoresNext(u, i)
         /\ LogsNext(u, i)' <=> LogsNext(u, i)
         /\ LogOwed(u, i)' <=> LogOwed(u, i)
BY OtherThreads DEF StoresNext, LogsNext, LogOwed, Unlogged, Unregistered

\* The node a call of t inserts is not one that a call of u inserts.
LEMMA OtherLoads ==
  ASSUME DisjointOffers, RefInv, IndexInv, \A v \in Threads : LoadInv(v),
         NEW t \in Threads, NEW n \in ins[t].load, pc[t] \in InsertSteps,
         NEW u \in Threads, u # t
  PROVE  ~StoresNext(u, n.id) /\ ~LogOwed(u, n.id)
<1>1. ASSUME NEW m \in ins[u].load, pc[u] \in InsertSteps PROVE m.id # n.id
  BY <1>1, OtherNodes DEF RefInv, FreshInv
<1>2. StoresNext(u, n.id) => pc[u] \in InsertSteps /\ ins[u].node \in ins[u].load
  BY DEF StoresNext, InsertSteps, LoadInv
<1>3. \A m : Unlogged(u, m) => pc[u] \in InsertSteps /\ m \in ins[u].load
  BY DEF Unlogged, Unregistered, InsertSteps, LoadInv, IndexInv, InsertReady
<1> QED BY <1>1, <1>2, <1>3 DEF StoresNext, LogOwed

\* A step of t that changes neither i's status, nor its log, nor t's flags.
LEMMA LogQuiet ==
  ASSUME NEW t \in Threads, TypeOK, ClientCall(t) \/ StoreStep(t), NEW i \in Ids, LogInv(i),
         nodes'[i] = nodes[i], \A status : LogSays(i, status) => LogSays(i, status)',
         StoresNext(t, i)' <=> StoresNext(t, i), LogsNext(t, i)' <=> LogsNext(t, i),
         LogOwed(t, i)' <=> LogOwed(t, i)
  PROVE  LogInv(i)'
<1>1. ASSUME NEW u \in Threads
      PROVE  /\ StoresNext(u, i)' <=> StoresNext(u, i)
             /\ LogsNext(u, i)' <=> LogsNext(u, i)
             /\ LogOwed(u, i)' <=> LogOwed(u, i)
  <2>1. CASE u = t
    BY <2>1
  <2>2. CASE u # t
    BY <2>2, OtherFlags
  <2> QED BY <2>1, <2>2
<1>2. StatusOf(i)' = StatusOf(i) /\ (IsRetracted(i)' <=> IsRetracted(i))
  BY DEF StatusOf, IsRetracted
<1> QED BY <1>1, <1>2 DEF LogInv

LEMMA LogKept ==
  ASSUME LogOrdered, TypeOK, IndexInv, RefInv, \A u \in Threads : LoadInv(u),
         NEW i \in Ids, LogInv(i), NEW t \in Threads, ClientCall(t) \/ StoreStep(t)
  PROVE  LogInv(i)'
<1>0. /\ ~Persistent /\ DisjointOffers /\ LoadInv(t) /\ FreshInv(t) /\ EntryOK(t)
      /\ InsertReady(t) /\ LocalsReady(t) /\ None \notin Ids /\ nodes \in [Ids -> Stored \cup {None}]
  BY NoneAssumption DEF LogOrdered, RefInv, CascadeInv, IndexInv, TypeOK, NoneAssumption
<1>f. /\ StoresNext(t, i) => PutNode(t) /\ ins'[t].node = ins[t].node /\ ins[t].op = "insert"
      /\ StoresNext(t, i)' => LogInsert(t) /\ ins[t].op = "insert" /\ ins[t].node.id = i
      /\ LogsNext(t, i) => LogRetract(t)
      /\ LogsNext(t, i)' => MarkRetracted(t) /\ cas[t].id = i
      /\ LogOwed(t, i) => LogOwed(t, i)' \/ (LogInsert(t) /\ ins[t].node.id = i)
      /\ LogOwed(t, i)' => LogOwed(t, i) \/ (PutNode(t) /\ ins[t].op = "batch" /\ ins'[t].node.id = i)
  BY <1>0, FlagMoves
<1>p. /\ LogInsert(t) => pc[t] = "log" /\ ins' = ins /\ nodes' = nodes
      /\ PutNode(t) => pc[t] = "put" /\ wal' = wal
      /\ MarkRetracted(t) => pc[t] = "mark" /\ wal' = wal
      /\ LogRetract(t) => pc[t] = "logRetract" /\ nodes' = nodes
  BY DEF LogInsert, PutNode, MarkRetracted, LogRetract, local_vars, store_vars
\* A batch is written and logged by the only client.
<1>b. ASSUME NEW u \in Threads, LogOwed(u, i) PROVE \A v \in Threads : v = u
  <2>1. pc[u] \in InsertSteps /\ ins[u].op = "batch"
    BY <1>b DEF LogOwed, Unlogged, Unregistered, InsertSteps
  <2> QED BY <2>1 DEF LoadInv, LogOrdered, OneClient
<1>1. CASE LogInsert(t) /\ ins[t].op = "insert" /\ ins[t].node.id = i
  <2>1. LogSays(i, "Active")'
    <3>1. PICK e \in WalEntry : e = [type |-> "Insert", id |-> i]
      BY DEF WalEntry
    <3> QED BY <1>1, <3>1, LogAppended DEF LogInsert
  <2>2. StoresNext(t, i)'
    BY <1>1, <1>p DEF StoresNext, LogInsert, Goto, LogsFirst, TypeOK
  <2> QED BY <2>1, <2>2 DEF LogInv
<1>2. CASE LogInsert(t) /\ ins[t].op = "batch" /\ ins[t].node.id = i
  <2>1. LogSays(i, "Active")'
    <3>1. PICK e \in WalEntry : e = [type |-> "Insert", id |-> i]
      BY DEF WalEntry
    <3> QED BY <1>2, <3>1, LogAppended DEF LogInsert
  <2>2. LogOwed(t, i)
    BY <1>0, <1>2, <1>p DEF LogOwed, Unlogged, LocalsReady
  <2>3. StatusOf(i) = "Active"
    BY <1>b, <1>p, <2>2, <1>2 DEF LogInv, StoresNext, LogsNext
  <2>4. ~LogOwed(t, i)' /\ ~StoresNext(t, i)'
    <3>1. Written(t) /\ ins[t].node \in ins[t].load /\ ins[t].node \notin ins[t].todo
      BY <1>0, <1>2, <1>p DEF Written, LoadInv
    <3>2. ASSUME NEW n \in ins[t].load, n.id = i PROVE n = ins[t].node
      BY <1>0, <1>2, <3>1, <3>2 DEF FreshInv, Holds
    <3>3. \A n \in Nodes : Unlogged(t, n)' => n \in ins[t].todo
      BY <1>2, <1>p DEF Unlogged, Unregistered, LogInsert, Goto, LogsFirst, TypeOK
    <3>4. ins[t].todo \subseteq ins[t].load
      BY <1>0, <1>2, <1>p DEF InsertReady, InsertSteps
    <3> QED BY <1>f, <1>2, <3>1, <3>2, <3>3, <3>4 DEF LogOwed
  <2>5. StatusOf(i)' = "Active"
    BY <1>2, <1>p, <2>3 DEF StatusOf
  <2> QED BY <1>b, <2>1, <2>2, <2>4, <2>5 DEF LogInv
<1>3. CASE PutNode(t) /\ ins'[t].node.id = i
  <2>1. PICK n \in ins[t].todo : nodes' = [nodes EXCEPT ![n.id] = Active(n)] /\ ins'[t].node = n
    <3>1. PICK n \in ins[t].todo :
            /\ nodes' = [nodes EXCEPT ![n.id] = Active(n)]
            /\ ins' = [ins EXCEPT ![t].todo = @ \ {n}, ![t].node = n, ![t].keys = n.keys]
      BY <1>3 DEF PutNode
    <3> QED BY <3>1 DEF TypeOK, InsertLocals
  <2>2. /\ n \in ins[t].load /\ n \in Nodes /\ n.id = i /\ nodes[i] = None
        /\ ins[t].op \in {"insert", "batch"}
    BY <1>0, <1>3, <1>p, <2>1
    DEF InsertReady, InsertSteps, FreshInv, Writing, TypeOK, InsertLocals
  <2>3. StatusOf(i) = "Absent" /\ StatusOf(i)' = "Active"
    <3>1. nodes'[i] = Active(n) /\ Active(n) # None
      BY <1>0, <2>1, <2>2, NodesAssumption, NoneAssumption
      DEF Active, NodesAssumption, NoneAssumption
    <3> QED BY <2>2, <3>1 DEF StatusOf, Active
  <2>4. ASSUME NEW u \in Threads, u # t PROVE ~StoresNext(u, i) /\ ~LogOwed(u, i)
    BY <1>0, <1>p, <1>3, <2>2, <2>4, OtherLoads DEF InsertSteps
  <2>5. ASSUME NEW u \in Threads, u # t PROVE ~StoresNext(u, i)' /\ ~LogOwed(u, i)'
    BY <2>4, <2>5, OtherFlags
  <2>6. CASE ins[t].op = "insert"
    <3>1. StoresNext(t, i)
      BY <1>0, <1>3, <1>p, <2>2, <2>6 DEF StoresNext, LoadInv, InsertSteps
    <3>2. LogSays(i, "Active")
      BY <2>3, <3>1 DEF LogInv
    <3>3. ~LogOwed(t, i)
      BY <2>6 DEF LogOwed, Unlogged
    <3>4. ~LogOwed(t, i)' /\ ~StoresNext(t, i)'
      BY <1>f, <1>3, <1>p, <2>6, <3>3
    <3> QED BY <1>3, <1>p, <2>3, <2>5, <3>2, <3>4, SameLog DEF LogInv
  <2>7. CASE ins[t].op = "batch"
    <3>1. ~StoresNext(t, i)
      BY <2>7 DEF StoresNext
    <3>2. LogSays(i, "Absent")
      BY <2>2, <2>3, <2>4, <3>1 DEF LogInv, IsRetracted
    <3>3. LogOwed(t, i)'
      <4>1. Unlogged(t, n)'
        BY <1>0, <1>3, <1>p, <2>1, <2>7, OwedMoves
      <4> QED BY <2>2, <4>1 DEF LogOwed
    <3> QED BY <1>3, <1>p, <2>3, <3>2, <3>3, SameLog DEF LogInv
  <2> QED BY <2>2, <2>6, <2>7
<1>4. CASE MarkRetracted(t) /\ cas[t].id = i
  <2>1. /\ nodes[i] # None /\ nodes[i] \in Stored /\ IsRetracted(i)' /\ StatusOf(i)' = "Retracted"
    <3>1. /\ nodes'[i] = Retracted(cas[t].node) /\ cas[t].node \in Nodes /\ nodes[i] # None
      BY <1>0, <1>4, <1>p DEF MarkRetracted, LocalsReady, EntryOK
    <3>2. nodes'[i] # None
      BY <3>1, NodesAssumption, NoneAssumption DEF Retracted, NodesAssumption, NoneAssumption
    <3> QED BY <1>0, <3>1, <3>2 DEF IsRetracted, StatusOf, Retracted
  <2>2. LogsNext(t, i)'
    BY <1>4 DEF LogsNext, MarkRetracted, Goto, local_vars, TypeOK
  <2>3. \A u \in Threads : ~LogOwed(u, i)
    BY <1>4, <1>b, <1>p DEF LogOwed, Unlogged, Unregistered
  <2>4. CASE LogSays(i, "Active")
    BY <1>4, <1>p, <2>1, <2>2, <2>4, SameLog DEF LogInv
  <2>5. CASE ~LogSays(i, "Active")
    <3>1. LogSays(i, StatusOf(i)) /\ \A u \in Threads : ~StoresNext(u, i) /\ ~LogOwed(u, i)
      BY <2>3, <2>5 DEF LogInv
    <3>2. LogSays(i, "Retracted")
      BY <2>1, <2>5, <3>1 DEF StatusOf, Stored, Status
    <3>3. ASSUME NEW u \in Threads PROVE ~StoresNext(u, i)' /\ ~LogOwed(u, i)'
      <4>1. CASE u = t
        BY <1>4, <1>f, <1>p, <3>1, <4>1
      <4>2. CASE u # t
        BY <3>1, <4>2, OtherFlags
      <4> QED BY <4>1, <4>2
    <3> QED BY <1>4, <1>p, <2>1, <3>2, <3>3, SameLog DEF LogInv
  <2> QED BY <2>4, <2>5
<1>5. CASE LogRetract(t) /\ cas[t].id = i
  <2>1. IsRetracted(i) /\ StatusOf(i)' = "Retracted"
    BY <1>0, <1>5, <1>p DEF EntryOK, IsRetracted, StatusOf
  <2>2. LogSays(i, "Retracted")'
    <3>1. PICK e \in WalEntry : e = [type |-> "Retract", id |-> i]
      BY DEF WalEntry
    <3> QED BY <1>5, <3>1, LogAppended DEF LogRetract, RetractEntry
  <2>3. ASSUME NEW u \in Threads PROVE ~StoresNext(u, i)' /\ ~LogOwed(u, i)'
    <3>1. ~LogOwed(u, i)
      BY <1>5, <1>b, <1>p DEF LogOwed, Unlogged, Unregistered
    <3>2. ~StoresNext(u, i)
      BY <2>1 DEF StoresNext, RefInv, FreshInv, Writing, LoadInv, InsertSteps, IsRetracted
    <3>3. CASE u = t
      BY <1>5, <1>f, <1>p, <3>1, <3>3
    <3>4. CASE u # t
      BY <3>1, <3>2, <3>4, OtherFlags
    <3> QED BY <3>3, <3>4
  <2> QED BY <2>1, <2>2, <2>3 DEF LogInv
<1>6. CASE /\ ~(LogInsert(t) /\ ins[t].node.id = i) /\ ~(PutNode(t) /\ ins'[t].node.id = i)
           /\ ~(MarkRetracted(t) /\ cas[t].id = i) /\ ~(LogRetract(t) /\ cas[t].id = i)
  <2>1. nodes'[i] = nodes[i]
    BY <1>0, <1>6, StatusChanges
  <2>2. ASSUME NEW status, LogSays(i, status) PROVE LogSays(i, status)'
    <3>1. CASE wal' = wal
      BY <2>2, <3>1, SameLog
    <3>2. ASSUME NEW e \in WalEntry, e.id # i, wal' = Append(wal, e)
          PROVE  LogSays(i, status)'
      BY <2>2, <3>2, LogAppended
    <3>3. CASE LogInsert(t)
      <4>1. PICK e \in WalEntry : e = [type |-> "Insert", id |-> ins[t].node.id]
        BY <1>0, <1>p, <3>3, NodeFacts DEF WalEntry, LocalsReady
      <4> QED BY <1>6, <3>2, <3>3, <4>1 DEF LogInsert
    <3>4. CASE LogRetract(t)
      <4>1. PICK e \in WalEntry : e = [type |-> "Retract", id |-> cas[t].id]
        BY <1>0, <1>p, <3>4 DEF WalEntry, LocalsReady
      <4> QED BY <1>6, <3>2, <3>4, <4>1 DEF LogRetract, RetractEntry
    <3>5. CASE wal' = Append(wal, [type |-> "Checkpoint", id |-> None])
      <4>1. PICK e \in WalEntry : e = [type |-> "Checkpoint", id |-> None]
        BY DEF WalEntry
      <4> QED BY <1>0, <3>2, <3>5, <4>1
    <3> QED BY <3>1, <3>3, <3>4, <3>5, LogWriters
  <2>3. StoresNext(t, i)' <=> StoresNext(t, i)
    BY <1>6, <1>f DEF StoresNext
  <2>4. LogsNext(t, i)' <=> LogsNext(t, i)
    BY <1>6, <1>f DEF LogsNext
  <2>5. LogOwed(t, i)' <=> LogOwed(t, i)
    BY <1>6, <1>f
  <2> QED BY <2>1, <2>2, <2>3, <2>4, <2>5, LogQuiet
<1>7. LogInsert(t) => ins[t].op \in {"insert", "batch"}
  BY <1>0, <1>p DEF InsertReady, InsertSteps
<1> QED BY <1>1, <1>2, <1>3, <1>4, <1>5, <1>6, <1>7

LEMMA NextLog ==
  ASSUME LogOrdered, TypeOK, IndexInv, RefInv, \A u \in Threads : LoadInv(u), [Next]_vars,
         NEW i \in Ids, LogInv(i)
  PROVE  LogInv(i)'
<1>1. ASSUME NEW t \in Threads, ClientCall(t) \/ StoreStep(t) PROVE LogInv(i)'
  BY <1>1, LogKept
<1>2. CASE UNCHANGED vars \/ \E s \in Subs : Poll(s)
  <2>1. UNCHANGED <<nodes, wal, pc, ins, cas>>
    BY <1>2 DEF vars, store_vars, local_vars, Poll
  <2>2. ASSUME NEW t \in Threads, NEW n PROVE Unlogged(t, n)' <=> Unlogged(t, n)
    BY <2>1 DEF Unlogged, Unregistered
  <2> QED BY <2>1, <2>2 DEF LogInv, LogSays, EntriesAbout, StatusOf, IsRetracted, StoresNext,
                           LogsNext, LogOwed
<1>3. ~Crash
  BY DEF LogOrdered, Crash
<1> QED BY <1>1, <1>2, <1>3 DEF Next, Finished

LEMMA InitStore == Init => IndexInv /\ RefInv /\ \A t \in Threads : LoadInv(t)
BY DEF Init, IndexInv, StoredById, IndexesComplete, InsertReady, InsertSteps, CopyIndexed,
       RefInv, DepsSound, FreshInv, Writing, Written, CascadeInv, EntryOK, LoadInv

\* When no call is in flight, replaying the in-memory log gives the store:
\* for clients that insert different ids however their calls interleave, and
\* for a single client that also uses insert_batch.
THEOREM LogAlwaysReplays ==
  ASSUME LogOrdered
  PROVE  Spec => []LogReplaysStore
<1> DEFINE Loads == \A t \in Threads : LoadInv(t)
           Logs2 == \A i \in Ids : LogInv(i)
<1>0. ~Persistent /\ DisjointOffers
  BY DEF LogOrdered
<1>1. Init => Loads /\ Logs2 /\ IndexInv /\ RefInv
  <2>1. Init => Logs2
    BY DEF Init, LogInv, LogSays, EntriesAbout, StatusOf, StoresNext, LogOwed, Unlogged, Unregistered
  <2> QED BY <2>1, InitStore
<1>2. TypeOK /\ IndexInv /\ Loads /\ [Next]_vars => Loads'
  BY <1>0, NextLoad
<1>3. TypeOK /\ IndexInv /\ RefInv /\ Loads /\ Logs2 /\ [Next]_vars => Logs2'
  BY NextLog
<1>4. TypeOK /\ IndexInv /\ RefInv /\ [Next]_vars => RefInv'
  BY <1>0, NextRef
<1>5. TypeOK /\ Logs2 => LogReplaysStore
  <2> SUFFICES ASSUME TypeOK, Logs2, AllIdle, NEW i \in Ids PROVE Replayed(i) = StatusOf(i)
    BY DEF LogReplaysStore
  <2>1. \A t \in Threads : ~StoresNext(t, i) /\ ~LogsNext(t, i) /\ ~LogOwed(t, i)
    BY DEF AllIdle, StoresNext, LogsNext, LogOwed, Unlogged, Unregistered
  <2>2. LogSays(i, StatusOf(i))
    BY <2>1 DEF LogInv
  <2> QED BY <2>2, LogReplayed
<1> QED BY <1>1, <1>2, <1>3, <1>4, <1>5, InitTypeOK, NextTypeOK, NextIndexed, PTL DEF Spec

-----------------------------------------------------------------------------
(* The cascade of a single client.                                         *)

LEMMA RangeAppend ==
  ASSUME NEW S, NEW q \in Seq(S), NEW e \in S
  PROVE  RangeOf(Append(q, e)) = RangeOf(q) \cup {e}
<1>1. /\ Len(q) \in Nat /\ Len(Append(q, e)) = Len(q) + 1
      /\ Append(q, e)[Len(q) + 1] = e /\ \A k \in 1..Len(q) : Append(q, e)[k] = q[k]
  BY AppendProperties
<1>2. ASSUME NEW x \in RangeOf(Append(q, e)) PROVE x \in RangeOf(q) \cup {e}
  <2>1. PICK k \in 1..(Len(q) + 1) : x = Append(q, e)[k]
    BY <1>1 DEF RangeOf
  <2> QED BY <1>1, <2>1 DEF RangeOf
<1>3. ASSUME NEW x \in RangeOf(q) PROVE x \in RangeOf(Append(q, e))
  <2>1. PICK k \in 1..Len(q) : x = q[k]
    BY DEF RangeOf
  <2> QED BY <1>1, <2>1 DEF RangeOf
<1>4. e \in RangeOf(Append(q, e))
  BY <1>1 DEF RangeOf
<1> QED BY <1>2, <1>3, <1>4

LEMMA RangeFront ==
  ASSUME NEW S, NEW q \in Seq(S), q # <<>>
  PROVE  RangeOf(q) = RangeOf(SubSeq(q, 1, Len(q) - 1)) \cup {q[Len(q)]}
<1>1. /\ Len(q) \in Nat \ {0} /\ Len(SubSeq(q, 1, Len(q) - 1)) = Len(q) - 1
      /\ \A k \in 1..(Len(q) - 1) : SubSeq(q, 1, Len(q) - 1)[k] = q[k]
  BY LastTyped, FrontTyped
<1> QED BY <1>1 DEF RangeOf

LEMMA RangeTopSet ==
  ASSUME NEW S, NEW q \in Seq(S), q # <<>>, NEW e \in S
  PROVE  RangeOf([q EXCEPT ![Len(q)] = e]) = RangeOf(SubSeq(q, 1, Len(q) - 1)) \cup {e}
<1> DEFINE p == [q EXCEPT ![Len(q)] = e]
           f == SubSeq(q, 1, Len(q) - 1)
<1>1. /\ Len(q) \in Nat \ {0} /\ Len(f) = Len(q) - 1
      /\ \A k \in 1..(Len(q) - 1) : f[k] = q[k]
  BY LastTyped, FrontTyped
<1>2. /\ Len(p) = Len(q) /\ p[Len(q)] = e
      /\ \A k \in 1..(Len(q) - 1) : p[k] = q[k]
  BY <1>1, LenOfExcept, LastTyped
<1> HIDE DEF p, f
<1> QED BY <1>1, <1>2 DEF RangeOf

Frame == [id: Ids, todo: SUBSET Ids]

\* What SetTodo does to the frames: only the top one changes, and keeps its id.
LEMMA FramesSet ==
  ASSUME NEW t \in Threads, TypeOK, stack[t] # <<>>, NEW ids \in SUBSET Ids, SetTodo(t, ids)
  PROVE  /\ RangeOf(stack[t]) = RangeOf(Popped(t)) \cup {Top(t)}
         /\ RangeOf(stack'[t]) = RangeOf(Popped(t)) \cup {[id |-> Top(t).id, todo |-> ids]}
<1>1. /\ stack[t] \in Seq(Frame) /\ Top(t) \in Frame
      /\ Top(t) = stack[t][Len(stack[t])]
  BY LastTyped DEF TypeOK, Frames, Frame, Top
<1>2. [Top(t) EXCEPT !.todo = ids] = [id |-> Top(t).id, todo |-> ids]
  BY <1>1 DEF Frame
<1>3. PICK f \in Frame : f = [id |-> Top(t).id, todo |-> ids]
  BY <1>1 DEF Frame
<1>4. stack'[t] = [stack[t] EXCEPT ![Len(stack[t])] = f]
  BY <1>1, <1>2, <1>3 DEF TypeOK, SetTodo
<1> QED BY <1>1, <1>3, <1>4, RangeFront, RangeTopSet DEF Popped

LEMMA TopInRange ==
  ASSUME NEW t \in Threads, TypeOK, stack[t] # <<>>
  PROVE  RangeOf(stack[t]) = RangeOf(Popped(t)) \cup {Top(t)}
BY RangeFront DEF TypeOK, Frames, Popped, Top

\* An activation is the first one, or one that the loop found room and need for.
EnterInv(t) ==
  pc[t] = "enter" => \/ stack[t] = <<>> /\ cas[t].retracted = <<>>
                     \/ ~AtLimit(t) /\ Follows(cas[t].id)

\* What the call has reported or pushed is retracted and counted.
ReachedInv(t) ==
  /\ cas[t].limit = 0 => pc[t] = "enter" \/ cas[t].truncated
  /\ \A r \in RangeOf(cas[t].retracted) : IsRetracted(r)
  /\ \A f \in RangeOf(stack[t]) : f.id \in RangeOf(cas[t].retracted)
  /\ pc[t] = "fan" => cas[t].id \in RangeOf(cas[t].retracted)

\* The cascade still has to come to i, which follows the retracted r.
Awaits(t, i, r) ==
  \/ pc[t] \in {"enter", "mark"} /\ cas[t].id = i
  \/ pc[t] = "fan" /\ cas[t].id = r
  \/ \E f \in RangeOf(stack[t]) : f.id = r /\ i \in f.todo

NobodyMissed(t) ==
  \A i \in Ids, r \in RangeOf(cas[t].retracted) :
    Follows(i) /\ i \notin forgotten /\ r \in nodes[i].node.deps => Awaits(t, i, r)

LeavesOrphan(t) == LeftBehind(t) # {}

TruncatedInv(t) ==
  IF cas[t].truncated
  THEN pc[t] = "loop" /\ AtLimit(t) /\ (cas[t].limit = 0 \/ LeavesOrphan(t))
  ELSE NobodyMissed(t)

HonestInv(t) == pc[t] \in CascadeSteps => EnterInv(t) /\ ReachedInv(t) /\ TruncatedInv(t)

LEMMA ForgottenKept ==
  ASSUME NEW t \in Threads, ClientCall(t) \/ StoreStep(t)
  PROVE  forgotten' = forgotten
<1> USE DEF store_vars
<1>1. ClientCall(t) \/ StorageFails(t) => forgotten' = forgotten
  BY DEF ClientCall, CallInsert, CallBatch, CallRetract, StartRetract, Call, StorageFails, Fail
<1>2. InsertStep(t) => forgotten' = forgotten
  BY DEF InsertStep, RejectInvalid, RejectDuplicate, Admit, LogInsert, PutNode, PutIndex,
         WriteBatch, NextNode, RegisterDep, RegisterValidity, NotifyInsert, InsertDone, Fail
<1>3. RetractStep(t) => forgotten' = forgotten
  BY DEF RetractStep, EnterAtLimit, EnterMissing, EnterRetracted, EnterActive, MarkRetracted,
         LogRetract, FanOut, SkipDependent, Truncate, Recurse, ReturnFromFrame, NotifyRetract, Fail
<1> QED BY <1>1, <1>2, <1>3 DEF StoreStep

\* An entry of an activation: EnterAtLimit is the only place where a cascade is
\* cut short without leaving a node behind, and it takes a limit of 0.
LEMMA HonestEnter ==
  ASSUME NEW t \in Threads, TypeOK, RefInv, BoundInv(t), HonestInv(t),
         EnterAtLimit(t) \/ EnterRetracted(t) \/ EnterActive(t)
  PROVE  HonestInv(t)'
<1>0. /\ cas[t] \in CascadeLocals /\ cas[t].limit \in Nat /\ Len(cas[t].retracted) \in Nat
      /\ cas[t].id \in Ids
  BY LensTyped DEF TypeOK, LocalsReady, EnterAtLimit, EnterRetracted, EnterActive
<1>1. /\ pc[t] = "enter" /\ nodes' = nodes /\ stack' = stack
      /\ cas'[t].retracted = cas[t].retracted /\ cas'[t].limit = cas[t].limit
      /\ cas'[t].id = cas[t].id /\ forgotten' = forgotten
  BY <1>0 DEF EnterAtLimit, EnterRetracted, EnterActive, store_vars, TypeOK, CascadeLocals
<1>2. EnterInv(t) /\ ReachedInv(t) /\ NobodyMissed(t) /\ ~cas[t].truncated
  BY <1>1 DEF HonestInv, CascadeSteps, TruncatedInv
<1>3. \A i : Follows(i)' <=> Follows(i)
  BY <1>1 DEF Follows
<1>4. \A r : IsRetracted(r)' <=> IsRetracted(r)
  BY <1>1 DEF IsRetracted
<1>5. CASE EnterAtLimit(t)
  <2>1. AtLimit(t) /\ pc'[t] = "loop" /\ cas'[t].truncated
    BY <1>0, <1>5 DEF EnterAtLimit, TypeOK, Goto, CascadeLocals
  <2>2. cas[t].limit = 0
    BY <1>0, <1>1, <1>2, <2>1 DEF EnterInv, AtLimit
  <2> QED BY <1>0, <1>1, <1>2, <1>4, <2>1, <2>2
          DEF HonestInv, EnterInv, ReachedInv, TruncatedInv, AtLimit
<1>6. CASE EnterRetracted(t) \/ EnterActive(t)
  <2>1. ~AtLimit(t) /\ ~cas'[t].truncated
    <3>1. cas'[t].truncated = cas[t].truncated
      BY <1>0, <1>6 DEF EnterRetracted, EnterActive, TypeOK, CascadeLocals
    <3> QED BY <1>2, <1>6, <3>1 DEF EnterRetracted, EnterActive
  <2>2. cas[t].limit # 0
    BY <1>0, <2>1 DEF AtLimit
  <2>3. pc'[t] = "mark" \/ (pc'[t] = "loop" /\ ~Follows(cas[t].id))
    BY <1>6 DEF EnterRetracted, EnterActive, TypeOK, Goto, Follows
  <2>4. NobodyMissed(t)'
    BY <1>1, <1>2, <1>3, <2>3 DEF NobodyMissed, Awaits
  <2> QED BY <1>1, <1>2, <1>4, <2>1, <2>2, <2>3, <2>4
          DEF HonestInv, EnterInv, ReachedInv, TruncatedInv
<1> QED BY <1>5, <1>6

LEMMA HonestMark ==
  ASSUME NEW t \in Threads, TypeOK, IndexInv, RefInv, BoundInv(t), HonestInv(t),
         MarkRetracted(t)
  PROVE  HonestInv(t)'
<1>0. cas[t].id \in Ids /\ EntryOK(t) /\ nodes \in [Ids -> Stored \cup {None}]
  BY DEF TypeOK, LocalsReady, MarkRetracted, RefInv, CascadeInv
<1>1. /\ pc[t] = "mark" /\ pc'[t] = "logRetract" /\ stack' = stack /\ cas' = cas
      /\ nodes' = [nodes EXCEPT ![cas[t].id] = Retracted(cas[t].node)]
      /\ nodes[cas[t].id].node = cas[t].node /\ forgotten' = forgotten
  BY <1>0 DEF MarkRetracted, local_vars, TypeOK, Goto, EntryOK
<1>2. ReachedInv(t) /\ NobodyMissed(t) /\ ~cas[t].truncated
  BY <1>1 DEF HonestInv, CascadeSteps, TruncatedInv
<1>3. ASSUME NEW i \in Ids, Follows(i)'
      PROVE  Follows(i) /\ i # cas[t].id /\ nodes'[i] = nodes[i]
  BY <1>0, <1>1, <1>3 DEF Follows, Retracted
<1>4. ASSUME NEW r \in RangeOf(cas[t].retracted) PROVE IsRetracted(r)'
  <2>1. Kept({}) /\ r \in Ids
    <3>1. Kept({})
      BY StepKept DEF StoreStep, RetractStep, PutNode, WriteBatch, MarkRetracted
    <3>2. cas[t].retracted \in Seq(Ids)
      BY LensTyped
    <3> QED BY <3>1, <3>2 DEF RangeOf
  <2> QED BY <1>2, <2>1 DEF ReachedInv, Kept
<1>5. NobodyMissed(t)'
  BY <1>1, <1>2, <1>3 DEF NobodyMissed, Awaits
<1> QED BY <1>1, <1>2, <1>4, <1>5 DEF HonestInv, EnterInv, ReachedInv, TruncatedInv

LEMMA HonestLog ==
  ASSUME NEW t \in Threads, TypeOK, RefInv, BoundInv(t), HonestInv(t), LogRetract(t)
  PROVE  HonestInv(t)'
<1>0. cas[t].id \in Ids /\ EntryOK(t) /\ cas[t] \in CascadeLocals
  BY DEF TypeOK, LocalsReady, LogRetract, RefInv, CascadeInv
<1>1. /\ pc[t] = "logRetract" /\ pc'[t] = "fan" /\ stack' = stack /\ nodes' = nodes
      /\ cas'[t].id = cas[t].id /\ cas'[t].limit = cas[t].limit
      /\ cas'[t].truncated = cas[t].truncated
      /\ cas'[t].retracted = Append(cas[t].retracted, cas[t].id) /\ forgotten' = forgotten
  BY <1>0 DEF LogRetract, store_vars, TypeOK, Goto, CascadeLocals
<1>2. ReachedInv(t) /\ NobodyMissed(t) /\ ~cas[t].truncated
  BY <1>1 DEF HonestInv, CascadeSteps, TruncatedInv
<1>3. RangeOf(cas'[t].retracted) = RangeOf(cas[t].retracted) \cup {cas[t].id}
  BY <1>0, <1>1, RangeAppend, LensTyped
<1>4. \A r \in RangeOf(cas'[t].retracted) : IsRetracted(r)'
  BY <1>0, <1>1, <1>2, <1>3 DEF ReachedInv, EntryOK, IsRetracted
<1>5. NobodyMissed(t)'
  BY <1>1, <1>2, <1>3 DEF NobodyMissed, Awaits, Follows
<1> QED BY <1>1, <1>2, <1>3, <1>4, <1>5 DEF HonestInv, EnterInv, ReachedInv, TruncatedInv

\* The dependents copied out of deps_rev are all there are: nothing is being
\* inserted while the only client retracts.
LEMMA HonestFan ==
  ASSUME OneClient, NEW t \in Threads, TypeOK, IndexInv, HonestInv(t), FanOut(t)
  PROVE  HonestInv(t)'
<1>0. cas[t].id \in Ids
  BY DEF TypeOK, LocalsReady, FanOut
<1>1. /\ pc[t] = "fan" /\ pc'[t] = "loop" /\ cas' = cas /\ nodes' = nodes
      /\ stack'[t] = Append(stack[t], [id |-> cas[t].id, todo |-> deps_rev[cas[t].id]])
      /\ forgotten' = forgotten
  BY DEF FanOut, store_vars, TypeOK, Goto
<1>2. ReachedInv(t) /\ NobodyMissed(t) /\ ~cas[t].truncated
  BY <1>1 DEF HonestInv, CascadeSteps, TruncatedInv
<1>3. PICK f \in Frame : f = [id |-> cas[t].id, todo |-> deps_rev[cas[t].id]]
  BY <1>0 DEF TypeOK, Frame
<1>4. RangeOf(stack'[t]) = RangeOf(stack[t]) \cup {f}
  <2>1. stack[t] \in Seq(Frame)
    BY DEF TypeOK, Frames, Frame
  <2> QED BY <1>1, <1>3, <2>1, RangeAppend
<1>5. ASSUME NEW i \in Ids, nodes[i] # None, i \notin forgotten, NEW d \in nodes[i].node.deps
      PROVE  i \in deps_rev[d]
  <2>1. PICK n \in Nodes : n = nodes[i].node
    BY <1>5, StoredNode
  <2>2. IndexedAs(n) /\ n.id = i
    BY <1>5, <2>1 DEF IndexInv, IndexesComplete, StoredById
  <2>3. ASSUME NEW u \in Threads PROVE ~DepPending(u, n, d)
    <3>1. u = t /\ InsertReady(u)
      BY DEF OneClient, IndexInv
    <3> QED BY <1>1, <3>1, NotInserting
  <2> QED BY <1>5, <2>1, <2>2, <2>3 DEF IndexedAs
<1>6. NobodyMissed(t)'
  BY <1>1, <1>2, <1>3, <1>4, <1>5 DEF NobodyMissed, Awaits, Follows
<1>7. \A g \in RangeOf(stack'[t]) : g.id \in RangeOf(cas[t].retracted)
  BY <1>1, <1>2, <1>3, <1>4 DEF ReachedInv
<1>8. \A r : IsRetracted(r)' <=> IsRetracted(r)
  BY <1>1 DEF IsRetracted
<1> QED BY <1>1, <1>2, <1>6, <1>7, <1>8 DEF HonestInv, EnterInv, ReachedInv, TruncatedInv

\* The loop over the dependents of a retracted node.
LEMMA HonestLoop ==
  ASSUME NEW t \in Threads, TypeOK, RefInv, BoundInv(t), HonestInv(t),
         SkipDependent(t) \/ Truncate(t) \/ Recurse(t) \/ ReturnFromFrame(t)
  PROVE  HonestInv(t)'
<1>0. /\ cas[t] \in CascadeLocals /\ cas[t].limit \in Nat /\ Len(cas[t].retracted) \in Nat
      /\ forgotten' = forgotten
  BY LensTyped, ForgottenKept DEF TypeOK, StoreStep, RetractStep
<1>1. /\ pc[t] = "loop" /\ stack[t] # <<>> /\ nodes' = nodes
      /\ cas'[t].retracted = cas[t].retracted /\ cas'[t].limit = cas[t].limit
  <2>0. cas \in [Threads -> CascadeLocals]
    BY DEF TypeOK
  <2>1. CASE SkipDependent(t)
    BY <1>0, <2>0, <2>1 DEF SkipDependent, Looping, store_vars, CascadeLocals
  <2>2. CASE Truncate(t)
    BY <1>0, <2>0, <2>2 DEF Truncate, Looping, store_vars, CascadeLocals
  <2>3. CASE Recurse(t)
    BY <1>0, <2>0, <2>3 DEF Recurse, Looping, store_vars, CascadeLocals
  <2>4. CASE ReturnFromFrame(t)
    BY <1>0, <2>0, <2>4 DEF ReturnFromFrame, Looping, store_vars, CascadeLocals
  <2> QED BY <2>1, <2>2, <2>3, <2>4
<1>2. ReachedInv(t) /\ TruncatedInv(t)
  BY <1>1 DEF HonestInv, CascadeSteps
<1>3. /\ \A i : Follows(i)' <=> Follows(i)
      /\ \A r : IsRetracted(r)' <=> IsRetracted(r)
  BY <1>1 DEF Follows, IsRetracted
<1>4. Top(t).id \in Ids /\ Top(t).todo \in SUBSET Ids
  BY <1>1, TopTyped
<1>5. /\ RangeOf(stack[t]) = RangeOf(Popped(t)) \cup {Top(t)}
      /\ Top(t).id \in RangeOf(cas[t].retracted)
  BY <1>1, <1>2, TopInRange DEF ReachedInv
<1>6. ASSUME NEW ids \in SUBSET Ids, SetTodo(t, ids)
      PROVE  /\ RangeOf(stack'[t]) = RangeOf(Popped(t)) \cup {[id |-> Top(t).id, todo |-> ids]}
             /\ \A f \in RangeOf(stack'[t]) : f.id \in RangeOf(cas[t].retracted)
  <2>1. RangeOf(stack'[t]) = RangeOf(Popped(t)) \cup {[id |-> Top(t).id, todo |-> ids]}
    BY <1>1, <1>6, FramesSet
  <2> QED BY <1>2, <1>5, <2>1 DEF ReachedInv
\* Who is awaited is in the top frame or in one below.
<1>w. ASSUME NobodyMissed(t), NEW i \in Ids, NEW r \in RangeOf(cas[t].retracted), Follows(i),
             i \notin forgotten, r \in nodes[i].node.deps
      PROVE  \/ Top(t).id = r /\ i \in Top(t).todo
             \/ \E f \in RangeOf(Popped(t)) : f.id = r /\ i \in f.todo
  BY <1>1, <1>5, <1>w DEF NobodyMissed, Awaits
<1>7. CASE SkipDependent(t)
  <2>1. PICK d \in Top(t).todo : ~Follows(d) /\ SetTodo(t, Top(t).todo \ {d})
    BY <1>7 DEF SkipDependent
  <2>2. pc' = pc /\ cas' = cas
    BY <1>7 DEF SkipDependent
  <2>3. /\ RangeOf(stack'[t]) =
             RangeOf(Popped(t)) \cup {[id |-> Top(t).id, todo |-> Top(t).todo \ {d}]}
        /\ \A f \in RangeOf(stack'[t]) : f.id \in RangeOf(cas[t].retracted)
    BY <1>4, <1>6, <2>1
  <2>4. ASSUME NobodyMissed(t) PROVE NobodyMissed(t)'
    <3>1. ASSUME NEW i \in Ids, NEW r \in RangeOf(cas[t].retracted), Follows(i),
                 i \notin forgotten, r \in nodes[i].node.deps
          PROVE  \E f \in RangeOf(stack'[t]) : f.id = r /\ i \in f.todo
      <4> DEFINE g == [id |-> Top(t).id, todo |-> Top(t).todo \ {d}]
      <4>1. CASE Top(t).id = r /\ i \in Top(t).todo
        <5>1. g \in RangeOf(stack'[t]) /\ g.id = r /\ i \in g.todo
          BY <2>1, <2>3, <3>1, <4>1
        <5> QED BY <5>1
      <4>2. CASE \E f \in RangeOf(Popped(t)) : f.id = r /\ i \in f.todo
        BY <2>3, <4>2
      <4> QED BY <1>w, <2>4, <3>1, <4>1, <4>2
    <3> QED BY <1>0, <1>1, <1>3, <2>2, <3>1 DEF NobodyMissed, Awaits
  <2>5. LeavesOrphan(t) => LeavesOrphan(t)'
    BY <1>1, <1>3, <2>2 DEF LeavesOrphan, LeftBehind
  <2> QED BY <1>1, <1>2, <1>3, <2>2, <2>3, <2>4, <2>5
          DEF HonestInv, EnterInv, ReachedInv, TruncatedInv, AtLimit
<1>8. CASE Truncate(t)
  <2>1. PICK d \in Top(t).todo : Follows(d)
    BY <1>8 DEF Truncate
  <2>2. SetTodo(t, {}) /\ pc' = pc /\ cas'[t].truncated /\ AtLimit(t)
    BY <1>0, <1>8 DEF Truncate, TypeOK, CascadeLocals
  <2>3. FrameOK(Top(t))
    BY <1>1, LastTyped DEF Top, RefInv, CascadeInv, TypeOK, Frames
  <2>4. d \in Ids /\ Top(t).id \in nodes[d].node.deps
    BY <1>4, <2>1, <2>3 DEF FrameOK, RefInv, DepsSound
  <2>5. LeavesOrphan(t)'
    BY <1>1, <1>3, <1>5, <2>1, <2>4 DEF LeavesOrphan, LeftBehind
  <2>6. \A f \in RangeOf(stack'[t]) : f.id \in RangeOf(cas[t].retracted)
    BY <1>6, <2>2
  <2> QED BY <1>1, <1>2, <1>3, <2>2, <2>5, <2>6
          DEF HonestInv, EnterInv, ReachedInv, TruncatedInv, AtLimit
<1>9. CASE Recurse(t)
  <2>1. PICK d \in Top(t).todo : /\ Follows(d) /\ SetTodo(t, Top(t).todo \ {d})
                                 /\ cas' = [cas EXCEPT ![t].id = d]
    BY <1>9 DEF Recurse
  <2>2. /\ pc'[t] = "enter" /\ ~AtLimit(t) /\ cas'[t].id = d
        /\ cas'[t].truncated = cas[t].truncated
    BY <1>0, <1>9, <2>1 DEF Recurse, TypeOK, Goto, CascadeLocals
  <2>3. /\ RangeOf(stack'[t]) =
             RangeOf(Popped(t)) \cup {[id |-> Top(t).id, todo |-> Top(t).todo \ {d}]}
        /\ \A f \in RangeOf(stack'[t]) : f.id \in RangeOf(cas[t].retracted)
    BY <1>4, <1>6, <2>1
  <2>4. NobodyMissed(t) /\ ~cas[t].truncated
    BY <1>2, <2>2 DEF TruncatedInv
  <2>5. NobodyMissed(t)'
    <3>1. ASSUME NEW i \in Ids, NEW r \in RangeOf(cas[t].retracted), Follows(i),
                 i \notin forgotten, r \in nodes[i].node.deps, i # d
          PROVE  \E f \in RangeOf(stack'[t]) : f.id = r /\ i \in f.todo
      <4> DEFINE g == [id |-> Top(t).id, todo |-> Top(t).todo \ {d}]
      <4>1. CASE Top(t).id = r /\ i \in Top(t).todo
        <5>1. g \in RangeOf(stack'[t]) /\ g.id = r /\ i \in g.todo
          BY <2>1, <2>3, <3>1, <4>1
        <5> QED BY <5>1
      <4>2. CASE \E f \in RangeOf(Popped(t)) : f.id = r /\ i \in f.todo
        BY <2>3, <4>2
      <4> QED BY <1>w, <2>4, <3>1, <4>1, <4>2
    <3> QED BY <1>0, <1>1, <1>3, <2>2, <3>1 DEF NobodyMissed, Awaits
  <2>6. EnterInv(t)'
    BY <1>1, <1>3, <2>1, <2>2 DEF EnterInv, AtLimit
  <2> QED BY <1>1, <1>2, <1>3, <2>2, <2>3, <2>4, <2>5, <2>6
          DEF HonestInv, ReachedInv, TruncatedInv
<1>10. CASE ReturnFromFrame(t)
  <2>1. Top(t).todo = {} /\ stack'[t] = Popped(t) /\ pc' = pc /\ cas' = cas
    BY <1>10 DEF ReturnFromFrame, TypeOK
  <2>2. NobodyMissed(t) => NobodyMissed(t)'
    BY <1>0, <1>1, <1>3, <1>5, <2>1 DEF NobodyMissed, Awaits
  <2>3. LeavesOrphan(t) => LeavesOrphan(t)'
    BY <1>1, <1>3, <2>1 DEF LeavesOrphan, LeftBehind
  <2>4. \A f \in RangeOf(stack'[t]) : f.id \in RangeOf(cas[t].retracted)
    BY <1>2, <1>5, <2>1 DEF ReachedInv
  <2> QED BY <1>1, <1>2, <1>3, <2>1, <2>2, <2>3, <2>4
          DEF HonestInv, EnterInv, ReachedInv, TruncatedInv, AtLimit
<1> QED BY <1>7, <1>8, <1>9, <1>10

LEMMA NextHonest ==
  ASSUME OneClient, TypeOK, IndexInv, RefInv, NEW t \in Threads, BoundInv(t), HonestInv(t),
         [Next]_vars
  PROVE  HonestInv(t)'
<1> USE DEF TypeOK, Goto, Reply, Fail
<1>1. CASE CallRetract(t)
  <2>1. PICK root \in Ids, limit \in Limits :
          cas' = [cas EXCEPT ![t] = [NoCascade EXCEPT !.root = root, !.limit = limit, !.id = root]]
    BY <1>1 DEF CallRetract, StartRetract
  <2>2. cas'[t].retracted = <<>> /\ cas'[t].truncated = FALSE
    BY <2>1 DEF NoCascade
  <2>3. pc'[t] = "enter" /\ stack'[t] = <<>>
    BY <1>1 DEF CallRetract, StartRetract, BoundInv
  <2>4. RangeOf(cas'[t].retracted) = {} /\ RangeOf(stack'[t]) = {}
    BY <2>2, <2>3 DEF RangeOf
  <2> QED BY <2>2, <2>3, <2>4
          DEF HonestInv, EnterInv, ReachedInv, TruncatedInv, NobodyMissed
<1>2. CASE RetractStep(t)
  <2>1. CASE EnterMissing(t) \/ NotifyRetract(t)
    BY <2>1 DEF EnterMissing, NotifyRetract, HonestInv, CascadeSteps
  <2> QED BY <1>2, <2>1, HonestEnter, HonestMark, HonestLog, HonestFan, HonestLoop DEF RetractStep
<1>3. CASE CallInsert(t) \/ CallBatch(t) \/ InsertStep(t)
  <2>1. pc'[t] \notin CascadeSteps
    <3>1. CASE CallInsert(t) \/ CallBatch(t) \/ RejectInvalid(t) \/ RejectDuplicate(t) \/ Admit(t)
      BY <3>1 DEF CallInsert, CallBatch, Call, RejectInvalid, RejectDuplicate, Admit, CascadeSteps
    <3>2. CASE LogInsert(t) \/ PutNode(t) \/ PutIndex(t) \/ WriteBatch(t)
      BY <3>2 DEF LogInsert, PutNode, PutIndex, WriteBatch, IndexEntries, CascadeSteps
    <3>3. CASE NextNode(t) \/ RegisterDep(t) \/ RegisterValidity(t) \/ NotifyInsert(t) \/ InsertDone(t)
      BY <3>3 DEF NextNode, RegisterDep, RegisterValidity, NotifyInsert, InsertDone, CascadeSteps
    <3> QED BY <1>3, <3>1, <3>2, <3>3 DEF InsertStep
  <2> QED BY <2>1 DEF HonestInv
<1>4. CASE StorageFails(t) \/ Crash
  BY <1>4 DEF StorageFails, Crash, HonestInv, CascadeSteps
<1>5. CASE UNCHANGED vars \/ \E s \in Subs : Poll(s)
  <2>1. UNCHANGED <<nodes, forgotten, pc, cas, stack>>
    BY <1>5 DEF vars, store_vars, local_vars, Poll
  <2> QED BY <2>1 DEF HonestInv, EnterInv, ReachedInv, TruncatedInv, NobodyMissed, Awaits,
                      LeavesOrphan, LeftBehind, AtLimit, Follows, IsRetracted
<1> QED BY <1>1, <1>2, <1>3, <1>4, <1>5 DEF Next, Finished, OneClient, ClientCall, StoreStep

LEMMA OneClientDisjoint == OneClient => DisjointOffers
BY DEF OneClient, DisjointOffers

\* With one client, on both backends and through storage failures and crashes,
\* a retraction reports `truncated` only when it left an active Derived node on a
\* node it retracted, or was given a limit of 0, and always then, save for nodes
\* that a failed rebuild has forgotten.
THEOREM TruncationAlwaysHonest ==
  ASSUME OneClient
  PROVE  Spec => []TruncationHonest
<1> DEFINE Bounds == \A t \in Threads : BoundInv(t)
           Honest == \A t \in Threads : HonestInv(t)
<1>1. Init => IndexInv /\ RefInv /\ Bounds /\ Honest
  <2>1. Init => Bounds /\ Honest
    BY DEF Init, NoCascade, BoundInv, HonestInv, CascadeSteps
  <2> QED BY <2>1, InitStore
<1>2. TypeOK /\ IndexInv /\ RefInv /\ [Next]_vars => RefInv'
  BY OneClientDisjoint, NextRef
<1>3. TypeOK /\ Bounds /\ [Next]_vars => Bounds'
  BY NextBound
<1>4. TypeOK /\ IndexInv /\ RefInv /\ Bounds /\ Honest /\ [Next]_vars => Honest'
  BY NextHonest
<1>5. Honest => TruncationHonest
  <2> SUFFICES ASSUME Honest, NEW t \in Threads, Reporting(t)
               PROVE  /\ cas[t].truncated => cas[t].limit = 0 \/ LeavesOrphan(t)
                      /\ cas[t].limit = 0 \/ LeftBehind(t) \ forgotten # {} => cas[t].truncated
    BY DEF TruncationHonest, LeavesOrphan
  <2>1. ReachedInv(t) /\ TruncatedInv(t) /\ pc[t] = "loop" /\ stack[t] = <<>>
    BY DEF HonestInv, CascadeSteps, Reporting
  <2>2. CASE ~cas[t].truncated
    <3>1. ASSUME NEW i \in Ids, NEW r PROVE ~Awaits(t, i, r)
      BY <2>1 DEF Awaits, RangeOf
    <3> QED BY <2>1, <2>2, <3>1 DEF ReachedInv, TruncatedInv, NobodyMissed, LeftBehind
  <2> QED BY <2>1, <2>2 DEF TruncatedInv
<1> QED BY <1>1, <1>2, <1>3, <1>4, <1>5, InitTypeOK, NextTypeOK, NextIndexed, PTL DEF Spec

-----------------------------------------------------------------------------
(* What a cascade does to its locals, and what a retraction reaches.       *)

SameRoot(t)  == cas'[t].root = cas[t].root /\ cas'[t].limit = cas[t].limit
SameReach(t) == SameRoot(t) /\ cas'[t].retracted = cas[t].retracted

CutsEntry(t) ==
  pc[t] = "enter" /\ pc'[t] = "loop" /\ AtLimit(t) /\ SameReach(t) /\ nodes' = nodes
Enters(t) ==
  /\ pc[t] = "enter" /\ ~AtLimit(t) /\ nodes[cas[t].id] # None
  /\ SameReach(t) /\ cas'[t].truncated = cas[t].truncated /\ cas'[t].id = cas[t].id
  /\ pc'[t] = IF IsRetracted(cas[t].id) THEN "loop" ELSE "mark"
  /\ nodes' = nodes
Marks(t) ==
  /\ MarkRetracted(t) /\ IsRetracted(cas[t].id)'
  /\ pc[t] = "mark" /\ pc'[t] = "logRetract" /\ cas'[t] = cas[t]
Counts(t) ==
  /\ pc[t] = "logRetract" /\ pc'[t] = "fan" /\ SameRoot(t) /\ nodes' = nodes
  /\ cas'[t].truncated = cas[t].truncated /\ cas'[t].id = cas[t].id
  /\ cas'[t].retracted = Append(cas[t].retracted, cas[t].id)
Walks(t) ==
  pc[t] \in {"fan", "loop"} /\ pc'[t] = "loop" /\ cas'[t] = cas[t] /\ nodes' = nodes
Cuts(t) ==
  /\ pc[t] = "loop" /\ pc'[t] = "loop" /\ AtLimit(t) /\ SameReach(t) /\ nodes' = nodes
  /\ \E d \in Ids : Follows(d)
Descends(t) ==
  /\ pc[t] = "loop" /\ pc'[t] = "enter" /\ ~AtLimit(t) /\ nodes' = nodes
  /\ SameReach(t) /\ cas'[t].truncated = cas[t].truncated
  /\ cas'[t].id \in Ids /\ Follows(cas'[t].id)
Reports(t) ==
  /\ Reporting(t) /\ pc'[t] = "idle" /\ nodes' = nodes
  /\ ret'[t].op = "retract" /\ ret'[t].result = "Ok"
  /\ ret'[t].root = cas[t].root /\ ret'[t].truncated = cas[t].truncated
Misses(t) ==
  /\ pc[t] = "enter" /\ nodes[cas[t].id] = None /\ pc'[t] = "idle" /\ nodes' = nodes
  /\ ret'[t].result = "NotFound" /\ ~ret'[t].truncated

LEMMA CascadeMoves ==
  ASSUME NEW t \in Threads, TypeOK, RetractStep(t)
  PROVE  \/ CutsEntry(t) \/ Enters(t) \/ Marks(t) \/ Counts(t) \/ Walks(t)
         \/ Cuts(t) \/ Descends(t) \/ Reports(t) \/ Misses(t)
<1> USE DEF TypeOK, Goto, SameRoot, SameReach, store_vars, local_vars
<1>0. cas[t] \in CascadeLocals /\ cas \in [Threads -> CascadeLocals] /\ LocalsReady(t)
  OBVIOUS
<1>1. CASE EnterAtLimit(t)
  BY <1>0, <1>1 DEF EnterAtLimit, CascadeLocals, CutsEntry
<1>2. CASE EnterMissing(t)
  BY <1>0, <1>2 DEF EnterMissing, Fail, Reply, NoReply, Misses
<1>3. CASE EnterRetracted(t) \/ EnterActive(t)
  <2>1. /\ SameReach(t) /\ cas'[t].truncated = cas[t].truncated /\ cas'[t].id = cas[t].id
    BY <1>0, <1>3 DEF EnterRetracted, EnterActive, CascadeLocals
  <2> QED BY <1>0, <1>3, <2>1 DEF EnterRetracted, EnterActive, Enters, IsRetracted
<1>4. CASE MarkRetracted(t)
  <2>1. nodes'[cas[t].id] = Retracted(cas[t].node) /\ cas[t].node \in Nodes
    BY <1>0, <1>4 DEF MarkRetracted, LocalsReady
  <2>2. IsRetracted(cas[t].id)'
    <3>1. cas' = cas
      BY <1>4 DEF MarkRetracted
    <3> QED BY <2>1, <3>1, NodesAssumption, NoneAssumption
            DEF IsRetracted, Retracted, NodesAssumption, NoneAssumption
  <2> QED BY <1>0, <1>4, <2>2 DEF MarkRetracted, Marks
<1>5. CASE LogRetract(t)
  BY <1>0, <1>5 DEF LogRetract, CascadeLocals, Counts
<1>6. CASE FanOut(t) \/ SkipDependent(t) \/ ReturnFromFrame(t)
  BY <1>0, <1>6 DEF FanOut, SkipDependent, ReturnFromFrame, Looping, Walks
<1>7. CASE Truncate(t)
  <2>1. PICK d \in Top(t).todo : Follows(d)
    BY <1>7 DEF Truncate
  <2>2. d \in Ids
    BY <1>7, <2>1, TopTyped DEF Truncate, Looping
  <2> QED BY <1>0, <1>7, <2>1, <2>2 DEF Truncate, Looping, CascadeLocals, Cuts
<1>8. CASE Recurse(t)
  <2>1. PICK d \in Top(t).todo : Follows(d) /\ cas' = [cas EXCEPT ![t].id = d]
    BY <1>8 DEF Recurse
  <2>2. d \in Ids
    BY <1>8, <2>1, TopTyped DEF Recurse, Looping
  <2>3. /\ SameReach(t) /\ cas'[t].truncated = cas[t].truncated /\ cas'[t].id = d
    BY <1>0, <2>1 DEF CascadeLocals
  <2> QED BY <1>0, <1>8, <2>1, <2>2, <2>3 DEF Recurse, Looping, Descends
<1>9. CASE NotifyRetract(t)
  BY <1>0, <1>9 DEF NotifyRetract, Reply, Reporting, Reports
<1> QED BY <1>1, <1>2, <1>3, <1>4, <1>5, <1>6, <1>7, <1>8, <1>9 DEF RetractStep

\* Past the entry of its first activation, a retraction with room has retracted
\* its root, or found it retracted.
RootInv(t) ==
  pc[t] \in CascadeSteps =>
    /\ cas[t].root \in Ids
    /\ cas[t].limit > 0 =>
         \/ IsRetracted(cas[t].root)
         \/ /\ pc[t] \in {"enter", "mark"}
            /\ cas[t].id = cas[t].root /\ cas[t].retracted = <<>>

\* A cascade counts every node once, and only what it counts is counted.
CountInv(t) ==
  pc[t] \in CascadeSteps =>
    /\ \A r \in RangeOf(cas[t].retracted) : IsRetracted(r)
    /\ Cardinality(RangeOf(cas[t].retracted)) = Len(cas[t].retracted)
    /\ pc[t] \in {"mark", "logRetract"} => cas[t].id \notin RangeOf(cas[t].retracted)
    /\ pc[t] = "enter" => cas[t].retracted = <<>> \/ ~AtLimit(t)
    /\ cas[t].truncated => cas[t].limit = 0 \/ cas[t].limit < Cardinality(Ids)

\* Where a step of t leaves a cascade.
LEMMA CascadeBegins ==
  ASSUME NEW t \in Threads, TypeOK, CallRetract(t)
  PROVE  /\ pc[t] = "idle" /\ pc'[t] = "enter" /\ nodes' = nodes
         /\ cas'[t].root \in Ids /\ cas'[t].id = cas'[t].root
         /\ cas'[t].retracted = <<>> /\ ~cas'[t].truncated
<1>1. PICK root \in Ids, limit \in Limits :
        cas' = [cas EXCEPT ![t] = [NoCascade EXCEPT !.root = root, !.limit = limit, !.id = root]]
  BY DEF CallRetract, StartRetract
<1> QED BY <1>1 DEF CallRetract, StartRetract, NoCascade, TypeOK, Goto, store_vars

LEMMA OutsideCascades ==
  ASSUME NEW t \in Threads, TypeOK, CallInsert(t) \/ CallBatch(t) \/ InsertStep(t) \/ StorageFails(t)
  PROVE  pc'[t] \notin CascadeSteps
<1> USE DEF TypeOK, Goto, CascadeSteps
<1>1. CASE CallInsert(t) \/ CallBatch(t) \/ RejectInvalid(t) \/ RejectDuplicate(t) \/ Admit(t)
  BY <1>1 DEF CallInsert, CallBatch, Call, RejectInvalid, RejectDuplicate, Admit, Fail, Reply
<1>2. CASE LogInsert(t) \/ PutNode(t) \/ PutIndex(t) \/ WriteBatch(t)
  BY <1>2 DEF LogInsert, PutNode, PutIndex, WriteBatch, IndexEntries
<1>3. CASE NextNode(t) \/ RegisterDep(t) \/ RegisterValidity(t) \/ NotifyInsert(t) \/ InsertDone(t)
  BY <1>3 DEF NextNode, RegisterDep, RegisterValidity, NotifyInsert, InsertDone, Reply
<1>4. CASE StorageFails(t)
  BY <1>4 DEF StorageFails, Fail, Reply
<1> QED BY <1>1, <1>2, <1>3, <1>4 DEF InsertStep

LEMMA RetractionsLast ==
  ASSUME TypeOK, IndexInv, RefInv, NEW t \in Threads, ClientCall(t) \/ StoreStep(t),
         NEW i \in Ids, IsRetracted(i)
  PROVE  IsRetracted(i)'
BY StepKept DEF Kept

LEMMA RootKept ==
  ASSUME TypeOK, IndexInv, RefInv, NEW t \in Threads, RootInv(t), ClientCall(t) \/ StoreStep(t)
  PROVE  RootInv(t)'
<1>0. /\ cas[t].limit \in Nat /\ Len(cas[t].retracted) \in Nat /\ cas[t].retracted \in Seq(Ids)
      /\ EntryOK(t)
  BY LensTyped DEF RefInv, CascadeInv
<1> USE DEF RootInv, CascadeSteps
<1>1. CASE CallRetract(t)
  BY <1>1, CascadeBegins
<1>2. CASE RetractStep(t)
  <2> USE DEF SameRoot, SameReach
  <2>1. CASE CutsEntry(t) \/ Enters(t)
    BY <1>0, <2>1 DEF CutsEntry, Enters, AtLimit, IsRetracted
  <2>2. CASE Marks(t)
    <3>1. ASSUME cas[t].root \in Ids, IsRetracted(cas[t].root), cas[t].root # cas[t].id
          PROVE  IsRetracted(cas[t].root)'
      <4>1. nodes' = [nodes EXCEPT ![cas[t].id] = Retracted(cas[t].node)]
        BY <2>2 DEF Marks, MarkRetracted
      <4> QED BY <2>2, <3>1, <4>1 DEF Marks, IsRetracted, TypeOK
    <3> QED BY <2>2, <3>1 DEF Marks
  <2>3. CASE Counts(t) \/ Walks(t) \/ Cuts(t)
    BY <2>3 DEF Counts, Walks, Cuts, IsRetracted
  <2>4. CASE Descends(t)
    BY <2>4 DEF Descends, IsRetracted
  <2>5. CASE Reports(t) \/ Misses(t)
    BY <2>5 DEF Reports, Misses
  <2> QED BY <1>2, <2>1, <2>2, <2>3, <2>4, <2>5, CascadeMoves
<1>3. CASE CallInsert(t) \/ CallBatch(t) \/ InsertStep(t) \/ StorageFails(t)
  BY <1>3, OutsideCascades
<1> QED BY <1>1, <1>2, <1>3 DEF ClientCall, StoreStep

LEMMA CountKept ==
  ASSUME IsFiniteSet(Ids), TypeOK, IndexInv, RefInv, NEW t \in Threads, BoundInv(t), CountInv(t),
         ClientCall(t) \/ StoreStep(t)
  PROVE  CountInv(t)'
<1> DEFINE R == RangeOf(cas[t].retracted)
<1>0. /\ cas[t].limit \in Nat /\ Len(cas[t].retracted) \in Nat /\ cas[t].retracted \in Seq(Ids)
      /\ Cardinality(Ids) \in Nat /\ EntryOK(t)
  BY LensTyped, FS_CardinalityType DEF RefInv, CascadeInv
<1>r. R \subseteq Ids /\ IsFiniteSet(R)
  <2>1. R \subseteq Ids
    BY <1>0 DEF RangeOf
  <2> QED BY <2>1, FS_Subset
\* One more node than a cascade has counted.
<1>c. ASSUME NEW d \in Ids \ R
      PROVE  /\ Cardinality(R \cup {d}) = Cardinality(R) + 1
             /\ Cardinality(R \cup {d}) <= Cardinality(Ids)
  BY <1>r, FS_AddElement, FS_Subset
<1>k. \A r \in R : IsRetracted(r) => IsRetracted(r)'
  BY <1>r, RetractionsLast
<1> HIDE DEF R
<1> USE DEF CascadeSteps
<1>1. CASE CallRetract(t)
  <2>1. /\ pc'[t] = "enter" /\ cas'[t].retracted = <<>> /\ ~cas'[t].truncated
        /\ RangeOf(cas'[t].retracted) = {} /\ Len(cas'[t].retracted) = 0
    BY <1>1, CascadeBegins DEF RangeOf
  <2> QED BY <2>1, FS_EmptySet DEF CountInv
<1>2. CASE RetractStep(t)
  <2> USE DEF SameRoot, SameReach, CountInv
  <2>1. CASE CutsEntry(t) \/ Enters(t)
    BY <1>0, <1>k, <2>1 DEF CutsEntry, Enters, AtLimit, R
  <2>2. CASE Marks(t)
    BY <1>k, <2>2 DEF Marks, R
  <2>3. CASE Counts(t)
    <3>1. cas[t].id \in Ids /\ IsRetracted(cas[t].id)
      BY <1>0, <2>3 DEF Counts, TypeOK, LocalsReady, EntryOK, IsRetracted
    <3>2. /\ RangeOf(cas'[t].retracted) = R \cup {cas[t].id}
          /\ Len(cas'[t].retracted) = Len(cas[t].retracted) + 1
      BY <1>0, <2>3, <3>1, RangeAppend, AppendProperties DEF Counts, R
    <3>3. cas[t].id \notin R
      BY <2>3 DEF Counts, R
    <3>4. Cardinality(R \cup {cas[t].id}) = Len(cas'[t].retracted)
      BY <1>c, <2>3, <3>1, <3>2, <3>3 DEF Counts, R
    <3>5. \A r \in RangeOf(cas'[t].retracted) : IsRetracted(r)'
      BY <1>k, <2>3, <3>1, <3>2 DEF Counts, IsRetracted, R
    <3> QED BY <2>3, <3>2, <3>4, <3>5 DEF Counts
  <2>4. CASE Walks(t)
    BY <1>k, <2>4 DEF Walks, R
  <2>5. CASE Cuts(t)
    <3>1. PICK d \in Ids : Follows(d)
      BY <2>5 DEF Cuts
    <3>2. d \notin R
      BY <2>5, <3>1 DEF Cuts, Follows, IsRetracted, R
    <3>3. Cardinality(R) = Len(cas[t].retracted) /\ Cardinality(R) < Cardinality(Ids)
      <4>1. Cardinality(R) = Len(cas[t].retracted)
        BY <2>5 DEF Cuts, R
      <4>2. /\ Cardinality(R \cup {d}) = Cardinality(R) + 1
            /\ Cardinality(R \cup {d}) <= Cardinality(Ids)
        BY <1>c, <3>1, <3>2
      <4> QED BY <1>0, <4>1, <4>2
    <3>4. cas[t].limit <= Len(cas[t].retracted)
      BY <2>5 DEF Cuts, AtLimit
    <3>5. cas[t].limit \in Nat /\ Len(cas[t].retracted) \in Nat /\ Cardinality(Ids) \in Nat
      BY <1>0, <1>c, FS_CardinalityType DEF R
    <3>6. cas[t].limit < Cardinality(Ids)
      BY <3>3, <3>4, <3>5
    <3> QED BY <1>k, <2>5, <3>6 DEF Cuts, R
  <2>6. CASE Descends(t)
    BY <1>k, <2>6 DEF Descends, AtLimit, R
  <2>7. CASE Reports(t) \/ Misses(t)
    BY <2>7 DEF Reports, Misses
  <2> QED BY <1>2, <2>1, <2>2, <2>3, <2>4, <2>5, <2>6, <2>7, CascadeMoves
<1>3. CASE CallInsert(t) \/ CallBatch(t) \/ InsertStep(t) \/ StorageFails(t)
  BY <1>3, OutsideCascades DEF CountInv
<1> QED BY <1>1, <1>2, <1>3 DEF ClientCall, StoreStep

\* What other threads do retracts more, and nothing less.
LEMMA OthersReach ==
  ASSUME TypeOK, IndexInv, RefInv, NEW t \in Threads, NEW u \in Threads, u # t,
         ClientCall(u) \/ StoreStep(u)
  PROVE  (RootInv(t) => RootInv(t)') /\ (CountInv(t) => CountInv(t)')
<1>1. pc'[t] = pc[t] /\ cas'[t] = cas[t]
  BY OtherThreads
<1>2. \A r \in Ids : IsRetracted(r) => IsRetracted(r)'
  BY RetractionsLast
<1>3. \A r \in RangeOf(cas[t].retracted) : r \in Ids
  BY LensTyped DEF RangeOf
<1> QED BY <1>1, <1>2, <1>3 DEF RootInv, CountInv, AtLimit

LEMMA NextReach ==
  ASSUME TypeOK, IndexInv, RefInv, NEW t \in Threads, BoundInv(t), [Next]_vars
  PROVE  /\ RootInv(t) => RootInv(t)'
         /\ IsFiniteSet(Ids) /\ CountInv(t) => CountInv(t)'
<1>1. ASSUME NEW u \in Threads, ClientCall(u) \/ StoreStep(u)
      PROVE  /\ RootInv(t) => RootInv(t)'
             /\ IsFiniteSet(Ids) /\ CountInv(t) => CountInv(t)'
  BY <1>1, RootKept, CountKept, OthersReach
<1>2. CASE UNCHANGED vars \/ \E s \in Subs : Poll(s)
  <2>1. UNCHANGED <<nodes, pc, cas>>
    BY <1>2 DEF vars, store_vars, local_vars, Poll
  <2> QED BY <2>1 DEF RootInv, CountInv, AtLimit, IsRetracted
<1>3. CASE Crash
  BY <1>3 DEF Crash, RootInv, CountInv, CascadeSteps
<1> QED BY <1>1, <1>2, <1>3 DEF Next, Finished

\* A retraction with a limit above 0 that returns Ok has retracted its root, and
\* one with room for every node there is is not cut short (store.rs:349-372).
RetractionsReach ==
  \A t \in Threads : Reporting(t) =>
    /\ cas[t].limit > 0 => IsRetracted(cas[t].root)
    /\ cas[t].truncated => cas[t].limit = 0 \/ cas[t].limit < Cardinality(Ids)

\* So it is among any clients that insert different ids, on both backends,
\* through storage failures and crashes.
THEOREM RetractionsAlwaysReach ==
  ASSUME DisjointOffers, IsFiniteSet(Ids)
  PROVE  Spec => []RetractionsReach
<1> DEFINE Bounds == \A t \in Threads : BoundInv(t)
           Reaches == \A t \in Threads : RootInv(t) /\ CountInv(t)
<1>1. Init => IndexInv /\ RefInv /\ Bounds /\ Reaches
  <2>1. Init => Bounds /\ Reaches
    BY DEF Init, NoCascade, BoundInv, RootInv, CountInv, CascadeSteps
  <2> QED BY <2>1, InitStore
<1>2. TypeOK /\ IndexInv /\ RefInv /\ [Next]_vars => RefInv'
  BY NextRef
<1>3. TypeOK /\ Bounds /\ [Next]_vars => Bounds'
  BY NextBound
<1>4. TypeOK /\ IndexInv /\ RefInv /\ Bounds /\ Reaches /\ [Next]_vars => Reaches'
  BY NextReach
<1>5. Reaches => RetractionsReach
  BY DEF RetractionsReach, RootInv, CountInv, Reporting, CascadeSteps
<1> QED BY <1>1, <1>2, <1>3, <1>4, <1>5, InitTypeOK, NextTypeOK, NextIndexed, PTL DEF Spec

-----------------------------------------------------------------------------
(* The subscribers of a single client.                                     *)

EventsAbout(s, i) == {k \in 1..Len(events[s]) : i \in Named(events[s][k])}

\* What s will conclude about i once it has polled its queue.
EventsSay(s, i, status) ==
  \/ EventsAbout(s, i) = {} /\ status = view[s][i]
  \/ \E k \in EventsAbout(s, i) :
       /\ \A j \in EventsAbout(s, i) : j <= k
       /\ status = IF events[s][k].type = "Inserted" THEN "Active" ELSE "Retracted"

TellsInsert(t, i) == \E n \in Nodes : n.id = i /\ Untold(t, n)
TellsRetract(t, i) ==
  pc[t] \in CascadeSteps /\ (i \in RangeOf(cas[t].retracted) \/ LogsNext(t, i))

\* SubscribersCurrent between the steps of a call: s knows i's status, or will
\* be told by the call in progress.
TellInv(s, i) ==
  s \in subs /\ nodes[i] # None /\ nodes[i].node \in Watches[s] =>
    \/ /\ EventsSay(s, i, StatusOf(i)) \/ (i \in spared /\ EventsSay(s, i, "Retracted"))
       /\ \A t \in Threads : ~TellsInsert(t, i)
    \/ IsRetracted(i) /\ \E t \in Threads : TellsRetract(t, i)
    \/ ~IsRetracted(i) /\ \E t \in Threads : TellsInsert(t, i)

LEMMA EventsPushed ==
  ASSUME TypeOK, NEW receivers, NEW e \in Event, Push(receivers, e), view' = view,
         NEW s \in Subs, NEW i \in Ids
  PROVE  /\ s \in receivers /\ i \in Named(e)
              => EventsSay(s, i, IF e.type = "Inserted" THEN "Active" ELSE "Retracted")'
         /\ s \notin receivers \/ i \notin Named(e)
              => \A status : EventsSay(s, i, status) => EventsSay(s, i, status)'
<1>0. events[s] \in Seq(Event) /\ Len(events[s]) \in Nat
  BY DEF TypeOK
<1>1. CASE s \notin receivers
  <2>1. events'[s] = events[s]
    BY <1>1 DEF Push
  <2> QED BY <1>1, <2>1 DEF EventsSay, EventsAbout
<1>2. CASE s \in receivers
  <2>1. events'[s] = Append(events[s], e)
    BY <1>2 DEF Push
  <2>2. /\ Len(events'[s]) = Len(events[s]) + 1 /\ events'[s][Len(events[s]) + 1] = e
        /\ \A k \in 1..Len(events[s]) : events'[s][k] = events[s][k]
    BY <1>0, <2>1, AppendProperties
  <2>3. ASSUME i \in Named(e)
        PROVE  EventsSay(s, i, IF e.type = "Inserted" THEN "Active" ELSE "Retracted")'
    <3>1. Len(events[s]) + 1 \in EventsAbout(s, i)'
      BY <1>0, <2>2, <2>3 DEF EventsAbout
    <3>2. \A j \in EventsAbout(s, i)' : j <= Len(events[s]) + 1
      BY <1>0, <2>2 DEF EventsAbout
    <3> QED BY <2>2, <3>1, <3>2 DEF EventsSay
  <2>4. ASSUME i \notin Named(e), NEW status, EventsSay(s, i, status)
        PROVE  EventsSay(s, i, status)'
    <3>1. EventsAbout(s, i)' = EventsAbout(s, i)
      BY <1>0, <2>2, <2>4 DEF EventsAbout
    <3>2. \A k \in EventsAbout(s, i) : events'[s][k] = events[s][k]
      BY <2>2 DEF EventsAbout
    <3> QED BY <2>4, <3>1, <3>2 DEF EventsSay
  <2> QED BY <1>2, <2>3, <2>4
<1> QED BY <1>1, <1>2

\* Polling concludes what the queue says.
LEMMA EventsPolled ==
  ASSUME TypeOK, NEW u \in Subs, Poll(u), NEW s \in Subs, NEW i \in Ids,
         NEW status, EventsSay(s, i, status)
  PROVE  EventsSay(s, i, status)'
<1>1. CASE s # u
  BY <1>1 DEF Poll, TypeOK, EventsSay, EventsAbout
<1>2. CASE s = u
  <2>1. /\ events'[s] = <<>> /\ view'[s] = Believe(view[s], events[s])
    BY <1>2 DEF Poll, TypeOK
  <2>2. EventsAbout(s, i)' = {}
    BY <2>1 DEF EventsAbout
  <2> DEFINE E == EventsAbout(s, i)
  <2>3. CASE E = {}
    BY <2>1, <2>2, <2>3 DEF EventsSay, EventsAbout, Believe
  <2>4. CASE E # {}
    <3>1. PICK k \in E : /\ \A j \in E : j <= k
                         /\ status = IF events[s][k].type = "Inserted" THEN "Active" ELSE "Retracted"
      BY <2>4 DEF EventsSay
    <3>2. \A j \in E : j \in Nat
      BY DEF EventsAbout
    <3>3. (CHOOSE m \in E : \A j \in E : j <= m) = k
      BY <3>1, <3>2
    <3>4. view'[s][i] = status
      BY <2>1, <2>4, <3>1, <3>3 DEF Believe, EventsAbout
    <3> QED BY <2>2, <3>4 DEF EventsSay
  <2> QED BY <2>3, <2>4
<1> QED BY <1>1, <1>2

LEMMA EventWriters ==
  ASSUME NEW t \in Threads, ClientCall(t) \/ StoreStep(t)
  PROVE  /\ subs' = subs /\ view' = view /\ spared \subseteq spared'
         /\ events' = events \/ NotifyInsert(t) \/ NotifyRetract(t)
<1> USE DEF event_vars
<1>1. CASE ClientCall(t) \/ StorageFails(t)
  BY <1>1 DEF ClientCall, CallInsert, CallBatch, Call, CallRetract, StartRetract, StorageFails, Fail
<1>2. CASE InsertStep(t)
  BY <1>2 DEF InsertStep, RejectInvalid, RejectDuplicate, Admit, LogInsert, PutNode, PutIndex,
              WriteBatch, IndexEntries, NextNode, RegisterDep, RegisterValidity, NotifyInsert,
              InsertDone, Fail
<1>3. CASE RetractStep(t)
  BY <1>3 DEF RetractStep, EnterAtLimit, EnterMissing, EnterRetracted, EnterActive, MarkRetracted,
              LogRetract, FanOut, SkipDependent, Truncate, Recurse, ReturnFromFrame, NotifyRetract, Fail
<1> QED BY <1>1, <1>2, <1>3 DEF StoreStep

LEMMA TellMoves ==
  ASSUME NEW t \in Threads, TypeOK, IndexInv, LoadInv(t), ~Persistent,
         ClientCall(t) \/ StoreStep(t), NEW i \in Ids
  PROVE  /\ TellsInsert(t, i) => TellsInsert(t, i)' \/ (NotifyInsert(t) /\ ins[t].node.id = i)
         /\ TellsInsert(t, i)' => TellsInsert(t, i) \/ (PutNode(t) /\ ins'[t].node.id = i)
<1>1. ASSUME NEW n \in Nodes
      PROVE  Untold(t, n)' <=>
               /\ Untold(t, n) \/ (PutNode(t) /\ n = ins'[t].node)
               /\ ~(NotifyInsert(t) /\ n = ins[t].node)
  BY OwedMoves
<1>2. ASSUME TellsInsert(t, i)
      PROVE  TellsInsert(t, i)' \/ (NotifyInsert(t) /\ ins[t].node.id = i)
  <2>1. PICK n \in Nodes : n.id = i /\ Untold(t, n)
    BY <1>2 DEF TellsInsert
  <2>2. Untold(t, n)' \/ (NotifyInsert(t) /\ n = ins[t].node)
    BY <1>1, <2>1
  <2> QED BY <2>1, <2>2 DEF TellsInsert
<1>3. ASSUME TellsInsert(t, i)'
      PROVE  TellsInsert(t, i) \/ (PutNode(t) /\ ins'[t].node.id = i)
  <2>1. PICK n \in Nodes : n.id = i /\ Untold(t, n)'
    BY <1>3 DEF TellsInsert
  <2>2. Untold(t, n) \/ (PutNode(t) /\ n = ins'[t].node)
    BY <1>1, <2>1
  <2> QED BY <2>1, <2>2 DEF TellsInsert
<1> QED BY <1>2, <1>3

\* What a cascade has to tell stays to be told until it tells it: the call
\* never fails with nodes retracted, since NotFound needs a dependent that
\* disappears.
LEMMA RetractTells ==
  ASSUME NEW t \in Threads, TypeOK, HonestInv(t), ~Persistent, ClientCall(t) \/ StoreStep(t),
         NEW i \in Ids, TellsRetract(t, i), ~NotifyRetract(t)
  PROVE  TellsRetract(t, i)'
<1>0. /\ pc[t] \in CascadeSteps /\ cas[t] \in CascadeLocals /\ cas[t].retracted \in Seq(Ids)
      /\ LocalsReady(t)
  BY LensTyped DEF TellsRetract, TypeOK
<1> USE DEF TypeOK, Goto, CascadeSteps
<1>1. ~(ClientCall(t) \/ StorageFails(t))
  BY <1>0 DEF ClientCall, CallInsert, CallBatch, Call, CallRetract, StartRetract, StorageFails
<1>2. ~InsertStep(t)
  BY <1>0 DEF InsertStep, RejectInvalid, RejectDuplicate, Admit, LogInsert, PutNode, PutIndex,
              WriteBatch, NextNode, RegisterDep, RegisterValidity, NotifyInsert, InsertDone,
              TellsRetract, LogsNext
<1>3. CASE LogRetract(t)
  <2>1. cas'[t].retracted = Append(cas[t].retracted, cas[t].id) /\ pc'[t] = "fan"
    BY <1>0, <1>3 DEF LogRetract, CascadeLocals
  <2>2. cas[t].id \in Ids
    BY <1>0, <1>3 DEF LogRetract, LocalsReady
  <2> QED BY <1>0, <2>1, <2>2, RangeAppend DEF TellsRetract, LogsNext
<1>4. CASE EnterMissing(t)
  <2>1. ~Follows(cas[t].id) /\ pc[t] = "enter"
    BY <1>4 DEF EnterMissing, Follows
  <2>2. cas[t].retracted = <<>>
    BY <2>1 DEF HonestInv, EnterInv
  <2> QED BY <2>1, <2>2 DEF TellsRetract, LogsNext, RangeOf
<1>5. CASE RetractStep(t) /\ ~LogRetract(t) /\ ~EnterMissing(t)
  <2>1. pc[t] # "logRetract"
    BY <1>5, RetractMoves
  <2>2. pc'[t] \in CascadeSteps /\ cas'[t].retracted = cas[t].retracted
    <3>1. CASE EnterAtLimit(t) \/ EnterRetracted(t) \/ EnterActive(t)
      BY <1>0, <3>1 DEF EnterAtLimit, EnterRetracted, EnterActive, CascadeLocals
    <3>2. CASE MarkRetracted(t) \/ FanOut(t) \/ SkipDependent(t) \/ ReturnFromFrame(t)
      BY <1>0, <3>2 DEF MarkRetracted, FanOut, SkipDependent, ReturnFromFrame, local_vars
    <3>3. CASE Truncate(t)
      BY <1>0, <3>3 DEF Truncate, CascadeLocals
    <3>4. CASE Recurse(t)
      <4>1. PICK d \in Top(t).todo : cas' = [cas EXCEPT ![t].id = d]
        BY <3>4 DEF Recurse
      <4> QED BY <1>0, <3>4, <4>1 DEF Recurse, CascadeLocals
    <3>5. CASE NotifyRetract(t)
      BY <3>5
    <3> QED BY <1>5, <3>1, <3>2, <3>3, <3>4, <3>5 DEF RetractStep
  <2> QED BY <2>1, <2>2 DEF TellsRetract, LogsNext
<1> QED BY <1>1, <1>2, <1>3, <1>4, <1>5 DEF StoreStep

\* A step that changes neither i's status nor what is said about it.
LEMMA TellQuiet ==
  ASSUME OneClient, ~Persistent, NEW t \in Threads, TypeOK, IndexInv, LoadInv(t), HonestInv(t),
         ClientCall(t) \/ StoreStep(t), NEW s \in Subs, NEW i \in Ids, TellInv(s, i),
         ~NotifyRetract(t), ~(NotifyInsert(t) /\ ins[t].node.id = i),
         ~(PutNode(t) /\ ins'[t].node.id = i), nodes'[i] = nodes[i]
  PROVE  TellInv(s, i)'
<1>1. /\ StatusOf(i)' = StatusOf(i) /\ (IsRetracted(i)' <=> IsRetracted(i)) /\ subs' = subs
      /\ spared \subseteq spared'
  BY EventWriters DEF StatusOf, IsRetracted
<1>2. ASSUME NEW status, EventsSay(s, i, status) PROVE EventsSay(s, i, status)'
  <2>1. CASE events' = events
    BY <1>2, <2>1, EventWriters DEF EventsSay, EventsAbout
  <2>2. CASE NotifyInsert(t)
    <3>1. ins[t].node \in Nodes /\ ins[t].node.id \in Ids
      BY <2>2, NodeFacts DEF NotifyInsert, TypeOK, LocalsReady
    <3>2. PICK e \in Event :
            e = [type |-> "Inserted", root |-> ins[t].node.id, ids |-> {ins[t].node.id}]
      BY <3>1 DEF Event
    <3>3. i \notin Named(e)
      BY <2>2, <3>2 DEF Named
    <3> QED BY <1>2, <2>2, <3>2, <3>3, EventWriters, EventsPushed DEF NotifyInsert
  <2> QED BY <2>1, <2>2, EventWriters
<1>3. TellsInsert(t, i)' <=> TellsInsert(t, i)
  BY TellMoves
<1>4. TellsRetract(t, i) => TellsRetract(t, i)'
  BY RetractTells
<1>5. \A u \in Threads : u = t
  BY DEF OneClient
<1> QED BY <1>1, <1>2, <1>3, <1>4, <1>5 DEF TellInv

\* Subscribers hear of an insertion from the thread that made it.
LEMMA TellPut ==
  ASSUME NEW t \in Threads, TypeOK, IndexInv, LoadInv(t), ~Persistent, PutNode(t),
         NEW s \in Subs, NEW i \in Ids, ins'[t].node.id = i
  PROVE  TellInv(s, i)'
<1>1. PICK n \in ins[t].todo : nodes' = [nodes EXCEPT ![n.id] = Active(n)] /\ ins'[t].node = n
  <2>1. PICK n \in ins[t].todo :
          /\ nodes' = [nodes EXCEPT ![n.id] = Active(n)]
          /\ ins' = [ins EXCEPT ![t].todo = @ \ {n}, ![t].node = n, ![t].keys = n.keys]
    BY DEF PutNode
  <2> QED BY <2>1 DEF TypeOK, InsertLocals
<1>2. n \in Nodes
  BY DEF TypeOK, InsertLocals
<1>3. ~IsRetracted(i)'
  BY <1>1 DEF IsRetracted, Active, TypeOK
<1>4. Untold(t, n)'
  BY <1>1, OwedMoves DEF StoreStep, InsertStep, PutNode, NotifyInsert
<1> QED BY <1>1, <1>2, <1>3, <1>4 DEF TellInv, TellsInsert

LEMMA TellMark ==
  ASSUME NEW t \in Threads, TypeOK, RefInv, MarkRetracted(t), NEW s \in Subs, NEW i \in Ids,
         cas[t].id = i
  PROVE  TellInv(s, i)'
<1>1. nodes'[i] = Retracted(cas[t].node) /\ cas[t].node \in Nodes
  BY DEF MarkRetracted, TypeOK, LocalsReady
<1>2. IsRetracted(i)'
  BY <1>1, NodesAssumption, NoneAssumption
  DEF IsRetracted, Retracted, NodesAssumption, NoneAssumption
<1>3. TellsRetract(t, i)'
  BY DEF TellsRetract, LogsNext, CascadeSteps, MarkRetracted, Goto, local_vars, TypeOK
<1> QED BY <1>2, <1>3 DEF TellInv

LEMMA TellInsertion ==
  ASSUME OneClient, ~Persistent, NEW t \in Threads, TypeOK, IndexInv, RefInv, LoadInv(t),
         NotifyInsert(t), NEW s \in Subs, NEW i \in Ids, TellInv(s, i), ins[t].node.id = i
  PROVE  TellInv(s, i)'
<1> DEFINE n == ins[t].node
<1>1. /\ pc[t] = "notify" /\ n \in Nodes /\ n \in ins[t].load /\ n \notin ins[t].todo
      /\ ins[t].todo \subseteq ins[t].load /\ nodes' = nodes /\ subs' = subs
      /\ pc[t] \in {"notify"}
  BY DEF NotifyInsert, TypeOK, LocalsReady, LoadInv, IndexInv, InsertReady, InsertSteps, store_vars
<1>2. \A m \in ins[t].load : Holds(m)
  BY <1>1 DEF RefInv, FreshInv, Written
<1>3. /\ ~TellsRetract(t, i) /\ TellsInsert(t, i)
  BY <1>1 DEF TellsRetract, TellsInsert, Untold, Written, CascadeSteps
<1>4. ~TellsInsert(t, i)'
  <2>1. ASSUME NEW m \in Nodes, m.id = i, Untold(t, m)' PROVE FALSE
    <3>1. Untold(t, m) /\ m # n
      BY <2>1, OwedMoves DEF StoreStep, InsertStep, PutNode, NotifyInsert
    <3>2. m \in ins[t].load
      BY <1>1, <3>1 DEF Untold, Unregistered
    <3> QED BY <1>1, <1>2, <2>1, <3>1, <3>2 DEF Holds
  <2> QED BY <2>1 DEF TellsInsert
<1>5. PICK e \in Event : e = [type |-> "Inserted", root |-> i, ids |-> {i}] /\ i \in Named(e)
  <2>1. [type |-> "Inserted", root |-> i, ids |-> {i}] \in Event
    BY DEF Event
  <2> QED BY <2>1 DEF Named
<1>6. ASSUME s \in subs, nodes[i] # None, nodes[i].node \in Watches[s]
      PROVE  EventsSay(s, i, StatusOf(i))'
  <2>1. StatusOf(i)' = "Active"
    <3>1. ~IsRetracted(i)
      BY <1>3, <1>6 DEF TellInv, OneClient
    <3> QED BY <1>1, <1>6, <3>1, StoredNode DEF StatusOf, IsRetracted, Status
  <2>2. n \in Watches[s]
    BY <1>1, <1>2, <1>6 DEF Holds
  <2> QED BY <1>5, <1>6, <2>1, <2>2, EventsPushed DEF NotifyInsert
<1> QED BY <1>1, <1>4, <1>6 DEF TellInv, OneClient

LEMMA TellRetraction ==
  ASSUME OneClient, NEW t \in Threads, TypeOK, HonestInv(t), RootInv(t), NotifyRetract(t),
         NEW s \in Subs, NEW i \in Ids, TellInv(s, i)
  PROVE  TellInv(s, i)'
<1>1. /\ pc[t] = "loop" /\ pc'[t] = "idle" /\ nodes' = nodes /\ subs' = subs /\ view' = view
      /\ spared' = IF cas[t].limit = 0 THEN spared \cup {cas[t].root} ELSE spared
      /\ cas[t].limit \in Nat
  BY LensTyped DEF NotifyRetract, Reply, Goto, TypeOK, store_vars
<1>2. ~TellsInsert(t, i) /\ ~TellsInsert(t, i)'
  BY <1>1 DEF TellsInsert, Untold, Unregistered, Written
<1>3. StatusOf(i)' = StatusOf(i)
  BY <1>1 DEF StatusOf
<1>4. PICK e \in Event : e = RetractEvent(t)
  <2>1. cas[t].retracted \in Seq(Ids) /\ cas[t].root \in Ids
    BY <1>1, LensTyped DEF TypeOK, LocalsReady
  <2>2. RangeOf(cas[t].retracted) \in SUBSET Ids
    BY <2>1 DEF RangeOf
  <2> QED BY <2>1, <2>2 DEF Event, RetractEvent
<1>5. Push(subs, e) /\ e.type = "Retracted"
      /\ Named(e) = {cas[t].root} \cup RangeOf(cas[t].retracted)
  BY <1>4 DEF NotifyRetract, RetractEvent, Named
<1>6. ASSUME s \in subs, nodes[i] # None, nodes[i].node \in Watches[s]
      PROVE  EventsSay(s, i, StatusOf(i))' \/ (i \in spared' /\ EventsSay(s, i, "Retracted")')
  <2>1. CASE i \in Named(e)
    <3>1. EventsSay(s, i, "Retracted")'
      BY <1>1, <1>4, <1>5, <1>6, <2>1, EventsPushed
    <3>2. StatusOf(i) = "Retracted" \/ i \in spared'
      <4>1. CASE i \in RangeOf(cas[t].retracted)
        BY <1>1, <4>1 DEF HonestInv, ReachedInv, CascadeSteps, IsRetracted, StatusOf
      <4>2. CASE i = cas[t].root /\ cas[t].limit > 0
        BY <1>1, <4>2 DEF RootInv, CascadeSteps, IsRetracted, StatusOf
      <4>3. CASE i = cas[t].root /\ cas[t].limit = 0
        BY <1>1, <4>3
      <4> QED BY <1>1, <1>5, <2>1, <4>1, <4>2, <4>3
    <3> QED BY <1>3, <3>1, <3>2
  <2>2. CASE i \notin Named(e)
    <3>1. ~TellsRetract(t, i)
      BY <1>1, <1>5, <2>2 DEF TellsRetract, LogsNext
    <3>2. EventsSay(s, i, StatusOf(i)) \/ (i \in spared /\ EventsSay(s, i, "Retracted"))
      BY <1>2, <1>6, <3>1 DEF TellInv, OneClient
    <3> QED BY <1>1, <1>3, <1>4, <1>5, <2>2, <3>2, EventsPushed
  <2> QED BY <2>1, <2>2
<1> QED BY <1>1, <1>2, <1>6 DEF TellInv, OneClient

LEMMA NextTell ==
  ASSUME OneClient, ~Persistent, TypeOK, IndexInv, RefInv, \A t \in Threads : LoadInv(t),
         \A t \in Threads : HonestInv(t) /\ RootInv(t), [Next]_vars,
         NEW s \in Subs, NEW i \in Ids, TellInv(s, i)
  PROVE  TellInv(s, i)'
<1>1. ASSUME NEW t \in Threads, ClientCall(t) \/ StoreStep(t) PROVE TellInv(s, i)'
  <2>1. CASE NotifyRetract(t)
    BY <2>1, TellRetraction
  <2>2. CASE NotifyInsert(t) /\ ins[t].node.id = i
    BY <2>2, TellInsertion
  <2>3. CASE PutNode(t) /\ ins'[t].node.id = i
    BY <2>3, TellPut
  <2>4. CASE MarkRetracted(t) /\ cas[t].id = i
    BY <2>4, TellMark
  <2> QED BY <1>1, <2>1, <2>2, <2>3, <2>4, TellQuiet, StatusChanges
<1>2. CASE UNCHANGED vars \/ \E u \in Subs : Poll(u)
  <2>1. UNCHANGED <<nodes, subs, spared, pc, ins, cas>>
    BY <1>2 DEF vars, store_vars, event_vars, local_vars, Poll
  <2>2. \A t \in Threads : /\ TellsInsert(t, i)' <=> TellsInsert(t, i)
                           /\ TellsRetract(t, i)' <=> TellsRetract(t, i)
    BY <2>1 DEF TellsInsert, Untold, Unregistered, Written, TellsRetract, LogsNext
  <2>3. ASSUME NEW status, EventsSay(s, i, status) PROVE EventsSay(s, i, status)'
    <3>1. CASE UNCHANGED vars
      BY <2>3, <3>1 DEF EventsSay, EventsAbout, vars, event_vars
    <3>2. CASE \E u \in Subs : Poll(u)
      BY <2>3, <3>2, EventsPolled
    <3> QED BY <1>2, <3>1, <3>2
  <2> QED BY <2>1, <2>2, <2>3 DEF TellInv, StatusOf, IsRetracted
<1>3. ~Crash
  BY DEF Crash
<1> QED BY <1>1, <1>2, <1>3 DEF Next, Finished

\* With one client, a subscriber that has polled every event knows the status
\* of every node it watches, save for the roots of retractions with limit 0.
THEOREM SubscribersAlwaysCurrent ==
  ASSUME OneClient, ~Persistent
  PROVE  Spec => []SubscribersCurrent
<1> DEFINE Loads == \A t \in Threads : LoadInv(t)
           Bounds == \A t \in Threads : BoundInv(t)
           Honest == \A t \in Threads : HonestInv(t)
           Roots == \A t \in Threads : RootInv(t)
           Tells == \A s \in Subs, i \in Ids : TellInv(s, i)
<1>1. Init => IndexInv /\ RefInv /\ Loads /\ Bounds /\ Honest /\ Roots /\ Tells
  <2>1. Init => Bounds /\ Honest /\ Roots /\ Tells
    BY DEF Init, NoCascade, BoundInv, HonestInv, RootInv, CascadeSteps, TellInv
  <2> QED BY <2>1, InitStore
<1>2. TypeOK /\ IndexInv /\ RefInv /\ [Next]_vars => RefInv'
  BY OneClientDisjoint, NextRef
<1>3. TypeOK /\ Bounds /\ [Next]_vars => Bounds'
  BY NextBound
<1>4. TypeOK /\ IndexInv /\ RefInv /\ Bounds /\ Honest /\ [Next]_vars => Honest'
  BY NextHonest
<1>5. TypeOK /\ IndexInv /\ Loads /\ [Next]_vars => Loads'
  BY NextLoad
<1>r. TypeOK /\ IndexInv /\ RefInv /\ Bounds /\ Roots /\ [Next]_vars => Roots'
  BY NextReach
<1>6. TypeOK /\ IndexInv /\ RefInv /\ Loads /\ Honest /\ Roots /\ Tells /\ [Next]_vars => Tells'
  BY NextTell
<1>7. TypeOK /\ Tells => SubscribersCurrent
  <2> SUFFICES ASSUME TypeOK, Tells, AllIdle, NEW s \in subs, events[s] = <<>>, NEW i \in Ids,
                      nodes[i] # None, nodes[i].node \in Watches[s]
               PROVE  view[s][i] = StatusOf(i) \/ (i \in spared /\ view[s][i] = "Retracted")
    BY DEF SubscribersCurrent
  <2>1. s \in Subs
    BY DEF TypeOK
  <2>2. \A t \in Threads : ~TellsInsert(t, i) /\ ~TellsRetract(t, i)
    BY DEF AllIdle, TellsInsert, Untold, Unregistered, Written, TellsRetract, CascadeSteps
  <2>3. EventsSay(s, i, StatusOf(i)) \/ (i \in spared /\ EventsSay(s, i, "Retracted"))
    BY <2>1, <2>2 DEF TellInv
  <2> QED BY <2>3 DEF EventsSay, EventsAbout
<1> QED BY <1>1, <1>2, <1>3, <1>4, <1>5, <1>r, <1>6, <1>7, InitTypeOK, NextTypeOK, NextIndexed, PTL DEF Spec
=============================================================================
