---------------------------- MODULE StoreProofs ----------------------------
(***************************************************************************)
(* Proofs about the store of module FactumStore, for any ids, nodes,       *)
(* clients, limits and number of threads: its invariants, and that it      *)
(* implements KnowledgeBase.                                               *)
(***************************************************************************)
EXTENDS StoreProperties, SequenceTheorems, TLAPS

LEMMA InitTypeOK == Init => TypeOK
<1> SUFFICES ASSUME Init PROVE TypeOK
  OBVIOUS
<1>1. ins \in [Threads -> InsertLocals] /\ cas \in [Threads -> CascadeLocals]
  BY DEF Init, InsertLocals, CascadeLocals, NoInsert, NoCascade
<1>2. ret \in [Threads -> Replies] /\ stack \in [Threads -> Frames]
  BY DEF Init, Replies, Results, NoReply, Frames
<1>3. \A t \in Threads : LocalsReady(t)
  BY DEF Init, LocalsReady
<1> QED BY <1>1, <1>2, <1>3 DEF Init, TypeOK, Steps, Stored, Status, Event, WalEntry

LEMMA OfferedNodes ==
  ASSUME NEW t \in Threads
  PROVE  /\ Offers[t] \subseteq Nodes
         /\ \A S \in Batches[t] : S \subseteq Nodes /\ S # {}
BY ClientsAssumption DEF ClientsAssumption

LEMMA CallTypeOK ==
  ASSUME NEW t \in Threads, TypeOK, NEW op \in {"insert", "batch"},
         NEW load \in SUBSET Nodes, Call(t, op, load)
  PROVE  TypeOK'
<1>1. ins' \in [Threads -> InsertLocals]
  <2>1. [NoInsert EXCEPT !.op = op, !.load = load, !.todo = load] \in InsertLocals
    BY DEF InsertLocals, NoInsert
  <2> QED BY <2>1 DEF TypeOK, Call
<1>2. pc' \in [Threads -> Steps]
  BY DEF TypeOK, Call, Goto, Steps
<1>3. ASSUME NEW u \in Threads PROVE LocalsReady(u)'
  BY <1>1, <1>2 DEF TypeOK, Call, Goto, LocalsReady
<1> QED BY <1>1, <1>2, <1>3 DEF TypeOK, Call, store_vars, event_vars

LEMMA CallRetractTypeOK ==
  ASSUME NEW t \in Threads, TypeOK, CallRetract(t)
  PROVE  TypeOK'
<1> USE DEF store_vars, event_vars
<1>1. PICK root \in Ids, limit \in Limits :
        /\ cas' = [cas EXCEPT ![t] = [NoCascade EXCEPT !.root = root, !.limit = limit, !.id = root]]
        /\ asked' = asked \cup {root}
  BY DEF CallRetract, StartRetract
<1> DEFINE call == [NoCascade EXCEPT !.root = root, !.limit = limit, !.id = root]
<1>2. call \in CascadeLocals /\ call.id \in Ids /\ call.root \in Ids
  <2>1. limit \in Nat /\ <<>> \in Seq(Ids)
    BY BoundsAssumption DEF BoundsAssumption
  <2>2. NoCascade \in CascadeLocals
    BY <2>1 DEF NoCascade, CascadeLocals
  <2> QED BY <2>1, <2>2 DEF CascadeLocals
<1>3. cas' \in [Threads -> CascadeLocals] /\ cas'[t].id \in Ids /\ cas'[t].root \in Ids
  <2> HIDE DEF call
  <2> QED BY <1>1, <1>2 DEF TypeOK, call
<1>4. pc' \in [Threads -> Steps] /\ pc'[t] = "enter"
  BY DEF TypeOK, CallRetract, StartRetract, Goto, Steps
<1>5. ASSUME NEW u \in Threads PROVE LocalsReady(u)'
  <2>1. CASE u = t
    BY <1>3, <1>4, <2>1 DEF LocalsReady
  <2>2. CASE u # t
    BY <1>1, <2>2 DEF TypeOK, CallRetract, StartRetract, Goto, LocalsReady
  <2> QED BY <2>1, <2>2
<1> QED BY <1>1, <1>3, <1>4, <1>5 DEF TypeOK, CallRetract, StartRetract

LEMMA ReplyTyped ==
  ASSUME NEW t \in Threads, TypeOK, NEW reply \in Replies, Reply(t, reply)
  PROVE  /\ pc' \in [Threads -> Steps] /\ ret' \in [Threads -> Replies]
         /\ ins' \in [Threads -> InsertLocals] /\ cas' \in [Threads -> CascadeLocals]
         /\ stack' \in [Threads -> Frames]
         /\ \A u \in Threads : LocalsReady(u)'
<1>1. NoInsert \in InsertLocals /\ NoCascade \in CascadeLocals /\ <<>> \in Frames
  BY DEF InsertLocals, CascadeLocals, NoInsert, NoCascade, Frames
<1>2. /\ ins' \in [Threads -> InsertLocals] /\ cas' \in [Threads -> CascadeLocals]
      /\ stack' \in [Threads -> Frames] /\ ret' \in [Threads -> Replies]
  BY <1>1 DEF TypeOK, Reply
<1>3. pc' \in [Threads -> Steps]
  BY DEF TypeOK, Reply, Goto, Steps
<1>4. ASSUME NEW u \in Threads PROVE LocalsReady(u)'
  BY DEF TypeOK, Reply, Goto, LocalsReady
<1> QED BY <1>2, <1>3, <1>4

LEMMA FailTypeOK ==
  ASSUME NEW t \in Threads, TypeOK, NEW error \in Results, Fail(t, error)
  PROVE  TypeOK'
<1> DEFINE op == IF cas[t].root = None THEN "insert" ELSE "retract"
           reply == [NoReply EXCEPT !.op = op, !.result = error, !.root = cas[t].root]
<1>1. reply \in Replies
  <2>1. cas[t].root \in Ids \cup {None}
    BY DEF TypeOK, CascadeLocals
  <2> QED BY <2>1 DEF Replies, NoReply
<1>2. Reply(t, reply)
  BY DEF Fail
<1> QED BY <1>1, <1>2, ReplyTyped DEF TypeOK, Fail, store_vars, event_vars, bound_vars

LEMMA PushTyped ==
  ASSUME TypeOK, NEW receivers, NEW event \in Event, Push(receivers, event)
  PROVE  events' \in [Subs -> Seq(Event)]
BY DEF TypeOK, Push

\* A step of insert that keeps the types of what it writes keeps TypeOK.
LEMMA InsertTypeOK ==
  ASSUME NEW t \in Threads, TypeOK, InsertStep(t)
  PROVE  TypeOK'
<1> USE DEF store_vars, event_vars, local_vars, bound_vars
<1>0. /\ ins[t] \in InsertLocals /\ cas[t] \in CascadeLocals
      /\ LocalsReady(t)
  BY DEF TypeOK
<1>1. CASE RejectInvalid(t)
  BY <1>1, FailTypeOK DEF RejectInvalid, Results
<1>2. CASE RejectDuplicate(t)
  BY <1>2, FailTypeOK DEF RejectDuplicate, Results
<1>3. CASE Admit(t)
  <2>1. ins' \in [Threads -> InsertLocals]
    <3>1. CASE UNCHANGED ins
      BY <3>1 DEF TypeOK
    <3>2. ASSUME NEW n \in ins[t].load, ins' = [ins EXCEPT ![t].node = n]
          PROVE  ins' \in [Threads -> InsertLocals]
      BY <1>0, <3>2 DEF TypeOK, InsertLocals
    <3> QED BY <1>3, <3>1, <3>2 DEF Admit
  <2>2. pc' \in [Threads -> Steps]
    BY <1>3 DEF TypeOK, Admit, Goto, Steps
  <2>3. ASSUME NEW u \in Threads PROVE LocalsReady(u)'
    <3>1. CASE u = t
      <4>1. pc'[t] = "log" => \E n \in ins[t].load : ins'[t].node = n
        BY <1>3 DEF Admit, Goto, LogsFirst, TypeOK, InsertLocals
      <4>2. pc'[t] \in {"log", "put"}
        BY <1>3 DEF Admit, Goto, TypeOK
      <4> QED BY <1>0, <3>1, <4>1, <4>2 DEF LocalsReady, InsertLocals
    <3>2. CASE u # t
      BY <1>3, <3>2 DEF Admit, Goto, TypeOK, LocalsReady
    <3> QED BY <3>1, <3>2
  <2> QED BY <1>3, <2>1, <2>2, <2>3 DEF TypeOK, Admit
<1>4. CASE LogInsert(t)
  <2>1. ins[t].node \in Nodes
    BY <1>0, <1>4 DEF LogInsert, LocalsReady
  <2>2. [type |-> "Insert", id |-> ins[t].node.id] \in WalEntry
    BY <2>1, NodesAssumption DEF NodesAssumption, NodeType, WalEntry
  <2>3. wal' \in Seq(WalEntry)
    BY <1>4, <2>2 DEF TypeOK, LogInsert
  <2>4. pc' \in [Threads -> Steps]
    BY <1>4 DEF TypeOK, LogInsert, Goto, Steps
  <2>5. ASSUME NEW u \in Threads PROVE LocalsReady(u)'
    BY <1>4, <2>1 DEF TypeOK, LogInsert, Goto, LocalsReady
  <2> QED BY <1>4, <2>3, <2>4, <2>5 DEF TypeOK, LogInsert
<1>5. CASE PutNode(t)
  <2>1. PICK n \in ins[t].todo :
          /\ nodes' = [nodes EXCEPT ![n.id] = Active(n)]
          /\ ins' = [ins EXCEPT ![t].todo = @ \ {n}, ![t].node = n, ![t].keys = n.keys]
    BY <1>5 DEF PutNode
  <2>2. n \in Nodes /\ n.id \in Ids /\ n.keys \subseteq Keys
    BY <1>0, NodesAssumption DEF NodesAssumption, NodeType, InsertLocals
  <2>3. nodes' \in [Ids -> Stored \cup {None}]
    BY <2>1, <2>2 DEF TypeOK, Active, Stored, Status
  <2>4. ins' \in [Threads -> InsertLocals]
    BY <1>0, <2>1, <2>2 DEF TypeOK, InsertLocals
  <2>5. pc' \in [Threads -> Steps]
    BY <1>5 DEF TypeOK, PutNode, Goto, Steps
  <2>6. ASSUME NEW u \in Threads PROVE LocalsReady(u)'
    <3>1. ins'[t].node = n
      BY <1>0, <2>1 DEF TypeOK, InsertLocals
    <3> QED BY <1>5, <2>1, <2>2, <3>1 DEF TypeOK, PutNode, Goto, LocalsReady
  <2> QED BY <1>5, <2>3, <2>4, <2>5, <2>6 DEF TypeOK, PutNode
<1>6. CASE PutIndex(t)
  <2>1. PICK k \in ins[t].keys :
          LET rest == ins[t].keys \ {k} IN
          /\ index' = index \cup {<<k, ins[t].node.id>>}
          /\ IF rest = {} /\ ins[t].todo = {}
             THEN /\ ins' = [ins EXCEPT ![t].keys = rest, ![t].todo = ins[t].load]
                  /\ Goto(t, "next")
             ELSE /\ ins' = [ins EXCEPT ![t].keys = rest]
                  /\ Goto(t, IF rest = {} THEN "put" ELSE "index")
    BY <1>6 DEF PutIndex
  <2>2. ins[t].node \in Nodes /\ ins[t].node.id \in Ids /\ k \in Keys
    BY <1>0, <1>6, NodesAssumption
    DEF PutIndex, LocalsReady, NodesAssumption, NodeType, InsertLocals
  <2>3. index' \subseteq Keys \X Ids
    BY <2>1, <2>2 DEF TypeOK
  <2>4. ins' \in [Threads -> InsertLocals]
    <3> DEFINE rest == ins[t].keys \ {k}
    <3>1. rest \in SUBSET Keys
      BY <1>0 DEF InsertLocals
    <3>2. /\ [ins[t] EXCEPT !.keys = rest, !.todo = ins[t].load] \in InsertLocals
          /\ [ins[t] EXCEPT !.keys = rest] \in InsertLocals
      BY <1>0, <3>1 DEF InsertLocals
    <3>3. \/ ins' = [ins EXCEPT ![t].keys = rest, ![t].todo = ins[t].load]
          \/ ins' = [ins EXCEPT ![t].keys = rest]
      BY <2>1
    <3> QED BY <3>2, <3>3 DEF TypeOK
  <2>5. pc' \in [Threads -> Steps]
    BY <2>1 DEF TypeOK, Goto, Steps
  <2>6. ASSUME NEW u \in Threads PROVE LocalsReady(u)'
    <3>1. ins'[t].node = ins[t].node
      BY <1>0, <2>1 DEF TypeOK, InsertLocals
    <3>2. pc'[t] \in {"next", "put", "index"}
      BY <2>1 DEF TypeOK, Goto
    <3>3. CASE u = t
      BY <2>2, <3>1, <3>2, <3>3 DEF LocalsReady
    <3>4. CASE u # t
      BY <1>6, <2>1, <3>4 DEF TypeOK, PutIndex, Goto, LocalsReady
    <3> QED BY <3>3, <3>4
  <2> QED BY <1>6, <2>3, <2>4, <2>5, <2>6 DEF TypeOK, PutIndex
<1>7. CASE WriteBatch(t)
  <2>1. ASSUME NEW i \in Ids PROVE nodes'[i] \in Stored \cup {None}
    <3>1. CASE \E n \in ins[t].load : n.id = i
      <4>1. PICK n \in ins[t].load : n = CHOOSE m \in ins[t].load : m.id = i
        BY <3>1
      <4>2. n \in Nodes
        BY <1>0 DEF InsertLocals
      <4> QED BY <1>7, <3>1, <4>1, <4>2 DEF WriteBatch, IndexEntries, Active, Stored, Status
    <3>2. CASE ~\E n \in ins[t].load : n.id = i
      BY <1>7, <3>2 DEF WriteBatch, IndexEntries, TypeOK
    <3> QED BY <3>1, <3>2
  <2>2. nodes' \in [Ids -> Stored \cup {None}]
    BY <1>7, <2>1 DEF WriteBatch, IndexEntries
  <2>3. index' \subseteq Keys \X Ids
    BY <1>0, <1>7, NodesAssumption
    DEF WriteBatch, IndexEntries, TypeOK, InsertLocals, NodesAssumption, NodeType
  <2>4. ins' \in [Threads -> InsertLocals]
    BY <1>0, <1>7 DEF TypeOK, WriteBatch, IndexEntries, InsertLocals
  <2>5. pc' \in [Threads -> Steps]
    BY <1>7 DEF TypeOK, WriteBatch, IndexEntries, Goto, Steps
  <2>6. ASSUME NEW u \in Threads PROVE LocalsReady(u)'
    BY <1>7 DEF TypeOK, WriteBatch, IndexEntries, Goto, LocalsReady
  <2> QED BY <1>7, <2>2, <2>3, <2>4, <2>5, <2>6 DEF TypeOK, WriteBatch, IndexEntries
<1>8. CASE NextNode(t)
  <2>1. PICK n \in ins[t].todo :
          /\ ins' = [ins EXCEPT ![t].todo = @ \ {n}, ![t].node = n, ![t].deps = n.deps]
          /\ Goto(t, IF n.deps = {} THEN "validity" ELSE "deps")
    BY <1>8 DEF NextNode
  <2>2. n \in Nodes /\ n.deps \subseteq Ids
    BY <1>0, NodesAssumption DEF NodesAssumption, NodeType, InsertLocals
  <2>3. ins' \in [Threads -> InsertLocals] /\ ins'[t].node = n
    BY <1>0, <2>1, <2>2 DEF TypeOK, InsertLocals
  <2>4. pc' \in [Threads -> Steps] /\ pc'[t] \in {"validity", "deps"}
    BY <2>1 DEF TypeOK, Goto, Steps
  <2>5. ASSUME NEW u \in Threads PROVE LocalsReady(u)'
    <3>1. CASE u = t
      BY <2>2, <2>3, <2>4, <3>1 DEF LocalsReady
    <3>2. CASE u # t
      BY <1>8, <2>1, <3>2 DEF TypeOK, NextNode, Goto, LocalsReady
    <3> QED BY <3>1, <3>2
  <2> QED BY <1>8, <2>3, <2>4, <2>5 DEF TypeOK, NextNode
<1>9. CASE RegisterDep(t)
  <2>1. PICK d \in ins[t].deps :
          /\ deps_rev' = Registered(ins[t].node.id, d)
          /\ ins' = [ins EXCEPT ![t].deps = @ \ {d}]
          /\ Goto(t, IF ins[t].deps = {d} THEN "validity" ELSE "deps")
    BY <1>9 DEF RegisterDep
  <2>2. ins[t].node \in Nodes /\ ins[t].node.id \in Ids /\ d \in Ids
    BY <1>0, <1>9, NodesAssumption
    DEF RegisterDep, LocalsReady, NodesAssumption, NodeType, InsertLocals
  <2>3. deps_rev' \in [Ids -> SUBSET Ids]
    BY <2>1, <2>2 DEF TypeOK, Registered
  <2>4. ins' \in [Threads -> InsertLocals] /\ ins'[t].node = ins[t].node
    BY <1>0, <2>1 DEF TypeOK, InsertLocals
  <2>5. pc' \in [Threads -> Steps] /\ pc'[t] \in {"validity", "deps"}
    BY <2>1 DEF TypeOK, Goto, Steps
  <2>6. ASSUME NEW u \in Threads PROVE LocalsReady(u)'
    <3>1. CASE u = t
      BY <2>2, <2>4, <2>5, <3>1 DEF LocalsReady
    <3>2. CASE u # t
      BY <1>9, <2>1, <3>2 DEF TypeOK, RegisterDep, Goto, LocalsReady
    <3> QED BY <3>1, <3>2
  <2> QED BY <1>9, <2>3, <2>4, <2>5, <2>6 DEF TypeOK, RegisterDep
<1>10. CASE RegisterValidity(t)
  <2>1. ins[t].node \in Nodes /\ ins[t].node.id \in Ids
    BY <1>0, <1>10, NodesAssumption DEF RegisterValidity, LocalsReady, NodesAssumption, NodeType
  <2>2. by_validity' \in [Windows -> SUBSET Ids]
    BY <1>10, <2>1 DEF TypeOK, RegisterValidity
  <2>3. pc' \in [Threads -> Steps] /\ pc'[t] \in {"notify", "log"}
    BY <1>10 DEF TypeOK, RegisterValidity, Goto, Steps
  <2>4. ASSUME NEW u \in Threads PROVE LocalsReady(u)'
    BY <1>10, <2>1, <2>3 DEF TypeOK, RegisterValidity, Goto, LocalsReady
  <2> QED BY <1>10, <2>2, <2>3, <2>4 DEF TypeOK, RegisterValidity
<1>11. CASE NotifyInsert(t)
  <2>1. ins[t].node.id \in Ids
    BY <1>0, <1>11, NodesAssumption DEF NotifyInsert, LocalsReady, NodesAssumption, NodeType
  <2>2. [type |-> "Inserted", root |-> ins[t].node.id, ids |-> {ins[t].node.id}] \in Event
    BY <2>1 DEF Event
  <2>3. events' \in [Subs -> Seq(Event)]
    BY <1>11, <2>2, PushTyped DEF NotifyInsert
  <2>4. pc' \in [Threads -> Steps]
    BY <1>11 DEF TypeOK, NotifyInsert, Goto, Steps
  <2>5. ASSUME NEW u \in Threads PROVE LocalsReady(u)'
    BY <1>11 DEF TypeOK, NotifyInsert, Goto, LocalsReady
  <2> QED BY <1>11, <2>3, <2>4, <2>5 DEF TypeOK, NotifyInsert
<1>12. CASE InsertDone(t)
  <2> DEFINE reply == [NoReply EXCEPT !.op = "insert", !.result = "Ok",
                                      !.ids = {n.id : n \in ins[t].load}]
  <2>1. {n.id : n \in ins[t].load} \subseteq Ids
    BY <1>0, NodesAssumption DEF NodesAssumption, NodeType, InsertLocals
  <2>2. reply \in Replies
    BY <2>1 DEF Replies, Results, NoReply
  <2>3. wal' \in Seq(WalEntry)
    <3>1. [type |-> "Checkpoint", id |-> None] \in WalEntry
      BY DEF WalEntry
    <3>2. wal \in Seq(WalEntry)
      BY DEF TypeOK
    <3> QED BY <1>12, <3>1, <3>2 DEF InsertDone
  <2>4. Reply(t, reply)
    BY <1>12 DEF InsertDone
  <2> QED BY <1>12, <2>2, <2>3, <2>4, ReplyTyped DEF TypeOK, InsertDone
<1> QED BY <1>1, <1>2, <1>3, <1>4, <1>5, <1>6, <1>7, <1>8, <1>9, <1>10, <1>11, <1>12
        DEF InsertStep

LEMMA LastTyped ==
  ASSUME NEW S, NEW s \in Seq(S), s # <<>>
  PROVE  Len(s) \in Nat \ {0} /\ Len(s) \in 1..Len(s) /\ s[Len(s)] \in S
OBVIOUS

LEMMA FrontTyped ==
  ASSUME NEW S, NEW s \in Seq(S), s # <<>>
  PROVE  /\ SubSeq(s, 1, Len(s) - 1) \in Seq(S)
         /\ Len(SubSeq(s, 1, Len(s) - 1)) = Len(s) - 1
         /\ \A i \in 1..(Len(s) - 1) : SubSeq(s, 1, Len(s) - 1)[i] = s[i]
<1> DEFINE n == Len(s) - 1
<1>1. n \in Nat
  BY LastTyped
<1>2. \A i \in 1..n : s[i] \in S
  BY <1>1
<1> HIDE DEF n
<1>3. /\ SubSeq(s, 1, n) \in Seq(S)
      /\ Len(SubSeq(s, 1, n)) = IF 1 <= n THEN n - 1 + 1 ELSE 0
      /\ \A i \in 1..(n - 1 + 1) : SubSeq(s, 1, n)[i] = s[1 + i - 1]
  BY <1>1, <1>2, SubSeqProperties
<1>4. Len(SubSeq(s, 1, n)) = n /\ \A i \in 1..n : SubSeq(s, 1, n)[i] = s[i]
  BY <1>1, <1>3
<1> QED BY <1>3, <1>4 DEF n

LEMMA LenOfExcept ==
  ASSUME NEW S, NEW s \in Seq(S), NEW i, NEW e
  PROVE  Len([s EXCEPT ![i] = e]) = Len(s)
<1>1. DOMAIN [s EXCEPT ![i] = e] = 1..Len(s) /\ Len(s) \in Nat
  BY LenProperties
<1> QED BY <1>1

LEMMA TopTyped ==
  ASSUME NEW t \in Threads, TypeOK, stack[t] # <<>>
  PROVE  Top(t).id \in Ids /\ Top(t).todo \in SUBSET Ids
<1>1. stack[t] \in Seq([id: Ids, todo: SUBSET Ids])
  BY DEF TypeOK, Frames
<1>2. Top(t) \in [id: Ids, todo: SUBSET Ids]
  BY <1>1, LastTyped DEF Top
<1> QED BY <1>2

LEMMA SetTodoTyped ==
  ASSUME NEW t \in Threads, TypeOK, stack[t] # <<>>, NEW ids \in SUBSET Ids, SetTodo(t, ids)
  PROVE  stack' \in [Threads -> Frames]
<1> DEFINE F == [id: Ids, todo: SUBSET Ids]
           s == stack[t]
<1>0. s \in Seq(F)
  BY DEF TypeOK, Frames
<1>1. s \in Seq(F) /\ Len(s) \in 1..Len(s) /\ s[Len(s)] \in F
  BY <1>0, LastTyped
<1>2. [s[Len(s)] EXCEPT !.todo = ids] \in F
  BY <1>1
<1>3. [s EXCEPT ![Len(s)] = [s[Len(s)] EXCEPT !.todo = ids]] \in Seq(F)
  BY <1>1, <1>2
<1>4. stack' = [stack EXCEPT ![t] = [s EXCEPT ![Len(s)] = [s[Len(s)] EXCEPT !.todo = ids]]]
  BY DEF SetTodo
<1> QED BY <1>3, <1>4 DEF TypeOK, Frames

LEMMA RetractTypeOK ==
  ASSUME NEW t \in Threads, TypeOK, RetractStep(t)
  PROVE  TypeOK'
<1> USE DEF store_vars, event_vars, local_vars, bound_vars
<1>0. cas[t] \in CascadeLocals /\ LocalsReady(t) /\ stack[t] \in Frames
  BY DEF TypeOK
<1>d. Deeper(t) \in Nat
  BY <1>0 DEF Deeper, CascadeLocals, Frames
<1>1. CASE EnterAtLimit(t)
  <2>1. cas' \in [Threads -> CascadeLocals] /\ pc' \in [Threads -> Steps]
    BY <1>0, <1>1 DEF TypeOK, EnterAtLimit, CascadeLocals, Goto, Steps
  <2>2. ASSUME NEW u \in Threads PROVE LocalsReady(u)'
    BY <1>1 DEF TypeOK, EnterAtLimit, Goto, LocalsReady
  <2> QED BY <1>1, <2>1, <2>2 DEF TypeOK, EnterAtLimit
<1>2. CASE EnterMissing(t)
  BY <1>2, FailTypeOK DEF EnterMissing, Results
<1>3. CASE EnterRetracted(t)
  <2>1. cas' \in [Threads -> CascadeLocals] /\ pc' \in [Threads -> Steps]
    BY <1>0, <1>d, <1>3 DEF TypeOK, EnterRetracted, CascadeLocals, Goto, Steps
  <2>2. ASSUME NEW u \in Threads PROVE LocalsReady(u)'
    BY <1>3 DEF TypeOK, EnterRetracted, Goto, LocalsReady
  <2> QED BY <1>3, <2>1, <2>2 DEF TypeOK, EnterRetracted
<1>4. CASE EnterActive(t)
  <2>1. cas[t].id \in Ids /\ nodes[cas[t].id].node \in Nodes
    BY <1>0, <1>4 DEF TypeOK, EnterActive, LocalsReady, Stored
  <2>2. /\ cas' \in [Threads -> CascadeLocals]
        /\ cas'[t].id \in Ids /\ cas'[t].node \in Nodes /\ cas'[t].root \in Ids
    BY <1>0, <1>d, <1>4, <2>1 DEF TypeOK, EnterActive, CascadeLocals, LocalsReady
  <2>3. pc' \in [Threads -> Steps] /\ pc'[t] = "mark"
    BY <1>4 DEF TypeOK, EnterActive, Goto, Steps
  <2>4. ASSUME NEW u \in Threads PROVE LocalsReady(u)'
    <3>1. CASE u = t
      BY <2>2, <2>3, <3>1 DEF LocalsReady
    <3>2. CASE u # t
      BY <1>4, <3>2 DEF TypeOK, EnterActive, Goto, LocalsReady
    <3> QED BY <3>1, <3>2
  <2> QED BY <1>4, <2>2, <2>3, <2>4 DEF TypeOK, EnterActive
<1>5. CASE MarkRetracted(t)
  <2>1. cas[t].id \in Ids /\ cas[t].node \in Nodes
    BY <1>0, <1>5 DEF MarkRetracted, LocalsReady
  <2>2. nodes' \in [Ids -> Stored \cup {None}]
    BY <1>5, <2>1 DEF TypeOK, MarkRetracted, Retracted, Stored, Status
  <2>3. pc' \in [Threads -> Steps]
    BY <1>5 DEF TypeOK, MarkRetracted, Goto, Steps
  <2>4. ASSUME NEW u \in Threads PROVE LocalsReady(u)'
    BY <1>5, <2>1 DEF TypeOK, MarkRetracted, Goto, LocalsReady
  <2> QED BY <1>5, <2>2, <2>3, <2>4 DEF TypeOK, MarkRetracted
<1>6. CASE LogRetract(t)
  <2>1. cas[t].id \in Ids
    BY <1>0, <1>6 DEF LogRetract, LocalsReady
  <2>2. RetractEntry(t) \in WalEntry
    BY <2>1 DEF RetractEntry, WalEntry
  <2>3. wal' \in Seq(WalEntry)
    BY <1>6, <2>2 DEF TypeOK, LogRetract
  <2>4. /\ cas' \in [Threads -> CascadeLocals] /\ cas'[t].id = cas[t].id
        /\ cas'[t].root \in Ids
    <3> DEFINE r == Append(cas[t].retracted, cas[t].id)
    <3>1. cas[t].retracted \in Seq(Ids)
      BY <1>0 DEF CascadeLocals
    <3>2. r \in Seq(Ids)
      BY <2>1, <3>1
    <3>3. /\ [cas[t] EXCEPT !.retracted = r] \in CascadeLocals
          /\ [cas[t] EXCEPT !.retracted = r].id = cas[t].id
          /\ [cas[t] EXCEPT !.retracted = r].root \in Ids
      BY <1>0, <1>6, <3>2 DEF CascadeLocals, LogRetract, LocalsReady
    <3>4. cas' = [cas EXCEPT ![t] = [cas[t] EXCEPT !.retracted = r]]
      BY <1>6 DEF LogRetract
    <3> HIDE DEF r
    <3> QED BY <3>3, <3>4 DEF TypeOK
  <2>5. pc' \in [Threads -> Steps] /\ pc'[t] = "fan"
    BY <1>6 DEF TypeOK, LogRetract, Goto, Steps
  <2>6. ASSUME NEW u \in Threads PROVE LocalsReady(u)'
    <3>1. CASE u = t
      BY <2>1, <2>4, <2>5, <3>1 DEF LocalsReady
    <3>2. CASE u # t
      BY <1>6, <3>2 DEF TypeOK, LogRetract, Goto, LocalsReady
    <3> QED BY <3>1, <3>2
  <2> QED BY <1>6, <2>3, <2>4, <2>5, <2>6 DEF TypeOK, LogRetract
<1>7. CASE FanOut(t)
  <2>1. [id |-> cas[t].id, todo |-> deps_rev[cas[t].id]] \in [id: Ids, todo: SUBSET Ids]
    BY <1>0, <1>7 DEF TypeOK, FanOut, LocalsReady
  <2>2. stack' \in [Threads -> Frames]
    <3>1. Append(stack[t], [id |-> cas[t].id, todo |-> deps_rev[cas[t].id]]) \in Frames
      BY <1>0, <2>1 DEF Frames
    <3> QED BY <1>7, <3>1 DEF TypeOK, FanOut
  <2>3. pc' \in [Threads -> Steps]
    BY <1>7 DEF TypeOK, FanOut, Goto, Steps
  <2>4. ASSUME NEW u \in Threads PROVE LocalsReady(u)'
    BY <1>7 DEF TypeOK, FanOut, Goto, LocalsReady
  <2> QED BY <1>7, <2>2, <2>3, <2>4 DEF TypeOK, FanOut
<1>8. CASE SkipDependent(t)
  <2>1. PICK d \in Top(t).todo : SetTodo(t, Top(t).todo \ {d})
    BY <1>8 DEF SkipDependent
  <2>2. stack' \in [Threads -> Frames]
    BY <1>8, <2>1, TopTyped, SetTodoTyped DEF SkipDependent, Looping
  <2>3. ASSUME NEW u \in Threads PROVE LocalsReady(u)'
    BY <1>8 DEF TypeOK, SkipDependent, LocalsReady
  <2> QED BY <1>8, <2>2, <2>3 DEF TypeOK, SkipDependent
<1>9. CASE Truncate(t)
  <2>1. stack' \in [Threads -> Frames]
    BY <1>9, SetTodoTyped DEF Truncate, Looping
  <2>2. cas' \in [Threads -> CascadeLocals] /\ cas'[t].root = cas[t].root
    BY <1>0, <1>9 DEF TypeOK, Truncate, CascadeLocals
  <2>3. ASSUME NEW u \in Threads PROVE LocalsReady(u)'
    BY <1>9, <2>2 DEF TypeOK, Truncate, Looping, LocalsReady
  <2> QED BY <1>9, <2>1, <2>2, <2>3 DEF TypeOK, Truncate
<1>10. CASE Recurse(t)
  <2>1. PICK d \in Top(t).todo : /\ SetTodo(t, Top(t).todo \ {d})
                                 /\ cas' = [cas EXCEPT ![t].id = d]
    BY <1>10 DEF Recurse
  <2>2. d \in Ids /\ Top(t).todo \ {d} \in SUBSET Ids
    BY <1>10, TopTyped DEF Recurse, Looping
  <2>3. stack' \in [Threads -> Frames]
    BY <1>10, <2>1, <2>2, SetTodoTyped DEF Recurse, Looping
  <2>4. cas' \in [Threads -> CascadeLocals] /\ cas'[t].id = d /\ cas'[t].root \in Ids
    BY <1>0, <1>10, <2>1, <2>2 DEF TypeOK, CascadeLocals, Recurse, Looping, LocalsReady
  <2>5. pc' \in [Threads -> Steps] /\ pc'[t] = "enter"
    BY <1>10 DEF TypeOK, Recurse, Goto, Steps
  <2>6. ASSUME NEW u \in Threads PROVE LocalsReady(u)'
    <3>1. CASE u = t
      BY <2>2, <2>4, <2>5, <3>1 DEF LocalsReady
    <3>2. CASE u # t
      BY <1>10, <2>1, <3>2 DEF TypeOK, Recurse, Goto, LocalsReady
    <3> QED BY <3>1, <3>2
  <2> QED BY <1>10, <2>3, <2>4, <2>5, <2>6 DEF TypeOK, Recurse
<1>11. CASE ReturnFromFrame(t)
  <2>1. Popped(t) \in Frames
    <3>1. stack[t] # <<>>
      BY <1>11 DEF ReturnFromFrame, Looping
    <3> QED BY <1>0, <3>1, FrontTyped DEF Popped, Frames
  <2>2. stack' \in [Threads -> Frames]
    BY <1>11, <2>1 DEF TypeOK, ReturnFromFrame
  <2>3. ASSUME NEW u \in Threads PROVE LocalsReady(u)'
    BY <1>11 DEF TypeOK, ReturnFromFrame, LocalsReady
  <2> QED BY <1>11, <2>2, <2>3 DEF TypeOK, ReturnFromFrame
<1>12. CASE NotifyRetract(t)
  <2> DEFINE reply == [op |-> "retract", result |-> "Ok", root |-> cas[t].root,
                       ids |-> RangeOf(cas[t].retracted), truncated |-> cas[t].truncated,
                       depth |-> cas[t].depth]
  <2>1. RangeOf(cas[t].retracted) \subseteq Ids
    BY <1>0 DEF CascadeLocals, RangeOf
  <2>2. RetractEvent(t) \in Event
    BY <1>0, <1>12, <2>1 DEF RetractEvent, Event, NotifyRetract, LocalsReady
  <2>3. events' \in [Subs -> Seq(Event)]
    BY <1>12, <2>2, PushTyped DEF NotifyRetract
  <2>4. reply \in Replies
    BY <1>0, <2>1 DEF Replies, Results, CascadeLocals
  <2>5. Reply(t, reply)
    BY <1>12 DEF NotifyRetract
  <2>6. spared' \subseteq Ids
    BY <1>0, <1>12 DEF TypeOK, NotifyRetract, LocalsReady
  <2>7. /\ UNCHANGED <<nodes, index, deps_rev, by_validity, forgotten, wal, subs, view, asked>>
        /\ UNCHANGED <<calls, crashes>>
    BY <1>12 DEF NotifyRetract
  <2> QED BY <2>3, <2>4, <2>5, <2>6, <2>7, ReplyTyped DEF TypeOK
<1> QED BY <1>1, <1>2, <1>3, <1>4, <1>5, <1>6, <1>7, <1>8, <1>9, <1>10, <1>11, <1>12
        DEF RetractStep

\* A subscriber's conclusions are statuses, whatever it was told.
LEMMA PollTypeOK ==
  ASSUME NEW s \in Subs, TypeOK, Poll(s)
  PROVE  TypeOK'
<1> USE DEF store_vars, local_vars, bound_vars
<1>1. Believe(view[s], events[s]) \in [Ids -> Status \cup {"Absent"}]
  <2>1. \A i \in Ids : view[s][i] \in Status \cup {"Absent"}
    BY DEF TypeOK
  <2> QED BY <2>1 DEF Believe, Status
<1>2. view' \in [Subs -> [Ids -> Status \cup {"Absent"}]]
  BY <1>1 DEF TypeOK, Poll
<1>3. events' \in [Subs -> Seq(Event)]
  BY DEF TypeOK, Poll
<1>4. ASSUME NEW u \in Threads PROVE LocalsReady(u)'
  BY DEF TypeOK, Poll, LocalsReady
<1> QED BY <1>2, <1>3, <1>4 DEF TypeOK, Poll

LEMMA CrashTypeOK ==
  ASSUME TypeOK, Crash
  PROVE  TypeOK'
<1>1. /\ deps_rev' \in [Ids -> SUBSET Ids] /\ by_validity' \in [Windows -> SUBSET Ids]
      /\ forgotten' \subseteq Ids
  <2>1. CASE Rebuild
    BY <2>1 DEF Rebuild, DependentsOf, ValidIn
  <2>2. CASE RebuildFails
    BY <2>2 DEF RebuildFails, StoredIds
  <2> QED BY <2>1, <2>2 DEF Crash
<1>2. NoInsert \in InsertLocals /\ NoCascade \in CascadeLocals /\ <<>> \in Frames
  BY DEF InsertLocals, CascadeLocals, NoInsert, NoCascade, Frames
<1>3. NoReply \in Replies
  BY DEF Replies, Results, NoReply
<1>4. /\ ins' \in [Threads -> InsertLocals] /\ cas' \in [Threads -> CascadeLocals]
      /\ stack' \in [Threads -> Frames] /\ ret' \in [Threads -> Replies]
  BY <1>2, <1>3 DEF Crash
<1>5. wal' \in Seq(WalEntry) /\ events' \in [Subs -> Seq(Event)] /\ pc' \in [Threads -> Steps]
  BY DEF Crash, Steps
<1>6. ASSUME NEW u \in Threads PROVE LocalsReady(u)'
  BY DEF Crash, LocalsReady
<1> QED BY <1>1, <1>4, <1>5, <1>6 DEF TypeOK, Crash

LEMMA NextTypeOK == TypeOK /\ [Next]_vars => TypeOK'
<1> SUFFICES ASSUME TypeOK, [Next]_vars PROVE TypeOK'
  OBVIOUS
<1>1. ASSUME NEW t \in Threads, ClientCall(t) PROVE TypeOK'
  <2>1. CASE CallInsert(t)
    <3>1. PICK n \in Offers[t] : Call(t, "insert", {n})
      BY <2>1 DEF CallInsert
    <3>2. {n} \in SUBSET Nodes
      BY OfferedNodes
    <3> QED BY <3>1, <3>2, CallTypeOK
  <2>2. CASE CallBatch(t)
    <3>1. PICK S \in Batches[t] : Call(t, "batch", S)
      BY <2>2 DEF CallBatch
    <3>2. S \in SUBSET Nodes
      BY OfferedNodes
    <3> QED BY <3>1, <3>2, CallTypeOK
  <2>3. CASE CallRetract(t)
    BY <2>3, CallRetractTypeOK
  <2> QED BY <1>1, <2>1, <2>2, <2>3 DEF ClientCall
<1>2. ASSUME NEW t \in Threads, InsertStep(t) PROVE TypeOK'
  BY <1>2, InsertTypeOK
<1>3. ASSUME NEW t \in Threads, RetractStep(t) PROVE TypeOK'
  BY <1>3, RetractTypeOK
<1>4. ASSUME NEW t \in Threads, StorageFails(t) PROVE TypeOK'
  BY <1>4, FailTypeOK DEF StorageFails, Results
<1>5. ASSUME NEW s \in Subs, Poll(s) PROVE TypeOK'
  BY <1>5, PollTypeOK
<1>6. CASE Crash
  BY <1>6, CrashTypeOK
<1>7. CASE UNCHANGED vars
  <2>1. ASSUME NEW u \in Threads PROVE LocalsReady(u)'
    BY <1>7 DEF TypeOK, LocalsReady, vars, local_vars
  <2> QED BY <1>7, <2>1 DEF TypeOK, vars, store_vars, event_vars, local_vars, bound_vars
<1> QED BY <1>1, <1>2, <1>3, <1>4, <1>5, <1>6, <1>7 DEF Next, StoreStep, Finished

\* Every variable keeps its type, and a thread inside a call has the locals
\* its next step reads, in every interleaving, crash and storage failure.
THEOREM TypeCorrect == Spec => []TypeOK
<1> QED BY InitTypeOK, NextTypeOK, PTL DEF Spec

-----------------------------------------------------------------------------
(* The bounds of a cascade.                                                *)

\* CascadeBounded with what the activation in progress still has to spend:
\* past the check at entry there is room for one more node, and a node is
\* counted before its frame is pushed.
BoundInv(t) ==
  /\ Len(cas[t].retracted) <= cas[t].limit
  /\ Len(stack[t]) <= Len(cas[t].retracted)
  /\ pc[t] \in {"mark", "logRetract"} => Len(cas[t].retracted) < cas[t].limit
  /\ pc[t] = "fan" => Len(stack[t]) < Len(cas[t].retracted)
  /\ pc[t] = "idle" => stack[t] = <<>>

LEMMA LensTyped ==
  ASSUME NEW t \in Threads, TypeOK
  PROVE  /\ cas[t].limit \in Nat /\ cas[t].retracted \in Seq(Ids)
         /\ Len(cas[t].retracted) \in Nat /\ Len(stack[t]) \in Nat
BY DEF TypeOK, CascadeLocals, Frames

LEMMA SameBound ==
  ASSUME NEW t \in Threads, BoundInv(t), cas'[t] = cas[t], stack'[t] = stack[t],
         pc'[t] = pc[t] \/ pc'[t] \notin {"idle", "mark", "logRetract", "fan"}
  PROVE  BoundInv(t)'
BY DEF BoundInv

LEMMA ReplyBound ==
  ASSUME NEW t \in Threads, TypeOK, NEW reply, Reply(t, reply)
  PROVE  BoundInv(t)'
BY DEF TypeOK, Reply, Goto, NoCascade, BoundInv

\* A thread other than the one that takes the step keeps its locals.
LEMMA OtherThreads ==
  ASSUME NEW t \in Threads, NEW u \in Threads, u # t, TypeOK,
         ClientCall(t) \/ StoreStep(t)
  PROVE  /\ pc'[u] = pc[u] /\ ins'[u] = ins[u] /\ cas'[u] = cas[u]
         /\ stack'[u] = stack[u] /\ ret'[u] = ret[u]
<1> USE DEF TypeOK, Goto, local_vars
<1>1. CASE ClientCall(t)
  BY <1>1 DEF ClientCall, CallInsert, CallBatch, CallRetract, StartRetract, Call
<1>2. CASE RejectInvalid(t) \/ RejectDuplicate(t) \/ StorageFails(t) \/ EnterMissing(t)
  BY <1>2 DEF RejectInvalid, RejectDuplicate, StorageFails, EnterMissing, Fail, Reply
<1>3. CASE InsertDone(t) \/ NotifyRetract(t)
  BY <1>3 DEF InsertDone, NotifyRetract, Reply
<1>4. CASE Admit(t) \/ LogInsert(t) \/ PutNode(t) \/ PutIndex(t) \/ WriteBatch(t) \/ NextNode(t)
  BY <1>4 DEF Admit, LogInsert, PutNode, PutIndex, WriteBatch, IndexEntries, NextNode
<1>5. CASE RegisterDep(t) \/ RegisterValidity(t) \/ NotifyInsert(t)
  BY <1>5 DEF RegisterDep, RegisterValidity, NotifyInsert
<1>6. CASE EnterAtLimit(t) \/ EnterRetracted(t) \/ EnterActive(t) \/ MarkRetracted(t)
  BY <1>6 DEF EnterAtLimit, EnterRetracted, EnterActive, MarkRetracted
<1>7. CASE LogRetract(t) \/ FanOut(t) \/ SkipDependent(t) \/ Truncate(t) \/ Recurse(t)
           \/ ReturnFromFrame(t)
  BY <1>7 DEF LogRetract, FanOut, SkipDependent, Truncate, Recurse, ReturnFromFrame, SetTodo
<1> QED BY <1>1, <1>2, <1>3, <1>4, <1>5, <1>6, <1>7
        DEF StoreStep, InsertStep, RetractStep

\* The steps of insert and insert_batch do not touch a cascade: t's locals of
\* retract are unchanged, or dropped because the call ends.
LEMMA InsertKeepsBound ==
  ASSUME NEW t \in Threads, TypeOK, BoundInv(t),
         InsertStep(t) \/ CallInsert(t) \/ CallBatch(t)
  PROVE  BoundInv(t)'
<1> USE DEF TypeOK, Goto, local_vars
<1>1. CASE RejectInvalid(t) \/ RejectDuplicate(t) \/ InsertDone(t)
  BY <1>1, ReplyBound DEF RejectInvalid, RejectDuplicate, Fail, InsertDone
<1>2. CASE Admit(t) \/ LogInsert(t) \/ PutNode(t) \/ WriteBatch(t) \/ NextNode(t)
  BY <1>2, SameBound DEF Admit, LogInsert, PutNode, WriteBatch, IndexEntries, NextNode
<1>3. CASE PutIndex(t) \/ RegisterDep(t) \/ RegisterValidity(t) \/ NotifyInsert(t)
  BY <1>3, SameBound DEF PutIndex, RegisterDep, RegisterValidity, NotifyInsert
<1>4. CASE CallInsert(t) \/ CallBatch(t)
  BY <1>4, SameBound DEF CallInsert, CallBatch, Call
<1> QED BY <1>1, <1>2, <1>3, <1>4 DEF InsertStep

LEMMA RetractKeepsBound ==
  ASSUME NEW t \in Threads, TypeOK, BoundInv(t), RetractStep(t)
  PROVE  BoundInv(t)'
<1> USE DEF TypeOK, Goto, local_vars
<1> DEFINE r == cas[t].retracted
<1>0. cas[t] \in CascadeLocals
  OBVIOUS
<1>l. /\ cas[t].limit \in Nat /\ Len(cas[t].retracted) \in Nat /\ Len(stack[t]) \in Nat
      /\ BoundInv(t)
  BY LensTyped
<1>1. CASE EnterAtLimit(t)
  <2>1. cas'[t].retracted = r /\ cas'[t].limit = cas[t].limit /\ stack'[t] = stack[t]
    BY <1>0, <1>1 DEF EnterAtLimit, CascadeLocals
  <2> QED BY <1>1, <2>1 DEF EnterAtLimit, BoundInv
<1>2. CASE EnterMissing(t) \/ NotifyRetract(t)
  BY <1>2, ReplyBound DEF EnterMissing, NotifyRetract, Fail
<1>3. CASE EnterRetracted(t) \/ EnterActive(t)
  <2>1. cas'[t].retracted = r /\ cas'[t].limit = cas[t].limit /\ stack'[t] = stack[t]
    BY <1>0, <1>3 DEF EnterRetracted, EnterActive, CascadeLocals
  <2>2. pc'[t] \in {"loop", "mark"} /\ ~AtLimit(t)
    BY <1>3 DEF EnterRetracted, EnterActive
  <2> QED BY ONLY <1>l, <2>1, <2>2 DEF BoundInv, AtLimit
<1>4. CASE MarkRetracted(t)
  BY <1>4 DEF MarkRetracted, BoundInv
<1>5. CASE LogRetract(t)
  <2>1. cas[t].id \in Ids
    BY <1>5 DEF LogRetract, LocalsReady
  <2>2. /\ cas'[t].retracted = Append(r, cas[t].id) /\ cas'[t].limit = cas[t].limit
        /\ stack'[t] = stack[t] /\ pc'[t] = "fan"
    BY <1>0, <1>5 DEF LogRetract, CascadeLocals
  <2>3. Len(cas'[t].retracted) = Len(r) + 1
    <3>1. r \in Seq(Ids)
      BY LensTyped
    <3>2. Len(Append(r, cas[t].id)) = Len(r) + 1
      BY ONLY <2>1, <3>1, AppendProperties
    <3> QED BY <2>2, <3>2
  <2>4. pc[t] = "logRetract"
    BY <1>5 DEF LogRetract
  <2> QED BY ONLY <1>l, <2>2, <2>3, <2>4 DEF BoundInv
<1>6. CASE FanOut(t)
  <2> DEFINE f == [id |-> cas[t].id, todo |-> deps_rev[cas[t].id]]
  <2>1. f \in [id: Ids, todo: SUBSET Ids]
    BY <1>6 DEF FanOut, LocalsReady
  <2>2. stack'[t] = Append(stack[t], f) /\ cas'[t] = cas[t] /\ pc'[t] = "loop"
    BY <1>6 DEF FanOut
  <2>3. Len(stack'[t]) = Len(stack[t]) + 1
    <3>1. stack[t] \in Seq([id: Ids, todo: SUBSET Ids])
      BY DEF Frames
    <3>2. Len(Append(stack[t], f)) = Len(stack[t]) + 1
      BY ONLY <2>1, <3>1, AppendProperties
    <3> QED BY <2>2, <3>2
  <2>4. pc[t] = "fan"
    BY <1>6 DEF FanOut
  <2> QED BY ONLY <1>l, <2>2, <2>3, <2>4 DEF BoundInv
<1>7. CASE SkipDependent(t) \/ Truncate(t) \/ Recurse(t)
  <2>1. cas'[t].retracted = r /\ cas'[t].limit = cas[t].limit
    <3>1. CASE SkipDependent(t)
      BY <3>1 DEF SkipDependent
    <3>2. CASE Truncate(t)
      BY <1>0, <3>2 DEF Truncate, CascadeLocals
    <3>3. CASE Recurse(t)
      BY <1>0, <3>3 DEF Recurse, CascadeLocals
    <3> QED BY <1>7, <3>1, <3>2, <3>3
  <2>2. \E ids : SetTodo(t, ids)
    BY <1>7 DEF SkipDependent, Truncate, Recurse
  <2>3. stack[t] # <<>> /\ pc[t] = "loop" /\ pc'[t] \in {"loop", "enter"}
    BY <1>7 DEF SkipDependent, Truncate, Recurse, Looping
  <2>4. Len(stack'[t]) = Len(stack[t])
    <3>1. stack[t] \in Seq([id: Ids, todo: SUBSET Ids])
      BY DEF Frames
    <3>2. PICK ids : stack' = [stack EXCEPT ![t] = [@ EXCEPT ![Len(@)].todo = ids]]
      BY <2>2 DEF SetTodo
    <3>3. stack'[t] = [stack[t] EXCEPT ![Len(stack[t])] = [stack[t][Len(stack[t])] EXCEPT !.todo = ids]]
      BY <3>2
    <3>4. Len([stack[t] EXCEPT ![Len(stack[t])] = [stack[t][Len(stack[t])] EXCEPT !.todo = ids]])
          = Len(stack[t])
      BY ONLY <3>1, LenOfExcept
    <3> QED BY <3>3, <3>4
  <2> QED BY <2>1, <2>3, <2>4 DEF BoundInv
<1>8. CASE ReturnFromFrame(t)
  <2>1. stack[t] # <<>> /\ stack'[t] = Popped(t) /\ cas'[t] = cas[t] /\ pc'[t] = "loop"
    BY <1>8 DEF ReturnFromFrame, Looping
  <2>2. Len(stack'[t]) = Len(stack[t]) - 1
    BY <2>1, FrontTyped DEF Popped, Frames
  <2> QED BY <2>1, <2>2, LensTyped DEF BoundInv
<1> QED BY <1>1, <1>2, <1>3, <1>4, <1>5, <1>6, <1>7, <1>8 DEF RetractStep

LEMMA NextBound ==
  ASSUME TypeOK, NEW t \in Threads, BoundInv(t), [Next]_vars
  PROVE  BoundInv(t)'
<1>1. ASSUME NEW u \in Threads, ClientCall(u) \/ StoreStep(u) PROVE BoundInv(t)'
  <2>1. CASE u # t
    BY <1>1, <2>1, OtherThreads, SameBound
  <2>2. CASE u = t
    <3>1. CASE CallRetract(t)
      <4>1. PICK root \in Ids, limit \in Limits :
              cas' = [cas EXCEPT ![t] = [NoCascade EXCEPT !.root = root, !.limit = limit, !.id = root]]
        BY <3>1 DEF CallRetract, StartRetract
      <4>2. cas'[t].retracted = <<>> /\ cas'[t].limit = limit /\ limit \in Nat
        BY <4>1, BoundsAssumption DEF TypeOK, NoCascade, BoundsAssumption
      <4>3. pc'[t] = "enter" /\ stack'[t] = stack[t]
        BY <3>1 DEF CallRetract, StartRetract, TypeOK, Goto
      <4>4. stack[t] = <<>>
        BY <3>1 DEF CallRetract, StartRetract, BoundInv
      <4> QED BY <4>2, <4>3, <4>4 DEF BoundInv
    <3>2. CASE StorageFails(t)
      BY <3>2, ReplyBound DEF StorageFails, Fail
    <3> QED BY <1>1, <2>2, <3>1, <3>2, InsertKeepsBound, RetractKeepsBound
            DEF ClientCall, StoreStep
  <2> QED BY <2>1, <2>2
<1>2. CASE Crash
  BY <1>2 DEF Crash, NoCascade, BoundInv
<1>3. CASE UNCHANGED vars \/ \E s \in Subs : Poll(s)
  BY <1>3, SameBound DEF vars, local_vars, Poll
<1> QED BY <1>1, <1>2, <1>3 DEF Next, Finished

\* No interleaving lets a cascade retract more nodes than max_nodes or recurse
\* deeper than the nodes it has retracted.
THEOREM CascadesBounded == Spec => []CascadeBounded
<1> DEFINE Inv == TypeOK /\ \A t \in Threads : BoundInv(t)
<1>1. Init => Inv
  BY InitTypeOK DEF Init, NoCascade, BoundInv
<1>2. Inv /\ [Next]_vars => Inv'
  BY NextTypeOK, NextBound
<1>3. Inv => CascadeBounded
  BY DEF BoundInv, CascadeBounded
<1> QED BY <1>1, <1>2, <1>3, PTL DEF Spec

-----------------------------------------------------------------------------
(* The indexes of the store are complete: in any interleaving of inserts,  *)
(* batches, cascades, storage failures and crashes, an entry for a stored  *)
(* node is missing only while the call inserting that node still has it to *)
(* make.                                                                   *)

InsertSteps == {"check", "log", "put", "index", "next", "deps", "validity", "notify"}

\* What the steps of t's insert rely on: the nodes still to do are nodes of
\* the call, and RocksDB has nothing half written -- all of the call's nodes
\* are still to do up to its one write.
InsertReady(t) ==
  /\ pc[t] \in InsertSteps =>
       ins[t].op \in {"insert", "batch"} /\ ins[t].todo \subseteq ins[t].load
  /\ Persistent =>
       /\ pc[t] # "index"
       /\ pc[t] \in {"check", "put"} \/ (pc[t] = "log" /\ ins[t].op = "insert")
          => ins[t].todo = ins[t].load

\* The copy that t's cascade is about to write back is indexed as well: it may
\* replace another node that a concurrent insert has stored under the same id.
CopyIndexed(t) ==
  pc[t] = "mark" => IndexedAs(cas[t].node) /\ cas[t].node.id = cas[t].id

StoredById == \A i \in Ids : nodes[i] # None => nodes[i].node.id = i

IndexInv ==
  /\ StoredById
  /\ IndexesComplete
  /\ \A t \in Threads : InsertReady(t) /\ CopyIndexed(t)

-----------------------------------------------------------------------------

LEMMA SamePending ==
  ASSUME NEW t \in Threads, pc'[t] = pc[t], ins'[t] = ins[t], NEW n, NEW x
  PROVE  /\ KeyPending(t, n, x)' = KeyPending(t, n, x)
         /\ DepPending(t, n, x)' = DepPending(t, n, x)
         /\ ValidityPending(t, n)' = ValidityPending(t, n)
BY DEF KeyPending, DepPending, ValidityPending, Unregistered

LEMMA NotInserting ==
  ASSUME NEW t \in Threads, NEW n, NEW x, TypeOK, InsertReady(t),
         \/ pc[t] \in {"idle", "check", "enter", "mark", "logRetract", "fan", "loop"}
         \/ Persistent /\ pc[t] = "put"
  PROVE  ~KeyPending(t, n, x) /\ ~DepPending(t, n, x) /\ ~ValidityPending(t, n)
BY DEF KeyPending, DepPending, ValidityPending, Unregistered, InsertReady, InsertSteps

\* A pending entry of n is made before it stops being pending.
EntriesKept(t, n) ==
  /\ forgotten' = forgotten
  /\ index \subseteq index'
  /\ \A d \in Ids : deps_rev[d] \subseteq deps_rev'[d]
  /\ \A w \in Windows : by_validity[w] \subseteq by_validity'[w]
  /\ \A k \in n.keys : KeyPending(t, n, k) => KeyPending(t, n, k)' \/ <<k, n.id>> \in index'
  /\ \A d \in n.deps : DepPending(t, n, d) => DepPending(t, n, d)' \/ n.id \in deps_rev'[d]
  /\ ValidityPending(t, n) => ValidityPending(t, n)' \/ n.id \in by_validity'[n.window]

LEMMA KeptIndexed ==
  ASSUME NEW t \in Threads, NEW n \in Nodes, IndexedAs(n), EntriesKept(t, n),
         \A u \in Threads \ {t} : pc'[u] = pc[u] /\ ins'[u] = ins[u]
  PROVE  IndexedAs(n)'
<1>0. n.deps \subseteq Ids /\ n.window \in Windows
  BY NodesAssumption DEF NodesAssumption, NodeType
<1>1. ASSUME NEW k \in n.keys
      PROVE  <<k, n.id>> \in index' \/ \E u \in Threads : KeyPending(u, n, k)'
  <2>1. CASE <<k, n.id>> \in index
    BY <2>1 DEF EntriesKept
  <2>2. ASSUME NEW u \in Threads, KeyPending(u, n, k)
        PROVE  <<k, n.id>> \in index' \/ \E v \in Threads : KeyPending(v, n, k)'
    <3>1. CASE u = t
      BY <2>2, <3>1 DEF EntriesKept
    <3>2. CASE u # t
      BY <2>2, <3>2, SamePending
    <3> QED BY <3>1, <3>2
  <2> QED BY <2>1, <2>2 DEF IndexedAs
<1>2. ASSUME NEW d \in n.deps, n.id \notin forgotten
      PROVE  n.id \in deps_rev'[d] \/ \E u \in Threads : DepPending(u, n, d)'
  <2>1. CASE n.id \in deps_rev[d]
    BY <1>0, <2>1 DEF EntriesKept
  <2>2. ASSUME NEW u \in Threads, DepPending(u, n, d)
        PROVE  n.id \in deps_rev'[d] \/ \E v \in Threads : DepPending(v, n, d)'
    <3>1. CASE u = t
      BY <2>2, <3>1 DEF EntriesKept
    <3>2. CASE u # t
      BY <2>2, <3>2, SamePending
    <3> QED BY <3>1, <3>2
  <2> QED BY <1>2, <2>1, <2>2 DEF IndexedAs
<1>3. ASSUME n.id \notin forgotten
      PROVE  n.id \in by_validity'[n.window] \/ \E u \in Threads : ValidityPending(u, n)'
  <2>1. CASE n.id \in by_validity[n.window]
    BY <1>0, <2>1 DEF EntriesKept
  <2>2. ASSUME NEW u \in Threads, ValidityPending(u, n)
        PROVE  n.id \in by_validity'[n.window] \/ \E v \in Threads : ValidityPending(v, n)'
    <3>1. CASE u = t
      BY <2>2, <3>1 DEF EntriesKept
    <3>2. CASE u # t
      BY <2>2, <3>2, SamePending
    <3> QED BY <3>1, <3>2
  <2> QED BY <1>3, <2>1, <2>2 DEF IndexedAs
<1> QED BY <1>1, <1>2, <1>3 DEF IndexedAs, EntriesKept

LEMMA NothingPending ==
  ASSUME NEW t \in Threads, NEW n, TypeOK, InsertReady(t),
         UNCHANGED <<index, deps_rev, by_validity, forgotten>>,
         \/ pc[t] \in {"idle", "check", "enter", "mark", "logRetract", "fan", "loop"}
         \/ Persistent /\ pc[t] = "put"
  PROVE  EntriesKept(t, n)
BY NotInserting DEF EntriesKept

\* Each step of insert makes the entry it stops owing.
LEMMA InsertKeepsEntries ==
  ASSUME NEW t \in Threads, NEW n \in Nodes, TypeOK, InsertReady(t), InsertStep(t)
  PROVE  EntriesKept(t, n)
<1> USE DEF store_vars, local_vars
<1>0. /\ ins[t] \in InsertLocals /\ LocalsReady(t)
      /\ pc \in [Threads -> Steps] /\ ins \in [Threads -> InsertLocals]
      /\ deps_rev \in [Ids -> SUBSET Ids] /\ by_validity \in [Windows -> SUBSET Ids]
  BY DEF TypeOK
<1>1. CASE RejectInvalid(t) \/ RejectDuplicate(t) \/ Admit(t)
  BY <1>1, NothingPending DEF RejectInvalid, RejectDuplicate, Admit, Fail
<1>2. CASE LogInsert(t)
  <2>1. ins' = ins /\ pc[t] = "log" /\ UNCHANGED <<index, deps_rev, by_validity, forgotten>>
    BY <1>2 DEF LogInsert
  <2>2. ins[t].op = "batch" => pc'[t] = "notify"
    BY <1>0, <1>2 DEF LogInsert, Goto, LogsFirst
  <2> QED BY <2>1, <2>2
          DEF EntriesKept, KeyPending, DepPending, ValidityPending, Unregistered
<1>3. CASE PutNode(t)
  <2>1. pc[t] = "put" /\ pc'[t] = "index" /\ UNCHANGED <<index, deps_rev, by_validity, forgotten>>
    BY <1>0, <1>3 DEF PutNode, Goto
  <2>2. ins'[t].load = ins[t].load /\ ins'[t].todo \subseteq ins[t].todo
    BY <1>0, <1>3 DEF PutNode, InsertLocals
  <2> QED BY <2>1, <2>2
          DEF EntriesKept, KeyPending, DepPending, ValidityPending, Unregistered
<1>4. CASE PutIndex(t)
  <2>1. PICK k \in ins[t].keys :
          LET rest == ins[t].keys \ {k} IN
          /\ index' = index \cup {<<k, ins[t].node.id>>}
          /\ IF rest = {} /\ ins[t].todo = {}
             THEN /\ ins' = [ins EXCEPT ![t].keys = rest, ![t].todo = ins[t].load]
                  /\ Goto(t, "next")
             ELSE /\ ins' = [ins EXCEPT ![t].keys = rest]
                  /\ Goto(t, IF rest = {} THEN "put" ELSE "index")
    BY <1>4 DEF PutIndex
  <2>2. pc[t] = "index" /\ UNCHANGED <<deps_rev, by_validity, forgotten>>
    BY <1>4 DEF PutIndex
  <2>3. /\ ins'[t].load = ins[t].load /\ ins'[t].node = ins[t].node
        /\ ins'[t].keys = ins[t].keys \ {k}
    BY <1>0, <2>1 DEF InsertLocals
  <2>4. \/ pc'[t] = "next" /\ ins'[t].keys = {} /\ ins[t].todo = {} /\ ins'[t].todo = ins[t].load
        \/ pc'[t] = "put" /\ ins'[t].keys = {} /\ ins'[t].todo = ins[t].todo
        \/ pc'[t] = "index" /\ ins'[t].todo = ins[t].todo
    BY <1>0, <2>1 DEF Goto, InsertLocals
  <2>5. Unregistered(t) \subseteq Unregistered(t)'
    BY <2>2, <2>3, <2>4 DEF Unregistered
  <2>6. ASSUME NEW j \in n.keys, KeyPending(t, n, j)
        PROVE  KeyPending(t, n, j)' \/ <<j, n.id>> \in index'
    BY <2>1, <2>3, <2>4, <2>6 DEF KeyPending
  <2> QED BY <2>1, <2>2, <2>5, <2>6 DEF EntriesKept, DepPending, ValidityPending
<1>5. CASE WriteBatch(t)
  BY <1>0, <1>5, NotInserting DEF WriteBatch, IndexEntries, EntriesKept
<1>6. CASE NextNode(t)
  <2>1. PICK m \in ins[t].todo :
          /\ ins' = [ins EXCEPT ![t].todo = @ \ {m}, ![t].node = m, ![t].deps = m.deps]
          /\ Goto(t, IF m.deps = {} THEN "validity" ELSE "deps")
    BY <1>6 DEF NextNode
  <2>2. /\ ins'[t].todo = ins[t].todo \ {m} /\ ins'[t].node = m /\ ins'[t].deps = m.deps
        /\ pc[t] = "next" /\ pc'[t] = IF m.deps = {} THEN "validity" ELSE "deps"
        /\ UNCHANGED <<index, deps_rev, by_validity, forgotten>>
    BY <1>0, <1>6, <2>1 DEF NextNode, InsertLocals, Goto
  <2> QED BY <2>2
          DEF EntriesKept, KeyPending, DepPending, ValidityPending, Unregistered
<1>7. CASE RegisterDep(t)
  <2>1. PICK d \in ins[t].deps :
          /\ deps_rev' = Registered(ins[t].node.id, d)
          /\ ins' = [ins EXCEPT ![t].deps = @ \ {d}]
          /\ Goto(t, IF ins[t].deps = {d} THEN "validity" ELSE "deps")
    BY <1>7 DEF RegisterDep
  <2>2. /\ ins'[t].todo = ins[t].todo /\ ins'[t].node = ins[t].node
        /\ ins'[t].deps = ins[t].deps \ {d}
        /\ pc[t] = "deps" /\ pc'[t] = IF ins[t].deps = {d} THEN "validity" ELSE "deps"
        /\ UNCHANGED <<index, by_validity, forgotten>>
    BY <1>0, <1>7, <2>1 DEF RegisterDep, InsertLocals, Goto
  <2>3. d \in Ids /\ deps_rev'[d] = deps_rev[d] \cup {ins[t].node.id}
    BY <1>0, <2>1 DEF Registered, InsertLocals
  <2>4. \A e \in Ids : deps_rev[e] \subseteq deps_rev'[e]
    BY <1>0, <2>1 DEF Registered
  <2>5. ASSUME NEW e \in n.deps, DepPending(t, n, e)
        PROVE  DepPending(t, n, e)' \/ n.id \in deps_rev'[e]
    BY <2>2, <2>3, <2>5 DEF DepPending, Unregistered
  <2> QED BY <2>2, <2>4, <2>5 DEF EntriesKept, KeyPending, ValidityPending, Unregistered
<1>8. CASE RegisterValidity(t)
  <2>1. /\ ins' = ins /\ pc[t] = "validity" /\ UNCHANGED <<index, deps_rev, forgotten>>
        /\ by_validity' = [by_validity EXCEPT ![ins[t].node.window] = @ \cup {ins[t].node.id}]
    BY <1>8 DEF RegisterValidity
  <2>2. pc'[t] = "notify" \/ (pc'[t] = "log" /\ ins[t].op = "batch")
    BY <1>0, <1>8 DEF RegisterValidity, Goto, LogsFirst, InsertReady, InsertSteps
  <2>3. n.window \in Windows
    BY NodesAssumption DEF NodesAssumption, NodeType
  <2>4. \A w \in Windows : by_validity[w] \subseteq by_validity'[w]
    BY <1>0, <2>1
  <2> QED BY <1>0, <2>1, <2>2, <2>3, <2>4
          DEF EntriesKept, KeyPending, DepPending, ValidityPending, Unregistered
<1>9. CASE NotifyInsert(t)
  <2>1. pc[t] = "notify" /\ pc'[t] = "next" /\ ins' = ins /\ UNCHANGED <<index, deps_rev, by_validity, forgotten>>
    BY <1>0, <1>9 DEF NotifyInsert, Goto
  <2> QED BY <2>1 DEF EntriesKept, KeyPending, DepPending, ValidityPending, Unregistered
<1>10. CASE InsertDone(t)
  <2>1. pc[t] = "next" /\ ins[t].todo = {} /\ UNCHANGED <<index, deps_rev, by_validity, forgotten>>
    BY <1>10 DEF InsertDone
  <2> QED BY <2>1 DEF EntriesKept, KeyPending, DepPending, ValidityPending, Unregistered
<1> QED BY <1>1, <1>2, <1>3, <1>4, <1>5, <1>6, <1>7, <1>8, <1>9, <1>10 DEF InsertStep

\* No step outside insert owes an entry or takes one away.
LEMMA OthersKeepEntries ==
  ASSUME NEW t \in Threads, NEW n \in Nodes, TypeOK, InsertReady(t),
         ClientCall(t) \/ RetractStep(t) \/ StorageFails(t)
  PROVE  EntriesKept(t, n)
<1> USE DEF store_vars, local_vars
<1>1. CASE ClientCall(t)
  <2>1. pc[t] = "idle" /\ UNCHANGED <<index, deps_rev, by_validity, forgotten>>
    BY <1>1 DEF ClientCall, CallInsert, CallBatch, CallRetract, StartRetract, Call
  <2> QED BY <2>1, NothingPending
<1>2. CASE StorageFails(t)
  <2>1. /\ pc[t] \in {"check", "enter", "mark", "loop"} \/ (Persistent /\ pc[t] = "put")
        /\ UNCHANGED <<index, deps_rev, by_validity, forgotten>>
    BY <1>2 DEF StorageFails, Fail
  <2> QED BY <2>1, NothingPending
<1>3. CASE RetractStep(t)
  <2>1. pc[t] \in {"enter", "mark", "logRetract", "fan", "loop"}
    BY <1>3 DEF RetractStep, EnterAtLimit, EnterMissing, EnterRetracted, EnterActive,
                MarkRetracted, LogRetract, FanOut, SkipDependent, Truncate, Recurse,
                ReturnFromFrame, NotifyRetract, Looping
  <2>2. UNCHANGED <<index, deps_rev, by_validity, forgotten>>
    BY <1>3 DEF RetractStep, EnterAtLimit, EnterMissing, EnterRetracted, EnterActive,
                MarkRetracted, LogRetract, FanOut, SkipDependent, Truncate, Recurse,
                ReturnFromFrame, NotifyRetract, Fail
  <2> QED BY <2>1, <2>2, NothingPending
<1> QED BY <1>1, <1>2, <1>3

LEMMA ReadyKept ==
  ASSUME NEW t \in Threads, TypeOK, InsertReady(t), ClientCall(t) \/ StoreStep(t)
  PROVE  InsertReady(t)'
<1> USE DEF InsertReady, InsertSteps, Goto, local_vars
<1>0. /\ ins[t] \in InsertLocals /\ ins \in [Threads -> InsertLocals]
      /\ pc \in [Threads -> Steps] /\ Persistent \in BOOLEAN
  BY BoundsAssumption DEF TypeOK, BoundsAssumption
<1>1. CASE CallInsert(t) \/ CallBatch(t)
  <2>1. ASSUME NEW op \in {"insert", "batch"}, NEW load, Call(t, op, load)
        PROVE  InsertReady(t)'
    <3>1. /\ ins' = [ins EXCEPT ![t] = [NoInsert EXCEPT !.op = op, !.load = load, !.todo = load]]
          /\ Goto(t, "check")
      BY <2>1 DEF Call
    <3>2. pc'[t] = "check" /\ ins'[t].op = op /\ ins'[t].load = load /\ ins'[t].todo = load
      BY <1>0, <3>1 DEF NoInsert
    <3> QED BY <3>2
  <2> QED BY <1>1, <2>1 DEF CallInsert, CallBatch
<1>2. CASE CallRetract(t) \/ RetractStep(t) \/ StorageFails(t)
  <2>1. pc'[t] \in {"idle", "enter", "mark", "logRetract", "fan", "loop"}
    BY <1>0, <1>2
    DEF CallRetract, StartRetract, StorageFails, RetractStep, EnterAtLimit, EnterMissing, EnterRetracted,
        EnterActive, MarkRetracted, LogRetract, FanOut, SkipDependent, Truncate, Recurse,
        ReturnFromFrame, NotifyRetract, Looping, Fail, Reply
  <2> QED BY <2>1
<1>3. CASE RejectInvalid(t) \/ RejectDuplicate(t) \/ InsertDone(t)
  BY <1>0, <1>3 DEF RejectInvalid, RejectDuplicate, InsertDone, Fail, Reply
<1>4. CASE Admit(t)
  <2>1. ins'[t].op = ins[t].op /\ ins'[t].load = ins[t].load /\ ins'[t].todo = ins[t].todo
    BY <1>0, <1>4 DEF Admit, InsertLocals
  <2>2. pc[t] = "check" /\ pc'[t] = IF ins[t].op = "insert" THEN "log" ELSE "put"
    BY <1>0, <1>4 DEF Admit, LogsFirst
  <2> QED BY <2>1, <2>2
<1>5. CASE LogInsert(t)
  BY <1>0, <1>5 DEF LogInsert, LogsFirst
<1>6. CASE PutNode(t)
  <2>1. /\ ins'[t].op = ins[t].op /\ ins'[t].load = ins[t].load
        /\ ins'[t].todo \subseteq ins[t].todo
    BY <1>0, <1>6 DEF PutNode, InsertLocals
  <2>2. pc[t] = "put" /\ pc'[t] = "index" /\ ~Persistent
    BY <1>0, <1>6 DEF PutNode
  <2> QED BY <2>1, <2>2
<1>7. CASE PutIndex(t)
  <2>1. /\ ins'[t].op = ins[t].op /\ ins'[t].load = ins[t].load
        /\ ins'[t].todo \in {ins[t].todo, ins[t].load}
    <3>1. PICK rest :
            \/ ins' = [ins EXCEPT ![t].keys = rest, ![t].todo = ins[t].load]
            \/ ins' = [ins EXCEPT ![t].keys = rest]
      BY <1>7 DEF PutIndex
    <3> QED BY <1>0, <3>1 DEF InsertLocals
  <2>2. pc[t] = "index" /\ pc'[t] \in {"next", "put", "index"}
    BY <1>0, <1>7 DEF PutIndex
  <2> QED BY <2>1, <2>2
<1>8. CASE WriteBatch(t)
  BY <1>0, <1>8 DEF WriteBatch, IndexEntries, InsertLocals
<1>9. CASE NextNode(t)
  <2>1. /\ ins'[t].op = ins[t].op /\ ins'[t].load = ins[t].load
        /\ ins'[t].todo \subseteq ins[t].todo
    BY <1>0, <1>9 DEF NextNode, InsertLocals
  <2>2. pc[t] = "next" /\ pc'[t] \in {"validity", "deps"}
    BY <1>0, <1>9 DEF NextNode
  <2> QED BY <2>1, <2>2
<1>10. CASE RegisterDep(t)
  <2>1. /\ ins'[t].op = ins[t].op /\ ins'[t].load = ins[t].load
        /\ ins'[t].todo = ins[t].todo
    BY <1>0, <1>10 DEF RegisterDep, InsertLocals
  <2>2. pc[t] = "deps" /\ pc'[t] \in {"validity", "deps"}
    BY <1>0, <1>10 DEF RegisterDep
  <2> QED BY <2>1, <2>2
<1>11. CASE RegisterValidity(t)
  BY <1>0, <1>11 DEF RegisterValidity, LogsFirst
<1>12. CASE NotifyInsert(t)
  BY <1>0, <1>12 DEF NotifyInsert
<1> QED BY <1>1, <1>2, <1>3, <1>4, <1>5, <1>6, <1>7, <1>8, <1>9, <1>10, <1>11, <1>12
        DEF ClientCall, StoreStep, InsertStep

LEMMA IndexedKept ==
  ASSUME NEW t \in Threads, NEW n \in Nodes, TypeOK, InsertReady(t), IndexedAs(n),
         ClientCall(t) \/ StoreStep(t)
  PROVE  IndexedAs(n)'
<1>1. EntriesKept(t, n)
  BY InsertKeepsEntries, OthersKeepEntries DEF StoreStep
<1>2. \A u \in Threads \ {t} : pc'[u] = pc[u] /\ ins'[u] = ins[u]
  BY OtherThreads
<1> QED BY <1>1, <1>2, KeptIndexed

LEMMA StoredNode ==
  ASSUME TypeOK, NEW i \in Ids, nodes[i] # None
  PROVE  nodes[i].node \in Nodes /\ nodes[i].status \in Status
BY DEF TypeOK, Stored

\* A node has all its entries, or they are pending, as soon as it is visible.
LEMMA StoreStepIndexed ==
  ASSUME NEW t \in Threads, TypeOK, IndexInv, ClientCall(t) \/ StoreStep(t),
         NEW i \in Ids, nodes'[i] # None
  PROVE  \E m \in Nodes : m = nodes'[i].node /\ m.id = i /\ IndexedAs(m)'
<1> USE DEF store_vars, local_vars
<1>0. /\ ins[t] \in InsertLocals /\ ins \in [Threads -> InsertLocals] /\ LocalsReady(t)
      /\ nodes \in [Ids -> Stored \cup {None}] /\ pc \in [Threads -> Steps]
      /\ InsertReady(t)
  BY DEF TypeOK, IndexInv
<1>1. CASE nodes'[i] = nodes[i]
  <2>1. PICK m \in Nodes : m = nodes[i].node
    BY <1>1, StoredNode
  <2>2. m.id = i /\ IndexedAs(m)
    BY <1>1, <2>1 DEF IndexInv, IndexesComplete, StoredById
  <2> QED BY <1>0, <1>1, <2>1, <2>2, IndexedKept
<1>2. CASE PutNode(t) /\ nodes'[i] # nodes[i]
  <2>1. PICK n \in ins[t].todo :
          /\ nodes' = [nodes EXCEPT ![n.id] = Active(n)]
          /\ ins' = [ins EXCEPT ![t].todo = @ \ {n}, ![t].node = n, ![t].keys = n.keys]
    BY <1>2 DEF PutNode
  <2>2. nodes'[i].node = n /\ n.id = i /\ n \in Nodes
    BY <1>0, <1>2, <2>1 DEF Active, InsertLocals
  <2>3. /\ pc'[t] = "index" /\ ins'[t].node = n /\ ins'[t].keys = n.keys
        /\ n \in ins'[t].load /\ n \notin ins'[t].todo
    BY <1>0, <1>2, <2>1 DEF PutNode, Goto, InsertLocals, InsertReady, InsertSteps
  <2>4. IndexedAs(n)'
    BY <2>3 DEF IndexedAs, KeyPending, DepPending, ValidityPending, Unregistered
  <2> QED BY <2>2, <2>4
<1>3. CASE WriteBatch(t) /\ nodes'[i] # nodes[i]
  <2>1. PICK n \in ins[t].load : n.id = i /\ nodes'[i] = Active(n)
    BY <1>3 DEF WriteBatch, IndexEntries
  <2>2. nodes'[i].node = n /\ \A k \in n.keys : <<k, n.id>> \in index'
    BY <1>3, <2>1 DEF WriteBatch, IndexEntries, Active
  <2>3. pc'[t] = "next" /\ n \in ins'[t].todo
    BY <1>0, <1>3, <2>1 DEF WriteBatch, IndexEntries, Goto, InsertLocals
  <2>4. IndexedAs(n)'
    BY <2>2, <2>3 DEF IndexedAs, DepPending, ValidityPending, Unregistered
  <2>5. n \in Nodes
    BY <1>0 DEF InsertLocals
  <2> QED BY <2>1, <2>2, <2>4, <2>5
<1>4. CASE MarkRetracted(t) /\ nodes'[i] # nodes[i]
  <2>1. i = cas[t].id /\ nodes'[i].node = cas[t].node
    BY <1>0, <1>4 DEF MarkRetracted, Retracted
  <2>2. PICK m \in Nodes : m = cas[t].node
    BY <1>0, <1>4 DEF MarkRetracted, LocalsReady
  <2>3. IndexedAs(m) /\ m.id = cas[t].id
    BY <1>4, <2>2 DEF MarkRetracted, IndexInv, CopyIndexed
  <2> QED BY <1>0, <2>1, <2>2, <2>3, IndexedKept
<1>5. PutNode(t) \/ WriteBatch(t) \/ MarkRetracted(t) \/ nodes' = nodes
  <2>1. ClientCall(t) \/ StorageFails(t) => nodes' = nodes
    BY DEF ClientCall, CallInsert, CallBatch, CallRetract, StartRetract, Call, StorageFails, Fail
  <2>2. InsertStep(t) => PutNode(t) \/ WriteBatch(t) \/ nodes' = nodes
    BY DEF InsertStep, RejectInvalid, RejectDuplicate, Admit, LogInsert, PutIndex, NextNode,
           RegisterDep, RegisterValidity, NotifyInsert, InsertDone, Fail
  <2>3. RetractStep(t) => MarkRetracted(t) \/ nodes' = nodes
    BY DEF RetractStep, EnterAtLimit, EnterMissing, EnterRetracted, EnterActive, LogRetract,
           FanOut, SkipDependent, Truncate, Recurse, ReturnFromFrame, NotifyRetract, Fail
  <2> QED BY <2>1, <2>2, <2>3 DEF StoreStep
<1> QED BY <1>1, <1>2, <1>3, <1>4, <1>5

LEMMA CopyKept ==
  ASSUME NEW t \in Threads, NEW u \in Threads, TypeOK, IndexInv,
         ClientCall(t) \/ StoreStep(t)
  PROVE  CopyIndexed(u)'
<1>0. InsertReady(t) /\ CopyIndexed(u) /\ LocalsReady(u)
      /\ pc \in [Threads -> Steps] /\ cas \in [Threads -> CascadeLocals]
  BY DEF TypeOK, IndexInv
<1>1. CASE u # t
  <2>1. pc'[u] = pc[u] /\ cas'[u] = cas[u]
    BY <1>1, OtherThreads
  <2>2. CASE pc[u] = "mark"
    <3>1. PICK m \in Nodes : m = cas[u].node
      BY <1>0, <2>2 DEF LocalsReady
    <3>2. IndexedAs(m) /\ m.id = cas[u].id
      BY <1>0, <2>2, <3>1 DEF CopyIndexed
    <3>3. IndexedAs(m)'
      BY <1>0, <3>2, IndexedKept
    <3>4. m = cas'[u].node /\ m.id = cas'[u].id
      BY <2>1, <3>1, <3>2
    <3> QED BY <3>3, <3>4 DEF CopyIndexed
  <2> QED BY <2>1, <2>2 DEF CopyIndexed
<1>2. CASE u = t
  <2>1. CASE EnterActive(t)
    <3>1. cas[t].id \in Ids /\ nodes[cas[t].id] # None
      BY <1>0, <1>2, <2>1 DEF EnterActive, LocalsReady
    <3>2. cas'[t].id = cas[t].id /\ cas'[t].node = nodes[cas[t].id].node
      BY <1>0, <2>1 DEF EnterActive, CascadeLocals
    <3>3. nodes'[cas[t].id] = nodes[cas[t].id]
      BY <2>1 DEF EnterActive, store_vars
    <3>4. PICK m \in Nodes : m = nodes'[cas[t].id].node /\ m.id = cas[t].id /\ IndexedAs(m)'
      BY <3>1, <3>3, StoreStepIndexed
    <3>5. m = cas'[t].node /\ m.id = cas'[t].id
      BY <3>2, <3>3, <3>4
    <3> QED BY <1>2, <3>4, <3>5 DEF CopyIndexed
  <2>2. CASE ~EnterActive(t)
    <3>1. pc'[t] # "mark"
      <4> USE DEF Goto, Fail, Reply
      <4>1. ClientCall(t) \/ StorageFails(t) => pc'[t] # "mark"
        BY <1>0 DEF ClientCall, CallInsert, CallBatch, CallRetract, StartRetract, Call, StorageFails
      <4>2. InsertStep(t) => pc'[t] # "mark"
        BY <1>0
        DEF InsertStep, RejectInvalid, RejectDuplicate, Admit, LogInsert, PutNode, PutIndex,
            WriteBatch, IndexEntries, NextNode, RegisterDep, RegisterValidity, NotifyInsert, InsertDone
      <4>3. RetractStep(t) => pc'[t] # "mark"
        BY <1>0, <2>2
        DEF RetractStep, EnterAtLimit, EnterMissing, EnterRetracted, MarkRetracted, LogRetract,
            FanOut, SkipDependent, Truncate, Recurse, ReturnFromFrame, NotifyRetract, Looping
      <4> QED BY <4>1, <4>2, <4>3 DEF StoreStep
    <3> QED BY <1>2, <3>1 DEF CopyIndexed
  <2> QED BY <2>1, <2>2
<1> QED BY <1>1, <1>2

\* RocksDB has the secondary index of whatever node it has; rebuild_indices
\* recovers the rest, or has forgotten the node.
LEMMA CrashIndexed ==
  ASSUME TypeOK, IndexInv, Crash, NEW i \in Ids, nodes'[i] # None
  PROVE  \E m \in Nodes : m = nodes'[i].node /\ m.id = i /\ IndexedAs(m)'
<1>1. PICK m \in Nodes : m = nodes[i].node
  BY StoredNode DEF Crash
<1>2. nodes' = nodes /\ m.id = i /\ IndexedAs(m) /\ nodes[i] # None
  BY <1>1 DEF Crash, IndexInv, StoredById, IndexesComplete
<1>3. ASSUME NEW k \in m.keys PROVE <<k, m.id>> \in index'
  <2>1. \A t \in Threads : ~KeyPending(t, m, k)
    BY DEF Crash, IndexInv, InsertReady, KeyPending
  <2> QED BY <1>2, <2>1 DEF IndexedAs, Crash
<1>4. ASSUME Rebuild
      PROVE  m.id \in by_validity'[m.window] /\ \A d \in m.deps : m.id \in deps_rev'[d]
  <2>1. m.window \in Windows /\ m.deps \subseteq Ids
    BY NodesAssumption DEF NodesAssumption, NodeType
  <2> QED BY <1>1, <1>2, <1>4, <2>1 DEF Rebuild, DependentsOf, ValidIn
<1>5. ASSUME RebuildFails PROVE m.id \in forgotten'
  BY <1>2, <1>5 DEF RebuildFails, StoredIds
<1> QED BY <1>1, <1>2, <1>3, <1>4, <1>5 DEF IndexedAs, Crash

LEMMA SameIndexed ==
  ASSUME UNCHANGED <<nodes, index, deps_rev, by_validity, forgotten, pc, ins, cas>>, TypeOK, IndexInv
  PROVE  IndexInv'
<1> USE DEF IndexInv
<1>1. ASSUME NEW n, IndexedAs(n) PROVE IndexedAs(n)'
  <2>1. ASSUME NEW u \in Threads, NEW x
        PROVE  /\ KeyPending(u, n, x)' = KeyPending(u, n, x)
               /\ DepPending(u, n, x)' = DepPending(u, n, x)
               /\ ValidityPending(u, n)' = ValidityPending(u, n)
    BY SamePending
  <2> QED BY <1>1, <2>1 DEF IndexedAs
<1>2. IndexesComplete'
  <2>1. ASSUME NEW i \in Ids, nodes'[i] # None PROVE IndexedAs(nodes[i].node)'
    <3>1. PICK m \in Nodes : m = nodes[i].node /\ m = nodes'[i].node
      BY <2>1, StoredNode
    <3>2. IndexedAs(m)
      BY <2>1, <3>1 DEF IndexesComplete
    <3> QED BY <1>1, <3>1, <3>2
  <2> QED BY <2>1 DEF IndexesComplete
<1>3. StoredById' /\ \A t \in Threads : InsertReady(t)'
  BY DEF StoredById, InsertReady
<1>4. ASSUME NEW t \in Threads PROVE CopyIndexed(t)'
  <2>1. CASE pc[t] = "mark"
    <3>1. PICK m \in Nodes : m = cas[t].node /\ m = cas'[t].node
      BY <2>1 DEF TypeOK, LocalsReady
    <3>2. IndexedAs(m)
      BY <2>1, <3>1 DEF CopyIndexed
    <3> QED BY <1>1, <3>1, <3>2 DEF CopyIndexed
  <2> QED BY <2>1 DEF CopyIndexed
<1> QED BY <1>2, <1>3, <1>4

LEMMA NextIndexed == TypeOK /\ IndexInv /\ [Next]_vars => IndexInv'
<1> SUFFICES ASSUME TypeOK, IndexInv, [Next]_vars PROVE IndexInv'
  OBVIOUS
<1>1. ASSUME NEW t \in Threads, ClientCall(t) \/ StoreStep(t) PROVE IndexInv'
  <2>1. StoredById' /\ IndexesComplete'
    BY <1>1, StoreStepIndexed DEF StoredById, IndexesComplete
  <2>2. ASSUME NEW u \in Threads PROVE InsertReady(u)' /\ CopyIndexed(u)'
    <3>1. CASE u = t
      BY <1>1, <3>1, ReadyKept, CopyKept DEF IndexInv
    <3>2. CASE u # t
      <4>1. InsertReady(u)'
        BY <1>1, <3>2, OtherThreads DEF IndexInv, InsertReady
      <4> QED BY <1>1, <4>1, CopyKept
    <3> QED BY <3>1, <3>2
  <2> QED BY <2>1, <2>2 DEF IndexInv
<1>2. CASE Crash
  <2>1. StoredById' /\ IndexesComplete'
    BY <1>2, CrashIndexed DEF StoredById, IndexesComplete
  <2>2. ASSUME NEW u \in Threads PROVE InsertReady(u)' /\ CopyIndexed(u)'
    BY <1>2 DEF Crash, InsertReady, InsertSteps, CopyIndexed
  <2> QED BY <2>1, <2>2 DEF IndexInv
<1>3. CASE UNCHANGED vars \/ \E s \in Subs : Poll(s)
  BY <1>3, SameIndexed DEF vars, store_vars, local_vars, Poll
<1> QED BY <1>1, <1>2, <1>3 DEF Next, Finished

\* At every moment, a stored node that is missing from an index is being
\* inserted by a call that has that entry still to make -- for both backends,
\* with concurrent calls, storage failures and crashes.
THEOREM IndexesAlwaysComplete == Spec => []IndexesComplete
<1>1. Init => IndexInv
  BY DEF Init, IndexInv, StoredById, IndexesComplete, InsertReady, InsertSteps, CopyIndexed
<1>2. IndexInv => IndexesComplete
  BY DEF IndexInv
<1> QED BY <1>1, <1>2, InitTypeOK, NextTypeOK, NextIndexed, PTL DEF Spec

-----------------------------------------------------------------------------
(* The store implements the knowledge base as long as no two calls race    *)
(* with nodes of one id (NoDuplicateRace). Without that hypothesis it does *)
(* not: the check for duplicates and the write are two steps.              *)

Holds(n) == nodes[n.id] # None /\ nodes[n.id].node = n
IsRetracted(i) == nodes[i] # None /\ nodes[i].status = "Retracted"

\* What KnowledgeBase!Justified says of i, in the terms of the store.
MayRetract(i) ==
  \/ i \in asked
  \/ /\ nodes[i] # None /\ nodes[i].node.derived
     /\ \E d \in nodes[i].node.deps : IsRetracted(d)

\* Steps of t's insert between the check for duplicates and its last write.
Writing(t) == pc[t] \in {"put", "index"} \/ (pc[t] = "log" /\ ins[t].op = "insert")
Written(t) == pc[t] \in {"next", "deps", "validity", "notify"}
              \/ (pc[t] = "log" /\ ins[t].op # "insert")

\* The verdict of the check for duplicates still holds when t acts on it.
FreshInv(t) ==
  /\ pc[t] \in InsertSteps => ins[t].load \subseteq Offered(t)
  /\ pc[t] = "check" => ins[t].todo = ins[t].load
  /\ Writing(t) =>
       /\ \A n, m \in ins[t].load : n.id = m.id => n = m
       /\ \A n \in ins[t].todo : nodes[n.id] = None
       /\ \A n \in ins[t].load \ ins[t].todo : Holds(n)
  /\ Written(t) => \A n \in ins[t].load : Holds(n)
  /\ pc[t] = "deps" => ins[t].node \in ins[t].load /\ ins[t].deps \subseteq ins[t].node.deps

\* The cascade of t only reaches what it may retract.
EntryOK(t) ==
  /\ pc[t] \in {"enter", "mark"} => MayRetract(cas[t].id)
  /\ pc[t] = "mark" => nodes[cas[t].id] # None /\ nodes[cas[t].id].node = cas[t].node
  /\ pc[t] \in {"logRetract", "fan"} => IsRetracted(cas[t].id)
FrameOK(f) == IsRetracted(f.id) /\ f.todo \subseteq deps_rev[f.id]
CascadeInv(t) == EntryOK(t) /\ \A k \in 1..Len(stack[t]) : FrameOK(stack[t][k])

\* deps_rev names only stored nodes, under what they do depend on.
DepsSound ==
  \A d \in Ids : \A i \in deps_rev[d] : nodes[i] # None /\ d \in nodes[i].node.deps

RefInv == DepsSound /\ \A t \in Threads : FreshInv(t) /\ CascadeInv(t)

-----------------------------------------------------------------------------

\* Nothing is forgotten, replaced or reactivated, and no new node appears
\* under an id outside S.
Kept(S) ==
  \A i \in Ids :
    /\ nodes[i] # None => nodes'[i] # None /\ nodes'[i].node = nodes[i].node
    /\ IsRetracted(i) => IsRetracted(i)'
    /\ nodes[i] = None /\ nodes'[i] # None => \E n \in S : n.id = i

LEMMA NodeFacts ==
  ASSUME NEW n \in Nodes
  PROVE  n.id \in Ids /\ n.deps \subseteq Ids
BY NodesAssumption DEF NodesAssumption, NodeType

LEMMA OtherNodes ==
  ASSUME DisjointOffers, NEW t \in Threads, NEW u \in Threads, t # u,
         NEW n \in Offered(t), NEW m \in Offered(u)
  PROVE  n.id # m.id
BY DEF DisjointOffers

LEMMA DisjointNoRace ==
  ASSUME DisjointOffers, IndexInv, RefInv
  PROVE  NoDuplicateRace
<1>1. ASSUME NEW t \in Threads, NEW n \in ToWrite(t) PROVE n \in Offered(t)
  BY <1>1 DEF ToWrite, RefInv, FreshInv, IndexInv, InsertReady, InsertSteps
<1> QED BY <1>1, OtherNodes DEF NoDuplicateRace

\* What each step does to the nodes.
LEMMA StepKeeps ==
  ASSUME NEW t \in Threads, TypeOK, IndexInv, RefInv, ClientCall(t) \/ StoreStep(t)
  PROVE  \/ nodes' = nodes
         \/ PutNode(t) /\ Kept(ins[t].todo)
         \/ WriteBatch(t) /\ Kept(ins[t].load)
         \/ MarkRetracted(t) /\ Kept({})
<1> USE DEF store_vars
<1>0. /\ ins[t] \in InsertLocals /\ LocalsReady(t) /\ nodes \in [Ids -> Stored \cup {None}]
      /\ FreshInv(t) /\ CascadeInv(t) /\ InsertReady(t)
  BY DEF TypeOK, RefInv, IndexInv
<1>1. CASE PutNode(t)
  <2>1. PICK n \in ins[t].todo : nodes' = [nodes EXCEPT ![n.id] = Active(n)]
    BY <1>1 DEF PutNode
  <2>2. n \in Nodes /\ n.id \in Ids /\ nodes[n.id] = None
    BY <1>0, <1>1, NodeFacts DEF FreshInv, Writing, PutNode, InsertLocals
  <2> QED BY <1>0, <1>1, <2>1, <2>2 DEF Kept, IsRetracted
<1>2. CASE WriteBatch(t)
  <2>1. \A n \in ins[t].load : n \in Nodes /\ nodes[n.id] = None
    BY <1>0, <1>2 DEF FreshInv, Writing, WriteBatch, IndexEntries, InsertReady, InsertLocals
  <2>2. ASSUME NEW i \in Ids
        PROVE  \/ nodes'[i] = nodes[i]
               \/ nodes[i] = None /\ \E n \in ins[t].load : n.id = i
    BY <1>2, <2>1, <2>2 DEF WriteBatch, IndexEntries
  <2> QED BY <1>2, <2>2 DEF Kept, IsRetracted
<1>3. CASE MarkRetracted(t)
  <2>1. /\ nodes' = [nodes EXCEPT ![cas[t].id] = Retracted(cas[t].node)]
        /\ cas[t].id \in Ids /\ nodes[cas[t].id] # None
        /\ nodes[cas[t].id].node = cas[t].node /\ cas[t].node \in Nodes
    BY <1>0, <1>3 DEF MarkRetracted, LocalsReady, CascadeInv, EntryOK
  <2>2. Retracted(cas[t].node) # None
    BY <2>1, NoneAssumption, NodesAssumption DEF NoneAssumption, NodesAssumption, Retracted
  <2>3. Kept({})
    BY <1>0, <2>1, <2>2 DEF Kept, IsRetracted, Retracted
  <2> QED BY <1>3, <2>3
<1>4. PutNode(t) \/ WriteBatch(t) \/ MarkRetracted(t) \/ nodes' = nodes
  <2>1. ClientCall(t) \/ StorageFails(t) => nodes' = nodes
    BY DEF ClientCall, CallInsert, CallBatch, CallRetract, StartRetract, Call, StorageFails, Fail
  <2>2. InsertStep(t) => PutNode(t) \/ WriteBatch(t) \/ nodes' = nodes
    BY DEF InsertStep, RejectInvalid, RejectDuplicate, Admit, LogInsert, PutIndex, NextNode,
           RegisterDep, RegisterValidity, NotifyInsert, InsertDone, Fail
  <2>3. RetractStep(t) => MarkRetracted(t) \/ nodes' = nodes
    BY DEF RetractStep, EnterAtLimit, EnterMissing, EnterRetracted, EnterActive, LogRetract,
           FanOut, SkipDependent, Truncate, Recurse, ReturnFromFrame, NotifyRetract, Fail
  <2> QED BY <2>1, <2>2, <2>3 DEF StoreStep
<1> QED BY <1>1, <1>2, <1>3, <1>4

LEMMA SameNodesKept == ASSUME nodes' = nodes, NEW S PROVE Kept(S)
BY DEF Kept, IsRetracted

LEMMA StepWrites ==
  ASSUME NEW t \in Threads, TypeOK, IndexInv, RefInv, ClientCall(t) \/ StoreStep(t)
  PROVE  Kept(ToWrite(t))
<1>1. CASE PutNode(t) /\ Kept(ins[t].todo)
  BY <1>1 DEF ToWrite, PutNode
<1>2. CASE WriteBatch(t) /\ Kept(ins[t].load)
  BY <1>2 DEF IndexInv, InsertReady, ToWrite, WriteBatch
<1>3. CASE nodes' = nodes
  BY <1>3, SameNodesKept
<1>4. CASE MarkRetracted(t) /\ Kept({})
  BY <1>4 DEF Kept
<1> QED BY <1>1, <1>2, <1>3, <1>4, StepKeeps

LEMMA StepKept ==
  ASSUME NEW t \in Threads, TypeOK, IndexInv, RefInv, ClientCall(t) \/ StoreStep(t)
  PROVE  Kept(Offered(t)) /\ (~PutNode(t) /\ ~WriteBatch(t) => Kept({}))
<1>1. CASE PutNode(t) /\ Kept(ins[t].todo)
  <2>1. ins[t].todo \subseteq Offered(t)
    BY <1>1 DEF RefInv, FreshInv, IndexInv, InsertReady, InsertSteps, PutNode
  <2> QED BY <1>1, <2>1 DEF Kept
<1>2. CASE WriteBatch(t) /\ Kept(ins[t].load)
  <2>1. ins[t].load \subseteq Offered(t)
    BY <1>2 DEF RefInv, FreshInv, InsertSteps, WriteBatch, IndexEntries
  <2> QED BY <1>2, <2>1 DEF Kept
<1>3. CASE nodes' = nodes
  BY <1>3, SameNodesKept
<1>4. CASE MarkRetracted(t) /\ Kept({})
  BY <1>4 DEF Kept
<1> QED BY <1>1, <1>2, <1>3, <1>4, StepKeeps

LEMMA HoldsKept ==
  ASSUME NEW S, Kept(S), NEW n \in Nodes, Holds(n)
  PROVE  Holds(n)'
BY NodeFacts DEF Kept, Holds

LEMMA MayRetractKept ==
  ASSUME NEW S, Kept(S), TypeOK, asked \subseteq asked', NEW i \in Ids, MayRetract(i)
  PROVE  MayRetract(i)'
<1>1. CASE i \in asked
  BY <1>1 DEF MayRetract
<1>2. CASE /\ nodes[i] # None /\ nodes[i].node.derived
           /\ \E d \in nodes[i].node.deps : IsRetracted(d)
  <2>1. PICK d \in nodes[i].node.deps : IsRetracted(d)
    BY <1>2
  <2>2. d \in Ids
    BY <1>2, StoredNode, NodeFacts
  <2>3. IsRetracted(d)'
    BY <2>1, <2>2 DEF Kept
  <2> QED BY <1>2, <2>1, <2>3 DEF Kept, MayRetract
<1> QED BY <1>1, <1>2 DEF MayRetract

LEMMA AskedGrows ==
  ASSUME NEW t \in Threads, ClientCall(t) \/ StoreStep(t)
  PROVE  asked \subseteq asked' /\ (asked' # asked => CallRetract(t))
<1>1. ClientCall(t) => asked \subseteq asked' /\ (asked' # asked => CallRetract(t))
  BY DEF ClientCall, CallInsert, CallBatch, CallRetract, StartRetract, Call
<1>2. StorageFails(t) => asked' = asked
  BY DEF StorageFails, Fail
<1>3. InsertStep(t) => asked' = asked
  BY DEF InsertStep, RejectInvalid, RejectDuplicate, Admit, LogInsert, PutNode, PutIndex,
         WriteBatch, IndexEntries, NextNode, RegisterDep, RegisterValidity, NotifyInsert, InsertDone, Fail
<1>4. RetractStep(t) => asked' = asked
  BY DEF RetractStep, EnterAtLimit, EnterMissing, EnterRetracted, EnterActive, MarkRetracted,
         LogRetract, FanOut, SkipDependent, Truncate, Recurse, ReturnFromFrame, NotifyRetract, Fail
<1> QED BY <1>1, <1>2, <1>3, <1>4 DEF StoreStep

\* What a thread relies on survives the steps of the others.
LEMMA OthersFresh ==
  ASSUME NoDuplicateRace, NEW t \in Threads, NEW u \in Threads, u # t, TypeOK, IndexInv, RefInv,
         ClientCall(t) \/ StoreStep(t)
  PROVE  FreshInv(u)'
<1>1. pc'[u] = pc[u] /\ ins'[u] = ins[u] /\ FreshInv(u) /\ Kept(ToWrite(t))
  BY OtherThreads, StepWrites DEF RefInv
<1>2. ins[u].load \subseteq Nodes /\ InsertReady(u)
  BY DEF TypeOK, InsertLocals, IndexInv
<1>3. ASSUME NEW n \in ins[u].load, Holds(n) PROVE Holds(n)'
  BY <1>1, <1>2, <1>3, HoldsKept
<1>4. ASSUME Writing(u), NEW n \in ins[u].todo PROVE nodes'[n.id] = None
  <2>1. n \in ToWrite(u) /\ n \in Nodes /\ nodes[n.id] = None
    BY <1>1, <1>2, <1>4 DEF Writing, ToWrite, FreshInv, InsertReady, InsertSteps
  <2>2. \A m \in ToWrite(t) : m.id # n.id
    BY <2>1 DEF NoDuplicateRace
  <2> QED BY <1>1, <2>1, <2>2, NodeFacts DEF Kept
<1>5. Writing(u)' = Writing(u) /\ Written(u)' = Written(u)
  BY <1>1 DEF Writing, Written
<1> QED BY <1>1, <1>3, <1>4, <1>5 DEF FreshInv

LEMMA DependentsGrow ==
  ASSUME NEW t \in Threads, TypeOK, ClientCall(t) \/ StoreStep(t), NEW d \in Ids
  PROVE  /\ deps_rev[d] \subseteq deps_rev'[d]
         /\ \A i \in deps_rev'[d] : i \in deps_rev[d] \/
              (pc[t] = "deps" /\ i = ins[t].node.id /\ d \in ins[t].deps)
<1> USE DEF store_vars
<1>1. CASE RegisterDep(t)
  <2>1. PICK e \in ins[t].deps : deps_rev' = [deps_rev EXCEPT ![e] = @ \cup {ins[t].node.id}]
    BY <1>1 DEF RegisterDep, Registered
  <2>2. pc[t] = "deps"
    BY <1>1 DEF RegisterDep
  <2> QED BY <2>1, <2>2 DEF TypeOK
<1>2. CASE deps_rev' = deps_rev
  BY <1>2
<1>3. ClientCall(t) \/ StorageFails(t) => deps_rev' = deps_rev
  BY DEF ClientCall, CallInsert, CallBatch, CallRetract, StartRetract, Call, StorageFails, Fail
<1>4. InsertStep(t) => RegisterDep(t) \/ deps_rev' = deps_rev
  BY DEF InsertStep, RejectInvalid, RejectDuplicate, Admit, LogInsert, PutNode, PutIndex,
         WriteBatch, IndexEntries, NextNode, RegisterValidity, NotifyInsert, InsertDone, Fail
<1>5. RetractStep(t) => deps_rev' = deps_rev
  BY DEF RetractStep, EnterAtLimit, EnterMissing, EnterRetracted, EnterActive, MarkRetracted,
         LogRetract, FanOut, SkipDependent, Truncate, Recurse, ReturnFromFrame, NotifyRetract, Fail
<1> QED BY <1>1, <1>2, <1>3, <1>4, <1>5 DEF StoreStep

LEMMA DepsStaySound ==
  ASSUME NEW t \in Threads, TypeOK, IndexInv, RefInv, ClientCall(t) \/ StoreStep(t)
  PROVE  DepsSound'
<1> SUFFICES ASSUME NEW d \in Ids, NEW i \in deps_rev'[d]
             PROVE  nodes'[i] # None /\ d \in nodes'[i].node.deps
  BY DEF DepsSound
<1>0. Kept(Offered(t))
  BY StepKept
<1>1. CASE i \in deps_rev[d]
  <2>1. i \in Ids /\ nodes[i] # None /\ d \in nodes[i].node.deps
    BY <1>1 DEF TypeOK, RefInv, DepsSound
  <2> QED BY <1>0, <2>1 DEF Kept
<1>2. CASE pc[t] = "deps" /\ i = ins[t].node.id /\ d \in ins[t].deps
  <2>1. ins[t].node \in ins[t].load /\ d \in ins[t].node.deps /\ Holds(ins[t].node)
    BY <1>2 DEF RefInv, FreshInv, Written
  <2>2. i \in Ids /\ nodes[i] # None /\ nodes[i].node = ins[t].node
    BY <1>2, <2>1, NodeFacts DEF Holds, TypeOK, LocalsReady
  <2> QED BY <1>0, <2>1, <2>2 DEF Kept
<1> QED BY <1>1, <1>2, DependentsGrow

\* A frame stays justified whatever the threads do.
LEMMA FrameKept ==
  ASSUME NEW t \in Threads, TypeOK, IndexInv, RefInv, ClientCall(t) \/ StoreStep(t),
         NEW f \in [id: Ids, todo: SUBSET Ids], FrameOK(f)
  PROVE  FrameOK(f)'
<1>1. f.id \in Ids
  OBVIOUS
<1>2. IsRetracted(f.id)'
  BY <1>1, StepKept DEF Kept, FrameOK
<1>3. f.todo \subseteq deps_rev'[f.id]
  BY <1>1, DependentsGrow DEF FrameOK
<1> QED BY <1>2, <1>3 DEF FrameOK

LEMMA FramesKept ==
  ASSUME NEW t \in Threads, TypeOK, IndexInv, RefInv, ClientCall(t) \/ StoreStep(t),
         NEW u \in Threads, stack'[u] = stack[u]
  PROVE  \A k \in 1..Len(stack'[u]) : FrameOK(stack[u][k])'
<1> SUFFICES ASSUME NEW k \in 1..Len(stack'[u]) PROVE FrameOK(stack[u][k])'
  OBVIOUS
<1>0. stack[u] \in Seq([id: Ids, todo: SUBSET Ids]) /\ k \in 1..Len(stack[u])
  BY DEF TypeOK, Frames
<1>1. PICK f \in [id: Ids, todo: SUBSET Ids] : f = stack[u][k] /\ f = stack'[u][k]
  BY <1>0, ElementOfSeq
<1>2. FrameOK(f)
  BY <1>1 DEF RefInv, CascadeInv
<1> QED BY <1>1, <1>2, FrameKept

LEMMA EntryKept ==
  ASSUME NEW t \in Threads, TypeOK, IndexInv, RefInv, ClientCall(t) \/ StoreStep(t),
         NEW u \in Threads, pc'[u] = pc[u], cas'[u] = cas[u]
  PROVE  EntryOK(u)'
<1>1. EntryOK(u) /\ LocalsReady(u) /\ Kept(Offered(t)) /\ asked \subseteq asked'
  BY StepKept, AskedGrows DEF RefInv, CascadeInv, TypeOK
<1>2. CASE pc[u] \in {"enter", "mark", "logRetract", "fan"}
  <2>1. PICK i \in Ids : i = cas[u].id /\ i = cas'[u].id
    BY <1>1, <1>2 DEF LocalsReady
  <2>2. MayRetract(i) => MayRetract(i)'
    BY <1>1, MayRetractKept
  <2>3. IsRetracted(i) => IsRetracted(i)'
    BY <1>1 DEF Kept
  <2>4. nodes[i] # None => nodes'[i] # None /\ nodes'[i].node = nodes[i].node
    BY <1>1 DEF Kept
  <2> QED BY <1>1, <2>1, <2>2, <2>3, <2>4 DEF EntryOK
<1>3. CASE pc[u] \notin {"enter", "mark", "logRetract", "fan"}
  BY <1>3 DEF EntryOK
<1> QED BY <1>2, <1>3

LEMMA OthersCascade ==
  ASSUME NEW t \in Threads, NEW u \in Threads, u # t, TypeOK, IndexInv, RefInv,
         ClientCall(t) \/ StoreStep(t)
  PROVE  CascadeInv(u)'
BY OtherThreads, EntryKept, FramesKept DEF CascadeInv

\* A thread's own steps: what the check for duplicates found is what the write
\* needs, and what the write leaves is what the registrations need.
LEMMA OwnFresh ==
  ASSUME NEW t \in Threads, TypeOK, IndexInv, RefInv, ClientCall(t) \/ StoreStep(t)
  PROVE  FreshInv(t)'
<1> USE DEF store_vars, local_vars, Goto
<1>0. /\ ins[t] \in InsertLocals /\ ins \in [Threads -> InsertLocals] /\ LocalsReady(t)
      /\ nodes \in [Ids -> Stored \cup {None}] /\ pc \in [Threads -> Steps]
      /\ FreshInv(t) /\ InsertReady(t) /\ ins[t].load \subseteq Nodes
  BY DEF TypeOK, RefInv, IndexInv, InsertLocals
<1>k. Kept(Offered(t))
  BY StepKept
<1>h. ASSUME NEW n \in ins[t].load, Holds(n) PROVE Holds(n)'
  BY <1>0, <1>k, <1>h, HoldsKept
<1>1. CASE CallInsert(t) \/ CallBatch(t)
  <2>1. PICK op \in {"insert", "batch"}, load \in SUBSET Offered(t) : Call(t, op, load)
    BY <1>1 DEF CallInsert, CallBatch, Offered
  <2>2. pc'[t] = "check" /\ ins'[t].load = load /\ ins'[t].todo = load
    BY <1>0, <2>1 DEF Call, NoInsert
  <2> QED BY <2>2 DEF FreshInv, Writing, Written
<1>2. CASE \/ CallRetract(t) \/ RetractStep(t) \/ StorageFails(t)
           \/ RejectInvalid(t) \/ RejectDuplicate(t) \/ InsertDone(t)
  <2>1. pc'[t] \notin InsertSteps
    BY <1>0, <1>2
    DEF CallRetract, StartRetract, StorageFails, RetractStep, EnterAtLimit, EnterMissing, EnterRetracted,
        EnterActive, MarkRetracted, LogRetract, FanOut, SkipDependent, Truncate, Recurse,
        ReturnFromFrame, NotifyRetract, Looping, Fail, Reply, RejectInvalid, RejectDuplicate,
        InsertDone, InsertSteps
  <2> QED BY <2>1 DEF FreshInv, Writing, Written, InsertSteps
<1>3. CASE Admit(t)
  <2>1. /\ pc[t] = "check" /\ nodes' = nodes /\ Duplicates(ins[t].load) = {}
        /\ pc'[t] = IF ins[t].op = "insert" THEN "log" ELSE "put"
    BY <1>0, <1>3 DEF Admit, LogsFirst
  <2>2. ins'[t].op = ins[t].op /\ ins'[t].load = ins[t].load /\ ins'[t].todo = ins[t].load
    BY <1>0, <1>3, <2>1 DEF Admit, InsertLocals, FreshInv
  <2>3. /\ \A n, m \in ins[t].load : n.id = m.id => n = m
        /\ \A n \in ins[t].load : nodes[n.id] = None
    BY <2>1 DEF Duplicates
  <2> QED BY <1>0, <2>1, <2>2, <2>3 DEF FreshInv, Writing, Written, InsertSteps
<1>4. CASE LogInsert(t)
  <2>1. /\ pc[t] = "log" /\ nodes' = nodes /\ ins' = ins
        /\ pc'[t] = IF ins[t].op = "insert" THEN "put" ELSE "notify"
    BY <1>0, <1>4 DEF LogInsert, LogsFirst
  <2> QED BY <1>0, <2>1 DEF FreshInv, Writing, Written, InsertSteps, Holds
<1>5. CASE PutNode(t)
  <2>1. PICK n \in ins[t].todo :
          /\ nodes' = [nodes EXCEPT ![n.id] = Active(n)]
          /\ ins' = [ins EXCEPT ![t].todo = @ \ {n}, ![t].node = n, ![t].keys = n.keys]
    BY <1>5 DEF PutNode
  <2>2. /\ pc[t] = "put" /\ pc'[t] = "index" /\ ins'[t].load = ins[t].load
        /\ ins'[t].todo = ins[t].todo \ {n} /\ ins[t].todo \subseteq ins[t].load
    BY <1>0, <1>5, <2>1 DEF PutNode, InsertLocals, InsertReady, InsertSteps
  <2>3. n \in Nodes /\ n.id \in Ids /\ Active(n) # None
    BY <1>0, <2>2, NodeFacts, NodesAssumption, NoneAssumption
    DEF Active, NodesAssumption, NoneAssumption
  <2>4. Holds(n)'
    BY <1>0, <2>1, <2>3 DEF Holds, Active
  <2>5. ASSUME NEW m \in ins'[t].todo PROVE nodes'[m.id] = None
    BY <1>0, <2>1, <2>2, <2>5 DEF FreshInv, Writing
  <2>6. ASSUME NEW m \in ins'[t].load \ ins'[t].todo PROVE Holds(m)'
    <3>1. CASE m = n
      BY <2>4, <3>1
    <3>2. CASE m # n
      BY <1>0, <1>h, <2>2, <2>6, <3>2 DEF FreshInv, Writing
    <3> QED BY <3>1, <3>2
  <2> QED BY <1>0, <2>2, <2>5, <2>6 DEF FreshInv, Writing, Written, InsertSteps
<1>6. CASE PutIndex(t)
  <2>1. PICK rest :
          \/ /\ ins[t].todo = {} /\ pc'[t] = "next"
             /\ ins' = [ins EXCEPT ![t].keys = rest, ![t].todo = ins[t].load]
          \/ pc'[t] \in {"put", "index"} /\ ins' = [ins EXCEPT ![t].keys = rest]
    BY <1>0, <1>6 DEF PutIndex
  <2>2. /\ pc[t] = "index" /\ nodes' = nodes /\ ins'[t].load = ins[t].load
        /\ \/ pc'[t] = "next" /\ ins[t].todo = {}
           \/ pc'[t] \in {"put", "index"} /\ ins'[t].todo = ins[t].todo
    BY <1>0, <1>6, <2>1 DEF PutIndex, InsertLocals
  <2> QED BY <1>0, <1>h, <2>2 DEF FreshInv, Writing, Written, InsertSteps
<1>7. CASE WriteBatch(t)
  <2>1. /\ pc[t] = "put" /\ pc'[t] = "next" /\ ins'[t].load = ins[t].load
        /\ \A n, m \in ins[t].load : n.id = m.id => n = m
    BY <1>0, <1>7 DEF WriteBatch, IndexEntries, InsertLocals, FreshInv, Writing
  <2>2. ASSUME NEW n \in ins[t].load PROVE Holds(n)'
    <3>1. n \in Nodes /\ n.id \in Ids /\ Active(n) # None
      BY <1>0, NodeFacts, NodesAssumption, NoneAssumption
      DEF Active, NodesAssumption, NoneAssumption
    <3>2. (CHOOSE m \in ins[t].load : m.id = n.id) = n
      BY <2>1
    <3>3. nodes'[n.id] = Active(n)
      BY <1>7, <3>1, <3>2 DEF WriteBatch, IndexEntries
    <3> QED BY <3>1, <3>3 DEF Holds, Active
  <2> QED BY <1>0, <2>1, <2>2 DEF FreshInv, Writing, Written, InsertSteps
<1>8. CASE NextNode(t)
  <2>1. PICK n \in ins[t].todo :
          /\ ins' = [ins EXCEPT ![t].todo = @ \ {n}, ![t].node = n, ![t].deps = n.deps]
          /\ pc'[t] \in {"validity", "deps"}
    BY <1>0, <1>8 DEF NextNode
  <2>2. /\ pc[t] = "next" /\ nodes' = nodes /\ n \in ins[t].load
        /\ ins'[t].load = ins[t].load /\ ins'[t].node = n /\ ins'[t].deps = n.deps
    BY <1>0, <1>8, <2>1 DEF NextNode, InsertLocals, InsertReady, InsertSteps
  <2> QED BY <1>0, <1>h, <2>1, <2>2 DEF FreshInv, Writing, Written, InsertSteps
<1>9. CASE RegisterDep(t)
  <2>1. /\ pc[t] = "deps" /\ pc'[t] \in {"validity", "deps"} /\ nodes' = nodes
        /\ ins'[t].load = ins[t].load /\ ins'[t].node = ins[t].node
        /\ ins'[t].deps \subseteq ins[t].deps
    BY <1>0, <1>9 DEF RegisterDep, InsertLocals
  <2> QED BY <1>0, <1>h, <2>1 DEF FreshInv, Writing, Written, InsertSteps
<1>10. CASE RegisterValidity(t) \/ NotifyInsert(t)
  <2>1. /\ Written(t) /\ Written(t)' /\ ~Writing(t)' /\ nodes' = nodes /\ ins' = ins
        /\ pc[t] \in InsertSteps /\ pc'[t] \notin {"check", "deps"}
    BY <1>0, <1>10
    DEF RegisterValidity, NotifyInsert, LogsFirst, Written, Writing, InsertSteps
  <2> QED BY <1>0, <1>h, <2>1 DEF FreshInv
<1> QED BY <1>1, <1>2, <1>3, <1>4, <1>5, <1>6, <1>7, <1>8, <1>9, <1>10
        DEF ClientCall, StoreStep, InsertStep

LEMMA OwnCascadeDropped ==
  ASSUME NEW t \in Threads, pc'[t] \notin {"enter", "mark", "logRetract", "fan"}, stack'[t] = <<>>
  PROVE  CascadeInv(t)'
BY DEF CascadeInv, EntryOK

\* The top frame with fewer dependents still to visit.
LEMMA FewerTodo ==
  ASSUME NEW t \in Threads, TypeOK, IndexInv, RefInv, StoreStep(t),
         stack[t] # <<>>, NEW ids \in SUBSET Top(t).todo, SetTodo(t, ids)
  PROVE  \A k \in 1..Len(stack'[t]) : FrameOK(stack[t][k])'
<1> DEFINE F == [id: Ids, todo: SUBSET Ids]
           s == stack[t]
<1>1. s \in Seq(F) /\ Len(s) \in 1..Len(s) /\ s[Len(s)] \in F
  BY LastTyped DEF TypeOK, Frames
<1>2. stack'[t] = [s EXCEPT ![Len(s)] = [s[Len(s)] EXCEPT !.todo = ids]]
  BY DEF TypeOK, SetTodo
<1>3. [s[Len(s)] EXCEPT !.todo = ids] \in F
  BY <1>1 DEF Top
<1>4. Len(stack'[t]) = Len(s)
  BY <1>1, <1>2, LenOfExcept
<1> SUFFICES ASSUME NEW k \in 1..Len(stack'[t]) PROVE FrameOK(stack[t][k])'
  OBVIOUS
<1>5. CASE k = Len(s)
  <2>1. PICK f \in F : f = [s[Len(s)] EXCEPT !.todo = ids]
    BY <1>3
  <2>2. f = stack'[t][k]
    BY <1>1, <1>2, <1>5, <2>1
  <2>3. f.id = s[Len(s)].id /\ f.todo \subseteq s[Len(s)].todo
    BY <1>1, <2>1 DEF Top
  <2>4. FrameOK(f)
    BY <1>1, <2>3 DEF RefInv, CascadeInv, FrameOK
  <2> QED BY <2>2, <2>4, FrameKept
<1>6. CASE k # Len(s)
  <2>1. PICK f \in F : f = s[k]
    BY <1>1, <1>4, ElementOfSeq
  <2>2. f = stack'[t][k]
    BY <1>1, <1>2, <1>4, <1>6, <2>1
  <2>3. FrameOK(f)
    BY <1>4, <2>1 DEF RefInv, CascadeInv
  <2> QED BY <2>2, <2>3, FrameKept
<1> QED BY <1>5, <1>6

LEMMA OwnCascade ==
  ASSUME NEW t \in Threads, TypeOK, IndexInv, RefInv, ClientCall(t) \/ StoreStep(t)
  PROVE  CascadeInv(t)'
<1> USE DEF store_vars, local_vars, Goto
<1>0. /\ cas[t] \in CascadeLocals /\ cas \in [Threads -> CascadeLocals] /\ LocalsReady(t)
      /\ nodes \in [Ids -> Stored \cup {None}] /\ pc \in [Threads -> Steps]
      /\ stack \in [Threads -> Frames] /\ stack[t] \in Frames
      /\ CascadeInv(t) /\ EntryOK(t)
  BY DEF TypeOK, RefInv, CascadeInv
<1>1. CASE \/ RejectInvalid(t) \/ RejectDuplicate(t) \/ InsertDone(t) \/ StorageFails(t)
           \/ EnterMissing(t) \/ NotifyRetract(t)
  <2>1. pc'[t] = "idle" /\ stack'[t] = <<>>
    BY <1>0, <1>1 DEF RejectInvalid, RejectDuplicate, InsertDone, StorageFails, EnterMissing,
                      NotifyRetract, Fail, Reply
  <2> QED BY <2>1, OwnCascadeDropped
<1>2. CASE \/ CallInsert(t) \/ CallBatch(t) \/ Admit(t) \/ LogInsert(t) \/ PutNode(t)
           \/ PutIndex(t) \/ WriteBatch(t) \/ NextNode(t) \/ RegisterDep(t)
           \/ RegisterValidity(t) \/ NotifyInsert(t)
  <2>1. pc'[t] \in InsertSteps /\ stack'[t] = stack[t]
    <3>1. stack' = stack
      BY <1>2 DEF CallInsert, CallBatch, Call, Admit, LogInsert, PutNode, PutIndex, WriteBatch, IndexEntries,
                  NextNode, RegisterDep, RegisterValidity, NotifyInsert
    <3>2. CASE CallInsert(t) \/ CallBatch(t) \/ Admit(t) \/ LogInsert(t) \/ PutNode(t)
      BY <1>0, <3>2 DEF CallInsert, CallBatch, Call, Admit, LogInsert, PutNode, InsertSteps
    <3>3. CASE PutIndex(t) \/ WriteBatch(t) \/ NextNode(t)
      BY <1>0, <3>3 DEF PutIndex, WriteBatch, IndexEntries, NextNode, InsertSteps
    <3>4. CASE RegisterDep(t) \/ RegisterValidity(t) \/ NotifyInsert(t)
      BY <1>0, <3>4 DEF RegisterDep, RegisterValidity, NotifyInsert, InsertSteps
    <3> QED BY <1>2, <3>1, <3>2, <3>3, <3>4
  <2> QED BY <2>1, FramesKept DEF CascadeInv, EntryOK, InsertSteps
<1>3. CASE CallRetract(t)
  <2>1. PICK root \in Ids, limit \in Limits :
          /\ cas' = [cas EXCEPT ![t] = [NoCascade EXCEPT !.root = root, !.limit = limit, !.id = root]]
          /\ asked' = asked \cup {root}
    BY <1>3 DEF CallRetract, StartRetract
  <2>2. cas'[t].id = root /\ pc'[t] = "enter" /\ stack'[t] = stack[t]
    BY <1>0, <1>3, <2>1 DEF CallRetract, StartRetract, NoCascade
  <2> QED BY <2>1, <2>2, FramesKept DEF CascadeInv, EntryOK, MayRetract
<1>4. CASE EnterAtLimit(t) \/ EnterRetracted(t)
  <2>1. pc'[t] = "loop" /\ stack'[t] = stack[t]
    BY <1>0, <1>4 DEF EnterAtLimit, EnterRetracted
  <2> QED BY <2>1, FramesKept DEF CascadeInv, EntryOK
<1>5. CASE EnterActive(t)
  <2>1. /\ pc[t] = "enter" /\ pc'[t] = "mark" /\ stack'[t] = stack[t]
        /\ nodes' = nodes /\ asked' = asked /\ nodes[cas[t].id] # None
    BY <1>0, <1>5 DEF EnterActive
  <2>2. cas'[t].id = cas[t].id /\ cas'[t].node = nodes[cas[t].id].node
    BY <1>0, <1>5 DEF EnterActive, CascadeLocals
  <2>3. EntryOK(t)'
    BY <1>0, <2>1, <2>2 DEF EntryOK, MayRetract, IsRetracted
  <2> QED BY <2>1, <2>3, FramesKept DEF CascadeInv
<1>6. CASE MarkRetracted(t)
  <2>1. /\ pc[t] = "mark" /\ pc'[t] = "logRetract" /\ stack'[t] = stack[t] /\ cas' = cas
        /\ nodes' = [nodes EXCEPT ![cas[t].id] = Retracted(cas[t].node)]
        /\ cas[t].id \in Ids /\ cas[t].node \in Nodes
    BY <1>0, <1>6 DEF MarkRetracted, LocalsReady
  <2>2. Retracted(cas[t].node) # None
    BY <2>1, NoneAssumption, NodesAssumption DEF NoneAssumption, NodesAssumption, Retracted
  <2>3. EntryOK(t)'
    BY <1>0, <2>1, <2>2 DEF EntryOK, IsRetracted, Retracted
  <2> QED BY <2>1, <2>3, FramesKept DEF CascadeInv
<1>7. CASE LogRetract(t)
  <2>1. /\ pc[t] = "logRetract" /\ pc'[t] = "fan" /\ stack'[t] = stack[t] /\ nodes' = nodes
        /\ cas'[t].id = cas[t].id
    BY <1>0, <1>7 DEF LogRetract, CascadeLocals
  <2>2. EntryOK(t)'
    BY <1>0, <2>1 DEF EntryOK, IsRetracted
  <2> QED BY <2>1, <2>2, FramesKept DEF CascadeInv
<1>8. CASE FanOut(t)
  <2> DEFINE F == [id: Ids, todo: SUBSET Ids]
  <2>1. PICK f \in F : f = [id |-> cas[t].id, todo |-> deps_rev[cas[t].id]]
    BY <1>0, <1>8 DEF FanOut, LocalsReady, TypeOK
  <2>2. /\ stack'[t] = Append(stack[t], f) /\ pc'[t] = "loop"
        /\ IsRetracted(f.id) /\ f.todo = deps_rev[f.id]
    BY <1>0, <1>8, <2>1 DEF FanOut, EntryOK
  <2>3. FrameOK(f)'
    BY <2>2, FrameKept DEF FrameOK, StoreStep
  <2>4. ASSUME NEW k \in 1..Len(stack'[t]) PROVE FrameOK(stack[t][k])'
    <3>1. stack[t] \in Seq(F)
      BY <1>0 DEF Frames
    <3>2. /\ Len(stack'[t]) = Len(stack[t]) + 1 /\ Len(stack[t]) \in Nat
          /\ \A j \in 1..Len(stack[t]) : stack'[t][j] = stack[t][j]
          /\ stack'[t][Len(stack[t]) + 1] = f
      BY <2>1, <2>2, <3>1, AppendProperties, LenProperties
    <3>3. CASE k = Len(stack[t]) + 1
      BY <2>3, <3>2, <3>3
    <3>4. CASE k # Len(stack[t]) + 1
      <4>1. k \in 1..Len(stack[t])
        BY <3>2, <3>4
      <4>2. PICK g \in F : g = stack[t][k]
        BY <3>1, <4>1, ElementOfSeq
      <4>3. g = stack'[t][k] /\ FrameOK(g)
        BY <1>0, <3>2, <4>1, <4>2 DEF CascadeInv
      <4> QED BY <4>3, FrameKept DEF StoreStep
    <3> QED BY <3>3, <3>4
  <2> QED BY <2>2, <2>4 DEF CascadeInv, EntryOK
<1>9. CASE SkipDependent(t) \/ Truncate(t)
  <2>1. PICK ids \in SUBSET Top(t).todo : SetTodo(t, ids)
    BY <1>9 DEF SkipDependent, Truncate
  <2>2. stack[t] # <<>> /\ pc'[t] = "loop"
    BY <1>9 DEF SkipDependent, Truncate, Looping
  <2>3. StoreStep(t)
    BY <1>9 DEF StoreStep, RetractStep
  <2> QED BY <2>1, <2>2, <2>3, FewerTodo DEF CascadeInv, EntryOK
<1>10. CASE Recurse(t)
  <2>1. PICK d \in Top(t).todo : /\ Follows(d) /\ SetTodo(t, Top(t).todo \ {d})
                                 /\ cas' = [cas EXCEPT ![t].id = d]
    BY <1>10 DEF Recurse
  <2>2. stack[t] # <<>> /\ pc'[t] = "enter" /\ nodes' = nodes /\ asked' = asked /\ StoreStep(t)
    BY <1>0, <1>10 DEF Recurse, Looping, StoreStep, RetractStep
  <2>3. Top(t).id \in Ids /\ Top(t).todo \in SUBSET Ids /\ FrameOK(Top(t))
    BY <1>0, <2>2, TopTyped, LastTyped DEF Top, CascadeInv, Frames
  <2>4. MayRetract(d)
    BY <2>1, <2>3 DEF MayRetract, Follows, FrameOK, RefInv, DepsSound
  <2>5. cas'[t].id = d /\ MayRetract(d)'
    BY <1>0, <2>1, <2>2, <2>4 DEF CascadeLocals, MayRetract, IsRetracted
  <2>6. \A k \in 1..Len(stack'[t]) : FrameOK(stack[t][k])'
    BY <2>1, <2>2, FewerTodo
  <2> QED BY <2>2, <2>5, <2>6 DEF CascadeInv, EntryOK
<1>11. CASE ReturnFromFrame(t)
  <2>1. stack[t] # <<>> /\ stack'[t] = Popped(t) /\ pc'[t] = "loop"
    BY <1>0, <1>11 DEF ReturnFromFrame, Looping
  <2>2. ASSUME NEW k \in 1..Len(stack'[t]) PROVE FrameOK(stack[t][k])'
    <3>1. stack[t] \in Seq([id: Ids, todo: SUBSET Ids])
      BY <1>0 DEF Frames
    <3>2. k \in 1..Len(stack[t]) /\ stack'[t][k] = stack[t][k]
      BY <2>1, <2>2, <3>1, FrontTyped, LastTyped DEF Popped
    <3>3. PICK g \in [id: Ids, todo: SUBSET Ids] : g = stack[t][k]
      BY <3>1, <3>2, ElementOfSeq
    <3>4. g = stack'[t][k] /\ FrameOK(g)
      BY <1>0, <3>2, <3>3 DEF CascadeInv
    <3> QED BY <3>4, FrameKept
  <2> QED BY <2>1, <2>2 DEF CascadeInv, EntryOK
<1> QED BY <1>1, <1>2, <1>3, <1>4, <1>5, <1>6, <1>7, <1>8, <1>9, <1>10, <1>11
        DEF ClientCall, StoreStep, InsertStep, RetractStep

LEMMA SameRef ==
  ASSUME UNCHANGED <<nodes, deps_rev, pc, ins, cas, stack, asked>>, RefInv
  PROVE  RefInv'
<1> USE DEF RefInv
<1>1. DepsSound'
  BY DEF DepsSound
<1>2. \A t \in Threads : FreshInv(t)'
  BY DEF FreshInv, Writing, Written, Holds
<1>3. \A t \in Threads : CascadeInv(t)'
  BY DEF CascadeInv, EntryOK, FrameOK, MayRetract, IsRetracted
<1> QED BY <1>1, <1>2, <1>3

LEMMA NextRefRaceless ==
  TypeOK /\ IndexInv /\ RefInv /\ NoDuplicateRace /\ [Next]_vars => RefInv'
<1> SUFFICES ASSUME TypeOK, IndexInv, RefInv, NoDuplicateRace, [Next]_vars PROVE RefInv'
  OBVIOUS
<1>1. ASSUME NEW t \in Threads, ClientCall(t) \/ StoreStep(t) PROVE RefInv'
  <2>1. ASSUME NEW u \in Threads PROVE FreshInv(u)' /\ CascadeInv(u)'
    <3>1. CASE u = t
      BY <1>1, <3>1, OwnFresh, OwnCascade
    <3>2. CASE u # t
      BY <1>1, <3>2, OthersFresh, OthersCascade
    <3> QED BY <3>1, <3>2
  <2> QED BY <1>1, <2>1, DepsStaySound DEF RefInv
<1>2. CASE Crash
  <2>1. DepsSound'
    BY <1>2 DEF Crash, Rebuild, RebuildFails, DependentsOf, DepsSound
  <2>2. ASSUME NEW u \in Threads PROVE FreshInv(u)' /\ CascadeInv(u)'
    BY <1>2 DEF Crash, FreshInv, InsertSteps, Writing, Written, CascadeInv, EntryOK
  <2> QED BY <2>1, <2>2 DEF RefInv
<1>3. CASE UNCHANGED vars \/ \E s \in Subs : Poll(s)
  BY <1>3, SameRef DEF vars, store_vars, local_vars, Poll
<1> QED BY <1>1, <1>2, <1>3 DEF Next, Finished

LEMMA NextRef ==
  ASSUME DisjointOffers
  PROVE  TypeOK /\ IndexInv /\ RefInv /\ [Next]_vars => RefInv'
BY DisjointNoRace, NextRefRaceless

-----------------------------------------------------------------------------
(* Every step of the store is a step of the knowledge base, or invisible.  *)

LEMMA PutNodeLearns ==
  ASSUME NEW t \in Threads, TypeOK, IndexInv, RefInv, PutNode(t)
  PROVE  \E S \in SUBSET Nodes : KB!Learn(S)
<1>1. PICK n \in ins[t].todo : nodes' = [nodes EXCEPT ![n.id] = Active(n)]
  BY DEF PutNode
<1>2. n \in Nodes /\ n.id \in Ids /\ nodes[n.id] = None
  BY NodeFacts DEF RefInv, FreshInv, Writing, PutNode, TypeOK, InsertLocals
<1>3. (CHOOSE m \in {n} : TRUE) = n
  OBVIOUS
<1>4. ASSUME NEW i \in Ids
      PROVE  nodes'[i] = IF \E m \in {n} : m.id = i
                         THEN [node |-> CHOOSE m \in {n} : m.id = i, status |-> "Active"]
                         ELSE nodes[i]
  <2>1. CASE i = n.id
    <3>1. (CHOOSE m \in {n} : m.id = i) = n
      BY <2>1
    <3>2. nodes'[i] = Active(n)
      BY <1>1, <2>1 DEF TypeOK
    <3> QED BY <2>1, <3>1, <3>2 DEF Active
  <2>2. CASE i # n.id
    BY <1>1, <2>2 DEF TypeOK
  <2> QED BY <2>1, <2>2
<1>5. KB!Learn({n})
  BY <1>1, <1>2, <1>4 DEF KB!Learn, TypeOK, PutNode
<1> QED BY <1>2, <1>5

LEMMA WriteBatchLearns ==
  ASSUME NEW t \in Threads, TypeOK, IndexInv, RefInv, WriteBatch(t)
  PROVE  \E S \in SUBSET Nodes : KB!Learn(S)
<1>1. /\ ins[t].load \in SUBSET Nodes
      /\ \A n \in ins[t].load : nodes[n.id] = None
      /\ \A n, m \in ins[t].load : n.id = m.id => n = m
  BY DEF RefInv, FreshInv, Writing, WriteBatch, IndexEntries, TypeOK, InsertLocals, IndexInv, InsertReady
<1>2. KB!Learn(ins[t].load)
  BY <1>1 DEF KB!Learn, WriteBatch, IndexEntries, Active
<1> QED BY <1>1, <1>2

LEMMA MarkWithdraws ==
  ASSUME NEW t \in Threads, TypeOK, IndexInv, RefInv, MarkRetracted(t)
  PROVE  (\E i \in Ids : KB!Withdraw(i)) \/ UNCHANGED <<nodes, asked>>
<1>1. PICK i \in Ids : i = cas[t].id
  BY DEF MarkRetracted, TypeOK, LocalsReady
<1>2. /\ nodes' = [nodes EXCEPT ![i] = Retracted(nodes[i].node)] /\ asked' = asked
      /\ nodes[i] # None /\ MayRetract(i) /\ nodes[i] \in Stored
  BY <1>1 DEF MarkRetracted, RefInv, CascadeInv, EntryOK, TypeOK
<1>3. CASE nodes[i].status = "Active"
  BY <1>2, <1>3 DEF KB!Withdraw, KB!Believed, KB!Justified, KB!Disbelieved, MayRetract,
                    IsRetracted, Retracted
<1>4. CASE nodes[i].status = "Retracted"
  <2>1. nodes[i] = Retracted(nodes[i].node)
    BY <1>2, <1>4 DEF Stored, Retracted
  <2> QED BY <1>2, <2>1 DEF TypeOK
<1> QED BY <1>2, <1>3, <1>4 DEF Stored, Status

LEMMA StepRefines ==
  ASSUME TypeOK, IndexInv, RefInv, [Next]_vars
  PROVE  [KB!KBNext]_(KB!kb_vars)
<1> USE DEF KB!kb_vars
<1>1. ASSUME NEW t \in Threads, ClientCall(t) \/ StoreStep(t)
      PROVE  [KB!KBNext]_(KB!kb_vars)
  <2>1. CASE CallRetract(t)
    <3>1. PICK i \in Ids : asked' = asked \cup {i}
      BY <2>1 DEF CallRetract, StartRetract
    <3>2. KB!Ask(i)
      BY <2>1, <3>1 DEF KB!Ask, CallRetract, StartRetract, store_vars
    <3> QED BY <3>2 DEF KB!KBNext
  <2>2. CASE PutNode(t) \/ WriteBatch(t)
    BY <2>2, PutNodeLearns, WriteBatchLearns DEF KB!KBNext
  <2>3. CASE MarkRetracted(t)
    BY <2>3, MarkWithdraws DEF KB!KBNext
  <2>4. CASE nodes' = nodes /\ ~CallRetract(t)
    BY <1>1, <2>4, AskedGrows
  <2> QED BY <1>1, <2>1, <2>2, <2>3, <2>4, StepKeeps
<1>2. CASE Crash \/ UNCHANGED vars \/ \E s \in Subs : Poll(s)
  BY <1>2 DEF Crash, vars, store_vars, Poll
<1> QED BY <1>1, <1>2 DEF Next, Finished

\* As long as no two calls are past the check for duplicates with nodes of one
\* id, clients see a knowledge base: whatever the interleaving, the failures and
\* the crashes, no node is lost, replaced or reactivated, and each retraction is
\* one that was asked for or follows from a retracted dependency of a Derived
\* node.
THEOREM RacelessImplementsKnowledgeBase ==
  Spec /\ []NoDuplicateRace => ImplementsKnowledgeBase
<1>1. Init => IndexInv
  BY DEF Init, IndexInv, StoredById, IndexesComplete, InsertReady, InsertSteps, CopyIndexed
<1>2. Init => RefInv
  BY DEF Init, RefInv, DepsSound, FreshInv, InsertSteps, Writing, Written, CascadeInv, EntryOK
<1>3. Init => KB!Start
  BY DEF Init, KB!Start
<1>4. TypeOK /\ IndexInv /\ RefInv /\ NoDuplicateRace /\ [Next]_vars => RefInv'
  BY NextRefRaceless
<1>5. TypeOK /\ IndexInv /\ RefInv /\ [Next]_vars => [KB!KBNext]_(KB!kb_vars)
  BY StepRefines
<1> QED BY <1>1, <1>2, <1>3, <1>4, <1>5, InitTypeOK, NextTypeOK, NextIndexed, PTL
        DEF Spec, ImplementsKnowledgeBase, KB!KBSpec

\* Clients that insert different ids never run into that race.
THEOREM StoreImplementsKnowledgeBase ==
  ASSUME DisjointOffers
  PROVE  Spec => ImplementsKnowledgeBase
<1>1. Init => IndexInv /\ RefInv
  BY DEF Init, IndexInv, StoredById, IndexesComplete, InsertReady, InsertSteps, CopyIndexed,
         RefInv, DepsSound, FreshInv, Writing, Written, CascadeInv, EntryOK
<1>2. IndexInv /\ RefInv => NoDuplicateRace
  BY DisjointNoRace
<1>3. TypeOK /\ IndexInv /\ RefInv /\ [Next]_vars => RefInv'
  BY NextRef
<1> QED BY <1>1, <1>2, <1>3, InitTypeOK, NextTypeOK, NextIndexed,
           RacelessImplementsKnowledgeBase, PTL DEF Spec
=============================================================================
