---------------------------- MODULE HandlerProofs ----------------------------
(***************************************************************************)
(* Proofs about the handler of module McpHandler. Its tools use the store  *)
(* and the queue only through their operations, so what holds of store and *)
(* queue under any clients holds of them behind the handler. Then what the *)
(* tools promise: of review events, truncated cascades, upserts and        *)
(* rejections, each under the conditions it needs.                         *)
(***************************************************************************)
EXTENDS ObserverProofs, HandlerProperties

EventCases ==
  [type: {"AmbiguousArbitration", "BandClippingExceeded", "CascadeTruncated"},
   priority: {"Normal", "High"}, nodes: SUBSET Ids]

RP == INSTANCE ReviewProofs WITH
        Callers <- Threads, NodeIds <- Ids, MaxEvents <- MaxRequests, Cases <- EventCases

Tools == {"none", "insert", "retract", "upsert", "assert", "reject"}
Requests ==
  [tool: Tools, stage: Stages, node: Nodes \cup {None},
   want: [entity: Keys \cup {None}, keys: SUBSET Keys], ids: SUBSET Ids, matching: SUBSET Ids,
   errors: SUBSET (Ids \cup {None})]

\* A request only inserts what its client passed.
RequestReady(t) ==
  /\ AtStage(t, {"upsert"}, "scan") \/ AtStage(t, {"upsert"}, "read") => req[t].node \in Upserts[t]
  /\ AtStage(t, {"assert"}, "push") => req[t].node \in Asserts[t]

\* A retraction knows its root, and so does its result.
RootReady(t) ==
  /\ pc[t] \in {"enter", "mark", "logRetract", "fan", "loop"} => cas[t].root \in Ids
  /\ ret[t].truncated => ret[t].root \in Ids

HandlerInv ==
  /\ TypeOK /\ \A t \in Threads : RootReady(t)
  /\ req \in [Threads -> Requests] /\ \A t \in Threads : RequestReady(t)
  /\ RP!ReviewInv

-----------------------------------------------------------------------------
(* The store behind the handler.                                           *)

LEMMA StoreKeepsRoots ==
  ASSUME TypeOK, NEW t \in Threads, RootReady(t), ClientCall(t) \/ StoreStep(t)
  PROVE  RootReady(t)'
<1> USE DEF Goto, local_vars
<1>0. /\ pc \in [Threads -> Steps] /\ cas \in [Threads -> CascadeLocals]
      /\ ret \in [Threads -> Replies]
  BY DEF TypeOK
<1>1. ASSUME NEW error, Fail(t, error) PROVE RootReady(t)'
  BY <1>0, <1>1 DEF Fail, Reply, NoReply, RootReady
<1>2. CASE RejectInvalid(t) \/ RejectDuplicate(t) \/ StorageFails(t) \/ EnterMissing(t)
  BY <1>1, <1>2 DEF RejectInvalid, RejectDuplicate, StorageFails, EnterMissing
<1>3. CASE InsertDone(t)
  BY <1>0, <1>3 DEF InsertDone, Reply, NoReply, RootReady
<1>4. CASE NotifyRetract(t)
  BY <1>0, <1>4 DEF NotifyRetract, Reply, RootReady
<1>5. CASE CallInsert(t) \/ CallBatch(t)
  BY <1>0, <1>5 DEF CallInsert, CallBatch, Call, RootReady
<1>6. CASE CallRetract(t)
  BY <1>0, <1>6 DEF CallRetract, StartRetract, NoCascade, RootReady
<1>7. CASE Admit(t) \/ LogInsert(t) \/ PutNode(t) \/ PutIndex(t) \/ WriteBatch(t) \/ NextNode(t)
  BY <1>0, <1>7 DEF Admit, LogInsert, PutNode, PutIndex, WriteBatch, IndexEntries, NextNode, RootReady
<1>8. CASE RegisterDep(t) \/ RegisterValidity(t) \/ NotifyInsert(t)
  BY <1>0, <1>8 DEF RegisterDep, RegisterValidity, NotifyInsert, RootReady
<1>9. CASE EnterAtLimit(t) \/ EnterRetracted(t) \/ EnterActive(t) \/ MarkRetracted(t)
           \/ LogRetract(t) \/ FanOut(t) \/ SkipDependent(t) \/ Truncate(t) \/ Recurse(t)
           \/ ReturnFromFrame(t)
  <2>1. cas'[t].root = cas[t].root /\ ret' = ret
    <3>1. CASE EnterAtLimit(t) \/ Truncate(t)
      BY <1>0, <3>1 DEF EnterAtLimit, Truncate, CascadeLocals
    <3>2. CASE EnterRetracted(t) \/ EnterActive(t)
      BY <1>0, <3>2 DEF EnterRetracted, EnterActive, CascadeLocals
    <3>3. CASE LogRetract(t)
      BY <1>0, <3>3 DEF LogRetract, CascadeLocals
    <3>5. CASE Recurse(t)
      BY <1>0, <3>5 DEF Recurse, CascadeLocals
    <3>4. CASE MarkRetracted(t) \/ FanOut(t) \/ SkipDependent(t) \/ ReturnFromFrame(t)
      BY <3>4 DEF MarkRetracted, FanOut, SkipDependent, ReturnFromFrame
    <3> QED BY <1>9, <3>1, <3>2, <3>3, <3>4, <3>5
  <2>2. pc[t] \in {"enter", "mark", "logRetract", "fan", "loop"}
    BY <1>9 DEF EnterAtLimit, EnterRetracted, EnterActive, MarkRetracted, LogRetract, FanOut,
       SkipDependent, Truncate, Recurse, ReturnFromFrame, Looping
  <2> QED BY <2>1, <2>2 DEF RootReady
<1> QED BY <1>2, <1>3, <1>4, <1>5, <1>6, <1>7, <1>8, <1>9
        DEF ClientCall, StoreStep, InsertStep, RetractStep

LEMMA RootsKept ==
  ASSUME TypeOK, \A t \in Threads : RootReady(t), NEW t \in Threads,
         ClientCall(t) \/ StoreStep(t) \/ UNCHANGED vars
  PROVE  \A u \in Threads : RootReady(u)'
<1> SUFFICES ASSUME NEW u \in Threads PROVE RootReady(u)'
  OBVIOUS
<1>1. CASE UNCHANGED vars
  BY <1>1 DEF vars, local_vars, RootReady
<1>2. CASE (ClientCall(t) \/ StoreStep(t)) /\ u = t
  BY <1>2, StoreKeepsRoots
<1>3. CASE (ClientCall(t) \/ StoreStep(t)) /\ u # t
  BY <1>3, OtherThreads DEF RootReady
<1> QED BY <1>1, <1>2, <1>3

\* Whatever a tool does to the store is a call of the store or a step of one.
LEMMA ToolsUseStore ==
  ASSUME NEW t \in Threads, req \in [Threads -> Requests], RequestReady(t),
         Request(t) \/ RequestStep(t)
  PROVE  ClientCall(t) \/ StoreStep(t) \/ UNCHANGED vars
<1>1. /\ Inserts[t] \subseteq Offers[t] /\ Upserts[t] \subseteq Offers[t]
      /\ Asserts[t] \subseteq Offers[t] /\ MaxNodes \subseteq Limits /\ DefaultLimit \in Limits
  BY HandlerAssumption DEF HandlerAssumption
<1>2. req[t].ids \subseteq Ids /\ req[t].matching \subseteq Ids
  BY DEF Requests
<1>3. CASE ToolInsert(t) \/ ToolInsertBatch(t) \/ ToolRetract(t)
  BY <1>1, <1>3 DEF ToolInsert, ToolInsertBatch, ToolRetract, ClientCall, CallInsert, CallBatch,
     CallRetract
<1>4. CASE ToolAssert(t)
  BY <1>1, <1>4 DEF ToolAssert, ClientCall, CallInsert
<1>5. CASE UpsertInsert(t) \/ PushThenInsert(t)
  BY <1>1, <1>5 DEF UpsertInsert, PushThenInsert, AtStage, RequestReady, ClientCall, CallInsert
<1>6. CASE UpsertReplace(t) \/ RejectNext(t)
  BY <1>1, <1>2, <1>6 DEF UpsertReplace, RejectNext, Superseded, ClientCall, CallRetract
<1>7. CASE StoreStep(t)
  BY <1>7
<1>8. CASE ToolUpsert(t) \/ ToolApprove(t) \/ ToolReject(t) \/ InsertAnswered(t)
           \/ RetractAnswered(t) \/ RetractTruncated(t) \/ UpsertScan(t) \/ UpsertRead(t)
           \/ UpsertAmbiguous(t) \/ UpsertInserted(t) \/ UpsertReplaced(t)
           \/ AssertAnswered(t) \/ AssertExists(t) \/ AssertCompare(t) \/ PushThenAnswer(t)
           \/ RejectReturned(t) \/ RejectAnswered(t)
  BY <1>8 DEF ToolUpsert, ToolApprove, ToolReject, InsertAnswered, RetractAnswered,
     RetractTruncated, UpsertScan, UpsertRead, UpsertAmbiguous, UpsertInserted, UpsertReplaced,
     AssertAnswered, AssertExists, AssertCompare, PushThenAnswer, RejectReturned, RejectAnswered,
     Enqueue
<1> QED BY <1>3, <1>4, <1>5, <1>6, <1>7, <1>8 DEF Request, RequestStep

-----------------------------------------------------------------------------
(* The queue behind the handler.                                           *)

LEMMA QueueCases == RP!CasesAssumption
BY HandlerAssumption
   DEF HandlerAssumption, EventCases, RP!CasesAssumption, RP!CaseType, RP!EventTypes, RP!Priorities

LEMMA SameTakeId ==
  ASSUME NEW t, NEW case, RQ!TakeId(t, case)
  PROVE  RP!TakeId(t, case)
BY DEF RQ!TakeId, RP!TakeId, RQ!NewEvent, RP!NewEvent, RQ!FreshId, RP!FreshId

LEMMA SamePushEvent ==
  ASSUME NEW t, RQ!PushEvent(t)
  PROVE  RP!PushEvent(t)
BY DEF RQ!PushEvent, RP!PushEvent, RQ!Slots, RP!Slots, RQ!Ahead, RP!Ahead, RQ!Inserted, RP!Inserted,
       RQ!InsertAt, RP!InsertAt

LEMMA SameDecide ==
  ASSUME NEW id, NEW status, RQ!Decide(id, status)
  PROVE  RP!Decide(id, status)
BY DEF RQ!Decide, RP!Decide, RQ!Decidable, RP!Decidable, RQ!Known, RP!Known, RQ!Find, RP!Find,
       RQ!SetStatus, RP!SetStatus

LEMMA QueueUsed ==
  ASSUME RP!ReviewInv, NEW t \in Threads,
         \/ UNCHANGED queue_vars
         \/ \E case \in EventCases : RQ!TakeId(t, case)
         \/ RQ!PushEvent(t)
         \/ \E id \in 1..MaxRequests : RQ!Approve(id) \/ RQ!Reject(id)
  PROVE  RP!ReviewInv'
<1>1. CASE UNCHANGED queue_vars
  BY <1>1 DEF queue_vars, RP!ReviewInv, RP!QueueTypes, RP!IdsGiven, RP!NoneLost, RP!IdsUnique,
              RP!DecidedSettled, RP!DecidedOnce, RP!Holds
<1>2. ASSUME NEW case \in EventCases, RQ!TakeId(t, case) PROVE RP!ReviewInv'
  BY <1>2, QueueCases, SameTakeId, RP!TakeIdKeeps
<1>3. CASE RQ!PushEvent(t)
  BY <1>3, QueueCases, SamePushEvent, RP!PushEventKeeps
<1>4. ASSUME NEW id \in 1..MaxRequests, RQ!Approve(id) \/ RQ!Reject(id) PROVE RP!ReviewInv'
  <2>1. id \in Nat
    BY HandlerAssumption DEF HandlerAssumption
  <2>2. PICK status \in {"Approved", "Rejected"} : RQ!Decide(id, status)
    BY <1>4 DEF RQ!Approve, RQ!Reject
  <2>3. RP!Decide(id, status)
    BY <2>2, SameDecide
  <2> QED BY <2>1, <2>3, QueueCases, RP!DecideKeeps
<1> QED BY <1>1, <1>2, <1>3, <1>4

LEMMA ToolsUseQueue ==
  ASSUME HandlerInv, NEW t \in Threads, Request(t) \/ RequestStep(t)
  PROVE  \/ UNCHANGED queue_vars
         \/ \E case \in EventCases : RQ!TakeId(t, case)
         \/ RQ!PushEvent(t)
         \/ \E id \in 1..MaxRequests : RQ!Approve(id) \/ RQ!Reject(id)
<1>1. CASE RetractTruncated(t)
  <2>1. ret[t].root \in Ids
    BY <1>1 DEF RetractTruncated, NeedsReview, HandlerInv, RootReady
  <2>2. ReviewCase("CascadeTruncated", "High", {ret[t].root}) \in EventCases
    BY <2>1 DEF ReviewCase, EventCases
  <2> QED BY <1>1, <2>2 DEF RetractTruncated, Enqueue
<1>2. CASE UpsertAmbiguous(t)
  <2>1. req[t].matching \subseteq Ids
    BY DEF HandlerInv, Requests
  <2>2. ReviewCase("AmbiguousArbitration", "Normal", req[t].matching) \in EventCases
    BY <2>1 DEF ReviewCase, EventCases
  <2> QED BY <1>2, <2>2 DEF UpsertAmbiguous, Enqueue
<1>3. CASE ToolAssert(t)
  <2>1. \A n \in Asserts[t] : n.id \in Ids
    BY HandlerAssumption, OfferedNodes, NodesAssumption DEF HandlerAssumption, NodesAssumption, NodeType
  <2>2. \A n \in Asserts[t] : ReviewCase("BandClippingExceeded", "Normal", {n.id}) \in EventCases
    BY <2>1 DEF ReviewCase, EventCases
  <2>3. \/ UNCHANGED queue_vars
        \/ \E n \in Asserts[t] : RQ!TakeId(t, ReviewCase("BandClippingExceeded", "Normal", {n.id}))
    BY <1>3, Zenon DEF ToolAssert, Call
  <2> QED BY <2>2, <2>3
<1>4. CASE PushThenAnswer(t) \/ PushThenInsert(t) \/ ToolApprove(t) \/ ToolReject(t)
  BY <1>4 DEF PushThenAnswer, PushThenInsert, ToolApprove, ToolReject
<1>5. CASE \/ ToolInsert(t) \/ ToolInsertBatch(t) \/ ToolRetract(t) \/ ToolUpsert(t)
           \/ InsertAnswered(t) \/ RetractAnswered(t) \/ UpsertScan(t) \/ UpsertRead(t)
           \/ UpsertInsert(t) \/ UpsertInserted(t) \/ UpsertReplace(t) \/ UpsertReplaced(t)
           \/ AssertAnswered(t) \/ AssertExists(t) \/ AssertCompare(t) \/ RejectNext(t)
           \/ RejectReturned(t) \/ RejectAnswered(t)
  BY <1>5 DEF ToolInsert, ToolInsertBatch, ToolRetract, ToolUpsert, InsertAnswered,
     RetractAnswered, UpsertScan, UpsertRead, UpsertInsert, UpsertInserted, UpsertReplace,
     UpsertReplaced, AssertAnswered, AssertExists, AssertCompare, RejectNext, RejectReturned,
     RejectAnswered
<1>6. CASE UNCHANGED queue_vars
  BY <1>6
<1> QED BY <1>1, <1>2, <1>3, <1>4, <1>5, <1>6 DEF Request, RequestStep

-----------------------------------------------------------------------------
(* The requests.                                                           *)

RequestsTyped == req \in [Threads -> Requests] /\ \A t \in Threads : RequestReady(t)

LEMMA RequestSet ==
  ASSUME RequestsTyped, NEW t \in Threads, NEW r \in Requests, req' = [req EXCEPT ![t] = r],
         r.tool = "upsert" /\ r.stage \in {"scan", "read"} => r.node \in Upserts[t],
         r.tool = "assert" /\ r.stage = "push" => r.node \in Asserts[t]
  PROVE  RequestsTyped'
<1>1. req' \in [Threads -> Requests]
  BY DEF RequestsTyped
<1>2. ASSUME NEW u \in Threads PROVE RequestReady(u)'
  BY DEF RequestsTyped, RequestReady, AtStage
<1> QED BY <1>1, <1>2 DEF RequestsTyped

LEMMA Answered ==
  ASSUME RequestsTyped, NEW t \in Threads, NEW action, NEW ids, Answer(t, action, ids)
  PROVE  RequestsTyped'
<1>1. NoRequest \in Requests
  BY DEF NoRequest, NoWant, Requests, Tools, Stages
<1> QED BY <1>1, RequestSet DEF Answer, NoRequest

LEMMA Proceeded ==
  ASSUME RequestsTyped, NEW t \in Threads, NEW stage \in {"store", "push", "compare", "replace"},
         Proceed(t, stage), stage = "push" => req[t].tool # "assert"
  PROVE  RequestsTyped'
<1> DEFINE r == [req[t] EXCEPT !.stage = stage]
<1>1. req[t] \in Requests
  BY DEF RequestsTyped
<1>2. r \in Requests /\ r.tool = req[t].tool /\ r.stage = stage
  BY <1>1 DEF Requests, Stages
<1>3. req' = [req EXCEPT ![t] = r]
  BY DEF Proceed
<1> HIDE DEF r
<1> QED BY <1>2, <1>3, RequestSet

LEMMA Begun ==
  ASSUME RequestsTyped, NEW t \in Threads, NEW r \in Requests, Begin(t, r),
         r.tool = "upsert" => r.node \in Upserts[t], r.tool = "assert" => r.node \in Asserts[t]
  PROVE  RequestsTyped'
BY RequestSet DEF Begin

LEMMA RequestsKept ==
  ASSUME HandlerInv, NEW t \in Threads, Request(t) \/ RequestStep(t)
  PROVE  RequestsTyped'
<1>0. /\ RequestsTyped /\ req[t] \in Requests /\ RequestReady(t)
      /\ NoWant \in [entity: Keys \cup {None}, keys: SUBSET Keys]
  BY DEF HandlerInv, RequestsTyped, NoWant
<1>a. /\ Inserts[t] \subseteq Nodes /\ Upserts[t] \subseteq Nodes /\ Asserts[t] \subseteq Nodes
      /\ \A w \in Wants : w \in [entity: Keys \cup {None}, keys: SUBSET Keys]
  BY HandlerAssumption, OfferedNodes DEF HandlerAssumption
<1> USE <1>0
<1>r. NoRequest \in Requests
  BY DEF NoRequest, Requests, Tools, Stages
<1>1. CASE ToolInsert(t)
  <2>1. PICK n \in Inserts[t] :
          Begin(t, [NoRequest EXCEPT !.tool = "insert", !.stage = "store", !.node = n])
    BY <1>1, Zenon DEF ToolInsert
  <2> DEFINE r == [NoRequest EXCEPT !.tool = "insert", !.stage = "store", !.node = n]
  <2>2. r \in Requests /\ r.tool = "insert"
    BY <1>a, <1>r DEF Requests, Tools, Stages
  <2> HIDE DEF r
  <2> QED BY <2>1, <2>2, Begun DEF r
<1>2. CASE ToolInsertBatch(t) \/ ToolRetract(t)
  <2>1. PICK tool \in {"insert", "retract"} :
          Begin(t, [NoRequest EXCEPT !.tool = tool, !.stage = "store"])
    BY <1>2, Zenon DEF ToolInsertBatch, ToolRetract
  <2> DEFINE r == [NoRequest EXCEPT !.tool = tool, !.stage = "store"]
  <2>2. r \in Requests /\ r.tool = tool
    BY <1>r DEF Requests, Tools, Stages
  <2> HIDE DEF r
  <2> QED BY <2>1, <2>2, Begun DEF r
<1>3. CASE ToolUpsert(t)
  <2>1. PICK n \in Upserts[t], want \in Wants :
          Begin(t, [NoRequest EXCEPT !.tool = "upsert", !.stage = "scan", !.node = n, !.want = want])
    BY <1>3, Zenon DEF ToolUpsert
  <2> DEFINE r == [NoRequest EXCEPT !.tool = "upsert", !.stage = "scan", !.node = n, !.want = want]
  <2>2. r \in Requests /\ r.tool = "upsert" /\ r.node = n
    BY <1>a, <1>r DEF Requests, Tools, Stages
  <2> HIDE DEF r
  <2> QED BY <2>1, <2>2, Begun DEF r
<1>4. CASE ToolAssert(t)
  <2>1. PICK n \in Asserts[t], stage \in {"push", "store"} :
          Begin(t, [[NoRequest EXCEPT !.tool = "assert", !.node = n] EXCEPT !.stage = stage])
    BY <1>4, Zenon DEF ToolAssert
  <2> DEFINE r == [[NoRequest EXCEPT !.tool = "assert", !.node = n] EXCEPT !.stage = stage]
  <2>2. r \in Requests /\ r.tool = "assert" /\ r.node = n
    BY <1>a, <1>r DEF Requests, Tools, Stages
  <2> HIDE DEF r
  <2> QED BY <2>1, <2>2, Begun DEF r
<1>5. CASE ToolApprove(t)
  <2>1. Begin(t, NoRequest)
    BY <1>5 DEF ToolApprove
  <2> QED BY <1>r, <2>1, Begun DEF NoRequest
<1>12. CASE ToolReject(t)
  <2>1. PICK id \in 1..MaxRequests :
          /\ RQ!Reject(id)
          /\ Begin(t, [NoRequest EXCEPT !.tool = "reject", !.stage = "reject",
                                       !.ids = deque[RQ!Find(id)].nodes,
                                       !.matching = deque[RQ!Find(id)].nodes])
    BY <1>12, Zenon DEF ToolReject, Condemned
  <2> DEFINE r == [NoRequest EXCEPT !.tool = "reject", !.stage = "reject",
                                    !.ids = deque[RQ!Find(id)].nodes,
                                    !.matching = deque[RQ!Find(id)].nodes]
  <2>2. RP!Known(id) /\ RP!Find(id) = RQ!Find(id)
    BY <2>1, SameDecide DEF RQ!Reject, RP!Decide, RP!Decidable, RP!Find, RQ!Find
  <2>3. RQ!Find(id) \in 1..Len(deque)
    BY <2>2, QueueCases, RP!Found
  <2>4. deque[RQ!Find(id)].nodes \in SUBSET Ids
    <3>1. deque \in Seq(RP!Events)
      BY DEF HandlerInv, RP!ReviewInv, RP!QueueTypes
    <3>2. deque[RQ!Find(id)] \in RP!Events
      BY <2>3, <3>1
    <3> QED BY <3>2 DEF RP!Events
  <2>5. r \in Requests /\ r.tool = "reject"
    BY <1>r, <2>4 DEF Requests, Tools, Stages
  <2> HIDE DEF r
  <2> QED BY <2>1, <2>5, Begun DEF r
<1>6. CASE \/ InsertAnswered(t) \/ RetractAnswered(t) \/ UpsertInserted(t) \/ UpsertReplaced(t)
           \/ AssertAnswered(t) \/ AssertCompare(t) \/ PushThenAnswer(t) \/ RejectAnswered(t)
  <2>1. \E action, ids : Answer(t, action, ids)
    BY <1>6 DEF InsertAnswered, RetractAnswered, UpsertInserted, UpsertReplaced, AssertAnswered,
       AssertCompare, PushThenAnswer, RejectAnswered
  <2> QED BY <2>1, Answered
<1>7. CASE \/ RetractTruncated(t) \/ UpsertAmbiguous(t) \/ UpsertInsert(t) \/ UpsertReplace(t)
           \/ AssertExists(t) \/ PushThenInsert(t)
  <2>1. PICK stage \in {"store", "push", "compare", "replace"} :
          Proceed(t, stage) /\ (stage = "push" => req[t].tool # "assert")
    BY <1>7 DEF RetractTruncated, UpsertAmbiguous, UpsertInsert, UpsertReplace, AssertExists,
       PushThenInsert, Enqueue, Returned, AtStage
  <2> QED BY <2>1, Proceeded
<1>8. CASE UpsertScan(t)
  <2>1. PICK ids \in SUBSET Ids : req' = [req EXCEPT ![t].stage = "read", ![t].ids = ids]
    BY <1>8 DEF UpsertScan
  <2>2. req[t].tool = "upsert" /\ req[t].node \in Upserts[t]
    BY <1>8 DEF UpsertScan, AtStage, RequestReady
  <2> DEFINE r == [req[t] EXCEPT !.stage = "read", !.ids = ids]
  <2>3. r \in Requests /\ r.tool = "upsert" /\ r.node = req[t].node
    BY <2>2 DEF Requests, Stages
  <2>4. req' = [req EXCEPT ![t] = r]
    BY <2>1 DEF RequestsTyped
  <2> HIDE DEF r
  <2> QED BY <2>2, <2>3, <2>4, RequestSet
<1>9. CASE UpsertRead(t)
  <2>1. PICK ids \in SUBSET Ids, matching \in SUBSET Ids :
          req' = [req EXCEPT ![t].ids = ids, ![t].matching = matching]
    <3>1. PICK i \in req[t].ids :
            \/ req' = [req EXCEPT ![t].ids = Rest(@, i), ![t].matching = @ \cup {i}]
            \/ req' = [req EXCEPT ![t].ids = Rest(@, i)]
      BY <1>9, Zenon DEF UpsertRead
    <3>2. i \in Ids /\ req[t].ids \in SUBSET Ids /\ req[t].matching \in SUBSET Ids
      BY <3>1 DEF Requests
    <3>3. req[t].ids \ {i} \in SUBSET Ids /\ req[t].matching \cup {i} \in SUBSET Ids
      BY <3>2
    <3>4. [req EXCEPT ![t].ids = req[t].ids \ {i}]
          = [req EXCEPT ![t].ids = req[t].ids \ {i}, ![t].matching = req[t].matching]
      BY DEF RequestsTyped, Requests
    <3> QED BY <3>1, <3>2, <3>3, <3>4 DEF Rest
  <2>2. req[t].tool = "upsert" /\ req[t].node \in Upserts[t]
    BY <1>9 DEF UpsertRead, AtStage, RequestReady
  <2> DEFINE r == [req[t] EXCEPT !.ids = ids, !.matching = matching]
  <2>3. r \in Requests /\ r.tool = "upsert" /\ r.node = req[t].node
    BY <2>2 DEF Requests, Stages
  <2>4. req' = [req EXCEPT ![t] = r]
    BY <2>1 DEF RequestsTyped
  <2> HIDE DEF r
  <2> QED BY <2>2, <2>3, <2>4, RequestSet
<1>10. CASE RejectNext(t)
  <2>1. PICK i \in req[t].ids : req' = [req EXCEPT ![t].ids = @ \ {i}, ![t].stage = "condemn"]
    BY <1>10 DEF RejectNext, Rest
  <2>2. req[t].tool = "reject"
    BY <1>10 DEF RejectNext, AtStage
  <2> DEFINE r == [req[t] EXCEPT !.ids = @ \ {i}, !.stage = "condemn"]
  <2>3. r \in Requests /\ r.tool = "reject"
    BY <2>2 DEF Requests, Stages
  <2>4. req' = [req EXCEPT ![t] = r]
    BY <2>1 DEF RequestsTyped
  <2> HIDE DEF r
  <2> QED BY <2>3, <2>4, RequestSet
<1>13. CASE RejectReturned(t)
  <2> DEFINE r == [req[t] EXCEPT !.errors = @ \cup Errors(t), !.stage = "reject"]
  <2>1. Errors(t) \subseteq Ids \cup {None}
    BY DEF Errors, HandlerInv, TypeOK, Replies
  <2>2. req[t].tool = "reject"
    BY <1>13 DEF RejectReturned, Returned, AtStage
  <2>3. r \in Requests /\ r.tool = "reject"
    BY <2>1, <2>2 DEF Requests, Stages
  <2>4. req' = [req EXCEPT ![t] = r]
    BY <1>13 DEF RejectReturned, RequestsTyped
  <2> HIDE DEF r
  <2> QED BY <2>3, <2>4, RequestSet
<1>11. CASE UNCHANGED handler_vars
  BY <1>11 DEF handler_vars, RequestsTyped, RequestReady, AtStage
<1> QED BY <1>1, <1>2, <1>3, <1>4, <1>5, <1>6, <1>7, <1>8, <1>9, <1>10, <1>11, <1>12,
          <1>13 DEF Request, RequestStep

-----------------------------------------------------------------------------

LEMMA InitHandler == HandlerInit => HandlerInv
<1> SUFFICES ASSUME HandlerInit PROVE HandlerInv
  OBVIOUS
<1>1. TypeOK /\ \A t \in Threads : RootReady(t)
  BY InitTypeOK DEF HandlerInit, Init, RootReady, NoReply
<1>2. NoRequest \in Requests
  BY DEF NoRequest, NoWant, Requests, Tools, Stages
<1>3. req \in [Threads -> Requests] /\ \A t \in Threads : RequestReady(t)
  BY <1>2 DEF HandlerInit, RequestReady, AtStage, NoRequest
<1>4. RP!Init
  BY DEF HandlerInit, RQ!Init, RP!Init
<1>5. RP!ReviewInv
  BY <1>4, QueueCases, RP!InitReviewInv
<1> QED BY <1>1, <1>3, <1>5 DEF HandlerInv

LEMMA HandlerStep ==
  ASSUME HandlerInv, [HandlerNext]_all_vars
  PROVE  HandlerInv' /\ [Next]_vars
<1>1. ASSUME NEW t \in Threads, Request(t) \/ RequestStep(t) PROVE HandlerInv' /\ [Next]_vars
  <2>1. ClientCall(t) \/ StoreStep(t) \/ UNCHANGED vars
    BY <1>1, ToolsUseStore DEF HandlerInv
  <2>2. [Next]_vars
    BY <2>1 DEF Next
  <2>3. TypeOK'
    BY <2>2, NextTypeOK DEF HandlerInv
  <2>4. \A u \in Threads : RootReady(u)'
    BY <2>1, RootsKept DEF HandlerInv
  <2>5. RequestsTyped'
    BY <1>1, RequestsKept
  <2>6. RP!ReviewInv'
    BY <1>1, ToolsUseQueue, QueueUsed DEF HandlerInv
  <2> QED BY <2>2, <2>3, <2>4, <2>5, <2>6 DEF HandlerInv, RequestsTyped
<1>2. CASE UNCHANGED all_vars
  <2>1. UNCHANGED vars /\ UNCHANGED queue_vars /\ UNCHANGED handler_vars
    BY <1>2 DEF all_vars
  <2>2. TypeOK'
    BY <2>1, NextTypeOK DEF HandlerInv
  <2>3. \A u \in Threads : RootReady(u)'
    BY <2>1 DEF vars, local_vars, HandlerInv, RootReady
  <2>4. RequestsTyped'
    BY <2>1 DEF handler_vars, HandlerInv, RequestsTyped, RequestReady, AtStage
  <2>5. RP!ReviewInv'
    BY <2>1 DEF queue_vars, HandlerInv, RP!ReviewInv, RP!QueueTypes, RP!IdsGiven, RP!NoneLost,
                RP!IdsUnique, RP!DecidedSettled, RP!DecidedOnce, RP!Holds
  <2> QED BY <2>1, <2>2, <2>3, <2>4, <2>5 DEF HandlerInv, RequestsTyped
<1> QED BY <1>1, <1>2 DEF HandlerNext, HandlerFinished

\* The tools change the store through insert, insert_batch and retract alone:
\* behind the handler the store behaves as it does under any clients.
THEOREM HandlerUsesStore == HandlerSpec => Spec
<1>1. HandlerInit => Init
  BY DEF HandlerInit
<1> QED BY <1>1, InitHandler, HandlerStep, PTL DEF HandlerSpec, Spec

\* So its indexes are complete, in any interleaving of tools, and its cascades bounded.
THEOREM HandlerKeepsIndexes == HandlerSpec => [](IndexesComplete /\ CascadeBounded)
BY HandlerUsesStore, IndexesAlwaysComplete, CascadesBounded, PTL

\* Whenever no two inserts of one id are under way at once, clients see a
\* knowledge base through the tools, whatever ids they pass and however often:
\* nothing is lost, replaced, reactivated or retracted unasked.
THEOREM HandlerImplementsKnowledgeBase ==
  HandlerSpec /\ []NoDuplicateRace => ImplementsKnowledgeBase
BY HandlerUsesStore, RacelessImplementsKnowledgeBase, PTL

\* No tool loses an event of the queue or lets two reviewers decide it.
THEOREM HandlerKeepsEvents == HandlerSpec => [](RQ!AuditComplete /\ RQ!DecidedOnce)
<1>1. HandlerInv => RP!AuditComplete /\ RP!DecidedOnce
  BY QueueCases, RP!InvAudits DEF HandlerInv, RP!ReviewInv
<1>2. RP!AuditComplete /\ RP!DecidedOnce => RQ!AuditComplete /\ RQ!DecidedOnce
  BY DEF RP!AuditComplete, RQ!AuditComplete, RP!DecidedOnce, RQ!DecidedOnce, RP!Places, RQ!Places
<1> QED BY <1>1, <1>2, InitHandler, HandlerStep, PTL DEF HandlerSpec

-----------------------------------------------------------------------------
(* What happens to the events of the queue.                                *)

LEMMA EventTaken ==
  ASSUME HandlerInv, NEW t \in Threads, NEW case, RQ!TakeId(t, case)
  PROVE  /\ deque' = deque
         /\ \A u \in Threads \ {t} : held'[u] = held[u]
         /\ held'[t].type = case.type /\ held'[t].nodes = case.nodes
         /\ held'[t].priority = case.priority
         /\ held'[t].status = "Pending"
BY DEF RQ!TakeId, RQ!NewEvent, HandlerInv, RP!ReviewInv, RP!QueueTypes

LEMMA EventPushed ==
  ASSUME HandlerInv, NEW t \in Threads, RQ!PushEvent(t)
  PROVE  /\ held[t] # None /\ held[t].status = "Pending"
         /\ held'[t] = None /\ \A u \in Threads \ {t} : held'[u] = held[u]
         /\ \E k \in 1..Len(deque') : deque'[k] = held[t]
         /\ \A j \in 1..Len(deque) : \E k \in 1..Len(deque') : deque'[k] = deque[j]
         /\ \A k \in 1..Len(deque') :
              deque'[k] = held[t] \/ \E j \in 1..Len(deque) : deque'[k] = deque[j]
<1> DEFINE e == held[t]
<1>0. /\ deque \in Seq(RP!Events) /\ held \in [Threads -> RP!Fresh \cup {None}]
      /\ Len(deque) \in Nat
  BY DEF HandlerInv, RP!ReviewInv, RP!QueueTypes
<1>1. /\ e # None /\ held' = [held EXCEPT ![t] = None]
      /\ \E k \in 1..(Len(deque) + 1) : deque' = RP!InsertAt(deque, k, e)
  BY SamePushEvent DEF RP!PushEvent, RP!Slots, RP!Inserted
<1>2. e \in RP!Events /\ e.status = "Pending"
  BY <1>0, <1>1 DEF RP!Fresh, RP!Events, RP!Statuses
<1>3. PICK s \in 1..(Len(deque) + 1) : deque' = RP!InsertAt(deque, s, e)
  BY <1>1
<1> HIDE DEF e
<1>4. /\ Len(deque') = Len(deque) + 1
      /\ \A j \in 1..(Len(deque) + 1) :
           deque'[j] = IF j < s THEN deque[j] ELSE IF j = s THEN e ELSE deque[j - 1]
  <2>1. /\ RP!InsertAt(deque, s, e) \in Seq(RP!Events)
        /\ Len(RP!InsertAt(deque, s, e)) = Len(deque) + 1
        /\ \A j \in 1..(Len(deque) + 1) :
             RP!InsertAt(deque, s, e)[j] =
               IF j < s THEN deque[j] ELSE IF j = s THEN e ELSE deque[j - 1]
    BY <1>0, <1>2, QueueCases, RP!Insertion
  <2> QED BY <1>3, <2>1
<1>5. ASSUME NEW j \in 1..Len(deque) PROVE \E k \in 1..Len(deque') : deque'[k] = deque[j]
  <2>1. CASE j < s
    BY <1>0, <1>4, <2>1
  <2>2. CASE j >= s
    <3>1. j + 1 \in 1..Len(deque') /\ deque'[j + 1] = deque[j]
      BY <1>0, <1>4, <2>2
    <3> QED BY <3>1
  <2> QED BY <1>0, <2>1, <2>2
<1>6. ASSUME NEW k \in 1..Len(deque')
      PROVE  deque'[k] = e \/ \E j \in 1..Len(deque) : deque'[k] = deque[j]
  <2>1. CASE k < s
    BY <1>0, <1>4, <2>1
  <2>2. CASE k > s
    <3>1. k - 1 \in 1..Len(deque) /\ deque'[k] = deque[k - 1]
      BY <1>0, <1>4, <2>2
    <3> QED BY <3>1
  <2> QED BY <1>0, <1>4, <2>1, <2>2
<1>7. s \in 1..Len(deque') /\ deque'[s] = e
  BY <1>0, <1>4
<1>8. held'[t] = None /\ \A u \in Threads \ {t} : held'[u] = held[u]
  BY <1>0, <1>1
<1> QED BY <1>1, <1>2, <1>5, <1>6, <1>7, <1>8 DEF e

LEMMA EventDecided ==
  ASSUME HandlerInv, NEW id, NEW status, RQ!Decide(id, status)
  PROVE  /\ held' = held /\ Len(deque') = Len(deque) /\ RQ!Find(id) \in 1..Len(deque)
         /\ \A k \in 1..Len(deque) :
              /\ deque'[k].type = deque[k].type /\ deque'[k].nodes = deque[k].nodes
              /\ deque'[k].priority = deque[k].priority
              /\ deque'[k].status = IF k = RQ!Find(id) THEN status ELSE deque[k].status
<1>1. /\ RP!Known(id) /\ RP!SetStatus(id, status) /\ held' = held
  BY SameDecide DEF RP!Decide, RP!Decidable
<1>2. RP!Find(id) \in 1..Len(deque) /\ RQ!Find(id) = RP!Find(id)
  BY <1>1, QueueCases, RP!Found DEF RP!Find, RQ!Find
<1> DEFINE f == RP!Find(id)
           e == [deque[f] EXCEPT !.status = status]
<1>3. deque \in Seq(RP!Events) /\ deque' = [deque EXCEPT ![f] = e]
  BY <1>1 DEF RP!SetStatus, HandlerInv, RP!ReviewInv, RP!QueueTypes
<1>4. /\ e.type = deque[f].type /\ e.nodes = deque[f].nodes /\ e.status = status
      /\ e.priority = deque[f].priority
  <2>1. deque[f] \in RP!Events
    BY <1>2, <1>3
  <2> QED BY <2>1 DEF RP!Events
<1> HIDE DEF e, f
<1>5. Len(deque') = Len(deque) /\ \A k \in 1..Len(deque) : deque'[k] = IF k = f THEN e ELSE deque[k]
  BY <1>3
<1> QED BY <1>1, <1>2, <1>4, <1>5 DEF f

\* The steps that change the queue, and the events they make.
LEMMA EventSteps ==
  ASSUME NEW t \in Threads, Request(t) \/ RequestStep(t)
  PROVE  \/ UNCHANGED queue_vars
         \/ RetractTruncated(t) /\ RQ!TakeId(t, ReviewCase("CascadeTruncated", "High", {ret[t].root}))
         \/ /\ UpsertAmbiguous(t)
            /\ RQ!TakeId(t, ReviewCase("AmbiguousArbitration", "Normal", req[t].matching))
         \/ /\ ToolAssert(t)
            /\ \E n \in Asserts[t] \cap OutOfBand :
                 RQ!TakeId(t, ReviewCase("BandClippingExceeded", "Normal", {n.id}))
         \/ (PushThenAnswer(t) \/ PushThenInsert(t)) /\ RQ!PushEvent(t)
         \/ ToolApprove(t) /\ \E id \in 1..MaxRequests : RQ!Decide(id, "Approved")
         \/ ToolReject(t) /\ \E id \in 1..MaxRequests : RQ!Decide(id, "Rejected")
<1>1. CASE RetractTruncated(t) \/ UpsertAmbiguous(t)
  BY <1>1 DEF RetractTruncated, UpsertAmbiguous, Enqueue
<1>2. CASE ToolAssert(t)
  <2>1. \/ UNCHANGED queue_vars
        \/ \E n \in Asserts[t] \cap OutOfBand :
             RQ!TakeId(t, ReviewCase("BandClippingExceeded", "Normal", {n.id}))
    BY <1>2, Zenon DEF ToolAssert, Call
  <2> QED BY <1>2, <2>1
<1>3. CASE PushThenAnswer(t) \/ PushThenInsert(t) \/ ToolApprove(t) \/ ToolReject(t)
  BY <1>3 DEF PushThenAnswer, PushThenInsert, ToolApprove, ToolReject, RQ!Approve, RQ!Reject
<1>4. CASE \/ ToolInsert(t) \/ ToolInsertBatch(t) \/ ToolRetract(t) \/ ToolUpsert(t)
           \/ InsertAnswered(t) \/ RetractAnswered(t) \/ UpsertScan(t) \/ UpsertRead(t)
           \/ UpsertInsert(t) \/ UpsertInserted(t) \/ UpsertReplace(t) \/ UpsertReplaced(t)
           \/ AssertAnswered(t) \/ AssertExists(t) \/ AssertCompare(t) \/ RejectNext(t)
           \/ RejectReturned(t) \/ RejectAnswered(t)
  BY <1>4 DEF ToolInsert, ToolInsertBatch, ToolRetract, ToolUpsert, InsertAnswered,
     RetractAnswered, UpsertScan, UpsertRead, UpsertInsert, UpsertInserted, UpsertReplace,
     UpsertReplaced, AssertAnswered, AssertExists, AssertCompare, RejectNext, RejectReturned,
     RejectAnswered
<1>5. CASE UNCHANGED queue_vars
  BY <1>5
<1> QED BY <1>1, <1>2, <1>3, <1>4, <1>5 DEF Request, RequestStep

-----------------------------------------------------------------------------
(* The steps of a request: where each takes its thread.                    *)

Turns(t, tool, stage) == req'[t].tool = tool /\ req'[t].stage = stage
Calls(t, step) ==
  /\ pc[t] = "idle" /\ pc'[t] = step
  /\ ret' = ret /\ nodes' = nodes /\ index' = index /\ deps_rev' = deps_rev
SameSubject(t) ==
  /\ req'[t].node = req[t].node /\ req'[t].want = req[t].want
  /\ req'[t].ids = req[t].ids /\ req'[t].matching = req[t].matching

LEMMA OtherRequests ==
  ASSUME HandlerInv, NEW t \in Threads, NEW u \in Threads, u # t, Request(t) \/ RequestStep(t)
  PROVE  /\ req'[u] = req[u] /\ held'[u] = held[u]
         /\ pc'[u] = pc[u] /\ ins'[u] = ins[u] /\ cas'[u] = cas[u] /\ ret'[u] = ret[u]
<1>0. req \in [Threads -> Requests]
  BY DEF HandlerInv
<1>1. req'[u] = req[u]
  <2>1. CASE Request(t)
    <3>1. \E r : req' = [req EXCEPT ![t] = r]
      BY <2>1, Zenon DEF Request, ToolInsert, ToolInsertBatch, ToolRetract, ToolUpsert, ToolAssert,
         ToolApprove, ToolReject, Begin
    <3> QED BY <1>0, <3>1
  <2>2. CASE RequestStep(t)
    <3>1. CASE \/ InsertAnswered(t) \/ RetractAnswered(t) \/ UpsertInserted(t) \/ UpsertReplaced(t)
               \/ AssertAnswered(t) \/ AssertCompare(t) \/ PushThenAnswer(t) \/ RejectAnswered(t)
      BY <1>0, <3>1 DEF InsertAnswered, RetractAnswered, UpsertInserted, UpsertReplaced,
         AssertAnswered, AssertCompare, PushThenAnswer, RejectAnswered, Answer
    <3>2. CASE RetractTruncated(t)
      BY <1>0, <3>2 DEF RetractTruncated, Enqueue, Proceed
    <3>6. CASE UpsertAmbiguous(t)
      BY <1>0, <3>6 DEF UpsertAmbiguous, Enqueue, Proceed
    <3>5. CASE UpsertInsert(t) \/ UpsertReplace(t) \/ AssertExists(t) \/ PushThenInsert(t)
      BY <1>0, <3>5 DEF UpsertInsert, UpsertReplace, AssertExists, PushThenInsert, Proceed
    <3>3. CASE UpsertScan(t) \/ UpsertRead(t) \/ RejectNext(t) \/ RejectReturned(t)
      BY <1>0, <3>3 DEF UpsertScan, UpsertRead, RejectNext, RejectReturned
    <3>4. CASE UNCHANGED handler_vars
      BY <3>4 DEF handler_vars
    <3> QED BY <2>2, <3>1, <3>2, <3>3, <3>4, <3>5, <3>6 DEF RequestStep
  <2> QED BY <2>1, <2>2
<1>2. held'[u] = held[u]
  <2>1. ASSUME NEW case, RQ!TakeId(t, case) PROVE held'[u] = held[u]
    BY <2>1, EventTaken
  <2>2. CASE RQ!PushEvent(t)
    BY <2>2, EventPushed
  <2>3. ASSUME NEW id, NEW status, RQ!Decide(id, status) PROVE held'[u] = held[u]
    BY <2>3, EventDecided
  <2>4. CASE UNCHANGED queue_vars
    BY <2>4 DEF queue_vars
  <2> QED BY <2>1, <2>2, <2>3, <2>4, EventSteps
<1>3. pc'[u] = pc[u] /\ ins'[u] = ins[u] /\ cas'[u] = cas[u] /\ ret'[u] = ret[u]
  <2>1. ClientCall(t) \/ StoreStep(t) \/ UNCHANGED vars
    BY ToolsUseStore DEF HandlerInv
  <2>2. CASE ClientCall(t) \/ StoreStep(t)
    BY <2>2, OtherThreads DEF HandlerInv
  <2>3. CASE UNCHANGED vars
    BY <2>3 DEF vars, local_vars
  <2> QED BY <2>1, <2>2, <2>3
<1> QED BY <1>1, <1>2, <1>3

LEMMA Called ==
  ASSUME TypeOK, NEW t \in Threads
  PROVE  /\ \A op, load : Call(t, op, load) =>
              Calls(t, "check") /\ ins'[t].op = op /\ ins'[t].load = load
         /\ \A root, limit : StartRetract(t, root, limit) =>
              /\ Calls(t, "enter") /\ cas'[t].root = root /\ cas'[t].limit = limit
              /\ cas'[t].id = root
<1> USE DEF TypeOK, Goto, Calls, store_vars
<1>1. ASSUME NEW op, NEW load, Call(t, op, load)
      PROVE  Calls(t, "check") /\ ins'[t].op = op /\ ins'[t].load = load
  BY <1>1 DEF Call, NoInsert
<1>2. ASSUME NEW root, NEW limit, StartRetract(t, root, limit)
      PROVE  /\ Calls(t, "enter") /\ cas'[t].root = root /\ cas'[t].limit = limit
             /\ cas'[t].id = root
  BY <1>2 DEF StartRetract, NoCascade
<1> QED BY <1>1, <1>2

\* A step of the store call goes on, ends it without a truncated cascade, or
\* reports a cascade.
GoesOn(t) ==
  /\ ret'[t] = ret[t]
  /\ \/ pc[t] \in InsertSteps /\ pc'[t] \in InsertSteps
        /\ ins'[t].load = ins[t].load /\ ins'[t].op = ins[t].op
     \/ pc[t] \in CascadeSteps /\ pc'[t] \in CascadeSteps /\ SameRoot(t)
EndsCall(t) ==
  /\ pc[t] \in InsertSteps \cup CascadeSteps /\ pc'[t] = "idle" /\ ~ret'[t].truncated

LEMMA StoreMoves ==
  ASSUME TypeOK, NEW t \in Threads, StoreStep(t)
  PROVE  GoesOn(t) \/ EndsCall(t) \/ Reports(t)
<1> USE DEF TypeOK, Goto, InsertSteps, CascadeSteps, local_vars
<1>0. /\ pc \in [Threads -> Steps] /\ ret \in [Threads -> Replies] /\ ins[t] \in InsertLocals
      /\ ins \in [Threads -> InsertLocals]
  OBVIOUS
<1>1. CASE RejectInvalid(t) \/ RejectDuplicate(t) \/ StorageFails(t)
  <2>1. PICK error : Fail(t, error)
    BY <1>1 DEF RejectInvalid, RejectDuplicate, StorageFails
  <2>2. pc'[t] = "idle" /\ ~ret'[t].truncated
    BY <1>0, <2>1 DEF Fail, Reply, NoReply
  <2> QED BY <1>1, <2>2 DEF RejectInvalid, RejectDuplicate, StorageFails, EndsCall
<1>2. CASE InsertDone(t)
  BY <1>0, <1>2 DEF InsertDone, Reply, NoReply, EndsCall
<1>3. ASSUME InsertStep(t), pc[t] \in InsertSteps, pc'[t] \in InsertSteps, ret' = ret,
             ins'[t].load = ins[t].load, ins'[t].op = ins[t].op
      PROVE  GoesOn(t)
  BY <1>3 DEF GoesOn
<1>4. CASE \/ Admit(t) \/ LogInsert(t) \/ PutNode(t) \/ PutIndex(t) \/ WriteBatch(t) \/ NextNode(t)
           \/ RegisterDep(t) \/ RegisterValidity(t) \/ NotifyInsert(t)
  <2>1. CASE Admit(t) \/ LogInsert(t)
    <3>1. ins'[t].load = ins[t].load /\ ins'[t].op = ins[t].op
      BY <1>0, <2>1 DEF Admit, LogInsert, InsertLocals
    <3> QED BY <1>0, <1>3, <2>1, <3>1 DEF Admit, LogInsert, InsertStep
  <2>2. CASE PutNode(t) \/ WriteBatch(t) \/ NextNode(t)
    <3>1. ins'[t].load = ins[t].load /\ ins'[t].op = ins[t].op
      <4>1. CASE PutNode(t)
        BY <1>0, <4>1 DEF PutNode, InsertLocals
      <4>2. CASE WriteBatch(t)
        BY <1>0, <4>2 DEF WriteBatch, InsertLocals
      <4>3. CASE NextNode(t)
        BY <1>0, <4>3 DEF NextNode, InsertLocals
      <4> QED BY <2>2, <4>1, <4>2, <4>3
    <3> QED BY <1>0, <1>3, <2>2, <3>1 DEF PutNode, WriteBatch, IndexEntries, NextNode, InsertStep
  <2>3. CASE PutIndex(t)
    <3>1. ins'[t].load = ins[t].load /\ ins'[t].op = ins[t].op
      BY <1>0, <2>3 DEF PutIndex, InsertLocals
    <3> QED BY <1>0, <1>3, <2>3, <3>1 DEF PutIndex, InsertStep
  <2>4. CASE RegisterDep(t) \/ RegisterValidity(t) \/ NotifyInsert(t)
    <3>1. ins'[t].load = ins[t].load /\ ins'[t].op = ins[t].op
      BY <1>0, <2>4 DEF RegisterDep, RegisterValidity, NotifyInsert, InsertLocals
    <3> QED BY <1>0, <1>3, <2>4, <3>1 DEF RegisterDep, RegisterValidity, NotifyInsert, InsertStep
  <2> QED BY <1>4, <2>1, <2>2, <2>3, <2>4
<1>5. CASE RetractStep(t)
  <2>1. CutsEntry(t) \/ Enters(t) \/ Marks(t) \/ Counts(t) \/ Walks(t)
        \/ Cuts(t) \/ Descends(t) \/ Reports(t) \/ Misses(t)
    BY <1>5, CascadeMoves
  <2>2. pc'[t] # "idle" => ret'[t] = ret[t]
    BY <1>0, <1>5 DEF RetractStep, EnterAtLimit, EnterMissing, EnterRetracted, EnterActive,
       MarkRetracted, LogRetract, FanOut, SkipDependent, Truncate, Recurse, ReturnFromFrame,
       NotifyRetract, Fail, Reply
  <2>3. \/ ret'[t] = ret[t] /\ pc[t] \in CascadeSteps /\ pc'[t] \in CascadeSteps /\ SameRoot(t)
        \/ Reports(t) \/ Misses(t)
    BY <2>1, <2>2 DEF CutsEntry, Enters, Marks, Counts, Walks, Cuts, Descends, SameReach, SameRoot
  <2> QED BY <2>3 DEF GoesOn, Misses, EndsCall
<1> QED BY <1>1, <1>2, <1>4, <1>5 DEF StoreStep, InsertStep

\* What a step does to its request and its thread, tool by tool.
Starts(t) ==
  /\ req[t].stage = "idle"
  /\ \/ ToolInsert(t) /\ Turns(t, "insert", "store") /\ Calls(t, "check")
     \/ ToolInsertBatch(t) /\ Turns(t, "insert", "store") /\ Calls(t, "check")
     \/ ToolRetract(t) /\ Turns(t, "retract", "store") /\ Calls(t, "enter")
     \/ ToolUpsert(t) /\ Turns(t, "upsert", "scan") /\ UNCHANGED vars
     \/ ToolAssert(t) /\ Turns(t, "assert", "push") /\ UNCHANGED vars
     \/ ToolAssert(t) /\ Turns(t, "assert", "store") /\ Calls(t, "check")
     \/ ToolApprove(t) /\ Turns(t, "none", "idle") /\ UNCHANGED vars
     \/ ToolReject(t) /\ Turns(t, "reject", "reject") /\ UNCHANGED vars

Finishes(t) ==
  /\ req'[t] = NoRequest /\ UNCHANGED vars
  /\ \/ InsertAnswered(t) \/ RetractAnswered(t) \/ UpsertInserted(t) \/ UpsertReplaced(t)
     \/ AssertAnswered(t) \/ AssertCompare(t) \/ PushThenAnswer(t) \/ RejectAnswered(t)

Continues(t) ==
  \/ RetractTruncated(t) /\ Turns(t, "retract", "push") /\ UNCHANGED vars
  \/ UpsertScan(t) /\ Turns(t, "upsert", "read") /\ UNCHANGED vars
  \/ UpsertRead(t) /\ Turns(t, "upsert", "read") /\ UNCHANGED vars
  \/ UpsertAmbiguous(t) /\ Turns(t, "upsert", "push") /\ UNCHANGED vars
  \/ UpsertInsert(t) /\ Turns(t, "upsert", "store") /\ Calls(t, "check")
  \/ UpsertReplace(t) /\ Turns(t, "upsert", "replace") /\ Calls(t, "enter")
  \/ AssertExists(t) /\ Turns(t, "assert", "compare") /\ UNCHANGED vars
  \/ PushThenInsert(t) /\ Turns(t, "assert", "store") /\ Calls(t, "check")
  \/ RejectNext(t) /\ Turns(t, "reject", "condemn") /\ Calls(t, "enter")
  \/ RejectReturned(t) /\ Turns(t, "reject", "reject") /\ UNCHANGED vars

LEMMA StepTable ==
  ASSUME HandlerInv, NEW t \in Threads, Request(t) \/ RequestStep(t)
  PROVE  \/ Starts(t) \/ Finishes(t) \/ Continues(t)
         \/ StoreStep(t) /\ UNCHANGED queue_vars /\ UNCHANGED handler_vars
<1>0. req \in [Threads -> Requests] /\ req[t] \in Requests /\ TypeOK
  BY DEF HandlerInv
<1> USE DEF Turns
<1>1. CASE Request(t)
  <2>1. ASSUME NEW r, Begin(t, r)
        PROVE  Turns(t, r.tool, r.stage) /\ req[t].stage = "idle"
    BY <1>0, <2>1 DEF Begin
  <2> HIDE DEF Turns
  <2>2. CASE ToolInsert(t)
    <3>1. PICK n : /\ Call(t, "insert", {n})
                   /\ Begin(t, [NoRequest EXCEPT !.tool = "insert", !.stage = "store", !.node = n])
      BY <2>2 DEF ToolInsert
    <3> DEFINE r == [NoRequest EXCEPT !.tool = "insert", !.stage = "store", !.node = n]
    <3>2. r.tool = "insert" /\ r.stage = "store"
      BY DEF NoRequest
    <3>3. Begin(t, r)
      BY <3>1
    <3> HIDE DEF r
    <3>4. Turns(t, "insert", "store") /\ req[t].stage = "idle"
      BY <2>1, <3>2, <3>3
    <3>5. Calls(t, "check")
      BY <1>0, <3>1, Called
    <3> QED BY <2>2, <3>4, <3>5 DEF Starts
  <2>8. CASE ToolInsertBatch(t)
    <3> DEFINE r == [NoRequest EXCEPT !.tool = "insert", !.stage = "store"]
    <3>1. Calls(t, "check")
      BY <1>0, <2>8, Called DEF ToolInsertBatch
    <3>2. Begin(t, r)
      BY <2>8 DEF ToolInsertBatch
    <3>3. r.tool = "insert" /\ r.stage = "store"
      BY DEF NoRequest
    <3> HIDE DEF r
    <3>4. Turns(t, "insert", "store") /\ req[t].stage = "idle"
      BY <2>1, <3>2, <3>3
    <3> QED BY <2>8, <3>1, <3>4 DEF Starts
  <2>3. CASE ToolRetract(t)
    <3> DEFINE r == [NoRequest EXCEPT !.tool = "retract", !.stage = "store"]
    <3>1. Calls(t, "enter")
      BY <1>0, <2>3, Called DEF ToolRetract
    <3>2. Begin(t, r)
      BY <2>3 DEF ToolRetract
    <3>3. r.tool = "retract" /\ r.stage = "store"
      BY DEF NoRequest
    <3> HIDE DEF r
    <3>4. Turns(t, "retract", "store") /\ req[t].stage = "idle"
      BY <2>1, <3>2, <3>3
    <3> QED BY <2>3, <3>1, <3>4 DEF Starts
  <2>4. CASE ToolUpsert(t)
    <3>1. PICK n, want :
            Begin(t, [NoRequest EXCEPT !.tool = "upsert", !.stage = "scan", !.node = n, !.want = want])
      BY <2>4, Zenon DEF ToolUpsert
    <3> DEFINE r == [NoRequest EXCEPT !.tool = "upsert", !.stage = "scan", !.node = n, !.want = want]
    <3>2. r.tool = "upsert" /\ r.stage = "scan"
      BY DEF NoRequest
    <3>3. Begin(t, r)
      BY <3>1
    <3> HIDE DEF r
    <3>4. Turns(t, "upsert", "scan") /\ req[t].stage = "idle"
      BY <2>1, <3>2, <3>3
    <3> QED BY <2>4, <3>4 DEF Starts, ToolUpsert
  <2>5. CASE ToolAssert(t)
    <3>1. PICK n :
            \/ /\ Begin(t, [[NoRequest EXCEPT !.tool = "assert", !.node = n] EXCEPT !.stage = "push"])
               /\ UNCHANGED vars
            \/ /\ Begin(t, [[NoRequest EXCEPT !.tool = "assert", !.node = n] EXCEPT !.stage = "store"])
               /\ Call(t, "insert", {n})
      BY <2>5, Zenon DEF ToolAssert
    <3> DEFINE r == [[NoRequest EXCEPT !.tool = "assert", !.node = n] EXCEPT !.stage = "push"]
               q == [[NoRequest EXCEPT !.tool = "assert", !.node = n] EXCEPT !.stage = "store"]
    <3>2. r.tool = "assert" /\ r.stage = "push" /\ q.tool = "assert" /\ q.stage = "store"
      BY DEF NoRequest
    <3>3. (Begin(t, r) /\ UNCHANGED vars) \/ (Begin(t, q) /\ Call(t, "insert", {n}))
      BY <3>1
    <3> HIDE DEF r, q
    <3>4. CASE Begin(t, r) /\ UNCHANGED vars
      <4>1. Turns(t, "assert", "push") /\ req[t].stage = "idle"
        BY <2>1, <3>2, <3>4
      <4> QED BY <2>5, <3>4, <4>1 DEF Starts
    <3>5. CASE Begin(t, q) /\ Call(t, "insert", {n})
      <4>1. Turns(t, "assert", "store") /\ req[t].stage = "idle"
        BY <2>1, <3>2, <3>5
      <4>2. Calls(t, "check")
        BY <1>0, <3>5, Called
      <4> QED BY <2>5, <4>1, <4>2 DEF Starts
    <3> QED BY <3>3, <3>4, <3>5
  <2>6. CASE ToolApprove(t)
    <3>1. Begin(t, NoRequest) /\ UNCHANGED vars
      BY <2>6 DEF ToolApprove
    <3>2. NoRequest.tool = "none" /\ NoRequest.stage = "idle"
      BY DEF NoRequest
    <3>3. Turns(t, "none", "idle") /\ req[t].stage = "idle"
      BY <2>1, <3>1, <3>2
    <3> QED BY <2>6, <3>1, <3>3 DEF Starts
  <2>7. CASE ToolReject(t)
    <3>1. PICK ids, about : Begin(t, [NoRequest EXCEPT !.tool = "reject", !.stage = "reject",
                                                       !.ids = ids, !.matching = about])
      BY <2>7, Zenon DEF ToolReject
    <3> DEFINE r == [NoRequest EXCEPT !.tool = "reject", !.stage = "reject", !.ids = ids,
                                      !.matching = about]
    <3>2. r.tool = "reject" /\ r.stage = "reject"
      BY DEF NoRequest
    <3>3. Begin(t, r)
      BY <3>1
    <3> HIDE DEF r
    <3>4. Turns(t, "reject", "reject") /\ req[t].stage = "idle"
      BY <2>1, <3>2, <3>3
    <3> QED BY <2>7, <3>4 DEF Starts, ToolReject
  <2> QED BY <1>1, <2>2, <2>3, <2>4, <2>5, <2>6, <2>7, <2>8 DEF Request
<1>2. CASE \/ InsertAnswered(t) \/ RetractAnswered(t) \/ UpsertInserted(t) \/ UpsertReplaced(t)
           \/ AssertAnswered(t) \/ AssertCompare(t) \/ PushThenAnswer(t) \/ RejectAnswered(t)
  BY <1>0, <1>2 DEF InsertAnswered, RetractAnswered, UpsertInserted, UpsertReplaced,
     AssertAnswered, AssertCompare, PushThenAnswer, RejectAnswered, Answer, Finishes
<1>3. ASSUME NEW stage, Proceed(t, stage) PROVE req'[t].tool = req[t].tool /\ req'[t].stage = stage
  BY <1>0, <1>3 DEF Proceed, Requests
<1>4. CASE RetractTruncated(t) \/ UpsertAmbiguous(t) \/ AssertExists(t)
  BY <1>3, <1>4 DEF RetractTruncated, UpsertAmbiguous, AssertExists, Enqueue, Returned, AtStage,
     Continues
<1>5. CASE UpsertInsert(t) \/ PushThenInsert(t)
  BY <1>0, <1>3, <1>5, Called DEF UpsertInsert, PushThenInsert, AtStage, Continues
<1>6. CASE UpsertReplace(t)
  BY <1>0, <1>3, <1>6, Called DEF UpsertReplace, Returned, AtStage, Continues
<1>7. CASE UpsertScan(t) \/ UpsertRead(t)
  <2>1. CASE UpsertScan(t)
    <3>1. PICK ids : req' = [req EXCEPT ![t].stage = "read", ![t].ids = ids]
      BY <2>1 DEF UpsertScan
    <3>2. Turns(t, req[t].tool, "read")
      BY <1>0, <3>1 DEF Requests
    <3> QED BY <2>1, <3>2 DEF UpsertScan, AtStage, Continues
  <2>2. CASE UpsertRead(t)
    BY <1>0, <2>2 DEF UpsertRead, AtStage, Continues, Requests
  <2> QED BY <1>7, <2>1, <2>2
<1>8. CASE RejectNext(t)
  <2>1. PICK i : /\ StartRetract(t, i, DefaultLimit)
                 /\ req' = [req EXCEPT ![t].ids = Rest(@, i), ![t].stage = "condemn"]
    BY <1>8 DEF RejectNext
  <2>2. Turns(t, req[t].tool, "condemn")
    BY <1>0, <2>1 DEF Requests
  <2>3. Calls(t, "enter")
    BY <1>0, <2>1, Called
  <2> QED BY <1>8, <2>2, <2>3 DEF RejectNext, AtStage, Continues
<1>10. CASE RejectReturned(t)
  <2>1. Turns(t, req[t].tool, "reject")
    BY <1>0, <1>10 DEF RejectReturned, Requests
  <2> QED BY <1>10, <2>1 DEF RejectReturned, Returned, AtStage, Continues
<1>9. CASE StoreStep(t) /\ UNCHANGED <<queue_vars, handler_vars>>
  BY <1>9
<1> QED BY <1>1, <1>2, <1>4, <1>5, <1>6, <1>7, <1>8, <1>9, <1>10 DEF RequestStep

\* Which tools have which stages, and what their threads do in the store.
WorkInv(t) ==
  /\ req[t].stage \notin {"store", "replace", "condemn"} => pc[t] = "idle"
  /\ req[t].stage = "idle" <=> req[t].tool = "none"
  /\ req[t].stage \in {"reject", "condemn"} <=> req[t].tool = "reject"
  /\ req[t].stage \in {"scan", "read", "replace"} => req[t].tool = "upsert"
  /\ req[t].stage = "compare" => req[t].tool = "assert"
  /\ pc[t] \in InsertSteps => req[t].stage = "store" /\ req[t].tool # "retract"
  /\ pc[t] \in CascadeSteps =>
       \/ req[t].stage = "store" /\ req[t].tool = "retract" /\ cas[t].limit \in MaxNodes
       \/ req[t].stage \in {"replace", "condemn"} /\ cas[t].limit = DefaultLimit

LEMMA WorkKept ==
  ASSUME HandlerInv, NEW t \in Threads, WorkInv(t), Request(t) \/ RequestStep(t)
  PROVE  WorkInv(t)'
<1> USE DEF WorkInv, InsertSteps, CascadeSteps
<1>0. TypeOK
  BY DEF HandlerInv
<1>i. ASSUME UNCHANGED vars PROVE pc' = pc /\ cas' = cas
  BY <1>i DEF vars, local_vars
<1>1. CASE Starts(t)
  <2>1. CASE ToolRetract(t) /\ Turns(t, "retract", "store") /\ Calls(t, "enter")
    <3>1. cas'[t].limit \in MaxNodes
      BY <1>0, <2>1, Called DEF ToolRetract
    <3> QED BY <2>1, <3>1 DEF Turns, Calls
  <2>2. CASE Calls(t, "check") /\ (Turns(t, "insert", "store") \/ Turns(t, "assert", "store"))
    BY <2>2 DEF Turns, Calls
  <2>3. CASE /\ UNCHANGED vars
             /\ \/ Turns(t, "upsert", "scan") \/ Turns(t, "assert", "push")
                \/ Turns(t, "none", "idle") \/ Turns(t, "reject", "reject")
    BY <1>1, <1>i, <2>3 DEF Starts, Turns
  <2> QED BY <1>1, <2>1, <2>2, <2>3 DEF Starts
<1>2. CASE Finishes(t)
  <2>1. req[t].stage \notin {"store", "replace", "condemn"} \/ pc[t] = "idle"
    BY <1>2 DEF Finishes, InsertAnswered, RetractAnswered, UpsertInserted, UpsertReplaced,
       AssertAnswered, AssertCompare, PushThenAnswer, RejectAnswered, Returned, AtStage
  <2> QED BY <1>2, <1>i, <2>1 DEF Finishes, NoRequest
<1>3. CASE Continues(t)
  <2>1. CASE UpsertReplace(t) /\ Turns(t, "upsert", "replace") /\ Calls(t, "enter")
    <3>1. cas'[t].limit = DefaultLimit
      BY <1>0, <2>1, Called DEF UpsertReplace
    <3> QED BY <2>1, <3>1 DEF Turns, Calls
  <2>2. CASE RejectNext(t) /\ Turns(t, "reject", "condemn") /\ Calls(t, "enter")
    <3>1. cas'[t].limit = DefaultLimit
      BY <1>0, <2>2, Called DEF RejectNext
    <3> QED BY <2>2, <3>1 DEF Turns, Calls
  <2>3. CASE Calls(t, "check") /\ (Turns(t, "upsert", "store") \/ Turns(t, "assert", "store"))
    BY <2>3 DEF Turns, Calls
  <2>4. CASE /\ UNCHANGED vars
             /\ \/ RetractTruncated(t) /\ Turns(t, "retract", "push")
                \/ UpsertScan(t) /\ Turns(t, "upsert", "read")
                \/ UpsertRead(t) /\ Turns(t, "upsert", "read")
                \/ UpsertAmbiguous(t) /\ Turns(t, "upsert", "push")
                \/ AssertExists(t) /\ Turns(t, "assert", "compare")
                \/ RejectReturned(t) /\ Turns(t, "reject", "reject")
    <3>1. pc[t] = "idle"
      BY <2>4 DEF RetractTruncated, UpsertScan, UpsertRead, UpsertAmbiguous, AssertExists,
         RejectReturned, Returned, AtStage
    <3> QED BY <1>i, <2>4, <3>1 DEF Turns
  <2> QED BY <1>3, <2>1, <2>2, <2>3, <2>4 DEF Continues
<1>4. CASE StoreStep(t) /\ UNCHANGED queue_vars /\ UNCHANGED handler_vars
  <2>1. GoesOn(t) \/ EndsCall(t) \/ Reports(t)
    BY <1>0, <1>4, StoreMoves
  <2>2. req' = req
    BY <1>4 DEF handler_vars
  <2> QED BY <2>1, <2>2 DEF GoesOn, EndsCall, Reports, SameRoot
<1> QED BY <1>1, <1>2, <1>3, <1>4, StepTable

LEMMA OthersWork ==
  ASSUME HandlerInv, NEW t \in Threads, WorkInv(t), NEW u \in Threads, u # t,
         Request(u) \/ RequestStep(u)
  PROVE  WorkInv(t)'
BY OtherRequests DEF WorkInv

\* What the handler knows of its requests and, while no two inserts of one id
\* are under way at once, what the store knows of its calls.
ToolInv ==
  /\ HandlerInv /\ IndexInv /\ RefInv
  /\ \A t \in Threads : BoundInv(t) /\ RootInv(t) /\ WorkInv(t)

LEMMA InitTools == HandlerInit => ToolInv
<1> SUFFICES ASSUME HandlerInit PROVE ToolInv
  OBVIOUS
<1>1. Init
  BY DEF HandlerInit
<1>2. \A t \in Threads : BoundInv(t) /\ RootInv(t)
  BY <1>1 DEF Init, NoCascade, BoundInv, RootInv, CascadeSteps
<1>3. \A t \in Threads : WorkInv(t)
  BY <1>1 DEF Init, HandlerInit, NoRequest, WorkInv, InsertSteps, CascadeSteps
<1> QED BY <1>1, <1>2, <1>3, InitHandler, InitStore DEF ToolInv

LEMMA WorkStep ==
  ASSUME HandlerInv, \A t \in Threads : WorkInv(t), [HandlerNext]_all_vars, NEW t \in Threads
  PROVE  WorkInv(t)'
<1>1. CASE UNCHANGED all_vars
  BY <1>1 DEF all_vars, vars, local_vars, handler_vars, WorkInv
<1>2. ASSUME NEW u \in Threads, Request(u) \/ RequestStep(u) PROVE WorkInv(t)'
  BY <1>2, WorkKept, OthersWork
<1> QED BY <1>1, <1>2 DEF HandlerNext, HandlerFinished

LEMMA ToolStep ==
  ASSUME NoDuplicateRace, ToolInv, [HandlerNext]_all_vars
  PROVE  ToolInv'
<1>1. HandlerInv' /\ [Next]_vars /\ TypeOK
  BY HandlerStep DEF ToolInv, HandlerInv
<1>2. IndexInv' /\ RefInv'
  BY <1>1, NextIndexed, NextRefRaceless DEF ToolInv
<1>3. ASSUME NEW t \in Threads PROVE BoundInv(t)' /\ RootInv(t)'
  BY <1>1, NextBound, NextReach DEF ToolInv
<1>4. ASSUME NEW t \in Threads PROVE WorkInv(t)'
  BY WorkStep DEF ToolInv
<1> QED BY <1>1, <1>2, <1>3, <1>4 DEF ToolInv

\* A single client runs into no race.
LEMMA OneClientNoRace == OneClient => NoDuplicateRace
BY DEF OneClient, NoDuplicateRace

-----------------------------------------------------------------------------
(* Retractions that were cut short.                                        *)

Reported(e, i) == e.type = "CascadeTruncated" /\ e.priority = "High" /\ e.nodes = {i}
Queued(i) == \E k \in 1..Len(deque) : Reported(deque[k], i)

\* The event of a truncated retraction is held while factum_retract is about to
\* push it, and in the queue once it has answered.
CutInv(t) ==
  /\ AtStage(t, {"retract"}, "push") => held[t] # None /\ Reported(held[t], ret[t].root)
  /\ req[t].stage = "idle" /\ answer[t].tool = "retract" /\ ret[t].truncated =>
       Queued(ret[t].root)

\* Events stay in the queue.
LEMMA StaysQueued ==
  ASSUME HandlerInv, NEW t \in Threads, Request(t) \/ RequestStep(t), NEW i, Queued(i)
  PROVE  Queued(i)'
<1>1. PICK j \in 1..Len(deque) : Reported(deque[j], i)
  BY DEF Queued
<1>2. \E k \in 1..Len(deque') :
        /\ deque'[k].type = deque[j].type /\ deque'[k].nodes = deque[j].nodes
        /\ deque'[k].priority = deque[j].priority
  <2>1. CASE deque' = deque
    BY <2>1
  <2>2. CASE RQ!PushEvent(t)
    <3>1. \E k \in 1..Len(deque') : deque'[k] = deque[j]
      BY <2>2, EventPushed
    <3> QED BY <3>1
  <2>3. ASSUME NEW id, NEW status, RQ!Decide(id, status)
        PROVE  \E k \in 1..Len(deque') :
                 /\ deque'[k].type = deque[j].type /\ deque'[k].nodes = deque[j].nodes
                 /\ deque'[k].priority = deque[j].priority
    BY <2>3, EventDecided
  <2>4. ASSUME NEW case, RQ!TakeId(t, case) PROVE deque' = deque
    BY <2>4, EventTaken
  <2> QED BY <2>1, <2>2, <2>3, <2>4, EventSteps DEF queue_vars
<1> QED BY <1>1, <1>2 DEF Queued, Reported

AnswersTyped == answer = [t \in Threads |-> answer[t]]
Answering(t) ==
  \/ InsertAnswered(t) \/ RetractAnswered(t) \/ UpsertInserted(t) \/ UpsertReplaced(t)
  \/ AssertAnswered(t) \/ AssertCompare(t) \/ PushThenAnswer(t) \/ RejectAnswered(t)

\* An answer is of the request that ends, and stays until the next one.
LEMMA AnswerMoves ==
  ASSUME AnswersTyped, NEW t \in Threads, Request(t) \/ RequestStep(t)
  PROVE  /\ AnswersTyped'
         /\ \A u \in Threads \ {t} : answer'[u] = answer[u]
         /\ ~Answering(t) => answer' = answer
         /\ Answering(t) => answer'[t].tool = req[t].tool /\ answer'[t].errors = req[t].errors
         /\ RejectAnswered(t) => answer'[t].ids = req[t].matching
<1>1. ASSUME NEW action, NEW ids, Answer(t, action, ids)
      PROVE  /\ AnswersTyped' /\ \A u \in Threads \ {t} : answer'[u] = answer[u]
             /\ answer'[t].tool = req[t].tool /\ answer'[t].errors = req[t].errors
             /\ answer'[t].ids = ids
  <2> DEFINE a == [tool |-> req[t].tool, action |-> action, ids |-> ids, errors |-> req[t].errors]
  <2>1. answer' = [answer EXCEPT ![t] = a]
    BY <1>1 DEF Answer
  <2>2. a.tool = req[t].tool /\ a.errors = req[t].errors /\ a.ids = ids
    OBVIOUS
  <2> HIDE DEF a
  <2>3. answer'[t] = a /\ \A u \in Threads \ {t} : answer'[u] = answer[u]
    BY <2>1 DEF AnswersTyped
  <2>4. AnswersTyped'
    BY <2>1 DEF AnswersTyped
  <2> QED BY <2>2, <2>3, <2>4
<1>2. Answering(t) => \E action, ids : Answer(t, action, ids)
  BY DEF Answering, InsertAnswered, RetractAnswered, UpsertInserted, UpsertReplaced,
     AssertAnswered, AssertCompare, PushThenAnswer, RejectAnswered
<1>3. RejectAnswered(t) => Answer(t, "rejected", req[t].matching)
  BY DEF RejectAnswered
<1>4. ASSUME ~Answering(t) PROVE answer' = answer
  <2>1. CASE Request(t)
    BY <2>1 DEF Request, ToolInsert, ToolInsertBatch, ToolRetract, ToolUpsert, ToolAssert,
       ToolApprove, ToolReject, Begin
  <2>2. CASE RequestStep(t)
    BY <1>4, <2>2 DEF RequestStep, Answering, RetractTruncated, UpsertScan, UpsertRead,
       UpsertInsert, UpsertAmbiguous, UpsertReplace, AssertExists, PushThenInsert, RejectNext,
       RejectReturned, Enqueue, Proceed, handler_vars
  <2> QED BY <2>1, <2>2
<1>5. answer' = answer => AnswersTyped'
  BY DEF AnswersTyped
<1> QED BY <1>1, <1>2, <1>3, <1>4, <1>5

LEMMA CutKept ==
  ASSUME HandlerInv, NEW t \in Threads, WorkInv(t), AnswersTyped, CutInv(t),
         Request(t) \/ RequestStep(t)
  PROVE  CutInv(t)'
<1>i. ASSUME UNCHANGED vars PROVE ret' = ret
  BY <1>i DEF vars
<1>1. CASE Starts(t)
  <2>1. req[t].stage = "idle" /\ ret' = ret
    BY <1>1, <1>i DEF Starts, Calls
  <2>2. answer' = answer
    <3>1. ~Answering(t)
      BY <2>1 DEF Answering, InsertAnswered, RetractAnswered, UpsertInserted, UpsertReplaced,
         AssertAnswered, AssertCompare, PushThenAnswer, RejectAnswered, Returned, AtStage
    <3> QED BY <3>1, AnswerMoves
  <2>3. ~AtStage(t, {"retract"}, "push")'
    BY <1>1 DEF Starts, Turns, AtStage
  <2>4. Queued(ret[t].root) => Queued(ret[t].root)'
    BY <2>1, StaysQueued DEF Queued
  <2> QED BY <2>1, <2>2, <2>3, <2>4 DEF CutInv, Queued
<1>2. CASE Finishes(t)
  <2>1. /\ req'[t].stage = "idle" /\ ret' = ret
        /\ answer'[t].tool = req[t].tool
    BY <1>2, <1>i, AnswerMoves DEF Finishes, Answering, NoRequest
  <2>2. ASSUME req[t].tool = "retract", ret[t].truncated PROVE Queued(ret[t].root)'
    <3>1. PushThenAnswer(t)
      BY <1>2, <2>2 DEF Finishes, InsertAnswered, RetractAnswered, NeedsReview, UpsertInserted,
         UpsertReplaced, AssertAnswered, AssertCompare, RejectAnswered, Returned, AtStage
    <3>2. Reported(held[t], ret[t].root) /\ RQ!PushEvent(t)
      BY <2>2, <3>1 DEF PushThenAnswer, AtStage, CutInv
    <3>3. \E k \in 1..Len(deque') : deque'[k] = held[t]
      BY <3>2, EventPushed
    <3> QED BY <2>1, <3>2, <3>3 DEF Queued, Reported
  <2> QED BY <2>1, <2>2 DEF CutInv, AtStage, Queued
<1>3. CASE Continues(t)
  <2>1. CASE RetractTruncated(t) /\ Turns(t, "retract", "push") /\ UNCHANGED vars
    <3>1. Reported(held'[t], ret[t].root)
      BY <2>1, EventTaken DEF RetractTruncated, Enqueue, ReviewCase, Reported
    <3>2. held'[t] # None
      <4> DEFINE e == RQ!NewEvent(next_id, ReviewCase("CascadeTruncated", "High", {ret[t].root}))
      <4>1. held' = [held EXCEPT ![t] = e] /\ held \in [Threads -> RP!Fresh \cup {None}]
        BY <2>1 DEF RetractTruncated, Enqueue, RQ!TakeId, RQ!FreshId, HandlerInv, RP!ReviewInv,
           RP!QueueTypes
      <4>2. next_id \in Nat /\ ret[t].root \in Ids
        BY <2>1 DEF RetractTruncated, NeedsReview, HandlerInv, RootReady, RP!ReviewInv,
           RP!QueueTypes
      <4>3. e # None
        BY <4>2, HandlerAssumption DEF HandlerAssumption, RQ!NewEvent, ReviewCase
      <4> HIDE DEF e
      <4> QED BY <4>1, <4>3
    <3> QED BY <1>i, <2>1, <3>1, <3>2 DEF CutInv, Turns
  <2>2. CASE ~(RetractTruncated(t) /\ Turns(t, "retract", "push") /\ UNCHANGED vars)
    BY <1>3, <2>2 DEF Continues, Turns, CutInv, AtStage
  <2> QED BY <2>1, <2>2
<1>4. CASE StoreStep(t) /\ UNCHANGED queue_vars /\ UNCHANGED handler_vars
  <2>1. GoesOn(t) \/ EndsCall(t) \/ Reports(t)
    BY <1>4, StoreMoves DEF HandlerInv
  <2>2. req[t].stage \notin {"push", "idle"}
    BY <2>1 DEF GoesOn, EndsCall, Reports, Reporting, WorkInv, InsertSteps, CascadeSteps
  <2> QED BY <1>4, <2>2 DEF handler_vars, CutInv, AtStage
<1> QED BY <1>1, <1>2, <1>3, <1>4, StepTable

LEMMA OthersCut ==
  ASSUME HandlerInv, NEW t \in Threads, AnswersTyped, CutInv(t), NEW u \in Threads, u # t,
         Request(u) \/ RequestStep(u)
  PROVE  CutInv(t)'
<1>1. /\ req'[t] = req[t] /\ held'[t] = held[t] /\ ret'[t] = ret[t] /\ answer'[t] = answer[t]
  BY OtherRequests, AnswerMoves
<1>2. Queued(ret[t].root) => Queued(ret[t].root)'
  BY <1>1, StaysQueued DEF Queued
<1> QED BY <1>1, <1>2 DEF CutInv, Queued, AtStage

\* When factum_retract has answered, a retraction that was cut short is in the
\* review queue, at high priority and as an event of its own: for any clients,
\* ids and limits, on both backends and in any interleaving. The other tools
\* that retract look at no such flag.
THEOREM RetractionsAlwaysQueued == HandlerSpec => []RetractionQueued
<1> DEFINE Works == \A t \in Threads : WorkInv(t)
           Cut == AnswersTyped /\ \A t \in Threads : CutInv(t)
<1>1. HandlerInit => Works /\ Cut
  <2>1. HandlerInit => Works
    BY InitTools DEF ToolInv
  <2> QED BY <2>1 DEF HandlerInit, NoRequest, NoAnswer, AnswersTyped, CutInv, AtStage
<1>2. HandlerInv /\ Works /\ Cut /\ [HandlerNext]_all_vars => Works' /\ Cut'
  <2> SUFFICES ASSUME HandlerInv, Works, Cut, [HandlerNext]_all_vars PROVE Works' /\ Cut'
    OBVIOUS
  <2>1. Works'
    BY WorkStep
  <2>2. CASE UNCHANGED all_vars
    BY <2>1, <2>2 DEF all_vars, vars, handler_vars, queue_vars, AnswersTyped, CutInv, Queued, AtStage
  <2>3. ASSUME NEW u \in Threads, Request(u) \/ RequestStep(u) PROVE Cut'
    BY <2>3, CutKept, OthersCut, AnswerMoves
  <2> QED BY <2>1, <2>2, <2>3 DEF HandlerNext, HandlerFinished
<1>3. Cut => RetractionQueued
  BY DEF CutInv, Queued, Reported, RetractionQueued, Events
<1> QED BY <1>1, <1>2, <1>3, InitHandler, HandlerStep, PTL DEF HandlerSpec

-----------------------------------------------------------------------------
(* Upserts of a single client.                                             *)

\* n is Derived from a node that is retracted.
Undercut(n) == n.derived /\ \E d \in n.deps : IsRetracted(d)

\* What t's upsert knows of the node it inserts and of those it replaces: it
\* found them stored, and the check for duplicates found the new one absent.
UpsertInv(t) ==
  LET n == req[t].node
      M == req[t].matching
  IN
  req[t].tool = "upsert" =>
    /\ \A i \in M : nodes[i] # None
    /\ req[t].stage \in {"scan", "read", "store", "replace"} => n \in Upserts[t]
    /\ req[t].stage \in {"store", "replace"} => \A i, j \in M : i = j
    /\ pc[t] \in InsertSteps => ins[t].load = {n}
    /\ pc[t] \in InsertSteps \ {"check"} => n.id \notin M /\ ~IsRetracted(n.id)
    /\ \/ Returned(t, {"upsert"}, "store") /\ ret[t].result = "Ok"
       \/ req[t].stage = "replace"
       => n.id \notin M /\ Holds(n) /\ (IsRetracted(n.id) => Undercut(n))
    /\ req[t].stage = "replace" /\ pc[t] \in CascadeSteps =>
         cas[t].root \in M /\ (pc[t] \in {"enter", "mark"} /\ cas[t].id = n.id => Undercut(n))
    /\ Returned(t, {"upsert"}, "replace") /\ ret[t].result = "Ok" =>
         \A i \in M : IsRetracted(i)

LEMMA Proceeds ==
  ASSUME HandlerInv, NEW t \in Threads, NEW stage, Proceed(t, stage)
  PROVE  SameSubject(t) /\ req'[t].stage = stage /\ req'[t].tool = req[t].tool
<1>1. req \in [Threads -> Requests] /\ req[t] \in Requests
  BY DEF HandlerInv
<1> QED BY <1>1 DEF Proceed, SameSubject, Requests

\* An insert only activates, and it returns Ok after its last node.
LEMMA InsertsActivate ==
  ASSUME TypeOK, NEW t \in Threads, InsertStep(t)
  PROVE  /\ \A i \in Ids : IsRetracted(i)' => IsRetracted(i)
         /\ pc[t] = "check" /\ pc'[t] # "idle" => Duplicates(ins[t].load) = {} /\ nodes' = nodes
         /\ pc[t] \in InsertSteps
         /\ pc'[t] = "idle" /\ ret'[t].result = "Ok" => pc[t] = "next" /\ nodes' = nodes
<1> USE DEF TypeOK, InsertSteps, Goto, store_vars
<1>1. CASE PutNode(t)
  <2>1. \A i \in Ids : nodes'[i] = nodes[i] \/ nodes'[i].status = "Active"
    BY <1>1 DEF PutNode, Active
  <2> QED BY <1>1, <2>1 DEF PutNode, IsRetracted
<1>2. CASE WriteBatch(t)
  <2>1. \A i \in Ids : nodes'[i] = nodes[i] \/ nodes'[i].status = "Active"
    BY <1>2 DEF WriteBatch, IndexEntries, Active
  <2> QED BY <1>2, <2>1 DEF WriteBatch, IndexEntries, IsRetracted
<1>3. CASE RejectInvalid(t) \/ RejectDuplicate(t)
  <2>1. PICK error \in {"InvalidNode", "AlreadyExists"} : Fail(t, error)
    BY <1>3 DEF RejectInvalid, RejectDuplicate
  <2>2. pc'[t] = "idle" /\ ret'[t].result = error /\ nodes' = nodes
    BY <2>1 DEF Fail, Reply, NoReply
  <2> QED BY <1>3, <2>1, <2>2 DEF RejectInvalid, RejectDuplicate, IsRetracted
<1>4. CASE Admit(t) \/ LogInsert(t) \/ PutIndex(t) \/ NextNode(t)
  BY <1>4 DEF Admit, LogInsert, PutIndex, NextNode, IsRetracted
<1>5. CASE RegisterDep(t) \/ RegisterValidity(t) \/ NotifyInsert(t)
  BY <1>5 DEF RegisterDep, RegisterValidity, NotifyInsert, IsRetracted
<1>6. CASE InsertDone(t)
  BY <1>6 DEF InsertDone, Reply, IsRetracted
<1> QED BY <1>1, <1>2, <1>3, <1>4, <1>5, <1>6 DEF InsertStep

\* A cascade descends to what is Derived from a node it found retracted.
LEMMA DescendsToUndercut ==
  ASSUME TypeOK, RefInv, NEW t \in Threads, RetractStep(t), Descends(t), NEW n \in Nodes,
         Holds(n), cas'[t].id = n.id
  PROVE  Undercut(n)
<1>1. Recurse(t)
  BY DEF Descends, RetractStep, EnterAtLimit, EnterMissing, EnterRetracted, EnterActive,
     MarkRetracted, LogRetract, FanOut, SkipDependent, Truncate, ReturnFromFrame, NotifyRetract,
     Fail, Reply, Goto, Looping, TypeOK
<1>2. PICK d \in Top(t).todo : Follows(d) /\ cas' = [cas EXCEPT ![t].id = d]
  BY <1>1 DEF Recurse
<1>3. d = n.id
  BY <1>2 DEF TypeOK, CascadeLocals
<1>4. FrameOK(Top(t)) /\ Top(t).id \in Ids
  BY <1>1, LensTyped, TopTyped DEF Recurse, Looping, Top, RefInv, CascadeInv
<1>5. n.id \in deps_rev[Top(t).id] /\ IsRetracted(Top(t).id)
  BY <1>2, <1>3, <1>4 DEF FrameOK
<1>6. Top(t).id \in n.deps
  BY <1>4, <1>5 DEF RefInv, DepsSound, Holds
<1> QED BY <1>2, <1>3, <1>5, <1>6 DEF Undercut, Follows, Holds

LEMMA UpsertGoesOn ==
  ASSUME ToolInv, NEW t \in Threads, UpsertInv(t), DefaultLimit > 0,
         StoreStep(t), UNCHANGED handler_vars
  PROVE  UpsertInv(t)'
<1> DEFINE n == req[t].node
           M == req[t].matching
<1> SUFFICES ASSUME req[t].tool = "upsert" PROVE UpsertInv(t)'
  BY DEF handler_vars, UpsertInv
<1>0. /\ HandlerInv /\ TypeOK /\ IndexInv /\ RefInv /\ WorkInv(t) /\ RootInv(t)
      /\ req[t] \in Requests /\ req' = req
  BY DEF ToolInv, HandlerInv, handler_vars
<1>k. Kept(Offered(t))
  BY <1>0, StepKept
<1>m. M \subseteq Ids /\ \A i \in M : nodes'[i] # None
  BY <1>0, <1>k DEF UpsertInv, Requests, Kept
<1>s. pc[t] # "idle" /\ req[t].stage \in {"store", "replace"}
  <2>1. GoesOn(t) \/ EndsCall(t) \/ Reports(t)
    BY <1>0, StoreMoves
  <2>2. pc[t] # "idle"
    BY <2>1 DEF GoesOn, EndsCall, Reports, Reporting, InsertSteps, CascadeSteps
  <2> QED BY <1>0, <2>2 DEF WorkInv
<1>n. /\ n \in Upserts[t] /\ n \in Nodes /\ n.id \in Ids /\ \A i, j \in M : i = j
      /\ n.deps \subseteq Ids
  <2>1. n \in Upserts[t] /\ \A i, j \in M : i = j
    BY <1>s DEF UpsertInv
  <2>2. Upserts[t] \subseteq Nodes
    BY OfferedNodes, HandlerAssumption DEF HandlerAssumption
  <2> QED BY <2>1, <2>2, NodeFacts
<1>1. CASE InsertStep(t)
  <2>1. /\ pc[t] \in InsertSteps /\ req[t].stage = "store" /\ ins[t].load = {n}
        /\ \A i \in Ids : IsRetracted(i)' => IsRetracted(i)
    BY <1>0, <1>1, InsertsActivate DEF WorkInv, UpsertInv
  <2>2. CASE pc'[t] # "idle"
    <3>1. pc'[t] \in InsertSteps /\ ins'[t].load = {n}
      <4>1. GoesOn(t)
        BY <1>0, <2>2, StoreMoves DEF EndsCall, Reports
      <4> QED BY <2>1, <4>1 DEF GoesOn, InsertSteps, CascadeSteps
    <3>2. n.id \notin M /\ ~IsRetracted(n.id)
      <4>1. CASE pc[t] = "check"
        <5>1. nodes[n.id] = None
          BY <1>0, <1>1, <2>1, <2>2, <4>1, InsertsActivate DEF Duplicates
        <5> QED BY <5>1 DEF UpsertInv, IsRetracted
      <4>2. CASE pc[t] # "check"
        BY <2>1, <4>2 DEF UpsertInv
      <4> QED BY <4>1, <4>2
    <3> QED BY <1>0, <1>m, <1>n, <2>1, <3>1, <3>2
            DEF UpsertInv, Returned, AtStage, InsertSteps, CascadeSteps
  <2>3. CASE pc'[t] = "idle"
    <3>1. ASSUME ret'[t].result = "Ok"
          PROVE  n.id \notin M /\ Holds(n)' /\ ~IsRetracted(n.id)'
      <4>1. pc[t] = "next" /\ nodes' = nodes
        BY <1>0, <1>1, <2>3, <3>1, InsertsActivate
      <4>2. Holds(n)
        BY <1>0, <2>1, <4>1 DEF RefInv, FreshInv, Written
      <4>3. n.id \notin M /\ ~IsRetracted(n.id)
        BY <4>1 DEF UpsertInv, InsertSteps
      <4> QED BY <1>0, <4>1, <4>2, <4>3 DEF Holds, IsRetracted
    <3> QED BY <1>0, <1>m, <1>n, <2>1, <2>3, <3>1
            DEF UpsertInv, Returned, AtStage, InsertSteps, CascadeSteps
  <2> QED BY <2>2, <2>3
<1>2. CASE RetractStep(t)
  <2>1. CutsEntry(t) \/ Enters(t) \/ Marks(t) \/ Counts(t) \/ Walks(t)
        \/ Cuts(t) \/ Descends(t) \/ Reports(t) \/ Misses(t)
    BY <1>0, <1>2, CascadeMoves
  <2>2. pc[t] \in CascadeSteps
    BY <2>1 DEF CutsEntry, Enters, Marks, Counts, Walks, Cuts, Descends, Reports, Reporting,
       Misses, CascadeSteps
  <2>3. /\ req[t].stage = "replace" /\ cas[t].limit > 0
        /\ n.id \notin M /\ Holds(n) /\ (IsRetracted(n.id) => Undercut(n))
        /\ cas[t].root \in M /\ (pc[t] \in {"enter", "mark"} /\ cas[t].id = n.id => Undercut(n))
    BY <1>0, <1>s, <2>2 DEF WorkInv, UpsertInv
  <2>u. Undercut(n) => Undercut(n)'
    BY <1>0, <1>k, <1>n DEF Undercut, Kept, handler_vars
  <2>4. Holds(n)' /\ (IsRetracted(n.id)' => Undercut(n)')
    <3>1. Holds(n)'
      BY <1>0, <1>k, <1>n, <2>3, HoldsKept DEF Holds
    <3>2. nodes'[n.id] = nodes[n.id] \/ Undercut(n)
      <4>1. CASE Marks(t)
        BY <1>0, <1>n, <2>3, <4>1 DEF Marks, MarkRetracted, TypeOK
      <4>2. CASE ~Marks(t)
        BY <2>1, <4>2 DEF CutsEntry, Enters, Counts, Walks, Cuts, Descends, Reports, Misses
      <4> QED BY <4>1, <4>2
    <3> QED BY <1>0, <2>3, <2>u, <3>1, <3>2 DEF IsRetracted
  <2>5. CASE pc'[t] # "idle"
    <3>1. pc'[t] \in CascadeSteps /\ cas'[t].root = cas[t].root
      BY <2>1, <2>5 DEF CutsEntry, Enters, Marks, Counts, Walks, Cuts, Descends, Reports, Misses,
         CascadeSteps, SameReach, SameRoot
    <3>2. pc'[t] \in {"enter", "mark"} /\ cas'[t].id = n.id => Undercut(n)'
      <4>1. CASE Descends(t)
        BY <1>0, <1>2, <1>n, <2>3, <2>u, <4>1, DescendsToUndercut
      <4>2. CASE ~Descends(t)
        BY <2>1, <2>3, <2>u, <4>2 DEF CutsEntry, Enters, Marks, Counts, Walks, Cuts, Reports, Misses
      <4> QED BY <4>1, <4>2
    <3> QED BY <1>0, <1>m, <1>n, <2>3, <2>4, <3>1, <3>2
            DEF UpsertInv, Returned, AtStage, InsertSteps, CascadeSteps
  <2>6. CASE pc'[t] = "idle"
    <3>1. ASSUME ret'[t].result = "Ok" PROVE \A i \in M : IsRetracted(i)'
      <4>1. Reports(t)
        BY <2>1, <2>6, <3>1 DEF CutsEntry, Enters, Marks, Counts, Walks, Cuts, Descends, Misses
      <4>2. IsRetracted(cas[t].root) /\ nodes' = nodes
        BY <1>0, <2>2, <2>3, <4>1 DEF RootInv, Reports, Reporting
      <4> QED BY <1>n, <2>3, <4>2 DEF IsRetracted
    <3> QED BY <1>0, <1>m, <1>n, <2>3, <2>4, <2>6, <3>1
            DEF UpsertInv, Returned, AtStage, InsertSteps, CascadeSteps
  <2> QED BY <2>5, <2>6
<1>3. CASE StorageFails(t)
  <2>1. pc'[t] = "idle" /\ ret'[t].result = "Storage" /\ nodes' = nodes
    BY <1>0, <1>3 DEF StorageFails, Fail, Reply, NoReply, TypeOK, Goto, store_vars
  <2> QED BY <1>0, <1>m, <1>n, <2>1
          DEF UpsertInv, Returned, AtStage, InsertSteps, CascadeSteps, Holds, Undercut, IsRetracted
<1> QED BY <1>1, <1>2, <1>3 DEF StoreStep

LEMMA UpsertKept ==
  ASSUME OneClient, IsFiniteSet(Ids), ToolInv, NEW t \in Threads, UpsertInv(t),
         Request(t) \/ RequestStep(t)
  PROVE  UpsertInv(t)'
<1>0. /\ HandlerInv /\ TypeOK /\ WorkInv(t) /\ RequestReady(t)
      /\ req \in [Threads -> Requests] /\ req[t] \in Requests
      /\ DefaultLimit > 0
  BY HandlerAssumption DEF ToolInv, HandlerInv, HandlerAssumption
<1> DEFINE n == req[t].node
           M == req[t].matching
<1>i. ASSUME UNCHANGED vars
      PROVE  nodes' = nodes /\ pc' = pc /\ ins' = ins /\ cas' = cas /\ ret' = ret
  BY <1>i DEF vars, store_vars, local_vars
<1>1. CASE Starts(t)
  <2>1. CASE ToolUpsert(t) /\ Turns(t, "upsert", "scan") /\ UNCHANGED vars
    <3>1. PICK m \in Upserts[t], want \in Wants :
            Begin(t, [NoRequest EXCEPT !.tool = "upsert", !.stage = "scan", !.node = m, !.want = want])
      BY <2>1, Zenon DEF ToolUpsert
    <3> DEFINE r == [NoRequest EXCEPT !.tool = "upsert", !.stage = "scan", !.node = m, !.want = want]
    <3>2. r.node = m /\ r.matching = {} /\ r.stage = "scan"
      BY DEF NoRequest
    <3>3. req'[t] = r
      BY <1>0, <3>1 DEF Begin
    <3> HIDE DEF r
    <3>4. pc'[t] = "idle"
      BY <1>i, <2>1 DEF ToolUpsert
    <3> QED BY <3>2, <3>3, <3>4 DEF UpsertInv, Returned, AtStage, InsertSteps
  <2>2. CASE req'[t].tool # "upsert"
    BY <2>2 DEF UpsertInv
  <2> QED BY <1>1, <2>1, <2>2 DEF Starts, Turns
<1>2. CASE Finishes(t)
  BY <1>2 DEF Finishes, NoRequest, UpsertInv
<1>3. CASE Continues(t)
  <2>1. CASE UpsertScan(t) /\ Turns(t, "upsert", "read") /\ UNCHANGED vars
    <3>1. req'[t].node = n /\ req'[t].matching = M
      BY <1>0, <2>1 DEF UpsertScan, Requests
    <3>2. pc[t] = "idle" /\ req[t].tool = "upsert" /\ n \in Upserts[t]
      BY <1>0, <2>1 DEF UpsertScan, AtStage, WorkInv, RequestReady
    <3> QED BY <1>i, <2>1, <3>1, <3>2 DEF UpsertInv, Turns, Returned, AtStage, InsertSteps
  <2>2. CASE UpsertRead(t) /\ Turns(t, "upsert", "read") /\ UNCHANGED vars
    <3>1. /\ req'[t].node = n
          /\ \A i \in req'[t].matching : i \in M \/ nodes[i] # None
      <4>1. PICK i \in req[t].ids :
              \/ /\ Matches(t, i)
                 /\ req' = [req EXCEPT ![t].ids = Rest(@, i), ![t].matching = @ \cup {i}]
              \/ req' = [req EXCEPT ![t].ids = Rest(@, i)]
        BY <2>2, Zenon DEF UpsertRead
      <4>2. req'[t].node = n /\ req'[t].matching \subseteq M \cup {i}
        BY <1>0, <4>1 DEF Requests
      <4>3. Matches(t, i) \/ req'[t].matching = M
        BY <1>0, <4>1 DEF Requests
      <4> QED BY <4>2, <4>3 DEF Matches
    <3>2. pc[t] = "idle" /\ req[t].tool = "upsert" /\ n \in Upserts[t]
      BY <1>0, <2>2 DEF UpsertRead, AtStage, WorkInv, RequestReady
    <3> QED BY <1>i, <2>2, <3>1, <3>2 DEF UpsertInv, Turns, Returned, AtStage, InsertSteps
  <2>3. CASE UpsertAmbiguous(t) /\ Turns(t, "upsert", "push") /\ UNCHANGED vars
    <3>1. SameSubject(t) /\ pc[t] = "idle" /\ req[t].tool = "upsert"
      BY <1>0, <2>3, Proceeds DEF UpsertAmbiguous, Enqueue, AtStage, WorkInv
    <3> QED BY <1>i, <2>3, <3>1 DEF UpsertInv, Turns, SameSubject, Returned, AtStage, InsertSteps
  <2>4. CASE UpsertInsert(t) /\ Turns(t, "upsert", "store") /\ Calls(t, "check")
    <3>1. SameSubject(t) /\ req[t].tool = "upsert" /\ n \in Upserts[t]
      BY <1>0, <2>4, Proceeds DEF UpsertInsert, AtStage, RequestReady
    <3>2. ins'[t].load = {n}
      BY <1>0, <2>4, Called DEF UpsertInsert
    <3>3. \A i, j \in M : i = j
      <4>1. M \subseteq Ids /\ ~(Cardinality(M) > 1)
        BY <1>0, <2>4 DEF UpsertInsert, Ambiguous, Requests
      <4>2. IsFiniteSet(M)
        BY <4>1, FS_Subset
      <4>3. ASSUME NEW i \in M, NEW j \in M, i # j PROVE FALSE
        <5>1. Cardinality({i, j}) = 2
          <6>1. Cardinality({i}) = 1 /\ IsFiniteSet({i})
            BY FS_Singleton
          <6>2. {i, j} = {i} \cup {j}
            OBVIOUS
          <6>3. Cardinality({i} \cup {j}) = Cardinality({i}) + 1
            BY <4>3, <6>1, FS_AddElement
          <6> QED BY <6>1, <6>2, <6>3
        <5>2. Cardinality({i, j}) <= Cardinality(M)
          BY <4>2, FS_Subset
        <5> QED BY <4>1, <4>2, <5>1, <5>2, FS_CardinalityType
      <4> QED BY <4>3
    <3> QED BY <2>4, <3>1, <3>2, <3>3
            DEF UpsertInv, Turns, Calls, SameSubject, Returned, AtStage, InsertSteps, CascadeSteps
  <2>5. CASE UpsertReplace(t) /\ Turns(t, "upsert", "replace") /\ Calls(t, "enter")
    <3>1. /\ SameSubject(t) /\ req[t].tool = "upsert"
          /\ Returned(t, {"upsert"}, "store") /\ ret[t].result = "Ok"
      BY <1>0, <2>5, Proceeds DEF UpsertReplace, Returned, AtStage
    <3>2. PICK old \in M : cas'[t].root = old /\ cas'[t].id = old
      BY <1>0, <2>5, Called DEF UpsertReplace, Superseded
    <3>3. /\ n.id \notin M /\ Holds(n) /\ (IsRetracted(n.id) => Undercut(n)) /\ n \in Upserts[t]
          /\ \A i, j \in M : i = j
      BY <3>1 DEF UpsertInv, Returned, AtStage
    <3> QED BY <2>5, <3>1, <3>2, <3>3
            DEF UpsertInv, Turns, Calls, SameSubject, Returned, AtStage, InsertSteps, CascadeSteps,
                Holds, Undercut, IsRetracted
  <2>6. CASE req'[t].tool # "upsert"
    BY <2>6 DEF UpsertInv
  <2> QED BY <1>3, <2>1, <2>2, <2>3, <2>4, <2>5, <2>6 DEF Continues, Turns
<1>4. CASE StoreStep(t) /\ UNCHANGED queue_vars /\ UNCHANGED handler_vars
  BY <1>0, <1>4, UpsertGoesOn
<1> QED BY <1>0, <1>1, <1>2, <1>3, <1>4, StepTable

\* With one client, an upsert that answers "updated" has retracted the old
\* version and stored the new one, which is active unless it is Derived from a
\* retracted node -- on both backends, for any limits.
THEOREM UpdatedAlwaysHolds ==
  ASSUME OneClient, IsFiniteSet(Ids)
  PROVE  HandlerSpec => []UpdatedHolds
<1> DEFINE Upserting == \A t \in Threads : UpsertInv(t)
<1>1. HandlerInit => Upserting
  BY DEF HandlerInit, NoRequest, UpsertInv
<1>2. ToolInv /\ Upserting /\ [HandlerNext]_all_vars => Upserting'
  <2> SUFFICES ASSUME ToolInv, Upserting, [HandlerNext]_all_vars, NEW t \in Threads
               PROVE  UpsertInv(t)'
    OBVIOUS
  <2>1. CASE UNCHANGED all_vars
    BY <2>1 DEF all_vars, vars, store_vars, local_vars, handler_vars, UpsertInv, Returned, AtStage,
                Holds, Undercut, IsRetracted
  <2>2. ASSUME NEW u \in Threads, Request(u) \/ RequestStep(u) PROVE UpsertInv(t)'
    <3>1. u = t
      BY DEF OneClient
    <3> QED BY <2>2, <3>1, UpsertKept
  <2> QED BY <2>1, <2>2 DEF HandlerNext, HandlerFinished
<1>3. Upserting => UpdatedHolds
  <2> SUFFICES ASSUME Upserting, NEW t \in Threads,
                      Returned(t, {"upsert"}, "replace"), ret[t].result = "Ok"
               PROVE  LET n == req[t].node IN
                      /\ nodes[n.id] # None /\ nodes[n.id].node = n
                      /\ Is(n.id, "Retracted") =>
                           n.derived /\ \E d \in n.deps : Is(d, "Retracted")
                      /\ \A old \in req[t].matching : Is(old, "Retracted")
    BY DEF UpdatedHolds
  <2>1. /\ Holds(req[t].node) /\ (IsRetracted(req[t].node.id) => Undercut(req[t].node))
        /\ \A old \in req[t].matching : IsRetracted(old)
    BY DEF UpsertInv, Returned, AtStage
  <2> QED BY <2>1 DEF Is, IsRetracted, Undercut, Holds
<1>4. ToolInv /\ [HandlerNext]_all_vars => ToolInv'
  BY ToolStep, OneClientNoRace
<1> QED BY <1>1, <1>2, <1>3, <1>4, InitTools, PTL DEF HandlerSpec

-----------------------------------------------------------------------------
(* Rejections.                                                             *)

\* t's rejection has still to retract i, is at it, or has retracted it or noted
\* that it could not.
Accounted(t, i) ==
  \/ IsRetracted(i)
  \/ i \in req[t].ids \cup req[t].errors
  \/ /\ req[t].stage = "condemn"
     /\ IF pc[t] = "idle" THEN i = ret[t].root /\ ret[t].result # "Ok" ELSE i = cas[t].root

AccountInv(t) ==
  /\ req[t].tool = "reject" => \A i \in req[t].matching : Accounted(t, i)
  /\ answer[t].tool = "reject" =>
       /\ answer[t].ids \subseteq Ids
       /\ \A i \in answer[t].ids : IsRetracted(i) \/ i \in answer[t].errors

LEMMA ToolsKeepNodes ==
  ASSUME ToolInv, NEW t \in Threads, Request(t) \/ RequestStep(t), NEW i \in Ids, IsRetracted(i)
  PROVE  IsRetracted(i)'
<1>1. ClientCall(t) \/ StoreStep(t) \/ UNCHANGED vars
  BY ToolsUseStore DEF ToolInv, HandlerInv
<1>2. CASE ClientCall(t) \/ StoreStep(t)
  BY <1>2, RetractionsLast DEF ToolInv, HandlerInv
<1>3. CASE UNCHANGED vars
  BY <1>3 DEF vars, store_vars, IsRetracted
<1> QED BY <1>1, <1>2, <1>3

\* A retraction ends with its root retracted, or with an error about its root.
LEMMA CascadeEnds ==
  ASSUME TypeOK, NEW t \in Threads, RootInv(t), cas[t].limit > 0, StoreStep(t),
         pc[t] \in CascadeSteps
  PROVE  \/ pc'[t] \in CascadeSteps /\ cas'[t].root = cas[t].root
         \/ /\ pc'[t] = "idle" /\ ret'[t].root = cas[t].root
            /\ ret'[t].result # "Ok" \/ IsRetracted(ret[t].root)'
<1> USE DEF CascadeSteps
<1>0. cas[t].root # None /\ ret \in [Threads -> Replies] /\ pc \in [Threads -> Steps]
  BY NoneAssumption DEF RootInv, NoneAssumption, TypeOK
<1>1. ASSUME NEW error, Fail(t, error), error # "Ok"
      PROVE  pc'[t] = "idle" /\ ret'[t].root = cas[t].root /\ ret'[t].result # "Ok"
  BY <1>0, <1>1 DEF Fail, Reply, Goto, NoReply
<1>2. CASE StorageFails(t) \/ EnterMissing(t)
  BY <1>1, <1>2 DEF StorageFails, EnterMissing
<1>3. CASE RetractStep(t) /\ ~EnterMissing(t)
  <2>1. CutsEntry(t) \/ Enters(t) \/ Marks(t) \/ Counts(t) \/ Walks(t)
        \/ Cuts(t) \/ Descends(t) \/ Reports(t) \/ Misses(t)
    BY <1>3, CascadeMoves
  <2>2. CASE Reports(t)
    BY <2>2 DEF Reports, Reporting, RootInv, IsRetracted
  <2>3. CASE Misses(t)
    BY <1>0, <1>3, <2>3 DEF Misses, Goto, RetractStep, EnterAtLimit, EnterRetracted, EnterActive,
       MarkRetracted, LogRetract, FanOut, SkipDependent, Truncate, Recurse, ReturnFromFrame,
       NotifyRetract, Looping
  <2> QED BY <2>1, <2>2, <2>3 DEF CutsEntry, Enters, Marks, Counts, Walks, Cuts, Descends,
          SameReach, SameRoot
<1>4. ~InsertStep(t)
  BY InsertsActivate DEF InsertSteps
<1> QED BY <1>2, <1>3, <1>4 DEF StoreStep

LEMMA AccountKept ==
  ASSUME ToolInv, NEW t \in Threads, AnswersTyped, AccountInv(t), Request(t) \/ RequestStep(t)
  PROVE  AccountInv(t)'
<1>0. /\ HandlerInv /\ TypeOK /\ WorkInv(t) /\ RootInv(t)
      /\ req \in [Threads -> Requests] /\ req[t] \in Requests
      /\ req[t].matching \subseteq Ids /\ DefaultLimit > 0
  BY HandlerAssumption DEF ToolInv, HandlerInv, Requests, HandlerAssumption
<1>k. \A i \in Ids : IsRetracted(i) => IsRetracted(i)'
  BY ToolsKeepNodes
<1>i. ASSUME UNCHANGED vars PROVE pc' = pc /\ ret' = ret /\ cas' = cas
  BY <1>i DEF vars, local_vars
<1>a. CASE RejectAnswered(t)
  <2>1. /\ req[t].tool = "reject" /\ req[t].stage = "reject" /\ req[t].ids = {}
        /\ req'[t] = NoRequest
    BY <1>0, <1>a DEF RejectAnswered, AtStage, Answer
  <2>2. answer'[t].ids = req[t].matching /\ answer'[t].errors = req[t].errors
    BY <1>a, AnswerMoves DEF Answering
  <2>3. \A i \in req[t].matching : IsRetracted(i) \/ i \in req[t].errors
    BY <2>1 DEF AccountInv, Accounted
  <2> QED BY <1>0, <1>k, <2>1, <2>2, <2>3 DEF AccountInv, NoRequest
<1>b. CASE ~RejectAnswered(t)
  <2>1. answer'[t].tool = "reject" => answer' = answer
    <3>1. CASE Answering(t)
      <4>1. req[t].tool # "reject"
        BY <1>b, <3>1 DEF Answering, InsertAnswered, RetractAnswered, UpsertInserted,
           UpsertReplaced, AssertAnswered, AssertCompare, PushThenAnswer, Returned, AtStage
      <4> QED BY <3>1, <4>1, AnswerMoves
    <3> QED BY <3>1, AnswerMoves
  <2>2. ASSUME req'[t].tool = "reject", NEW i \in req'[t].matching PROVE Accounted(t, i)'
    <3>1. CASE Starts(t)
      <4>1. PICK ids, about : Begin(t, [NoRequest EXCEPT !.tool = "reject", !.stage = "reject",
                                                         !.ids = ids, !.matching = about])
                              /\ ids = about
        <5>1. ToolReject(t)
          BY <2>2, <3>1 DEF Starts, Turns
        <5> QED BY <5>1, Zenon DEF ToolReject, Condemned
      <4> DEFINE r == [NoRequest EXCEPT !.tool = "reject", !.stage = "reject", !.ids = ids,
                                        !.matching = about]
      <4>2. r.ids = r.matching
        BY <4>1 DEF NoRequest
      <4>3. req'[t] = r
        BY <1>0, <4>1 DEF Begin
      <4> HIDE DEF r
      <4> QED BY <2>2, <4>2, <4>3 DEF Accounted
    <3>2. CASE Finishes(t)
      BY <2>2, <3>2 DEF Finishes, NoRequest
    <3>3. CASE RejectNext(t)
      <4>1. PICK j \in req[t].ids :
              /\ StartRetract(t, j, DefaultLimit)
              /\ req' = [req EXCEPT ![t].ids = req[t].ids \ {j}, ![t].stage = "condemn"]
        BY <3>3 DEF RejectNext, Rest
      <4>2. /\ req'[t].ids = req[t].ids \ {j} /\ req'[t].stage = "condemn"
            /\ req'[t].matching = req[t].matching /\ req'[t].errors = req[t].errors
        BY <1>0, <4>1 DEF Requests
      <4>3. cas'[t].root = j /\ pc'[t] = "enter"
        BY <1>0, <4>1, Called DEF Calls
      <4>4. Accounted(t, i) /\ req[t].stage = "reject" /\ i \in Ids
        BY <1>0, <2>2, <3>3, <4>2 DEF RejectNext, AtStage, AccountInv
      <4> QED BY <1>k, <4>2, <4>3, <4>4 DEF Accounted
    <3>4. CASE RejectReturned(t)
      <4>1. /\ req'[t].ids = req[t].ids /\ req'[t].errors = req[t].errors \cup Errors(t)
            /\ req'[t].matching = req[t].matching
        BY <1>0, <3>4 DEF RejectReturned, Requests
      <4>2. Accounted(t, i) /\ pc[t] = "idle" /\ i \in Ids
        BY <1>0, <2>2, <3>4, <4>1 DEF RejectReturned, Returned, AtStage, AccountInv
      <4> QED BY <1>k, <4>1, <4>2 DEF Accounted, Errors
    <3>5. CASE StoreStep(t) /\ UNCHANGED queue_vars /\ UNCHANGED handler_vars
      <4>1. req' = req /\ Accounted(t, i) /\ i \in Ids
        BY <1>0, <2>2, <3>5 DEF handler_vars, AccountInv
      <4>2. CASE req[t].stage = "condemn" /\ pc[t] \in CascadeSteps
        <5>1. cas[t].limit > 0
          BY <1>0, <4>2 DEF WorkInv
        <5> QED BY <1>0, <1>k, <3>5, <4>1, <4>2, <5>1, CascadeEnds DEF Accounted, CascadeSteps
      <4>3. CASE ~(req[t].stage = "condemn" /\ pc[t] \in CascadeSteps)
        <5>1. GoesOn(t) \/ EndsCall(t) \/ Reports(t)
          BY <1>0, <3>5, StoreMoves
        <5>2. req[t].stage # "condemn"
          BY <1>0, <4>3, <5>1 DEF GoesOn, EndsCall, Reports, Reporting, WorkInv, InsertSteps,
             CascadeSteps
        <5> QED BY <1>k, <4>1, <5>2 DEF Accounted
      <4> QED BY <4>2, <4>3
    <3>6. CASE Continues(t) /\ ~RejectNext(t) /\ ~RejectReturned(t)
      BY <2>2, <3>6 DEF Continues, Turns
    <3> QED BY <1>0, <3>1, <3>2, <3>3, <3>4, <3>5, <3>6, StepTable
  <2> QED BY <1>k, <2>1, <2>2 DEF AccountInv
<1> QED BY <1>a, <1>b

LEMMA OthersAccount ==
  ASSUME ToolInv, NEW t \in Threads, AnswersTyped, AccountInv(t), NEW u \in Threads, u # t,
         Request(u) \/ RequestStep(u)
  PROVE  AccountInv(t)'
<1>1. HandlerInv /\ req[t].matching \subseteq Ids
  BY DEF ToolInv, HandlerInv, Requests
<1>2. /\ req'[t] = req[t] /\ pc'[t] = pc[t] /\ cas'[t] = cas[t] /\ ret'[t] = ret[t]
      /\ answer'[t] = answer[t]
  BY <1>1, OtherRequests, AnswerMoves
<1>3. \A i \in Ids : IsRetracted(i) => IsRetracted(i)'
  BY ToolsKeepNodes
<1> QED BY <1>1, <1>2, <1>3 DEF AccountInv, Accounted

\* When a rejection is answered, every node its event is about is retracted or
\* among the errors of the answer, and remains so: for any event, any clients
\* and both backends, while no two inserts of one id are under way at once.
THEOREM RejectAlwaysAccounts == HandlerSpec /\ []NoDuplicateRace => []RejectAccounts
<1> DEFINE Accounts == AnswersTyped /\ \A t \in Threads : AccountInv(t)
<1>1. HandlerInit => Accounts
  BY DEF HandlerInit, NoRequest, NoAnswer, AnswersTyped, AccountInv
<1>2. ToolInv /\ Accounts /\ [HandlerNext]_all_vars => Accounts'
  <2> SUFFICES ASSUME ToolInv, Accounts, [HandlerNext]_all_vars PROVE Accounts'
    OBVIOUS
  <2>1. CASE UNCHANGED all_vars
    BY <2>1 DEF all_vars, vars, store_vars, local_vars, handler_vars, AnswersTyped, AccountInv,
                Accounted, IsRetracted
  <2>2. ASSUME NEW u \in Threads, Request(u) \/ RequestStep(u) PROVE Accounts'
    BY <2>2, AccountKept, OthersAccount, AnswerMoves
  <2> QED BY <2>1, <2>2 DEF HandlerNext, HandlerFinished
<1>3. Accounts => RejectAccounts
  BY DEF AccountInv, RejectAccounts, Is, IsRetracted
<1>4. NoDuplicateRace /\ ToolInv /\ [HandlerNext]_all_vars => ToolInv'
  BY ToolStep
<1> QED BY <1>1, <1>2, <1>3, <1>4, InitTools, PTL DEF HandlerSpec

-----------------------------------------------------------------------------
(* The versions of one fact.                                               *)

Wanted(n, want) == want.keys \cup {want.entity} \subseteq n.keys
Single(S) == \A i, j \in S : i = j

\* Upserts are the only calls that write what they look for.
OnlyUpserts(want) ==
  \A t \in Threads : \A n \in Inserts[t] \cup Asserts[t] \cup UNION Batches[t] : ~Wanted(n, want)

Replacing(t) == AtStage(t, {"upsert"}, "store") \/ AtStage(t, {"upsert"}, "replace")

\* The current versions, as t's upsert follows them from the look-up over the
\* insertion of its own node to the retraction of the one it matched.
CurrentInv(t, want) ==
  LET C == Current(want)
      n == req[t].node
      M == req[t].matching
  IN
  /\ ~Replacing(t) => Single(C)
  /\ AtStage(t, {"upsert"}, "scan") \/ AtStage(t, {"upsert"}, "read") => req[t].want = want
  /\ AtStage(t, {"upsert"}, "read") => C \subseteq req[t].ids \cup M
  /\ Replacing(t) => C \subseteq M \cup {n.id}
  /\ AtStage(t, {"upsert"}, "store") =>
       (pc[t] = "check" \/ (pc[t] = "idle" /\ ret[t].result # "Ok") => C \subseteq M)
  /\ Returned(t, {"upsert"}, "replace") => C \subseteq {n.id}
  /\ pc[t] \in InsertSteps /\ req[t].tool # "upsert" => \A m \in ins[t].load : ~Wanted(m, want)

\* A version becomes current when its node is written.
LEMMA CurrentGrows ==
  ASSUME TypeOK, ~Persistent, NEW t \in Threads, ClientCall(t) \/ StoreStep(t), NEW want,
         NEW i \in Current(want)', i \notin Current(want)
  PROVE  PutNode(t) /\ \E m \in ins[t].todo : m.id = i /\ Wanted(m, want)
<1>1. i \in Ids /\ nodes'[i] # nodes[i]
  BY DEF Current, Is
<1>2. CASE MarkRetracted(t) /\ i = cas[t].id /\ nodes'[i] = Retracted(cas[t].node)
  BY <1>2 DEF Current, Is, Retracted
<1>3. CASE PutNode(t) /\ i = ins'[t].node.id /\ nodes'[i] = Active(ins'[t].node)
  <2>1. PICK m \in ins[t].todo :
          /\ nodes' = [nodes EXCEPT ![m.id] = Active(m)]
          /\ ins' = [ins EXCEPT ![t].todo = @ \ {m}, ![t].node = m, ![t].keys = m.keys]
    BY <1>3 DEF PutNode
  <2>2. ins'[t].node = m
    BY <2>1 DEF TypeOK, InsertLocals
  <2>3. Wanted(m, want)
    BY <1>3, <2>2 DEF Current, Active, Wanted
  <2> QED BY <1>3, <2>2, <2>3
<1> QED BY <1>1, <1>2, <1>3, StatusChanges

LEMMA InsertsFail ==
  ASSUME TypeOK, ~Persistent, NEW t \in Threads, StoreStep(t), pc[t] \in InsertSteps
  PROVE  /\ pc'[t] # "check"
         /\ pc'[t] = "idle" /\ ret'[t].result # "Ok" => pc[t] = "check" /\ nodes' = nodes
<1> USE DEF TypeOK, Goto, InsertSteps, store_vars
<1>1. CASE RejectInvalid(t) \/ RejectDuplicate(t)
  BY <1>1 DEF RejectInvalid, RejectDuplicate, Fail, Reply
<1>2. CASE InsertDone(t)
  BY <1>2 DEF InsertDone, Reply
<1>3. CASE Admit(t) \/ LogInsert(t) \/ PutNode(t) \/ PutIndex(t) \/ WriteBatch(t)
  BY <1>3 DEF Admit, LogInsert, PutNode, PutIndex, WriteBatch, IndexEntries
<1>4. CASE NextNode(t) \/ RegisterDep(t) \/ RegisterValidity(t) \/ NotifyInsert(t)
  BY <1>4 DEF NextNode, RegisterDep, RegisterValidity, NotifyInsert
<1>5. CASE RetractStep(t)
  BY <1>5, CascadeMoves DEF CutsEntry, Enters, Marks, Counts, Walks, Cuts, Descends, Reports,
     Reporting, Misses, CascadeSteps
<1>6. CASE StorageFails(t)
  BY <1>6 DEF StorageFails
<1> QED BY <1>1, <1>2, <1>3, <1>4, <1>5, <1>6 DEF StoreStep, InsertStep

\* The store call of a request that goes on.
LEMMA CurrentGoesOn ==
  ASSUME ~Persistent, ToolInv, NEW t \in Threads, UpsertInv(t), NEW want, CurrentInv(t, want),
         DefaultLimit > 0, StoreStep(t), UNCHANGED handler_vars
  PROVE  CurrentInv(t, want)'
<1> DEFINE C == Current(want)
           n == req[t].node
           M == req[t].matching
<1>0. /\ HandlerInv /\ TypeOK /\ IndexInv /\ RefInv /\ WorkInv(t) /\ RootInv(t)
      /\ req' = req /\ M \subseteq Ids
  BY DEF ToolInv, HandlerInv, handler_vars, Requests
<1>1. GoesOn(t) \/ EndsCall(t) \/ Reports(t)
  BY <1>0, StoreMoves
<1>2. pc[t] # "idle" /\ req[t].stage \in {"store", "replace", "condemn"}
  BY <1>0, <1>1 DEF GoesOn, EndsCall, Reports, Reporting, InsertSteps, CascadeSteps, WorkInv
<1>3. ASSUME NEW i \in C' PROVE i \in C \/ (i = n.id /\ pc[t] \in InsertSteps /\ Replacing(t))
  <2> SUFFICES ASSUME i \notin C PROVE i = n.id /\ pc[t] \in InsertSteps /\ Replacing(t)
    OBVIOUS
  <2>1. PICK m \in ins[t].todo : PutNode(t) /\ m.id = i /\ Wanted(m, want)
    BY <1>0, <1>3, CurrentGrows
  <2>2. pc[t] \in InsertSteps /\ m \in ins[t].load
    BY <1>0, <2>1 DEF PutNode, InsertSteps, IndexInv, InsertReady
  <2>3. req[t].tool = "upsert" /\ req[t].stage = "store" /\ m = n
    BY <1>0, <2>1, <2>2 DEF CurrentInv, UpsertInv, WorkInv
  <2> QED BY <2>1, <2>2, <2>3 DEF Replacing, AtStage
<1>4. pc'[t] \in InsertSteps => pc[t] \in InsertSteps /\ ins'[t].load = ins[t].load
  BY <1>1 DEF GoesOn, EndsCall, Reports, InsertSteps, CascadeSteps
<1>5. CASE ~Replacing(t)
  <2>1. C' \subseteq C
    BY <1>3, <1>5
  <2> QED BY <1>0, <1>2, <1>4, <1>5, <2>1
          DEF CurrentInv, Replacing, Returned, AtStage, Single
<1>6. CASE Replacing(t)
  <2>1. C' \subseteq M \cup {n.id}
    BY <1>3, <1>6 DEF CurrentInv
  <2>2. CASE req[t].stage = "store"
    <3>1. pc[t] \in InsertSteps
      <4>1. pc[t] \in InsertSteps \cup CascadeSteps
        BY <1>1 DEF GoesOn, EndsCall, Reports, Reporting, CascadeSteps
      <4> QED BY <1>0, <1>6, <2>2, <4>1 DEF Replacing, AtStage, WorkInv
    <3>2. pc'[t] # "check" /\ (pc'[t] = "idle" /\ ret'[t].result # "Ok" => C' \subseteq M)
      <4>1. pc'[t] = "idle" /\ ret'[t].result # "Ok" => pc[t] = "check" /\ C' = C
        BY <1>0, <3>1, InsertsFail DEF Current, Is
      <4> QED BY <1>0, <1>6, <2>2, <3>1, <4>1, InsertsFail DEF CurrentInv, Replacing, AtStage
    <3> QED BY <1>0, <1>6, <2>1, <2>2, <3>2 DEF CurrentInv, Replacing, Returned, AtStage
  <2>3. CASE req[t].stage = "replace"
    <3>1. pc[t] \notin InsertSteps
      BY <1>0, <2>3 DEF WorkInv
    <3>2. C' \subseteq C
      BY <1>3, <3>1
    <3>3. ASSUME pc'[t] = "idle" PROVE C' \subseteq {n.id}
      <4>1. /\ cas[t].root \in M /\ cas[t].limit > 0 /\ pc[t] \in CascadeSteps
            /\ Single(M) /\ nodes[cas[t].root] # None
        BY <1>0, <1>1, <1>6, <2>3, <3>1, <3>3
           DEF Replacing, AtStage, WorkInv, UpsertInv, GoesOn, EndsCall, Reports, Reporting,
               CascadeSteps, InsertSteps, Single
      <4>2. RetractStep(t)
        BY <3>1, InsertsActivate, <1>0, <4>1 DEF StoreStep, StorageFails
      <4>3. Reports(t) \/ Misses(t)
        BY <1>0, <3>3, <4>2, CascadeMoves DEF CutsEntry, Enters, Marks, Counts, Walks, Cuts,
           Descends
      <4>4. nodes' = nodes /\ IsRetracted(cas[t].root)
        BY <1>0, <4>1, <4>3 DEF RootInv, Reports, Reporting, Misses
      <4>5. cas[t].root \notin C'
        BY <4>4 DEF Current, Is, IsRetracted
      <4> QED BY <2>1, <4>1, <4>5 DEF Single
    <3> QED BY <1>0, <1>2, <1>6, <2>1, <2>3, <3>1, <3>3, <1>4
            DEF CurrentInv, Replacing, Returned, AtStage
  <2> QED BY <1>6, <2>2, <2>3 DEF Replacing, AtStage
<1> QED BY <1>5, <1>6

\* A step of a request that is no step of its store call leaves the versions.
LEMMA SameCurrent ==
  ASSUME NEW t \in Threads, nodes' = nodes, NEW want
  PROVE  Current(want)' = Current(want)
BY DEF Current, Is

LEMMA CurrentKept ==
  ASSUME OneClient, ~Persistent, IsFiniteSet(Ids), NEW want \in Wants, Single(Wants),
         OnlyUpserts(want), ToolInv, NEW t \in Threads, UpsertInv(t), CurrentInv(t, want),
         Request(t) \/ RequestStep(t)
  PROVE  CurrentInv(t, want)'
<1> DEFINE C == Current(want)
           n == req[t].node
           M == req[t].matching
<1>0. /\ HandlerInv /\ TypeOK /\ IndexInv /\ WorkInv(t) /\ RequestReady(t) /\ DefaultLimit > 0
      /\ req \in [Threads -> Requests] /\ req[t] \in Requests
  BY HandlerAssumption DEF ToolInv, HandlerInv, HandlerAssumption
<1>i. ASSUME UNCHANGED vars
      PROVE  nodes' = nodes /\ pc' = pc /\ ins' = ins /\ ret' = ret
  BY <1>i DEF vars, store_vars, local_vars
\* Where no store call that inserts is under way and nothing is looked for.
<1>q. ASSUME nodes' = nodes, Single(C), req'[t].tool # "upsert" \/ req'[t].stage = "push",
             pc'[t] \in InsertSteps => \A m \in ins'[t].load : ~Wanted(m, want)
      PROVE  CurrentInv(t, want)'
  BY <1>q, SameCurrent DEF CurrentInv, Replacing, Returned, AtStage
<1>c. ~Replacing(t) => Single(C)
  BY DEF CurrentInv
<1>1. CASE Starts(t)
  <2>0. Single(C) /\ nodes' = nodes
    BY <1>c, <1>i, <1>1, <1>0 DEF Starts, Calls, Replacing, AtStage
  <2>1. CASE ToolUpsert(t) /\ Turns(t, "upsert", "scan") /\ UNCHANGED vars
    <3>1. PICK m \in Upserts[t], w \in Wants :
            Begin(t, [NoRequest EXCEPT !.tool = "upsert", !.stage = "scan", !.node = m, !.want = w])
      BY <2>1, Zenon DEF ToolUpsert
    <3> DEFINE r == [NoRequest EXCEPT !.tool = "upsert", !.stage = "scan", !.node = m, !.want = w]
    <3>2. r.want = w /\ w = want
      BY DEF NoRequest, Single
    <3>3. req'[t] = r
      BY <1>0, <3>1 DEF Begin
    <3> HIDE DEF r
    <3> QED BY <2>0, <2>1, <3>2, <3>3, SameCurrent
            DEF CurrentInv, Turns, Replacing, Returned, AtStage
  <2>2. CASE Turns(t, "insert", "store") \/ Turns(t, "assert", "store")
    <3>1. \A m \in ins'[t].load : m \in Inserts[t] \cup Asserts[t] \cup UNION Batches[t]
      <4>1. CASE ToolInsert(t)
        BY <1>0, <4>1, Called DEF ToolInsert
      <4>2. CASE ToolInsertBatch(t)
        BY <1>0, <4>2, Called DEF ToolInsertBatch
      <4>3. CASE ToolAssert(t) /\ Calls(t, "check")
        <5>1. PICK m \in Asserts[t] :
                \/ Call(t, "insert", {m})
                \/ UNCHANGED vars
          BY <4>3 DEF ToolAssert
        <5>2. Call(t, "insert", {m})
          BY <1>i, <4>3, <5>1 DEF Calls
        <5> QED BY <1>0, <5>2, Called
      <4> QED BY <1>1, <2>2, <4>1, <4>2, <4>3 DEF Starts, Turns
    <3> QED BY <1>q, <2>0, <2>2, <3>1 DEF Turns, OnlyUpserts
  <2>3. CASE req'[t].tool # "upsert" /\ pc'[t] \notin InsertSteps
    BY <1>q, <2>0, <2>3
  <2>4. \/ Turns(t, "insert", "store") \/ Turns(t, "assert", "store")
        \/ ToolUpsert(t) /\ Turns(t, "upsert", "scan") /\ UNCHANGED vars
        \/ req'[t].tool # "upsert" /\ (pc'[t] = "enter" \/ UNCHANGED vars)
    BY <1>1 DEF Starts, Turns, Calls
  <2>5. UNCHANGED vars => pc'[t] \notin InsertSteps
    BY <1>0, <1>1, <1>i DEF Starts, WorkInv, InsertSteps
  <2> QED BY <2>1, <2>2, <2>3, <2>4, <2>5 DEF InsertSteps
<1>2. CASE Finishes(t)
  <2>0. nodes' = nodes /\ pc' = pc /\ req'[t].tool # "upsert"
    BY <1>2, <1>i DEF Finishes, NoRequest
  <2>1. pc[t] \notin InsertSteps
    BY <1>0, <1>2 DEF Finishes, InsertAnswered, RetractAnswered, UpsertInserted, UpsertReplaced,
       AssertAnswered, AssertCompare, PushThenAnswer, RejectAnswered, Returned, AtStage, WorkInv,
       InsertSteps
  <2>2. Single(C)
    <3>1. CASE UpsertInserted(t)
      <4>1. C \subseteq M \/ C \subseteq {n.id}
        BY <3>1 DEF UpsertInserted, Returned, CurrentInv, Replacing, AtStage
      <4>2. Single(M)
        BY <3>1 DEF UpsertInserted, Returned, AtStage, UpsertInv, Single
      <4> QED BY <4>1, <4>2 DEF Single
    <3>2. CASE UpsertReplaced(t)
      <4>1. C \subseteq {n.id}
        BY <3>2 DEF UpsertReplaced, CurrentInv
      <4> QED BY <4>1 DEF Single
    <3>3. CASE ~Replacing(t)
      BY <1>c, <3>3
    <3> QED BY <1>2, <3>1, <3>2, <3>3 DEF Finishes, InsertAnswered, RetractAnswered,
       AssertAnswered, AssertCompare, PushThenAnswer, RejectAnswered, Returned, AtStage, Replacing
  <2> QED BY <1>q, <2>0, <2>1, <2>2
<1>3. CASE Continues(t)
  <2>1. CASE UpsertScan(t) /\ Turns(t, "upsert", "read") /\ UNCHANGED vars
    <3>1. AtStage(t, {"upsert"}, "scan") /\ pc[t] = "idle" /\ Single(C) /\ req[t].want = want
      BY <1>0, <2>1 DEF UpsertScan, AtStage, WorkInv, CurrentInv, Replacing
    <3>2. req'[t].want = want /\ req'[t].ids = {i \in Ids : <<want.entity, i>> \in index}
      BY <1>0, <2>1, <3>1 DEF UpsertScan, Requests
    <3>3. ASSUME NEW i \in C PROVE <<want.entity, i>> \in index
      <4>1. /\ i \in Ids /\ nodes[i] # None /\ want.entity \in nodes[i].node.keys
            /\ nodes[i].node.id = i
        BY <1>0 DEF Current, Is, IndexInv, StoredById
      <4>2. \A u \in Threads : ~KeyPending(u, nodes[i].node, want.entity)
        BY <3>1 DEF OneClient, KeyPending
      <4> QED BY <1>0, <4>1, <4>2 DEF IndexInv, IndexesComplete, IndexedAs
    <3>4. C \subseteq req'[t].ids
      BY <3>2, <3>3 DEF Current
    <3> QED BY <1>i, <2>1, <3>1, <3>2, <3>4, SameCurrent
            DEF CurrentInv, Turns, Replacing, Returned, AtStage
  <2>2. CASE UpsertRead(t) /\ Turns(t, "upsert", "read") /\ UNCHANGED vars
    <3>1. AtStage(t, {"upsert"}, "read") /\ pc[t] = "idle" /\ Single(C) /\ req[t].want = want
          /\ C \subseteq req[t].ids \cup M
      BY <1>0, <2>2 DEF UpsertRead, AtStage, WorkInv, CurrentInv, Replacing
    <3>2. PICK i \in req[t].ids :
            \/ /\ Matches(t, i)
               /\ req' = [req EXCEPT ![t].ids = Rest(@, i), ![t].matching = @ \cup {i}]
            \/ /\ ~Matches(t, i)
               /\ req' = [req EXCEPT ![t].ids = Rest(@, i)]
      BY <2>2, Zenon DEF UpsertRead
    <3>3. /\ req'[t].want = want /\ req'[t].ids = req[t].ids \ {i}
          /\ \/ req'[t].matching = M \cup {i}
             \/ req'[t].matching = M /\ ~Matches(t, i)
      BY <1>0, <3>1, <3>2 DEF Rest, Requests
    <3>4. ~Matches(t, i) => i \notin C
      BY <3>1 DEF Matches, Current, Is
    <3>5. C \subseteq req'[t].ids \cup req'[t].matching
      BY <3>1, <3>3, <3>4
    <3> QED BY <1>i, <2>2, <3>1, <3>3, <3>5, SameCurrent
            DEF CurrentInv, Turns, Replacing, Returned, AtStage
  <2>3. CASE UpsertInsert(t) /\ Turns(t, "upsert", "store") /\ Calls(t, "check")
    <3>1. SameSubject(t) /\ C \subseteq M
      BY <1>0, <2>3, Proceeds DEF UpsertInsert, CurrentInv
    <3> QED BY <2>3, <3>1, SameCurrent
            DEF CurrentInv, Turns, Calls, SameSubject, Replacing, Returned, AtStage
  <2>4. CASE UpsertReplace(t) /\ Turns(t, "upsert", "replace") /\ Calls(t, "enter")
    <3>1. SameSubject(t) /\ C \subseteq M \cup {n.id}
      BY <1>0, <2>4, Proceeds DEF UpsertReplace, Returned, CurrentInv, Replacing
    <3> QED BY <2>4, <3>1, SameCurrent
            DEF CurrentInv, Turns, Calls, SameSubject, Replacing, Returned, AtStage
  <2>5. CASE PushThenInsert(t) /\ Turns(t, "assert", "store") /\ Calls(t, "check")
    <3>1. n \in Asserts[t] /\ ins'[t].load = {n} /\ Single(C)
      BY <1>0, <1>c, <2>5, Called DEF PushThenInsert, AtStage, RequestReady, Replacing
    <3> QED BY <1>q, <2>5, <3>1 DEF Turns, Calls, OnlyUpserts
  <2>6. CASE \/ /\ UNCHANGED vars
                /\ \/ RetractTruncated(t) /\ Turns(t, "retract", "push")
                   \/ UpsertAmbiguous(t) /\ Turns(t, "upsert", "push")
                   \/ AssertExists(t) /\ Turns(t, "assert", "compare")
             \/ RejectNext(t) /\ Turns(t, "reject", "condemn") /\ Calls(t, "enter")
             \/ RejectReturned(t) /\ Turns(t, "reject", "reject") /\ UNCHANGED vars
    <3>1. Single(C) /\ pc[t] = "idle"
      BY <1>0, <1>c, <2>6 DEF RetractTruncated, UpsertAmbiguous, AssertExists, RejectNext,
         RejectReturned, Returned, AtStage, Replacing, WorkInv
    <3> QED BY <1>i, <1>q, <2>6, <3>1 DEF Turns, Calls, InsertSteps
  <2> QED BY <1>3, <2>1, <2>2, <2>3, <2>4, <2>5, <2>6 DEF Continues
<1>4. CASE StoreStep(t) /\ UNCHANGED queue_vars /\ UNCHANGED handler_vars
  BY <1>0, <1>4, CurrentGoesOn
<1> QED BY <1>0, <1>1, <1>2, <1>3, <1>4, StepTable

\* With one client and in memory, upserts keep at most one current version of
\* the fact they look for, whichever of them are refused or ambiguous and
\* whatever other tools retract -- if only upserts insert versions of it.
THEOREM UpsertsKeepOneCurrent ==
  ASSUME OneClient, ~Persistent, IsFiniteSet(Ids), Single(Wants),
         \A want \in Wants : OnlyUpserts(want)
  PROVE  HandlerSpec => []OneCurrent
<1> DEFINE Upserting == \A t \in Threads : UpsertInv(t)
           Currents == \A t \in Threads : \A want \in Wants : CurrentInv(t, want)
           Unserved == Threads = {} => \A want \in Wants : Current(want) = {}
<1>1. HandlerInit => Upserting /\ Currents /\ Unserved
  <2>1. HandlerInit => Upserting
    BY DEF HandlerInit, NoRequest, UpsertInv
  <2>2. HandlerInit => \A want : Current(want) = {}
    BY DEF HandlerInit, Init, Current, Is
  <2>3. HandlerInit => Currents
    BY <2>2 DEF HandlerInit, Init, NoRequest, CurrentInv, Replacing, Returned, AtStage, InsertSteps,
       Single
  <2> QED BY <2>1, <2>2, <2>3
<1>2. ToolInv /\ Upserting /\ Currents /\ Unserved /\ [HandlerNext]_all_vars =>
        Upserting' /\ Currents' /\ Unserved'
  <2> SUFFICES ASSUME ToolInv, Upserting, Currents, Unserved, [HandlerNext]_all_vars
               PROVE  Upserting' /\ Currents' /\ Unserved'
    OBVIOUS
  <2>1. CASE UNCHANGED all_vars
    <3>1. nodes' = nodes /\ pc' = pc /\ ins' = ins /\ cas' = cas /\ ret' = ret /\ req' = req
      BY <2>1 DEF all_vars, vars, store_vars, local_vars, handler_vars
    <3>2. \A want : Current(want)' = Current(want)
      BY <3>1 DEF Current, Is
    <3>3. Upserting'
      BY <3>1 DEF UpsertInv, Returned, AtStage, Holds, Undercut, IsRetracted
    <3>4. Currents'
      BY <3>1, <3>2 DEF CurrentInv, Replacing, Returned, AtStage
    <3> QED BY <3>2, <3>3, <3>4
  <2>2. ASSUME NEW u \in Threads, Request(u) \/ RequestStep(u)
        PROVE  Upserting' /\ Currents' /\ Unserved'
    <3>1. ASSUME NEW t \in Threads
          PROVE  UpsertInv(t)' /\ \A want \in Wants : CurrentInv(t, want)'
      <4>1. u = t
        BY DEF OneClient
      <4> QED BY <2>2, <4>1, UpsertKept, CurrentKept
    <3> QED BY <3>1
  <2> QED BY <2>1, <2>2 DEF HandlerNext, HandlerFinished
<1>3. Currents /\ Unserved => OneCurrent
  <2> SUFFICES ASSUME Currents, Unserved, AllAnswered, NEW want \in Wants
               PROVE  Cardinality(Current(want)) <= 1
    BY DEF OneCurrent
  <2>1. Single(Current(want))
    BY DEF AllAnswered, CurrentInv, Replacing, AtStage, Single
  <2>2. Current(want) = {} \/ \E i : Current(want) = {i}
    BY <2>1 DEF Single
  <2>3. Cardinality(Current(want)) \in {0, 1}
    BY <2>2, FS_EmptySet, FS_Singleton
  <2> QED BY <2>3
<1>4. ToolInv /\ [HandlerNext]_all_vars => ToolInv'
  BY ToolStep, OneClientNoRace
<1> QED BY <1>1, <1>2, <1>3, <1>4, InitTools, PTL DEF HandlerSpec
=============================================================================
