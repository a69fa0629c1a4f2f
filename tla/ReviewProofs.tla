---------------------------- MODULE ReviewProofs ----------------------------
(***************************************************************************)
(* Proofs about the review queue of module ReviewQueue, for any number of  *)
(* callers, events and any bound.                                          *)
(***************************************************************************)
EXTENDS ReviewQueue, SequenceTheorems, TLAPS

Statuses == {"Pending", "Approved", "Rejected", "AutoResolved"}
Events   == [id: Nat, type: EventTypes, priority: Priorities, nodes: SUBSET NodeIds,
             status: Statuses]
Fresh    == [id: Nat, type: EventTypes, priority: Priorities, nodes: SUBSET NodeIds,
             status: {"Pending"}]

QueueTypes ==
  /\ deque \in Seq(Events) /\ next_id \in Nat \ {0}
  /\ held \in [Callers -> Fresh \cup {None}]
  /\ decisions \in Seq([id: Nat, status: {"Approved", "Rejected"}])

Holds(t, id) == held[t] # None /\ held[t].id = id

\* Every id in the queue or in a caller's hands was given out.
IdsGiven ==
  /\ \A k \in 1..Len(deque) : deque[k].id \in 1..(next_id - 1)
  /\ \A t \in Callers : held[t] # None => held[t].id \in 1..(next_id - 1)

\* Every id given out is in the queue or in a caller's hands ...
NoneLost ==
  \A id \in 1..(next_id - 1) :
    (\E k \in 1..Len(deque) : deque[k].id = id) \/ (\E t \in Callers : Holds(t, id))

\* ... once.
IdsUnique ==
  /\ \A j, k \in 1..Len(deque) : deque[j].id = deque[k].id => j = k
  /\ \A t, u \in Callers : held[t] # None /\ Holds(u, held[t].id) => t = u
  /\ \A k \in 1..Len(deque), t \in Callers : ~Holds(t, deque[k].id)

\* What was approved or rejected is in the queue and never pending again.
DecidedSettled ==
  \A i \in 1..Len(decisions) : \E k \in 1..Len(deque) :
    deque[k].id = decisions[i].id /\ deque[k].status # "Pending"

ReviewInv ==
  QueueTypes /\ IdsGiven /\ NoneLost /\ IdsUnique /\ DecidedSettled /\ DecidedOnce

-----------------------------------------------------------------------------

\* Insertion moves what is at or behind the slot by one and keeps the rest.
LEMMA Insertion ==
  ASSUME NEW S, NEW s \in Seq(S), NEW e \in S, NEW k \in 1..(Len(s) + 1)
  PROVE  /\ InsertAt(s, k, e) \in Seq(S)
         /\ Len(InsertAt(s, k, e)) = Len(s) + 1
         /\ \A j \in 1..(Len(s) + 1) :
              InsertAt(s, k, e)[j] = IF j < k THEN s[j] ELSE IF j = k THEN e ELSE s[j - 1]
<1> DEFINE left  == SubSeq(s, 1, k - 1)
           right == SubSeq(s, k, Len(s))
<1>1. /\ left \in Seq(S) /\ Len(left) = k - 1
      /\ \A j \in 1..(k - 1) : left[j] = s[j]
  BY SubSeqProperties
<1>2. /\ right \in Seq(S) /\ Len(right) = Len(s) - k + 1
      /\ \A j \in 1..(Len(s) - k + 1) : right[j] = s[k + j - 1]
  BY SubSeqProperties
<1>3. InsertAt(s, k, e) = (left \o <<e>>) \o right
  BY DEF InsertAt
<1> DEFINE front == left \o <<e>>
<1>4. /\ front \in Seq(S) /\ Len(front) = k
      /\ \A j \in 1..k : front[j] = IF j < k THEN s[j] ELSE e
  <2> HIDE DEF left
  <2> QED BY <1>1
<1> HIDE DEF front, right
<1>5. InsertAt(s, k, e) \in Seq(S) /\ Len(InsertAt(s, k, e)) = Len(s) + 1
  BY <1>2, <1>3, <1>4 DEF front
<1>6. ASSUME NEW j \in 1..(Len(s) + 1)
      PROVE  InsertAt(s, k, e)[j] = IF j < k THEN s[j] ELSE IF j = k THEN e ELSE s[j - 1]
  <2>1. (front \o right)[j] = IF j <= k THEN front[j] ELSE right[j - k]
    BY <1>2, <1>4
  <2>2. CASE j <= k
    BY <1>3, <1>4, <2>1, <2>2 DEF front
  <2>3. CASE j > k
    <3>1. j - k \in 1..(Len(s) - k + 1) /\ k + (j - k) - 1 = j - 1
      BY <2>3
    <3> QED BY <1>2, <1>3, <2>1, <2>3, <3>1 DEF front
  <2> QED BY <2>2, <2>3
<1> QED BY <1>5, <1>6

\* Every step of a run looks for an event that is there.
LEMMA Found ==
  ASSUME NEW id, Known(id)
  PROVE  Find(id) \in 1..Len(deque) /\ deque[Find(id)].id = id
BY DEF Known, Find

LEMMA InitReviewInv == Init => ReviewInv
BY DEF Init, ReviewInv, QueueTypes, IdsGiven, NoneLost, IdsUnique, DecidedSettled, DecidedOnce, Holds

LEMMA TakeIdKeeps ==
  ASSUME ReviewInv, NEW t \in Callers, NEW case \in Cases, TakeId(t, case)
  PROVE  ReviewInv'
<1> USE DEF ReviewInv
<1>1. NewEvent(next_id, case) \in Fresh /\ NewEvent(next_id, case).id = next_id
  BY CasesAssumption DEF CasesAssumption, CaseType, NewEvent, Fresh, QueueTypes
<1>2. NewEvent(next_id, case) # None
  BY <1>1, CasesAssumption DEF CasesAssumption, Fresh
<1>3. /\ held[t] = None /\ held' = [held EXCEPT ![t] = NewEvent(next_id, case)]
      /\ next_id' = next_id + 1 /\ UNCHANGED <<deque, decisions>>
  BY DEF TakeId, FreshId
<1>4. QueueTypes'
  BY <1>1, <1>3 DEF QueueTypes
<1>5. \A u \in Callers : held'[u] = IF u = t THEN NewEvent(next_id, case) ELSE held[u]
  BY <1>3 DEF QueueTypes
<1>6. IdsGiven'
  BY <1>1, <1>3, <1>5 DEF QueueTypes, IdsGiven
<1>7. NoneLost'
  <2> SUFFICES ASSUME NEW id \in 1..next_id
               PROVE  (\E k \in 1..Len(deque) : deque[k].id = id)
                      \/ (\E u \in Callers : Holds(u, id)')
    <3>1. next_id' - 1 = next_id /\ deque' = deque
      BY <1>3 DEF QueueTypes
    <3> QED BY <3>1 DEF NoneLost
  <2>1. CASE id = next_id
    BY <1>1, <1>2, <1>5, <2>1 DEF Holds
  <2>2. CASE id # next_id
    <3>1. id \in 1..(next_id - 1)
      BY <2>2 DEF QueueTypes
    <3>2. ASSUME NEW u \in Callers, Holds(u, id) PROVE Holds(u, id)'
      BY <1>3, <1>5, <3>2 DEF Holds
    <3> QED BY <3>1, <3>2 DEF NoneLost
  <2> QED BY <2>1, <2>2
<1>8. IdsUnique'
  BY <1>1, <1>3, <1>5 DEF IdsUnique, IdsGiven, Holds, QueueTypes
<1>9. DecidedSettled' /\ DecidedOnce'
  BY <1>3 DEF DecidedSettled, DecidedOnce
<1> QED BY <1>4, <1>6, <1>7, <1>8, <1>9

LEMMA PushEventKeeps ==
  ASSUME ReviewInv, NEW t \in Callers, PushEvent(t)
  PROVE  ReviewInv'
<1> USE DEF ReviewInv
<1> DEFINE e == held[t]
<1>1. e # None /\ e \in Fresh /\ e \in Events
  BY DEF PushEvent, QueueTypes, Fresh, Events, Statuses
<1>2. PICK s \in 1..(Len(deque) + 1) : deque' = InsertAt(deque, s, e)
  BY DEF PushEvent, Slots, Inserted
<1>3. /\ held' = [held EXCEPT ![t] = None] /\ UNCHANGED <<next_id, decisions>>
  BY DEF PushEvent
<1>4. /\ deque' \in Seq(Events) /\ Len(deque') = Len(deque) + 1
      /\ \A j \in 1..(Len(deque) + 1) :
           deque'[j] = IF j < s THEN deque[j] ELSE IF j = s THEN e ELSE deque[j - 1]
  <2>1. deque \in Seq(Events)
    BY DEF QueueTypes
  <2>2. /\ InsertAt(deque, s, e) \in Seq(Events)
        /\ Len(InsertAt(deque, s, e)) = Len(deque) + 1
        /\ \A j \in 1..(Len(deque) + 1) :
             InsertAt(deque, s, e)[j] = IF j < s THEN deque[j] ELSE IF j = s THEN e ELSE deque[j - 1]
    <3> HIDE DEF e
    <3> QED BY <1>1, <2>1, Insertion
  <2> QED BY <1>2, <2>2
<1> DEFINE moved(j) == IF j < s THEN j ELSE j + 1
<1>5. \A j \in 1..Len(deque) : moved(j) \in 1..Len(deque') /\ deque'[moved(j)] = deque[j]
  BY <1>4 DEF QueueTypes
<1>6. \A j \in 1..Len(deque') :
        \/ j = s /\ deque'[j] = e
        \/ \E k \in 1..Len(deque) : j = moved(k) /\ deque'[j] = deque[k]
  <2> SUFFICES ASSUME NEW j \in 1..Len(deque'), j # s
               PROVE  \E k \in 1..Len(deque) : j = moved(k) /\ deque'[j] = deque[k]
    BY <1>4
  <2>1. CASE j < s
    BY <1>4, <2>1 DEF QueueTypes
  <2>2. CASE j > s
    <3>1. j - 1 \in 1..Len(deque) /\ j = moved(j - 1) /\ deque'[j] = deque[j - 1]
      BY <1>4, <2>2 DEF QueueTypes
    <3> QED BY <3>1
  <2> QED BY <2>1, <2>2 DEF QueueTypes
<1>7. s \in 1..Len(deque') /\ deque'[s] = e
  BY <1>4 DEF QueueTypes
<1>8. \A u \in Callers : held'[u] = IF u = t THEN None ELSE held[u]
  BY <1>3 DEF QueueTypes
<1>9. QueueTypes'
  BY <1>3, <1>4 DEF QueueTypes
<1> HIDE DEF moved
<1>10. IdsGiven'
  BY <1>1, <1>3, <1>6, <1>8 DEF IdsGiven
<1>11. NoneLost'
  <2> SUFFICES ASSUME NEW id \in 1..(next_id - 1)
               PROVE  (\E k \in 1..Len(deque') : deque'[k].id = id)
                      \/ (\E u \in Callers : Holds(u, id)')
    BY <1>3 DEF NoneLost
  <2>1. CASE \E k \in 1..Len(deque) : deque[k].id = id
    BY <1>5, <2>1
  <2>2. CASE Holds(t, id)
    BY <1>7, <2>2 DEF Holds
  <2>3. CASE \E u \in Callers \ {t} : Holds(u, id)
    BY <1>8, <2>3 DEF Holds
  <2> QED BY <2>1, <2>2, <2>3 DEF NoneLost
<1>12. IdsUnique'
  <2>1. \A k \in 1..Len(deque) : deque[k].id # e.id
    BY <1>1 DEF IdsUnique, Holds
  <2>2. \A j, k \in 1..Len(deque') : deque'[j].id = deque'[k].id => j = k
    BY <1>6, <2>1 DEF IdsUnique
  <2>3. (\A u, w \in Callers : held[u] # None /\ Holds(w, held[u].id) => u = w)'
    BY <1>8 DEF IdsUnique, Holds
  <2>4. ASSUME NEW k \in 1..Len(deque'), NEW u \in Callers PROVE ~Holds(u, deque[k].id)'
    <3>1. CASE deque'[k] = e
      BY <1>1, <1>8, <3>1 DEF IdsUnique, Holds
    <3>2. CASE \E j \in 1..Len(deque) : deque'[k] = deque[j]
      BY <1>8, <3>2 DEF IdsUnique, Holds
    <3> QED BY <1>6, <3>1, <3>2
  <2> QED BY <2>2, <2>3, <2>4 DEF IdsUnique
<1>13. DecidedSettled' /\ DecidedOnce'
  <2>1. DecidedOnce'
    BY <1>3 DEF DecidedOnce
  <2>2. ASSUME NEW i \in 1..Len(decisions)
        PROVE  \E k \in 1..Len(deque') :
                 deque'[k].id = decisions[i].id /\ deque'[k].status # "Pending"
    <3>1. PICK k \in 1..Len(deque) : deque[k].id = decisions[i].id /\ deque[k].status # "Pending"
      BY DEF DecidedSettled
    <3> QED BY <1>5, <3>1
  <2> QED BY <1>3, <2>1, <2>2 DEF DecidedSettled
<1> QED BY <1>9, <1>10, <1>11, <1>12, <1>13

\* A change of status moves nothing and leaves the ids alone.
LEMMA StatusSet ==
  ASSUME QueueTypes, NEW id, NEW status \in Statuses \ {"Pending"}, Known(id), SetStatus(id, status)
  PROVE  /\ deque' \in Seq(Events) /\ Len(deque') = Len(deque)
         /\ \A k \in 1..Len(deque) : deque'[k].id = deque[k].id
         /\ \A k \in 1..Len(deque) :
              deque'[k].status = IF k = Find(id) THEN status ELSE deque[k].status
<1>1. Find(id) \in 1..Len(deque)
  BY Found
<1> DEFINE f == Find(id)
           e == [deque[f] EXCEPT !.status = status]
<1>2. deque' = [deque EXCEPT ![f] = e]
  BY DEF SetStatus
<1>3. e \in Events /\ e.id = deque[f].id /\ e.status = status
  <2>1. deque[f] \in Events
    BY <1>1 DEF QueueTypes
  <2> QED BY <2>1 DEF Events
<1> HIDE DEF f, e
<1>4. f \in 1..Len(deque)
  BY <1>1 DEF f
<1>5. \A k \in 1..Len(deque) : deque'[k] = IF k = f THEN e ELSE deque[k]
  BY <1>2, <1>4 DEF QueueTypes
<1>6. deque' \in Seq(Events) /\ Len(deque') = Len(deque)
  BY <1>2, <1>3, <1>4 DEF QueueTypes
<1> QED BY <1>3, <1>4, <1>5, <1>6 DEF f

\* So it keeps everything but the history of decisions.
LEMMA StatusKeeps ==
  ASSUME ReviewInv, NEW id, NEW status \in Statuses \ {"Pending"}, Known(id), SetStatus(id, status),
         UNCHANGED <<next_id, held>>
  PROVE  /\ deque' \in Seq(Events) /\ IdsGiven' /\ NoneLost' /\ IdsUnique'
         /\ \A i \in 1..Len(decisions) : \E k \in 1..Len(deque') :
              deque'[k].id = decisions[i].id /\ deque'[k].status # "Pending"
         /\ \E k \in 1..Len(deque') : deque'[k].id = id /\ deque'[k].status # "Pending"
<1>1. QueueTypes /\ IdsGiven /\ NoneLost /\ IdsUnique /\ DecidedSettled
  BY DEF ReviewInv
<1>2. /\ deque' \in Seq(Events) /\ Len(deque') = Len(deque)
      /\ \A k \in 1..Len(deque) : deque'[k].id = deque[k].id
      /\ \A k \in 1..Len(deque) :
           deque'[k].status = IF k = Find(id) THEN status ELSE deque[k].status
  BY <1>1, StatusSet
<1>3. \A k \in 1..Len(deque) : deque[k].status # "Pending" => deque'[k].status # "Pending"
  BY <1>2
<1>4. IdsGiven' /\ NoneLost' /\ IdsUnique'
  <2>1. IdsGiven'
    BY <1>1, <1>2 DEF IdsGiven
  <2>2. NoneLost'
    BY <1>1, <1>2 DEF NoneLost, Holds
  <2>3. IdsUnique'
    BY <1>1, <1>2 DEF IdsUnique, Holds
  <2> QED BY <2>1, <2>2, <2>3
<1>5. \A i \in 1..Len(decisions) : \E k \in 1..Len(deque') :
        deque'[k].id = decisions[i].id /\ deque'[k].status # "Pending"
  <2> TAKE i \in 1..Len(decisions)
  <2>1. PICK k \in 1..Len(deque) : deque[k].id = decisions[i].id /\ deque[k].status # "Pending"
    BY <1>1 DEF DecidedSettled
  <2>2. k \in 1..Len(deque') /\ deque'[k].id = decisions[i].id /\ deque'[k].status # "Pending"
    BY <1>2, <1>3, <2>1
  <2> QED BY <2>2
<1>6. \E k \in 1..Len(deque') : deque'[k].id = id /\ deque'[k].status # "Pending"
  BY <1>2, Found
<1> QED BY <1>2, <1>4, <1>5, <1>6

LEMMA DecideKeeps ==
  ASSUME ReviewInv, NEW id \in Nat, NEW status \in {"Approved", "Rejected"}, Decide(id, status)
  PROVE  ReviewInv'
<1> DEFINE d == [id |-> id, status |-> status]
<1>1. /\ Known(id) /\ deque[Find(id)].status = "Pending" /\ SetStatus(id, status)
      /\ decisions' = Append(decisions, d)
      /\ UNCHANGED <<next_id, held>>
  BY DEF Decide, Decidable
<1>2. /\ deque' \in Seq(Events) /\ IdsGiven' /\ NoneLost' /\ IdsUnique'
      /\ \A i \in 1..Len(decisions) : \E k \in 1..Len(deque') :
           deque'[k].id = decisions[i].id /\ deque'[k].status # "Pending"
      /\ \E k \in 1..Len(deque') : deque'[k].id = id /\ deque'[k].status # "Pending"
  BY <1>1, StatusKeeps DEF Statuses
<1>3. /\ decisions' \in Seq([id: Nat, status: {"Approved", "Rejected"}])
      /\ Len(decisions') = Len(decisions) + 1
      /\ \A i \in 1..Len(decisions') :
           decisions'[i].id = IF i = Len(decisions) + 1 THEN id ELSE decisions[i].id
  BY <1>1 DEF ReviewInv, QueueTypes
<1>4. QueueTypes'
  BY <1>1, <1>2, <1>3 DEF ReviewInv, QueueTypes
<1>5. DecidedSettled'
  <2> SUFFICES ASSUME NEW i \in 1..Len(decisions')
               PROVE  \E k \in 1..Len(deque') :
                        deque'[k].id = decisions'[i].id /\ deque'[k].status # "Pending"
    BY DEF DecidedSettled
  <2>1. CASE i = Len(decisions) + 1
    BY <1>2, <1>3, <2>1
  <2>2. CASE i \in 1..Len(decisions)
    BY <1>2, <1>3, <2>2 DEF ReviewInv, QueueTypes
  <2> QED BY <1>3, <2>1, <2>2 DEF ReviewInv, QueueTypes
\* The event was pending, so it had not been decided.
<1>6. \A i \in 1..Len(decisions) : decisions[i].id # id
  <2> SUFFICES ASSUME NEW i \in 1..Len(decisions), decisions[i].id = id PROVE FALSE
    OBVIOUS
  <2>1. PICK k \in 1..Len(deque) : deque[k].id = id /\ deque[k].status # "Pending"
    BY DEF ReviewInv, DecidedSettled
  <2>2. k = Find(id)
    BY <1>1, <2>1, Found DEF ReviewInv, IdsUnique
  <2> QED BY <1>1, <2>1, <2>2
<1>7. DecidedOnce'
  <2>1. DecidedOnce /\ Len(decisions) \in Nat
    BY DEF ReviewInv, QueueTypes
  <2>2. SUFFICES ASSUME NEW i \in 1..Len(decisions'), NEW j \in 1..Len(decisions'),
                        decisions'[i].id = decisions'[j].id
                 PROVE  i = j
    BY DEF DecidedOnce
  <2>3. \A m \in 1..Len(decisions') : m = Len(decisions) + 1 \/ m \in 1..Len(decisions)
    BY <1>3, <2>1
  <2> HIDE DEF d
  <2> QED BY <1>3, <1>6, <2>1, <2>2, <2>3 DEF DecidedOnce
<1> QED BY <1>2, <1>4, <1>5, <1>7 DEF ReviewInv

LEMMA AutoResolveKeeps ==
  ASSUME ReviewInv, NEW id \in Nat, AutoResolve(id)
  PROVE  ReviewInv'
<1>1. /\ Known(id) /\ SetStatus(id, "AutoResolved") /\ UNCHANGED <<next_id, held, decisions>>
  BY DEF AutoResolve
<1>2. /\ deque' \in Seq(Events) /\ IdsGiven' /\ NoneLost' /\ IdsUnique'
      /\ \A i \in 1..Len(decisions) : \E k \in 1..Len(deque') :
           deque'[k].id = decisions[i].id /\ deque'[k].status # "Pending"
  BY <1>1, StatusKeeps DEF Statuses
<1> QED BY <1>1, <1>2 DEF ReviewInv, QueueTypes, DecidedSettled, DecidedOnce

LEMMA NextReviewInv == ReviewInv /\ [Next]_queue_vars => ReviewInv'
<1> SUFFICES ASSUME ReviewInv, [Next]_queue_vars PROVE ReviewInv'
  OBVIOUS
<1>1. CASE UNCHANGED queue_vars
  BY <1>1 DEF ReviewInv, QueueTypes, IdsGiven, NoneLost, IdsUnique, DecidedSettled, DecidedOnce,
              Holds, queue_vars
<1>2. ASSUME NEW t \in Callers, NEW case \in Cases, TakeId(t, case) PROVE ReviewInv'
  BY <1>2, TakeIdKeeps
<1>3. ASSUME NEW t \in Callers, PushEvent(t) PROVE ReviewInv'
  BY <1>3, PushEventKeeps
<1>4. ASSUME NEW id \in 1..MaxEvents, Approve(id) \/ Reject(id) PROVE ReviewInv'
  BY <1>4, DecideKeeps DEF Approve, Reject
<1>5. ASSUME NEW id \in 1..MaxEvents, AutoResolve(id) PROVE ReviewInv'
  BY <1>5, AutoResolveKeeps
<1> QED BY <1>1, <1>2, <1>3, <1>4, <1>5 DEF Next, Finished

\* The invariant says of the queue what AuditComplete says of places.
LEMMA InvAudits == ReviewInv => AuditComplete
<1> SUFFICES ASSUME ReviewInv, NEW id \in 1..(next_id - 1)
             PROVE  \E place \in Places(id) : Places(id) = {place}
  BY DEF AuditComplete
<1> USE DEF ReviewInv
<1>1. CASE \E k \in 1..Len(deque) : deque[k].id = id
  <2> PICK k \in 1..Len(deque) : deque[k].id = id
    BY <1>1
  <2>1. Places(id) = {k}
    BY DEF IdsUnique, Places, Holds
  <2> QED BY <2>1
<1>2. CASE \E t \in Callers : Holds(t, id)
  <2> PICK t \in Callers : Holds(t, id)
    BY <1>2
  <2>1. Places(id) = {t}
    BY DEF IdsUnique, Places, Holds
  <2> QED BY <2>1
<1> QED BY <1>1, <1>2 DEF NoneLost

LEMMA ReviewInvariant == Spec => []ReviewInv
BY InitReviewInv, NextReviewInv, PTL DEF Spec

\* No event is lost and none shares its id, in any interleaving of enqueues,
\* decisions and automatic resolutions (review.rs:148-184).
THEOREM EventsNeverLost == Spec => []AuditComplete
BY ReviewInvariant, InvAudits, PTL

\* Two reviewers of one event cannot both succeed (review.rs:217-238).
THEOREM EventsDecidedOnce == Spec => []DecidedOnce
<1>1. ReviewInv => DecidedOnce
  BY DEF ReviewInv
<1> QED BY <1>1, ReviewInvariant, PTL

-----------------------------------------------------------------------------
(* The order of a queue in which nothing is resolved.                      *)

Unresolved == \A k \in 1..Len(deque) : deque[k].status = "Pending"
InOrder == \A i, j \in 1..Len(deque) : i < j /\ deque[i].priority = "Normal" => deque[j].priority = "Normal"

\* Before the slot of a High event stand High ones only; the slot of a Normal
\* one is the end.
LEMMA SlotInOrder ==
  ASSUME QueueTypes, Unresolved, NEW priority \in Priorities, NEW s \in Slots(priority)
  PROVE  /\ s \in 1..(Len(deque) + 1)
         /\ priority = "High" => \A j \in 1..(s - 1) : deque[j].priority = "High"
         /\ priority = "Normal" => s = Len(deque) + 1
<1>1. /\ s \in 1..(Len(deque) + 1) /\ Len(deque) \in Nat
      /\ \A j \in 1..(s - 1) : Ahead(deque[j], priority)
      /\ s <= Len(deque) => ~Ahead(deque[s], priority)
  BY DEF Slots, QueueTypes
<1>2. ASSUME priority = "Normal" PROVE s = Len(deque) + 1
  <2>1. CASE s <= Len(deque)
    BY <1>1, <1>2, <2>1 DEF Ahead, Unresolved
  <2> QED BY <1>1, <2>1
<1> QED BY <1>1, <1>2 DEF Ahead

LEMMA PushEventInOrder ==
  ASSUME ReviewInv, HighFirst, NEW t \in Callers, PushEvent(t)
  PROVE  HighFirst'
<1> DEFINE e == held[t]
           n == Len(deque)
<1>1. e \in Events /\ deque \in Seq(Events) /\ n \in Nat
  BY DEF PushEvent, ReviewInv, QueueTypes, Fresh, Events, Statuses
<1>2. PICK s \in Slots(e.priority) : deque' = InsertAt(deque, s, e)
  BY DEF PushEvent, Inserted
<1>3. s \in 1..(n + 1)
  BY <1>2 DEF Slots
<1>4. /\ Len(deque') = n + 1
      /\ \A j \in 1..(n + 1) : deque'[j] = IF j < s THEN deque[j] ELSE IF j = s THEN e ELSE deque[j - 1]
  <2> HIDE DEF e
  <2> QED BY <1>1, <1>2, <1>3, Insertion
<1>5. SUFFICES ASSUME Unresolved' PROVE InOrder'
  BY DEF HighFirst, Unresolved, InOrder
<1>6. Unresolved
  <2> SUFFICES ASSUME NEW k \in 1..n PROVE deque[k].status = "Pending"
    BY DEF Unresolved
  <2>1. CASE k < s
    BY <1>1, <1>4, <1>5, <2>1 DEF Unresolved
  <2>2. CASE k >= s
    <3>1. k + 1 \in 1..(n + 1) /\ k + 1 > s /\ (k + 1) - 1 = k
      BY <1>1, <1>3, <2>2
    <3>2. deque'[k + 1] = deque[k]
      BY <1>3, <1>4, <3>1
    <3>3. deque'[k + 1].status = "Pending"
      BY <1>4, <1>5, <3>1 DEF Unresolved
    <3> QED BY <3>2, <3>3
  <2> QED BY <1>1, <1>3, <2>1, <2>2
<1>7. InOrder
  BY <1>6 DEF HighFirst, Unresolved, InOrder
<1>8. /\ e.priority \in Priorities
      /\ e.priority = "High" => \A j \in 1..(s - 1) : deque[j].priority = "High"
      /\ e.priority = "Normal" => s = n + 1
  <2>1. e.priority \in Priorities
    BY <1>1 DEF Events
  <2> HIDE DEF e
  <2> QED BY <1>2, <1>6, <2>1, SlotInOrder DEF ReviewInv
<1> HIDE DEF e
<1>9. ASSUME NEW i \in 1..(n + 1), NEW j \in 1..(n + 1), i < j, deque'[i].priority = "Normal"
      PROVE  deque'[j].priority = "Normal"
  <2>1. CASE i < s
    <3>1. deque'[i] = deque[i] /\ i \in 1..n
      BY <1>1, <1>3, <1>4, <2>1
    <3>2. i \in 1..(s - 1)
      BY <1>3, <2>1
    <3>3. e.priority = "Normal" /\ s = n + 1
      BY <1>8, <1>9, <3>1, <3>2 DEF Priorities
    <3>4. CASE j < s
      <4>1. j \in 1..n /\ deque'[j] = deque[j]
        BY <1>1, <1>4, <3>3, <3>4
      <4> QED BY <1>7, <1>9, <3>1, <4>1 DEF InOrder
    <3>5. CASE j = s
      BY <1>4, <3>3, <3>5
    <3> QED BY <1>1, <3>3, <3>4, <3>5
  <2>2. CASE i = s
    <3>1. e.priority = "Normal"
      BY <1>4, <1>9, <2>2
    <3> QED BY <1>1, <1>8, <1>9, <2>2, <3>1
  <2>3. CASE i > s
    <3>1. /\ i - 1 \in 1..n /\ deque'[i] = deque[i - 1]
          /\ j - 1 \in 1..n /\ deque'[j] = deque[j - 1]
          /\ i - 1 < j - 1
      BY <1>1, <1>3, <1>4, <1>9, <2>3
    <3> QED BY <1>7, <1>9, <3>1 DEF InOrder
  <2> QED BY <1>1, <1>3, <2>1, <2>2, <2>3
<1> QED BY <1>4, <1>9 DEF InOrder

LEMMA NextInOrder == ReviewInv /\ HighFirst /\ [Next]_queue_vars => HighFirst'
<1> SUFFICES ASSUME ReviewInv, HighFirst, [Next]_queue_vars PROVE HighFirst'
  OBVIOUS
<1>1. CASE UNCHANGED deque
  BY <1>1 DEF HighFirst
<1>2. ASSUME NEW t \in Callers, PushEvent(t) PROVE HighFirst'
  BY <1>2, PushEventInOrder
<1>3. ASSUME NEW id, NEW status \in Statuses \ {"Pending"}, Known(id), SetStatus(id, status)
      PROVE  HighFirst'
  <2>1. Find(id) \in 1..Len(deque') /\ deque'[Find(id)].status # "Pending"
    BY <1>3, StatusSet, Found DEF ReviewInv
  <2> QED BY <2>1 DEF HighFirst
<1>4. ASSUME NEW id, NEW status \in {"Approved", "Rejected"}, Decide(id, status) PROVE HighFirst'
  BY <1>3, <1>4 DEF Decide, Decidable, Statuses
<1>5. ASSUME NEW id, AutoResolve(id) PROVE HighFirst'
  BY <1>3, <1>5 DEF AutoResolve, Statuses
<1> QED BY <1>1, <1>2, <1>4, <1>5 DEF Next, TakeId, Approve, Reject, Finished, queue_vars

\* While nothing is resolved, pending High events precede Normal ones, whichever
\* caller inserts first (review.rs:171-183).
THEOREM QueueInOrder == Spec => []HighFirst
<1>1. Init => HighFirst
  BY DEF Init, HighFirst
<1> QED BY <1>1, NextInOrder, ReviewInvariant, PTL DEF Spec
=============================================================================
