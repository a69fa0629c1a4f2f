---------------------------- MODULE QueryProofs ----------------------------
(***************************************************************************)
(* Theorems about queries: whatever others write meanwhile, a query works  *)
(* on the nodes it should (CandidatesRegular) and answers of them what its *)
(* policy says (AnswersArbitrate).                                         *)
(***************************************************************************)
EXTENDS QueryProperties, SequenceTheorems, FiniteSums

Fact == [node : Nodes, status : Statuses]
Calls == Queries \cup {ToolCall(p) : p \in ToolQueries}

\* The store: what is listed is known, under its own id.
StoreInv ==
  /\ facts \in [Ids -> Fact \cup {None}]
  /\ \A i \in Ids : Known(i) => facts[i].node.id = i
  /\ listed \subseteq {i \in Ids : Known(i)}

TypeInv ==
  /\ pc \in [Clients -> {"idle", "scan", "fetch"}]
  /\ asking \in [Clients -> Nat]
  /\ errors \in [Clients -> Nat]
  /\ got \in [Clients -> Seq(Nodes)]
  /\ todo \in [Clients -> SUBSET (Ids \X Nat)]
  /\ DOMAIN call = Clients
  /\ DOMAIN reply = Clients
  /\ DOMAIN before = Clients
  /\ \A c \in Clients : Asked(c) => call[c] \in Calls

\* Since a call began, nothing it could see then has been forgotten or revived.
HistoryInv(c) ==
  /\ before[c].listed \subseteq listed
  /\ \A i \in Ids : before[c].facts[i] # None =>
       /\ Known(i) /\ facts[i].node = before[c].facts[i].node
       /\ Retracted(i, before[c].facts) => Retracted(i, facts)

GotInv(c) ==
  \A k \in DOMAIN got[c] : LET n == got[c][k] IN
    /\ Known(n.id) /\ facts[n.id].node = n
    /\ ~Retracted(n.id, before[c].facts)

\* What is to be found is found already or still to be resolved.
PendingInv(c) ==
  /\ \A e \in todo[c] : Known(e[1])
  /\ pc[c] # "fetch" => todo[c] = {}
  /\ pc[c] = "scan" => got[c] = <<>> /\ Asked(c)
  /\ pc[c] = "fetch" => Asked(c)
  /\ Asked(c) /\ pc[c] # "scan" /\ errors[c] = 0 =>
       \A i \in before[c].listed : Believed(i) /\ LookedFor(call[c], facts[i].node) =>
         (\E e \in todo[c] : e[1] = i) \/ facts[i].node \in RangeOf(got[c])

\* No index lists a node twice under what the call looks for.
Unrepeated(q) == q.entity # None => \A n \in Nodes : Mentions(n.pred, q.entity) <= 1

\* Such a look-up resolves every id at most once.
OnceInv(c) ==
  Asked(c) /\ Unrepeated(call[c]) =>
    /\ \A e \in todo[c] : e[2] = 1
    /\ \A e \in todo[c] : \A k \in DOMAIN got[c] : got[c][k].id # e[1]
    /\ \A j, k \in DOMAIN got[c] : j # k => got[c][j].id # got[c][k].id

QueryInv ==
  /\ StoreInv /\ TypeInv
  /\ \A c \in Clients : HistoryInv(c) /\ GotInv(c) /\ PendingInv(c) /\ OnceInv(c)

-----------------------------------------------------------------------------
\* What the store's steps do to what a query may know: facts only grow, keep
\* their content, and are never revived (KnowledgeBase's Learn and Withdraw).
LEMMA StoreGrows ==
  ASSUME StoreInv, StoreStep
  PROVE  /\ StoreInv'
         /\ \A i \in Ids : Known(i) =>
              /\ Known(i)' /\ facts'[i].node = facts[i].node
              /\ Retracted(i, facts) => Retracted(i, facts')
              /\ Believed(i)' => Believed(i)
<1> USE QueryAssumption
<1>1. ASSUME NEW S \in Batches, Learn(S)
      PROVE  /\ facts' \in [Ids -> Fact \cup {None}]
             /\ \A i \in Ids : Known(i)' => facts'[i].node.id = i
             /\ \A i \in Ids : Known(i) => facts'[i] = facts[i]
  <2> DEFINE new(i) == CHOOSE n \in S : n.id = i
  <2>1. S \subseteq Nodes
    BY DEF QueryAssumption
  <2>2. ASSUME NEW i \in Ids, \E n \in S : n.id = i
        PROVE  new(i) \in S /\ new(i).id = i
    BY <2>2
  <2>3. \A i \in Ids : facts'[i] = IF \E n \in S : n.id = i
                                   THEN [node |-> new(i), status |-> "Active"] ELSE facts[i]
    BY <1>1 DEF Learn
  <2>4. ASSUME NEW i \in Ids
        PROVE  /\ facts'[i] \in Fact \cup {None}
               /\ facts'[i] # None => facts'[i].node.id = i
               /\ facts[i] # None => facts'[i] = facts[i]
    <3>1. CASE \E n \in S : n.id = i
      <4>1. facts'[i] = [node |-> new(i), status |-> "Active"]
        BY <2>3, <3>1
      <4>2. new(i) \in Nodes /\ new(i).id = i
        BY <2>1, <2>2, <3>1
      <4>3. facts[i] = None
        BY <1>1, <3>1 DEF Learn
      <4> HIDE DEF new
      <4> QED BY <4>1, <4>2, <4>3 DEF Fact, Statuses
    <3>2. CASE ~\E n \in S : n.id = i
      BY <2>3, <3>2 DEF StoreInv, Known
    <3> QED BY <3>1, <3>2
  <2>5. DOMAIN facts' = Ids /\ facts' = [i \in Ids |-> facts'[i]]
    BY <1>1 DEF Learn
  <2> QED BY <2>4, <2>5 DEF Known
<1>2. ASSUME NEW w \in Ids, Withdraw(w)
      PROVE  /\ facts' \in [Ids -> Fact \cup {None}]
             /\ \A i \in Ids : Known(i) <=> Known(i)'
             /\ \A i \in Ids : Known(i) =>
                  facts'[i].node = facts[i].node /\ (facts'[i] = facts[i] \/ Retracted(i, facts'))
  <2>1. facts[w] \in Fact /\ facts[w] # None
    BY <1>2 DEF StoreInv, Withdraw, Believed
  <2>2. /\ facts' = [facts EXCEPT ![w] = [node |-> facts[w].node, status |-> "Retracted"]]
        /\ [node |-> facts[w].node, status |-> "Retracted"] \in Fact
    BY <1>2, <2>1 DEF Withdraw, Fact, Statuses
  <2>3. [node |-> facts[w].node, status |-> "Retracted"] # None
    BY <2>2 DEF QueryAssumption, Fact
  <2> QED BY <2>1, <2>2, <2>3 DEF StoreInv, Known, Retracted
<1>3. listed' = listed
  BY DEF StoreStep
<1>4. CASE \E S \in Batches : Learn(S)
  BY <1>1, <1>3, <1>4 DEF StoreInv, Known, Believed, Retracted
<1>5. CASE \E i \in Ids : Withdraw(i)
  BY <1>2, <1>3, <1>5 DEF StoreInv, Known, Believed, Retracted
<1> QED BY <1>4, <1>5 DEF StoreStep

-----------------------------------------------------------------------------
LEMMA QueryInvInit == Init => QueryInv
<1> SUFFICES ASSUME Init PROVE QueryInv
  OBVIOUS
<1> USE QueryAssumption
<1>1. StoreInv
  BY DEF Init, QueryAssumption, StoreInv, Fact, Known
<1>2. TypeInv
  BY DEF Init, TypeInv, Asked
<1>3. ASSUME NEW c \in Clients PROVE HistoryInv(c) /\ GotInv(c) /\ PendingInv(c) /\ OnceInv(c)
  BY <1>1 DEF Init, StoreInv, HistoryInv, GotInv, PendingInv, OnceInv, Asked, Known
<1> QED BY <1>1, <1>2, <1>3 DEF QueryInv

\* Writes of others preserve what is known about a query in progress.
LEMMA OthersKeepInv ==
  ASSUME QueryInv, StoreStep \/ Publish
  PROVE  QueryInv'
<1>1. /\ StoreInv' /\ listed \subseteq listed'
      /\ UNCHANGED engine
      /\ \A i \in Ids : Known(i) =>
              /\ Known(i)' /\ facts'[i].node = facts[i].node
              /\ Retracted(i, facts) => Retracted(i, facts')
              /\ Believed(i)' => Believed(i)
  <2>1. CASE StoreStep
    BY <2>1, StoreGrows DEF QueryInv, StoreStep
  <2>2. CASE Publish
    BY <2>2 DEF QueryInv, StoreInv, Publish, Known, Believed, Retracted
  <2> QED BY <2>1, <2>2
<1> USE DEF engine
<1>2. TypeInv'
  BY <1>1 DEF QueryInv, TypeInv, Asked
<1>3. ASSUME NEW c \in Clients PROVE (HistoryInv(c) /\ GotInv(c) /\ PendingInv(c) /\ OnceInv(c))'
  <2>1. HistoryInv(c) /\ GotInv(c) /\ PendingInv(c) /\ OnceInv(c) /\ TypeInv /\ StoreInv
    BY DEF QueryInv
  <2>2. HistoryInv(c)'
    BY <1>1, <2>1 DEF HistoryInv
  <2>3. GotInv(c)'
    <3>1. \A k \in DOMAIN got[c] : got[c][k] \in Nodes /\ got[c][k].id \in Ids
      BY <2>1, QueryAssumption DEF TypeInv, QueryAssumption
    <3> QED BY <1>1, <2>1, <3>1 DEF GotInv, Retracted
  <2>4. PendingInv(c)'
    <3>1. \A e \in todo[c] : e[1] \in Ids
      BY <2>1 DEF TypeInv
    <3>2. \A i \in before[c].listed : i \in Ids /\ Known(i)
      BY <2>1 DEF HistoryInv, StoreInv
    <3>3. \A e \in todo[c] : Known(e[1])'
      BY <1>1, <2>1, <3>1 DEF PendingInv
    <3>4. ASSUME Asked(c), pc[c] # "scan", errors[c] = 0, NEW i \in before[c].listed,
                 Believed(i)', LookedFor(call[c], facts'[i].node)
          PROVE  (\E e \in todo[c] : e[1] = i) \/ facts'[i].node \in RangeOf(got[c])
      BY <1>1, <2>1, <3>2, <3>4 DEF PendingInv
    <3> QED BY <1>1, <2>1, <3>3, <3>4 DEF PendingInv, Asked, LookedFor, RangeOf
  <2>5. OnceInv(c)'
    BY <1>1, <2>1 DEF OnceInv, Asked
  <2> QED BY <2>2, <2>3, <2>4, <2>5
<1> QED BY <1>1, <1>2, <1>3 DEF QueryInv

\* The steps of client c do not touch what is known about other clients.
OthersInv(c) == \A d \in Clients \ {c} : HistoryInv(d) /\ GotInv(d) /\ PendingInv(d) /\ OnceInv(d)

LEMMA BeginKeepsInv ==
  ASSUME QueryInv, NEW c \in Clients, NEW q \in Calls, Begin(c, q)
  PROVE  QueryInv'
<1>1. facts' = facts /\ listed' = listed
  BY DEF Begin
<1>2. StoreInv'
  BY <1>1 DEF QueryInv, StoreInv, Known
<1>3. TypeInv'
  BY DEF QueryInv, TypeInv, Begin, Asked
<1>4. OthersInv(c)'
  <2>1. \A d \in Clients \ {c} :
          /\ pc'[d] = pc[d] /\ call'[d] = call[d] /\ todo'[d] = todo[d] /\ got'[d] = got[d]
          /\ asking'[d] = asking[d] /\ errors'[d] = errors[d] /\ before'[d] = before[d]
    BY DEF QueryInv, TypeInv, Begin
  <2> QED BY <1>1, <2>1 DEF QueryInv, OthersInv, HistoryInv, GotInv, PendingInv, OnceInv,
                            Asked, Known, Believed
<1>5. /\ got'[c] = <<>> /\ todo'[c] = {} /\ pc'[c] = "scan" /\ asking'[c] > 0
      /\ before'[c] = [facts |-> facts, listed |-> listed]
  <2>1. TypeInv /\ pc[c] = "idle" /\ todo[c] = {}
    BY DEF QueryInv, PendingInv, Begin
  <2> QED BY <2>1 DEF TypeInv, Begin
<1>6. HistoryInv(c)'
  BY <1>1, <1>5 DEF QueryInv, StoreInv, HistoryInv, Known
<1>7. (GotInv(c) /\ PendingInv(c) /\ OnceInv(c))'
  BY <1>5 DEF GotInv, PendingInv, OnceInv, Asked
<1> QED BY <1>2, <1>3, <1>4, <1>6, <1>7 DEF QueryInv, OthersInv

LEMMA ScanKeepsInv ==
  ASSUME QueryInv, NEW c \in Clients, Scan(c)
  PROVE  QueryInv'
<1> USE QueryAssumption
<1>1. /\ facts' = facts /\ listed' = listed /\ before' = before /\ got' = got
      /\ call' = call /\ asking' = asking /\ errors' = errors
      /\ todo'[c] = Entries(call[c]) /\ pc'[c] = "fetch" /\ got[c] = <<>> /\ Asked(c)
      /\ StoreInv /\ TypeInv /\ call[c] \in Calls
  BY DEF QueryInv, TypeInv, PendingInv, Scan
<1>2. StoreInv'
  BY <1>1 DEF StoreInv, Known
<1>3. ASSUME NEW i \in listed
      PROVE  /\ i \in Ids /\ Known(i) /\ facts[i].node \in Nodes
             /\ call[c].entity # None => Mentions(facts[i].node.pred, call[c].entity) \in Nat
  <2>1. i \in Ids /\ Known(i) /\ facts[i].node \in Nodes
    BY <1>1 DEF StoreInv, Known, Fact
  <2>2. call[c].entity # None => call[c] \in Queries
    BY <1>1 DEF Calls, ToolCall
  <2> QED BY <2>1, <2>2 DEF QueryAssumption
<1>4. Entries(call[c]) \subseteq listed \X Nat
  <2>1. CASE call[c].entity # None
    BY <1>3, <2>1 DEF Entries
  <2>2. CASE call[c].entity = None
    BY <2>2 DEF Entries
  <2> QED BY <2>1, <2>2
<1>5. TypeInv'
  <2>1. Entries(call[c]) \in SUBSET (Ids \X Nat)
    BY <1>3, <1>4
  <2> QED BY <1>1, <2>1 DEF TypeInv, Scan, Asked
<1>6. OthersInv(c)'
  BY <1>1 DEF QueryInv, TypeInv, OthersInv, HistoryInv, GotInv, PendingInv, OnceInv,
              Scan, Asked, Known, Believed
<1>7. HistoryInv(c)' /\ GotInv(c)'
  BY <1>1 DEF QueryInv, HistoryInv, GotInv, Known
<1>8. PendingInv(c)'
  <2>1. ASSUME NEW i \in before[c].listed, LookedFor(call[c], facts[i].node)
        PROVE  \E e \in Entries(call[c]) : e[1] = i
    <3>1. i \in listed
      BY <2>1 DEF QueryInv, HistoryInv
    <3>2. CASE call[c].entity # None
      <4>1. 1 \in 1..Mentions(facts[i].node.pred, call[c].entity)
        BY <1>3, <2>1, <3>1, <3>2 DEF LookedFor
      <4>2. <<i, 1>> \in Entries(call[c])
        BY <3>1, <3>2, <4>1 DEF Entries
      <4> QED BY <4>2
    <3>3. CASE call[c].entity = None
      <4>1. <<i, 1>> \in Entries(call[c])
        BY <2>1, <3>1, <3>3 DEF Entries, LookedFor
      <4> QED BY <4>1
    <3> QED BY <3>2, <3>3
  <2>2. \A e \in Entries(call[c]) : Known(e[1])
    BY <1>3, <1>4
  <2> QED BY <1>1, <2>1, <2>2 DEF PendingInv, Asked, Known, Believed
<1>9. OnceInv(c)'
  <2>1. Unrepeated(call[c]) => \A e \in Entries(call[c]) : e[2] = 1
    BY <1>3 DEF Entries, Unrepeated
  <2> QED BY <1>1, <2>1 DEF OnceInv
<1> QED BY <1>2, <1>5, <1>6, <1>7, <1>8, <1>9 DEF QueryInv, OthersInv

LEMMA FailureKeepsInv ==
  ASSUME QueryInv, NEW c \in Clients, ScanFails(c) \/ FetchFails(c)
  PROVE  QueryInv'
<1>1. /\ facts' = facts /\ listed' = listed /\ before' = before /\ got' = got
      /\ call' = call /\ asking' = asking /\ reply' = reply
      /\ todo'[c] \subseteq todo[c] /\ pc'[c] = "fetch" /\ errors'[c] > 0 /\ Asked(c)
      /\ StoreInv /\ TypeInv
  BY DEF QueryInv, TypeInv, PendingInv, ScanFails, FetchFails, MayFail
<1>2. StoreInv'
  BY <1>1 DEF StoreInv, Known
<1>3. TypeInv'
  <2>1. errors' \in [Clients -> Nat]
    <3>1. errors \in [Clients -> Nat] /\ errors[c] + 1 \in Nat
      BY <1>1 DEF TypeInv
    <3>2. errors' = [errors EXCEPT ![c] = errors[c] + 1]
      BY DEF ScanFails, FetchFails, MayFail
    <3> QED BY <3>1, <3>2
  <2>2. todo' \in [Clients -> SUBSET (Ids \X Nat)] /\ pc' \in [Clients -> {"idle", "scan", "fetch"}]
    BY <1>1 DEF TypeInv, ScanFails, FetchFails
  <2> QED BY <1>1, <2>1, <2>2 DEF TypeInv, Asked
<1>4. OthersInv(c)'
  BY <1>1 DEF QueryInv, TypeInv, OthersInv, HistoryInv, GotInv, PendingInv, OnceInv,
              ScanFails, FetchFails, MayFail, Asked, Known, Believed
<1>5. (HistoryInv(c) /\ GotInv(c) /\ PendingInv(c) /\ OnceInv(c))'
  BY <1>1 DEF QueryInv, HistoryInv, GotInv, PendingInv, OnceInv, Asked, Known
<1> QED BY <1>2, <1>3, <1>4, <1>5 DEF QueryInv, OthersInv

LEMMA FetchKeepsInv ==
  ASSUME QueryInv, NEW c \in Clients, Fetch(c)
  PROVE  QueryInv'
<1>1. /\ facts' = facts /\ listed' = listed /\ before' = before
      /\ call' = call /\ asking' = asking /\ errors' = errors /\ pc' = pc
      /\ pc[c] = "fetch" /\ Asked(c)
      /\ StoreInv /\ TypeInv /\ HistoryInv(c) /\ GotInv(c) /\ PendingInv(c) /\ OnceInv(c)
  BY DEF QueryInv, PendingInv, Fetch
<1>2. PICK e \in todo[c] : todo'[c] = todo[c] \ {e} /\ got'[c] = got[c] \o Resolved(e[1])
  BY <1>1 DEF Fetch, TypeInv
<1>3. e[1] \in Ids /\ Known(e[1]) /\ facts[e[1]].node \in Nodes /\ facts[e[1]].node.id = e[1]
  BY <1>1, <1>2 DEF TypeInv, PendingInv, StoreInv, Known, Fact
<1>4. got[c] \in Seq(Nodes)
  BY <1>1 DEF TypeInv
<1>5. \/ ~Believed(e[1]) /\ got'[c] = got[c]
      \/ Believed(e[1]) /\ got'[c] = Append(got[c], facts[e[1]].node)
  <2>1. CASE Believed(e[1])
    <3>1. Resolved(e[1]) = <<facts[e[1]].node>>
      BY <2>1 DEF Resolved
    <3> QED BY <1>2, <1>3, <1>4, <2>1, <3>1
  <2>2. CASE ~Believed(e[1])
    <3>1. Resolved(e[1]) = <<>>
      BY <2>2 DEF Resolved
    <3> QED BY <1>2, <1>4, <2>2, <3>1
  <2> QED BY <2>1, <2>2
<1>6. StoreInv'
  BY <1>1 DEF StoreInv, Known
<1>7. TypeInv'
  <2>1. got'[c] \in Seq(Nodes)
    BY <1>3, <1>4, <1>5
  <2>2. got' \in [Clients -> Seq(Nodes)]
    BY <1>1, <2>1 DEF Fetch, TypeInv
  <2>3. todo' \in [Clients -> SUBSET (Ids \X Nat)]
    BY <1>1, <1>2 DEF Fetch, TypeInv
  <2> QED BY <1>1, <2>2, <2>3 DEF TypeInv, Fetch, Asked
<1>8. OthersInv(c)'
  <2>1. \A d \in Clients \ {c} : todo'[d] = todo[d] /\ got'[d] = got[d]
    BY <1>1 DEF Fetch, TypeInv
  <2> QED BY <1>1, <2>1 DEF QueryInv, OthersInv, HistoryInv, GotInv, PendingInv, OnceInv,
                            Asked, Known, Believed
<1>9. HistoryInv(c)'
  BY <1>1 DEF HistoryInv, Known
<1>10. CASE ~Believed(e[1]) /\ got'[c] = got[c]
  <2>1. GotInv(c)'
    BY <1>1, <1>10 DEF GotInv, Known
  <2>2. PendingInv(c)'
    BY <1>1, <1>2, <1>10 DEF PendingInv, Asked, Known, Believed
  <2>3. OnceInv(c)'
    BY <1>1, <1>2, <1>10 DEF OnceInv, Asked
  <2> QED BY <1>6, <1>7, <1>8, <1>9, <2>1, <2>2, <2>3 DEF QueryInv, OthersInv
<1>11. CASE Believed(e[1]) /\ got'[c] = Append(got[c], facts[e[1]].node)
  <2> DEFINE n == facts[e[1]].node
             L == Len(got[c])
  <2>1. /\ DOMAIN got[c] = 1..L /\ DOMAIN got'[c] = 1..(L + 1) /\ L \in Nat
        /\ \A k \in 1..L : got'[c][k] = got[c][k]
        /\ got'[c][L + 1] = n
    BY <1>3, <1>4, <1>11
  <2>2. RangeOf(got'[c]) = RangeOf(got[c]) \cup {n}
    <3> HIDE DEF L, n
    <3>1. \A k \in 1..(L + 1) : k \in 1..L \/ k = L + 1
      BY <2>1
    <3>2. 1..L \subseteq 1..(L + 1) /\ L + 1 \in 1..(L + 1)
      BY <2>1
    <3> QED BY <2>1, <3>1, <3>2 DEF RangeOf
  <2>3. \A k \in DOMAIN got'[c] :
          \/ k \in DOMAIN got[c] /\ got'[c][k] = got[c][k]
          \/ k = L + 1 /\ got'[c][k] = n
    <3> HIDE DEF L, n
    <3>1. \A k \in 1..(L + 1) : k \in 1..L \/ k = L + 1
      BY <2>1
    <3> QED BY <2>1, <3>1
  <2>4. n.id = e[1] /\ Known(n.id) /\ facts[n.id].node = n /\ ~Retracted(n.id, before[c].facts)
    BY <1>1, <1>3, <1>11 DEF HistoryInv, Believed, Retracted
  <2>5. GotInv(c)'
    BY <1>1, <2>3, <2>4 DEF GotInv, Known
  <2>6. PendingInv(c)'
    <3>1. ASSUME errors[c] = 0, NEW i \in before[c].listed, Believed(i),
                 LookedFor(call[c], facts[i].node)
          PROVE  (\E d \in todo'[c] : d[1] = i) \/ facts[i].node \in RangeOf(got'[c])
      <4>1. (\E d \in todo[c] : d[1] = i) \/ facts[i].node \in RangeOf(got[c])
        BY <1>1, <3>1 DEF PendingInv
      <4>2. CASE i = e[1]
        BY <2>2, <4>2
      <4>3. CASE i # e[1]
        BY <1>2, <2>2, <4>1, <4>3
      <4> QED BY <4>2, <4>3
    <3> QED BY <1>1, <1>2, <3>1 DEF PendingInv, Asked, Known, Believed
  <2>7. OnceInv(c)'
    <3> SUFFICES ASSUME Unrepeated(call[c])
                 PROVE  /\ \A d \in todo'[c] : d[2] = 1
                        /\ \A d \in todo'[c] : \A k \in DOMAIN got'[c] : got'[c][k].id # d[1]
                        /\ \A j, k \in DOMAIN got'[c] : j # k => got'[c][j].id # got'[c][k].id
      BY <1>1 DEF OnceInv, Asked
    <3>1. /\ \A d \in todo[c] : d[2] = 1
          /\ \A d \in todo[c] : \A k \in DOMAIN got[c] : got[c][k].id # d[1]
          /\ \A j, k \in DOMAIN got[c] : j # k => got[c][j].id # got[c][k].id
      BY <1>1 DEF OnceInv
    <3>2. \A d \in todo'[c] : d \in todo[c] /\ d[1] # e[1]
      <4>1. \A d \in todo[c] : d = <<d[1], d[2]>>
        BY <1>1 DEF TypeInv
      <4> QED BY <1>2, <3>1, <4>1
    <3>3. \A k \in DOMAIN got[c] : got[c][k].id # n.id
      BY <1>2, <2>4, <3>1
    <3> HIDE DEF n, L
    <3> QED BY <2>3, <2>4, <3>1, <3>2, <3>3
  <2> QED BY <1>6, <1>7, <1>8, <1>9, <2>5, <2>6, <2>7 DEF QueryInv, OthersInv
<1> QED BY <1>5, <1>10, <1>11

LEMMA AnswerKeepsInv ==
  ASSUME QueryInv, NEW c \in Clients, Answer(c)
  PROVE  QueryInv'
<1>1. /\ facts' = facts /\ listed' = listed /\ before' = before /\ got' = got
      /\ call' = call /\ asking' = asking /\ errors' = errors /\ todo' = todo
      /\ pc' = [pc EXCEPT ![c] = "idle"] /\ todo[c] = {} /\ pc[c] = "fetch"
      /\ DOMAIN reply' = DOMAIN reply
  BY DEF Answer
<1>2. StoreInv' /\ TypeInv'
  BY <1>1 DEF QueryInv, StoreInv, TypeInv, Known, Asked
<1>3. ASSUME NEW d \in Clients PROVE (HistoryInv(d) /\ GotInv(d) /\ PendingInv(d) /\ OnceInv(d))'
  BY <1>1 DEF QueryInv, TypeInv, HistoryInv, GotInv, PendingInv, OnceInv, Asked, Known, Believed
<1> QED BY <1>2, <1>3 DEF QueryInv

-----------------------------------------------------------------------------
LEMMA QueryInvInductive == QueryInv /\ [Next]_vars => QueryInv'
<1> SUFFICES ASSUME QueryInv, [Next]_vars PROVE QueryInv'
  OBVIOUS
<1>1. CASE StoreStep \/ Publish
  BY <1>1, OthersKeepInv
<1>2. ASSUME NEW c \in Clients, Query(c) \/ ToolQuery(c) PROVE QueryInv'
  BY <1>2, BeginKeepsInv DEF Query, ToolQuery, Calls
<1>3. ASSUME NEW c \in Clients, Scan(c) PROVE QueryInv'
  BY <1>3, ScanKeepsInv
<1>4. ASSUME NEW c \in Clients, ScanFails(c) \/ FetchFails(c) PROVE QueryInv'
  BY <1>4, FailureKeepsInv
<1>5. ASSUME NEW c \in Clients, Fetch(c) PROVE QueryInv'
  BY <1>5, FetchKeepsInv
<1>6. ASSUME NEW c \in Clients, Answer(c) PROVE QueryInv'
  BY <1>6, AnswerKeepsInv
<1>7. CASE UNCHANGED vars
  BY <1>7 DEF vars, engine, QueryInv, StoreInv, TypeInv, HistoryInv, GotInv, PendingInv,
              OnceInv, Asked, Known, Believed
<1> QED BY <1>1, <1>2, <1>3, <1>4, <1>5, <1>6, <1>7 DEF Next, Finished

LEMMA QueryInvRegular == QueryInv => CandidatesRegular
<1> SUFFICES ASSUME QueryInv, NEW c \in Clients
             PROVE  /\ GotInv(c)
                    /\ ReadAll(c) /\ errors[c] = 0 =>
                         \A i \in before[c].listed :
                           Believed(i) /\ LookedFor(call[c], facts[i].node)
                             => facts[i].node \in RangeOf(got[c])
                    /\ Asked(c) /\ call[c].entity = None =>
                         \A j, k \in DOMAIN got[c] : j # k => got[c][j].id # got[c][k].id
  BY DEF CandidatesRegular, GotInv
<1> QED BY DEF QueryInv, PendingInv, OnceInv, Unrepeated, ReadAll

\* For any store, clients, calls and interleaving of writes: what a query
\* considers lies between what was believed throughout it and what was believed
\* at some moment of it, each node once (query.rs:95-106, store.rs:436-446).
THEOREM QueriesRegular == Spec => []CandidatesRegular
<1>1. Init => QueryInv
  BY QueryInvInit
<1>2. QueryInv /\ [Next]_vars => QueryInv'
  BY QueryInvInductive
<1>3. QueryInv => CandidatesRegular
  BY QueryInvRegular
<1> QED BY <1>1, <1>2, <1>3, PTL DEF Spec
-----------------------------------------------------------------------------
(* Arbitration.                                                            *)

LEMMA FirstIsLeast ==
  ASSUME NEW S, S \subseteq Nat, S # {}
  PROVE  First(S) \in S /\ \A j \in S : First(S) <= j
BY LeastNat DEF First

\* Of finitely many candidates one has the highest authority.
LEMMA HighestExists ==
  ASSUME NEW g, NEW S, IsFiniteSet(S), S # {}, \A i \in S : g[i].auth \in Int
  PROVE  \E m \in S : \A j \in S : g[j].auth <= g[m].auth
<1> DEFINE Good == {U \in SUBSET S : U # {} => \E m \in U : \A j \in U : g[j].auth <= g[m].auth}
<1>1. ASSUME NEW U \in SUBSET S, U \in Good, NEW x \in S \ U
      PROVE  U \cup {x} \in Good
  <2>1. CASE U = {}
    BY <2>1
  <2>2. CASE U # {}
    <3>1. PICK m \in U : \A j \in U : g[j].auth <= g[m].auth
      BY <1>1, <2>2
    <3>2. CASE g[m].auth <= g[x].auth
      BY <3>1, <3>2
    <3>3. CASE ~(g[m].auth <= g[x].auth)
      BY <3>1, <3>3
    <3> QED BY <3>2, <3>3
  <2> QED BY <2>1, <2>2
<1>2. {} \in Good
  OBVIOUS
<1>3. S \in Good
  <2> HIDE DEF Good
  <2> QED BY <1>1, <1>2, FiniteInduction
<1> QED BY <1>3

\* Candidates, and what an outcome answers.
Candidates(g) ==
  /\ IsFiniteSet(DOMAIN g) /\ DOMAIN g \subseteq Nat
  /\ \A k \in DOMAIN g : g[k].auth \in Int
  /\ \A j, k \in DOMAIN g : j # k => g[j] # g[k]
Image(g, R) == {g[k] : k \in R}
Result(g, o) == [results |-> Image(g, o.results), ambiguous |-> o.ambiguous]

LEMMA ImageSize ==
  ASSUME NEW g, Candidates(g), NEW S, S \subseteq DOMAIN g
  PROVE  /\ IsFiniteSet(S) /\ IsFiniteSet(Image(g, S))
         /\ Cardinality(Image(g, S)) = Cardinality(S)
<1> DEFINE f == [k \in S |-> g[k]]
           T == Image(g, S)
<1>1. IsFiniteSet(S)
  BY FS_Subset DEF Candidates
<1>2. f \in [S -> T] /\ \A j, k \in S : f[j] = f[k] => j = k
  BY DEF Candidates, Image
<1>3. \A n \in T : \E k \in S : f[k] = n
  BY DEF Image
<1>4. f \in Bijection(S, T)
  <2> HIDE DEF f, T
  <2> QED BY <1>2, <1>3 DEF Bijection, Injection, Surjection, IsInjective
<1>5. ExistsBijection(S, T)
  BY <1>4 DEF ExistsBijection
<1> HIDE DEF T
<1>6. IsFiniteSet(T) /\ Cardinality(T) = Cardinality(S)
  BY <1>1, <1>5, FS_Bijection
<1> QED BY <1>1, <1>6 DEF T

\* A choice of one place for each subgroup is a choice of one node for each fact.
ChosenOnce(g, R) ==
  /\ R \subseteq DOMAIN g
  /\ \A i \in DOMAIN g : \E w \in SubGroup(g, i) : R \cap SubGroup(g, i) = {w}

LEMMA OneForEach ==
  ASSUME NEW g, NEW R, ChosenOnce(g, R), NEW r, r.results = Image(g, R)
  PROVE  /\ r.results \subseteq Image(g, DOMAIN g)
         /\ OneEach(Image(g, DOMAIN g), r)
         /\ \A i \in DOMAIN g : \A w \in R \cap SubGroup(g, i) :
              SameFact(r.results, g[i]) = {g[w]}
<1>1. ASSUME NEW i \in DOMAIN g, NEW w \in R \cap SubGroup(g, i)
      PROVE  SameFact(r.results, g[i]) = {g[w]}
  <2>1. R \cap SubGroup(g, i) = {w}
    BY <1>1 DEF ChosenOnce
  <2>2. \A k \in R : g[k].pred = g[i].pred => k = w
    BY <2>1 DEF ChosenOnce, SubGroup
  <2>3. w \in R /\ g[w].pred = g[i].pred
    BY <2>1 DEF SubGroup
  <2> QED BY <2>2, <2>3 DEF SameFact, Image
<1>2. ASSUME NEW n \in Image(g, DOMAIN g) PROVE Cardinality(SameFact(r.results, n)) = 1
  <2>1. PICK i \in DOMAIN g : n = g[i]
    BY DEF Image
  <2>2. PICK w \in SubGroup(g, i) : R \cap SubGroup(g, i) = {w}
    BY DEF ChosenOnce
  <2>3. SameFact(r.results, n) = {g[w]}
    BY <1>1, <2>1, <2>2
  <2> QED BY <2>3, FS_Singleton
<1> QED BY <1>1, <1>2 DEF OneEach, Image, ChosenOnce

LEMMA LatestArbitrates ==
  ASSUME NEW g, Candidates(g), NEW o \in LatestWins(g)
  PROVE  Is_LatestWins(Image(g, DOMAIN g), Result(g, o))
<1> DEFINE A == Image(g, DOMAIN g)
           r == Result(g, o)
           Ties(Q) == \E S \in SubGroups(g) : \E w \in S \cap Q : LatestTie(g, S, w)
<1>0. PICK R \in SUBSET DOMAIN g :
        /\ \A S \in SubGroups(g) : \E w \in S : R \cap S = {w} /\ IsLatest(g, S, w)
        /\ o = [results |-> R, ambiguous |-> Ties(R)]
  BY Zenon DEF LatestWins
<1>1. /\ R \subseteq DOMAIN g /\ o.results = R /\ (o.ambiguous <=> Ties(R))
      /\ \A S \in SubGroups(g) : \E w \in S : R \cap S = {w} /\ IsLatest(g, S, w)
  <2> HIDE DEF Ties
  <2> QED BY <1>0, Zenon
<1>2. \A i \in DOMAIN g : SubGroup(g, i) \in SubGroups(g)
  BY DEF SubGroups
<1>3. ChosenOnce(g, R)
  BY <1>1, <1>2 DEF ChosenOnce
<1>4. r.results = Image(g, R) /\ r.ambiguous = o.ambiguous
  BY <1>1 DEF Result
<1>5. /\ r.results \subseteq A /\ OneEach(A, r)
      /\ \A i \in DOMAIN g : \A w \in R \cap SubGroup(g, i) : SameFact(r.results, g[i]) = {g[w]}
  <2> HIDE DEF r
  <2> QED BY <1>3, <1>4, OneForEach
<1>6. ASSUME NEW n \in A, NEW w \in SameFact(r.results, n) PROVE ~Outranks(n, w)
  <2>1. PICK i \in DOMAIN g : n = g[i]
    BY DEF Image
  <2>2. PICK k \in SubGroup(g, i) : R \cap SubGroup(g, i) = {k} /\ IsLatest(g, SubGroup(g, i), k)
    BY <1>1, <1>2
  <2>3. w = g[k]
    BY <1>5, <1>6, <2>1, <2>2
  <2>4. i \in SubGroup(g, i)
    BY DEF SubGroup
  <2> QED BY <2>1, <2>2, <2>3, <2>4 DEF IsLatest
<1>7. \A S \in SubGroups(g) : \A w \in S : w \in DOMAIN g /\ S = SubGroup(g, w)
  BY DEF SubGroups, SubGroup
<1>8. ASSUME NEW w \in R
      PROVE  LatestTie(g, SubGroup(g, w), w) <=>
               \E n \in SameFact(A, g[w]) \ {g[w]} : Near(n.auth, g[w].auth) /\ n.from = g[w].from
  <2>1. w \in DOMAIN g
    BY <1>1
  <2>2. ASSUME NEW j \in SubGroup(g, w) \ {w}
        PROVE  g[j] \in SameFact(A, g[w]) \ {g[w]}
    BY <2>1 DEF SubGroup, SameFact, Image, Candidates
  <2>3. ASSUME NEW n \in SameFact(A, g[w]) \ {g[w]}
        PROVE  \E j \in SubGroup(g, w) \ {w} : n = g[j]
    BY <2>1 DEF SubGroup, SameFact, Image
  <2> QED BY <2>2, <2>3 DEF LatestTie
<1>9. r.ambiguous <=> \E w \in r.results : \E n \in SameFact(A, w) \ {w} :
                        Near(n.auth, w.auth) /\ n.from = w.from
  <2>1. r.ambiguous <=> \E w \in R : LatestTie(g, SubGroup(g, w), w)
    <3>1. (\E w \in R : LatestTie(g, SubGroup(g, w), w)) => Ties(R)
      <4>1. \A w \in R : w \in SubGroup(g, w) /\ SubGroup(g, w) \in SubGroups(g)
        BY <1>1, <1>2 DEF SubGroup
      <4> QED BY <4>1
    <3>2. Ties(R) => \E w \in R : LatestTie(g, SubGroup(g, w), w)
      BY <1>7
    <3> HIDE DEF Ties, r
    <3> QED BY <1>1, <1>4, <3>1, <3>2, Zenon
  <2> HIDE DEF r
  <2>2. (\E w \in R : LatestTie(g, SubGroup(g, w), w)) <=>
          \E w \in r.results : \E n \in SameFact(A, w) \ {w} :
            Near(n.auth, w.auth) /\ n.from = w.from
    <3> HIDE DEF A
    <3> QED BY <1>4, <1>8 DEF Image
  <2> QED BY <2>1, <2>2, Zenon
<1>10. Is_LatestWins(A, r)
  <2> HIDE DEF r, A
  <2> QED BY <1>5, <1>6, <1>9, Zenon DEF Is_LatestWins
<1> QED BY <1>10

\* Winners, as places and as nodes; one of them is the first.
LEMMA WinnersAreForemost ==
  ASSUME NEW g, Candidates(g), NEW i \in DOMAIN g
  PROVE  LET W == Winners(g, SubGroup(g, i))
             F == Foremost(Image(g, DOMAIN g), g[i])
         IN /\ F = Image(g, W) /\ First(W) \in W /\ IsFiniteSet(W) /\ IsFiniteSet(F)
            /\ Cardinality(F) = Cardinality(W)
<1> DEFINE S == SubGroup(g, i)
           W == Winners(g, S)
           A == Image(g, DOMAIN g)
           F == Foremost(A, g[i])
<1>1. S \subseteq DOMAIN g /\ i \in S /\ IsFiniteSet(S)
  BY FS_Subset DEF SubGroup, Candidates
<1>2. \A j \in S : g[j].auth \in Int
  BY <1>1 DEF Candidates
<1>3. PICK m \in S : \A j \in S : g[j].auth <= g[m].auth
  <2> HIDE DEF S
  <2> QED BY <1>1, <1>2, HighestExists
<1>4. SameFact(A, g[i]) = Image(g, S)
  BY DEF SameFact, Image, SubGroup
<1>5. ASSUME NEW j \in S
      PROVE  j \in W <=> \A k \in S : g[k].auth <= g[j].auth \/ Near(g[k].auth, g[j].auth)
  <2> HIDE DEF S
  <2>1. j \in W <=> \E n \in S : (\A k \in S : g[k].auth <= g[n].auth) /\ Near(g[j].auth, g[n].auth)
    BY DEF Winners
  <2>2. \A n \in S : (\A k \in S : g[k].auth <= g[n].auth) => g[n].auth = g[m].auth
    BY <1>2, <1>3
  <2>3. j \in W <=> Near(g[j].auth, g[m].auth)
    BY <1>3, <2>1, <2>2
  <2>4. ASSUME Near(g[j].auth, g[m].auth), NEW k \in S
        PROVE  g[k].auth <= g[j].auth \/ Near(g[k].auth, g[j].auth)
    BY <1>2, <1>3, <2>4 DEF Near
  <2>5. ASSUME g[m].auth <= g[j].auth \/ Near(g[m].auth, g[j].auth)
        PROVE  Near(g[j].auth, g[m].auth)
    BY <1>2, <1>3, <2>5 DEF Near
  <2> QED BY <1>3, <2>3, <2>4, <2>5
<1>6. F = Image(g, W)
  <2>1. F = {n \in Image(g, S) : \A x \in Image(g, S) : x.auth <= n.auth \/ Near(x.auth, n.auth)}
    BY <1>4 DEF Foremost
  <2>2. W \subseteq S
    BY DEF Winners
  <2> HIDE DEF F, W, S
  <2> QED BY <1>5, <2>1, <2>2 DEF Image
<1>7. m \in W /\ W \subseteq S
  BY <1>2, <1>3 DEF Winners, Near
<1>8. First(W) \in W
  BY <1>1, <1>7, FirstIsLeast DEF Candidates
<1>9. IsFiniteSet(W)
  BY <1>1, <1>7, FS_Subset
<1>10. IsFiniteSet(F) /\ Cardinality(F) = Cardinality(W)
  <2> HIDE DEF F, W, S
  <2> QED BY <1>1, <1>6, <1>7, ImageSize
<1> QED BY <1>6, <1>8, <1>9, <1>10

LEMMA HighestArbitrates ==
  ASSUME NEW g, Candidates(g), NEW o \in HighestAuthority(g)
  PROVE  /\ Result(g, o).results \subseteq Image(g, DOMAIN g)
         /\ Is_HighestAuthority(Image(g, DOMAIN g), Result(g, o))
<1> DEFINE A == Image(g, DOMAIN g)
           r == Result(g, o)
           R == {First(Winners(g, S)) : S \in SubGroups(g)}
           Tie == \E S \in SubGroups(g) : Cardinality(Winners(g, S)) > 1
<1>1. o = [results |-> R, ambiguous |-> Tie]
  BY Zenon DEF HighestAuthority
<1>2. r.results = Image(g, R) /\ (r.ambiguous <=> Tie)
  <2>1. o.results = R /\ (o.ambiguous <=> Tie)
    <3> HIDE DEF R, Tie
    <3> QED BY <1>1, Zenon
  <2>2. r.results = Image(g, o.results) /\ r.ambiguous = o.ambiguous
    BY DEF Result
  <2> HIDE DEF r, R, Tie
  <2> QED BY <2>1, <2>2, Zenon
<1>3. \A i \in DOMAIN g : SubGroup(g, i) \in SubGroups(g) /\ i \in SubGroup(g, i)
  BY DEF SubGroups, SubGroup
<1>4. \A S \in SubGroups(g) : \E i \in DOMAIN g : S = SubGroup(g, i)
  BY DEF SubGroups
<1>5. \A i \in DOMAIN g :
        LET W == Winners(g, SubGroup(g, i)) IN
        /\ Foremost(A, g[i]) = Image(g, W) /\ First(W) \in W /\ IsFiniteSet(W)
        /\ Cardinality(Foremost(A, g[i])) = Cardinality(W)
  BY WinnersAreForemost
<1>6. \A S : Winners(g, S) \subseteq S
  BY DEF Winners
<1>7. ChosenOnce(g, R)
  <2>1. ASSUME NEW i \in DOMAIN g
        PROVE  R \cap SubGroup(g, i) = {First(Winners(g, SubGroup(g, i)))}
    <3> DEFINE S == SubGroup(g, i)
               f == First(Winners(g, S))
    <3>1. f \in S /\ f \in R
      BY <1>3, <1>5, <1>6
    <3>2. ASSUME NEW j \in DOMAIN g, First(Winners(g, SubGroup(g, j))) \in S
          PROVE  SubGroup(g, j) = S
      <4>1. First(Winners(g, SubGroup(g, j))) \in SubGroup(g, j)
        BY <1>5, <1>6
      <4> QED BY <3>2, <4>1 DEF SubGroup
    <3>3. \A k \in R \cap S : k = f
      BY <1>4, <3>2
    <3> HIDE DEF R, S, f
    <3>4. R \cap S = {f}
      BY <3>1, <3>3
    <3> QED BY <3>4 DEF S, f
  <2>2. ASSUME NEW i \in DOMAIN g
        PROVE  First(Winners(g, SubGroup(g, i))) \in SubGroup(g, i)
    BY <1>5, <1>6
  <2>3. R \subseteq DOMAIN g
    <3>1. \A i \in DOMAIN g : SubGroup(g, i) \subseteq DOMAIN g
      BY DEF SubGroup
    <3> QED BY <1>4, <2>2, <3>1
  <2> HIDE DEF R
  <2> QED BY <2>1, <2>2, <2>3 DEF ChosenOnce
<1>8. r.results \subseteq A /\ OneEach(A, r)
  <2> HIDE DEF r, R
  <2> QED BY <1>2, <1>7, OneForEach
<1>9. ASSUME NEW w \in r.results PROVE w \in Foremost(A, w)
  <2>1. PICK k \in R : w = g[k]
    BY <1>2, <1>9 DEF Image
  <2>2. PICK i \in DOMAIN g : k = First(Winners(g, SubGroup(g, i)))
    BY <1>4, <2>1
  <2>3. k \in Winners(g, SubGroup(g, i)) /\ k \in SubGroup(g, i)
    BY <1>5, <1>6, <2>2
  <2>4. g[k] \in Foremost(A, g[i])
    BY <1>5, <2>3 DEF Image
  <2>5. g[k].pred = g[i].pred
    BY <2>3 DEF SubGroup
  <2> QED BY <2>1, <2>4, <2>5 DEF Foremost, SameFact
<1>10. Tie <=> \E n \in A : Cardinality(Foremost(A, n)) > 1
  <2>1. \A n \in A : \E i \in DOMAIN g : n = g[i]
    BY DEF Image
  <2>2. \A i \in DOMAIN g : g[i] \in A
    BY DEF Image
  <2> HIDE DEF A
  <2> QED BY <1>3, <1>4, <1>5, <2>1, <2>2
<1>11. Is_HighestAuthority(A, r)
  <2> HIDE DEF A, r, Tie
  <2> QED BY <1>2, <1>8, <1>9, <1>10, Zenon DEF Is_HighestAuthority
<1> QED BY <1>8, <1>11

LEMMA UnanimousArbitrates ==
  ASSUME NEW g, Candidates(g), DOMAIN g # {}, NEW o \in Unanimous(g)
  PROVE  /\ Result(g, o).results \subseteq Image(g, DOMAIN g)
         /\ Is_Unanimous(Image(g, DOMAIN g), Result(g, o))
<1> DEFINE A == Image(g, DOMAIN g)
           r == Result(g, o)
           f == First(DOMAIN g)
<1>1. f \in DOMAIN g
  BY FirstIsLeast DEF Candidates
<1>2. (\A n, m \in A : n.pred = m.pred) <=> \A i \in DOMAIN g : g[i].pred = g[f].pred
  BY <1>1 DEF Image
<1>3. CASE \A i \in DOMAIN g : g[i].pred = g[f].pred
  <2>1. o = Answered({f})
    BY <1>3 DEF Unanimous
  <2>2. r.results = {g[f]} /\ r.ambiguous = FALSE
    BY <2>1 DEF Result, Answered, Image
  <2>3. g[f] \in A /\ r.results \subseteq A
    BY <1>1, <2>2 DEF Image
  <2>4. \A n \in A : SameFact(r.results, n) = {g[f]}
    BY <1>2, <1>3, <2>2, <2>3 DEF SameFact
  <2>5. OneEach(A, r)
    BY <2>4, FS_Singleton DEF OneEach
  <2> HIDE DEF A, r
  <2> QED BY <1>2, <1>3, <2>2, <2>3, <2>5 DEF Is_Unanimous, A, r
<1>4. CASE ~(\A i \in DOMAIN g : g[i].pred = g[f].pred)
  <2>1. o = Refused
    BY <1>4 DEF Unanimous
  <2>2. r = Refused
    BY <2>1 DEF Result, Refused, Image
  <2> QED BY <1>2, <1>4, <2>2 DEF Is_Unanimous, Refused
<1> QED BY <1>3, <1>4

-----------------------------------------------------------------------------
(* Weights.                                                                *)

LEMMA RoundedNear ==
  ASSUME NEW x \in Int
  PROVE  Rounded(x) \in Int /\ x - 32 <= Rounded(x) /\ Rounded(x) <= x + 32
<1> DEFINE size == IF x < 0 THEN -x ELSE x
           u == Ulp(size)
           times == x \div u
           rest == x % u
<1>1. u \in Ulps
  <2>1. \E v \in Ulps : /\ size < v * Digits \/ v = Coarsest
                        /\ \A z \in Ulps : size < z * Digits => v <= z
    <3>1. size \in Int
      OBVIOUS
    <3> HIDE DEF size
    <3> QED BY <3>1 DEF Ulps, Coarsest, Digits
  <2> HIDE DEF size
  <2> QED BY <2>1, Zenon DEF Ulp
<1>2. u \in 1..64 /\ x % u \in 0..(u - 1) /\ x % u = x - u * (x \div u) /\ x \div u \in Int
  <2>1. \A d \in {1, 2, 4, 8, 16, 32, 64} :
          x % d \in 0..(d - 1) /\ x % d = x - d * (x \div d) /\ x \div d \in Int
    <3>1. x % 1 \in 0..0 /\ x % 1 = x - 1 * (x \div 1) /\ x \div 1 \in Int
      OBVIOUS
    <3>2. x % 2 \in 0..1 /\ x % 2 = x - 2 * (x \div 2) /\ x \div 2 \in Int
      OBVIOUS
    <3>3. x % 4 \in 0..3 /\ x % 4 = x - 4 * (x \div 4) /\ x \div 4 \in Int
      OBVIOUS
    <3>4. x % 8 \in 0..7 /\ x % 8 = x - 8 * (x \div 8) /\ x \div 8 \in Int
      OBVIOUS
    <3>5. x % 16 \in 0..15 /\ x % 16 = x - 16 * (x \div 16) /\ x \div 16 \in Int
      OBVIOUS
    <3>6. x % 32 \in 0..31 /\ x % 32 = x - 32 * (x \div 32) /\ x \div 32 \in Int
      OBVIOUS
    <3>7. x % 64 \in 0..63 /\ x % 64 = x - 64 * (x \div 64) /\ x \div 64 \in Int
      OBVIOUS
    <3> QED BY <3>1, <3>2, <3>3, <3>4, <3>5, <3>6, <3>7
  <2> HIDE DEF u
  <2>2. u \in {1, 2, 4, 8, 16, 32, 64}
    BY <1>1 DEF Ulps, Coarsest
  <2> QED BY <2>1, <2>2
<1>3. /\ times \in Int /\ rest \in 0..(u - 1) /\ times * u \in Int /\ x = times * u + rest
      /\ (times + 1) * u = times * u + u
  <2> HIDE DEF u
  <2> QED BY <1>2
<1>4. Rounded(x) = IF 2 * rest < u \/ (2 * rest = u /\ times % 2 = 0)
                   THEN times * u ELSE (times + 1) * u
  BY DEF Rounded
<1> HIDE DEF u, times, rest, size
<1>5. CASE 2 * rest < u \/ (2 * rest = u /\ times % 2 = 0)
  BY <1>2, <1>3, <1>4, <1>5
<1>6. CASE ~(2 * rest < u \/ (2 * rest = u /\ times % 2 = 0))
  <2>1. 2 * rest >= u
    BY <1>2, <1>3, <1>6
  <2>2. Rounded(x) = times * u + u
    BY <1>3, <1>4, <1>6
  <2> QED BY <1>2, <1>3, <2>1, <2>2
<1> QED BY <1>5, <1>6

LEMMA MaxIsGreatest ==
  ASSUME NEW S, IsFiniteSet(S), S \subseteq Nat, S # {}
  PROVE  Max(S) \in S /\ \A y \in S : y <= Max(S)
<1> DEFINE Good == {U \in SUBSET S : U = {} \/ \E x \in U : \A y \in U : x >= y}
<1>1. {} \in Good
  OBVIOUS
<1>2. ASSUME NEW U \in SUBSET S, U \in Good, NEW x \in S \ U
      PROVE  U \cup {x} \in Good
  <2>1. CASE U = {}
    BY <2>1
  <2>2. CASE U # {}
    <3>1. PICK m \in U : \A y \in U : m >= y
      BY <1>2, <2>2
    <3>2. CASE m >= x
      BY <3>1, <3>2
    <3>3. CASE ~(m >= x)
      <4>1. \A y \in U \cup {x} : x >= y
        BY <3>1, <3>3
      <4> QED BY <4>1
    <3> QED BY <3>2, <3>3
  <2> QED BY <2>1, <2>2
<1>3. S \in Good
  <2> HIDE DEF Good
  <2> QED BY <1>1, <1>2, FiniteInduction
<1>4. \E x \in S : \A y \in S : x >= y
  BY <1>3
<1>5. Max(S) \in S /\ \A y \in S : Max(S) >= y
  BY <1>4, Zenon DEF Max
<1> QED BY <1>5

\* What adding up a set of places, the last one last, comes to for each subset.
AddsUp(F, S, w) ==
  F = [s \in SUBSET S |-> IF s = {} THEN 0 ELSE Rounded(F[s \ {Max(s)}] + w[Max(s)])]

LEMMA TallyExists ==
  ASSUME NEW S, IsFiniteSet(S), S \subseteq Nat, NEW w
  PROVE  \E F : AddsUp(F, S, w)
<1> DEFINE Bad == {U \in SUBSET S : ~\E F : AddsUp(F, U, w)}
<1> SUFFICES ASSUME S \in Bad PROVE FALSE
  OBVIOUS
<1>1. PICK U \in Bad : \A x \in U : U \ {x} \notin Bad
  BY SmallestSet
<1>2. IsFiniteSet(U) /\ U \subseteq Nat /\ U \subseteq S
  BY <1>1, FS_Subset
<1>3. CASE U = {}
  <2> DEFINE F == [s \in SUBSET {} |-> 0]
  <2>1. F = [s \in SUBSET {} |-> IF s = {} THEN 0 ELSE Rounded(F[s \ {Max(s)}] + w[Max(s)])]
    OBVIOUS
  <2>2. AddsUp(F, {}, w)
    BY <2>1 DEF AddsUp
  <2> QED BY <1>1, <1>3, <2>2
<1>4. CASE U # {}
  <2> DEFINE m == Max(U)
  <2>1. m \in U /\ \A y \in U : y <= m
    BY <1>2, <1>4, MaxIsGreatest
  <2> HIDE DEF m
  <2>2. PICK F : AddsUp(F, U \ {m}, w)
    BY <1>1, <2>1
  <2>3. ASSUME NEW s \in SUBSET U, m \in s PROVE Max(s) = m
    <3>1. IsFiniteSet(s) /\ s \subseteq Nat
      BY <1>2, FS_Subset
    <3>2. Max(s) \in s /\ \A y \in s : y <= Max(s)
      BY <2>3, <3>1, MaxIsGreatest
    <3>3. Max(s) <= m /\ m <= Max(s) /\ Max(s) \in Nat /\ m \in Nat
      BY <2>1, <2>3, <3>1, <3>2
    <3> QED BY <3>3
  <2>4. ASSUME NEW s \in SUBSET (U \ {m}), s # {} PROVE Max(s) \in s
    <3>1. IsFiniteSet(s) /\ s \subseteq Nat
      BY <1>2, FS_Subset
    <3> QED BY <2>4, <3>1, MaxIsGreatest
  <2> DEFINE G == [s \in SUBSET U |-> IF m \in s THEN Rounded(F[s \ {m}] + w[m]) ELSE F[s]]
  <2>5. ASSUME NEW s \in SUBSET U
        PROVE  G[s] = IF s = {} THEN 0 ELSE Rounded(G[s \ {Max(s)}] + w[Max(s)])
    <3>1. CASE m \in s
      <4>1. s \ {m} \in SUBSET U /\ m \notin s \ {m} /\ s # {}
        BY <3>1
      <4>2. G[s \ {m}] = F[s \ {m}] /\ G[s] = Rounded(F[s \ {m}] + w[m])
        BY <3>1, <4>1
      <4> HIDE DEF G
      <4> QED BY <2>3, <3>1, <4>1, <4>2
    <3>2. CASE m \notin s
      <4>1. s \in SUBSET (U \ {m})
        BY <3>2
      <4>2. F[s] = IF s = {} THEN 0 ELSE Rounded(F[s \ {Max(s)}] + w[Max(s)])
        BY <2>2, <4>1, Zenon DEF AddsUp
      <4>3. G[s] = F[s] /\ G[s \ {Max(s)}] = F[s \ {Max(s)}]
        BY <3>2
      <4> HIDE DEF G
      <4> QED BY <4>2, <4>3
    <3> QED BY <3>1, <3>2
  <2>6. G = [s \in SUBSET U |-> G[s]]
    OBVIOUS
  <2>7. AddsUp(G, U, w)
    <3> HIDE DEF G
    <3> QED BY <2>5, <2>6 DEF AddsUp
  <2> HIDE DEF G
  <2> QED BY <1>1, <2>7
<1> QED BY <1>3, <1>4

\* Each addition rounds by 32 at most.
LEMMA TallyNear ==
  ASSUME NEW g, IsFiniteSet(DOMAIN g), DOMAIN g \subseteq Nat, NEW weights,
         NEW h, \A k \in DOMAIN g : h[k] = Weight(weights, g[k]) /\ h[k] \in Int,
         NEW F, IsSum(F, DOMAIN g, h), NEW S \in SUBSET DOMAIN g
  PROVE  /\ Tally(g, S, weights) \in Int /\ F[S] \in Int /\ Cardinality(S) \in Nat
         /\ F[S] - 32 * Cardinality(S) <= Tally(g, S, weights)
         /\ Tally(g, S, weights) <= F[S] + 32 * Cardinality(S)
<1> DEFINE Steps(i) == i = [s \in SUBSET S |->
                              IF s = {} THEN 0
                              ELSE Rounded(i[s \ {Max(s)}] + Weight(weights, g[Max(s)]))]
           iter == CHOOSE i : Steps(i)
           w == [k \in S |-> Weight(weights, g[k])]
<1>0. IsFiniteSet(S) /\ S \subseteq Nat
  BY FS_Subset
<1>1. Tally(g, S, weights) = iter[S]
  BY Zenon DEF Tally, MapThenFoldSet
<1>2. \A s \in SUBSET S : s # {} => IsFiniteSet(s) /\ Max(s) \in s
  BY <1>0, FS_Subset, MaxIsGreatest
<1>3. \E i : Steps(i)
  <2>1. PICK i : AddsUp(i, S, w)
    <3> HIDE DEF w
    <3> QED BY <1>0, TallyExists
  <2>2. \A s \in SUBSET S : s # {} => w[Max(s)] = Weight(weights, g[Max(s)])
    BY <1>2
  <2>3. Steps(i)
    <3> HIDE DEF w
    <3> QED BY <2>1, <2>2 DEF AddsUp
  <2> HIDE DEF Steps
  <2> QED BY <2>3
<1>4. Steps(iter)
  <2> HIDE DEF Steps
  <2> QED BY <1>3, Zenon
<1> HIDE DEF iter
<1>5. \A s \in SUBSET S : iter[s] = IF s = {} THEN 0
                                    ELSE Rounded(iter[s \ {Max(s)}] + Weight(weights, g[Max(s)]))
  BY <1>4
<1> DEFINE Near32(s) == /\ iter[s] \in Int /\ F[s] \in Int /\ Cardinality(s) \in Nat
                        /\ F[s] - 32 * Cardinality(s) <= iter[s]
                        /\ iter[s] <= F[s] + 32 * Cardinality(s)
           Bad == {s \in SUBSET S : ~Near32(s)}
<1>6. Bad = {}
  <2> SUFFICES ASSUME Bad # {} PROVE FALSE
    OBVIOUS
  <2>1. PICK s \in Bad : \A x \in s : s \ {x} \notin Bad
    <3> HIDE DEF Bad
    <3> QED BY <1>0, SmallestSet DEF Bad
  <2>2. CASE s = {}
    <3>1. iter[{}] = 0 /\ F[{}] = 0 /\ Cardinality({}) = 0
      BY <1>5, FS_EmptySet DEF IsSum
    <3>2. Near32({})
      BY <3>1
    <3> QED BY <2>1, <2>2, <3>2
  <2>3. CASE s # {}
    <3> DEFINE m == Max(s)
               t == s \ {m}
               x == iter[t] + h[m]
    <3>1. m \in s /\ IsFiniteSet(s)
      BY <1>2, <2>1, <2>3
    <3>2. t \in SUBSET S /\ Near32(t)
      BY <2>1, <3>1
    <3>3. Cardinality(s) = Cardinality(t) + 1 /\ Cardinality(t) \in Nat
      <4> HIDE DEF m
      <4>1. Cardinality(s) \in Nat /\ IsFiniteSet(t)
        BY <3>1, FS_CardinalityType, FS_RemoveElement
      <4>2. Cardinality(t) = Cardinality(s) - 1
        BY <3>1, FS_RemoveElement
      <4> QED BY <4>1, <4>2, FS_CardinalityType
    <3>4. F[s] = h[m] + F[t]
      <4>1. s \in SUBSET DOMAIN g /\ t \in SUBSET DOMAIN g /\ m \in s /\ s \ {m} = t
        BY <2>1, <3>1
      <4> QED BY <4>1, SumStep
    <3>5. h[m] = Weight(weights, g[m]) /\ h[m] \in Int
      BY <2>1, <3>1
    <3>6. iter[s] = Rounded(x)
      BY <1>5, <2>1, <2>3, <3>5
    <3>7. x \in Int
      BY <3>2, <3>5
    <3>8. Rounded(x) \in Int /\ x - 32 <= Rounded(x) /\ Rounded(x) <= x + 32
      <4> HIDE DEF x
      <4> QED BY <3>7, RoundedNear
    <3>10. x = iter[t] + h[m]
      OBVIOUS
    <3> HIDE DEF m, t, x
    <3>9. Near32(s)
      BY <3>2, <3>3, <3>4, <3>5, <3>6, <3>7, <3>8, <3>10
    <3> QED BY <2>1, <3>9
  <2> QED BY <2>2, <2>3
<1>7. Near32(S)
  BY <1>6
<1> QED BY <1>1, <1>7

\* The weight of places is the weight of their nodes.
LEMMA SumMoves ==
  ASSUME NEW g, Candidates(g), NEW h, NEW F, IsSum(F, DOMAIN g, h),
         NEW w, NEW W, IsSum(W, Image(g, DOMAIN g), w), \A k \in DOMAIN g : h[k] = w[g[k]],
         NEW S \in SUBSET DOMAIN g
  PROVE  F[S] = W[Image(g, S)]
<1> DEFINE Good == {U \in SUBSET S : F[U] = W[Image(g, U)]}
<1>1. {} \in Good
  <2>1. Image(g, {}) = {}
    BY DEF Image
  <2> QED BY <2>1 DEF IsSum
<1>2. ASSUME NEW U \in SUBSET S, U \in Good, NEW x \in S \ U
      PROVE  U \cup {x} \in Good
  <2>1. U \cup {x} \in SUBSET DOMAIN g /\ x \in U \cup {x} /\ (U \cup {x}) \ {x} = U
    BY <1>2
  <2>2. /\ Image(g, U \cup {x}) \in SUBSET Image(g, DOMAIN g)
        /\ g[x] \in Image(g, U \cup {x})
        /\ Image(g, U \cup {x}) \ {g[x]} = Image(g, U)
    BY <1>2 DEF Image, Candidates
  <2>3. F[U \cup {x}] = h[x] + F[U]
    BY <2>1 DEF IsSum
  <2>4. W[Image(g, U \cup {x})] = w[g[x]] + W[Image(g, U)]
    <3> DEFINE V == Image(g, U \cup {x})
               B == Image(g, U)
               A == Image(g, DOMAIN g)
               n == g[x]
    <3>1. B \in SUBSET A /\ V \in SUBSET A /\ n \in V /\ V \ {n} = B /\ IsSum(W, A, w)
      <4>1. Image(g, U) \in SUBSET Image(g, DOMAIN g)
        BY DEF Image
      <4> QED BY <2>2, <4>1
    <3>2. W[V] = w[n] + W[B]
      <4> HIDE DEF V, B, A, n
      <4> QED BY <3>1, SumStep
    <3> QED BY <3>2
  <2>5. h[x] = w[g[x]] /\ F[U] = W[Image(g, U)]
    BY <1>2
  <2>6. F[U \cup {x}] = W[Image(g, U \cup {x})]
    BY <2>3, <2>4, <2>5
  <2> QED BY <2>6
<1>3. S \in Good
  <2>1. IsFiniteSet(S)
    BY FS_Subset DEF Candidates
  <2> HIDE DEF Good
  <2> QED BY <1>1, <1>2, <2>1, FiniteInduction
<1> QED BY <1>3

LEMMA WeightedArbitrates ==
  ASSUME NEW g, Candidates(g), DOMAIN g # {}, NEW weights,
         \A k \in DOMAIN g : Weight(weights, g[k]) \in Int, NEW o \in WeightedVote(g, weights)
  PROVE  /\ Result(g, o).results \subseteq Image(g, DOMAIN g)
         /\ Is_WeightedVote(Image(g, DOMAIN g), weights, Result(g, o))
<1> DEFINE D == DOMAIN g
           A == Image(g, D)
           r == Result(g, o)
           h == [k \in D |-> Weight(weights, g[k])]
           w == [n \in A |-> Weight(weights, n)]
           Of(i) == SubGroup(g, i)
           tally(S) == Tally(g, S, weights)
           count == Cardinality(D)
           support(n) == Support(SameFact(A, n), weights)
           margin(n) == 2 * support(n) - Support(A, weights)
\* Supports are sums over subsets of all places, and tallies are near them.
<1>1. IsFiniteSet(D) /\ IsFiniteSet(A) /\ Cardinality(A) = count /\ count \in Nat
  BY ImageSize, FS_CardinalityType DEF Candidates
<1>2. /\ \A k \in D : h[k] \in Int /\ h[k] = w[g[k]] /\ h[k] = Weight(weights, g[k])
      /\ \A n \in A : w[n] \in Int
  BY DEF Image
<1>3. PICK F : IsSum(F, D, h)
  <2> HIDE DEF D, h
  <2> QED BY <1>1, <1>2, SumExists
<1>4. PICK W : IsSum(W, A, w)
  <2> HIDE DEF A, w
  <2> QED BY <1>1, <1>2, SumExists
<1>5. ASSUME NEW S \in SUBSET D
      PROVE  /\ Support(Image(g, S), weights) = F[S] /\ F[S] \in Int /\ tally(S) \in Int
             /\ F[S] - 32 * count <= tally(S) /\ tally(S) <= F[S] + 32 * count
  <2>1. /\ tally(S) \in Int /\ F[S] \in Int /\ Cardinality(S) \in Nat
        /\ F[S] - 32 * Cardinality(S) <= tally(S)
        /\ tally(S) <= F[S] + 32 * Cardinality(S)
    <3>1. IsFiniteSet(DOMAIN g) /\ DOMAIN g \subseteq Nat
      BY DEF Candidates
    <3> HIDE DEF h
    <3> QED BY <1>2, <1>3, <3>1, TallyNear
  <2>2. Cardinality(S) <= count
    BY <1>1, FS_Subset
  <2>3. Support(Image(g, S), weights) = W[Image(g, S)]
    <3> DEFINE B == Image(g, S)
               f == [n \in B |-> Weight(weights, n)]
    <3>1. B \in SUBSET A
      BY DEF Image
    <3>2. DOMAIN f = B /\ \A n \in B : f[n] = w[n]
      BY <3>1
    <3>3. SumFunction(f) = W[B]
      <4> HIDE DEF f, B, w, A
      <4> QED BY <1>1, <1>4, <3>1, <3>2, SumIs
    <3> QED BY <3>3 DEF Support
  <2>4. F[S] = W[Image(g, S)]
    <3> HIDE DEF h, w
    <3> QED BY <1>2, <1>3, <1>4, SumMoves
  <2> HIDE DEF tally, count, D
  <2> QED BY <1>1, <2>1, <2>2, <2>3, <2>4
<1>6. \A i \in D : Of(i) \in SUBSET D /\ i \in Of(i) /\ SameFact(A, g[i]) = Image(g, Of(i))
  BY DEF SubGroup, SameFact, Image
<1>7. /\ \A i \in D : support(g[i]) = F[Of(i)] /\ margin(g[i]) = 2 * F[Of(i)] - F[D]
      /\ \A n \in A : \E i \in D : n = g[i]
  <2>1. Support(A, weights) = F[D]
    BY <1>5
  <2>2. \A i \in D : support(g[i]) = F[Of(i)]
    BY <1>5, <1>6
  <2>3. \A n \in A : \E i \in D : n = g[i]
    BY DEF Image
  <2> QED BY <2>1, <2>2, <2>3
<1>8. Slack(A) = 128 * count
  BY <1>1 DEF Slack, Coarsest
<1>9. PICK S \in SubGroups(g) :
         /\ \A T \in SubGroups(g) : tally(T) <= tally(S)
         /\ o = IF Majority(tally(S), tally(D)) THEN Answered({First(S)}) ELSE Refused
  BY DEF WeightedVote
<1>10. PICK i \in D : S = Of(i)
  BY DEF SubGroups
\* The tallies of all groups, and the sums they are near.
<1>11. /\ F[S] \in Int /\ F[D] \in Int /\ tally(S) \in Int /\ tally(D) \in Int
       /\ F[S] >= tally(S) - 32 * count
       /\ F[D] <= tally(D) + 32 * count /\ F[D] >= tally(D) - 32 * count
       /\ \A j \in D : /\ F[Of(j)] \in Int /\ tally(Of(j)) \in Int
                        /\ F[Of(j)] <= tally(Of(j)) + 32 * count /\ tally(Of(j)) <= tally(S)
  <2>1. S \in SUBSET D /\ D \in SUBSET D /\ \A j \in D : Of(j) \in SUBSET D
    BY <1>6, <1>10
  <2>2. \A j \in D : Of(j) \in SubGroups(g)
    BY DEF SubGroups
  <2>3. \A T \in SUBSET D : /\ F[T] \in Int /\ tally(T) \in Int
                            /\ F[T] - 32 * count <= tally(T) /\ tally(T) <= F[T] + 32 * count
    BY <1>5
  <2> HIDE DEF tally, count, Of, D
  <2>4. \A T \in SUBSET D : F[T] <= tally(T) + 32 * count /\ F[T] >= tally(T) - 32 * count
    BY <1>1, <2>3
  <2> QED BY <1>9, <2>1, <2>2, <2>3, <2>4
<1>12. CASE 2 * tally(S) > tally(D)
  <2> DEFINE f == First(S)
  <2>1. f \in S /\ f \in D /\ Of(f) = S
    <3>1. f \in S
      BY <1>6, <1>10, FirstIsLeast DEF Candidates
    <3> QED BY <1>10, <3>1 DEF SubGroup
  <2>2. o = Answered({f})
    BY <1>9, <1>12 DEF Majority
  <2>3. r = Answered({g[f]}) /\ r.results = {g[f]} /\ g[f] \in A
    BY <2>1, <2>2 DEF Result, Answered, Image
  <2>4. margin(g[f]) > -Slack(A)
    <3>1. margin(g[f]) = 2 * F[S] - F[D]
      BY <1>7, <2>1
    <3> HIDE DEF tally, count, D, A, margin
    <3> QED BY <1>1, <1>8, <1>11, <1>12, <3>1
  <2>5. ASSUME NEW m \in A PROVE support(m) <= support(g[f]) + Slack(A)
    <3>1. PICK j \in D : m = g[j]
      BY <1>7, <2>5
    <3>2. support(m) = F[Of(j)] /\ support(g[f]) = F[S]
      BY <1>7, <2>1, <3>1
    <3> HIDE DEF tally, count, D, A, Of, support
    <3>3. F[Of(j)] \in Int /\ tally(Of(j)) \in Int /\ F[Of(j)] <= tally(Of(j)) + 32 * count
          /\ tally(Of(j)) <= tally(S)
      BY <1>11, <3>1
    <3> QED BY <1>1, <1>8, <1>11, <3>2, <3>3
  <2>6. Is_WeightedVote(A, weights, r)
    <3> HIDE DEF A, r, f
    <3> QED BY <2>3, <2>4, <2>5 DEF Is_WeightedVote
  <2> QED BY <2>3, <2>6
<1>13. CASE ~(2 * tally(S) > tally(D))
  <2>1. o = Refused
    BY <1>9, <1>13 DEF Majority
  <2>2. r = Refused /\ r.results \subseteq A
    BY <2>1 DEF Result, Refused, Image
  <2>3. ASSUME NEW n \in A PROVE margin(n) <= Slack(A)
    <3>1. PICK j \in D : n = g[j]
      BY <1>7, <2>3
    <3>2. margin(n) = 2 * F[Of(j)] - F[D]
      BY <1>7, <3>1
    <3> HIDE DEF tally, count, D, A, Of, margin
    <3>3. F[Of(j)] \in Int /\ tally(Of(j)) \in Int /\ F[Of(j)] <= tally(Of(j)) + 32 * count
          /\ tally(Of(j)) <= tally(S)
      BY <1>11, <3>1
    <3> QED BY <1>1, <1>8, <1>11, <1>13, <3>2, <3>3
  <2>4. Is_WeightedVote(A, weights, r)
    <3> HIDE DEF A, r
    <3> QED BY <2>2, <2>3 DEF Is_WeightedVote
  <2> QED BY <2>2, <2>4
<1> QED BY <1>12, <1>13

-----------------------------------------------------------------------------
(* Answers.                                                                *)

\* Weights are numbers, negative ones among them: handler.rs:68-83 takes any.
Weighable(q) ==
  q.policy.kind = "WeightedVote" => \A n \in Nodes : Weight(q.policy.weights, n) \in Int

LEMMA OutcomesArbitrate ==
  ASSUME NEW g, Candidates(g), \A k \in DOMAIN g : g[k] \in Nodes,
         NEW q, Weighable(q), q.policy.kind \in PolicyKinds,
         NEW o \in Outcomes(g, q.policy)
  PROVE  Arbitrated(Image(g, DOMAIN g), q.policy, Result(g, o))
<1> DEFINE A == Image(g, DOMAIN g)
           r == Result(g, o)
           p == q.policy
<1>1. Cardinality(A) = Cardinality(DOMAIN g) /\ Cardinality(DOMAIN g) \in Nat
  BY ImageSize, FS_CardinalityType DEF Candidates
<1>2. CASE Cardinality(DOMAIN g) <= 1
  <2>1. o = Answered(DOMAIN g)
    BY <1>2 DEF Outcomes
  <2>2. r = Answered(A)
    BY <2>1 DEF Result, Answered, Image
  <2>3. ~(Cardinality(A) > 1) /\ r.results = A
    BY <1>1, <1>2, <2>2 DEF Answered
  <2> HIDE DEF A, r
  <2>4. Arbitrated(A, q.policy, r)
    BY <2>2, <2>3, Zenon DEF Arbitrated
  <2> QED BY <2>4 DEF A, r
<1>3. CASE ~(Cardinality(DOMAIN g) <= 1)
  <2>1. DOMAIN g # {} /\ ~(Cardinality(A) <= 1)
    BY <1>1, <1>3, FS_EmptySet
  <2>2. CASE p.kind = "LatestWins"
    <3>1. o \in LatestWins(g)
      BY <1>3, <2>2 DEF Outcomes
    <3>2. Is_LatestWins(A, r) /\ r.results \subseteq A
      BY <3>1, LatestArbitrates DEF LatestWins, Result, Image
    <3> QED BY <2>1, <2>2, <3>2 DEF Arbitrated
  <2>3. CASE p.kind = "HighestAuthority"
    <3>1. o \in HighestAuthority(g)
      BY <1>3, <2>3 DEF Outcomes
    <3>2. Is_HighestAuthority(A, r) /\ r.results \subseteq A
      BY <3>1, HighestArbitrates
    <3> QED BY <2>1, <2>3, <3>2 DEF Arbitrated
  <2>4. CASE p.kind = "Unanimous"
    <3>1. o \in Unanimous(g)
      BY <1>3, <2>4 DEF Outcomes
    <3>2. Is_Unanimous(A, r) /\ r.results \subseteq A
      BY <2>1, <3>1, UnanimousArbitrates
    <3> QED BY <2>1, <2>4, <3>2 DEF Arbitrated
  <2>5. CASE p.kind = "WeightedVote"
    <3>1. o \in WeightedVote(g, p.weights)
      BY <1>3, <2>5 DEF Outcomes
    <3>2. Is_WeightedVote(A, p.weights, r) /\ r.results \subseteq A
      BY <2>1, <2>5, <3>1, WeightedArbitrates DEF Weighable
    <3> QED BY <2>1, <2>5, <3>2 DEF Arbitrated
  <2>6. CASE p.kind = "Custom"
    <3>1. o = Refused
      BY <1>3, <2>6 DEF Outcomes
    <3>2. r = Refused /\ r.results \subseteq A
      BY <3>1 DEF Result, Refused, Image
    <3> QED BY <2>1, <2>6, <3>2 DEF Arbitrated
  <2> QED BY <2>2, <2>3, <2>4, <2>5, <2>6 DEF PolicyKinds
<1> QED BY <1>2, <1>3

\* The candidates of a call are the nodes it considers, each once.
LEMMA MatchesAreCandidates ==
  ASSUME QueryInv, NEW c \in Clients, Asked(c), Unrepeated(call[c])
  PROVE  LET m == Matches(got[c], call[c])
         IN /\ Candidates(m) /\ \A k \in DOMAIN m : m[k] \in Nodes
            /\ Image(m, DOMAIN m) = Considered(c)
<1> DEFINE q == call[c]
           P == {k \in DOMAIN got[c] : Eligible(got[c][k], q) /\ Bound(q.pattern, got[c][k].pred)}
           m == Matches(got[c], q)
<1>1. m = [k \in P |-> got[c][k]]
  BY Zenon DEF Matches, RestrictValues, Restrict
<1>2. /\ got[c] \in Seq(Nodes) /\ DOMAIN got[c] = 1..Len(got[c]) /\ Len(got[c]) \in Nat
      /\ \A j, k \in DOMAIN got[c] : j # k => got[c][j].id # got[c][k].id
  BY DEF QueryInv, TypeInv, OnceInv
<1>3. IsFiniteSet(P) /\ P \subseteq Nat
  <2>1. IsFiniteSet(1..Len(got[c])) /\ P \subseteq 1..Len(got[c])
    BY <1>2, FS_Interval
  <2>2. IsFiniteSet(P)
    BY <2>1, FS_Subset
  <2> QED BY <1>2, <2>1, <2>2
<1>4. \A k \in P : m[k] = got[c][k] /\ got[c][k] \in Nodes
  BY <1>1, <1>2
<1>5. DOMAIN m = P
  BY <1>1
<1>6. Candidates(m) /\ \A k \in DOMAIN m : m[k] \in Nodes
  <2>1. \A k \in P : m[k].auth \in Int
    BY <1>4, QueryAssumption DEF QueryAssumption
  <2>2. \A j, k \in P : j # k => m[j] # m[k]
    BY <1>2, <1>4
  <2> HIDE DEF m, P
  <2> QED BY <1>3, <1>4, <1>5, <2>1, <2>2 DEF Candidates
<1>7. \A n : Eligible(n, q) <=> Relevant(n, q)
  BY DEF Eligible, Relevant, Grants, ValidAt
<1>8. Image(m, DOMAIN m) = Considered(c)
  <2>1. Image(m, DOMAIN m) = {got[c][k] : k \in P}
    BY <1>4, <1>5 DEF Image
  <2> QED BY <1>7, <2>1 DEF Considered, RangeOf
<1> QED BY <1>6, <1>8

\* What the last answer of a client must be.
AnswerInv(c) ==
  pc[c] = "idle" /\ Asked(c) => Arbitrated(Considered(c), call[c].policy, reply[c])

LEMMA AnswerArbitrates ==
  ASSUME QueryInv, NEW c \in Clients, Answer(c), Unrepeated(call[c]), Weighable(call[c])
  PROVE  Arbitrated(Considered(c), call[c].policy, reply'[c])
<1> DEFINE q == call[c]
           m == Matches(got[c], q)
<1>1. Asked(c) /\ q \in Calls
  BY DEF QueryInv, TypeInv, PendingInv, Answer
<1>2. q.policy.kind \in PolicyKinds
  <2>1. CASE q \in Queries
    BY <2>1, QueryAssumption DEF QueryAssumption
  <2>2. ASSUME NEW p \in ToolQueries, q = ToolCall(p) PROVE q.policy.kind \in PolicyKinds
    <3>1. q.policy = PolicyOf(p)
      BY <2>2 DEF ToolCall
    <3>2. PolicyOf(p).kind \in PolicyKinds
      BY DEF PolicyOf, PolicyKinds
    <3> QED BY <3>1, <3>2
  <2> QED BY <1>1, <2>1, <2>2 DEF Calls
<1>3. PICK o \in Outcomes(m, q.policy) : reply'[c] = Result(m, o)
  <2>1. PICK o \in Outcomes(m, q.policy) :
          reply' = [reply EXCEPT ![c] = [results |-> {m[k] : k \in o.results},
                                         ambiguous |-> o.ambiguous]]
    BY DEF Answer
  <2>2. c \in DOMAIN reply
    BY DEF QueryInv, TypeInv
  <2> QED BY <2>1, <2>2 DEF Result, Image
<1>4. Candidates(m) /\ (\A k \in DOMAIN m : m[k] \in Nodes) /\ Image(m, DOMAIN m) = Considered(c)
  BY <1>1, MatchesAreCandidates
<1>5. Arbitrated(Image(m, DOMAIN m), q.policy, Result(m, o))
  <2> HIDE DEF m, q
  <2> QED BY <1>2, <1>3, <1>4, OutcomesArbitrate DEF q
<1> QED BY <1>3, <1>4, <1>5

\* An answer stays what it is until its client asks again.
LEMMA AnswersStay ==
  ASSUME QueryInv, [Next]_vars, NEW c \in Clients, ~Answer(c)
  PROVE  \/ pc'[c] # "idle"
         \/ /\ pc'[c] = pc[c] /\ asking'[c] = asking[c] /\ call'[c] = call[c]
            /\ got'[c] = got[c] /\ reply'[c] = reply[c]
<1> USE DEF QueryInv, TypeInv
<1>1. ASSUME NEW d \in Clients, NEW q \in Calls, Begin(d, q)
      PROVE  \/ pc'[c] # "idle"
             \/ /\ pc'[c] = pc[c] /\ asking'[c] = asking[c] /\ call'[c] = call[c]
                /\ got'[c] = got[c] /\ reply'[c] = reply[c]
  BY <1>1 DEF Begin
<1>2. ASSUME NEW d \in Clients, Scan(d) \/ ScanFails(d) \/ Fetch(d) \/ FetchFails(d)
      PROVE  \/ pc'[c] # "idle"
             \/ /\ pc'[c] = pc[c] /\ asking'[c] = asking[c] /\ call'[c] = call[c]
                /\ got'[c] = got[c] /\ reply'[c] = reply[c]
  BY <1>2 DEF Scan, ScanFails, Fetch, FetchFails
<1>3. ASSUME NEW d \in Clients \ {c}, Answer(d)
      PROVE  /\ pc'[c] = pc[c] /\ asking'[c] = asking[c] /\ call'[c] = call[c]
             /\ got'[c] = got[c] /\ reply'[c] = reply[c]
  BY <1>3 DEF Answer
<1>4. CASE StoreStep \/ Publish \/ UNCHANGED vars
  BY <1>4 DEF StoreStep, Publish, vars, engine
<1> QED BY <1>1, <1>2, <1>3, <1>4 DEF Next, Query, ToolQuery, Finished, Calls

\* For any store, clients and calls: the answer of a query is what its policy
\* says of the nodes considered, taken as a set, whatever order the indexes list
\* them in and whoever writes meanwhile (query.rs:93-137, arbitration.rs:3-31) --
\* with the exception AnswersArbitrate makes of votes within the slack of f32 of
\* a half. Weights are any numbers. Provided no node names the entity looked up
\* more than once: the in-memory index lists it once per mention, and it is then
\* arbitrated against itself.
THEOREM AnswersAlwaysArbitrate ==
  ASSUME \A q \in Queries : Unrepeated(q), \A q \in Calls : Weighable(q)
  PROVE  Spec => []AnswersArbitrate
<1> DEFINE Answers == \A c \in Clients : AnswerInv(c)
<1>1. \A q \in Calls : Unrepeated(q)
  BY DEF Calls, ToolCall, Unrepeated
<1>2. Init => QueryInv /\ Answers
  BY QueryInvInit DEF Init, AnswerInv, Asked
<1>3. QueryInv /\ Answers /\ [Next]_vars => QueryInv' /\ Answers'
  <2> SUFFICES ASSUME QueryInv, Answers, [Next]_vars PROVE QueryInv' /\ Answers'
    OBVIOUS
  <2>1. ASSUME NEW c \in Clients, Answer(c) PROVE AnswerInv(c)'
    <3>1. Asked(c) /\ call[c] \in Calls
      BY <2>1 DEF QueryInv, TypeInv, PendingInv, Answer
    <3>2. Arbitrated(Considered(c), call[c].policy, reply'[c])
      BY <1>1, <2>1, <3>1, AnswerArbitrates
    <3>3. got' = got /\ call' = call
      BY <2>1 DEF Answer
    <3>4. Considered(c)' = Considered(c)
      BY <3>3 DEF Considered, RangeOf, Relevant
    <3> QED BY <3>2, <3>3, <3>4 DEF AnswerInv
  <2>2. ASSUME NEW c \in Clients, ~Answer(c) PROVE AnswerInv(c)'
    <3>1. CASE pc'[c] # "idle"
      BY <3>1 DEF AnswerInv
    <3>2. CASE /\ pc'[c] = pc[c] /\ asking'[c] = asking[c] /\ call'[c] = call[c]
               /\ got'[c] = got[c] /\ reply'[c] = reply[c]
      <4>1. Considered(c)' = Considered(c) /\ (Asked(c)' <=> Asked(c))
        BY <3>2 DEF Considered, RangeOf, Relevant, Asked
      <4>2. AnswerInv(c)
        OBVIOUS
      <4> QED BY <3>2, <4>1, <4>2 DEF AnswerInv
    <3> QED BY <2>2, <3>1, <3>2, AnswersStay
  <2> QED BY <2>1, <2>2, QueryInvInductive
<1>4. Answers => AnswersArbitrate
  BY DEF AnswerInv, AnswersArbitrate
<1> QED BY <1>2, <1>3, <1>4, PTL DEF Spec
=============================================================================
