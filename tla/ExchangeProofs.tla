--------------------------- MODULE ExchangeProofs ---------------------------
(***************************************************************************)
(* Proofs about the exchange of text of module Exchange, for any texts,    *)
(* parser, serializer, matching and verifiers that fulfil its assumptions, *)
(* and any number of requests.                                             *)
(***************************************************************************)
EXTENDS ExchangeProperties, FiniteSetTheorems, SequenceTheorems, TLAPS

Fact == [node : Storable, status : Statuses]

\* The clients have their requests and answers, and others ask for known ids.
Framed ==
  /\ request = [c \in Clients |-> request[c]]
  /\ answer = [c \in Clients |-> answer[c]]
  /\ told = [c \in Clients |-> told[c]]
  /\ asked \subseteq Ids

Typed == TypeOK /\ Framed

\* What a step does not take back: the facts' nodes and the review events.
Persists ==
  /\ \A i \in Ids : Known(i) => Known(i)' /\ facts'[i].node = facts[i].node
  /\ flagged \subseteq flagged'

-----------------------------------------------------------------------------
(* What the steps are made of.                                             *)

LEMMA FactIsKnown == \A f \in Fact : f # None
BY ExchangeAssumption DEF ExchangeAssumption, Fact

\* A node is found under its id after it was learned, and nothing is lost.
LEMMA LearnStep ==
  ASSUME Typed, NEW S \in SUBSET Storable, Learn(S)
  PROVE /\ facts' \in [Ids -> Fact \cup {None}]
        /\ \A i \in Ids : Known(i)' => facts'[i].node.id = i
        /\ \A i \in Ids : Known(i) => Known(i)' /\ facts'[i].node = facts[i].node
        /\ \A n \in S : n.id \in Ids /\ facts'[n.id] = [node |-> n, status |-> "Active"]
        /\ asked' = asked
<1> DEFINE New(i) == [node |-> CHOOSE n \in S : n.id = i, status |-> "Active"]
           IsNew(i) == \E n \in S : n.id = i
<1>1. facts' = [i \in Ids |-> IF IsNew(i) THEN New(i) ELSE facts[i]] /\ asked' = asked
  BY DEF Learn
<1>2. ASSUME NEW n \in S PROVE n.id \in Ids /\ New(n.id) = [node |-> n, status |-> "Active"]
  <2>1. (CHOOSE m \in S : m.id = n.id) = n
    BY <1>2 DEF Learn
  <2> QED BY <2>1, <1>2, ExchangeAssumption DEF ExchangeAssumption
<1>3. \A i \in Ids : IsNew(i) => New(i) \in Fact /\ New(i).node.id = i /\ facts[i] = None
  <2> SUFFICES ASSUME NEW i \in Ids, NEW n \in S, n.id = i
               PROVE New(i) \in Fact /\ New(i).node.id = i /\ facts[i] = None
    OBVIOUS
  <2>1. New(i) = [node |-> n, status |-> "Active"]
    BY <1>2
  <2> HIDE DEF New
  <2> QED BY <2>1 DEF Fact, Statuses, Learn
<1>4. facts \in [Ids -> Fact \cup {None}] /\ \A i \in Ids : Known(i) => facts[i].node.id = i
  BY DEF Typed, TypeOK, Fact
<1> HIDE DEF New, IsNew
<1>5. \A n \in S : n.id \in Ids /\ facts'[n.id] = [node |-> n, status |-> "Active"]
  BY <1>1, <1>2 DEF IsNew
<1> QED BY <1>1, <1>3, <1>4, <1>5, FactIsKnown DEF Known

\* The store takes all nodes of a call, or refuses them and changes nothing.
LEMMA StoredStep ==
  ASSUME Typed, NEW c, NEW tool, NEW input, NEW ok,
         NEW nodes, Range(nodes) \subseteq Storable, Stored(c, tool, input, nodes, ok)
  PROVE /\ facts' \in [Ids -> Fact \cup {None}]
        /\ \A i \in Ids : Known(i)' => facts'[i].node.id = i
        /\ \A i \in Ids : Known(i) => Known(i)' /\ facts'[i].node = facts[i].node
        /\ asked' = asked
<1>1. CASE StoreError(nodes) = ""
  <2>1. Learn(Range(nodes)) /\ Answered(c, tool, input, ok)
    BY <1>1 DEF Stored
  <2> QED BY <2>1, LearnStep
<1>2. CASE StoreError(nodes) # ""
  <2>1. facts' = facts /\ asked' = asked /\ Answered(c, tool, input, Error(StoreError(nodes)))
    BY <1>2 DEF Stored, StoreSame
  <2> QED BY <2>1, <1>2 DEF Typed, TypeOK, Fact, Known
<1> QED BY <1>1, <1>2

LEMMA StoredKinds ==
  ASSUME Typed, NEW c, NEW tool, NEW input, NEW ok,
         NEW nodes, Range(nodes) \subseteq Storable, Stored(c, tool, input, nodes, ok)
  PROVE \/ facts' = facts /\ Answered(c, tool, input, Error(StoreError(nodes)))
        \/ /\ Answered(c, tool, input, ok)
           /\ \A n \in Range(nodes) : n.id \in Ids /\ facts'[n.id] = [node |-> n, status |-> "Active"]
<1>1. CASE StoreError(nodes) = ""
  <2>1. Learn(Range(nodes)) /\ Answered(c, tool, input, ok)
    BY <1>1 DEF Stored
  <2> QED BY <2>1, LearnStep
<1>2. CASE StoreError(nodes) # ""
  BY <1>2 DEF Stored, StoreSame
<1> QED BY <1>1, <1>2

-----------------------------------------------------------------------------
(* Whose turn it is, and with what.                                        *)

Tool(c, tool, input) == request'[c].tool = tool /\ request'[c].input = input

\* A step leaves a client's request and answer alone, or is one of its requests.
LEMMA AnsweredTurn ==
  ASSUME Framed, NEW c \in Clients, NEW tool, NEW input, NEW a, Answered(c, tool, input, a)
  PROVE /\ request'[c].tool = tool /\ request'[c].input = input /\ answer'[c] = a
        /\ request' = [d \in Clients |-> request'[d]] /\ answer' = [d \in Clients |-> answer'[d]]
        /\ \A d \in Clients \ {c} : request'[d] = request[d] /\ answer'[d] = answer[d]
        /\ requests < MaxRequests /\ requests' = requests + 1
<1> DEFINE new == [tool |-> tool, input |-> input, no |-> requests']
<1>1. request' = [request EXCEPT ![c] = new] /\ answer' = [answer EXCEPT ![c] = a]
  BY DEF Answered
<1>2. request'[c] = new
  BY <1>1 DEF Framed
<1>3. request'[c].tool = tool /\ request'[c].input = input
  BY <1>2
<1> HIDE DEF new
<1> QED BY <1>1, <1>3 DEF Framed, Answered

\* Every turn answers one client, with some request.
Turn(c) ==
  \E tool \in {"initialize", "insert", "batch", "assert", "query", "lookup", "search",
               "predicates", "stats", "list", "read"} : \E input, a : Answered(c, tool, input, a)

LEMMA InsertTurn ==
  ASSUME NEW c, NEW text, Insert(c, text)
  PROVE \E a : Answered(c, "insert", text, a)
BY DEF Insert, Refused, Stored

LEMMA BatchTurn ==
  ASSUME NEW c, NEW texts, InsertBatch(c, texts)
  PROVE \E a : Answered(c, "batch", texts, a)
BY DEF InsertBatch, Refused, Stored

LEMMA AssertTurn ==
  ASSUME NEW c, NEW a, AssertFact(c, a)
  PROVE \E answered : Answered(c, "assert", a, answered)
BY DEF AssertFact, Refused, Stored

\* The requests that read: the server stays as it is.
Reads(c) ==
  \/ \E text \in Questions : Query(c, text)
  \/ \E q \in Entities : Lookup(c, q)
  \/ \E q \in Searches : Search(c, q)
  \/ \E mode \in {"predicates", "stats"} : Overview(c, mode)
  \/ ListResources(c)
  \/ \E i \in Ids : ReadResource(c, i)

ReadingTools == {"query", "lookup", "search", "predicates", "stats", "list", "read"}

LEMMA ReadsTurn ==
  ASSUME NEW c, Reads(c)
  PROVE OnlyReads /\ \E tool \in ReadingTools : \E input, a : Answered(c, tool, input, a)
<1>1. ASSUME NEW text \in Questions, Query(c, text)
      PROVE OnlyReads /\ \E tool \in ReadingTools : \E input, a : Answered(c, tool, input, a)
  BY <1>1 DEF Query, Refused, ReadingTools
<1>2. ASSUME NEW q \in Entities, Lookup(c, q)
      PROVE OnlyReads /\ \E tool \in ReadingTools : \E input, a : Answered(c, tool, input, a)
  BY <1>2 DEF Lookup, ReadingTools
<1>3. ASSUME NEW q \in Searches, Search(c, q)
      PROVE OnlyReads /\ \E tool \in ReadingTools : \E input, a : Answered(c, tool, input, a)
  BY <1>3 DEF Search, Refused, ReadingTools
<1>4. ASSUME NEW mode \in {"predicates", "stats"}, Overview(c, mode)
      PROVE OnlyReads /\ \E tool \in ReadingTools : \E input, a : Answered(c, tool, input, a)
  BY <1>4 DEF Overview, ReadingTools
<1>5. ASSUME ListResources(c)
      PROVE OnlyReads /\ \E tool \in ReadingTools : \E input, a : Answered(c, tool, input, a)
  BY <1>5 DEF ListResources, ReadingTools
<1>6. ASSUME NEW i \in Ids, ReadResource(c, i)
      PROVE OnlyReads /\ \E tool \in ReadingTools : \E input, a : Answered(c, tool, input, a)
  BY <1>6 DEF ReadResource, Refused, ReadingTools
<1> QED BY <1>1, <1>2, <1>3, <1>4, <1>5, <1>6 DEF Reads

LEMMA RequestKinds ==
  ASSUME NEW c, Request(c)
  PROVE \/ \E text \in Documents : Insert(c, text)
        \/ \E texts \in Bundles : InsertBatch(c, texts)
        \/ \E a \in Assertions : AssertFact(c, a)
        \/ Reads(c)
BY DEF Request, Reads

-----------------------------------------------------------------------------
(* The nodes that are stored are those the clients can have stored.        *)

LEMMA RangeOfOne == \A x : Range(<<x>>) = {x}
<1> TAKE x
<1>1. DOMAIN <<x>> = {1} /\ <<x>>[1] = x
  OBVIOUS
<1> QED BY <1>1 DEF Range

LEMMA HeadInRange ==
  ASSUME NEW S, NEW s \in Seq(S), s # <<>>
  PROVE Head(s) \in Range(s)
<1>1. 1 \in DOMAIN s /\ Head(s) = s[1]
  OBVIOUS
<1> QED BY <1>1 DEF Range

LEMMA ParsedStorable ==
  ASSUME NEW text \in DOMAIN Parsed, Parsed[text].err = "", NEW n \in Range(Parsed[text].val)
  PROVE n \in FromText /\ Identified(n) \in FromText
<1> DEFINE Right == {u \in DOMAIN Parsed : Parsed[u].err = ""}
           Given == UNION {Range(Parsed[u].val) : u \in Right}
<1>1. n \in Given
  OBVIOUS
<1>2. FromText = UNION {{m, Identified(m)} : m \in Given}
  BY DEF FromText
<1> HIDE DEF Given
<1>3. {n, Identified(n)} \in {{m, Identified(m)} : m \in Given}
  BY <1>1
<1>4. {n, Identified(n)} \subseteq FromText
  BY <1>2, <1>3
<1> QED BY <1>4

LEMMA ParsedTexts ==
  /\ Documents \subseteq DOMAIN Parsed
  /\ \A texts \in Bundles : \A k \in DOMAIN texts : texts[k] \in DOMAIN Parsed
<1>1. DOMAIN Parsed = Documents \cup UNION {ToSet(b) : b \in Bundles}
  BY DEF Parsed
<1>2. \A texts \in Bundles : \A k \in DOMAIN texts : texts[k] \in ToSet(texts)
  BY DEF ToSet
<1> QED BY <1>1, <1>2

LEMMA InsertedStorable ==
  ASSUME NEW text \in Documents, Parsed[text].err = "", Parsed[text].val # <<>>
  PROVE Range(<<Identified(Head(Parsed[text].val))>>) \subseteq Storable
<1> DEFINE nodes == Parsed[text].val
<1>1. nodes \in Seq(Range(nodes)) /\ text \in DOMAIN Parsed
  BY ParsedTexts, ExchangeAssumption DEF ExchangeAssumption
<1>2. Head(nodes) \in Range(nodes)
  BY <1>1, HeadInRange
<1>3. Identified(Head(nodes)) \in FromText
  BY <1>1, <1>2, ParsedStorable
<1> HIDE DEF nodes
<1>4. Range(<<Identified(Head(nodes))>>) = {Identified(Head(nodes))}
  BY RangeOfOne
<1>5. {Identified(Head(nodes))} \subseteq Storable
  BY <1>3 DEF Storable
<1> QED BY <1>4, <1>5 DEF nodes

LEMMA BatchStorable ==
  ASSUME NEW texts \in Bundles, \A k \in DOMAIN texts : Parsed[texts[k]].err = ""
  PROVE Range(NodesOf(texts, DOMAIN texts)) \subseteq Storable
<1> DEFINE nodes == NodesOf(texts, DOMAIN texts)
<1>1. SUFFICES ASSUME NEW p \in DOMAIN nodes PROVE nodes[p] \in Storable
  BY DEF Range
<1>2. PICK k \in DOMAIN texts : p \in {k} \X DOMAIN Parsed[texts[k]].val
  BY DEF NodesOf
<1>3. p[1] = k /\ p[2] \in DOMAIN Parsed[texts[k]].val /\ nodes[p] = Parsed[texts[k]].val[p[2]]
  BY <1>2 DEF NodesOf
<1>4. nodes[p] \in Range(Parsed[texts[k]].val)
  BY <1>3 DEF Range
<1>5. nodes[p] \in FromText
  BY <1>2, <1>4, ParsedTexts, ParsedStorable
<1> QED BY <1>5 DEF Storable

LEMMA AssertedStorable ==
  ASSUME NEW a \in Assertions, ParsedPredicate[a.text].err = ""
  PROVE LET n == AssertedNode(a, ParsedPredicate[a.text].val)
        IN n \in FromAssertion /\ Range(<<n>>) \subseteq Storable
<1> DEFINE n == AssertedNode(a, ParsedPredicate[a.text].val)
<1>1. n \in FromAssertion
  BY DEF Claimed, FromAssertion
<1>2. Range(<<n>>) = {n} /\ {n} \subseteq Storable
  BY <1>1, RangeOfOne DEF Storable
<1> QED BY <1>1, <1>2

-----------------------------------------------------------------------------
(* Every step keeps the types and persists.                                *)

\* What a step may do to the store and its events.
Grows ==
  /\ facts' \in [Ids -> Fact \cup {None}]
  /\ \A i \in Ids : Known(i)' => facts'[i].node.id = i
  /\ asked' = asked
  /\ flagged' \subseteq Ids
  /\ Persists

LEMMA SameGrows ==
  ASSUME Typed, UNCHANGED <<facts, asked, flagged>>
  PROVE Grows
BY DEF Typed, TypeOK, Grows, Persists, Fact, Known

LEMMA StoredGrows ==
  ASSUME Typed, NEW c, NEW tool, NEW input, NEW ok, flagged \subseteq flagged', flagged' \subseteq Ids,
         NEW nodes, Range(nodes) \subseteq Storable, Stored(c, tool, input, nodes, ok)
  PROVE Grows /\ UNCHANGED <<preferred_form, verifying, told>>
<1>1. UNCHANGED <<preferred_form, verifying, told>>
  BY DEF Stored
<1> QED BY <1>1, StoredStep DEF Grows, Persists

LEMMA InsertGrows ==
  ASSUME Typed, NEW c \in Clients, NEW text \in Documents, Insert(c, text)
  PROVE Grows /\ UNCHANGED <<preferred_form, verifying, told>>
<1> DEFINE n == Identified(Head(Parsed[text].val))
<1>1. CASE Parsed[text].err = "" /\ Parsed[text].val # <<>>
  <2>1. Stored(c, "insert", text, <<n>>, [status |-> "ok", id |-> n.id]) /\ UNCHANGED flagged
    BY <1>1 DEF Insert
  <2>2. Range(<<n>>) \subseteq Storable
    BY <1>1, InsertedStorable
  <2> HIDE DEF n
  <2> QED BY <2>1, <2>2, StoredGrows DEF Typed, TypeOK
<1>2. CASE ~(Parsed[text].err = "" /\ Parsed[text].val # <<>>)
  <2>1. OnlyReads
    BY <1>2 DEF Insert, Refused
  <2> QED BY <2>1, SameGrows DEF OnlyReads, server
<1> QED BY <1>1, <1>2

\* What is stored when a batch is not refused outright.
LEMMA BatchKinds ==
  ASSUME NEW c, NEW texts, InsertBatch(c, texts)
  PROVE \/ OnlyReads /\ \E why : Answered(c, "batch", texts, Error(why))
        \/ /\ \A k \in DOMAIN texts : Parsed[texts[k]].err = ""
           /\ Stored(c, "batch", texts, NodesOf(texts, DOMAIN texts),
                     [status |-> "ok", inserted |-> Len(texts)])
           /\ UNCHANGED flagged
<1>1. CASE \E k \in DOMAIN texts : Parsed[texts[k]].err # ""
  BY <1>1 DEF InsertBatch, Refused
<1>2. CASE \A k \in DOMAIN texts : Parsed[texts[k]].err = ""
  BY <1>2 DEF InsertBatch, Refused
<1> QED BY <1>1, <1>2

LEMMA BatchGrows ==
  ASSUME Typed, NEW c \in Clients, NEW texts \in Bundles, InsertBatch(c, texts)
  PROVE Grows /\ UNCHANGED <<preferred_form, verifying, told>>
<1>1. CASE OnlyReads
  BY <1>1, SameGrows DEF OnlyReads, server
<1>2. CASE ~OnlyReads
  <2>1. /\ \A k \in DOMAIN texts : Parsed[texts[k]].err = ""
        /\ Stored(c, "batch", texts, NodesOf(texts, DOMAIN texts),
                  [status |-> "ok", inserted |-> Len(texts)])
        /\ UNCHANGED flagged
    BY <1>2, BatchKinds
  <2>2. Range(NodesOf(texts, DOMAIN texts)) \subseteq Storable
    BY <2>1, BatchStorable
  <2> QED BY <2>1, <2>2, StoredGrows DEF Typed, TypeOK
<1> QED BY <1>1, <1>2

\* An assertion is refused, or known already, or stored; it is flagged first.
LEMMA AssertKinds ==
  ASSUME NEW c, NEW a, AssertFact(c, a)
  PROVE LET n == AssertedNode(a, ParsedPredicate[a.text].val) IN
        \/ OnlyReads /\ \E why : Answered(c, "assert", a, Error(why))
        \/ /\ ParsedPredicate[a.text].err = ""
           /\ flagged' = IF check_confidence_band("Asserted", Units(n.conf)) THEN flagged
                         ELSE flagged \cup {n.id}
           /\ \/ /\ StoreError(<<n>>) = "AlreadyExists"
                 /\ \E action \in {"duplicate", "corroborated"} :
                      Answered(c, "assert", a, [status |-> "ok", id |-> n.id, action |-> action])
                 /\ UNCHANGED <<facts, asked, preferred_form, verifying, told>>
              \/ Stored(c, "assert", a, <<n>>, [status |-> "ok", id |-> n.id, action |-> "asserted"])
<1> DEFINE n == AssertedNode(a, ParsedPredicate[a.text].val)
<1>1. CASE ParsedPredicate[a.text].err # ""
  BY <1>1 DEF AssertFact, Refused
<1>2. CASE ParsedPredicate[a.text].err = "" /\ StoreError(<<n>>) = "AlreadyExists"
  BY <1>2 DEF AssertFact
<1>3. CASE ParsedPredicate[a.text].err = "" /\ StoreError(<<n>>) # "AlreadyExists"
  BY <1>3 DEF AssertFact
<1> QED BY <1>1, <1>2, <1>3

LEMMA AssertGrows ==
  ASSUME Typed, NEW c \in Clients, NEW a \in Assertions, AssertFact(c, a)
  PROVE Grows /\ UNCHANGED <<preferred_form, verifying, told>>
<1> DEFINE n == AssertedNode(a, ParsedPredicate[a.text].val)
<1>1. CASE OnlyReads
  BY <1>1, SameGrows DEF OnlyReads, server
<1>2. CASE ~OnlyReads
  <2>1. /\ ParsedPredicate[a.text].err = ""
        /\ flagged' = IF check_confidence_band("Asserted", Units(n.conf)) THEN flagged
                      ELSE flagged \cup {n.id}
        /\ \/ UNCHANGED <<facts, asked, preferred_form, verifying, told>>
           \/ Stored(c, "assert", a, <<n>>, [status |-> "ok", id |-> n.id, action |-> "asserted"])
    BY <1>2, AssertKinds
  <2>2. Range(<<n>>) \subseteq Storable /\ n.id \in Ids
    <3>1. n \in FromAssertion /\ Range(<<n>>) \subseteq Storable
      BY <2>1, AssertedStorable
    <3> HIDE DEF n
    <3> QED BY <3>1, ExchangeAssumption DEF ExchangeAssumption, Storable
  <2> HIDE DEF n
  <2>3. flagged \subseteq flagged' /\ flagged' \subseteq Ids
    BY <2>1, <2>2 DEF Typed, TypeOK
  <2>4. CASE UNCHANGED <<facts, asked, preferred_form, verifying, told>>
    BY <2>3, <2>4 DEF Typed, TypeOK, Grows, Persists, Fact, Known
  <2> QED BY <2>1, <2>2, <2>3, <2>4, StoredGrows
<1> QED BY <1>1, <1>2

LEMMA RequestGrows ==
  ASSUME Typed, NEW c \in Clients, Request(c)
  PROVE Grows /\ UNCHANGED <<preferred_form, verifying, told>>
<1>1. CASE Reads(c)
  BY <1>1, ReadsTurn, SameGrows DEF OnlyReads, server
<1> QED BY <1>1, RequestKinds, InsertGrows, BatchGrows, AssertGrows

Tools == {"insert", "batch", "assert"} \cup ReadingTools

LEMMA RequestTurn ==
  ASSUME NEW c, Request(c)
  PROVE \E tool \in Tools : \E input, a : Answered(c, tool, input, a)
<1>1. CASE Reads(c)
  BY <1>1, ReadsTurn DEF Tools
<1> QED BY <1>1, RequestKinds, InsertTurn, BatchTurn, AssertTurn DEF Tools

LEMMA OtherTools ==
  ASSUME Framed, NEW c \in Clients, Request(c),
         ~\E text \in Questions : Query(c, text), ~\E q \in Entities : Lookup(c, q)
  PROVE request'[c].tool \in Tools \ {"query", "lookup"}
<1>1. CASE \E q \in Searches : Search(c, q)
  <2>1. \E input, a : Answered(c, "search", input, a)
    BY <1>1 DEF Search, Refused
  <2> QED BY <2>1, AnsweredTurn DEF Tools, ReadingTools
<1>2. CASE \E mode \in {"predicates", "stats"} : Overview(c, mode)
  BY <1>2, AnsweredTurn DEF Overview, Tools, ReadingTools
<1>3. CASE ListResources(c)
  BY <1>3, AnsweredTurn DEF ListResources, Tools, ReadingTools
<1>4. CASE \E i \in Ids : ReadResource(c, i)
  <2>1. \E input, a : Answered(c, "read", input, a)
    BY <1>4 DEF ReadResource, Refused
  <2> QED BY <2>1, AnsweredTurn DEF Tools, ReadingTools
<1> QED BY <1>1, <1>2, <1>3, <1>4, RequestKinds, InsertTurn, BatchTurn, AssertTurn, AnsweredTurn
        DEF Reads, Tools

\* The others are not concerned by a turn of c.
OthersSame(c) ==
  \A d \in Clients \ {c} : request'[d] = request[d] /\ answer'[d] = answer[d] /\ told'[d] = told[d]

LEMMA OneMore ==
  ASSUME Typed, NEW c, NEW tool, NEW input, NEW a, Answered(c, tool, input, a)
  PROVE requests' \in 0..MaxRequests
<1>1. requests \in 0..MaxRequests /\ requests < MaxRequests /\ requests' = requests + 1
  BY DEF Typed, TypeOK, Answered
<1>2. MaxRequests \in Nat
  BY ExchangeAssumption DEF ExchangeAssumption
<1> QED BY <1>1, <1>2

LEMMA RequestFrame ==
  ASSUME Typed, NEW c \in Clients, Request(c)
  PROVE Framed' /\ OthersSame(c) /\ requests' \in 0..MaxRequests /\ request'[c].tool \in Tools
<1>1. PICK tool \in Tools : \E input, a : Answered(c, tool, input, a)
  BY RequestTurn
<1>2. PICK input, a : Answered(c, tool, input, a)
  BY <1>1
<1>3. told' = told /\ asked' = asked
  BY RequestGrows DEF Grows
<1>4. requests' \in 0..MaxRequests
  BY <1>2, OneMore
<1> QED BY <1>2, <1>3, <1>4, AnsweredTurn DEF Typed, Framed, OthersSame

LEMMA InitializeTurn ==
  ASSUME Typed, NEW c \in Clients, NEW word, Initialize(c, word)
  PROVE /\ Framed' /\ OthersSame(c) /\ requests' \in 0..MaxRequests
        /\ request'[c].tool = "initialize"
        /\ preferred_form' = Negotiated(word) /\ Negotiated(word) \in {"Compact", "Canonical"}
        /\ told'[c] = IF word = "none" THEN <<>> ELSE Names
        /\ UNCHANGED <<facts, asked, verifying, flagged>>
<1>1. Answered(c, "initialize", word, [status |-> "ok"])
  BY DEF Initialize
<1>2. told' = [told EXCEPT ![c] = IF word = "none" THEN <<>> ELSE Names]
  BY DEF Initialize
<1>3. /\ preferred_form' = Negotiated(word) /\ Negotiated(word) \in {"Compact", "Canonical"}
      /\ UNCHANGED <<facts, asked, verifying, flagged>>
  BY DEF Initialize, Negotiated
<1>4. requests' \in 0..MaxRequests
  BY <1>1, OneMore
<1>5. told'[c] = (IF word = "none" THEN <<>> ELSE Names) /\ told' = [d \in Clients |-> told'[d]]
  BY <1>2 DEF Typed, Framed
<1> QED BY <1>1, <1>2, <1>3, <1>4, <1>5, AnsweredTurn DEF Typed, Framed, OthersSame

LEMMA ElsewhereGrows ==
  ASSUME Typed, Elsewhere
  PROVE Grows /\ UNCHANGED <<preferred_form, verifying, told, request, answer, requests>>
<1>1. PICK i \in asked : Believed(i) /\ facts' = [facts EXCEPT ![i].status = "Retracted"]
  BY DEF Elsewhere
<1>2. i \in Ids /\ facts \in [Ids -> Fact \cup {None}] /\ facts[i] \in Fact
  BY <1>1 DEF Typed, Framed, TypeOK, Fact, Believed
<1>3. [facts[i] EXCEPT !.status = "Retracted"] \in Fact /\ [facts[i] EXCEPT !.status = "Retracted"].node = facts[i].node
  BY <1>2 DEF Fact, Statuses
<1>4. facts' \in [Ids -> Fact \cup {None}]
  BY <1>1, <1>2, <1>3
<1>5. \A j \in Ids : facts'[j] = IF j = i THEN [facts[i] EXCEPT !.status = "Retracted"] ELSE facts[j]
  BY <1>1, <1>2
<1>6. \A j \in Ids : /\ Known(j)' => Known(j) /\ facts'[j].node = facts[j].node
                     /\ Known(j) => Known(j)' /\ facts'[j].node = facts[j].node
  BY <1>2, <1>3, <1>5, FactIsKnown DEF Known
<1> QED BY <1>4, <1>6 DEF Elsewhere, Typed, TypeOK, Grows, Persists

\* Init as it is read below, with the types of its functions.
LEMMA InitTyped == Init => Typed
<1> SUFFICES ASSUME Init PROVE Typed
  OBVIOUS
<1>1. facts \in [Ids -> Fact \cup {None}] /\ \A i \in Ids : ~Known(i)
  BY DEF Init, Known
<1>2. requests \in 0..MaxRequests /\ verifying \in BOOLEAN /\ asked \subseteq Ids
  <2>1. MaxRequests \in Nat /\ Verifying \subseteq BOOLEAN /\ Retractable \subseteq Ids
    BY ExchangeAssumption DEF ExchangeAssumption
  <2> QED BY <2>1 DEF Init
<1>3. /\ request = [c \in Clients |-> request[c]]
      /\ answer = [c \in Clients |-> answer[c]]
      /\ told = [c \in Clients |-> told[c]]
  BY DEF Init
<1>4. preferred_form = "Compact" /\ flagged = {} /\ \A c \in Clients : told[c] = <<>>
  BY DEF Init
<1> QED BY <1>1, <1>2, <1>3, <1>4 DEF Typed, TypeOK, Framed, Fact

LEMMA NextTyped == Typed /\ [Next]_xvars => Typed'
<1> SUFFICES ASSUME Typed, [Next]_xvars PROVE Typed'
  OBVIOUS
<1>1. ASSUME NEW c \in Clients, NEW word \in Declared, Initialize(c, word) PROVE Typed'
  <2>1. Grows
    BY <1>1, InitializeTurn, SameGrows
  <2>2. \A d \in Clients : told'[d] \in {<<>>, Names}
    BY <1>1, InitializeTurn DEF OthersSame, Typed, TypeOK
  <2> QED BY <1>1, <2>1, <2>2, InitializeTurn DEF Typed, TypeOK, Grows, Fact
<1>2. ASSUME NEW c \in Clients, Request(c) PROVE Typed'
  <2>1. Grows /\ UNCHANGED <<preferred_form, verifying, told>>
    BY <1>2, RequestGrows
  <2>2. Framed' /\ requests' \in 0..MaxRequests
    BY <1>2, RequestFrame
  <2> QED BY <2>1, <2>2 DEF Typed, TypeOK, Grows, Fact
<1>3. CASE Elsewhere
  <2>1. Grows /\ UNCHANGED <<preferred_form, verifying, told, request, answer, requests>>
    BY <1>3, ElsewhereGrows
  <2> QED BY <2>1 DEF Typed, TypeOK, Framed, Grows, Fact
<1>4. CASE Idle \/ UNCHANGED xvars
  BY <1>4 DEF Idle, xvars, server, Typed, TypeOK, Framed, Known
<1> QED BY <1>1, <1>2, <1>3, <1>4 DEF Next

\* Whatever texts are sent, the store holds only nodes some text says or some
\* assertion makes, each under its own id; the form is one of the two, and no
\* client has part of the morpheme table (handler.rs:129-259, 348-544, 698-814).
THEOREM ExchangeTyped == Spec => []TypeOK
<1>1. Typed => TypeOK
  BY DEF Typed
<1> QED BY <1>1, InitTyped, NextTyped, PTL DEF Spec

-----------------------------------------------------------------------------
(* Asserted facts.                                                         *)

\* An answered assertion and the fact the store has.
FactOf(c) ==
  request[c].tool = "assert" /\ answer[c].status = "ok" =>
    LET i == answer[c].id
        a == request[c].input
    IN /\ i \in Ids /\ Known(i)
       /\ answer[c].action = "asserted" \/ Unmistakable(a) => facts[i].node.pred = Meaning[a.text]
       /\ a.conf # <<>> /\ Units(a.conf[1]) \notin Percent(30)..Percent(80) => i \in flagged

AssertedInv == \A c \in Clients : FactOf(c)

\* A confidence that passes the check is in the band.
LEMMA BandChecked ==
  ASSUME NEW a \in Assertions, a.conf # <<>>,
         check_confidence_band("Asserted", Units(a.conf[1]))
  PROVE Units(a.conf[1]) \in Percent(30)..Percent(80)
<1>1. Units(a.conf[1]) \in Int
  BY ExchangeAssumption DEF ExchangeAssumption
<1>2. Certain \div 100 \in Int
  BY CertainAssumption
<1>3. Percent(30) \in Int /\ Percent(80) \in Int
  BY <1>2 DEF Percent
<1>4. Percent(30) <= Units(a.conf[1]) /\ Units(a.conf[1]) <= Percent(80)
  BY DEF check_confidence_band, confidence_band, Band
<1> HIDE DEF Percent, Units
<1> QED BY <1>1, <1>3, <1>4

\* What the store has under a content id nothing else has is the predicate asserted.
LEMMA SameContent ==
  ASSUME NEW a \in Claimed, Unmistakable(a), NEW n \in Storable, n.id = ContentId(PredText(ParsedPredicate[a.text].val))
  PROVE n.pred = ParsedPredicate[a.text].val
<1>1. CASE n \in FromText
  BY <1>1 DEF Unmistakable
<1>2. CASE n \in FromAssertion
  <2>1. PICK b \in Claimed : n = AssertedNode(b, ParsedPredicate[b.text].val)
    BY <1>2 DEF FromAssertion
  <2>2. n.id = ContentId(PredText(ParsedPredicate[b.text].val)) /\ n.pred = ParsedPredicate[b.text].val
    BY <2>1 DEF AssertedNode
  <2> QED BY <2>2 DEF Unmistakable
<1> QED BY <1>1, <1>2 DEF Storable

LEMMA AssertStep ==
  ASSUME Typed, NEW c \in Clients, NEW a \in Assertions, AssertFact(c, a)
  PROVE FactOf(c)'
<1> DEFINE p == ParsedPredicate[a.text].val
           n == AssertedNode(a, p)
<1>1. CASE \E why : Answered(c, "assert", a, Error(why))
  <2>1. answer'[c].status = "error"
    BY <1>1, AnsweredTurn DEF Typed, Error
  <2> QED BY <2>1 DEF FactOf
<1>2. CASE ~\E why : Answered(c, "assert", a, Error(why))
  <2>1. /\ ParsedPredicate[a.text].err = ""
        /\ flagged' = IF check_confidence_band("Asserted", Units(n.conf)) THEN flagged
                      ELSE flagged \cup {n.id}
    BY <1>2, AssertKinds
  <2>2. a \in Claimed /\ n \in FromAssertion /\ Range(<<n>>) \subseteq Storable
    BY <2>1, AssertedStorable DEF Claimed
  <2>3. n.id = ContentId(PredText(p)) /\ n.pred = p /\ (a.conf # <<>> => n.conf = a.conf[1])
    BY DEF AssertedNode
  <2>4. n.id \in Ids /\ p = Meaning[a.text]
    <3> HIDE DEF n
    <3> QED BY <2>2, ExchangeAssumption, MeaningAssumption
            DEF ExchangeAssumption, MeaningAssumption, Storable
  <2>5. a.conf # <<>> /\ Units(a.conf[1]) \notin Percent(30)..Percent(80) => n.id \in flagged'
    BY <2>1, <2>3, BandChecked
  <2> HIDE DEF p, n
  <2>6. ASSUME Known(n.id)', NEW action,
               action = "asserted" \/ Unmistakable(a) => facts'[n.id].node.pred = p,
               Answered(c, "assert", a, [status |-> "ok", id |-> n.id, action |-> action])
        PROVE FactOf(c)'
    <3>1. request'[c].input = a /\ answer'[c].id = n.id /\ answer'[c].action = action
      BY <2>6, AnsweredTurn DEF Typed
    <3> QED BY <2>4, <2>5, <2>6, <3>1 DEF FactOf
  <2>7. CASE /\ StoreError(<<n>>) = "AlreadyExists"
             /\ \E action \in {"duplicate", "corroborated"} :
                  Answered(c, "assert", a, [status |-> "ok", id |-> n.id, action |-> action])
             /\ UNCHANGED <<facts, asked, preferred_form, verifying, told>>
    <3>1. Known(n.id)
      BY <2>7 DEF StoreError
    <3>2. facts[n.id] \in Fact /\ facts[n.id].node.id = n.id
      BY <2>4, <3>1 DEF Typed, TypeOK, Fact, Known
    <3>3. facts[n.id].node \in Storable
      BY <3>2 DEF Fact
    <3>4. Unmistakable(a) => facts[n.id].node.pred = p
      BY <2>2, <2>3, <3>2, <3>3, SameContent DEF p
    <3>5. Known(n.id)' /\ (Unmistakable(a) => facts'[n.id].node.pred = p)
      BY <2>7, <3>1, <3>4 DEF Known
    <3> QED BY <2>6, <2>7, <3>5
  <2>8. CASE Stored(c, "assert", a, <<n>>, [status |-> "ok", id |-> n.id, action |-> "asserted"])
    <3>1. StoreError(<<n>>) = ""
      BY <1>2, <2>8 DEF Stored
    <3>2. Learn(Range(<<n>>)) /\ Answered(c, "assert", a, [status |-> "ok", id |-> n.id, action |-> "asserted"])
      BY <2>8, <3>1 DEF Stored
    <3>3. facts'[n.id] = [node |-> n, status |-> "Active"] /\ n.id \in Ids
      BY <2>2, <3>2, LearnStep, RangeOfOne
    <3>4. n \in Storable
      BY <2>2 DEF Storable
    <3>5. Known(n.id)' /\ facts'[n.id].node.pred = p
      BY <2>3, <3>3, <3>4, FactIsKnown DEF Known, Fact, Statuses
    <3> QED BY <2>6, <3>2, <3>5
  <2> QED BY <1>2, <2>7, <2>8, AssertKinds DEF n, p
<1> QED BY <1>1, <1>2

\* It stays so while others go on.
LEMMA FactStays ==
  ASSUME Grows, NEW c \in Clients, FactOf(c), request'[c] = request[c], answer'[c] = answer[c]
  PROVE FactOf(c)'
BY DEF Grows, Persists, FactOf

LEMMA NextAsserted == Typed /\ AssertedInv /\ [Next]_xvars => AssertedInv'
<1> SUFFICES ASSUME Typed, AssertedInv, [Next]_xvars, NEW d \in Clients PROVE FactOf(d)'
  BY DEF AssertedInv
<1>1. FactOf(d)
  BY DEF AssertedInv
<1>2. ASSUME NEW c \in Clients, NEW word \in Declared, Initialize(c, word) PROVE FactOf(d)'
  <2>1. Grows /\ OthersSame(c) /\ request'[c].tool = "initialize"
    BY <1>2, InitializeTurn, SameGrows
  <2>2. CASE d = c
    BY <2>1, <2>2 DEF FactOf
  <2> QED BY <1>1, <2>1, <2>2, FactStays DEF OthersSame
<1>3. ASSUME NEW c \in Clients, Request(c) PROVE FactOf(d)'
  <2>1. Grows /\ OthersSame(c)
    BY <1>3, RequestGrows, RequestFrame
  <2>2. CASE d # c
    BY <1>1, <2>1, <2>2, FactStays DEF OthersSame
  <2>3. CASE d = c /\ \E a \in Assertions : AssertFact(c, a)
    BY <2>3, AssertStep
  <2>4. CASE d = c /\ ~\E a \in Assertions : AssertFact(c, a)
    <3>1. request'[c].tool \in {"insert", "batch"} \cup ReadingTools
      BY <1>3, <2>4, RequestKinds, InsertTurn, BatchTurn, ReadsTurn, AnsweredTurn DEF Typed
    <3> QED BY <2>4, <3>1 DEF FactOf, ReadingTools
  <2> QED BY <2>2, <2>3, <2>4
<1>4. CASE Elsewhere
  BY <1>1, <1>4, ElsewhereGrows, FactStays
<1>5. CASE Idle \/ UNCHANGED xvars
  BY <1>1, <1>5 DEF Idle, xvars, server, FactOf, Known
<1> QED BY <1>2, <1>3, <1>4, <1>5 DEF Next

\* What factum_assert answers is so for as long as the client can remember it:
\* the store has a fact under the answered id, with the predicate the client
\* wrote if it was stored just then or nothing else that is sent has its id,
\* whoever wrote it first and in whatever layout; and a confidence outside the
\* band of its provenance has a review event (handler.rs:698-814).
THEOREM AssertedFactsKnown == Spec => []AssertedFactKnown
<1>1. Init => AssertedInv
  BY DEF Init, AssertedInv, FactOf
<1>2. AssertedInv => AssertedFactKnown
  BY DEF AssertedInv, FactOf, AssertedFactKnown
<1> QED BY <1>1, <1>2, InitTyped, NextTyped, NextAsserted, PTL DEF Spec

-----------------------------------------------------------------------------
(* Compact answers and the morpheme table.                                 *)

\* One client, or none that declares no capability: the form is one for all,
\* and the table is each client's own.
EachDeclares == "none" \notin Declared \/ \A c, d \in Clients : c = d

\* Who has begun has the table, as long as the form is the compact one.
ToldInv ==
  \A c \in Clients : request[c].tool # "none" =>
    told[c] = Names \/ (preferred_form = "Canonical" /\ "none" \in Declared)

\* A compact answer was made from facts the store has.
ShownFrom(c) ==
  request[c].tool \in {"query", "lookup"} /\ answer[c].status = "ok" /\ answer[c].form = "compact" =>
    /\ told[c] = Names
    /\ \A n \in answer[c].nodes : \E i \in Ids : Known(i) /\ n = compact(facts[i].node)

ShownInv == \A c \in Clients : ShownFrom(c)

\* The head of a compact node is its name, or the number of its name.
LEMMA CompactHeads ==
  ASSUME NEW n, "id" \in DOMAIN n
  PROVE /\ compact(n).id = n.id
        /\ "id" \in DOMAIN compact(n).head =>
             compact(n).head.id \in DOMAIN Names /\ Names[compact(n).head.id] = n.pred.head
<1>3. compact(n).id = n.id /\ compact(n).head = CompactHead(n.pred.head)
  BY DEF compact
<1>4. ASSUME "id" \in DOMAIN CompactHead(n.pred.head)
      PROVE CompactHead(n.pred.head).id \in DOMAIN Names /\ Names[CompactHead(n.pred.head).id] = n.pred.head
  <2> DEFINE ids == {k \in DOMAIN Names : Names[k] = n.pred.head}
  <2>1. ids # {} /\ CompactHead(n.pred.head) = [id |-> CHOOSE k \in ids : TRUE]
    BY <1>4 DEF CompactHead
  <2> QED BY <2>1
<1> QED BY <1>3, <1>4

\* What is shown is visible, and compact only in the compact form.
LEMMA ShownStep ==
  ASSUME Typed, ToldInv, NEW c \in Clients, request[c].tool # "none", OnlyReads,
         NEW tool \in {"query", "lookup"}, NEW input,
         NEW nodes \in SUBSET Visible, Answered(c, tool, input, Shown(nodes))
  PROVE ShownFrom(c)'
<1>1. answer'[c] = Shown(nodes) /\ told' = told /\ facts' = facts
  BY AnsweredTurn DEF Typed, OnlyReads, server
<1>2. CASE preferred_form = "Canonical"
  <2>1. Shown(nodes).form = "canonical"
    BY <1>2 DEF Shown
  <2> QED BY <1>1, <2>1 DEF ShownFrom
<1>3. CASE preferred_form # "Canonical"
  <2>1. told[c] = Names
    BY <1>3 DEF ToldInv
  <2>2. Shown(nodes).nodes = {compact(n) : n \in nodes}
    BY <1>3 DEF Shown
  <2>3. \A n \in nodes : \E i \in Ids : Known(i) /\ n = facts[i].node
    BY DEF Visible, Believed, Known
  <2>4. \A n \in answer'[c].nodes : \E i \in Ids : Known(i)' /\ n = compact(facts'[i].node)
    BY <1>1, <2>2, <2>3 DEF Known
  <2> QED BY <1>1, <2>1, <2>4 DEF ShownFrom
<1> QED BY <1>2, <1>3

LEMMA QueryShows ==
  ASSUME Typed, ToldInv, NEW c \in Clients, request[c].tool # "none",
         NEW text \in Questions, Query(c, text)
  PROVE ShownFrom(c)'
<1>1. CASE ParsedPredicate[text].err # ""
  <2>1. Answered(c, "query", text, Error(ParsedPredicate[text].err))
    BY <1>1 DEF Query, Refused
  <2>2. answer'[c].status = "error"
    BY <2>1, AnsweredTurn DEF Typed, Error
  <2> QED BY <2>2 DEF ShownFrom
<1>2. CASE ParsedPredicate[text].err = ""
  <2>1. /\ \E nodes \in SUBSET {n \in Visible : Bound(ParsedPredicate[text].val, n.pred)} :
             Answered(c, "query", text, Shown(nodes))
        /\ OnlyReads
    BY <1>2 DEF Query
  <2>2. PICK nodes \in SUBSET Visible : Answered(c, "query", text, Shown(nodes))
    BY <2>1
  <2> QED BY <2>1, <2>2, ShownStep
<1> QED BY <1>1, <1>2

LEMMA LookupShows ==
  ASSUME Typed, ToldInv, NEW c \in Clients, request[c].tool # "none",
         NEW q \in Entities, Lookup(c, q)
  PROVE ShownFrom(c)'
<1>1. /\ \E nodes \in SUBSET Visible : Answered(c, "lookup", q, Shown(nodes))
      /\ OnlyReads
  BY DEF Lookup
<1> QED BY <1>1, ShownStep

LEMMA NextTold ==
  ASSUME EachDeclares, Typed, ToldInv, [Next]_xvars
  PROVE ToldInv'
<1>1. ASSUME NEW c \in Clients, NEW word \in Declared, Initialize(c, word) PROVE ToldInv'
  <2>1. /\ OthersSame(c) /\ preferred_form' = Negotiated(word)
        /\ told'[c] = IF word = "none" THEN <<>> ELSE Names
    BY <1>1, InitializeTurn
  <2>2. CASE word = "none"
    <3>1. preferred_form' = "Canonical" /\ "none" \in Declared
      BY <2>1, <2>2 DEF Negotiated
    <3> QED BY <3>1 DEF ToldInv
  <2>3. CASE word # "none"
    <3>1. ASSUME NEW d \in Clients, d # c, request'[d].tool # "none" PROVE told'[d] = Names
      BY <2>1, <3>1 DEF EachDeclares, ToldInv, OthersSame
    <3> QED BY <2>1, <2>3, <3>1 DEF ToldInv
  <2> QED BY <2>2, <2>3
<1>2. ASSUME NEW c \in Clients, request[c].tool # "none", Request(c) PROVE ToldInv'
  BY <1>2, RequestGrows, RequestFrame DEF ToldInv, OthersSame
<1>3. CASE Elsewhere
  BY <1>3, ElsewhereGrows DEF ToldInv
<1>4. CASE Idle \/ UNCHANGED xvars
  BY <1>4 DEF Idle, xvars, server, ToldInv
<1> QED BY <1>1, <1>2, <1>3, <1>4 DEF Next

LEMMA ShownStays ==
  ASSUME Grows, NEW c \in Clients, ShownFrom(c),
         request'[c] = request[c], answer'[c] = answer[c], told'[c] = told[c]
  PROVE ShownFrom(c)'
<1>1. \A i \in Ids : Known(i) => Known(i)' /\ facts'[i].node = facts[i].node
  BY DEF Grows, Persists
<1> QED BY <1>1 DEF ShownFrom

LEMMA NextShown ==
  ASSUME Typed, ToldInv, ShownInv, [Next]_xvars
  PROVE ShownInv'
<1> SUFFICES ASSUME NEW d \in Clients PROVE ShownFrom(d)'
  BY DEF ShownInv
<1>1. ShownFrom(d)
  BY DEF ShownInv
<1>2. ASSUME NEW c \in Clients, NEW word \in Declared, Initialize(c, word) PROVE ShownFrom(d)'
  <2>1. Grows /\ OthersSame(c) /\ request'[c].tool = "initialize"
    BY <1>2, InitializeTurn, SameGrows
  <2>2. CASE d = c
    BY <2>1, <2>2 DEF ShownFrom
  <2> QED BY <1>1, <2>1, <2>2, ShownStays DEF OthersSame
<1>3. ASSUME NEW c \in Clients, request[c].tool # "none", Request(c) PROVE ShownFrom(d)'
  <2>1. Grows /\ OthersSame(c)
    BY <1>3, RequestGrows, RequestFrame
  <2>2. CASE d # c
    BY <1>1, <2>1, <2>2, ShownStays DEF OthersSame
  <2>3. CASE d = c /\ \E text \in Questions : Query(c, text)
    BY <1>3, <2>3, QueryShows
  <2>4. CASE d = c /\ \E q \in Entities : Lookup(c, q)
    BY <1>3, <2>4, LookupShows
  <2>5. CASE d = c /\ ~(\E text \in Questions : Query(c, text)) /\ ~\E q \in Entities : Lookup(c, q)
    <3>1. request'[c].tool \in Tools \ {"query", "lookup"}
      BY <1>3, <2>5, OtherTools DEF Typed
    <3> QED BY <2>5, <3>1 DEF ShownFrom
  <2> QED BY <2>2, <2>3, <2>4, <2>5
<1>4. CASE Elsewhere
  BY <1>1, <1>4, ElsewhereGrows, ShownStays
<1>5. CASE Idle \/ UNCHANGED xvars
  BY <1>1, <1>5 DEF Idle, xvars, server, ShownFrom, Known
<1> QED BY <1>2, <1>3, <1>4, <1>5 DEF Next

\* A number is sent for a predicate only to a client that was given the table,
\* where it is that predicate's, provided that every client declares the
\* capability or there is but one: the form is negotiated once for all clients
\* (handler.rs:156-219, 304-345).
THEOREM MorphemesAlwaysTold == ASSUME EachDeclares PROVE Spec => []MorphemesTold
<1>1. Init => ToldInv /\ ShownInv
  BY DEF Init, ToldInv, ShownInv, ShownFrom
<1>2. Typed /\ ToldInv /\ ShownInv /\ [Next]_xvars => ToldInv' /\ ShownInv'
  BY NextTold, NextShown
<1>3. Typed /\ ShownInv => MorphemesTold
  <2> SUFFICES ASSUME Typed, NEW c \in Clients, ShownFrom(c),
                      request[c].tool \in {"query", "lookup"}, answer[c].status = "ok",
                      answer[c].form = "compact", NEW n \in answer[c].nodes, "id" \in DOMAIN n.head
               PROVE n.head.id \in DOMAIN told[c] /\ told[c][n.head.id] = facts[n.id].node.pred.head
    BY DEF ShownInv, MorphemesTold
  <2>1. PICK i \in Ids : Known(i) /\ n = compact(facts[i].node)
    BY DEF ShownFrom
  <2>2. facts[i].node.id = i /\ facts[i].node \in Storable
    BY <2>1 DEF Typed, TypeOK, Fact, Known
  <2>3. "id" \in DOMAIN facts[i].node
    BY <2>2, ExchangeAssumption DEF ExchangeAssumption
  <2>4. n.id = i /\ n.head.id \in DOMAIN Names /\ Names[n.head.id] = facts[i].node.pred.head
    BY <2>1, <2>2, <2>3, CompactHeads
  <2> QED BY <2>4 DEF ShownFrom
<1> QED BY <1>1, <1>2, <1>3, InitTyped, NextTyped, PTL DEF Spec

-----------------------------------------------------------------------------
(* Batches.                                                                *)

\* A client's turn is told from its request.
LEMMA WhoseTurn ==
  ASSUME Typed, [Next]_xvars, NEW c \in Clients, request'[c] # request[c]
  PROVE \/ \E word \in Declared : Initialize(c, word)
        \/ Request(c)
<1>1. ASSUME NEW d \in Clients, NEW word \in Declared, Initialize(d, word), d # c PROVE FALSE
  BY <1>1, InitializeTurn DEF OthersSame
<1>2. ASSUME NEW d \in Clients, Request(d), d # c PROVE FALSE
  BY <1>2, RequestFrame DEF OthersSame
<1> QED BY <1>1, <1>2 DEF Next, Elsewhere, Idle, xvars

LEMMA BatchStep ==
  ASSUME Typed, NEW c \in Clients, NEW texts \in Bundles, InsertBatch(c, texts)
  PROVE LET meant == UNION {Range(Meaning[text]) : text \in Range(texts)}
        IN IF answer'[c].status = "ok" THEN \A n \in meant : facts'[n.id] # None /\ facts'[n.id].node = n
           ELSE facts' = facts
<1> DEFINE ok == [status |-> "ok", inserted |-> Len(texts)]
           nodes == NodesOf(texts, DOMAIN texts)
<1>1. CASE OnlyReads /\ \E why : Answered(c, "batch", texts, Error(why))
  <2>1. answer'[c].status = "error"
    BY <1>1, AnsweredTurn DEF Typed, Error
  <2> QED BY <1>1, <2>1 DEF OnlyReads, server
<1>2. CASE /\ \A k \in DOMAIN texts : Parsed[texts[k]].err = ""
           /\ Stored(c, "batch", texts, nodes, ok)
  <2>1. Range(nodes) \subseteq Storable
    BY <1>2, BatchStorable
  <2> HIDE DEF nodes, ok
  <2>2. CASE facts' = facts /\ Answered(c, "batch", texts, Error(StoreError(nodes)))
    <3>1. answer'[c].status = "error"
      BY <2>2, AnsweredTurn DEF Typed, Error
    <3> QED BY <2>2, <3>1
  <2>3. CASE /\ Answered(c, "batch", texts, ok)
             /\ \A n \in Range(nodes) : n.id \in Ids /\ facts'[n.id] = [node |-> n, status |-> "Active"]
    <3>1. answer'[c].status = "ok"
      BY <2>3, AnsweredTurn DEF Typed, ok
    <3>2. ASSUME NEW text \in Range(texts), NEW n \in Range(Meaning[text])
          PROVE facts'[n.id] # None /\ facts'[n.id].node = n
      <4>1. PICK k \in DOMAIN texts : text = texts[k]
        BY <3>2 DEF Range
      <4>2. Meaning[text] = Parsed[texts[k]].val
        BY <1>2, <4>1, MeaningAssumption DEF MeaningAssumption
      <4>3. PICK j \in DOMAIN Parsed[texts[k]].val : n = Parsed[texts[k]].val[j]
        BY <3>2, <4>2 DEF Range
      <4>4. <<k, j>> \in DOMAIN nodes /\ nodes[<<k, j>>] = n
        BY <4>1, <4>3 DEF nodes, NodesOf
      <4>5. n \in Range(nodes)
        BY <4>4 DEF Range
      <4>6. facts'[n.id] = [node |-> n, status |-> "Active"] /\ facts'[n.id] \in Fact
        BY <2>1, <2>3, <4>5 DEF Fact, Statuses
      <4> QED BY <4>6, FactIsKnown
    <3> QED BY <3>1, <3>2
  <2>4. Stored(c, "batch", texts, nodes, ok)
    BY <1>2
  <2>5. \/ facts' = facts /\ Answered(c, "batch", texts, Error(StoreError(nodes)))
        \/ /\ Answered(c, "batch", texts, ok)
           /\ \A n \in Range(nodes) : n.id \in Ids /\ facts'[n.id] = [node |-> n, status |-> "Active"]
    BY <2>1, <2>4, StoredKinds
  <2> QED BY <2>2, <2>3, <2>5
<1> QED BY <1>1, <1>2, BatchKinds

\* A batch that is reported as inserted has stored every node its texts mean, and
\* one that is refused has stored none, whatever is in the store and whichever
\* node of whichever text is wrong (handler.rs:504-544, store.rs:295-361).
THEOREM BatchesUnderstood == Spec => BatchUnderstood
<1> DEFINE Whole(c) ==
      request'[c] # request[c] /\ request'[c].tool = "batch" =>
        LET meant == UNION {Range(Meaning[text]) : text \in Range(request'[c].input)}
        IN IF answer'[c].status = "ok" THEN \A n \in meant : facts'[n.id] # None /\ facts'[n.id].node = n
           ELSE facts' = facts
<1>1. ASSUME Typed, [Next]_xvars, NEW c \in Clients,
             request'[c] # request[c], request'[c].tool = "batch"
      PROVE \E texts \in Bundles : InsertBatch(c, texts) /\ request'[c].input = texts
  <2>1. Request(c)
    BY <1>1, WhoseTurn, InitializeTurn
  <2>2. CASE Reads(c)
    BY <1>1, <2>2, ReadsTurn, AnsweredTurn DEF Typed, ReadingTools
  <2>3. CASE \E text \in Documents : Insert(c, text)
    BY <1>1, <2>3, InsertTurn, AnsweredTurn DEF Typed
  <2>4. CASE \E a \in Assertions : AssertFact(c, a)
    BY <1>1, <2>4, AssertTurn, AnsweredTurn DEF Typed
  <2>5. CASE \E texts \in Bundles : InsertBatch(c, texts)
    BY <1>1, <2>5, BatchTurn, AnsweredTurn DEF Typed
  <2> QED BY <2>1, <2>2, <2>3, <2>4, <2>5, RequestKinds
<1>2. Typed /\ [Next]_xvars => \A c \in Clients : Whole(c)
  BY <1>1, BatchStep
<1>3. Typed /\ [Next]_xvars => [\A c \in Clients : Whole(c)]_xvars
  BY <1>2
<1> QED BY <1>3, InitTyped, NextTyped, PTL DEF Spec, BatchUnderstood

-----------------------------------------------------------------------------
(* Searches.                                                               *)

LEMMA LoweredLength ==
  ASSUME NEW S, NEW s \in Seq(S)
  PROVE Lowered(s) \in Seq(Range(Lowered(s))) /\ Len(Lowered(s)) = Len(s)
<1>1. DOMAIN s = 1..Len(s) /\ Len(s) \in Nat
  OBVIOUS
<1>2. DOMAIN Lowered(s) = 1..Len(s) /\ Lowered(s) = [k \in 1..Len(s) |-> Lowered(s)[k]]
  BY <1>1 DEF Lowered
<1>3. Lowered(s) \in [1..Len(s) -> Range(Lowered(s))]
  BY <1>2 DEF Range
<1>4. Lowered(s) \in Seq(Range(Lowered(s)))
  BY <1>1, <1>3, SeqDef
<1> QED BY <1>1, <1>2, <1>4

\* The letters of a part of a text.
LEMMA PartLetters ==
  ASSUME NEW S, NEW s \in Seq(S), NEW T, NEW w \in Seq(T), NEW k \in 0..(Len(s) - Len(w))
  PROVE SubSeq(s, k + 1, k + Len(w)) = w <=> \A i \in 1..Len(w) : s[k + i] = w[i]
<1>1. Len(s) \in Nat /\ Len(w) \in Nat
  OBVIOUS
<1> DEFINE part == SubSeq(s, k + 1, k + Len(w))
<1>2. k \in Nat /\ k + 1 \in Int /\ k + Len(w) \in Int /\ k + Len(w) <= Len(s)
  BY <1>1
<1>3. \A i \in (k + 1)..(k + Len(w)) : i \in 1..Len(s)
  BY <1>1, <1>2
<1>4. \A i \in (k + 1)..(k + Len(w)) : s[i] \in S
  BY <1>3, ElementOfSeq
<1>5. /\ part \in Seq(S)
      /\ Len(part) = IF k + 1 <= k + Len(w) THEN (k + Len(w)) - (k + 1) + 1 ELSE 0
      /\ \A i \in 1..((k + Len(w)) - (k + 1) + 1) : part[i] = s[(k + 1) + i - 1]
  BY <1>2, <1>4, SubSeqProperties
<1>6. Len(part) = Len(w) /\ (k + Len(w)) - (k + 1) + 1 = Len(w)
  BY <1>1, <1>2, <1>5
<1>7. \A i \in 1..Len(w) : part[i] = s[k + i]
  <2> TAKE i \in 1..Len(w)
  <2>1. (k + 1) + i - 1 = k + i
    BY <1>1, <1>2
  <2> QED BY <1>5, <1>6, <2>1
<1> HIDE DEF part
<1>8. part = w <=> \A i \in 1..Len(w) : part[i] = w[i]
  <2>1. DOMAIN part = 1..Len(w) /\ DOMAIN w = 1..Len(w)
    BY <1>5, <1>6
  <2>2. part = [i \in 1..Len(w) |-> part[i]] /\ w = [i \in 1..Len(w) |-> w[i]]
    BY <1>5, <2>1
  <2> QED BY <2>2
<1> QED BY <1>7, <1>8 DEF part

\* Where a text has a word.
Places(s, w) == {k \in 0..(Len(s) - Len(w)) : \A i \in 1..Len(w) : s[k + i] = w[i]}

LEMMA WordPlaced ==
  ASSUME NEW S, NEW s \in Seq(S), NEW T, NEW w \in Seq(T), HasWord(s, w)
  PROVE Places(s, w) # {}
<1>1. PICK k \in 0..(Len(s) - Len(w)) : SubSeq(s, k + 1, k + Len(w)) = w
  BY DEF HasWord
<1>2. \A i \in 1..Len(w) : s[k + i] = w[i]
  BY <1>1, PartLetters
<1> QED BY <1>2 DEF Places

LEMMA WordAt ==
  ASSUME NEW S, NEW s \in Seq(S), NEW T, NEW w \in Seq(T), NEW k \in Places(s, w)
  PROVE HasWord(s, w)
<1>1. SubSeq(s, k + 1, k + Len(w)) = w
  BY PartLetters DEF Places
<1> QED BY <1>1 DEF HasWord, Places

\* What a part of a text has, the text has.
LEMMA WordWithin ==
  ASSUME NEW S, NEW s \in Seq(S), NEW T, NEW t \in Seq(T), NEW W, NEW w \in Seq(W),
         HasWord(s, t), HasWord(Lowered(t), w)
  PROVE HasWord(Lowered(s), w)
<1>1. /\ Lowered(s) \in Seq(Range(Lowered(s))) /\ Len(Lowered(s)) = Len(s)
      /\ Lowered(t) \in Seq(Range(Lowered(t))) /\ Len(Lowered(t)) = Len(t)
      /\ Len(s) \in Nat /\ Len(t) \in Nat /\ Len(w) \in Nat
  BY LoweredLength
<1>2. PICK k \in Places(s, t) : TRUE
  BY WordPlaced
<1>3. PICK j \in Places(Lowered(t), w) : TRUE
  <2>1. Places(Lowered(t), w) # {}
    BY <1>1, WordPlaced
  <2> QED BY <2>1
<1>4. k + j \in 0..(Len(s) - Len(w))
  BY <1>1 DEF Places
<1>5. ASSUME NEW i \in 1..Len(w) PROVE Lowered(s)[(k + j) + i] = w[i]
  <2>1. j + i \in 1..Len(t) /\ (k + j) + i \in 1..Len(s) /\ (k + j) + i = k + (j + i)
    BY <1>1 DEF Places
  <2>2. s[(k + j) + i] = t[j + i]
    BY <2>1 DEF Places
  <2>3. Lowered(s)[(k + j) + i] = Lowered(t)[j + i]
    BY <2>1, <2>2 DEF Lowered
  <2> QED BY <2>3 DEF Places
<1>6. k + j \in Places(Lowered(s), w)
  BY <1>1, <1>4, <1>5 DEF Places
<1> QED BY <1>1, <1>6, WordAt

LEMMA VisibleFinite ==
  ASSUME Typed
  PROVE IsFiniteSet(Visible) /\ Visible \subseteq Storable
<1> DEFINE shown == {j \in Ids : Believed(j) /\ facts[j].node.perm = "public"}
           nodeOf == [i \in shown |-> facts[i].node]
<1>1. IsFiniteSet(Ids)
  BY ExchangeAssumption DEF ExchangeAssumption
<1>2. IsFiniteSet(shown)
  BY <1>1, FS_Subset
<1>3. Visible = {facts[i].node : i \in shown}
  BY DEF Visible
<1>4. nodeOf \in Surjection(shown, Visible)
  BY <1>3 DEF Surjection
<1>5. IsFiniteSet(Visible)
  BY <1>2, <1>4, FS_Surjection
<1>6. \A i \in shown : facts[i].node \in Storable
  BY DEF Typed, TypeOK, Believed
<1> QED BY <1>3, <1>5, <1>6

\* The node is found by what it says.
LEMMA WordFound ==
  ASSUME NEW n \in Storable, NEW q \in Searches,
         NEW s \in {n.id, PredText(n.pred)} \cup ToSet(n.note),
         HasWord(Lowered(s), Lowered(q.keyword))
  PROVE MatchTypes(n, q.keyword) # {}
<1> DEFINE Has(t) == HasWord(Lowered(t), Lowered(q.keyword))
<1>1. CASE s = n.id
  <2>1. "node-id" \in MatchTypes(n, q.keyword)
    BY <1>1 DEF MatchTypes
  <2> QED BY <2>1
<1>2. CASE s \in ToSet(n.note)
  <2>1. "note" \in MatchTypes(n, q.keyword)
    BY <1>2 DEF MatchTypes
  <2> QED BY <2>1
<1>3. CASE s = PredText(n.pred)
  <2>1. /\ NodeText(n) \in Seq(Range(NodeText(n))) /\ s \in Seq(Range(s)) /\ HasWord(NodeText(n), s)
    BY <1>3, TextAssumption DEF TextAssumption
  <2>2. q.keyword \in Seq(Range(q.keyword))
    BY ExchangeAssumption DEF ExchangeAssumption
  <2>3. Lowered(q.keyword) \in Seq(Range(Lowered(q.keyword)))
    BY <2>2, LoweredLength
  <2>4. HasWord(Lowered(NodeText(n)), Lowered(q.keyword))
    BY <2>1, <2>3, WordWithin
  <2>5. "content" \in MatchTypes(n, q.keyword)
    BY <2>4 DEF MatchTypes
  <2> QED BY <2>5
<1> QED BY <1>1, <1>2, <1>3

LEMMA OtherThanSearch ==
  ASSUME Framed, NEW c \in Clients, Request(c), request'[c].tool = "search"
  PROVE \E q \in Searches : Search(c, q)
<1>1. CASE \E text \in Questions : Query(c, text)
  <2>1. \E input, a : Answered(c, "query", input, a)
    BY <1>1 DEF Query, Refused
  <2> QED BY <2>1, AnsweredTurn
<1>2. CASE \E q \in Entities : Lookup(c, q)
  <2>1. \E input, a : Answered(c, "lookup", input, a)
    BY <1>2 DEF Lookup
  <2> QED BY <2>1, AnsweredTurn
<1>3. CASE \E mode \in {"predicates", "stats"} : Overview(c, mode)
  BY <1>3, AnsweredTurn DEF Overview
<1>4. CASE ListResources(c)
  BY <1>4, AnsweredTurn DEF ListResources
<1>5. CASE \E i \in Ids : ReadResource(c, i)
  <2>1. \E input, a : Answered(c, "read", input, a)
    BY <1>5 DEF ReadResource, Refused
  <2> QED BY <2>1, AnsweredTurn
<1> QED BY <1>1, <1>2, <1>3, <1>4, <1>5, RequestKinds, InsertTurn, BatchTurn, AssertTurn, AnsweredTurn
        DEF Reads

LEMMA SmallerOfTwo ==
  ASSUME NEW a \in Nat, NEW b \in Nat
  PROVE Min({a, b}) \in {a, b} /\ Min({a, b}) <= a /\ Min({a, b}) <= b
<1>1. \E x \in {a, b} : \A y \in {a, b} : x =< y
  OBVIOUS
<1> QED BY <1>1 DEF Min

\* How many hits are taken.
Limit(q) == IF q.limit = <<>> THEN DefaultHits ELSE Min({q.limit[1], MaxHits})

LEMMA LimitBounds ==
  ASSUME NEW q \in Searches
  PROVE Limit(q) \in Nat /\ Limit(q) <= MaxHits
<1>1. DefaultHits \in Nat /\ MaxHits \in Nat /\ DefaultHits <= MaxHits
  BY ExchangeAssumption DEF ExchangeAssumption
<1>2. q.limit # <<>> => q.limit[1] \in Nat
  BY ExchangeAssumption DEF ExchangeAssumption
<1>3. q.limit # <<>> => Limit(q) \in {q.limit[1], MaxHits} /\ Limit(q) <= MaxHits
  BY <1>1, <1>2, SmallerOfTwo DEF Limit
<1>4. q.limit = <<>> => Limit(q) = DefaultHits
  BY DEF Limit
<1> QED BY <1>1, <1>2, <1>3, <1>4

\* Taking as many as there are, up to a limit, takes all or fills the limit.
LEMMA TakenOrFull ==
  ASSUME NEW hits, IsFiniteSet(hits), NEW taken \in SUBSET hits, NEW limit \in Nat,
         Cardinality(taken) = Min({limit, Cardinality(hits)})
  PROVE /\ IsFiniteSet(taken) /\ Cardinality(taken) \in Nat /\ Cardinality(taken) <= limit
        /\ Cardinality(taken) # limit => taken = hits
<1>1. IsFiniteSet(taken) /\ Cardinality(taken) \in Nat /\ Cardinality(hits) \in Nat
  BY FS_Subset, FS_CardinalityType
<1>2. Cardinality(taken) \in {limit, Cardinality(hits)} /\ Cardinality(taken) <= limit
  BY <1>1, SmallerOfTwo
<1>3. Cardinality(hits) = Cardinality(taken) => hits = taken
  BY FS_Subset
<1> QED BY <1>1, <1>2, <1>3

LEMMA SearchStep ==
  ASSUME Typed, NEW c \in Clients, NEW q \in Searches, Search(c, q), answer'[c].status = "ok"
  PROVE LET ids == {h.id : h \in answer'[c].found}
            holding == {n \in Visible : \E s \in {n.id, PredText(n.pred)} \cup ToSet(n.note) :
                                           HasWord(Lowered(s), Lowered(q.keyword))}
        IN /\ ~answer'[c].truncated => {n.id : n \in holding} \subseteq ids
           /\ ids \subseteq {n.id : n \in Visible} /\ Cardinality(ids) <= MaxHits
<1> DEFINE hits == {n \in Visible : MatchTypes(n, q.keyword) # {}}
           Found(taken) == {[id |-> n.id, types |-> MatchTypes(n, q.keyword)] : n \in taken}
           Given(taken) == [status |-> "ok", truncated |-> Cardinality(taken) = Limit(q), found |-> Found(taken)]
           idOf(n) == n.id
           holding == {n \in Visible : \E s \in {n.id, PredText(n.pred)} \cup ToSet(n.note) :
                                          HasWord(Lowered(s), Lowered(q.keyword))}
<1>1. q.keyword # <<>>
  <2> SUFFICES ASSUME q.keyword = <<>> PROVE FALSE
    OBVIOUS
  <2>1. \E why : Answered(c, "search", q, Error(why))
    BY DEF Search, Refused
  <2> QED BY <2>1, AnsweredTurn DEF Error, Typed
<1>2. PICK taken \in SUBSET hits :
        /\ Cardinality(taken) = Min({Limit(q), Cardinality(hits)})
        /\ Answered(c, "search", q, Given(taken))
  BY <1>1 DEF Search, Limit
<1>3. answer'[c] = Given(taken)
  BY <1>2, AnsweredTurn DEF Typed
<1>4. answer'[c].found = Found(taken) /\ answer'[c].truncated = (Cardinality(taken) = Limit(q))
  BY <1>3
<1>5. {h.id : h \in answer'[c].found} = {idOf(n) : n \in taken}
  <2>1. \A n \in taken : [id |-> n.id, types |-> MatchTypes(n, q.keyword)].id = idOf(n)
    OBVIOUS
  <2> QED BY <1>4, <2>1
<1>6. IsFiniteSet(hits)
  BY VisibleFinite, FS_Subset
<1>7. /\ IsFiniteSet(taken) /\ Cardinality(taken) \in Nat /\ Cardinality(taken) <= Limit(q)
      /\ Cardinality(taken) # Limit(q) => taken = hits
  BY <1>2, <1>6, LimitBounds, TakenOrFull
<1>8. holding \subseteq hits
  BY VisibleFinite, WordFound
<1>9. ~answer'[c].truncated => {n.id : n \in holding} \subseteq {idOf(n) : n \in taken}
  BY <1>4, <1>7, <1>8
<1>10. Cardinality({idOf(n) : n \in taken}) <= MaxHits
  <2> DEFINE ids == {idOf(n) : n \in taken}
             first == [n \in taken |-> idOf(n)]
  <2>1. first \in Surjection(taken, ids)
    BY DEF Surjection
  <2>2. Cardinality(ids) <= Cardinality(taken) /\ IsFiniteSet(ids)
    BY <1>7, <2>1, FS_Surjection
  <2>3. Cardinality(ids) \in Nat
    BY <2>2, FS_CardinalityType
  <2>4. Limit(q) \in Nat /\ Limit(q) <= MaxHits /\ MaxHits \in Nat
    BY LimitBounds, ExchangeAssumption DEF ExchangeAssumption
  <2> QED BY <1>7, <2>2, <2>3, <2>4
<1>11. {idOf(n) : n \in taken} \subseteq {n.id : n \in Visible}
  BY <1>2
<1> QED BY <1>5, <1>9, <1>10, <1>11

\* A search that is not cut off misses no visible node with the word in its id,
\* its predicate or a note, one that is cut off has no more hits than the limit,
\* and none of them is retracted or private (handler.rs:836-900).
THEOREM SearchesComplete == Spec => SearchComplete
<1> DEFINE Whole(c) ==
      request'[c] # request[c] /\ request'[c].tool = "search" /\ answer'[c].status = "ok" =>
         LET q == request'[c].input
             ids == {h.id : h \in answer'[c].found}
             holding == {n \in Visible : \E s \in {n.id, PredText(n.pred)} \cup ToSet(n.note) :
                                            HasWord(Lowered(s), Lowered(q.keyword))}
         IN /\ ~answer'[c].truncated => {n.id : n \in holding} \subseteq ids
            /\ ids \subseteq {n.id : n \in Visible} /\ Cardinality(ids) <= MaxHits
<1>1. ASSUME Typed, [Next]_xvars, NEW c \in Clients,
             request'[c] # request[c], request'[c].tool = "search"
      PROVE \E q \in Searches : Search(c, q) /\ request'[c].input = q
  <2>1. Request(c)
    BY <1>1, WhoseTurn, InitializeTurn
  <2>2. PICK q \in Searches : Search(c, q)
    BY <1>1, <2>1, OtherThanSearch DEF Typed
  <2>3. \E a : Answered(c, "search", q, a)
    BY <2>2 DEF Search, Refused
  <2> QED BY <1>1, <2>2, <2>3, AnsweredTurn DEF Typed
<1>2. Typed /\ [Next]_xvars => \A c \in Clients : Whole(c)
  <2> SUFFICES ASSUME Typed, [Next]_xvars, NEW c \in Clients,
                      request'[c] # request[c], request'[c].tool = "search", answer'[c].status = "ok"
               PROVE Whole(c)
    OBVIOUS
  <2>1. PICK q \in Searches : Search(c, q) /\ request'[c].input = q
    BY <1>1
  <2> QED BY <2>1, SearchStep
<1>3. Typed /\ [Next]_xvars => [\A c \in Clients : Whole(c)]_xvars
  BY <1>2
<1> QED BY <1>3, InitTyped, NextTyped, PTL DEF Spec, SearchComplete
=============================================================================
