------------------------------ MODULE Exchange ------------------------------
(***************************************************************************)
(* What clients of factum-mcp exchange with the server as text: documents, *)
(* predicates and queries in, answers in the negotiated form out           *)
(* (handler.rs over parser.rs and serialize.rs, on the store of module     *)
(* KnowledgeBase). A request is one step: what may happen between the      *)
(* store calls of one is the subject of McpHandler and QueryEngine.        *)
(*                                                                         *)
(* How text and terms are built is left to the modules Parser, Serializer, *)
(* TermMatching and Verifiers: their operators are constants here, so that *)
(* what the server does with them can be proved whatever they do.          *)
(***************************************************************************)
EXTENDS SequencesExt, Calibration, KnowledgeBase

CONSTANTS
  ParseText(_), ParsePred(_),    \* parse, parse_predicate: [err, val]
  NodeText(_), PredText(_),      \* canonical, canonical_predicate
  ShortTerm(_),                  \* CompactTerm::from_term
  Verdict(_),                    \* VerifierRegistry::verify
  Bound(_, _), Mentions(_, _),   \* as in QueryEngine
  Names                          \* the morpheme registry: a name's number is its position

CONSTANTS
  Clients,
  Documents,      \* the texts given to factum_insert
  Bundles,        \* the sequences of texts given to factum_insert_batch
  Assertions,     \* the arguments of factum_assert: [text, by, conf, note]; conf is <<>> or <<f32>>
  Questions,      \* the queries of factum_query
  Entities,       \* the arguments of factum_lookup: [entity, minConf]
  Searches,       \* keyword searches: [keyword, limit]; limit is <<>> or <<number>>
  ContentId(_),   \* generate_content_id: 48 bits of a hash, which may collide
  Lower,          \* the letters to_lowercase changes
  DefaultHits, MaxHits,  \* 50 and 200
  Declared,       \* what clients declare in initialize
  Retractable,    \* the ids whose retraction others ask for
  Verifying,      \* whether the verifiers are enabled: a set of Booleans
  MaxRequests

VARIABLES
  preferred_form, \* of the handler: one for all its clients
  verifying,
  flagged,        \* ids of the BandClippingExceeded events
  told,           \* told[c]: the morpheme table c was sent
  request, answer,   \* request[c], answer[c]: c's last ones
  requests

server == <<facts, asked, preferred_form, verifying, flagged>>
xvars == <<server, told, request, answer, requests>>

Known(i) == facts[i] # None
Visible == {facts[i].node : i \in {j \in Ids : Believed(j) /\ facts[j].node.perm = "public"}}

-----------------------------------------------------------------------------
(* Requests and answers.                                                   *)

Answered(c, tool, input, a) ==
  /\ requests < MaxRequests
  /\ requests' = requests + 1
  /\ request' = [request EXCEPT ![c] = [tool |-> tool, input |-> input, no |-> requests']]
  /\ answer' = [answer EXCEPT ![c] = a]

Error(why) == [status |-> "error", why |-> why]
StoreSame == UNCHANGED <<facts, asked>>
OnlyReads == UNCHANGED <<server, told>>

\* The compact form (records where the code writes JSON). Only the head of the
\* node itself is looked up in the registry; windows keep their days only.
CompactHead(name) ==
  LET ids == {k \in DOMAIN Names : Names[k] = name}
  IN IF ids = {} THEN [name |-> name] ELSE [id |-> CHOOSE k \in ids : TRUE]

compact(n) ==
  [f \in (DOMAIN n \ {"pred"}) \cup {"head", "args", "named"} |->
     CASE f = "head" -> CompactHead(n.pred.head)
       [] f = "args" -> [k \in DOMAIN n.pred.args |-> ShortTerm(n.pred.args[k])]
       [] f = "named" -> [k \in DOMAIN n.pred.named |-> <<n.pred.named[k][1], ShortTerm(n.pred.named[k][2])>>]
       [] f = "validity" /\ n.validity.kind # "Forever" ->
            [n.validity EXCEPT !.from = @[1], !.until = [k \in DOMAIN @ |-> @[k][1]]]
       [] OTHER -> n[f]]

\* The answers of factum_query and factum_lookup.
Shown(nodes) ==
  IF preferred_form = "Canonical"
  THEN [status |-> "ok", form |-> "canonical", nodes |-> {NodeText(n) : n \in nodes}]
  ELSE [status |-> "ok", form |-> "compact", nodes |-> {compact(n) : n \in nodes}]

\* What FactumStore::insert and insert_batch refuse; "" otherwise. What place the
\* nodes have in the call does not matter.
StoreError(nodes) ==
  IF verifying /\ \E k \in DOMAIN nodes : Verdict(nodes[k].pred) = "Fail" THEN "InvalidNode"
  ELSE IF \E k \in DOMAIN nodes : \/ Known(nodes[k].id)
                                 \/ \E j \in DOMAIN nodes \ {k} : nodes[j].id = nodes[k].id
  THEN "AlreadyExists" ELSE ""

Stored(c, tool, input, nodes, ok) ==
  LET err == StoreError(nodes)
  IN /\ IF err = "" THEN Learn(Range(nodes)) ELSE StoreSame
     /\ Answered(c, tool, input, IF err = "" THEN ok ELSE Error(err))
     /\ UNCHANGED <<preferred_form, verifying, told>>

Refused(c, tool, input, why) ==
  Answered(c, tool, input, Error(why)) /\ OnlyReads

-----------------------------------------------------------------------------
(* The handshake.                                                          *)

\* Any word is taken, and any client gets the compact form.
NegotiatedWord(word) == IF word = "none" THEN "Canonical" ELSE word
NegotiatedCompact(word) == IF word = "canonical" THEN "Canonical" ELSE "Compact"

\* Which form a client gets: "none" declares no factum capability, "" declares
\* it without preferred_form, any other word is the value of preferred_form.
Negotiated(word) ==
  CASE word \in {"none", "canonical"} -> "Canonical"
    [] OTHER -> "Compact"

Initialize(c, word) ==
  /\ preferred_form' = Negotiated(word)
  /\ told' = [told EXCEPT ![c] = IF word = "none" THEN <<>> ELSE Names]
  /\ Answered(c, "initialize", word, [status |-> "ok"])
  /\ UNCHANGED <<facts, asked, verifying, flagged>>

-----------------------------------------------------------------------------
(* Tools that write.                                                       *)

Identified(n) ==
  IF n.id = <<"auto">> THEN [n EXCEPT !.id = ContentId(PredText(n.pred))] ELSE n

\* What each text the clients may send is parsed to.
Parsed == [text \in Documents \cup UNION {ToSet(b) : b \in Bundles} |-> ParseText(text)]
ParsedPredicate == [text \in Questions \cup {a.text : a \in Assertions} |-> ParsePred(text)]

\* Only the first node of the document is stored.
Insert(c, text) ==
  \E r \in {Parsed[text]} :
    CASE r.err # "" -> Refused(c, "insert", text, r.err)
      [] r.err = "" /\ r.val = <<>> -> Refused(c, "insert", text, "no nodes parsed")
      [] OTHER -> \E n \in {Identified(Head(r.val))} :
           Stored(c, "insert", text, <<n>>, [status |-> "ok", id |-> n.id]) /\ UNCHANGED flagged

\* The nodes of some of the texts, each at the number of its text and its own.
NodesOf(texts, which) ==
  [p \in UNION {{k} \X DOMAIN Parsed[texts[k]].val : k \in which} |-> Parsed[texts[p[1]]].val[p[2]]]

\* Texts that do not parse are left out.
InsertParsed(c, texts) ==
  LET good == {k \in DOMAIN texts : Parsed[texts[k]].err = ""}
  IN /\ Stored(c, "batch", texts, NodesOf(texts, good), [status |-> "ok"])
     /\ UNCHANGED flagged

\* All texts are parsed before a node is stored; what is counted is texts.
InsertBatch(c, texts) ==
  LET wrong == {k \in DOMAIN texts : Parsed[texts[k]].err # ""}
      nodes == NodesOf(texts, DOMAIN texts)
  IN IF wrong # {} THEN Refused(c, "batch", texts, Parsed[texts[Min(wrong)]].err)
     ELSE IF DOMAIN nodes = {} THEN Refused(c, "batch", texts, "no nodes parsed")
     ELSE /\ Stored(c, "batch", texts, nodes, [status |-> "ok", inserted |-> Len(texts)])
          /\ UNCHANGED flagged

\* In the units of Calibration.
Units(v) == (v.m * Certain) \div 10 ^ v.scale

\* The named arguments are left out of the id.
AssertedNodePositional(a, p) ==
  [id |-> ContentId(PredText([p EXCEPT !.named = <<>>])), pred |-> p,
   validity |-> [kind |-> "Forever"], provenance |-> [kind |-> "Asserted", by |-> a.by],
   conf |-> IF a.conf = <<>> THEN [m |-> 6, scale |-> 1] ELSE a.conf[1],
   auth |-> [m |-> 5, scale |-> 1], perm |-> "public", deps |-> <<>>, note |-> a.note]

\* Node::new and what factum_assert sets; 0.6 is the default of the provenance.
AssertedNode(a, p) ==
  [id |-> ContentId(PredText(p)), pred |-> p,
   validity |-> [kind |-> "Forever"], provenance |-> [kind |-> "Asserted", by |-> a.by],
   conf |-> IF a.conf = <<>> THEN [m |-> 6, scale |-> 1] ELSE a.conf[1],
   auth |-> [m |-> 5, scale |-> 1], perm |-> "public", deps |-> <<>>, note |-> a.note]

\* Every node the clients can have stored, and the predicates they assert.
FromText ==
  UNION {{n, Identified(n)} :
           n \in UNION {Range(Parsed[text].val) : text \in {u \in DOMAIN Parsed : Parsed[u].err = ""}}}
Claimed == {a \in Assertions : ParsedPredicate[a.text].err = ""}
FromAssertion == {AssertedNode(a, ParsedPredicate[a.text].val) : a \in Claimed}
Storable == FromText \cup FromAssertion

\* The principal a node names, "unknown" without one.
PrincipalOf(n) ==
  CASE n.provenance.kind = "Asserted" -> n.provenance.by
    [] n.provenance.kind = "Extracted" -> n.provenance.model[1]
    [] OTHER -> <<"unknown">>

AssertFact(c, a) ==
  \E r \in {ParsedPredicate[a.text]} :
    IF r.err # "" THEN Refused(c, "assert", a, r.err)
    ELSE \E n \in {AssertedNode(a, r.val)} :
      /\ flagged' = IF check_confidence_band("Asserted", Units(n.conf)) THEN flagged
                    ELSE flagged \cup {n.id}
      /\ IF StoreError(<<n>>) = "AlreadyExists"
         THEN /\ Answered(c, "assert", a,
                   [status |-> "ok", id |-> n.id,
                    action |-> IF PrincipalOf(facts[n.id].node) = a.by THEN "duplicate"
                               ELSE "corroborated"])
              /\ UNCHANGED <<facts, asked, preferred_form, verifying, told>>
         ELSE Stored(c, "assert", a, <<n>>, [status |-> "ok", id |-> n.id, action |-> "asserted"])

-----------------------------------------------------------------------------
(* Tools that read. The arbitration of factum_query is QueryEngine's:      *)
(* here it lets some of the matching nodes through.                        *)

Query(c, text) ==
  \E r \in {ParsedPredicate[text]} :
    IF r.err # "" THEN Refused(c, "query", text, r.err)
    ELSE /\ \E nodes \in SUBSET {n \in Visible : Bound(r.val, n.pred)} :
              Answered(c, "query", text, Shown(nodes))
         /\ OnlyReads

AtLeast(v, minConf) == Units(v) >= Units(minConf)

Lookup(c, q) ==
  LET e == IF Head(q.entity) = "@" THEN Tail(q.entity) ELSE q.entity
  IN /\ Answered(c, "lookup", q,
          Shown({n \in Visible : Mentions(n.pred, e) > 0 /\ AtLeast(n.conf, q.minConf)}))
     /\ OnlyReads

Lowered(s) == [k \in DOMAIN s |-> IF s[k] \in DOMAIN Lower THEN Lower[s[k]] ELSE s[k]]
HasWord(s, word) == \E k \in 0..(Len(s) - Len(word)) : SubSeq(s, k + 1, k + Len(word)) = word

\* The content is not searched.
MatchTypesNamed(n, word) ==
  LET Has(s) == HasWord(Lowered(s), Lowered(word))
  IN {m \in {"predicate-head", "note"} :
        IF m = "note" THEN \E s \in ToSet(n.note) : Has(s) ELSE Has(n.pred.head)}

\* Where a node holds the word.
MatchTypes(n, word) ==
  LET Has(s) == HasWord(Lowered(s), Lowered(word))
  IN {m \in {"node-id", "predicate-head", "entity", "content", "note"} :
        CASE m = "node-id" -> Has(n.id)
          [] m = "predicate-head" -> Has(n.pred.head)
          [] m = "entity" -> \E t \in ToSet(n.pred.args) : t.kind = "Ent" /\ Has(t.ent)
          [] m = "content" -> Has(NodeText(n))
          [] m = "note" -> \E s \in ToSet(n.note) : Has(s)}

\* The store lists its nodes in no particular order; the first that match are
\* taken until there are as many as the limit.
Search(c, q) ==
  LET limit == IF q.limit = <<>> THEN DefaultHits ELSE Min({q.limit[1], MaxHits})
      hits == {n \in Visible : MatchTypes(n, q.keyword) # {}}
  IN IF q.keyword = <<>> THEN Refused(c, "search", q, "keyword is required")
     ELSE /\ \E taken \in SUBSET hits :
               /\ Cardinality(taken) = Min({limit, Cardinality(hits)})
               /\ Answered(c, "search", q,
                    [status |-> "ok", truncated |-> Cardinality(taken) = limit,
                     found |-> {[id |-> n.id, types |-> MatchTypes(n, q.keyword)] : n \in taken}])
          /\ OnlyReads

HeadsOf(nodes) == {n.pred.head : n \in nodes}
Counts(nodes) == [h \in HeadsOf(nodes) |-> Cardinality({n \in nodes : n.pred.head = h})]

\* The modes "predicates" and "stats" of factum_search.
Overview(c, mode) ==
  LET total == Cardinality({i \in Ids : Known(i)})
      active == Cardinality(Visible)
  IN /\ Answered(c, mode, <<>>,
          [status |-> "ok", predicates |-> Counts(Visible), active |-> active]
          @@ (IF mode = "stats" THEN [total |-> total, retracted |-> total - active] ELSE <<>>))
     /\ OnlyReads

ListResources(c) ==
  Answered(c, "list", <<>>, [status |-> "ok", ids |-> {n.id : n \in Visible}]) /\ OnlyReads

ReadResource(c, i) ==
  IF Believed(i) /\ facts[i].node.perm = "public"
  THEN Answered(c, "read", i, [status |-> "ok", text |-> NodeText(facts[i].node)]) /\ OnlyReads
  ELSE Refused(c, "read", i, "resource not found or not accessible")

-----------------------------------------------------------------------------
(* What is taken for granted of the constants.                             *)

Statuses == {"Active", "Retracted"}
ExchangeAssumption ==
  /\ IsFiniteSet(Ids) /\ Retractable \subseteq Ids
  /\ \A text \in DOMAIN Parsed : Parsed[text].err = "" => Parsed[text].val \in Seq(Range(Parsed[text].val))
  /\ \A n \in Storable : "id" \in DOMAIN n /\ n.id \in Ids
  /\ None \notin [node : Storable, status : Statuses]
  /\ \A a \in Assertions : a.conf # <<>> => Units(a.conf[1]) \in Int
  /\ \A q \in Searches : /\ q.keyword \in Seq(Range(q.keyword))
                         /\ q.limit # <<>> => q.limit[1] \in Nat
  /\ DefaultHits \in Nat /\ MaxHits \in Nat /\ DefaultHits <= MaxHits
  /\ Verifying \subseteq BOOLEAN /\ MaxRequests \in Nat
ASSUME ExchangeAssumption

\* The text of a node has that of its predicate in it.
TextAssumption ==
  \A n \in Storable :
    LET node == NodeText(n)
        pred == PredText(n.pred)
    IN node \in Seq(Range(node)) /\ pred \in Seq(Range(pred)) /\ HasWord(node, pred)
ASSUME TextAssumption

-----------------------------------------------------------------------------
(* The rest of the process: retractions.                                   *)

Elsewhere ==
  /\ \E i \in {j \in asked : Believed(j)} : facts' = [facts EXCEPT ![i].status = "Retracted"]
  /\ UNCHANGED <<asked, preferred_form, verifying, flagged, told, request, answer, requests>>

Idle == requests = MaxRequests /\ UNCHANGED xvars

Init ==
  /\ facts = [i \in Ids |-> None] /\ asked = Retractable
  /\ preferred_form = "Compact"
  /\ verifying \in Verifying
  /\ flagged = {}
  /\ told = [c \in Clients |-> <<>>]
  /\ request = [c \in Clients |-> [tool |-> "none", input |-> <<>>, no |-> 0]]
  /\ answer = [c \in Clients |-> [status |-> "none"]]
  /\ requests = 0

Request(c) ==
  \/ \E text \in Documents : Insert(c, text)
  \/ \E texts \in Bundles : InsertBatch(c, texts)
  \/ \E a \in Assertions : AssertFact(c, a)
  \/ \E text \in Questions : Query(c, text)
  \/ \E q \in Entities : Lookup(c, q)
  \/ \E q \in Searches : Search(c, q)
  \/ \E mode \in {"predicates", "stats"} : Overview(c, mode)
  \/ ListResources(c)
  \/ \E i \in Ids : ReadResource(c, i)

\* The protocol begins with initialize, and a client may repeat it.
Next ==
  \/ \E c \in Clients : \/ \E word \in Declared : Initialize(c, word)
                        \/ request[c].tool # "none" /\ Request(c)
  \/ Elsewhere
  \/ Idle

Spec == Init /\ [][Next]_xvars
=============================================================================
