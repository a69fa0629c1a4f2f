------------------------- MODULE ExchangeProperties -------------------------
(***************************************************************************)
(* What clients may rely on when they exchange text with the server. The   *)
(* reference for the parser is the writing of documents: Meaning gives the *)
(* nodes, or the predicate, each text was written to say, in whatever      *)
(* layout, order of fields and choice of spelling.                         *)
(***************************************************************************)
EXTENDS Exchange

CONSTANT Meaning

\* The parser understands the texts of bundles and assertions.
MeaningAssumption ==
  /\ \A texts \in Bundles : \A k \in DOMAIN texts :
       Parsed[texts[k]].err = "" => Parsed[texts[k]].val = Meaning[texts[k]]
  /\ \A a \in Claimed : ParsedPredicate[a.text].val = Meaning[a.text]
ASSUME MeaningAssumption

-----------------------------------------------------------------------------
(* Text to nodes.                                                          *)

\* A batch is stored as it was meant, all of it or none (handler.rs:513-526).
BatchUnderstood ==
  [][\A c \in Clients : request'[c] # request[c] /\ request'[c].tool = "batch" =>
       LET meant == UNION {Range(Meaning[text]) : text \in Range(request'[c].input)}
       IN IF answer'[c].status = "ok" THEN \A n \in meant : facts'[n.id] # None /\ facts'[n.id].node = n
          ELSE facts' = facts
    ]_xvars

\* Nothing else that is sent has the content id of a: no other asserted predicate,
\* whose 48 bits of hash could be the same, and no node of a document, which may
\* be given any id by hand.
Unmistakable(a) ==
  LET p == ParsedPredicate[a.text].val
      i == ContentId(PredText(p))
  IN /\ \A b \in Claimed : LET q == ParsedPredicate[b.text].val IN ContentId(PredText(q)) = i => q = p
     /\ \A n \in FromText : n.id = i => n.pred = p

\* What factum_assert calls asserted is a fact the store has, the very predicate
\* the client wrote, in whatever layout; so is what it calls a duplicate or
\* corroborated, if nothing else has its id (handler.rs:50-55, 706-713, 752-790:
\* "Same content -> same ID"). And a fact asserted outside the band of its
\* provenance has a review event (handler.rs:738-748).
AssertedFactKnown ==
  \A c \in Clients : request[c].tool = "assert" /\ answer[c].status = "ok" =>
    LET i == answer[c].id
        a == request[c].input
    IN /\ Known(i)
       /\ answer[c].action = "asserted" \/ Unmistakable(a) => facts[i].node.pred = Meaning[a.text]
       /\ a.conf # <<>> /\ Units(a.conf[1]) \notin Percent(30)..Percent(80) => i \in flagged

\* Whatever was sent, the store holds nodes that were sent, under their own ids,
\* the form is one of the two, and no client has part of the morpheme table.
TypeOK ==
  /\ facts \in [Ids -> [node : Storable, status : Statuses] \cup {None}]
  /\ \A i \in Ids : Known(i) => facts[i].node.id = i
  /\ preferred_form \in {"Compact", "Canonical"}
  /\ verifying \in BOOLEAN
  /\ flagged \subseteq Ids
  /\ \A c \in Clients : told[c] \in {<<>>, Names}
  /\ requests \in 0..MaxRequests

-----------------------------------------------------------------------------
(* Answers.                                                                *)

\* A number that stands for a predicate is sent only to a client that was given
\* the table, where it is that predicate's (handler.rs:156-219, 304-345).
MorphemesTold ==
  \A c \in Clients :
    request[c].tool \in {"query", "lookup"} /\ answer[c].status = "ok" /\ answer[c].form = "compact" =>
      \A n \in answer[c].nodes :
        "id" \in DOMAIN n.head =>
          /\ n.head.id \in DOMAIN told[c]
          /\ told[c][n.head.id] = facts[n.id].node.pred.head

\* A search that does not say it was cut off lists every visible node that holds
\* the word in its id, predicate or note, and the limit never lets through
\* more than MaxHits (handler.rs:836-900).
SearchComplete ==
  [][\A c \in Clients :
       request'[c] # request[c] /\ request'[c].tool = "search" /\ answer'[c].status = "ok" =>
         LET q == request'[c].input
             ids == {h.id : h \in answer'[c].found}
             holding == {n \in Visible : \E s \in {n.id, PredText(n.pred)} \cup ToSet(n.note) :
                                            HasWord(Lowered(s), Lowered(q.keyword))}
         IN /\ ~answer'[c].truncated => {n.id : n \in holding} \subseteq ids
            /\ ids \subseteq {n.id : n \in Visible} /\ Cardinality(ids) <= MaxHits
    ]_xvars
=============================================================================
