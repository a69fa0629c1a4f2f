----------------------------- MODULE MCExchange -----------------------------
(***************************************************************************)
(* Instances of the exchange of text: what clients mean to say, and two    *)
(* ways of writing it. Words are the letters of the texts.                 *)
(***************************************************************************)
EXTENDS ExchangeProperties, Verifiers

CONSTANTS c1, c2

MCLetters ==
  {"node", "pred", "valid", "src", "conf", "auth", "perm", "deps", "note", "forever", "window",
   "verbatim", "summary", "extracted", "model", "derived", "asserted", "system", "auto",
   "public", "internal", "confidential", "restricted", "date", "dur", "ns", "s", "m", "d",
   "n", "t", "f", "r", "a", "b", "A", "B", "of", "likes", "org"}
MCLower == [A |-> "a", B |-> "b"]
MCUnitSecs == [s |-> 1, m |-> 60]

Morpheme(name, kind, required, total) ==
  [name |-> <<name>>, kind |-> kind, required |-> required, total |-> total]
MCNames == Map(NameOf, with_seeds)
\* With LET, TLC's coverage statistics do not unfold the parser at each use.
MCParse(text) == LET parsed == parse(text) IN parsed
MCParsePred(text) == LET parsed == parse_predicate(text) IN parsed
MCVerdict(p) == verify(p, with_seeds)
MCSeeds == <<Morpheme("org", "Entity", 0, 0), Morpheme("likes", "Relation", 2, 3)>>

-----------------------------------------------------------------------------
(* What is said.                                                           *)

Likes(args, named) == Pred(<<"likes">>, args, named)
A == Ent(<<"A">>)
B == Ent(<<"B">>)
Said(id, pred) == [id |-> id, pred |-> pred] @@ NodeDefaults
Id(d) == <<"n", d>>

Liking == Likes(<<A, B>>, <<>>)
Of(args) == Pred(<<"of">>, args, <<>>)
Nested(t) == Of(<<Compound(Of(<<t>>))>>)   \* two levels; a node form adds one

Plain1 == Said(Id("1"), Liking)
Rich == [Said(Id("2"), Likes(<<A, Lit(Dec(-105, 2))>>,
                             <<<<<<"d">>, Lit(Dur(10))>>>>)) EXCEPT
           !.validity = Window(<<"day1", "noon">>, <<<<"day2", "midnight">>>>),
           !.provenance = [kind |-> "Extracted", doc |-> <<"a">>, span |-> <<1, 20>>, model |-> <<<<"m">>, <<"1">>>>],
           !.conf = [m |-> 1, scale |-> 0], !.auth = [m |-> 85, scale |-> 2], !.perm = "internal",
           !.deps = <<Id("1"), Id("3")>>, !.note = <<<<"a", "quote", "b", "nl">>>>]
Literal_ == [Said(Id("3"), Of(<<Lit(Str(<<"a", "\\", "tab">>)), Lit(Date("day1")), Lit(Bool(<<"t">>)),
                               Lit(Uri(<<"a", ":", "b">>)), Var(<<"t">>), Lit(Dec(5, 3))>>)) EXCEPT
               !.provenance = [kind |-> "Derived", from |-> Id("1"), rule |-> <<"r">>],
               !.deps = <<Id("1")>>]
Deepest == [Said(Id("4"), Nested(List(<<A>>))) EXCEPT
              !.provenance = [kind |-> "Summary", doc |-> <<"a">>, span |-> <<0, 3>>]]
TooDeep == Said(Id("5"), Nested(List(<<List(<<A>>)>>)))
Slash == Said(Id("6"), Of(<<Ent(<<"a", "/", "b">>)>>))      \* a symbol, no @ name
QuotedDoc == [Said(Id("7"), Of(<<B>>)) EXCEPT
                !.provenance = [kind |-> "Verbatim", doc |-> <<"a", "quote">>, span |-> <<1, 2>>]]
LongDur == Said(<<"auto", "-", "3">>, Of(<<Lit(Dur(120))>>))   \* the content id of another predicate
WideDec == Said(Id("9"), Likes(<<A, Lit(Dec(1, 4))>>, <<>>))
OrgArgs == Said(Id("0"), Pred(<<"org">>, <<A>>, <<>>))
Auto == Said(<<"auto">>, Liking)

SaidNodes == {Plain1, Rich, Literal_, Deepest, TooDeep, Slash, QuotedDoc, LongDur, WideDec, OrgArgs, Auto}

-----------------------------------------------------------------------------
(* Two ways to write it: style "tidy" is near the canonical form, style    *)
(* "free" uses every freedom of the grammar.                               *)

Styles == {"tidy", "free"}
Sep(style) == IF style = "tidy" THEN <<" ">> ELSE <<"nl", ";", "a", ")", "nl", " ">>
Form(open, pieces, close, style) == <<open>> \o Joined(pieces, Sep(style)) \o <<close>>
P(pieces, style) == Form("(", pieces, ")", style)

\* The literals, as a client writes them.
Written ==
  {<<Dec(-105, 2), <<"-", "1", ".", "0", "5">>>>, <<Dec(5, 3), <<"0", ".", "0", "0", "5">>>>,
   <<Dec(1, 4), <<"0", ".", "0", "0", "0", "1">>>>, <<Dur(10), <<"#", "dur", "(", "5", "s", ")">>>>,
   <<Dur(120), <<"#", "dur", "(", "1", "m", ")">>>>, <<Date("day1"), <<"#", "date", "(", "day1", ")">>>>,
   <<Bool(<<"t">>), <<"#", "t">>>>, <<Uri(<<"a", ":", "b">>), <<"<", "a", ":", "b", ">">>>>,
   <<Str(<<"a", "\\", "tab">>), <<"quote", "a", "\\", "\\", "tab", "quote">>>>}
WrittenLit(l) == (CHOOSE w \in Written : w[1] = l)[2]

RECURSIVE WriteTerm(_, _)
WritePred(p, style) ==
  P(<<p.head>> \o Map(LAMBDA t : WriteTerm(t, style), p.args)
    \o FlattenSeq(Map(LAMBDA a : <<<<":">> \o a[1], WriteTerm(a[2], style)>>, p.named)), style)
WriteTerm(t, style) ==
  CASE t.kind = "Var" -> <<"?">> \o t.var
    [] t.kind = "Ent" -> IF style = "free" \/ "/" \in ToSet(t.ent) THEN t.ent ELSE <<"@">> \o t.ent
    [] t.kind = "Lit" -> WrittenLit(t.lit)
    [] t.kind = "Compound" -> WritePred(t.pred, style)
    [] t.kind = "List" -> Form("[", Map(LAMBDA u : WriteTerm(u, style), t.items), "]", style)

InQuotes(s) == <<"quote">> \o FlattenSeq(Map(LAMBDA a : IF a = "quote" THEN <<"\\", a>> ELSE <<a>>, s))
               \o <<"quote">>
Word(s, style) == IF style = "free" /\ ToSet(s) \subseteq MCLetters THEN s ELSE InQuotes(s)
Number(k) == IF k < 10 THEN <<DigitSeq[k + 1]>> ELSE <<DigitSeq[(k \div 10) + 1], DigitSeq[(k % 10) + 1]>>

\* Midnight may be written as a date.
Instant(i, style) ==
  IF style = "free" /\ i[2] = Midnight THEN <<"#", "date", "(", i[1], ")">> ELSE InQuotes(i)
WriteValidity(v, style) ==
  IF v.kind = "Forever" THEN <<"forever">>
  ELSE P(<<<<"window">>>> \o Map(LAMBDA i : Instant(i, style), <<v.from>> \o v.until), style)

\* Brackets and the word model may be left out.
Span(s, style) == IF style = "free" THEN Map(Number, s)
                  ELSE <<<<"[">> \o Number(s[1]) \o <<" ">> \o Number(s[2]) \o <<"]">>>>
Model(m, style) == IF style = "free" THEN Map(InQuotes, m)
                   ELSE <<P(<<<<"model">>>> \o Map(InQuotes, m), style)>>
WriteProvenance(p, style) ==
  CASE p.kind = "Asserted" -> P(<<<<"asserted">>, Word(p.by, style)>>, style)
    [] p.kind = "Derived" -> P(<<<<"derived">>, p.from, Word(p.rule, style)>>, style)
    [] p.kind = "Verbatim" -> P(<<<<"verbatim">>, Word(p.doc, style)>> \o Span(p.span, style), style)
    [] p.kind = "Summary" -> P(<<<<"summary">>, Word(p.doc, style)>> \o Span(p.span, style), style)
    [] p.kind = "Extracted" ->
         P(<<<<"extracted">>, Word(p.doc, style)>> \o Span(p.span, style) \o Model(p.model, style), style)

Shares ==
  {<<[m |-> 6, scale |-> 1], <<"0", ".", "6">>>>, <<[m |-> 5, scale |-> 1], <<"0", ".", "5", "0">>>>,
   <<[m |-> 1, scale |-> 0], <<"1">>>>, <<[m |-> 85, scale |-> 2], <<"0", ".", "8", "5">>>>}
Share(v) == (CHOOSE w \in Shares : w[1] = v)[2]
Deps(ids, style) == IF style = "free" /\ Len(ids) = 1 THEN ids[1] ELSE Form("[", ids, "]", style)

KV(name, text) == <<<<":", name>>, text>>
WriteFields(n, style) ==
  LET fields ==
        <<KV("pred", WritePred(n.pred, style)), KV("valid", WriteValidity(n.validity, style)),
          KV("src", WriteProvenance(n.provenance, style)), KV("conf", Share(n.conf)),
          KV("auth", Share(n.auth)), KV("perm", <<n.perm>>), KV("deps", Deps(n.deps, style)),
          KV("note", IF n.note = <<>> THEN <<>> ELSE InQuotes(n.note[1]))>>
      said == [k \in 1..8 |-> IF n.note = <<>> /\ k = 8 THEN <<>> ELSE fields[k]]
  IN IF style = "tidy" THEN FlattenSeq(said)
     ELSE KV("conf", <<"1">>) \o FlattenSeq(Reverse(said))   \* :conf twice

\* In a free document the node stands between words and forms that are none.
Write(n, style) ==
  LET node == P(<<<<"node">>, n.id>> \o WriteFields(n, style), style)
  IN IF style = "tidy" THEN node
     ELSE <<"a", " ", "]", "(", "b", "(", "quote", ")", "quote", ")", "node", ")">> \o node \o <<" ", ")">>

-----------------------------------------------------------------------------
(* The constants.                                                          *)

Texts == {<<n, style>> : n \in SaidNodes, style \in Styles}
Document == [e \in Texts |-> Write(e[1], e[2])]
MCDocuments == {Document[e] : e \in Texts}
LikingD == Likes(<<A, B>>, <<<<<<"d">>, B>>>>)
Nesting == Nested(List(<<List(<<A>>)>>))
Claims == {Liking, LikingD, Nesting}
Claim == [e \in {<<p, style>> : p \in Claims, style \in Styles} |-> WritePred(e[1], e[2])]

MCMeaning ==
  [text \in MCDocuments |-> <<(CHOOSE e \in Texts : Document[e] = text)[1]>>]
  @@ [text \in {Claim[e] : e \in DOMAIN Claim} |-> (CHOOSE e \in DOMAIN Claim : Claim[e] = text)[1]]

MCBundles ==
  {Map(LAMBDA e : Document[e], es) :
     es \in {<<<<Plain1, "tidy">>, <<Literal_, "tidy">>>>, <<<<Plain1, "tidy">>, <<TooDeep, "tidy">>>>,
            <<<<Slash, "tidy">>, <<Slash, "free">>>>}}

Ninety == [m |-> 9, scale |-> 1]
Asserting(p, style, by, conf, note) ==
  [text |-> Claim[<<p, style>>], by |-> by, conf |-> conf, note |-> note]
MCAssertions ==
  {Asserting(w[1], w[2], w[3], w[4], w[5]) :
     w \in (Claims \X Styles \X {<<"a">>} \X {<<>>} \X {<<>>})
        \cup ({Liking} \X {"tidy"} \X {<<"b">>, <<"quote">>}
               \X {<<Ninety>>, <<[m |-> 15, scale |-> 1]>>} \X {<<<<"b">>>>})}

\* One number for each predicate that is asserted, as 48 bits of a hash are in
\* practice; the third is taken by a node that was given it by hand.
Hash == canonical_predicate(Liking) :> "1" @@ canonical_predicate(LikingD) :> "2"
        @@ canonical_predicate(Nesting) :> "3"
MCContentId(text) == <<"auto", "-", Hash[text]>>

MCIds == {n.id : n \in SaidNodes} \cup {MCContentId(canonical_predicate(p)) : p \in Claims}
MCQuestions == {WritePred(Likes(<<Var(<<"a">>), Var(<<"b">>)>>, <<>>), "tidy"), <<"(", "likes">>}
MCEntities == {[entity |-> <<"@", "A">>, minConf |-> [m |-> 0, scale |-> 0]],
               [entity |-> <<"B">>, minConf |-> [m |-> 7, scale |-> 1]]}
MCSearches == {[keyword |-> <<"a">>, limit |-> <<>>], [keyword |-> <<"B">>, limit |-> <<3>>],
               [keyword |-> <<"m">>, limit |-> <<0>>], [keyword |-> <<>>, limit |-> <<>>]}
MCRetractable == {Id("1"), Id("2")}
-----------------------------------------------------------------------------
(* Terms as trees.                                                         *)

RECURSIVE Parts_(_), Depth(_)
\* The terms of a predicate, named and nested ones too.
TermsOf(p) == ToSet(p.args) \cup {a[2] : a \in ToSet(p.named)}
Parts_(t) == {t} \cup (CASE t.kind = "Compound" -> UNION {Parts_(u) : u \in TermsOf(t.pred)}
                         [] t.kind = "List" -> UNION {Parts_(u) : u \in ToSet(t.items)}
                         [] OTHER -> {})
AllTerms(p) == UNION {Parts_(t) : t \in TermsOf(p)}

\* How many parentheses and brackets are open at once.
Depth(t) == CASE t.kind = "Compound" -> 1 + Max({0} \cup {Depth(u) : u \in TermsOf(t.pred)})
              [] t.kind = "List" -> 1 + Max({0} \cup {Depth(u) : u \in ToSet(t.items)})
              [] OTHER -> 0
DepthOf(p) == Depth(Compound(p))

-----------------------------------------------------------------------------
(* Properties that look into terms: text to nodes, nodes to text.          *)

\* The verifiers are on and the node is not what they want.
Illformed(n) ==
  \/ \E t \in ToSet(n.pred.args) : t.kind = "Lit" /\ t.lit.type = "Dec"
       /\ (t.lit.scale > MaxScale \/ t.lit.m >= 10 ^ MaxDigits \/ t.lit.m <= -(10 ^ MaxDigits))
  \/ \E def \in ToSet(Seeds) : def.name = n.pred.head
       /\ (IF def.kind = "Entity" THEN n.pred.args # <<>>
           ELSE Len(n.pred.args) + Len(n.pred.named) \notin def.required..def.total)

\* A node form that fits the depth limit is understood as it was meant, however
\* it is laid out, and stored so or refused for what the store or the verifiers
\* say; one level too deep is refused (parser.rs:70-120, 220-304; lexer.rs:91-112).
Understood ==
  [][\A c \in Clients : request'[c] # request[c] /\ request'[c].tool = "insert" =>
       LET meant == Meaning[request'[c].input][1]
           n == Identified(meant)
           a == answer'[c]
       IN CASE DepthOf(meant.pred) + 1 > MaxDepth -> a = Error("DepthLimitExceeded")
            [] verifying /\ Illformed(n) /\ DepthOf(meant.pred) + 1 <= MaxDepth -> a = Error("InvalidNode")
            [] OTHER -> IF Known(n.id) THEN a = Error("AlreadyExists") ELSE facts'[n.id] # None /\ facts'[n.id].node = n
    ]_xvars

Plain(s) == ToSet(s) \cap {"quote", "\\"} = {}
ProvenanceTexts(p) ==
  CASE p.kind = "Asserted" -> {p.by}
    [] p.kind = "Derived" -> {p.rule}
    [] p.kind = "Extracted" -> {p.doc, p.model[1], p.model[2]}
    [] OTHER -> {p.doc}

\* What a canonical text can say: entities have names @ can spell, the strings of
\* the provenance need no escape, durations fit 64 bits, numbers are in range, and
\* the predicate fits into a node form.
Readable(n) ==
  /\ \A t \in AllTerms(n.pred) :
       /\ t.kind = "Ent" => t.ent # <<>> /\ ToSet(t.ent) \subseteq EntityAtoms
       /\ t.kind = "Lit" => t.lit.type # "Dur" \/ t.lit.ns <= MaxU64
  /\ \A s \in ProvenanceTexts(n.provenance) : Plain(s)
  /\ UnitInterval(n.conf) /\ UnitInterval(n.auth)
  /\ DepthOf(n.pred) + 1 <= MaxDepth

RoundTrips(ns) == LET r == parse(canonical_all(ns)) IN r.err = "" /\ r.val = ns

\* Each of them, with whether its text reads back.
RoundTrip == [n \in Storable |-> RoundTrips(<<n>>)]

\* The canonical text of a stored node, which resources and queries hand out,
\* reads back as that node, alone and among others, exactly if it is Readable
\* (serialize.rs:465-485 "the fundamental round-trip invariant").
ReadsBack ==
  LET nodes == {facts[i].node : i \in {j \in Ids : Known(j)}}
      readable == {n \in nodes : Readable(n)}
  IN {n \in nodes : RoundTrip[n]} = readable /\ RoundTrips(SetToSeq(readable))

\* The claim without exceptions (README.md:162 "`parse(serialize(parse(x))) ==
\* parse(x)`. 100% and verified").
round_trip == \A i \in Ids : Known(i) => RoundTrip[facts[i].node]
=============================================================================
