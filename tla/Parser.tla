------------------------------- MODULE Parser -------------------------------
(***************************************************************************)
(* factum-core/src/parser.rs: tokens to nodes, by recursive descent. A     *)
(* parse method is an operator of the tokens t, the position k and, where  *)
(* it recurses, the depth d of the parser; it yields an error, or a value  *)
(* and the position after it. The texts of the error messages are left out *)
(* but for the names they begin with.                                      *)
(***************************************************************************)
EXTENDS Lexer, TermMatching

CONSTANTS Days, Clocks, Midnight,  \* an instant is written <<day, clock>>
          MaxDepth                 \* MAX_PARSE_DEPTH, 128 in the code

Str(s) == [type |-> "Str", text |-> s]
Bool(b) == [type |-> "Bool", text |-> b]
Date(d) == [type |-> "Date", day |-> d]
Uri(u) == [type |-> "Uri", text |-> u]

Forever == [kind |-> "Forever"]
Window(from, until) == [kind |-> "Window", from |-> from, until |-> until]  \* until: <<>> or <<instant>>
Asserted(by) == [kind |-> "Asserted", by |-> by]
Permissions == {"public", "internal", "confidential", "restricted"}
NodeDefaults ==
  [validity |-> Forever, provenance |-> Asserted(<<"system">>), conf |-> [m |-> 6, scale |-> 1],
   auth |-> [m |-> 5, scale |-> 1], perm |-> "public", deps |-> <<>>, note |-> <<>>]

-----------------------------------------------------------------------------
(* Results and single tokens. advance() stays on the last token, Eof.      *)

Done(v, k) == [err |-> "", val |-> v, pos |-> k]
Then(r, F(_, _)) == IF r.err # "" THEN r ELSE F(r.val, r.pos)

Kind(t, k) == IF k \in DOMAIN t THEN t[k].kind ELSE "Eof"
Val(t, k) == IF k \in DOMAIN t THEN t[k].val ELSE <<>>

Take(t, k, kinds) == IF Kind(t, k) \in kinds THEN Done(Val(t, k), k + 1) ELSE Bad("unexpected")
expect(t, k, kind) ==
  IF Kind(t, k) = "Eof" /\ kind = "RParen" THEN Bad("UnbalancedParen") ELSE Take(t, k, {kind})
expect_symbol(t, k, s) == IF Val(t, k) = s THEN Take(t, k, {"Symbol"}) ELSE Bad("unexpected")
parse_smol_str(t, k) == Take(t, k, {"Symbol", "Str"})

\* Refuses one level too late.
DeeperLate(d, r) == IF d > MaxDepth THEN Bad("DepthLimitExceeded") ELSE r

\* with_depth: one level deeper, or refused.
Deeper(d, r) == IF d >= MaxDepth THEN Bad("DepthLimitExceeded") ELSE r

Closed(r, t, kind, Wrap(_)) ==
  Then(r, LAMBDA v, k : Then(expect(t, k, kind), LAMBDA x, e : Done(Wrap(v), e)))
Same(v) == v

Unit(t, k) ==   \* parse_f32, then Confidence::new or Authority::new
  Then(Take(t, k, {"Number"}),
       LAMBDA s, e : IF UnitInterval(F32(s)) THEN Done(F32(s), e) ELSE Bad("out of range"))

parse_u32(t, k) ==
  Then(Take(t, k, {"Number"}), LAMBDA s, e :
       IF AllDigits(s) /\ NatOf(s) <= MaxU32 THEN Done(NatOf(s), e) ELSE Bad("invalid number"))

-----------------------------------------------------------------------------
(* Predicates and terms.                                                   *)

Literal(r, k) == IF r.err # "" THEN r ELSE Done(Lit(r.val), k)
DateOf(s) == IF Len(s) = 1 /\ s[1] \in Days THEN Good(Date(s[1])) ELSE Bad("invalid date")

RECURSIVE parse_term(_, _, _), Args(_, _, _, _), Items(_, _, _, _)

parse_predicate_body_inner(t, k, d) ==
  Then(Take(t, k, {"Symbol"}), LAMBDA h, e : Args(t, e, d, Pred(h, <<>>, <<>>)))

\* Positional arguments, then named ones.
Args(t, k, d, p) ==
  CASE Kind(t, k) \in {"RParen", "Eof"} -> Done(p, k)
    [] Kind(t, k) = "Keyword" ->
         Then(parse_term(t, k + 1, d), LAMBDA v, e :
              Args(t, e, d, [p EXCEPT !.named = Append(@, <<Val(t, k), v>>)]))
    [] OTHER ->
         IF p.named # <<>> THEN Bad("NamedArgBeforePositional")
         ELSE Then(parse_term(t, k, d), LAMBDA v, e :
                   Args(t, e, d, [p EXCEPT !.args = Append(@, v)]))

Items(t, k, d, items) ==
  IF Kind(t, k) \in {"RBracket", "Eof"} THEN Done(items, k)
  ELSE Then(parse_term(t, k, d), LAMBDA v, e : Items(t, e, d, Append(items, v)))

parse_predicate_form(t, k, d) ==
  Deeper(d, Then(expect(t, k, "LParen"), LAMBDA x, e :
                 Closed(parse_predicate_body_inner(t, e, d + 1), t, "RParen", Same)))

parse_term(t, k, d) ==
  LET v == Val(t, k) IN
  CASE Kind(t, k) = "Var" -> Done(Var(v), k + 1)
    [] Kind(t, k) \in {"Entity", "Symbol"} -> Done(Ent(v), k + 1)
    [] Kind(t, k) = "Number" -> Literal(dec_from_str(v), k + 1)
    [] Kind(t, k) = "Str" -> Done(Lit(Str(v)), k + 1)
    [] Kind(t, k) = "Bool" -> Done(Lit(Bool(v)), k + 1)
    [] Kind(t, k) = "Uri" -> Done(Lit(Uri(v)), k + 1)
    [] Kind(t, k) = "Date" -> Literal(DateOf(v), k + 1)
    [] Kind(t, k) = "Duration" -> Literal(parse_duration(v), k + 1)
    [] Kind(t, k) = "LParen" ->
         Deeper(d, Closed(parse_predicate_body_inner(t, k + 1, d + 1), t, "RParen", Compound))
    [] Kind(t, k) = "LBracket" ->
         Deeper(d, Closed(Items(t, k + 1, d + 1, <<>>), t, "RBracket", List))
    [] OTHER -> Bad("unexpected")

-----------------------------------------------------------------------------
(* The other fields of a node.                                             *)

parse_permission_tag(t, k) ==
  Then(Take(t, k, {"Symbol"}), LAMBDA s, e :
       IF Len(s) = 1 /\ s[1] \in Permissions THEN Done(s[1], e) ELSE Bad("unknown permission tag"))

RECURSIVE IdList(_, _, _)
IdList(t, k, ids) ==
  IF Kind(t, k) \in {"RBracket", "Eof"} THEN Done(ids, k)
  ELSE Then(Take(t, k, {"Symbol"}), LAMBDA s, e : IdList(t, e, Append(ids, s)))
parse_id_list(t, k) ==
  IF Kind(t, k) = "LBracket" THEN Closed(IdList(t, k + 1, <<>>), t, "RBracket", Same)
  ELSE Then(Take(t, k, {"Symbol"}), LAMBDA s, e : Done(<<s>>, e))

parse_datetime(t, k) ==
  LET s == Val(t, k) IN
  IF Kind(t, k) = "Date" /\ DateOf(s).err = "" THEN Done(<<s[1], Midnight>>, k + 1)
  ELSE IF Kind(t, k) = "Str" /\ s \in Days \X Clocks THEN Done(s, k + 1)
  ELSE Bad("invalid date")

parse_validity(t, k) ==
  IF Kind(t, k) = "Symbol" THEN Then(expect_symbol(t, k, <<"forever">>), LAMBDA s, e : Done(Forever, e))
  ELSE Then(expect(t, k, "LParen"), LAMBDA x, o :
       Then(expect_symbol(t, o, <<"window">>), LAMBDA w, j :
       Then(parse_datetime(t, j), LAMBDA from, e :
            IF Kind(t, e) = "RParen" THEN Done(Window(from, <<>>), e + 1)
            ELSE Closed(parse_datetime(t, e), t, "RParen", LAMBDA u : Window(from, <<u>>)))))

parse_span(t, k) ==
  LET bracket == Kind(t, k) = "LBracket"
      span == Then(parse_u32(t, IF bracket THEN k + 1 ELSE k), LAMBDA a, j :
              Then(parse_u32(t, j), LAMBDA b, e : Done(<<a, b>>, e)))
  IN IF bracket THEN Closed(span, t, "RBracket", Same) ELSE span

NameVersion(t, k) ==
  Then(parse_smol_str(t, k), LAMBDA n, j :
  Then(parse_smol_str(t, j), LAMBDA v, e : Done(<<n, v>>, e)))
parse_model_ref(t, k) ==
  CASE Kind(t, k) = "LParen" -> Then(expect_symbol(t, k + 1, <<"model">>), LAMBDA s, e :
                                     Closed(NameVersion(t, e), t, "RParen", Same))
    [] Kind(t, k) \in {"Symbol", "Str"} -> NameVersion(t, k)
    [] OTHER -> Bad("MissingModelRef")

DocSpan(kind, t, k) ==
  Then(parse_smol_str(t, k), LAMBDA doc, j :
  Then(parse_span(t, j), LAMBDA span, e : Done([kind |-> kind, doc |-> doc, span |-> span], e)))

parse_provenance(t, k) ==
  Then(expect(t, k, "LParen"), LAMBDA x, o :
  Then(Take(t, o, {"Symbol"}), LAMBDA kind, j :
    Closed(CASE kind = <<"verbatim">> -> DocSpan("Verbatim", t, j)
             [] kind = <<"summary">> -> DocSpan("Summary", t, j)
             [] kind = <<"extracted">> ->
                  Then(DocSpan("Extracted", t, j), LAMBDA p, e :
                  Then(parse_model_ref(t, e), LAMBDA m, f : Done([model |-> m] @@ p, f)))
             [] kind = <<"derived">> ->
                  Then(Take(t, j, {"Symbol"}), LAMBDA from, e :
                  Then(parse_smol_str(t, e), LAMBDA rule, f :
                       Done([kind |-> "Derived", from |-> from, rule |-> rule], f)))
             [] kind = <<"asserted">> ->
                  Then(parse_smol_str(t, j), LAMBDA by, e : Done(Asserted(by), e))
             [] OTHER -> Bad("unknown provenance kind"),
           t, "RParen", Same)))

-----------------------------------------------------------------------------
(* Nodes and documents. A field given twice keeps its last value.          *)

RECURSIVE Fields(_, _, _, _)
Fields(t, k, d, n) ==
  LET Set(f, r) == Then(r, LAMBDA v, e : Fields(t, e, d, (f :> v) @@ n))
      field == Val(t, k)
  IN CASE Kind(t, k) \in {"RParen", "Eof"} -> Done(n, k)
       [] Kind(t, k) # "Keyword" -> Bad("unexpected")
       [] field = <<"pred">> -> Set("pred", parse_predicate_form(t, k + 1, d))
       [] field = <<"valid">> -> Set("validity", parse_validity(t, k + 1))
       [] field = <<"src">> -> Set("provenance", parse_provenance(t, k + 1))
       [] field = <<"conf">> -> Set("conf", Unit(t, k + 1))
       [] field = <<"auth">> -> Set("auth", Unit(t, k + 1))
       [] field = <<"perm">> -> Set("perm", parse_permission_tag(t, k + 1))
       [] field = <<"deps">> -> Set("deps", parse_id_list(t, k + 1))
       [] field = <<"note">> -> Set("note", Then(parse_smol_str(t, k + 1), LAMBDA s, e : Done(<<s>>, e)))
       [] OTHER -> Bad("UnknownNodeField")

parse_node(t, k, d) ==
  Deeper(d,
    Then(expect(t, k, "LParen"), LAMBDA x, o :
    Then(expect_symbol(t, o, <<"node">>), LAMBDA s, j :
    Then(Take(t, j, {"Symbol"}), LAMBDA id, i :
    Then(Closed(Fields(t, i, d + 1, NodeDefaults), t, "RParen", Same), LAMBDA n, e :
         IF "pred" \in DOMAIN n THEN Done([id |-> id] @@ n, e) ELSE Bad("MissingPredField"))))))

\* From inside a form to after it. Any opening token goes one level in, but only
\* the token that closes the form, a parenthesis here, goes one out.
RECURSIVE skip_sexp(_, _, _)
skip_sexp(t, k, depth) ==
  LET kind == Kind(t, k) IN
  IF depth = 0 \/ kind = "Eof" THEN k
  ELSE skip_sexp(t, k + 1, IF kind \in {"LParen", "LBracket"} THEN depth + 1
                           ELSE IF kind = "RParen" THEN depth - 1 ELSE depth)

RECURSIVE Forms(_, _, _)
Forms(t, k, nodes) ==
  CASE Kind(t, k) = "Eof" -> Done(nodes, k)
    [] Kind(t, k) # "LParen" -> Forms(t, k + 1, nodes)
    [] Kind(t, k + 1) = "Symbol" /\ Val(t, k + 1) = <<"node">> ->
         Then(parse_node(t, k, 0), LAMBDA n, e : Forms(t, e, Append(nodes, n)))
    [] OTHER -> Forms(t, skip_sexp(t, k + 1, 1), nodes)

\* The end token counts against the limit.
Tokens(text) ==
  LET r == tokenize(text)
  IN IF r.err = "" /\ Len(r.val) >= MaxTokens THEN Bad("too many tokens") ELSE [pos |-> 1] @@ r

parse(text) == Then(Tokens(text), LAMBDA t, k : Forms(t, k, <<>>))

\* What follows the predicate is ignored.
parse_predicate(text) ==
  Then(Tokens(text), LAMBDA t, o :
  Then(expect(t, o, "LParen"), LAMBDA x, k :
       Deeper(0, Closed(parse_predicate_body_inner(t, k, 1), t, "RParen", Same))))
=============================================================================
