----------------------------- MODULE Serializer -----------------------------
(***************************************************************************)
(* factum-core/src/serialize.rs: nodes as text in the canonical form, and  *)
(* terms in the compact one, which module Exchange puts into nodes.        *)
(***************************************************************************)
EXTENDS Parser

\* What stands between the pieces of a list.
Joined(pieces, sep) ==
  FoldLeft(LAMBDA out, piece : IF out = <<>> THEN piece ELSE out \o sep \o piece, <<>>, pieces)
Spaced(pieces) == Joined(pieces, <<" ">>)
Map(F(_), s) == [k \in DOMAIN s |-> F(s[k])]

Escapes == [a \in {"quote", "\\", "nl", "tab", "cr"} |->
  <<"\\", CASE a = "nl" -> "n" [] a = "tab" -> "t" [] a = "cr" -> "r" [] OTHER -> a>>]
\* The backslash is forgotten.
EscapeQuotes(s) == FlattenSeq(Map(LAMBDA a : IF a = "quote" THEN Escapes[a] ELSE <<a>>, s))
Escape(s) == FlattenSeq(Map(LAMBDA a : IF a \in DOMAIN Escapes THEN Escapes[a] ELSE <<a>>, s))
Quoted(s) == <<"quote">> \o s \o <<"quote">>
Paren(pieces) == <<"(">> \o Spaced(pieces) \o <<")">>

canonical_literal(l) ==
  CASE l.type = "Dec" -> dec_text(l)
    [] l.type = "Str" -> Quoted(Escape(l.text))
    [] l.type = "Date" -> <<"#", "date", "(", l.day, ")">>
    [] l.type = "Dur" -> <<"#", "dur", "(">> \o dur_text(l) \o <<")">>
    [] l.type = "Bool" -> <<"#">> \o l.text
    [] l.type = "Uri" -> <<"<">> \o l.text \o <<">">>

RECURSIVE canonical_term(_)

canonical_predicate(p) ==
  Paren(<<p.head>> \o Map(canonical_term, p.args)
        \o FlattenSeq(Map(LAMBDA a : <<<<":">> \o a[1], canonical_term(a[2])>>, p.named)))

canonical_term(t) ==
  CASE t.kind = "Var" -> <<"?">> \o t.var
    [] t.kind = "Ent" -> <<"@">> \o t.ent
    [] t.kind = "Lit" -> canonical_literal(t.lit)
    [] t.kind = "Compound" -> canonical_predicate(t.pred)
    [] t.kind = "List" -> <<"[">> \o Spaced(Map(canonical_term, t.items)) \o <<"]">>

canonical_validity(v) ==
  IF v.kind = "Forever" THEN <<"forever">>
  ELSE Paren(<<<<"window">>>> \o Map(Quoted, <<v.from>> \o v.until))

\* The strings of a provenance are not escaped.
canonical_provenance(p) ==
  LET span == <<"[">> \o Spaced(Map(DigitsOf, p.span)) \o <<"]">>
      model == Paren(<<<<"model">>, Quoted(p.model[1]), Quoted(p.model[2])>>)
  IN CASE p.kind = "Verbatim" -> Paren(<<<<"verbatim">>, Quoted(p.doc), span>>)
       [] p.kind = "Summary" -> Paren(<<<<"summary">>, Quoted(p.doc), span>>)
       [] p.kind = "Extracted" -> Paren(<<<<"extracted">>, Quoted(p.doc), span, model>>)
       [] p.kind = "Derived" -> Paren(<<<<"derived">>, p.from, Quoted(p.rule)>>)
       [] p.kind = "Asserted" -> Paren(<<<<"asserted">>, Quoted(p.by)>>)

Field(name, text) == <<<<":", name>>, text>>

canonical(n) ==
  Paren(<<<<"node">>, n.id>>
        \o Field("pred", canonical_predicate(n.pred))
        \o Field("valid", canonical_validity(n.validity))
        \o Field("src", canonical_provenance(n.provenance))
        \o Field("conf", f32_text(n.conf))
        \o Field("auth", f32_text(n.auth))
        \o Field("perm", <<n.perm>>)
        \o (IF n.deps = <<>> THEN <<>> ELSE Field("deps", <<"[">> \o Spaced(n.deps) \o <<"]">>))
        \o (IF n.note = <<>> THEN <<>> ELSE Field("note", Quoted(Escape(n.note[1])))))

canonical_all(nodes) == FlattenSeq(Map(LAMBDA n : Append(canonical(n), "nl"), nodes))

-----------------------------------------------------------------------------
(* Terms in the compact form (records where the code writes JSON): a term  *)
(* is its bare text, with neither the ? of a variable nor the @ of an      *)
(* entity, and nothing tells a literal from the two.                       *)

to_canonical_string(l) ==
  CASE l.type = "Str" -> Quoted(FlattenSeq(Map(LAMBDA a : IF a \in {"quote", "\\"} THEN <<"\\", a>> ELSE <<a>>, l.text)))
    [] l.type = "Date" -> <<l.day>>
    [] l.type = "Dur" -> dur_text(l)
    [] l.type = "Bool" -> <<IF l.text = <<"t">> THEN "true" ELSE "false">>
    [] OTHER -> canonical_literal(l)

RECURSIVE CompactTerm(_)
CompactNamed(Term(_), named) == Map(LAMBDA a : <<a[1], Term(a[2])>>, named)
CompactTerm(t) ==
  CASE t.kind = "Var" -> [text |-> t.var]
    [] t.kind = "Ent" -> [text |-> t.ent]
    [] t.kind = "Lit" -> [text |-> to_canonical_string(t.lit)]
    [] t.kind = "List" -> [items |-> Map(CompactTerm, t.items)]
    [] t.kind = "Compound" -> [head |-> [name |-> t.pred.head], args |-> Map(CompactTerm, t.pred.args),
                               named |-> CompactNamed(CompactTerm, t.pred.named)]
=============================================================================
