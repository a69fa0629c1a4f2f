------------------------------ MODULE MCFactumL ------------------------------
(***************************************************************************)
(* Instances of factum-l: nodes that fit the packed codec, and nodes that  *)
(* miss it by one respect each. An argument has four characters.           *)
(***************************************************************************)
EXTENDS FactumLProperties

MCMorphemes == <<[name |-> <<"organization">>, kind |-> "Entity"], [name |-> <<"likes">>, kind |-> "Relation"],
                 [name |-> <<"active">>, kind |-> "Status"]>>
MCCharset == <<"A", "B", "a", "b", "U", "0", "1", "2", "5", "-", ".", "(", ")", "today">>
MCUnknown == <<"U">>
MCUnitSecs == [s |-> 1]

Named_(name) == [name |-> <<name>>]
Node(id, head, args, named) ==
  [id |-> <<id>>, pred |-> Pred(head, args, named), validity |-> [kind |-> "Forever"],
   provenance |-> [kind |-> "Asserted", by |-> <<"system">>], conf |-> 600, auth |-> 500,
   perm |-> "public", deps |-> <<>>, status |-> "Active", note |-> <<>>]
Likes(id, args) == Node(id, Named_("likes"), args, <<>>)

A == Ent(<<"A">>)
B == Ent(<<"B">>)
Half == Lit(Dec(5, 1))
Word(s) == Str(s)
Truth == Lit([type |-> "Bool", text |-> <<"t">>])
On(day) == Lit([type |-> "Date", day |-> day])
Org(args) == Compound(Pred(Named_("organization"), args, <<>>))

Plain == Likes("plain", <<A, B>>)
Swapped == Likes("swapped", <<B, A>>)
Rich == [Likes("rich", <<Ent(<<"A", "-", "B", "a">>), Half>>) EXCEPT
           !.validity = [kind |-> "Window", from |-> <<"day1">>, until |-> <<>>],
           !.provenance = [kind |-> "Extracted", doc |-> <<"a">>, span |-> <<1, 2>>, model |-> <<<<"m">>, <<"1">>>>],
           !.conf = 950, !.auth = 900, !.perm = "confidential", !.deps = <<<<"plain">>>>,
           !.status = "Retracted", !.note = <<<<"a">>>>]
Three == [Likes("three", <<Word(<<"a", "b">>), Truth, Lit(Dur(250))>>) EXCEPT
            !.provenance = [kind |-> "Derived", from |-> <<"plain">>, rule |-> <<"r">>],
            !.perm = "internal", !.status = "Pending"]
ById == [Node("by-id", [id |-> 1], <<A, B>>, <<>>) EXCEPT !.auth = 1000, !.perm = "restricted",
           !.provenance = [kind |-> "Verbatim", doc |-> <<"a">>, span |-> <<0, 9>>]]
NoId == Node("no-id", [id |-> 7], <<A>>, <<>>)
Stranger == Node("stranger", Named_("zz"), <<A>>, <<>>)
Long == [Likes("long", <<Ent(<<"A", "B", "a", "b", "A">>), Var(<<"a">>)>>) EXCEPT !.perm = "combined",
           !.provenance = [kind |-> "Summary", doc |-> <<"a">>, span |-> <<0, 9>>]]
LongDur == Likes("long-dur", <<Lit(Dur(12005)), Lit(Dec(-5, 2))>>)
Odd == Likes("odd", <<Lit([type |-> "Uri", text |-> <<"a", ":", "b">>]), Word(<<>>), On("today")>>)
FarDay == Likes("far-day", <<A, On("far")>>)
WithNamed == Node("named", Named_("likes"), <<A, B>>, <<<<"since", On("today")>>>>)
NamedLater == Node("later", Named_("likes"), <<A, B>>, <<<<"since", On("far")>>>>)
Four == Likes("four", <<A, B, Half, Half>>)
Nested == Likes("nested", <<A, Org(<<A, Org(<<>>)>>)>>)
NestedB == Likes("nested-b", <<A, Org(<<B, Org(<<>>)>>)>>)
OneItem == Likes("one-item", <<List(<<A>>), List(<<Word(<<"a">>)>>)>>)
Items == Likes("items", <<List(<<A, B, A>>)>>)
NoItems == Likes("no-items", <<A, B, List(<<>>)>>)
LastList == Likes("last-list", <<A, B, List(<<B>>)>>)
NestedItem == Likes("nested-item", <<List(<<Org(<<A>>)>>)>>)
Status == Node("status", Named_("active"), <<Half, Half, A>>, <<>>)
Placed == Likes("placed", <<Ent(<<"ENT-", "0">>), Ent(<<"ENT-", "1">>)>>)

MCPool == {Plain, Swapped, Rich, Three, ById, NoId, Stranger, Long, LongDur, Odd, FarDay, WithNamed, NamedLater,
           Four, Nested, NestedB, OneItem, Items, NoItems, LastList, NestedItem, Status, Placed}
MCBatches == {<<n>> : n \in MCPool}
             \cup {<<>>, <<Plain, Rich>>, <<Three, Status>>, <<Plain, WithNamed, Three>>, <<Nested, Plain, Long, ById>>}

RECURSIVE WithParts(_)
WithParts(t) == {t} \cup UNION {WithParts(u) : u \in ToSet(ItemsOf(t))}
ArgsOf(n) == ToSet(n.pred.args \o Values(n.pred.named))
MCInner == UNION {WithParts(t) : t \in UNION {ToSet(ItemsOf(u)) : u \in UNION {ArgsOf(n) : n \in MCPool}}}

\* Some texts are longer than others, three even than a baseline vector.
MCBytes(n) == IF n \in {Stranger, Status, Placed} THEN 1200 ELSE IF n \in {Rich, LongDur, ById} THEN 60 ELSE 48
MCLength(n) == IF n = Stranger THEN 260 ELSE 310

MCGateConfigs == {[divisor |-> 3, latent |-> TRUE, split |-> <<1, 2>>],
                  [divisor |-> 1, latent |-> TRUE, split |-> <<1, 4>>],
                  [divisor |-> MaxUsize, latent |-> FALSE, split |-> <<0, 1>>]}
-----------------------------------------------------------------------------
(* A definition of closeness that never looks at two nodes at once: what a *)
(* predicate says, with its morphemes by name, and what shape it has, with *)
(* the values taken out.                                                   *)

RECURSIVE Saying(_), ShapeOf(_)
Told(p, F(_)) ==
  [head |-> head_info(p.head), args |-> [k \in DOMAIN p.args |-> F(p.args[k])], keys |-> Keys(p.named),
   values |-> [k \in DOMAIN p.named |-> F(p.named[k][2])]]
Saying(t) ==
  CASE t.kind = "Compound" -> <<"Compound", Told(t.pred, Saying)>>
    [] t.kind = "List" -> <<"List", [k \in DOMAIN t.items |-> Saying(t.items[k])]>>
    [] OTHER -> <<t.kind, t>>
ShapeOf(t) ==
  CASE t.kind = "Compound" -> <<"Compound", Told(t.pred, ShapeOf)>>
    [] t.kind = "List" -> <<"List", [k \in DOMAIN t.items |-> ShapeOf(t.items[k])]>>
    [] OTHER -> <<TypeOf(t)>>

Wrong(a, b) == Cardinality({k \in DOMAIN a.args : a.args[k] # b.args[k]})
               + Cardinality({k \in DOMAIN a.values : a.values[k] # b.values[k]})
MetaFields == {"validity", "provenance", "conf", "auth", "perm", "deps", "status"}

Closeness(n, m) ==
  LET a == Told(n.pred, Saying)
      b == Told(m.pred, Saying)
  IN IF Told(n.pred, ShapeOf) # Told(m.pred, ShapeOf) THEN Different
     ELSE IF a # b THEN WrongValues(Larger(0, 30 - 10 * Wrong(a, b)))
     ELSE IF \A f \in MetaFields : n[f] = m[f] THEN Exact ELSE MetadataDrift

\* SemEquiv scores any two nodes by what they say and never by how they are built: an
\* Id and its name are one head, order and nesting count, id and note do not; the
\* verdict is the same in both directions. Checked for what is sent and for what
\* arrives (sequiv.rs: compare, compare_predicates, compare_terms).
ScoresMeaning ==
  /\ details = <<>> /\ wire = <<>> /\ hops = 0 =>
       \A k \in DOMAIN sent, m \in MCPool :
         compare(sent[k], m) = Closeness(sent[k], m) /\ compare(m, sent[k]) = Closeness(sent[k], m)
  /\ wire = <<>> /\ hops > 0 =>
       \A k \in DOMAIN sent, j \in DOMAIN held : compare(sent[k], held[j]) = Closeness(sent[k], held[j])
=============================================================================
