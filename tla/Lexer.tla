------------------------------- MODULE Lexer -------------------------------
(***************************************************************************)
(* factum-core/src/lexer.rs: source text to tokens. A text is a sequence   *)
(* of atoms: a digit, a character with a meaning of its own, a run of      *)
(* letters, or another character only symbols and strings may hold. A      *)
(* letter that means something alone (an escape, the t of #t) is an atom   *)
(* of its own. "quote" is the double quote, "nl" the line feed. Line and   *)
(* column, which only error messages show, are left out.                   *)
(***************************************************************************)
EXTENDS Literals

CONSTANTS Letters,     \* the runs of letters
          MaxTokens    \* the code's 1 000 000

Blanks == {" ", "nl", "tab", "cr"}
NameAtoms == Letters \cup Digits \cup {"-", "_"}
EntityAtoms == NameAtoms \cup {":", "."}
SymbolEnds == Blanks \cup {"(", ")", "[", "]", ";", "quote", ":", "?", "@", "<", "#"}

At(t, k) == IF k \in DOMAIN t THEN t[k] ELSE "end"
Tok(kind, val) == [kind |-> kind, val |-> val]
Lexed(kind, val, next) == [err |-> "", tok |-> Tok(kind, val), next |-> next]

\* From k on, the first position that is not in S, or that is; the end is neither.
RECURSIVE RunEnd(_, _, _), Until(_, _, _)
RunEnd(t, k, S) == IF At(t, k) \in S THEN RunEnd(t, k + 1, S) ELSE k
Until(t, k, S) == IF At(t, k) \in S \cup {"end"} THEN k ELSE Until(t, k + 1, S)

RECURSIVE SkipBlanks(_, _)
SkipBlanks(t, k) ==
  LET j == RunEnd(t, k, Blanks)
  IN IF At(t, j) = ";" THEN SkipBlanks(t, Until(t, j, {"nl"})) ELSE j

lex_name(kind, t, k, S) ==
  LET e == RunEnd(t, k + 1, S)
  IN IF e = k + 1 THEN Bad("name expected") ELSE Lexed(kind, SubSeq(t, k + 1, e - 1), e)

Escaped(a) == CASE a = "n" -> "nl" [] a = "t" -> "tab" [] a = "r" -> "cr" [] OTHER -> a

RECURSIVE lex_string(_, _, _)
lex_string(t, k, buf) ==
  CASE At(t, k) = "quote" -> Lexed("Str", buf, k + 1)
    [] At(t, k) = "\\" /\ At(t, k + 1) # "end" -> lex_string(t, k + 2, Append(buf, Escaped(t[k + 1])))
    [] At(t, k) = "end" \/ At(t, k) = "\\" -> Bad("UnterminatedString")
    [] OTHER -> lex_string(t, k + 1, Append(buf, t[k]))

lex_uri(t, k) ==
  LET e == Until(t, k, {">"})
  IN IF e > Len(t) THEN Bad("unterminated URI") ELSE Lexed("Uri", SubSeq(t, k + 1, e - 1), e + 1)

\* A missing closing parenthesis is no error.
lex_hash_prefixed(t, k) ==
  LET a == At(t, k + 1)
      e == Until(t, k + 3, {")"})
  IN CASE a = "t" -> Lexed("Bool", <<"t">>, k + 2)
       [] a = "f" -> Lexed("Bool", <<"f">>, k + 2)
       [] a \in {"date", "dur"} /\ At(t, k + 2) = "(" ->
            Lexed(IF a = "date" THEN "Date" ELSE "Duration", SubSeq(t, k + 3, e - 1), e + 1)
       [] OTHER -> Bad("unknown # prefix")

lex_number(t, k) ==
  LET whole == RunEnd(t, IF t[k] = "-" THEN k + 1 ELSE k, Digits)
      e == IF At(t, whole) = "." THEN RunEnd(t, whole + 1, Digits) ELSE whole
  IN IF At(t, e) = "." /\ At(t, e + 1) \in Digits THEN Bad("multi-dot number")
     ELSE Lexed("Number", SubSeq(t, k, e - 1), e)

lex_symbol(t, k) == LET e == Until(t, k, SymbolEnds)
                    IN Lexed("Symbol", SubSeq(t, k, e - 1), e)

next_token(t, k) ==
  CASE t[k] = "(" -> Lexed("LParen", <<>>, k + 1)
    [] t[k] = ")" -> Lexed("RParen", <<>>, k + 1)
    [] t[k] = "[" -> Lexed("LBracket", <<>>, k + 1)
    [] t[k] = "]" -> Lexed("RBracket", <<>>, k + 1)
    [] t[k] = "quote" -> lex_string(t, k + 1, <<>>)
    [] t[k] = "?" -> lex_name("Var", t, k, NameAtoms)
    [] t[k] = ":" -> lex_name("Keyword", t, k, NameAtoms)
    [] t[k] = "@" -> lex_name("Entity", t, k, EntityAtoms)
    [] t[k] = "<" -> lex_uri(t, k)
    [] t[k] = "#" -> lex_hash_prefixed(t, k)
    [] t[k] \in Digits \/ (t[k] = "-" /\ At(t, k + 1) \in Digits) -> lex_number(t, k)
    [] OTHER -> lex_symbol(t, k)

RECURSIVE TokensFrom(_, _, _)
TokensFrom(t, k, toks) ==
  LET j == SkipBlanks(t, k)
  IN IF j > Len(t) THEN Good(toks)
     ELSE IF Len(toks) >= MaxTokens THEN Bad("too many tokens")
     ELSE LET r == next_token(t, j)
          IN IF r.err # "" THEN Bad(r.err) ELSE TokensFrom(t, r.next, Append(toks, r.tok))

tokenize(t) == TokensFrom(t, 1, <<>>)
=============================================================================
