------------------------------ MODULE PathExpr ------------------------------
(***************************************************************************)
(* Path expressions (pact_models/src/path_exp.rs): how an expression is    *)
(* written, parsed, extended and weighed against the path of a value.      *)
(* A text is a sequence of characters, each a string of its own; a few     *)
(* characters stand for each class that the code tells apart, and a few    *)
(* words are characters of their own.                                      *)
(***************************************************************************)
EXTENDS Naturals, Sequences, SequencesExt, FiniteSetsExt

Words == {"path", "body", "header", "headers", "query", "status", "metadata", "matchers", "contentType"}
Alphabetic == {"a", "b", "A", "B"} \union Words
AsciiDigit == {"0", "1", "2", "3", "4", "5", "6", "7", "8", "9"}
\* A character that is_numeric() accepts and that parse::<usize>() does not.
OddNumeric == {"one half"}
Numeric == AsciiDigit \union OddNumeric

LowerCase(text) ==
    [i \in DOMAIN text |-> CASE text[i] = "A" -> "a" [] text[i] = "B" -> "b" [] text[i] = "Content-Type" -> "content-type" [] text[i] = "GET" -> "get" [] OTHER -> text[i]]

IsIdentifierChar(c) == c \in Alphabetic \union Numeric \union {"_", "-", ":", "#", "@"}

MIsIdent(key) == key # <<>> /\ key[1] \in Alphabetic \union {"_"}
\* The regular expression IDENT.
IsIdent(key) ==
    /\ key # <<>>
    /\ key[1] \in Alphabetic \union {"_"}
    /\ ToSet(key) \subseteq Alphabetic \union AsciiDigit \union {"_"}

-----------------------------------------------------------------------------
(* PathToken. The name of an index is its decimal representation. *)
Root == [kind |-> "root", name |-> <<>>]
Star == [kind |-> "star", name |-> <<>>]
StarIndex == [kind |-> "star index", name |-> <<>>]
Field(name) == [kind |-> "field", name |-> name]
Index(digits) == [kind |-> "index", name |-> digits]

\* Display of a token: the fragment that to_vec makes of it.
Fragment(token) ==
    CASE token.kind = "root" -> <<"$">>
      [] token.kind = "star" -> <<"*">>
      [] token.kind = "star index" -> <<"[", "*", "]">>
      [] OTHER -> token.name

ToVec(path) == [i \in DOMAIN path |-> Fragment(path[i])]

\* str::parse::<usize>(): digits, perhaps after a plus sign.
Digits(text) == IF text # <<>> /\ text[1] = "+" THEN Tail(text) ELSE text
IsNumber(text) == Digits(text) # <<>> /\ ToSet(Digits(text)) \subseteq AsciiDigit
\* ... and the number it yields, written out.
Number(text) ==
    LET d == Digits(text)
        first == Min({i \in DOMAIN d : d[i] # "0"} \union {Len(d)})
    IN  SubSeq(d, first, Len(d))

\* The token that join makes of one part of the path of a value.
Part(text) ==
    CASE text = <<"*">> -> Star
      [] text = <<"[", "*", "]">> -> StarIndex
      [] IsNumber(text) -> Index(Number(text))
      [] OTHER -> Field(text)
Join(path, text) == Append(path, Part(text))

\* push_path drops the root markers of the path it adds.
PushPath(path, other) == path \o SelectSeq(other, LAMBDA t : t # Root)

ToLowerCase(path) ==
    [i \in DOMAIN path |-> IF path[i].kind = "field" THEN Field(LowerCase(path[i].name)) ELSE path[i]]

FirstField(path) ==
    LET fields == SelectSeq(path, LAMBDA t : t.kind = "field")
    IN  IF fields = <<>> THEN <<>> ELSE <<fields[1].name>>

-----------------------------------------------------------------------------
(* write_obj_key_for_path and build_expr: an expression as text. *)
Escape(key) == FlattenSeq([i \in DOMAIN key |-> IF key[i] \in {"\\", "'"} THEN <<"\\", key[i]>> ELSE <<key[i]>>])

WriteKey(key) ==
    IF IsIdent(key) THEN <<".">> \o key ELSE <<"[", "'">> \o Escape(key) \o <<"'", "]">>

BuildExpr(path) ==
    FlattenSeq([i \in DOMAIN path |->
        CASE path[i].kind = "root" -> <<"$">>
          [] path[i].kind = "field" -> WriteKey(path[i].name)
          [] path[i].kind = "index" -> <<"[">> \o path[i].name \o <<"]">>
          [] path[i].kind = "star" -> <<".", "*">>
          [] path[i].kind = "star index" -> <<"[", "*", "]">>])

-----------------------------------------------------------------------------
(* parse_path_exp, by recursive descent over the characters from position  *)
(* i on; an index that is no number makes unwrap() panic.                  *)
Parsed(path) == [result |-> "ok", path |-> path]
Error == [result |-> "error", path |-> <<>>]
Panic == [result |-> "panic", path |-> <<>>]

\* The first position from i on with a character outside the class.
EndOf(text, i, Class(_)) ==
    Min({j \in i..Len(text) : ~ Class(text[j])} \union {Len(text) + 1})

RECURSIVE ParsePath(_, _, _)

ParseIdentifier(text, i, path) ==
    LET end == EndOf(text, i + 1, IsIdentifierChar)
    IN  IF end > Len(text) \/ text[end] \in {".", "'", "["}
        THEN ParsePath(text, end, Append(path, Field(SubSeq(text, i, end - 1))))
        ELSE Error

ParsePathIdentifier(text, i, path) ==
    IF i > Len(text) THEN Error
    ELSE CASE text[i] = "*" -> ParsePath(text, i + 1, Append(path, Star))
           [] IsIdentifierChar(text[i]) -> ParseIdentifier(text, i, path)
           [] OTHER -> Error

CloseBracket(text, i, path) ==
    IF i <= Len(text) /\ text[i] = "]" THEN ParsePath(text, i + 1, path) ELSE Error

ParseString(text, i, path) ==
    LET end == EndOf(text, i, LAMBDA c : c # "'")
    IN  IF end > Len(text) \/ end = i THEN Error
        ELSE CloseBracket(text, end + 1, Append(path, Field(SubSeq(text, i, end - 1))))

ParseIndex(text, i, path) ==
    LET end == EndOf(text, i, LAMBDA c : c \in Numeric)
        digits == SubSeq(text, i, end - 1)
    IN  IF end <= Len(text) /\ text[end] # "]" THEN Error
        ELSE IF ~ IsNumber(digits) THEN Panic
        ELSE CloseBracket(text, end, Append(path, Index(Number(digits))))

ParseBracket(text, i, path) ==
    IF i > Len(text) THEN Error
    ELSE CASE text[i] = "'" -> ParseString(text, i + 1, path)
           [] text[i] \in Numeric -> ParseIndex(text, i, path)
           [] text[i] = "*" -> CloseBracket(text, i + 1, Append(path, StarIndex))
           [] OTHER -> Error

ParsePath(text, i, path) ==
    IF i > Len(text) THEN Parsed(path)
    ELSE CASE text[i] = "." -> ParsePathIdentifier(text, i + 1, path)
           [] text[i] = "[" -> ParseBracket(text, i + 1, path)
           [] OTHER -> Error

Parse(text) ==
    IF text = <<>> THEN Parsed(<<>>)
    ELSE CASE text[1] = "$" -> ParsePath(text, 2, <<Root>>)
           [] text[1] \in Alphabetic \union Numeric -> ParseIdentifier(text, 1, <<Root>>)
           [] OTHER -> Error

-----------------------------------------------------------------------------
(* as_json_pointer; a path with a star has none. *)
HasStar(path) == \E i \in DOMAIN path : path[i] \in {Star, StarIndex}

PointerEscape(key) ==
    FlattenSeq([i \in DOMAIN key |->
        CASE key[i] = "~" -> <<"~", "0">> [] key[i] = "/" -> <<"~", "1">> [] OTHER -> <<key[i]>>])

AsJsonPointer(path) ==
    FlattenSeq([i \in DOMAIN path |->
        CASE path[i].kind = "root" -> <<>>
          [] path[i].kind = "field" -> <<"/">> \o PointerEscape(path[i].name)
          [] OTHER -> <<"/">> \o path[i].name])

-----------------------------------------------------------------------------
(* Weights. fragments is the path of a value as to_vec gives it. *)
MatchesToken(fragment, token) ==
    CASE token.kind = "root" -> IF fragment = <<"$">> THEN 2 ELSE 0
      [] token.kind = "field" -> IF fragment = token.name THEN 2 ELSE 0
      [] token.kind = "index" -> IF IsNumber(fragment) /\ Number(fragment) = token.name THEN 2 ELSE 0
      [] token.kind = "star index" -> IF fragment = <<"[", "*", "]">> \/ IsNumber(fragment) THEN 1 ELSE 0
      [] token.kind = "star" -> 1

\* path_weight: zip stops at the end of the shorter of the two.
PathWeight(path, fragments) ==
    IF Len(fragments) >= Len(path)
    THEN FoldFunction(LAMBDA w, acc : acc * w, 1, [i \in DOMAIN path |-> MatchesToken(fragments[i], path[i])])
    ELSE 0

MatchesPath(path, fragments) == PathWeight(path, fragments) > 0
MatchesPathExactly(path, fragments) == Len(path) = Len(fragments) /\ MatchesPath(path, fragments)
=============================================================================
