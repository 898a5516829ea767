------------------------------- MODULE SpecJson -------------------------------
(***************************************************************************)
(* JsonParser, the reader of policy specifications that the policy-prune   *)
(* and the selective-packet-sym pass each contain (policy_pass.cpp,        *)
(* selective_packet_sym.cpp).  It works on characters; here on tokens:     *)
(* blanks are gone, a string, a number and a literal are one token each,   *)
(* and "cut" is a string the file ends in.                                 *)
(***************************************************************************)
EXTENDS SpecValue

CONSTANT JsonValues   \* values to read back from their text

\* The parser: the token it is at, ok, and an exception of std::stod.
Parser(src) == [src |-> src, i |-> 1, ok |-> TRUE, threw |-> FALSE]
At(p, t) == p.i <= Len(p.src) /\ p.src[p.i].t = t
Advance(p) == [p EXCEPT !.i = @ + 1]
Fail(p) == [p EXCEPT !.ok = FALSE]
match(p, t) == IF At(p, t) THEN Advance(p) ELSE p
\* Mutant: a missing character is passed over.
expect_lax(p, t) == match(p, t)
expect(p, t) == IF At(p, t) THEN Advance(p) ELSE Fail(p)
Result(p, v) == [p |-> p, v |-> v]

\* A string the file ends in is read to the end, and then its end is missing.
parseString(p) ==
  IF At(p, "str") THEN Result(Advance(p), p.src[p.i].s)
  ELSE IF At(p, "cut") THEN Result(Fail([p EXCEPT !.i = Len(p.src) + 1]), p.src[p.i].s)
  ELSE Result(Fail(p), "")

RECURSIVE parseValue(_), parseMembers(_, _), parseElements(_, _)
parseMembers(p, obj) ==
  IF ~p.ok \/ p.threw THEN Result(p, obj)
  ELSE LET key == parseString(p)
           val == parseValue(expect(key.p, ":"))
           all == Append(obj, [k |-> key.v, v |-> val.v])
       IN  IF val.p.threw THEN Result(val.p, all)
           ELSE IF At(val.p, ",") THEN parseMembers(Advance(val.p), all)
           ELSE Result(expect(val.p, "}"), all)
parseElements(p, arr) ==
  IF ~p.ok \/ p.threw THEN Result(p, arr)
  ELSE LET val == parseValue(p)
           all == Append(arr, val.v)
       IN  IF val.p.threw THEN Result(val.p, all)
           ELSE IF At(val.p, ",") THEN parseElements(Advance(val.p), all)
           ELSE Result(expect(val.p, "]"), all)
parseValue(p) ==
  IF p.i > Len(p.src) THEN Result(Fail(p), JsonNull)
  ELSE LET t == p.src[p.i]
       IN  CASE t.t \in {"str", "cut"} -> LET r == parseString(p) IN Result(r.p, JsonString(r.v))
             [] t.t = "{" ->
                  IF At(Advance(p), "}") THEN Result(Advance(Advance(p)), JsonObject(<< >>))
                  ELSE LET r == parseMembers(Advance(p), << >>) IN Result(r.p, JsonObject(r.v))
             [] t.t = "[" ->
                  IF At(Advance(p), "]") THEN Result(Advance(Advance(p)), JsonArray(<< >>))
                  ELSE LET r == parseElements(Advance(p), << >>) IN Result(r.p, JsonArray(r.v))
             [] t.t = "true" -> Result(Advance(p), JsonBool(TRUE))
             [] t.t = "false" -> Result(Advance(p), JsonBool(FALSE))
             [] t.t = "null" -> Result(Advance(p), JsonNull)
             [] t.t = "word" -> Result(Fail(p), JsonNull)   \* a t, f or n that starts no literal
             [] t.t = "num" -> Result(Advance(p), JsonNumber(t.n))
             [] OTHER -> Result([p EXCEPT !.threw = TRUE], JsonNull)   \* std::stod of nothing

\* The root of a specification: an object that was read without an error.
loadRoot(src) == LET r == parseValue(Parser(src))
                 IN  [ok |-> src # << >> /\ r.p.ok /\ r.v.type = "Object",
                      threw |-> r.p.threw, root |-> r.v]

-----------------------------------------------------------------------------
(* Reference: the text of a value.                                         *)

RECURSIVE Text(_), TextOfElements(_, _), TextOfMembers(_, _)
TextOfElements(a, i) ==
  IF i > Len(a) THEN << >>
  ELSE (IF i = 1 THEN << >> ELSE <<Tok(",")>>) \o Text(a[i]) \o TextOfElements(a, i + 1)
TextOfMembers(o, i) ==
  IF i > Len(o) THEN << >>
  ELSE (IF i = 1 THEN << >> ELSE <<Tok(",")>>) \o <<Str(o[i].k), Tok(":")>> \o Text(o[i].v)
         \o TextOfMembers(o, i + 1)
Text(v) ==
  CASE v.type = "Null" -> <<Tok("null")>>
    [] v.type = "Bool" -> <<Tok(IF v.b THEN "true" ELSE "false")>>
    [] v.type = "Number" -> <<Num(v.n)>>
    [] v.type = "String" -> <<Str(v.s)>>
    [] v.type = "Array" -> <<Tok("[")>> \o TextOfElements(v.arr, 1) \o <<Tok("]")>>
    [] OTHER -> <<Tok("{")>> \o TextOfMembers(v.obj, 1) \o <<Tok("}")>>

\* The parser reads this text as a reader of JSON would: what it accepts is the
\* text of the value it returns, and it accepts the text of every value.
JsonTexts == {[v |-> v, text |-> Text(v)] : v \in JsonValues}
StartsWith(src, t) == Len(t) <= Len(src) /\ SubSeq(src, 1, Len(t)) = t
ReadAsJson(text) ==
  LET r == parseValue(Parser(text))
      good == r.p.ok /\ ~r.p.threw
  IN  /\ good => SubSeq(text, 1, r.p.i - 1) = Text(r.v)
      /\ \A j \in JsonTexts : StartsWith(text, j.text) => good /\ r.v = j.v
=============================================================================
