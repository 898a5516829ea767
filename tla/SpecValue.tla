------------------------------- MODULE SpecValue -------------------------------
(***************************************************************************)
(* JsonValue, what a policy specification is once it is read, and the      *)
(* tokens its text is made of (policy_pass.cpp, selective_packet_sym.cpp). *)
(***************************************************************************)
EXTENDS Integers, Sequences

Tok(t) == [t |-> t, s |-> "", n |-> 0]
Str(s) == [Tok("str") EXCEPT !.s = s]
Num(n) == [Tok("num") EXCEPT !.n = n]

\* JsonValue: the fields its type does not use keep their defaults.
JsonNull == [type |-> "Null", b |-> FALSE, n |-> 0, s |-> "", arr |-> << >>, obj |-> << >>]
JsonBool(b) == [JsonNull EXCEPT !.type = "Bool", !.b = b]
JsonNumber(n) == [JsonNull EXCEPT !.type = "Number", !.n = n]
JsonString(s) == [JsonNull EXCEPT !.type = "String", !.s = s]
JsonArray(a) == [JsonNull EXCEPT !.type = "Array", !.arr = a]
JsonObject(o) == [JsonNull EXCEPT !.type = "Object", !.obj = o]
\* find: the value of the first member with this key.
HasMember(v, key) == v.type = "Object" /\ \E i \in DOMAIN v.obj : v.obj[i].k = key
find(v, key) ==
  v.obj[CHOOSE i \in DOMAIN v.obj : v.obj[i].k = key
          /\ \A j \in 1..(i - 1) : v.obj[j].k # key].v
=============================================================================
