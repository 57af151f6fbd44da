------------------------------ MODULE Serializer ------------------------------
(***************************************************************************)
(* RESPValue::serialize.                                                   *)
(***************************************************************************)
EXTENDS RESP, SequencesExt

\* Mutant: null becomes the empty string.
RECURSIVE SerializeWithoutNull(_)
SerializeWithoutNull(v) ==
  CASE v.type = "BulkString" -> <<"$", ToString(Len(v.str))>> \o CRLF \o v.str \o CRLF
    [] v.type = "Array"      -> <<"*", ToString(Len(v.arr))>> \o CRLF
                                \o FlattenSeq([i \in DOMAIN v.arr |-> SerializeWithoutNull(v.arr[i])])
    [] v.type = "Integer"    -> <<":", ToString(v.int)>> \o CRLF
    [] v.type = "Null"       -> <<"$", "0">> \o CRLF \o CRLF
    [] OTHER                 -> <<"+">> \o v.str \o CRLF

RECURSIVE serialize(_)
serialize(v) ==
  CASE v.type = "SimpleString" -> <<"+">> \o v.str \o CRLF
    [] v.type = "Error"        -> <<"-">> \o v.str \o CRLF
    [] v.type = "Integer"      -> <<":", ToString(v.int)>> \o CRLF
    [] v.type = "BulkString"   -> <<"$", ToString(Len(v.str))>> \o CRLF \o v.str \o CRLF
    [] v.type = "Array"        -> <<"*", ToString(Len(v.arr))>> \o CRLF
                                  \o FlattenSeq([i \in DOMAIN v.arr |-> serialize(v.arr[i])])
    [] v.type = "Null"         -> <<"$", "-1">> \o CRLF
===============================================================================
