---------------------------- MODULE MCReplication ----------------------------
(***************************************************************************)
(* The commands the primary logs in the checked instances of Replication.  *)
(***************************************************************************)
EXTENDS Replication, Serializer

Alphabet == {"CR", "LF", "+", "$", "*", "A", "B"}

\* Two commands of eight tokens.  A cut before the "+" leaves a value that
\* parses, and is no command; any other cut leaves bytes that never parse.
Request(name) == create_array(<<create_simple_string(<<name>>)>>)
Lines == <<serialize(Request("A")), serialize(Request("B"))>>
BulkLine == <<serialize(create_array(<<create_bulk_string(<<"A">>)>>)), serialize(Request("B"))>>

Executed(v) == v.type = "Array" /\ v.arr # <<>>
=============================================================================
