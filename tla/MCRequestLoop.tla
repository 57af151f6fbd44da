---------------------------- MODULE MCRequestLoop ----------------------------
(***************************************************************************)
(* What clients may send in the checked instance of RequestLoop.           *)
(***************************************************************************)
EXTENDS RequestLoop, Serializer

Alphabet == {"CR", "LF", "+", "-", ":", "$", "*", "E", "O", "P", "Q", "W"}

Whole(v) == [wire |-> serialize(v), whole |-> TRUE, val |-> v]
As(bytes, v) == [wire |-> bytes, whole |-> TRUE, val |-> v]
Broken(bytes) == [wire |-> bytes, whole |-> FALSE, val |-> create_null]

Command(strings) == create_array([i \in DOMAIN strings |-> create_bulk_string(strings[i])])

\* Commands, with payloads that look like the protocol, with a null and with
\* an array for an argument; values that are no commands; both forms of null;
\* a line that is not RESP (an inline command).
Sent == { Whole(Command(<<<<"P">>, <<"CR", "LF">>>>)),
          Whole(Command(<<<<"Q">>>>)),
          Whole(Command(<<<<"W">>, <<"*", "1", "CR", "LF">>>>)),
          As(<<"*", "2">> \o CRLF \o <<"$", "1">> \o CRLF \o <<"W">> \o CRLF \o <<"$", "-1">> \o CRLF,
             create_array(<<create_bulk_string(<<"W">>), create_null>>)),
          Whole(create_array(<<create_simple_string(<<"W">>), create_array(<<create_integer(1)>>)>>)),
          Whole(create_array(<<>>)),
          As(<<"*", "-1">> \o CRLF, create_null),
          Broken(<<"P">> \o CRLF) }
=============================================================================
