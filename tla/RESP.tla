--------------------------------- MODULE RESP ---------------------------------
(***************************************************************************)
(* The wire format: the values, and RESPParser.                            *)
(*                                                                         *)
(* A buffer is a sequence of tokens.  A token is one character, or a whole *)
(* decimal number: the parser looks at a number only once the end of its   *)
(* line has arrived, so where the number was cut makes no difference.  CR  *)
(* and LF are two tokens, and both may occur inside a bulk string.         *)
(*                                                                         *)
(* No number is below -1, the length and the count of a null, and none is  *)
(* put together from a sign, or from digits, that are characters of their  *)
(* own: so write serialize and every client that follows the protocol.     *)
(* parse_internal has no test against lower numbers.  A length of -2 makes *)
(* it return all that is in the buffer, a lower one also moves it back,    *)
(* and a lower count makes reserve throw.  Nothing here is about those.    *)
(***************************************************************************)
EXTENDS Integers, Sequences, FiniteSetsExt, TLC

CONSTANTS
  Chars,      \* the characters; no digit is one, see above
  MaxNumber   \* the greatest length, count or integer on the wire: reserve
              \* finds the memory for an array of so many elements

ASSUME NumberAssumption == MaxNumber \in Nat

Numerals == -1 .. MaxNumber
Token == Chars \cup {ToString(n) : n \in Numerals}
CRLF == <<"CR", "LF">>

\* What is sent first to last: Joins(s)[i] is the first i parts of it.
Joins(s) ==
  LET joins[i \in 0 .. Len(s)] == IF i = 0 THEN <<>> ELSE joins[i - 1] \o s[i] IN joins
Concat(s) == Joins(s)[Len(s)]

Value(t, s, n, a) == [type |-> t, str |-> s, int |-> n, arr |-> a]
create_simple_string(s) == Value("SimpleString", s, 0, <<>>)
create_error(s) == Value("Error", s, 0, <<>>)
create_integer(n) == Value("Integer", <<>>, n, <<>>)
create_bulk_string(s) == Value("BulkString", s, 0, <<>>)
create_array(a) == Value("Array", <<>>, 0, a)
create_null == Value("Null", <<>>, 0, <<>>)

-----------------------------------------------------------------------------
(* The parser returns a value and the position behind it, or nothing: for  *)
(* a frame that is still incomplete and for one that never can be complete.*)

Found(v, p) == [ok |-> TRUE, val |-> v, pos |-> p]
nullopt == [ok |-> FALSE, val |-> create_null, pos |-> 1]

LineEnds(b, p) == {i \in p .. Len(b) - 1 : b[i] = "CR" /\ b[i + 1] = "LF"}

\* The number a line starts with, at most one; what follows it is ignored.
from_chars(line) == {n \in Numerals : line # <<>> /\ ToString(n) = Head(line)}

\* Mutant: the line end behind the string need not have arrived.
BulkEarly(b, p, n) ==
  IF n = -1 THEN Found(create_null, p)
  ELSE IF p + n - 1 > Len(b) THEN nullopt
  ELSE Found(create_bulk_string(SubSeq(b, p, p + n - 1)), Min({p + n + 2, Len(b) + 1}))

\* The two bytes behind the string are skipped without being looked at.
Bulk(b, p, n) ==
  IF n = -1 THEN Found(create_null, p)
  ELSE IF p + n + 1 > Len(b) THEN nullopt
  ELSE Found(create_bulk_string(SubSeq(b, p, p + n - 1)), p + n + 2)

\* The one member of a set.  What is bound to it is computed once.
Only(S) == CHOOSE x \in S : TRUE

Array(elems) == IF elems.ok THEN Found(create_array(elems.val), elems.pos) ELSE nullopt

\* A line from p up to crlf, and what belongs to it; elements[q][n] is what n
\* rounds of the loop over an array's elements find from q on.
AfterLine(b, p, crlf, elements) ==
  LET content == SubSeq(b, p + 1, crlf - 1)
      next == crlf + 2
      num == from_chars(content)
      n == Only(num)
  IN  CASE b[p] = "+"                 -> Found(create_simple_string(content), next)
        [] b[p] = "-"                 -> Found(create_error(content), next)
        [] b[p] = ":" /\ num # {}     -> Found(create_integer(n), next)
        [] b[p] = "$" /\ num # {}     -> Bulk(b, next, n)
        [] b[p] = "*" /\ num # {}     -> IF n = -1 THEN Found(create_null, next)
                                         ELSE Only({Array(r) : r \in {elements[next][n]}})
        [] OTHER                      -> nullopt

\* An empty line is no value: it begins with CR.
ParseAt(b, p, elements) ==
  IF LineEnds(b, p) = {} THEN nullopt
  ELSE Only({AfterLine(b, p, crlf, elements) : crlf \in {Min(LineEnds(b, p))}})

Prepend(v, rest) == IF rest.ok THEN Found(<<v>> \o rest.val, rest.pos) ELSE nullopt

Then(elem, n, elements) ==
  IF elem.ok THEN Only({Prepend(elem.val, r) : r \in {elements[elem.pos][n - 1]}}) ELSE nullopt

Elements(b) ==
  LET elements[p \in 1 .. Len(b) + 1] ==
        [n \in Numerals |->
           IF n <= 0 THEN Found(<<>>, p)
           ELSE Only({Then(elem, n, elements) : elem \in {ParseAt(b, p, elements)}})]
  IN  elements

parse_internal(b, p) == ParseAt(b, p, Elements(b))

parse(b) == parse_internal(b, 1)

\* client_buffer.erase(0, consumed)
Erase(b, r) == SubSeq(b, r.pos, Len(b))

\* What the loop of Server::start that replays a file finds in it.
ParseAll[b \in Seq(Token)] ==
  LET r == parse(b) IN IF r.ok THEN <<r.val>> \o ParseAll[Erase(b, r)] ELSE <<>>
=============================================================================
