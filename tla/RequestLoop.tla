----------------------------- MODULE RequestLoop -----------------------------
(***************************************************************************)
(* One connection, byte by byte: the loop of Server::handle_client over a  *)
(* net::Connection, the parser, and the part of CommandDispatcher that     *)
(* looks at the shape of a request.                                        *)
(*                                                                         *)
(* The client sends a script of requests back to back (pipelined) and may  *)
(* hang up at any time.  Reads return any part of what has arrived, writes *)
(* may be short.  What the data commands do is Server's subject: here one  *)
(* of them, "W", stands for those that are logged.                         *)
(***************************************************************************)
EXTENDS RESP

CONSTANTS
  Units,      \* what a client may send: [wire, whole, val], see LoopAssumption
  MaxUnits,   \* bound: requests in a script
  MaxRead,    \* bound: tokens a read returns; the code's buffer has 4096 bytes
  Serialize(_)\* RESPValue::serialize, see Serializer

VARIABLES
  script,         \* what the client sends, chosen at the start
  wire,           \* what the thread has not read yet
  peer,           \* the client's end of the connection is open
  pc,             \* where the thread is
  client_buffer,  \* what has been read and not parsed
  out,            \* what is left to write of serialized_resp
  closing,        \* result.close_connection
  aof,            \* the file
  got             \* what the client has received

vars == <<script, wire, peer, pc, client_buffer, out, closing, aof, got>>

Bytes(s) == Concat([i \in DOMAIN s |-> s[i].wire])

Init ==
  /\ script \in UNION {[1 .. n -> Units] : n \in 1 .. MaxUnits}
  /\ wire = Bytes(script)
  /\ peer = TRUE
  /\ pc = "read"
  /\ client_buffer = <<>>
  /\ out = <<>>
  /\ closing = FALSE
  /\ aof = <<>>
  /\ got = <<>>

-----------------------------------------------------------------------------
(* CommandDispatcher::dispatch, for a client of a primary.                 *)

Result(resp, close, log) == [resp |-> resp, close |-> close, log |-> log]
Err == Result(create_error(<<"E">>), FALSE, FALSE)

dispatch(req) ==
  LET args == Len(req.arr)
      cmd == req.arr[1]
  IN  CASE req.type # "Array" \/ args = 0                    -> Err
        [] cmd.type \notin {"BulkString", "SimpleString"}    -> Err
        [] cmd.str = <<"P">> /\ args = 1 -> Result(create_simple_string(<<"O">>), FALSE, FALSE)
        [] cmd.str = <<"P">> /\ args = 2 -> Result(create_bulk_string(req.arr[2].str), FALSE, FALSE)
        [] cmd.str = <<"E">> /\ args = 2 -> Result(create_bulk_string(req.arr[2].str), FALSE, FALSE)
        [] cmd.str = <<"Q">> /\ args = 1 -> Result(create_simple_string(<<"O">>), TRUE, FALSE)
        [] cmd.str = <<"W">> /\ args = 2 -> Result(create_simple_string(<<"O">>), FALSE, TRUE)
        [] OTHER                                             -> Err

\* The first line of b has ended, and is none that a value begins with.
Malformed(b) ==
  LET ends == LineEnds(b, 1)
  IN  /\ ends # {}
      /\ \/ b[1] \notin {"+", "-", ":", "$", "*"}
         \/ b[1] \in {":", "$", "*"} /\ from_chars(SubSeq(b, 2, Min(ends) - 1)) = {}

\* s is one frame: the value v, and nothing behind it.
Frames(s, v) == s \in Seq(Token) /\ parse(s) = Found(v, Len(s) + 1)

(* A unit is a frame, or malformed.  The answer to a frame is some bytes.  *)
ASSUME LoopAssumption ==
  /\ \A u \in Units :
       /\ u.whole \in BOOLEAN
       /\ ~u.whole => u.wire \in Seq(Token) /\ Malformed(u.wire)
       /\ u.whole => /\ Frames(u.wire, u.val)
                     /\ Serialize(dispatch(u.val).resp) \in Seq(Token) \ {<<>>}
                     /\ dispatch(u.val).close \in BOOLEAN
                     /\ dispatch(u.val).log => Serialize(u.val) \in Seq(Token)
  /\ MaxUnits \in Nat
  /\ MaxRead \in Nat \ {0}

-----------------------------------------------------------------------------
(* The client hangs up, perhaps in the middle of a request; what it had    *)
(* sent until then still arrives.                                          *)
hang_up ==
  /\ peer
  /\ peer' = FALSE
  /\ \E n \in 0 .. Len(wire) : wire' = SubSeq(wire, 1, n)
  /\ UNCHANGED <<script, pc, client_buffer, out, closing, aof, got>>

read_bytes ==
  /\ pc = "read"
  /\ \E n \in 1 .. Min({MaxRead, Len(wire)}) :
       /\ client_buffer' = client_buffer \o SubSeq(wire, 1, n)
       /\ wire' = SubSeq(wire, n + 1, Len(wire))
  /\ pc' = "parse"
  /\ UNCHANGED <<script, peer, out, closing, aof, got>>

(* read_bytes returns 0.                                                   *)
disconnected ==
  /\ pc = "read"
  /\ wire = <<>>
  /\ ~peer
  /\ pc' = "gone"
  /\ UNCHANGED <<script, wire, peer, client_buffer, out, closing, aof, got>>

\* Mutant: the request stays in the buffer.
HandleAgain ==
  /\ pc = "parse"
  /\ \E r \in {parse(client_buffer)} :
     IF r.ok THEN out' = Serialize(dispatch(r.val).resp) /\ pc' = "write"
             ELSE pc' = "read" /\ UNCHANGED out
  /\ UNCHANGED <<script, wire, peer, client_buffer, closing, aof, got>>

handle_request ==
  /\ pc = "parse"
  /\ \E r \in {parse(client_buffer)} :
     LET result == dispatch(r.val)
     IN  IF r.ok
         THEN /\ client_buffer' = Erase(client_buffer, r)
              /\ out' = Serialize(result.resp)
              /\ closing' = result.close
              /\ aof' = IF result.log THEN aof \o Serialize(r.val) ELSE aof
              /\ pc' = "write"
         ELSE /\ pc' = "read"
              /\ UNCHANGED <<client_buffer, out, closing, aof>>
  /\ UNCHANGED <<script, wire, peer, got>>

AfterWrite(rest) ==
  IF rest # <<>> THEN "write" ELSE IF closing THEN "gone" ELSE "parse"

\* Mutant: a short write is taken for a complete one.
WriteOnce ==
  /\ pc = "write"
  /\ peer
  /\ \E n \in 1 .. Len(out) : got' = got \o SubSeq(out, 1, n)
  /\ out' = <<>>
  /\ pc' = AfterWrite(<<>>)
  /\ UNCHANGED <<script, wire, peer, client_buffer, closing, aof>>

write_bytes ==
  /\ pc = "write"
  /\ peer
  /\ \E n \in 1 .. Len(out) :
       LET rest == SubSeq(out, n + 1, Len(out)) IN
       /\ got' = got \o SubSeq(out, 1, n)
       /\ out' = rest
       /\ pc' = AfterWrite(rest)
  /\ UNCHANGED <<script, wire, peer, client_buffer, closing, aof>>

(* A write to a client that has hung up is accepted for nobody, or fails   *)
(* and the thread returns (or SIGPIPE ends the whole process).             *)
write_to_nobody ==
  /\ pc = "write"
  /\ ~peer
  /\ \/ pc' = AfterWrite(<<>>) /\ out' = <<>>
     \/ pc' = "gone" /\ UNCHANGED out
  /\ UNCHANGED <<script, wire, peer, client_buffer, closing, aof, got>>

handle_client == read_bytes \/ disconnected \/ handle_request \/ write_bytes \/ write_to_nobody

Next == hang_up \/ handle_client

(* A thread that can go on is scheduled, and what was sent arrives.        *)
Spec == Init /\ [][Next]_vars /\ WF_vars(handle_client)

-----------------------------------------------------------------------------
(* Properties                                                              *)

Quits(u) == u.whole /\ dispatch(u.val).close

\* The requests a client may expect to be dealt with: those in front of the
\* first malformed one, and none behind a QUIT.
Due ==
  LET stops == {i \in DOMAIN script : ~script[i].whole} \cup
               {i + 1 : i \in {j \in DOMAIN script : Quits(script[j])}}
  IN  SubSeq(script, 1, Min(stops \cup {Len(script) + 1}) - 1)

Answers == Concat([i \in DOMAIN Due |-> Serialize(dispatch(Due[i].val).resp)])
Changes == Concat([i \in DOMAIN Due |->
                     IF dispatch(Due[i].val).log THEN <<Due[i].val>> ELSE <<>>])

Begins(s, t) == Len(s) <= Len(t) /\ s = SubSeq(t, 1, Len(s))

(* The client receives one whole answer per request, in the order of the   *)
(* requests, however the bytes were cut on their way in and on their way   *)
(* out, whatever a bulk string contains; nothing behind a malformed line   *)
(* and nothing behind a QUIT is ever answered.                             *)
AnsweredInOrder == Begins(got, Answers)

(* When the thread has read all that the client sent and goes back to wait *)
(* for more, every request has been answered in full: none is left in      *)
(* client_buffer.                                                          *)
NothingHeldBack == (pc = "read" /\ wire = <<>> /\ peer) => got = Answers

(* What the thread has logged is, parsed again by the replay loop of       *)
(* Server::start, exactly the changes asked for so far, in their order.    *)
LogReplays == Begins(ParseAll[aof], Changes) /\ (got = Answers => ParseAll[aof] = Changes)

(* Whatever arrives, the thread ends up waiting for more or gone: the      *)
(* parser never makes it spin on the same bytes.                           *)
Settles == <>[](pc = "gone" \/ (pc = "read" /\ wire = <<>>))
=============================================================================
