--------------------------- MODULE RequestLoopProofs ---------------------------
(***************************************************************************)
(* Theorems about RequestLoop, for scripts of any length, units of any     *)
(* kind and any way of cutting the bytes: the client is answered in order, *)
(* nothing is held back, and the file replays to what was asked for.       *)
(***************************************************************************)
EXTENDS RequestLoop, RESPProofs

(* A sequence is a prefix of itself with something behind it.              *)
LEMMA PrefixOf ==
  ASSUME NEW S, NEW s \in Seq(S), NEW t \in Seq(S)
  PROVE  Begins(s, s \o t)
<1>1. Len(s) <= Len(s \o t) /\ 1 \in Nat \ {0} /\ Len(s) \in Int /\ Len(s) <= Len(s)
  OBVIOUS
<1>2. SubSeq(s \o t, 1, Len(s)) = SubSeq(s, 1, Len(s))
  BY <1>1, Within
<1>3. SubSeq(s, 1, Len(s)) = s
  OBVIOUS
<1> QED
  BY <1>1, <1>2, <1>3, Zenon DEF Begins

-----------------------------------------------------------------------------
(* A malformed line stays malformed, whatever arrives behind it: the       *)
(* parser finds nothing any more.                                          *)
LEMMA MalformedStays ==
  ASSUME NEW b \in Seq(Token), NEW d \in Seq(Token), Malformed(b)
  PROVE  ~parse(b \o d).ok
<1>1. LineEnds(b, 1) # {} /\ 1 \in Nat \ {0}
  BY DEF Malformed
<1>2. PICK crlf : crlf = Min(LineEnds(b, 1))
  OBVIOUS
<1>3. crlf \in 1 .. Len(b) - 1
  BY <1>1, <1>2, FirstLine, Zenon
<1>4. LineEnds(b \o d, 1) # {} /\ Min(LineEnds(b \o d, 1)) = crlf
  BY <1>1, <1>2, FirstLineKept, Zenon
<1>5. (b \o d)[1] = b[1]
  BY <1>3, Beginning, SMT
<1>6. Content(b \o d, 1, crlf) = SubSeq(b, 2, crlf - 1)
  <2>1. 2 \in Nat \ {0} /\ crlf - 1 \in Int /\ crlf - 1 <= Len(b) /\ 1 + 1 = 2
    BY <1>3, SMT
  <2>2. SubSeq(b \o d, 2, crlf - 1) = SubSeq(b, 2, crlf - 1)
    BY <2>1, Within
  <2> QED
    BY <2>1, <2>2, Zenon DEF Content
<1>7. \/ (b \o d)[1] \notin Marks
      \/ (b \o d)[1] \in {":", "$", "*"} /\ Num(b \o d, 1, crlf) = {}
  BY <1>2, <1>5, <1>6, Zenon DEF Malformed, Marks, Num
<1>8. AfterLine(b \o d, 1, crlf, Elements(b \o d)) = nullopt
  BY <1>7, NoLine, Zenon
<1>9. parse(b \o d) = AfterLine(b \o d, 1, crlf, Elements(b \o d))
  BY <1>4, ParseAtLine, Zenon DEF parse, parse_internal
<1> QED
  BY <1>8, <1>9 DEF nullopt

-----------------------------------------------------------------------------
(* The script.                                                             *)

Scripts == UNION {[1 .. n -> Units] : n \in 1 .. MaxUnits}

(* The requests that are due are the whole ones at the start of the        *)
(* script, up to the first malformed one or the first QUIT.                *)
LEMMA DueFacts ==
  ASSUME script \in Scripts
  PROVE  /\ script \in Seq(Units) /\ Len(script) \in Nat /\ DOMAIN script = 1 .. Len(script)
         /\ Len(Due) \in 0 .. Len(script) /\ DOMAIN Due = 1 .. Len(Due)
         /\ \A i \in 1 .. Len(Due) : Due[i] = script[i] /\ script[i].whole /\ script[i] \in Units
         /\ \A i \in 0 .. Len(Due) :
              (i < Len(script) /\ script[i + 1].whole /\ (i # 0 => ~Quits(script[i]))) => i < Len(Due)
<1> DEFINE T == ({i \in DOMAIN script : ~script[i].whole} \cup
                 {i + 1 : i \in {j \in DOMAIN script : Quits(script[j])}}) \cup {Len(script) + 1}
<1>1. script \in Seq(Units) /\ Len(script) \in Nat /\ DOMAIN script = 1 .. Len(script)
  <2>1. PICK n \in 1 .. MaxUnits : script \in [1 .. n -> Units]
    BY Zenon DEF Scripts
  <2>2. n \in Nat
    BY <2>1, LoopAssumption, SMT
  <2>3. script \in Seq(Units)
    BY <2>1, <2>2
  <2> QED
    BY <2>3
<1>2. T \in SUBSET Nat /\ T # {} /\ 0 \notin T
  BY <1>1
<1>3. PICK m : m = Min(T)
  OBVIOUS
<1>4. m \in T /\ \A x \in T : m <= x
  <2>1. \E x \in T : \A y \in T : x <= y
    <3> HIDE DEF T
    <3> QED BY <1>2, Smallest
  <2> HIDE DEF T
  <2> QED
    BY <1>3, <2>1, Zenon DEF Min
<1>5. m \in 1 .. Len(script) + 1
  <2>1. Len(script) + 1 \in T
    OBVIOUS
  <2> HIDE DEF T
  <2> QED BY <1>1, <1>2, <1>4, <2>1
<1>6. Due = SubSeq(script, 1, m - 1)
  BY <1>3, Zenon DEF Due
<1>7. /\ Len(Due) = m - 1 /\ DOMAIN Due = 1 .. Len(Due)
      /\ \A i \in 1 .. Len(Due) : Due[i] = script[i]
  <2> HIDE DEF T
  <2>1. PICK k \in 0 .. Len(script) : k = m - 1
    BY <1>1, <1>5
  <2>2. /\ SubSeq(script, 1, k) \in Seq(Units) /\ Len(SubSeq(script, 1, k)) = k
        /\ \A i \in 1 .. k : SubSeq(script, 1, k)[i] = script[i]
    BY <1>1, <2>1
  <2> QED
    BY <1>6, <2>1, <2>2
<1>8. ASSUME NEW i \in 1 .. Len(Due) PROVE script[i].whole /\ script[i] \in Units
  <2>1. i \in DOMAIN script /\ ~(m <= i)
    BY <1>1, <1>5, <1>7, SMT
  <2>2. script[i].whole
    BY <1>4, <2>1, Zenon
  <2> QED
    BY <1>1, <2>1, <2>2
<1>9. ASSUME NEW i \in 0 .. Len(Due), i < Len(script), script[i + 1].whole,
             i # 0 => ~Quits(script[i])
      PROVE  i < Len(Due)
  <2> SUFFICES ASSUME ~(i < Len(Due)) PROVE FALSE
    OBVIOUS
  <2>1. m = i + 1 /\ m # Len(script) + 1 /\ i \in Nat
    BY <1>1, <1>5, <1>7, <1>9, SMT
  <2>2. PICK j \in DOMAIN script : Quits(script[j]) /\ m = j + 1
    BY <1>4, <1>9, <2>1, Zenon
  <2>3. j = i /\ i # 0
    BY <1>1, <2>1, <2>2, SMT
  <2> QED
    BY <1>9, <2>2, <2>3, Zenon
<1> QED
  BY <1>1, <1>5, <1>7, <1>8, <1>9

Answer(u) == Serialize(dispatch(u.val).resp)
Logged(u) == IF dispatch(u.val).log THEN <<u.val>> ELSE <<>>
Wires == [i \in DOMAIN script |-> script[i].wire]
AnswersDue == [i \in DOMAIN Due |-> Answer(Due[i])]
ChangesDue == [i \in DOMAIN Due |-> Logged(Due[i])]

(* The bytes of the script, the answers to it and the changes it asks for  *)
(* are put together request by request.                                    *)
LEMMA ScriptFacts ==
  ASSUME script \in Scripts
  PROVE  /\ Wires \in Seq(Seq(Token)) /\ Len(Wires) = Len(script)
         /\ AnswersDue \in Seq(Seq(Token)) /\ Len(AnswersDue) = Len(Due)
         /\ ChangesDue \in Seq(Seq(Vals)) /\ Len(ChangesDue) = Len(Due)
         /\ Bytes(script) = Joins(Wires)[Len(script)]
         /\ Answers = Joins(AnswersDue)[Len(Due)]
         /\ Changes = Joins(ChangesDue)[Len(Due)]
<1>1. /\ script \in Seq(Units) /\ Len(script) \in Nat /\ DOMAIN script = 1 .. Len(script)
      /\ Len(Due) \in Nat /\ DOMAIN Due = 1 .. Len(Due)
      /\ \A i \in 1 .. Len(Due) : Due[i] = script[i] /\ script[i].whole /\ script[i] \in Units
  BY DueFacts
<1>2. \A u \in Units : u.wire \in Seq(Token)
  BY LoopAssumption, Zenon DEF Frames
<1>3. ASSUME NEW u \in Units, u.whole PROVE Answer(u) \in Seq(Token) /\ Logged(u) \in Seq(Vals)
  <2>1. Answer(u) \in Seq(Token) /\ u.wire \in Seq(Token) /\ parse(u.wire).val = u.val
    <3>1. Answer(u) \in Seq(Token) \ {<<>>} /\ Frames(u.wire, u.val)
      BY <1>3, LoopAssumption, Zenon DEF Answer
    <3>2. Found(u.val, Len(u.wire) + 1).val = u.val
      BY DEF Found
    <3> QED
      BY <3>1, <3>2, Zenon DEF Frames
  <2>2. PICK v \in Vals : v = u.val
    BY <2>1, Zenon DEF Vals
  <2>3. <<v>> \in Seq(Vals) /\ <<>> \in Seq(Vals)
    OBVIOUS
  <2> QED
    BY <2>1, <2>2, <2>3, Zenon DEF Logged
<1>4. Wires \in Seq(Seq(Token)) /\ Len(Wires) = Len(script)
  <2>1. \A i \in 1 .. Len(script) : script[i].wire \in Seq(Token)
    BY <1>1, <1>2
  <2> QED
    BY <1>1, <2>1 DEF Wires
<1>5. AnswersDue \in Seq(Seq(Token)) /\ Len(AnswersDue) = Len(Due)
  <2>1. \A i \in 1 .. Len(Due) : Answer(Due[i]) \in Seq(Token)
    BY <1>1, <1>3, Zenon
  <2> QED
    BY <1>1, <2>1 DEF AnswersDue
<1>6. ChangesDue \in Seq(Seq(Vals)) /\ Len(ChangesDue) = Len(Due)
  <2>1. \A i \in 1 .. Len(Due) : Logged(Due[i]) \in Seq(Vals)
    BY <1>1, <1>3, Zenon
  <2> QED
    BY <1>1, <2>1 DEF ChangesDue
<1>7. /\ Bytes(script) = Concat(Wires) /\ Answers = Concat(AnswersDue)
      /\ Changes = Concat(ChangesDue)
  BY Zenon DEF Bytes, Wires, Answers, AnswersDue, Answer, Changes, ChangesDue, Logged
<1> QED
  BY <1>4, <1>5, <1>6, <1>7, Zenon DEF Concat

(* What one more request adds to each of them.                             *)
LEMMA OneMore ==
  ASSUME script \in Scripts, NEW i \in 0 .. Len(script)
  PROVE  /\ Joins(Wires)[0] = <<>> /\ Joins(AnswersDue)[0] = <<>> /\ Joins(ChangesDue)[0] = <<>>
         /\ Joins(Wires)[i] \in Seq(Token)
         /\ i \in 0 .. Len(Due) => /\ Joins(AnswersDue)[i] \in Seq(Token)
                                   /\ Joins(ChangesDue)[i] \in Seq(Vals)
         /\ i < Len(script) => Joins(Wires)[i + 1] = Joins(Wires)[i] \o script[i + 1].wire
         /\ i < Len(Due) =>
              /\ Joins(AnswersDue)[i + 1] = Joins(AnswersDue)[i] \o Answer(script[i + 1])
              /\ Joins(ChangesDue)[i + 1] = Joins(ChangesDue)[i] \o Logged(script[i + 1])
<1>1. /\ Len(script) \in Nat /\ DOMAIN script = 1 .. Len(script) /\ Len(Due) \in 0 .. Len(script)
      /\ DOMAIN Due = 1 .. Len(Due) /\ \A k \in 1 .. Len(Due) : Due[k] = script[k]
  BY DueFacts
<1>2. /\ Wires \in Seq(Seq(Token)) /\ Len(Wires) = Len(script)
      /\ AnswersDue \in Seq(Seq(Token)) /\ Len(AnswersDue) = Len(Due)
      /\ ChangesDue \in Seq(Seq(Vals)) /\ Len(ChangesDue) = Len(Due)
  BY ScriptFacts, Zenon
<1>3. Joins(Wires)[i] \in Seq(Token)
  BY <1>2, JoinsType, Zenon
<1>4. i \in 0 .. Len(Due) => Joins(AnswersDue)[i] \in Seq(Token) /\ Joins(ChangesDue)[i] \in Seq(Vals)
  BY <1>2, JoinsType, Zenon
<1>5. ASSUME i < Len(script)
      PROVE  Joins(Wires)[i + 1] = Joins(Wires)[i] \o script[i + 1].wire
  <2>1. i + 1 \in 1 .. Len(script) /\ (i + 1) - 1 = i
    BY <1>1, <1>5, SMT
  <2>2. Wires[i + 1] = script[i + 1].wire
    BY <1>1, <2>1, Zenon DEF Wires
  <2>3. Joins(Wires)[i + 1] = Joins(Wires)[i] \o Wires[i + 1]
    BY <1>2, <2>1, JoinsStep, Zenon
  <2> QED
    BY <2>2, <2>3, Zenon
<1>6. ASSUME i < Len(Due)
      PROVE  /\ Joins(AnswersDue)[i + 1] = Joins(AnswersDue)[i] \o Answer(script[i + 1])
             /\ Joins(ChangesDue)[i + 1] = Joins(ChangesDue)[i] \o Logged(script[i + 1])
  <2>1. i + 1 \in 1 .. Len(Due) /\ (i + 1) - 1 = i
    BY <1>1, <1>6, SMT
  <2>2. AnswersDue[i + 1] = Answer(script[i + 1]) /\ ChangesDue[i + 1] = Logged(script[i + 1])
    <3>1. i + 1 \in DOMAIN Due /\ Due[i + 1] = script[i + 1]
      BY <1>1, <2>1, Zenon
    <3>2. AnswersDue[i + 1] = Answer(Due[i + 1])
      BY <3>1, Zenon DEF AnswersDue
    <3>3. ChangesDue[i + 1] = Logged(Due[i + 1])
      BY <3>1, Zenon DEF ChangesDue
    <3> QED
      BY <3>1, <3>2, <3>3, Zenon
  <2>3. Joins(AnswersDue)[i + 1] = Joins(AnswersDue)[i] \o AnswersDue[i + 1]
    BY <1>2, <2>1, JoinsStep, Zenon
  <2>4. Joins(ChangesDue)[i + 1] = Joins(ChangesDue)[i] \o ChangesDue[i + 1]
    BY <1>2, <2>1, JoinsStep, Zenon
  <2> QED
    BY <2>2, <2>3, <2>4, Zenon
<1> QED
  BY <1>2, <1>3, <1>4, <1>5, <1>6, JoinsStep, Zenon

-----------------------------------------------------------------------------
(* The invariant.  i requests have been taken from the buffer; the buffer, *)
(* what is on its way and, once the client is gone, what it never sent are *)
(* the rest of the script.                                                 *)

Arrived(i) ==
  \E z \in Seq(Token) : /\ Joins(Wires)[i] \o (client_buffer \o (wire \o z)) = Bytes(script)
                        /\ peer => z = <<>>

(* The client has the i answers, but for what is left to write; one that   *)
(* is gone misses some end of them.                                        *)
Given(i) ==
  \E y \in Seq(Token) : got \o y = Joins(AnswersDue)[i] /\ (peer => y = out)

(* The file holds the i changes, and ends between two frames, if the       *)
(* serializer writes what the parser reads.                                *)
ReadBack == \A u \in Units : u.whole /\ dispatch(u.val).log => Frames(Serialize(u.val), u.val)
Recorded(i) ==
  ReadBack => \A d \in Seq(Token) : ParseAll[aof \o d] = Joins(ChangesDue)[i] \o ParseAll[d]

(* The thread goes on after a request that was no QUIT, and waits for more *)
(* only when it has no frame.                                              *)
Going(i) ==
  /\ pc = "write" => i # 0 /\ closing = dispatch(script[i].val).close
  /\ pc \in {"read", "parse"} => out = <<>> /\ (i # 0 => ~Quits(script[i]))
  /\ pc = "read" => ~parse(client_buffer).ok

At(i) == Arrived(i) /\ Given(i) /\ Recorded(i) /\ Going(i)

Types ==
  /\ script \in Scripts
  /\ wire \in Seq(Token) /\ client_buffer \in Seq(Token) /\ out \in Seq(Token)
  /\ aof \in Seq(Token) /\ got \in Seq(Token)
  /\ pc \in {"read", "parse", "write", "gone"}

LoopInv == Types /\ \E i \in 0 .. Len(Due) : At(i)

(* What depends on the script alone does not change.                       *)
LEMMA Fixed ==
  ASSUME script' = script
  PROVE  /\ Due' = Due /\ Bytes(script)' = Bytes(script) /\ (script \in Scripts)' = (script \in Scripts)
         /\ Joins(Wires)' = Joins(Wires) /\ Joins(AnswersDue)' = Joins(AnswersDue)
         /\ Joins(ChangesDue)' = Joins(ChangesDue)
<1>1. Due' = Due
  BY Zenon DEF Due, Quits
<1>2. Wires' = Wires /\ AnswersDue' = AnswersDue /\ ChangesDue' = ChangesDue
  BY <1>1, Zenon DEF Wires, AnswersDue, ChangesDue, Answer, Logged
<1> QED
  BY <1>1, <1>2, Zenon DEF Bytes, Scripts, Joins, Adds

(* The client hangs up.                                                    *)
LEMMA HangUpStep ==
  ASSUME Types, NEW i \in 0 .. Len(Due), At(i), hang_up
  PROVE  Types' /\ At(i)'
<1>1. /\ UNCHANGED <<script, pc, client_buffer, out, closing, aof, got>> /\ peer' = FALSE
      /\ \E n \in 0 .. Len(wire) : wire' = SubSeq(wire, 1, n)
  BY Zenon DEF hang_up
<1>2. PICK r \in Seq(Token) : wire' \in Seq(Token) /\ wire' \o r = wire
  <2>1. wire \in Seq(Token)
    BY DEF Types
  <2>2. PICK n \in 0 .. Len(wire) : wire' = SubSeq(wire, 1, n)
    BY <1>1, Zenon
  <2>3. /\ SubSeq(wire, 1, n) \in Seq(Token) /\ SubSeq(wire, n + 1, Len(wire)) \in Seq(Token)
        /\ SubSeq(wire, 1, n) \o SubSeq(wire, n + 1, Len(wire)) = wire
    BY <2>1, TwoParts, Zenon
  <2> QED
    BY <2>2, <2>3, Zenon
<1>3. Types'
  BY <1>1, <1>2, Zenon DEF Types, Scripts
<1>4. Arrived(i)'
  <2>1. PICK z \in Seq(Token) : Joins(Wires)[i] \o (client_buffer \o (wire \o z)) = Bytes(script)
    BY Zenon DEF At, Arrived
  <2>2. wire \o z = wire' \o (r \o z)
    BY <1>2, <2>1, Tokens, Zenon
  <2>3. r \o z \in Seq(Token)
    BY Joined, Zenon
  <2>4. Joins(Wires)[i] \o (client_buffer \o (wire' \o (r \o z))) = Bytes(script)
    BY <2>1, <2>2, Zenon
  <2> QED
    BY <1>1, <2>3, <2>4, Fixed, Zenon DEF Arrived
<1>5. Given(i)'
  BY <1>1, Fixed, Zenon DEF At, Given
<1>6. Recorded(i)' /\ Going(i)'
  BY <1>1, Fixed, Zenon DEF At, Recorded, Going, Quits
<1> QED
  BY <1>3, <1>4, <1>5, <1>6, Zenon DEF At

(* Connection::read_bytes takes some of what has arrived.                  *)
LEMMA ReadStep ==
  ASSUME Types, NEW i \in 0 .. Len(Due), At(i), read_bytes
  PROVE  Types' /\ At(i)'
<1>1. /\ UNCHANGED <<script, peer, out, closing, aof, got>> /\ pc = "read" /\ pc' = "parse"
      /\ \E n \in 1 .. Min({MaxRead, Len(wire)}) :
           client_buffer' = client_buffer \o SubSeq(wire, 1, n) /\ wire' = SubSeq(wire, n + 1, Len(wire))
  BY Zenon DEF read_bytes
<1>2. wire \in Seq(Token) /\ client_buffer \in Seq(Token) /\ Len(wire) \in Nat /\ MaxRead \in Nat
  BY LoopAssumption DEF Types
<1>3. PICK n \in 0 .. Len(wire) :
        client_buffer' = client_buffer \o SubSeq(wire, 1, n) /\ wire' = SubSeq(wire, n + 1, Len(wire))
  <2> DEFINE T == {MaxRead, Len(wire)}
  <2>1. \E x \in T : \A y \in T : x <= y
    <3>1. T \in SUBSET Nat /\ T # {}
      BY <1>2
    <3> HIDE DEF T
    <3> QED BY <3>1, Smallest
  <2>2. Min(T) \in T /\ \A y \in T : Min(T) <= y
    <3> HIDE DEF T
    <3> QED BY <2>1, Zenon DEF Min
  <2>3. \A n \in 1 .. Min(T) : n \in 0 .. Len(wire)
    BY <1>2, <2>2
  <2> QED
    BY <1>1, <2>3, Zenon
<1>4. PICK a \in Seq(Token) : client_buffer' = client_buffer \o a /\ wire' \in Seq(Token) /\ a \o wire' = wire
  BY <1>2, <1>3, TwoParts, Zenon
<1>5. Types'
  <2>1. client_buffer' \in Seq(Token)
    BY <1>2, <1>4, Joined, Zenon
  <2> QED
    BY <1>1, <1>4, <2>1, Zenon DEF Types, Scripts
<1>6. Arrived(i)'
  <2>1. PICK z \in Seq(Token) : /\ Joins(Wires)[i] \o (client_buffer \o (wire \o z)) = Bytes(script)
                                /\ peer => z = <<>>
    BY Zenon DEF At, Arrived
  <2>2. client_buffer \o (wire \o z) = client_buffer' \o (wire' \o z)
    <3>1. wire \o z = a \o (wire' \o z) /\ wire' \o z \in Seq(Token)
      <4>1. wire' \o z \in Seq(Token)
        BY <1>4, Joined, Zenon
      <4> QED
        BY <1>4, <4>1, Tokens, Zenon
    <3>2. client_buffer \o (a \o (wire' \o z)) = (client_buffer \o a) \o (wire' \o z)
      <4>1. PICK q \in Seq(Token) : q = wire' \o z
        BY <3>1, Zenon
      <4>2. PICK c \in Seq(Token) : c = client_buffer
        BY <1>2, Zenon
      <4>3. (c \o a) \o q = c \o (a \o q)
        BY Tokens, Zenon
      <4> QED
        BY <4>1, <4>2, <4>3, Zenon
    <3> QED
      BY <1>4, <3>1, <3>2, Zenon
  <2> QED
    BY <1>1, <2>1, <2>2, Fixed, Zenon DEF Arrived
<1>7. Given(i)' /\ Recorded(i)'
  BY <1>1, Fixed, Zenon DEF At, Given, Recorded
<1>8. Going(i)'
  BY <1>1, Zenon DEF At, Going, Quits
<1> QED
  BY <1>5, <1>6, <1>7, <1>8, Zenon DEF At

(* Behind i requests, the frame that the parser finds is the next request  *)
(* of the script, which is due; behind it is the rest of the script.       *)
LEMMA NextUnit ==
  ASSUME script \in Scripts, NEW i \in 0 .. Len(Due), NEW b \in Seq(Token), NEW e \in Seq(Token),
         Joins(Wires)[i] \o (b \o e) = Bytes(script), i # 0 => ~Quits(script[i]), parse(b).ok
  PROVE  /\ i < Len(Due) /\ parse(b).val = script[i + 1].val
         /\ Joins(Wires)[i + 1] \o (Remains(b) \o e) = Bytes(script)
<1>1. /\ Len(script) \in Nat /\ script \in Seq(Units) /\ i \in 0 .. Len(script) /\ i \in Nat
      /\ Len(Due) \in 0 .. Len(script)
  BY DueFacts, SMT
<1>2. PICK f \in Seq(Token) : f = Joins(Wires)[i]
  BY <1>1, OneMore, Zenon
<1>3. /\ b \o e \in Seq(Token) /\ Len(b \o e) = Len(b) + Len(e) /\ Len(b) \in Nat /\ Len(e) \in Nat
      /\ parse(b).pos \in 2 .. Len(b) + 1 /\ parse(b \o e) = parse(b)
  BY Joined, FramesStand, Zenon
<1>4. i < Len(script)
  <2> SUFFICES ASSUME ~(i < Len(script)) PROVE FALSE
    OBVIOUS
  <2>1. i = Len(script)
    BY <1>1, SMT
  <2>2. f \o (b \o e) = f
    BY <1>2, <2>1, ScriptFacts, Zenon
  <2>3. Len(f \o (b \o e)) = Len(f) + Len(b \o e) /\ Len(f) \in Nat
    BY <1>3, Joined, Zenon
  <2>4. parse(b).pos \in Int
    BY <1>3, SMT
  <2> QED
    BY <1>3, <2>2, <2>3, SMT
<1>5. i + 1 \in 1 .. Len(script) /\ i + 1 \in 0 .. Len(script)
  BY <1>1, <1>4, SMT
<1>6. script[i + 1] \in Units
  BY <1>1, <1>5
<1>7. PICK w \in Seq(Token) : w = script[i + 1].wire
  BY <1>6, LoopAssumption, Zenon DEF Frames
<1>8. Joins(Wires)[i + 1] = f \o w
  BY <1>1, <1>2, <1>4, <1>7, OneMore, Zenon
<1>9. PICK y \in Seq(Token) : (f \o w) \o y = Bytes(script)
  <2>1. /\ Wires \in Seq(Seq(Token)) /\ i + 1 \in 0 .. Len(Wires)
        /\ Joins(Wires)[Len(Wires)] = Bytes(script)
    BY <1>5, ScriptFacts, Zenon
  <2> QED
    BY <1>8, <2>1, JoinsRest, Zenon
<1>10. b \o e = w \o y
  <2>1. w \o y \in Seq(Token)
    BY Joined, Zenon
  <2>2. f \o (b \o e) = f \o (w \o y)
    BY <1>2, <1>9, Tokens, ZenonT(30)
  <2> QED
    BY <1>3, <2>1, <2>2, Cancelled, ZenonT(30)
<1>11. script[i + 1].whole
  BY <1>3, <1>6, <1>7, <1>10, LoopAssumption, MalformedStays, Zenon
<1>12. i < Len(Due)
  BY <1>4, <1>11, DueFacts, Zenon
<1>13. parse(w) = Found(script[i + 1].val, Len(w) + 1)
  BY <1>6, <1>7, <1>11, LoopAssumption, Zenon DEF Frames
<1>14. parse(w).ok /\ parse(w).val = script[i + 1].val /\ parse(w).pos = Len(w) + 1
  <2>1. PICK r : r = Found(script[i + 1].val, Len(w) + 1)
    OBVIOUS
  <2>2. r.ok /\ r.val = script[i + 1].val /\ r.pos = Len(w) + 1
    BY <2>1, FoundParts
  <2> QED
    BY <1>13, <2>1, <2>2, Zenon
<1>15. parse(b) = parse(w)
  <2>1. parse(w \o y) = parse(w)
    BY <1>14, FramesStand, Zenon
  <2> QED
    BY <1>3, <1>10, <2>1, Zenon
<1>16. Remains(b) \o e = y
  <2>1. PICK p : p = Len(w) + 1
    OBVIOUS
  <2>2. parse(b).pos = p /\ p \in 1 .. Len(b) + 1
    BY <1>3, <1>14, <1>15, <2>1, SMT
  <2>3. SubSeq(b \o e, p, Len(b \o e)) = SubSeq(b, p, Len(b)) \o e
    BY <2>2, CutJoined, ZenonT(30)
  <2>4. SubSeq(w \o y, p, Len(w \o y)) = y
    BY <2>1, Behind, Zenon
  <2> QED
    BY <1>10, <2>2, <2>3, <2>4, Zenon DEF Remains, Erase
<1> QED
  BY <1>8, <1>9, <1>12, <1>14, <1>15, <1>16, Zenon

(* Server::handle_client: one round of the loop over the buffer.           *)
LEMMA HandleStep ==
  ASSUME Types, NEW i \in 0 .. Len(Due), At(i), handle_request
  PROVE  Types' /\ \E j \in 0 .. Len(Due) : At(j)'
<1> DEFINE v == parse(client_buffer).val
           u == script[i + 1]
<1>1. /\ UNCHANGED <<script, wire, peer, got>> /\ pc = "parse"
      /\ IF parse(client_buffer).ok
         THEN /\ client_buffer' = Remains(client_buffer) /\ out' = Serialize(dispatch(v).resp)
              /\ closing' = dispatch(v).close /\ pc' = "write"
              /\ aof' = IF dispatch(v).log THEN aof \o Serialize(v) ELSE aof
         ELSE pc' = "read" /\ UNCHANGED <<client_buffer, out, closing, aof>>
  BY Zenon DEF handle_request, Remains
<1>2. /\ script \in Scripts /\ wire \in Seq(Token) /\ client_buffer \in Seq(Token)
      /\ out \in Seq(Token) /\ aof \in Seq(Token) /\ got \in Seq(Token)
  BY Zenon DEF Types
<1>3. CASE ~parse(client_buffer).ok
  <2>1. Types'
    BY <1>1, <1>3, Zenon DEF Types, Scripts
  <2>2. Arrived(i)' /\ Given(i)' /\ Recorded(i)'
    BY <1>1, <1>3, Fixed, Zenon DEF At, Arrived, Given, Recorded
  <2>3. Going(i)'
    BY <1>1, <1>3, Zenon DEF At, Going, Quits
  <2> QED
    BY <2>1, <2>2, <2>3, Zenon DEF At
<1>4. CASE parse(client_buffer).ok
  <2>1. out = <<>> /\ (i # 0 => ~Quits(script[i]))
    BY <1>1, Zenon DEF At, Going
  <2>2. PICK z \in Seq(Token) : /\ Joins(Wires)[i] \o (client_buffer \o (wire \o z)) = Bytes(script)
                                /\ peer => z = <<>>
    BY Zenon DEF At, Arrived
  <2>3. wire \o z \in Seq(Token)
    BY <1>2, Joined, Zenon
  <2>4. /\ i < Len(Due) /\ v = u.val
        /\ Joins(Wires)[i + 1] \o (Remains(client_buffer) \o (wire \o z)) = Bytes(script)
    BY <1>2, <1>4, <2>1, <2>2, <2>3, NextUnit, Zenon
  <2>5. /\ Len(Due) \in Nat /\ i + 1 \in 1 .. Len(Due) /\ i + 1 \in 0 .. Len(Due) /\ i + 1 # 0
        /\ i \in 0 .. Len(script)
    <3>1. Len(Due) \in 0 .. Len(script) /\ i \in 0 .. Len(Due) /\ i < Len(Due) /\ Len(script) \in Nat
      BY <1>2, <2>4, DueFacts, Zenon
    <3> QED
      BY ONLY <3>1, SMT
  <2>6. u \in Units /\ u.whole
    BY <1>2, <2>5, DueFacts, Zenon
  <2>7. /\ Frames(u.wire, u.val) /\ Answer(u) \in Seq(Token)
        /\ dispatch(u.val).log => Serialize(u.val) \in Seq(Token)
    BY <2>6, LoopAssumption, Zenon DEF Answer
  <2>8. out' = Answer(u)
    BY <1>1, <1>4, <2>4, Zenon DEF Answer
  <2>9. Types'
    <3>1. client_buffer' \in Seq(Token)
      BY <1>1, <1>2, <1>4, Remainder, Zenon
    <3>2. aof' \in Seq(Token)
      <4>1. CASE dispatch(v).log
        BY <1>1, <1>2, <1>4, <2>4, <2>7, <4>1, Joined, ZenonT(30)
      <4>2. CASE ~dispatch(v).log
        BY <1>1, <1>2, <1>4, <4>2, Zenon
      <4> QED
        BY <4>1, <4>2, Zenon
    <3> QED
      BY <1>1, <1>4, <2>7, <2>8, <3>1, <3>2, Zenon DEF Types, Scripts
  <2>10. Arrived(i + 1)'
    BY <1>1, <1>4, <2>2, <2>4, Fixed, Zenon DEF Arrived
  <2>11. Given(i + 1)'
    <3>1. PICK y \in Seq(Token) : got \o y = Joins(AnswersDue)[i] /\ (peer => y = out)
      BY Zenon DEF At, Given
    <3>2. Joins(AnswersDue)[i + 1] = Joins(AnswersDue)[i] \o Answer(u)
      BY <1>2, <2>4, <2>5, OneMore, Zenon
    <3>3. got \o (y \o Answer(u)) = Joins(AnswersDue)[i + 1]
      <4>1. (got \o y) \o Answer(u) = got \o (y \o Answer(u))
        <5>1. PICK c \in Seq(Token) : c = Answer(u)
          BY <2>7, Zenon
        <5>2. got \in Seq(Token)
          BY <1>2, Zenon
        <5>3. (got \o y) \o c = got \o (y \o c)
          BY <5>2, Tokens, Zenon
        <5> QED
          BY <5>1, <5>3, Zenon
      <4> QED
        BY <3>1, <3>2, <4>1, Zenon
    <3>4. y \o Answer(u) \in Seq(Token)
      BY <2>7, Joined, Zenon
    <3>5. peer => y \o Answer(u) = Answer(u)
      BY <2>1, <2>7, <3>1, EmptyAround, Zenon
    <3> QED
      BY <1>1, <2>8, <3>3, <3>4, <3>5, Fixed, Zenon DEF Given
  <2>12. Recorded(i + 1)'
    <3>1. Joins(ChangesDue)[i + 1] = Joins(ChangesDue)[i] \o Logged(u)
      BY <1>2, <2>4, <2>5, OneMore, Zenon
    <3>2. PICK h \in Seq(Vals) : h = Joins(ChangesDue)[i]
      BY <1>2, <2>5, OneMore, Zenon
    <3>3. ASSUME ReadBack, NEW d \in Seq(Token)
          PROVE  ParseAll[aof' \o d] = (h \o Logged(u)) \o ParseAll[d]
      <4>1. PICK t \in Seq(Vals) : t = ParseAll[d]
        BY ReplayType, Zenon
      <4>2. CASE ~dispatch(v).log
        <5>1. aof' = aof /\ Logged(u) = <<>>
          BY <1>1, <1>4, <2>4, <4>2, Zenon DEF Logged
        <5>2. ParseAll[aof \o d] = h \o t
          BY <3>2, <3>3, <4>1, Zenon DEF At, Recorded
        <5> QED
          BY <4>1, <5>1, <5>2, EmptyAround, Zenon
      <4>3. CASE dispatch(v).log
        <5>1. PICK a \in Seq(Token) : a = Serialize(v)
          BY <2>4, <2>7, <4>3, Zenon
        <5>0. Frames(Serialize(u.val), u.val)
          BY <2>4, <2>6, <3>3, <4>3, Zenon DEF ReadBack
        <5>2. PICK x \in Vals : x = v
          BY <1>2, Zenon DEF Vals
        <5>3. aof' = aof \o a /\ Logged(u) = <<x>> /\ parse(a) = Found(x, Len(a) + 1)
          BY <1>1, <1>4, <2>4, <4>3, <5>0, <5>1, <5>2, Zenon DEF Logged, Frames
        <5>4. a \o d \in Seq(Token) /\ (aof \o a) \o d = aof \o (a \o d)
          <6>1. a \o d \in Seq(Token)
            BY Joined, Zenon
          <6>2. aof \in Seq(Token)
            BY <1>2, Zenon
          <6>3. (aof \o a) \o d = aof \o (a \o d)
            BY <6>2, Tokens, Zenon
          <6> QED
            BY <6>1, <6>3, Zenon
        <5>5. ParseAll[aof \o (a \o d)] = h \o ParseAll[a \o d]
          BY <3>2, <3>3, <5>4, Zenon DEF At, Recorded
        <5>6. ParseAll[a \o d] = <<x>> \o t
          <6>1. parse(a).ok /\ parse(a).val = x /\ parse(a).pos = Len(a) + 1
            <7>1. PICK r : r = Found(x, Len(a) + 1)
              OBVIOUS
            <7>2. r.ok /\ r.val = x /\ r.pos = Len(a) + 1
              BY <7>1, FoundParts
            <7> QED
              BY <5>3, <7>1, <7>2, Zenon
          <6>2. SubSeq(a, Len(a) + 1, Len(a)) = <<>>
            OBVIOUS
          <6>3. Remains(a) = <<>>
            BY <6>1, <6>2, Zenon DEF Remains, Erase
          <6>4. ParseAll[a \o d] = <<x>> \o ParseAll[<<>> \o d]
            BY <6>1, <6>3, ReplayFrame, Zenon
          <6> QED
            BY <4>1, <6>4, EmptyAround, Zenon
        <5>7. h \o (<<x>> \o t) = (h \o <<x>>) \o t
          <6>1. <<x>> \in Seq(Vals)
            OBVIOUS
          <6> QED
            BY <6>1, Parsed, Zenon
        <5> QED
          BY <4>1, <5>3, <5>4, <5>5, <5>6, <5>7, Zenon
      <4> QED
        BY <4>2, <4>3, Zenon
    <3> QED
      BY <1>1, <3>1, <3>2, <3>3, Fixed, Zenon DEF Recorded
  <2>13. Going(i + 1)'
    BY <1>1, <1>4, <2>4, <2>5, Zenon DEF Going
  <2> QED
    BY <2>5, <2>9, <2>10, <2>11, <2>12, <2>13, Zenon DEF At
<1> QED
  BY <1>3, <1>4, Zenon

(* Connection::write_bytes sends some of what is left.                     *)
LEMMA WriteStep ==
  ASSUME Types, NEW i \in 0 .. Len(Due), At(i), write_bytes
  PROVE  Types' /\ At(i)'
<1>1. /\ UNCHANGED <<script, wire, peer, client_buffer, closing, aof>> /\ pc = "write" /\ peer
      /\ pc' = AfterWrite(out')
      /\ \E n \in 1 .. Len(out) : got' = got \o SubSeq(out, 1, n) /\ out' = SubSeq(out, n + 1, Len(out))
  BY Zenon DEF write_bytes
<1>2. out \in Seq(Token) /\ got \in Seq(Token) /\ Len(out) \in Nat
  BY DEF Types
<1>3. PICK n \in 0 .. Len(out) : got' = got \o SubSeq(out, 1, n) /\ out' = SubSeq(out, n + 1, Len(out))
  <2>1. \A n \in 1 .. Len(out) : n \in 0 .. Len(out)
    BY <1>2, SMT
  <2> QED
    BY <1>1, <2>1, Zenon
<1>4. PICK a \in Seq(Token) : got' = got \o a /\ out' \in Seq(Token) /\ a \o out' = out
  BY <1>2, <1>3, TwoParts, Zenon
<1>5. pc' \in {"write", "gone", "parse"}
  BY <1>1, Zenon DEF AfterWrite
<1>6. Types'
  <2>1. got' \in Seq(Token)
    BY <1>2, <1>4, Joined, Zenon
  <2> QED
    BY <1>1, <1>4, <1>5, <2>1, Zenon DEF Types, Scripts
<1>7. Given(i)'
  <2>1. got \o out = Joins(AnswersDue)[i]
    BY <1>1, Zenon DEF At, Given
  <2>2. (got \o a) \o out' = got \o (a \o out')
    BY <1>2, <1>4, Tokens, ZenonT(30)
  <2>3. got' \o out' = Joins(AnswersDue)[i]
    BY <1>4, <2>1, <2>2, Zenon
  <2> QED
    BY <1>1, <1>4, <2>3, Fixed, Zenon DEF Given
<1>8. Arrived(i)' /\ Recorded(i)'
  BY <1>1, Fixed, Zenon DEF At, Arrived, Recorded
<1>9. Going(i)'
  <2>1. i # 0 /\ closing = dispatch(script[i].val).close
    BY <1>1, Zenon DEF At, Going
  <2>2. pc' = "parse" => out' = <<>> /\ ~closing
    BY <1>1, Zenon DEF AfterWrite
  <2>3. pc' # "read"
    BY <1>5
  <2> QED
    BY <1>1, <2>1, <2>2, <2>3, Zenon DEF Going, Quits
<1> QED
  BY <1>6, <1>7, <1>8, <1>9, Zenon DEF At

(* A write that reaches nobody.                                            *)
LEMMA NobodyStep ==
  ASSUME Types, NEW i \in 0 .. Len(Due), At(i), write_to_nobody
  PROVE  Types' /\ At(i)'
<1>1. /\ UNCHANGED <<script, wire, peer, client_buffer, closing, aof, got>> /\ pc = "write" /\ ~peer
      /\ \/ pc' = AfterWrite(<<>>) /\ out' = <<>>
         \/ pc' = "gone" /\ out' = out
  BY Zenon DEF write_to_nobody
<1>2. pc' = "gone" \/ (pc' = "parse" /\ out' = <<>> /\ ~closing)
  BY <1>1, Zenon DEF AfterWrite
<1>3. <<>> \in Seq(Token)
  OBVIOUS
<1>4. Types'
  BY <1>1, <1>2, <1>3, Zenon DEF Types, Scripts
<1>5. Arrived(i)' /\ Given(i)' /\ Recorded(i)'
  BY <1>1, Fixed, Zenon DEF At, Arrived, Given, Recorded
<1>6. Going(i)'
  <2>1. closing = dispatch(script[i].val).close
    BY <1>1, Zenon DEF At, Going
  <2>2. pc' # "read" /\ pc' # "write"
    BY <1>2
  <2> QED
    BY <1>1, <1>2, <2>1, <2>2, Zenon DEF Going, Quits
<1> QED
  BY <1>4, <1>5, <1>6, Zenon DEF At

(* The thread finds the client gone, or nothing happens.                   *)
LEMMA QuietStep ==
  ASSUME Types, NEW i \in 0 .. Len(Due), At(i), disconnected \/ UNCHANGED vars
  PROVE  Types' /\ At(i)'
<1>1. /\ UNCHANGED <<script, wire, peer, client_buffer, out, closing, aof, got>>
      /\ pc' = "gone" \/ pc' = pc
  BY Zenon DEF disconnected, vars
<1>2. Types'
  BY <1>1, Zenon DEF Types, Scripts
<1>3. Arrived(i)' /\ Given(i)' /\ Recorded(i)'
  BY <1>1, Fixed, Zenon DEF At, Arrived, Given, Recorded
<1>4. Going(i)'
  <2>1. CASE pc' = pc
    BY <1>1, <2>1, Zenon DEF At, Going, Quits
  <2>2. CASE pc' = "gone"
    <3>1. pc' # "write" /\ pc' # "read" /\ pc' # "parse"
      BY <2>2
    <3> QED
      BY <3>1, Zenon DEF Going
  <2> QED
    BY <1>1, <2>1, <2>2, Zenon
<1> QED
  BY <1>2, <1>3, <1>4, Zenon DEF At

(* Nothing is no frame.                                                    *)
LEMMA EmptyBuffer == ~parse(<<>>).ok /\ ParseAll[<<>>] = <<>> /\ <<>> \in Seq(Token)
<1>1. <<>> \in Seq(Token) /\ Len(<<>>) = 0
  OBVIOUS
<1>2. ~parse(<<>>).ok
  <2>1. parse(<<>>).ok => parse(<<>>).pos \in 2 .. Len(<<>>) + 1
    BY <1>1, ParseProgress, Zenon
  <2> QED
    BY <1>1, <2>1
<1>3. ParseAll[<<>>] = Round(ParseAll, <<>>)
  BY <1>1, ReplayUnfold, Zenon
<1> QED
  BY <1>1, <1>2, <1>3, Zenon DEF Round

(* A new connection.                                                       *)
LEMMA InitLoop == Init => LoopInv
<1> SUFFICES ASSUME Init PROVE LoopInv
  OBVIOUS
<1>1. /\ script \in Scripts /\ wire = Bytes(script) /\ pc = "read" /\ client_buffer = <<>>
      /\ out = <<>> /\ aof = <<>> /\ got = <<>>
  BY Zenon DEF Init, Scripts
<1>2. Len(Due) \in Nat /\ 0 \in 0 .. Len(Due) /\ 0 \in 0 .. Len(script) /\ Len(script) \in 0 .. Len(script)
  BY <1>1, DueFacts, SMT
<1>3. PICK w \in Seq(Token) : w = Bytes(script)
  BY <1>1, <1>2, ScriptFacts, OneMore, Zenon
<1>4. Types
  BY <1>1, <1>3, EmptyBuffer, Zenon DEF Types
<1>5. /\ Joins(Wires)[0] = <<>> /\ Joins(AnswersDue)[0] = <<>> /\ Joins(ChangesDue)[0] = <<>>
  BY <1>1, <1>2, OneMore, Zenon
<1>6. Arrived(0)
  <2>1. w \o <<>> = w /\ <<>> \o w = w
    BY EmptyAround, Zenon
  <2> QED
    BY <1>1, <1>3, <1>5, <2>1, EmptyBuffer, Zenon DEF Arrived
<1>7. Given(0)
  <2>1. <<>> \o <<>> = <<>>
    OBVIOUS
  <2> QED
    BY <1>1, <1>5, <2>1, EmptyBuffer, Zenon DEF Given
<1>8. Recorded(0)
  <2>1. ASSUME NEW d \in Seq(Token) PROVE ParseAll[<<>> \o d] = <<>> \o ParseAll[d]
    <3>1. PICK t \in Seq(Vals) : t = ParseAll[d]
      BY ReplayType, Zenon
    <3>2. <<>> \o t = t /\ <<>> \o d = d
      BY EmptyAround, Zenon
    <3> QED
      BY <3>1, <3>2, Zenon
  <2> QED
    BY <1>1, <1>5, <2>1, Zenon DEF Recorded
<1>9. Going(0)
  <2>1. pc # "write"
    BY <1>1
  <2> QED
    BY <1>1, <2>1, EmptyBuffer, Zenon DEF Going
<1> QED
  BY <1>2, <1>4, <1>6, <1>7, <1>8, <1>9, Zenon DEF LoopInv, At

(* Every step of the client and of the thread.                             *)
LEMMA NextLoop == LoopInv /\ [Next]_vars => LoopInv'
<1> SUFFICES ASSUME LoopInv, [Next]_vars PROVE LoopInv'
  OBVIOUS
<1>1. PICK i \in 0 .. Len(Due) : At(i)
  BY Zenon DEF LoopInv
<1>2. Types
  BY Zenon DEF LoopInv
<1>3. script' = script
  BY Zenon DEF Next, handle_client, hang_up, read_bytes, disconnected, handle_request, write_bytes,
               write_to_nobody, vars
<1>4. Types' /\ \E j \in 0 .. Len(Due) : At(j)'
  BY <1>1, <1>2, HangUpStep, ReadStep, HandleStep, WriteStep, NobodyStep, QuietStep, Zenon
     DEF Next, handle_client
<1>5. Due' = Due
  BY <1>3, Fixed, Zenon
<1> QED
  BY <1>4, <1>5, Zenon DEF LoopInv

-----------------------------------------------------------------------------
(* What the invariant says of the answers and of the file.                 *)

(* The client has a prefix of the answers; it has them all only when all   *)
(* requests that are due have been taken, since no answer is empty.        *)
LEMMA AnswersGiven ==
  ASSUME script \in Scripts, got \in Seq(Token), NEW i \in 0 .. Len(Due), Given(i)
  PROVE  Begins(got, Answers) /\ (got = Answers => i = Len(Due))
<1>1. PICK y \in Seq(Token) : got \o y = Joins(AnswersDue)[i]
  BY Zenon DEF Given
<1>2. /\ Len(Due) \in 0 .. Len(script) /\ Len(script) \in Nat /\ i \in 0 .. Len(script)
      /\ \A k \in 1 .. Len(Due) : script[k].whole /\ script[k] \in Units
  BY DueFacts, SMT
<1>3. /\ AnswersDue \in Seq(Seq(Token)) /\ Len(AnswersDue) = Len(Due)
      /\ Answers = Joins(AnswersDue)[Len(AnswersDue)]
  BY ScriptFacts, Zenon
<1>4. PICK x \in Seq(Token) : (got \o y) \o x = Answers
  <2>1. i \in 0 .. Len(AnswersDue)
    BY <1>3, Zenon
  <2>2. PICK x \in Seq(Token) : Joins(AnswersDue)[i] \o x = Joins(AnswersDue)[Len(AnswersDue)]
    BY <1>3, <2>1, JoinsRest
  <2> QED
    BY <1>1, <1>3, <2>2, Zenon
<1>5. Begins(got, Answers)
  <2>1. y \o x \in Seq(Token) /\ Answers = got \o (y \o x)
    <3>1. y \o x \in Seq(Token)
      BY Joined, Zenon
    <3>2. (got \o y) \o x = got \o (y \o x)
      BY Tokens, Zenon
    <3> QED
      BY <1>4, <3>1, <3>2, Zenon
  <2> QED
    BY <2>1, PrefixOf, Zenon
<1>6. ASSUME i # Len(Due) PROVE got # Answers
  <2>1. i < Len(Due) /\ i + 1 \in 1 .. Len(Due) /\ i + 1 \in 0 .. Len(Due)
    BY <1>2, <1>6, SMT
  <2>2. PICK a \in Seq(Token) : a = Answer(script[i + 1]) /\ a # <<>>
    BY <1>2, <2>1, LoopAssumption, Zenon DEF Answer
  <2>3. Joins(AnswersDue)[i + 1] = (got \o y) \o a
    BY <1>1, <1>2, <2>1, <2>2, OneMore, Zenon
  <2>4. PICK t \in Seq(Token) : ((got \o y) \o a) \o t = Answers
    <3>1. i + 1 \in 0 .. Len(AnswersDue)
      BY <1>3, <2>1, Zenon
    <3>2. PICK t \in Seq(Token) : Joins(AnswersDue)[i + 1] \o t = Joins(AnswersDue)[Len(AnswersDue)]
      BY <1>3, <3>1, JoinsRest, ZenonT(30)
    <3> QED
      BY <1>3, <2>3, <3>2, Zenon
  <2>5. Len(((got \o y) \o a) \o t) = ((Len(got) + Len(y)) + Len(a)) + Len(t)
    OBVIOUS
  <2>6. Len(a) # 0 /\ Len(a) \in Nat /\ Len(t) \in Nat /\ Len(y) \in Nat /\ Len(got) \in Nat
    BY <2>2
  <2>7. Len(Answers) # Len(got)
    BY <2>4, <2>5, <2>6, SMT
  <2> QED
    BY <2>7, Zenon
<1> QED
  BY <1>5, <1>6, Zenon

(* The file replays to the changes of the requests taken so far.           *)
LEMMA ChangesRecorded ==
  ASSUME script \in Scripts, aof \in Seq(Token), NEW i \in 0 .. Len(Due), ReadBack, Recorded(i)
  PROVE  Begins(ParseAll[aof], Changes) /\ (i = Len(Due) => ParseAll[aof] = Changes)
<1>1. /\ ChangesDue \in Seq(Seq(Vals)) /\ Len(ChangesDue) = Len(Due)
      /\ Changes = Joins(ChangesDue)[Len(ChangesDue)]
  BY ScriptFacts, Zenon
<1>2. PICK h \in Seq(Vals) : h = Joins(ChangesDue)[i]
  BY <1>1, JoinsType, Zenon
<1>3. ParseAll[aof] = h
  <2>1. ParseAll[aof \o <<>>] = h \o <<>>
    BY <1>2, EmptyBuffer, Zenon DEF Recorded
  <2>2. aof \o <<>> = aof
    BY EmptyAround, Zenon
  <2>3. h \o <<>> = h
    BY EmptyAround, Zenon
  <2> QED
    BY <2>1, <2>2, <2>3, Zenon
<1>4. PICK t \in Seq(Vals) : h \o t = Changes
  BY <1>1, <1>2, JoinsRest, ZenonT(30)
<1>5. Begins(h, h \o t)
  BY PrefixOf, Zenon
<1> QED
  BY <1>1, <1>2, <1>3, <1>4, <1>5, Zenon

(* handle_client answers every request once and whole, in the order of the *)
(* requests, whatever the units, however long the script, and however the  *)
(* bytes are cut on their way in and out.                                  *)
THEOREM EveryAnswerInOrder == Spec => []AnsweredInOrder
<1>1. LoopInv => AnsweredInOrder
  BY AnswersGiven, Zenon DEF LoopInv, Types, At, AnsweredInOrder
<1> QED
  BY <1>1, InitLoop, NextLoop, PTL DEF Spec

(* handle_client goes back to read_bytes only when no request that has     *)
(* arrived whole is left in its buffer.                                    *)
THEOREM NoRequestHeldBack == Spec => []NothingHeldBack
<1>1. LoopInv => NothingHeldBack
  <2> SUFFICES ASSUME LoopInv, pc = "read", wire = <<>>, peer PROVE got = Answers
    BY Zenon DEF NothingHeldBack
  <2>1. PICK i \in 0 .. Len(Due) : At(i)
    BY Zenon DEF LoopInv
  <2>2. script \in Scripts /\ client_buffer \in Seq(Token) /\ got \in Seq(Token)
    BY Zenon DEF LoopInv, Types
  <2>3. /\ Len(Due) \in 0 .. Len(script) /\ Len(script) \in Nat /\ i \in 0 .. Len(script)
        /\ \A k \in 1 .. Len(Due) : script[k].whole /\ script[k] \in Units
    BY <2>2, DueFacts, SMT
  <2>4. got = Joins(AnswersDue)[i]
    <3>1. out = <<>> /\ got \o out = Joins(AnswersDue)[i]
      BY <2>1, Zenon DEF At, Going, Given
    <3>2. got \o <<>> = got
      BY <2>2, EmptyAround, Zenon
    <3> QED
      BY <3>1, <3>2, Zenon
  <2>5. ASSUME i # Len(Due) PROVE FALSE
    <3>1. i < Len(Due) /\ i < Len(script) /\ i + 1 \in 1 .. Len(Due) /\ i + 1 \in 0 .. Len(script)
      BY <2>3, <2>5, SMT
    <3>2. PICK f \in Seq(Token) : f = Joins(Wires)[i]
      BY <2>2, <2>3, OneMore, Zenon
    <3>3. f \o client_buffer = Bytes(script)
      <4>1. f \o (client_buffer \o (<<>> \o <<>>)) = Bytes(script)
        BY <2>1, <3>2, Zenon DEF At, Arrived
      <4>2. <<>> \o <<>> = <<>>
        OBVIOUS
      <4>3. client_buffer \o <<>> = client_buffer
        BY <2>2, EmptyAround, Zenon
      <4> QED
        BY <4>1, <4>2, <4>3, Zenon
    <3>4. PICK w \in Seq(Token) : w = script[i + 1].wire /\ parse(w) = Found(script[i + 1].val, Len(w) + 1)
      BY <2>3, <3>1, LoopAssumption, Zenon DEF Frames
    <3>5. PICK y \in Seq(Token) : (f \o w) \o y = Bytes(script)
      <4>1. Joins(Wires)[i + 1] = f \o w
        BY <2>2, <2>3, <3>1, <3>2, <3>4, OneMore, Zenon
      <4>2. /\ Wires \in Seq(Seq(Token)) /\ i + 1 \in 0 .. Len(Wires)
            /\ Joins(Wires)[Len(Wires)] = Bytes(script)
        BY <2>2, <3>1, ScriptFacts, Zenon
      <4> QED
        BY <4>1, <4>2, JoinsRest, Zenon
    <3>6. client_buffer = w \o y
      <4>1. w \o y \in Seq(Token)
        BY Joined, Zenon
      <4>2. f \o client_buffer = f \o (w \o y)
        BY <3>3, <3>5, Tokens, Zenon
      <4> QED
        BY <2>2, <4>1, <4>2, Cancelled, ZenonT(30)
    <3>7. parse(w).ok
      BY <3>4, FoundParts
    <3>8. parse(client_buffer).ok
      BY <3>6, <3>7, FramesStand, Zenon
    <3> QED
      BY <2>1, <3>8, Zenon DEF At, Going
  <2> QED
    BY <2>2, <2>4, <2>5, ScriptFacts, Zenon
<1> QED
  BY <1>1, InitLoop, NextLoop, PTL DEF Spec

(* The file that handle_client's log calls write is, to the replay loop of *)
(* Server::start, the changes asked for so far and nothing else, if the    *)
(* serializer writes what the parser reads.                                *)
THEOREM LogIsChanges ==
  ASSUME ReadBack
  PROVE  Spec => []LogReplays
<1>1. LoopInv => LogReplays
  <2> SUFFICES ASSUME LoopInv PROVE LogReplays
    OBVIOUS
  <2>1. PICK i \in 0 .. Len(Due) : Given(i) /\ Recorded(i)
    BY Zenon DEF LoopInv, At
  <2>2. script \in Scripts /\ aof \in Seq(Token) /\ got \in Seq(Token)
    BY Zenon DEF LoopInv, Types
  <2>3. got = Answers => i = Len(Due)
    BY <2>1, <2>2, AnswersGiven, Zenon
  <2>4. Begins(ParseAll[aof], Changes) /\ (i = Len(Due) => ParseAll[aof] = Changes)
    BY <2>1, <2>2, ChangesRecorded, Zenon
  <2> QED
    BY <2>3, <2>4, Zenon DEF LogReplays
<1> QED
  BY <1>1, InitLoop, NextLoop, PTL DEF Spec
===============================================================================
