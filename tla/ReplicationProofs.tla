-------------------------- MODULE ReplicationProofs --------------------------
(***************************************************************************)
(* Theorems about Replication, for files of any length and any number of   *)
(* failures: the stream has no gap, and the replica's file mirrors the     *)
(* primary's.                                                              *)
(***************************************************************************)
EXTENDS Replication, RESPProofs

(* What the proofs need to know of the types.                              *)
Shape ==
  /\ paof \in Seq(Token) /\ raof \in Seq(Token) /\ chan \in Seq(Token)
  /\ logged \in Nat /\ spos \in Nat
  /\ \A t \in stale : t.peer \in {"closed", "reset", "cut"}
  /\ intact \in BOOLEAN

(* A connection belongs to a worker that waits for its bytes; nothing is   *)
(* on its way before the stream begins, nor after the connection ended.    *)
Connected ==
  /\ ptask \in {"none", "psync", "stream"}
  /\ ptask # "none" => rstate \in {"reply", "stream"}
  /\ ptask # "stream" => chan = <<>>
  /\ ptask = "psync" => spos = Len(raof)

(* The replica's file is a prefix of the primary's, and the bytes on their *)
(* way are the ones between it and the reader's position.                  *)
Aligned ==
  intact =>
    /\ Mirror!Extends(raof, paof)
    /\ ptask = "stream" => /\ spos = Len(raof) + Len(chan)
                           /\ spos <= Len(paof)
                           /\ \A i \in DOMAIN chan : paof[Len(raof) + i] = chan[i]

MirrorInv == Shape /\ Connected /\ Aligned

(* What a step of the system does to the two files.                        *)
FileStep == [Mirror!Next]_(Mirror!mirrorVars)

(* Both files are empty at first.                                          *)
LEMMA InitMirror == Init => MirrorInv /\ Mirror!Init
<1> SUFFICES ASSUME Init PROVE MirrorInv /\ Mirror!Init
  OBVIOUS
<1>1. Shape /\ Connected
  BY DEF Init, Shape, Connected
<1>2. Aligned
  BY DEF Init, Aligned, Mirror!Extends
<1> QED
  BY <1>1, <1>2 DEF Init, MirrorInv, Mirror!Init

(* Appending to a sequence extends it.                                     *)
LEMMA ConcatExtends ==
  ASSUME NEW S, NEW s \in Seq(S), NEW t \in Seq(S)
  PROVE  /\ s \o t \in Seq(S) /\ Len(s \o t) = Len(s) + Len(t)
         /\ \A i \in 1 .. Len(s) : (s \o t)[i] = s[i]
         /\ \A i \in 1 .. Len(t) : (s \o t)[Len(s) + i] = t[i]
         /\ Mirror!Extends(s, s \o t)
BY DEF Mirror!Extends

(* The part of a sequence between two places.                              *)
LEMMA PartOf ==
  ASSUME NEW S, NEW s \in Seq(S), NEW m \in Nat, NEW n \in Nat, m <= n, n <= Len(s)
  PROVE  /\ SubSeq(s, m + 1, n) \in Seq(S) /\ Len(SubSeq(s, m + 1, n)) = n - m
         /\ \A i \in 1 .. n - m : SubSeq(s, m + 1, n)[i] = s[m + i]
OBVIOUS

(* A file that grows leaves every byte of it where it was.                 *)
LEMMA GrowthKeepsAligned ==
  ASSUME MirrorInv, paof' \in Seq(Token), Mirror!Extends(paof, paof'),
         UNCHANGED <<raof, chan, spos, intact>>,
         ptask' = ptask \/ (ptask' = "none" /\ chan = <<>>)
  PROVE  Aligned'
<1>1. paof \in Seq(Token) /\ raof \in Seq(Token) /\ chan \in Seq(Token) /\ spos \in Nat
  BY DEF MirrorInv, Shape
<1>2. Len(paof) <= Len(paof') /\ \A i \in 1 .. Len(paof) : paof'[i] = paof[i]
  BY DEF Mirror!Extends
<1>3. intact => Mirror!Extends(raof, paof')
  BY <1>1, <1>2 DEF MirrorInv, Aligned, Mirror!Extends
<1>4. ASSUME intact, ptask = "stream"
      PROVE  /\ spos = Len(raof) + Len(chan) /\ spos <= Len(paof')
             /\ \A i \in DOMAIN chan : paof'[Len(raof) + i] = chan[i]
  <2>1. /\ spos = Len(raof) + Len(chan) /\ spos <= Len(paof)
        /\ \A i \in DOMAIN chan : paof[Len(raof) + i] = chan[i]
    BY <1>4, Zenon DEF MirrorInv, Aligned
  <2>2. /\ Len(raof) \in Nat /\ Len(chan) \in Nat /\ DOMAIN chan = 1 .. Len(chan)
        /\ Len(paof) \in Nat /\ Len(paof') \in Nat
    BY <1>1
  <2>3. ASSUME NEW i \in DOMAIN chan PROVE paof'[Len(raof) + i] = chan[i]
    <3>1. Len(raof) + i \in 1 .. Len(paof)
      BY <2>1, <2>2, SMT
    <3> QED
      BY <1>2, <2>1, <3>1, Zenon
  <2>4. spos <= Len(paof')
    BY <1>1, <1>2, <2>1, <2>2, SMT
  <2> QED
    BY <2>1, <2>3, <2>4, Zenon
<1> QED
  BY <1>3, <1>4 DEF Aligned

(* AOFLogger::log extends the primary's file.                              *)
LEMMA LogStep ==
  ASSUME MirrorInv, log
  PROVE  MirrorInv' /\ FileStep
<1>1. History[logged + 1] \in Seq(Token)
  BY ReplicationAssumption DEF log, MirrorInv, Shape
<1>2. paof' \in Seq(Token) /\ Mirror!Extends(paof, paof')
  BY <1>1, ConcatExtends DEF log, MirrorInv, Shape
<1>3. UNCHANGED <<raof, chan, spos, intact, ptask, rstate, stale>> /\ logged' \in Nat
  BY DEF log, replica, MirrorInv, Shape
<1>4. Aligned'
  BY <1>2, <1>3, GrowthKeepsAligned
<1> QED
  BY <1>2, <1>3, <1>4 DEF MirrorInv, Shape, Connected, FileStep, Mirror!Next, Mirror!Write

(* The stream's thread reads on in the file, never past its end, and sends *)
(* what it read.                                                           *)
LEMMA StreamStep ==
  ASSUME MirrorInv, stream
  PROVE  MirrorInv' /\ UNCHANGED <<paof, raof, intact>>
<1> DEFINE part == SubSeq(paof, spos + 1, spos')
<1>1. /\ UNCHANGED <<paof, raof, intact, logged, ptask, rstate, stale>>
      /\ ptask = "stream" /\ chan' = chan \o part
      /\ spos < Len(paof) /\ spos' = Least(spos + ReadSize, Len(paof))
  BY DEF stream, replica
<1>2. /\ paof \in Seq(Token) /\ raof \in Seq(Token) /\ chan \in Seq(Token)
      /\ spos \in Nat /\ Len(paof) \in Nat /\ Len(raof) \in Nat /\ Len(chan) \in Nat
  BY DEF MirrorInv, Shape
<1>3. spos' \in Nat /\ spos <= spos' /\ spos' <= Len(paof)
  BY <1>1, <1>2, ReplicationAssumption DEF Least
<1>4. /\ part \in Seq(Token) /\ Len(part) = spos' - spos
      /\ \A i \in 1 .. spos' - spos : part[i] = paof[spos + i]
  BY <1>2, <1>3, PartOf
<1> HIDE DEF part
<1>5. /\ chan' \in Seq(Token) /\ Len(chan') = Len(chan) + Len(part)
      /\ \A i \in 1 .. Len(chan) : chan'[i] = chan[i]
      /\ \A i \in 1 .. Len(part) : chan'[Len(chan) + i] = part[i]
  <2>1. /\ chan \o part \in Seq(Token) /\ Len(chan \o part) = Len(chan) + Len(part)
        /\ \A i \in 1 .. Len(chan) : (chan \o part)[i] = chan[i]
        /\ \A i \in 1 .. Len(part) : (chan \o part)[Len(chan) + i] = part[i]
    BY <1>2, <1>4, ConcatExtends
  <2> QED
    BY <1>1, <2>1, Zenon
<1>6. ASSUME intact
      PROVE  /\ spos' = Len(raof) + Len(chan')
             /\ \A i \in DOMAIN chan' : paof[Len(raof) + i] = chan'[i]
  <2>1. /\ spos = Len(raof) + Len(chan)
        /\ \A i \in 1 .. Len(chan) : paof[Len(raof) + i] = chan[i]
    BY <1>1, <1>2, <1>6 DEF MirrorInv, Aligned
  <2>2. ASSUME NEW i \in DOMAIN chan' PROVE paof[Len(raof) + i] = chan'[i]
    <3>0. i \in 1 .. Len(chan')
      BY <1>5
    <3>1. CASE i <= Len(chan)
      BY <1>2, <1>5, <2>1, <3>0, <3>1
    <3>2. CASE i > Len(chan)
      <4>1. i - Len(chan) \in 1 .. Len(part) /\ i = Len(chan) + (i - Len(chan))
        BY <1>2, <1>3, <1>4, <1>5, <3>0, <3>2
      <4>2. chan'[i] = part[i - Len(chan)]
        BY <1>5, <4>1
      <4>3. part[i - Len(chan)] = paof[spos + (i - Len(chan))]
        BY <1>4, <4>1
      <4>4. spos + (i - Len(chan)) = Len(raof) + i
        BY <1>2, <2>1, <4>1
      <4> QED
        BY <4>2, <4>3, <4>4
    <3> QED
      BY <1>2, <3>0, <3>1, <3>2
  <2>3. spos' = Len(raof) + Len(chan')
    BY <1>2, <1>3, <1>4, <1>5, <2>1
  <2> QED
    BY <2>2, <2>3
<1>7. Aligned'
  BY <1>1, <1>3, <1>6 DEF MirrorInv, Aligned
<1> QED
  BY <1>1, <1>3, <1>5, <1>7 DEF MirrorInv, Shape, Connected

(* The worker appends what it reads to its file, and it is what the        *)
(* primary's file holds there.                                             *)
LEMMA ReceiveStep ==
  ASSUME MirrorInv, receive
  PROVE  MirrorInv' /\ FileStep
<1>1. /\ UNCHANGED <<paof, logged, spos, ptask, stale, intact>>
      /\ ptask = "stream" /\ rstate' = "stream"
  BY DEF receive, primary
<1>2. /\ paof \in Seq(Token) /\ raof \in Seq(Token) /\ chan \in Seq(Token)
      /\ spos \in Nat /\ Len(paof) \in Nat /\ Len(raof) \in Nat /\ Len(chan) \in Nat
  BY DEF MirrorInv, Shape
<1>3. PICK n \in 0 .. Len(chan) :
        /\ raof' = raof \o SubSeq(chan, 1, n)
        /\ chan' = SubSeq(chan, n + 1, Len(chan))
  <2>1. PICK n \in (IF rstate = "reply" THEN 0 ELSE 1) .. Least(ReadSize, Len(chan)) :
          /\ raof' = raof \o SubSeq(chan, 1, n)
          /\ chan' = SubSeq(chan, n + 1, Len(chan))
    BY DEF receive, log_raw
  <2>2. n \in 0 .. Len(chan)
    BY <1>2, <2>1, ReplicationAssumption DEF Least
  <2> QED
    BY <2>1, <2>2
<1> DEFINE part == SubSeq(chan, 1, n)
           rest == SubSeq(chan, n + 1, Len(chan))
<1>4. /\ part \in Seq(Token) /\ Len(part) = n
      /\ \A i \in 1 .. n : part[i] = chan[i]
  BY <1>2
<1>5. /\ rest \in Seq(Token) /\ Len(rest) = Len(chan) - n
      /\ \A i \in 1 .. Len(chan) - n : rest[i] = chan[n + i]
  BY <1>2, PartOf
<1>6. raof' = raof \o part /\ chan' = rest
  BY <1>3
<1> HIDE DEF part, rest
<1>7. /\ raof' \in Seq(Token) /\ Len(raof') = Len(raof) + n
      /\ \A i \in 1 .. Len(raof) : raof'[i] = raof[i]
      /\ \A i \in 1 .. n : raof'[Len(raof) + i] = chan[i]
      /\ Mirror!Extends(raof, raof')
  <2>1. /\ raof \o part \in Seq(Token) /\ Len(raof \o part) = Len(raof) + Len(part)
        /\ \A i \in 1 .. Len(raof) : (raof \o part)[i] = raof[i]
        /\ \A i \in 1 .. Len(part) : (raof \o part)[Len(raof) + i] = part[i]
        /\ Mirror!Extends(raof, raof \o part)
    BY <1>2, <1>4, ConcatExtends
  <2> QED
    BY <1>4, <1>6, <2>1, Zenon
<1>8. ASSUME intact
      PROVE  /\ Mirror!Extends(raof', paof)
             /\ spos = Len(raof') + Len(chan') /\ spos <= Len(paof)
             /\ \A i \in DOMAIN chan' : paof[Len(raof') + i] = chan'[i]
  <2>1. /\ Mirror!Extends(raof, paof)
        /\ spos = Len(raof) + Len(chan) /\ spos <= Len(paof)
        /\ \A i \in 1 .. Len(chan) : paof[Len(raof) + i] = chan[i]
    BY <1>1, <1>2, <1>8 DEF MirrorInv, Aligned
  <2>2. Len(raof') <= Len(paof) /\ spos = Len(raof') + Len(chan')
    <3>1. Len(chan') = Len(chan) - n
      BY <1>5, <1>6, Zenon
    <3> QED
      BY <1>2, <1>7, <2>1, <3>1
  <2>3. ASSUME NEW i \in 1 .. Len(raof') PROVE paof[i] = raof'[i]
    <3>1. CASE i <= Len(raof)
      BY <1>2, <1>7, <2>1, <3>1 DEF Mirror!Extends
    <3>2. CASE i > Len(raof)
      <4>1. i - Len(raof) \in 1 .. n /\ i = Len(raof) + (i - Len(raof))
        BY <1>2, <1>7, <3>2
      <4>2. raof'[i] = chan[i - Len(raof)]
        BY <1>7, <4>1
      <4>3. paof[i] = chan[i - Len(raof)]
        BY <1>2, <2>1, <4>1
      <4> QED
        BY <4>2, <4>3
    <3> QED
      BY <1>2, <1>7, <3>1, <3>2
  <2>4. ASSUME NEW i \in DOMAIN chan' PROVE paof[Len(raof') + i] = chan'[i]
    <3>1. i \in 1 .. Len(chan) - n
      BY <1>5, <1>6
    <3>2. n + i \in 1 .. Len(chan) /\ Len(raof') + i = Len(raof) + (n + i)
      BY <1>2, <1>7, <3>1
    <3>3. paof[Len(raof) + (n + i)] = chan[n + i]
      BY <2>1, <3>2
    <3>4. chan'[i] = chan[n + i]
      BY <1>5, <1>6, <3>1
    <3> QED
      BY <3>2, <3>3, <3>4
  <2>5. Mirror!Extends(raof', paof)
    BY <2>2, <2>3 DEF Mirror!Extends
  <2> QED
    BY <2>1, <2>2, <2>4, <2>5
<1>9. Aligned'
  BY <1>1, <1>8 DEF Aligned
<1>10. chan' \in Seq(Token)
  BY <1>5, <1>6
<1>11. FileStep
  BY <1>1, <1>7, <1>8 DEF FileStep, Mirror!Next, Mirror!Copy
<1> QED
  BY <1>1, <1>7, <1>9, <1>10, <1>11 DEF MirrorInv, Shape, Connected

(* When the primary dies its file is whole, cut, or grown by a part of a   *)
(* frame.                                                                  *)
LEMMA PrimaryDiesStep ==
  ASSUME MirrorInv, primary_dies
  PROVE  MirrorInv' /\ FileStep
<1>1. /\ UNCHANGED <<raof, spos, rstate>> /\ ptask' = "none" /\ chan' = <<>> /\ stale' = {}
      /\ intact' = (intact /\ Len(raof) <= Len(paof'))
  BY DEF primary_dies, replica
<1>2. PICK how \in {"kill", "torn", "power"} :
        /\ how \in Failures /\ paof' \in FileAfter(how)
        /\ logged' = IF how = "torn" THEN logged + 1 ELSE logged
  BY DEF primary_dies, Fault
<1>3. paof \in Seq(Token) /\ raof \in Seq(Token) /\ Len(paof) \in Nat /\ Len(raof) \in Nat
  BY DEF MirrorInv, Shape
<1>4. /\ paof' \in Seq(Token)
      /\ Mirror!Extends(paof, paof') \/ Mirror!Extends(paof', paof)
  <2>1. CASE how = "kill"
    <3>1. paof' = paof
      BY <1>2, <2>1 DEF FileAfter
    <3> QED
      BY <1>3, <3>1 DEF Mirror!Extends
  <2>2. CASE how = "torn"
    <3>1. PICK n : /\ n \in 1 .. Len(History[logged + 1]) - 1 /\ logged < Len(History)
                   /\ paof' = paof \o SubSeq(History[logged + 1], 1, n)
      BY <1>2, <2>2 DEF FileAfter
    <3>2. History[logged + 1] \in Seq(Token)
      BY <3>1, ReplicationAssumption DEF MirrorInv, Shape
    <3>3. SubSeq(History[logged + 1], 1, n) \in Seq(Token)
      BY <3>1, <3>2
    <3> QED
      BY <1>3, <3>1, <3>3, ConcatExtends
  <2>3. CASE how = "power"
    <3>1. PICK n \in 0 .. Len(paof) : paof' = SubSeq(paof, 1, n)
      BY <1>2, <2>3 DEF FileAfter
    <3> QED
      BY <1>3, <3>1 DEF Mirror!Extends
  <2> QED
    BY <2>1, <2>2, <2>3
<1>5. /\ logged' \in Nat /\ intact' \in BOOLEAN /\ chan' \in Seq(Token)
      /\ Len(paof') \in Nat
  BY <1>1, <1>2, <1>4 DEF MirrorInv, Shape
<1>6. ASSUME intact' PROVE Mirror!Extends(raof, paof')
  <2>1. Mirror!Extends(raof, paof) /\ Len(raof) <= Len(paof')
    BY <1>1, <1>6 DEF MirrorInv, Aligned
  <2> QED
    BY <1>3, <1>4, <1>5, <2>1 DEF Mirror!Extends
<1>7. FileStep
  <2>1. CASE Mirror!Extends(paof', paof)
    BY <1>1, <2>1 DEF FileStep, Mirror!Next, Mirror!Lose
  <2>2. CASE Mirror!Extends(paof, paof')
    <3>1. intact' = intact
      <4>1. intact => Len(raof) <= Len(paof')
        BY <1>3, <1>5, <2>2 DEF MirrorInv, Aligned, Mirror!Extends
      <4> QED
        BY <1>1, <4>1 DEF MirrorInv, Shape
    <3> QED
      BY <1>1, <2>2, <3>1 DEF FileStep, Mirror!Next, Mirror!Write
  <2> QED
    BY <1>4, <2>1, <2>2
<1> QED
  BY <1>1, <1>3, <1>4, <1>5, <1>6, <1>7 DEF MirrorInv, Shape, Connected, Aligned

(* The steps that leave both files alone: they open, close or lose the     *)
(* connection, or concern the replica's memory.                            *)
LEMMA OtherStep ==
  ASSUME MirrorInv,
         \/ psync \/ stream_to_nobody \/ primary_restarts
         \/ execute \/ loaded \/ connect \/ lost \/ replica_restarts \/ client_writes
         \/ connection_breaks \/ replica_dies \/ UNCHANGED vars
  PROVE  MirrorInv' /\ UNCHANGED <<paof, raof, intact>>
<1> USE DEF MirrorInv, Shape, Connected, Aligned, primary, replica
<1>1. CASE psync
  BY <1>1 DEF psync, Mirror!Extends
<1>2. CASE stream_to_nobody
  <2> DEFINE reset == [pos |-> Len(paof), peer |-> "reset"]
  <2>0. reset.peer = "reset"
    OBVIOUS
  <2> HIDE DEF reset
  <2>1. PICK t \in stale :
          CASE t.peer = "closed" -> /\ stale' = (stale \ {t}) \cup {reset}
                                    /\ UNCHANGED <<pup, ptask, chan>>
            [] t.peer = "reset"  -> pup' = FALSE /\ ptask' = "none" /\ stale' = {} /\ chan' = <<>>
            [] t.peer = "cut"    -> stale' = stale \ {t} /\ UNCHANGED <<pup, ptask, chan>>
    BY <1>2, Zenon DEF stream_to_nobody, reset
  <2>2. UNCHANGED <<paof, logged, spos, raof, rstate, intact>>
    BY <1>2 DEF stream_to_nobody
  <2>3. UNCHANGED <<ptask, chan>> \/ (ptask' = "none" /\ chan' = <<>>)
    BY <2>1
  <2>4. \A u \in stale' : u.peer \in {"closed", "reset", "cut"}
    <3>1. stale' \subseteq stale \cup {reset}
      BY <2>1
    <3> QED
      BY <2>0, <3>1
  <2>5. CASE UNCHANGED <<ptask, chan>>
    BY <2>2, <2>4, <2>5
  <2>6. CASE ptask' = "none" /\ chan' = <<>>
    BY <2>2, <2>4, <2>6
  <2> QED
    BY <2>2, <2>3, <2>5, <2>6
<1>3. CASE primary_restarts
  BY <1>3 DEF primary_restarts
<1>4. CASE execute \/ loaded \/ lost \/ replica_restarts
  <2>1. /\ UNCHANGED <<paof, logged, ptask, spos, stale, chan, raof, intact>>
        /\ rstate' = rstate \/ ptask = "none"
    BY <1>4 DEF execute, loaded, lost, replica_restarts
  <2> QED
    BY <2>1
<1>5. CASE connect
  BY <1>5 DEF connect, get_file_size
<1>6. CASE client_writes
  BY <1>6 DEF client_writes, Refused
<1>7. CASE connection_breaks
  BY <1>7 DEF connection_breaks, Orphan
<1>8. CASE replica_dies
  BY <1>8 DEF replica_dies, Orphan
<1>9. CASE UNCHANGED vars
  BY <1>9 DEF vars
<1> QED
  BY <1>1, <1>2, <1>3, <1>4, <1>5, <1>6, <1>7, <1>8, <1>9

(* Every step keeps the files aligned and is one the mirror allows.        *)
LEMMA NextMirror == MirrorInv /\ [Next]_vars => MirrorInv' /\ FileStep
<1> SUFFICES ASSUME MirrorInv, [Next]_vars PROVE MirrorInv' /\ FileStep
  OBVIOUS
<1>1. UNCHANGED <<paof, raof, intact>> => FileStep
  BY DEF FileStep, Mirror!mirrorVars
<1> QED
  BY <1>1, LogStep, StreamStep, ReceiveStep, PrimaryDiesStep, OtherStep
     DEF Next, Primary, Replica

(* Whatever is lost or dies, and however often, the stream goes on exactly *)
(* where the replica's file ends.                                          *)
THEOREM StreamHasNoGap == Spec => []NoGap
<1>1. Init => MirrorInv
  BY InitMirror
<1>2. MirrorInv => NoGap
  BY DEF MirrorInv, Shape, Connected, Aligned, NoGap
<1>3. MirrorInv /\ [Next]_vars => MirrorInv'
  BY NextMirror
<1> QED
  BY <1>1, <1>2, <1>3, PTL DEF Spec

(* The replica's file is a bit-for-bit copy of a prefix of the primary's:  *)
(* the two processes implement the mirrored log.                           *)
THEOREM ReplicaMirrors == Spec => ImplementsMirror
<1>1. Init => MirrorInv /\ Mirror!Init
  BY InitMirror
<1>2. MirrorInv /\ [Next]_vars => MirrorInv' /\ [Mirror!Next]_(Mirror!mirrorVars)
  BY NextMirror DEF FileStep
<1> QED
  BY <1>1, <1>2, PTL DEF Spec, ImplementsMirror, Mirror!Spec

-----------------------------------------------------------------------------
(* What the replica has executed.                                          *)

(* A replica has executed what its file holds before the bytes in its      *)
(* buffer, and this stays so whatever bytes follow in both.                *)
MemoryInv ==
  /\ buf \in Seq(Token)
  /\ mem \in Seq(Vals)
  /\ (~dropped /\ rstate # "dead") =>
       \A d \in Seq(Token) : ParseAll[raof \o d] = mem \o ParseAll[buf \o d]

(* Server::start and run_replica_worker: executing a frame takes it from   *)
(* the buffer to memory.                                                   *)
LEMMA ExecuteKeeps ==
  ASSUME MirrorInv, MemoryInv, execute
  PROVE  MemoryInv'
<1>1. /\ parse(buf).ok /\ buf' = Remains(buf) /\ mem' = Append(mem, parse(buf).val)
      /\ UNCHANGED <<raof, rstate, dropped>>
  BY DEF execute, Remains
<1>2. buf \in Seq(Token) /\ mem \in Seq(Vals)
  BY DEF MemoryInv
<1>3. PICK v \in Vals : v = parse(buf).val
  BY <1>2, Zenon DEF Vals
<1>4. buf' \in Seq(Token) /\ mem' \in Seq(Vals)
  <2>1. Append(mem, v) \in Seq(Vals)
    BY <1>2, <1>3
  <2> QED
    BY <1>1, <1>2, <1>3, <2>1, Remainder, Zenon
<1>5. ASSUME NEW d \in Seq(Token) PROVE mem \o ParseAll[buf \o d] = mem' \o ParseAll[buf' \o d]
  <2>1. PICK f \in Seq(Token) : f = buf' \o d
    BY <1>4, Joined, Zenon
  <2>2. PICK t \in Seq(Vals) : t = ParseAll[f]
    BY ReplayType, Zenon
  <2>3. ParseAll[buf \o d] = <<v>> \o t
    BY <1>1, <1>2, <1>3, <2>1, <2>2, ReplayFrame, Zenon
  <2>4. mem \o (<<v>> \o t) = Append(mem, v) \o t
    BY <1>2, <1>3
  <2> QED
    BY <1>1, <1>3, <2>1, <2>2, <2>3, <2>4, Zenon
<1>6. (~dropped /\ rstate # "dead") =>
        \A d \in Seq(Token) : ParseAll[raof \o d] = mem' \o ParseAll[buf' \o d]
  BY <1>5, Zenon DEF MemoryInv
<1> QED
  BY <1>1, <1>4, <1>6, Zenon DEF MemoryInv

(* run_replica_worker: what a read returns is appended to the file and to  *)
(* the buffer.                                                             *)
LEMMA ReceiveKeeps ==
  ASSUME MirrorInv, MemoryInv, receive
  PROVE  MemoryInv'
<1>1. PICK n \in Nat : /\ n <= Len(chan) /\ raof' = raof \o SubSeq(chan, 1, n)
                       /\ buf' = buf \o SubSeq(chan, 1, n)
  <2>1. PICK n \in (IF rstate = "reply" THEN 0 ELSE 1) .. Least(ReadSize, Len(chan)) :
          raof' = raof \o SubSeq(chan, 1, n) /\ buf' = buf \o SubSeq(chan, 1, n)
    BY Zenon DEF receive, log_raw
  <2>2. ReadSize \in Nat /\ Len(chan) \in Nat
    BY ReplicationAssumption DEF MirrorInv, Shape
  <2>3. n \in Nat /\ n <= Len(chan)
    BY <2>1, <2>2, SMT DEF Least
  <2> QED
    BY <2>1, <2>3, Zenon
<1>2. mem' = mem /\ dropped' = dropped /\ rstate # "dead"
  BY DEF receive
<1>3. buf \in Seq(Token) /\ mem \in Seq(Vals) /\ raof \in Seq(Token) /\ chan \in Seq(Token)
  BY DEF MemoryInv, MirrorInv, Shape
<1>4. PICK a \in Seq(Token) : a = SubSeq(chan, 1, n)
  <2>1. SubSeq(chan, 1, n) \in Seq(Token)
    BY <1>1, <1>3
  <2> QED
    BY <2>1, Zenon
<1>5. ASSUME ~dropped, NEW d \in Seq(Token)
      PROVE  ParseAll[raof' \o d] = mem' \o ParseAll[buf' \o d]
  <2>1. a \o d \in Seq(Token)
    BY <1>4
  <2>2. (raof \o a) \o d = raof \o (a \o d) /\ (buf \o a) \o d = buf \o (a \o d)
    <3>2. raof \in Seq(Token) /\ buf \in Seq(Token) /\ a \in Seq(Token) /\ d \in Seq(Token)
      BY <1>3, <1>4
    <3>3. (raof \o a) \o d = raof \o (a \o d)
      BY <3>2, Tokens, Zenon
    <3>4. (buf \o a) \o d = buf \o (a \o d)
      BY <3>2, Tokens, Zenon
    <3> QED
      BY <3>3, <3>4
  <2>3. ParseAll[raof \o (a \o d)] = mem \o ParseAll[buf \o (a \o d)]
    BY <1>2, <1>5, <2>1, Zenon DEF MemoryInv
  <2> QED
    BY <1>1, <1>2, <1>4, <2>2, <2>3, Zenon
<1>6. buf' \in Seq(Token)
  BY <1>1, <1>3, <1>4
<1> QED
  BY <1>2, <1>3, <1>5, <1>6, Zenon DEF MemoryInv

(* A replica that starts has executed nothing of its file.                 *)
LEMMA FreshReplica ==
  ASSUME NEW b \in Seq(Token), NEW d \in Seq(Token)
  PROVE  ParseAll[b \o d] = <<>> \o ParseAll[b \o d]
<1>1. PICK e \in Seq(Token) : e = b \o d
  BY Joined, Zenon
<1>2. ParseAll[e] \in Seq(Vals)
  BY ReplayType, Zenon
<1> QED
  BY <1>1, <1>2, EmptyAround, Zenon

(* Every step keeps memory and buffer together a replay of the file.       *)
LEMMA NextMemory ==
  ASSUME MirrorInv, MemoryInv, [Next]_vars
  PROVE  MemoryInv'
<1>0. <<>> \in Seq(Token) /\ <<>> \in Seq(Vals) /\ raof \in Seq(Token)
  BY DEF MirrorInv, Shape
<1>1. CASE execute
  BY <1>1, ExecuteKeeps
<1>2. CASE receive
  BY <1>2, ReceiveKeeps
<1>3. CASE loaded \/ lost
  <2>1. /\ buf' = <<>> /\ UNCHANGED <<raof, mem>> /\ dropped' = (dropped \/ buf # <<>>)
        /\ rstate # "dead"
    BY <1>3 DEF loaded, lost
  <2>2. CASE buf = <<>>
    BY <1>0, <2>1, <2>2, Zenon DEF MemoryInv
  <2>3. CASE buf # <<>>
    BY <1>0, <2>1, <2>3, Zenon DEF MemoryInv
  <2> QED
    BY <2>2, <2>3
<1>4. CASE replica_restarts
  <2>1. buf' = raof /\ mem' = <<>> /\ raof' = raof
    BY <1>4 DEF replica_restarts
  <2> QED
    BY <1>0, <2>1, FreshReplica, Zenon DEF MemoryInv
<1>5. CASE replica_dies
  <2>1. buf' = <<>> /\ mem' = <<>> /\ rstate' = "dead"
    BY <1>5 DEF replica_dies
  <2> QED
    BY <1>0, <2>1, Zenon DEF MemoryInv
<1>6. CASE connect
  <2>1. UNCHANGED <<raof, buf, mem, dropped>> /\ rstate # "dead"
    BY <1>6 DEF connect
  <2> QED
    BY <2>1, Zenon DEF MemoryInv
<1>7. CASE \/ log \/ Primary \/ client_writes \/ stream_to_nobody
           \/ connection_breaks \/ primary_dies \/ primary_restarts \/ UNCHANGED vars
  <2>1. UNCHANGED <<raof, rstate, buf, mem, dropped>>
    BY <1>7 DEF log, Primary, psync, stream, client_writes, Refused, stream_to_nobody,
                connection_breaks, primary_dies, primary_restarts, vars, replica
  <2> QED
    BY <2>1, Zenon DEF MemoryInv
<1> QED
  BY <1>1, <1>2, <1>3, <1>4, <1>5, <1>6, <1>7, Zenon DEF Next, Replica

(* A replica has executed what a restart would make of its own file,       *)
(* however reads, failures and restarts fall, unless a connection or an    *)
(* earlier process ended inside a frame since it started.                  *)
THEOREM ReplicaMemory == Spec => []MemoryIsReplay
<1>1. Init => MirrorInv /\ MemoryInv
  <2> SUFFICES ASSUME Init PROVE MemoryInv
    BY InitMirror
  <2>1. <<>> \in Seq(Token) /\ <<>> \in Seq(Vals)
    OBVIOUS
  <2> QED
    BY <2>1, FreshReplica, Zenon DEF Init, MemoryInv
<1>2. (MirrorInv /\ MemoryInv) /\ [Next]_vars => (MirrorInv /\ MemoryInv)'
  BY NextMirror, NextMemory
<1>3. MirrorInv /\ MemoryInv => MemoryIsReplay
  <2> SUFFICES ASSUME MirrorInv, MemoryInv, ~dropped, rstate # "dead"
               PROVE  ParseAll[raof] = mem \o ParseAll[buf]
    BY DEF MemoryIsReplay
  <2>1. <<>> \in Seq(Token) /\ raof \in Seq(Token) /\ buf \in Seq(Token)
    BY DEF MirrorInv, Shape, MemoryInv
  <2>2. raof \o <<>> = raof /\ buf \o <<>> = buf
    BY <2>1, EmptyAround, Zenon
  <2> QED
    BY <2>1, <2>2, Zenon DEF MemoryInv
<1> QED
  BY <1>1, <1>2, <1>3, PTL DEF Spec
=============================================================================
