----------------------------- MODULE Replication -----------------------------
(***************************************************************************)
(* A primary and one replica: the PSYNC stream of Server::handle_client,   *)
(* which sends the primary's append-only file from an offset on, and       *)
(* Server::run_replica_worker, which asks for the stream, appends it to    *)
(* the replica's own file and executes the commands in it.                 *)
(*                                                                         *)
(* A file is a sequence of RESP's tokens, and streams are cut anywhere.    *)
(* Memory is represented by the sequence of the values that have been      *)
(* dispatched since the process started.  What the commands among them do  *)
(* is the subject of Server.                                               *)
(***************************************************************************)
EXTENDS RESP

CONSTANTS
  History,     \* the serialized commands the primary logs, one after the other
  IsCommand(_),\* whether dispatch does anything with a parsed value
  ReadSize,    \* the size of a read buffer, 4096 bytes in the code
  Failures,    \* what may go wrong
  MaxFaults    \* bound: how often

ASSUME ReplicationAssumption ==
  /\ History \in Seq(Seq(Token))
  /\ Failures \subseteq {"drop", "replica", "kill", "torn", "power"}
  /\ ReadSize \in Nat \ {0}
  /\ MaxFaults \in Nat

VARIABLES
  paof,     \* the primary's file
  logged,   \* how many commands of History it has logged
  pup,      \* the primary is running
  ptask,    \* its thread for the replica: "none", "psync" (asked) or "stream"
  spos,     \* the offset asked for, then the position of the stream's reader
  stale,    \* its threads whose connection is gone: [pos, peer]
  chan,     \* bytes of the stream on their way
  raof,     \* the replica's file
  rstate,   \* "dead", "load", "down" (unconnected), "reply" or "stream"
  buf,      \* aof_content during the replay, client_buffer afterwards
  mem,      \* the values dispatched since the replica started
  faults,   \* failures so far (bounded)
  intact,   \* history: the primary never lost bytes that the replica has
  dropped   \* history: a part of a frame was thrown away since the start

primary == <<paof, logged, pup, ptask, spos, stale>>
replica == <<raof, rstate, buf, mem, dropped>>
vars == <<primary, chan, replica, faults, intact>>

Init ==
  /\ paof = <<>>
  /\ logged = 0
  /\ pup = TRUE
  /\ ptask = "none"
  /\ spos = 0
  /\ stale = {}
  /\ chan = <<>>
  /\ raof = <<>>
  /\ rstate = "load"
  /\ buf = <<>>
  /\ mem = <<>>
  /\ faults = 0
  /\ intact = TRUE
  /\ dropped = FALSE

-----------------------------------------------------------------------------
(* The primary.                                                            *)

log ==
  /\ pup
  /\ logged < Len(History)
  /\ paof' = paof \o History[logged + 1]
  /\ logged' = logged + 1
  /\ UNCHANGED <<pup, ptask, spos, stale, chan, replica, faults, intact>>

(* handle_client has read PSYNC <offset>: it answers +CONTINUE, opens the  *)
(* file anew and seeks to the offset, wherever the file ends.              *)
psync ==
  /\ ptask = "psync"
  /\ ptask' = "stream"
  /\ UNCHANGED <<paof, logged, pup, spos, stale, chan, replica, faults, intact>>

Least(m, n) == IF m <= n THEN m ELSE n

(* A bufferful is read from the file and sent; at the end of the file,  *)
(* or beyond it, the thread sleeps and tries again.                        *)
stream ==
  /\ ptask = "stream"
  /\ spos < Len(paof)
  /\ spos' = Least(spos + ReadSize, Len(paof))
  /\ chan' = chan \o SubSeq(paof, spos + 1, spos')
  /\ UNCHANGED <<paof, logged, pup, ptask, stale, replica, faults, intact>>

(* The connection is gone, but its thread finds out only when it has more  *)
(* to send.  A replica that died has closed its end: one write is still    *)
(* accepted and answered by a reset, the next one raises SIGPIPE, which    *)
(* ends the primary.  Otherwise the write fails and the thread returns.    *)
stream_to_nobody ==
  \E t \in stale :
    /\ t.pos < Len(paof)
    /\ CASE t.peer = "closed" -> /\ stale' = (stale \ {t}) \cup {[pos |-> Len(paof), peer |-> "reset"]}
                                 /\ UNCHANGED <<pup, ptask, chan>>
         [] t.peer = "reset"  -> pup' = FALSE /\ ptask' = "none" /\ stale' = {} /\ chan' = <<>>
         [] t.peer = "cut"    -> stale' = stale \ {t} /\ UNCHANGED <<pup, ptask, chan>>
    /\ UNCHANGED <<paof, logged, spos, replica, faults, intact>>

primary_restarts ==
  /\ ~pup
  /\ pup' = TRUE
  /\ UNCHANGED <<paof, logged, ptask, spos, stale, chan, replica, faults, intact>>

-----------------------------------------------------------------------------
(* The replica.                                                            *)

\* The replica's AOFLogger.
get_file_size == Len(raof)
log_raw(data) == raof' = raof \o data

(* One round of the loops that parse and dispatch: of the replay, and of   *)
(* the worker.  Values that are no command are answered by an error that   *)
(* nobody reads.                                                           *)
execute ==
  /\ rstate # "dead"
  /\ \E r \in {parse(buf)} :
       /\ r.ok
       /\ buf' = Erase(buf, r)
       /\ mem' = Append(mem, r.val)
  /\ UNCHANGED <<primary, chan, raof, rstate, faults, intact, dropped>>

Idle == ~parse(buf).ok

(* The replay is over; what is left of the file's content is forgotten.    *)
loaded ==
  /\ rstate = "load"
  /\ Idle
  /\ rstate' = "down"
  /\ buf' = <<>>
  /\ dropped' = (dropped \/ buf # <<>>)
  /\ UNCHANGED <<primary, chan, raof, mem, faults, intact>>

connect ==
  /\ rstate = "down"
  /\ pup
  /\ ptask' = "psync"
  /\ spos' = get_file_size
  /\ rstate' = "reply"
  /\ UNCHANGED <<paof, logged, pup, stale, chan, raof, buf, mem, faults, intact, dropped>>

\* Mutants: what follows +CONTINUE in the same read is not logged; every read
\* starts a buffer of its own.
ReceiveForgettingRemainder ==
  /\ rstate \in {"reply", "stream"}
  /\ ptask = "stream"
  /\ Idle
  /\ \E n \in (IF rstate = "reply" THEN 0 ELSE 1) .. Least(ReadSize, Len(chan)) :
       /\ log_raw(IF rstate = "reply" THEN <<>> ELSE SubSeq(chan, 1, n))
       /\ buf' = buf \o SubSeq(chan, 1, n)
       /\ chan' = SubSeq(chan, n + 1, Len(chan))
  /\ rstate' = "stream"
  /\ UNCHANGED <<primary, mem, faults, intact, dropped>>

ReceiveFresh ==
  /\ rstate \in {"reply", "stream"}
  /\ ptask = "stream"
  /\ Idle
  /\ \E n \in (IF rstate = "reply" THEN 0 ELSE 1) .. Least(ReadSize, Len(chan)) :
       /\ log_raw(SubSeq(chan, 1, n))
       /\ buf' = SubSeq(chan, 1, n)
       /\ chan' = SubSeq(chan, n + 1, Len(chan))
  /\ rstate' = "stream"
  /\ UNCHANGED <<primary, mem, faults, intact, dropped>>

(* A read returns any part of what has arrived, the first one +CONTINUE    *)
(* and perhaps something behind it; the bytes go to the file, then to the  *)
(* buffer.                                                                 *)
receive ==
  /\ rstate \in {"reply", "stream"}
  /\ ptask = "stream"
  /\ Idle
  /\ \E n \in (IF rstate = "reply" THEN 0 ELSE 1) .. Least(ReadSize, Len(chan)) :
       /\ log_raw(SubSeq(chan, 1, n))
       /\ buf' = buf \o SubSeq(chan, 1, n)
       /\ chan' = SubSeq(chan, n + 1, Len(chan))
  /\ rstate' = "stream"
  /\ UNCHANGED <<primary, mem, faults, intact, dropped>>

\* Mutant: the worker ends with its first connection.
LostForGood ==
  /\ rstate \in {"reply", "stream"}
  /\ ptask = "none"
  /\ Idle
  /\ rstate' = "ended"
  /\ UNCHANGED <<primary, chan, raof, buf, mem, faults, intact, dropped>>

(* The read reports the end of the connection; the buffer dies with it.    *)
lost ==
  /\ rstate \in {"reply", "stream"}
  /\ ptask = "none"
  /\ Idle
  /\ rstate' = "down"
  /\ buf' = <<>>
  /\ dropped' = (dropped \/ buf # <<>>)
  /\ UNCHANGED <<primary, chan, raof, mem, faults, intact>>

replica_restarts ==
  /\ rstate = "dead"
  /\ rstate' = "load"
  /\ buf' = raof
  /\ mem' = <<>>
  /\ dropped' = FALSE
  /\ UNCHANGED <<primary, chan, raof, faults, intact>>

\* Mutant: the read-only check is missing.
RefusedNever(is_read_only, bypass_readonly) == FALSE

Refused(is_read_only, bypass_readonly) == is_read_only /\ ~bypass_readonly

(* A client sends the replica a command that writes.                       *)
client_writes ==
  /\ rstate \in {"down", "reply", "stream"}
  /\ \E n \in DOMAIN History :
       IF Refused(TRUE, FALSE)
       THEN UNCHANGED <<raof, mem>>
       ELSE raof' = raof \o History[n] /\ mem' = Append(mem, parse(History[n]).val)
  /\ UNCHANGED <<primary, chan, rstate, buf, faults, intact, dropped>>

-----------------------------------------------------------------------------
(* Failures.  Bytes on their way are lost with the connection: those that  *)
(* still arrive could have been read before.                               *)

Fault(kind) ==
  /\ kind \in Failures
  /\ faults < MaxFaults
  /\ faults' = faults + 1

\* The primary's thread is left with a connection whose other end is gone.
Orphan(peer) == IF ptask = "none" THEN stale ELSE stale \cup {[pos |-> spos, peer |-> peer]}

connection_breaks ==
  /\ Fault("drop")
  /\ ptask # "none"
  /\ ptask' = "none"
  /\ stale' = Orphan("cut")
  /\ chan' = <<>>
  /\ UNCHANGED <<paof, logged, pup, spos, replica, intact>>

(* The replica dies.  If bytes are waiting for it, the primary sees either *)
(* a reset alone, or the end of the stream first.                          *)
replica_dies ==
  /\ Fault("replica")
  /\ rstate # "dead"
  /\ rstate' = "dead"
  /\ ptask' = "none"
  /\ \E peer \in IF chan = <<>> THEN {"closed"} ELSE {"reset", "cut"} : stale' = Orphan(peer)
  /\ chan' = <<>>
  /\ buf' = <<>>
  /\ mem' = <<>>
  /\ UNCHANGED <<paof, logged, pup, spos, raof, intact, dropped>>

FileAfter(how) ==
  CASE how = "kill"  -> {paof}
    [] how = "torn"  -> {paof \o SubSeq(History[logged + 1], 1, n) :
                           n \in IF logged < Len(History) THEN 1 .. Len(History[logged + 1]) - 1
                                                          ELSE {}}
    [] how = "power" -> {SubSeq(paof, 1, n) : n \in 0 .. Len(paof)}

(* The primary dies: killed, in the middle of a write, or with its machine.*)
primary_dies ==
  /\ pup
  /\ \E how \in {"kill", "torn", "power"} :
       /\ Fault(how)
       /\ paof' \in FileAfter(how)
       /\ logged' = IF how = "torn" THEN logged + 1 ELSE logged
  /\ intact' = (intact /\ Len(raof) <= Len(paof'))
  /\ pup' = FALSE
  /\ ptask' = "none"
  /\ stale' = {}
  /\ chan' = <<>>
  /\ UNCHANGED <<spos, replica>>

Primary == psync \/ stream
Replica == execute \/ loaded \/ connect \/ receive \/ lost

Next ==
  \/ log \/ Primary \/ Replica \/ client_writes
  \/ stream_to_nobody
  \/ connection_breaks \/ replica_dies \/ primary_dies
  \/ replica_restarts \/ primary_restarts

Spec == Init /\ [][Next]_vars

(* The worker and the stream's thread are scheduled, and a connection that *)
(* has ended is reported to its reader.                                    *)
FairSpec == Spec /\ WF_vars(Primary) /\ WF_vars(Replica)

-----------------------------------------------------------------------------
(* Properties                                                              *)

Mirror == INSTANCE MirroredLog WITH log <- paof, copy <- raof

(* docs/architecture.md: the replica's file is a bit-for-bit copy.  It is  *)
(* a prefix of the primary's at any time, whatever was cut, lost, sent     *)
(* again or replayed, until the primary's machine loses a part of its file *)
(* that the replica has; and it never shrinks.                             *)
ImplementsMirror == Mirror!Spec

(* The stream goes on exactly where the replica's file ends: what is on    *)
(* its way is what the primary's file holds behind that place.             *)
NoGap ==
  (intact /\ ptask # "none") =>
    /\ spos = Len(raof) + Len(chan)
    /\ \A i \in DOMAIN chan : paof[Len(raof) + i] = chan[i]

(* While both processes stay up, the replica's file catches up with the    *)
(* primary's, however many connections have been lost on the way.          *)
FileConverges ==
  (<>[](pup /\ rstate # "dead") /\ []intact) => []<>(raof = paof)

(* A replica has executed what a restart would make of its own file,       *)
(* however the stream was cut into reads and whatever the primary's file   *)
(* contains, unless a connection (or an earlier process) ended inside a    *)
(* frame since it started.                                                 *)
MemoryIsReplay == (~dropped /\ rstate # "dead") => ParseAll[raof] = mem \o ParseAll[buf]

Commands(values) == SelectSeq(values, IsCommand)

(* docs/architecture.md: the replica executes the commands to achieve      *)
(* memory convergence.                                                     *)
MemoryConverges ==
  (<>[](pup /\ rstate # "dead") /\ []intact) => []<>(Commands(mem) = Commands(ParseAll[paof]))
=============================================================================
