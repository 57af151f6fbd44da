-------------------------------- MODULE Server --------------------------------
(***************************************************************************)
(* A server process: the main thread with its replay and accept loop       *)
(* (Server::start), the connection threads of Server::handle_client, the   *)
(* command dispatcher, the append-only file (AOF), and what a crash and a  *)
(* stop by signal do to them.                                              *)
(*                                                                         *)
(* The storage engine appears through what it promises, KVStore, which     *)
(* StorageEngine implements.  The dispatcher logs a command after the      *)
(* engine has released its mutexes and before the client is answered, so   *)
(* the order of the file is not the order of the engine.                   *)
(***************************************************************************)
EXTENDS KVOps, FiniteSets

CONSTANTS
  Clients,     \* connection threads
  Requests,    \* the requests clients send
  NoRequest,
  Calls,       \* the requests each client may send
  Scrambled,   \* commands the parser may read out of bytes it is not in step with
  FrameSize,   \* the positions of a frame the parser may stand at; 0 is its start
  Failures,    \* how the process may end
  Limits,      \* clients may send CONFIG SET MAXMEMORY
  MaxCalls,    \* bound: requests per client
  MaxTime,     \* bound: the clock
  MaxCrashes   \* bound: crashes

ASSUME ServerAssumption ==
  /\ \A r \in Requests : IsRequest(r)
  /\ ~IsRequest(NoRequest)
  /\ Calls \in [Clients -> SUBSET Requests]
  /\ \A r \in Scrambled : IsRequest(r)
  /\ FrameSize \in Nat \ {0}
  /\ Failures \subseteq {"kill", "torn", "power", "stop"}
  /\ Limits \in BOOLEAN
  /\ MaxCalls \in Nat
  /\ MaxCrashes \in Nat
  /\ MaxTime \in 1 .. TimeMod - 1

VARIABLES
  map, clock, limited, req, at, cnt, resp,  \* the engine, see KVStore
  state,     \* of the main thread: "loading" during the replay; "busy" inside
             \* Logger::info, whose mutex it holds, and "serving" inside accept;
             \* "stuck" for good; "stopping" once stop() was called, and
             \* "closing" when the AOF has been closed
  pos, off,  \* where the parser of the replay is: behind pos frames, at off
  pc,        \* where each connection thread is
  cmd,       \* the request it is dispatching
  frame,     \* the command it has serialized for the AOF
  aof,       \* the file
  calls,     \* requests read (bounded); with the client, the identity of one
  crashes,   \* crashes and stops so far (bounded)
  promised,  \* history: the changes clients have been told of
  late,      \* history: those they were told of after stop() was called
  before,    \* history: the dictionary when the last process ended
  unlogged   \* history: the keys of its commands that did not get logged

engineVars == <<map, clock, limited, req, at, cnt, resp>>
vars == <<engineVars, state, pos, off, pc, cmd, frame, aof, calls, crashes,
          promised, late, before, unlogged>>

Engine == INSTANCE KVStore

Id(c) == <<c, calls[c]>>
Frame(r, id, whole) == [req |-> r, id |-> id, whole |-> whole]
NoFrame == Frame(NoRequest, <<>>, FALSE)

Init ==
  /\ Engine!Init
  /\ state = "loading"
  /\ pos = 0
  /\ off = 0
  /\ pc = [c \in Clients |-> "new"]
  /\ cmd = [c \in Clients |-> NoRequest]
  /\ frame = [c \in Clients |-> NoFrame]
  /\ aof = <<>>
  /\ calls = [c \in Clients |-> 0]
  /\ crashes = 0
  /\ promised = {}
  /\ late = {}
  /\ before = [k \in Keys |-> NoEntry]
  /\ unlogged = {}

Goto(c, p) == pc' = [pc EXCEPT ![c] = p]

-----------------------------------------------------------------------------
(* handle_client and dispatch.                                             *)

(* A thread that is blocked in its read finds out about a stop only after  *)
(* it has dealt with what it reads.                                        *)
read_request(c, r) ==
  /\ state # "loading"
  /\ pc[c] = "read"
  /\ calls[c] < MaxCalls
  /\ r \in Calls[c]
  /\ Engine!Invoke(c, r)
  /\ calls' = [calls EXCEPT ![c] = @ + 1]
  /\ cmd' = [cmd EXCEPT ![c] = r]
  /\ Goto(c, "engine")
  /\ UNCHANGED <<state, pos, off, frame, aof, crashes, promised, late, before, unlogged>>

engine_step(c) ==
  /\ pc[c] = "engine"
  /\ Engine!Perform(c) \/ Engine!Refuse(c)
  /\ Goto(c, IF req'[c] = NoRequest THEN "log" ELSE "engine")
  /\ UNCHANGED <<state, pos, off, cmd, frame, aof, calls, crashes, promised, late, before, unlogged>>

\* Mutant: DECR is not logged.
LoggedWithoutDecr(r, a) ==
  CASE r.cmd = "SET"                               -> a.kind = "ok"
    [] r.cmd = "INCR"                              -> a.kind = "int"
    [] r.cmd = "DEL"                               -> a.val > 0
    [] r.cmd \in {"PEXPIRE", "PEXPIREAT", "PERSIST"} -> a.val = 1
    [] OTHER                                       -> FALSE

(* The commands that are logged, and only when they changed something.     *)
Logged(r, a) ==
  CASE r.cmd = "SET"                               -> a.kind = "ok"
    [] r.cmd \in {"INCR", "DECR"}                  -> a.kind = "int"
    [] r.cmd = "DEL"                               -> a.val > 0
    [] r.cmd \in {"PEXPIRE", "PEXPIREAT", "PERSIST"} -> a.val = 1
    [] OTHER                                       -> FALSE

\* Mutants: the offset is logged as if it were absolute; the sum does not wrap.
SerializeOffset(r, t) == [r EXCEPT !.cmd = IF @ = "PEXPIRE" THEN "PEXPIREAT" ELSE @]
SerializeUnwrapped(r, t) ==
  IF r.cmd = "PEXPIRE" THEN [r EXCEPT !.cmd = "PEXPIREAT", !.arg = t + @] ELSE r

(* PEXPIRE is logged as PEXPIREAT, with a second reading of the clock.     *)
Serialize(r, t) ==
  IF r.cmd = "PEXPIRE"
  THEN [cmd |-> "PEXPIREAT", keys |-> r.keys, arg |-> Deadline(t, r.arg)]
  ELSE r

serialize(c) ==
  /\ pc[c] = "log"
  /\ IF Logged(cmd[c], resp[c])
     THEN /\ frame' = [frame EXCEPT ![c] = Frame(Serialize(cmd[c], clock), Id(c), TRUE)]
          /\ Goto(c, "append")
     ELSE /\ Goto(c, "reply")
          /\ UNCHANGED frame
  /\ UNCHANGED <<engineVars, state, pos, off, cmd, aof, calls, crashes, promised, late, before, unlogged>>

\* Mutant: the frame stays in the buffer of the stream.
LogUnflushed(c) ==
  /\ pc[c] = "append"
  /\ Goto(c, "reply")
  /\ UNCHANGED <<engineVars, state, pos, off, cmd, frame, aof, calls, crashes, promised, late, before, unlogged>>

KeysOf(r) == {r.keys[i] : i \in DOMAIN r.keys}

(* AOFLogger::log: the frame is written and flushed under the log's mutex, *)
(* and dropped without a word when the stream is closed (the logger has    *)
(* then been destroyed, but its storage lasts until main returns).         *)
log(c) ==
  /\ pc[c] = "append"
  /\ IF state = "closing"
     THEN unlogged' = unlogged \cup KeysOf(cmd[c]) /\ UNCHANGED aof
     ELSE aof' = Append(aof, frame[c]) /\ UNCHANGED unlogged
  /\ Goto(c, "reply")
  /\ UNCHANGED <<engineVars, state, pos, off, cmd, frame, calls, crashes, promised, late, before>>

\* running_: stop() has not been called.
running == state \notin {"stopping", "closing"}

(* After the answer the thread goes on with what it has read already, and  *)
(* then leaves its loop if running_ is no longer set.                      *)
reply(c) ==
  /\ pc[c] = "reply"
  /\ LET told == IF Logged(cmd[c], resp[c]) THEN {Id(c)} ELSE {}
     IN  IF running
         THEN promised' = promised \cup told /\ UNCHANGED late
         ELSE late' = late \cup told /\ UNCHANGED promised
  /\ cmd' = [cmd EXCEPT ![c] = NoRequest]
  /\ frame' = [frame EXCEPT ![c] = NoFrame]
  /\ \E p \in IF running THEN {"read"} ELSE {"read", "gone"} : Goto(c, p)
  /\ UNCHANGED <<engineVars, state, pos, off, aof, calls, crashes, before, unlogged>>

-----------------------------------------------------------------------------
(* What the engine does by itself (expiry, eviction), CONFIG SET MAXMEMORY *)
(* and time.                                                               *)

ServerFrame == UNCHANGED <<state, pos, off, pc, cmd, frame, aof, calls, crashes,
                           promised, late, before, unlogged>>

Lose == (\E k \in Keys : Engine!Drop(k)) /\ ServerFrame
ConfigSet == Limits /\ state # "loading" /\ Engine!Limit /\ ServerFrame
Tick == clock < MaxTime /\ Engine!Tick /\ ServerFrame

-----------------------------------------------------------------------------
(* The process dies.  Killed, it leaves the file as it was written; the    *)
(* frame that was being written may be cut; and as nothing calls fsync, a  *)
(* power failure may take any tail of the file with it, and may cut the    *)
(* last frame it leaves.                                                   *)

Torn(f) == [f EXCEPT !.whole = FALSE]
Writing == {c \in Clients : pc[c] = "append" /\ state # "closing"}

FileAfter(how) ==
  CASE how = "kill"  -> {aof}
    [] how = "torn"  -> {Append(aof, Torn(frame[c])) : c \in Writing}
    [] how = "power" -> {SubSeq(aof, 1, n) : n \in 0 .. Len(aof)}
                        \cup {Append(SubSeq(aof, 1, n - 1), Torn(aof[n])) : n \in 1 .. Len(aof)}
    [] how = "stop"  -> {}   \* see stop, below

(* The threads and the replay start anew; nothing in memory survives, the  *)
(* memory limit included.                                                  *)
Restart ==
  /\ state' = "loading"
  /\ pos' = 0
  /\ off' = 0
  /\ map' = [k \in Keys |-> NoEntry]
  /\ limited' = FALSE
  /\ req' = [c \in Clients |-> NoRequest]
  /\ at' = [c \in Clients |-> 0]
  /\ cnt' = [c \in Clients |-> 0]
  /\ resp' = [c \in Clients |-> NoReply]
  /\ pc' = [c \in Clients |-> "new"]
  /\ cmd' = [c \in Clients |-> NoRequest]
  /\ frame' = [c \in Clients |-> NoFrame]

CutOff == {c \in Clients : pc[c] \in {"engine", "log", "append"}}

Ends ==
  /\ Restart
  /\ IF state # "loading"
     THEN /\ before' = map
          /\ unlogged' = (UNION {KeysOf(cmd[c]) : c \in CutOff})
                         \cup (IF state = "closing" THEN unlogged ELSE {})
     ELSE UNCHANGED <<before, unlogged>>
  /\ UNCHANGED <<clock, calls, promised, late>>

Crash ==
  /\ crashes < MaxCrashes
  /\ crashes' = crashes + 1
  /\ \E how \in Failures : aof' \in FileAfter(how)
  /\ Ends

-----------------------------------------------------------------------------
(* SIGINT or SIGTERM.  The handler runs on the main thread and first calls *)
(* Logger::info, whose mutex is not recursive: a signal that finds the main *)
(* thread inside Logger::info never returns.  Otherwise Server::stop wakes *)
(* the accept loop.  A signal during the replay has no effect: start() sets *)
(* running_ again before it enters the loop.                               *)
stop ==
  /\ "stop" \in Failures
  /\ crashes < MaxCrashes
  /\ crashes' = crashes + 1
  /\ \/ state = "busy" /\ state' = "stuck"
     \/ state = "serving" /\ state' = "stopping"
  /\ UNCHANGED <<engineVars, pos, off, pc, cmd, frame, aof, calls, promised, late, before, unlogged>>

(* main returns and destroys the server, its AOF first; the connection     *)
(* threads are detached and go on.                                         *)
close ==
  /\ state = "stopping"
  /\ state' = "closing"
  /\ unlogged' = {}
  /\ UNCHANGED <<engineVars, pos, off, pc, cmd, frame, aof, calls, crashes, promised, late, before>>

(* The engine's destructor has joined the sweeper; the process ends, and   *)
(* somebody starts it again.                                               *)
exit ==
  /\ state = "closing"
  /\ Ends
  /\ UNCHANGED <<aof, crashes>>

-----------------------------------------------------------------------------
(* Server::start: the replay dispatches without a log, one command after   *)
(* the other, judging expiry by the clock of the restart.                  *)
Replay(r, t) ==
  [k \in Keys |-> IF k \in KeysOf(r) THEN After(r, map[k], t) ELSE map[k]]

ReplayFrame == UNCHANGED <<clock, limited, req, at, cnt, resp, pc, cmd, frame, calls, crashes,
                           promised, late, before, unlogged>>

\* The parser is at the beginning of a whole frame.
InStep == pos < Len(aof) /\ off = 0 /\ aof[pos + 1].whole

\* Mutant: the replay logs what it replays.
LoadAndLog ==
  /\ state = "loading"
  /\ InStep
  /\ map' = Replay(aof[pos + 1].req, clock)
  /\ aof' = Append(aof, aof[pos + 1])
  /\ pos' = pos + 1
  /\ UNCHANGED <<off, state>> /\ ReplayFrame

load ==
  /\ state = "loading"
  /\ InStep
  /\ map' = Replay(aof[pos + 1].req, clock)
  /\ pos' = pos + 1
  /\ UNCHANGED <<off, state, aof>> /\ ReplayFrame

\* The positions the parser may reach from where it is.
Farther == {p \in (pos .. Len(aof)) \X (0 .. FrameSize - 1) :
            (p[1] > pos \/ p[2] > off) /\ (p[1] = Len(aof) => p[2] = 0)}

\* The commands it may find on the way: what clients have sent, or not.
Found == Scrambled \cup {aof[n].req : n \in pos + 1 .. Len(aof)}

\* Mutant: the cut frame at the end of the file is taken for complete.
LoadPartial ==
  /\ state = "loading"
  /\ pos < Len(aof) /\ ~InStep
  /\ UNCHANGED map \/ \E r \in Found : map' = Replay(r, clock)
  /\ \E p \in Farther : pos' = p[1] /\ off' = p[2]
  /\ UNCHANGED <<state, aof>> /\ ReplayFrame

(* The frames behind a cut one are taken for its missing part: as nested   *)
(* arrays, whose string_value is empty, as bytes of a key or of a value, or *)
(* as the line end, which is not looked at.  What is found is not executed *)
(* if it is no command; otherwise the command may have a key, a value or a *)
(* time nobody has sent.  It ends at the beginning of a frame, and the     *)
(* parser is in step again, or inside of one.  A cut frame with nothing    *)
(* behind it is incomplete.                                                *)
load_astray ==
  /\ state = "loading"
  /\ pos < Len(aof) /\ ~InStep
  /\ off > 0 \/ pos + 1 < Len(aof)
  /\ UNCHANGED map \/ \E r \in Found : map' = Replay(r, clock)
  /\ \E p \in Farther : pos' = p[1] /\ off' = p[2]
  /\ UNCHANGED <<state, aof>> /\ ReplayFrame

\* Mutant: what cannot be parsed is tried again.
ServeAtEnd ==
  /\ state = "loading"
  /\ pos = Len(aof)
  /\ state' = "busy"
  /\ UNCHANGED <<engineVars, pos, off, pc, cmd, frame, aof, calls, crashes, promised, late, before, unlogged>>

(* The replay is over at the end of the file, or where the parser finds    *)
(* nothing; the main thread listens, and tells the Logger.                 *)
serve ==
  /\ state = "loading"
  /\ ~InStep
  /\ state' = "busy"
  /\ UNCHANGED <<engineVars, pos, off, pc, cmd, frame, aof, calls, crashes, promised, late, before, unlogged>>

-----------------------------------------------------------------------------
(* The accept loop.                                                        *)

MainFrame == UNCHANGED <<engineVars, pos, off, cmd, frame, aof, calls, crashes, promised, late,
                         before, unlogged>>

listen ==
  /\ state = "busy"
  /\ \A c \in Clients : pc[c] # "accepted"
  /\ state' = "serving"
  /\ UNCHANGED pc /\ MainFrame

accept(c) ==
  /\ state = "serving"
  /\ pc[c] = "new"
  /\ state' = "busy"
  /\ Goto(c, "accepted") /\ MainFrame

spawn(c) ==
  /\ state = "busy"
  /\ pc[c] = "accepted"
  /\ state' = "serving"
  /\ Goto(c, "read") /\ MainFrame

Thread(c) == engine_step(c) \/ serialize(c) \/ log(c) \/ reply(c)

Next ==
  \/ \E c \in Clients : Thread(c) \/ \E r \in Requests : read_request(c, r)
  \/ \E c \in Clients : accept(c) \/ spawn(c)
  \/ Lose \/ ConfigSet \/ Tick
  \/ load \/ load_astray \/ serve \/ listen
  \/ Crash \/ stop \/ close \/ exit

Spec == Init /\ [][Next]_vars

(* The fairness of the fair runs: a thread that can go on is scheduled, so *)
(* is the main thread.  Nobody has to connect, and no process has to end.  *)
FairSpec ==
  /\ Spec
  /\ \A c \in Clients : WF_vars(Thread(c))
  /\ WF_vars(load \/ load_astray \/ serve \/ listen \/ (\E c \in Clients : spawn(c)) \/ close \/ exit)

-----------------------------------------------------------------------------
(* Properties                                                              *)

Ids == Clients \X (1 .. MaxCalls)
Frames == [req : [cmd : Cmds, keys : Seq(Keys), arg : Values \cup Int],
           id : Ids, whole : BOOLEAN]
IsFrame(f) == f \in Frames /\ IsRequest(f.req) /\ f.req.cmd # "PEXPIRE"

(* The replay never runs past the end of the file, and the file holds only *)
(* well-formed commands, deadlines absolute and in the range of uint64_t.  *)
TypeOK ==
  /\ map \in Store
  /\ clock \in 1 .. MaxTime
  /\ limited \in BOOLEAN
  /\ state \in {"loading", "busy", "serving", "stuck", "stopping", "closing"}
  /\ aof \in Seq(Frames)
  /\ \A n \in DOMAIN aof : IsFrame(aof[n])
  /\ pos \in 0 .. Len(aof)
  /\ off \in 0 .. FrameSize - 1
  /\ pc \in [Clients -> {"new", "accepted", "read", "engine", "log", "append", "reply", "gone"}]
  /\ cmd \in [Clients -> Requests \cup {NoRequest}]
  /\ frame \in [Clients -> Frames \cup {NoFrame}]
  /\ \A c \in Clients : pc[c] = "append" => IsFrame(frame[c]) /\ frame[c].whole
  /\ calls \in [Clients -> 0 .. MaxCalls]
  /\ crashes \in 0 .. MaxCrashes
  /\ promised \subseteq Ids
  /\ late \subseteq Ids
  /\ before \in Store
  /\ unlogged \subseteq Keys

IsLogged(id) == \E n \in DOMAIN aof : aof[n].id = id /\ aof[n].whole

(* A change a client has been told of is in the file, whole, whatever the  *)
(* threads were doing when the process was killed or stopped, and however  *)
(* often, provided that the client was told before stop() was called.      *)
AckedLogged == \A id \in promised : IsLogged(id)

(* docs/architecture.md: every mutating command is appended to the file; a *)
(* stop by signal is no exception, for the destructor flushes the file.    *)
StopKeepsAnswers == \A id \in promised \cup late : IsLogged(id)

(* The file holds a connection's commands in the order it sent them, each  *)
(* one once: neither a crash nor a replay ever logs a command again.       *)
ClientOrder ==
  \A m, n \in DOMAIN aof :
    (m < n /\ aof[m].id[1] = aof[n].id[1]) => aof[m].id[2] < aof[n].id[2]

(* README.md: on startup the file fully rebuilds the memory state: clients *)
(* find every key as it was when the process died, but for the keys of the *)
(* commands the crash cut off before they were logged.                     *)
RecoversMemory ==
  [][(state = "loading" /\ state' = "busy")
       => \A k \in Keys \ unlogged : Look(map'[k], clock) = Look(before[k], clock)]_vars

\* The deadlines the first n commands of a file give key k behind its last SET
\* or DEL.
Deadlines(file, n, k) ==
  {file[m].req.arg : m \in {m \in 1 .. n :
     /\ file[m].req.cmd = "PEXPIREAT" /\ k \in KeysOf(file[m].req)
     /\ \A i \in m + 1 .. n : file[i].req.cmd \in {"SET", "DEL"} => k \notin KeysOf(file[i].req)}}

\* One of them has passed: the replay then gives k up, though a later command
\* may have moved the deadline or lifted it.
Overtaken(k) == \E d \in Deadlines(aof, Len(aof), k) : d \in 1 .. clock

(* A key that is still alive when the replay ends has its value back, and  *)
(* a deadline exactly if it had one, no earlier than it was, unless an     *)
(* earlier deadline of its has passed.                                     *)
RecoversLive ==
  [][(state = "loading" /\ state' = "busy")
       => \A k \in Keys \ unlogged :
            LET old == Look(before[k], clock)
                new == Look(map'[k], clock)
            IN  old # NoEntry /\ ~Overtaken(k)
                  => /\ new # NoEntry
                     /\ new.val = old.val
                     /\ new.exp = 0 <=> old.exp = 0
                     /\ new.exp >= old.exp]_vars

(* A restarted server gets through its replay, whatever the crashes left   *)
(* in the file and whatever stands behind it, and accepts connections.     *)
ReplayEnds == state = "loading" ~> state = "serving"

\* Somebody has asked to store value v under key k.
Sent(k, v) == \E c \in Clients : \E r \in Calls[c] : r.cmd = "SET" /\ k \in KeysOf(r) /\ r.arg = v

\* Commands have been logged behind a cut frame.
CutInside == \E n \in 1 .. Len(aof) - 1 : ~aof[n].whole

(* No key gets a value nobody has sent: of a command that a crash has cut  *)
(* nothing is executed, until the file is appended to behind the cut.      *)
NothingInvented ==
  CutInside \/ \A k \in Keys : map[k] # NoEntry /\ map[k].val \in Words => Sent(k, map[k].val)

(* tests/integration/test_persistence.py: a server that serves and is sent *)
(* SIGTERM ends.                                                           *)
StopEnds == state \in {"stopping", "stuck"} ~> state = "loading"
=============================================================================
