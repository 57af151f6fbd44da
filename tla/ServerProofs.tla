---------------------------- MODULE ServerProofs ----------------------------
(***************************************************************************)
(* Theorems about Server: the types, whatever the replay reads behind a    *)
(* cut frame; the order of the append-only file; and what a client that    *)
(* has been answered may rely on.  The last part prepares ServerRecovery.  *)
(***************************************************************************)
EXTENDS Server, TLAPS

(* What a command does to an entry.                                        *)

(* What any request leaves behind is an entry, or nothing: only the kind   *)
(* of the argument matters.                                                *)
Executable(r) ==
  /\ r.cmd = "SET" => r.arg \in Values
  /\ r.cmd = "PEXPIRE" => r.arg \in Int
  /\ r.cmd = "PEXPIREAT" => r.arg \in Time
  /\ r.cmd \in Cmds

(* What a method goes on with after its lazy erase is an entry, or nothing.*)
LEMMA LookType ==
  ASSUME NEW e \in Entry \cup {NoEntry}, NEW t \in Nat
  PROVE  Look(e, t) \in Entry \cup {NoEntry}
BY DEF Look

(* val++ and val-- stay in the range of int64_t.                           *)
LEMMA BumpType ==
  ASSUME NEW m, NEW n \in Ints
  PROVE  Bump(m, n) \in Ints
BY KVAssumption DEF Bump, Ints

(* Whatever a command finds and whenever it runs, the dictionary stays in  *)
(* its type.                                                               *)
LEMMA AfterType ==
  ASSUME NEW r, Executable(r), NEW e \in Entry \cup {NoEntry}, NEW t \in Nat
  PROVE  After(r, e, t) \in Entry \cup {NoEntry}
<1>1. PICK l \in Entry \cup {NoEntry} : l = Look(e, t)
  BY LookType
<1>2. 0 \in Ints /\ 0 \in Time /\ Ints \subseteq Values
  BY KVAssumption DEF Ints, Time, Values
<1>3. CASE r.cmd = "SET"
  <2>1. After(r, e, t) = [val |-> r.arg, exp |-> 0]
    BY <1>3 DEF After, ReadCmds
  <2> QED
    BY <1>2, <1>3, <2>1 DEF Executable, Entry
<1>4. CASE r.cmd = "DEL"
  BY <1>4 DEF After, ReadCmds
<1>5. CASE r.cmd \in ReadCmds
  <2>1. After(r, e, t) = l
    BY <1>1, <1>5 DEF After, ReadCmds
  <2> QED
    BY <2>1
<1>6. CASE r.cmd \in {"INCR", "DECR"}
  <2>1. After(r, e, t) = IF l = NoEntry THEN [val |-> Bump(r.cmd, 0), exp |-> 0]
                         ELSE IF l.val \in Ints THEN [l EXCEPT !.val = Bump(r.cmd, @)] ELSE l
    BY <1>1, <1>6 DEF After, ReadCmds
  <2>2. Bump(r.cmd, 0) \in Values
    BY <1>2, BumpType
  <2>3. [val |-> Bump(r.cmd, 0), exp |-> 0] \in Entry
    BY <1>2, <2>2 DEF Entry
  <2>4. ASSUME l # NoEntry, l.val \in Ints
        PROVE  [l EXCEPT !.val = Bump(r.cmd, @)] \in Entry
    <3>1. Bump(r.cmd, l.val) \in Values
      BY <1>2, <2>4, BumpType
    <3> QED
      BY <2>4, <3>1 DEF Entry
  <2> QED
    BY <2>1, <2>3, <2>4
<1>7. CASE r.cmd \in {"PEXPIRE", "PEXPIREAT", "PERSIST"}
  <2> DEFINE x == CASE r.cmd = "PEXPIRE"    -> Deadline(t, r.arg)
                    [] r.cmd = "PEXPIREAT" -> r.arg
                    [] r.cmd = "PERSIST"   -> 0
  <2>1. x \in Time
    <3>1. r.cmd = "PEXPIRE" => Deadline(t, r.arg) \in Time
      BY KVAssumption DEF Deadline, Time, Executable
    <3> QED
      BY <1>2, <1>7, <3>1 DEF Executable
  <2>2. After(r, e, t) = IF l = NoEntry THEN l ELSE [l EXCEPT !.exp = x]
    BY <1>1, <1>7 DEF After, ReadCmds
  <2> HIDE DEF x
  <2> QED
    BY <2>1, <2>2 DEF Entry
<1> QED
  BY <1>3, <1>4, <1>5, <1>6, <1>7 DEF Executable, Cmds, ReadCmds, UpdateCmds

(* A request names keys, and can be executed.                              *)
LEMMA RequestFacts ==
  ASSUME NEW r, IsRequest(r)
  PROVE  /\ Executable(r)
         /\ r.keys \in Seq(Keys) /\ r.keys # <<>>
         /\ Head(r.keys) \in Keys
<1>1. /\ r.keys \in Seq(Keys) /\ r.keys # <<>> /\ Executable(r)
  BY DEF IsRequest, Executable
<1> QED
  BY <1>1

(* The rest of a request is a request while keys are left.                 *)
LEMMA TailRequest ==
  ASSUME NEW r, IsRequest(r), Len(r.keys) > 1
  PROVE  IsRequest(Rest(r))
<1>1. /\ r.keys \in Seq(Keys) /\ r.keys # <<>>
      /\ r \in [cmd : Cmds, keys : Seq(Keys) \ {<<>>}, arg : Values \cup Int]
  BY DEF IsRequest
<1>2. Tail(r.keys) \in Seq(Keys) /\ Len(Tail(r.keys)) = Len(r.keys) - 1
  BY <1>1
<1>a. PICK n \in Nat : n = Len(r.keys)
  BY <1>1
<1>b. n > 1
  BY <1>a, Zenon
<1>3. Tail(r.keys) # <<>>
  <2>1. n - 1 # 0
    BY <1>b
  <2>2. Len(Tail(r.keys)) = n - 1
    BY <1>a, <1>2, Zenon
  <2>3. Len(<<>>) = 0
    OBVIOUS
  <2> QED
    BY <2>1, <2>2, <2>3, Zenon
<1>4. Rest(r) \in [cmd : Cmds, keys : Seq(Keys) \ {<<>>}, arg : Values \cup Int]
  BY <1>1, <1>2, <1>3 DEF Rest
<1>5. r.cmd \in {"DEL", "EXISTS"}
  <2>1. n # 1
    BY <1>b
  <2> QED
    BY <1>a, <2>1, Zenon DEF IsRequest
<1>6. Rest(r).cmd \in {"DEL", "EXISTS"}
  BY <1>5 DEF Rest
<1> QED
  BY <1>4, <1>6 DEF IsRequest
-----------------------------------------------------------------------------
(* Zenon is the prover of the leaves that name no other one.               *)
USE Zenon

Idle == {"new", "accepted", "read", "gone"}
Steps == Idle \cup {"engine", "log", "append", "reply"}
Tags == Clients \X Nat
FileCmds == UNION {{Serialize(r, t) : t \in Nat} : r \in Requests}
FileFrames == [req : FileCmds, id : Tags, whole : BOOLEAN]

(* What the proofs need to know of the types.                              *)
Shape ==
  /\ aof \in Seq(FileFrames)
  /\ pc \in [Clients -> Steps]
  /\ cmd \in [Clients -> Requests \cup {NoRequest}]
  /\ frame \in [Clients -> FileFrames \cup {NoFrame}]
  /\ calls \in [Clients -> Nat]
  /\ clock \in Nat
  /\ DOMAIN resp = Clients

(* A thread past the read has a request; about to append, it holds the     *)
(* whole frame of its current request.                                     *)
InHand ==
  \A c \in Clients :
    /\ pc[c] \notin Idle => cmd[c] \in Requests
    /\ pc[c] = "append" => frame[c] \in FileFrames /\ frame[c].id = Id(c) /\ frame[c].whole

(* The file has no command of the future, nor one whose thread has yet to  *)
(* append it.                                                              *)
Past(f, c) ==
  /\ f.id[1] = c => f.id[2] <= calls[c]
  /\ f.id[1] = c /\ pc[c] \in {"engine", "log", "append"} => f.id[2] < calls[c]
NotYet == \A n \in DOMAIN aof : \A c \in Clients : Past(aof[n], c)

FileInv == Shape /\ InHand /\ NotYet /\ ClientOrder

InFile(file, id) == \E n \in DOMAIN file : file[n].id = id /\ file[n].whole

(* A thread that is about to answer has logged what it will promise, as    *)
(* long as the log is open.                                                *)
AckInv ==
  /\ \A c \in Clients :
       state # "closing" /\ pc[c] = "reply" /\ Logged(cmd[c], resp[c]) => InFile(aof, Id(c))
  /\ \A id \in promised : InFile(aof, id)

(* Before the first request the file is empty and nobody holds a frame.    *)
LEMMA InitFile == Init => FileInv /\ AckInv
<1> SUFFICES ASSUME Init PROVE FileInv /\ AckInv
  OBVIOUS
<1>1. aof = <<>> /\ DOMAIN aof = {} /\ aof \in Seq(FileFrames)
  BY SMT DEF Init
<1>2. clock = 1 /\ DOMAIN resp = Clients
  BY DEF Init, Engine!Init
<1>3. Shape
  BY <1>1, <1>2 DEF Init, Shape, Steps, Idle
<1> QED
  BY <1>1, <1>3 DEF Init, FileInv, InHand, Idle, NotYet, ClientOrder, AckInv

Ordered(file) ==
  \A m, n \in DOMAIN file :
    (m < n /\ file[m].id[1] = file[n].id[1]) => file[m].id[2] < file[n].id[2]

(* Appending the frame of a thread's current request keeps the order and   *)
(* loses nothing.                                                          *)
LEMMA AppendKeeps ==
  ASSUME FileInv, NEW c \in Clients, pc[c] = "append", NEW f \in FileFrames, f.id = Id(c)
  PROVE  /\ Append(aof, f) \in Seq(FileFrames)
         /\ DOMAIN Append(aof, f) = 1 .. Len(aof) + 1
         /\ \A n \in DOMAIN aof : n \in DOMAIN Append(aof, f) /\ Append(aof, f)[n] = aof[n]
         /\ Append(aof, f)[Len(aof) + 1] = f
         /\ Ordered(Append(aof, f))
<1> DEFINE file == Append(aof, f)
<1> USE DEF FileInv
<1>1. /\ aof \in Seq(FileFrames) /\ Len(aof) \in Nat /\ DOMAIN aof = 1 .. Len(aof)
  BY SMT DEF Shape
<1>2. /\ file \in Seq(FileFrames)
      /\ DOMAIN file = 1 .. Len(aof) + 1
      /\ \A n \in DOMAIN aof : n \in DOMAIN file /\ file[n] = aof[n]
      /\ file[Len(aof) + 1] = f
  BY <1>1, SMT
<1>3. ASSUME NEW m \in DOMAIN file, NEW n \in DOMAIN file,
             m < n, file[m].id[1] = file[n].id[1]
      PROVE  file[m].id[2] < file[n].id[2]
  <2>1. m \in DOMAIN aof /\ file[m] = aof[m]
    BY <1>1, <1>2, <1>3, SMT
  <2>2. CASE n \in DOMAIN aof
    BY <1>2, <1>3, <2>1, <2>2 DEF ClientOrder
  <2>3. CASE n = Len(aof) + 1
    <3>1. file[n].id = <<c, calls[c]>>
      BY <1>2, <2>3 DEF Id
    <3>2. Past(aof[m], c) /\ aof[m].id[1] = c
      BY <1>3, <2>1, <3>1, SMT DEF NotYet
    <3> QED
      BY <2>1, <3>1, <3>2, SMT DEF Past
  <2> QED
    BY <1>1, <1>2, <2>2, <2>3, SMT
<1> QED
  BY <1>2, <1>3 DEF Ordered

(* A thread's step other than the append leaves the file alone.            *)
LEMMA ThreadFile ==
  ASSUME FileInv, NEW c \in Clients,
         (\E r \in Requests : read_request(c, r)) \/ engine_step(c) \/ serialize(c) \/ reply(c)
  PROVE  FileInv'
<1> USE DEF FileInv
<1>1. ASSUME NEW r \in Requests, read_request(c, r)
      PROVE  FileInv'
  <2>1. /\ UNCHANGED <<aof, frame, clock>> /\ DOMAIN resp' = Clients
        /\ pc' = [pc EXCEPT ![c] = "engine"]
        /\ cmd' = [cmd EXCEPT ![c] = r]
        /\ calls' = [calls EXCEPT ![c] = @ + 1]
        /\ pc[c] = "read"
    BY <1>1 DEF read_request, Engine!Invoke, Goto, Shape
  <2>2. Shape'
    BY <2>1, SMT DEF Shape, Steps, Idle
  <2>3. InHand'
    BY <2>1 DEF InHand, Idle, Shape, Id
  <2>4. NotYet'
    <3> SUFFICES ASSUME NEW n \in DOMAIN aof, NEW d \in Clients
                 PROVE  Past(aof[n], d)'
      BY <2>1 DEF NotYet
    <3>0. aof[n] \in FileFrames
      BY SMT DEF Shape
    <3>1. aof[n].id[2] \in Nat
      BY <3>0 DEF FileFrames, Tags
    <3>2. Past(aof[n], d)
      BY DEF NotYet
    <3> QED
      BY <2>1, <3>1, <3>2, SMT DEF Past, Shape
  <2> QED
    BY <2>1, <2>2, <2>3, <2>4 DEF ClientOrder
<1>2. CASE engine_step(c)
  <2>1. PICK p \in {"engine", "log"} :
          /\ UNCHANGED <<aof, frame, clock, cmd, calls>>
          /\ pc' = [pc EXCEPT ![c] = p]
          /\ pc[c] = "engine"
    BY <1>2 DEF engine_step, Engine!Perform, Engine!Refuse, Goto
  <2>2. DOMAIN resp' = Clients
    BY <1>2 DEF engine_step, Engine!Perform, Engine!Refuse, Engine!Finish, Shape
  <2>3. Shape'
    BY <2>1, <2>2 DEF Shape, Steps, Idle
  <2>4. InHand'
    BY <2>1 DEF InHand, Idle, Shape, Id
  <2>5. NotYet'
    BY <2>1, ZenonT(30) DEF NotYet, Past, Shape
  <2> QED
    BY <2>1, <2>3, <2>4, <2>5 DEF ClientOrder
<1>3. CASE serialize(c)
  <2>1. /\ UNCHANGED <<aof, clock, cmd, calls, resp>> /\ pc[c] = "log"
        /\ pc' = [pc EXCEPT ![c] = IF Logged(cmd[c], resp[c]) THEN "append" ELSE "reply"]
        /\ frame' = IF Logged(cmd[c], resp[c])
                    THEN [frame EXCEPT ![c] = Frame(Serialize(cmd[c], clock), Id(c), TRUE)]
                    ELSE frame
    BY <1>3 DEF serialize, Goto, engineVars
  <2>2. Frame(Serialize(cmd[c], clock), Id(c), TRUE) \in FileFrames
    <3>0. cmd[c] \in Requests /\ clock \in Nat
      BY <2>1 DEF Shape, InHand, Idle
    <3>1. Serialize(cmd[c], clock) \in FileCmds
      <4>1. Serialize(cmd[c], clock) \in {Serialize(cmd[c], t) : t \in Nat}
        BY <3>0
      <4> QED
        BY <3>0, <4>1 DEF FileCmds
    <3>2. Id(c) \in Tags
      BY DEF Shape, Id, Tags
    <3> QED
      BY <3>1, <3>2 DEF Frame, FileFrames
  <2>3. /\ Frame(Serialize(cmd[c], clock), Id(c), TRUE).id = Id(c)
        /\ Frame(Serialize(cmd[c], clock), Id(c), TRUE).whole
    BY DEF Frame
  <2>4. Shape'
    BY <2>1, <2>2 DEF Shape, Steps, Idle
  <2>5. InHand'
    BY <2>1, <2>2, <2>3 DEF InHand, Idle, Shape, Id
  <2>6. NotYet'
    BY <2>1, ZenonT(30) DEF NotYet, Past, Shape
  <2> QED
    BY <2>1, <2>4, <2>5, <2>6 DEF ClientOrder
<1>4. CASE reply(c)
  <2>1. PICK p \in {"read", "gone"} :
          /\ UNCHANGED <<aof, clock, calls, resp>>
          /\ pc' = [pc EXCEPT ![c] = p]
          /\ cmd' = [cmd EXCEPT ![c] = NoRequest]
          /\ frame' = [frame EXCEPT ![c] = NoFrame]
    BY <1>4 DEF reply, Goto, engineVars
  <2>2. Shape'
    BY <2>1 DEF Shape, Steps, Idle
  <2>3. InHand'
    BY <2>1 DEF InHand, Idle, Shape, Id
  <2>4. NotYet'
    BY <2>1 DEF NotYet, Past, Shape
  <2> QED
    BY <2>1, <2>2, <2>3, <2>4 DEF ClientOrder
<1> QED
  BY <1>1, <1>2, <1>3, <1>4

(* AOFLogger::log appends the thread's frame and nothing else; a closed    *)
(* log stays as it is.                                                     *)
LEMMA LogFile ==
  ASSUME FileInv, NEW c \in Clients, log(c)
  PROVE  FileInv'
<1> USE DEF FileInv
<1>1. /\ UNCHANGED <<clock, cmd, calls, resp, frame>> /\ pc[c] = "append"
      /\ pc' = [pc EXCEPT ![c] = "reply"]
      /\ aof' = IF state = "closing" THEN aof ELSE Append(aof, frame[c])
  BY DEF log, Goto, engineVars
<1>a. CASE state = "closing"
  <2>1. Shape'
    BY <1>1, <1>a DEF Shape, Steps, Idle
  <2>2. InHand'
    BY <1>1 DEF InHand, Idle, Shape, Id
  <2>3. NotYet'
    BY <1>1, <1>a DEF NotYet, Past, Shape
  <2> QED
    BY <1>1, <1>a, <2>1, <2>2, <2>3 DEF ClientOrder
<1> SUFFICES ASSUME state # "closing" PROVE FileInv'
  BY <1>a
<1>2. frame[c] \in FileFrames /\ frame[c].id = Id(c)
  BY <1>1 DEF InHand, Idle
<1>3. /\ aof' \in Seq(FileFrames)
      /\ DOMAIN aof' = 1 .. Len(aof) + 1
      /\ \A n \in DOMAIN aof : aof'[n] = aof[n]
      /\ aof'[Len(aof) + 1] = frame[c]
      /\ Ordered(aof')
  <2>1. /\ Append(aof, frame[c]) \in Seq(FileFrames)
        /\ DOMAIN Append(aof, frame[c]) = 1 .. Len(aof) + 1
        /\ \A n \in DOMAIN aof : Append(aof, frame[c])[n] = aof[n]
        /\ Append(aof, frame[c])[Len(aof) + 1] = frame[c]
        /\ Ordered(Append(aof, frame[c]))
    BY <1>1, <1>2, AppendKeeps
  <2>2. aof' = Append(aof, frame[c])
    BY <1>1
  <2> QED
    BY <2>1, <2>2
<1>4. Shape'
  BY <1>1, <1>3 DEF Shape, Steps, Idle
<1>5. InHand'
  BY <1>1 DEF InHand, Idle, Shape, Id
<1>6. NotYet'
  <2> SUFFICES ASSUME NEW n \in DOMAIN aof', NEW d \in Clients
               PROVE  Past(aof[n], d)'
    BY DEF NotYet
  <2>1. CASE n \in DOMAIN aof
    BY <1>1, <1>3, <2>1 DEF NotYet, Past, Shape
  <2>2. CASE n = Len(aof) + 1
    BY <1>1, <1>2, <1>3, <2>2, SMT DEF Past, Shape, Id
  <2> QED
    BY <1>3, <2>1, <2>2, SMT DEF Shape
<1> QED
  BY <1>3, <1>4, <1>5, <1>6 DEF Ordered, ClientOrder

(* A crash leaves a file in order, whether it is cut or not; when the      *)
(* power stays on it keeps every whole frame.  An exit leaves all of it.   *)
LEMMA EndFile ==
  ASSUME FileInv, Crash \/ exit
  PROVE  /\ FileInv'
         /\ "power" \notin Failures =>
              \A n \in DOMAIN aof : n \in DOMAIN aof' /\ aof'[n] = aof[n]
<1> USE DEF FileInv
<1>1. /\ UNCHANGED <<clock, calls>>
      /\ pc' = [c \in Clients |-> "new"]
      /\ cmd' = [c \in Clients |-> NoRequest]
      /\ frame' = [c \in Clients |-> NoFrame]
      /\ DOMAIN resp' = Clients
  BY DEF Crash, exit, Ends, Restart
<1>2. PICK how \in Failures \cup {"kill"} : aof' \in FileAfter(how)
  BY DEF Crash, exit, FileAfter
<1>3. /\ aof \in Seq(FileFrames) /\ Len(aof) \in Nat /\ DOMAIN aof = 1 .. Len(aof)
      /\ Ordered(aof)
  BY SMT DEF Shape, Ordered, ClientOrder
<1> DEFINE Fine == /\ aof' \in Seq(FileFrames)
                   /\ Ordered(aof')
                   /\ \A n \in DOMAIN aof' : \A c \in Clients :
                        aof'[n].id[1] = c => aof'[n].id[2] <= calls[c]
           Grown == \A n \in DOMAIN aof : n \in DOMAIN aof' /\ aof'[n] = aof[n]
<1>4. ASSUME how = "kill" PROVE Fine /\ Grown
  <2>1. aof' = aof
    BY <1>2, <1>4 DEF FileAfter
  <2>2. Fine /\ Grown
    BY <1>3, <2>1 DEF NotYet, Past
  <2> QED
    BY <2>2
<1>5. ASSUME how = "torn" PROVE Fine /\ Grown
  <2>1. PICK c \in Clients : /\ pc[c] = "append"
                             /\ aof' = Append(aof, Torn(frame[c]))
    BY <1>2, <1>5 DEF FileAfter, Writing
  <2> DEFINE f == Torn(frame[c])
  <2>2. frame[c] \in FileFrames /\ frame[c].id = Id(c)
    BY <2>1 DEF InHand, Idle
  <2>3. f \in FileFrames /\ f.id = Id(c)
    BY <2>2 DEF FileFrames, Torn
  <2> HIDE DEF f
  <2>4. aof' = Append(aof, f)
    BY <2>1 DEF f
  <2>5. /\ Append(aof, f) \in Seq(FileFrames)
        /\ DOMAIN Append(aof, f) = 1 .. Len(aof) + 1
        /\ \A n \in DOMAIN aof : n \in DOMAIN Append(aof, f) /\ Append(aof, f)[n] = aof[n]
        /\ Append(aof, f)[Len(aof) + 1] = f
        /\ Ordered(Append(aof, f))
    BY <2>1, <2>3, AppendKeeps
  <2>6. /\ aof' \in Seq(FileFrames) /\ Ordered(aof') /\ Grown
        /\ DOMAIN aof' = 1 .. Len(aof) + 1 /\ aof'[Len(aof) + 1] = f
    BY <2>4, <2>5
  <2>7. ASSUME NEW n \in DOMAIN aof', NEW d \in Clients, aof'[n].id[1] = d
        PROVE  aof'[n].id[2] <= calls[d]
    <3>1. CASE n \in DOMAIN aof
      BY <2>6, <2>7, <3>1 DEF NotYet, Past
    <3>2. CASE n = Len(aof) + 1
      BY <2>3, <2>6, <2>7, <3>2, SMT DEF Id, Shape
    <3> QED
      BY <1>3, <2>6, <3>1, <3>2, SMT
  <2>8. Fine /\ Grown
    BY <2>6, <2>7
  <2> QED
    BY <2>8
<1>6. ASSUME how = "power" PROVE Fine
  <2>1. PICK n \in 0 .. Len(aof) :
          \/ aof' = SubSeq(aof, 1, n)
          \/ n \in 1 .. Len(aof) /\ aof' = Append(SubSeq(aof, 1, n - 1), Torn(aof[n]))
    <3>1. \A n \in 1 .. Len(aof) : n \in 0 .. Len(aof)
      BY <1>3, SMT
    <3> QED
      BY <1>2, <1>6, <3>1 DEF FileAfter
  <2>2. /\ aof' \in Seq(FileFrames) /\ DOMAIN aof' = 1 .. n
        /\ \A m \in 1 .. n : m \in DOMAIN aof /\ aof'[m].id = aof[m].id
    <3>1. CASE aof' = SubSeq(aof, 1, n)
      BY <1>3, <3>1, SMT
    <3>2. CASE n \in 1 .. Len(aof) /\ aof' = Append(SubSeq(aof, 1, n - 1), Torn(aof[n]))
      <4>1. PICK f : f = Torn(aof[n])
        OBVIOUS
      <4>a. aof[n] \in FileFrames
        BY <1>3, <3>2, SMT
      <4>2. f \in FileFrames /\ f.id = aof[n].id
        BY <4>1, <4>a DEF Torn, FileFrames
      <4>3. /\ SubSeq(aof, 1, n - 1) \in Seq(FileFrames) /\ Len(SubSeq(aof, 1, n - 1)) = n - 1
            /\ \A m \in 1 .. n - 1 : SubSeq(aof, 1, n - 1)[m] = aof[m]
        BY <1>3, <3>2, SMT
      <4>4. PICK old : old = SubSeq(aof, 1, n - 1)
        OBVIOUS
      <4>5. /\ Append(old, f) \in Seq(FileFrames) /\ DOMAIN Append(old, f) = 1 .. n
            /\ Append(old, f)[n] = f /\ \A m \in 1 .. n - 1 : Append(old, f)[m] = aof[m]
        BY <3>2, <4>2, <4>3, <4>4, SMT
      <4>6. \A m \in 1 .. n : m \in DOMAIN aof /\ (m \in 1 .. n - 1 \/ m = n)
        BY <1>3, <3>2, SMT
      <4> QED
        BY <3>2, <4>1, <4>2, <4>4, <4>5, <4>6
    <3> QED
      BY <2>1, <3>1, <3>2
  <2>3. Ordered(aof')
    BY <1>3, <2>2 DEF Ordered
  <2>4. Fine
    BY <2>2, <2>3 DEF NotYet, Past
  <2> QED
    BY <2>4
<1>7. Fine /\ (how # "power" => Grown)
  <2>1. how # "stop"
    BY <1>2 DEF FileAfter
  <2> QED
    BY <1>4, <1>5, <1>6, <2>1, ServerAssumption
<1>8. Shape'
  BY <1>1, <1>7 DEF Shape, Steps, Idle
<1>9. InHand' /\ NotYet' /\ ClientOrder'
  BY <1>1, <1>7 DEF InHand, Idle, NotYet, Past, Ordered, ClientOrder
<1> QED
  BY <1>2, <1>7, <1>8, <1>9

(* The accept loop gives a connection its thread, which has no request yet. *)
LEMMA AcceptFile ==
  ASSUME FileInv, NEW c \in Clients, accept(c) \/ spawn(c)
  PROVE  /\ FileInv'
         /\ state # "closing" /\ UNCHANGED <<cmd, frame, aof, calls, resp, promised>>
         /\ \A d \in Clients : pc'[d] = "reply" => pc[d] = "reply"
<1> USE DEF FileInv
<1>1. PICK p \in {"accepted", "read"} :
        /\ UNCHANGED <<cmd, frame, aof, calls, clock, resp, promised>> /\ state # "closing"
        /\ pc' = [pc EXCEPT ![c] = p]
  BY DEF accept, spawn, MainFrame, Goto, engineVars
<1>2. Shape'
  BY <1>1 DEF Shape, Steps, Idle
<1>3. InHand'
  BY <1>1 DEF InHand, Idle, Shape, Id
<1>4. NotYet'
  BY <1>1 DEF NotYet, Past, Shape
<1>5. \A d \in Clients : pc'[d] = "reply" => pc[d] = "reply"
  BY <1>1 DEF Shape
<1> QED
  BY <1>1, <1>2, <1>3, <1>4, <1>5 DEF ClientOrder

(* The steps that touch neither a thread nor the file.                     *)
LEMMA QuietFile ==
  ASSUME FileInv,
         Lose \/ ConfigSet \/ Tick \/ load \/ load_astray \/ serve \/ listen \/ stop \/ close \/ UNCHANGED vars
  PROVE  /\ FileInv'
         /\ state = "closing" => state' = "closing"
         /\ UNCHANGED <<pc, cmd, frame, aof, calls, resp, promised>>
<1>1. UNCHANGED <<pc, cmd, frame, aof, calls, resp, promised>>
  BY DEF Lose, ConfigSet, Tick, load, load_astray, serve, listen, stop, close, vars, engineVars,
         ReplayFrame, MainFrame, ServerFrame,
         Engine!Drop, Engine!Limit, Engine!Tick
<1>2. clock' \in Nat
  BY SMT DEF FileInv, Shape, Lose, ConfigSet, Tick, load, load_astray, serve, listen, stop, close, vars, engineVars,
         ReplayFrame, MainFrame,
         Engine!Drop, Engine!Limit, Engine!Tick
<1>0. state = "closing" => state' = "closing"
  BY DEF Lose, ConfigSet, Tick, load, load_astray, serve, listen, stop, close, vars, ServerFrame
<1>3. Shape'
  BY <1>1, <1>2 DEF FileInv, Shape
<1> QED
  BY <1>0, <1>1, <1>3 DEF FileInv, InHand, NotYet, Past, Id, ClientOrder

(* Every step keeps the file in order.                                     *)
LEMMA NextFile == FileInv /\ [Next]_vars => FileInv'
BY ThreadFile, LogFile, EndFile, AcceptFile, QuietFile DEF Next, Thread

(* Whatever the threads do and however the process dies, the file holds    *)
(* the commands of each connection in the order they were sent, each once. *)
THEOREM FileInOrder == Spec => []ClientOrder
<1>1. Init => FileInv
  BY InitFile
<1>2. FileInv => ClientOrder
  BY DEF FileInv
<1> QED
  BY <1>1, <1>2, NextFile, PTL DEF Spec

-----------------------------------------------------------------------------
(* A longer file still holds what it held.                                 *)
LEMMA GrownKeeps ==
  ASSUME NEW old, NEW new, \A n \in DOMAIN old : n \in DOMAIN new /\ new[n] = old[n],
         NEW id, InFile(old, id)
  PROVE  InFile(new, id)
BY DEF InFile

(* Unless the power fails, every step keeps what was promised in the file, *)
(* and what a thread is about to promise.                                  *)
LEMMA NextAck ==
  ASSUME "power" \notin Failures, FileInv, AckInv, [Next]_vars
  PROVE  AckInv'
<1> USE DEF FileInv
<1>1. ASSUME NEW c \in Clients, NEW r \in Requests, read_request(c, r)
      PROVE  AckInv'
  <2>1. /\ UNCHANGED <<aof, promised, state>>
        /\ pc' = [pc EXCEPT ![c] = "engine"]
        /\ \A d \in Clients \ {c} : cmd'[d] = cmd[d] /\ resp'[d] = resp[d] /\ calls'[d] = calls[d]
    BY <1>1 DEF read_request, Engine!Invoke, Goto, Shape
  <2> QED
    BY <2>1 DEF AckInv, Shape, Id
<1>2. ASSUME NEW c \in Clients, engine_step(c)
      PROVE  AckInv'
  <2>1. /\ UNCHANGED <<aof, promised, state, cmd, calls>>
        /\ pc' = [pc EXCEPT ![c] = IF req'[c] = NoRequest THEN "log" ELSE "engine"]
    BY <1>2 DEF engine_step, Goto
  <2>2. \A d \in Clients \ {c} : resp'[d] = resp[d]
    BY <1>2 DEF engine_step, Engine!Perform, Engine!Refuse, Engine!Finish, Shape
  <2> QED
    BY <2>1, <2>2 DEF AckInv, Shape, Id
<1>3. ASSUME NEW c \in Clients, serialize(c)
      PROVE  AckInv'
  <2>1. /\ UNCHANGED <<aof, promised, state, cmd, calls, resp>>
        /\ pc' = [pc EXCEPT ![c] = IF Logged(cmd[c], resp[c]) THEN "append" ELSE "reply"]
    BY <1>3 DEF serialize, Goto, engineVars
  <2> QED
    BY <2>1 DEF AckInv, Shape, Id
<1>4. ASSUME NEW c \in Clients, log(c)
      PROVE  AckInv'
  <2>1. /\ UNCHANGED <<promised, state, cmd, calls, resp>> /\ pc[c] = "append"
        /\ pc' = [pc EXCEPT ![c] = "reply"]
        /\ aof' = IF state = "closing" THEN aof ELSE Append(aof, frame[c])
    BY <1>4 DEF log, Goto, engineVars
  <2>a. CASE state = "closing"
    BY <2>1, <2>a DEF AckInv
  <2> SUFFICES ASSUME state # "closing" PROVE AckInv'
    BY <2>a
  <2>b. aof' = Append(aof, frame[c])
    BY <2>1
  <2>2. frame[c] \in FileFrames /\ frame[c].id = Id(c) /\ frame[c].whole
    BY <2>1 DEF InHand, Idle
  <2>3. /\ DOMAIN Append(aof, frame[c]) = 1 .. Len(aof) + 1
        /\ \A n \in DOMAIN aof : /\ n \in DOMAIN Append(aof, frame[c])
                                 /\ Append(aof, frame[c])[n] = aof[n]
        /\ Append(aof, frame[c])[Len(aof) + 1] = frame[c]
    BY <2>1, <2>2, AppendKeeps
  <2>4. /\ DOMAIN aof' = 1 .. Len(aof) + 1 /\ aof'[Len(aof) + 1] = frame[c]
        /\ \A n \in DOMAIN aof : n \in DOMAIN aof' /\ aof'[n] = aof[n]
    BY <2>b, <2>3
  <2>5. InFile(aof', Id(c))
    <3>1. Len(aof) + 1 \in DOMAIN aof'
      BY <2>4, SMT DEF Shape
    <3> QED
      BY <2>2, <2>4, <3>1 DEF InFile
  <2>6. \A id : InFile(aof, id) => InFile(aof', id)
    BY <2>4, GrownKeeps
  <2> QED
    BY <2>1, <2>5, <2>6 DEF AckInv, Shape, Id
<1>5. ASSUME NEW c \in Clients, reply(c)
      PROVE  AckInv'
  <2>1. PICK p \in {"read", "gone"} :
          /\ UNCHANGED <<aof, state, calls, resp>> /\ pc[c] = "reply"
          /\ pc' = [pc EXCEPT ![c] = p]
          /\ cmd' = [cmd EXCEPT ![c] = NoRequest]
    BY <1>5 DEF reply, Goto, engineVars
  <2>a. promised' = IF running /\ Logged(cmd[c], resp[c])
                    THEN promised \cup {Id(c)} ELSE promised
    BY <1>5 DEF reply
  <2>2. \A id \in promised' : InFile(aof', id)
    BY <2>1, <2>a DEF AckInv, running
  <2> QED
    BY <2>1, <2>2 DEF AckInv, Shape, Id
<1>6. CASE Crash \/ exit
  <2>1. UNCHANGED promised /\ pc' = [c \in Clients |-> "new"]
    BY <1>6 DEF Crash, exit, Ends, Restart
  <2>2. \A id : InFile(aof, id) => InFile(aof', id)
    BY <1>6, EndFile, GrownKeeps
  <2> QED
    BY <2>1, <2>2 DEF AckInv
<1>7. CASE Lose \/ ConfigSet \/ Tick \/ load \/ load_astray \/ serve \/ listen \/ stop \/ close \/ UNCHANGED vars
  BY <1>7, QuietFile DEF AckInv, Id
<1>8. ASSUME NEW c \in Clients, accept(c) \/ spawn(c)
      PROVE  AckInv'
  BY <1>8, AcceptFile DEF AckInv, Id
<1> QED
  BY <1>1, <1>2, <1>3, <1>4, <1>5, <1>6, <1>7, <1>8 DEF Next, Thread

(* However often the process is killed or stopped, in whatever state of    *)
(* whatever thread, a change that a client was told of before the stop is  *)
(* in the file.  Only a power failure may take it, for nothing forces the  *)
(* file to the disk.                                                       *)
THEOREM AnsweredIsLogged ==
  ASSUME "power" \notin Failures
  PROVE  Spec => []AckedLogged
<1>1. Init => FileInv /\ AckInv
  BY InitFile
<1>2. (FileInv /\ AckInv) /\ [Next]_vars => (FileInv /\ AckInv)'
  BY NextFile, NextAck
<1>3. FileInv /\ AckInv => AckedLogged
  BY DEF AckInv, AckedLogged, IsLogged, InFile
<1> QED
  BY <1>1, <1>2, <1>3, PTL DEF Spec

-----------------------------------------------------------------------------
(* Types.  TypeOK says nothing of the engine's view of a request, which    *)
(* decides what the engine stores.                                         *)
Asked(c) ==
  /\ req[c] # NoRequest => IsRequest(req[c])
  /\ pc[c] \notin Idle => cmd[c] \in Requests /\ calls[c] >= 1

Phases == {"loading", "busy", "serving", "stuck", "stopping", "closing"}
TypeInv ==
  /\ TypeOK
  /\ DOMAIN req = Clients
  /\ at \in [Clients -> 0 .. MaxTime]
  /\ \A c \in Clients : Asked(c)

(* dispatch: what is serialized is a well-formed frame, its deadline       *)
(* absolute.                                                               *)
LEMMA FrameType ==
  ASSUME TypeInv, NEW c \in Clients, pc[c] = "log"
  PROVE  /\ IsFrame(Frame(Serialize(cmd[c], clock), Id(c), TRUE))
         /\ Frame(Serialize(cmd[c], clock), Id(c), TRUE).whole
<1>0. /\ cmd[c] \in Requests /\ calls[c] >= 1
  BY DEF TypeInv, Asked, Idle
<1>1. /\ cmd[c] \in Requests /\ calls[c] \in 1 .. MaxCalls /\ clock \in Nat
  BY <1>0, ServerAssumption, SMT DEF TypeInv, TypeOK
<1>2. PICK r : r = cmd[c] /\ IsRequest(r)
  BY <1>1, ServerAssumption
<1>3. PICK s : s = Serialize(r, clock)
  OBVIOUS
<1>4. IsRequest(s) /\ s.cmd # "PEXPIRE"
  <2>1. CASE r.cmd = "PEXPIRE"
    <3>1. Deadline(clock, r.arg) \in Time
      BY <1>1, <1>2, <2>1, KVAssumption, SMT DEF IsRequest, Deadline, Time
    <3>2. s = [cmd |-> "PEXPIREAT", keys |-> r.keys, arg |-> Deadline(clock, r.arg)]
      BY <1>3, <2>1 DEF Serialize
    <3>3. r.keys \in Seq(Keys) \ {<<>>} /\ Len(r.keys) = 1
      BY <1>2, <2>1 DEF IsRequest
    <3>4. Deadline(clock, r.arg) \in Int
      BY <3>1, SMT DEF Time
    <3> QED
      BY <3>1, <3>2, <3>3, <3>4 DEF IsRequest, Cmds
  <2>2. CASE r.cmd # "PEXPIRE"
    BY <1>2, <1>3, <2>2 DEF Serialize
  <2> QED
    BY <2>1, <2>2
<1>5. Id(c) \in Ids
  BY <1>1 DEF Id, Ids
<1>6. s \in [cmd : Cmds, keys : Seq(Keys), arg : Values \cup Int]
  BY <1>4 DEF IsRequest
<1>7. PICK f : f = Frame(s, Id(c), TRUE)
  OBVIOUS
<1>8. f \in Frames /\ f.req = s /\ f.whole
  BY <1>5, <1>6, <1>7 DEF Frame, Frames
<1> QED
  BY <1>2, <1>3, <1>4, <1>7, <1>8 DEF IsFrame

(* The engine's copies of the operators of KVOps are those operators.      *)
LEMMA EngineOps ==
  ASSUME NEW r, NEW e, NEW t, NEW n
  PROVE  /\ Engine!After(r, e, t) = After(r, e, t)
         /\ Engine!Result(r, e, t, n) = Result(r, e, t, n)
         /\ Engine!Expired(e, t) = Expired(e, t)
         /\ Engine!Rest(r) = Rest(r)
         /\ Engine!NoReply = NoReply
         /\ Engine!UpdateCmds = UpdateCmds
<1>1. \A x : Engine!Expired(x, t) = Expired(x, t)
  BY DEF Expired, Engine!Expired
<1>2. Engine!Look(e, t) = Look(e, t)
  BY <1>1 DEF Look, Engine!Look
<1>3. \A x, y : Engine!Bump(x, y) = Bump(x, y) /\ Engine!Answer(x, y) = Answer(x, y)
                /\ Engine!Deadline(x, y) = Deadline(x, y) /\ Engine!Remaining(x, y) = Remaining(x, y)
  BY DEF Bump, Engine!Bump, Answer, Engine!Answer, Deadline, Engine!Deadline, Remaining, Engine!Remaining
<1>4. Engine!Ints = Ints /\ Engine!ReadCmds = ReadCmds /\ Engine!UpdateCmds = UpdateCmds
  BY DEF Ints, Engine!Ints, ReadCmds, Engine!ReadCmds, UpdateCmds, Engine!UpdateCmds
<1>5. Engine!After(r, e, t) = After(r, e, t)
  BY ZenonT(60) DEF After, Engine!After, Look, Engine!Look, Expired, Engine!Expired, Bump, Engine!Bump, Deadline,
               Engine!Deadline, Ints, Engine!Ints, ReadCmds, Engine!ReadCmds
<1>6. Engine!Result(r, e, t, n) = Result(r, e, t, n)
  BY <1>2, <1>3, <1>4 DEF Result, Engine!Result
<1> QED
  BY <1>1, <1>3, <1>4, <1>5, <1>6 DEF Rest, Engine!Rest, NoReply, Engine!NoReply

(* The engine's part of a thread's step: the dictionary keeps its type,    *)
(* and what is left of a request is a request.                             *)
LEMMA EngineType ==
  ASSUME TypeInv, NEW c \in Clients, Engine!Perform(c) \/ Engine!Refuse(c)
  PROVE  /\ map' \in Store
         /\ DOMAIN req' = Clients
         /\ at' \in [Clients -> 0 .. MaxTime]
         /\ \A d \in Clients : req'[d] # NoRequest => IsRequest(req'[d])
         /\ UNCHANGED <<clock, limited>>
<1>1. /\ map \in Store /\ DOMAIN req = Clients /\ at \in [Clients -> 0 .. MaxTime]
      /\ \A d \in Clients : req[d] # NoRequest => IsRequest(req[d])
      /\ MaxTime \in Nat
  BY ServerAssumption, SMT DEF TypeInv, TypeOK, Asked
<1>2. PICK r : r = req[c] /\ IsRequest(r)
  BY <1>1 DEF Engine!Perform, Engine!Refuse
<1>3. PICK k \in Keys : k = Head(r.keys)
  BY <1>2, RequestFacts
<1>4. UNCHANGED <<clock, limited>>
  BY DEF Engine!Perform, Engine!Refuse
<1>5. at' \in [Clients -> 0 .. MaxTime] /\ DOMAIN req' = Clients
  BY <1>1, SMTT(30) DEF Engine!Perform, Engine!Refuse, Engine!Finish
<1>6. map' \in Store
  <2>1. map[k] \in Entry \cup {NoEntry} /\ at[c] \in Nat
    BY <1>1, SMT DEF Store
  <2>2. PICK e : e = After(r, map[k], at[c])
    OBVIOUS
  <2>3. e \in Entry \cup {NoEntry}
    BY <1>2, <2>1, <2>2, AfterType, RequestFacts
  <2>4. map' \in {map, [map EXCEPT ![k] = e], [map EXCEPT ![k] = NoEntry]}
    BY <1>2, <1>3, <2>2, EngineOps, SMT DEF Engine!Perform, Engine!Refuse
  <2> QED
    BY <1>1, <2>3, <2>4 DEF Store
<1>7. Len(r.keys) > 1 => IsRequest(Rest(r))
  BY <1>2, TailRequest
<1>8. req' \in {[req EXCEPT ![c] = NoRequest], [req EXCEPT ![c] = Rest(r)]}
      /\ (req' # [req EXCEPT ![c] = NoRequest] => Len(r.keys) > 1)
  BY <1>2, EngineOps DEF Engine!Perform, Engine!Refuse, Engine!Finish
<1>9. \A d \in Clients : req'[d] # NoRequest => IsRequest(req'[d])
  BY <1>1, <1>7, <1>8
<1> QED
  BY <1>4, <1>5, <1>6, <1>9

(* The first process starts in type, on an empty file.                     *)
LEMMA InitTypes == Init => TypeInv
<1> SUFFICES ASSUME Init PROVE TypeInv
  OBVIOUS
<1>1. /\ 1 \in 1 .. MaxTime /\ 0 \in 0 .. MaxTime /\ 0 \in 0 .. MaxCalls /\ 0 \in 0 .. MaxCrashes
      /\ 0 \in 0 .. FrameSize - 1
  BY ServerAssumption, KVAssumption, SMT
<1>2. aof = <<>> /\ DOMAIN aof = {} /\ aof \in Seq(Frames) /\ Len(aof) = 0
  BY SMT DEF Init
<1>3. map \in Store /\ before \in Store
  BY DEF Init, Engine!Init, Store
<1>4. /\ clock = 1 /\ limited = FALSE
      /\ req = [c \in Clients |-> NoRequest] /\ at = [c \in Clients |-> 0]
  BY DEF Init, Engine!Init
<1>a. /\ state = "loading" /\ pos = 0 /\ off = 0 /\ pc = [c \in Clients |-> "new"]
      /\ cmd = [c \in Clients |-> NoRequest] /\ frame = [c \in Clients |-> NoFrame]
      /\ calls = [c \in Clients |-> 0] /\ crashes = 0
      /\ promised = {} /\ late = {} /\ unlogged = {}
  BY DEF Init
<1>b. pos \in 0 .. Len(aof) /\ off \in 0 .. FrameSize - 1
  BY <1>1, <1>2, <1>a, SMT
<1>5. TypeOK
  <2>1. /\ clock \in 1 .. MaxTime /\ limited \in BOOLEAN
        /\ state \in Phases
        /\ \A n \in DOMAIN aof : IsFrame(aof[n])
        /\ crashes \in 0 .. MaxCrashes
        /\ promised \subseteq Ids /\ late \subseteq Ids /\ unlogged \subseteq Keys
    BY <1>1, <1>2, <1>4, <1>a DEF Phases
  <2>2. /\ pc \in [Clients -> Steps]
        /\ cmd \in [Clients -> Requests \cup {NoRequest}]
        /\ frame \in [Clients -> Frames \cup {NoFrame}]
        /\ calls \in [Clients -> 0 .. MaxCalls]
        /\ \A c \in Clients : pc[c] # "append"
    BY <1>1, <1>a DEF Steps, Idle
  <2> QED
    BY <1>2, <1>3, <1>b, <2>1, <2>2 DEF TypeOK, Phases, Steps, Idle
<1>6. \A c \in Clients : Asked(c)
  BY <1>4 DEF Init, Asked, Idle
<1> QED
  BY <1>1, <1>4, <1>5, <1>6 DEF TypeInv

(* A thread's step, the append apart: the engine's answer has no effect on *)
(* the file.                                                               *)
LEMMA ThreadTypes ==
  ASSUME TypeInv, NEW c \in Clients,
         (\E r \in Requests : read_request(c, r)) \/ engine_step(c) \/ serialize(c) \/ reply(c)
  PROVE  TypeInv'
<1>0. /\ TypeOK /\ DOMAIN req = Clients /\ at \in [Clients -> 0 .. MaxTime]
      /\ \A d \in Clients : Asked(d)
  BY DEF TypeInv
<1>1. ASSUME NEW r \in Requests, read_request(c, r)
      PROVE  TypeInv'
  <2>1. /\ UNCHANGED <<map, clock, limited, state, pos, off, frame, aof, crashes, promised, late,
                       before, unlogged>>
        /\ pc' = [pc EXCEPT ![c] = "engine"]
        /\ cmd' = [cmd EXCEPT ![c] = r]
        /\ calls' = [calls EXCEPT ![c] = @ + 1]
        /\ req' = [req EXCEPT ![c] = r]
        /\ at' = [at EXCEPT ![c] = clock]
        /\ calls[c] < MaxCalls
    BY <1>1 DEF read_request, Engine!Invoke, Goto
  <2>2. /\ calls' \in [Clients -> 0 .. MaxCalls] /\ calls'[c] >= 1
        /\ at' \in [Clients -> 0 .. MaxTime]
    BY <1>0, <2>1, ServerAssumption, SMT DEF TypeOK
  <2>3. TypeOK'
    BY <1>0, <2>1, <2>2 DEF TypeOK
  <2>4. \A d \in Clients : Asked(d)'
    <3> SUFFICES ASSUME NEW d \in Clients PROVE Asked(d)'
      OBVIOUS
    <3>1. CASE d = c
      <4>1. req'[c] = r /\ cmd'[c] = r /\ IsRequest(r)
        BY <1>0, <2>1, ServerAssumption DEF TypeOK
      <4> QED
        BY <2>2, <3>1, <4>1 DEF Asked, Idle
    <3>2. CASE d # c
      <4>1. /\ req'[d] = req[d] /\ pc'[d] = pc[d] /\ cmd'[d] = cmd[d] /\ calls'[d] = calls[d]
        BY <1>0, <2>1, <3>2 DEF TypeOK
      <4> QED
        BY <1>0, <4>1 DEF Asked, Idle
    <3> QED
      BY <3>1, <3>2
  <2> QED
    BY <1>0, <2>1, <2>2, <2>3, <2>4 DEF TypeInv
<1>2. CASE engine_step(c)
  <2>1. PICK p \in {"engine", "log"} :
          /\ UNCHANGED <<state, pos, off, cmd, frame, aof, calls, crashes, promised, late, before, unlogged>>
          /\ pc' = [pc EXCEPT ![c] = p]
          /\ pc[c] = "engine"
    BY <1>2 DEF engine_step, Goto
  <2>2. /\ map' \in Store /\ DOMAIN req' = Clients /\ at' \in [Clients -> 0 .. MaxTime]
        /\ \A d \in Clients : req'[d] # NoRequest => IsRequest(req'[d])
        /\ UNCHANGED <<clock, limited>>
    BY <1>2, EngineType DEF engine_step
  <2>3. TypeOK'
    BY <1>0, <2>1, <2>2 DEF TypeOK
  <2>4. \A d \in Clients : Asked(d)'
    BY <1>0, <2>1, <2>2 DEF Asked, Idle, TypeOK
  <2> QED
    BY <2>2, <2>3, <2>4 DEF TypeInv
<1>3. CASE serialize(c)
  <2>1. PICK f : f = Frame(Serialize(cmd[c], clock), Id(c), TRUE)
    OBVIOUS
  <2>2. PICK p \in {"append", "reply"} :
          /\ UNCHANGED <<engineVars, state, pos, off, cmd, aof, calls, crashes, promised, late, before, unlogged>>
          /\ pc[c] = "log"
          /\ pc' = [pc EXCEPT ![c] = p]
          /\ frame' = IF p = "append" THEN [frame EXCEPT ![c] = f] ELSE frame
    BY <1>3, <2>1 DEF serialize, Goto
  <2>3. f \in Frames /\ IsFrame(f) /\ f.whole
    BY <2>1, <2>2, FrameType DEF IsFrame
  <2>4. TypeOK'
    BY <1>0, <2>2, <2>3 DEF TypeOK, engineVars
  <2>5. \A d \in Clients : Asked(d)'
    BY <1>0, <2>2 DEF Asked, Idle, TypeOK, engineVars
  <2> QED
    BY <1>0, <2>2, <2>4, <2>5 DEF TypeInv, engineVars
<1>4. CASE reply(c)
  <2>1. PICK p \in {"read", "gone"} :
          /\ UNCHANGED <<engineVars, state, pos, off, aof, calls, crashes, before, unlogged>>
          /\ pc[c] = "reply"
          /\ pc' = [pc EXCEPT ![c] = p]
          /\ cmd' = [cmd EXCEPT ![c] = NoRequest]
          /\ frame' = [frame EXCEPT ![c] = NoFrame]
          /\ promised' \subseteq promised \cup {Id(c)}
          /\ late' \subseteq late \cup {Id(c)}
    BY <1>4 DEF reply, Goto
  <2>a. calls[c] >= 1
    BY <1>0, <2>1 DEF Asked, Idle
  <2>2. Id(c) \in Ids
    BY <1>0, <2>a, SMT DEF Id, Ids, TypeOK
  <2>3. TypeOK'
    BY <1>0, <2>1, <2>2 DEF TypeOK, engineVars
  <2>4. \A d \in Clients : Asked(d)'
    BY <1>0, <2>1 DEF Asked, Idle, TypeOK, engineVars
  <2> QED
    BY <1>0, <2>1, <2>3, <2>4 DEF TypeInv, engineVars
<1> QED
  BY <1>1, <1>2, <1>3, <1>4

(* The keys of a dispatched request are keys.                              *)
LEMMA DispatchedKeys ==
  ASSUME TypeInv, NEW c \in Clients, pc[c] \notin Idle
  PROVE  KeysOf(cmd[c]) \subseteq Keys
<1>1. cmd[c] \in Requests
  BY DEF TypeInv, Asked, Idle
<1>2. IsRequest(cmd[c])
  BY <1>1, ServerAssumption
<1>3. cmd[c].keys \in Seq(Keys)
  BY <1>2, RequestFacts
<1> QED
  BY <1>3, SMT DEF KeysOf

(* AOFLogger::log appends a well-formed frame.                             *)
LEMMA LogTypes ==
  ASSUME TypeInv, NEW c \in Clients, log(c)
  PROVE  TypeInv'
<1>0. /\ TypeOK /\ DOMAIN req = Clients /\ at \in [Clients -> 0 .. MaxTime]
      /\ \A d \in Clients : Asked(d)
  BY DEF TypeInv
<1>1. /\ UNCHANGED <<engineVars, state, pos, off, cmd, frame, calls, crashes, promised, late, before>>
      /\ pc[c] = "append"
      /\ pc' = [pc EXCEPT ![c] = "reply"]
      /\ aof' \in {aof, Append(aof, frame[c])}
      /\ unlogged' \in {unlogged, unlogged \cup KeysOf(cmd[c])}
  BY DEF log, Goto
<1>2. IsFrame(frame[c]) /\ frame[c] \in Frames
  BY <1>0, <1>1 DEF TypeOK, IsFrame
<1>3. /\ aof' \in Seq(Frames) /\ \A n \in DOMAIN aof' : IsFrame(aof'[n])
      /\ pos \in 0 .. Len(aof')
  <2>1. /\ aof \in Seq(Frames) /\ \A n \in DOMAIN aof : IsFrame(aof[n])
        /\ pos \in 0 .. Len(aof)
    BY <1>0 DEF TypeOK
  <2>2. CASE aof' = aof
    BY <2>1, <2>2
  <2>3. CASE aof' = Append(aof, frame[c])
    BY <1>2, <2>1, <2>3, SMT
  <2> QED
    BY <1>1, <2>2, <2>3
<1>4. unlogged' \subseteq Keys
  BY <1>0, <1>1, DispatchedKeys DEF TypeOK, Idle
<1>5. TypeOK'
  BY <1>0, <1>1, <1>3, <1>4 DEF TypeOK, engineVars
<1>6. \A d \in Clients : Asked(d)'
  BY <1>0, <1>1 DEF Asked, Idle, TypeOK, engineVars
<1> QED
  BY <1>0, <1>1, <1>5, <1>6 DEF TypeInv, engineVars

(* However the process ends, the file it leaves is made of well-formed     *)
(* frames, the last of them perhaps cut.                                   *)
LEMMA EndTypes ==
  ASSUME TypeInv, Crash \/ exit
  PROVE  TypeInv'
<1>0. /\ TypeOK /\ DOMAIN req = Clients /\ at \in [Clients -> 0 .. MaxTime]
      /\ MaxTime \in Nat /\ MaxCrashes \in Nat
  BY ServerAssumption, SMT DEF TypeInv
<1>1. /\ state' = "loading" /\ pos' = 0 /\ off' = 0 /\ limited' = FALSE
      /\ map' = [k \in Keys |-> NoEntry]
      /\ req' = [c \in Clients |-> NoRequest]
      /\ at' = [c \in Clients |-> 0]
      /\ pc' = [c \in Clients |-> "new"]
      /\ cmd' = [c \in Clients |-> NoRequest]
      /\ frame' = [c \in Clients |-> NoFrame]
      /\ UNCHANGED <<clock, calls, promised, late>>
      /\ before' \in {map, before}
      /\ crashes' \in {crashes, crashes + 1} /\ (crashes' # crashes => crashes < MaxCrashes)
  BY DEF Crash, exit, Ends, Restart
<1>2. unlogged' \subseteq Keys
  <2>1. \A c \in CutOff : KeysOf(cmd[c]) \subseteq Keys
    BY DispatchedKeys DEF CutOff, Idle
  <2> DEFINE cut == UNION {KeysOf(cmd[c]) : c \in CutOff}
  <2>2. cut \subseteq Keys
    BY <2>1
  <2>3. unlogged \subseteq Keys
    BY <1>0 DEF TypeOK
  <2>4. Ends
    BY DEF Crash, exit
  <2>5. CASE state = "loading"
    BY <2>3, <2>4, <2>5 DEF Ends
  <2>6. CASE state # "loading"
    <3>1. unlogged' = cut \cup IF state = "closing" THEN unlogged ELSE {}
      BY <2>4, <2>6 DEF Ends
    <3> HIDE DEF cut
    <3> QED
      BY <2>2, <2>3, <3>1
  <2> QED
    BY <2>5, <2>6
<1>3. aof' \in Seq(Frames) /\ \A n \in DOMAIN aof' : IsFrame(aof'[n])
  <2>1. aof \in Seq(Frames) /\ Len(aof) \in Nat /\ \A n \in DOMAIN aof : IsFrame(aof[n])
    BY <1>0, SMT DEF TypeOK
  <2>2. PICK how \in Failures \cup {"kill"} : aof' \in FileAfter(how)
    BY DEF Crash, exit, FileAfter
  <2>3. CASE how = "kill"
    BY <2>1, <2>2, <2>3 DEF FileAfter
  <2>t. ASSUME NEW f, IsFrame(f) PROVE IsFrame(Torn(f))
    <3>1. f \in Frames /\ IsRequest(f.req) /\ f.req.cmd # "PEXPIRE"
      BY <2>t DEF IsFrame
    <3>2. Torn(f) \in Frames /\ Torn(f).req = f.req
      BY <3>1 DEF Frames, Torn
    <3> QED
      BY <3>1, <3>2 DEF IsFrame
  <2>a. ASSUME NEW file \in Seq(Frames), \A n \in DOMAIN file : IsFrame(file[n]),
               NEW f, IsFrame(f), aof' = Append(file, f)
        PROVE  aof' \in Seq(Frames) /\ \A n \in DOMAIN aof' : IsFrame(aof'[n])
    <3>1. f \in Frames
      BY <2>a DEF IsFrame
    <3> QED
      BY <2>a, <3>1, SMT
  <2>4. CASE how = "torn"
    <3>1. PICK c \in Clients : pc[c] = "append" /\ aof' = Append(aof, Torn(frame[c]))
      BY <2>2, <2>4 DEF FileAfter, Writing
    <3>2. IsFrame(Torn(frame[c]))
      BY <1>0, <2>t, <3>1 DEF TypeOK
    <3> QED
      BY <2>1, <2>a, <3>1, <3>2
  <2>5. CASE how = "power"
    <3>1. \/ \E n \in 0 .. Len(aof) : aof' = SubSeq(aof, 1, n)
          \/ \E n \in 1 .. Len(aof) : aof' = Append(SubSeq(aof, 1, n - 1), Torn(aof[n]))
      BY <2>2, <2>5 DEF FileAfter
    <3>2. CASE \E n \in 0 .. Len(aof) : aof' = SubSeq(aof, 1, n)
      BY <2>1, <3>2, SMT
    <3>3. ASSUME NEW n \in 1 .. Len(aof), aof' = Append(SubSeq(aof, 1, n - 1), Torn(aof[n]))
          PROVE  aof' \in Seq(Frames) /\ \A m \in DOMAIN aof' : IsFrame(aof'[m])
      <4>1. PICK old : old = SubSeq(aof, 1, n - 1)
        OBVIOUS
      <4>2. old \in Seq(Frames) /\ \A m \in DOMAIN old : IsFrame(old[m])
        BY <2>1, <4>1, SMT
      <4>3. IsFrame(aof[n])
        BY <2>1, SMT
      <4>4. aof' = Append(old, Torn(aof[n])) /\ IsFrame(Torn(aof[n]))
        BY <2>t, <3>3, <4>1, <4>3
      <4> QED
        BY <2>a, <4>2, <4>4
    <3> QED
      BY <3>1, <3>2, <3>3
  <2>6. how # "stop"
    BY <2>2 DEF FileAfter
  <2> QED
    BY <2>3, <2>4, <2>5, <2>6, ServerAssumption
<1>4. pos' \in 0 .. Len(aof') /\ off' \in 0 .. FrameSize - 1
  BY <1>1, <1>3, ServerAssumption, SMT
<1>5. crashes' \in 0 .. MaxCrashes
  BY <1>0, <1>1, SMT DEF TypeOK
<1>6. map' \in Store /\ before' \in Store
  BY <1>0, <1>1 DEF Store, TypeOK
<1>7. TypeOK'
  <2>1. /\ clock' \in 1 .. MaxTime /\ limited' \in BOOLEAN
        /\ state' \in Phases
        /\ calls' \in [Clients -> 0 .. MaxCalls]
        /\ promised' \subseteq Ids /\ late' \subseteq Ids
    BY <1>0, <1>1 DEF TypeOK, Phases
  <2>2. /\ pc' \in [Clients -> Steps]
        /\ cmd' \in [Clients -> Requests \cup {NoRequest}]
        /\ frame' \in [Clients -> Frames \cup {NoFrame}]
        /\ \A c \in Clients : pc'[c] # "append"
    BY <1>1 DEF Steps, Idle
  <2> QED
    BY <1>2, <1>3, <1>4, <1>5, <1>6, <2>1, <2>2 DEF TypeOK, Phases, Steps, Idle
<1>8. \A c \in Clients : Asked(c)'
  BY <1>1 DEF Asked, Idle
<1> QED
  BY <1>0, <1>1, <1>7, <1>8, SMT DEF TypeInv

(* The replay of a request leaves the dictionary in type.                  *)
LEMMA ReplayType ==
  ASSUME map \in Store, NEW r, Executable(r), NEW t \in Nat
  PROVE  Replay(r, t) \in Store
<1>1. \A k \in Keys : After(r, map[k], t) \in Entry \cup {NoEntry}
  BY AfterType DEF Store
<1> QED
  BY <1>1 DEF Replay, Store

(* The frames the replay has not reached are well formed.                  *)
LEMMA FramesAhead ==
  ASSUME TypeInv, NEW n \in pos + 1 .. Len(aof)
  PROVE  Executable(aof[n].req)
<1>1. /\ aof \in Seq(Frames) /\ \A m \in DOMAIN aof : IsFrame(aof[m])
      /\ pos \in 0 .. Len(aof)
  BY DEF TypeInv, TypeOK
<1>2. n \in DOMAIN aof
  BY <1>1, SMT
<1> QED
  BY <1>1, <1>2, RequestFacts DEF IsFrame

(* Server::start replays well-formed frames and, behind a cut frame,       *)
(* commands the parser finds; it never passes the end of the file.         *)
LEMMA LoadTypes ==
  ASSUME TypeInv, load \/ load_astray
  PROVE  TypeInv'
<1>0. /\ TypeOK /\ DOMAIN req = Clients /\ at \in [Clients -> 0 .. MaxTime]
      /\ \A d \in Clients : Asked(d)
  BY DEF TypeInv
<1>1. /\ pos \in 0 .. Len(aof) /\ Len(aof) \in Nat /\ clock \in Nat /\ map \in Store
      /\ FrameSize \in Nat \ {0} /\ off \in 0 .. FrameSize - 1
  BY <1>0, ServerAssumption, SMT DEF TypeOK
<1>2. map' \in Store
  <2>1. CASE load
    <3>1. pos + 1 \in pos + 1 .. Len(aof)
      BY <1>1, <2>1, SMT DEF load, InStep
    <3> QED
      BY <1>1, <2>1, <3>1, FramesAhead, ReplayType DEF load
  <2>2. CASE load_astray
    <3>1. \A r \in Found : Executable(r)
      BY FramesAhead, RequestFacts, ServerAssumption DEF Found
    <3> QED
      BY <1>1, <2>2, <3>1, ReplayType DEF load_astray
  <2> QED
    BY <2>1, <2>2
<1>3. pos' \in 0 .. Len(aof) /\ off' \in 0 .. FrameSize - 1
  <2>1. CASE load
    BY <1>1, <2>1, SMT DEF load, InStep
  <2>2. CASE load_astray
    <3>1. PICK p \in Farther : pos' = p[1] /\ off' = p[2]
      BY <2>2 DEF load_astray
    <3>2. p[1] \in pos .. Len(aof) /\ p[2] \in 0 .. FrameSize - 1
      BY <3>1 DEF Farther
    <3> QED
      BY <1>1, <3>1, <3>2, SMT
  <2> QED
    BY <2>1, <2>2
<1>4. UNCHANGED <<clock, limited, req, at, pc, cmd, frame, aof, calls, crashes, state,
                  promised, late, before, unlogged>>
  BY DEF load, load_astray, ReplayFrame
<1>5. TypeOK'
  BY <1>0, <1>2, <1>3, <1>4 DEF TypeOK
<1>6. \A d \in Clients : Asked(d)'
  BY <1>0, <1>4 DEF Asked
<1> QED
  BY <1>0, <1>4, <1>5, <1>6 DEF TypeInv

(* The accept loop starts a thread without a request.                      *)
LEMMA AcceptTypes ==
  ASSUME TypeInv, NEW c \in Clients, accept(c) \/ spawn(c)
  PROVE  TypeInv'
<1>0. /\ TypeOK /\ DOMAIN req = Clients /\ at \in [Clients -> 0 .. MaxTime]
      /\ \A d \in Clients : Asked(d)
  BY DEF TypeInv
<1>1. PICK p \in {"accepted", "read"} :
        /\ UNCHANGED <<engineVars, pos, off, cmd, frame, aof, calls, crashes, promised, late,
                       before, unlogged>>
        /\ pc' = [pc EXCEPT ![c] = p]
        /\ state' \in {"busy", "serving"}
  BY DEF accept, spawn, MainFrame, Goto
<1>2. TypeOK'
  BY <1>0, <1>1 DEF TypeOK, engineVars
<1>3. \A d \in Clients : Asked(d)'
  BY <1>0, <1>1 DEF Asked, Idle, TypeOK, engineVars
<1> QED
  BY <1>0, <1>1, <1>2, <1>3 DEF TypeInv, engineVars

(* Expiry, eviction, the limit, time, and the steps of a stop.             *)
LEMMA QuietTypes ==
  ASSUME TypeInv, Lose \/ ConfigSet \/ Tick \/ serve \/ listen \/ stop \/ close \/ UNCHANGED vars
  PROVE  TypeInv'
<1>0. /\ TypeOK /\ DOMAIN req = Clients /\ at \in [Clients -> 0 .. MaxTime]
      /\ \A d \in Clients : Asked(d)
  BY DEF TypeInv
<1>1. UNCHANGED <<req, at, pos, off, pc, cmd, frame, aof, calls, promised, late, before>>
  BY DEF Lose, ConfigSet, Tick, serve, listen, MainFrame, stop, close, vars, engineVars, ServerFrame,
         Engine!Drop, Engine!Limit, Engine!Tick
<1>2. /\ state' \in {state, "busy", "serving", "stuck", "stopping", "closing"}
      /\ limited' \in {limited, TRUE}
      /\ unlogged' \in {unlogged, {}}
  BY DEF Lose, ConfigSet, Tick, serve, listen, MainFrame, stop, close, vars, engineVars, ServerFrame,
         Engine!Drop, Engine!Limit, Engine!Tick
<1>a. /\ clock' = clock \/ (clock' = clock + 1 /\ clock < MaxTime)
      /\ crashes' = crashes \/ (crashes' = crashes + 1 /\ crashes < MaxCrashes)
      /\ map' = map \/ \E k \in Keys : map' = [map EXCEPT ![k] = NoEntry]
  BY DEF Lose, ConfigSet, Tick, serve, listen, MainFrame, stop, close, vars, engineVars, ServerFrame,
               Engine!Drop, Engine!Limit, Engine!Tick
<1>3. clock' \in 1 .. MaxTime
  BY <1>0, <1>a, ServerAssumption, KVAssumption, SMT DEF TypeOK
<1>4. crashes' \in 0 .. MaxCrashes
  BY <1>0, <1>a, ServerAssumption, SMT DEF TypeOK
<1>5. map' \in Store
  BY <1>0, <1>a DEF TypeOK, Store
<1>6. TypeOK'
  <2>1. /\ limited' \in BOOLEAN /\ unlogged' \subseteq Keys
        /\ state' \in Phases
    BY <1>0, <1>2 DEF TypeOK, Phases
  <2> QED
    BY <1>0, <1>1, <1>3, <1>4, <1>5, <2>1 DEF TypeOK, Phases
<1>7. \A d \in Clients : Asked(d)'
  BY <1>0, <1>1 DEF Asked, Idle
<1> QED
  BY <1>0, <1>1, <1>6, <1>7 DEF TypeInv

(* Every step keeps the types.                                             *)
LEMMA NextTypes == TypeInv /\ [Next]_vars => TypeInv'
BY ThreadTypes, LogTypes, EndTypes, LoadTypes, AcceptTypes, QuietTypes DEF Next, Thread

(* Whatever the clients send, however the process ends and whatever        *)
(* commands the parser reads out of step, the file holds well-formed       *)
(* commands of clients, with absolute deadlines in the range of uint64_t,  *)
(* and the replay stays inside it.                                         *)
THEOREM ServerTypes == Spec => []TypeOK
<1>1. TypeInv => TypeOK
  BY DEF TypeInv
<1> QED
  BY <1>1, InitTypes, NextTypes, PTL DEF Spec

-----------------------------------------------------------------------------
(* Where the values come from.                                             *)
Told(r) == r.cmd = "SET" => \A k \in KeysOf(r) : Sent(k, r.arg)
Known(k, e) == e # NoEntry /\ e.val \in Words => Sent(k, e.val)

(* What the threads hold and what the file has was sent, and the parser is *)
(* never inside a frame unless one was cut before it.                      *)
ToldBy(c) ==
  /\ req[c] # NoRequest => Told(req[c])
  /\ pc[c] \notin Idle => Told(cmd[c])
  /\ pc[c] = "append" => Told(frame[c].req)
SentInv ==
  /\ TypeInv
  /\ \A c \in Clients : ToldBy(c)
  /\ \A n \in DOMAIN aof : Told(aof[n].req)
  /\ off # 0 => CutInside
  /\ CutInside \/ \A k \in Keys : Known(k, map[k])

(* A command leaves a value that was there or that it carries.             *)
LEMMA AfterSent ==
  ASSUME NEW r, Executable(r), Told(r), NEW k \in KeysOf(r), NEW e \in Entry \cup {NoEntry},
         Known(k, e), NEW t \in Nat
  PROVE  Known(k, After(r, e, t))
<1>1. PICK l \in Entry \cup {NoEntry} : l = Look(e, t) /\ Known(k, l)
  BY LookType DEF Look, Known
<1>2. Ints \cap Words = {} /\ 0 \in Ints
  BY KVAssumption, SMT DEF Ints
<1>3. CASE r.cmd = "SET"
  <2>1. After(r, e, t) = [val |-> r.arg, exp |-> 0]
    BY <1>3 DEF After, ReadCmds
  <2>2. [val |-> r.arg, exp |-> 0].val = r.arg
    OBVIOUS
  <2> QED
    BY <1>3, <2>1, <2>2 DEF Told, Known
<1>4. CASE r.cmd = "DEL"
  <2>1. After(r, e, t) = NoEntry
    BY <1>4 DEF After, ReadCmds
  <2> QED
    BY <2>1 DEF Known
<1>5. CASE r.cmd \in ReadCmds
  <2>1. After(r, e, t) = l
    BY <1>1, <1>5 DEF After, ReadCmds
  <2> QED
    BY <1>1, <2>1
<1>6. CASE r.cmd \in {"INCR", "DECR"}
  <2>1. After(r, e, t) = IF l = NoEntry THEN [val |-> Bump(r.cmd, 0), exp |-> 0]
                         ELSE IF l.val \in Ints THEN [l EXCEPT !.val = Bump(r.cmd, @)] ELSE l
    BY <1>1, <1>6 DEF After, ReadCmds
  <2>2. PICK n : n = Bump(r.cmd, 0) /\ n \notin Words
    BY <1>2, BumpType
  <2>3. [val |-> n, exp |-> 0].val = n
    OBVIOUS
  <2>4. ASSUME l # NoEntry, l.val \in Ints
        PROVE  [l EXCEPT !.val = Bump(r.cmd, @)].val \notin Words
    <3>1. PICK m : m = Bump(r.cmd, l.val) /\ m \notin Words
      BY <1>2, <2>4, BumpType
    <3>2. l \in [val : Values, exp : Time]
      BY <2>4 DEF Entry
    <3>3. [l EXCEPT !.val = m].val = m
      BY <3>2
    <3> QED
      BY <3>1, <3>3
  <2> QED
    BY <1>1, <2>1, <2>2, <2>3, <2>4 DEF Known
<1>7. CASE r.cmd \in {"PEXPIRE", "PEXPIREAT", "PERSIST"}
  <2>1. PICK x : After(r, e, t) = IF l = NoEntry THEN l ELSE [l EXCEPT !.exp = x]
    BY <1>1, <1>7 DEF After, ReadCmds
  <2>2. ASSUME l # NoEntry PROVE [l EXCEPT !.exp = x].val = l.val
    BY <2>2 DEF Entry
  <2> QED
    BY <1>1, <2>1, <2>2 DEF Known
<1> QED
  BY <1>3, <1>4, <1>5, <1>6, <1>7 DEF Executable, Cmds, ReadCmds, UpdateCmds

(* What a client may send counts as sent.                                  *)
LEMMA CallsTold ==
  ASSUME NEW c \in Clients, NEW r \in Calls[c]
  PROVE  Told(r)
BY DEF Told, Sent

(* Serializing a command makes no SET of it.                               *)
LEMMA SerializeTold ==
  ASSUME NEW r, Told(r), NEW t
  PROVE  Told(Serialize(r, t))
<1>1. CASE r.cmd = "PEXPIRE"
  BY <1>1 DEF Serialize, Told
<1>2. CASE r.cmd # "PEXPIRE"
  BY <1>2 DEF Serialize
<1> QED
  BY <1>1, <1>2

(* The first process starts with an empty file and an empty dictionary.    *)
LEMMA InitSent == Init => SentInv
<1> SUFFICES ASSUME Init PROVE SentInv
  OBVIOUS
<1>1. TypeInv
  BY InitTypes
<1>2. DOMAIN aof = {} /\ off = 0
  BY SMT DEF Init
<1>3. \A c \in Clients : ToldBy(c)
  BY DEF Init, Engine!Init, ToldBy, Idle
<1>4. \A k \in Keys : Known(k, map[k])
  BY DEF Init, Engine!Init, Known
<1> QED
  BY <1>1, <1>2, <1>3, <1>4 DEF SentInv

(* A cut inside the file stays there while the file grows.                 *)
LEMMA CutStays ==
  ASSUME aof \in Seq(Frames), NEW f \in Frames, aof' \in {aof, Append(aof, f)}, CutInside
  PROVE  CutInside'
<1>1. PICK n \in 1 .. Len(aof) - 1 : ~aof[n].whole
  BY DEF CutInside
<1>2. n \in 1 .. Len(aof') - 1 /\ aof'[n] = aof[n]
  BY SMT
<1> QED
  BY <1>1, <1>2 DEF CutInside

(* The engine's part of a command.                                         *)
LEMMA EngineSent ==
  ASSUME SentInv, NEW c \in Clients, Engine!Perform(c) \/ Engine!Refuse(c)
  PROVE  /\ (\A k \in Keys : Known(k, map[k])) => \A k \in Keys : Known(k, map'[k])
         /\ \A d \in Clients : req'[d] # NoRequest => Told(req'[d])
<1>1. /\ map \in Store /\ DOMAIN req = Clients /\ at[c] \in Nat
      /\ \A d \in Clients : req[d] # NoRequest => IsRequest(req[d]) /\ Told(req[d])
  <2>1. at[c] \in 0 .. MaxTime /\ MaxTime \in Nat
    BY ServerAssumption, SMT DEF SentInv, TypeInv
  <2>2. at[c] \in Nat
    BY <2>1, SMT
  <2> QED
    BY <2>2 DEF SentInv, TypeInv, TypeOK, Asked, ToldBy
<1>2. PICK r : r = req[c] /\ IsRequest(r) /\ Told(r)
  BY <1>1 DEF Engine!Perform, Engine!Refuse
<1>3. PICK k \in Keys : k = Head(r.keys)
  BY <1>2, RequestFacts
<1>4. k \in KeysOf(r)
  <2>1. r.keys \in Seq(Keys) /\ r.keys # <<>>
    BY <1>2, RequestFacts
  <2>2. 1 \in DOMAIN r.keys /\ r.keys[1] = Head(r.keys)
    BY <2>1, SMT
  <2> QED
    BY <1>3, <2>2 DEF KeysOf
<1>5. PICK e : e = After(r, map[k], at[c])
  OBVIOUS
<1>6. map' \in {map, [map EXCEPT ![k] = e], [map EXCEPT ![k] = NoEntry]}
  BY <1>2, <1>3, <1>5, EngineOps, SMT DEF Engine!Perform, Engine!Refuse
<1>7. map[k] \in Entry \cup {NoEntry}
  BY <1>1 DEF Store
<1>8. Known(k, map[k]) => Known(k, e)
  BY <1>1, <1>2, <1>4, <1>5, <1>7, AfterSent, RequestFacts
<1>9. Known(k, NoEntry)
  BY DEF Known
<1>10. req' \in {[req EXCEPT ![c] = NoRequest], [req EXCEPT ![c] = Rest(r)]}
       /\ (req' # [req EXCEPT ![c] = NoRequest] => Len(r.keys) > 1)
  BY <1>2, EngineOps DEF Engine!Perform, Engine!Refuse, Engine!Finish
<1>11. Len(r.keys) > 1 => Told(Rest(r))
  <2>1. Len(r.keys) > 1 => Len(r.keys) # 1
    <3>1. \A n \in Nat : n > 1 => n # 1
      BY SMT
    <3>2. r.keys \in Seq(Keys)
      BY <1>2, RequestFacts
    <3>3. Len(r.keys) \in Nat
      BY <3>2, SMT
    <3> QED
      BY <3>1, <3>3
  <2>2. Len(r.keys) # 1 => r.cmd \in {"DEL", "EXISTS"}
    BY <1>2 DEF IsRequest
  <2> QED
    BY <2>1, <2>2 DEF Rest, Told
<1> QED
  BY <1>1, <1>6, <1>8, <1>9, <1>10, <1>11 DEF Store

(* A thread's step, the append apart.                                      *)
LEMMA ThreadSent ==
  ASSUME SentInv, TypeInv', NEW c \in Clients,
         (\E r \in Requests : read_request(c, r)) \/ engine_step(c) \/ serialize(c) \/ reply(c)
  PROVE  SentInv'
<1>0. /\ DOMAIN req = Clients /\ DOMAIN pc = Clients /\ DOMAIN cmd = Clients /\ DOMAIN frame = Clients
      /\ \A d \in Clients : ToldBy(d)
  BY DEF SentInv, TypeInv, TypeOK
<1>1. UNCHANGED <<aof, off>>
  BY DEF read_request, engine_step, serialize, reply
<1>2. CutInside' = CutInside
  BY <1>1 DEF CutInside
<1>3. ASSUME NEW r \in Requests, read_request(c, r) PROVE SentInv'
  <2>1. /\ map' = map /\ frame' = frame /\ Told(r)
        /\ pc' = [pc EXCEPT ![c] = "engine"] /\ cmd' = [cmd EXCEPT ![c] = r]
        /\ req' = [req EXCEPT ![c] = r]
    BY <1>3, CallsTold DEF read_request, Engine!Invoke, Goto
  <2>2. \A d \in Clients : ToldBy(d)'
    BY <1>0, <2>1 DEF ToldBy
  <2> QED
    BY <1>1, <1>2, <2>1, <2>2 DEF SentInv
<1>4. CASE engine_step(c)
  <2>1. /\ cmd' = cmd /\ frame' = frame /\ pc[c] = "engine"
        /\ \E p \in {"engine", "log"} : pc' = [pc EXCEPT ![c] = p]
    BY <1>4 DEF engine_step, Goto
  <2>2. /\ (\A k \in Keys : Known(k, map[k])) => \A k \in Keys : Known(k, map'[k])
        /\ \A d \in Clients : req'[d] # NoRequest => Told(req'[d])
    BY <1>4, EngineSent DEF engine_step
  <2>3. \A d \in Clients : ToldBy(d)'
    BY <1>0, <2>1, <2>2 DEF ToldBy, Idle
  <2> QED
    BY <1>1, <1>2, <2>2, <2>3 DEF SentInv
<1>5. CASE serialize(c)
  <2>1. PICK f : f = Frame(Serialize(cmd[c], clock), Id(c), TRUE)
    OBVIOUS
  <2>2. PICK p \in {"append", "reply"} :
          /\ UNCHANGED <<map, req, cmd>> /\ pc[c] = "log"
          /\ pc' = [pc EXCEPT ![c] = p]
          /\ frame' = IF p = "append" THEN [frame EXCEPT ![c] = f] ELSE frame
    BY <1>5, <2>1 DEF serialize, Goto, engineVars
  <2>3. Told(f.req)
    <3>1. Told(cmd[c])
      BY <1>0, <2>2 DEF ToldBy, Idle
    <3>2. f.req = Serialize(cmd[c], clock)
      BY <2>1 DEF Frame
    <3> QED
      BY <3>1, <3>2, SerializeTold
  <2>4. \A d \in Clients : ToldBy(d)'
    BY <1>0, <2>2, <2>3 DEF ToldBy, Idle
  <2> QED
    BY <1>1, <1>2, <2>2, <2>4 DEF SentInv
<1>6. CASE reply(c)
  <2>1. PICK p \in {"read", "gone"} :
          /\ UNCHANGED <<map, req>>
          /\ pc' = [pc EXCEPT ![c] = p]
          /\ cmd' = [cmd EXCEPT ![c] = NoRequest]
          /\ frame' = [frame EXCEPT ![c] = NoFrame]
    BY <1>6 DEF reply, Goto, engineVars
  <2>2. \A d \in Clients : ToldBy(d)'
    BY <1>0, <2>1 DEF ToldBy, Idle
  <2> QED
    BY <1>1, <1>2, <2>1, <2>2 DEF SentInv
<1> QED
  BY <1>3, <1>4, <1>5, <1>6

(* AOFLogger::log.                                                         *)
LEMMA LogSent ==
  ASSUME SentInv, TypeInv', NEW c \in Clients, log(c)
  PROVE  SentInv'
<1>0. /\ DOMAIN pc = Clients /\ aof \in Seq(Frames) /\ \A d \in Clients : ToldBy(d)
  BY DEF SentInv, TypeInv, TypeOK
<1>1. /\ UNCHANGED <<map, req, cmd, frame, off>> /\ pc[c] = "append"
      /\ pc' = [pc EXCEPT ![c] = "reply"] /\ aof' \in {aof, Append(aof, frame[c])}
  BY DEF log, Goto, engineVars
<1>2. frame[c] \in Frames /\ Told(frame[c].req)
  BY <1>0, <1>1 DEF SentInv, TypeInv, TypeOK, IsFrame, ToldBy
<1>3. CutInside => CutInside'
  BY <1>0, <1>1, <1>2, CutStays
<1>4. \A n \in DOMAIN aof' : Told(aof'[n].req)
  <2>1. CASE aof' = aof
    BY <2>1 DEF SentInv
  <2>2. CASE aof' = Append(aof, frame[c])
    <3>1. \A n \in DOMAIN aof' : (n \in DOMAIN aof /\ aof'[n] = aof[n]) \/ aof'[n] = frame[c]
      BY <1>0, <1>2, <2>2, SMT
    <3> QED
      BY <1>2, <3>1 DEF SentInv
  <2> QED
    BY <1>1, <2>1, <2>2
<1>5. \A d \in Clients : ToldBy(d)'
  BY <1>0, <1>1 DEF ToldBy, Idle
<1> QED
  BY <1>1, <1>3, <1>4, <1>5 DEF SentInv

(* The end of a process leaves an empty dictionary, and the commands of    *)
(* the file that is left were in it or in the hands of a thread.           *)
LEMMA EndSent ==
  ASSUME SentInv, TypeInv', Crash \/ exit
  PROVE  SentInv'
<1>0. /\ aof \in Seq(Frames) /\ Len(aof) \in Nat /\ DOMAIN aof = 1 .. Len(aof)
      /\ \A n \in DOMAIN aof : Told(aof[n].req)
  BY SMT DEF SentInv, TypeInv, TypeOK
<1>1. /\ off' = 0 /\ map' = [k \in Keys |-> NoEntry]
      /\ req' = [c \in Clients |-> NoRequest] /\ pc' = [c \in Clients |-> "new"]
  BY DEF Crash, exit, Ends, Restart
<1>2. PICK how \in Failures \cup {"kill"} : aof' \in FileAfter(how)
  BY DEF Crash, exit, FileAfter
<1>3. ASSUME NEW f \in Frames, Told(f.req) PROVE Torn(f) \in Frames /\ Told(Torn(f).req)
  <2>1. Torn(f) \in Frames /\ Torn(f).req = f.req
    BY DEF Torn, Frames
  <2> QED
    BY <1>3, <2>1
<1>4. ASSUME NEW file \in Seq(Frames), \A n \in DOMAIN file : Told(file[n].req),
             NEW f \in Frames, Told(f.req), aof' = Append(file, f)
      PROVE  \A n \in DOMAIN aof' : Told(aof'[n].req)
  <2>1. \A n \in DOMAIN aof' : (n \in DOMAIN file /\ aof'[n] = file[n]) \/ aof'[n] = f
    BY <1>4, SMT
  <2> QED
    BY <1>4, <2>1
<1>5. \A n \in DOMAIN aof' : Told(aof'[n].req)
  <2>1. CASE how = "kill"
    <3>1. aof' = aof
      BY <1>2, <2>1 DEF FileAfter
    <3> QED
      BY <1>0, <3>1
  <2>2. CASE how = "torn"
    <3>1. PICK c \in Clients : pc[c] = "append" /\ aof' = Append(aof, Torn(frame[c]))
      BY <1>2, <2>2 DEF FileAfter, Writing
    <3>2. frame[c] \in Frames /\ Told(frame[c].req)
      BY <3>1 DEF SentInv, TypeInv, TypeOK, IsFrame, ToldBy
    <3> QED
      BY <1>0, <1>3, <1>4, <3>1, <3>2
  <2>3. CASE how = "power"
    <3>1. \/ \E n \in 0 .. Len(aof) : aof' = SubSeq(aof, 1, n)
          \/ \E n \in 1 .. Len(aof) : aof' = Append(SubSeq(aof, 1, n - 1), Torn(aof[n]))
      BY <1>2, <2>3 DEF FileAfter
    <3>2. ASSUME NEW n \in 0 .. Len(aof), NEW old, old = SubSeq(aof, 1, n)
          PROVE  old \in Seq(Frames) /\ \A m \in DOMAIN old : Told(old[m].req)
      <4>1. old \in Seq(Frames) /\ \A m \in DOMAIN old : m \in DOMAIN aof /\ old[m] = aof[m]
        BY <1>0, <3>2, SMT
      <4> QED
        BY <1>0, <4>1
    <3>3. ASSUME NEW n \in 1 .. Len(aof), aof' = Append(SubSeq(aof, 1, n - 1), Torn(aof[n]))
          PROVE  \A m \in DOMAIN aof' : Told(aof'[m].req)
      <4>1. n - 1 \in 0 .. Len(aof) /\ n \in DOMAIN aof /\ aof[n] \in Frames
        BY <1>0, SMT
      <4>2. PICK old \in Seq(Frames) :
              old = SubSeq(aof, 1, n - 1) /\ \A m \in DOMAIN old : Told(old[m].req)
        BY <3>2, <4>1
      <4> QED
        BY <1>0, <1>3, <1>4, <3>3, <4>1, <4>2
    <3> QED
      BY <3>1, <3>2, <3>3
  <2>4. how # "stop"
    BY <1>2 DEF FileAfter
  <2> QED
    BY <2>1, <2>2, <2>3, <2>4, ServerAssumption
<1>6. \A c \in Clients : ToldBy(c)'
  BY <1>1 DEF ToldBy, Idle
<1>7. \A k \in Keys : Known(k, map'[k])
  BY <1>1 DEF Known
<1> QED
  BY <1>1, <1>5, <1>6, <1>7 DEF SentInv

(* The replay in step executes what was sent; it gets out of step only     *)
(* behind a cut frame with something behind it.                            *)
LEMMA LoadSent ==
  ASSUME SentInv, TypeInv', load \/ load_astray
  PROVE  SentInv'
<1>0. /\ aof \in Seq(Frames) /\ DOMAIN aof = 1 .. Len(aof) /\ Len(aof) \in Nat
      /\ pos \in 0 .. Len(aof) /\ map \in Store /\ clock \in Nat
  BY ServerAssumption, SMT DEF SentInv, TypeInv, TypeOK
<1>1. UNCHANGED <<aof, req, pc, cmd, frame>>
  BY DEF load, load_astray, ReplayFrame
<1>2. /\ \A c \in Clients : ToldBy(c)'
      /\ \A n \in DOMAIN aof' : Told(aof'[n].req)
      /\ CutInside' <=> CutInside
  BY <1>1 DEF SentInv, ToldBy, CutInside
<1>3. CASE load
  <2>1. PICK r : r = aof[pos + 1].req
    OBVIOUS
  <2>2. pos + 1 \in pos + 1 .. Len(aof) /\ pos + 1 \in DOMAIN aof
    BY <1>0, <1>3, SMT DEF load, InStep
  <2>3. Executable(r) /\ Told(r)
    BY <2>1, <2>2, FramesAhead DEF SentInv
  <2>4. ASSUME NEW k \in Keys, Known(k, map[k]) PROVE Known(k, map'[k])
    <3>1. map'[k] = IF k \in KeysOf(r) THEN After(r, map[k], clock) ELSE map[k]
      BY <1>3, <2>1 DEF load, Replay
    <3>2. map[k] \in Entry \cup {NoEntry}
      BY <1>0 DEF Store
    <3> QED
      BY <1>0, <2>3, <2>4, <3>1, <3>2, AfterSent
  <2>5. off' = off
    BY <1>3 DEF load
  <2> QED
    BY <1>2, <2>4, <2>5 DEF SentInv
<1>4. CASE load_astray
  <2>1. CutInside
    <3>1. CASE off > 0
      <4>1. off # 0
        BY <3>1, SMT
      <4> QED
        BY <4>1 DEF SentInv
    <3>2. CASE off = 0
      <4>1. pos + 1 < Len(aof) /\ ~aof[pos + 1].whole
        <5>1. ~(off > 0)
          BY <3>2, SMT
        <5> QED
          BY <1>4, <3>2, <5>1 DEF load_astray, InStep
      <4>2. pos + 1 \in 1 .. Len(aof) - 1
        BY <1>0, <4>1, SMT
      <4> QED
        BY <4>1, <4>2 DEF CutInside
    <3> QED
      <4>1. off > 0 \/ off = 0
        BY ServerAssumption, SMT DEF SentInv, TypeInv, TypeOK
      <4> QED
        BY <3>1, <3>2, <4>1
  <2> QED
    BY <1>2, <2>1 DEF SentInv
<1> QED
  BY <1>3, <1>4

(* The accept loop, expiry, eviction, the limit, time and a stop.          *)
LEMMA QuietSent ==
  ASSUME SentInv, TypeInv',
         \/ \E c \in Clients : accept(c) \/ spawn(c)
         \/ Lose \/ ConfigSet \/ Tick \/ serve \/ listen \/ stop \/ close \/ UNCHANGED vars
  PROVE  SentInv'
<1>0. DOMAIN pc = Clients /\ map \in Store
  BY DEF SentInv, TypeInv, TypeOK
<1>1. UNCHANGED <<req, off, cmd, frame, aof>>
  BY DEF accept, spawn, Lose, ConfigSet, Tick, serve, listen, stop, close, MainFrame, ServerFrame,
         vars, engineVars, Engine!Drop, Engine!Limit, Engine!Tick
<1>2. pc' = pc \/ \E c \in Clients, p \in {"accepted", "read"} : pc' = [pc EXCEPT ![c] = p]
  BY DEF accept, spawn, Lose, ConfigSet, Tick, serve, listen, stop, close, MainFrame, ServerFrame,
         vars, Goto
<1>3. map' = map \/ \E k \in Keys : map' = [map EXCEPT ![k] = NoEntry]
  BY DEF accept, spawn, Lose, ConfigSet, Tick, serve, listen, stop, close, MainFrame, ServerFrame,
         vars, engineVars, Engine!Drop, Engine!Limit, Engine!Tick
<1>4. \A c \in Clients : ToldBy(c)'
  BY <1>0, <1>1, <1>2 DEF SentInv, ToldBy, Idle
<1>5. ASSUME NEW k \in Keys, Known(k, map[k]) PROVE Known(k, map'[k])
  BY <1>0, <1>3, <1>5 DEF Known, Store
<1>6. CutInside' = CutInside
  BY <1>1 DEF CutInside
<1> QED
  BY <1>1, <1>4, <1>5, <1>6 DEF SentInv

(* Server::start and dispatch: a value under a key has been sent for that  *)
(* key, however often the process was killed while it wrote or the power   *)
(* failed, as long as nothing has been logged behind a cut frame.          *)
THEOREM NoValueInvented == Spec => []NothingInvented
<1>1. SentInv /\ [Next]_vars => SentInv'
  <2> SUFFICES ASSUME SentInv, [Next]_vars PROVE SentInv'
    OBVIOUS
  <2>1. TypeInv'
    BY NextTypes DEF SentInv
  <2> QED
    BY <2>1, ThreadSent, LogSent, EndSent, LoadSent, QuietSent DEF Next, Thread
<1>2. SentInv => NothingInvented
  BY DEF SentInv, NothingInvented, Known
<1> QED
  BY <1>1, <1>2, InitSent, PTL DEF Spec

-----------------------------------------------------------------------------
(* What a restart has to go by: what a command does to a key in the engine *)
(* and in the file, and what the threads hold between their steps.         *)

(* The conditions.  Without OwnKeys the order of the file is not the order *)
(* of the engine; a TTL must not wrap around uint64_t; a counter that      *)
(* expires between the two readings of the clock starts anew in the engine *)
(* and goes on in the replay; evictions are not logged; and what is behind *)
(* a cut frame is not replayed.                                            *)
OwnKeys ==
  \A c, d \in Clients : c # d =>
    \A r \in Calls[c], s \in Calls[d] : KeysOf(r) \cap KeysOf(s) = {}
ShortTtls == \A r \in Requests : r.cmd = "PEXPIRE" => r.arg \in 0 .. TimeMod - 1 - MaxTime
LastingCounters ==
  \A r, s \in Requests : r.cmd = "PEXPIRE" /\ s.cmd \in {"INCR", "DECR"} =>
    KeysOf(r) \cap KeysOf(s) = {}
Intact == "power" \notin Failures /\ ("torn" \in Failures => MaxCrashes <= 1)
Recoverable == OwnKeys /\ ShortTtls /\ LastingCounters /\ Intact /\ Limits = FALSE
NoDeadlines == \A r \in Requests : r.cmd \notin {"PEXPIRE", "PEXPIREAT"}

(* What a command makes of a dictionary in which nothing expires: the      *)
(* deadlines are there, and time 0 is before all of them.                  *)
Empty == [k \in Keys |-> NoEntry]
Apply(r, s) == [k \in Keys |-> IF k \in KeysOf(r) THEN After(r, s[k], 0) ELSE s[k]]

(* The deadlines a key has been given since its last SET or DEL, see       *)
(* Deadlines: whether one of them has passed, what one more command adds   *)
(* to them, and that an entry's deadline is among them.                    *)
Passed(d, t) == \E x \in d : x \in 1 .. t
Gather(r, k, d) ==
  IF k \notin KeysOf(r) THEN d
  ELSE CASE r.cmd \in {"SET", "DEL"} -> {}
         [] r.cmd = "PEXPIREAT"      -> d \cup {r.arg}
         [] OTHER                    -> d
Dated(s, d) == s # NoEntry /\ s.exp # 0 => s.exp \in d
Dates(file, n) == [k \in Keys |-> Deadlines(file, n, k)]
Sound(s, D) == s \in Store /\ \A k \in Keys : Dated(s[k], D[k])

(* The dictionaries such a replay of the file goes through.                *)
Rebuilds(S) ==
  /\ DOMAIN S = 0 .. Len(aof)
  /\ S[0] = Empty
  /\ \A n \in DOMAIN aof : S[n] = Apply(aof[n].req, S[n - 1])
  /\ \A n \in 0 .. Len(aof) : Sound(S[n], Dates(aof, n))

(* The entry s of the file is as good as the engine's entry e.  PEXPIRE is *)
(* logged with a later reading of the clock than the engine's, so the      *)
(* deadline of a key it is used on may be later in the file.               *)
Exact(k) == \A r \in Requests : r.cmd = "PEXPIRE" => k \notin KeysOf(r)
Good(k, e, s) ==
  IF Exact(k) THEN s = e
  ELSE e # NoEntry => /\ s # NoEntry /\ s.val = e.val
                      /\ s.exp = 0 <=> e.exp = 0
                      /\ s.exp >= e.exp
Fits(k, e, s, d, t) == Passed(d, t) \/ Good(k, e, s)

(* The part of the state the proof needs besides the file.                 *)
Loggable(q) == \E r \in Requests, u \in 1 .. MaxTime : q = Serialize(r, u)
Busy(c) ==
  /\ IsRequest(req[c])
  /\ req[c].cmd = cmd[c].cmd /\ req[c].arg = cmd[c].arg
  /\ KeysOf(req[c]) \subseteq KeysOf(cmd[c])
  /\ cmd[c].cmd \notin {"DEL", "EXISTS"} => req[c] = cmd[c] /\ cnt[c] = 0
  /\ at[c] \in 1 .. clock
ThreadInv(c) ==
  /\ cnt[c] \in Nat
  /\ pc[c] # "engine" => req[c] = NoRequest /\ cnt[c] = 0
  /\ pc[c] \notin Idle => cmd[c] \in Calls[c]
  /\ pc[c] = "engine" => Busy(c)
  /\ pc[c] = "append" => /\ Logged(cmd[c], resp[c]) /\ frame[c].whole
                         /\ \E u \in 1 .. MaxTime : frame[c].req = Serialize(cmd[c], u)

(* A cut frame is the work of the last crash, and at first the last one.   *)
Sealed == \A n \in DOMAIN aof : aof[n].whole
Scar ==
  ~Sealed => /\ crashes = MaxCrashes
             /\ state \in {"loading", "busy", "serving"}
             /\ state = "loading" =>
                  \A n \in DOMAIN aof : ~aof[n].whole =>
                    n = Len(aof) /\ KeysOf(aof[n].req) \subseteq unlogged

Calm ==
  /\ TypeInv
  /\ DOMAIN cnt = Clients /\ DOMAIN resp = Clients
  /\ limited = FALSE
  /\ off = 0
  /\ state = "loading" => \A c \in Clients : pc[c] = "new"
  /\ \A c \in Clients : ThreadInv(c)
  /\ \A n \in DOMAIN aof : Loggable(aof[n].req)
  /\ Scar

(* The time and its bound.                                                 *)
LEMMA Clocks ==
  ASSUME Calm
  PROVE  /\ clock \in Nat /\ clock <= clock /\ MaxTime \in Nat /\ clock \in 1 .. clock
         /\ clock \in 1 .. MaxTime /\ clock \in clock .. MaxTime
<1>1. clock \in 1 .. MaxTime
  BY Zenon DEF Calm, TypeInv, TypeOK
<1>2. MaxTime \in Nat
  BY ServerAssumption, KVAssumption, SMT
<1> QED
  BY ONLY <1>1, <1>2, SMT

(* The length of the file.                                                 *)
LEMMA FileLength ==
  ASSUME Calm
  PROVE  Len(aof) \in Nat /\ Len(aof) \in 0 .. Len(aof) /\ DOMAIN aof = 1 .. Len(aof)
<1>1. aof \in Seq(Frames)
  BY Zenon DEF Calm, TypeInv, TypeOK
<1> QED
  BY ONLY <1>1, SMT

-----------------------------------------------------------------------------
(* What one command does to one key, in the engine and in the file.        *)

(* A dictionary may or may not hold a key.                                 *)
MaybeEntry == Entry \cup {NoEntry}

(* Nothing has expired at time 0.                                          *)
LEMMA AtZero ==
  ASSUME NEW e \in MaybeEntry
  PROVE  Look(e, 0) = e
BY SMT DEF MaybeEntry, Entry, Time, Look, Expired

(* What a command leaves, from what its find() and lazy erase leave it.    *)
LEMMA AfterCases ==
  ASSUME NEW r, NEW e \in MaybeEntry, NEW t \in Nat, NEW l, l = Look(e, t)
  PROVE  /\ r.cmd = "SET" => After(r, e, t) = [val |-> r.arg, exp |-> 0]
         /\ r.cmd = "DEL" => After(r, e, t) = NoEntry
         /\ r.cmd \in ReadCmds => After(r, e, t) = l
         /\ r.cmd \in {"INCR", "DECR"} => After(r, e, t) =
              IF l = NoEntry THEN [val |-> Bump(r.cmd, 0), exp |-> 0]
              ELSE IF l.val \in Ints THEN [val |-> Bump(r.cmd, l.val), exp |-> l.exp] ELSE l
<1>1. l \in MaybeEntry
  BY LookType DEF MaybeEntry
<1>2. \A x : l # NoEntry => /\ [l EXCEPT !.val = x] = [val |-> x, exp |-> l.exp]
                            /\ [l EXCEPT !.exp = x] = [val |-> l.val, exp |-> x]
  BY <1>1, SMT DEF MaybeEntry, Entry
<1>3. r.cmd = "SET" => After(r, e, t) = [val |-> r.arg, exp |-> 0]
  BY DEF After, ReadCmds
<1>4. r.cmd = "DEL" => After(r, e, t) = NoEntry
  BY DEF After, ReadCmds
<1>5. r.cmd \in ReadCmds => After(r, e, t) = l
  BY DEF After, ReadCmds
<1>6. ASSUME r.cmd \in {"INCR", "DECR"}
      PROVE  After(r, e, t) = IF l = NoEntry THEN [val |-> Bump(r.cmd, 0), exp |-> 0]
                              ELSE IF l.val \in Ints THEN [l EXCEPT !.val = Bump(r.cmd, @)] ELSE l
  BY <1>6 DEF After, ReadCmds
<1>7. [l EXCEPT !.val = Bump(r.cmd, @)] = [l EXCEPT !.val = Bump(r.cmd, l.val)]
  BY SMT
<1> QED
  BY <1>2, <1>3, <1>4, <1>5, <1>6, <1>7

(* The commands that set or lift the deadline of a key that is there.      *)
LEMMA AfterTtl ==
  ASSUME NEW r, r.cmd \in {"PEXPIRE", "PEXPIREAT", "PERSIST"},
         NEW e \in MaybeEntry, NEW t \in Nat, NEW l, l = Look(e, t)
  PROVE  /\ l = NoEntry => After(r, e, t) = NoEntry
         /\ l # NoEntry /\ r.cmd = "PERSIST" => After(r, e, t) = [val |-> l.val, exp |-> 0]
         /\ l # NoEntry /\ r.cmd = "PEXPIREAT" => After(r, e, t) = [val |-> l.val, exp |-> r.arg]
         /\ l # NoEntry /\ r.cmd = "PEXPIRE" =>
              After(r, e, t) = [val |-> l.val, exp |-> Deadline(t, r.arg)]
<1>1. l \in MaybeEntry
  BY LookType DEF MaybeEntry
<1>2. \A x : l # NoEntry => [l EXCEPT !.exp = x] = [val |-> l.val, exp |-> x]
  BY <1>1, SMT DEF MaybeEntry, Entry
<1>3. r.cmd = "PERSIST" => After(r, e, t) = IF l = NoEntry THEN l ELSE [l EXCEPT !.exp = 0]
  BY DEF After, ReadCmds
<1>4. r.cmd = "PEXPIREAT" => After(r, e, t) = IF l = NoEntry THEN l ELSE [l EXCEPT !.exp = r.arg]
  BY DEF After, ReadCmds
<1>5. r.cmd = "PEXPIRE" =>
        After(r, e, t) = IF l = NoEntry THEN l ELSE [l EXCEPT !.exp = Deadline(t, r.arg)]
  BY DEF After, ReadCmds
<1> QED
  BY <1>2, <1>3, <1>4, <1>5

(* Only PEXPIRE and the lazy erase read the clock.                         *)
LEMMA SameLook ==
  ASSUME NEW r, Executable(r), r.cmd # "PEXPIRE",
         NEW e \in MaybeEntry, NEW t \in Nat, NEW f \in MaybeEntry, NEW u \in Nat,
         Look(e, t) = Look(f, u)
  PROVE  After(r, e, t) = After(r, f, u)
<1>1. PICK l : l = Look(e, t) /\ l = Look(f, u)
  OBVIOUS
<1>2. CASE r.cmd \in {"SET", "DEL", "INCR", "DECR"}
  BY <1>1, <1>2, AfterCases, SMT
<1>3. CASE r.cmd \in ReadCmds
  BY <1>1, <1>3, AfterCases, SMT
<1>4. CASE r.cmd \in {"PERSIST", "PEXPIREAT"}
  BY <1>1, <1>4, AfterTtl, SMT
<1> QED
  BY <1>2, <1>3, <1>4 DEF Executable, Cmds, UpdateCmds

(* A deadline in the dictionary was set by a command that is in the file.  *)
LEMMA StaysDated ==
  ASSUME NEW r, Executable(r), r.cmd # "PEXPIRE", NEW k \in KeysOf(r),
         NEW s \in MaybeEntry, NEW d, Dated(s, d)
  PROVE  Dated(After(r, s, 0), Gather(r, k, d))
<1>1. Look(s, 0) = s
  BY AtZero
<1>2. CASE r.cmd \in {"SET", "DEL"}
  <2>1. After(r, s, 0) = NoEntry \/ After(r, s, 0) = [val |-> r.arg, exp |-> 0]
    BY <1>2, AfterCases, SMT
  <2> QED
    BY <2>1, SMT DEF Dated
<1>3. CASE r.cmd \in {"INCR", "DECR"}
  <2>1. Gather(r, k, d) = d
    BY <1>3 DEF Gather
  <2>2. \/ After(r, s, 0) = s
        \/ After(r, s, 0).exp = 0
        \/ s # NoEntry /\ After(r, s, 0).exp = s.exp
    BY <1>1, <1>3, AfterCases, SMT
  <2> QED
    BY <2>1, <2>2 DEF Dated
<1>4. CASE r.cmd \in ReadCmds \cup {"PERSIST"}
  <2>1. Gather(r, k, d) = d
    BY <1>4 DEF Gather, ReadCmds
  <2>2. After(r, s, 0) = s \/ After(r, s, 0) = NoEntry \/ After(r, s, 0).exp = 0
    BY <1>1, <1>4, AfterCases, AfterTtl, SMT
  <2> QED
    BY <2>1, <2>2 DEF Dated
<1>5. CASE r.cmd = "PEXPIREAT"
  <2>1. Gather(r, k, d) = d \cup {r.arg}
    BY <1>5 DEF Gather
  <2>2. After(r, s, 0) = NoEntry \/ After(r, s, 0).exp = r.arg
    BY <1>1, <1>5, AfterTtl, SMT
  <2> QED
    BY <2>1, <2>2 DEF Dated
<1> QED
  BY <1>2, <1>3, <1>4, <1>5 DEF Executable, Cmds, UpdateCmds

(* Deadlines are forgotten at a SET or a DEL only.                         *)
LEMMA GatherMore ==
  ASSUME NEW r, r.cmd \notin {"SET", "DEL"}, NEW k, NEW d, NEW t, Passed(d, t)
  PROVE  Passed(Gather(r, k, d), t)
<1>1. d \subseteq Gather(r, k, d)
  BY DEF Gather
<1> QED
  BY <1>1 DEF Passed

(* An entry that has expired has a deadline that has passed.               *)
LEMMA ExpiredPast ==
  ASSUME NEW s \in MaybeEntry, NEW d, Dated(s, d), NEW u \in Nat, NEW t \in Nat, u <= t,
         Expired(s, u)
  PROVE  Passed(d, t)
<1>1. s # NoEntry /\ s.exp # 0 /\ s.exp \in 1 .. t
  BY SMT DEF Expired, MaybeEntry, Entry, Time
<1> QED
  BY <1>1 DEF Dated, Passed

(* Server::start replays one command by the clock of the restart.  It      *)
(* differs from the replay in which nothing expires only for a key one of  *)
(* whose deadlines has passed.                                             *)
LEMMA ReplayStep ==
  ASSUME NEW r, Executable(r), r.cmd # "PEXPIRE", NEW k \in KeysOf(r),
         NEW m \in MaybeEntry, NEW s \in MaybeEntry, NEW d, Dated(s, d), NEW t \in Nat,
         Passed(d, t) \/ m = s
  PROVE  Passed(Gather(r, k, d), t) \/ After(r, m, t) = After(r, s, 0)
<1>1. CASE r.cmd \in {"SET", "DEL"}
  BY <1>1, AfterCases, SMT
<1>2. CASE r.cmd \notin {"SET", "DEL"} /\ Passed(d, t)
  BY <1>2, GatherMore
<1>3. CASE r.cmd \notin {"SET", "DEL"} /\ ~Passed(d, t)
  <2>1. ~Expired(s, t)
    BY <1>3, ExpiredPast, SMT
  <2>2. Look(m, t) = Look(s, 0)
    BY <1>3, <2>1, AtZero DEF Look
  <2>3. 0 \in Nat
    BY SMT
  <2> QED
    BY <2>2, <2>3, SameLook
<1> QED
  BY <1>1, <1>2, <1>3

(* An entry is as good as itself.                                          *)
LEMMA GoodSelf ==
  ASSUME NEW k, NEW e \in MaybeEntry
  PROVE  Good(k, e, e)
BY SMT DEF Good, MaybeEntry, Entry, Time

(* The engine erases an entry that has expired; the file may keep it, for  *)
(* the replay will find it expired too.                                    *)
LEMMA LookFits ==
  ASSUME NEW k, NEW e \in MaybeEntry, NEW s \in MaybeEntry, NEW d, Dated(s, d),
         NEW u \in Nat, NEW t \in Nat, u <= t, Fits(k, e, s, d, t)
  PROVE  Fits(k, Look(e, u), s, d, t)
<1>1. CASE ~Expired(e, u)
  BY <1>1 DEF Look
<1>2. CASE Expired(e, u) /\ ~Passed(d, t)
  <2>1. Good(k, e, s) /\ Look(e, u) = NoEntry
    BY <1>2 DEF Fits, Look
  <2>2. ~Exact(k)
    BY <1>2, <2>1, ExpiredPast DEF Good
  <2> QED
    BY <2>1, <2>2 DEF Fits, Good
<1> QED
  BY <1>1, <1>2 DEF Fits

(* The answers decide what is logged: a DEL that counted no key, and any   *)
(* other command of one key that is not logged, changed nothing but for    *)
(* the lazy erase; and a deadline is logged only for a key that is there.  *)
LEMMA Answers ==
  ASSUME NEW r, Executable(r), NEW e \in MaybeEntry, NEW t \in Nat, NEW n \in Nat
  PROVE  /\ r.cmd = "DEL" => Result(r, e, t, n).val = n + (IF e = NoEntry THEN 0 ELSE 1)
         /\ r.cmd = "EXISTS" => Result(r, e, t, n).val \in Nat
         /\ r.cmd # "DEL" /\ n = 0 /\ ~Logged(r, Result(r, e, t, n)) => After(r, e, t) = Look(e, t)
         /\ (r.cmd \in {"PEXPIRE", "PEXPIREAT", "PERSIST"} /\ n = 0 /\ Logged(r, Result(r, e, t, n)))
              => Look(e, t) # NoEntry
<1>1. PICK l \in MaybeEntry : l = Look(e, t)
  BY LookType DEF MaybeEntry
<1>2. r.cmd = "DEL" => Result(r, e, t, n).val = n + (IF e = NoEntry THEN 0 ELSE 1)
  BY SMTT(30) DEF Result, Answer
<1>3. r.cmd = "EXISTS" => Result(r, e, t, n).val \in Nat
  BY SMTT(30) DEF Result, Answer
<1>4. CASE r.cmd \in {"DEL"} \cup ReadCmds
  <2>1. r.cmd \in ReadCmds => After(r, e, t) = l
    BY <1>1, AfterCases
  <2> QED
    BY <1>1, <1>2, <1>3, <1>4, <2>1 DEF ReadCmds
<1>5. CASE r.cmd = "SET"
  <2>1. Result(r, e, t, n) = Answer("ok", 0)
    BY <1>5 DEF Result
  <2>2. Logged(r, Result(r, e, t, n))
    BY <1>5, <2>1, SMT DEF Logged, Answer
  <2> QED
    BY <1>5, <2>2
<1>6. CASE r.cmd \in {"INCR", "DECR"}
  <2>1. CASE l # NoEntry /\ l.val \notin Ints
    <3>1. After(r, e, t) = l
      BY <1>1, <1>6, <2>1, AfterCases, SMT
    <3> QED
      BY <1>1, <1>6, <3>1
  <2>2. CASE l = NoEntry \/ l.val \in Ints
    <3>1. Result(r, e, t, n).kind = "int"
      BY <1>1, <1>6, <2>2, SMTT(30) DEF Result, Answer
    <3>2. Logged(r, Result(r, e, t, n))
      BY <1>6, <3>1 DEF Logged
    <3> QED
      BY <1>6, <3>2
  <2> QED
    BY <2>1, <2>2
<1>7. CASE r.cmd \in {"PEXPIRE", "PEXPIREAT", "PERSIST"}
  <2>1. Logged(r, Result(r, e, t, n)) <=> Result(r, e, t, n).val = 1
    BY <1>7 DEF Logged
  <2>2. l = NoEntry => Result(r, e, t, n).val = n /\ After(r, e, t) = l
    <3>1. l = NoEntry => Result(r, e, t, n).val = n
      BY <1>1, <1>7, SMTT(30) DEF Result, Answer
    <3>2. ASSUME l = NoEntry PROVE After(r, e, t) = NoEntry
      <4>1. Look(e, t) = NoEntry
        BY <1>1, <3>2
      <4> QED
        BY <1>7, <4>1, AfterTtl, SMT
    <3> QED
      BY <3>1, <3>2
  <2>3. l # NoEntry /\ r.cmd # "PERSIST" => Result(r, e, t, n).val = n + 1
    BY <1>1, <1>7, SMTT(30) DEF Result, Answer
  <2>4. ASSUME l # NoEntry, r.cmd = "PERSIST", n = 0, Result(r, e, t, n).val # 1
        PROVE  After(r, e, t) = l
    <3>1. l.exp = 0
      BY <1>1, <2>4, SMTT(30) DEF Result, Answer
    <3>2. After(r, e, t) = [val |-> l.val, exp |-> 0]
      BY <1>1, <2>4, AfterTtl, SMT
    <3> QED
      BY <2>4, <3>1, <3>2, SMT DEF MaybeEntry, Entry
  <2>5. n = 0 => n # 1 /\ n + 1 = 1
    BY SMT
  <2> QED
    BY <1>1, <1>7, <2>1, <2>2, <2>3, <2>4, <2>5
<1> QED
  BY <1>4, <1>5, <1>6, <1>7 DEF Executable, Cmds, UpdateCmds

(* dispatch: PEXPIRE is logged as PEXPIREAT of the same keys; its deadline *)
(* is no earlier than the one the engine has set.                          *)
LEMMA SerializeFacts ==
  ASSUME Recoverable, NEW r \in Requests, NEW u \in 1 .. MaxTime
  PROVE  /\ KeysOf(Serialize(r, u)) = KeysOf(r)
         /\ r.cmd # "PEXPIRE" => Serialize(r, u) = r
         /\ r.cmd = "PEXPIRE" =>
              /\ Serialize(r, u).cmd = "PEXPIREAT" /\ Serialize(r, u).arg = Deadline(u, r.arg)
              /\ \A t \in 1 .. u : Deadline(t, r.arg) # 0 /\ Deadline(t, r.arg) <= Deadline(u, r.arg)
<1>1. KeysOf(Serialize(r, u)) = KeysOf(r)
  BY DEF Serialize, KeysOf
<1>2. ASSUME r.cmd = "PEXPIRE"
      PROVE  \A t \in 1 .. u : Deadline(t, r.arg) # 0 /\ Deadline(t, r.arg) <= Deadline(u, r.arg)
  <2>1. PICK x : x = r.arg /\ x \in 0 .. TimeMod - 1 - MaxTime
    BY <1>2 DEF Recoverable, ShortTtls
  <2>2. TimeMod \in Nat /\ MaxTime \in 1 .. TimeMod - 1
    BY KVAssumption, ServerAssumption
  <2>3. \A t \in 1 .. MaxTime : t + x \in 1 .. TimeMod - 1
    BY <2>1, <2>2, SMT
  <2>4. \A y \in 1 .. TimeMod - 1 : y % TimeMod = y
    BY <2>2, SMT
  <2>5. \A t \in 1 .. MaxTime : Deadline(t, x) = t + x
    BY <2>3, <2>4 DEF Deadline
  <2>6. \A t \in 1 .. u : t \in 1 .. MaxTime /\ t + x # 0 /\ t + x <= u + x
    BY <2>1, <2>2, SMT
  <2> QED
    BY <2>1, <2>5, <2>6
<1> QED
  BY <1>1, <1>2 DEF Serialize

(* The engine is through with a command on one key.  When the command is   *)
(* not logged, the file fits the new entry; when it is, it will fit once   *)
(* the command is in it, whenever that will be serialized.                 *)
LEMMA CommandFits ==
  ASSUME Recoverable, NEW r \in Requests, r.cmd \notin {"DEL", "EXISTS"}, NEW k \in KeysOf(r),
         NEW e \in MaybeEntry, NEW s \in MaybeEntry, NEW d, Dated(s, d),
         NEW t \in 1 .. MaxTime, NEW z \in 1 .. t, Fits(k, e, s, d, t)
  PROVE  IF Logged(r, Result(r, e, z, 0))
         THEN \A u \in t .. MaxTime :
                LET q == Serialize(r, u)
                IN  Fits(k, After(r, e, z), After(q, s, 0), Gather(q, k, d), t)
         ELSE Fits(k, After(r, e, z), s, d, t)
<1>1. /\ z \in Nat /\ t \in Nat /\ z <= t /\ 0 \in Nat /\ MaxTime \in Nat
      /\ \A u \in t .. MaxTime : u \in 1 .. MaxTime /\ z \in 1 .. u
  BY ServerAssumption, KVAssumption, SMT
<1>2. Executable(r)
  BY ServerAssumption, RequestFacts
<1>3. PICK l \in MaybeEntry : l = Look(e, z)
  BY <1>1, LookType DEF MaybeEntry
<1>4. Fits(k, l, s, d, t)
  BY <1>1, <1>3, LookFits
<1>5. Look(s, 0) = s
  BY AtZero
<1>6. CASE ~Logged(r, Result(r, e, z, 0))
  <2>1. After(r, e, z) = Look(e, z)
    BY <1>1, <1>2, <1>6, Answers, SMT
  <2> QED
    BY <1>3, <1>4, <1>6, <2>1
<1>7. ASSUME Logged(r, Result(r, e, z, 0)), NEW u \in t .. MaxTime, NEW q, q = Serialize(r, u)
      PROVE  Fits(k, After(r, e, z), After(q, s, 0), Gather(q, k, d), t)
  <2>0. u \in 1 .. MaxTime /\ z \in 1 .. u
    BY <1>1
  <2>1. CASE r.cmd = "SET"
    <3>1. q = r
      BY <1>7, <2>0, <2>1, SerializeFacts
    <3>2. After(r, e, z) = After(r, s, 0)
      BY <1>1, <2>1, AfterCases, SMT
    <3>3. After(r, s, 0) \in MaybeEntry
      BY <1>1, <1>2, AfterType DEF MaybeEntry
    <3> QED
      BY <3>1, <3>2, <3>3, GoodSelf DEF Fits
  <2>2. ASSUME r.cmd # "SET", Passed(d, t)
        PROVE  Passed(Gather(q, k, d), t)
    <3>1. q.cmd \notin {"SET", "DEL"}
      BY <1>7, <2>0, <2>2, SerializeFacts
    <3> QED
      BY <2>2, <3>1, GatherMore
  <2>3. CASE r.cmd \in {"INCR", "DECR"} /\ ~Passed(d, t)
    <3>1. q = r
      BY <1>7, <2>0, <2>3, SerializeFacts
    <3>2. Exact(k)
      BY <2>3 DEF Recoverable, LastingCounters, Exact
    <3>3. s = l
      BY <1>4, <2>3, <3>2 DEF Fits, Good
    <3>4. After(r, e, z) = After(r, s, 0)
      <4>1. r.cmd # "PEXPIRE" /\ Look(e, z) = Look(s, 0)
        BY <1>3, <1>5, <2>3, <3>3
      <4> QED
        BY <1>1, <1>2, <4>1, SameLook, SMT
    <3>5. After(r, s, 0) \in MaybeEntry
      BY <1>1, <1>2, AfterType DEF MaybeEntry
    <3> QED
      BY <3>1, <3>4, <3>5, GoodSelf DEF Fits
  <2>4. CASE r.cmd \in {"PEXPIRE", "PEXPIREAT", "PERSIST"} /\ ~Passed(d, t)
    <3>1. l # NoEntry /\ Good(k, l, s)
      BY <1>1, <1>2, <1>3, <1>4, <1>7, <2>4, Answers DEF Fits
    <3>2. s # NoEntry /\ s.val = l.val
      BY <3>1 DEF Good
    <3>3. CASE r.cmd \in {"PEXPIREAT", "PERSIST"}
      <4>1. q = r
        BY <1>7, <2>0, <3>3, SerializeFacts
      <4>2. After(r, e, z) = After(r, s, 0)
        BY <1>1, <1>3, <1>5, <3>1, <3>2, <3>3, AfterTtl, SMT
      <4>3. After(r, s, 0) \in MaybeEntry
        BY <1>1, <1>2, AfterType DEF MaybeEntry
      <4> QED
        BY <4>1, <4>2, <4>3, GoodSelf DEF Fits
    <3>4. CASE r.cmd = "PEXPIRE"
      <4>1. /\ q.cmd = "PEXPIREAT" /\ q.arg = Deadline(u, r.arg)
            /\ Deadline(z, r.arg) # 0 /\ Deadline(z, r.arg) <= q.arg
        BY <1>7, <2>0, <3>4, SerializeFacts, SMT
      <4>a. Deadline(z, r.arg) \in Time /\ q.arg \in Time
        <5>1. r.arg \in Int /\ TimeMod \in Nat \ {0} /\ u \in Nat
          BY <1>1, <1>2, <2>0, <3>4, KVAssumption, SMT DEF Executable
        <5> QED
          BY <1>1, <4>1, <5>1, SMT DEF Deadline, Time
      <4>2. After(r, e, z) = [val |-> l.val, exp |-> Deadline(z, r.arg)]
        BY <1>1, <1>3, <3>1, <3>4, AfterTtl, SMT
      <4>3. After(q, s, 0) = [val |-> s.val, exp |-> q.arg]
        BY <1>1, <1>5, <3>2, <4>1, AfterTtl, SMT
      <4>4. ~Exact(k)
        BY <3>4 DEF Exact
      <4>5. After(q, s, 0) # NoEntry
        BY <3>2, <4>3, <4>a, NoEntryAssumption, SMT DEF MaybeEntry, Entry
      <4>6. Good(k, After(r, e, z), After(q, s, 0))
        BY <3>2, <4>1, <4>2, <4>3, <4>4, <4>5, <4>a, SMT DEF Good, Time
      <4> QED
        BY <4>6 DEF Fits
    <3> QED
      BY <2>4, <3>3, <3>4
  <2>5. r.cmd \notin ReadCmds
    BY <1>7 DEF Logged, ReadCmds
  <2> QED
    BY <1>2, <2>1, <2>2, <2>3, <2>4, <2>5 DEF Fits, Executable, Cmds, UpdateCmds
<1> QED
  BY <1>6, <1>7

(* What is logged can be executed and is never PEXPIRE.                    *)
LEMMA LoggableFacts ==
  ASSUME Recoverable, NEW r \in Requests, NEW u \in 1 .. MaxTime, NEW q, q = Serialize(r, u)
  PROVE  Executable(q) /\ q.cmd # "PEXPIRE" /\ KeysOf(q) = KeysOf(r)
<1>1. Executable(r)
  BY ServerAssumption, RequestFacts
<1>2. CASE r.cmd # "PEXPIRE"
  BY <1>1, <1>2, SerializeFacts
<1>3. CASE r.cmd = "PEXPIRE"
  <2>1. q.cmd = "PEXPIREAT" /\ q.arg = Deadline(u, r.arg) /\ KeysOf(q) = KeysOf(r)
    BY <1>3, SerializeFacts
  <2>2. r.arg \in Int /\ TimeMod \in Nat \ {0} /\ u \in Nat
    BY <1>1, <1>3, KVAssumption, ServerAssumption, SMT DEF Executable
  <2>3. q.arg \in Time
    BY <2>1, <2>2, SMT DEF Deadline, Time
  <2> QED
    BY <2>1, <2>3 DEF Executable, Cmds
<1> QED
  BY <1>2, <1>3

(* Time passes: a deadline that has passed stays so.                       *)
LEMMA LaterFits ==
  ASSUME NEW k, NEW e, NEW s, NEW d, NEW t \in Nat, NEW u \in Nat, t <= u, Fits(k, e, s, d, t)
  PROVE  Fits(k, e, s, d, u)
<1>1. \A x \in 1 .. t : x \in 1 .. u
  BY SMT
<1> QED
  BY <1>1 DEF Fits, Passed

-----------------------------------------------------------------------------
(* The deadlines of a file, as it grows.                                   *)

(* An empty file gives none.                                               *)
LEMMA NoDates ==
  ASSUME NEW f, NEW k
  PROVE  Deadlines(f, 0, k) = {}
BY SMT DEF Deadlines

(* They depend on the commands up to the last one that is counted.         *)
LEMMA SameDeadlines ==
  ASSUME NEW f, NEW g, NEW n \in Nat, NEW k, \A m \in 1 .. n : f[m] = g[m]
  PROVE  Deadlines(f, n, k) = Deadlines(g, n, k)
<1>1. \A m \in 1 .. n : \A i \in m + 1 .. n : i \in 1 .. n
  BY SMT
<1> DEFINE Sets(h, m) == h[m].req.cmd = "PEXPIREAT" /\ k \in KeysOf(h[m].req)
           Lasts(h, m) == \A i \in m + 1 .. n : h[i].req.cmd \in {"SET", "DEL"} => k \notin KeysOf(h[i].req)
<1>2. \A m \in 1 .. n : (Sets(f, m) <=> Sets(g, m)) /\ f[m].req.arg = g[m].req.arg
  OBVIOUS
<1>3. \A m \in 1 .. n : Lasts(f, m) <=> Lasts(g, m)
  BY <1>1
<1>4. Deadlines(f, n, k) = {f[m].req.arg : m \in {m \in 1 .. n : Sets(f, m) /\ Lasts(f, m)}}
  BY DEF Deadlines
<1>5. Deadlines(g, n, k) = {g[m].req.arg : m \in {m \in 1 .. n : Sets(g, m) /\ Lasts(g, m)}}
  BY DEF Deadlines
<1> HIDE DEF Sets, Ends
<1>6. {m \in 1 .. n : Sets(f, m) /\ Lasts(f, m)} = {m \in 1 .. n : Sets(g, m) /\ Lasts(g, m)}
  BY <1>2, <1>3
<1>7. PICK A : A = {m \in 1 .. n : Sets(f, m) /\ Lasts(f, m)} /\ A \subseteq 1 .. n
  OBVIOUS
<1>8. \A m \in A : f[m].req.arg = g[m].req.arg
  BY <1>2, <1>7
<1>9. Deadlines(f, n, k) = {f[m].req.arg : m \in A} /\ Deadlines(g, n, k) = {g[m].req.arg : m \in A}
  BY <1>4, <1>5, <1>6, <1>7
<1> QED
  BY <1>8, <1>9, SMT

(* One more command.                                                       *)
LEMMA NextDeadlines ==
  ASSUME NEW f, NEW n \in Nat, NEW k
  PROVE  Deadlines(f, n + 1, k) = Gather(f[n + 1].req, k, Deadlines(f, n, k))
<1> DEFINE Sets(m) == f[m].req.cmd = "PEXPIREAT" /\ k \in KeysOf(f[m].req)
           Wipes(i) == f[i].req.cmd \in {"SET", "DEL"} /\ k \in KeysOf(f[i].req)
           Open(m, l) == \A i \in m + 1 .. l : ~Wipes(i)
           Upto(l) == {m \in 1 .. l : Sets(m) /\ Open(m, l)}
<1>1. \A l : Deadlines(f, l, k) = {f[m].req.arg : m \in Upto(l)}
  BY DEF Deadlines
<1>2. /\ \A m : m \in 1 .. n + 1 <=> m \in 1 .. n \/ m = n + 1
      /\ \A m \in 1 .. n : \A i : i \in m + 1 .. n + 1 <=> i \in m + 1 .. n \/ i = n + 1
      /\ \A i : i \notin (n + 1) + 1 .. n + 1
      /\ n + 1 \notin 1 .. n
  BY SMT
<1>3. \A m \in 1 .. n : Open(m, n + 1) <=> Open(m, n) /\ ~Wipes(n + 1)
  BY <1>2
<1>4. Open(n + 1, n + 1)
  BY <1>2
<1>5. Sets(n + 1) => ~Wipes(n + 1)
  BY SMT
<1> HIDE DEF Open
<1>6. CASE Wipes(n + 1)
  <2>1. Upto(n + 1) = {}
    BY <1>2, <1>3, <1>5, <1>6
  <2>2. Gather(f[n + 1].req, k, Deadlines(f, n, k)) = {}
    BY <1>6 DEF Gather
  <2> QED
    BY <1>1, <2>1, <2>2
<1>7. CASE Sets(n + 1)
  <2>1. Upto(n + 1) = Upto(n) \cup {n + 1}
    BY <1>2, <1>3, <1>4, <1>5, <1>7
  <2>2. Gather(f[n + 1].req, k, Deadlines(f, n, k)) = Deadlines(f, n, k) \cup {f[n + 1].req.arg}
    BY <1>7 DEF Gather
  <2> HIDE DEF Upto
  <2> QED
    BY <1>1, <2>1, <2>2
<1>8. CASE ~Sets(n + 1) /\ ~Wipes(n + 1)
  <2>1. Upto(n + 1) = Upto(n)
    BY <1>2, <1>3, <1>8
  <2>2. Gather(f[n + 1].req, k, Deadlines(f, n, k)) = Deadlines(f, n, k)
    BY <1>8 DEF Gather
  <2> HIDE DEF Upto
  <2> QED
    BY <1>1, <2>1, <2>2
<1> QED
  BY <1>6, <1>7, <1>8

(* They stay the same when a frame is appended, but for that frame's.      *)
LEMMA MoreDeadlines ==
  ASSUME NEW f \in Seq(Frames), NEW x \in Frames, NEW k
  PROVE  LET g == Append(f, x)
         IN  /\ \A m \in 0 .. Len(f) : Deadlines(g, m, k) = Deadlines(f, m, k)
             /\ Deadlines(g, Len(f) + 1, k) = Gather(x.req, k, Deadlines(f, Len(f), k))
<1>0. PICK g : g = Append(f, x)
  OBVIOUS
<1>1. PICK n \in Nat : n = Len(f)
  BY SMT
<1>2. g[n + 1] = x /\ n \in 0 .. n
  BY <1>0, <1>1, SMT
<1>3. \A m \in 0 .. n : m \in Nat /\ \A i \in 1 .. m : g[i] = f[i]
  BY <1>0, <1>1, SMT
<1>4. ASSUME NEW m \in 0 .. n PROVE Deadlines(g, m, k) = Deadlines(f, m, k)
  <2>1. m \in Nat
    BY <1>3
  <2>2. \A i \in 1 .. m : g[i] = f[i]
    BY <1>3
  <2> QED
    BY ONLY <2>1, <2>2, SameDeadlines, SMT
<1>5. Deadlines(g, n + 1, k) = Gather(x.req, k, Deadlines(g, n, k))
  BY <1>2, NextDeadlines
<1> QED
  BY <1>0, <1>1, <1>2, <1>4, <1>5

-----------------------------------------------------------------------------
(* The steps of the engine and of the threads.                             *)

(* The first key of a request, and the others.                             *)
LEMMA FirstKey ==
  ASSUME NEW r, IsRequest(r)
  PROVE  /\ Head(r.keys) \in KeysOf(r) /\ KeysOf(r) \subseteq Keys
         /\ Len(r.keys) = 1 => KeysOf(r) = {Head(r.keys)}
         /\ Len(r.keys) > 1 => /\ KeysOf(Rest(r)) \subseteq KeysOf(r)
                               /\ KeysOf(r) \subseteq KeysOf(Rest(r)) \cup {Head(r.keys)}
<1>1. PICK q \in Seq(Keys) : q = r.keys /\ q # <<>>
  BY RequestFacts
<1>2. KeysOf(r) = {q[i] : i \in DOMAIN q}
  BY <1>1 DEF KeysOf
<1>3. Len(q) \in Nat /\ Len(q) >= 1 /\ DOMAIN q = 1 .. Len(q) /\ Head(q) = q[1]
  BY <1>1, SMT
<1>4. Head(q) \in KeysOf(r) /\ KeysOf(r) \subseteq Keys
  BY <1>2, <1>3, SMT
<1>5. ASSUME Len(q) = 1 PROVE KeysOf(r) = {Head(q)}
  BY <1>2, <1>3, <1>5, SMT
<1>6. ASSUME Len(q) > 1
      PROVE  /\ KeysOf(Rest(r)) \subseteq KeysOf(r)
             /\ KeysOf(r) \subseteq KeysOf(Rest(r)) \cup {Head(q)}
  <2>1. PICK u : u = Tail(q)
    OBVIOUS
  <2>2. KeysOf(Rest(r)) = {u[i] : i \in DOMAIN u}
    BY <1>1, <2>1 DEF KeysOf, Rest
  <2>3. DOMAIN u = 1 .. Len(q) - 1 /\ \A i \in 1 .. Len(q) - 1 : u[i] = q[i + 1]
    BY <1>3, <1>6, <2>1, SMT
  <2>4. \A i \in DOMAIN u : u[i] \in KeysOf(r)
    BY <1>2, <1>3, <2>3, SMT
  <2>5. \A i \in DOMAIN q : i # 1 => i - 1 \in DOMAIN u /\ u[i - 1] = q[i]
    BY <1>3, <2>3, SMT
  <2>6. \A i \in DOMAIN q : q[i] \in KeysOf(Rest(r)) \cup {Head(q)}
    BY <1>3, <2>2, <2>5
  <2> QED
    BY <1>2, <2>2, <2>4, <2>6
<1> QED
  BY <1>1, <1>4, <1>5, <1>6

(* The engine's step for one key, when nothing is refused.                 *)
OneKey(c, r, h, a) ==
  /\ r = req[c] /\ h = Head(r.keys) /\ IsRequest(r) /\ Executable(r)
  /\ h \in KeysOf(r) /\ h \in Keys /\ map[h] \in MaybeEntry
  /\ a = Result(r, map[h], at[c], cnt[c])
  /\ map' = [map EXCEPT ![h] = After(r, map[h], at[c])]
LastKey(c, r, h, a) ==
  /\ KeysOf(r) = {h}
  /\ pc' = [pc EXCEPT ![c] = "log"]
  /\ req' = [req EXCEPT ![c] = NoRequest]
  /\ cnt' = [cnt EXCEPT ![c] = 0]
  /\ resp' = [resp EXCEPT ![c] = a]
MoreKeys(c, r, h, a) ==
  /\ r.cmd \in {"DEL", "EXISTS"} /\ IsRequest(Rest(r))
  /\ KeysOf(Rest(r)) \subseteq KeysOf(r) /\ KeysOf(r) \subseteq KeysOf(Rest(r)) \cup {h}
  /\ pc' = [pc EXCEPT ![c] = "engine"]
  /\ req' = [req EXCEPT ![c] = Rest(r)]
  /\ cnt' = [cnt EXCEPT ![c] = a.val]
  /\ resp' = resp /\ at' = at

(* dispatch calls the engine, which deals with one key.                    *)
LEMMA EngineMoves ==
  ASSUME Recoverable, Calm, NEW c \in Clients, engine_step(c)
  PROVE  /\ \E r, h, a : OneKey(c, r, h, a) /\ (LastKey(c, r, h, a) \/ MoreKeys(c, r, h, a))
         /\ pc[c] = "engine" /\ at[c] \in 1 .. clock /\ clock \in 1 .. MaxTime /\ at[c] \in Nat
         /\ \A d \in Clients : d # c => at'[d] = at[d]
         /\ UNCHANGED <<clock, limited, state, pos, off, cmd, frame, aof, calls, crashes, promised,
                        late, before, unlogged>>
<1>1. /\ pc[c] = "engine" /\ limited = FALSE
      /\ UNCHANGED <<state, pos, off, cmd, frame, aof, calls, crashes, promised, late, before, unlogged>>
  BY DEF engine_step, Calm
<1>2. Engine!Perform(c) /\ UNCHANGED <<clock, limited>>
  BY <1>1 DEF engine_step, Engine!Refuse, Engine!Perform
<1>3. pc' = [pc EXCEPT ![c] = IF req'[c] = NoRequest THEN "log" ELSE "engine"]
  BY DEF engine_step, Goto
<1>4. /\ map \in Store /\ DOMAIN req = Clients /\ cnt[c] \in Nat /\ Busy(c)
      /\ DOMAIN at = Clients /\ clock \in 1 .. MaxTime
  BY <1>1 DEF Calm, ThreadInv, TypeInv, TypeOK
<1>5. PICK r : r = req[c]
  OBVIOUS
<1>6. IsRequest(r) /\ Executable(r) /\ at[c] \in 1 .. clock /\ at[c] \in Nat
  <2>1. IsRequest(r) /\ at[c] \in 1 .. clock
    BY <1>4, <1>5 DEF Busy
  <2> QED
    BY <2>1, RequestFacts, SMT
<1>7. PICK h \in Keys : h = Head(r.keys)
  BY <1>6, RequestFacts
<1>8. PICK e \in MaybeEntry : e = map[h]
  BY <1>4 DEF Store, MaybeEntry
<1>9. PICK a : a = Result(r, e, at[c], cnt[c])
  OBVIOUS
<1>11. map' = [map EXCEPT ![h] = After(r, e, at[c])]
  <2>1. Engine!After(r, e, at[c]) = After(r, e, at[c])
    BY EngineOps
  <2>2. map' = [map EXCEPT ![h] = Engine!After(r, e, at[c])]
    BY <1>2, <1>5, <1>7, <1>8 DEF Engine!Perform
  <2> QED
    BY <2>1, <2>2
<1>12. OneKey(c, r, h, a)
  BY <1>4, <1>5, <1>6, <1>7, <1>8, <1>9, <1>11, FirstKey DEF OneKey
<1>13. CASE Len(r.keys) = 1
  <2>1. /\ req' = [req EXCEPT ![c] = NoRequest]
        /\ at' = [at EXCEPT ![c] = 0]
        /\ cnt' = [cnt EXCEPT ![c] = 0]
        /\ resp' = [resp EXCEPT ![c] = a]
    BY <1>2, <1>5, <1>7, <1>8, <1>9, <1>13, EngineOps, SMT DEF Engine!Perform, Engine!Finish
  <2>2. req'[c] = NoRequest /\ \A d \in Clients : d # c => at'[d] = at[d]
    BY <1>4, <2>1
  <2>3. KeysOf(r) = {h}
    BY <1>6, <1>7, <1>13, FirstKey
  <2>4. LastKey(c, r, h, a)
    BY <1>3, <2>1, <2>2, <2>3 DEF LastKey
  <2> QED
    BY <1>1, <1>2, <1>4, <1>6, <1>12, <2>2, <2>4
<1>14. CASE Len(r.keys) # 1
  <2>1. /\ req' = [req EXCEPT ![c] = Rest(r)]
        /\ cnt' = [cnt EXCEPT ![c] = a.val]
        /\ resp' = resp /\ at' = at
        /\ Len(r.keys) > 1
    BY <1>2, <1>5, <1>7, <1>8, <1>9, <1>14, EngineOps, SMT DEF Engine!Perform, Engine!Finish
  <2>2. IsRequest(Rest(r)) /\ r.cmd \in {"DEL", "EXISTS"}
    BY <1>6, <1>14, <2>1, TailRequest DEF IsRequest
  <2>3. req'[c] = Rest(r) /\ Rest(r) # NoRequest
    BY <1>4, <2>1, <2>2, ServerAssumption
  <2>4. /\ KeysOf(Rest(r)) \subseteq KeysOf(r) /\ KeysOf(r) \subseteq KeysOf(Rest(r)) \cup {h}
    BY <1>6, <1>7, <2>1, FirstKey
  <2>5. MoreKeys(c, r, h, a)
    BY <1>3, <2>1, <2>2, <2>3, <2>4, ZenonT(30) DEF MoreKeys
  <2> QED
    BY <1>1, <1>2, <1>4, <1>6, <1>12, <2>1, <2>5
<1> QED
  BY <1>13, <1>14

(* A thread keeps its part of the state when only others move.             *)
LEMMA KeepThread ==
  ASSUME NEW d \in Clients, ThreadInv(d), clock \in Nat, clock' \in Nat, clock <= clock',
         pc'[d] = pc[d], cmd'[d] = cmd[d], req'[d] = req[d], cnt'[d] = cnt[d],
         resp'[d] = resp[d], frame'[d] = frame[d], at'[d] = at[d]
  PROVE  ThreadInv(d)'
<1>1. at[d] \in 1 .. clock => at[d] \in 1 .. clock'
  BY SMT
<1>2. Busy(d) => Busy(d)'
  BY <1>1 DEF Busy
<1>3. Logged(cmd[d], resp[d]) => Logged(cmd[d], resp[d])'
  BY DEF Logged
<1>4. pc[d] = "append" => (\E u \in 1 .. MaxTime : frame[d].req = Serialize(cmd[d], u))'
  BY DEF ThreadInv, Idle
<1> QED
  BY <1>2, <1>3, <1>4 DEF ThreadInv, Idle

(* A request is read.                                                      *)
LEMMA ReadCalm ==
  ASSUME Calm, TypeInv', NEW c \in Clients, NEW r \in Requests, read_request(c, r)
  PROVE  Calm'
<1>0. /\ DOMAIN req = Clients /\ DOMAIN cnt = Clients /\ DOMAIN resp = Clients
      /\ DOMAIN at = Clients /\ DOMAIN pc = Clients /\ DOMAIN cmd = Clients
      /\ \A d \in Clients : ThreadInv(d)
  BY DEF Calm, TypeInv, TypeOK
<1>1. /\ UNCHANGED <<map, clock, limited, cnt, frame, aof, state, off, crashes, unlogged>>
      /\ state # "loading" /\ pc[c] = "read" /\ r \in Calls[c]
      /\ pc' = [pc EXCEPT ![c] = "engine"]
      /\ cmd' = [cmd EXCEPT ![c] = r]
      /\ req' = [req EXCEPT ![c] = r]
      /\ at' = [at EXCEPT ![c] = clock]
      /\ resp' = [resp EXCEPT ![c] = NoReply]
  BY EngineOps DEF read_request, Engine!Invoke, Goto
<1>2. clock \in Nat /\ clock \in 1 .. clock /\ clock <= clock
  BY Clocks
<1>3. ThreadInv(c)'
  <2>1. /\ req'[c] = r /\ cmd'[c] = r /\ pc'[c] = "engine" /\ cnt'[c] = 0 /\ IsRequest(r)
        /\ at'[c] = clock
    BY <1>0, <1>1, ServerAssumption DEF ThreadInv, Idle
  <2>2. at'[c] \in 1 .. clock' /\ cnt'[c] \in Nat
    BY <1>1, <1>2, <2>1, SMT
  <2> QED
    BY <1>1, <2>1, <2>2 DEF ThreadInv, Idle, Busy
<1>4. ASSUME NEW d \in Clients, d # c PROVE ThreadInv(d)'
  <2>1. /\ req'[d] = req[d] /\ cmd'[d] = cmd[d] /\ pc'[d] = pc[d] /\ cnt'[d] = cnt[d]
        /\ resp'[d] = resp[d] /\ frame'[d] = frame[d] /\ at'[d] = at[d]
    BY <1>0, <1>1, <1>4
  <2> QED
    BY <1>0, <1>1, <1>2, <2>1, KeepThread
<1>5. Scar'
  BY <1>1 DEF Calm, Scar, Sealed
<1>6. DOMAIN cnt' = Clients /\ DOMAIN resp' = Clients
  BY <1>0, <1>1
<1> QED
  BY <1>1, <1>3, <1>4, <1>5, <1>6 DEF Calm, Loggable

(* The engine's part of a command.                                         *)
LEMMA EngineCalm ==
  ASSUME Recoverable, Calm, TypeInv', NEW c \in Clients, engine_step(c)
  PROVE  Calm'
<1>0. /\ DOMAIN req = Clients /\ DOMAIN cnt = Clients /\ DOMAIN resp = Clients
      /\ DOMAIN pc = Clients /\ DOMAIN cmd = Clients /\ limited = FALSE
      /\ \A d \in Clients : ThreadInv(d)
  BY DEF Calm, TypeInv, TypeOK
<1>1. PICK r, h, a : OneKey(c, r, h, a) /\ (LastKey(c, r, h, a) \/ MoreKeys(c, r, h, a))
  BY EngineMoves
<1>2. /\ pc[c] = "engine" /\ UNCHANGED <<clock, limited, state, off, cmd, frame, aof, crashes, unlogged>>
      /\ at[c] \in 1 .. clock /\ at[c] \in Nat
      /\ \A d \in Clients : d # c => at'[d] = at[d]
  BY EngineMoves
<1>3. state # "loading"
  BY <1>2 DEF Calm
<1>4. Busy(c) /\ cnt[c] \in Nat /\ cmd[c] \in Calls[c] /\ r = req[c]
  BY <1>0, <1>1, <1>2 DEF ThreadInv, Idle, OneKey
<1>5. clock \in Nat /\ clock <= clock
  <2>1. clock \in 1 .. MaxTime
    BY Clocks
  <2> QED
    BY ONLY <2>1, SMT
<1>6. ASSUME NEW d \in Clients, d # c PROVE ThreadInv(d)'
  <2>1. req'[d] = req[d] /\ pc'[d] = pc[d] /\ cnt'[d] = cnt[d] /\ resp'[d] = resp[d]
    BY <1>0, <1>1, <1>6 DEF LastKey, MoreKeys
  <2> QED
    BY <1>0, <1>2, <1>5, <1>6, <2>1, KeepThread
<1>7. Scar'
  BY <1>2 DEF Calm, Scar, Sealed
<1>8. DOMAIN cnt' = Clients /\ DOMAIN resp' = Clients
  BY <1>0, <1>1 DEF LastKey, MoreKeys
<1>9. ASSUME LastKey(c, r, h, a) PROVE ThreadInv(c)'
  <2>1. pc'[c] = "log" /\ req'[c] = NoRequest /\ cnt'[c] = 0
    BY <1>0, <1>9 DEF LastKey
  <2>2. cnt'[c] \in Nat
    BY <2>1, SMT
  <2> QED
    BY <1>2, <1>4, <2>1, <2>2 DEF ThreadInv, Idle
<1>10. ASSUME MoreKeys(c, r, h, a) PROVE ThreadInv(c)'
  <2>0. a.val \in Nat
    <3>1. Executable(r) /\ r.cmd \in {"DEL", "EXISTS"}
      BY <1>1, <1>10 DEF OneKey, MoreKeys
    <3>2. PICK e \in MaybeEntry : e = map[h]
      BY <1>1 DEF OneKey
    <3>3. PICK n \in Nat : n = cnt[c]
      BY <1>4
    <3>4. a = Result(r, e, at[c], n)
      BY <1>1, <3>2, <3>3 DEF OneKey
    <3>5. r.cmd = "DEL" => Result(r, e, at[c], n).val = n + (IF e = NoEntry THEN 0 ELSE 1)
      BY <1>2, <3>1, Answers, SMT
    <3>6. r.cmd = "EXISTS" => Result(r, e, at[c], n).val \in Nat
      BY <1>2, <3>1, Answers
    <3> QED
      BY <3>1, <3>4, <3>5, <3>6, SMT
  <2>1. pc'[c] = "engine" /\ req'[c] = Rest(r) /\ cnt'[c] = a.val /\ at' = at
    BY <1>0, <1>10 DEF MoreKeys
  <2>2. Rest(r).cmd = r.cmd /\ Rest(r).arg = r.arg
    BY DEF Rest
  <2>3. r.cmd \in {"DEL", "EXISTS"} /\ IsRequest(Rest(r)) /\ KeysOf(Rest(r)) \subseteq KeysOf(r)
    BY <1>10 DEF MoreKeys
  <2>4. Busy(c)'
    BY <1>2, <1>4, <2>1, <2>2, <2>3 DEF Busy
  <2> QED
    BY <1>2, <1>4, <2>0, <2>1, <2>4 DEF ThreadInv, Idle
<1>11. ThreadInv(c)'
  BY <1>1, <1>9, <1>10
<1> QED
  BY <1>0, <1>2, <1>3, <1>6, <1>7, <1>8, <1>11 DEF Calm, Loggable

(* The dispatcher serializes a command, or has nothing to log.             *)
LEMMA SerializeCalm ==
  ASSUME Recoverable, Calm, TypeInv', NEW c \in Clients, serialize(c)
  PROVE  Calm'
<1>0. /\ DOMAIN pc = Clients /\ DOMAIN frame = Clients
      /\ \A d \in Clients : ThreadInv(d)
  BY DEF Calm, TypeInv, TypeOK
<1>1. /\ UNCHANGED <<map, clock, limited, req, at, cnt, resp, state, off, cmd, aof, crashes, unlogged>>
      /\ pc[c] = "log"
      /\ pc' = [pc EXCEPT ![c] = IF Logged(cmd[c], resp[c]) THEN "append" ELSE "reply"]
      /\ frame' = IF Logged(cmd[c], resp[c])
                  THEN [frame EXCEPT ![c] = Frame(Serialize(cmd[c], clock), Id(c), TRUE)]
                  ELSE frame
  BY DEF serialize, Goto, engineVars
<1>2. cmd[c] \in Calls[c] /\ req[c] = NoRequest /\ cnt[c] = 0 /\ cnt[c] \in Nat
  BY <1>0, <1>1 DEF ThreadInv, Idle
<1>3. clock \in Nat /\ clock <= clock /\ clock \in 1 .. MaxTime
  BY Clocks
<1>4. state # "loading"
  BY <1>1 DEF Calm
<1>5. CASE Logged(cmd[c], resp[c])
  <2>1. pc'[c] = "append" /\ frame'[c] = Frame(Serialize(cmd[c], clock), Id(c), TRUE)
    BY <1>0, <1>1, <1>5
  <2>2. frame'[c].req = Serialize(cmd[c], clock) /\ frame'[c].whole
    BY <2>1, SMT DEF Frame
  <2>3. Logged(cmd[c], resp[c])'
    BY <1>1, <1>5 DEF Logged
  <2>4. (\E u \in 1 .. MaxTime : frame[c].req = Serialize(cmd[c], u))'
    BY <1>1, <1>3, <2>2
  <2>5. ThreadInv(c)'
    BY <1>1, <1>2, <2>1, <2>2, <2>3, <2>4 DEF ThreadInv, Idle
  <2>6. ASSUME NEW d \in Clients, d # c PROVE ThreadInv(d)'
    <3>1. pc'[d] = pc[d] /\ frame'[d] = frame[d]
      BY <1>0, <1>1, <2>6
    <3> QED
      BY <1>0, <1>1, <1>3, <3>1, KeepThread
  <2> QED
    BY <1>1, <1>4, <2>5, <2>6 DEF Calm, Scar, Sealed, Loggable
<1>6. CASE ~Logged(cmd[c], resp[c])
  <2>1. pc'[c] = "reply"
    BY <1>0, <1>1, <1>6
  <2>2. ThreadInv(c)'
    BY <1>1, <1>2, <2>1 DEF ThreadInv, Idle
  <2>3. ASSUME NEW d \in Clients, d # c PROVE ThreadInv(d)'
    <3>1. pc'[d] = pc[d] /\ frame'[d] = frame[d]
      BY <1>0, <1>1, <1>6, <2>3
    <3> QED
      BY <1>0, <1>1, <1>3, <3>1, KeepThread
  <2> QED
    BY <1>1, <1>4, <2>2, <2>3 DEF Calm, Scar, Sealed, Loggable
<1> QED
  BY <1>5, <1>6

(* The frame of a command that has been serialized.                        *)
LEMMA FrameFacts ==
  ASSUME Recoverable, Calm, NEW c \in Clients, pc[c] = "append"
  PROVE  /\ frame[c] \in Frames /\ IsFrame(frame[c]) /\ frame[c].whole
         /\ Loggable(frame[c].req) /\ Executable(frame[c].req) /\ frame[c].req.cmd # "PEXPIRE"
         /\ KeysOf(frame[c].req) = KeysOf(cmd[c]) /\ KeysOf(cmd[c]) \subseteq Keys
         /\ Logged(cmd[c], resp[c])
<1>1. cmd[c] \in Requests /\ IsFrame(frame[c])
  BY DEF Calm, TypeInv, TypeOK, Asked, Idle
<1>2. PICK u \in 1 .. MaxTime : frame[c].req = Serialize(cmd[c], u)
  BY DEF Calm, ThreadInv
<1>3. KeysOf(cmd[c]) \subseteq Keys
  BY <1>1, FirstKey, ServerAssumption
<1>4. frame[c].whole /\ Logged(cmd[c], resp[c])
  BY DEF Calm, ThreadInv
<1> QED
  BY <1>1, <1>2, <1>3, <1>4, LoggableFacts DEF Loggable, IsFrame

(* The file grows by one frame.                                            *)
LEMMA FileGrows ==
  ASSUME aof \in Seq(Frames), NEW f \in Frames, aof' = Append(aof, f)
  PROVE  /\ Len(aof) \in Nat /\ Len(aof') = Len(aof) + 1
         /\ DOMAIN aof = 1 .. Len(aof) /\ DOMAIN aof' = 1 .. Len(aof) + 1
         /\ aof'[Len(aof) + 1] = f
         /\ \A m \in 1 .. Len(aof) : aof'[m] = aof[m]
         /\ \A m \in DOMAIN aof' : m \in DOMAIN aof \/ m = Len(aof) + 1
BY SMT

(* AOFLogger::log.                                                         *)
LEMMA LogCalm ==
  ASSUME Recoverable, Calm, TypeInv', NEW c \in Clients, log(c)
  PROVE  Calm' /\ (Sealed <=> Sealed')
<1>0. /\ DOMAIN pc = Clients /\ aof \in Seq(Frames)
      /\ \A d \in Clients : ThreadInv(d)
  BY DEF Calm, TypeInv, TypeOK
<1>1. /\ UNCHANGED <<map, clock, limited, req, at, cnt, resp, state, off, cmd, frame, crashes>>
      /\ pc[c] = "append"
      /\ pc' = [pc EXCEPT ![c] = "reply"]
      /\ aof' \in {aof, Append(aof, frame[c])}
  BY DEF log, Goto, engineVars
<1>2. clock \in Nat /\ clock <= clock
  BY Clocks
<1>3. state # "loading"
  BY <1>1 DEF Calm
<1>4. frame[c] \in Frames /\ frame[c].whole /\ Loggable(frame[c].req)
  BY <1>1, FrameFacts
<1>5. (\A n \in DOMAIN aof' : Loggable(aof'[n].req)) /\ (Sealed <=> Sealed')
  <2>1. CASE aof' = aof
    BY <2>1 DEF Calm, Sealed
  <2>2. CASE aof' = Append(aof, frame[c])
    <3>1. /\ DOMAIN aof = 1 .. Len(aof)
          /\ aof'[Len(aof) + 1] = frame[c]
          /\ \A m \in DOMAIN aof : m \in DOMAIN aof' /\ aof'[m] = aof[m]
          /\ \A m \in DOMAIN aof' : m \in DOMAIN aof \/ m = Len(aof) + 1
      BY <1>0, <1>4, <2>2, FileGrows, SMT
    <3>2. \A n \in DOMAIN aof' : Loggable(aof'[n].req)
      BY <1>4, <3>1 DEF Calm
    <3>3. Sealed <=> Sealed'
      BY <1>4, <3>1 DEF Sealed
    <3> QED
      BY <3>2, <3>3
  <2> QED
    BY <1>1, <2>1, <2>2
<1>6. ASSUME NEW d \in Clients PROVE ThreadInv(d)'
  <2>1. CASE d = c
    <3>1. pc'[c] = "reply" /\ cmd[c] \in Calls[c] /\ req[c] = NoRequest /\ cnt[c] = 0 /\ cnt[c] \in Nat
      BY <1>0, <1>1 DEF ThreadInv, Idle
    <3> QED
      BY <1>1, <2>1, <3>1 DEF ThreadInv, Idle
  <2>2. CASE d # c
    <3>1. pc'[d] = pc[d]
      BY <1>0, <1>1, <2>2
    <3> QED
      BY <1>0, <1>1, <1>2, <3>1, KeepThread
  <2> QED
    BY <2>1, <2>2
<1>7. Scar'
  BY <1>1, <1>3, <1>5 DEF Calm, Scar
<1> QED
  BY <1>1, <1>3, <1>5, <1>6, <1>7 DEF Calm, Loggable

(* The answer.                                                             *)
LEMMA ReplyCalm ==
  ASSUME Calm, TypeInv', NEW c \in Clients, reply(c)
  PROVE  Calm'
<1>0. /\ DOMAIN pc = Clients /\ DOMAIN cmd = Clients /\ DOMAIN frame = Clients
      /\ \A d \in Clients : ThreadInv(d)
  BY DEF Calm, TypeInv, TypeOK
<1>1. PICK p \in {"read", "gone"} :
        /\ UNCHANGED <<map, clock, limited, req, at, cnt, resp, state, off, aof, crashes, unlogged>>
        /\ pc[c] = "reply"
        /\ pc' = [pc EXCEPT ![c] = p]
        /\ cmd' = [cmd EXCEPT ![c] = NoRequest]
        /\ frame' = [frame EXCEPT ![c] = NoFrame]
  BY DEF reply, Goto, engineVars
<1>2. clock \in Nat /\ clock <= clock
  BY Clocks
<1>3. state # "loading"
  BY <1>1 DEF Calm
<1>4. ThreadInv(c)'
  <2>1. pc'[c] \in {"read", "gone"} /\ req[c] = NoRequest /\ cnt[c] = 0 /\ cnt[c] \in Nat
    BY <1>0, <1>1 DEF ThreadInv, Idle
  <2> QED
    BY <1>1, <2>1 DEF ThreadInv, Idle
<1>5. ASSUME NEW d \in Clients, d # c PROVE ThreadInv(d)'
  <2>1. pc'[d] = pc[d] /\ frame'[d] = frame[d] /\ cmd'[d] = cmd[d]
    BY <1>0, <1>1, <1>5
  <2> QED
    BY <1>0, <1>1, <1>2, <2>1, KeepThread
<1> QED
  BY <1>1, <1>3, <1>4, <1>5 DEF Calm, Scar, Sealed, Loggable

Cut(c) == Torn(frame[c])

(* The end of a process finds the file whole, and leaves it as it is or    *)
(* with one cut frame, which no other end will follow.                     *)
LEMMA EndLeaves ==
  ASSUME Recoverable, Calm, Crash \/ exit
  PROVE  /\ Sealed /\ Ends
         /\ \/ aof' = aof
            \/ \E c \in Clients : /\ pc[c] = "append" /\ aof' = Append(aof, Cut(c))
                                  /\ crashes' = MaxCrashes
<1>1. crashes \in 0 .. MaxCrashes /\ MaxCrashes \in Nat
  BY ServerAssumption DEF Calm, TypeInv, TypeOK
<1>2. Sealed
  <2>1. crashes < MaxCrashes => crashes # MaxCrashes
    BY <1>1, SMT
  <2> QED
    BY <2>1 DEF Calm, Scar, Crash, exit
<1>3. ASSUME Crash, NEW how \in Failures, aof' \in FileAfter(how)
      PROVE  \/ aof' = aof
             \/ \E c \in Clients : /\ pc[c] = "append" /\ aof' = Append(aof, Cut(c))
                                   /\ crashes' = MaxCrashes
  <2>1. how \in {"kill", "torn", "stop"}
    BY ServerAssumption DEF Recoverable, Intact
  <2>2. CASE how = "kill"
    BY <1>3, <2>2 DEF FileAfter
  <2>3. CASE how = "stop"
    BY <1>3, <2>3 DEF FileAfter
  <2>4. CASE how = "torn"
    <3>1. PICK c \in Clients : pc[c] = "append" /\ aof' = Append(aof, Cut(c))
      BY <1>3, <2>4 DEF FileAfter, Writing, Cut
    <3>2. MaxCrashes <= 1 /\ crashes < MaxCrashes /\ crashes' = crashes + 1
      BY <1>3, <2>4 DEF Recoverable, Intact, Crash
    <3>3. crashes' = MaxCrashes
      BY <1>1, <3>2, SMT
    <3> QED
      BY <3>1, <3>3
  <2> QED
    BY <2>1, <2>2, <2>3, <2>4
<1> QED
  BY <1>2, <1>3 DEF Crash, exit

(* What is left of a frame that was being written.                         *)
LEMMA CutFacts ==
  ASSUME Recoverable, Calm, NEW c \in Clients, pc[c] = "append"
  PROVE  Cut(c) \in Frames /\ Cut(c).req = frame[c].req /\ Cut(c).whole = FALSE
<1>1. PICK f \in Frames : f = frame[c] /\ Cut(c) = [f EXCEPT !.whole = FALSE]
  BY FrameFacts DEF Cut, Torn
<1>2. [f EXCEPT !.whole = FALSE] \in Frames
  BY DEF Frames
<1>3. [f EXCEPT !.whole = FALSE].req = f.req /\ [f EXCEPT !.whole = FALSE].whole = FALSE
  BY DEF Frames
<1> QED
  BY <1>1, <1>2, <1>3

(* Nothing in memory survives the end of a process.                        *)
LEMMA EndCalm ==
  ASSUME Recoverable, Calm, TypeInv', Crash \/ exit
  PROVE  Calm'
<1>1. /\ state' = "loading" /\ off' = 0 /\ limited' = FALSE
      /\ req' = [c \in Clients |-> NoRequest]
      /\ cnt' = [c \in Clients |-> 0]
      /\ DOMAIN resp' = Clients
      /\ pc' = [c \in Clients |-> "new"]
  BY DEF Crash, exit, Ends, Restart
<1>2. \A c \in Clients : ThreadInv(c)'
  <2>1. 0 \in Nat
    BY SMT
  <2> QED
    BY <1>1, <2>1 DEF ThreadInv, Idle
<1>3. Sealed
  BY EndLeaves
<1>4. CASE aof' = aof
  <2>1. Scar'
    BY <1>3, <1>4 DEF Scar, Sealed
  <2> QED
    BY <1>1, <1>2, <1>4, <2>1 DEF Calm, Loggable
<1>5. ASSUME NEW c \in Clients, pc[c] = "append", aof' = Append(aof, Cut(c)), crashes' = MaxCrashes
      PROVE  Calm'
  <2>1. Cut(c) \in Frames /\ Cut(c).req = frame[c].req /\ ~Cut(c).whole
    BY <1>5, CutFacts
  <2>2. /\ Len(aof') = Len(aof) + 1 /\ aof'[Len(aof) + 1] = Cut(c)
        /\ DOMAIN aof = 1 .. Len(aof)
        /\ \A m \in 1 .. Len(aof) : aof'[m] = aof[m]
        /\ \A m \in DOMAIN aof' : m \in DOMAIN aof \/ m = Len(aof) + 1
    BY <1>5, <2>1, FileGrows DEF Calm, TypeInv, TypeOK
  <2>3. Loggable(frame[c].req) /\ KeysOf(frame[c].req) = KeysOf(cmd[c])
    BY <1>5, FrameFacts
  <2>4. \A n \in DOMAIN aof' : Loggable(aof'[n].req)
    BY <2>1, <2>2, <2>3 DEF Calm
  <2>5. KeysOf(cmd[c]) \subseteq unlogged'
    <3>1. state # "loading" /\ c \in CutOff
      BY <1>5 DEF Calm, CutOff
    <3>2. UNION {KeysOf(cmd[d]) : d \in CutOff} \subseteq unlogged'
      BY <3>1 DEF Crash, exit, Ends
    <3> QED
      BY <3>1, <3>2
  <2>6. \A n \in DOMAIN aof' : ~aof'[n].whole => n = Len(aof') /\ KeysOf(aof'[n].req) \subseteq unlogged'
    BY <1>3, <2>1, <2>2, <2>3, <2>5 DEF Sealed
  <2>7. Scar'
    BY <1>1, <1>5, <2>6 DEF Scar
  <2> QED
    BY <1>1, <1>2, <2>4, <2>7 DEF Calm, Loggable
<1> QED
  BY <1>4, <1>5, EndLeaves

(* In the replay only the last frame may be cut, so the parser never gets  *)
(* out of step.                                                            *)
LEMMA InStepAlways ==
  ASSUME Recoverable, Calm, state = "loading"
  PROVE  /\ pos \in Nat /\ DOMAIN aof = 1 .. Len(aof) /\ Len(aof) \in Nat
         /\ pos < Len(aof) => pos + 1 \in DOMAIN aof
         /\ ~load_astray
         /\ InStep \/ pos = Len(aof)
            \/ /\ ~Sealed /\ pos + 1 \in DOMAIN aof /\ pos + 1 = Len(aof)
               /\ KeysOf(aof[pos + 1].req) \subseteq unlogged
<1>1. /\ pos \in 0 .. Len(aof) /\ aof \in Seq(Frames) /\ off = 0
  BY DEF Calm, TypeInv, TypeOK
<1>2. /\ pos \in Nat /\ DOMAIN aof = 1 .. Len(aof) /\ Len(aof) \in Nat
      /\ pos < Len(aof) => pos + 1 \in DOMAIN aof
      /\ pos < Len(aof) \/ pos = Len(aof)
  BY <1>1, SMT
<1>3. ASSUME pos < Len(aof), ~InStep
      PROVE  /\ ~Sealed /\ pos + 1 \in DOMAIN aof /\ pos + 1 = Len(aof)
             /\ KeysOf(aof[pos + 1].req) \subseteq unlogged
  <2>1. pos + 1 \in DOMAIN aof /\ ~aof[pos + 1].whole
    BY <1>1, <1>2, <1>3 DEF InStep
  <2> QED
    BY <2>1 DEF Calm, Scar, Sealed
<1>4. ~(off > 0)
  BY <1>1, SMT
<1>5. pos + 1 = Len(aof) => ~(pos + 1 < Len(aof))
  <2>1. \A m, n \in Nat : m + 1 = n => ~(m + 1 < n)
    BY SMT
  <2> QED
    BY <1>2, <2>1
<1>6. ~load_astray
  BY <1>3, <1>4, <1>5 DEF load_astray
<1> QED
  BY <1>2, <1>3, <1>6

(* Server::start replays the next command.                                 *)
LEMMA LoadSteps ==
  ASSUME Recoverable, Calm, load
  PROVE  /\ pos \in Nat /\ pos + 1 \in DOMAIN aof /\ DOMAIN aof = 1 .. Len(aof) /\ Len(aof) \in Nat
         /\ state = "loading" /\ state' = "loading"
         /\ UNCHANGED <<clock, limited, req, at, cnt, resp, pc, cmd, frame, aof, calls, crashes,
                        promised, late, before, unlogged>>
         /\ map' = Replay(aof[pos + 1].req, clock) /\ pos' = pos + 1
BY InStepAlways DEF load, InStep, ReplayFrame

(* It is over at the end of the file or at a cut frame, which is the last  *)
(* one and of which nothing is made.                                       *)
LEMMA ServeSteps ==
  ASSUME Recoverable, Calm, serve
  PROVE  /\ pos \in Nat /\ DOMAIN aof = 1 .. Len(aof) /\ Len(aof) \in Nat
         /\ state = "loading" /\ state' = "busy"
         /\ UNCHANGED <<map, clock, pc, aof, before, unlogged, pos>>
         /\ \/ pos = Len(aof)
            \/ /\ ~Sealed /\ pos + 1 \in DOMAIN aof /\ pos + 1 = Len(aof)
               /\ KeysOf(aof[pos + 1].req) \subseteq unlogged
BY InStepAlways DEF serve, engineVars

(* The steps that leave the threads alone: the replay, time, expiry, the   *)
(* signal and the end of main.                                             *)
LEMMA QuietCalm ==
  ASSUME Recoverable, Calm, TypeInv',
         load \/ serve \/ listen \/ Lose \/ Tick \/ stop \/ close \/ UNCHANGED vars
  PROVE  Calm'
<1>1. /\ UNCHANGED <<limited, req, at, cnt, resp, pc, cmd, frame, aof, off>>
      /\ state' = "loading" => state = "loading" /\ unlogged' = unlogged
      /\ clock' \in {clock, clock + 1}
  BY DEF load, serve, listen, Lose, Tick, stop, close, vars, engineVars, ServerFrame, ReplayFrame,
         MainFrame, Engine!Tick, Engine!Drop
<1>2. clock \in Nat /\ clock' \in Nat /\ clock <= clock'
  <2>1. clock \in 1 .. MaxTime
    BY Clocks
  <2>2. clock' \in {clock, clock + 1}
    BY <1>1
  <2> QED
    BY ONLY <2>1, <2>2, SMT
<1>3. \A c \in Clients : ThreadInv(c)'
  BY <1>1, <1>2, KeepThread DEF Calm
<1>4. Scar'
  <2>1. CASE stop \/ close
    <3>1. stop => crashes < MaxCrashes /\ crashes \in 0 .. MaxCrashes /\ MaxCrashes \in Nat
      BY ServerAssumption DEF stop, Calm, TypeInv, TypeOK
    <3>2. stop => crashes # MaxCrashes
      BY <3>1, SMT
    <3>3. Sealed
      BY <2>1, <3>2 DEF Calm, Scar, close
    <3> QED
      BY <1>1, <3>3 DEF Scar, Sealed
  <2>2. CASE load \/ serve \/ listen \/ Lose \/ Tick \/ UNCHANGED vars
    <3>1. crashes' = crashes /\ (state' = state \/ state' \in {"busy", "serving"})
      BY <2>2 DEF load, serve, listen, Lose, Tick, vars, ServerFrame, ReplayFrame, MainFrame
    <3> QED
      BY <1>1, <3>1 DEF Calm, Scar, Sealed
  <2> QED
    BY <2>1, <2>2
<1> QED
  BY <1>1, <1>3, <1>4 DEF Calm, Loggable

(* A connection gets its thread.                                           *)
LEMMA AcceptCalm ==
  ASSUME Calm, TypeInv', NEW c \in Clients, accept(c) \/ spawn(c)
  PROVE  /\ Calm' /\ state # "loading"
         /\ UNCHANGED <<map, clock, req, at, cnt, resp, cmd, frame, aof, unlogged, before>>
         /\ pc[c] \in Idle /\ pc'[c] \in Idle /\ \A d \in Clients \ {c} : pc'[d] = pc[d]
<1>0. /\ DOMAIN pc = Clients /\ \A d \in Clients : ThreadInv(d)
  BY DEF Calm, TypeInv, TypeOK
<1>1. PICK p \in {"accepted", "read"} :
        /\ UNCHANGED <<map, clock, limited, req, at, cnt, resp, off, cmd, frame, aof, crashes,
                       before, unlogged>>
        /\ pc' = [pc EXCEPT ![c] = p] /\ pc[c] \in {"new", "accepted"}
        /\ state \in {"busy", "serving"} /\ state' \in {"busy", "serving"}
  BY DEF accept, spawn, MainFrame, Goto, engineVars
<1>2. clock \in Nat /\ clock <= clock
  BY Clocks
<1>3. pc'[c] \in {"accepted", "read"} /\ \A d \in Clients \ {c} : pc'[d] = pc[d]
  BY <1>0, <1>1
<1>4. ThreadInv(c)'
  <2>1. req[c] = NoRequest /\ cnt[c] = 0 /\ cnt[c] \in Nat
    BY <1>0, <1>1 DEF ThreadInv
  <2> QED
    BY <1>1, <1>3, <2>1 DEF ThreadInv, Idle
<1>5. ASSUME NEW d \in Clients, d # c PROVE ThreadInv(d)'
  BY <1>0, <1>1, <1>2, <1>3, <1>5, KeepThread
<1>6. Scar'
  BY <1>1 DEF Calm, Scar, Sealed
<1> QED
  BY <1>1, <1>3, <1>4, <1>5, <1>6 DEF Calm, Loggable, Idle

(* Every step keeps the state calm.                                        *)
LEMMA NextCalm ==
  ASSUME Recoverable, Calm, [Next]_vars
  PROVE  Calm'
<1>1. TypeInv'
  BY NextTypes DEF Calm
<1>2. ~ConfigSet /\ ~load_astray
  BY InStepAlways DEF ConfigSet, Recoverable, load_astray
<1> QED
  BY <1>1, <1>2, ReadCalm, EngineCalm, SerializeCalm, LogCalm, ReplyCalm, EndCalm, QuietCalm, AcceptCalm
     DEF Next, Thread

=============================================================================
