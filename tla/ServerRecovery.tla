---------------------------- MODULE ServerRecovery ----------------------------
(***************************************************************************)
(* What a restart brings back.  When connections do not share keys, no     *)
(* memory limit is set and the file loses nothing but a cut last frame,    *)
(* the replay of Server::start rebuilds what the file describes: exactly   *)
(* the dictionary of the process that ended when no key has a deadline,    *)
(* and otherwise the live keys none of whose earlier deadlines has passed. *)
(***************************************************************************)
EXTENDS ServerProofs

(* Zenon is the prover of the leaves that name no other one.               *)
USE Zenon

(* The keys whose last changes will not reach the file any more.           *)
Lost == IF state = "closing" THEN unlogged ELSE {}

(* How far the engine is ahead of a file that rebuilds the dictionary s    *)
(* and gives the deadlines D: by what the threads have done and not yet    *)
(* logged.  A command that is yet to be serialized may be so at any later  *)
(* time.                                                                   *)
Kept(k, s, D) == Fits(k, map[k], s[k], D[k], clock)
Coming(c) == IF pc[c] = "append" THEN {frame[c].req}
             ELSE {Serialize(cmd[c], u) : u \in clock .. MaxTime}
Half(c, s, D) ==
  \A k \in KeysOf(cmd[c]) \ Lost :
    /\ Kept(k, s, D) \/ (cmd[c].cmd = "DEL" /\ map[k] = NoEntry /\ cnt[c] > 0)
    /\ cmd[c].cmd = "DEL" /\ k \notin KeysOf(req[c]) => map[k] = NoEntry
Ready(c, k, s, D) ==
  IF Logged(cmd[c], resp[c])
  THEN \A q \in Coming(c) : Fits(k, map[k], After(q, s[k], 0), Gather(q, k, D[k]), clock)
  ELSE Kept(k, s, D)
Done(c, s, D) == \A k \in KeysOf(cmd[c]) \ Lost : Ready(c, k, s, D)
Ahead(s, D) ==
  /\ \A k \in Keys \ Lost : (\A c \in CutOff : k \notin KeysOf(cmd[c])) => Kept(k, s, D)
  /\ \A c \in Clients : pc[c] = "engine" => Half(c, s, D)
  /\ \A c \in Clients : pc[c] \in {"log", "append"} => Done(c, s, D)

(* The file rebuilds what the engine holds, but for the commands under     *)
(* way; during a replay, what the last process held.                       *)
Replayed(S) ==
  /\ \A k \in Keys : Passed(Deadlines(aof, pos, k), clock) \/ map[k] = S[pos][k]
  /\ \A k \in Keys \ unlogged :
       Fits(k, before[k], S[Len(aof)][k], Deadlines(aof, Len(aof), k), clock)
Tracks(S) ==
  /\ state = "loading" => Replayed(S)
  /\ state # "loading" /\ Sealed => Ahead(S[Len(aof)], Dates(aof, Len(aof)))

RecoveryInv == Calm /\ \E S : Rebuilds(S) /\ Tracks(S)

-----------------------------------------------------------------------------
(* How the file keeps up with the engine.                                  *)

(* The commands under way are on different keys.                           *)
LEMMA KeysApart ==
  ASSUME Recoverable, Calm, NEW c \in Clients, NEW d \in Clients, c # d,
         pc[c] \notin Idle, pc[d] \notin Idle
  PROVE  KeysOf(cmd[c]) \cap KeysOf(cmd[d]) = {}
<1>1. cmd[c] \in Calls[c] /\ cmd[d] \in Calls[d]
  BY DEF Calm, ThreadInv
<1> QED
  BY <1>1 DEF Recoverable, OwnKeys

(* The clock and the keys of a command under way.                          *)
LEMMA UnderWay ==
  ASSUME Calm, NEW c \in Clients, pc[c] \notin Idle
  PROVE  cmd[c] \in Requests /\ IsRequest(cmd[c]) /\ KeysOf(cmd[c]) \subseteq Keys
<1>1. cmd[c] \in Requests
  BY DEF Calm, TypeInv, Asked
<1> QED
  BY <1>1, FirstKey, ServerAssumption

(* A key that is not touched stays as far ahead of the file as it was.     *)
LEMMA KeepKey ==
  ASSUME NEW k, NEW s, NEW D, NEW u, NEW E, u[k] = s[k], E[k] = D[k], Kept(k, s, D),
         map'[k] = map[k], clock \in Nat, clock' \in Nat, clock <= clock'
  PROVE  Kept(k, u, E)'
BY LaterFits DEF Kept

(* So does one whose command waits to be logged.                           *)
LEMMA KeepReady ==
  ASSUME NEW c, NEW k, NEW s, NEW D, NEW u, NEW E, u[k] = s[k], E[k] = D[k], Ready(c, k, s, D),
         map'[k] = map[k], clock \in Nat, clock' \in Nat, clock <= clock', MaxTime \in Nat,
         pc'[c] = pc[c], cmd'[c] = cmd[c], resp'[c] = resp[c], frame'[c] = frame[c]
  PROVE  Ready(c, k, u, E)'
<1>1. \A x \in clock' .. MaxTime : x \in clock .. MaxTime
  BY SMT
<1>2. Coming(c)' \subseteq Coming(c)
  BY <1>1 DEF Coming
<1>3. Logged(cmd[c], resp[c])' <=> Logged(cmd[c], resp[c])
  BY DEF Logged
<1>4. CASE Logged(cmd[c], resp[c])
  <2>1. ASSUME NEW q \in Coming(c)'
        PROVE  Fits(k, map'[k], After(q, u[k], 0), Gather(q, k, E[k]), clock')
    <3>1. Fits(k, map[k], After(q, s[k], 0), Gather(q, k, D[k]), clock)
      BY <1>2, <1>4 DEF Ready
    <3> QED
      BY <3>1, LaterFits
  <2> QED
    BY <1>3, <1>4, <2>1 DEF Ready
<1>5. CASE ~Logged(cmd[c], resp[c])
  BY <1>3, <1>5, KeepKey DEF Ready
<1> QED
  BY <1>4, <1>5

(* And a thread that is in the engine, when others move.                   *)
LEMMA KeepHalf ==
  ASSUME NEW c, NEW s, NEW D, NEW u, NEW E, Half(c, s, D), Lost \subseteq Lost',
         \A k \in KeysOf(cmd[c]) \ Lost' : map'[k] = map[k] /\ u[k] = s[k] /\ E[k] = D[k],
         clock \in Nat, clock' \in Nat, clock <= clock',
         cmd'[c] = cmd[c], req'[c] = req[c], cnt'[c] = cnt[c]
  PROVE  Half(c, u, E)'
<1>1. ASSUME NEW k \in KeysOf(cmd[c]) \ Lost'
      PROVE  /\ Kept(k, u, E)' \/ (cmd[c].cmd = "DEL" /\ map'[k] = NoEntry /\ cnt[c] > 0)
             /\ cmd[c].cmd = "DEL" /\ k \notin KeysOf(req[c]) => map'[k] = NoEntry
  <2>1. map'[k] = map[k] /\ u[k] = s[k] /\ E[k] = D[k] /\ k \in KeysOf(cmd[c]) \ Lost
    OBVIOUS
  <2>2. Kept(k, s, D) => Kept(k, u, E)'
    BY <2>1, KeepKey
  <2> QED
    BY <2>1, <2>2 DEF Half
<1> QED
  BY <1>1 DEF Half

(* A request is read: its keys are as the file has them.                   *)
LEMMA ReadAhead ==
  ASSUME Recoverable, Calm, NEW s, NEW D, Ahead(s, D),
         NEW c \in Clients, NEW r \in Requests, read_request(c, r)
  PROVE  Ahead(s, D)'
<1>1. /\ UNCHANGED <<map, clock, cnt, state, frame, unlogged>> /\ pc[c] = "read" /\ r \in Calls[c]
      /\ pc' = [pc EXCEPT ![c] = "engine"]
      /\ cmd' = [cmd EXCEPT ![c] = r]
      /\ req' = [req EXCEPT ![c] = r]
      /\ \A d \in Clients \ {c} : resp'[d] = resp[d]
  BY DEF read_request, Engine!Invoke, Goto, Calm
<1>2. DOMAIN req = Clients /\ DOMAIN pc = Clients /\ DOMAIN cmd = Clients
  BY DEF Calm, TypeInv, TypeOK
<1>3. /\ pc'[c] = "engine" /\ cmd'[c] = r /\ req'[c] = r
      /\ \A d \in Clients : d # c => pc'[d] = pc[d] /\ cmd'[d] = cmd[d] /\ req'[d] = req[d]
  BY <1>1, <1>2
<1>4. Lost' = Lost
  BY <1>1 DEF Lost
<1>5. CutOff' = CutOff \cup {c} /\ c \notin CutOff
  BY <1>1, <1>3 DEF CutOff
<1>6. ASSUME NEW d \in Clients, d # c
      PROVE  (pc[d] = "engine" => Half(d, s, D)') /\ (pc[d] \in {"log", "append"} => Done(d, s, D)')
  <2>1. pc'[d] = pc[d] /\ cmd'[d] = cmd[d] /\ req'[d] = req[d] /\ resp'[d] = resp[d]
    BY <1>1, <1>3, <1>6
  <2>2. pc[d] = "engine" => Half(d, s, D)'
    BY <1>1, <1>4, <2>1, Clocks, KeepHalf DEF Ahead
  <2>3. pc[d] \in {"log", "append"} => Done(d, s, D)'
    BY <1>1, <1>4, <2>1, Clocks, KeepReady DEF Ahead, Done
  <2> QED
    BY <2>2, <2>3
<1>7. ASSUME NEW k \in KeysOf(r) \ Lost PROVE Kept(k, s, D)'
  <2>1. k \in Keys
    BY FirstKey, ServerAssumption
  <2>2. ASSUME NEW d \in CutOff PROVE k \notin KeysOf(cmd[d])
    <3>1. d \in Clients /\ d # c /\ cmd[d] \in Calls[d]
      BY <1>5 DEF CutOff, Calm, ThreadInv, Idle
    <3> QED
      BY <1>1, <3>1 DEF Recoverable, OwnKeys
  <2>3. Kept(k, s, D)
    BY <2>1, <2>2 DEF Ahead
  <2> QED
    BY <1>1, <2>3 DEF Kept
<1>8. Half(c, s, D)'
  <2>1. \A k \in (KeysOf(cmd[c]) \ Lost)' : Kept(k, s, D)' /\ k \in KeysOf(req'[c])
    BY <1>3, <1>4, <1>7
  <2> QED
    BY <2>1 DEF Half
<1>9. ASSUME NEW k \in Keys \ Lost, \A d \in CutOff' : k \notin KeysOf(cmd'[d])
      PROVE  Kept(k, s, D)'
  <2>1. ASSUME NEW d \in CutOff PROVE k \notin KeysOf(cmd[d])
    BY <1>3, <1>5, <1>9 DEF CutOff
  <2>2. Kept(k, s, D)
    BY <2>1 DEF Ahead
  <2> QED
    BY <1>1, <2>2 DEF Kept
<1>10. \A d \in Clients : pc'[d] = "engine" => Half(d, s, D)'
  BY <1>3, <1>6, <1>8
<1>11. \A d \in Clients : pc'[d] \in {"log", "append"} => Done(d, s, D)'
  BY <1>3, <1>6
<1> QED
  BY <1>4, <1>9, <1>10, <1>11 DEF Ahead

(* Under way in the engine, a command changes its own keys only.           *)
LEMMA OthersAhead ==
  ASSUME Recoverable, Calm, NEW s, NEW D, Ahead(s, D), NEW c \in Clients, pc[c] = "engine",
         NEW h \in KeysOf(cmd[c]), \A k \in Keys : k # h => map'[k] = map[k],
         UNCHANGED <<clock, state, unlogged, cmd, frame>>, pc'[c] \in {"engine", "log"},
         \A d \in Clients : d # c => /\ pc'[d] = pc[d] /\ req'[d] = req[d]
                                     /\ cnt'[d] = cnt[d] /\ resp'[d] = resp[d],
         pc'[c] = "engine" => Half(c, s, D)', pc'[c] = "log" => Done(c, s, D)'
  PROVE  Ahead(s, D)'
<1>1. Lost' = Lost /\ CutOff' = CutOff /\ c \in CutOff
  BY DEF Lost, CutOff
<1>2. ASSUME NEW k \in Keys \ Lost, \A d \in CutOff : k \notin KeysOf(cmd[d])
      PROVE  Kept(k, s, D)'
  <2>1. Kept(k, s, D) /\ map'[k] = map[k]
    BY <1>1, <1>2 DEF Ahead
  <2> QED
    BY <2>1 DEF Kept
<1>3. ASSUME NEW d \in Clients, d # c, pc[d] \in {"engine", "log", "append"},
             NEW k \in KeysOf(cmd[d])
      PROVE  map'[k] = map[k]
  <2>1. k # h
    BY <1>3, KeysApart DEF Idle
  <2>2. k \in Keys
    BY <1>3, UnderWay DEF Idle
  <2> QED
    BY <2>1, <2>2
<1>4. ASSUME NEW d \in Clients, d # c, pc[d] = "engine" PROVE Half(d, s, D)'
  BY <1>1, <1>3, <1>4, Clocks, KeepHalf DEF Ahead
<1>5. ASSUME NEW d \in Clients, d # c, pc[d] \in {"log", "append"} PROVE Done(d, s, D)'
  <2>1. Done(d, s, D)
    BY <1>5 DEF Ahead
  <2>2. ASSUME NEW k \in KeysOf(cmd[d]) \ Lost PROVE Ready(d, k, s, D)'
    BY <1>3, <1>5, <2>1, Clocks, KeepReady DEF Done
  <2> QED
    BY <1>1, <2>2 DEF Done
<1>6. \A d \in Clients : pc'[d] = "engine" => Half(d, s, D)'
  BY <1>4
<1>7. \A d \in Clients : pc'[d] \in {"log", "append"} => Done(d, s, D)'
  BY <1>5
<1> QED
  BY <1>1, <1>2, <1>6, <1>7 DEF Ahead

(* A DEL or EXISTS that has dealt with one of its keys.                    *)
LEMMA MoreHalf ==
  ASSUME Recoverable, Calm, NEW s, NEW D, Sound(s, D), NEW c \in Clients, pc[c] = "engine",
         Half(c, s, D), NEW r, NEW h, NEW a, OneKey(c, r, h, a), MoreKeys(c, r, h, a),
         UNCHANGED <<clock, state, unlogged, cmd>>
  PROVE  Half(c, s, D)'
<1>1. PICK n \in Nat : n = cnt[c]
  BY DEF Calm, ThreadInv
<1>2. PICK e \in MaybeEntry : e = map[h]
  BY DEF OneKey
<1>3. PICK z \in Nat : z = at[c] /\ z \in 1 .. clock /\ z <= clock
  <2>1. at[c] \in 1 .. clock
    BY DEF Calm, ThreadInv, Busy
  <2> QED
    BY <2>1, Clocks, SMT
<1>4. /\ r = req[c] /\ r.cmd = cmd[c].cmd /\ Executable(r) /\ r.cmd \in {"DEL", "EXISTS"}
      /\ KeysOf(r) \subseteq KeysOf(cmd[c]) /\ h \in KeysOf(r)
      /\ KeysOf(r) \subseteq KeysOf(Rest(r)) \cup {h}
      /\ a = Result(r, e, z, n)
  BY <1>1, <1>2, <1>3 DEF OneKey, MoreKeys, Calm, ThreadInv, Busy
<1>5. KeysOf(cmd[c]) \subseteq Keys /\ DOMAIN map = Keys /\ h \in Keys
  <2>1. KeysOf(cmd[c]) \subseteq Keys
    BY UnderWay DEF Idle
  <2> QED
    BY <1>4, <2>1 DEF Calm, TypeInv, TypeOK, Store
<1>6. /\ r.cmd = "DEL" => After(r, e, z) = NoEntry
      /\ r.cmd = "EXISTS" => After(r, e, z) = Look(e, z)
  BY AfterCases DEF ReadCmds
<1>7. /\ r.cmd = "DEL" => map'[h] = NoEntry
      /\ r.cmd = "EXISTS" => map'[h] = Look(e, z)
      /\ \A k \in Keys : k # h => map'[k] = map[k]
  BY <1>2, <1>3, <1>5, <1>6 DEF OneKey
<1>8. req'[c] = Rest(r) /\ cnt'[c] = a.val
  BY DEF MoreKeys, Calm, TypeInv
<1>9. r.cmd = "DEL" => a.val = n + (IF e = NoEntry THEN 0 ELSE 1)
  BY <1>4, Answers
<1>10. Lost' = Lost
  BY DEF Lost
<1>11. ASSUME NEW k \in KeysOf(cmd[c]) \ Lost
       PROVE  /\ Kept(k, s, D)' \/ (cmd[c].cmd = "DEL" /\ map'[k] = NoEntry /\ cnt'[c] > 0)
              /\ cmd[c].cmd = "DEL" /\ k \notin KeysOf(Rest(r)) => map'[k] = NoEntry
  <2>1. /\ Kept(k, s, D) \/ (cmd[c].cmd = "DEL" /\ map[k] = NoEntry /\ n > 0)
        /\ cmd[c].cmd = "DEL" /\ k \notin KeysOf(r) => map[k] = NoEntry
        /\ k \in Keys
    BY <1>1, <1>4, <1>5 DEF Half
  <2>0. map'[k] = map[k] /\ Kept(k, s, D) => Kept(k, s, D)'
    BY DEF Kept
  <2>a. n > 0 /\ cmd[c].cmd = "DEL" => cnt'[c] > 0
    BY <1>4, <1>8, <1>9, SMT
  <2>2. CASE k # h
    BY <1>4, <1>7, <2>0, <2>1, <2>2, <2>a
  <2>3. CASE k = h /\ r.cmd = "EXISTS"
    <3>1. Fits(k, e, s[k], D[k], clock)
      BY <1>2, <1>4, <2>1, <2>3 DEF Kept
    <3>2. s[k] \in MaybeEntry /\ Dated(s[k], D[k])
      BY <2>1 DEF Sound, Store, MaybeEntry
    <3>3. Fits(k, Look(e, z), s[k], D[k], clock)
      BY <1>3, <3>1, <3>2, Clocks, LookFits
    <3>4. Kept(k, s, D)'
      BY <1>7, <2>3, <3>3 DEF Kept
    <3> QED
      BY <1>4, <2>3, <3>4
  <2>4. CASE k = h /\ r.cmd = "DEL" /\ e = NoEntry
    <3>1. map'[k] = map[k] /\ map'[k] = NoEntry
      BY <1>2, <1>7, <2>4
    <3> QED
      BY <1>4, <2>0, <2>1, <2>4, <2>a, <3>1
  <2>5. CASE k = h /\ r.cmd = "DEL" /\ e # NoEntry
    <3>1. a.val = n + 1
      BY <1>9, <2>5
    <3>2. cnt'[c] > 0
      BY <1>8, <3>1, SMT
    <3> QED
      BY <1>4, <1>7, <2>5, <3>2
  <2> QED
    BY <1>4, <2>2, <2>3, <2>4, <2>5
<1> QED
  BY <1>8, <1>10, <1>11 DEF Half

(* A command the engine is through with.                                   *)
LEMMA LastDone ==
  ASSUME Recoverable, Calm, NEW s, NEW D, Sound(s, D), NEW c \in Clients, pc[c] = "engine",
         Half(c, s, D), NEW r, NEW h, NEW a, OneKey(c, r, h, a), LastKey(c, r, h, a),
         UNCHANGED <<clock, state, unlogged, cmd>>
  PROVE  Done(c, s, D)'
<1>1. PICK n \in Nat : n = cnt[c]
  BY DEF Calm, ThreadInv
<1>2. PICK e \in MaybeEntry : e = map[h]
  BY DEF OneKey
<1>3. PICK z \in Nat : z = at[c] /\ z \in 1 .. clock /\ z <= clock
  <2>1. at[c] \in 1 .. clock
    BY DEF Calm, ThreadInv, Busy
  <2> QED
    BY <2>1, Clocks, SMT
<1>4. PICK m : m = cmd[c]
  OBVIOUS
<1>5. /\ r = req[c] /\ r.cmd = m.cmd /\ Executable(r) /\ KeysOf(r) = {h} /\ h \in KeysOf(m)
      /\ m.cmd \notin {"DEL", "EXISTS"} => r = m /\ n = 0
      /\ a = Result(r, e, z, n)
  BY <1>1, <1>2, <1>3, <1>4 DEF OneKey, LastKey, Calm, ThreadInv, Busy
<1>6. m \in Requests /\ KeysOf(m) \subseteq Keys /\ DOMAIN map = Keys
  <2>1. m \in Requests /\ KeysOf(m) \subseteq Keys
    BY <1>4, UnderWay DEF Idle
  <2> QED
    BY <2>1 DEF Calm, TypeInv, TypeOK, Store
<1>7. /\ r.cmd = "DEL" => After(r, e, z) = NoEntry
      /\ r.cmd = "EXISTS" => After(r, e, z) = Look(e, z)
  BY AfterCases DEF ReadCmds
<1>8. map'[h] = After(r, e, z) /\ \A k \in Keys : k # h => map'[k] = map[k]
  BY <1>2, <1>3, <1>5, <1>6 DEF OneKey
<1>9. resp'[c] = a /\ cmd'[c] = m /\ Lost' = Lost /\ pc'[c] = "log"
  BY <1>4 DEF LastKey, Calm, Lost, TypeInv, TypeOK
<1>0. Coming(c)' = {Serialize(m, u) : u \in clock .. MaxTime}
  BY <1>9 DEF Coming
<1>10. ASSUME NEW k \in KeysOf(m) \ Lost PROVE Ready(c, k, s, D)'
  <2>1. /\ Kept(k, s, D) \/ (m.cmd = "DEL" /\ map[k] = NoEntry /\ n > 0)
        /\ m.cmd = "DEL" /\ k # h => map[k] = NoEntry
        /\ k \in Keys
    <3>1. k \notin KeysOf(req[c]) <=> k # h
      BY <1>5
    <3> QED
      BY <1>1, <1>4, <1>6, <3>1 DEF Half
  <2>2. PICK f \in MaybeEntry : f = s[k] /\ Dated(f, D[k])
    BY <2>1 DEF Sound, Store, MaybeEntry
  <2>3. CASE m.cmd = "DEL"
    <3>0. 0 \in Nat
      BY SMT
    <3>1. After(r, e, z) = NoEntry
      BY <1>5, <1>7, <2>3
    <3>2. map'[k] = NoEntry
      BY <1>8, <2>1, <2>3, <3>1
    <3>3. Logged(m, a) <=> a.val > 0
      BY <2>3 DEF Logged
    <3>4. a.val = n + (IF e = NoEntry THEN 0 ELSE 1)
      BY <1>5, <2>3, Answers, SMT
    <3>5. CASE Logged(m, a)
      <4>1. ASSUME NEW u \in clock .. MaxTime
            PROVE  Fits(k, map'[k], After(Serialize(m, u), s[k], 0), Gather(Serialize(m, u), k, D[k]), clock)
        <5>1. Serialize(m, u) = m
          BY <2>3 DEF Serialize
        <5>2. After(m, f, 0) = NoEntry
          BY <2>3, <3>0, AfterCases
        <5>3. Good(k, NoEntry, NoEntry)
          BY DEF Good
        <5> QED
          BY <2>2, <3>2, <5>1, <5>2, <5>3 DEF Fits
      <4> QED
        BY <1>0, <1>9, <3>5, <4>1 DEF Ready
    <3>6. CASE ~Logged(m, a)
      <4>1. ~(n > 0) /\ e = NoEntry
        BY <3>3, <3>4, <3>6, SMT
      <4>2. Kept(k, s, D) /\ map'[k] = map[k]
        BY <1>2, <2>1, <2>3, <3>2, <4>1
      <4>3. Kept(k, s, D)'
        BY <4>2 DEF Kept
      <4> QED
        BY <1>9, <3>6, <4>3 DEF Ready
    <3> QED
      BY <3>5, <3>6
  <2>4. CASE m.cmd = "EXISTS"
    <3>1. After(r, e, z) = Look(e, z) /\ ~Logged(m, a)
      BY <1>5, <1>7, <2>4 DEF Logged
    <3>2. Kept(k, s, D)'
      <4>1. CASE k # h
        BY <1>8, <2>1, <2>4, <4>1 DEF Kept
      <4>2. CASE k = h
        <5>1. Fits(k, e, f, D[k], clock)
          BY <1>2, <2>1, <2>2, <2>4, <4>2 DEF Kept
        <5>2. Fits(k, Look(e, z), f, D[k], clock)
          BY <1>3, <2>2, <5>1, Clocks, LookFits
        <5> QED
          BY <1>8, <2>2, <3>1, <4>2, <5>2 DEF Kept
      <4> QED
        BY <4>1, <4>2
    <3> QED
      BY <1>9, <3>1, <3>2 DEF Ready
  <2>5. CASE m.cmd \notin {"DEL", "EXISTS"}
    <3>1. k = h
      BY <1>5, <2>5
    <3>2. Fits(k, e, f, D[k], clock) /\ map'[k] = After(m, e, z) /\ a = Result(m, e, z, 0)
      BY <1>2, <1>5, <1>8, <2>1, <2>2, <2>5, <3>1 DEF Kept
    <3>3. IF Logged(m, a)
          THEN \A u \in clock .. MaxTime :
                 Fits(k, map'[k], After(Serialize(m, u), f, 0), Gather(Serialize(m, u), k, D[k]), clock)
          ELSE Fits(k, map'[k], f, D[k], clock)
      BY <1>3, <1>6, <2>2, <2>5, <3>2, Clocks, CommandFits
    <3> QED
      BY <1>0, <1>9, <2>2, <3>3 DEF Ready, Kept
  <2> QED
    BY <2>3, <2>4, <2>5
<1> QED
  BY <1>9, <1>10 DEF Done

(* The engine's part of a command.                                         *)
LEMMA EngineAhead ==
  ASSUME Recoverable, Calm, NEW s, NEW D, Sound(s, D), Ahead(s, D), NEW c \in Clients, engine_step(c)
  PROVE  Ahead(s, D)'
<1>1. PICK r, h, a : OneKey(c, r, h, a) /\ (LastKey(c, r, h, a) \/ MoreKeys(c, r, h, a))
  BY EngineMoves
<1>2. pc[c] = "engine" /\ UNCHANGED <<clock, state, unlogged, cmd, frame>>
  BY EngineMoves
<1>3. Half(c, s, D)
  BY <1>2 DEF Ahead
<1>4. DOMAIN pc = Clients /\ DOMAIN req = Clients /\ DOMAIN cnt = Clients /\ DOMAIN resp = Clients
  BY DEF Calm, TypeInv, TypeOK
<1>5. \A d \in Clients : d # c => /\ pc'[d] = pc[d] /\ req'[d] = req[d]
                                  /\ cnt'[d] = cnt[d] /\ resp'[d] = resp[d]
  BY <1>1, <1>4 DEF LastKey, MoreKeys
<1>6. h \in KeysOf(cmd[c])
  BY <1>1, <1>2 DEF OneKey, Calm, ThreadInv, Busy
<1>7. \A k \in Keys : k # h => map'[k] = map[k]
  BY <1>1 DEF OneKey, Calm, TypeInv, TypeOK, Store
<1>8. /\ pc'[c] \in {"engine", "log"}
      /\ pc'[c] = "engine" => MoreKeys(c, r, h, a)
      /\ pc'[c] = "log" => LastKey(c, r, h, a)
  BY <1>1, <1>4 DEF LastKey, MoreKeys
<1>9. pc'[c] = "engine" => Half(c, s, D)'
  BY <1>1, <1>2, <1>3, <1>8, MoreHalf
<1>10. pc'[c] = "log" => Done(c, s, D)'
  BY <1>1, <1>2, <1>3, <1>8, LastDone
<1> QED
  BY <1>2, <1>5, <1>6, <1>7, <1>8, <1>9, <1>10, OthersAhead

(* Two dictionaries agree but for some keys, and so do their deadlines.    *)
Elsewhere(K, s, D, u, E) == \A k \in Keys \ K : u[k] = s[k] /\ E[k] = D[k]

(* A thread leaves the dispatcher's logging branch for its answer.  It was *)
(* ahead of the file no more, or its keys are written off, or the file now *)
(* has its command.                                                        *)
LEMMA LeaveAhead ==
  ASSUME Recoverable, Calm, NEW s, NEW D, NEW u, NEW E, Ahead(s, D),
         NEW c \in Clients, pc[c] \in {"log", "append"},
         UNCHANGED <<map, clock, req, cnt, resp, cmd, frame>>, pc' = [pc EXCEPT ![c] = "reply"],
         Lost \subseteq Lost',
         \A k \in KeysOf(cmd[c]) \ Lost' : Kept(k, u, E),
         Elsewhere(KeysOf(cmd[c]), s, D, u, E)
  PROVE  Ahead(u, E)'
<1>1. DOMAIN pc = Clients
  BY DEF Calm, TypeInv, TypeOK
<1>2. pc'[c] = "reply" /\ \A d \in Clients : d # c => pc'[d] = pc[d]
  BY <1>1
<1>3. CutOff = CutOff' \cup {c}
  BY <1>2 DEF CutOff
<1>4. ASSUME NEW k \in Keys \ Lost', \A d \in CutOff' : k \notin KeysOf(cmd[d])
      PROVE  Kept(k, u, E)'
  <2>1. CASE k \in KeysOf(cmd[c])
    BY <2>1 DEF Kept
  <2>2. CASE k \notin KeysOf(cmd[c])
    <3>1. Kept(k, s, D)
      BY <1>3, <1>4, <2>2 DEF Ahead
    <3> QED
      BY <2>2, <3>1 DEF Kept, Elsewhere
  <2> QED
    BY <2>1, <2>2
<1>5. ASSUME NEW d \in Clients, d # c, pc[d] \in {"engine", "log", "append"},
             NEW k \in KeysOf(cmd[d])
      PROVE  u[k] = s[k] /\ E[k] = D[k]
  <2>1. k \notin KeysOf(cmd[c])
    BY <1>5, KeysApart DEF Idle
  <2>2. k \in Keys
    BY <1>5, UnderWay DEF Idle
  <2> QED
    BY <2>1, <2>2 DEF Elsewhere
<1>6. ASSUME NEW d \in Clients, d # c, pc[d] = "engine" PROVE Half(d, u, E)'
  <2>1. Half(d, s, D)
    BY <1>6 DEF Ahead
  <2>2. \A k \in KeysOf(cmd[d]) \ Lost' : map'[k] = map[k] /\ u[k] = s[k] /\ E[k] = D[k]
    BY <1>5, <1>6
  <2> QED
    BY <2>1, <2>2, Clocks, KeepHalf
<1>7. ASSUME NEW d \in Clients, d # c, pc[d] \in {"log", "append"} PROVE Done(d, u, E)'
  <2>1. Done(d, s, D)
    BY <1>7 DEF Ahead
  <2>2. ASSUME NEW k \in KeysOf(cmd[d]) \ Lost' PROVE Ready(d, k, u, E)'
    <3>1. u[k] = s[k] /\ E[k] = D[k] /\ Ready(d, k, s, D)
      BY <1>5, <1>7, <2>1 DEF Done
    <3> QED
      BY <1>2, <1>7, <3>1, Clocks, KeepReady
  <2> QED
    BY <2>2 DEF Done
<1>8. \A d \in Clients : pc'[d] = "engine" => Half(d, u, E)'
  BY <1>2, <1>6
<1>9. \A d \in Clients : pc'[d] \in {"log", "append"} => Done(d, u, E)'
  BY <1>2, <1>7
<1> QED
  BY <1>4, <1>8, <1>9 DEF Ahead

(* dispatch serializes the command, or has nothing to log.                 *)
LEMMA SerializeAhead ==
  ASSUME Recoverable, Calm, NEW s, NEW D, Ahead(s, D), NEW c \in Clients, serialize(c)
  PROVE  Ahead(s, D)'
<1>1. /\ UNCHANGED <<map, clock, req, cnt, resp, state, cmd, unlogged>> /\ pc[c] = "log"
      /\ pc' = [pc EXCEPT ![c] = IF Logged(cmd[c], resp[c]) THEN "append" ELSE "reply"]
      /\ frame' = IF Logged(cmd[c], resp[c])
                  THEN [frame EXCEPT ![c] = Frame(Serialize(cmd[c], clock), Id(c), TRUE)]
                  ELSE frame
  BY DEF serialize, Goto, engineVars
<1>2. Lost' = Lost /\ DOMAIN pc = Clients /\ DOMAIN frame = Clients
  BY <1>1 DEF Lost, Calm, TypeInv, TypeOK
<1>3. Done(c, s, D)
  BY <1>1 DEF Ahead
<1>4. CASE Logged(cmd[c], resp[c])
  <2>1. /\ pc'[c] = "append" /\ frame'[c] = Frame(Serialize(cmd[c], clock), Id(c), TRUE)
        /\ \A d \in Clients : d # c => pc'[d] = pc[d] /\ frame'[d] = frame[d]
    BY <1>1, <1>2, <1>4
  <2>2. Coming(c)' \subseteq Coming(c)
    <3>1. frame'[c].req = Serialize(cmd[c], clock)
      BY <2>1, SMT DEF Frame
    <3> QED
      BY <1>1, <2>1, <3>1, Clocks DEF Coming
  <2>3. CutOff' = CutOff
    BY <1>1, <2>1 DEF CutOff
  <2>4. ASSUME NEW d \in Clients, pc'[d] = "engine" PROVE Half(d, s, D)'
    <3>1. Half(d, s, D)
      BY <2>1, <2>4 DEF Ahead
    <3> QED
      BY <1>1, <1>2, <3>1, Clocks, KeepHalf
  <2>5. ASSUME NEW d \in Clients, d # c, pc'[d] \in {"log", "append"} PROVE Done(d, s, D)'
    <3>1. Done(d, s, D)
      BY <2>1, <2>5 DEF Ahead
    <3>2. ASSUME NEW k \in KeysOf(cmd[d]) \ Lost PROVE Ready(d, k, s, D)'
      BY <1>1, <2>1, <2>5, <3>1, Clocks, KeepReady DEF Done
    <3> QED
      BY <1>1, <1>2, <3>2 DEF Done
  <2>6. Done(c, s, D)'
    <3>1. Logged(cmd[c], resp[c])'
      BY <1>1, <1>4 DEF Logged
    <3>2. ASSUME NEW k \in KeysOf(cmd[c]) \ Lost PROVE Ready(c, k, s, D)'
      <4>1. \A q \in Coming(c) : Fits(k, map[k], After(q, s[k], 0), Gather(q, k, D[k]), clock)
        BY <1>3, <1>4 DEF Done, Ready
      <4> QED
        BY <1>1, <2>2, <3>1, <4>1 DEF Ready
    <3> QED
      BY <1>1, <1>2, <3>2 DEF Done
  <2>7. \A k \in Keys \ Lost : Kept(k, s, D) => Kept(k, s, D)'
    BY <1>1 DEF Kept
  <2> QED
    BY <1>1, <1>2, <2>3, <2>4, <2>5, <2>6, <2>7 DEF Ahead
<1>5. CASE ~Logged(cmd[c], resp[c])
  <2>1. pc' = [pc EXCEPT ![c] = "reply"] /\ frame' = frame
    BY <1>1, <1>5
  <2>2. \A k \in KeysOf(cmd[c]) \ Lost' : Kept(k, s, D)
    BY <1>2, <1>3, <1>5 DEF Done, Ready
  <2>3. Elsewhere(KeysOf(cmd[c]), s, D, s, D)
    BY DEF Elsewhere
  <2> QED
    BY <1>1, <1>2, <2>1, <2>2, <2>3, LeaveAhead
<1> QED
  BY <1>4, <1>5

(* A command that comes too late for the file is written off.              *)
LEMMA DropAhead ==
  ASSUME Recoverable, Calm, NEW s, NEW D, Ahead(s, D), NEW c \in Clients, log(c),
         state = "closing"
  PROVE  Ahead(s, D)' /\ aof' = aof
<1>1. /\ UNCHANGED <<map, clock, req, cnt, resp, state, cmd, frame, aof>> /\ pc[c] = "append"
      /\ pc' = [pc EXCEPT ![c] = "reply"]
      /\ unlogged' = unlogged \cup KeysOf(cmd[c])
  BY DEF log, Goto, engineVars
<1>2. Lost' = Lost \cup KeysOf(cmd[c])
  BY <1>1 DEF Lost
<1>3. Elsewhere(KeysOf(cmd[c]), s, D, s, D)
  BY DEF Elsewhere
<1> QED
  BY <1>1, <1>2, <1>3, LeaveAhead

More(q, D) == [k \in Keys |-> Gather(q, k, D[k])]

(* AOFLogger::log: the file catches up with one command.                   *)
LEMMA LogAhead ==
  ASSUME Recoverable, Calm, NEW s, NEW D, Sound(s, D), DOMAIN D = Keys, Ahead(s, D),
         NEW c \in Clients, log(c), state # "closing", NEW q, q = frame[c].req,
         NEW u, u = Apply(q, s), NEW E, E = More(q, D)
  PROVE  Ahead(u, E)'
<1>1. /\ UNCHANGED <<map, clock, req, cnt, resp, state, cmd, frame, unlogged>> /\ pc[c] = "append"
      /\ pc' = [pc EXCEPT ![c] = "reply"]
  BY DEF log, Goto, engineVars
<1>2. Logged(cmd[c], resp[c]) /\ KeysOf(q) = KeysOf(cmd[c]) /\ KeysOf(q) \subseteq Keys
  BY <1>1, FrameFacts
<1>3. Lost' = {} /\ Lost = {}
  BY <1>1 DEF Lost
<1>4. /\ \A k \in KeysOf(q) : u[k] = After(q, s[k], 0) /\ E[k] = Gather(q, k, D[k])
      /\ \A k \in Keys \ KeysOf(q) : u[k] = s[k] /\ E[k] = D[k]
  <2>1. \A k \in Keys : /\ u[k] = IF k \in KeysOf(q) THEN After(q, s[k], 0) ELSE s[k]
                        /\ E[k] = Gather(q, k, D[k])
    BY DEF Apply, More
  <2>2. \A k \in Keys \ KeysOf(q) : Gather(q, k, D[k]) = D[k]
    BY DEF Gather
  <2> QED
    BY <1>2, <2>1, <2>2
<1>5. ASSUME NEW k \in KeysOf(cmd[c]) PROVE Kept(k, u, E)
  <2>1. q \in Coming(c)
    BY <1>1 DEF Coming
  <2>2. Fits(k, map[k], After(q, s[k], 0), Gather(q, k, D[k]), clock)
    BY <1>1, <1>2, <1>3, <2>1 DEF Ahead, Done, Ready
  <2> QED
    BY <1>2, <1>4, <2>2 DEF Kept
<1>6. /\ Lost \subseteq Lost' /\ pc[c] \in {"log", "append"}
      /\ \A k \in KeysOf(cmd[c]) \ Lost' : Kept(k, u, E)
      /\ Elsewhere(KeysOf(cmd[c]), s, D, u, E)
  BY <1>1, <1>2, <1>3, <1>4, <1>5 DEF Elsewhere
<1>7. UNCHANGED <<map, clock, req, cnt, resp, cmd, frame>> /\ pc' = [pc EXCEPT ![c] = "reply"]
  BY <1>1
<1> QED
  BY <1>6, <1>7, LeaveAhead

(* The answer, the passing of time, and whatever else changes neither the  *)
(* dictionary nor what a thread has yet to log.                            *)
LEMMA StayAhead ==
  ASSUME Calm, NEW s, NEW D, Ahead(s, D), Lost' = Lost, UNCHANGED <<map, req, cnt, resp>>,
         CutOff' = CutOff, clock' \in Nat, clock <= clock',
         \A c \in CutOff : pc'[c] = pc[c] /\ cmd'[c] = cmd[c] /\ frame'[c] = frame[c]
  PROVE  Ahead(s, D)'
<1>1. \A c \in Clients : pc'[c] \in {"engine", "log", "append"} => c \in CutOff
  BY DEF CutOff
<1>2. ASSUME NEW c \in Clients, pc'[c] = "engine" PROVE Half(c, s, D)'
  <2>1. c \in CutOff /\ Half(c, s, D)
    BY <1>1, <1>2 DEF Ahead
  <2> QED
    BY <2>1, Clocks, KeepHalf
<1>3. ASSUME NEW c \in Clients, pc'[c] \in {"log", "append"} PROVE Done(c, s, D)'
  <2>1. c \in CutOff /\ Done(c, s, D)
    BY <1>1, <1>3 DEF Ahead
  <2>2. ASSUME NEW k \in KeysOf(cmd[c]) \ Lost PROVE Ready(c, k, s, D)'
    BY <2>1, Clocks, KeepReady DEF Done
  <2> QED
    BY <2>1, <2>2 DEF Done
<1>4. ASSUME NEW k \in Keys \ Lost, \A c \in CutOff : k \notin KeysOf(cmd'[c])
      PROVE  Kept(k, s, D)'
  <2>1. Kept(k, s, D)
    BY <1>4 DEF Ahead
  <2> QED
    BY <2>1, Clocks, KeepKey
<1> QED
  BY <1>2, <1>3, <1>4 DEF Ahead

(* Answering a client, or failing to, changes nothing that is to be logged.*)
LEMMA ReplyAhead ==
  ASSUME Calm, NEW s, NEW D, Ahead(s, D), NEW c \in Clients, reply(c)
  PROVE  Ahead(s, D)'
<1>1. PICK p \in {"read", "gone"} :
        /\ UNCHANGED <<map, clock, req, cnt, resp, state, unlogged>> /\ pc[c] = "reply"
        /\ pc' = [pc EXCEPT ![c] = p]
        /\ cmd' = [cmd EXCEPT ![c] = NoRequest]
        /\ frame' = [frame EXCEPT ![c] = NoFrame]
  BY DEF reply, Goto, engineVars
<1>2. DOMAIN pc = Clients /\ DOMAIN cmd = Clients /\ DOMAIN frame = Clients
  BY DEF Calm, TypeInv, TypeOK
<1>3. /\ pc'[c] \in {"read", "gone"}
      /\ \A d \in Clients : d # c => pc'[d] = pc[d] /\ cmd'[d] = cmd[d] /\ frame'[d] = frame[d]
  BY <1>1, <1>2
<1>4. CutOff' = CutOff /\ c \notin CutOff /\ Lost' = Lost
  BY <1>1, <1>3 DEF CutOff, Lost
<1>5. \A d \in CutOff : pc'[d] = pc[d] /\ cmd'[d] = cmd[d] /\ frame'[d] = frame[d]
  BY <1>3, <1>4 DEF CutOff
<1> QED
  BY <1>1, <1>4, <1>5, Clocks, StayAhead

(* What may come of a command that waits to be logged.                     *)
LEMMA ComingFacts ==
  ASSUME Recoverable, Calm, NEW c \in Clients, pc[c] \in {"log", "append"}, NEW q \in Coming(c)
  PROVE  Executable(q) /\ q.cmd # "PEXPIRE" /\ KeysOf(q) = KeysOf(cmd[c])
<1>1. CASE pc[c] = "append"
  BY <1>1, FrameFacts DEF Coming
<1>2. CASE pc[c] = "log"
  <2>1. PICK u \in clock .. MaxTime : q = Serialize(cmd[c], u)
    BY <1>2 DEF Coming
  <2>2. u \in 1 .. MaxTime
    BY <2>1, Clocks, SMT
  <2>3. cmd[c] \in Requests
    BY <1>2, UnderWay DEF Idle
  <2> QED
    BY <2>1, <2>2, <2>3, LoggableFacts
<1> QED
  BY <1>1, <1>2

(* The sweeper, or a lazy erase, takes an entry that has expired.          *)
LEMMA LoseAhead ==
  ASSUME Recoverable, Calm, NEW s, NEW D, Sound(s, D), Ahead(s, D), Lose
  PROVE  Ahead(s, D)'
<1>1. PICK h \in Keys : Engine!Drop(h)
  BY DEF Lose
<1>2. /\ UNCHANGED <<clock, req, cnt, resp, state, pc, cmd, frame, unlogged>>
      /\ map' = [map EXCEPT ![h] = NoEntry] /\ Expired(map[h], clock)
  BY <1>1, EngineOps DEF Lose, ServerFrame, Engine!Drop, Calm
<1>3. PICK e \in MaybeEntry : e = map[h] /\ Look(e, clock) = NoEntry
  BY <1>2 DEF Calm, TypeInv, TypeOK, Store, MaybeEntry, Look
<1>4. map'[h] = NoEntry /\ \A k \in Keys : k # h => map'[k] = map[k]
  BY <1>2 DEF Calm, TypeInv, TypeOK, Store
<1>5. Lost' = Lost /\ CutOff' = CutOff
  BY <1>2 DEF Lost, CutOff
<1>6. ASSUME NEW k \in Keys, NEW f \in MaybeEntry, NEW d, Dated(f, d), Fits(k, map[k], f, d, clock)
      PROVE  Fits(k, map'[k], f, d, clock')
  <2>1. CASE k # h
    BY <1>2, <1>4, <1>6, <2>1
  <2>2. CASE k = h
    <3>1. Fits(k, Look(e, clock), f, d, clock)
      BY <1>3, <1>6, <2>2, Clocks, LookFits
    <3> QED
      BY <1>2, <1>3, <1>4, <2>2, <3>1
  <2> QED
    BY <2>1, <2>2
<1>7. \A k \in Keys : s[k] \in MaybeEntry /\ Dated(s[k], D[k])
  BY DEF Sound, Store, MaybeEntry
<1>8. ASSUME NEW k \in Keys, Kept(k, s, D) PROVE Kept(k, s, D)'
  BY <1>6, <1>7, <1>8 DEF Kept
<1>9. ASSUME NEW c \in Clients, pc[c] = "engine" PROVE Half(c, s, D)'
  <2>1. KeysOf(cmd[c]) \subseteq Keys /\ Half(c, s, D)
    BY <1>9, UnderWay DEF Ahead, Idle
  <2>2. \A k \in Keys : map[k] = NoEntry => map'[k] = NoEntry
    BY <1>4
  <2> QED
    BY <1>2, <1>5, <1>8, <2>1, <2>2 DEF Half
<1>10. ASSUME NEW c \in Clients, pc[c] \in {"log", "append"} PROVE Done(c, s, D)'
  <2>1. KeysOf(cmd[c]) \subseteq Keys /\ Done(c, s, D)
    BY <1>10, UnderWay DEF Ahead, Idle
  <2>2. Coming(c)' = Coming(c) /\ (Logged(cmd[c], resp[c])' <=> Logged(cmd[c], resp[c]))
    BY <1>2 DEF Coming, Logged
  <2>3. ASSUME NEW k \in KeysOf(cmd[c]) \ Lost PROVE Ready(c, k, s, D)'
    <3>1. Ready(c, k, s, D) /\ k \in Keys
      BY <2>1 DEF Done
    <3>2. CASE ~Logged(cmd[c], resp[c])
      BY <1>8, <2>2, <3>1, <3>2 DEF Ready
    <3>3. CASE Logged(cmd[c], resp[c])
      <4>1. ASSUME NEW q \in Coming(c)
            PROVE  Fits(k, map'[k], After(q, s[k], 0), Gather(q, k, D[k]), clock')
        <5>1. Executable(q) /\ q.cmd # "PEXPIRE" /\ k \in KeysOf(q)
          BY <1>10, ComingFacts
        <5>2. Dated(After(q, s[k], 0), Gather(q, k, D[k]))
          BY <1>7, <3>1, <5>1, StaysDated
        <5>3. 0 \in Nat
          BY SMT
        <5>4. After(q, s[k], 0) \in MaybeEntry
          BY <1>7, <3>1, <5>1, <5>3, AfterType DEF MaybeEntry
        <5> QED
          BY <1>6, <3>1, <3>3, <5>2, <5>4 DEF Ready
      <4> QED
        BY <2>2, <3>3, <4>1 DEF Ready
    <3> QED
      BY <3>2, <3>3
  <2> QED
    BY <1>2, <1>5, <2>3 DEF Done
<1> QED
  BY <1>2, <1>5, <1>8, <1>9, <1>10 DEF Ahead

-----------------------------------------------------------------------------
(* The file rebuilds the dictionary, step by step.                         *)

(* A step of the clients, of the clock or of the stop that leaves the file *)
(* as it is.                                                               *)
LEMMA SteadyFile ==
  ASSUME Recoverable, Calm, Calm', NEW s, NEW D, Sound(s, D), Ahead(s, D), state # "loading",
         \/ \E c \in Clients :
              \/ (Thread(c) /\ ~(log(c) /\ state # "closing"))
              \/ accept(c) \/ spawn(c)
              \/ \E r \in Requests : read_request(c, r)
         \/ Lose \/ Tick \/ listen \/ stop \/ close \/ UNCHANGED vars
  PROVE  Ahead(s, D)'
<1>1. ASSUME NEW c \in Clients, NEW r \in Requests, read_request(c, r) PROVE Ahead(s, D)'
  BY <1>1, ReadAhead
<1>2. ASSUME NEW c \in Clients, engine_step(c) PROVE Ahead(s, D)'
  BY <1>2, EngineAhead
<1>3. ASSUME NEW c \in Clients, serialize(c) PROVE Ahead(s, D)'
  BY <1>3, SerializeAhead
<1>4. ASSUME NEW c \in Clients, log(c), state = "closing" PROVE Ahead(s, D)'
  BY <1>4, DropAhead
<1>5. ASSUME NEW c \in Clients, reply(c) PROVE Ahead(s, D)'
  BY <1>5, ReplyAhead
<1>6. CASE Tick \/ listen \/ stop \/ close \/ UNCHANGED vars
  <2>1. /\ UNCHANGED <<map, req, cnt, resp, pc, cmd, frame>>
        /\ Lost' = Lost /\ clock' \in {clock, clock + 1}
    BY <1>6 DEF Tick, listen, stop, close, vars, engineVars, ServerFrame, MainFrame, Engine!Tick, Lost
  <2>2. CutOff' = CutOff
    BY <2>1 DEF CutOff
  <2>3. clock' \in Nat /\ clock <= clock'
    BY <2>1, Clocks, SMT
  <2> QED
    BY <2>1, <2>2, <2>3, StayAhead
<1>7. ASSUME NEW c \in Clients, accept(c) \/ spawn(c) PROVE Ahead(s, D)'
  <2>1. /\ UNCHANGED <<map, clock, req, cnt, resp, cmd, frame>>
        /\ pc[c] \in Idle /\ pc'[c] \in Idle /\ \A d \in Clients \ {c} : pc'[d] = pc[d]
    BY <1>7, AcceptCalm DEF Calm
  <2>2. state \in {"busy", "serving"} /\ state' \in {"busy", "serving"}
    BY <1>7 DEF accept, spawn
  <2>3. CutOff' = CutOff /\ Lost' = Lost /\ c \notin CutOff
    BY <2>1, <2>2 DEF CutOff, Lost, Idle
  <2>4. \A d \in CutOff : pc'[d] = pc[d]
    BY <2>1, <2>3 DEF CutOff
  <2> QED
    BY <2>1, <2>3, <2>4, Clocks, StayAhead
<1> QED
  BY <1>1, <1>2, <1>3, <1>4, <1>5, <1>6, <1>7, LoseAhead DEF Thread

(* Those steps leave the file alone, and the replay does not begin.        *)
LEMMA SteadyFrame ==
  ASSUME Calm,
         \/ \E c \in Clients :
              \/ (Thread(c) /\ ~(log(c) /\ state # "closing"))
              \/ accept(c) \/ spawn(c)
              \/ \E r \in Requests : read_request(c, r)
         \/ Lose \/ Tick \/ listen \/ stop \/ close \/ UNCHANGED vars
  PROVE  aof' = aof /\ (state # "loading" => state' # "loading")
BY DEF Thread, engine_step, serialize, log, reply, read_request, accept, spawn, listen, Lose, Tick,
       stop, close, vars, ServerFrame, MainFrame

(* The initial file rebuilds the initial dictionary.                       *)
LEMMA InitRecovery ==
  ASSUME Recoverable, Init
  PROVE  RecoveryInv
<1>1. TypeInv
  BY InitTypes
<1>2. /\ state = "loading" /\ pos = 0 /\ off = 0 /\ aof = <<>> /\ map = Empty /\ before = Empty
      /\ limited = FALSE /\ req = [c \in Clients |-> NoRequest] /\ cnt = [c \in Clients |-> 0]
      /\ DOMAIN resp = Clients /\ pc = [c \in Clients |-> "new"]
  BY DEF Init, Engine!Init, Empty
<1>3. Len(aof) = 0 /\ DOMAIN aof = {} /\ 0 .. 0 = {0} /\ 0 \in Nat
  BY <1>2, SMT
<1>4. Calm
  BY <1>1, <1>2, <1>3 DEF Calm, ThreadInv, Idle, Scar, Sealed
<1>5. PICK S : S = [n \in 0 .. 0 |-> Empty]
  OBVIOUS
<1>6. DOMAIN S = 0 .. 0 /\ S[0] = Empty
  BY <1>3, <1>5
<1>7. Sound(Empty, Dates(aof, 0))
  BY DEF Sound, Empty, Store, Dated
<1>8. Rebuilds(S)
  BY <1>3, <1>6, <1>7 DEF Rebuilds
<1>9. \A k \in Keys : Good(k, Empty[k], Empty[k])
  BY GoodSelf DEF Empty, MaybeEntry
<1>10. Tracks(S)
  BY <1>2, <1>3, <1>6, <1>9 DEF Tracks, Replayed, Fits
<1> QED
  BY <1>4, <1>8, <1>10 DEF RecoveryInv

(* One more command: the dictionary's deadlines are in the file.           *)
LEMMA ApplySound ==
  ASSUME NEW s, NEW D, Sound(s, D), NEW q, Executable(q), q.cmd # "PEXPIRE"
  PROVE  Sound(Apply(q, s), More(q, D))
<1>0. 0 \in Nat
  BY SMT
<1>1. \A k \in Keys : s[k] \in MaybeEntry /\ Dated(s[k], D[k])
  BY DEF Sound, Store, MaybeEntry
<1>2. \A k \in Keys : After(q, s[k], 0) \in MaybeEntry
  BY <1>0, <1>1, AfterType DEF MaybeEntry
<1>3. Apply(q, s) \in Store
  BY <1>1, <1>2 DEF Apply, Store, MaybeEntry
<1>4. ASSUME NEW k \in Keys PROVE Dated(Apply(q, s)[k], More(q, D)[k])
  <2>1. /\ Apply(q, s)[k] = IF k \in KeysOf(q) THEN After(q, s[k], 0) ELSE s[k]
        /\ More(q, D)[k] = Gather(q, k, D[k])
    BY DEF Apply, More
  <2>2. CASE k \in KeysOf(q)
    BY <1>1, <2>1, <2>2, StaysDated
  <2>3. CASE k \notin KeysOf(q)
    BY <1>1, <2>1, <2>3 DEF Gather
  <2> QED
    BY <2>2, <2>3
<1> QED
  BY <1>3, <1>4 DEF Sound

(* A frame is appended: the file goes through one more dictionary.         *)
LEMMA ExtendTrace ==
  ASSUME Calm, NEW S, Rebuilds(S), NEW f \in Frames, aof' = Append(aof, f),
         Executable(f.req), f.req.cmd # "PEXPIRE"
  PROVE  /\ Dates(aof', Len(aof) + 1) = More(f.req, Dates(aof, Len(aof)))
         /\ \E U : /\ Rebuilds(U)' /\ U[0] = Empty
                   /\ U[Len(aof) + 1] = Apply(f.req, S[Len(aof)])
<1>1. PICK n \in Nat : n = Len(aof)
  BY FileLength
<1>2. /\ Len(aof') = n + 1 /\ DOMAIN aof = 1 .. n /\ DOMAIN aof' = 1 .. n + 1
      /\ aof'[n + 1] = f /\ \A m \in 1 .. n : aof'[m] = aof[m]
  BY <1>1, FileGrows DEF Calm, TypeInv, TypeOK
<1>3. /\ 0 \in 0 .. n /\ n \in 0 .. n /\ n + 1 \in 0 .. n + 1 /\ n + 1 # 0 /\ n + 1 - 1 = n
      /\ \A m \in 0 .. n + 1 : m \in 0 .. n \/ m = n + 1
      /\ \A m \in 1 .. n + 1 : m \in 1 .. n \/ m = n + 1
      /\ \A m \in 1 .. n : m \in 0 .. n + 1 /\ m # n + 1 /\ m - 1 # n + 1 /\ m - 1 \in 0 .. n
      /\ \A m \in 0 .. n : m \in Nat /\ m \in 0 .. n + 1 /\ m # n + 1
      /\ \A m \in 0 .. n : \A i \in 1 .. m : i \in 1 .. n
  BY SMT
<1>4. /\ \A m \in 0 .. n : \A k : Deadlines(aof', m, k) = Deadlines(aof, m, k)
      /\ \A k : Deadlines(aof', n + 1, k) = Gather(f.req, k, Deadlines(aof, n, k))
  <2>1. aof \in Seq(Frames)
    BY DEF Calm, TypeInv, TypeOK
  <2> QED
    BY <1>1, <2>1, MoreDeadlines
<1>5. /\ \A m \in 0 .. n : Dates(aof', m) = Dates(aof, m)
      /\ Dates(aof', n + 1) = More(f.req, Dates(aof, n))
  BY <1>4 DEF Dates, More
<1>6. PICK U : U = [m \in 0 .. n + 1 |-> IF m = n + 1 THEN Apply(f.req, S[n]) ELSE S[m]]
  OBVIOUS
<1>7. /\ DOMAIN U = 0 .. n + 1 /\ U[n + 1] = Apply(f.req, S[n])
      /\ \A m \in 0 .. n : U[m] = S[m]
  BY <1>3, <1>6
<1>8. /\ DOMAIN S = 0 .. n /\ S[0] = Empty
      /\ \A m \in 1 .. n : S[m] = Apply(aof[m].req, S[m - 1])
      /\ \A m \in 0 .. n : Sound(S[m], Dates(aof, m))
  BY <1>1, <1>2 DEF Rebuilds
<1>9. U[0] = Empty
  BY <1>3, <1>7, <1>8
<1>10. ASSUME NEW m \in 1 .. n + 1 PROVE U[m] = Apply(aof'[m].req, U[m - 1])
  <2>1. CASE m \in 1 .. n
    <3>1. U[m] = S[m] /\ U[m - 1] = S[m - 1] /\ aof'[m] = aof[m]
      BY <1>2, <1>3, <1>7, <2>1
    <3> QED
      BY <1>8, <2>1, <3>1
  <2>2. CASE m = n + 1
    <3>1. m - 1 = n /\ U[n] = S[n]
      BY <1>3, <1>7, <2>2, SMT
    <3> QED
      BY <1>2, <1>7, <2>2, <3>1
  <2> QED
    BY <1>3, <2>1, <2>2
<1>11. ASSUME NEW m \in 0 .. n + 1 PROVE Sound(U[m], Dates(aof', m))
  <2>1. CASE m \in 0 .. n
    BY <1>5, <1>7, <1>8, <2>1
  <2>2. CASE m = n + 1
    <3>1. Sound(Apply(f.req, S[n]), More(f.req, Dates(aof, n)))
      BY <1>3, <1>8, ApplySound
    <3> QED
      BY <1>5, <1>7, <2>2, <3>1
  <2> QED
    BY <1>3, <2>1, <2>2
<1>12. Rebuilds(U)'
  BY <1>2, <1>7, <1>9, <1>10, <1>11 DEF Rebuilds
<1> QED
  BY <1>1, <1>5, <1>7, <1>9, <1>12

(* The last dictionary of the file has its deadlines in the file.          *)
LEMMA LastSound ==
  ASSUME Calm, NEW S, Rebuilds(S)
  PROVE  Len(aof) \in Nat /\ Sound(S[Len(aof)], Dates(aof, Len(aof)))
<1>1. Len(aof) \in Nat /\ Len(aof) \in 0 .. Len(aof)
  BY FileLength
<1> QED
  BY <1>1 DEF Rebuilds

(* AOFLogger::log keeps the file in step with the engine.                  *)
LEMMA LogTracks ==
  ASSUME Recoverable, RecoveryInv, Calm', NEW c \in Clients, log(c), state # "closing"
  PROVE  RecoveryInv'
<1>1. PICK S : Rebuilds(S) /\ Tracks(S)
  BY DEF RecoveryInv
<1>2. Calm
  BY DEF RecoveryInv
<1>3. pc[c] = "append" /\ aof' = Append(aof, frame[c]) /\ state' = state
  BY DEF log
<1>4. PICK f \in Frames : /\ f = frame[c] /\ f.whole
                          /\ Executable(f.req) /\ f.req.cmd # "PEXPIRE"
  BY <1>2, <1>3, FrameFacts
<1>5. state # "loading"
  BY <1>2, <1>3 DEF Calm
<1>6. PICK n : n = Len(aof)
  OBVIOUS
<1>7. PICK D, E : D = Dates(aof, n) /\ E = Dates(aof', n + 1) /\ E = More(f.req, D)
  BY <1>1, <1>2, <1>3, <1>4, <1>6, ExtendTrace
<1>8. PICK U : Rebuilds(U)' /\ U[n + 1] = Apply(f.req, S[n])
  BY <1>1, <1>2, <1>3, <1>4, <1>6, ExtendTrace
<1>9. PICK u : u = U[n + 1] /\ u = U[Len(aof')] /\ E = Dates(aof', Len(aof'))
  BY <1>2, <1>3, <1>4, <1>6, <1>7, FileGrows DEF Calm, TypeInv, TypeOK
<1>10. ASSUME Sealed PROVE Ahead(u, E)'
  <2>1. PICK s, q : s = S[n] /\ q = f.req
    OBVIOUS
  <2>2. Sound(s, D) /\ DOMAIN D = Keys
    BY <1>1, <1>2, <1>6, <1>7, <2>1, LastSound DEF Dates
  <2>3. Ahead(s, D)
    BY <1>1, <1>5, <1>6, <1>7, <1>10, <2>1 DEF Tracks
  <2>4. u = Apply(q, s) /\ E = More(q, D) /\ q = frame[c].req
    BY <1>4, <1>7, <1>8, <1>9, <2>1
  <2> QED
    BY <1>2, <2>2, <2>3, <2>4, LogAhead
<1>11. Sealed <=> Sealed'
  BY <1>2, LogCalm DEF Calm
<1>12. Tracks(U)'
  BY <1>3, <1>5, <1>9, <1>10, <1>11 DEF Tracks
<1> QED
  BY <1>8, <1>12 DEF RecoveryInv

(* The process ends: what the file rebuilds is what it held, but for the   *)
(* keys of the commands it was cut off in.                                 *)
LEMMA EndTracks ==
  ASSUME Recoverable, RecoveryInv, Calm', Crash \/ exit
  PROVE  RecoveryInv'
<1>1. PICK S : Rebuilds(S) /\ Tracks(S)
  BY DEF RecoveryInv
<1>2. Calm
  BY DEF RecoveryInv
<1>3. Sealed /\ Ends
  BY <1>2, EndLeaves
<1>4. /\ state' = "loading" /\ pos' = 0 /\ map' = Empty /\ clock' = clock
      /\ IF state # "loading"
         THEN before' = map /\ unlogged' = (UNION {KeysOf(cmd[c]) : c \in CutOff}) \cup Lost
         ELSE UNCHANGED <<before, unlogged>>
  BY <1>3 DEF Ends, Restart, Empty, Lost
<1>5. PICK n, s, D : n = Len(aof) /\ s = S[n] /\ D = Dates(aof, n)
  OBVIOUS
<1>6. ASSUME NEW k \in Keys \ unlogged' PROVE Fits(k, before'[k], s[k], D[k], clock')
  <2>1. CASE state = "loading"
    BY <1>1, <1>4, <1>5, <1>6, <2>1 DEF Tracks, Replayed, Dates
  <2>2. CASE state # "loading"
    <3>1. Ahead(s, D)
      BY <1>1, <1>3, <1>5, <2>2 DEF Tracks
    <3>2. k \notin Lost /\ \A c \in CutOff : k \notin KeysOf(cmd[c])
      BY <1>4, <1>6, <2>2
    <3> QED
      BY <1>4, <2>2, <3>1, <3>2 DEF Ahead, Kept
  <2> QED
    BY <2>1, <2>2
<1>7. CASE aof' = aof
  <2>1. Rebuilds(S)' /\ S[0] = Empty
    BY <1>1, <1>7 DEF Rebuilds
  <2>2. Replayed(S)'
    BY <1>4, <1>5, <1>6, <1>7, <2>1 DEF Replayed, Dates
  <2> QED
    BY <1>4, <2>1, <2>2 DEF Tracks, RecoveryInv
<1>8. ASSUME NEW c \in Clients, pc[c] = "append", aof' = Append(aof, Cut(c)) PROVE RecoveryInv'
  <2>1. PICK f \in Frames : /\ f = Cut(c) /\ f.req = frame[c].req
                            /\ Executable(f.req) /\ f.req.cmd # "PEXPIRE"
    BY <1>2, <1>8, CutFacts, FrameFacts
  <2>2. PICK E : E = Dates(aof', n + 1) /\ E = More(f.req, D)
    BY <1>1, <1>2, <1>5, <1>8, <2>1, ExtendTrace
  <2>3. PICK U : Rebuilds(U)' /\ U[0] = Empty /\ U[n + 1] = Apply(f.req, s)
    BY <1>1, <1>2, <1>5, <1>8, <2>1, ExtendTrace
  <2>4. Len(aof') = n + 1
    BY <1>2, <1>5, <1>8, <2>1, FileGrows DEF Calm, TypeInv, TypeOK
  <2>5. state # "loading" /\ c \in CutOff
    BY <1>2, <1>8 DEF Calm, CutOff
  <2>6. KeysOf(f.req) \subseteq unlogged'
    BY <1>2, <1>4, <1>8, <2>1, <2>5, FrameFacts
  <2>7. ASSUME NEW k \in Keys \ unlogged' PROVE U[n + 1][k] = s[k] /\ E[k] = D[k]
    <3>1. k \notin KeysOf(f.req)
      BY <2>6, <2>7
    <3> QED
      BY <2>2, <2>3, <3>1 DEF Apply, More, Gather
  <2>8. Replayed(U)'
    <3>1. \A k \in Keys : E[k] = Deadlines(aof', Len(aof'), k)
      BY <2>2, <2>4 DEF Dates
    <3> QED
      BY <1>4, <1>6, <2>3, <2>4, <2>7, <3>1 DEF Replayed
  <2> QED
    BY <1>4, <2>3, <2>8 DEF Tracks, RecoveryInv
<1> QED
  BY <1>2, <1>7, <1>8, EndLeaves

(* Server::start replays one command.                                      *)
LEMMA LoadTracks ==
  ASSUME Recoverable, RecoveryInv, Calm', load
  PROVE  RecoveryInv'
<1>1. PICK S : Rebuilds(S) /\ Tracks(S)
  BY DEF RecoveryInv
<1>2. Calm
  BY DEF RecoveryInv
<1>3. /\ pos \in Nat /\ pos + 1 \in DOMAIN aof /\ DOMAIN aof = 1 .. Len(aof) /\ Len(aof) \in Nat
      /\ state = "loading" /\ UNCHANGED <<clock, aof, before, unlogged>>
      /\ map' = Replay(aof[pos + 1].req, clock) /\ pos' = pos + 1 /\ state' = "loading"
  BY <1>2, LoadSteps
<1>4. Rebuilds(S)'
  BY <1>1, <1>3 DEF Rebuilds
<1>5. Replayed(S)
  BY <1>1, <1>3 DEF Tracks
<1>6. PICK q : q = aof[pos + 1].req /\ Executable(q) /\ q.cmd # "PEXPIRE"
  <2>1. IsFrame(aof[pos + 1])
    BY <1>2, <1>3 DEF Calm, TypeInv, TypeOK
  <2>2. PICK q : q = aof[pos + 1].req /\ IsRequest(q) /\ q.cmd # "PEXPIRE"
    BY <2>1 DEF IsFrame
  <2> QED
    BY <2>2, RequestFacts
<1>7. pos \in 0 .. Len(aof) /\ pos + 1 - 1 = pos
  BY <1>3, SMT
<1>8. /\ S[pos + 1] = Apply(q, S[pos])
      /\ Sound(S[pos], Dates(aof, pos))
  <2>1. PICK m \in DOMAIN aof : m = pos + 1 /\ m - 1 = pos
    BY <1>3, SMT
  <2>2. S[m] = Apply(aof[m].req, S[m - 1])
    BY <1>1 DEF Rebuilds
  <2>3. Sound(S[pos], Dates(aof, pos))
    BY <1>1, <1>7 DEF Rebuilds
  <2> QED
    BY <1>6, <2>1, <2>2, <2>3
<1>9. ASSUME NEW k \in Keys
      PROVE  Passed(Deadlines(aof, pos + 1, k), clock) \/ map'[k] = S[pos + 1][k]
  <2>1. PICK d : /\ d = Deadlines(aof, pos, k)
                 /\ Deadlines(aof, pos + 1, k) = Gather(q, k, d)
    BY <1>3, <1>6, NextDeadlines
  <2>2. PICK m \in MaybeEntry : m = map[k]
    BY <1>2 DEF Calm, TypeInv, TypeOK, Store, MaybeEntry
  <2>3. PICK s \in MaybeEntry : s = S[pos][k] /\ Dated(s, d)
    BY <1>8, <2>1 DEF Sound, Store, MaybeEntry, Dates
  <2>4. Passed(d, clock) \/ m = s
    BY <1>5, <2>1, <2>2, <2>3 DEF Replayed
  <2>5. CASE k \in KeysOf(q)
    <3>1. Passed(Gather(q, k, d), clock) \/ After(q, m, clock) = After(q, s, 0)
      BY <1>2, <1>6, <2>3, <2>4, <2>5, Clocks, ReplayStep
    <3>2. map'[k] = After(q, m, clock) /\ S[pos + 1][k] = After(q, s, 0)
      BY <1>3, <1>6, <1>8, <2>2, <2>3, <2>5 DEF Replay, Apply
    <3> QED
      BY <2>1, <3>1, <3>2
  <2>6. CASE k \notin KeysOf(q)
    <3>1. map'[k] = m /\ S[pos + 1][k] = s
      BY <1>3, <1>6, <1>8, <2>2, <2>3, <2>6 DEF Replay, Apply
    <3>2. Gather(q, k, d) = d
      BY <2>6 DEF Gather
    <3> QED
      BY <2>1, <2>4, <3>1, <3>2
  <2> QED
    BY <2>5, <2>6
<1>10. Replayed(S)'
  BY <1>3, <1>5, <1>3, <1>9 DEF Replayed
<1> QED
  BY <1>4, <1>3, <1>10 DEF Tracks, RecoveryInv

(* The replay is through: the engine holds what the file rebuilds, unless  *)
(* the last frame is cut.                                                  *)
LEMMA ServeTracks ==
  ASSUME Recoverable, RecoveryInv, Calm', serve
  PROVE  RecoveryInv'
<1>1. PICK S : Rebuilds(S) /\ Tracks(S)
  BY DEF RecoveryInv
<1>2. Calm
  BY DEF RecoveryInv
<1>3. /\ state = "loading" /\ state' = "busy" /\ UNCHANGED <<map, clock, pc, aof>>
      /\ pos = Len(aof) \/ ~Sealed
  BY <1>2, ServeSteps
<1>4. Rebuilds(S)'
  BY <1>1, <1>3 DEF Rebuilds
<1>5. CASE ~Sealed
  <2>1. ~Sealed'
    BY <1>3, <1>5 DEF Sealed
  <2>2. Tracks(S)'
    BY <1>3, <2>1 DEF Tracks
  <2> QED
    BY <1>4, <2>2 DEF RecoveryInv
<1>6. CASE pos = Len(aof)
  <2>1. PICK s, D : s = S[Len(aof)] /\ D = Dates(aof, Len(aof))
    OBVIOUS
  <2>2. ASSUME NEW k \in Keys PROVE Kept(k, s, D)'
    <3>1. Passed(D[k], clock) \/ map[k] = s[k]
      BY <1>1, <1>3, <1>6, <2>1 DEF Tracks, Replayed, Dates
    <3>2. map[k] \in MaybeEntry
      BY <1>2 DEF Calm, TypeInv, TypeOK, Store, MaybeEntry
    <3>3. Passed(D[k], clock) \/ Good(k, map[k], s[k])
      BY <3>1, <3>2, GoodSelf
    <3> QED
      BY <1>3, <3>3 DEF Kept, Fits
  <2>3. \A c \in Clients : pc'[c] = "new"
    BY <1>2, <1>3 DEF Calm
  <2>4. Ahead(s, D)'
    BY <2>2, <2>3 DEF Ahead
  <2>5. Tracks(S)'
    BY <1>3, <2>1, <2>4 DEF Tracks
  <2> QED
    BY <1>4, <2>5 DEF RecoveryInv
<1> QED
  BY <1>3, <1>5, <1>6

(* The sweeper and the clock, during the replay.                           *)
LEMMA WaitTracks ==
  ASSUME Recoverable, RecoveryInv, Calm', Lose \/ Tick \/ UNCHANGED vars, state = "loading"
  PROVE  RecoveryInv'
<1>1. PICK S : Rebuilds(S) /\ Tracks(S)
  BY DEF RecoveryInv
<1>2. Calm
  BY DEF RecoveryInv
<1>3. /\ UNCHANGED <<state, pos, aof, before, unlogged>>
      /\ clock' \in {clock, clock + 1}
      /\ \/ map' = map
         \/ \E h \in Keys : map' = [map EXCEPT ![h] = NoEntry] /\ Expired(map[h], clock)
  BY <1>2, EngineOps
     DEF Lose, Tick, vars, engineVars, ServerFrame, Engine!Tick, Engine!Drop, Calm
<1>4. clock \in Nat /\ clock' \in Nat /\ clock <= clock' /\ \A x \in 1 .. clock : x \in 1 .. clock'
  BY <1>2, <1>3, Clocks, SMT
<1>5. Rebuilds(S)'
  BY <1>1, <1>3 DEF Rebuilds
<1>6. Replayed(S) /\ pos \in 0 .. Len(aof)
  BY <1>1, <1>2 DEF Tracks, Calm, TypeInv, TypeOK
<1>7. ASSUME NEW k \in Keys
      PROVE  Passed(Deadlines(aof, pos, k), clock') \/ map'[k] = S[pos][k]
  <2>1. PICK d : d = Deadlines(aof, pos, k)
    OBVIOUS
  <2>2. Passed(d, clock) => Passed(d, clock')
    BY <1>4 DEF Passed
  <2>3. Passed(d, clock) \/ map[k] = S[pos][k]
    BY <1>6, <2>1 DEF Replayed
  <2>4. map'[k] = map[k] \/ Expired(map[k], clock)
    BY <1>2, <1>3 DEF Calm, TypeInv, TypeOK, Store
  <2>5. PICK s \in MaybeEntry : s = S[pos][k] /\ Dated(s, d)
    BY <1>1, <1>6, <2>1 DEF Rebuilds, Sound, Store, MaybeEntry, Dates
  <2>6. Expired(s, clock) => Passed(d, clock')
    BY <1>4, <2>5, ExpiredPast
  <2> QED
    BY <2>1, <2>2, <2>3, <2>4, <2>5, <2>6
<1>8. ASSUME NEW k \in Keys \ unlogged
      PROVE  Fits(k, before[k], S[Len(aof)][k], Deadlines(aof, Len(aof), k), clock')
  BY <1>4, <1>6, LaterFits DEF Replayed
<1>9. Replayed(S)'
  BY <1>3, <1>7, <1>8 DEF Replayed
<1> QED
  BY <1>3, <1>5, <1>9 DEF Tracks, RecoveryInv

(* Whatever leaves the file as it is, outside a replay.                    *)
LEMMA SteadyTracks ==
  ASSUME Recoverable, RecoveryInv, Calm', state # "loading",
         \/ \E c \in Clients :
              \/ (Thread(c) /\ ~(log(c) /\ state # "closing"))
              \/ accept(c) \/ spawn(c)
              \/ \E r \in Requests : read_request(c, r)
         \/ Lose \/ Tick \/ listen \/ stop \/ close \/ UNCHANGED vars
  PROVE  RecoveryInv'
<1>1. PICK S : Rebuilds(S) /\ Tracks(S)
  BY DEF RecoveryInv
<1>2. Calm
  BY DEF RecoveryInv
<1>3. aof' = aof /\ state' # "loading"
  BY <1>2, SteadyFrame
<1>4. Rebuilds(S)'
  BY <1>1, <1>3 DEF Rebuilds
<1>5. PICK s, D : s = S[Len(aof)] /\ D = Dates(aof, Len(aof)) /\ Sound(s, D)
  BY <1>1, <1>2, LastSound
<1>6. ASSUME Sealed' PROVE Ahead(s, D)'
  <2>1. Ahead(s, D)
    BY <1>1, <1>3, <1>5, <1>6 DEF Tracks, Sealed
  <2> QED
    BY <1>2, <1>5, <2>1, SteadyFile
<1>7. Tracks(S)'
  BY <1>3, <1>5, <1>6 DEF Tracks
<1> QED
  BY <1>4, <1>7 DEF RecoveryInv

(* The invariant is inductive.                                             *)
LEMMA NextRecovery ==
  ASSUME Recoverable, RecoveryInv, [Next]_vars
  PROVE  RecoveryInv'
<1>1. Calm /\ Calm'
  BY NextCalm DEF RecoveryInv
<1>2. ~ConfigSet /\ ~load_astray
  BY <1>1, InStepAlways DEF ConfigSet, Recoverable, load_astray
<1>3. CASE Crash \/ exit
  BY <1>1, <1>3, EndTracks
<1>4. CASE load
  BY <1>1, <1>4, LoadTracks
<1>5. CASE serve
  BY <1>1, <1>5, ServeTracks
<1>6. ASSUME NEW c \in Clients, log(c), state # "closing" PROVE RecoveryInv'
  BY <1>1, <1>6, LogTracks
<1>7. CASE state = "loading" /\ (Lose \/ Tick \/ UNCHANGED vars)
  BY <1>1, <1>7, WaitTracks
<1>8. CASE /\ state # "loading"
           /\ \/ \E c \in Clients :
                   \/ (Thread(c) /\ ~(log(c) /\ state # "closing"))
                   \/ accept(c) \/ spawn(c)
                   \/ \E r \in Requests : read_request(c, r)
              \/ Lose \/ Tick \/ listen \/ stop \/ close \/ UNCHANGED vars
  BY <1>1, <1>8, SteadyTracks
<1>9. /\ \A c \in Clients : Thread(c) \/ (\E r \in Requests : read_request(c, r)) => state # "loading"
      /\ \A c \in Clients : accept(c) \/ spawn(c) => state # "loading"
      /\ listen \/ stop \/ close => state # "loading"
  <2>1. \A c \in Clients : Thread(c) => pc[c] # "new"
    BY DEF Thread, engine_step, serialize, log, reply
  <2> QED
    BY <1>1, <2>1 DEF Calm, read_request, accept, spawn, listen, stop, close
<1> QED
  BY <1>2, <1>3, <1>4, <1>5, <1>6, <1>7, <1>8, <1>9 DEF Next

-----------------------------------------------------------------------------
(* What the end of the replay leaves.                                      *)

(* Clients find a key as the file has it, which is as good as it was in    *)
(* the process that ended, unless one of its deadlines has passed.         *)
LEMMA LoadEnds ==
  ASSUME Recoverable, RecoveryInv, [Next]_vars, state = "loading", state' = "busy",
         NEW k \in Keys \ unlogged, ~Overtaken(k)
  PROVE  Good(k, before[k], map'[k]) /\ map'[k] \in MaybeEntry /\ before[k] \in MaybeEntry
<1>1. PICK S : Rebuilds(S) /\ Tracks(S)
  BY DEF RecoveryInv
<1>2. Calm
  BY DEF RecoveryInv
<1>3. Replayed(S)
  BY <1>1 DEF Tracks
<1>4. PICK d : d = Deadlines(aof, Len(aof), k) /\ ~Passed(d, clock)
  BY DEF Overtaken, Passed
<1>5. Good(k, before[k], S[Len(aof)][k])
  BY <1>3, <1>4 DEF Replayed, Fits
<1>6. serve
  <2>1. ~load_astray
    BY <1>2, InStepAlways
  <2>2. UNCHANGED vars => state' = state
    BY DEF vars
  <2> QED
    BY <1>2, <2>1, <2>2
       DEF Next, Thread, engine_step, serialize, log, reply, read_request, accept, spawn, listen,
           Lose, ConfigSet, Tick, load, Crash, Ends, Restart, stop, close, exit, ServerFrame
<1>7. map' = map /\ map[k] = S[Len(aof)][k]
  <2>0. map' = map
    BY <1>2, <1>6, ServeSteps
  <2>1. CASE pos = Len(aof)
    BY <1>3, <1>4, <2>0, <2>1 DEF Replayed
  <2>2. CASE pos # Len(aof)
    <3>1. /\ pos + 1 = Len(aof) /\ KeysOf(aof[pos + 1].req) \subseteq unlogged
          /\ pos \in Nat /\ pos + 1 \in DOMAIN aof
      BY <1>2, <1>6, <2>2, ServeSteps
    <3>2. PICK m \in DOMAIN aof : m = Len(aof) /\ m = pos + 1 /\ m - 1 = pos
      BY <3>1, SMT
    <3>3. S[m] = Apply(aof[m].req, S[pos]) /\ k \notin KeysOf(aof[m].req)
      BY <1>1, <3>1, <3>2 DEF Rebuilds
    <3>4. S[m][k] = S[pos][k]
      BY <3>3 DEF Apply
    <3>5. d = Gather(aof[m].req, k, Deadlines(aof, pos, k))
      BY <1>4, <3>1, <3>2, NextDeadlines
    <3>6. d = Deadlines(aof, pos, k)
      BY <3>3, <3>5 DEF Gather
    <3> QED
      BY <1>3, <1>4, <2>0, <3>1, <3>2, <3>4, <3>6 DEF Replayed
  <2> QED
    BY <2>1, <2>2
<1>8. map[k] \in MaybeEntry /\ before[k] \in MaybeEntry
  BY <1>2 DEF Calm, TypeInv, TypeOK, Store, MaybeEntry
<1> QED
  BY <1>5, <1>7, <1>8

(* An entry that is as good as one that is alive is alive.                 *)
LEMMA GoodLives ==
  ASSUME NEW k, NEW e \in MaybeEntry, NEW m \in MaybeEntry, NEW t \in Nat, Good(k, e, m),
         Look(e, t) # NoEntry
  PROVE  /\ Look(m, t) # NoEntry /\ Look(m, t).val = Look(e, t).val
         /\ Look(m, t).exp = 0 <=> Look(e, t).exp = 0
         /\ Look(m, t).exp >= Look(e, t).exp
<1>1. e # NoEntry /\ ~Expired(e, t) /\ Look(e, t) = e
  BY DEF Look
<1>2. e.exp \in Nat /\ e.exp >= e.exp
  BY <1>1, SMT DEF MaybeEntry, Entry, Time
<1>3. m # NoEntry /\ m.val = e.val /\ (m.exp = 0 <=> e.exp = 0) /\ m.exp >= e.exp
  BY <1>1, <1>2 DEF Good
<1>4. ~Expired(m, t)
  BY <1>1, <1>3, SMT DEF Expired, MaybeEntry, Entry, Time
<1>5. Look(m, t) = m
  BY <1>4 DEF Look
<1> QED
  BY <1>1, <1>3, <1>5

(* Without PEXPIRE and PEXPIREAT there are no deadlines in the file.       *)
LEMMA NothingDue ==
  ASSUME Recoverable, NoDeadlines, Calm, NEW k \in Keys
  PROVE  ~Overtaken(k) /\ Exact(k)
<1>1. \A n \in DOMAIN aof : aof[n].req.cmd # "PEXPIREAT"
  BY DEF Calm, Loggable, Serialize, NoDeadlines
<1>2. DOMAIN aof = 1 .. Len(aof)
  BY FileLength
<1>3. ~Overtaken(k)
  BY <1>1, <1>2 DEF Overtaken, Deadlines
<1> QED
  BY <1>3 DEF Exact, NoDeadlines

(* The recovery invariant holds throughout.                                *)
LEMMA AlwaysRecovery ==
  ASSUME Recoverable
  PROVE  Spec => []RecoveryInv
<1>1. Init => RecoveryInv
  BY InitRecovery
<1>2. RecoveryInv /\ [Next]_vars => RecoveryInv'
  BY NextRecovery
<1> QED
  BY <1>1, <1>2, PTL DEF Spec

(* Server::start: a key that is still alive when the replay ends has its   *)
(* value back, and a deadline exactly if it had one, no earlier than it    *)
(* was, unless an earlier deadline of its has passed.                      *)
THEOREM LiveKeysReturn ==
  ASSUME Recoverable
  PROVE  Spec => RecoversLive
<1> DEFINE Step == (state = "loading" /\ state' = "busy")
       => \A k \in Keys \ unlogged :
            LET old == Look(before[k], clock)
                new == Look(map'[k], clock)
            IN  old # NoEntry /\ ~Overtaken(k)
                  => /\ new # NoEntry
                     /\ new.val = old.val
                     /\ new.exp = 0 <=> old.exp = 0
                     /\ new.exp >= old.exp
<1>1. RecoveryInv /\ [Next]_vars => [Step]_vars
  <2> SUFFICES ASSUME RecoveryInv, [Next]_vars, state = "loading", state' = "busy",
                      NEW k \in Keys \ unlogged, Look(before[k], clock) # NoEntry, ~Overtaken(k)
               PROVE  /\ Look(map'[k], clock) # NoEntry
                      /\ Look(map'[k], clock).val = Look(before[k], clock).val
                      /\ Look(map'[k], clock).exp = 0 <=> Look(before[k], clock).exp = 0
                      /\ Look(map'[k], clock).exp >= Look(before[k], clock).exp
    OBVIOUS
  <2>1. PICK e \in MaybeEntry, m \in MaybeEntry : e = before[k] /\ m = map'[k] /\ Good(k, e, m)
    BY LoadEnds
  <2>2. clock \in Nat
    BY Clocks DEF RecoveryInv
  <2> QED
    BY <2>1, <2>2, GoodLives
<1>2. Spec => []RecoveryInv
  BY AlwaysRecovery
<1> QED
  BY <1>1, <1>2, PTL DEF Spec, RecoversLive

(* Server::start: where no key has a deadline, the restart brings back     *)
(* exactly what the process that ended held, but for the keys of the       *)
(* commands it was cut off in.                                             *)
THEOREM RestartRecovers ==
  ASSUME Recoverable, NoDeadlines
  PROVE  Spec => RecoversMemory
<1> DEFINE Step == (state = "loading" /\ state' = "busy")
       => \A k \in Keys \ unlogged : Look(map'[k], clock) = Look(before[k], clock)
<1>1. RecoveryInv /\ [Next]_vars => [Step]_vars
  <2> SUFFICES ASSUME RecoveryInv, [Next]_vars, state = "loading", state' = "busy",
                      NEW k \in Keys \ unlogged
               PROVE  Look(map'[k], clock) = Look(before[k], clock)
    OBVIOUS
  <2>1. ~Overtaken(k) /\ Exact(k)
    BY NothingDue DEF RecoveryInv
  <2>2. Good(k, before[k], map'[k])
    BY <2>1, LoadEnds
  <2> QED
    BY <2>1, <2>2 DEF Good
<1>2. Spec => []RecoveryInv
  BY AlwaysRecovery
<1> QED
  BY <1>1, <1>2, PTL DEF Spec, RecoversMemory

=============================================================================
