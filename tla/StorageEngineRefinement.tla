----------------------- MODULE StorageEngineRefinement -----------------------
(***************************************************************************)
(* StorageEngine implements the atomic dictionary of KVStore: every step   *)
(* of a thread or of the sweeper is a step of KVStore on the abstract map, *)
(* or leaves the abstract state alone.                                     *)
(***************************************************************************)
EXTENDS StorageEngineProofs

(* Zenon is the prover of the leaves that name no other one.               *)
USE Zenon

-----------------------------------------------------------------------------
(* The abstract dictionary: what the locals of a thread mean between the   *)
(* steps of a call, which entry each key stands for, and what a command    *)
(* makes of it.                                                            *)

(* What a thread's locals mean between the steps of a call: outside a call *)
(* they are reset; only DEL and EXISTS count; only INCR and DECR, once     *)
(* they have parsed, hold a value and an expiry, and then those of an      *)
(* entry that had not lapsed when the call began, or of an absent key.     *)
Parsed(c) ==
  /\ ~(loc[c].exp > 0 /\ loc[c].exp <= tnow[c])
  /\ \/ ~Present(Key(c)) /\ loc[c].val = 0 /\ loc[c].exp = 0
     \/ pc[c] = "load" /\ Present(Key(c))
     \/ pc[c] # "load" /\ loc[c].old # 0

LocalsOK(c) ==
  /\ pc[c] = "idle" => req[c] = NoRequest /\ loc[c] = NoLocals
  /\ pc[c] # "idle" /\ Cmd(c) \notin {"DEL", "EXISTS"} => loc[c].cnt = 0
  /\ IF Updating(c) THEN Parsed(c) ELSE loc[c].exp = 0

LocalsInv == \A c \in Clients : LocalsOK(c)

(* A thread that has returned has no call and fresh locals.                *)
LEMMA ReturnLocals ==
  ASSUME TypeOK, NEW c \in Clients, NEW a, Return(c, a)
  PROVE  LocalsOK(c)'
<1>1. pc'[c] = "idle" /\ req'[c] = NoRequest /\ loc'[c] = NoLocals
  BY DEF Return, TypeOK
<1>2. NoLocals.exp = 0
  BY DEF NoLocals
<1> QED
  BY <1>1, <1>2 DEF LocalsOK, Updating

(* del and exists go on to their next key with only a count.               *)
LEMMA CountLocals ==
  ASSUME TypeOK, LocalsInv, NEW c \in Clients, NEW b, CountKey(c, b),
         InBody(c, {"DEL", "EXISTS"})
  PROVE  LocalsOK(c)'
<1> DEFINE n == loc[c].cnt + (IF b THEN 1 ELSE 0)
<1>1. CASE Return(c, Answer("int", n))
  BY <1>1, ReturnLocals
<1>2. CASE /\ Len(req[c].keys) > 1
           /\ Unlock(c)
           /\ pc' = [pc EXCEPT ![c] = "wait"]
           /\ req' = [req EXCEPT ![c] = Rest(@)]
           /\ loc' = [loc EXCEPT ![c].cnt = n]
           /\ UNCHANGED <<tnow, ret>>
  <2>1. pc'[c] = "wait" /\ req'[c] = Rest(req[c]) /\ loc'[c] = [loc[c] EXCEPT !.cnt = n]
    BY <1>2 DEF TypeOK
  <2>2. req'[c].cmd = req[c].cmd
    BY <2>1, SMT DEF Rest
  <2>3. loc[c].exp = 0
    BY DEF LocalsInv, LocalsOK, Updating, InBody
  <2>4. loc'[c].exp = loc[c].exp
    BY <2>1, LocType DEF Locals
  <2> QED
    BY <2>1, <2>2, <2>3, <2>4 DEF LocalsOK, Updating, InBody, Cmd
<1> QED
  BY <1>1, <1>2 DEF CountKey

(* Parsing leaves the value and the expiry of the entry, unless it had     *)
(* lapsed.                                                                 *)
LEMMA ParseLocals ==
  ASSUME TypeOK, LocalsInv, NEW c \in Clients, incr_parse(c)
  PROVE  LocalsOK(c)'
<1> DEFINE k == Key(c)
           Proceed(v, e) == /\ pc' = [pc EXCEPT ![c] = "load"]
                            /\ loc' = [loc EXCEPT ![c].val = v, ![c].exp = e]
                            /\ UNCHANGED <<lock, req, tnow, ret>>
<1>1. k \in Keys /\ Cmd(c) \in {"INCR", "DECR"} /\ pc[c] = "body" /\ loc[c].cnt = 0
  BY KeyType DEF incr_parse, InBody, LocalsInv, LocalsOK
<1>2. ASSUME NEW v, NEW e, Proceed(v, e)
      PROVE  /\ pc'[c] = "load" /\ Updating(c)' /\ Key(c)' = k /\ tnow'[c] = tnow[c]
             /\ loc'[c].val = v /\ loc'[c].exp = e /\ loc'[c].cnt = 0
  <2>1. pc'[c] = "load" /\ loc'[c] = [loc[c] EXCEPT !.val = v, !.exp = e]
    BY <1>2 DEF TypeOK
  <2>2. loc'[c].val = v /\ loc'[c].exp = e /\ loc'[c].cnt = 0
    BY <1>1, <2>1, LocType DEF Locals
  <2> QED
    BY <1>1, <1>2, <2>1, <2>2 DEF Updating, Cmd, Key
<1>3. CASE Proceed(0, 0) /\ dict'[k] = NoEntry
  <2>1. /\ pc'[c] = "load" /\ Updating(c)' /\ Key(c)' = k /\ tnow'[c] = tnow[c]
        /\ loc'[c].val = 0 /\ loc'[c].exp = 0 /\ loc'[c].cnt = 0
    BY <1>2, <1>3
  <2> QED
    BY <1>3, <2>1, SMT DEF LocalsOK, Parsed, Present
<1>4. CASE /\ Proceed(dict[k].val, dict[k].exp) /\ KeepDict
           /\ Present(k) /\ ~Lapsed(k, tnow[c])
  <2>1. dict'[k] # NoEntry /\ ~(dict[k].exp > 0 /\ dict[k].exp <= tnow[c])
    BY <1>4 DEF KeepDict, Present, Lapsed, Expired
  <2> QED
    BY <1>2, <1>4, <2>1 DEF LocalsOK, Parsed, Present
<1>5. CASE Return(c, Answer("nullopt", 0))
  BY <1>5, ReturnLocals
<1>6. \/ Proceed(0, 0) /\ dict'[k] = NoEntry
      \/ /\ Proceed(dict[k].val, dict[k].exp) /\ KeepDict
         /\ Present(k) /\ ~Lapsed(k, tnow[c])
      \/ Return(c, Answer("nullopt", 0))
  <2>1. Erase(k) => dict'[k] = NoEntry
    BY <1>1 DEF Erase, TypeOK
  <2>2. KeepDict => dict'[k] = dict[k]
    BY DEF KeepDict
  <2> QED
    BY <2>1, <2>2 DEF incr_parse, Present
<1> QED
  BY <1>3, <1>4, <1>5, <1>6

(* A thread's own steps keep its locals meaningful.                        *)
LEMMA OwnLocals ==
  ASSUME Inv, LocalsInv, NEW c \in Clients, Work(c)
  PROVE  LocalsOK(c)'
<1> USE DEF Inv
<1>0. /\ pc[c] \in Holding /\ Key(c) \in Keys
      /\ LocalsOK(c)
  BY WorkShape, KeyType DEF LocalsInv, Holding
<1>1. CASE get(c) \/ expire(c) \/ pttl(c) \/ persist(c) \/ commit(c)
  <2>1. \E a : Return(c, a)
    BY <1>1 DEF get, expire, pttl, persist, commit, Lookup
  <2> QED
    BY <2>1, ReturnLocals
<1>2. CASE exists(c) \/ del(c)
  <2>1. (\E b : CountKey(c, b)) /\ InBody(c, {"DEL", "EXISTS"})
    BY <1>2 DEF exists, del, Lookup, InBody
  <2> QED
    BY <2>1, CountLocals
<1>3. CASE incr_parse(c)
  BY <1>3, ParseLocals
<1>4. ASSUME pc[c] # "body", pc'[c] \in {"check", "evict", "commit"},
             UNCHANGED <<req, tnow>>,
             loc'[c].val = loc[c].val, loc'[c].exp = loc[c].exp, loc'[c].cnt = loc[c].cnt,
             dict'[Key(c)] \in {dict[Key(c)], NoEntry},
             \/ pc[c] # "load" /\ loc'[c].old = loc[c].old
             \/ pc[c] = "load" /\ (Present(Key(c)) => loc'[c].old # 0)
      PROVE  LocalsOK(c)'
  <2>1. Updating(c)' <=> Updating(c)
    BY <1>0, <1>4 DEF Updating, Cmd, Holding
  <2>2. Key(c)' = Key(c) /\ Cmd(c)' = Cmd(c)
    BY <1>4 DEF Key, Cmd
  <2>3. CASE Updating(c)
    <3>1. Parsed(c)
      BY <1>0, <2>3 DEF LocalsOK
    <3>2. Parsed(c)'
      BY <1>4, <2>2, <3>1 DEF Parsed, Present
    <3> QED
      BY <1>0, <1>4, <2>1, <2>2, <2>3, <3>2 DEF LocalsOK, Holding
  <2>4. CASE ~Updating(c)
    BY <1>0, <1>4, <2>1, <2>2, <2>4 DEF LocalsOK, Holding
  <2> QED
    BY <2>3, <2>4
<1>5. CASE load_usage(c)
  <2>1. /\ pc[c] = "load" /\ pc'[c] = "check" /\ UNCHANGED <<req, tnow, dict>>
        /\ loc'[c] = [loc[c] EXCEPT !.cur = total,
                                    !.old = IF Present(Key(c)) THEN entry_cost(Key(c), dict[Key(c)].cap) ELSE 0]
    BY <1>5 DEF load_usage, TypeOK
  <2>2. Present(Key(c)) => loc'[c].old = entry_cost(Key(c), dict[Key(c)].cap)
    BY <2>1, LocType DEF Locals
  <2>3. Present(Key(c)) => loc'[c].old # 0
    BY <1>0, <2>2, EntryType
  <2> QED
    BY <1>4, <1>5, <2>1, <2>3, QuietLoc
<1>6. CASE check_memory(c)
  <2>1. /\ pc[c] = "check" /\ pc'[c] \in {"evict", "commit"} /\ UNCHANGED <<req, tnow, dict>>
        /\ ~load_usage(c)
    BY <1>6 DEF check_memory, load_usage, TypeOK
  <2> QED
    BY <1>4, <1>6, <2>1, QuietLoc
<1>7. CASE \E k \in Keys : evict_one(c, k)
  <2>1. PICK k \in Keys : evict_one(c, k)
    BY <1>7
  <2>2. /\ pc[c] = "evict" /\ pc'[c] = "evict" /\ UNCHANGED <<req, tnow>>
        /\ ~load_usage(c)
        /\ dict' = [dict EXCEPT ![k] = NoEntry]
    BY <2>1 DEF evict_one, load_usage, Erase
  <2>3. dict'[Key(c)] \in {dict[Key(c)], NoEntry}
    BY <1>0, <2>2 DEF TypeOK
  <2> QED
    BY <1>4, <1>7, <2>2, <2>3, QuietLoc
<1>8. CASE evict_done(c)
  <2>1. CASE \E a : Return(c, a)
    BY <2>1, ReturnLocals
  <2>2. CASE ~\E a : Return(c, a)
    <3>1. pc[c] = "evict" /\ pc' = [pc EXCEPT ![c] = "commit"] /\ UNCHANGED <<req, tnow, loc, dict>>
      BY <1>8, <2>2 DEF evict_done
    <3>2. pc'[c] = "commit"
      BY <3>1 DEF TypeOK
    <3> QED
      BY <1>4, <3>1, <3>2
  <2> QED
    BY <2>1, <2>2
<1> QED
  BY <1>1, <1>2, <1>3, <1>5, <1>6, <1>7, <1>8 DEF Work

(* Every step keeps every thread's locals meaningful.                      *)
LEMMA NextLocals ==
  ASSUME Inv, LocalsInv, [Next]_vars
  PROVE  LocalsInv'
<1> USE DEF Inv
<1> SUFFICES ASSUME NEW c \in Clients
             PROVE  LocalsOK(c)'
  BY DEF LocalsInv
<1>0. LocalsOK(c)
  BY DEF LocalsInv
<1>1. CASE Work(c)
  BY <1>1, OwnLocals
<1>2. ASSUME pc'[c] = pc[c], req'[c] = req[c], loc'[c] = loc[c], tnow'[c] = tnow[c], ~Work(c)
      PROVE  LocalsOK(c)'
  <2>1. Key(c)' = Key(c) /\ Cmd(c)' = Cmd(c) /\ (Updating(c)' <=> Updating(c))
    BY <1>2 DEF Key, Cmd, Updating
  <2>2. Updating(c) => dict'[Key(c)] = dict[Key(c)]
    BY <1>2, OthersKeep DEF Updating, Holding
  <2>3. Updating(c) => (Parsed(c)' <=> Parsed(c))
    BY <1>2, <2>1, <2>2 DEF Parsed, Present
  <2> QED
    BY <1>0, <1>2, <2>1, <2>3 DEF LocalsOK
<1>3. ASSUME NEW d \in Clients, d # c, Work(d), ~Work(c)
      PROVE  LocalsOK(c)'
  <2>1. pc'[c] = pc[c] /\ req'[c] = req[c] /\ tnow'[c] = tnow[c]
    <3>1. CASE Stays(d)
      BY <1>3, <3>1 DEF Stays, TypeOK
    <3>2. CASE Leaves(d)
      BY <1>3, <3>2 DEF Leaves, TypeOK
    <3> QED
      BY <1>3, <3>1, <3>2, WorkShape
  <2> QED
    BY <1>2, <1>3, <2>1, WorkLoc
<1>4. ASSUME NEW d \in Clients, \E r \in Requests : Begin(d, r), ~Work(c)
      PROVE  LocalsOK(c)'
  <2>1. CASE d = c
    <3>1. pc'[c] = "wait" /\ loc'[c] = NoLocals
      BY <1>0, <1>4, <2>1 DEF Begin, TypeOK, LocalsOK
    <3>2. NoLocals.exp = 0 /\ NoLocals.cnt = 0
      BY DEF NoLocals
    <3> QED
      BY <3>1, <3>2 DEF LocalsOK, Updating
  <2>2. CASE d # c
    BY <1>2, <1>4, <2>2 DEF Begin, TypeOK
  <2> QED
    BY <2>1, <2>2
<1>5. ASSUME NEW d \in Clients, Acquire(d), ~Work(c)
      PROVE  LocalsOK(c)'
  <2>1. CASE d = c
    <3>1. /\ pc[c] = "wait" /\ UNCHANGED <<req, loc>>
          /\ pc'[c] = IF Cmd(c) = "SET" THEN "load" ELSE "body"
      BY <1>5, <2>1 DEF Acquire, TypeOK
    <3>2. ~Updating(c) /\ ~Updating(c)' /\ pc'[c] # "idle"
      BY <3>1 DEF Updating, Cmd
    <3> QED
      BY <1>0, <3>1, <3>2 DEF LocalsOK, Cmd
  <2>2. CASE d # c
    BY <1>2, <1>5, <2>2 DEF Acquire, TypeOK
  <2> QED
    BY <2>1, <2>2
<1>6. CASE UNCHANGED <<pc, req, loc, tnow>> /\ ~Work(c)
  BY <1>2, <1>6
<1>7. Tick \/ background_sweeper \/ UNCHANGED vars
        \/ (\E d \in Clients, b \in MemLimits : set_max_memory(d, b))
        => UNCHANGED <<pc, req, loc, tnow>>
  BY DEF Tick, background_sweeper, sweep_wake, sweep_try, sweep_entry, sweep_unlock,
               SweepFrame, set_max_memory, vars
<1> QED
  BY <1>1, <1>3, <1>4, <1>5, <1>6, <1>7 DEF Next

(* The invariant the simulation needs.                                     *)
SimInv == Inv /\ NoLostUpdate /\ LocalsInv

(* The locals mean what they should in every reachable state.              *)
LEMMA SimInvHolds == Spec => []SimInv
<1>1. Init => LocalsInv
  <2> SUFFICES ASSUME Init, NEW c \in Clients PROVE LocalsOK(c)
    BY DEF LocalsInv
  <2>1. pc[c] = "idle" /\ req[c] = NoRequest /\ loc[c] = NoLocals
    BY DEF Init
  <2>2. NoLocals.exp = 0
    BY DEF NoLocals
  <2> QED
    BY <2>1, <2>2 DEF LocalsOK, Updating
<1>2. Inv /\ LocalsInv /\ [Next]_vars => LocalsInv'
  BY NextLocals
<1> QED
  BY <1>1, <1>2, InvHolds, UpdatesStay, PTL DEF Spec, SimInv

-----------------------------------------------------------------------------
(* The abstract map, and what a thread's step does to it.                  *)

Strip(e) == IF e = NoEntry THEN NoEntry ELSE [val |-> e.val, exp |-> e.exp]
Held(c) == [val |-> loc[c].val, exp |-> loc[c].exp]

AbsAt(k) ==
  /\ \A c \in Clients : Pending(c, k) => AbsMap[k] = Held(c)
  /\ (\A c \in Clients : ~Pending(c, k)) => AbsMap[k] = Strip(dict[k])

(* A pending update holds the mutex of its key.                            *)
LEMMA PendingHolds ==
  ASSUME Inv, NEW c \in Clients, NEW k \in Keys, Pending(c, k)
  PROVE  lock[ShardOf[k]] = c
<1>1. pc[c] \in Holding /\ Key(c) = k
  BY DEF Pending, Holding
<1> QED
  BY <1>1, EngineAssumption DEF Inv, MutexInv

(* At most one update is pending on a key, so the abstract entry of a key  *)
(* is what that update has parsed, or else what the dictionary has.        *)
LEMMA AbsOf == SimInv => \A k \in Keys : AbsAt(k)
<1> SUFFICES ASSUME SimInv, NEW k \in Keys PROVE AbsAt(k)
  OBVIOUS
<1>1. \A c, d \in Clients : Pending(c, k) /\ Pending(d, k) => c = d
  BY PendingHolds DEF SimInv
<1>2. ASSUME NEW c \in Clients, Pending(c, k)
      PROVE  AbsMap[k] = Held(c)
  <2>1. (CHOOSE d \in Clients : Pending(d, k)) = c
    BY <1>1, <1>2
  <2> QED
    BY <1>2, <2>1 DEF AbsMap, Held
<1>3. ASSUME \A c \in Clients : ~Pending(c, k)
      PROVE  AbsMap[k] = Strip(dict[k])
  BY <1>3 DEF AbsMap, Strip, Present
<1> QED
  BY <1>2, <1>3 DEF AbsAt

(* The same in the next state.                                             *)
LEMMA AbsOfNext == SimInv' => (\A k \in Keys : AbsAt(k))'
BY AbsOf, PTL

(* KVStore's copies of the operators of KVOps are those operators.         *)
LEMMA SameOps ==
  ASSUME NEW r, NEW e, NEW t, NEW n
  PROVE  /\ KV!After(r, e, t) = After(r, e, t)
         /\ KV!Result(r, e, t, n) = Result(r, e, t, n)
         /\ KV!Expired(e, t) = Expired(e, t)
         /\ KV!Rest(r) = Rest(r)
         /\ KV!NoReply = NoReply
         /\ KV!UpdateCmds = UpdateCmds
<1>1. \A x : KV!Expired(x, t) = Expired(x, t)
  BY DEF Expired, KV!Expired
<1>2. KV!Look(e, t) = Look(e, t)
  BY <1>1 DEF Look, KV!Look
<1>3. \A x, y : KV!Bump(x, y) = Bump(x, y) /\ KV!Answer(x, y) = Answer(x, y)
                /\ KV!Deadline(x, y) = Deadline(x, y) /\ KV!Remaining(x, y) = Remaining(x, y)
  BY DEF Bump, KV!Bump, Answer, KV!Answer, Deadline, KV!Deadline, Remaining, KV!Remaining
<1>4. KV!Ints = Ints /\ KV!ReadCmds = ReadCmds /\ KV!UpdateCmds = UpdateCmds
  BY DEF Ints, KV!Ints, ReadCmds, KV!ReadCmds, UpdateCmds, KV!UpdateCmds
<1>5. KV!After(r, e, t) = After(r, e, t)
  BY ZenonT(60) DEF After, KV!After, Look, KV!Look, Expired, KV!Expired, Bump, KV!Bump, Deadline,
               KV!Deadline, Ints, KV!Ints, ReadCmds, KV!ReadCmds
<1>6. KV!Result(r, e, t, n) = Result(r, e, t, n)
  BY <1>2, <1>3, <1>4 DEF Result, KV!Result
<1> QED
  BY <1>1, <1>3, <1>4, <1>5, <1>6 DEF Rest, KV!Rest, NoReply, KV!NoReply

(* A step of one thread leaves the pending updates of the others alone.    *)
LEMMA PendingOther ==
  ASSUME Inv, NEW c \in Clients, Work(c), NEW d \in Clients, d # c, NEW k \in Keys
  PROVE  (Pending(d, k)' <=> Pending(d, k)) /\ (Held(d)' = Held(d))
<1>1. pc'[d] = pc[d] /\ req'[d] = req[d]
  <2>1. CASE Stays(c)
    BY <2>1 DEF Stays, Inv, TypeOK
  <2>2. CASE Leaves(c)
    BY <2>2 DEF Leaves, Inv, TypeOK
  <2> QED
    BY <2>1, <2>2, WorkShape DEF Inv
<1>2. loc'[d] = loc[d]
  BY WorkLoc DEF Inv
<1> QED
  BY <1>1, <1>2 DEF Pending, Held, Cmd, Key

(* The thread's own key: only its own update can be pending there.         *)
LEMMA AbsOwn ==
  ASSUME SimInv, SimInv', NEW c \in Clients, Work(c), NEW k \in Keys, k = Key(c)
  PROVE  /\ AbsMap[k] = IF Pending(c, k) THEN Held(c) ELSE Strip(dict[k])
         /\ AbsMap'[k] = IF Pending(c, k)' THEN Held(c)' ELSE Strip(dict'[k])
<1> USE DEF SimInv
<1>1. lock[ShardOf[k]] = c
  <2>1. pc[c] \in Holding
    BY WorkShape DEF Inv
  <2> QED
    BY <2>1, EngineAssumption DEF Inv, MutexInv
<1>2. \A d \in Clients : d # c => ~Pending(d, k)
  BY <1>1, PendingHolds
<1>3. \A d \in Clients : d # c => ~Pending(d, k)'
  BY <1>2, PendingOther
<1>4. AbsAt(k) /\ AbsAt(k)'
  BY AbsOf, AbsOfNext
<1>5. AbsMap[k] = IF Pending(c, k) THEN Held(c) ELSE Strip(dict[k])
  BY <1>2, <1>4 DEF AbsAt
<1>6. CASE Pending(c, k)'
  BY <1>4, <1>5, <1>6 DEF AbsAt
<1>7. CASE ~Pending(c, k)'
  <2>1. \A d \in Clients : ~Pending(d, k)'
    BY <1>3, <1>7
  <2>2. AbsMap'[k] = Strip(dict'[k])
    BY <1>4, <2>1 DEF AbsAt, Strip
  <2> QED
    BY <1>5, <1>7, <2>2
<1> QED
  BY <1>6, <1>7

(* A key the thread is not working on, and does not change.                *)
LEMMA AbsElsewhere ==
  ASSUME SimInv, SimInv', NEW c \in Clients, Work(c), NEW j \in Keys, j # Key(c),
         dict'[j] = dict[j]
  PROVE  AbsMap'[j] = AbsMap[j]
<1> USE DEF SimInv
<1>1. ~Pending(c, j)
  BY DEF Pending
<1>2. ~Pending(c, j)'
  <2>1. CASE Stays(c)
    BY <2>1 DEF Stays, Pending, Key
  <2>2. CASE Leaves(c)
    <3>1. PICK p \in {"idle", "wait"} : pc' = [pc EXCEPT ![c] = p]
      BY <2>2 DEF Leaves
    <3>2. DOMAIN pc = Clients
      BY DEF Inv, TypeOK
    <3>3. pc'[c] \in {"idle", "wait"}
      BY <3>1, <3>2
    <3> QED
      BY <3>3 DEF Pending
  <2> QED
    BY <2>1, <2>2, WorkShape DEF Inv
<1>3. \A d \in Clients : Pending(d, j)' <=> Pending(d, j)
  BY <1>1, <1>2, PendingOther
<1>4. AbsAt(j) /\ AbsAt(j)'
  BY AbsOf, AbsOfNext
<1>5. CASE \E d \in Clients : Pending(d, j)
  <2>1. PICK d \in Clients : Pending(d, j)
    BY <1>5
  <2>2. Held(d)' = Held(d)
    BY <1>1, <2>1, PendingOther
  <2>3. AbsMap[j] = Held(d) /\ AbsMap'[j] = Held(d)'
    BY <1>3, <1>4, <2>1 DEF AbsAt
  <2> QED
    BY <2>2, <2>3
<1>6. CASE ~\E d \in Clients : Pending(d, j)
  <2>1. AbsMap[j] = Strip(dict[j])
    BY <1>4, <1>6 DEF AbsAt
  <2>2. AbsMap'[j] = Strip(dict'[j])
    BY <1>3, <1>4, <1>6 DEF AbsAt, Strip
  <2> QED
    BY <2>1, <2>2
<1> QED
  BY <1>5, <1>6

(* So a step that changes the dictionary at most at the thread's own key   *)
(* changes the abstract map at most there.                                 *)
LEMMA AbsStep ==
  ASSUME SimInv, SimInv', NEW c \in Clients, Work(c),
         \A j \in Keys : j # Key(c) => dict'[j] = dict[j]
  PROVE  AbsMap' = [AbsMap EXCEPT ![Key(c)] = AbsMap'[Key(c)]]
<1>1. \A j \in Keys : j # Key(c) => AbsMap'[j] = AbsMap[j]
  BY AbsElsewhere
<1>2. /\ AbsMap = [j \in Keys |-> AbsMap[j]]
      /\ AbsMap' = [j \in Keys |-> AbsMap'[j]]
  BY DEF AbsMap
<1> HIDE DEF AbsMap
<1> QED
  BY <1>1, <1>2

-----------------------------------------------------------------------------
(* Steps of KVStore, from what a thread's step does to the abstract state. *)

Effect(c) == AbsMap' = [AbsMap EXCEPT ![Key(c)] = After(req[c], AbsMap[Key(c)], tnow[c])]
Outcome(c) == Result(req[c], AbsMap[Key(c)], tnow[c], loc[c].cnt)

(* The counts as KVStore sees them, before and after a step.               *)
Counts == [c \in Clients |-> loc[c].cnt]

(* A step that changes one thread's count.                                 *)
LEMMA CountStep ==
  ASSUME NEW c \in Clients, NEW v, loc'[c].cnt = v,
         \A d \in Clients : d # c => loc'[d] = loc[d]
  PROVE  [d \in Clients |-> loc'[d].cnt] = [[d \in Clients |-> loc[d].cnt] EXCEPT ![c] = v]
OBVIOUS

(* A return resets the thread as KVStore!Finish does.                      *)
LEMMA Finishes ==
  ASSUME TypeOK, NEW c \in Clients, NEW a, Return(c, a)
  PROVE  KV!Finish(c, a)
<1>1. NoLocals.cnt = 0
  BY DEF NoLocals
<1>2. loc' = [loc EXCEPT ![c] = NoLocals] /\ loc \in [Clients -> Locals]
  BY DEF Return, TypeOK
<1>3. [d \in Clients |-> loc'[d].cnt] = [[d \in Clients |-> loc[d].cnt] EXCEPT ![c] = 0]
  BY <1>1, <1>2
<1> QED
  BY <1>3 DEF Return, KV!Finish

(* A method that ends with the effect and the result KVOps gives them.     *)
LEMMA PerformsLast ==
  ASSUME SimInv, NEW c \in Clients, Work(c), Effect(c), Len(req[c].keys) = 1,
         Return(c, Outcome(c))
  PROVE  KV!Perform(c)
<1>1. TypeOK /\ PathInv
  BY DEF SimInv, Inv
<1>2. req[c] # NoRequest
  BY <1>1, WorkShape, EngineAssumption DEF TypeOK, Holding
<1>3. UNCHANGED <<clock, limited>>
  BY <1>1, WorkShape
<1>0. PICK a : a = Outcome(c)
  OBVIOUS
<1>4. KV!Finish(c, a)
  BY <1>0, <1>1, Finishes
<1>5. a = KV!Result(req[c], AbsMap[Key(c)], tnow[c], Counts[c])
  BY <1>0, SameOps DEF Outcome, Counts
<1>6. AbsMap' = [AbsMap EXCEPT ![Key(c)] = KV!After(req[c], AbsMap[Key(c)], tnow[c])]
  BY SameOps DEF Effect
<1> QED
  BY <1>2, <1>3, <1>4, <1>5, <1>6 DEF KV!Perform, KV!Finish, Key, Counts

(* del and exists with more keys to go.                                    *)
LEMMA PerformsMore ==
  ASSUME SimInv, NEW c \in Clients, Work(c), Effect(c), Len(req[c].keys) > 1,
         req' = [req EXCEPT ![c] = Rest(@)],
         loc' = [loc EXCEPT ![c].cnt = Outcome(c).val],
         UNCHANGED <<tnow, ret>>
  PROVE  KV!Perform(c)
<1>1. TypeOK /\ PathInv
  BY DEF SimInv, Inv
<1>2. req[c] # NoRequest
  BY <1>1, WorkShape, EngineAssumption DEF TypeOK, Holding
<1>3. UNCHANGED <<clock, limited>>
  BY <1>1, WorkShape
<1>4. [d \in Clients |-> loc'[d].cnt] = [[d \in Clients |-> loc[d].cnt] EXCEPT ![c] = Outcome(c).val]
  <2>1. loc \in [Clients -> Locals]
    BY <1>1 DEF TypeOK
  <2>2. loc'[c] = [loc[c] EXCEPT !.cnt = Outcome(c).val] /\ loc[c] \in Locals
    BY <2>1
  <2>3. loc'[c].cnt = Outcome(c).val
    BY <2>2 DEF Locals
  <2>4. \A d \in Clients : d # c => loc'[d] = loc[d]
    BY <2>1
  <2>5. PICK v : v = Outcome(c).val
    OBVIOUS
  <2>6. [d \in Clients |-> loc'[d].cnt] = [[d \in Clients |-> loc[d].cnt] EXCEPT ![c] = v]
    <3>1. loc'[c].cnt = v
      BY <2>3, <2>5
    <3> QED
      BY <2>4, <3>1, CountStep
  <2> QED
    BY <2>5, <2>6
<1>5. Outcome(c) = KV!Result(req[c], AbsMap[Key(c)], tnow[c], Counts[c])
  BY SameOps DEF Outcome, Counts
<1>6. AbsMap' = [AbsMap EXCEPT ![Key(c)] = KV!After(req[c], AbsMap[Key(c)], tnow[c])]
  BY SameOps DEF Effect
<1>7. req' = [req EXCEPT ![c] = KV!Rest(@)]
  BY SameOps
<1> QED
  BY <1>2, <1>3, <1>4, <1>5, <1>6, <1>7 DEF KV!Perform, Key, Counts

(* A method that works on its key in one step, under the mutex.            *)
LEMMA BodyEffect ==
  ASSUME SimInv, SimInv', NEW c \in Clients, Work(c), pc[c] = "body", Leaves(c),
         \A j \in Keys : j # Key(c) => dict'[j] = dict[j],
         Strip(dict'[Key(c)]) = After(req[c], Strip(dict[Key(c)]), tnow[c])
  PROVE  AbsMap[Key(c)] = Strip(dict[Key(c)]) /\ Effect(c)
<1>1. PICK k \in Keys : k = Key(c)
  BY KeyType DEF SimInv, Inv
<1>2. ~Pending(c, k) /\ ~Pending(c, k)'
  BY DEF Pending, Leaves, SimInv, Inv, TypeOK
<1>3. AbsMap[k] = Strip(dict[k]) /\ AbsMap'[k] = Strip(dict'[k])
  BY <1>1, <1>2, AbsOwn
<1>4. AbsMap' = [AbsMap EXCEPT ![Key(c)] = AbsMap'[Key(c)]]
  BY AbsStep
<1> HIDE DEF AbsMap
<1> QED
  BY <1>1, <1>3, <1>4 DEF Effect

(* Leaving out the capacity changes neither expiry nor remaining time.     *)
LEMMA StripFacts ==
  ASSUME NEW e \in DictEntry \cup {NoEntry}, NEW t
  PROVE  /\ Strip(e) = NoEntry <=> e = NoEntry
         /\ Expired(Strip(e), t) <=> Expired(e, t)
         /\ e # NoEntry => /\ Strip(e).val = e.val /\ Strip(e).exp = e.exp
                           /\ Strip(e) = [val |-> e.val, exp |-> e.exp]
                           /\ Remaining(Strip(e), t) = Remaining(e, t)
<1>1. e # NoEntry => Strip(e) = [val |-> e.val, exp |-> e.exp]
  BY DEF Strip
<1>2. e # NoEntry => [val |-> e.val, exp |-> e.exp] \in Entry
  BY DEF DictEntry, Entry
<1>3. Strip(e) = NoEntry <=> e = NoEntry
  BY <1>1, <1>2, NoEntryAssumption DEF Strip
<1>4. e # NoEntry => Strip(e).val = e.val /\ Strip(e).exp = e.exp
  BY <1>1, SMT
<1> QED
  BY <1>1, <1>3, <1>4 DEF Expired, Remaining

(* What the methods have to agree with: After and Result, command by       *)
(* command, for an entry of the dictionary stripped of its capacity.       *)
Gone(e, t) == e = NoEntry \/ Expired(e, t)
Bare(e) == [val |-> e.val, exp |-> e.exp]

(* What a method goes on with after its lazy erase.                        *)
LEMMA LookStrip ==
  ASSUME NEW e \in DictEntry \cup {NoEntry}, NEW t
  PROVE  /\ Look(Strip(e), t) = IF Gone(e, t) THEN NoEntry ELSE Bare(e)
         /\ ~Gone(e, t) => Bare(e) # NoEntry
BY StripFacts DEF Look, Gone, Bare, Strip

(* GET, EXISTS and PTTL: nothing changes but that an expired entry goes.   *)
LEMMA OpRead ==
  ASSUME NEW e \in DictEntry \cup {NoEntry}, NEW t, NEW n, NEW r, r.cmd \in ReadCmds
  PROVE  /\ After(r, Strip(e), t) = IF Gone(e, t) THEN NoEntry ELSE Bare(e)
         /\ r.cmd = "GET" => Result(r, Strip(e), t, n) =
              IF Gone(e, t) THEN Answer("nil", 0) ELSE Answer("bulk", e.val)
         /\ r.cmd = "EXISTS" => Result(r, Strip(e), t, n) =
              Answer("int", n + (IF Gone(e, t) THEN 0 ELSE 1))
         /\ r.cmd = "PTTL" => Result(r, Strip(e), t, n) =
              Answer("int", IF Gone(e, t) THEN -2 ELSE IF e.exp = 0 THEN -1 ELSE Remaining(e, t))
<1>1. PICK l : l = Look(Strip(e), t)
  OBVIOUS
<1>2. l = (IF Gone(e, t) THEN NoEntry ELSE Bare(e)) /\ (~Gone(e, t) => l # NoEntry)
  BY <1>1, LookStrip
<1>3. ~Gone(e, t) => l.val = e.val /\ l.exp = e.exp /\ Remaining(l, t) = Remaining(e, t)
  BY <1>2 DEF Bare, Remaining
<1>4. After(r, Strip(e), t) = l
  BY <1>1 DEF After, ReadCmds
<1>5. r.cmd = "GET" => Result(r, Strip(e), t, n) =
        IF l = NoEntry THEN Answer("nil", 0) ELSE Answer("bulk", l.val)
  BY <1>1 DEF Result
<1>6. r.cmd = "EXISTS" => Result(r, Strip(e), t, n) =
        Answer("int", n + (IF l # NoEntry THEN 1 ELSE 0))
  BY <1>1 DEF Result
<1>7. r.cmd = "PTTL" => Result(r, Strip(e), t, n) =
        Answer("int", IF l = NoEntry THEN -2 ELSE IF l.exp = 0 THEN -1 ELSE Remaining(l, t))
  BY <1>1 DEF Result
<1> QED
  BY <1>2, <1>3, <1>4, <1>5, <1>6, <1>7

(* DEL removes the entry and counts it, expired or not.                    *)
LEMMA OpDel ==
  ASSUME NEW e \in DictEntry \cup {NoEntry}, NEW t, NEW n, NEW r, r.cmd = "DEL"
  PROVE  /\ After(r, Strip(e), t) = NoEntry
         /\ Result(r, Strip(e), t, n) = Answer("int", n + (IF e = NoEntry THEN 0 ELSE 1))
<1>1. After(r, Strip(e), t) = NoEntry
  BY DEF After, ReadCmds
<1>2. Result(r, Strip(e), t, n) = Answer("int", n + (IF Strip(e) # NoEntry THEN 1 ELSE 0))
  BY DEF Result
<1> QED
  BY <1>1, <1>2, StripFacts

(* EXPIRE, PEXPIREAT and PERSIST change the deadline of a live entry.      *)
LEMMA OpTtl ==
  ASSUME NEW e \in DictEntry \cup {NoEntry}, NEW t, NEW n, NEW r,
         r.cmd \in {"PEXPIRE", "PEXPIREAT", "PERSIST"}
  PROVE  LET deadline == IF r.cmd = "PEXPIRE" THEN Deadline(t, r.arg)
                         ELSE IF r.cmd = "PEXPIREAT" THEN r.arg ELSE 0
         IN  /\ After(r, Strip(e), t) =
                  IF Gone(e, t) THEN NoEntry ELSE [val |-> e.val, exp |-> deadline]
             /\ Result(r, Strip(e), t, n) =
                  Answer("int", n + (IF Gone(e, t) \/ (r.cmd = "PERSIST" /\ e.exp = 0) THEN 0 ELSE 1))
<1> DEFINE deadline == IF r.cmd = "PEXPIRE" THEN Deadline(t, r.arg)
                       ELSE IF r.cmd = "PEXPIREAT" THEN r.arg ELSE 0
<1>1. PICK l : l = Look(Strip(e), t)
  OBVIOUS
<1>2. l = (IF Gone(e, t) THEN NoEntry ELSE Bare(e)) /\ (~Gone(e, t) => l # NoEntry)
  BY <1>1, LookStrip
<1>3. ~Gone(e, t) => l.val = e.val /\ l.exp = e.exp /\ \A x : [l EXCEPT !.exp = x] = [val |-> e.val, exp |-> x]
  BY <1>2, SMT DEF Bare
<1>4. After(r, Strip(e), t) = IF l = NoEntry THEN l ELSE [l EXCEPT !.exp = deadline]
  <2>1. CASE r.cmd = "PEXPIRE"
    BY <1>1, <2>1 DEF After, ReadCmds
  <2>2. CASE r.cmd = "PEXPIREAT"
    BY <1>1, <2>2 DEF After, ReadCmds
  <2>3. CASE r.cmd = "PERSIST"
    BY <1>1, <2>3 DEF After, ReadCmds
  <2> QED
    BY <2>1, <2>2, <2>3
<1>5. r.cmd = "PERSIST" => Result(r, Strip(e), t, n) =
        Answer("int", n + (IF l # NoEntry /\ l.exp # 0 THEN 1 ELSE 0))
  BY <1>1 DEF Result
<1>6. r.cmd \in {"PEXPIRE", "PEXPIREAT"} => Result(r, Strip(e), t, n) =
        Answer("int", n + (IF l # NoEntry THEN 1 ELSE 0))
  BY <1>1 DEF Result
<1>7. After(r, Strip(e), t) = IF Gone(e, t) THEN NoEntry ELSE [val |-> e.val, exp |-> deadline]
  BY <1>2, <1>3, <1>4
<1> QED
  BY <1>2, <1>3, <1>5, <1>6, <1>7

(* INCR and DECR on an absent key.                                         *)
LEMMA OpIncrAbsent ==
  ASSUME NEW r, r.cmd \in {"INCR", "DECR"}, NEW t, NEW n
  PROVE  /\ After(r, NoEntry, t) = [val |-> Bump(r.cmd, 0), exp |-> 0]
         /\ Result(r, NoEntry, t, n) = Answer("int", Bump(r.cmd, 0))
<1>1. Look(NoEntry, t) = NoEntry
  BY DEF Look, Expired
<1>2. After(r, NoEntry, t) = [val |-> Bump(r.cmd, 0), exp |-> 0]
  BY <1>1 DEF After, ReadCmds
<1>3. Result(r, NoEntry, t, n) = Answer("int", Bump(r.cmd, 0))
  BY <1>1 DEF Result
<1> QED
  BY <1>2, <1>3

(* INCR and DECR on an entry, an integer or another value.                 *)
LEMMA OpIncrEntry ==
  ASSUME NEW r, r.cmd \in {"INCR", "DECR"}, NEW t, NEW n,
         NEW s, s = [val |-> s.val, exp |-> s.exp], s # NoEntry, ~Expired(s, t)
  PROVE  /\ s.val \in Ints => /\ After(r, s, t) = [val |-> Bump(r.cmd, s.val), exp |-> s.exp]
                              /\ Result(r, s, t, n) = Answer("int", Bump(r.cmd, s.val))
         /\ s.val \notin Ints => /\ After(r, s, t) = s
                                 /\ Result(r, s, t, n) = Answer("nullopt", 0)
<1>1. Look(s, t) = s
  BY DEF Look
<1>2. \A b : [s EXCEPT !.val = b] = [val |-> b, exp |-> s.exp]
  BY SMT
<1>3. After(r, s, t) = IF s.val \in Ints THEN [s EXCEPT !.val = Bump(r.cmd, s.val)] ELSE s
  BY <1>1 DEF After, ReadCmds
<1>4. Result(r, s, t, n) = IF s.val \in Ints THEN Answer("int", Bump(r.cmd, s.val)) ELSE Answer("nullopt", 0)
  BY <1>1 DEF Result
<1> QED
  BY <1>2, <1>3, <1>4

(* SET, whatever it finds.                                                 *)
LEMMA OpSet ==
  ASSUME NEW r, r.cmd = "SET", NEW s, NEW t, NEW n
  PROVE  /\ After(r, s, t) = [val |-> r.arg, exp |-> 0]
         /\ Result(r, s, t, n) = Answer("ok", 0)
BY DEF After, Result, ReadCmds

-----------------------------------------------------------------------------
(* The methods that finish in one step under the mutex.                    *)

(* The lazy expiry of a lookup.                                            *)
LEMMA LazyDict ==
  ASSUME TypeOK, NEW k \in Keys, NEW t,
         \/ ~Present(k) /\ KeepDict
         \/ Lapsed(k, t) /\ Erase(k)
         \/ Present(k) /\ ~Lapsed(k, t) /\ KeepDict
  PROVE  /\ Strip(dict'[k]) = IF Gone(dict[k], t) THEN NoEntry ELSE Bare(dict[k])
         /\ \A j \in Keys : j # k => dict'[j] = dict[j]
<1>1. CASE Gone(dict[k], t)
  <2>1. dict'[k] = NoEntry /\ \A j \in Keys : j # k => dict'[j] = dict[j]
    BY <1>1 DEF Gone, Present, Lapsed, KeepDict, Erase, TypeOK
  <2> QED
    BY <1>1, <2>1 DEF Strip
<1>2. CASE ~Gone(dict[k], t)
  <2>1. dict' = dict /\ dict[k] # NoEntry
    BY <1>2 DEF Gone, Present, Lapsed, KeepDict
  <2> QED
    BY <1>2, <2>1 DEF Strip, Bare
<1> QED
  BY <1>1, <1>2

(* A thread in the body of a method.                                       *)
LEMMA InMethod ==
  ASSUME SimInv, NEW c \in Clients, pc[c] = "body"
  PROVE  /\ Key(c) \in Keys
         /\ dict[Key(c)] \in DictEntry \cup {NoEntry}
         /\ Cmd(c) \notin {"DEL", "EXISTS"} => Len(req[c].keys) = 1 /\ loc[c].cnt = 0
<1>1. Key(c) \in Keys /\ IsRequest(req[c])
  BY KeyType DEF SimInv, Inv, TypeOK
<1> QED
  BY <1>1 DEF SimInv, Inv, TypeOK, LocalsInv, LocalsOK, IsRequest, Cmd

(* get and pttl.                                                           *)
LEMMA SimRead ==
  ASSUME SimInv, SimInv', NEW c \in Clients, get(c) \/ pttl(c)
  PROVE  KV!Perform(c)
<1>1. TypeOK /\ PathInv /\ Work(c) /\ pc[c] = "body" /\ Cmd(c) \in {"GET", "PTTL"}
  BY DEF SimInv, Inv, Work, get, pttl, InBody
<1>2. PICK k \in Keys : k = Key(c)
  BY <1>1, InMethod
<1>3. PICK e \in DictEntry \cup {NoEntry} : e = dict[k]
  BY <1>1, <1>2, InMethod
<1>4. Len(req[c].keys) = 1
  BY <1>1, InMethod
<1>5. /\ Strip(dict'[k]) = IF Gone(e, tnow[c]) THEN NoEntry ELSE Bare(e)
      /\ \A j \in Keys : j # k => dict'[j] = dict[j]
  <2>1. \/ ~Present(k) /\ KeepDict
        \/ Lapsed(k, tnow[c]) /\ Erase(k)
        \/ Present(k) /\ ~Lapsed(k, tnow[c]) /\ KeepDict
    BY <1>2 DEF get, pttl, Lookup
  <2> QED
    BY <1>1, <1>3, <2>1, LazyDict
<1>6. req[c].cmd \in ReadCmds
  BY <1>1 DEF Cmd, ReadCmds
<1>7. AbsMap[k] = Strip(e) /\ Effect(c)
  <2>1. After(req[c], Strip(e), tnow[c]) = IF Gone(e, tnow[c]) THEN NoEntry ELSE Bare(e)
    BY <1>6, OpRead
  <2>2. Leaves(c)
    BY <1>1, WorkShape DEF get, pttl, Lookup, Return, Stays, TypeOK
  <2> QED
    BY <1>1, <1>2, <1>3, <1>5, <2>1, <2>2, BodyEffect
<1>8. Return(c, Outcome(c))
  <2>1. Gone(e, tnow[c]) <=> ~Present(k) \/ Lapsed(k, tnow[c])
    BY <1>3 DEF Gone, Present, Lapsed
  <2>2. CASE get(c)
    <3>1. Outcome(c) = IF Gone(e, tnow[c]) THEN Answer("nil", 0) ELSE Answer("bulk", e.val)
      BY <1>2, <1>6, <1>7, <2>2, OpRead, SMT DEF Outcome, get, InBody, Cmd
    <3>2. Return(c, IF Gone(e, tnow[c]) THEN Answer("nil", 0) ELSE Answer("bulk", e.val))
      BY <1>2, <1>3, <2>1, <2>2 DEF get, Lookup
    <3> QED
      BY <3>1, <3>2
  <2>3. CASE pttl(c)
    <3> DEFINE a == Answer("int", IF Gone(e, tnow[c]) THEN -2 ELSE IF e.exp = 0 THEN -1 ELSE Remaining(e, tnow[c]))
    <3>1. Outcome(c) = a
      BY <1>2, <1>6, <1>7, <2>3, OpRead, SMT DEF Outcome, pttl, InBody, Cmd
    <3>2. ~Gone(e, tnow[c]) => (e.exp > 0 <=> e.exp # 0)
      BY TimeInNat, SMT DEF Gone, DictEntry
    <3>3. Return(c, a)
      BY <1>2, <1>3, <2>1, <2>3, <3>2 DEF pttl
    <3> QED
      BY <3>1, <3>3
  <2> QED
    BY <2>2, <2>3
<1> QED
  BY <1>1, <1>4, <1>7, <1>8, PerformsLast

(* expire, expire_at and persist.                                          *)
LEMMA SimTtl ==
  ASSUME SimInv, SimInv', NEW c \in Clients, expire(c) \/ persist(c)
  PROVE  KV!Perform(c)
<1>1. /\ TypeOK /\ PathInv /\ Work(c) /\ pc[c] = "body"
      /\ Cmd(c) \in {"PEXPIRE", "PEXPIREAT", "PERSIST"}
      /\ expire(c) => Cmd(c) # "PERSIST"
      /\ persist(c) => Cmd(c) = "PERSIST"
  BY DEF SimInv, Inv, Work, expire, persist, InBody
<1>2. PICK k \in Keys : k = Key(c)
  BY <1>1, InMethod
<1>3. PICK e \in DictEntry \cup {NoEntry} : e = dict[k]
  BY <1>1, <1>2, InMethod
<1>4. Len(req[c].keys) = 1 /\ loc[c].cnt = 0
  BY <1>1, InMethod
<1> DEFINE deadline == IF req[c].cmd = "PEXPIRE" THEN Deadline(tnow[c], req[c].arg)
                       ELSE IF req[c].cmd = "PEXPIREAT" THEN req[c].arg ELSE 0
<1>5. /\ After(req[c], Strip(e), tnow[c]) =
           IF Gone(e, tnow[c]) THEN NoEntry ELSE [val |-> e.val, exp |-> deadline]
      /\ Result(req[c], Strip(e), tnow[c], 0) =
           Answer("int", 0 + (IF Gone(e, tnow[c]) \/ (req[c].cmd = "PERSIST" /\ e.exp = 0) THEN 0 ELSE 1))
  BY <1>1, OpTtl, SMT DEF Cmd
<1>6. Gone(e, tnow[c]) <=> ~Present(k) \/ Lapsed(k, tnow[c])
  BY <1>3 DEF Gone, Present, Lapsed
<1>7. \/ /\ Gone(e, tnow[c]) /\ Return(c, Answer("int", 0))
         /\ (~Present(k) /\ KeepDict) \/ (Lapsed(k, tnow[c]) /\ Erase(k))
      \/ /\ ~Gone(e, tnow[c])
         /\ Return(c, Answer("int", IF req[c].cmd = "PERSIST" /\ e.exp = 0 THEN 0 ELSE 1))
         /\ dict' = [dict EXCEPT ![k].exp = deadline]
  <2>1. CASE expire(c)
    <3>1. (IF Cmd(c) = "PEXPIRE" THEN Deadline(tnow[c], req[c].arg) ELSE req[c].arg) = deadline
      BY <1>1, <2>1 DEF Cmd
    <3>2. (IF req[c].cmd = "PERSIST" /\ e.exp = 0 THEN 0 ELSE 1) = 1
      BY <1>1, <2>1 DEF Cmd
    <3> HIDE DEF deadline
    <3> QED
      BY <1>2, <1>6, <2>1, <3>1, <3>2 DEF expire
  <2>2. CASE persist(c)
    <3>1. deadline = 0
      BY <1>1, <2>2 DEF Cmd
    <3>2. (IF req[c].cmd = "PERSIST" /\ e.exp = 0 THEN 0 ELSE 1) = (IF dict[k].exp = 0 THEN 0 ELSE 1)
      BY <1>1, <1>3, <2>2 DEF Cmd
    <3> HIDE DEF deadline
    <3> QED
      BY <1>2, <1>6, <2>2, <3>1, <3>2 DEF persist
  <2> QED
    BY <2>1, <2>2
<1>8. /\ Strip(dict'[k]) = After(req[c], Strip(e), tnow[c])
      /\ \A j \in Keys : j # k => dict'[j] = dict[j]
  <2>1. CASE Gone(e, tnow[c])
    BY <1>1, <1>3, <1>5, <1>7, <2>1, LazyDict
  <2>2. CASE ~Gone(e, tnow[c])
    <3>1. e \in DictEntry /\ dict' = [dict EXCEPT ![k] = [e EXCEPT !.exp = deadline]]
      BY <1>3, <1>7, <2>2 DEF Gone
    <3>2. /\ dict'[k] = [e EXCEPT !.exp = deadline]
          /\ \A j \in Keys : j # k => dict'[j] = dict[j]
      BY <1>1, <3>1 DEF TypeOK
    <3>3. deadline \in Time
      <4>1. IsRequest(req[c]) /\ tnow[c] \in Int
        BY <1>1, TimeInNat, SMT DEF TypeOK
      <4>2. req[c].cmd = "PEXPIRE" => Deadline(tnow[c], req[c].arg) \in Time
        BY <4>1, KVAssumption, SMTT(30) DEF IsRequest, Deadline, Time
      <4> QED
        BY <4>1, <4>2, TimeInNat DEF IsRequest
    <3> HIDE DEF deadline
    <3>4. [e EXCEPT !.exp = deadline] \in DictEntry
      BY <3>1, <3>3 DEF DictEntry
    <3>5. [e EXCEPT !.exp = deadline].val = e.val /\ [e EXCEPT !.exp = deadline].exp = deadline
      BY <3>1 DEF DictEntry
    <3> QED
      BY <1>5, <2>2, <3>2, <3>4, <3>5, NoDictEntryAssumption DEF Strip
  <2> QED
    BY <2>1, <2>2
<1>9. AbsMap[k] = Strip(e) /\ Effect(c)
  <2>1. Leaves(c)
    BY <1>1, <1>7, WorkShape DEF Return, Stays, TypeOK
  <2> QED
    BY <1>1, <1>2, <1>3, <1>8, <2>1, BodyEffect
<1>10. Return(c, Outcome(c))
  <2>1. Outcome(c) = Answer("int", IF Gone(e, tnow[c]) \/ (req[c].cmd = "PERSIST" /\ e.exp = 0) THEN 0 ELSE 1)
    BY <1>2, <1>4, <1>5, <1>9, SMT DEF Outcome
  <2>2. Return(c, Answer("int", IF Gone(e, tnow[c]) \/ (req[c].cmd = "PERSIST" /\ e.exp = 0) THEN 0 ELSE 1))
    BY <1>7
  <2> QED
    BY <2>1, <2>2
<1> QED
  BY <1>1, <1>4, <1>9, <1>10, PerformsLast

(* One key of del and exists.                                              *)
LEMMA SimCount ==
  ASSUME SimInv, SimInv', NEW c \in Clients, exists(c) \/ del(c)
  PROVE  KV!Perform(c)
<1>1. /\ TypeOK /\ PathInv /\ Work(c) /\ pc[c] = "body"
      /\ exists(c) => Cmd(c) = "EXISTS"
      /\ del(c) => Cmd(c) = "DEL"
  BY DEF SimInv, Inv, Work, exists, del, InBody
<1>2. PICK k \in Keys : k = Key(c)
  BY <1>1, InMethod
<1>3. PICK e \in DictEntry \cup {NoEntry} : e = dict[k]
  BY <1>1, <1>2, InMethod
<1>4. Gone(e, tnow[c]) <=> ~Present(k) \/ Lapsed(k, tnow[c])
  BY <1>3 DEF Gone, Present, Lapsed
<1>5. PICK b \in BOOLEAN : /\ CountKey(c, b)
                           /\ exists(c) => b = ~Gone(e, tnow[c])
                           /\ del(c) => b = (e # NoEntry)
  <2>1. CASE exists(c)
    <3>1. CountKey(c, ~Gone(e, tnow[c])) /\ ~del(c)
      <4>1. CASE Gone(e, tnow[c])
        BY <1>1, <1>2, <1>4, <2>1, <4>1 DEF exists, Lookup
      <4>2. CASE ~Gone(e, tnow[c])
        BY <1>1, <1>2, <1>4, <2>1, <4>2 DEF exists, Lookup
      <4> QED
        BY <4>1, <4>2
    <3> QED
      BY <3>1
  <2>2. CASE del(c)
    BY <1>1, <1>2, <1>3, <2>2 DEF del, Present
  <2> QED
    BY <2>1, <2>2
<1>6. /\ Strip(dict'[k]) = After(req[c], Strip(e), tnow[c])
      /\ Result(req[c], Strip(e), tnow[c], loc[c].cnt) = Answer("int", loc[c].cnt + (IF b THEN 1 ELSE 0))
      /\ \A j \in Keys : j # k => dict'[j] = dict[j]
  <2>1. CASE exists(c)
    <3>1. /\ Strip(dict'[k]) = IF Gone(e, tnow[c]) THEN NoEntry ELSE Bare(e)
          /\ \A j \in Keys : j # k => dict'[j] = dict[j]
      <4>1. \/ ~Present(k) /\ KeepDict
            \/ Lapsed(k, tnow[c]) /\ Erase(k)
            \/ Present(k) /\ ~Lapsed(k, tnow[c]) /\ KeepDict
        BY <1>2, <2>1 DEF exists, Lookup
      <4> QED
        BY <1>1, <1>3, <4>1, LazyDict
    <3>2. req[c].cmd \in ReadCmds /\ req[c].cmd = "EXISTS"
      BY <1>1, <2>1 DEF Cmd, ReadCmds
    <3>3. (IF Gone(e, tnow[c]) THEN 0 ELSE 1) = (IF b THEN 1 ELSE 0)
      BY <1>5, <2>1
    <3>4. /\ After(req[c], Strip(e), tnow[c]) = IF Gone(e, tnow[c]) THEN NoEntry ELSE Bare(e)
          /\ Result(req[c], Strip(e), tnow[c], loc[c].cnt) =
               Answer("int", loc[c].cnt + (IF Gone(e, tnow[c]) THEN 0 ELSE 1))
      BY <3>2, OpRead, SMT
    <3>5. Strip(dict'[k]) = After(req[c], Strip(e), tnow[c])
      BY <3>1, <3>4, SMT
    <3>6. Result(req[c], Strip(e), tnow[c], loc[c].cnt) =
            Answer("int", loc[c].cnt + (IF b THEN 1 ELSE 0))
      BY <3>3, <3>4
    <3> QED
      BY <3>1, <3>5, <3>6
  <2>2. CASE del(c)
    <3>1. /\ dict'[k] = NoEntry
          /\ \A j \in Keys : j # k => dict'[j] = dict[j]
      BY <1>1, <1>2, <2>2 DEF del, Erase, KeepDict, Present, TypeOK
    <3>2. Strip(dict'[k]) = NoEntry
      BY <3>1 DEF Strip
    <3>3. req[c].cmd = "DEL"
      BY <1>1, <2>2 DEF Cmd
    <3>4. (IF e = NoEntry THEN 0 ELSE 1) = (IF b THEN 1 ELSE 0)
      BY <1>5, <2>2
    <3>5. /\ After(req[c], Strip(e), tnow[c]) = NoEntry
          /\ Result(req[c], Strip(e), tnow[c], loc[c].cnt) =
               Answer("int", loc[c].cnt + (IF e = NoEntry THEN 0 ELSE 1))
      BY <3>3, OpDel, SMT
    <3> QED
      BY <3>1, <3>2, <3>4, <3>5
  <2> QED
    BY <2>1, <2>2
<1>7. AbsMap[k] = Strip(e) /\ Effect(c)
  <2>1. Leaves(c)
    BY <1>1, <1>5, WorkShape DEF CountKey, Return, Stays, TypeOK
  <2> QED
    BY <1>1, <1>2, <1>3, <1>6, <2>1, BodyEffect
<1>8. PICK n : n = loc[c].cnt + (IF b THEN 1 ELSE 0)
  OBVIOUS
<1>9. Outcome(c) = Answer("int", n) /\ Outcome(c).val = n
  BY <1>2, <1>6, <1>7, <1>8, SMT DEF Outcome, Answer
<1>10. \/ Len(req[c].keys) = 1 /\ Return(c, Answer("int", n))
       \/ /\ Len(req[c].keys) > 1
          /\ req' = [req EXCEPT ![c] = Rest(@)]
          /\ loc' = [loc EXCEPT ![c].cnt = n]
          /\ UNCHANGED <<tnow, ret>>
  BY <1>5, <1>8 DEF CountKey
<1>11. CASE Len(req[c].keys) = 1 /\ Return(c, Answer("int", n))
  <2>1. Return(c, Outcome(c))
    BY <1>9, <1>11
  <2> QED
    BY <1>1, <1>7, <1>11, <2>1, PerformsLast
<1>12. CASE /\ Len(req[c].keys) > 1
            /\ req' = [req EXCEPT ![c] = Rest(@)]
            /\ loc' = [loc EXCEPT ![c].cnt = n]
            /\ UNCHANGED <<tnow, ret>>
  <2>1. loc' = [loc EXCEPT ![c].cnt = Outcome(c).val]
    BY <1>9, <1>12
  <2> QED
    BY <1>1, <1>7, <1>12, <2>1, PerformsMore
<1> QED
  BY <1>10, <1>11, <1>12

-----------------------------------------------------------------------------
(* The update path: it takes effect at the commit.                         *)

(* A step that changes nothing a caller of the dictionary could see.       *)
LEMMA SimQuiet ==
  ASSUME SimInv, NEW c \in Clients, Work(c), UNCHANGED <<req, tnow, ret>>,
         loc'[c].cnt = loc[c].cnt, AbsMap' = AbsMap
  PROVE  UNCHANGED KV!vars
<1>1. UNCHANGED <<clock, limited>>
  BY WorkShape DEF SimInv, Inv
<1>2. \A d \in Clients : loc'[d].cnt = loc[d].cnt
  BY WorkLoc DEF SimInv, Inv
<1>3. [d \in Clients |-> loc'[d].cnt] = [d \in Clients |-> loc[d].cnt]
  BY <1>2
<1> QED
  BY <1>1, <1>3 DEF KV!vars

(* A step that takes an entry which has expired or may be evicted.         *)
LEMMA SimDrop ==
  ASSUME SimInv, NEW c \in Clients, Work(c), UNCHANGED <<req, tnow, ret>>,
         loc'[c].cnt = loc[c].cnt, NEW k \in Keys,
         AbsMap' = [AbsMap EXCEPT ![k] = NoEntry], AbsMap[k] # NoEntry,
         limited \/ Expired(AbsMap[k], clock)
  PROVE  KV!Drop(k)
<1>1. UNCHANGED <<clock, limited>>
  BY WorkShape DEF SimInv, Inv
<1>2. \A d \in Clients : loc'[d].cnt = loc[d].cnt
  BY WorkLoc DEF SimInv, Inv
<1>3. [d \in Clients |-> loc'[d].cnt] = [d \in Clients |-> loc[d].cnt]
  BY <1>2
<1>4. limited \/ KV!Expired(AbsMap[k], clock)
  BY SameOps
<1> QED
  BY <1>1, <1>3, <1>4 DEF KV!Drop

(* incr and decr parse the value they find: the entry stays, unless it has *)
(* lapsed; a value that is not an integer ends the call.                   *)
LEMMA SimParse ==
  ASSUME SimInv, SimInv', NEW c \in Clients, incr_parse(c)
  PROVE  KV!Perform(c) \/ (\E k \in Keys : KV!Drop(k)) \/ UNCHANGED KV!vars
<1>1. /\ TypeOK /\ PathInv /\ Work(c) /\ pc[c] = "body"
      /\ Cmd(c) \in {"INCR", "DECR"}
  BY DEF SimInv, Inv, Work, incr_parse, InBody
<1>2. PICK k \in Keys : k = Key(c)
  BY <1>1, InMethod
<1>3. PICK e \in DictEntry \cup {NoEntry} : e = dict[k]
  BY <1>1, <1>2, InMethod
<1>4. Gone(e, tnow[c]) <=> ~Present(k) \/ Lapsed(k, tnow[c])
  BY <1>3 DEF Gone, Present, Lapsed
<1>5. \A j \in Keys : j # k => dict'[j] = dict[j]
  BY <1>1, <1>2 DEF incr_parse, Erase, KeepDict, TypeOK
<1>6. CASE Return(c, Answer("nullopt", 0)) /\ ~Gone(e, tnow[c]) /\ e.val \notin Ints /\ KeepDict
  <2>1. e \in DictEntry /\ e # NoEntry /\ ~(e.exp > 0 /\ e.exp <= tnow[c])
    BY <1>6 DEF Gone, Expired
  <2>2. PICK s : s = Strip(e)
    OBVIOUS
  <2>8. /\ s = [val |-> s.val, exp |-> s.exp] /\ s # NoEntry
        /\ s.val \notin Ints /\ ~Expired(s, tnow[c])
    BY <1>6, <2>1, <2>2, StripFacts DEF Gone
  <2>3. /\ After(req[c], Strip(e), tnow[c]) = Strip(e)
        /\ Result(req[c], Strip(e), tnow[c], loc[c].cnt) = Answer("nullopt", 0)
    <3>1. req[c].cmd \in {"INCR", "DECR"}
      BY <1>1 DEF Cmd
    <3>2. /\ After(req[c], s, tnow[c]) = s
          /\ Result(req[c], s, tnow[c], loc[c].cnt) = Answer("nullopt", 0)
      BY <2>8, <3>1, OpIncrEntry, SMT
    <3> QED
      BY <2>2, <3>2
  <2>4. Leaves(c) /\ dict' = dict
    BY <1>1, <1>6, WorkShape DEF Return, Stays, TypeOK, KeepDict
  <2>5. AbsMap[k] = Strip(e) /\ Effect(c)
    BY <1>1, <1>2, <1>3, <1>5, <2>3, <2>4, BodyEffect
  <2>6. Return(c, Outcome(c))
    BY <1>2, <1>6, <2>3, <2>5 DEF Outcome
  <2>7. Len(req[c].keys) = 1
    BY <1>1, InMethod
  <2> QED
    BY <1>1, <2>5, <2>6, <2>7, PerformsLast
<1>7. ASSUME NEW v, NEW x, pc' = [pc EXCEPT ![c] = "load"],
             loc' = [loc EXCEPT ![c].val = v, ![c].exp = x],
             UNCHANGED <<lock, req, tnow, ret>>
      PROVE  /\ loc'[c].cnt = loc[c].cnt
             /\ AbsMap[k] = Strip(e) /\ AbsMap' = [AbsMap EXCEPT ![k] = Strip(dict'[k])]
  <2>1. loc'[c] = [loc[c] EXCEPT !.val = v, !.exp = x]
    BY <1>1, <1>7 DEF TypeOK
  <2>2. loc'[c].cnt = loc[c].cnt
    BY <1>1, <2>1, LocType DEF Locals
  <2>3. ~Pending(c, k) /\ ~Pending(c, k)'
    BY <1>1, <1>7 DEF Pending, TypeOK
  <2>4. AbsMap[k] = Strip(e) /\ AbsMap'[k] = Strip(dict'[k])
    BY <1>1, <1>2, <1>3, <2>3, AbsOwn
  <2>5. AbsMap' = [AbsMap EXCEPT ![Key(c)] = AbsMap'[Key(c)]]
    BY <1>1, <1>2, <1>5, AbsStep
  <2> HIDE DEF AbsMap
  <2> QED
    BY <1>2, <2>2, <2>4, <2>5
<1>8. CASE \E v, x : /\ pc' = [pc EXCEPT ![c] = "load"]
                     /\ loc' = [loc EXCEPT ![c].val = v, ![c].exp = x]
                     /\ UNCHANGED <<lock, req, tnow, ret>>
  <2>1. /\ loc'[c].cnt = loc[c].cnt /\ UNCHANGED <<req, tnow, ret>>
        /\ AbsMap[k] = Strip(e) /\ AbsMap' = [AbsMap EXCEPT ![k] = Strip(dict'[k])]
    BY <1>7, <1>8
  <2>2. AbsMap = [j \in Keys |-> AbsMap[j]]
    BY DEF AbsMap
  <2> HIDE DEF AbsMap
  <2>3. CASE KeepDict
    <3>1. AbsMap' = [AbsMap EXCEPT ![k] = AbsMap[k]]
      BY <1>3, <2>1, <2>3 DEF KeepDict
    <3>2. AbsMap' = AbsMap
      BY <2>2, <3>1
    <3> QED
      BY <1>1, <2>1, <3>2, SimQuiet
  <2>4. CASE Lapsed(k, tnow[c]) /\ Erase(k)
    <3>1. Strip(dict'[k]) = NoEntry
      BY <1>1, <2>4 DEF Erase, TypeOK, Strip
    <3>2. Lapsed(k, clock)
      BY <1>1, <2>4, LapsedNow, TimeInNat DEF SimInv, Inv, ClockInv, TypeOK
    <3>3. Expired(AbsMap[k], clock) /\ AbsMap[k] # NoEntry
      BY <1>3, <2>1, <3>2, StripFacts DEF Lapsed, Expired
    <3>4. AbsMap' = [AbsMap EXCEPT ![k] = NoEntry]
      BY <2>1, <3>1
    <3> QED
      BY <1>1, <2>1, <3>3, <3>4, SimDrop
  <2>5. KeepDict \/ (Lapsed(k, tnow[c]) /\ Erase(k))
    BY <1>2 DEF incr_parse
  <2> QED
    BY <2>3, <2>4, <2>5
<1>9. \/ \E v, x : /\ pc' = [pc EXCEPT ![c] = "load"]
                   /\ loc' = [loc EXCEPT ![c].val = v, ![c].exp = x]
                   /\ UNCHANGED <<lock, req, tnow, ret>>
      \/ Return(c, Answer("nullopt", 0)) /\ ~Gone(e, tnow[c]) /\ e.val \notin Ints /\ KeepDict
  BY <1>2, <1>3, <1>4 DEF incr_parse
<1> QED
  BY <1>6, <1>8, <1>9

(* A thread on the update path.                                            *)
LEMMA InUpdate ==
  ASSUME SimInv, NEW c \in Clients, pc[c] \in {"load", "check", "evict", "commit"}
  PROVE  /\ Key(c) \in Keys /\ pc[c] \in Holding
         /\ dict[Key(c)] \in DictEntry \cup {NoEntry}
         /\ Cmd(c) \in UpdateCmds
         /\ Len(req[c].keys) = 1
         /\ Cmd(c) \in {"INCR", "DECR"} => Updating(c) /\ Parsed(c) /\ Fresh(c)
         /\ Cmd(c) = "SET" => loc[c].exp = 0
<1>1. Key(c) \in Keys /\ IsRequest(req[c]) /\ pc[c] \in Holding
  BY KeyType DEF SimInv, Inv, TypeOK, Holding
<1>2. Cmd(c) \in UpdateCmds
  BY DEF SimInv, Inv, PathInv
<1>3. Cmd(c) \in {"INCR", "DECR"} => Updating(c) /\ Parsed(c) /\ Fresh(c)
  BY DEF SimInv, LocalsInv, LocalsOK, Updating, NoLostUpdate, Fresh
<1>4. Cmd(c) = "SET" => loc[c].exp = 0
  BY DEF SimInv, LocalsInv, LocalsOK, Updating
<1> QED
  BY <1>1, <1>2, <1>3, <1>4 DEF SimInv, Inv, TypeOK, IsRequest, Cmd, UpdateCmds

(* An entry that INCR or DECR has found is what the thread has parsed.     *)
LEMMA HeldIsEntry ==
  ASSUME SimInv, NEW c \in Clients, Updating(c), NEW k \in Keys, k = Key(c), Present(k)
  PROVE  Strip(dict[k]) = Held(c)
<1>1. Fresh(c)
  BY DEF SimInv, NoLostUpdate, Updating, Fresh
<1> QED
  BY <1>1 DEF Fresh, Strip, Held, Present

(* Loading the counter makes an INCR or DECR that has found an entry       *)
(* pending, with that very entry.                                          *)
LEMMA SimLoad ==
  ASSUME SimInv, SimInv', NEW c \in Clients, load_usage(c)
  PROVE  UNCHANGED KV!vars
<1>1. /\ TypeOK /\ Work(c) /\ pc[c] = "load" /\ pc'[c] = "check"
      /\ UNCHANGED <<dict, req, tnow, ret>>
  BY DEF SimInv, Inv, Work, load_usage, TypeOK
<1>2. PICK k \in Keys : k = Key(c)
  BY <1>1, InUpdate
<1>3. loc'[c].val = loc[c].val /\ loc'[c].exp = loc[c].exp /\ loc'[c].cnt = loc[c].cnt
  BY <1>1, QuietLoc
<1>4. Held(c)' = Held(c)
  BY <1>3 DEF Held
<1>5. ~Pending(c, k)
  BY <1>1 DEF Pending
<1>6. Pending(c, k)' => Strip(dict[k]) = Held(c)
  <2> SUFFICES ASSUME Pending(c, k)' PROVE Strip(dict[k]) = Held(c)
    OBVIOUS
  <2>1. Updating(c)
    BY <1>1 DEF Pending, Updating, Cmd
  <2>2. loc'[c].old # 0
    BY DEF Pending
  <2>3. loc'[c] = [loc[c] EXCEPT !.cur = total,
                      !.old = IF Present(Key(c)) THEN entry_cost(Key(c), dict[Key(c)].cap) ELSE 0]
    BY <1>1 DEF load_usage, TypeOK
  <2>4. Present(k)
    BY <1>1, <1>2, <2>2, <2>3, LocType DEF Locals
  <2> QED
    BY <1>2, <2>1, <2>4, HeldIsEntry
<1>7. AbsMap'[k] = AbsMap[k]
  <2>1. AbsMap[k] = Strip(dict[k])
    BY <1>1, <1>2, <1>5, AbsOwn
  <2>2. AbsMap'[k] = IF Pending(c, k)' THEN Held(c)' ELSE Strip(dict'[k])
    BY <1>1, <1>2, AbsOwn
  <2> HIDE DEF AbsMap
  <2> QED
    BY <1>1, <1>4, <1>6, <2>1, <2>2
<1>8. AbsMap' = AbsMap
  <2>1. AbsMap' = [AbsMap EXCEPT ![k] = AbsMap'[k]]
    BY <1>1, <1>2, AbsStep
  <2>2. AbsMap = [j \in Keys |-> AbsMap[j]]
    BY DEF AbsMap
  <2> HIDE DEF AbsMap
  <2> QED
    BY <1>7, <2>1, <2>2
<1> QED
  BY <1>1, <1>3, <1>8, SimQuiet

(* Comparing with the limit changes nothing in the dictionary.             *)
LEMMA SimCheck ==
  ASSUME SimInv, SimInv', NEW c \in Clients, check_memory(c)
  PROVE  UNCHANGED KV!vars
<1>1. /\ TypeOK /\ Work(c) /\ pc[c] = "check" /\ pc'[c] \in {"evict", "commit"}
      /\ UNCHANGED <<dict, req, tnow, ret>> /\ ~load_usage(c)
  BY DEF SimInv, Inv, Work, check_memory, load_usage, TypeOK
<1>2. PICK k \in Keys : k = Key(c)
  BY <1>1, InUpdate
<1>3. /\ loc'[c].val = loc[c].val /\ loc'[c].exp = loc[c].exp /\ loc'[c].cnt = loc[c].cnt
      /\ loc'[c].old = loc[c].old
  BY <1>1, QuietLoc
<1>4. Held(c)' = Held(c) /\ (Pending(c, k)' <=> Pending(c, k))
  BY <1>1, <1>3 DEF Held, Pending, Cmd, Key
<1>5. AbsMap'[k] = AbsMap[k]
  <2>1. AbsMap[k] = IF Pending(c, k) THEN Held(c) ELSE Strip(dict[k])
    BY <1>1, <1>2, AbsOwn
  <2>2. AbsMap'[k] = IF Pending(c, k)' THEN Held(c)' ELSE Strip(dict'[k])
    BY <1>1, <1>2, AbsOwn
  <2> HIDE DEF AbsMap
  <2> QED
    BY <1>1, <1>4, <2>1, <2>2
<1>6. AbsMap' = AbsMap
  <2>1. AbsMap' = [AbsMap EXCEPT ![k] = AbsMap'[k]]
    BY <1>1, <1>2, AbsStep
  <2>2. AbsMap = [j \in Keys |-> AbsMap[j]]
    BY DEF AbsMap
  <2> HIDE DEF AbsMap
  <2> QED
    BY <1>5, <2>1, <2>2
<1> QED
  BY <1>1, <1>3, <1>6, SimQuiet

(* A victim of the eviction disappears from the abstract map, unless it is *)
(* the entry this very INCR or DECR is about to replace.                   *)
LEMMA SimEvict ==
  ASSUME SimInv, SimInv', NEW c \in Clients, NEW v \in Keys, evict_one(c, v)
  PROVE  KV!Drop(v) \/ UNCHANGED KV!vars
<1>1. /\ TypeOK /\ Work(c) /\ pc[c] = "evict" /\ UNCHANGED <<pc, req, tnow, ret>>
      /\ ~load_usage(c) /\ limited
      /\ ShardOf[v] = ShardOf[Key(c)] /\ Present(v)
      /\ dict' = [dict EXCEPT ![v] = NoEntry]
  BY DEF SimInv, Inv, LimitInv, Work, evict_one, load_usage, ShardKeys, Erase
<1>2. PICK k \in Keys : k = Key(c)
  BY <1>1, InUpdate
<1>3. /\ loc'[c].val = loc[c].val /\ loc'[c].exp = loc[c].exp /\ loc'[c].cnt = loc[c].cnt
      /\ loc'[c].old = loc[c].old
  BY <1>1, QuietLoc
<1>4. Held(c)' = Held(c) /\ (Pending(c, k)' <=> Pending(c, k))
  BY <1>1, <1>3 DEF Held, Pending, Cmd, Key
<1>5. dict'[v] = NoEntry /\ \A j \in Keys : j # v => dict'[j] = dict[j]
  BY <1>1 DEF TypeOK
<1>6. /\ AbsMap[k] = IF Pending(c, k) THEN Held(c) ELSE Strip(dict[k])
      /\ AbsMap'[k] = IF Pending(c, k)' THEN Held(c)' ELSE Strip(dict'[k])
  BY <1>1, <1>2, AbsOwn
<1>7. /\ AbsMap = [j \in Keys |-> AbsMap[j]]
      /\ AbsMap' = [j \in Keys |-> AbsMap'[j]]
  BY DEF AbsMap
<1>8. Strip(dict[v]) # NoEntry /\ Strip(dict'[v]) = NoEntry
  <2>1. dict[v] \in DictEntry \cup {NoEntry} /\ dict[v] # NoEntry
    BY <1>1 DEF TypeOK, Present
  <2> QED
    BY <1>5, <2>1, StripFacts DEF Strip
<1>9. \A j \in Keys : j # k /\ j # v => AbsMap'[j] = AbsMap[j]
  BY <1>1, <1>2, <1>5, AbsElsewhere
<1>10. v # k => AbsMap[v] = Strip(dict[v]) /\ AbsMap'[v] = Strip(dict'[v])
  <2> SUFFICES ASSUME v # k PROVE AbsMap[v] = Strip(dict[v]) /\ AbsMap'[v] = Strip(dict'[v])
    OBVIOUS
  <2>1. lock[ShardOf[v]] = c
    BY <1>1, <1>2, EngineAssumption, SMT DEF SimInv, Inv, MutexInv, Holding
  <2>2. ~Pending(c, v) /\ ~Pending(c, v)'
    BY <1>1, <1>2 DEF Pending, Key
  <2>3. \A d \in Clients : ~Pending(d, v)
    BY <2>1, <2>2, PendingHolds DEF SimInv
  <2>4. \A d \in Clients : ~Pending(d, v)'
    BY <1>1, <2>2, <2>3, PendingOther DEF SimInv
  <2>5. AbsAt(v) /\ AbsAt(v)'
    BY AbsOf, AbsOfNext
  <2> QED
    BY <2>3, <2>4, <2>5 DEF AbsAt, Strip
<1> HIDE DEF AbsMap
<1>11. CASE v = k /\ Pending(c, k)
  <2>1. AbsMap'[k] = AbsMap[k]
    BY <1>4, <1>6, <1>11
  <2>2. AbsMap' = AbsMap
    BY <1>7, <1>9, <1>11, <2>1
  <2> QED
    BY <1>1, <1>3, <2>2, SimQuiet
<1>12. CASE ~(v = k /\ Pending(c, k))
  <2>1. AbsMap[v] # NoEntry /\ AbsMap'[v] = NoEntry
    BY <1>4, <1>6, <1>8, <1>10, <1>12, SMTT(30)
  <2>2. v # k => AbsMap'[k] = AbsMap[k]
    BY <1>4, <1>5, <1>6
  <2>3. AbsMap' = [AbsMap EXCEPT ![v] = NoEntry]
    BY <1>7, <1>9, <2>1, <2>2
  <2> QED
    BY <1>1, <1>3, <2>1, <2>3, SimDrop
<1> QED
  BY <1>11, <1>12

(* Once the eviction has freed enough the thread commits; if it could not, *)
(* the update is refused, and the key it meant to update may be gone.      *)
LEMMA SimEvictDone ==
  ASSUME SimInv, SimInv', NEW c \in Clients, evict_done(c)
  PROVE  KV!Refuse(c) \/ UNCHANGED KV!vars
<1>1. /\ TypeOK /\ PathInv /\ Work(c) /\ pc[c] = "evict" /\ UNCHANGED dict /\ limited
  BY DEF SimInv, Inv, LimitInv, Work, evict_done
<1>2. PICK k \in Keys : k = Key(c)
  BY <1>1, InUpdate
<1>3. /\ AbsMap[k] = IF Pending(c, k) THEN Held(c) ELSE Strip(dict[k])
      /\ AbsMap'[k] = IF Pending(c, k)' THEN Held(c)' ELSE Strip(dict'[k])
  BY <1>1, <1>2, AbsOwn
<1>4. AbsMap' = [AbsMap EXCEPT ![k] = AbsMap'[k]]
  BY <1>1, <1>2, AbsStep
<1>5. AbsMap = [j \in Keys |-> AbsMap[j]]
  BY DEF AbsMap
<1> HIDE DEF AbsMap
<1>6. CASE Return(c, Answer(IF Cmd(c) = "SET" THEN "oom" ELSE "nullopt", 0))
  <2>1. ~Pending(c, k)'
    BY <1>1, <1>6 DEF Return, Pending, TypeOK
  <2>2. Pending(c, k) /\ Present(k) => Held(c) = Strip(dict[k])
    BY <1>1, <1>2, HeldIsEntry DEF Pending, Updating
  <2>3. ~Present(k) => Strip(dict[k]) = NoEntry
    BY DEF Present, Strip
  <2>4. AbsMap'[k] = Strip(dict[k])
    BY <1>1, <1>3, <2>1
  <2>5. AbsMap'[k] = AbsMap[k] \/ AbsMap'[k] = NoEntry
    BY <1>3, <2>2, <2>3, <2>4
  <2>6. AbsMap' \in {AbsMap, [AbsMap EXCEPT ![k] = NoEntry]}
    BY <1>4, <1>5, <2>5
  <2>7. Cmd(c) \in UpdateCmds /\ req[c] # NoRequest
    <3>1. IsRequest(req[c])
      BY <1>1 DEF TypeOK
    <3> QED
      BY <1>1, <3>1, InUpdate, EngineAssumption
  <2>8. UNCHANGED <<clock, limited>>
    BY <1>1, WorkShape
  <2>9. PICK a : a = Answer(IF Cmd(c) = "SET" THEN "oom" ELSE "nullopt", 0)
    OBVIOUS
  <2>10. KV!Finish(c, a)
    BY <1>1, <1>6, <2>9, Finishes
  <2>11. a = KV!Answer(IF req[c].cmd = "SET" THEN "oom" ELSE "nullopt", 0)
    BY <2>9 DEF Answer, KV!Answer, Cmd
  <2>12. KV!UpdateCmds = UpdateCmds
    BY SameOps
  <2> QED
    BY <1>1, <1>2, <2>6, <2>7, <2>8, <2>10, <2>11, <2>12 DEF KV!Refuse, KV!Finish, Key, Cmd
<1>7. CASE pc' = [pc EXCEPT ![c] = "commit"] /\ UNCHANGED <<lock, req, tnow, loc, ret>>
  <2>1. pc'[c] = "commit"
    BY <1>1, <1>7 DEF TypeOK
  <2>2. Held(c)' = Held(c) /\ (Pending(c, k)' <=> Pending(c, k))
    BY <1>1, <1>7, <2>1 DEF Held, Pending, Cmd, Key
  <2>3. AbsMap'[k] = AbsMap[k]
    BY <1>1, <1>3, <2>2
  <2>4. AbsMap' = AbsMap
    BY <1>4, <1>5, <2>3
  <2> QED
    BY <1>1, <1>7, <2>4, SimQuiet
<1> QED
  BY <1>6, <1>7 DEF evict_done

(* The commit is where an update takes effect: it writes the entry, and    *)
(* returns the answer, that KVOps derives from the abstract entry.         *)
LEMMA SimCommit ==
  ASSUME SimInv, SimInv', NEW c \in Clients, commit(c)
  PROVE  KV!Perform(c)
<1>1. TypeOK /\ PathInv /\ Work(c) /\ pc[c] = "commit"
  BY DEF SimInv, Inv, Work, commit
<1>2. PICK k \in Keys : k = Key(c)
  BY <1>1, InUpdate
<1>3. Cmd(c) \in UpdateCmds /\ Len(req[c].keys) = 1
  BY <1>1, InUpdate
<1>4. PICK e \in DictEntry : /\ dict' = [dict EXCEPT ![k] = e]
                             /\ e.val = NewVal(c) /\ e.exp = loc[c].exp
  BY <1>1, <1>2, <1>3, CommitWrites
<1>5. Return(c, IF Cmd(c) = "SET" THEN Answer("ok", 0) ELSE Answer("int", NewVal(c)))
  BY DEF commit
<1>6. AbsMap'[k] = [val |-> NewVal(c), exp |-> loc[c].exp]
  <2>1. ~Pending(c, k)'
    BY <1>1, <1>5 DEF Return, Pending, TypeOK
  <2>2. AbsMap'[k] = Strip(dict'[k])
    BY <1>1, <1>2, <2>1, AbsOwn
  <2>3. dict'[k] = e
    BY <1>1, <1>4 DEF TypeOK
  <2>4. Strip(e) = [val |-> NewVal(c), exp |-> loc[c].exp]
    BY <1>4, NoDictEntryAssumption DEF Strip
  <2> HIDE DEF AbsMap
  <2> QED
    BY <2>2, <2>3, <2>4
<1>7. AbsMap' = [AbsMap EXCEPT ![k] = AbsMap'[k]]
  BY <1>1, <1>2, <1>4, AbsStep DEF TypeOK
<1>8. PICK s : s = AbsMap[k]
  OBVIOUS
<1>9. s = IF Pending(c, k) THEN Held(c) ELSE Strip(dict[k])
  BY <1>1, <1>2, <1>8, AbsOwn
<1>10. /\ After(req[c], s, tnow[c]) = [val |-> NewVal(c), exp |-> loc[c].exp]
       /\ Result(req[c], s, tnow[c], loc[c].cnt) =
            IF Cmd(c) = "SET" THEN Answer("ok", 0) ELSE Answer("int", NewVal(c))
  <2>1. CASE Cmd(c) = "SET"
    <3>1. loc[c].exp = 0 /\ NewVal(c) = req[c].arg /\ req[c].cmd = "SET"
      BY <1>1, <2>1, InUpdate DEF NewVal, Cmd
    <3> QED
      BY <2>1, <3>1, OpSet
  <2>2. CASE Cmd(c) \in {"INCR", "DECR"}
    <3>1. /\ Parsed(c) /\ NewVal(c) = Bump(req[c].cmd, loc[c].val)
          /\ req[c].cmd \in {"INCR", "DECR"} /\ Cmd(c) # "SET"
      BY <1>1, <2>2, InUpdate DEF NewVal, Cmd
    <3>2. CASE Pending(c, k)
      <4>1. s = [val |-> s.val, exp |-> s.exp] /\ s.val = loc[c].val /\ s.exp = loc[c].exp
        BY <1>9, <3>2 DEF Held
      <4>2. s \in Entry /\ s.val \in Ints
        BY <1>1, <4>1, LocType DEF Entry, Values
      <4>3. s # NoEntry /\ ~Expired(s, tnow[c])
        BY <3>1, <4>1, <4>2, NoEntryAssumption DEF Parsed, Expired
      <4>4. /\ After(req[c], s, tnow[c]) = [val |-> Bump(req[c].cmd, s.val), exp |-> s.exp]
            /\ Result(req[c], s, tnow[c], loc[c].cnt) = Answer("int", Bump(req[c].cmd, s.val))
        BY <3>1, <4>1, <4>2, <4>3, OpIncrEntry, SMTT(30)
      <4> QED
        BY <3>1, <4>1, <4>4
    <3>3. CASE ~Pending(c, k)
      <4>1. loc[c].old = 0
        BY <1>1, <1>2, <2>2, <3>3 DEF Pending
      <4>2. ~Present(k) /\ loc[c].val = 0 /\ loc[c].exp = 0
        BY <1>1, <1>2, <3>1, <4>1 DEF Parsed
      <4>3. s = NoEntry
        BY <1>9, <3>3, <4>2 DEF Strip, Present
      <4>4. /\ After(req[c], NoEntry, tnow[c]) = [val |-> Bump(req[c].cmd, 0), exp |-> 0]
            /\ Result(req[c], NoEntry, tnow[c], loc[c].cnt) = Answer("int", Bump(req[c].cmd, 0))
        BY <3>1, OpIncrAbsent, SMT
      <4> QED
        BY <3>1, <4>2, <4>3, <4>4
    <3> QED
      BY <3>2, <3>3
  <2> QED
    BY <1>3, <2>1, <2>2 DEF UpdateCmds
<1> HIDE DEF AbsMap
<1>11. Effect(c)
  BY <1>2, <1>6, <1>7, <1>8, <1>10 DEF Effect
<1>12. Return(c, Outcome(c))
  <2>1. Outcome(c) = IF Cmd(c) = "SET" THEN Answer("ok", 0) ELSE Answer("int", NewVal(c))
    BY <1>2, <1>8, <1>10 DEF Outcome
  <2> QED
    BY <1>5, <2>1
<1> QED
  BY <1>1, <1>3, <1>11, <1>12, PerformsLast

-----------------------------------------------------------------------------
(* The other steps: calls, mutexes, the limit, the clock, the sweeper.     *)

(* Outside the methods nothing becomes pending or ceases to be.            *)
LEMMA AbsKept ==
  ASSUME SimInv, SimInv', loc' = loc,
         \A d \in Clients, j \in Keys : Pending(d, j)' <=> Pending(d, j),
         NEW k \in Keys, dict'[k] = dict[k]
  PROVE  AbsMap'[k] = AbsMap[k]
<1>1. AbsAt(k) /\ AbsAt(k)'
  BY AbsOf, AbsOfNext
<1>2. CASE \E d \in Clients : Pending(d, k)
  <2>1. PICK d \in Clients : Pending(d, k)
    BY <1>2
  <2>2. AbsMap[k] = Held(d) /\ AbsMap'[k] = Held(d)' /\ Held(d)' = Held(d)
    BY <1>1, <2>1 DEF AbsAt, Held
  <2> QED
    BY <2>2
<1>3. CASE ~\E d \in Clients : Pending(d, k)
  <2>1. AbsMap[k] = Strip(dict[k]) /\ AbsMap'[k] = Strip(dict'[k])
    BY <1>1, <1>3 DEF AbsAt, Strip
  <2> QED
    BY <2>1
<1> QED
  BY <1>2, <1>3

(* Nothing pending has changed, nor has the dictionary.                    *)
LEMMA AbsSame ==
  ASSUME SimInv, SimInv', UNCHANGED <<dict, loc>>,
         \A d \in Clients, j \in Keys : Pending(d, j)' <=> Pending(d, j)
  PROVE  AbsMap' = AbsMap
<1>1. \A k \in Keys : AbsMap'[k] = AbsMap[k]
  BY AbsKept
<1>2. /\ AbsMap = [j \in Keys |-> AbsMap[j]]
      /\ AbsMap' = [j \in Keys |-> AbsMap'[j]]
  BY DEF AbsMap
<1> HIDE DEF AbsMap
<1> QED
  BY <1>1, <1>2

(* A call is an invocation.                                                *)
LEMMA SimBegin ==
  ASSUME SimInv, SimInv', NEW c \in Clients, NEW r \in Requests, Begin(c, r)
  PROVE  KV!Invoke(c, r)
<1>1. req[c] = NoRequest
  BY DEF SimInv, LocalsInv, LocalsOK, Begin
<1>2. \A d \in Clients, j \in Keys : Pending(d, j)' <=> Pending(d, j)
  <2> SUFFICES ASSUME NEW d \in Clients, NEW j \in Keys
               PROVE  Pending(d, j)' <=> Pending(d, j)
    OBVIOUS
  <2>1. CASE d = c
    BY <2>1 DEF Begin, Pending, SimInv, Inv, TypeOK
  <2>2. CASE d # c
    <3>1. pc'[d] = pc[d] /\ req'[d] = req[d] /\ loc'[d] = loc[d]
      BY <2>2 DEF Begin, SimInv, Inv, TypeOK
    <3> QED
      BY <3>1 DEF Pending, Cmd, Key
  <2> QED
    BY <2>1, <2>2
<1>3. AbsMap' = AbsMap
  BY <1>2, AbsSame DEF Begin
<1>4. [d \in Clients |-> loc'[d].cnt] = [d \in Clients |-> loc[d].cnt]
  BY DEF Begin
<1>5. KV!NoReply = NoReply
  BY SameOps
<1> QED
  BY <1>1, <1>3, <1>4, <1>5 DEF Begin, KV!Invoke

(* Taking the mutex is invisible.                                          *)
LEMMA SimAcquire ==
  ASSUME SimInv, SimInv', NEW c \in Clients, Acquire(c)
  PROVE  UNCHANGED KV!vars
<1>1. \A d \in Clients, j \in Keys : Pending(d, j)' <=> Pending(d, j)
  <2> SUFFICES ASSUME NEW d \in Clients, NEW j \in Keys
               PROVE  Pending(d, j)' <=> Pending(d, j)
    OBVIOUS
  <2>1. CASE d = c
    BY <2>1 DEF Acquire, Pending, SimInv, Inv, TypeOK
  <2>2. CASE d # c
    <3>1. pc'[d] = pc[d] /\ req'[d] = req[d] /\ loc'[d] = loc[d]
      BY <2>2 DEF Acquire, SimInv, Inv, TypeOK
    <3> QED
      BY <3>1 DEF Pending, Cmd, Key
  <2> QED
    BY <2>1, <2>2
<1>2. AbsMap' = AbsMap
  BY <1>1, AbsSame DEF Acquire
<1>3. [d \in Clients |-> loc'[d].cnt] = [d \in Clients |-> loc[d].cnt]
  BY DEF Acquire
<1> QED
  BY <1>2, <1>3 DEF Acquire, KV!vars

(* The steps that touch no thread.                                         *)
LEMMA SimAside ==
  ASSUME SimInv, SimInv', UNCHANGED <<dict, pc, req, loc>>
  PROVE  AbsMap' = AbsMap /\ [d \in Clients |-> loc'[d].cnt] = [d \in Clients |-> loc[d].cnt]
<1>1. \A d \in Clients, j \in Keys : Pending(d, j)' <=> Pending(d, j)
  BY DEF Pending, Cmd, Key
<1>2. AbsMap' = AbsMap
  BY <1>1, AbsSame
<1>3. [d \in Clients |-> loc'[d].cnt] = [d \in Clients |-> loc[d].cnt]
  OBVIOUS
<1> QED
  BY <1>2, <1>3

(* Setting a limit.                                                        *)
LEMMA SimLimit ==
  ASSUME SimInv, SimInv', NEW c \in Clients, NEW b \in MemLimits, set_max_memory(c, b)
  PROVE  KV!Limit \/ UNCHANGED KV!vars
<1>1. UNCHANGED <<dict, pc, req, loc>>
  BY DEF set_max_memory
<1>2. AbsMap' = AbsMap /\ [d \in Clients |-> loc'[d].cnt] = [d \in Clients |-> loc[d].cnt]
  BY <1>1, SimAside
<1>3. limited' = TRUE \/ limited' = limited
  <2>1. limited \in BOOLEAN
    BY DEF SimInv, Inv, TypeOK
  <2> QED
    BY <2>1 DEF set_max_memory
<1> QED
  BY <1>2, <1>3 DEF set_max_memory, KV!Limit, KV!vars

(* The clock.                                                              *)
LEMMA SimTick ==
  ASSUME SimInv, SimInv', Tick
  PROVE  KV!Tick
<1>1. AbsMap' = AbsMap /\ [d \in Clients |-> loc'[d].cnt] = [d \in Clients |-> loc[d].cnt]
  BY SimAside DEF Tick
<1> QED
  BY <1>1 DEF Tick, KV!Tick

(* The sweeper takes only keys that have expired.                          *)
LEMMA SimSweep ==
  ASSUME SimInv, SimInv', background_sweeper
  PROVE  (\E k \in Keys : KV!Drop(k)) \/ UNCHANGED KV!vars
<1>1. UNCHANGED <<clock, limited, pc, req, tnow, loc, ret>>
  BY DEF background_sweeper, sweep_wake, sweep_try, sweep_entry, sweep_unlock, SweepFrame
<1>2. CASE dict' = dict
  BY <1>1, <1>2, SimAside DEF KV!vars
<1>3. ASSUME NEW k \in Keys, sweep_entry(k), Erase(k), Lapsed(k, sweep.now)
      PROVE  KV!Drop(k)
  <2>1. dict'[k] = NoEntry /\ \A j \in Keys : j # k => dict'[j] = dict[j]
    BY <1>3 DEF Erase, SimInv, Inv, TypeOK
  <2>2. \A d \in Clients, j \in Keys : Pending(d, j)' <=> Pending(d, j)
    BY <1>1 DEF Pending, Cmd, Key
  <2>3. \A d \in Clients : ~Pending(d, k)
    <3>1. sweep.pc = "scan" /\ ShardOf[k] = sweep.shard /\ ShardOf[k] \in Shards
      BY <1>3, EngineAssumption DEF SimInv, Inv, SweepInv, sweep_entry
    <3>2. lock[ShardOf[k]] = Sweeper
      BY <3>1 DEF SimInv, Inv, MutexInv
    <3> QED
      BY <3>2, PendingHolds, EngineAssumption DEF SimInv, Sweeper
  <2>4. AbsMap[k] = Strip(dict[k]) /\ AbsMap'[k] = NoEntry
    <3>1. AbsAt(k) /\ AbsAt(k)'
      BY AbsOf, AbsOfNext
    <3>2. AbsMap[k] = Strip(dict[k]) /\ AbsMap'[k] = Strip(dict'[k])
      BY <2>2, <2>3, <3>1 DEF AbsAt, Strip
    <3> QED
      BY <2>1, <3>2 DEF Strip
  <2>5. \A j \in Keys : j # k => AbsMap'[j] = AbsMap[j]
    BY <1>1, <2>1, <2>2, AbsKept
  <2>6. AbsMap' = [AbsMap EXCEPT ![k] = NoEntry]
    <3>1. /\ AbsMap = [j \in Keys |-> AbsMap[j]]
          /\ AbsMap' = [j \in Keys |-> AbsMap'[j]]
      BY DEF AbsMap
    <3> HIDE DEF AbsMap
    <3> QED
      BY <2>4, <2>5, <3>1
  <2>7. Lapsed(k, clock)
    <3>1. sweep.now \in Nat /\ sweep.now <= clock
      BY TimeInNat, SMT DEF SimInv, Inv, TypeOK, Awake, Asleep, ClockInv
    <3> QED
      BY <1>3, <3>1, LapsedNow, SMTT(30) DEF SimInv, Inv
  <2>8. AbsMap[k] # NoEntry /\ KV!Expired(AbsMap[k], clock)
    <3>1. dict[k] \in DictEntry \cup {NoEntry} /\ dict[k] # NoEntry /\ Expired(dict[k], clock)
      BY <2>7 DEF SimInv, Inv, TypeOK, Lapsed, Expired
    <3>2. Strip(dict[k]) # NoEntry /\ Expired(Strip(dict[k]), clock)
      BY <3>1, StripFacts, ZenonT(30)
    <3> HIDE DEF AbsMap
    <3> QED
      BY <2>4, <3>2, SameOps
  <2>9. [d \in Clients |-> loc'[d].cnt] = [d \in Clients |-> loc[d].cnt]
    BY <1>1
  <2> QED
    BY <1>1, <2>6, <2>8, <2>9 DEF KV!Drop
<1>4. dict' = dict \/ \E k \in Keys : sweep_entry(k) /\ Erase(k) /\ Lapsed(k, sweep.now)
  BY DEF background_sweeper, sweep_wake, sweep_try, sweep_entry, sweep_unlock, KeepDict
<1> QED
  BY <1>2, <1>3, <1>4

-----------------------------------------------------------------------------
(* Step simulation: every step of the engine is a step of the atomic       *)
(* dictionary on the abstract state, or invisible.                         *)
LEMMA StepSimulation ==
  ASSUME SimInv, SimInv', [Next]_vars
  PROVE  [KV!Next]_(KV!vars)
<1>1. ASSUME NEW c \in Clients, NEW r \in Requests, Begin(c, r)
      PROVE  KV!Next
  BY <1>1, SimBegin DEF KV!Next
<1>2. ASSUME NEW c \in Clients, NEW b \in MemLimits, set_max_memory(c, b)
      PROVE  [KV!Next]_(KV!vars)
  BY <1>2, SimLimit DEF KV!Next
<1>3. ASSUME NEW c \in Clients, Acquire(c)
      PROVE  UNCHANGED KV!vars
  BY <1>3, SimAcquire
<1>4. ASSUME NEW c \in Clients, Work(c)
      PROVE  [KV!Next]_(KV!vars)
  <2>1. \/ KV!Perform(c) \/ KV!Refuse(c) \/ UNCHANGED KV!vars
        \/ \E k \in Keys : KV!Drop(k)
    <3>1. CASE get(c) \/ pttl(c)
      BY <3>1, SimRead
    <3>2. CASE expire(c) \/ persist(c)
      BY <3>2, SimTtl
    <3>3. CASE exists(c) \/ del(c)
      BY <3>3, SimCount
    <3>4. CASE incr_parse(c)
      BY <3>4, SimParse
    <3>5. CASE load_usage(c) \/ check_memory(c)
      BY <3>5, SimLoad, SimCheck
    <3>6. CASE evict_done(c) \/ commit(c)
      BY <3>6, SimEvictDone, SimCommit
    <3>7. CASE \E k \in Keys : evict_one(c, k)
      BY <3>7, SimEvict
    <3> QED
      BY <1>4, <3>1, <3>2, <3>3, <3>4, <3>5, <3>6, <3>7, ZenonT(30) DEF Work
  <2> QED
    BY <2>1 DEF KV!Next
<1>5. CASE background_sweeper
  BY <1>5, SimSweep DEF KV!Next
<1>6. CASE Tick
  BY <1>6, SimTick DEF KV!Next
<1>7. CASE UNCHANGED vars
  <2>1. AbsMap' = AbsMap /\ [d \in Clients |-> loc'[d].cnt] = [d \in Clients |-> loc[d].cnt]
    BY <1>7, SimAside DEF vars
  <2> QED
    BY <1>7, <2>1 DEF vars, KV!vars
<1> QED
  BY <1>1, <1>2, <1>3, <1>4, <1>5, <1>6, <1>7 DEF Next

(* An engine that has just been constructed is the empty dictionary.       *)
LEMMA InitSimulation == Init => KV!Init
<1> SUFFICES ASSUME Init PROVE KV!Init
  OBVIOUS
<1>1. AbsMap = [k \in Keys |-> NoEntry]
  <2>1. \A c \in Clients, k \in Keys : ~Pending(c, k)
    BY DEF Init, Pending
  <2>2. \A k \in Keys : ~Present(k)
    BY DEF Init, Present
  <2> QED
    BY <2>1, <2>2 DEF AbsMap
<1>2. [d \in Clients |-> loc[d].cnt] = [d \in Clients |-> 0]
  BY DEF Init, NoLocals
<1>3. KV!NoReply = NoReply
  BY SameOps
<1> QED
  BY <1>1, <1>2, <1>3 DEF Init, KV!Init

(* Linearizability, for any number of threads, keys and shards: whatever   *)
(* the interleaving of the callers, the evictions and the sweeper, the     *)
(* engine's methods take effect one key at a time, each at one instant     *)
(* between its call and its return, with the results of KVOps.             *)
THEOREM EngineIsAtomic == Spec => ImplementsKVStore
<1>1. SimInv /\ SimInv' /\ [Next]_vars => [KV!Next]_(KV!vars)
  BY StepSimulation
<1> QED
  BY <1>1, InitSimulation, SimInvHolds, PTL DEF Spec, ImplementsKVStore, KV!Spec
=============================================================================
