------------------------- MODULE StorageEngineProofs -------------------------
(***************************************************************************)
(* Proofs about StorageEngine, for any number of threads, keys and shards: *)
(* the types and the mutexes, then what the dictionary may lose and what   *)
(* an increment may miss.                                                  *)
(***************************************************************************)
EXTENDS StorageEngine, TLAPS

(* val++ and val-- stay in the range of int64_t.                           *)
LEMMA BumpType ==
  ASSUME NEW m, NEW n \in Ints
  PROVE  Bump(m, n) \in Ints
BY KVAssumption DEF Bump, Ints

(* The rest of a request is a request while keys are left.                 *)
LEMMA TailRequest ==
  ASSUME NEW r, IsRequest(r), Len(r.keys) > 1
  PROVE  IsRequest(Rest(r))
<1>1. /\ r.keys \in Seq(Keys) /\ r.keys # <<>>
      /\ r \in [cmd : Cmds, keys : Seq(Keys) \ {<<>>}, arg : Values \cup Int]
  BY DEF IsRequest
<1>2. Tail(r.keys) \in Seq(Keys) /\ Len(Tail(r.keys)) = Len(r.keys) - 1
  BY <1>1
<1>a. PICK n \in Nat : n = Len(r.keys)
  BY <1>1
<1>b. n > 1
  BY <1>a, Zenon
<1>3. Tail(r.keys) # <<>>
  <2>1. n - 1 # 0
    BY <1>b
  <2>2. Len(Tail(r.keys)) = n - 1
    BY <1>a, <1>2, Zenon
  <2>3. Len(<<>>) = 0
    OBVIOUS
  <2> QED
    BY <2>1, <2>2, <2>3, Zenon
<1>4. Rest(r) \in [cmd : Cmds, keys : Seq(Keys) \ {<<>>}, arg : Values \cup Int]
  BY <1>1, <1>2, <1>3 DEF Rest
<1>5. r.cmd \in {"DEL", "EXISTS"}
  <2>1. n # 1
    BY <1>b
  <2> QED
    BY <1>a, <2>1, Zenon DEF IsRequest
<1>6. Rest(r).cmd \in {"DEL", "EXISTS"}
  BY <1>5 DEF Rest
<1> QED
  BY <1>4, <1>6 DEF IsRequest

(* Zenon is the prover of the leaves that name no other one.               *)
USE Zenon

(* The constructor leaves every member in its type.                        *)
THEOREM InitTypeOK == Init => TypeOK
<1> SUFFICES ASSUME Init PROVE TypeOK
  OBVIOUS
<1> USE DEF Init
<1>1. 0 \in 0 .. SizeMod - 1
  BY EngineAssumption, SMT
<1>2. 0 \in Ints /\ 0 \in Time
  BY KVAssumption, SMT DEF Ints, Time
<1>3. NoLocals \in Locals
  BY <1>1, <1>2 DEF NoLocals, Locals
<1>4. NoReply \in Reply
  BY SMT DEF NoReply, Answer, Reply, Kinds
<1>5. 1 \in 1 .. MaxTime
  BY EngineAssumption, KVAssumption, SMT
<1>6. 0 \in 0 .. MaxCalls
  BY EngineAssumption, SMT
<1> QED
  BY <1>1, <1>2, <1>3, <1>4, <1>5, <1>6 DEF TypeOK


-----------------------------------------------------------------------------
(* The type invariant in two halves, so that the parts the methods share   *)
(* (erasing, returning, counting) are typed once.                          *)

DataOK ==
  /\ dict \in [Keys -> DictEntry \cup {NoEntry}]
  /\ total \in 0 .. SizeMod - 1

ThreadOK ==
  /\ lock \in [Shards -> Clients \cup {Free, Sweeper}]
  /\ pc \in [Clients -> {"idle", "wait"} \cup Holding]
  /\ req \in [Clients -> {NoRequest} \cup [cmd : Cmds, keys : Seq(Keys), arg : Values \cup Int]]
  /\ \A c \in Clients : pc[c] # "idle" => IsRequest(req[c])
  /\ tnow \in [Clients -> Time]
  /\ loc \in [Clients -> Locals]
  /\ ret \in [Clients -> Reply]

(* size_t arithmetic stays in range.                                       *)
LEMMA WrapInRange ==
  ASSUME NEW n \in Int
  PROVE  n % SizeMod \in 0 .. SizeMod - 1
BY EngineAssumption, SMT

(* A thread in a method works on a key of the store.                       *)
LEMMA KeyType ==
  ASSUME TypeOK, NEW c \in Clients, pc[c] # "idle"
  PROVE  /\ Key(c) \in Keys
         /\ ShardOf[Key(c)] \in Shards
         /\ Cmd(c) \in Cmds
         /\ req[c].keys \in Seq(Keys) /\ req[c].keys # <<>>
<1>1. IsRequest(req[c])
  BY DEF TypeOK
<1>2. req[c].keys \in Seq(Keys) /\ req[c].keys # <<>> /\ req[c].cmd \in Cmds
  BY <1>1 DEF IsRequest
<1>3. Head(req[c].keys) \in Keys
  BY <1>2, SMT
<1> QED
  BY <1>2, <1>3, EngineAssumption DEF Key, Cmd

(* An entry of the dictionary has a capacity, a cost and an expiry.        *)
LEMMA EntryType ==
  ASSUME TypeOK, NEW k \in Keys, Present(k)
  PROVE  /\ dict[k] \in DictEntry
         /\ entry_cost(k, dict[k].cap) \in Nat \ {0}
<1>1. dict[k] \in DictEntry
  BY DEF TypeOK, Present
<1>2. dict[k].cap \in Nat
  BY <1>1 DEF DictEntry, Caps
<1>3. KeyCost[k] \in Nat \ {0}
  BY EngineAssumption
<1> QED
  BY <1>1, <1>2, <1>3, SMT DEF entry_cost

(* Erasing an entry keeps the dictionary and the byte counter in type.     *)
LEMMA EraseType ==
  ASSUME TypeOK, NEW k \in Keys, Present(k), Erase(k)
  PROVE  DataOK'
<1>1. dict' \in [Keys -> DictEntry \cup {NoEntry}]
  BY DEF TypeOK, Erase
<1>2. total - entry_cost(k, dict[k].cap) \in Int
  BY EntryType, SMT DEF TypeOK
<1>3. total' \in 0 .. SizeMod - 1
  BY <1>2, WrapInRange DEF Erase, Minus
<1> QED
  BY <1>1, <1>3 DEF DataOK

(* A thread outside the engine has well-typed locals.                      *)
LEMMA NoLocalsType == NoLocals \in Locals
BY EngineAssumption, KVAssumption, SMT DEF NoLocals, Locals, Ints, Time

(* Leaving a method keeps the thread state in type.                        *)
LEMMA ReturnType ==
  ASSUME TypeOK, NEW c \in Clients, pc[c] # "idle", NEW a \in Reply, Return(c, a)
  PROVE  ThreadOK'
<1>1. lock' \in [Shards -> Clients \cup {Free, Sweeper}]
  BY DEF TypeOK, Return, Unlock
<1>2. /\ pc' \in [Clients -> {"idle", "wait"} \cup Holding]
      /\ req' \in [Clients -> {NoRequest} \cup [cmd : Cmds, keys : Seq(Keys), arg : Values \cup Int]]
      /\ ret' \in [Clients -> Reply]
  BY DEF TypeOK, Return
<1>3. \A d \in Clients : pc'[d] # "idle" => IsRequest(req'[d])
  BY DEF TypeOK, Return
<1>4. tnow' \in [Clients -> Time]
  BY KVAssumption, SMT DEF TypeOK, Return, Time
<1>5. loc' \in [Clients -> Locals]
  BY NoLocalsType DEF TypeOK, Return
<1> QED
  BY <1>1, <1>2, <1>3, <1>4, <1>5 DEF ThreadOK

(* del and exists stay in type when they count a key and go on.            *)
LEMMA CountKeyType ==
  ASSUME TypeOK, NEW c \in Clients, pc[c] # "idle", Cmd(c) \in {"DEL", "EXISTS"},
         NEW b \in BOOLEAN, CountKey(c, b)
  PROVE  ThreadOK'
<1> DEFINE n == loc[c].cnt + (IF b THEN 1 ELSE 0)
<1>1. n \in Nat
  BY SMT DEF TypeOK, Locals
<1>2. CASE Return(c, Answer("int", n))
  <2>1. Answer("int", n) \in Reply
    BY <1>1, SMT DEF Answer, Reply, Kinds
  <2> QED
    BY <1>2, <2>1, ReturnType
<1>3. CASE /\ Len(req[c].keys) > 1
           /\ Unlock(c)
           /\ pc' = [pc EXCEPT ![c] = "wait"]
           /\ req' = [req EXCEPT ![c] = Rest(@)]
           /\ loc' = [loc EXCEPT ![c].cnt = n]
           /\ UNCHANGED <<tnow, ret>>
  <2>1. lock' \in [Shards -> Clients \cup {Free, Sweeper}]
    BY <1>3 DEF TypeOK, Unlock
  <2>2. pc' \in [Clients -> {"idle", "wait"} \cup Holding]
    BY <1>3 DEF TypeOK
  <2>3. IsRequest(Rest(req[c]))
    BY <1>3, TailRequest DEF TypeOK, Cmd
  <2>4. /\ req' \in [Clients -> {NoRequest} \cup [cmd : Cmds, keys : Seq(Keys), arg : Values \cup Int]]
        /\ \A d \in Clients : pc'[d] # "idle" => IsRequest(req'[d])
    <3>1. Rest(req[c]) \in [cmd : Cmds, keys : Seq(Keys), arg : Values \cup Int]
      BY <2>3 DEF IsRequest
    <3> QED
      BY <1>3, <2>3, <3>1 DEF TypeOK
  <2>5. loc' \in [Clients -> Locals]
    <3>0. loc[c] \in Locals
      BY DEF TypeOK
    <3>1. [loc[c] EXCEPT !.cnt = n] \in Locals
      BY <1>1, <3>0 DEF Locals
    <3> QED
      BY <1>3, <3>1 DEF TypeOK
  <2> QED
    BY <1>3, <2>1, <2>2, <2>4, <2>5 DEF ThreadOK, TypeOK
<1> QED
  BY <1>2, <1>3 DEF CountKey

OtherOK ==
  /\ max \in 0 .. SizeMod - 1
  /\ stats \in [Counters -> Nat]
  /\ clock \in 1 .. MaxTime
  /\ calls \in [Clients -> 0 .. MaxCalls]
  /\ sweep \in Awake \cup {Asleep}
  /\ limited \in BOOLEAN

(* The type invariant of the next state from its parts.                    *)
LEMMA TypeParts ==
  ASSUME DataOK', ThreadOK', OtherOK'
  PROVE  TypeOK'
BY DEF TypeOK, DataOK, ThreadOK, OtherOK

(* Counting an event keeps the statistics in type.                         *)
LEMMA BumpedType ==
  ASSUME TypeOK, NEW fs, Bumped(fs)
  PROVE  stats' \in [Counters -> Nat]
BY SMT DEF TypeOK, Bumped

(* A step that leaves the dictionary alone keeps it in type.               *)
LEMMA KeepDictType ==
  ASSUME TypeOK, KeepDict
  PROVE  DataOK'
BY DEF TypeOK, KeepDict, DataOK

(* The answers are replies.                                                *)
LEMMA AnswerType ==
  ASSUME NEW kind \in Kinds, NEW v \in Values \cup Int
  PROVE  Answer(kind, v) \in Reply
BY DEF Answer, Reply

(* Timestamps are natural numbers, and the clock is one.                   *)
LEMMA TimeInNat == (\A t \in Time : t \in Nat) /\ 0 \in Time /\ (\A t \in 1 .. MaxTime : t \in Time)
BY KVAssumption, EngineAssumption, SMT DEF Time

(* The bodies that only look up, erase or answer.                          *)

(* get and exists, with their lazy expiry, preserve the types.             *)
LEMMA LookupType ==
  ASSUME TypeOK, NEW c \in Clients, get(c) \/ exists(c)
  PROVE  TypeOK'
<1> DEFINE k == Key(c)
<1>1. /\ pc[c] # "idle" /\ k \in Keys
      /\ get(c) => Cmd(c) = "GET"
      /\ exists(c) => Cmd(c) = "EXISTS"
  BY KeyType DEF get, exists, InBody
<1>2. Present(k) => dict[k].val \in Values
  BY <1>1, EntryType DEF DictEntry
<1>3. ThreadOK'
  <2>1. CASE get(c)
    <3>1. \/ Return(c, Answer("nil", 0))
          \/ Present(k) /\ Return(c, Answer("bulk", dict[k].val))
      BY <2>1 DEF get, Lookup
    <3>2. Answer("nil", 0) \in Reply /\ (Present(k) => Answer("bulk", dict[k].val) \in Reply)
      BY <1>2, AnswerType, SMT DEF Kinds
    <3> QED
      BY <1>1, <3>1, <3>2, ReturnType
  <2>2. CASE exists(c)
    <3>1. CountKey(c, TRUE) \/ CountKey(c, FALSE)
      BY <2>2 DEF exists, Lookup
    <3> QED
      BY <1>1, <2>2, <3>1, CountKeyType
  <2> QED
    BY <2>1, <2>2
<1>4. /\ stats' \in [Counters -> Nat]
      /\ KeepDict \/ (Erase(k) /\ Present(k))
      /\ UNCHANGED <<max, clock, calls, sweep, limited>>
  BY BumpedType DEF get, exists, Lookup, Lapsed, Expired, Present
<1>5. DataOK'
  BY <1>1, <1>4, EraseType, KeepDictType DEF KeepDict, Erase, TypeOK
<1>6. OtherOK'
  BY <1>4, <1>5 DEF OtherOK, TypeOK
<1> QED
  BY <1>3, <1>5, <1>6, TypeParts

(* del preserves the types.                                                *)
LEMMA DelType ==
  ASSUME TypeOK, NEW c \in Clients, del(c)
  PROVE  TypeOK'
<1>1. /\ pc[c] # "idle" /\ Key(c) \in Keys /\ Cmd(c) = "DEL"
      /\ Present(Key(c)) \in BOOLEAN
  BY KeyType DEF del, InBody, Present
<1>2. ThreadOK'
  BY <1>1, CountKeyType DEF del
<1>3. DataOK'
  BY <1>1, EraseType, KeepDictType DEF del
<1>4. OtherOK'
  BY DEF OtherOK, TypeOK, del
<1> QED
  BY <1>2, <1>3, <1>4, TypeParts

(* expire, expire_at and persist leave the dictionary alone, erase a lapsed*)
(* entry, or set the expiry of their key's entry.                          *)
LEMMA TtlWrites ==
  ASSUME TypeOK, NEW c \in Clients, expire(c) \/ persist(c)
  PROVE  \/ KeepDict
         \/ Erase(Key(c)) /\ Lapsed(Key(c), tnow[c])
         \/ /\ Present(Key(c)) /\ UNCHANGED total
            /\ \E e \in DictEntry : /\ e.cap = dict[Key(c)].cap
                                    /\ dict' = [dict EXCEPT ![Key(c)] = e]
<1> DEFINE k == Key(c)
           deadline == IF Cmd(c) = "PEXPIRE" THEN Deadline(tnow[c], req[c].arg) ELSE req[c].arg
<1>1. /\ pc[c] # "idle" /\ k \in Keys
      /\ expire(c) => Cmd(c) \in {"PEXPIRE", "PEXPIREAT"}
  BY KeyType DEF expire, persist, InBody
<1>2. tnow[c] \in Int
  BY TimeInNat, SMT DEF TypeOK
<1>3. ASSUME expire(c)
      PROVE  deadline \in Time
  <2>1. CASE Cmd(c) = "PEXPIRE"
    <3>1. tnow[c] + req[c].arg \in Int
      BY <1>1, <1>2, <2>1, SMT DEF TypeOK, IsRequest, Cmd
    <3> QED
      BY <2>1, <3>1, KVAssumption, SMT DEF Deadline, Time
  <2>2. CASE Cmd(c) = "PEXPIREAT"
    BY <1>1, <2>2 DEF TypeOK, IsRequest, Cmd
  <2> QED
    BY <1>1, <1>3, <2>1, <2>2
<1>4. ASSUME NEW t \in Time, Present(k), dict' = [dict EXCEPT ![k].exp = t]
      PROVE  \E e \in DictEntry : e.cap = dict[k].cap /\ dict' = [dict EXCEPT ![k] = e]
  <2>1. /\ [dict[k] EXCEPT !.exp = t] \in DictEntry
        /\ [dict[k] EXCEPT !.exp = t].cap = dict[k].cap
    BY <1>1, <1>4, EntryType DEF DictEntry
  <2>2. dict' = [dict EXCEPT ![k] = [dict[k] EXCEPT !.exp = t]]
    BY <1>4
  <2> QED
    BY <2>1, <2>2
<1>5. CASE expire(c)
  BY <1>3, <1>4, <1>5 DEF expire
<1>6. CASE persist(c)
  BY <1>4, <1>6, TimeInNat DEF persist
<1> QED
  BY <1>5, <1>6

(* expire, expire_at, pttl and persist preserve the types.                 *)
LEMMA TtlType ==
  ASSUME TypeOK, NEW c \in Clients, expire(c) \/ pttl(c) \/ persist(c)
  PROVE  TypeOK'
<1> DEFINE k == Key(c)
<1>1. pc[c] # "idle" /\ k \in Keys
  BY KeyType DEF expire, pttl, persist, InBody
<1>2. Present(k) => dict[k].exp \in Int
  BY <1>1, EntryType, TimeInNat, SMT DEF DictEntry
<1>3. Present(k) => Remaining(dict[k], tnow[c]) \in Int
  <2>1. tnow[c] \in Int
    BY TimeInNat, SMT DEF TypeOK
  <2> QED
    BY <1>2, <2>1, KVAssumption, SMT DEF Remaining
<1>4. \E a \in Reply : Return(c, a)
  <2>1. \A n \in Int : Answer("int", n) \in Reply
    BY AnswerType DEF Kinds
  <2>2. CASE expire(c) \/ persist(c)
    BY <2>1, <2>2, SMT DEF expire, persist
  <2>3. CASE pttl(c)
    BY <1>3, <2>1, <2>3, SMT DEF pttl
  <2> QED
    BY <2>2, <2>3
<1>5. ThreadOK'
  BY <1>1, <1>4, ReturnType
<1>6. DataOK'
  <2>1. CASE KeepDict
    BY <2>1, KeepDictType DEF KeepDict, TypeOK
  <2>2. CASE Erase(k) /\ Lapsed(k, tnow[c])
    BY <1>1, <2>2, EraseType DEF Erase, TypeOK, Lapsed, Expired, Present
  <2>3. CASE /\ \E e \in DictEntry : dict' = [dict EXCEPT ![k] = e]
             /\ UNCHANGED total
    BY <1>1, <2>3 DEF TypeOK, DataOK
  <2>4. pttl(c) => KeepDict \/ (Erase(k) /\ Lapsed(k, tnow[c]))
    BY DEF pttl
  <2> QED
    BY <2>1, <2>2, <2>3, <2>4, TtlWrites
<1>7. /\ stats' \in [Counters -> Nat]
      /\ UNCHANGED <<max, clock, calls, sweep, limited>>
  BY BumpedType DEF expire, pttl, persist, TypeOK
<1>8. OtherOK'
  BY <1>6, <1>7 DEF OtherOK, TypeOK
<1> QED
  BY <1>5, <1>6, <1>8, TypeParts

(* The update path: incr_parse, load_usage, check_memory, evict, commit.   *)

(* The locals of a thread have their types.                                *)
LEMMA LocType ==
  ASSUME TypeOK, NEW c \in Clients
  PROVE  /\ loc[c] \in Locals
         /\ loc[c].cur \in Nat /\ loc[c].old \in Nat /\ loc[c].need \in Nat
         /\ loc[c].freed \in Nat /\ loc[c].val \in Ints /\ loc[c].exp \in Time
BY EngineAssumption, SMT DEF TypeOK, Locals

(* The new value of set, incr and decr, and its cost, are in type.         *)
LEMMA NewCostType ==
  ASSUME TypeOK, NEW c \in Clients, pc[c] # "idle", Cmd(c) \in UpdateCmds
  PROVE  /\ NewVal(c) \in Values
         /\ FreshCap(NewVal(c)) \in Nat
         /\ new_cost(c) \in Nat
<1>1. NewVal(c) \in Values
  <2>1. CASE Cmd(c) = "SET"
    BY <2>1 DEF NewVal, TypeOK, IsRequest, Cmd
  <2>2. CASE Cmd(c) # "SET"
    BY <2>2, LocType, BumpType DEF NewVal, Values
  <2> QED
    BY <2>1, <2>2
<1>2. FreshCap(NewVal(c)) \in Nat
  BY <1>1, EngineAssumption DEF FreshCap
<1>3. KeyCost[Key(c)] \in Nat
  BY KeyType, EngineAssumption
<1> QED
  BY <1>1, <1>2, <1>3, SMT DEF new_cost, entry_cost

(* A thread that only moves on: program counter and locals change.         *)
LEMMA MoveType ==
  ASSUME TypeOK, NEW c \in Clients, pc[c] # "idle",
         NEW p \in Holding, NEW l \in Locals,
         pc' = [pc EXCEPT ![c] = p], loc' = [loc EXCEPT ![c] = l],
         UNCHANGED <<lock, req, tnow, ret>>
  PROVE  ThreadOK'
BY DEF TypeOK, ThreadOK

(* The first part of incr and decr preserves the types.                    *)
LEMMA IncrParseType ==
  ASSUME TypeOK, NEW c \in Clients, incr_parse(c)
  PROVE  TypeOK'
<1> DEFINE k == Key(c)
           Proceed(v, e) == /\ pc' = [pc EXCEPT ![c] = "load"]
                            /\ loc' = [loc EXCEPT ![c].val = v, ![c].exp = e]
                            /\ UNCHANGED <<lock, req, tnow, ret>>
<1>1. pc[c] # "idle" /\ k \in Keys
  BY KeyType DEF incr_parse, InBody
<1>2. ASSUME NEW v \in Ints, NEW e \in Time, Proceed(v, e)
      PROVE  ThreadOK'
  <2>1. [loc[c] EXCEPT !.val = v, !.exp = e] \in Locals
    BY LocType DEF Locals
  <2>2. loc' = [loc EXCEPT ![c] = [loc[c] EXCEPT !.val = v, !.exp = e]]
    BY <1>2
  <2> QED
    BY <1>1, <1>2, <2>1, <2>2, MoveType DEF Holding
<1>3. 0 \in Ints /\ 0 \in Time
  BY KVAssumption, SMT DEF Ints, Time
<1>4. Present(k) => dict[k].exp \in Time
  BY <1>1, EntryType DEF DictEntry
<1>5. Answer("nullopt", 0) \in Reply
  BY AnswerType, SMT DEF Kinds
<1>6. ThreadOK'
  <2>1. \/ Proceed(0, 0)
        \/ Present(k) /\ dict[k].val \in Ints /\ Proceed(dict[k].val, dict[k].exp)
        \/ Return(c, Answer("nullopt", 0))
    BY DEF incr_parse
  <2> QED
    BY <1>1, <1>2, <1>3, <1>4, <1>5, <2>1, ReturnType
<1>7. KeepDict \/ (Erase(k) /\ Present(k))
  BY DEF incr_parse, Lapsed, Expired, Present
<1>8. DataOK'
  BY <1>1, <1>7, EraseType, KeepDictType DEF KeepDict, Erase, TypeOK
<1>9. OtherOK'
  BY <1>8 DEF OtherOK, TypeOK, incr_parse
<1> QED
  BY <1>6, <1>8, <1>9, TypeParts

(* The load of the counter and the check of the limit preserve the types.  *)
LEMMA LoadCheckType ==
  ASSUME TypeOK, NEW c \in Clients, load_usage(c) \/ check_memory(c),
         Cmd(c) \in UpdateCmds
  PROVE  TypeOK'
<1> DEFINE k == Key(c)
           old == IF Present(k) THEN entry_cost(k, dict[k].cap) ELSE 0
           want == Plus(loc[c].cur, new_cost(c))
           room == Plus(max, loc[c].old)
<1>1. pc[c] # "idle" /\ k \in Keys
  BY KeyType DEF load_usage, check_memory
<1>2. old \in Nat
  BY <1>1, EntryType
<1>l. loc[c] \in Locals /\ total \in 0 .. SizeMod - 1 /\ max \in 0 .. SizeMod - 1
  BY DEF TypeOK
<1>m. max \in Nat
  BY <1>l, EngineAssumption, SMT
<1>3. want \in Nat /\ room \in Nat
  <2>1. loc[c].cur \in Nat /\ loc[c].old \in Nat
    BY LocType
  <2>2. new_cost(c) \in Nat /\ max \in Nat
    BY <1>1, <1>m, NewCostType
  <2>3. loc[c].cur + new_cost(c) \in Int /\ max + loc[c].old \in Int
    BY <2>1, <2>2, SMT
  <2> QED
    BY <2>3, WrapInRange, SMT DEF Plus
<1>4. ThreadOK'
  <2>1. CASE load_usage(c)
    <3>1. [loc[c] EXCEPT !.cur = total, !.old = old] \in Locals
      BY <1>2, <1>l DEF Locals
    <3>2. loc' = [loc EXCEPT ![c] = [loc[c] EXCEPT !.cur = total, !.old = old]]
      BY <2>1 DEF load_usage
    <3> HIDE DEF old
    <3> QED
      BY <1>1, <2>1, <3>1, <3>2, MoveType DEF load_usage, Holding
  <2>2. CASE check_memory(c) /\ max > 0 /\ want > room
    <3>1. want - room \in Nat
      BY <1>3, <2>2, SMT
    <3>2. [loc[c] EXCEPT !.lim = max, !.need = want - room] \in Locals
      BY <3>1, <1>l DEF Locals
    <3>3. loc' = [loc EXCEPT ![c] = [loc[c] EXCEPT !.lim = max, !.need = want - room]]
      BY <2>2 DEF check_memory
    <3> HIDE DEF want, room
    <3>4. pc' = [pc EXCEPT ![c] = "evict"]
      BY <2>2 DEF check_memory, want, room
    <3> QED
      BY <1>1, <2>2, <3>2, <3>3, <3>4, MoveType DEF check_memory, Holding
  <2>3. CASE check_memory(c) /\ ~(max > 0 /\ want > room)
    <3>1. [loc[c] EXCEPT !.lim = max] \in Locals
      BY <1>l DEF Locals
    <3>2. /\ loc' = [loc EXCEPT ![c] = [loc[c] EXCEPT !.lim = max]]
          /\ pc' = [pc EXCEPT ![c] = "commit"]
      BY <2>3 DEF check_memory
    <3> QED
      BY <1>1, <2>3, <3>1, <3>2, MoveType DEF check_memory, Holding
  <2> QED
    BY <2>1, <2>2, <2>3
<1>5. DataOK' /\ OtherOK'
  BY DEF load_usage, check_memory, DataOK, OtherOK, TypeOK
<1> QED
  BY <1>4, <1>5, TypeParts

(* evict_from_shard preserves the types.                                   *)
LEMMA EvictType ==
  ASSUME TypeOK, NEW c \in Clients,
         evict_done(c) \/ \E k \in Keys : evict_one(c, k)
  PROVE  TypeOK'
<1>1. pc[c] # "idle"
  BY DEF evict_done, evict_one
<1>2. CASE evict_done(c)
  <2>1. \A kind \in Kinds : Answer(kind, 0) \in Reply
    BY AnswerType, SMT
  <2>2. ThreadOK'
    <3>1. CASE \E a \in Reply : Return(c, a)
      BY <1>1, <3>1, ReturnType
    <3>2. CASE pc' = [pc EXCEPT ![c] = "commit"] /\ UNCHANGED <<lock, req, tnow, loc, ret>>
      BY <1>1, <3>2 DEF TypeOK, ThreadOK, Holding
    <3> QED
      BY <1>2, <2>1, <3>1, <3>2 DEF evict_done, Kinds
  <2>3. DataOK' /\ OtherOK'
    BY <1>2 DEF evict_done, DataOK, OtherOK, TypeOK
  <2> QED
    BY <2>2, <2>3, TypeParts
<1>3. CASE \E k \in Keys : evict_one(c, k)
  <2>1. PICK k \in Keys : evict_one(c, k)
    BY <1>3
  <2>2. Present(k)
    BY <2>1 DEF evict_one, ShardKeys
  <2>3. DataOK'
    BY <2>1, <2>2, EraseType DEF evict_one
  <2>4. loc' \in [Clients -> Locals]
    <3>1. loc[c].freed + entry_cost(k, dict[k].cap) \in Nat
      BY <2>2, EntryType, LocType, SMT
    <3>2. [loc[c] EXCEPT !.freed = @ + entry_cost(k, dict[k].cap)] \in Locals
      BY <3>1, LocType DEF Locals
    <3> QED
      BY <2>1, <3>2 DEF evict_one, TypeOK
  <2>5. ThreadOK'
    BY <2>1, <2>4 DEF evict_one, ThreadOK, TypeOK
  <2>6. OtherOK'
    BY <2>1, BumpedType DEF evict_one, OtherOK, TypeOK
  <2> QED
    BY <2>3, <2>5, <2>6, TypeParts
<1> QED
  BY <1>2, <1>3

(* The capacity of the string that set, incr and decr leave.               *)
NewCap(c) ==
  IF ~Present(Key(c)) THEN FreshCap(NewVal(c))
  ELSE IF Cmd(c) = "SET" THEN CopyCap(dict[Key(c)].cap, NewVal(c))
  ELSE MoveCap(dict[Key(c)].cap, NewVal(c))

(* What set, incr and decr store is an entry.                              *)
LEMMA CommitWrites ==
  ASSUME TypeOK, NEW c \in Clients, commit(c), Cmd(c) \in UpdateCmds
  PROVE  \E e \in DictEntry : /\ dict' = [dict EXCEPT ![Key(c)] = e]
                              /\ e.val = NewVal(c) /\ e.exp = loc[c].exp
                              /\ e.cap = NewCap(c)
<1> DEFINE k == Key(c)
           v == NewVal(c)
<1>1. pc[c] # "idle" /\ k \in Keys
  BY KeyType DEF commit
<1>2. v \in Values /\ FreshCap(v) \in Nat /\ new_cost(c) \in Nat /\ StrLen[v] \in Nat
  BY <1>1, NewCostType, EngineAssumption
<1>3. NewCap(c) \in Nat
  <2>1. Present(k) => dict[k].cap \in Nat
    BY <1>1, EntryType DEF DictEntry, Caps
  <2> QED
    BY <1>2, <2>1, SMT DEF CopyCap, MoveCap, NewCap
<1>4. [val |-> v, exp |-> loc[c].exp, cap |-> NewCap(c)] \in DictEntry
  BY <1>2, <1>3, LocType DEF DictEntry, Caps
<1>5. dict' = [dict EXCEPT ![k] = [val |-> v, exp |-> loc[c].exp, cap |-> NewCap(c)]]
  BY DEF commit, NewCap
<1> QED
  BY <1>4, <1>5

(* The end of set, incr and decr preserves the types.                      *)
LEMMA CommitType ==
  ASSUME TypeOK, NEW c \in Clients, commit(c), Cmd(c) \in UpdateCmds
  PROVE  TypeOK'
<1>1. pc[c] # "idle" /\ Key(c) \in Keys
  BY KeyType DEF commit
<1>2. NewVal(c) \in Values /\ new_cost(c) \in Nat
  BY <1>1, NewCostType
<1>4. dict' \in [Keys -> DictEntry \cup {NoEntry}]
  BY <1>1, CommitWrites, ZenonT(30) DEF TypeOK
<1>5. total' \in 0 .. SizeMod - 1
  <2>1. total + new_cost(c) - loc[c].old \in Int
    BY <1>2, LocType, SMT DEF TypeOK
  <2> QED
    BY <2>1, WrapInRange DEF commit
<1>6. ThreadOK'
  <2>1. Answer("ok", 0) \in Reply /\ Answer("int", NewVal(c)) \in Reply
    BY <1>2, AnswerType, SMT DEF Kinds
  <2>2. Return(c, Answer("ok", 0)) \/ Return(c, Answer("int", NewVal(c)))
    BY DEF commit
  <2> QED
    BY <1>1, <2>1, <2>2, ReturnType
<1>7. OtherOK'
  BY DEF commit, OtherOK, TypeOK
<1> QED
  BY <1>4, <1>5, <1>6, <1>7, TypeParts DEF DataOK

(* The sweeper only moves its own record, the shard's mutex, and erases.   *)

(* background_sweeper preserves the types.                                 *)
LEMMA SweepType ==
  ASSUME TypeOK, background_sweeper
  PROVE  TypeOK'
<1>1. SweepFrame
  BY DEF background_sweeper, sweep_wake, sweep_try, sweep_unlock, sweep_entry
<1>2. sweep.pc # "sleep" => sweep \in Awake
  BY SMT DEF TypeOK, Asleep
<1>3. sweep.pc # "sleep" => NextShard \in Awake \cup {Asleep}
  <2> SUFFICES ASSUME sweep.pc # "sleep", sweep.shard + 1 < NumShards
               PROVE  [sweep EXCEPT !.pc = "try", !.shard = @ + 1, !.todo = {}] \in Awake
    BY DEF NextShard
  <2>1. sweep.shard + 1 \in Shards
    BY <1>2, EngineAssumption, SMT DEF Awake, Shards
  <2> QED
    BY <1>2, <2>1 DEF Awake
<1>4. CASE sweep_wake
  <2>1. clock \in Time /\ 0 \in Shards
    BY TimeInNat, EngineAssumption, SMT DEF TypeOK, Shards
  <2>2. sweep' \in Awake
    BY <1>4, <2>1 DEF sweep_wake, Awake
  <2> QED
    BY <1>1, <1>4, <2>2 DEF sweep_wake, SweepFrame, TypeOK
<1>5. CASE sweep_try
  <2>1. sweep' \in Awake \cup {Asleep}
    <3>1. CASE sweep' = NextShard
      BY <1>3, <1>5, <3>1 DEF sweep_try
    <3>2. CASE \E batch \in SUBSET ShardKeys(sweep.shard) :
                 sweep' = [sweep EXCEPT !.pc = "scan", !.todo = batch]
      BY <1>2, <1>5, <3>2 DEF sweep_try, Awake, ShardKeys
    <3> QED
      BY <1>5, <3>1, <3>2 DEF sweep_try
  <2>2. lock' \in [Shards -> Clients \cup {Free, Sweeper}]
    BY <1>5 DEF sweep_try, TypeOK
  <2> QED
    BY <1>1, <1>5, <2>1, <2>2 DEF sweep_try, SweepFrame, TypeOK
<1>6. CASE sweep_unlock
  <2>1. sweep' \in Awake \cup {Asleep}
    BY <1>3, <1>6 DEF sweep_unlock
  <2>2. lock' \in [Shards -> Clients \cup {Free, Sweeper}]
    BY <1>6 DEF sweep_unlock, TypeOK
  <2> QED
    BY <1>1, <1>6, <2>1, <2>2, ZenonT(30) DEF sweep_unlock, SweepFrame, TypeOK
<1>7. ASSUME NEW k \in Keys, sweep_entry(k)
      PROVE  TypeOK'
  <2>1. sweep' \in Awake
    BY <1>2, <1>7 DEF sweep_entry, Awake
  <2>2. /\ KeepDict \/ (Erase(k) /\ Present(k))
        /\ stats' \in [Counters -> Nat]
    BY <1>7, BumpedType DEF sweep_entry, Lapsed, Expired, Present, TypeOK
  <2>3. DataOK'
    BY <2>2, EraseType, KeepDictType DEF KeepDict, Erase, TypeOK
  <2>4. ThreadOK' /\ OtherOK'
    BY <1>1, <1>7, <2>1, <2>2, <2>3 DEF sweep_entry, SweepFrame, TypeOK, ThreadOK, OtherOK
  <2> QED
    BY <2>3, <2>4, TypeParts
<1> QED
  BY <1>4, <1>5, <1>6, <1>7 DEF background_sweeper

-----------------------------------------------------------------------------
(* Only an update reaches the memory check and what follows it.            *)
PathInv ==
  \A c \in Clients : pc[c] \in {"load", "check", "evict", "commit"} => Cmd(c) \in UpdateCmds

(* Entering a method preserves the types.                                  *)
LEMMA BeginType ==
  ASSUME TypeOK, NEW c \in Clients, \E r \in Requests : Begin(c, r)
  PROVE  TypeOK'
<1>1. PICK r \in Requests : Begin(c, r)
  OBVIOUS
<1>2. IsRequest(r) /\ r \in [cmd : Cmds, keys : Seq(Keys), arg : Values \cup Int]
  BY EngineAssumption DEF IsRequest
<1>3. clock \in Time /\ NoReply \in Reply
  BY TimeInNat, AnswerType, SMT DEF TypeOK, NoReply, Kinds
<1>4. calls' \in [Clients -> 0 .. MaxCalls]
  BY <1>1, EngineAssumption, SMT DEF Begin, TypeOK
<1>5. ThreadOK'
  BY <1>1, <1>2, <1>3 DEF Begin, TypeOK, ThreadOK
<1>6. DataOK' /\ OtherOK'
  BY <1>1, <1>4 DEF Begin, TypeOK, DataOK, OtherOK
<1> QED
  BY <1>5, <1>6, TypeParts

(* Every step of every thread preserves the types.                         *)
LEMMA NextType ==
  ASSUME TypeOK, PathInv, [Next]_vars
  PROVE  TypeOK'
<1>1. ASSUME NEW c \in Clients, \E r \in Requests : Begin(c, r)
      PROVE  TypeOK'
  BY <1>1, BeginType
<1>2. ASSUME NEW c \in Clients, NEW b \in MemLimits, set_max_memory(c, b)
      PROVE  TypeOK'
  <2>1. b \in 0 .. SizeMod - 1
    BY EngineAssumption
  <2>2. calls' \in [Clients -> 0 .. MaxCalls]
    BY <1>2, EngineAssumption, SMT DEF set_max_memory, TypeOK
  <2> QED
    BY <1>2, <2>1, <2>2 DEF set_max_memory, TypeOK
<1>3. ASSUME NEW c \in Clients, Acquire(c)
      PROVE  TypeOK'
  <2>1. lock' \in [Shards -> Clients \cup {Free, Sweeper}]
    BY <1>3, ZenonT(30) DEF Acquire, TypeOK
  <2>2. ThreadOK'
    BY <1>3, <2>1, ZenonT(30) DEF Acquire, TypeOK, ThreadOK, Holding
  <2>3. DataOK' /\ OtherOK'
    BY <1>3 DEF Acquire, TypeOK, DataOK, OtherOK
  <2> QED
    BY <2>2, <2>3, TypeParts
<1>4. ASSUME NEW c \in Clients, Work(c)
      PROVE  TypeOK'
  <2>1. load_usage(c) \/ check_memory(c) \/ commit(c) => Cmd(c) \in UpdateCmds
    BY DEF PathInv, load_usage, check_memory, commit
  <2> QED
    BY <1>4, <2>1, LookupType, DelType, TtlType, IncrParseType, LoadCheckType, EvictType,
       CommitType DEF Work
<1>5. CASE background_sweeper
  BY <1>5, SweepType
<1>6. CASE Tick
  <2>1. clock' \in 1 .. MaxTime
    BY <1>6, EngineAssumption, SMT DEF Tick, TypeOK
  <2> QED
    BY <1>6, <2>1 DEF Tick, TypeOK
<1>7. CASE UNCHANGED vars
  BY <1>7 DEF vars, TypeOK
<1> QED
  BY <1>1, <1>2, <1>3, <1>4, <1>5, <1>6, <1>7 DEF Next

-----------------------------------------------------------------------------
(* The shape of a thread's step under the mutex: it keeps the mutex and    *)
(* its call and moves along the update path, or it leaves the shard.       *)

Stays(c) ==
  /\ UNCHANGED <<lock, req, tnow>>
  /\ \E p \in {"load", "check", "evict", "commit"} : pc' = [pc EXCEPT ![c] = p]
  /\ Cmd(c) \in UpdateCmds

Leaves(c) ==
  /\ lock' = [lock EXCEPT ![ShardOf[Key(c)]] = Free]
  /\ \E p \in {"idle", "wait"} : pc' = [pc EXCEPT ![c] = p]
  /\ \E r : req' = [req EXCEPT ![c] = r]
  /\ UNCHANGED tnow \/ tnow' = [tnow EXCEPT ![c] = 0]

(* A step inside a method stays in its shard or leaves it and frees it.    *)
LEMMA WorkShape ==
  ASSUME TypeOK, PathInv, NEW c \in Clients, Work(c)
  PROVE  /\ pc[c] \in Holding
         /\ Stays(c) \/ Leaves(c)
         /\ UNCHANGED <<max, clock, calls, sweep, limited>>
<1>1. ASSUME NEW a, Return(c, a)
      PROVE  Leaves(c)
  BY <1>1 DEF Return, Unlock, Leaves
<1>2. ASSUME NEW b, CountKey(c, b)
      PROVE  Leaves(c)
  <2>1. CASE \E a : Return(c, a)
    BY <1>1, <2>1
  <2>2. CASE /\ Unlock(c)
             /\ pc' = [pc EXCEPT ![c] = "wait"]
             /\ req' = [req EXCEPT ![c] = Rest(@)]
             /\ UNCHANGED tnow
    BY <2>2, ZenonT(30) DEF Unlock, Leaves
  <2> QED
    BY <1>2, <2>1, <2>2 DEF CountKey
<1>3. CASE get(c)
  BY <1>1, <1>3 DEF get, Lookup, InBody, Holding
<1>4. CASE exists(c)
  BY <1>2, <1>4 DEF exists, Lookup, InBody, Holding
<1>5. CASE del(c)
  BY <1>2, <1>5 DEF del, InBody, Holding
<1>6. CASE expire(c)
  BY <1>1, <1>6 DEF expire, InBody, Holding
<1>7. CASE pttl(c)
  BY <1>1, <1>7 DEF pttl, InBody, Holding
<1>8. CASE persist(c)
  BY <1>1, <1>8 DEF persist, InBody, Holding
<1>9. CASE incr_parse(c)
  <2>1. CASE \E a : Return(c, a)
    BY <1>1, <1>9, <2>1 DEF incr_parse, InBody, Holding
  <2>2. CASE pc' = [pc EXCEPT ![c] = "load"] /\ UNCHANGED <<lock, req, tnow>>
    BY <1>9, <2>2 DEF incr_parse, InBody, Holding, Stays, UpdateCmds
  <2> QED
    BY <1>9, <2>1, <2>2 DEF incr_parse
<1>10. CASE load_usage(c) \/ check_memory(c)
  BY <1>10 DEF load_usage, check_memory, PathInv, Holding, Stays
<1>11. CASE evict_done(c)
  <2>1. CASE \E a : Return(c, a)
    BY <1>1, <1>11, <2>1, ZenonT(30) DEF evict_done, Holding
  <2>2. CASE pc' = [pc EXCEPT ![c] = "commit"] /\ UNCHANGED <<lock, req, tnow>>
    BY <1>11, <2>2 DEF evict_done, Holding, Stays, PathInv
  <2> QED
    BY <1>11, <2>1, <2>2, ZenonT(30) DEF evict_done
<1>12. CASE commit(c)
  BY <1>1, <1>12 DEF commit, Holding
<1>13. CASE \E k \in Keys : evict_one(c, k)
  <2>1. pc[c] = "evict" /\ pc' = [pc EXCEPT ![c] = "evict"]
    BY <1>13, ZenonT(30) DEF evict_one, TypeOK
  <2> QED
    BY <1>13, <2>1 DEF evict_one, Holding, Stays, PathInv
<1> QED
  BY <1>3, <1>4, <1>5, <1>6, <1>7, <1>8, <1>9, <1>10, <1>11, <1>12, <1>13 DEF Work

(* A thread is in a memory check only in set, incr or decr.                *)
LEMMA NextPath ==
  ASSUME TypeOK, PathInv, [Next]_vars
  PROVE  PathInv'
<1>1. ASSUME NEW c \in Clients, \E r \in Requests : Begin(c, r)
      PROVE  PathInv'
  BY <1>1 DEF Begin, PathInv, TypeOK, Cmd
<1>2. ASSUME NEW c \in Clients, Acquire(c)
      PROVE  PathInv'
  BY <1>2 DEF Acquire, PathInv, TypeOK, Cmd, UpdateCmds
<1>3. ASSUME NEW c \in Clients, Work(c)
      PROVE  PathInv'
  <2>1. CASE Stays(c)
    BY <2>1 DEF Stays, PathInv, TypeOK, Cmd
  <2>2. CASE Leaves(c)
    BY <2>2 DEF Leaves, PathInv, TypeOK, Cmd
  <2> QED
    BY <1>3, <2>1, <2>2, WorkShape
<1>4. CASE UNCHANGED <<pc, req>>
  BY <1>4 DEF PathInv, Cmd
<1>5. Tick \/ background_sweeper \/ (\E c \in Clients, b \in MemLimits : set_max_memory(c, b))
        \/ UNCHANGED vars => UNCHANGED <<pc, req>>
  BY DEF Tick, background_sweeper, sweep_wake, sweep_try, sweep_entry, sweep_unlock, 
         SweepFrame, set_max_memory, vars
<1> QED
  BY <1>1, <1>2, <1>3, <1>4, <1>5 DEF Next

(* The mutex invariant.                                                    *)

ClientLocks == \A c \in Clients, s \in Shards :
                 lock[s] = c <=> pc[c] \in Holding /\ ShardOf[Key(c)] = s
SweepLocks == \A s \in Shards : lock[s] = Sweeper <=> sweep.pc = "scan" /\ sweep.shard = s

(* Every step preserves the mutual exclusion of the shards.                *)
LEMMA NextMutex ==
  ASSUME TypeOK, PathInv, MutexInv, [Next]_vars
  PROVE  MutexInv'
<1> SUFFICES ClientLocks' /\ SweepLocks'
  BY DEF MutexInv, ClientLocks, SweepLocks
<1>0. ClientLocks /\ SweepLocks
  BY DEF MutexInv, ClientLocks, SweepLocks
<1> USE <1>0
<1>a. Free # Sweeper /\ Free \notin Clients /\ Sweeper \notin Clients
  BY EngineAssumption DEF Free, Sweeper
<1>b. /\ lock \in [Shards -> Clients \cup {Free, Sweeper}]
      /\ pc \in [Clients -> {"idle", "wait"} \cup Holding]
      /\ DOMAIN req = Clients
  BY DEF TypeOK
<1>1. ASSUME NEW c \in Clients, \E r \in Requests : Begin(c, r)
      PROVE  ClientLocks' /\ SweepLocks'
  BY <1>1, <1>b, SMT DEF Begin, ClientLocks, SweepLocks, Key, Holding
<1>2. ASSUME NEW c \in Clients, Acquire(c)
      PROVE  ClientLocks' /\ SweepLocks'
  <2>1. ShardOf[Key(c)] \in Shards
    BY <1>2, KeyType DEF Acquire
  <2>2. pc'[c] \in Holding /\ pc[c] \notin Holding
    BY <1>2, <1>b DEF Acquire, Holding
  <2> QED
    BY <1>2, <1>a, <1>b, <2>1, <2>2, SMT DEF Acquire, ClientLocks, SweepLocks, Key
<1>3. ASSUME NEW c \in Clients, Work(c)
      PROVE  ClientLocks' /\ SweepLocks'
  <2>1. /\ ShardOf[Key(c)] \in Shards /\ pc[c] \in Holding
        /\ UNCHANGED sweep
        /\ Stays(c) \/ Leaves(c)
    BY <1>3, WorkShape, KeyType DEF Holding
  <2>2. lock[ShardOf[Key(c)]] = c
    BY <2>1 DEF ClientLocks
  <2>3. CASE Stays(c)
    BY <1>b, <2>1, <2>3, SMT DEF Stays, ClientLocks, SweepLocks, Key, Holding
  <2>4. CASE Leaves(c)
    <3>1. pc'[c] \notin Holding
      BY <1>b, <2>4 DEF Leaves, Holding
    <3>2. lock' = [lock EXCEPT ![ShardOf[Key(c)]] = Free]
      BY <2>4 DEF Leaves
    <3>3. SweepLocks'
      BY <1>a, <1>b, <2>1, <2>2, <3>2 DEF SweepLocks
    <3>4. ASSUME NEW d \in Clients, d # c
          PROVE  pc'[d] = pc[d] /\ Key(d)' = Key(d)
      BY <1>b, <2>4, <3>4 DEF Leaves, Key
    <3>5. ASSUME NEW d \in Clients, NEW s \in Shards
          PROVE  lock'[s] = d <=> pc'[d] \in Holding /\ ShardOf[Key(d)'] = s
      <4>1. CASE d = c
        BY <1>a, <1>b, <2>1, <2>2, <3>1, <3>2, <4>1, SMT DEF ClientLocks
      <4>2. CASE d # c
        BY <1>a, <1>b, <2>1, <2>2, <3>2, <3>4, <4>2, SMT DEF ClientLocks
      <4> QED
        BY <4>1, <4>2
    <3> QED
      BY <3>3, <3>5 DEF ClientLocks
  <2> QED
    BY <2>1, <2>3, <2>4
<1>4. ASSUME background_sweeper
      PROVE  ClientLocks' /\ SweepLocks'
  <2>1. UNCHANGED <<pc, req>>
    BY <1>4 DEF background_sweeper, sweep_wake, sweep_try, sweep_entry, sweep_unlock, SweepFrame
  <2>2. sweep.pc # "sleep" => sweep \in Awake /\ sweep.shard \in Shards
    <3>1. sweep \in Awake \cup {Asleep}
      BY DEF TypeOK
    <3>2. sweep.pc # "sleep" => sweep \in Awake
      BY <3>1, SMT DEF Asleep
    <3> QED
      BY <3>2 DEF Awake
  <2>3. NextShard.pc # "scan"
    <3>1. [sweep EXCEPT !.pc = "try", !.shard = @ + 1, !.todo = {}].pc # "scan" \/ sweep.pc = "sleep"
      BY <2>2 DEF Awake
    <3>2. sweep.pc = "sleep" => sweep = Asleep
      BY DEF TypeOK, Awake
    <3> QED
      BY <3>1, <3>2 DEF NextShard, Asleep
  <2>4. CASE sweep_wake
    BY <2>1, <2>4 DEF sweep_wake, ClientLocks, SweepLocks, Key
  <2>5. CASE sweep_try
    <3>1. CASE lock[sweep.shard] # Free
      <4>1. sweep' = NextShard /\ lock' = lock /\ sweep.pc = "try"
        BY <2>5, <3>1 DEF sweep_try
      <4> QED
        BY <2>1, <2>3, <4>1 DEF ClientLocks, SweepLocks, Key
    <3>2. CASE lock[sweep.shard] = Free
      <4>1. sweep'.pc = "scan" /\ sweep'.shard = sweep.shard /\ sweep.shard \in Shards
        BY <2>2, <2>5, <3>2 DEF sweep_try, Awake
      <4>2. lock' = [lock EXCEPT ![sweep.shard] = Sweeper] /\ sweep.pc = "try"
        BY <2>5, <3>2 DEF sweep_try
      <4> QED
        BY <1>a, <1>b, <2>1, <3>2, <4>1, <4>2, SMT DEF ClientLocks, SweepLocks, Key
    <3> QED
      BY <3>1, <3>2
  <2>6. CASE sweep_unlock
    BY <1>a, <1>b, <2>1, <2>2, <2>3, <2>6, SMT DEF sweep_unlock, ClientLocks, SweepLocks, Key
  <2>7. CASE \E k \in Keys : sweep_entry(k)
    <3>1. sweep'.pc = sweep.pc /\ sweep'.shard = sweep.shard
      BY <2>2, <2>7 DEF sweep_entry, Awake
    <3> QED
      BY <2>1, <2>7, <3>1, SMT DEF sweep_entry, ClientLocks, SweepLocks, Key
  <2> QED
    BY <1>4, <2>4, <2>5, <2>6, <2>7 DEF background_sweeper
<1>5. CASE UNCHANGED <<lock, pc, req, sweep>>
  BY <1>5, ZenonT(30) DEF ClientLocks, SweepLocks, Key
<1>6. Tick \/ (\E c \in Clients, b \in MemLimits : set_max_memory(c, b)) \/ UNCHANGED vars
        => UNCHANGED <<lock, pc, req, sweep>>
  BY DEF Tick, set_max_memory, vars
<1> QED
  BY <1>1, <1>2, <1>3, <1>4, <1>5, <1>6 DEF Next

(* The engine's variables keep their types, whatever the number of         *)
(* threads, keys and shards, and the mutexes exclude: no path through a    *)
(* method forgets its mutex or releases another thread's.                  *)
THEOREM TypeAndMutex == Spec => [](TypeOK /\ MutexInv)
<1> DEFINE I == TypeOK /\ PathInv /\ MutexInv
<1>1. Init => I
  <2> SUFFICES ASSUME Init PROVE PathInv /\ MutexInv
    BY InitTypeOK
  <2>1. \A c \in Clients : pc[c] = "idle"
    BY DEF Init
  <2>2. Free \notin Clients /\ Free # Sweeper
    BY EngineAssumption DEF Free, Sweeper
  <2> QED
    BY <2>1, <2>2 DEF Init, PathInv, MutexInv, Holding, Asleep
<1>2. I /\ [Next]_vars => I'
  BY NextType, NextPath, NextMutex
<1> QED
  BY <1>1, <1>2, PTL DEF Spec

(* The types alone: the byte counter never leaves the range of size_t, and *)
(* no statistic or timestamp that of its type, evictions included.         *)
THEOREM TypesHold == Spec => []TypeOK
BY TypeAndMutex, PTL

-----------------------------------------------------------------------------
(* The clock readings, the limit and the sweeper.                          *)

(* A clock reading is never ahead of the clock.                            *)
ClockInv ==
  /\ \A c \in Clients : tnow[c] <= clock
  /\ sweep.now <= clock

(* A thread evicts only after a limit has been configured.                 *)
LimitInv ==
  /\ max > 0 => limited
  /\ \A c \in Clients : pc[c] = "evict" => limited

(* What the sweeper has still to look at is in the shard it has locked.    *)
SweepInv == \A k \in sweep.todo : sweep.pc = "scan" /\ ShardOf[k] = sweep.shard

Inv == TypeOK /\ PathInv /\ MutexInv /\ ClockInv /\ LimitInv /\ SweepInv

(* Nobody holds a clock reading from the future.                           *)
LEMMA NextClock ==
  ASSUME TypeOK, PathInv, ClockInv, [Next]_vars
  PROVE  ClockInv'
<1>0. clock \in Nat /\ sweep.now \in Nat /\ \A c \in Clients : tnow[c] \in Nat
  BY TimeInNat, SMT DEF TypeOK, Awake, Asleep
<1>1. ASSUME NEW c \in Clients, \E r \in Requests : Begin(c, r)
      PROVE  ClockInv'
  BY <1>0, <1>1, SMT DEF Begin, ClockInv, TypeOK
<1>2. ASSUME NEW c \in Clients, Work(c)
      PROVE  ClockInv'
  <2>1. /\ UNCHANGED <<clock, sweep>>
        /\ UNCHANGED tnow \/ tnow' = [tnow EXCEPT ![c] = 0]
    BY <1>2, WorkShape DEF Stays, Leaves
  <2>2. \A d \in Clients : tnow'[d] \in {0, tnow[d]}
    BY <2>1 DEF TypeOK
  <2> QED
    BY <1>0, <2>1, <2>2, SMT DEF ClockInv
<1>3. CASE background_sweeper
  <2>1. UNCHANGED <<clock, tnow>>
    BY <1>3 DEF background_sweeper, sweep_wake, sweep_try, sweep_entry, sweep_unlock, SweepFrame
  <2>2. sweep.pc # "sleep" => sweep \in Awake
    BY SMT DEF TypeOK, Asleep
  <2>3. sweep'.now \in {0, clock, sweep.now}
    <3>1. sweep.pc # "sleep" => NextShard.now \in {0, sweep.now}
      BY <2>2 DEF NextShard, Asleep, Awake
    <3>2. CASE sweep_wake
      BY <3>2 DEF sweep_wake
    <3>3. CASE sweep_try
      BY <2>2, <3>1, <3>3 DEF sweep_try, Awake
    <3>4. CASE sweep_unlock
      BY <3>1, <3>4 DEF sweep_unlock
    <3>5. CASE \E k \in Keys : sweep_entry(k)
      BY <2>2, <3>5 DEF sweep_entry, Awake
    <3> QED
      BY <1>3, <3>2, <3>3, <3>4, <3>5 DEF background_sweeper
  <2> QED
    BY <1>0, <2>1, <2>3, SMT DEF ClockInv
<1>4. CASE Tick
  BY <1>0, <1>4, SMT DEF Tick, ClockInv
<1>5. CASE UNCHANGED <<clock, tnow, sweep>>
  BY <1>5 DEF ClockInv
<1>6. (\E c \in Clients : Acquire(c) \/ \E b \in MemLimits : set_max_memory(c, b))
        \/ UNCHANGED vars => UNCHANGED <<clock, tnow, sweep>>
  BY DEF Acquire, set_max_memory, vars
<1> QED
  BY <1>1, <1>2, <1>3, <1>4, <1>5, <1>6 DEF Next

(* Eviction happens only once a limit has been set.                        *)
LEMMA NextLimit ==
  ASSUME TypeOK, PathInv, LimitInv, [Next]_vars
  PROVE  LimitInv'
<1>1. ASSUME NEW c \in Clients, \E r \in Requests : Begin(c, r)
      PROVE  LimitInv'
  BY <1>1, SMT DEF Begin, LimitInv, TypeOK
<1>2. ASSUME NEW c \in Clients, NEW b \in MemLimits, set_max_memory(c, b)
      PROVE  LimitInv'
  BY <1>2 DEF set_max_memory, LimitInv, TypeOK
<1>3. ASSUME NEW c \in Clients, Acquire(c)
      PROVE  LimitInv'
  BY <1>3 DEF Acquire, LimitInv, TypeOK
<1>4. ASSUME NEW c \in Clients, Work(c)
      PROVE  LimitInv'
  <2>1. UNCHANGED <<max, limited>>
    BY <1>4, WorkShape
  <2>2. \A d \in Clients \ {c} : pc'[d] = pc[d]
    BY <1>4, WorkShape, SMTT(30) DEF Stays, Leaves, TypeOK
  <2>3. pc'[c] = "evict" => limited
    <3>1. CASE check_memory(c)
      BY <3>1 DEF check_memory, LimitInv, TypeOK
    <3>2. CASE \E k \in Keys : evict_one(c, k)
      BY <3>2 DEF evict_one, LimitInv
    <3>3. CASE Leaves(c)
      BY <3>3 DEF Leaves, TypeOK
    <3>4. CASE load_usage(c) \/ evict_done(c) \/ incr_parse(c)
      BY <3>4 DEF load_usage, evict_done, incr_parse, Return, TypeOK
    <3>5. \/ check_memory(c) \/ load_usage(c) \/ evict_done(c) \/ incr_parse(c)
          \/ \E k \in Keys : evict_one(c, k)
          \/ Leaves(c)
      <4>1. get(c) \/ exists(c) \/ del(c) \/ expire(c) \/ pttl(c) \/ persist(c) \/ commit(c)
              => pc'[c] \in {"idle", "wait"}
        BY DEF get, exists, del, expire, pttl, persist, commit, Lookup, CountKey, Return, TypeOK
      <4>2. Stays(c) => pc'[c] \notin {"idle", "wait"}
        BY DEF Stays, TypeOK
      <4> QED
        BY <1>4, <4>1, <4>2, WorkShape DEF Work
    <3> QED
      BY <3>1, <3>2, <3>3, <3>4, <3>5
  <2> QED
    BY <2>1, <2>2, <2>3 DEF LimitInv
<1>5. CASE UNCHANGED <<max, limited, pc>>
  BY <1>5 DEF LimitInv
<1>6. Tick \/ background_sweeper \/ UNCHANGED vars => UNCHANGED <<max, limited, pc>>
  BY DEF Tick, background_sweeper, sweep_wake, sweep_try, sweep_entry, sweep_unlock, 
         SweepFrame, vars
<1> QED
  BY <1>1, <1>2, <1>3, <1>4, <1>5, <1>6 DEF Next

(* The sweeper only looks at entries of the shard it has locked.           *)
LEMMA NextSweep ==
  ASSUME TypeOK, PathInv, SweepInv, [Next]_vars
  PROVE  SweepInv'
<1>1. CASE UNCHANGED sweep
  BY <1>1 DEF SweepInv
<1>2. CASE background_sweeper
  <2>1. sweep.pc # "sleep" => sweep \in Awake
    BY SMT DEF TypeOK, Asleep
  <2>2. sweep.pc # "sleep" => NextShard.todo = {}
    BY <2>1 DEF NextShard, Asleep, Awake
  <2>3. CASE sweep_wake
    BY <2>3 DEF sweep_wake, SweepInv
  <2>4. CASE sweep_try
    <3>1. CASE sweep' = NextShard
      BY <2>2, <2>4, <3>1 DEF sweep_try, SweepInv
    <3>2. CASE \E batch \in SUBSET ShardKeys(sweep.shard) :
                 sweep' = [sweep EXCEPT !.pc = "scan", !.todo = batch]
      <4>1. PICK batch \in SUBSET ShardKeys(sweep.shard) :
                   sweep' = [sweep EXCEPT !.pc = "scan", !.todo = batch]
        BY <3>2, ZenonT(30)
      <4>2. sweep \in Awake
        BY <2>1, <2>4 DEF sweep_try
      <4>3. sweep'.pc = "scan" /\ sweep'.todo = batch /\ sweep'.shard = sweep.shard
        BY <4>1, <4>2 DEF Awake
      <4>4. \A k \in batch : ShardOf[k] = sweep.shard
        BY DEF ShardKeys
      <4> QED
        BY <4>3, <4>4 DEF SweepInv
    <3> QED
      BY <2>4, <3>1, <3>2, ZenonT(30) DEF sweep_try
  <2>5. CASE sweep_unlock
    BY <2>2, <2>5 DEF sweep_unlock, SweepInv
  <2>6. CASE \E k \in Keys : sweep_entry(k)
    BY <2>1, <2>6, SMT DEF sweep_entry, SweepInv, Awake
  <2> QED
    BY <1>2, <2>3, <2>4, <2>5, <2>6 DEF background_sweeper
<1>3. Tick \/ (\E c \in Clients : Acquire(c) \/ Work(c) \/ (\E b \in MemLimits : set_max_memory(c, b))
                                  \/ \E r \in Requests : Begin(c, r))
        \/ UNCHANGED vars => UNCHANGED sweep
  BY WorkShape DEF Tick, Acquire, set_max_memory, Begin, vars
<1> QED
  BY <1>1, <1>2, <1>3 DEF Next

(* The inductive invariant holds in the initial state.                     *)
LEMMA InitInv == Init => Inv
<1> SUFFICES ASSUME Init PROVE Inv
  OBVIOUS
<1>1. \A c \in Clients : pc[c] = "idle"
  BY DEF Init
<1>2. Free \notin Clients /\ Free # Sweeper
  BY EngineAssumption DEF Free, Sweeper
<1>3. PathInv /\ MutexInv
  BY <1>1, <1>2 DEF Init, PathInv, MutexInv, Holding, Asleep
<1>4. ClockInv /\ LimitInv /\ SweepInv
  BY <1>1, SMT DEF Init, ClockInv, LimitInv, SweepInv, Asleep
<1> QED
  BY <1>3, <1>4, InitTypeOK DEF Inv

(* The inductive invariant.                                                *)
THEOREM InvHolds == Spec => []Inv
<1>1. Inv /\ [Next]_vars => Inv'
  BY NextType, NextPath, NextMutex, NextClock, NextLimit, NextSweep DEF Inv
<1> QED
  BY <1>1, InitInv, PTL DEF Spec

-----------------------------------------------------------------------------
(* How a thread's step changes the dictionary.                             *)

Drops(c, k) == dict' = [dict EXCEPT ![k] = NoEntry]
Writes(c) == \E e \in DictEntry : dict' = [dict EXCEPT ![Key(c)] = e]

(* How a step inside a method can change the dictionary.                   *)
LEMMA WorkDict ==
  ASSUME TypeOK, PathInv, NEW c \in Clients, Work(c)
  PROVE  \/ dict' = dict
         \/ Writes(c)
         \/ Drops(c, Key(c)) /\ Lapsed(Key(c), tnow[c])
         \/ Drops(c, Key(c)) /\ pc[c] = "body" /\ Cmd(c) = "DEL"
         \/ \E k \in Keys : /\ Drops(c, k) /\ pc[c] = "evict"
                            /\ ShardOf[k] = ShardOf[Key(c)]
<1>1. Key(c) \in Keys
  BY WorkShape, KeyType DEF Holding
<1> USE DEF Drops
<1>2. CASE get(c) \/ exists(c)
  BY <1>2 DEF get, exists, Lookup, KeepDict, Erase
<1>3. CASE del(c)
  BY <1>3 DEF del, KeepDict, Erase, InBody
<1>4. CASE pttl(c) \/ incr_parse(c)
  BY <1>4 DEF pttl, incr_parse, KeepDict, Erase
<1>5. CASE expire(c) \/ persist(c)
  BY <1>5, TtlWrites DEF KeepDict, Erase, Writes
<1>6. CASE load_usage(c) \/ check_memory(c) \/ evict_done(c)
  BY <1>6 DEF load_usage, check_memory, evict_done
<1>7. CASE commit(c)
  BY <1>7, CommitWrites DEF PathInv, commit, Writes
<1>8. CASE \E k \in Keys : evict_one(c, k)
  BY <1>8 DEF evict_one, Erase, ShardKeys
<1> QED
  BY <1>2, <1>3, <1>4, <1>5, <1>6, <1>7, <1>8, ZenonT(30) DEF Work

(* Lapsed at an earlier reading is lapsed now.                             *)
LEMMA LapsedNow ==
  ASSUME TypeOK, NEW k \in Keys, NEW t \in Nat, t <= clock, Lapsed(k, t)
  PROVE  Lapsed(k, clock)
<1>1. dict[k].exp \in Nat
  BY EntryType, TimeInNat DEF Lapsed, Expired, Present, DictEntry
<1>2. clock \in Nat
  BY TimeInNat DEF TypeOK
<1> QED
  BY <1>1, <1>2, SMT DEF Lapsed, Expired

(* A step that takes a live key without a limit is a DEL of that key.      *)
LEMMA NoLossStep ==
  ASSUME Inv, [Next]_vars, NEW k \in Keys, ~limited,
         Present(k), ~Lapsed(k, clock), ~Present(k)'
  PROVE  \E c \in Clients : pc[c] = "body" /\ Cmd(c) = "DEL" /\ Key(c) = k
<1> USE DEF Inv
<1>1. dict'[k] # dict[k]
  BY DEF Present
<1>2. ASSUME NEW c \in Clients, Work(c)
      PROVE  pc[c] = "body" /\ Cmd(c) = "DEL" /\ Key(c) = k
  <2>1. tnow[c] \in Nat /\ tnow[c] <= clock
    BY TimeInNat DEF TypeOK, ClockInv
  <2>2. Key(c) \in Keys
    BY <1>2, WorkShape, KeyType DEF Holding
  <2>3. ~Writes(c)
    <3> SUFFICES ASSUME NEW e \in DictEntry, dict' = [dict EXCEPT ![Key(c)] = e]
                 PROVE  FALSE
      BY DEF Writes
    <3>1. dict'[k] \in {e, dict[k]}
      BY <2>2 DEF TypeOK
    <3> QED
      BY <3>1, NoDictEntryAssumption DEF Present
  <2>4. ~(Drops(c, Key(c)) /\ Lapsed(Key(c), tnow[c]))
    <3> SUFFICES ASSUME Drops(c, Key(c)), Lapsed(Key(c), tnow[c])
                 PROVE  FALSE
      OBVIOUS
    <3>1. Key(c) = k
      BY <1>1, <2>2 DEF Drops, TypeOK
    <3> QED
      BY <2>1, <3>1, LapsedNow
  <2>5. pc[c] # "evict"
    BY DEF LimitInv
  <2>6. Drops(c, Key(c)) /\ pc[c] = "body" /\ Cmd(c) = "DEL"
    BY <1>1, <1>2, <2>3, <2>4, <2>5, WorkDict
  <2> QED
    BY <1>1, <2>2, <2>6 DEF Drops, TypeOK
<1>3. ~background_sweeper
  <2>1. ASSUME NEW j \in Keys, sweep_entry(j)
        PROVE  FALSE
    <3>1. dict' = [dict EXCEPT ![j] = NoEntry] /\ Lapsed(j, sweep.now)
      BY <1>1, <2>1 DEF sweep_entry, Erase, KeepDict
    <3>2. j = k
      BY <1>1, <3>1 DEF TypeOK
    <3>3. sweep.now \in Nat /\ sweep.now <= clock
      BY TimeInNat, SMT DEF TypeOK, Awake, Asleep, ClockInv
    <3> QED
      BY <3>1, <3>2, <3>3, LapsedNow
  <2> QED
    BY <1>1, <2>1 DEF background_sweeper, sweep_wake, sweep_try, sweep_unlock
<1>4. \E c \in Clients : Work(c)
  BY <1>1, <1>3 DEF Next, Begin, set_max_memory, Acquire, Tick, vars
<1> QED
  BY <1>2, <1>4

(* Without a memory limit the engine loses no live key: whichever thread   *)
(* erases and whatever clock reading it uses, an entry that has not        *)
(* expired goes only by a DEL of its key.                                  *)
THEOREM LiveKeysStay == Spec => NoLiveKeyLost
<1> DEFINE Kept == \A k \in Keys :
                     (Present(k) /\ ~Expired(dict[k], clock) /\ ~Present(k)' /\ ~limited)
                       => \E c \in Clients : pc[c] = "body" /\ Cmd(c) = "DEL" /\ Key(c) = k
<1>1. Inv /\ [Next]_vars => [Kept]_vars
  BY NoLossStep DEF Lapsed
<1> QED
  BY <1>1, InvHolds, PTL DEF Spec, NoLiveKeyLost

-----------------------------------------------------------------------------
(* No lost update.                                                         *)

Updating(c) == pc[c] \in {"load", "check", "evict", "commit"} /\ Cmd(c) \in {"INCR", "DECR"}
Fresh(c) ==
  LET e == dict[Key(c)] IN
  \/ e = NoEntry /\ (limited \/ (loc[c].val = 0 /\ loc[c].exp = 0))
  \/ e # NoEntry /\ e.val = loc[c].val /\ e.exp = loc[c].exp

(* A thread writes only its own locals.                                    *)
LEMMA WorkLoc ==
  ASSUME TypeOK, NEW c \in Clients, Work(c), NEW d \in Clients, d # c
  PROVE  loc'[d] = loc[d]
<1>1. ASSUME NEW a, Return(c, a) PROVE loc'[d] = loc[d]
  BY <1>1 DEF Return, TypeOK
<1>2. ASSUME NEW b, CountKey(c, b) PROVE loc'[d] = loc[d]
  BY <1>1, <1>2 DEF CountKey, TypeOK
<1>3. CASE get(c) \/ exists(c) \/ del(c)
  BY <1>1, <1>2, <1>3 DEF get, exists, del, Lookup
<1>4. CASE expire(c) \/ pttl(c) \/ persist(c)
  BY <1>1, <1>4 DEF expire, pttl, persist
<1>5. CASE incr_parse(c)
  BY <1>1, <1>5 DEF incr_parse, TypeOK
<1>6. CASE load_usage(c) \/ check_memory(c)
  BY <1>6 DEF load_usage, check_memory, TypeOK
<1>7. CASE evict_done(c) \/ commit(c)
  BY <1>1, <1>7 DEF evict_done, commit
<1>8. CASE \E k \in Keys : evict_one(c, k)
  BY <1>8 DEF evict_one, TypeOK
<1> QED
  BY <1>3, <1>4, <1>5, <1>6, <1>7, <1>8 DEF Work

(* The thread's own step.                                                  *)
LEMMA FreshOwn ==
  ASSUME Inv, NEW c \in Clients, Work(c), Updating(c) => Fresh(c), Updating(c)'
  PROVE  Fresh(c)'
<1> USE DEF Inv
<1>1. Key(c) \in Keys /\ pc[c] \in Holding /\ limited' = limited
  BY WorkShape, KeyType DEF Holding
<1>2. Stays(c) /\ req'[c] = req[c] /\ Key(c)' = Key(c) /\ Cmd(c)' = Cmd(c)
  BY WorkShape, ZenonT(30) DEF Leaves, Stays, Updating, TypeOK, Key, Cmd
<1>3. pc'[c] \in {"load", "check", "evict", "commit"} /\ Cmd(c) \in {"INCR", "DECR"}
  BY <1>2 DEF Updating
<1>4. loc[c] \in Locals
  BY LocType
<1>5. CASE incr_parse(c)
  <2>0. ASSUME NEW v, NEW t, loc' = [loc EXCEPT ![c].val = v, ![c].exp = t]
        PROVE  loc'[c].val = v /\ loc'[c].exp = t
    <3>1. loc'[c] = [loc[c] EXCEPT !.val = v, !.exp = t]
      BY <2>0 DEF TypeOK
    <3> QED
      BY <1>4, <3>1 DEF Locals
  <2>1. CASE ~Present(Key(c))
    <3>1. loc'[c].val = 0 /\ loc'[c].exp = 0 /\ dict' = dict
      BY <1>5, <2>0, <2>1, ZenonT(30) DEF incr_parse, Present, Lapsed, Expired, KeepDict
    <3> QED
      BY <1>2, <2>1, <3>1 DEF Fresh, Present
  <2>2. CASE Present(Key(c)) /\ Lapsed(Key(c), tnow[c])
    <3>1. loc'[c].val = 0 /\ loc'[c].exp = 0 /\ dict' = [dict EXCEPT ![Key(c)] = NoEntry]
      BY <1>5, <2>0, <2>2 DEF incr_parse, Erase
    <3>2. dict'[Key(c)] = NoEntry
      BY <1>1, <3>1 DEF TypeOK
    <3> QED
      BY <1>2, <3>1, <3>2 DEF Fresh
  <2>3. CASE Present(Key(c)) /\ ~Lapsed(Key(c), tnow[c])
    <3>1. pc'[c] # "idle"
      BY <1>3
    <3>2. dict' = dict /\ loc' = [loc EXCEPT ![c].val = dict[Key(c)].val, ![c].exp = dict[Key(c)].exp]
      BY <1>5, <2>3, <3>1 DEF incr_parse, Return, TypeOK, KeepDict
    <3>3. loc'[c].val = dict[Key(c)].val /\ loc'[c].exp = dict[Key(c)].exp
      BY <2>0, <3>2, ZenonT(30)
    <3> QED
      BY <1>2, <2>3, <3>2, <3>3 DEF Fresh, Present
  <2> QED
    BY <2>1, <2>2, <2>3
<1>6. CASE ~incr_parse(c)
  <2>1. /\ pc[c] \in {"load", "check", "evict"}
        /\ loc'[c].val = loc[c].val /\ loc'[c].exp = loc[c].exp
        /\ \/ dict' = dict
           \/ pc[c] = "evict" /\ \E k \in Keys : dict' = [dict EXCEPT ![k] = NoEntry]
    <3>1. CASE load_usage(c)
      BY <1>4, <3>1 DEF load_usage, TypeOK, Locals
    <3>5. CASE check_memory(c)
      <4>1. PICK n : \/ loc' = [loc EXCEPT ![c].lim = max, ![c].need = n]
                     \/ loc' = [loc EXCEPT ![c].lim = max]
        BY <3>5 DEF check_memory
      <4>2. \/ loc'[c] = [loc[c] EXCEPT !.lim = max, !.need = n]
            \/ loc'[c] = [loc[c] EXCEPT !.lim = max]
        BY <4>1 DEF TypeOK
      <4>3. loc'[c].val = loc[c].val /\ loc'[c].exp = loc[c].exp
        BY <1>4, <4>2 DEF Locals
      <4> QED
        BY <3>5, <4>3 DEF check_memory
    <3>2. CASE evict_done(c)
      BY <1>3, <3>2 DEF evict_done, Return, TypeOK
    <3>3. CASE \E k \in Keys : evict_one(c, k)
      <4>1. PICK k \in Keys : evict_one(c, k)
        BY <3>3
      <4>2. PICK n : loc'[c] = [loc[c] EXCEPT !.freed = n]
        BY <4>1 DEF evict_one, TypeOK
      <4>3. loc'[c].val = loc[c].val /\ loc'[c].exp = loc[c].exp
        BY <1>4, <4>2 DEF Locals
      <4> QED
        BY <4>1, <4>3 DEF evict_one, Erase
    <3>4. get(c) \/ exists(c) \/ del(c) \/ expire(c) \/ pttl(c) \/ persist(c) \/ commit(c)
            => pc'[c] \in {"idle", "wait"}
      BY ZenonT(30) DEF get, exists, del, expire, pttl, persist, commit, Lookup, CountKey, Return, TypeOK
    <3> QED
      BY <1>3, <1>6, <3>1, <3>2, <3>3, <3>4, <3>5 DEF Work
  <2>2. Fresh(c)
    BY <1>3, <2>1 DEF Updating
  <2>3. CASE dict' = dict
    BY <1>1, <1>2, <2>1, <2>2, <2>3 DEF Fresh
  <2>4. CASE pc[c] = "evict" /\ \E k \in Keys : dict' = [dict EXCEPT ![k] = NoEntry]
    <3>1. limited
      BY <2>4 DEF LimitInv
    <3>2. dict'[Key(c)] \in {NoEntry, dict[Key(c)]}
      BY <1>1, <2>4 DEF TypeOK
    <3> QED
      BY <1>1, <1>2, <2>1, <2>2, <3>1, <3>2 DEF Fresh
  <2> QED
    BY <2>1, <2>3, <2>4
<1> QED
  BY <1>5, <1>6

(* Another thread's step: it is in another shard.                          *)
LEMMA FreshOther ==
  ASSUME Inv, NEW c \in Clients, NEW d \in Clients, d # c, Work(d),
         Updating(c) => Fresh(c), Updating(c)'
  PROVE  Fresh(c)'
<1> USE DEF Inv
<1>1. pc'[c] = pc[c] /\ req'[c] = req[c] /\ loc'[c] = loc[c] /\ limited' = limited
  <2>1. pc'[c] = pc[c] /\ req'[c] = req[c]
    <3>1. CASE Stays(d)
      BY <3>1 DEF Stays, TypeOK
    <3>2. CASE Leaves(d)
      BY <3>2 DEF Leaves, TypeOK
    <3> QED
      BY <3>1, <3>2, WorkShape
  <2> QED
    BY <2>1, WorkShape, WorkLoc
<1>2. Updating(c) /\ Fresh(c) /\ Key(c)' = Key(c)
  BY <1>1 DEF Updating, Cmd, Key
<1>3. pc[c] \in Holding /\ pc[d] \in Holding
  BY <1>2, WorkShape DEF Updating, Holding
<1>4. /\ Key(c) \in Keys /\ ShardOf[Key(c)] \in Shards
      /\ Key(d) \in Keys /\ ShardOf[Key(d)] \in Shards
  BY <1>3, KeyType DEF Holding
<1>5. ShardOf[Key(c)] # ShardOf[Key(d)]
  BY <1>3, <1>4, SMT DEF MutexInv
<1>6. \A k \in Keys : ShardOf[k] = ShardOf[Key(c)] => dict'[k] = dict[k]
  <2> SUFFICES ASSUME NEW k \in Keys, ShardOf[k] = ShardOf[Key(c)]
               PROVE  dict'[k] = dict[k]
    OBVIOUS
  <2>1. \/ dict' = dict
        \/ \E j \in Keys : \E e : ShardOf[j] = ShardOf[Key(d)] /\ dict' = [dict EXCEPT ![j] = e]
    BY <1>4, WorkDict DEF Writes, Drops
  <2> QED
    BY <1>5, <2>1 DEF TypeOK
<1> QED
  BY <1>1, <1>2, <1>4, <1>6 DEF Fresh

(* Every step keeps what incr and decr have parsed up to date.             *)
LEMMA NextFresh ==
  ASSUME Inv, NoLostUpdate, [Next]_vars
  PROVE  NoLostUpdate'
<1> USE DEF Inv
<1> SUFFICES ASSUME NEW c \in Clients, Updating(c)'
             PROVE  Fresh(c)'
  BY DEF NoLostUpdate, Updating, Fresh
<1>0. Updating(c) => Fresh(c)
  BY DEF NoLostUpdate, Updating, Fresh
<1>1. ASSUME NEW d \in Clients, Work(d)
      PROVE  Fresh(c)'
  BY <1>0, <1>1, FreshOwn, FreshOther
<1>2. CASE /\ pc'[c] = pc[c] /\ req'[c] = req[c] /\ loc'[c] = loc[c]
           /\ limited => limited'
           /\ Updating(c) => dict'[Key(c)] = dict[Key(c)]
  <2>1. Updating(c) /\ Fresh(c) /\ Key(c)' = Key(c)
    BY <1>0, <1>2 DEF Updating, Cmd, Key
  <2> QED
    BY <1>2, <2>1 DEF Fresh
<1>3. ASSUME NEW d \in Clients, \E r \in Requests : Begin(d, r)
      PROVE  Fresh(c)'
  <2>1. d # c
    BY <1>3 DEF Begin, Updating, TypeOK
  <2> QED
    BY <1>2, <1>3, <2>1, SMT DEF Begin, TypeOK
<1>4. ASSUME NEW d \in Clients, Acquire(d)
      PROVE  Fresh(c)'
  <2>1. d # c
    BY <1>4 DEF Acquire, Updating, TypeOK, Cmd
  <2> QED
    BY <1>2, <1>4, <2>1 DEF Acquire, TypeOK
<1>5. CASE background_sweeper
  <2>1. UNCHANGED <<pc, req, loc, limited>>
    BY <1>5 DEF background_sweeper, sweep_wake, sweep_try, sweep_entry, sweep_unlock, SweepFrame
  <2>2. Updating(c) => dict'[Key(c)] = dict[Key(c)]
    <3> SUFFICES ASSUME Updating(c), NEW k \in Keys, sweep_entry(k)
                 PROVE  dict'[Key(c)] = dict[Key(c)]
      BY <1>5, ZenonT(30) DEF background_sweeper, sweep_wake, sweep_try, sweep_unlock
    <3>1. Key(c) \in Keys /\ ShardOf[Key(c)] \in Shards /\ pc[c] \in Holding
      BY KeyType DEF Updating, Holding
    <3>2. sweep.pc = "scan" /\ ShardOf[k] = sweep.shard
      BY DEF SweepInv, sweep_entry
    <3>3. ShardOf[k] \in Shards
      BY EngineAssumption
    <3>4. lock[ShardOf[k]] = Sweeper /\ lock[ShardOf[Key(c)]] = c
      BY <3>1, <3>2, <3>3 DEF MutexInv
    <3>5. k # Key(c)
      BY <3>4, EngineAssumption DEF Sweeper
    <3>6. dict' = dict \/ dict' = [dict EXCEPT ![k] = NoEntry]
      BY DEF sweep_entry, Erase, KeepDict
    <3> QED
      BY <3>1, <3>5, <3>6 DEF TypeOK
  <2> QED
    BY <1>2, <2>1, <2>2
<1>6. CASE (\E d \in Clients, b \in MemLimits : set_max_memory(d, b)) \/ Tick \/ UNCHANGED vars
  <2>1. UNCHANGED <<pc, req, loc, dict>>
    BY <1>6 DEF set_max_memory, Tick, vars
  <2>2. limited => limited'
    BY <1>6 DEF set_max_memory, Tick, vars
  <2> QED
    BY <1>2, <2>1, <2>2
<1> QED
  BY <1>1, <1>3, <1>4, <1>5, <1>6 DEF Next

(* INCR and DECR lose no update, for any number of threads: the value a    *)
(* thread commits is computed from the entry that is in the dictionary at  *)
(* that moment, unless the thread has evicted the entry itself.            *)
THEOREM UpdatesStay == Spec => []NoLostUpdate
<1>1. Init => NoLostUpdate
  <2>1. Init => \A c \in Clients : pc[c] = "idle"
    BY DEF Init
  <2> QED
    BY <2>1 DEF NoLostUpdate
<1>2. Inv /\ NoLostUpdate /\ [Next]_vars => NoLostUpdate'
  BY NextFresh
<1> QED
  BY <1>1, <1>2, InvHolds, PTL DEF Spec

-----------------------------------------------------------------------------
(* What the others leave alone while a thread is in a method.              *)

(* While a thread holds the mutex of its key nobody else writes that key.  *)
LEMMA OthersKeep ==
  ASSUME Inv, [Next]_vars, NEW c \in Clients, pc[c] \in Holding, ~Work(c)
  PROVE  dict'[Key(c)] = dict[Key(c)]
<1> USE DEF Inv
<1>1. Key(c) \in Keys /\ ShardOf[Key(c)] \in Shards
  BY KeyType DEF Holding
<1>2. lock[ShardOf[Key(c)]] = c
  BY <1>1 DEF MutexInv
<1>3. ASSUME NEW d \in Clients, Work(d)
      PROVE  dict'[Key(c)] = dict[Key(c)]
  <2>1. d # c /\ pc[d] \in Holding
    BY <1>3, WorkShape
  <2>2. Key(d) \in Keys /\ ShardOf[Key(d)] \in Shards
    BY <2>1, KeyType DEF Holding
  <2>3. ShardOf[Key(c)] # ShardOf[Key(d)]
    BY <1>2, <2>1, <2>2 DEF MutexInv
  <2>4. \/ dict' = dict
        \/ \E j \in Keys : \E e : ShardOf[j] = ShardOf[Key(d)] /\ dict' = [dict EXCEPT ![j] = e]
    BY <1>3, <2>2, WorkDict DEF Writes, Drops
  <2> QED
    BY <1>1, <2>3, <2>4 DEF TypeOK
<1>4. ASSUME NEW k \in Keys, sweep_entry(k)
      PROVE  dict'[Key(c)] = dict[Key(c)]
  <2>1. sweep.pc = "scan" /\ ShardOf[k] = sweep.shard /\ ShardOf[k] \in Shards
    BY <1>4, EngineAssumption DEF SweepInv, sweep_entry
  <2>2. lock[ShardOf[k]] = Sweeper
    BY <2>1 DEF MutexInv
  <2>3. k # Key(c)
    BY <1>2, <2>2, EngineAssumption DEF Sweeper
  <2>4. dict' = dict \/ dict' = [dict EXCEPT ![k] = NoEntry]
    BY <1>4 DEF sweep_entry, Erase, KeepDict
  <2> QED
    BY <1>1, <2>3, <2>4 DEF TypeOK
<1>5. CASE dict' = dict
  BY <1>5
<1>6. \/ dict' = dict
      \/ \E d \in Clients : Work(d)
      \/ \E k \in Keys : sweep_entry(k)
  BY DEF Next, Begin, set_max_memory, Acquire, Tick, vars, background_sweeper,
               sweep_wake, sweep_try, sweep_unlock
<1> QED
  BY <1>3, <1>4, <1>5, <1>6

(* The steps of an update between parsing and committing keep what the     *)
(* thread has parsed.                                                      *)
LEMMA QuietLoc ==
  ASSUME TypeOK, NEW c \in Clients,
         \/ load_usage(c) \/ check_memory(c)
         \/ \E k \in Keys : evict_one(c, k)
  PROVE  /\ loc'[c].val = loc[c].val /\ loc'[c].exp = loc[c].exp
         /\ loc'[c].cnt = loc[c].cnt
         /\ load_usage(c) \/ loc'[c].old = loc[c].old
<1>0. loc[c] \in Locals
  BY LocType
<1>1. CASE load_usage(c)
  <2>1. PICK t, o : loc'[c] = [loc[c] EXCEPT !.cur = t, !.old = o]
    BY <1>1 DEF load_usage, TypeOK
  <2> QED
    BY <1>0, <1>1, <2>1 DEF Locals
<1>2. CASE check_memory(c)
  <2>1. PICK n : \/ loc'[c] = [loc[c] EXCEPT !.lim = max, !.need = n]
                 \/ loc'[c] = [loc[c] EXCEPT !.lim = max]
    <3>1. PICK n : \/ loc' = [loc EXCEPT ![c].lim = max, ![c].need = n]
                   \/ loc' = [loc EXCEPT ![c].lim = max]
      BY <1>2 DEF check_memory
    <3> QED
      BY <3>1 DEF TypeOK
  <2> QED
    BY <1>0, <2>1 DEF Locals
<1>3. CASE \E k \in Keys : evict_one(c, k)
  <2>1. PICK n : loc'[c] = [loc[c] EXCEPT !.freed = n]
    BY <1>3 DEF evict_one, TypeOK
  <2> QED
    BY <1>0, <2>1 DEF Locals
<1> QED
  BY <1>1, <1>2, <1>3
==============================================================================
