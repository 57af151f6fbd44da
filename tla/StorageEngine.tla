---------------------------- MODULE StorageEngine ----------------------------
(***************************************************************************)
(* storage/StorageEngine: a dictionary split into shards, each behind its  *)
(* own mutex; a relaxed atomic that counts the bytes of all shards; a      *)
(* memory limit enforced by evicting from the shard of the key being       *)
(* written; lazy expiry in every method and a background sweeper.          *)
(*                                                                         *)
(* A step is what a thread does up to its next access to memory another    *)
(* thread can see: the clock is read before the mutex is taken, and under  *)
(* the mutex total_memory_usage_ is loaded, reduced by each eviction and   *)
(* increased by the commit in separate steps.                              *)
(***************************************************************************)
EXTENDS KVOps, FiniteSets, FiniteSetsExt

CONSTANTS
  Clients,     \* connection threads and the replication worker
  Requests,    \* the calls they may make
  NoRequest,   \* a thread outside the engine
  NumShards,   \* shards_.size(), 16 in the program
  ShardOf,     \* get_shard_index, an arbitrary hash
  KeyCost,     \* key.capacity() + sizeof(DictEntry) + 32
  StrLen,      \* the length of a value as a string
  SSO,         \* capacity of a std::string without heap buffer, 15
  SizeMod,     \* 2^64, the modulus of size_t
  MemLimits,   \* the values CONFIG SET MAXMEMORY may store
  SweepBatch,  \* entries of a shard the sweeper looks at in one pass, 20
  MaxCalls,    \* bound: calls per client
  MaxTime      \* bound: the clock

Shards == 0 .. NumShards - 1
Free == "free"
Sweeper == "sweeper"
Counters == {"hits", "misses", "evicted", "expired"}

ASSUME EngineAssumption ==
  /\ \A r \in Requests : IsRequest(r)
  /\ ~IsRequest(NoRequest)
  /\ NumShards \in Nat \ {0}
  /\ ShardOf \in [Keys -> Shards]
  /\ KeyCost \in [Keys -> Nat \ {0}]
  /\ StrLen \in [Values -> Nat]
  /\ SSO \in Nat
  /\ SizeMod \in Nat \ {0}
  /\ MemLimits \subseteq 0 .. SizeMod - 1
  /\ SweepBatch \in Nat \ {0}
  /\ MaxCalls \in Nat
  /\ MaxTime \in 1 .. TimeMod - 1
  /\ Clients \cap {Free, Sweeper} = {}

VARIABLES
  dict,     \* the shards' dictionaries; a key belongs to ShardOf[key]
  lock,     \* who holds each Shard::mutex
  total,    \* total_memory_usage_
  max,      \* max_memory_bytes_, 0 is unlimited
  stats,    \* keyspace_hits_, keyspace_misses_, evicted_keys_, expired_keys_
  clock,    \* system_clock
  pc,       \* where each client thread is
  req,      \* its call, with the keys still to deal with
  tnow,     \* its local now
  loc,      \* its other locals
  ret,      \* what its last call returned
  calls,    \* calls begun (bounded)
  sweep,    \* the sweeper thread
  limited   \* history: max has been non-zero

vars == <<dict, lock, total, max, stats, clock, pc, req, tnow, loc, ret, calls,
          sweep, limited>>

-----------------------------------------------------------------------------
(* std::string capacities (libstdc++), which entry_cost charges for.       *)

FreshCap(v) == IF StrLen[v] <= SSO THEN SSO ELSE StrLen[v]

(* string::operator=(const string&): the old buffer is kept when the new   *)
(* value fits, and at least doubled when it does not.                      *)
CopyCap(cap, v) ==
  IF StrLen[v] <= cap THEN cap
  ELSE IF StrLen[v] < 2 * cap THEN 2 * cap ELSE StrLen[v]

(* string::operator=(string&&): a short string is copied into the old      *)
(* buffer, the buffer of a long one is taken over.                         *)
MoveCap(cap, v) == IF StrLen[v] <= SSO THEN cap ELSE StrLen[v]

entry_cost(k, cap) == KeyCost[k] + cap

(* size_t arithmetic.                                                      *)
Plus(a, b) == (a + b) % SizeMod
\* Mutant: the counter is a signed number.
SignedMinus(a, b) == a - b
Minus(a, b) == (a - b) % SizeMod

Caps == Nat
DictEntry == [val : Values, exp : Time, cap : Caps]
ASSUME NoDictEntryAssumption == NoEntry \notin DictEntry

Present(k) == dict[k] # NoEntry
ShardKeys(s) == {k \in Keys : ShardOf[k] = s /\ Present(k)}

Locals == [cnt : Nat, val : Ints, exp : Time, cur : 0 .. SizeMod - 1, old : Nat,
           lim : 0 .. SizeMod - 1, need : Nat, freed : Nat]
NoLocals == [cnt |-> 0, val |-> 0, exp |-> 0, cur |-> 0, old |-> 0,
             lim |-> 0, need |-> 0, freed |-> 0]
Awake == [pc : {"try", "scan"}, now : Time, shard : Shards, todo : SUBSET Keys]
Asleep == [pc |-> "sleep", now |-> 0, shard |-> 0, todo |-> {}]

Init ==
  /\ dict = [k \in Keys |-> NoEntry]
  /\ lock = [s \in Shards |-> Free]
  /\ total = 0
  /\ max = 0
  /\ stats = [f \in Counters |-> 0]
  /\ clock = 1
  /\ pc = [c \in Clients |-> "idle"]
  /\ req = [c \in Clients |-> NoRequest]
  /\ tnow = [c \in Clients |-> 0]
  /\ loc = [c \in Clients |-> NoLocals]
  /\ ret = [c \in Clients |-> NoReply]
  /\ calls = [c \in Clients |-> 0]
  /\ sweep = Asleep
  /\ limited = FALSE

-----------------------------------------------------------------------------
(* The parts the methods share.                                            *)

Key(c) == Head(req[c].keys)
Cmd(c) == req[c].cmd
\* Mutant: an entry without expiry is not told apart.
LapsedWithoutZeroTest(k, t) == dict[k] # NoEntry /\ dict[k].exp <= t
Lapsed(k, t) == Expired(dict[k], t)

\* Mutant: the bytes of the erased entry are not given back.
EraseKeepingTotal(k) ==
  /\ dict' = [dict EXCEPT ![k] = NoEntry]
  /\ UNCHANGED total

Erase(k) ==
  /\ dict' = [dict EXCEPT ![k] = NoEntry]
  /\ total' = Minus(total, entry_cost(k, dict[k].cap))

KeepDict == UNCHANGED <<dict, total>>

Bumped(fs) == stats' = [f \in Counters |-> IF f \in fs THEN stats[f] + 1 ELSE stats[f]]

\* Mutant: the mutex is never released.
UnlockForgotten(c) == UNCHANGED lock
Unlock(c) == lock' = [lock EXCEPT ![ShardOf[Key(c)]] = Free]

Return(c, a) ==
  /\ Unlock(c)
  /\ pc' = [pc EXCEPT ![c] = "idle"]
  /\ req' = [req EXCEPT ![c] = NoRequest]
  /\ tnow' = [tnow EXCEPT ![c] = 0]
  /\ loc' = [loc EXCEPT ![c] = NoLocals]
  /\ ret' = [ret EXCEPT ![c] = a]

(* del and exists: count the key if b, then return or go on to the next    *)
(* key, which takes that key's mutex anew.                                 *)
CountKey(c, b) ==
  LET n == loc[c].cnt + (IF b THEN 1 ELSE 0) IN
  \/ /\ Len(req[c].keys) = 1
     /\ Return(c, Answer("int", n))
  \/ /\ Len(req[c].keys) > 1
     /\ Unlock(c)
     /\ pc' = [pc EXCEPT ![c] = "wait"]
     /\ req' = [req EXCEPT ![c] = Rest(@)]
     /\ loc' = [loc EXCEPT ![c].cnt = n]
     /\ UNCHANGED <<tnow, ret>>

InBody(c, cmds) == pc[c] = "body" /\ Cmd(c) \in cmds

-----------------------------------------------------------------------------
(* Every method: read the clock, then wait for the mutex of the key.       *)

Begin(c, r) ==
  /\ pc[c] = "idle"
  /\ calls[c] < MaxCalls
  /\ calls' = [calls EXCEPT ![c] = @ + 1]
  /\ pc' = [pc EXCEPT ![c] = "wait"]
  /\ req' = [req EXCEPT ![c] = r]
  /\ tnow' = [tnow EXCEPT ![c] = clock]
  /\ ret' = [ret EXCEPT ![c] = NoReply]
  /\ UNCHANGED <<dict, lock, total, max, stats, clock, loc, sweep, limited>>

\* Mutant: the thread does not wait for the mutex.
AcquireWithoutWaiting(c) ==
  /\ pc[c] = "wait"
  /\ lock' = [lock EXCEPT ![ShardOf[Key(c)]] = c]
  /\ pc' = [pc EXCEPT ![c] = IF Cmd(c) = "SET" THEN "load" ELSE "body"]
  /\ UNCHANGED <<dict, total, max, stats, clock, req, tnow, loc, ret, calls,
                 sweep, limited>>

Acquire(c) ==
  /\ pc[c] = "wait"
  /\ lock[ShardOf[Key(c)]] = Free
  /\ lock' = [lock EXCEPT ![ShardOf[Key(c)]] = c]
  /\ pc' = [pc EXCEPT ![c] = IF Cmd(c) = "SET" THEN "load" ELSE "body"]
  /\ UNCHANGED <<dict, total, max, stats, clock, req, tnow, loc, ret, calls,
                 sweep, limited>>

(* get and, per key, exists: the lazy expiry counts as a miss.             *)
Lookup(c, Miss, Hit) ==
  LET k == Key(c) IN
  \/ ~Present(k) /\ Miss /\ Bumped({"misses"}) /\ KeepDict
  \/ Lapsed(k, tnow[c]) /\ Miss /\ Bumped({"misses", "expired"}) /\ Erase(k)
  \/ Present(k) /\ ~Lapsed(k, tnow[c]) /\ Hit /\ Bumped({"hits"}) /\ KeepDict

get(c) ==
  /\ InBody(c, {"GET"})
  /\ Lookup(c, Return(c, Answer("nil", 0)), Return(c, Answer("bulk", dict[Key(c)].val)))
  /\ UNCHANGED <<max, clock, calls, sweep, limited>>

exists(c) ==
  /\ InBody(c, {"EXISTS"})
  /\ Lookup(c, CountKey(c, FALSE), CountKey(c, TRUE))
  /\ UNCHANGED <<max, clock, calls, sweep, limited>>

(* del does not look at the expiry: an expired entry still counts.         *)
del(c) ==
  /\ InBody(c, {"DEL"})
  /\ CountKey(c, Present(Key(c)))
  /\ IF Present(Key(c)) THEN Erase(Key(c)) ELSE KeepDict
  /\ UNCHANGED <<max, stats, clock, calls, sweep, limited>>

(* expire and expire_at.                                                   *)
expire(c) ==
  /\ InBody(c, {"PEXPIRE", "PEXPIREAT"})
  /\ LET k == Key(c)
         deadline == IF Cmd(c) = "PEXPIRE" THEN Deadline(tnow[c], req[c].arg) ELSE req[c].arg
     IN
     \/ /\ ~Present(k)
        /\ Return(c, Answer("int", 0))
        /\ KeepDict /\ UNCHANGED stats
     \/ /\ Lapsed(k, tnow[c])
        /\ Return(c, Answer("int", 0))
        /\ Erase(k) /\ Bumped({"expired"})
     \/ /\ Present(k) /\ ~Lapsed(k, tnow[c])
        /\ Return(c, Answer("int", 1))
        /\ dict' = [dict EXCEPT ![k].exp = deadline]
        /\ UNCHANGED <<total, stats>>
  /\ UNCHANGED <<max, clock, calls, sweep, limited>>

(* The lazy expiry of pttl, persist, incr and decr is not counted in       *)
(* expired_keys_.                                                          *)
pttl(c) ==
  /\ InBody(c, {"PTTL"})
  /\ LET k == Key(c) IN
     \/ ~Present(k) /\ Return(c, Answer("int", -2)) /\ KeepDict
     \/ Lapsed(k, tnow[c]) /\ Return(c, Answer("int", -2)) /\ Erase(k)
     \/ /\ Present(k) /\ ~Lapsed(k, tnow[c])
        /\ Return(c, Answer("int", IF dict[k].exp > 0 THEN Remaining(dict[k], tnow[c]) ELSE -1))
        /\ KeepDict
  /\ UNCHANGED <<max, stats, clock, calls, sweep, limited>>

persist(c) ==
  /\ InBody(c, {"PERSIST"})
  /\ LET k == Key(c) IN
     \/ ~Present(k) /\ Return(c, Answer("int", 0)) /\ KeepDict
     \/ Lapsed(k, tnow[c]) /\ Return(c, Answer("int", 0)) /\ Erase(k)
     \/ /\ Present(k) /\ ~Lapsed(k, tnow[c])
        /\ Return(c, Answer("int", IF dict[k].exp = 0 THEN 0 ELSE 1))
        /\ dict' = [dict EXCEPT ![k].exp = 0]
        /\ UNCHANGED total
  /\ UNCHANGED <<max, stats, clock, calls, sweep, limited>>

-----------------------------------------------------------------------------
(* set, incr and decr: incr and decr first work out the new value, then    *)
(* all three check the memory limit, evict if they must, and commit.       *)

incr_parse(c) ==
  /\ InBody(c, {"INCR", "DECR"})
  /\ LET k == Key(c)
         Proceed(v, e) == /\ pc' = [pc EXCEPT ![c] = "load"]
                          /\ loc' = [loc EXCEPT ![c].val = v, ![c].exp = e]
                          /\ UNCHANGED <<lock, req, tnow, ret>>
     IN
     \/ ~Present(k) /\ Proceed(0, 0) /\ KeepDict
     \/ Lapsed(k, tnow[c]) /\ Proceed(0, 0) /\ Erase(k)
     \/ /\ Present(k) /\ ~Lapsed(k, tnow[c])
        /\ IF dict[k].val \in Ints THEN Proceed(dict[k].val, dict[k].exp)
           ELSE Return(c, Answer("nullopt", 0))
        /\ KeepDict
  /\ UNCHANGED <<max, stats, clock, calls, sweep, limited>>

\* Mutants: decr counts up; the value is read again after the eviction.
NewValCountsUp(c) == IF Cmd(c) = "SET" THEN req[c].arg ELSE Bump("INCR", loc[c].val)
NewValReadAgain(c) ==
  IF Cmd(c) = "SET" THEN req[c].arg ELSE Bump(Cmd(c), IF Present(Key(c)) THEN loc[c].val ELSE 0)
NewVal(c) == IF Cmd(c) = "SET" THEN req[c].arg ELSE Bump(Cmd(c), loc[c].val)
new_cost(c) == entry_cost(Key(c), FreshCap(NewVal(c)))

(* old_cost, and the load of total_memory_usage_ ...                       *)
load_usage(c) ==
  /\ pc[c] = "load"
  /\ pc' = [pc EXCEPT ![c] = "check"]
  /\ LET k == Key(c)
         old == IF Present(k) THEN entry_cost(k, dict[k].cap) ELSE 0
     IN  loc' = [loc EXCEPT ![c].cur = total, ![c].old = old]
  /\ UNCHANGED <<dict, lock, total, max, stats, clock, req, tnow, ret, calls,
                 sweep, limited>>

(* ... then the load of max_memory_bytes_ and the comparison.  Nothing     *)
(* stops another shard's thread from adding to the total meanwhile, or     *)
(* before this thread adds its own bytes.                                  *)
check_memory(c) ==
  /\ pc[c] = "check"
  /\ LET want == Plus(loc[c].cur, new_cost(c))
         room == Plus(max, loc[c].old)
     IN  IF max > 0 /\ want > room
         THEN /\ pc' = [pc EXCEPT ![c] = "evict"]
              /\ loc' = [loc EXCEPT ![c].lim = max, ![c].need = want - room]
         ELSE /\ pc' = [pc EXCEPT ![c] = "commit"]
              /\ loc' = [loc EXCEPT ![c].lim = max]
  /\ UNCHANGED <<dict, lock, total, max, stats, clock, req, tnow, ret, calls,
                 sweep, limited>>

Evicting(c) == /\ loc[c].freed < loc[c].need
               /\ ShardKeys(ShardOf[Key(c)]) # {}

(* One round of evict_from_shard.  The victim is the oldest entry of five  *)
(* randomly drawn buckets; all five draws may hit the same bucket, so it   *)
(* can be any entry of the shard, the key being written included.          *)
evict_one(c, k) ==
  /\ pc[c] = "evict"
  /\ Evicting(c)
  /\ k \in ShardKeys(ShardOf[Key(c)])
  /\ Erase(k)
  /\ loc' = [loc EXCEPT ![c].freed = @ + entry_cost(k, dict[k].cap)]
  /\ Bumped({"evicted"})
  /\ UNCHANGED <<lock, max, clock, pc, req, tnow, ret, calls, sweep, limited>>

evict_done(c) ==
  /\ pc[c] = "evict"
  /\ ~Evicting(c)
  /\ IF loc[c].freed < loc[c].need
     THEN Return(c, Answer(IF Cmd(c) = "SET" THEN "oom" ELSE "nullopt", 0))
     ELSE /\ pc' = [pc EXCEPT ![c] = "commit"]
          /\ UNCHANGED <<lock, req, tnow, loc, ret>>
  /\ UNCHANGED <<dict, total, max, stats, clock, calls, sweep, limited>>

(* The old cost is the one found before the eviction, even when the        *)
(* eviction has removed that very entry.                                   *)
commit(c) ==
  /\ pc[c] = "commit"
  /\ LET k == Key(c)
         v == NewVal(c)
         cap == IF ~Present(k) THEN FreshCap(v)
                ELSE IF Cmd(c) = "SET" THEN CopyCap(dict[k].cap, v)
                ELSE MoveCap(dict[k].cap, v)
     IN  /\ dict' = [dict EXCEPT ![k] = [val |-> v, exp |-> loc[c].exp, cap |-> cap]]
         /\ total' = (total + new_cost(c) - loc[c].old) % SizeMod
         /\ Return(c, IF Cmd(c) = "SET" THEN Answer("ok", 0) ELSE Answer("int", v))
  /\ UNCHANGED <<max, stats, clock, calls, sweep, limited>>

-----------------------------------------------------------------------------
(* CONFIG SET MAXMEMORY, called by a client thread.                        *)
set_max_memory(c, bytes) ==
  /\ pc[c] = "idle"
  /\ calls[c] < MaxCalls
  /\ calls' = [calls EXCEPT ![c] = @ + 1]
  /\ max' = bytes
  /\ limited' = (limited \/ bytes > 0)
  /\ UNCHANGED <<dict, lock, total, stats, clock, pc, req, tnow, loc, ret, sweep>>

(* now_ms reads std::chrono::system_clock, which this specification takes  *)
(* never to be set back.                                                   *)
Tick ==
  /\ clock < MaxTime
  /\ clock' = clock + 1
  /\ UNCHANGED <<dict, lock, total, max, stats, pc, req, tnow, loc, ret, calls,
                 sweep, limited>>

-----------------------------------------------------------------------------
(* background_sweeper: after each sleep, one pass over the shards with one *)
(* reading of the clock.                                                   *)

SweepFrame == UNCHANGED <<max, clock, pc, req, tnow, loc, ret, calls, limited>>

sweep_wake ==
  /\ sweep.pc = "sleep"
  /\ sweep' = [pc |-> "try", now |-> clock, shard |-> 0, todo |-> {}]
  /\ UNCHANGED <<dict, lock, total, stats>>
  /\ SweepFrame

NextShard ==
  IF sweep.shard + 1 < NumShards
  THEN [sweep EXCEPT !.pc = "try", !.shard = @ + 1, !.todo = {}]
  ELSE Asleep

\* Mutant: the result of try_to_lock is not looked at.
TryIgnoringResult ==
  /\ sweep.pc = "try"
  /\ lock' = [lock EXCEPT ![sweep.shard] = Sweeper]
  /\ sweep' = [sweep EXCEPT !.pc = "scan", !.todo = ShardKeys(sweep.shard)]
  /\ UNCHANGED <<dict, total, stats>>
  /\ SweepFrame

(* try_to_lock: a shard whose mutex is taken is skipped in this pass.  In  *)
(* a free one the loop looks at the first SweepBatch entries in iteration  *)
(* order, an order the hash decides.                                       *)
sweep_try ==
  /\ sweep.pc = "try"
  /\ \/ /\ lock[sweep.shard] # Free
        /\ sweep' = NextShard
        /\ UNCHANGED lock
     \/ /\ lock[sweep.shard] = Free
        /\ lock' = [lock EXCEPT ![sweep.shard] = Sweeper]
        /\ \E batch \in SUBSET ShardKeys(sweep.shard) :
             /\ \/ batch = ShardKeys(sweep.shard) /\ Cardinality(batch) <= SweepBatch
                \/ Cardinality(batch) = SweepBatch
             /\ sweep' = [sweep EXCEPT !.pc = "scan", !.todo = batch]
  /\ UNCHANGED <<dict, total, stats>>
  /\ SweepFrame

sweep_entry(k) ==
  /\ sweep.pc = "scan"
  /\ k \in sweep.todo
  /\ sweep' = [sweep EXCEPT !.todo = @ \ {k}]
  /\ IF Lapsed(k, sweep.now) THEN Erase(k) /\ Bumped({"expired"})
                             ELSE KeepDict /\ UNCHANGED stats
  /\ UNCHANGED lock
  /\ SweepFrame

sweep_unlock ==
  /\ sweep.pc = "scan"
  /\ sweep.todo = {}
  /\ lock' = [lock EXCEPT ![sweep.shard] = Free]
  /\ sweep' = NextShard
  /\ UNCHANGED <<dict, total, stats>>
  /\ SweepFrame

background_sweeper ==
  sweep_wake \/ sweep_try \/ sweep_unlock \/ \E k \in Keys : sweep_entry(k)

(* What a thread inside the engine does next, once it has the mutex.       *)
Work(c) ==
  \/ get(c) \/ exists(c) \/ del(c) \/ expire(c) \/ pttl(c) \/ persist(c)
  \/ incr_parse(c) \/ load_usage(c) \/ check_memory(c) \/ evict_done(c) \/ commit(c)
  \/ \E k \in Keys : evict_one(c, k)

Next ==
  \/ \E c \in Clients :
       \/ \E r \in Requests : Begin(c, r)
       \/ \E b \in MemLimits : set_max_memory(c, b)
       \/ Acquire(c)
       \/ Work(c)
  \/ background_sweeper
  \/ Tick

Spec == Init /\ [][Next]_vars

(* The fairness of the fair runs: the operating system runs every thread   *)
(* that can go on, and a mutex that is free again and again is eventually  *)
(* obtained (no thread holds one while it sleeps or does I/O).  Clients    *)
(* need not call anything.                                                 *)
FairSpec ==
  /\ Spec
  /\ \A c \in Clients : SF_vars(Acquire(c)) /\ WF_vars(Work(c))
  /\ WF_vars(background_sweeper)

-----------------------------------------------------------------------------
(* Properties                                                              *)

Holding == {"body", "load", "check", "evict", "commit"}

(* Every variable keeps its C++ type: the byte counter stays in the range  *)
(* of size_t, the timestamps in that of uint64_t, and a thread that is in  *)
(* a method has a call to work on.                                         *)
TypeOK ==
  /\ dict \in [Keys -> DictEntry \cup {NoEntry}]
  /\ lock \in [Shards -> Clients \cup {Free, Sweeper}]
  /\ total \in 0 .. SizeMod - 1
  /\ max \in 0 .. SizeMod - 1
  /\ stats \in [Counters -> Nat]
  /\ clock \in 1 .. MaxTime
  /\ pc \in [Clients -> {"idle", "wait"} \cup Holding]
  /\ req \in [Clients -> {NoRequest} \cup [cmd : Cmds, keys : Seq(Keys), arg : Values \cup Int]]
  /\ \A c \in Clients : pc[c] # "idle" => IsRequest(req[c])
  /\ tnow \in [Clients -> Time]
  /\ loc \in [Clients -> Locals]
  /\ ret \in [Clients -> Reply]
  /\ calls \in [Clients -> 0 .. MaxCalls]
  /\ sweep \in Awake \cup {Asleep}
  /\ limited \in BOOLEAN

(* A thread holds a shard's mutex exactly while it is between taking and   *)
(* releasing it in a method, the sweeper exactly while it scans the shard; *)
(* so no two threads are ever inside one shard, on any early return.       *)
MutexInv ==
  /\ \A c \in Clients, s \in Shards :
       lock[s] = c <=> pc[c] \in Holding /\ ShardOf[Key(c)] = s
  /\ \A s \in Shards : lock[s] = Sweeper <=> sweep.pc = "scan" /\ sweep.shard = s

(* As long as no memory limit has been set, a key with a live entry leaves *)
(* the dictionary only by a DEL of that key, whichever thread erases:      *)
(* neither a lazy expiry with an old clock reading nor the sweeper with    *)
(* the reading of its whole pass takes a live key.                         *)
NoLiveKeyLost ==
  [][\A k \in Keys :
       (Present(k) /\ ~Expired(dict[k], clock) /\ ~Present(k)' /\ ~limited)
         => \E c \in Clients : pc[c] = "body" /\ Cmd(c) = "DEL" /\ Key(c) = k]_vars

(* INCR and DECR lose no update: between the parse and the commit nobody   *)
(* changes the entry the new value was computed from; only this thread's   *)
(* own eviction may have removed it.                                       *)
NoLostUpdate ==
  \A c \in Clients :
    (pc[c] \in {"load", "check", "evict", "commit"} /\ Cmd(c) \in {"INCR", "DECR"})
      => LET e == dict[Key(c)] IN
         \/ e = NoEntry /\ (limited \/ (loc[c].val = 0 /\ loc[c].exp = 0))
         \/ e # NoEntry /\ e.val = loc[c].val /\ e.exp = loc[c].exp

(* The bytes the entries really occupy, as entry_cost charges for them.    *)
Footprint == MapThenSumSet(LAMBDA k : entry_cost(k, dict[k].cap), {k \in Keys : Present(k)})

(* docs/architecture.md: the total of the atomic counter is accurate.      *)
UsageExact == total = Footprint % SizeMod

(* Counter and footprint drift apart only when an update replaces an entry *)
(* it has found: every erase, by whichever thread and on whichever path,   *)
(* gives back exactly what the entry is charged with.                      *)
DriftOnlyByReplacing ==
  [][(total' - total) % SizeMod # (Footprint' - Footprint) % SizeMod
       => \E c \in Clients : pc[c] = "commit" /\ pc'[c] = "idle" /\ loc[c].old # 0]_vars

(* README.md: the threshold maxmemory is strictly enforced: an update that *)
(* was checked against a limit leaves the counter within that limit.       *)
LimitEnforced ==
  [][\A c \in Clients :
       (pc[c] = "commit" /\ pc'[c] = "idle" /\ loc[c].lim > 0) => total' <= loc[c].lim]_vars

(* Every call returns: no thread waits for ever on a mutex that a path     *)
(* forgot to release, and the eviction loop ends.                          *)
EveryCallReturns == \A c \in Clients : pc[c] = "wait" ~> pc[c] = "idle"

-----------------------------------------------------------------------------
(* The engine implements the atomic dictionary.  An update takes effect at *)
(* its commit; until then an entry that an INCR or DECR has read and then  *)
(* evicted itself still counts as present, for nobody else can see it.     *)

Pending(c, k) ==
  /\ pc[c] \in {"check", "evict", "commit"}
  /\ Cmd(c) \in {"INCR", "DECR"} /\ Key(c) = k /\ loc[c].old # 0

AbsMap ==
  [k \in Keys |->
     IF \E c \in Clients : Pending(c, k)
     THEN LET c == CHOOSE c \in Clients : Pending(c, k)
          IN  [val |-> loc[c].val, exp |-> loc[c].exp]
     ELSE IF Present(k) THEN [val |-> dict[k].val, exp |-> dict[k].exp] ELSE NoEntry]

KV == INSTANCE KVStore WITH
        map <- AbsMap, at <- tnow, cnt <- [c \in Clients |-> loc[c].cnt], resp <- ret

(* Linearizability: whatever the threads, the evictions and the sweeper    *)
(* do, callers cannot tell the sharded engine from the atomic dictionary   *)
(* of KVStore.                                                             *)
ImplementsKVStore == KV!Spec
=============================================================================
