-------------------------------- MODULE KVOps --------------------------------
(***************************************************************************)
(* What one command does to the one key it addresses, as functions of the  *)
(* key's entry and of the time the command read: the meaning of the        *)
(* StorageEngine methods with locks, memory accounting and statistics left *)
(* out.  KVStore uses it as the atomic semantics the engine must           *)
(* implement, and the append-only file is replayed through it.             *)
(*                                                                         *)
(* A value is the abstraction of a std::string: an integer of Ints stands  *)
(* for the string std::from_chars accepts completely as an int64_t, a      *)
(* member of Words for any other string.                                   *)
(***************************************************************************)
EXTENDS Integers, Sequences

CONSTANTS
  Keys,     \* the keys
  Words,    \* the string values that are not integers
  MaxInt,   \* INT64_MAX
  TimeMod,  \* 2^64, the modulus of the uint64_t millisecond timestamps
  NoEntry   \* the key is not in the dictionary

ASSUME KVAssumption ==
  /\ MaxInt \in Nat
  /\ TimeMod \in Nat \ {0, 1}
  /\ Words \cap Int = {}

Ints == -(MaxInt + 1) .. MaxInt
Values == Words \cup Ints
Time == 0 .. TimeMod - 1

(* DictEntry; exp = 0 is "no expiry".  last_access_ms only ranks the keys  *)
(* of a random eviction sample, see StorageEngine!evict_one, and is left    *)
(* out.                                                                    *)
Entry == [val : Values, exp : Time]
Store == [Keys -> Entry \cup {NoEntry}]

ASSUME NoEntryAssumption == NoEntry \notin Entry

ReadCmds == {"GET", "EXISTS", "PTTL"}
UpdateCmds == {"SET", "INCR", "DECR"}
Cmds == ReadCmds \cup UpdateCmds \cup {"DEL", "PEXPIRE", "PEXPIREAT", "PERSIST"}

(* A request carries its keys (several only for DEL and EXISTS) and one    *)
(* argument: the value of SET, the offset of PEXPIRE, the absolute time of *)
(* PEXPIREAT.  Times are in milliseconds, as the engine has them: EXPIRE   *)
(* and TTL are PEXPIRE and PTTL, once the dispatcher has multiplied the    *)
(* seconds by 1000 or divided by it.                                       *)
IsRequest(r) ==
  /\ r \in [cmd : Cmds, keys : Seq(Keys) \ {<<>>}, arg : Values \cup Int]
  /\ r.cmd = "SET" => r.arg \in Values
  /\ r.cmd = "PEXPIRE" => r.arg \in Int
  /\ r.cmd = "PEXPIREAT" => r.arg \in Time
  /\ r.cmd \notin {"DEL", "EXISTS"} => Len(r.keys) = 1

(* What is left of a request when its first key has been dealt with.       *)
Rest(r) == [cmd |-> r.cmd, keys |-> Tail(r.keys), arg |-> r.arg]

Kinds == {"none", "ok", "oom", "nil", "bulk", "int", "nullopt"}
Reply == [kind : Kinds, val : Values \cup Int]
Answer(kind, v) == [kind |-> kind, val |-> v]
NoReply == Answer("none", 0)

(* The test `expire_at_ms > 0 && expire_at_ms <= now` of every method.     *)
Expired(e, t) == e # NoEntry /\ e.exp > 0 /\ e.exp <= t

(* The entry a method goes on with after its find() and its lazy erase.    *)
Look(e, t) == IF Expired(e, t) THEN NoEntry ELSE e

(* val++ and val-- on an int64_t.  Signed overflow is undefined; the build *)
(* (-O3, two's complement) wraps.                                          *)
Bump(cmd, n) ==
  IF cmd = "INCR" THEN IF n = MaxInt THEN -(MaxInt + 1) ELSE n + 1
                  ELSE IF n = -(MaxInt + 1) THEN MaxInt ELSE n - 1

(* uint64_t now + int64_t offset, modulo 2^64.                             *)
Deadline(t, offset) == (t + offset) % TimeMod

(* static_cast<int64_t>(expire_at_ms - now).                               *)
Remaining(e, t) ==
  LET d == (e.exp - t) % TimeMod
  IN  IF 2 * d >= TimeMod THEN d - TimeMod ELSE d

(* The entry request r leaves behind when it finds entry e at time t.      *)
After(r, e, t) ==
  LET l == Look(e, t) IN
  CASE r.cmd = "SET"       -> [val |-> r.arg, exp |-> 0]
    [] r.cmd = "DEL"       -> NoEntry
    [] r.cmd \in ReadCmds  -> l
    [] r.cmd \in {"INCR", "DECR"} ->
         IF l = NoEntry THEN [val |-> Bump(r.cmd, 0), exp |-> 0]
         ELSE IF l.val \in Ints THEN [l EXCEPT !.val = Bump(r.cmd, @)] ELSE l
    [] OTHER -> \* PEXPIRE, PEXPIREAT, PERSIST
         IF l = NoEntry THEN l
         ELSE [l EXCEPT !.exp = CASE r.cmd = "PEXPIRE"   -> Deadline(t, r.arg)
                                  [] r.cmd = "PEXPIREAT" -> r.arg
                                  [] r.cmd = "PERSIST"   -> 0]

(* What the method returns; n is the count of the keys a DEL or an EXISTS  *)
(* has dealt with before this one.                                         *)
Result(r, e, t, n) ==
  LET l == Look(e, t)
      Count(b) == Answer("int", n + (IF b THEN 1 ELSE 0)) IN
  CASE r.cmd = "SET"    -> Answer("ok", 0)
    [] r.cmd = "GET"    -> IF l = NoEntry THEN Answer("nil", 0) ELSE Answer("bulk", l.val)
    [] r.cmd = "DEL"    -> Count(e # NoEntry)
    [] r.cmd = "EXISTS" -> Count(l # NoEntry)
    [] r.cmd = "PTTL"   -> Answer("int", IF l = NoEntry THEN -2
                                         ELSE IF l.exp = 0 THEN -1 ELSE Remaining(l, t))
    [] r.cmd \in {"INCR", "DECR"} ->
         IF l = NoEntry THEN Answer("int", Bump(r.cmd, 0))
         ELSE IF l.val \in Ints THEN Answer("int", Bump(r.cmd, l.val))
         ELSE Answer("nullopt", 0)
    [] r.cmd = "PERSIST" -> Count(l # NoEntry /\ l.exp # 0)
    [] OTHER             -> Count(l # NoEntry) \* PEXPIRE, PEXPIREAT
=============================================================================
