--------------------------- MODULE MCStorageEngine ---------------------------
(***************************************************************************)
(* Small instances of StorageEngine for TLC.                               *)
(***************************************************************************)
EXTENDS StorageEngine, TLC

CONSTANTS c1, c2, k1, k2, w, long

\* One shard for both keys, and one shard for each.
OneShard == [k \in Keys |-> 0]
TwoShards == [k \in Keys |-> IF k = k1 THEN 0 ELSE 1]

\* Costs in the proportions of the program: the fixed part of an entry is
\* larger than a short string, and a word may need a heap buffer.
Costs == [k \in Keys |-> 3]
Lengths == [v \in Values |-> IF v \in Ints THEN 1 ELSE IF v = w THEN 1 ELSE 3]

Call(cmd, ks, a) == [cmd |-> cmd, keys |-> ks, arg |-> a]

\* Every method of the engine, on one or on both keys.
AllCalls == { Call("SET", <<k1>>, w), Call("SET", <<k2>>, 0), Call("GET", <<k1>>, 0),
              Call("DEL", <<k1, k2>>, 0), Call("EXISTS", <<k2, k1>>, 0),
              Call("INCR", <<k1>>, 0), Call("DECR", <<k2>>, 0),
              Call("PEXPIRE", <<k1>>, 1), Call("PEXPIREAT", <<k2>>, 1),
              Call("PTTL", <<k1>>, 0), Call("PERSIST", <<k2>>, 0) }

\* Calls that race for memory: a heap value, a counter, a second key.
MemoryCalls == { Call("SET", <<k1>>, long), Call("SET", <<k2>>, w), Call("INCR", <<k2>>, 0) }

\* One short write per key.
ShortCalls == { Call("SET", <<k>>, w) : k \in Keys }

Threads == Permutations(Clients)
=============================================================================
