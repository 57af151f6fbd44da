------------------------------- MODULE MCServer -------------------------------
(***************************************************************************)
(* Small instances of Server for TLC.                                      *)
(***************************************************************************)
EXTENDS Server

CONSTANTS c1, c2, k1, k2, w, junk

Call(name, ks, a) == [cmd |-> name, keys |-> ks, arg |-> a]

Counting(k, step) == { Call("SET", <<k>>, w), Call(step, <<k>>, 0), Call("DEL", <<k>>, 0) }
Timed(k) == { Call("SET", <<k>>, w), Call("PEXPIRE", <<k>>, 2), Call("PERSIST", <<k>>, 0),
              Call("DEL", <<k>>, 0) }
Mixed == { Call("SET", <<k1>>, w), Call("PEXPIRE", <<k1>>, 7), Call("DEL", <<k1, k2>>, 0) }
Rewrites == { Call("SET", <<k1>>, w), Call("SET", <<k1>>, 0) }

\* Key k2 stands for the keys nobody sets.
Mangled == { Call("SET", <<k>>, junk) : k \in {k1, k2} }
Unmangled == {}

\* Each connection has a key of its own, or all of them send the same.
Key(c) == IF c = c1 THEN k1 ELSE k2
OwnCounters == [c \in Clients |-> Counting(Key(c), IF c = c1 THEN "DECR" ELSE "INCR")]
OwnTimers == [c \in Clients |-> Timed(Key(c))]
SameMix == [c \in Clients |-> Mixed]
SameKey == [c \in Clients |-> Rewrites]

CounterRequests == UNION {OwnCounters[c] : c \in Clients}
TimerRequests == Timed(k1) \cup Timed(k2)
=============================================================================
