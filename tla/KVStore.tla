------------------------------- MODULE KVStore -------------------------------
(***************************************************************************)
(* The promise of the storage engine to its callers: an atomic dictionary. *)
(* Each key a request addresses is dealt with in one indivisible step      *)
(* between the request's invocation and its return, with the meaning KVOps *)
(* gives it, judging expiry by the time of the invocation.  A key may      *)
(* vanish on its own only when it has expired, or once a memory limit has  *)
(* been configured (eviction).  StorageEngine implements this module.      *)
(***************************************************************************)
EXTENDS KVOps

CONSTANTS
  Clients,   \* the threads that call the engine
  Requests,  \* the requests they make
  NoRequest  \* a thread with no call in progress

VARIABLES
  map,      \* the dictionary
  clock,    \* system_clock, in ms
  limited,  \* a memory limit has been configured at some time
  req,      \* the request of each thread, with the keys still to deal with
  at,       \* when the thread made it
  cnt,      \* the keys a DEL or EXISTS has counted so far
  resp      \* the thread's last answer

vars == <<map, clock, limited, req, at, cnt, resp>>

Init ==
  /\ map = [k \in Keys |-> NoEntry]
  /\ clock = 1
  /\ limited = FALSE
  /\ req = [c \in Clients |-> NoRequest]
  /\ at = [c \in Clients |-> 0]
  /\ cnt = [c \in Clients |-> 0]
  /\ resp = [c \in Clients |-> NoReply]

Finish(c, a) ==
  /\ req' = [req EXCEPT ![c] = NoRequest]
  /\ at' = [at EXCEPT ![c] = 0]
  /\ cnt' = [cnt EXCEPT ![c] = 0]
  /\ resp' = [resp EXCEPT ![c] = a]

Invoke(c, r) ==
  /\ req[c] = NoRequest
  /\ req' = [req EXCEPT ![c] = r]
  /\ at' = [at EXCEPT ![c] = clock]
  /\ resp' = [resp EXCEPT ![c] = NoReply]
  /\ UNCHANGED <<map, clock, limited, cnt>>

Perform(c) ==
  /\ req[c] # NoRequest
  /\ LET r == req[c]
         k == Head(r.keys)
         a == Result(r, map[k], at[c], cnt[c])
     IN  /\ map' = [map EXCEPT ![k] = After(r, @, at[c])]
         /\ \/ /\ Len(r.keys) = 1
               /\ Finish(c, a)
            \/ /\ Len(r.keys) > 1
               /\ req' = [req EXCEPT ![c] = Rest(@)]
               /\ cnt' = [cnt EXCEPT ![c] = a.val]
               /\ UNCHANGED <<at, resp>>
  /\ UNCHANGED <<clock, limited>>

Drop(k) ==
  /\ map[k] # NoEntry
  /\ limited \/ Expired(map[k], clock)
  /\ map' = [map EXCEPT ![k] = NoEntry]
  /\ UNCHANGED <<clock, limited, req, at, cnt, resp>>

(* An update that does not fit: it fails, and may lose the key it meant to *)
(* update.                                                                 *)
Refuse(c) ==
  /\ limited
  /\ req[c] # NoRequest
  /\ req[c].cmd \in UpdateCmds
  /\ map' \in {map, [map EXCEPT ![Head(req[c].keys)] = NoEntry]}
  /\ Finish(c, Answer(IF req[c].cmd = "SET" THEN "oom" ELSE "nullopt", 0))
  /\ UNCHANGED <<clock, limited>>

Limit ==
  /\ limited' = TRUE
  /\ UNCHANGED <<map, clock, req, at, cnt, resp>>

Tick ==
  /\ clock' = clock + 1
  /\ UNCHANGED <<map, limited, req, at, cnt, resp>>

Next ==
  \/ \E c \in Clients : Perform(c) \/ Refuse(c) \/ \E r \in Requests : Invoke(c, r)
  \/ \E k \in Keys : Drop(k)
  \/ Limit
  \/ Tick

Spec == Init /\ [][Next]_vars
=============================================================================
