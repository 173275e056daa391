----------------------------- MODULE CartConnection -----------------------------
(***************************************************************************)
(* The connection of the cart service to valkey: the requests' threads     *)
(* share a multiplexer and a flag that says whether it is good.  A new     *)
(* multiplexer is made under a lock when the flag is down.  A multiplexer  *)
(* is external: it loses its connection and gets it back by itself, and    *)
(* calls the handlers it has in threads of their own.                      *)
(***************************************************************************)
EXTENDS Naturals, Sequences

CONSTANTS
  Threads,
  MaxConnections,   \* bound: multiplexers made
  MaxDrops          \* bound: connections lost

Multiplexers == 1..MaxConnections

VARIABLES
  redis,     \* the multiplexer in use, 0 before the first
  opened,    \* _isRedisConnectionOpened
  locker,    \* the thread that has the lock, if any
  at,        \* of each thread: where it is in EnsureRedisConnected
  link,      \* of each multiplexer: whether it is connected
  watched,   \* the multiplexers that have handlers
  events,    \* of each multiplexer: the handler calls to come
  drops,
  \* For the property only:
  missed     \* whether a handler ran that was of a multiplexer no longer in use or about
             \* to be replaced, or a connection was lost between its test and the flag

vars == <<redis, opened, locker, at, link, watched, events, drops, missed>>

Init ==
  /\ redis = 0
  /\ opened = FALSE
  /\ locker = {}
  /\ at = [t \in Threads |-> "out"]
  /\ link = [m \in Multiplexers |-> FALSE]
  /\ watched = {}
  /\ events = [m \in Multiplexers |-> <<>>]
  /\ drops = 0
  /\ missed = FALSE

\* A request looks at the flag, and goes on with _redis if it is up.
Ensure(t) ==
  /\ at[t] = "out"
  /\ ~opened
  /\ at' = [at EXCEPT ![t] = "waiting"]
  /\ UNCHANGED <<redis, opened, locker, link, watched, events, drops, missed>>

\* The lock is free: the thread looks again.
Enter(t) ==
  /\ at[t] = "waiting"
  /\ locker = {}
  /\ locker' = IF opened THEN {} ELSE {t}
  /\ at' = [at EXCEPT ![t] = IF opened THEN "out" ELSE "connecting"]
  /\ UNCHANGED <<redis, opened, link, watched, events, drops, missed>>

\* The thread that has the lock goes on, or leaves.
Goes(t, from, to) ==
  /\ at[t] = from
  /\ at' = [at EXCEPT ![t] = to]
  /\ locker' = IF to = "out" THEN {} ELSE locker

\* Connect, which keeps a multiplexer that could not connect: abortConnect is false.
Connect(t, connects) ==
  /\ Goes(t, "connecting", IF connects THEN "testing" ELSE "out")
  /\ redis < MaxConnections
  /\ redis' = redis + 1
  /\ link' = [link EXCEPT ![redis + 1] = connects]
  /\ UNCHANGED <<opened, watched, events, drops, missed>>

\* The small test, which throws when the connection is lost.
Test(t) ==
  /\ Goes(t, "testing", IF link[redis] THEN "watching" ELSE "out")
  /\ UNCHANGED <<redis, opened, link, watched, events, drops, missed>>

Watch(t) ==
  /\ Goes(t, "watching", "opening")
  /\ watched' = watched \cup {redis}
  /\ UNCHANGED <<redis, opened, link, events, drops, missed>>

RaiseFlag(t) ==
  /\ Goes(t, "opening", "out")
  /\ opened' = TRUE
  /\ UNCHANGED <<redis, link, watched, events, drops, missed>>

-----------------------------------------------------------------------------
Told(m, event) == IF m \in watched THEN [events EXCEPT ![m] = Append(@, event)] ELSE events

InWindow(m) == m = redis /\ \E t \in Threads : at[t] \in {"watching", "opening"}

Drop(m) ==
  /\ link[m]
  /\ drops < MaxDrops
  /\ drops' = drops + 1
  /\ link' = [link EXCEPT ![m] = FALSE]
  /\ events' = Told(m, "failed")
  /\ missed' = (missed \/ InWindow(m))
  /\ UNCHANGED <<redis, opened, locker, at, watched>>

Reconnect(m) ==
  /\ m <= redis
  /\ ~link[m]
  /\ link' = [link EXCEPT ![m] = TRUE]
  /\ events' = Told(m, "restored")
  /\ UNCHANGED <<redis, opened, locker, at, watched, drops, missed>>

\* Variant: a handler for ConnectionRestored only.
FlagAfterRestored(event) == opened \/ event = "restored"

FlagAfter(event) == event = "restored"

\* A handler runs, whichever multiplexer calls it.
Handle(m) ==
  /\ events[m] # <<>>
  /\ events' = [events EXCEPT ![m] = Tail(@)]
  /\ opened' = FlagAfter(Head(events[m]))
  /\ missed' = (missed \/ m # redis \/ locker # {})
  /\ UNCHANGED <<redis, locker, at, link, watched, drops>>

Next ==
  \/ \E t \in Threads :
       \/ Ensure(t) \/ Enter(t)
       \/ \E connects \in BOOLEAN : Connect(t, connects)
       \/ Test(t) \/ Watch(t) \/ RaiseFlag(t)
  \/ \E m \in Multiplexers : Drop(m) \/ Reconnect(m) \/ Handle(m)

-----------------------------------------------------------------------------
\* When nobody connects and no handler is to run, the flag is up just when the
\* multiplexer in use is connected and will tell when it no longer is; unless a handler
\* ran while another was being made or after that, or the connection was lost then.
FlagTellsTheTruth ==
  locker = {} /\ (\A m \in Multiplexers : events[m] = <<>>) /\ ~missed =>
    (opened <=> redis # 0 /\ link[redis] /\ redis \in watched)
=============================================================================
