-------------------------------- MODULE CpuLoad --------------------------------
(***************************************************************************)
(* The CPU load that the ad service makes while a flag is on.  Each        *)
(* request takes the only instance, which it may have to make, evaluates   *)
(* the flag and calls execute; requests run in threads of their own, and   *)
(* neither the instance nor running is locked.                             *)
(***************************************************************************)
EXTENDS Naturals

CONSTANTS
  Requests,      \* the threads
  ThreadCount,   \* the workers started at once
  MaxCalls       \* bound

VARIABLES
  instance,   \* the instance, known by the thread that made it: none at first
  call,       \* of each thread: where its call is, on which instance, with which flag
  running,    \* of each instance
  workers,    \* of each instance: the workers that have not been told to stop
  calls,      \* calls so far
  clash       \* for the property only: whether calls with the flag on and off overlapped

vars == <<instance, call, running, workers, calls, clash>>

NoCall == [at |-> "none", of |-> {}, enabled |-> FALSE]

Init ==
  /\ instance = {}
  /\ call = [r \in Requests |-> NoCall]
  /\ running = [r \in Requests |-> FALSE]
  /\ workers = [r \in Requests |-> 0]
  /\ calls = 0
  /\ clash = FALSE

\* getInstance: is there one ...
Look(r) ==
  /\ call[r].at = "none"
  /\ calls < MaxCalls
  /\ calls' = calls + 1
  /\ call' = [call EXCEPT ![r].at = IF instance = {} THEN "make" ELSE "take"]
  /\ UNCHANGED <<instance, running, workers, clash>>

\* ... if not it is made, which another thread may have done by now ...
Make(r) ==
  /\ call[r].at = "make"
  /\ instance' = {r}
  /\ call' = [call EXCEPT ![r].at = "take"]
  /\ UNCHANGED <<running, workers, calls, clash>>

InExecute(r) == call[r].at \in {"execute", "spawn", "mark", "stop"}

\* ... and returned.  The flag is evaluated.
Take(r, enabled) ==
  /\ call[r].at = "take"
  /\ call' = [call EXCEPT ![r] = [at |-> "execute", of |-> instance, enabled |-> enabled]]
  /\ clash' = (clash \/ \E q \in Requests : InExecute(q) /\ call[q].enabled # enabled)
  /\ UNCHANGED <<instance, running, workers, calls>>

\* The thread is at one step of execute, on instance i, and goes on to the next.
On(r, i, from, to) ==
  /\ call[r].at = from
  /\ i \in call[r].of
  /\ call' = [call EXCEPT ![r] = IF to = "none" THEN NoCall ELSE [@ EXCEPT !.at = to]]
  /\ UNCHANGED <<instance, calls, clash>>

Enabled(r, i) ==
  /\ call[r].enabled
  /\ On(r, i, "execute", IF running[i] THEN "none" ELSE "spawn")
  /\ UNCHANGED <<running, workers>>

SpawnLoadWorkers(r, i) ==
  /\ On(r, i, "spawn", "mark")
  /\ workers' = [workers EXCEPT ![i] = @ + ThreadCount]
  /\ UNCHANGED running

MarkRunning(r, i) ==
  /\ On(r, i, "mark", "none")
  /\ running' = [running EXCEPT ![i] = TRUE]
  /\ UNCHANGED workers

\* execute(false) sets running ...
MarkStopped(r, i) ==
  /\ ~call[r].enabled
  /\ On(r, i, "execute", "stop")
  /\ running' = [running EXCEPT ![i] = FALSE]
  /\ UNCHANGED workers

\* Variant: only the workers that were started last are known.
StopWorkersStartedLast(r, i) ==
  /\ On(r, i, "stop", "none")
  /\ workers' = [workers EXCEPT ![i] = IF @ = 0 THEN 0 ELSE @ - ThreadCount]
  /\ UNCHANGED running

\* ... and tells all workers to stop.
StopWorkers(r, i) ==
  /\ On(r, i, "stop", "none")
  /\ workers' = [workers EXCEPT ![i] = 0]
  /\ UNCHANGED running

Next ==
  \E r \in Requests :
    \/ Look(r) \/ Make(r)
    \/ \E enabled \in BOOLEAN : Take(r, enabled)
    \/ \E i \in Requests :
         \/ Enabled(r, i) \/ SpawnLoadWorkers(r, i) \/ MarkRunning(r, i)
         \/ MarkStopped(r, i) \/ StopWorkers(r, i)

-----------------------------------------------------------------------------
\* Between calls, an instance that is not running has no workers, so that the load ends
\* when the flag is off, whatever overlapped; and one that is running has some, unless a
\* call with the flag on has overlapped one with the flag off. This is said of each
\* instance by itself: one that another has replaced, two threads having found none, can
\* stay running for ever, since no later call reaches it.
WorkersAreThoseOfRunning ==
  (\A r \in Requests : ~InExecute(r)) =>
    \A i \in Requests :
      /\ ~running[i] => workers[i] = 0
      /\ running[i] /\ ~clash => workers[i] >= ThreadCount
=============================================================================
