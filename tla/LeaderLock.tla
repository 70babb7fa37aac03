----------------------------- MODULE LeaderLock -----------------------------
(***************************************************************************)
(* The leader lock of MonitorPoller and AgentScheduler: a Postgres         *)
(* advisory lock taken and given back with statements that run on whatever *)
(* session of the process's pool is free.                                  *)
(*                                                                         *)
(* Postgres and the pool are external: an advisory lock belongs to a       *)
(* session, which may take it again, and goes with it; the pool closes     *)
(* sessions that have been idle for ten seconds.                           *)
(***************************************************************************)
EXTENDS Naturals, FiniteSets

CONSTANTS
    Processes,  \* the backend processes
    Sessions,   \* the sessions of the pool of one process
    MaxDepth,   \* bound on how often a session holds the lock
    MaxLost     \* bound on sessions closed under a leader

ASSUME LockAssumption ==
    /\ MaxDepth \in Nat \ {0}
    /\ MaxLost \in Nat
    /\ IsFiniteSet(Processes)

VARIABLES
    held,  \* how often each session of each process holds the lock
    lost   \* how often a leader lost the lock with its session (bound)

lockVars == <<held, lost>>

LockTypeOK ==
    /\ held \in [Processes -> [Sessions -> 0 .. MaxDepth]]
    /\ lost \in 0 .. MaxLost

LockInit ==
    /\ held = [p \in Processes |-> [s \in Sessions |-> 0]]
    /\ lost = 0

-----------------------------------------------------------------------------
\* Nobody but session s of process p holds the lock.
MayTake(p, s) ==
    \A q \in Processes, r \in Sessions : held[q][r] > 0 => q = p /\ r = s

\* pg_try_advisory_lock is true.
TakeLock(p) ==
    \E s \in Sessions :
        /\ MayTake(p, s)
        /\ held[p][s] < MaxDepth
        /\ held' = [held EXCEPT ![p][s] = @ + 1]
        /\ UNCHANGED lost

\* pg_try_advisory_lock is false, or the query fails.
LockRefused(p) == UNCHANGED lockVars

\* pg_advisory_unlock, on a session that may not be the one that has the lock: then
\* it does nothing but warn.  An error is swallowed.
GiveBack(p) ==
    /\ \/ \E s \in Sessions :
            held' = [held EXCEPT ![p][s] = IF @ > 0 THEN @ - 1 ELSE @]
       \/ UNCHANGED held
    /\ UNCHANGED lost

\* A session ends, and its locks; leading: its process thinks that it has the lock.
SessionCloses(p, s, leading) ==
    /\ held[p][s] > 0
    /\ held' = [held EXCEPT ![p][s] = 0]
    /\ IF leading THEN /\ lost < MaxLost
                       /\ lost' = lost + 1
       ELSE UNCHANGED lost

\* The sessions of a process end with it.
LocksEnd(p) ==
    /\ held' = [held EXCEPT ![p] = [s \in Sessions |-> 0]]
    /\ UNCHANGED lost
=============================================================================
