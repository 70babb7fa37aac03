--------------------------- MODULE CircuitBreaker ---------------------------
(***************************************************************************)
(* The per-account circuit breaker of the action engine, kept as key/value *)
(* rows of the control_state table.  Each SQL statement or transaction is  *)
(* one step, so several calls about one account interleave: a dispatch     *)
(* reports its outcome while others do, and an administrator clears.       *)
(*                                                                         *)
(* Keys that no decision reads (reason, pausedAt, lastFailure*,            *)
(* lastSuccessAt) are left out; reason and pausedAt live and die with      *)
(* pauseUntil.                                                             *)
(***************************************************************************)
EXTENDS Integers, XAccounts

CONSTANTS
    Callers,      \* concurrent calls of the service
    Threshold,    \* FAILURE_THRESHOLD
    MaxFailures,  \* bound on recordFailure calls per account
    MaxAborts,    \* bound on events that cut calls short
    MaxDeletes,   \* bound on deletions of accounts
    NoAccount

ASSUME BreakerAssumption ==
    /\ Threshold \in Nat \ {0}
    /\ MaxFailures \in Nat
    /\ MaxAborts \in Nat
    /\ MaxDeletes \in Nat
    /\ NoAccount \notin Accounts

VARIABLES
    state,  \* control_state: the breaker keys of each account
    call,   \* the calls in progress
    seen,   \* ghost: failures recorded per account, as they commit
    cuts    \* how many aborts and deletions there were (bounds only)

breakerVars == <<state, call, seen, cuts>>

\* paused; consecutiveFailures; pauseUntil: absent, in the future, in the past.
Keys == [paused : BOOLEAN, failures : Nat, until : {"none", "future", "past"}]

\* Where a call is: about to load the snapshot, to upsert, to delete the pause
\* keys.  "reset" is recordSuccess and clear, which write the same modelled keys.
Call == [op : {"idle", "failure", "reset"},
         at : {"load", "upsert", "delete"},
         account : Accounts \cup {NoAccount},
         snap : Nat]                 \* consecutiveFailures as loaded

\* streak: failures recorded since the last reset; total: failures ever recorded.
Seen == [streak : Nat, total : Nat]

BreakerTypeOK ==
    /\ state \in [Accounts -> Keys]
    /\ call \in [Callers -> Call]
    /\ seen \in [Accounts -> Seen]
    /\ cuts \in [aborts : 0 .. MaxAborts, deletes : 0 .. MaxDeletes]

Idle == [op |-> "idle", at |-> "load", account |-> NoAccount, snap |-> 0]

NoKeys == [paused |-> FALSE, failures |-> 0, until |-> "none"]

BreakerInit ==
    /\ state = [c \in Accounts |-> NoKeys]
    /\ call = [k \in Callers |-> Idle]
    /\ seen = [c \in Accounts |-> [streak |-> 0, total |-> 0]]
    /\ cuts = [aborts |-> 0, deletes |-> 0]

\* Mutant of IsPaused: pauseUntil is not looked at.
IsPausedForEver(c) == state[c].paused

\* isPaused, on one load of the snapshot
IsPaused(c) == state[c].paused /\ state[c].until # "past"

At(k, op, at) == call[k].op = op /\ call[k].at = at

-----------------------------------------------------------------------------
\* recordFailure is called.
BeginFailure(k, c) ==
    /\ call[k].op = "idle"
    /\ seen[c].total < MaxFailures
    /\ call' = [call EXCEPT ![k] = [Idle EXCEPT !.op = "failure", !.account = c]]
    /\ UNCHANGED <<state, seen, cuts>>

LoadSnapshot(k) ==
    /\ At(k, "failure", "load")
    /\ call' = [call EXCEPT ![k].at = "upsert",
                            ![k].snap = state[call[k].account].failures]
    /\ UNCHANGED <<state, seen, cuts>>

\* Mutant of Opens: off by one.
OpensEarly(failures) == failures + 1 >= Threshold

Opens(failures) == failures >= Threshold

\* One transaction: the loaded counter plus one, and at the threshold the pause.
\* (The load that follows only builds the return value, which no caller keeps.)
UpsertFailure(k) ==
    /\ At(k, "failure", "upsert")
    /\ LET c == call[k].account
           failures == call[k].snap + 1
       IN  /\ state' = [state EXCEPT ![c] =
                 IF Opens(failures)
                 THEN [paused |-> TRUE, failures |-> failures, until |-> "future"]
                 ELSE [@ EXCEPT !.failures = failures]]
           /\ seen' = [seen EXCEPT ![c].streak = @ + 1, ![c].total = @ + 1]
    /\ call' = [call EXCEPT ![k] = Idle]
    /\ UNCHANGED cuts

\* recordSuccess, or an administrator's clear, is called.
BeginReset(k, c) ==
    /\ call[k].op = "idle"
    /\ call' = [call EXCEPT ![k] = [Idle EXCEPT !.op = "reset", !.at = "upsert",
                                                !.account = c]]
    /\ UNCHANGED <<state, seen, cuts>>

\* Mutants of UpsertReset: the counter is forgotten, or goes down by one.
ResetKeepsCounter(k) ==
    /\ At(k, "reset", "upsert")
    /\ state' = [state EXCEPT ![call[k].account].paused = FALSE]
    /\ seen' = [seen EXCEPT ![call[k].account].streak = 0]
    /\ call' = [call EXCEPT ![k].at = "delete"]
    /\ UNCHANGED cuts

ResetDecrements(k) ==
    /\ At(k, "reset", "upsert")
    /\ LET c == call[k].account
       IN  /\ state' = [state EXCEPT ![c].paused = FALSE, ![c].failures = @ - 1]
           /\ seen' = [seen EXCEPT ![c].streak = 0]
    /\ call' = [call EXCEPT ![k].at = "delete"]
    /\ UNCHANGED cuts

UpsertReset(k) ==
    /\ At(k, "reset", "upsert")
    /\ LET c == call[k].account
       IN  /\ state' = [state EXCEPT ![c].paused = FALSE, ![c].failures = 0]
           /\ seen' = [seen EXCEPT ![c].streak = 0]
    /\ call' = [call EXCEPT ![k].at = "delete"]
    /\ UNCHANGED cuts

\* Mutant of DeletePauseKeys: nothing is deleted.
DeleteNothing(k) ==
    /\ At(k, "reset", "delete")
    /\ call' = [call EXCEPT ![k] = Idle]
    /\ UNCHANGED <<state, seen, cuts>>

DeletePauseKeys(k) ==
    /\ At(k, "reset", "delete")
    /\ state' = [state EXCEPT ![call[k].account].until = "none"]
    /\ call' = [call EXCEPT ![k] = Idle]
    /\ UNCHANGED <<seen, cuts>>

\* A query rejects (K has one call), or the process dies (with all its calls).
AbortCalls(K) ==
    /\ K # {}
    /\ \A k \in K : call[k].op # "idle"
    /\ cuts.aborts < MaxAborts
    /\ cuts' = [cuts EXCEPT !.aborts = @ + 1]
    /\ call' = [k \in Callers |-> IF k \in K THEN Idle ELSE call[k]]
    /\ UNCHANGED <<state, seen>>

\* AccountsService.deleteAccount deletes every control_state row of the account;
\* the same account may be connected again.
DeleteKeys(c) ==
    /\ cuts.deletes < MaxDeletes
    /\ cuts' = [cuts EXCEPT !.deletes = @ + 1]
    /\ state' = [state EXCEPT ![c] = NoKeys]
    /\ seen' = [seen EXCEPT ![c].streak = 0]
    /\ UNCHANGED call

\* PAUSE_MINUTES pass.
PauseExpires(c) ==
    /\ state[c].until = "future"
    /\ state' = [state EXCEPT ![c].until = "past"]
    /\ UNCHANGED <<call, seen, cuts>>

-----------------------------------------------------------------------------
CallStep(k) ==
    LoadSnapshot(k) \/ UpsertFailure(k) \/ UpsertReset(k) \/ DeletePauseKeys(k)

BreakerNext ==
    \/ \E k \in Callers : \/ CallStep(k)
                          \/ \E c \in Accounts : BeginFailure(k, c) \/ BeginReset(k, c)
    \/ \E K \in SUBSET Callers : AbortCalls(K)
    \/ \E c \in Accounts : PauseExpires(c) \/ DeleteKeys(c)

BreakerSpec == BreakerInit /\ [][BreakerNext]_breakerVars

-----------------------------------------------------------------------------
(* Properties.                                                             *)

\* However calls interleave, the counter never claims more failures than were
\* ever reported, so a pause means that at least Threshold actions failed.
PauseNeedsThreshold ==
    \A c \in Accounts :
        /\ state[c].failures <= seen[c].total
        /\ state[c].paused => seen[c].total >= Threshold

\* While no call is in progress and none was cut short, pauseUntil (with reason
\* and pausedAt) is there only for a paused account: recordSuccess's delete, a
\* statement of its own, never comes too early for that.
ClosedIsClean ==
    cuts.aborts = 0 /\ (\A k \in Callers : call[k].op = "idle")
        => \A c \in Accounts : ~state[c].paused => state[c].until = "none"

\* The counter is the number of failures recorded since the last success.
CounterIsStreak == \A c \in Accounts : state[c].failures = seen[c].streak

\* The breaker is open exactly when the last Threshold outcomes were failures.
PausedIffStreak == \A c \in Accounts : state[c].paused <=> seen[c].streak >= Threshold

\* control-state.repository.ts:74-77 says a batch is "either all-applied or
\* all-rolled-back": where `paused` was written, its pauseUntil is there too.  Holds of
\* calls one after the other only: see README.md, "On record".
PauseHasDeadline == \A c \in Accounts : state[c].paused => state[c].until # "none"

\* control-state.repository.ts:96-99 says the read-modify-write pattern "lost
\* increments under concurrent failure paths": no recorded failure goes uncounted.
\* recordFailure does not keep this: see README.md, "On record".
NoIncrementLost == \A c \in Accounts : state[c].failures >= seen[c].streak
=============================================================================
