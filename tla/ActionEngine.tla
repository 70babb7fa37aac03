---------------------------- MODULE ActionEngine ----------------------------
(***************************************************************************)
(* The action engine with its circuit breaker and the session health of    *)
(* the accounts: ActionQueue's steps, each with what it reads and writes   *)
(* in control_state and accounts.  A dispatch() asks the breaker before it *)
(* executes and tells it the outcome afterwards, in several statements, so *)
(* the dispatches of one account race each other, an administrator's       *)
(* clear, a login and the deletion of the account.                         *)
(***************************************************************************)
EXTENDS ActionQueue, CircuitBreaker

CONSTANTS
    AuthThreshold,  \* authFailurePauseThreshold
    Admins,         \* administrators' calls of the breaker
    Reauthed        \* accounts whose owner logs in to X again

ASSUME EngineAssumption ==
    /\ AuthThreshold \in Nat \ {0}
    /\ Callers = Slots \cup Admins
    /\ MaxAborts = MaxFaults + MaxStops
    /\ Admins \cap Slots = {}
    /\ Reauthed \subseteq Accounts

VARIABLES
    session,  \* accounts.status and session.auth_failure_count
    burst     \* ghost, see Burst

engineVars == <<vars, breakerVars, session, burst>>

\* authFailures is exact up to the threshold, the only value it is compared with.
\* storing: a login has stored cookies and will report its success.
Session == [status : {"active", "paused", "absent"},
            authFailures : 0 .. AuthThreshold,
            storing : BOOLEAN]

\* Of an account whose breaker is open: the dispatches that were past isPaused when it
\* opened, and what X has received from each since then.
Burst == [past : SUBSET Slots, sent : [Slots -> Nat]]

NoBurst == [past |-> {}, sent |-> [s \in Slots |-> 0]]

EngineTypeOK ==
    /\ TypeOK
    /\ BreakerTypeOK
    /\ session \in [Accounts -> Session]
    /\ burst \in [Accounts -> Burst]

EngineInit ==
    /\ Init
    /\ BreakerInit
    /\ session = [c \in Accounts |->
                    [status |-> "active", authFailures |-> 0, storing |-> FALSE]]
    /\ burst = [c \in Accounts |-> NoBurst]

-----------------------------------------------------------------------------
AccountAt(s) == AccountOf[disp[s].action]

\* The rest of the dispatch() calls in S is skipped, breaker calls included.
CutCalls(S) ==
    LET K == {s \in S : call[s].op # "idle"}
    IN  IF K = {} THEN UNCHANGED breakerVars ELSE AbortCalls(K)

OfWorker(w) == {s \in Slots : disp[s].worker = w}

\* recordSessionFailure: counter and status in one transaction.
SessionFails(c) ==
    LET failures == IF session[c].authFailures = AuthThreshold
                    THEN AuthThreshold ELSE session[c].authFailures + 1
    IN  session' = [session EXCEPT
                      ![c].authFailures = failures,
                      ![c].status = IF failures = AuthThreshold /\ @ # "absent"
                                    THEN "paused" ELSE @]

\* recordSessionSuccess resets the counter and leaves accounts.status alone.
SessionSucceeds(c) == session' = [session EXCEPT ![c].authFailures = 0]

-----------------------------------------------------------------------------
(* dispatch()                                                              *)

\* Mutant of AskBreaker: nobody asks.
AskNobody(s) == Gate(s, FALSE) /\ UNCHANGED <<breakerVars, session>>

AskBreaker(s) ==
    /\ Gate(s, IsPaused(AccountAt(s)))
    /\ UNCHANGED <<breakerVars, session>>

\* Steps of the dispatch that touch neither breaker nor session.
RowStep(s) ==
    /\ \/ Defer(s) \/ MarkRunning(s) \/ SendToX(s) \/ ExecutorSucceeds(s)
       \/ \E class \in ErrorClass : ExecutorFails(s, class)
    /\ UNCHANGED <<breakerVars, session>>

ReportSuccess(s) ==
    /\ PersistSuccess(s)
    /\ BeginReset(s, AccountAt(s))
    /\ UNCHANGED session

\* Mutant of ReportFailure: auth failures go to the session health alone.
ReportUnlessAuth(s) ==
    /\ PersistFailure(s)
    /\ IF disp[s].class = "auth" THEN UNCHANGED breakerVars
       ELSE BeginFailure(s, AccountAt(s))
    /\ UNCHANGED session

ReportFailure(s) ==
    /\ PersistFailure(s)
    /\ BeginFailure(s, AccountAt(s))
    /\ UNCHANGED session

\* The breaker has answered; the session health is told, dispatch() returns.
RecordSession(s) ==
    /\ call[s].op = "idle"
    /\ RecordOutcome(s)
    /\ CASE disp[s].class = "none" -> SessionSucceeds(AccountAt(s))
         [] disp[s].class = "auth" -> SessionFails(AccountAt(s))
         [] OTHER -> UNCHANGED session
    /\ UNCHANGED breakerVars

\* A statement of a breaker call in progress.
BreakerStep ==
    /\ \E k \in Callers : CallStep(k)
    /\ UNCHANGED <<vars, session>>

-----------------------------------------------------------------------------
(* Everyone else.                                                          *)

EngineFault ==
    /\ \/ \E s \in Slots : DispatchAborts(s) /\ CutCalls({s})
       \/ \E w \in Workers : \/ ClaimResponseLost(w) /\ UNCHANGED breakerVars
                             \/ Crash(w) /\ CutCalls(OfWorker(w))
                             \/ DrainTimeout(w) /\ CutCalls(OfWorker(w))
    /\ UNCHANGED session

WorkerStep(w) ==
    /\ \/ \E t \in Types : ClaimBatch(w, t) /\ UNCHANGED breakerVars
       \/ StartDispatches(w) /\ UNCHANGED breakerVars
       \/ Stop(w) /\ UNCHANGED breakerVars
       \/ Restart(w) /\ UNCHANGED breakerVars
       \/ Drained(w) /\ CutCalls(OfWorker(w))
    /\ UNCHANGED session

\* Enqueue does not look at accounts: resolveAccountId did, some statements ago.
QueueRequest ==
    /\ \/ \E a \in Actions, due \in BOOLEAN : Enqueue(a, due)
       \/ \E a \in Actions : CancelAction(a) \/ ReplayAction(a)
       \/ \E t \in Types : ArchiveDead(t)
    /\ UNCHANGED <<breakerVars, session>>

\* CircuitBreakerService.clear, for an administrator
ClearBreaker(k, c) ==
    /\ BeginReset(k, c)
    /\ UNCHANGED <<vars, session>>

\* AccountsService.deleteAccount: one transaction.
DeleteAccount(c) ==
    /\ session[c].status # "absent"
    /\ CancelPendingByAccount(c)
    /\ DeleteKeys(c)
    /\ session' = [session EXCEPT ![c].status = "absent", ![c].authFailures = 0]

\* LoginWorker.upsertAccountWithCookies
LoginStores(c) ==
    /\ ~session[c].storing
    /\ session' = [session EXCEPT ![c].status = "active", ![c].storing = TRUE]
    /\ UNCHANGED <<vars, breakerVars>>

\* LoginWorker: recordSessionSuccess, a transaction of its own.
LoginReports(c) ==
    /\ session[c].storing
    /\ session' = [session EXCEPT ![c].authFailures = 0, ![c].storing = FALSE]
    /\ UNCHANGED <<vars, breakerVars>>

\* LoginWorker: a failed reauth of a known account
ReauthFails(c) ==
    /\ session[c].status # "absent"
    /\ SessionFails(c)
    /\ UNCHANGED <<vars, breakerVars>>

Clock ==
    \/ /\ \E a \in Actions : BecomeDue(a) \/ LeaseExpires(a)
       /\ UNCHANGED <<breakerVars, session>>
    \/ \E c \in Accounts : PauseExpires(c) /\ UNCHANGED <<vars, session>>

-----------------------------------------------------------------------------
EngineStep ==
    \/ \E s \in Slots : \/ AskBreaker(s) \/ RowStep(s)
                        \/ ReportSuccess(s) \/ ReportFailure(s) \/ RecordSession(s)
    \/ BreakerStep
    \/ EngineFault
    \/ \E w \in Workers : WorkerStep(w)
    \/ QueueRequest
    \/ \E c \in Accounts : DeleteAccount(c) \/ \E k \in Admins : ClearBreaker(k, c)
    \/ \E c \in Reauthed : LoginStores(c) \/ LoginReports(c) \/ ReauthFails(c)
    \/ Clock

\* The dispatch has passed isPaused for account c, and has yet to send.
Committed(s, c) ==
    /\ disp[s].phase \in {"start", "exec"}
    /\ ~disp[s].sent
    /\ AccountAt(s) = c

Sent(s, c) == ~disp[s].sent /\ disp'[s].sent /\ AccountAt(s) = c

\* The ghost: what X receives counts while the breaker is open.
CountBurst ==
    burst' = [c \in Accounts |->
        IF IsPaused(c)'
        THEN [past |-> IF IsPaused(c) THEN burst[c].past
                       ELSE {s \in Slots : Committed(s, c)'},
              sent |-> [s \in Slots |-> burst[c].sent[s] + (IF Sent(s, c) THEN 1 ELSE 0)]]
        ELSE NoBurst]

EngineNext == EngineStep /\ CountBurst

EngineSpec == EngineInit /\ [][EngineNext]_engineVars

\* The scheduling of ActionQueue, statements that return, and time that passes.
BreakerFairness ==
    /\ \A s \in Slots : WF_breakerVars(CallStep(s))
    /\ \A c \in Accounts : WF_breakerVars(PauseExpires(c))

EngineFairSpec ==
    EngineSpec /\ DispatchFairness /\ ProcessFairness /\ ClaimFairness /\ BreakerFairness

-----------------------------------------------------------------------------
(* Properties.                                                             *)

\* An open breaker stops an account, but for the dispatches that were past isPaused
\* when it opened: X receives at most one more action from each of them, and none from
\* others, however often their failures renew the pause, and even if a recordSuccess or
\* clear that comes late deletes pauseUntil, opens an expired pause again and it never
\* ends.
BurstIsBounded ==
    \A c \in Accounts, s \in Slots :
        burst[c].sent[s] <= IF s \in burst[c].past THEN 1 ELSE 0

\* The attempts charged to the actions of account c, and the failures that the breaker
\* is counting and those it has counted too.
Charged(c) ==
    {charge \in Actions \X (1 .. MaxAttempts) :
        AccountOf[charge[1]] = c /\ charge[2] <= row[charge[1]].attempts}

InProgress(c) == {s \in Slots : call[s].op = "failure" /\ call[s].account = c}

Reported(c) == seen[c].total + Cardinality(InProgress(c))

\* The breaker hears of every attempt that is charged, exactly once, although row and
\* breaker are written in different statements and the row may be claimed, cancelled or
\* charged again in between; only a call that is cut short loses one.
FailuresReachBreaker ==
    used.replays = 0 =>
        \A c \in Accounts :
            /\ Reported(c) <= Cardinality(Charged(c))
            /\ cuts.aborts = 0 => Reported(c) = Cardinality(Charged(c))

\* One dispatch at a time: the counter is the number of failures since the last
\* success, the breaker is open exactly when these reach the threshold, and always
\* with a deadline.  (Concurrent dispatches break each of the three.)
BreakerIsExact == CounterIsStreak /\ PausedIffStreak /\ PauseHasDeadline

\* README.md:372 says that after 3 consecutive auth failures "the account is
\* auto-paused. Queued actions are held": no dispatch of a paused account goes on
\* to execute.  The code does not keep this: see README.md, "On record".
AccountPauseHolds ==
    [][\A s \in Slots :
          disp[s].phase = "gate" /\ disp'[s].phase = "start"
              => session[AccountAt(s)].status # "paused"]_engineVars
=============================================================================
