----------------------------- MODULE ActionQueue -----------------------------
(***************************************************************************)
(* The action engine of the tweetly backend: rows of the <type>_actions    *)
(* tables, the ClaimWorker processes that claim and dispatch them, and the *)
(* operators' cancel / replay / archive / delete-account statements.       *)
(*                                                                         *)
(* Every SQL statement is one atomic step; every `await` of dispatch() is  *)
(* a point where other dispatches, processes and operators interleave.     *)
(* One dispatch() call is one slot.  tick() starts dispatches without      *)
(* awaiting them, so one process has many in flight.                       *)
(*                                                                         *)
(* The circuit breaker's answer is left open here (either answer, at any   *)
(* time); module ActionEngine composes this module with CircuitBreaker.    *)
(***************************************************************************)
EXTENDS Naturals, FiniteSets, Functions, XAccounts

CONSTANTS
    Actions,      \* idempotency keys: at most one row ever exists for each
    Types,        \* action types; every type has a table of its own
    TypeOf,       \* the type of each action
    AccountOf,    \* the account an action belongs to
    Workers,      \* ClaimWorker processes
    Slots,        \* dispatch() calls that can be in flight at once (a bound)
    BatchSize,    \* WORKER_BATCH_SIZE
    MaxAttempts,  \* max_attempts
    MaxFaults,    \* bound on crashes, failed queries and drain timeouts
    MaxStops,     \* bound on graceful shutdowns
    MaxReplays,   \* bound on operators' replays
    NoWorker, NoAction

ASSUME QueueAssumption ==
    /\ TypeOf \in [Actions -> Types]
    /\ AccountOf \in [Actions -> Accounts]
    /\ BatchSize \in Nat \ {0}
    /\ MaxAttempts \in Nat \ {0}
    /\ MaxFaults \in Nat
    /\ MaxStops \in Nat
    /\ MaxReplays \in Nat
    /\ NoWorker \notin Workers
    /\ NoAction \notin Actions

VARIABLES
    row,    \* the database: the row of each action
    disp,   \* the dispatch() call each slot runs
    proc,   \* the worker processes
    used,   \* how many faults, stops and replays happened (bounds only)
    sends   \* ghost: what X has received for an action since it was last
            \* enqueued or replayed

vars == <<row, disp, proc, used, sends>>

-----------------------------------------------------------------------------
(* Types.                                                                  *)

ErrorClass == {"auth", "rate_limit", "transient", "permanent"}

Status == {"pending", "claimed", "running", "succeeded", "failed", "dead",
           "cancelled"}

\* locked_until: NULL, in the future, or in the past.
Lease == {"none", "held", "expired"}

Row == [status : Status \cup {"absent"},
        attempts : 0 .. MaxAttempts,
        lease : Lease,
        owner : Workers \cup {NoWorker},
        due : BOOLEAN]                    \* scheduled_at <= now()

\* Where a dispatch() call is.  Each name but "free" is an await:
\*   tick     the claimBatch response is on its way back to tick()
\*   gate     circuitBreaker.isPaused
\*   defer    markFailed(status 'pending') of a paused account
\*   start    markRunning
\*   exec     executor.execute
\*   succeed  markSucceeded
\*   fail     markFailed(status 'failed' or 'dead')
\*   record   recordSuccess / recordFailure, recordSession*
Phase == {"free", "tick", "gate", "defer", "start", "exec", "succeed", "fail",
          "record"}

Dispatch == [phase : Phase,
             worker : Workers \cup {NoWorker},
             action : Actions \cup {NoAction},
             attempts : 0 .. MaxAttempts,  \* row.attempts as claimBatch returned it
             class : ErrorClass \cup {"none"},
             sent : BOOLEAN]               \* X has received this attempt

Process == [state : {"up", "draining", "down"},
            waitFor : SUBSET Slots]       \* drainInflight's snapshot of inflight

TypeOK ==
    /\ row \in [Actions -> Row]
    /\ disp \in [Slots -> Dispatch]
    /\ proc \in [Workers -> Process]
    /\ used \in [faults : 0 .. MaxFaults, stops : 0 .. MaxStops,
                 replays : 0 .. MaxReplays]
    /\ sends \in [Actions -> Nat]

Absent == [status |-> "absent", attempts |-> 0, lease |-> "none",
           owner |-> NoWorker, due |-> FALSE]

Free == [phase |-> "free", worker |-> NoWorker, action |-> NoAction,
         attempts |-> 0, class |-> "none", sent |-> FALSE]

Init ==
    /\ row = [a \in Actions |-> Absent]
    /\ disp = [s \in Slots |-> Free]
    /\ proc = [w \in Workers |-> [state |-> "up", waitFor |-> {}]]
    /\ used = [faults |-> 0, stops |-> 0, replays |-> 0]
    /\ sends = [a \in Actions |-> 0]

-----------------------------------------------------------------------------
(* Helpers.                                                                *)

\* RetryPolicy.decide: the attempt just made may be followed by another one.
ShouldRetry(attempt, class) == class # "permanent" /\ attempt < MaxAttempts

\* Mutant of AttemptsMade: the attempt is not counted.
AttemptsUncharged(s) == disp[s].attempts

\* What markFailed charges, from the attempts the claim returned.
AttemptsMade(s) == disp[s].attempts + 1

\* Mutant of Claimable: a taken row whose lease expired may be claimed again.
ClaimableAgain(t) ==
    {a \in Actions : /\ TypeOf[a] = t
                     /\ \/ row[a].status \in {"pending", "failed"} /\ row[a].due
                        \/ row[a].status \in {"claimed", "running"}
                     /\ row[a].lease # "held"
                     /\ row[a].attempts < MaxAttempts}

\* The rows claimBatch may select from the table of type t.
Claimable(t) ==
    {a \in Actions : /\ TypeOf[a] = t
                     /\ row[a].status \in {"pending", "failed"}
                     /\ row[a].due
                     /\ row[a].lease # "held"
                     /\ row[a].attempts < MaxAttempts}

FreeSlots == {s \in Slots : disp[s].phase = "free"}

\* The claimBatch call process w awaits, as the rows it returned.
TickOf(w) == {s \in Slots : disp[s].worker = w /\ disp[s].phase = "tick"}

\* ClaimWorker.inflight of process w.
InflightOf(w) == {s \in Slots : disp[s].worker = w} \ TickOf(w)

\* Mutant of Released: the lock stays.
StillLocked(r, status) == [r EXCEPT !.status = status]

\* The row as an UPDATE that clears the lock leaves it.
Released(r, status) ==
    [r EXCEPT !.status = status, !.lease = "none", !.owner = NoWorker]

\* The dispatch() calls in S settle: they leave inflight, and drainInflight no
\* longer waits for them.
Settle(S) ==
    /\ disp' = [s \in Slots |-> IF s \in S THEN Free ELSE disp[s]]
    /\ proc' = [w \in Workers |-> [proc[w] EXCEPT !.waitFor = @ \ S]]

Advance(s, phase) == disp' = [disp EXCEPT ![s].phase = phase]

Fault ==
    /\ used.faults < MaxFaults
    /\ used' = [used EXCEPT !.faults = @ + 1]

-----------------------------------------------------------------------------
(* Producers: REST, MCP and agent call ActionEnqueueService.enqueue.       *)

\* INSERT ... ON CONFLICT (idempotency_key) DO NOTHING: a second enqueue of
\* the same key, whatever became of the first, changes nothing.
Enqueue(a, due) ==
    /\ row[a].status = "absent"
    /\ row' = [row EXCEPT ![a] = [Absent EXCEPT !.status = "pending", !.due = due]]
    /\ UNCHANGED <<disp, proc, used, sends>>

\* scheduled_at passes.
BecomeDue(a) ==
    /\ row[a].status # "absent"
    /\ ~row[a].due
    /\ row' = [row EXCEPT ![a].due = TRUE]
    /\ UNCHANGED <<disp, proc, used, sends>>

\* locked_until passes.
LeaseExpires(a) ==
    /\ row[a].lease = "held"
    /\ row' = [row EXCEPT ![a].lease = "expired"]
    /\ UNCHANGED <<disp, proc, used, sends>>

-----------------------------------------------------------------------------
(* ClaimWorker.                                                            *)

\* tick(), for one registered type: claimBatch commits.  A process awaits one
\* claimBatch at a time, and tick() stops claiming once `stopped` is set.
ClaimBatch(w, t) ==
    /\ proc[w].state = "up"
    /\ TickOf(w) = {}
    /\ \E P \in (SUBSET FreeSlots) \ {{}} :
         /\ Cardinality(P) <= BatchSize
         /\ \E pick \in Injection(P, Claimable(t)) :
              /\ row' = [a \in Actions |->
                           IF a \in Range(pick)
                           THEN [row[a] EXCEPT !.status = "claimed",
                                               !.lease = "held", !.owner = w]
                           ELSE row[a]]
              /\ disp' = [s \in Slots |->
                           IF s \in P
                           THEN [Free EXCEPT !.phase = "tick", !.worker = w,
                                             !.action = pick[s],
                                             !.attempts = row[pick[s]].attempts]
                           ELSE disp[s]]
    /\ UNCHANGED <<proc, used, sends>>

\* The response reaches tick(): every row is dispatched in one turn of the event
\* loop, whether or not the process is shutting down.
StartDispatches(w) ==
    /\ TickOf(w) # {}
    /\ disp' = [s \in Slots |-> IF s \in TickOf(w)
                                THEN [disp[s] EXCEPT !.phase = "gate"]
                                ELSE disp[s]]
    /\ UNCHANGED <<row, proc, used, sends>>

\* circuitBreaker.isPaused(row.account_id) answers.
Gate(s, paused) ==
    /\ disp[s].phase = "gate"
    /\ Advance(s, IF paused THEN "defer" ELSE "start")
    /\ UNCHANGED <<row, proc, used, sends>>

\* Paused account: the row goes back to pending, five minutes from now.
Defer(s) ==
    /\ disp[s].phase = "defer"
    /\ LET a == disp[s].action
       IN  row' = [row EXCEPT ![a] = [Released(@, "pending") EXCEPT
                                        !.attempts = disp[s].attempts,
                                        !.due = FALSE]]
    /\ Settle({s})
    /\ UNCHANGED <<used, sends>>

\* markRunning: WHERE status = 'claimed'.  Nobody looks at how many rows it hit.
MarkRunning(s) ==
    /\ disp[s].phase = "start"
    /\ LET a == disp[s].action
       IN  row' = [row EXCEPT ![a].status =
                     IF @ = "claimed" THEN "running" ELSE @]
    /\ Advance(s, "exec")
    /\ UNCHANGED <<proc, used, sends>>

\* The executor clicks the button: X has the tweet, like, follow or message.
SendToX(s) ==
    /\ disp[s].phase = "exec"
    /\ ~disp[s].sent
    /\ disp' = [disp EXCEPT ![s].sent = TRUE]
    /\ sends' = [sends EXCEPT ![disp[s].action] = @ + 1]
    /\ UNCHANGED <<row, proc, used>>

\* The executor returns ok.  It need not have sent anything now: "already liked",
\* or a noop executor.
ExecutorSucceeds(s) ==
    /\ disp[s].phase = "exec"
    /\ Advance(s, "succeed")
    /\ UNCHANGED <<row, proc, used, sends>>

\* The executor throws or returns an error, sent or not: a confirmation that does
\* not arrive is an error too.  The class comes from the message alone.
ExecutorFails(s, class) ==
    /\ disp[s].phase = "exec"
    /\ disp' = [disp EXCEPT ![s].phase = "fail", ![s].class = class]
    /\ UNCHANGED <<row, proc, used, sends>>

\* persistOutcome, result.ok: markSucceeded, WHERE id only.
PersistSuccess(s) ==
    /\ disp[s].phase = "succeed"
    /\ row' = [row EXCEPT ![disp[s].action] = Released(@, "succeeded")]
    /\ Advance(s, "record")
    /\ UNCHANGED <<proc, used, sends>>

\* persistOutcome, failure: markFailed, WHERE id only.  Without a retry scheduled_at keeps its value.
PersistFailure(s) ==
    /\ disp[s].phase = "fail"
    /\ LET a == disp[s].action
           attempts == AttemptsMade(s)
       IN  row' = [row EXCEPT ![a] =
                     IF ShouldRetry(attempts, disp[s].class)
                     THEN [Released(@, "failed") EXCEPT !.attempts = attempts,
                                                        !.due = FALSE]
                     ELSE [Released(@, "dead") EXCEPT !.attempts = attempts]]
    /\ Advance(s, "record")
    /\ UNCHANGED <<proc, used, sends>>

\* The breaker and the session health have been told: dispatch() returns.
RecordOutcome(s) ==
    /\ disp[s].phase = "record"
    /\ Settle({s})
    /\ UNCHANGED <<row, used, sends>>

-----------------------------------------------------------------------------
(* Failures.                                                               *)

\* An awaited query rejects, or toPayload throws: tick()'s catch logs it and the
\* rest of dispatch() is skipped.
DispatchAborts(s) ==
    /\ disp[s].phase \notin {"free", "tick", "exec"}
    /\ Fault
    /\ Settle({s})
    /\ UNCHANGED <<row, sends>>

\* claimBatch committed, but its response is lost: tick() rejects.
ClaimResponseLost(w) ==
    /\ TickOf(w) # {}
    /\ Fault
    /\ Settle(TickOf(w))
    /\ UNCHANGED <<row, sends>>

\* The process ends, and with it everything it had in flight.
Ends(w) ==
    /\ disp' = [s \in Slots |-> IF disp[s].worker = w THEN Free ELSE disp[s]]
    /\ proc' = [proc EXCEPT ![w] = [state |-> "down", waitFor |-> {}]]

Crash(w) ==
    /\ proc[w].state # "down"
    /\ Fault
    /\ Ends(w)
    /\ UNCHANGED <<row, sends>>

\* onModuleDestroy: stopped = true; drainInflight awaits what is in flight now.
Stop(w) ==
    /\ proc[w].state = "up"
    /\ used.stops < MaxStops
    /\ used' = [used EXCEPT !.stops = @ + 1]
    /\ proc' = [proc EXCEPT ![w] = [state |-> "draining",
                                    waitFor |-> InflightOf(w)]]
    /\ UNCHANGED <<row, disp, sends>>

\* The snapshot has settled: the process exits.
Drained(w) ==
    /\ proc[w].state = "draining"
    /\ proc[w].waitFor = {}
    /\ Ends(w)
    /\ UNCHANGED <<row, used, sends>>

\* 30 s have passed: the process exits all the same.
DrainTimeout(w) ==
    /\ proc[w].state = "draining"
    /\ proc[w].waitFor # {}
    /\ Fault
    /\ Ends(w)
    /\ UNCHANGED <<row, sends>>

\* A new process; its worker id takes the place of the old one's.
Restart(w) ==
    /\ proc[w].state = "down"
    /\ proc' = [proc EXCEPT ![w].state = "up"]
    /\ UNCHANGED <<row, disp, used, sends>>

-----------------------------------------------------------------------------
(* Operators.                                                              *)

\* Mutant of CancelAction: a claimed row can be cancelled, as ActionStateMachine has it.
CancelClaimed(a) ==
    /\ row[a].status \in {"pending", "failed", "claimed"}
    /\ row' = [row EXCEPT ![a] = Released(@, "cancelled")]
    /\ UNCHANGED <<disp, proc, used, sends>>

\* ActionAdminRepository.cancelAction
CancelAction(a) ==
    /\ row[a].status \in {"pending", "failed"}
    /\ row' = [row EXCEPT ![a] = Released(@, "cancelled")]
    /\ UNCHANGED <<disp, proc, used, sends>>

\* ActionAdminRepository.replayAction
ReplayAction(a) ==
    /\ row[a].status \in {"dead", "failed", "cancelled"}
    /\ used.replays < MaxReplays
    /\ used' = [used EXCEPT !.replays = @ + 1]
    /\ row' = [row EXCEPT ![a] = [Released(@, "pending") EXCEPT
                                    !.attempts = 0, !.due = TRUE]]
    /\ sends' = [sends EXCEPT ![a] = 0]
    /\ UNCHANGED <<disp, proc>>

\* ActionAdminRepository.archiveDead, for the table of type t
ArchiveDead(t) ==
    LET dead == {a \in Actions : TypeOf[a] = t /\ row[a].status = "dead"}
    IN  /\ dead # {}
        /\ row' = [a \in Actions |-> IF a \in dead
                                     THEN Released(row[a], "cancelled")
                                     ELSE row[a]]
        /\ UNCHANGED <<disp, proc, used, sends>>

\* ActionAdminRepository.cancelPendingByAccount, inside deleteAccount's
\* transaction.  Unlike cancelAction it does not write the lock columns.
CancelPendingByAccount(c) ==
    LET open == {a \in Actions : /\ AccountOf[a] = c
                                 /\ row[a].status \in {"pending", "failed"}}
    IN  /\ row' = [a \in Actions |-> IF a \in open
                                     THEN [row[a] EXCEPT !.status = "cancelled"]
                                     ELSE row[a]]
        /\ UNCHANGED <<disp, proc, used, sends>>

-----------------------------------------------------------------------------
DispatchStep(s) ==
    \/ \E paused \in BOOLEAN : Gate(s, paused)
    \/ Defer(s)
    \/ MarkRunning(s)
    \/ SendToX(s)
    \/ ExecutorSucceeds(s)
    \/ \E class \in ErrorClass : ExecutorFails(s, class)
    \/ PersistSuccess(s)
    \/ PersistFailure(s)
    \/ RecordOutcome(s)

ProcessStep(w) ==
    \/ \E t \in Types : ClaimBatch(w, t)
    \/ StartDispatches(w)
    \/ Stop(w)
    \/ Drained(w)
    \/ Restart(w)

FaultStep ==
    \/ \E s \in Slots : DispatchAborts(s)
    \/ \E w \in Workers : ClaimResponseLost(w) \/ Crash(w) \/ DrainTimeout(w)

OperatorStep ==
    \/ \E a \in Actions : CancelAction(a) \/ ReplayAction(a)
    \/ \E t \in Types : ArchiveDead(t)
    \/ \E c \in Accounts : CancelPendingByAccount(c)

TimeStep == \E a \in Actions : BecomeDue(a) \/ LeaseExpires(a)

Next ==
    \/ \E a \in Actions, due \in BOOLEAN : Enqueue(a, due)
    \/ \E s \in Slots : DispatchStep(s)
    \/ \E w \in Workers : ProcessStep(w)
    \/ FaultStep
    \/ OperatorStep
    \/ TimeStep

Spec == Init /\ [][Next]_vars

\* Scheduling.  Node runs every settled promise (weak fairness of each step of a
\* dispatch), the executor gives up after its Playwright timeouts, the timer fires
\* tick() again, and wall-clock time passes.  claimBatch takes rows in scheduled_at
\* order, so a due row is not overtaken for ever: strong fairness of claiming it.
\* What isPaused answers is up to the breaker (ActionEngine).
ClaimOf(a) == \E w \in Workers : ClaimBatch(w, TypeOf[a]) /\ row'[a].status = "claimed"

ExecutorReturns(s) ==
    ExecutorSucceeds(s) \/ \E class \in ErrorClass : ExecutorFails(s, class)

DispatchFairness ==
    \A s \in Slots : /\ WF_vars(\E paused \in BOOLEAN : Gate(s, paused))
                     /\ WF_vars(Defer(s) \/ MarkRunning(s))
                     /\ WF_vars(ExecutorReturns(s))
                     /\ WF_vars(PersistSuccess(s) \/ PersistFailure(s))
                     /\ WF_vars(RecordOutcome(s))

ProcessFairness ==
    \A w \in Workers : WF_vars(StartDispatches(w)) /\ WF_vars(Drained(w))
                       /\ WF_vars(Restart(w))

ClaimFairness == \A a \in Actions : WF_vars(BecomeDue(a)) /\ SF_vars(ClaimOf(a))

-----------------------------------------------------------------------------
(* Properties.                                                             *)

HoldPhase == {"tick", "gate", "defer", "start", "exec", "succeed", "fail"}

\* The dispatch in slot s has claimed action a and not yet written its outcome.
Holds(s, a) == disp[s].phase \in HoldPhase /\ disp[s].action = a

Taken(a) == row[a].status \in {"claimed", "running"}

\* At most one dispatch of all processes holds a row: no two executors ever work
\* on the same action, even when the lease of the first has expired
\* (claimBatch's status filter, markSucceeded / markFailed by id only).
SingleHolder ==
    \A s1, s2 \in Slots : \A a \in Actions :
        Holds(s1, a) /\ Holds(s2, a) => s1 = s2

\* What a holder remembers is still true: the row carries its worker id and the
\* attempts it read, and is `claimed` before markRunning and `running` from then
\* to the write of the outcome.  markRunning's row count, which nobody checks,
\* is therefore always 1, and no cancelled, replayed or archived row is executed.
HolderAgreesWithRow ==
    \A s \in Slots : \A a \in Actions :
        Holds(s, a) =>
            /\ row[a].owner = disp[s].worker
            /\ row[a].attempts = disp[s].attempts
            /\ row[a].status = IF disp[s].phase \in {"exec", "succeed", "fail"}
                               THEN "running" ELSE "claimed"

\* A row outside claimed / running carries no lock, so claimBatch's test of
\* locked_until never hides one, whichever of the seven UPDATEs wrote it last.
NoLockOutsideClaim ==
    \A a \in Actions :
        ~Taken(a) => row[a].lease = "none" /\ row[a].owner = NoWorker

\* A row that waits for a claim can get one: claimBatch's attempts < max_attempts
\* hides no pending or failed row for ever.
WaitingRowsHaveAttempts ==
    \A a \in Actions :
        row[a].status \in {"pending", "failed", "claimed", "running"}
            => row[a].attempts < MaxAttempts

\* No waiting row is hidden from claimBatch for ever: neither its test of locked_until
\* nor its test of attempts, each written by other statements than the one that reads
\* it, ever excludes a row that waits.
NothingHidesWaitingRow == NoLockOutsideClaim /\ WaitingRowsHaveAttempts

\* X receives an action at most once per attempt: counting the running or final
\* attempt, never more often than the attempts charged to it since it was
\* enqueued or replayed, hence at most MaxAttempts times.
SendsWithinAttempts ==
    \A a \in Actions :
        sends[a] <= row[a].attempts
                    + IF row[a].status \in {"running", "succeeded"} THEN 1 ELSE 0

\* No late writer touches a succeeded row: not a second dispatch, not a stale
\* retry, not an operator.
SucceededIsFinal ==
    [][\A a \in Actions : row[a].status = "succeeded" => row'[a].status = "succeeded"]_vars

\* markFailed writes back attempts computed from the claim's copy; that never
\* undoes an attempt counted since, nor a replay's reset: the counter goes up by
\* one, or to 0 by a replay.
AttemptsNeverRollBack ==
    [][\A a \in Actions :
          row'[a].attempts # row[a].attempts =>
              \/ row'[a].attempts = row[a].attempts + 1 /\ row[a].status = "running"
              \/ /\ row'[a].attempts = 0
                 /\ row[a].status \in {"dead", "failed", "cancelled"}
                 /\ row'[a].status = "pending"]_vars

\* What has been written of an action stands, although markSucceeded and markFailed
\* write by id what they computed minutes before: its success and its count of attempts.
HistoryStands == SucceededIsFinal /\ AttemptsNeverRollBack

\* Without faults and shutdowns, and with one dispatch at a time, every enqueued
\* action reaches an end, however often it fails and however often the breaker has
\* it put back: the pauses do end, and not by assumption, and every claim is written
\* back by its dispatch, on every path through it.
ActionsSettle ==
    \A a \in Actions :
        row[a].status = "pending" ~> row[a].status \in {"succeeded", "dead", "cancelled"}

\* docs/12-queue-alarms.md:11 says "claimed/running = mid-flight": a row in one of
\* these states is held by a dispatch of a live process.
TakenIsMidFlight == \A a \in Actions : Taken(a) => \E s \in Slots : Holds(s, a)

\* polling-worker.base.ts:40-43 has subclasses "wait for in-flight work to
\* settle": a process that has drained without a timeout leaves no row claimed.  The
\* code does not keep this: see README.md, "On record".
DrainLeavesNoClaim ==
    \A w \in Workers :
        used.faults = 0 /\ proc[w].state = "down" =>
            \A a \in Actions : Taken(a) => row[a].owner # w

\* The lifecycle the engine promises, and the state of it that rows and
\* dispatches stand for.  A taken row nobody holds is lost.
LifecycleState(a) ==
    CASE row[a].status = "absent" -> "none"
      [] row[a].status \in {"pending", "failed"} -> "open"
      [] Taken(a) -> IF \E s \in Slots : Holds(s, a) THEN "taken" ELSE "lost"
      [] row[a].status = "succeeded" -> "done"
      [] OTHER -> row[a].status

Lifecycle ==
    INSTANCE ActionLifecycle WITH
        state <- [a \in Actions |-> LifecycleState(a)],
        spent <- [a \in Actions |-> \E s \in Slots : Holds(s, a) /\ disp[s].sent],
        sent <- sends

\* The claim, dispatch and operator code implements the lifecycle.
ImplementsLifecycle == Lifecycle!Spec
=============================================================================
