------------------------------ MODULE LoginJobs ------------------------------
(***************************************************************************)
(* The queue of X logins: rows of account_login_jobs, the LoginWorker      *)
(* processes that claim one at a time, keep its lock alive while a browser *)
(* logs in, and write the result; users who create and cancel jobs.        *)
(*                                                                         *)
(* All mark* statements name the row by id alone, and extendLock by id and *)
(* status, so a worker whose lock has lapsed goes on writing a row that    *)
(* another worker has claimed.                                             *)
(*                                                                         *)
(* The answer of findActiveCooldown is left open, at creation and before   *)
(* each retry; what a login writes to accounts beyond its cookies is in    *)
(* module ActionEngine.                                                    *)
(***************************************************************************)
EXTENDS Naturals

CONSTANTS
    Workers,    \* LoginWorker processes
    MaxJobs,    \* bound on the jobs users create
    MaxFaults,  \* bound on crashes, rejected queries and drain timeouts
    MaxStalls,  \* bound on locks that lapse under a working process
    MaxStops    \* bound on graceful shutdowns

ASSUME LoginAssumption == {MaxJobs, MaxFaults, MaxStalls, MaxStops} \subseteq Nat

\* Jobs in the order of created_at; a job that is no job is 0.
Jobs == 1 .. MaxJobs
NoJob == 0

VARIABLES
    job,      \* the database: the row of each job
    stored,   \* the jobs whose cookies accounts has received
    proc,     \* the worker processes
    used,     \* how many faults, stalls and stops happened (bounds)
    logins    \* ghost: how often X has seen a login for each job

vars == <<job, stored, proc, used, logins>>

-----------------------------------------------------------------------------
Open == {"queued", "running"}
Terminal == {"success", "failed", "cancelled"}

\* secret: encrypted_password is not NULL.  lock: locked_until is NULL, in the
\* future, or in the past.
Row == [status : {"absent"} \cup Open \cup Terminal,
        secret : BOOLEAN,
        lock : {"none", "held", "expired"}]

\* Where the process is with its job.  Each but "idle" is an await:
\*   claim    the claimNext response is on its way back to tick()
\*   login    login.run, or the delay before it is run again
\*   cancel   markCancelled
\*   fail     markFailure with the reason of the login
\*   store    upsertAccountWithCookies
\*   success  markSuccess
\*   rescue   tick()'s catch: markFailure 'unknown'
Phase == {"idle", "claim", "login", "cancel", "fail", "store", "success", "rescue"}

\* process() has started its heartbeat and registered its AbortController.
Processing == {"login", "cancel", "fail", "store", "success"}

MaxRuns == 3  \* a login, its transient retry, its proxy fallback

Process == [state : {"up", "draining", "down"},
            phase : Phase,
            job : Jobs \cup {NoJob},
            run : 1 .. MaxRuns,   \* which login.run of this process()
            aborted : BOOLEAN,    \* its AbortController has fired
            awaited : BOOLEAN]    \* drainInflight waits for it

TypeOK ==
    /\ job \in [Jobs -> Row]
    /\ stored \subseteq Jobs
    /\ proc \in [Workers -> Process]
    /\ used \in [faults : 0 .. MaxFaults, stalls : 0 .. MaxStalls, stops : 0 .. MaxStops]
    /\ logins \in [Jobs -> Nat]

Absent == [status |-> "absent", secret |-> FALSE, lock |-> "none"]

Idle == [state |-> "up", phase |-> "idle", job |-> NoJob, run |-> 1,
         aborted |-> FALSE, awaited |-> FALSE]

Init ==
    /\ job = [j \in Jobs |-> Absent]
    /\ stored = {}
    /\ proc = [w \in Workers |-> Idle]
    /\ used = [faults |-> 0, stalls |-> 0, stops |-> 0]
    /\ logins = [j \in Jobs |-> 0]

-----------------------------------------------------------------------------
(* Helpers.                                                                *)

At(w, phase) == proc[w].phase = phase

Goto(w, phase) == proc' = [proc EXCEPT ![w].phase = phase]

\* inflight settles: the process may claim again, drainInflight returns.
Settled(p) == [Idle EXCEPT !.state = p.state]

Settle(w) == proc' = [proc EXCEPT ![w] = Settled(@)]

Fault ==
    /\ used.faults < MaxFaults
    /\ used' = [used EXCEPT !.faults = @ + 1]

\* Mutant of Claimable: a running row is never claimed.
ClaimableQueued == {j \in Jobs : job[j].status = "queued" /\ job[j].lock # "held"}

\* Rows claimNext may select: queued, or running under a lapsed lock.
Claimable ==
    {j \in Jobs : \/ job[j].status = "queued" /\ job[j].lock # "held"
                  \/ job[j].status = "running" /\ job[j].lock = "expired"}

\* Mutant of Finish: the credentials stay in the row.
FinishWithSecret(j, status) ==
    job' = [job EXCEPT ![j].status = status, ![j].lock = "none"]

\* markSuccess, markFailure, markCancelled: WHERE id only.
Finish(j, status) ==
    job' = [job EXCEPT ![j] = [status |-> status, secret |-> FALSE, lock |-> "none"]]

\* resetStaleRunningJobs, for all rows at once.
Recovered ==
    [j \in Jobs |-> IF job[j].status = "running" /\ job[j].lock = "expired"
                    THEN [job[j] EXCEPT !.status = "queued", !.lock = "none"]
                    ELSE job[j]]

-----------------------------------------------------------------------------
(* Users.                                                                  *)

\* createConnectJob / createReauthJob, once the cooldown gate has let it pass.
Create(j) ==
    /\ job[j].status = "absent"
    /\ \A i \in 1 .. j - 1 : job[i].status # "absent"
    /\ job' = [job EXCEPT ![j] = [Absent EXCEPT !.status = "queued", !.secret = TRUE]]
    /\ UNCHANGED <<stored, proc, used, logins>>

\* cancelForUser.  Its SELECT decides nothing that the UPDATE does not test again.
\* The lock stays.
CancelForUser(j) ==
    /\ job[j].status \in Open
    /\ job' = [job EXCEPT ![j].status = "cancelled", ![j].secret = FALSE]
    /\ UNCHANGED <<stored, proc, used, logins>>

-----------------------------------------------------------------------------
(* LoginWorker.                                                            *)

\* tick(): claimNext commits, oldest row first.
ClaimNext(w) ==
    /\ proc[w].state = "up"
    /\ At(w, "idle")
    /\ \E j \in Claimable :
         /\ \A i \in Claimable : j <= i
         /\ job' = [job EXCEPT ![j].status = "running", ![j].lock = "held"]
         /\ proc' = [proc EXCEPT ![w].phase = "claim", ![w].job = j]
    /\ UNCHANGED <<stored, used, logins>>

\* The response reaches tick(), shutting down or not: process() starts, and
\* login.run with it.
StartLogin(w) ==
    /\ At(w, "claim")
    /\ Goto(w, "login")
    /\ logins' = [logins EXCEPT ![proc[w].job] = @ + 1]
    /\ UNCHANGED <<job, stored, used>>

\* The stored credentials do not decrypt.
CipherFails(w) ==
    /\ At(w, "claim")
    /\ Goto(w, "fail")
    /\ UNCHANGED <<job, stored, used, logins>>

\* A step boundary of the login: the signal has fired, or the row is cancelled.
ProbeCancelled(w) ==
    /\ At(w, "login")
    /\ proc[w].aborted \/ job[proc[w].job].status = "cancelled"
    /\ Goto(w, "cancel")
    /\ UNCHANGED <<job, stored, used, logins>>

\* The login ends well after its last probe; a reauth that logged in as somebody
\* else fails all the same.
LoginSucceeds(w) ==
    /\ At(w, "login")
    /\ \E phase \in {"store", "fail"} : Goto(w, phase)
    /\ UNCHANGED <<job, stored, used, logins>>

LoginFails(w) ==
    /\ At(w, "login")
    /\ Goto(w, "fail")
    /\ UNCHANGED <<job, stored, used, logins>>

\* Mutant of LoginRetries: retries are not remembered.
RetryForgets(w) ==
    /\ At(w, "login")
    /\ logins' = [logins EXCEPT ![proc[w].job] = @ + 1]
    /\ UNCHANGED <<job, stored, proc, used>>

\* The login failed in a way a transient retry (once, and first) or the proxy
\* fallback (once) may help.
LoginRetries(w) ==
    /\ At(w, "login")
    /\ \E run \in proc[w].run + 1 .. MaxRuns : proc' = [proc EXCEPT ![w].run = run]
    /\ logins' = [logins EXCEPT ![proc[w].job] = @ + 1]
    /\ UNCHANGED <<job, stored, used>>

MarkCancelled(w) ==
    /\ At(w, "cancel")
    /\ Finish(proc[w].job, "cancelled")
    /\ Settle(w)
    /\ UNCHANGED <<stored, used, logins>>

MarkFailure(w) ==
    /\ At(w, "fail") \/ At(w, "rescue")
    /\ Finish(proc[w].job, "failed")
    /\ Settle(w)
    /\ UNCHANGED <<stored, used, logins>>

\* Mutant of StoreCookies: the reauth's account is compared after the upsert.
StoreUnchecked(w) ==
    /\ At(w, "store")
    /\ stored' = stored \cup {proc[w].job}
    /\ \E phase \in {"success", "fail"} : Goto(w, phase)
    /\ UNCHANGED <<job, used, logins>>

\* upsertAccountWithCookies: one transaction.
StoreCookies(w) ==
    /\ At(w, "store")
    /\ stored' = stored \cup {proc[w].job}
    /\ Goto(w, "success")
    /\ UNCHANGED <<job, used, logins>>

MarkSuccess(w) ==
    /\ At(w, "success")
    /\ Finish(proc[w].job, "success")
    /\ Settle(w)
    /\ UNCHANGED <<stored, used, logins>>

\* Somebody works on job j, and beats within its lock_ttl.
Attended(j) == \E w \in Workers : proc[w].job = j

\* The heartbeat: extendLock, WHERE id and status = 'running', whoever owns it.
\* (In time it changes nothing that this model sees.)
ExtendLock(w) ==
    /\ proc[w].phase \in Processing
    /\ job[proc[w].job].status = "running"
    /\ job[proc[w].job].lock = "expired"
    /\ job' = [job EXCEPT ![proc[w].job].lock = "held"]
    /\ UNCHANGED <<stored, proc, used, logins>>

\* Mutant of LockExpires: no heartbeat keeps the lock.
LockExpiresUnbeaten(j) ==
    /\ job[j].lock = "held"
    /\ job' = [job EXCEPT ![j].lock = "expired"]
    /\ UNCHANGED <<stored, proc, used, logins>>

\* locked_until passes: its worker is gone, or its heartbeats did not get through.
LockExpires(j) ==
    /\ job[j].lock = "held"
    /\ job' = [job EXCEPT ![j].lock = "expired"]
    /\ IF Attended(j)
       THEN /\ used.stalls < MaxStalls
            /\ used' = [used EXCEPT !.stalls = @ + 1]
       ELSE UNCHANGED used
    /\ UNCHANGED <<stored, proc, logins>>

-----------------------------------------------------------------------------
(* Failures.                                                               *)

\* An awaited query rejects.  Before process() the tick is over; in process() the
\* catch of tick() takes it; in the catch it is swallowed.
QueryRejects(w) ==
    /\ proc[w].phase \notin {"idle", "login"}
    /\ Fault
    /\ IF proc[w].phase \in {"claim", "rescue"} THEN Settle(w)
       ELSE proc' = [proc EXCEPT ![w].phase = "rescue", ![w].aborted = FALSE]
    /\ UNCHANGED <<job, stored, logins>>

Ends(w) == proc' = [proc EXCEPT ![w] = [Idle EXCEPT !.state = "down"]]

Crash(w) ==
    /\ proc[w].state # "down"
    /\ Fault
    /\ Ends(w)
    /\ UNCHANGED <<job, stored, logins>>

\* onModuleDestroy: onShutdownAbort fires the registered signal, drainInflight
\* waits for inflight, which a claimNext in flight has not set yet.
Stop(w) ==
    /\ proc[w].state = "up"
    /\ used.stops < MaxStops
    /\ used' = [used EXCEPT !.stops = @ + 1]
    /\ proc' = [proc EXCEPT ![w].state = "draining",
                            ![w].aborted = proc[w].phase \in Processing,
                            ![w].awaited = proc[w].phase \notin {"idle", "claim"}]
    /\ UNCHANGED <<job, stored, logins>>

Drained(w) ==
    /\ proc[w].state = "draining"
    /\ ~proc[w].awaited
    /\ Ends(w)
    /\ UNCHANGED <<job, stored, used, logins>>

DrainTimeout(w) ==
    /\ proc[w].state = "draining"
    /\ proc[w].awaited
    /\ Fault
    /\ Ends(w)
    /\ UNCHANGED <<job, stored, logins>>

\* A new process: onPreStart resets stale rows, or logs that it could not.
Restart(w) ==
    /\ proc[w].state = "down"
    /\ proc' = [proc EXCEPT ![w].state = "up"]
    /\ \/ job' = Recovered /\ UNCHANGED used
       \/ Fault /\ UNCHANGED job
    /\ UNCHANGED <<stored, logins>>

-----------------------------------------------------------------------------
UserStep == \E j \in Jobs : Create(j) \/ CancelForUser(j)

LoginReturns(w) ==
    ProbeCancelled(w) \/ LoginSucceeds(w) \/ LoginFails(w) \/ LoginRetries(w)

\* What the event loop of a process gets round to.
WorkStep(w) ==
    \/ StartLogin(w) \/ CipherFails(w)
    \/ LoginReturns(w)
    \/ MarkCancelled(w) \/ MarkFailure(w) \/ StoreCookies(w) \/ MarkSuccess(w)

FaultStep(w) == QueryRejects(w) \/ Crash(w) \/ DrainTimeout(w)

Next ==
    \/ UserStep
    \/ \E w \in Workers : \/ ClaimNext(w) \/ WorkStep(w) \/ ExtendLock(w)
                          \/ Stop(w) \/ Drained(w) \/ Restart(w)
                          \/ FaultStep(w)
    \/ \E j \in Jobs : LockExpires(j)

Spec == Init /\ [][Next]_vars

\* Every promise of a live process settles (a login gives up after its Playwright
\* timeouts), its timer fires tick() again, a process that ended is started again, and
\* a lock nobody extends lapses.
FairSpec ==
    /\ Spec
    /\ \A w \in Workers : /\ WF_vars(WorkStep(w)) /\ WF_vars(ClaimNext(w))
                          /\ WF_vars(Drained(w)) /\ WF_vars(Restart(w))
    /\ \A j \in Jobs : WF_vars(LockExpires(j) /\ ~Attended(j))

-----------------------------------------------------------------------------
(* Properties.                                                             *)

\* The encrypted password is in the row exactly while the job is open: each of the five
\* statements that end a job erases it, and whoever claims or reclaims a job finds it, even
\* one that a stale worker has written to.  (Of encrypted_totp_secret this is not said:
\* markSuccess keeps it when keepEncryptedTotp.)
SecretIffOpen == \A j \in Jobs : job[j].secret <=> job[j].status \in Open

\* Two workers log in for the same job only if a heartbeat did not get through: not
\* on a restart's reset, a reclaim or a claim that races the end of a job.
\* CHANGELOG.md:19, "can't be stolen mid-flight".
AloneUnlessStalled ==
    used.stalls = 0 =>
        \A v, w \in Workers : proc[v].job = proc[w].job /\ proc[v].job # NoJob => v = w

\* A worker that writes the outcome by id writes its own job: as long as heartbeats get
\* through, the row is still running under its lock, or its user has cancelled it.
HolderHasRow ==
    used.stalls = 0 =>
        \A w \in Workers :
            proc[w].job # NoJob =>
                \/ job[proc[w].job].status = "running" /\ job[proc[w].job].lock = "held"
                \/ job[proc[w].job].status = "cancelled"

\* As long as heartbeats get through, an open job is one worker's, and that worker's row
\* its own: the lock, the heartbeat, the reset on start and the reclaim together.
JobIsHeldByOne == AloneUnlessStalled /\ HolderHasRow

\* X sees at most MaxRuns logins of a job, and MaxRuns more for each time its worker
\* died, was stopped or lost its lock, whoever reclaims it in which order.
LoginsBounded ==
    \A j \in Jobs :
        logins[j] <= MaxRuns * (1 + used.faults + used.stalls + used.stops)

\* The outcome in the row is what became of the account: a success has stored its
\* cookies, and only a fault, stall or stop reports a login failed that has.
OutcomeIsTrue ==
    \A j \in Jobs :
        /\ job[j].status = "success" => j \in stored
        /\ job[j].status = "failed" /\ j \in stored
               => used.faults + used.stalls + used.stops > 0

\* Crashes, stops, stalls and rejected queries notwithstanding, every job ends: a row
\* left running is found again.
EveryJobEnds == \A j \in Jobs : job[j].status \in Open ~> job[j].status \in Terminal

\* login-jobs.repository.ts:260-265 calls it the "Terminal cancelled state" that "the
\* cooldown ladder does not count": once the user is told `cancelled`, it stays so.  The
\* code does not keep this: see README.md, "On record".
CancelledIsFinal ==
    [][\A j \in Jobs : job[j].status = "cancelled" => job'[j].status = "cancelled"]_vars
=============================================================================
