--------------------------- MODULE LoginJobsProofs ---------------------------
(***************************************************************************)
(* Safety of the login queue for any number of workers, jobs, faults,      *)
(* stalls and stops.  That a job has one worker is not inductive: it takes *)
(* that the row of a job somebody works on is not claimable, and that in   *)
(* turn needs that only its holder ends it.  IInv is the conjunction.      *)
(*                                                                         *)
(* And that a job logs in a bounded number of times, and is told what came *)
(* of it: counted with the logins done are those still to come.            *)
(***************************************************************************)
EXTENDS LoginJobs, FiniteSetTheorems, TLAPS

\* A process has a job exactly while tick() has work in progress, and none while it
\* is down: what the invariants say of a holder, they say of nobody else.
PhaseHasJob ==
    \A w \in Workers :
        /\ proc[w].phase = "idle" <=> proc[w].job = NoJob
        /\ proc[w].state = "down" => proc[w].phase = "idle"

\* AloneUnlessStalled and HolderHasRow need each other: a row under a held lock cannot
\* be claimed again, and only its one holder can end it.
IInv ==
    /\ TypeOK
    /\ PhaseHasJob
    /\ SecretIffOpen
    /\ AloneUnlessStalled
    /\ HolderHasRow

USE DEF Open, Terminal, NoJob

-----------------------------------------------------------------------------
\* The initial state: no job, and no process that has one.
LEMMA InitIInv == ASSUME Init PROVE IInv
<1> USE LoginAssumption DEF Init, Absent, Idle
<1>1. TypeOK
  BY DEF TypeOK, Row, Process, Phase, MaxRuns
<1>2. PhaseHasJob /\ SecretIffOpen /\ AloneUnlessStalled /\ HolderHasRow
  BY DEF PhaseHasJob, SecretIffOpen, AloneUnlessStalled, HolderHasRow
<1> QED BY <1>1, <1>2 DEF IInv
-----------------------------------------------------------------------------
\* Every statement leaves a row a row.
LEMMA RowUpdates ==
    ASSUME NEW r \in Row
    PROVE  /\ [r EXCEPT !.lock = "held"] \in Row
           /\ [r EXCEPT !.lock = "expired"] \in Row
           /\ [r EXCEPT !.status = "cancelled", !.secret = FALSE] \in Row
           /\ [r EXCEPT !.status = "running", !.lock = "held"] \in Row
           /\ [r EXCEPT !.status = "queued", !.lock = "none"] \in Row
BY DEF Row

\* A row as it is created, and as it ends.
LEMMA BaseRow ==
    /\ [Absent EXCEPT !.status = "queued", !.secret = TRUE] \in Row
    /\ \A status \in Terminal : [status |-> status, secret |-> FALSE, lock |-> "none"] \in Row
BY DEF Row, Absent

\* Every await leaves a process a process.
LEMMA ProcessUpdates ==
    ASSUME NEW p \in Process
    PROVE  /\ \A phase \in Phase : [p EXCEPT !.phase = phase] \in Process
           /\ \A phase \in Phase, j \in Jobs :
                 [p EXCEPT !.phase = phase, !.job = j] \in Process
           /\ \A phase \in Phase : [p EXCEPT !.phase = phase, !.aborted = FALSE] \in Process
           /\ \A run \in 1 .. MaxRuns : [p EXCEPT !.run = run] \in Process
           /\ \A aborted, awaited \in BOOLEAN :
                 [p EXCEPT !.state = "draining", !.aborted = aborted,
                           !.awaited = awaited] \in Process
           /\ [p EXCEPT !.state = "up"] \in Process
           /\ [Idle EXCEPT !.state = "down"] \in Process
           /\ Settled(p) \in Process
<1> USE DEF Process
<1>1. \A phase \in Phase : [p EXCEPT !.phase = phase] \in Process
  OBVIOUS
<1>2. \A phase \in Phase, j \in Jobs : [p EXCEPT !.phase = phase, !.job = j] \in Process
  OBVIOUS
<1>3. \A phase \in Phase : [p EXCEPT !.phase = phase, !.aborted = FALSE] \in Process
  OBVIOUS
<1>4. \A run \in 1 .. MaxRuns : [p EXCEPT !.run = run] \in Process
  OBVIOUS
<1>5. \A aborted, awaited \in BOOLEAN :
         [p EXCEPT !.state = "draining", !.aborted = aborted, !.awaited = awaited] \in Process
  OBVIOUS
<1>6. \A q \in Process, state \in {"up", "draining", "down"} :
         [q EXCEPT !.state = state] \in Process
  OBVIOUS
<1>7. Idle \in Process
  BY DEF Idle, Phase, MaxRuns
<1>8. [Idle EXCEPT !.state = "down"] \in Process /\ Settled(p) \in Process
  BY <1>6, <1>7 DEF Settled
<1> QED BY <1>1, <1>2, <1>3, <1>4, <1>5, <1>6, <1>8

\* One row, or one process, or the count of faults changes.
LEMMA OneTyped ==
    ASSUME TypeOK
    PROVE  /\ \A j : \A r \in Row : [job EXCEPT ![j] = r] \in [Jobs -> Row]
           /\ \A w : \A p \in Process : [proc EXCEPT ![w] = p] \in [Workers -> Process]
           /\ \A j \in Jobs : [logins EXCEPT ![j] = @ + 1] \in [Jobs -> Nat]
           /\ Fault => used' \in [faults : 0 .. MaxFaults, stalls : 0 .. MaxStalls,
                                  stops : 0 .. MaxStops]
<1>1. \A j : \A r \in Row : [job EXCEPT ![j] = r] \in [Jobs -> Row]
  BY DEF TypeOK
<1>2. \A w : \A p \in Process : [proc EXCEPT ![w] = p] \in [Workers -> Process]
  BY DEF TypeOK
<1>3. \A j \in Jobs : [logins EXCEPT ![j] = @ + 1] \in [Jobs -> Nat]
  BY DEF TypeOK
<1>4. Fault => used' \in [faults : 0 .. MaxFaults, stalls : 0 .. MaxStalls,
                          stops : 0 .. MaxStops]
  BY LoginAssumption DEF TypeOK, Fault
<1> QED BY <1>1, <1>2, <1>3, <1>4

\* A process whose phase is not "idle" has a job.
LEMMA BusyHasJob ==
    ASSUME IInv, NEW w \in Workers, proc[w].phase # "idle"
    PROVE  proc[w].job \in Jobs
BY DEF IInv, PhaseHasJob, TypeOK, Process

\* What Goto, Settle, Ends and Finish do to the types.
LEMMA PartsTyped ==
    ASSUME TypeOK, NEW w \in Workers
    PROVE  /\ \A phase \in Phase : Goto(w, phase) => proc' \in [Workers -> Process]
           /\ Settle(w) => proc' \in [Workers -> Process]
           /\ Ends(w) => proc' \in [Workers -> Process]
           /\ \A j : \A status \in Terminal : Finish(j, status) => job' \in [Jobs -> Row]
<1>1. proc[w] \in Process
  BY DEF TypeOK
<1>2. \A j : \A status \in Terminal : Finish(j, status) => job' \in [Jobs -> Row]
  <2>1. ASSUME NEW j, NEW status \in Terminal, Finish(j, status)
        PROVE  job' \in [Jobs -> Row]
    <3>1. [status |-> status, secret |-> FALSE, lock |-> "none"] \in Row
      BY BaseRow
    <3> QED BY <2>1, <3>1, OneTyped DEF Finish
  <2> QED BY <2>1
<1>3. \A phase \in Phase : Goto(w, phase) => proc' \in [Workers -> Process]
  <2>1. ASSUME NEW phase \in Phase, Goto(w, phase)
        PROVE  proc' \in [Workers -> Process]
    <3>1. [proc[w] EXCEPT !.phase = phase] \in Process
      BY <1>1, ProcessUpdates
    <3> QED BY <2>1, <3>1, OneTyped DEF Goto
  <2> QED BY <2>1
<1>4. Settle(w) => proc' \in [Workers -> Process]
  BY <1>1, OneTyped, ProcessUpdates DEF Settle, TypeOK
<1>5. Ends(w) => proc' \in [Workers -> Process]
  BY <1>1, OneTyped, ProcessUpdates DEF Ends, TypeOK
<1> QED BY <1>2, <1>3, <1>4, <1>5

\* Every step keeps the types.
LEMMA TypeStep == ASSUME IInv, [Next]_vars PROVE TypeOK'
<1> TypeOK
  BY DEF IInv
<1> USE DEF At
<1>1. ASSUME NEW j \in Jobs, Create(j) PROVE TypeOK'
  BY <1>1, OneTyped, BaseRow DEF Create, TypeOK
<1>2. ASSUME NEW j \in Jobs, CancelForUser(j) PROVE TypeOK'
  <2>1. job[j] \in Row
    BY DEF TypeOK
  <2>2. job' \in [Jobs -> Row]
    <3>1. [job[j] EXCEPT !.status = "cancelled", !.secret = FALSE] \in Row
      BY <2>1, RowUpdates
    <3>2. job' = [job EXCEPT ![j] = [job[j] EXCEPT !.status = "cancelled", !.secret = FALSE]]
      BY <1>2, Zenon DEF CancelForUser
    <3> QED BY <3>1, <3>2, OneTyped
  <2> QED BY <1>2, <2>2 DEF CancelForUser, TypeOK
<1>3. ASSUME NEW j \in Jobs, LockExpires(j) PROVE TypeOK'
  <2>1. job[j] \in Row
    BY DEF TypeOK
  <2>2. job' \in [Jobs -> Row]
    BY <1>3, <2>1, OneTyped, RowUpdates DEF LockExpires
  <2>3. used' \in [faults : 0 .. MaxFaults, stalls : 0 .. MaxStalls, stops : 0 .. MaxStops]
    BY <1>3, LoginAssumption DEF LockExpires, TypeOK
  <2> QED BY <1>3, <2>2, <2>3 DEF LockExpires, TypeOK
<1>4. ASSUME NEW w \in Workers, ClaimNext(w) PROVE TypeOK'
  <2>1. PICK j \in Jobs :
           /\ job' = [job EXCEPT ![j].status = "running", ![j].lock = "held"]
           /\ proc' = [proc EXCEPT ![w].phase = "claim", ![w].job = j]
    BY <1>4 DEF ClaimNext, Claimable
  <2>2. job[j] \in Row /\ proc[w] \in Process
    BY DEF TypeOK
  <2>3. job' \in [Jobs -> Row] /\ proc' \in [Workers -> Process]
    <3>1. [job[j] EXCEPT !.status = "running", !.lock = "held"] \in Row
      BY <2>2, RowUpdates
    <3>2. [proc[w] EXCEPT !.phase = "claim", !.job = j] \in Process
      BY <2>2, ProcessUpdates DEF Phase
    <3>3. /\ job' = [job EXCEPT ![j] = [job[j] EXCEPT !.status = "running", !.lock = "held"]]
          /\ proc' = [proc EXCEPT ![w] = [proc[w] EXCEPT !.phase = "claim", !.job = j]]
      BY <2>1, Zenon
    <3> QED BY <3>1, <3>2, <3>3, OneTyped
  <2> QED BY <1>4, <2>3 DEF ClaimNext, TypeOK
<1>5. ASSUME NEW w \in Workers, CipherFails(w) PROVE TypeOK'
  BY <1>5, PartsTyped DEF CipherFails, TypeOK, Phase
<1>6. ASSUME NEW w \in Workers, ProbeCancelled(w) PROVE TypeOK'
  BY <1>6, PartsTyped DEF ProbeCancelled, TypeOK, Phase
<1>7. ASSUME NEW w \in Workers, LoginSucceeds(w) PROVE TypeOK'
  BY <1>7, PartsTyped DEF LoginSucceeds, TypeOK, Phase
<1>8. ASSUME NEW w \in Workers, LoginFails(w) PROVE TypeOK'
  BY <1>8, PartsTyped DEF LoginFails, TypeOK, Phase
<1>9. ASSUME NEW w \in Workers, StartLogin(w) PROVE TypeOK'
  BY <1>9, PartsTyped, BusyHasJob, OneTyped DEF StartLogin, TypeOK, Phase
<1>10. ASSUME NEW w \in Workers, StoreCookies(w) PROVE TypeOK'
  BY <1>10, PartsTyped, BusyHasJob DEF StoreCookies, TypeOK, Phase
<1>11. ASSUME NEW w \in Workers, LoginRetries(w) PROVE TypeOK'
  <2>1. PICK run \in proc[w].run + 1 .. MaxRuns : proc' = [proc EXCEPT ![w].run = run]
    BY <1>11 DEF LoginRetries
  <2>2. proc[w] \in Process /\ run \in 1 .. MaxRuns
    BY <2>1 DEF TypeOK, Process, MaxRuns
  <2>3. proc' \in [Workers -> Process]
    BY <2>1, <2>2, OneTyped, ProcessUpdates
  <2> QED BY <1>11, <2>3, BusyHasJob, OneTyped DEF LoginRetries, TypeOK
<1>12. ASSUME NEW w \in Workers, MarkCancelled(w) PROVE TypeOK'
  BY <1>12, PartsTyped DEF MarkCancelled, TypeOK
<1>13. ASSUME NEW w \in Workers, MarkFailure(w) PROVE TypeOK'
  BY <1>13, PartsTyped DEF MarkFailure, TypeOK
<1>14. ASSUME NEW w \in Workers, MarkSuccess(w) PROVE TypeOK'
  BY <1>14, PartsTyped DEF MarkSuccess, TypeOK
<1>15. ASSUME NEW w \in Workers, ExtendLock(w) PROVE TypeOK'
  <2>1. proc[w].job \in Jobs
    BY <1>15, BusyHasJob DEF ExtendLock, Processing
  <2>2. [job[proc[w].job] EXCEPT !.lock = "held"] \in Row
    BY <2>1, RowUpdates DEF TypeOK
  <2> QED BY <1>15, <2>2, OneTyped DEF ExtendLock, TypeOK
<1>16. ASSUME NEW w \in Workers, QueryRejects(w) PROVE TypeOK'
  <2>1. proc[w] \in Process
    BY DEF TypeOK
  <2>2. [proc[w] EXCEPT !.phase = "rescue", !.aborted = FALSE] \in Process
    BY <2>1, ProcessUpdates DEF Phase
  <2>3. proc' \in [Workers -> Process]
    <3>1. CASE proc[w].phase \in {"claim", "rescue"}
      BY <1>16, <3>1, PartsTyped DEF QueryRejects
    <3>2. CASE proc[w].phase \notin {"claim", "rescue"}
      <4>1. proc' = [proc EXCEPT ![w] = [proc[w] EXCEPT !.phase = "rescue",
                                                         !.aborted = FALSE]]
        BY <1>16, <3>2, Zenon DEF QueryRejects
      <4> QED BY <4>1, <2>2, OneTyped
    <3> QED BY <3>1, <3>2
  <2> QED BY <1>16, <2>3, OneTyped DEF QueryRejects, TypeOK
<1>17. ASSUME NEW w \in Workers, Crash(w) PROVE TypeOK'
  BY <1>17, PartsTyped, OneTyped DEF Crash, TypeOK
<1>18. ASSUME NEW w \in Workers, Drained(w) PROVE TypeOK'
  BY <1>18, PartsTyped, OneTyped DEF Drained, TypeOK
<1>19. ASSUME NEW w \in Workers, DrainTimeout(w) PROVE TypeOK'
  BY <1>19, PartsTyped, OneTyped DEF DrainTimeout, TypeOK
<1>20. ASSUME NEW w \in Workers, Stop(w) PROVE TypeOK'
  <2>1. proc[w] \in Process
    BY DEF TypeOK
  <2> DEFINE aborted == proc[w].phase \in Processing
             awaited == proc[w].phase \notin {"idle", "claim"}
             p == [proc[w] EXCEPT !.state = "draining", !.aborted = aborted,
                                  !.awaited = awaited]
  <2>2. proc' = [proc EXCEPT ![w] = p]
    BY <1>20, Zenon DEF Stop
  <2>5. aborted \in BOOLEAN /\ awaited \in BOOLEAN
    OBVIOUS
  <2>6. p \in Process
    <3> HIDE DEF aborted, awaited
    <3> QED BY <2>1, <2>5, ProcessUpdates
  <2> HIDE DEF p
  <2>3. proc' \in [Workers -> Process]
    BY <2>2, <2>6, OneTyped
  <2>4. used' \in [faults : 0 .. MaxFaults, stalls : 0 .. MaxStalls, stops : 0 .. MaxStops]
    BY <1>20, LoginAssumption DEF Stop, TypeOK
  <2> QED BY <1>20, <2>3, <2>4 DEF Stop, TypeOK
<1>21. ASSUME NEW w \in Workers, Restart(w) PROVE TypeOK'
  <2>1. [proc[w] EXCEPT !.state = "up"] \in Process
    BY ProcessUpdates DEF TypeOK
  <2>2. proc' \in [Workers -> Process]
    BY <1>21, <2>1, OneTyped DEF Restart
  <2>3. Recovered \in [Jobs -> Row]
    BY RowUpdates DEF Recovered, TypeOK
  <2> QED BY <1>21, <2>2, <2>3, OneTyped DEF Restart, TypeOK
<1>22. CASE UNCHANGED vars
  BY <1>22 DEF vars, TypeOK
<1> QED BY <1>1, <1>2, <1>3, <1>4, <1>5, <1>6, <1>7, <1>8, <1>9, <1>10, <1>11, <1>12, <1>13, <1>14, <1>15, <1>16, <1>17, <1>18, <1>19, <1>20, <1>21, <1>22
     DEF Next, UserStep, WorkStep, LoginReturns, FaultStep

-----------------------------------------------------------------------------
\* After a step no process has a job it did not have before.
HoldersLeave == \A v \in Workers : proc'[v].job \in {proc[v].job, NoJob}

\* Steps that write no row and start no stall keep all that is said of rows.
LEMMA RowsKept ==
    ASSUME IInv, job' = job, used'.stalls = used.stalls, HoldersLeave
    PROVE  SecretIffOpen' /\ AloneUnlessStalled' /\ HolderHasRow'
<1>1. SecretIffOpen'
  BY DEF IInv, SecretIffOpen
<1>2. AloneUnlessStalled'
  BY DEF IInv, AloneUnlessStalled, HoldersLeave
<1>3. HolderHasRow'
  BY DEF IInv, HolderHasRow, HoldersLeave
<1> QED BY <1>1, <1>2, <1>3

\* The process goes on with its job.
LEMMA LocalStep ==
    ASSUME IInv, NEW w \in Workers,
           StartLogin(w) \/ CipherFails(w) \/ LoginReturns(w) \/ StoreCookies(w)
    PROVE  PhaseHasJob' /\ SecretIffOpen' /\ AloneUnlessStalled' /\ HolderHasRow'
<1>1. job' = job /\ used' = used
  BY DEF StartLogin, CipherFails, LoginReturns, ProbeCancelled, LoginSucceeds,
         LoginFails, LoginRetries, StoreCookies
<1>2. proc[w].phase # "idle"
  BY DEF StartLogin, CipherFails, LoginReturns, ProbeCancelled, LoginSucceeds,
         LoginFails, LoginRetries, StoreCookies, At
<1>3. \A v \in Workers : /\ proc'[v].job = proc[v].job
                         /\ proc'[v].state = proc[v].state
                         /\ proc'[v].phase = "idle" <=> proc[v].phase = "idle"
  <2>1. CASE \E phase \in Phase \ {"idle"} : Goto(w, phase)
    BY <2>1, <1>2 DEF Goto, IInv, TypeOK, Process
  <2>2. CASE LoginRetries(w)
    BY <2>2 DEF LoginRetries, IInv, TypeOK, Process
  <2> QED BY <2>1, <2>2 DEF StartLogin, CipherFails, LoginReturns, ProbeCancelled,
                           LoginSucceeds, LoginFails, StoreCookies, Phase
<1>4. PhaseHasJob'
  BY <1>3 DEF IInv, PhaseHasJob
<1> QED BY <1>1, <1>3, <1>4, RowsKept DEF HoldersLeave

\* A process lets go of its job, or ends.
LEMMA LetGo ==
    ASSUME IInv, NEW w \in Workers, Settle(w) \/ Ends(w)
    PROVE  PhaseHasJob' /\ HoldersLeave /\ proc'[w].job = NoJob
<1>1. proc'[w].job = NoJob /\ proc'[w].phase = "idle"
  BY DEF Settle, Settled, Ends, Idle, IInv, TypeOK
<1>2. \A v \in Workers \ {w} : proc'[v] = proc[v]
  BY DEF Settle, Ends, IInv, TypeOK
<1> QED BY <1>1, <1>2 DEF HoldersLeave, PhaseHasJob, IInv

\* The outcome is written by id: no other process has that job, unless there was a stall.
LEMMA FinishStep ==
    ASSUME IInv, NEW w \in Workers, NEW status \in Terminal, proc[w].phase # "idle",
           Finish(proc[w].job, status), Settle(w), used' = used
    PROVE  PhaseHasJob' /\ SecretIffOpen' /\ AloneUnlessStalled' /\ HolderHasRow'
<1>1. PhaseHasJob' /\ HoldersLeave /\ proc'[w].job = NoJob
  BY LetGo
<1>2. proc[w].job \in Jobs
  BY BusyHasJob
<1>3. /\ job'[proc[w].job].status = status
      /\ job'[proc[w].job].secret = FALSE
      /\ \A j \in Jobs \ {proc[w].job} : job'[j] = job[j]
  BY <1>2 DEF Finish, IInv, TypeOK
<1>4. SecretIffOpen'
  BY <1>3 DEF IInv, SecretIffOpen
<1>5. AloneUnlessStalled'
  BY <1>1 DEF IInv, AloneUnlessStalled, HoldersLeave
<1>6. HolderHasRow'
  <2>1. SUFFICES ASSUME used.stalls = 0, NEW v \in Workers, proc'[v].job # NoJob
                 PROVE  \/ /\ job'[proc'[v].job].status = "running"
                           /\ job'[proc'[v].job].lock = "held"
                        \/ job'[proc'[v].job].status = "cancelled"
    BY DEF HolderHasRow
  <2>2. proc'[v].job = proc[v].job /\ v # w
    BY <1>1, <2>1 DEF HoldersLeave
  <2>3. proc[v].job # proc[w].job
    BY <2>1, <2>2 DEF IInv, AloneUnlessStalled
  <2>4. proc[v].job \in Jobs
    BY <2>1, <2>2 DEF IInv, TypeOK, Process
  <2> QED BY <1>3, <2>1, <2>2, <2>3, <2>4 DEF IInv, HolderHasRow
<1> QED BY <1>1, <1>4, <1>5, <1>6

\* Faults and stops write no row, and only let go of jobs.
LEMMA EndStep ==
    ASSUME IInv, NEW w \in Workers, FaultStep(w) \/ Stop(w) \/ Drained(w)
    PROVE  PhaseHasJob' /\ SecretIffOpen' /\ AloneUnlessStalled' /\ HolderHasRow'
<1>1. job' = job /\ used'.stalls = used.stalls
  BY DEF FaultStep, QueryRejects, Crash, DrainTimeout, Stop, Drained, Fault, IInv, TypeOK
<1>2. PhaseHasJob' /\ HoldersLeave
  <2>1. CASE Settle(w) \/ Ends(w)
    BY <2>1, LetGo
  <2>2. CASE QueryRejects(w) /\ ~Settle(w)
    <3>1. proc' = [proc EXCEPT ![w].phase = "rescue", ![w].aborted = FALSE]
      BY <2>2, Zenon DEF QueryRejects
    <3>2. proc[w].phase # "idle"
      BY <2>2 DEF QueryRejects
    <3> QED BY <3>1, <3>2 DEF HoldersLeave, PhaseHasJob, IInv, TypeOK, Process
  <2>3. CASE Stop(w)
    <3>1. \A v \in Workers : /\ proc'[v].job = proc[v].job
                             /\ proc'[v].phase = proc[v].phase
                             /\ proc'[v].state = "down" => proc[v].state = "down"
      BY <2>3 DEF Stop, IInv, TypeOK, Process
    <3> QED BY <3>1 DEF HoldersLeave, PhaseHasJob, IInv
  <2> QED BY <2>1, <2>2, <2>3 DEF FaultStep, Crash, DrainTimeout, Drained
<1> QED BY <1>1, <1>2, RowsKept

\* Users, heartbeats and the clock write one row, and take no job.
LEMMA RowStep ==
    ASSUME IInv,
           \/ \E j \in Jobs : Create(j) \/ CancelForUser(j) \/ LockExpires(j)
           \/ \E w \in Workers : ExtendLock(w)
    PROVE  PhaseHasJob' /\ SecretIffOpen' /\ AloneUnlessStalled' /\ HolderHasRow'
<1>1. proc' = proc
  BY DEF Create, CancelForUser, LockExpires, ExtendLock
<1>2. PhaseHasJob'
  BY <1>1 DEF PhaseHasJob, IInv
<1>3. used'.stalls = 0 => used.stalls = 0
  <2>1. CASE used' = used
    BY <2>1
  <2>2. CASE used' = [used EXCEPT !.stalls = @ + 1]
    BY <2>2, LoginAssumption DEF IInv, TypeOK
  <2> QED BY <2>1, <2>2 DEF Create, CancelForUser, LockExpires, ExtendLock
<1>4. AloneUnlessStalled'
  BY <1>1, <1>3 DEF AloneUnlessStalled, IInv
<1>5. SecretIffOpen' /\ HolderHasRow'
  <2>1. ASSUME NEW j \in Jobs, Create(j) PROVE SecretIffOpen' /\ HolderHasRow'
    BY <2>1, <1>1, <1>3 DEF Create, Absent, SecretIffOpen, HolderHasRow, IInv, TypeOK, Row, Process
  <2>2. ASSUME NEW j \in Jobs, CancelForUser(j) PROVE SecretIffOpen' /\ HolderHasRow'
    BY <2>2, <1>1, <1>3 DEF CancelForUser, SecretIffOpen, HolderHasRow, IInv, TypeOK, Row, Process
  <2>3. ASSUME NEW j \in Jobs, LockExpires(j) PROVE SecretIffOpen' /\ HolderHasRow'
    BY <2>3, <1>1, <1>3 DEF LockExpires, Attended, SecretIffOpen, HolderHasRow, IInv, TypeOK, Row, Process
  <2>4. ASSUME NEW w \in Workers, ExtendLock(w) PROVE SecretIffOpen' /\ HolderHasRow'
    BY <2>4, <1>1, <1>3 DEF ExtendLock, SecretIffOpen, HolderHasRow, IInv, TypeOK, Row, Process
  <2> QED BY <2>1, <2>2, <2>3, <2>4
<1> QED BY <1>2, <1>4, <1>5

\* A claimed row is free: its lock is not held, and it is not cancelled.
LEMMA ClaimStep ==
    ASSUME IInv, NEW w \in Workers, ClaimNext(w)
    PROVE  PhaseHasJob' /\ SecretIffOpen' /\ AloneUnlessStalled' /\ HolderHasRow'
<1>1. PICK j \in Claimable :
         /\ job' = [job EXCEPT ![j].status = "running", ![j].lock = "held"]
         /\ proc' = [proc EXCEPT ![w].phase = "claim", ![w].job = j]
  BY DEF ClaimNext
<1>2. j \in Jobs /\ used' = used /\ proc[w].phase = "idle" /\ proc[w].state = "up"
  BY <1>1 DEF Claimable, ClaimNext, At
<1>3. /\ proc'[w].job = j /\ proc'[w].phase = "claim" /\ proc'[w].state = "up"
      /\ \A v \in Workers \ {w} : proc'[v] = proc[v]
  BY <1>1, <1>2 DEF IInv, TypeOK, Process
<1>4. /\ job'[j].status = "running" /\ job'[j].lock = "held" /\ job'[j].secret = job[j].secret
      /\ \A i \in Jobs \ {j} : job'[i] = job[i]
  BY <1>1, <1>2 DEF IInv, TypeOK, Row
<1>5. j # NoJob
  BY <1>2 DEF Jobs
<1>6. PhaseHasJob'
  BY <1>3, <1>5 DEF PhaseHasJob, IInv
<1>7. SecretIffOpen'
  BY <1>1, <1>4 DEF Claimable, SecretIffOpen, IInv
<1>8. used.stalls = 0 => \A v \in Workers : proc[v].job # j
  BY <1>1, <1>5 DEF Claimable, HolderHasRow, IInv
<1>9. AloneUnlessStalled'
  BY <1>2, <1>3, <1>8 DEF AloneUnlessStalled, IInv
<1>10. HolderHasRow'
  BY <1>2, <1>3, <1>4, <1>8 DEF HolderHasRow, IInv, TypeOK, Process
<1> QED BY <1>6, <1>7, <1>9, <1>10

\* A reset touches lapsed rows only, and nobody has one unless there was a stall.
LEMMA RestartStep ==
    ASSUME IInv, NEW w \in Workers, Restart(w)
    PROVE  PhaseHasJob' /\ SecretIffOpen' /\ AloneUnlessStalled' /\ HolderHasRow'
<1>1. used'.stalls = used.stalls
  BY DEF Restart, Fault, IInv, TypeOK
<1>2. \A v \in Workers : /\ proc'[v].job = proc[v].job
                         /\ proc'[v].phase = proc[v].phase
                         /\ proc'[v].state = "down" => proc[v].state = "down"
  BY DEF Restart, IInv, TypeOK, Process
<1>3. PhaseHasJob' /\ HoldersLeave
  BY <1>2 DEF PhaseHasJob, HoldersLeave, IInv
<1>4. CASE job' = job
  BY <1>1, <1>3, <1>4, RowsKept
<1>5. CASE job' = Recovered
  <2>1. SecretIffOpen'
    BY <1>5 DEF Recovered, SecretIffOpen, IInv, TypeOK, Row
  <2>2. AloneUnlessStalled'
    BY <1>1, <1>2 DEF AloneUnlessStalled, IInv
  <2>3. HolderHasRow'
    BY <1>1, <1>2, <1>5 DEF Recovered, HolderHasRow, IInv, TypeOK, Row, Process
  <2> QED BY <1>3, <2>1, <2>2, <2>3
<1> QED BY <1>4, <1>5 DEF Restart

\* Every step keeps the inductive invariant.
LEMMA NextIInv == ASSUME IInv, [Next]_vars PROVE IInv'
<1>1. TypeOK'
  BY TypeStep
<1>2. PhaseHasJob' /\ SecretIffOpen' /\ AloneUnlessStalled' /\ HolderHasRow'
  <2>1. CASE UserStep \/ \E j \in Jobs : LockExpires(j)
    BY <2>1, RowStep DEF UserStep
  <2>2. ASSUME NEW w \in Workers,
               MarkCancelled(w) \/ MarkFailure(w) \/ MarkSuccess(w)
        PROVE  PhaseHasJob' /\ SecretIffOpen' /\ AloneUnlessStalled' /\ HolderHasRow'
    BY <2>2, FinishStep DEF MarkCancelled, MarkFailure, MarkSuccess, At
  <2>3. CASE UNCHANGED vars
    BY <2>3, RowsKept DEF vars, HoldersLeave, PhaseHasJob, IInv
  <2> QED BY <2>1, <2>2, <2>3, LocalStep, EndStep, RowStep, ClaimStep, RestartStep
          DEF Next, WorkStep
<1> QED BY <1>1, <1>2 DEF IInv

-----------------------------------------------------------------------------
\* Every reachable state satisfies the strengthened invariant.
THEOREM InductiveInvariant == Spec => []IInv
<1>1. Init => IInv
  BY InitIInv
<1>2. IInv /\ [Next]_vars => IInv'
  BY NextIInv
<1> QED BY <1>1, <1>2, PTL DEF Spec

\* Rows and processes keep their types; runs of one process() never exceed MaxRuns.
THEOREM TypeCorrect == Spec => []TypeOK
BY InductiveInvariant, PTL DEF IInv

\* No finished job keeps its password, and no open one lacks it (markSuccess, markFailure,
\* markCancelled, cancelForUser, resetStaleRunningJobs).
THEOREM SecretsErased == Spec => []SecretIffOpen
BY InductiveInvariant, PTL DEF IInv

\* As long as heartbeats get through, a job has one worker, and that worker writes by
\* id a row that is still its own (claimNext, extendLock).
THEOREM Exclusion == Spec => []JobIsHeldByOne
BY InductiveInvariant, PTL DEF IInv, JobIsHeldByOne
-----------------------------------------------------------------------------
(* How often X sees a login.                                               *)

\* What went wrong so far: the right-hand side of LoginsBounded.
Setbacks == used.faults + used.stalls + used.stops

\* The logins process w may still start for its job.
Budget(w) ==
    IF proc[w].phase = "claim" THEN 1 .. MaxRuns
    ELSE IF proc[w].phase = "login" THEN proc[w].run + 1 .. MaxRuns ELSE {}

\* The logins of job j that are still to come from those who hold it, one by one.
LoginsAhead(j) ==
    {t \in Workers \X (1 .. MaxRuns) : proc[t[1]].job = j /\ t[2] \in Budget(t[1])}

\* Nobody waits for a process that stopped between its claim and process(): it ends
\* whenever it likes.
Stays(w) == proc[w].state = "draining" => proc[w].awaited

\* Job j may be claimed (again) without anything further going wrong.
MayBeClaimed(j) ==
    \/ job[j].status \in {"absent", "queued"}
    \/ /\ job[j].status = "running"
       /\ \/ job[j].lock # "held"
          \/ \A w \in Workers : proc[w].job = j => ~Stays(w)

\* The logins there were, those to come, and those of a free claim, are paid for by one
\* claim and one more for each setback: this is what makes LoginsBounded inductive.
BudgetOf(j) ==
    /\ IsFiniteSet(LoginsAhead(j))
    /\ logins[j] + Cardinality(LoginsAhead(j)) + (IF MayBeClaimed(j) THEN MaxRuns ELSE 0)
           <= MaxRuns * (1 + Setbacks)

LoginBudget == \A j \in Jobs : BudgetOf(j)

\* The initial state: one claim is paid for, and nobody has any.
LEMMA InitBudget == ASSUME Init PROVE LoginBudget
<1> SUFFICES ASSUME NEW j \in Jobs PROVE BudgetOf(j)
  BY DEF LoginBudget
<1>1. LoginsAhead(j) = {}
  BY DEF Init, Idle, LoginsAhead, Budget
<1>2. Setbacks = 0 /\ logins[j] = 0
  BY DEF Init, Setbacks
<1> QED BY <1>1, <1>2, FS_EmptySet DEF BudgetOf, MaxRuns

\* Setbacks are counted in Nat, and a fault is one more.
LEMMA SetbacksCount ==
    ASSUME TypeOK
    PROVE  Setbacks \in Nat /\ (Fault => Setbacks' = Setbacks + 1)
BY LoginAssumption DEF TypeOK, Setbacks, Fault

\* A step that starts no login: what is to come shrinks, and a free claim is an old one
\* or paid for by a setback.
LEMMA QuietBudget ==
    ASSUME TypeOK, TypeOK', NEW j \in Jobs, BudgetOf(j),
           logins'[j] = logins[j],
           LoginsAhead(j)' \subseteq LoginsAhead(j),
           Setbacks' >= Setbacks,
           MayBeClaimed(j)' => MayBeClaimed(j) \/ Setbacks' > Setbacks
    PROVE  BudgetOf(j)'
<1>1. IsFiniteSet(LoginsAhead(j)') /\ Cardinality(LoginsAhead(j)') <= Cardinality(LoginsAhead(j))
  BY FS_Subset DEF BudgetOf
<1>2. /\ Cardinality(LoginsAhead(j)) \in Nat /\ Cardinality(LoginsAhead(j)') \in Nat
      /\ Cardinality(LoginsAhead(j))' = Cardinality(LoginsAhead(j)')
  BY <1>1, FS_CardinalityType DEF BudgetOf
<1>3. /\ Setbacks \in Nat /\ Setbacks' \in Nat /\ logins[j] \in Nat
  BY SetbacksCount DEF TypeOK, Setbacks
<1> HIDE DEF LoginsAhead, MayBeClaimed, Setbacks
<1> QED BY <1>1, <1>2, <1>3 DEF BudgetOf, MaxRuns

\* A step that starts a login takes it from those to come.
LEMMA LoginSpends ==
    ASSUME TypeOK, NEW j \in Jobs, BudgetOf(j),
           NEW t \in LoginsAhead(j), LoginsAhead(j)' \subseteq LoginsAhead(j) \ {t},
           logins'[j] = logins[j] + 1,
           used' = used,
           MayBeClaimed(j)' => MayBeClaimed(j)
    PROVE  BudgetOf(j)'
<1>1. /\ IsFiniteSet(LoginsAhead(j) \ {t})
      /\ Cardinality(LoginsAhead(j) \ {t}) = Cardinality(LoginsAhead(j)) - 1
  BY FS_RemoveElement DEF BudgetOf
<1>2. /\ IsFiniteSet(LoginsAhead(j)')
      /\ Cardinality(LoginsAhead(j)') <= Cardinality(LoginsAhead(j) \ {t})
  BY <1>1, FS_Subset
<1>3. /\ Cardinality(LoginsAhead(j)) \in Nat /\ Cardinality(LoginsAhead(j)') \in Nat
      /\ Cardinality(LoginsAhead(j))' = Cardinality(LoginsAhead(j)')
  BY <1>2, FS_CardinalityType DEF BudgetOf
<1>4. Setbacks \in Nat /\ Setbacks' = Setbacks /\ logins[j] \in Nat
  BY SetbacksCount DEF TypeOK, Setbacks
<1> HIDE DEF LoginsAhead, MayBeClaimed, Setbacks
<1> QED BY <1>1, <1>2, <1>3, <1>4 DEF BudgetOf, MaxRuns

\* One element more makes a set one larger at most.
LEMMA OneMore ==
    ASSUME NEW S, NEW x, IsFiniteSet(S)
    PROVE  /\ IsFiniteSet(S \cup {x})
           /\ Cardinality(S) \in Nat /\ Cardinality(S \cup {x}) \in Nat
           /\ Cardinality(S \cup {x}) <= Cardinality(S) + 1
<1>1. IsFiniteSet(S \cup {x})
  BY FS_AddElement
<1>2. Cardinality(S) \in Nat /\ Cardinality(S \cup {x}) \in Nat
  BY <1>1, FS_CardinalityType
<1>3. Cardinality(S \cup {x}) = IF x \in S THEN Cardinality(S) ELSE Cardinality(S) + 1
  BY FS_AddElement
<1> QED BY <1>1, <1>2, <1>3

\* Three elements more make it three larger at most.
LEMMA ThreeMore ==
    ASSUME NEW S, NEW x, NEW y, NEW z, IsFiniteSet(S), NEW T \in SUBSET (S \cup {x, y, z})
    PROVE  /\ IsFiniteSet(T)
           /\ Cardinality(S) \in Nat /\ Cardinality(T) \in Nat
           /\ Cardinality(T) <= Cardinality(S) + 3
<1>1. PICK S1 : S1 = S \cup {x}
  OBVIOUS
<1>2. PICK S2 : S2 = S1 \cup {y}
  OBVIOUS
<1>3. PICK S3 : S3 = S2 \cup {z}
  OBVIOUS
<1>4. /\ IsFiniteSet(S1) /\ Cardinality(S) \in Nat /\ Cardinality(S1) \in Nat
      /\ Cardinality(S1) <= Cardinality(S) + 1
  BY <1>1, OneMore
<1>5. /\ IsFiniteSet(S2) /\ Cardinality(S2) \in Nat
      /\ Cardinality(S2) <= Cardinality(S1) + 1
  BY <1>2, <1>4, OneMore
<1>6. /\ IsFiniteSet(S3) /\ Cardinality(S3) \in Nat
      /\ Cardinality(S3) <= Cardinality(S2) + 1
  BY <1>3, <1>5, OneMore
<1>7. T \in SUBSET S3
  BY <1>1, <1>2, <1>3
<1>8. IsFiniteSet(T) /\ Cardinality(T) <= Cardinality(S3)
  BY <1>6, <1>7, FS_Subset
<1>9. Cardinality(T) \in Nat
  BY <1>8, FS_CardinalityType
<1> QED BY <1>4, <1>5, <1>6, <1>8, <1>9

\* A claim that was free turns into the logins of its worker.
LEMMA ClaimSpends ==
    ASSUME TypeOK, NEW j \in Jobs, BudgetOf(j), NEW w \in Workers,
           LoginsAhead(j)' \subseteq LoginsAhead(j) \cup {<<w, 1>>, <<w, 2>>, <<w, 3>>},
           logins'[j] = logins[j],
           used' = used,
           MayBeClaimed(j), ~MayBeClaimed(j)'
    PROVE  BudgetOf(j)'
<1>1. /\ IsFiniteSet(LoginsAhead(j)')
      /\ Cardinality(LoginsAhead(j)) \in Nat /\ Cardinality(LoginsAhead(j)') \in Nat
      /\ Cardinality(LoginsAhead(j)') <= Cardinality(LoginsAhead(j)) + 3
      /\ Cardinality(LoginsAhead(j))' = Cardinality(LoginsAhead(j)')
  <2>1. PICK x, y, z : x = <<w, 1>> /\ y = <<w, 2>> /\ z = <<w, 3>>
    OBVIOUS
  <2>2. IsFiniteSet(LoginsAhead(j))
    BY DEF BudgetOf
  <2>3. LoginsAhead(j)' \in SUBSET (LoginsAhead(j) \cup {x, y, z})
    BY <2>1
  <2> QED BY ONLY <2>2, <2>3, ThreeMore
<1>2. Setbacks \in Nat /\ Setbacks' = Setbacks /\ logins[j] \in Nat
  BY SetbacksCount DEF TypeOK, Setbacks
<1> HIDE DEF LoginsAhead, MayBeClaimed, Setbacks
<1> QED BY <1>1, <1>2 DEF BudgetOf, MaxRuns

\* Nobody takes job j on, and nobody gets further logins for it.
NoneAhead(j) ==
    \A v \in Workers :
        proc'[v].job = j => proc[v].job = j /\ Budget(v)' \subseteq Budget(v)

\* What is to come shrinks then.
LEMMA AheadShrinks ==
    ASSUME NEW j \in Jobs, NoneAhead(j)
    PROVE  LoginsAhead(j)' \subseteq LoginsAhead(j)
BY DEF LoginsAhead, NoneAhead

\* A process stays as it is, goes on to a phase in which it starts no login, or lets go.
LEMMA QuietProcess ==
    ASSUME TypeOK, NEW j \in Jobs, NEW w \in Workers,
           \A v \in Workers \ {w} : proc'[v] = proc[v],
           \/ proc'[w] = proc[w]
           \/ proc'[w].job = NoJob
           \/ proc'[w].job = proc[w].job /\ proc'[w].phase \notin {"claim", "login"}
           \/ /\ proc'[w].job = proc[w].job
              /\ proc'[w].phase = proc[w].phase /\ proc'[w].run = proc[w].run
    PROVE  NoneAhead(j)
BY DEF NoneAhead, Budget, Jobs

\* The row of job j and the others who hold it are as they were.
LEMMA RowAsBefore ==
    ASSUME NEW j \in Jobs, job'[j] = job[j], MayBeClaimed(j)',
           \A v \in Workers :
               proc[v].job = j => ~Stays(v) \/ (proc'[v].job = j /\ (Stays(v) => Stays(v)'))
    PROVE  MayBeClaimed(j)
BY DEF MayBeClaimed, Stays

\* Users, heartbeats and the clock: a lock that lapses under a worker is a setback, and
\* under nobody only frees a row that was free already.
LEMMA RowBudget ==
    ASSUME IInv, LoginBudget, TypeOK',
           \/ \E j \in Jobs : Create(j) \/ CancelForUser(j) \/ LockExpires(j)
           \/ \E w \in Workers : ExtendLock(w)
    PROVE  LoginBudget'
<1> SUFFICES ASSUME NEW i \in Jobs PROVE BudgetOf(i)'
  BY DEF LoginBudget
<1>1. proc' = proc /\ logins' = logins
  BY DEF Create, CancelForUser, LockExpires, ExtendLock
<1>2. LoginsAhead(i)' \subseteq LoginsAhead(i)
  BY <1>1 DEF LoginsAhead, Budget
<1>3. TypeOK /\ BudgetOf(i)
  BY DEF IInv, LoginBudget
<1>4. Setbacks' >= Setbacks /\ (MayBeClaimed(i)' => MayBeClaimed(i) \/ Setbacks' > Setbacks)
  <2>0. job[i] \in Row /\ \A w \in Workers : proc[w] \in Process
    BY DEF IInv, TypeOK
  <2>1. ASSUME NEW j \in Jobs, Create(j) \/ CancelForUser(j)
        PROVE  used' = used /\ (MayBeClaimed(i)' => MayBeClaimed(i))
    BY <1>1, <1>3, <2>0, <2>1 DEF Create, Absent, CancelForUser, MayBeClaimed, Stays, TypeOK, Row
  <2>2. ASSUME NEW w \in Workers, ExtendLock(w)
        PROVE  used' = used /\ (MayBeClaimed(i)' => MayBeClaimed(i))
    BY <1>1, <1>3, <2>0, <2>2 DEF ExtendLock, MayBeClaimed, Stays, TypeOK, Row
  <2>3. ASSUME NEW j \in Jobs, LockExpires(j), Attended(j)
        PROVE  Setbacks' = Setbacks + 1
    BY <1>3, <2>3, LoginAssumption DEF LockExpires, Setbacks, TypeOK
  <2>4. ASSUME NEW j \in Jobs, LockExpires(j), ~Attended(j)
        PROVE  used' = used /\ (MayBeClaimed(i)' => MayBeClaimed(i))
    <3>1. used' = used /\ job' = [job EXCEPT ![j].lock = "expired"]
      BY <2>4 DEF LockExpires
    <3>2. \A w \in Workers : proc[w].job # j
      BY <2>4 DEF Attended
    <3> QED BY <1>1, <1>3, <2>0, <3>1, <3>2 DEF MayBeClaimed, Stays, TypeOK, Row
  <2>5. Setbacks \in Nat
    BY <1>3, SetbacksCount
  <2>6. used' = used => Setbacks' = Setbacks
    BY DEF Setbacks
  <2> HIDE DEF Setbacks, MayBeClaimed
  <2> QED BY <2>1, <2>2, <2>3, <2>4, <2>5, <2>6
<1> QED BY <1>1, <1>2, <1>3, <1>4, QuietBudget

\* A process goes on with its job, and starts no login.
LEMMA WorkBudget ==
    ASSUME IInv, LoginBudget, TypeOK', NEW w \in Workers,
           \/ CipherFails(w) \/ ProbeCancelled(w) \/ LoginSucceeds(w) \/ LoginFails(w)
           \/ StoreCookies(w)
    PROVE  LoginBudget'
<1> SUFFICES ASSUME NEW i \in Jobs PROVE BudgetOf(i)'
  BY DEF LoginBudget
<1>1. job' = job /\ used' = used /\ logins' = logins
  BY DEF CipherFails, ProbeCancelled, LoginSucceeds, LoginFails, StoreCookies
<1>2. TypeOK /\ BudgetOf(i)
  BY DEF IInv, LoginBudget
<1>3. PICK phase \in {"fail", "cancel", "store", "success"} : Goto(w, phase)
  BY DEF CipherFails, ProbeCancelled, LoginSucceeds, LoginFails, StoreCookies
<1>4. /\ \A v \in Workers \ {w} : proc'[v] = proc[v]
      /\ proc'[w].job = proc[w].job /\ proc'[w].phase = phase
      /\ proc'[w].state = proc[w].state /\ proc'[w].awaited = proc[w].awaited
  BY <1>2, <1>3 DEF Goto, TypeOK, Process
<1>5. LoginsAhead(i)' \subseteq LoginsAhead(i)
  BY <1>2, <1>4, QuietProcess, AheadShrinks
<1>6. MayBeClaimed(i)' => MayBeClaimed(i)
  BY <1>1, <1>4, RowAsBefore DEF Stays
<1>7. Setbacks' = Setbacks /\ Setbacks \in Nat
  BY <1>1, <1>2, SetbacksCount DEF Setbacks
<1>8. Setbacks' >= Setbacks
  BY <1>7
<1> QED BY <1>1, <1>2, <1>5, <1>6, <1>8, QuietBudget

\* login.run starts: a login less to come.
LEMMA LoginBudgetSpent ==
    ASSUME IInv, LoginBudget, TypeOK', NEW w \in Workers, StartLogin(w) \/ LoginRetries(w)
    PROVE  LoginBudget'
<1> SUFFICES ASSUME NEW i \in Jobs PROVE BudgetOf(i)'
  BY DEF LoginBudget
<1>1. job' = job /\ used' = used /\ logins' = [logins EXCEPT ![proc[w].job] = @ + 1]
  BY DEF StartLogin, LoginRetries
<1>2. TypeOK /\ BudgetOf(i) /\ proc[w] \in Process
  BY DEF IInv, LoginBudget, TypeOK
<1>3. proc[w].job \in Jobs
  BY BusyHasJob DEF StartLogin, LoginRetries, At
<1>4. PICK run \in Budget(w) :
         /\ run \in 1 .. MaxRuns /\ proc[w].phase \in {"claim", "login"}
         /\ proc'[w].phase = "login" /\ proc'[w].run = run
  <2>1. CASE StartLogin(w)
    <3>1. proc[w].phase = "claim" /\ proc'[w].phase = "login" /\ proc'[w].run = proc[w].run
      BY <1>2, <2>1 DEF StartLogin, At, Goto, TypeOK, Process
    <3>2. proc[w].run \in 1 .. MaxRuns
      BY <1>2 DEF Process
    <3> QED BY <3>1, <3>2 DEF Budget, MaxRuns
  <2>2. CASE LoginRetries(w)
    <3>1. PICK run \in proc[w].run + 1 .. MaxRuns : proc' = [proc EXCEPT ![w].run = run]
      BY <2>2 DEF LoginRetries
    <3>2. proc[w].phase = "login" /\ proc'[w].phase = "login" /\ proc'[w].run = run
      BY <1>2, <2>2, <3>1 DEF LoginRetries, At, TypeOK, Process
    <3>3. proc[w].run \in 1 .. MaxRuns
      BY <1>2 DEF Process
    <3> QED BY <3>1, <3>2, <3>3 DEF Budget, MaxRuns
  <2> QED BY <2>1, <2>2
<1>5. /\ \A v \in Workers \ {w} : proc'[v] = proc[v]
      /\ proc'[w].job = proc[w].job
      /\ proc'[w].state = proc[w].state /\ proc'[w].awaited = proc[w].awaited
  BY <1>2 DEF StartLogin, LoginRetries, Goto, TypeOK, Process
<1>6. Budget(w)' \subseteq Budget(w) \ {run}
  <2>1. proc[w].run \in 1 .. MaxRuns /\ proc'[w].run \in 1 .. MaxRuns
    BY <1>2 DEF TypeOK, Process
  <2>2. Budget(w)' = proc'[w].run + 1 .. MaxRuns
    BY <1>4 DEF Budget
  <2>3. proc[w].phase = "claim" => Budget(w) = 1 .. MaxRuns
    BY DEF Budget
  <2>4. proc[w].phase = "login" => Budget(w) = proc[w].run + 1 .. MaxRuns
    BY DEF Budget
  <2> QED BY <1>4, <2>1, <2>2, <2>3, <2>4 DEF MaxRuns
<1>7. MayBeClaimed(i)' => MayBeClaimed(i)
  BY <1>1, <1>5, RowAsBefore DEF Stays
<1>8. CASE i = proc[w].job
  <2>1. <<w, run>> \in LoginsAhead(i)
    BY <1>4, <1>8 DEF LoginsAhead
  <2>2. LoginsAhead(i)' \subseteq LoginsAhead(i) \ {<<w, run>>}
    <3>1. ASSUME NEW t \in LoginsAhead(i)' PROVE t \in LoginsAhead(i) /\ t # <<w, run>>
      <4>1. /\ t \in Workers \X (1 .. MaxRuns)
            /\ proc'[t[1]].job = i /\ t[2] \in Budget(t[1])'
        BY <3>1 DEF LoginsAhead
      <4>2. CASE t[1] = w
        <5>1. t[2] \in Budget(w) /\ t[2] # run
          BY <1>6, <4>1, <4>2
        <5> QED BY <1>8, <4>1, <4>2, <5>1 DEF LoginsAhead
      <4>3. CASE t[1] # w
        <5>1. t[1] \in Workers \ {w}
          BY <4>1, <4>3
        <5>2. proc'[t[1]] = proc[t[1]]
          BY <1>5, <5>1
        <5>3. Budget(t[1])' = Budget(t[1])
          BY <5>2 DEF Budget
        <5> QED BY <4>1, <4>3, <5>2, <5>3 DEF LoginsAhead
      <4> QED BY <4>2, <4>3
    <3> QED BY <3>1
  <2>3. logins'[i] = logins[i] + 1
    BY <1>1, <1>2, <1>8 DEF TypeOK
  <2> QED BY <1>1, <1>2, <1>7, <2>1, <2>2, <2>3, LoginSpends
<1>9. CASE i # proc[w].job
  <2>1. NoneAhead(i)
    BY <1>5, <1>9 DEF NoneAhead, Budget
  <2>2. logins'[i] = logins[i]
    BY <1>1, <1>2, <1>9 DEF TypeOK
  <2>3. Setbacks' >= Setbacks
    BY <1>1, <1>2, SetbacksCount DEF Setbacks
  <2> QED BY <1>2, <1>7, <2>1, <2>2, <2>3, AheadShrinks, QuietBudget
<1> QED BY <1>8, <1>9

\* The outcome is written, or nothing is: the worker lets go, and of the rows at most its
\* own changes, and that one ends.
LEMMA SettledBudget ==
    ASSUME IInv, LoginBudget, TypeOK', NEW w \in Workers,
           MarkCancelled(w) \/ MarkFailure(w) \/ MarkSuccess(w)
    PROVE  LoginBudget'
<1> SUFFICES ASSUME NEW i \in Jobs PROVE BudgetOf(i)'
  BY DEF LoginBudget
<1>1. used' = used /\ logins' = logins /\ Settle(w)
  BY DEF MarkCancelled, MarkFailure, MarkSuccess
<1>2. TypeOK /\ BudgetOf(i)
  BY DEF IInv, LoginBudget
<1>3. PICK status \in Terminal : Finish(proc[w].job, status)
  BY DEF MarkCancelled, MarkFailure, MarkSuccess
<1>4. proc'[w].job = NoJob /\ \A v \in Workers \ {w} : proc'[v] = proc[v]
  BY <1>1, <1>2, LetGo DEF Settle, TypeOK
<1>5. LoginsAhead(i)' \subseteq LoginsAhead(i)
  BY <1>2, <1>4, QuietProcess, AheadShrinks
<1>6. MayBeClaimed(i)' => MayBeClaimed(i)
  <2>1. CASE i = proc[w].job
    BY <1>2, <1>3, <2>1 DEF Finish, MayBeClaimed, TypeOK
  <2>2. CASE i # proc[w].job
    <3>1. job'[i] = job[i]
      BY <1>2, <1>3, <2>2 DEF Finish, TypeOK
    <3> QED BY <1>4, <2>2, <3>1, RowAsBefore DEF Stays
  <2> QED BY <2>1, <2>2
<1>7. Setbacks' >= Setbacks
  BY <1>1, <1>2, SetbacksCount DEF Setbacks
<1> QED BY <1>1, <1>2, <1>5, <1>6, <1>7, QuietBudget

\* A fault or a stop is a setback, whatever it makes claimable; a process nobody waits
\* for only leaves what it had left to others already.
LEMMA EndBudget ==
    ASSUME IInv, LoginBudget, TypeOK', NEW w \in Workers,
           FaultStep(w) \/ Stop(w) \/ Drained(w)
    PROVE  LoginBudget'
<1> SUFFICES ASSUME NEW i \in Jobs PROVE BudgetOf(i)'
  BY DEF LoginBudget
<1>1. job' = job /\ logins' = logins
  BY DEF FaultStep, QueryRejects, Crash, DrainTimeout, Stop, Drained
<1>2. TypeOK /\ BudgetOf(i) /\ proc[w] \in Process
  BY DEF IInv, LoginBudget, TypeOK
<1>3. NoneAhead(i)
  <2>1. CASE Settle(w) \/ Ends(w)
    <3>1. proc'[w].job = NoJob /\ \A v \in Workers \ {w} : proc'[v] = proc[v]
      BY <1>2, <2>1, LetGo DEF Settle, Ends, TypeOK
    <3> QED BY <1>2, <3>1, QuietProcess
  <2>2. CASE QueryRejects(w) /\ ~Settle(w)
    <3>1. proc' = [proc EXCEPT ![w] = [proc[w] EXCEPT !.phase = "rescue", !.aborted = FALSE]]
      BY <2>2, Zenon DEF QueryRejects
    <3>2. /\ proc'[w].job = proc[w].job /\ proc'[w].phase = "rescue"
          /\ \A v \in Workers \ {w} : proc'[v] = proc[v]
      BY <1>2, <3>1 DEF TypeOK, Process
    <3> QED BY <1>2, <3>2, QuietProcess
  <2>3. CASE Stop(w)
    <3>1. /\ proc'[w].job = proc[w].job
          /\ proc'[w].phase = proc[w].phase /\ proc'[w].run = proc[w].run
          /\ \A v \in Workers \ {w} : proc'[v] = proc[v]
      BY <1>2, <2>3 DEF Stop, TypeOK, Process
    <3> QED BY <1>2, <3>1, QuietProcess
  <2> QED BY <2>1, <2>2, <2>3 DEF FaultStep, Crash, DrainTimeout, Drained
<1>4. Setbacks \in Nat
  BY <1>2, SetbacksCount
<1>5. CASE FaultStep(w) \/ Stop(w)
  <2>1. Setbacks' = Setbacks + 1
    <3>1. CASE Stop(w)
      BY <1>2, <3>1, LoginAssumption DEF Stop, Setbacks, TypeOK
    <3>2. CASE Fault
      BY <1>2, <3>2, SetbacksCount
    <3> QED BY <1>5, <3>1, <3>2 DEF FaultStep, QueryRejects, Crash, DrainTimeout
  <2>2. Setbacks' >= Setbacks /\ Setbacks' > Setbacks
    BY <1>4, <2>1
  <2> QED BY <1>1, <1>2, <1>3, <2>2, AheadShrinks, QuietBudget
<1>6. CASE Drained(w)
  <2>1. used' = used /\ Ends(w) /\ ~Stays(w)
    BY <1>6 DEF Drained, Stays
  <2>2. \A v \in Workers \ {w} : proc'[v] = proc[v]
    BY <1>2, <2>1 DEF Ends, TypeOK
  <2>3. MayBeClaimed(i)' => MayBeClaimed(i)
    BY <1>1, <2>1, <2>2, RowAsBefore DEF Stays
  <2>4. Setbacks' >= Setbacks
    BY <1>4, <2>1 DEF Setbacks
  <2> QED BY <1>1, <1>2, <1>3, <2>3, <2>4, AheadShrinks, QuietBudget
<1> QED BY <1>5, <1>6

\* A free claim is used up: its worker, which stays, has three logins to come at most.
LEMMA ClaimBudget ==
    ASSUME IInv, LoginBudget, TypeOK', NEW w \in Workers, ClaimNext(w)
    PROVE  LoginBudget'
<1> SUFFICES ASSUME NEW i \in Jobs PROVE BudgetOf(i)'
  BY DEF LoginBudget
<1>1. PICK j \in Claimable :
         /\ job' = [job EXCEPT ![j].status = "running", ![j].lock = "held"]
         /\ proc' = [proc EXCEPT ![w].phase = "claim", ![w].job = j]
  BY DEF ClaimNext
<1>2. /\ j \in Jobs /\ used' = used /\ logins' = logins
      /\ proc[w].state = "up" /\ proc[w].phase = "idle"
  BY <1>1 DEF Claimable, ClaimNext, At
<1>3. TypeOK /\ BudgetOf(i) /\ proc[w].job = NoJob
  BY <1>2 DEF IInv, LoginBudget, PhaseHasJob
<1>4. /\ proc'[w].job = j /\ proc'[w].state = "up" /\ proc'[w].phase = "claim"
      /\ \A v \in Workers \ {w} : proc'[v] = proc[v]
  BY <1>1, <1>2, <1>3 DEF TypeOK, Process
<1>5. /\ job'[j].status = "running" /\ job'[j].lock = "held"
      /\ \A k \in Jobs \ {j} : job'[k] = job[k]
  BY <1>1, <1>2, <1>3 DEF TypeOK, Row
<1>6. CASE i = j
  <2>1. MayBeClaimed(i)
    BY <1>1, <1>6 DEF Claimable, MayBeClaimed
  <2>2. ~MayBeClaimed(i)'
    BY <1>4, <1>5, <1>6 DEF MayBeClaimed, Stays
  <2>3. LoginsAhead(i)' \subseteq LoginsAhead(i) \cup {<<w, 1>>, <<w, 2>>, <<w, 3>>}
    <3>1. ASSUME NEW t \in LoginsAhead(i)'
          PROVE  t \in LoginsAhead(i) \/ t \in {<<w, 1>>, <<w, 2>>, <<w, 3>>}
      <4>1. /\ t \in Workers \X (1 .. MaxRuns)
            /\ proc'[t[1]].job = i /\ t[2] \in Budget(t[1])'
        BY <3>1 DEF LoginsAhead
      <4>2. CASE t[1] = w
        BY <4>1, <4>2 DEF MaxRuns
      <4>3. CASE t[1] # w
        <5>1. t[1] \in Workers \ {w}
          BY <4>1, <4>3
        <5>2. proc'[t[1]] = proc[t[1]]
          BY <1>4, <5>1
        <5> QED BY <4>1, <5>2 DEF LoginsAhead, Budget
      <4> QED BY <4>2, <4>3
    <3> QED BY <3>1
  <2> QED BY <1>2, <1>3, <2>1, <2>2, <2>3, ClaimSpends
<1>7. CASE i # j
  <2>1. NoneAhead(i)
    BY <1>4, <1>7 DEF NoneAhead, Budget
  <2>2. i # NoJob
    BY DEF Jobs
  <2>3. MayBeClaimed(i)' => MayBeClaimed(i)
    BY <1>3, <1>4, <1>5, <1>7, <2>2, RowAsBefore DEF Stays
  <2>4. Setbacks' >= Setbacks
    BY <1>2, <1>3, SetbacksCount DEF Setbacks
  <2> QED BY <1>2, <1>3, <2>1, <2>3, <2>4, AheadShrinks, QuietBudget
<1> QED BY <1>6, <1>7

\* A new process has no job, and resets rows that were free already.
LEMMA RestartBudget ==
    ASSUME IInv, LoginBudget, TypeOK', NEW w \in Workers, Restart(w)
    PROVE  LoginBudget'
<1> SUFFICES ASSUME NEW i \in Jobs PROVE BudgetOf(i)'
  BY DEF LoginBudget
<1>1. logins' = logins /\ proc[w].state = "down" /\ proc' = [proc EXCEPT ![w].state = "up"]
  BY DEF Restart
<1>2. TypeOK /\ BudgetOf(i) /\ proc[w].job = NoJob
  BY <1>1 DEF IInv, LoginBudget, PhaseHasJob
<1>3. proc'[w].job = NoJob /\ \A v \in Workers \ {w} : proc'[v] = proc[v]
  BY <1>1, <1>2 DEF TypeOK, Process
<1>4. LoginsAhead(i)' \subseteq LoginsAhead(i)
  BY <1>2, <1>3, QuietProcess, AheadShrinks
<1>5. MayBeClaimed(i)' => MayBeClaimed(i)
  <2>0. i # NoJob
    BY DEF Jobs
  <2>1. CASE job'[i] = job[i]
    BY <1>2, <1>3, <2>0, <2>1, RowAsBefore DEF Stays
  <2>2. CASE job'[i] # job[i]
    <3>1. job' = Recovered
      BY <2>2 DEF Restart
    <3>2. job[i].status = "running" /\ job[i].lock = "expired"
      BY <2>2, <3>1 DEF Recovered
    <3> QED BY <3>2 DEF MayBeClaimed
  <2> QED BY <2>1, <2>2
<1>6. Setbacks' >= Setbacks
  <2>1. Setbacks \in Nat /\ (Fault => Setbacks' = Setbacks + 1)
    BY <1>2, SetbacksCount
  <2>2. used' = used => Setbacks' = Setbacks
    BY DEF Setbacks
  <2> HIDE DEF Setbacks
  <2> QED BY <2>1, <2>2 DEF Restart
<1> QED BY <1>1, <1>2, <1>4, <1>5, <1>6, QuietBudget

\* Every step keeps the account of logins.
LEMMA BudgetStep == ASSUME IInv, LoginBudget, [Next]_vars PROVE LoginBudget'
<1>1. TypeOK'
  BY TypeStep
<1>2. CASE UNCHANGED vars
  BY <1>2 DEF vars, LoginBudget, BudgetOf, LoginsAhead, Budget, MayBeClaimed, Stays, Setbacks
<1> QED BY <1>1, <1>2, RowBudget, WorkBudget, LoginBudgetSpent, SettledBudget, EndBudget,
           ClaimBudget, RestartBudget DEF Next, UserStep, WorkStep, LoginReturns

\* The account of logins says what LoginsBounded does, and more.
LEMMA BudgetBounds == ASSUME TypeOK, LoginBudget PROVE LoginsBounded
<1> SUFFICES ASSUME NEW j \in Jobs PROVE logins[j] <= MaxRuns * (1 + Setbacks)
  BY DEF LoginsBounded, Setbacks, MaxRuns, TypeOK
<1>1. BudgetOf(j) /\ logins[j] \in Nat /\ Setbacks \in Nat
  BY SetbacksCount DEF LoginBudget, TypeOK
<1>2. Cardinality(LoginsAhead(j)) \in Nat
  BY <1>1, FS_CardinalityType DEF BudgetOf
<1> HIDE DEF LoginsAhead, MayBeClaimed, Setbacks
<1> QED BY <1>1, <1>2 DEF BudgetOf, MaxRuns

\* X sees at most three logins of a job, and three more for each fault, stall and stop,
\* however many workers reclaim it in whatever order (claimNext, process, runLogin).
THEOREM LoginsAreBounded == Spec => []LoginsBounded
<1>1. Init => IInv /\ LoginBudget
  BY InitIInv, InitBudget
<1>2. IInv /\ LoginBudget /\ [Next]_vars => IInv' /\ LoginBudget'
  BY NextIInv, BudgetStep
<1>3. IInv /\ LoginBudget => LoginsBounded
  BY BudgetBounds DEF IInv
<1> QED BY <1>1, <1>2, <1>3, PTL DEF Spec

-----------------------------------------------------------------------------
(* What the row says of the account.                                       *)

\* Between its transaction and markSuccess a worker knows that accounts has the cookies.
SuccessStored ==
    /\ \A w \in Workers : At(w, "success") => proc[w].job \in stored
    /\ \A j \in Jobs : job[j].status = "success" => j \in stored

\* Before anything goes wrong, whoever has stored cookies is about to say so, or has.
StoredIsTold ==
    Setbacks = 0 =>
        /\ \A w \in Workers : proc[w].state = "up"
        /\ \A j \in stored : \/ job[j].status = "success"
                             \/ \E w \in Workers : proc[w].job = j /\ At(w, "success")

\* Both hold at first.
LEMMA InitOutcome == ASSUME Init PROVE SuccessStored /\ StoredIsTold
BY DEF Init, Idle, Absent, SuccessStored, StoredIsTold, At

\* A process comes to "success" only by storing, and a row only from there.
LEMMA SuccessStoredStep ==
    ASSUME IInv, SuccessStored, [Next]_vars
    PROVE  SuccessStored'
<1>1. stored \subseteq stored'
  BY DEF Next, vars, UserStep, Create, CancelForUser, ClaimNext, WorkStep, StartLogin,
         CipherFails, LoginReturns, ProbeCancelled, LoginSucceeds, LoginFails, LoginRetries,
         MarkCancelled, MarkFailure, StoreCookies, MarkSuccess, ExtendLock, Stop, Drained,
         Restart, FaultStep, QueryRejects, Crash, DrainTimeout, LockExpires
<1>2. TypeOK
  BY DEF IInv
<1>3. ASSUME NEW v \in Workers, proc'[v].phase = "success"
      PROVE  proc'[v].job \in stored'
  <2>1. ASSUME proc'[v] = proc[v] PROVE proc'[v].job \in stored'
    BY <1>1, <1>3, <2>1 DEF SuccessStored, At
  <2>2. ASSUME NEW w \in Workers, NEW phase \in Phase \ {"success"}, Goto(w, phase)
        PROVE  proc'[v].job \in stored'
    <3>1. v # w
      BY <1>2, <1>3, <2>2 DEF Goto, TypeOK, Process
    <3>2. proc'[v] = proc[v]
      BY <1>2, <2>2, <3>1 DEF Goto, TypeOK
    <3> QED BY <2>1, <3>2
  <2>3. ASSUME NEW w \in Workers, Settle(w) \/ Ends(w)
        PROVE  proc'[v].job \in stored'
    <3>1. v # w
      BY <1>2, <1>3, <2>3 DEF Settle, Settled, Ends, Idle, TypeOK
    <3>2. proc'[v] = proc[v]
      BY <1>2, <2>3, <3>1 DEF Settle, Ends, TypeOK
    <3> QED BY <2>1, <3>2
  <2>4. ASSUME NEW w \in Workers, LoginRetries(w) PROVE proc'[v].job \in stored'
    <3>1. v # w
      BY <1>2, <1>3, <2>4 DEF LoginRetries, At, TypeOK, Process
    <3>2. proc'[v] = proc[v]
      BY <1>2, <2>4, <3>1 DEF LoginRetries, TypeOK
    <3> QED BY <2>1, <3>2
  <2>5. ASSUME NEW w \in Workers, ClaimNext(w) PROVE proc'[v].job \in stored'
    <3>1. PICK j \in Jobs : proc' = [proc EXCEPT ![w].phase = "claim", ![w].job = j]
      BY <2>5 DEF ClaimNext, Claimable
    <3>2. v # w
      BY <1>2, <1>3, <3>1 DEF TypeOK, Process
    <3>3. proc'[v] = proc[v]
      BY <1>2, <3>1, <3>2 DEF TypeOK
    <3> QED BY <2>1, <3>3
  <2>6. ASSUME NEW w \in Workers, QueryRejects(w) PROVE proc'[v].job \in stored'
    <3>1. CASE Settle(w)
      BY <2>3, <3>1
    <3>2. CASE proc' = [proc EXCEPT ![w].phase = "rescue", ![w].aborted = FALSE]
      <4>1. v # w
        BY <1>2, <1>3, <3>2 DEF TypeOK, Process
      <4>2. proc'[v] = proc[v]
        BY <1>2, <3>2, <4>1 DEF TypeOK
      <4> QED BY <2>1, <4>2
    <3> QED BY <2>6, <3>1, <3>2 DEF QueryRejects
  <2>7. ASSUME NEW w \in Workers, Stop(w) \/ Restart(w) PROVE proc'[v].job \in stored'
    <3>1. proc'[v].phase = proc[v].phase /\ proc'[v].job = proc[v].job
      BY <1>2, <2>7 DEF Stop, Restart, TypeOK, Process
    <3> QED BY <1>1, <1>3, <3>1 DEF SuccessStored, At
  <2>8. ASSUME NEW w \in Workers, StoreCookies(w) PROVE proc'[v].job \in stored'
    <3>1. CASE v = w
      BY <1>2, <2>8, <3>1 DEF StoreCookies, Goto, TypeOK, Process
    <3>2. CASE v # w
      <4>1. proc'[v] = proc[v]
        BY <1>2, <2>8, <3>2 DEF StoreCookies, Goto, TypeOK
      <4> QED BY <2>1, <4>1
    <3> QED BY <3>1, <3>2
  <2>9. CASE proc' = proc
    BY <2>1, <2>9
  <2> QED BY <2>2, <2>3, <2>4, <2>5, <2>6, <2>7, <2>8, <2>9
      DEF Next, vars, UserStep, Create, CancelForUser, WorkStep, StartLogin, CipherFails,
          LoginReturns, ProbeCancelled, LoginSucceeds, LoginFails, MarkCancelled, MarkFailure,
          MarkSuccess, ExtendLock, Drained, FaultStep, Crash, DrainTimeout, LockExpires, Phase
<1>4. ASSUME NEW i \in Jobs, job'[i].status = "success" PROVE i \in stored'
  <2>0. job[i] \in Row
    BY <1>2 DEF TypeOK
  <2>1. ASSUME job'[i].status = job[i].status PROVE i \in stored'
    BY <1>1, <1>4, <2>1 DEF SuccessStored
  <2>2. ASSUME NEW w \in Workers, MarkSuccess(w) PROVE i \in stored'
    <3>1. CASE i = proc[w].job
      BY <2>2, <3>1 DEF MarkSuccess, SuccessStored
    <3>2. CASE i # proc[w].job
      BY <1>2, <2>1, <2>2, <3>2 DEF MarkSuccess, Finish, TypeOK
    <3> QED BY <3>1, <3>2
  <2>3. ASSUME NEW w \in Workers, MarkCancelled(w) \/ MarkFailure(w) PROVE i \in stored'
    <3>1. PICK status \in {"cancelled", "failed"} : Finish(proc[w].job, status)
      BY <2>3 DEF MarkCancelled, MarkFailure
    <3>2. i # proc[w].job
      BY <1>2, <1>4, <3>1 DEF Finish, TypeOK
    <3> QED BY <1>2, <2>1, <3>1, <3>2 DEF Finish, TypeOK
  <2>4. ASSUME NEW w \in Workers, ClaimNext(w) PROVE i \in stored'
    <3>1. PICK j \in Jobs : job' = [job EXCEPT ![j].status = "running", ![j].lock = "held"]
      BY <2>4 DEF ClaimNext, Claimable
    <3>2. i # j
      BY <1>2, <1>4, <3>1 DEF TypeOK, Row
    <3> QED BY <1>2, <2>1, <3>1, <3>2 DEF TypeOK
  <2>5. ASSUME NEW w \in Workers, ExtendLock(w) PROVE i \in stored'
    BY <1>2, <2>0, <2>1, <2>5 DEF ExtendLock, TypeOK, Row
  <2>6. ASSUME NEW w \in Workers, Restart(w) PROVE i \in stored'
    BY <1>4, <2>0, <2>1, <2>6 DEF Restart, Recovered, Row
  <2>7. ASSUME NEW j \in Jobs, Create(j) \/ CancelForUser(j) PROVE i \in stored'
    <3>1. i # j
      <4>1. CASE Create(j)
        BY <1>2, <1>4, <4>1 DEF Create, Absent, TypeOK
      <4>2. CASE CancelForUser(j)
        BY <1>2, <1>4, <2>0, <4>2 DEF CancelForUser, TypeOK, Row
      <4> QED BY <2>7, <4>1, <4>2
    <3> QED BY <1>2, <2>1, <2>7, <3>1 DEF Create, CancelForUser, TypeOK
  <2>8. ASSUME NEW j \in Jobs, LockExpires(j) PROVE i \in stored'
    BY <1>2, <2>0, <2>1, <2>8 DEF LockExpires, TypeOK, Row
  <2>9. CASE job' = job
    BY <2>1, <2>9
  <2> QED BY <2>2, <2>3, <2>4, <2>5, <2>6, <2>7, <2>8, <2>9
      DEF Next, vars, UserStep, WorkStep, StartLogin, CipherFails, LoginReturns,
          ProbeCancelled, LoginSucceeds, LoginFails, LoginRetries, StoreCookies, Stop,
          Drained, FaultStep, QueryRejects, Crash, DrainTimeout
<1> QED BY <1>3, <1>4 DEF SuccessStored, At

\* Nothing that went wrong is forgotten.
LEMMA SetbacksGrow ==
    ASSUME TypeOK, [Next]_vars
    PROVE  Setbacks \in Nat /\ Setbacks' >= Setbacks
<1>1. Setbacks \in Nat /\ (Fault => Setbacks' = Setbacks + 1)
  BY SetbacksCount
<1>2. CASE used' = used
  BY <1>1, <1>2 DEF Setbacks
<1>3. CASE Fault
  BY <1>1, <1>3
<1>4. CASE \E w \in Workers : Stop(w)
  BY <1>4, LoginAssumption DEF Stop, Setbacks, TypeOK
<1>5. CASE \E j \in Jobs : LockExpires(j)
  <2>1. used' = used \/ used' = [used EXCEPT !.stalls = @ + 1]
    BY <1>5 DEF LockExpires
  <2> QED BY <1>2, <2>1, LoginAssumption DEF Setbacks, TypeOK
<1> QED BY <1>2, <1>3, <1>4, <1>5
       DEF Next, vars, UserStep, Create, CancelForUser, ClaimNext, WorkStep, StartLogin,
           CipherFails, LoginReturns, ProbeCancelled, LoginSucceeds, LoginFails,
           LoginRetries, MarkCancelled, MarkFailure, StoreCookies, MarkSuccess, ExtendLock,
           Drained, Restart, FaultStep, QueryRejects, Crash, DrainTimeout

\* What can happen while nothing goes wrong.
CalmStep ==
    \/ UserStep
    \/ \E w \in Workers : ClaimNext(w) \/ WorkStep(w) \/ ExtendLock(w)
    \/ \E j \in Jobs : LockExpires(j)
    \/ UNCHANGED vars

\* Faults, stops and what follows from them are no such steps.
LEMMA StepIsCalm ==
    ASSUME IInv, StoredIsTold, [Next]_vars, Setbacks' = 0
    PROVE  CalmStep /\ Setbacks = 0
<1>1. TypeOK
  BY DEF IInv
<1>2. Setbacks \in Nat /\ Setbacks' >= Setbacks /\ (Fault => Setbacks' = Setbacks + 1)
  BY <1>1, SetbacksGrow, SetbacksCount
<1>3. Setbacks = 0 /\ ~Fault
  BY <1>2
<1>4. \A w \in Workers : proc[w].state = "up"
  BY <1>3 DEF StoredIsTold
<1>5. ASSUME NEW w \in Workers, Stop(w) PROVE FALSE
  <2>1. Setbacks' = Setbacks + 1
    BY <1>1, <1>5, LoginAssumption DEF Stop, Setbacks, TypeOK
  <2> QED BY <1>3, <2>1
<1>6. ASSUME NEW w \in Workers, FaultStep(w) \/ Drained(w) \/ Restart(w) PROVE FALSE
  BY <1>3, <1>4, <1>6 DEF FaultStep, QueryRejects, Crash, DrainTimeout, Drained, Restart
<1> QED BY <1>3, <1>5, <1>6 DEF Next, CalmStep

\* While nothing goes wrong, a row stays a success, since nobody holds its job, and a
\* worker that has stored cookies makes its next step by saying so.
LEMMA StoredIsToldStep ==
    ASSUME IInv, SuccessStored, StoredIsTold, [Next]_vars
    PROVE  StoredIsTold'
<1> SUFFICES ASSUME Setbacks' = 0
             PROVE  /\ \A v \in Workers : proc'[v].state = "up"
                    /\ \A i \in stored' :
                          \/ job'[i].status = "success"
                          \/ \E v \in Workers : proc'[v].job = i /\ proc'[v].phase = "success"
  BY DEF StoredIsTold, At
<1>1. CalmStep /\ Setbacks = 0 /\ TypeOK
  BY StepIsCalm DEF IInv
<1>2. \A w \in Workers : proc[w].state = "up"
  BY <1>1 DEF StoredIsTold
<1>3. used.stalls = 0
  BY <1>1, LoginAssumption DEF Setbacks, TypeOK
<1>4. \A w \in Workers : proc[w].job # NoJob => job[proc[w].job].status \in {"running", "cancelled"}
  BY <1>3 DEF IInv, HolderHasRow
<1>5. \A w \in Workers : proc[w].phase # "idle" => proc[w].job \in Jobs
  BY BusyHasJob
<1>6. \A v \in Workers : proc'[v].state = "up"
  <2>1. ASSUME NEW w \in Workers, NEW phase \in Phase, Goto(w, phase)
        PROVE  \A v \in Workers : proc'[v].state = "up"
    BY <1>1, <1>2, <2>1 DEF Goto, TypeOK, Process
  <2>2. ASSUME NEW w \in Workers, Settle(w)
        PROVE  \A v \in Workers : proc'[v].state = "up"
    BY <1>1, <1>2, <2>2 DEF Settle, Settled, Idle, TypeOK, Process
  <2>3. ASSUME NEW w \in Workers, ClaimNext(w)
        PROVE  \A v \in Workers : proc'[v].state = "up"
    BY <1>1, <1>2, <2>3 DEF ClaimNext, TypeOK, Process
  <2>4. ASSUME NEW w \in Workers, LoginRetries(w)
        PROVE  \A v \in Workers : proc'[v].state = "up"
    BY <1>1, <1>2, <2>4 DEF LoginRetries, TypeOK, Process
  <2>5. CASE proc' = proc
    BY <1>2, <2>5
  <2> QED BY <1>1, <2>1, <2>2, <2>3, <2>4, <2>5
          DEF CalmStep, vars, UserStep, Create, CancelForUser, WorkStep, StartLogin,
              CipherFails, LoginReturns, ProbeCancelled, LoginSucceeds, LoginFails,
              MarkCancelled, MarkFailure, StoreCookies, MarkSuccess, ExtendLock,
              LockExpires, Phase
<1>7. ASSUME NEW i \in Jobs, job[i].status = "success" PROVE job'[i].status = "success"
  <2>0. job[i] \in Row
    BY <1>1 DEF TypeOK
  <2>1. ASSUME NEW j \in Jobs, Create(j) \/ CancelForUser(j) PROVE job'[i] = job[i]
    BY <1>1, <1>7, <2>1 DEF Create, CancelForUser, TypeOK
  <2>2. ASSUME NEW j \in Jobs, LockExpires(j) PROVE job'[i].status = "success"
    BY <1>1, <1>7, <2>0, <2>2 DEF LockExpires, TypeOK, Row
  <2>3. ASSUME NEW w \in Workers, ExtendLock(w) PROVE job'[i] = job[i]
    BY <1>1, <1>7, <2>3 DEF ExtendLock, TypeOK
  <2>4. ASSUME NEW w \in Workers, ClaimNext(w) PROVE job'[i] = job[i]
    <3>1. PICK j \in Claimable : job' = [job EXCEPT ![j].status = "running", ![j].lock = "held"]
      BY <2>4 DEF ClaimNext
    <3>2. i # j
      BY <1>7, <3>1 DEF Claimable
    <3> QED BY <1>1, <3>1, <3>2 DEF TypeOK
  <2>5. ASSUME NEW w \in Workers, MarkCancelled(w) \/ MarkFailure(w) \/ MarkSuccess(w)
        PROVE  job'[i] = job[i]
    <3>1. PICK status : Finish(proc[w].job, status)
      BY <2>5 DEF MarkCancelled, MarkFailure, MarkSuccess
    <3>2. proc[w].job # NoJob
      BY <1>5, <2>5 DEF MarkCancelled, MarkFailure, MarkSuccess, At, Jobs
    <3>3. i # proc[w].job
      BY <1>4, <1>7, <3>2
    <3> QED BY <1>1, <3>1, <3>3 DEF Finish, TypeOK
  <2>6. CASE job' = job
    BY <1>7, <2>6
  <2> QED BY <1>1, <1>7, <2>1, <2>2, <2>3, <2>4, <2>5, <2>6
          DEF CalmStep, vars, UserStep, WorkStep, StartLogin, CipherFails, LoginReturns,
              ProbeCancelled, LoginSucceeds, LoginFails, LoginRetries, StoreCookies
<1>8. ASSUME NEW v \in Workers, proc[v].phase = "success"
      PROVE  proc'[v] = proc[v] \/ job'[proc[v].job].status = "success"
  <2>1. ASSUME NEW w \in Workers, proc[w].phase # "success", ClaimNext(w) \/ WorkStep(w)
        PROVE  proc'[v] = proc[v]
    <3>1. v # w
      BY <1>8, <2>1
    <3> QED BY <1>1, <2>1, <3>1
            DEF ClaimNext, WorkStep, StartLogin, CipherFails, LoginReturns, ProbeCancelled,
                LoginSucceeds, LoginFails, LoginRetries, MarkCancelled, MarkFailure,
                StoreCookies, MarkSuccess, Goto, Settle, TypeOK
  <2>2. ASSUME NEW w \in Workers, proc[w].phase = "success", ClaimNext(w) \/ WorkStep(w)
        PROVE  MarkSuccess(w)
    BY <2>2 DEF ClaimNext, WorkStep, StartLogin, CipherFails, LoginReturns, ProbeCancelled,
                LoginSucceeds, LoginFails, LoginRetries, MarkCancelled, MarkFailure,
                StoreCookies, At
  <2>3. ASSUME NEW w \in Workers, MarkSuccess(w)
        PROVE  proc'[v] = proc[v] \/ job'[proc[v].job].status = "success"
    <3>1. CASE v = w
      BY <1>1, <1>5, <1>8, <2>3, <3>1 DEF MarkSuccess, Finish, TypeOK
    <3>2. CASE v # w
      BY <1>1, <2>3, <3>2 DEF MarkSuccess, Settle, TypeOK
    <3> QED BY <3>1, <3>2
  <2>4. CASE proc' = proc
    BY <2>4
  <2> QED BY <1>1, <2>1, <2>2, <2>3, <2>4
          DEF CalmStep, vars, UserStep, Create, CancelForUser, ExtendLock, LockExpires
<1>9. ASSUME NEW i \in stored'
      PROVE  \/ job'[i].status = "success"
             \/ \E v \in Workers : proc'[v].job = i /\ proc'[v].phase = "success"
  <2>1. CASE i \in stored
    <3>1. i \in Jobs
      BY <1>1, <2>1 DEF TypeOK
    <3>2. \/ job[i].status = "success"
          \/ \E v \in Workers : proc[v].job = i /\ proc[v].phase = "success"
      BY <1>1, <2>1 DEF StoredIsTold, At
    <3> QED BY <1>7, <1>8, <3>1, <3>2
  <2>2. CASE i \notin stored
    <3>1. PICK w \in Workers : StoreCookies(w)
      BY <1>1, <1>9, <2>2 DEF CalmStep, vars, UserStep, Create, CancelForUser, ClaimNext,
         WorkStep, StartLogin, CipherFails, LoginReturns, ProbeCancelled, LoginSucceeds,
         LoginFails, LoginRetries, MarkCancelled, MarkFailure, MarkSuccess, ExtendLock,
         LockExpires
    <3>2. i = proc[w].job
      BY <1>9, <2>2, <3>1 DEF StoreCookies
    <3>3. proc'[w].job = proc[w].job /\ proc'[w].phase = "success"
      BY <1>1, <3>1 DEF StoreCookies, Goto, TypeOK, Process
    <3> QED BY <3>2, <3>3
  <2> QED BY <2>1, <2>2
<1> QED BY <1>6, <1>9

\* Together they are what the user is told.
LEMMA OutcomeHolds == ASSUME IInv, SuccessStored, StoredIsTold PROVE OutcomeIsTrue
<1>1. TypeOK /\ Setbacks \in Nat
  BY SetbacksCount DEF IInv
<1>2. ASSUME NEW j \in Jobs, job[j].status = "failed", j \in stored PROVE Setbacks > 0
  <2>1. SUFFICES ASSUME Setbacks = 0 PROVE FALSE
    BY <1>1
  <2>2. PICK w \in Workers : proc[w].job = j /\ At(w, "success")
    BY <1>2, <2>1 DEF StoredIsTold
  <2>3. used.stalls = 0
    BY <1>1, <2>1, LoginAssumption DEF Setbacks, TypeOK
  <2>4. j # NoJob
    BY DEF Jobs
  <2> QED BY <1>2, <2>2, <2>3, <2>4 DEF IInv, HolderHasRow
<1> QED BY <1>2 DEF OutcomeIsTrue, SuccessStored, Setbacks

\* A login reported as a success has stored its cookies, and one reported as failed has
\* not, unless something went wrong on the way (upsertAccountWithCookies before markSuccess).
THEOREM OutcomeTold == Spec => []OutcomeIsTrue
<1>1. Init => IInv /\ SuccessStored /\ StoredIsTold
  BY InitIInv, InitOutcome
<1>2. IInv /\ SuccessStored /\ StoredIsTold /\ [Next]_vars
         => IInv' /\ SuccessStored' /\ StoredIsTold'
  BY NextIInv, SuccessStoredStep, StoredIsToldStep
<1>3. IInv /\ SuccessStored /\ StoredIsTold => OutcomeIsTrue
  BY OutcomeHolds
<1> QED BY <1>1, <1>2, <1>3, PTL DEF Spec
=============================================================================
