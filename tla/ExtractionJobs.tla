--------------------------- MODULE ExtractionJobs ---------------------------
(***************************************************************************)
(* Extractions: rows of extraction_jobs, the ExtractionWorker processes    *)
(* that claim one at a time and append page after page of a read           *)
(* (module ReadPage) to the job's file, and users who create and cancel    *)
(* jobs.                                                                   *)
(*                                                                         *)
(* locked_until is left out: claimNext tests it on queued rows only, and a *)
(* queued row never has one.                                               *)
(***************************************************************************)
EXTENDS ReadPage

CONSTANTS
    MaxJobs,    \* bound on the jobs users create
    MaxRows,    \* max_rows of a job
    BatchSize,  \* rows of a page
    MaxFaults,  \* bound on rejected awaits, crashes and drain timeouts
    MaxStops    \* bound on graceful shutdowns

ASSUME ExtractionAssumption ==
    /\ {MaxRows, BatchSize} \subseteq Nat \ {0}
    /\ {MaxJobs, MaxFaults, MaxStops} \subseteq Nat

\* Jobs in the order of created_at.
Jobs == 1 .. MaxJobs
NoJob == 0

VARIABLES
    job,   \* the database: the row of each job
    file,  \* the file of each job, a line for each item
    proc,  \* the worker processes
    used   \* how many faults and stops happened (bounds)

jobVars == <<job, file, proc, used>>
vars == <<readVars, jobVars>>

-----------------------------------------------------------------------------
Open == {"queued", "running"}
Terminal == {"succeeded", "failed", "cancelled"}

Row == [status : {"absent"} \cup Open \cup Terminal,
        rows : Nat,        \* rows_extracted
        cursor : Cursor]   \* last_cursor

Absent == [status |-> "absent", rows |-> 0, cursor |-> Start]

\* Where the process is with its job.  Each but "idle" is an await:
\*   claim     the claimNext response is on its way back to tick()
\*   fetch     about to call, or in, fetchPage
\*   write     handle.write of the items of a page
\*   progress  updateProgress
\*   success   markSuccess
\*   fail      markFailure, in the catch of process()
\*   close     handle.close, in the finally of process()
\*   rescue    markFailure, in the catch of tick()
Phase == {"idle", "claim", "fetch", "write", "progress", "success", "fail", "close", "rescue"}

Process == [state : {"up", "draining", "down"},
            phase : Phase,
            job : Jobs \cup {NoJob},
            total : Nat,       \* totalRows
            page : Seq(Keys),  \* items of the page that are not written yet
            items : Nat,       \* page.items.length
            more : BOOLEAN,    \* page.nextCursor is not null
            awaited : BOOLEAN] \* drainInflight waits for it

Idle == [state |-> "up", phase |-> "idle", job |-> NoJob, total |-> 0,
         page |-> <<>>, items |-> 0, more |-> FALSE, awaited |-> FALSE]

TypeOK ==
    /\ ReadTypeOK
    /\ job \in [Jobs -> Row]
    /\ file \in [Jobs -> Seq(Keys)]
    /\ proc \in [Readers -> Process]
    /\ used \in [faults : 0 .. MaxFaults, stops : 0 .. MaxStops]

Init ==
    /\ ReadInit
    /\ job = [j \in Jobs |-> Absent]
    /\ file = [j \in Jobs |-> <<>>]
    /\ proc = [w \in Readers |-> Idle]
    /\ used = [faults |-> 0, stops |-> 0]

-----------------------------------------------------------------------------
(* Helpers.                                                                *)

At(w, phase) == proc[w].phase = phase

Goto(w, phase) == proc' = [proc EXCEPT ![w].phase = phase]

\* inflight settles: the process may claim again, drainInflight returns.
Settle(w) == proc' = [proc EXCEPT ![w] = [Idle EXCEPT !.state = proc[w].state]]

Fault ==
    /\ used.faults < MaxFaults
    /\ used' = [used EXCEPT !.faults = @ + 1]

\* Mutant of Claimable: a running row may be taken over, as if its worker had died.
ClaimableAgain == {j \in Jobs : job[j].status \in Open}

\* Rows claimNext may select.
Claimable == {j \in Jobs : job[j].status = "queued"}

\* Mutant of Finish: only a queued row can be finished.
FinishQueued(j, status, rows) ==
    IF job[j].status = "queued"
    THEN job' = [job EXCEPT ![j].status = status, ![j].rows = rows] ELSE UNCHANGED job

\* markSuccess, markFailure: WHERE id only.
Finish(j, status, rows) ==
    job' = [job EXCEPT ![j].status = status, ![j].rows = rows]

\* min(batchSize, remaining)
Limit(w) ==
    IF MaxRows - proc[w].total < BatchSize THEN MaxRows - proc[w].total ELSE BatchSize

\* The browser of a read goes with its process or its error.
DropRead(w) ==
    /\ call' = [call EXCEPT ![w] = NoCall]
    /\ UNCHANGED <<timeline, cursor, changes>>

-----------------------------------------------------------------------------
(* Users.                                                                  *)

\* ExtractionService.validateAndEnqueue, ExtractionJobsRepository.create.
Create(j) ==
    /\ job[j].status = "absent"
    /\ \A i \in 1 .. j - 1 : job[i].status # "absent"
    /\ job' = [job EXCEPT ![j].status = "queued"]
    /\ UNCHANGED <<readVars, file, proc, used>>

CancelById(j) ==
    /\ job[j].status \in Open
    /\ job' = [job EXCEPT ![j].status = "cancelled"]
    /\ UNCHANGED <<readVars, file, proc, used>>

-----------------------------------------------------------------------------
(* ExtractionWorker.                                                       *)

\* tick(): claimNext commits, oldest row first.
ClaimNext(w) ==
    /\ proc[w].state = "up"
    /\ At(w, "idle")
    /\ \E j \in Claimable :
         /\ \A i \in Claimable : j <= i
         /\ job' = [job EXCEPT ![j].status = "running"]
         /\ proc' = [proc EXCEPT ![w].phase = "claim", ![w].job = j]
    /\ UNCHANGED <<readVars, file, used>>

\* process() opens the file, anew for a job without rows, and starts from the row's
\* progress.
OpenFile(w) ==
    /\ At(w, "claim")
    /\ LET j == proc[w].job IN
         /\ file' = [file EXCEPT ![j] = IF job[j].rows = 0 THEN <<>> ELSE @]
         /\ proc' = [proc EXCEPT ![w].phase = "fetch", ![w].total = job[j].rows]
         /\ cursor' = [cursor EXCEPT ![w] = job[j].cursor]
    /\ UNCHANGED <<timeline, call, changes, job, used>>

FetchPage(w) ==
    /\ At(w, "fetch")
    /\ BeginRead(w, Limit(w))
    /\ UNCHANGED jobVars

PageArrives(w) ==
    /\ At(w, "fetch")
    /\ EndRead(w)
    /\ proc' = [proc EXCEPT ![w].phase = "write",
                            ![w].page = call[w].collected,
                            ![w].items = Len(call[w].collected),
                            ![w].more = More(w)]
    /\ UNCHANGED <<job, file, used>>

\* One handle.write; the page is dealt with when none is left.
WriteItem(w) ==
    /\ At(w, "write")
    /\ proc[w].page # <<>>
    /\ file' = [file EXCEPT ![proc[w].job] = Append(@, Head(proc[w].page))]
    /\ proc' = [proc EXCEPT ![w].page = Tail(@)]
    /\ UNCHANGED <<readVars, job, used>>

\* The page is counted; without a next cursor the source is exhausted or stalled.
EndPage(w) ==
    /\ At(w, "write")
    /\ proc[w].page = <<>>
    /\ proc' = [proc EXCEPT ![w].total = @ + proc[w].items,
                            ![w].phase = IF proc[w].more THEN "progress" ELSE "success"]
    /\ UNCHANGED <<readVars, job, file, used>>

\* updateProgress, WHERE id only, and the test of the loop.
UpdateProgress(w) ==
    /\ At(w, "progress")
    /\ job' = [job EXCEPT ![proc[w].job].rows = proc[w].total,
                          ![proc[w].job].cursor = cursor[w]]
    /\ Goto(w, IF proc[w].total < MaxRows THEN "fetch" ELSE "success")
    /\ UNCHANGED <<readVars, file, used>>

MarkSuccess(w) ==
    /\ At(w, "success")
    /\ Finish(proc[w].job, "succeeded", proc[w].total)
    /\ Goto(w, "close")
    /\ UNCHANGED <<readVars, file, used>>

MarkFailure(w) ==
    /\ At(w, "fail")
    /\ Finish(proc[w].job, "failed", proc[w].total)
    /\ Goto(w, "close")
    /\ UNCHANGED <<readVars, file, used>>

Close(w) ==
    /\ At(w, "close")
    /\ Settle(w)
    /\ UNCHANGED <<readVars, job, file, used>>

\* The catch of tick(): 'worker crashed', with no rows.
Rescue(w) ==
    /\ At(w, "rescue")
    /\ Finish(proc[w].job, "failed", 0)
    /\ Settle(w)
    /\ UNCHANGED <<readVars, file, used>>

-----------------------------------------------------------------------------
(* Failures.                                                               *)

\* An await rejects.  In the loop, the catch of process() takes it; a rejected open,
\* markFailure or close, the catch of tick(); what is rejected there is swallowed, and
\* a claim that gets no answer ends the tick.
AwaitRejects(w) ==
    /\ ~At(w, "idle")
    /\ Fault
    /\ \/ /\ At(w, "claim") \/ At(w, "rescue")
          /\ Settle(w)
       \/ /\ proc[w].phase \in {"claim", "fail", "close"}
          /\ Goto(w, "rescue")
       \/ /\ proc[w].phase \in {"fetch", "write", "progress", "success"}
          /\ Goto(w, "fail")
    /\ DropRead(w)
    /\ UNCHANGED <<job, file>>

Ends(w) ==
    /\ proc' = [proc EXCEPT ![w] = [Idle EXCEPT !.state = "down"]]
    /\ DropRead(w)

Crash(w) ==
    /\ proc[w].state # "down"
    /\ Fault
    /\ Ends(w)
    /\ UNCHANGED <<job, file>>

\* onModuleDestroy; a claimNext in flight has not set inflight yet.
Stop(w) ==
    /\ proc[w].state = "up"
    /\ used.stops < MaxStops
    /\ used' = [used EXCEPT !.stops = @ + 1]
    /\ proc' = [proc EXCEPT ![w].state = "draining",
                            ![w].awaited = proc[w].phase \notin {"idle", "claim"}]
    /\ UNCHANGED <<readVars, job, file>>

Drained(w) ==
    /\ proc[w].state = "draining"
    /\ ~proc[w].awaited
    /\ Ends(w)
    /\ UNCHANGED <<job, file, used>>

DrainTimeout(w) ==
    /\ proc[w].state = "draining"
    /\ proc[w].awaited
    /\ Fault
    /\ Ends(w)
    /\ UNCHANGED <<job, file>>

\* A new process; onPreStart touches no row.
Restart(w) ==
    /\ proc[w].state = "down"
    /\ proc' = [proc EXCEPT ![w].state = "up"]
    /\ UNCHANGED <<readVars, job, file, used>>

-----------------------------------------------------------------------------
UserStep == \E j \in Jobs : Create(j) \/ CancelById(j)

\* What the event loop of a process gets round to.
WorkStep(w) ==
    \/ OpenFile(w) \/ FetchPage(w) \/ PageArrives(w)
    \/ WriteItem(w) \/ EndPage(w) \/ UpdateProgress(w)
    \/ MarkSuccess(w) \/ MarkFailure(w) \/ Close(w) \/ Rescue(w)
    \/ Scroll(w) /\ UNCHANGED jobVars

FaultStep(w) == AwaitRejects(w) \/ Crash(w) \/ DrainTimeout(w)

Next ==
    \/ UserStep
    \/ \E w \in Readers : \/ ClaimNext(w) \/ WorkStep(w)
                          \/ Stop(w) \/ Drained(w) \/ Restart(w)
                          \/ FaultStep(w)
    \/ TimelineChanges /\ UNCHANGED jobVars

Spec == Init /\ [][Next]_vars

\* Every promise of a live process settles, its timer fires tick() again, and a process
\* that ended is started again.
FairSpec ==
    /\ Spec
    /\ \A w \in Readers : /\ WF_vars(WorkStep(w)) /\ WF_vars(ClaimNext(w))
                          /\ WF_vars(Drained(w)) /\ WF_vars(Restart(w))

-----------------------------------------------------------------------------
(* Properties.                                                             *)

\* No two processes write to the same file or row, whoever crashes, restarts, stops or
\* cancels: claimNext's SKIP LOCKED, and that no statement queues a job again.
OneWorkerPerJob ==
    \A v, w \in Readers : proc[v].job = proc[w].job /\ proc[v].job # NoJob => v = w

\* A succeeded row tells the truth about the file a user may download, although rows
\* and file are written at different times and by paths that fail in between: as many
\* lines as it says, and no more than were asked for.
SucceededIsWhole ==
    \A j \in Jobs :
        job[j].status = "succeeded" => job[j].rows = Len(file[j]) /\ job[j].rows <= MaxRows

\* A crash, a cancellation or a failure costs the row at most one page of what its file
\* has: rows_extracted trails the file by no more.
ProgressTrailsFile ==
    \A j \in Jobs :
        job[j].status \in {"running", "cancelled"} =>
            /\ job[j].rows <= Len(file[j])
            /\ Len(file[j]) <= job[j].rows + BatchSize

FileIsFaithful == OneWorkerPerJob /\ SucceededIsWhole /\ ProgressTrailsFile

\* However X reorders the surface between and within pages, an item comes back in the
\* file only after SeenCap others: the page drops what the cursor carries.
NoRepeatWithinCap ==
    \A j \in Jobs : \A m, n \in DOMAIN file[j] :
        m < n /\ file[j][m] = file[j][n] => n - m > SeenCap

\* While X shows the same, pages put together are the surface itself: nothing is left
\* out or turned round where one call stops scrolling and the next one resumes.
StableSurfaceIsCopied ==
    changes = 0 => \A j \in Jobs : IsPrefix(file[j], FirstTimeline)

\* A job ends unless its process died or a query was lost: nobody ever finds a row
\* again that was left running.
EveryJobEnds ==
    \A j \in Jobs :
        job[j].status \in Open
            ~> job[j].status \in Terminal \/ used.faults > 0 \/ used.stops > 0
=============================================================================
