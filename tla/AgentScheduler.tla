--------------------------- MODULE AgentScheduler ---------------------------
(***************************************************************************)
(* Who generates the drafts of an agent config, and how many: the          *)
(* AgentScheduler of each process, one of which is to lead at a time, and  *)
(* users who trigger a run by hand.  What becomes of the drafts is in      *)
(* module AgentDrafts.                                                     *)
(***************************************************************************)
EXTENDS LeaderLock

CONSTANTS
    DailyTarget,   \* dailyTweetTarget
    Batch,         \* how many drafts a run generates at most
    MaxTriggers,   \* bound on triggerManually
    MaxRunFaults,  \* bound on rejected awaits and crashes
    MaxDays        \* bound on midnights

ASSUME SchedulerAssumption ==
    /\ {DailyTarget, Batch} \subseteq Nat \ {0}
    /\ {MaxTriggers, MaxRunFaults, MaxDays} \subseteq Nat
    /\ "manual" \notin Processes

VARIABLES
    config,   \* the database: what changes of the row of agent_configs
    drafts,   \* the database: how many rows of agent_drafts are of today
    run,      \* tick() of each process, and triggerManually()
    counted   \* how many faults, triggers and midnights there were (bounds)

schedulerVars == <<config, drafts, run, counted>>

-----------------------------------------------------------------------------
\* triggerManually runs in any process, beside tick().
Manual == "manual"
Runs == Processes \cup {Manual}

\* Where a run is.  Each but "idle" and "down" is an await:
\*   check    processConfig reads the config and counts the drafts of today
\*   write    generateDrafts: the LLM writes, createMany saves
\*   stamp    updateLastRun
\*   unlock   pg_advisory_unlock
Run == [phase : {"idle", "check", "write", "stamp", "unlock", "down"}, count : Nat]

NoRun == [phase |-> "idle", count |-> 0]

SchedulerTypeOK ==
    /\ LockTypeOK
    /\ config \in [enabled : BOOLEAN, due : BOOLEAN]
    /\ drafts \in Nat
    /\ run \in [Runs -> Run]
    /\ counted \in [faults : 0 .. MaxRunFaults, triggers : 0 .. MaxTriggers,
                    days : 0 .. MaxDays]

SchedulerInit ==
    /\ LockInit
    /\ config = [enabled |-> FALSE, due |-> TRUE]
    /\ drafts = 0
    /\ run = [g \in Runs |-> NoRun]
    /\ counted = [faults |-> 0, triggers |-> 0, days |-> 0]

-----------------------------------------------------------------------------
(* Helpers.                                                                *)

Enter(g, phase) == run' = [run EXCEPT ![g] = [NoRun EXCEPT !.phase = phase]]

\* tick() has the lock, or believes so.
Schedules(p) == run[p].phase \notin {"idle", "down"}

RunFault ==
    /\ counted.faults < MaxRunFaults
    /\ counted' = [counted EXCEPT !.faults = @ + 1]

\* Mutant of ToGenerate: a full batch, whatever remains.
GenerateBatch == Batch

\* min(remaining, Batch)
ToGenerate == IF DailyTarget - drafts < Batch THEN DailyTarget - drafts ELSE Batch

-----------------------------------------------------------------------------
\* AgentConfigService.update turns the agent on or off.
UpdateConfig ==
    /\ config' = [config EXCEPT !.enabled = ~@]
    /\ UNCHANGED <<lockVars, drafts, run, counted>>

\* tick(): the timer fires while running is false, and this process becomes the
\* leader; findEnabled finds the config, or not.
Tick(p) ==
    /\ run[p].phase = "idle"
    /\ TakeLock(p)
    /\ Enter(p, IF config.enabled THEN "check" ELSE "unlock")
    /\ UNCHANGED <<config, drafts, counted>>

TickSkipped(p) ==
    /\ run[p].phase = "idle"
    /\ LockRefused(p)
    /\ UNCHANGED schedulerVars

\* processConfig: the config as it is now, its interval, and the drafts of today (two
\* reads, one after the other).
ProcessConfig(p) ==
    /\ run[p].phase = "check"
    /\ IF config.enabled /\ config.due /\ drafts < DailyTarget
       THEN run' = [run EXCEPT ![p] = [phase |-> "write", count |-> ToGenerate]]
       ELSE Enter(p, "unlock")
    /\ UNCHANGED <<lockVars, config, drafts, counted>>

\* A full batch, without a look at the target.
TriggerManually ==
    /\ run[Manual].phase = "idle"
    /\ counted.triggers < MaxTriggers
    /\ counted' = [counted EXCEPT !.triggers = @ + 1]
    /\ run' = [run EXCEPT ![Manual] = [phase |-> "write", count |-> Batch]]
    /\ UNCHANGED <<lockVars, config, drafts>>

\* As many as the LLM suggests, up to count, in one transaction.
GenerateDrafts(g) ==
    /\ run[g].phase = "write"
    /\ \E n \in 0 .. run[g].count : drafts' = drafts + n
    /\ Enter(g, IF g = Manual THEN "idle" ELSE "stamp")
    /\ UNCHANGED <<lockVars, config, counted>>

UpdateLastRun(p) ==
    /\ run[p].phase = "stamp"
    /\ config' = [config EXCEPT !.due = FALSE]
    /\ Enter(p, "unlock")
    /\ UNCHANGED <<lockVars, drafts, counted>>

Unlock(p) ==
    /\ run[p].phase = "unlock"
    /\ GiveBack(p)
    /\ Enter(p, "idle")
    /\ UNCHANGED <<config, drafts, counted>>

\* An await rejects: the next config's turn.
RunRejects(g) ==
    /\ run[g].phase \in {"check", "write", "stamp"}
    /\ RunFault
    /\ Enter(g, IF g = Manual THEN "idle" ELSE "unlock")
    /\ UNCHANGED <<lockVars, config, drafts>>

ProcessEnds(p) ==
    /\ run[p].phase # "down"
    /\ RunFault
    /\ LocksEnd(p)
    /\ Enter(p, "down")
    /\ UNCHANGED <<config, drafts>>

ProcessStarts(p) ==
    /\ run[p].phase = "down"
    /\ Enter(p, "idle")
    /\ UNCHANGED <<lockVars, config, drafts, counted>>

PoolCloses(p) ==
    /\ \E s \in Sessions : SessionCloses(p, s, Schedules(p))
    /\ UNCHANGED schedulerVars

\* scheduleIntervalMinutes are over.
IntervalElapses ==
    /\ ~config.due
    /\ config' = [config EXCEPT !.due = TRUE]
    /\ UNCHANGED <<lockVars, drafts, run, counted>>

\* No draft is of today.
Midnight ==
    /\ counted.days < MaxDays
    /\ counted' = [counted EXCEPT !.days = @ + 1]
    /\ drafts' = 0
    /\ UNCHANGED <<lockVars, config, run>>

-----------------------------------------------------------------------------
TickStep(p) ==
    \/ Tick(p) \/ TickSkipped(p) \/ ProcessConfig(p) \/ UpdateLastRun(p) \/ Unlock(p)
    \/ ProcessEnds(p) \/ ProcessStarts(p) \/ PoolCloses(p)

SchedulerNext ==
    \/ UpdateConfig \/ TriggerManually \/ IntervalElapses \/ Midnight
    \/ \E p \in Processes : TickStep(p)
    \/ \E g \in Runs : GenerateDrafts(g) \/ RunRejects(g)

SchedulerSpec == SchedulerInit /\ [][SchedulerNext]_<<lockVars, schedulerVars>>

-----------------------------------------------------------------------------
(* Properties.                                                             *)

\* The scheduler never goes beyond the daily target, although it counts long before
\* the LLM has written and midnight may lie between; only a manual trigger, which does
\* not look at the target, and a lost lock may add a batch each.
TargetIsKept == drafts <= DailyTarget + Batch * (counted.triggers + lost)
=============================================================================
