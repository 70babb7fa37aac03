--------------------------- MODULE BackgroundTasks ---------------------------
(***************************************************************************)
(* The two tasks that need a leader, in a deployment that runs one of      *)
(* them: MONITOR_POLLING_ENABLED and AGENT_SCHEDULER_ENABLED tell every    *)
(* process which.  Their locks have different keys, so where both run they *)
(* have nothing in common; held and lost are the lock of the one that      *)
(* runs.                                                                   *)
(***************************************************************************)
EXTENDS MonitorPoller, AgentScheduler

VARIABLE task  \* the task that is enabled

taskVars == <<task, lockVars, monitorVars, schedulerVars>>

TasksTypeOK ==
    /\ TypeOK
    /\ SchedulerTypeOK
    /\ task \in {"monitor", "agent"}

\* onApplicationBootstrap starts the timer of the enabled task.
TasksInit ==
    /\ Init
    /\ SchedulerInit
    /\ task \in {"monitor", "agent"}

MonitorStep(A) == A /\ task = "monitor" /\ UNCHANGED <<task, schedulerVars>>

AgentStep(A) == A /\ task = "agent" /\ UNCHANGED <<task, monitorVars>>

TasksNext == MonitorStep(Next) \/ AgentStep(SchedulerNext)

TasksSpec == TasksInit /\ [][TasksNext]_taskVars

\* The awaits of a poll settle, a process that ended is started again, the pool closes
\* idle sessions, and a process that may have the lock time and again asks for it then,
\* on a session that may have it (the timer fires for ever).  Nothing is asked of the
\* agent's task: no property says that it gets on.
TasksFairSpec ==
    /\ TasksSpec
    /\ \A p \in Processes :
         /\ WF_taskVars(MonitorStep(CycleStep(p) \/ Restart(p)))
         /\ SF_taskVars(MonitorStep(Lead(p)))
         /\ WF_taskVars(MonitorStep(~Leads(p) /\ IdleSessionCloses(p)))

\* README.md:595, "only one instance polls per cycle", of both tasks: two processes
\* lead together only if one lost its lock with its session, however unlocks miss the
\* session that has it, processes end and locks pile up.
OneLeaderPerTask ==
    lost = 0 =>
        \A p, q \in Processes :
            \/ p = q
            \/ ~Leads(p) /\ ~Schedules(p)
            \/ ~Leads(q) /\ ~Schedules(q)

\* Although locks get stuck, are lost or refused and processes end, a monitor that stays
\* enabled catches up with the newest tweet of its handle.
PolledTweetIsSeen ==
    \A m \in Monitors :
        task = "monitor" /\ m \in Enabled
            ~> m \notin Enabled \/ Newest \in {NoTweet, monitor[m].seen}
=============================================================================
