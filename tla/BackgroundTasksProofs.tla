----------------------- MODULE BackgroundTasksProofs -----------------------
(***************************************************************************)
(* For every number of processes, sessions, locks piled up and tasks       *)
(* interrupted: one leader, unless a session with the lock was closed      *)
(* under it, a daily target exceeded by a batch for each manual trigger    *)
(* and each lost lock at most, and a tweet delivered once for each reason  *)
(* there was to deliver it.                                                *)
(*                                                                         *)
(* The deliveries are not counted alone: with them go those that pollers   *)
(* still owe to the monitor whose row they have not written yet.           *)
(***************************************************************************)
EXTENDS BackgroundTasks, FiniteSetTheorems, WellFoundedInduction, TLAPS

\* poller[p] is a record of the four fields of Poller, whatever is in the last three.
IsPoller ==
    \E M, R, T : poller \in [Processes -> [phase : Phase, monitor : M, row : R, tweet : T]]

\* The parts of TasksTypeOK that the argument rests on.
Types ==
    /\ held \in [Processes -> [Sessions -> 0 .. MaxDepth]]
    /\ lost \in Nat
    /\ IsPoller
    /\ drafts \in Nat
    /\ run \in [Runs -> Run]
    /\ counted \in [faults : Nat, triggers : Nat, days : Nat]

\* Only the task that is enabled runs.
OneTask ==
    /\ task = "monitor" => \A p \in Processes : ~Schedules(p)
    /\ task = "agent" => \A p \in Processes : ~Leads(p)
    /\ task \in {"monitor", "agent"}

Leading(p) == Leads(p) \/ Schedules(p)

Holds(p) == \E s \in Sessions : held[p][s] > 0

\* Postgres gives the lock to one session.
OneHolder ==
    \A p, q \in Processes, s, r \in Sessions :
        held[p][s] > 0 /\ held[q][r] > 0 => p = q /\ s = r

\* Processes that lead and have no lock.
Lockless == {p \in Processes : Leading(p) /\ ~Holds(p)}

LossesAreCounted == Cardinality(Lockless) <= lost

LockInv == Types /\ OneTask /\ OneHolder /\ LossesAreCounted

-----------------------------------------------------------------------------
LEMMA TaskConstants ==
    /\ MaxDepth \in Nat /\ MaxLost \in Nat /\ IsFiniteSet(Processes)
    /\ DailyTarget \in Nat /\ Batch \in Nat /\ Batch > 0
    /\ MaxTriggers \in Nat /\ MaxRunFaults \in Nat /\ MaxDays \in Nat
    /\ Manual \notin Processes
BY LockAssumption, SchedulerAssumption DEF Manual

LEMMA InitiallyLocked == TasksInit => LockInv
<1> SUFFICES ASSUME TasksInit PROVE LockInv
  OBVIOUS
<1> USE TaskConstants
<1>1. \A p \in Processes : ~Leads(p) /\ ~Schedules(p)
  BY DEF TasksInit, Init, SchedulerInit, Idle, NoRun, Leads, Schedules, Runs
<1>2. Lockless = {}
  BY <1>1 DEF Lockless, Leading
<1>3. IsPoller
  <2>1. Idle \in [phase : Phase, monitor : {NoMonitor}, row : {Absent}, tweet : {NoTweet}]
    BY DEF Idle, Phase
  <2>2. poller \in [Processes -> [phase : Phase, monitor : {NoMonitor}, row : {Absent}, tweet : {NoTweet}]]
    BY <2>1 DEF TasksInit, Init
  <2> QED BY <2>2 DEF IsPoller
<1>4. Types
  BY <1>3 DEF TasksInit, Init, SchedulerInit, LockInit, Types, NoRun, Run
<1>5. OneHolder
  BY DEF TasksInit, Init, LockInit, OneHolder
<1>6. LossesAreCounted
  BY <1>2, FS_EmptySet DEF LossesAreCounted, TasksInit, Init, LockInit
<1> QED BY <1>1, <1>4, <1>5, <1>6 DEF LockInv, OneTask, TasksInit

-----------------------------------------------------------------------------
(* The lock.                                                               *)

\* Only the sessions of p are touched, and no second session gets the lock.
Touches(p) ==
    /\ held' \in [Processes -> [Sessions -> 0 .. MaxDepth]]
    /\ \A q \in Processes : q # p => held'[q] = held[q]
    /\ OneHolder'

LEMMA TakeTouches ==
    ASSUME Types, OneHolder, NEW p \in Processes, TakeLock(p)
    PROVE  Touches(p) /\ Holds(p)' /\ lost' = lost
<1>1. PICK s \in Sessions : /\ MayTake(p, s) /\ held[p][s] < MaxDepth
                            /\ held' = [held EXCEPT ![p][s] = @ + 1]
  BY DEF TakeLock
<1>2. held[p][s] \in 0 .. MaxDepth /\ held'[p][s] = held[p][s] + 1
        /\ \A r \in Sessions : r # s => held'[p][r] = held[p][r]
  BY <1>1 DEF Types
<1>6. \A q \in Processes : q # p => held'[q] = held[q]
  BY <1>1 DEF Types
<1>3. held' \in [Processes -> [Sessions -> 0 .. MaxDepth]]
  BY <1>1, <1>2, TaskConstants DEF Types
<1>4. OneHolder'
  BY <1>1, <1>2, <1>6 DEF OneHolder, MayTake, Types
<1>5. Holds(p)' /\ lost' = lost
  BY <1>2 DEF Holds, TakeLock
<1>7. Touches(p)
  BY <1>3, <1>4, <1>6, Zenon DEF Touches
<1> QED BY <1>5, <1>7

LEMMA FewerHolders ==
    ASSUME Types, OneHolder, NEW p \in Processes,
           held' \in [Processes -> [Sessions -> 0 .. MaxDepth]],
           \A q \in Processes : q # p => held'[q] = held[q],
           \A s \in Sessions : held'[p][s] <= held[p][s]
    PROVE  Touches(p)
<1>1. \A q \in Processes, s \in Sessions : held'[q][s] > 0 => held[q][s] > 0
  BY TaskConstants DEF Types
<1>2. OneHolder'
  BY <1>1 DEF OneHolder
<1> QED BY <1>2 DEF Touches

LEMMA GiveBackTouches ==
    ASSUME Types, OneHolder, NEW p \in Processes, GiveBack(p) PROVE Touches(p) /\ lost' = lost
<1>1. CASE UNCHANGED held
  BY <1>1, FewerHolders DEF Types, GiveBack
<1>2. ASSUME NEW s \in Sessions, held' = [held EXCEPT ![p][s] = IF @ > 0 THEN @ - 1 ELSE @]
      PROVE  Touches(p)
  <2>1. held[p][s] \in 0 .. MaxDepth
    BY DEF Types
  <2>2. held' \in [Processes -> [Sessions -> 0 .. MaxDepth]]
    BY <1>2, <2>1, TaskConstants DEF Types
  <2>3. \A q \in Processes : q # p => held'[q] = held[q]
    BY <1>2 DEF Types
  <2>4. \A r \in Sessions : held'[p][r] <= held[p][r]
    BY <1>2, <2>1 DEF Types
  <2> QED BY <2>2, <2>3, <2>4, FewerHolders
<1> QED BY <1>1, <1>2 DEF GiveBack

LEMMA CloseTouches ==
    ASSUME Types, OneHolder, NEW p \in Processes, NEW s \in Sessions, NEW leading \in BOOLEAN,
           SessionCloses(p, s, leading)
    PROVE  Touches(p) /\ lost' = IF leading THEN lost + 1 ELSE lost
<1>1. held' = [held EXCEPT ![p][s] = 0]
  BY DEF SessionCloses
<1>2. held' \in [Processes -> [Sessions -> 0 .. MaxDepth]]
  BY <1>1, TaskConstants DEF Types
<1>3. \A q \in Processes : q # p => held'[q] = held[q]
  BY <1>1 DEF Types
<1>4. \A r \in Sessions : held'[p][r] <= held[p][r]
  BY <1>1 DEF Types
<1> QED BY <1>2, <1>3, <1>4, FewerHolders DEF SessionCloses

LEMMA EndTouches ==
    ASSUME Types, OneHolder, NEW p \in Processes, LocksEnd(p) PROVE Touches(p) /\ lost' = lost
<1>1. held' = [held EXCEPT ![p] = [s \in Sessions |-> 0]]
  BY DEF LocksEnd
<1>2. held' \in [Processes -> [Sessions -> 0 .. MaxDepth]]
  BY <1>1, TaskConstants DEF Types
<1>3. \A q \in Processes : q # p => held'[q] = held[q]
  BY <1>1 DEF Types
<1>4. \A r \in Sessions : held'[p][r] <= held[p][r]
  BY <1>1 DEF Types
<1> QED BY <1>2, <1>3, <1>4, FewerHolders DEF LocksEnd

-----------------------------------------------------------------------------
(* What a step of either task does to the lock and to who leads.           *)

\* The lock of p only is touched, and nobody but p may begin to lead or lose the lock: p
\* may begin only with it, and if it loses it while it leads, that is counted.
MoveOf(p) ==
    /\ Touches(p)
    /\ \A q \in Processes : q # p /\ Leading(q)' => Leading(q)
    /\ \/ lost' = lost /\ (Leading(p)' => Holds(p)' \/ p \in Lockless)
       \/ lost' = lost + 1

\* The lock is as it was, and nobody begins to lead.
NoMove ==
    /\ UNCHANGED lockVars
    /\ \A q \in Processes : Leading(q)' => Leading(q)

LEMMA PollerSteps ==
    ASSUME IsPoller, NEW p \in Processes, NEW phase \in Phase, Goto(p, phase)
    PROVE  IsPoller' /\ poller'[p].phase = phase
             /\ \A q \in Processes : q # p => poller'[q] = poller[q]
<1>1. PICK M, R, T : poller \in [Processes -> [phase : Phase, monitor : M, row : R, tweet : T]]
  BY DEF IsPoller
<1>2. /\ poller' \in [Processes -> [phase : Phase, monitor : M, row : R, tweet : T]]
      /\ poller'[p].phase = phase
      /\ \A q \in Processes : q # p => poller'[q] = poller[q]
  BY <1>1 DEF Goto
<1> QED BY <1>2 DEF IsPoller

\* A record of the fields of Poller.
IsRecord(x) == \E M, R, T : x \in [phase : Phase, monitor : M, row : R, tweet : T]

LEMMA PollerIsSet ==
    ASSUME IsPoller, NEW p \in Processes, NEW x, IsRecord(x), poller' = [poller EXCEPT ![p] = x]
    PROVE  IsPoller' /\ poller'[p] = x
             /\ \A q \in Processes : q # p => poller'[q] = poller[q]
<1>1. PICK M, R, T : poller \in [Processes -> [phase : Phase, monitor : M, row : R, tweet : T]]
  BY DEF IsPoller
<1>2. PICK M0, R0, T0 : x \in [phase : Phase, monitor : M0, row : R0, tweet : T0]
  BY DEF IsRecord
<1> DEFINE M1 == M \cup M0
           R1 == R \cup R0
           T1 == T \cup T0
           P1 == [phase : Phase, monitor : M1, row : R1, tweet : T1]
<1>3. poller \in [Processes -> P1] /\ x \in P1
  BY <1>1, <1>2
<1> HIDE DEF P1
<1>4. /\ poller' \in [Processes -> P1]
      /\ poller'[p] = x
      /\ \A q \in Processes : q # p => poller'[q] = poller[q]
  BY <1>3
<1>5. poller' \in [Processes -> [phase : Phase, monitor : M1, row : R1, tweet : T1]]
  BY <1>4 DEF P1
<1> HIDE DEF M1, R1, T1
<1>6. IsPoller'
  BY <1>5, Zenon DEF IsPoller
<1> QED BY <1>4, <1>6

LEMMA PollerLeaves ==
    ASSUME IsPoller, NEW p \in Processes, NEW phase \in Phase,
           poller' = [poller EXCEPT ![p] = [Idle EXCEPT !.phase = phase]]
    PROVE  IsPoller' /\ poller'[p].phase = phase
             /\ \A q \in Processes : q # p => poller'[q] = poller[q]
<1> DEFINE x == [Idle EXCEPT !.phase = phase]
<1>1. x \in [phase : Phase, monitor : {NoMonitor}, row : {Absent}, tweet : {NoTweet}]
  BY DEF Idle, Phase
<1>2. x.phase = phase
  BY DEF Idle
<1> HIDE DEF x
<1>3. IsRecord(x)
  BY <1>1, Zenon DEF IsRecord
<1>4. poller' = [poller EXCEPT ![p] = x]
  BY DEF x
<1> QED BY <1>2, <1>3, <1>4, PollerIsSet

\* A cycle goes on: p leads before and after, and has not touched the lock.
LEMMA CycleGoesOn ==
    ASSUME Types, NEW p \in Processes,
           \/ FindEnabled(p) \/ ReadTweets(p) \/ UpdateLastSeen(p)
           \/ Deliver(p) \/ Record(p) \/ CheckRejects(p)
    PROVE  /\ IsPoller' /\ UNCHANGED lockVars
           /\ \A q \in Processes : Leads(q)' => Leads(q)
<1> USE DEF Phase
<1>0. IsPoller
  BY DEF Types
<1>1. UNCHANGED lockVars /\ Leads(p)
  BY DEF FindEnabled, ReadTweets, UpdateLastSeen, Deliver, Record, CheckRejects, At, Leads
<1>2. /\ IsPoller' /\ \A q \in Processes : q # p => poller'[q] = poller[q]
  <2>1. CASE Leave(p)
    BY <1>0, <2>1, PollerLeaves DEF Leave
  <2>2. CASE \E phase \in Phase : Goto(p, phase)
    BY <1>0, <2>2, PollerSteps
  <2>3. CASE \E m \in Enabled : poller' = [poller EXCEPT ![p] = [phase |-> "read", monitor |-> m,
                                                row |-> monitor[m], tweet |-> NoTweet]]
    <3>1. PICK m : poller' = [poller EXCEPT ![p] = [phase |-> "read", monitor |-> m,
                                                    row |-> monitor[m], tweet |-> NoTweet]]
      BY <2>3
    <3> DEFINE x == [phase |-> "read", monitor |-> m, row |-> monitor[m], tweet |-> NoTweet]
    <3>2. x \in [phase : Phase, monitor : {m}, row : {monitor[m]}, tweet : {NoTweet}]
      OBVIOUS
    <3> HIDE DEF x
    <3>3. IsRecord(x)
      BY <3>2, Zenon DEF IsRecord
    <3>4. poller' = [poller EXCEPT ![p] = x]
      BY <3>1 DEF x
    <3> QED BY <1>0, <3>3, <3>4, PollerIsSet
  <2>4. CASE poller' = [poller EXCEPT ![p].phase = "see", ![p].tweet = Newest]
    <3>1. PICK M, R, T : poller \in [Processes -> [phase : Phase, monitor : M, row : R, tweet : T]]
      BY <1>0 DEF IsPoller
    <3>2. poller \in [Processes -> [phase : Phase, monitor : M, row : R, tweet : T \cup {Newest}]]
      BY <3>1
    <3> DEFINE n == Newest
    <3> HIDE DEF n
    <3>3. poller' = [poller EXCEPT ![p].phase = "see", ![p].tweet = n]
      BY <2>4 DEF n
    <3>4. poller' \in [Processes -> [phase : Phase, monitor : M, row : R, tweet : T \cup {n}]]
      BY <3>2, <3>3 DEF n
    <3> QED BY <3>2, <3>3, <3>4 DEF IsPoller
  <2> QED BY <2>1, <2>2, <2>3, <2>4
          DEF FindEnabled, ReadTweets, UpdateLastSeen, Deliver, Record, CheckRejects
<1> QED BY <1>1, <1>2 DEF Leads

LEMMA MonitorMoves ==
    ASSUME LockInv, MonitorStep(Next)
    PROVE  Types' /\ OneTask' /\ (NoMove \/ \E p \in Processes : MoveOf(p))
<1> USE TaskConstants DEF Phase
<1>0. Types /\ OneTask /\ OneHolder /\ IsPoller
  BY DEF LockInv, Types
<1>1. /\ Next /\ task = "monitor" /\ UNCHANGED <<task, config, drafts, run, counted>>
      /\ \A p \in Processes : ~Schedules(p) /\ ~Schedules(p)'
  BY <1>0 DEF MonitorStep, schedulerVars, OneTask, Schedules
<1>2. OneTask'
  BY <1>1 DEF OneTask
<1>3. \A p \in Processes : (Leading(p) <=> Leads(p)) /\ (Leading(p)' <=> Leads(p)')
  BY <1>1 DEF Leading
<1>4. CASE OwnerStep \/ UserStep \/ \E p \in Processes : Skip(p)
  <2>1. UNCHANGED <<held, lost, poller>>
    BY <1>4 DEF OwnerStep, Post, DeleteTweet, UserStep, Create, FindExisting, SaveExisting,
                Disable, Delete, Skip, LockRefused, lockVars, monitorVars
  <2>2. Types'
    BY <1>0, <1>1, <2>1 DEF Types, IsPoller
  <2>3. NoMove
    BY <2>1, <1>1 DEF NoMove, lockVars, Leading, Leads
  <2> QED BY <1>2, <2>2, <2>3
<1>5. ASSUME NEW p \in Processes, Lead(p) PROVE Types' /\ MoveOf(p)
  <2>1. Touches(p) /\ Holds(p)' /\ lost' = lost
    BY <1>0, <1>5, TakeTouches DEF Lead
  <2>2. IsPoller' /\ \A q \in Processes : q # p => poller'[q] = poller[q]
    BY <1>0, <1>5, PollerSteps DEF Lead
  <2> QED BY <1>0, <1>1, <1>3, <2>1, <2>2 DEF Types, MoveOf, Touches, Leads
<1>6. ASSUME NEW p \in Processes,
             \/ FindEnabled(p) \/ ReadTweets(p) \/ UpdateLastSeen(p)
             \/ Deliver(p) \/ Record(p) \/ CheckRejects(p)
      PROVE  Types' /\ NoMove
  <2>1. IsPoller' /\ UNCHANGED lockVars /\ \A q \in Processes : Leads(q)' => Leads(q)
    BY <1>0, <1>6, CycleGoesOn
  <2> QED BY <1>0, <1>1, <1>3, <2>1 DEF Types, NoMove, lockVars
<1>7. ASSUME NEW p \in Processes, Release(p) PROVE Types' /\ MoveOf(p)
  <2>1. Touches(p) /\ lost' = lost
    BY <1>0, <1>7, GiveBackTouches DEF Release
  <2>2. [Idle EXCEPT !.phase = "idle"] = Idle
    BY DEF Idle
  <2>3. IsPoller' /\ poller'[p].phase = "idle" /\ \A q \in Processes : q # p => poller'[q] = poller[q]
    BY <1>0, <1>7, <2>2, PollerLeaves DEF Release
  <2> QED BY <1>0, <1>1, <1>3, <2>1, <2>3 DEF Types, MoveOf, Touches, Leads
<1>8. ASSUME NEW p \in Processes, Crash(p) PROVE Types' /\ MoveOf(p)
  <2>1. Touches(p) /\ lost' = lost
    BY <1>0, <1>8, EndTouches DEF Crash
  <2>2. IsPoller' /\ poller'[p].phase = "down" /\ \A q \in Processes : q # p => poller'[q] = poller[q]
    BY <1>0, <1>8, PollerLeaves DEF Crash
  <2> QED BY <1>0, <1>1, <1>3, <2>1, <2>2 DEF Types, MoveOf, Touches, Leads
<1>9. ASSUME NEW p \in Processes, Restart(p) PROVE Types' /\ NoMove
  <2>1. UNCHANGED lockVars
    BY <1>9 DEF Restart
  <2>2. IsPoller' /\ poller'[p].phase = "idle" /\ \A q \in Processes : q # p => poller'[q] = poller[q]
    BY <1>0, <1>9, PollerSteps DEF Restart
  <2> QED BY <1>0, <1>1, <1>3, <2>1, <2>2 DEF Types, NoMove, Leads, lockVars
<1>10. ASSUME NEW p \in Processes, IdleSessionCloses(p) PROVE Types' /\ MoveOf(p)
  <2>1. PICK s \in Sessions : SessionCloses(p, s, Leads(p))
    BY <1>10 DEF IdleSessionCloses
  <2>2. Leads(p) \in BOOLEAN
    BY DEF Leads
  <2>3. Touches(p) /\ lost' = IF Leads(p) THEN lost + 1 ELSE lost
    BY <1>0, <2>1, <2>2, CloseTouches
  <2>4. UNCHANGED poller
    BY <1>10 DEF IdleSessionCloses, monitorVars
  <2>5. \A q \in Processes : Leads(q)' = Leads(q)
    BY <2>4 DEF Leads
  <2>6. IsPoller'
    BY <1>0, <2>4 DEF IsPoller
  <2>7. lost' = lost \/ lost' = lost + 1
    BY <2>3
  <2>8. Types'
    BY <1>0, <1>1, <2>3, <2>6, <2>7 DEF Types, Touches
  <2>9. lost' = lost => ~Leads(p)
    BY <1>0, <2>3 DEF Types
  <2> QED BY <1>0, <1>3, <2>3, <2>5, <2>8, <2>9 DEF MoveOf, Types
<1> QED BY <1>1, <1>2, <1>4, <1>5, <1>6, <1>7, <1>8, <1>9, <1>10
        DEF Next, CycleStep, FaultStep

LEMMA RunEnters ==
    ASSUME Types, NEW g \in Runs, NEW phase \in {"idle", "check", "write", "stamp", "unlock", "down"},
           Enter(g, phase)
    PROVE  /\ run' \in [Runs -> Run] /\ run'[g].phase = phase
           /\ \A h \in Runs : h # g => run'[h] = run[h]
<1>1. [NoRun EXCEPT !.phase = phase] \in Run /\ [NoRun EXCEPT !.phase = phase].phase = phase
  BY DEF NoRun, Run
<1> QED BY <1>1 DEF Enter, Types

\* A run goes on without a look at the lock.
LEMMA RunGoesOn ==
    ASSUME Types,
           \/ \E p \in Processes : ProcessConfig(p) \/ UpdateLastRun(p) \/ ProcessStarts(p)
           \/ \E g \in Runs : GenerateDrafts(g) \/ RunRejects(g)
           \/ TriggerManually
    PROVE  /\ run' \in [Runs -> Run] /\ UNCHANGED lockVars
           /\ \A q \in Processes : Schedules(q)' => Schedules(q)
<1> USE TaskConstants
<1>0. run \in [Runs -> Run] /\ Processes \subseteq Runs /\ Manual \in Runs
  BY DEF Types, Runs
<1>1. ASSUME NEW p \in Processes, ProcessConfig(p)
      PROVE  /\ run' \in [Runs -> Run] /\ UNCHANGED lockVars
             /\ \A q \in Processes : Schedules(q)' => Schedules(q)
  <2>1. run[p].phase = "check" /\ UNCHANGED lockVars
    BY <1>1 DEF ProcessConfig
  <2>2. CASE Enter(p, "unlock")
    BY <1>0, <2>1, <2>2, RunEnters DEF Schedules
  <2>3. CASE drafts < DailyTarget /\ run' = [run EXCEPT ![p] = [phase |-> "write", count |-> ToGenerate]]
    <3>1. ToGenerate \in Nat
      BY <2>3 DEF ToGenerate, Types
    <3>2. [phase |-> "write", count |-> ToGenerate] \in Run
      BY <3>1 DEF Run
    <3>3. run' \in [Runs -> Run] /\ \A h \in Runs : h # p => run'[h] = run[h]
      BY <1>0, <2>3, <3>2
    <3> QED BY <1>0, <2>1, <3>3 DEF Schedules
  <2> QED BY <1>1, <2>2, <2>3 DEF ProcessConfig
<1>2. ASSUME NEW p \in Processes, UpdateLastRun(p) \/ ProcessStarts(p)
      PROVE  /\ run' \in [Runs -> Run] /\ UNCHANGED lockVars
             /\ \A q \in Processes : Schedules(q)' => Schedules(q)
  <2>1. CASE UpdateLastRun(p)
    BY <1>0, <2>1, RunEnters DEF Schedules, UpdateLastRun
  <2>2. CASE ProcessStarts(p)
    BY <1>0, <2>2, RunEnters DEF Schedules, ProcessStarts
  <2> QED BY <1>2, <2>1, <2>2
<1>3. ASSUME NEW g \in Runs, GenerateDrafts(g) \/ RunRejects(g)
      PROVE  /\ run' \in [Runs -> Run] /\ UNCHANGED lockVars
             /\ \A q \in Processes : Schedules(q)' => Schedules(q)
  <2>1. run[g].phase \in {"check", "write", "stamp"} /\ UNCHANGED lockVars
    BY <1>3 DEF GenerateDrafts, RunRejects
  <2>2. \E phase \in {"idle", "stamp", "unlock"} : Enter(g, phase) /\ (phase = "idle" => g = Manual)
    BY <1>3 DEF GenerateDrafts, RunRejects
  <2>3. run' \in [Runs -> Run] /\ \A h \in Runs : h # g => run'[h] = run[h]
    BY <2>2, RunEnters
  <2> QED BY <1>0, <2>1, <2>3 DEF Schedules
<1>4. ASSUME TriggerManually
      PROVE  /\ run' \in [Runs -> Run] /\ UNCHANGED lockVars
             /\ \A q \in Processes : Schedules(q)' => Schedules(q)
  <2>1. [phase |-> "write", count |-> Batch] \in Run
    BY DEF Run
  <2>2. run' \in [Runs -> Run] /\ \A h \in Runs : h # Manual => run'[h] = run[h]
    BY <1>0, <1>4, <2>1 DEF TriggerManually
  <2> QED BY <1>0, <1>4, <2>2 DEF TriggerManually, Schedules
<1> QED BY <1>1, <1>2, <1>3, <1>4

LEMMA CountsKept ==
    ASSUME Types, SchedulerNext
    PROVE  drafts' \in Nat /\ counted' \in [faults : Nat, triggers : Nat, days : Nat]
<1> USE TaskConstants
<1>1. counted' \in [faults : Nat, triggers : Nat, days : Nat]
  <2>1. UNCHANGED counted \/ RunFault
          \/ counted' = [counted EXCEPT !.triggers = @ + 1]
          \/ counted' = [counted EXCEPT !.days = @ + 1]
    BY DEF SchedulerNext, TickStep, UpdateConfig, TriggerManually, IntervalElapses, Midnight,
           Tick, TickSkipped, ProcessConfig, UpdateLastRun, Unlock, ProcessEnds, ProcessStarts,
           PoolCloses, GenerateDrafts, RunRejects, schedulerVars
  <2> QED BY <2>1 DEF RunFault, Types
<1>2. drafts' \in Nat
  <2>1. UNCHANGED drafts \/ drafts' = 0 \/ \E g \in Runs : GenerateDrafts(g)
    BY DEF SchedulerNext, TickStep, UpdateConfig, TriggerManually, IntervalElapses, Midnight,
           Tick, TickSkipped, ProcessConfig, UpdateLastRun, Unlock, ProcessEnds, ProcessStarts,
           PoolCloses, RunRejects, schedulerVars
  <2>2. ASSUME NEW g \in Runs, GenerateDrafts(g) PROVE drafts' \in Nat
    <3>1. run[g].count \in Nat /\ drafts \in Nat
      BY DEF Types, Run
    <3> QED BY <2>2, <3>1 DEF GenerateDrafts
  <2> QED BY <2>1, <2>2 DEF Types
<1> QED BY <1>1, <1>2

LEMMA AgentMoves ==
    ASSUME LockInv, AgentStep(SchedulerNext)
    PROVE  Types' /\ OneTask' /\ (NoMove \/ \E p \in Processes : MoveOf(p))
<1> USE TaskConstants
<1>0. Types /\ OneTask /\ OneHolder /\ IsPoller /\ Processes \subseteq Runs
  BY DEF LockInv, Types, Runs
<1>1. /\ SchedulerNext /\ task = "agent" /\ UNCHANGED <<task, poller>>
      /\ \A p \in Processes : ~Leads(p) /\ ~Leads(p)'
  BY <1>0 DEF AgentStep, monitorVars, OneTask, Leads
<1>2. OneTask'
  BY <1>1 DEF OneTask
<1>3. \A p \in Processes : (Leading(p) <=> Schedules(p)) /\ (Leading(p)' <=> Schedules(p)')
  BY <1>1 DEF Leading
<1>4. /\ IsPoller' /\ drafts' \in Nat
      /\ counted' \in [faults : Nat, triggers : Nat, days : Nat]
  BY <1>0, <1>1, CountsKept DEF IsPoller
<1>5. CASE \/ UpdateConfig \/ IntervalElapses \/ Midnight
           \/ \E p \in Processes : TickSkipped(p)
  <2>1. UNCHANGED <<held, lost, run>>
    BY <1>5 DEF UpdateConfig, IntervalElapses, Midnight, TickSkipped, LockRefused, lockVars, schedulerVars
  <2> QED BY <1>0, <1>1, <1>2, <1>3, <1>4, <2>1 DEF Types, NoMove, lockVars, Schedules
<1>6. CASE \/ \E p \in Processes : ProcessConfig(p) \/ UpdateLastRun(p) \/ ProcessStarts(p)
           \/ \E g \in Runs : GenerateDrafts(g) \/ RunRejects(g)
           \/ TriggerManually
  <2>1. /\ run' \in [Runs -> Run] /\ UNCHANGED lockVars
        /\ \A q \in Processes : Schedules(q)' => Schedules(q)
    BY <1>0, <1>6, RunGoesOn
  <2> QED BY <1>0, <1>2, <1>3, <1>4, <2>1 DEF Types, NoMove, lockVars
<1>7. ASSUME NEW p \in Processes, Tick(p) PROVE Types' /\ MoveOf(p)
  <2>1. Touches(p) /\ Holds(p)' /\ lost' = lost
    BY <1>0, <1>7, TakeTouches DEF Tick
  <2>2. run' \in [Runs -> Run] /\ \A h \in Runs : h # p => run'[h] = run[h]
    BY <1>0, <1>7, RunEnters DEF Tick
  <2> QED BY <1>0, <1>3, <1>4, <2>1, <2>2 DEF Types, MoveOf, Touches, Schedules
<1>8. ASSUME NEW p \in Processes, Unlock(p) PROVE Types' /\ MoveOf(p)
  <2>1. Touches(p) /\ lost' = lost
    BY <1>0, <1>8, GiveBackTouches DEF Unlock
  <2>2. /\ run' \in [Runs -> Run] /\ run'[p].phase = "idle"
        /\ \A h \in Runs : h # p => run'[h] = run[h]
    BY <1>0, <1>8, RunEnters DEF Unlock
  <2> QED BY <1>0, <1>3, <1>4, <2>1, <2>2 DEF Types, MoveOf, Touches, Schedules
<1>9. ASSUME NEW p \in Processes, ProcessEnds(p) PROVE Types' /\ MoveOf(p)
  <2>1. Touches(p) /\ lost' = lost
    BY <1>0, <1>9, EndTouches DEF ProcessEnds
  <2>2. /\ run' \in [Runs -> Run] /\ run'[p].phase = "down"
        /\ \A h \in Runs : h # p => run'[h] = run[h]
    BY <1>0, <1>9, RunEnters DEF ProcessEnds
  <2> QED BY <1>0, <1>3, <1>4, <2>1, <2>2 DEF Types, MoveOf, Touches, Schedules
<1>10. ASSUME NEW p \in Processes, PoolCloses(p) PROVE Types' /\ MoveOf(p)
  <2>1. PICK s \in Sessions : SessionCloses(p, s, Schedules(p))
    BY <1>10 DEF PoolCloses
  <2>2. Schedules(p) \in BOOLEAN
    BY DEF Schedules
  <2>3. Touches(p) /\ lost' = IF Schedules(p) THEN lost + 1 ELSE lost
    BY <1>0, <2>1, <2>2, CloseTouches
  <2>4. UNCHANGED run
    BY <1>10 DEF PoolCloses, schedulerVars
  <2>5. \A q \in Processes : Schedules(q)' = Schedules(q)
    BY <2>4 DEF Schedules
  <2>6. lost' = lost \/ lost' = lost + 1
    BY <2>3
  <2>7. Types'
    BY <1>0, <1>4, <2>3, <2>4, <2>6 DEF Types, Touches
  <2>8. lost' = lost => ~Schedules(p)
    BY <1>0, <2>3 DEF Types
  <2> QED BY <1>0, <1>3, <2>3, <2>5, <2>7, <2>8 DEF MoveOf, Types
<1> QED BY <1>1, <1>2, <1>5, <1>6, <1>7, <1>8, <1>9, <1>10 DEF SchedulerNext, TickStep

-----------------------------------------------------------------------------
(* Leaders without the lock are as many as were counted, at most.          *)

LEMMA CountedSet ==
    ASSUME NEW S \in SUBSET Processes, NEW T \in SUBSET Processes, NEW p \in Processes,
           T \subseteq S \cup {p}
    PROVE  /\ Cardinality(S) \in Nat /\ Cardinality(T) \in Nat
           /\ Cardinality(T) <= Cardinality(S) + 1
           /\ T \subseteq S => Cardinality(T) <= Cardinality(S)
<1>1. IsFiniteSet(S) /\ IsFiniteSet(S \cup {p}) /\ IsFiniteSet(T)
  BY TaskConstants, FS_Subset
<1>2. /\ Cardinality(S) \in Nat /\ Cardinality(T) \in Nat /\ Cardinality(S \cup {p}) \in Nat
  BY <1>1, FS_CardinalityType
<1>3. Cardinality(S \cup {p}) = Cardinality(S) \/ Cardinality(S \cup {p}) = Cardinality(S) + 1
  BY <1>1, FS_AddElement
<1>4. Cardinality(T) <= Cardinality(S \cup {p})
  BY <1>1, FS_Subset
<1>5. T \subseteq S => Cardinality(T) <= Cardinality(S)
  BY <1>1, FS_Subset
<1> QED BY <1>2, <1>3, <1>4, <1>5

LEMMA LossesKept ==
    ASSUME LockInv, NoMove \/ \E p \in Processes : MoveOf(p)
    PROVE  OneHolder' /\ LossesAreCounted'
<1>0. Types /\ OneHolder /\ LossesAreCounted /\ lost \in Nat
  BY DEF LockInv, Types
<1>1. CASE NoMove
  <2>1. OneHolder'
    BY <1>0, <1>1 DEF NoMove, lockVars, OneHolder
  <2>2. Lockless' \subseteq Lockless /\ lost' = lost
    BY <1>1 DEF NoMove, lockVars, Lockless, Holds
  <2>3. CASE Processes = {}
    <3>1. Lockless' = {}
      BY <2>3 DEF Lockless
    <3> QED BY <1>0, <2>1, <2>2, <3>1, FS_EmptySet DEF LossesAreCounted
  <2>4. CASE Processes # {}
    <3>1. PICK p \in Processes : TRUE
      BY <2>4
    <3>2. Lockless \subseteq Processes /\ Lockless' \subseteq Processes
      BY DEF Lockless
    <3>3. /\ Cardinality(Lockless) \in Nat /\ Cardinality(Lockless') \in Nat
          /\ Cardinality(Lockless') <= Cardinality(Lockless)
      BY <2>2, <3>2, CountedSet
    <3> QED BY <1>0, <2>1, <2>2, <3>3 DEF LossesAreCounted
  <2> QED BY <2>3, <2>4
<1>2. ASSUME NEW p \in Processes, MoveOf(p) PROVE OneHolder' /\ LossesAreCounted'
  <2>1. OneHolder' /\ \A q \in Processes : q # p => (Holds(q)' <=> Holds(q))
    BY <1>2 DEF MoveOf, Touches, Holds
  <2>2. \A q \in Processes : q # p /\ Leading(q)' => Leading(q)
    BY <1>2 DEF MoveOf
  <2>3. Lockless' \subseteq Lockless \cup {p} /\ Lockless \subseteq Processes /\ Lockless' \subseteq Processes
    BY <2>1, <2>2 DEF Lockless
  <2>4. /\ Cardinality(Lockless) \in Nat /\ Cardinality(Lockless') \in Nat
        /\ Cardinality(Lockless') <= Cardinality(Lockless) + 1
        /\ Lockless' \subseteq Lockless => Cardinality(Lockless') <= Cardinality(Lockless)
    BY <2>3, CountedSet
  <2>5. CASE lost' = lost + 1
    BY <1>0, <2>1, <2>4, <2>5 DEF LossesAreCounted
  <2>6. CASE lost' = lost /\ (Leading(p)' => Holds(p)' \/ p \in Lockless)
    <3>1. Lockless' \subseteq Lockless
      BY <2>3, <2>6 DEF Lockless
    <3> QED BY <1>0, <2>1, <2>4, <2>6, <3>1 DEF LossesAreCounted
  <2> QED BY <1>2, <2>5, <2>6 DEF MoveOf
<1> QED BY <1>1, <1>2

LEMMA LockInvKept == LockInv /\ [TasksNext]_taskVars => LockInv'
<1> SUFFICES ASSUME LockInv, [TasksNext]_taskVars PROVE LockInv'
  OBVIOUS
<1>1. CASE UNCHANGED taskVars
  <2>1. UNCHANGED <<task, held, lost, poller, run, drafts, counted>>
    BY <1>1 DEF taskVars, lockVars, monitorVars, schedulerVars
  <2>2. NoMove /\ Types' /\ OneTask'
    BY <2>1 DEF LockInv, Types, IsPoller, OneTask, NoMove, lockVars, Leading, Leads, Schedules
  <2> QED BY <2>2, LossesKept DEF LockInv
<1>2. CASE MonitorStep(Next)
  BY <1>2, MonitorMoves, LossesKept DEF LockInv
<1>3. CASE AgentStep(SchedulerNext)
  BY <1>3, AgentMoves, LossesKept DEF LockInv
<1> QED BY <1>1, <1>2, <1>3 DEF TasksNext

\* tryAcquireLeaderLock and releaseLeaderLock of both tasks: the lock is one session's, and
\* a process that leads without it is accounted for by a session closed under a leader.
THEOREM LockInvariant == TasksSpec => []LockInv
<1>1. TasksInit => LockInv
  BY InitiallyLocked
<1>2. LockInv /\ [TasksNext]_taskVars => LockInv'
  BY LockInvKept
<1> QED BY <1>1, <1>2, PTL DEF TasksSpec

\* Two processes lead together only if a lock was lost with its session.
THEOREM OneLeader == TasksSpec => []OneLeaderPerTask
<1>1. LockInv => OneLeaderPerTask
  <2> SUFFICES ASSUME LockInv, lost = 0, NEW p \in Processes, NEW q \in Processes,
                      Leading(p), Leading(q)
               PROVE  p = q
    BY DEF OneLeaderPerTask, Leading
  <2>1. Cardinality(Lockless) <= 0 /\ IsFiniteSet(Lockless) /\ Cardinality(Lockless) \in Nat
    <3>1. IsFiniteSet(Lockless)
      BY TaskConstants, FS_Subset DEF Lockless
    <3> QED BY <3>1, FS_CardinalityType DEF LockInv, LossesAreCounted
  <2>2. Lockless = {}
    BY <2>1, FS_EmptySet
  <2>3. Holds(p) /\ Holds(q)
    BY <2>2 DEF Lockless
  <2> QED BY <2>3 DEF LockInv, OneHolder, Holds
<1> QED BY <1>1, LockInvariant, PTL

-----------------------------------------------------------------------------
(* The daily target.                                                       *)

Writes(g) == run[g].phase = "write"

\* A manual trigger, or a lost lock, whose batch is still to be written.
OpenTriggers == IF Writes(Manual) THEN 1 ELSE 0
Unspent == {p \in Processes : run[p].phase \in {"check", "write"} /\ ~Holds(p)}

\* The batches that may have been written beyond the target.
Spent == counted.triggers - OpenTriggers + lost - Cardinality(Unspent)
Limited == DailyTarget + Batch * Spent

TargetInv ==
    /\ OpenTriggers <= counted.triggers
    /\ \A g \in Runs : Writes(g) => run[g].count <= Batch
    /\ drafts <= Limited
    /\ \A p \in Processes : Writes(p) /\ Holds(p) => drafts + run[p].count <= Limited

LEMMA Batches ==
    /\ \A m, n \in Nat : m <= n => Batch * m <= Batch * n
    /\ \A m \in Nat : Batch * m \in Nat /\ Batch * (m + 1) = Batch * m + Batch
<1>1. Batch \in Nat
  BY TaskConstants
<1>2. ASSUME NEW m \in Nat, NEW n \in Nat, m <= n PROVE Batch * m <= Batch * n
  <2>1. PICK d \in Nat : n = m + d
    BY <1>2, n - m \in Nat
  <2>2. Batch * n = Batch * m + Batch * d
    BY <1>1, <2>1
  <2>3. Batch * d \in Nat /\ Batch * m \in Nat
    BY <1>1
  <2> QED BY <2>2, <2>3
<1>3. \A m \in Nat : Batch * m \in Nat /\ Batch * (m + 1) = Batch * m + Batch
  BY <1>1
<1> QED BY <1>2, <1>3

LEMMA SpentIsNatural ==
    ASSUME LockInv, OpenTriggers <= counted.triggers
    PROVE  Spent \in Nat /\ Limited \in Nat /\ Cardinality(Unspent) \in Nat
             /\ Cardinality(Unspent) <= lost
<1>1. Unspent \subseteq Lockless /\ Lockless \subseteq Processes
  BY DEF Unspent, Lockless, Leading, Schedules
<1>2. IsFiniteSet(Lockless) /\ IsFiniteSet(Unspent)
  BY <1>1, TaskConstants, FS_Subset
<1>3. Cardinality(Unspent) <= Cardinality(Lockless) /\ Cardinality(Unspent) \in Nat
        /\ Cardinality(Lockless) \in Nat
  BY <1>1, <1>2, FS_Subset, FS_CardinalityType
<1>4. lost \in Nat /\ counted.triggers \in Nat /\ Cardinality(Lockless) <= lost
  BY DEF LockInv, Types, LossesAreCounted
<1>5. Spent \in Nat
  BY <1>3, <1>4 DEF Spent, OpenTriggers
<1> QED BY <1>3, <1>4, <1>5, Batches, TaskConstants DEF Limited

SpentFacts ==
    LockInv /\ OpenTriggers <= counted.triggers
      => Spent \in Nat /\ Limited \in Nat /\ Cardinality(Unspent) \in Nat

LEMMA SpentThroughout == SpentFacts /\ SpentFacts'
<1>1. SpentFacts
  BY SpentIsNatural DEF SpentFacts
<1> QED BY <1>1, PTL

\* Nothing is written, nobody begins to write, and no batch is taken back.
LEMMA Steady ==
    ASSUME LockInv, LockInv', TargetInv, Spent <= Spent', drafts' <= drafts,
           OpenTriggers' <= counted'.triggers,
           \A g \in Runs : Writes(g)' => run'[g].count <= Batch,
           \A p \in Processes : Writes(p)' /\ Holds(p)'
                                  => Writes(p) /\ Holds(p) /\ run'[p].count = run[p].count
    PROVE  TargetInv'
<1>1. Spent \in Nat /\ Limited \in Nat /\ Spent' \in Nat /\ Limited' \in Nat
  <2>1. Spent \in Nat /\ Limited \in Nat
    BY SpentIsNatural DEF TargetInv
  <2>2. Spent' \in Nat /\ Limited' \in Nat
    BY SpentThroughout DEF SpentFacts
  <2> QED BY <2>1, <2>2
<1>2. Limited <= Limited'
  <2>1. Batch * Spent <= Batch * Spent' /\ Batch * Spent \in Nat /\ Batch * Spent' \in Nat
    BY <1>1, Batches
  <2> QED BY <2>1, TaskConstants DEF Limited
<1>3. drafts \in Nat /\ drafts' \in Nat
  BY DEF LockInv, Types
<1>4. \A p \in Processes : run[p].count \in Nat
  BY DEF LockInv, Types, Runs, Run
<1>5. drafts' <= Limited'
  BY <1>1, <1>2, <1>3 DEF TargetInv
<1>6. ASSUME NEW p \in Processes, Writes(p)', Holds(p)'
      PROVE  drafts' + run'[p].count <= Limited'
  BY <1>1, <1>2, <1>3, <1>4, <1>6 DEF TargetInv
<1> QED BY <1>5, <1>6 DEF TargetInv

\* Only process p moves: it may come to have a batch to write without the lock only when a
\* lock was lost.
LEMMA SpentGrows ==
    ASSUME LockInv, TargetInv, lost' \in Nat, NEW p \in Processes,
           \A q \in Processes : q # p => run'[q] = run[q] /\ (Holds(q)' <=> Holds(q)),
           run'[Manual] = run[Manual], counted'.triggers = counted.triggers,
           \/ lost' = lost /\ (p \in Unspent' => p \in Unspent)
           \/ lost' = lost + 1
    PROVE  Spent <= Spent' /\ OpenTriggers' = OpenTriggers
<1>1. OpenTriggers' = OpenTriggers /\ OpenTriggers \in {0, 1}
  BY DEF OpenTriggers, Writes
<1>2. Unspent' \subseteq Unspent \cup {p} /\ Unspent \subseteq Processes /\ Unspent' \subseteq Processes
  BY DEF Unspent
<1>3. /\ Cardinality(Unspent) \in Nat /\ Cardinality(Unspent') \in Nat
      /\ Cardinality(Unspent') <= Cardinality(Unspent) + 1
      /\ Unspent' \subseteq Unspent => Cardinality(Unspent') <= Cardinality(Unspent)
  BY <1>2, CountedSet
<1>4. counted.triggers \in Nat /\ lost \in Nat
  BY DEF LockInv, Types
<1>5. CASE lost' = lost + 1
  BY <1>1, <1>3, <1>4, <1>5 DEF Spent
<1>6. CASE lost' = lost /\ (p \in Unspent' => p \in Unspent)
  <2>1. Cardinality(Unspent') <= Cardinality(Unspent)
    BY <1>2, <1>3, <1>6
  <2> QED BY <1>1, <1>3, <1>4, <1>6, <2>1 DEF Spent
<1> QED BY <1>5, <1>6

\* The runs and the lock stay as they are, but for what lost counts.
LEMMA SpentStays ==
    ASSUME LockInv, TargetInv, lost' \in Nat, lost <= lost', UNCHANGED run, counted'.triggers = counted.triggers,
           Unspent' \subseteq Unspent
    PROVE  Spent <= Spent' /\ OpenTriggers' = OpenTriggers
<1>1. OpenTriggers' = OpenTriggers /\ OpenTriggers \in {0, 1}
  BY DEF OpenTriggers, Writes
<1>2. IsFiniteSet(Unspent)
  BY TaskConstants, FS_Subset DEF Unspent
<1>3. Cardinality(Unspent') <= Cardinality(Unspent) /\ Cardinality(Unspent) \in Nat
        /\ Cardinality(Unspent') \in Nat
  BY <1>2, FS_Subset, FS_CardinalityType
<1>4. counted.triggers \in Nat /\ lost \in Nat
  BY DEF LockInv, Types
<1> QED BY <1>1, <1>3, <1>4 DEF Spent

LEMMA InitiallyOnTarget == TasksInit => TargetInv
<1> SUFFICES ASSUME TasksInit PROVE TargetInv
  OBVIOUS
<1> USE TaskConstants
<1>1. \A g \in Runs : ~Writes(g)
  BY DEF TasksInit, SchedulerInit, NoRun, Writes
<1>2. OpenTriggers = 0 /\ drafts = 0 /\ lost = 0 /\ counted.triggers = 0
  BY <1>1 DEF TasksInit, SchedulerInit, LockInit, OpenTriggers, Runs
<1>3. LockInv
  BY InitiallyLocked
<1>4. Limited \in Nat
  BY <1>2, <1>3, SpentIsNatural
<1> QED BY <1>1, <1>2, <1>4 DEF TargetInv, Runs

LEMMA TargetKept ==
    LockInv /\ LockInv' /\ TargetInv /\ [TasksNext]_taskVars => TargetInv'
<1> SUFFICES ASSUME LockInv, LockInv', TargetInv, [TasksNext]_taskVars PROVE TargetInv'
  OBVIOUS
<1> USE TaskConstants
<1>0. /\ Types /\ Types' /\ OneHolder /\ Processes \subseteq Runs /\ Manual \in Runs
      /\ run \in [Runs -> Run] /\ drafts \in Nat /\ drafts' \in Nat /\ lost \in Nat /\ lost' \in Nat
      /\ counted \in [faults : Nat, triggers : Nat, days : Nat]
  BY DEF LockInv, Types, Runs
<1>1. CASE UNCHANGED taskVars
  <2>1. UNCHANGED <<held, lost, run, drafts, counted>>
    BY <1>1 DEF taskVars, lockVars, schedulerVars
  <2>2. Spent <= Spent' /\ OpenTriggers' = OpenTriggers
    BY <1>0, <2>1, SpentStays DEF Unspent, Holds
  <2> QED BY <1>0, <2>1, <2>2, Steady DEF TargetInv, Writes, Holds
<1>2. CASE MonitorStep(Next)
  <2>1. UNCHANGED <<run, drafts, counted>> /\ task = "monitor"
    BY <1>2 DEF MonitorStep, schedulerVars
  <2>2. \A p \in Processes : run[p].phase \in {"idle", "down"}
    BY <2>1 DEF LockInv, OneTask, Schedules
  <2>3. Unspent' = {}
    BY <2>1, <2>2 DEF Unspent
  <2>4. lost' = lost \/ lost' = lost + 1
    BY <1>2, MonitorMoves DEF NoMove, MoveOf, lockVars
  <2>5. Spent <= Spent' /\ OpenTriggers' = OpenTriggers
    BY <1>0, <2>1, <2>3, <2>4, SpentStays
  <2> QED BY <1>0, <2>1, <2>2, <2>5, Steady DEF TargetInv, Writes
<1>3. CASE UpdateConfig \/ IntervalElapses \/ Midnight \/ \E p \in Processes : TickSkipped(p)
  <2>1. UNCHANGED <<held, lost, run>> /\ counted'.triggers = counted.triggers /\ drafts' <= drafts
    BY <1>0, <1>3 DEF UpdateConfig, IntervalElapses, Midnight, TickSkipped, LockRefused, lockVars, schedulerVars
  <2>2. Spent <= Spent' /\ OpenTriggers' = OpenTriggers
    BY <1>0, <2>1, SpentStays DEF Unspent, Holds
  <2> QED BY <1>0, <2>1, <2>2, Steady DEF TargetInv, Writes, Holds
<1>4. ASSUME NEW p \in Processes, UNCHANGED drafts, counted'.triggers = counted.triggers,
             \A h \in Runs : h # p => run'[h] = run[h],
             \A q \in Processes : q # p => held'[q] = held[q],
             \/ lost' = lost /\ (p \in Unspent' => p \in Unspent)
             \/ lost' = lost + 1,
             Writes(p)' => run'[p] = run[p] /\ (Holds(p)' => Holds(p))
      PROVE  TargetInv'
  <2>1. p # Manual /\ \A q \in Processes : q # p => run'[q] = run[q] /\ (Holds(q)' <=> Holds(q))
    BY <1>0, <1>4 DEF Holds
  <2>2. Spent <= Spent' /\ OpenTriggers' = OpenTriggers
    BY <1>0, <1>4, <2>1, SpentGrows
  <2>3. \A g \in Runs : Writes(g)' => Writes(g) /\ run'[g] = run[g]
    BY <1>4 DEF Writes
  <2>4. \A g \in Runs : Writes(g)' => run'[g].count <= Batch
    BY <2>3 DEF TargetInv
  <2>5. \A q \in Processes : Writes(q)' /\ Holds(q)'
                             => Writes(q) /\ Holds(q) /\ run'[q].count = run[q].count
    BY <1>0, <1>4, <2>1, <2>3
  <2>6. OpenTriggers' <= counted'.triggers /\ drafts' <= drafts
    BY <1>0, <1>4, <2>2 DEF TargetInv
  <2> QED BY <2>2, <2>4, <2>5, <2>6, Steady
<1>5. ASSUME NEW p \in Processes, Tick(p) \/ Unlock(p) \/ ProcessEnds(p) PROVE TargetInv'
  <2>1. Touches(p) /\ lost' = lost /\ (Tick(p) => Holds(p)')
    BY <1>0, <1>5, TakeTouches, GiveBackTouches, EndTouches DEF Tick, Unlock, ProcessEnds
  <2>2. \E phase \in {"idle", "check", "unlock", "down"} :
            Enter(p, phase) /\ (phase = "check" => Tick(p))
    BY <1>5 DEF Tick, Unlock, ProcessEnds
  <2>3. /\ run'[p].phase \in {"idle", "check", "unlock", "down"}
        /\ run'[p].phase = "check" => Tick(p)
        /\ \A h \in Runs : h # p => run'[h] = run[h]
    BY <1>0, <2>2, RunEnters
  <2>4. UNCHANGED drafts /\ counted'.triggers = counted.triggers
    BY <1>0, <1>5 DEF Tick, Unlock, ProcessEnds, RunFault
  <2>5. ~Writes(p)' /\ p \notin Unspent'
    BY <2>1, <2>3 DEF Unspent, Writes
  <2> QED BY <1>4, <2>1, <2>3, <2>4, <2>5 DEF Touches
<1>6. ASSUME NEW p \in Processes, UpdateLastRun(p) \/ ProcessStarts(p) PROVE TargetInv'
  <2>1. \E phase \in {"idle", "unlock"} : Enter(p, phase)
    BY <1>6 DEF UpdateLastRun, ProcessStarts
  <2>2. /\ run'[p].phase \in {"idle", "unlock"}
        /\ \A h \in Runs : h # p => run'[h] = run[h]
    BY <1>0, <2>1, RunEnters
  <2>3. UNCHANGED <<held, lost, drafts>> /\ counted'.triggers = counted.triggers
    BY <1>6 DEF UpdateLastRun, ProcessStarts, lockVars
  <2>4. ~Writes(p)' /\ p \notin Unspent'
    BY <2>2 DEF Unspent, Writes
  <2> QED BY <1>4, <2>2, <2>3, <2>4
<1>7. ASSUME NEW p \in Processes, PoolCloses(p) PROVE TargetInv'
  <2>1. PICK s \in Sessions : SessionCloses(p, s, Schedules(p))
    BY <1>7 DEF PoolCloses
  <2>2. Schedules(p) \in BOOLEAN
    BY DEF Schedules
  <2>3. Touches(p) /\ lost' = IF Schedules(p) THEN lost + 1 ELSE lost
    BY <1>0, <2>1, <2>2, CloseTouches
  <2>4. UNCHANGED <<run, drafts, counted>>
    BY <1>7 DEF PoolCloses, schedulerVars
  <2>5. Schedules(p) \/ p \notin Unspent'
    BY <2>4 DEF Schedules, Unspent
  <2>6. Holds(p)' => Holds(p)
    <3>1. held' = [held EXCEPT ![p][s] = 0] /\ held \in [Processes -> [Sessions -> 0 .. MaxDepth]]
      BY <1>0, <2>1 DEF SessionCloses, Types
    <3>2. \A r \in Sessions : held'[p][r] > 0 => held[p][r] > 0
      BY <3>1
    <3> QED BY <3>2 DEF Holds
  <2> QED BY <1>0, <1>4, <2>3, <2>4, <2>5, <2>6 DEF Touches
<1>8. ASSUME NEW p \in Processes, ProcessConfig(p) PROVE TargetInv'
  <2>1. run[p].phase = "check" /\ UNCHANGED <<held, lost, drafts, counted>>
    BY <1>8 DEF ProcessConfig, lockVars
  <2>2. CASE Enter(p, "unlock")
    <3>1. run'[p].phase = "unlock" /\ \A h \in Runs : h # p => run'[h] = run[h]
      BY <1>0, <2>2, RunEnters
    <3>2. ~Writes(p)' /\ p \notin Unspent'
      BY <3>1 DEF Unspent, Writes
    <3> QED BY <1>4, <2>1, <3>1, <3>2
  <2>3. CASE drafts < DailyTarget /\ run' = [run EXCEPT ![p] = [phase |-> "write", count |-> ToGenerate]]
    <3>1. ToGenerate \in Nat /\ ToGenerate <= Batch /\ drafts + ToGenerate <= DailyTarget
      BY <1>0, <2>3 DEF ToGenerate
    <3>2. /\ run'[p].phase = "write" /\ run'[p].count = ToGenerate
          /\ \A h \in Runs : h # p => run'[h] = run[h]
      BY <1>0, <2>3
    <3>3. /\ \A q \in Processes : Holds(q)' <=> Holds(q)
          /\ p # Manual
          /\ Unspent' = Unspent
      BY <1>0, <2>1, <3>2 DEF Holds, Unspent
    <3>4. Spent' = Spent /\ OpenTriggers' = OpenTriggers
      BY <1>0, <2>1, <3>2, <3>3 DEF Spent, OpenTriggers, Writes
    <3>5. Limited' = Limited
      BY <3>4 DEF Limited
    <3>6. Spent \in Nat /\ Limited \in Nat /\ DailyTarget <= Limited
      <4>1. Spent \in Nat /\ Limited \in Nat
        BY SpentIsNatural DEF TargetInv
      <4>2. Batch * Spent \in Nat
        BY <4>1, Batches
      <4> QED BY <4>1, <4>2 DEF Limited
    <3>7. drafts + ToGenerate <= Limited
      BY <1>0, <3>1, <3>6
    <3>8. \A g \in Runs : Writes(g)' => run'[g].count <= Batch
      BY <3>1, <3>2 DEF TargetInv, Writes
    <3>9. \A q \in Processes : Writes(q)' /\ Holds(q)' => drafts' + run'[q].count <= Limited'
      BY <1>0, <2>1, <3>2, <3>3, <3>5, <3>7 DEF TargetInv, Writes
    <3> QED BY <2>1, <3>4, <3>5, <3>8, <3>9 DEF TargetInv
  <2> QED BY <1>8, <2>2, <2>3 DEF ProcessConfig
<1>9. ASSUME NEW p \in Processes, RunRejects(p) PROVE TargetInv'
  <2>1. Enter(p, "unlock") /\ UNCHANGED <<held, lost, drafts>> /\ RunFault
    BY <1>9 DEF RunRejects, lockVars
  <2>2. run'[p].phase = "unlock" /\ \A h \in Runs : h # p => run'[h] = run[h]
    BY <1>0, <2>1, RunEnters
  <2>3. counted'.triggers = counted.triggers
    BY <1>0, <2>1 DEF RunFault
  <2>4. ~Writes(p)' /\ p \notin Unspent'
    BY <2>2 DEF Unspent, Writes
  <2> QED BY <1>4, <2>1, <2>2, <2>3, <2>4
<1>10. CASE TriggerManually \/ RunRejects(Manual)
  <2>1. /\ UNCHANGED <<held, lost, drafts>>
        /\ \A h \in Runs : h # Manual => run'[h] = run[h]
        /\ run'[Manual].phase = "write" => run'[Manual].count = Batch
        /\ OpenTriggers' <= counted'.triggers
        /\ counted'.triggers - OpenTriggers' >= counted.triggers - OpenTriggers
        /\ counted'.triggers \in Nat
    <3>1. CASE TriggerManually
      <4>1. /\ run'[Manual].phase = "write" /\ run'[Manual].count = Batch /\ ~Writes(Manual)
            /\ \A h \in Runs : h # Manual => run'[h] = run[h]
            /\ counted'.triggers = counted.triggers + 1
        BY <1>0, <3>1 DEF TriggerManually, Writes
      <4>2. OpenTriggers = 0 /\ OpenTriggers' = 1
        BY <4>1 DEF OpenTriggers, Writes
      <4> QED BY <1>0, <3>1, <4>1, <4>2 DEF TriggerManually, lockVars
    <3>2. CASE RunRejects(Manual)
      <4>1. Enter(Manual, "idle") /\ UNCHANGED <<held, lost, drafts>> /\ RunFault
        BY <3>2 DEF RunRejects, lockVars
      <4>2. run'[Manual].phase = "idle" /\ \A h \in Runs : h # Manual => run'[h] = run[h]
        BY <1>0, <4>1, RunEnters
      <4>3. counted'.triggers = counted.triggers
        BY <1>0, <4>1 DEF RunFault
      <4>4. OpenTriggers' = 0 /\ OpenTriggers \in {0, 1}
        BY <4>2 DEF OpenTriggers, Writes
      <4> QED BY <1>0, <4>1, <4>2, <4>3, <4>4
    <3> QED BY <1>10, <3>1, <3>2
  <2>2. \A q \in Processes : run'[q] = run[q] /\ (Holds(q)' <=> Holds(q))
    BY <1>0, <2>1 DEF Holds
  <2>3. Unspent' = Unspent
    BY <2>2 DEF Unspent
  <2>4. Spent <= Spent'
    <3>1. Cardinality(Unspent) \in Nat
      BY SpentIsNatural DEF TargetInv
    <3>2. OpenTriggers \in {0, 1} /\ OpenTriggers' \in {0, 1}
      BY DEF OpenTriggers
    <3>3. counted.triggers \in Nat /\ counted'.triggers \in Nat /\ lost' = lost /\ lost \in Nat
      BY <1>0, <2>1
    <3> HIDE DEF OpenTriggers
    <3> QED BY <2>1, <2>3, <3>1, <3>2, <3>3 DEF Spent
  <2>5. \A g \in Runs : Writes(g)' => run'[g].count <= Batch
    BY <2>1 DEF TargetInv, Writes
  <2>6. \A q \in Processes : Writes(q)' /\ Holds(q)'
                             => Writes(q) /\ Holds(q) /\ run'[q].count = run[q].count
    BY <2>2 DEF Writes
  <2> QED BY <1>0, <2>1, <2>4, <2>5, <2>6, Steady
<1>11. ASSUME NEW g \in Runs, GenerateDrafts(g) PROVE TargetInv'
  <2> DEFINE phase == IF g = Manual THEN "idle" ELSE "stamp"
  <2>1. /\ Writes(g) /\ Enter(g, phase) /\ UNCHANGED <<held, lost, counted>>
    BY <1>11 DEF GenerateDrafts, Writes, lockVars
  <2>2. PICK n \in 0 .. run[g].count : drafts' = drafts + n
    BY <1>11 DEF GenerateDrafts
  <2>3. run'[g].phase = phase /\ \A h \in Runs : h # g => run'[h] = run[h]
    BY <1>0, <2>1, RunEnters
  <2>4. run[g].count \in Nat /\ run[g].count <= Batch /\ n \in Nat /\ n <= Batch
    BY <1>0, <2>1, <2>2 DEF TargetInv, Run
  <2>5. ~Writes(g)' /\ \A h \in Runs : h # g => (Writes(h)' <=> Writes(h))
    BY <2>3 DEF Writes
  <2>6. \A q \in Processes : Holds(q)' <=> Holds(q)
    BY <2>1 DEF Holds
  <2>7. Spent \in Nat /\ Limited \in Nat /\ Cardinality(Unspent) \in Nat /\ Cardinality(Unspent) <= lost
    BY SpentIsNatural DEF TargetInv
  <2>8. OpenTriggers' <= OpenTriggers /\ OpenTriggers \in {0, 1} /\ OpenTriggers' \in {0, 1}
    BY <1>0, <2>5 DEF OpenTriggers
  <2>9. OpenTriggers' <= counted'.triggers
    BY <1>0, <2>1, <2>8 DEF TargetInv
  <2>10. Spent' \in Nat /\ Limited' \in Nat /\ Cardinality(Unspent') \in Nat
    BY <2>9, SpentThroughout DEF SpentFacts
  <2>11. \A h \in Runs : Writes(h)' => run'[h].count <= Batch
    BY <2>3, <2>5 DEF TargetInv
  <2>12. \A q \in Processes : q # g => (q \in Unspent' <=> q \in Unspent)
    BY <1>0, <2>3, <2>6 DEF Unspent
  <2>13. g \notin Unspent' /\ (g \in Processes => (g \in Unspent <=> ~Holds(g)))
    BY <1>0, <2>1, <2>3 DEF Unspent, Writes
  <2>14. CASE g \in Processes /\ Holds(g)
    <3>1. Unspent' = Unspent /\ OpenTriggers' = OpenTriggers
      BY <1>0, <2>3, <2>5, <2>12, <2>13, <2>14 DEF Unspent, OpenTriggers
    <3>2. Limited' = Limited
      BY <2>1, <3>1 DEF Limited, Spent
    <3>3. drafts' <= Limited'
      BY <1>0, <2>1, <2>2, <2>4, <2>7, <2>14, <3>2 DEF TargetInv
    <3>4. \A q \in Processes : Writes(q)' /\ Holds(q)' => FALSE
      BY <1>0, <2>5, <2>6, <2>14 DEF OneHolder, Holds
    <3> QED BY <2>9, <2>11, <3>3, <3>4 DEF TargetInv
  <2>15. CASE ~(g \in Processes /\ Holds(g))
    <3>1. Spent + 1 <= Spent'
      <4>1. CASE g = Manual
        <5>1. OpenTriggers = 1 /\ OpenTriggers' = 0
          BY <2>1, <2>5, <4>1 DEF OpenTriggers
        <5>2. Unspent' = Unspent
          BY <1>0, <2>12, <4>1 DEF Unspent
        <5> HIDE DEF OpenTriggers
        <5> QED BY <1>0, <2>1, <2>7, <5>1, <5>2 DEF Spent
      <4>2. CASE g # Manual
        <5>1. g \in Unspent /\ g \in Processes
          BY <2>13, <2>15, <4>2 DEF Runs
        <5>2. Unspent' = Unspent \ {g}
          BY <2>12, <2>13 DEF Unspent
        <5>3. IsFiniteSet(Unspent)
          BY TaskConstants, FS_Subset DEF Unspent
        <5>4. Cardinality(Unspent') = Cardinality(Unspent) - 1
          BY <5>1, <5>2, <5>3, FS_RemoveElement
        <5> HIDE DEF OpenTriggers
        <5> QED BY <1>0, <2>1, <2>7, <2>8, <5>4 DEF Spent
      <4> QED BY <4>1, <4>2
    <3>2. Limited + Batch <= Limited'
      <4> DEFINE before == Spent  after == Spent'
      <4>1. before \in Nat /\ before + 1 \in Nat /\ after \in Nat /\ before + 1 <= after
        BY <2>7, <2>10, <3>1
      <4>2. Limited = DailyTarget + Batch * before /\ Limited' = DailyTarget + Batch * after
        BY DEF Limited
      <4> HIDE DEF before, after
      <4>3. Batch * (before + 1) <= Batch * after
        BY <4>1, Batches
      <4>4. Batch * (before + 1) = Batch * before + Batch
        BY <4>1, Batches
      <4>5. Batch * before \in Nat /\ Batch * after \in Nat
        BY <4>1, Batches
      <4> QED BY <4>2, <4>3, <4>4, <4>5, TaskConstants
    <3>3. drafts' <= Limited'
      BY <1>0, <2>2, <2>4, <2>7, <2>10, <3>2 DEF TargetInv
    <3>4. ASSUME NEW q \in Processes, Writes(q)', Holds(q)'
          PROVE  drafts' + run'[q].count <= Limited'
      <4>1. Writes(q) /\ Holds(q) /\ run'[q] = run[q] /\ run[q].count \in Nat
        BY <1>0, <2>3, <2>5, <2>6, <3>4 DEF Run
      <4>2. drafts + run[q].count <= Limited
        BY <4>1 DEF TargetInv
      <4> QED BY <1>0, <2>2, <2>4, <2>7, <2>10, <3>2, <4>1, <4>2
    <3> QED BY <2>9, <2>11, <3>3, <3>4 DEF TargetInv
  <2> QED BY <2>14, <2>15
<1>12. CASE AgentStep(SchedulerNext)
  <2>1. SchedulerNext
    BY <1>12 DEF AgentStep
  <2> QED BY <2>1, <1>3, <1>5, <1>6, <1>7, <1>8, <1>9, <1>10, <1>11 DEF SchedulerNext, TickStep, Runs
<1> QED BY <1>1, <1>2, <1>12 DEF TasksNext

\* processConfig and triggerManually: the daily target is exceeded by a batch for each
\* manual trigger and each lost lock, however long the LLM writes.
THEOREM TargetHolds == TasksSpec => []TargetIsKept
<1>1. TasksInit => LockInv /\ TargetInv
  BY InitiallyLocked, InitiallyOnTarget
<1>2. LockInv /\ TargetInv /\ [TasksNext]_taskVars => (LockInv /\ TargetInv)'
  BY LockInvKept, TargetKept
<1>3. LockInv /\ TargetInv => TargetIsKept
  <2> SUFFICES ASSUME LockInv, TargetInv PROVE TargetIsKept
    OBVIOUS
  <2>1. Spent \in Nat /\ Cardinality(Unspent) \in Nat
    BY SpentIsNatural DEF TargetInv
  <2>2. lost \in Nat /\ counted.triggers \in Nat /\ drafts \in Nat
    BY DEF LockInv, Types
  <2>3. Spent <= counted.triggers + lost
    BY <2>1, <2>2 DEF Spent, OpenTriggers
  <2>4. Batch * Spent <= Batch * (counted.triggers + lost)
    BY <2>1, <2>2, <2>3, Batches
  <2> QED BY <2>1, <2>2, <2>4, TaskConstants, Batches DEF TargetInv, Limited, TargetIsKept
<1> QED BY <1>1, <1>2, <1>3, PTL DEF TasksSpec

-----------------------------------------------------------------------------
(* What the webhooks hear.                                                 *)
(*                                                                         *)
(* A monitor that was created is owed each tweet once.  The poller with    *)
(* the lock delivers what the monitor is owed; one without it delivers a   *)
(* tweet more, or puts an older one back in lastTweetUrl, and is counted   *)
(* as a loss; a tweet deleted and a row saved again owe a tweet once more. *)
(* So what was received, what may be on its way and what is owed stay      *)
(* within what was created, lost and done again.                           *)

\* A row that knows no tweet which was not posted.
KnownRow == [status : {"absent", "enabled", "disabled"}, seen : 0 .. used.posted, event : BOOLEAN]

KnownPoller ==
    [phase : Phase, monitor : 0 .. used.created, row : KnownRow, tweet : 0 .. used.posted]

\* The parts of TypeOK, for tweets that were posted and monitors that were created; the
\* unique index leaves one monitor of the handle.
Facts ==
    /\ used \in [troubles : Nat, again : Nat, created : 0 .. MaxMonitors, posted : 0 .. MaxTweets]
    /\ tweets \subseteq 1 .. used.posted
    /\ monitor \in [Monitors -> KnownRow]
    /\ poller \in [Processes -> KnownPoller]
    /\ request \in [monitor : 0 .. used.created, row : KnownRow]
    /\ sent \in [received : [Tweets -> Nat], late : [Monitors -> Nat]]
    /\ \A m \in Monitors : m > used.created => monitor[m].status = "absent" /\ sent.late[m] = 0
    /\ \A m, n \in Present : m = n

LEMMA MonitorConstants ==
    /\ MaxMonitors \in Nat /\ MaxTweets \in Nat /\ MaxTroubles \in Nat
    /\ \A e \in EventTypes : e \in BOOLEAN
BY MonitorAssumption

\* The newest tweet exists: a set of natural numbers below a bound has a maximum.
LEMMA MaxExists ==
    ASSUME NEW n \in Nat, NEW S \in SUBSET (1 .. n), S # {}
    PROVE  Max(S) \in S /\ \A x \in S : x <= Max(S)
<1>1. PICK T : T = {i \in Nat : \E x \in S : x = n - i}
  OBVIOUS
<1>2. ASSUME NEW x \in S PROVE n - x \in T /\ x = n - (n - x)
  <2>1. x \in Nat /\ n - x \in Nat /\ n - (n - x) = x
    OBVIOUS
  <2> QED BY <1>1, <2>1
<1>3. T \subseteq Nat /\ T # {}
  BY <1>1, <1>2
<1>4. PICK y \in T : \A z \in T : ~(<<z, y>> \in OpToRel(<, Nat))
  BY <1>3, WFMin, NatLessThanWellFounded
<1>5. \A z \in T : ~(z < y)
  BY <1>3, <1>4 DEF OpToRel
<1>6. PICK x \in S : x = n - y
  BY <1>1
<1>7. ASSUME NEW z \in S PROVE x >= z
  <2>1. ~(n - z < y) /\ y \in Nat /\ z \in Nat /\ x \in Nat
    BY <1>2, <1>3, <1>5
  <2> QED BY <1>6, <2>1
<1>8. Max(S) \in S /\ \A z \in S : Max(S) >= z
  BY <1>7, Zenon DEF Max
<1>9. \A z \in S : z \in Nat
  OBVIOUS
<1> QED BY <1>8, <1>9

LEMMA NewestIsPosted ==
    ASSUME Facts
    PROVE  Newest \in 0 .. used.posted /\ \A t \in tweets : t <= Newest
<1>1. used.posted \in Nat /\ tweets \in SUBSET (1 .. used.posted)
  BY MonitorConstants DEF Facts
<1>2. CASE tweets = {}
  BY <1>1, <1>2 DEF Newest, NoTweet
<1>3. CASE tweets # {}
  <2>1. Max(tweets) \in tweets /\ \A t \in tweets : t <= Max(tweets)
    BY <1>1, <1>3, MaxExists
  <2>2. PICK x : x = Max(tweets)
    OBVIOUS
  <2>3. Newest = x
    BY <1>3, <2>2, Zenon DEF Newest
  <2>4. x \in 1 .. used.posted /\ \A t \in tweets : t <= x
    BY <1>1, <2>1, <2>2
  <2>5. x \in 0 .. used.posted
    BY <1>1, <2>4
  <2> QED BY <2>3, <2>4, <2>5
<1> QED BY <1>2, <1>3

-----------------------------------------------------------------------------
(* What a step of a poller makes of it.                                    *)

\* Poller p becomes x, and no other changes.
Becomes(p, x) ==
    /\ poller' \in [Processes -> KnownPoller]
    /\ poller'[p] = x
    /\ \A q \in Processes : q # p => poller'[q] = poller[q]

LEMMA PollerBecomes ==
    ASSUME Facts, NEW p \in Processes, NEW x \in KnownPoller, poller' = [poller EXCEPT ![p] = x]
    PROVE  Becomes(p, x)
BY DEF Facts, Becomes

LEMMA IdleIsKnown ==
    ASSUME Facts, NEW phase \in Phase, NEW x, x = [Idle EXCEPT !.phase = phase]
    PROVE  x \in KnownPoller /\ x.phase = phase
<1>1. /\ Idle = [phase |-> "idle", monitor |-> 0, row |-> Absent, tweet |-> 0]
      /\ Absent \in KnownRow
  <2>1. 0 \in 0 .. used.posted
    BY MonitorConstants DEF Facts
  <2> QED BY <2>1 DEF Idle, Absent, KnownRow, NoMonitor, NoTweet
<1>2. 0 \in 0 .. used.posted /\ 0 \in 0 .. used.created
  BY MonitorConstants DEF Facts
<1>3. x = [phase |-> phase, monitor |-> 0, row |-> Absent, tweet |-> 0]
  BY <1>1
<1> QED BY <1>1, <1>2, <1>3 DEF KnownPoller

LEMMA LeaveBecomes ==
    ASSUME Facts, NEW p \in Processes, NEW phase \in Phase,
           poller' = [poller EXCEPT ![p] = [Idle EXCEPT !.phase = phase]]
    PROVE  Becomes(p, poller'[p]) /\ poller'[p].phase = phase
<1>1. PICK x : x = [Idle EXCEPT !.phase = phase]
  OBVIOUS
<1>2. x \in KnownPoller /\ x.phase = phase
  BY <1>1, IdleIsKnown
<1>3. Becomes(p, x)
  BY <1>1, <1>2, PollerBecomes
<1> QED BY <1>2, <1>3 DEF Becomes

LEMMA GotoBecomes ==
    ASSUME Facts, NEW p \in Processes, NEW phase \in Phase, Goto(p, phase)
    PROVE  /\ Becomes(p, poller'[p]) /\ poller'[p].phase = phase
           /\ poller'[p].monitor = poller[p].monitor /\ poller'[p].row = poller[p].row
           /\ poller'[p].tweet = poller[p].tweet
<1>1. PICK x : x = [poller[p] EXCEPT !.phase = phase]
  OBVIOUS
<1>2. poller[p] \in KnownPoller
  BY DEF Facts
<1>3. /\ x \in KnownPoller /\ x.phase = phase /\ x.monitor = poller[p].monitor
      /\ x.row = poller[p].row /\ x.tweet = poller[p].tweet
  BY <1>1, <1>2 DEF KnownPoller
<1>4. poller' = [poller EXCEPT ![p] = x]
  BY <1>1 DEF Goto
<1>5. Becomes(p, x)
  BY <1>3, <1>4, PollerBecomes
<1> QED BY <1>3, <1>5 DEF Becomes

LEMMA FindBecomes ==
    ASSUME Facts, NEW p \in Processes, NEW m \in Enabled,
           poller' = [poller EXCEPT ![p] = [phase |-> "read", monitor |-> m,
                                            row |-> monitor[m], tweet |-> NoTweet]]
    PROVE  /\ Becomes(p, poller'[p]) /\ poller'[p].phase = "read"
           /\ poller'[p].monitor = m /\ poller'[p].row = monitor[m]
<1>1. PICK x : x = [phase |-> "read", monitor |-> m, row |-> monitor[m], tweet |-> NoTweet]
  OBVIOUS
<1>2. m \in Monitors /\ monitor[m].status = "enabled"
  BY DEF Enabled
<1>3. monitor[m] \in KnownRow /\ m \in 0 .. used.created
  BY <1>2, MonitorConstants DEF Facts, Monitors
<1>4. NoTweet \in 0 .. used.posted
  BY MonitorConstants DEF Facts, NoTweet
<1>5. x \in KnownPoller
  BY <1>1, <1>3, <1>4 DEF KnownPoller, Phase
<1>6. Becomes(p, x)
  BY <1>1, <1>5, PollerBecomes
<1> QED BY <1>1, <1>6 DEF Becomes

LEMMA ReadBecomes ==
    ASSUME Facts, NEW p \in Processes,
           poller' = [poller EXCEPT ![p].phase = "see", ![p].tweet = Newest]
    PROVE  /\ Becomes(p, poller'[p]) /\ poller'[p].phase = "see"
           /\ poller'[p].monitor = poller[p].monitor /\ poller'[p].row = poller[p].row
           /\ poller'[p].tweet = Newest
<1>1. PICK n : n = Newest
  OBVIOUS
<1>2. PICK x : x = [poller[p] EXCEPT !.phase = "see", !.tweet = n]
  OBVIOUS
<1>3. poller[p] \in KnownPoller /\ n \in 0 .. used.posted
  BY <1>1, NewestIsPosted DEF Facts
<1>4. /\ x \in KnownPoller /\ x.phase = "see" /\ x.monitor = poller[p].monitor
      /\ x.row = poller[p].row /\ x.tweet = n
  BY <1>2, <1>3 DEF KnownPoller, Phase
<1>5. poller' = [poller EXCEPT ![p] = x]
  BY <1>1, <1>2 DEF Facts
<1>6. Becomes(p, x)
  BY <1>4, <1>5, PollerBecomes
<1> QED BY <1>1, <1>4, <1>6 DEF Becomes

-----------------------------------------------------------------------------
(* Facts is preserved.                                                     *)

UsedType == [troubles : Nat, again : Nat, created : 0 .. MaxMonitors, posted : 0 .. MaxTweets]

LEMMA KnownStays ==
    ASSUME used'.created = used.created, used'.posted = used.posted
    PROVE  KnownRow' = KnownRow /\ KnownPoller' = KnownPoller
BY DEF KnownRow, KnownPoller

LEMMA FactsStay ==
    ASSUME Facts, used' \in UsedType, used'.created = used.created, used'.posted = used.posted,
           tweets' \subseteq tweets, monitor' \in [Monitors -> KnownRow],
           Present' \subseteq Present, poller' \in [Processes -> KnownPoller],
           request' \in [monitor : 0 .. used.created, row : KnownRow],
           sent' \in [received : [Tweets -> Nat], late : [Monitors -> Nat]],
           \A m \in Monitors : m > used.created => sent'.late[m] = 0
    PROVE  Facts'
<1>1. KnownRow' = KnownRow /\ KnownPoller' = KnownPoller
  BY KnownStays
<1>2. /\ used' \in UsedType
      /\ tweets' \subseteq 1 .. used'.posted
      /\ monitor' \in [Monitors -> KnownRow']
      /\ poller' \in [Processes -> KnownPoller']
      /\ request' \in [monitor : 0 .. used'.created, row : KnownRow']
      /\ sent' \in [received : [Tweets -> Nat], late : [Monitors -> Nat]]
  BY <1>1 DEF Facts
<1>3. \A m \in Monitors : m > used'.created => monitor'[m].status = "absent" /\ sent'.late[m] = 0
  <2>1. \A m \in Monitors : m > used.created => m \notin Present
    BY DEF Facts, Present
  <2>2. \A m \in Monitors : m > used.created => m \notin Present'
    BY <2>1
  <2> QED BY <2>2 DEF Present
<1>4. \A m, n \in Present' : m = n
  BY DEF Facts
<1> QED BY <1>2, <1>3, <1>4 DEF Facts, UsedType

LEMMA OwnerFacts == ASSUME Facts, OwnerStep PROVE Facts'
<1>0. /\ used \in UsedType /\ used.posted \in Nat /\ tweets \subseteq 1 .. used.posted
      /\ MaxTweets \in Nat
  BY MonitorConstants DEF Facts, UsedType
<1>1. UNCHANGED <<monitor, poller, request, sent>>
  BY DEF OwnerStep, Post, DeleteTweet
<1>2. CASE DeleteTweet
  <2>1. /\ used' = [used EXCEPT !.troubles = @ + 1, !.again = @ + 1]
        /\ tweets' \subseteq tweets
    BY <1>2 DEF DeleteTweet
  <2>2. used' \in UsedType /\ used'.created = used.created /\ used'.posted = used.posted
    <3>1. PICK i, j : i = used.troubles + 1 /\ j = used.again + 1
      OBVIOUS
    <3>2. i \in Nat /\ j \in Nat
      BY <1>0, <3>1 DEF UsedType
    <3>3. used' = [used EXCEPT !.troubles = i, !.again = j]
      BY <2>1, <3>1
    <3> QED BY <1>0, <3>2, <3>3 DEF UsedType
  <2>3. Present' = Present
    BY <1>1 DEF Present
  <2> QED BY <1>1, <2>1, <2>2, <2>3, FactsStay DEF Facts
<1>3. CASE Post
  <2>1. /\ used' = [used EXCEPT !.posted = @ + 1] /\ used.posted < MaxTweets
        /\ tweets' = tweets \cup {used.posted + 1}
    BY <1>3 DEF Post
  <2>2. /\ used' \in UsedType /\ used'.created = used.created /\ used'.posted = used.posted + 1
    BY <1>0, <2>1 DEF UsedType
  <2>3. 0 .. used.posted \subseteq 0 .. used'.posted
    BY <1>0, <2>2
  <2>4. KnownRow \subseteq KnownRow'
    BY <2>3 DEF KnownRow
  <2>5. KnownPoller \subseteq KnownPoller'
    BY <2>2, <2>3, <2>4 DEF KnownPoller
  <2>6. tweets' \subseteq 1 .. used'.posted
    BY <1>0, <2>1, <2>2
  <2>7. /\ monitor' \in [Monitors -> KnownRow'] /\ poller' \in [Processes -> KnownPoller']
    BY <1>1, <2>4, <2>5 DEF Facts
  <2>8. request' \in [monitor : 0 .. used'.created, row : KnownRow']
    BY <1>1, <2>2, <2>4 DEF Facts
  <2>9. Present' = Present
    BY <1>1 DEF Present
  <2> QED BY <1>1, <2>2, <2>6, <2>7, <2>8, <2>9 DEF Facts, UsedType
<1> QED BY <1>2, <1>3 DEF OwnerStep

LEMMA UserFacts == ASSUME Facts, UserStep PROVE Facts'
<1>0. /\ used \in UsedType /\ used.posted \in Nat /\ used.created \in 0 .. MaxMonitors
      /\ MaxMonitors \in Nat
      /\ monitor \in [Monitors -> KnownRow] /\ request \in [monitor : 0 .. used.created, row : KnownRow]
  BY MonitorConstants DEF Facts, UsedType
<1>1. UNCHANGED <<tweets, poller>>
  BY DEF UserStep, Create, FindExisting, SaveExisting, Disable, Delete
<1>2. CASE Create
  <2>0. PICK m : m = used.created + 1
    OBVIOUS
  <2>1. PICK event \in EventTypes :
          /\ m = used.created + 1 /\ used.created < MaxMonitors
          /\ monitor' = [monitor EXCEPT ![m] = [status |-> "enabled", seen |-> NoTweet, event |-> event]]
    BY <1>2, <2>0 DEF Create
  <2>2. /\ used' = [used EXCEPT !.created = @ + 1] /\ UNCHANGED <<request, sent>> /\ Present = {}
    BY <1>2 DEF Create
  <2>3. /\ used' \in UsedType /\ used'.created = m /\ used'.posted = used.posted
    BY <1>0, <2>1, <2>2 DEF UsedType
  <2>4. KnownRow' = KnownRow
    BY <2>3 DEF KnownRow
  <2>5. 0 .. used.created \subseteq 0 .. used'.created
    BY <1>0, <2>1, <2>3
  <2>6. KnownPoller \subseteq KnownPoller'
    BY <2>4, <2>5, <2>3 DEF KnownPoller
  <2>7. PICK x : x = [status |-> "enabled", seen |-> NoTweet, event |-> event]
    OBVIOUS
  <2>8. x \in KnownRow
    BY <1>0, <2>7, MonitorConstants DEF KnownRow, NoTweet
  <2>9. monitor' \in [Monitors -> KnownRow] /\ \A n \in Monitors : n # m => monitor'[n] = monitor[n]
    BY <1>0, <2>1, <2>7, <2>8
  <2>10. /\ monitor' \in [Monitors -> KnownRow'] /\ poller' \in [Processes -> KnownPoller']
         /\ request' \in [monitor : 0 .. used'.created, row : KnownRow']
    BY <1>0, <1>1, <2>2, <2>4, <2>5, <2>6, <2>9 DEF Facts
  <2>11. Present' \subseteq {m}
    BY <2>2, <2>9 DEF Present
  <2>12. \A n \in Monitors : n > used'.created => monitor'[n].status = "absent" /\ sent'.late[n] = 0
    <3>1. \A n \in Monitors : n > m => n # m /\ n > used.created
      BY <1>0, <2>1 DEF Monitors
    <3> QED BY <2>2, <2>3, <2>9, <3>1 DEF Facts
  <2> QED BY <1>1, <2>2, <2>3, <2>10, <2>11, <2>12 DEF Facts, UsedType
<1>3. CASE FindExisting
  <2>1. /\ used' = [used EXCEPT !.troubles = @ + 1] /\ UNCHANGED <<monitor, sent>>
    BY <1>3 DEF FindExisting, Trouble
  <2>2. PICK m \in Present : request' = [monitor |-> m, row |-> monitor[m]]
    BY <1>3 DEF FindExisting
  <2>3. m \in 0 .. used.created /\ monitor[m] \in KnownRow
    BY <1>0, MonitorConstants DEF Facts, Present, Monitors
  <2>4. used' \in UsedType /\ used'.created = used.created /\ used'.posted = used.posted
    BY <1>0, <2>1 DEF UsedType
  <2>5. Present' = Present
    BY <2>1 DEF Present
  <2> QED BY <1>1, <2>1, <2>2, <2>3, <2>4, <2>5, FactsStay DEF Facts
<1>4. CASE Disable \/ Delete
  <2>1. UNCHANGED <<used, sent, request>>
    BY <1>4 DEF Disable, Delete
  <2>2. Absent \in KnownRow
    BY <1>0 DEF Absent, KnownRow, NoTweet
  <2>3. CASE Disable
    <3>1. PICK m \in Enabled : monitor' = [monitor EXCEPT ![m].status = "disabled"]
      BY <2>3 DEF Disable
    <3>2. [monitor[m] EXCEPT !.status = "disabled"] \in KnownRow
      BY <1>0, <3>1 DEF Enabled, KnownRow
    <3>3. /\ monitor' \in [Monitors -> KnownRow]
          /\ \A n \in Monitors : n # m => monitor'[n] = monitor[n]
      BY <1>0, <3>1, <3>2
    <3>4. Present' \subseteq Present
      BY <3>3 DEF Present, Enabled
    <3> QED BY <1>0, <1>1, <2>1, <3>3, <3>4, FactsStay DEF Facts
  <2>4. CASE Delete
    <3>1. PICK m \in Present : monitor' = [monitor EXCEPT ![m] = Absent]
      BY <2>4 DEF Delete
    <3>2. /\ monitor' \in [Monitors -> KnownRow]
          /\ \A n \in Monitors : n # m => monitor'[n] = monitor[n]
      BY <1>0, <2>2, <3>1
    <3>3. Present' \subseteq Present
      BY <3>2 DEF Present
    <3> QED BY <1>0, <1>1, <2>1, <3>2, <3>3, FactsStay DEF Facts
  <2> QED BY <1>4, <2>3, <2>4
<1>5. CASE SaveExisting
  <2>1. PICK m : m = request.monitor
    OBVIOUS
  <2>2. request' = NoRequest /\ NoRequest \in [monitor : 0 .. used.created, row : KnownRow]
    BY <1>0, <1>5 DEF SaveExisting, NoRequest, Absent, KnownRow, NoTweet, NoMonitor
  <2>3. CASE UNCHANGED <<monitor, used, sent>>
    <3>1. Present' = Present
      BY <2>3 DEF Present
    <3> QED BY <1>0, <1>1, <2>2, <2>3, <3>1, FactsStay DEF Facts
  <2>4. CASE ~UNCHANGED <<monitor, used, sent>>
    <3>1. PICK status \in {request.row.status, "enabled"}, event \in EventTypes :
            monitor' = [monitor EXCEPT ![m] = [status |-> status, seen |-> request.row.seen, event |-> event]]
      BY <1>5, <2>1, <2>4 DEF SaveExisting
    <3>2. /\ Present \subseteq {m}
          /\ used' = [used EXCEPT !.again = IF m \in Present /\ request.row.seen = monitor[m].seen
                                            THEN @ ELSE @ + 1]
          /\ sent' = [sent EXCEPT !.late[m] = 0]
      BY <1>5, <2>1, <2>4 DEF SaveExisting
    <3>3. used' \in UsedType /\ used'.created = used.created /\ used'.posted = used.posted
      BY <1>0, <3>2 DEF UsedType
    <3>4. sent' \in [received : [Tweets -> Nat], late : [Monitors -> Nat]]
          /\ \A n \in Monitors : n > used.created => sent'.late[n] = 0
      BY <3>2 DEF Facts
    <3>5. PICK x : x = [status |-> status, seen |-> request.row.seen, event |-> event]
      OBVIOUS
    <3>6. x \in KnownRow
      BY <1>0, <3>5, MonitorConstants DEF KnownRow
    <3>7. /\ monitor' \in [Monitors -> KnownRow]
          /\ \A n \in Monitors : n # m => monitor'[n] = monitor[n]
      BY <1>0, <3>1, <3>5, <3>6
    <3>8. Present' \subseteq {m}
      BY <3>2, <3>7 DEF Present
    <3>9. m <= used.created
      BY <1>0, <2>1
    <3>10. \A n \in Monitors : n > used.created => n # m
      BY <1>0, <3>9 DEF Monitors
    <3>11. KnownRow' = KnownRow /\ KnownPoller' = KnownPoller
      BY <3>3, KnownStays
    <3>12. \A n \in Monitors : n > used.created => monitor'[n].status = "absent"
      BY <3>7, <3>10 DEF Facts
    <3> QED BY <1>1, <2>2, <3>3, <3>4, <3>7, <3>8, <3>11, <3>12 DEF Facts, UsedType
  <2> QED BY <2>3, <2>4
<1> QED BY <1>2, <1>3, <1>4, <1>5 DEF UserStep

\* One delivery, which arrives or not.
LEMMA DeliverSends ==
    ASSUME Facts, NEW p \in Processes, Deliver(p)
    PROVE  /\ sent' \in [received : [Tweets -> Nat], late : [Monitors -> Nat]]
           /\ \E arrives \in {0, 1} :
                /\ \A t \in Tweets : sent'.received[t] = IF t = poller[p].tweet THEN sent.received[t] + arrives
                                                         ELSE sent.received[t]
                /\ \A m \in Monitors : sent'.late[m] = IF m = poller[p].monitor /\ m \notin Enabled
                                                       THEN sent.late[m] + arrives ELSE sent.late[m]
<1>0. sent \in [received : [Tweets -> Nat], late : [Monitors -> Nat]]
  BY DEF Facts
<1>1. PICK m, t : m = poller[p].monitor /\ t = poller[p].tweet
  OBVIOUS
<1>2. PICK arrives \in {0, 1} :
         sent' = [sent EXCEPT !.received[t] = @ + arrives,
                              !.late[m] = IF m \in Enabled THEN @ ELSE @ + arrives]
  BY <1>1 DEF Deliver
<1>3. PICK received : received = [sent.received EXCEPT ![t] = @ + arrives]
  OBVIOUS
<1>4. PICK late : late = [sent.late EXCEPT ![m] = IF m \in Enabled THEN @ ELSE @ + arrives]
  OBVIOUS
<1>5. /\ received \in [Tweets -> Nat]
      /\ \A x \in Tweets : received[x] = IF x = t THEN sent.received[x] + arrives ELSE sent.received[x]
  <2>1. sent.received \in [Tweets -> Nat] /\ arrives \in Nat
    BY <1>0
  <2>2. \A x \in Tweets : sent.received[x] \in Nat /\ sent.received[x] + arrives \in Nat
    BY <2>1
  <2> QED BY <1>3, <2>1, <2>2
<1>6. /\ late \in [Monitors -> Nat]
      /\ \A x \in Monitors : late[x] = IF x = m /\ x \notin Enabled THEN sent.late[x] + arrives ELSE sent.late[x]
  <2>1. sent.late \in [Monitors -> Nat] /\ arrives \in Nat
    BY <1>0
  <2>2. \A x \in Monitors : sent.late[x] \in Nat /\ sent.late[x] + arrives \in Nat
    BY <2>1
  <2> QED BY <1>4, <2>1, <2>2
<1>7. sent' = [sent EXCEPT !.received = received, !.late = late]
  BY <1>0, <1>2, <1>3, <1>4
<1>8. sent'.received = received /\ sent'.late = late
      /\ sent' \in [received : [Tweets -> Nat], late : [Monitors -> Nat]]
  BY <1>0, <1>5, <1>6, <1>7
<1> QED BY <1>1, <1>5, <1>6, <1>8

LEMMA PollerFacts ==
    ASSUME Facts, NEW p \in Processes,
           \/ Lead(p) \/ CycleStep(p) \/ FaultStep(p) \/ Restart(p)
    PROVE  Facts' /\ Becomes(p, poller'[p])
<1> USE DEF Phase
<1>0. /\ used \in UsedType /\ monitor \in [Monitors -> KnownRow] /\ poller[p] \in KnownPoller
      /\ sent \in [received : [Tweets -> Nat], late : [Monitors -> Nat]]
      /\ \A n \in Monitors : n > used.created => sent.late[n] = 0
  BY DEF Facts, UsedType
<1>1. Becomes(p, poller'[p])
  <2>1. CASE Leave(p)
    BY <2>1, LeaveBecomes DEF Leave
  <2>2. CASE \E phase \in Phase : Goto(p, phase)
    BY <2>2, GotoBecomes
  <2>3. CASE Release(p)
    <3>1. [Idle EXCEPT !.phase = "idle"] = Idle
      BY DEF Idle
    <3> QED BY <2>3, <3>1, LeaveBecomes DEF Release
  <2>4. CASE Crash(p)
    BY <2>4, LeaveBecomes DEF Crash
  <2>5. CASE FindEnabled(p)
    BY <2>1, <2>5, FindBecomes DEF FindEnabled
  <2>6. CASE ReadTweets(p)
    BY <2>1, <2>6, ReadBecomes DEF ReadTweets
  <2> QED BY <2>1, <2>2, <2>3, <2>4, <2>5, <2>6
          DEF Lead, CycleStep, FaultStep, Restart, UpdateLastSeen, Deliver, Record, CheckRejects
<1>2. /\ used' \in UsedType /\ used'.created = used.created /\ used'.posted = used.posted
      /\ UNCHANGED <<tweets, request>>
  <2>1. UNCHANGED used \/ used' = [used EXCEPT !.troubles = @ + 1]
    BY DEF Lead, CycleStep, FaultStep, Restart, FindEnabled, ReadTweets, UpdateLastSeen, Deliver,
           Record, Release, CheckRejects, Crash, Trouble
  <2>2. UNCHANGED <<tweets, request>>
    BY DEF Lead, CycleStep, FaultStep, Restart, FindEnabled, ReadTweets, UpdateLastSeen, Deliver,
           Record, Release, CheckRejects, Crash
  <2> QED BY <1>0, <2>1, <2>2 DEF UsedType
<1>3. monitor' \in [Monitors -> KnownRow] /\ Present' \subseteq Present
  <2>1. CASE UpdateLastSeen(p)
    <3>1. PICK t : t = poller[p].tweet
      OBVIOUS
    <3>2. t \in 0 .. used.posted
      BY <1>0, <3>1 DEF KnownPoller
    <3>3. monitor' = [m \in Monitors |-> IF m = poller[p].monitor /\ m \in Present
                                         THEN [monitor[m] EXCEPT !.seen = t] ELSE monitor[m]]
      BY <2>1, <3>1 DEF UpdateLastSeen
    <3>4. ASSUME NEW m \in Monitors
          PROVE  [monitor[m] EXCEPT !.seen = t] \in KnownRow
                 /\ [monitor[m] EXCEPT !.seen = t].status = monitor[m].status
      BY <1>0, <3>2 DEF KnownRow
    <3>5. /\ monitor' \in [Monitors -> KnownRow]
          /\ \A m \in Monitors : monitor'[m].status = monitor[m].status
      BY <1>0, <3>3, <3>4
    <3> QED BY <3>5 DEF Present
  <2>2. CASE UNCHANGED monitor
    BY <1>0, <2>2 DEF Present
  <2> QED BY <2>1, <2>2 DEF Lead, CycleStep, FaultStep, Restart, FindEnabled, ReadTweets, Deliver,
                            Record, Release, CheckRejects, Crash
<1>4. /\ sent' \in [received : [Tweets -> Nat], late : [Monitors -> Nat]]
      /\ \A n \in Monitors : n > used.created => sent'.late[n] = 0
  <2>1. CASE Deliver(p)
    <3>1. \A n \in Monitors : n > used.created => n # poller[p].monitor
      BY <1>0, MonitorConstants DEF Monitors, UsedType, KnownPoller
    <3> QED BY <1>0, <2>1, <3>1, DeliverSends
  <2>2. CASE UNCHANGED sent
    BY <1>0, <2>2
  <2> QED BY <2>1, <2>2 DEF Lead, CycleStep, FaultStep, Restart, FindEnabled, ReadTweets,
                            UpdateLastSeen, Record, Release, CheckRejects, Crash
<1>5. request' \in [monitor : 0 .. used.created, row : KnownRow]
  BY <1>2 DEF Facts
<1> QED BY <1>1, <1>2, <1>3, <1>4, <1>5, FactsStay DEF Becomes

\* Nothing of a monitor changes.
MonitorIsLeft == UNCHANGED <<tweets, monitor, poller, request, used, sent>>

LEMMA FactsLeft == ASSUME Facts, MonitorIsLeft PROVE Facts'
<1>1. KnownRow' = KnownRow /\ KnownPoller' = KnownPoller
  BY KnownStays DEF MonitorIsLeft
<1>2. Present' = Present
  BY DEF MonitorIsLeft, Present
<1> QED BY <1>1, <1>2 DEF Facts, MonitorIsLeft

LEMMA FactsKept == Facts /\ [TasksNext]_taskVars => Facts'
<1> SUFFICES ASSUME Facts, [TasksNext]_taskVars PROVE Facts'
  OBVIOUS
<1>1. CASE MonitorIsLeft
  BY <1>1, FactsLeft
<1>2. CASE UNCHANGED taskVars \/ AgentStep(SchedulerNext)
  BY <1>1, <1>2 DEF taskVars, AgentStep, monitorVars, MonitorIsLeft
<1>3. CASE MonitorStep(Next)
  <2>1. ASSUME NEW p \in Processes, Skip(p) \/ IdleSessionCloses(p) PROVE MonitorIsLeft
    BY <2>1 DEF Skip, IdleSessionCloses, monitorVars, MonitorIsLeft
  <2> QED BY <1>1, <1>3, <2>1, OwnerFacts, UserFacts, PollerFacts DEF MonitorStep, Next
<1> QED BY <1>2, <1>3 DEF TasksNext

LEMMA InitialFacts == TasksInit => Facts
<1> SUFFICES ASSUME TasksInit PROVE Facts
  OBVIOUS
<1> USE MonitorConstants DEF NoMonitor, NoTweet
<1>1. Init /\ used = [troubles |-> 0, again |-> 0, created |-> 0, posted |-> 0]
  BY DEF TasksInit, Init
<1>2. used \in UsedType /\ used.posted = 0 /\ used.created = 0
  BY <1>1 DEF UsedType
<1>3. Absent \in KnownRow /\ Absent.status = "absent"
  BY <1>2 DEF Absent, KnownRow
<1>4. Idle \in KnownPoller
  BY <1>2, <1>3 DEF Idle, KnownPoller, Phase
<1>5. NoRequest \in [monitor : 0 .. used.created, row : KnownRow]
  BY <1>2, <1>3 DEF NoRequest
<1>6. Present = {}
  BY <1>1, <1>3 DEF Init, Present
<1>7. /\ tweets = {} /\ monitor \in [Monitors -> KnownRow] /\ poller \in [Processes -> KnownPoller]
      /\ request = NoRequest
      /\ sent \in [received : [Tweets -> Nat], late : [Monitors -> Nat]]
      /\ \A m \in Monitors : monitor[m].status = "absent" /\ sent.late[m] = 0
  BY <1>1, <1>3, <1>4 DEF Init
<1> QED BY <1>2, <1>5, <1>6, <1>7 DEF Facts, UsedType

-----------------------------------------------------------------------------
(* What comes late.                                                        *)

\* Poller p checks the monitor it listed, and may still deliver.
Busy(p) == poller[p].phase \in {"read", "see", "deliver"}

BusyWith(m) == {p \in Processes : Busy(p) /\ poller[p].monitor = m}

\* A monitor that is not enabled hears of no more deliveries than there were pollers busy
\* with it when it was disabled.
LateInv ==
    \A m \in Monitors :
        /\ sent.late[m] + Cardinality(BusyWith(m)) <= 1 + lost
        /\ m \in Enabled => sent.late[m] = 0

\* The pollers busy with a monitor: one with the lock, and those that lost it.
FewBusy ==
    \A m \in Monitors :
        /\ IsFiniteSet(BusyWith(m)) /\ Cardinality(BusyWith(m)) \in Nat
        /\ Cardinality(BusyWith(m)) <= 1 + lost

LEMMA BusyAreFew == LockInv => FewBusy
<1> SUFFICES ASSUME LockInv, NEW m \in Monitors
             PROVE  /\ IsFiniteSet(BusyWith(m)) /\ Cardinality(BusyWith(m)) \in Nat
                    /\ Cardinality(BusyWith(m)) <= 1 + lost
  BY DEF FewBusy
<1> USE TaskConstants
<1>1. IsFiniteSet(Lockless) /\ Cardinality(Lockless) \in Nat /\ Cardinality(Lockless) <= lost /\ lost \in Nat
  BY FS_Subset, FS_CardinalityType DEF Lockless, LockInv, LossesAreCounted, Types
<1>2. \A p \in BusyWith(m) : p \in Processes /\ Leading(p)
  BY DEF BusyWith, Busy, Leading, Leads
<1>3. \A p, q \in Processes : Holds(p) /\ Holds(q) => p = q
  BY DEF LockInv, OneHolder, Holds
<1>4. /\ IsFiniteSet(BusyWith(m)) /\ Cardinality(BusyWith(m)) \in Nat
      /\ BusyWith(m) \subseteq Processes /\ Lockless \subseteq Processes
  BY FS_Subset, FS_CardinalityType DEF BusyWith, Lockless
<1>5. CASE \E p \in BusyWith(m) : Holds(p)
  <2>1. PICK p \in BusyWith(m) : Holds(p)
    BY <1>5
  <2>2. BusyWith(m) \subseteq Lockless \cup {p} /\ p \in Processes
    BY <1>2, <1>3, <2>1 DEF Lockless
  <2>3. Cardinality(BusyWith(m)) <= Cardinality(Lockless) + 1
    BY <1>4, <2>2, CountedSet
  <2> QED BY <1>1, <1>4, <2>3
<1>6. CASE ~\E p \in BusyWith(m) : Holds(p)
  <2>1. BusyWith(m) \subseteq Lockless
    BY <1>2, <1>6 DEF Lockless
  <2>2. Cardinality(BusyWith(m)) <= Cardinality(Lockless)
    BY <1>1, <2>1, FS_Subset
  <2> QED BY <1>1, <1>4, <2>2
<1> QED BY <1>5, <1>6

\* A step that sends nothing late and lists nobody for m.
LEMMA LateStays ==
    ASSUME Facts, LockInv, LateInv, lost' \in Nat, lost <= lost', NEW m \in Monitors,
           sent'.late[m] = sent.late[m], BusyWith(m)' \subseteq BusyWith(m)
    PROVE  sent'.late[m] + Cardinality(BusyWith(m)') <= 1 + lost'
<1>1. IsFiniteSet(BusyWith(m)) /\ Cardinality(BusyWith(m)) \in Nat /\ lost \in Nat
  BY BusyAreFew DEF FewBusy, LockInv, Types
<1>2. IsFiniteSet(BusyWith(m)') /\ Cardinality(BusyWith(m)') <= Cardinality(BusyWith(m))
        /\ Cardinality(BusyWith(m)') \in Nat
  BY <1>1, FS_Subset, FS_CardinalityType
<1>3. sent.late[m] + Cardinality(BusyWith(m)) <= 1 + lost /\ sent.late[m] \in Nat
  BY DEF LateInv, Facts
<1> QED BY <1>1, <1>2, <1>3

LEMMA DeliverIsLate ==
    ASSUME Facts, LockInv, LateInv, NEW p \in Processes, Deliver(p), NEW m \in Monitors, m \notin Enabled
    PROVE  sent'.late[m] + Cardinality(BusyWith(m)') <= 1 + lost'
<1>1. PICK arrives \in {0, 1} :
         sent'.late[m] = IF m = poller[p].monitor THEN sent.late[m] + arrives ELSE sent.late[m]
  BY DeliverSends
<1>2. lost' = lost /\ lost \in Nat /\ At(p, "deliver") /\ Goto(p, "record")
  BY DEF Deliver, lockVars, LockInv, Types
<1>3. Becomes(p, poller'[p]) /\ poller'[p].phase = "record"
  BY <1>2, GotoBecomes DEF Phase
<1>4. BusyWith(m)' \subseteq BusyWith(m) \ {p}
  BY <1>3 DEF BusyWith, Busy, Becomes
<1>5. IsFiniteSet(BusyWith(m)) /\ Cardinality(BusyWith(m)) \in Nat
  BY BusyAreFew DEF FewBusy
<1>6. CASE m # poller[p].monitor
  BY <1>1, <1>2, <1>4, <1>6, LateStays
<1>7. CASE m = poller[p].monitor
  <2>1. p \in BusyWith(m)
    BY <1>2, <1>7 DEF BusyWith, Busy, At
  <2>2. IsFiniteSet(BusyWith(m) \ {p}) /\ Cardinality(BusyWith(m) \ {p}) = Cardinality(BusyWith(m)) - 1
    BY <1>5, <2>1, FS_RemoveElement
  <2>3. Cardinality(BusyWith(m)') <= Cardinality(BusyWith(m)) - 1 /\ Cardinality(BusyWith(m)') \in Nat
    BY <1>4, <2>2, FS_Subset, FS_CardinalityType
  <2>4. sent.late[m] + Cardinality(BusyWith(m)) <= 1 + lost /\ sent.late[m] \in Nat
    BY DEF LateInv, Facts
  <2> QED BY <1>1, <1>2, <1>5, <1>7, <2>3, <2>4
<1> QED BY <1>6, <1>7

LEMMA LossesGrow ==
    ASSUME LockInv, [TasksNext]_taskVars
    PROVE  lost \in Nat /\ lost' \in Nat /\ lost <= lost'
<1>0. lost \in Nat
  BY DEF LockInv, Types
<1>1. CASE UNCHANGED taskVars
  BY <1>0, <1>1 DEF taskVars, lockVars
<1>2. CASE MonitorStep(Next) \/ AgentStep(SchedulerNext)
  <2>1. NoMove \/ \E p \in Processes : MoveOf(p)
    BY <1>2, MonitorMoves, AgentMoves
  <2>2. lost' = lost \/ lost' = lost + 1
    BY <2>1 DEF NoMove, MoveOf, lockVars
  <2> QED BY <1>0, <2>2
<1> QED BY <1>1, <1>2 DEF TasksNext

\* A step of a poller lists no monitor that is not enabled.
LEMMA BusyShrinks ==
    ASSUME Facts, NEW p \in Processes, NEW m \in Monitors, m \notin Enabled,
           Lead(p) \/ CycleStep(p) \/ FaultStep(p) \/ Restart(p)
    PROVE  BusyWith(m)' \subseteq BusyWith(m)
<1> USE DEF Phase
<1>1. Becomes(p, poller'[p])
  BY PollerFacts
<1>2. p \in BusyWith(m)' => p \in BusyWith(m)
  <2>1. CASE FindEnabled(p)
    <3>1. CASE Leave(p)
      <4>1. poller'[p].phase = "release"
        BY <3>1, LeaveBecomes DEF Leave
      <4> QED BY <4>1 DEF BusyWith, Busy
    <3>2. CASE ~Leave(p)
      <4>1. PICK n \in Enabled :
              poller' = [poller EXCEPT ![p] = [phase |-> "read", monitor |-> n,
                                               row |-> monitor[n], tweet |-> NoTweet]]
        BY <2>1, <3>2 DEF FindEnabled
      <4>2. poller'[p].monitor = n
        BY <4>1, FindBecomes
      <4> QED BY <4>2 DEF BusyWith
    <3> QED BY <3>1, <3>2
  <2>2. CASE ReadTweets(p)
    <3>1. CASE Leave(p)
      <4>1. poller'[p].phase = "release"
        BY <3>1, LeaveBecomes DEF Leave
      <4> QED BY <4>1 DEF BusyWith, Busy
    <3>2. CASE ~Leave(p)
      <4>1. poller'[p].monitor = poller[p].monitor /\ Busy(p)
        BY <2>2, <3>2, ReadBecomes DEF ReadTweets, At, Busy
      <4> QED BY <4>1 DEF BusyWith
    <3> QED BY <3>1, <3>2
  <2>3. CASE UpdateLastSeen(p)
    <3>1. CASE Leave(p)
      <4>1. poller'[p].phase = "release"
        BY <3>1, LeaveBecomes DEF Leave
      <4> QED BY <4>1 DEF BusyWith, Busy
    <3>2. CASE ~Leave(p)
      <4>1. poller'[p].monitor = poller[p].monitor /\ Busy(p)
        BY <2>3, <3>2, GotoBecomes DEF UpdateLastSeen, At, Busy
      <4> QED BY <4>1 DEF BusyWith
    <3> QED BY <3>1, <3>2
  <2>4. ASSUME NEW phase \in Phase, poller'[p].phase = phase, phase \notin {"read", "see", "deliver"}
        PROVE  p \notin BusyWith(m)'
    BY <2>4 DEF BusyWith, Busy
  <2>5. CASE Lead(p) \/ Restart(p) \/ Deliver(p)
    BY <2>4, <2>5, GotoBecomes DEF Lead, Restart, Deliver
  <2>6. CASE Record(p) \/ CheckRejects(p) \/ Crash(p)
    BY <2>4, <2>6, LeaveBecomes DEF Record, CheckRejects, Crash, Leave
  <2>7. CASE Release(p)
    <3>1. poller' = [poller EXCEPT ![p] = [Idle EXCEPT !.phase = "idle"]]
      BY <2>7 DEF Release, Idle
    <3> QED BY <2>4, <3>1, LeaveBecomes
  <2> QED BY <2>1, <2>2, <2>3, <2>5, <2>6, <2>7 DEF CycleStep, FaultStep
<1> QED BY <1>1, <1>2 DEF BusyWith, Busy, Becomes

\* A poller enables no monitor.
LEMMA EnabledStay ==
    ASSUME Facts, NEW p \in Processes,
           Lead(p) \/ CycleStep(p) \/ FaultStep(p) \/ Restart(p)
    PROVE  Enabled' = Enabled
<1>1. CASE UNCHANGED monitor
  BY <1>1 DEF Enabled
<1>2. CASE UpdateLastSeen(p)
  <2>1. monitor \in [Monitors -> KnownRow]
    BY DEF Facts
  <2>2. PICK t : t = poller[p].tweet
    OBVIOUS
  <2>3. monitor' = [m \in Monitors |-> IF m = poller[p].monitor /\ m \in Present
                                       THEN [monitor[m] EXCEPT !.seen = t] ELSE monitor[m]]
    BY <1>2, <2>2 DEF UpdateLastSeen
  <2>4. \A m \in Monitors : [monitor[m] EXCEPT !.seen = t].status = monitor[m].status
    BY <2>1 DEF KnownRow
  <2>5. \A m \in Monitors : monitor'[m].status = monitor[m].status
    BY <2>3, <2>4
  <2> QED BY <2>5 DEF Enabled
<1> QED BY <1>1, <1>2 DEF Lead, CycleStep, FaultStep, Restart, FindEnabled, ReadTweets, Deliver,
                          Record, Release, CheckRejects, Crash

LEMMA LateKept ==
    ASSUME Facts, LockInv, LateInv, [TasksNext]_taskVars, FewBusy'
    PROVE  LateInv'
<1> DEFINE InTime(m) == /\ sent'.late[m] + Cardinality(BusyWith(m)') <= 1 + lost'
                        /\ m \in Enabled' => sent'.late[m] = 0
<1>0. lost \in Nat /\ lost' \in Nat /\ lost <= lost'
  BY LossesGrow
<1>1. ASSUME NEW m \in Monitors, sent'.late[m] = 0 PROVE InTime(m)
  BY <1>0, <1>1 DEF FewBusy
<1>2. ASSUME UNCHANGED sent, NEW m \in Monitors,
             \/ sent.late[m] = 0
             \/ (m \in Enabled' => m \in Enabled) /\ (m \notin Enabled => BusyWith(m)' \subseteq BusyWith(m))
      PROVE  InTime(m)
  <2>1. CASE sent.late[m] = 0
    BY <1>1, <1>2, <2>1
  <2>2. CASE sent.late[m] # 0
    <3>1. m \notin Enabled
      BY <2>2 DEF LateInv
    <3> QED BY <1>0, <1>2, <2>2, <3>1, LateStays
  <2> QED BY <2>1, <2>2
<1> SUFFICES ASSUME NEW m \in Monitors PROVE InTime(m)
  BY DEF LateInv
<1> HIDE DEF InTime
<1>3. CASE UNCHANGED <<monitor, poller, sent>>
  <2>1. Enabled' = Enabled /\ BusyWith(m)' = BusyWith(m)
    BY <1>3 DEF Enabled, BusyWith, Busy
  <2> QED BY <1>2, <1>3, <2>1
<1>4. CASE Create
  <2>1. PICK n, x : n = used.created + 1 /\ monitor' = [monitor EXCEPT ![n] = x]
    BY <1>4 DEF Create
  <2>2. UNCHANGED <<poller, sent>> /\ BusyWith(m)' = BusyWith(m)
    BY <1>4 DEF Create, BusyWith, Busy
  <2>3. m = n => sent.late[m] = 0
    BY <2>1, MonitorConstants DEF Facts
  <2>4. m # n => (m \in Enabled' => m \in Enabled)
    BY <2>1 DEF Enabled, Facts
  <2> QED BY <1>2, <2>2, <2>3, <2>4
<1>5. CASE Disable \/ Delete
  <2>1. UNCHANGED <<poller, sent>> /\ BusyWith(m)' = BusyWith(m)
    BY <1>5 DEF Disable, Delete, BusyWith, Busy
  <2>2. Enabled' \subseteq Enabled
    <3>0. monitor \in [Monitors -> KnownRow]
      BY DEF Facts
    <3>1. CASE Disable
      <4>1. PICK n \in Enabled : monitor' = [monitor EXCEPT ![n].status = "disabled"]
        BY <3>1 DEF Disable
      <4> QED BY <3>0, <4>1 DEF Enabled, KnownRow
    <3>2. CASE Delete
      <4>1. PICK n \in Present : monitor' = [monitor EXCEPT ![n] = Absent]
        BY <3>2 DEF Delete
      <4> QED BY <3>0, <4>1 DEF Enabled, Absent
    <3> QED BY <1>5, <3>1, <3>2
  <2> QED BY <1>2, <2>1, <2>2
<1>6. CASE SaveExisting
  <2>1. UNCHANGED poller /\ BusyWith(m)' = BusyWith(m)
    BY <1>6 DEF SaveExisting, BusyWith, Busy
  <2>2. CASE UNCHANGED <<monitor, sent>>
    BY <1>3, <2>1, <2>2
  <2>3. CASE ~UNCHANGED <<monitor, sent>>
    <3>1. PICK n, x : n = request.monitor /\ monitor' = [monitor EXCEPT ![n] = x]
                      /\ sent' = [sent EXCEPT !.late[n] = 0]
      BY <1>6, <2>3 DEF SaveExisting
    <3>2. m = n => sent'.late[m] = 0
      BY <3>1 DEF Facts
    <3>3. m # n => sent'.late[m] = sent.late[m] /\ (m \in Enabled' => m \in Enabled)
      BY <3>1 DEF Facts, Enabled
    <3>4. CASE m # n
      <4>1. sent'.late[m] + Cardinality(BusyWith(m)') <= 1 + lost'
        BY <1>0, <2>1, <3>3, <3>4, LateStays
      <4>2. m \in Enabled' => sent'.late[m] = 0
        BY <3>3, <3>4 DEF LateInv
      <4> QED BY <4>1, <4>2 DEF InTime
    <3> QED BY <1>1, <3>2, <3>4
  <2> QED BY <2>2, <2>3
<1>7. ASSUME NEW p \in Processes, Lead(p) \/ CycleStep(p) \/ FaultStep(p) \/ Restart(p)
      PROVE  InTime(m)
  <2>1. Enabled' = Enabled
    BY <1>7, EnabledStay
  <2>2. m \notin Enabled => BusyWith(m)' \subseteq BusyWith(m)
    BY <1>7, BusyShrinks
  <2>3. CASE UNCHANGED sent
    BY <1>2, <2>1, <2>2, <2>3
  <2>4. CASE Deliver(p)
    <3>1. CASE m \in Enabled
      <4>1. sent'.late[m] = 0
        BY <2>4, <3>1, DeliverSends DEF LateInv
      <4> QED BY <1>1, <4>1
    <3>2. CASE m \notin Enabled
      BY <2>1, <2>4, <3>2, DeliverIsLate DEF InTime
    <3> QED BY <3>1, <3>2
  <2> QED BY <1>7, <2>3, <2>4
          DEF Lead, CycleStep, FaultStep, Restart, FindEnabled, ReadTweets, UpdateLastSeen,
              Record, Release, CheckRejects, Crash
<1>8. CASE UNCHANGED taskVars \/ AgentStep(SchedulerNext) \/ OwnerStep \/ FindExisting
           \/ \E p \in Processes : Skip(p) \/ IdleSessionCloses(p)
  <2>1. UNCHANGED <<monitor, poller, sent>>
    BY <1>8 DEF taskVars, AgentStep, monitorVars, OwnerStep, Post, DeleteTweet, FindExisting,
                Skip, IdleSessionCloses
  <2> QED BY <1>3, <2>1
<1> QED BY <1>4, <1>5, <1>6, <1>7, <1>8 DEF TasksNext, MonitorStep, Next, UserStep

-----------------------------------------------------------------------------
(* What a tweet was received, may come without the lock, and is owed.      *)

\* The newest tweet, or one that is not posted yet: what a poller may still find.
Open(t) == t = Newest \/ t > used.posted

\* The monitor, as it is, is to hear of tweet t.
Wanted(t) == \E m \in Present : monitor[m].seen # t /\ Open(t)

Delivers(p, t) == At(p, "deliver") /\ poller[p].tweet = t

\* The poll that goes on may deliver tweet t.
Brings(p, t) ==
    \/ At(p, "read") /\ poller[p].row.seen # t /\ Open(t)
    \/ At(p, "see") /\ (poller[p].tweet = t \/ Open(t))
    \/ Delivers(p, t)

\* It is of a monitor that was deleted, and there is another one.
Strays(p) == Busy(p) /\ \E m \in Present : m # poller[p].monitor

\* The same of the poller that has the lock.
Coming(t) == \E p \in Processes : Holds(p) /\ Brings(p, t)
Sure(t) == \E p \in Processes : Holds(p) /\ Delivers(p, t)
Elsewhere == \E p \in Processes : Holds(p) /\ Strays(p)

One(b) == IF b THEN 1 ELSE 0

\* How often tweet t will be received, of what the monitor and the poller with the lock
\* know now: once for both, unless they have nothing to do with each other any more.
Owed(t) ==
    IF Elsewhere THEN 1 + One(Coming(t))
    ELSE IF Sure(t) THEN 1 + One(Wanted(t))
    ELSE One(Wanted(t) \/ Coming(t))

\* Pollers without the lock that may deliver tweet t, or put another one in its place.
Extra(t) ==
    {p \in Processes : Leads(p) /\ ~Holds(p)
                       /\ (poller[p].phase \in {"list", "read", "see"} \/ Delivers(p, t))}

Account(t) == sent.received[t] + Cardinality(Extra(t)) + Owed(t)

Paid == used.created + lost + used.again

Accounted == \A t \in Tweets : Account(t) <= Paid

LEMMA SureComes == \A t : Sure(t) => Coming(t)
BY DEF Sure, Coming, Brings

LEMMA OwedAtMost == \A t : Owed(t) \in {0, 1, 2} /\ Owed(t)' \in {0, 1, 2}
BY DEF Owed, One

LEMMA OwedNoMore ==
    ASSUME NEW t, Elsewhere' => Elsewhere, Sure(t)' => Sure(t), Wanted(t)' => Wanted(t),
           Coming(t)' => Coming(t)
    PROVE  Owed(t)' <= Owed(t)
<1>1. Sure(t) => Coming(t)
  BY SureComes
<1> QED BY <1>1 DEF Owed, One

\* No poll with the lock is left that owes more than the monitor wants.
LEMMA OwedOnce ==
    ASSUME NEW t, ~Elsewhere', ~Sure(t)', Wanted(t)' \/ Coming(t)' => Wanted(t) \/ Coming(t)
    PROVE  Owed(t)' <= Owed(t)
BY DEF Owed, One

LEMMA OwedOnceMore ==
    ASSUME NEW t,
           \/ (Elsewhere' => Elsewhere) /\ (Sure(t)' => Sure(t))
           \/ ~Elsewhere /\ ~Wanted(t) /\ (Coming(t)' => Coming(t)) /\ (Sure(t)' => Sure(t))
    PROVE  Owed(t)' <= Owed(t) + 1
<1>1. Sure(t) => Coming(t)
  BY SureComes
<1> QED BY <1>1 DEF Owed, One

LEMMA ExtraCounted ==
    ASSUME NEW t, NEW p \in Processes, Extra(t)' \subseteq Extra(t) \cup {p}
    PROVE  /\ Cardinality(Extra(t)) \in Nat /\ Cardinality(Extra(t)') \in Nat
           /\ Cardinality(Extra(t)') <= Cardinality(Extra(t)) + 1
           /\ Extra(t)' \subseteq Extra(t) => Cardinality(Extra(t)') <= Cardinality(Extra(t))
           /\ p \in Extra(t) /\ Extra(t)' \subseteq Extra(t) \ {p}
                => Cardinality(Extra(t)') <= Cardinality(Extra(t)) - 1
<1>1. Extra(t) \subseteq Processes /\ Extra(t)' \subseteq Processes
  BY DEF Extra
<1>2. IsFiniteSet(Extra(t))
  BY <1>1, TaskConstants, FS_Subset
<1>3. ASSUME p \in Extra(t), Extra(t)' \subseteq Extra(t) \ {p}
      PROVE  Cardinality(Extra(t)') <= Cardinality(Extra(t)) - 1
  <2>1. IsFiniteSet(Extra(t) \ {p}) /\ Cardinality(Extra(t) \ {p}) = Cardinality(Extra(t)) - 1
    BY <1>2, <1>3, FS_RemoveElement
  <2> QED BY <1>3, <2>1, FS_Subset
<1> QED BY <1>1, <1>3, CountedSet

LEMMA ExtraShrinks ==
    ASSUME NEW t, Extra(t)' \subseteq Extra(t)
    PROVE  /\ Cardinality(Extra(t)) \in Nat /\ Cardinality(Extra(t)') \in Nat
           /\ Cardinality(Extra(t)') <= Cardinality(Extra(t))
<1>1. IsFiniteSet(Extra(t))
  BY TaskConstants, FS_Subset DEF Extra
<1> QED BY <1>1, FS_Subset, FS_CardinalityType

\* The numbers of the account.
Numbers == Facts /\ lost \in Nat

LEMMA AccountStays ==
    ASSUME Numbers, Numbers', NEW t \in Tweets, NEW n \in {0, 1}, Account(t) <= Paid,
           sent'.received[t] = sent.received[t], Extra(t)' \subseteq Extra(t),
           Owed(t)' <= Owed(t) + n,
           lost <= lost', used'.created + used'.again >= used.created + used.again + n
    PROVE  Account(t)' <= Paid'
<1>1. /\ sent.received[t] \in Nat /\ sent'.received[t] \in Nat
      /\ used.created \in Nat /\ used'.created \in Nat /\ used.again \in Nat /\ used'.again \in Nat
      /\ lost \in Nat /\ lost' \in Nat
  BY MonitorConstants DEF Numbers, Facts
<1>2. /\ Cardinality(Extra(t)) \in Nat /\ Cardinality(Extra(t)') \in Nat
      /\ Cardinality(Extra(t)') <= Cardinality(Extra(t))
  BY ExtraShrinks
<1>3. Owed(t) \in Nat /\ Owed(t)' \in Nat
  BY OwedAtMost
<1>4. Account(t)' = sent'.received[t] + Cardinality(Extra(t)') + Owed(t)'
  BY DEF Account
<1>5. Paid' = used'.created + lost' + used'.again
  BY DEF Paid
<1> QED BY <1>1, <1>2, <1>3, <1>4, <1>5 DEF Account, Paid

-----------------------------------------------------------------------------
(* What the steps do to what is owed.                                      *)

\* Who has the lock, and what the others do, is left as it is.
Others(p) ==
    /\ Becomes(p, poller'[p])
    /\ \A q \in Processes : q # p => held'[q] = held[q]

\* What the other pollers are up to does not depend on p.
LEMMA OthersGoOn ==
    ASSUME NEW p \in Processes, Others(p), NEW t, Open(t)' => Open(t), Present' \subseteq Present,
           NEW q \in Processes, q # p
    PROVE  /\ Holds(q)' <=> Holds(q)
           /\ Brings(q, t)' => Brings(q, t)
           /\ Delivers(q, t)' <=> Delivers(q, t)
           /\ Strays(q)' => Strays(q)
           /\ q \in Extra(t)' => q \in Extra(t)
BY DEF Others, Becomes, Holds, Brings, Delivers, Strays, Extra, At, Busy, Leads

\* A poller brings no more than before, and nothing else changes that counts.
LEMMA QuietStep ==
    ASSUME NEW p \in Processes, Others(p), NEW t, UNCHANGED tweets, used'.posted = used.posted,
           Present' \subseteq Present, Wanted(t)' => Wanted(t),
           Holds(p)' /\ Strays(p)' => Holds(p) /\ Strays(p),
           Holds(p)' /\ Brings(p, t)' => Holds(p) /\ Brings(p, t),
           Holds(p)' /\ Delivers(p, t)' => Holds(p) /\ Delivers(p, t)
    PROVE  /\ Owed(t)' <= Owed(t)
           /\ Extra(t)' \subseteq Extra(t) \cup {p}
           /\ (p \in Extra(t)' => p \in Extra(t)) => Extra(t)' \subseteq Extra(t)
<1>0. Open(t)' => Open(t)
  BY DEF Open, Newest
<1>1. Elsewhere' => Elsewhere
  BY <1>0, OthersGoOn DEF Elsewhere
<1>2. Coming(t)' => Coming(t)
  BY <1>0, OthersGoOn DEF Coming
<1>3. Sure(t)' => Sure(t)
  BY <1>0, OthersGoOn DEF Sure
<1>4. Extra(t)' \subseteq Extra(t) \cup {p}
  <2>1. \A q \in Extra(t)' : q \in Processes
    BY DEF Extra
  <2> QED BY <1>0, <2>1, OthersGoOn
<1> QED BY <1>1, <1>2, <1>3, <1>4, OwedNoMore

\* The pollers are left alone, and no tweet is found that was not to be found before.
LEMMA PollersAsBefore ==
    ASSUME NEW t, UNCHANGED <<held, poller>>, Open(t)' => Open(t)
    PROVE  /\ Coming(t)' => Coming(t)
           /\ Sure(t)' <=> Sure(t)
           /\ Extra(t)' = Extra(t)
           /\ Present' \subseteq Present => (Elsewhere' => Elsewhere)
<1>1. \A p \in Processes : /\ Holds(p)' <=> Holds(p)
                           /\ Brings(p, t)' => Brings(p, t)
                           /\ Delivers(p, t)' <=> Delivers(p, t)
                           /\ p \in Extra(t)' <=> p \in Extra(t)
                           /\ Present' \subseteq Present => (Strays(p)' => Strays(p))
  BY DEF Holds, Brings, Delivers, Strays, Extra, At, Busy, Leads
<1>2. Extra(t)' = Extra(t)
  BY <1>1 DEF Extra
<1> QED BY <1>1, <1>2 DEF Coming, Sure, Elsewhere

\* A tweet that is posted is the newest.
LEMMA PostOpensNone ==
    ASSUME Facts, Facts', NEW t \in Tweets, Post
    PROVE  Open(t)' => Open(t)
<1>0. /\ used.posted \in Nat /\ used'.posted \in Nat /\ tweets' \in SUBSET (1 .. used'.posted)
      /\ t \in Nat
  BY MonitorConstants DEF Facts, Tweets
<1>1. used'.posted = used.posted + 1 /\ used.posted + 1 \in tweets'
  BY <1>0 DEF Post, Facts
<1>2. Max(tweets') \in tweets' /\ \A x \in tweets' : x <= Max(tweets')
  BY <1>0, <1>1, MaxExists
<1>3. PICK x : x = Max(tweets')
  OBVIOUS
<1>4. x \in 1 .. used'.posted /\ used.posted + 1 <= x
  BY <1>0, <1>1, <1>2, <1>3
<1>5. x = used.posted + 1
  BY <1>0, <1>1, <1>4
<1>6. Newest' = x
  BY <1>1, <1>3, Zenon DEF Newest
<1> QED BY <1>0, <1>1, <1>5, <1>6 DEF Open

LEMMA OwnerAccounts ==
    ASSUME Numbers, Numbers', OwnerStep, NEW t \in Tweets, Account(t) <= Paid
    PROVE  Account(t)' <= Paid'
<1>0. /\ UNCHANGED <<held, lost, poller, monitor, sent>> /\ lost \in Nat
      /\ Facts /\ Facts' /\ used \in UsedType
  BY DEF OwnerStep, Post, DeleteTweet, lockVars, Numbers, Facts, UsedType
<1>1. CASE Post
  <2>1. Open(t)' => Open(t)
    BY <1>0, <1>1, PostOpensNone
  <2>2. Wanted(t)' => Wanted(t)
    BY <1>0, <2>1 DEF Wanted, Present
  <2>3. Present' \subseteq Present
    BY <1>0 DEF Present
  <2>4. Owed(t)' <= Owed(t) /\ Extra(t)' = Extra(t)
    BY <1>0, <2>1, <2>2, <2>3, PollersAsBefore, OwedNoMore
  <2>5. used'.created = used.created /\ used'.again = used.again
    BY <1>0, <1>1 DEF Post, UsedType
  <2>6. Owed(t)' <= Owed(t) + 0 /\ used'.created + used'.again >= used.created + used.again + 0
    <3>1. used.created \in Nat /\ used.again \in Nat /\ Owed(t) \in Nat
      BY <1>0, OwedAtMost, MonitorConstants DEF UsedType
    <3> QED BY <2>4, <2>5, <3>1
  <2> QED BY <1>0, <2>4, <2>6, AccountStays
<1>2. CASE DeleteTweet
  <2>1. /\ used'.created = used.created /\ used'.again = used.again + 1
    BY <1>0, <1>2 DEF DeleteTweet, UsedType
  <2>2. \A p \in Processes : /\ Holds(p)' <=> Holds(p)
                             /\ Delivers(p, t)' <=> Delivers(p, t)
                             /\ Strays(p)' <=> Strays(p)
                             /\ p \in Extra(t)' <=> p \in Extra(t)
    BY <1>0 DEF Holds, Delivers, Strays, Extra, At, Busy, Leads, Present
  <2>3. (Elsewhere' => Elsewhere) /\ (Sure(t)' => Sure(t)) /\ Extra(t)' \subseteq Extra(t)
    BY <2>2 DEF Elsewhere, Sure, Extra
  <2>4. Owed(t)' <= Owed(t) + 1
    BY <2>3, OwedOnceMore
  <2>5. used'.created + used'.again >= used.created + used.again + 1
    <3>1. used.created \in Nat /\ used.again \in Nat
      BY <1>0, MonitorConstants DEF UsedType
    <3> QED BY <2>1, <3>1
  <2> QED BY <1>0, <2>3, <2>4, <2>5, AccountStays
<1> QED BY <1>1, <1>2 DEF OwnerStep

LEMMA UserAccounts ==
    ASSUME Numbers, Numbers', UserStep, NEW t \in Tweets, Account(t) <= Paid
    PROVE  Account(t)' <= Paid'
<1>0. /\ UNCHANGED <<held, lost, poller, tweets>> /\ lost \in Nat
      /\ Facts /\ Facts' /\ used \in UsedType /\ used.created \in Nat /\ used.again \in Nat
      /\ monitor \in [Monitors -> KnownRow]
      /\ Owed(t) \in Nat
  BY OwedAtMost, MonitorConstants
     DEF UserStep, Create, FindExisting, SaveExisting, Disable, Delete, lockVars, Numbers, Facts, UsedType
<1>1. used'.posted = used.posted
  BY <1>0 DEF UserStep, Create, FindExisting, SaveExisting, Disable, Delete, Trouble, UsedType
<1>2. /\ Open(t)' = Open(t) /\ (Coming(t)' => Coming(t)) /\ (Sure(t)' => Sure(t))
      /\ Extra(t)' \subseteq Extra(t)
      /\ Present' \subseteq Present => (Elsewhere' => Elsewhere)
  <2>1. Open(t)' = Open(t)
    BY <1>0, <1>1 DEF Open, Newest
  <2> QED BY <1>0, <2>1, PollersAsBefore
<1>3. \A q \in Processes : Strays(q) => Present # {}
  BY DEF Strays
<1>4. ASSUME Present = {}, UNCHANGED sent, used'.created + used'.again >= used.created + used.again + 1
      PROVE  Account(t)' <= Paid'
  <2>1. ~Elsewhere /\ ~Wanted(t)
    BY <1>3, <1>4 DEF Elsewhere, Wanted
  <2>2. Owed(t)' <= Owed(t) + 1
    BY <1>2, <2>1, OwedOnceMore
  <2> QED BY <1>0, <1>2, <1>4, <2>2, AccountStays
<1>5. ASSUME sent'.received = sent.received, used'.created = used.created, used'.again = used.again,
             Present' \subseteq Present, \A m \in Present' : monitor'[m].seen = monitor[m].seen
      PROVE  Account(t)' <= Paid'
  <2>1. Wanted(t)' => Wanted(t)
    BY <1>2, <1>5 DEF Wanted
  <2>2. Owed(t)' <= Owed(t)
    BY <1>2, <1>5, <2>1, OwedNoMore
  <2>3. Owed(t)' <= Owed(t) + 0 /\ used'.created + used'.again >= used.created + used.again + 0
    BY <1>0, <1>5, <2>2
  <2> QED BY <1>0, <1>2, <1>5, <2>3, AccountStays
<1>6. CASE Create
  <2>1. /\ Present = {} /\ UNCHANGED sent /\ used'.created = used.created + 1 /\ used'.again = used.again
    BY <1>0, <1>6 DEF Create, UsedType
  <2> QED BY <1>0, <1>4, <2>1
<1>7. CASE FindExisting
  <2>1. UNCHANGED <<monitor, sent>> /\ used'.created = used.created /\ used'.again = used.again
    BY <1>0, <1>7 DEF FindExisting, Trouble, UsedType
  <2>2. Present' = Present
    BY <2>1 DEF Present
  <2> QED BY <1>5, <2>1, <2>2
<1>8. CASE Disable
  <2>1. PICK m \in Enabled : monitor' = [monitor EXCEPT ![m].status = "disabled"]
    BY <1>8 DEF Disable
  <2>2. UNCHANGED <<used, sent>>
    BY <1>8 DEF Disable
  <2>3. m \in Present /\ [monitor[m] EXCEPT !.status = "disabled"].seen = monitor[m].seen
    BY <1>0, <2>1 DEF Enabled, Present, KnownRow
  <2>4. \A n \in Monitors : monitor'[n].seen = monitor[n].seen
    BY <1>0, <2>1, <2>3 DEF Enabled
  <2>5. Present' \subseteq Present
    BY <1>0, <2>1, <2>3 DEF Present, Enabled
  <2> QED BY <1>5, <2>2, <2>4, <2>5 DEF Present
<1>9. CASE Delete
  <2>1. PICK m \in Present : monitor' = [monitor EXCEPT ![m] = Absent]
    BY <1>9 DEF Delete
  <2>2. UNCHANGED <<used, sent>>
    BY <1>9 DEF Delete
  <2>3. \A n \in Present' : n \in Present /\ monitor'[n].seen = monitor[n].seen
    BY <1>0, <2>1 DEF Present, Absent
  <2> QED BY <1>5, <2>2, <2>3
<1>10. CASE SaveExisting
  <2>1. CASE UNCHANGED <<monitor, used, sent>>
    <3>1. Present' = Present
      BY <2>1 DEF Present
    <3> QED BY <1>5, <2>1, <3>1
  <2>2. CASE ~UNCHANGED <<monitor, used, sent>>
    <3>1. PICK m : m = request.monitor
      OBVIOUS
    <3>2. PICK x : monitor' = [monitor EXCEPT ![m] = x] /\ x.seen = request.row.seen
      <4>1. PICK status \in {request.row.status, "enabled"}, event \in EventTypes :
              monitor' = [monitor EXCEPT ![m] = [status |-> status, seen |-> request.row.seen, event |-> event]]
        BY <1>10, <2>2, <3>1 DEF SaveExisting
      <4>2. PICK x : x = [status |-> status, seen |-> request.row.seen, event |-> event]
        OBVIOUS
      <4>3. x.seen = request.row.seen
        BY <4>2
      <4>4. monitor' = [monitor EXCEPT ![m] = x]
        BY <4>1, <4>2
      <4> QED BY <4>3, <4>4, Zenon
    <3>3. /\ Present \subseteq {m}
          /\ used' = [used EXCEPT !.again = IF m \in Present /\ request.row.seen = monitor[m].seen
                                            THEN @ ELSE @ + 1]
          /\ sent' = [sent EXCEPT !.late[m] = 0]
      BY <1>10, <2>2, <3>1 DEF SaveExisting
    <3>4. sent'.received = sent.received /\ used'.created = used.created
      BY <1>0, <3>3 DEF Facts, UsedType
    <3>5. \A n \in Present' : n = m
      BY <1>0, <3>2, <3>3 DEF Present
    <3>6. CASE m \in Present /\ request.row.seen = monitor[m].seen
      <4>1. used'.again = used.again
        BY <1>0, <3>3, <3>6 DEF UsedType
      <4>2. \A n \in Present' : n \in Present /\ monitor'[n].seen = monitor[n].seen
        BY <1>0, <3>2, <3>5, <3>6 DEF Present
      <4> QED BY <1>5, <3>4, <4>1, <4>2
    <3>7. CASE ~(m \in Present /\ request.row.seen = monitor[m].seen)
      <4>1. used'.again = used.again + 1
        BY <1>0, <3>3, <3>7 DEF UsedType
      <4>2. used'.created + used'.again >= used.created + used.again + 1
        BY <1>0, <3>4, <4>1
      <4>3. \/ (Elsewhere' => Elsewhere) /\ (Sure(t)' => Sure(t))
            \/ ~Elsewhere /\ ~Wanted(t) /\ (Coming(t)' => Coming(t)) /\ (Sure(t)' => Sure(t))
        <5>1. CASE m \in Present
          <6>1. Present' \subseteq Present
            BY <3>5, <5>1
          <6> QED BY <1>2, <6>1
        <5>2. CASE m \notin Present
          <6>1. Present = {}
            BY <3>3, <5>2
          <6> QED BY <1>2, <1>3, <6>1 DEF Elsewhere, Wanted
        <5> QED BY <5>1, <5>2
      <4>4. Owed(t)' <= Owed(t) + 1
        BY <4>3, OwedOnceMore
      <4> QED BY <1>0, <1>2, <3>4, <4>2, <4>4, AccountStays
    <3> QED BY <3>6, <3>7
  <2> QED BY <2>1, <2>2
<1> QED BY <1>6, <1>7, <1>8, <1>9, <1>10 DEF UserStep

\* The poller with the lock is the only one, before a step that leaves the lock alone and
\* after it.
LEMMA HolderCounts ==
    ASSUME OneHolder, NEW p \in Processes, Holds(p), NEW t
    PROVE  /\ Coming(t) <=> Brings(p, t)
           /\ Sure(t) <=> Delivers(p, t)
           /\ Elsewhere <=> Strays(p)
           /\ UNCHANGED held => /\ Coming(t)' <=> Brings(p, t)'
                                /\ Sure(t)' <=> Delivers(p, t)'
                                /\ Elsewhere' <=> Strays(p)'
<1>1. \A q \in Processes : Holds(q) <=> q = p
  BY DEF OneHolder, Holds
<1>2. UNCHANGED held => \A q \in Processes : Holds(q)' <=> q = p
  BY <1>1 DEF Holds
<1> QED BY <1>1, <1>2 DEF Coming, Sure, Elsewhere

\* A poller posts no tweet, saves no row again and creates no monitor.
LEMMA PollerCosts ==
    ASSUME Facts, Types, OneHolder, NEW p \in Processes,
           Lead(p) \/ CycleStep(p) \/ FaultStep(p) \/ Restart(p)
    PROVE  /\ Others(p) /\ lost' = lost /\ UNCHANGED tweets
           /\ used'.posted = used.posted /\ used'.created = used.created /\ used'.again = used.again
           /\ Lead(p) => Holds(p)'
           /\ Release(p) \/ Crash(p) \/ Lead(p) \/ UNCHANGED held
<1>1. Becomes(p, poller'[p])
  BY PollerFacts
<1>2. UNCHANGED tweets /\ (UNCHANGED used \/ used' = [used EXCEPT !.troubles = @ + 1])
  BY DEF Lead, CycleStep, FaultStep, Restart, FindEnabled, ReadTweets, UpdateLastSeen, Deliver,
         Record, Release, CheckRejects, Crash, Trouble
<1>3. used'.posted = used.posted /\ used'.created = used.created /\ used'.again = used.again
  BY <1>2 DEF Facts
<1>4. CASE Lead(p)
  <2>1. Touches(p) /\ Holds(p)' /\ lost' = lost
    BY <1>4, TakeTouches DEF Lead
  <2> QED BY <1>1, <1>2, <1>3, <1>4, <2>1 DEF Others, Touches
<1>5. CASE ~Lead(p) /\ (Release(p) \/ Crash(p))
  <2>1. Touches(p) /\ lost' = lost
    BY <1>5, GiveBackTouches, EndTouches DEF Release, Crash
  <2> QED BY <1>1, <1>2, <1>3, <1>5, <2>1 DEF Others, Touches
<1>6. CASE UNCHANGED lockVars /\ ~Lead(p)
  BY <1>1, <1>2, <1>3, <1>6 DEF Others, lockVars
<1> QED BY <1>4, <1>5, <1>6
        DEF CycleStep, FaultStep, Restart, FindEnabled, ReadTweets, UpdateLastSeen, Deliver,
            Record, CheckRejects

\* The account after a step that costs nothing.
LEMMA FreeStep ==
    ASSUME Numbers, Numbers', NEW t \in Tweets, Account(t) <= Paid,
           lost' = lost, used'.created = used.created, used'.again = used.again,
           sent'.received[t] = sent.received[t],
           Owed(t)' <= Owed(t), Extra(t)' \subseteq Extra(t)
    PROVE  Account(t)' <= Paid'
<1>1. used.created \in Nat /\ used.again \in Nat /\ lost \in Nat /\ Owed(t) \in Nat
  BY OwedAtMost, MonitorConstants DEF Numbers, Facts
<1>2. Owed(t)' <= Owed(t) + 0 /\ lost <= lost' /\ used'.created + used'.again >= used.created + used.again + 0
  BY <1>1
<1> QED BY <1>2, AccountStays

\* Poller p is done with its monitor, or has just got the lock.
LEMMA CycleOver ==
    ASSUME Numbers, Numbers', Types, OneHolder, NEW p \in Processes, NEW t \in Tweets, Account(t) <= Paid,
           Lead(p) \/ CycleStep(p) \/ FaultStep(p) \/ Restart(p),
           UNCHANGED <<monitor, sent>>, ~Busy(p)',
           poller'[p].phase = "list" => Holds(p)'
    PROVE  Account(t)' <= Paid'
<1>1. /\ Others(p) /\ lost' = lost /\ UNCHANGED tweets
      /\ used'.posted = used.posted /\ used'.created = used.created /\ used'.again = used.again
  BY PollerCosts DEF Numbers
<1>2. Present' \subseteq Present /\ (Wanted(t)' => Wanted(t))
  BY <1>1 DEF Present, Wanted, Open, Newest
<1>3. ~Strays(p)' /\ ~Brings(p, t)' /\ ~Delivers(p, t)' /\ p \notin Extra(t)'
  BY DEF Strays, Brings, Delivers, Extra, Busy, At, Leads
<1>4. Owed(t)' <= Owed(t) /\ Extra(t)' \subseteq Extra(t)
  BY <1>1, <1>2, <1>3, QuietStep
<1> QED BY <1>1, <1>4, FreeStep

LEMMA FindAccounts ==
    ASSUME Numbers, Numbers', Types, OneHolder, NEW p \in Processes, NEW t \in Tweets, Account(t) <= Paid,
           FindEnabled(p)
    PROVE  Account(t)' <= Paid'
<1>1. /\ Others(p) /\ lost' = lost /\ UNCHANGED tweets
      /\ used'.posted = used.posted /\ used'.created = used.created /\ used'.again = used.again
  BY PollerCosts DEF Numbers, CycleStep
<1>2. UNCHANGED <<held, monitor, sent>> /\ At(p, "list") /\ Facts
  BY DEF FindEnabled, lockVars, Numbers
<1>3. CASE Leave(p)
  <2>1. poller'[p].phase = "release"
    BY <1>2, <1>3, LeaveBecomes DEF Leave, Phase
  <2> QED BY <1>2, <2>1, CycleOver DEF Busy, CycleStep
<1>4. CASE ~Leave(p)
  <2>1. PICK m \in Enabled :
          poller' = [poller EXCEPT ![p] = [phase |-> "read", monitor |-> m,
                                           row |-> monitor[m], tweet |-> NoTweet]]
    BY <1>4 DEF FindEnabled
  <2>2. poller'[p].phase = "read" /\ poller'[p].monitor = m /\ poller'[p].row = monitor[m]
    BY <1>2, <2>1, FindBecomes
  <2>3. Present' = Present /\ (Wanted(t)' <=> Wanted(t)) /\ m \in Present /\ \A n \in Present : n = m
    BY <1>1, <1>2 DEF Present, Enabled, Wanted, Open, Newest, Facts
  <2>4. ~Strays(p)' /\ ~Delivers(p, t)'
    BY <2>2, <2>3 DEF Strays, Delivers, At
  <2>5. p \in Extra(t)' => p \in Extra(t)
    BY <1>2 DEF Extra, Holds, At, Leads
  <2>6. CASE Holds(p)
    <3>1. ~Elsewhere' /\ ~Sure(t)' /\ (Coming(t)' => Brings(p, t)')
      BY <1>2, <2>4, <2>6, HolderCounts
    <3>2. Brings(p, t)' => Wanted(t)
      BY <1>1, <1>2, <2>2, <2>3 DEF Brings, Delivers, At, Wanted, Open, Newest
    <3>3. Owed(t)' <= Owed(t)
      BY <2>3, <3>1, <3>2, OwedOnce
    <3>4. \A q \in Processes : q # p => (q \in Extra(t)' => q \in Extra(t))
      BY <1>1, <2>3, OthersGoOn DEF Open, Newest
    <3>5. Extra(t)' \subseteq Extra(t)
      BY <2>5, <3>4 DEF Extra
    <3> QED BY <1>1, <1>2, <3>3, <3>5, FreeStep
  <2>7. CASE ~Holds(p)
    <3>1. ~Holds(p)'
      BY <1>2, <2>7 DEF Holds
    <3>2. Owed(t)' <= Owed(t) /\ Extra(t)' \subseteq Extra(t)
      BY <1>1, <2>3, <2>5, <3>1, QuietStep
    <3> QED BY <1>1, <1>2, <3>2, FreeStep
  <2> QED BY <2>6, <2>7
<1> QED BY <1>3, <1>4

LEMMA ReadAccounts ==
    ASSUME Numbers, Numbers', Types, OneHolder, NEW p \in Processes, NEW t \in Tweets, Account(t) <= Paid,
           ReadTweets(p)
    PROVE  Account(t)' <= Paid'
<1>1. /\ Others(p) /\ lost' = lost /\ UNCHANGED tweets
      /\ used'.posted = used.posted /\ used'.created = used.created /\ used'.again = used.again
  BY PollerCosts DEF Numbers, CycleStep
<1>2. UNCHANGED <<held, monitor, sent>> /\ At(p, "read") /\ Facts
  BY DEF ReadTweets, lockVars, Numbers
<1>3. CASE Leave(p)
  <2>1. poller'[p].phase = "release"
    BY <1>2, <1>3, LeaveBecomes DEF Leave, Phase
  <2> QED BY <1>2, <2>1, CycleOver DEF Busy, CycleStep
<1>4. CASE ~Leave(p)
  <2>1. poller' = [poller EXCEPT ![p].phase = "see", ![p].tweet = Newest] /\ Newest # poller[p].row.seen
    BY <1>4 DEF ReadTweets, IsNew
  <2>2. /\ poller'[p].phase = "see" /\ poller'[p].tweet = Newest /\ poller'[p].monitor = poller[p].monitor
    BY <1>2, <2>1, ReadBecomes
  <2>3. Present' = Present /\ (Wanted(t)' <=> Wanted(t)) /\ (Open(t)' <=> Open(t))
    BY <1>1, <1>2 DEF Present, Wanted, Open, Newest
  <2>4. Brings(p, t)' => Brings(p, t)
    <3>1. Brings(p, t)' => Open(t)
      BY <2>2, <2>3 DEF Brings, Delivers, At, Open
    <3>2. Open(t) => poller[p].row.seen # t
      <4>1. poller[p].row.seen \in 0 .. used.posted /\ used.posted \in Nat
        BY <1>2, MonitorConstants DEF Facts, KnownPoller, KnownRow
      <4> QED BY <2>1, <4>1 DEF Open
    <3> QED BY <1>2, <3>1, <3>2 DEF Brings
  <2>5. (Strays(p)' => Strays(p)) /\ ~Delivers(p, t)'
    BY <1>2, <2>2, <2>3 DEF Strays, Delivers, Busy, At
  <2>6. (Holds(p)' <=> Holds(p)) /\ (p \in Extra(t)' => p \in Extra(t))
    BY <1>2 DEF Extra, Holds, At, Leads
  <2>7. Owed(t)' <= Owed(t) /\ Extra(t)' \subseteq Extra(t)
    BY <1>1, <2>3, <2>4, <2>5, <2>6, QuietStep
  <2> QED BY <1>1, <1>2, <2>7, FreeStep
<1> QED BY <1>3, <1>4

LEMMA SeeAccounts ==
    ASSUME Numbers, Numbers', Types, OneHolder, NEW p \in Processes, NEW t \in Tweets, Account(t) <= Paid,
           UpdateLastSeen(p)
    PROVE  Account(t)' <= Paid'
<1>0. PICK m, x : m = poller[p].monitor /\ x = poller[p].tweet
  OBVIOUS
<1>1. /\ Others(p) /\ lost' = lost /\ UNCHANGED tweets
      /\ used'.posted = used.posted /\ used'.created = used.created /\ used'.again = used.again
  BY PollerCosts DEF Numbers, CycleStep
<1>2. UNCHANGED <<held, sent>> /\ At(p, "see") /\ Facts /\ monitor \in [Monitors -> KnownRow]
  BY DEF UpdateLastSeen, lockVars, Numbers, Facts
<1>3. /\ Present' = Present
      /\ \A n \in Present : monitor'[n].seen = IF n = m THEN x ELSE monitor[n].seen
  <2>1. monitor' = [n \in Monitors |-> IF n = m /\ n \in Present THEN [monitor[n] EXCEPT !.seen = x]
                                       ELSE monitor[n]]
    BY <1>0 DEF UpdateLastSeen
  <2>2. ASSUME NEW n \in Monitors
        PROVE  /\ [monitor[n] EXCEPT !.seen = x].status = monitor[n].status
               /\ [monitor[n] EXCEPT !.seen = x].seen = x
    BY <1>2 DEF KnownRow
  <2>3. \A n \in Monitors : monitor'[n].status = monitor[n].status
    BY <2>1, <2>2
  <2>4. Present' = Present
    BY <2>3 DEF Present
  <2>5. \A n \in Present : n \in Monitors
    BY DEF Present
  <2> QED BY <2>1, <2>2, <2>4, <2>5
<1>4. (Open(t)' <=> Open(t)) /\ (Holds(p)' <=> Holds(p))
  BY <1>1, <1>2 DEF Open, Newest, Holds
<1>5. Wanted(t)' => Wanted(t) \/ (x # t /\ Open(t))
  BY <1>3, <1>4 DEF Wanted
<1>6. \/ poller'[p].phase = "release"
      \/ /\ poller'[p].phase = "deliver" /\ poller'[p].monitor = m /\ poller'[p].tweet = x
  <2>1. CASE Leave(p)
    BY <1>2, <2>1, LeaveBecomes DEF Leave, Phase
  <2>2. CASE Goto(p, "deliver")
    BY <1>0, <1>2, <2>2, GotoBecomes DEF Phase
  <2> QED BY <2>1, <2>2 DEF UpdateLastSeen
<1>7. /\ Brings(p, t) <=> (x = t \/ Open(t))
      /\ ~Delivers(p, t)
      /\ Strays(p) <=> \E n \in Present : n # m
  BY <1>0, <1>2 DEF Brings, Delivers, At, Strays, Busy
<1>8. /\ poller'[p].phase = "release" => ~Brings(p, t)' /\ ~Delivers(p, t)' /\ ~Strays(p)'
      /\ poller'[p].phase = "deliver" => /\ Brings(p, t)' <=> x = t
                                         /\ Delivers(p, t)' <=> x = t
                                         /\ Strays(p)' <=> Strays(p)
  BY <1>3, <1>6, <1>7 DEF Brings, Delivers, At, Strays, Busy
<1>9. \A q \in Processes : q # p => (q \in Extra(t)' => q \in Extra(t))
  BY <1>1, <1>3, <1>4, OthersGoOn
<1>10. CASE Holds(p)
  <2>1. /\ Coming(t) <=> x = t \/ Open(t)
        /\ ~Sure(t)
        /\ Elsewhere <=> Strays(p)
        /\ Coming(t)' <=> Brings(p, t)'
        /\ Sure(t)' <=> Delivers(p, t)'
        /\ Elsewhere' <=> Strays(p)'
    BY <1>2, <1>7, <1>10, HolderCounts
  <2>2. CASE x = t
    <3>1. ~Elsewhere => ~Wanted(t)'
      BY <1>3, <1>7, <2>1, <2>2 DEF Wanted
    <3>2. Coming(t) /\ (Elsewhere' => Elsewhere) /\ (Coming(t)' <=> Sure(t)')
      BY <1>6, <1>8, <2>1, <2>2
    <3>3. Owed(t)' <= Owed(t)
      BY <2>1, <3>1, <3>2 DEF Owed, One
    <3>4. Extra(t)' \subseteq Extra(t)
      BY <1>4, <1>9, <1>10 DEF Extra
    <3> QED BY <1>1, <1>2, <3>3, <3>4, FreeStep
  <2>3. CASE x # t
    <3>1. ~Sure(t)' /\ ~Coming(t)' /\ (Elsewhere' => Elsewhere) /\ (Wanted(t)' => Wanted(t) \/ Coming(t))
      BY <1>5, <1>6, <1>8, <2>1, <2>3
    <3>2. Owed(t)' <= Owed(t)
      BY <2>1, <3>1 DEF Owed, One
    <3>3. Extra(t)' \subseteq Extra(t)
      BY <1>4, <1>9, <1>10 DEF Extra
    <3> QED BY <1>1, <1>2, <3>2, <3>3, FreeStep
  <2> QED BY <2>2, <2>3
<1>11. CASE ~Holds(p)
  <2>1. p \in Extra(t)
    BY <1>2, <1>11 DEF Extra, At, Leads
  <2>2. CASE x = t
    <3>1. Wanted(t)' => Wanted(t)
      BY <1>5, <2>2
    <3>2. Owed(t)' <= Owed(t) /\ Extra(t)' \subseteq Extra(t)
      BY <1>1, <1>3, <1>4, <1>11, <2>1, <3>1, QuietStep
    <3> QED BY <1>1, <1>2, <3>2, FreeStep
  <2>3. CASE x # t
    <3>1. p \notin Extra(t)'
      BY <1>6, <1>8, <2>3 DEF Extra
    <3>2. Extra(t)' \subseteq Extra(t) \ {p}
      BY <1>9, <3>1 DEF Extra
    <3>3. /\ Cardinality(Extra(t)) \in Nat /\ Cardinality(Extra(t)') \in Nat
          /\ Cardinality(Extra(t)') <= Cardinality(Extra(t)) - 1
      BY <2>1, <3>2, ExtraCounted
    <3>4. (Elsewhere' => Elsewhere) /\ (Sure(t)' => Sure(t))
      BY <1>1, <1>3, <1>4, <1>11, OthersGoOn DEF Elsewhere, Sure
    <3>5. Owed(t)' <= Owed(t) + 1
      BY <3>4, OwedOnceMore
    <3>6. Owed(t) \in Nat /\ Owed(t)' \in Nat
      BY OwedAtMost
    <3>7. /\ sent.received[t] \in Nat /\ sent'.received[t] = sent.received[t]
          /\ used.created \in Nat /\ used.again \in Nat /\ lost \in Nat
      BY <1>2, MonitorConstants DEF Numbers, Facts
    <3>8. Account(t)' = sent'.received[t] + Cardinality(Extra(t)') + Owed(t)'
      BY DEF Account
    <3>9. Paid' = Paid
      BY <1>1 DEF Paid
    <3> QED BY <3>3, <3>5, <3>6, <3>7, <3>8, <3>9 DEF Account, Paid
  <2> QED BY <2>2, <2>3
<1> QED BY <1>10, <1>11

LEMMA DeliverAccounts ==
    ASSUME Numbers, Numbers', Types, OneHolder, NEW p \in Processes, NEW t \in Tweets, Account(t) <= Paid,
           Deliver(p)
    PROVE  Account(t)' <= Paid'
<1>1. /\ Others(p) /\ lost' = lost /\ UNCHANGED tweets
      /\ used'.posted = used.posted /\ used'.created = used.created /\ used'.again = used.again
  BY PollerCosts DEF Numbers, CycleStep
<1>2. UNCHANGED <<held, monitor>> /\ At(p, "deliver") /\ Facts
  BY DEF Deliver, lockVars, Numbers
<1>3. poller'[p].phase = "record"
  BY <1>2, GotoBecomes DEF Deliver, Phase
<1>4. ~Strays(p)' /\ ~Brings(p, t)' /\ ~Delivers(p, t)' /\ p \notin Extra(t)'
  BY <1>3 DEF Strays, Brings, Delivers, Extra, Busy, At
<1>5. Present' = Present /\ (Wanted(t)' <=> Wanted(t)) /\ (Holds(p)' <=> Holds(p))
  BY <1>1, <1>2 DEF Present, Wanted, Open, Newest, Holds
<1>6. Owed(t)' <= Owed(t) /\ Extra(t)' \subseteq Extra(t)
  BY <1>1, <1>4, <1>5, QuietStep
<1>7. PICK arrives \in {0, 1} :
         sent'.received[t] = IF t = poller[p].tweet THEN sent.received[t] + arrives ELSE sent.received[t]
  BY <1>2, DeliverSends
<1>8. /\ sent.received[t] \in Nat /\ Owed(t) \in Nat /\ Owed(t)' \in Nat
      /\ used.created \in Nat /\ used.again \in Nat /\ lost \in Nat
  BY OwedAtMost, MonitorConstants DEF Numbers, Facts
<1>9. Account(t)' = sent'.received[t] + Cardinality(Extra(t)') + Owed(t)'
  BY DEF Account
<1>10. Paid' = Paid
  BY <1>1 DEF Paid
<1>11. CASE t # poller[p].tweet
  BY <1>1, <1>6, <1>7, <1>11, FreeStep
<1>12. CASE t = poller[p].tweet
  <2>1. Delivers(p, t)
    BY <1>2, <1>12 DEF Delivers
  <2>2. CASE Holds(p)
    <3>1. Sure(t) /\ ~Elsewhere' /\ ~Sure(t)' /\ ~Coming(t)'
      BY <1>2, <1>4, <2>1, <2>2, HolderCounts
    <3>2. Coming(t)
      BY <3>1, SureComes
    <3>3. Owed(t)' + 1 <= Owed(t)
      BY <1>5, <3>1, <3>2 DEF Owed, One
    <3>4. /\ Cardinality(Extra(t)) \in Nat /\ Cardinality(Extra(t)') \in Nat
          /\ Cardinality(Extra(t)') <= Cardinality(Extra(t))
      BY <1>6, ExtraShrinks
    <3> QED BY <1>7, <1>8, <1>9, <1>10, <3>3, <3>4 DEF Account, Paid
  <2>3. CASE ~Holds(p)
    <3>1. p \in Extra(t)
      BY <1>2, <2>1, <2>3 DEF Extra, At, Leads
    <3>2. /\ Cardinality(Extra(t)) \in Nat /\ Cardinality(Extra(t)') \in Nat
          /\ Cardinality(Extra(t)') <= Cardinality(Extra(t)) - 1
      BY <1>4, <1>6, <3>1, ExtraCounted
    <3> QED BY <1>6, <1>7, <1>8, <1>9, <1>10, <3>2 DEF Account, Paid
  <2> QED BY <2>2, <2>3
<1> QED BY <1>11, <1>12

LEMMA CloseAccounts ==
    ASSUME Numbers, Numbers', Types, OneHolder, NEW p \in Processes, NEW t \in Tweets, Account(t) <= Paid,
           IdleSessionCloses(p)
    PROVE  Account(t)' <= Paid'
<1>1. UNCHANGED <<tweets, monitor, poller, used, sent>> /\ Facts
  BY DEF IdleSessionCloses, monitorVars, Numbers
<1>2. PICK s \in Sessions : SessionCloses(p, s, Leads(p))
  BY DEF IdleSessionCloses
<1>3. Leads(p) \in BOOLEAN
  BY DEF Leads
<1>4. Touches(p) /\ lost' = IF Leads(p) THEN lost + 1 ELSE lost
  BY <1>2, <1>3, CloseTouches
<1>5. held' = [held EXCEPT ![p][s] = 0]
  BY <1>2 DEF SessionCloses
<1>6. Holds(p)' => Holds(p)
  <2>1. \A r \in Sessions : held'[p][r] > 0 => held[p][r] > 0
    BY <1>5 DEF Types
  <2> QED BY <2>1 DEF Holds
<1>7. Others(p)
  BY <1>1, <1>4 DEF Others, Touches, Becomes, Facts
<1>8. /\ Present' = Present /\ (Wanted(t)' <=> Wanted(t)) /\ (Strays(p)' <=> Strays(p))
      /\ (Brings(p, t)' <=> Brings(p, t)) /\ (Delivers(p, t)' <=> Delivers(p, t))
  BY <1>1 DEF Present, Wanted, Open, Newest, Strays, Brings, Delivers, At, Busy
<1>9. /\ Owed(t)' <= Owed(t) /\ Extra(t)' \subseteq Extra(t) \cup {p}
      /\ (p \in Extra(t)' => p \in Extra(t)) => Extra(t)' \subseteq Extra(t)
  BY <1>1, <1>6, <1>7, <1>8, QuietStep
<1>10. CASE Leads(p)
  <2>1. /\ Cardinality(Extra(t)) \in Nat /\ Cardinality(Extra(t)') \in Nat
        /\ Cardinality(Extra(t)') <= Cardinality(Extra(t)) + 1
    BY <1>9, ExtraCounted
  <2>2. /\ sent.received[t] \in Nat /\ Owed(t) \in Nat /\ Owed(t)' \in Nat
        /\ used.created \in Nat /\ used.again \in Nat /\ lost \in Nat
    BY OwedAtMost, MonitorConstants DEF Numbers, Facts
  <2>3. Account(t)' = sent.received[t] + Cardinality(Extra(t)') + Owed(t)'
    BY <1>1 DEF Account
  <2>4. Paid' = used.created + (lost + 1) + used.again
    BY <1>1, <1>4, <1>10 DEF Paid
  <2> QED BY <1>9, <2>1, <2>2, <2>3, <2>4 DEF Account, Paid
<1>11. CASE ~Leads(p)
  <2>1. p \notin Extra(t)'
    BY <1>1, <1>11 DEF Extra, Leads
  <2> QED BY <1>1, <1>4, <1>9, <1>11, <2>1, FreeStep
<1> QED BY <1>10, <1>11

\* The monitors, the pollers and the locks of those that lead are left alone.
LEMMA RestAccounts ==
    ASSUME Numbers, Numbers', NEW t \in Tweets, Account(t) <= Paid, MonitorIsLeft, lost <= lost',
           UNCHANGED held \/ \A p \in Processes : ~Leads(p)
    PROVE  Account(t)' <= Paid'
<1>1. Open(t)' = Open(t) /\ Present' = Present /\ (Wanted(t)' <=> Wanted(t))
  BY DEF MonitorIsLeft, Open, Newest, Present, Wanted
<1>2. \A p \in Processes : /\ Brings(p, t)' <=> Brings(p, t)
                           /\ Delivers(p, t)' <=> Delivers(p, t)
                           /\ Strays(p)' <=> Strays(p)
                           /\ Leads(p)' <=> Leads(p)
                           /\ Brings(p, t) \/ Delivers(p, t) \/ Strays(p) => Leads(p)
                           /\ Leads(p) => (Holds(p)' <=> Holds(p))
  BY <1>1 DEF MonitorIsLeft, Brings, Delivers, Strays, Busy, At, Leads, Holds
<1>3. /\ Elsewhere' => Elsewhere
      /\ Coming(t)' => Coming(t)
      /\ Sure(t)' => Sure(t)
  BY <1>2 DEF Elsewhere, Coming, Sure
<1>4. Extra(t)' \subseteq Extra(t)
  BY <1>2 DEF Extra, MonitorIsLeft
<1>5. Owed(t)' <= Owed(t)
  BY <1>1, <1>3, OwedNoMore
<1>6. used' = used /\ sent' = sent /\ used.created \in Nat /\ used.again \in Nat /\ Owed(t) \in Nat
  BY OwedAtMost, MonitorConstants DEF MonitorIsLeft, Numbers, Facts
<1>7. Owed(t)' <= Owed(t) + 0 /\ used'.created + used'.again >= used.created + used.again + 0
  BY <1>5, <1>6
<1> QED BY <1>4, <1>6, <1>7, AccountStays

LEMMA PollerAccounts ==
    ASSUME Numbers, Numbers', Types, OneHolder, NEW p \in Processes, NEW t \in Tweets, Account(t) <= Paid,
           Lead(p) \/ CycleStep(p) \/ FaultStep(p) \/ Restart(p)
    PROVE  Account(t)' <= Paid'
<1> USE DEF Phase
<1>0. Facts
  BY DEF Numbers
<1>1. CASE Lead(p)
  <2>1. Holds(p)' /\ poller'[p].phase = "list" /\ UNCHANGED <<monitor, sent>>
    BY <1>0, <1>1, PollerCosts, GotoBecomes DEF Lead
  <2> QED BY <1>1, <2>1, CycleOver DEF Busy
<1>2. ASSUME NEW phase \in {"idle", "release", "down"}, poller'[p].phase = phase,
             UNCHANGED <<monitor, sent>>
      PROVE  Account(t)' <= Paid'
  BY <1>2, CycleOver DEF Busy
<1>3. CASE Restart(p)
  BY <1>0, <1>2, <1>3, GotoBecomes DEF Restart
<1>4. CASE Record(p) \/ FaultStep(p)
  BY <1>0, <1>2, <1>4, LeaveBecomes DEF Record, FaultStep, CheckRejects, Crash, Leave
<1>5. CASE Release(p)
  <2>1. poller' = [poller EXCEPT ![p] = [Idle EXCEPT !.phase = "idle"]] /\ UNCHANGED <<monitor, sent>>
    BY <1>5 DEF Release, Idle
  <2> QED BY <1>0, <1>2, <2>1, LeaveBecomes
<1> QED BY <1>1, <1>3, <1>4, <1>5, FindAccounts, ReadAccounts, SeeAccounts, DeliverAccounts
        DEF CycleStep

LEMMA AccountsKept ==
    ASSUME LockInv, Facts, Accounted, [TasksNext]_taskVars, LockInv', Facts'
    PROVE  Accounted'
<1>0. /\ Numbers /\ Numbers' /\ Types /\ OneHolder /\ lost <= lost'
      /\ task = "agent" => \A p \in Processes : ~Leads(p)
  BY LossesGrow DEF Numbers, LockInv, OneTask
<1>1. ASSUME NEW t \in Tweets, Account(t) <= Paid PROVE Account(t)' <= Paid'
  <2>1. CASE UNCHANGED taskVars \/ AgentStep(SchedulerNext)
    <3>1. MonitorIsLeft /\ (UNCHANGED held \/ task = "agent")
      BY <2>1 DEF taskVars, AgentStep, monitorVars, lockVars, MonitorIsLeft
    <3> QED BY <1>0, <1>1, <3>1, RestAccounts
  <2>2. CASE OwnerStep \/ UserStep
    BY <1>0, <1>1, <2>2, OwnerAccounts, UserAccounts
  <2>3. ASSUME NEW p \in Processes, Skip(p) PROVE Account(t)' <= Paid'
    <3>1. MonitorIsLeft /\ UNCHANGED held
      BY <2>3 DEF Skip, LockRefused, lockVars, monitorVars, MonitorIsLeft
    <3> QED BY <1>0, <1>1, <3>1, RestAccounts
  <2>4. ASSUME NEW p \in Processes,
               Lead(p) \/ CycleStep(p) \/ FaultStep(p) \/ Restart(p) \/ IdleSessionCloses(p)
        PROVE  Account(t)' <= Paid'
    BY <1>0, <1>1, <2>4, PollerAccounts, CloseAccounts
  <2> QED BY <2>1, <2>2, <2>3, <2>4 DEF TasksNext, MonitorStep, Next
<1>2. Tweets' = Tweets
  BY DEF Tweets
<1> QED BY <1>1, <1>2 DEF Accounted

LEMMA InitialAccounts == TasksInit => LateInv /\ Accounted
<1> SUFFICES ASSUME TasksInit PROVE LateInv /\ Accounted
  OBVIOUS
<1>1. /\ \A p \in Processes : poller[p].phase = "idle"
      /\ \A m \in Monitors : monitor[m].status = "absent" /\ sent.late[m] = 0
      /\ \A t \in Tweets : sent.received[t] = 0
      /\ lost = 0 /\ used.created = 0 /\ used.again = 0
  BY DEF TasksInit, Init, LockInit, Idle, Absent
<1>2. Present = {} /\ Enabled = {}
  BY <1>1 DEF Present, Enabled
<1>3. \A m \in Monitors : Cardinality(BusyWith(m)) = 0
  <2>1. \A m : BusyWith(m) = {}
    BY <1>1 DEF BusyWith, Busy
  <2> QED BY <2>1, FS_EmptySet
<1>4. LateInv
  BY <1>1, <1>2, <1>3 DEF LateInv
<1>5. ASSUME NEW t \in Tweets PROVE Account(t) <= Paid
  <2>1. Extra(t) = {}
    BY <1>1 DEF Extra, Leads
  <2>2. Cardinality(Extra(t)) = 0
    BY <2>1, FS_EmptySet
  <2>3. ~Elsewhere /\ ~Sure(t) /\ ~Coming(t) /\ ~Wanted(t)
    BY <1>1, <1>2 DEF Elsewhere, Sure, Coming, Wanted, Strays, Delivers, Brings, Busy, At
  <2>4. Owed(t) = 0
    BY <2>3 DEF Owed, One
  <2> QED BY <1>1, <2>2, <2>4 DEF Account, Paid
<1> QED BY <1>4, <1>5 DEF Accounted

DeliveryInv == LockInv /\ Facts /\ LateInv /\ Accounted

LEMMA DeliveryInvKept == DeliveryInv /\ LockInv' /\ FewBusy' /\ [TasksNext]_taskVars => DeliveryInv'
<1> SUFFICES ASSUME DeliveryInv, LockInv', FewBusy', [TasksNext]_taskVars PROVE DeliveryInv'
  OBVIOUS
<1>1. Facts'
  BY FactsKept DEF DeliveryInv
<1>2. LateInv'
  BY LateKept DEF DeliveryInv
<1>3. Accounted'
  BY <1>1, AccountsKept DEF DeliveryInv
<1> QED BY <1>1, <1>2, <1>3 DEF DeliveryInv

LEMMA AccountTells == DeliveryInv => DeliveriesAccounted
<1> SUFFICES ASSUME DeliveryInv PROVE DeliveriesAccounted
  OBVIOUS
<1>1. Facts /\ LockInv /\ LateInv /\ Accounted /\ lost \in Nat
  BY DEF DeliveryInv, LockInv, Types
<1>2. ASSUME NEW t \in Tweets PROVE sent.received[t] <= used.created + lost + used.again
  <2>1. IsFiniteSet(Extra(t))
    BY TaskConstants, FS_Subset DEF Extra
  <2>2. /\ sent.received[t] \in Nat /\ Cardinality(Extra(t)) \in Nat /\ Owed(t) \in Nat
        /\ used.created \in Nat /\ used.again \in Nat
    BY <1>1, <2>1, FS_CardinalityType, OwedAtMost, MonitorConstants DEF Facts
  <2>3. Account(t) <= Paid
    BY <1>1 DEF Accounted
  <2> QED BY <1>1, <2>2, <2>3 DEF Account, Paid
<1>3. ASSUME NEW m \in Monitors PROVE sent.late[m] <= 1 + lost
  <2>1. sent.late[m] + Cardinality(BusyWith(m)) <= 1 + lost /\ sent.late[m] \in Nat
    BY <1>1 DEF LateInv, Facts
  <2>2. Cardinality(BusyWith(m)) \in Nat
    BY <1>1, BusyAreFew DEF FewBusy
  <2> QED BY <1>1, <2>1, <2>2
<1> QED BY <1>2, <1>3 DEF DeliveriesAccounted, AnnouncedOnce, SilentSoon

\* checkMonitor, create(), update() and delete(): however pollers, users and the owner of
\* the handle get in each other's way, a webhook receives each tweet once for each monitor
\* that was created, lock that was lost and tweet or lastTweetUrl that was put back, and
\* a monitor that is not enabled any more at most one delivery, and one for each lost lock.
THEOREM DeliveriesCounted == TasksSpec => []DeliveriesAccounted
<1>1. TasksInit => DeliveryInv
  BY InitiallyLocked, InitialFacts, InitialAccounts DEF DeliveryInv
<1>2. DeliveryInv => LockInv
  BY DEF DeliveryInv
<1> QED BY <1>1, <1>2, LockInvKept, BusyAreFew, DeliveryInvKept, AccountTells, PTL DEF TasksSpec
=============================================================================
