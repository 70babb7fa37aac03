------------------------- MODULE ActionEngineProofs -------------------------
(***************************************************************************)
(* Safety of the action queue, and of the engine that composes it with the *)
(* circuit breaker, for any number of actions, processes, dispatches,      *)
(* attempts and faults.                                                    *)
(*                                                                         *)
(* The queue's invariants are not inductive one by one: that only one      *)
(* dispatch holds a row needs that the holders agree with the row's        *)
(* status, which needs that a row nobody holds is never written by a       *)
(* dispatch; that X receives no more than the attempts charged needs to    *)
(* know which holders have sent already.  IInv is their conjunction with   *)
(* those two facts, and what the life of one action (ActionLifecycle) is   *)
(* shown from, step by step.                                               *)
(*                                                                         *)
(* Every step of ActionEngine is a step of ActionQueue or leaves the queue *)
(* alone, and a step of CircuitBreaker or leaves the breaker alone, so     *)
(* that what is shown of either holds of both composed.                    *)
(***************************************************************************)
EXTENDS ActionEngine, FiniteSetTheorems, TLAPS

(* A dispatch() call in progress has an action. *)
DispatchHasAction ==
    \A s \in Slots : disp[s].phase # "free" => disp[s].action \in Actions

EarlyPhase == {"tick", "gate", "defer", "start"}

(* Before executor.execute nothing is sent; a holder sends at most once; and an
   action that was never enqueued has no attempts. *)
SendBudget ==
    /\ \A s \in Slots : disp[s].phase \in EarlyPhase => ~disp[s].sent
    /\ \A s \in Slots : \A a \in Actions :
          Holds(s, a) => sends[a] <= row[a].attempts + IF disp[s].sent THEN 1 ELSE 0
    /\ \A a \in Actions : row[a].status = "absent" => row[a].attempts = 0

Consistent ==
    /\ DispatchHasAction
    /\ SingleHolder
    /\ HolderAgreesWithRow
    /\ NoLockOutsideClaim
    /\ WaitingRowsHaveAttempts
    /\ SendsWithinAttempts
    /\ SendBudget

IInv == TypeOK /\ Consistent

(* The vocabulary of the model, expanded everywhere below; the actions and the
   parts of the invariant are named where they are used. *)
USE QueueAssumption
USE DEF Holds, HoldPhase, Taken, EarlyPhase, AttemptsMade

-----------------------------------------------------------------------------
(* Types.                                                                  *)

(* A row before its INSERT and an unused slot have their types. *)
LEMMA RecordsTyped == Absent \in Row /\ Free \in Dispatch
BY DEF Absent, Free, Row, Dispatch, Status, Lease, Phase, ErrorClass

(* Every UPDATE of the repositories leaves a row a row. *)
LEMMA RowUpdates ==
    ASSUME NEW r \in Row
    PROVE  /\ \A due \in BOOLEAN : [r EXCEPT !.due = due] \in Row
           /\ [r EXCEPT !.lease = "expired"] \in Row
           /\ \A status \in Status :
                 /\ [r EXCEPT !.status = status] \in Row
                 /\ Released(r, status) \in Row
                 /\ \A w \in Workers :
                       [r EXCEPT !.status = status, !.lease = "held", !.owner = w] \in Row
                 /\ \A due \in BOOLEAN, attempts \in 0 .. MaxAttempts :
                       /\ [r EXCEPT !.status = status, !.due = due] \in Row
                       /\ [Released(r, status) EXCEPT !.attempts = attempts,
                                                      !.due = due] \in Row
BY DEF Row, Lease, Released

(* Every step of dispatch() leaves its local state well typed. *)
LEMMA DispatchUpdates ==
    ASSUME NEW d \in Dispatch
    PROVE  /\ [d EXCEPT !.sent = TRUE] \in Dispatch
           /\ \A phase \in Phase :
                 /\ [d EXCEPT !.phase = phase] \in Dispatch
                 /\ \A class \in ErrorClass :
                       [d EXCEPT !.phase = phase, !.class = class] \in Dispatch
                 /\ \A w \in Workers, a \in Actions, attempts \in 0 .. MaxAttempts :
                       [d EXCEPT !.phase = phase, !.worker = w, !.action = a,
                                 !.attempts = attempts] \in Dispatch
BY DEF Dispatch

(* Going on to the next await keeps the types. *)
LEMMA AdvanceTyped ==
    ASSUME TypeOK, NEW s \in Slots, NEW phase \in Phase, Advance(s, phase)
    PROVE  disp' \in [Slots -> Dispatch]
BY DispatchUpdates DEF TypeOK, Advance

(* A dispatch that settles leaves inflight and drainInflight's snapshot well typed. *)
LEMMA SettleTyped ==
    ASSUME TypeOK, NEW S, Settle(S)
    PROVE  disp' \in [Slots -> Dispatch] /\ proc' \in [Workers -> Process]
BY RecordsTyped DEF TypeOK, Settle, Process

(* So does the end of a process. *)
LEMMA EndsTyped ==
    ASSUME TypeOK, NEW w \in Workers, Ends(w)
    PROVE  disp' \in [Slots -> Dispatch] /\ proc' \in [Workers -> Process]
BY RecordsTyped DEF TypeOK, Ends, Process

(* The bound on faults is kept. *)
LEMMA FaultTyped ==
    ASSUME TypeOK, Fault
    PROVE  used' \in [faults : 0 .. MaxFaults, stops : 0 .. MaxStops,
                      replays : 0 .. MaxReplays]
BY DEF TypeOK, Fault

(* An UPDATE of one row. *)
LEMMA OneRowTyped ==
    ASSUME TypeOK, NEW a, NEW r \in Row, row' = [row EXCEPT ![a] = r]
    PROVE  row' \in [Actions -> Row]
BY DEF TypeOK

(* What claimBatch does with the rows it picks for the slots of P. *)
ClaimedBy(w, P, pick) ==
    /\ row' = [a \in Actions |->
                 IF a \in Range(pick)
                 THEN [row[a] EXCEPT !.status = "claimed", !.lease = "held", !.owner = w]
                 ELSE row[a]]
    /\ disp' = [s \in Slots |->
                 IF s \in P
                 THEN [Free EXCEPT !.phase = "tick", !.worker = w, !.action = pick[s],
                                   !.attempts = row[pick[s]].attempts]
                 ELSE disp[s]]
    /\ UNCHANGED <<proc, used, sends>>

(* A claimBatch picks free slots and claimable rows, one for one. *)
LEMMA ClaimShape ==
    ASSUME NEW w \in Workers, NEW t \in Types, ClaimBatch(w, t)
    PROVE  \E P \in SUBSET FreeSlots : \E pick \in Injection(P, Claimable(t)) :
               ClaimedBy(w, P, pick)
BY DEF ClaimBatch, ClaimedBy

(* Every step keeps the types; PersistFailure needs WaitingRowsHaveAttempts for it. *)
LEMMA TypeStep == ASSUME IInv, [Next]_vars PROVE TypeOK'
<1> USE DEF IInv, Consistent
<1>1. ASSUME NEW a \in Actions, NEW due \in BOOLEAN, Enqueue(a, due) PROVE TypeOK'
  <2>1. [Absent EXCEPT !.status = "pending", !.due = due] \in Row
    BY RecordsTyped, RowUpdates DEF Status
  <2> QED BY <1>1, <2>1 DEF Enqueue, TypeOK
<1>2. ASSUME NEW s \in Slots, NEW paused \in BOOLEAN, Gate(s, paused) PROVE TypeOK'
  BY <1>2, AdvanceTyped DEF Gate, TypeOK, Phase
<1>3. ASSUME NEW s \in Slots, Defer(s) PROVE TypeOK'
  <2>1. row' \in [Actions -> Row]
    BY <1>3, RowUpdates DEF Defer, TypeOK, Dispatch, Status
  <2> QED BY <1>3, <2>1, SettleTyped DEF Defer, TypeOK
<1>4. ASSUME NEW s \in Slots, MarkRunning(s) PROVE TypeOK'
  <2>1. disp[s].action \in Actions /\ row[disp[s].action].status = "claimed"
    BY <1>4 DEF MarkRunning, DispatchHasAction, HolderAgreesWithRow
  <2>2. [row[disp[s].action] EXCEPT !.status = "running"] \in Row
    BY <2>1, RowUpdates DEF TypeOK, Status
  <2>3. row' \in [Actions -> Row]
    BY <1>4, <2>1, <2>2 DEF MarkRunning, TypeOK
  <2> QED BY <1>4, <2>3, AdvanceTyped DEF MarkRunning, TypeOK, Phase
<1>5. ASSUME NEW s \in Slots, SendToX(s) PROVE TypeOK'
  <2>1. [disp[s] EXCEPT !.sent = TRUE] \in Dispatch
    BY DispatchUpdates DEF TypeOK
  <2>2. disp' \in [Slots -> Dispatch]
    BY <1>5, <2>1 DEF SendToX, TypeOK
  <2>3. sends' \in [Actions -> Nat]
    <3>1. disp[s].action \in Actions
      BY <1>5 DEF SendToX, DispatchHasAction
    <3> QED BY <1>5, <3>1 DEF SendToX, TypeOK
  <2> QED BY <1>5, <2>2, <2>3 DEF SendToX, TypeOK
<1>6. ASSUME NEW s \in Slots, ExecutorSucceeds(s) PROVE TypeOK'
  BY <1>6, AdvanceTyped DEF ExecutorSucceeds, TypeOK, Phase
<1>7. ASSUME NEW s \in Slots, NEW class \in ErrorClass, ExecutorFails(s, class)
      PROVE  TypeOK'
  BY <1>7, DispatchUpdates DEF ExecutorFails, TypeOK, Phase
<1>8. ASSUME NEW s \in Slots, PersistSuccess(s) PROVE TypeOK'
  <2>1. row' \in [Actions -> Row]
    BY <1>8, RowUpdates DEF PersistSuccess, TypeOK, Status
  <2> QED BY <1>8, <2>1, AdvanceTyped DEF PersistSuccess, TypeOK, Phase
<1>9. ASSUME NEW s \in Slots, PersistFailure(s) PROVE TypeOK'
  <2> DEFINE a == disp[s].action
  <2>1. a \in Actions /\ Holds(s, a) /\ row[a].status = "running"
    BY <1>9 DEF PersistFailure, DispatchHasAction, HolderAgreesWithRow
  <2>2. disp[s].attempts + 1 \in 0 .. MaxAttempts
    BY <2>1 DEF HolderAgreesWithRow, WaitingRowsHaveAttempts, TypeOK, Row
  <2>3. row[a] \in Row
    BY <2>1 DEF TypeOK
  <2> SUFFICES row' \in [Actions -> Row]
    BY <1>9, AdvanceTyped DEF PersistFailure, TypeOK, Phase
  <2>4. CASE ShouldRetry(disp[s].attempts + 1, disp[s].class)
    <3> DEFINE r == [Released(row[a], "failed") EXCEPT !.attempts = disp[s].attempts + 1,
                                                       !.due = FALSE]
    <3>1. r \in Row
      BY <2>2, <2>3 DEF Row, Status, Lease, Released
    <3>2. row' = [row EXCEPT ![a] = r]
      BY <1>9, <2>1, <2>3, <2>4 DEF PersistFailure, Released, Row
    <3> HIDE DEF r
    <3> QED BY <3>1, <3>2, OneRowTyped
  <2>5. CASE ~ShouldRetry(disp[s].attempts + 1, disp[s].class)
    <3> DEFINE r == [Released(row[a], "dead") EXCEPT !.attempts = disp[s].attempts + 1]
    <3>1. r \in Row
      BY <2>2, <2>3 DEF Row, Status, Lease, Released
    <3>2. row' = [row EXCEPT ![a] = r]
      BY <1>9, <2>1, <2>3, <2>5 DEF PersistFailure, Released, Row
    <3> HIDE DEF r
    <3> QED BY <3>1, <3>2, OneRowTyped
  <2> QED BY <2>4, <2>5
<1>10. ASSUME NEW s \in Slots, RecordOutcome(s) PROVE TypeOK'
  BY <1>10, SettleTyped DEF RecordOutcome, TypeOK
<1>11. ASSUME NEW w \in Workers, NEW t \in Types, ClaimBatch(w, t) PROVE TypeOK'
  <2>1. PICK P \in SUBSET FreeSlots : \E pick \in Injection(P, Claimable(t)) :
           ClaimedBy(w, P, pick)
    BY <1>11, ClaimShape
  <2>2. PICK pick \in Injection(P, Claimable(t)) : ClaimedBy(w, P, pick)
    BY <2>1
  <2>3. row' \in [Actions -> Row]
    BY <2>2, RowUpdates DEF ClaimedBy, TypeOK, Status
  <2>4. \A s \in P : pick[s] \in Actions /\ row[pick[s]].attempts \in 0 .. MaxAttempts
    BY <2>2 DEF Injection, Claimable, TypeOK, Row
  <2>5. disp' \in [Slots -> Dispatch]
    BY <2>2, <2>4, RecordsTyped, DispatchUpdates DEF ClaimedBy, TypeOK, Phase
  <2> QED BY <1>11, <2>3, <2>5 DEF ClaimBatch, TypeOK
<1>12. ASSUME NEW w \in Workers, StartDispatches(w) PROVE TypeOK'
  BY <1>12, DispatchUpdates DEF StartDispatches, TypeOK, Phase
<1>13. ASSUME NEW w \in Workers, Stop(w) PROVE TypeOK'
  BY <1>13 DEF Stop, InflightOf, TickOf, TypeOK, Process
<1>14. ASSUME NEW w \in Workers, Drained(w) PROVE TypeOK'
  BY <1>14, EndsTyped DEF Drained, TypeOK
<1>15. ASSUME NEW w \in Workers, Restart(w) PROVE TypeOK'
  BY <1>15 DEF Restart, TypeOK, Process
<1>16. ASSUME NEW s \in Slots, DispatchAborts(s) PROVE TypeOK'
  BY <1>16, SettleTyped, FaultTyped DEF DispatchAborts, TypeOK
<1>17. ASSUME NEW w \in Workers, ClaimResponseLost(w) PROVE TypeOK'
  BY <1>17, SettleTyped, FaultTyped DEF ClaimResponseLost, TypeOK
<1>18. ASSUME NEW w \in Workers, Crash(w) \/ DrainTimeout(w) PROVE TypeOK'
  BY <1>18, EndsTyped, FaultTyped DEF Crash, DrainTimeout, TypeOK
<1>19. ASSUME NEW a \in Actions, CancelAction(a) PROVE TypeOK'
  BY <1>19, RowUpdates DEF CancelAction, TypeOK, Status
<1>20. ASSUME NEW a \in Actions, ReplayAction(a) PROVE TypeOK'
  <2>1. [Released(row[a], "pending") EXCEPT !.attempts = 0, !.due = TRUE] \in Row
    <3>1. row[a] \in Row /\ 0 \in 0 .. MaxAttempts
      BY DEF TypeOK
    <3>2. Released(row[a], "pending") \in Row
      BY <3>1, RowUpdates DEF Status
    <3> QED BY <3>1, <3>2 DEF Row, Status, Lease, Released
  <2>2. row' \in [Actions -> Row]
    BY <1>20, <2>1 DEF ReplayAction, TypeOK
  <2> QED BY <1>20, <2>2 DEF ReplayAction, TypeOK
<1>21. ASSUME NEW t \in Types, ArchiveDead(t) PROVE TypeOK'
  BY <1>21, RowUpdates DEF ArchiveDead, TypeOK, Status
<1>22. ASSUME NEW c \in Accounts, CancelPendingByAccount(c) PROVE TypeOK'
  BY <1>22, RowUpdates DEF CancelPendingByAccount, TypeOK, Status
<1>23. ASSUME NEW a \in Actions, BecomeDue(a) \/ LeaseExpires(a) PROVE TypeOK'
  <2>1. [row[a] EXCEPT !.due = TRUE] \in Row /\ [row[a] EXCEPT !.lease = "expired"] \in Row
    BY RowUpdates DEF TypeOK
  <2>2. CASE BecomeDue(a)
    BY <2>1, <2>2 DEF BecomeDue, TypeOK
  <2>3. CASE LeaseExpires(a)
    BY <2>1, <2>3 DEF LeaseExpires, TypeOK
  <2> QED BY <1>23, <2>2, <2>3
<1>24. ASSUME UNCHANGED vars PROVE TypeOK'
  BY <1>24 DEF vars, TypeOK
<1> QED
  BY <1>1, <1>2, <1>3, <1>4, <1>5, <1>6, <1>7, <1>8, <1>9, <1>10, <1>11, <1>12, <1>13,
     <1>14, <1>15, <1>16, <1>17, <1>18, <1>19, <1>20, <1>21, <1>22, <1>23, <1>24
     DEF Next, DispatchStep, ProcessStep, FaultStep, OperatorStep, TimeStep

-----------------------------------------------------------------------------
(* Consistency.                                                            *)

(* Dispatches that end or die without writing their row take nothing with them
   that another dispatch relies on. *)
LEMMA LettingGo ==
    ASSUME IInv, TypeOK', row' = row, sends' = sends,
           \A s \in Slots : disp'[s] = disp[s] \/ disp'[s] = Free
    PROVE  Consistent'
<1> USE DEF IInv, Consistent
<1>1. \A s \in Slots : disp'[s] = disp[s] \/ disp'[s].phase = "free"
  BY DEF Free
<1>2. DispatchHasAction' /\ SingleHolder' /\ HolderAgreesWithRow' /\ SendBudget'
  BY <1>1 DEF DispatchHasAction, SingleHolder, HolderAgreesWithRow, SendBudget
<1>3. NoLockOutsideClaim' /\ WaitingRowsHaveAttempts' /\ SendsWithinAttempts'
  BY DEF NoLockOutsideClaim, WaitingRowsHaveAttempts, SendsWithinAttempts
<1> QED BY <1>2, <1>3

(* An operator's UPDATE: the rows of S, none of them taken, are released. *)
LEMMA Cancelling ==
    ASSUME IInv, TypeOK', NEW S \in SUBSET Actions,
           \A a \in S : row[a].status \in {"pending", "failed", "dead"},
           \A a \in S : /\ row'[a].status = "cancelled"
                        /\ row'[a].attempts = row[a].attempts
                        /\ row'[a].lease = "none" /\ row'[a].owner = NoWorker,
           \A a \in Actions \ S : row'[a] = row[a],
           disp' = disp, sends' = sends
    PROVE  Consistent'
<1> USE DEF IInv, Consistent
<1>1. \A s \in Slots : \A a \in Actions : Holds(s, a) => a \notin S
  BY DEF HolderAgreesWithRow
<1>2. HolderAgreesWithRow' /\ SendBudget' /\ SingleHolder' /\ DispatchHasAction'
  BY <1>1 DEF HolderAgreesWithRow, SendBudget, SingleHolder, DispatchHasAction
<1>3. NoLockOutsideClaim' /\ WaitingRowsHaveAttempts' /\ SendsWithinAttempts'
  BY DEF NoLockOutsideClaim, WaitingRowsHaveAttempts, SendsWithinAttempts
<1> QED BY <1>2, <1>3

(* Any row update that leaves status, attempts and owner alone, and grants no lock. *)
LEMMA TimePasses ==
    ASSUME IInv, TypeOK', disp' = disp, sends' = sends,
           \A a \in Actions : /\ row'[a].status = row[a].status
                              /\ row'[a].attempts = row[a].attempts
                              /\ row'[a].owner = row[a].owner
                              /\ Taken(a) \/ row'[a].lease = row[a].lease
    PROVE  Consistent'
BY DEF IInv, Consistent, DispatchHasAction, SingleHolder, HolderAgreesWithRow,
       NoLockOutsideClaim, WaitingRowsHaveAttempts, SendsWithinAttempts, SendBudget

(* A dispatch moves on between claim and outcome without writing the row. *)
LEMMA MovingOn ==
    ASSUME IInv, TypeOK', row' = row, sends' = sends,
           \A s \in Slots :
              \/ disp'[s] = disp[s]
              \/ /\ disp'[s].action = disp[s].action
                 /\ disp'[s].worker = disp[s].worker
                 /\ disp'[s].attempts = disp[s].attempts
                 /\ disp'[s].sent = disp[s].sent
                 /\ \/ {disp[s].phase, disp'[s].phase} \subseteq EarlyPhase
                    \/ {disp[s].phase, disp'[s].phase} \subseteq {"exec", "succeed", "fail"}
    PROVE  Consistent'
BY DEF IInv, Consistent, DispatchHasAction, SingleHolder, HolderAgreesWithRow,
       NoLockOutsideClaim, WaitingRowsHaveAttempts, SendsWithinAttempts, SendBudget

(* A claim takes rows nobody holds, because every holder's row is taken. *)
LEMMA ClaimConsistent ==
    ASSUME IInv, TypeOK', NEW w \in Workers, NEW t \in Types, ClaimBatch(w, t)
    PROVE  Consistent'
<1> USE DEF IInv, Consistent
<1>1. PICK P \in SUBSET FreeSlots : \E pick \in Injection(P, Claimable(t)) :
         ClaimedBy(w, P, pick)
  BY ClaimShape
<1>2. PICK pick \in Injection(P, Claimable(t)) : ClaimedBy(w, P, pick)
  BY <1>1
<1>3. /\ \A s \in P : /\ disp[s].phase = "free" /\ s \in Slots
                      /\ pick[s] \in Actions /\ pick[s] \in Claimable(t)
      /\ \A s, q \in P : pick[s] = pick[q] => s = q
  BY <1>2 DEF Injection, IsInjective, FreeSlots, Claimable
(* The rows picked were held by nobody. *)
<1>4. \A s \in Slots : \A a \in Actions : Holds(s, a) => a \notin Claimable(t)
  BY DEF HolderAgreesWithRow, Claimable
<1>5. \A a \in Actions : \/ /\ \E s \in P : a = pick[s]
                            /\ a \in Claimable(t)
                            /\ row'[a].status = "claimed"
                            /\ row'[a].owner = w
                            /\ row'[a].attempts = row[a].attempts
                         \/ (\A s \in P : a # pick[s]) /\ row'[a] = row[a]
  <2> SUFFICES ASSUME NEW a \in Actions
               PROVE  \/ /\ \E s \in P : a = pick[s]
                         /\ a \in Claimable(t)
                         /\ row'[a].status = "claimed"
                         /\ row'[a].owner = w
                         /\ row'[a].attempts = row[a].attempts
                      \/ (\A s \in P : a # pick[s]) /\ row'[a] = row[a]
    OBVIOUS
  <2>1. a \in Range(pick) <=> \E s \in P : a = pick[s]
    BY <1>2 DEF Range, Injection
  <2>2. row[a] \in Row
    BY DEF TypeOK
  <2>3. CASE a \in Range(pick)
    <3>1. row'[a] = [row[a] EXCEPT !.status = "claimed", !.lease = "held", !.owner = w]
      BY <1>2, <2>3 DEF ClaimedBy
    <3> QED BY <1>3, <2>1, <2>2, <2>3, <3>1 DEF Row
  <2>4. CASE a \notin Range(pick)
    BY <1>2, <2>1, <2>4 DEF ClaimedBy
  <2> QED BY <2>3, <2>4
<1>6. \A s \in Slots : \/ /\ s \in P
                          /\ disp'[s].phase = "tick" /\ disp'[s].worker = w
                          /\ disp'[s].action = pick[s] /\ ~disp'[s].sent
                          /\ disp'[s].attempts = row[pick[s]].attempts
                       \/ s \notin P /\ disp'[s] = disp[s]
  BY <1>2 DEF ClaimedBy, Free
<1>7. sends' = sends
  BY <1>2 DEF ClaimedBy
<1>8. DispatchHasAction'
  BY <1>3, <1>6 DEF DispatchHasAction
<1>9. SingleHolder'
  BY <1>3, <1>4, <1>6 DEF SingleHolder
<1>10. HolderAgreesWithRow'
  BY <1>3, <1>4, <1>5, <1>6 DEF HolderAgreesWithRow
<1>11. NoLockOutsideClaim' /\ WaitingRowsHaveAttempts'
  BY <1>5 DEF NoLockOutsideClaim, WaitingRowsHaveAttempts, Claimable
<1>12. SendsWithinAttempts'
  BY <1>5, <1>7 DEF SendsWithinAttempts, Claimable
<1>13. SendBudget'
  BY <1>3, <1>4, <1>5, <1>6, <1>7 DEF SendBudget, SendsWithinAttempts, Claimable
<1> QED BY <1>8, <1>9, <1>10, <1>11, <1>12, <1>13

(* The four statements by which a dispatch writes its own row. *)
LEMMA OwnRow ==
    ASSUME IInv, NEW s \in Slots,
           disp[s].phase \in {"defer", "start", "exec", "succeed", "fail"}
    PROVE  LET a == disp[s].action
           IN  /\ a \in Actions /\ Holds(s, a)
               /\ row[a] \in Row /\ row[a].attempts = disp[s].attempts
               /\ row[a].attempts < MaxAttempts
               /\ \A q \in Slots : \A b \in Actions : Holds(q, b) => (b = a <=> q = s)
BY DEF IInv, Consistent, DispatchHasAction, SingleHolder, HolderAgreesWithRow,
       WaitingRowsHaveAttempts, TypeOK, Row

(* markRunning moves the row of its dispatch and no other from claimed to running. *)
LEMMA MarkRunningConsistent ==
    ASSUME IInv, TypeOK', NEW s \in Slots, MarkRunning(s)
    PROVE  Consistent'
<1> USE DEF IInv, Consistent, MarkRunning
<1> DEFINE a == disp[s].action
<1>1. /\ a \in Actions /\ row[a] \in Row /\ Holds(s, a)
      /\ row[a].status = "claimed"
      /\ \A q \in Slots : \A b \in Actions : Holds(q, b) => (b = a <=> q = s)
  BY OwnRow DEF HolderAgreesWithRow
<1>2. /\ row'[a].status = "running" /\ row'[a].owner = row[a].owner
      /\ row'[a].attempts = row[a].attempts
      /\ \A b \in Actions \ {a} : row'[b] = row[b]
  BY <1>1 DEF TypeOK, Row
<1>3. /\ disp'[s].phase = "exec" /\ disp'[s].action = a
      /\ disp'[s].worker = disp[s].worker /\ disp'[s].sent = disp[s].sent
      /\ disp'[s].attempts = disp[s].attempts
      /\ \A q \in Slots \ {s} : disp'[q] = disp[q]
      /\ sends' = sends
  BY DEF Advance, TypeOK, Dispatch
<1> HIDE DEF MarkRunning
<1>4. DispatchHasAction'
  BY <1>1, <1>3 DEF DispatchHasAction
<1>5. SingleHolder'
  BY <1>1, <1>3 DEF SingleHolder
<1>6. HolderAgreesWithRow'
  BY <1>1, <1>2, <1>3 DEF HolderAgreesWithRow
<1>7. NoLockOutsideClaim' /\ WaitingRowsHaveAttempts'
  BY <1>1, <1>2, <1>3 DEF NoLockOutsideClaim, WaitingRowsHaveAttempts
<1>9. SendsWithinAttempts'
  <2>1. row[a].attempts \in Nat /\ sends[a] \in Nat
    BY <1>1 DEF TypeOK, Row
  <2> QED BY <1>1, <1>2, <1>3, <2>1 DEF SendsWithinAttempts
<1>8. SendBudget'
  BY <1>1, <1>2, <1>3 DEF SendBudget
<1> QED BY <1>4, <1>5, <1>6, <1>7, <1>8, <1>9

(* A dispatch lets go of its row: nobody holds it afterwards. *)
LEMMA HandingBack ==
    ASSUME IInv, TypeOK', NEW s \in Slots, NEW status \in Status \ {"claimed", "running"},
           disp[s].phase \in {"defer", "succeed", "fail"},
           disp'[s] = Free \/ disp'[s] = [disp[s] EXCEPT !.phase = "record"],
           \A q \in Slots \ {s} : disp'[q] = disp[q],
           sends' = sends,
           \A b \in Actions \ {disp[s].action} : row'[b] = row[b],
           row'[disp[s].action].status = status,
           row'[disp[s].action].lease = "none",
           row'[disp[s].action].owner = NoWorker,
           row'[disp[s].action].attempts < MaxAttempts \/ status \in {"succeeded", "dead"},
           \/ row'[disp[s].action].attempts = disp[s].attempts + 1
           \/ /\ row'[disp[s].action].attempts = disp[s].attempts
              /\ status = "succeeded" \/ ~disp[s].sent
    PROVE  Consistent'
<1> USE DEF IInv, Consistent
<1> DEFINE a == disp[s].action
<1>1. /\ a \in Actions /\ Holds(s, a) /\ row[a].attempts = disp[s].attempts
      /\ row[a].attempts \in Nat /\ disp[s].sent \in BOOLEAN
      /\ \A q \in Slots : \A b \in Actions : Holds(q, b) => (b = a <=> q = s)
  BY OwnRow DEF TypeOK, Row, Dispatch
<1>2. /\ disp'[s].phase \in {"free", "record"}
      /\ disp'[s].phase = "free" \/ disp'[s].action = a
  BY DEF TypeOK, Dispatch, Free
<1>3. DispatchHasAction'
  BY <1>1, <1>2 DEF DispatchHasAction
<1>4. SingleHolder'
  BY <1>1, <1>2 DEF SingleHolder
<1>5. HolderAgreesWithRow'
  BY <1>1, <1>2 DEF HolderAgreesWithRow
<1>6. NoLockOutsideClaim' /\ WaitingRowsHaveAttempts'
  BY <1>1 DEF NoLockOutsideClaim, WaitingRowsHaveAttempts
<1>7. SendsWithinAttempts'
  <2>1. /\ sends[a] \in Nat
        /\ sends[a] <= disp[s].attempts + IF disp[s].sent THEN 1 ELSE 0
    BY <1>1 DEF SendBudget, TypeOK
  <2>2. sends[a] <= row'[a].attempts + IF status = "succeeded" THEN 1 ELSE 0
    BY <1>1, <2>1
  <2> QED BY <1>1, <2>2 DEF SendsWithinAttempts
<1>8. SendBudget'
  BY <1>1, <1>2 DEF SendBudget, Status
<1> QED BY <1>3, <1>4, <1>5, <1>6, <1>7, <1>8

(* Every step keeps the facts about holders, locks, attempts and sends. *)
LEMMA ConsistentStep == ASSUME IInv, TypeOK', [Next]_vars PROVE Consistent'
<1>1. ASSUME NEW a \in Actions, NEW due \in BOOLEAN, Enqueue(a, due)
      PROVE  Consistent'
  <2>1. /\ row'[a].status = "pending" /\ row'[a].attempts = 0
        /\ row'[a].lease = "none" /\ row'[a].owner = NoWorker
        /\ \A b \in Actions \ {a} : row'[b] = row[b]
        /\ disp' = disp /\ sends' = sends
    BY <1>1 DEF Enqueue, Absent, IInv, TypeOK
  <2>2. \A s \in Slots : ~Holds(s, a)
    BY <1>1 DEF Enqueue, IInv, Consistent, HolderAgreesWithRow
  <2>3. sends[a] <= 0
    BY <1>1 DEF Enqueue, IInv, Consistent, SendBudget, SendsWithinAttempts
  <2>4. DispatchHasAction' /\ SingleHolder' /\ HolderAgreesWithRow' /\ SendBudget'
    BY <2>1, <2>2 DEF IInv, Consistent, DispatchHasAction, SingleHolder,
                      HolderAgreesWithRow, SendBudget
  <2>5. NoLockOutsideClaim' /\ WaitingRowsHaveAttempts' /\ SendsWithinAttempts'
    BY <2>1, <2>3 DEF IInv, Consistent, NoLockOutsideClaim, WaitingRowsHaveAttempts,
                      SendsWithinAttempts
  <2> QED BY <2>4, <2>5 DEF Consistent
<1>2. ASSUME NEW s \in Slots, NEW paused \in BOOLEAN, Gate(s, paused)
      PROVE  Consistent'
  <2>1. disp' = [disp EXCEPT ![s].phase = IF paused THEN "defer" ELSE "start"]
    BY <1>2 DEF Gate, Advance
  <2> QED BY <1>2, <2>1, MovingOn DEF Gate, IInv, TypeOK, Dispatch
<1>3. ASSUME NEW s \in Slots, Defer(s) PROVE Consistent'
  <2>1. /\ disp[s].action \in Actions /\ row[disp[s].action] \in Row /\ ~disp[s].sent
        /\ disp[s].attempts < MaxAttempts
    BY <1>3, OwnRow DEF Defer, IInv, Consistent, SendBudget
  <2>2. /\ row'[disp[s].action].status = "pending"
        /\ row'[disp[s].action].lease = "none" /\ row'[disp[s].action].owner = NoWorker
        /\ row'[disp[s].action].attempts = disp[s].attempts
        /\ \A b \in Actions \ {disp[s].action} : row'[b] = row[b]
    BY <1>3, <2>1 DEF Defer, Released, IInv, TypeOK, Row
  <2>3. /\ disp[s].phase = "defer" /\ disp'[s] = Free /\ sends' = sends
        /\ \A q \in Slots \ {s} : disp'[q] = disp[q]
    BY <1>3 DEF Defer, Settle
  <2>4. "pending" \in Status \ {"claimed", "running"}
    BY DEF Status
  <2> QED BY <2>1, <2>2, <2>3, <2>4, HandingBack
<1>4. ASSUME NEW s \in Slots, MarkRunning(s) PROVE Consistent'
  BY <1>4, MarkRunningConsistent
<1>5. ASSUME NEW s \in Slots, SendToX(s) PROVE Consistent'
  <2> DEFINE a == disp[s].action
  <2>1. /\ a \in Actions /\ Holds(s, a) /\ ~disp[s].sent /\ row[a].status = "running"
        /\ \A q \in Slots : \A b \in Actions : Holds(q, b) => (b = a <=> q = s)
    BY <1>5, OwnRow DEF SendToX, IInv, Consistent, HolderAgreesWithRow
  <2>2. /\ row' = row /\ sends'[a] = sends[a] + 1
        /\ \A b \in Actions \ {a} : sends'[b] = sends[b]
        /\ \A q \in Slots \ {s} : disp'[q] = disp[q]
        /\ disp'[s].sent /\ disp'[s].phase = "exec" /\ disp'[s].action = a
        /\ disp'[s].worker = disp[s].worker /\ disp'[s].attempts = disp[s].attempts
    BY <1>5, <2>1 DEF SendToX, IInv, TypeOK, Dispatch
  <2>3. sends[a] <= row[a].attempts /\ sends[a] \in Nat /\ row[a].attempts \in Nat
    BY <2>1 DEF IInv, Consistent, SendBudget, TypeOK, Row
  <2>4. DispatchHasAction' /\ SingleHolder' /\ HolderAgreesWithRow'
    BY <1>5, <2>1, <2>2 DEF SendToX, IInv, Consistent, DispatchHasAction, SingleHolder,
                            HolderAgreesWithRow
  <2>5. NoLockOutsideClaim' /\ WaitingRowsHaveAttempts' /\ SendsWithinAttempts'
    BY <2>1, <2>2, <2>3 DEF IInv, Consistent, NoLockOutsideClaim,
                            WaitingRowsHaveAttempts, SendsWithinAttempts
  <2>6. SendBudget'
    BY <2>1, <2>2, <2>3 DEF IInv, Consistent, SendBudget
  <2> QED BY <2>4, <2>5, <2>6 DEF Consistent
<1>6. ASSUME NEW s \in Slots, ExecutorSucceeds(s) PROVE Consistent'
  <2>1. disp' = [disp EXCEPT ![s].phase = "succeed"]
    BY <1>6 DEF ExecutorSucceeds, Advance
  <2> QED BY <1>6, <2>1, MovingOn DEF ExecutorSucceeds, IInv, TypeOK, Dispatch
<1>7. ASSUME NEW s \in Slots, NEW class \in ErrorClass, ExecutorFails(s, class)
      PROVE  Consistent'
  BY <1>7, MovingOn DEF ExecutorFails, IInv, TypeOK, Dispatch
<1>8. ASSUME NEW s \in Slots, PersistSuccess(s) PROVE Consistent'
  <2>1. /\ disp[s].action \in Actions /\ row[disp[s].action] \in Row
        /\ row[disp[s].action].attempts = disp[s].attempts
    BY <1>8, OwnRow DEF PersistSuccess
  <2>2. /\ \A b \in Actions \ {disp[s].action} : row'[b] = row[b]
        /\ row'[disp[s].action] = Released(row[disp[s].action], "succeeded")
    BY <1>8, <2>1 DEF PersistSuccess, IInv, TypeOK
  <2>3. /\ row'[disp[s].action].status = "succeeded" /\ row'[disp[s].action].lease = "none"
        /\ row'[disp[s].action].owner = NoWorker
        /\ row'[disp[s].action].attempts = disp[s].attempts
    BY <2>1, <2>2 DEF Released, Row
  <2>4. /\ disp[s].phase = "succeed" /\ disp'[s] = [disp[s] EXCEPT !.phase = "record"]
        /\ \A q \in Slots \ {s} : disp'[q] = disp[q]
        /\ sends' = sends
    BY <1>8 DEF PersistSuccess, Advance, IInv, TypeOK
  <2>5. "succeeded" \in Status \ {"claimed", "running"}
    BY DEF Status
  <2>6. disp[s].phase \in {"defer", "succeed", "fail"}
    BY <2>4
  <2> HIDE DEF AttemptsMade, Holds, Taken
  <2> QED BY <2>2, <2>3, <2>4, <2>5, <2>6, HandingBack, Zenon
<1>9. ASSUME NEW s \in Slots, PersistFailure(s) PROVE Consistent'
  <2>1. disp[s].action \in Actions /\ row[disp[s].action] \in Row
    BY <1>9, OwnRow DEF PersistFailure
  <2>2. CASE ShouldRetry(disp[s].attempts + 1, disp[s].class)
    <3>1. row' = [row EXCEPT ![disp[s].action] =
                     [Released(@, "failed") EXCEPT !.attempts = disp[s].attempts + 1,
                                                   !.due = FALSE]]
      BY <1>9, <2>2 DEF PersistFailure, AttemptsMade
    <3>2. disp[s].attempts + 1 < MaxAttempts
      BY <2>2 DEF ShouldRetry
    <3>3. /\ \A b \in Actions \ {disp[s].action} : row'[b] = row[b]
          /\ row'[disp[s].action] =
                [Released(row[disp[s].action], "failed")
                    EXCEPT !.attempts = disp[s].attempts + 1, !.due = FALSE]
      BY <2>1, <3>1 DEF IInv, TypeOK
    <3>4. /\ row'[disp[s].action].status = "failed" /\ row'[disp[s].action].lease = "none"
          /\ row'[disp[s].action].owner = NoWorker
          /\ row'[disp[s].action].attempts = disp[s].attempts + 1
      BY <2>1, <3>3 DEF Released, Row
    <3>5. /\ disp[s].phase = "fail" /\ disp'[s] = [disp[s] EXCEPT !.phase = "record"]
          /\ \A q \in Slots \ {s} : disp'[q] = disp[q]
          /\ sends' = sends
      BY <1>9 DEF PersistFailure, Advance, IInv, TypeOK
    <3>6. "failed" \in Status \ {"claimed", "running"}
      BY DEF Status
    <3>7. /\ row'[disp[s].action].attempts < MaxAttempts
          /\ disp[s].phase \in {"defer", "succeed", "fail"}
      BY <3>2, <3>4, <3>5
    <3> HIDE DEF AttemptsMade, Holds, Taken
    <3> QED BY <3>3, <3>4, <3>5, <3>6, <3>7, HandingBack, Zenon
  <2>3. CASE ~ShouldRetry(disp[s].attempts + 1, disp[s].class)
    <3>1. row' = [row EXCEPT ![disp[s].action] =
                     [Released(@, "dead") EXCEPT !.attempts = disp[s].attempts + 1]]
      BY <1>9, <2>3 DEF PersistFailure, AttemptsMade
    <3>2. /\ \A b \in Actions \ {disp[s].action} : row'[b] = row[b]
          /\ row'[disp[s].action] =
                [Released(row[disp[s].action], "dead") EXCEPT !.attempts = disp[s].attempts + 1]
      BY <2>1, <3>1 DEF IInv, TypeOK
    <3>3. /\ row'[disp[s].action].status = "dead" /\ row'[disp[s].action].lease = "none"
          /\ row'[disp[s].action].owner = NoWorker
          /\ row'[disp[s].action].attempts = disp[s].attempts + 1
      BY <2>1, <3>2 DEF Released, Row
    <3>4. /\ disp[s].phase = "fail" /\ disp'[s] = [disp[s] EXCEPT !.phase = "record"]
          /\ \A q \in Slots \ {s} : disp'[q] = disp[q]
          /\ sends' = sends
      BY <1>9 DEF PersistFailure, Advance, IInv, TypeOK
    <3>5. "dead" \in Status \ {"claimed", "running"}
      BY DEF Status
    <3>6. disp[s].phase \in {"defer", "succeed", "fail"}
      BY <3>4
    <3> HIDE DEF AttemptsMade, Holds, Taken
    <3> QED BY <3>2, <3>3, <3>4, <3>5, <3>6, HandingBack, Zenon
  <2> QED BY <2>2, <2>3
<1>10. ASSUME NEW s \in Slots, RecordOutcome(s) PROVE Consistent'
  BY <1>10, LettingGo DEF RecordOutcome, Settle
<1>11. ASSUME NEW w \in Workers, NEW t \in Types, ClaimBatch(w, t) PROVE Consistent'
  BY <1>11, ClaimConsistent
<1>12. ASSUME NEW w \in Workers, StartDispatches(w) PROVE Consistent'
  BY <1>12, MovingOn DEF StartDispatches, TickOf, IInv, TypeOK, Dispatch
<1>13. ASSUME NEW w \in Workers, Stop(w) \/ Restart(w) PROVE Consistent'
  BY <1>13, LettingGo DEF Stop, Restart
<1>14. ASSUME NEW w \in Workers, Drained(w) \/ Crash(w) \/ DrainTimeout(w)
       PROVE  Consistent'
  BY <1>14, LettingGo DEF Drained, Crash, DrainTimeout, Ends
<1>15. ASSUME NEW s \in Slots, DispatchAborts(s) PROVE Consistent'
  BY <1>15, LettingGo DEF DispatchAborts, Settle
<1>16. ASSUME NEW w \in Workers, ClaimResponseLost(w) PROVE Consistent'
  BY <1>16, LettingGo DEF ClaimResponseLost, Settle
<1>17. ASSUME NEW a \in Actions, CancelAction(a) PROVE Consistent'
  <2>1. row' = [row EXCEPT ![a] = Released(row[a], "cancelled")] /\ row[a] \in Row
    BY <1>17 DEF CancelAction, IInv, TypeOK
  <2>2. /\ row'[a].status = "cancelled" /\ row'[a].attempts = row[a].attempts
        /\ row'[a].lease = "none" /\ row'[a].owner = NoWorker
        /\ \A b \in Actions \ {a} : row'[b] = row[b]
    BY <2>1 DEF Released, IInv, TypeOK, Row
  <2>3. row[a].status \in {"pending", "failed"} /\ disp' = disp /\ sends' = sends
    BY <1>17 DEF CancelAction
  <2>4. {a} \in SUBSET Actions
    OBVIOUS
  <2> QED BY <2>2, <2>3, <2>4, Cancelling
<1>18. ASSUME NEW a \in Actions, ReplayAction(a) PROVE Consistent'
  <2>1. \A s \in Slots : ~Holds(s, a)
    BY <1>18 DEF ReplayAction, IInv, Consistent, HolderAgreesWithRow
  <2>2. /\ row'[a].status = "pending" /\ row'[a].attempts = 0
        /\ row'[a].lease = "none" /\ row'[a].owner = NoWorker
        /\ \A b \in Actions \ {a} : row'[b] = row[b] /\ sends'[b] = sends[b]
        /\ disp' = disp /\ sends'[a] = 0
    BY <1>18 DEF ReplayAction, Released, IInv, TypeOK, Row
  <2>3. DispatchHasAction' /\ SingleHolder' /\ HolderAgreesWithRow' /\ SendBudget'
    BY <2>1, <2>2 DEF IInv, Consistent, DispatchHasAction, SingleHolder,
                      HolderAgreesWithRow, SendBudget
  <2>4. NoLockOutsideClaim' /\ WaitingRowsHaveAttempts' /\ SendsWithinAttempts'
    BY <2>2 DEF IInv, Consistent, NoLockOutsideClaim, WaitingRowsHaveAttempts,
                SendsWithinAttempts
  <2> QED BY <2>3, <2>4 DEF Consistent
<1>19. ASSUME NEW t \in Types, ArchiveDead(t) PROVE Consistent'
  <2> DEFINE S == {a \in Actions : TypeOf[a] = t /\ row[a].status = "dead"}
  <2>1. S \in SUBSET Actions /\ \A a \in S : row[a].status = "dead"
    OBVIOUS
  <2>2. \A a \in S : /\ row'[a].status = "cancelled"
                     /\ row'[a].attempts = row[a].attempts
                     /\ row'[a].lease = "none" /\ row'[a].owner = NoWorker
    BY <1>19, ZenonT(40) DEF ArchiveDead, Released, IInv, TypeOK, Row
  <2>3. disp' = disp /\ sends' = sends /\ \A a \in Actions \ S : row'[a] = row[a]
    BY <1>19 DEF ArchiveDead
  <2> HIDE DEF S
  <2> QED BY <2>1, <2>2, <2>3, Cancelling
<1>20. ASSUME NEW c \in Accounts, CancelPendingByAccount(c) PROVE Consistent'
  <2> DEFINE S == {a \in Actions : AccountOf[a] = c
                                   /\ row[a].status \in {"pending", "failed"}}
  <2>1. S \in SUBSET Actions /\ \A a \in S : row[a].status \in {"pending", "failed"}
    OBVIOUS
  (* The UPDATE does not write the lock columns; there is no lock to write. *)
  <2>2. \A a \in S : row[a].lease = "none" /\ row[a].owner = NoWorker
    BY <2>1 DEF IInv, Consistent, NoLockOutsideClaim
  <2>3. \A a \in S : /\ row'[a].status = "cancelled"
                     /\ row'[a].attempts = row[a].attempts
                     /\ row'[a].lease = "none" /\ row'[a].owner = NoWorker
    BY <1>20, <2>2 DEF CancelPendingByAccount, IInv, TypeOK, Row
  <2>4. disp' = disp /\ sends' = sends /\ \A a \in Actions \ S : row'[a] = row[a]
    BY <1>20 DEF CancelPendingByAccount
  <2> HIDE DEF S
  <2> QED BY <2>1, <2>3, <2>4, Cancelling
<1>21. ASSUME NEW a \in Actions, BecomeDue(a) \/ LeaseExpires(a) PROVE Consistent'
  <2>1. LeaseExpires(a) => Taken(a)
    BY DEF LeaseExpires, IInv, Consistent, NoLockOutsideClaim
  <2>2. \A b \in Actions : /\ row'[b].status = row[b].status
                           /\ row'[b].attempts = row[b].attempts
                           /\ row'[b].owner = row[b].owner
                           /\ Taken(b) \/ row'[b].lease = row[b].lease
    BY <1>21, <2>1 DEF BecomeDue, LeaseExpires, IInv, TypeOK, Row
  <2>3. disp' = disp /\ sends' = sends
    BY <1>21 DEF BecomeDue, LeaseExpires
  <2> QED BY <2>2, <2>3, TimePasses
<1>22. ASSUME UNCHANGED vars PROVE Consistent'
  BY <1>22, LettingGo DEF vars
<1> QED
  BY <1>1, <1>2, <1>3, <1>4, <1>5, <1>6, <1>7, <1>8, <1>9, <1>10, <1>11, <1>12, <1>13,
     <1>14, <1>15, <1>16, <1>17, <1>18, <1>19, <1>20, <1>21, <1>22
     DEF Next, DispatchStep, ProcessStep, FaultStep, OperatorStep, TimeStep

-----------------------------------------------------------------------------
(* The theorems.                                                           *)

(* The initial state satisfies the invariant. *)
LEMMA Start == Init => IInv
<1> SUFFICES ASSUME Init PROVE IInv
  OBVIOUS
<1>1. TypeOK
  BY RecordsTyped DEF Init, TypeOK, Process
<1>2. Consistent
  BY DEF Init, Absent, Free, Consistent, DispatchHasAction, SingleHolder,
         HolderAgreesWithRow, NoLockOutsideClaim, WaitingRowsHaveAttempts,
         SendsWithinAttempts, SendBudget
<1> QED BY <1>1, <1>2 DEF IInv

(* Every step keeps the invariant. *)
LEMMA Step == IInv /\ [Next]_vars => IInv'
BY TypeStep, ConsistentStep DEF IInv

(* The inductive invariant holds throughout, for every number of processes, slots,
   actions, faults, shutdowns and replays. *)
THEOREM InductiveInvariant == Spec => []IInv
BY Start, Step, PTL DEF Spec

(* Every variable keeps its type.  That attempts stays within max_attempts, although
   markFailed writes the claim's copy plus one, needs the whole invariant. *)
THEOREM TypeCorrect == Spec => []TypeOK
<1>1. IInv => TypeOK
  BY DEF IInv
<1> QED BY <1>1, InductiveInvariant, PTL

(* However many processes claim and however many crash: one dispatch per row. *)
THEOREM Exclusion == Spec => []SingleHolder
<1>1. IInv => SingleHolder
  BY DEF IInv, Consistent
<1> QED BY <1>1, InductiveInvariant, PTL

(* What dispatch() remembers of its row is true whenever it writes the row by id. *)
THEOREM Agreement == Spec => []HolderAgreesWithRow
<1>1. IInv => HolderAgreesWithRow
  BY DEF IInv, Consistent
<1> QED BY <1>1, InductiveInvariant, PTL

(* Neither a lock nor an exhausted counter hides a waiting row from claimBatch. *)
THEOREM NothingHidden == Spec => []NothingHidesWaitingRow
<1>1. IInv => NothingHidesWaitingRow
  BY DEF IInv, Consistent, NothingHidesWaitingRow
<1> QED BY <1>1, InductiveInvariant, PTL

(* X receives an action at most once per attempt charged to it. *)
THEOREM BoundedSends == Spec => []SendsWithinAttempts
<1>1. IInv => SendsWithinAttempts
  BY DEF IInv, Consistent
<1> QED BY <1>1, InductiveInvariant, PTL

-----------------------------------------------------------------------------
(* What a step may do to a row.                                            *)

Keeps(a) == row'[a].attempts = row[a].attempts

(* The status machine the statements implement together, attempts included. *)
RowMoves(a) ==
    \/ row'[a].status = row[a].status /\ Keeps(a)
    \/ row[a].status = "absent" /\ row'[a].status = "pending" /\ Keeps(a)
    \/ /\ row[a].status \in {"pending", "failed"}
       /\ row'[a].status \in {"claimed", "cancelled"} /\ Keeps(a)
    \/ row[a].status = "claimed" /\ row'[a].status \in {"pending", "running"} /\ Keeps(a)
    \/ row[a].status = "running" /\ row'[a].status = "succeeded" /\ Keeps(a)
    \/ /\ row[a].status = "running" /\ row'[a].status \in {"failed", "dead"}
       /\ row'[a].attempts = row[a].attempts + 1
    \/ row[a].status = "dead" /\ row'[a].status = "cancelled" /\ Keeps(a)
    \/ /\ row[a].status \in {"dead", "failed", "cancelled"}
       /\ row'[a].status = "pending" /\ row'[a].attempts = 0

(* Every step moves every row along RowMoves. *)
LEMMA RowSteps == ASSUME IInv, [Next]_vars, NEW a \in Actions PROVE RowMoves(a)
<1> USE DEF RowMoves, Keeps
<1>1. row[a] \in Row /\ \A b \in Actions : row[b] \in Row
  BY DEF IInv, TypeOK
<1>2. CASE UNCHANGED row
  BY <1>2
<1>3. ASSUME NEW b \in Actions, NEW due \in BOOLEAN, Enqueue(b, due) PROVE RowMoves(a)
  <2>1. row[b].attempts = 0
    BY <1>3 DEF Enqueue, IInv, Consistent, SendBudget
  <2> QED BY <1>3, <2>1 DEF Enqueue, Absent, IInv, TypeOK
<1>4. ASSUME NEW s \in Slots, Defer(s) PROVE RowMoves(a)
  <2>1. /\ disp[s].action \in Actions /\ row[disp[s].action].attempts = disp[s].attempts
        /\ row[disp[s].action].status = "claimed"
    BY <1>4, OwnRow DEF Defer, IInv, Consistent, HolderAgreesWithRow
  <2> QED BY <1>1, <1>4, <2>1 DEF Defer, Released, IInv, TypeOK, Row
<1>5. ASSUME NEW s \in Slots, MarkRunning(s) PROVE RowMoves(a)
  BY <1>1, <1>5 DEF MarkRunning, IInv, TypeOK, Row
<1>6. ASSUME NEW s \in Slots, PersistSuccess(s) PROVE RowMoves(a)
  <2>1. disp[s].action \in Actions /\ row[disp[s].action].status = "running"
    BY <1>6, OwnRow DEF PersistSuccess, IInv, Consistent, HolderAgreesWithRow
  <2> QED BY <1>1, <1>6, <2>1 DEF PersistSuccess, Released, IInv, TypeOK, Row
<1>7. ASSUME NEW s \in Slots, PersistFailure(s) PROVE RowMoves(a)
  <2>1. /\ disp[s].action \in Actions /\ row[disp[s].action].attempts = disp[s].attempts
        /\ row[disp[s].action].status = "running"
    BY <1>7, OwnRow DEF PersistFailure, IInv, Consistent, HolderAgreesWithRow
  <2> QED BY <1>1, <1>7, <2>1 DEF PersistFailure, Released, IInv, TypeOK, Row
<1>8. ASSUME NEW w \in Workers, NEW t \in Types, ClaimBatch(w, t) PROVE RowMoves(a)
  <2>1. PICK P \in SUBSET FreeSlots : \E pick \in Injection(P, Claimable(t)) :
           ClaimedBy(w, P, pick)
    BY <1>8, ClaimShape
  <2>2. PICK pick \in Injection(P, Claimable(t)) : ClaimedBy(w, P, pick)
    BY <2>1
  <2>3. a \in Range(pick) => row[a].status \in {"pending", "failed"}
    BY <2>2 DEF Range, Injection, Claimable
  <2> QED BY <1>1, <2>2, <2>3 DEF ClaimedBy, Row
<1>9. ASSUME NEW b \in Actions, CancelAction(b) \/ ReplayAction(b) PROVE RowMoves(a)
  <2>1. CASE CancelAction(b)
    BY <1>1, <2>1 DEF CancelAction, Released, IInv, TypeOK, Row
  <2>2. CASE ReplayAction(b)
    BY <1>1, <2>2 DEF ReplayAction, Released, IInv, TypeOK, Row
  <2> QED BY <1>9, <2>1, <2>2
<1>10. ASSUME NEW t \in Types, ArchiveDead(t) PROVE RowMoves(a)
  BY <1>1, <1>10 DEF ArchiveDead, Released, Row
<1>11. ASSUME NEW c \in Accounts, CancelPendingByAccount(c) PROVE RowMoves(a)
  BY <1>1, <1>11 DEF CancelPendingByAccount, Row
<1>12. ASSUME NEW b \in Actions, BecomeDue(b) \/ LeaseExpires(b) PROVE RowMoves(a)
  <2>1. CASE BecomeDue(b)
    BY <1>1, <2>1 DEF BecomeDue, IInv, TypeOK, Row
  <2>2. CASE LeaseExpires(b)
    BY <1>1, <2>2 DEF LeaseExpires, IInv, TypeOK, Row
  <2> QED BY <1>12, <2>1, <2>2
<1> QED
  BY <1>2, <1>3, <1>4, <1>5, <1>6, <1>7, <1>8, <1>9, <1>10, <1>11, <1>12
     DEF Next, DispatchStep, ProcessStep, FaultStep, OperatorStep, TimeStep, vars, Gate,
         SendToX, ExecutorSucceeds, ExecutorFails, RecordOutcome, StartDispatches, Stop,
         Drained, Restart, DispatchAborts, ClaimResponseLost, Crash, DrainTimeout

(* A succeeded row stays succeeded: no late dispatch and no operator touches it. *)
THEOREM SuccessIsFinal == Spec => SucceededIsFinal
<1>1. IInv /\ [Next]_vars =>
        \A a \in Actions : row[a].status = "succeeded" => row'[a].status = "succeeded"
  BY RowSteps DEF RowMoves
<1> QED BY <1>1, InductiveInvariant, PTL DEF Spec, SucceededIsFinal

(* The stale copy of attempts that markFailed writes back never undoes an attempt. *)
THEOREM NoRollBack == Spec => AttemptsNeverRollBack
<1>1. IInv /\ [Next]_vars =>
        \A a \in Actions :
           row'[a].attempts # row[a].attempts =>
              \/ row'[a].attempts = row[a].attempts + 1 /\ row[a].status = "running"
              \/ /\ row'[a].attempts = 0
                 /\ row[a].status \in {"dead", "failed", "cancelled"}
                 /\ row'[a].status = "pending"
  BY RowSteps DEF RowMoves, Keeps
<1> QED BY <1>1, InductiveInvariant, PTL DEF Spec, AttemptsNeverRollBack

(* What has been written of an action stands: its success and its count of attempts. *)
THEOREM WrittenStands == Spec => HistoryStands
<1> QED BY SuccessIsFinal, NoRollBack, PTL DEF HistoryStands


-----------------------------------------------------------------------------
(* Implementation of the lifecycle.                                        *)

(* The abstract state of action a: whether somebody holds it, and has sent it. *)
Held(a) == \E s \in Slots : Holds(s, a)
SpentOn(a) == \E s \in Slots : Holds(s, a) /\ disp[s].sent

(* What LifecycleState says of a row, by cases. *)
StateTable(a) ==
    /\ row[a].status = "absent" => LifecycleState(a) = "none"
    /\ row[a].status \in {"pending", "failed"} => LifecycleState(a) = "open"
    /\ Taken(a) /\ Held(a) => LifecycleState(a) = "taken"
    /\ Taken(a) /\ ~Held(a) => LifecycleState(a) = "lost"
    /\ row[a].status = "succeeded" => LifecycleState(a) = "done"
    /\ row[a].status = "dead" => LifecycleState(a) = "dead"
    /\ row[a].status = "cancelled" => LifecycleState(a) = "cancelled"

(* The table is the definition, before a step and after it. *)
LEMMA TableHolds == ASSUME NEW a PROVE StateTable(a) /\ StateTable(a)'
<1>1. StateTable(a)
  BY DEF StateTable, LifecycleState, Held
<1>2. StateTable(a)'
  BY DEF StateTable, LifecycleState, Held
<1> QED BY <1>1, <1>2

(* What a step does to one action: nothing the lifecycle sees, or a move. *)
Same(a) == LifecycleState(a)' = LifecycleState(a) /\ SpentOn(a)' = SpentOn(a)
Moved(a, to) == LifecycleState(a)' = to /\ ~SpentOn(a)'

(* A row whose status stays, or goes from claimed to running, and whose holders stay. *)
LEMMA SameState ==
    ASSUME NEW a \in Actions,
           row'[a].status = row[a].status \/ (Taken(a) /\ Taken(a)'),
           Held(a)' <=> Held(a), SpentOn(a)' <=> SpentOn(a)
    PROVE  Same(a)
<1>1. StateTable(a) /\ StateTable(a)'
  BY TableHolds
<1>2. SpentOn(a) \in BOOLEAN /\ SpentOn(a)' \in BOOLEAN
  BY DEF SpentOn
<1>3. LifecycleState(a)' = LifecycleState(a)
  BY DEF LifecycleState, Held
<1> QED BY <1>2, <1>3 DEF Same

(* The actions of S move, the others stay. *)
LEMMA IsMove ==
    ASSUME NEW S \in SUBSET Actions, NEW to,
           \A a \in S : Moved(a, to), \A a \in Actions \ S : Same(a)
    PROVE  Lifecycle!Move(S, to)
<1>1. [a \in Actions |-> LifecycleState(a)]' =
         [a \in Actions |-> IF a \in S THEN to ELSE [b \in Actions |-> LifecycleState(b)][a]]
  BY DEF Moved, Same
<1>2. [a \in Actions |-> SpentOn(a)]' =
         [a \in Actions |-> [b \in Actions |-> SpentOn(b)][a] /\ a \notin S]
  <2>1. \A a \in Actions : SpentOn(a)' = (SpentOn(a) /\ a \notin S)
    BY DEF Moved, Same, SpentOn
  <2> QED BY <2>1
<1> QED BY <1>1, <1>2 DEF Lifecycle!Move, SpentOn

(* A step of the lifecycle, or none. *)
LifecycleStep == [Lifecycle!Next]_Lifecycle!vars

(* Nothing the lifecycle sees has happened. *)
LEMMA IsStutter ==
    ASSUME \A a \in Actions : Same(a), sends' = sends
    PROVE  LifecycleStep
<1>1. [a \in Actions |-> LifecycleState(a)]' = [a \in Actions |-> LifecycleState(a)]
  BY DEF Same
<1>2. [a \in Actions |-> SpentOn(a)]' = [a \in Actions |-> SpentOn(a)]
  BY DEF Same
<1> QED BY <1>1, <1>2 DEF LifecycleStep, Lifecycle!vars, SpentOn

(* The moves of several actions at once, and of one. *)
LEMMA MoveIsStep ==
    ASSUME NEW S \in SUBSET Actions, NEW to, Lifecycle!Move(S, to), sends' = sends,
           \/ to = "taken" /\ \A a \in S : LifecycleState(a) = "open"
           \/ to = "lost" /\ \A a \in S : LifecycleState(a) = "taken"
           \/ to = "cancelled" /\ \A a \in S : LifecycleState(a) \in {"open", "dead"}
    PROVE  LifecycleStep
<1>1. CASE to = "taken" /\ \A a \in S : LifecycleState(a) = "open"
  <2>1. Lifecycle!Take(S)
    BY <1>1 DEF Lifecycle!Take, Lifecycle!In
  <2> QED BY <2>1 DEF LifecycleStep, Lifecycle!Next
<1>2. CASE to = "lost" /\ \A a \in S : LifecycleState(a) = "taken"
  <2>1. Lifecycle!Lose(S)
    BY <1>2 DEF Lifecycle!Lose, Lifecycle!In
  <2> QED BY <2>1 DEF LifecycleStep, Lifecycle!Next
<1>3. CASE to = "cancelled" /\ \A a \in S : LifecycleState(a) \in {"open", "dead"}
  <2>1. Lifecycle!Cancel(S)
    BY <1>3 DEF Lifecycle!Cancel, Lifecycle!In
  <2> QED BY <2>1 DEF LifecycleStep, Lifecycle!Next
<1> QED BY <1>1, <1>2, <1>3

(* Its holder writes an outcome. *)
LEMMA OutcomeIsStep ==
    ASSUME NEW a \in Actions, NEW to \in {"done", "open", "dead"},
           Lifecycle!Move({a}, to), sends' = sends, LifecycleState(a) = "taken"
    PROVE  LifecycleStep
<1>1. CASE to = "done"
  <2>1. Lifecycle!Succeed(a)
    BY <1>1 DEF Lifecycle!Succeed
  <2> QED BY <2>1 DEF LifecycleStep, Lifecycle!Next
<1>2. CASE to # "done"
  <2>1. Lifecycle!GiveBack(a, to)
    BY DEF Lifecycle!GiveBack
  <2> QED BY <1>2, <2>1 DEF LifecycleStep, Lifecycle!Next
<1> QED BY <1>1, <1>2

(* A producer's INSERT or an operator's replay. *)
LEMMA RequestIsStep ==
    ASSUME NEW a \in Actions, Lifecycle!Move({a}, "open"),
           sends' = [sends EXCEPT ![a] = 0],
           LifecycleState(a) \in {"none", "open", "dead", "cancelled"}
    PROVE  LifecycleStep
<1>1. Lifecycle!Request(a)
  BY DEF Lifecycle!Request
<1> QED BY <1>1 DEF LifecycleStep, Lifecycle!Next

(* Dispatches that end or die without writing their row lose it, and lose nothing else. *)
LEMMA LosingIsStep ==
    ASSUME IInv, row' = row, sends' = sends,
           \A s \in Slots : disp'[s] = disp[s] \/ disp'[s] = Free
    PROVE  LifecycleStep
<1>0. PICK S : S = {a \in Actions : Held(a) /\ ~Held(a)'}
  OBVIOUS
<1>1. \A s \in Slots : disp'[s] = disp[s] \/ disp'[s].phase = "free"
  BY DEF Free
<1>2. \A a \in Actions : Held(a) => Taken(a)
  BY DEF Held, IInv, Consistent, HolderAgreesWithRow
<1>3. \A a \in S : LifecycleState(a) = "taken"
  BY <1>0, <1>2, TableHolds DEF StateTable
<1>4. \A a \in S : Moved(a, "lost")
  <2> SUFFICES ASSUME NEW a \in S PROVE Moved(a, "lost")
    OBVIOUS
  <2>1. Taken(a)' /\ ~Held(a)'
    BY <1>0, <1>2
  <2>2. ~SpentOn(a)'
    BY <2>1 DEF SpentOn, Held
  <2> QED BY <2>1, <2>2, TableHolds DEF StateTable, Moved
<1>5. \A a \in Actions \ S : Same(a)
  <2> SUFFICES ASSUME NEW a \in Actions \ S PROVE Same(a)
    OBVIOUS
  <2>1. Held(a)' => Held(a)
    BY <1>1 DEF Held
  <2>2. Held(a)' <=> Held(a)
    BY <1>0, <2>1
  <2>3. SpentOn(a)' <=> SpentOn(a)
    <3>1. SpentOn(a)' => SpentOn(a)
      BY <1>1 DEF SpentOn
    <3>2. ASSUME SpentOn(a) PROVE SpentOn(a)'
      <4>1. PICK s \in Slots : Holds(s, a) /\ disp[s].sent
        BY <3>2 DEF SpentOn
      <4>2. PICK q \in Slots : Holds(q, a)'
        BY <2>2, <4>1 DEF Held
      <4>3. Holds(q, a) /\ disp'[q] = disp[q]
        BY <1>1, <4>2
      <4>4. q = s
        BY <4>1, <4>3 DEF IInv, Consistent, SingleHolder
      <4> QED BY <4>1, <4>2, <4>3, <4>4 DEF SpentOn
    <3> QED BY <3>1, <3>2
  <2> QED BY <2>2, <2>3, SameState
<1>6. S \in SUBSET Actions
  BY <1>0
<1>7. Lifecycle!Move(S, "lost")
  BY <1>4, <1>5, <1>6, IsMove
<1> QED BY <1>3, <1>6, <1>7, MoveIsStep

(* An operator's cancel moves rows nobody holds. *)
LEMMA CancellingIsStep ==
    ASSUME IInv, NEW S \in SUBSET Actions,
           \A a \in S : row[a].status \in {"pending", "failed", "dead"},
           \A a \in S : row'[a].status = "cancelled",
           \A a \in Actions \ S : row'[a] = row[a],
           disp' = disp, sends' = sends
    PROVE  LifecycleStep
<1>1. \A a \in S : LifecycleState(a) \in {"open", "dead"} /\ LifecycleState(a)' = "cancelled"
  BY TableHolds DEF StateTable
<1>2. \A a \in Actions : (Held(a)' <=> Held(a)) /\ (SpentOn(a)' <=> SpentOn(a))
  BY DEF Held, SpentOn
<1>3. \A a \in S : ~SpentOn(a)
  BY DEF SpentOn, IInv, Consistent, HolderAgreesWithRow
<1>4. Lifecycle!Move(S, "cancelled")
  <2>1. \A a \in S : Moved(a, "cancelled")
    BY <1>1, <1>2, <1>3 DEF Moved
  <2>2. \A a \in Actions \ S : Same(a)
    BY <1>2, SameState
  <2> QED BY <2>1, <2>2, IsMove
<1> QED BY <1>1, <1>4, MoveIsStep

(* The statements by which a dispatch writes the outcome of its row. *)
LEMMA HandingBackIsStep ==
    ASSUME IInv, NEW s \in Slots, disp[s].phase \in {"defer", "succeed", "fail"},
           disp'[s].phase \in {"free", "record"},
           \A q \in Slots \ {s} : disp'[q] = disp[q],
           sends' = sends,
           \A b \in Actions \ {disp[s].action} : row'[b] = row[b],
           row'[disp[s].action].status \in {"pending", "failed", "succeeded", "dead"}
    PROVE  LifecycleStep
<1>0. PICK a : a = disp[s].action
  OBVIOUS
<1>1. /\ a \in Actions /\ Holds(s, a) /\ Taken(a)
      /\ \A q \in Slots : \A b \in Actions : Holds(q, b) => (b = a <=> q = s)
  BY <1>0, OwnRow DEF IInv, Consistent, HolderAgreesWithRow
<1>2. LifecycleState(a) = "taken"
  BY <1>1, TableHolds DEF StateTable, Held
<1>3. ~Held(a)' /\ ~SpentOn(a)'
  BY <1>0, <1>1 DEF Held, SpentOn
<1>4. PICK to \in {"done", "open", "dead"} : LifecycleState(a)' = to
  BY <1>0, TableHolds DEF StateTable
<1>5. Moved(a, to)
  BY <1>3, <1>4 DEF Moved
<1>6. \A b \in Actions \ {a} : Same(b)
  <2> SUFFICES ASSUME NEW b \in Actions \ {a} PROVE Same(b)
    OBVIOUS
  <2>1. \A q \in Slots : Holds(q, b)' <=> Holds(q, b)
    BY <1>0, <1>1
  <2>2. \A q \in Slots : Holds(q, b) => disp'[q] = disp[q]
    BY <1>1
  <2>3. (Held(b)' <=> Held(b)) /\ (SpentOn(b)' <=> SpentOn(b))
    BY <2>1, <2>2 DEF Held, SpentOn
  <2> QED BY <1>0, <2>3, SameState
<1>7. Lifecycle!Move({a}, to)
  BY <1>1, <1>5, <1>6, IsMove
<1> QED BY <1>1, <1>2, <1>7, OutcomeIsStep

(* claimBatch takes open rows, one holder each, that have sent nothing yet. *)
LEMMA ClaimIsStep ==
    ASSUME IInv, NEW w \in Workers, NEW t \in Types, ClaimBatch(w, t)
    PROVE  LifecycleStep
<1>1. PICK P \in SUBSET FreeSlots : \E pick \in Injection(P, Claimable(t)) :
         ClaimedBy(w, P, pick)
  BY ClaimShape
<1>2. PICK pick \in Injection(P, Claimable(t)) : ClaimedBy(w, P, pick)
  BY <1>1
<1>3. PICK S : S = Range(pick)
  OBVIOUS
<1>4. /\ \A a : a \in S <=> \E s \in P : a = pick[s]
      /\ \A a \in S : a \in Actions /\ row[a].status \in {"pending", "failed"}
  BY <1>2, <1>3 DEF Range, Injection, Claimable
<1>5. \A s \in P : s \in Slots /\ disp[s].phase = "free" /\ pick[s] \in S
  BY <1>4 DEF FreeSlots
<1>6. /\ \A a \in S : row'[a].status = "claimed"
      /\ \A a \in Actions \ S : row'[a] = row[a]
  <2>1. \A a \in Actions : row[a] \in Row
    BY DEF IInv, TypeOK
  <2>2. row' = [a \in Actions |->
                 IF a \in S
                 THEN [row[a] EXCEPT !.status = "claimed", !.lease = "held", !.owner = w]
                 ELSE row[a]]
    BY <1>2, <1>3 DEF ClaimedBy
  <2>3. \A a \in S : a \in Actions
    BY <1>4
  <2> QED BY <2>1, <2>2, <2>3 DEF Row
<1>7. /\ \A s \in P : /\ disp'[s].phase = "tick" /\ disp'[s].action = pick[s]
                      /\ ~disp'[s].sent
      /\ \A s \in Slots \ P : disp'[s] = disp[s]
      /\ sends' = sends
  BY <1>2, <1>5 DEF ClaimedBy, Free
<1>8. \A s \in Slots : \A a \in Actions : Holds(s, a) => a \notin S
  BY <1>4 DEF IInv, Consistent, HolderAgreesWithRow
<1>9. \A a \in S : LifecycleState(a) = "open"
  BY <1>4, TableHolds DEF StateTable
<1>10. \A a \in S : Moved(a, "taken")
  <2> SUFFICES ASSUME NEW a \in S PROVE Moved(a, "taken")
    OBVIOUS
  <2>1. Held(a)'
    BY <1>4, <1>5, <1>7 DEF Held
  <2>2. ~SpentOn(a)'
    BY <1>4, <1>7, <1>8 DEF SpentOn
  <2>3. LifecycleState(a)' = "taken"
    BY <1>6, <2>1, TableHolds DEF StateTable
  <2> QED BY <2>2, <2>3 DEF Moved
<1>11. \A a \in Actions \ S : Same(a)
  <2> SUFFICES ASSUME NEW a \in Actions \ S PROVE Same(a)
    OBVIOUS
  <2>1. \A s \in P : ~Holds(s, a) /\ ~Holds(s, a)'
    BY <1>5, <1>7
  <2>2. (Held(a)' <=> Held(a)) /\ (SpentOn(a)' <=> SpentOn(a))
    BY <1>7, <2>1 DEF Held, SpentOn
  <2> QED BY <1>6, <2>2, SameState
<1>12. S \in SUBSET Actions
  BY <1>4
<1>13. Lifecycle!Move(S, "taken")
  BY <1>10, <1>11, <1>12, IsMove
<1> QED BY <1>7, <1>9, <1>12, <1>13, MoveIsStep

(* An INSERT or a replay writes a row nobody holds. *)
LEMMA RequestingIsStep ==
    ASSUME IInv, NEW a \in Actions,
           row[a].status \in {"absent", "dead", "failed", "cancelled"},
           row'[a].status = "pending",
           \A b \in Actions \ {a} : row'[b] = row[b],
           disp' = disp, sends' = [sends EXCEPT ![a] = 0]
    PROVE  LifecycleStep
<1>1. LifecycleState(a) \in {"none", "open", "dead", "cancelled"}
  BY TableHolds DEF StateTable
<1>2. LifecycleState(a)' = "open"
  BY TableHolds DEF StateTable
<1>3. \A b \in Actions : (Held(b)' <=> Held(b)) /\ (SpentOn(b)' <=> SpentOn(b))
  BY DEF Held, SpentOn
<1>4. ~SpentOn(a)
  BY DEF SpentOn, IInv, Consistent, HolderAgreesWithRow
<1>5. Lifecycle!Move({a}, "open")
  <2>1. \A b \in {a} : Moved(b, "open")
    BY <1>2, <1>3, <1>4 DEF Moved
  <2>2. \A b \in Actions \ {a} : Same(b)
    BY <1>3, SameState
  <2> QED BY <2>1, <2>2, IsMove
<1> QED BY <1>1, <1>5, RequestIsStep

(* The holder sends once, and has an attempt left for it. *)
LEMMA SendIsStep ==
    ASSUME IInv, NEW s \in Slots, SendToX(s)
    PROVE  LifecycleStep
<1>0. PICK a : a = disp[s].action
  OBVIOUS
<1>1. /\ a \in Actions /\ Holds(s, a) /\ Taken(a) /\ ~disp[s].sent
      /\ row[a].attempts < MaxAttempts /\ row[a].attempts \in Nat
      /\ \A q \in Slots : \A b \in Actions : Holds(q, b) => (b = a <=> q = s)
  BY <1>0, OwnRow DEF SendToX, IInv, Consistent, HolderAgreesWithRow, Row
<1>2. /\ row' = row /\ sends' = [sends EXCEPT ![a] = @ + 1]
      /\ \A q \in Slots \ {s} : disp'[q] = disp[q]
      /\ disp'[s].sent /\ disp'[s].phase = "exec" /\ disp'[s].action = a
  BY <1>0 DEF SendToX, IInv, TypeOK, Dispatch
<1>3. LifecycleState(a) = "taken"
  BY <1>1, TableHolds DEF StateTable, Held
<1>4. ~SpentOn(a) /\ SpentOn(a)'
  BY <1>1, <1>2 DEF SpentOn
<1>5. sends[a] < MaxAttempts
  <2>1. sends[a] <= row[a].attempts /\ sends[a] \in Nat
    BY <1>1 DEF IInv, Consistent, SendBudget, TypeOK
  <2> QED BY <1>1, <2>1
<1>6. \A b \in Actions : LifecycleState(b)' = LifecycleState(b)
  <2> SUFFICES ASSUME NEW b \in Actions PROVE LifecycleState(b)' = LifecycleState(b)
    OBVIOUS
  <2>1. Held(b)' <=> Held(b)
    BY <1>1, <1>2 DEF Held
  <2> QED BY <1>2, <2>1 DEF LifecycleState, Held
<1>7. \A b \in Actions \ {a} : SpentOn(b)' = SpentOn(b)
  BY <1>1, <1>2 DEF SpentOn
<1>8. [b \in Actions |-> SpentOn(b)]' = [[b \in Actions |-> SpentOn(b)] EXCEPT ![a] = TRUE]
  <2>1. SpentOn(a)' = TRUE
    BY <1>4 DEF SpentOn
  <2> QED BY <1>7, <2>1
<1>9. [b \in Actions |-> LifecycleState(b)]' = [b \in Actions |-> LifecycleState(b)]
  BY <1>6
<1>10. Lifecycle!Send(a)
  BY <1>1, <1>2, <1>3, <1>4, <1>5, <1>8, <1>9 DEF Lifecycle!Send, SpentOn
<1> QED BY <1>1, <1>10 DEF LifecycleStep, Lifecycle!Next

(* A dispatch moves on between claim and outcome: the lifecycle does not see it. *)
LEMMA MovingIsStutter ==
    ASSUME \A a \in Actions : row'[a].status = row[a].status \/ (Taken(a) /\ Taken(a)'),
           sends' = sends,
           \A s \in Slots :
              \/ disp'[s] = disp[s]
              \/ /\ disp'[s].action = disp[s].action /\ disp'[s].sent = disp[s].sent
                 /\ {disp[s].phase, disp'[s].phase} \subseteq HoldPhase
    PROVE  LifecycleStep
<1>1. \A a \in Actions : (Held(a)' <=> Held(a)) /\ (SpentOn(a)' <=> SpentOn(a))
  BY DEF Held, SpentOn
<1>2. \A a \in Actions : Same(a)
  BY <1>1, SameState
<1> QED BY <1>2, IsStutter

(* Every step of the queue is a step of the lifecycle, or none. *)
LEMMA StepImplements == ASSUME IInv, [Next]_vars PROVE LifecycleStep
<1>0. /\ \A a \in Actions : row[a] \in Row
      /\ \A s \in Slots : disp[s] \in Dispatch
  BY DEF IInv, TypeOK
<1>1. ASSUME NEW a \in Actions, NEW due \in BOOLEAN, Enqueue(a, due) PROVE LifecycleStep
  <2>1. /\ row'[a].status = "pending"
        /\ \A b \in Actions \ {a} : row'[b] = row[b]
    BY <1>1 DEF Enqueue, Absent, IInv, TypeOK
  <2>2. sends[a] = 0
    BY <1>1 DEF Enqueue, IInv, Consistent, SendBudget, SendsWithinAttempts, TypeOK
  <2>3. sends' = [sends EXCEPT ![a] = 0]
    BY <1>1, <2>2 DEF Enqueue, IInv, TypeOK
  <2>4. row[a].status = "absent" /\ disp' = disp
    BY <1>1 DEF Enqueue
  <2> QED BY <2>1, <2>3, <2>4, RequestingIsStep
<1>2. ASSUME NEW s \in Slots, NEW paused \in BOOLEAN, Gate(s, paused) PROVE LifecycleStep
  <2>1. disp' = [disp EXCEPT ![s].phase = IF paused THEN "defer" ELSE "start"]
    BY <1>2 DEF Gate, Advance
  <2>2. row' = row /\ sends' = sends /\ disp[s].phase = "gate"
    BY <1>2 DEF Gate
  <2>3. \A q \in Slots : \/ disp'[q] = disp[q]
                         \/ /\ disp'[q].action = disp[q].action
                            /\ disp'[q].sent = disp[q].sent
                            /\ {disp[q].phase, disp'[q].phase} \subseteq HoldPhase
    BY <1>0, <2>1, <2>2 DEF IInv, TypeOK, Dispatch
  <2> QED BY <2>2, <2>3, MovingIsStutter
<1>3. ASSUME NEW s \in Slots, Defer(s) \/ PersistSuccess(s) \/ PersistFailure(s)
      PROVE  LifecycleStep
  <2>1. disp[s].action \in Actions /\ row[disp[s].action] \in Row
    BY <1>3, OwnRow DEF Defer, PersistSuccess, PersistFailure
  <2>2. /\ disp[s].phase \in {"defer", "succeed", "fail"} /\ sends' = sends
        /\ disp'[s].phase \in {"free", "record"}
        /\ \A q \in Slots \ {s} : disp'[q] = disp[q]
    BY <1>0, <1>3 DEF Defer, PersistSuccess, PersistFailure, Settle, Advance, Free, IInv,
                      TypeOK, Dispatch
  <2>3. /\ \A b \in Actions \ {disp[s].action} : row'[b] = row[b]
        /\ row'[disp[s].action].status \in {"pending", "failed", "succeeded", "dead"}
    <3>1. CASE Defer(s)
      BY <2>1, <3>1 DEF Defer, Released, IInv, TypeOK, Row
    <3>2. CASE PersistSuccess(s)
      BY <2>1, <3>2 DEF PersistSuccess, Released, IInv, TypeOK, Row
    <3>3. CASE PersistFailure(s)
      BY <2>1, <3>3 DEF PersistFailure, Released, IInv, TypeOK, Row
    <3> QED BY <1>3, <3>1, <3>2, <3>3
  <2> QED BY <2>2, <2>3, HandingBackIsStep
<1>4. ASSUME NEW s \in Slots, MarkRunning(s) PROVE LifecycleStep
  <2>1. disp[s].action \in Actions /\ row[disp[s].action].status = "claimed"
    BY <1>4, OwnRow DEF MarkRunning, IInv, Consistent, HolderAgreesWithRow
  <2>2. \A a \in Actions : row'[a].status = row[a].status \/ (Taken(a) /\ Taken(a)')
    BY <1>0, <1>4, <2>1 DEF MarkRunning, IInv, TypeOK, Row
  <2>3. \A q \in Slots : \/ disp'[q] = disp[q]
                         \/ /\ disp'[q].action = disp[q].action
                            /\ disp'[q].sent = disp[q].sent
                            /\ {disp[q].phase, disp'[q].phase} \subseteq HoldPhase
    BY <1>0, <1>4 DEF MarkRunning, Advance, IInv, TypeOK, Dispatch
  <2>4. sends' = sends
    BY <1>4 DEF MarkRunning
  <2> QED BY <2>2, <2>3, <2>4, MovingIsStutter
<1>5. ASSUME NEW s \in Slots,
             ExecutorSucceeds(s) \/ \E class \in ErrorClass : ExecutorFails(s, class)
      PROVE  LifecycleStep
  <2>1. row' = row /\ sends' = sends
    BY <1>5 DEF ExecutorSucceeds, ExecutorFails
  <2>2. \A q \in Slots : \/ disp'[q] = disp[q]
                         \/ /\ disp'[q].action = disp[q].action
                            /\ disp'[q].sent = disp[q].sent
                            /\ {disp[q].phase, disp'[q].phase} \subseteq HoldPhase
    BY <1>0, <1>5 DEF ExecutorSucceeds, ExecutorFails, Advance, IInv, TypeOK, Dispatch
  <2> QED BY <2>1, <2>2, MovingIsStutter
<1>6. ASSUME NEW s \in Slots, RecordOutcome(s) \/ DispatchAborts(s) PROVE LifecycleStep
  BY <1>6, LosingIsStep DEF RecordOutcome, DispatchAborts, Settle
<1>7. ASSUME NEW w \in Workers, StartDispatches(w) PROVE LifecycleStep
  <2>1. row' = row /\ sends' = sends
    BY <1>7 DEF StartDispatches
  <2>2. \A q \in Slots : \/ disp'[q] = disp[q]
                         \/ /\ disp'[q].action = disp[q].action
                            /\ disp'[q].sent = disp[q].sent
                            /\ {disp[q].phase, disp'[q].phase} \subseteq HoldPhase
    BY <1>0, <1>7 DEF StartDispatches, TickOf, IInv, TypeOK, Dispatch
  <2> QED BY <2>1, <2>2, MovingIsStutter
<1>8. ASSUME NEW w \in Workers, ClaimResponseLost(w) PROVE LifecycleStep
  BY <1>8, LosingIsStep DEF ClaimResponseLost, Settle
<1>9. ASSUME NEW w \in Workers, Stop(w) \/ Restart(w) PROVE LifecycleStep
  BY <1>9, LosingIsStep DEF Stop, Restart
<1>10. ASSUME NEW w \in Workers, Drained(w) \/ Crash(w) \/ DrainTimeout(w)
       PROVE  LifecycleStep
  BY <1>10, LosingIsStep DEF Drained, Crash, DrainTimeout, Ends
<1>11. ASSUME NEW a \in Actions, CancelAction(a) PROVE LifecycleStep
  <2>1. /\ row[a].status \in {"pending", "failed"} /\ disp' = disp /\ sends' = sends
        /\ row'[a].status = "cancelled"
        /\ \A b \in Actions \ {a} : row'[b] = row[b]
    BY <1>0, <1>11 DEF CancelAction, Released, IInv, TypeOK, Row
  <2>2. {a} \in SUBSET Actions
    OBVIOUS
  <2> QED BY <2>1, <2>2, CancellingIsStep
<1>12. ASSUME NEW a \in Actions, ReplayAction(a) PROVE LifecycleStep
  <2>1. row'[a].status = "pending" /\ \A b \in Actions \ {a} : row'[b] = row[b]
    BY <1>0, <1>12 DEF ReplayAction, Released, IInv, TypeOK, Row
  <2> QED BY <1>12, <2>1, RequestingIsStep DEF ReplayAction
<1>13. ASSUME NEW t \in Types, ArchiveDead(t) PROVE LifecycleStep
  <2>1. PICK S \in SUBSET Actions : S = {a \in Actions : TypeOf[a] = t /\ row[a].status = "dead"}
    OBVIOUS
  <2>2. /\ \A a \in S : row[a].status = "dead" /\ row'[a].status = "cancelled"
        /\ \A a \in Actions \ S : row'[a] = row[a]
        /\ disp' = disp /\ sends' = sends
    BY <1>0, <1>13, <2>1 DEF ArchiveDead, Released, Row
  <2> QED BY <2>2, CancellingIsStep
<1>14. ASSUME NEW c \in Accounts, CancelPendingByAccount(c) PROVE LifecycleStep
  <2>1. PICK S \in SUBSET Actions :
           S = {a \in Actions : /\ AccountOf[a] = c
                                /\ row[a].status \in {"pending", "failed"}}
    OBVIOUS
  <2>2. /\ \A a \in S : /\ row[a].status \in {"pending", "failed"}
                        /\ row'[a].status = "cancelled"
        /\ \A a \in Actions \ S : row'[a] = row[a]
        /\ disp' = disp /\ sends' = sends
    BY <1>0, <1>14, <2>1 DEF CancelPendingByAccount, Row
  <2> QED BY <2>2, CancellingIsStep
<1>15. ASSUME NEW a \in Actions, BecomeDue(a) \/ LeaseExpires(a) PROVE LifecycleStep
  <2>1. /\ \A b \in Actions : row'[b].status = row[b].status
        /\ disp' = disp /\ sends' = sends
    BY <1>0, <1>15, SMTT(30) DEF BecomeDue, LeaseExpires, IInv, TypeOK, Row
  <2> QED BY <2>1, MovingIsStutter
<1>16. CASE UNCHANGED vars
  BY <1>16, LosingIsStep DEF vars
<1>17. ASSUME NEW s \in Slots, SendToX(s) PROVE LifecycleStep
  BY <1>17, SendIsStep
<1>18. ASSUME NEW w \in Workers, NEW t \in Types, ClaimBatch(w, t) PROVE LifecycleStep
  BY <1>18, ClaimIsStep
<1> QED
  BY <1>1, <1>2, <1>3, <1>4, <1>5, <1>6, <1>7, <1>8, <1>9, <1>10, <1>11, <1>12, <1>13,
     <1>14, <1>15, <1>16, <1>17, <1>18
     DEF Next, DispatchStep, ProcessStep, FaultStep, OperatorStep, TimeStep

(* Nothing is requested at first. *)
LEMMA InitImplements == Init => Lifecycle!Init
<1> SUFFICES ASSUME Init PROVE Lifecycle!Init
  OBVIOUS
<1>1. \A a \in Actions : LifecycleState(a) = "none"
  BY TableHolds DEF StateTable, Init, Absent
<1>2. \A a \in Actions : SpentOn(a) = FALSE
  BY DEF SpentOn, Init, Free
<1>3. sends = [a \in Actions |-> 0]
  BY DEF Init
<1> QED BY <1>1, <1>2, <1>3 DEF Lifecycle!Init, SpentOn

(* The claim, dispatch and operator code implements the lifecycle: an action is taken by
   one holder at a time, sent at most once per taking and MaxAttempts times per request,
   and never leaves success; what a crash or a lost response leaves behind is `lost`. *)
THEOREM LifecycleImplemented == Spec => ImplementsLifecycle
<1>1. IInv /\ [Next]_vars => [Lifecycle!Next]_Lifecycle!vars
  BY StepImplements DEF LifecycleStep
<1> QED BY <1>1, InitImplements, InductiveInvariant, PTL
        DEF Spec, ImplementsLifecycle, Lifecycle!Spec

HIDE QueueAssumption
HIDE DEF Holds, HoldPhase, Taken, EarlyPhase, AttemptsMade

-----------------------------------------------------------------------------
(* The engine.                                                             *)

\* A dispatch, whatever it asks or tells the breaker, is a dispatch of the queue.
LEMMA SlotStep ==
    ASSUME NEW s \in Slots,
           \/ AskBreaker(s) \/ RowStep(s) \/ ReportSuccess(s) \/ ReportFailure(s)
           \/ RecordSession(s)
    PROVE  Next
<1>1. IsPaused(AccountAt(s)) \in BOOLEAN
  BY DEF IsPaused
<1>2. AskBreaker(s) => \E paused \in BOOLEAN : Gate(s, paused)
  BY <1>1, Zenon DEF AskBreaker
<1> QED BY <1>2, Zenon DEF RowStep, ReportSuccess, ReportFailure, RecordSession, Next, DispatchStep

\* So is every step of the processes, the operators and the clock.
LEMMA QueueStep == ASSUME [EngineNext]_engineVars PROVE [Next]_vars
<1>1. ASSUME NEW s \in Slots,
             \/ AskBreaker(s) \/ RowStep(s) \/ ReportSuccess(s) \/ ReportFailure(s)
             \/ RecordSession(s)
      PROVE  Next
  BY <1>1, SlotStep
<1>2. BreakerStep => UNCHANGED vars
  BY DEF BreakerStep
<1>3. EngineFault => Next
  BY Zenon DEF EngineFault, Next, FaultStep
<1>4. ASSUME NEW w \in Workers, WorkerStep(w) PROVE Next
  BY <1>4, Zenon DEF WorkerStep, Next, ProcessStep
<1>5. QueueRequest => Next
  BY Zenon DEF QueueRequest, Next, OperatorStep
<1>6. ASSUME NEW c \in Accounts, DeleteAccount(c) PROVE Next
  BY <1>6, Zenon DEF DeleteAccount, Next, OperatorStep
<1>7. ASSUME NEW c \in Accounts, NEW k \in Admins, ClearBreaker(k, c) PROVE UNCHANGED vars
  BY <1>7 DEF ClearBreaker
<1>8. ASSUME NEW c \in Accounts, LoginStores(c) \/ LoginReports(c) \/ ReauthFails(c)
      PROVE  UNCHANGED vars
  BY <1>8 DEF LoginStores, LoginReports, ReauthFails
<1>9. Clock => Next \/ UNCHANGED vars
  BY Zenon DEF Clock, Next, TimeStep
<1>10. UNCHANGED engineVars => UNCHANGED vars
  BY DEF engineVars
<1>11. Reauthed \subseteq Accounts
  BY EngineAssumption
<1> QED BY <1>1, <1>2, <1>3, <1>4, <1>5, <1>6, <1>7, <1>8, <1>9, <1>10, <1>11, Zenon
        DEF EngineNext, EngineStep

\* The composed system implements the queue.
THEOREM EngineIsQueue == EngineSpec => Spec
<1>1. EngineInit => Init
  BY DEF EngineInit
<1> QED BY <1>1, QueueStep, PTL DEF EngineSpec, Spec

\* Whatever the breaker answers and whenever accounts are deleted, one dispatch works
\* on a row, and knows it (claim-worker.service.ts).
THEOREM EngineExclusion == EngineSpec => [](SingleHolder /\ HolderAgreesWithRow)
BY EngineIsQueue, Exclusion, Agreement, PTL

\* X receives an action at most once per attempt charged, in the composed system.
THEOREM EngineSends == EngineSpec => []SendsWithinAttempts
BY EngineIsQueue, BoundedSends, PTL

-----------------------------------------------------------------------------
(* What X still receives of a paused account.                              *)

\* Who is about to send into an open breaker was past isPaused when it opened; a dispatch
\* that has sent into it was so, too, and is not about to send again.
BurstOf(c, s) ==
    /\ IsPaused(c) /\ Committed(s, c) => s \in burst[c].past
    /\ burst[c].sent[s] = 1 => IsPaused(c) /\ s \in burst[c].past /\ ~Committed(s, c)

BurstInv ==
    /\ burst \in [Accounts -> [past : SUBSET Slots, sent : [Slots -> {0, 1}]]]
    /\ \A c \in Accounts, s \in Slots : BurstOf(c, s)

\* What a statement can do to slot s other than let it through the gate: nothing, end
\* or begin the dispatch, or take a dispatch that was through further.  The one that sends
\* leaves the breaker alone.
Moves(s) ==
    \/ disp'[s] = disp[s]
    \/ /\ disp'[s].phase \notin {"start", "exec"}
       /\ disp'[s].sent => disp[s].sent
    \/ /\ disp[s].phase \in {"start", "exec"}
       /\ disp'[s].action = disp[s].action
       /\ disp[s].sent => disp'[s].sent
       /\ disp[s].sent \/ ~disp'[s].sent \/ UNCHANGED breakerVars

LEMMA EndsFrees ==
    ASSUME NEW w, Ends(w)
    PROVE  \E S \in SUBSET Slots : disp' = [r \in Slots |-> IF r \in S THEN Free ELSE disp[r]]
<1>1. disp' = [r \in Slots |-> IF r \in OfWorker(w) THEN Free ELSE disp[r]]
  BY DEF Ends, OfWorker
<1> QED BY <1>1 DEF OfWorker

\* Only isPaused commits a dispatch to send.
LEMMA OnlyTheGateCommits ==
    ASSUME TypeOK, [EngineStep]_engineVars, NEW s \in Slots
    PROVE  \/ Moves(s)
           \/ /\ ~IsPaused(AccountAt(s)) /\ UNCHANGED breakerVars
              /\ disp'[s] = [disp[s] EXCEPT !.phase = "start"]
<1>0. disp \in [Slots -> Dispatch]
  BY DEF TypeOK
<1> DEFINE Freed == \E S \in SUBSET Slots : disp' = [r \in Slots |-> IF r \in S THEN Free ELSE disp[r]]
<1>1. Freed => Moves(s)
  BY DEF Moves, Free
<1>2. ASSUME NEW r \in Slots, NEW phase,
             disp' = [disp EXCEPT ![r].phase = phase],
             phase \notin {"start", "exec"} \/ disp[r].phase \in {"start", "exec"}
      PROVE  Moves(s)
  BY <1>0, <1>2 DEF Moves, Dispatch
<1>3. ASSUME NEW r \in Slots,
             \/ AskBreaker(r) \/ RowStep(r) \/ ReportSuccess(r) \/ ReportFailure(r)
             \/ RecordSession(r)
      PROVE  \/ Moves(s)
             \/ /\ ~IsPaused(AccountAt(s)) /\ UNCHANGED breakerVars
                /\ disp'[s] = [disp[s] EXCEPT !.phase = "start"]
  <2>1. CASE AskBreaker(r)
    <3>1. CASE IsPaused(AccountAt(r))
      BY <1>2, <2>1, <3>1 DEF AskBreaker, Gate, Advance
    <3>2. CASE ~IsPaused(AccountAt(r)) /\ r = s
      BY <1>0, <2>1, <3>2 DEF AskBreaker, Gate, Advance
    <3>3. CASE r # s
      BY <1>0, <2>1, <3>3 DEF AskBreaker, Gate, Advance, Moves
    <3> QED BY <3>1, <3>2, <3>3
  <2>2. CASE Defer(r) \/ RecordSession(r)
    BY <1>1, <2>2 DEF Defer, RecordSession, RecordOutcome, Settle
  <2>3. CASE MarkRunning(r) \/ ExecutorSucceeds(r)
    BY <1>2, <2>3 DEF MarkRunning, ExecutorSucceeds, Advance
  <2>4. CASE SendToX(r) /\ UNCHANGED breakerVars
    BY <1>0, <2>4 DEF SendToX, Moves, Dispatch
  <2>5. CASE \E class \in ErrorClass : ExecutorFails(r, class)
    BY <1>0, <2>5 DEF ExecutorFails, Moves, Dispatch
  <2>6. CASE ReportSuccess(r) \/ ReportFailure(r)
    BY <1>2, <2>6 DEF ReportSuccess, ReportFailure, PersistSuccess, PersistFailure, Advance
  <2> QED BY <1>3, <2>1, <2>2, <2>3, <2>4, <2>5, <2>6 DEF RowStep
<1>4. ASSUME EngineFault PROVE Moves(s)
  <2>1. ASSUME NEW r \in Slots, DispatchAborts(r) PROVE Freed
    BY <2>1 DEF DispatchAborts, Settle
  <2>2. ASSUME NEW w \in Workers, ClaimResponseLost(w) PROVE Freed
    BY <2>2 DEF ClaimResponseLost, Settle, TickOf
  <2>3. ASSUME NEW w \in Workers, Crash(w) \/ DrainTimeout(w) PROVE Freed
    BY <2>3, EndsFrees DEF Crash, DrainTimeout
  <2> QED BY <1>1, <1>4, <2>1, <2>2, <2>3, Zenon DEF EngineFault
<1>5. ASSUME NEW w \in Workers, WorkerStep(w) PROVE Moves(s)
  <2>1. CASE \E t \in Types : ClaimBatch(w, t)
    <3>1. PICK t \in Types : ClaimBatch(w, t)
      BY <2>1
    <3>2. PICK P \in SUBSET FreeSlots : \E pick \in Injection(P, Claimable(t)) : ClaimedBy(w, P, pick)
      BY <3>1, ClaimShape
    <3>3. PICK pick \in Injection(P, Claimable(t)) : ClaimedBy(w, P, pick)
      BY <3>2
    <3>4. disp'[s] = IF s \in P
                     THEN [Free EXCEPT !.phase = "tick", !.worker = w, !.action = pick[s],
                                       !.attempts = row[pick[s]].attempts]
                     ELSE disp[s]
      BY <3>3 DEF ClaimedBy
    <3>5. CASE s \in P
      <4>1. disp'[s].phase = "tick" /\ disp'[s].sent = FALSE
        BY <3>4, <3>5 DEF Free
      <4> QED BY <4>1 DEF Moves
    <3>6. CASE s \notin P
      BY <3>4, <3>6 DEF Moves
    <3> QED BY <3>5, <3>6
  <2>2. CASE StartDispatches(w)
    BY <1>0, <2>2 DEF StartDispatches, Moves, Dispatch
  <2>3. CASE Stop(w) \/ Restart(w)
    BY <2>3 DEF Stop, Restart, Moves
  <2>4. CASE Drained(w)
    BY <1>1, <2>4, EndsFrees DEF Drained
  <2> QED BY <1>5, <2>1, <2>2, <2>3, <2>4, Zenon DEF WorkerStep
<1>6. ASSUME \/ BreakerStep \/ QueueRequest \/ Clock \/ UNCHANGED engineVars
             \/ \E a \in Accounts : \/ DeleteAccount(a) \/ \E k \in Admins : ClearBreaker(k, a)
             \/ \E a \in Reauthed : LoginStores(a) \/ LoginReports(a) \/ ReauthFails(a)
      PROVE  Moves(s)
  BY <1>6 DEF BreakerStep, QueueRequest, Clock, DeleteAccount, ClearBreaker, LoginStores,
     LoginReports, ReauthFails, Enqueue, CancelAction, ReplayAction, ArchiveDead, BecomeDue,
     LeaseExpires, CancelPendingByAccount, vars, engineVars, Moves
<1> QED BY <1>3, <1>4, <1>5, <1>6, Zenon DEF EngineStep

LEMMA BurstInvariant == EngineSpec => []BurstInv
<1>1. EngineInit => BurstInv
  BY DEF EngineInit, BurstInv, BurstOf, NoBurst, Init, Free, Committed
<1>2. TypeOK /\ BurstInv /\ [EngineNext]_engineVars => BurstInv'
  <2> SUFFICES ASSUME TypeOK, BurstInv, [EngineNext]_engineVars PROVE BurstInv'
    OBVIOUS
  <2>0. disp \in [Slots -> Dispatch]
    BY DEF TypeOK
  <2>1. CASE UNCHANGED engineVars
    BY <2>1 DEF BurstInv, BurstOf, engineVars, breakerVars, vars, Committed, AccountAt, IsPaused
  <2>2. CASE EngineNext
    <3> USE <2>2 DEF EngineNext
    <3>1. ASSUME NEW c \in Accounts
          PROVE  /\ burst'[c] \in [past : SUBSET Slots, sent : [Slots -> {0, 1}]]
                 /\ \A s \in Slots : BurstOf(c, s)'
      <4>0. /\ burst[c] \in [past : SUBSET Slots, sent : [Slots -> {0, 1}]]
            /\ \A s \in Slots : BurstOf(c, s)
        BY DEF BurstInv
      <4>1. CASE ~IsPaused(c)'
        <5>1. burst'[c] = NoBurst
          BY <4>1 DEF CountBurst
        <5> QED BY <4>1, <5>1 DEF NoBurst, BurstOf
      <4>2. CASE IsPaused(c)'
        <5>1. /\ burst'[c].past = IF IsPaused(c) THEN burst[c].past
                                  ELSE {s \in Slots : Committed(s, c)'}
              /\ burst'[c].sent = [s \in Slots |->
                     burst[c].sent[s] + (IF Sent(s, c) THEN 1 ELSE 0)]
              /\ burst'[c] = [past |-> burst'[c].past, sent |-> burst'[c].sent]
          BY <4>2 DEF CountBurst
        <5>2. ASSUME NEW s \in Slots
              PROVE  burst'[c].sent[s] \in {0, 1} /\ BurstOf(c, s)'
          <6>1. burst[c].sent[s] \in {0, 1} /\ BurstOf(c, s)
            BY <4>0
          <6>2. burst'[c].sent[s] = burst[c].sent[s] + (IF Sent(s, c) THEN 1 ELSE 0)
            BY <5>1
          <6>3. CASE Sent(s, c)
            <7>1. disp'[s] # [disp[s] EXCEPT !.phase = "start"]
              BY <2>0, <6>3 DEF Sent, Dispatch
            <7>2. Committed(s, c) /\ UNCHANGED breakerVars
              BY <6>3, <7>1, OnlyTheGateCommits DEF Moves, Sent, Committed, AccountAt
            <7>3. IsPaused(c)
              BY <4>2, <7>2 DEF breakerVars, IsPaused
            <7>4. s \in burst[c].past /\ burst[c].sent[s] = 0
              BY <6>1, <7>2, <7>3 DEF BurstOf
            <7>5. s \in burst'[c].past /\ burst'[c].sent[s] = 1
              BY <5>1, <6>2, <6>3, <7>3, <7>4
            <7>6. ~Committed(s, c)'
              BY <6>3 DEF Sent, Committed
            <7> QED BY <4>2, <7>5, <7>6 DEF BurstOf
          <6>4. CASE ~Sent(s, c)
            <7>1. burst'[c].sent[s] = burst[c].sent[s]
              BY <6>1, <6>2, <6>4
            <7>2. Moves(s) /\ Committed(s, c)' => Committed(s, c)
              BY DEF Moves, Committed, AccountAt
            <7>3. ASSUME disp'[s] = [disp[s] EXCEPT !.phase = "start"], ~IsPaused(AccountAt(s)),
                         UNCHANGED breakerVars
                  PROVE  ~Committed(s, c)'
              <8>1. AccountAt(s)' = AccountAt(s)
                BY <2>0, <7>3 DEF AccountAt, Dispatch
              <8>2. IsPaused(c)
                BY <4>2, <7>3 DEF breakerVars, IsPaused
              <8> QED BY <7>3, <8>1, <8>2 DEF Committed
            <7>4. Committed(s, c)' => Committed(s, c)
              BY <7>2, <7>3, OnlyTheGateCommits
            <7> QED BY <4>2, <5>1, <6>1, <7>1, <7>4 DEF BurstOf
          <6> QED BY <6>3, <6>4
        <5>3. burst'[c].past \in SUBSET Slots /\ burst'[c].sent \in [Slots -> {0, 1}]
          BY <4>0, <5>1, <5>2
        <5> QED BY <5>1, <5>2, <5>3
      <4> QED BY <4>1, <4>2
    <3>2. burst' = [c \in Accounts |-> burst'[c]]
      BY DEF CountBurst
    <3> QED BY <3>1, <3>2 DEF BurstInv
  <2> QED BY <2>1, <2>2
<1>3. EngineSpec => []TypeOK
  BY EngineIsQueue, TypeCorrect, PTL
<1> QED BY <1>1, <1>2, <1>3, PTL DEF EngineSpec

\* An open breaker lets at most one more action through of each dispatch that was past
\* isPaused (claim-worker.service.ts:73), and none of others, for any number of them and
\* whatever resets, deletes or administrators do to the breaker meanwhile.
THEOREM EngineBurst == EngineSpec => []BurstIsBounded
<1>1. BurstInv => BurstIsBounded
  BY DEF BurstInv, BurstOf, BurstIsBounded
<1> QED BY <1>1, BurstInvariant, PTL

-----------------------------------------------------------------------------
(* The breaker.                                                            *)
(*                                                                         *)
(* Its read-modify-write loses increments (README.md, "On record"), but it *)
(* never invents one: for any number of concurrent calls, aborts and       *)
(* deletions a pause stands for at least Threshold recorded failures.  The *)
(* property alone is not inductive: it needs that no call carries a        *)
(* counter larger than what was recorded.                                  *)
(*                                                                         *)
(* Pause keys are left only while a call that wrote or deletes them is in  *)
(* progress, or after one that was cut short; and while calls come one at  *)
(* a time the counter is exact.  These theorems are about the breaker by   *)
(* itself, whoever calls it; EngineIsBreaker takes them to the engine.     *)

(* What a call has loaded was recorded before. *)
SnapshotsAreOld ==
    \A k \in Callers :
        call[k].op # "idle" =>
            /\ call[k].account \in Accounts
            /\ call[k].snap <= seen[call[k].account].total

BreakerIInv == BreakerTypeOK /\ SnapshotsAreOld /\ PauseNeedsThreshold

(* Every step keeps the types. *)
LEMMA BreakerTypeStep == ASSUME BreakerIInv, [BreakerNext]_breakerVars PROVE BreakerTypeOK'
<1> USE BreakerAssumption DEF Opens, BreakerIInv, BreakerTypeOK
<1>1. Idle \in Call /\ NoKeys \in Keys
  BY DEF Idle, NoKeys, Call, Keys
<1>2. ASSUME NEW k \in Callers, NEW c \in Accounts,
             BeginFailure(k, c) \/ BeginReset(k, c)
      PROVE  BreakerTypeOK'
  <2>1. /\ [Idle EXCEPT !.op = "failure", !.account = c] \in Call
        /\ [Idle EXCEPT !.op = "reset", !.at = "upsert", !.account = c] \in Call
    BY DEF Idle, Call
  <2>2. PICK r \in Call : call' = [call EXCEPT ![k] = r] /\ UNCHANGED <<state, seen, cuts>>
    BY <1>2, <2>1 DEF BeginFailure, BeginReset
  <2> QED BY <2>2
<1>3. ASSUME NEW k \in Callers, LoadSnapshot(k) PROVE BreakerTypeOK'
  <2> DEFINE n == state[call[k].account].failures
  <2>1. n \in Nat
    BY <1>3 DEF LoadSnapshot, At, SnapshotsAreOld, Keys
  <2>2. [call[k] EXCEPT !.at = "upsert", !.snap = n] \in Call
    <3>1. call[k] \in Call
      OBVIOUS
    <3> HIDE DEF n
    <3> QED BY <2>1, <3>1, Zenon DEF Call
  <2>3. call' = [call EXCEPT ![k] = [call[k] EXCEPT !.at = "upsert", !.snap = n]]
    BY <1>3 DEF LoadSnapshot
  <2> QED BY <1>3, <2>2, <2>3 DEF LoadSnapshot
<1>4. ASSUME NEW k \in Callers, UpsertFailure(k) PROVE BreakerTypeOK'
  <2> DEFINE c == call[k].account
             n == call[k].snap + 1
             r == IF n >= Threshold
                  THEN [paused |-> TRUE, failures |-> n, until |-> "future"]
                  ELSE [state[c] EXCEPT !.failures = n]
  <2>1. c \in Accounts /\ n \in Nat /\ state[c] \in Keys /\ seen[c] \in Seen
    BY <1>4 DEF UpsertFailure, At, SnapshotsAreOld, Call
  <2>2. r \in Keys
    BY <2>1 DEF Keys
  <2>3. [seen[c] EXCEPT !.streak = @ + 1, !.total = @ + 1] \in Seen
    <3>1. seen[c].streak + 1 \in Nat /\ seen[c].total + 1 \in Nat
      BY <2>1 DEF Seen
    <3> QED BY <2>1, <3>1 DEF Seen
  <2>4. /\ state' = [state EXCEPT ![c] = r]
        /\ seen' = [seen EXCEPT ![c] = [seen[c] EXCEPT !.streak = @ + 1, !.total = @ + 1]]
    BY <1>4, <2>1 DEF UpsertFailure
  <2> HIDE DEF r
  <2> QED BY <1>1, <1>4, <2>1, <2>2, <2>3, <2>4 DEF UpsertFailure
<1>5. ASSUME NEW k \in Callers, UpsertReset(k) PROVE BreakerTypeOK'
  <2> DEFINE c == call[k].account
  <2>1. c \in Accounts /\ state[c] \in Keys /\ seen[c] \in Seen
    BY <1>5 DEF UpsertReset, At, SnapshotsAreOld
  <2>2. [state[c] EXCEPT !.paused = FALSE, !.failures = 0] \in Keys
    BY <2>1 DEF Keys
  <2>3. [seen[c] EXCEPT !.streak = 0] \in Seen
    BY <2>1 DEF Seen
  <2>4. [call[k] EXCEPT !.at = "delete"] \in Call
    BY DEF Call
  <2>5. state' = [state EXCEPT ![c] = [state[c] EXCEPT !.paused = FALSE, !.failures = 0]]
    BY <1>5, <2>1 DEF UpsertReset
  <2> QED BY <1>5, <2>1, <2>2, <2>3, <2>4, <2>5 DEF UpsertReset
<1>6. ASSUME NEW k \in Callers, DeletePauseKeys(k) PROVE BreakerTypeOK'
  BY <1>1, <1>6 DEF DeletePauseKeys, At, SnapshotsAreOld, Keys
<1>7. ASSUME NEW K \in SUBSET Callers, AbortCalls(K) PROVE BreakerTypeOK'
  BY <1>1, <1>7 DEF AbortCalls
<1>8. ASSUME NEW c \in Accounts, PauseExpires(c) PROVE BreakerTypeOK'
  BY <1>8 DEF PauseExpires, Keys
<1>9. ASSUME NEW c \in Accounts, DeleteKeys(c) PROVE BreakerTypeOK'
  BY <1>1, <1>9 DEF DeleteKeys, Seen
<1>10. CASE UNCHANGED breakerVars
  BY <1>10 DEF breakerVars
<1> QED
  BY <1>2, <1>3, <1>4, <1>5, <1>6, <1>7, <1>8, <1>9, <1>10 DEF BreakerNext, CallStep

(* No step lets a snapshot or a counter exceed the failures recorded. *)
LEMMA CountStep ==
    ASSUME BreakerIInv, BreakerTypeOK', [BreakerNext]_breakerVars
    PROVE  SnapshotsAreOld' /\ PauseNeedsThreshold'
<1> USE BreakerAssumption DEF Opens, BreakerIInv, SnapshotsAreOld, PauseNeedsThreshold
(* What was recorded is never forgotten. *)
<1>1. \A c \in Accounts : seen[c].total \in Nat /\ seen'[c].total \in Nat
  BY DEF BreakerTypeOK, Seen
<1>2. ASSUME NEW k \in Callers, NEW c \in Accounts,
             BeginFailure(k, c) \/ BeginReset(k, c)
      PROVE  SnapshotsAreOld' /\ PauseNeedsThreshold'
  <2>1. /\ call'[k].account = c /\ call'[k].snap = 0 /\ call'[k].op # "idle"
        /\ \A q \in Callers \ {k} : call'[q] = call[q]
        /\ state' = state /\ seen' = seen
    <3>1. CASE BeginFailure(k, c)
      BY <3>1 DEF BeginFailure, Idle, BreakerTypeOK
    <3>2. CASE BeginReset(k, c)
      BY <3>2 DEF BeginReset, Idle, BreakerTypeOK
    <3> QED BY <1>2, <3>1, <3>2
  <2> QED BY <1>1, <2>1
<1>3. ASSUME NEW k \in Callers, LoadSnapshot(k)
      PROVE  SnapshotsAreOld' /\ PauseNeedsThreshold'
  BY <1>3 DEF LoadSnapshot, At, BreakerTypeOK, Call
<1>4. ASSUME NEW k \in Callers, UpsertFailure(k)
      PROVE  SnapshotsAreOld' /\ PauseNeedsThreshold'
  <2> DEFINE c == call[k].account
  <2>1. c \in Accounts /\ call[k].snap \in Nat /\ call[k].snap <= seen[c].total
    BY <1>4 DEF UpsertFailure, At, BreakerTypeOK, Call
  <2>2. /\ seen'[c].total = seen[c].total + 1
        /\ state'[c].failures = call[k].snap + 1
        /\ state'[c].paused => state[c].paused \/ call[k].snap + 1 >= Threshold
        /\ \A d \in Accounts \ {c} : state'[d] = state[d] /\ seen'[d] = seen[d]
        /\ call'[k].op = "idle" /\ \A q \in Callers \ {k} : call'[q] = call[q]
    <3>1. state[c] \in Keys /\ seen[c] \in Seen
      BY <2>1 DEF BreakerTypeOK
    <3>2. call' = [call EXCEPT ![k] = Idle]
      BY <1>4 DEF UpsertFailure
    <3>3. call'[k].op = "idle" /\ \A q \in Callers \ {k} : call'[q] = call[q]
      BY <3>2 DEF BreakerTypeOK, Idle
    <3>4. \A d \in Accounts \ {c} : state'[d] = state[d] /\ seen'[d] = seen[d]
      BY <1>4 DEF UpsertFailure, BreakerTypeOK
    <3>5. seen'[c].total = seen[c].total + 1
      BY <1>4, <2>1, <3>1 DEF UpsertFailure, BreakerTypeOK, Seen
    <3>6. /\ state'[c].failures = call[k].snap + 1
          /\ state'[c].paused => state[c].paused \/ call[k].snap + 1 >= Threshold
      BY <1>4, <2>1, <3>1 DEF UpsertFailure, BreakerTypeOK, Keys
    <3> QED BY <3>3, <3>4, <3>5, <3>6
  <2>3. PauseNeedsThreshold'
    <3> SUFFICES ASSUME NEW d \in Accounts
                 PROVE  /\ state'[d].failures <= seen'[d].total
                        /\ state'[d].paused => seen'[d].total >= Threshold
      OBVIOUS
    <3>1. CASE d # c
      BY <2>2, <3>1
    <3>2. CASE d = c
      BY <1>1, <2>1, <2>2, <3>2
    <3> QED BY <3>1, <3>2
  <2>4. SnapshotsAreOld'
    BY <1>1, <2>1, <2>2, SMTT(30) DEF BreakerTypeOK, Call
  <2> QED BY <2>3, <2>4
<1>5. ASSUME NEW k \in Callers, UpsertReset(k) \/ DeletePauseKeys(k)
      PROVE  SnapshotsAreOld' /\ PauseNeedsThreshold'
  <2>1. ASSUME NEW d \in Accounts
        PROVE  /\ seen'[d].total = seen[d].total
               /\ state'[d].failures \in {0, state[d].failures}
               /\ state'[d].paused => state[d].paused
    <3>1. CASE UpsertReset(k)
      BY <3>1 DEF UpsertReset, BreakerTypeOK, Keys, Seen
    <3>2. CASE DeletePauseKeys(k)
      BY <3>2 DEF DeletePauseKeys, BreakerTypeOK, Keys
    <3> QED BY <1>5, <3>1, <3>2
  <2>2. ASSUME NEW q \in Callers, call'[q].op # "idle"
        PROVE  /\ call'[q].op = call[q].op /\ call'[q].account = call[q].account
               /\ call'[q].snap = call[q].snap
    <3>1. CASE UpsertReset(k)
      <4>1. call' = [call EXCEPT ![k] = [call[k] EXCEPT !.at = "delete"]] /\ call[k] \in Call
        BY <3>1 DEF UpsertReset, BreakerTypeOK
      <4> QED BY <4>1 DEF BreakerTypeOK, Call
    <3>2. CASE DeletePauseKeys(k)
      <4>1. call' = [call EXCEPT ![k] = Idle]
        BY <3>2 DEF DeletePauseKeys
      <4> QED BY <2>2, <4>1 DEF BreakerTypeOK, Idle
    <3> QED BY <1>5, <3>1, <3>2
  <2>3. PauseNeedsThreshold'
    BY <1>1, <2>1
  <2>4. SnapshotsAreOld'
    BY <1>1, <2>1, <2>2
  <2> QED BY <2>3, <2>4
<1>6. ASSUME NEW K \in SUBSET Callers, AbortCalls(K)
      PROVE  SnapshotsAreOld' /\ PauseNeedsThreshold'
  BY <1>6 DEF AbortCalls, Idle
<1>7. ASSUME NEW c \in Accounts, PauseExpires(c) \/ DeleteKeys(c)
      PROVE  SnapshotsAreOld' /\ PauseNeedsThreshold'
  <2>1. /\ call' = call
        /\ \A d \in Accounts : /\ seen'[d].total = seen[d].total
                               /\ state'[d].failures \in {0, state[d].failures}
                               /\ state'[d].paused => state[d].paused
    BY <1>7 DEF PauseExpires, DeleteKeys, NoKeys, BreakerTypeOK, Keys, Seen
  <2> QED BY <1>1, <2>1
<1>8. CASE UNCHANGED breakerVars
  BY <1>8 DEF breakerVars
<1> QED
  BY <1>2, <1>3, <1>4, <1>5, <1>6, <1>7, <1>8 DEF BreakerNext, CallStep

LEMMA BreakerStarts == BreakerInit => BreakerIInv
BY BreakerAssumption DEF BreakerInit, BreakerIInv, BreakerTypeOK, SnapshotsAreOld,
   PauseNeedsThreshold, NoKeys, Idle, Keys, Call, Seen

LEMMA BreakerInvariance == BreakerSpec => []BreakerIInv
<1>1. BreakerIInv /\ [BreakerNext]_breakerVars => BreakerIInv'
  BY BreakerTypeStep, CountStep DEF BreakerIInv
<1> QED BY <1>1, BreakerStarts, PTL DEF BreakerSpec

(* For any number of concurrent calls: an open breaker stands for Threshold failures. *)
THEOREM PauseIsEarned == BreakerSpec => []PauseNeedsThreshold
<1>1. BreakerIInv => PauseNeedsThreshold
  BY DEF BreakerIInv
<1> QED BY <1>1, BreakerInvariance, PTL

-----------------------------------------------------------------------------
(* The statement of its own in which recordSuccess and clear delete the    *)
(* pause keys.                                                             *)

\* Call k is about to delete the pause keys of account c.
Leaves(k, c) == At(k, "reset", "delete") /\ call[k].account = c

\* While no call was cut short, what is left of a pause is about to be deleted.
LeftoversLeave ==
    cuts.aborts = 0 =>
        \A c \in Accounts :
            ~state[c].paused /\ state[c].until # "none"
                => \E k \in Callers : Leaves(k, c)

\* A call that is not a reset at its last statement can be replaced.
LEMMA OthersLeave ==
    ASSUME BreakerTypeOK, NEW k \in Callers, NEW r, call' = [call EXCEPT ![k] = r],
           ~At(k, "reset", "delete"), NEW c, \E q \in Callers : Leaves(q, c)
    PROVE  (\E q \in Callers : Leaves(q, c))'
<1>1. PICK q \in Callers : Leaves(q, c)
  OBVIOUS
<1>2. call'[q] = call[q]
  BY <1>1 DEF BreakerTypeOK, Leaves
<1> QED BY <1>1, <1>2 DEF Leaves, At

LEMMA LeaveStep ==
    ASSUME BreakerIInv, LeftoversLeave, [BreakerNext]_breakerVars
    PROVE  LeftoversLeave'
<1> SUFFICES ASSUME cuts'.aborts = 0, NEW c \in Accounts,
                    ~state'[c].paused, state'[c].until # "none"
             PROVE  (\E q \in Callers : Leaves(q, c))'
  BY DEF LeftoversLeave
<1> USE DEF BreakerIInv, BreakerTypeOK
<1>1. ASSUME cuts.aborts = 0, state'[c].paused = state[c].paused, state[c].until # "none"
      PROVE  \E q \in Callers : Leaves(q, c)
  BY <1>1 DEF LeftoversLeave
<1>2. ASSUME NEW k \in Callers, LoadSnapshot(k)
      PROVE  (\E q \in Callers : Leaves(q, c))'
  <2>1. PICK r : call' = [call EXCEPT ![k] = r]
    BY <1>2 DEF LoadSnapshot
  <2>2. ~At(k, "reset", "delete") /\ UNCHANGED <<state, cuts>>
    BY <1>2 DEF LoadSnapshot, At
  <2> QED BY <1>1, <2>1, <2>2, OthersLeave
<1>3. ASSUME NEW k \in Callers, NEW d \in Accounts,
             BeginFailure(k, d) \/ BeginReset(k, d)
      PROVE  (\E q \in Callers : Leaves(q, c))'
  <2>1. PICK r : call' = [call EXCEPT ![k] = r]
    BY <1>3 DEF BeginFailure, BeginReset
  <2>2. ~At(k, "reset", "delete") /\ UNCHANGED <<state, cuts>>
    BY <1>3 DEF BeginFailure, BeginReset, At
  <2> QED BY <1>1, <2>1, <2>2, OthersLeave
<1>4. ASSUME NEW k \in Callers, UpsertFailure(k)
      PROVE  (\E q \in Callers : Leaves(q, c))'
  <2>1. state'[c].paused = state[c].paused /\ state'[c].until = state[c].until
    <3> DEFINE n == call[k].snap + 1
               opened == [paused |-> TRUE, failures |-> n, until |-> "future"]
    <3>1. state' = [state EXCEPT ![call[k].account] =
                      IF Opens(n) THEN opened
                      ELSE [state[call[k].account] EXCEPT !.failures = n]]
      BY <1>4, Zenon DEF UpsertFailure
    <3>2. state[c] \in Keys
      OBVIOUS
    <3> HIDE DEF n
    <3>3. CASE call[k].account = c /\ Opens(n)
      BY <3>1, <3>3
    <3>4. CASE call[k].account = c /\ ~Opens(n)
      <4>1. state'[c] = [state[c] EXCEPT !.failures = n]
        BY <3>1, <3>4
      <4> QED BY <3>2, <4>1 DEF Keys
    <3>5. CASE call[k].account # c
      BY <3>1, <3>5
    <3> QED BY <3>3, <3>4, <3>5
  <2>2. call' = [call EXCEPT ![k] = Idle] /\ ~At(k, "reset", "delete") /\ cuts' = cuts
    BY <1>4 DEF UpsertFailure, At
  <2> QED BY <1>1, <2>1, <2>2, OthersLeave
<1>5. ASSUME NEW k \in Callers, UpsertReset(k)
      PROVE  (\E q \in Callers : Leaves(q, c))'
  <2>1. CASE call[k].account = c
    <3>1. Leaves(k, c)'
      BY <1>5, <2>1 DEF UpsertReset, Leaves, At, Call
    <3> QED BY <3>1
  <2>2. CASE call[k].account # c
    <3>1. state'[c] = state[c] /\ ~At(k, "reset", "delete") /\ cuts' = cuts
      BY <1>5, <2>2 DEF UpsertReset, At
    <3>2. PICK r : call' = [call EXCEPT ![k] = r]
      BY <1>5 DEF UpsertReset
    <3>3. \E q \in Callers : Leaves(q, c)
      BY <1>1, <3>1
    <3> QED BY <3>1, <3>2, <3>3, OthersLeave
  <2> QED BY <2>1, <2>2
<1>6. ASSUME NEW k \in Callers, DeletePauseKeys(k)
      PROVE  (\E q \in Callers : Leaves(q, c))'
  <2>1. call[k].account # c
    BY <1>6 DEF DeletePauseKeys, Keys
  <2>2. state'[c] = state[c] /\ cuts' = cuts
    BY <1>6, <2>1 DEF DeletePauseKeys
  <2>3. PICK q \in Callers : Leaves(q, c)
    BY <1>1, <2>2
  <2>4. call'[q] = call[q]
    BY <1>6, <2>1, <2>3 DEF DeletePauseKeys, Leaves
  <2> QED BY <2>3, <2>4 DEF Leaves, At
<1>7. ASSUME NEW K \in SUBSET Callers, AbortCalls(K) PROVE FALSE
  BY <1>7 DEF AbortCalls
<1>8. ASSUME NEW d \in Accounts, PauseExpires(d) \/ DeleteKeys(d)
      PROVE  (\E q \in Callers : Leaves(q, c))'
  <2>1. /\ call' = call /\ cuts'.aborts = cuts.aborts
        /\ state'[c].paused = state[c].paused /\ state[c].until # "none"
    BY <1>8 DEF PauseExpires, DeleteKeys, NoKeys, Keys
  <2> QED BY <1>1, <2>1 DEF Leaves, At
<1>9. CASE UNCHANGED breakerVars
  BY <1>1, <1>9 DEF breakerVars, Leaves, At
<1> QED BY <1>2, <1>3, <1>4, <1>5, <1>6, <1>7, <1>8, <1>9 DEF BreakerNext, CallStep

\* However resets, failures and deletions of accounts interleave, the delete that
\* recordSuccess and clear run as a statement of their own
\* (circuit-breaker.service.ts) leaves no pauseUntil behind for a closed breaker.
THEOREM PauseKeysGo == BreakerSpec => []ClosedIsClean
<1>1. BreakerInit => LeftoversLeave
  BY DEF BreakerInit, LeftoversLeave, NoKeys
<1>2. LeftoversLeave => ClosedIsClean
  BY DEF LeftoversLeave, ClosedIsClean, Leaves, At
<1> QED BY <1>1, <1>2, LeaveStep, BreakerInvariance, PTL DEF BreakerSpec

-----------------------------------------------------------------------------
(* Calls about an account that come one after the other.                   *)

\* No two calls about one account are in progress.
OneAtATime ==
    \A k, l \in Callers :
        /\ call[k].op # "idle" /\ call[l].op # "idle"
        /\ call[k].account = call[l].account
        => k = l

\* No account has been deleted.
NotDeleted == cuts.deletes = 0

\* What a failure has loaded still holds, and a reset that has closed the breaker
\* finds it closed when it deletes the pause keys.
CallsAreCurrent ==
    \A k \in Callers :
        /\ At(k, "failure", "upsert") => call[k].snap = state[call[k].account].failures
        /\ At(k, "reset", "delete") => ~state[call[k].account].paused

Exact == CounterIsStreak /\ PausedIffStreak /\ PauseHasDeadline

\* No step of a call breaks this while it is the only one about its account; only the
\* deletion of the account between the two statements of a call does.
LEMMA ExactStep ==
    ASSUME BreakerIInv, OneAtATime, CallsAreCurrent, Exact, NotDeleted', [BreakerNext]_breakerVars
    PROVE  CallsAreCurrent' /\ Exact'
<1> USE BreakerAssumption DEF Opens, BreakerIInv, BreakerTypeOK
<1> DEFINE Fine(c) == /\ state[c].failures = seen[c].streak
                      /\ state[c].paused <=> seen[c].streak >= Threshold
                      /\ state[c].paused => state[c].until # "none"
           Current(k) ==
             /\ At(k, "failure", "upsert")
                  => call[k].snap = state[call[k].account].failures
             /\ At(k, "reset", "delete") => ~state[call[k].account].paused
<1>0. \A c \in Accounts : Fine(c)
  BY DEF Exact, CounterIsStreak, PausedIffStreak, PauseHasDeadline
<1>1. ASSUME \A c \in Accounts : Fine(c)', \A k \in Callers : Current(k)'
      PROVE  CallsAreCurrent' /\ Exact'
  BY <1>1
     DEF CallsAreCurrent, Exact, CounterIsStreak, PausedIffStreak, PauseHasDeadline
<1>2. \A k \in Callers : Current(k)
  BY DEF CallsAreCurrent
<1>3. ASSUME NEW k \in Callers, NEW c \in Accounts,
             BeginFailure(k, c) \/ BeginReset(k, c)
      PROVE  CallsAreCurrent' /\ Exact'
  <2>1. /\ UNCHANGED <<state, seen>>
        /\ ~At(k, "failure", "upsert")' /\ ~At(k, "reset", "delete")'
        /\ \A q \in Callers \ {k} : call'[q] = call[q]
    <3>1. CASE BeginFailure(k, c)
      BY <3>1 DEF BeginFailure, Idle, At
    <3>2. CASE BeginReset(k, c)
      BY <3>2 DEF BeginReset, Idle, At
    <3> QED BY <1>3, <3>1, <3>2
  <2> QED BY <1>0, <1>1, <1>2, <2>1 DEF At
<1>4. ASSUME NEW k \in Callers, LoadSnapshot(k) PROVE CallsAreCurrent' /\ Exact'
  <2>1. /\ UNCHANGED <<state, seen>>
        /\ call'[k].op = "failure" /\ call'[k].account = call[k].account
        /\ call'[k].snap = state[call[k].account].failures
        /\ \A q \in Callers \ {k} : call'[q] = call[q]
    BY <1>4 DEF LoadSnapshot, At, Call
  <2> QED BY <1>0, <1>1, <1>2, <2>1 DEF At
<1>5. ASSUME NEW k \in Callers,
             UpsertFailure(k) \/ UpsertReset(k) \/ DeletePauseKeys(k)
      PROVE  CallsAreCurrent' /\ Exact'
  <2>1. call[k].op # "idle" /\ call[k].account \in Accounts
    BY <1>5 DEF UpsertFailure, UpsertReset, DeletePauseKeys, At, SnapshotsAreOld
  <2>2. PICK c \in Accounts : c = call[k].account
    BY <2>1
  <2>3. /\ \A d \in Accounts \ {c} : state'[d] = state[d] /\ seen'[d] = seen[d]
        /\ \A q \in Callers \ {k} : call'[q] = call[q]
    BY <1>5, <2>2 DEF UpsertFailure, UpsertReset, DeletePauseKeys
  <2>4. ASSUME NEW q \in Callers \ {k} PROVE Current(q)'
    <3>1. call[q].op # "idle" => call[q].account \in Accounts \ {c}
      BY <2>1, <2>2 DEF OneAtATime, SnapshotsAreOld
    <3> QED BY <1>2, <2>3, <3>1 DEF At
  <2>5. Fine(c) /\ state[c] \in Keys /\ seen[c] \in Seen
    BY <1>0
  <2>6. Fine(c)' /\ Current(k)'
    <3>1. CASE UpsertFailure(k)
      <4>1. /\ call[k].snap = state[c].failures /\ call[k].snap \in Nat
            /\ call'[k].op = "idle"
        BY <1>2, <2>2, <3>1 DEF UpsertFailure, Call, Idle
      <4>2. /\ seen'[c].streak = seen[c].streak + 1
            /\ state'[c].failures = call[k].snap + 1
            /\ IF call[k].snap + 1 >= Threshold
               THEN state'[c].paused /\ state'[c].until = "future"
               ELSE state'[c].paused = state[c].paused /\ state'[c].until = state[c].until
        BY <2>2, <2>5, <3>1 DEF UpsertFailure, Keys, Seen
      <4> QED BY <2>5, <4>1, <4>2 DEF At, Keys, Seen
    <3>2. CASE UpsertReset(k)
      <4>1. seen'[c].streak = 0 /\ state'[c].failures = 0 /\ ~state'[c].paused
        BY <2>2, <2>5, <3>2 DEF UpsertReset, Keys, Seen
      <4>2. call'[k].op = "reset" /\ call'[k].account = c
        BY <2>2, <3>2 DEF UpsertReset, At, Call
      <4> QED BY <4>1, <4>2 DEF At
    <3>3. CASE DeletePauseKeys(k)
      <4>1. ~state[c].paused
        BY <1>2, <2>2, <3>3 DEF DeletePauseKeys
      <4>2. /\ seen'[c] = seen[c] /\ state'[c].failures = state[c].failures
            /\ state'[c].paused = state[c].paused /\ call'[k].op = "idle"
        BY <2>2, <2>5, <3>3 DEF DeletePauseKeys, Keys, Idle
      <4> QED BY <2>5, <4>1, <4>2 DEF At
    <3> QED BY <1>5, <3>1, <3>2, <3>3
  <2> QED BY <1>0, <1>1, <2>3, <2>4, <2>6
<1>6. ASSUME NEW K \in SUBSET Callers, AbortCalls(K)
      PROVE  CallsAreCurrent' /\ Exact'
  <2>1. /\ UNCHANGED <<state, seen>>
        /\ \A q \in Callers : call'[q].op = "idle" \/ call'[q] = call[q]
    BY <1>6 DEF AbortCalls, Idle
  <2> QED BY <1>0, <1>1, <1>2, <2>1 DEF At
<1>7. ASSUME NEW c \in Accounts, PauseExpires(c) PROVE CallsAreCurrent' /\ Exact'
  <2>1. /\ UNCHANGED <<call, seen>>
        /\ \A d \in Accounts : /\ state'[d].failures = state[d].failures
                               /\ state'[d].paused = state[d].paused
                               /\ state[d].until # "none" => state'[d].until # "none"
    BY <1>7 DEF PauseExpires, Keys
  <2> QED BY <1>0, <1>1, <1>2, <2>1 DEF At, SnapshotsAreOld
<1>8. ASSUME NEW c \in Accounts, DeleteKeys(c) PROVE FALSE
  BY <1>8 DEF DeleteKeys, NotDeleted
<1>9. CASE UNCHANGED breakerVars
  BY <1>0, <1>1, <1>2, <1>9 DEF breakerVars, At
<1> QED BY <1>3, <1>4, <1>5, <1>6, <1>7, <1>8, <1>9 DEF BreakerNext, CallStep

LEMMA InitExact == BreakerInit => CallsAreCurrent /\ Exact
BY BreakerAssumption
   DEF BreakerInit, CallsAreCurrent, Exact, CounterIsStreak, PausedIffStreak,
       PauseHasDeadline, NoKeys, Idle, At

\* While calls about an account come one after the other and it is not deleted, the
\* breaker is exact whatever cuts calls short: the counter is the failures since the
\* last success, and the breaker is open, with a deadline, from the Threshold-th on
\* (recordFailure and recordSuccess, circuit-breaker.service.ts).
THEOREM ExactInSequence ==
    BreakerSpec /\ []OneAtATime /\ []NotDeleted
        => [](CounterIsStreak /\ PausedIffStreak /\ PauseHasDeadline)
<1>1. Exact <=> CounterIsStreak /\ PausedIffStreak /\ PauseHasDeadline
  BY DEF Exact
<1> QED BY <1>1, ExactStep, InitExact, BreakerInvariance, PTL DEF BreakerSpec

-----------------------------------------------------------------------------
(* The steps of the engine are steps of the breaker, or leave it alone.     *)

USE EngineAssumption, BreakerAssumption

\* The account of a dispatch is an account.
LEMMA AccountTyped ==
    ASSUME IInv, NEW s \in Slots, disp[s].phase # "free"
    PROVE  AccountAt(s) \in Accounts
BY QueueAssumption DEF IInv, Consistent, DispatchHasAction, AccountAt

\* Whatever a dispatch, a process or an administrator does, the breaker sees one of its
\* own steps or nothing.
LEMMA BreakerMoves == ASSUME IInv, [EngineNext]_engineVars PROVE [BreakerNext]_breakerVars
<1> DEFINE Quiet == UNCHANGED breakerVars
<1>0. Quiet => UNCHANGED breakerVars
  BY DEF breakerVars, breakerVars
<1>1. ASSUME NEW s \in Slots,
             \/ AskBreaker(s) \/ RowStep(s) \/ ReportSuccess(s) \/ ReportFailure(s)
             \/ RecordSession(s)
      PROVE  Quiet \/ BreakerNext
  <2>1. AskBreaker(s) \/ RowStep(s) \/ RecordSession(s) => Quiet
    BY Zenon DEF AskBreaker, RowStep, RecordSession
  <2>2. ReportSuccess(s) \/ ReportFailure(s) => AccountAt(s) \in Accounts
    BY AccountTyped DEF ReportSuccess, ReportFailure, PersistSuccess, PersistFailure
  <2>3. ReportSuccess(s) \/ ReportFailure(s)
           => BeginReset(s, AccountAt(s)) \/ BeginFailure(s, AccountAt(s))
    BY Zenon DEF ReportSuccess, ReportFailure
  <2> QED BY <1>1, <2>1, <2>2, <2>3, Zenon DEF BreakerNext
<1>2. BreakerStep => BreakerNext
  BY Zenon DEF BreakerStep, BreakerNext
<1>3. ASSUME NEW S \in SUBSET Slots, CutCalls(S) PROVE Quiet \/ BreakerNext
  <2>1. PICK K : K = {s \in S : call[s].op # "idle"}
    OBVIOUS
  <2>2. K \in SUBSET Callers /\ (Quiet \/ AbortCalls(K))
    BY <1>3, <2>1 DEF CutCalls
  <2> QED BY <2>2, Zenon DEF BreakerNext
<1>4. EngineFault => Quiet \/ BreakerNext
  BY <1>3, Zenon DEF EngineFault, OfWorker
<1>5. ASSUME NEW w \in Workers, WorkerStep(w) PROVE Quiet \/ BreakerNext
  BY <1>3, <1>5, Zenon DEF WorkerStep, OfWorker
<1>6. ASSUME NEW c \in Accounts, DeleteAccount(c) \/ \E k \in Admins : ClearBreaker(k, c)
      PROVE  BreakerNext
  BY <1>6, Zenon DEF DeleteAccount, ClearBreaker, BreakerNext
<1>7. Clock => Quiet \/ BreakerNext
  BY Zenon DEF Clock, BreakerNext
<1>8. \/ QueueRequest \/ UNCHANGED engineVars
      \/ \E c \in Reauthed : LoginStores(c) \/ LoginReports(c) \/ ReauthFails(c)
      => Quiet
  BY Zenon DEF QueueRequest, engineVars, LoginStores, LoginReports, ReauthFails
<1> QED BY <1>0, <1>1, <1>2, <1>4, <1>5, <1>6, <1>7, <1>8, Zenon DEF EngineNext, EngineStep

\* The composed system implements the breaker: its dispatches and administrators are
\* callers like any others, so that what is shown of it alone holds in the engine.
THEOREM EngineIsBreaker == EngineSpec => BreakerSpec
<1>1. EngineInit => BreakerInit
  BY DEF EngineInit
<1>2. EngineSpec => []IInv
  BY EngineIsQueue, InductiveInvariant, PTL
<1> QED BY <1>1, <1>2, BreakerMoves, PTL DEF EngineSpec, BreakerSpec

\* Whatever dispatches, logins, deletions and crashes do in between, a pause in the engine
\* stands for Threshold recorded failures, and none leaves a deadline behind when it ends
\* (CircuitBreakerService, as ClaimWorker and administrators call it).
THEOREM EnginePauses == EngineSpec => [](PauseNeedsThreshold /\ ClosedIsClean)
BY EngineIsBreaker, PauseIsEarned, PauseKeysGo, PTL

LEMMA EngineBreakerInvariant == EngineSpec => []BreakerIInv
BY EngineIsBreaker, BreakerInvariance, PTL

\* While the dispatches of an account report one after the other (one process, one slot
\* of it) and the account is not deleted, its breaker is exact in the engine too: open,
\* with a deadline, from the Threshold-th failure in a row on
\* (ClaimWorker.persistOutcome and CircuitBreakerService).
THEOREM EngineExact ==
    EngineSpec /\ []OneAtATime /\ []NotDeleted => []BreakerIsExact
<1>1. CounterIsStreak /\ PausedIffStreak /\ PauseHasDeadline
         => BreakerIsExact
  BY DEF BreakerIsExact
<1> QED BY <1>1, EngineIsBreaker, ExactInSequence, PTL

-----------------------------------------------------------------------------
(* Types.                                                                  *)

SessionTypeOK == session \in [Accounts -> Session]

\* What is written of a session keeps its type.
LEMMA SessionUpdates ==
    ASSUME NEW x \in Session, NEW status \in {"active", "paused", "absent"},
           NEW n \in 0 .. AuthThreshold, NEW storing \in BOOLEAN
    PROVE  /\ {0, AuthThreshold} \subseteq 0 .. AuthThreshold
           /\ [x EXCEPT !.authFailures = n] \in Session
           /\ [x EXCEPT !.authFailures = n, !.status = status] \in Session
           /\ [x EXCEPT !.status = status, !.authFailures = n] \in Session
           /\ [x EXCEPT !.status = status, !.storing = storing] \in Session
           /\ [x EXCEPT !.authFailures = n, !.storing = storing] \in Session
<1>1. AuthThreshold \in Nat
  BY EngineAssumption
<1>2. {0, AuthThreshold} \subseteq 0 .. AuthThreshold
  BY <1>1
<1>3. [x EXCEPT !.authFailures = n] \in Session
  BY DEF Session
<1>4. /\ [x EXCEPT !.authFailures = n, !.status = status] \in Session
      /\ [x EXCEPT !.status = status, !.authFailures = n] \in Session
  BY DEF Session
<1>5. /\ [x EXCEPT !.status = status, !.storing = storing] \in Session
      /\ [x EXCEPT !.authFailures = n, !.storing = storing] \in Session
  BY DEF Session
<1> QED BY <1>2, <1>3, <1>4, <1>5

\* Every statement about a session keeps its type.
LEMMA SessionStep == ASSUME SessionTypeOK, [EngineNext]_engineVars PROVE SessionTypeOK'
<1> USE DEF SessionTypeOK
<1>0. AuthThreshold \in Nat /\ Reauthed \subseteq Accounts /\ 0 \in 0 .. AuthThreshold
  BY EngineAssumption
<1>1. ASSUME NEW c, SessionFails(c) PROVE SessionTypeOK'
  <2>1. PICK n : n = IF session[c].authFailures = AuthThreshold
                     THEN AuthThreshold ELSE session[c].authFailures + 1
    OBVIOUS
  <2>2. PICK status : status = IF n = AuthThreshold /\ session[c].status # "absent"
                               THEN "paused" ELSE session[c].status
    OBVIOUS
  <2>3. session' = [session EXCEPT ![c] = [session[c] EXCEPT !.authFailures = n, !.status = status]]
    BY <1>1, <2>1, <2>2, Zenon DEF SessionFails
  <2>4. ASSUME c \in Accounts
        PROVE  [session[c] EXCEPT !.authFailures = n, !.status = status] \in Session
    <3>1. session[c] \in Session
      BY <2>4
    <3>2. n \in 0 .. AuthThreshold /\ status \in {"active", "paused", "absent"}
      BY <1>0, <2>1, <2>2, <3>1 DEF Session
    <3> QED BY <3>1, <3>2, SessionUpdates
  <2> QED BY <2>3, <2>4
<1>2. ASSUME NEW c, SessionSucceeds(c) PROVE SessionTypeOK'
  BY <1>0, <1>2, SessionUpdates DEF SessionSucceeds
<1>3. ASSUME NEW s \in Slots,
             \/ AskBreaker(s) \/ RowStep(s) \/ ReportSuccess(s) \/ ReportFailure(s)
             \/ RecordSession(s)
      PROVE  SessionTypeOK'
  <2>1. RecordSession(s) => \/ SessionSucceeds(AccountAt(s)) \/ SessionFails(AccountAt(s))
                            \/ UNCHANGED session
    BY DEF RecordSession
  <2>2. AskBreaker(s) \/ RowStep(s) \/ ReportSuccess(s) \/ ReportFailure(s) => UNCHANGED session
    BY Zenon DEF AskBreaker, RowStep, ReportSuccess, ReportFailure
  <2> QED BY <1>1, <1>2, <1>3, <2>1, <2>2
<1>4. ASSUME NEW c \in Accounts, DeleteAccount(c) PROVE SessionTypeOK'
  <2>1. session' = [session EXCEPT ![c] = [session[c] EXCEPT !.status = "absent", !.authFailures = 0]]
    BY <1>4, Zenon DEF DeleteAccount
  <2> QED BY <1>0, <2>1, SessionUpdates
<1>5. ASSUME NEW c \in Accounts, LoginStores(c) \/ LoginReports(c)
      PROVE  SessionTypeOK'
  BY <1>5 DEF LoginStores, LoginReports, Session
<1>6. \/ BreakerStep \/ EngineFault \/ QueueRequest \/ Clock \/ UNCHANGED engineVars
      \/ \E w \in Workers : WorkerStep(w)
      \/ \E c \in Accounts : \E k \in Admins : ClearBreaker(k, c)
      => UNCHANGED session
  BY Zenon DEF BreakerStep, EngineFault, QueueRequest, Clock, engineVars, WorkerStep, ClearBreaker
<1> QED BY <1>0, <1>1, <1>3, <1>4, <1>5, <1>6, Zenon DEF EngineNext, EngineStep, ReauthFails

\* Every variable of the composed system keeps its type.
THEOREM EngineTyped == EngineSpec => []EngineTypeOK
<1>1. EngineInit => SessionTypeOK
  BY EngineAssumption DEF EngineInit, Session, SessionTypeOK
<1>2. EngineSpec => []SessionTypeOK
  BY <1>1, SessionStep, PTL DEF EngineSpec
<1>3. BurstInv => burst \in [Accounts -> Burst]
  BY DEF BurstInv, Burst
<1>4. BreakerIInv => BreakerTypeOK
  BY DEF BreakerIInv
<1>5. EngineSpec => []TypeOK
  BY EngineIsQueue, TypeCorrect, PTL
<1> QED BY <1>2, <1>3, <1>4, <1>5, BurstInvariant, EngineBreakerInvariant, PTL
    DEF EngineTypeOK, SessionTypeOK

-----------------------------------------------------------------------------
(* What the breaker hears of the attempts charged.                         *)

\* An administrator's call of the breaker is a clear.
AdminsOnlyClear == \A k \in Admins : call[k].op # "failure"

\* The attempts of an account and the failures its breaker counts, in balance.
Balanced(c) ==
    /\ IsFiniteSet(Charged(c)) /\ IsFiniteSet(InProgress(c))
    /\ Reported(c) <= Cardinality(Charged(c))
    /\ cuts.aborts = 0 => Reported(c) = Cardinality(Charged(c))

FailuresHeard ==
    used.replays = 0 => \A c \in Accounts : AdminsOnlyClear /\ Balanced(c)

\* What a step does to the two sides: nothing; charge an attempt and begin to report it;
\* finish a report; cut reports short.
Stays(c) ==
    /\ Charged(c)' = Charged(c) /\ InProgress(c)' = InProgress(c)
    /\ seen'[c].total = seen[c].total /\ cuts'.aborts = cuts.aborts

Charges(c) ==
    /\ \E x : x \notin Charged(c) /\ Charged(c)' = Charged(c) \cup {x}
    /\ \E s : s \notin InProgress(c) /\ InProgress(c)' = InProgress(c) \cup {s}
    /\ seen'[c].total = seen[c].total /\ cuts'.aborts = cuts.aborts

Counts(c) ==
    /\ Charged(c)' = Charged(c)
    /\ \E s \in InProgress(c) : InProgress(c)' = InProgress(c) \ {s}
    /\ seen'[c].total = seen[c].total + 1 /\ cuts'.aborts = cuts.aborts

Loses(c) ==
    /\ Charged(c)' = Charged(c) /\ InProgress(c)' \subseteq InProgress(c)
    /\ seen'[c].total = seen[c].total /\ cuts'.aborts = cuts.aborts + 1

\* Each of the four keeps the balance.
LEMMA BalanceKept ==
    ASSUME NEW c, Balanced(c), seen[c].total \in Nat, cuts.aborts \in Nat,
           Stays(c) \/ Charges(c) \/ Counts(c) \/ Loses(c)
    PROVE  Balanced(c)'
<1>0. /\ IsFiniteSet(Charged(c)) /\ IsFiniteSet(InProgress(c))
      /\ Cardinality(Charged(c)) \in Nat /\ Cardinality(InProgress(c)) \in Nat
  BY FS_CardinalityType DEF Balanced
<1>1. CASE Stays(c)
  BY <1>1 DEF Stays, Balanced, Reported
<1>2. CASE Charges(c)
  <2>1. /\ IsFiniteSet(Charged(c)')
        /\ Cardinality(Charged(c)') = Cardinality(Charged(c)) + 1
    BY <1>0, <1>2, FS_AddElement DEF Charges
  <2>2. /\ IsFiniteSet(InProgress(c)')
        /\ Cardinality(InProgress(c)') = Cardinality(InProgress(c)) + 1
    BY <1>0, <1>2, FS_AddElement DEF Charges
  <2> QED BY <1>0, <1>2, <2>1, <2>2 DEF Charges, Balanced, Reported
<1>3. CASE Counts(c)
  <2>1. /\ IsFiniteSet(InProgress(c)')
        /\ Cardinality(InProgress(c)') = Cardinality(InProgress(c)) - 1
    BY <1>0, <1>3, FS_RemoveElement DEF Counts
  <2> QED BY <1>0, <1>3, <2>1 DEF Counts, Balanced, Reported
<1>4. CASE Loses(c)
  <2>1. /\ IsFiniteSet(InProgress(c)')
        /\ Cardinality(InProgress(c)') \in Nat
        /\ Cardinality(InProgress(c)') <= Cardinality(InProgress(c))
    BY <1>0, <1>4, FS_Subset, FS_CardinalityType DEF Loses
  <2> QED BY <1>0, <1>4, <2>1 DEF Loses, Balanced, Reported
<1> QED BY <1>1, <1>2, <1>3, <1>4

\* The statements other than a failure and a replay.
ChargesNothing ==
    \/ \E b \in Actions : \/ \E due \in BOOLEAN : Enqueue(b, due)
                          \/ CancelAction(b) \/ BecomeDue(b) \/ LeaseExpires(b)
    \/ \E s \in Slots : Defer(s) \/ MarkRunning(s) \/ PersistSuccess(s)
    \/ \E w \in Workers, t \in Types : ClaimBatch(w, t)
    \/ \E t \in Types : ArchiveDead(t)
    \/ \E c \in Accounts : CancelPendingByAccount(c)
    \/ UNCHANGED row

\* They leave every count of attempts as it is.
LEMMA AttemptsStay == ASSUME IInv, ChargesNothing, NEW a \in Actions PROVE Keeps(a)
<1> USE DEF Keeps
<1>1. row \in [Actions -> Row] /\ \A b \in Actions : row[b] \in Row
  BY DEF IInv, TypeOK
<1>2. ASSUME NEW b \in Actions, NEW due \in BOOLEAN, Enqueue(b, due) PROVE Keeps(a)
  <2>1. row[b].attempts = 0
    BY <1>2 DEF Enqueue, IInv, Consistent, SendBudget
  <2> QED BY <1>1, <1>2, <2>1 DEF Enqueue, Absent
<1>3. ASSUME NEW b \in Actions, CancelAction(b) PROVE Keeps(a)
  BY <1>1, <1>3 DEF CancelAction, Released, Row
<1>4. ASSUME NEW b \in Actions, BecomeDue(b) PROVE Keeps(a)
  BY <1>1, <1>4 DEF BecomeDue, Row
<1>5. ASSUME NEW b \in Actions, LeaseExpires(b) PROVE Keeps(a)
  BY <1>1, <1>5 DEF LeaseExpires, Row
<1>6. ASSUME NEW s \in Slots, Defer(s) PROVE Keeps(a)
  <2>1. row[disp[s].action].attempts = disp[s].attempts
    BY <1>6, OwnRow DEF Defer
  <2> QED BY <1>1, <1>6, <2>1 DEF Defer, Released, Row
<1>7. ASSUME NEW s \in Slots, MarkRunning(s) PROVE Keeps(a)
  BY <1>1, <1>7 DEF MarkRunning, Row
<1>8. ASSUME NEW s \in Slots, PersistSuccess(s) PROVE Keeps(a)
  BY <1>1, <1>8 DEF PersistSuccess, Released, Row
<1>9. ASSUME NEW w \in Workers, NEW t \in Types, ClaimBatch(w, t) PROVE Keeps(a)
  <2>1. PICK S : row' = [b \in Actions |->
                           IF b \in S
                           THEN [row[b] EXCEPT !.status = "claimed", !.lease = "held", !.owner = w]
                           ELSE row[b]]
    BY <1>9, Zenon DEF ClaimBatch
  <2> QED BY <1>1, <2>1 DEF Row
<1>10. ASSUME NEW t \in Types, ArchiveDead(t) PROVE Keeps(a)
  BY <1>1, <1>10 DEF ArchiveDead, Released, Row
<1>11. ASSUME NEW c \in Accounts, CancelPendingByAccount(c) PROVE Keeps(a)
  BY <1>1, <1>11 DEF CancelPendingByAccount, Row
<1> QED BY <1>2, <1>3, <1>4, <1>5, <1>6, <1>7, <1>8, <1>9, <1>10, <1>11, Zenon
        DEF ChargesNothing

LEMMA ChargedStays ==
    ASSUME NEW c, \A a \in Actions : Keeps(a) PROVE Charged(c)' = Charged(c)
BY DEF Charged, Keeps

\* markFailed charges the attempt that its claim was for, and that one only.
LEMMA FailureCharges ==
    ASSUME IInv, NEW s \in Slots, PersistFailure(s), NEW c
    PROVE  IF AccountAt(s) = c
           THEN \E x : x \notin Charged(c) /\ Charged(c)' = Charged(c) \cup {x}
           ELSE Charged(c)' = Charged(c)
<1>0. PICK a, n : a = disp[s].action /\ n = row[a].attempts
  OBVIOUS
<1>1. /\ a \in Actions /\ row[a] \in Row /\ n \in 0 .. MaxAttempts /\ n < MaxAttempts
      /\ disp[s].attempts = n /\ MaxAttempts \in Nat
  BY <1>0, OwnRow, QueueAssumption DEF PersistFailure, Row
<1>2. row'[a].attempts = n + 1 /\ \A b \in Actions \ {a} : row'[b] = row[b]
  BY <1>0, <1>1 DEF PersistFailure, AttemptsMade, Released, IInv, TypeOK, Row
<1>3. CASE AccountAt(s) = c
  <2>1. PICK x : x = <<a, n + 1>>
    OBVIOUS
  <2>2. x \in Actions \X (1 .. MaxAttempts) /\ x[1] = a /\ x[2] = n + 1
    BY <1>1, <2>1
  <2>3. x \notin Charged(c)
    BY <1>0, <1>1, <2>2 DEF Charged
  <2>4. AccountOf[a] = c
    BY <1>0, <1>3 DEF AccountAt
  <2>5. ASSUME NEW y \in Actions \X (1 .. MaxAttempts)
        PROVE  y \in Charged(c)' <=> y \in Charged(c) \/ y = x
    <3>1. y \in Charged(c)' <=> AccountOf[y[1]] = c /\ y[2] <= row'[y[1]].attempts
      BY DEF Charged
    <3>2. y \in Charged(c) <=> AccountOf[y[1]] = c /\ y[2] <= row[y[1]].attempts
      BY DEF Charged
    <3>3. y[1] \in Actions /\ y[2] \in 1 .. MaxAttempts /\ y = <<y[1], y[2]>>
      OBVIOUS
    <3>4. CASE y[1] # a
      BY <1>2, <2>2, <3>1, <3>2, <3>3, <3>4
    <3>5. CASE y[1] = a
      <4>1. y[2] <= n + 1 <=> y[2] <= n \/ y[2] = n + 1
        BY <1>1, <3>3
      <4>2. y = x <=> y[2] = n + 1
        BY <2>1, <2>2, <3>3, <3>5
      <4> QED BY <1>0, <1>2, <2>4, <3>1, <3>2, <3>5, <4>1, <4>2
    <3> QED BY <3>4, <3>5
  <2>6. Charged(c) \subseteq Actions \X (1 .. MaxAttempts) /\ Charged(c)' \subseteq Actions \X (1 .. MaxAttempts)
    BY DEF Charged
  <2>7. Charged(c)' = Charged(c) \cup {x}
    BY <2>2, <2>5, <2>6, Zenon
  <2> QED BY <1>3, <2>3, <2>7
<1>4. CASE AccountAt(s) # c
  <2>1. \A y \in Actions : AccountOf[y] = c => row'[y] = row[y]
    BY <1>0, <1>2, <1>4 DEF AccountAt
  <2>2. Charged(c)' = Charged(c)
    BY <2>1 DEF Charged
  <2> QED BY <1>4, <2>2
<1> QED BY <1>3, <1>4

\* What a step of the breaker does to the failures in progress.
Silent(c) ==
    /\ InProgress(c)' = InProgress(c)
    /\ seen'[c].total = seen[c].total /\ cuts'.aborts = cuts.aborts

Counted(c) ==
    /\ \E s \in InProgress(c) : InProgress(c)' = InProgress(c) \ {s}
    /\ seen'[c].total = seen[c].total + 1 /\ cuts'.aborts = cuts.aborts

LEMMA CallStepCounts ==
    ASSUME BreakerIInv, AdminsOnlyClear, NEW k \in Callers, CallStep(k),
           NEW c \in Accounts
    PROVE  AdminsOnlyClear' /\ (Silent(c) \/ Counted(c))
<1> USE DEF BreakerIInv, BreakerTypeOK
<1>0. /\ call \in [Callers -> Call] /\ seen \in [Accounts -> Seen]
      /\ Admins \cap Slots = {}
  BY EngineAssumption
<1>1. CASE LoadSnapshot(k) \/ UpsertReset(k) \/ DeletePauseKeys(k)
  <2>1. /\ \/ call'[k].account = call[k].account /\ call'[k].op = call[k].op
           \/ call'[k].op = "idle" /\ call[k].op = "reset"
        /\ \A q \in Callers \ {k} : call'[q] = call[q]
    <3>0. call[k] \in Call
      BY <1>0
    <3>1. CASE LoadSnapshot(k)
      BY <1>0, <3>0, <3>1 DEF LoadSnapshot, Call
    <3>2. CASE UpsertReset(k)
      BY <1>0, <3>0, <3>2 DEF UpsertReset, Call
    <3>3. CASE DeletePauseKeys(k)
      BY <1>0, <3>3 DEF DeletePauseKeys, At, Idle
    <3> QED BY <1>1, <3>1, <3>2, <3>3
  <2>2. seen'[c].total = seen[c].total /\ cuts' = cuts
    BY <1>0, <1>1 DEF LoadSnapshot, UpsertReset, DeletePauseKeys, Seen
  <2>3. InProgress(c)' = InProgress(c)
    BY <2>1 DEF InProgress
  <2>4. AdminsOnlyClear'
    BY <2>1 DEF AdminsOnlyClear
  <2> QED BY <2>2, <2>3, <2>4 DEF Silent
<1>2. CASE UpsertFailure(k)
  <2>1. k \in Slots /\ k \notin Admins /\ call[k].op = "failure"
    BY <1>0, <1>2 DEF AdminsOnlyClear, UpsertFailure, At
  <2>2. /\ call'[k].op = "idle" /\ cuts' = cuts
        /\ \A q \in Callers \ {k} : call'[q] = call[q]
    BY <1>0, <1>2 DEF UpsertFailure, Idle
  <2>3. seen'[c].total = IF call[k].account = c THEN seen[c].total + 1 ELSE seen[c].total
    BY <1>0, <1>2 DEF UpsertFailure, Seen
  <2>4. AdminsOnlyClear'
    BY <2>1, <2>2 DEF AdminsOnlyClear
  <2>5. CASE call[k].account = c
    <3>1. k \in InProgress(c) /\ InProgress(c)' = InProgress(c) \ {k}
      BY <2>1, <2>2, <2>5 DEF InProgress
    <3> QED BY <2>2, <2>3, <2>4, <2>5, <3>1 DEF Counted
  <2>6. CASE call[k].account # c
    <3>1. InProgress(c)' = InProgress(c)
      BY <2>1, <2>2, <2>6 DEF InProgress
    <3> QED BY <2>2, <2>3, <2>4, <2>6, <3>1 DEF Silent
  <2> QED BY <2>5, <2>6
<1> QED BY <1>1, <1>2 DEF CallStep

\* So do the statements that are none of a call's: nothing, and the breaker's own clock.
LEMMA OthersSilent ==
    ASSUME BreakerIInv, AdminsOnlyClear, NEW c \in Accounts,
           \/ UNCHANGED breakerVars
           \/ \E d \in Accounts : DeleteKeys(d) \/ PauseExpires(d)
    PROVE  AdminsOnlyClear' /\ Silent(c)
<1>1. seen \in [Accounts -> Seen]
  BY DEF BreakerIInv, BreakerTypeOK
<1>2. CASE UNCHANGED breakerVars
  BY <1>2 DEF breakerVars, AdminsOnlyClear, Silent, InProgress
<1>3. ASSUME NEW d \in Accounts, DeleteKeys(d) \/ PauseExpires(d)
      PROVE  AdminsOnlyClear' /\ Silent(c)
  <2>1. /\ call' = call /\ cuts'.aborts = cuts.aborts
        /\ seen'[c].total = seen[c].total
    <3>1. CASE DeleteKeys(d)
      BY <1>1, <3>1 DEF DeleteKeys, Seen, BreakerIInv, BreakerTypeOK
    <3>2. CASE PauseExpires(d)
      BY <3>2 DEF PauseExpires
    <3> QED BY <1>3, <3>1, <3>2
  <2> QED BY <2>1 DEF AdminsOnlyClear, Silent, InProgress
<1> QED BY <1>2, <1>3

\* recordSuccess and clear are called.
LEMMA ResetSilent ==
    ASSUME BreakerIInv, AdminsOnlyClear, NEW c \in Accounts,
           NEW k \in Callers, NEW d, BeginReset(k, d)
    PROVE  AdminsOnlyClear' /\ Silent(c)
<1>1. /\ call[k].op = "idle" /\ call'[k].op = "reset" /\ UNCHANGED <<seen, cuts>>
      /\ \A q \in Callers \ {k} : call'[q] = call[q]
  BY DEF BeginReset, Idle, BreakerIInv, BreakerTypeOK
<1> QED BY <1>1 DEF AdminsOnlyClear, Silent, InProgress

\* recordFailure is called, by a dispatch.
LEMMA FailureStarts ==
    ASSUME BreakerIInv, AdminsOnlyClear, NEW c \in Accounts,
           NEW s \in Slots, NEW d, BeginFailure(s, d)
    PROVE  /\ AdminsOnlyClear'
           /\ IF d = c
              THEN /\ s \notin InProgress(c) /\ InProgress(c)' = InProgress(c) \cup {s}
                   /\ UNCHANGED <<seen, cuts>>
              ELSE Silent(c)
<1>1. /\ call[s].op = "idle" /\ call'[s].op = "failure" /\ call'[s].account = d
      /\ UNCHANGED <<seen, cuts>>
      /\ \A q \in Callers \ {s} : call'[q] = call[q]
  BY DEF BeginFailure, Idle, BreakerIInv, BreakerTypeOK
<1>2. s \notin Admins
  BY EngineAssumption
<1>3. AdminsOnlyClear'
  BY <1>1, <1>2 DEF AdminsOnlyClear
<1>4. CASE d = c
  BY <1>1, <1>3, <1>4 DEF InProgress
<1>5. CASE d # c
  BY <1>1, <1>3, <1>5 DEF InProgress, Silent
<1> QED BY <1>4, <1>5

\* Calls are cut short.
LEMMA CutLoses ==
    ASSUME BreakerIInv, AdminsOnlyClear, NEW c \in Accounts,
           NEW S \in SUBSET Slots, CutCalls(S), UNCHANGED row
    PROVE  AdminsOnlyClear' /\ (Silent(c) \/ Loses(c))
<1>1. PICK K : K = {s \in S : call[s].op # "idle"}
  OBVIOUS
<1>2. CASE UNCHANGED breakerVars
  BY <1>2, OthersSilent
<1>3. CASE AbortCalls(K)
  <2>1. /\ cuts'.aborts = cuts.aborts + 1 /\ seen' = seen
        /\ \A q \in Callers : call'[q].op = "idle" \/ call'[q] = call[q]
    BY <1>3 DEF AbortCalls, Idle, BreakerIInv, BreakerTypeOK
  <2>2. InProgress(c)' \subseteq InProgress(c) /\ AdminsOnlyClear'
    BY <2>1 DEF InProgress, AdminsOnlyClear
  <2>3. Charged(c)' = Charged(c)
    BY ChargedStays DEF Keeps
  <2> QED BY <2>1, <2>2, <2>3 DEF Loses
<1> QED BY <1>1, <1>2, <1>3 DEF CutCalls

\* The outcomes of a step for the account c.
Accounted(c) == AdminsOnlyClear' /\ (Stays(c) \/ Charges(c) \/ Counts(c) \/ Loses(c))

LEMMA Uncharged ==
    ASSUME IInv, ChargesNothing, NEW c, AdminsOnlyClear', Silent(c) \/ Counted(c)
    PROVE  Accounted(c)
<1>1. Charged(c)' = Charged(c)
  BY AttemptsStay, ChargedStays
<1> QED BY <1>1 DEF Accounted, Silent, Stays, Counted, Counts

LEMMA HeardStep ==
    ASSUME IInv, BreakerIInv, AdminsOnlyClear, [EngineNext]_engineVars,
           used'.replays = 0, NEW c \in Accounts
    PROVE  Accounted(c)
<1>1. ASSUME ChargesNothing,
             \/ UNCHANGED breakerVars
             \/ \E d \in Accounts : DeleteKeys(d) \/ PauseExpires(d)
      PROVE  Accounted(c)
  BY <1>1, Uncharged, OthersSilent
<1>2. ASSUME NEW s \in Slots, AskBreaker(s) \/ RowStep(s) \/ RecordSession(s)
      PROVE  Accounted(c)
  <2>1. ChargesNothing
    <3>1. AskBreaker(s) \/ RecordSession(s) => UNCHANGED row
      BY DEF AskBreaker, RecordSession, Gate, RecordOutcome
    <3>2. RowStep(s) => Defer(s) \/ MarkRunning(s) \/ UNCHANGED row
      BY DEF RowStep, SendToX, ExecutorSucceeds, ExecutorFails
    <3> QED BY <1>2, <3>1, <3>2, Zenon DEF ChargesNothing
  <2>2. UNCHANGED breakerVars
    BY <1>2, Zenon DEF AskBreaker, RowStep, RecordSession
  <2> QED BY <1>1, <2>1, <2>2
<1>3. ASSUME NEW s \in Slots, ReportSuccess(s) PROVE Accounted(c)
  <2>1. ChargesNothing /\ BeginReset(s, AccountAt(s))
    BY <1>3, Zenon DEF ReportSuccess, ChargesNothing
  <2> QED BY <2>1, Uncharged, ResetSilent
<1>4. ASSUME NEW s \in Slots, ReportFailure(s) PROVE Accounted(c)
  <2>1. PersistFailure(s) /\ BeginFailure(s, AccountAt(s))
    BY <1>4, Zenon DEF ReportFailure
  <2>2. CASE AccountAt(s) = c
    <3>1. \E x : x \notin Charged(c) /\ Charged(c)' = Charged(c) \cup {x}
      BY <2>1, <2>2, FailureCharges
    <3>2. /\ AdminsOnlyClear' /\ UNCHANGED <<seen, cuts>>
          /\ s \notin InProgress(c) /\ InProgress(c)' = InProgress(c) \cup {s}
      BY <2>1, <2>2, FailureStarts
    <3> QED BY <3>1, <3>2 DEF Accounted, Charges
  <2>3. CASE AccountAt(s) # c
    <3>1. Charged(c)' = Charged(c)
      BY <2>1, <2>3, FailureCharges
    <3>2. AdminsOnlyClear' /\ Silent(c)
      BY <2>1, <2>3, FailureStarts
    <3> QED BY <3>1, <3>2 DEF Accounted, Silent, Stays
  <2> QED BY <2>2, <2>3
<1>5. ASSUME BreakerStep PROVE Accounted(c)
  <2>1. ChargesNothing
    BY <1>5 DEF BreakerStep, vars, ChargesNothing
  <2>2. PICK k \in Callers : CallStep(k)
    BY <1>5 DEF BreakerStep
  <2> QED BY <2>1, <2>2, CallStepCounts, Uncharged
<1>6. ASSUME NEW S \in SUBSET Slots, CutCalls(S), UNCHANGED row PROVE Accounted(c)
  <2>1. ChargesNothing
    BY <1>6 DEF ChargesNothing
  <2> QED BY <1>6, <2>1, CutLoses, Uncharged DEF Accounted
<1>7. ASSUME EngineFault PROVE Accounted(c)
  <2>1. UNCHANGED row
    BY <1>7 DEF EngineFault, DispatchAborts, ClaimResponseLost, Crash, DrainTimeout
  <2>2. UNCHANGED breakerVars \/ \E S \in SUBSET Slots : CutCalls(S)
    BY <1>7, Zenon DEF EngineFault, OfWorker
  <2>3. ChargesNothing
    BY <2>1 DEF ChargesNothing
  <2> QED BY <1>1, <1>6, <2>1, <2>2, <2>3
<1>8. ASSUME NEW w \in Workers, WorkerStep(w) PROVE Accounted(c)
  <2>1. CASE Drained(w) /\ CutCalls(OfWorker(w))
    <3>1. OfWorker(w) \in SUBSET Slots /\ UNCHANGED row
      BY <2>1 DEF OfWorker, Drained
    <3> QED BY <1>6, <2>1, <3>1
  <2>2. CASE /\ UNCHANGED breakerVars
             /\ \/ \E t \in Types : ClaimBatch(w, t)
                \/ StartDispatches(w) \/ Stop(w) \/ Restart(w)
    <3>1. ChargesNothing
      BY <2>2, Zenon DEF ChargesNothing, StartDispatches, Stop, Restart
    <3> QED BY <1>1, <2>2, <3>1
  <2> QED BY <1>8, <2>1, <2>2, Zenon DEF WorkerStep
<1>9. ASSUME QueueRequest PROVE Accounted(c)
  <2>1. ASSUME NEW a \in Actions, ReplayAction(a) PROVE FALSE
    BY <2>1 DEF ReplayAction, IInv, TypeOK
  <2>2. ChargesNothing /\ UNCHANGED breakerVars
    BY <1>9, <2>1, Zenon DEF QueueRequest, ChargesNothing
  <2> QED BY <1>1, <2>2
<1>10. ASSUME NEW d \in Accounts, DeleteAccount(d) PROVE Accounted(c)
  BY <1>1, <1>10, Zenon DEF DeleteAccount, ChargesNothing
<1>11. ASSUME NEW d \in Accounts, NEW k \in Admins, ClearBreaker(k, d) PROVE Accounted(c)
  <2>1. ChargesNothing /\ BeginReset(k, d)
    BY <1>11 DEF ClearBreaker, vars, ChargesNothing
  <2> QED BY <2>1, Uncharged, ResetSilent
<1>12. ASSUME \/ UNCHANGED engineVars \/ Clock
              \/ \E d \in Accounts : LoginStores(d) \/ LoginReports(d) \/ ReauthFails(d)
       PROVE  Accounted(c)
  <2>1. ChargesNothing
    BY <1>12, Zenon DEF engineVars, Clock, LoginStores, LoginReports, ReauthFails, vars,
                        ChargesNothing
  <2>2. \/ UNCHANGED breakerVars
        \/ \E d \in Accounts : DeleteKeys(d) \/ PauseExpires(d)
    BY <1>12, Zenon DEF engineVars, Clock, LoginStores, LoginReports, ReauthFails
  <2> QED BY <1>1, <2>1, <2>2
<1>13. Reauthed \subseteq Accounts
  BY EngineAssumption
<1> QED BY <1>2, <1>3, <1>4, <1>5, <1>7, <1>8, <1>9, <1>10, <1>11, <1>12, <1>13, Zenon
        DEF EngineNext, EngineStep

\* Replays are counted and never forgotten.
LEMMA ReplaysGrow ==
    ASSUME TypeOK, [Next]_vars
    PROVE  used'.replays = used.replays \/ used'.replays = used.replays + 1
<1>1. used \in [faults : 0 .. MaxFaults, stops : 0 .. MaxStops, replays : 0 .. MaxReplays]
  BY DEF TypeOK
<1>2. Fault \/ (\E w \in Workers : Stop(w)) => used'.replays = used.replays
  BY <1>1 DEF Fault, Stop
<1>3. ASSUME NEW a \in Actions, ReplayAction(a) PROVE used'.replays = used.replays + 1
  BY <1>1, <1>3 DEF ReplayAction
<1>4. FaultStep => Fault
  BY Zenon DEF FaultStep, DispatchAborts, ClaimResponseLost, Crash, DrainTimeout
<1>5. (\E s \in Slots : DispatchStep(s)) \/ TimeStep => UNCHANGED used
  BY Zenon DEF DispatchStep, TimeStep, Gate, Defer, MarkRunning, SendToX, ExecutorSucceeds,
     ExecutorFails, PersistSuccess, PersistFailure, RecordOutcome, BecomeDue, LeaseExpires
<1>6. ASSUME NEW w \in Workers, ProcessStep(w) PROVE Stop(w) \/ UNCHANGED used
  BY <1>6, Zenon DEF ProcessStep, ClaimBatch, StartDispatches, Drained, Restart
<1>7. OperatorStep \/ (\E a \in Actions, due \in BOOLEAN : Enqueue(a, due))
         => UNCHANGED used \/ \E a \in Actions : ReplayAction(a)
  BY Zenon DEF OperatorStep, Enqueue, CancelAction, ArchiveDead, CancelPendingByAccount
<1>8. UNCHANGED vars => UNCHANGED used
  BY DEF vars
<1>9. \/ UNCHANGED used \/ Fault \/ (\E w \in Workers : Stop(w))
      \/ \E a \in Actions : ReplayAction(a)
  BY <1>4, <1>5, <1>6, <1>7, <1>8, Zenon DEF Next
<1> QED BY <1>2, <1>3, <1>9

\* The balance at the start.
LEMMA InitHeard == EngineInit => FailuresHeard
<1> SUFFICES ASSUME EngineInit PROVE FailuresHeard
  OBVIOUS
<1>1. AdminsOnlyClear
  BY DEF EngineInit, BreakerInit, Idle, AdminsOnlyClear
<1>2. ASSUME NEW c \in Accounts PROVE Balanced(c)
  <2>1. Charged(c) = {}
    BY DEF Charged, EngineInit, Init, Absent
  <2>2. InProgress(c) = {}
    BY DEF InProgress, EngineInit, BreakerInit, Idle
  <2>3. seen[c].total = 0
    BY DEF EngineInit, BreakerInit
  <2> QED BY <2>1, <2>2, <2>3, FS_EmptySet DEF Balanced, Reported
<1> QED BY <1>1, <1>2 DEF FailuresHeard

\* The breaker hears of every attempt that is charged, once, however the statements of
\* ClaimWorker.persistOutcome and recordFailure interleave with claims, cancels and
\* deletions of accounts: only a call that is cut short loses one.
THEOREM EngineFailures == EngineSpec => []FailuresReachBreaker
<1>1. IInv /\ BreakerIInv /\ FailuresHeard /\ [EngineNext]_engineVars => FailuresHeard'
  <2> SUFFICES ASSUME IInv, BreakerIInv, FailuresHeard, [EngineNext]_engineVars
               PROVE  FailuresHeard'
    OBVIOUS
  <2>1. used'.replays = 0 => used.replays = 0
    <3>1. TypeOK /\ used.replays \in Nat
      BY DEF IInv, TypeOK
    <3> QED BY <3>1, QueueStep, ReplaysGrow
  <2>2. ASSUME used'.replays = 0, NEW c \in Accounts PROVE AdminsOnlyClear' /\ Balanced(c)'
    <3>1. AdminsOnlyClear /\ Balanced(c)
      BY <2>1, <2>2 DEF FailuresHeard
    <3>2. seen[c].total \in Nat /\ cuts.aborts \in Nat
      BY QueueAssumption DEF BreakerIInv, BreakerTypeOK, Seen
    <3>3. Accounted(c)
      BY <2>2, <3>1, HeardStep
    <3> QED BY <3>1, <3>2, <3>3, BalanceKept DEF Accounted
  <2> QED BY <2>2 DEF FailuresHeard
<1>2. FailuresHeard => FailuresReachBreaker
  BY DEF FailuresHeard, FailuresReachBreaker, Balanced
<1>3. EngineSpec => []IInv
  BY EngineIsQueue, InductiveInvariant, PTL
<1> QED BY <1>1, <1>2, <1>3, InitHeard, EngineBreakerInvariant, PTL DEF EngineSpec
=============================================================================
