--------------------------- MODULE ActionLifecycle ---------------------------
(***************************************************************************)
(* What the action engine promises about one queued action, whoever runs   *)
(* it: it is taken by one holder at a time, X receives it at most once per *)
(* taking and at most MaxAttempts times between two requests of an         *)
(* operator or producer, and what succeeded stays so.  The engine does not *)
(* promise that a taken action comes back: its holder may be lost, and the *)
(* action with it.                                                         *)
(***************************************************************************)
EXTENDS Naturals

CONSTANTS Actions, MaxAttempts

VARIABLES
    state,  \* of each action
    spent,  \* the present holder has sent the action to X
    sent    \* how often X has received it since it was last requested

vars == <<state, spent, sent>>

State == {"none", "open", "taken", "lost", "done", "dead", "cancelled"}

TypeOK ==
    /\ state \in [Actions -> State]
    /\ spent \in [Actions -> BOOLEAN]
    /\ sent \in [Actions -> 0 .. MaxAttempts]

Init ==
    /\ state = [a \in Actions |-> "none"]
    /\ spent = [a \in Actions |-> FALSE]
    /\ sent = [a \in Actions |-> 0]

\* The actions in S move to state `to`; their holders, if any, let go.
Move(S, to) ==
    /\ state' = [a \in Actions |-> IF a \in S THEN to ELSE state[a]]
    /\ spent' = [a \in Actions |-> spent[a] /\ a \notin S]

In(S, states) == \A a \in S : state[a] \in states

Request(a) ==
    /\ state[a] \in {"none", "open", "dead", "cancelled"}
    /\ Move({a}, "open")
    /\ sent' = [sent EXCEPT ![a] = 0]

Take(S) == In(S, {"open"}) /\ Move(S, "taken") /\ UNCHANGED sent

Send(a) ==
    /\ state[a] = "taken"
    /\ ~spent[a]
    /\ sent[a] < MaxAttempts
    /\ spent' = [spent EXCEPT ![a] = TRUE]
    /\ sent' = [sent EXCEPT ![a] = @ + 1]
    /\ UNCHANGED state

Succeed(a) ==
    /\ state[a] = "taken"
    /\ Move({a}, "done")
    /\ UNCHANGED sent

GiveBack(a, to) ==
    /\ state[a] = "taken"
    /\ Move({a}, to)
    /\ UNCHANGED sent

Lose(S) == In(S, {"taken"}) /\ Move(S, "lost") /\ UNCHANGED sent

Cancel(S) == In(S, {"open", "dead"}) /\ Move(S, "cancelled") /\ UNCHANGED sent

Next ==
    \/ \E a \in Actions : \/ Request(a) \/ Send(a) \/ Succeed(a)
                          \/ \E to \in {"open", "dead"} : GiveBack(a, to)
    \/ \E S \in SUBSET Actions : Take(S) \/ Lose(S) \/ Cancel(S)

Spec == Init /\ [][Next]_vars
=============================================================================
