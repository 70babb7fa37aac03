---------------------------- MODULE BrowserPool ----------------------------
(***************************************************************************)
(* The browser contexts of one process: XBrowserService, which launches    *)
(* and releases them, and its users, who work in between: executors, the   *)
(* post flow, readers and probes.                                          *)
(*                                                                         *)
(* Chromium is external, and so is patchright, whose close() closes a      *)
(* context once: a second call returns at once, whether the first has come *)
(* to an end or not.  Profile directories are left out, and with them      *)
(* clearStaleLocks; so is what happens on a page.                          *)
(***************************************************************************)
EXTENDS Naturals

CONSTANTS
    Users,        \* users that may be under way at once
    MaxContexts,  \* bound on the contexts launched
    MaxFaults     \* bound on awaits that reject and browsers that die

ASSUME BrowserAssumption == {MaxContexts, MaxFaults} \subseteq Nat

Contexts == 1 .. MaxContexts
NoContext == 0

VARIABLES
    context,  \* the state of each browser context
    active,   \* the contexts XBrowserService knows of
    user,     \* where each user is
    service,  \* "up"; "closing", in onModuleDestroy; "down", after it
    awaited,  \* the contexts onModuleDestroy waits for
    ghost,    \* what became of contexts, see Fates
    count     \* how many contexts and faults there were (bounds)

vars == <<context, active, user, service, awaited, ghost, count>>

-----------------------------------------------------------------------------
\* Where a user is.  Each phase but "idle" is an await:
\*   launch   launchPersistentContext
\*   inject   CookieInjectorService.inject
\*   page     newPage
\*   work     what the user does with the page
\*   release  close(), or its timeout
User == [phase : {"idle", "launch", "inject", "page", "work", "release"},
         context : Contexts \cup {NoContext}]

NoUser == [phase |-> "idle", context |-> NoContext]

\* late: launched, but not active, when the shutdown looked; lost: given up by everybody;
\* kept: given up by its user, still active.
Fates == [late : SUBSET Contexts, lost : SUBSET Contexts, kept : SUBSET Contexts]

TypeOK ==
    /\ context \in [Contexts -> {"none", "open", "closing", "closed"}]
    /\ active \subseteq {c \in Contexts : context[c] # "none"}
    /\ user \in [Users -> User]
    /\ \A u, v \in Users : user[u].context = user[v].context
                               => u = v \/ user[u].context = NoContext
    /\ \A u \in Users : user[u].context = NoContext <=> user[u].phase \in {"idle", "launch"}
    /\ service \in {"up", "closing", "down"}
    /\ awaited \subseteq Contexts
    /\ ghost \in Fates
    /\ count \in [contexts : 0 .. MaxContexts, faults : 0 .. MaxFaults]

Init ==
    /\ context = [c \in Contexts |-> "none"]
    /\ active = {}
    /\ user = [u \in Users |-> NoUser]
    /\ service = "up"
    /\ awaited = {}
    /\ ghost = [late |-> {}, lost |-> {}, kept |-> {}]
    /\ count = [contexts |-> 0, faults |-> 0]

-----------------------------------------------------------------------------
(* Helpers.                                                                *)

At(u, phase) == user[u].phase = phase

Goto(u, phase) == user' = [user EXCEPT ![u].phase = phase]

Leave(u) == user' = [user EXCEPT ![u] = NoUser]

Fault ==
    /\ count.faults < MaxFaults
    /\ count' = [count EXCEPT !.faults = @ + 1]

\* Contexts whose browser lives.
Living == {c \in Contexts : context[c] \in {"open", "closing"}}

\* A call on the user's context rejects, of itself or because the browser is dead.
CallRejects(u) ==
    \/ Fault
    \/ user[u].context \notin Living /\ UNCHANGED count

\* Contexts whose release() waits for their close.
Releasing == {user[u].context : u \in {v \in Users : At(v, "release")}}

\* close() of the contexts in C: only of those that are open is there anything to do.
Closing(C) ==
    [c \in Contexts |-> IF c \in C /\ context[c] = "open" THEN "closing" ELSE context[c]]

-----------------------------------------------------------------------------
(* launch().                                                               *)

Launch(u) ==
    /\ At(u, "idle")
    /\ Goto(u, "launch")
    /\ UNCHANGED <<context, active, service, awaited, ghost, count>>

\* The browser has started.
Launched(u) ==
    /\ At(u, "launch")
    /\ count.contexts < MaxContexts
    /\ LET c == count.contexts + 1
       IN  /\ context' = [context EXCEPT ![c] = "open"]
           /\ user' = [user EXCEPT ![u] = [phase |-> "inject", context |-> c]]
           /\ ghost' = IF service = "up" THEN ghost ELSE [ghost EXCEPT !.late = @ \cup {c}]
           /\ count' = [count EXCEPT !.contexts = c]
    /\ UNCHANGED <<active, service, awaited>>

\* launchTimeoutMs, or another reason not to start.
LaunchRejects(u) ==
    /\ At(u, "launch")
    /\ Fault
    /\ Leave(u)
    /\ UNCHANGED <<context, active, service, awaited, ghost>>

\* The cookies are in place (a launch without an account needs none); active.add.
Injected(u) ==
    /\ At(u, "inject")
    /\ active' = active \cup {user[u].context}
    /\ Goto(u, "page")
    /\ UNCHANGED <<context, service, awaited, ghost, count>>

\* launch() rejects, and nobody has the context.
InjectRejects(u) ==
    /\ At(u, "inject")
    /\ CallRejects(u)
    /\ ghost' = [ghost EXCEPT !.lost = @ \cup {user[u].context}]
    /\ Leave(u)
    /\ UNCHANGED <<context, active, service, awaited>>

PageOpens(u) ==
    /\ At(u, "page")
    /\ Goto(u, "work")
    /\ UNCHANGED <<context, active, service, awaited, ghost, count>>

\* launch() rejects, and only onModuleDestroy will close the context.
PageRejects(u) ==
    /\ At(u, "page")
    /\ CallRejects(u)
    /\ ghost' = [ghost EXCEPT !.kept = @ \cup {user[u].context}]
    /\ Leave(u)
    /\ UNCHANGED <<context, active, service, awaited>>

-----------------------------------------------------------------------------
(* release().                                                              *)

\* Mutant of WorkEnds: a user without finally.
WorkFails(u) ==
    /\ At(u, "work")
    /\ Leave(u)
    /\ UNCHANGED <<context, active, service, awaited, ghost, count>>

\* The work is done or has failed: finally, release() calls close().
WorkEnds(u) ==
    /\ At(u, "work")
    /\ context[user[u].context] = "open"
    /\ context' = Closing({user[u].context})
    /\ Goto(u, "release")
    /\ UNCHANGED <<active, service, awaited, ghost, count>>

\* The browser is dead, or onModuleDestroy closes it: close() returns at once, and
\* active.delete.
WorkEndsLate(u) ==
    /\ At(u, "work")
    /\ context[user[u].context] # "open"
    /\ active' = active \ {user[u].context}
    /\ Leave(u)
    /\ UNCHANGED <<context, service, awaited, ghost, count>>

\* close() has settled, and active.delete.
Released(u) ==
    /\ At(u, "release")
    /\ user[u].context \notin Living
    /\ active' = active \ {user[u].context}
    /\ Leave(u)
    /\ UNCHANGED <<context, service, awaited, ghost, count>>

\* releaseTimeoutMs are over, and active.delete; the close may still come to an end.
ReleaseTimesOut(u) ==
    /\ At(u, "release")
    /\ user[u].context \in Living
    /\ active' = active \ {user[u].context}
    /\ ghost' = [ghost EXCEPT !.lost = @ \cup {user[u].context}]
    /\ Leave(u)
    /\ UNCHANGED <<context, service, awaited, count>>

-----------------------------------------------------------------------------
(* Chromium (external).                                                    *)

\* It ends, as it was told to.
BrowserEnds(c) ==
    /\ context[c] = "closing"
    /\ context' = [context EXCEPT ![c] = "closed"]
    /\ UNCHANGED <<active, user, service, awaited, ghost, count>>

BrowserDies(c) ==
    /\ c \in Living
    /\ Fault
    /\ context' = [context EXCEPT ![c] = "closed"]
    /\ UNCHANGED <<active, user, service, awaited, ghost>>

-----------------------------------------------------------------------------
(* Shutdown, while users go on.                                            *)

\* Mutant of Shutdown: the closes are begun, and not awaited.
ShutdownUnawaited ==
    /\ service = "up"
    /\ service' = "closing"
    /\ context' = Closing(active)
    /\ ghost' = [ghost EXCEPT !.late = {user[u].context : u \in {v \in Users : At(v, "inject")}}]
    /\ UNCHANGED <<active, user, awaited, count>>

\* onModuleDestroy closes what is active; close() of what a release() is closing returns
\* at once.
Shutdown ==
    /\ service = "up"
    /\ service' = "closing"
    /\ context' = Closing(active)
    /\ awaited' = {c \in active : context[c] = "open"}
    /\ ghost' = [ghost EXCEPT !.late = {user[u].context : u \in {v \in Users : At(v, "inject")}}]
    /\ UNCHANGED <<active, user, count>>

\* allSettled has no timeout; active.clear.
ShutdownEnds ==
    /\ service = "closing"
    /\ awaited \cap Living = {}
    /\ service' = "down"
    /\ active' = {}
    /\ UNCHANGED <<context, user, awaited, ghost, count>>

-----------------------------------------------------------------------------
UserStep(u) ==
    \/ Launch(u) \/ Launched(u) \/ LaunchRejects(u)
    \/ Injected(u) \/ InjectRejects(u) \/ PageOpens(u) \/ PageRejects(u)
    \/ WorkEnds(u) \/ WorkEndsLate(u) \/ Released(u) \/ ReleaseTimesOut(u)

Next ==
    \/ \E u \in Users : UserStep(u)
    \/ \E c \in Contexts : BrowserEnds(c) \/ BrowserDies(c)
    \/ Shutdown
    \/ ShutdownEnds

Spec == Init /\ [][Next]_vars

-----------------------------------------------------------------------------
(* Properties.                                                             *)

\* A browser lives only as long as a user works with it, or onModuleDestroy waits for its
\* end, unless the call after its launch was rejected or its close took too long: no page
\* that fails, at whatever step, leaves a browser behind.
NoBrowserIsLeft ==
    Living \subseteq {user[u].context : u \in Users} \cup awaited \cup ghost.lost \cup ghost.kept

\* Once onModuleDestroy is done, no browser lives but those that had been given up, those
\* that were launching while it began, and those whose user had begun to close them: the
\* users that were at work, and those that had left their browser to it, have none.
ShutdownLeavesNone ==
    service = "down" => Living \subseteq ghost.late \cup ghost.lost \cup Releasing

\* x-browser.service.ts:71-76: nor those that a release() is closing.  The code does not
\* keep this: see README.md, "On record".
ReleaseIsSeenThrough ==
    service = "down" => Living \subseteq ghost.late \cup ghost.lost
=============================================================================
