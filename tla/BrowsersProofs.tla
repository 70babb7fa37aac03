------------------------- MODULE BrowsersProofs -------------------------
(***************************************************************************)
(* For every number of users, contexts and faults: no page that fails      *)
(* leaves a browser behind, and the shutdown leaves none but those that    *)
(* were launching, had been given up, or were being closed by their users. *)
(*                                                                         *)
(* For every set of refusals and every bound: a login gives X nothing more *)
(* once it is cancelled, says what happened, forgets no browser, and is a  *)
(* login to the queue.                                                     *)
(***************************************************************************)
EXTENDS Browsers, FiniteSetTheorems, TLAPS

\* The contexts that were launched are those with the numbers used so far, and users and
\* the service know of no other: what a launch brings is new to everybody.
LaunchesAreNew ==
    /\ \A c \in Contexts : context[c] = "none" <=> c > count.contexts
    /\ \A u \in Users : user[u].context # NoContext => context[user[u].context] # "none"
    /\ \A c \in awaited : context[c] # "none"

\* Who waits for a browser that was told to end.
ClosesAreAwaited ==
    /\ \A c \in Contexts : context[c] = "closing" => c \in awaited \cup ghost.lost \cup Releasing
    /\ service = "up" => awaited = {}

\* Who will close a browser that lives, before, during and after the shutdown.
SomebodyCloses ==
    /\ service = "up" =>
          Living \subseteq {user[u].context : u \in {v \in Users : At(v, "inject")}}
                              \cup active \cup ghost.lost
    /\ service = "closing" => Living \subseteq awaited \cup ghost.late \cup ghost.lost \cup Releasing

IInv ==
    /\ TypeOK
    /\ LaunchesAreNew
    /\ ClosesAreAwaited
    /\ SomebodyCloses
    /\ NoBrowserIsLeft
    /\ ShutdownLeavesNone

-----------------------------------------------------------------------------
LEMMA CountsAreNaturals ==
    /\ MaxContexts \in Nat /\ MaxFaults \in Nat
    /\ Contexts \subseteq Nat /\ NoContext \notin Contexts
    /\ \A c \in Contexts : c >= 1 /\ c <= MaxContexts
BY BrowserAssumption DEF Contexts, NoContext

LEMMA ClosingKeepsLiving ==
    ASSUME TypeOK, NEW C, context' = Closing(C)
    PROVE  /\ Living' = Living
           /\ context' \in [Contexts -> {"none", "open", "closing", "closed"}]
           /\ \A c \in Contexts : context'[c] = "none" <=> context[c] = "none"
           /\ \A c \in Contexts : context'[c] = "closing" =>
                 context[c] = "closing" \/ (c \in C /\ context[c] = "open")
BY DEF TypeOK, Closing, Living

LEMMA Initially == Init => IInv
<1> SUFFICES ASSUME Init PROVE IInv
  OBVIOUS
<1>1. TypeOK
  BY CountsAreNaturals DEF Init, TypeOK, NoUser, User, Fates
<1>2. Living = {}
  BY DEF Init, Living
<1>3. LaunchesAreNew
  BY CountsAreNaturals DEF Init, LaunchesAreNew, NoUser
<1> QED BY <1>1, <1>2, <1>3 DEF Init, IInv, ClosesAreAwaited, SomebodyCloses, NoBrowserIsLeft, ShutdownLeavesNone

-----------------------------------------------------------------------------
(* Types, and the novelty of what is launched.                             *)

LEMMA TypesKept == IInv /\ [Next]_vars => TypeOK' /\ LaunchesAreNew'
<1> SUFFICES ASSUME IInv, [Next]_vars PROVE TypeOK' /\ LaunchesAreNew'
  OBVIOUS
<1> USE CountsAreNaturals
<1>0. TypeOK /\ LaunchesAreNew
  BY DEF IInv
<1>1. CASE UNCHANGED vars
  BY <1>0, <1>1 DEF TypeOK, LaunchesAreNew, vars, At
<1>2. ASSUME NEW u \in Users, UserStep(u) PROVE TypeOK' /\ LaunchesAreNew'
  <2>0. user[u] \in User /\ count \in [contexts : 0 .. MaxContexts, faults : 0 .. MaxFaults]
          /\ ghost \in Fates
    BY <1>0 DEF TypeOK
  <2>1. CASE Launch(u)
    BY <1>0, <2>0, <2>1 DEF Launch, TypeOK, LaunchesAreNew, At, Goto, User, NoContext
  <2>2. CASE Launched(u)
    <3> DEFINE c == count.contexts + 1
    <3>1. c \in Contexts /\ context[c] = "none"
      BY <1>0, <2>0, <2>2 DEF Launched, TypeOK, LaunchesAreNew, Contexts
    <3>2. \A v \in Users : user[v].context # c
      BY <1>0, <3>1 DEF TypeOK, LaunchesAreNew, NoContext
    <3>3. /\ context' = [context EXCEPT ![c] = "open"]
          /\ user' = [user EXCEPT ![u] = [phase |-> "inject", context |-> c]]
          /\ count' = [count EXCEPT !.contexts = c]
          /\ UNCHANGED <<active, service, awaited>>
          /\ ghost' = ghost \/ ghost' = [ghost EXCEPT !.late = @ \cup {c}]
      BY <2>2 DEF Launched
    <3> HIDE DEF c
    <3>4. ghost' \in Fates
      BY <2>0, <3>1, <3>3 DEF Fates
    <3>5. user' \in [Users -> User]
      BY <1>0, <3>1, <3>3 DEF TypeOK, User
    <3>6. c = count.contexts + 1 /\ count'.contexts = c /\ count' \in [contexts : 0 .. MaxContexts, faults : 0 .. MaxFaults]
      BY <2>0, <3>1, <3>3 DEF c, Contexts
    <3>7. TypeOK'
      BY <1>0, <3>1, <3>2, <3>3, <3>4, <3>5, <3>6 DEF TypeOK
    <3>8. LaunchesAreNew'
      BY <1>0, <2>0, <3>1, <3>2, <3>3, <3>6 DEF TypeOK, LaunchesAreNew
    <3> QED BY <3>7, <3>8
  <2>3. CASE LaunchRejects(u)
    BY <1>0, <2>0, <2>3 DEF LaunchRejects, Leave, NoUser, Fault, TypeOK, LaunchesAreNew, At, User, NoContext
  <2>4. CASE Injected(u)
    BY <1>0, <2>0, <2>4 DEF Injected, TypeOK, LaunchesAreNew, At, Goto, User, NoContext
  <2>5. CASE InjectRejects(u)
    <3>1. ghost' \in Fates
      BY <1>0, <2>0, <2>5 DEF InjectRejects, TypeOK, Fates, User, At, NoContext
    <3> QED BY <1>0, <2>0, <2>5, <3>1 DEF InjectRejects, CallRejects, Leave, NoUser, Fault, TypeOK, LaunchesAreNew, At, User, NoContext
  <2>6. CASE PageOpens(u)
    BY <1>0, <2>0, <2>6 DEF PageOpens, TypeOK, LaunchesAreNew, At, Goto, User, NoContext
  <2>7. CASE PageRejects(u)
    <3>1. ghost' \in Fates
      BY <1>0, <2>0, <2>7 DEF PageRejects, TypeOK, Fates, User, At, NoContext
    <3> QED BY <1>0, <2>0, <2>7, <3>1 DEF PageRejects, CallRejects, Leave, NoUser, Fault, TypeOK, LaunchesAreNew, At, User, NoContext
  <2>8. CASE WorkEnds(u)
    <3>1. /\ context' \in [Contexts -> {"none", "open", "closing", "closed"}]
          /\ \A c \in Contexts : context'[c] = "none" <=> context[c] = "none"
      BY <1>0, <2>8, ClosingKeepsLiving DEF WorkEnds
    <3>2. /\ Goto(u, "release") /\ At(u, "work")
          /\ UNCHANGED <<active, service, awaited, ghost, count>>
      BY <2>8 DEF WorkEnds
    <3> QED BY <1>0, <2>0, <3>1, <3>2 DEF TypeOK, LaunchesAreNew, At, Goto, User, NoContext
  <2>9. CASE Released(u)
    BY <1>0, <2>0, <2>9 DEF Released, Leave, NoUser, TypeOK, LaunchesAreNew, At, User, NoContext
  <2>10. CASE ReleaseTimesOut(u)
    <3>1. ghost' \in Fates
      BY <1>0, <2>0, <2>10 DEF ReleaseTimesOut, TypeOK, Fates, User, At, NoContext
    <3> QED BY <1>0, <2>0, <2>10, <3>1 DEF ReleaseTimesOut, Leave, NoUser, TypeOK, LaunchesAreNew, At, User, NoContext
  <2>11. CASE WorkEndsLate(u)
    BY <1>0, <2>0, <2>11 DEF WorkEndsLate, Leave, NoUser, TypeOK, LaunchesAreNew, At, User, NoContext
  <2> QED BY <1>2, <2>1, <2>2, <2>3, <2>4, <2>5, <2>6, <2>7, <2>8, <2>9, <2>10, <2>11 DEF UserStep
<1>3. ASSUME NEW c \in Contexts, BrowserEnds(c) \/ BrowserDies(c)
      PROVE  TypeOK' /\ LaunchesAreNew'
  <2>1. context[c] # "none" /\ context' = [context EXCEPT ![c] = "closed"]
          /\ UNCHANGED <<active, user, service, awaited, ghost>>
    BY <1>3 DEF BrowserEnds, BrowserDies, Living
  <2>2. count' = count \/ Fault
    BY <1>3 DEF BrowserEnds, BrowserDies
  <2>3. count' \in [contexts : 0 .. MaxContexts, faults : 0 .. MaxFaults] /\ count'.contexts = count.contexts
    BY <1>0, <2>2 DEF Fault, TypeOK
  <2> QED BY <1>0, <2>1, <2>3 DEF TypeOK, LaunchesAreNew
<1>4. CASE Shutdown
  <2>1. /\ context' \in [Contexts -> {"none", "open", "closing", "closed"}]
        /\ \A c \in Contexts : context'[c] = "none" <=> context[c] = "none"
    BY <1>0, <1>4, ClosingKeepsLiving DEF Shutdown
  <2>2. \A u \in {v \in Users : At(v, "inject")} : user[u].context \in Contexts
    BY <1>0 DEF TypeOK, At, User
  <2>3. ghost' \in Fates
    BY <1>0, <1>4, <2>2 DEF Shutdown, TypeOK, Fates
  <2>4. service' = "closing" /\ awaited' \subseteq active /\ UNCHANGED <<active, user, count>>
    BY <1>4 DEF Shutdown
  <2>5. \A u \in Users : user[u].context # NoContext => user[u].context \in Contexts
    BY <1>0 DEF TypeOK, User
  <2>6. TypeOK'
    BY <1>0, <2>1, <2>3, <2>4 DEF TypeOK
  <2>7. LaunchesAreNew'
    BY <1>0, <2>1, <2>4, <2>5 DEF TypeOK, LaunchesAreNew
  <2> QED BY <2>6, <2>7
<1>5. CASE ShutdownEnds
  BY <1>0, <1>5 DEF ShutdownEnds, TypeOK, LaunchesAreNew
<1> QED BY <1>1, <1>2, <1>3, <1>4, <1>5 DEF Next

-----------------------------------------------------------------------------
(* Browsers that live.                                                     *)

\* A step that leaves contexts as they are, and each user but u.
LEMMA OthersRelease ==
    ASSUME TypeOK, NEW u \in Users, \A v \in Users : v # u => user'[v] = user[v]
    PROVE  /\ Releasing \subseteq Releasing' \cup (IF At(u, "release") THEN {user[u].context} ELSE {})
           /\ \A v \in Users : v # u => (At(v, "inject")' <=> At(v, "inject"))
BY DEF Releasing, At

LEMMA LivingKept ==
    IInv /\ [Next]_vars => ClosesAreAwaited' /\ SomebodyCloses' /\ NoBrowserIsLeft' /\ ShutdownLeavesNone'
<1> SUFFICES ASSUME IInv, [Next]_vars
             PROVE  ClosesAreAwaited' /\ SomebodyCloses' /\ NoBrowserIsLeft' /\ ShutdownLeavesNone'
  OBVIOUS
<1> USE CountsAreNaturals DEF Contexts
<1>0. /\ TypeOK /\ LaunchesAreNew /\ ClosesAreAwaited /\ SomebodyCloses /\ NoBrowserIsLeft
      /\ ShutdownLeavesNone
  BY DEF IInv
<1>1. CASE UNCHANGED vars
  <2>1. UNCHANGED <<context, active, user, service, awaited, ghost>>
    BY <1>1 DEF vars
  <2>2. Living' = Living /\ Releasing' = Releasing
    BY <2>1 DEF Living, Releasing, At
  <2> QED BY <1>0, <2>1, <2>2 DEF ClosesAreAwaited, SomebodyCloses, NoBrowserIsLeft, ShutdownLeavesNone, At
<1>2. ASSUME NEW u \in Users, UserStep(u)
      PROVE  ClosesAreAwaited' /\ SomebodyCloses' /\ NoBrowserIsLeft' /\ ShutdownLeavesNone'
  <2>0. user \in [Users -> User] /\ user[u] \in User /\ ghost \in Fates
    BY <1>0 DEF TypeOK
  <2>1. CASE Launch(u) \/ PageOpens(u)
    <3>1. /\ UNCHANGED <<context, active, service, awaited, ghost>>
          /\ ~At(u, "inject") /\ ~At(u, "release")
          /\ \A v \in Users : user'[v].context = user[v].context
          /\ \A v \in Users : v # u => user'[v] = user[v]
      BY <2>0, <2>1 DEF Launch, PageOpens, Goto, At, User
    <3>2. Living' = Living /\ Releasing \subseteq Releasing'
      BY <1>0, <3>1, OthersRelease DEF Living
    <3> QED BY <1>0, <3>1, <3>2 DEF ClosesAreAwaited, SomebodyCloses, NoBrowserIsLeft, ShutdownLeavesNone, At
  <2>2. CASE Launched(u)
    <3> DEFINE c == count.contexts + 1
    <3>1. /\ context' = [context EXCEPT ![c] = "open"]
          /\ user' = [user EXCEPT ![u] = [phase |-> "inject", context |-> c]]
          /\ ghost' = IF service = "up" THEN ghost ELSE [ghost EXCEPT !.late = @ \cup {c}]
          /\ UNCHANGED <<active, service, awaited>>
          /\ user[u].context = NoContext
      BY <1>0, <2>2 DEF Launched, TypeOK, At
    <3> HIDE DEF c
    <3>2. /\ Living' \subseteq Living \cup {c}
          /\ \A d \in Contexts : context'[d] = "closing" => context[d] = "closing"
      BY <1>0, <3>1 DEF TypeOK, Living
    <3>3. /\ user'[u].context = c /\ At(u, "inject")'
          /\ \A v \in Users : v # u => user'[v] = user[v]
          /\ ~At(u, "inject") /\ ~At(u, "release")
      BY <2>0, <2>2, <3>1 DEF At, Launched
    <3>4. ghost'.lost = ghost.lost /\ ghost'.kept = ghost.kept
            /\ ghost.late \subseteq ghost'.late /\ (service # "up" => c \in ghost'.late)
      BY <2>0, <3>1 DEF Fates
    <3>5. NoContext \notin Living /\ Releasing \subseteq Releasing'
      BY <1>0, <3>3, OthersRelease DEF Living
    <3>6. NoBrowserIsLeft'
      BY <1>0, <3>1, <3>2, <3>3, <3>4, <3>5 DEF NoBrowserIsLeft
    <3>7. SomebodyCloses'
      BY <1>0, <3>1, <3>2, <3>3, <3>4, <3>5 DEF SomebodyCloses, At
    <3>8. ShutdownLeavesNone'
      BY <1>0, <3>1, <3>2, <3>4, <3>5 DEF ShutdownLeavesNone
    <3>9. ClosesAreAwaited'
      BY <1>0, <3>1, <3>2, <3>4, <3>5 DEF ClosesAreAwaited
    <3> QED BY <3>6, <3>7, <3>8, <3>9
  <2>3. CASE LaunchRejects(u)
    <3>1. /\ UNCHANGED <<context, active, service, awaited, ghost>>
          /\ ~At(u, "inject") /\ ~At(u, "release") /\ user[u].context = NoContext
          /\ \A v \in Users : v # u => user'[v] = user[v]
      BY <1>0, <2>0, <2>3 DEF LaunchRejects, Leave, At, TypeOK
    <3>2. Living' = Living /\ NoContext \notin Living /\ Releasing \subseteq Releasing'
      BY <1>0, <3>1, OthersRelease DEF Living
    <3> QED BY <1>0, <3>1, <3>2 DEF ClosesAreAwaited, SomebodyCloses, NoBrowserIsLeft, ShutdownLeavesNone, At
  <2>4. CASE Injected(u)
    <3>1. /\ UNCHANGED <<context, service, awaited, ghost>>
          /\ active' = active \cup {user[u].context} /\ ~At(u, "release")
          /\ \A v \in Users : user'[v].context = user[v].context
          /\ \A v \in Users : v # u => user'[v] = user[v]
      BY <2>0, <2>4 DEF Injected, Goto, At, User
    <3>2. Living' = Living /\ Releasing \subseteq Releasing'
      BY <1>0, <3>1, OthersRelease DEF Living
    <3> QED BY <1>0, <3>1, <3>2 DEF ClosesAreAwaited, SomebodyCloses, NoBrowserIsLeft, ShutdownLeavesNone, At
  <2>5. CASE InjectRejects(u) \/ PageRejects(u) \/ ReleaseTimesOut(u)
    <3>1. /\ UNCHANGED <<context, service, awaited>>
          /\ \A v \in Users : v # u => user'[v] = user[v]
          /\ ghost'.late = ghost.late
          /\ ghost.lost \subseteq ghost'.lost
          /\ ghost.kept \subseteq ghost'.kept
          /\ user[u].context \in ghost'.lost \cup ghost'.kept
          /\ \/ user[u].context \in ghost'.lost
             \/ active' = active /\ ~At(u, "inject") /\ ~At(u, "release")
          /\ active' = active \/ active' = active \ {user[u].context}
      <4>1. CASE InjectRejects(u)
        BY <2>0, <4>1 DEF InjectRejects, Leave, Fates
      <4>2. CASE PageRejects(u)
        BY <2>0, <4>2 DEF PageRejects, Leave, Fates, At
      <4>3. CASE ReleaseTimesOut(u)
        BY <2>0, <4>3 DEF ReleaseTimesOut, Leave, Fates
      <4> QED BY <2>5, <4>1, <4>2, <4>3
    <3>2. Living' = Living /\ Releasing \subseteq Releasing' \cup ghost'.lost
      BY <1>0, <3>1, OthersRelease DEF Living
    <3>3. NoBrowserIsLeft'
      BY <1>0, <3>1, <3>2 DEF NoBrowserIsLeft
    <3>4. SomebodyCloses'
      BY <1>0, <3>1, <3>2 DEF SomebodyCloses, At
    <3>5. ShutdownLeavesNone'
      BY <1>0, <3>1, <3>2 DEF ShutdownLeavesNone
    <3>6. ClosesAreAwaited'
      BY <1>0, <3>1, <3>2 DEF ClosesAreAwaited
    <3> QED BY <3>3, <3>4, <3>5, <3>6
  <2>6. CASE WorkEnds(u)
    <3>1. /\ UNCHANGED <<active, service, awaited, ghost>>
          /\ ~At(u, "inject") /\ ~At(u, "release") /\ At(u, "release")'
          /\ \A v \in Users : user'[v].context = user[v].context
          /\ \A v \in Users : v # u => user'[v] = user[v]
      BY <2>0, <2>6 DEF WorkEnds, Goto, At, User
    <3>2. Releasing \subseteq Releasing' /\ user[u].context \in Releasing'
      BY <1>0, <3>1, OthersRelease DEF Releasing
    <3>3. /\ Living' = Living
          /\ \A c \in Contexts : context'[c] = "closing" => context[c] = "closing" \/ c = user[u].context
      <4> DEFINE C == {user[u].context}
      <4>1. context' = Closing(C)
        BY <2>6 DEF WorkEnds
      <4> HIDE DEF C
      <4>2. /\ Living' = Living
            /\ \A c \in Contexts : context'[c] = "closing" => context[c] = "closing" \/ c \in C
        BY <1>0, <4>1, ClosingKeepsLiving
      <4> QED BY <4>2 DEF C
    <3>4. ClosesAreAwaited'
      BY <1>0, <3>1, <3>2, <3>3 DEF ClosesAreAwaited
    <3>5. SomebodyCloses'
      BY <1>0, <3>1, <3>2, <3>3 DEF SomebodyCloses, At
    <3>6. NoBrowserIsLeft'
      BY <1>0, <3>1, <3>3 DEF NoBrowserIsLeft
    <3>7. ShutdownLeavesNone'
      BY <1>0, <3>1, <3>2, <3>3 DEF ShutdownLeavesNone
    <3> QED BY <3>4, <3>5, <3>6, <3>7
  <2>7. CASE Released(u) \/ WorkEndsLate(u)
    <3>1. /\ UNCHANGED <<context, service, awaited, ghost>>
          /\ active' = active \ {user[u].context}
          /\ ~At(u, "inject")
          /\ \A v \in Users : v # u => user'[v] = user[v]
      BY <2>0, <2>7 DEF Released, WorkEndsLate, Leave, At
    <3>2. Living' = Living
      BY <3>1 DEF Living
    <3>3. /\ At(u, "release") => user[u].context \notin Living
          /\ user[u].context \in Living => user[u].context \in awaited \cup ghost.lost
      <4>1. CASE Released(u)
        BY <4>1 DEF Released
      <4>2. CASE WorkEndsLate(u)
        <5>1. At(u, "work") /\ context[user[u].context] # "open"
          BY <4>2 DEF WorkEndsLate
        <5>2. user[u].context \in Living => context[user[u].context] = "closing"
          BY <5>1 DEF Living
        <5>3. user[u].context \in Contexts /\ user[u].context # NoContext
          BY <1>0, <2>0, <5>1 DEF TypeOK, User, At
        <5>4. user[u].context \notin Releasing
          BY <1>0, <5>1, <5>3 DEF TypeOK, Releasing, At
        <5> QED BY <1>0, <5>1, <5>2, <5>3, <5>4 DEF ClosesAreAwaited, At
      <4> QED BY <2>7, <4>1, <4>2
    <3>4. Releasing \cap Living \subseteq Releasing'
      BY <1>0, <3>1, <3>3, OthersRelease
    <3>5. ClosesAreAwaited'
      BY <1>0, <3>1, <3>2, <3>4 DEF ClosesAreAwaited, Living
    <3>6. SomebodyCloses'
      BY <1>0, <3>1, <3>2, <3>3, <3>4 DEF SomebodyCloses, ClosesAreAwaited, At
    <3>7. NoBrowserIsLeft'
      BY <1>0, <3>1, <3>2, <3>3 DEF NoBrowserIsLeft
    <3>8. ShutdownLeavesNone'
      BY <1>0, <3>1, <3>2, <3>4 DEF ShutdownLeavesNone
    <3> QED BY <3>5, <3>6, <3>7, <3>8
  <2> QED BY <1>2, <2>1, <2>2, <2>3, <2>4, <2>5, <2>6, <2>7 DEF UserStep
<1>3. ASSUME NEW c \in Contexts, BrowserEnds(c) \/ BrowserDies(c)
      PROVE  ClosesAreAwaited' /\ SomebodyCloses' /\ NoBrowserIsLeft' /\ ShutdownLeavesNone'
  <2>1. /\ context' = [context EXCEPT ![c] = "closed"]
        /\ UNCHANGED <<active, user, service, awaited, ghost>>
    BY <1>3 DEF BrowserEnds, BrowserDies
  <2>2. /\ Living' \subseteq Living /\ Releasing' = Releasing
        /\ \A d \in Contexts : context'[d] = "closing" => context[d] = "closing"
    BY <1>0, <2>1 DEF TypeOK, Living, Releasing, At
  <2> QED BY <1>0, <2>1, <2>2 DEF ClosesAreAwaited, SomebodyCloses, NoBrowserIsLeft, ShutdownLeavesNone, At
<1>4. CASE Shutdown
  <2>1. /\ service = "up" /\ service' = "closing" /\ UNCHANGED <<active, user>>
        /\ awaited' = {c \in active : context[c] = "open"}
        /\ ghost'.lost = ghost.lost /\ ghost'.kept = ghost.kept
        /\ ghost'.late = {user[u].context : u \in {v \in Users : At(v, "inject")}}
    BY <1>0, <1>4 DEF Shutdown, TypeOK, Fates
  <2>2. /\ Living' = Living /\ Releasing' = Releasing
        /\ \A c \in Contexts : context'[c] = "closing" =>
              context[c] = "closing" \/ (c \in active /\ context[c] = "open")
    BY <1>0, <1>4, <2>1, ClosingKeepsLiving DEF Shutdown, Releasing, At
  <2>3. ClosesAreAwaited'
    BY <1>0, <2>1, <2>2 DEF ClosesAreAwaited
  <2>4. ASSUME NEW c \in Living, c \notin ghost.lost, c \notin Releasing, c \notin ghost'.late
        PROVE  c \in awaited'
    <3>1. c \in Contexts /\ context[c] # "closing" /\ context[c] = "open"
      BY <1>0, <2>1, <2>4 DEF ClosesAreAwaited, Living
    <3>2. c \in active
      BY <1>0, <2>1, <2>4 DEF SomebodyCloses
    <3> QED BY <2>1, <3>1, <3>2
  <2>5. SomebodyCloses' /\ ShutdownLeavesNone'
    BY <2>1, <2>2, <2>4 DEF SomebodyCloses, ShutdownLeavesNone
  <2>6. NoBrowserIsLeft'
    BY <1>0, <2>1, <2>2 DEF NoBrowserIsLeft, ClosesAreAwaited
  <2> QED BY <2>3, <2>5, <2>6
<1>5. CASE ShutdownEnds
  <2>1. /\ service = "closing" /\ service' = "down" /\ awaited \cap Living = {}
        /\ UNCHANGED <<context, user, awaited, ghost>>
    BY <1>5 DEF ShutdownEnds
  <2>2. Living' = Living /\ Releasing' = Releasing
    BY <2>1 DEF Living, Releasing, At
  <2> QED BY <1>0, <2>1, <2>2 DEF ClosesAreAwaited, SomebodyCloses, NoBrowserIsLeft, ShutdownLeavesNone
<1> QED BY <1>1, <1>2, <1>3, <1>4, <1>5 DEF Next

-----------------------------------------------------------------------------
\* XBrowserService: a live browser is always in somebody's hands: its user's, the
\* service's until the shutdown ends, or it is one of those the ghosts name; and one that
\* was told to end is waited for by whoever told it so first, and by nobody else.
THEOREM InductiveInvariant == Spec => []IInv
<1>1. Init => IInv
  BY Initially
<1>2. IInv /\ [Next]_vars => IInv'
  BY TypesKept, LivingKept DEF IInv
<1> QED BY <1>1, <1>2, PTL DEF Spec

\* Types, and that no two users hold one context.
THEOREM TypeCorrect == Spec => []TypeOK
<1>1. IInv => TypeOK
  BY DEF IInv
<1> QED BY <1>1, InductiveInvariant, PTL

\* The try ... finally of every user: a browser outlives its user only when the call
\* after its launch was rejected, its close took too long, or onModuleDestroy closes it.
THEOREM NothingLeft == Spec => []NoBrowserIsLeft
<1>1. IInv => NoBrowserIsLeft
  BY DEF IInv
<1> QED BY <1>1, InductiveInvariant, PTL

\* onModuleDestroy: what it leaves alive was launching while it began, had been given up, or
\* has a user whose own release() waits for its end.
THEOREM ShutdownCloses == Spec => []ShutdownLeavesNone
<1>1. IInv => ShutdownLeavesNone
  BY DEF IInv
<1> QED BY <1>1, InductiveInvariant, PTL
-----------------------------------------------------------------------------
(* A login.                                                                *)

\* login.run is called at most once more than it was.
LoginsAreRuns == seen.logins <= flow.run

\* Once X was given something late, no step is entered that gives it more.
LateIsLast ==
    /\ asked = {} => seen.late = {}
    /\ ~seen.missed => \/ seen.late = {}
                      \/ /\ asked # {} /\ ~flow.probed /\ flow.step # "retry"
                         /\ \E form \in Forms : seen.late = {form}

\* What the page shows and what the errors say has been uttered, and the result goes by
\* what they say.
ReasonsAreShown ==
    /\ errors.since # NoReason => errors.since \in seen.shown
    /\ site.page \in Refusals => site.page \in seen.shown
    /\ flow.result = "cancelled" => asked # {}
    /\ ResultIsTrue

FlowIInv ==
    /\ FlowTypeOK
    /\ LoginsAreRuns
    /\ LateIsLast
    /\ ReasonsAreShown
    /\ NoBrowserIsForgotten

LEMMA FlowConstants ==
    /\ MaxDue \in Nat /\ MaxDue >= 1 /\ MaxAsks \in Nat /\ MaxRejects \in Nat
    /\ Refusals \cap (Forms \cup {"blank", "landing", "error", "home", "none", "ok", "cancelled",
                       "unknown", "home_not_reached", "unreachable", "cookies_missing"}) = {}
BY FlowAssumption

LEMMA FlowInitially == FlowInit => FlowIInv
<1> SUFFICES ASSUME FlowInit PROVE FlowIInv
  OBVIOUS
<1>1. FlowTypeOK
  BY FlowConstants DEF FlowInit, FlowTypeOK, Flow, Seen, Step, Probed, Page, Session, Result,
     NoReason, MaxRuns, NoErrors
<1>2. LoginsAreRuns /\ LateIsLast /\ NoBrowserIsForgotten
  BY FlowConstants DEF FlowInit, LoginsAreRuns, LateIsLast, NoBrowserIsForgotten
<1>3. ReasonsAreShown
  BY FlowConstants DEF FlowInit, ReasonsAreShown, ResultIsTrue, NoErrors, NoReason
<1> QED BY <1>1, <1>2, <1>3 DEF FlowIInv

-----------------------------------------------------------------------------
(* Three kinds of steps.                                                   *)

LEMMA ToLeads ==
    ASSUME FlowTypeOK, NEW s \in Step, To(s)
    PROVE  /\ flow' \in Flow /\ flow'.step = s /\ ~flow'.probed /\ flow'.run = flow.run
           /\ flow'.result = flow.result /\ flow'.name = flow.name
<1>1. flow \in Flow
  BY DEF FlowTypeOK
<1>2. /\ flow.run \in 1 .. MaxRuns /\ flow.result \in Result /\ flow.name \in Session
      /\ flow = [step |-> flow.step, probed |-> flow.probed, tries |-> flow.tries,
                 run |-> flow.run, result |-> flow.result, name |-> flow.name]
  BY <1>1 DEF Flow
<1>3. flow' = [step |-> s, probed |-> FALSE, tries |-> 0, run |-> flow.run,
               result |-> flow.result, name |-> flow.name]
  BY <1>2 DEF To
<1> QED BY <1>2, <1>3 DEF Flow

LEMMA EndsLeads ==
    ASSUME FlowTypeOK, NEW result \in Result, NEW name \in Session, Ends(result, name)
    PROVE  /\ flow' \in Flow /\ flow'.step = "close" /\ ~flow'.probed /\ flow'.run = flow.run
           /\ flow'.result = result /\ flow'.name = name
<1>1. flow \in Flow /\ "close" \in Step
  BY DEF FlowTypeOK, Step
<1>2. /\ flow.run \in 1 .. MaxRuns
      /\ flow = [step |-> flow.step, probed |-> flow.probed, tries |-> flow.tries,
                 run |-> flow.run, result |-> flow.result, name |-> flow.name]
  BY <1>1 DEF Flow
<1>3. flow' = [step |-> "close", probed |-> FALSE, tries |-> 0, run |-> flow.run,
               result |-> result, name |-> name]
  BY <1>2 DEF Ends
<1> QED BY <1>1, <1>2, <1>3 DEF Flow

LEMMA RejectLeads ==
    ASSUME seen \in Seen, Reject
    PROVE  /\ seen' \in Seen /\ seen'.shown = seen.shown /\ seen'.missed = seen.missed
           /\ seen'.late = seen.late /\ seen'.logins = seen.logins
           /\ seen'.rejects = seen.rejects + 1 /\ seen.rejects \in Nat
<1>1. /\ seen.rejects \in 0 .. MaxRejects /\ seen.rejects + 1 \in 0 .. MaxRejects
      /\ seen.shown \in SUBSET Refusals /\ seen.late \in SUBSET Forms
      /\ seen.missed \in BOOLEAN /\ seen.logins \in 1 .. MaxRuns
  BY FlowConstants DEF Reject, Seen
<1>2. seen' = [shown |-> seen.shown, late |-> seen.late, missed |-> seen.missed,
               rejects |-> seen.rejects + 1, logins |-> seen.logins]
  BY DEF Reject, Seen
<1> QED BY <1>1, <1>2, FlowConstants DEF Seen

\* X may be asked for a page, and has not given it yet.
PageIsOld ==
    \/ UNCHANGED site
    \/ site' \in [page : {site.page, "blank"}, due : 0 .. MaxDue, session : {site.session}]

LEMMA OldPages ==
    ASSUME FlowTypeOK, PageIsOld
    PROVE  /\ site' \in [page : Page, due : 0 .. MaxDue, session : Session]
           /\ site'.page \in {site.page, "blank"} /\ site'.session = site.session
BY DEF FlowTypeOK, PageIsOld, Page

LEMMA LoadLeads ==
    ASSUME FlowTypeOK, Load
    PROVE  PageIsOld
<1>1. site \in [page : Page, due : 0 .. MaxDue, session : Session]
  BY DEF FlowTypeOK
<1>2. site' = [page |-> "blank", due |-> 1, session |-> site.session]
  BY <1>1 DEF Load
<1> QED BY <1>1, <1>2, FlowConstants DEF PageIsOld

LEMMA OwedLeads ==
    ASSUME FlowTypeOK, site' = [site EXCEPT !.due = Owed]
    PROVE  PageIsOld
<1>1. site \in [page : Page, due : 0 .. MaxDue, session : Session]
  BY DEF FlowTypeOK
<1>2. Owed \in 0 .. MaxDue
  BY <1>1, FlowConstants DEF Owed
<1> QED BY <1>1, <1>2 DEF PageIsOld

\* login.run goes on.
Quiet ==
    /\ flow' \in Flow /\ flow'.run = flow.run
    /\ flow'.result = flow.result
    /\ flow'.step \notin {"launch", "decide", "close"}
    /\ flow'.step = "retry" => flow.step = "retry" \/ flow.probed
    /\ flow'.probed => flow.probed
    /\ PageIsOld
    /\ UNCHANGED <<errors, asked, browser, seen>>

LEMMA QuietKeeps == FlowIInv /\ Quiet => FlowIInv'
<1> SUFFICES ASSUME FlowIInv, Quiet PROVE FlowIInv'
  OBVIOUS
<1>1. /\ site' \in [page : Page, due : 0 .. MaxDue, session : Session]
      /\ site'.page \in {site.page, "blank"}
  BY OldPages DEF FlowIInv, Quiet
<1>2. FlowTypeOK'
  BY <1>1 DEF FlowIInv, Quiet, FlowTypeOK
<1>3. LoginsAreRuns' /\ LateIsLast'
  BY DEF FlowIInv, Quiet, LoginsAreRuns, LateIsLast
<1>4. ReasonsAreShown'
  BY <1>1, FlowConstants DEF FlowIInv, Quiet, ReasonsAreShown, ResultIsTrue
<1>5. NoBrowserIsForgotten'
  BY DEF FlowIInv, Quiet, NoBrowserIsForgotten
<1> QED BY <1>2, <1>3, <1>4, <1>5 DEF FlowIInv

\* A form is given to X, by a step that was let in.
Gives(form) ==
    /\ flow.probed \/ flow.step = "retry"
    /\ Submit(form)
    /\ \E s \in Step \ {"launch", "decide", "close", "retry"} : To(s)
    /\ UNCHANGED <<errors, asked, browser>>

LEMMA GivingKeeps ==
    ASSUME FlowIInv, NEW form \in Forms, Gives(form)
    PROVE  FlowIInv'
<1>0. FlowTypeOK /\ site \in [page : Page, due : 0 .. MaxDue, session : Session] /\ seen \in Seen
  BY DEF FlowIInv, FlowTypeOK
<1>1. /\ flow' \in Flow /\ flow'.step \notin {"launch", "decide", "close", "retry"}
      /\ ~flow'.probed /\ flow'.run = flow.run /\ flow'.result = flow.result
  BY <1>0, ToLeads DEF Gives
<1>2. /\ site' \in [page : Page, due : 0 .. MaxDue, session : Session]
      /\ site'.page \in {site.page, "blank"}
  BY <1>0, OwedLeads, OldPages DEF Gives, Submit
<1>3. /\ seen' \in Seen /\ seen'.shown = seen.shown /\ seen'.missed = seen.missed
      /\ seen'.rejects = seen.rejects /\ seen'.logins = seen.logins
      /\ asked = {} => seen'.late = seen.late
      /\ asked # {} => seen'.late = seen.late \cup {form}
  BY <1>0 DEF Gives, Submit, Seen
<1>4. UNCHANGED <<errors, asked, browser>> /\ (flow.probed \/ flow.step = "retry")
  BY DEF Gives
<1>5. FlowTypeOK'
  BY <1>0, <1>1, <1>2, <1>3, <1>4 DEF FlowTypeOK
<1>6. LoginsAreRuns' /\ NoBrowserIsForgotten'
  BY <1>1, <1>3, <1>4 DEF FlowIInv, LoginsAreRuns, NoBrowserIsForgotten
<1>7. LateIsLast'
  <2>1. ~seen.missed => seen.late = {}
    BY <1>4 DEF FlowIInv, LateIsLast
  <2> QED BY <1>1, <1>3, <1>4, <2>1 DEF FlowIInv, LateIsLast
<1>8. ReasonsAreShown'
  BY <1>1, <1>2, <1>3, <1>4, FlowConstants DEF FlowIInv, ReasonsAreShown, ResultIsTrue
<1> QED BY <1>5, <1>6, <1>7, <1>8 DEF FlowIInv

\* The browser, if there is one, has been lost.
GivenUp == [mine |-> FALSE, lost |-> browser.lost + IF browser.mine THEN 1 ELSE 0]

LEMMA GivenUpLeads ==
    ASSUME browser \in [mine : BOOLEAN, lost : Nat]
    PROVE  /\ GivenUp \in [mine : BOOLEAN, lost : Nat] /\ ~GivenUp.mine
           /\ GivenUp.lost <= browser.lost + 1
<1>1. CASE browser.mine
  <2>1. GivenUp = [mine |-> FALSE, lost |-> browser.lost + 1]
    BY <1>1 DEF GivenUp
  <2> QED BY <2>1
<1>2. CASE ~browser.mine
  <2>1. GivenUp = [mine |-> FALSE, lost |-> browser.lost + 0]
    BY <1>2 DEF GivenUp
  <2> QED BY <2>1
<1> QED BY <1>1, <1>2

\* login.run has a result that is true, perhaps because a call was rejected.
EndsTruly(result, name) ==
    /\ Ends(result, name)
    /\ result = "ok" => name = site.session
    /\ result = "cancelled" => asked # {}
    /\ result \in Refusals \ {CodeByMail} => result \in seen.shown
    /\ PageIsOld
    /\ UNCHANGED <<errors, asked>>
    /\ \/ UNCHANGED <<browser, seen>>
       \/ Reject /\ browser' \in {browser, GivenUp}

LEMMA EndingKeeps ==
    ASSUME FlowIInv, NEW result \in Result, NEW name \in Session, EndsTruly(result, name)
    PROVE  FlowIInv'
<1>0. FlowTypeOK /\ seen \in Seen /\ browser \in [mine : BOOLEAN, lost : Nat]
  BY DEF FlowIInv, FlowTypeOK
<1>1. /\ flow' \in Flow /\ flow'.step = "close" /\ ~flow'.probed /\ flow'.run = flow.run
      /\ flow'.result = result /\ flow'.name = name
  BY <1>0, EndsLeads DEF EndsTruly
<1>2. /\ seen' \in Seen /\ seen'.shown = seen.shown /\ seen'.missed = seen.missed
      /\ seen'.late = seen.late /\ seen'.logins = seen.logins
      /\ browser' \in [mine : BOOLEAN, lost : Nat]
      /\ browser.lost <= seen.rejects => browser'.lost <= seen'.rejects
  <2>1. CASE UNCHANGED <<browser, seen>>
    BY <1>0, <2>1
  <2>2. CASE Reject /\ browser' \in {browser, GivenUp}
    <3>1. /\ seen' \in Seen /\ seen'.shown = seen.shown /\ seen'.missed = seen.missed
          /\ seen'.late = seen.late /\ seen'.logins = seen.logins
          /\ seen'.rejects = seen.rejects + 1 /\ seen.rejects \in Nat
      BY <1>0, <2>2, RejectLeads
    <3>2. /\ browser' \in [mine : BOOLEAN, lost : Nat]
          /\ browser'.lost <= browser.lost + 1 /\ browser.lost \in Nat
      BY <1>0, <2>2, GivenUpLeads
    <3> QED BY <3>1, <3>2
  <2> QED BY <2>1, <2>2 DEF EndsTruly
<1>3. /\ UNCHANGED <<errors, asked>>
      /\ site' \in [page : Page, due : 0 .. MaxDue, session : Session]
      /\ site'.page \in {site.page, "blank"} /\ site'.session = site.session
  BY <1>0, OldPages DEF EndsTruly
<1>4. FlowTypeOK'
  BY <1>0, <1>1, <1>2, <1>3 DEF FlowTypeOK
<1>5. LoginsAreRuns' /\ LateIsLast' /\ NoBrowserIsForgotten'
  BY <1>1, <1>2, <1>3 DEF FlowIInv, LoginsAreRuns, LateIsLast, NoBrowserIsForgotten
<1>6. /\ result = "ok" => name = site.session
      /\ result = "cancelled" => asked # {}
      /\ result \in Refusals \ {CodeByMail} => result \in seen.shown
  BY DEF EndsTruly
<1>7. ReasonsAreShown'
  <2>1. /\ errors.since # NoReason => errors.since \in seen.shown
        /\ site'.page \in Refusals => site'.page \in seen.shown
    BY <1>3, FlowConstants DEF FlowIInv, ReasonsAreShown
  <2>2. ResultIsTrue'
    BY <1>1, <1>2, <1>3, <1>6 DEF ResultIsTrue
  <2> QED BY <1>1, <1>2, <1>3, <1>6, <2>1, <2>2 DEF ReasonsAreShown
<1> QED BY <1>4, <1>5, <1>7 DEF FlowIInv

LEMMA GoingKeeps ==
    ASSUME FlowIInv, NEW s \in Step \ {"launch", "decide", "close", "retry"}, To(s),
           PageIsOld, UNCHANGED <<errors, asked, browser, seen>>
    PROVE  FlowIInv'
<1>1. FlowTypeOK
  BY DEF FlowIInv
<1>2. Quiet
  BY <1>1, ToLeads DEF Quiet
<1> QED BY <1>2, QuietKeeps

LEMMA FailureKeeps ==
    ASSUME FlowIInv, NEW reason \in Reason \ {"cancelled"}, Fails(reason),
           reason \in Refusals \ {CodeByMail} => reason \in seen.shown,
           PageIsOld, UNCHANGED <<errors, asked, browser, seen>>
    PROVE  FlowIInv'
<1>1. reason \in Result /\ reason # "ok" /\ "none" \in Session
  BY FlowConstants DEF Result, Reason, Session, Captcha, CodeByMail
<1>2. EndsTruly(reason, "none")
  BY <1>1 DEF EndsTruly, Fails
<1> QED BY <1>1, <1>2, EndingKeeps

\* Reasons that say nothing of what X has shown.
Plain == {"unknown", "home_not_reached", "unreachable", "cookies_missing", CodeByMail}

LEMMA PlainFailureKeeps ==
    ASSUME FlowIInv, NEW reason \in Plain, Fails(reason),
           PageIsOld, UNCHANGED <<errors, asked, browser, seen>>
    PROVE  FlowIInv'
<1>1. reason \in Reason \ {"cancelled"} /\ ~(reason \in Refusals \ {CodeByMail})
  BY FlowConstants DEF Plain, Reason, CodeByMail
<1> QED BY <1>1, FailureKeeps

-----------------------------------------------------------------------------
(* The steps of login.run.                                                 *)

LEMMA OpeningKeeps == FlowIInv /\ Opening => FlowIInv'
<1> SUFFICES ASSUME FlowIInv, Opening PROVE FlowIInv'
  OBVIOUS
<1>0. FlowTypeOK
  BY DEF FlowIInv
<1>1. CASE LaunchBrowser
  <2>1. /\ flow' \in Flow /\ flow'.step = "script" /\ ~flow'.probed /\ flow'.run = flow.run
        /\ flow'.result = flow.result /\ flow'.name = flow.name
    BY <1>0, <1>1, ToLeads DEF LaunchBrowser, Step
  <2>2. /\ browser' \in [mine : BOOLEAN, lost : Nat] /\ browser'.lost = browser.lost
        /\ UNCHANGED <<site, errors, asked, seen>>
    BY <1>0, <1>1 DEF LaunchBrowser, FlowTypeOK
  <2>3. FlowTypeOK' /\ LoginsAreRuns'
    BY <1>0, <2>1, <2>2 DEF FlowIInv, FlowTypeOK, LoginsAreRuns
  <2>4. LateIsLast' /\ NoBrowserIsForgotten'
    BY <2>1, <2>2 DEF FlowIInv, LateIsLast, NoBrowserIsForgotten
  <2>5. ReasonsAreShown'
    BY <2>1, <2>2 DEF FlowIInv, ReasonsAreShown, ResultIsTrue
  <2> QED BY <2>3, <2>4, <2>5 DEF FlowIInv
<1>2. CASE NoContextForRun
  <2>1. "unknown" \in Result /\ "none" \in Session /\ "unknown" \notin Refusals
    BY FlowConstants DEF Result, Reason, Session
  <2>2. EndsTruly("unknown", "none")
    BY <1>2, <2>1 DEF NoContextForRun, EndsTruly, Fails, GivenUp, PageIsOld
  <2> QED BY <2>1, <2>2, EndingKeeps
<1>3. CASE ScriptAdded
  BY <1>0, <1>3, GoingKeeps DEF ScriptAdded, Step, Probed, PageIsOld
<1>4. CASE OpenPage
  BY <1>0, <1>4, GoingKeeps DEF OpenPage, Step, Probed, PageIsOld
<1>5. CASE SkipLogin
  <2>1. "ok" \in Result /\ "typed" \in Session /\ "ok" \notin Refusals
    BY FlowConstants DEF Result, Session
  <2>2. EndsTruly("ok", "typed")
    BY <1>5, <2>1 DEF SkipLogin, EndsTruly, PageIsOld
  <2> QED BY <2>1, <2>2, EndingKeeps
<1>6. CASE NeedLogin
  BY <1>0, <1>6, GoingKeeps DEF NeedLogin, Step, Probed, PageIsOld
<1>7. CASE Navigate
  <2>1. PageIsOld
    BY <1>0, <1>7, LoadLeads DEF Navigate
  <2> QED BY <1>7, <2>1, GoingKeeps DEF Navigate, Step, Probed
<1> QED BY <1>1, <1>2, <1>3, <1>4, <1>5, <1>6, <1>7 DEF Opening

LEMMA NextAttemptKeeps ==
    ASSUME FlowIInv, NextAttempt, PageIsOld, UNCHANGED <<errors, asked, browser, seen>>
    PROVE  FlowIInv'
<1>1. flow \in Flow
  BY DEF FlowIInv, FlowTypeOK
<1>2. CASE flow.tries + 1 < MaxAttempts
  <2>1. /\ flow' = [flow EXCEPT !.step = "username", !.probed = FALSE, !.tries = flow.tries + 1]
        /\ flow.tries + 1 \in 0 .. 2
    BY <1>1, <1>2 DEF NextAttempt, MaxAttempts, Flow
  <2>2. /\ flow' \in Flow /\ flow'.step = "username" /\ ~flow'.probed
        /\ flow'.run = flow.run /\ flow'.result = flow.result
    BY <1>1, <2>1 DEF Flow, Step, Probed
  <2> QED BY <2>2, QuietKeeps DEF Quiet
<1>3. CASE ~(flow.tries + 1 < MaxAttempts)
  BY <1>3, PlainFailureKeeps DEF NextAttempt, Plain
<1> QED BY <1>2, <1>3

\* GiveUpUsername and NoPasswordField: what is known has been said, and so has what is seen.
LEMMA VisibleReasonKeeps ==
    ASSUME FlowIInv, NEW known \in {NoReason, errors.since}, Fails(VisibleReason(known)),
           UNCHANGED <<site, errors, asked, browser, seen>>
    PROVE  FlowIInv'
<1>1. /\ errors.since \in ApiReasons \cup {NoReason}
      /\ errors.since # NoReason => errors.since \in seen.shown
      /\ site.page \in Refusals => site.page \in seen.shown
  BY DEF FlowIInv, FlowTypeOK, ReasonsAreShown
<1>2. /\ VisibleReason(known) \in Reason \ {"cancelled"}
      /\ VisibleReason(known) \in Refusals \ {CodeByMail} => VisibleReason(known) \in seen.shown
  BY <1>1, FlowConstants DEF VisibleReason, Reason, Refusals, NoReason
<1> QED BY <1>2, FailureKeeps DEF PageIsOld

LEMMA UsernameKeeps == FlowIInv /\ UsernameStep => FlowIInv'
<1> SUFFICES ASSUME FlowIInv, UsernameStep PROVE FlowIInv'
  OBVIOUS
<1>0. FlowTypeOK
  BY DEF FlowIInv
<1>1. CASE TypeUsername
  <2>1. Gives("username")
    BY <1>1 DEF TypeUsername, Gives, In, Probed, Step
  <2> QED BY <2>1, GivingKeeps DEF Forms
<1>2. CASE ClickLogin
  <2>1. PageIsOld
    BY <1>0, <1>2, OwedLeads DEF ClickLogin
  <2> QED BY <1>2, <2>1, NextAttemptKeeps DEF ClickLogin
<1>3. CASE ClickRetry
  <2>1. PageIsOld
    BY <1>0, <1>3, OwedLeads DEF ClickRetry
  <2>2. flow \in Flow /\ flow' = [flow EXCEPT !.step = "retry", !.probed = FALSE]
    BY <1>0, <1>3 DEF ClickRetry, FlowTypeOK
  <2>3. /\ flow' \in Flow /\ flow'.step = "retry" /\ ~flow'.probed /\ flow'.run = flow.run
        /\ flow'.result = flow.result
    BY <2>2 DEF Flow, Step
  <2>4. Quiet
    BY <1>3, <2>1, <2>3 DEF ClickRetry, Quiet, In, Probed
  <2> QED BY <2>4, QuietKeeps
<1>4. CASE Reload
  <2>1. PageIsOld
    BY <1>0, <1>4, LoadLeads DEF Reload
  <2> QED BY <1>4, <2>1, NextAttemptKeeps DEF Reload
<1>5. CASE NoUsernameField
  BY <1>5, PlainFailureKeeps DEF NoUsernameField, Plain, PageIsOld
<1>6. CASE LeaveUsername
  <2>1. /\ flow' \in Flow /\ flow'.step = "between" /\ ~flow'.probed /\ flow'.run = flow.run
        /\ flow'.result = flow.result /\ flow'.name = flow.name
    BY <1>0, <1>6, ToLeads DEF LeaveUsername, Step
  <2>2. errors' = NoErrors /\ UNCHANGED <<site, asked, browser, seen>>
    BY <1>6 DEF LeaveUsername
  <2>3. FlowTypeOK' /\ LoginsAreRuns'
    BY <1>0, <2>1, <2>2 DEF FlowIInv, FlowTypeOK, LoginsAreRuns, NoErrors
  <2>4. LateIsLast' /\ NoBrowserIsForgotten'
    BY <2>1, <2>2 DEF FlowIInv, LateIsLast, NoBrowserIsForgotten
  <2>5. ReasonsAreShown'
    BY <2>1, <2>2 DEF FlowIInv, ReasonsAreShown, ResultIsTrue, NoErrors
  <2> QED BY <2>3, <2>4, <2>5 DEF FlowIInv
<1>7. CASE SubmitAgain
  <2>1. PageIsOld
    <3>1. site' = site \/ site' = [site EXCEPT !.due = Owed]
      BY <1>7 DEF SubmitAgain
    <3>2. CASE site' = site
      BY <3>2 DEF PageIsOld
    <3>3. CASE site' = [site EXCEPT !.due = Owed]
      BY <1>0, <3>3, OwedLeads
    <3> QED BY <3>1, <3>2, <3>3
  <2>2. /\ flow \in Flow /\ flow' = [flow EXCEPT !.tries = flow.tries + 1]
        /\ flow.tries + 1 \in 0 .. 2 /\ flow.step = "submit"
    BY <1>0, <1>7 DEF SubmitAgain, FlowTypeOK, Flow, MaxAttempts, In
  <2>3. /\ flow' \in Flow /\ flow'.step = "submit" /\ flow'.probed = flow.probed
        /\ flow'.run = flow.run /\ flow'.result = flow.result
    BY <2>2 DEF Flow
  <2>4. Quiet
    BY <1>7, <2>1, <2>3 DEF SubmitAgain, Quiet
  <2> QED BY <2>4, QuietKeeps
<1>8. CASE EnterRejects
  BY <1>8, PlainFailureKeeps DEF EnterRejects, Plain, PageIsOld
<1>9. CASE GiveUpUsername
  BY <1>9, VisibleReasonKeeps DEF GiveUpUsername, SaidSince
<1> QED BY <1>1, <1>2, <1>3, <1>4, <1>5, <1>6, <1>7, <1>8, <1>9 DEF UsernameStep

LEMMA SecretKeeps == FlowIInv /\ SecretStep => FlowIInv'
<1> SUFFICES ASSUME FlowIInv, SecretStep PROVE FlowIInv'
  OBVIOUS
<1>0. FlowTypeOK
  BY DEF FlowIInv
<1>1. CASE FindCaptcha
  <2>1. Captcha \in Reason \ {"cancelled"} /\ (Captcha \in Refusals => Captcha \in seen.shown)
    BY <1>1 DEF FindCaptcha, FlowIInv, ReasonsAreShown, Reason, Captcha
  <2> QED BY <1>1, <2>1, FailureKeeps DEF FindCaptcha, PageIsOld
<1>2. CASE LookForChallenge
  BY <1>0, <1>2, GoingKeeps DEF LookForChallenge, Step, Probed, PageIsOld
<1>3. CASE AnswerChallenge
  <2>1. Gives("challenge")
    BY <1>3 DEF AnswerChallenge, Gives, In, Probed, Step
  <2> QED BY <2>1, GivingKeeps DEF Forms
<1>4. CASE TypePassword
  <2>1. Gives("password")
    BY <1>4 DEF TypePassword, Gives, In, Probed, Step
  <2> QED BY <2>1, GivingKeeps DEF Forms
<1>5. CASE NoPasswordField
  BY <1>5, VisibleReasonKeeps DEF NoPasswordField
<1>6. CASE NoCodeWanted
  BY <1>0, <1>6, GoingKeeps DEF NoCodeWanted, Step, Probed, PageIsOld
<1>7. CASE CodeWanted
  BY <1>0, <1>7, GoingKeeps DEF CodeWanted, Step, Probed, PageIsOld
<1>8. CASE NoCodeToGive
  BY <1>8, PlainFailureKeeps DEF NoCodeToGive, Plain, PageIsOld
<1>9. CASE TypeCode
  <2>1. Gives("totp")
    BY <1>9 DEF TypeCode, Gives, In, Probed, Step
  <2> QED BY <2>1, GivingKeeps DEF Forms
<1>10. CASE StepRejects
  <2>1. "unknown" \in Result /\ "none" \in Session /\ "unknown" \notin Refusals
    BY FlowConstants DEF Result, Reason, Session
  <2>2. EndsTruly("unknown", "none")
    BY <1>10, <2>1 DEF StepRejects, EndsTruly, Fails, PageIsOld
  <2> QED BY <2>1, <2>2, EndingKeeps
<1> QED BY <1>1, <1>2, <1>3, <1>4, <1>5, <1>6, <1>7, <1>8, <1>9, <1>10 DEF SecretStep

LEMMA AgainKeeps ==
    ASSUME FlowIInv, NEW run \in {2, 3}, flow.run < run, flow.step = "decide", Again(run)
    PROVE  FlowIInv'
<1>1. /\ FlowTypeOK /\ flow \in Flow /\ seen \in Seen
      /\ site \in [page : Page, due : 0 .. MaxDue, session : Session]
      /\ seen.logins \in Nat /\ flow.run \in Nat /\ seen.logins <= flow.run
  BY DEF FlowIInv, FlowTypeOK, LoginsAreRuns, Flow, Seen, MaxRuns
<1>2. /\ flow' \in Flow /\ flow'.step = "launch" /\ flow'.run = run /\ flow'.result = NoReason
      /\ flow'.probed = flow.probed
  <2>1. "launch" \in Step /\ run \in 1 .. MaxRuns /\ NoReason \in Result
    BY DEF Step, Probed, MaxRuns, Result
  <2>2. flow' = [flow EXCEPT !.step = "launch", !.run = run, !.result = NoReason]
    BY DEF Again
  <2> QED BY <1>1, <2>1, <2>2 DEF Flow
<1>3. /\ seen' \in Seen /\ seen'.logins = seen.logins + 1 /\ seen'.shown = seen.shown
      /\ seen'.late = seen.late /\ seen'.missed = seen.missed /\ seen'.rejects = seen.rejects
  <2>1. seen.logins + 1 \in 1 .. MaxRuns
    BY <1>1 DEF MaxRuns
  <2> QED BY <1>1, <2>1 DEF Again, Seen
<1>4. /\ site' \in [page : Page, due : 0 .. MaxDue, session : Session]
      /\ site'.page = site.page
  BY <1>1 DEF Again, Session
<1>5. UNCHANGED <<errors, asked, browser>>
  BY DEF Again
<1>6. FlowTypeOK' /\ LoginsAreRuns'
  BY <1>1, <1>2, <1>3, <1>4, <1>5 DEF FlowTypeOK, LoginsAreRuns
<1>7. LateIsLast' /\ NoBrowserIsForgotten'
  BY <1>2, <1>3, <1>5 DEF FlowIInv, LateIsLast, NoBrowserIsForgotten
<1>8. ReasonsAreShown'
  BY <1>2, <1>3, <1>4, <1>5 DEF FlowIInv, ReasonsAreShown, ResultIsTrue, NoReason
<1> QED BY <1>6, <1>7, <1>8 DEF FlowIInv

LEMMA VerdictKeeps == FlowIInv /\ Verdict => FlowIInv'
<1> SUFFICES ASSUME FlowIInv, Verdict PROVE FlowIInv'
  OBVIOUS
<1>0. FlowTypeOK
  BY DEF FlowIInv
<1>1. CASE ReachHome
  <2>1. PageIsOld
    <3>1. site \in [page : Page, due : 0 .. MaxDue, session : Session]
      BY <1>0 DEF FlowTypeOK
    <3> QED BY <1>1, <3>1, FlowConstants DEF ReachHome, PageIsOld
  <2> QED BY <1>1, <2>1, GoingKeeps DEF ReachHome, Step, Probed
<1>2. CASE NotHome
  <2>1. CASE Fails(site.page) /\ site.page \in TextReasons \cup UrlReasons \cup {Captcha}
    <3>1. /\ site.page \in Reason \ {"cancelled"}
          /\ site.page \in Refusals => site.page \in seen.shown
      BY <2>1, FlowConstants DEF FlowIInv, ReasonsAreShown, Reason, Refusals, Captcha
    <3> QED BY <1>2, <2>1, <3>1, FailureKeeps DEF NotHome, PageIsOld
  <2>2. CASE Fails(CodeByMail) \/ Fails("home_not_reached")
    BY <1>2, <2>2, PlainFailureKeeps DEF NotHome, Plain, PageIsOld
  <2> QED BY <1>2, <2>1, <2>2 DEF NotHome
<1>3. CASE ExtractCookies
  BY <1>0, <1>3, GoingKeeps DEF ExtractCookies, Step, Probed, PageIsOld
<1>4. CASE CookiesMissing
  BY <1>4, PlainFailureKeeps DEF CookiesMissing, Plain, PageIsOld
<1>5. CASE Verified
  <2>1. "ok" \in Result /\ site.session \in Session /\ "ok" \notin Refusals
    BY <1>0, FlowConstants DEF FlowTypeOK, Result
  <2>2. EndsTruly("ok", site.session)
    BY <1>5, <2>1 DEF Verified, EndsTruly, PageIsOld
  <2> QED BY <2>1, <2>2, EndingKeeps
<1>6. CASE VerifyRefused
  <2>1. flow \in Flow /\ flow.step = "verify"
    BY <1>0, <1>6 DEF VerifyRefused, FlowTypeOK, In
  <2>2. CASE flow.tries + 1 < MaxPasses
    <3>1. flow' = [flow EXCEPT !.tries = flow.tries + 1] /\ flow.tries + 1 \in 0 .. 2
      BY <1>6, <2>1, <2>2 DEF VerifyRefused, MaxPasses, Flow
    <3>2. /\ flow' \in Flow /\ flow'.step = "verify" /\ flow'.probed = flow.probed
          /\ flow'.run = flow.run /\ flow'.result = flow.result
      BY <2>1, <3>1 DEF Flow
    <3> QED BY <1>6, <3>2, QuietKeeps DEF VerifyRefused, Quiet, PageIsOld
  <2>3. CASE ~(flow.tries + 1 < MaxPasses)
    BY <1>6, <2>3, PlainFailureKeeps DEF VerifyRefused, Plain, PageIsOld
  <2> QED BY <2>2, <2>3
<1>7. CASE VerifyFails
  BY <1>7, PlainFailureKeeps DEF VerifyFails, Plain, PageIsOld
<1>8. CASE CloseBrowser
  <2>1. /\ flow' \in Flow /\ flow'.step = "decide" /\ ~flow'.probed /\ flow'.run = flow.run
        /\ flow'.result = flow.result
    BY <1>0, <1>8, ToLeads DEF CloseBrowser, Step
  <2>2. /\ site' \in [page : Page, due : 0 .. MaxDue, session : Session] /\ site'.page = "blank"
        /\ errors' = NoErrors /\ UNCHANGED asked
    <3>1. site \in [page : Page, due : 0 .. MaxDue, session : Session]
      BY <1>0 DEF FlowTypeOK
    <3>2. site' = [page |-> "blank", due |-> 0, session |-> site.session]
      BY <1>8, <3>1 DEF CloseBrowser
    <3> QED BY <1>8, <3>1, <3>2, FlowConstants DEF CloseBrowser, Page
  <2>3. /\ browser' \in [mine : BOOLEAN, lost : Nat] /\ ~browser'.mine
        /\ seen' \in Seen /\ seen'.late = seen.late /\ seen'.missed = seen.missed
        /\ seen'.logins = seen.logins
        /\ browser.lost <= seen.rejects => browser'.lost <= seen'.rejects
    <3>1. browser \in [mine : BOOLEAN, lost : Nat] /\ seen \in Seen
      BY <1>0 DEF FlowTypeOK
    <3>2. CASE browser' = [browser EXCEPT !.mine = FALSE] /\ seen' = [seen EXCEPT !.shown = {}]
      BY <3>1, <3>2 DEF Seen
    <3>3. CASE /\ browser' = [mine |-> FALSE, lost |-> browser.lost + 1]
               /\ seen.rejects < MaxRejects
               /\ seen' = [seen EXCEPT !.shown = {}, !.rejects = seen.rejects + 1]
      <4>1. seen.rejects \in Nat /\ seen.rejects + 1 \in 0 .. MaxRejects
        BY <3>1, <3>3, FlowConstants DEF Seen
      <4>2. seen' \in Seen /\ seen'.late = seen.late /\ seen'.missed = seen.missed
            /\ seen'.logins = seen.logins /\ seen'.rejects = seen.rejects + 1
        BY <3>1, <3>3, <4>1 DEF Seen
      <4> QED BY <3>1, <3>3, <4>1, <4>2
    <3> QED BY <1>8, <3>2, <3>3 DEF CloseBrowser
  <2>4. FlowTypeOK' /\ LoginsAreRuns'
    BY <1>0, <2>1, <2>2, <2>3 DEF FlowIInv, FlowTypeOK, LoginsAreRuns, NoErrors
  <2>5. LateIsLast' /\ NoBrowserIsForgotten'
    BY <2>1, <2>2, <2>3 DEF FlowIInv, LateIsLast, NoBrowserIsForgotten
  <2>6. ReasonsAreShown'
    BY <2>1, <2>2, FlowConstants DEF FlowIInv, ReasonsAreShown, ResultIsTrue, NoErrors
  <2> QED BY <2>4, <2>5, <2>6 DEF FlowIInv
<1>9. CASE TransientRetry
  <2>1. Again(2) /\ flow.step = "decide" /\ flow.run < 2
    BY <1>9 DEF TransientRetry, In
  <2> QED BY <2>1, AgainKeeps
<1>10. CASE ProxyFallback
  <2>1. Again(3) /\ flow.step = "decide" /\ flow.run < 3
    BY <1>10 DEF ProxyFallback, In
  <2> QED BY <2>1, AgainKeeps
<1>11. CASE Decided
  BY <1>0, <1>11, GoingKeeps DEF Decided, Step, Probed, PageIsOld
<1> QED BY <1>1, <1>2, <1>3, <1>4, <1>5, <1>6, <1>7, <1>8, <1>9, <1>10, <1>11 DEF Verdict

-----------------------------------------------------------------------------
(* Probes, X, and who asks.                                                *)

Probe == ProbeStops \/ ProbePasses \/ ProbeRejects

LEMMA ProbeKeeps == FlowIInv /\ Probe => FlowIInv'
<1> SUFFICES ASSUME FlowIInv, Probe PROVE FlowIInv'
  OBVIOUS
<1>0. FlowTypeOK
  BY DEF FlowIInv
<1>1. CASE ProbeStops
  <2>1. "cancelled" \in Result /\ "none" \in Session /\ "cancelled" \notin Refusals
    BY FlowConstants DEF Result, Reason, Session
  <2>2. EndsTruly("cancelled", "none")
    BY <1>1, <2>1 DEF ProbeStops, EndsTruly, Fails, PageIsOld
  <2> QED BY <2>1, <2>2, EndingKeeps
<1>2. CASE ProbePasses
  <2>1. /\ flow' \in Flow /\ flow'.step = flow.step /\ flow.step \in Probed
        /\ flow'.run = flow.run /\ flow'.result = flow.result
    BY <1>0, <1>2 DEF ProbePasses, Passes, FlowTypeOK, Flow
  <2>2. /\ errors' \in [before : ApiReasons \cup {NoReason}, since : ApiReasons \cup {NoReason}]
        /\ UNCHANGED <<site, asked, browser>>
    BY <1>0, <1>2 DEF ProbePasses, Passes, FlowTypeOK
  <2>3. ShownNow \in SUBSET Refusals /\ seen \in Seen
    BY <1>0 DEF ShownNow, FlowTypeOK, Seen
  <2>4. /\ seen' \in Seen /\ seen'.late = seen.late /\ seen'.logins = seen.logins
        /\ seen'.shown = ShownNow /\ seen'.rejects = seen.rejects /\ seen'.missed = seen.missed
    BY <1>2, <2>3 DEF ProbePasses, Seen
  <2>5. FlowTypeOK' /\ LoginsAreRuns'
    BY <1>0, <2>1, <2>2, <2>4 DEF FlowIInv, FlowTypeOK, LoginsAreRuns
  <2>6. LateIsLast' /\ NoBrowserIsForgotten'
    BY <1>2, <1>0, <2>1, <2>2, <2>3, <2>4
       DEF FlowIInv, LateIsLast, NoBrowserIsForgotten, ProbePasses, Seen
  <2>7. ReasonsAreShown'
    <3>1. errors'.since # NoReason => errors'.since \in ShownNow
      BY <1>0, <1>2 DEF FlowIInv, FlowTypeOK, ReasonsAreShown, ShownNow, ProbePasses, Passes
    <3>2. site.page \in Refusals => site.page \in ShownNow
      BY DEF FlowIInv, ReasonsAreShown, ShownNow
    <3> QED BY <2>1, <2>2, <2>4, <3>1, <3>2
               DEF FlowIInv, ReasonsAreShown, ResultIsTrue, Probed
  <2> QED BY <2>5, <2>6, <2>7 DEF FlowIInv
<1>3. CASE ProbeRejects
  <2>1. /\ flow' \in Flow /\ flow'.step = flow.step /\ flow.step \in Probed
        /\ flow'.run = flow.run /\ flow'.result = flow.result
    BY <1>0, <1>3 DEF ProbeRejects, Passes, FlowTypeOK, Flow
  <2>2. /\ errors' \in [before : ApiReasons \cup {NoReason}, since : ApiReasons \cup {NoReason}]
        /\ UNCHANGED <<site, asked, browser>>
    BY <1>0, <1>3 DEF ProbeRejects, Passes, FlowTypeOK
  <2>3. ShownNow \in SUBSET Refusals /\ seen \in Seen
    BY <1>0 DEF ShownNow, FlowTypeOK, Seen
  <2>4. /\ seen' \in Seen /\ seen'.late = seen.late /\ seen'.logins = seen.logins
        /\ seen'.shown = ShownNow /\ seen'.rejects = seen.rejects + 1 /\ seen'.missed
    <3>1. seen.rejects + 1 \in 0 .. MaxRejects
      BY <1>3, <2>3, FlowConstants DEF ProbeRejects, Seen
    <3>2. seen' = [shown |-> ShownNow, late |-> seen.late, missed |-> TRUE,
                   rejects |-> seen.rejects + 1, logins |-> seen.logins]
      BY <1>3, <2>3 DEF ProbeRejects, Seen
    <3> QED BY <2>3, <3>1, <3>2 DEF Seen
  <2>5. FlowTypeOK' /\ LoginsAreRuns'
    BY <1>0, <2>1, <2>2, <2>4 DEF FlowIInv, FlowTypeOK, LoginsAreRuns
  <2>6. LateIsLast' /\ NoBrowserIsForgotten'
    <3>1. seen.rejects \in Nat /\ browser.lost \in Nat
      BY <1>0, <2>3, FlowConstants DEF FlowTypeOK, Seen
    <3> QED BY <2>1, <2>2, <2>4, <3>1 DEF FlowIInv, LateIsLast, NoBrowserIsForgotten, Probed
  <2>7. ReasonsAreShown'
    <3>1. errors'.since # NoReason => errors'.since \in ShownNow
      BY <1>0, <1>3 DEF FlowIInv, FlowTypeOK, ReasonsAreShown, ShownNow, ProbeRejects, Passes
    <3>2. site.page \in Refusals => site.page \in ShownNow
      BY DEF FlowIInv, ReasonsAreShown, ShownNow
    <3> QED BY <2>1, <2>2, <2>4, <3>1, <3>2
               DEF FlowIInv, ReasonsAreShown, ResultIsTrue, Probed
  <2> QED BY <2>5, <2>6, <2>7 DEF FlowIInv
<1> QED BY <1>1, <1>2, <1>3 DEF Probe

Outside == XAnswers \/ XReports \/ Ask

LEMMA OutsideKeeps == FlowIInv /\ Outside => FlowIInv'
<1> SUFFICES ASSUME FlowIInv, Outside PROVE FlowIInv'
  OBVIOUS
<1>0. FlowTypeOK
  BY DEF FlowIInv
<1>1. CASE XAnswers
  <2>1. PICK page \in Answers, session \in Session :
           /\ site' = [page |-> page, due |-> site.due - 1, session |-> session]
           /\ seen' = [seen EXCEPT !.shown = seen.shown \cup ({page} \cap Refusals)]
    BY <1>0, <1>1 DEF XAnswers, FlowTypeOK, Session
  <2>2. page \in Page
    BY DEF Answers, Page, Refusals
  <2>3. /\ site' \in [page : Page, due : 0 .. MaxDue, session : Session] /\ site'.page = page
    <3>1. site.due - 1 \in 0 .. MaxDue
      BY <1>0, <1>1, FlowConstants DEF XAnswers, FlowTypeOK
    <3> QED BY <2>1, <2>2, <3>1
  <2>4. /\ seen' \in Seen /\ seen'.shown = seen.shown \cup ({page} \cap Refusals)
        /\ seen'.late = seen.late /\ seen'.missed = seen.missed
        /\ seen'.rejects = seen.rejects /\ seen'.logins = seen.logins
    BY <1>0, <2>1 DEF FlowTypeOK, Seen
  <2>5. UNCHANGED <<flow, errors, asked, browser>> /\ flow.step # "close"
    BY <1>1 DEF XAnswers, Looking, Forms
  <2>6. FlowTypeOK' /\ LoginsAreRuns'
    BY <1>0, <2>3, <2>4, <2>5 DEF FlowIInv, FlowTypeOK, LoginsAreRuns
  <2>7. LateIsLast' /\ NoBrowserIsForgotten'
    BY <2>4, <2>5 DEF FlowIInv, LateIsLast, NoBrowserIsForgotten
  <2>8. ReasonsAreShown'
    BY <2>3, <2>4, <2>5 DEF FlowIInv, ReasonsAreShown, ResultIsTrue
  <2> QED BY <2>6, <2>7, <2>8 DEF FlowIInv
<1>2. CASE XReports
  <2>1. PICK reason \in ApiReasons \cup {NoReason} :
           /\ errors' = [errors EXCEPT !.since = reason]
           /\ seen' = [seen EXCEPT !.shown = seen.shown \cup ({reason} \cap ApiReasons)]
    BY <1>2 DEF XReports
  <2>2. /\ errors' \in [before : ApiReasons \cup {NoReason}, since : ApiReasons \cup {NoReason}]
        /\ errors'.since = reason
    BY <1>0, <2>1 DEF FlowTypeOK
  <2>3. /\ seen' \in Seen /\ seen'.shown = seen.shown \cup ({reason} \cap ApiReasons)
        /\ seen'.late = seen.late /\ seen'.missed = seen.missed
        /\ seen'.rejects = seen.rejects /\ seen'.logins = seen.logins
    BY <1>0, <2>1 DEF FlowTypeOK, Seen, Refusals
  <2>4. UNCHANGED <<flow, site, asked, browser>> /\ flow.step # "close"
    BY <1>2 DEF XReports
  <2>5. FlowTypeOK' /\ LoginsAreRuns'
    BY <1>0, <2>2, <2>3, <2>4 DEF FlowIInv, FlowTypeOK, LoginsAreRuns
  <2>6. LateIsLast' /\ NoBrowserIsForgotten'
    BY <2>3, <2>4 DEF FlowIInv, LateIsLast, NoBrowserIsForgotten
  <2>7. ReasonsAreShown'
    BY <2>2, <2>3, <2>4 DEF FlowIInv, ReasonsAreShown, ResultIsTrue
  <2> QED BY <2>5, <2>6, <2>7 DEF FlowIInv
<1>3. CASE Ask
  <2>1. /\ asked \subseteq asked' /\ asked' # {} /\ asked' \subseteq {"user", "shutdown"}
        /\ UNCHANGED <<flow, site, errors, browser, seen>>
    BY <1>0, <1>3 DEF Ask, FlowTypeOK
  <2>2. FlowTypeOK' /\ LoginsAreRuns'
    BY <1>0, <2>1 DEF FlowIInv, FlowTypeOK, LoginsAreRuns
  <2>3. LateIsLast' /\ NoBrowserIsForgotten'
    BY <2>1 DEF FlowIInv, LateIsLast, NoBrowserIsForgotten
  <2>4. ReasonsAreShown'
    BY <2>1 DEF FlowIInv, ReasonsAreShown, ResultIsTrue
  <2> QED BY <2>2, <2>3, <2>4 DEF FlowIInv
<1> QED BY <1>1, <1>2, <1>3 DEF Outside

-----------------------------------------------------------------------------
\* A login: a form is given to X by a step that was let in before the job was asked to
\* stop, what X has said is kept, and a browser is closed before login.run returns.
THEOREM FlowInvariant == FlowSpec => []FlowIInv
<1>1. FlowInit => FlowIInv
  BY FlowInitially
<1>2. FlowIInv /\ [FlowNext]_flowVars => FlowIInv'
  <2>1. FlowIInv /\ UNCHANGED flowVars => FlowIInv'
    BY DEF flowVars, FlowIInv, FlowTypeOK, LoginsAreRuns, LateIsLast, ReasonsAreShown,
       ResultIsTrue, NoBrowserIsForgotten
  <2> QED BY <2>1, OpeningKeeps, UsernameKeeps, SecretKeeps, VerdictKeeps, ProbeKeeps, OutsideKeeps
          DEF FlowNext, LoginStep, Probe, Outside
<1> QED BY <1>1, <1>2, PTL DEF FlowSpec

\* Types.
THEOREM FlowTypeCorrect == FlowSpec => []FlowTypeOK
<1>1. FlowIInv => FlowTypeOK
  BY DEF FlowIInv
<1> QED BY <1>1, FlowInvariant, PTL

\* checkCancel: unless a probe was rejected, X is given one form at most after the job was
\* asked to stop.
THEOREM StopHeeded == FlowSpec => []StopIsHeeded
<1>1. FlowIInv => StopIsHeeded
  <2> SUFFICES ASSUME FlowIInv, ~seen.missed PROVE Cardinality(seen.late) <= 1
    BY DEF StopIsHeeded
  <2>1. CASE seen.late = {}
    BY <2>1, FS_EmptySet
  <2>2. CASE \E form \in Forms : seen.late = {form}
    <3>1. PICK form \in Forms : seen.late = {form}
      BY <2>2
    <3>2. Cardinality({form}) = 1
      BY FS_Singleton
    <3> QED BY <3>1, <3>2
  <2> QED BY <2>1, <2>2 DEF FlowIInv, LateIsLast
<1> QED BY <1>1, FlowInvariant, PTL

\* login.run: a success, a cancellation or a refusal is what has happened in this run.
THEOREM ResultTrue == FlowSpec => []ResultIsTrue
<1>1. FlowIInv => ResultIsTrue
  BY DEF FlowIInv, ReasonsAreShown
<1> QED BY <1>1, FlowInvariant, PTL

\* The finally of login.run: no browser is left by a login whose close does not reject.
THEOREM BrowserNotForgotten == FlowSpec => []NoBrowserIsForgotten
<1>1. FlowIInv => NoBrowserIsForgotten
  BY DEF FlowIInv
<1> QED BY <1>1, FlowInvariant, PTL

-----------------------------------------------------------------------------
(* The queue's view.                                                       *)

\* A step that the queue does not see.
Unseen ==
    /\ flow.step # "done" /\ flow'.step # "done" /\ flow'.run = flow.run
    /\ seen'.logins = seen.logins /\ asked' = asked

LEMMA UnseenIsStutter == Unseen => UNCHANGED Queue!vars
BY DEF Unseen, Queue!vars, QueueRow, QueuePhase, QueueProcess, QueueUsed

LEMMA GoesUnseen ==
    ASSUME FlowTypeOK, flow.step # "done", asked' = asked,
           seen' = seen \/ Reject \/ (\E form \in Forms : Submit(form)),
           \/ \E s \in Step \ {"done"} : To(s)
           \/ \E result, name : Ends(result, name)
    PROVE  Unseen
<1>1. flow \in Flow /\ seen \in Seen
  BY DEF FlowTypeOK
<1>2. flow'.step # "done" /\ flow'.run = flow.run
  BY <1>1 DEF To, Ends, Flow
<1>3. seen'.logins = seen.logins
  <2>1. CASE Reject
    BY <1>1, <2>1, RejectLeads
  <2>2. CASE \E form \in Forms : Submit(form)
    BY <1>1, <2>2 DEF Submit, Seen
  <2> QED BY <2>1, <2>2
<1> QED BY <1>2, <1>3 DEF Unseen

LEMMA OpeningUnseen == FlowTypeOK /\ Opening => Unseen
<1> SUFFICES ASSUME FlowTypeOK, Opening PROVE Unseen
  OBVIOUS
<1>0. flow \in Flow /\ seen \in Seen
  BY DEF FlowTypeOK
<1>1. CASE LaunchBrowser
  BY <1>1, GoesUnseen DEF LaunchBrowser, In, Fails, Step, Probed, Forms
<1>2. CASE NoContextForRun
  BY <1>2, GoesUnseen DEF NoContextForRun, In, Fails, Step, Probed, Forms
<1>3. CASE ScriptAdded
  BY <1>3, GoesUnseen DEF ScriptAdded, In, Fails, Step, Probed, Forms
<1>4. CASE OpenPage
  BY <1>4, GoesUnseen DEF OpenPage, In, Fails, Step, Probed, Forms
<1>5. CASE SkipLogin
  BY <1>5, GoesUnseen DEF SkipLogin, In, Fails, Step, Probed, Forms
<1>6. CASE NeedLogin
  BY <1>6, GoesUnseen DEF NeedLogin, In, Fails, Step, Probed, Forms
<1>7. CASE Navigate
  BY <1>7, GoesUnseen DEF Navigate, In, Fails, Step, Probed, Forms
<1> QED BY <1>1, <1>2, <1>3, <1>4, <1>5, <1>6, <1>7 DEF Opening

LEMMA UsernameUnseen == FlowTypeOK /\ UsernameStep => Unseen
<1> SUFFICES ASSUME FlowTypeOK, UsernameStep PROVE Unseen
  OBVIOUS
<1>0. flow \in Flow /\ seen \in Seen
  BY DEF FlowTypeOK
<1>1. CASE TypeUsername
  BY <1>1, GoesUnseen DEF TypeUsername, In, Fails, Step, Probed, Forms
<1>2. CASE ClickLogin
  BY <1>0, <1>2 DEF ClickLogin, In, Unseen, Flow, Seen, NextAttempt, Fails, Ends
<1>3. CASE ClickRetry
  BY <1>0, <1>3 DEF ClickRetry, In, Unseen, Flow, Seen
<1>4. CASE Reload
  BY <1>0, <1>4 DEF Reload, In, Unseen, Flow, Seen, NextAttempt, Fails, Ends
<1>5. CASE NoUsernameField
  BY <1>5, GoesUnseen DEF NoUsernameField, In, Fails, Step, Probed, Forms
<1>6. CASE LeaveUsername
  BY <1>6, GoesUnseen DEF LeaveUsername, In, Fails, Step, Probed, Forms
<1>7. CASE SubmitAgain
  BY <1>0, <1>7 DEF SubmitAgain, In, Unseen, Flow, Seen
<1>8. CASE EnterRejects
  BY <1>8, GoesUnseen DEF EnterRejects, In, Fails, Step, Probed, Forms
<1>9. CASE GiveUpUsername
  BY <1>9, GoesUnseen DEF GiveUpUsername, In, Fails, Step, Probed, Forms
<1> QED BY <1>1, <1>2, <1>3, <1>4, <1>5, <1>6, <1>7, <1>8, <1>9 DEF UsernameStep

LEMMA SecretUnseen == FlowTypeOK /\ SecretStep => Unseen
<1> SUFFICES ASSUME FlowTypeOK, SecretStep PROVE Unseen
  OBVIOUS
<1>0. flow \in Flow /\ seen \in Seen
  BY DEF FlowTypeOK
<1>1. CASE FindCaptcha
  BY <1>1, GoesUnseen DEF FindCaptcha, In, Fails, Step, Probed, Forms
<1>2. CASE LookForChallenge
  BY <1>2, GoesUnseen DEF LookForChallenge, In, Fails, Step, Probed, Forms
<1>3. CASE AnswerChallenge
  BY <1>3, GoesUnseen DEF AnswerChallenge, In, Fails, Step, Probed, Forms
<1>4. CASE TypePassword
  BY <1>4, GoesUnseen DEF TypePassword, In, Fails, Step, Probed, Forms
<1>5. CASE NoPasswordField
  BY <1>5, GoesUnseen DEF NoPasswordField, In, Fails, Step, Probed, Forms
<1>6. CASE NoCodeWanted
  BY <1>6, GoesUnseen DEF NoCodeWanted, In, Fails, Step, Probed, Forms
<1>7. CASE CodeWanted
  BY <1>7, GoesUnseen DEF CodeWanted, In, Fails, Step, Probed, Forms
<1>8. CASE NoCodeToGive
  BY <1>8, GoesUnseen DEF NoCodeToGive, In, Fails, Step, Probed, Forms
<1>9. CASE TypeCode
  BY <1>9, GoesUnseen DEF TypeCode, In, Fails, Step, Probed, Forms
<1>10. CASE StepRejects
  BY <1>10, GoesUnseen DEF StepRejects, In, Fails, Step, Probed, Forms
<1> QED BY <1>1, <1>2, <1>3, <1>4, <1>5, <1>6, <1>7, <1>8, <1>9, <1>10 DEF SecretStep

LEMMA VerdictUnseen ==
    ASSUME FlowTypeOK, Verdict, ~(TransientRetry \/ ProxyFallback \/ Decided)
    PROVE  Unseen
<1>0. flow \in Flow /\ seen \in Seen
  BY DEF FlowTypeOK
<1>1. CASE ReachHome
  BY <1>1, GoesUnseen DEF ReachHome, In, Fails, Step, Probed, Forms
<1>2. CASE NotHome
  BY <1>2, GoesUnseen DEF NotHome, In, Fails, Step, Probed, Forms
<1>3. CASE ExtractCookies
  BY <1>3, GoesUnseen DEF ExtractCookies, In, Fails, Step, Probed, Forms
<1>4. CASE CookiesMissing
  BY <1>4, GoesUnseen DEF CookiesMissing, In, Fails, Step, Probed, Forms
<1>5. CASE Verified
  BY <1>5, GoesUnseen DEF Verified, In, Fails, Step, Probed, Forms
<1>6. CASE VerifyRefused
  BY <1>0, <1>6 DEF VerifyRefused, In, Unseen, Flow, Seen, Fails, Ends
<1>7. CASE VerifyFails
  BY <1>7, GoesUnseen DEF VerifyFails, In, Fails, Step, Probed, Forms
<1>8. CASE CloseBrowser
  BY <1>0, <1>8 DEF CloseBrowser, In, Unseen, Flow, Seen, To
<1> QED BY <1>1, <1>2, <1>3, <1>4, <1>5, <1>6, <1>7, <1>8 DEF Verdict

LEMMA ProbeUnseen == FlowTypeOK /\ Probe => Unseen
<1> SUFFICES ASSUME FlowTypeOK, Probe PROVE Unseen
  OBVIOUS
<1>0. flow \in Flow /\ seen \in Seen
  BY DEF FlowTypeOK
<1>1. CASE ProbeStops
  BY <1>1, GoesUnseen DEF ProbeStops, Fails, Probed
<1>2. CASE ProbePasses
  BY <1>0, <1>2 DEF ProbePasses, Passes, Probed, Unseen, Flow, Seen
<1>3. CASE ProbeRejects
  BY <1>0, <1>3 DEF ProbeRejects, Passes, Probed, Unseen, Flow, Seen
<1> QED BY <1>1, <1>2, <1>3 DEF Probe

\* What the queue sees of an outcome, of another login, and of who asks.
QueueStep == Queue!LoginReturns(Worker) \/ Queue!CancelForUser(Job) \/ Queue!Stop(Worker)

LEMMA DecidedIsSeen == FlowIInv /\ Decided => QueueStep
<1> SUFFICES ASSUME FlowIInv, Decided PROVE QueueStep
  OBVIOUS
<1>1. /\ flow.step = "decide" /\ flow'.step = "done" /\ flow'.run = flow.run
      /\ flow'.result = flow.result /\ UNCHANGED <<asked, seen>>
  BY ToLeads DEF FlowIInv, Decided, In, Step
<1>2. flow.result = "cancelled" => asked \cap {"user", "shutdown"} # {}
  BY DEF FlowIInv, FlowTypeOK, ReasonsAreShown
<1>3. CASE flow.result = "cancelled"
  <2>1. Queue!ProbeCancelled(Worker)
    BY <1>1, <1>2, <1>3 DEF Queue!ProbeCancelled, Queue!At, Queue!Goto, Worker, Job,
       QueueRow, QueuePhase, QueueProcess, QueueUsed
  <2> QED BY <2>1 DEF QueueStep, Queue!LoginReturns
<1>4. CASE flow.result # "cancelled"
  <2>1. Queue!LoginSucceeds(Worker)
    BY <1>1, <1>4 DEF Queue!LoginSucceeds, Queue!At, Queue!Goto, Worker,
       QueueRow, QueuePhase, QueueProcess, QueueUsed
  <2> QED BY <2>1 DEF QueueStep, Queue!LoginReturns
<1> QED BY <1>3, <1>4

LEMMA AgainIsSeen ==
    ASSUME FlowIInv, NEW run \in {2, 3}, flow.run < run, flow.step = "decide", Again(run)
    PROVE  QueueStep
<1>1. /\ flow \in Flow /\ seen \in Seen
  BY DEF FlowIInv, FlowTypeOK
<1>2. /\ flow'.step = "launch" /\ flow'.run = run /\ UNCHANGED asked
      /\ seen'.logins = seen.logins + 1
  BY <1>1 DEF Again, Flow, Seen
<1>3. flow.run \in 1 .. 3 /\ run \in flow.run + 1 .. Queue!MaxRuns
  BY <1>1 DEF Flow, MaxRuns, Queue!MaxRuns
<1>4. Queue!LoginRetries(Worker)
  BY <1>2, <1>3 DEF Queue!LoginRetries, Queue!At, Worker, Job,
     QueueRow, QueuePhase, QueueProcess, QueueUsed
<1> QED BY <1>4 DEF QueueStep, Queue!LoginReturns

ProcessRecord(state, j, run, fires, waits) ==
    [state |-> state, phase |-> "login", job |-> j, run |-> run,
     aborted |-> fires, awaited |-> waits]

LEMMA ProcessFields ==
    ASSUME NEW s, NEW j, NEW run, NEW f, NEW w, NEW x
    PROVE  /\ [ProcessRecord(s, j, run, f, w) EXCEPT !.state = x] = ProcessRecord(x, j, run, f, w)
           /\ [ProcessRecord(s, j, run, f, w) EXCEPT !.aborted = x] = ProcessRecord(s, j, run, x, w)
           /\ [ProcessRecord(s, j, run, f, w) EXCEPT !.awaited = x] = ProcessRecord(s, j, run, f, x)
BY DEF ProcessRecord

\* The only process of the instance.
Only(p, r) == [w \in {p} |-> r]

LEMMA OnlyProcess ==
    ASSUME NEW p, NEW r, NEW q
    PROVE  /\ Only(p, r)[p] = r
           /\ [Only(p, r) EXCEPT ![p] = q] = Only(p, q)
BY DEF Only

\* What Stop does to it, field by field.
WithState(P, p, x) == [P EXCEPT ![p].state = x]
WithAborted(P, p, x) == [P EXCEPT ![p].aborted = x]
WithAwaited(P, p, x) == [P EXCEPT ![p].awaited = x]

LEMMA OnlyFields ==
    ASSUME NEW p, NEW s, NEW j, NEW run, NEW f, NEW w, NEW x
    PROVE  /\ WithState(Only(p, ProcessRecord(s, j, run, f, w)), p, x)
                 = Only(p, ProcessRecord(x, j, run, f, w))
           /\ WithAborted(Only(p, ProcessRecord(s, j, run, f, w)), p, x)
                 = Only(p, ProcessRecord(s, j, run, x, w))
           /\ WithAwaited(Only(p, ProcessRecord(s, j, run, f, w)), p, x)
                 = Only(p, ProcessRecord(s, j, run, f, x))
<1> DEFINE r == ProcessRecord(s, j, run, f, w)
<1>1. Only(p, r)[p] = r
  BY OnlyProcess
<1>2. WithState(Only(p, r), p, x) = Only(p, [r EXCEPT !.state = x])
  BY <1>1, OnlyProcess DEF WithState
<1>3. WithAborted(Only(p, r), p, x) = Only(p, [r EXCEPT !.aborted = x])
  BY <1>1, OnlyProcess DEF WithAborted
<1>4. WithAwaited(Only(p, r), p, x) = Only(p, [r EXCEPT !.awaited = x])
  BY <1>1, OnlyProcess DEF WithAwaited
<1>5. /\ [r EXCEPT !.state = x] = ProcessRecord(x, j, run, f, w)
      /\ [r EXCEPT !.aborted = x] = ProcessRecord(s, j, run, x, w)
      /\ [r EXCEPT !.awaited = x] = ProcessRecord(s, j, run, f, x)
  BY ProcessFields
<1> QED BY <1>2, <1>3, <1>4, <1>5

Stopped(P, p, t, g) == [P EXCEPT ![p].state = t, ![p].aborted = g, ![p].awaited = g]

LEMMA StopShape ==
    ASSUME NEW p, NEW s, NEW t, NEW j, NEW run, NEW f, NEW g
    PROVE  Stopped(Only(p, ProcessRecord(s, j, run, f, f)), p, t, g)
              = Only(p, ProcessRecord(t, j, run, g, g))
<1> DEFINE P == Only(p, ProcessRecord(s, j, run, f, f))
<1>1. Stopped(P, p, t, g) = WithAwaited(WithAborted(WithState(P, p, t), p, g), p, g)
  BY DEF Stopped, WithState, WithAborted, WithAwaited
<1> QED BY <1>1, OnlyFields

LEMMA OutsideIsSeen == FlowIInv /\ Outside => QueueStep \/ UNCHANGED Queue!vars
<1> SUFFICES ASSUME FlowIInv, Outside PROVE QueueStep \/ UNCHANGED Queue!vars
  OBVIOUS
<1>0. seen \in Seen
  BY DEF FlowIInv, FlowTypeOK
<1>1. CASE XAnswers
  BY <1>0, <1>1, UnseenIsStutter DEF XAnswers, Looking, Forms, Unseen, Seen
<1>2. CASE XReports
  BY <1>0, <1>2, UnseenIsStutter DEF XReports, Unseen, Seen
<1>3. CASE Ask
  <2>1. PICK who \in {"user", "shutdown"} \ asked : asked' = asked \cup {who}
    BY <1>3 DEF Ask
  <2>2. flow.step # "done" /\ UNCHANGED <<flow, seen>>
    BY <1>3 DEF Ask
  <2>3. CASE who = "user"
    <3>1. /\ QueueRow = [j \in {Job} |-> [status |-> "running", secret |-> TRUE, lock |-> "held"]]
          /\ QueueRow' = [j \in {Job} |-> [status |-> "cancelled", secret |-> FALSE, lock |-> "held"]]
      BY <2>1, <2>3 DEF QueueRow
    <3>2. QueueRow[Job] = [status |-> "running", secret |-> TRUE, lock |-> "held"]
      BY <3>1
    <3>3. QueueRow' = [QueueRow EXCEPT ![Job].status = "cancelled", ![Job].secret = FALSE]
      BY <3>1, <3>2
    <3>4. QueueProcess' = QueueProcess /\ QueueUsed' = QueueUsed
      BY <2>1, <2>2, <2>3 DEF QueuePhase, QueueProcess, QueueUsed
    <3>5. Queue!CancelForUser(Job)
      BY <2>2, <3>2, <3>3, <3>4 DEF Queue!CancelForUser, Queue!Open
    <3> QED BY <3>5 DEF QueueStep
  <2>4. CASE who = "shutdown"
    <3> DEFINE Process(state, fires, waits) ==
                 Only(Worker, ProcessRecord(state, Job, flow.run, fires, waits))
    <3>1. /\ "shutdown" \notin asked /\ "shutdown" \in asked'
          /\ QueuePhase = "login" /\ QueuePhase' = "login"
      BY <2>1, <2>2, <2>4 DEF QueuePhase
    <3>2. PICK yes, no : yes = TRUE /\ no = FALSE
      BY Zenon
    <3>3. QueueProcess = Process("up", no, no)
      <4>1. ("shutdown" \in asked) = FALSE
        BY <3>1
      <4>2. QueueProcess = [w \in {Worker} |-> [state |-> "up", phase |-> "login", job |-> Job,
                                               run |-> flow.run, aborted |-> FALSE, awaited |-> FALSE]]
        BY <3>1, <4>1 DEF QueueProcess
      <4> QED BY <3>2, <4>2 DEF ProcessRecord, Only
    <3>4. QueueProcess' = Process("draining", yes, yes)
      <4>1. flow'.run = flow.run /\ ("shutdown" \in asked') = TRUE
        BY <2>2, <3>1
      <4>2. QueueProcess' = [w \in {Worker} |-> [state |-> "draining", phase |-> "login", job |-> Job,
                                                run |-> flow'.run, aborted |-> TRUE, awaited |-> TRUE]]
        BY <3>1, <4>1 DEF QueueProcess
      <4> QED BY <3>2, <4>1, <4>2 DEF ProcessRecord, Only
    <3>5. QueueProcess' = Stopped(QueueProcess, Worker, "draining", yes)
      BY <3>3, <3>4, StopShape
    <3>6. /\ QueueUsed = [faults |-> 0, stalls |-> 0, stops |-> 0]
          /\ QueueUsed' = [faults |-> 0, stalls |-> 0, stops |-> 1]
          /\ QueueRow' = QueueRow
      BY <2>1, <2>4 DEF QueueUsed, QueueRow
    <3>7. QueueProcess[Worker].state = "up" /\ QueueProcess[Worker].phase = "login"
      BY <3>3, OnlyProcess DEF ProcessRecord
    <3>8. /\ QueueProcess[Worker].phase \in Queue!Processing
          /\ QueueProcess[Worker].phase \notin {"idle", "claim"}
      BY <3>7 DEF Queue!Processing
    <3>9. /\ (QueueProcess[Worker].phase \in Queue!Processing) = yes
           /\ (QueueProcess[Worker].phase \notin {"idle", "claim"}) = yes
      BY <3>2, <3>8, Zenon
    <3>10. QueueUsed.stops < 1 /\ QueueUsed' = [QueueUsed EXCEPT !.stops = QueueUsed.stops + 1]
      BY <3>6
    <3>11. Queue!Stop(Worker)
      BY <2>2, <3>5, <3>6, <3>7, <3>9, <3>10 DEF Queue!Stop, Stopped
    <3> QED BY <3>11 DEF QueueStep
  <2> QED BY <2>1, <2>3, <2>4
<1> QED BY <1>1, <1>2, <1>3 DEF Outside

\* runWithRetries: the steps between the forms are none to the queue, and the others are
\* a login that returns, as module LoginJobs has it.
THEOREM QueueStepImplemented == FlowSpec => ImplementsQueueStep
<1>1. FlowIInv /\ [FlowNext]_flowVars => [QueueStep]_(Queue!vars)
  <2> SUFFICES ASSUME FlowIInv, [FlowNext]_flowVars PROVE QueueStep \/ UNCHANGED Queue!vars
    OBVIOUS
  <2>1. CASE UNCHANGED flowVars
    BY <2>1 DEF flowVars, Queue!vars, QueueRow, QueuePhase, QueueProcess, QueueUsed
  <2>2. CASE TransientRetry
    BY <2>2, AgainIsSeen DEF TransientRetry, In
  <2>3. CASE ProxyFallback
    BY <2>3, AgainIsSeen DEF ProxyFallback, In
  <2>4. CASE Decided
    BY <2>4, DecidedIsSeen
  <2>5. CASE Outside
    BY <2>5, OutsideIsSeen
  <2>6. CASE \/ Probe \/ Opening \/ UsernameStep \/ SecretStep
             \/ Verdict /\ ~(TransientRetry \/ ProxyFallback \/ Decided)
    BY <2>6, ProbeUnseen, OpeningUnseen, UsernameUnseen, SecretUnseen, VerdictUnseen, UnseenIsStutter
       DEF FlowIInv
  <2> QED BY <2>1, <2>2, <2>3, <2>4, <2>5, <2>6 DEF FlowNext, LoginStep, Probe, Outside
<1> QED BY <1>1, FlowInvariant, PTL DEF FlowSpec, ImplementsQueueStep, QueueStep

\* XBrowserService and XLoginService share no state: what holds of each alone holds where
\* the other is looked at instead.
THEOREM EachIsAlone == BrowsersSpec => Spec /\ FlowSpec
<1>1. BrowsersInit => Init /\ FlowInit
  BY DEF BrowsersInit
<1>2. [BrowsersNext]_browserVars => [Next]_vars /\ [FlowNext]_flowVars
  <2>1. PoolPart(Next) => Next /\ UNCHANGED flowVars
    BY Zenon DEF PoolPart
  <2>2. LoginPart(FlowNext) => FlowNext /\ UNCHANGED vars
    BY Zenon DEF LoginPart
  <2>3. UNCHANGED browserVars => UNCHANGED vars /\ UNCHANGED flowVars
    BY Zenon DEF browserVars
  <2> QED BY <2>1, <2>2, <2>3 DEF BrowsersNext
<1> QED BY <1>1, <1>2, PTL DEF BrowsersSpec, Spec, FlowSpec
=============================================================================
