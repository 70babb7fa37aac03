------------------------------ MODULE ReadPage ------------------------------
(***************************************************************************)
(* A cursor-paged read of a surface that X renders: paginate() of          *)
(* read-page.utils.ts.  A call opens a new page, scrolls to the depth that *)
(* the cursor remembers, and collects the items after the cursor's key     *)
(* that the caller has not had recently; its answer carries the cursor of  *)
(* the next call.                                                          *)
(*                                                                         *)
(* What X renders is external: at scroll depth d the DOM holds Window      *)
(* items from position d + 1 on, and between two calls X may put a new     *)
(* item on top, move one or drop one.                                      *)
(***************************************************************************)
EXTENDS Integers, Sequences, SequencesExt

CONSTANTS
    Readers,        \* the callers: each makes one call at a time
    Keys,           \* identities of items: tweet URLs or handles
    NoKey,
    FirstTimeline,  \* what X shows at first
    Window,         \* how many items of it the DOM holds at a time
    SeenCap,        \* SEEN_LIST_CAP
    MaxIterations,  \* MAX_SCROLL_ITERATIONS
    MaxStall,       \* MAX_STALL
    MaxChanges      \* bound on the changes of the timeline

ASSUME ReadAssumption ==
    /\ FirstTimeline \in Seq(Keys)
    /\ NoKey \notin Keys
    /\ {Window, SeenCap, MaxIterations, MaxStall} \subseteq Nat \ {0}
    /\ MaxChanges \in Nat

VARIABLES
    timeline,  \* external: what X shows
    cursor,    \* what each caller echoes in its next call
    call,      \* the local variables of the call in progress
    changes    \* how often the timeline has changed (bound)

readVars == <<timeline, cursor, call, changes>>

-----------------------------------------------------------------------------
Cursor == [key : Keys \cup {NoKey}, depth : Nat, seen : Seq(Keys)]

\* No cursor: the call starts at the top.
Start == [key |-> NoKey, depth |-> 0, seen |-> <<>>]

\* limit is 0 while no call is in progress.  skip: needSkipPast.  last: lastSize.
Call == [limit : Nat,
         skip : Keys \cup {NoKey},
         depth : Nat,
         collected : Seq(Keys),
         iter : Nat,
         stall : Nat,
         last : Nat \cup {-1},
         done : BOOLEAN]

NoCall == [limit |-> 0, skip |-> NoKey, depth |-> 0, collected |-> <<>>,
           iter |-> 0, stall |-> 0, last |-> -1, done |-> FALSE]

ReadTypeOK ==
    /\ timeline \in Seq(Keys)
    /\ cursor \in [Readers -> Cursor]
    /\ call \in [Readers -> Call]
    /\ changes \in 0 .. MaxChanges

ReadInit ==
    /\ timeline = FirstTimeline
    /\ cursor = [r \in Readers |-> Start]
    /\ call = [r \in Readers |-> NoCall]
    /\ changes = 0

-----------------------------------------------------------------------------
(* Helpers.                                                                *)

\* What extract() finds at scroll depth d; at the end, scrolling moves nothing.
Rendered(d) ==
    LET end == IF Len(timeline) > Window THEN Len(timeline) - Window ELSE 0
        top == IF d < end THEN d ELSE end
    IN  SubSeq(timeline, top + 1, IF end = 0 THEN Len(timeline) ELSE top + Window)

\* The items after key, or all of them when there is no key to skip past.
After(items, key) ==
    IF key = NoKey THEN items
    ELSE SubSeq(items, 1 + SelectInSeq(items, LAMBDA k : k = key), Len(items))

\* The loop passes over an item: the page is full, or it or the cursor has the item.
Skips(r, got, k) ==
    \/ Len(got) = call[r].limit
    \/ Contains(got, k)
    \/ Contains(cursor[r].seen, k)

\* The loop over the candidates of a render; got[i] is what the call has after i of them.
Collect(r, candidates) ==
    LET got[i \in 0 .. Len(candidates)] ==
            IF i = 0 THEN call[r].collected
            ELSE IF Skips(r, got[i - 1], candidates[i]) THEN got[i - 1]
            ELSE Append(got[i - 1], candidates[i])
    IN  got[Len(candidates)]

\* slice(-SEEN_LIST_CAP)
LastSeen(s) == IF Len(s) <= SeenCap THEN s ELSE SubSeq(s, 1 + Len(s) - SeenCap, Len(s))

\* Mutants of NextCursor: it keeps the keys of this page alone, or leaves it to them
\* to tell what has been read.
NextCursorSeenOnly(r, items) ==
    [key |-> NoKey, depth |-> 0, seen |-> LastSeen(cursor[r].seen \o items)]
NextCursorOfPage(r, items) ==
    [key |-> Last(items), depth |-> call[r].depth, seen |-> LastSeen(items)]

\* encodeCursor, after a full page.
NextCursor(r, items) ==
    [key |-> Last(items),
     depth |-> call[r].depth,
     seen |-> LastSeen(cursor[r].seen \o items)]

\* A page that is not full has no nextCursor.
More(r) == Len(call[r].collected) = call[r].limit

-----------------------------------------------------------------------------
(* Actions.                                                                *)

\* A caller asks for limit items after its cursor: a new page is opened, and
\* scrolled to the depth where the last one ended.
BeginRead(r, limit) ==
    /\ call[r] = NoCall
    /\ call' = [call EXCEPT ![r] = [NoCall EXCEPT !.limit = limit,
                                                  !.skip = cursor[r].key,
                                                  !.depth = cursor[r].depth]]
    /\ UNCHANGED <<timeline, cursor, changes>>

\* One iteration of the loop: extract, take what is new, and scroll on unless the
\* page is full, nothing new has come MaxStall times, or it was the last iteration.
Scroll(r) ==
    /\ call[r].limit > 0 /\ ~call[r].done
    /\ LET c == call[r]
           all == Rendered(c.depth)
           skip == IF c.skip # NoKey /\ Contains(all, c.skip) THEN NoKey ELSE c.skip
           got == Collect(r, IF skip = NoKey THEN After(all, c.skip) ELSE <<>>)
           full == Len(got) = c.limit
           stall == IF Len(got) = c.last /\ skip = NoKey THEN c.stall + 1 ELSE 0
           stop == full \/ stall >= MaxStall
       IN  call' = [call EXCEPT
                     ![r] = [c EXCEPT !.skip = skip,
                                      !.collected = got,
                                      !.iter = @ + 1,
                                      !.stall = IF full THEN @ ELSE stall,
                                      !.last = IF stop THEN @ ELSE Len(got),
                                      !.depth = IF stop THEN @ ELSE @ + 1,
                                      !.done = stop \/ c.iter + 1 = MaxIterations]]
    /\ UNCHANGED <<timeline, cursor, changes>>

\* The answer reaches the caller, who keeps its cursor for the next call.
EndRead(r) ==
    /\ call[r].done
    /\ cursor' = [cursor EXCEPT ![r] = IF More(r) THEN NextCursor(r, call[r].collected)
                                                  ELSE Start]
    /\ call' = [call EXCEPT ![r] = NoCall]
    /\ UNCHANGED <<timeline, changes>>

\* External: X puts an item on top, moves one there, or drops one.
TimelineChanges ==
    /\ changes < MaxChanges
    /\ changes' = changes + 1
    /\ \/ \E k \in Keys \ Range(timeline) : timeline' = <<k>> \o timeline
       \/ \E i \in DOMAIN timeline :
            LET others == RemoveAt(timeline, i)
            IN  timeline' \in {<<timeline[i]>> \o others, others} \ {timeline}
    /\ UNCHANGED <<cursor, call>>
=============================================================================
