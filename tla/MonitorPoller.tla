---------------------------- MODULE MonitorPoller ----------------------------
(***************************************************************************)
(* Monitors of a handle: the pollers of the backend processes, of which    *)
(* one at a time is to look for a new tweet and tell the webhook; users    *)
(* who create, change, disable and delete the monitor; the handle's owner, *)
(* who posts and deletes tweets (external).                                *)
(*                                                                         *)
(* A unique index keeps one monitor per account and handle.  Monitors of   *)
(* other handles only make a cycle longer.  Of a row the model keeps what  *)
(* decides about deliveries; lastCheckAt, url and secret are left out, and *)
(* so is webhook_deliveries, which nothing decides on.                     *)
(***************************************************************************)
EXTENDS LeaderLock, FiniteSets, FiniteSetsExt

CONSTANTS
    EventTypes,   \* whether eventTypes may include 'tweet.new': TRUE, FALSE or both
    MaxMonitors,  \* bound on the monitors users create
    MaxTweets,    \* bound on the tweets of the handle
    MaxTroubles   \* bound on tweets deleted, create() or rotateSecret() on an existing
                  \* monitor, rejected awaits, crashes and locks lost, together

ASSUME MonitorAssumption ==
    /\ EventTypes \subseteq BOOLEAN
    /\ {MaxMonitors, MaxTweets, MaxTroubles} \subseteq Nat

Monitors == 1 .. MaxMonitors
NoMonitor == 0

\* Tweets in the order they are posted.
Tweets == 1 .. MaxTweets
NoTweet == 0

VARIABLES
    tweets,   \* external: the tweets of the handle
    monitor,  \* the database: the row of each monitor
    poller,   \* poll() of each process
    request,  \* a user's create() or rotateSecret(), between its read and its write
    used,     \* how many troubles, monitors and tweets there were (bounds), and how
              \* often a tweet was deleted or an older lastTweetUrl put back
    sent      \* ghost: what the webhooks received, and how much of it late

monitorVars == <<tweets, monitor, poller, request, used, sent>>
vars == <<lockVars, monitorVars>>

-----------------------------------------------------------------------------
\* seen: lastTweetUrl.  absent: not created yet, or deleted.
Row == [status : {"absent", "enabled", "disabled"},
        seen : Tweets \cup {NoTweet},
        event : BOOLEAN]  \* eventTypes includes 'tweet.new'

Absent == [status |-> "absent", seen |-> NoTweet, event |-> FALSE]

\* Where poll() is.  Each but "idle" is an await:
\*   list     findEnabled
\*   read     getUserTweets
\*   see      updateLastSeen
\*   deliver  WebhookDeliveryService.deliver
\*   record   WebhookDeliveryHistoryService.record
\*   release  pg_advisory_unlock
\* A process that is "down" has ended.
Phase == {"idle", "list", "read", "see", "deliver", "record", "release", "down"}

Poller == [phase : Phase,
           monitor : Monitors \cup {NoMonitor},  \* the one it checks, and
           row : Row,                            \* its row when it was listed
           tweet : Tweets \cup {NoTweet}]        \* latestTweet

Idle == [phase |-> "idle", monitor |-> NoMonitor, row |-> Absent, tweet |-> NoTweet]

NoRequest == [monitor |-> NoMonitor, row |-> Absent]

TypeOK ==
    /\ LockTypeOK
    /\ tweets \subseteq Tweets
    /\ monitor \in [Monitors -> Row]
    /\ poller \in [Processes -> Poller]
    /\ request \in [monitor : Monitors \cup {NoMonitor}, row : Row]
    /\ used \in [troubles : 0 .. MaxTroubles, again : 0 .. 2 * MaxTroubles,
                 created : 0 .. MaxMonitors, posted : 0 .. MaxTweets]
    /\ sent \in [received : [Tweets -> Nat], late : [Monitors -> Nat]]

Init ==
    /\ LockInit
    /\ tweets = {}
    /\ monitor = [m \in Monitors |-> Absent]
    /\ poller = [p \in Processes |-> Idle]
    /\ request = NoRequest
    /\ used = [troubles |-> 0, again |-> 0, created |-> 0, posted |-> 0]
    /\ sent = [received |-> [t \in Tweets |-> 0], late |-> [m \in Monitors |-> 0]]

-----------------------------------------------------------------------------
(* Helpers.                                                                *)

At(p, phase) == poller[p].phase = phase

Goto(p, phase) == poller' = [poller EXCEPT ![p].phase = phase]

\* checkMonitor is over, and with it the cycle.
Leave(p) == poller' = [poller EXCEPT ![p] = [Idle EXCEPT !.phase = "release"]]

\* poll() has the lock, or believes so.
Leads(p) == poller[p].phase \notin {"idle", "down"}

Newest == IF tweets = {} THEN NoTweet ELSE Max(tweets)

Present == {m \in Monitors : monitor[m].status # "absent"}
Enabled == {m \in Monitors : monitor[m].status = "enabled"}

\* The bound on troubles leaves room for another one.
Room == used.troubles + lost < MaxTroubles

Trouble ==
    /\ Room
    /\ used' = [used EXCEPT !.troubles = @ + 1]

-----------------------------------------------------------------------------
(* The owner of the handle (external).                                     *)

Post ==
    /\ used.posted < MaxTweets
    /\ used' = [used EXCEPT !.posted = @ + 1]
    /\ tweets' = tweets \cup {used.posted + 1}
    /\ UNCHANGED <<lockVars, monitor, poller, request, sent>>

DeleteTweet ==
    /\ Room
    /\ used' = [used EXCEPT !.troubles = @ + 1, !.again = @ + 1]
    /\ \E t \in tweets : tweets' = tweets \ {t}
    /\ UNCHANGED <<lockVars, monitor, poller, request, sent>>

-----------------------------------------------------------------------------
(* Users.                                                                  *)

\* create() of a monitor that does not exist: its insert.
Create ==
    /\ Present = {}
    /\ used.created < MaxMonitors
    /\ used' = [used EXCEPT !.created = @ + 1]
    /\ \E event \in EventTypes :
         monitor' = [monitor EXCEPT ![used.created + 1] =
                        [status |-> "enabled", seen |-> NoTweet, event |-> event]]
    /\ UNCHANGED <<lockVars, tweets, poller, request, sent>>

\* create() or rotateSecret() finds a monitor.
FindExisting ==
    /\ request = NoRequest
    /\ Trouble
    /\ \E m \in Present : request' = [monitor |-> m, row |-> monitor[m]]
    /\ UNCHANGED <<lockVars, tweets, monitor, poller, sent>>

\* It saves the entity as it was found, but for the status (create() enables) and the
\* events: save() writes every column that differs from the row, and inserts the row
\* again if it is gone, unless there is a new one for the handle.
SaveExisting ==
    /\ request # NoRequest
    /\ LET m == request.monitor IN
       IF Present \subseteq {m}
       THEN /\ \E status \in {request.row.status, "enabled"}, event \in EventTypes :
                 monitor' = [monitor EXCEPT ![m] =
                                [status |-> status, seen |-> request.row.seen, event |-> event]]
            /\ used' = [used EXCEPT !.again = IF m \in Present /\ request.row.seen = monitor[m].seen
                                              THEN @ ELSE @ + 1]
            /\ sent' = [sent EXCEPT !.late[m] = 0]
       ELSE UNCHANGED <<monitor, used, sent>>
    /\ request' = NoRequest
    /\ UNCHANGED <<lockVars, tweets, poller>>

Disable ==
    /\ \E m \in Enabled : monitor' = [monitor EXCEPT ![m].status = "disabled"]
    /\ UNCHANGED <<lockVars, tweets, poller, request, used, sent>>

\* delete(), or the cascade of a deleted account.
Delete ==
    /\ \E m \in Present : monitor' = [monitor EXCEPT ![m] = Absent]
    /\ UNCHANGED <<lockVars, tweets, poller, request, used, sent>>

-----------------------------------------------------------------------------
(* poll().                                                                 *)

\* The timer fires while running is false, and this process becomes the leader, or
\* another one is.
Lead(p) ==
    /\ At(p, "idle")
    /\ TakeLock(p)
    /\ Goto(p, "list")
    /\ UNCHANGED <<tweets, monitor, request, used, sent>>

\* Mutant of Skip: a query that fails counts as the lock.
SkipIsLead(p) ==
    /\ At(p, "idle")
    /\ LockRefused(p)
    /\ Goto(p, "list")
    /\ UNCHANGED <<tweets, monitor, request, used, sent>>

Skip(p) ==
    /\ At(p, "idle")
    /\ LockRefused(p)
    /\ UNCHANGED monitorVars

FindEnabled(p) ==
    /\ At(p, "list")
    /\ \/ \E m \in Enabled :
            poller' = [poller EXCEPT ![p] = [phase |-> "read", monitor |-> m,
                                             row |-> monitor[m], tweet |-> NoTweet]]
       \/ Enabled = {} /\ Leave(p)
    /\ UNCHANGED <<lockVars, tweets, monitor, request, used, sent>>

\* latestUrl is another one than the row had when it was listed.
IsNew(p) == Newest # NoTweet /\ Newest # poller[p].row.seen

\* checkMonitor: what getUserTweets(handle, 1) finds.
ReadTweets(p) ==
    /\ At(p, "read")
    /\ IF IsNew(p)
       THEN poller' = [poller EXCEPT ![p].phase = "see", ![p].tweet = Newest]
       ELSE Leave(p)
    /\ UNCHANGED <<lockVars, tweets, monitor, request, used, sent>>

\* Mutant of UpdateLastSeen: updateLastCheck in its place.
UpdateLastCheck(p) ==
    /\ At(p, "see")
    /\ IF poller[p].row.event THEN Goto(p, "deliver") ELSE Leave(p)
    /\ UNCHANGED <<lockVars, tweets, monitor, request, used, sent>>

\* By id; nothing happens to a row that is gone.
UpdateLastSeen(p) ==
    /\ At(p, "see")
    /\ monitor' = [m \in Monitors |->
                      IF m = poller[p].monitor /\ m \in Present
                      THEN [monitor[m] EXCEPT !.seen = poller[p].tweet] ELSE monitor[m]]
    /\ IF poller[p].row.event THEN Goto(p, "deliver") ELSE Leave(p)
    /\ UNCHANGED <<lockVars, tweets, request, used, sent>>

\* One POST, which arrives or not; it never rejects, and is not repeated.
Deliver(p) ==
    /\ At(p, "deliver")
    /\ LET m == poller[p].monitor
           t == poller[p].tweet
       IN  \E arrives \in {0, 1} :
             sent' = [sent EXCEPT !.received[t] = @ + arrives,
                                  !.late[m] = IF m \in Enabled THEN @ ELSE @ + arrives]
    /\ Goto(p, "record")
    /\ UNCHANGED <<lockVars, tweets, monitor, request, used>>

\* The row of webhook_deliveries is written, or refused by the foreign key of a
\* monitor that is gone.
Record(p) ==
    /\ At(p, "record")
    /\ Leave(p)
    /\ UNCHANGED <<lockVars, tweets, monitor, request, used, sent>>

\* Mutant of Release: running stays true.
ReleaseStillRunning(p) ==
    /\ At(p, "release")
    /\ GiveBack(p)
    /\ UNCHANGED monitorVars

Release(p) ==
    /\ At(p, "release")
    /\ GiveBack(p)
    /\ poller' = [poller EXCEPT ![p] = Idle]
    /\ UNCHANGED <<tweets, monitor, request, used, sent>>

-----------------------------------------------------------------------------
(* Failures.                                                               *)

\* A query or getUserTweets rejects: the next monitor's turn.  (deliver does not
\* reject.)
CheckRejects(p) ==
    /\ poller[p].phase \in {"read", "see", "record"}
    /\ Trouble
    /\ Leave(p)
    /\ UNCHANGED <<lockVars, tweets, monitor, request, sent>>

\* The process ends: a crash, a shutdown that waits for no poll, or findEnabled that
\* rejects a poll() which nobody catches.
Crash(p) ==
    /\ ~At(p, "down")
    /\ Trouble
    /\ LocksEnd(p)
    /\ poller' = [poller EXCEPT ![p] = [Idle EXCEPT !.phase = "down"]]
    /\ UNCHANGED <<tweets, monitor, request, sent>>

Restart(p) ==
    /\ At(p, "down")
    /\ Goto(p, "idle")
    /\ UNCHANGED <<lockVars, tweets, monitor, request, used, sent>>

IdleSessionCloses(p) ==
    /\ Leads(p) => Room
    /\ \E s \in Sessions : SessionCloses(p, s, Leads(p))
    /\ UNCHANGED monitorVars

-----------------------------------------------------------------------------
OwnerStep == Post \/ DeleteTweet

UserStep == Create \/ FindExisting \/ SaveExisting \/ Disable \/ Delete

\* What the event loop of a process gets round to in a cycle.
CycleStep(p) ==
    \/ FindEnabled(p) \/ ReadTweets(p) \/ UpdateLastSeen(p)
    \/ Deliver(p) \/ Record(p) \/ Release(p)

FaultStep(p) == CheckRejects(p) \/ Crash(p)

Next ==
    \/ OwnerStep
    \/ UserStep
    \/ \E p \in Processes : \/ Lead(p) \/ Skip(p) \/ CycleStep(p)
                            \/ FaultStep(p) \/ Restart(p) \/ IdleSessionCloses(p)

Spec == Init /\ [][Next]_vars

-----------------------------------------------------------------------------
(* Properties.                                                             *)

\* A tweet is announced once to each monitor, though many cycles see it; again only
\* after two pollers led at once, a save put back an older lastTweetUrl, or its
\* successor was deleted.
AnnouncedOnce ==
    \A t \in Tweets :
        sent.received[t] <= used.created + lost + used.again

\* A user who deletes or disables a monitor hears of it at most once more for each
\* poller that had listed it.
SilentSoon == \A m \in Monitors : sent.late[m] <= 1 + lost

DeliveriesAccounted == AnnouncedOnce /\ SilentSoon
=============================================================================
