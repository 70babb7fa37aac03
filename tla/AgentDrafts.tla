----------------------------- MODULE AgentDrafts -----------------------------
(***************************************************************************)
(* The drafts that the agent has generated for an X account: users who     *)
(* edit, reject and approve them, and the PublishOrchestrator, which posts *)
(* to the same account by the same three steps: look for the text in the   *)
(* content memory, enqueue, remember.                                      *)
(*                                                                         *)
(* A request works on the entity it has read.  save() reads the row again, *)
(* and then writes those columns in which the entity differs from it.      *)
(* Two texts are similar here if they are the same; the post queue is the  *)
(* set of its idempotency keys (module ActionQueue does the rest); who     *)
(* generates drafts, and how many, is in module AgentScheduler.            *)
(***************************************************************************)
EXTENDS Integers, Sequences, FiniteSets, SequencesExt

CONSTANTS
    Requests,     \* HTTP requests of users in progress at a time
    Texts,
    NoText,
    MaxDrafts,    \* bound on the drafts generated
    MaxRecent,    \* MAX_RECENT
    MaxHours,     \* bound on the clock
    MaxRequests,  \* bound on the requests users make
    MaxFaults     \* bound on rejected awaits and crashes

Drafts == 1 .. MaxDrafts
NoDraft == 0

ASSUME AgentAssumption ==
    /\ NoText \notin Texts
    /\ {MaxRecent, MaxHours} \subseteq Nat \ {0}
    /\ {MaxDrafts, MaxRequests, MaxFaults} \subseteq Nat
    /\ IsFiniteSet(Requests)

VARIABLES
    draft,      \* the database: agent_drafts
    memory,     \* the database: the texts of content_memory, oldest first
    posts,      \* the database: idempotency keys in post_actions
    request,    \* the requests in progress
    hour,       \* the clock, in hour buckets
    used,       \* how many faults and requests there were (bounds)
    ghost       \* see Ghost

vars == <<draft, memory, posts, request, hour, used, ghost>>

-----------------------------------------------------------------------------
Hours == 1 .. MaxHours

\* forPost: account, hash of the text, hour of scheduledAt.
Key == [text : Texts, hour : Hours]
NoKey == [text |-> NoText, hour |-> 0]

Draft == [status : {"absent", "pending", "approved", "rejected"},
          text : Texts \cup {NoText},
          action : Key \cup {NoKey}]

Columns == {"status", "text", "action"}

Absent == [status |-> "absent", text |-> NoText, action |-> NoKey]

\* Where a request is.  Each but "idle" is an await:
\*   load      findOne of the draft, and of its config
\*   dedup     similarityReason
\*   enqueue   enqueuePost
\*   remember  ContentMemoryService.add
\*   save      save() of the draft: its SELECT
\*   update    its UPDATE
Request == [op : {"approve", "reject", "edit", "editAndApprove", "publish"},
            phase : {"idle", "load", "dedup", "enqueue", "remember", "save", "update"},
            id : Drafts \cup {NoDraft},
            entity : Draft,              \* the draft as it was read and changed
            columns : SUBSET Columns,    \* what the UPDATE sets
            text : Texts \cup {NoText}]  \* the text the user sends

NoRequest == [op |-> "publish", phase |-> "idle", id |-> NoDraft,
              entity |-> Absent, columns |-> {}, text |-> NoText]

\* fresh: the requests whose draft no request they conflict with has updated since they
\* read it.  torn: the drafts updated by one that was not fresh.  posted: the drafts that
\* a post was queued for.
Ghost == [fresh : SUBSET Requests, torn : SUBSET Drafts, posted : SUBSET Drafts]

TypeOK ==
    /\ draft \in [Drafts -> Draft]
    /\ memory \in Seq(Texts)
    /\ posts \subseteq Key
    /\ request \in [Requests -> Request]
    /\ hour \in Hours
    /\ used \in [faults : 0 .. MaxFaults, requests : 0 .. MaxRequests]
    /\ ghost \in Ghost

Init ==
    /\ draft = [d \in Drafts |-> Absent]
    /\ memory = <<>>
    /\ posts = {}
    /\ request = [r \in Requests |-> NoRequest]
    /\ hour = 1
    /\ used = [faults |-> 0, requests |-> 0]
    /\ ghost = [fresh |-> {}, torn |-> {}, posted |-> {}]

-----------------------------------------------------------------------------
(* Helpers.                                                                *)

At(r, phase) == request[r].phase = phase

Goto(r, phase) == request' = [request EXCEPT ![r].phase = phase]

\* The request is answered, well or with an error.
Answer(r) == request' = [request EXCEPT ![r] = NoRequest]

\* similarityReason: among the MaxRecent youngest rows.
Remembered(text) ==
    \E i \in DOMAIN memory : i > Len(memory) - MaxRecent /\ memory[i] = text

-----------------------------------------------------------------------------
(* AgentDraftService and PublishOrchestratorService.                       *)

\* A request comes in.
Begin(r) ==
    /\ At(r, "idle")
    /\ used.requests < MaxRequests
    /\ used' = [used EXCEPT !.requests = @ + 1]
    /\ \/ \E d \in Drafts, text \in Texts,
             op \in {"approve", "reject", "edit", "editAndApprove"} :
            /\ draft[d].status # "absent"
            /\ request' = [request EXCEPT ![r] =
                   [NoRequest EXCEPT !.op = op, !.phase = "load", !.id = d,
                       !.text = IF op \in {"edit", "editAndApprove"} THEN text ELSE NoText]]
       \/ \E text \in Texts :
            request' = [request EXCEPT ![r] =
                   [NoRequest EXCEPT !.op = "publish", !.phase = "dedup",
                       !.entity.text = text]]
    /\ UNCHANGED <<draft, memory, posts, ghost, hour>>

\* Mutant of MayChange: what was approved can still be.
MayChangeApproved(d) == draft[d].status \in {"pending", "approved"}

\* approve, reject and edit refuse a draft that is not pending when they read it.
MayChange(d) == draft[d].status = "pending"

\* The draft is read and, if it is pending, dealt with as it is now.
Load(r) ==
    /\ At(r, "load")
    /\ LET d == request[r].id
       IN  IF MayChange(d)
           THEN /\ request' = [request EXCEPT
                     ![r].entity = CASE request[r].op = "approve" -> draft[d]
                                     [] request[r].op = "reject" ->
                                            [draft[d] EXCEPT !.status = "rejected"]
                                     [] OTHER -> [draft[d] EXCEPT !.text = request[r].text],
                     ![r].phase = IF request[r].op = "approve" THEN "dedup" ELSE "save"]
                /\ ghost' = [ghost EXCEPT !.fresh = @ \cup {r}]
           ELSE Answer(r) /\ UNCHANGED ghost
    /\ UNCHANGED <<draft, memory, posts, hour, used>>

Dedup(r) ==
    /\ At(r, "dedup")
    /\ IF Remembered(request[r].entity.text) THEN Answer(r) ELSE Goto(r, "enqueue")
    /\ UNCHANGED <<draft, memory, posts, ghost, hour, used>>

Approved(entity, key) == [entity EXCEPT !.status = "approved", !.action = key]

\* enqueuePost for now or later: a row, unless there is one with its key.
EnqueuePost(r) ==
    /\ At(r, "enqueue")
    /\ \E h \in hour .. MaxHours :
         LET key == [text |-> request[r].entity.text, hour |-> h]
         IN  /\ posts' = posts \cup {key}
             /\ request' = [request EXCEPT ![r].phase = "remember",
                                           ![r].entity = Approved(@, key)]
    /\ ghost' = [ghost EXCEPT !.posted = @ \cup ({request[r].id} \ {NoDraft})]
    /\ UNCHANGED <<draft, memory, hour, used>>

\* Mutant of Remember: nothing is.
RememberNothing(r) ==
    /\ At(r, "remember")
    /\ IF request[r].id = NoDraft THEN Answer(r) ELSE Goto(r, "save")
    /\ UNCHANGED <<draft, memory, posts, ghost, hour, used>>

Remember(r) ==
    /\ At(r, "remember")
    /\ memory' = Append(memory, request[r].entity.text)
    /\ IF request[r].id = NoDraft THEN Answer(r) ELSE Goto(r, "save")
    /\ UNCHANGED <<draft, posts, ghost, hour, used>>

\* The columns in which two drafts differ.
Differing(old, new) == {c \in Columns : new[c] # old[c]}

\* TypeORM reads the row, to find out what there is to write.
Save(r) ==
    /\ At(r, "save")
    /\ request' = [request EXCEPT
           ![r].phase = "update",
           ![r].columns = Differing(draft[request[r].id], request[r].entity)]
    /\ UNCHANGED <<draft, memory, posts, ghost, hour, used>>

\* The row after an UPDATE of these columns.
Written(old, new, columns) ==
    [status |-> IF "status" \in columns THEN new.status ELSE old.status,
     text   |-> IF "text" \in columns THEN new.text ELSE old.text,
     action |-> IF "action" \in columns THEN new.action ELSE old.action]

\* Two requests that write one draft conflict, unless both approve it.
Conflict(r, q) ==
    /\ request[r].id = request[q].id
    /\ request[r].op # "approve" \/ request[q].op # "approve"

\* The ghost of an UPDATE, if there is anything to write.
Overtake(r) ==
    IF request[r].columns = {} THEN ghost
    ELSE [ghost EXCEPT !.fresh = {q \in @ : ~Conflict(r, q)},
                       !.torn = IF r \in ghost.fresh THEN @ ELSE @ \cup {request[r].id}]

\* What differed is written, whatever the row is by now; editAndApprove approves what it
\* then reads.
Update(r) ==
    /\ At(r, "update")
    /\ draft' = [draft EXCEPT ![request[r].id] =
                    Written(@, request[r].entity, request[r].columns)]
    /\ ghost' = Overtake(r)
    /\ IF request[r].op = "editAndApprove"
       THEN request' = [request EXCEPT ![r] =
                            [NoRequest EXCEPT !.op = "approve", !.phase = "load", !.id = request[r].id]]
       ELSE Answer(r)
    /\ UNCHANGED <<memory, posts, hour, used>>

\* An await rejects, or the process ends: what is written stays.
RequestFails(r) ==
    /\ ~At(r, "idle")
    /\ used.faults < MaxFaults
    /\ used' = [used EXCEPT !.faults = @ + 1]
    /\ Answer(r)
    /\ UNCHANGED <<draft, memory, posts, ghost, hour>>

-----------------------------------------------------------------------------
\* create() and createMany(), for the pipeline of the agent.
CreateDraft ==
    /\ \E d \in Drafts, text \in Texts :
         /\ draft[d].status = "absent"
         /\ draft' = [draft EXCEPT ![d] = [Absent EXCEPT !.status = "pending", !.text = text]]
    /\ UNCHANGED <<memory, posts, request, ghost, hour, used>>

HourPasses ==
    /\ hour < MaxHours
    /\ hour' = hour + 1
    /\ UNCHANGED <<draft, memory, posts, request, ghost, used>>

-----------------------------------------------------------------------------
RequestStep(r) ==
    \/ Begin(r) \/ Load(r) \/ Dedup(r) \/ EnqueuePost(r) \/ Remember(r)
    \/ Save(r) \/ Update(r) \/ RequestFails(r)

Next ==
    \/ \E r \in Requests : RequestStep(r)
    \/ CreateDraft
    \/ HourPasses

Spec == Init /\ [][Next]_vars

-----------------------------------------------------------------------------
(* Properties.                                                             *)

\* Whatever requests overlap, a draft is approved only if a post was queued for it, and it
\* names no post but one that was.
NamesAPost ==
    \A d \in Drafts :
        /\ draft[d].status = "approved" => d \in ghost.posted
        /\ draft[d].action = NoKey \/ draft[d].action \in posts

\* An approved draft names the queued post that has its text, however many requests
\* approve it at once, and whatever others read, edit and reject it, or die, meanwhile;
\* unless an edit or rejection and another request have both written it, the later one
\* without having seen the earlier (ApprovedHasItsText says so of that case too).
ApprovedIsPosted ==
    \A d \in Drafts \ ghost.torn :
        draft[d].status = "approved" =>
            draft[d].action \in posts /\ draft[d].action.text = draft[d].text

\* A draft whose post is queued says so as soon as nobody works on it, with the same
\* exception, or if a request failed before its save.
PostedIsApproved ==
    \A d \in ghost.posted :
        \/ draft[d].status = "approved"
        \/ d \in ghost.torn
        \/ used.faults > 0
        \/ \E r \in Requests : request[r].id = d

DraftsTellTheTruth == NamesAPost /\ ApprovedIsPosted /\ PostedIsApproved

\* What the drafts page shows of an approved draft is what is posted.  The code does not
\* keep this: see README.md, "On record".
ApprovedHasItsText ==
    \A d \in Drafts : draft[d].status = "approved" => draft[d].action.text = draft[d].text

\* The content memory keeps a text from being posted again, in this hour or another:
\* only requests that had looked before the first was remembered get through, one for
\* each request in progress, and one for each that failed in between.
PostsAreFew ==
    Len(memory) <= MaxRecent =>
        \A t \in Texts :
            Cardinality({key \in posts : key.text = t}) <= Cardinality(Requests) + used.faults
=============================================================================
