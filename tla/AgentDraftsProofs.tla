-------------------------- MODULE AgentDraftsProofs --------------------------
(***************************************************************************)
(* For any number of requests, drafts, texts and failures: an approved     *)
(* draft names a queued post that has its text, and a posted draft says    *)
(* so when nobody works on it, unless requests that conflict have both     *)
(* written it; and a text that is remembered is posted no more often than  *)
(* there were requests which had looked before.                            *)
(*                                                                         *)
(* The first two need what is true of a draft that is not torn: a fresh    *)
(* edit or rejection finds the row as it read it, and a fresh approval     *)
(* finds the text it has posted, in a row that is still pending, or that   *)
(* another approval has made true.                                         *)
(***************************************************************************)
EXTENDS AgentDrafts, FiniteSetTheorems, TLAPS

\* The draft was read, and is not answered for yet.
Working == {"dedup", "enqueue", "remember", "save", "update"}

\* What each phase knows of the request.
Shaped(r) ==
    /\ At(r, "idle") => request[r].id = NoDraft
    /\ At(r, "load") => request[r].op # "publish" /\ request[r].id \in Drafts
    /\ At(r, "load") /\ request[r].op \in {"edit", "editAndApprove"} => request[r].text \in Texts
    /\ request[r].phase \in {"save", "update"} => request[r].id \in Drafts
    /\ request[r].phase \in Working => request[r].entity.text \in Texts
    /\ request[r].phase \in Working /\ request[r].id \in Drafts /\ request[r].op # "approve"
         => request[r].phase \in {"save", "update"}
    /\ request[r].phase \in {"remember", "save", "update"} /\ request[r].op = "approve"
         => request[r].entity.status = "approved"
    /\ request[r].id \in Drafts => draft[request[r].id].status # "absent"
    /\ request[r].phase \in Working /\ request[r].id \in Drafts
         => request[r].entity.status # "absent"

Shape ==
    /\ \A r \in Requests : Shaped(r)
    /\ \A d \in Drafts : draft[d].status # "absent" => draft[d].text \in Texts

\* An approved draft or entity names the post that has its text.
Truthful(entity) ==
    entity.status = "approved" => entity.action \in posts /\ entity.action.text = entity.text

\* What is named is queued.
Named(entity) == entity.action = NoKey \/ entity.action \in posts

TrueEntity(r) ==
    /\ Truthful(request[r].entity) /\ Named(request[r].entity)
    /\ request[r].entity.status = "approved" /\ request[r].id # NoDraft
         => request[r].id \in ghost.posted

AllTruthful ==
    /\ NamesAPost
    /\ \A r \in Requests : TrueEntity(r)

WorksOn(r, d) == request[r].id = d /\ request[r].phase \in Working

\* It has posted the draft and is to save so.
WillTell(r, d) ==
    /\ request[r].id = d
    /\ request[r].phase \in {"remember", "save", "update"}
    /\ request[r].entity.status = "approved"

\* The UPDATE of a fresh edit or rejection makes the row its entity.
EditSound(r, d) ==
    WorksOn(r, d) /\ r \in ghost.fresh /\ request[r].op # "approve" =>
        /\ draft[d].status = "pending"
        /\ request[r].entity.action = NoKey
        /\ request[r].entity.status \in {"pending", "rejected"}
        /\ At(r, "update") => request[r].columns = Differing(draft[d], request[r].entity)

\* That of a fresh approval makes it true, or leaves it so.
ApproveSound(r, d) ==
    WorksOn(r, d) /\ r \in ghost.fresh /\ request[r].op = "approve" =>
        /\ draft[d].status \in {"pending", "approved"}
        /\ draft[d].text = request[r].entity.text
        /\ At(r, "update") =>
             {"status", "action"} \subseteq request[r].columns \/ draft[d].status = "approved"

\* A save that has nothing to write has found the draft approved.
IdleSound(r, d) ==
    WillTell(r, d) /\ At(r, "update") /\ request[r].columns = {} => draft[d].status = "approved"

RequestSound(r, d) == EditSound(r, d) /\ ApproveSound(r, d) /\ IdleSound(r, d)

RowSound(d) ==
    /\ Truthful(draft[d])
    /\ draft[d].status = "pending" => draft[d].action = NoKey

Promised(d) ==
    d \in ghost.posted /\ used.faults = 0
        => draft[d].status = "approved" \/ \E r \in Requests : WillTell(r, d)

\* A draft that is not torn.
Sound(d) == RowSound(d) /\ Promised(d) /\ \A r \in Requests : RequestSound(r, d)

AllSound == \A d \in Drafts \ ghost.torn : Sound(d)

KeysOf(t) == {key \in posts : key.text = t}

\* Requests that are going to post, or have posted and not yet remembered, text t.
Posting(t) == {r \in Requests : At(r, "enqueue") /\ request[r].entity.text = t}
Posted(t) == {r \in Requests : At(r, "remember") /\ request[r].entity.text = t}

Told(t) == \E i \in DOMAIN memory : memory[i] = t

\* Before the text is remembered, who has posted it is to remember it, or has failed;
\* from then on nobody begins to post it.
Few(t) ==
    /\ ~Told(t) => Cardinality(KeysOf(t)) <= Cardinality(Posted(t)) + used.faults
    /\ Told(t) /\ Len(memory) <= MaxRecent
         => Cardinality(KeysOf(t)) + Cardinality(Posting(t)) <= Cardinality(Requests) + used.faults

AllFew == IsFiniteSet(posts) /\ \A t \in Texts : Few(t)

IInv == TypeOK /\ Shape /\ AllTruthful /\ AllSound /\ AllFew

-----------------------------------------------------------------------------
LEMMA AgentConstants ==
    /\ NoText \notin Texts /\ MaxRecent \in Nat /\ MaxRecent > 0 /\ MaxHours \in Nat /\ MaxHours > 0
    /\ MaxDrafts \in Nat /\ MaxRequests \in Nat /\ MaxFaults \in Nat
    /\ IsFiniteSet(Requests) /\ NoDraft \notin Drafts
BY AgentAssumption DEF NoDraft, Drafts

LEMMA Types ==
    /\ NoKey \in Key \cup {NoKey} /\ Absent \in Draft /\ NoRequest \in Request
    /\ Absent.status = "absent" /\ Absent.action = NoKey
    /\ NoRequest.phase = "idle" /\ NoRequest.id = NoDraft
    /\ NoRequest.entity = Absent /\ NoRequest.op = "publish"
BY DEF Absent, NoRequest, Draft, Request

LEMMA NoKeyIsNoKey == NoKey \notin Key
BY AgentConstants DEF NoKey, Key

-----------------------------------------------------------------------------
(* What a step makes of its request.                                       *)

Becomes(r, x) ==
    /\ request' \in [Requests -> Request]
    /\ request'[r] = x
    /\ \A q \in Requests : q # r => request'[q] = request[q]

LEMMA RequestBecomes ==
    ASSUME TypeOK, NEW r \in Requests, NEW x \in Request, request' = [request EXCEPT ![r] = x]
    PROVE  Becomes(r, x)
BY DEF TypeOK, Becomes

LEMMA AnswerBecomes ==
    ASSUME TypeOK, NEW r \in Requests, Answer(r)
    PROVE  Becomes(r, request'[r]) /\ request'[r] = NoRequest
<1>1. Becomes(r, NoRequest)
  BY Types, RequestBecomes DEF Answer
<1> QED BY <1>1 DEF Becomes

Phase == {"idle", "load", "dedup", "enqueue", "remember", "save", "update"}

LEMMA GotoBecomes ==
    ASSUME TypeOK, NEW r \in Requests, NEW phase \in Phase, Goto(r, phase)
    PROVE  /\ Becomes(r, request'[r]) /\ request'[r].phase = phase
           /\ request'[r].op = request[r].op /\ request'[r].id = request[r].id
           /\ request'[r].entity = request[r].entity /\ request'[r].text = request[r].text
<1>1. PICK x : x = [request[r] EXCEPT !.phase = phase]
  OBVIOUS
<1>2. request[r] \in Request
  BY DEF TypeOK
<1>3. /\ x \in Request /\ x.phase = phase /\ x.op = request[r].op /\ x.id = request[r].id
      /\ x.entity = request[r].entity /\ x.text = request[r].text
  BY <1>1, <1>2 DEF Request, Phase
<1>4. Becomes(r, x)
  BY <1>1, <1>3, RequestBecomes DEF Goto
<1> QED BY <1>3, <1>4 DEF Becomes

\* A request that has just begun.
LEMMA BeginBecomes ==
    ASSUME TypeOK, Shape, NEW r \in Requests, Begin(r)
    PROVE  /\ Becomes(r, request'[r])
           /\ \/ /\ request'[r].phase = "load" /\ request'[r].op # "publish"
                 /\ request'[r].id \in Drafts /\ request'[r].entity = Absent
                 /\ draft[request'[r].id].status # "absent"
                 /\ request'[r].op \in {"edit", "editAndApprove"} => request'[r].text \in Texts
              \/ /\ request'[r].phase = "dedup" /\ request'[r].id = NoDraft
                 /\ request'[r].entity.text \in Texts /\ request'[r].entity.status = "absent"
                 /\ request'[r].entity.action = NoKey
<1>1. CASE \E d \in Drafts, text \in Texts, op \in {"approve", "reject", "edit", "editAndApprove"} :
             /\ draft[d].status # "absent"
             /\ request' = [request EXCEPT ![r] =
                   [NoRequest EXCEPT !.op = op, !.phase = "load", !.id = d,
                       !.text = IF op \in {"edit", "editAndApprove"} THEN text ELSE NoText]]
  <2>1. PICK d \in Drafts, text \in Texts, op \in {"approve", "reject", "edit", "editAndApprove"} :
             /\ draft[d].status # "absent"
             /\ request' = [request EXCEPT ![r] =
                   [NoRequest EXCEPT !.op = op, !.phase = "load", !.id = d,
                       !.text = IF op \in {"edit", "editAndApprove"} THEN text ELSE NoText]]
    BY <1>1
  <2>2. PICK sends : sends = IF op \in {"edit", "editAndApprove"} THEN text ELSE NoText
    OBVIOUS
  <2>3. PICK x : x = [NoRequest EXCEPT !.op = op, !.phase = "load", !.id = d, !.text = sends]
    OBVIOUS
  <2>4. /\ x \in Request /\ x.phase = "load" /\ x.op = op /\ x.id = d /\ x.text = sends
        /\ x.entity = Absent
    BY <2>2, <2>3, Types DEF NoRequest, Request
  <2>5. Becomes(r, x)
    BY <2>1, <2>2, <2>3, <2>4, RequestBecomes
  <2>6. /\ op # "publish" /\ draft[d].status # "absent"
        /\ op \in {"edit", "editAndApprove"} => sends \in Texts
    BY <2>1, <2>2
  <2> QED BY <2>4, <2>5, <2>6 DEF Becomes
<1>2. CASE \E text \in Texts :
             request' = [request EXCEPT ![r] =
                   [NoRequest EXCEPT !.op = "publish", !.phase = "dedup", !.entity.text = text]]
  <2>1. PICK text \in Texts :
             request' = [request EXCEPT ![r] =
                   [NoRequest EXCEPT !.op = "publish", !.phase = "dedup", !.entity.text = text]]
    BY <1>2
  <2>2. PICK e : e = [Absent EXCEPT !.text = text]
    OBVIOUS
  <2>3. PICK x : x = [NoRequest EXCEPT !.op = "publish", !.phase = "dedup", !.entity = e]
    OBVIOUS
  <2>4. e \in Draft /\ e.text = text /\ e.status = "absent" /\ e.action = NoKey
    BY <2>2, Types DEF Absent, Draft
  <2>5. x \in Request /\ x.phase = "dedup" /\ x.id = NoDraft /\ x.entity = e
    BY <2>3, <2>4, Types DEF NoRequest, Request
  <2>6. request' = [request EXCEPT ![r] = x]
    BY <2>1, <2>2, <2>3 DEF NoRequest
  <2>7. Becomes(r, x)
    BY <2>5, <2>6, RequestBecomes
  <2> QED BY <2>4, <2>5, <2>7 DEF Becomes
<1> QED BY <1>1, <1>2 DEF Begin

\* A request that has read a pending draft.
LEMMA LoadBecomes ==
    ASSUME TypeOK, Shape, NEW r \in Requests, Load(r), NEW d \in Drafts, d = request[r].id,
           draft[d].status = "pending"
    PROVE  /\ Becomes(r, request'[r])
           /\ request'[r].id = d /\ request'[r].op = request[r].op /\ request'[r].op # "publish"
           /\ request'[r].entity.text \in Texts /\ request'[r].entity.status \in {"pending", "rejected"}
           /\ request'[r].entity.action = draft[d].action
           /\ IF request[r].op = "approve"
              THEN request'[r].phase = "dedup" /\ request'[r].entity = draft[d]
              ELSE request'[r].phase = "save"
<1>0. /\ request[r] \in Request /\ draft[d] \in Draft /\ At(r, "load") /\ draft[d].text \in Texts
      /\ request[r].op # "publish"
      /\ request[r].op \in {"edit", "editAndApprove"} => request[r].text \in Texts
  BY DEF TypeOK, Shape, Shaped, Load
<1>1. PICK e : e = CASE request[r].op = "approve" -> draft[d]
                     [] request[r].op = "reject" -> [draft[d] EXCEPT !.status = "rejected"]
                     [] OTHER -> [draft[d] EXCEPT !.text = request[r].text]
  OBVIOUS
<1>2. /\ e \in Draft /\ e.text \in Texts /\ e.status \in {"pending", "rejected"}
      /\ e.action = draft[d].action
      /\ request[r].op = "approve" => e = draft[d]
  <2>1. CASE request[r].op = "approve"
    BY <1>0, <1>1, <2>1
  <2>2. CASE request[r].op = "reject"
    <3>1. e = [draft[d] EXCEPT !.status = "rejected"]
      BY <1>1, <2>2
    <3> QED BY <1>0, <2>2, <3>1 DEF Draft
  <2>3. CASE request[r].op \in {"edit", "editAndApprove"}
    <3>1. e = [draft[d] EXCEPT !.text = request[r].text]
      BY <1>1, <2>3
    <3> QED BY <1>0, <2>3, <3>1 DEF Draft
  <2>4. request[r].op \in {"approve", "reject", "edit", "editAndApprove"}
    BY <1>0 DEF Request
  <2> QED BY <2>1, <2>2, <2>3, <2>4
<1>3. PICK phase : phase = IF request[r].op = "approve" THEN "dedup" ELSE "save"
  OBVIOUS
<1>4. PICK x : x = [request[r] EXCEPT !.entity = e, !.phase = phase]
  OBVIOUS
<1>5. x \in Request /\ x.phase = phase /\ x.entity = e /\ x.id = d /\ x.op = request[r].op
  BY <1>0, <1>2, <1>3, <1>4 DEF Request
<1>6. request' = [request EXCEPT ![r].entity = e, ![r].phase = phase]
  BY <1>1, <1>3 DEF Load, MayChange
<1>7. request' = [request EXCEPT ![r] = x]
  BY <1>4, <1>6 DEF TypeOK
<1>8. Becomes(r, x)
  BY <1>5, <1>7, RequestBecomes
<1> QED BY <1>0, <1>2, <1>3, <1>5, <1>8 DEF Becomes

\* A request whose post is queued.
LEMMA EnqueueBecomes ==
    ASSUME TypeOK, Shape, NEW r \in Requests, EnqueuePost(r)
    PROVE  \E key \in Key :
             /\ key.text = request[r].entity.text /\ posts' = posts \cup {key}
             /\ Becomes(r, request'[r]) /\ request'[r].phase = "remember"
             /\ request'[r].id = request[r].id /\ request'[r].op = request[r].op
             /\ request'[r].entity.status = "approved" /\ request'[r].entity.action = key
             /\ request'[r].entity.text = request[r].entity.text
<1>0. /\ request[r] \in Request /\ request[r].entity.text \in Texts /\ request[r].entity \in Draft
      /\ hour \in 1 .. MaxHours
  BY DEF TypeOK, Shape, Shaped, EnqueuePost, At, Working, Hours, Request
<1>1. PICK h \in hour .. MaxHours :
         /\ posts' = posts \cup {[text |-> request[r].entity.text, hour |-> h]}
         /\ request' = [request EXCEPT ![r].phase = "remember",
                            ![r].entity = Approved(@, [text |-> request[r].entity.text, hour |-> h])]
  BY DEF EnqueuePost
<1>2. PICK key : key = [text |-> request[r].entity.text, hour |-> h]
  OBVIOUS
<1>3. key \in Key /\ key.text = request[r].entity.text
  BY <1>0, <1>2, AgentConstants DEF Key, Hours
<1>4. PICK e : e = [request[r].entity EXCEPT !.status = "approved", !.action = key]
  OBVIOUS
<1>5. e \in Draft /\ e.status = "approved" /\ e.action = key /\ e.text = request[r].entity.text
  BY <1>0, <1>3, <1>4 DEF Draft
<1>6. PICK x : x = [request[r] EXCEPT !.phase = "remember", !.entity = e]
  OBVIOUS
<1>7. /\ x \in Request /\ x.phase = "remember" /\ x.entity = e /\ x.id = request[r].id
      /\ x.op = request[r].op
  BY <1>0, <1>5, <1>6 DEF Request
<1>8. e = Approved(request[r].entity, [text |-> request[r].entity.text, hour |-> h])
  BY <1>2, <1>4 DEF Approved
<1>9. request' = [request EXCEPT ![r] = x]
  <2>1. request' = [request EXCEPT ![r].phase = "remember", ![r].entity = e]
    BY <1>1, <1>8
  <2> QED BY <1>6, <2>1 DEF TypeOK
<1>10. Becomes(r, x)
  BY <1>7, <1>9, RequestBecomes
<1> QED BY <1>1, <1>2, <1>3, <1>5, <1>7, <1>10 DEF Becomes

\* A request that has looked what there is to write.
LEMMA SaveBecomes ==
    ASSUME TypeOK, Shape, NEW r \in Requests, Save(r)
    PROVE  /\ Becomes(r, request'[r]) /\ request'[r].phase = "update"
           /\ request'[r].op = request[r].op /\ request'[r].id = request[r].id
           /\ request'[r].entity = request[r].entity
           /\ request'[r].columns = Differing(draft[request[r].id], request[r].entity)
<1>0. request[r] \in Request
  BY DEF TypeOK
<1>1. PICK columns : columns = Differing(draft[request[r].id], request[r].entity)
  OBVIOUS
<1>2. columns \in SUBSET Columns
  BY <1>1 DEF Differing
<1>3. PICK x : x = [request[r] EXCEPT !.phase = "update", !.columns = columns]
  OBVIOUS
<1>4. /\ x \in Request /\ x.phase = "update" /\ x.columns = columns /\ x.op = request[r].op
      /\ x.id = request[r].id /\ x.entity = request[r].entity
  BY <1>0, <1>2, <1>3 DEF Request
<1>5. request' = [request EXCEPT ![r] = x]
  <2>1. request' = [request EXCEPT ![r].phase = "update", ![r].columns = columns]
    BY <1>1 DEF Save
  <2> QED BY <1>3, <2>1 DEF TypeOK
<1>6. Becomes(r, x)
  BY <1>4, <1>5, RequestBecomes
<1> QED BY <1>1, <1>4, <1>6 DEF Becomes

\* A request that goes on to approve what it has edited, or is answered.
LEMMA UpdateBecomes ==
    ASSUME TypeOK, Shape, NEW r \in Requests, Update(r)
    PROVE  /\ Becomes(r, request'[r])
           /\ \/ request'[r] = NoRequest
              \/ /\ request'[r].phase = "load" /\ request'[r].op = "approve"
                 /\ request'[r].id = request[r].id /\ request'[r].entity = Absent
<1>0. request[r] \in Request
  BY DEF TypeOK
<1>1. CASE Answer(r)
  BY <1>1, AnswerBecomes
<1>2. CASE request' = [request EXCEPT ![r] =
                 [NoRequest EXCEPT !.op = "approve", !.phase = "load", !.id = request[r].id]]
  <2>1. PICK x : x = [NoRequest EXCEPT !.op = "approve", !.phase = "load", !.id = request[r].id]
    OBVIOUS
  <2>2. request[r].id \in Drafts \cup {NoDraft}
    BY <1>0 DEF Request
  <2>3. x \in Request /\ x.phase = "load" /\ x.op = "approve" /\ x.id = request[r].id /\ x.entity = Absent
    BY <2>1, <2>2, Types DEF NoRequest, Request
  <2>4. Becomes(r, x)
    BY <1>2, <2>1, <2>3, RequestBecomes
  <2> QED BY <2>3, <2>4 DEF Becomes
<1> QED BY <1>1, <1>2 DEF Update

\* What an UPDATE makes of the row.
LEMMA WrittenType ==
    ASSUME NEW old \in Draft, NEW new \in Draft, NEW columns \in SUBSET Columns
    PROVE  /\ Written(old, new, columns) \in Draft
           /\ Written(old, new, columns).status = IF "status" \in columns THEN new.status ELSE old.status
           /\ Written(old, new, columns).text = IF "text" \in columns THEN new.text ELSE old.text
           /\ Written(old, new, columns).action = IF "action" \in columns THEN new.action ELSE old.action
BY DEF Written, Draft

LEMMA DifferingOf ==
    ASSUME NEW old \in Draft, NEW new \in Draft
    PROVE  /\ "status" \in Differing(old, new) <=> new.status # old.status
           /\ "text" \in Differing(old, new) <=> new.text # old.text
           /\ "action" \in Differing(old, new) <=> new.action # old.action
BY DEF Differing, Columns

LEMMA UpdateWrites ==
    ASSUME TypeOK, Shape, NEW r \in Requests, Update(r)
    PROVE  \E d \in Drafts :
             /\ d = request[r].id /\ draft' \in [Drafts -> Draft]
             /\ \A c \in Drafts : c # d => draft'[c] = draft[c]
             /\ draft'[d].status = IF "status" \in request[r].columns
                                    THEN request[r].entity.status ELSE draft[d].status
             /\ draft'[d].text = IF "text" \in request[r].columns
                                  THEN request[r].entity.text ELSE draft[d].text
             /\ draft'[d].action = IF "action" \in request[r].columns
                                    THEN request[r].entity.action ELSE draft[d].action
<1>1. /\ request[r].id \in Drafts /\ request[r].entity \in Draft
      /\ request[r].columns \in SUBSET Columns
  BY DEF TypeOK, Shape, Shaped, Update, At, Request
<1>2. PICK d \in Drafts : d = request[r].id
  BY <1>1
<1>3. PICK e \in Draft : e = Written(draft[d], request[r].entity, request[r].columns)
  BY <1>1, WrittenType DEF TypeOK
<1>4. draft' = [draft EXCEPT ![d] = e]
  BY <1>2, <1>3 DEF Update
<1>5. draft' \in [Drafts -> Draft] /\ draft'[d] = e /\ \A c \in Drafts : c # d => draft'[c] = draft[c]
  BY <1>4 DEF TypeOK
<1> QED BY <1>1, <1>2, <1>3, <1>5, WrittenType DEF TypeOK

-----------------------------------------------------------------------------
(* Types.                                                                  *)

\* A request's step leaves the others as they were.
LEMMA ShapeStays ==
    ASSUME Shape, NEW r \in Requests, Becomes(r, request'[r]), Shaped(r)',
           \A d \in Drafts : draft'[d].status # "absent" => draft'[d].text \in Texts,
           \A d \in Drafts : draft[d].status # "absent" => draft'[d].status # "absent"
    PROVE  Shape'
<1>1. \A q \in Requests : q # r => Shaped(q)'
  BY DEF Shape, Shaped, Becomes, At, Drafts
<1> QED BY <1>1 DEF Shape, Drafts

\* The ghost of an UPDATE.
LEMMA OvertakeType ==
    ASSUME TypeOK, NEW r \in Requests, request[r].id \in Drafts
    PROVE  /\ Overtake(r) \in Ghost /\ Overtake(r).posted = ghost.posted
           /\ request[r].columns = {} => Overtake(r) = ghost
           /\ request[r].columns # {} =>
                /\ Overtake(r).fresh = {q \in ghost.fresh : ~Conflict(r, q)}
                /\ Overtake(r).torn = IF r \in ghost.fresh THEN ghost.torn
                                      ELSE ghost.torn \cup {request[r].id}
BY DEF TypeOK, Ghost, Overtake

LEMMA LoadMarks ==
    ASSUME TypeOK, NEW r \in Requests
    PROVE  /\ [ghost EXCEPT !.fresh = @ \cup {r}] \in Ghost
           /\ [ghost EXCEPT !.fresh = @ \cup {r}].fresh = ghost.fresh \cup {r}
           /\ [ghost EXCEPT !.fresh = @ \cup {r}].torn = ghost.torn
           /\ [ghost EXCEPT !.fresh = @ \cup {r}].posted = ghost.posted
BY DEF TypeOK, Ghost

LEMMA PostMarks ==
    ASSUME TypeOK, NEW r \in Requests, EnqueuePost(r)
    PROVE  /\ ghost' \in Ghost /\ ghost'.fresh = ghost.fresh /\ ghost'.torn = ghost.torn
           /\ ghost'.posted = ghost.posted \cup ({request[r].id} \ {NoDraft})
<1>1. request[r].id \in Drafts \cup {NoDraft}
  BY DEF TypeOK, Request
<1>2. ghost' = [ghost EXCEPT !.posted = @ \cup ({request[r].id} \ {NoDraft})]
  BY DEF EnqueuePost
<1> QED BY <1>1, <1>2 DEF TypeOK, Ghost

LEMMA RequestTypes ==
    ASSUME TypeOK, Shape, NEW r \in Requests, RequestStep(r)
    PROVE  TypeOK' /\ Shape' /\ Becomes(r, request'[r])
<1> USE AgentConstants, Types DEF Phase
<1>0. /\ draft \in [Drafts -> Draft] /\ memory \in Seq(Texts) /\ posts \subseteq Key /\ hour \in Hours
      /\ used \in [faults : 0 .. MaxFaults, requests : 0 .. MaxRequests]
      /\ ghost \in Ghost
      /\ request[r] \in Request /\ request[r].id \in Drafts \cup {NoDraft} /\ Shaped(r)
      /\ \A d \in Drafts : draft[d].status # "absent" => draft[d].text \in Texts
  BY DEF TypeOK, Shape, Request
<1>1. ASSUME Answer(r) PROVE Becomes(r, request'[r]) /\ Shaped(r)'
  <2>1. Becomes(r, request'[r]) /\ request'[r] = NoRequest
    BY <1>1, AnswerBecomes
  <2> QED BY <2>1 DEF Shaped, At, Working, Drafts
<1>2. ASSUME UNCHANGED <<draft, memory, posts, hour, ghost>>,
             used' \in [faults : 0 .. MaxFaults, requests : 0 .. MaxRequests],
             Becomes(r, request'[r]), Shaped(r)'
      PROVE  TypeOK' /\ Shape' /\ Becomes(r, request'[r])
  <2>1. Shape'
    BY <1>0, <1>2, ShapeStays
  <2> QED BY <1>0, <1>2, <2>1 DEF TypeOK, Becomes, Drafts
<1>4. CASE Begin(r)
  <2>1. /\ Becomes(r, request'[r])
        /\ \/ /\ request'[r].phase = "load" /\ request'[r].op # "publish"
              /\ request'[r].id \in Drafts /\ draft[request'[r].id].status # "absent"
              /\ request'[r].op \in {"edit", "editAndApprove"} => request'[r].text \in Texts
           \/ /\ request'[r].phase = "dedup" /\ request'[r].entity.text \in Texts
              /\ request'[r].id = NoDraft
    BY <1>4, BeginBecomes
  <2>3. UNCHANGED <<draft, memory, posts, hour, ghost>>
          /\ used' = [used EXCEPT !.requests = @ + 1] /\ used.requests < MaxRequests
    BY <1>4, Zenon DEF Begin
  <2>2. Shaped(r)'
    BY <2>1, <2>3 DEF Shaped, At, Working, Drafts
  <2>4. used' \in [faults : 0 .. MaxFaults, requests : 0 .. MaxRequests]
    BY <1>0, <2>3
  <2> QED BY <1>2, <2>1, <2>2, <2>3, <2>4
<1>5. CASE Load(r)
  <2>1. UNCHANGED <<draft, memory, posts, hour, used>> /\ request[r].id \in Drafts
    BY <1>0, <1>5 DEF Load, Shaped
  <2>2. CASE draft[request[r].id].status = "pending"
    <3>1. PICK d \in Drafts : d = request[r].id
      BY <2>1
    <3>2. /\ Becomes(r, request'[r])
          /\ request'[r].id = d /\ request'[r].entity.text \in Texts /\ request'[r].op = request[r].op
          /\ request'[r].entity.status # "absent"
          /\ IF request[r].op = "approve" THEN request'[r].phase = "dedup" ELSE request'[r].phase = "save"
      BY <1>5, <2>2, <3>1, LoadBecomes
    <3>3. Shaped(r)'
      <4>1. draft'[d].status # "absent"
        BY <2>1, <2>2, <3>1
      <4> QED BY <3>1, <3>2, <4>1 DEF Shaped, At, Working, Drafts
    <3>4. ghost' \in Ghost
      BY <1>5, <2>2, LoadMarks DEF Load, MayChange
    <3>5. Shape'
      BY <1>0, <2>1, <3>2, <3>3, ShapeStays
    <3> QED BY <1>0, <2>1, <3>2, <3>4, <3>5 DEF TypeOK, Becomes, Drafts
  <2>3. CASE draft[request[r].id].status # "pending"
    <3>1. Answer(r) /\ UNCHANGED ghost
      BY <1>5, <2>3 DEF Load, MayChange
    <3> QED BY <1>0, <1>1, <1>2, <2>1, <3>1
  <2> QED BY <2>2, <2>3
<1>6. CASE Dedup(r)
  <2>1. UNCHANGED <<draft, memory, posts, hour, ghost, used>> /\ At(r, "dedup")
    BY <1>6 DEF Dedup
  <2>2. Becomes(r, request'[r]) /\ Shaped(r)'
    <3>1. CASE Answer(r)
      BY <1>1, <3>1
    <3>2. CASE Goto(r, "enqueue")
      <4>1. /\ Becomes(r, request'[r]) /\ request'[r].phase = "enqueue" /\ request'[r].id = request[r].id
            /\ request'[r].entity = request[r].entity /\ request'[r].op = request[r].op
        BY <3>2, GotoBecomes
      <4> QED BY <1>0, <2>1, <4>1 DEF Shaped, At, Working, Drafts
    <3> QED BY <1>6, <3>1, <3>2 DEF Dedup
  <2> QED BY <1>0, <1>2, <2>1, <2>2
<1>7. CASE EnqueuePost(r)
  <2>1. PICK key \in Key :
          /\ posts' = posts \cup {key}
          /\ Becomes(r, request'[r]) /\ request'[r].phase = "remember"
          /\ request'[r].id = request[r].id /\ request'[r].op = request[r].op
          /\ request'[r].entity.status = "approved"
          /\ request'[r].entity.text = request[r].entity.text
    BY <1>7, EnqueueBecomes
  <2>2. At(r, "enqueue") /\ UNCHANGED <<draft, memory, hour, used>>
    BY <1>7 DEF EnqueuePost
  <2>3. Shaped(r)'
    BY <1>0, <2>1, <2>2 DEF Shaped, At, Working, Drafts
  <2>4. ghost' \in Ghost
    BY <1>7, PostMarks
  <2>5. Shape'
    BY <1>0, <2>1, <2>2, <2>3, ShapeStays
  <2> QED BY <1>0, <2>1, <2>2, <2>4, <2>5 DEF TypeOK, Becomes, Drafts
<1>8. CASE Remember(r)
  <2>1. UNCHANGED <<draft, posts, hour, ghost, used>> /\ At(r, "remember")
    BY <1>8 DEF Remember
  <2>2. memory' \in Seq(Texts)
    <3>1. request[r].entity.text \in Texts
      BY <1>0, <2>1 DEF Shaped, At, Working
    <3> QED BY <1>0, <1>8, <3>1 DEF Remember
  <2>3. Becomes(r, request'[r]) /\ Shaped(r)'
    <3>1. CASE Answer(r)
      BY <1>1, <3>1
    <3>2. CASE Goto(r, "save") /\ request[r].id # NoDraft
      <4>1. /\ Becomes(r, request'[r]) /\ request'[r].phase = "save" /\ request'[r].id = request[r].id
            /\ request'[r].entity = request[r].entity /\ request'[r].op = request[r].op
        BY <3>2, GotoBecomes
      <4> QED BY <1>0, <2>1, <3>2, <4>1 DEF Shaped, At, Working, Drafts
    <3> QED BY <1>8, <3>1, <3>2 DEF Remember
  <2>4. Shape'
    BY <1>0, <2>1, <2>3, ShapeStays
  <2> QED BY <1>0, <2>1, <2>2, <2>3, <2>4 DEF TypeOK, Becomes, Drafts
<1>9. CASE Save(r)
  <2>1. /\ Becomes(r, request'[r]) /\ request'[r].phase = "update"
        /\ request'[r].op = request[r].op /\ request'[r].id = request[r].id
        /\ request'[r].entity = request[r].entity
    BY <1>9, SaveBecomes
  <2>2. UNCHANGED <<draft, memory, posts, hour, ghost, used>> /\ At(r, "save")
    BY <1>9 DEF Save
  <2>3. Shaped(r)'
    BY <1>0, <2>1, <2>2 DEF Shaped, At, Working, Drafts
  <2> QED BY <1>0, <1>2, <2>1, <2>2, <2>3
<1>10. CASE Update(r)
  <2>1. /\ Becomes(r, request'[r])
        /\ \/ request'[r] = NoRequest
           \/ request'[r].phase = "load" /\ request'[r].op = "approve" /\ request'[r].id = request[r].id
    BY <1>10, UpdateBecomes
  <2>2. PICK d \in Drafts :
          /\ d = request[r].id /\ draft' \in [Drafts -> Draft]
          /\ \A c \in Drafts : c # d => draft'[c] = draft[c]
          /\ draft'[d].status = IF "status" \in request[r].columns
                                THEN request[r].entity.status ELSE draft[d].status
          /\ draft'[d].text = IF "text" \in request[r].columns
                              THEN request[r].entity.text ELSE draft[d].text
    BY <1>10, UpdateWrites
  <2>3. /\ UNCHANGED <<memory, posts, hour, used>> /\ ghost' = Overtake(r) /\ At(r, "update")
    BY <1>10 DEF Update
  <2>4. ghost' \in Ghost
    BY <2>2, <2>3, OvertakeType
  <2>5. /\ draft[d].status # "absent" /\ draft[d].text \in Texts
        /\ request[r].entity.status # "absent" /\ request[r].entity.text \in Texts
    BY <1>0, <2>2, <2>3 DEF Shaped, At, Working
  <2>6. draft'[d].status # "absent" /\ draft'[d].text \in Texts
    BY <2>2, <2>5
  <2>7. Shaped(r)'
    BY <2>1, <2>2, <2>6 DEF Shaped, At, Working, Drafts
  <2>8. /\ \A c \in Drafts : draft'[c].status # "absent" => draft'[c].text \in Texts
        /\ \A c \in Drafts : draft[c].status # "absent" => draft'[c].status # "absent"
    BY <1>0, <2>2, <2>6
  <2>9. Shape'
    BY <2>1, <2>7, <2>8, ShapeStays
  <2> QED BY <1>0, <2>1, <2>2, <2>3, <2>4, <2>9 DEF TypeOK, Becomes, Drafts
<1>11. CASE RequestFails(r)
  <2>1. UNCHANGED <<draft, memory, posts, hour, ghost>> /\ Answer(r)
          /\ used' \in [faults : 0 .. MaxFaults, requests : 0 .. MaxRequests]
    BY <1>0, <1>11 DEF RequestFails
  <2> QED BY <1>1, <1>2, <2>1
<1> QED BY <1>4, <1>5, <1>6, <1>7, <1>8, <1>9, <1>10, <1>11 DEF RequestStep

\* A draft that is generated.
LEMMA CreateDraws ==
    ASSUME TypeOK, CreateDraft
    PROVE  \E d \in Drafts : /\ draft[d].status = "absent"
                             /\ draft'[d].status = "pending" /\ draft'[d].text \in Texts
                             /\ draft'[d].action = NoKey
                             /\ draft' \in [Drafts -> Draft]
                             /\ \A c \in Drafts : c # d => draft'[c] = draft[c]
<1>1. PICK d \in Drafts, text \in Texts :
         /\ draft[d].status = "absent"
         /\ draft' = [draft EXCEPT ![d] = [Absent EXCEPT !.status = "pending", !.text = text]]
  BY DEF CreateDraft
<1>2. PICK x : x = [Absent EXCEPT !.status = "pending", !.text = text]
  OBVIOUS
<1>3. x \in Draft /\ x.status = "pending" /\ x.text = text /\ x.action = NoKey
  BY <1>2, Types DEF Absent, Draft
<1>4. draft' = [draft EXCEPT ![d] = x]
  BY <1>1, <1>2
<1>5. draft' \in [Drafts -> Draft] /\ draft'[d] = x /\ \A c \in Drafts : c # d => draft'[c] = draft[c]
  BY <1>3, <1>4 DEF TypeOK
<1> QED BY <1>1, <1>3, <1>5

LEMMA TypesKept ==
    ASSUME TypeOK, Shape, [Next]_vars
    PROVE  TypeOK' /\ Shape'
<1>1. CASE \E r \in Requests : RequestStep(r)
  BY <1>1, RequestTypes
<1>2. CASE CreateDraft
  <2>1. PICK d \in Drafts : /\ draft'[d].text \in Texts /\ draft'[d].status = "pending"
                            /\ draft' \in [Drafts -> Draft]
                            /\ \A c \in Drafts : c # d => draft'[c] = draft[c]
    BY <1>2, CreateDraws
  <2>2. UNCHANGED <<memory, posts, request, ghost, hour, used>>
    BY <1>2 DEF CreateDraft
  <2> QED BY <2>1, <2>2 DEF TypeOK, Shape, Shaped, At
<1>3. CASE HourPasses
  BY <1>3, AgentConstants DEF HourPasses, TypeOK, Shape, Shaped, At, Hours
<1>4. CASE UNCHANGED vars
  BY <1>4 DEF vars, TypeOK, Shape, Shaped, At
<1> QED BY <1>1, <1>2, <1>3, <1>4 DEF Next

-----------------------------------------------------------------------------
(* What is approved is posted, and what is named is queued.                *)

TrueRow(d) == Named(draft[d]) /\ (draft[d].status = "approved" => d \in ghost.posted)

LEMMA TrueRows == NamesAPost <=> \A d \in Drafts : TrueRow(d)
BY DEF NamesAPost, TrueRow, Named

LEMMA TrueRowsThen == NamesAPost' <=> \A d \in Drafts : TrueRow(d)'
<1>1. NamesAPost' <=> (\A d \in Drafts : TrueRow(d))'
  BY TrueRows, PTL
<1> QED BY <1>1 DEF Drafts

LEMMA TruthStays ==
    ASSUME AllTruthful, posts \subseteq posts', ghost.posted \subseteq ghost'.posted,
           NEW r \in Requests, Becomes(r, request'[r]), TrueEntity(r)',
           \A d \in Drafts : draft'[d] = draft[d] \/ TrueRow(d)'
    PROVE  AllTruthful'
<1>1. \A d \in Drafts : TrueRow(d)'
  BY TrueRows DEF AllTruthful, TrueRow, Named
<1>2. \A q \in Requests : q # r => TrueEntity(q)'
  BY DEF AllTruthful, TrueEntity, Truthful, Named, Becomes
<1> QED BY <1>1, <1>2, TrueRowsThen DEF AllTruthful

LEMMA TruthKept ==
    ASSUME TypeOK, Shape, AllTruthful, [Next]_vars
    PROVE  AllTruthful'
<1> USE Types DEF Phase
<1>1. ASSUME NEW r \in Requests, RequestStep(r) PROVE AllTruthful'
  <2>0. Becomes(r, request'[r]) /\ request[r].id \in Drafts \cup {NoDraft} /\ request[r] \in Request
          /\ Shaped(r) /\ TrueEntity(r) /\ ghost \in Ghost
    BY <1>1, RequestTypes DEF TypeOK, Request, Shape, AllTruthful
  <2>1. ASSUME request'[r].entity = Absent PROVE TrueEntity(r)'
    BY <2>1 DEF TrueEntity, Truthful, Named
  <2>2. ASSUME NEW phase \in Phase, Goto(r, phase), posts' = posts, ghost' = ghost PROVE TrueEntity(r)'
    <3>1. request'[r].entity = request[r].entity /\ request'[r].id = request[r].id
      BY <2>2, GotoBecomes
    <3> QED BY <2>0, <2>2, <3>1 DEF TrueEntity, Truthful, Named
  <2>3. ASSUME Answer(r) PROVE TrueEntity(r)'
    BY <2>1, <2>3, AnswerBecomes
  <2>4. CASE Begin(r)
    <3>1. request'[r].entity.status # "approved" /\ request'[r].entity.action = NoKey
      BY <2>4, BeginBecomes
    <3>2. TrueEntity(r)'
      BY <3>1 DEF TrueEntity, Truthful, Named
    <3> QED BY <2>0, <2>4, <3>2, TruthStays DEF Begin
  <2>5. CASE Load(r)
    <3>1. UNCHANGED <<draft, posts>>
      BY <2>5 DEF Load
    <3>2. CASE draft[request[r].id].status = "pending"
      <4>1. PICK d \in Drafts : d = request[r].id
        BY <2>5 DEF Shape, Shaped, Load
      <4>2. request'[r].entity.status # "approved" /\ request'[r].entity.action = draft[d].action
        BY <2>5, <3>2, <4>1, LoadBecomes
      <4>3. Named(draft[d])
        BY TrueRows DEF AllTruthful, TrueRow
      <4>4. TrueEntity(r)'
        BY <3>1, <4>2, <4>3 DEF TrueEntity, Truthful, Named
      <4>5. ghost'.posted = ghost.posted
        BY <2>5, <3>2, LoadMarks DEF Load, MayChange
      <4> QED BY <2>0, <3>1, <4>4, <4>5, TruthStays
    <3>3. CASE draft[request[r].id].status # "pending"
      <4>1. Answer(r) /\ UNCHANGED ghost
        BY <2>5, <3>3 DEF Load, MayChange
      <4> QED BY <2>0, <2>3, <3>1, <4>1, TruthStays
    <3> QED BY <3>2, <3>3
  <2>6. CASE Dedup(r)
    <3>1. UNCHANGED <<draft, posts, ghost>> /\ (Answer(r) \/ Goto(r, "enqueue"))
      BY <2>6 DEF Dedup
    <3>2. TrueEntity(r)'
      BY <2>2, <2>3, <3>1
    <3> QED BY <2>0, <3>1, <3>2, TruthStays
  <2>7. CASE EnqueuePost(r)
    <3>1. PICK key \in Key : /\ key.text = request[r].entity.text /\ posts' = posts \cup {key}
                             /\ request'[r].id = request[r].id
                             /\ request'[r].entity.action = key
                             /\ request'[r].entity.text = request[r].entity.text
      BY <2>7, EnqueueBecomes
    <3>2. UNCHANGED draft /\ ghost'.posted = ghost.posted \cup ({request[r].id} \ {NoDraft})
      BY <2>7, PostMarks DEF EnqueuePost
    <3>3. TrueEntity(r)'
      BY <3>1, <3>2 DEF TrueEntity, Truthful, Named
    <3> QED BY <2>0, <3>1, <3>2, <3>3, TruthStays
  <2>8. CASE Remember(r)
    <3>1. UNCHANGED <<draft, posts, ghost>> /\ (Answer(r) \/ Goto(r, "save"))
      BY <2>8 DEF Remember
    <3>2. TrueEntity(r)'
      BY <2>2, <2>3, <3>1
    <3> QED BY <2>0, <3>1, <3>2, TruthStays
  <2>9. CASE Save(r)
    <3>1. UNCHANGED <<draft, posts, ghost>> /\ request'[r].entity = request[r].entity
            /\ request'[r].id = request[r].id
      BY <2>9, SaveBecomes DEF Save
    <3>2. TrueEntity(r)'
      BY <2>0, <3>1 DEF TrueEntity, Truthful, Named
    <3> QED BY <2>0, <3>1, <3>2, TruthStays
  <2>10. CASE Update(r)
    <3>1. TrueEntity(r)'
      BY <2>1, <2>10, UpdateBecomes
    <3>2. PICK d \in Drafts :
            /\ d = request[r].id /\ \A c \in Drafts : c # d => draft'[c] = draft[c]
            /\ draft'[d].status \in {request[r].entity.status, draft[d].status}
            /\ draft'[d].action \in {request[r].entity.action, draft[d].action}
      BY <2>10, UpdateWrites
    <3>3. posts' = posts /\ ghost'.posted = ghost.posted
      BY <2>10, <3>2, OvertakeType DEF Update
    <3>4. TrueRow(d)'
      <4>1. TrueRow(d) /\ d # NoDraft
        BY TrueRows, AgentConstants DEF AllTruthful
      <4> QED BY <2>0, <3>2, <3>3, <4>1 DEF TrueRow, TrueEntity, Named
    <3> QED BY <2>0, <3>1, <3>2, <3>3, <3>4, TruthStays
  <2>11. CASE RequestFails(r)
    BY <2>0, <2>3, <2>11, TruthStays DEF RequestFails
  <2> QED BY <1>1, <2>4, <2>5, <2>6, <2>7, <2>8, <2>9, <2>10, <2>11 DEF RequestStep
<1>2. CASE CreateDraft
  <2>1. PICK d \in Drafts : /\ draft'[d].status = "pending" /\ draft'[d].action = NoKey
                            /\ \A c \in Drafts : c # d => draft'[c] = draft[c]
    BY <1>2, CreateDraws
  <2>2. UNCHANGED <<posts, request, ghost>>
    BY <1>2 DEF CreateDraft
  <2>3. \A c \in Drafts : TrueRow(c)'
    BY <2>1, <2>2, TrueRows DEF AllTruthful, TrueRow, Named
  <2>4. \A r \in Requests : TrueEntity(r)'
    BY <2>2 DEF AllTruthful, TrueEntity, Truthful, Named
  <2> QED BY <2>3, <2>4, TrueRowsThen DEF AllTruthful
<1>3. CASE HourPasses \/ UNCHANGED vars
  BY <1>3 DEF HourPasses, vars, AllTruthful, NamesAPost, TrueEntity, Truthful, Named
<1> QED BY <1>1, <1>2, <1>3 DEF Next

-----------------------------------------------------------------------------
(* A draft that is not torn.                                               *)

\* A request that does not work on the draft owes it nothing.
LEMMA NotAtWork ==
    ASSUME NEW r, NEW d, ~WorksOn(r, d)
    PROVE  RequestSound(r, d) /\ ~WillTell(r, d)
BY DEF RequestSound, EditSound, ApproveSound, IdleSound, WillTell, WorksOn, Working

LEMMA NotAtWorkThen ==
    ASSUME NEW r \in Requests, NEW d \in Drafts, ~WorksOn(r, d)'
    PROVE  RequestSound(r, d)'
BY DEF RequestSound, EditSound, ApproveSound, IdleSound, WillTell, WorksOn, Working

\* A step of one request that leaves the draft as it is.
LEMMA SoundStays ==
    ASSUME NEW d \in Drafts, Sound(d), NEW r \in Requests, Becomes(r, request'[r]),
           draft'[d] = draft[d], posts \subseteq posts', RequestSound(r, d)',
           \A q \in Requests : q # r /\ q \in ghost'.fresh => q \in ghost.fresh,
           d \in ghost'.posted => d \in ghost.posted \/ WillTell(r, d)',
           used'.faults = 0 => used.faults = 0,
           used'.faults = 0 /\ WillTell(r, d) => WillTell(r, d)' \/ draft[d].status = "approved"
    PROVE  Sound(d)'
<1>1. \A q \in Requests : q # r => RequestSound(q, d)'
  <2> SUFFICES ASSUME NEW q \in Requests, q # r PROVE RequestSound(q, d)'
    OBVIOUS
  <2>1. RequestSound(q, d) /\ request'[q] = request[q] /\ (q \in ghost'.fresh => q \in ghost.fresh)
    BY DEF Sound, Becomes
  <2>2. EditSound(q, d)'
    BY <2>1 DEF RequestSound, EditSound, WorksOn, At
  <2>3. ApproveSound(q, d)'
    BY <2>1 DEF RequestSound, ApproveSound, WorksOn, At
  <2>4. IdleSound(q, d)'
    BY <2>1 DEF RequestSound, IdleSound, WillTell, At
  <2> QED BY <2>2, <2>3, <2>4 DEF RequestSound
<1>2. RowSound(d)'
  BY DEF Sound, RowSound, Truthful
<1>3. \A q \in Requests : q # r => (WillTell(q, d)' <=> WillTell(q, d))
  BY DEF Becomes, WillTell
<1>4. Promised(d)'
  BY <1>3 DEF Sound, Promised
<1> QED BY <1>1, <1>2, <1>4 DEF Sound

\* A request that goes on.
LEMMA GoesOn ==
    ASSUME NEW d \in Drafts, NEW r \in Requests, RequestSound(r, d), draft'[d] = draft[d], ghost' = ghost,
           request'[r].op = request[r].op, request'[r].id = request[r].id,
           request'[r].entity = request[r].entity,
           request[r].phase \in Working, request'[r].phase # "update"
    PROVE  RequestSound(r, d)'
BY DEF RequestSound, EditSound, ApproveSound, IdleSound, WorksOn, WillTell, At

\* An UPDATE.
LEMMA SoundUpdated ==
    ASSUME TypeOK, TypeOK', Shape, AllTruthful, NEW r \in Requests, Update(r), NEW d \in Drafts, Sound(d),
           d \notin ghost'.torn, Becomes(r, request'[r])
    PROVE  Sound(d)'
<1> USE Types
<1>0. /\ Shaped(r) /\ TrueEntity(r) /\ request[r] \in Request /\ draft[d] \in Draft /\ draft'[d] \in Draft
      /\ request[r].id \in Drafts /\ d # NoDraft
  BY AgentConstants DEF TypeOK, Shape, Shaped, AllTruthful, Update, At
<1>1. /\ UNCHANGED <<posts, used>> /\ ghost' = Overtake(r) /\ At(r, "update")
      /\ ghost'.posted = ghost.posted
  BY <1>0, OvertakeType DEF Update
<1>2. ~WorksOn(r, d)'
  BY UpdateBecomes DEF WorksOn, Working
<1>3. RequestSound(r, d)' /\ ~WillTell(r, d)'
  BY <1>2, NotAtWorkThen DEF WillTell, WorksOn, Working
<1>4. ghost'.fresh \subseteq ghost.fresh
  BY <1>0, <1>1, OvertakeType
<1>5. CASE request[r].id # d
  <2>1. draft'[d] = draft[d]
    BY <1>5, UpdateWrites
  <2>2. ~WillTell(r, d)
    BY <1>5 DEF WillTell
  <2> QED BY <1>1, <1>3, <1>4, <2>1, <2>2, SoundStays
<1>6. CASE request[r].id = d /\ request[r].columns = {}
  <2>1. draft'[d].status = draft[d].status /\ draft'[d].text = draft[d].text /\ draft'[d].action = draft[d].action
    BY <1>6, UpdateWrites
  <2>2. draft'[d] = draft[d]
    BY <1>0, <2>1 DEF Draft
  <2>3. WillTell(r, d) => draft[d].status = "approved"
    BY <1>1, <1>6 DEF Sound, RequestSound, IdleSound
  <2> QED BY <1>1, <1>3, <1>4, <2>2, <2>3, SoundStays
<1>7. CASE request[r].id = d /\ request[r].columns # {}
  <2>1. /\ r \in ghost.fresh
        /\ ghost'.fresh = {q \in ghost.fresh : ~Conflict(r, q)}
    BY <1>0, <1>1, <1>7, OvertakeType
  <2>2. WorksOn(r, d)
    BY <1>1, <1>7 DEF WorksOn, Working, At
  <2>3. \A q \in Requests : q # r => request'[q] = request[q]
    BY DEF Becomes
  <2>4. /\ draft'[d].status = IF "status" \in request[r].columns THEN request[r].entity.status ELSE draft[d].status
        /\ draft'[d].text = IF "text" \in request[r].columns THEN request[r].entity.text ELSE draft[d].text
        /\ draft'[d].action = IF "action" \in request[r].columns THEN request[r].entity.action ELSE draft[d].action
    BY <1>7, UpdateWrites
  <2>5. \A q \in Requests : q # r => (WillTell(q, d)' <=> WillTell(q, d))
    BY <2>3 DEF WillTell
  <2>6. CASE request[r].op # "approve"
    <3>1. /\ draft[d].status = "pending" /\ request[r].entity.action = NoKey
          /\ request[r].entity.status \in {"pending", "rejected"}
          /\ request[r].columns = Differing(draft[d], request[r].entity)
      BY <1>1, <2>1, <2>2, <2>6 DEF Sound, RequestSound, EditSound
    <3>2. /\ draft'[d].status \in {"pending", "rejected"} /\ draft'[d].action = NoKey
      <4>1. request[r].entity \in Draft
        BY <1>0 DEF Request
      <4> QED BY <1>0, <2>4, <3>1, <4>1, DifferingOf
    <3>3. RowSound(d)'
      BY <3>2 DEF RowSound, Truthful
    <3>4. ~WillTell(r, d)
      BY <3>1 DEF WillTell
    <3>5. Promised(d)'
      BY <1>1, <2>5, <3>1, <3>4 DEF Sound, Promised
    <3>6. ASSUME NEW q \in Requests, q # r PROVE RequestSound(q, d)'
      <4>1. WorksOn(q, d)' => q \notin ghost'.fresh
        BY <1>7, <2>1, <2>3, <2>6, <3>6 DEF Conflict, WorksOn
      <4>2. EditSound(q, d)' /\ ApproveSound(q, d)'
        BY <4>1 DEF EditSound, ApproveSound
      <4>3. IdleSound(q, d)'
        BY <2>3, <3>1, <3>6 DEF Sound, RequestSound, IdleSound, WillTell, At
      <4> QED BY <4>2, <4>3 DEF RequestSound
    <3> QED BY <1>3, <3>3, <3>5, <3>6 DEF Sound
  <2>7. CASE request[r].op = "approve"
    <3>1. /\ draft[d].text = request[r].entity.text
          /\ {"status", "action"} \subseteq request[r].columns \/ draft[d].status = "approved"
      BY <1>1, <2>1, <2>2, <2>7 DEF Sound, RequestSound, ApproveSound
    <3>2. request[r].entity.status = "approved"
      BY <1>0, <1>1, <2>7 DEF Shaped, At
    <3>3. draft'[d].status = "approved" /\ draft'[d].text = draft[d].text
      BY <2>4, <3>1, <3>2
    <3>4. RowSound(d)'
      <4>1. /\ request[r].entity.action \in posts /\ request[r].entity.action.text = request[r].entity.text
            /\ draft[d].status = "approved" => draft[d].action \in posts /\ draft[d].action.text = draft[d].text
        BY <1>0, <3>2 DEF TrueEntity, Truthful, Sound, RowSound
      <4>2. draft'[d].action \in posts' /\ draft'[d].action.text = draft'[d].text
        BY <1>1, <2>4, <3>1, <3>3, <4>1
      <4> QED BY <3>3, <4>2 DEF RowSound, Truthful
    <3>5. Promised(d)'
      BY <3>3 DEF Promised
    <3>6. ASSUME NEW q \in Requests, q # r PROVE RequestSound(q, d)'
      <4>1. EditSound(q, d)'
        <5>1. WorksOn(q, d)' /\ q \in ghost'.fresh => request'[q].op = "approve"
          BY <1>7, <2>1, <2>3, <3>6 DEF Conflict, WorksOn
        <5> QED BY <5>1 DEF EditSound
      <4>2. ApproveSound(q, d)'
        BY <2>1, <2>3, <3>3, <3>6 DEF Sound, RequestSound, ApproveSound, WorksOn
      <4>3. IdleSound(q, d)'
        BY <3>3 DEF IdleSound
      <4> QED BY <4>1, <4>2, <4>3 DEF RequestSound
    <3> QED BY <1>3, <3>4, <3>5, <3>6 DEF Sound
  <2> QED BY <2>6, <2>7
<1> QED BY <1>5, <1>6, <1>7

LEMMA SoundKept ==
    ASSUME TypeOK, Shape, AllTruthful, AllSound, [Next]_vars
    PROVE  AllSound'
<1> USE Types, AgentConstants DEF Phase
<1> SUFFICES ASSUME NEW d \in Drafts, d \notin ghost'.torn PROVE Sound(d)'
  BY DEF AllSound, Drafts
<1>0. /\ ghost \in Ghost /\ used \in [faults : 0 .. MaxFaults, requests : 0 .. MaxRequests]
      /\ used.faults \in Nat /\ TypeOK'
  BY TypesKept DEF TypeOK
<1>1. ASSUME NEW r \in Requests, RequestStep(r) PROVE Sound(d)'
  <2>0. /\ Becomes(r, request'[r]) /\ request[r] \in Request /\ Shaped(r) /\ TrueEntity(r)
    BY <1>1, RequestTypes DEF TypeOK, Shape, AllTruthful
  <2>1. ASSUME Answer(r) PROVE ~WorksOn(r, d)'
    BY <2>1, AnswerBecomes DEF WorksOn, Working
  <2>2. CASE Begin(r)
    <3>1. UNCHANGED <<draft, posts, ghost>> /\ At(r, "idle") /\ used' = [used EXCEPT !.requests = @ + 1]
      BY <2>2, Zenon DEF Begin
    <3>2. ~WorksOn(r, d)'
      <4>1. request'[r].phase = "load" \/ request'[r].id = NoDraft
        BY <2>2, BeginBecomes
      <4> QED BY <4>1 DEF WorksOn, Working
    <3>3. ~WillTell(r, d) /\ used'.faults = used.faults /\ Sound(d)
      BY <1>0, <3>1 DEF WillTell, At, AllSound
    <3> QED BY <2>0, <3>1, <3>2, <3>3, NotAtWorkThen, SoundStays
  <2>3. CASE Load(r)
    <3>0. UNCHANGED <<draft, posts, used>> /\ At(r, "load") /\ ~WillTell(r, d)
      BY <2>3 DEF Load, WillTell, At
    <3>1. CASE draft[request[r].id].status = "pending"
      <4>1. PICK c \in Drafts : c = request[r].id
        BY <2>3 DEF Shape, Shaped, Load
      <4>2. /\ request'[r].id = c /\ request'[r].entity.status \in {"pending", "rejected"}
            /\ request'[r].entity.action = draft[c].action
            /\ IF request'[r].op = "approve"
               THEN request'[r].phase = "dedup" /\ request'[r].entity = draft[c]
               ELSE request'[r].phase = "save"
        BY <2>3, <3>1, <4>1, LoadBecomes
      <4>3. ghost'.fresh = ghost.fresh \cup {r} /\ ghost'.torn = ghost.torn /\ ghost'.posted = ghost.posted
        BY <2>3, <3>1, LoadMarks DEF Load, MayChange
      <4>4. Sound(d)
        BY <4>3 DEF AllSound
      <4>5. RequestSound(r, d)'
        <5>1. CASE c # d
          <6>1. ~WorksOn(r, d)'
            BY <4>2, <5>1 DEF WorksOn
          <6> QED BY <6>1, NotAtWorkThen
        <5>2. CASE c = d
          <6>1. draft[d].status = "pending" /\ draft[d].action = NoKey /\ draft' = draft
            BY <3>0, <3>1, <4>1, <4>4, <5>2 DEF Sound, RowSound
          <6>2. EditSound(r, d)'
            BY <4>2, <5>2, <6>1 DEF EditSound, At
          <6>3. ApproveSound(r, d)'
            BY <4>2, <5>2, <6>1 DEF ApproveSound, At
          <6>4. IdleSound(r, d)'
            BY <4>2 DEF IdleSound, At
          <6> QED BY <6>2, <6>3, <6>4 DEF RequestSound
        <5> QED BY <5>1, <5>2
      <4> QED BY <2>0, <3>0, <4>3, <4>4, <4>5, SoundStays
    <3>2. CASE draft[request[r].id].status # "pending"
      <4>1. Answer(r) /\ UNCHANGED ghost
        BY <2>3, <3>2 DEF Load, MayChange
      <4>2. Sound(d)
        BY <4>1 DEF AllSound
      <4> QED BY <2>0, <2>1, <3>0, <4>1, <4>2, NotAtWorkThen, SoundStays
    <3> QED BY <3>1, <3>2
  <2>4. CASE Dedup(r)
    <3>1. UNCHANGED <<draft, posts, ghost, used>> /\ At(r, "dedup") /\ ~WillTell(r, d)
      BY <2>4 DEF Dedup, WillTell, At
    <3>2. Sound(d) /\ RequestSound(r, d)
      BY <3>1 DEF AllSound, Sound
    <3>3. RequestSound(r, d)'
      <4>1. CASE Answer(r)
        BY <2>1, <4>1, NotAtWorkThen
      <4>2. CASE Goto(r, "enqueue")
        <5>1. /\ request'[r].id = request[r].id /\ request'[r].op = request[r].op
              /\ request'[r].entity = request[r].entity /\ request'[r].phase = "enqueue"
          BY <4>2, GotoBecomes
        <5>2. request[r].phase \in Working /\ draft'[d] = draft[d]
          BY <3>1 DEF Working, At
        <5> QED BY <3>1, <3>2, <5>1, <5>2, GoesOn
      <4> QED BY <2>4, <4>1, <4>2 DEF Dedup
    <3> QED BY <2>0, <3>1, <3>2, <3>3, SoundStays
  <2>5. CASE EnqueuePost(r)
    <3>1. /\ request'[r].phase = "remember" /\ request'[r].id = request[r].id
          /\ request'[r].op = request[r].op /\ request'[r].entity.status = "approved"
          /\ request'[r].entity.text = request[r].entity.text /\ posts \subseteq posts'
      BY <2>5, EnqueueBecomes
    <3>2. /\ UNCHANGED <<draft, used>> /\ At(r, "enqueue")
          /\ ghost'.fresh = ghost.fresh /\ ghost'.torn = ghost.torn
          /\ ghost'.posted = ghost.posted \cup ({request[r].id} \ {NoDraft})
      BY <2>5, PostMarks DEF EnqueuePost
    <3>3. Sound(d) /\ RequestSound(r, d)
      BY <3>2 DEF AllSound, Sound
    <3>4. RequestSound(r, d)'
      <4>1. CASE request[r].id # d
        <5>1. ~WorksOn(r, d)'
          BY <3>1, <4>1 DEF WorksOn
        <5> QED BY <5>1, NotAtWorkThen
      <4>2. CASE request[r].id = d
        <5>1. request[r].op = "approve" /\ WorksOn(r, d)
          BY <2>0, <3>2, <4>2 DEF Shaped, WorksOn, Working, At
        <5>2. EditSound(r, d)' /\ IdleSound(r, d)'
          BY <3>1, <5>1 DEF EditSound, IdleSound, At
        <5>3. ApproveSound(r, d)'
          BY <3>1, <3>2, <3>3, <5>1 DEF RequestSound, ApproveSound, At
        <5> QED BY <5>2, <5>3 DEF RequestSound
      <4> QED BY <4>1, <4>2
    <3>5. (d \in ghost'.posted => d \in ghost.posted \/ WillTell(r, d)') /\ ~WillTell(r, d)
      BY <3>1, <3>2 DEF WillTell, At
    <3> QED BY <2>0, <3>1, <3>2, <3>3, <3>4, <3>5, SoundStays
  <2>6. CASE Remember(r)
    <3>1. UNCHANGED <<draft, posts, ghost, used>> /\ At(r, "remember")
      BY <2>6 DEF Remember
    <3>2. Sound(d) /\ RequestSound(r, d)
      BY <3>1 DEF AllSound, Sound
    <3>3. RequestSound(r, d)' /\ (WillTell(r, d) => WillTell(r, d)')
      <4>1. CASE request[r].id = NoDraft
        <5>1. Answer(r)
          BY <2>6, <4>1 DEF Remember
        <5> QED BY <2>1, <4>1, <5>1, NotAtWorkThen DEF WillTell
      <4>2. CASE request[r].id # NoDraft
        <5>1. Goto(r, "save")
          BY <2>6, <4>2 DEF Remember
        <5>2. /\ request'[r].phase = "save" /\ request'[r].id = request[r].id
              /\ request'[r].op = request[r].op /\ request'[r].entity = request[r].entity
          BY <5>1, GotoBecomes
        <5>3. request[r].phase \in Working /\ draft'[d] = draft[d] /\ (WillTell(r, d) => WillTell(r, d)')
          BY <3>1, <5>2 DEF Working, WillTell, At
        <5> QED BY <3>1, <3>2, <5>2, <5>3, GoesOn
      <4> QED BY <4>1, <4>2
    <3> QED BY <2>0, <3>1, <3>2, <3>3, SoundStays
  <2>7. CASE Save(r)
    <3>1. UNCHANGED <<draft, posts, ghost, used>> /\ At(r, "save")
      BY <2>7 DEF Save
    <3>2. Sound(d) /\ RequestSound(r, d)
      BY <3>1 DEF AllSound, Sound
    <3>3. /\ request'[r].phase = "update" /\ request'[r].id = request[r].id
          /\ request'[r].op = request[r].op /\ request'[r].entity = request[r].entity
          /\ request'[r].columns = Differing(draft[request[r].id], request[r].entity)
      BY <2>7, SaveBecomes
    <3>4. WillTell(r, d) => WillTell(r, d)'
      BY <3>1, <3>3 DEF WillTell, At
    <3>5. RequestSound(r, d)'
      <4>1. CASE request[r].id # d
        <5>1. ~WorksOn(r, d)'
          BY <3>3, <4>1 DEF WorksOn
        <5> QED BY <5>1, NotAtWorkThen
      <4>2. CASE request[r].id = d
        <5>1. WorksOn(r, d) /\ request[r].entity \in Draft /\ draft[d] \in Draft
          BY <2>0, <3>1, <4>2 DEF WorksOn, Working, At, Request, TypeOK
        <5>2. EditSound(r, d)'
          BY <3>1, <3>2, <3>3, <4>2, <5>1 DEF RequestSound, EditSound, At
        <5>3. ApproveSound(r, d)'
          <6> SUFFICES ASSUME r \in ghost.fresh, request[r].op = "approve", draft[d].status # "approved"
                       PROVE  {"status", "action"} \subseteq request'[r].columns
            BY <3>1, <3>2, <3>3, <5>1 DEF RequestSound, ApproveSound, At
          <6>1. draft[d].status = "pending" /\ draft[d].action = NoKey
            BY <3>2, <5>1 DEF RequestSound, ApproveSound, Sound, RowSound
          <6>2. request[r].entity.status = "approved" /\ request[r].entity.action \in Key
            BY <2>0, <3>1 DEF Shaped, TrueEntity, Truthful, At, TypeOK
          <6> QED BY <3>3, <4>2, <5>1, <6>1, <6>2, DifferingOf, NoKeyIsNoKey
        <5>4. IdleSound(r, d)'
          <6>1. ASSUME WillTell(r, d)', request'[r].columns = {} PROVE draft'[d].status = "approved"
            BY <3>1, <3>3, <4>2, <5>1, <6>1, DifferingOf DEF WillTell
          <6> QED BY <6>1 DEF IdleSound
        <5> QED BY <5>2, <5>3, <5>4 DEF RequestSound
      <4> QED BY <4>1, <4>2
    <3> QED BY <2>0, <3>1, <3>2, <3>4, <3>5, SoundStays
  <2>8. CASE Update(r)
    <3>1. d \notin ghost.torn
      <4>1. ghost.torn \subseteq ghost'.torn
        <5>1. request[r].id \in Drafts /\ ghost' = Overtake(r)
          BY <2>0, <2>8 DEF Shaped, Update, At
        <5> QED BY <5>1, OvertakeType
      <4> QED BY <4>1
    <3>2. Sound(d)
      BY <3>1 DEF AllSound
    <3> QED BY <1>0, <2>0, <2>8, <3>2, SoundUpdated
  <2>9. CASE RequestFails(r)
    <3>1. UNCHANGED <<draft, posts, ghost>> /\ Sound(d) /\ Answer(r)
      BY <2>9 DEF RequestFails, AllSound
    <3>2. used'.faults # 0
      BY <1>0, <2>9 DEF RequestFails
    <3> QED BY <2>0, <2>1, <3>1, <3>2, NotAtWorkThen, SoundStays
  <2> QED BY <1>1, <2>2, <2>3, <2>4, <2>5, <2>6, <2>7, <2>8, <2>9 DEF RequestStep
<1>2. CASE CreateDraft
  <2>1. PICK c \in Drafts : /\ draft[c].status = "absent" /\ draft'[c].status = "pending"
                            /\ draft'[c].action = NoKey
                            /\ \A b \in Drafts : b # c => draft'[b] = draft[b]
    BY <1>2, CreateDraws
  <2>2. UNCHANGED <<posts, request, ghost, used>> /\ Sound(d)
    BY <1>2 DEF CreateDraft, AllSound
  <2>3. CASE c # d
    <3>1. draft'[d] = draft[d]
      BY <2>1, <2>3
    <3> QED BY <2>2, <3>1 DEF Sound, RowSound, Truthful, Promised, RequestSound, EditSound,
                              ApproveSound, IdleSound, WillTell, WorksOn, At
  <2>4. CASE c = d
    <3>1. \A q \in Requests : request[q].id # d
      BY <2>1, <2>4 DEF Shape, Shaped
    <3>2. \A q \in Requests : ~WorksOn(q, d)' /\ ~WillTell(q, d)
      BY <2>2, <3>1 DEF WorksOn, WillTell
    <3>3. \A q \in Requests : RequestSound(q, d)'
      BY <3>2, NotAtWorkThen
    <3>4. RowSound(d)'
      BY <2>1, <2>4 DEF RowSound, Truthful
    <3>5. Promised(d)'
      BY <2>1, <2>2, <2>4, <3>2 DEF Sound, Promised
    <3> QED BY <3>3, <3>4, <3>5 DEF Sound
  <2> QED BY <2>3, <2>4
<1>3. CASE HourPasses \/ UNCHANGED vars
  <2>1. UNCHANGED <<draft, posts, request, ghost, used>> /\ Sound(d)
    BY <1>3 DEF HourPasses, vars, AllSound
  <2> QED BY <2>1 DEF Sound, RowSound, Truthful, Promised, RequestSound, EditSound, ApproveSound,
                      IdleSound, WillTell, WorksOn, At
<1> QED BY <1>1, <1>2, <1>3 DEF Next

-----------------------------------------------------------------------------
(* A text that is remembered is not posted again.                          *)

LEMMA Counted ==
    ASSUME NEW S, IsFiniteSet(S), NEW T, T \subseteq S
    PROVE  /\ IsFiniteSet(T) /\ Cardinality(T) \in Nat /\ Cardinality(S) \in Nat
           /\ Cardinality(T) <= Cardinality(S)
BY FS_Subset, FS_CardinalityType

LEMMA AtMostOneMore ==
    ASSUME NEW S, IsFiniteSet(S), NEW x, NEW T, T \subseteq S \cup {x}
    PROVE  /\ IsFiniteSet(T) /\ Cardinality(T) \in Nat /\ Cardinality(S) \in Nat
           /\ Cardinality(T) <= Cardinality(S) + 1
<1>1. /\ IsFiniteSet(S \cup {x}) /\ Cardinality(S) \in Nat
      /\ Cardinality(S \cup {x}) = Cardinality(S) \/ Cardinality(S \cup {x}) = Cardinality(S) + 1
  BY FS_AddElement, FS_CardinalityType
<1>2. /\ IsFiniteSet(T) /\ Cardinality(T) \in Nat /\ Cardinality(S \cup {x}) \in Nat
      /\ Cardinality(T) <= Cardinality(S \cup {x})
  BY <1>1, Counted
<1> QED BY <1>1, <1>2

LEMMA OneMore ==
    ASSUME NEW S, IsFiniteSet(S), NEW x, x \notin S
    PROVE  /\ IsFiniteSet(S \cup {x}) /\ Cardinality(S) \in Nat
           /\ Cardinality(S \cup {x}) = Cardinality(S) + 1
BY FS_AddElement, FS_CardinalityType

LEMMA Apart ==
    ASSUME NEW S, IsFiniteSet(S), NEW A, NEW B, A \subseteq S, B \subseteq S, A \cap B = {}
    PROVE  Cardinality(A) + Cardinality(B) <= Cardinality(S)
<1>1. /\ IsFiniteSet(A) /\ IsFiniteSet(B) /\ Cardinality(A) \in Nat /\ Cardinality(B) \in Nat
  BY Counted
<1>2. IsFiniteSet(A \cup B) /\ Cardinality(A \cup B) <= Cardinality(S)
  BY <1>1, Counted
<1>3. Cardinality(A \cap B) = 0
  BY FS_EmptySet
<1>4. Cardinality(A \cup B) = Cardinality(A) + Cardinality(B) - Cardinality(A \cap B)
  BY <1>1, FS_Union
<1>5. Cardinality(A \cup B) = Cardinality(A) + Cardinality(B)
  BY <1>1, <1>3, <1>4
<1> QED BY <1>2, <1>5

\* What is counted can be.
Numerable ==
    /\ Cardinality(Requests) \in Nat /\ used.faults \in Nat /\ Len(memory) \in Nat
    /\ \A t \in Texts :
         /\ IsFiniteSet(KeysOf(t)) /\ Cardinality(KeysOf(t)) \in Nat
         /\ IsFiniteSet(Posting(t)) /\ Cardinality(Posting(t)) \in Nat
         /\ IsFiniteSet(Posted(t)) /\ Cardinality(Posted(t)) \in Nat
         /\ Cardinality(Posting(t)) + Cardinality(Posted(t)) <= Cardinality(Requests)

LEMMA Numbers == TypeOK /\ IsFiniteSet(posts) => Numerable
<1> SUFFICES ASSUME TypeOK, IsFiniteSet(posts) PROVE Numerable
  OBVIOUS
<1>1. Cardinality(Requests) \in Nat /\ used.faults \in Nat /\ Len(memory) \in Nat
  BY AgentConstants, FS_CardinalityType DEF TypeOK
<1>2. ASSUME NEW t \in Texts
      PROVE  /\ IsFiniteSet(KeysOf(t)) /\ Cardinality(KeysOf(t)) \in Nat
             /\ IsFiniteSet(Posting(t)) /\ Cardinality(Posting(t)) \in Nat
             /\ IsFiniteSet(Posted(t)) /\ Cardinality(Posted(t)) \in Nat
             /\ Cardinality(Posting(t)) + Cardinality(Posted(t)) <= Cardinality(Requests)
  <2>1. KeysOf(t) \subseteq posts /\ Posting(t) \subseteq Requests /\ Posted(t) \subseteq Requests
          /\ Posting(t) \cap Posted(t) = {}
    BY DEF KeysOf, Posting, Posted, At
  <2>2. IsFiniteSet(KeysOf(t)) /\ Cardinality(KeysOf(t)) \in Nat
    BY <2>1, Counted
  <2>3. /\ IsFiniteSet(Posting(t)) /\ Cardinality(Posting(t)) \in Nat
        /\ IsFiniteSet(Posted(t)) /\ Cardinality(Posted(t)) \in Nat
    BY <2>1, Counted, AgentConstants
  <2>4. Cardinality(Posting(t)) + Cardinality(Posted(t)) <= Cardinality(Requests)
    BY <2>1, Apart, AgentConstants
  <2> QED BY <2>2, <2>3, <2>4
<1> QED BY <1>1, <1>2 DEF Numerable

PostsFinite == IsFiniteSet(posts)

LEMMA NumbersThen == TypeOK' /\ IsFiniteSet(posts') => Numerable'
<1>1. TypeOK /\ PostsFinite => Numerable
  BY Numbers DEF PostsFinite
<1>2. TypeOK' /\ PostsFinite' => Numerable'
  BY <1>1, PTL
<1> QED BY <1>2 DEF PostsFinite

\* A step that queues no post, and after which no more requests are to.
LEMMA FewStays ==
    ASSUME TypeOK, TypeOK', AllFew, NEW t \in Texts,
           posts' = posts, Told(t)' <=> Told(t), Len(memory) <= Len(memory'),
           used.faults <= used'.faults, Posted(t) \subseteq Posted(t)',
           Told(t) /\ Len(memory) <= MaxRecent => Posting(t)' \subseteq Posting(t)
    PROVE  Few(t)'
<1>1. Few(t) /\ IsFiniteSet(posts) /\ KeysOf(t)' = KeysOf(t) /\ IsFiniteSet(posts)'
  BY DEF AllFew, KeysOf
<1>2. /\ Cardinality(Requests) \in Nat /\ used.faults \in Nat /\ Len(memory) \in Nat
      /\ Cardinality(KeysOf(t)) \in Nat
      /\ Cardinality(Posted(t)) \in Nat /\ IsFiniteSet(Posting(t)) /\ Cardinality(Posting(t)) \in Nat
  BY <1>1, Numbers DEF Numerable
<1>3. /\ used'.faults \in Nat /\ Len(memory') \in Nat
      /\ IsFiniteSet(Posted(t)') /\ Cardinality(Posted(t)') \in Nat
      /\ Cardinality(Posting(t)') \in Nat
  BY <1>1, NumbersThen DEF Numerable
<1>4. Cardinality(Posted(t)) <= Cardinality(Posted(t)')
  BY <1>1, <1>3, Counted
<1>5. Told(t) /\ Len(memory) <= MaxRecent => Cardinality(Posting(t)') <= Cardinality(Posting(t))
  BY <1>2, Counted
<1>6. ASSUME ~Told(t)' PROVE Cardinality(KeysOf(t)') <= Cardinality(Posted(t)') + used'.faults
  BY <1>1, <1>2, <1>3, <1>4, <1>6 DEF Few
<1>7. ASSUME Told(t)', Len(memory') <= MaxRecent
      PROVE  Cardinality(KeysOf(t)') + Cardinality(Posting(t)') <= Cardinality(Requests) + used'.faults
  <2>1. Told(t) /\ Len(memory) <= MaxRecent
    BY <1>2, <1>1, <1>3, <1>7, AgentConstants
  <2> QED BY <1>1, <1>2, <1>3, <1>5, <2>1 DEF Few
<1> QED BY <1>6, <1>7 DEF Few

LEMMA FewKept ==
    ASSUME TypeOK, Shape, AllFew, [Next]_vars
    PROVE  AllFew'
<1>0. TypeOK' /\ IsFiniteSet(posts) /\ Numerable
  BY TypesKept, Numbers DEF AllFew
<1>1. ASSUME NEW r \in Requests, RequestStep(r) PROVE AllFew'
  <2>0. Becomes(r, request'[r]) /\ Shaped(r)
    BY <1>1, RequestTypes DEF Shape
  <2>1. ASSUME UNCHANGED <<memory, posts, used>>, ~At(r, "remember"),
               \A t \in Texts : Told(t) /\ Len(memory) <= MaxRecent => ~(r \in Posting(t)' /\ r \notin Posting(t))
        PROVE  AllFew'
    <3>1. ASSUME NEW t \in Texts PROVE Few(t)'
      <4>1. Posted(t) \subseteq Posted(t)'
        BY <2>0, <2>1 DEF Posted, At, Becomes
      <4>2. Told(t) /\ Len(memory) <= MaxRecent => Posting(t)' \subseteq Posting(t)
        BY <2>0, <2>1 DEF Posting, At, Becomes
      <4> QED BY <1>0, <2>1, <4>1, <4>2, FewStays DEF Told, Numerable
    <3> QED BY <1>0, <2>1, <3>1 DEF AllFew
  <2>2. CASE Begin(r)
    <3>1. UNCHANGED <<memory, posts>> /\ At(r, "idle") /\ used' = [used EXCEPT !.requests = @ + 1]
      BY <2>2, Zenon DEF Begin
    <3>2. used'.faults = used.faults
      BY <3>1 DEF TypeOK
    <3>3. request'[r].phase \in {"load", "dedup"}
      BY <2>2, BeginBecomes
    <3>4. ASSUME NEW t \in Texts PROVE Few(t)'
      <4>1. Posted(t) \subseteq Posted(t)' /\ Posting(t)' \subseteq Posting(t)
        BY <2>0, <3>1, <3>3 DEF Posted, Posting, At, Becomes
      <4> QED BY <1>0, <3>1, <3>2, <4>1, FewStays DEF Told, Numerable
    <3> QED BY <1>0, <3>1, <3>4 DEF AllFew
  <2>3. CASE Load(r)
    <3>1. UNCHANGED <<memory, posts, used>> /\ At(r, "load")
      BY <2>3 DEF Load
    <3>2. request'[r].phase # "enqueue"
      <4>1. CASE draft[request[r].id].status = "pending"
        <5>1. PICK d \in Drafts : d = request[r].id
          BY <2>3 DEF Shape, Shaped, Load
        <5> QED BY <2>3, <4>1, <5>1, LoadBecomes
      <4>2. CASE draft[request[r].id].status # "pending"
        <5>1. Answer(r)
          BY <2>3, <4>2 DEF Load, MayChange
        <5> QED BY <5>1, AnswerBecomes, Types
      <4> QED BY <4>1, <4>2
    <3> QED BY <2>1, <3>1, <3>2 DEF At, Posting
  <2>4. CASE Dedup(r)
    <3>1. UNCHANGED <<memory, posts, used>> /\ At(r, "dedup")
      BY <2>4 DEF Dedup
    <3>2. ASSUME NEW t \in Texts, Told(t), Len(memory) <= MaxRecent, r \in Posting(t)' PROVE FALSE
      <4>1. CASE Answer(r)
        BY <3>2, <4>1, AnswerBecomes, Types DEF Posting, At
      <4>2. CASE ~Remembered(request[r].entity.text) /\ Goto(r, "enqueue")
        <5>1. request'[r].entity = request[r].entity
          BY <4>2, GotoBecomes DEF Phase
        <5>2. request[r].entity.text = t
          BY <3>2, <5>1 DEF Posting
        <5>3. Remembered(t)
          <6>1. PICK i \in DOMAIN memory : memory[i] = t
            BY <3>2 DEF Told
          <6>2. DOMAIN memory = 1 .. Len(memory) /\ Len(memory) \in Nat
            BY DEF TypeOK
          <6>3. i > Len(memory) - MaxRecent
            BY <3>2, <6>1, <6>2, AgentConstants
          <6> QED BY <6>1, <6>3 DEF Remembered
        <5> QED BY <4>2, <5>2, <5>3
      <4> QED BY <2>4, <4>1, <4>2 DEF Dedup
    <3> QED BY <2>1, <3>1, <3>2 DEF At
  <2>5. CASE EnqueuePost(r)
    <3>1. PICK key \in Key :
            /\ key.text = request[r].entity.text /\ posts' = posts \cup {key}
            /\ request'[r].phase = "remember" /\ request'[r].entity.text = request[r].entity.text
      BY <2>5, EnqueueBecomes
    <3>2. UNCHANGED <<memory, used>> /\ At(r, "enqueue")
      BY <2>5 DEF EnqueuePost
    <3>3. IsFiniteSet(posts')
      BY <1>0, <3>1, FS_AddElement
    <3>4. Numerable'
      BY <1>0, <3>3, NumbersThen
    <3>5. ASSUME NEW t \in Texts PROVE Few(t)'
      <4>1. CASE key.text # t
        <5>1. KeysOf(t)' = KeysOf(t) /\ Posted(t)' = Posted(t) /\ Posting(t)' = Posting(t)
          BY <2>0, <3>1, <3>2, <4>1 DEF KeysOf, Posted, Posting, At, Becomes
        <5> QED BY <3>2, <5>1 DEF AllFew, Few, Told
      <4>2. CASE key.text = t
        <5>1. /\ KeysOf(t)' \subseteq KeysOf(t) \cup {key}
              /\ r \notin Posted(t) /\ Posted(t)' = Posted(t) \cup {r}
              /\ r \notin Posting(t)' /\ Posting(t) = Posting(t)' \cup {r}
          BY <2>0, <3>1, <3>2, <4>2 DEF KeysOf, Posted, Posting, At, Becomes
        <5>2. Cardinality(KeysOf(t)') <= Cardinality(KeysOf(t)) + 1
          BY <1>0, <5>1, AtMostOneMore DEF Numerable
        <5>3. Cardinality(Posted(t)') = Cardinality(Posted(t)) + 1
          BY <1>0, <5>1, OneMore DEF Numerable
        <5>4. Cardinality(Posting(t)) = Cardinality(Posting(t)') + 1
          BY <3>4, <5>1, OneMore DEF Numerable
        <5>5. /\ Cardinality(KeysOf(t)) \in Nat /\ Cardinality(KeysOf(t)') \in Nat
              /\ Cardinality(Posted(t)) \in Nat /\ Cardinality(Posting(t)') \in Nat
              /\ Cardinality(Requests) \in Nat /\ used.faults \in Nat
          BY <1>0, <3>4 DEF Numerable
        <5>6. Few(t) /\ (Told(t)' <=> Told(t)) /\ memory' = memory /\ used' = used
          BY <3>2 DEF AllFew, Told
        <5>7. ~Told(t) => Cardinality(KeysOf(t)') <= Cardinality(Posted(t)') + used.faults
          BY <5>2, <5>3, <5>5, <5>6 DEF Few
        <5>8. Told(t) /\ Len(memory) <= MaxRecent
                => Cardinality(KeysOf(t)') + Cardinality(Posting(t)') <= Cardinality(Requests) + used.faults
          BY <5>2, <5>4, <5>5, <5>6 DEF Few
        <5> QED BY <5>6, <5>7, <5>8 DEF Few
      <4> QED BY <4>1, <4>2
    <3> QED BY <3>3, <3>5 DEF AllFew
  <2>6. CASE Remember(r)
    <3>1. /\ UNCHANGED <<posts, used>> /\ At(r, "remember")
          /\ memory' = Append(memory, request[r].entity.text)
      BY <2>6 DEF Remember
    <3>2. request'[r].phase \notin {"enqueue", "remember"}
      <4>1. CASE Answer(r)
        BY <4>1, AnswerBecomes, Types
      <4>2. CASE Goto(r, "save")
        BY <4>2, GotoBecomes DEF Phase
      <4> QED BY <2>6, <4>1, <4>2 DEF Remember
    <3>3. PICK x \in Texts : x = request[r].entity.text
      BY <2>0, <3>1 DEF Shaped, At, Working
    <3>4. /\ memory \in Seq(Texts) /\ Len(memory') = Len(memory) + 1
          /\ DOMAIN memory = 1 .. Len(memory) /\ DOMAIN memory' = 1 .. Len(memory) + 1
          /\ Len(memory) \in Nat
          /\ memory'[Len(memory) + 1] = x /\ \A i \in DOMAIN memory : memory'[i] = memory[i]
      BY <3>1, <3>3 DEF TypeOK
    <3>5. ASSUME NEW t \in Texts PROVE Few(t)'
      <4>0. Posting(t)' \subseteq Posting(t)
        BY <2>0, <3>2 DEF Posting, At, Becomes
      <4>1. CASE t # x
        <5>1. Posted(t) \subseteq Posted(t)'
          BY <2>0, <3>3, <4>1 DEF Posted, At, Becomes
        <5>2. Told(t)' <=> Told(t)
          <6>1. ASSUME NEW i \in DOMAIN memory', memory'[i] = t PROVE i \in DOMAIN memory /\ memory[i] = t
            BY <3>3, <3>4, <4>1, <6>1
          <6>2. ASSUME NEW i \in DOMAIN memory, memory[i] = t PROVE i \in DOMAIN memory' /\ memory'[i] = t
            BY <3>4, <6>2
          <6> QED BY <6>1, <6>2, Zenon DEF Told
        <5>3. Len(memory) <= Len(memory') /\ used.faults <= used'.faults /\ posts' = posts
          BY <1>0, <3>1, <3>4 DEF Numerable
        <5> QED BY <1>0, <4>0, <5>1, <5>2, <5>3, FewStays
      <4>2. CASE t = x
        <5>1. Told(t)'
          <6>1. Len(memory) + 1 \in DOMAIN memory' /\ memory'[Len(memory) + 1] = t
            BY <3>4, <4>2
          <6> QED BY <6>1, Zenon DEF Told
        <5>2. /\ Cardinality(KeysOf(t)) \in Nat /\ Cardinality(Posted(t)) \in Nat
              /\ IsFiniteSet(Posting(t)) /\ Cardinality(Posting(t)) \in Nat
              /\ Cardinality(Requests) \in Nat /\ used.faults \in Nat /\ Len(memory) \in Nat
              /\ Cardinality(Posting(t)) + Cardinality(Posted(t)) <= Cardinality(Requests)
          BY <1>0 DEF Numerable
        <5>3. Cardinality(Posting(t)') <= Cardinality(Posting(t)) /\ Cardinality(Posting(t)') \in Nat
          BY <4>0, <5>2, Counted
        <5>4. KeysOf(t)' = KeysOf(t) /\ Few(t) /\ used' = used
          BY <3>1 DEF AllFew, KeysOf
        <5>5. ASSUME Len(memory') <= MaxRecent
              PROVE  Cardinality(KeysOf(t)') + Cardinality(Posting(t)') <= Cardinality(Requests) + used'.faults
          <6>1. Len(memory) <= MaxRecent
            BY <3>4, <5>2, <5>5, AgentConstants
          <6>2. CASE Told(t)
            BY <5>2, <5>3, <5>4, <6>1, <6>2 DEF Few
          <6>3. CASE ~Told(t)
            BY <5>2, <5>3, <5>4, <6>3 DEF Few
          <6> QED BY <6>2, <6>3
        <5> QED BY <5>1, <5>5 DEF Few
      <4> QED BY <4>1, <4>2
    <3> QED BY <1>0, <3>1, <3>5 DEF AllFew
  <2>7. CASE Save(r)
    <3>1. UNCHANGED <<memory, posts, used>> /\ At(r, "save")
      BY <2>7 DEF Save
    <3>2. request'[r].phase # "enqueue"
      BY <2>7, SaveBecomes
    <3> QED BY <2>1, <3>1, <3>2 DEF At, Posting
  <2>8. CASE Update(r)
    <3>1. UNCHANGED <<memory, posts, used>> /\ At(r, "update")
      BY <2>8 DEF Update
    <3>2. request'[r].phase # "enqueue"
      BY <2>8, UpdateBecomes, Types
    <3> QED BY <2>1, <3>1, <3>2 DEF At, Posting
  <2>9. CASE RequestFails(r)
    <3>1. UNCHANGED <<memory, posts>> /\ Answer(r) /\ used'.faults = used.faults + 1
      BY <2>9 DEF RequestFails, TypeOK
    <3>2. request'[r].phase = "idle"
      BY <3>1, AnswerBecomes, Types
    <3>3. Numerable'
      BY <1>0, <3>1, NumbersThen
    <3>4. ASSUME NEW t \in Texts PROVE Few(t)'
      <4>1. /\ KeysOf(t)' = KeysOf(t) /\ Posting(t)' \subseteq Posting(t)
            /\ Posted(t) \subseteq Posted(t)' \cup {r} /\ Few(t) /\ (Told(t)' <=> Told(t))
        BY <2>0, <3>1, <3>2 DEF KeysOf, Posted, Posting, At, Becomes, AllFew, Told
      <4>2. Cardinality(Posting(t)') <= Cardinality(Posting(t))
        BY <1>0, <4>1, Counted DEF Numerable
      <4>3. Cardinality(Posted(t)) <= Cardinality(Posted(t)') + 1
        BY <3>3, <4>1, AtMostOneMore DEF Numerable
      <4>4. /\ Cardinality(KeysOf(t)) \in Nat /\ Cardinality(Posted(t)) \in Nat
            /\ Cardinality(Posted(t)') \in Nat
            /\ Cardinality(Posting(t)) \in Nat /\ Cardinality(Posting(t)') \in Nat
            /\ Cardinality(Requests) \in Nat /\ used.faults \in Nat
        BY <1>0, <3>3 DEF Numerable
      <4>5. ~Told(t)' => Cardinality(KeysOf(t)') <= Cardinality(Posted(t)') + used'.faults
        BY <3>1, <4>1, <4>3, <4>4 DEF Few
      <4>6. Told(t)' /\ Len(memory') <= MaxRecent
              => Cardinality(KeysOf(t)') + Cardinality(Posting(t)') <= Cardinality(Requests) + used'.faults
        BY <3>1, <4>1, <4>2, <4>4 DEF Few
      <4> QED BY <4>5, <4>6 DEF Few
    <3> QED BY <1>0, <3>1, <3>4 DEF AllFew
  <2> QED BY <1>1, <2>2, <2>3, <2>4, <2>5, <2>6, <2>7, <2>8, <2>9 DEF RequestStep
<1>2. CASE CreateDraft \/ HourPasses \/ UNCHANGED vars
  <2>1. UNCHANGED <<memory, posts, request, used>>
    BY <1>2 DEF CreateDraft, HourPasses, vars
  <2>2. \A t \in Texts : Few(t)'
    BY <2>1 DEF AllFew, Few, Told, KeysOf, Posted, Posting, At
  <2> QED BY <2>1, <2>2 DEF AllFew
<1> QED BY <1>1, <1>2 DEF Next

-----------------------------------------------------------------------------
LEMMA InitInvariant == Init => IInv
<1> SUFFICES ASSUME Init PROVE IInv
  OBVIOUS
<1> USE AgentConstants, Types DEF Init
<1>1. TypeOK
  BY DEF TypeOK, Hours, Ghost
<1>2. Shape
  BY DEF Shape, Shaped, At, Working
<1>3. AllTruthful
  BY DEF AllTruthful, NamesAPost, TrueEntity, Truthful, Named
<1>4. AllSound
  <2>1. ASSUME NEW d \in Drafts PROVE RowSound(d) /\ Promised(d)
    BY DEF RowSound, Truthful, Promised
  <2>2. ASSUME NEW d \in Drafts, NEW r \in Requests PROVE RequestSound(r, d)
    <3>1. ~WorksOn(r, d)
      BY DEF WorksOn
    <3> QED BY <3>1, NotAtWork
  <2> QED BY <2>1, <2>2 DEF AllSound, Sound
<1>5. AllFew
  <2>1. IsFiniteSet(posts)
    BY FS_EmptySet
  <2>2. Numerable
    BY <1>1, <2>1, Numbers
  <2>3. \A t \in Texts : ~Told(t) /\ KeysOf(t) = {}
    BY DEF Told, KeysOf
  <2>4. \A t \in Texts : Cardinality(KeysOf(t)) = 0 /\ Cardinality(Posted(t)) \in Nat
    BY <2>2, <2>3, FS_EmptySet DEF Numerable
  <2>5. used.faults = 0
    OBVIOUS
  <2>6. \A t \in Texts : Few(t)
    BY <2>3, <2>4, <2>5 DEF Few
  <2> QED BY <2>1, <2>6 DEF AllFew
<1> QED BY <1>1, <1>2, <1>3, <1>4, <1>5 DEF IInv

\* For any number of requests on drafts (AgentDraftService) and of publish()
\* (PublishOrchestratorService), interleaved and failing anywhere, with the SELECT and the
\* UPDATE of each save() apart: types, true entities, drafts that are not torn, and posts
\* counted are inductive together.
THEOREM InductiveInvariant == Spec => []IInv
<1>1. IInv /\ [Next]_vars => IInv'
  BY TypesKept, TruthKept, SoundKept, FewKept DEF IInv
<1> QED BY InitInvariant, <1>1, PTL DEF Spec

LEMMA InvariantTells == IInv => DraftsTellTheTruth
<1> SUFFICES ASSUME IInv PROVE ApprovedIsPosted /\ PostedIsApproved
  BY DEF DraftsTellTheTruth, IInv, AllTruthful
<1>1. ApprovedIsPosted
  BY DEF IInv, AllSound, Sound, RowSound, Truthful, ApprovedIsPosted
<1>2. ASSUME NEW d \in ghost.posted, d \notin ghost.torn, ~(used.faults > 0),
             draft[d].status # "approved"
      PROVE  \E r \in Requests : request[r].id = d
  <2>1. d \in Drafts /\ used.faults = 0
    BY <1>2, AgentConstants DEF IInv, TypeOK, Ghost
  <2>2. Promised(d)
    BY <1>2, <2>1 DEF IInv, AllSound, Sound
  <2> QED BY <1>2, <2>1, <2>2 DEF Promised, WillTell
<1> QED BY <1>1, <1>2 DEF PostedIsApproved

\* Whatever requests overlap, save() of an AgentDraftEntity never makes it name a post that
\* is not queued, nor approved without one.  Only two UPDATEs of which the later has not
\* seen the earlier (one of them an edit or a rejection) can make it name a post with
\* another text; only they and a failure leave a draft pending whose post is queued.
THEOREM DraftsTold == Spec => []DraftsTellTheTruth
BY InductiveInvariant, InvariantTells, PTL

LEMMA InvariantCounts == IInv => PostsAreFew
<1> SUFFICES ASSUME IInv, Len(memory) <= MaxRecent, NEW t \in Texts
             PROVE  Cardinality(KeysOf(t)) <= Cardinality(Requests) + used.faults
  BY DEF PostsAreFew, KeysOf
<1>1. Few(t) /\ Numerable
  BY Numbers DEF IInv, AllFew
<1> QED BY <1>1 DEF Few, Numerable

\* similarityReason() before enqueuePost, and ContentMemoryService.add() after it: no text is
\* queued more often than there are requests at a time, and failures before add().
THEOREM FewPosts == Spec => []PostsAreFew
BY InductiveInvariant, InvariantCounts, PTL
=============================================================================
