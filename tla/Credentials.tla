---------------------------- MODULE Credentials ----------------------------
(***************************************************************************)
(* How a user's API keys come into being: a magic link buys a web session, *)
(* an OAuth code buys the key of an OAuth client (token()), which replaces *)
(* the client's former one.  One user; the rows of another have nothing to *)
(* do with them.                                                           *)
(*                                                                         *)
(* Any number of processes serve requests.  OAuth codes are in Redis, or   *)
(* without REDIS_URL in the memory of the process that issued them.        *)
(* Hashes, names, scopes and secrets are left out.                         *)
(***************************************************************************)
EXTENDS Naturals, FiniteSets, Sequences, SequencesExt

CONSTANTS
    Processes,  \* the backend processes
    Clients,    \* the registered OAuth clients
    Codes,      \* the authorization codes there will be
    Links,      \* the magic links there will be
    Requests,   \* requests that may be under way at once
    NoProof,    \* what an idle request carries
    WebSession, \* whose key a magic link buys
    Cap,        \* OAUTH_CODE_STORE_IN_MEMORY_CAP
    MaxKeys,    \* bound on the keys issued
    MaxRefused, \* bound on the codes refused
    MaxFaults   \* bound on rejected awaits, crashes and revocations

ASSUME CredentialsAssumption ==
    /\ Cap \in Nat \ {0}
    /\ {MaxKeys, MaxRefused, MaxFaults} \subseteq Nat
    /\ WebSession \notin Clients
    /\ NoProof \notin Codes \cup Links
    /\ Codes \cap Links = {}
    /\ IsFiniteSet(Codes)
    /\ "redis" \notin Processes

VARIABLES
    redis,    \* whether REDIS_URL is set
    code,     \* each code: the client it was issued to, and whether its minute runs
    store,    \* where the codes are: in Redis, and in the memory of each process
    link,     \* the database: the row of each magic link
    keys,     \* the database: the rows of api_keys
    request,  \* token() and AuthController.consume
    excused,  \* ghost: the clients that lost their key to a revocation or a fault
    count     \* how many faults and refused codes there were (bounds)

vars == <<redis, code, store, link, keys, request, excused, count>>

-----------------------------------------------------------------------------
Proofs == Codes \cup Links
Holders == Clients \cup {WebSession}

Redis == "redis"
Places == Processes \cup {Redis}

Key == [proof : Proofs, holder : Holders, active : BOOLEAN]

\* Where a request is.  Each phase but "idle" is an await:
\*   replace  issueOAuthKey revokes the client's active key
\*   insert   ApiKeyService.create
Request == [phase : {"idle", "replace", "insert"}, process : Processes,
            proof : Proofs, holder : Holders]

NoRequest == [phase |-> "idle", proof |-> NoProof]

TypeOK ==
    /\ redis \in BOOLEAN
    /\ code \in [Codes -> [client : Holders, live : BOOLEAN]]
    /\ store \in [Places -> SUBSET Codes]
    /\ \A p \in Processes : Cardinality(store[p]) <= Cap
    /\ link \in [Links -> {"none", "sent", "consumed", "expired"}]
    /\ keys \in Seq(Key)
    /\ request \in [Requests -> Request \cup {NoRequest}]
    /\ excused \subseteq Clients
    /\ count \in [faults : 0 .. MaxFaults, refused : 0 .. MaxRefused]

\* A code that was not issued is WebSession's, and not live.
Unissued == [client |-> WebSession, live |-> FALSE]

Init ==
    /\ redis \in BOOLEAN
    /\ code = [k \in Codes |-> Unissued]
    /\ store = [x \in Places |-> {}]
    /\ link = [l \in Links |-> "none"]
    /\ keys = <<>>
    /\ request = [r \in Requests |-> NoRequest]
    /\ excused = {}
    /\ count = [faults |-> 0, refused |-> 0]

-----------------------------------------------------------------------------
(* Helpers.                                                                *)

Live(S) == {k \in S : code[k].live}

\* The store that a request on process p uses.
Place(p) == IF redis THEN Redis ELSE p

At(r, phase) == request[r].phase = phase

Goto(r, phase) == request' = [request EXCEPT ![r].phase = phase]

Ends(r) == request' = [request EXCEPT ![r] = NoRequest]

Carries(r, phase, p, proof, holder) ==
    request' = [request EXCEPT ![r] = [phase |-> phase, process |-> p,
                                       proof |-> proof, holder |-> holder]]

Fault ==
    /\ count.faults < MaxFaults
    /\ count' = [count EXCEPT !.faults = @ + 1]

\* The active key of an OAuth client.
IsActive(key, c) == key.holder = c /\ key.active

HasActiveKey(c) == \E i \in DOMAIN keys : IsActive(keys[i], c)

\* update(api_keys, revoked_at): no key of c is active any more.
RevokeKeysOf(c) ==
    keys' = [i \in DOMAIN keys |->
                IF IsActive(keys[i], c) THEN [keys[i] EXCEPT !.active = FALSE] ELSE keys[i]]

-----------------------------------------------------------------------------
(* OAuth.                                                                  *)

\* Mutant of Swept: what has expired stays.
Unswept(S) == S

\* sweepInMemory.
Swept(S) == Live(S)

IsFull(S) == Cardinality(S) >= Cap

\* authorizeConfirm: the user allows, and the client will get a code; or put() finds the
\* memory full.
AuthorizeConfirm(p, c, k) ==
    /\ code[k] = Unissued
    /\ LET x == Place(p)
           kept == IF redis THEN store[x] ELSE Swept(store[x])
       IN  IF ~redis /\ IsFull(kept)
           THEN /\ count.refused < MaxRefused
                /\ count' = [count EXCEPT !.refused = @ + 1]
                /\ store' = [store EXCEPT ![x] = kept]
                /\ UNCHANGED code
           ELSE /\ store' = [store EXCEPT ![x] = kept \cup {k}]
                /\ code' = [code EXCEPT ![k] = [client |-> c, live |-> TRUE]]
                /\ UNCHANGED count
    /\ UNCHANGED <<redis, link, keys, request, excused>>

\* CODE_TTL_SEC are over.  Redis drops the code; memory keeps it until it is swept.
CodeExpires(k) ==
    /\ code[k].live
    /\ code' = [code EXCEPT ![k].live = FALSE]
    /\ store' = [store EXCEPT ![Redis] = @ \ {k}]
    /\ UNCHANGED <<redis, link, keys, request, excused, count>>

\* Mutant of Token: the code is read and left where it is.
TokenOfReadCode(r, p, c, k) ==
    /\ At(r, "idle")
    /\ k \in Live(store[Place(p)]) /\ code[k].client = c
    /\ Carries(r, "replace", p, k, c)
    /\ UNCHANGED <<redis, code, store, link, keys, excused, count>>

\* Mutant of Token: the client's key is revoked before the code is looked at.
TokenRevokesFirst(r, p, c, k) ==
    /\ At(r, "idle")
    /\ code[k] # Unissued
    /\ RevokeKeysOf(c)
    /\ store' = [store EXCEPT ![Place(p)] = @ \ {k}]
    /\ \/ /\ k \in Live(store[Place(p)])
          /\ code[k].client = c
          /\ Carries(r, "insert", p, k, c)
       \/ UNCHANGED request
    /\ UNCHANGED <<redis, code, link, excused, count>>

\* token(), from a client that proved its secret, with a code that was issued, its own
\* or not, on any process, once or again.  The code is gone before it is looked at:
\* expired, of another client, or with a redirect_uri or a verifier that do not match,
\* it is used up for nothing.
Token(r, p, c, k) ==
    /\ At(r, "idle")
    /\ code[k] # Unissued
    /\ store' = [store EXCEPT ![Place(p)] = @ \ {k}]
    /\ \/ /\ k \in Live(store[Place(p)])
          /\ code[k].client = c
          /\ Carries(r, "replace", p, k, c)
       \/ UNCHANGED request
    /\ UNCHANGED <<redis, code, link, keys, excused, count>>

\* issueOAuthKey: disconnect the client's former key, which frees the unique index.
ReplaceKey(r) ==
    /\ At(r, "replace")
    /\ RevokeKeysOf(request[r].holder)
    /\ Goto(r, "insert")
    /\ UNCHANGED <<redis, code, store, link, excused, count>>

\* ApiKeyService.create.  The unique index refuses a second active key of a client
\* (code 23505), and the request fails.
InsertKey(r) ==
    /\ At(r, "insert")
    /\ LET q == request[r] IN
       IF q.holder \in Clients /\ HasActiveKey(q.holder)
       THEN UNCHANGED <<keys, excused>>
       ELSE /\ Len(keys) < MaxKeys
            /\ keys' = Append(keys, [proof |-> q.proof, holder |-> q.holder, active |-> TRUE])
            /\ excused' = excused \ {q.holder}
    /\ Ends(r)
    /\ UNCHANGED <<redis, code, store, link, count>>

-----------------------------------------------------------------------------
(* Magic links.                                                            *)

\* requestLink: the row is inserted and the mail is sent.  A mail that is not leaves a
\* row whose token nobody knows.
RequestLink(l) ==
    /\ link[l] = "none"
    /\ link' = [link EXCEPT ![l] = "sent"]
    /\ UNCHANGED <<redis, code, store, keys, request, excused, count>>

LinkExpires(l) ==
    /\ link[l] = "sent"
    /\ link' = [link EXCEPT ![l] = "expired"]
    /\ UNCHANGED <<redis, code, store, keys, request, excused, count>>

\* AuthController.consume: one statement takes the link, if nobody has and its fifteen
\* minutes are not over.
ConsumeLink(r, p, l) ==
    /\ At(r, "idle")
    /\ link[l] = "sent"
    /\ link' = [link EXCEPT ![l] = "consumed"]
    /\ Carries(r, "insert", p, l, WebSession)
    /\ UNCHANGED <<redis, code, store, keys, excused, count>>

-----------------------------------------------------------------------------
(* The user, and failures.                                                 *)

\* revoke of a key in the panel, or revokeByPlainKey for its client.
RevokeKey(i) ==
    /\ keys[i].active
    /\ Fault
    /\ keys' = [keys EXCEPT ![i].active = FALSE]
    /\ excused' = excused \cup ({keys[i].holder} \cap Clients)
    /\ UNCHANGED <<redis, code, store, link, request>>

\* The clients whose requests in R have revoked the former key and will insert none.
Disconnected(R) == {request[r].holder : r \in {q \in R : At(q, "insert")}} \cap Clients

\* A query of the request rejects.
RequestRejects(r) ==
    /\ ~At(r, "idle")
    /\ Fault
    /\ excused' = excused \cup Disconnected({r})
    /\ Ends(r)
    /\ UNCHANGED <<redis, code, store, link, keys>>

\* The process ends, with its memory, and is started again.
Crash(p) ==
    /\ Fault
    /\ LET R == {r \in Requests : ~At(r, "idle") /\ request[r].process = p} IN
       /\ excused' = excused \cup Disconnected(R)
       /\ request' = [r \in Requests |-> IF r \in R THEN NoRequest ELSE request[r]]
    /\ store' = [store EXCEPT ![p] = {}]
    /\ UNCHANGED <<redis, code, link, keys>>

-----------------------------------------------------------------------------
OAuthStep ==
    \/ \E p \in Processes, c \in Clients, k \in Codes :
         \/ AuthorizeConfirm(p, c, k)
         \/ \E r \in Requests : Token(r, p, c, k)
    \/ \E k \in Codes : CodeExpires(k)
    \/ \E r \in Requests : ReplaceKey(r) \/ InsertKey(r)

LinkStep ==
    \E l \in Links :
        \/ RequestLink(l)
        \/ LinkExpires(l)
        \/ \E r \in Requests, p \in Processes : ConsumeLink(r, p, l)

OtherStep ==
    \/ \E i \in DOMAIN keys : RevokeKey(i)
    \/ \E r \in Requests : RequestRejects(r)
    \/ \E p \in Processes : Crash(p)

Next == OAuthStep \/ LinkStep \/ OtherStep

Spec == Init /\ [][Next]_vars

-----------------------------------------------------------------------------
(* Properties.                                                             *)

InFlight(x) == {r \in Requests : ~At(r, "idle") /\ request[r].proof = x}

Bought(x) == {i \in DOMAIN keys : keys[i].proof = x}

\* magic-link.service.ts:67 and oauth-code-store.service.ts:98: however often and in how
\* many processes at once a link or a code is presented, it buys one key, and that is a
\* key of the client the code was issued to.
ProofBuysOneKey ==
    \A x \in Proofs :
        /\ \A i, j \in Bought(x) : i = j
        /\ \A q, r \in InFlight(x) : q = r
        /\ Bought(x) = {} \/ InFlight(x) = {}
        /\ \A i \in Bought(x) :
              keys[i].holder = IF x \in Codes THEN code[x].client ELSE WebSession

\* A client that has been connected has a working key, however its reconnections
\* interleave and however many of its codes are stale or of others: it is without one
\* only while a request is between revoking and inserting, and after a revocation or a
\* fault.
ConnectedStaysConnected ==
    \A c \in Clients :
        (\E i \in DOMAIN keys : keys[i].holder = c)
            => \/ HasActiveKey(c)
               \/ c \in excused
               \/ \E r \in Requests : At(r, "insert") /\ request[r].holder = c

\* put() turns a user away only when as many codes as the cap allows can still be
\* exchanged: flows that were given up do not lock others out.
FullOnlyOfLiveCodes ==
    [][count'.refused # count.refused
        => \E p \in Processes : Cardinality(Live(store[p])) >= Cap]_vars
=============================================================================
