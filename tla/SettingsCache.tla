--------------------------- MODULE SettingsCache ---------------------------
(***************************************************************************)
(* SettingsService, a table behind a cache of a minute in each process,    *)
(* and who writes it: AccountSettingsHandler the settings of an account,   *)
(* AdminApiController the secrets, from some of which MagicLinkService     *)
(* keeps a mail transport.                                                 *)
(*                                                                         *)
(* A name stands for a cache key, so an account's setting is a name of its *)
(* own; nothing in the program writes the global row it falls back on.  A  *)
(* value is the number of the update that wrote it.  A process that ends   *)
(* takes its cache with it, and is left out.                               *)
(***************************************************************************)
EXTENDS Integers, FiniteSets, Sequences, SequencesExt

CONSTANTS
    Processes,   \* the backend processes
    Secrets,     \* the secrets, in the order in which they are read and written
    MailList,    \* those that configure mail, in the order resolveTransporter reads them
    Settings,    \* the settings of an account, in the order of a request
    Readers,     \* readers that may be under way at once
    TTL,         \* CACHE_TTL_MS, in ticks of the clock
    MaxUpdates,  \* bound on updateSecrets and updateSettings
    MaxUnderWay, \* bound on those under way at once
    MaxRejects   \* bound on upserts that reject

Names == ToSet(Secrets \o Settings)

ASSUME SettingsAssumption ==
    /\ TTL \in Nat \ {0}
    /\ {MaxUpdates, MaxUnderWay, MaxRejects} \subseteq Nat
    /\ {Secrets, Settings} \subseteq Seq(Names)
    /\ MailList \in Seq(ToSet(Secrets)) \ {<<>>}
    /\ ToSet(Secrets) \cap ToSet(Settings) = {}

VARIABLES
    row,        \* the database: the value of each name
    past,       \* ghost: how long ago each value was the row's
    cache,      \* the cache of each process
    reader,     \* a request that calls get(), or resolveTransporter
    transport,  \* the transporter of each process: the values it was made from
    update,     \* updateSecrets or updateSettings of each process
    writer,     \* ghost: which process wrote each row last
    raced,      \* ghost: the names that a read or a failure of the process left stale
    count       \* how many updates and rejected upserts there were (bounds)

vars == <<row, past, cache, reader, transport, update, writer, raced, count>>

-----------------------------------------------------------------------------
Values == 1 .. MaxUpdates
Default == 0   \* the row is not there
Nobody == "nobody"

\* Time is told by ages, which stop at TTL: nothing asks how much older a thing is.
Ages == 0 .. TTL

Older(age) == IF age = TTL THEN TTL ELSE age + 1

NoEntry == [value |-> Default, age |-> TTL]

\* What a request may name of list, in the order in which it is written.
Picks(list) ==
    {names \in SeqOf(ToSet(list), Len(list)) :
        names = SelectSeq(list, LAMBDA n : n \in ToSet(names))}

Lists == {<<n>> : n \in Names} \cup {MailList, <<>>}

\* What a reader goes through: get() of each name of list, one after the other.
\*   get    get() is called
\*   query  findOne is on its way
\*   found  its row is
\* age: how long ago get() was called.
Reader == [phase : {"idle", "get", "query", "found"}, process : Processes \cup {Nobody},
           list : Lists, got : Seq(Values \cup {Default}), mail : BOOLEAN,
           age : Ages, value : Values \cup {Default}]

NoReader == [phase |-> "idle", process |-> Nobody, list |-> <<>>, got |-> <<>>,
             mail |-> FALSE, age |-> 0, value |-> Default]

\* next: the place in names of what is to be written next; "drop": written, not
\* invalidated.
Update == [phase : {"idle", "write", "drop"}, secrets : BOOLEAN,
           names : Picks(Secrets) \cup Picks(Settings) \cup {<<>>},
           next : Nat, value : Values \cup {Default}]

NoUpdate == [phase |-> "idle", secrets |-> FALSE, names |-> <<>>, next |-> 1,
             value |-> Default]

TypeOK ==
    /\ row \in [Names -> Values \cup {Default}]
    /\ past \in [Names -> [Values -> Ages]]
    /\ cache \in [Processes -> [Names -> [value : Values, age : Ages] \cup {NoEntry}]]
    /\ reader \in [Readers -> Reader]
    /\ transport \in [Processes -> Seq(Values \cup {Default})]
    /\ update \in [Processes -> Update]
    /\ writer \in [Names -> Processes \cup {Nobody}]
    /\ raced \in [Processes -> SUBSET Names]
    /\ count \in [updates : 0 .. MaxUpdates, rejects : 0 .. MaxRejects]

Init ==
    /\ row = [n \in Names |-> Default]
    /\ past = [n \in Names |-> [v \in Values |-> TTL]]
    /\ cache = [p \in Processes |-> [n \in Names |-> NoEntry]]
    /\ reader = [r \in Readers |-> NoReader]
    /\ transport = [p \in Processes |-> <<>>]
    /\ update = [p \in Processes |-> NoUpdate]
    /\ writer = [n \in Names |-> Nobody]
    /\ raced = [p \in Processes |-> {}]
    /\ count = [updates |-> 0, rejects |-> 0]

-----------------------------------------------------------------------------
(* Readers.                                                                *)

NextName(r) == reader[r].list[Len(reader[r].got) + 1]

\* Mutant of Stamp: when the row was stored.
StampNow(r) == 0

\* An entry counts from the call of get(), however long the query took.
Stamp(r) == reader[r].age

Entry(value, age) == IF age = TTL THEN NoEntry ELSE [value |-> value, age |-> age]

\* get() returned value; the last one of resolveTransporter makes the transporter, the
\* first one (mail_provider) may tell that there is none.
Got(r, value) ==
    LET q == reader[r]
        got == Append(q.got, value)
        console == q.mail /\ got[1] = Default
    IN  IF console \/ Len(got) = Len(q.list)
        THEN /\ reader' = [reader EXCEPT ![r] = NoReader]
             /\ transport' = IF q.mail /\ ~console
                             THEN [transport EXCEPT ![q.process] = got] ELSE transport
        ELSE /\ reader' = [reader EXCEPT ![r] = [q EXCEPT !.phase = "get", !.got = got]]
             /\ UNCHANGED transport

\* A request reads a name; or a sign-in mail is to be sent, and there is no transporter.
Ask(r, p) ==
    /\ reader[r].phase = "idle"
    /\ \E list \in {<<n>> : n \in Names} \cup {MailList}, mail \in BOOLEAN :
         /\ mail => list = MailList /\ transport[p] = <<>>
         /\ ~mail => Len(list) = 1
         /\ reader' = [reader EXCEPT ![r] = [NoReader EXCEPT !.phase = "get", !.process = p,
                                                             !.list = list, !.mail = mail]]
    /\ UNCHANGED <<row, past, cache, transport, update, writer, raced, count>>

\* get() up to its await: Date.now(), and the cache.
Get(r) ==
    /\ reader[r].phase = "get"
    /\ LET e == cache[reader[r].process][NextName(r)] IN
       IF e # NoEntry
       THEN Got(r, e.value)
       ELSE /\ reader' = [reader EXCEPT ![r].phase = "query", ![r].age = 0]
            /\ UNCHANGED transport
    /\ UNCHANGED <<row, past, cache, update, writer, raced, count>>

\* findOne, in the database.
Query(r) ==
    /\ reader[r].phase = "query"
    /\ reader' = [reader EXCEPT ![r].phase = "found", ![r].value = row[NextName(r)]]
    /\ UNCHANGED <<row, past, cache, transport, update, writer, raced, count>>

\* A default is not cached.
IsCached(value) == value # Default

\* get() after its await.
Found(r) ==
    /\ reader[r].phase = "found"
    /\ LET q == reader[r] IN
       /\ cache' = IF IsCached(q.value)
                   THEN [cache EXCEPT ![q.process][NextName(r)] = Entry(q.value, Stamp(r))]
                   ELSE cache
       /\ Got(r, q.value)
    /\ UNCHANGED <<row, past, update, writer, raced, count>>

-----------------------------------------------------------------------------
(* Writers.                                                                *)

Begin(p, secrets, names) ==
    /\ update[p].phase = "idle"
    /\ Cardinality({q \in Processes : update[q].phase # "idle"}) < MaxUnderWay
    /\ names # <<>>
    /\ count.updates < MaxUpdates
    /\ count' = [count EXCEPT !.updates = @ + 1]
    /\ update' = [update EXCEPT ![p] = [phase |-> "write", secrets |-> secrets, names |-> names,
                                        next |-> 1, value |-> count.updates + 1]]
    /\ UNCHANGED <<row, past, cache, reader, transport, writer, raced>>

UpdateSecrets(p) == \E names \in Picks(Secrets) : Begin(p, TRUE, names)

UpdateSettings(p) == \E names \in Picks(Settings) : Begin(p, FALSE, names)

\* A reader of p has another value of n than v, and will make something of it.
KnowsAnother(p, n, v) ==
    \E r \in Readers :
        LET q == reader[r] IN
        /\ q.phase # "idle" /\ q.process = p
        /\ \/ q.phase = "found" /\ NextName(r) = n /\ q.value # v
           \/ q.mail /\ \E i \in DOMAIN q.got : q.list[i] = n /\ q.got[i] # v

\* The upsert of the next name.
Write(p) ==
    /\ update[p].phase = "write"
    /\ LET u == update[p]
           n == u.names[u.next]
       IN  /\ row' = [row EXCEPT ![n] = u.value]
           /\ past' = [past EXCEPT ![n][u.value] = 0]
           /\ writer' = [writer EXCEPT ![n] = p]
           /\ raced' = [raced EXCEPT ![p] = IF KnowsAnother(p, n, u.value) THEN @ \cup {n} ELSE @ \ {n}]
           /\ update' = [update EXCEPT ![p].next = @ + 1,
                                       ![p].phase = IF u.secrets \/ u.next = Len(u.names)
                                                    THEN "drop" ELSE "write"]
    /\ UNCHANGED <<cache, reader, transport, count>>

\* The upsert rejects, and with it the update: what it wrote as settings stays in the
\* cache, what it wrote as secrets stays in the transporter.
WriteRejects(p) ==
    /\ update[p].phase = "write"
    /\ count.rejects < MaxRejects
    /\ count' = [count EXCEPT !.rejects = @ + 1]
    /\ LET u == update[p]
           written == {u.names[i] : i \in 1 .. u.next - 1}
       IN  raced' = [raced EXCEPT ![p] = @ \cup written]
    /\ update' = [update EXCEPT ![p] = NoUpdate]
    /\ UNCHANGED <<row, past, cache, reader, transport, writer>>

IsWritten(u) == u.next > Len(u.names)

\* Mutant of InvalidateCache: only the table changes.
KeepCache(p) == UNCHANGED cache

\* After its upsert, set() drops the name it wrote; after its last one, updateSettings
\* drops the whole cache.
InvalidateCache(p) ==
    LET u == update[p]
        n == u.names[u.next - 1]
    IN  cache' = [cache EXCEPT ![p] = IF u.secrets THEN [@ EXCEPT ![n] = NoEntry]
                                      ELSE [m \in Names |-> NoEntry]]

\* invalidateTransport, once all is written, if any of it is about mail.
InvalidateTransport(p) ==
    LET u == update[p] IN
    transport' = IF u.secrets /\ IsWritten(u) /\ ToSet(u.names) \cap ToSet(MailList) # {}
                 THEN [transport EXCEPT ![p] = <<>>] ELSE transport

Drop(p) ==
    /\ update[p].phase = "drop"
    /\ InvalidateCache(p)
    /\ InvalidateTransport(p)
    /\ update' = IF IsWritten(update[p]) THEN [update EXCEPT ![p] = NoUpdate]
                 ELSE [update EXCEPT ![p].phase = "write"]
    /\ raced' = [raced EXCEPT ![p] = @ \cup {n \in ToSet(update[p].names) :
                                                KnowsAnother(p, n, row[n])}]
    /\ UNCHANGED <<row, past, reader, writer, count>>

\* An entry is served while its age is less than TTL, and then as good as none.
Aged(e) == IF Older(e.age) = TTL THEN NoEntry ELSE [e EXCEPT !.age = Older(@)]

\* Time passes.
Tick ==
    /\ past' = [n \in Names |-> [v \in Values |->
                   IF row[n] = v THEN 0 ELSE Older(past[n][v])]]
    /\ cache' = [p \in Processes |-> [n \in Names |->
                   Aged(cache[p][n])]]
    /\ reader' = [r \in Readers |->
                   [reader[r] EXCEPT !.age = IF reader[r].phase \in {"query", "found"}
                                             THEN Older(@) ELSE 0]]
    /\ UNCHANGED <<row, transport, update, writer, raced, count>>

-----------------------------------------------------------------------------
ReadStep(r) == Get(r) \/ Query(r) \/ Found(r) \/ \E p \in Processes : Ask(r, p)

UpdateStep(p) ==
    UpdateSecrets(p) \/ UpdateSettings(p) \/ Write(p) \/ WriteRejects(p) \/ Drop(p)

Next ==
    \/ \E r \in Readers : ReadStep(r)
    \/ \E p \in Processes : UpdateStep(p)
    \/ Tick

Spec == Init /\ [][Next]_vars

-----------------------------------------------------------------------------
(* Properties.                                                             *)

\* settings.service.ts:35: what get() would serve from the cache was the value of the
\* row less than CACHE_TTL_MS ago, whichever process has overwritten it since and
\* however long the query took.
ServedIsRecent ==
    \A p \in Processes, n \in Names :
        LET e == cache[p][n] IN e # NoEntry => past[n][e.value] < TTL

\* p has written n and is not done with it.
Pending(p, n) ==
    update[p].phase # "idle" /\ n \in ToSet(update[p].names)

\* admin-api.controller.ts:294, "the next /auth/request-link rebuilds it from the new DB
\* values", and so with the cache: a process serves what it has overwritten itself only
\* if a read that overlapped the write brought the former value back, or a later upsert
\* of the same update failed.
OwnWritesShow ==
    \A p \in Processes, n \in Names :
        writer[n] = p /\ n \notin raced[p] /\ ~Pending(p, n)
            => /\ cache[p][n] # NoEntry => cache[p][n].value = row[n]
               /\ \A i \in DOMAIN transport[p] : MailList[i] = n => transport[p][i] = row[n]
=============================================================================
