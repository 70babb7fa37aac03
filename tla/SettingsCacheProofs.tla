------------------------ MODULE SettingsCacheProofs ------------------------
(***************************************************************************)
(* For every number of processes, names, readers and updates: no cache     *)
(* serves a value that the row has not held for CACHE_TTL_MS.  An entry is *)
(* dated by the call of get(), before the query whose row it keeps; so     *)
(* what a query brings back may be late, but never later than its date.    *)
(*                                                                         *)
(* And what a process has written it serves, from its cache and from its   *)
(* mail transporter, as soon as its update is over: each name is dropped   *)
(* after its upsert, and a reader that could bring the former value back   *)
(* is one that the update has raced with.                                  *)
(***************************************************************************)
EXTENDS SettingsCache, TLAPS

\* The parts of TypeOK that the argument rests on, and that a reader has something left
\* to read and an update something to write.
Types ==
    /\ row \in [Names -> Values \cup {Default}]
    /\ past \in [Names -> [Values -> Ages]]
    /\ cache \in [Processes -> [Names -> [value : Values, age : Ages] \cup {NoEntry}]]
    /\ reader \in [Readers -> Reader]
    /\ \A r \in Readers :
         reader[r].phase # "idle" => /\ reader[r].process \in Processes
                                     /\ Len(reader[r].got) < Len(reader[r].list)
    /\ update \in [Processes -> Update]
    /\ \A p \in Processes : update[p].phase # "idle" => update[p].value \in Values
    /\ count \in [updates : 0 .. MaxUpdates, rejects : 0 .. MaxRejects]

\* The row's own value is not past.
RowIsNow == \A n \in Names : row[n] # Default => past[n][row[n]] = 0

\* What a query found was the row's value no longer ago than get() was called.
FoundIsDated ==
    \A r \in Readers :
        reader[r].phase = "found" /\ reader[r].value # Default
            => past[NextName(r)][reader[r].value] <= reader[r].age

\* An entry is not younger than what it says.
EntriesAreDated ==
    \A p \in Processes, n \in Names :
        cache[p][n] # NoEntry
            => /\ cache[p][n].age < TTL
               /\ past[n][cache[p][n].value] <= cache[p][n].age

IInv == Types /\ RowIsNow /\ FoundIsDated /\ EntriesAreDated

-----------------------------------------------------------------------------
LEMMA AgesAreNaturals ==
    /\ TTL \in Nat /\ TTL > 0
    /\ \A x \in Ages : x \in Nat /\ x <= TTL /\ Older(x) \in Ages
    /\ \A x, y \in Ages : x <= y => Older(x) <= Older(y)
    /\ 0 \in Ages /\ TTL \in Ages
    /\ MaxUpdates \in Nat /\ MaxRejects \in Nat
    /\ Values \subseteq Nat
    /\ Default \notin Values
BY SettingsAssumption DEF Ages, Older, Values, Default

LEMMA ListsHoldNames ==
    /\ \A list \in Lists : list \in Seq(Names)
    /\ MailList \in Lists /\ Len(MailList) > 0
    /\ \A n \in Names : <<n>> \in Lists
<1>1. ToSet(Secrets) \subseteq Names
  BY SettingsAssumption DEF ToSet
<1>2. MailList \in Seq(Names) /\ Len(MailList) > 0
  BY <1>1, SettingsAssumption
<1>3. <<>> \in Seq(Names) /\ \A n \in Names : <<n>> \in Seq(Names)
  OBVIOUS
<1>4. ASSUME NEW list \in Lists PROVE list \in Seq(Names)
  BY <1>2, <1>3, Zenon DEF Lists
<1> QED BY <1>2, <1>4, Zenon DEF Lists

LEMMA NextNameIsName ==
    ASSUME Types, NEW r \in Readers, reader[r].phase # "idle"
    PROVE  NextName(r) \in Names
<1>1. reader[r].list \in Seq(Names) /\ Len(reader[r].got) \in Nat
  BY ListsHoldNames DEF Types, Reader
<1> QED BY <1>1 DEF Types, NextName

LEMMA Initially == Init => IInv
<1> SUFFICES ASSUME Init PROVE IInv
  OBVIOUS
<1>1. NoReader \in Reader /\ NoReader.phase = "idle"
  BY AgesAreNaturals DEF NoReader, Reader, Lists
<1>3. NoUpdate \in Update /\ NoUpdate.phase = "idle"
  BY DEF NoUpdate, Update
<1>4. Types
  BY <1>1, <1>3, AgesAreNaturals DEF Init, Types, NoReader
<1>5. RowIsNow /\ FoundIsDated /\ EntriesAreDated
  BY <1>1 DEF Init, RowIsNow, FoundIsDated, EntriesAreDated
<1> QED BY <1>4, <1>5 DEF IInv

-----------------------------------------------------------------------------
\* got() leaves a reader that has not found anything.
LEMMA AfterGot ==
    ASSUME IInv, NEW r \in Readers, NEW value \in Values \cup {Default}, Got(r, value),
           reader[r].phase # "idle"
    PROVE  /\ reader' \in [Readers -> Reader]
           /\ \A s \in Readers : s # r => reader'[s] = reader[s]
           /\ reader'[r].phase # "found"
           /\ reader'[r].phase # "idle" => /\ reader'[r].process \in Processes
                                           /\ Len(reader'[r].got) < Len(reader'[r].list)
<1> DEFINE got == Append(reader[r].got, value)
           next == [reader[r] EXCEPT !.phase = "get", !.got = got]
<1>0. reader \in [Readers -> Reader] /\ reader[r] \in Reader
  BY DEF IInv, Types
<1>1. NoReader \in Reader /\ NoReader.phase = "idle"
  BY AgesAreNaturals DEF NoReader, Reader, Lists
<1>2. CASE reader' = [reader EXCEPT ![r] = NoReader]
  BY <1>0, <1>1, <1>2
<1>3. CASE reader' = [reader EXCEPT ![r] = next] /\ Len(got) # Len(reader[r].list)
  <2>1. got \in Seq(Values \cup {Default}) /\ Len(got) = Len(reader[r].got) + 1
    BY <1>0 DEF Reader
  <2>2. next \in Reader /\ next.phase = "get" /\ next.got = got /\ next.list = reader[r].list
        /\ next.process = reader[r].process
    BY <1>0, <2>1 DEF Reader
  <2>3. Len(reader[r].got) < Len(reader[r].list) /\ reader[r].process \in Processes
    BY DEF IInv, Types
  <2>4. Len(reader[r].list) \in Nat /\ Len(reader[r].got) \in Nat
    BY <1>0, ListsHoldNames DEF Reader
  <2> HIDE DEF got, next
  <2> QED BY <1>0, <1>3, <2>1, <2>2, <2>3, <2>4
<1> QED BY <1>2, <1>3 DEF Got

\* A reader's step that finds nothing leaves what is said of rows and entries.
LEMMA ReaderStep ==
    ASSUME IInv, NEW r \in Readers, UNCHANGED <<row, past, cache, update, count>>,
           reader' \in [Readers -> Reader],
           \A s \in Readers : s # r => reader'[s] = reader[s],
           reader'[r].phase # "found",
           reader'[r].phase # "idle" => /\ reader'[r].process \in Processes
                                        /\ Len(reader'[r].got) < Len(reader'[r].list)
    PROVE  IInv'
<1>1. Types'
  BY DEF IInv, Types
<1>2. FoundIsDated'
  BY DEF IInv, FoundIsDated, NextName
<1>3. RowIsNow' /\ EntriesAreDated'
  BY DEF IInv, RowIsNow, EntriesAreDated
<1> QED BY <1>1, <1>2, <1>3 DEF IInv

LEMMA AskKeeps == ASSUME IInv, NEW r \in Readers, NEW p \in Processes, Ask(r, p) PROVE IInv'
<1>1. PICK list \in Lists, mail \in BOOLEAN :
        /\ Len(list) > 0
        /\ reader' = [reader EXCEPT ![r] = [NoReader EXCEPT !.phase = "get", !.process = p,
                                                            !.list = list, !.mail = mail]]
  <2>1. PICK list \in {<<n>> : n \in Names} \cup {MailList}, mail \in BOOLEAN :
          reader' = [reader EXCEPT ![r] = [NoReader EXCEPT !.phase = "get", !.process = p,
                                                            !.list = list, !.mail = mail]]
    BY DEF Ask
  <2>2. CASE list = MailList
    BY <2>1, <2>2, ListsHoldNames
  <2>3. ASSUME NEW n \in Names, list = <<n>> PROVE list \in Lists /\ Len(list) > 0
    BY <2>3, ListsHoldNames
  <2> QED BY <2>1, <2>2, <2>3
<1> DEFINE q == [NoReader EXCEPT !.phase = "get", !.process = p, !.list = list, !.mail = mail]
<1>2. q \in Reader /\ q.phase = "get" /\ q.got = <<>> /\ q.list = list /\ q.process = p
  <2>1. NoReader \in Reader /\ NoReader.got = <<>>
    BY AgesAreNaturals DEF NoReader, Reader, Lists
  <2> QED BY <2>1 DEF Reader
<1> HIDE DEF q
<1>3. reader' = [reader EXCEPT ![r] = q]
  BY <1>1 DEF q
<1>4. UNCHANGED <<row, past, cache, update, count>>
  BY DEF Ask
<1>5. /\ reader' \in [Readers -> Reader]
      /\ \A s \in Readers : s # r => reader'[s] = reader[s]
      /\ reader'[r] = q
  BY <1>2, <1>3 DEF IInv, Types
<1>6. Len(q.got) < Len(q.list)
  BY <1>1, <1>2
<1> QED BY <1>2, <1>4, <1>5, <1>6, ReaderStep

LEMMA GetKeeps == ASSUME IInv, NEW r \in Readers, Get(r) PROVE IInv'
<1>0. reader \in [Readers -> Reader] /\ reader[r] \in Reader /\ reader[r].phase = "get"
  BY DEF Get, IInv, Types
<1>1. UNCHANGED <<row, past, cache, update, count>>
  BY DEF Get
<1>2. CASE reader' = [reader EXCEPT ![r].phase = "query", ![r].age = 0]
  <2>1. /\ reader' \in [Readers -> Reader]
        /\ \A s \in Readers : s # r => reader'[s] = reader[s]
        /\ reader'[r].phase = "query"
        /\ reader'[r].got = reader[r].got /\ reader'[r].list = reader[r].list
        /\ reader'[r].process = reader[r].process
    BY <1>0, <1>2, AgesAreNaturals DEF Reader
  <2> QED BY <1>0, <1>1, <2>1, ReaderStep DEF IInv, Types
<1>3. ASSUME NEW value \in Values, Got(r, value) PROVE IInv'
  BY <1>0, <1>1, <1>3, AfterGot, ReaderStep
<1>4. NextName(r) \in Names /\ reader[r].process \in Processes
  BY <1>0, NextNameIsName DEF IInv, Types
<1>5. ASSUME cache[reader[r].process][NextName(r)] # NoEntry
      PROVE  cache[reader[r].process][NextName(r)].value \in Values
  BY <1>4, <1>5 DEF IInv, Types
<1> QED BY <1>2, <1>3, <1>5 DEF Get

LEMMA QueryKeeps == ASSUME IInv, NEW r \in Readers, Query(r) PROVE IInv'
<1>0. reader \in [Readers -> Reader] /\ reader[r] \in Reader /\ reader[r].phase = "query"
  BY DEF Query, IInv, Types
<1>1. UNCHANGED <<row, past, cache, update, count>>
  BY DEF Query
<1>2. NextName(r) \in Names
  BY <1>0, NextNameIsName DEF IInv
<1>3. row[NextName(r)] \in Values \cup {Default}
  BY <1>2 DEF IInv, Types
<1>4. /\ reader' \in [Readers -> Reader]
      /\ \A s \in Readers : s # r => reader'[s] = reader[s]
      /\ reader'[r].phase = "found" /\ reader'[r].value = row[NextName(r)]
      /\ reader'[r].got = reader[r].got /\ reader'[r].list = reader[r].list
      /\ reader'[r].process = reader[r].process /\ reader'[r].age = reader[r].age
  BY <1>0, <1>3 DEF Query, Reader
<1>5. Types'
  BY <1>0, <1>1, <1>4 DEF IInv, Types
<1>6. FoundIsDated'
  <2>1. NextName(r)' = NextName(r)
    BY <1>4 DEF NextName
  <2>2. ASSUME row[NextName(r)] # Default
        PROVE  past[NextName(r)][row[NextName(r)]] <= reader[r].age
    <3>1. past[NextName(r)][row[NextName(r)]] = 0
      BY <1>2, <2>2 DEF IInv, RowIsNow
    <3>2. reader[r].age \in Nat
      BY <1>0, AgesAreNaturals DEF Reader
    <3> QED BY <3>1, <3>2
  <2>3. ASSUME NEW s \in Readers, s # r PROVE NextName(s)' = NextName(s)
    BY <1>4, <2>3 DEF NextName
  <2> QED BY <1>1, <1>4, <2>1, <2>2, <2>3 DEF IInv, FoundIsDated
<1>7. RowIsNow' /\ EntriesAreDated'
  BY <1>1 DEF IInv, RowIsNow, EntriesAreDated
<1> QED BY <1>5, <1>6, <1>7 DEF IInv

LEMMA FoundKeeps == ASSUME IInv, NEW r \in Readers, Found(r) PROVE IInv'
<1>0. /\ reader \in [Readers -> Reader] /\ reader[r] \in Reader /\ reader[r].phase = "found"
      /\ reader[r].process \in Processes
  BY DEF Found, IInv, Types
<1> DEFINE n == NextName(r)
           v == reader[r].value
           p == reader[r].process
<1>1. UNCHANGED <<row, past, update, count>> /\ Got(r, v) /\ v \in Values \cup {Default}
  BY <1>0 DEF Found, Reader
<1>2. n \in Names
  BY <1>0, NextNameIsName DEF IInv
<1>3. /\ reader' \in [Readers -> Reader]
      /\ \A s \in Readers : s # r => reader'[s] = reader[s]
      /\ reader'[r].phase # "found"
      /\ reader'[r].phase # "idle" => /\ reader'[r].process \in Processes
                                      /\ Len(reader'[r].got) < Len(reader'[r].list)
  BY <1>0, <1>1, AfterGot
<1>4. CASE v = Default
  <2>1. UNCHANGED cache
    BY <1>4 DEF Found, IsCached
  <2> QED BY <1>1, <1>3, <2>1, ReaderStep
<1>5. CASE v \in Values
  <2> DEFINE e == Entry(v, reader[r].age)
  <2>1. cache' = [cache EXCEPT ![p][n] = e]
    BY <1>5, AgesAreNaturals DEF Found, IsCached, Stamp
  <2>2. /\ e \in [value : Values, age : Ages] \cup {NoEntry}
        /\ e # NoEntry => /\ e.age < TTL
                          /\ past[n][e.value] <= e.age
    <3>1. CASE reader[r].age = TTL
      BY <3>1 DEF Entry
    <3>2. CASE reader[r].age # TTL
      <4>1. e = [value |-> v, age |-> reader[r].age]
        BY <3>2 DEF Entry
      <4>2. reader[r].age \in Ages
        BY <1>0 DEF Reader
      <4>3. past[n][v] <= reader[r].age
        BY <1>0, <1>5, AgesAreNaturals DEF IInv, FoundIsDated
      <4>4. e # NoEntry
        BY <1>5, <4>1, AgesAreNaturals DEF NoEntry
      <4>5. e.value = v /\ e.age = reader[r].age
        BY <4>1
      <4>6. e \in [value : Values, age : Ages]
        BY <1>5, <4>1, <4>2
      <4>7. reader[r].age < TTL
        <5>1. reader[r].age \in Nat /\ reader[r].age <= TTL /\ TTL \in Nat
          BY <4>2, AgesAreNaturals
        <5> QED BY <3>2, <5>1
      <4> HIDE DEF n, v, e
      <4> QED BY <4>3, <4>5, <4>6, <4>7
    <3> QED BY <3>1, <3>2
  <2> HIDE DEF e, n, p, v
  <2>3. cache \in [Processes -> [Names -> [value : Values, age : Ages] \cup {NoEntry}]]
    BY DEF IInv, Types
  <2>4. cache' \in [Processes -> [Names -> [value : Values, age : Ages] \cup {NoEntry}]]
    BY <1>0, <1>2, <2>1, <2>2, <2>3 DEF p
  <2>5. Types'
    BY <1>1, <1>3, <2>4 DEF IInv, Types
  <2>6. EntriesAreDated'
    <3> SUFFICES ASSUME NEW q \in Processes, NEW m \in Names, cache'[q][m] # NoEntry
                 PROVE  /\ cache'[q][m].age < TTL
                        /\ past[m][cache'[q][m].value] <= cache'[q][m].age
      BY <1>1 DEF EntriesAreDated
    <3>1. cache'[q][m] = IF q = p /\ m = n THEN e ELSE cache[q][m]
      BY <2>1, <2>3
    <3> QED BY <2>2, <3>1 DEF IInv, EntriesAreDated
  <2>7. FoundIsDated'
    BY <1>1, <1>3 DEF IInv, FoundIsDated, NextName
  <2>8. RowIsNow'
    BY <1>1 DEF IInv, RowIsNow
  <2> QED BY <2>5, <2>6, <2>7, <2>8 DEF IInv
<1> QED BY <1>1, <1>4, <1>5

-----------------------------------------------------------------------------
\* Updates and the clock.
LEMMA UpdateKeeps == ASSUME IInv, NEW p \in Processes, UpdateStep(p) PROVE IInv'
<1>0. update \in [Processes -> Update] /\ update[p] \in Update
  BY DEF IInv, Types
<1>1. ASSUME NEW secrets \in BOOLEAN, NEW names \in Picks(Secrets) \cup Picks(Settings),
             Begin(p, secrets, names)
      PROVE  IInv'
  <2> DEFINE u == [phase |-> "write", secrets |-> secrets, names |-> names, next |-> 1,
                   value |-> count.updates + 1]
  <2>1. count.updates \in 0 .. MaxUpdates /\ count.updates < MaxUpdates
    BY <1>1 DEF Begin, IInv, Types
  <2>2. u \in Update /\ u.value \in Values
    BY <2>1, AgesAreNaturals DEF Update, Values
  <2> HIDE DEF u
  <2>3. /\ update' = [update EXCEPT ![p] = u]
        /\ count' = [count EXCEPT !.updates = @ + 1]
        /\ UNCHANGED <<row, past, cache, reader>>
    BY <1>1 DEF Begin, u
  <2>4. count' \in [updates : 0 .. MaxUpdates, rejects : 0 .. MaxRejects]
    BY <2>1, <2>3, AgesAreNaturals DEF IInv, Types
  <2>5. Types'
    BY <1>0, <2>2, <2>3, <2>4 DEF IInv, Types
  <2> QED BY <2>3, <2>5 DEF IInv, RowIsNow, FoundIsDated, EntriesAreDated, NextName
<1>2. CASE Write(p)
  <2> DEFINE u == update[p]
             n == u.names[u.next]
  <2>1. /\ row' = [row EXCEPT ![n] = u.value]
        /\ past' = [past EXCEPT ![n][u.value] = 0]
        /\ UNCHANGED <<cache, reader, count>>
    BY <1>2 DEF Write
  <2>2. u.value \in Values
    BY <1>2 DEF Write, IInv, Types
  <2>3. update' \in [Processes -> Update]
    <3>1. PICK phase \in {"write", "drop"} :
            update' = [update EXCEPT ![p].next = @ + 1, ![p].phase = phase]
      BY <1>2 DEF Write
    <3>2. update[p].next + 1 \in Nat
      BY <1>0 DEF Update
    <3> QED BY <1>0, <3>1, <3>2 DEF Update
  <2>4. \A q \in Processes : update'[q].value = update[q].value
                             /\ (update'[q].phase # "idle" => update[q].phase # "idle")
    BY <1>0, <1>2 DEF Write, Update
  <2> HIDE DEF n, u
  <2>5. row' \in [Names -> Values \cup {Default}] /\ past' \in [Names -> [Values -> Ages]]
    BY <2>1, <2>2, AgesAreNaturals DEF IInv, Types
  <2>6. Types'
    BY <2>1, <2>3, <2>4, <2>5 DEF IInv, Types
  <2>7. \A m \in Names, v \in Values :
          past'[m][v] = IF m = n /\ v = u.value THEN 0 ELSE past[m][v]
    BY <2>1, <2>2 DEF IInv, Types
  <2>8. \A m \in Names, v \in Values : past'[m][v] <= past[m][v]
    <3> SUFFICES ASSUME NEW m \in Names, NEW v \in Values PROVE past'[m][v] <= past[m][v]
      OBVIOUS
    <3>1. past[m][v] \in Nat
      <4>1. past[m][v] \in Ages
        BY DEF IInv, Types
      <4> QED BY <4>1, AgesAreNaturals
    <3> QED BY <2>7, <3>1
  <2>9. RowIsNow'
    BY <2>1, <2>2, <2>7 DEF IInv, Types, RowIsNow
  <2>10. FoundIsDated'
    <3> SUFFICES ASSUME NEW r \in Readers, reader[r].phase = "found", reader[r].value # Default
                 PROVE  past'[NextName(r)][reader[r].value] <= reader[r].age
      BY <2>1 DEF FoundIsDated, NextName
    <3>1. NextName(r) \in Names
      BY NextNameIsName DEF IInv
    <3>2. reader[r].value \in Values /\ reader[r].age \in Nat
      BY AgesAreNaturals DEF IInv, Types, Reader
    <3>3. /\ past[NextName(r)][reader[r].value] \in Nat
          /\ past'[NextName(r)][reader[r].value] \in Nat
      <4>1. /\ past[NextName(r)][reader[r].value] \in Ages
            /\ past'[NextName(r)][reader[r].value] \in Ages
        BY <2>5, <3>1, <3>2 DEF IInv, Types
      <4> QED BY <4>1, AgesAreNaturals
    <3>4. past[NextName(r)][reader[r].value] <= reader[r].age
      BY DEF IInv, FoundIsDated
    <3>5. past'[NextName(r)][reader[r].value] <= past[NextName(r)][reader[r].value]
      BY <2>8, <3>1, <3>2
    <3> QED BY <3>2, <3>3, <3>4, <3>5
  <2>11. EntriesAreDated'
    <3> SUFFICES ASSUME NEW q \in Processes, NEW m \in Names, cache[q][m] # NoEntry
                 PROVE  /\ cache[q][m].age < TTL
                        /\ past'[m][cache[q][m].value] <= cache[q][m].age
      BY <2>1 DEF EntriesAreDated
    <3>1. cache[q][m].value \in Values /\ cache[q][m].age \in Ages
      BY DEF IInv, Types
    <3>2. /\ past[m][cache[q][m].value] \in Nat /\ past'[m][cache[q][m].value] \in Nat
          /\ cache[q][m].age \in Nat
      BY <2>5, <3>1, AgesAreNaturals DEF IInv, Types
    <3> QED BY <2>8, <3>1, <3>2 DEF IInv, EntriesAreDated
  <2> QED BY <2>6, <2>9, <2>10, <2>11 DEF IInv
<1>3. CASE WriteRejects(p)
  <2>1. NoUpdate \in Update /\ NoUpdate.phase = "idle"
    BY DEF NoUpdate, Update
  <2>2. count' \in [updates : 0 .. MaxUpdates, rejects : 0 .. MaxRejects]
    BY <1>3, AgesAreNaturals DEF WriteRejects, IInv, Types
  <2>3. Types'
    BY <1>0, <1>3, <2>1, <2>2 DEF WriteRejects, IInv, Types
  <2> QED BY <1>3, <2>3 DEF WriteRejects, IInv, RowIsNow, FoundIsDated, EntriesAreDated, NextName
<1>4. CASE Drop(p)
  <2>1. \A q \in Processes, m \in Names : cache'[q][m] = cache[q][m] \/ cache'[q][m] = NoEntry
    BY <1>4 DEF Drop, InvalidateCache, IInv, Types
  <2>2. cache' \in [Processes -> [Names -> [value : Values, age : Ages] \cup {NoEntry}]]
    BY <1>4 DEF Drop, InvalidateCache, IInv, Types
  <2>3. NoUpdate \in Update /\ NoUpdate.phase = "idle"
    BY DEF NoUpdate, Update
  <2>4. /\ update' \in [Processes -> Update]
        /\ \A q \in Processes : update'[q].phase # "idle" => update'[q].value \in Values
    <3>1. CASE update' = [update EXCEPT ![p] = NoUpdate]
      <4>1. /\ update' \in [Processes -> Update]
            /\ \A q \in Processes : update'[q] = IF q = p THEN NoUpdate ELSE update[q]
        BY <1>0, <2>3, <3>1
      <4> QED BY <2>3, <4>1 DEF IInv, Types
    <3>2. CASE update' = [update EXCEPT ![p].phase = "write"]
      <4>1. update[p].phase # "idle"
        BY <1>4 DEF Drop
      <4>2. update[p].value \in Values
        BY <4>1 DEF IInv, Types
      <4>3. /\ update' \in [Processes -> Update]
            /\ update'[p].value = update[p].value
            /\ \A q \in Processes : q # p => update'[q] = update[q]
        BY <1>0, <3>2 DEF Update
      <4> QED BY <4>2, <4>3 DEF IInv, Types
    <3> QED BY <1>4, <3>1, <3>2 DEF Drop
  <2>5. UNCHANGED <<row, past, reader, count>>
    BY <1>4 DEF Drop
  <2>6. Types'
    BY <2>2, <2>4, <2>5 DEF IInv, Types
  <2> QED BY <2>1, <2>5, <2>6 DEF IInv, RowIsNow, FoundIsDated, EntriesAreDated, NextName
<1> QED BY <1>1, <1>2, <1>3, <1>4 DEF UpdateStep, UpdateSecrets, UpdateSettings

LEMMA TickKeeps == ASSUME IInv, Tick PROVE IInv'
<1>0. /\ UNCHANGED <<row, update, count>>
      /\ past' = [n \in Names |-> [v \in Values |-> IF row[n] = v THEN 0 ELSE Older(past[n][v])]]
      /\ cache' = [p \in Processes |-> [n \in Names |-> Aged(cache[p][n])]]
      /\ reader' = [r \in Readers |->
                     [reader[r] EXCEPT !.age = IF reader[r].phase \in {"query", "found"}
                                               THEN Older(@) ELSE 0]]
  BY DEF Tick
<1>1. past' \in [Names -> [Values -> Ages]]
  BY <1>0, AgesAreNaturals DEF IInv, Types
<1>2. ASSUME NEW n \in Names, NEW v \in Values, NEW age \in Ages, past[n][v] <= age
      PROVE  past'[n][v] <= Older(age)
  <2>1. past[n][v] \in Ages
    BY DEF IInv, Types
  <2>2. Older(past[n][v]) <= Older(age) /\ Older(age) \in Nat
    BY <1>2, <2>1, AgesAreNaturals
  <2>3. past'[n][v] = IF row[n] = v THEN 0 ELSE Older(past[n][v])
    BY <1>0
  <2> QED BY <2>2, <2>3
<1>3. ASSUME NEW r \in Readers
      PROVE  /\ reader'[r] \in Reader
             /\ reader'[r].phase = reader[r].phase /\ reader'[r].process = reader[r].process
             /\ reader'[r].list = reader[r].list /\ reader'[r].got = reader[r].got
             /\ reader'[r].value = reader[r].value
             /\ reader[r].phase = "found" => reader'[r].age = Older(reader[r].age)
  <2>1. reader[r] \in Reader /\ reader[r].age \in Ages
    BY DEF IInv, Types, Reader
  <2>2. PICK age \in Ages : /\ reader'[r] = [reader[r] EXCEPT !.age = age]
                            /\ reader[r].phase = "found" => age = Older(reader[r].age)
    BY <1>0, <2>1, AgesAreNaturals
  <2> QED BY <2>1, <2>2 DEF Reader
<1>4. ASSUME NEW p \in Processes, NEW n \in Names
      PROVE  /\ cache'[p][n] \in [value : Values, age : Ages] \cup {NoEntry}
             /\ cache'[p][n] # NoEntry =>
                  /\ cache[p][n] # NoEntry
                  /\ cache'[p][n].value = cache[p][n].value
                  /\ cache'[p][n].age = Older(cache[p][n].age)
                  /\ Older(cache[p][n].age) # TTL
  <2>1. cache[p][n] \in [value : Values, age : Ages] \cup {NoEntry}
    BY DEF IInv, Types
  <2>2. cache'[p][n] = IF Older(cache[p][n].age) = TTL THEN NoEntry
                       ELSE [cache[p][n] EXCEPT !.age = Older(@)]
    BY <1>0 DEF Aged
  <2>3. CASE cache[p][n] = NoEntry
    BY <2>2, <2>3, AgesAreNaturals DEF NoEntry, Older
  <2>4. CASE cache[p][n] # NoEntry /\ Older(cache[p][n].age) # TTL
    <3>1. cache[p][n] \in [value : Values, age : Ages] /\ Older(cache[p][n].age) \in Ages
      BY <2>1, <2>4, AgesAreNaturals
    <3>2. cache'[p][n] = [cache[p][n] EXCEPT !.age = Older(cache[p][n].age)]
      BY <2>2, <2>4, <3>1
    <3> QED BY <2>4, <3>1, <3>2
  <2>5. CASE cache[p][n] # NoEntry /\ Older(cache[p][n].age) = TTL
    BY <2>2, <2>5
  <2> QED BY <2>3, <2>4, <2>5
<1>5. Types'
  <2>1. reader' \in [Readers -> Reader]
    BY <1>0, <1>3
  <2>2. cache' \in [Processes -> [Names -> [value : Values, age : Ages] \cup {NoEntry}]]
    BY <1>0, <1>4
  <2> QED BY <1>0, <1>1, <1>3, <2>1, <2>2 DEF IInv, Types
<1>6. RowIsNow'
  BY <1>0 DEF IInv, Types, RowIsNow
<1>7. FoundIsDated'
  <2> SUFFICES ASSUME NEW r \in Readers, reader'[r].phase = "found",
                      reader'[r].value # Default
               PROVE  past'[NextName(r)'][reader'[r].value] <= reader'[r].age
    BY DEF FoundIsDated
  <2>1. NextName(r)' = NextName(r) /\ NextName(r) \in Names
    BY <1>3, NextNameIsName DEF IInv, NextName
  <2>2. reader[r].value \in Values /\ reader[r].age \in Ages
    BY <1>3 DEF IInv, Types, Reader
  <2>3. past[NextName(r)][reader[r].value] <= reader[r].age
    BY <1>3 DEF IInv, FoundIsDated
  <2> QED BY <1>2, <1>3, <2>1, <2>2, <2>3
<1>8. EntriesAreDated'
  <2> SUFFICES ASSUME NEW p \in Processes, NEW n \in Names, cache'[p][n] # NoEntry
               PROVE  /\ cache'[p][n].age < TTL
                      /\ past'[n][cache'[p][n].value] <= cache'[p][n].age
    BY DEF EntriesAreDated
  <2>1. cache[p][n].value \in Values /\ cache[p][n].age \in Ages
    BY <1>4 DEF IInv, Types
  <2>2. past[n][cache[p][n].value] <= cache[p][n].age
    BY <1>4 DEF IInv, EntriesAreDated
  <2>3. /\ cache'[p][n].age = Older(cache[p][n].age)
        /\ Older(cache[p][n].age) \in Nat /\ Older(cache[p][n].age) <= TTL
        /\ Older(cache[p][n].age) # TTL
    BY <1>4, <2>1, AgesAreNaturals
  <2>4. cache'[p][n].age < TTL
    BY <2>3, AgesAreNaturals
  <2> QED BY <1>2, <1>4, <2>1, <2>2, <2>3, <2>4
<1> QED BY <1>5, <1>6, <1>7, <1>8 DEF IInv

LEMMA Invariance == IInv /\ [Next]_vars => IInv'
<1> SUFFICES ASSUME IInv, [Next]_vars PROVE IInv'
  OBVIOUS
<1>1. ASSUME NEW r \in Readers, ReadStep(r) PROVE IInv'
  BY <1>1, AskKeeps, GetKeeps, QueryKeeps, FoundKeeps DEF ReadStep
<1>2. CASE UNCHANGED vars
  BY <1>2 DEF vars, IInv, Types, RowIsNow, FoundIsDated, EntriesAreDated, NextName
<1> QED BY <1>1, <1>2, UpdateKeeps, TickKeeps DEF Next

-----------------------------------------------------------------------------
\* For any number of processes, readers and updates, however long a query takes: what a
\* cache would serve was the row's value less than CACHE_TTL_MS ago (settings.service.ts:35).
THEOREM CacheIsRecent == Spec => []ServedIsRecent
<1>1. IInv => ServedIsRecent
  <2> SUFFICES ASSUME IInv, NEW p \in Processes, NEW n \in Names, cache[p][n] # NoEntry
               PROVE  past[n][cache[p][n].value] < TTL
    BY DEF ServedIsRecent
  <2>1. cache[p][n].value \in Values /\ cache[p][n].age \in Ages
    BY DEF IInv, Types
  <2>2. past[n][cache[p][n].value] \in Ages
    BY <2>1 DEF IInv, Types
  <2>3. past[n][cache[p][n].value] \in Nat /\ cache[p][n].age \in Nat /\ TTL \in Nat
    BY <2>1, <2>2, AgesAreNaturals
  <2> QED BY <2>3 DEF IInv, EntriesAreDated
<1> QED BY <1>1, Initially, Invariance, PTL DEF Spec

-----------------------------------------------------------------------------
(* What a process has written itself.                                      *)
(*                                                                         *)
(* Between the upsert and the deletion of the entry the cache is wrong,    *)
(* and until the last name is written the transporter is; a read that is   *)
(* under way meanwhile can bring either value back.  So the invariant says *)
(* of each name how far the update of the process has come with it.        *)

\* The parts of TypeOK that this needs besides Types.
OwnTypes ==
    /\ transport \in [Processes -> Seq(Values \cup {Default})]
    /\ \A p \in Processes : Len(transport[p]) <= Len(MailList)
    /\ writer \in [Names -> Processes \cup {Nobody}]
    /\ raced \in [Processes -> SUBSET Names]

\* resolveTransporter reads MailList; an update goes through its names one by one, and
\* settings are no mail configuration.
MailReaders == \A r \in Readers : reader[r].phase # "idle" /\ reader[r].mail => reader[r].list = MailList

GoesThrough(u) ==
    /\ u.names \in Seq(Names) /\ u.next \in 1 .. Len(u.names) + 1
    /\ u.phase = "write" => u.next <= Len(u.names)
    /\ u.phase = "drop" => u.next > 1 /\ (~u.secrets => u.next > Len(u.names))
    /\ ~u.secrets => ToSet(u.names) \cap ToSet(MailList) = {}

UpdatesGoThrough == \A p \in Processes : update[p].phase # "idle" => GoesThrough(update[p])

Shape == OwnTypes /\ MailReaders /\ UpdatesGoThrough

\* What the update of p has written, and what of it is still in the cache.
WrittenOf(u) == IF u.phase = "idle" THEN {} ELSE {u.names[i] : i \in 1 .. u.next - 1}

DirtyOf(u) ==
    IF u.secrets THEN IF u.phase = "drop" THEN {u.names[u.next - 1]} ELSE {}
    ELSE WrittenOf(u)

Written(p) == WrittenOf(update[p])
Dirty(p) == DirtyOf(update[p])

\* The row of n is what p wrote, and no read or failure of p spoilt it.
Own(p, n) == writer[n] = p /\ n \notin raced[p]

FoundIsNew(p, n) ==
    \A r \in Readers :
        reader[r].phase = "found" /\ reader[r].process = p /\ NextName(r) = n
            => reader[r].value = row[n]

CacheIsNew(p, n) == cache[p][n] # NoEntry => cache[p][n].value = row[n]

NewIn(values, n) == \A i \in DOMAIN values : MailList[i] = n => values[i] = row[n]

MailIsNew(p, n) ==
    \A r \in Readers :
        reader[r].phase # "idle" /\ reader[r].process = p /\ reader[r].mail
            => NewIn(reader[r].got, n)

OwnIsNew(p, n) ==
    /\ FoundIsNew(p, n)
    /\ n \notin Dirty(p) => CacheIsNew(p, n) /\ MailIsNew(p, n)
    /\ n \notin Written(p) => NewIn(transport[p], n)

OwnInv == \A p \in Processes, n \in Names : Own(p, n) => OwnIsNew(p, n)

\* Only what was written can be wrong in the cache.
LEMMA DirtyIsWritten ==
    ASSUME Shape, Types, NEW p \in Processes
    PROVE  Dirty(p) \subseteq Written(p)
<1>1. CASE update[p].phase = "drop"
  <2>1. update[p].next - 1 \in 1 .. update[p].next - 1
    BY <1>1 DEF Shape, UpdatesGoThrough, GoesThrough
  <2> QED BY <1>1, <2>1 DEF Dirty, DirtyOf, Written, WrittenOf
<1>2. CASE update[p].phase # "drop"
  BY <1>2 DEF Dirty, DirtyOf, Written, WrittenOf
<1> QED BY <1>1, <1>2

\* A step that reads nothing: what readers have, they had, and entries only go.
LEMMA NothingRead ==
    ASSUME OwnInv, UNCHANGED <<row, transport, writer, raced>>,
           \A p \in Processes : Dirty(p)' = Dirty(p) /\ Written(p)' = Written(p),
           \A p \in Processes, n \in Names :
              cache'[p][n] # NoEntry => cache[p][n] # NoEntry /\ cache'[p][n].value = cache[p][n].value,
           \A r \in Readers :
              \/ /\ reader'[r].phase = reader[r].phase /\ reader'[r].process = reader[r].process
                 /\ reader'[r].list = reader[r].list /\ reader'[r].got = reader[r].got
                 /\ reader'[r].mail = reader[r].mail /\ reader'[r].value = reader[r].value
              \/ /\ reader'[r].phase \notin {"idle", "found"} /\ reader[r].phase # "idle"
                 /\ reader'[r].process = reader[r].process
                 /\ reader'[r].mail = reader[r].mail /\ reader'[r].got = reader[r].got
              \/ reader'[r].phase \notin {"idle", "found"} /\ reader'[r].got = <<>>
    PROVE  OwnInv'
<1> SUFFICES ASSUME NEW p \in Processes, NEW n \in Names, Own(p, n)
             PROVE  OwnIsNew(p, n)'
  BY DEF OwnInv, Own
<1>1. OwnIsNew(p, n)
  BY DEF OwnInv
<1>2. FoundIsNew(p, n)'
  BY <1>1 DEF OwnIsNew, FoundIsNew, NextName
<1>3. n \notin Dirty(p) => CacheIsNew(p, n)'
  BY <1>1 DEF OwnIsNew, CacheIsNew
<1>4. n \notin Dirty(p) => MailIsNew(p, n)'
  BY <1>1 DEF OwnIsNew, MailIsNew, NewIn
<1>5. n \notin Written(p) => NewIn(transport[p], n)'
  BY <1>1 DEF OwnIsNew, NewIn
<1> QED BY <1>2, <1>3, <1>4, <1>5 DEF OwnIsNew

\* What got() does with a value.
LEMMA GotValue ==
    ASSUME Types, Shape, NEW r \in Readers, NEW value \in Values \cup {Default},
           reader[r].phase # "idle", Got(r, value)
    PROVE  LET got == Append(reader[r].got, value)
               p == reader[r].process
           IN  /\ \A s \in Readers : s # r => reader'[s] = reader[s]
               /\ reader'[r].phase # "found"
               /\ reader'[r].phase # "idle" =>
                    /\ reader'[r].process = p /\ reader'[r].mail = reader[r].mail
                    /\ reader'[r].list = reader[r].list /\ reader'[r].got = got
               /\ transport' \in [Processes -> Seq(Values \cup {Default})]
               /\ \A q \in Processes : \/ transport'[q] = transport[q]
                                       \/ q = p /\ reader[r].mail /\ transport'[q] = got
               /\ reader[r].mail => Len(got) <= Len(MailList)
<1>0. /\ reader \in [Readers -> Reader] /\ reader[r] \in Reader
      /\ transport \in [Processes -> Seq(Values \cup {Default})]
  BY DEF Types, Shape, OwnTypes
<1>1. PICK got : got = Append(reader[r].got, value)
  OBVIOUS
<1>2. got \in Seq(Values \cup {Default})
  BY <1>0, <1>1 DEF Reader
<1>3. \/ /\ reader' = [reader EXCEPT ![r] = NoReader]
         /\ \/ transport' = transport
            \/ reader[r].mail /\ transport' = [transport EXCEPT ![reader[r].process] = got]
      \/ /\ reader' = [reader EXCEPT ![r] = [reader[r] EXCEPT !.phase = "get", !.got = got]]
         /\ transport' = transport
  BY <1>1 DEF Got
<1>4. /\ \A s \in Readers : s # r => reader'[s] = reader[s]
      /\ reader'[r] = NoReader \/ reader'[r] = [reader[r] EXCEPT !.phase = "get", !.got = got]
  BY <1>0, <1>3
<1>5. NoReader.phase = "idle"
  BY DEF NoReader
<1>6. PICK next : next = [reader[r] EXCEPT !.phase = "get", !.got = got]
  OBVIOUS
<1>7. /\ next.phase = "get" /\ next.got = got /\ next.list = reader[r].list
      /\ next.mail = reader[r].mail /\ next.process = reader[r].process
  BY <1>0, <1>6 DEF Reader
<1>8. /\ transport' \in [Processes -> Seq(Values \cup {Default})]
      /\ \A q \in Processes : \/ transport'[q] = transport[q]
                              \/ q = reader[r].process /\ reader[r].mail /\ transport'[q] = got
  BY <1>0, <1>2, <1>3
<1>9. ASSUME reader[r].mail PROVE Len(got) <= Len(MailList)
  <2>1. reader[r].list = MailList /\ Len(reader[r].got) < Len(MailList)
    BY <1>9 DEF Shape, MailReaders, Types
  <2>2. Len(got) = Len(reader[r].got) + 1 /\ Len(reader[r].got) \in Nat
    BY <1>0, <1>1 DEF Reader
  <2>3. Len(MailList) \in Nat
    BY ListsHoldNames
  <2> QED BY <2>1, <2>2, <2>3
<1> QED BY <1>1, <1>4, <1>5, <1>6, <1>7, <1>8, <1>9

\* The value that got() takes for the next name is new if the name is p's own: so are
\* then all that the reader has.
LEMMA NewGot ==
    ASSUME Types, Shape, NEW r \in Readers, NEW value, reader[r].phase # "idle",
           reader[r].mail, NEW n, NewIn(reader[r].got, n),
           NextName(r) = n => value = row[n]
    PROVE  NewIn(Append(reader[r].got, value), n)
<1>1. reader[r].got \in Seq(Values \cup {Default}) /\ reader[r].list = MailList
  BY DEF Types, Reader, Shape, MailReaders
<1>2. PICK got, m : got = reader[r].got /\ m = Len(got)
  OBVIOUS
<1>3. NextName(r) = MailList[m + 1]
  BY <1>1, <1>2 DEF NextName
<1>4. /\ m \in Nat /\ DOMAIN got = 1 .. m /\ DOMAIN Append(got, value) = 1 .. m + 1
      /\ Append(got, value)[m + 1] = value
      /\ \A i \in 1 .. m : Append(got, value)[i] = got[i]
  <2>1. got \in Seq(Values \cup {Default, value})
    BY <1>1, <1>2
  <2> QED BY <1>2, <2>1
<1>5. ASSUME NEW i \in 1 .. m + 1, MailList[i] = n PROVE Append(got, value)[i] = row[n]
  <2>1. CASE i \in 1 .. m
    BY <1>2, <1>4, <1>5, <2>1 DEF NewIn
  <2>2. CASE i = m + 1
    BY <1>3, <1>4, <1>5, <2>2
  <2> QED BY <1>4, <2>1, <2>2
<1> QED BY <1>2, <1>4, <1>5 DEF NewIn

\* get() returns: from the cache, or with what its query found.
LEMMA ValueRead ==
    ASSUME IInv, Shape, OwnInv, NEW r \in Readers, NEW value \in Values \cup {Default},
           reader[r].phase # "idle", Got(r, value), UNCHANGED <<row, update, writer, raced>>,
           LET p == reader[r].process
               n == NextName(r)
           IN  /\ Own(p, n) /\ n \notin Dirty(p) => value = row[n]
               /\ \A q \in Processes, m \in Names :
                    \/ cache'[q][m] = cache[q][m] \/ cache'[q][m] = NoEntry
                    \/ q = p /\ m = n /\ cache'[q][m].value = value
    PROVE  OwnInv'
<1> SUFFICES ASSUME NEW q \in Processes, NEW m \in Names, Own(q, m)
             PROVE  OwnIsNew(q, m)'
  BY DEF OwnInv, Own
<1>0. Types /\ OwnIsNew(q, m)
  BY DEF IInv, OwnInv
<1>1. PICK p, n : p = reader[r].process /\ n = NextName(r)
  OBVIOUS
<1>2. PICK got : got = Append(reader[r].got, value)
  OBVIOUS
<1>3. /\ \A s \in Readers : s # r => reader'[s] = reader[s]
      /\ reader'[r].phase # "found"
      /\ reader'[r].phase # "idle" =>
           /\ reader'[r].process = p /\ reader'[r].mail = reader[r].mail
           /\ reader'[r].list = reader[r].list /\ reader'[r].got = got
      /\ \A s \in Processes : \/ transport'[s] = transport[s]
                              \/ s = p /\ reader[r].mail /\ transport'[s] = got
  BY <1>0, <1>1, <1>2, GotValue
<1>4. Dirty(q)' = Dirty(q) /\ Written(q)' = Written(q)
  BY DEF Dirty, Written
<1>5. FoundIsNew(q, m)'
  BY <1>0, <1>3 DEF OwnIsNew, FoundIsNew, NextName
<1>6. ASSUME m \notin Dirty(q) PROVE CacheIsNew(q, m)'
  <2>1. q = p /\ m = n => value = row[m]
    BY <1>1, <1>6
  <2>2. \/ cache'[q][m] = cache[q][m] \/ cache'[q][m] = NoEntry
        \/ q = p /\ m = n /\ cache'[q][m].value = value
    BY <1>1
  <2> QED BY <1>0, <1>6, <2>1, <2>2 DEF OwnIsNew, CacheIsNew
<1>7. ASSUME m \notin Dirty(q), q = p, reader[r].mail PROVE NewIn(got, m)
  <2>1. NewIn(reader[r].got, m)
    BY <1>0, <1>1, <1>7 DEF OwnIsNew, MailIsNew
  <2>2. NextName(r) = m => value = row[m]
    BY <1>1, <1>7
  <2> QED BY <1>0, <1>2, <1>7, <2>1, <2>2, NewGot
<1>8. ASSUME m \notin Dirty(q) PROVE MailIsNew(q, m)'
  <2> SUFFICES ASSUME NEW s \in Readers, reader'[s].phase # "idle", reader'[s].process = q, reader'[s].mail
               PROVE  NewIn(reader'[s].got, m)
    BY DEF MailIsNew, NewIn
  <2>1. CASE s = r
    BY <1>3, <1>7, <1>8, <2>1
  <2>2. CASE s # r
    <3>1. reader'[s] = reader[s]
      BY <1>3, <2>2
    <3> QED BY <1>0, <1>8, <3>1 DEF OwnIsNew, MailIsNew
  <2> QED BY <2>1, <2>2
<1>9. ASSUME m \notin Written(q) PROVE NewIn(transport[q], m)'
  <2>1. m \notin Dirty(q)
    BY <1>0, <1>9, DirtyIsWritten
  <2>2. NewIn(transport'[q], m)
    BY <1>0, <1>3, <1>7, <1>9, <2>1 DEF OwnIsNew
  <2> QED BY <2>2 DEF NewIn
<1> QED BY <1>4, <1>5, <1>6, <1>8, <1>9 DEF OwnIsNew

-----------------------------------------------------------------------------
(* The shape of readers and updates.                                       *)

LEMMA MailIsSecret == ToSet(MailList) \subseteq ToSet(Secrets)
BY SettingsAssumption DEF ToSet

\* What a request names is a part of the list.
LEMMA PicksAreNames ==
    ASSUME NEW list \in Seq(Names), NEW names \in Picks(list)
    PROVE  names \in Seq(Names) /\ ToSet(names) \subseteq ToSet(list)
<1>1. names \in SeqOf(ToSet(list), Len(list))
  BY DEF Picks
<1>2. PICK m \in 0 .. Len(list) : names \in [1 .. m -> ToSet(list)]
  BY <1>1 DEF SeqOf
<1>3. names \in Seq(ToSet(list))
  BY <1>2
<1>4. ToSet(list) \subseteq Names
  BY DEF ToSet
<1> QED BY <1>3, <1>4 DEF ToSet

\* A step of a reader leaves the shape of all if it leaves that of its own reader.
LEMMA ReaderShape ==
    ASSUME Shape, NEW r \in Readers, UNCHANGED <<update, writer, raced>>,
           \A s \in Readers : s # r => reader'[s] = reader[s],
           reader'[r].phase # "idle" /\ reader'[r].mail => reader'[r].list = MailList,
           transport' \in [Processes -> Seq(Values \cup {Default})],
           \A p \in Processes : Len(transport'[p]) <= Len(MailList)
    PROVE  Shape'
<1>1. OwnTypes'
  BY DEF Shape, OwnTypes
<1>2. MailReaders'
  BY DEF Shape, MailReaders
<1>3. UpdatesGoThrough'
  BY DEF Shape, UpdatesGoThrough, GoesThrough
<1> QED BY <1>1, <1>2, <1>3 DEF Shape

LEMMA ReadShape == ASSUME IInv, Shape, NEW r \in Readers, ReadStep(r) PROVE Shape'
<1>0. /\ reader \in [Readers -> Reader] /\ reader[r] \in Reader
      /\ transport \in [Processes -> Seq(Values \cup {Default})] /\ Types
      /\ \A p \in Processes : Len(transport[p]) <= Len(MailList)
  BY DEF IInv, Types, Shape, OwnTypes
<1>1. ASSUME NEW p \in Processes, Ask(r, p) PROVE Shape'
  <2>1. PICK list \in {<<n>> : n \in Names} \cup {MailList}, mail \in BOOLEAN :
          /\ mail => list = MailList
          /\ reader' = [reader EXCEPT ![r] = [NoReader EXCEPT !.phase = "get", !.process = p,
                                                              !.list = list, !.mail = mail]]
    BY <1>1 DEF Ask
  <2>2. PICK q : q = [NoReader EXCEPT !.phase = "get", !.process = p,
                                      !.list = list, !.mail = mail]
    OBVIOUS
  <2>3. q.mail = mail /\ q.list = list
    BY <2>2 DEF NoReader
  <2>4. /\ \A s \in Readers : s # r => reader'[s] = reader[s]
        /\ reader'[r] = q
    BY <1>0, <2>1, <2>2
  <2> QED BY <1>0, <1>1, <2>1, <2>3, <2>4, ReaderShape DEF Ask
<1>2. ASSUME NEW value \in Values \cup {Default}, reader[r].phase # "idle", Got(r, value),
             UNCHANGED <<update, writer, raced>>
      PROVE  Shape'
  <2>1. PICK got : got = Append(reader[r].got, value)
    OBVIOUS
  <2>2. /\ \A s \in Readers : s # r => reader'[s] = reader[s]
        /\ reader'[r].phase # "idle" => /\ reader'[r].mail = reader[r].mail
                                        /\ reader'[r].list = reader[r].list
        /\ transport' \in [Processes -> Seq(Values \cup {Default})]
        /\ \A q \in Processes : \/ transport'[q] = transport[q]
                                \/ reader[r].mail /\ transport'[q] = got
        /\ reader[r].mail => Len(got) <= Len(MailList)
    BY <1>0, <1>2, <2>1, GotValue
  <2>3. \A q \in Processes : Len(transport'[q]) <= Len(MailList)
    BY <1>0, <2>2
  <2>4. reader'[r].phase # "idle" /\ reader'[r].mail => reader'[r].list = MailList
    BY <1>2, <2>2 DEF Shape, MailReaders
  <2> QED BY <1>2, <2>2, <2>3, <2>4, ReaderShape
<1>3. CASE Get(r)
  <2>1. reader[r].phase = "get" /\ UNCHANGED <<update, writer, raced>>
    BY <1>3 DEF Get
  <2>2. CASE reader' = [reader EXCEPT ![r].phase = "query", ![r].age = 0] /\ UNCHANGED transport
    <3>1. /\ \A s \in Readers : s # r => reader'[s] = reader[s]
          /\ reader'[r].mail = reader[r].mail /\ reader'[r].list = reader[r].list
      BY <1>0, <2>2 DEF Reader
    <3> QED BY <1>0, <2>1, <2>2, <3>1, ReaderShape DEF Shape, MailReaders
  <2>3. ASSUME NEW value \in Values, Got(r, value) PROVE Shape'
    BY <1>2, <2>1, <2>3
  <2>4. NextName(r) \in Names /\ reader[r].process \in Processes
    BY <1>0, <2>1, NextNameIsName DEF Types
  <2>5. ASSUME cache[reader[r].process][NextName(r)] # NoEntry
        PROVE  cache[reader[r].process][NextName(r)].value \in Values
    BY <1>0, <2>4, <2>5 DEF Types
  <2> QED BY <1>3, <2>2, <2>3, <2>5 DEF Get
<1>4. CASE Query(r)
  <2>1. /\ \A s \in Readers : s # r => reader'[s] = reader[s]
        /\ reader'[r].mail = reader[r].mail /\ reader'[r].list = reader[r].list
        /\ reader[r].phase = "query"
        /\ UNCHANGED <<transport, update, writer, raced>>
    BY <1>0, <1>4 DEF Query, Reader
  <2> QED BY <1>0, <2>1, ReaderShape DEF Shape, MailReaders
<1>5. CASE Found(r)
  <2>1. /\ reader[r].phase = "found" /\ UNCHANGED <<update, writer, raced>>
        /\ Got(r, reader[r].value) /\ reader[r].value \in Values \cup {Default}
    BY <1>0, <1>5 DEF Found, Reader
  <2> QED BY <1>2, <2>1
<1> QED BY <1>1, <1>3, <1>4, <1>5 DEF ReadStep

LEMMA TickShape == ASSUME IInv, Shape, Tick PROVE Shape'
<1>1. UNCHANGED <<transport, update, writer, raced>>
  BY DEF Tick
<1>2. ASSUME NEW r \in Readers
      PROVE  /\ reader'[r].phase = reader[r].phase /\ reader'[r].mail = reader[r].mail
             /\ reader'[r].list = reader[r].list
  BY DEF Tick, IInv, Types, Reader
<1> QED BY <1>1, <1>2 DEF Shape, OwnTypes, MailReaders, UpdatesGoThrough, GoesThrough

\* A step of an update leaves the shape of all if it leaves that of its own update.
LEMMA UpdateShape ==
    ASSUME Shape, NEW p \in Processes, UNCHANGED reader,
           \A q \in Processes : q # p => update'[q] = update[q],
           update'[p].phase # "idle" => GoesThrough(update'[p]),
           OwnTypes'
    PROVE  Shape'
<1>1. MailReaders'
  BY DEF Shape, MailReaders
<1>2. UpdatesGoThrough'
  BY DEF Shape, UpdatesGoThrough, GoesThrough
<1> QED BY <1>1, <1>2 DEF Shape

LEMMA WriterShape == ASSUME IInv, Shape, NEW p \in Processes, UpdateStep(p) PROVE Shape'
<1>0. /\ update \in [Processes -> Update] /\ update[p] \in Update /\ OwnTypes
      /\ update[p].phase # "idle" => GoesThrough(update[p])
  BY DEF IInv, Types, Shape, UpdatesGoThrough
<1>1. ASSUME NEW secrets \in BOOLEAN,
             NEW names \in Picks(IF secrets THEN Secrets ELSE Settings),
             Begin(p, secrets, names)
      PROVE  Shape'
  <2>1. PICK u : u = [phase |-> "write", secrets |-> secrets, names |-> names, next |-> 1,
                      value |-> count.updates + 1]
    OBVIOUS
  <2>2. /\ u.phase = "write" /\ u.secrets = secrets /\ u.names = names /\ u.next = 1
    BY <2>1
  <2>3. /\ \A q \in Processes : q # p => update'[q] = update[q]
        /\ update'[p] = u /\ names # <<>>
        /\ UNCHANGED <<reader, transport, writer, raced>>
    BY <1>0, <1>1, <2>1 DEF Begin
  <2>4. /\ names \in Seq(Names)
        /\ ToSet(names) \subseteq ToSet(IF secrets THEN Secrets ELSE Settings)
    BY PicksAreNames, SettingsAssumption
  <2>5. Len(names) \in Nat /\ Len(names) > 0
    BY <2>3, <2>4
  <2>6. ~secrets => ToSet(names) \cap ToSet(MailList) = {}
    BY <2>4, MailIsSecret, SettingsAssumption
  <2>7. GoesThrough(u)
    BY <2>2, <2>4, <2>5, <2>6 DEF GoesThrough
  <2> QED BY <1>0, <2>3, <2>7, UpdateShape DEF OwnTypes
<1>2. CASE Write(p)
  <2>1. PICK n : n = update[p].names[update[p].next]
    OBVIOUS
  <2>2. GoesThrough(update[p]) /\ update[p].phase = "write"
    BY <1>0, <1>2 DEF Write
  <2>3. n \in Names
    BY <2>1, <2>2 DEF GoesThrough
  <2>4. OwnTypes'
    BY <1>0, <1>2, <2>1, <2>3 DEF Write, OwnTypes
  <2>5. /\ \A q \in Processes : q # p => update'[q] = update[q]
        /\ update'[p].next = update[p].next + 1
        /\ update'[p].names = update[p].names /\ update'[p].secrets = update[p].secrets
        /\ update'[p].phase = IF update[p].secrets \/ update[p].next = Len(update[p].names)
                              THEN "drop" ELSE "write"
        /\ UNCHANGED reader
    BY <1>0, <1>2 DEF Write, Update
  <2>6. Len(update[p].names) \in Nat
    BY <2>2 DEF GoesThrough
  <2>7. GoesThrough(update'[p])
    BY <2>2, <2>5, <2>6 DEF GoesThrough
  <2> QED BY <2>4, <2>5, <2>7, UpdateShape
<1>3. CASE WriteRejects(p)
  <2>1. NoUpdate.phase = "idle"
    BY DEF NoUpdate
  <2>2. GoesThrough(update[p])
    BY <1>0, <1>3 DEF WriteRejects
  <2>3. {update[p].names[i] : i \in 1 .. update[p].next - 1} \subseteq Names
    BY <2>2 DEF GoesThrough
  <2>4. OwnTypes'
    BY <1>0, <1>3, <2>3 DEF WriteRejects, OwnTypes
  <2>5. /\ \A q \in Processes : q # p => update'[q] = update[q]
        /\ update'[p].phase = "idle" /\ UNCHANGED reader
    BY <1>0, <1>3, <2>1 DEF WriteRejects
  <2> QED BY <2>4, <2>5, UpdateShape
<1>4. CASE Drop(p)
  <2>1. NoUpdate.phase = "idle"
    BY DEF NoUpdate
  <2>2. GoesThrough(update[p]) /\ update[p].phase = "drop"
    BY <1>0, <1>4 DEF Drop
  <2>3. ToSet(update[p].names) \subseteq Names
    BY <2>2 DEF GoesThrough, ToSet
  <2>4. OwnTypes'
    <3>0. Len(MailList) \in Nat /\ Len(<<>>) = 0
      BY ListsHoldNames
    <3>1. /\ transport' \in [Processes -> Seq(Values \cup {Default})]
          /\ \A q \in Processes : transport'[q] = transport[q] \/ transport'[q] = <<>>
      BY <1>0, <1>4 DEF Drop, InvalidateTransport, OwnTypes
    <3>3. \A q \in Processes : Len(transport'[q]) <= Len(MailList)
      BY <1>0, <3>0, <3>1 DEF OwnTypes
    <3>2. raced' \in [Processes -> SUBSET Names] /\ UNCHANGED writer
      BY <1>0, <1>4, <2>3 DEF Drop, OwnTypes
    <3> QED BY <1>0, <3>1, <3>2, <3>3 DEF OwnTypes
  <2>5. UNCHANGED reader
    BY <1>4 DEF Drop
  <2>6. CASE update' = [update EXCEPT ![p] = NoUpdate]
    <3>1. /\ \A q \in Processes : q # p => update'[q] = update[q]
          /\ update'[p].phase = "idle"
      BY <1>0, <2>1, <2>6
    <3> QED BY <2>4, <2>5, <3>1, UpdateShape
  <2>7. CASE ~IsWritten(update[p]) /\ update' = [update EXCEPT ![p].phase = "write"]
    <3>1. /\ \A q \in Processes : q # p => update'[q] = update[q]
          /\ update'[p].next = update[p].next /\ update'[p].phase = "write"
          /\ update'[p].names = update[p].names /\ update'[p].secrets = update[p].secrets
      BY <1>0, <2>7 DEF Update
    <3>2. update[p].next <= Len(update[p].names)
      BY <2>2, <2>7 DEF IsWritten, GoesThrough
    <3>3. GoesThrough(update'[p])
      BY <2>2, <3>1, <3>2 DEF GoesThrough
    <3> QED BY <2>4, <2>5, <3>1, <3>3, UpdateShape
  <2> QED BY <1>4, <2>6, <2>7 DEF Drop
<1> QED BY <1>1, <1>2, <1>3, <1>4 DEF UpdateStep, UpdateSecrets, UpdateSettings

-----------------------------------------------------------------------------
(* Every step keeps OwnInv.                                                *)

LEMMA AskOwn == ASSUME IInv, Shape, OwnInv, NEW r \in Readers, NEW p \in Processes, Ask(r, p)
                PROVE  OwnInv'
<1>0. reader \in [Readers -> Reader]
  BY DEF IInv, Types
<1>1. PICK list \in {<<n>> : n \in Names} \cup {MailList}, mail \in BOOLEAN :
        reader' = [reader EXCEPT ![r] = [NoReader EXCEPT !.phase = "get", !.process = p,
                                                         !.list = list, !.mail = mail]]
  BY DEF Ask
<1>2. PICK q : q = [NoReader EXCEPT !.phase = "get", !.process = p, !.list = list, !.mail = mail]
  OBVIOUS
<1>3. q.phase = "get" /\ q.got = <<>>
  BY <1>2 DEF NoReader
<1>4. /\ \A s \in Readers : s # r => reader'[s] = reader[s]
      /\ reader'[r] = q
  BY <1>0, <1>1, <1>2
<1>5. UNCHANGED <<row, cache, transport, update, writer, raced>>
  BY DEF Ask
<1>6. \A s \in Processes : Dirty(s)' = Dirty(s) /\ Written(s)' = Written(s)
  BY <1>5 DEF Dirty, Written
<1>7. \A s \in Processes, n \in Names :
         cache'[s][n] # NoEntry => cache[s][n] # NoEntry /\ cache'[s][n].value = cache[s][n].value
  BY <1>5
<1> QED BY <1>3, <1>4, <1>5, <1>6, <1>7, NothingRead

LEMMA GetOwn == ASSUME IInv, Shape, OwnInv, NEW r \in Readers, Get(r) PROVE OwnInv'
<1>0. /\ reader \in [Readers -> Reader] /\ reader[r] \in Reader /\ reader[r].phase = "get"
      /\ UNCHANGED <<row, cache, update, writer, raced>> /\ Types
  BY DEF Get, IInv, Types
<1>1. PICK p, n : p = reader[r].process /\ n = NextName(r)
  OBVIOUS
<1>2. p \in Processes /\ n \in Names
  BY <1>0, <1>1, NextNameIsName DEF Types
<1>3. CASE cache[p][n] # NoEntry /\ Got(r, cache[p][n].value)
  <2>1. cache[p][n].value \in Values \cup {Default}
    BY <1>0, <1>2, <1>3 DEF Types
  <2>2. Own(p, n) /\ n \notin Dirty(p) => cache[p][n].value = row[n]
    BY <1>2, <1>3 DEF OwnInv, OwnIsNew, CacheIsNew
  <2> QED BY <1>0, <1>1, <1>3, <2>1, <2>2, ValueRead
<1>4. CASE reader' = [reader EXCEPT ![r].phase = "query", ![r].age = 0] /\ UNCHANGED transport
  <2>1. \A s \in Processes : Dirty(s)' = Dirty(s) /\ Written(s)' = Written(s)
    BY <1>0 DEF Dirty, Written
  <2>2. /\ \A s \in Readers : s # r => reader'[s] = reader[s]
        /\ reader'[r].phase = "query" /\ reader'[r].process = reader[r].process
        /\ reader'[r].mail = reader[r].mail /\ reader'[r].got = reader[r].got
    BY <1>0, <1>4 DEF Reader
  <2>3. \A s \in Processes, m \in Names :
           cache'[s][m] # NoEntry => cache[s][m] # NoEntry /\ cache'[s][m].value = cache[s][m].value
    BY <1>0
  <2> QED BY <1>0, <1>4, <2>1, <2>2, <2>3, NothingRead
<1> QED BY <1>1, <1>3, <1>4 DEF Get

LEMMA QueryOwn == ASSUME IInv, Shape, OwnInv, NEW r \in Readers, Query(r) PROVE OwnInv'
<1> SUFFICES ASSUME NEW q \in Processes, NEW m \in Names, Own(q, m)
             PROVE  OwnIsNew(q, m)'
  BY DEF OwnInv, Own, Query
<1>0. /\ reader \in [Readers -> Reader] /\ reader[r] \in Reader /\ reader[r].phase = "query"
      /\ UNCHANGED <<row, cache, transport, update, writer, raced>>
      /\ OwnIsNew(q, m)
  BY DEF Query, IInv, Types, OwnInv
<1>1. /\ \A s \in Readers : s # r => reader'[s] = reader[s]
      /\ reader'[r].phase = "found" /\ reader'[r].value = row[NextName(r)]
      /\ reader'[r].got = reader[r].got /\ reader'[r].list = reader[r].list
      /\ reader'[r].process = reader[r].process /\ reader'[r].mail = reader[r].mail
  BY <1>0 DEF Query, Reader
<1>2. FoundIsNew(q, m)'
  BY <1>0, <1>1 DEF OwnIsNew, FoundIsNew, NextName
<1>3. m \notin Dirty(q) => CacheIsNew(q, m)' /\ MailIsNew(q, m)'
  BY <1>0, <1>1 DEF OwnIsNew, CacheIsNew, MailIsNew, NewIn
<1>4. Dirty(q)' = Dirty(q) /\ Written(q)' = Written(q)
  BY <1>0 DEF Dirty, Written
<1>5. m \notin Written(q) => NewIn(transport[q], m)'
  BY <1>0 DEF OwnIsNew, NewIn
<1> QED BY <1>2, <1>3, <1>4, <1>5 DEF OwnIsNew

LEMMA FoundOwn == ASSUME IInv, Shape, OwnInv, NEW r \in Readers, Found(r) PROVE OwnInv'
<1>0. /\ reader \in [Readers -> Reader] /\ reader[r] \in Reader /\ reader[r].phase = "found"
      /\ UNCHANGED <<row, update, writer, raced>> /\ Types
  BY DEF Found, IInv, Types
<1>1. PICK p, n, v : p = reader[r].process /\ n = NextName(r) /\ v = reader[r].value
  OBVIOUS
<1>2. /\ p \in Processes /\ n \in Names /\ v \in Values \cup {Default} /\ Got(r, v)
  BY <1>0, <1>1, NextNameIsName DEF Types, Reader, Found
<1>3. Own(p, n) => v = row[n]
  BY <1>0, <1>1, <1>2 DEF OwnInv, OwnIsNew, FoundIsNew
<1>4. cache' = cache \/ cache' = [cache EXCEPT ![p][n] = Entry(v, Stamp(r))]
  BY <1>1 DEF Found
<1>5. Entry(v, Stamp(r)) = NoEntry \/ Entry(v, Stamp(r)).value = v
  BY DEF Entry
<1>6. \A q \in Processes, m \in Names :
         \/ cache'[q][m] = cache[q][m] \/ cache'[q][m] = NoEntry
         \/ q = p /\ m = n /\ cache'[q][m].value = v
  <2>1. PICK e : e = Entry(v, Stamp(r))
    OBVIOUS
  <2>2. cache \in [Processes -> [Names -> [value : Values, age : Ages] \cup {NoEntry}]]
    BY <1>0 DEF Types
  <2>3. cache' = cache \/ cache' = [cache EXCEPT ![p][n] = e]
    BY <1>4, <2>1
  <2>4. e = NoEntry \/ e.value = v
    BY <1>5, <2>1
  <2> QED BY <1>2, <2>2, <2>3, <2>4
<1> QED BY <1>0, <1>1, <1>2, <1>3, <1>6, ValueRead

LEMMA TickOwn == ASSUME IInv, Shape, OwnInv, Tick PROVE OwnInv'
<1>0. UNCHANGED <<row, transport, update, writer, raced>>
  BY DEF Tick
<1>1. \A s \in Processes : Dirty(s)' = Dirty(s) /\ Written(s)' = Written(s)
  BY <1>0 DEF Dirty, Written
<1>2. ASSUME NEW r \in Readers
      PROVE  /\ reader'[r].phase = reader[r].phase /\ reader'[r].process = reader[r].process
             /\ reader'[r].list = reader[r].list /\ reader'[r].got = reader[r].got
             /\ reader'[r].mail = reader[r].mail /\ reader'[r].value = reader[r].value
  BY DEF Tick, IInv, Types, Reader
<1>3. ASSUME NEW s \in Processes, NEW n \in Names
      PROVE  cache'[s][n] # NoEntry
             => cache[s][n] # NoEntry /\ cache'[s][n].value = cache[s][n].value
  <2>1. cache'[s][n] = Aged(cache[s][n])
    BY DEF Tick
  <2>2. cache[s][n] \in [value : Values, age : Ages] \cup {NoEntry}
    BY DEF IInv, Types
  <2>3. CASE cache[s][n] = NoEntry
    BY <2>1, <2>3, AgesAreNaturals DEF NoEntry, Older, Aged
  <2>4. CASE cache[s][n] # NoEntry
    BY <2>1, <2>2, <2>4 DEF Aged
  <2> QED BY <2>3, <2>4
<1> QED BY <1>0, <1>1, <1>2, <1>3, NothingRead

LEMMA ReadOwn == ASSUME IInv, Shape, OwnInv, NEW r \in Readers, ReadStep(r) PROVE OwnInv'
BY AskOwn, GetOwn, QueryOwn, FoundOwn DEF ReadStep

\* A name of which a step says nothing new stays what it was.
LEMMA OwnStays ==
    ASSUME OwnInv, NEW p \in Processes, NEW n \in Names, Own(p, n),
           row'[n] = row[n], UNCHANGED reader,
           cache'[p][n] = cache[p][n] \/ cache'[p][n] = NoEntry,
           transport'[p] = transport[p] \/ transport'[p] = <<>>,
           n \in Dirty(p) => n \in Dirty(p)',
           n \in Written(p) => n \in Written(p)'
    PROVE  OwnIsNew(p, n)'
<1>0. OwnIsNew(p, n)
  BY DEF OwnInv
<1>1. FoundIsNew(p, n)'
  BY <1>0 DEF OwnIsNew, FoundIsNew, NextName
<1>2. n \notin Dirty(p)' => CacheIsNew(p, n)' /\ MailIsNew(p, n)'
  BY <1>0 DEF OwnIsNew, CacheIsNew, MailIsNew, NewIn
<1>3. n \notin Written(p)' => NewIn(transport[p], n)'
  <2>1. DOMAIN <<>> = {}
    OBVIOUS
  <2> QED BY <1>0, <2>1 DEF OwnIsNew, NewIn
<1> QED BY <1>1, <1>2, <1>3 DEF OwnIsNew

LEMMA BeginOwn ==
    ASSUME IInv, Shape, OwnInv, NEW p \in Processes, NEW secrets \in BOOLEAN, NEW names,
           Begin(p, secrets, names)
    PROVE  OwnInv'
<1>0. update \in [Processes -> Update] /\ update[p].phase = "idle"
  BY DEF Begin, IInv, Types
<1>1. PICK u : u = [phase |-> "write", secrets |-> secrets, names |-> names, next |-> 1,
                    value |-> count.updates + 1]
  OBVIOUS
<1>2. u.phase = "write" /\ u.next = 1
  BY <1>1
<1>3. /\ \A q \in Processes : q # p => update'[q] = update[q]
      /\ update'[p] = u /\ UNCHANGED <<row, cache, reader, transport, writer, raced>>
  BY <1>0, <1>1 DEF Begin
<1>4. WrittenOf(u) = {} /\ DirtyOf(u) = {}
  BY <1>2 DEF WrittenOf, DirtyOf
<1>5. WrittenOf(update[p]) = {} /\ DirtyOf(update[p]) = {}
  BY <1>0 DEF WrittenOf, DirtyOf
<1>6. \A q \in Processes : Dirty(q)' = Dirty(q) /\ Written(q)' = Written(q)
  BY <1>3, <1>4, <1>5 DEF Dirty, Written
<1>7. \A s \in Processes, n \in Names :
         cache'[s][n] # NoEntry => cache[s][n] # NoEntry /\ cache'[s][n].value = cache[s][n].value
  BY <1>3
<1> QED BY <1>3, <1>6, <1>7, NothingRead

LEMMA WriteOwn == ASSUME IInv, Shape, OwnInv, NEW p \in Processes, Write(p) PROVE OwnInv'
<1>0. /\ update \in [Processes -> Update] /\ update[p] \in Update /\ update[p].phase = "write"
      /\ row \in [Names -> Values \cup {Default}] /\ OwnTypes
  BY DEF Write, IInv, Types, Shape
<1>1. PICK n, v : n = update[p].names[update[p].next] /\ v = update[p].value
  OBVIOUS
<1>2. GoesThrough(update[p])
  BY <1>0 DEF Shape, UpdatesGoThrough
<1>3. n \in Names
  BY <1>0, <1>1, <1>2 DEF GoesThrough
<1>4. /\ \A m \in Names : m # n => row'[m] = row[m] /\ writer'[m] = writer[m]
      /\ row'[n] = v /\ writer'[n] = p
      /\ \A q \in Processes : q # p => raced'[q] = raced[q] /\ update'[q] = update[q]
      /\ raced'[p] = IF KnowsAnother(p, n, v) THEN raced[p] \cup {n} ELSE raced[p] \ {n}
      /\ UNCHANGED <<cache, reader, transport>>
  BY <1>0, <1>1, <1>3 DEF Write, OwnTypes
<1>5. /\ update'[p].next = update[p].next + 1
      /\ update'[p].names = update[p].names /\ update'[p].secrets = update[p].secrets
      /\ update'[p].phase = IF update[p].secrets \/ update[p].next = Len(update[p].names)
                            THEN "drop" ELSE "write"
  BY <1>0 DEF Write, Update
<1>6. /\ \A q \in Processes : q # p => Dirty(q)' = Dirty(q) /\ Written(q)' = Written(q)
  BY <1>4 DEF Dirty, Written
<1>7. update[p].next \in Nat /\ update[p].next >= 1
  BY <1>2 DEF GoesThrough
<1>8. n \in Written(p)' /\ Written(p) \subseteq Written(p)'
  <2>1. Written(p) = {update[p].names[i] : i \in 1 .. update[p].next - 1}
    BY <1>0 DEF Written, WrittenOf
  <2>2. Written(p)' = {update[p].names[i] : i \in 1 .. update[p].next}
    BY <1>5, <1>7 DEF Written, WrittenOf
  <2> QED BY <1>1, <1>7, <2>1, <2>2
<1>9. n \in Dirty(p)' /\ Dirty(p) \subseteq Dirty(p)'
  <2>1. CASE update[p].secrets
    <3>1. Dirty(p) = {}
      BY <1>0, <2>1 DEF Dirty, DirtyOf
    <3>2. Dirty(p)' = {update'[p].names[update'[p].next - 1]}
      BY <1>5, <2>1, Zenon DEF Dirty, DirtyOf
    <3>3. update'[p].next - 1 = update[p].next
      BY <1>5, <1>7
    <3> QED BY <1>1, <1>5, <3>1, <3>2, <3>3
  <2>2. CASE ~update[p].secrets
    <3>1. Dirty(p) = Written(p) /\ Dirty(p)' = Written(p)'
      BY <1>5, <2>2 DEF Dirty, DirtyOf, Written
    <3> QED BY <1>8, <3>1
  <2> QED BY <2>1, <2>2
<1>10. ASSUME n \notin raced'[p] PROVE OwnIsNew(p, n)'
  <2>1. ~KnowsAnother(p, n, v)
    BY <1>4, <1>10
  <2>2. FoundIsNew(p, n)'
    BY <1>4, <2>1 DEF FoundIsNew, KnowsAnother, NextName
  <2> QED BY <1>8, <1>9, <2>2 DEF OwnIsNew
<1>11. ASSUME NEW q \in Processes, NEW m \in Names, Own(q, m)', ~(q = p /\ m = n)
       PROVE  OwnIsNew(q, m)'
  <2>1. m # n
    BY <1>4, <1>11 DEF Own
  <2>2. Own(q, m)
    BY <1>4, <1>11, <2>1 DEF Own
  <2>3. /\ m \in Dirty(q) => m \in Dirty(q)'
        /\ m \in Written(q) => m \in Written(q)'
    BY <1>6, <1>8, <1>9
  <2> QED BY <1>4, <2>1, <2>2, <2>3, OwnStays
<1> QED BY <1>10, <1>11 DEF OwnInv, Own

LEMMA RejectsOwn == ASSUME IInv, Shape, OwnInv, NEW p \in Processes, WriteRejects(p) PROVE OwnInv'
<1>0. /\ update \in [Processes -> Update] /\ update[p].phase = "write"
      /\ Types /\ OwnTypes
  BY DEF WriteRejects, IInv, Types, Shape
<1>1. /\ \A q \in Processes : q # p => update'[q] = update[q] /\ raced'[q] = raced[q]
      /\ raced'[p] = raced[p] \cup Written(p)
      /\ UNCHANGED <<row, cache, reader, transport, writer>>
  BY <1>0 DEF WriteRejects, OwnTypes, Written, WrittenOf
<1>2. \A q \in Processes : q # p => Dirty(q)' = Dirty(q) /\ Written(q)' = Written(q)
  BY <1>1 DEF Dirty, Written
<1>3. ASSUME NEW q \in Processes, NEW m \in Names, Own(q, m)' PROVE OwnIsNew(q, m)'
  <2>1. Own(q, m)
    BY <1>1, <1>3 DEF Own
  <2>2. /\ m \in Dirty(q) => m \in Dirty(q)'
        /\ m \in Written(q) => m \in Written(q)'
    <3>1. CASE q = p
      <4>1. m \notin Written(p)
        BY <1>1, <1>3, <3>1 DEF Own
      <4> QED BY <1>0, <3>1, <4>1, DirtyIsWritten
    <3> QED BY <1>2, <3>1
  <2> QED BY <1>1, <2>1, <2>2, OwnStays
<1> QED BY <1>3 DEF OwnInv

LEMMA DropOwn == ASSUME IInv, Shape, OwnInv, NEW p \in Processes, Drop(p) PROVE OwnInv'
<1>0. /\ update \in [Processes -> Update] /\ update[p] \in Update /\ update[p].phase = "drop"
      /\ Types /\ OwnTypes /\ GoesThrough(update[p])
  BY DEF Drop, IInv, Types, Shape, UpdatesGoThrough
<1>1. /\ \A q \in Processes : q # p => /\ update'[q] = update[q] /\ raced'[q] = raced[q]
                                       /\ cache'[q] = cache[q] /\ transport'[q] = transport[q]
      /\ UNCHANGED <<row, reader, writer>>
  BY <1>0 DEF Drop, OwnTypes, Types, InvalidateCache, InvalidateTransport
<1>2. raced'[p] = raced[p] \cup {n \in ToSet(update[p].names) : KnowsAnother(p, n, row[n])}
  BY <1>0 DEF Drop, OwnTypes
<1>3. \A n \in Names :
         /\ cache'[p][n] = cache[p][n] \/ cache'[p][n] = NoEntry
         /\ n \in Dirty(p) => cache'[p][n] = NoEntry
  <2>1. CASE update[p].secrets
    <3>1. PICK m : m = update[p].names[update[p].next - 1]
      OBVIOUS
    <3>2. Dirty(p) = {m}
      BY <1>0, <2>1, <3>1 DEF Dirty, DirtyOf
    <3>3. cache' = [cache EXCEPT ![p] = [@ EXCEPT ![m] = NoEntry]]
      BY <2>1, <3>1 DEF Drop, InvalidateCache
    <3> QED BY <1>0, <3>2, <3>3 DEF Types
  <2>2. CASE ~update[p].secrets
    BY <1>0, <2>2 DEF Drop, InvalidateCache, Types
  <2> QED BY <2>1, <2>2
<1>4. Written(p) \subseteq ToSet(update[p].names)
  BY <1>0 DEF Written, WrittenOf, GoesThrough, ToSet
<1>5. Dirty(p) \subseteq Written(p)
  BY <1>0, DirtyIsWritten
<1>6. ASSUME NEW n \in Names, n \in Written(p), n \notin raced'[p] PROVE MailIsNew(p, n)'
  <2>1. ~KnowsAnother(p, n, row[n])
    BY <1>2, <1>4, <1>6
  <2> SUFFICES ASSUME NEW r \in Readers, reader[r].phase # "idle", reader[r].process = p,
                      reader[r].mail, NEW i \in DOMAIN reader[r].got, MailList[i] = n
               PROVE  reader[r].got[i] = row[n]
    BY <1>1 DEF MailIsNew, NewIn
  <2>2. reader[r].list = MailList
    BY DEF Shape, MailReaders
  <2> QED BY <2>1, <2>2 DEF KnowsAnother
<1>7. transport'[p] = transport[p] \/ transport'[p] = <<>>
  BY <1>0 DEF Drop, InvalidateTransport, OwnTypes
<1>8. ASSUME NEW n \in Names, OwnIsNew(p, n), n \notin Written(p)'
      PROVE  NewIn(transport[p], n)'
  <2>1. CASE n \notin Written(p)
    <3>1. NewIn(transport[p], n) /\ DOMAIN <<>> = {}
      BY <1>8, <2>1 DEF OwnIsNew
    <3> QED BY <1>1, <1>7, <3>1 DEF NewIn
  <2>2. CASE n \in Written(p) /\ ~IsWritten(update[p])
    <3>1. /\ update'[p].next = update[p].next /\ update'[p].names = update[p].names
          /\ update'[p].phase = "write"
      BY <1>0, <2>2 DEF Drop, Update
    <3>2. Written(p)' = Written(p)
      BY <1>0, <3>1 DEF Written, WrittenOf
    <3> QED BY <1>8, <2>2, <3>2
  <2>3. CASE /\ n \in Written(p) /\ IsWritten(update[p])
             /\ update[p].secrets /\ ToSet(update[p].names) \cap ToSet(MailList) # {}
    <3>1. transport'[p] = <<>> /\ DOMAIN <<>> = {}
      BY <1>0, <2>3 DEF Drop, InvalidateTransport, OwnTypes
    <3> QED BY <3>1 DEF NewIn
  <2>4. CASE n \in Written(p) /\ ToSet(update[p].names) \cap ToSet(MailList) = {}
    <3>1. n \notin ToSet(MailList)
      BY <1>4, <2>4
    <3>2. transport[p] \in Seq(Values \cup {Default}) /\ Len(transport[p]) <= Len(MailList)
      BY <1>0 DEF OwnTypes
    <3>3. Len(MailList) \in Nat /\ MailList \in Seq(Names)
      BY ListsHoldNames
    <3>4. DOMAIN transport[p] \subseteq DOMAIN MailList
      BY <3>2, <3>3
    <3>5. transport'[p] = transport[p]
      BY <2>4 DEF Drop, InvalidateTransport
    <3> QED BY <3>1, <3>4, <3>5 DEF NewIn, ToSet
  <2> QED BY <1>0, <2>1, <2>2, <2>3, <2>4 DEF GoesThrough
<1>9. ASSUME NEW n \in Names, Own(p, n)' PROVE OwnIsNew(p, n)'
  <2>1. n \notin raced'[p] /\ Own(p, n)
    BY <1>1, <1>2, <1>9 DEF Own
  <2>2. OwnIsNew(p, n)
    BY <2>1 DEF OwnInv
  <2>3. FoundIsNew(p, n)'
    BY <1>1, <2>2 DEF OwnIsNew, FoundIsNew, NextName
  <2>4. CacheIsNew(p, n)'
    <3>1. CASE n \in Dirty(p)
      BY <1>3, <3>1 DEF CacheIsNew
    <3>2. CASE n \notin Dirty(p)
      BY <1>1, <1>3, <2>2, <3>2 DEF OwnIsNew, CacheIsNew
    <3> QED BY <3>1, <3>2
  <2>5. MailIsNew(p, n)'
    <3>1. CASE n \in Dirty(p)
      BY <1>5, <1>6, <2>1, <3>1
    <3>2. CASE n \notin Dirty(p)
      BY <1>1, <2>2, <3>2 DEF OwnIsNew, MailIsNew, NewIn
    <3> QED BY <3>1, <3>2
  <2> QED BY <1>8, <2>2, <2>3, <2>4, <2>5 DEF OwnIsNew
<1>10. ASSUME NEW q \in Processes, NEW n \in Names, Own(q, n)', q # p PROVE OwnIsNew(q, n)'
  <2>1. Own(q, n)
    BY <1>1, <1>10 DEF Own
  <2>2. Dirty(q)' = Dirty(q) /\ Written(q)' = Written(q)
    BY <1>1, <1>10 DEF Dirty, Written
  <2> QED BY <1>1, <1>10, <2>1, <2>2, OwnStays
<1> QED BY <1>9, <1>10 DEF OwnInv

\* For any number of processes, names, readers and updates, whatever reads are under way
\* and however many upserts reject: a process that is done with an update serves, from its
\* cache and from its mail transporter, what it wrote itself, unless another process has
\* written the name since or a read or a failure it met has spoilt it
\* (admin-api.controller.ts:294).
THEOREM OwnWrites == Spec => []OwnWritesShow
<1>1. Init => IInv /\ Shape /\ OwnInv
  <2> SUFFICES ASSUME Init PROVE Shape /\ OwnInv
    BY Initially
  <2>1. /\ \A r \in Readers : reader[r].phase = "idle"
        /\ \A p \in Processes : update[p].phase = "idle"
    BY DEF Init, NoReader, NoUpdate
  <2>2. Len(<<>>) = 0 /\ Len(MailList) \in Nat /\ DOMAIN <<>> = {}
    BY ListsHoldNames
  <2>3. OwnTypes
    BY <2>2 DEF Init, OwnTypes
  <2>4. Shape
    BY <2>1, <2>3 DEF Shape, MailReaders, UpdatesGoThrough
  <2>5. ASSUME NEW p \in Processes, NEW n \in Names PROVE OwnIsNew(p, n)
    <3>1. cache[p][n] = NoEntry /\ transport[p] = <<>>
      BY <2>5 DEF Init
    <3> QED BY <2>1, <2>2, <3>1 DEF OwnIsNew, FoundIsNew, CacheIsNew, MailIsNew, NewIn
  <2> QED BY <2>4, <2>5 DEF OwnInv
<1>2. (IInv /\ Shape /\ OwnInv) /\ [Next]_vars => (IInv /\ Shape /\ OwnInv)'
  <2> SUFFICES ASSUME IInv, Shape, OwnInv, [Next]_vars PROVE (IInv /\ Shape /\ OwnInv)'
    OBVIOUS
  <2>1. IInv'
    BY Invariance
  <2>2. ASSUME NEW r \in Readers, ReadStep(r) PROVE Shape' /\ OwnInv'
    BY <2>2, ReadShape, ReadOwn
  <2>3. ASSUME NEW p \in Processes, UpdateStep(p) PROVE Shape' /\ OwnInv'
    <3>1. Shape'
      BY <2>3, WriterShape
    <3>2. CASE UpdateSecrets(p) \/ UpdateSettings(p)
      BY <3>1, <3>2, BeginOwn DEF UpdateSecrets, UpdateSettings
    <3> QED BY <2>3, <3>1, <3>2, WriteOwn, RejectsOwn, DropOwn DEF UpdateStep
  <2>4. CASE Tick
    BY <2>1, <2>4, TickShape, TickOwn
  <2>5. CASE UNCHANGED vars
    <3>1. Shape'
      BY <2>5 DEF vars, Shape, OwnTypes, MailReaders, UpdatesGoThrough, GoesThrough
    <3>2. OwnInv'
      BY <2>5 DEF vars, OwnInv, Own, OwnIsNew, FoundIsNew, CacheIsNew, MailIsNew, NewIn,
                  NextName, Dirty, DirtyOf, Written, WrittenOf
    <3> QED BY <2>1, <3>1, <3>2
  <2> QED BY <2>1, <2>2, <2>3, <2>4, <2>5 DEF Next
<1>3. IInv /\ Shape /\ OwnInv => OwnWritesShow
  <2> SUFFICES ASSUME IInv, Shape, OwnInv, NEW p \in Processes, NEW n \in Names,
                      Own(p, n), ~Pending(p, n)
               PROVE  CacheIsNew(p, n) /\ NewIn(transport[p], n)
    BY DEF OwnWritesShow, Own, CacheIsNew, NewIn
  <2>1. n \notin Written(p)
    BY DEF Pending, Written, WrittenOf, Shape, UpdatesGoThrough, GoesThrough, ToSet
  <2>2. n \notin Dirty(p)
    BY <2>1, DirtyIsWritten DEF IInv
  <2> QED BY <2>1, <2>2 DEF OwnInv, OwnIsNew
<1> QED BY <1>1, <1>2, <1>3, PTL DEF Spec
=============================================================================
