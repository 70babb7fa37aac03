------------------------- MODULE CredentialsProofs -------------------------
(***************************************************************************)
(* For every number of processes, clients, codes, links and requests: a    *)
(* code or a link buys one key, a connected client stays connected, and    *)
(* a full store refuses a code only when all it holds are alive.           *)
(***************************************************************************)
EXTENDS Credentials, FiniteSetTheorems, TLAPS

\* TypeOK without the cap.
Types ==
    /\ redis \in BOOLEAN
    /\ code \in [Codes -> [client : Holders, live : BOOLEAN]]
    /\ store \in [Places -> SUBSET Codes]
    /\ link \in [Links -> {"none", "sent", "consumed", "expired"}]
    /\ keys \in Seq(Key)
    /\ request \in [Requests -> Request \cup {NoRequest}]
    /\ excused \subseteq Clients
    /\ count \in [faults : 0 .. MaxFaults, refused : 0 .. MaxRefused]

WithinCap == \A p \in Processes : Cardinality(store[p]) <= Cap

Busy(r) == request[r].phase # "idle"

\* No key was bought with x, and no request carries it.
Unused(x) ==
    /\ \A i \in DOMAIN keys : keys[i].proof # x
    /\ \A r \in Requests : Busy(r) => request[r].proof # x

HolderOf(x) == IF x \in Codes THEN code[x].client ELSE WebSession

\* What can still be presented was not used: a code that is not issued or is in a store,
\* which is one store, and a link that is not consumed.
UnissuedIsUnused ==
    \A k \in Codes : code[k] = Unissued => Unused(k) /\ \A x \in Places : k \notin store[x]

StoredIsUnused ==
    \A k \in Codes, x \in Places :
        k \in store[x] => Unused(k) /\ \A y \in Places : k \in store[y] => x = y

PresentIsUnused ==
    /\ UnissuedIsUnused
    /\ StoredIsUnused
    /\ \A l \in Links : link[l] # "consumed" => Unused(l)
    /\ \A k \in Codes : code[k].live => code[k].client \in Clients

\* Keys and requests are of whom the proof was issued to.
OfItsHolder ==
    /\ \A i \in DOMAIN keys : keys[i].holder = HolderOf(keys[i].proof)
    /\ \A r \in Requests : Busy(r) => request[r].holder = HolderOf(request[r].proof)

UsedOnce ==
    /\ \A i, j \in DOMAIN keys : keys[i].proof = keys[j].proof => i = j
    /\ \A q, r \in Requests : Busy(q) /\ Busy(r) /\ request[q].proof = request[r].proof => q = r
    /\ \A i \in DOMAIN keys, r \in Requests : Busy(r) => keys[i].proof # request[r].proof

OneUse == PresentIsUnused /\ OfItsHolder /\ UsedOnce

IInv == Types /\ WithinCap /\ OneUse /\ ConnectedStaysConnected

-----------------------------------------------------------------------------
LEMMA Constants ==
    /\ Cap \in Nat /\ Cap > 0 /\ MaxFaults \in Nat /\ MaxRefused \in Nat /\ MaxKeys \in Nat
    /\ WebSession \notin Clients /\ NoProof \notin Proofs
    /\ Codes \cap Links = {} /\ IsFiniteSet(Codes)
    /\ Redis \notin Processes
BY CredentialsAssumption DEF Proofs, Redis

LEMMA Initially == Init => IInv
<1> SUFFICES ASSUME Init PROVE IInv
  OBVIOUS
<1>1. \A r \in Requests : request[r] = NoRequest /\ ~Busy(r)
  BY DEF Init, NoRequest, Busy
<1>2. DOMAIN keys = {}
  BY DEF Init
<1>3. Types
  BY Constants, <1>1 DEF Init, Types, Unissued, Holders
<1>4. WithinCap
  BY Constants, FS_EmptySet DEF Init, WithinCap, Places
<1>5. OneUse
  BY <1>1, <1>2 DEF Init, OneUse, PresentIsUnused, UnissuedIsUnused, StoredIsUnused, OfItsHolder, UsedOnce, Unused, Unissued
<1>6. ConnectedStaysConnected
  BY <1>2 DEF ConnectedStaysConnected
<1> QED BY <1>3, <1>4, <1>5, <1>6 DEF IInv

\* Revoking the keys of a client changes nothing but whether its keys are active.
LEMMA RevokedKeys ==
    ASSUME Types, NEW c, RevokeKeysOf(c)
    PROVE  /\ keys' \in Seq(Key)
           /\ DOMAIN keys' = DOMAIN keys
           /\ \A i \in DOMAIN keys : /\ keys'[i].proof = keys[i].proof
                                     /\ keys'[i].holder = keys[i].holder
                                     /\ keys[i].holder # c => keys'[i].active = keys[i].active
<1>1. keys \in Seq(Key) /\ DOMAIN keys = 1 .. Len(keys) /\ Len(keys) \in Nat
  BY DEF Types
<1>2. \A i \in DOMAIN keys : keys[i] \in Key
  BY <1>1
<1> DEFINE new(i) == IF IsActive(keys[i], c) THEN [keys[i] EXCEPT !.active = FALSE] ELSE keys[i]
<1>3. \A i \in DOMAIN keys : /\ new(i) \in Key
                             /\ new(i).proof = keys[i].proof
                             /\ new(i).holder = keys[i].holder
                             /\ keys[i].holder # c => new(i).active = keys[i].active
  BY <1>2 DEF Key, IsActive
<1>4. keys' = [i \in DOMAIN keys |-> new(i)]
  BY DEF RevokeKeysOf
<1> HIDE DEF new
<1>5. keys' = [i \in 1 .. Len(keys) |-> new(i)]
  BY <1>1, <1>4
<1>6. keys' \in Seq(Key)
  BY <1>1, <1>3, <1>5
<1> QED BY <1>3, <1>4, <1>6

\* What InsertKey appends.
LEMMA InsertedKey ==
    ASSUME Types, NEW key \in Key, keys' = Append(keys, key)
    PROVE  /\ keys' \in Seq(Key)
           /\ DOMAIN keys' = DOMAIN keys \cup {Len(keys) + 1}
           /\ Len(keys) + 1 \notin DOMAIN keys
           /\ keys'[Len(keys) + 1] = key
           /\ \A i \in DOMAIN keys : keys'[i] = keys[i]
BY DEF Types

\* What RevokeKey does to one key.
LEMMA RevokedKey ==
    ASSUME Types, NEW i \in DOMAIN keys, RevokeKey(i)
    PROVE  /\ keys' \in Seq(Key)
           /\ DOMAIN keys' = DOMAIN keys
           /\ \A j \in DOMAIN keys : /\ keys'[j].proof = keys[j].proof
                                     /\ keys'[j].holder = keys[j].holder
                                     /\ j # i => keys'[j] = keys[j]
<1>1. Len(keys) \in Nat /\ DOMAIN keys = 1 .. Len(keys) /\ keys \in [1 .. Len(keys) -> Key]
  BY DEF Types
<1>2. [keys[i] EXCEPT !.active = FALSE] \in Key
  BY <1>1 DEF Key
<1>3. keys' = [keys EXCEPT ![i] = [keys[i] EXCEPT !.active = FALSE]]
  BY DEF RevokeKey
<1>4. keys' \in [1 .. Len(keys) -> Key]
  BY <1>1, <1>2, <1>3
<1>5. [keys[i] EXCEPT !.active = FALSE].proof = keys[i].proof
        /\ [keys[i] EXCEPT !.active = FALSE].holder = keys[i].holder
  BY <1>1 DEF Key
<1>6. keys' \in Seq(Key)
  BY <1>1, <1>4
<1> QED BY <1>1, <1>3, <1>4, <1>5, <1>6

LEMMA BusyRequest ==
    ASSUME Types, NEW r \in Requests, Busy(r)
    PROVE  request[r] \in Request /\ request[r].proof \in Proofs /\ request[r].holder \in Holders
<1>1. request[r] \in Request
  BY DEF Types, Busy, NoRequest
<1> QED BY <1>1 DEF Request

-----------------------------------------------------------------------------
LEMMA TypesKept == Types /\ [Next]_vars => Types'
<1> SUFFICES ASSUME Types, [Next]_vars PROVE Types'
  OBVIOUS
<1> USE Constants
<1>1. CASE UNCHANGED vars
  BY <1>1 DEF Types, vars
<1>2. ASSUME NEW p \in Processes, NEW c \in Clients, NEW k \in Codes, AuthorizeConfirm(p, c, k)
      PROVE  Types'
  <2>1. Place(p) \in Places /\ store[Place(p)] \subseteq Codes
    BY DEF Place, Places, Types
  <2>2. Swept(store[Place(p)]) \subseteq Codes
    BY <2>1 DEF Swept, Live
  <2>3. store' \in [Places -> SUBSET Codes]
    BY <1>2, <2>1, <2>2 DEF AuthorizeConfirm, Types
  <2>4. code' \in [Codes -> [client : Holders, live : BOOLEAN]]
    <3>1. code' = code \/ code' = [code EXCEPT ![k] = [client |-> c, live |-> TRUE]]
      BY <1>2 DEF AuthorizeConfirm
    <3>2. [client |-> c, live |-> TRUE] \in [client : Holders, live : BOOLEAN]
      BY DEF Holders
    <3> QED BY <3>1, <3>2 DEF Types
  <2>5. count' \in [faults : 0 .. MaxFaults, refused : 0 .. MaxRefused]
    BY <1>2 DEF AuthorizeConfirm, Types
  <2> QED BY <1>2, <2>3, <2>4, <2>5 DEF AuthorizeConfirm, Types
<1>3. ASSUME NEW k \in Codes, CodeExpires(k) PROVE Types'
  <2>1. code' \in [Codes -> [client : Holders, live : BOOLEAN]]
    BY <1>3 DEF CodeExpires, Types
  <2>2. store' \in [Places -> SUBSET Codes]
    BY <1>3 DEF CodeExpires, Types
  <2> QED BY <1>3, <2>1, <2>2 DEF CodeExpires, Types
<1>4. ASSUME NEW p \in Processes, NEW c \in Clients, NEW k \in Codes, NEW r \in Requests,
             Token(r, p, c, k)
      PROVE  Types'
  <2>1. [phase |-> "replace", process |-> p, proof |-> k, holder |-> c] \in Request
    BY DEF Request, Proofs, Holders
  <2>2. request' \in [Requests -> Request \cup {NoRequest}]
    BY <1>4, <2>1 DEF Token, Carries, Types
  <2>3. store' \in [Places -> SUBSET Codes]
    BY <1>4 DEF Token, Types
  <2> QED BY <1>4, <2>2, <2>3 DEF Token, Types
<1>5. ASSUME NEW r \in Requests, ReplaceKey(r) PROVE Types'
  <2>1. keys' \in Seq(Key)
    BY <1>5, RevokedKeys DEF ReplaceKey
  <2>2. request[r] \in Request
    BY <1>5, BusyRequest DEF ReplaceKey, At, Busy
  <2>3. [request[r] EXCEPT !.phase = "insert"] \in Request
    BY <2>2 DEF Request
  <2>4. request' \in [Requests -> Request \cup {NoRequest}]
    BY <1>5, <2>3 DEF ReplaceKey, Goto, Types
  <2> QED BY <1>5, <2>1, <2>4 DEF ReplaceKey, Types
<1>6. ASSUME NEW r \in Requests, InsertKey(r) PROVE Types'
  <2>1. request[r].proof \in Proofs /\ request[r].holder \in Holders
    BY <1>6, BusyRequest DEF InsertKey, At, Busy
  <2>2. [proof |-> request[r].proof, holder |-> request[r].holder, active |-> TRUE] \in Key
    BY <2>1 DEF Key
  <2>3. keys' \in Seq(Key)
    BY <1>6, <2>2, InsertedKey DEF InsertKey, Types
  <2>4. excused' \subseteq Clients
    BY <1>6 DEF InsertKey, Types
  <2> QED BY <1>6, <2>3, <2>4 DEF InsertKey, Ends, Types
<1>7. ASSUME NEW l \in Links, RequestLink(l) \/ LinkExpires(l) PROVE Types'
  BY <1>7 DEF RequestLink, LinkExpires, Types
<1>8. ASSUME NEW l \in Links, NEW r \in Requests, NEW p \in Processes, ConsumeLink(r, p, l)
      PROVE  Types'
  <2>1. [phase |-> "insert", process |-> p, proof |-> l, holder |-> WebSession] \in Request
    BY DEF Request, Proofs, Holders
  <2>2. request' \in [Requests -> Request \cup {NoRequest}]
    BY <1>8, <2>1 DEF ConsumeLink, Carries, Types
  <2> QED BY <1>8, <2>2 DEF ConsumeLink, Types
<1>9. ASSUME NEW i \in DOMAIN keys, RevokeKey(i) PROVE Types'
  <2>3. keys' \in Seq(Key)
    BY <1>9, RevokedKey
  <2>4. excused' \subseteq Clients /\ UNCHANGED <<redis, code, store, link, request>>
    BY <1>9 DEF RevokeKey, Types
  <2>5. count' \in [faults : 0 .. MaxFaults, refused : 0 .. MaxRefused]
    BY <1>9 DEF RevokeKey, Fault, Types
  <2> QED BY <2>3, <2>4, <2>5 DEF Types
<1>10. ASSUME NEW r \in Requests, RequestRejects(r) PROVE Types'
  BY <1>10 DEF RequestRejects, Disconnected, Ends, Fault, Types
<1>11. ASSUME NEW p \in Processes, Crash(p) PROVE Types'
  <2>1. excused' \subseteq Clients
    BY <1>11 DEF Crash, Disconnected, Types
  <2>2. request' \in [Requests -> Request \cup {NoRequest}]
    BY <1>11 DEF Crash, Types
  <2>3. store' \in [Places -> SUBSET Codes]
    BY <1>11 DEF Crash, Types
  <2> QED BY <1>11, <2>1, <2>2, <2>3 DEF Crash, Fault, Types
<1> QED BY <1>1, <1>2, <1>3, <1>4, <1>5, <1>6, <1>7, <1>8, <1>9, <1>10, <1>11
        DEF Next, OAuthStep, LinkStep, OtherStep

-----------------------------------------------------------------------------
(* The cap on the codes in memory.                                         *)

LEMMA SmallerStore ==
    ASSUME NEW S \in SUBSET Codes, NEW T \in SUBSET S
    PROVE  Cardinality(T) <= Cardinality(S) /\ Cardinality(T) \in Nat /\ Cardinality(S) \in Nat
<1>1. IsFiniteSet(S)
  BY Constants, FS_Subset
<1>2. IsFiniteSet(T)
  BY <1>1, FS_Subset
<1> QED BY <1>1, <1>2, FS_Subset, FS_CardinalityType

LEMMA ShrunkStores ==
    ASSUME Types, WithinCap, \A p \in Processes : store'[p] \subseteq store[p]
    PROVE  WithinCap'
<1> SUFFICES ASSUME NEW p \in Processes PROVE Cardinality(store'[p]) <= Cap
  BY DEF WithinCap
<1>1. store[p] \subseteq Codes /\ store'[p] \subseteq store[p]
  BY DEF Types, Places
<1>2. /\ Cardinality(store'[p]) <= Cardinality(store[p])
      /\ Cardinality(store'[p]) \in Nat /\ Cardinality(store[p]) \in Nat
  BY <1>1, SmallerStore
<1>3. Cardinality(store[p]) <= Cap
  BY DEF WithinCap
<1> QED BY <1>2, <1>3, Constants

LEMMA CapKept == Types /\ WithinCap /\ [Next]_vars => WithinCap'
<1> SUFFICES ASSUME Types, WithinCap, [Next]_vars PROVE WithinCap'
  OBVIOUS
<1>1. CASE UNCHANGED store
  BY <1>1 DEF WithinCap
<1>2. ASSUME NEW p \in Processes, NEW c \in Clients, NEW k \in Codes, AuthorizeConfirm(p, c, k)
      PROVE  WithinCap'
  <2> DEFINE x == Place(p)
             kept == IF redis THEN store[x] ELSE Swept(store[x])
  <2>1. kept \subseteq store[x] /\ store[x] \subseteq Codes /\ x \in Places
    BY DEF Types, Place, Places, Swept, Live
  <2>2. \/ store' = [store EXCEPT ![x] = kept]
        \/ store' = [store EXCEPT ![x] = kept \cup {k}] /\ (redis \/ ~IsFull(kept))
    BY <1>2 DEF AuthorizeConfirm
  <2>3. redis => x \notin Processes
    BY Constants DEF Place
  <2> HIDE DEF x, kept
  <2>4. CASE store' = [store EXCEPT ![x] = kept]
    BY <2>1, <2>4, ShrunkStores DEF Types, Places
  <2>5. CASE store' = [store EXCEPT ![x] = kept \cup {k}] /\ redis
    BY <2>1, <2>3, <2>5, ShrunkStores DEF Types, Places
  <2>6. CASE store' = [store EXCEPT ![x] = kept \cup {k}] /\ ~IsFull(kept)
    <3>1. IsFiniteSet(kept) /\ Cardinality(kept) \in Nat
      BY <2>1, Constants, FS_Subset, FS_CardinalityType
    <3>2. Cardinality(kept) < Cap
      BY <2>6, <3>1, Constants DEF IsFull
    <3>3. Cardinality(kept \cup {k}) <= Cap
      <4>1. Cardinality(kept \cup {k}) = Cardinality(kept)
              \/ Cardinality(kept \cup {k}) = Cardinality(kept) + 1
        BY <3>1, FS_AddElement
      <4> QED BY <3>1, <3>2, <4>1, Constants
    <3>4. \A q \in Processes : store'[q] = IF q = x THEN kept \cup {k} ELSE store[q]
      BY <2>1, <2>6 DEF Types, Places
    <3> QED BY <3>3, <3>4 DEF WithinCap
  <2> QED BY <2>2, <2>4, <2>5, <2>6
<1>3. ASSUME NEW k \in Codes, CodeExpires(k) PROVE WithinCap'
  BY <1>3, ShrunkStores DEF CodeExpires, Types, Places
<1>4. ASSUME NEW p \in Processes, NEW c \in Clients, NEW k \in Codes, NEW r \in Requests,
             Token(r, p, c, k)
      PROVE  WithinCap'
  BY <1>4, ShrunkStores DEF Token, Types, Places
<1>5. ASSUME NEW p \in Processes, Crash(p) PROVE WithinCap'
  BY <1>5, ShrunkStores DEF Crash, Types, Places
<1>6. CASE \E r \in Requests : ReplaceKey(r) \/ InsertKey(r) \/ RequestRejects(r)
  BY <1>1, <1>6 DEF ReplaceKey, InsertKey, RequestRejects
<1>7. CASE LinkStep \/ UNCHANGED vars \/ \E i \in DOMAIN keys : RevokeKey(i)
  BY <1>1, <1>7 DEF LinkStep, RequestLink, LinkExpires, ConsumeLink, RevokeKey, vars
<1> QED BY <1>2, <1>3, <1>4, <1>5, <1>6, <1>7 DEF Next, OAuthStep, OtherStep

-----------------------------------------------------------------------------
(* One key per proof.                                                      *)

\* Steps that begin no request and add no key: a proof that was unused stays so.
LEMMA UnusedStays ==
    ASSUME DOMAIN keys' = DOMAIN keys,
           \A i \in DOMAIN keys : keys'[i].proof = keys[i].proof,
           \A r \in Requests : Busy(r)' => Busy(r) /\ request'[r].proof = request[r].proof
    PROVE  \A x : Unused(x) => Unused(x)'
BY DEF Unused

\* The same steps, if they revoke keys and end requests only.
LEMMA UseStays ==
    ASSUME OneUse, UNCHANGED code,
           \A x \in Places : store'[x] \subseteq store[x],
           UNCHANGED link,
           DOMAIN keys' = DOMAIN keys,
           \A i \in DOMAIN keys : /\ keys'[i].proof = keys[i].proof
                                  /\ keys'[i].holder = keys[i].holder,
           \A r \in Requests : Busy(r)' => /\ Busy(r)
                                           /\ request'[r].proof = request[r].proof
                                           /\ request'[r].holder = request[r].holder
    PROVE  OneUse'
<1>1. \A x : Unused(x) => Unused(x)'
  BY UnusedStays
<1>2. PresentIsUnused'
  BY <1>1 DEF OneUse, PresentIsUnused, UnissuedIsUnused, StoredIsUnused
<1>3. OfItsHolder'
  BY DEF OneUse, OfItsHolder, HolderOf
<1>4. UsedOnce'
  BY DEF OneUse, UsedOnce
<1> QED BY <1>2, <1>3, <1>4 DEF OneUse

\* A request begins, with a proof that was unused.
LEMMA UseBegins ==
    ASSUME Types, OneUse, UNCHANGED <<code, keys>>, NEW r \in Requests, NEW x \in Proofs,
           Unused(x), request'[r].proof = x, request'[r].holder = HolderOf(x), Busy(r)',
           \A q \in Requests : q # r => request'[q] = request[q]
    PROVE  /\ OfItsHolder' /\ UsedOnce'
           /\ \A y : y # x /\ Unused(y) => Unused(y)'
BY DEF OneUse, OfItsHolder, UsedOnce, Unused, HolderOf, Busy

LEMMA OneUseKept == Types /\ OneUse /\ [Next]_vars => OneUse'
<1> SUFFICES ASSUME Types, OneUse, [Next]_vars PROVE OneUse'
  OBVIOUS
<1> USE Constants
<1>0. PresentIsUnused /\ OfItsHolder /\ UsedOnce
  BY DEF OneUse
<1>1. CASE UNCHANGED vars
  <2>1. UNCHANGED <<code, store, link, keys, request>>
    BY <1>1 DEF vars
  <2> QED BY <2>1, UseStays DEF Busy
<1>2. ASSUME NEW p \in Processes, NEW c \in Clients, NEW k \in Codes, AuthorizeConfirm(p, c, k)
      PROVE  OneUse'
  <2>1. UNCHANGED <<link, keys, request>> /\ code[k] = Unissued
    BY <1>2 DEF AuthorizeConfirm
  <2>2. \A x : Unused(x) => Unused(x)'
    BY <2>1 DEF Unused, Busy
  <2>3. Place(p) \in Places
    BY DEF Place, Places
  <2>4. Unused(k) /\ \A x \in Places : k \notin store[x]
    BY <1>0, <2>1 DEF PresentIsUnused, UnissuedIsUnused, StoredIsUnused
  <2>5. \/ UNCHANGED code /\ \A x \in Places : store'[x] \subseteq store[x]
        \/ /\ code' = [code EXCEPT ![k] = [client |-> c, live |-> TRUE]]
           /\ \A x \in Places : store'[x] \subseteq IF x = Place(p) THEN store[x] \cup {k} ELSE store[x]
    <3>1. Swept(store[Place(p)]) \subseteq store[Place(p)]
      BY DEF Swept, Live
    <3> DEFINE kept == IF redis THEN store[Place(p)] ELSE Swept(store[Place(p)])
    <3>2. kept \subseteq store[Place(p)]
      BY <3>1
    <3>3. \/ store' = [store EXCEPT ![Place(p)] = kept] /\ UNCHANGED code
          \/ /\ store' = [store EXCEPT ![Place(p)] = kept \cup {k}]
             /\ code' = [code EXCEPT ![k] = [client |-> c, live |-> TRUE]]
      BY <1>2 DEF AuthorizeConfirm
    <3> HIDE DEF kept
    <3> QED BY <2>3, <3>2, <3>3 DEF Types
  <2>6. CASE UNCHANGED code /\ \A x \in Places : store'[x] \subseteq store[x]
    BY <2>1, <2>6, UseStays DEF Busy
  <2>7. CASE /\ code' = [code EXCEPT ![k] = [client |-> c, live |-> TRUE]]
             /\ \A x \in Places : store'[x] \subseteq IF x = Place(p) THEN store[x] \cup {k} ELSE store[x]
    <3>1. \A j \in Codes : j # k => code'[j] = code[j]
      BY <2>7 DEF Types
    <3>2. code'[k] # Unissued /\ code'[k].client = c
      BY <2>7 DEF Types, Unissued
    <3>3. PresentIsUnused'
      <4>1. UnissuedIsUnused'
        <5>1. \A j \in Codes : code'[j] = Unissued
                  => Unused(j)' /\ \A x \in Places : j \notin store'[x]
          BY <1>0, <2>2, <2>7, <3>1, <3>2 DEF PresentIsUnused, UnissuedIsUnused
        <5> QED BY <5>1 DEF UnissuedIsUnused, Unissued
      <4>2. StoredIsUnused'
        BY <1>0, <2>2, <2>4, <2>7 DEF PresentIsUnused, StoredIsUnused
      <4> QED BY <1>0, <2>1, <2>2, <3>1, <3>2, <4>1, <4>2 DEF PresentIsUnused
    <3>4. OfItsHolder'
      BY <1>0, <2>1, <2>4, <3>1 DEF OfItsHolder, HolderOf, Unused, Busy
    <3>5. UsedOnce'
      BY <1>0, <2>1 DEF UsedOnce, Busy
    <3> QED BY <3>3, <3>4, <3>5 DEF OneUse
  <2> QED BY <2>5, <2>6, <2>7
<1>3. ASSUME NEW k \in Codes, CodeExpires(k) PROVE OneUse'
  <2>1. UNCHANGED <<link, keys, request>> /\ \A x \in Places : store'[x] \subseteq store[x]
    BY <1>3 DEF CodeExpires, Types
  <2>2. \A j \in Codes : /\ code'[j].client = code[j].client
                         /\ code'[j].live => code[j].live
                         /\ code'[j] = Unissued => code[j] = Unissued \/ j = k
    BY <1>3 DEF CodeExpires, Types
  <2>3. code'[k] = Unissued => Unused(k) /\ \A x \in Places : k \notin store'[x]
    <3>1. code[k].client \in Clients /\ code'[k].client = code[k].client
      BY <1>0, <1>3, <2>2 DEF CodeExpires, PresentIsUnused, UnissuedIsUnused, StoredIsUnused
    <3> QED BY <3>1 DEF Unissued
  <2>4. \A x : Unused(x) => Unused(x)'
    BY <2>1 DEF Unused, Busy
  <2>5. UnissuedIsUnused'
    <3>1. \A j \in Codes : code'[j] = Unissued /\ j # k
              => Unused(j) /\ \A x \in Places : j \notin store'[x]
      BY <1>0, <2>1, <2>2 DEF PresentIsUnused, UnissuedIsUnused
    <3> QED BY <2>3, <2>4, <3>1 DEF UnissuedIsUnused, Unissued
  <2>6. StoredIsUnused'
    BY <1>0, <2>1, <2>4 DEF PresentIsUnused, StoredIsUnused
  <2>7. PresentIsUnused'
    BY <1>0, <2>1, <2>2, <2>4, <2>5, <2>6 DEF PresentIsUnused
  <2>8. OfItsHolder' /\ UsedOnce'
    BY <1>0, <2>1, <2>2 DEF OfItsHolder, UsedOnce, HolderOf, Busy
  <2> QED BY <2>7, <2>8 DEF OneUse
<1>4. ASSUME NEW p \in Processes, NEW c \in Clients, NEW k \in Codes, NEW r \in Requests,
             Token(r, p, c, k)
      PROVE  OneUse'
  <2>1. /\ UNCHANGED <<code, link, keys>> /\ Place(p) \in Places
        /\ store' = [store EXCEPT ![Place(p)] = @ \ {k}]
    BY <1>4 DEF Token, Place, Places
  <2>2. \A x \in Places : store'[x] = IF x = Place(p) THEN store[x] \ {k} ELSE store[x]
    BY <2>1 DEF Types
  <2>3. CASE UNCHANGED request
    BY <2>1, <2>2, <2>3, UseStays DEF Busy
  <2>4. CASE /\ k \in Live(store[Place(p)]) /\ code[k].client = c
             /\ Carries(r, "replace", p, k, c)
    <3>1. /\ request'[r].proof = k /\ request'[r].holder = c /\ Busy(r)'
          /\ \A q \in Requests : q # r => request'[q] = request[q]
      BY <2>4 DEF Carries, Types, Busy
    <3>2. k \in store[Place(p)] /\ Unused(k) /\ HolderOf(k) = c /\ k \in Proofs
            /\ code[k].client = c /\ code[k].live
      BY <1>0, <2>1, <2>4 DEF PresentIsUnused, UnissuedIsUnused, StoredIsUnused, Live, HolderOf, Proofs
    <3>3. OfItsHolder' /\ UsedOnce' /\ \A y : y # k /\ Unused(y) => Unused(y)'
      BY <2>1, <3>1, <3>2, UseBegins
    <3>4. \A x \in Places : k \notin store'[x]
      BY <1>0, <2>1, <2>2, <3>2 DEF PresentIsUnused, UnissuedIsUnused, StoredIsUnused
    <3>5. code[k] # Unissued
      BY <3>2 DEF Unissued
    <3>6. \A l \in Links : l # k
      OBVIOUS
    <3>7. UnissuedIsUnused'
      BY <1>0, <2>1, <2>2, <3>3, <3>5 DEF PresentIsUnused, UnissuedIsUnused, Unissued
    <3>8. StoredIsUnused'
      BY <1>0, <2>1, <2>2, <3>3, <3>4 DEF PresentIsUnused, StoredIsUnused
    <3>9. PresentIsUnused'
      BY <1>0, <2>1, <3>3, <3>6, <3>7, <3>8 DEF PresentIsUnused
    <3> QED BY <3>3, <3>9 DEF OneUse
  <2> QED BY <1>4, <2>3, <2>4 DEF Token
<1>5. ASSUME NEW r \in Requests, ReplaceKey(r) PROVE OneUse'
  <2>1. /\ UNCHANGED <<code, store, link>>
        /\ RevokeKeysOf(request[r].holder) /\ Goto(r, "insert") /\ At(r, "replace")
    BY <1>5 DEF ReplaceKey
  <2>2. request[r] \in Request
    BY <2>1, BusyRequest DEF At, Busy
  <2>3. \A q \in Requests : Busy(q)' => /\ Busy(q)
                                        /\ request'[q].proof = request[q].proof
                                        /\ request'[q].holder = request[q].holder
    BY <2>1, <2>2 DEF At, Goto, Busy, Types, Request
  <2> QED BY <2>1, <2>3, RevokedKeys, UseStays
<1>6. ASSUME NEW r \in Requests, InsertKey(r) PROVE OneUse'
  <2> DEFINE x == request[r].proof
             key == [proof |-> x, holder |-> request[r].holder, active |-> TRUE]
             n == Len(keys) + 1
  <2>1. /\ UNCHANGED <<code, store, link>>
        /\ Busy(r) /\ ~Busy(r)'
        /\ \A q \in Requests : q # r => request'[q] = request[q]
    BY <1>6 DEF InsertKey, At, Busy, Ends, Types, NoRequest
  <2>2. x \in Proofs /\ request[r].holder = HolderOf(x) /\ key \in Key
    BY <1>0, <2>1, BusyRequest DEF OfItsHolder, Key
  <2>3. CASE UNCHANGED keys
    BY <2>1, <2>3, UseStays DEF Busy
  <2>4. CASE keys' = Append(keys, key)
    <3>0. key.proof = x /\ key.holder = request[r].holder
      OBVIOUS
    <3> HIDE DEF key, n
    <3>1. /\ DOMAIN keys' = DOMAIN keys \cup {n} /\ n \notin DOMAIN keys
          /\ keys'[n] = key
          /\ \A i \in DOMAIN keys : keys'[i] = keys[i]
      BY <2>2, <2>4, InsertedKey DEF n
    <3> HIDE DEF x
    <3>2. \A q \in Requests : Busy(q)' => q # r /\ Busy(q) /\ request'[q] = request[q]
      BY <2>1 DEF Busy
    <3>3. x = request[r].proof /\ ~Unused(x)
      BY <2>1 DEF x, Unused
    <3>4. \A y : Unused(y) => Unused(y)'
      BY <3>0, <3>1, <3>2, <3>3 DEF Unused
    <3>5. PresentIsUnused'
      BY <1>0, <2>1, <3>4 DEF PresentIsUnused, UnissuedIsUnused, StoredIsUnused
    <3>6. OfItsHolder'
      BY <1>0, <2>1, <2>2, <3>0, <3>1, <3>2 DEF OfItsHolder, HolderOf
    <3>7. UsedOnce'
      BY <1>0, <2>1, <3>0, <3>1, <3>2, <3>3 DEF UsedOnce
    <3> QED BY <3>5, <3>6, <3>7 DEF OneUse
  <2> QED BY <1>6, <2>3, <2>4 DEF InsertKey
<1>7. ASSUME NEW l \in Links, RequestLink(l) \/ LinkExpires(l) PROVE OneUse'
  <2>1. /\ UNCHANGED <<code, store, keys, request>> /\ link[l] # "consumed"
        /\ \A j \in Links : j # l => link'[j] = link[j]
    BY <1>7 DEF RequestLink, LinkExpires, Types
  <2>2. \A x : Unused(x) => Unused(x)'
    BY <2>1 DEF Unused, Busy
  <2>3. PresentIsUnused'
    BY <1>0, <2>1, <2>2 DEF PresentIsUnused, UnissuedIsUnused, StoredIsUnused
  <2>4. OfItsHolder' /\ UsedOnce'
    BY <1>0, <2>1 DEF OfItsHolder, UsedOnce, HolderOf, Busy
  <2> QED BY <2>3, <2>4 DEF OneUse
<1>8. ASSUME NEW l \in Links, NEW r \in Requests, NEW p \in Processes, ConsumeLink(r, p, l)
      PROVE  OneUse'
  <2>1. /\ UNCHANGED <<code, store, keys>> /\ link[l] = "sent" /\ link'[l] = "consumed"
        /\ \A j \in Links : j # l => link'[j] = link[j]
        /\ request'[r].proof = l /\ request'[r].holder = WebSession /\ Busy(r)'
        /\ \A q \in Requests : q # r => request'[q] = request[q]
    BY <1>8 DEF ConsumeLink, Carries, Types, Busy
  <2>2. Unused(l) /\ HolderOf(l) = WebSession /\ l \in Proofs
    BY <1>0, <2>1 DEF PresentIsUnused, UnissuedIsUnused, StoredIsUnused, HolderOf, Proofs
  <2>3. OfItsHolder' /\ UsedOnce' /\ \A y : y # l /\ Unused(y) => Unused(y)'
    BY <2>1, <2>2, UseBegins
  <2>4. PresentIsUnused'
    BY <1>0, <2>1, <2>3 DEF PresentIsUnused, UnissuedIsUnused, StoredIsUnused
  <2> QED BY <2>3, <2>4 DEF OneUse
<1>9. ASSUME NEW i \in DOMAIN keys, RevokeKey(i) PROVE OneUse'
  <2>1. UNCHANGED <<code, store, link, request>>
    BY <1>9 DEF RevokeKey
  <2> QED BY <1>9, <2>1, RevokedKey, UseStays DEF Busy
<1>10. ASSUME NEW r \in Requests, RequestRejects(r) PROVE OneUse'
  <2>1. UNCHANGED <<code, store, link, keys>>
    BY <1>10 DEF RequestRejects
  <2>2. \A q \in Requests : Busy(q)' => Busy(q) /\ request'[q] = request[q]
    BY <1>10 DEF RequestRejects, Ends, Types, Busy, NoRequest
  <2> QED BY <2>1, <2>2, UseStays
<1>11. ASSUME NEW p \in Processes, Crash(p) PROVE OneUse'
  <2>1. UNCHANGED <<code, link, keys>> /\ \A x \in Places : store'[x] \subseteq store[x]
    BY <1>11 DEF Crash, Types
  <2>2. \A q \in Requests : Busy(q)' => Busy(q) /\ request'[q] = request[q]
    BY <1>11 DEF Crash, Types, Busy, NoRequest
  <2> QED BY <2>1, <2>2, UseStays
<1> QED BY <1>1, <1>2, <1>3, <1>4, <1>5, <1>6, <1>7, <1>8, <1>9, <1>10, <1>11
        DEF Next, OAuthStep, LinkStep, OtherStep

-----------------------------------------------------------------------------
(* Connected clients.                                                      *)

\* Keys stay as they are, and of the requests that insert none goes.
LEMMA ConnectionStays ==
    ASSUME ConnectedStaysConnected, UNCHANGED <<keys, excused>>,
           \A r \in Requests : At(r, "insert") => request'[r] = request[r]
    PROVE  ConnectedStaysConnected'
BY DEF ConnectedStaysConnected, HasActiveKey, IsActive, At

LEMMA ConnectionKept ==
    Types /\ ConnectedStaysConnected /\ [Next]_vars => ConnectedStaysConnected'
<1> SUFFICES ASSUME Types, ConnectedStaysConnected, [Next]_vars
             PROVE  ConnectedStaysConnected'
  OBVIOUS
<1>1. CASE UNCHANGED <<keys, request, excused>>
  BY <1>1, ConnectionStays
<1>2. ASSUME NEW p \in Processes, NEW c \in Clients, NEW k \in Codes, NEW r \in Requests,
             Token(r, p, c, k)
      PROVE  ConnectedStaysConnected'
  BY <1>2, ConnectionStays DEF Token, At, Carries, Types
<1>3. ASSUME NEW l \in Links, NEW r \in Requests, NEW p \in Processes, ConsumeLink(r, p, l)
      PROVE  ConnectedStaysConnected'
  BY <1>3, ConnectionStays DEF ConsumeLink, At, Carries, Types
<1>4. ASSUME NEW r \in Requests, ReplaceKey(r) PROVE ConnectedStaysConnected'
  <2> DEFINE h == request[r].holder
  <2>1. /\ UNCHANGED excused /\ RevokeKeysOf(h) /\ Goto(r, "insert") /\ At(r, "replace")
    BY <1>4 DEF ReplaceKey
  <2>2. request[r] \in Request
    BY <2>1, BusyRequest DEF At, Busy
  <2>3. /\ request'[r].phase = "insert" /\ request'[r].holder = h
        /\ \A q \in Requests : q # r => request'[q] = request[q]
    BY <2>1, <2>2 DEF Goto, Types, Request
  <2>4. /\ DOMAIN keys' = DOMAIN keys
        /\ \A i \in DOMAIN keys : /\ keys'[i].holder = keys[i].holder
                                  /\ keys[i].holder # h => keys'[i].active = keys[i].active
    BY <2>1, RevokedKeys
  <2> HIDE DEF h
  <2>5. At(r, "insert")' /\ ~At(r, "insert")
    BY <2>1, <2>3 DEF At
  <2> QED BY <2>1, <2>3, <2>4, <2>5 DEF ConnectedStaysConnected, HasActiveKey, IsActive, At
<1>5. ASSUME NEW r \in Requests, InsertKey(r) PROVE ConnectedStaysConnected'
  <2> DEFINE h == request[r].holder
             key == [proof |-> request[r].proof, holder |-> h, active |-> TRUE]
             n == Len(keys) + 1
  <2>1. \A q \in Requests : q # r => request'[q] = request[q]
    BY <1>5 DEF InsertKey, Ends, Types
  <2>2. CASE h \in Clients /\ HasActiveKey(h)
    <3>1. UNCHANGED <<keys, excused>>
      BY <1>5, <2>2 DEF InsertKey
    <3> HIDE DEF h
    <3>2. h = request[r].holder
      BY DEF h
    <3> QED BY <2>1, <2>2, <3>1, <3>2 DEF ConnectedStaysConnected, HasActiveKey, IsActive, At
  <2>3. CASE ~(h \in Clients /\ HasActiveKey(h))
    <3>1. keys' = Append(keys, key) /\ excused' = excused \ {h}
      BY <1>5, <2>3 DEF InsertKey
    <3>2. key \in Key
      BY <1>5, BusyRequest DEF InsertKey, At, Busy, Key
    <3>3. key.holder = h /\ key.active = TRUE /\ h = request[r].holder
      OBVIOUS
    <3> HIDE DEF key, n, h
    <3>4. /\ DOMAIN keys' = DOMAIN keys \cup {n} /\ keys'[n] = key
          /\ \A i \in DOMAIN keys : keys'[i] = keys[i]
      BY <3>1, <3>2, InsertedKey DEF n
    <3>5. \A c \in Clients : HasActiveKey(c) => HasActiveKey(c)'
      BY <3>4 DEF HasActiveKey, IsActive
    <3>6. \E i \in DOMAIN keys' : keys'[i].holder = h /\ keys'[i].active
      BY <3>3, <3>4
    <3>7. ASSUME NEW c \in Clients, c # h, \E i \in DOMAIN keys' : keys'[i].holder = c
          PROVE  \/ HasActiveKey(c)' \/ c \in excused'
                 \/ \E q \in Requests : At(q, "insert")' /\ request'[q].holder = c
      <4>1. \E i \in DOMAIN keys : keys[i].holder = c
        BY <3>3, <3>4, <3>7
      <4>2. CASE HasActiveKey(c)
        BY <3>5, <4>2
      <4>3. CASE c \in excused
        BY <3>1, <3>7, <4>3
      <4>4. CASE \E q \in Requests : At(q, "insert") /\ request[q].holder = c
        BY <2>1, <3>3, <3>7, <4>4 DEF At
      <4> QED BY <4>1, <4>2, <4>3, <4>4 DEF ConnectedStaysConnected
    <3> QED BY <3>6, <3>7 DEF ConnectedStaysConnected, HasActiveKey, IsActive, At
  <2> QED BY <2>2, <2>3
<1>6. ASSUME NEW i \in DOMAIN keys, RevokeKey(i) PROVE ConnectedStaysConnected'
  <2>1. UNCHANGED request /\ excused' = excused \cup ({keys[i].holder} \cap Clients)
    BY <1>6 DEF RevokeKey
  <2>2. /\ DOMAIN keys' = DOMAIN keys
        /\ \A j \in DOMAIN keys : keys'[j].holder = keys[j].holder /\ (j # i => keys'[j] = keys[j])
    BY <1>6, RevokedKey
  <2> QED BY <2>1, <2>2 DEF ConnectedStaysConnected, HasActiveKey, IsActive, At
<1>7. ASSUME NEW r \in Requests, RequestRejects(r) PROVE ConnectedStaysConnected'
  <2>1. /\ UNCHANGED keys /\ excused' = excused \cup Disconnected({r})
        /\ \A q \in Requests : q # r => request'[q] = request[q]
    BY <1>7 DEF RequestRejects, Ends, Types
  <2>2. At(r, "insert") /\ request[r].holder \in Clients => request[r].holder \in Disconnected({r})
    BY DEF Disconnected
  <2> QED BY <2>1, <2>2 DEF ConnectedStaysConnected, HasActiveKey, IsActive, At
<1>8. ASSUME NEW p \in Processes, Crash(p) PROVE ConnectedStaysConnected'
  <2> DEFINE R == {r \in Requests : ~At(r, "idle") /\ request[r].process = p}
  <2>1. /\ UNCHANGED keys /\ excused' = excused \cup Disconnected(R)
        /\ \A q \in Requests : q \notin R => request'[q] = request[q]
    BY <1>8 DEF Crash
  <2>2. \A r \in R : At(r, "insert") /\ request[r].holder \in Clients
                        => request[r].holder \in Disconnected(R)
    BY DEF Disconnected
  <2> HIDE DEF R
  <2> QED BY <2>1, <2>2 DEF ConnectedStaysConnected, HasActiveKey, IsActive, At
<1>9. CASE UNCHANGED vars \/ \E p \in Processes, c \in Clients, k \in Codes : AuthorizeConfirm(p, c, k)
  BY <1>1, <1>9 DEF AuthorizeConfirm, vars
<1>10. CASE \/ \E k \in Codes : CodeExpires(k)
            \/ \E l \in Links : RequestLink(l) \/ LinkExpires(l)
  BY <1>1, <1>10 DEF CodeExpires, RequestLink, LinkExpires
<1> QED BY <1>2, <1>3, <1>4, <1>5, <1>6, <1>7, <1>8, <1>9, <1>10
        DEF Next, OAuthStep, LinkStep, OtherStep

-----------------------------------------------------------------------------
\* Keys, codes and links: types, the cap, single use and connections are preserved by
\* every step of OAuthController, AuthController and ApiKeyService.
THEOREM InductiveInvariant == Spec => []IInv
<1>1. Init => IInv
  BY Initially
<1>2. IInv /\ [Next]_vars => IInv'
  BY TypesKept, CapKept, OneUseKept, ConnectionKept DEF IInv
<1> QED BY <1>1, <1>2, PTL DEF Spec

\* Types, and OAUTH_CODE_STORE_IN_MEMORY_CAP for the memory of each process.
THEOREM TypeCorrect == Spec => []TypeOK
<1>1. IInv => TypeOK
  BY DEF IInv, Types, WithinCap, TypeOK
<1> QED BY <1>1, InductiveInvariant, PTL

\* OAuthCodeStore.consume and MagicLinkService.consume: a code or a link buys one key,
\* and that for the client it was issued to.
THEOREM OneKeyPerProof == Spec => []ProofBuysOneKey
<1>1. OneUse => ProofBuysOneKey
  <2> SUFFICES ASSUME OneUse, NEW x \in Proofs
               PROVE  /\ \A i, j \in Bought(x) : i = j
                      /\ \A q, r \in InFlight(x) : q = r
                      /\ Bought(x) = {} \/ InFlight(x) = {}
                      /\ \A i \in Bought(x) : keys[i].holder = HolderOf(x)
    BY DEF ProofBuysOneKey, HolderOf
  <2> QED BY DEF OneUse, OfItsHolder, UsedOnce, Bought, InFlight, At, Busy
<1>2. IInv => OneUse
  BY DEF IInv
<1> QED BY <1>1, <1>2, InductiveInvariant, PTL

\* issueOAuthKey: interleaved reconnections never leave a client without a key.
THEOREM Connected == Spec => []ConnectedStaysConnected
<1>1. IInv => ConnectedStaysConnected
  BY DEF IInv
<1> QED BY <1>1, InductiveInvariant, PTL

-----------------------------------------------------------------------------
\* Only a put() that found the memory of its process full adds to the refused codes.
LEMMA RefusedWhenFull ==
    ASSUME Types, Next, count'.refused # count.refused
    PROVE  \E p \in Processes : Cardinality(Live(store[p])) >= Cap
<1>0. count \in [faults : 0 .. MaxFaults, refused : 0 .. MaxRefused]
  BY DEF Types
<1>1. Fault => count'.refused = count.refused
  BY <1>0 DEF Fault
<1>2. ~OtherStep
  BY <1>1 DEF OtherStep, RevokeKey, RequestRejects, Crash
<1>3. ~LinkStep
  BY DEF LinkStep, RequestLink, LinkExpires, ConsumeLink
<1>4. PICK p \in Processes, c \in Clients, k \in Codes : AuthorizeConfirm(p, c, k)
  BY <1>2, <1>3 DEF Next, OAuthStep, Token, CodeExpires, ReplaceKey, InsertKey
<1>5. PICK kept : kept = IF redis THEN store[Place(p)] ELSE Swept(store[Place(p)])
  OBVIOUS
<1>6. ~redis /\ IsFull(kept)
  BY <1>4, <1>5 DEF AuthorizeConfirm
<1>7. kept = Live(store[p])
  BY <1>5, <1>6 DEF Place, Swept
<1> QED BY <1>6, <1>7 DEF IsFull

\* For any number of processes, clients and codes: a user is turned away only while as
\* many codes as the cap allows can still be exchanged, in the memory of one process;
\* codes that expired or were given up lock nobody out
\* (oauth-code-store.service.ts, put and sweepInMemory).
THEOREM OnlyLiveCodesRefuse == Spec => FullOnlyOfLiveCodes
<1>1. Types /\ [Next]_vars
        => [count'.refused # count.refused
              => \E p \in Processes : Cardinality(Live(store[p])) >= Cap]_vars
  BY RefusedWhenFull
<1>2. IInv => Types
  BY DEF IInv
<1> QED BY <1>1, <1>2, InductiveInvariant, PTL DEF Spec, FullOnlyOfLiveCodes
=============================================================================
