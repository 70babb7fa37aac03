------------------------ MODULE ExtractionJobsProofs ------------------------
(***************************************************************************)
(* Safety of extraction jobs (ExtractionWorker, ExtractionJobsRepository,  *)
(* paginate()) for any surface, window, page size, cap of the cursor's     *)
(* list, number of jobs, processes, faults and changes of the surface.     *)
(*                                                                         *)
(* Nothing can be said of a file from the file and the row alone: while a  *)
(* process works, part of the job is in its memory.  IInv follows it from  *)
(* await to await; its heart is that the cursor's keys are the last of the *)
(* file once the page in memory is written, so that a page free of them    *)
(* keeps repeats apart.  What an unchanging surface leaves in the file     *)
(* needs more: where the call that paginate() is in has come to (InPlace). *)
(*                                                                         *)
(* paginate()'s loop over a page is a recursive function; what it keeps is *)
(* shown by a least counterexample (LeastNumber).                          *)
(***************************************************************************)
EXTENDS ExtractionJobs, SequenceTheorems, WellFoundedInduction, TLAPS

\* The assumptions on the constants, one by one.
LEMMA Bounds ==
    /\ Window \in Nat \ {0} /\ SeenCap \in Nat \ {0}
    /\ MaxRows \in Nat \ {0} /\ BatchSize \in Nat \ {0}
    /\ MaxIterations \in Nat \ {0} /\ MaxStall \in Nat \ {0}
    /\ MaxChanges \in Nat /\ MaxFaults \in Nat /\ MaxStops \in Nat /\ MaxJobs \in Nat
    /\ NoKey \notin Keys /\ FirstTimeline \in Seq(Keys)
BY ReadAssumption, ExtractionAssumption

-----------------------------------------------------------------------------
(* The loop of paginate().                                                 *)

\* A set of natural numbers has a least element.
LEMMA LeastNumber ==
    ASSUME NEW S \in SUBSET Nat, S # {}
    PROVE  \E n \in S : \A m \in S : n <= m
<1>1. PICK n \in S : \A m \in S : ~(<<m, n>> \in OpToRel(<, Nat))
  BY WFMin, NatLessThanWellFounded
<1>2. \A m \in S : ~(m < n)
  BY <1>1 DEF OpToRel
<1> QED BY <1>2

\* What a pass over the first n candidates leaves after each of them.
Passes(r, items, n, f) ==
    f = [i \in 0 .. n |->
            IF i = 0 THEN call[r].collected
            ELSE IF Skips(r, f[i - 1], items[i]) THEN f[i - 1]
            ELSE Append(f[i - 1], items[i])]

Steps(r, items, n, f) ==
    /\ f[0] = call[r].collected
    /\ \A i \in 1 .. n :
          f[i] = IF Skips(r, f[i - 1], items[i]) THEN f[i - 1] ELSE Append(f[i - 1], items[i])

LEMMA PassesIsPointwise ==
    ASSUME NEW r, NEW items, NEW n \in Nat, NEW f
    PROVE  Passes(r, items, n, f) <=>
              f = [i \in 0 .. n |-> f[i]] /\ Steps(r, items, n, f)
<1>1. 0 \in 0 .. n /\ \A i \in 1 .. n : i \in 0 .. n /\ i # 0
  OBVIOUS
<1>2. \A i \in 0 .. n : i = 0 \/ i \in 1 .. n
  OBVIOUS
<1> DEFINE Value(i) == IF i = 0 THEN call[r].collected
                       ELSE IF Skips(r, f[i - 1], items[i]) THEN f[i - 1]
                       ELSE Append(f[i - 1], items[i])
<1>3. Passes(r, items, n, f) <=> f = [i \in 0 .. n |-> Value(i)]
  BY DEF Passes
<1>4. f = [i \in 0 .. n |-> Value(i)]
        <=> f = [i \in 0 .. n |-> f[i]] /\ \A i \in 0 .. n : f[i] = Value(i)
  <2> HIDE DEF Value
  <2>1. ASSUME f = [i \in 0 .. n |-> Value(i)]
        PROVE  f = [i \in 0 .. n |-> f[i]] /\ \A i \in 0 .. n : f[i] = Value(i)
    BY <2>1
  <2>2. ASSUME f = [i \in 0 .. n |-> f[i]], \A i \in 0 .. n : f[i] = Value(i)
        PROVE  f = [i \in 0 .. n |-> Value(i)]
    BY <2>2
  <2> QED BY <2>1, <2>2
<1>5. Value(0) = call[r].collected
  OBVIOUS
<1>6. \A i \in 1 .. n :
         Value(i) = IF Skips(r, f[i - 1], items[i]) THEN f[i - 1] ELSE Append(f[i - 1], items[i])
  BY <1>1
<1>7. (\A i \in 0 .. n : f[i] = Value(i)) <=> f[0] = Value(0) /\ \A i \in 1 .. n : f[i] = Value(i)
  <2> HIDE DEF Value
  <2> QED BY <1>1, <1>2
<1>8. Steps(r, items, n, f) <=> f[0] = Value(0) /\ \A i \in 1 .. n : f[i] = Value(i)
  <2> HIDE DEF Value
  <2> QED BY <1>5, <1>6 DEF Steps
<1> HIDE DEF Value
<1> QED BY <1>3, <1>4, <1>7, <1>8

\* The recursion has a solution: there is no shortest pass without one.
LEMMA PassExists ==
    ASSUME NEW r, NEW items, NEW n \in Nat
    PROVE  \E f : Passes(r, items, n, f)
<1> DEFINE Bad == {m \in Nat : ~ \E f : Passes(r, items, m, f)}
<1> SUFFICES ASSUME Bad # {} PROVE FALSE
  OBVIOUS
<1>1. PICK m \in Bad : \A k \in Bad : m <= k
  <2> HIDE DEF Bad
  <2>1. Bad \in SUBSET Nat
    BY DEF Bad
  <2> QED BY <2>1, LeastNumber
<1>2. CASE m = 0
  <2>1. PICK f : f = [i \in 0 .. 0 |-> call[r].collected]
    OBVIOUS
  <2>2. f = [i \in 0 .. 0 |-> f[i]] /\ f[0] = call[r].collected
    BY <2>1
  <2>3. \A i \in 1 .. 0 : f[i] = IF Skips(r, f[i - 1], items[i]) THEN f[i - 1]
                                 ELSE Append(f[i - 1], items[i])
    OBVIOUS
  <2>4. Passes(r, items, 0, f)
    BY <2>2, <2>3, PassesIsPointwise DEF Steps
  <2> QED BY <1>2, <2>4
<1>3. CASE m # 0
  <2>1. m - 1 \in Nat /\ m - 1 \notin Bad /\ m \in Nat
    BY <1>1, <1>3
  <2>2. PICK f : Passes(r, items, m - 1, f)
    BY <2>1
  <2>3. PICK x : x = IF Skips(r, f[m - 1], items[m]) THEN f[m - 1] ELSE Append(f[m - 1], items[m])
    OBVIOUS
  <2>4. PICK g : g = [i \in 0 .. m |-> IF i = m THEN x ELSE f[i]]
    OBVIOUS
  <2>5. /\ g = [i \in 0 .. m |-> g[i]] /\ g[m] = x
        /\ \A i \in 0 .. m - 1 : g[i] = f[i]
    BY <2>1, <2>4
  <2>6. /\ f[0] = call[r].collected
        /\ \A i \in 1 .. m - 1 :
              f[i] = IF Skips(r, f[i - 1], items[i]) THEN f[i - 1] ELSE Append(f[i - 1], items[i])
    BY <2>1, <2>2, PassesIsPointwise DEF Steps
  <2>7. g[0] = call[r].collected
    BY <2>1, <2>5, <2>6
  <2>8. ASSUME NEW i \in 1 .. m
        PROVE  g[i] = IF Skips(r, g[i - 1], items[i]) THEN g[i - 1] ELSE Append(g[i - 1], items[i])
    <3>1. i - 1 \in 0 .. m - 1
      BY <2>1
    <3>2. g[i - 1] = f[i - 1]
      BY <2>5, <3>1
    <3>3. CASE i = m
      BY <2>3, <2>5, <3>2, <3>3
    <3>4. CASE i # m
      <4>1. i \in 1 .. m - 1 /\ i \in 0 .. m - 1
        BY <2>1, <3>4
      <4>2. g[i] = f[i]
        BY <2>5, <4>1
      <4> QED BY <2>6, <3>2, <4>1, <4>2
    <3> QED BY <3>3, <3>4
  <2>9. Passes(r, items, m, g)
    BY <2>1, <2>5, <2>7, <2>8, PassesIsPointwise DEF Steps
  <2> QED BY <2>9
<1> QED BY <1>2, <1>3

LEMMA CollectPasses ==
    ASSUME NEW r, NEW items, NEW n \in Nat, n = Len(items)
    PROVE  \E f : Collect(r, items) = f[n] /\ Steps(r, items, n, f)
<1> DEFINE got[i \in 0 .. n] ==
              IF i = 0 THEN call[r].collected
              ELSE IF Skips(r, got[i - 1], items[i]) THEN got[i - 1]
              ELSE Append(got[i - 1], items[i])
<1>1. got = CHOOSE f : Passes(r, items, n, f)
  BY DEF Passes
<1>2. Collect(r, items) = got[n]
  BY DEF Collect
<1> HIDE DEF got
<1>3. Passes(r, items, n, got)
  BY <1>1, PassExists
<1>4. Steps(r, items, n, got)
  BY <1>3, PassesIsPointwise
<1> QED BY <1>2, <1>4

\* What holds of what was collected before, and is kept with each candidate, holds of what
\* the loop collects: good[i] is the set of what may be there after i candidates.
LEMMA CollectKeeps ==
    ASSUME NEW r, NEW items, NEW n \in Nat, n = Len(items), NEW good,
           call[r].collected \in good[0],
           \A i \in 1 .. n : \A got \in good[i - 1] :
              IF Skips(r, got, items[i]) THEN got \in good[i] ELSE Append(got, items[i]) \in good[i]
    PROVE  Collect(r, items) \in good[n]
<1>1. PICK f : Collect(r, items) = f[n] /\ Steps(r, items, n, f)
  BY CollectPasses
<1>2. /\ f[0] = call[r].collected
      /\ \A i \in 1 .. n :
            f[i] = IF Skips(r, f[i - 1], items[i]) THEN f[i - 1] ELSE Append(f[i - 1], items[i])
  BY <1>1 DEF Steps
<1> DEFINE Bad == {i \in 0 .. n : f[i] \notin good[i]}
<1>3. Bad = {}
  <2> SUFFICES ASSUME Bad # {} PROVE FALSE
    OBVIOUS
  <2>1. PICK m \in Bad : \A k \in Bad : m <= k
    <3> HIDE DEF Bad
    <3>1. Bad \in SUBSET Nat
      BY DEF Bad
    <3> QED BY <3>1, LeastNumber
  <2>2. m # 0
    BY <1>2
  <2>3. m \in 1 .. n /\ m - 1 \in 0 .. n /\ ~(m <= m - 1)
    BY <2>2
  <2>4. f[m - 1] \in good[m - 1]
    BY <2>1, <2>3
  <2>5. f[m] \in good[m]
    <3> HIDE DEF Bad
    <3>1. /\ f[m] = IF Skips(r, f[m - 1], items[m]) THEN f[m - 1] ELSE Append(f[m - 1], items[m])
          /\ IF Skips(r, f[m - 1], items[m]) THEN f[m - 1] \in good[m]
             ELSE Append(f[m - 1], items[m]) \in good[m]
      BY <1>2, <2>3, <2>4
    <3> QED BY <3>1, Zenon
  <2> QED BY <2>5
<1>4. n \in 0 .. n
  OBVIOUS
<1> QED BY <1>1, <1>3, <1>4

-----------------------------------------------------------------------------
(* What a scroll finds and takes.                                          *)

\* The page is no longer than asked for, and has no item twice or that the cursor has.
Fresh(got, limit, seen) ==
    /\ Len(got) <= limit
    /\ \A m, n \in 1 .. Len(got) : got[m] = got[n] => m = n
    /\ \A m \in 1 .. Len(got) : ~Contains(seen, got[m])

LEMMA CollectIsSeq ==
    ASSUME NEW r, NEW items \in Seq(Keys), call[r].collected \in Seq(Keys)
    PROVE  Collect(r, items) \in Seq(Keys)
<1>1. PICK n : n = Len(items)
  OBVIOUS
<1>2. n \in Nat /\ \A i \in 1 .. n : items[i] \in Keys
  BY <1>1
<1>3. PICK good : good = [i \in 0 .. n |-> Seq(Keys)]
  OBVIOUS
<1>4. \A i \in 0 .. n : good[i] = Seq(Keys)
  BY <1>3
<1>5. \A i \in 1 .. n : \A got \in good[i - 1] :
         IF Skips(r, got, items[i]) THEN got \in good[i] ELSE Append(got, items[i]) \in good[i]
  <2> SUFFICES ASSUME NEW i \in 1 .. n, NEW got \in good[i - 1]
               PROVE  got \in good[i] /\ Append(got, items[i]) \in good[i]
    OBVIOUS
  <2>1. i \in 0 .. n /\ i - 1 \in 0 .. n
    BY <1>2
  <2>2. got \in Seq(Keys) /\ items[i] \in Keys /\ good[i] = Seq(Keys)
    BY <1>2, <1>4, <2>1
  <2> QED BY <2>2, AppendProperties
<1>6. 0 \in 0 .. n /\ n \in 0 .. n
  BY <1>2
<1>7. Collect(r, items) \in good[n]
  BY <1>1, <1>2, <1>4, <1>5, <1>6, CollectKeeps
<1> QED BY <1>4, <1>6, <1>7

LEMMA AppendKeepsFresh ==
    ASSUME NEW limit \in Nat, NEW seen, NEW got \in Seq(Keys), NEW k \in Keys,
           Fresh(got, limit, seen), Len(got) # limit, ~Contains(got, k), ~Contains(seen, k)
    PROVE  Append(got, k) \in Seq(Keys) /\ Fresh(Append(got, k), limit, seen)
<1> DEFINE s == Append(got, k)
           n == Len(got)
<1>1. /\ s \in Seq(Keys) /\ Len(s) = n + 1 /\ n \in Nat
      /\ \A i \in 1 .. n : s[i] = got[i]
      /\ s[n + 1] = k
  BY AppendProperties
<1>2. \A i \in 1 .. n : got[i] # k
  BY DEF Contains
<1>3. /\ n <= limit
      /\ \A i, m \in 1 .. n : got[i] = got[m] => i = m
      /\ \A i \in 1 .. n : ~Contains(seen, got[i])
  BY DEF Fresh
<1> HIDE DEF s, n
<1>4. \A i \in 1 .. n + 1 : i \in 1 .. n \/ i = n + 1
  BY <1>1
<1>5. Len(s) <= limit
  BY <1>1, <1>3 DEF n
<1>6. \A i, m \in 1 .. n + 1 : s[i] = s[m] => i = m
  <2> SUFFICES ASSUME NEW i \in 1 .. n + 1, NEW m \in 1 .. n + 1, s[i] = s[m] PROVE i = m
    OBVIOUS
  <2>1. CASE i \in 1 .. n /\ m \in 1 .. n
    BY <1>1, <1>3, <2>1
  <2>2. CASE i = n + 1 /\ m \in 1 .. n
    BY <1>1, <1>2, <2>2
  <2>3. CASE i \in 1 .. n /\ m = n + 1
    BY <1>1, <1>2, <2>3
  <2> QED BY <1>4, <2>1, <2>2, <2>3
<1>7. \A i \in 1 .. n + 1 : ~Contains(seen, s[i])
  BY <1>1, <1>3, <1>4
<1> QED BY <1>1, <1>5, <1>6, <1>7 DEF Fresh, s

LEMMA CollectIsFresh ==
    ASSUME NEW r, NEW items \in Seq(Keys), call[r].limit \in Nat, call[r].collected \in Seq(Keys),
           Fresh(call[r].collected, call[r].limit, cursor[r].seen)
    PROVE  /\ Collect(r, items) \in Seq(Keys)
           /\ Fresh(Collect(r, items), call[r].limit, cursor[r].seen)
<1> DEFINE limit == call[r].limit
           seen == cursor[r].seen
           Good == {s \in Seq(Keys) : Fresh(s, limit, seen)}
<1>1. PICK n : n = Len(items)
  OBVIOUS
<1>2. n \in Nat /\ \A i \in 1 .. n : items[i] \in Keys
  BY <1>1
<1>3. PICK good : good = [i \in 0 .. n |-> Good]
  OBVIOUS
<1>4. \A i \in 0 .. n : good[i] = Good
  BY <1>3
<1>5. ASSUME NEW i \in 1 .. n, NEW got \in good[i - 1]
      PROVE  IF Skips(r, got, items[i]) THEN got \in good[i] ELSE Append(got, items[i]) \in good[i]
  <2>1. i \in 0 .. n /\ i - 1 \in 0 .. n
    BY <1>2
  <2>2. got \in Good /\ good[i] = Good
    BY <1>4, <2>1
  <2>3. CASE Skips(r, got, items[i])
    BY <2>2, <2>3
  <2>4. CASE ~Skips(r, got, items[i])
    <3>1. Len(got) # limit /\ ~Contains(got, items[i]) /\ ~Contains(seen, items[i])
      BY <2>4 DEF Skips
    <3>2. got \in Seq(Keys) /\ Fresh(got, limit, seen)
      BY <2>2
    <3>3. items[i] \in Keys /\ limit \in Nat
      BY <1>2
    <3> HIDE DEF limit, seen
    <3>4. Append(got, items[i]) \in Seq(Keys) /\ Fresh(Append(got, items[i]), limit, seen)
      BY <3>1, <3>2, <3>3, AppendKeepsFresh
    <3> QED BY <2>2, <2>4, <3>4
  <2> QED BY <2>3, <2>4
<1>6. 0 \in 0 .. n /\ n \in 0 .. n
  BY <1>2
<1>7. call[r].collected \in good[0]
  BY <1>4, <1>6
<1>8. Collect(r, items) \in good[n]
  <2> HIDE DEF Good
  <2> QED BY <1>1, <1>2, <1>5, <1>7, CollectKeeps
<1> QED BY <1>4, <1>6, <1>8

\* The positions of the timeline that the DOM holds at depth d are after Top, up to Bottom.
End == IF Len(timeline) > Window THEN Len(timeline) - Window ELSE 0
Top(d) == IF d < End THEN d ELSE End
Bottom(d) == IF End = 0 THEN Len(timeline) ELSE Top(d) + Window

LEMMA TopAndBottom ==
    ASSUME timeline \in Seq(Keys), NEW d \in Nat
    PROVE  /\ Top(d) \in Nat /\ Bottom(d) \in Nat
           /\ Top(d) <= Bottom(d) /\ Bottom(d) <= Len(timeline) /\ Bottom(d) <= Top(d) + Window
           /\ Top(d) <= Top(d + 1) /\ Top(d + 1) <= Bottom(d)
<1>1. Len(timeline) \in Nat /\ Window \in Nat \ {0}
  BY Bounds
<1>2. End \in Nat /\ (End = 0 => Len(timeline) <= Window) /\ (End # 0 => End + Window = Len(timeline))
  BY <1>1 DEF End
<1>3. /\ Top(d) \in Nat /\ Top(d) <= End /\ Top(d + 1) \in Nat /\ Top(d + 1) <= End
      /\ Top(d) <= Top(d + 1) /\ Top(d + 1) <= Top(d) + 1
  BY <1>2 DEF Top
<1> QED BY <1>1, <1>2, <1>3 DEF Bottom

LEMMA RenderedIsWindow ==
    ASSUME timeline \in Seq(Keys), NEW d \in Nat
    PROVE  /\ Rendered(d) \in Seq(Keys)
           /\ Len(Rendered(d)) = Bottom(d) - Top(d)
           /\ \A i \in 1 .. Bottom(d) - Top(d) : Rendered(d)[i] = timeline[Top(d) + i]
<1>1. Rendered(d) = SubSeq(timeline, Top(d) + 1, Bottom(d))
  BY DEF Rendered, Top, Bottom, End
<1> DEFINE t == Top(d)
           b == Bottom(d)
<1>2. t \in Nat /\ b \in Nat /\ t <= b /\ b <= Len(timeline) /\ Len(timeline) \in Nat
  <2>1. /\ Top(d) \in Nat /\ Bottom(d) \in Nat
        /\ Top(d) <= Bottom(d) /\ Bottom(d) <= Len(timeline)
    BY TopAndBottom
  <2> QED BY <2>1
<1> HIDE DEF t, b
<1>3. \A i \in t + 1 .. b : timeline[i] \in Keys
  BY <1>2
<1>4. t + 1 \in Int /\ b \in Int /\ b - (t + 1) + 1 = b - t
  BY <1>2
<1>5. /\ SubSeq(timeline, t + 1, b) \in Seq(Keys)
      /\ Len(SubSeq(timeline, t + 1, b)) = IF t + 1 <= b THEN b - (t + 1) + 1 ELSE 0
      /\ \A i \in 1 .. b - (t + 1) + 1 : SubSeq(timeline, t + 1, b)[i] = timeline[t + 1 + i - 1]
  BY <1>3, <1>4, SubSeqProperties
<1>6. Len(SubSeq(timeline, t + 1, b)) = b - t
  BY <1>2, <1>5
<1>7. \A i \in 1 .. b - t : SubSeq(timeline, t + 1, b)[i] = timeline[t + i]
  <2> SUFFICES ASSUME NEW i \in 1 .. b - t
               PROVE  SubSeq(timeline, t + 1, b)[i] = timeline[t + i]
    OBVIOUS
  <2>1. i \in 1 .. b - (t + 1) + 1 /\ t + 1 + i - 1 = t + i
    BY <1>2
  <2> QED BY <1>5, <2>1
<1> QED BY <1>1, <1>5, <1>6, <1>7 DEF t, b

LEMMA AfterIsSuffix ==
    ASSUME NEW items \in Seq(Keys), NEW key, key = NoKey \/ Contains(items, key)
    PROVE  /\ After(items, key) \in Seq(Keys)
           /\ \E i \in 0 .. Len(items) :
                 /\ After(items, key) = SubSeq(items, i + 1, Len(items))
                 /\ key = NoKey => i = 0
                 /\ key # NoKey => i \in 1 .. Len(items) /\ items[i] = key
<1>1. CASE key = NoKey
  <2>1. After(items, key) = items /\ SubSeq(items, 0 + 1, Len(items)) = items
    BY <1>1, SubSeqFull DEF After
  <2> QED BY <1>1, <2>1
<1>2. CASE key # NoKey
  <2> DEFINE I == {i \in 1 .. Len(items) : items[i] = key}
  <2>1. I # {} /\ I \in SUBSET Nat
    BY <1>2 DEF Contains
  <2>2. PICK i \in I : \A m \in I : i <= m
    <3> HIDE DEF I
    <3> QED BY <2>1, LeastNumber
  <2>3. Min(I) \in I
    <3> HIDE DEF I
    <3> QED BY <2>2, Zenon DEF Min
  <2>4. After(items, key) = SubSeq(items, 1 + Min(I), Len(items))
    BY <1>2, <2>1, Zenon DEF After, SelectInSeq
  <2>5. PICK m : m = Min(I)
    OBVIOUS
  <2>6. m \in 1 .. Len(items) /\ items[m] = key
    BY <2>3, <2>5
  <2>7. After(items, key) = SubSeq(items, m + 1, Len(items))
    <3>1. 1 + m = m + 1
      BY <2>6
    <3> HIDE DEF I
    <3> QED BY <2>4, <2>5, <3>1
  <2>8. SubSeq(items, m + 1, Len(items)) \in Seq(Keys)
    <3>1. \A l \in m + 1 .. Len(items) : items[l] \in Keys
      BY <2>6
    <3>2. m + 1 \in Int /\ Len(items) \in Int
      BY <2>6
    <3> QED BY <3>1, <3>2, SubSeqProperties
  <2> QED BY <1>2, <2>6, <2>7, <2>8
<1> QED BY <1>1, <1>2

\* The local variables after an iteration of the loop, for the candidates it went over.
Scrolls(r, new, candidates) ==
    /\ call' = [call EXCEPT ![r] = new]
    /\ new.limit = call[r].limit
    /\ new.collected = Collect(r, candidates)
    /\ \/ /\ new.skip = NoKey
          /\ call[r].skip = NoKey \/ Contains(Rendered(call[r].depth), call[r].skip)
          /\ candidates = After(Rendered(call[r].depth), call[r].skip)
       \/ /\ new.skip # NoKey /\ ~Contains(Rendered(call[r].depth), call[r].skip)
          /\ new.skip = call[r].skip
          /\ candidates = <<>>
    /\ Len(new.collected) = new.limit => new.done /\ new.depth = call[r].depth
    /\ Len(new.collected) # new.limit /\ ~new.done => new.depth = call[r].depth + 1

\* What an iteration of the loop does: it resumes, collects, ends or scrolls on.
LEMMA ScrollDoes ==
    ASSUME ReadTypeOK, NEW r \in Readers, Scroll(r)
    PROVE  \E new \in Call, candidates \in Seq(Keys) : Scrolls(r, new, candidates)
<1> DEFINE c == call[r]
           all == Rendered(c.depth)
           skip == IF c.skip # NoKey /\ Contains(all, c.skip) THEN NoKey ELSE c.skip
           cand == IF skip = NoKey THEN After(all, c.skip) ELSE <<>>
           got == Collect(r, cand)
           full == Len(got) = c.limit
           stall == IF Len(got) = c.last /\ skip = NoKey THEN c.stall + 1 ELSE 0
           stop == full \/ stall >= MaxStall
<1>1. /\ c \in Call /\ timeline \in Seq(Keys) /\ call \in [Readers -> Call]
      /\ MaxStall \in Nat /\ MaxIterations \in Nat
  BY Bounds DEF ReadTypeOK
<1>2. /\ c.limit \in Nat /\ c.skip \in Keys \cup {NoKey} /\ c.depth \in Nat
      /\ c.collected \in Seq(Keys) /\ c.iter \in Nat /\ c.stall \in Nat
      /\ c.last \in Nat \cup {-1} /\ c.done \in BOOLEAN
  BY <1>1 DEF Call
<1>3. all \in Seq(Keys)
  <2> HIDE DEF c
  <2> QED BY <1>1, <1>2, RenderedIsWindow
<1>4. skip = NoKey => c.skip = NoKey \/ Contains(all, c.skip)
  OBVIOUS
<1>5. skip # NoKey => skip = c.skip /\ ~Contains(all, c.skip)
  OBVIOUS
<1>6. cand \in Seq(Keys)
  <2>1. CASE skip = NoKey
    <3> HIDE DEF skip, all, c
    <3>1. After(all, c.skip) \in Seq(Keys)
      BY <1>3, <1>4, <2>1, AfterIsSuffix
    <3> QED BY <2>1, <3>1
  <2>2. CASE skip # NoKey
    BY <2>2
  <2> QED BY <2>1, <2>2
<1>7. PICK new : new = [c EXCEPT !.skip = skip,
                                 !.collected = got,
                                 !.iter = @ + 1,
                                 !.stall = IF full THEN @ ELSE stall,
                                 !.last = IF stop THEN @ ELSE Len(got),
                                 !.depth = IF stop THEN @ ELSE @ + 1,
                                 !.done = stop \/ c.iter + 1 = MaxIterations]
  OBVIOUS
<1>8. call' = [call EXCEPT ![r] = new]
  BY <1>7, Zenon DEF Scroll
<1>9. got \in Seq(Keys)
  <2> HIDE DEF cand, c
  <2> QED BY <1>2, <1>6, CollectIsSeq DEF c
<1>10. stall \in Nat /\ Len(got) \in Nat /\ stop \in BOOLEAN /\ skip \in Keys \cup {NoKey}
  <2> HIDE DEF got
  <2> QED BY <1>1, <1>2, <1>9
<1> DEFINE newStall == IF full THEN c.stall ELSE stall
           newLast == IF stop THEN c.last ELSE Len(got)
           newDepth == IF stop THEN c.depth ELSE c.depth + 1
           newDone == stop \/ c.iter + 1 = MaxIterations
           newIter == c.iter + 1
<1>11. /\ newStall \in Nat /\ newLast \in Nat \cup {-1} /\ newDepth \in Nat
       /\ newDone \in BOOLEAN /\ newIter \in Nat
  <2> HIDE DEF stop, got, stall, full
  <2> QED BY <1>2, <1>10
<1>12. /\ new \in Call
       /\ new.limit = c.limit /\ new.skip = skip /\ new.collected = got
       /\ new.depth = newDepth /\ new.done = newDone
  <2>1. new = [c EXCEPT !.skip = skip, !.collected = got, !.iter = newIter, !.stall = newStall,
                        !.last = newLast, !.depth = newDepth, !.done = newDone]
    BY <1>7
  <2> HIDE DEF skip, got, newIter, newStall, newLast, newDepth, newDone, c
  <2> QED BY <1>1, <1>9, <1>10, <1>11, <2>1 DEF Call
<1> HIDE DEF got, stall, skip, all
<1>13. Len(new.collected) = new.limit => new.done /\ new.depth = c.depth
  BY <1>12
<1>14. Len(new.collected) # new.limit /\ ~new.done => new.depth = c.depth + 1
  BY <1>12
<1>15. \/ /\ new.skip = NoKey
          /\ c.skip = NoKey \/ Contains(all, c.skip)
          /\ cand = After(all, c.skip)
       \/ /\ new.skip # NoKey /\ ~Contains(all, c.skip)
          /\ new.skip = c.skip
          /\ cand = <<>>
  BY <1>4, <1>5, <1>12
<1>16. new.limit = c.limit /\ new.collected = Collect(r, cand)
  BY <1>12 DEF got
<1> HIDE DEF cand
<1>17. Scrolls(r, new, cand)
  BY <1>8, <1>13, <1>14, <1>15, <1>16 DEF Scrolls, all
<1> QED BY <1>6, <1>12, <1>17

-----------------------------------------------------------------------------
(* The inductive invariant.                                                *)
(*                                                                         *)
(* A job is written by the one process that claimed it, and a row that is  *)
(* queued has never been claimed: its file is empty.  From then on total,  *)
(* the row and the file tell the same story, each up to the await that the *)
(* process is in: what is in memory and not yet written is in page, and    *)
(* the cursor's keys are the last ones of the file with that page.         *)

\* The process may still write to the file of its job.
AtWork == {"claim", "fetch", "write", "progress", "success", "fail"}

\* Nothing has been done for the job.
Pristine(j) == job[j].rows = 0 /\ job[j].cursor = Start /\ file[j] = <<>>

\* NoRepeatWithinCap of one file.
Spaced(s) == \A m, n \in 1 .. Len(s) : m < n /\ s[m] = s[n] => n - m > SeenCap

\* What a process knows of its job, at each await.
Fetching(w, f) ==
    /\ proc[w].total = Len(f) /\ job[proc[w].job].rows = Len(f) /\ Len(f) < MaxRows
    /\ call[w].limit \in {0, Limit(w)} /\ (call[w].done => call[w].limit # 0)
    /\ cursor[w].seen = LastSeen(f)
    /\ Fresh(call[w].collected, call[w].limit, cursor[w].seen)

Writing(w, f) ==
    /\ job[proc[w].job].rows = proc[w].total
    /\ Len(f) + Len(proc[w].page) = proc[w].total + proc[w].items
    /\ proc[w].items <= BatchSize
    /\ proc[w].total + proc[w].items <= MaxRows
    /\ Spaced(f \o proc[w].page)
    /\ proc[w].more => cursor[w].seen = LastSeen(f \o proc[w].page)

Written(w, f) == proc[w].total = Len(f) /\ Len(f) <= MaxRows

WorkerOK(w) ==
    LET j == proc[w].job
    IN  /\ At(w, "idle") => j = NoJob
        /\ ~At(w, "idle") => j \in Jobs /\ job[j].status \notin {"absent", "queued"}
        /\ proc[w].phase \in AtWork => job[j].status \in {"running", "cancelled"}
        /\ ~At(w, "fetch") => call[w] = NoCall
        /\ At(w, "claim") => Pristine(j)
        /\ At(w, "fetch") => Fetching(w, file[j])
        /\ At(w, "write") => Writing(w, file[j])
        /\ At(w, "progress") => Written(w, file[j]) /\ cursor[w].seen = LastSeen(file[j])
        /\ At(w, "success") => Written(w, file[j])

JobOK(j) ==
    /\ job[j].status \in {"absent", "queued"} => Pristine(j)
    /\ job[j].status = "succeeded" => job[j].rows = Len(file[j]) /\ job[j].rows <= MaxRows
    /\ job[j].status \in {"running", "cancelled"} =>
          job[j].rows <= Len(file[j]) /\ Len(file[j]) <= job[j].rows + BatchSize
    /\ Spaced(file[j])

IInv ==
    /\ TypeOK
    /\ OneWorkerPerJob
    /\ \A w \in Readers : WorkerOK(w)
    /\ \A j \in Jobs : JobOK(j)

-----------------------------------------------------------------------------
(* While X shows the same, what is written of a job, what is in memory and *)
(* what the call has collected are, one after the other, the beginning of  *)
(* the surface, and the render that comes next starts no later than where  *)
(* they end and no more than a window before.                              *)

Copied(s) == Len(s) <= Len(FirstTimeline) /\ \A i \in 1 .. Len(s) : s[i] = FirstTimeline[i]

\* The DOM holds position n at depth d.
Shows(d, n) == Top(d) < n /\ n <= Bottom(d)

\* The cursor c tells the place after the first n items.
Resumes(c, n) ==
    IF n = 0 THEN c.key = NoKey /\ c.depth = 0
             ELSE c.key = FirstTimeline[n] /\ Shows(c.depth, n)

\* The call c goes on from a file of n items and from the cursor cur.
InPlace(c, cur, n) ==
    /\ c.skip = NoKey /\ ~c.done =>
          Top(c.depth) <= n + Len(c.collected) /\ n <= Top(c.depth) + Window
    /\ c.skip # NoKey => c.skip = cur.key /\ c.depth = cur.depth /\ c.collected = <<>>
    /\ Len(c.collected) = c.limit => c.done /\ Shows(c.depth, n + Len(c.collected))

StableWorker(w) ==
    LET f == file[proc[w].job]
    IN  /\ At(w, "fetch") =>
             /\ Resumes(cursor[w], Len(f))
             /\ call[w].limit > 0 =>
                  Copied(f \o call[w].collected) /\ InPlace(call[w], cursor[w], Len(f))
        /\ At(w, "write") =>
             /\ Copied(f \o proc[w].page)
             /\ proc[w].more => Resumes(cursor[w], Len(f) + Len(proc[w].page))
        /\ At(w, "progress") => Resumes(cursor[w], Len(f))

StableInv ==
    changes = 0 =>
        /\ timeline = FirstTimeline
        /\ \A w \in Readers : StableWorker(w)
        /\ \A j \in Jobs : Copied(file[j])

\* A surface with no item twice, of which the DOM never holds more than the cursor carries.
WindowFitsCap == IsInjective(FirstTimeline) /\ Window <= SeenCap

-----------------------------------------------------------------------------
(* Sequences: the last keys, and a page after a file.                      *)

\* What the cursor carries of a file, by position.
LEMMA LastSeenIsEnd ==
    ASSUME NEW s \in Seq(Keys)
    PROVE  \E d \in 0 .. Len(s) :
              /\ d = IF Len(s) <= SeenCap THEN 0 ELSE Len(s) - SeenCap
              /\ LastSeen(s) \in Seq(Keys)
              /\ Len(LastSeen(s)) = Len(s) - d
              /\ \A i \in 1 .. Len(s) - d : LastSeen(s)[i] = s[d + i]
<1> DEFINE n == Len(s)
           d == IF n <= SeenCap THEN 0 ELSE n - SeenCap
<1>1. n \in Nat /\ SeenCap \in Nat \ {0} /\ \A i \in 1 .. n : s[i] \in Keys
  BY Bounds
<1>2. d \in 0 .. n
  <2> HIDE DEF n
  <2> QED BY <1>1
<1>3. CASE n <= SeenCap
  <2>1. LastSeen(s) = s /\ d = 0
    BY <1>3 DEF LastSeen
  <2> QED BY <1>1, <1>2, <2>1
<1>4. CASE ~(n <= SeenCap)
  <2>1. LastSeen(s) = SubSeq(s, 1 + n - SeenCap, n) /\ d = n - SeenCap
    BY <1>4 DEF LastSeen
  <2>2. PICK m : m = d + 1
    OBVIOUS
  <2>3. /\ m \in Int /\ n \in Int /\ 1 + n - SeenCap = m /\ m <= n /\ n - m + 1 = n - d
        /\ \A i \in m .. n : s[i] \in Keys
    <3> HIDE DEF n
    <3> QED BY <1>1, <1>2, <1>4, <2>1, <2>2
  <2> HIDE DEF n, d
  <2>4. /\ SubSeq(s, m, n) \in Seq(Keys)
        /\ Len(SubSeq(s, m, n)) = n - d
        /\ \A i \in 1 .. n - d : SubSeq(s, m, n)[i] = s[m + i - 1]
    BY <2>3, SubSeqProperties
  <2>5. \A i \in 1 .. n - d : m + i - 1 = d + i
    BY <1>1, <1>2, <2>2
  <2>6. \A i \in 1 .. n - d : LastSeen(s)[i] = s[d + i]
    BY <2>1, <2>3, <2>4, <2>5
  <2> QED BY <1>2, <2>1, <2>3, <2>4, <2>6 DEF n, d
<1> QED BY <1>3, <1>4

\* An item among the last SeenCap is carried, and only such an item.
LEMMA CarriedIsRecent ==
    ASSUME NEW s \in Seq(Keys), NEW m \in 1 .. Len(s), Len(s) - m < SeenCap
    PROVE  Contains(LastSeen(s), s[m])
<1>1. PICK d \in 0 .. Len(s) :
              /\ d = IF Len(s) <= SeenCap THEN 0 ELSE Len(s) - SeenCap
              /\ LastSeen(s) \in Seq(Keys)
              /\ Len(LastSeen(s)) = Len(s) - d
              /\ \A i \in 1 .. Len(s) - d : LastSeen(s)[i] = s[d + i]
  BY LastSeenIsEnd
<1>2. Len(s) \in Nat /\ SeenCap \in Nat /\ m \in Nat
  BY Bounds
<1>3. m - d \in 1 .. Len(s) - d /\ d + (m - d) = m
  BY <1>1, <1>2
<1>4. LastSeen(s)[m - d] = s[m]
  BY <1>1, <1>3
<1> QED BY <1>1, <1>3, <1>4 DEF Contains

LEMMA CarriedIsOfFile ==
    ASSUME NEW s \in Seq(Keys), NEW k, Contains(LastSeen(s), k)
    PROVE  \E m \in 1 .. Len(s) : s[m] = k
<1>1. PICK d \in 0 .. Len(s) :
              /\ LastSeen(s) \in Seq(Keys)
              /\ Len(LastSeen(s)) = Len(s) - d
              /\ \A i \in 1 .. Len(s) - d : LastSeen(s)[i] = s[d + i]
  BY LastSeenIsEnd
<1>2. PICK i \in 1 .. Len(s) - d : LastSeen(s)[i] = k
  BY <1>1 DEF Contains
<1>3. d + i \in 1 .. Len(s) /\ s[d + i] = k
  BY <1>1, <1>2
<1> QED BY <1>3

\* The cursor's keys with a page are the last of the file with that page.
LEMMA LastSeenOfMore ==
    ASSUME NEW s \in Seq(Keys), NEW t \in Seq(Keys)
    PROVE  LastSeen(LastSeen(s) \o t) = LastSeen(s \o t)
<1>1. PICK ls : ls = LastSeen(s)
  OBVIOUS
<1>2. PICK d \in 0 .. Len(s) :
              /\ d = IF Len(s) <= SeenCap THEN 0 ELSE Len(s) - SeenCap
              /\ ls \in Seq(Keys)
              /\ Len(ls) = Len(s) - d
              /\ \A i \in 1 .. Len(s) - d : ls[i] = s[d + i]
  BY <1>1, LastSeenIsEnd
<1>3. PICK a, b : a = ls \o t /\ b = s \o t
  OBVIOUS
<1>4. /\ a \in Seq(Keys) /\ Len(a) = Len(ls) + Len(t)
      /\ \A i \in 1 .. Len(ls) + Len(t) : a[i] = IF i <= Len(ls) THEN ls[i] ELSE t[i - Len(ls)]
  BY <1>2, <1>3, ConcatProperties
<1>5. /\ b \in Seq(Keys) /\ Len(b) = Len(s) + Len(t)
      /\ \A i \in 1 .. Len(s) + Len(t) : b[i] = IF i <= Len(s) THEN s[i] ELSE t[i - Len(s)]
  BY <1>3, ConcatProperties
<1>6. Len(s) \in Nat /\ Len(t) \in Nat /\ Len(ls) \in Nat /\ SeenCap \in Nat \ {0}
  BY <1>2, Bounds
<1>7. ASSUME NEW i \in 1 .. Len(a) PROVE a[i] = b[d + i]
  <2>1. i \in Nat /\ d + i \in 1 .. Len(s) + Len(t) /\ i \in 1 .. Len(ls) + Len(t)
    BY <1>2, <1>4, <1>6
  <2>2. CASE i <= Len(ls)
    <3>1. i \in 1 .. Len(s) - d /\ d + i <= Len(s)
      BY <1>2, <1>6, <2>1, <2>2
    <3>2. a[i] = ls[i] /\ ls[i] = s[d + i] /\ b[d + i] = s[d + i]
      BY <1>2, <1>4, <1>5, <2>1, <2>2, <3>1
    <3> QED BY <3>2
  <2>3. CASE ~(i <= Len(ls))
    <3>1. ~(d + i <= Len(s)) /\ d + i - Len(s) = i - Len(ls)
      BY <1>2, <1>6, <2>1, <2>3
    <3>2. a[i] = t[i - Len(ls)] /\ b[d + i] = t[d + i - Len(s)]
      BY <1>4, <1>5, <2>1, <2>3, <3>1
    <3> QED BY <3>1, <3>2
  <2> QED BY <2>2, <2>3
<1>8. PICK da \in 0 .. Len(a) :
              /\ da = IF Len(a) <= SeenCap THEN 0 ELSE Len(a) - SeenCap
              /\ LastSeen(a) \in Seq(Keys)
              /\ Len(LastSeen(a)) = Len(a) - da
              /\ \A i \in 1 .. Len(a) - da : LastSeen(a)[i] = a[da + i]
  BY <1>4, LastSeenIsEnd
<1>9. PICK db \in 0 .. Len(b) :
              /\ db = IF Len(b) <= SeenCap THEN 0 ELSE Len(b) - SeenCap
              /\ LastSeen(b) \in Seq(Keys)
              /\ Len(LastSeen(b)) = Len(b) - db
              /\ \A i \in 1 .. Len(b) - db : LastSeen(b)[i] = b[db + i]
  BY <1>5, LastSeenIsEnd
<1>10. Len(b) = Len(a) + d /\ Len(a) \in Nat /\ d \in Nat /\ da \in Nat /\ db \in Nat
  <2>1. d \in Nat
    BY <1>2, <1>6
  <2>2. Len(b) = Len(a) + d /\ Len(a) \in Nat /\ Len(b) \in Nat
    BY <1>2, <1>4, <1>5, <1>6, <2>1
  <2> QED BY <1>8, <1>9, <2>1, <2>2
<1>11. db = d + da
  <2>1. d = 0 \/ (Len(ls) = SeenCap /\ d = Len(s) - SeenCap /\ d \in Nat)
    BY <1>2, <1>6
  <2>2. CASE d = 0
    BY <1>8, <1>9, <1>10, <2>2
  <2>3. CASE Len(ls) = SeenCap /\ d = Len(s) - SeenCap /\ d \in Nat /\ d # 0
    <3>1. Len(a) >= SeenCap /\ Len(b) > SeenCap
      BY <1>4, <1>6, <1>10, <2>3
    <3>2. da = Len(a) - SeenCap /\ db = Len(b) - SeenCap
      BY <1>6, <1>8, <1>9, <1>10, <3>1
    <3>3. PICK la, cap : la = Len(a) /\ cap = SeenCap
      OBVIOUS
    <3>4. la \in Nat /\ cap \in Nat /\ db = la + d - cap /\ da = la - cap
      BY <1>6, <1>10, <3>2, <3>3
    <3> QED BY <1>10, <3>4
  <2> QED BY <2>1, <2>2, <2>3
<1>12. Len(LastSeen(a)) = Len(LastSeen(b))
  <2>1. Len(LastSeen(a)) = Len(a) - da /\ Len(LastSeen(b)) = Len(b) - db
    BY <1>8, <1>9
  <2> QED BY <1>10, <1>11, <2>1
<1>13. ASSUME NEW i \in 1 .. Len(LastSeen(a)) PROVE LastSeen(a)[i] = LastSeen(b)[i]
  <2>1. i \in 1 .. Len(a) - da /\ i \in 1 .. Len(b) - db
    BY <1>8, <1>9, <1>12
  <2>2. da + i \in 1 .. Len(a) /\ d + (da + i) = db + i
    BY <1>10, <1>11, <2>1
  <2>3. LastSeen(a)[i] = a[da + i] /\ LastSeen(b)[i] = b[db + i] /\ a[da + i] = b[d + (da + i)]
    BY <1>7, <1>8, <1>9, <2>1, <2>2
  <2> QED BY <2>2, <2>3
<1>14. LastSeen(a) = LastSeen(b)
  BY <1>8, <1>9, <1>12, <1>13, SeqEqual
<1> QED BY <1>1, <1>3, <1>14

\* A page without what the cursor carries keeps repeats apart.
LEMMA FreshPageIsSpaced ==
    ASSUME NEW s \in Seq(Keys), NEW t \in Seq(Keys), NEW limit,
           Spaced(s), Fresh(t, limit, LastSeen(s))
    PROVE  Spaced(s \o t)
<1>1. PICK f : f = s \o t
  OBVIOUS
<1>2. /\ f \in Seq(Keys) /\ Len(f) = Len(s) + Len(t)
      /\ \A i \in 1 .. Len(s) + Len(t) : f[i] = IF i <= Len(s) THEN s[i] ELSE t[i - Len(s)]
  BY <1>1, ConcatProperties
<1>3. Len(s) \in Nat /\ Len(t) \in Nat /\ SeenCap \in Nat
  BY Bounds
<1>4. SUFFICES ASSUME NEW m \in 1 .. Len(f), NEW n \in 1 .. Len(f), m < n, f[m] = f[n]
               PROVE  n - m > SeenCap
  BY <1>1 DEF Spaced
<1>5. m \in Nat /\ n \in Nat /\ m \in 1 .. Len(s) + Len(t) /\ n \in 1 .. Len(s) + Len(t)
  BY <1>2, <1>3
<1>6. CASE n <= Len(s)
  <2>1. m \in 1 .. Len(s) /\ n \in 1 .. Len(s) /\ f[m] = s[m] /\ f[n] = s[n]
    BY <1>2, <1>3, <1>4, <1>5, <1>6
  <2> QED BY <1>4, <2>1 DEF Spaced
<1>7. CASE ~(n <= Len(s)) /\ m <= Len(s)
  <2>1. n - Len(s) \in 1 .. Len(t) /\ f[n] = t[n - Len(s)] /\ f[m] = s[m] /\ m \in 1 .. Len(s)
    BY <1>2, <1>3, <1>5, <1>7
  <2>2. ~Contains(LastSeen(s), s[m])
    BY <1>4, <2>1 DEF Fresh
  <2>3. ~(Len(s) - m < SeenCap)
    BY <2>1, <2>2, CarriedIsRecent
  <2> QED BY <1>3, <1>5, <1>7, <2>3
<1>8. CASE ~(n <= Len(s)) /\ ~(m <= Len(s))
  <2>1. /\ n - Len(s) \in 1 .. Len(t) /\ f[n] = t[n - Len(s)]
        /\ m - Len(s) \in 1 .. Len(t) /\ f[m] = t[m - Len(s)]
        /\ n - Len(s) # m - Len(s)
    BY <1>2, <1>3, <1>4, <1>5, <1>8
  <2> QED BY <1>4, <2>1 DEF Fresh
<1> QED BY <1>6, <1>7, <1>8

LEMMA BeginningIsSpaced ==
    ASSUME NEW s \in Seq(Keys), NEW t \in Seq(Keys), Spaced(s \o t)
    PROVE  Spaced(s)
<1>1. PICK f : f = s \o t
  OBVIOUS
<1>2. /\ Len(f) = Len(s) + Len(t) /\ Len(s) \in Nat /\ Len(t) \in Nat
      /\ \A i \in 1 .. Len(s) + Len(t) : f[i] = IF i <= Len(s) THEN s[i] ELSE t[i - Len(s)]
  BY <1>1, ConcatProperties
<1>3. \A i \in 1 .. Len(s) : i \in 1 .. Len(f) /\ i \in 1 .. Len(s) + Len(t) /\ f[i] = s[i]
  BY <1>2
<1> QED BY <1>1, <1>3 DEF Spaced

LEMMA BeginningIsCopied ==
    ASSUME NEW s \in Seq(Keys), NEW t \in Seq(Keys), Copied(s \o t)
    PROVE  Copied(s)
<1>1. PICK f : f = s \o t
  OBVIOUS
<1>2. /\ Len(f) = Len(s) + Len(t) /\ Len(s) \in Nat /\ Len(t) \in Nat
      /\ \A i \in 1 .. Len(s) + Len(t) : f[i] = IF i <= Len(s) THEN s[i] ELSE t[i - Len(s)]
  BY <1>1, ConcatProperties
<1>3. \A i \in 1 .. Len(s) : i \in 1 .. Len(f) /\ i \in 1 .. Len(s) + Len(t) /\ f[i] = s[i]
  BY <1>2
<1>4. Len(FirstTimeline) \in Nat
  BY Bounds
<1> QED BY <1>1, <1>2, <1>3, <1>4 DEF Copied

\* handle.write moves the first item of what is left from memory to the file.
LEMMA WritingMoves ==
    ASSUME NEW s \in Seq(Keys), NEW t \in Seq(Keys), t # <<>>
    PROVE  /\ Head(t) \in Keys /\ Tail(t) \in Seq(Keys)
           /\ Len(Tail(t)) = Len(t) - 1 /\ Len(t) \in Nat \ {0}
           /\ Append(s, Head(t)) \in Seq(Keys) /\ Len(Append(s, Head(t))) = Len(s) + 1
           /\ Append(s, Head(t)) \o Tail(t) = s \o t
<1>1. /\ Head(t) \in Keys /\ Tail(t) \in Seq(Keys) /\ Len(Tail(t)) = Len(t) - 1
      /\ Len(t) \in Nat \ {0} /\ Len(s) \in Nat
      /\ \A i \in 1 .. Len(Tail(t)) : Tail(t)[i] = t[i + 1]
  BY HeadTailProperties, EmptySeq
<1>2. PICK h, u, a : h = Head(t) /\ u = Tail(t) /\ a = Append(s, h)
  OBVIOUS
<1>3. h = t[1]
  BY <1>2
<1>4. /\ a \in Seq(Keys) /\ Len(a) = Len(s) + 1
      /\ \A i \in 1 .. Len(s) : a[i] = s[i]
      /\ a[Len(s) + 1] = h
  BY <1>1, <1>2, AppendProperties
<1>5. PICK x, y : x = a \o u /\ y = s \o t
  OBVIOUS
<1>6. /\ x \in Seq(Keys) /\ Len(x) = Len(a) + Len(u)
      /\ \A i \in 1 .. Len(a) + Len(u) : x[i] = IF i <= Len(a) THEN a[i] ELSE u[i - Len(a)]
  BY <1>1, <1>2, <1>4, <1>5, ConcatProperties
<1>7. /\ y \in Seq(Keys) /\ Len(y) = Len(s) + Len(t)
      /\ \A i \in 1 .. Len(s) + Len(t) : y[i] = IF i <= Len(s) THEN s[i] ELSE t[i - Len(s)]
  BY <1>5, ConcatProperties
<1>8. Len(x) = Len(y)
  BY <1>1, <1>2, <1>4, <1>6, <1>7
<1>9. ASSUME NEW i \in 1 .. Len(x) PROVE x[i] = y[i]
  <2>1. i \in Nat /\ i \in 1 .. Len(a) + Len(u) /\ i \in 1 .. Len(s) + Len(t)
    BY <1>1, <1>2, <1>4, <1>6, <1>7, <1>8
  <2>2. CASE i <= Len(s)
    <3>1. i \in 1 .. Len(s) /\ i <= Len(a)
      BY <1>1, <1>4, <2>1, <2>2
    <3> QED BY <1>4, <1>6, <1>7, <2>1, <2>2, <3>1
  <2>3. CASE i = Len(s) + 1
    <3>1. i <= Len(a) /\ ~(i <= Len(s)) /\ i - Len(s) = 1
      BY <1>1, <1>4, <2>3
    <3> QED BY <1>3, <1>4, <1>6, <1>7, <2>1, <2>3, <3>1
  <2>4. CASE ~(i <= Len(s) + 1)
    <3>1. /\ ~(i <= Len(a)) /\ ~(i <= Len(s)) /\ i - Len(a) \in 1 .. Len(Tail(t))
          /\ i - Len(a) + 1 = i - Len(s)
      BY <1>1, <1>2, <1>4, <1>6, <2>1, <2>4
    <3>2. x[i] = u[i - Len(a)] /\ y[i] = t[i - Len(s)] /\ u[i - Len(a)] = t[i - Len(s)]
      BY <1>1, <1>2, <1>6, <1>7, <2>1, <3>1
    <3> QED BY <3>2
  <2> QED BY <1>1, <2>1, <2>2, <2>3, <2>4
<1>10. x = y
  BY <1>6, <1>7, <1>8, <1>9, SeqEqual
<1> QED BY <1>1, <1>2, <1>4, <1>5, <1>10

-----------------------------------------------------------------------------
(* What a step leaves alone.                                               *)

\* Only process w and job j may have changed.
Others(w, j) ==
    /\ \A v \in Readers : v # w => /\ proc'[v] = proc[v] /\ call'[v] = call[v]
                                   /\ cursor'[v] = cursor[v]
    /\ \A i \in Jobs : i # j => job'[i] = job[i] /\ file'[i] = file[i]

LEMMA JobsAreNumbers == NoJob \notin Jobs /\ \A j \in Jobs : j \in Nat
BY DEF NoJob, Jobs

\* The other processes and jobs are as they were.
LEMMA OthersKeep ==
    ASSUME IInv, TypeOK', NEW w \in Readers, NEW j \in Jobs \cup {NoJob}, Others(w, j),
           \A v \in Readers : v # w => proc[v].job # j \/ j = NoJob,
           proc'[w].job \in {NoJob, j}, WorkerOK(w)', j \in Jobs => JobOK(j)'
    PROVE  IInv'
<1>1. /\ OneWorkerPerJob
      /\ \A v \in Readers : WorkerOK(v)
      /\ \A i \in Jobs : JobOK(i)
  BY DEF IInv
<1>2. OneWorkerPerJob'
  BY <1>1 DEF Others, OneWorkerPerJob
<1>3. ASSUME NEW v \in Readers PROVE WorkerOK(v)'
  <2>1. CASE v = w
    BY <2>1
  <2>2. CASE v # w
    <3>1. proc'[v] = proc[v] /\ call'[v] = call[v] /\ cursor'[v] = cursor[v]
      BY <2>2 DEF Others
    <3>2. WorkerOK(v)
      BY <1>1
    <3>3. PICK i : i = proc[v].job
      OBVIOUS
    <3>4. CASE At(v, "idle")
      BY <3>1, <3>2, <3>4 DEF WorkerOK, At, AtWork
    <3>5. CASE ~At(v, "idle")
      <4>1. i \in Jobs /\ i # j
        BY <2>2, <3>2, <3>3, <3>5, JobsAreNumbers DEF WorkerOK
      <4>2. job'[i] = job[i] /\ file'[i] = file[i]
        BY <4>1 DEF Others
      <4>3. /\ At(v, "fetch") => Fetching(v, file[i])'
            /\ At(v, "write") => Writing(v, file[i])'
            /\ Written(v, file[i])' <=> Written(v, file[i])
            /\ Pristine(i)' <=> Pristine(i)
        BY <3>1, <3>2, <3>3, <4>2 DEF WorkerOK, Fetching, Writing, Written, Pristine, Limit
      <4> QED BY <3>1, <3>2, <3>3, <3>5, <4>1, <4>2, <4>3 DEF WorkerOK, At
    <3> QED BY <3>4, <3>5
  <2> QED BY <2>1, <2>2
<1>4. ASSUME NEW i \in Jobs PROVE JobOK(i)'
  <2>1. CASE i = j
    BY <2>1
  <2>2. CASE i # j
    <3>1. job'[i] = job[i] /\ file'[i] = file[i] /\ JobOK(i)
      BY <1>1, <2>2 DEF Others
    <3> QED BY <3>1 DEF JobOK, Pristine
  <2> QED BY <2>1, <2>2
<1> QED BY <1>2, <1>3, <1>4 DEF IInv

\* A step of a process on its own job, which no other process has.
LEMMA OwnStepKeeps ==
    ASSUME IInv, TypeOK', NEW w \in Readers, NEW j, j = proc[w].job, Others(w, j),
           proc'[w].job \in {NoJob, j}, WorkerOK(w)', j \in Jobs => JobOK(j)'
    PROVE  IInv'
<1>1. j \in Jobs \cup {NoJob}
  BY DEF IInv, TypeOK, Process
<1>2. \A v \in Readers : v # w => proc[v].job # j \/ j = NoJob
  BY DEF IInv, OneWorkerPerJob
<1> QED BY <1>1, <1>2, OthersKeep

\* The types of IInv, for one process and its job.
LEMMA Typed ==
    ASSUME IInv, NEW w \in Readers
    PROVE  /\ proc \in [Readers -> Process] /\ call \in [Readers -> Call]
           /\ cursor \in [Readers -> Cursor] /\ job \in [Jobs -> Row] /\ file \in [Jobs -> Seq(Keys)]
           /\ proc[w].state \in {"up", "draining", "down"} /\ proc[w].phase \in Phase
           /\ proc[w].job \in Jobs \cup {NoJob} /\ proc[w].total \in Nat
           /\ proc[w].page \in Seq(Keys) /\ proc[w].items \in Nat /\ proc[w].more \in BOOLEAN
           /\ proc[w].awaited \in BOOLEAN
           /\ call[w] \in Call /\ cursor[w] \in Cursor /\ WorkerOK(w)
           /\ ~At(w, "idle") => /\ proc[w].job \in Jobs /\ job[proc[w].job] \in Row
                                /\ file[proc[w].job] \in Seq(Keys) /\ JobOK(proc[w].job)
BY DEF IInv, TypeOK, ReadTypeOK, Process, WorkerOK

\* Process w becomes p.
Becomes(w, p) ==
    /\ proc' \in [Readers -> Process]
    /\ proc'[w] = p
    /\ \A v \in Readers : v # w => proc'[v] = proc[v]

LEMMA ProcessBecomes ==
    ASSUME IInv, NEW w \in Readers, NEW p \in Process, proc' = [proc EXCEPT ![w] = p]
    PROVE  Becomes(w, p)
BY Typed DEF Becomes

LEMMA GotoBecomes ==
    ASSUME IInv, NEW w \in Readers, NEW phase \in Phase, Goto(w, phase)
    PROVE  /\ Becomes(w, proc'[w]) /\ proc'[w].phase = phase
           /\ proc'[w].job = proc[w].job /\ proc'[w].total = proc[w].total
           /\ proc'[w].page = proc[w].page /\ proc'[w].items = proc[w].items
           /\ proc'[w].more = proc[w].more
<1>1. PICK p : p = [proc[w] EXCEPT !.phase = phase]
  OBVIOUS
<1>2. proc[w] \in Process
  BY Typed
<1>3. /\ p \in Process /\ p.phase = phase /\ p.job = proc[w].job /\ p.total = proc[w].total
      /\ p.page = proc[w].page /\ p.items = proc[w].items /\ p.more = proc[w].more
  BY <1>1, <1>2 DEF Process
<1>4. proc' = [proc EXCEPT ![w] = p]
  BY <1>1 DEF Goto
<1>5. Becomes(w, p)
  BY <1>3, <1>4, ProcessBecomes
<1> QED BY <1>3, <1>5 DEF Becomes

LEMMA IdleIsProcess ==
    ASSUME NEW state \in {"up", "draining", "down"}
    PROVE  /\ [Idle EXCEPT !.state = state] \in Process
           /\ [Idle EXCEPT !.state = state].phase = "idle"
           /\ [Idle EXCEPT !.state = state].job = NoJob
<1> DEFINE p == [state |-> state, phase |-> "idle", job |-> NoJob, total |-> 0,
                 page |-> <<>>, items |-> 0, more |-> FALSE, awaited |-> FALSE]
<1>1. [Idle EXCEPT !.state = state] = p
  <2>1. ASSUME NEW q, q = [Idle EXCEPT !.state = state] PROVE q = p
    BY <2>1 DEF Idle
  <2> HIDE DEF p
  <2> QED BY <2>1
<1>2. p.phase = "idle" /\ p.job = NoJob
  OBVIOUS
<1>3. NoJob \in Jobs \cup {NoJob} /\ "idle" \in Phase /\ <<>> \in Seq(Keys)
  BY DEF Phase
<1>4. p \in Process
  BY <1>3 DEF Process
<1> HIDE DEF p
<1> QED BY <1>1, <1>2, <1>4

\* A process that lets go of its job, with no call in progress.
LEMMA LeavingKeeps ==
    ASSUME IInv, TypeOK', NEW w \in Readers, Others(w, NoJob),
           proc'[w].phase = "idle", proc'[w].job = NoJob, call'[w] = NoCall
    PROVE  IInv'
<1>1. WorkerOK(w)'
  BY DEF WorkerOK, At, AtWork
<1>2. \A i \in Jobs : job'[i] = job[i] /\ file'[i] = file[i]
  BY JobsAreNumbers DEF Others
<1> QED BY <1>1, <1>2, JobsAreNumbers, OthersKeep

-----------------------------------------------------------------------------
(* The steps of users, and those that write neither file nor cursor.       *)

\* Row of job j becomes x.
RowBecomes(j, x) ==
    /\ job' \in [Jobs -> Row]
    /\ job'[j] = x
    /\ \A i \in Jobs : i # j => job'[i] = job[i]

LEMMA StatusBecomes ==
    ASSUME IInv, NEW j \in Jobs, NEW status \in {"absent"} \cup Open \cup Terminal,
           job' = [job EXCEPT ![j].status = status]
    PROVE  /\ RowBecomes(j, job'[j]) /\ job'[j].status = status
           /\ job'[j].rows = job[j].rows /\ job'[j].cursor = job[j].cursor
<1>1. job \in [Jobs -> Row] /\ job[j] \in Row
  BY DEF IInv, TypeOK
<1>2. PICK x : x = [job[j] EXCEPT !.status = status]
  OBVIOUS
<1>3. x \in Row /\ x.status = status /\ x.rows = job[j].rows /\ x.cursor = job[j].cursor
  BY <1>1, <1>2 DEF Row
<1>4. job' = [job EXCEPT ![j] = x]
  BY <1>2
<1>5. RowBecomes(j, x)
  BY <1>1, <1>3, <1>4 DEF RowBecomes
<1> QED BY <1>3, <1>5 DEF RowBecomes

LEMMA FinishBecomes ==
    ASSUME IInv, NEW j \in Jobs, NEW status \in Terminal, NEW rows \in Nat,
           Finish(j, status, rows)
    PROVE  /\ RowBecomes(j, job'[j]) /\ job'[j].status = status
           /\ job'[j].rows = rows
<1>1. job \in [Jobs -> Row] /\ job[j] \in Row
  BY DEF IInv, TypeOK
<1>2. PICK x : x = [job[j] EXCEPT !.status = status, !.rows = rows]
  OBVIOUS
<1>3. x \in Row /\ x.status = status /\ x.rows = rows
  BY <1>1, <1>2 DEF Row
<1>4. job' = [job EXCEPT ![j] = x]
  BY <1>1, <1>2 DEF Finish
<1>5. RowBecomes(j, x)
  BY <1>1, <1>3, <1>4 DEF RowBecomes
<1> QED BY <1>3, <1>5 DEF RowBecomes

LEMMA FaultIsTyped ==
    ASSUME IInv, Fault
    PROVE  used' \in [faults : 0 .. MaxFaults, stops : 0 .. MaxStops]
<1>1. PICK n : n = used.faults + 1
  OBVIOUS
<1>2. n \in 0 .. MaxFaults
  BY <1>1, Bounds DEF IInv, TypeOK, Fault
<1>3. used' = [used EXCEPT !.faults = n]
  BY <1>1 DEF Fault
<1> QED BY <1>2, <1>3 DEF IInv, TypeOK

LEMMA CreateKeeps ==
    ASSUME IInv, NEW j \in Jobs, Create(j)
    PROVE  IInv'
<1>1. /\ job[j].status = "absent" /\ job' = [job EXCEPT ![j].status = "queued"]
      /\ UNCHANGED <<timeline, cursor, call, changes, file, proc, used>>
  BY DEF Create, readVars
<1>2. /\ RowBecomes(j, job'[j]) /\ job'[j].status = "queued"
      /\ job'[j].rows = job[j].rows /\ job'[j].cursor = job[j].cursor
  BY <1>1, StatusBecomes DEF Open
<1>3. TypeOK'
  BY <1>1, <1>2 DEF IInv, TypeOK, ReadTypeOK, RowBecomes
<1>4. JobOK(j)'
  BY <1>1, <1>2 DEF IInv, JobOK, Pristine
<1>5. \A i \in Jobs : JobOK(i)'
  <2> SUFFICES ASSUME NEW i \in Jobs, i # j PROVE JobOK(i)'
    BY <1>4
  <2>1. job'[i] = job[i] /\ JobOK(i)
    BY <1>2 DEF IInv, RowBecomes
  <2> QED BY <1>1, <2>1 DEF JobOK, Pristine
<1>6. ASSUME NEW w \in Readers PROVE WorkerOK(w)'
  <2>1. WorkerOK(w) /\ proc[w].job # j
    BY <1>1, JobsAreNumbers DEF IInv, WorkerOK
  <2>2. PICK i : i = proc[w].job
    OBVIOUS
  <2>3. CASE At(w, "idle")
    BY <1>1, <2>1, <2>3 DEF WorkerOK, At, AtWork
  <2>4. CASE ~At(w, "idle")
    <3>1. i \in Jobs /\ job'[i] = job[i]
      BY <1>2, <2>1, <2>2, <2>4 DEF WorkerOK, RowBecomes
    <3>2. /\ At(w, "fetch") => Fetching(w, file[i])'
          /\ At(w, "write") => Writing(w, file[i])'
          /\ Written(w, file[i])' <=> Written(w, file[i])
          /\ Pristine(i)' <=> Pristine(i)
      BY <1>1, <2>1, <2>2, <3>1 DEF WorkerOK, Fetching, Writing, Written, Pristine, Limit
    <3> QED BY <1>1, <2>1, <2>2, <2>4, <3>1, <3>2 DEF WorkerOK, At
  <2> QED BY <2>3, <2>4
<1>7. OneWorkerPerJob'
  BY <1>1 DEF IInv, OneWorkerPerJob
<1> QED BY <1>3, <1>5, <1>6, <1>7 DEF IInv

LEMMA CancelKeeps ==
    ASSUME IInv, NEW j \in Jobs, CancelById(j)
    PROVE  IInv'
<1>1. /\ job[j].status \in Open /\ job' = [job EXCEPT ![j].status = "cancelled"]
      /\ UNCHANGED <<timeline, cursor, call, changes, file, proc, used>>
  BY DEF CancelById, readVars
<1>2. /\ RowBecomes(j, job'[j]) /\ job'[j].status = "cancelled"
      /\ job'[j].rows = job[j].rows /\ job'[j].cursor = job[j].cursor
  BY <1>1, StatusBecomes DEF Terminal
<1>3. TypeOK'
  BY <1>1, <1>2 DEF IInv, TypeOK, ReadTypeOK, RowBecomes
<1>4. JobOK(j)'
  <2>1. JobOK(j)
    BY DEF IInv
  <2>2. CASE job[j].status = "queued"
    <3>1. job[j].rows = 0 /\ file[j] = <<>>
      BY <2>1, <2>2 DEF JobOK, Pristine
    <3> QED BY <1>1, <1>2, <2>1, <3>1, Bounds DEF JobOK
  <2>3. CASE job[j].status = "running"
    BY <1>1, <1>2, <2>1, <2>3 DEF JobOK
  <2> QED BY <1>1, <2>2, <2>3 DEF Open
<1>5. \A i \in Jobs : JobOK(i)'
  <2> SUFFICES ASSUME NEW i \in Jobs, i # j PROVE JobOK(i)'
    BY <1>4
  <2>1. job'[i] = job[i] /\ JobOK(i)
    BY <1>2 DEF IInv, RowBecomes
  <2> QED BY <1>1, <2>1 DEF JobOK, Pristine
<1>6. ASSUME NEW w \in Readers PROVE WorkerOK(w)'
  <2>1. WorkerOK(w)
    BY DEF IInv
  <2>2. PICK i : i = proc[w].job
    OBVIOUS
  <2>3. CASE At(w, "idle")
    BY <1>1, <2>1, <2>3 DEF WorkerOK, At, AtWork
  <2>4. CASE ~At(w, "idle")
    <3>1. /\ i \in Jobs /\ job'[i].rows = job[i].rows /\ job'[i].cursor = job[i].cursor
          /\ job'[i].status \in {job[i].status, "cancelled"}
      BY <1>2, <2>1, <2>2, <2>4 DEF WorkerOK, RowBecomes
    <3>2. /\ At(w, "fetch") => Fetching(w, file[i])'
          /\ At(w, "write") => Writing(w, file[i])'
          /\ Written(w, file[i])' <=> Written(w, file[i])
          /\ Pristine(i)' <=> Pristine(i)
      BY <1>1, <2>1, <2>2, <3>1 DEF WorkerOK, Fetching, Writing, Written, Pristine, Limit
    <3> QED BY <1>1, <2>1, <2>2, <2>4, <3>1, <3>2 DEF WorkerOK, At
  <2> QED BY <2>3, <2>4
<1>7. OneWorkerPerJob'
  BY <1>1 DEF IInv, OneWorkerPerJob
<1> QED BY <1>3, <1>5, <1>6, <1>7 DEF IInv

LEMMA ClaimKeeps ==
    ASSUME IInv, NEW w \in Readers, ClaimNext(w)
    PROVE  IInv'
<1>1. PICK j \in Claimable : /\ job' = [job EXCEPT ![j].status = "running"]
                            /\ proc' = [proc EXCEPT ![w].phase = "claim", ![w].job = j]
  BY DEF ClaimNext
<1>2. At(w, "idle") /\ UNCHANGED <<timeline, cursor, call, changes, file, used>>
  BY DEF ClaimNext, readVars
<1>3. j \in Jobs /\ job[j].status = "queued"
  BY DEF Claimable
<1>4. PICK p : p = [proc[w] EXCEPT !.phase = "claim", !.job = j]
  OBVIOUS
<1>5. proc[w] \in Process /\ proc \in [Readers -> Process] /\ WorkerOK(w) /\ JobOK(j)
  BY <1>3, Typed DEF IInv
<1>6. p \in Process /\ p.phase = "claim" /\ p.job = j
  BY <1>3, <1>4, <1>5 DEF Process, Phase
<1>7. proc' = [proc EXCEPT ![w] = p]
  BY <1>1, <1>4, <1>5
<1>8. Becomes(w, p)
  BY <1>6, <1>7, ProcessBecomes
<1>9. /\ RowBecomes(j, job'[j]) /\ job'[j].status = "running"
      /\ job'[j].rows = job[j].rows /\ job'[j].cursor = job[j].cursor
  BY <1>1, <1>3, StatusBecomes DEF Open
<1>10. TypeOK'
  BY <1>2, <1>8, <1>9 DEF IInv, TypeOK, ReadTypeOK, RowBecomes, Becomes
<1>11. Pristine(j) /\ Pristine(j)'
  BY <1>2, <1>3, <1>5, <1>9 DEF JobOK, Pristine
<1>12. JobOK(j)'
  BY <1>2, <1>3, <1>5, <1>9, <1>11, Bounds DEF JobOK, Pristine
<1>13. WorkerOK(w)'
  BY <1>2, <1>3, <1>5, <1>6, <1>8, <1>9, <1>11 DEF WorkerOK, At, Becomes
<1>14. Others(w, j)
  BY <1>2, <1>8, <1>9 DEF Others, Becomes, RowBecomes
<1>15. \A v \in Readers : proc[v].job # j
  BY <1>3, JobsAreNumbers DEF IInv, WorkerOK
<1>16. proc'[w].job = j
  BY <1>6, <1>8 DEF Becomes
<1> QED BY <1>3, <1>10, <1>12, <1>13, <1>14, <1>15, <1>16, OthersKeep

LEMMA FinishKeeps ==
    ASSUME IInv, NEW w \in Readers, NEW j, j = proc[w].job,
           NEW status \in {"succeeded", "failed"}, Finish(j, status, proc[w].total),
           proc[w].phase \in {"success", "fail"}, status = "succeeded" => At(w, "success"),
           Goto(w, "close"), UNCHANGED <<readVars, file, used>>
    PROVE  IInv'
<1>1. /\ j \in Jobs /\ proc[w].total \in Nat /\ WorkerOK(w) /\ JobOK(j)
      /\ job[j].status \in {"running", "cancelled"}
  BY Typed DEF WorkerOK, At, AtWork
<1>2. RowBecomes(j, job'[j]) /\ job'[j].status = status /\ job'[j].rows = proc[w].total
  BY <1>1, FinishBecomes DEF Terminal
<1>3. /\ Becomes(w, proc'[w]) /\ proc'[w].phase = "close" /\ proc'[w].job = j
  BY GotoBecomes DEF Phase
<1>4. UNCHANGED <<timeline, cursor, call, changes, file, used>>
  BY DEF readVars
<1>5. TypeOK'
  BY <1>2, <1>3, <1>4 DEF IInv, TypeOK, ReadTypeOK, RowBecomes, Becomes
<1>6. Others(w, j)
  BY <1>2, <1>3, <1>4 DEF Others, RowBecomes, Becomes
<1>7. WorkerOK(w)'
  BY <1>1, <1>2, <1>3, <1>4 DEF WorkerOK, At, AtWork
<1>8. JobOK(j)'
  BY <1>1, <1>2, <1>4 DEF JobOK, WorkerOK, Written, At
<1> QED BY <1>3, <1>5, <1>6, <1>7, <1>8, OwnStepKeeps

LEMMA MarkSuccessKeeps ==
    ASSUME IInv, NEW w \in Readers, MarkSuccess(w)
    PROVE  IInv'
BY FinishKeeps DEF MarkSuccess, At

LEMMA MarkFailureKeeps ==
    ASSUME IInv, NEW w \in Readers, MarkFailure(w)
    PROVE  IInv'
BY FinishKeeps DEF MarkFailure, At

LEMMA SettleBecomes ==
    ASSUME IInv, NEW w \in Readers, Settle(w)
    PROVE  Becomes(w, proc'[w]) /\ proc'[w].phase = "idle" /\ proc'[w].job = NoJob
<1>1. PICK p : p = [Idle EXCEPT !.state = proc[w].state]
  OBVIOUS
<1>2. p \in Process /\ p.phase = "idle" /\ p.job = NoJob
  BY <1>1, Typed, IdleIsProcess
<1>3. proc' = [proc EXCEPT ![w] = p]
  BY <1>1 DEF Settle
<1>4. Becomes(w, p)
  BY <1>2, <1>3, ProcessBecomes
<1> QED BY <1>2, <1>4 DEF Becomes

\* The read of process w, if it has one, is over.
LEMMA DropBecomes ==
    ASSUME IInv, NEW w \in Readers, DropRead(w)
    PROVE  /\ call' \in [Readers -> Call] /\ call'[w] = NoCall
           /\ \A v \in Readers : v # w => call'[v] = call[v]
           /\ UNCHANGED <<timeline, cursor, changes>>
<1>1. NoCall \in Call
  BY DEF NoCall, Call
<1> QED BY <1>1, Typed DEF DropRead

LEMMA CloseKeeps ==
    ASSUME IInv, NEW w \in Readers, Close(w)
    PROVE  IInv'
<1>1. UNCHANGED <<timeline, cursor, call, changes, job, file, used>> /\ At(w, "close")
  BY DEF Close, readVars
<1>2. Becomes(w, proc'[w]) /\ proc'[w].phase = "idle" /\ proc'[w].job = NoJob
  BY SettleBecomes DEF Close
<1>3. TypeOK'
  BY <1>1, <1>2 DEF IInv, TypeOK, ReadTypeOK, Becomes
<1>4. Others(w, NoJob) /\ call'[w] = NoCall
  BY <1>1, <1>2, Typed DEF Others, Becomes, WorkerOK, At
<1> QED BY <1>2, <1>3, <1>4, LeavingKeeps

LEMMA RescueKeeps ==
    ASSUME IInv, NEW w \in Readers, Rescue(w)
    PROVE  IInv'
<1>1. UNCHANGED <<timeline, cursor, call, changes, file, used>> /\ At(w, "rescue")
  BY DEF Rescue, readVars
<1>2. PICK j : j = proc[w].job
  OBVIOUS
<1>3. j \in Jobs /\ WorkerOK(w) /\ JobOK(j)
  BY <1>1, <1>2, Typed DEF At
<1>4. RowBecomes(j, job'[j]) /\ job'[j].status = "failed"
  BY <1>2, <1>3, FinishBecomes DEF Rescue, Terminal
<1>5. Becomes(w, proc'[w]) /\ proc'[w].phase = "idle" /\ proc'[w].job = NoJob
  BY SettleBecomes DEF Rescue
<1>6. TypeOK'
  BY <1>1, <1>4, <1>5 DEF IInv, TypeOK, ReadTypeOK, RowBecomes, Becomes
<1>7. Others(w, j)
  BY <1>1, <1>4, <1>5 DEF Others, RowBecomes, Becomes
<1>8. WorkerOK(w)'
  BY <1>1, <1>3, <1>5 DEF WorkerOK, At, AtWork
<1>9. JobOK(j)'
  BY <1>1, <1>3, <1>4 DEF JobOK
<1> QED BY <1>2, <1>5, <1>6, <1>7, <1>8, <1>9, OwnStepKeeps

LEMMA AwaitRejectsKeeps ==
    ASSUME IInv, NEW w \in Readers, AwaitRejects(w)
    PROVE  IInv'
<1>1. Fault /\ ~At(w, "idle") /\ UNCHANGED <<job, file>>
  BY DEF AwaitRejects
<1>2. used' \in [faults : 0 .. MaxFaults, stops : 0 .. MaxStops]
  BY <1>1, FaultIsTyped
<1>3. /\ call' \in [Readers -> Call] /\ call'[w] = NoCall
      /\ \A v \in Readers : v # w => call'[v] = call[v]
      /\ UNCHANGED <<timeline, cursor, changes>>
  BY DropBecomes DEF AwaitRejects
<1>4. CASE Settle(w)
  <2>1. Becomes(w, proc'[w]) /\ proc'[w].phase = "idle" /\ proc'[w].job = NoJob
    BY <1>4, SettleBecomes
  <2>2. TypeOK'
    BY <1>1, <1>2, <1>3, <2>1 DEF IInv, TypeOK, ReadTypeOK, Becomes
  <2>3. Others(w, NoJob)
    BY <1>1, <1>3, <2>1 DEF Others, Becomes
  <2> QED BY <1>3, <2>1, <2>2, <2>3, LeavingKeeps
<1>5. ASSUME NEW phase \in {"rescue", "fail"}, Goto(w, phase),
             phase = "fail" => proc[w].phase \in {"fetch", "write", "progress", "success"}
      PROVE  IInv'
  <2>1. PICK j : j = proc[w].job
    OBVIOUS
  <2>2. Becomes(w, proc'[w]) /\ proc'[w].phase = phase /\ proc'[w].job = j
    BY <1>5, <2>1, GotoBecomes DEF Phase
  <2>3. TypeOK'
    BY <1>1, <1>2, <1>3, <2>2 DEF IInv, TypeOK, ReadTypeOK, Becomes
  <2>4. Others(w, j)
    BY <1>1, <1>3, <2>2 DEF Others, Becomes
  <2>5. WorkerOK(w) /\ j \in Jobs /\ JobOK(j)
    BY <1>1, <2>1, Typed
  <2>6. WorkerOK(w)'
    BY <1>1, <1>3, <1>5, <2>1, <2>2, <2>5 DEF WorkerOK, At, AtWork
  <2>7. JobOK(j)'
    BY <1>1, <2>5 DEF JobOK, Pristine
  <2> QED BY <2>1, <2>2, <2>3, <2>4, <2>6, <2>7, OwnStepKeeps
<1> QED BY <1>4, <1>5 DEF AwaitRejects

LEMMA EndsKeeps ==
    ASSUME IInv, NEW w \in Readers, Ends(w), UNCHANGED <<job, file>>,
           used' \in [faults : 0 .. MaxFaults, stops : 0 .. MaxStops]
    PROVE  IInv'
<1>1. /\ call' \in [Readers -> Call] /\ call'[w] = NoCall
      /\ \A v \in Readers : v # w => call'[v] = call[v]
      /\ UNCHANGED <<timeline, cursor, changes>>
  BY DropBecomes DEF Ends
<1>2. PICK p : p = [Idle EXCEPT !.state = "down"]
  OBVIOUS
<1>3. p \in Process /\ p.phase = "idle" /\ p.job = NoJob
  BY <1>2, IdleIsProcess
<1>4. proc' = [proc EXCEPT ![w] = p]
  BY <1>2 DEF Ends
<1>5. Becomes(w, p)
  BY <1>3, <1>4, ProcessBecomes
<1>6. TypeOK'
  BY <1>1, <1>5 DEF IInv, TypeOK, ReadTypeOK, Becomes
<1>7. Others(w, NoJob)
  BY <1>1, <1>5 DEF Others, Becomes
<1> QED BY <1>1, <1>3, <1>5, <1>6, <1>7, LeavingKeeps DEF Becomes

LEMMA EndStepKeeps ==
    ASSUME IInv, NEW w \in Readers, Crash(w) \/ Drained(w) \/ DrainTimeout(w)
    PROVE  IInv'
<1>1. Ends(w) /\ UNCHANGED <<job, file>> /\ (Fault \/ UNCHANGED used)
  BY DEF Crash, Drained, DrainTimeout
<1>2. used' \in [faults : 0 .. MaxFaults, stops : 0 .. MaxStops]
  BY <1>1, FaultIsTyped DEF IInv, TypeOK
<1> QED BY <1>1, <1>2, EndsKeeps

\* A process that is told to stop, or started again, is where it was with its job.
LEMMA SamePlaceKeeps ==
    ASSUME IInv, NEW w \in Readers, NEW p \in Process, Becomes(w, p),
           \E state \in {"up", "draining", "down"}, awaited \in BOOLEAN :
              p = [proc[w] EXCEPT !.state = state, !.awaited = awaited],
           UNCHANGED <<readVars, job, file>>,
           used' \in [faults : 0 .. MaxFaults, stops : 0 .. MaxStops]
    PROVE  IInv'
<1>1. /\ p.phase = proc[w].phase /\ p.job = proc[w].job /\ p.total = proc[w].total
      /\ p.page = proc[w].page /\ p.items = proc[w].items /\ p.more = proc[w].more
  BY Typed DEF Process
<1>2. UNCHANGED <<timeline, cursor, call, changes, job, file>>
  BY DEF readVars
<1>3. TypeOK'
  BY <1>2 DEF IInv, TypeOK, ReadTypeOK, Becomes
<1>4. PICK j : j = proc[w].job
  OBVIOUS
<1>5. Others(w, j) /\ proc'[w] = p /\ p.job = j
  BY <1>1, <1>2, <1>4 DEF Others, Becomes
<1>6. WorkerOK(w)
  BY Typed
<1>7. /\ At(w, "fetch") => Fetching(w, file[j])'
      /\ At(w, "write") => Writing(w, file[j])'
      /\ Written(w, file[j])' <=> Written(w, file[j])
      /\ Pristine(j)' <=> Pristine(j)
  BY <1>1, <1>2, <1>4, <1>5, <1>6 DEF WorkerOK, Fetching, Writing, Written, Pristine, Limit
<1>8. WorkerOK(w)'
  BY <1>1, <1>2, <1>4, <1>5, <1>6, <1>7 DEF WorkerOK, At
<1>9. j \in Jobs => JobOK(j)'
  BY <1>2 DEF IInv, JobOK, Pristine
<1> QED BY <1>3, <1>4, <1>5, <1>8, <1>9, OwnStepKeeps

LEMMA StopKeeps ==
    ASSUME IInv, NEW w \in Readers, Stop(w)
    PROVE  IInv'
<1>1. PICK awaited : awaited = (proc[w].phase \notin {"idle", "claim"})
  OBVIOUS
<1>2. PICK p : p = [proc[w] EXCEPT !.state = "draining", !.awaited = awaited]
  OBVIOUS
<1>3. p \in Process /\ awaited \in BOOLEAN
  <2>1. awaited \in BOOLEAN /\ proc[w] \in Process
    BY <1>1, Typed
  <2> QED BY <1>2, <2>1 DEF Process
<1>4. proc' = [proc EXCEPT ![w] = p]
  BY <1>1, <1>2, Typed DEF Stop
<1>5. Becomes(w, p)
  BY <1>3, <1>4, ProcessBecomes
<1>6. used' \in [faults : 0 .. MaxFaults, stops : 0 .. MaxStops]
  <2>1. used.stops + 1 \in 0 .. MaxStops
    BY Bounds DEF Stop, IInv, TypeOK
  <2> QED BY <2>1 DEF Stop, IInv, TypeOK
<1>7. UNCHANGED <<readVars, job, file>>
  BY DEF Stop
<1> QED BY <1>2, <1>3, <1>5, <1>6, <1>7, SamePlaceKeeps

LEMMA RestartKeeps ==
    ASSUME IInv, NEW w \in Readers, Restart(w)
    PROVE  IInv'
<1>1. PICK p : p = [proc[w] EXCEPT !.state = "up"]
  OBVIOUS
<1>2. proc[w] \in Process /\ proc[w].awaited \in BOOLEAN
  BY Typed
<1>3. p \in Process /\ p = [proc[w] EXCEPT !.state = "up", !.awaited = proc[w].awaited]
  BY <1>1, <1>2 DEF Process
<1>4. proc' = [proc EXCEPT ![w] = p]
  BY <1>1 DEF Restart
<1>5. Becomes(w, p)
  BY <1>3, <1>4, ProcessBecomes
<1>6. used' \in [faults : 0 .. MaxFaults, stops : 0 .. MaxStops] /\ UNCHANGED <<readVars, job, file>>
  BY DEF Restart, IInv, TypeOK
<1> QED BY <1>2, <1>3, <1>5, <1>6, SamePlaceKeeps

-----------------------------------------------------------------------------
(* The steps of process() and of its read.                                 *)

LEMMA TimelineKeeps ==
    ASSUME IInv, TimelineChanges /\ UNCHANGED jobVars
    PROVE  IInv' /\ changes' = changes + 1 /\ changes' # 0
<1>1. UNCHANGED <<cursor, call, job, file, proc, used>> /\ timeline \in Seq(Keys)
  BY DEF TimelineChanges, jobVars, IInv, TypeOK, ReadTypeOK
<1>2. changes' = changes + 1 /\ changes' # 0 /\ changes' \in 0 .. MaxChanges
  BY Bounds DEF TimelineChanges, IInv, TypeOK, ReadTypeOK
<1>3. timeline' \in Seq(Keys)
  <2>1. CASE \E k \in Keys \ Range(timeline) : timeline' = <<k>> \o timeline
    BY <1>1, <2>1, ConcatProperties
  <2>2. ASSUME NEW i \in DOMAIN timeline,
               timeline' \in {<<timeline[i]>> \o RemoveAt(timeline, i), RemoveAt(timeline, i)}
        PROVE  timeline' \in Seq(Keys)
    <3>1. Len(timeline) \in Nat /\ i \in 1 .. Len(timeline)
      BY <1>1
    <3>2. \A l \in 1 .. Len(timeline) : timeline[l] \in Keys
      BY <1>1
    <3>3. SubSeq(timeline, 1, i - 1) \in Seq(Keys)
      <4>1. \A l \in 1 .. i - 1 : timeline[l] \in Keys
        BY <3>1, <3>2
      <4>2. 1 \in Int /\ i - 1 \in Int
        BY <3>1
      <4> QED BY <4>1, <4>2, SubSeqProperties
    <3>4. SubSeq(timeline, i + 1, Len(timeline)) \in Seq(Keys)
      <4>1. \A l \in i + 1 .. Len(timeline) : timeline[l] \in Keys
        BY <3>1, <3>2
      <4>2. i + 1 \in Int /\ Len(timeline) \in Int
        BY <3>1
      <4> QED BY <4>1, <4>2, SubSeqProperties
    <3>5. RemoveAt(timeline, i) \in Seq(Keys)
      BY <3>3, <3>4, ConcatProperties DEF RemoveAt
    <3>6. <<timeline[i]>> \in Seq(Keys)
      BY <3>1, <3>2
    <3>7. <<timeline[i]>> \o RemoveAt(timeline, i) \in Seq(Keys)
      BY <3>5, <3>6, ConcatProperties
    <3> QED BY <2>2, <3>5, <3>7
  <2> QED BY <2>1, <2>2 DEF TimelineChanges
<1>4. TypeOK'
  BY <1>1, <1>2, <1>3 DEF IInv, TypeOK, ReadTypeOK
<1>5. ASSUME NEW w \in Readers PROVE WorkerOK(w)'
  <2>1. WorkerOK(w)
    BY DEF IInv
  <2> QED BY <1>1, <2>1 DEF WorkerOK, At, AtWork, Pristine, Fetching, Writing, Written, Limit
<1>6. \A j \in Jobs : JobOK(j)'
  BY <1>1 DEF IInv, JobOK, Pristine
<1>7. OneWorkerPerJob'
  BY <1>1 DEF IInv, OneWorkerPerJob
<1> QED BY <1>2, <1>4, <1>5, <1>6, <1>7 DEF IInv

LEMMA EmptyFacts ==
    /\ <<>> \in Seq(Keys) /\ Len(<<>>) = 0
    /\ LastSeen(<<>>) = <<>> /\ Spaced(<<>>)
    /\ \A limit \in Nat : \A seen : Fresh(<<>>, limit, seen)
<1>1. <<>> \in Seq(Keys) /\ Len(<<>>) = 0
  OBVIOUS
<1>2. LastSeen(<<>>) = <<>>
  BY <1>1, Bounds DEF LastSeen
<1>3. 1 .. 0 = {}
  OBVIOUS
<1>4. Spaced(<<>>)
  BY <1>1, <1>3 DEF Spaced
<1>5. \A limit \in Nat : \A seen : Fresh(<<>>, limit, seen)
  BY <1>1, <1>3 DEF Fresh
<1> QED BY <1>1, <1>2, <1>4, <1>5

LEMMA OpenFileKeeps ==
    ASSUME IInv, NEW w \in Readers, OpenFile(w)
    PROVE  /\ IInv' /\ UNCHANGED <<timeline, call, changes, job, file>>
           /\ Becomes(w, proc'[w]) /\ proc'[w].phase = "fetch" /\ proc'[w].job = proc[w].job
           /\ cursor'[w] = Start /\ file[proc[w].job] = <<>> /\ call[w] = NoCall
           /\ \A v \in Readers : v # w => cursor'[v] = cursor[v]
<1>1. PICK j : j = proc[w].job
  OBVIOUS
<1>2. /\ At(w, "claim") /\ UNCHANGED <<timeline, call, changes, job, used>>
      /\ file' = [file EXCEPT ![j] = IF job[j].rows = 0 THEN <<>> ELSE @]
      /\ proc' = [proc EXCEPT ![w].phase = "fetch", ![w].total = job[j].rows]
      /\ cursor' = [cursor EXCEPT ![w] = job[j].cursor]
  BY <1>1 DEF OpenFile
<1>3. /\ WorkerOK(w) /\ Pristine(j) /\ j \in Jobs /\ call[w] = NoCall /\ JobOK(j)
      /\ job[j].status \in {"running", "cancelled"}
      /\ file \in [Jobs -> Seq(Keys)] /\ job[j] \in Row /\ proc[w] \in Process
      /\ proc \in [Readers -> Process] /\ cursor \in [Readers -> Cursor]
  BY <1>1, <1>2, Typed DEF WorkerOK, At, AtWork
<1>4. file' = file
  BY <1>2, <1>3 DEF Pristine
<1>5. /\ cursor' \in [Readers -> Cursor] /\ cursor'[w] = Start
      /\ \A v \in Readers : v # w => cursor'[v] = cursor[v]
  BY <1>2, <1>3 DEF Pristine, Row
<1>6. PICK p : p = [proc[w] EXCEPT !.phase = "fetch", !.total = 0]
  OBVIOUS
<1>7. p \in Process /\ p.phase = "fetch" /\ p.total = 0 /\ p.job = j
  BY <1>1, <1>3, <1>6 DEF Process, Phase
<1>8. proc' = [proc EXCEPT ![w] = p]
  BY <1>2, <1>3, <1>6 DEF Pristine
<1>9. Becomes(w, p)
  BY <1>7, <1>8, ProcessBecomes
<1>10. TypeOK'
  BY <1>2, <1>4, <1>5, <1>9 DEF IInv, TypeOK, ReadTypeOK, Becomes
<1>11. Others(w, j)
  BY <1>2, <1>4, <1>5, <1>9 DEF Others, Becomes
<1>12. proc'[w].phase = "fetch" /\ proc'[w].total = 0 /\ proc'[w].job = j
  BY <1>7, <1>9 DEF Becomes
<1>13. Fetching(w, <<>>)'
  <2>1. job[j].rows = 0 /\ 0 < MaxRows
    BY <1>3, Bounds DEF Pristine
  <2>2. call'[w].limit = 0 /\ call'[w].collected = <<>> /\ ~call'[w].done
    BY <1>2, <1>3 DEF NoCall
  <2>3. cursor'[w].seen = <<>>
    BY <1>5 DEF Start
  <2> QED BY <1>2, <1>12, <2>1, <2>2, <2>3, EmptyFacts DEF Fetching
<1>14. file'[j] = <<>>
  BY <1>3, <1>4 DEF Pristine
<1>15. WorkerOK(w)'
  BY <1>2, <1>3, <1>12, <1>13, <1>14 DEF WorkerOK, At
<1>16. JobOK(j)'
  BY <1>2, <1>3, <1>4 DEF JobOK, Pristine
<1>17. IInv'
  BY <1>1, <1>10, <1>11, <1>12, <1>15, <1>16, OwnStepKeeps
<1>18. proc'[w] = p
  BY <1>9 DEF Becomes
<1> QED BY <1>1, <1>2, <1>3, <1>4, <1>5, <1>9, <1>12, <1>14, <1>17, <1>18

LEMMA LimitFits ==
    ASSUME IInv, NEW w \in Readers, proc[w].total < MaxRows
    PROVE  /\ Limit(w) \in Nat \ {0} /\ Limit(w) <= BatchSize
           /\ proc[w].total + Limit(w) <= MaxRows
<1>1. proc[w].total \in Nat
  BY Typed
<1> QED BY <1>1, Bounds DEF Limit

\* Call of process w becomes c.
CallBecomes(w, c) ==
    /\ call' \in [Readers -> Call]
    /\ call'[w] = c
    /\ \A v \in Readers : v # w => call'[v] = call[v]

\* The worker asks for a page: from the cursor that it has.
LEMMA FetchPageKeeps ==
    ASSUME IInv, NEW w \in Readers, FetchPage(w)
    PROVE  /\ IInv' /\ UNCHANGED <<timeline, cursor, changes, job, file, proc, used>>
           /\ At(w, "fetch") /\ CallBecomes(w, call'[w]) /\ call'[w].limit # 0 /\ ~call'[w].done
           /\ call'[w].skip = cursor[w].key /\ call'[w].depth = cursor[w].depth
           /\ call'[w].collected = <<>>
<1>1. PICK j : j = proc[w].job
  OBVIOUS
<1>2. /\ At(w, "fetch") /\ UNCHANGED <<timeline, cursor, changes, job, file, proc, used>>
      /\ call[w] = NoCall
  BY DEF FetchPage, BeginRead, jobVars
<1>3. /\ WorkerOK(w) /\ Fetching(w, file[j]) /\ j \in Jobs /\ cursor[w] \in Cursor /\ JobOK(j)
      /\ call \in [Readers -> Call] /\ proc[w].total \in Nat
  BY <1>1, <1>2, Typed DEF WorkerOK, At
<1>4. PICK limit, key, depth : limit = Limit(w) /\ key = cursor[w].key /\ depth = cursor[w].depth
  OBVIOUS
<1>5. limit \in Nat \ {0} /\ key \in Keys \cup {NoKey} /\ depth \in Nat
  <2>1. proc[w].total < MaxRows
    BY <1>3 DEF Fetching
  <2> QED BY <1>3, <1>4, <2>1, LimitFits DEF Cursor
<1>6. PICK c : c = [NoCall EXCEPT !.limit = limit, !.skip = key, !.depth = depth]
  OBVIOUS
<1>7. /\ c \in Call /\ c.limit = limit /\ c.skip = key /\ c.depth = depth
      /\ c.collected = <<>> /\ ~c.done
  <2> DEFINE r == [limit |-> limit, skip |-> key, depth |-> depth, collected |-> <<>>,
                   iter |-> 0, stall |-> 0, last |-> -1, done |-> FALSE]
  <2>1. c = r
    <3>1. ASSUME NEW q, q = [NoCall EXCEPT !.limit = limit, !.skip = key, !.depth = depth]
          PROVE  q = r
      BY <3>1 DEF NoCall
    <3> HIDE DEF r
    <3> QED BY <1>6, <3>1
  <2>2. r \in Call
    <3>1. <<>> \in Seq(Keys) /\ 0 \in Nat /\ -1 \in Nat \cup {-1} /\ FALSE \in BOOLEAN
      OBVIOUS
    <3> QED BY <1>5, <3>1 DEF Call
  <2> QED BY <2>1, <2>2
<1>8. call' = [call EXCEPT ![w] = c]
  BY <1>4, <1>6 DEF FetchPage, BeginRead
<1>9. CallBecomes(w, c)
  BY <1>3, <1>7, <1>8 DEF CallBecomes
<1>10. TypeOK'
  BY <1>2, <1>9 DEF IInv, TypeOK, ReadTypeOK, CallBecomes
<1>11. Others(w, j)
  BY <1>2, <1>9 DEF Others, CallBecomes
<1>12. Fetching(w, file[j])'
  <2>1. Limit(w)' = Limit(w)
    BY <1>2 DEF Limit
  <2>2. call'[w] = c /\ cursor'[w] = cursor[w] /\ proc'[w] = proc[w] /\ job' = job /\ file' = file
    BY <1>2, <1>9 DEF CallBecomes
  <2>3. Fresh(c.collected, c.limit, cursor[w].seen)
    BY <1>5, <1>7, EmptyFacts
  <2> QED BY <1>3, <1>4, <1>5, <1>7, <2>1, <2>2, <2>3 DEF Fetching
<1>13. WorkerOK(w)'
  BY <1>1, <1>2, <1>3, <1>12 DEF WorkerOK, At
<1>14. JobOK(j)'
  BY <1>2, <1>3 DEF JobOK, Pristine
<1>15. IInv'
  BY <1>1, <1>2, <1>10, <1>11, <1>13, <1>14, OwnStepKeeps
<1>16. call'[w] = c
  BY <1>9 DEF CallBecomes
<1> QED BY <1>2, <1>4, <1>5, <1>7, <1>9, <1>15, <1>16

\* An iteration of the loop: what it collects is fresh.
LEMMA ScrollKeeps ==
    ASSUME IInv, NEW w \in Readers, Scroll(w), UNCHANGED jobVars
    PROVE  /\ IInv' /\ UNCHANGED <<timeline, cursor, changes, job, file, proc, used>>
           /\ At(w, "fetch") /\ call[w].limit > 0 /\ ~call[w].done
<1>1. PICK j : j = proc[w].job
  OBVIOUS
<1>2. /\ UNCHANGED <<timeline, cursor, changes, job, file, proc, used>>
      /\ call[w].limit > 0 /\ ~call[w].done
  BY DEF Scroll, jobVars
<1>3. At(w, "fetch")
  BY <1>2, Typed DEF WorkerOK, NoCall
<1>4. /\ WorkerOK(w) /\ Fetching(w, file[j]) /\ j \in Jobs /\ cursor[w] \in Cursor /\ JobOK(j)
      /\ call \in [Readers -> Call] /\ call[w] \in Call
  BY <1>1, <1>3, Typed DEF WorkerOK, At
<1>5. PICK c \in Call, candidates \in Seq(Keys) : Scrolls(w, c, candidates)
  BY ScrollDoes DEF IInv, TypeOK
<1>6. /\ call' = [call EXCEPT ![w] = c] /\ c.limit = call[w].limit
      /\ c.collected = Collect(w, candidates)
  BY <1>5 DEF Scrolls
<1>7. CallBecomes(w, c)
  BY <1>4, <1>6 DEF CallBecomes
<1>8. TypeOK'
  BY <1>2, <1>7 DEF IInv, TypeOK, ReadTypeOK, CallBecomes
<1>9. Others(w, j)
  BY <1>2, <1>7 DEF Others, CallBecomes
<1>10. Fetching(w, file[j])'
  <2>1. Limit(w)' = Limit(w)
    BY <1>2 DEF Limit
  <2>2. call'[w] = c /\ cursor'[w] = cursor[w] /\ proc'[w] = proc[w] /\ job' = job /\ file' = file
    BY <1>2, <1>7 DEF CallBecomes
  <2>3. Fresh(c.collected, c.limit, cursor[w].seen)
    <3>1. call[w].limit \in Nat /\ call[w].collected \in Seq(Keys)
      BY <1>4 DEF Call
    <3> QED BY <1>4, <1>6, <3>1, CollectIsFresh DEF Fetching
  <2>4. c.limit \in {0, Limit(w)} /\ c.limit # 0
    BY <1>2, <1>4, <1>6 DEF Fetching
  <2> QED BY <1>4, <2>1, <2>2, <2>3, <2>4 DEF Fetching
<1>11. WorkerOK(w)'
  BY <1>1, <1>2, <1>3, <1>4, <1>10 DEF WorkerOK, At
<1>12. JobOK(j)'
  BY <1>2, <1>4 DEF JobOK, Pristine
<1>13. IInv'
  BY <1>1, <1>2, <1>8, <1>9, <1>11, <1>12, OwnStepKeeps
<1> QED BY <1>2, <1>3, <1>13

\* The page comes to the worker, with the cursor for the next one.
LEMMA PageArrivesKeeps ==
    ASSUME IInv, NEW w \in Readers, PageArrives(w)
    PROVE  /\ IInv' /\ UNCHANGED <<timeline, changes, job, file, used>>
           /\ At(w, "fetch") /\ call[w].done /\ call[w].limit > 0 /\ call'[w] = NoCall
           /\ \A v \in Readers : v # w => /\ proc'[v] = proc[v] /\ call'[v] = call[v]
                                          /\ cursor'[v] = cursor[v]
           /\ proc'[w].phase = "write" /\ proc'[w].job = proc[w].job
           /\ proc'[w].page = call[w].collected
           /\ proc'[w].more = (Len(call[w].collected) = call[w].limit)
           /\ proc'[w].more => /\ call[w].collected # <<>>
                               /\ cursor'[w].key = Last(call[w].collected)
                               /\ cursor'[w].depth = call[w].depth
<1>1. PICK j, got : j = proc[w].job /\ got = call[w].collected
  OBVIOUS
<1>2. /\ At(w, "fetch") /\ UNCHANGED <<timeline, changes, job, file, used>> /\ call[w].done
  BY DEF PageArrives, EndRead
<1>3. /\ WorkerOK(w) /\ Fetching(w, file[j]) /\ j \in Jobs /\ cursor[w] \in Cursor /\ JobOK(j)
      /\ job[j].status \in {"running", "cancelled"}
      /\ call \in [Readers -> Call] /\ call[w] \in Call /\ cursor \in [Readers -> Cursor]
      /\ proc[w] \in Process /\ proc \in [Readers -> Process]
      /\ file[j] \in Seq(Keys) /\ proc[w].total \in Nat
  BY <1>1, <1>2, Typed DEF WorkerOK, At, AtWork
<1>4. /\ call[w].limit \in Nat \ {0} /\ got \in Seq(Keys) /\ call[w].depth \in Nat
      /\ cursor[w].seen = LastSeen(file[j])
      /\ Fresh(got, call[w].limit, LastSeen(file[j])) /\ Len(got) \in Nat
      /\ Len(got) <= call[w].limit /\ call[w].limit = Limit(w)
      /\ proc[w].total = Len(file[j]) /\ proc[w].total < MaxRows /\ job[j].rows = proc[w].total
  BY <1>1, <1>2, <1>3 DEF Call, Fetching, Fresh
<1>5. PICK more \in BOOLEAN : more = (Len(got) = call[w].limit)
  OBVIOUS
<1>6. more <=> More(w)
  BY <1>1, <1>5 DEF More
<1>7. PICK p : p = [proc[w] EXCEPT !.phase = "write", !.page = got, !.items = Len(got), !.more = more]
  OBVIOUS
<1>8. /\ p \in Process /\ p.phase = "write" /\ p.page = got /\ p.items = Len(got) /\ p.more = more
      /\ p.job = j /\ p.total = proc[w].total
  BY <1>1, <1>3, <1>4, <1>5, <1>7 DEF Process, Phase
<1>9. proc' = [proc EXCEPT ![w] = p]
  <2>1. more = More(w)
    BY <1>1, <1>5 DEF More
  <2> QED BY <1>1, <1>3, <1>7, <2>1 DEF PageArrives
<1>10. Becomes(w, p)
  BY <1>8, <1>9, ProcessBecomes
<1>11. NoCall \in Call
  BY DEF NoCall, Call
<1>12. CallBecomes(w, NoCall)
  BY <1>3, <1>11 DEF PageArrives, EndRead, CallBecomes
<1>13. PICK cur : cur = IF more THEN NextCursor(w, got) ELSE Start
  OBVIOUS
<1>14. cursor' = [cursor EXCEPT ![w] = cur]
  <2>1. more = More(w)
    BY <1>1, <1>5 DEF More
  <2> QED BY <1>1, <1>13, <2>1 DEF PageArrives, EndRead
<1>15. /\ more => /\ got # <<>> /\ cur.key = Last(got) /\ cur.depth = call[w].depth
                  /\ cur.seen = LastSeen(file[j] \o got)
       /\ cur \in Cursor
  <2>1. CASE more
    <3>1. cur = [key |-> Last(got), depth |-> call[w].depth, seen |-> LastSeen(cursor[w].seen \o got)]
      BY <1>13, <2>1 DEF NextCursor
    <3>2. got # <<>>
      BY <1>4, <1>5, <2>1
    <3>3. Last(got) \in Keys
      <4>1. got[Len(got)] \in Keys
        BY <1>4, <3>2
      <4> QED BY <4>1 DEF Last
    <3>4. LastSeen(cursor[w].seen \o got) = LastSeen(file[j] \o got)
      BY <1>3, <1>4, LastSeenOfMore
    <3>5. LastSeen(file[j] \o got) \in Seq(Keys)
      <4>1. file[j] \o got \in Seq(Keys)
        BY <1>3, <1>4, ConcatProperties
      <4> QED BY <4>1, LastSeenIsEnd
    <3> QED BY <1>4, <3>1, <3>2, <3>3, <3>4, <3>5 DEF Cursor
  <2>2. CASE ~more
    <3>1. cur = Start
      BY <1>13, <2>2
    <3> QED BY <2>2, <3>1, EmptyFacts DEF Start, Cursor
  <2> QED BY <2>1, <2>2
<1>16. /\ cursor' \in [Readers -> Cursor] /\ cursor'[w] = cur
       /\ \A v \in Readers : v # w => cursor'[v] = cursor[v]
  BY <1>3, <1>14, <1>15
<1>17. TypeOK'
  BY <1>2, <1>10, <1>12, <1>16 DEF IInv, TypeOK, ReadTypeOK, CallBecomes, Becomes
<1>18. Others(w, j)
  BY <1>2, <1>10, <1>12, <1>16 DEF Others, CallBecomes, Becomes
<1>19. proc'[w] = p /\ call'[w] = NoCall
  BY <1>10, <1>12 DEF Becomes, CallBecomes
<1>20. Writing(w, file[j])'
  <2>1. Limit(w) <= BatchSize /\ proc[w].total + Limit(w) <= MaxRows /\ Limit(w) \in Nat
    BY <1>4, LimitFits
  <2>2. Len(got) <= BatchSize /\ proc[w].total + Len(got) <= MaxRows
    BY <1>3, <1>4, <2>1, Bounds
  <2>3. Spaced(file[j] \o got)
    BY <1>3, <1>4, FreshPageIsSpaced DEF JobOK
  <2>4. job' = job /\ file' = file
    BY <1>2
  <2> QED BY <1>4, <1>8, <1>15, <1>16, <1>19, <2>2, <2>3, <2>4 DEF Writing
<1>21. WorkerOK(w)'
  BY <1>2, <1>3, <1>8, <1>19, <1>20 DEF WorkerOK, At
<1>22. JobOK(j)'
  BY <1>2, <1>3 DEF JobOK, Pristine
<1>23. IInv'
  BY <1>1, <1>8, <1>17, <1>18, <1>19, <1>21, <1>22, OwnStepKeeps
<1> QED BY <1>1, <1>2, <1>4, <1>5, <1>8, <1>15, <1>16, <1>18, <1>19, <1>23 DEF Others

\* One handle.write.
LEMMA WriteItemKeeps ==
    ASSUME IInv, NEW w \in Readers, NEW j, j = proc[w].job, WriteItem(w)
    PROVE  /\ IInv' /\ UNCHANGED <<timeline, cursor, call, changes, job, used>>
           /\ At(w, "write") /\ proc'[w].phase = "write" /\ proc'[w].job = j
           /\ proc[w].page # <<>> /\ proc'[w].more = proc[w].more
           /\ j \in Jobs /\ file'[j] = Append(file[j], Head(proc[w].page))
           /\ proc'[w].page = Tail(proc[w].page)
           /\ Others(w, j)
<1>1. /\ At(w, "write") /\ proc[w].page # <<>> /\ UNCHANGED <<timeline, cursor, call, changes, job, used>>
      /\ file' = [file EXCEPT ![j] = Append(@, Head(proc[w].page))]
      /\ proc' = [proc EXCEPT ![w].page = Tail(@)]
  BY DEF WriteItem, readVars
<1>2. /\ WorkerOK(w) /\ Writing(w, file[j]) /\ j \in Jobs /\ JobOK(j) /\ proc[w].page \in Seq(Keys)
      /\ job[j].status \in {"running", "cancelled"} /\ job[j].rows \in Nat
      /\ file[j] \in Seq(Keys) /\ file \in [Jobs -> Seq(Keys)]
      /\ proc[w] \in Process /\ proc \in [Readers -> Process] /\ call[w] = NoCall
      /\ proc[w].items \in Nat /\ proc[w].total \in Nat
  BY <1>1, Typed DEF WorkerOK, At, AtWork, Row
<1>3. PICK f, page : f = Append(file[j], Head(proc[w].page)) /\ page = Tail(proc[w].page)
  OBVIOUS
<1>4. /\ page \in Seq(Keys) /\ Len(page) = Len(proc[w].page) - 1 /\ Len(proc[w].page) \in Nat \ {0}
      /\ f \in Seq(Keys) /\ Len(f) = Len(file[j]) + 1
      /\ f \o page = file[j] \o proc[w].page
  BY <1>1, <1>2, <1>3, WritingMoves
<1>5. PICK p : p = [proc[w] EXCEPT !.page = page]
  OBVIOUS
<1>6. /\ p \in Process /\ p.phase = "write" /\ p.page = page /\ p.items = proc[w].items
      /\ p.more = proc[w].more /\ p.job = j /\ p.total = proc[w].total
  BY <1>1, <1>2, <1>4, <1>5 DEF Process, At
<1>7. proc' = [proc EXCEPT ![w] = p]
  BY <1>1, <1>3, <1>5
<1>8. Becomes(w, p)
  BY <1>6, <1>7, ProcessBecomes
<1>9. file' \in [Jobs -> Seq(Keys)] /\ file'[j] = f /\ \A i \in Jobs : i # j => file'[i] = file[i]
  BY <1>1, <1>2, <1>3, <1>4
<1>10. TypeOK'
  BY <1>1, <1>8, <1>9 DEF IInv, TypeOK, ReadTypeOK, Becomes
<1>11. Others(w, j)
  BY <1>1, <1>8, <1>9 DEF Others, Becomes
<1>12. proc'[w] = p
  BY <1>8 DEF Becomes
<1>13. Len(file[j]) \in Nat /\ Len(page) \in Nat
  BY <1>2, <1>4
<1>14. Len(f) + Len(page) = proc[w].total + proc[w].items /\ Len(f) <= proc[w].total + proc[w].items
  <2>1. Len(file[j]) + Len(proc[w].page) = proc[w].total + proc[w].items
    BY <1>2 DEF Writing
  <2>2. PICK a, b, c, d : /\ a = Len(file[j]) /\ b = Len(proc[w].page)
                          /\ c = Len(f) /\ d = Len(page)
    OBVIOUS
  <2>3. a \in Nat /\ b \in Nat /\ c = a + 1 /\ d = b - 1 /\ d \in Nat
    BY <1>4, <1>13, <2>2
  <2>4. a + b = c + d /\ c <= c + d
    BY <2>3
  <2> QED BY <2>1, <2>2, <2>4
<1>15. Writing(w, f)'
  <2>1. Len(f) + Len(page) = proc[w].total + proc[w].items
    BY <1>14
  <2> QED BY <1>1, <1>2, <1>4, <1>6, <1>12, <2>1 DEF Writing
<1>16. WorkerOK(w)'
  BY <1>1, <1>2, <1>6, <1>9, <1>12, <1>15 DEF WorkerOK, At
<1>17. JobOK(j)'
  <2>1. Spaced(f)
    BY <1>2, <1>4, BeginningIsSpaced DEF Writing
  <2>2. job[j].rows <= Len(f) /\ Len(f) <= job[j].rows + BatchSize
    <3>1. Len(f) <= proc[w].total + proc[w].items
      BY <1>14
    <3>2. job[j].rows = proc[w].total /\ proc[w].items <= BatchSize /\ job[j].rows <= Len(file[j])
      BY <1>2 DEF Writing, JobOK
    <3> QED BY <1>2, <1>4, <1>13, <3>1, <3>2, Bounds
  <2> QED BY <1>1, <1>2, <1>9, <2>1, <2>2 DEF JobOK
<1>18. IInv'
  BY <1>6, <1>10, <1>11, <1>12, <1>16, <1>17, OwnStepKeeps
<1> QED BY <1>1, <1>2, <1>3, <1>6, <1>9, <1>11, <1>12, <1>18

\* The page is written.
LEMMA EndPageKeeps ==
    ASSUME IInv, NEW w \in Readers, NEW j, j = proc[w].job, EndPage(w)
    PROVE  /\ IInv' /\ UNCHANGED <<timeline, cursor, call, changes, job, file, used>>
           /\ At(w, "write") /\ proc[w].page = <<>> /\ proc'[w].job = j
           /\ proc'[w].phase = IF proc[w].more THEN "progress" ELSE "success"
           /\ Others(w, j)
<1>1. /\ At(w, "write") /\ proc[w].page = <<>>
      /\ UNCHANGED <<timeline, cursor, call, changes, job, file, used>>
      /\ proc' = [proc EXCEPT ![w].total = @ + proc[w].items,
                              ![w].phase = IF proc[w].more THEN "progress" ELSE "success"]
  BY DEF EndPage, readVars
<1>2. /\ WorkerOK(w) /\ Writing(w, file[j]) /\ j \in Jobs /\ JobOK(j)
      /\ file[j] \in Seq(Keys) /\ job[j].status \in {"running", "cancelled"}
      /\ proc[w] \in Process /\ proc \in [Readers -> Process] /\ call[w] = NoCall
      /\ proc[w].items \in Nat /\ proc[w].total \in Nat /\ proc[w].more \in BOOLEAN
  BY <1>1, Typed DEF WorkerOK, At, AtWork
<1>3. PICK total, phase : /\ total = proc[w].total + proc[w].items
                          /\ phase = IF proc[w].more THEN "progress" ELSE "success"
  OBVIOUS
<1>4. total \in Nat /\ phase \in {"progress", "success"}
  BY <1>2, <1>3
<1>5. PICK p : p = [proc[w] EXCEPT !.total = total, !.phase = phase]
  OBVIOUS
<1>6. /\ p \in Process /\ p.phase = phase /\ p.total = total /\ p.job = j
  BY <1>2, <1>4, <1>5 DEF Process, Phase
<1>7. proc' = [proc EXCEPT ![w] = p]
  BY <1>1, <1>2, <1>3, <1>5
<1>8. Becomes(w, p)
  BY <1>6, <1>7, ProcessBecomes
<1>9. TypeOK'
  BY <1>1, <1>8 DEF IInv, TypeOK, ReadTypeOK, Becomes
<1>10. Others(w, j)
  BY <1>1, <1>8 DEF Others, Becomes
<1>11. proc'[w] = p
  BY <1>8 DEF Becomes
<1>12. total = Len(file[j]) /\ total <= MaxRows
  <2>1. Len(proc[w].page) = 0 /\ Len(file[j]) \in Nat
    BY <1>1, <1>2
  <2> QED BY <1>2, <1>3, <2>1 DEF Writing
<1>13. proc[w].more => cursor[w].seen = LastSeen(file[j])
  <2>1. file[j] \o proc[w].page = file[j]
    BY <1>1, <1>2, ConcatEmptySeq
  <2> QED BY <1>2, <2>1 DEF Writing
<1>14. Written(w, file[j])'
  BY <1>1, <1>6, <1>11, <1>12 DEF Written
<1>15. WorkerOK(w)'
  BY <1>1, <1>2, <1>3, <1>4, <1>6, <1>11, <1>13, <1>14 DEF WorkerOK, At
<1>16. JobOK(j)'
  BY <1>1, <1>2 DEF JobOK, Pristine
<1>17. IInv'
  BY <1>6, <1>9, <1>10, <1>11, <1>15, <1>16, OwnStepKeeps
<1> QED BY <1>1, <1>3, <1>6, <1>10, <1>11, <1>17

\* updateProgress saves the total and the cursor.
LEMMA UpdateProgressKeeps ==
    ASSUME IInv, NEW w \in Readers, NEW j, j = proc[w].job, UpdateProgress(w)
    PROVE  /\ IInv' /\ UNCHANGED <<timeline, cursor, call, changes, file, used>>
           /\ At(w, "progress") /\ proc'[w].job = j /\ call[w] = NoCall
           /\ proc'[w].phase \in {"fetch", "success"}
           /\ Others(w, j)
<1>1. /\ At(w, "progress") /\ UNCHANGED <<timeline, cursor, call, changes, file, used>>
      /\ job' = [job EXCEPT ![j].rows = proc[w].total, ![j].cursor = cursor[w]]
  BY DEF UpdateProgress, readVars
<1>2. /\ WorkerOK(w) /\ Written(w, file[j]) /\ cursor[w].seen = LastSeen(file[j])
      /\ j \in Jobs /\ JobOK(j) /\ proc[w].total \in Nat /\ cursor[w] \in Cursor
      /\ file[j] \in Seq(Keys) /\ job[j].status \in {"running", "cancelled"}
      /\ job[j] \in Row /\ job \in [Jobs -> Row] /\ call[w] = NoCall
  BY <1>1, Typed DEF WorkerOK, At, AtWork
<1>3. PICK phase : phase = IF proc[w].total < MaxRows THEN "fetch" ELSE "success"
  OBVIOUS
<1>4. /\ Becomes(w, proc'[w]) /\ proc'[w].phase = phase
      /\ proc'[w].job = j /\ proc'[w].total = proc[w].total
  BY <1>3, GotoBecomes DEF UpdateProgress, Phase
<1>5. PICK x : x = [job[j] EXCEPT !.rows = proc[w].total, !.cursor = cursor[w]]
  OBVIOUS
<1>6. x \in Row /\ x.status = job[j].status /\ x.rows = proc[w].total
  BY <1>2, <1>5 DEF Row
<1>7. RowBecomes(j, x)
  BY <1>1, <1>2, <1>5, <1>6 DEF RowBecomes
<1>8. TypeOK'
  BY <1>1, <1>4, <1>7 DEF IInv, TypeOK, ReadTypeOK, Becomes, RowBecomes
<1>9. Others(w, j)
  BY <1>1, <1>4, <1>7 DEF Others, Becomes, RowBecomes
<1>10. job'[j] = x
  BY <1>7 DEF RowBecomes
<1>11. Written(w, file[j])'
  BY <1>1, <1>2, <1>4 DEF Written
<1>12. phase = "fetch" => Fetching(w, file[j])'
  <2>1. call'[w].limit = 0 /\ call'[w].collected = <<>> /\ ~call'[w].done
    BY <1>1, <1>2 DEF NoCall
  <2>2. Fresh(call'[w].collected, call'[w].limit, cursor'[w].seen)
    <3>1. \A seen : Fresh(<<>>, 0, seen)
      BY EmptyFacts
    <3> QED BY <2>1, <3>1
  <2>3. cursor'[w].seen = LastSeen(file'[j]) /\ proc[w].total = Len(file'[j])
    BY <1>1, <1>2 DEF Written
  <2> SUFFICES ASSUME phase = "fetch" PROVE Fetching(w, file[j])'
    OBVIOUS
  <2>4. proc[w].total < MaxRows
    BY <1>3
  <2> QED BY <1>4, <1>6, <1>10, <2>1, <2>2, <2>3, <2>4 DEF Fetching
<1>13. WorkerOK(w)'
  BY <1>1, <1>2, <1>3, <1>4, <1>6, <1>10, <1>11, <1>12 DEF WorkerOK, At, AtWork
<1>14. JobOK(j)'
  <2>1. proc[w].total <= Len(file[j]) /\ Len(file[j]) <= proc[w].total + BatchSize
    BY <1>2, Bounds DEF Written
  <2> QED BY <1>1, <1>2, <1>6, <1>10, <2>1 DEF JobOK
<1>15. IInv'
  BY <1>4, <1>8, <1>9, <1>13, <1>14, OwnStepKeeps
<1> QED BY <1>1, <1>2, <1>3, <1>4, <1>9, <1>15

-----------------------------------------------------------------------------
(* The invariant.                                                          *)

\* Nothing has been created, claimed or read.
LEMMA Initially ==
    ASSUME Init
    PROVE  IInv
<1>1. /\ timeline = FirstTimeline /\ cursor = [r \in Readers |-> Start]
      /\ call = [r \in Readers |-> NoCall] /\ changes = 0
      /\ job = [j \in Jobs |-> Absent] /\ file = [j \in Jobs |-> <<>>]
      /\ proc = [w \in Readers |-> Idle] /\ used = [faults |-> 0, stops |-> 0]
  BY DEF Init, ReadInit
<1>2. Start \in Cursor /\ NoCall \in Call
  BY EmptyFacts DEF Start, Cursor, NoCall, Call
<1>3. Absent \in Row
  BY <1>2 DEF Absent, Row
<1>4. Idle \in Process
  <2>1. "idle" \in Phase /\ <<>> \in Seq(Keys)
    BY EmptyFacts DEF Phase
  <2> QED BY <2>1 DEF Idle, Process
<1>5. TypeOK
  <2>1. cursor \in [Readers -> Cursor] /\ call \in [Readers -> Call]
    BY <1>1, <1>2
  <2>2. job \in [Jobs -> Row] /\ proc \in [Readers -> Process]
    BY <1>1, <1>3, <1>4
  <2>3. file \in [Jobs -> Seq(Keys)]
    BY <1>1, EmptyFacts
  <2>4. timeline \in Seq(Keys) /\ changes \in 0 .. MaxChanges
    BY <1>1, Bounds
  <2>5. used \in [faults : 0 .. MaxFaults, stops : 0 .. MaxStops]
    BY <1>1, Bounds
  <2> QED BY <2>1, <2>2, <2>3, <2>4, <2>5 DEF TypeOK, ReadTypeOK
<1>6. \A w \in Readers : proc[w].job = NoJob /\ At(w, "idle") /\ call[w] = NoCall
  BY <1>1 DEF Idle, At
<1>7. \A w \in Readers : WorkerOK(w)
  BY <1>6 DEF WorkerOK, At, AtWork
<1>8. ASSUME NEW j \in Jobs PROVE JobOK(j)
  <2>1. job[j].status = "absent" /\ Pristine(j)
    BY <1>1 DEF Absent, Pristine
  <2>2. Spaced(file[j])
    BY <2>1, EmptyFacts DEF Pristine
  <2> QED BY <2>1, <2>2 DEF JobOK
<1> QED BY <1>5, <1>6, <1>7, <1>8 DEF IInv, OneWorkerPerJob

\* A step of something else.
LEMMA StutterKeeps ==
    ASSUME IInv, UNCHANGED vars
    PROVE  IInv'
<1>1. UNCHANGED <<timeline, cursor, call, changes, job, file, proc, used>>
  BY DEF vars, readVars, jobVars
<1>2. ASSUME NEW w \in Readers PROVE WorkerOK(w)'
  <2>1. WorkerOK(w)
    BY DEF IInv
  <2> QED BY <1>1, <2>1 DEF WorkerOK, At, AtWork, Pristine, Fetching, Writing, Written, Limit
<1>3. \A j \in Jobs : JobOK(j)'
  BY <1>1 DEF IInv, JobOK, Pristine
<1>4. TypeOK' /\ OneWorkerPerJob'
  BY <1>1 DEF IInv, TypeOK, ReadTypeOK, OneWorkerPerJob
<1> QED BY <1>2, <1>3, <1>4 DEF IInv

\* One step of a user, of X, of a fault or of a process.
LEMMA StepKeeps ==
    ASSUME IInv, [Next]_vars
    PROVE  IInv'
<1>1. CASE UNCHANGED vars
  BY <1>1, StutterKeeps
<1>2. CASE UserStep
  BY <1>2, CreateKeeps, CancelKeeps DEF UserStep
<1>3. CASE TimelineChanges /\ UNCHANGED jobVars
  BY <1>3, TimelineKeeps
<1>4. ASSUME NEW w \in Readers,
             ClaimNext(w) \/ Stop(w) \/ Drained(w) \/ Restart(w) \/ FaultStep(w)
      PROVE  IInv'
  BY <1>4, ClaimKeeps, StopKeeps, RestartKeeps, EndStepKeeps, AwaitRejectsKeeps DEF FaultStep
<1>5. ASSUME NEW w \in Readers, WorkStep(w)
      PROVE  IInv'
  <2>1. PICK j : j = proc[w].job
    OBVIOUS
  <2>2. CASE OpenFile(w) \/ FetchPage(w) \/ PageArrives(w)
    BY <2>2, OpenFileKeeps, FetchPageKeeps, PageArrivesKeeps
  <2>3. CASE WriteItem(w) \/ EndPage(w) \/ UpdateProgress(w)
    BY <2>1, <2>3, WriteItemKeeps, EndPageKeeps, UpdateProgressKeeps
  <2>4. CASE MarkSuccess(w) \/ MarkFailure(w) \/ Close(w) \/ Rescue(w)
    BY <2>4, MarkSuccessKeeps, MarkFailureKeeps, CloseKeeps, RescueKeeps
  <2>5. CASE Scroll(w) /\ UNCHANGED jobVars
    BY <2>5, ScrollKeeps
  <2>6. \/ OpenFile(w) \/ FetchPage(w) \/ PageArrives(w)
        \/ WriteItem(w) \/ EndPage(w) \/ UpdateProgress(w)
        \/ MarkSuccess(w) \/ MarkFailure(w) \/ Close(w) \/ Rescue(w)
        \/ Scroll(w) /\ UNCHANGED jobVars
    BY <1>5 DEF WorkStep
  <2> QED BY <2>2, <2>3, <2>4, <2>5, <2>6
<1> QED BY <1>1, <1>2, <1>3, <1>4, <1>5 DEF Next

\* Whatever the surface does, and wherever calls fail, processes stop, die and start again
\* and users cancel, a process's memory, its cursor, the row and the file of its job agree
\* (ExtractionWorker.process).
THEOREM InductiveInvariant == Spec => []IInv
<1>1. Init => IInv
  BY Initially
<1>2. IInv /\ [Next]_vars => IInv'
  BY StepKeeps
<1> QED BY <1>1, <1>2, PTL DEF Spec

\* No two processes write one file; a succeeded row counts what its file holds, no more than
\* asked for; and the row of a job that is running or was cancelled never runs ahead of the
\* file, nor trails it by more than a page (ExtractionWorker.process and
\* ExtractionJobsRepository).
THEOREM FilesAreFaithful == Spec => []FileIsFaithful
<1>1. IInv => FileIsFaithful
  <2> SUFFICES ASSUME IInv PROVE FileIsFaithful
    OBVIOUS
  <2>1. OneWorkerPerJob /\ \A j \in Jobs : JobOK(j)
    BY DEF IInv
  <2> QED BY <2>1 DEF FileIsFaithful, SucceededIsWhole, ProgressTrailsFile, JobOK
<1> QED BY <1>1, InductiveInvariant, PTL

\* However X reorders the surface, an item comes back in the file only after SeenCap others:
\* the page drops what the cursor carries (paginate() and its seen list).
THEOREM RepeatsAreFarApart == Spec => []NoRepeatWithinCap
<1>1. IInv => NoRepeatWithinCap
  <2> SUFFICES ASSUME IInv PROVE NoRepeatWithinCap
    OBVIOUS
  <2>1. \A j \in Jobs : file[j] \in Seq(Keys) /\ Spaced(file[j])
    BY DEF IInv, TypeOK, JobOK
  <2>2. \A j \in Jobs : DOMAIN file[j] = 1 .. Len(file[j])
    BY <2>1
  <2> QED BY <2>1, <2>2 DEF NoRepeatWithinCap, Spaced
<1> QED BY <1>1, InductiveInvariant, PTL

-----------------------------------------------------------------------------
(* While X shows the same.                                                 *)

\* The parts of the beginning of a surface.
LEMMA CopiedParts ==
    ASSUME NEW f \in Seq(Keys), NEW g \in Seq(Keys)
    PROVE  Copied(f \o g) <=>
              /\ Len(f) + Len(g) <= Len(FirstTimeline)
              /\ \A i \in 1 .. Len(f) : f[i] = FirstTimeline[i]
              /\ \A i \in 1 .. Len(g) : g[i] = FirstTimeline[Len(f) + i]
<1>1. PICK s : s = f \o g
  OBVIOUS
<1>2. /\ Len(s) = Len(f) + Len(g) /\ Len(f) \in Nat /\ Len(g) \in Nat
      /\ \A i \in 1 .. Len(f) + Len(g) : s[i] = IF i <= Len(f) THEN f[i] ELSE g[i - Len(f)]
  BY <1>1, ConcatProperties
<1>3. \A i \in 1 .. Len(f) : i \in 1 .. Len(f) + Len(g) /\ s[i] = f[i]
  BY <1>2
<1>4. \A i \in 1 .. Len(g) : Len(f) + i \in 1 .. Len(f) + Len(g) /\ s[Len(f) + i] = g[i]
  <2> SUFFICES ASSUME NEW i \in 1 .. Len(g)
               PROVE  Len(f) + i \in 1 .. Len(f) + Len(g) /\ s[Len(f) + i] = g[i]
    OBVIOUS
  <2>1. Len(f) + i \in 1 .. Len(f) + Len(g) /\ ~(Len(f) + i <= Len(f)) /\ Len(f) + i - Len(f) = i
    BY <1>2
  <2> QED BY <1>2, <2>1
<1>5. \A i \in 1 .. Len(f) + Len(g) :
         \/ i \in 1 .. Len(f)
         \/ i - Len(f) \in 1 .. Len(g) /\ Len(f) + (i - Len(f)) = i
  BY <1>2
<1>6. ASSUME Copied(s)
      PROVE  /\ Len(f) + Len(g) <= Len(FirstTimeline)
             /\ \A i \in 1 .. Len(f) : f[i] = FirstTimeline[i]
             /\ \A i \in 1 .. Len(g) : g[i] = FirstTimeline[Len(f) + i]
  BY <1>2, <1>3, <1>4, <1>6 DEF Copied
<1>7. ASSUME /\ Len(f) + Len(g) <= Len(FirstTimeline)
             /\ \A i \in 1 .. Len(f) : f[i] = FirstTimeline[i]
             /\ \A i \in 1 .. Len(g) : g[i] = FirstTimeline[Len(f) + i]
      PROVE  Copied(s)
  <2>1. ASSUME NEW i \in 1 .. Len(s) PROVE s[i] = FirstTimeline[i]
    <3>1. CASE i \in 1 .. Len(f)
      BY <1>3, <1>7, <3>1
    <3>2. CASE i - Len(f) \in 1 .. Len(g) /\ Len(f) + (i - Len(f)) = i
      BY <1>4, <1>7, <3>2
    <3> QED BY <1>2, <1>5, <2>1, <3>1, <3>2
  <2> QED BY <1>2, <1>7, <2>1 DEF Copied
<1> QED BY <1>1, <1>6, <1>7

\* An item of the surface that is at most Window before the end of the file: the loop passes
\* over it exactly when the file and the page have come as far, and if they have just not,
\* it continues them.
LEMMA TakenInOrder ==
    ASSUME WindowFitsCap, NEW f \in Seq(Keys), NEW g \in Seq(Keys), Copied(f \o g),
           NEW i \in 1 .. Len(FirstTimeline), Len(f) < i + Window
    PROVE  /\ Contains(g, FirstTimeline[i]) \/ Contains(LastSeen(f), FirstTimeline[i])
                <=> i <= Len(f) + Len(g)
           /\ i = Len(f) + Len(g) + 1 => Copied(f \o Append(g, FirstTimeline[i]))
<1>1. PICK k : k = FirstTimeline[i]
  OBVIOUS
<1>2. /\ FirstTimeline \in Seq(Keys) /\ k \in Keys /\ Len(FirstTimeline) \in Nat
      /\ Len(f) \in Nat /\ Len(g) \in Nat /\ i \in Nat \ {0} /\ Window \in Nat /\ SeenCap \in Nat
      /\ Window <= SeenCap
      /\ \A m, n \in 1 .. Len(FirstTimeline) : FirstTimeline[m] = FirstTimeline[n] => m = n
  BY <1>1, Bounds DEF WindowFitsCap, IsInjective
<1>3. /\ Len(f) + Len(g) <= Len(FirstTimeline)
      /\ \A m \in 1 .. Len(f) : f[m] = FirstTimeline[m]
      /\ \A m \in 1 .. Len(g) : g[m] = FirstTimeline[Len(f) + m]
  BY CopiedParts
<1>4. ASSUME Contains(g, k)
      PROVE  i <= Len(f) + Len(g)
  <2>1. PICK m \in 1 .. Len(g) : g[m] = k
    BY <1>4 DEF Contains
  <2>2. Len(f) + m \in 1 .. Len(FirstTimeline) /\ FirstTimeline[Len(f) + m] = FirstTimeline[i]
    BY <1>1, <1>2, <1>3, <2>1
  <2>3. Len(f) + m = i
    BY <1>2, <2>2
  <2> QED BY <1>2, <2>3
<1>5. ASSUME Contains(LastSeen(f), k)
      PROVE  i <= Len(f) + Len(g)
  <2>1. PICK m \in 1 .. Len(f) : f[m] = k
    BY <1>5, CarriedIsOfFile
  <2>2. m \in 1 .. Len(FirstTimeline) /\ FirstTimeline[m] = FirstTimeline[i]
    BY <1>1, <1>2, <1>3, <2>1
  <2>3. m = i
    BY <1>2, <2>2
  <2> QED BY <1>2, <2>3
<1>6. ASSUME i <= Len(f) + Len(g)
      PROVE  Contains(g, k) \/ Contains(LastSeen(f), k)
  <2>1. CASE i <= Len(f)
    <3>1. i \in 1 .. Len(f) /\ f[i] = k /\ Len(f) - i < SeenCap
      BY <1>1, <1>2, <1>3, <2>1
    <3> QED BY <3>1, CarriedIsRecent
  <2>2. CASE ~(i <= Len(f))
    <3>1. i - Len(f) \in 1 .. Len(g) /\ Len(f) + (i - Len(f)) = i
      BY <1>2, <1>6, <2>2
    <3>2. g[i - Len(f)] = k
      BY <1>1, <1>3, <3>1
    <3> QED BY <3>1, <3>2 DEF Contains
  <2> QED BY <2>1, <2>2
<1>7. ASSUME i = Len(f) + Len(g) + 1
      PROVE  Copied(f \o Append(g, k))
  <2>1. PICK h : h = Append(g, k)
    OBVIOUS
  <2>2. /\ h \in Seq(Keys) /\ Len(h) = Len(g) + 1
        /\ \A m \in 1 .. Len(g) : h[m] = g[m]
        /\ h[Len(g) + 1] = k
    BY <1>2, <2>1, AppendProperties
  <2>3. Len(f) + Len(h) <= Len(FirstTimeline)
    BY <1>2, <1>7, <2>2
  <2>4. ASSUME NEW m \in 1 .. Len(h) PROVE h[m] = FirstTimeline[Len(f) + m]
    <3>1. CASE m \in 1 .. Len(g)
      BY <1>3, <2>2, <3>1
    <3>2. CASE m = Len(g) + 1
      <4>1. Len(f) + m = i
        BY <1>2, <1>7, <3>2
      <4> QED BY <1>1, <2>2, <3>2, <4>1
    <3> QED BY <1>2, <2>2, <3>1, <3>2
  <2>5. Copied(f \o h)
    BY <1>3, <2>2, <2>3, <2>4, CopiedParts
  <2> QED BY <2>1, <2>5
<1> QED BY <1>1, <1>4, <1>5, <1>6, <1>7

\* What a call may have collected when it has gone over the surface up to item i from item a
\* on: it ends there, or the page is full, of items that it went over.
Reached(f, g, limit, a, i) ==
    /\ Copied(f \o g) /\ Len(g) <= limit
    /\ Len(g) = limit => a < Len(f) + Len(g) /\ Len(f) + Len(g) <= i
    /\ Len(g) # limit => i <= Len(f) + Len(g)

\* What the loop collects from such items continues the file and the page.
LEMMA CollectContinues ==
    ASSUME WindowFitsCap, NEW r, NEW f \in Seq(Keys), NEW items \in Seq(Keys), NEW a \in Nat,
           NEW limit \in Nat, limit = call[r].limit,
           call[r].collected \in Seq(Keys), cursor[r].seen = LastSeen(f),
           Reached(f, call[r].collected, limit, a, a), Len(call[r].collected) # limit,
           Len(f) <= a + Window, a + Len(items) <= Len(FirstTimeline),
           \A m \in 1 .. Len(items) : items[m] = FirstTimeline[a + m]
    PROVE  Reached(f, Collect(r, items), limit, a, a + Len(items))
<1>1. PICK n : n = Len(items)
  OBVIOUS
<1>2. /\ n \in Nat /\ \A i \in 1 .. n : items[i] = FirstTimeline[a + i] /\ a + i \in 1 .. Len(FirstTimeline)
      /\ Len(f) \in Nat /\ Window \in Nat \ {0} /\ Len(FirstTimeline) \in Nat
      /\ \A i \in 1 .. n : items[i] \in Keys
  BY <1>1, Bounds
<1>3. PICK good : good = [i \in 0 .. n |-> {g \in Seq(Keys) : Reached(f, g, limit, a, a + i)}]
  OBVIOUS
<1>4. \A i \in 0 .. n : \A g : g \in good[i] <=> g \in Seq(Keys) /\ Reached(f, g, limit, a, a + i)
  BY <1>3
<1>5. ASSUME NEW i \in 1 .. n, NEW g \in good[i - 1]
      PROVE  IF Skips(r, g, items[i]) THEN g \in good[i] ELSE Append(g, items[i]) \in good[i]
  <2>1. i \in 0 .. n /\ i - 1 \in 0 .. n /\ i \in Nat \ {0}
    BY <1>2
  <2>2. g \in Seq(Keys) /\ Reached(f, g, limit, a, a + (i - 1)) /\ Len(g) \in Nat
    BY <1>4, <2>1
  <2>3. PICK p, k : p = a + i /\ k = items[i]
    OBVIOUS
  <2>4. /\ p \in 1 .. Len(FirstTimeline) /\ k = FirstTimeline[p] /\ k \in Keys
        /\ a + (i - 1) = p - 1 /\ a < p /\ Len(f) < p + Window
    BY <1>2, <2>1, <2>3
  <2>5. /\ Copied(f \o g) /\ Len(g) <= limit
        /\ Len(g) = limit => a < Len(f) + Len(g) /\ Len(f) + Len(g) <= p - 1
        /\ Len(g) # limit => p - 1 <= Len(f) + Len(g)
    BY <2>2, <2>4 DEF Reached
  <2>6. /\ Contains(g, k) \/ Contains(LastSeen(f), k) <=> p <= Len(f) + Len(g)
        /\ p = Len(f) + Len(g) + 1 => Copied(f \o Append(g, k))
    BY <2>2, <2>4, <2>5, TakenInOrder
  <2>7. Skips(r, g, k) <=> Len(g) = limit \/ p <= Len(f) + Len(g)
    BY <2>6 DEF Skips
  <2>8. CASE Skips(r, g, k)
    <3>1. Reached(f, g, limit, a, p)
      <4>1. CASE Len(g) = limit
        <5>1. PICK x, y : x = Len(f) /\ y = Len(g)
          OBVIOUS
        <5>2. x + y \in Int /\ a < x + y /\ x + y <= p - 1 /\ p \in Nat
          BY <1>2, <2>2, <2>4, <2>5, <4>1, <5>1, SMTT(30)
        <5>3. x + y <= p
          BY <5>2
        <5> QED BY <2>5, <4>1, <5>1, <5>2, <5>3 DEF Reached
      <4>2. CASE Len(g) # limit
        BY <2>5, <2>7, <2>8, <4>2 DEF Reached
      <4> QED BY <4>1, <4>2
    <3>2. g \in good[i]
      BY <1>4, <2>1, <2>2, <2>3, <3>1
    <3> QED BY <2>3, <2>8, <3>2
  <2>9. CASE ~Skips(r, g, k)
    <3>1. Len(g) # limit /\ p = Len(f) + Len(g) + 1 /\ Len(g) + 1 <= limit
      <4>1. PICK x, y : x = Len(f) /\ y = Len(g)
        OBVIOUS
      <4>2. x \in Nat /\ y \in Nat /\ p \in Nat /\ y # limit /\ ~(p <= x + y)
        BY <1>2, <2>2, <2>4, <2>7, <2>9, <4>1, SMTT(30)
      <4>3. p - 1 <= x + y /\ y <= limit
        BY <2>5, <4>1, <4>2
      <4>4. p = x + y + 1 /\ y + 1 <= limit
        BY <4>2, <4>3
      <4> QED BY <4>1, <4>2, <4>4
    <3>2. PICK h : h = Append(g, k)
      OBVIOUS
    <3>3. h \in Seq(Keys) /\ Len(h) = Len(g) + 1 /\ Copied(f \o h)
      BY <2>2, <2>4, <2>6, <3>1, <3>2, AppendProperties
    <3>4. Len(f) + Len(h) = p
      BY <1>2, <2>2, <3>1, <3>3
    <3>5. a < p /\ p <= p
      BY <1>2, <2>4
    <3>6. Reached(f, h, limit, a, p)
      BY <3>1, <3>3, <3>4, <3>5 DEF Reached
    <3>7. h \in good[i]
      BY <1>4, <2>1, <2>3, <3>3, <3>6
    <3> QED BY <2>3, <2>9, <3>2, <3>7
  <2> QED BY <2>3, <2>8, <2>9
<1>6. 0 \in 0 .. n /\ n \in 0 .. n /\ a + 0 = a
  BY <1>2
<1>7. call[r].collected \in good[0]
  BY <1>4, <1>6
<1>8. Collect(r, items) \in good[n]
  BY <1>1, <1>2, <1>5, <1>7, CollectKeeps
<1> QED BY <1>1, <1>4, <1>6, <1>8

\* The items are those of the surface up to the bottom of the window, from its top on or from
\* the end of the file f; the window of the call c starts no later than where f and the page
\* end, and no more than its size before the end of f.
Continues(f, c, items) ==
    \E a \in Nat :
        /\ Top(c.depth) <= a /\ a <= Len(f) + Len(c.collected)
        /\ Len(f) <= Top(c.depth) + Window
        /\ a + Len(items) = Bottom(c.depth)
        /\ \A m \in 1 .. Len(items) : items[m] = FirstTimeline[a + m]

\* The candidates of an iteration, after the one at which the cursor resumes, are such items.
LEMMA CandidatesAreNext ==
    ASSUME IInv, StableInv, changes = 0, WindowFitsCap, NEW w \in Readers, NEW j, j = proc[w].job,
           At(w, "fetch"), call[w].limit > 0, ~call[w].done,
           NEW new \in Call, NEW items \in Seq(Keys), Scrolls(w, new, items)
    PROVE  new.skip = NoKey /\ Continues(file[j], call[w], items)
<1>1. PICK f, c, d, all : f = file[j] /\ c = call[w] /\ d = c.depth /\ all = Rendered(d)
  OBVIOUS
<1>2. /\ timeline = FirstTimeline /\ StableWorker(w) /\ f \in Seq(Keys) /\ c \in Call
      /\ Len(f) \in Nat /\ cursor[w] \in Cursor
  BY <1>1, Typed DEF StableInv, At
<1>3. /\ Resumes(cursor[w], Len(f)) /\ Copied(f \o c.collected) /\ InPlace(c, cursor[w], Len(f))
  BY <1>1, <1>2 DEF StableWorker
<1>4. /\ d \in Nat /\ c.collected \in Seq(Keys) /\ Len(c.collected) \in Nat
      /\ Window \in Nat /\ FirstTimeline \in Seq(Keys)
  <2>1. c.depth \in Nat /\ c.collected \in Seq(Keys)
    BY <1>2 DEF Call
  <2> QED BY <1>1, <2>1, Bounds
<1>5. PICK top, bottom : top = Top(d) /\ bottom = Bottom(d)
  OBVIOUS
<1> DEFINE From(a) == /\ top <= a /\ a <= Len(f) + Len(c.collected)
                      /\ Len(f) <= top + Window
                      /\ a + Len(items) = bottom
                      /\ \A m \in 1 .. Len(items) : items[m] = FirstTimeline[a + m]
<1> SUFFICES new.skip = NoKey /\ \E a \in Nat : From(a)
  BY <1>1, <1>5 DEF Continues
<1>6. /\ top \in Nat /\ bottom \in Nat /\ top <= bottom /\ bottom <= Len(FirstTimeline)
      /\ bottom <= top + Window
  BY <1>2, <1>4, <1>5, TopAndBottom
<1>7. /\ all \in Seq(Keys) /\ Len(all) = bottom - top
      /\ \A i \in 1 .. bottom - top : all[i] = FirstTimeline[top + i]
  BY <1>1, <1>2, <1>4, <1>5, RenderedIsWindow
<1>8. \/ /\ new.skip = NoKey /\ (c.skip = NoKey \/ Contains(all, c.skip)) /\ items = After(all, c.skip)
      \/ c.skip # NoKey /\ ~Contains(all, c.skip)
  BY <1>1 DEF Scrolls
<1>9. CASE c.skip = NoKey
  <2>1. new.skip = NoKey /\ items = all
    BY <1>8, <1>9 DEF After
  <2>2. top <= Len(f) + Len(c.collected) /\ Len(f) <= top + Window
    BY <1>1, <1>3, <1>5, <1>9 DEF InPlace
  <2>3. top + Len(items) = bottom
    BY <1>6, <1>7, <2>1
  <2>4. \A m \in 1 .. Len(items) : items[m] = FirstTimeline[top + m]
    BY <1>6, <1>7, <2>1
  <2>5. From(top)
    BY <1>6, <2>2, <2>3, <2>4
  <2> HIDE DEF From
  <2> QED BY <1>6, <2>1, <2>5
<1>10. CASE c.skip # NoKey
  <2>1. c.skip = cursor[w].key /\ d = cursor[w].depth /\ c.collected = <<>>
    BY <1>1, <1>3, <1>10 DEF InPlace
  <2>2. Len(f) # 0 /\ c.skip = FirstTimeline[Len(f)] /\ top < Len(f) /\ Len(f) <= bottom
    BY <1>3, <1>5, <1>10, <2>1 DEF Resumes, Shows
  <2>3. Len(f) - top \in 1 .. bottom - top /\ top + (Len(f) - top) = Len(f)
    BY <1>2, <1>6, <2>2
  <2>4. all[Len(f) - top] = c.skip
    BY <1>7, <2>2, <2>3
  <2>5. Contains(all, c.skip)
    BY <1>7, <2>3, <2>4 DEF Contains
  <2>6. new.skip = NoKey /\ items = After(all, c.skip)
    BY <1>8, <2>5
  <2>7. PICK i \in 1 .. Len(all) : items = SubSeq(all, i + 1, Len(all)) /\ all[i] = c.skip
    BY <1>7, <1>10, <2>5, <2>6, AfterIsSuffix
  <2>8. i \in Nat /\ top + i = Len(f)
    <3>1. i \in 1 .. bottom - top /\ FirstTimeline[top + i] = FirstTimeline[Len(f)]
      BY <1>6, <1>7, <2>2, <2>7
    <3>2. Len(f) \in 1 .. Len(FirstTimeline)
      BY <1>2, <1>6, <2>2
    <3>3. i \in Nat /\ top + i \in 1 .. Len(FirstTimeline)
      BY <1>4, <1>6, <3>1
    <3> QED BY <1>4, <3>1, <3>2, <3>3 DEF WindowFitsCap, IsInjective
  <2>9. PICK q, n : q = i + 1 /\ n = bottom - top
    OBVIOUS
  <2>10. q \in Int /\ n \in Int /\ n - q + 1 = bottom - Len(f) /\ bottom - Len(f) \in Nat
    <3>1. PICK x : x = Len(f)
      OBVIOUS
    <3>2. x \in Nat /\ top + i = x /\ x <= bottom /\ q = i + 1 /\ n = bottom - top
      BY <1>2, <2>2, <2>8, <2>9, <3>1
    <3>3. i \in Nat /\ top \in Nat /\ bottom \in Nat
      BY <1>6, <2>8
    <3>4. q \in Int /\ n \in Int /\ n - q + 1 = bottom - x /\ bottom - x \in Nat
      BY <3>2, <3>3
    <3> QED BY <3>1, <3>4
  <2>11. \A m \in q .. n : all[m] \in Keys
    BY <1>7, <2>8, <2>9
  <2>12. /\ Len(SubSeq(all, q, n)) = IF q <= n THEN n - q + 1 ELSE 0
         /\ \A m \in 1 .. n - q + 1 : SubSeq(all, q, n)[m] = all[q + m - 1]
    BY <2>10, <2>11, SubSeqProperties
  <2>13. items = SubSeq(all, q, n)
    BY <1>7, <2>7, <2>9
  <2>14. Len(items) = bottom - Len(f)
    BY <2>10, <2>12, <2>13
  <2>15. ASSUME NEW m \in 1 .. Len(items) PROVE items[m] = FirstTimeline[Len(f) + m]
    <3>1. m \in 1 .. n - q + 1 /\ q + m - 1 \in 1 .. bottom - top /\ top + (q + m - 1) = Len(f) + m
      <4>1. PICK x : x = Len(f)
        OBVIOUS
      <4>2. /\ x \in Nat /\ top + i = x /\ x <= bottom /\ q = i + 1 /\ n = bottom - top
            /\ m \in 1 .. bottom - x
        BY <1>2, <2>2, <2>8, <2>9, <2>14, <4>1
      <4>3. m \in 1 .. n - q + 1 /\ q + m - 1 \in 1 .. bottom - top /\ top + (q + m - 1) = x + m
        <5>1. top \in Int /\ bottom \in Int /\ i \in Int /\ m \in Int /\ i >= 0
          BY <1>6, <2>8
        <5>0. x = top + i /\ q = i + 1 /\ n = bottom - top /\ 1 <= m /\ m <= bottom - x
          BY <4>2, <5>1
        <5>2. n - q + 1 = bottom - x /\ q + m - 1 = i + m
          BY <5>0, <5>1
        <5>3. 1 <= i + m /\ i + m <= bottom - top /\ i + m \in Int /\ top + (i + m) = x + m
          BY <5>0, <5>1
        <5> QED BY <4>2, <5>2, <5>3
      <4> QED BY <4>1, <4>3
    <3>2. items[m] = all[q + m - 1] /\ all[q + m - 1] = FirstTimeline[top + (q + m - 1)]
      BY <1>7, <2>12, <2>13, <3>1
    <3> QED BY <3>1, <3>2
  <2>16. /\ top <= Len(f) /\ Len(f) <= Len(f) + Len(c.collected) /\ Len(f) <= top + Window
         /\ Len(f) + Len(items) = bottom
    <3>1. PICK x, y, l : x = Len(f) /\ y = Len(c.collected) /\ l = Len(items)
      OBVIOUS
    <3>2. x \in Nat /\ y \in Nat /\ top < x /\ x <= bottom /\ l = bottom - x
      BY <1>2, <1>4, <2>2, <2>14, <3>1
    <3>3. Window \in Nat
      BY Bounds
    <3>4. top <= x /\ x <= x + y /\ x <= top + Window /\ x + l = bottom
      BY <1>6, <3>2, <3>3
    <3> QED BY <3>1, <3>4
  <2>17. From(Len(f))
    BY <2>15, <2>16
  <2> HIDE DEF From
  <2> QED BY <1>2, <2>6, <2>17
<1> QED BY <1>9, <1>10

\* A step of process w, while X shows the same, leaves the other processes and files in place.
LEMMA StableOthersKeep ==
    ASSUME IInv, StableInv, changes = 0, NEW w \in Readers, NEW j, j = proc[w].job, Others(w, j),
           UNCHANGED <<timeline, changes>>,
           StableWorker(w)', j \in Jobs => Copied(file'[j])
    PROVE  StableInv'
<1>1. /\ timeline = FirstTimeline /\ \A v \in Readers : StableWorker(v)
      /\ \A i \in Jobs : Copied(file[i])
  BY DEF StableInv
<1>2. ASSUME NEW v \in Readers PROVE StableWorker(v)'
  <2>1. CASE v = w
    BY <2>1
  <2>2. CASE v # w
    <3>1. proc'[v] = proc[v] /\ call'[v] = call[v] /\ cursor'[v] = cursor[v]
      BY <2>2 DEF Others
    <3>2. StableWorker(v) /\ WorkerOK(v)
      BY <1>1, Typed
    <3>3. PICK i : i = proc[v].job
      OBVIOUS
    <3>4. CASE At(v, "idle")
      BY <3>1, <3>4 DEF StableWorker, At
    <3>5. CASE ~At(v, "idle")
      <4>1. i \in Jobs /\ i # NoJob
        BY <3>2, <3>3, <3>5, JobsAreNumbers DEF WorkerOK
      <4>2. i # j
        BY <2>2, <3>3, <4>1 DEF IInv, OneWorkerPerJob
      <4>3. file'[i] = file[i]
        BY <4>1, <4>2 DEF Others
      <4>4. \A d, n : Shows(d, n)' <=> Shows(d, n)
        BY DEF Shows, Top, Bottom, End
      <4>5. \A d : Top(d)' = Top(d)
        BY DEF Top, End
      <4>6. \A n : Resumes(cursor[v], n)' <=> Resumes(cursor[v], n)
        BY <3>1, <4>4 DEF Resumes
      <4>7. \A n : InPlace(call[v], cursor[v], n)' <=> InPlace(call[v], cursor[v], n)
        BY <3>1, <4>4, <4>5 DEF InPlace
      <4> QED BY <3>1, <3>2, <3>3, <4>3, <4>6, <4>7 DEF StableWorker, At
    <3> QED BY <3>4, <3>5
  <2> QED BY <2>1, <2>2
<1>3. ASSUME NEW i \in Jobs PROVE Copied(file'[i])
  <2>1. CASE i = j
    BY <2>1
  <2>2. CASE i # j
    BY <1>1, <2>2 DEF Others
  <2> QED BY <2>1, <2>2
<1> QED BY <1>1, <1>2, <1>3 DEF StableInv

\* What does not write a file and leaves w without a page.
LEMMA QuietStepKeeps ==
    ASSUME StableInv, NEW w \in Readers, UNCHANGED <<timeline, changes, file>>,
           \A v \in Readers : v # w => /\ proc'[v] = proc[v] /\ call'[v] = call[v]
                                       /\ cursor'[v] = cursor[v],
           proc'[w].phase \notin {"fetch", "write", "progress"}
    PROVE  StableInv'
<1> SUFFICES ASSUME changes = 0 PROVE StableInv'
  BY DEF StableInv
<1>1. /\ timeline = FirstTimeline /\ \A v \in Readers : StableWorker(v)
      /\ \A i \in Jobs : Copied(file[i])
  BY DEF StableInv
<1>2. ASSUME NEW v \in Readers PROVE StableWorker(v)'
  <2>1. CASE v = w
    BY <2>1 DEF StableWorker, At
  <2>2. CASE v # w
    <3>1. StableWorker(v) /\ proc'[v] = proc[v] /\ call'[v] = call[v] /\ cursor'[v] = cursor[v]
      BY <1>1, <2>2
    <3> QED BY <3>1 DEF StableWorker, At, Resumes, InPlace, Shows, Top, Bottom, End
  <2> QED BY <2>1, <2>2
<1> QED BY <1>1, <1>2 DEF StableInv

\* What moves no process with its job, nor its read.
LEMMA StillStepKeeps ==
    ASSUME StableInv, UNCHANGED <<timeline, cursor, call, changes, file>>,
           \A v \in Readers : /\ proc'[v].phase = proc[v].phase /\ proc'[v].job = proc[v].job
                              /\ proc'[v].page = proc[v].page /\ proc'[v].more = proc[v].more
    PROVE  StableInv'
<1> SUFFICES ASSUME changes = 0 PROVE StableInv'
  BY DEF StableInv
<1>1. /\ timeline = FirstTimeline /\ \A v \in Readers : StableWorker(v)
      /\ \A i \in Jobs : Copied(file[i])
  BY DEF StableInv
<1>2. ASSUME NEW v \in Readers PROVE StableWorker(v)'
  <2>1. StableWorker(v)
    BY <1>1
  <2> QED BY <2>1 DEF StableWorker, At, Resumes, InPlace, Shows, Top, Bottom, End
<1> QED BY <1>1, <1>2 DEF StableInv

LEMMA OpenFileStable ==
    ASSUME IInv, StableInv, changes = 0, NEW w \in Readers, OpenFile(w)
    PROVE  StableInv'
<1>1. PICK j : j = proc[w].job
  OBVIOUS
<1>2. /\ UNCHANGED <<timeline, call, changes, job, file>>
      /\ proc'[w].phase = "fetch" /\ proc'[w].job = j /\ Becomes(w, proc'[w])
      /\ cursor'[w] = Start /\ file[j] = <<>> /\ call[w] = NoCall
      /\ \A v \in Readers : v # w => cursor'[v] = cursor[v]
  BY <1>1, OpenFileKeeps
<1>3. Others(w, j)
  BY <1>2 DEF Others, Becomes
<1>4. Resumes(cursor[w], Len(file[j]))'
  BY <1>2, EmptyFacts DEF Resumes, Start
<1>5. call'[w].limit = 0
  BY <1>2 DEF NoCall
<1>6. StableWorker(w)'
  BY <1>2, <1>4, <1>5 DEF StableWorker, At
<1>7. j \in Jobs => Copied(file'[j])
  BY <1>2 DEF StableInv
<1> QED BY <1>1, <1>2, <1>3, <1>6, <1>7, StableOthersKeep

LEMMA FetchPageStable ==
    ASSUME IInv, StableInv, changes = 0, NEW w \in Readers, FetchPage(w)
    PROVE  StableInv'
<1>1. PICK j, f, c, cur : j = proc[w].job /\ f = file[j] /\ c = call'[w] /\ cur = cursor[w]
  OBVIOUS
<1>2. /\ UNCHANGED <<timeline, cursor, changes, job, file, proc, used>>
      /\ At(w, "fetch") /\ CallBecomes(w, c) /\ c.limit # 0 /\ ~c.done
      /\ c.skip = cur.key /\ c.depth = cur.depth /\ c.collected = <<>>
  BY <1>1, FetchPageKeeps
<1>3. /\ timeline = FirstTimeline /\ Resumes(cur, Len(f)) /\ f \in Seq(Keys) /\ Copied(f)
      /\ Len(f) \in Nat /\ Window \in Nat \ {0} /\ j \in Jobs
  <2>1. j \in Jobs /\ f \in Seq(Keys)
    BY <1>1, <1>2, Typed DEF At
  <2>2. timeline = FirstTimeline /\ StableWorker(w) /\ Copied(f)
    BY <1>1, <2>1 DEF StableInv
  <2>3. Resumes(cur, Len(f))
    BY <1>1, <1>2, <2>2 DEF StableWorker
  <2> QED BY <2>1, <2>2, <2>3, Bounds
<1>4. Others(w, j)
  BY <1>2 DEF Others, CallBecomes
<1>5. Copied(f \o c.collected)
  BY <1>2, <1>3, ConcatEmptySeq
<1>6. InPlace(c, cur, Len(f))'
  <2>1. Len(c.collected) = 0
    BY <1>2, EmptyFacts
  <2>2. c.skip = NoKey => Top(c.depth)' <= Len(f) + Len(c.collected) /\ Len(f) <= Top(c.depth)' + Window
    <3> SUFFICES ASSUME c.skip = NoKey
                 PROVE  Top(c.depth)' <= Len(f) + Len(c.collected) /\ Len(f) <= Top(c.depth)' + Window
      OBVIOUS
    <3>1. Len(f) = 0
      <4>1. CASE Len(f) # 0
        <5>1. NoKey = FirstTimeline[Len(f)] /\ Len(f) \in 1 .. Len(FirstTimeline)
          BY <1>2, <1>3, <4>1 DEF Resumes, Copied
        <5> QED BY <5>1, Bounds
      <4> QED BY <4>1
    <3>2. c.depth = 0
      BY <1>2, <1>3, <3>1 DEF Resumes
    <3>3. Top(c.depth)' = 0
      <4>1. Len(timeline) \in Nat
        BY <1>3, Bounds
      <4>2. End \in Nat
        BY <1>3, <4>1 DEF End
      <4>3. End' = End
        BY <1>2 DEF End
      <4> QED BY <3>2, <4>2, <4>3 DEF Top
    <3> QED BY <1>3, <2>1, <3>1, <3>3
  <2> QED BY <1>2, <2>1, <2>2 DEF InPlace
<1>7. Resumes(cur, Len(f))'
  BY <1>2, <1>3 DEF Resumes, Shows, Top, Bottom, End
<1>8. call'[w] = c /\ cursor'[w] = cur /\ file'[j] = f /\ proc'[w].job = j /\ proc'[w].phase = "fetch"
  BY <1>1, <1>2 DEF At
<1>9. StableWorker(w)'
  BY <1>5, <1>6, <1>7, <1>8 DEF StableWorker, At
<1> QED BY <1>1, <1>2, <1>3, <1>4, <1>8, <1>9, StableOthersKeep

LEMMA ScrollStable ==
    ASSUME IInv, StableInv, changes = 0, WindowFitsCap, NEW w \in Readers,
           Scroll(w), UNCHANGED jobVars
    PROVE  StableInv'
<1>1. PICK j, f, cur : j = proc[w].job /\ f = file[j] /\ cur = cursor[w]
  OBVIOUS
<1>2. /\ UNCHANGED <<timeline, cursor, changes, job, file, proc, used>>
      /\ At(w, "fetch") /\ call[w].limit > 0 /\ ~call[w].done
  BY ScrollKeeps
<1>3. /\ timeline = FirstTimeline /\ f \in Seq(Keys) /\ j \in Jobs /\ Len(f) \in Nat
      /\ call \in [Readers -> Call] /\ call[w] \in Call /\ cur.seen = LastSeen(f)
      /\ Fresh(call[w].collected, call[w].limit, cur.seen) /\ StableWorker(w)
  BY <1>1, <1>2, Typed DEF StableInv, At, WorkerOK, Fetching
<1>4. /\ Resumes(cur, Len(f)) /\ Copied(f \o call[w].collected)
      /\ Len(call[w].collected) # call[w].limit
  BY <1>1, <1>2, <1>3 DEF StableWorker, InPlace
<1>5. PICK c \in Call, items \in Seq(Keys) : Scrolls(w, c, items)
  BY ScrollDoes DEF IInv, TypeOK
<1>6. PICK got, limit, d : got = call[w].collected /\ limit = call[w].limit /\ d = call[w].depth
  OBVIOUS
<1>7. got \in Seq(Keys) /\ limit \in Nat /\ d \in Nat /\ Len(got) \in Nat /\ Len(got) <= limit
  BY <1>3, <1>6 DEF Call, Fresh
<1>8. /\ call' = [call EXCEPT ![w] = c] /\ c.limit = limit /\ c.collected = Collect(w, items)
      /\ Len(c.collected) = limit => c.done /\ c.depth = d
      /\ Len(c.collected) # limit /\ ~c.done => c.depth = d + 1
  BY <1>5, <1>6 DEF Scrolls
<1>9. PICK top, bottom, next : top = Top(d) /\ bottom = Bottom(d) /\ next = Top(d + 1)
  OBVIOUS
<1>10. /\ top \in Nat /\ bottom \in Nat /\ next \in Nat /\ Window \in Nat
       /\ top <= bottom /\ bottom <= Len(FirstTimeline) /\ top <= next /\ next <= bottom
  <2>1. d + 1 \in Nat
    BY <1>7
  <2> QED BY <1>3, <1>7, <1>9, <2>1, TopAndBottom, Bounds
<1>11. c.skip = NoKey /\ Continues(f, call[w], items)
  <2>1. c.skip = NoKey /\ Continues(file[j], call[w], items)
    BY <1>1, <1>2, <1>5, CandidatesAreNext
  <2> QED BY <1>1, <2>1
<1>12. PICK a \in Nat : /\ top <= a /\ a <= Len(f) + Len(got) /\ Len(f) <= top + Window
                        /\ a + Len(items) = bottom
                        /\ \A m \in 1 .. Len(items) : items[m] = FirstTimeline[a + m]
  BY <1>6, <1>9, <1>11 DEF Continues
<1>13. Reached(f, got, limit, a, a)
  BY <1>4, <1>6, <1>7, <1>12 DEF Reached
<1>14. Reached(f, c.collected, limit, a, bottom)
  <2>1. Len(f) <= a + Window
    BY <1>3, <1>10, <1>12
  <2>2. cursor[w].seen = LastSeen(f)
    BY <1>1, <1>3
  <2>3. Reached(f, Collect(w, items), limit, a, a + Len(items))
    BY <1>3, <1>4, <1>6, <1>7, <1>10, <1>12, <1>13, <2>1, <2>2, CollectContinues
  <2> QED BY <1>8, <1>12, <2>3
<1>15. PICK n : n = Len(f) + Len(c.collected)
  OBVIOUS
<1>16. /\ Copied(f \o c.collected)
       /\ Len(c.collected) = limit => a < n /\ n <= bottom
       /\ Len(c.collected) # limit => bottom <= n
  BY <1>14, <1>15 DEF Reached
<1>17. n \in Nat /\ Len(c.collected) \in Nat
  <2>1. c.collected \in Seq(Keys)
    BY DEF Call
  <2> QED BY <1>3, <1>15, <2>1
<1>18. /\ Len(c.collected) = limit => Shows(d, n)
       /\ Len(c.collected) # limit => next <= n /\ Len(f) <= next + Window
  BY <1>3, <1>9, <1>10, <1>12, <1>16, <1>17, SMTT(20) DEF Shows
<1>19. InPlace(c, cur, Len(f))
  <2>1. c.skip = NoKey /\ ~c.done => Top(c.depth) <= n /\ Len(f) <= Top(c.depth) + Window
    BY <1>8, <1>9, <1>18
  <2>2. Len(c.collected) = c.limit => c.done /\ Shows(c.depth, n)
    BY <1>8, <1>18
  <2> QED BY <1>11, <1>15, <2>1, <2>2 DEF InPlace
<1>20. CallBecomes(w, c)
  BY <1>3, <1>8 DEF CallBecomes
<1>21. Others(w, j)
  BY <1>2, <1>20 DEF Others, CallBecomes
<1>22. (Resumes(cur, Len(f)) /\ InPlace(c, cur, Len(f)))'
  BY <1>2, <1>4, <1>19 DEF Resumes, InPlace, Shows, Top, Bottom, End
<1>23. call'[w] = c /\ cursor'[w] = cur /\ file'[j] = f /\ proc'[w].job = j /\ proc'[w].phase = "fetch"
  BY <1>1, <1>2, <1>20 DEF At, CallBecomes
<1>24. StableWorker(w)'
  BY <1>16, <1>22, <1>23 DEF StableWorker, At
<1>25. Copied(file'[j])
  BY <1>1, <1>2, <1>3 DEF StableInv
<1> QED BY <1>1, <1>2, <1>21, <1>24, <1>25, StableOthersKeep

LEMMA PageArrivesStable ==
    ASSUME IInv, StableInv, changes = 0, NEW w \in Readers, PageArrives(w)
    PROVE  StableInv'
<1>1. PICK j, f, got, d : /\ j = proc[w].job /\ f = file[j]
                          /\ got = call[w].collected /\ d = call[w].depth
  OBVIOUS
<1>2. /\ UNCHANGED <<timeline, changes, job, file, used>>
      /\ At(w, "fetch") /\ call[w].done /\ call[w].limit > 0
      /\ \A v \in Readers : v # w => /\ proc'[v] = proc[v] /\ call'[v] = call[v]
                                     /\ cursor'[v] = cursor[v]
      /\ proc'[w].phase = "write" /\ proc'[w].job = j /\ proc'[w].page = got
      /\ proc'[w].more = (Len(got) = call[w].limit)
      /\ proc'[w].more => got # <<>> /\ cursor'[w].key = Last(got) /\ cursor'[w].depth = d
  BY <1>1, PageArrivesKeeps
<1>3. /\ timeline = FirstTimeline /\ f \in Seq(Keys) /\ j \in Jobs /\ Len(f) \in Nat
      /\ call[w] \in Call /\ StableWorker(w)
  BY <1>1, <1>2, Typed DEF StableInv, At
<1>4. /\ Copied(f \o got) /\ got \in Seq(Keys)
      /\ Len(got) = call[w].limit => Shows(d, Len(f) + Len(got))
  BY <1>1, <1>2, <1>3 DEF StableWorker, InPlace, Call
<1>5. proc'[w].more => Resumes(cursor'[w], Len(f) + Len(got))
  <2> SUFFICES ASSUME proc'[w].more PROVE Resumes(cursor'[w], Len(f) + Len(got))
    OBVIOUS
  <2>1. Len(got) \in Nat \ {0} /\ Len(f) + Len(got) # 0
    BY <1>2, <1>3, <1>4, EmptySeq
  <2>2. got[Len(got)] = FirstTimeline[Len(f) + Len(got)]
    BY <1>3, <1>4, <2>1, CopiedParts
  <2> QED BY <1>2, <1>4, <2>1, <2>2 DEF Resumes, Last
<1>6. proc'[w].more => Resumes(cursor[w], Len(f) + Len(got))'
  BY <1>2, <1>5 DEF Resumes, Shows, Top, Bottom, End
<1>7. file'[j] = f
  BY <1>1, <1>2
<1>8. StableWorker(w)'
  BY <1>2, <1>4, <1>6, <1>7 DEF StableWorker, At
<1>9. Others(w, j)
  BY <1>2 DEF Others
<1>10. Copied(file'[j])
  BY <1>2, <1>3 DEF StableInv
<1> QED BY <1>1, <1>2, <1>8, <1>9, <1>10, StableOthersKeep

LEMMA WriteItemStable ==
    ASSUME IInv, StableInv, changes = 0, NEW w \in Readers, WriteItem(w)
    PROVE  StableInv'
<1>1. PICK j, f, page : j = proc[w].job /\ f = file[j] /\ page = proc[w].page
  OBVIOUS
<1>2. PICK h, rest : h = file'[j] /\ rest = proc'[w].page
  OBVIOUS
<1>3. /\ UNCHANGED <<timeline, cursor, call, changes, job, used>>
      /\ At(w, "write") /\ proc'[w].phase = "write" /\ proc'[w].job = j
      /\ page # <<>> /\ proc'[w].more = proc[w].more
      /\ j \in Jobs /\ h = Append(f, Head(page)) /\ rest = Tail(page) /\ Others(w, j)
  BY <1>1, <1>2, WriteItemKeeps
<1>4. /\ timeline = FirstTimeline /\ f \in Seq(Keys) /\ page \in Seq(Keys) /\ StableWorker(w)
  BY <1>1, <1>3, Typed DEF StableInv, At
<1>5. Copied(f \o page) /\ (proc[w].more => Resumes(cursor[w], Len(f) + Len(page)))
  BY <1>1, <1>3, <1>4 DEF StableWorker
<1>6. /\ h \in Seq(Keys) /\ rest \in Seq(Keys) /\ h \o rest = f \o page
      /\ Len(h) = Len(f) + 1 /\ Len(rest) = Len(page) - 1 /\ Len(page) \in Nat \ {0}
  BY <1>3, <1>4, WritingMoves
<1>7. Len(h) + Len(rest) = Len(f) + Len(page)
  <2>1. Len(f) \in Nat
    BY <1>4
  <2> QED BY <1>6, <2>1
<1>8. Copied(h \o rest) /\ Copied(h)
  BY <1>5, <1>6, BeginningIsCopied
<1>9. proc[w].more => Resumes(cursor[w], Len(h) + Len(rest))'
  BY <1>3, <1>5, <1>7 DEF Resumes, Shows, Top, Bottom, End
<1>10. StableWorker(w)'
  BY <1>2, <1>3, <1>8, <1>9 DEF StableWorker, At
<1> QED BY <1>1, <1>2, <1>3, <1>8, <1>10, StableOthersKeep

LEMMA EndPageStable ==
    ASSUME IInv, StableInv, changes = 0, NEW w \in Readers, EndPage(w)
    PROVE  StableInv'
<1>1. PICK j, f : j = proc[w].job /\ f = file[j]
  OBVIOUS
<1>2. /\ UNCHANGED <<timeline, cursor, call, changes, job, file, used>>
      /\ At(w, "write") /\ proc[w].page = <<>> /\ proc'[w].job = j
      /\ proc'[w].phase = IF proc[w].more THEN "progress" ELSE "success"
      /\ Others(w, j)
  BY <1>1, EndPageKeeps
<1>3. /\ timeline = FirstTimeline /\ f \in Seq(Keys) /\ j \in Jobs /\ Len(f) \in Nat
      /\ StableWorker(w)
  BY <1>1, <1>2, Typed DEF StableInv, At
<1>4. proc[w].more => Resumes(cursor[w], Len(f))
  <2>1. Len(f) + Len(proc[w].page) = Len(f)
    BY <1>2, <1>3, EmptyFacts
  <2> QED BY <1>1, <1>2, <1>3, <2>1 DEF StableWorker
<1>5. proc[w].more => Resumes(cursor[w], Len(f))'
  BY <1>2, <1>4 DEF Resumes, Shows, Top, Bottom, End
<1>6. StableWorker(w)'
  <2>1. file'[j] = f
    BY <1>1, <1>2
  <2> QED BY <1>2, <1>5, <2>1 DEF StableWorker, At
<1>7. Copied(file'[j])
  BY <1>2, <1>3 DEF StableInv
<1> QED BY <1>1, <1>2, <1>6, <1>7, StableOthersKeep

LEMMA UpdateProgressStable ==
    ASSUME IInv, StableInv, changes = 0, NEW w \in Readers, UpdateProgress(w)
    PROVE  StableInv'
<1>1. PICK j, f : j = proc[w].job /\ f = file[j]
  OBVIOUS
<1>2. /\ UNCHANGED <<timeline, cursor, call, changes, file, used>>
      /\ At(w, "progress") /\ proc'[w].job = j /\ call[w] = NoCall
      /\ proc'[w].phase \in {"fetch", "success"} /\ Others(w, j)
  BY <1>1, UpdateProgressKeeps
<1>3. /\ timeline = FirstTimeline /\ j \in Jobs /\ StableWorker(w)
  BY <1>1, <1>2, Typed DEF StableInv, At
<1>4. Resumes(cursor[w], Len(f))
  BY <1>1, <1>2, <1>3 DEF StableWorker
<1>5. Resumes(cursor[w], Len(f))'
  BY <1>2, <1>4 DEF Resumes, Shows, Top, Bottom, End
<1>6. StableWorker(w)'
  <2>1. file'[j] = f /\ call'[w].limit = 0
    BY <1>1, <1>2 DEF NoCall
  <2> QED BY <1>2, <1>5, <2>1 DEF StableWorker, At
<1>7. Copied(file'[j])
  BY <1>2, <1>3 DEF StableInv
<1> QED BY <1>1, <1>2, <1>6, <1>7, StableOthersKeep

\* The steps between two pages of a job, and those that end the process or its job.
LEMMA OtherStepsStable ==
    ASSUME IInv, StableInv, NEW w \in Readers,
           \/ ClaimNext(w) \/ MarkSuccess(w) \/ MarkFailure(w) \/ Close(w) \/ Rescue(w)
           \/ AwaitRejects(w) \/ Crash(w) \/ Drained(w) \/ DrainTimeout(w)
    PROVE  StableInv'
<1> DEFINE OthersStay == \A v \in Readers : v # w => /\ proc'[v] = proc[v] /\ call'[v] = call[v]
                                                     /\ cursor'[v] = cursor[v]
           Quiet == proc'[w].phase \notin {"fetch", "write", "progress"}
<1>1. proc[w] \in Process /\ proc \in [Readers -> Process]
  BY Typed
<1>2. CASE ClaimNext(w)
  <2>1. PICK j : proc' = [proc EXCEPT ![w].phase = "claim", ![w].job = j]
    BY <1>2 DEF ClaimNext
  <2>2. PICK p : p = [proc[w] EXCEPT !.phase = "claim", !.job = j]
    OBVIOUS
  <2>3. p.phase = "claim"
    BY <1>1, <2>2 DEF Process
  <2>4. proc'[w] = p /\ \A v \in Readers : v # w => proc'[v] = proc[v]
    BY <1>1, <2>1, <2>2
  <2>5. UNCHANGED <<timeline, cursor, call, changes, file>>
    BY <1>2 DEF ClaimNext, readVars
  <2> QED BY <2>3, <2>4, <2>5, QuietStepKeeps
<1>3. ASSUME NEW phase \in {"close", "rescue", "fail"}, Goto(w, phase)
      PROVE  Quiet /\ \A v \in Readers : v # w => proc'[v] = proc[v]
  BY <1>3, GotoBecomes DEF Becomes, Phase
<1>4. ASSUME Settle(w)
      PROVE  Quiet /\ \A v \in Readers : v # w => proc'[v] = proc[v]
  BY <1>4, SettleBecomes DEF Becomes
<1>5. CASE MarkSuccess(w) \/ MarkFailure(w) \/ Close(w) \/ Rescue(w)
  <2>1. UNCHANGED <<timeline, cursor, call, changes, file>>
    BY <1>5 DEF MarkSuccess, MarkFailure, Close, Rescue, readVars
  <2>2. Goto(w, "close") \/ Settle(w)
    BY <1>5 DEF MarkSuccess, MarkFailure, Close, Rescue
  <2>3. Quiet /\ \A v \in Readers : v # w => proc'[v] = proc[v]
    BY <1>3, <1>4, <2>2
  <2> QED BY <2>1, <2>3, QuietStepKeeps
<1>6. CASE AwaitRejects(w)
  <2>1. /\ \A v \in Readers : v # w => call'[v] = call[v]
        /\ UNCHANGED <<timeline, cursor, changes, file>>
    BY <1>6, DropBecomes DEF AwaitRejects
  <2>2. Settle(w) \/ Goto(w, "rescue") \/ Goto(w, "fail")
    BY <1>6 DEF AwaitRejects
  <2>3. Quiet /\ \A v \in Readers : v # w => proc'[v] = proc[v]
    BY <1>3, <1>4, <2>2
  <2> QED BY <2>1, <2>3, QuietStepKeeps
<1>7. CASE Crash(w) \/ Drained(w) \/ DrainTimeout(w)
  <2>1. Ends(w) /\ UNCHANGED file
    BY <1>7 DEF Crash, Drained, DrainTimeout
  <2>2. /\ \A v \in Readers : v # w => call'[v] = call[v]
        /\ UNCHANGED <<timeline, cursor, changes>>
    BY <2>1, DropBecomes DEF Ends
  <2>3. PICK p : p = [Idle EXCEPT !.state = "down"]
    OBVIOUS
  <2>4. p.phase = "idle"
    BY <2>3, IdleIsProcess
  <2>5. proc'[w] = p /\ \A v \in Readers : v # w => proc'[v] = proc[v]
    BY <1>1, <2>1, <2>3 DEF Ends
  <2> QED BY <2>1, <2>2, <2>4, <2>5, QuietStepKeeps
<1> QED BY <1>2, <1>5, <1>6, <1>7

LEMMA StillStepsStable ==
    ASSUME IInv, StableInv,
           \/ UserStep \/ UNCHANGED vars
           \/ \E w \in Readers : Stop(w) \/ Restart(w)
    PROVE  StableInv'
<1>1. UNCHANGED <<timeline, cursor, call, changes, file>>
  BY DEF UserStep, Create, CancelById, vars, jobVars, readVars, Stop, Restart
<1>2. CASE UserStep \/ UNCHANGED vars
  <2>1. UNCHANGED proc
    BY <1>2 DEF UserStep, Create, CancelById, vars, jobVars
  <2> QED BY <1>1, <2>1, StillStepKeeps
<1>3. ASSUME NEW w \in Readers, Stop(w) \/ Restart(w)
      PROVE  StableInv'
  <2>1. proc[w] \in Process /\ proc \in [Readers -> Process]
    BY Typed
  <2>2. PICK state, awaited :
             proc' = [proc EXCEPT ![w] = [proc[w] EXCEPT !.state = state, !.awaited = awaited]]
    <3>1. CASE Stop(w)
      BY <2>1, <3>1 DEF Stop
    <3>2. CASE Restart(w)
      <4>1. proc[w] = [proc[w] EXCEPT !.awaited = proc[w].awaited]
        BY <2>1 DEF Process
      <4>2. [proc[w] EXCEPT !.state = "up"] = [proc[w] EXCEPT !.state = "up", !.awaited = proc[w].awaited]
        BY <2>1 DEF Process
      <4>3. proc' = [proc EXCEPT ![w] = [proc[w] EXCEPT !.state = "up"]]
        BY <3>2 DEF Restart
      <4> QED BY <4>2, <4>3
    <3> QED BY <1>3, <3>1, <3>2
  <2>3. PICK p : p = [proc[w] EXCEPT !.state = state, !.awaited = awaited]
    OBVIOUS
  <2>4. /\ p.phase = proc[w].phase /\ p.job = proc[w].job
        /\ p.page = proc[w].page /\ p.more = proc[w].more
    BY <2>1, <2>3 DEF Process
  <2>5. proc'[w] = p /\ \A v \in Readers : v # w => proc'[v] = proc[v]
    BY <2>1, <2>2, <2>3
  <2>6. \A v \in Readers : /\ proc'[v].phase = proc[v].phase /\ proc'[v].job = proc[v].job
                           /\ proc'[v].page = proc[v].page /\ proc'[v].more = proc[v].more
    BY <2>4, <2>5
  <2> QED BY <1>1, <2>6, StillStepKeeps
<1> QED BY <1>2, <1>3

\* No step takes a page out of its place while X shows the same.
LEMMA StableStepKeeps ==
    ASSUME WindowFitsCap, IInv, StableInv, [Next]_vars
    PROVE  StableInv'
<1>1. CASE UserStep \/ UNCHANGED vars
  BY <1>1, StillStepsStable
<1>2. CASE TimelineChanges /\ UNCHANGED jobVars
  BY <1>2, TimelineKeeps DEF StableInv
<1>3. ASSUME NEW w \in Readers, Stop(w) \/ Restart(w)
      PROVE  StableInv'
  BY <1>3, StillStepsStable
<1>4. ASSUME NEW w \in Readers, ClaimNext(w) \/ Drained(w) \/ FaultStep(w)
      PROVE  StableInv'
  BY <1>4, OtherStepsStable DEF FaultStep
<1>5. ASSUME NEW w \in Readers, WorkStep(w)
      PROVE  StableInv'
  <2>1. CASE MarkSuccess(w) \/ MarkFailure(w) \/ Close(w) \/ Rescue(w)
    BY <2>1, OtherStepsStable
  <2>2. CASE OpenFile(w) \/ FetchPage(w) \/ PageArrives(w)
    <3>1. changes' = changes
      BY <2>2 DEF OpenFile, FetchPage, BeginRead, PageArrives, EndRead
    <3>2. CASE changes = 0
      BY <2>2, <3>2, OpenFileStable, FetchPageStable, PageArrivesStable
    <3> QED BY <3>1, <3>2 DEF StableInv
  <2>3. CASE WriteItem(w) \/ EndPage(w) \/ UpdateProgress(w)
    <3>1. changes' = changes
      BY <2>3 DEF WriteItem, EndPage, UpdateProgress, readVars
    <3>2. CASE changes = 0
      BY <2>3, <3>2, WriteItemStable, EndPageStable, UpdateProgressStable
    <3> QED BY <3>1, <3>2 DEF StableInv
  <2>4. CASE Scroll(w) /\ UNCHANGED jobVars
    <3>1. changes' = changes
      BY <2>4 DEF Scroll
    <3>2. CASE changes = 0
      BY <2>4, <3>2, ScrollStable
    <3> QED BY <3>1, <3>2 DEF StableInv
  <2>5. \/ OpenFile(w) \/ FetchPage(w) \/ PageArrives(w)
        \/ WriteItem(w) \/ EndPage(w) \/ UpdateProgress(w)
        \/ MarkSuccess(w) \/ MarkFailure(w) \/ Close(w) \/ Rescue(w)
        \/ Scroll(w) /\ UNCHANGED jobVars
    BY <1>5 DEF WorkStep
  <2> QED BY <2>1, <2>2, <2>3, <2>4, <2>5
<1> QED BY <1>1, <1>2, <1>3, <1>4, <1>5 DEF Next

\* Every file is empty.
LEMMA InitiallyStable ==
    ASSUME Init
    PROVE  StableInv
<1>1. /\ timeline = FirstTimeline /\ \A w \in Readers : proc[w].phase = "idle"
      /\ \A j \in Jobs : file[j] = <<>>
  BY DEF Init, ReadInit, Idle
<1>2. Copied(<<>>)
  BY EmptyFacts, Bounds DEF Copied
<1> QED BY <1>1, <1>2 DEF StableInv, StableWorker, At

\* While X shows the same items, each once and never more at a time than the cursor carries,
\* the file is the beginning of the surface: where one call of paginate() stops and the next
\* resumes nothing is left out, repeated or turned round.  Without the last condition it is
\* not true: with a window beyond the cap the next call takes again what the cursor forgot.
THEOREM StableIsCopied ==
    ASSUME WindowFitsCap
    PROVE  Spec => []StableSurfaceIsCopied
<1>1. Init => StableInv
  BY InitiallyStable
<1>2. IInv /\ StableInv /\ [Next]_vars => StableInv'
  BY StableStepKeeps
<1>3. IInv /\ StableInv => StableSurfaceIsCopied
  <2> SUFFICES ASSUME IInv, StableInv, changes = 0, NEW j \in Jobs
               PROVE  IsPrefix(file[j], FirstTimeline)
    BY DEF StableSurfaceIsCopied
  <2>1. PICK f, t : f = file[j] /\ t = FirstTimeline
    OBVIOUS
  <2>2. f \in Seq(Keys) /\ t \in Seq(Keys) /\ Copied(f)
    BY <2>1, Bounds DEF IInv, TypeOK, StableInv
  <2>3. /\ Len(f) \in Nat /\ Len(t) \in Nat /\ Len(f) <= Len(t)
        /\ \A i \in 1 .. Len(f) : f[i] = t[i] /\ t[i] \in Keys
    BY <2>1, <2>2 DEF Copied
  <2>4. SubSeq(f, 1, Len(f)) = f
    BY <2>2, SubSeqFull
  <2>5. PICK s : s = SubSeq(t, 1, Len(f))
    OBVIOUS
  <2>6. s \in Seq(Keys) /\ Len(s) = Len(f) /\ \A i \in 1 .. Len(f) : s[i] = t[i]
    <3>1. PICK n : n = Len(f)
      OBVIOUS
    <3>2. n \in Nat /\ 1 \in Int /\ n \in Int /\ n - 1 + 1 = n /\ \A i \in 1 .. n : t[i] \in Keys
      BY <2>3, <3>1
    <3>3. /\ SubSeq(t, 1, n) \in Seq(Keys)
          /\ Len(SubSeq(t, 1, n)) = IF 1 <= n THEN n - 1 + 1 ELSE 0
          /\ \A i \in 1 .. n - 1 + 1 : SubSeq(t, 1, n)[i] = t[1 + i - 1]
      BY <3>2, SubSeqProperties
    <3>4. Len(SubSeq(t, 1, n)) = n /\ \A i \in 1 .. n : i \in 1 .. n - 1 + 1 /\ 1 + i - 1 = i
      BY <3>2, <3>3
    <3> QED BY <2>5, <3>1, <3>2, <3>3, <3>4
  <2>7. s = f
    BY <2>2, <2>3, <2>6, SeqEqual
  <2> QED BY <2>1, <2>3, <2>4, <2>5, <2>7 DEF IsPrefix
<1>4. Spec => []StableInv
  BY <1>1, <1>2, InductiveInvariant, PTL DEF Spec
<1> QED BY <1>3, <1>4, InductiveInvariant, PTL
=============================================================================
