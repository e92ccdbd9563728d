------------------------- MODULE GatherQueueProofs -------------------------
(***************************************************************************)
(* What Gather Box's queue keeps for any pages, profiles and asks, any     *)
(* limits of the queue, and however often calls fail, the worker, the      *)
(* document or the browser ends, and people cancel and delete profiles.    *)
(*                                                                         *)
(* The queue and the results are sequences, and what a section does to     *)
(* them is written with recursive functions, so the module begins with     *)
(* induction over sets of numbers (Least, FromZero) and what it says of    *)
(* Kept, WithPhase, Trim, Recorded and RecordAll.  Then come the inductive *)
(* invariant GatherInv, what any step may do (Step), and a lemma for every *)
(* action.  On them rests a second invariant, InOrder, which follows each  *)
(* run on its way to the document and back, again with a lemma for every   *)
(* action; the theorems are at the end.                                    *)
(***************************************************************************)
EXTENDS GatherQueue, SequenceTheorems, FiniteSetTheorems, WellFoundedInduction, TLAPS

-----------------------------------------------------------------------------
(* Induction, over sets of numbers. *)

LEMMA Least ==
  ASSUME NEW S \in SUBSET Nat, S # {}
  PROVE \E n \in S : \A m \in S : n <= m
<1>1. IsWellFoundedOn(OpToRel(<, Nat), Nat)
  BY NatLessThanWellFounded
<1>2. PICK n \in S : \A m \in S : ~(<<m, n>> \in OpToRel(<, Nat))
  BY <1>1, WFMin
<1>3. ASSUME NEW m \in S PROVE n <= m
  <2>1. ~(m < n)
    BY <1>2 DEF OpToRel
  <2>2. QED BY <2>1
<1>4. QED BY <1>3

LEMMA FromZero ==
  ASSUME NEW S \in SUBSET Nat, 0 \in S, \A n \in S : n + 1 \in S
  PROVE S = Nat
<1> SUFFICES ASSUME Nat \ S # {} PROVE FALSE
  OBVIOUS
<1>1. PICK n \in Nat \ S : \A m \in Nat \ S : n <= m
  BY Least
<1>2. n - 1 \in S
  BY <1>1
<1>3. QED BY <1>1, <1>2

LEMMA KeptIs ==
  ASSUME NEW S, NEW q \in Seq(S), NEW K
  PROVE  \E upTo : /\ upTo = [n \in 0 .. Len(q) |->
                                 IF n = 0 THEN <<>>
                                 ELSE IF n \in K THEN Append(upTo[n - 1], q[n]) ELSE upTo[n - 1]]
                   /\ Kept(q, K) = upTo[Len(q)]
<1> DEFINE Step(f, n) == IF n = 0 THEN <<>>
                         ELSE IF n \in K THEN Append(f[n - 1], q[n]) ELSE f[n - 1]
<1> DEFINE Upto(f, n) == f = [m \in 0 .. n |-> Step(f, m)]
<1> DEFINE Has == {n \in Nat : \E f : Upto(f, n)}
<1>1. 0 \in Has
  <2>1. Upto([m \in 0 .. 0 |-> <<>>], 0)
     OBVIOUS
  <2>2. QED BY <2>1
<1>2. ASSUME NEW n \in Has PROVE n + 1 \in Has
  <2>1. PICK f : Upto(f, n)
    OBVIOUS
  <2>2. DEFINE g == [m \in 0 .. (n + 1) |-> IF m <= n THEN f[m] ELSE Step(f, n + 1)]
  <2>3. Upto(g, n + 1)
    <3>1. ASSUME NEW m \in 0 .. (n + 1) PROVE g[m] = Step(g, m)
      <4>1. CASE m <= n
        <5>1. m \in 0 .. n /\ (m # 0 => m - 1 \in 0 .. n /\ m - 1 \in 0 .. (n + 1))
          BY <4>1
        <5>2. f[m] = Step(f, m)
          BY <2>1, <5>1
        <5>3. Step(g, m) = Step(f, m)
          BY <5>1
        <5>4. QED BY <5>2, <5>3, <4>1
      <4>2. CASE m = n + 1
        <5>1. n \in 0 .. n /\ n \in 0 .. (n + 1) /\ (n + 1) - 1 = n
          OBVIOUS
        <5>2. Step(g, m) = Step(f, m)
          BY <4>2, <5>1
        <5>3. QED BY <5>2, <4>2
      <4>3. QED BY <4>1, <4>2
    <3>2. QED BY <3>1
  <2> HIDE DEF g, Step
  <2>4. QED BY <2>3
<1>3. Len(q) \in Has
  <2> HIDE DEF Has
  <2>1. Has \in SUBSET Nat
    BY DEF Has
  <2>2. Has = Nat
    BY <1>1, <1>2, <2>1, FromZero
  <2>3. QED BY <2>2
<1>4. PICK f : f = [n \in 0 .. Len(q) |->
                       IF n = 0 THEN <<>>
                       ELSE IF n \in K THEN Append(f[n - 1], q[n]) ELSE f[n - 1]]
  BY <1>3
<1>5. QED
  BY <1>4 DEF Kept

Distinct(q) == \A i, k \in DOMAIN q : q[i].run = q[k].run => i = k

LEMMA KeptFacts ==
  ASSUME NEW S, NEW q \in Seq(S), NEW K
  PROVE  /\ Kept(q, K) \in Seq(S) /\ Len(Kept(q, K)) <= Len(q)
         /\ \E e : /\ \A i \in DOMAIN Kept(q, K) : /\ e[i] \in DOMAIN q \cap K /\ i <= e[i]
                                                   /\ Kept(q, K)[i] = q[e[i]]
                   /\ \A i, k \in DOMAIN Kept(q, K) : i < k => e[i] < e[k]
                   /\ \A k \in DOMAIN q \cap K : \E i \in DOMAIN Kept(q, K) : e[i] = k
<1>1. PICK upTo : /\ upTo = [n \in 0 .. Len(q) |->
                                 IF n = 0 THEN <<>>
                                 ELSE IF n \in K THEN Append(upTo[n - 1], q[n]) ELSE upTo[n - 1]]
                   /\ Kept(q, K) = upTo[Len(q)]
  BY KeptIs
<1>0. \A n \in 0 .. Len(q) :
         upTo[n] = IF n = 0 THEN <<>>
                   ELSE IF n \in K THEN Append(upTo[n - 1], q[n]) ELSE upTo[n - 1]
  BY <1>1
<1>2. Len(q) \in Nat /\ DOMAIN q = 1 .. Len(q)
  BY LenProperties
<1> DEFINE Picks(n, e) ==
             /\ \A i \in 1 .. Len(upTo[n]) :
                  e[i] \in (1 .. n) \cap K /\ i <= e[i] /\ upTo[n][i] = q[e[i]]
             /\ \A i, k \in 1 .. Len(upTo[n]) : i < k => e[i] < e[k]
             /\ \A k \in (1 .. n) \cap K : \E i \in 1 .. Len(upTo[n]) : e[i] = k
           Good(n) == upTo[n] \in Seq(S) /\ Len(upTo[n]) <= n /\ \E e : Picks(n, e)
           Has == {n \in Nat : n <= Len(q) => Good(n)}
<1>3. 0 \in Has
  <2>1. upTo[0] = <<>>
    BY <1>1, <1>2
  <2>2. upTo[0] \in Seq(S) /\ Len(upTo[0]) = 0
    BY <2>1, EmptySeq
  <2>3. Picks(0, <<>>)
    BY <2>2
  <2> HIDE DEF Picks
  <2>4. QED
    BY <2>2, <2>3
<1>4. ASSUME NEW n \in Has PROVE n + 1 \in Has
  <2> SUFFICES ASSUME n + 1 <= Len(q) PROVE Good(n + 1)
    <3> HIDE DEF Good
    <3>1. QED
      OBVIOUS
  <2>1. Good(n) /\ n + 1 \in 1 .. Len(q)
    BY <1>2
  <2>2. PICK e : Picks(n, e)
    BY <2>1
  <2>3. upTo[n + 1] = IF n + 1 \in K THEN Append(upTo[n], q[n + 1]) ELSE upTo[n]
    <3>1. n + 1 \in 0 .. Len(q) /\ n + 1 # 0 /\ (n + 1) - 1 = n
      BY <1>2
    <3> HIDE DEF Good, Has
    <3>2. QED
      BY <1>0, <3>1
  <2>4. CASE n + 1 \notin K
    <3>1. upTo[n + 1] = upTo[n]
      BY <2>3, <2>4
    <3>2. Picks(n + 1, e)
      <4>1. (1 .. (n + 1)) \cap K = (1 .. n) \cap K
        BY <2>4
      <4>2. QED
        BY <2>2, <3>1, <4>1
    <3> HIDE DEF Picks
    <3>3. QED
      BY <2>1, <3>1, <3>2
  <2>5. CASE n + 1 \in K
    <3> DEFINE was == upTo[n]
               now == upTo[n + 1]
               m == Len(was)
               f == [i \in 1 .. (m + 1) |-> IF i = m + 1 THEN n + 1 ELSE e[i]]
    <3>1. was \in Seq(S) /\ m \in Nat /\ m <= n /\ q[n + 1] \in S
      BY <2>1, LenProperties, ElementOfSeq
    <3>2. now = Append(was, q[n + 1])
      BY <2>3, <2>5
    <3>3. /\ now \in Seq(S) /\ Len(now) = m + 1
          /\ \A i \in 1 .. m : now[i] = was[i]
          /\ now[m + 1] = q[n + 1]
      <4> HIDE DEF was, now, m
      <4>1. m = Len(was)
        BY DEF m
      <4>2. QED
        BY <3>1, <3>2, <4>1, AppendProperties
    <3>4. Picks(n + 1, f)
      <4>1. /\ \A i \in 1 .. m : e[i] \in (1 .. n) \cap K /\ i <= e[i] /\ was[i] = q[e[i]]
            /\ \A i, k \in 1 .. m : i < k => e[i] < e[k]
            /\ \A k \in (1 .. n) \cap K : \E i \in 1 .. m : e[i] = k
        BY <2>2
      <4>2. /\ f[m + 1] = n + 1
            /\ \A i \in 1 .. m : f[i] = e[i]
        BY <3>1
      <4> HIDE DEF f, m, was, now
      <4>3. \A i \in 1 .. (m + 1) : f[i] \in (1 .. (n + 1)) \cap K /\ i <= f[i] /\ now[i] = q[f[i]]
        <5> SUFFICES ASSUME NEW i \in 1 .. (m + 1)
                     PROVE  f[i] \in (1 .. (n + 1)) \cap K /\ i <= f[i] /\ now[i] = q[f[i]]
          OBVIOUS
        <5>1. CASE i = m + 1
          BY <2>5, <3>1, <3>3, <4>2, <5>1
        <5>2. CASE i \in 1 .. m
          <6>1. f[i] = e[i] /\ now[i] = was[i]
            BY <3>3, <4>2, <5>2
          <6>2. e[i] \in (1 .. n) \cap K /\ i <= e[i] /\ was[i] = q[e[i]]
            BY <4>1, <5>2
          <6>3. e[i] \in (1 .. (n + 1)) \cap K
            BY <6>2
          <6>4. QED
            BY <6>1, <6>2, <6>3
        <5>3. QED
          BY <3>1, <5>1, <5>2
      <4>4. \A i, k \in 1 .. (m + 1) : i < k => f[i] < f[k]
        <5> SUFFICES ASSUME NEW i \in 1 .. (m + 1), NEW k \in 1 .. (m + 1), i < k
                     PROVE  f[i] < f[k]
          OBVIOUS
        <5>1. i \in 1 .. m /\ f[i] = e[i] /\ e[i] \in 1 .. n
          BY <3>1, <4>1, <4>2
        <5>2. CASE k = m + 1
          BY <4>2, <5>1, <5>2
        <5>3. CASE k \in 1 .. m
          BY <4>1, <4>2, <5>1, <5>3
        <5>4. QED
          BY <3>1, <5>2, <5>3
      <4>5. \A k \in (1 .. (n + 1)) \cap K : \E i \in 1 .. (m + 1) : f[i] = k
        <5> SUFFICES ASSUME NEW k \in (1 .. (n + 1)) \cap K
                     PROVE  \E i \in 1 .. (m + 1) : f[i] = k
          OBVIOUS
        <5>1. CASE k = n + 1
          <6>1. m + 1 \in 1 .. (m + 1)
            BY <3>1
          <6>2. QED
            BY <4>2, <5>1, <6>1
        <5>2. CASE k # n + 1
          <6>1. k \in (1 .. n) \cap K
            BY <5>2
          <6>2. PICK i \in 1 .. m : e[i] = k
            BY <4>1, <6>1
          <6>3. i \in 1 .. (m + 1)
            BY <3>1
          <6>4. QED
            BY <4>2, <6>2, <6>3
        <5>3. QED
          BY <5>1, <5>2
      <4>6. Len(upTo[n + 1]) = m + 1 /\ now = upTo[n + 1]
        BY <3>3 DEF now
      <4>7. QED
        BY <4>3, <4>4, <4>5, <4>6
    <3> HIDE DEF f, Picks
    <3>5. QED
      BY <3>1, <3>3, <3>4
  <2>6. QED
    BY <2>4, <2>5
<1>5. Good(Len(q))
  <2> HIDE DEF Has, Good
  <2>1. Has \in SUBSET Nat
    BY DEF Has
  <2>2. Has = Nat
    BY <1>3, <1>4, <2>1, FromZero
  <2>3. QED
    BY <1>2, <2>2 DEF Has
<1>6. PICK e : Picks(Len(q), e)
  BY <1>5
<1>7. DOMAIN Kept(q, K) = 1 .. Len(upTo[Len(q)])
  BY <1>1, <1>5, LenProperties
<1>8. /\ \A i \in DOMAIN Kept(q, K) : /\ e[i] \in DOMAIN q \cap K /\ i <= e[i]
                                         /\ Kept(q, K)[i] = q[e[i]]
      /\ \A i, k \in DOMAIN Kept(q, K) : i < k => e[i] < e[k]
      /\ \A k \in DOMAIN q \cap K : \E i \in DOMAIN Kept(q, K) : e[i] = k
  BY <1>1, <1>2, <1>6, <1>7
<1>9. Kept(q, K) \in Seq(S) /\ Len(Kept(q, K)) <= Len(q)
  BY <1>1, <1>5
<1> HIDE DEF Has, Good, Picks
<1>10. QED
  BY <1>8, <1>9

-----------------------------------------------------------------------------
(* The queue and the results. *)

JobTypes == [run : Ids, page : Pages, profile : Profiles,
             phase : {"collecting", "queued"} \cup Executing]

ResultTypes == [run : Ids, page : Pages, retry : BOOLEAN,
                phase : {"complete", "failed", "cancelled", "interrupted"}]

RunsOf(q) == {q[i].run : i \in DOMAIN q}

\* A queue whose jobs are q with other phases.
LEMMA SameRuns ==
  ASSUME NEW q, Distinct(q), NEW p, DOMAIN p = DOMAIN q, \A i \in DOMAIN q : p[i].run = q[i].run
  PROVE  RunsOf(p) = RunsOf(q) /\ Distinct(p)
BY DEF RunsOf, Distinct

LEMMA WithPhaseFacts ==
  ASSUME NEW q \in Seq(JobTypes), NEW r, NEW phase \in {"collecting", "queued"} \cup Executing
  PROVE  /\ WithPhase(q, r, phase) \in Seq(JobTypes)
         /\ Len(WithPhase(q, r, phase)) = Len(q)
         /\ DOMAIN WithPhase(q, r, phase) = DOMAIN q
         /\ \A i \in DOMAIN q :
              WithPhase(q, r, phase)[i] =
                IF q[i].run = r THEN [q[i] EXCEPT !.phase = phase] ELSE q[i]
<1> DEFINE p == WithPhase(q, r, phase)
<1>1. Len(q) \in Nat /\ DOMAIN q = 1 .. Len(q) /\ \A i \in DOMAIN q : q[i] \in JobTypes
  BY LenProperties, ElementOfSeq
<1>2. /\ DOMAIN p = DOMAIN q
      /\ \A i \in DOMAIN q : p[i] = IF q[i].run = r THEN [q[i] EXCEPT !.phase = phase] ELSE q[i]
  BY DEF WithPhase
<1>3. \A i \in DOMAIN q : p[i] \in JobTypes
  BY <1>1, <1>2 DEF JobTypes
<1>4. p \in [1 .. Len(q) -> JobTypes]
  BY <1>1, <1>2, <1>3 DEF WithPhase
<1>5. p \in Seq(JobTypes) /\ Len(p) = Len(q)
  BY <1>1, <1>4, SeqDef, LenProperties
<1>6. QED
  BY <1>2, <1>5

\* What a filter leaves, for the queue and the results.
LEMMA KeptRuns ==
  ASSUME NEW S, NEW q \in Seq(S), NEW K, Distinct(q)
  PROVE  /\ Kept(q, K) \in Seq(S) /\ Len(Kept(q, K)) <= Len(q)
         /\ Distinct(Kept(q, K)) /\ RunsOf(Kept(q, K)) \subseteq RunsOf(q)
         /\ \A i \in DOMAIN Kept(q, K) : \E k \in DOMAIN q \cap K : i <= k /\ Kept(q, K)[i] = q[k]
         /\ \A k \in DOMAIN q \cap K : \E i \in DOMAIN Kept(q, K) : Kept(q, K)[i] = q[k]
<1> DEFINE p == Kept(q, K)
<1>1. p \in Seq(S) /\ Len(p) <= Len(q)
  BY KeptFacts
<1>2. PICK e : /\ \A i \in DOMAIN p : e[i] \in DOMAIN q \cap K /\ i <= e[i] /\ p[i] = q[e[i]]
               /\ \A i, k \in DOMAIN p : i < k => e[i] < e[k]
               /\ \A k \in DOMAIN q \cap K : \E i \in DOMAIN p : e[i] = k
  BY KeptFacts
<1>3. DOMAIN p = 1 .. Len(p) /\ Len(p) \in Nat /\ DOMAIN q = 1 .. Len(q) /\ Len(q) \in Nat
  BY <1>1, LenProperties
<1> HIDE DEF p
<1>4. Distinct(p)
  <2> SUFFICES ASSUME NEW i \in DOMAIN p, NEW k \in DOMAIN p, p[i].run = p[k].run
               PROVE  i = k
    BY DEF Distinct
  <2>1. e[i] = e[k]
    BY <1>2 DEF Distinct
  <2>2. ~(i < k) /\ ~(k < i)
    BY <1>2, <1>3, <2>1
  <2>3. QED
    BY <1>3, <2>2
<1>5. RunsOf(p) \subseteq RunsOf(q)
  BY <1>2 DEF RunsOf
<1>6. QED
  BY <1>1, <1>2, <1>4, <1>5 DEF p

LEMMA AppendFacts ==
  ASSUME NEW S, NEW q \in Seq(S), NEW x \in S, Distinct(q), x.run \notin RunsOf(q)
  PROVE  /\ Append(q, x) \in Seq(S) /\ Len(Append(q, x)) = Len(q) + 1
         /\ Distinct(Append(q, x)) /\ RunsOf(Append(q, x)) = RunsOf(q) \cup {x.run}
         /\ DOMAIN Append(q, x) = 1 .. (Len(q) + 1) /\ DOMAIN q = 1 .. Len(q)
         /\ \A i \in DOMAIN q : Append(q, x)[i] = q[i]
         /\ Append(q, x)[Len(q) + 1] = x
<1> DEFINE p == Append(q, x)
<1>1. /\ p \in Seq(S) /\ Len(p) = Len(q) + 1 /\ Len(q) \in Nat
      /\ DOMAIN p = 1 .. (Len(q) + 1) /\ DOMAIN q = 1 .. Len(q)
      /\ \A i \in DOMAIN q : p[i] = q[i]
      /\ p[Len(q) + 1] = x
  BY AppendProperties, LenProperties
<1> HIDE DEF p
<1>2. Distinct(p)
  <2> SUFFICES ASSUME NEW i \in DOMAIN p, NEW k \in DOMAIN p, p[i].run = p[k].run
               PROVE  i = k
    BY DEF Distinct
  <2>1. CASE i \in DOMAIN q /\ k \in DOMAIN q
    BY <1>1, <2>1 DEF Distinct
  <2>2. CASE i = Len(q) + 1 \/ k = Len(q) + 1
    BY <1>1, <2>2 DEF RunsOf
  <2>3. QED
    BY <1>1, <2>1, <2>2
<1>3. RunsOf(p) = RunsOf(q) \cup {x.run}
  <2>1. RunsOf(p) \subseteq RunsOf(q) \cup {x.run}
    BY <1>1 DEF RunsOf
  <2>2. RunsOf(q) \subseteq RunsOf(p) /\ Len(q) + 1 \in DOMAIN p
    BY <1>1 DEF RunsOf
  <2>3. QED
    BY <1>1, <2>1, <2>2 DEF RunsOf
<1>4. QED
  BY <1>1, <1>2, <1>3 DEF p

\* The end of a sequence.
LEMMA TailFacts ==
  ASSUME NEW S, NEW q \in Seq(S), Distinct(q), NEW n \in Nat, n < Len(q)
  PROVE  LET p == SubSeq(q, n + 1, Len(q))
         IN  /\ p \in Seq(S) /\ Len(p) = Len(q) - n /\ Distinct(p)
             /\ \A i \in DOMAIN p : i + n \in DOMAIN q /\ p[i] = q[i + n]
<1> DEFINE p == SubSeq(q, n + 1, Len(q))
<1>1. Len(q) \in Nat /\ DOMAIN q = 1 .. Len(q) /\ \A i \in (n + 1) .. Len(q) : q[i] \in S
  BY LenProperties, ElementOfSeq
<1>2. /\ p \in Seq(S) /\ Len(p) = Len(q) - n
      /\ \A i \in 1 .. (Len(q) - n) : p[i] = q[i + n]
  <2>1. /\ p \in Seq(S) /\ Len(p) = IF n + 1 <= Len(q) THEN Len(q) - (n + 1) + 1 ELSE 0
        /\ \A i \in 1 .. (Len(q) - (n + 1) + 1) : p[i] = q[(n + 1) + i - 1]
    BY <1>1, SubSeqProperties
  <2>2. Len(q) - (n + 1) + 1 = Len(q) - n
    BY <1>1
  <2>3. ASSUME NEW i \in 1 .. (Len(q) - n) PROVE p[i] = q[i + n]
    <3>1. (n + 1) + i - 1 = i + n
      BY <1>1
    <3>2. p[i] = q[(n + 1) + i - 1]
      BY <2>1, <2>2
    <3>3. QED
      BY <3>1, <3>2
  <2>4. n + 1 <= Len(q)
    BY <1>1
  <2> HIDE DEF p
  <2>5. QED
    BY <2>1, <2>2, <2>3, <2>4
<1>3. DOMAIN p = 1 .. (Len(q) - n)
  BY <1>2, LenProperties
<1> HIDE DEF p
<1>4. \A i \in DOMAIN p : i + n \in DOMAIN q /\ p[i] = q[i + n]
  BY <1>1, <1>2, <1>3
<1>5. Distinct(p)
  <2> SUFFICES ASSUME NEW i \in DOMAIN p, NEW k \in DOMAIN p, p[i].run = p[k].run
               PROVE  i = k
    BY DEF Distinct
  <2>1. i + n = k + n
    BY <1>4 DEF Distinct
  <2>2. QED
    BY <1>3, <2>1
<1>6. QED
  BY <1>2, <1>4, <1>5 DEF p

Entry(j, e) == [run |-> j.run, page |-> j.page, phase |-> Outcome[e], retry |-> e = "partial"]

LEMMA EntryTypes ==
  ASSUME NEW j \in JobTypes, NEW e \in DOMAIN Outcome
  PROVE  Entry(j, e) \in ResultTypes /\ Entry(j, e).run = j.run
<1>1. Outcome[e] \in {"complete", "failed", "cancelled", "interrupted"}
  BY DEF Outcome
<1>2. QED
  BY <1>1 DEF Entry, JobTypes, ResultTypes

\* What is trimmed away can be retried no more, unless there is no room at all.
LEMMA TrimFacts ==
  ASSUME NEW rs \in Seq(ResultTypes), Distinct(rs)
  PROVE  /\ Trim(rs) \in Seq(ResultTypes) /\ Len(Trim(rs)) <= MaxQueue /\ Len(Trim(rs)) <= Len(rs)
         /\ Distinct(Trim(rs))
         /\ \A i \in DOMAIN Trim(rs) : \E k \in DOMAIN rs : Trim(rs)[i] = rs[k]
         /\ Len(rs) <= MaxQueue =>
              \A k \in DOMAIN rs : rs[k].retry => \E i \in DOMAIN Trim(rs) : Trim(rs)[i] = rs[k]
<1> DEFINE K == {i \in DOMAIN rs : i + MaxResults > Len(rs) \/ rs[i].retry}
           kept == Kept(rs, K)
<1>3. Trim(rs) = IF Len(kept) > MaxQueue
                 THEN SubSeq(kept, Len(kept) - MaxQueue + 1, Len(kept)) ELSE kept
  BY DEF Trim
<1>4. \A k \in DOMAIN rs : rs[k].retry => k \in DOMAIN rs \cap K
  OBVIOUS
<1> HIDE DEF K
<1>1. /\ kept \in Seq(ResultTypes) /\ Len(kept) <= Len(rs) /\ Distinct(kept)
      /\ \A i \in DOMAIN kept : \E k \in DOMAIN rs \cap K : kept[i] = rs[k]
      /\ \A k \in DOMAIN rs \cap K : \E i \in DOMAIN kept : kept[i] = rs[k]
  BY KeptRuns
<1>2. Len(rs) \in Nat /\ Len(kept) \in Nat /\ MaxQueue \in Nat \ {0}
  BY <1>1, LenProperties, QueueAssumption DEF QueueAssumption
<1> HIDE DEF kept
<1>5. CASE Len(kept) > MaxQueue
  <2> DEFINE n == Len(kept) - MaxQueue
  <2>1. n \in Nat /\ n < Len(kept) /\ Len(kept) - n = MaxQueue
    BY <1>2, <1>5
  <2>2. Trim(rs) = SubSeq(kept, n + 1, Len(kept))
    BY <1>3, <1>5
  <2> HIDE DEF n
  <2>3. /\ Trim(rs) \in Seq(ResultTypes) /\ Len(Trim(rs)) = MaxQueue /\ Distinct(Trim(rs))
        /\ \A i \in DOMAIN Trim(rs) : i + n \in DOMAIN kept /\ Trim(rs)[i] = kept[i + n]
    <3> DEFINE tail == SubSeq(kept, n + 1, Len(kept))
    <3>1. /\ tail \in Seq(ResultTypes) /\ Len(tail) = Len(kept) - n /\ Distinct(tail)
          /\ \A i \in DOMAIN tail : i + n \in DOMAIN kept /\ tail[i] = kept[i + n]
      BY <1>1, <2>1, TailFacts
    <3>2. Trim(rs) = tail
      BY <2>2
    <3> HIDE DEF tail
    <3>3. QED
      BY <2>1, <3>1, <3>2
  <2>4. ~(Len(rs) <= MaxQueue) /\ MaxQueue <= Len(rs)
    BY <1>1, <1>2, <1>5
  <2>5. QED
    BY <1>1, <1>2, <2>3, <2>4
<1>6. CASE ~(Len(kept) > MaxQueue)
  BY <1>1, <1>2, <1>3, <1>4, <1>6
<1>7. QED
  BY <1>5, <1>6

LEMMA WithoutFacts ==
  ASSUME NEW S, NEW q \in Seq(S), NEW r, Distinct(q)
  PROVE  /\ Without(q, r) \in Seq(S) /\ Len(Without(q, r)) <= Len(q)
         /\ Distinct(Without(q, r)) /\ RunsOf(Without(q, r)) \subseteq RunsOf(q) \ {r}
         /\ \A i \in DOMAIN Without(q, r) :
              \E k \in DOMAIN q : q[k].run # r /\ i <= k /\ Without(q, r)[i] = q[k]
         /\ \A k \in DOMAIN q : q[k].run # r =>
              \E i \in DOMAIN Without(q, r) : Without(q, r)[i] = q[k]
<1> DEFINE K == {i \in DOMAIN q : q[i].run # r}
           p == Kept(q, K)
<1>1. K \subseteq DOMAIN q /\ \A k \in DOMAIN q : k \in K <=> q[k].run # r
  OBVIOUS
<1>2. Without(q, r) = p
  BY DEF Without
<1> HIDE DEF K
<1>3. /\ p \in Seq(S) /\ Len(p) <= Len(q)
      /\ Distinct(p) /\ RunsOf(p) \subseteq RunsOf(q)
      /\ \A i \in DOMAIN p : \E k \in DOMAIN q \cap K : i <= k /\ p[i] = q[k]
      /\ \A k \in DOMAIN q \cap K : \E i \in DOMAIN p : p[i] = q[k]
  BY KeptRuns
<1> HIDE DEF p
<1>4. \A i \in DOMAIN p : \E k \in DOMAIN q : q[k].run # r /\ i <= k /\ p[i] = q[k]
  BY <1>1, <1>3
<1>5. \A k \in DOMAIN q : q[k].run # r => \E i \in DOMAIN p : p[i] = q[k]
  BY <1>1, <1>3
<1>6. r \notin RunsOf(p)
  BY <1>4 DEF RunsOf
<1>7. QED
  BY <1>2, <1>3, <1>4, <1>5, <1>6

LEMMA RecordedFacts ==
  ASSUME NEW rs \in Seq(ResultTypes), Distinct(rs), NEW j \in JobTypes, NEW e \in DOMAIN Outcome
  PROVE  LET out == Recorded(rs, j, e)
         IN  /\ out \in Seq(ResultTypes) /\ Len(out) <= MaxQueue /\ Len(out) <= Len(rs) + 1
             /\ Distinct(out)
             /\ \A i \in DOMAIN out : \/ out[i] = Entry(j, e)
                                      \/ \E k \in DOMAIN rs : out[i] = rs[k] /\ rs[k].run # j.run
             /\ Len(rs) < MaxQueue =>
                  \A k \in DOMAIN rs : rs[k].retry /\ rs[k].run # j.run =>
                     \E i \in DOMAIN out : out[i] = rs[k]
<1> DEFINE rest == Without(rs, j.run)
           all == Append(rest, Entry(j, e))
<1>1. /\ rest \in Seq(ResultTypes) /\ Len(rest) <= Len(rs) /\ Distinct(rest)
      /\ RunsOf(rest) \subseteq RunsOf(rs) \ {j.run}
      /\ \A i \in DOMAIN rest : \E k \in DOMAIN rs : rs[k].run # j.run /\ i <= k /\ rest[i] = rs[k]
      /\ \A k \in DOMAIN rs : rs[k].run # j.run => \E i \in DOMAIN rest : rest[i] = rs[k]
  BY WithoutFacts
<1>2. /\ \A i \in DOMAIN rest : \E k \in DOMAIN rs : rest[i] = rs[k] /\ rs[k].run # j.run
      /\ \A k \in DOMAIN rs : rs[k].run # j.run => \E i \in DOMAIN rest : rest[i] = rs[k]
  BY <1>1
<1>3. Recorded(rs, j, e) = Trim(all)
  BY DEF Recorded, Entry
<1>4. Entry(j, e) \in ResultTypes /\ Entry(j, e).run = j.run
  BY EntryTypes
<1> HIDE DEF rest
<1>5. Entry(j, e).run \notin RunsOf(rest)
  BY <1>1, <1>4
<1>6. /\ all \in Seq(ResultTypes) /\ Len(all) = Len(rest) + 1 /\ Distinct(all)
      /\ DOMAIN all = 1 .. (Len(rest) + 1) /\ DOMAIN rest = 1 .. Len(rest)
      /\ \A i \in DOMAIN rest : all[i] = rest[i]
      /\ all[Len(rest) + 1] = Entry(j, e)
  BY <1>1, <1>4, <1>5, AppendFacts
<1>7. Len(rest) \in Nat /\ Len(rs) \in Nat /\ MaxQueue \in Nat
  BY <1>1, LenProperties, QueueAssumption DEF QueueAssumption
<1>8. \A i \in DOMAIN all : \/ all[i] = Entry(j, e)
                            \/ \E k \in DOMAIN rs : all[i] = rs[k] /\ rs[k].run # j.run
  BY <1>2, <1>6, <1>7
<1>9. \A k \in DOMAIN rs : rs[k].run # j.run => \E i \in DOMAIN all : all[i] = rs[k]
  <2> SUFFICES ASSUME NEW k \in DOMAIN rs, rs[k].run # j.run
               PROVE  \E i \in DOMAIN all : all[i] = rs[k]
    OBVIOUS
  <2>1. PICK i \in DOMAIN rest : rest[i] = rs[k]
    BY <1>2
  <2>2. i \in DOMAIN all /\ all[i] = rest[i]
    BY <1>6, <1>7
  <2>3. QED
    BY <2>1, <2>2
<1> HIDE DEF all
<1>10. /\ Trim(all) \in Seq(ResultTypes) /\ Len(Trim(all)) <= MaxQueue /\ Len(Trim(all)) <= Len(all)
       /\ Distinct(Trim(all))
       /\ \A i \in DOMAIN Trim(all) : \E k \in DOMAIN all : Trim(all)[i] = all[k]
       /\ Len(all) <= MaxQueue =>
              \A k \in DOMAIN all :
                all[k].retry => \E i \in DOMAIN Trim(all) : Trim(all)[i] = all[k]
  BY <1>6, TrimFacts
<1>11. Len(Trim(all)) \in Nat /\ Len(all) \in Nat
  BY <1>6, <1>10, LenProperties
<1>12. Len(Trim(all)) <= Len(rs) + 1
  BY <1>1, <1>6, <1>7, <1>10, <1>11
<1>13. \A i \in DOMAIN Trim(all) :
          \/ Trim(all)[i] = Entry(j, e)
          \/ \E k \in DOMAIN rs : Trim(all)[i] = rs[k] /\ rs[k].run # j.run
  BY <1>8, <1>10
<1>14. ASSUME Len(rs) < MaxQueue, NEW k \in DOMAIN rs, rs[k].retry, rs[k].run # j.run
       PROVE  \E i \in DOMAIN Trim(all) : Trim(all)[i] = rs[k]
  <2>1. Len(all) <= MaxQueue
    BY <1>1, <1>6, <1>7, <1>14
  <2>2. PICK i \in DOMAIN all : all[i] = rs[k]
    BY <1>9, <1>14
  <2>3. QED
    BY <1>10, <1>14, <2>1, <2>2
<1>15. QED
  BY <1>3, <1>10, <1>12, <1>13, <1>14

LEMMA RecordAllIs ==
  ASSUME NEW ended, NEW eventOf, Len(ended) \in Nat
  PROVE  \E after :
            /\ after = [n \in 0 .. Len(ended) |->
                          IF n = 0 THEN results
                          ELSE Recorded(after[n - 1], ended[n], eventOf[ended[n].phase])]
            /\ RecordAll(ended, eventOf) = after[Len(ended)]
<1> DEFINE Step(f, n) == IF n = 0 THEN results
                         ELSE Recorded(f[n - 1], ended[n], eventOf[ended[n].phase])
           Upto(f, n) == f = [m \in 0 .. n |-> Step(f, m)]
           Has == {n \in Nat : \E f : Upto(f, n)}
<1>1. 0 \in Has
  <2>1. Upto([m \in 0 .. 0 |-> results], 0)
    OBVIOUS
  <2>2. QED
    BY <2>1
<1>2. ASSUME NEW n \in Has PROVE n + 1 \in Has
  <2>1. PICK f : Upto(f, n)
    OBVIOUS
  <2>2. DEFINE g == [m \in 0 .. (n + 1) |-> IF m <= n THEN f[m] ELSE Step(f, n + 1)]
  <2>3. Upto(g, n + 1)
    <3>1. ASSUME NEW m \in 0 .. (n + 1) PROVE g[m] = Step(g, m)
      <4>1. CASE m <= n
        <5>1. m \in 0 .. n /\ (m # 0 => m - 1 \in 0 .. n /\ m - 1 \in 0 .. (n + 1))
          BY <4>1
        <5>2. f[m] = Step(f, m)
          BY <2>1, <5>1
        <5>3. Step(g, m) = Step(f, m)
          BY <5>1
        <5>4. QED
          BY <5>2, <5>3, <4>1
      <4>2. CASE m = n + 1
        <5>1. n \in 0 .. n /\ n \in 0 .. (n + 1) /\ (n + 1) - 1 = n
          OBVIOUS
        <5>2. Step(g, m) = Step(f, m)
          BY <4>2, <5>1
        <5>3. QED
          BY <5>2, <4>2
      <4>3. QED
        BY <4>1, <4>2
    <3>2. QED
      BY <3>1
  <2> HIDE DEF g, Step
  <2>4. QED
    BY <2>3
<1>3. Len(ended) \in Has
  <2> HIDE DEF Has
  <2>1. Has \in SUBSET Nat
    BY DEF Has
  <2>2. Has = Nat
    BY <1>1, <1>2, <2>1, FromZero
  <2>3. QED
    BY <2>2
<1>4. PICK f : f = [n \in 0 .. Len(ended) |->
                      IF n = 0 THEN results
                      ELSE Recorded(f[n - 1], ended[n], eventOf[ended[n].phase])]
  BY <1>3
<1>5. QED
  BY <1>4 DEF RecordAll

Endable(ended, eventOf) ==
    \A m \in DOMAIN ended : /\ eventOf[ended[m].phase] \in DOMAIN Outcome
                            /\ ended[m].run \notin RunsOf(results)

\* Recording several at once: what is in the results afterwards, and what is not cut off.
LEMMA RecordAllFacts ==
  ASSUME results \in Seq(ResultTypes), Distinct(results), Len(results) <= MaxQueue,
         NEW ended \in Seq(JobTypes), NEW eventOf,
         Endable(ended, eventOf), Distinct(ended)
  PROVE  LET out == RecordAll(ended, eventOf)
         IN  /\ out \in Seq(ResultTypes) /\ Len(out) <= MaxQueue /\ Distinct(out)
             /\ \A i \in DOMAIN out :
                  \/ \E k \in DOMAIN results : out[i] = results[k]
                  \/ \E m \in DOMAIN ended : out[i] = Entry(ended[m], eventOf[ended[m].phase])
             /\ Len(results) + Len(ended) <= MaxQueue =>
                  \A k \in DOMAIN results : results[k].retry =>
                     \E i \in DOMAIN out : out[i] = results[k]
<1>0. /\ Len(ended) \in Nat /\ DOMAIN ended = 1 .. Len(ended) /\ Len(results) \in Nat
      /\ MaxQueue \in Nat /\ \A m \in DOMAIN ended : ended[m] \in JobTypes
  BY LenProperties, ElementOfSeq, QueueAssumption DEF QueueAssumption
<1>0a. \A m \in DOMAIN ended : /\ eventOf[ended[m].phase] \in DOMAIN Outcome
                               /\ ended[m].run \notin RunsOf(results)
  BY DEF Endable
<1> DEFINE E(m) == Entry(ended[m], eventOf[ended[m].phase])
<1>1. PICK after :
        /\ after = [n \in 0 .. Len(ended) |->
                      IF n = 0 THEN results
                      ELSE Recorded(after[n - 1], ended[n], eventOf[ended[n].phase])]
        /\ RecordAll(ended, eventOf) = after[Len(ended)]
  BY <1>0, RecordAllIs
<1>2. /\ after[0] = results
      /\ \A n \in 1 .. Len(ended) :
           after[n] = Recorded(after[n - 1], ended[n], eventOf[ended[n].phase])
  <2> DEFINE Step(n) == IF n = 0 THEN results
                        ELSE Recorded(after[n - 1], ended[n], eventOf[ended[n].phase])
  <2>1. \A n \in 0 .. Len(ended) : after[n] = Step(n)
    BY <1>1
  <2>2. QED
    BY <1>0, <2>1
<1> DEFINE OK(n) ==
             /\ after[n] \in Seq(ResultTypes) /\ Len(after[n]) <= MaxQueue /\ Distinct(after[n])
             /\ Len(after[n]) <= Len(results) + n
             /\ \A i \in DOMAIN after[n] :
                  \/ \E k \in DOMAIN results : after[n][i] = results[k]
                  \/ \E m \in 1 .. n : after[n][i] = E(m)
             /\ Len(results) + n <= MaxQueue =>
                  \A k \in DOMAIN results : results[k].retry =>
                     \E i \in DOMAIN after[n] : after[n][i] = results[k]
           Has == {n \in Nat : n <= Len(ended) => OK(n)}
<1>3. 0 \in Has
  <2>1. OK(0)
    BY <1>0, <1>2
  <2> HIDE DEF OK
  <2>2. QED
    BY <2>1
<1>4. ASSUME NEW n \in Has PROVE n + 1 \in Has
  <2> SUFFICES ASSUME n + 1 <= Len(ended) PROVE OK(n + 1)
    <3> HIDE DEF OK
    <3>1. QED
      OBVIOUS
  <2>1. n \in Nat /\ n + 1 \in 1 .. Len(ended) /\ (n + 1) - 1 = n /\ OK(n)
    <3> HIDE DEF OK
    <3>1. QED
      BY <1>0
  <2> DEFINE was == after[n]
             now == after[n + 1]
             j == ended[n + 1]
             e == eventOf[j.phase]
  <2>2. /\ was \in Seq(ResultTypes) /\ Distinct(was) /\ j \in JobTypes /\ e \in DOMAIN Outcome
        /\ Len(was) \in Nat /\ Len(was) <= Len(results) + n
    BY <1>0, <1>0a, <2>1, LenProperties
  <2>3. now = Recorded(was, j, e)
    BY <1>2, <2>1
  <2>4. /\ \A i \in DOMAIN was : \/ \E k \in DOMAIN results : was[i] = results[k]
                                 \/ \E m \in 1 .. n : was[i] = E(m)
        /\ Len(results) + n <= MaxQueue =>
             \A k \in DOMAIN results : results[k].retry => \E i \in DOMAIN was : was[i] = results[k]
    BY <2>1
  <2>5. E(n + 1) = Entry(j, e)
    OBVIOUS
  <2>6. \A k \in DOMAIN results : results[k].run # j.run
    BY <1>0, <1>0a, <2>1 DEF RunsOf
  <2> HIDE DEF was, now, j, e, E, Has
  <2>7. /\ now \in Seq(ResultTypes) /\ Len(now) <= MaxQueue /\ Len(now) <= Len(was) + 1
        /\ Distinct(now)
        /\ \A i \in DOMAIN now : \/ now[i] = Entry(j, e)
                                 \/ \E k \in DOMAIN was : now[i] = was[k] /\ was[k].run # j.run
        /\ Len(was) < MaxQueue =>
             \A k \in DOMAIN was : was[k].retry /\ was[k].run # j.run =>
                \E i \in DOMAIN now : now[i] = was[k]
    BY <2>2, <2>3, RecordedFacts
  <2>8. Len(now) \in Nat /\ Len(now) <= Len(results) + (n + 1)
    BY <1>0, <2>1, <2>2, <2>7, LenProperties
  <2>9. ASSUME NEW i \in DOMAIN now
        PROVE  \/ \E k \in DOMAIN results : now[i] = results[k]
               \/ \E m \in 1 .. (n + 1) : now[i] = E(m)
    <3>1. CASE now[i] = Entry(j, e)
      BY <2>1, <2>5, <3>1
    <3>2. CASE \E k \in DOMAIN was : now[i] = was[k]
      <4>1. PICK k \in DOMAIN was : now[i] = was[k]
        BY <3>2
      <4>2. \A m \in 1 .. n : m \in 1 .. (n + 1)
        BY <2>1
      <4>3. QED
        BY <2>4, <4>1, <4>2
    <3>3. QED
      BY <2>7, <3>1, <3>2
  <2>10. ASSUME Len(results) + (n + 1) <= MaxQueue, NEW k \in DOMAIN results, results[k].retry
         PROVE  \E i \in DOMAIN now : now[i] = results[k]
    <3>1. Len(results) + n <= MaxQueue /\ Len(was) < MaxQueue
      BY <1>0, <2>1, <2>2, <2>10
    <3>2. PICK i \in DOMAIN was : was[i] = results[k]
      BY <2>4, <2>10, <3>1
    <3>3. QED
      BY <2>6, <2>7, <2>10, <3>1, <3>2
  <2>11. QED
    BY <2>7, <2>8, <2>9, <2>10 DEF now
<1>5. OK(Len(ended))
  <2> HIDE DEF Has, OK
  <2>1. Has \in SUBSET Nat
    BY DEF Has
  <2>2. Has = Nat
    BY <1>3, <1>4, <2>1, FromZero
  <2>3. QED
    BY <1>0, <2>2 DEF Has
<1> DEFINE out == after[Len(ended)]
<1>6. /\ out \in Seq(ResultTypes) /\ Len(out) <= MaxQueue /\ Distinct(out)
      /\ \A i \in DOMAIN out :
           \/ \E k \in DOMAIN results : out[i] = results[k]
           \/ \E m \in DOMAIN ended : out[i] = Entry(ended[m], eventOf[ended[m].phase])
      /\ Len(results) + Len(ended) <= MaxQueue =>
           \A k \in DOMAIN results : results[k].retry => \E i \in DOMAIN out : out[i] = results[k]
  BY <1>0, <1>5
<1>7. RecordAll(ended, eventOf) = out
  BY <1>1
<1> HIDE DEF out, OK, Has
<1>8. QED
  BY <1>6, <1>7

-----------------------------------------------------------------------------
(* The tasks. *)

LEMMA TaskFields ==
  ASSUME NEW t \in TaskTypes
  PROVE  /\ t.kind = "reserve" => t.run \in Ids /\ t.page \in Pages /\ t.profile \in Profiles
         /\ t.kind = "retry" => /\ t.run \in Ids /\ t.of \in Ids
                                /\ t.page \in Pages /\ t.profile \in Profiles
         /\ t.kind = "collect" => t.run \in Ids /\ t.profile \in Profiles
         /\ t.kind \in {"uncollected", "abort"} => t.run \in Ids
         /\ t.kind = "dispatch" => t.of \in {0} \cup Ids /\ t.acks \in BOOLEAN
         /\ t.kind \in {"execute", "refused"} =>
              t.run \in Ids /\ t.of \in {0} \cup Ids /\ t.acks \in BOOLEAN
         /\ t.kind = "handle" => /\ t.run \in Ids /\ t.event \in Terminal \cup {"writing", Pause}
                                 /\ t.known \in SUBSET Profiles /\ t.acks \in BOOLEAN
         /\ t.kind = "recover" => t.active \in {0} \cup Ids
<1>1. CASE t \in [kind : {"reserve"}, run : Ids, page : Pages, profile : Profiles]
  BY <1>1
<1>2. CASE t \in [kind : {"retry"}, run : Ids, of : Ids, page : Pages, profile : Profiles]
  BY <1>2
<1>3. CASE t \in [kind : {"collect"}, run : Ids, profile : Profiles]
  BY <1>3
<1>4. CASE t \in [kind : {"uncollected", "abort"}, run : Ids]
  BY <1>4
<1>5. CASE t \in [kind : {"dispatch"}, of : {0} \cup Ids, acks : BOOLEAN]
  BY <1>5
<1>6. CASE t \in [kind : {"execute", "refused"}, run : Ids, of : {0} \cup Ids, acks : BOOLEAN]
  BY <1>6
<1>7. CASE t \in [kind : {"handle"}, run : Ids, event : Terminal \cup {"writing", Pause},
                  known : SUBSET Profiles, acks : BOOLEAN]
  BY <1>7
<1>8. CASE t \in [kind : {"purge"}, always : BOOLEAN]
  BY <1>8
<1>9. CASE t \in [kind : {"status"}]
  BY <1>9
<1>10. CASE t \in [kind : {"recover"}, active : {0} \cup Ids]
  BY <1>10
<1>11. QED
  BY <1>1, <1>2, <1>3, <1>4, <1>5, <1>6, <1>7, <1>8, <1>9, <1>10 DEF TaskTypes

\* A task whose document no longer waits is the same task.
LEMMA UnawaitedFacts ==
  ASSUME NEW t \in TaskTypes
  PROVE  /\ Unawaited(t) \in TaskTypes /\ Unawaited(t).kind = t.kind
         /\ t.kind \in {"reserve", "retry", "collect", "uncollected", "abort"} => Unawaited(t) = t
         /\ t.kind \in {"execute", "refused"} => Unawaited(t).run = t.run
         /\ t.kind = "handle" =>
              /\ Unawaited(t).run = t.run /\ Unawaited(t).event = t.event
              /\ ~Unawaited(t).acks
<1> DEFINE u == Unawaited(t)
<1>1. CASE t \in [kind : {"reserve"}, run : Ids, page : Pages, profile : Profiles]
  <2>1. "acks" \notin DOMAIN t
    BY <1>1
  <2>2. QED
    BY <1>1, <2>1 DEF Unawaited
<1>2. CASE t \in [kind : {"retry"}, run : Ids, of : Ids, page : Pages, profile : Profiles]
  <2>1. "acks" \notin DOMAIN t
    BY <1>2
  <2>2. QED
    BY <1>2, <2>1 DEF Unawaited
<1>3. CASE t \in [kind : {"collect"}, run : Ids, profile : Profiles]
  <2>1. "acks" \notin DOMAIN t
    BY <1>3
  <2>2. QED
    BY <1>3, <2>1 DEF Unawaited
<1>4. CASE t \in [kind : {"uncollected", "abort"}, run : Ids]
  <2>1. "acks" \notin DOMAIN t
    BY <1>4
  <2>2. QED
    BY <1>4, <2>1 DEF Unawaited
<1>5. CASE t \in [kind : {"dispatch"}, of : {0} \cup Ids, acks : BOOLEAN]
  <2>1. u \in [kind : {"dispatch"}, of : {0} \cup Ids, acks : BOOLEAN]
    BY <1>5 DEF Unawaited
  <2>2. u \in TaskTypes
    BY <2>1 DEF TaskTypes
  <2>3. QED
    BY <1>5, <2>1, <2>2
<1>6. CASE t \in [kind : {"execute", "refused"}, run : Ids, of : {0} \cup Ids, acks : BOOLEAN]
  <2>1. /\ u \in [kind : {"execute", "refused"}, run : Ids, of : {0} \cup Ids, acks : BOOLEAN]
        /\ u.run = t.run /\ u.kind = t.kind
    BY <1>6 DEF Unawaited
  <2>2. u \in TaskTypes
    BY <2>1 DEF TaskTypes
  <2>3. QED
    BY <1>6, <2>1, <2>2
<1>7. CASE t \in [kind : {"handle"}, run : Ids, event : Terminal \cup {"writing", Pause},
                  known : SUBSET Profiles, acks : BOOLEAN]
  <2>1. /\ u \in [kind : {"handle"}, run : Ids, event : Terminal \cup {"writing", Pause},
                  known : SUBSET Profiles, acks : BOOLEAN]
        /\ u.run = t.run /\ u.event = t.event /\ ~u.acks
    BY <1>7 DEF Unawaited
  <2>2. u \in TaskTypes
    BY <2>1 DEF TaskTypes
  <2>3. QED
    BY <1>7, <2>1, <2>2
<1>8. CASE t \in [kind : {"purge"}, always : BOOLEAN]
  <2>1. "acks" \notin DOMAIN t
    BY <1>8
  <2>2. QED
    BY <1>8, <2>1 DEF Unawaited
<1>9. CASE t \in [kind : {"status"}]
  <2>1. "acks" \notin DOMAIN t
    BY <1>9
  <2>2. QED
    BY <1>9, <2>1 DEF Unawaited
<1>10. CASE t \in [kind : {"recover"}, active : {0} \cup Ids]
  <2>1. "acks" \notin DOMAIN t
    BY <1>10
  <2>2. QED
    BY <1>10, <2>1 DEF Unawaited
<1>11. QED
  BY <1>1, <1>2, <1>3, <1>4, <1>5, <1>6, <1>7, <1>8, <1>9, <1>10 DEF TaskTypes

LEMMA DispatchTypes ==
  ASSUME NEW r \in {0} \cup Ids, NEW acks \in BOOLEAN
  PROVE  Dispatch(r, acks) \in TaskTypes /\ Dispatch(r, acks).kind = "dispatch"
<1>1. Dispatch(r, acks) \in [kind : {"dispatch"}, of : {0} \cup Ids, acks : BOOLEAN]
  BY DEF Dispatch
<1>2. QED
  BY <1>1 DEF TaskTypes

-----------------------------------------------------------------------------
(* The inductive invariant. *)

QueueTypes ==
    /\ jobs \in Seq(JobTypes) /\ results \in Seq(ResultTypes)
    /\ Len(jobs) <= MaxQueue /\ Len(results) <= MaxQueue
    /\ Distinct(jobs) /\ Distinct(results)
    /\ RunsOf(jobs) \cap RunsOf(results) = {}

SlotTypes == {s \in [run : {0} \cup Ids, stage : {"idle", "opening", "announcing", "working"},
                     aborted : BOOLEAN] : s.run = 0 <=> s.stage = "idle"}

ReportTypes == [run : Ids, event : Terminal \cup {Pause}, sent : BOOLEAN]

WorkTypes ==
    /\ tasks \subseteq TaskTypes /\ slot \in SlotTypes /\ reports \subseteq ReportTypes

CountTypes ==
    /\ profiles \subseteq Profiles /\ DefaultProfile \in profiles
    /\ IsFiniteSet(Profiles \ profiles)
    /\ asks \in 0 .. Len(Asked)
    /\ cancels \in Nat /\ faults \in Nat /\ Upsets <= MaxUpsets
    /\ lost \in BOOLEAN /\ early \in BOOLEAN

HasRun(t)  == t.kind \in {"reserve", "retry", "collect", "uncollected", "abort",
                          "execute", "refused", "handle"}
Pending(t) == t.kind \in {"reserve", "retry"}

\* The run r may yet be heard of: it executes, is sent to the document or reported on.
Token(r) ==
    \/ slot.run = r
    \/ \E x \in reports : x.run = r
    \/ \E t \in tasks : t.kind \in {"execute", "refused", "handle", "abort"} /\ t.run = r

InUse(r) ==
    \/ r \in RunsOf(jobs) \cup RunsOf(results)
    \/ Token(r)
    \/ \E t \in tasks : t.kind \in {"collect", "uncollected"} /\ t.run = r

\* Runs are numbered as they are asked for, and a number is used once.
Known == \A r \in Ids : InUse(r) => r <= asks
Fresh == \A t \in tasks : Pending(t) =>
            /\ t.run <= asks /\ ~InUse(t.run)
            /\ \A u \in tasks : Pending(u) /\ u.run = t.run => u = t

\* Only the first job executes, or is heard of.
HeadOnly == \A i \in DOMAIN jobs : i > 1 =>
               jobs[i].phase \notin Executing /\ ~Token(jobs[i].run)

\* A result somebody asked to retry is over, and of the page that is asked for again.
RetryOK ==
    \A t \in tasks : t.kind = "retry" =>
        /\ t.of <= asks /\ t.of \notin RunsOf(jobs)
        /\ \A u \in tasks : Pending(u) => u.run # t.of
        /\ \A i \in DOMAIN results : results[i].run = t.of => results[i].page = t.page

\* The one announcement whose answer the document waits for is of the run that executes.
Announces(t) == t.kind = "handle" /\ t.event = "writing" /\ t.acks

AnnounceOK ==
    \A t \in tasks : Announces(t) =>
        /\ slot.run = t.run /\ slot.stage = "announcing"
        /\ \A u \in tasks : Announces(u) => u = t

GatherInv ==
    /\ QueueTypes /\ WorkTypes /\ CountTypes
    /\ Known /\ Fresh /\ HeadOnly /\ RetryOK /\ AnnounceOK

-----------------------------------------------------------------------------
(* What a step does to the queue. *)

\* No run comes into use but that of a task taken up; no task is pending that was not.
UsesStep ==
    /\ asks' = asks
    /\ \A t \in tasks' : Pending(t) => t \in tasks
    /\ \A r \in Ids : InUse(r)' => InUse(r) \/ \E t \in tasks \ tasks' : Pending(t) /\ t.run = r

AskStep ==
    /\ asks' = asks + 1 /\ asks + 1 \in Ids
    /\ \E n : /\ Pending(n) /\ n.run = asks + 1 /\ tasks' = tasks \cup {n}
              /\ n.kind = "retry" => \E i \in DOMAIN results :
                    n.of = results[i].run /\ n.page = results[i].page
    /\ UNCHANGED <<jobs, results, slot, reports>>

\* Nothing comes to execute but the first job.
JobStep ==
    \A i \in DOMAIN jobs' :
        \/ \E k \in DOMAIN jobs :
             /\ i <= k /\ jobs'[i].run = jobs[k].run
             /\ jobs'[i].phase \in Executing =>
                  jobs[k].phase \in Executing \/ k = 1 \/ Token(jobs[k].run)
        \/ jobs'[i].phase \notin Executing /\ \E t \in tasks : Pending(t) /\ t.run = jobs'[i].run

TokenStep ==
    \A r \in Ids : Token(r)' =>
        \/ Token(r)
        \/ \E k \in DOMAIN jobs : jobs[k].run = r /\ (k = 1 \/ jobs[k].phase \in Executing)

CancelStep ==
    \A i \in DOMAIN jobs : jobs[i].phase = "cancelling" =>
       \/ \E k \in DOMAIN jobs' : jobs'[k] = jobs[i]
       \/ /\ \A k \in DOMAIN jobs' : jobs'[k].run # jobs[i].run
          /\ \A k \in DOMAIN results' : results'[k].run = jobs[i].run =>
               results'[k].phase \in {"cancelled", "failed"} /\ ~results'[k].retry

LEMMA QueueFacts ==
  ASSUME NEW S, NEW q \in Seq(S)
  PROVE  /\ Len(q) \in Nat /\ DOMAIN q = 1 .. Len(q)
         /\ \A i \in DOMAIN q : q[i] \in S /\ i \in Nat
BY LenProperties, ElementOfSeq

LEMMA KnownFreshStep ==
  ASSUME CountTypes, WorkTypes, Known, Fresh, UsesStep \/ AskStep
  PROVE  Known' /\ Fresh'
<1>0. Len(Asked) \in Nat /\ Ids = 1 .. Len(Asked) /\ asks \in Nat
  BY LenProperties, QueueAssumption DEF QueueAssumption, Ids, CountTypes
<1>t. \A t \in tasks : Pending(t) => t.run \in Ids
  BY TaskFields DEF WorkTypes, Pending
<1>1. CASE UsesStep
  <2>1. Known'
    BY <1>1 DEF Known, Fresh, UsesStep
  <2>2. Fresh'
    <3> SUFFICES ASSUME NEW t \in tasks', Pending(t)
                 PROVE  /\ t.run <= asks' /\ ~InUse(t.run)'
                        /\ \A u \in tasks' : Pending(u) /\ u.run = t.run => u = t
      BY DEF Fresh
    <3>1. t \in tasks /\ t.run \in Ids
      BY <1>1, <1>t DEF UsesStep
    <3>2. /\ t.run <= asks /\ ~InUse(t.run)
          /\ \A u \in tasks : Pending(u) /\ u.run = t.run => u = t
      BY <3>1 DEF Fresh
    <3>3. QED
      BY <1>1, <3>1, <3>2 DEF UsesStep
  <2>3. QED
    BY <2>1, <2>2
<1>2. CASE AskStep
  <2>1. PICK n : Pending(n) /\ n.run = asks + 1 /\ tasks' = tasks \cup {n}
    BY <1>2 DEF AskStep
  <2>2. \A r : InUse(r)' <=> InUse(r)
    <3>1. n.kind \notin {"collect", "uncollected", "execute", "refused", "handle", "abort"}
      BY <2>1 DEF Pending
    <3>2. QED
      BY <1>2, <2>1, <3>1 DEF AskStep, InUse, Token
  <2>3. Known'
    BY <1>0, <1>2, <2>2 DEF Known, AskStep
  <2>4. Fresh'
    <3> SUFFICES ASSUME NEW t \in tasks', Pending(t)
                 PROVE  /\ t.run <= asks' /\ ~InUse(t.run)'
                        /\ \A u \in tasks' : Pending(u) /\ u.run = t.run => u = t
      BY DEF Fresh
    <3>0. \A u \in tasks : Pending(u) => u.run <= asks /\ u.run # asks + 1
      BY <1>0, <1>t DEF Fresh
    <3>1. CASE t = n
      <4>1. ~InUse(asks + 1)
        BY <1>0, <1>2 DEF Known, AskStep
      <4>2. QED
        BY <1>0, <1>2, <2>1, <2>2, <3>0, <3>1, <4>1 DEF AskStep
    <3>2. CASE t \in tasks
      <4>1. t.run <= asks /\ t.run \in Ids /\ ~InUse(t.run)
        BY <1>t, <3>2 DEF Fresh
      <4>2. \A u \in tasks' : Pending(u) /\ u.run = t.run => u = t
        BY <2>1, <3>0, <3>2 DEF Fresh
      <4>3. QED
        BY <1>0, <1>2, <2>2, <4>1, <4>2 DEF AskStep
    <3>3. QED
      BY <2>1, <3>1, <3>2
  <2>5. QED
    BY <2>3, <2>4
<1>3. QED
  BY <1>1, <1>2

LEMMA HeadOnlyStep ==
  ASSUME QueueTypes, QueueTypes', WorkTypes, Fresh, HeadOnly, JobStep, TokenStep
  PROVE  HeadOnly'
<1>1. \A i \in DOMAIN jobs : jobs[i].run \in Ids /\ i \in Nat
  <2>1. \A i \in DOMAIN jobs : jobs[i] \in JobTypes /\ i \in Nat
    BY QueueFacts DEF QueueTypes
  <2>2. QED
    BY <2>1 DEF JobTypes
<1>2. jobs' \in Seq(JobTypes)
  BY DEF QueueTypes
<1>3. \A i \in DOMAIN jobs' : jobs'[i].run \in Ids /\ i \in Nat
  <2>1. \A i \in DOMAIN jobs' : jobs'[i] \in JobTypes /\ i \in Nat
    BY <1>2, QueueFacts
  <2>2. QED
    BY <2>1 DEF JobTypes
<1> SUFFICES ASSUME NEW i \in DOMAIN jobs', i > 1, NEW r, r = jobs'[i].run
             PROVE  jobs'[i].phase \notin Executing /\ ~Token(r)'
  BY DEF HeadOnly, Token
<1>4. CASE \E k \in DOMAIN jobs :
             /\ i <= k /\ jobs'[i].run = jobs[k].run
             /\ jobs'[i].phase \in Executing =>
                  jobs[k].phase \in Executing \/ k = 1 \/ Token(jobs[k].run)
  <2>1. PICK k \in DOMAIN jobs :
             /\ i <= k /\ jobs'[i].run = jobs[k].run
             /\ jobs'[i].phase \in Executing =>
                  jobs[k].phase \in Executing \/ k = 1 \/ Token(jobs[k].run)
    BY <1>4
  <2>2. k > 1 /\ jobs[k].phase \notin Executing /\ ~Token(jobs[k].run)
    BY <1>1, <1>3, <2>1 DEF HeadOnly
  <2>3. \A m \in DOMAIN jobs : jobs[m].run = jobs[k].run => m = k
    BY DEF QueueTypes, Distinct
  <2>4. ~Token(r)'
    BY <1>1, <2>1, <2>2, <2>3 DEF TokenStep
  <2>5. QED
    BY <2>1, <2>2, <2>4
<1>5. CASE jobs'[i].phase \notin Executing /\ \E t \in tasks : Pending(t) /\ t.run = jobs'[i].run
  <2>1. ~InUse(r)
    BY <1>5 DEF Fresh
  <2>2. ~Token(r) /\ \A k \in DOMAIN jobs : jobs[k].run # r
    BY <2>1 DEF InUse, RunsOf
  <2>3. ~Token(r)'
    BY <1>3, <2>2 DEF TokenStep
  <2>4. QED
    BY <1>5, <2>3
<1>6. QED
  BY <1>4, <1>5 DEF JobStep

-----------------------------------------------------------------------------
(* The ways the queue changes. *)

ResultStep ==
    \A i \in DOMAIN results :
       LET r    == results[i]
           kept == {k \in DOMAIN results' : results'[k].run = r.run}
       IN  /\ \A k \in kept : \/ results'[k] = r
                              \/ r.retry /\ results'[k].phase = "complete"
           /\ kept = {} /\ r.retry /\ Len(results) + Len(jobs) <= MaxQueue + Len(jobs') =>
                Len(jobs') > Len(jobs) /\ Last(jobs').page = r.page

RunsStay == \A r \in RunsOf(jobs') \cup RunsOf(results') :
               \/ r \in RunsOf(jobs) \cup RunsOf(results)
               \/ \E t \in tasks \ tasks' : Pending(t) /\ t.run = r

PagesStay == \A i \in DOMAIN results' :
                \/ results'[i].run \in RunsOf(jobs)
                \/ \E k \in DOMAIN results :
                      results'[i].run = results[k].run /\ results'[i].page = results[k].page

QueueStep == QueueTypes' /\ JobStep /\ CancelStep /\ ResultStep /\ RunsStay /\ PagesStay

LEMMA KeptSplit ==
  ASSUME NEW S, NEW q \in Seq(S), NEW K
  PROVE  Len(Kept(q, K)) + Len(Kept(q, DOMAIN q \ K)) = Len(q)
<1> DEFINE L == DOMAIN q \ K
<1>0. Len(q) \in Nat /\ DOMAIN q = 1 .. Len(q) /\ \A i \in DOMAIN q : q[i] \in S
  BY QueueFacts
<1>0a. \A n \in 1 .. Len(q) : n \in L <=> n \notin K
  BY <1>0
<1> HIDE DEF L
<1>1. PICK f : /\ f = [n \in 0 .. Len(q) |->
                         IF n = 0 THEN <<>>
                         ELSE IF n \in K THEN Append(f[n - 1], q[n]) ELSE f[n - 1]]
               /\ Kept(q, K) = f[Len(q)]
  BY KeptIs
<1>2. PICK g : /\ g = [n \in 0 .. Len(q) |->
                         IF n = 0 THEN <<>>
                         ELSE IF n \in L THEN Append(g[n - 1], q[n]) ELSE g[n - 1]]
               /\ Kept(q, L) = g[Len(q)]
  BY KeptIs
<1> DEFINE F(n) == IF n = 0 THEN <<>> ELSE IF n \in K THEN Append(f[n - 1], q[n]) ELSE f[n - 1]
           G(n) == IF n = 0 THEN <<>> ELSE IF n \in L THEN Append(g[n - 1], q[n]) ELSE g[n - 1]
<1>2f. \A n \in 0 .. Len(q) : f[n] = F(n)
  BY <1>1
<1>2g. \A n \in 0 .. Len(q) : g[n] = G(n)
  BY <1>2
<1>3. f[0] = <<>> /\ g[0] = <<>>
  BY <1>0, <1>2f, <1>2g
<1>4. \A n \in 1 .. Len(q) : f[n] = IF n \in K THEN Append(f[n - 1], q[n]) ELSE f[n - 1]
  BY <1>0, <1>2f
<1>5. \A n \in 1 .. Len(q) : g[n] = IF n \in L THEN Append(g[n - 1], q[n]) ELSE g[n - 1]
  BY <1>0, <1>2g
<1> DEFINE Good(n) == f[n] \in Seq(S) /\ g[n] \in Seq(S) /\ Len(f[n]) + Len(g[n]) = n
           Has == {n \in Nat : n <= Len(q) => Good(n)}
<1>6. 0 \in Has
  <2>1. f[0] \in Seq(S) /\ g[0] \in Seq(S) /\ Len(f[0]) = 0 /\ Len(g[0]) = 0
    BY <1>3, EmptySeq
  <2>2. Good(0)
    <3>1. Len(f[0]) + Len(g[0]) = 0
      BY <2>1
    <3>2. QED
      BY <2>1, <3>1
  <2> HIDE DEF Good
  <2>3. QED
    BY <2>2
<1>7. ASSUME NEW n \in Has PROVE n + 1 \in Has
  <2> SUFFICES ASSUME n + 1 <= Len(q) PROVE Good(n + 1)
    <3> HIDE DEF Good
    <3>1. QED
      OBVIOUS
  <2>1. n \in Nat /\ n + 1 \in 1 .. Len(q) /\ (n + 1) - 1 = n /\ Good(n)
    <3> HIDE DEF Good
    <3>1. QED
      BY <1>0
  <2>2. f[n] \in Seq(S) /\ g[n] \in Seq(S) /\ Len(f[n]) + Len(g[n]) = n /\ q[n + 1] \in S
    BY <1>0, <2>1
  <2>3. Len(f[n]) \in Nat /\ Len(g[n]) \in Nat
    BY <2>2, LenProperties
  <2>4. CASE n + 1 \in K
    <3>1. f[n + 1] = Append(f[n], q[n + 1]) /\ g[n + 1] = g[n]
      BY <1>0a, <1>4, <1>5, <2>1, <2>4
    <3>2. f[n + 1] \in Seq(S) /\ Len(f[n + 1]) = Len(f[n]) + 1
      BY <2>2, <3>1, AppendProperties
    <3>3. Len(f[n + 1]) + Len(g[n + 1]) = n + 1
      <4>1. ASSUME NEW x \in Nat, NEW y \in Nat, x + y = n
            PROVE  (x + 1) + y = n + 1 /\ x + (y + 1) = n + 1
        BY <2>1, <4>1
      <4>2. (Len(f[n]) + 1) + Len(g[n]) = n + 1
        BY <2>2, <2>3, <4>1
      <4>3. Len(g[n + 1]) = Len(g[n])
        BY <3>1
      <4>4. QED
        BY <3>2, <4>2, <4>3
    <3>4. QED
      BY <2>2, <3>1, <3>2, <3>3
  <2>5. CASE n + 1 \notin K
    <3>1. g[n + 1] = Append(g[n], q[n + 1]) /\ f[n + 1] = f[n]
      BY <1>0a, <1>4, <1>5, <2>1, <2>5
    <3>2. g[n + 1] \in Seq(S) /\ Len(g[n + 1]) = Len(g[n]) + 1
      BY <2>2, <3>1, AppendProperties
    <3>3. Len(f[n + 1]) + Len(g[n + 1]) = n + 1
      <4>1. ASSUME NEW x \in Nat, NEW y \in Nat, x + y = n
            PROVE  (x + 1) + y = n + 1 /\ x + (y + 1) = n + 1
        BY <2>1, <4>1
      <4>2. Len(f[n]) + (Len(g[n]) + 1) = n + 1
        BY <2>2, <2>3, <4>1
      <4>3. Len(f[n + 1]) = Len(f[n])
        BY <3>1
      <4>4. QED
        BY <3>2, <4>2, <4>3
    <3>4. QED
      BY <2>2, <3>1, <3>2, <3>3
  <2>6. QED
    BY <2>4, <2>5
<1>8. Good(Len(q))
  <2> HIDE DEF Has, Good
  <2>1. Has \in SUBSET Nat
    BY DEF Has
  <2>2. Has = Nat
    BY <1>6, <1>7, <2>1, FromZero
  <2>3. QED
    BY <1>0, <2>2 DEF Has
<1>9. QED
  BY <1>1, <1>2, <1>8 DEF L

LEMMA JobOfFacts ==
  ASSUME QueueTypes, NEW r, Listed(r)
  PROVE  /\ JobOf(r) \in JobTypes /\ JobOf(r).run = r
         /\ \E i \in DOMAIN jobs : jobs[i] = JobOf(r)
         /\ \A i \in DOMAIN jobs : jobs[i].run = r => jobs[i] = JobOf(r)
<1>1. \A i \in DOMAIN jobs : jobs[i] \in JobTypes
  BY QueueFacts DEF QueueTypes
<1>2. \E j \in ToSet(jobs) : j.run = r
  BY DEF Listed, ToSet
<1>3. JobOf(r) \in ToSet(jobs) /\ JobOf(r).run = r
  BY <1>2 DEF JobOf
<1>4. PICK i \in DOMAIN jobs : jobs[i] = JobOf(r)
  BY <1>3 DEF ToSet
<1>5. \A k \in DOMAIN jobs : jobs[k].run = r => k = i
  BY <1>3, <1>4 DEF QueueTypes, Distinct
<1>6. QED
  BY <1>1, <1>3, <1>4, <1>5

\* The length of a queue of which the run r went.
LEMMA WithoutShorter ==
  ASSUME NEW S, NEW q \in Seq(S), NEW r, r \in RunsOf(q)
  PROVE  Len(Without(q, r)) < Len(q)
<1> DEFINE K == {i \in DOMAIN q : q[i].run # r}
           gone == Kept(q, DOMAIN q \ K)
<1>1. PICK k \in DOMAIN q \cap (DOMAIN q \ K) : TRUE
  BY DEF RunsOf
<1>2. Without(q, r) = Kept(q, K)
  BY DEF Without
<1> HIDE DEF K
<1>3. gone \in Seq(S)
  BY KeptFacts
<1>4. PICK e : \A m \in DOMAIN q \cap (DOMAIN q \ K) : \E i \in DOMAIN gone : e[i] = m
  BY KeptFacts
<1>5. PICK i \in DOMAIN gone : TRUE
  BY <1>1, <1>4
<1>6. Len(gone) \in Nat /\ i \in 1 .. Len(gone)
  BY <1>3, <1>5, LenProperties
<1>7. Len(Kept(q, K)) \in Nat /\ Len(q) \in Nat
  BY KeptFacts, LenProperties
<1>8. Len(Kept(q, K)) + Len(gone) = Len(q)
  BY KeptSplit
<1> HIDE DEF gone
<1>9. QED
  BY <1>2, <1>6, <1>7, <1>8

LEMMA SameStep ==
  ASSUME QueueTypes, UNCHANGED <<jobs, results>>
  PROVE  QueueStep
<1>1. QueueTypes' /\ RunsStay /\ PagesStay
  BY DEF QueueTypes, RunsStay, PagesStay
<1>2. \A i \in DOMAIN jobs : i <= i
  BY QueueFacts DEF QueueTypes
<1>3. JobStep
  BY <1>2 DEF JobStep
<1>4. CancelStep
  BY DEF CancelStep
<1>5. ResultStep
  BY DEF ResultStep, QueueTypes, Distinct
<1>6. QED
  BY <1>1, <1>3, <1>4, <1>5 DEF QueueStep

LEMMA PhaseStep ==
  ASSUME QueueTypes, NEW r, NEW phase \in {"collecting", "queued"} \cup Executing,
         jobs' = WithPhase(jobs, r, phase), results' = results,
         \A k \in DOMAIN jobs : jobs[k].run = r =>
            /\ phase \in Executing => jobs[k].phase \in Executing \/ k = 1 \/ Token(r)
            /\ jobs[k].phase = "cancelling" => phase = "cancelling"
  PROVE  QueueStep
<1>1. /\ jobs' \in Seq(JobTypes) /\ Len(jobs') = Len(jobs) /\ DOMAIN jobs' = DOMAIN jobs
      /\ \A i \in DOMAIN jobs :
           jobs'[i] = IF jobs[i].run = r THEN [jobs[i] EXCEPT !.phase = phase] ELSE jobs[i]
  BY WithPhaseFacts DEF QueueTypes
<1>2. \A i \in DOMAIN jobs : jobs[i] \in JobTypes /\ i \in Nat
  BY QueueFacts DEF QueueTypes
<1>3. \A i \in DOMAIN jobs : jobs'[i].run = jobs[i].run
  BY <1>1, <1>2 DEF JobTypes
<1>4. RunsOf(jobs') = RunsOf(jobs) /\ Distinct(jobs')
  <2>1. Distinct(jobs)
    BY DEF QueueTypes
  <2>2. QED
    BY <1>1, <1>3, <2>1, SameRuns
<1>5. QueueTypes' /\ RunsStay /\ PagesStay
  BY <1>1, <1>4 DEF QueueTypes, RunsStay, PagesStay
<1>6. JobStep
  <2>1. ASSUME NEW i \in DOMAIN jobs, jobs'[i].phase \in Executing
        PROVE  jobs[i].phase \in Executing \/ i = 1 \/ Token(jobs[i].run)
    <3>1. CASE jobs[i].run = r
      <4>1. jobs'[i].phase = phase
        BY <1>1, <1>2, <3>1 DEF JobTypes
      <4>2. QED
        BY <2>1, <3>1, <4>1
    <3>2. QED
      BY <1>1, <2>1, <3>1
  <2>2. \A i \in DOMAIN jobs : i <= i
    BY <1>2
  <2>3. QED
    BY <1>1, <1>3, <2>1, <2>2 DEF JobStep
<1>7. CancelStep
  <2> SUFFICES ASSUME NEW i \in DOMAIN jobs, jobs[i].phase = "cancelling"
               PROVE  jobs'[i] = jobs[i]
    BY <1>1 DEF CancelStep
  <2>1. CASE jobs[i].run = r
    BY <1>1, <1>2, <2>1 DEF JobTypes
  <2>2. QED
    BY <1>1, <2>1
<1>8. ResultStep
  BY DEF ResultStep, QueueTypes, Distinct
<1>9. QED
  BY <1>5, <1>6, <1>7, <1>8 DEF QueueStep

LEMMA RemoveStep ==
  ASSUME QueueTypes, NEW r, Listed(r), NEW e \in DOMAIN Outcome, RecordAndRemove(r, e),
         JobOf(r).phase = "cancelling" => e \in {"cancelled", "failed"}
  PROVE  /\ QueueStep
         /\ \A i \in DOMAIN jobs' : \E k \in DOMAIN jobs :
              jobs[k].run # r /\ i <= k /\ jobs'[i] = jobs[k]
         /\ \A k \in DOMAIN jobs : jobs[k].run # r => \E i \in DOMAIN jobs' : jobs'[i] = jobs[k]
<1> DEFINE j == JobOf(r)
<1>1. /\ j \in JobTypes /\ j.run = r
      /\ \E i \in DOMAIN jobs : jobs[i] = j
      /\ \A i \in DOMAIN jobs : jobs[i].run = r => jobs[i] = j
  BY JobOfFacts
<1>2. jobs \in Seq(JobTypes) /\ Distinct(jobs) /\ results \in Seq(ResultTypes) /\ Distinct(results)
  BY DEF QueueTypes
<1>3. jobs' = Without(jobs, r) /\ results' = Recorded(results, j, e)
  BY DEF RecordAndRemove
<1> HIDE DEF j
<1>4. /\ jobs' \in Seq(JobTypes) /\ Len(jobs') <= Len(jobs)
      /\ Distinct(jobs') /\ RunsOf(jobs') \subseteq RunsOf(jobs) \ {r}
      /\ \A i \in DOMAIN jobs' :
           \E k \in DOMAIN jobs : jobs[k].run # r /\ i <= k /\ jobs'[i] = jobs[k]
      /\ \A k \in DOMAIN jobs : jobs[k].run # r => \E i \in DOMAIN jobs' : jobs'[i] = jobs[k]
  BY <1>2, <1>3, WithoutFacts
<1>5. /\ results' \in Seq(ResultTypes) /\ Len(results') <= MaxQueue
      /\ Distinct(results')
      /\ \A i \in DOMAIN results' :
           \/ results'[i] = Entry(j, e)
           \/ \E k \in DOMAIN results : results'[i] = results[k] /\ results[k].run # j.run
      /\ Len(results) < MaxQueue =>
           \A k \in DOMAIN results : results[k].retry /\ results[k].run # j.run =>
              \E i \in DOMAIN results' : results'[i] = results[k]
  <2>1. j \in JobTypes /\ e \in DOMAIN Outcome
    BY <1>1
  <2> DEFINE out == Recorded(results, j, e)
  <2>2. /\ out \in Seq(ResultTypes) /\ Len(out) <= MaxQueue /\ Distinct(out)
        /\ \A i \in DOMAIN out :
             \/ out[i] = Entry(j, e)
             \/ \E k \in DOMAIN results : out[i] = results[k] /\ results[k].run # j.run
        /\ Len(results) < MaxQueue =>
             \A k \in DOMAIN results : results[k].retry /\ results[k].run # j.run =>
                \E i \in DOMAIN out : out[i] = results[k]
    BY <1>2, <2>1, RecordedFacts
  <2> HIDE DEF out
  <2>3. results' = out
    BY <1>3 DEF out
  <2>4. QED
    BY <2>2, <2>3
<1>6. r \in RunsOf(jobs) /\ r \notin RunsOf(results)
  BY <1>1 DEF RunsOf, QueueTypes
<1>7. \A k \in DOMAIN results : results[k].run # r
  BY <1>6 DEF RunsOf
<1>8. Entry(j, e).run = r
  BY <1>1 DEF Entry
<1>9. RunsOf(results') \subseteq RunsOf(results) \cup {r}
  BY <1>5, <1>8 DEF RunsOf
<1>10. Len(jobs') < Len(jobs)
  BY <1>2, <1>3, <1>6, WithoutShorter
<1>11. Len(jobs) \in Nat /\ Len(jobs') \in Nat /\ Len(results) \in Nat /\ MaxQueue \in Nat
  BY <1>2, <1>4, LenProperties, QueueAssumption DEF QueueAssumption
<1>12. QueueTypes' /\ RunsStay
  <2>1. Len(jobs') <= MaxQueue
    BY <1>10, <1>11 DEF QueueTypes
  <2>2. QED
    BY <1>4, <1>5, <1>6, <1>9, <2>1 DEF QueueTypes, RunsStay
<1>12p. PagesStay
  BY <1>5, <1>6, <1>8 DEF PagesStay
<1>13. JobStep
  BY <1>4 DEF JobStep
<1>14. CancelStep
  <2> SUFFICES ASSUME NEW i \in DOMAIN jobs, jobs[i].phase = "cancelling"
               PROVE  \/ \E k \in DOMAIN jobs' : jobs'[k] = jobs[i]
                      \/ /\ \A k \in DOMAIN jobs' : jobs'[k].run # jobs[i].run
                         /\ \A k \in DOMAIN results' : results'[k].run = jobs[i].run =>
                              results'[k].phase \in {"cancelled", "failed"} /\ ~results'[k].retry
    BY DEF CancelStep
  <2>1. CASE jobs[i].run # r
    BY <1>4, <2>1
  <2>2. CASE jobs[i].run = r
    <3>1. e \in {"cancelled", "failed"}
      BY <1>1, <2>2 DEF j
    <3>2. Entry(j, e).phase \in {"cancelled", "failed"} /\ ~Entry(j, e).retry
      <4>1. Entry(j, e).phase = Outcome[e] /\ Entry(j, e).retry = (e = "partial")
        BY DEF Entry
      <4>2. Outcome["cancelled"] = "cancelled" /\ Outcome["failed"] = "failed"
        BY DEF Outcome
      <4>3. QED
        BY <3>1, <4>1, <4>2
    <3>3. \A k \in DOMAIN results' : results'[k].run = r => results'[k] = Entry(j, e)
      BY <1>5, <1>7
    <3>4. \A k \in DOMAIN jobs' : jobs'[k].run # r
      BY <1>4
    <3>5. QED
      BY <2>2, <3>2, <3>3, <3>4
  <2>3. QED
    BY <2>1, <2>2
<1>15. ResultStep
  <2> SUFFICES ASSUME NEW i \in DOMAIN results
               PROVE  /\ \A k \in DOMAIN results' : results'[k].run = results[i].run =>
                            results'[k] = results[i]
                      /\ results[i].retry /\ Len(results) + Len(jobs) <= MaxQueue + Len(jobs') =>
                           \E k \in DOMAIN results' : results'[k].run = results[i].run
    BY DEF ResultStep
  <2>1. \A k \in DOMAIN results' : results'[k].run = results[i].run => results'[k] = results[i]
    BY <1>5, <1>7, <1>8 DEF QueueTypes, Distinct
  <2>2. ASSUME Len(results) + Len(jobs) <= MaxQueue + Len(jobs') PROVE Len(results) < MaxQueue
    BY <1>10, <1>11, <2>2
  <2>3. results[i].run # j.run
    BY <1>1, <1>7
  <2>4. QED
    BY <1>5, <2>1, <2>2, <2>3
<1>16. QED
  BY <1>4, <1>12, <1>12p, <1>13, <1>14, <1>15 DEF QueueStep

\* Several runs end at once, and others are queued again.
Again(j, again) == IF j.phase \in again THEN [j EXCEPT !.phase = "queued"] ELSE j

EndSeveral(ends, eventOf, again) ==
    /\ jobs' = LET kept == Kept(jobs, DOMAIN jobs \ ends)
               IN  [i \in DOMAIN kept |-> Again(kept[i], again)]
    /\ results' = RecordAll(Kept(jobs, ends), eventOf)

LEMMA EndStep ==
  ASSUME QueueTypes, NEW ends, ends \subseteq DOMAIN jobs, NEW eventOf, NEW again,
         again \subseteq {"preparing", "writing"},
         \A i \in ends : /\ eventOf[jobs[i].phase] \in {"failed", "interrupted", "cancelled"}
                         /\ jobs[i].phase = "cancelling" => eventOf[jobs[i].phase] = "cancelled",
         EndSeveral(ends, eventOf, again)
  PROVE  /\ QueueStep
         /\ \A i \in DOMAIN jobs' : \E k \in DOMAIN jobs \ ends :
              i <= k /\ jobs'[i] = Again(jobs[k], again)
         /\ \A k \in DOMAIN jobs \ ends : \E i \in DOMAIN jobs' : jobs'[i] = Again(jobs[k], again)
<1> DEFINE stay == DOMAIN jobs \ ends
           kept == Kept(jobs, stay)
           ended == Kept(jobs, ends)
           New(j) == Again(j, again)
<1>1. jobs \in Seq(JobTypes) /\ Distinct(jobs) /\ results \in Seq(ResultTypes) /\ Distinct(results)
  BY DEF QueueTypes
<1>2. stay \subseteq DOMAIN jobs /\ stay \cap ends = {} /\ stay \cup ends = DOMAIN jobs
  OBVIOUS
<1>2a. ends = DOMAIN jobs \ stay
  BY <1>2
<1>7. jobs' = [i \in DOMAIN kept |-> New(kept[i])] /\ results' = RecordAll(ended, eventOf)
  BY DEF EndSeveral
<1> HIDE DEF stay
<1>4. /\ kept \in Seq(JobTypes) /\ Len(kept) <= Len(jobs)
      /\ Distinct(kept) /\ RunsOf(kept) \subseteq RunsOf(jobs)
      /\ \A i \in DOMAIN kept : \E k \in DOMAIN jobs \cap stay : i <= k /\ kept[i] = jobs[k]
      /\ \A k \in DOMAIN jobs \cap stay : \E i \in DOMAIN kept : kept[i] = jobs[k]
  BY <1>1, KeptRuns
<1>5. /\ ended \in Seq(JobTypes) /\ Len(ended) <= Len(jobs)
      /\ Distinct(ended) /\ RunsOf(ended) \subseteq RunsOf(jobs)
      /\ \A i \in DOMAIN ended : \E k \in DOMAIN jobs \cap ends : i <= k /\ ended[i] = jobs[k]
      /\ \A k \in DOMAIN jobs \cap ends : \E i \in DOMAIN ended : ended[i] = jobs[k]
  BY <1>1, KeptRuns
<1>6. Len(kept) + Len(ended) = Len(jobs)
  <2>1. Len(kept) + Len(Kept(jobs, DOMAIN jobs \ stay)) = Len(jobs)
    BY <1>1, KeptSplit
  <2>2. QED
    BY <1>2a, <2>1
<1> HIDE DEF ended, kept
<1>8. \A j \in JobTypes : /\ New(j) \in JobTypes /\ New(j).run = j.run
                          /\ New(j).phase \in Executing => j.phase \in Executing
                          /\ j.phase = "cancelling" => New(j) = j
  BY DEF JobTypes, Executing, Again
<1> HIDE DEF New
<1>9. \A i \in DOMAIN kept : kept[i] \in JobTypes
  BY <1>4, QueueFacts
<1>9a. \A i \in DOMAIN jobs : jobs[i] \in JobTypes
  BY <1>1, QueueFacts
<1>9b. DOMAIN jobs' = DOMAIN kept /\ \A i \in DOMAIN kept : jobs'[i] = New(kept[i])
  BY <1>7
<1>10. jobs' \in Seq(JobTypes) /\ Len(jobs') = Len(kept)
  <2>1. Len(kept) \in Nat /\ DOMAIN kept = 1 .. Len(kept)
    BY <1>4, LenProperties
  <2>2. \A i \in DOMAIN kept : New(kept[i]) \in JobTypes
    BY <1>8, <1>9
  <2>2a. jobs' \in [1 .. Len(kept) -> JobTypes]
    BY <1>7, <2>1, <2>2
  <2>3. QED
    BY <2>1, <2>2a, SeqDef, LenProperties
<1>11. RunsOf(jobs') = RunsOf(kept) /\ Distinct(jobs')
  <2>1. \A i \in DOMAIN kept : jobs'[i].run = kept[i].run
    BY <1>9b, <1>8, <1>9
  <2>2. QED
    BY <1>4, <1>9b, <2>1, SameRuns
<1>12. \A i \in DOMAIN jobs' : \E k \in stay : i <= k /\ jobs'[i] = New(jobs[k])
  BY <1>4, <1>9b
<1>13. \A k \in stay : \E i \in DOMAIN jobs' : jobs'[i] = New(jobs[k])
  BY <1>2, <1>4, <1>9b
<1>14. \A m \in DOMAIN ended :
          /\ eventOf[ended[m].phase] \in {"failed", "interrupted", "cancelled"}
          /\ ended[m].phase = "cancelling" => eventOf[ended[m].phase] = "cancelled"
          /\ ended[m].run \in RunsOf(jobs)
          /\ ended[m].run \notin RunsOf(results)
  <2> SUFFICES ASSUME NEW m \in DOMAIN ended
               PROVE  /\ eventOf[ended[m].phase] \in {"failed", "interrupted", "cancelled"}
                      /\ ended[m].phase = "cancelling" => eventOf[ended[m].phase] = "cancelled"
                      /\ ended[m].run \in RunsOf(jobs)
                      /\ ended[m].run \notin RunsOf(results)
    OBVIOUS
  <2>1. PICK k \in ends : k \in DOMAIN jobs /\ ended[m] = jobs[k]
    BY <1>5
  <2>2. ended[m].run \in RunsOf(jobs)
    BY <2>1 DEF RunsOf
  <2>3. ended[m].run \notin RunsOf(results)
    BY <2>2 DEF QueueTypes
  <2>4. QED
    BY <2>1, <2>2, <2>3
<1>15. /\ results' \in Seq(ResultTypes) /\ Len(results') <= MaxQueue /\ Distinct(results')
       /\ \A i \in DOMAIN results' :
            \/ \E k \in DOMAIN results : results'[i] = results[k]
            \/ \E m \in DOMAIN ended : results'[i] = Entry(ended[m], eventOf[ended[m].phase])
       /\ Len(results) + Len(ended) <= MaxQueue =>
            \A k \in DOMAIN results : results[k].retry =>
               \E i \in DOMAIN results' : results'[i] = results[k]
  <2>1. Endable(ended, eventOf)
    BY <1>14 DEF Outcome, Endable
  <2>2. Len(results) <= MaxQueue
    BY DEF QueueTypes
  <2> DEFINE out == RecordAll(ended, eventOf)
  <2>3. /\ out \in Seq(ResultTypes) /\ Len(out) <= MaxQueue /\ Distinct(out)
        /\ \A i \in DOMAIN out :
             \/ \E k \in DOMAIN results : out[i] = results[k]
             \/ \E m \in DOMAIN ended : out[i] = Entry(ended[m], eventOf[ended[m].phase])
        /\ Len(results) + Len(ended) <= MaxQueue =>
             \A k \in DOMAIN results : results[k].retry => \E i \in DOMAIN out : out[i] = results[k]
    <3>1. ended \in Seq(JobTypes) /\ Distinct(ended)
      BY <1>5
    <3> HIDE DEF out
    <3>2. QED
      BY <1>1, <2>1, <2>2, <3>1, RecordAllFacts DEF out
  <2>4. results' = out
    BY <1>7
  <2> HIDE DEF out
  <2>5. QED
    BY <2>3, <2>4
<1>16. \A m \in DOMAIN ended : LET n == Entry(ended[m], eventOf[ended[m].phase]) IN
          /\ n.run = ended[m].run /\ ~n.retry
          /\ ended[m].phase = "cancelling" => n.phase = "cancelled"
  <2> SUFFICES ASSUME NEW m \in DOMAIN ended, NEW e, e = eventOf[ended[m].phase]
               PROVE  LET n == Entry(ended[m], e) IN
                      /\ n.run = ended[m].run /\ ~n.retry
                      /\ ended[m].phase = "cancelling" => n.phase = "cancelled"
    OBVIOUS
  <2>1. e # "partial" /\ (ended[m].phase = "cancelling" => e = "cancelled")
    BY <1>14
  <2>2. Outcome["cancelled"] = "cancelled"
    BY DEF Outcome
  <2>3. QED
    BY <2>1, <2>2 DEF Entry
<1>17. \A i \in DOMAIN results' :
          \/ \E k \in DOMAIN results : results'[i] = results[k]
          \/ \E m \in DOMAIN ended :
               /\ results'[i].run = ended[m].run /\ ~results'[i].retry
               /\ ended[m].phase = "cancelling" => results'[i].phase = "cancelled"
  BY <1>15, <1>16
<1>18. \A m \in DOMAIN ended : ended[m].run \notin RunsOf(kept)
  <2> SUFFICES ASSUME NEW m \in DOMAIN ended, NEW i \in DOMAIN kept, kept[i].run = ended[m].run
               PROVE  FALSE
    BY DEF RunsOf
  <2>1. PICK k \in ends : k \in DOMAIN jobs /\ ended[m] = jobs[k]
    BY <1>5
  <2>2. PICK l \in stay : l \in DOMAIN jobs /\ kept[i] = jobs[l]
    BY <1>4
  <2>3. k = l
    BY <1>1, <2>1, <2>2 DEF Distinct
  <2>4. QED
    BY <1>2, <2>1, <2>2, <2>3
<1>19. /\ Len(jobs) \in Nat /\ Len(jobs') \in Nat /\ Len(results) \in Nat
       /\ MaxQueue \in Nat /\ Len(ended) \in Nat
  BY <1>1, <1>5, <1>10, LenProperties, QueueAssumption DEF QueueAssumption
<1>20. QueueTypes'
  <2>1. Len(jobs') <= MaxQueue
    BY <1>4, <1>10, <1>19 DEF QueueTypes
  <2>2. \A r \in RunsOf(results') : r \notin RunsOf(jobs')
    <3> SUFFICES ASSUME NEW i \in DOMAIN results' PROVE results'[i].run \notin RunsOf(kept)
      BY <1>11 DEF RunsOf
    <3>1. CASE \E k \in DOMAIN results : results'[i] = results[k]
      <4>1. results'[i].run \in RunsOf(results)
        BY <3>1 DEF RunsOf
      <4>2. QED
        BY <1>4, <4>1 DEF QueueTypes
    <3>2. CASE \E m \in DOMAIN ended : results'[i].run = ended[m].run
      BY <1>18, <3>2
    <3>3. QED
      BY <1>17, <3>1, <3>2
  <2>3. QED
    BY <1>10, <1>11, <1>15, <2>1, <2>2 DEF QueueTypes
<1>21. RunsStay /\ PagesStay
  <2>1. ASSUME NEW i \in DOMAIN results'
        PROVE  \/ results'[i].run \in RunsOf(jobs)
               \/ \E k \in DOMAIN results : results'[i] = results[k]
    BY <1>14, <1>17
  <2>2. PagesStay
    BY <2>1 DEF PagesStay
  <2>3. RunsStay
    <3>1. \A r \in RunsOf(results') : r \in RunsOf(jobs) \cup RunsOf(results)
      BY <2>1 DEF RunsOf
    <3>2. RunsOf(jobs') \subseteq RunsOf(jobs)
      BY <1>4, <1>11
    <3>3. QED
      BY <3>1, <3>2 DEF RunsStay
  <2>4. QED
    BY <2>2, <2>3
<1>22. JobStep
  BY <1>2, <1>8, <1>9a, <1>12 DEF JobStep
<1>23. CancelStep
  <2> SUFFICES ASSUME NEW i \in DOMAIN jobs, jobs[i].phase = "cancelling"
               PROVE  \/ \E k \in DOMAIN jobs' : jobs'[k] = jobs[i]
                      \/ /\ \A k \in DOMAIN jobs' : jobs'[k].run # jobs[i].run
                         /\ \A k \in DOMAIN results' : results'[k].run = jobs[i].run =>
                              results'[k].phase \in {"cancelled", "failed"} /\ ~results'[k].retry
    BY DEF CancelStep
  <2>1. CASE i \in stay
    BY <1>8, <1>9a, <1>13, <2>1
  <2>2. CASE i \in ends
    <3>1. PICK m \in DOMAIN ended : ended[m] = jobs[i]
      BY <1>5, <2>2
    <3>2. jobs[i].run \notin RunsOf(jobs')
      BY <1>11, <1>18, <3>1
    <3>3. jobs[i].run \notin RunsOf(results)
      BY <1>14, <3>1
    <3>4. ASSUME NEW k \in DOMAIN results', results'[k].run = jobs[i].run
          PROVE  results'[k].phase = "cancelled" /\ ~results'[k].retry
      <4>1. PICK l \in DOMAIN ended :
                   /\ results'[k].run = ended[l].run /\ ~results'[k].retry
                   /\ ended[l].phase = "cancelling" => results'[k].phase = "cancelled"
        BY <1>17, <3>3, <3>4 DEF RunsOf
      <4>2. l = m
        BY <1>5, <3>1, <3>4, <4>1 DEF Distinct
      <4>3. QED
        BY <3>1, <4>1, <4>2
    <3>5. QED
      BY <3>2, <3>4 DEF RunsOf
  <2>3. QED
    BY <1>2, <2>1, <2>2
<1>24. ResultStep
  <2> SUFFICES ASSUME NEW i \in DOMAIN results
               PROVE  /\ \A k \in DOMAIN results' : results'[k].run = results[i].run =>
                            results'[k] = results[i]
                      /\ results[i].retry /\ Len(results) + Len(jobs) <= MaxQueue + Len(jobs') =>
                           \E k \in DOMAIN results' : results'[k].run = results[i].run
    BY DEF ResultStep
  <2>1. \A k \in DOMAIN results' : results'[k].run = results[i].run => results'[k] = results[i]
    <3> SUFFICES ASSUME NEW k \in DOMAIN results', results'[k].run = results[i].run
                 PROVE  results'[k] = results[i]
      OBVIOUS
    <3>1. results[i].run \in RunsOf(results)
      BY DEF RunsOf
    <3>2. PICK l \in DOMAIN results : results'[k] = results[l]
      BY <1>14, <1>17, <3>1
    <3>3. QED
      BY <1>1, <3>2 DEF Distinct
  <2>2. ASSUME Len(results) + Len(jobs) <= MaxQueue + Len(jobs')
        PROVE  Len(results) + Len(ended) <= MaxQueue
    BY <1>6, <1>10, <1>19, <2>2
  <2>3. QED
    BY <1>15, <2>1, <2>2
<1>25. QED
  BY <1>12, <1>13, <1>20, <1>21, <1>22, <1>23, <1>24 DEF QueueStep, stay, New

\* What a step other than an ask does to the tasks.
TaskStep ==
    \A t \in tasks' :
        /\ Pending(t) => t \in tasks
        /\ t.kind \in {"collect", "uncollected"} =>
             InUse(t.run) \/ \E u \in tasks \ tasks' : Pending(u) /\ u.run = t.run

LEMMA UsesFrom ==
  ASSUME RunsStay, TokenStep, TaskStep, asks' = asks
  PROVE  UsesStep
<1>1. ASSUME NEW r \in Ids, InUse(r)'
      PROVE  InUse(r) \/ \E t \in tasks \ tasks' : Pending(t) /\ t.run = r
  <2>1. CASE r \in RunsOf(jobs') \cup RunsOf(results')
    BY <2>1 DEF RunsStay, InUse
  <2>2. CASE Token(r)'
    <3>1. Token(r) \/ r \in RunsOf(jobs)
      BY <2>2 DEF TokenStep, RunsOf
    <3>2. QED
      BY <3>1 DEF InUse
  <2>3. CASE \E t \in tasks' : t.kind \in {"collect", "uncollected"} /\ t.run = r
    BY <2>3 DEF TaskStep
  <2>4. QED
    BY <1>1, <2>1, <2>2, <2>3 DEF InUse
<1>2. QED
  BY <1>1 DEF UsesStep, TaskStep

LEMMA RetryOKStep ==
  ASSUME QueueTypes, CountTypes, WorkTypes, WorkTypes', Known, Fresh, RetryOK, QueueStep,
         UsesStep \/ AskStep
  PROVE  RetryOK'
<1>0. asks \in Nat
  BY LenProperties, QueueAssumption DEF QueueAssumption, CountTypes
<1>1. CASE UsesStep
  <2> SUFFICES ASSUME NEW t \in tasks', t.kind = "retry"
               PROVE  /\ t.of <= asks' /\ t.of \notin RunsOf(jobs')
                      /\ \A u \in tasks' : Pending(u) => u.run # t.of
                      /\ \A i \in DOMAIN results' :
                           results'[i].run = t.of => results'[i].page = t.page
    BY DEF RetryOK
  <2>1. t \in tasks
    BY <1>1 DEF UsesStep, Pending
  <2>2. /\ t.of <= asks /\ t.of \notin RunsOf(jobs)
        /\ \A u \in tasks : Pending(u) => u.run # t.of
        /\ \A i \in DOMAIN results : results[i].run = t.of => results[i].page = t.page
    BY <2>1 DEF RetryOK
  <2>3. t.of \notin RunsOf(jobs')
    BY <2>2 DEF QueueStep, JobStep, RunsOf
  <2>4. \A i \in DOMAIN results' : results'[i].run = t.of => results'[i].page = t.page
    BY <2>2 DEF QueueStep, PagesStay
  <2>5. QED
    BY <1>1, <2>2, <2>3, <2>4 DEF UsesStep
<1>2. CASE AskStep
  <2>1. PICK n : /\ Pending(n) /\ n.run = asks + 1 /\ tasks' = tasks \cup {n}
                 /\ n.kind = "retry" => \E i \in DOMAIN results :
                      n.of = results[i].run /\ n.page = results[i].page
    BY <1>2 DEF AskStep
  <2>2. UNCHANGED <<jobs, results>> /\ asks' = asks + 1
    BY <1>2 DEF AskStep
  <2>3. ASSUME n.kind = "retry"
        PROVE  /\ n.of <= asks /\ n.of \notin RunsOf(jobs)
               /\ \A u \in tasks : Pending(u) => u.run # n.of
               /\ \A i \in DOMAIN results : results[i].run = n.of => results[i].page = n.page
    <3>1. PICK i \in DOMAIN results : n.of = results[i].run /\ n.page = results[i].page
      BY <2>1, <2>3
    <3>2. n.of \in RunsOf(results)
      BY <3>1 DEF RunsOf
    <3>3. n.of \notin RunsOf(jobs) /\ InUse(n.of)
      BY <3>2 DEF QueueTypes, InUse
    <3>4. n.of \in Ids
      BY <2>1, <2>3, TaskFields DEF WorkTypes
    <3>5. n.of <= asks
      BY <3>3, <3>4 DEF Known
    <3>6. \A u \in tasks : Pending(u) => u.run # n.of
      BY <3>3 DEF Fresh
    <3>7. \A k \in DOMAIN results : results[k].run = n.of => k = i
      BY <3>1 DEF QueueTypes, Distinct
    <3>8. QED
      BY <3>1, <3>3, <3>5, <3>6, <3>7
  <2> SUFFICES ASSUME NEW t \in tasks', t.kind = "retry"
               PROVE  /\ t.of <= asks' /\ t.of \notin RunsOf(jobs)
                      /\ \A u \in tasks' : Pending(u) => u.run # t.of
                      /\ \A i \in DOMAIN results : results[i].run = t.of => results[i].page = t.page
    BY <2>2 DEF RetryOK
  <2>4. /\ t.of <= asks /\ t.of \notin RunsOf(jobs)
        /\ \A u \in tasks : Pending(u) => u.run # t.of
        /\ \A i \in DOMAIN results : results[i].run = t.of => results[i].page = t.page
    BY <2>1, <2>3 DEF RetryOK
  <2>5. t.of \in Ids /\ Ids \subseteq Nat
    <3>1. t.of \in Ids
      BY TaskFields DEF WorkTypes
    <3>2. Ids \subseteq Nat
      BY LenProperties, QueueAssumption DEF QueueAssumption, Ids
    <3>3. QED
      BY <3>1, <3>2
  <2>6. t.of <= asks' /\ n.run # t.of
    <3>1. t.of \in Nat /\ t.of <= asks /\ n.run = asks + 1 /\ asks' = asks + 1
      BY <2>1, <2>2, <2>4, <2>5
    <3>2. QED
      BY <1>0, <3>1
  <2>7. \A u \in tasks' : u \in tasks \/ u = n
    BY <2>1
  <2>8. QED
    BY <2>2, <2>4, <2>6, <2>7
<1>3. QED
  BY <1>1, <1>2

-----------------------------------------------------------------------------
(* The steps. *)

Step == /\ QueueStep /\ TokenStep /\ WorkTypes' /\ CountTypes'
        /\ UsesStep \/ AskStep

Counts == <<profiles, people, faults, past>>

LEMMA CountsStay ==
  ASSUME CountTypes, UNCHANGED Counts
  PROVE  CountTypes' /\ asks' = asks
BY DEF CountTypes, Counts, people, past, Upsets

LEMMA StepFrom ==
  ASSUME CountTypes, UNCHANGED Counts, QueueStep, TokenStep, TaskStep, WorkTypes'
  PROVE  Step
BY CountsStay, UsesFrom DEF Step, QueueStep

LEMMA StepKeeps ==
  ASSUME GatherInv, Step, AnnounceOK'
  PROVE  GatherInv'
<1>1. QueueTypes'
  BY DEF Step, QueueStep
<1>2. Known' /\ Fresh'
  BY KnownFreshStep DEF GatherInv, Step
<1>3. HeadOnly'
  BY <1>1, HeadOnlyStep DEF GatherInv, Step, QueueStep
<1>4. RetryOK'
  BY RetryOKStep DEF GatherInv, Step
<1>5. QED
  BY <1>1, <1>2, <1>3, <1>4 DEF GatherInv, Step

LEMMA AskSteps ==
  ASSUME GatherInv,
         \/ \E page \in Pages, p \in Profiles : Gather(page, p)
         \/ \E i \in DOMAIN results, p \in Profiles : AskRetry(i, p)
  PROVE  Step
<1>0. asks \in Nat /\ Len(Asked) \in Nat /\ Ids = 1 .. Len(Asked)
  BY LenProperties, QueueAssumption DEF QueueAssumption, Ids, GatherInv, CountTypes
<1>a. \A i \in DOMAIN results : results[i] \in ResultTypes
  BY QueueFacts DEF GatherInv, QueueTypes
<1>1. PICK n : /\ n \in TaskTypes /\ Pending(n) /\ n.run = asks + 1 /\ tasks' = tasks \cup {n}
               /\ n.kind = "retry" => \E i \in DOMAIN results :
                    n.of = results[i].run /\ n.page = results[i].page
               /\ asks' = asks + 1 /\ asks + 1 \in Ids
               /\ UNCHANGED <<jobs, results, profiles, slot, reports, cancels, faults, past>>
  <2>1. ASSUME NEW page \in Pages, NEW p \in Profiles, Gather(page, p)
        PROVE  \E n : /\ n \in TaskTypes /\ Pending(n)
                      /\ n.run = asks + 1 /\ tasks' = tasks \cup {n}
                      /\ n.kind = "retry" => \E i \in DOMAIN results :
                           n.of = results[i].run /\ n.page = results[i].page
                      /\ asks' = asks + 1 /\ asks + 1 \in Ids
                      /\ UNCHANGED <<jobs, results, profiles, slot, reports, cancels, faults, past>>
    <3> DEFINE n == [kind |-> "reserve", run |-> asks + 1, page |-> page, profile |-> p]
    <3>1. asks + 1 \in Ids
      BY <1>0, <2>1 DEF Gather
    <3>2. n \in TaskTypes
      BY <3>1 DEF TaskTypes
    <3>3. Pending(n) /\ n.run = asks + 1 /\ n.kind # "retry"
      BY DEF Pending
    <3>4. tasks' = tasks \cup {n} /\ asks' = asks + 1
          /\ UNCHANGED <<jobs, results, profiles, slot, reports, cancels, faults, past>>
      BY <2>1 DEF Gather
    <3> HIDE DEF n
    <3>5. QED
      BY <3>1, <3>2, <3>3, <3>4
  <2>2. ASSUME NEW i \in DOMAIN results, NEW p \in Profiles, AskRetry(i, p)
        PROVE  \E n : /\ n \in TaskTypes /\ Pending(n)
                      /\ n.run = asks + 1 /\ tasks' = tasks \cup {n}
                      /\ n.kind = "retry" => \E k \in DOMAIN results :
                           n.of = results[k].run /\ n.page = results[k].page
                      /\ asks' = asks + 1 /\ asks + 1 \in Ids
                      /\ UNCHANGED <<jobs, results, profiles, slot, reports, cancels, faults, past>>
    <3> DEFINE n == [kind |-> "retry", run |-> asks + 1, of |-> results[i].run,
                     page |-> results[i].page, profile |-> p]
    <3>1. asks + 1 \in Ids
      BY <1>0, <2>2 DEF AskRetry
    <3>2. n \in TaskTypes
      <4>1. results[i].run \in Ids /\ results[i].page \in Pages
        BY <1>a DEF ResultTypes
      <4>2. QED
        BY <3>1, <4>1 DEF TaskTypes
    <3>3. Pending(n) /\ n.run = asks + 1 /\ n.of = results[i].run /\ n.page = results[i].page
      BY DEF Pending
    <3>4. tasks' = tasks \cup {n} /\ asks' = asks + 1
          /\ UNCHANGED <<jobs, results, profiles, slot, reports, cancels, faults, past>>
      BY <2>2 DEF AskRetry
    <3> HIDE DEF n
    <3>5. QED
      BY <3>1, <3>2, <3>3, <3>4
  <2>3. QED
    BY <2>1, <2>2
<1>2. AskStep
  BY <1>1 DEF AskStep
<1>3. QueueStep
  BY <1>1, SameStep DEF GatherInv
<1>4. TokenStep
  <2>1. n.kind \notin {"execute", "refused", "handle", "abort"}
    BY <1>1 DEF Pending
  <2>2. QED
    BY <1>1, <2>1 DEF TokenStep, Token
<1>5. WorkTypes'
  BY <1>1 DEF WorkTypes, GatherInv
<1>6. CountTypes'
  <2>1. asks' \in 0 .. Len(Asked)
    BY <1>0, <1>1
  <2>2. QED
    BY <1>1, <2>1 DEF CountTypes, GatherInv, past, Upsets
<1>7. QED
  BY <1>2, <1>3, <1>4, <1>5, <1>6 DEF Step

LEMMA HandBackStep ==
  ASSUME GatherInv, NEW h \in DOMAIN results, HandBack(h)
  PROVE  Step
<1>0. /\ results \in Seq(ResultTypes) /\ Distinct(results) /\ QueueTypes
      /\ \A i \in DOMAIN results : results[i] \in ResultTypes
      /\ Len(results) \in Nat /\ DOMAIN results = 1 .. Len(results)
  BY QueueFacts DEF GatherInv, QueueTypes
<1> DEFINE new == [results EXCEPT ![h].phase = "complete", ![h].retry = FALSE]
<1>1. /\ DOMAIN new = DOMAIN results
      /\ \A i \in DOMAIN results : i # h => new[i] = results[i]
      /\ new[h].run = results[h].run /\ new[h].page = results[h].page /\ new[h].phase = "complete"
      /\ new[h] \in ResultTypes
  BY <1>0 DEF ResultTypes
<1>2. results' = new /\ results[h].retry
  BY DEF HandBack
<1>3. new \in Seq(ResultTypes) /\ Len(new) = Len(results)
  <2>1. new \in [1 .. Len(results) -> ResultTypes]
    BY <1>0, <1>1
  <2> HIDE DEF new
  <2>2. new \in Seq(ResultTypes)
    BY <1>0, <2>1, SeqDef
  <2>3. QED
    BY <1>0, <1>1, <2>2, LenProperties
<1> HIDE DEF new
<1>4. RunsOf(new) = RunsOf(results) /\ Distinct(new)
  <2>1. \A i \in DOMAIN results : new[i].run = results[i].run
    BY <1>1
  <2>2. QED
    BY <1>0, <1>1, <2>1, SameRuns
<1>5. jobs' = jobs /\ UNCHANGED <<tasks, slot, reports>> /\ UNCHANGED Counts
  BY DEF HandBack, Counts, people, past
<1>6. QueueTypes' /\ RunsStay
  BY <1>0, <1>2, <1>3, <1>4, <1>5 DEF QueueTypes, RunsStay
<1>7. PagesStay
  BY <1>1, <1>2 DEF PagesStay
<1>8. JobStep /\ CancelStep
  <2>1. \A i \in DOMAIN jobs : i <= i
    BY QueueFacts DEF GatherInv, QueueTypes
  <2>2. QED
    BY <1>5, <2>1 DEF JobStep, CancelStep
<1>9. ResultStep
  <2>1. \A i, k \in DOMAIN results : new[k].run = results[i].run => i = k
    BY <1>0, <1>1 DEF Distinct
  <2>2. \A i \in DOMAIN results : new[i].run = results[i].run
    BY <1>1
  <2>3. \A i \in DOMAIN results :
          new[i] = results[i] \/ (results[i].retry /\ new[i].phase = "complete")
    <3> SUFFICES ASSUME NEW i \in DOMAIN results
                 PROVE  new[i] = results[i] \/ (results[i].retry /\ new[i].phase = "complete")
      OBVIOUS
    <3>1. CASE i = h
      BY <1>1, <1>2, <3>1
    <3>2. CASE i # h
      BY <1>1, <3>2
    <3>3. QED
      BY <3>1, <3>2
  <2>4. QED
    BY <1>1, <1>2, <2>1, <2>2, <2>3 DEF ResultStep
<1>10. TokenStep /\ TaskStep
  BY <1>5 DEF TokenStep, TaskStep, Token, InUse
<1>11. WorkTypes'
  BY <1>5 DEF WorkTypes, GatherInv
<1>12. QED
  BY <1>5, <1>6, <1>7, <1>8, <1>9, <1>10, <1>11, StepFrom DEF GatherInv, QueueStep

\* A task t replaced by others: none of them is pending or collects.
LEMMA BecameTasks ==
  ASSUME WorkTypes, NEW t \in tasks, NEW next, Became(t, next), next \subseteq TaskTypes,
         slot' \in SlotTypes, reports' \subseteq ReportTypes,
         \A u \in next : u.kind \notin {"reserve", "retry", "collect"} /\
                         (u.kind = "uncollected" => t.kind = "collect" /\ u.run = t.run)
  PROVE  WorkTypes' /\ TaskStep
<1>1. tasks' = (tasks \ {t}) \cup next
  BY DEF Became
<1>2. WorkTypes'
  BY <1>1 DEF WorkTypes
<1>3. TaskStep
  BY <1>1 DEF TaskStep, Pending, InUse
<1>4. QED
  BY <1>2, <1>3

\* The tokens, when a task is replaced by others and neither slot nor reports name another run.
LEMMA BecameTokens ==
  ASSUME NEW t \in tasks, NEW next, Became(t, next),
         slot'.run \in {0, slot.run} \/ Token(slot'.run),
         \A x \in reports' : \E y \in reports : y.run = x.run,
         \A u \in next : u.kind \in {"execute", "refused", "handle", "abort"} =>
            \/ Token(u.run)
            \/ \E k \in DOMAIN jobs : jobs[k].run = u.run /\ (k = 1 \/ jobs[k].phase \in Executing)
  PROVE  TokenStep
<1>0. 0 \notin Ids
  BY LenProperties, QueueAssumption DEF QueueAssumption, Ids
<1>1. tasks' = (tasks \ {t}) \cup next
  BY DEF Became
<1>2. QED
  BY <1>0, <1>1 DEF TokenStep, Token

LEMMA ReserveStep ==
  ASSUME GatherInv, NEW t \in tasks, Reserve(t)
  PROVE  Step
<1> DEFINE waits  == {i \in DOMAIN jobs : jobs[i].phase = Pause /\ jobs[i].profile = t.profile}
           paused == {i \in waits : \A k \in waits : i <= k}
           queue  == [i \in DOMAIN jobs |->
                        IF i \in paused THEN [jobs[i] EXCEPT !.phase = "queued"] ELSE jobs[i]]
           known  == \E i \in DOMAIN jobs : jobs[i].page = t.page
           full   == Len(jobs) >= MaxQueue
           collects == ~known /\ ~full
           j == [run |-> t.run, page |-> t.page, profile |-> t.profile, phase |-> "collecting"]
           next == {x \in {[kind |-> "collect", run |-> t.run, profile |-> t.profile]} : collects}
                     \cup {x \in {Dispatch(t.run, FALSE)} : known \/ paused # {}}
<1>1. /\ t.kind = "reserve"
      /\ jobs' = IF collects THEN Append(queue, j) ELSE queue
      /\ Became(t, next)
      /\ UNCHANGED <<results, profiles, slot, reports, people, faults, past>>
  BY DEF Reserve
<1>2. /\ jobs \in Seq(JobTypes) /\ Distinct(jobs) /\ QueueTypes /\ WorkTypes
      /\ \A i \in DOMAIN jobs : jobs[i] \in JobTypes /\ i \in Nat
      /\ Len(jobs) \in Nat /\ DOMAIN jobs = 1 .. Len(jobs)
  BY QueueFacts DEF GatherInv, QueueTypes
<1>3. t.run \in Ids /\ t.page \in Pages /\ t.profile \in Profiles /\ Pending(t)
  BY <1>1, <1>2, TaskFields DEF WorkTypes, Pending
<1>4. j \in JobTypes /\ j.run = t.run /\ j.phase \notin Executing
  BY <1>3 DEF JobTypes, Executing
<1>5. /\ DOMAIN queue = DOMAIN jobs
      /\ \A i \in DOMAIN jobs : /\ queue[i] \in JobTypes /\ queue[i].run = jobs[i].run
                                /\ queue[i].phase \in Executing => jobs[i].phase \in Executing
                                /\ jobs[i].phase = "cancelling" => queue[i] = jobs[i]
  BY <1>2 DEF JobTypes, Executing, Pause
<1>6. queue \in Seq(JobTypes) /\ Len(queue) = Len(jobs)
  <2>1. queue \in [1 .. Len(jobs) -> JobTypes]
    BY <1>2, <1>5
  <2> HIDE DEF queue
  <2>2. queue \in Seq(JobTypes)
    BY <1>2, <2>1, SeqDef
  <2>3. QED
    BY <1>2, <1>5, <2>2, LenProperties
<1>7. ~InUse(t.run)
  BY <1>3 DEF GatherInv, Fresh
<1>8. t.run \notin RunsOf(jobs) /\ t.run \notin RunsOf(results)
  BY <1>7 DEF InUse
<1>t1. next \subseteq TaskTypes
  <2>1. [kind |-> "collect", run |-> t.run, profile |-> t.profile] \in TaskTypes
    BY <1>3 DEF TaskTypes
  <2>2. Dispatch(t.run, FALSE) \in TaskTypes
    BY <1>3, DispatchTypes
  <2>3. QED
    BY <2>1, <2>2
<1>t2. \A u \in next : /\ u.kind \in {"collect", "dispatch"}
                       /\ u.kind = "collect" => u.run = t.run
  BY DEF Dispatch
<1> HIDE DEF queue, j, next, paused, waits, known, full
<1>9. RunsOf(queue) = RunsOf(jobs) /\ Distinct(queue)
  BY <1>2, <1>5, SameRuns
<1>10. ASSUME collects
       PROVE  /\ jobs' \in Seq(JobTypes) /\ Len(jobs') = Len(jobs) + 1
              /\ Distinct(jobs') /\ RunsOf(jobs') = RunsOf(jobs) \cup {t.run}
              /\ DOMAIN jobs' = 1 .. (Len(jobs) + 1)
              /\ \A i \in DOMAIN jobs : jobs'[i] = queue[i]
              /\ jobs'[Len(jobs) + 1] = j
  <2>1. jobs' = Append(queue, j) /\ j.run \notin RunsOf(queue)
    BY <1>1, <1>4, <1>8, <1>9, <1>10
  <2>2. QED
    BY <1>4, <1>5, <1>6, <1>9, <2>1, AppendFacts
<1>11. t \notin tasks'
  BY <1>1, <1>3, <1>t2 DEF Became, Pending
<1>12. QueueStep
  <2>1. CASE ~collects
    <3>1. jobs' = queue
      BY <1>1, <2>1
    <3>2. QueueTypes' /\ RunsStay
      BY <1>1, <1>2, <1>6, <1>9, <3>1 DEF QueueTypes, RunsStay
    <3>3. PagesStay /\ ResultStep
      BY <1>1, <1>2 DEF PagesStay, ResultStep, QueueTypes, Distinct
    <3>4. JobStep /\ CancelStep
      <4>1. \A i \in DOMAIN jobs : i <= i
        BY <1>2
      <4>2. QED
        BY <1>5, <3>1, <4>1 DEF JobStep, CancelStep
    <3>5. QED
      BY <3>2, <3>3, <3>4 DEF QueueStep
  <2>2. CASE collects
    <3>1. QueueTypes' /\ RunsStay
      <4>1. Len(jobs') <= MaxQueue
        <5>1. MaxQueue \in Nat
          BY QueueAssumption DEF QueueAssumption
        <5>2. QED
          BY <1>2, <1>10, <2>2, <5>1 DEF full
      <4>2. QueueTypes'
        BY <1>1, <1>2, <1>8, <1>10, <2>2, <4>1 DEF QueueTypes
      <4>3. RunsStay
        BY <1>1, <1>3, <1>10, <1>11, <2>2 DEF RunsStay
      <4>4. QED
        BY <4>2, <4>3
    <3>2. PagesStay /\ ResultStep
      BY <1>1, <1>2 DEF PagesStay, ResultStep, QueueTypes, Distinct
    <3>3. JobStep
      <4> SUFFICES ASSUME NEW i \in DOMAIN jobs'
                   PROVE  \/ \E k \in DOMAIN jobs :
                               /\ i <= k /\ jobs'[i].run = jobs[k].run
                               /\ jobs'[i].phase \in Executing =>
                                    jobs[k].phase \in Executing \/ k = 1 \/ Token(jobs[k].run)
                          \/ /\ jobs'[i].phase \notin Executing
                             /\ \E u \in tasks : Pending(u) /\ u.run = jobs'[i].run
        BY DEF JobStep
      <4>1. CASE i \in DOMAIN jobs
        <5>1. i <= i /\ jobs'[i] = queue[i]
          BY <1>2, <1>10, <2>2, <4>1
        <5>2. QED
          BY <1>5, <4>1, <5>1
      <4>2. CASE i = Len(jobs) + 1
        BY <1>3, <1>4, <1>10, <2>2, <4>2
      <4>3. QED
        BY <1>2, <1>10, <2>2, <4>1, <4>2
    <3>4. CancelStep
      <4>1. \A i \in DOMAIN jobs : i \in DOMAIN jobs'
        BY <1>2, <1>10, <2>2
      <4>2. \A i \in DOMAIN jobs : jobs[i].phase = "cancelling" => jobs'[i] = jobs[i]
        BY <1>5, <1>10, <2>2
      <4>3. QED
        BY <4>1, <4>2 DEF CancelStep
    <3>5. QED
      BY <3>1, <3>2, <3>3, <3>4 DEF QueueStep
  <2>3. QED
    BY <2>1, <2>2
<1>13. WorkTypes' /\ TaskStep
  <2>1. tasks' = (tasks \ {t}) \cup next
    BY <1>1 DEF Became
  <2>2. WorkTypes'
    BY <1>1, <1>2, <1>t1, <2>1 DEF WorkTypes
  <2>3. TaskStep
    BY <1>3, <1>11, <1>t2, <2>1 DEF TaskStep, Pending, InUse
  <2>4. QED
    BY <2>2, <2>3
<1>14. TokenStep
  BY <1>1, <1>t2, BecameTokens
<1>15. UNCHANGED Counts
  BY <1>1 DEF Counts
<1>16. QED
  BY <1>12, <1>13, <1>14, <1>15, StepFrom DEF GatherInv

LEMMA RetryStep ==
  ASSUME GatherInv, NEW t \in tasks, Retry(t)
  PROVE  Step
<1> DEFINE j == [run |-> t.run, page |-> t.page, profile |-> t.profile, phase |-> "queued"]
<1>1. /\ t.kind = "retry"
      /\ UNCHANGED <<profiles, slot, reports, people, faults, past>>
  BY DEF Retry
<1>2. /\ jobs \in Seq(JobTypes) /\ Distinct(jobs) /\ QueueTypes /\ WorkTypes
      /\ results \in Seq(ResultTypes) /\ Distinct(results)
      /\ \A i \in DOMAIN jobs : jobs[i] \in JobTypes /\ i \in Nat
      /\ Len(jobs) \in Nat /\ DOMAIN jobs = 1 .. Len(jobs) /\ Len(results) \in Nat
      /\ MaxQueue \in Nat
  <2>1. jobs \in Seq(JobTypes) /\ results \in Seq(ResultTypes)
    BY DEF GatherInv, QueueTypes
  <2>2. MaxQueue \in Nat
    BY QueueAssumption DEF QueueAssumption
  <2>3. QED
    BY <2>1, <2>2, QueueFacts DEF GatherInv, QueueTypes
<1>3. t.run \in Ids /\ t.of \in Ids /\ t.page \in Pages /\ t.profile \in Profiles /\ Pending(t)
  BY <1>1, <1>2, TaskFields DEF WorkTypes, Pending
<1>4. j \in JobTypes /\ j.run = t.run /\ j.phase \notin Executing /\ j.page = t.page
  BY <1>3 DEF JobTypes, Executing
<1>5. ~InUse(t.run)
  BY <1>3 DEF GatherInv, Fresh
<1>6. t.run \notin RunsOf(jobs) /\ t.run \notin RunsOf(results)
  BY <1>5 DEF InUse
<1>7. /\ t.of \notin RunsOf(jobs)
      /\ \A i \in DOMAIN results : results[i].run = t.of => results[i].page = t.page
  BY <1>1 DEF GatherInv, RetryOK
<1>8. UNCHANGED Counts
  BY <1>1 DEF Counts
<1> HIDE DEF j
<1>9. CASE Len(jobs) >= MaxQueue
  <2>1. Became(t, {}) /\ UNCHANGED <<jobs, results>>
    BY <1>9 DEF Retry
  <2>2. QueueStep
    BY <1>2, <2>1, SameStep
  <2>3. TokenStep
    BY <1>1, <2>1, BecameTokens
  <2>4. WorkTypes' /\ TaskStep
    <3>1. slot' \in SlotTypes /\ reports' \subseteq ReportTypes
      BY <1>1, <1>2 DEF WorkTypes
    <3>2. QED
      BY <1>2, <2>1, <3>1, BecameTasks
  <2>5. QED
    BY <1>8, <2>2, <2>3, <2>4, StepFrom DEF GatherInv
<1>10. CASE ~(Len(jobs) >= MaxQueue)
  <2> DEFINE next == {Dispatch(t.run, FALSE)}
  <2>1. jobs' = Append(jobs, j) /\ results' = Without(results, t.of) /\ Became(t, next)
    BY <1>10 DEF Retry, j
  <2>2. next \subseteq TaskTypes /\ \A u \in next : u.kind = "dispatch"
    BY <1>3, DispatchTypes
  <2> HIDE DEF next
  <2>3. /\ jobs' \in Seq(JobTypes) /\ Len(jobs') = Len(jobs) + 1
        /\ Distinct(jobs') /\ RunsOf(jobs') = RunsOf(jobs) \cup {t.run}
        /\ DOMAIN jobs' = 1 .. (Len(jobs) + 1)
        /\ \A i \in DOMAIN jobs : jobs'[i] = jobs[i]
        /\ jobs'[Len(jobs) + 1] = j
    BY <1>2, <1>4, <1>6, <2>1, AppendFacts
  <2>4. /\ results' \in Seq(ResultTypes) /\ Len(results') <= Len(results)
        /\ Distinct(results') /\ RunsOf(results') \subseteq RunsOf(results)
        /\ \A i \in DOMAIN results' : \E k \in DOMAIN results : results'[i] = results[k]
        /\ \A k \in DOMAIN results : results[k].run # t.of =>
             \E i \in DOMAIN results' : results'[i] = results[k]
    BY <1>2, <2>1, WithoutFacts
  <2>5. t \notin tasks'
    BY <1>1, <2>1, <2>2 DEF Became
  <2>6. QueueTypes'
    <3>1. Len(results') \in Nat
      BY <2>4, LenProperties
    <3>2. Len(jobs') <= MaxQueue /\ Len(results') <= MaxQueue
      BY <1>2, <1>10, <2>3, <2>4, <3>1 DEF QueueTypes
    <3>3. RunsOf(jobs') \cap RunsOf(results') = {}
      BY <1>2, <1>6, <2>3, <2>4 DEF QueueTypes
    <3>4. QED
      BY <2>3, <2>4, <3>2, <3>3 DEF QueueTypes
  <2>7. RunsStay
    <3>1. t \in tasks \ tasks' /\ Pending(t)
      BY <1>3, <2>5
    <3>2. \A r \in RunsOf(jobs') \cup RunsOf(results') :
             r \in RunsOf(jobs) \cup RunsOf(results) \/ r = t.run
      BY <2>3, <2>4
    <3>3. QED
      BY <3>1, <3>2 DEF RunsStay
  <2>8. PagesStay
    BY <2>4 DEF PagesStay
  <2>9. JobStep
    <3> SUFFICES ASSUME NEW i \in DOMAIN jobs'
                 PROVE  \/ \E k \in DOMAIN jobs :
                             /\ i <= k /\ jobs'[i].run = jobs[k].run
                             /\ jobs'[i].phase \in Executing =>
                                  jobs[k].phase \in Executing \/ k = 1 \/ Token(jobs[k].run)
                        \/ /\ jobs'[i].phase \notin Executing
                           /\ \E u \in tasks : Pending(u) /\ u.run = jobs'[i].run
      BY DEF JobStep
    <3>1. CASE i \in DOMAIN jobs
      <4>1. i <= i /\ jobs'[i] = jobs[i]
        BY <1>2, <2>3, <3>1
      <4>2. QED
        BY <3>1, <4>1
    <3>2. CASE i = Len(jobs) + 1
      BY <1>3, <1>4, <2>3, <3>2
    <3>3. QED
      BY <1>2, <2>3, <3>1, <3>2
  <2>10. CancelStep
    <3>1. \A i \in DOMAIN jobs : i \in DOMAIN jobs' /\ jobs'[i] = jobs[i]
      BY <1>2, <2>3
    <3>2. QED
      BY <3>1 DEF CancelStep
  <2>11. ResultStep
    <3> SUFFICES ASSUME NEW i \in DOMAIN results
                 PROVE  /\ \A k \in DOMAIN results' : results'[k].run = results[i].run =>
                              results'[k] = results[i]
                        /\ \/ \E k \in DOMAIN results' : results'[k].run = results[i].run
                           \/ Len(jobs') > Len(jobs) /\ Last(jobs').page = results[i].page
      BY DEF ResultStep
    <3>1. \A k \in DOMAIN results' : results'[k].run = results[i].run => results'[k] = results[i]
      BY <1>2, <2>4 DEF Distinct
    <3>2. CASE results[i].run # t.of
      BY <2>4, <3>1, <3>2
    <3>3. CASE results[i].run = t.of
      <4>1. results[i].page = t.page
        BY <1>7, <3>3
      <4>2. Last(jobs') = j
        BY <2>3 DEF Last
      <4>3. Len(jobs') > Len(jobs)
        BY <1>2, <2>3
      <4>4. QED
        BY <1>4, <3>1, <4>1, <4>2, <4>3
    <3>4. QED
      BY <3>2, <3>3
  <2>12. QueueStep
    BY <2>6, <2>7, <2>8, <2>9, <2>10, <2>11 DEF QueueStep
  <2>13. WorkTypes' /\ TaskStep
    <3>1. slot' \in SlotTypes /\ reports' \subseteq ReportTypes
      BY <1>1, <1>2 DEF WorkTypes
    <3>2. QED
      BY <1>2, <2>1, <2>2, <3>1, BecameTasks
  <2>14. TokenStep
    BY <1>1, <2>1, <2>2, BecameTokens
  <2>15. QED
    BY <1>8, <2>12, <2>13, <2>14, StepFrom DEF GatherInv
<1>11. QED
  BY <1>9, <1>10

\* The tokens, when tasks are only added.
LEMMA AddedStep ==
  ASSUME GatherInv, NEW n, tasks' = tasks \cup {n}, n \in TaskTypes,
         n.kind \notin {"reserve", "retry", "collect", "uncollected"},
         n.kind \in {"execute", "refused", "handle", "abort"} =>
            \/ Token(n.run)
            \/ \E k \in DOMAIN jobs : jobs[k].run = n.run /\ (k = 1 \/ jobs[k].phase \in Executing),
         slot' \in SlotTypes, slot'.run = slot.run,
         reports' \subseteq ReportTypes, \A x \in reports' : \E y \in reports : y.run = x.run
  PROVE  WorkTypes' /\ TaskStep /\ TokenStep
<1>1. WorkTypes'
  BY DEF GatherInv, WorkTypes
<1>2. TaskStep
  BY DEF TaskStep, Pending, InUse
<1>3. TokenStep
  BY DEF TokenStep, Token
<1>4. QED
  BY <1>1, <1>2, <1>3

LEMMA UpsetTypes ==
  ASSUME CountTypes
  PROVE  /\ Cardinality(Profiles \ profiles) \in Nat /\ MaxUpsets \in Nat
         /\ Upsets \in Nat
         /\ asks \in 0 .. Len(Asked) /\ cancels \in Nat /\ faults \in Nat
BY FS_CardinalityType, QueueAssumption DEF CountTypes, Upsets, QueueAssumption

LEMMA CancelCase ==
  ASSUME GatherInv, NEW c \in DOMAIN jobs, Cancel(jobs[c].run)
  PROVE  Step
<1> DEFINE r == jobs[c].run
           n == IF JobOf(r).phase \in {"preparing", "writing", "cancelling"}
                THEN [kind |-> "abort", run |-> r] ELSE Dispatch(r, FALSE)
<1>0. QueueTypes /\ WorkTypes /\ CountTypes
  BY DEF GatherInv
<1>1. jobs[c] \in JobTypes /\ r \in Ids
  <2>1. jobs[c] \in JobTypes
    BY <1>0, QueueFacts DEF QueueTypes
  <2>2. QED
    BY <2>1 DEF JobTypes
<1>2. Listed(r) /\ JobOf(r) = jobs[c]
  <2>1. Listed(r)
    BY DEF Listed
  <2>2. QED
    BY <1>0, <2>1, JobOfFacts
<1>3. /\ Upsets < MaxUpsets /\ cancels' = cancels + 1 /\ tasks' = tasks \cup {n}
      /\ UNCHANGED <<profiles, slot, reports, asks, faults, past>>
  BY DEF Cancel
<1>4. QueueStep
  <2>1. CASE jobs[c].phase \in {"preparing", "writing", "cancelling"}
    <3>1. jobs' = WithPhase(jobs, r, "cancelling") /\ results' = results
      BY <1>2, <2>1 DEF Cancel
    <3>2. jobs[c].phase \in Executing
      BY <2>1 DEF Executing
    <3>3. \A k \in DOMAIN jobs : jobs[k].run = r => k = c
      BY <1>0 DEF QueueTypes, Distinct
    <3>4. "cancelling" \in {"collecting", "queued"} \cup Executing
      BY DEF Executing
    <3> HIDE DEF r
    <3>5. QED
      BY <1>0, <3>1, <3>2, <3>3, <3>4, PhaseStep
  <2>2. CASE jobs[c].phase \notin {"preparing", "writing", "cancelling"}
    <3>1. RecordAndRemove(r, "cancelled")
      BY <1>2, <2>2 DEF Cancel
    <3>2. "cancelled" \in DOMAIN Outcome
      BY DEF Outcome
    <3> HIDE DEF r
    <3>3. QED
      BY <1>0, <1>2, <3>1, <3>2, RemoveStep
  <2>3. QED
    BY <2>1, <2>2
<1>5. /\ n \in TaskTypes /\ n.kind \in {"abort", "dispatch"}
      /\ n.kind = "abort" => n.run = r /\ jobs[c].phase \in Executing
  <2>1. CASE jobs[c].phase \in {"preparing", "writing", "cancelling"}
    <3>1. n = [kind |-> "abort", run |-> r]
      BY <1>2, <2>1
    <3> HIDE DEF n, r
    <3>2. n \in [kind : {"uncollected", "abort"}, run : Ids]
      BY <1>1, <3>1
    <3>3. QED
      BY <2>1, <3>1, <3>2 DEF TaskTypes, Executing
  <2>2. CASE jobs[c].phase \notin {"preparing", "writing", "cancelling"}
    <3>1. n = Dispatch(r, FALSE)
      BY <1>2, <2>2
    <3> HIDE DEF n, r
    <3>2. QED
      BY <1>1, <3>1, DispatchTypes
  <2>3. QED
    BY <2>1, <2>2
<1>6. WorkTypes' /\ TaskStep /\ TokenStep
  <2>1. slot' \in SlotTypes /\ slot'.run = slot.run /\ reports' \subseteq ReportTypes
        /\ \A x \in reports' : \E y \in reports : y.run = x.run
    BY <1>0, <1>3 DEF WorkTypes
  <2>2. n.kind = "abort" =>
          \E k \in DOMAIN jobs : jobs[k].run = n.run /\ (k = 1 \/ jobs[k].phase \in Executing)
    BY <1>5
  <2> HIDE DEF n
  <2>3. QED
    BY <1>3, <1>5, <2>1, <2>2, AddedStep
<1>7. CountTypes'
  <2>1. Upsets' = Upsets + 1
    BY <1>0, <1>3, UpsetTypes DEF Upsets
  <2>2. Upsets' <= MaxUpsets /\ cancels' \in Nat
    BY <1>0, <1>3, <2>1, UpsetTypes
  <2>3. QED
    BY <1>0, <1>3, <2>2 DEF CountTypes, past
<1>8. UsesStep
  BY <1>3, <1>4, <1>6, UsesFrom DEF QueueStep
<1>9. QED
  BY <1>4, <1>6, <1>7, <1>8 DEF Step

LEMMA DeleteProfileStep ==
  ASSUME GatherInv, NEW p \in Profiles, DeleteProfile(p)
  PROVE  Step
<1> DEFINE n == [kind |-> "purge", always |-> FALSE]
<1>0. QueueTypes /\ WorkTypes /\ CountTypes
  BY DEF GatherInv
<1>1. /\ Upsets < MaxUpsets /\ p \in profiles /\ p # DefaultProfile
      /\ profiles' = profiles \ {p} /\ tasks' = tasks \cup {n}
      /\ UNCHANGED <<jobs, results, slot, reports, people, faults, past>>
  BY DEF DeleteProfile
<1>2. QueueStep
  BY <1>0, <1>1, SameStep
<1>3. n \in TaskTypes /\ n.kind = "purge"
  BY DEF TaskTypes
<1> HIDE DEF n
<1>4. WorkTypes' /\ TaskStep /\ TokenStep
  <2>1. slot' \in SlotTypes /\ slot'.run = slot.run /\ reports' \subseteq ReportTypes
        /\ \A x \in reports' : \E y \in reports : y.run = x.run
    BY <1>0, <1>1 DEF WorkTypes
  <2>2. QED
    BY <1>1, <1>3, <2>1, AddedStep
<1>5. CountTypes'
  <2>1. Profiles \ profiles' = (Profiles \ profiles) \cup {p} /\ p \notin Profiles \ profiles
    BY <1>1
  <2>2. IsFiniteSet(Profiles \ profiles)
    BY <1>0 DEF CountTypes
  <2>3. /\ IsFiniteSet(Profiles \ profiles')
        /\ Cardinality(Profiles \ profiles') = Cardinality(Profiles \ profiles) + 1
    BY <2>1, <2>2, FS_AddElement
  <2>4. Upsets' = Upsets + 1
    BY <1>0, <1>1, <2>3, UpsetTypes DEF Upsets, people
  <2>5. Upsets' <= MaxUpsets
    BY <1>0, <1>1, <2>4, UpsetTypes
  <2>6. QED
    BY <1>0, <1>1, <2>3, <2>5 DEF CountTypes, people, past
<1>6. asks' = asks
  BY <1>1 DEF people
<1>7. UsesStep
  BY <1>2, <1>4, <1>6, UsesFrom DEF QueueStep
<1>8. QED
  BY <1>2, <1>4, <1>5, <1>7 DEF Step

\* A task that only goes on: the queue is as it was.
LEMMA TaskOnlyStep ==
  ASSUME GatherInv, NEW t \in tasks, NEW next, Became(t, next), next \subseteq TaskTypes,
         UNCHANGED <<jobs, results>>, UNCHANGED Counts,
         slot' \in SlotTypes, slot'.run \in {0, slot.run} \/ Token(slot'.run),
         reports' \subseteq ReportTypes, \A x \in reports' : \E y \in reports : y.run = x.run,
         \A u \in next : u.kind \notin {"reserve", "retry", "collect"} /\
                         (u.kind = "uncollected" => t.kind = "collect" /\ u.run = t.run),
         \A u \in next : u.kind \in {"execute", "refused", "handle", "abort"} => Token(u.run)
  PROVE  Step
<1>1. QueueStep
  BY SameStep DEF GatherInv
<1>2. WorkTypes' /\ TaskStep
  BY BecameTasks DEF GatherInv
<1>3. TokenStep
  BY BecameTokens
<1>4. QED
  BY <1>1, <1>2, <1>3, StepFrom DEF GatherInv

LEMMA AbortStep ==
  ASSUME GatherInv, NEW t \in tasks, Abort(t)
  PROVE  Step
<1>0. WorkTypes
  BY DEF GatherInv
<1>1. /\ t.kind = "abort"
      /\ UNCHANGED <<jobs, results, profiles, reports, people, faults, past>>
  BY DEF Abort
<1>2. t.run \in Ids
  BY <1>0, <1>1, TaskFields DEF WorkTypes
<1>3. profiles \subseteq Profiles
  BY DEF GatherInv, CountTypes
<1>4. Token(t.run)
  BY <1>1 DEF Token
<1>5. reports' \subseteq ReportTypes /\ \A x \in reports' : \E y \in reports : y.run = x.run
  BY <1>0, <1>1 DEF WorkTypes
<1>6. UNCHANGED Counts
  BY <1>1 DEF Counts
<1>7. CASE slot.run = t.run
  <2> DEFINE next == {}
  <2>1. slot' = [slot EXCEPT !.aborted = TRUE] /\ Became(t, next)
    BY <1>7 DEF Abort
  <2>2. slot' \in SlotTypes /\ slot'.run = slot.run
    BY <1>0, <2>1 DEF WorkTypes, SlotTypes
  <2>3. next \subseteq TaskTypes /\ \A u \in next : u.kind = "purge"
    OBVIOUS
  <2> HIDE DEF next
  <2>4. QED
    BY <1>1, <1>5, <1>6, <2>1, <2>2, <2>3, TaskOnlyStep
<1>8. CASE slot.run # t.run
  <2> DEFINE n == [kind |-> "handle", run |-> t.run, event |-> "cancelled",
                   known |-> profiles, acks |-> FALSE]
  <2>1. Became(t, {n}) /\ slot' = slot
    BY <1>8 DEF Abort
  <2>2. n \in [kind : {"handle"}, run : Ids, event : Terminal \cup {"writing", Pause},
               known : SUBSET Profiles, acks : BOOLEAN]
    BY <1>2, <1>3 DEF Terminal
  <2>3. n.run = t.run /\ n.kind = "handle"
    OBVIOUS
  <2> HIDE DEF n
  <2>4. n \in TaskTypes
    BY <2>2 DEF TaskTypes
  <2>5. slot' \in SlotTypes
    BY <1>0, <2>1 DEF WorkTypes
  <2> DEFINE next == {n}
  <2>6. /\ next \subseteq TaskTypes
        /\ \A u \in next : u.kind = "handle" /\ u.run = t.run
        /\ Became(t, next)
    BY <2>1, <2>3, <2>4
  <2> HIDE DEF next
  <2>7. QED
    BY <1>1, <1>4, <1>5, <1>6, <2>1, <2>5, <2>6, TaskOnlyStep
<1>9. QED
  BY <1>7, <1>8

LEMMA CollectedStep ==
  ASSUME GatherInv, NEW t \in tasks, Collected(t)
  PROVE  Step
<1>0. WorkTypes /\ QueueTypes
  BY DEF GatherInv
<1>1. /\ t.kind = "collect"
      /\ UNCHANGED <<results, profiles, slot, reports, people, faults, past>>
  BY DEF Collected
<1>2. t.run \in Ids
  BY <1>0, <1>1, TaskFields DEF WorkTypes
<1>3. /\ slot' \in SlotTypes /\ slot'.run = slot.run
      /\ reports' \subseteq ReportTypes /\ \A x \in reports' : \E y \in reports : y.run = x.run
  BY <1>0, <1>1 DEF WorkTypes
<1>4. UNCHANGED Counts
  BY <1>1 DEF Counts
<1>5. CASE ~(Listed(t.run) /\ JobOf(t.run).phase = "collecting")
  <2>1. Became(t, {}) /\ jobs' = jobs
    BY <1>5 DEF Collected
  <2>2. QED
    BY <1>1, <1>3, <1>4, <2>1, TaskOnlyStep
<1>6. CASE Listed(t.run) /\ JobOf(t.run).phase = "collecting" /\ t.profile \in profiles
  <2> DEFINE next == {Dispatch(t.run, FALSE)}
  <2>1. jobs' = WithPhase(jobs, t.run, "queued") /\ Became(t, next)
    BY <1>6 DEF Collected
  <2>2. next \subseteq TaskTypes /\ \A u \in next : u.kind = "dispatch"
    BY <1>2, DispatchTypes
  <2> HIDE DEF next
  <2>3. \A k \in DOMAIN jobs : jobs[k].run = t.run => jobs[k].phase = "collecting"
    BY <1>0, <1>6, JobOfFacts
  <2>4. "queued" \notin Executing
    BY DEF Executing
  <2>5. QueueStep
    BY <1>0, <1>1, <2>1, <2>3, <2>4, PhaseStep
  <2>6. WorkTypes' /\ TaskStep
    BY <1>0, <1>3, <2>1, <2>2, BecameTasks
  <2>7. TokenStep
    BY <1>3, <2>1, <2>2, BecameTokens
  <2>8. QED
    BY <1>4, <2>5, <2>6, <2>7, StepFrom DEF GatherInv
<1>7. CASE Listed(t.run) /\ JobOf(t.run).phase = "collecting" /\ t.profile \notin profiles
  <2> DEFINE next == {[kind |-> "uncollected", run |-> t.run]}
  <2>1. jobs' = jobs /\ Became(t, next)
    BY <1>7 DEF Collected
  <2>2. /\ next \subseteq [kind : {"uncollected", "abort"}, run : Ids]
        /\ \A u \in next : u.kind = "uncollected" /\ u.run = t.run
    BY <1>2
  <2> HIDE DEF next
  <2>3. next \subseteq TaskTypes
    BY <2>2 DEF TaskTypes
  <2>4. QED
    BY <1>1, <1>3, <1>4, <2>1, <2>2, <2>3, TaskOnlyStep
<1>8. QED
  BY <1>5, <1>6, <1>7

LEMMA FaultCounts ==
  ASSUME CountTypes, Upsets < MaxUpsets, faults' = faults + 1,
         UNCHANGED <<profiles, people>>, lost' \in BOOLEAN, early' \in BOOLEAN
  PROVE  CountTypes' /\ asks' = asks
<1>1. Upsets' = Upsets + 1
  BY UpsetTypes DEF Upsets, people
<1>2. Upsets' <= MaxUpsets /\ faults' \in Nat
  BY <1>1, UpsetTypes
<1>3. QED
  BY <1>2 DEF CountTypes, people

LEMMA CollectFailsStep ==
  ASSUME GatherInv, NEW t \in tasks, CollectFails(t)
  PROVE  Step
<1>0. WorkTypes /\ QueueTypes /\ CountTypes
  BY DEF GatherInv
<1> DEFINE next == {[kind |-> "uncollected", run |-> t.run]}
<1>1. /\ t.kind = "collect" /\ Upsets < MaxUpsets /\ faults' = faults + 1 /\ Became(t, next)
      /\ UNCHANGED <<jobs, results, profiles, slot, reports, people, past>>
  BY DEF CollectFails
<1>2. t.run \in Ids
  BY <1>0, <1>1, TaskFields DEF WorkTypes
<1>3. /\ slot' \in SlotTypes /\ slot'.run = slot.run
      /\ reports' \subseteq ReportTypes /\ \A x \in reports' : \E y \in reports : y.run = x.run
  BY <1>0, <1>1 DEF WorkTypes
<1>4. /\ next \subseteq [kind : {"uncollected", "abort"}, run : Ids]
      /\ \A u \in next : u.kind = "uncollected" /\ u.run = t.run
  BY <1>2
<1> HIDE DEF next
<1>5. next \subseteq TaskTypes
  BY <1>4 DEF TaskTypes
<1>6. QueueStep
  BY <1>0, <1>1, SameStep
<1>7. WorkTypes' /\ TaskStep
  BY <1>0, <1>1, <1>3, <1>4, <1>5, BecameTasks
<1>8. TokenStep
  BY <1>1, <1>3, <1>4, BecameTokens
<1>9. CountTypes' /\ asks' = asks
  <2>1. lost' \in BOOLEAN /\ early' \in BOOLEAN
    BY <1>0, <1>1 DEF CountTypes, past
  <2>2. QED
    BY <1>0, <1>1, <2>1, FaultCounts
<1>10. QED
  BY <1>6, <1>7, <1>8, <1>9, UsesFrom DEF Step, QueueStep

LEMMA FailureStep ==
  ASSUME QueueTypes, NEW t, RecordFailure(t)
  PROVE  QueueStep
<1>1. CASE Listed(t.run)
  <2>1. RecordAndRemove(t.run, "failed") /\ "failed" \in DOMAIN Outcome
    BY <1>1 DEF RecordFailure, Outcome
  <2>2. QED
    BY <1>1, <2>1, RemoveStep
<1>2. CASE ~Listed(t.run)
  <2>1. UNCHANGED <<jobs, results>>
    BY <1>2 DEF RecordFailure
  <2>2. QED
    BY <2>1, SameStep
<1>3. QED
  BY <1>1, <1>2

LEMMA UncollectedStep ==
  ASSUME GatherInv, NEW t \in tasks, Uncollected(t)
  PROVE  Step
<1>0. WorkTypes /\ QueueTypes /\ CountTypes
  BY DEF GatherInv
<1> DEFINE next == {Dispatch(t.run, FALSE)}
<1>1. /\ t.kind = "uncollected" /\ RecordFailure(t) /\ Became(t, next)
      /\ UNCHANGED <<profiles, slot, reports, people, faults, past>>
  BY DEF Uncollected
<1>2. t.run \in Ids
  BY <1>0, <1>1, TaskFields DEF WorkTypes
<1>3. /\ slot' \in SlotTypes /\ slot'.run = slot.run
      /\ reports' \subseteq ReportTypes /\ \A x \in reports' : \E y \in reports : y.run = x.run
  BY <1>0, <1>1 DEF WorkTypes
<1>4. next \subseteq TaskTypes /\ \A u \in next : u.kind = "dispatch"
  BY <1>2, DispatchTypes
<1> HIDE DEF next
<1>5. QueueStep
  BY <1>0, <1>1, FailureStep
<1>6. WorkTypes' /\ TaskStep
  BY <1>0, <1>1, <1>3, <1>4, BecameTasks
<1>7. TokenStep
  BY <1>1, <1>3, <1>4, BecameTokens
<1>8. UNCHANGED Counts
  BY <1>1 DEF Counts
<1>9. QED
  BY <1>5, <1>6, <1>7, <1>8, StepFrom DEF GatherInv

LEMMA RefusedStep ==
  ASSUME GatherInv, NEW t \in tasks, Refused(t)
  PROVE  Step
<1>0. WorkTypes /\ QueueTypes /\ CountTypes
  BY DEF GatherInv
<1> DEFINE next == {Dispatch(t.of, t.acks)}
<1>1. /\ t.kind = "refused" /\ RecordFailure(t) /\ Became(t, next)
      /\ UNCHANGED <<profiles, slot, reports, people, faults, past>>
  BY DEF Refused
<1>2. t.of \in {0} \cup Ids /\ t.acks \in BOOLEAN
  BY <1>0, <1>1, TaskFields DEF WorkTypes
<1>3. /\ slot' \in SlotTypes /\ slot'.run = slot.run
      /\ reports' \subseteq ReportTypes /\ \A x \in reports' : \E y \in reports : y.run = x.run
  BY <1>0, <1>1 DEF WorkTypes
<1>4. next \subseteq TaskTypes /\ \A u \in next : u.kind = "dispatch"
  BY <1>2, DispatchTypes
<1> HIDE DEF next
<1>5. QueueStep
  BY <1>0, <1>1, FailureStep
<1>6. WorkTypes' /\ TaskStep
  BY <1>0, <1>1, <1>3, <1>4, BecameTasks
<1>7. TokenStep
  BY <1>1, <1>3, <1>4, BecameTokens
<1>8. UNCHANGED Counts
  BY <1>1 DEF Counts
<1>9. QED
  BY <1>5, <1>6, <1>7, <1>8, StepFrom DEF GatherInv

LEMMA ClaimStep ==
  ASSUME GatherInv, NEW t \in tasks, Claim(t)
  PROVE  Step
<1>0. WorkTypes /\ QueueTypes /\ CountTypes
  BY DEF GatherInv
<1>1. /\ t.kind = "dispatch"
      /\ UNCHANGED <<results, profiles, slot, people, faults, lost>>
  BY DEF Claim
<1>2. t.of \in {0} \cup Ids /\ t.acks \in BOOLEAN
  BY <1>0, <1>1, TaskFields DEF WorkTypes
<1>3. slot' \in SlotTypes /\ slot'.run = slot.run
  BY <1>0, <1>1 DEF WorkTypes
<1>4. CASE NextQueued(jobs) = {}
  <2>1. Became(t, {}) /\ reports' = AfterAck(t.of, t.acks) /\ UNCHANGED <<jobs, early>>
    BY <1>4 DEF Claim
  <2>2. reports' \subseteq ReportTypes /\ \A x \in reports' : \E y \in reports : y.run = x.run
    BY <1>0, <2>1 DEF WorkTypes, AfterAck
  <2>3. UNCHANGED Counts /\ UNCHANGED <<jobs, results>>
    BY <1>1, <2>1 DEF Counts, past
  <2> DEFINE next == {}
  <2>4. next \subseteq TaskTypes /\ (\A u \in next : u.kind = "purge") /\ Became(t, next)
    BY <2>1
  <2> HIDE DEF next
  <2>5. QED
    BY <1>3, <2>2, <2>3, <2>4, TaskOnlyStep
<1>5. CASE NextQueued(jobs) # {}
  <2>1. PICK i \in NextQueued(jobs) :
          /\ jobs' = [jobs EXCEPT ![i].phase = "preparing"]
          /\ Became(t, {[kind |-> "execute", run |-> jobs[i].run, of |-> t.of, acks |-> t.acks]})
          /\ early' = (early \/ \E u \in tasks : u.kind \in {"status", "recover"})
          /\ UNCHANGED reports
    BY <1>5 DEF Claim
  <2>2. i \in DOMAIN jobs /\ i = 1 /\ jobs[i].phase = "queued"
    BY <2>1 DEF NextQueued
  <2>3. /\ \A k \in DOMAIN jobs : jobs[k] \in JobTypes
        /\ \A k \in DOMAIN jobs : jobs[k].run = jobs[i].run => k = i
    BY <1>0, <2>2, QueueFacts DEF QueueTypes, Distinct
  <2>4. jobs[i].run \in Ids
    BY <2>2, <2>3 DEF JobTypes
  <2> DEFINE r == jobs[i].run
             n == [kind |-> "execute", run |-> r, of |-> t.of, acks |-> t.acks]
             next == {n}
  <2>5. jobs' = WithPhase(jobs, r, "preparing")
    <3> DEFINE A == [jobs EXCEPT ![i].phase = "preparing"]
               B == WithPhase(jobs, r, "preparing")
    <3>1. A = [k \in DOMAIN jobs |->
                 IF k = i THEN [jobs[i] EXCEPT !.phase = "preparing"] ELSE jobs[k]]
      <4>1. jobs = [k \in DOMAIN jobs |-> jobs[k]]
        BY <1>0, SeqDef DEF QueueTypes
      <4>2. QED
        BY <2>2, <4>1
    <3>2. B = [k \in DOMAIN jobs |->
                 IF jobs[k].run = r THEN [jobs[k] EXCEPT !.phase = "preparing"] ELSE jobs[k]]
      BY DEF WithPhase
    <3>3. \A k \in DOMAIN jobs : jobs[k].run = r <=> k = i
      BY <2>2, <2>3
    <3>4. A = B
      BY <3>1, <3>2, <3>3
    <3>5. QED
      BY <2>1, <3>4
  <2>6. /\ n \in [kind : {"execute", "refused"}, run : Ids, of : {0} \cup Ids, acks : BOOLEAN]
        /\ n.kind = "execute" /\ n.run = r
    BY <1>2, <2>4
  <2> HIDE DEF n, r
  <2>7. n \in TaskTypes
    BY <2>6 DEF TaskTypes
  <2>8. /\ next \subseteq TaskTypes /\ Became(t, next)
        /\ \A u \in next : u.kind = "execute" /\ u.run = r
    BY <2>1, <2>6, <2>7 DEF n, r
  <2> HIDE DEF next
  <2>9. QueueStep
    <3>1. "preparing" \in {"collecting", "queued"} \cup Executing
      BY DEF Executing
    <3>2. \A k \in DOMAIN jobs : jobs[k].run = r => k = 1 /\ jobs[k].phase = "queued"
      BY <2>2, <2>3 DEF r
    <3>3. QED
      BY <1>0, <1>1, <2>5, <3>1, <3>2, PhaseStep
  <2>10. reports' \subseteq ReportTypes /\ \A x \in reports' : \E y \in reports : y.run = x.run
    BY <1>0, <2>1 DEF WorkTypes
  <2>11. WorkTypes' /\ TaskStep
    BY <1>0, <1>3, <2>8, <2>10, BecameTasks
  <2>12. TokenStep
    <3>1. \E k \in DOMAIN jobs : jobs[k].run = r /\ k = 1
      BY <2>2 DEF r
    <3>2. QED
      BY <1>3, <2>8, <2>10, <3>1, BecameTokens
  <2>13. CountTypes' /\ asks' = asks
    BY <1>0, <1>1, <2>1 DEF CountTypes, Upsets, people
  <2>14. QED
    BY <2>9, <2>11, <2>12, <2>13, UsesFrom DEF Step, QueueStep
<1>6. QED
  BY <1>4, <1>5

\* Tasks some of which are no longer waited for.
LEMMA UnawaitedTasks ==
  ASSUME WorkTypes, \A u \in tasks' : \E v \in tasks : u = v \/ u = Unawaited(v)
  PROVE  /\ tasks' \subseteq TaskTypes /\ TaskStep
         /\ \A u \in tasks' : u.kind \in {"execute", "refused", "handle", "abort"} => Token(u.run)
<1>1. ASSUME NEW u \in tasks'
      PROVE  /\ u \in TaskTypes
             /\ \E v \in tasks :
                  /\ u.kind = v.kind
                  /\ u.kind \in {"reserve", "retry", "collect", "uncollected", "abort"} => u = v
                  /\ u.kind \in {"execute", "refused", "handle"} => u.run = v.run
  <2>1. PICK v \in tasks : u = v \/ u = Unawaited(v)
    OBVIOUS
  <2>2. v \in TaskTypes
    BY DEF WorkTypes
  <2>3. QED
    BY <2>1, <2>2, UnawaitedFacts
<1>2. TaskStep
  BY <1>1 DEF TaskStep, Pending, InUse
<1>3. \A u \in tasks' : u.kind \in {"execute", "refused", "handle", "abort"} => Token(u.run)
  BY <1>1 DEF Token
<1>4. QED
  BY <1>1, <1>2, <1>3

LEMMA ExecuteStep ==
  ASSUME GatherInv, NEW t \in tasks, Execute(t)
  PROVE  Step
<1>0. WorkTypes /\ QueueTypes /\ CountTypes
  BY DEF GatherInv
<1>1. /\ t.kind = "execute"
      /\ UNCHANGED <<jobs, results, profiles, people, faults, past>>
  BY DEF Execute
<1>2. t.run \in Ids /\ t.of \in {0} \cup Ids /\ t.acks \in BOOLEAN
  BY <1>0, <1>1, TaskFields DEF WorkTypes
<1>3. Token(t.run)
  BY <1>1 DEF Token
<1>4. UNCHANGED Counts /\ UNCHANGED <<jobs, results>>
  BY <1>1 DEF Counts
<1>z. t.run # 0
  BY <1>2, LenProperties, QueueAssumption DEF QueueAssumption, Ids
<1>a. AfterAck(t.of, t.acks) \subseteq reports
  BY DEF AfterAck
<1>5. CASE slot.run \notin {0, t.run}
  <2> DEFINE n == [kind |-> "refused", run |-> t.run, of |-> t.of, acks |-> t.acks]
             next == {n}
  <2>1. Became(t, next) /\ UNCHANGED <<slot, reports>>
    BY <1>5 DEF Execute
  <2>2. /\ n \in [kind : {"execute", "refused"}, run : Ids, of : {0} \cup Ids, acks : BOOLEAN]
        /\ n.kind = "refused" /\ n.run = t.run
    BY <1>2
  <2> HIDE DEF n
  <2>3. n \in TaskTypes
    BY <2>2 DEF TaskTypes
  <2>4. next \subseteq TaskTypes /\ \A u \in next : u.kind = "refused" /\ u.run = t.run
    BY <2>2, <2>3
  <2> HIDE DEF next
  <2>5. /\ slot' \in SlotTypes /\ slot'.run = slot.run
        /\ reports' \subseteq ReportTypes /\ \A x \in reports' : \E y \in reports : y.run = x.run
    BY <1>0, <2>1 DEF WorkTypes
  <2>6. QED
    BY <1>3, <1>4, <2>1, <2>4, <2>5, TaskOnlyStep
<1>6. CASE slot.run = t.run
  <2>1. Became(t, {}) /\ reports' = AfterAck(t.of, t.acks) /\ slot' = slot
    BY <1>6, <1>z DEF Execute
  <2>2. reports' \subseteq ReportTypes /\ \A x \in reports' : \E y \in reports : y.run = x.run
    BY <1>0, <1>a, <2>1 DEF WorkTypes
  <2>3. slot' \in SlotTypes /\ slot'.run = slot.run
    BY <1>0, <2>1 DEF WorkTypes
  <2> DEFINE next == {}
  <2>4. next \subseteq TaskTypes /\ (\A u \in next : u.kind = "purge") /\ Became(t, next)
    BY <2>1
  <2> HIDE DEF next
  <2>5. QED
    BY <1>4, <2>2, <2>3, <2>4, TaskOnlyStep
<1>7. CASE slot.run = 0
  <2>1. /\ slot' = [run |-> t.run, stage |-> "opening", aborted |-> FALSE]
        /\ reports' = {x \in AfterAck(t.of, t.acks) : x.run # t.run}
        /\ tasks' = {IF u.kind = "handle" /\ u.run = t.run THEN Unawaited(u) ELSE u :
                        u \in tasks \ {t}}
    BY <1>7, <1>z DEF Execute
  <2>2. slot' \in SlotTypes /\ slot'.run = t.run
    BY <1>2, <1>z, <2>1 DEF SlotTypes
  <2>3. reports' \subseteq ReportTypes /\ reports' \subseteq reports
    BY <1>0, <1>a, <2>1 DEF WorkTypes
  <2>4. \A u \in tasks' : \E v \in tasks : u = v \/ u = Unawaited(v)
    BY <2>1
  <2>5. /\ tasks' \subseteq TaskTypes /\ TaskStep
        /\ \A u \in tasks' : u.kind \in {"execute", "refused", "handle", "abort"} => Token(u.run)
    BY <1>0, <2>4, UnawaitedTasks
  <2>6. TokenStep
    <3>1. \A x \in reports' : Token(x.run)
      BY <2>3 DEF Token
    <3>2. QED
      BY <1>3, <2>2, <2>5, <3>1 DEF TokenStep, Token
  <2>7. WorkTypes'
    BY <2>2, <2>3, <2>5 DEF WorkTypes
  <2>8. QueueStep
    BY <1>0, <1>1, SameStep
  <2>9. QED
    BY <1>0, <1>4, <2>5, <2>6, <2>7, <2>8, StepFrom
<1>8. QED
  BY <1>5, <1>6, <1>7

LEMMA ExecuteFailsStep ==
  ASSUME GatherInv, NEW t \in tasks, ExecuteFails(t)
  PROVE  Step
<1>0. WorkTypes /\ QueueTypes /\ CountTypes
  BY DEF GatherInv
<1> DEFINE n == [kind |-> "refused", run |-> t.run, of |-> t.of, acks |-> t.acks]
           next == {n}
<1>1. /\ t.kind = "execute" /\ Upsets < MaxUpsets /\ faults' = faults + 1 /\ Became(t, next)
      /\ UNCHANGED <<jobs, results, profiles, slot, reports, people, past>>
  BY DEF ExecuteFails
<1>2. t.run \in Ids /\ t.of \in {0} \cup Ids /\ t.acks \in BOOLEAN
  BY <1>0, <1>1, TaskFields DEF WorkTypes
<1>3. /\ n \in [kind : {"execute", "refused"}, run : Ids, of : {0} \cup Ids, acks : BOOLEAN]
      /\ n.kind = "refused" /\ n.run = t.run
  BY <1>2
<1> HIDE DEF n
<1>4. n \in TaskTypes
  BY <1>3 DEF TaskTypes
<1>5. next \subseteq TaskTypes /\ \A u \in next : u.kind = "refused" /\ u.run = t.run
  BY <1>3, <1>4
<1> HIDE DEF next
<1>6. /\ slot' \in SlotTypes /\ slot'.run = slot.run
      /\ reports' \subseteq ReportTypes /\ \A x \in reports' : \E y \in reports : y.run = x.run
  BY <1>0, <1>1 DEF WorkTypes
<1>7. QueueStep
  BY <1>0, <1>1, SameStep
<1>8. WorkTypes' /\ TaskStep
  BY <1>0, <1>1, <1>5, <1>6, BecameTasks
<1>9. TokenStep
  <2>1. Token(t.run)
    BY <1>1 DEF Token
  <2>2. QED
    BY <1>1, <1>5, <1>6, <2>1, BecameTokens
<1>10. CountTypes' /\ asks' = asks
  <2>1. lost' \in BOOLEAN /\ early' \in BOOLEAN
    BY <1>0, <1>1 DEF CountTypes, past
  <2>2. QED
    BY <1>0, <1>1, <2>1, FaultCounts
<1>11. QED
  BY <1>7, <1>8, <1>9, <1>10, UsesFrom DEF Step, QueueStep

LEMMA PurgeStep ==
  ASSUME GatherInv, NEW t \in tasks, Purge(t)
  PROVE  Step
<1>0. WorkTypes /\ QueueTypes /\ CountTypes
  BY DEF GatherInv
<1> DEFINE ends == {i \in DOMAIN jobs : /\ jobs[i].phase \in {"queued", Pause}
                                        /\ jobs[i].profile \notin profiles}
           eventOf == [phase \in {"queued", Pause} |-> "failed"]
           next == {x \in {Dispatch(0, FALSE)} : t.always \/ ends # {}}
<1>1. /\ t.kind = "purge" /\ jobs' = Kept(jobs, DOMAIN jobs \ ends)
      /\ results' = RecordAll(Kept(jobs, ends), eventOf) /\ Became(t, next)
      /\ UNCHANGED <<profiles, slot, reports, people, faults, past>>
  BY DEF Purge
<1>2. /\ ends \subseteq DOMAIN jobs
      /\ \A i \in ends : /\ eventOf[jobs[i].phase] \in {"failed", "interrupted", "cancelled"}
                         /\ jobs[i].phase # "cancelling"
  BY DEF Pause
<1>3. next \subseteq TaskTypes /\ \A u \in next : u.kind = "dispatch"
  BY DispatchTypes
<1> HIDE DEF ends, eventOf, next
<1>4. EndSeveral(ends, eventOf, {})
  <2> DEFINE kept == Kept(jobs, DOMAIN jobs \ ends)
  <2>1. jobs \in Seq(JobTypes)
    BY <1>0 DEF QueueTypes
  <2>2. kept \in Seq(JobTypes)
    BY <2>1, KeptFacts
  <2> HIDE DEF kept
  <2>3. kept = [i \in DOMAIN kept |-> kept[i]]
    BY <2>2, SeqDef
  <2>4. \A i \in DOMAIN kept : Again(kept[i], {}) = kept[i]
    BY DEF Again
  <2>5. kept = [i \in DOMAIN kept |-> Again(kept[i], {})]
    BY <2>3, <2>4
  <2>6. QED
    BY <1>1, <2>5 DEF EndSeveral, kept
<1>5. QueueStep
  <2> DEFINE none == {}
  <2>1. none \subseteq {"preparing", "writing"} /\ EndSeveral(ends, eventOf, none)
    BY <1>4
  <2> HIDE DEF none
  <2>2. QED
    BY <1>0, <1>2, <2>1, EndStep
<1>6. /\ slot' \in SlotTypes /\ slot'.run = slot.run
      /\ reports' \subseteq ReportTypes /\ \A x \in reports' : \E y \in reports : y.run = x.run
  BY <1>0, <1>1 DEF WorkTypes
<1>7. WorkTypes' /\ TaskStep
  BY <1>0, <1>1, <1>3, <1>6, BecameTasks
<1>8. TokenStep
  BY <1>1, <1>3, <1>6, BecameTokens
<1>9. UNCHANGED Counts
  BY <1>1 DEF Counts
<1>10. QED
  BY <1>5, <1>7, <1>8, <1>9, StepFrom DEF GatherInv

LEMMA AskStatusStep ==
  ASSUME GatherInv, NEW t \in tasks, AskStatus(t)
  PROVE  Step
<1>0. WorkTypes
  BY DEF GatherInv
<1> DEFINE n == [kind |-> "recover", active |-> slot.run]
           next == {n}
<1>1. Became(t, next) /\ UNCHANGED <<jobs, results, slot, reports>> /\ UNCHANGED Counts
  BY DEF AskStatus, Counts
<1>2. slot.run \in {0} \cup Ids
  BY <1>0 DEF WorkTypes, SlotTypes
<1>3. n \in [kind : {"recover"}, active : {0} \cup Ids] /\ n.kind = "recover"
  BY <1>2
<1> HIDE DEF n
<1>4. n \in TaskTypes
  BY <1>3 DEF TaskTypes
<1>5. next \subseteq TaskTypes /\ \A u \in next : u.kind = "recover"
  BY <1>3, <1>4
<1> HIDE DEF next
<1>6. /\ slot' \in SlotTypes /\ slot'.run = slot.run
      /\ reports' \subseteq ReportTypes /\ \A x \in reports' : \E y \in reports : y.run = x.run
  BY <1>0, <1>1 DEF WorkTypes
<1>7. QED
  BY <1>1, <1>5, <1>6, TaskOnlyStep

LEMMA RecoverStep ==
  ASSUME GatherInv, NEW t \in tasks, Recover(t)
  PROVE  Step
<1>0. WorkTypes /\ QueueTypes /\ CountTypes
  BY DEF GatherInv
<1> DEFINE ends == {i \in DOMAIN jobs : jobs[i].phase \in {"collecting", "cancelling"}}
           eventOf == [collecting |-> "interrupted", cancelling |-> "cancelled"]
           again == {"preparing", "writing"}
           next == {[kind |-> "purge", always |-> TRUE]}
<1>1. /\ t.kind = "recover" /\ Became(t, next)
      /\ UNCHANGED <<profiles, slot, reports, people, faults, past>>
  BY DEF Recover
<1>2. QueueStep
  <2>1. CASE Listed(t.active)
    <3>1. UNCHANGED <<jobs, results>>
      BY <2>1 DEF Recover
    <3>2. QED
      BY <1>0, <3>1, SameStep
  <2>2. CASE ~Listed(t.active)
    <3>1. EndSeveral(ends, eventOf, again)
      BY <2>2 DEF Recover, EndSeveral, Again
    <3>2. ends \subseteq DOMAIN jobs
      OBVIOUS
    <3>3. \A i \in ends : /\ eventOf[jobs[i].phase] \in {"failed", "interrupted", "cancelled"}
                          /\ jobs[i].phase = "cancelling" => eventOf[jobs[i].phase] = "cancelled"
      OBVIOUS
    <3>4. again \subseteq {"preparing", "writing"}
      OBVIOUS
    <3> HIDE DEF ends, eventOf, again
    <3>5. QED
      BY <1>0, <3>1, <3>2, <3>3, <3>4, EndStep
  <2>3. QED
    BY <2>1, <2>2
<1>3. next \subseteq TaskTypes /\ \A u \in next : u.kind = "purge"
  BY DEF TaskTypes
<1> HIDE DEF next
<1>6. /\ slot' \in SlotTypes /\ slot'.run = slot.run
      /\ reports' \subseteq ReportTypes /\ \A x \in reports' : \E y \in reports : y.run = x.run
  BY <1>0, <1>1 DEF WorkTypes
<1>7. WorkTypes' /\ TaskStep
  BY <1>0, <1>1, <1>3, <1>6, BecameTasks
<1>8. TokenStep
  BY <1>1, <1>3, <1>6, BecameTokens
<1>9. UNCHANGED Counts
  BY <1>1 DEF Counts
<1>10. QED
  BY <1>2, <1>7, <1>8, <1>9, StepFrom DEF GatherInv

LEMMA HandleStep ==
  ASSUME GatherInv, NEW t \in tasks, Handle(t)
  PROVE  Step
<1> DEFINE j == JobOf(t.run)
           event == IF t.event = Pause /\ j.profile \notin t.known THEN "failed" ELSE t.event
           takes == /\ Listed(t.run)
                    /\ j.phase # "collecting"
                    /\ ~DropsReport(j, t.event)
                    /\ ~StalePause(j, t.event)
           ends == takes /\ event \in Terminal
           redelivered == ~Listed(t.run) /\ t.event \in Terminal
<1>0. WorkTypes /\ QueueTypes /\ CountTypes
  BY DEF GatherInv
<1>1. t.kind = "handle" /\ UNCHANGED <<profiles, people, faults, past>>
  BY DEF Handle
<1>2. /\ t.run \in Ids /\ t.event \in Terminal \cup {"writing", Pause}
      /\ t.acks \in BOOLEAN
  BY <1>0, <1>1, TaskFields DEF WorkTypes
<1>3. Token(t.run)
  BY <1>1 DEF Token
<1>4. UNCHANGED Counts
  BY <1>1 DEF Counts
<1>5. takes /\ j.phase = "cancelling" => t.event = "cancelled" /\ event = "cancelled"
  BY DEF DropsReport, Pause
<1>6. QueueStep
  <2>1. CASE ends
    <3>1. RecordAndRemove(t.run, event)
      BY <2>1 DEF Handle
    <3>2. event \in DOMAIN Outcome /\ Listed(t.run)
      BY <2>1 DEF Terminal, Outcome
    <3>3. j.phase = "cancelling" => event \in {"cancelled", "failed"}
      BY <1>5, <2>1
    <3> HIDE DEF event
    <3>4. QED
      BY <1>0, <3>1, <3>2, <3>3, RemoveStep
  <2>2. CASE takes /\ ~ends
    <3>1. jobs' = WithPhase(jobs, t.run, event) /\ results' = results
      BY <2>2 DEF Handle
    <3>2. event \in {"collecting", "queued"} \cup Executing
      BY <1>2, <2>2 DEF Executing, Pause, Terminal
    <3>3. \A k \in DOMAIN jobs : jobs[k].run = t.run => jobs[k] = j
      BY <1>0, <2>2, JobOfFacts
    <3>4. j.phase # "cancelling"
      BY <1>5, <2>2 DEF Terminal
    <3> HIDE DEF event, takes, ends, j
    <3>5. QED
      BY <1>0, <1>3, <3>1, <3>2, <3>3, <3>4, PhaseStep
  <2>3. CASE ~takes
    <3>1. UNCHANGED <<jobs, results>>
      BY <2>3 DEF Handle
    <3>2. QED
      BY <1>0, <3>1, SameStep
  <2>4. QED
    BY <2>1, <2>2, <2>3
<1>7. CASE ends \/ redelivered
  <2> DEFINE next == {Dispatch(t.run, t.acks)}
  <2>1. Became(t, next) /\ UNCHANGED <<slot, reports>>
    BY <1>7 DEF Handle
  <2>2. next \subseteq TaskTypes /\ \A u \in next : u.kind = "dispatch"
    BY <1>2, DispatchTypes
  <2> HIDE DEF next
  <2>3. /\ slot' \in SlotTypes /\ slot'.run = slot.run
        /\ reports' \subseteq ReportTypes /\ \A x \in reports' : \E y \in reports : y.run = x.run
    BY <1>0, <2>1 DEF WorkTypes
  <2>4. WorkTypes' /\ TaskStep
    BY <1>0, <2>1, <2>2, <2>3, BecameTasks
  <2>5. TokenStep
    BY <2>1, <2>2, <2>3, BecameTokens
  <2>6. QED
    BY <1>4, <1>6, <2>4, <2>5, StepFrom DEF GatherInv
<1>8. CASE ~(ends \/ redelivered)
  <2>1. /\ Became(t, {})
        /\ slot' = IF t.acks /\ t.event = "writing" THEN [slot EXCEPT !.stage = "working"] ELSE slot
        /\ reports' = IF t.event = "writing" THEN reports ELSE AfterAck(t.run, t.acks)
    BY <1>8 DEF Handle
  <2> DEFINE next == {}
  <2>2. next \subseteq TaskTypes /\ (\A u \in next : u.kind = "purge") /\ Became(t, next)
    BY <2>1
  <2> HIDE DEF next
  <2>3. slot' \in SlotTypes /\ slot'.run = slot.run
    <3>1. CASE t.acks /\ t.event = "writing"
      <4>1. slot \in SlotTypes /\ slot.stage = "announcing"
        BY <1>0, <1>1, <3>1 DEF WorkTypes, GatherInv, AnnounceOK, Announces
      <4>2. slot' = [slot EXCEPT !.stage = "working"]
        BY <2>1, <3>1
      <4>3. QED
        BY <4>1, <4>2 DEF SlotTypes
    <3>2. CASE ~(t.acks /\ t.event = "writing")
      <4>1. slot' = slot
        BY <2>1, <3>2
      <4>2. QED
        BY <1>0, <4>1 DEF WorkTypes
    <3>3. QED
      BY <3>1, <3>2
  <2>4. reports' \subseteq ReportTypes /\ \A x \in reports' : \E y \in reports : y.run = x.run
    <3>1. reports' \subseteq reports
      BY <2>1 DEF AfterAck
    <3>2. QED
      BY <1>0, <3>1 DEF WorkTypes
  <2>5. WorkTypes' /\ TaskStep
    BY <1>0, <2>2, <2>3, <2>4, BecameTasks
  <2>6. TokenStep
    BY <2>2, <2>3, <2>4, BecameTokens
  <2>7. QED
    BY <1>4, <1>6, <2>5, <2>6, StepFrom DEF GatherInv
<1>9. QED
  BY <1>7, <1>8

LEMMA AnnounceCase ==
  ASSUME GatherInv, Announce
  PROVE  Step
<1>0. WorkTypes /\ QueueTypes /\ CountTypes
  BY DEF GatherInv
<1> DEFINE n == [kind |-> "handle", run |-> slot.run, event |-> "writing",
                 known |-> {}, acks |-> TRUE]
<1>1. /\ slot.stage = "opening" /\ slot' = [slot EXCEPT !.stage = "announcing"]
      /\ tasks' = tasks \cup {n}
      /\ UNCHANGED <<jobs, results, profiles, reports, people, faults, past>>
  BY DEF Announce
<1>2. slot.run \in Ids /\ slot' \in SlotTypes /\ slot'.run = slot.run
  BY <1>0, <1>1 DEF WorkTypes, SlotTypes
<1>3. /\ n \in [kind : {"handle"}, run : Ids, event : Terminal \cup {"writing", Pause},
               known : SUBSET Profiles, acks : BOOLEAN]
      /\ n.kind = "handle" /\ n.run = slot.run
  BY <1>2
<1> HIDE DEF n
<1>4. n \in TaskTypes
  BY <1>3 DEF TaskTypes
<1>5. Token(n.run)
  BY <1>3 DEF Token
<1>6. reports' \subseteq ReportTypes /\ \A x \in reports' : \E y \in reports : y.run = x.run
  BY <1>0, <1>1 DEF WorkTypes
<1>7. WorkTypes' /\ TaskStep /\ TokenStep
  BY <1>1, <1>2, <1>3, <1>4, <1>5, <1>6, AddedStep
<1>8. QueueStep
  BY <1>0, <1>1, SameStep
<1>9. UNCHANGED Counts
  BY <1>1 DEF Counts
<1>10. QED
  BY <1>0, <1>7, <1>8, <1>9, StepFrom

LEMMA SettleStep ==
  ASSUME GatherInv, NEW event \in Endings, Settle(event)
  PROVE  Step
<1>0. WorkTypes /\ QueueTypes /\ CountTypes
  BY DEF GatherInv
<1> DEFINE x == [run |-> slot.run, event |-> event, sent |-> FALSE]
<1>1. /\ slot' = Idle /\ reports' = reports \cup {x}
      /\ UNCHANGED <<jobs, results, profiles, tasks, people, faults, past>>
  BY DEF Settle
<1>2. slot.stage # "idle" /\ event \in Terminal \cup {Pause}
  BY <1>0 DEF Endings, Terminal, WorkTypes, SlotTypes, Pause
<1>3. slot.run \in Ids
  BY <1>0, <1>2 DEF WorkTypes, SlotTypes
<1>4. slot' \in SlotTypes /\ slot'.run = 0
  BY <1>1 DEF Idle, SlotTypes
<1>5. x \in ReportTypes /\ x.run = slot.run
  BY <1>2, <1>3 DEF ReportTypes
<1> HIDE DEF x
<1>6. WorkTypes'
  BY <1>0, <1>1, <1>4, <1>5 DEF WorkTypes
<1>7. TaskStep
  BY <1>1 DEF TaskStep, InUse
<1>8. TokenStep
  <2>1. 0 \notin Ids
    BY LenProperties, QueueAssumption DEF QueueAssumption, Ids
  <2>2. QED
    BY <1>1, <1>4, <1>5, <2>1 DEF TokenStep, Token
<1>9. QueueStep
  BY <1>0, <1>1, SameStep
<1>10. UNCHANGED Counts
  BY <1>1 DEF Counts
<1>11. QED
  BY <1>0, <1>6, <1>7, <1>8, <1>9, <1>10, StepFrom

LEMMA DeliverStep ==
  ASSUME GatherInv, NEW x \in reports, Deliver(x)
  PROVE  Step
<1>0. WorkTypes /\ QueueTypes /\ CountTypes
  BY DEF GatherInv
<1> DEFINE n == [kind |-> "handle", run |-> x.run, event |-> x.event,
                 known |-> IF x.event = Pause THEN profiles ELSE {}, acks |-> TRUE]
           y == [x EXCEPT !.sent = TRUE]
<1>1. /\ reports' = (reports \ {x}) \cup {y} /\ tasks' = tasks \cup {n}
      /\ UNCHANGED <<jobs, results, profiles, slot, people, faults, past>>
  BY DEF Deliver
<1>2. x \in ReportTypes /\ y \in ReportTypes /\ y.run = x.run /\ x.run \in Ids
  BY <1>0 DEF WorkTypes, ReportTypes
<1>3. /\ n \in [kind : {"handle"}, run : Ids, event : Terminal \cup {"writing", Pause},
               known : SUBSET Profiles, acks : BOOLEAN]
      /\ n.kind = "handle" /\ n.run = x.run
  BY <1>0, <1>2 DEF ReportTypes, CountTypes
<1> HIDE DEF n, y
<1>4. n \in TaskTypes
  BY <1>3 DEF TaskTypes
<1>5. Token(n.run)
  BY <1>3 DEF Token
<1>6. reports' \subseteq ReportTypes /\ \A z \in reports' : \E w \in reports : w.run = z.run
  BY <1>0, <1>1, <1>2 DEF WorkTypes
<1>7. slot' \in SlotTypes /\ slot'.run = slot.run
  BY <1>0, <1>1 DEF WorkTypes
<1>8. WorkTypes' /\ TaskStep /\ TokenStep
  BY <1>1, <1>3, <1>4, <1>5, <1>6, <1>7, AddedStep
<1>9. QueueStep
  BY <1>0, <1>1, SameStep
<1>10. UNCHANGED Counts
  BY <1>1 DEF Counts
<1>11. QED
  BY <1>0, <1>8, <1>9, <1>10, StepFrom

LEMMA EndSteps ==
  ASSUME GatherInv, WorkerEnds \/ DocumentEnds \/ Restart
  PROVE  Step
<1>0. WorkTypes /\ QueueTypes /\ CountTypes
  BY DEF GatherInv
<1>i. Idle \in SlotTypes /\ Idle.run = 0 /\ 0 \notin Ids
  BY LenProperties, QueueAssumption DEF Idle, SlotTypes, QueueAssumption, Ids
<1>1. /\ Upsets < MaxUpsets /\ faults' = faults + 1 /\ UNCHANGED <<jobs, results>>
      /\ UNCHANGED <<profiles, people>> /\ lost' \in BOOLEAN /\ early' \in BOOLEAN
  BY <1>0 DEF WorkerEnds, DocumentEnds, Restart, CountTypes
<1>2. CountTypes' /\ asks' = asks
  BY <1>0, <1>1, FaultCounts
<1>3. QueueStep
  BY <1>0, <1>1, SameStep
<1>4. CASE WorkerEnds
  <2>1. /\ tasks' = {} /\ slot' = slot
        /\ reports' = {[x EXCEPT !.sent = FALSE] : x \in reports}
    BY <1>4 DEF WorkerEnds
  <2>2. \A x \in ReportTypes : /\ [x EXCEPT !.sent = FALSE] \in ReportTypes
                               /\ [x EXCEPT !.sent = FALSE].run = x.run
    BY DEF ReportTypes
  <2>3. reports' \subseteq ReportTypes /\ \A x \in reports' : \E y \in reports : y.run = x.run
    BY <1>0, <2>1, <2>2 DEF WorkTypes
  <2>4. WorkTypes' /\ TaskStep /\ TokenStep
    BY <1>0, <2>1, <2>3 DEF WorkTypes, TaskStep, TokenStep, Token
  <2>5. QED
    BY <1>2, <1>3, <2>4, UsesFrom DEF Step, QueueStep
<1>5. CASE DocumentEnds
  <2>1. slot' = Idle /\ reports' = {} /\ tasks' = {Unawaited(u) : u \in tasks}
    BY <1>5 DEF DocumentEnds
  <2>2. \A u \in tasks' : \E v \in tasks : u = v \/ u = Unawaited(v)
    BY <2>1
  <2>3. /\ tasks' \subseteq TaskTypes /\ TaskStep
        /\ \A u \in tasks' : u.kind \in {"execute", "refused", "handle", "abort"} => Token(u.run)
    BY <1>0, <2>2, UnawaitedTasks
  <2>4. WorkTypes' /\ TokenStep
    BY <1>i, <2>1, <2>3 DEF WorkTypes, TokenStep, Token
  <2>5. QED
    BY <1>2, <1>3, <2>3, <2>4, UsesFrom DEF Step, QueueStep
<1>6. CASE Restart
  <2> DEFINE n == [kind |-> "status"]
  <2>1. slot' = Idle /\ reports' = {} /\ tasks' = {n}
    BY <1>6 DEF Restart
  <2>2. n \in TaskTypes /\ n.kind = "status"
    BY DEF TaskTypes
  <2> HIDE DEF n
  <2>3. WorkTypes' /\ TaskStep /\ TokenStep
    BY <1>i, <2>1, <2>2 DEF WorkTypes, TaskStep, TokenStep, Token, Pending
  <2>4. QED
    BY <1>2, <1>3, <2>3, UsesFrom DEF Step, QueueStep
<1>7. QED
  BY <1>4, <1>5, <1>6

LEMMA SameAnnounced ==
  ASSUME GatherInv, slot'.run = slot.run, slot'.stage = slot.stage,
         \A u \in tasks' : Announces(u) => u \in tasks
  PROVE  AnnounceOK'
BY DEF GatherInv, AnnounceOK, Announces

LEMMA NoneAnnounced ==
  ASSUME \A u \in tasks' : ~Announces(u)
  PROVE  AnnounceOK'
BY DEF AnnounceOK, Announces

LEMMA AnnounceKept ==
  ASSUME GatherInv, Next
  PROVE  AnnounceOK'
<1>0. /\ AnnounceOK /\ tasks \subseteq TaskTypes /\ slot \in SlotTypes
      /\ reports \subseteq ReportTypes /\ 0 \notin Ids
  BY LenProperties, QueueAssumption DEF GatherInv, WorkTypes, QueueAssumption, Ids
<1>1. CASE People
  <2>1. UNCHANGED slot /\ \A u \in tasks' : u.kind = "handle" => u \in tasks
    <3>1. CASE \E page \in Pages, profile \in Profiles : Gather(page, profile)
      BY <3>1 DEF Gather
    <3>2. CASE \E i \in DOMAIN results, profile \in Profiles : AskRetry(i, profile)
      BY <3>2 DEF AskRetry
    <3>3. CASE \E i \in DOMAIN results : HandBack(i)
      BY <3>3 DEF HandBack
    <3>4. ASSUME NEW i \in DOMAIN jobs, NEW r, Cancel(r)
          PROVE  UNCHANGED slot /\ \A u \in tasks' : u.kind = "handle" => u \in tasks
      BY <3>4 DEF Cancel, Dispatch
    <3>5. CASE \E profile \in Profiles : DeleteProfile(profile)
      BY <3>5 DEF DeleteProfile
    <3>6. QED
      BY <1>1, <3>1, <3>2, <3>3, <3>4, <3>5 DEF People
  <2>2. QED
    BY <2>1, SameAnnounced DEF Announces
<1>2. CASE Worker \/ Faults
  <2>1. ASSUME NEW t \in tasks,
               \/ Reserve(t) \/ Retry(t) \/ Collected(t) \/ Uncollected(t)
               \/ Claim(t) \/ Refused(t) \/ Purge(t) \/ AskStatus(t) \/ Recover(t)
               \/ CollectFails(t) \/ ExecuteFails(t)
        PROVE  AnnounceOK'
    <3>1. UNCHANGED slot /\ \A u \in tasks' : u.kind = "handle" => u \in tasks
      <4>1. CASE Reserve(t)
        BY <4>1 DEF Reserve, Became, Dispatch
      <4>2. CASE Retry(t)
        BY <4>2 DEF Retry, Became, Dispatch
      <4>3. CASE Collected(t)
        BY <4>3 DEF Collected, Became, Dispatch
      <4>4. CASE Uncollected(t)
        BY <4>4 DEF Uncollected, Became, Dispatch
      <4>5. CASE Claim(t)
        BY <4>5 DEF Claim, Became, Dispatch
      <4>6. CASE Refused(t)
        BY <4>6 DEF Refused, Became, Dispatch
      <4>7. CASE Purge(t)
        BY <4>7 DEF Purge, Became, Dispatch
      <4>8. CASE AskStatus(t)
        BY <4>8 DEF AskStatus, Became, Dispatch
      <4>9. CASE Recover(t)
        BY <4>9 DEF Recover, Became, Dispatch
      <4>10. CASE CollectFails(t)
        BY <4>10 DEF CollectFails, Became, Dispatch
      <4>11. CASE ExecuteFails(t)
        BY <4>11 DEF ExecuteFails, Became, Dispatch
      <4>12. QED
        BY <2>1, <4>1, <4>2, <4>3, <4>4, <4>5, <4>6, <4>7, <4>8, <4>9, <4>10, <4>11
    <3>2. QED
      BY <3>1, SameAnnounced DEF Announces
  <2>2. ASSUME NEW t \in tasks, Abort(t)
        PROVE  AnnounceOK'
    <3>1. slot'.run = slot.run /\ slot'.stage = slot.stage
      BY <1>0, <2>2 DEF Abort, SlotTypes
    <3>2. \A u \in tasks' : u \in tasks \/ (u.kind = "handle" /\ u.event = "cancelled")
      BY <2>2 DEF Abort, Became
    <3>3. QED
      BY <3>1, <3>2, SameAnnounced DEF Announces
  <2>3. ASSUME NEW t \in tasks, Execute(t)
        PROVE  AnnounceOK'
    <3>0. t.kind = "execute" /\ t.run \in Ids
      BY <1>0, <2>3, TaskFields DEF Execute
    <3>1. CASE slot.run # 0
      <4>1. /\ UNCHANGED slot
            /\ \A u \in tasks' : u \in tasks \/ u.kind = "refused"
        <5>1. CASE slot.run \notin {0, t.run}
          <6> DEFINE n == [kind |-> "refused", run |-> t.run, of |-> t.of, acks |-> t.acks]
          <6>1. Became(t, {n}) /\ UNCHANGED slot
            BY <2>3, <5>1 DEF Execute
          <6>2. n.kind = "refused"
            OBVIOUS
          <6> HIDE DEF n
          <6>3. QED
            BY <6>1, <6>2 DEF Became
        <5>2. CASE slot.run = t.run
          BY <2>3, <3>1, <5>2 DEF Execute, Became
        <5>3. QED
          BY <3>1, <5>1, <5>2
      <4>2. QED
        BY <4>1, SameAnnounced DEF Announces
    <3>2. CASE slot.run = 0
      <4>1. \A u \in tasks : ~Announces(u)
        BY <1>0, <3>2, TaskFields DEF AnnounceOK, Announces
      <4>2. \A u \in tasks' : u \in tasks \/ \E v \in tasks : v.kind = "handle" /\ u = Unawaited(v)
        BY <1>0, <2>3, <3>0, <3>2 DEF Execute
      <4>3. \A v \in tasks : v.kind = "handle" => ~Unawaited(v).acks
        BY <1>0, UnawaitedFacts
      <4>4. \A u \in tasks' : ~Announces(u)
        BY <4>1, <4>2, <4>3 DEF Announces
      <4>5. QED
        BY <4>4, NoneAnnounced
    <3>3. QED
      BY <3>1, <3>2
  <2>4. ASSUME NEW t \in tasks, Handle(t)
        PROVE  AnnounceOK'
    <3>1. \A u \in tasks' : u \in tasks \ {t} \/ u.kind = "dispatch"
      BY <2>4 DEF Handle, Became, Dispatch
    <3>2. CASE Announces(t)
      <4>1. \A u \in tasks' : ~Announces(u)
        BY <1>0, <3>1, <3>2 DEF AnnounceOK, Announces
      <4>2. QED
        BY <4>1, NoneAnnounced
    <3>3. CASE ~Announces(t)
      <4>1. slot' = slot
        BY <2>4, <3>3 DEF Handle, Announces
      <4>2. QED
        BY <3>1, <4>1, SameAnnounced DEF Announces
    <3>4. QED
      BY <3>2, <3>3
  <2>5. CASE WorkerEnds \/ Restart
    <3>1. \A u \in tasks' : u.kind = "status"
      BY <2>5 DEF WorkerEnds, Restart
    <3>2. \A u \in tasks' : ~Announces(u)
      BY <3>1 DEF Announces
    <3>3. QED
      BY <3>2, NoneAnnounced
  <2>6. CASE DocumentEnds
    <3>1. \A u \in tasks' : \E v \in tasks : u = Unawaited(v)
      BY <2>6 DEF DocumentEnds
    <3>2. \A v \in tasks : ~Announces(Unawaited(v))
      BY <1>0, UnawaitedFacts DEF Announces
    <3>3. \A u \in tasks' : ~Announces(u)
      BY <3>1, <3>2
    <3>4. QED
      BY <3>3, NoneAnnounced
  <2>7. QED
    BY <1>2, <2>1, <2>2, <2>3, <2>4, <2>5, <2>6 DEF Worker, Faults
<1>3. CASE Document
  <2>1. CASE Announce
    <3>1. \A u \in tasks : ~Announces(u)
      BY <1>0, <2>1 DEF AnnounceOK, Announce
    <3> DEFINE n == [kind |-> "handle", run |-> slot.run, event |-> "writing",
                     known |-> {}, acks |-> TRUE]
    <3>2. tasks' = tasks \cup {n} /\ n.run = slot.run
      BY <2>1 DEF Announce
    <3> HIDE DEF n
    <3>3. slot'.run = slot.run /\ slot'.stage = "announcing"
      BY <1>0, <2>1 DEF Announce, SlotTypes
    <3>4. \A u \in tasks' : Announces(u) => u = n
      BY <3>1, <3>2
    <3>5. QED
      BY <3>2, <3>3, <3>4 DEF AnnounceOK, Announces
  <2>2. ASSUME NEW event \in Endings, Settle(event)
        PROVE  AnnounceOK'
    <3>1. \A u \in tasks : ~Announces(u)
      BY <1>0, <2>2 DEF Settle, AnnouncementLost, AnnounceOK, Announces
    <3>2. tasks' = tasks
      BY <2>2 DEF Settle
    <3>3. QED
      BY <3>1, <3>2, NoneAnnounced
  <2>3. ASSUME NEW x \in reports, Deliver(x)
        PROVE  AnnounceOK'
    <3>1. slot' = slot
      BY <2>3 DEF Deliver
    <3>2. x.event # "writing"
      BY <1>0 DEF ReportTypes, Terminal, Pause
    <3>3. \A u \in tasks' : u \in tasks \/ u.event = x.event
      BY <2>3 DEF Deliver
    <3>4. QED
      BY <3>1, <3>2, <3>3, SameAnnounced DEF Announces
  <2>4. QED
    BY <1>3, <2>1, <2>2, <2>3 DEF Document
<1>4. QED
  BY <1>1, <1>2, <1>3 DEF Next

LEMMA NextIsAStep ==
  ASSUME GatherInv, Next
  PROVE  Step
<1>1. CASE People
  BY <1>1, AskSteps, HandBackStep, CancelCase, DeleteProfileStep DEF People
<1>2. CASE Worker
  <2>1. PICK t \in tasks : \/ Reserve(t) \/ Retry(t) \/ Abort(t)
                           \/ Collected(t) \/ Uncollected(t)
                           \/ Claim(t) \/ Execute(t) \/ Refused(t)
                           \/ Purge(t) \/ AskStatus(t) \/ Recover(t)
                           \/ Handle(t)
    BY <1>2 DEF Worker
  <2>2. QED
    BY <2>1, ReserveStep, RetryStep, AbortStep, CollectedStep, UncollectedStep, ClaimStep,
       ExecuteStep, RefusedStep, PurgeStep, AskStatusStep, RecoverStep, HandleStep
<1>3. CASE Document
  BY <1>3, AnnounceCase, SettleStep, DeliverStep DEF Document
<1>4. CASE Faults
  BY <1>4, CollectFailsStep, ExecuteFailsStep, EndSteps DEF Faults
<1>5. QED
  BY <1>1, <1>2, <1>3, <1>4 DEF Next

LEMMA GatherInvKept ==
  ASSUME GatherInv, [Next]_vars
  PROVE  GatherInv'
<1>1. CASE Next
  BY <1>1, NextIsAStep, AnnounceKept, StepKeeps
<1>2. CASE UNCHANGED vars
  BY <1>2 DEF vars, GatherInv, QueueTypes, WorkTypes, CountTypes, Upsets, Known, Fresh, HeadOnly,
              RetryOK, AnnounceOK, InUse, Token
<1>3. QED
  BY <1>1, <1>2

LEMMA GatherInvFirst ==
  ASSUME Init
  PROVE  GatherInv
<1>0. /\ <<>> \in Seq(JobTypes) /\ <<>> \in Seq(ResultTypes) /\ Len(<<>>) = 0 /\ DOMAIN <<>> = {}
      /\ Len(Asked) \in Nat /\ Ids = 1 .. Len(Asked)
      /\ MaxQueue \in Nat /\ MaxUpsets \in Nat /\ DefaultProfile \in Profiles
  <2>1. Asked \in Seq(SUBSET (Pages \X Profiles))
    BY QueueAssumption DEF QueueAssumption
  <2>2. Len(Asked) \in Nat /\ Ids = 1 .. Len(Asked)
    BY <2>1, LenProperties DEF Ids
  <2>3. QED
    BY <2>2, EmptySeq, QueueAssumption DEF QueueAssumption
<1>1. QueueTypes
  BY <1>0 DEF Init, QueueTypes, Distinct, RunsOf
<1>2. WorkTypes
  BY DEF Init, WorkTypes, SlotTypes, Idle
<1>3. CountTypes
  <2>1. Profiles \ profiles = {}
    BY DEF Init
  <2>2. IsFiniteSet({}) /\ Cardinality({}) = 0
    BY FS_EmptySet
  <2>3. Upsets = 0
    <3>1. cancels = 0 /\ faults = 0 /\ Cardinality(Profiles \ profiles) = 0
      BY <2>1, <2>2 DEF Init
    <3>2. QED
      BY <3>1 DEF Upsets
  <2>4. /\ profiles = Profiles /\ asks = 0 /\ cancels = 0 /\ faults = 0
        /\ lost = FALSE /\ early = FALSE
    BY DEF Init
  <2>5. asks \in 0 .. Len(Asked) /\ Upsets <= MaxUpsets
    BY <1>0, <2>3, <2>4
  <2>6. IsFiniteSet(Profiles \ profiles)
    BY <2>1, <2>2
  <2>7. QED
    BY <1>0, <2>4, <2>5, <2>6 DEF CountTypes
<1>4. Known
  BY <1>0 DEF Init, Known, InUse, Token, RunsOf, Idle
<1>5. Fresh /\ HeadOnly /\ RetryOK /\ AnnounceOK
  BY <1>0 DEF Init, Fresh, HeadOnly, RetryOK, AnnounceOK
<1>6. QED
  BY <1>1, <1>2, <1>3, <1>4, <1>5 DEF GatherInv

LEMMA GatherInvAlways == Spec => []GatherInv
BY GatherInvFirst, GatherInvKept, PTL DEF Spec

-----------------------------------------------------------------------------
(* The handoff: the invariant of a run's way, while nobody cancels and no profile goes. *)

Calm == ~early /\ cancels = 0 /\ profiles = Profiles

Has(r, P)     == \E i \in DOMAIN jobs : jobs[i].run = r /\ jobs[i].phase \in P
Busy(r)       == Has(r, {"preparing", "writing"})
Collecting(r) == Has(r, {"collecting"})

Sends(t, r)    == t.kind \in {"execute", "refused"} /\ t.run = r
Hears(t, r)    == t.kind = "handle" /\ t.run = r
Collects(t, r) == t.kind \in {"collect", "uncollected"} /\ t.run = r

\* What executes is the job that holds the queue.
SlotOK(r) == slot.run = r => Busy(r)

\* So is what is sent to the document, once, and nothing of it is heard before.
SentOK(r) == \A t \in tasks : Sends(t, r) =>
    /\ Busy(r) /\ slot.run # r
    /\ \A x \in reports : x.run # r
    /\ \A u \in tasks : Sends(u, r) \/ Hears(u, r) => u = t

\* The report of a job in the queue is the only one, and held until its answer.
ReportOK(r) == \A x \in reports : x.run = r =>
    /\ Busy(r) /\ slot.run # r
    /\ \A y \in reports : y.run = r => y = x
    /\ \A t \in tasks : Hears(t, r) => t.acks /\ x.sent /\ t.event = x.event

\* What is heard of a job in the queue is its announcement, or that it no longer executes.
HeardOK(r) == \A t \in tasks : Hears(t, r) =>
    /\ Busy(r)
    /\ IF Announces(t) THEN slot.run = r /\ slot.stage = "announcing" ELSE slot.run # r
    /\ \A u \in tasks : Hears(u, r) => u = t

CollectOK(r) == \A t \in tasks : Collects(t, r) =>
    /\ Collecting(r)
    /\ \A u \in tasks : Collects(u, r) => u = t

RunOK(r) ==
    /\ SlotOK(r) /\ SentOK(r)
    /\ r \in RunsOf(jobs) => ReportOK(r) /\ HeardOK(r) /\ CollectOK(r)

\* Nothing is being cancelled, and before the recovery nothing executes.
QuietOK ==
    /\ \A t \in tasks : t.kind # "abort"
    /\ \A i \in DOMAIN jobs : jobs[i].phase # "cancelling"
    /\ (\E t \in tasks : t.kind \in {"status", "recover"}) =>
         /\ slot.run = 0 /\ reports = {}
         /\ \A t \in tasks : t.kind \notin {"execute", "refused", "handle"}

InOrder == QuietOK /\ \A r \in Ids : RunOK(r)

-----------------------------------------------------------------------------
(* The handoff: what leaves a run as it was. *)

Of(t, r) == Sends(t, r) \/ Hears(t, r) \/ Collects(t, r)

JobStays(r) ==
    /\ Busy(r) => Busy(r)'
    /\ Collecting(r) => Collecting(r)'
    /\ r \in RunsOf(jobs') => r \in RunsOf(jobs)
TasksStay(r)   == \A t \in tasks' : Of(t, r) => t \in tasks
ReportsStay(r) == \A x \in reports' : x.run = r => x \in reports
SlotStays(r)   == slot' = slot \/ (slot.run # r /\ slot'.run # r)

LEMMA Framed ==
  ASSUME NEW r, RunOK(r), JobStays(r), TasksStay(r), ReportsStay(r), SlotStays(r)
  PROVE  RunOK(r)'
<1>1. SlotOK(r)'
  BY DEF RunOK, SlotOK, SlotStays, JobStays
<1>2. SentOK(r)'
  <2> SUFFICES ASSUME NEW t \in tasks', Sends(t, r)
               PROVE  /\ Busy(r)' /\ slot'.run # r
                      /\ \A x \in reports' : x.run # r
                      /\ \A u \in tasks' : Sends(u, r) \/ Hears(u, r) => u = t
    BY DEF SentOK
  <2>1. t \in tasks
    BY DEF TasksStay, Of
  <2>2. /\ Busy(r) /\ slot.run # r
        /\ \A x \in reports : x.run # r
        /\ \A u \in tasks : Sends(u, r) \/ Hears(u, r) => u = t
    BY <2>1 DEF RunOK, SentOK
  <2>3. QED
    BY <2>2 DEF JobStays, TasksStay, Of, ReportsStay, SlotStays
<1>3. ASSUME r \in RunsOf(jobs')
      PROVE  ReportOK(r)' /\ HeardOK(r)' /\ CollectOK(r)'
  <2>1. ReportOK(r) /\ HeardOK(r) /\ CollectOK(r)
    BY <1>3 DEF RunOK, JobStays
  <2>2. ReportOK(r)'
    <3> SUFFICES ASSUME NEW x \in reports', x.run = r
                 PROVE  /\ Busy(r)' /\ slot'.run # r
                        /\ \A y \in reports' : y.run = r => y = x
                        /\ \A t \in tasks' : Hears(t, r) => t.acks /\ x.sent /\ t.event = x.event
      BY DEF ReportOK
    <3>1. x \in reports
      BY DEF ReportsStay
    <3>2. /\ Busy(r) /\ slot.run # r
          /\ \A y \in reports : y.run = r => y = x
          /\ \A t \in tasks : Hears(t, r) => t.acks /\ x.sent /\ t.event = x.event
      BY <2>1, <3>1 DEF ReportOK
    <3>3. QED
      BY <3>2 DEF JobStays, TasksStay, Of, ReportsStay, SlotStays
  <2>3. HeardOK(r)'
    <3> SUFFICES ASSUME NEW t \in tasks', Hears(t, r)
                 PROVE  /\ Busy(r)'
                        /\ IF Announces(t) THEN slot'.run = r /\ slot'.stage = "announcing"
                                           ELSE slot'.run # r
                        /\ \A u \in tasks' : Hears(u, r) => u = t
      BY DEF HeardOK
    <3>1. t \in tasks
      BY DEF TasksStay, Of
    <3>2. /\ Busy(r)
          /\ IF Announces(t) THEN slot.run = r /\ slot.stage = "announcing" ELSE slot.run # r
          /\ \A u \in tasks : Hears(u, r) => u = t
      BY <2>1, <3>1 DEF HeardOK
    <3>3. QED
      BY <3>2 DEF JobStays, TasksStay, Of, SlotStays
  <2>4. CollectOK(r)'
    BY <2>1 DEF CollectOK, JobStays, TasksStay, Of
  <2>5. QED
    BY <2>2, <2>3, <2>4
<1>4. QED
  BY <1>1, <1>2, <1>3 DEF RunOK

\* A run that left the queue, and one of which nothing is under way.
LEMMA Gone ==
  ASSUME NEW r, r \notin RunsOf(jobs'), slot'.run # r, \A t \in tasks' : ~Sends(t, r)
  PROVE  RunOK(r)'
BY DEF RunOK, SlotOK, SentOK

LEMMA Silent ==
  ASSUME NEW r, slot'.run # r, \A x \in reports' : x.run # r, \A t \in tasks' : ~Of(t, r)
  PROVE  RunOK(r)'
BY DEF RunOK, SlotOK, SentOK, ReportOK, HeardOK, CollectOK, Of

\* Of a job that does not hold the queue, nothing is sent or heard.
LEMMA NotBusy ==
  ASSUME NEW r, RunOK(r), ~Busy(r), r \in RunsOf(jobs)
  PROVE  /\ slot.run # r /\ \A x \in reports : x.run # r
         /\ \A t \in tasks : ~Sends(t, r) /\ ~Hears(t, r) /\ (~Collecting(r) => ~Collects(t, r))
BY DEF RunOK, SlotOK, SentOK, ReportOK, HeardOK, CollectOK

LEMMA NotSent ==
  ASSUME NEW r, RunOK(r), ~Busy(r)
  PROVE  slot.run # r /\ \A t \in tasks : ~Sends(t, r)
BY DEF RunOK, SlotOK, SentOK

LEMMA NotInUse ==
  ASSUME NEW r, ~InUse(r)
  PROVE  /\ slot.run # r /\ \A x \in reports : x.run # r
         /\ r \notin RunsOf(jobs) /\ \A t \in tasks : ~Of(t, r)
BY DEF InUse, Token, Of, Sends, Hears, Collects

-----------------------------------------------------------------------------
(* The handoff: what happens to the jobs. *)

LEMMA JobPhase ==
  ASSUME QueueTypes, NEW i \in DOMAIN jobs
  PROVE  /\ jobs[i].run \in RunsOf(jobs)
         /\ Busy(jobs[i].run) <=> jobs[i].phase \in {"preparing", "writing"}
         /\ Collecting(jobs[i].run) <=> jobs[i].phase = "collecting"
BY DEF QueueTypes, Distinct, RunsOf, Busy, Collecting, Has

LEMMA SameJobs ==
  ASSUME jobs' = jobs, NEW r
  PROVE  JobStays(r)
BY DEF JobStays, Busy, Collecting, Has

NoneCancelling == \A i \in DOMAIN jobs : jobs[i].phase # "cancelling"

LEMMA PhaseJobs ==
  ASSUME QueueTypes, NEW q, NEW phase \in {"collecting", "queued"} \cup Executing,
         jobs' = WithPhase(jobs, q, phase)
  PROVE  /\ \A r : r # q => JobStays(r)
         /\ RunsOf(jobs') = RunsOf(jobs)
         /\ q \in RunsOf(jobs) /\ phase \in {"preparing", "writing"} => Busy(q)'
         /\ NoneCancelling /\ phase # "cancelling" => NoneCancelling'
<1>1. /\ DOMAIN jobs' = DOMAIN jobs
      /\ \A i \in DOMAIN jobs :
           jobs'[i] = IF jobs[i].run = q THEN [jobs[i] EXCEPT !.phase = phase] ELSE jobs[i]
  BY WithPhaseFacts DEF QueueTypes
<1>2. \A i \in DOMAIN jobs : jobs[i] \in JobTypes
  BY QueueFacts DEF QueueTypes
<1>3. \A i \in DOMAIN jobs :
        /\ jobs'[i].run = jobs[i].run
        /\ jobs[i].run = q => jobs'[i].phase = phase
        /\ jobs[i].run # q => jobs'[i].phase = jobs[i].phase
  BY <1>1, <1>2 DEF JobTypes
<1>4. RunsOf(jobs') = RunsOf(jobs)
  BY <1>1, <1>3 DEF RunsOf
<1>5. ASSUME NEW r, r # q PROVE JobStays(r)
  BY <1>1, <1>3, <1>4, <1>5 DEF JobStays, Busy, Collecting, Has
<1>6. q \in RunsOf(jobs) /\ phase \in {"preparing", "writing"} => Busy(q)'
  BY <1>1, <1>3 DEF Busy, Has, RunsOf
<1>7. NoneCancelling /\ phase # "cancelling" => NoneCancelling'
  BY <1>1, <1>3 DEF NoneCancelling
<1>8. QED
  BY <1>4, <1>5, <1>6, <1>7

LEMMA RemovedJobs ==
  ASSUME QueueTypes, NEW q, jobs' = Without(jobs, q)
  PROVE  /\ \A r : r # q => JobStays(r)
         /\ q \notin RunsOf(jobs') /\ RunsOf(jobs') \subseteq RunsOf(jobs)
         /\ NoneCancelling => NoneCancelling'
<1>1. /\ RunsOf(jobs') \subseteq RunsOf(jobs) \ {q}
      /\ \A i \in DOMAIN jobs' : \E k \in DOMAIN jobs : jobs[k].run # q /\ jobs'[i] = jobs[k]
      /\ \A k \in DOMAIN jobs : jobs[k].run # q => \E i \in DOMAIN jobs' : jobs'[i] = jobs[k]
  BY WithoutFacts DEF QueueTypes
<1>2. ASSUME NEW r, r # q PROVE JobStays(r)
  BY <1>1, <1>2 DEF JobStays, Busy, Collecting, Has
<1>3. NoneCancelling => NoneCancelling'
  BY <1>1 DEF NoneCancelling
<1>4. QED
  BY <1>1, <1>2, <1>3

LEMMA QuietFrom ==
  ASSUME QuietOK, NoneCancelling',
         \A u \in tasks' : u \in tasks \/ u.kind \notin {"abort", "status", "recover",
                                                         "execute", "refused", "handle"},
         slot' = slot \/ slot'.run = 0, reports' \subseteq reports
  PROVE  QuietOK'
BY DEF QuietOK, NoneCancelling

LEMMA QuietAtWork ==
  ASSUME NoneCancelling', QuietOK,
         \A t \in tasks : t.kind \notin {"status", "recover"},
         \A u \in tasks' : u \in tasks \/ u.kind \notin {"abort", "status", "recover"}
  PROVE  QuietOK'
BY DEF QuietOK, NoneCancelling

-----------------------------------------------------------------------------
(* The handoff: the steps. *)

\* A task of the run q turns into others that are of no other run.
LEMMA OthersStay ==
  ASSUME NEW t, NEW next, Became(t, next), NEW r, \A u \in next : ~Of(u, r)
  PROVE  TasksStay(r)
BY DEF Became, TasksStay

LEMMA TypesOfInv ==
  ASSUME GatherInv
  PROVE  /\ QueueTypes /\ WorkTypes /\ tasks \subseteq TaskTypes /\ slot \in SlotTypes
         /\ reports \subseteq ReportTypes /\ 0 \notin Ids
BY LenProperties, QueueAssumption DEF GatherInv, WorkTypes, QueueAssumption, Ids

LEMMA NewTaskOrder ==
  ASSUME InOrder, UNCHANGED <<jobs, slot, reports>>,
         NEW n, tasks' = tasks \cup {n}, n.kind \in {"reserve", "retry"}
  PROVE  InOrder'
<1>1. ASSUME NEW r \in Ids PROVE RunOK(r)'
  <2>1. RunOK(r) /\ JobStays(r)
    BY SameJobs DEF InOrder
  <2>2. TasksStay(r)
    BY DEF TasksStay, Of, Sends, Hears, Collects
  <2>3. QED
    BY <2>1, <2>2, Framed DEF ReportsStay, SlotStays
<1>2. QuietOK'
  <2>1. NoneCancelling'
    BY DEF InOrder, QuietOK, NoneCancelling
  <2>2. QED
    BY <2>1, QuietFrom DEF InOrder
<1>3. QED
  BY <1>1, <1>2 DEF InOrder

LEMMA PeopleOrder ==
  ASSUME GatherInv, InOrder, People, cancels' = cancels, profiles' = profiles
  PROVE  InOrder'
<1>1. CASE \E page \in Pages, profile \in Profiles : Gather(page, profile)
  <2>1. PICK page \in Pages, profile \in Profiles : Gather(page, profile)
    BY <1>1
  <2> DEFINE n == [kind |-> "reserve", run |-> asks + 1, page |-> page, profile |-> profile]
  <2>2. UNCHANGED <<jobs, slot, reports>> /\ tasks' = tasks \cup {n} /\ n.kind = "reserve"
    BY <2>1 DEF Gather
  <2> HIDE DEF n
  <2>3. QED
    BY <2>2, NewTaskOrder
<1>2. CASE \E i \in DOMAIN results, profile \in Profiles : AskRetry(i, profile)
  <2>1. PICK i \in DOMAIN results, profile \in Profiles : AskRetry(i, profile)
    BY <1>2
  <2> DEFINE n == [kind |-> "retry", run |-> asks + 1, of |-> results[i].run,
                   page |-> results[i].page, profile |-> profile]
  <2>2. UNCHANGED <<jobs, slot, reports>> /\ tasks' = tasks \cup {n} /\ n.kind = "retry"
    BY <2>1 DEF AskRetry
  <2> HIDE DEF n
  <2>3. QED
    BY <2>2, NewTaskOrder
<1>3. CASE \E i \in DOMAIN results : HandBack(i)
  <2>1. UNCHANGED <<jobs, slot, reports, tasks>>
    BY <1>3 DEF HandBack
  <2>2. ASSUME NEW r \in Ids PROVE RunOK(r)'
    BY <2>1, SameJobs, Framed DEF InOrder, TasksStay, ReportsStay, SlotStays
  <2>3. QuietOK'
    BY <2>1, QuietFrom DEF InOrder, QuietOK, NoneCancelling
  <2>4. QED
    BY <2>2, <2>3 DEF InOrder
<1>4. CASE \E i \in DOMAIN jobs : Cancel(jobs[i].run)
  <2>1. cancels' = cancels + 1
    BY <1>4 DEF Cancel
  <2>2. cancels \in Nat
    BY DEF GatherInv, CountTypes
  <2>3. QED
    BY <2>1, <2>2
<1>5. CASE \E profile \in Profiles : DeleteProfile(profile)
  BY <1>5 DEF DeleteProfile
<1>6. QED
  BY <1>1, <1>2, <1>3, <1>4, <1>5 DEF People

\* A step of a task t of no run, or one that only ends: nothing else moves.
LEMMA TaskEnds ==
  ASSUME GatherInv, InOrder, NEW t \in tasks, NEW next, Became(t, next),
         UNCHANGED <<jobs, slot>>, reports' \subseteq reports,
         \A u \in next : u.kind \in {"dispatch", "purge"}
  PROVE  InOrder'
<1>1. ASSUME NEW r \in Ids PROVE RunOK(r)'
  <2>1. RunOK(r) /\ JobStays(r)
    BY SameJobs DEF InOrder
  <2>2. TasksStay(r)
    BY DEF TasksStay, Became, Of, Sends, Hears, Collects
  <2>3. QED
    BY <2>1, <2>2, Framed DEF ReportsStay, SlotStays
<1>2. QuietOK'
  <2>1. NoneCancelling'
    BY DEF InOrder, QuietOK, NoneCancelling
  <2>2. \A u \in tasks' : u \in tasks \/ u.kind \in {"dispatch", "purge"}
    BY DEF Became
  <2>3. QED
    BY <2>1, <2>2, QuietFrom DEF InOrder
<1>3. QED
  BY <1>1, <1>2 DEF InOrder

\* A job that does not hold the queue leaves it.
LEMMA LeavesOrder ==
  ASSUME GatherInv, InOrder, NEW q, jobs' = Without(jobs, q), slot' = slot, slot.run # q,
         reports' \subseteq reports,
         \A u \in tasks' : (u \in tasks /\ ~Sends(u, q)) \/ u.kind = "dispatch"
  PROVE  InOrder'
<1>0. /\ \A r : r # q => JobStays(r)
      /\ q \notin RunsOf(jobs') /\ RunsOf(jobs') \subseteq RunsOf(jobs)
      /\ NoneCancelling => NoneCancelling'
  BY RemovedJobs DEF GatherInv
<1>1. ASSUME NEW r \in Ids PROVE RunOK(r)'
  <2>1. CASE r = q
    <3>1. \A u \in tasks' : ~Sends(u, q)
      BY DEF Sends
    <3>2. QED
      BY <1>0, <2>1, <3>1, Gone
  <2>2. CASE r # q
    <3>1. RunOK(r) /\ JobStays(r)
      BY <1>0, <2>2 DEF InOrder
    <3>2. TasksStay(r)
      BY DEF TasksStay, Of, Sends, Hears, Collects
    <3>3. QED
      BY <3>1, <3>2, Framed DEF ReportsStay, SlotStays
  <2>3. QED
    BY <2>1, <2>2
<1>2. QuietOK'
  <2>1. NoneCancelling'
    BY <1>0 DEF InOrder, QuietOK, NoneCancelling
  <2>2. QED
    BY <2>1, QuietFrom DEF InOrder
<1>3. QED
  BY <1>1, <1>2 DEF InOrder

LEMMA AddedJobs ==
  ASSUME NEW all \in Seq(JobTypes), NEW j \in JobTypes, jobs' = Append(all, j),
         DOMAIN all = DOMAIN jobs,
         \A i \in DOMAIN jobs : /\ all[i].run = jobs[i].run
                                /\ \/ all[i].phase = jobs[i].phase
                                   \/ jobs[i].phase = Pause /\ all[i].phase = "queued",
         j.phase \in {"collecting", "queued"}
  PROVE  /\ \A r : r # j.run => JobStays(r)
         /\ RunsOf(jobs') = RunsOf(jobs) \cup {j.run}
         /\ j.phase = "collecting" => Collecting(j.run)'
         /\ NoneCancelling => NoneCancelling'
<1>1. /\ DOMAIN jobs' = 1 .. (Len(all) + 1) /\ DOMAIN all = 1 .. Len(all) /\ Len(all) \in Nat
      /\ \A i \in DOMAIN all : jobs'[i] = all[i]
      /\ jobs'[Len(all) + 1] = j
  BY AppendProperties, LenProperties
<1>2. \A i \in DOMAIN jobs' : i \in DOMAIN jobs \/ i = Len(all) + 1
  BY <1>1
<1>3. /\ \A i \in DOMAIN jobs : i \in DOMAIN jobs' /\ jobs'[i] = all[i]
      /\ Len(all) + 1 \in DOMAIN jobs'
  BY <1>1
<1>4. RunsOf(jobs') = RunsOf(jobs) \cup {j.run}
  BY <1>1, <1>2, <1>3 DEF RunsOf
<1>5. ASSUME NEW r, r # j.run PROVE JobStays(r)
  <2>1. Busy(r) => Busy(r)'
    BY <1>3 DEF Busy, Has, Pause
  <2>2. Collecting(r) => Collecting(r)'
    BY <1>3 DEF Collecting, Has, Pause
  <2>3. QED
    BY <1>4, <1>5, <2>1, <2>2 DEF JobStays
<1>6. j.phase = "collecting" => Collecting(j.run)'
  BY <1>1, <1>3 DEF Collecting, Has
<1>7. NoneCancelling => NoneCancelling'
  BY <1>1, <1>2, <1>3 DEF NoneCancelling
<1>8. QED
  BY <1>4, <1>5, <1>6, <1>7

\* A run comes into the queue, and at most its collection begins.
LEMMA EntersOrder ==
  ASSUME GatherInv, InOrder, NEW q, ~InUse(q), UNCHANGED <<slot, reports>>,
         \A r : r # q => JobStays(r), NoneCancelling => NoneCancelling',
         \A u \in tasks' : \/ u \in tasks
                           \/ u.kind = "dispatch"
                           \/ /\ u.kind = "collect" /\ u.run = q /\ Collecting(q)'
                              /\ \A v \in tasks' : Collects(v, q) => v = u
  PROVE  InOrder'
<1>0. /\ slot.run # q /\ \A x \in reports : x.run # q
      /\ \A t \in tasks : ~Of(t, q)
  BY NotInUse
<1>1. ASSUME NEW r \in Ids PROVE RunOK(r)'
  <2>1. CASE r = q
    <3>1. SlotOK(q)' /\ ReportOK(q)'
      BY <1>0 DEF SlotOK, ReportOK
    <3>2. \A u \in tasks' : ~Sends(u, q) /\ ~Hears(u, q)
      BY <1>0 DEF Of, Sends, Hears
    <3>3. SentOK(q)' /\ HeardOK(q)'
      BY <3>2 DEF SentOK, HeardOK
    <3>4. \A u \in tasks' : Collects(u, q) =>
             Collecting(q)' /\ \A v \in tasks' : Collects(v, q) => v = u
      BY <1>0 DEF Of, Collects
    <3>5. CollectOK(q)'
      BY <3>4 DEF CollectOK
    <3>6. QED
      BY <2>1, <3>1, <3>3, <3>5 DEF RunOK
  <2>2. CASE r # q
    <3>1. RunOK(r) /\ JobStays(r)
      BY <2>2 DEF InOrder
    <3>2. TasksStay(r)
      BY <2>2 DEF TasksStay, Of, Sends, Hears, Collects
    <3>3. QED
      BY <3>1, <3>2, Framed DEF ReportsStay, SlotStays
  <2>3. QED
    BY <2>1, <2>2
<1>2. QuietOK'
  <2>1. NoneCancelling'
    BY DEF InOrder, QuietOK, NoneCancelling
  <2>2. QED
    BY <2>1, QuietFrom DEF InOrder
<1>3. QED
  BY <1>1, <1>2 DEF InOrder

LEMMA ReserveOrder ==
  ASSUME GatherInv, InOrder, NEW t \in tasks, Reserve(t)
  PROVE  InOrder'
<1> DEFINE waits  == {i \in DOMAIN jobs : jobs[i].phase = Pause /\ jobs[i].profile = t.profile}
           paused == {i \in waits : \A k \in waits : i <= k}
           queue  == [i \in DOMAIN jobs |->
                        IF i \in paused THEN [jobs[i] EXCEPT !.phase = "queued"] ELSE jobs[i]]
           known  == \E i \in DOMAIN jobs : jobs[i].page = t.page
           full   == Len(jobs) >= MaxQueue
           collects == ~known /\ ~full
           j == [run |-> t.run, page |-> t.page, profile |-> t.profile, phase |-> "collecting"]
           c == [kind |-> "collect", run |-> t.run, profile |-> t.profile]
           d == Dispatch(t.run, FALSE)
           next == {x \in {c} : collects} \cup {x \in {d} : known \/ paused # {}}
<1>1. /\ t.kind = "reserve"
      /\ jobs' = IF collects THEN Append(queue, j) ELSE queue
      /\ Became(t, next)
      /\ UNCHANGED <<slot, reports>>
  BY DEF Reserve
<1>2. /\ jobs \in Seq(JobTypes) /\ QueueTypes /\ WorkTypes
      /\ \A i \in DOMAIN jobs : jobs[i] \in JobTypes /\ i \in Nat
      /\ Len(jobs) \in Nat /\ DOMAIN jobs = 1 .. Len(jobs)
  BY QueueFacts DEF GatherInv, QueueTypes
<1>3. t.run \in Ids /\ t.page \in Pages /\ t.profile \in Profiles /\ Pending(t)
  BY <1>1, <1>2, TaskFields DEF WorkTypes, Pending
<1>4. j \in JobTypes /\ j.run = t.run /\ j.phase = "collecting"
  BY <1>3 DEF JobTypes
<1>5. /\ DOMAIN queue = DOMAIN jobs
      /\ \A i \in DOMAIN jobs : /\ queue[i] \in JobTypes /\ queue[i].run = jobs[i].run
                                /\ \/ queue[i].phase = jobs[i].phase
                                   \/ jobs[i].phase = Pause /\ queue[i].phase = "queued"
  BY <1>2 DEF JobTypes, Executing, Pause
<1>6. queue \in Seq(JobTypes)
  <2>1. queue \in [1 .. Len(jobs) -> JobTypes]
    BY <1>2, <1>5
  <2> HIDE DEF queue
  <2>2. QED
    BY <1>2, <2>1, SeqDef
<1>7. ~InUse(t.run)
  BY <1>3 DEF GatherInv, Fresh
<1>8. c.kind = "collect" /\ c.run = t.run /\ d.kind = "dispatch"
  BY DEF Dispatch
<1> HIDE DEF queue, j, c, d, paused, waits, known, full
<1>9. \A u \in next : (u = c /\ collects) \/ u = d
  OBVIOUS
<1> HIDE DEF next
<1>10. /\ \A r : r # t.run => JobStays(r)
       /\ NoneCancelling => NoneCancelling'
       /\ collects => Collecting(t.run)'
  <2>1. CASE collects
    <3>1. jobs' = Append(queue, j)
      BY <1>1, <2>1
    <3>2. QED
      BY <1>4, <1>5, <1>6, <3>1, AddedJobs
  <2>2. CASE ~collects
    <3>1. jobs' = queue
      BY <1>1, <2>2
    <3>2. \A r : JobStays(r)
      BY <1>5, <3>1 DEF JobStays, Busy, Collecting, Has, RunsOf, Pause
    <3>3. NoneCancelling => NoneCancelling'
      BY <1>5, <3>1 DEF NoneCancelling
    <3>4. QED
      BY <2>2, <3>2, <3>3
  <2>3. QED
    BY <2>1, <2>2
<1>11. \A u \in tasks : ~Collects(u, t.run)
  BY <1>7, NotInUse DEF Of
<1>12. \A u \in tasks' : u \in tasks \/ (u = c /\ collects) \/ u = d
  BY <1>1, <1>9 DEF Became
<1>13. \A v \in tasks' : Collects(v, t.run) => v = c
  BY <1>8, <1>11, <1>12 DEF Collects
<1> HIDE DEF collects
<1>14. \A u \in tasks' : \/ u \in tasks
                         \/ u.kind = "dispatch"
                         \/ /\ u.kind = "collect" /\ u.run = t.run /\ Collecting(t.run)'
                            /\ \A v \in tasks' : Collects(v, t.run) => v = u
  BY <1>8, <1>10, <1>12, <1>13
<1>15. QED
  BY <1>1, <1>7, <1>10, <1>14, EntersOrder

LEMMA RetryOrder ==
  ASSUME GatherInv, InOrder, NEW t \in tasks, Retry(t)
  PROVE  InOrder'
<1>1. t.kind = "retry" /\ UNCHANGED <<slot, reports>>
  BY DEF Retry
<1>2. t.run \in Ids /\ t.page \in Pages /\ t.profile \in Profiles /\ Pending(t)
  BY <1>1, TypesOfInv, TaskFields DEF Pending
<1>3. CASE Len(jobs) >= MaxQueue
  <2> DEFINE next == {}
  <2>1. Became(t, next) /\ jobs' = jobs /\ \A u \in next : u.kind \in {"dispatch", "purge"}
    BY <1>3 DEF Retry
  <2> HIDE DEF next
  <2>2. QED
    BY <1>1, <2>1, TaskEnds
<1>4. CASE ~(Len(jobs) >= MaxQueue)
  <2> DEFINE j == [run |-> t.run, page |-> t.page, profile |-> t.profile, phase |-> "queued"]
             d == Dispatch(t.run, FALSE)
  <2>1. jobs' = Append(jobs, j) /\ Became(t, {d})
    BY <1>4 DEF Retry
  <2>2. j \in JobTypes /\ j.run = t.run /\ j.phase = "queued"
    BY <1>2 DEF JobTypes
  <2>3. d.kind = "dispatch"
    BY DEF Dispatch
  <2> HIDE DEF j, d
  <2>4. jobs \in Seq(JobTypes)
    BY TypesOfInv DEF QueueTypes
  <2>5. /\ \A r : r # t.run => JobStays(r)
        /\ NoneCancelling => NoneCancelling'
    BY <2>1, <2>2, <2>4, AddedJobs
  <2>6. ~InUse(t.run)
    BY <1>2 DEF GatherInv, Fresh
  <2>7. \A u \in tasks' : u \in tasks \/ u.kind = "dispatch"
    BY <2>1, <2>3 DEF Became
  <2>8. QED
    BY <1>1, <2>5, <2>6, <2>7, EntersOrder
<1>5. QED
  BY <1>3, <1>4

\* A collection turns into its failure.
LEMMA UncollectsOrder ==
  ASSUME GatherInv, InOrder, NEW t \in tasks, t.kind = "collect",
         NEW n, n.kind = "uncollected", n.run = t.run, Became(t, {n}),
         UNCHANGED <<jobs, slot, reports>>
  PROVE  InOrder'
<1>1. ASSUME NEW r \in Ids PROVE RunOK(r)'
  <2>0. RunOK(r) /\ JobStays(r)
    BY SameJobs DEF InOrder
  <2>1. CASE r = t.run
    <3>1. SlotOK(r)'
      BY <2>0 DEF RunOK, SlotOK, JobStays
    <3>2. SentOK(r)'
      BY <2>0 DEF RunOK, SentOK, JobStays, Became, Sends, Hears
    <3>3. ASSUME r \in RunsOf(jobs') PROVE ReportOK(r)' /\ HeardOK(r)' /\ CollectOK(r)'
      <4>0. ReportOK(r) /\ HeardOK(r) /\ CollectOK(r)
        BY <2>0, <3>3 DEF RunOK, JobStays
      <4>1. ReportOK(r)'
        BY <2>0, <4>0 DEF ReportOK, JobStays, Became, Hears
      <4>2. HeardOK(r)'
        BY <2>0, <4>0 DEF HeardOK, JobStays, Became, Hears
      <4>3. Collecting(r) /\ \A u \in tasks : Collects(u, r) => u = t
        BY <2>1, <4>0 DEF CollectOK, Collects
      <4>4. CollectOK(r)'
        BY <2>0, <4>3 DEF CollectOK, JobStays, Became
      <4>5. QED
        BY <4>1, <4>2, <4>4
    <3>4. QED
      BY <3>1, <3>2, <3>3 DEF RunOK
  <2>2. CASE r # t.run
    <3>1. TasksStay(r)
      BY <2>2 DEF TasksStay, Became, Of, Sends, Hears, Collects
    <3>2. QED
      BY <2>0, <3>1, Framed DEF ReportsStay, SlotStays
  <2>3. QED
    BY <2>1, <2>2
<1>2. QuietOK'
  <2>1. NoneCancelling'
    BY DEF InOrder, QuietOK, NoneCancelling
  <2>2. \A u \in tasks' : u \in tasks \/ u.kind = "uncollected"
    BY DEF Became
  <2>3. QED
    BY <2>1, <2>2, QuietFrom DEF InOrder
<1>3. QED
  BY <1>1, <1>2 DEF InOrder

LEMMA ListedIs ==
  ASSUME NEW r
  PROVE  Listed(r) <=> r \in RunsOf(jobs)
BY DEF Listed, RunsOf

\* The phase of a run's job, once it is found.
LEMMA PhaseOf ==
  ASSUME GatherInv, NEW r, Listed(r)
  PROVE  /\ Busy(r) <=> JobOf(r).phase \in {"preparing", "writing"}
         /\ Collecting(r) <=> JobOf(r).phase = "collecting"
<1>1. JobOf(r).run = r /\ \E i \in DOMAIN jobs : jobs[i] = JobOf(r)
  BY JobOfFacts, TypesOfInv
<1>2. QED
  BY <1>1, JobPhase, TypesOfInv

LEMMA CollectedOrder ==
  ASSUME GatherInv, InOrder, NEW t \in tasks, Collected(t)
  PROVE  InOrder'
<1>1. t.kind = "collect" /\ UNCHANGED <<slot, reports>>
  BY DEF Collected
<1>2. t.run \in Ids
  BY <1>1, TypesOfInv, TaskFields
<1>3. CASE ~(Listed(t.run) /\ JobOf(t.run).phase = "collecting")
  <2> DEFINE next == {}
  <2>1. Became(t, next) /\ jobs' = jobs /\ \A u \in next : u.kind \in {"dispatch", "purge"}
    BY <1>3 DEF Collected
  <2> HIDE DEF next
  <2>2. QED
    BY <1>1, <2>1, TaskEnds
<1>4. CASE (Listed(t.run) /\ JobOf(t.run).phase = "collecting") /\ t.profile \notin profiles
  <2> DEFINE n == [kind |-> "uncollected", run |-> t.run]
  <2>1. Became(t, {n}) /\ jobs' = jobs /\ n.kind = "uncollected" /\ n.run = t.run
    BY <1>4 DEF Collected
  <2> HIDE DEF n
  <2>2. QED
    BY <1>1, <2>1, UncollectsOrder
<1>5. CASE (Listed(t.run) /\ JobOf(t.run).phase = "collecting") /\ t.profile \in profiles
  <2> DEFINE d == Dispatch(t.run, FALSE)
  <2>1. jobs' = WithPhase(jobs, t.run, "queued") /\ Became(t, {d}) /\ d.kind = "dispatch"
    BY <1>5 DEF Collected, Dispatch
  <2> HIDE DEF d
  <2>2. /\ \A r : r # t.run => JobStays(r)
        /\ RunsOf(jobs') = RunsOf(jobs)
        /\ NoneCancelling => NoneCancelling'
    BY <2>1, TypesOfInv, PhaseJobs
  <2>3. ~Busy(t.run) /\ t.run \in RunsOf(jobs)
    BY <1>5, PhaseOf, ListedIs
  <2>4. /\ slot.run # t.run /\ \A x \in reports : x.run # t.run
        /\ \A u \in tasks : ~Sends(u, t.run) /\ ~Hears(u, t.run)
    BY <1>2, <2>3, NotBusy DEF InOrder
  <2>5. \A u \in tasks : Collects(u, t.run) => u = t
    BY <1>1, <1>2, <2>3 DEF InOrder, RunOK, CollectOK, Collects
  <2>6. ASSUME NEW r \in Ids PROVE RunOK(r)'
    <3>1. CASE r = t.run
      <4>1. \A u \in tasks' : ~Of(u, r)
        BY <2>1, <2>4, <2>5, <3>1 DEF Became, Of, Sends, Hears, Collects
      <4>2. QED
        BY <1>1, <2>4, <3>1, <4>1, Silent
    <3>2. CASE r # t.run
      <4>1. RunOK(r) /\ JobStays(r)
        BY <2>2, <3>2 DEF InOrder
      <4>2. TasksStay(r)
        BY <2>1 DEF TasksStay, Became, Of, Sends, Hears, Collects
      <4>3. QED
        BY <1>1, <4>1, <4>2, Framed DEF ReportsStay, SlotStays
    <3>3. QED
      BY <3>1, <3>2
  <2>7. QuietOK'
    <3>1. NoneCancelling'
      BY <2>2 DEF InOrder, QuietOK, NoneCancelling
    <3>2. \A u \in tasks' : u \in tasks \/ u.kind = "dispatch"
      BY <2>1 DEF Became
    <3>3. QED
      BY <1>1, <3>1, <3>2, QuietFrom DEF InOrder
  <2>8. QED
    BY <2>6, <2>7 DEF InOrder
<1>6. QED
  BY <1>3, <1>4, <1>5

LEMMA CollectFailsOrder ==
  ASSUME GatherInv, InOrder, NEW t \in tasks, CollectFails(t)
  PROVE  InOrder'
<1> DEFINE n == [kind |-> "uncollected", run |-> t.run]
<1>1. /\ t.kind = "collect" /\ UNCHANGED <<jobs, slot, reports>>
      /\ Became(t, {n}) /\ n.kind = "uncollected" /\ n.run = t.run
  BY DEF CollectFails
<1> HIDE DEF n
<1>2. QED
  BY <1>1, UncollectsOrder

\* A failure is recorded of a run in the queue of which nothing executes or is sent but t itself.
LEMMA FailureOrder ==
  ASSUME GatherInv, InOrder, NEW t \in tasks, RecordFailure(t), NEW d, d.kind = "dispatch",
         Became(t, {d}), UNCHANGED <<slot, reports>>, slot.run # t.run,
         \A u \in tasks : Sends(u, t.run) => u = t
  PROVE  InOrder'
<1>1. CASE Listed(t.run)
  <2>1. jobs' = Without(jobs, t.run)
    BY <1>1 DEF RecordFailure, RecordAndRemove
  <2>2. \A u \in tasks' : (u \in tasks /\ ~Sends(u, t.run)) \/ u.kind = "dispatch"
    BY DEF Became
  <2>3. QED
    BY <2>1, <2>2, LeavesOrder
<1>2. CASE ~Listed(t.run)
  <2>1. jobs' = jobs
    BY <1>2 DEF RecordFailure
  <2> DEFINE next == {d}
  <2>2. Became(t, next) /\ \A u \in next : u.kind \in {"dispatch", "purge"}
    OBVIOUS
  <2> HIDE DEF next
  <2>3. QED
    BY <2>1, <2>2, TaskEnds
<1>3. QED
  BY <1>1, <1>2

LEMMA UncollectedOrder ==
  ASSUME GatherInv, InOrder, NEW t \in tasks, Uncollected(t)
  PROVE  InOrder'
<1> DEFINE d == Dispatch(t.run, FALSE)
<1>1. /\ t.kind = "uncollected" /\ RecordFailure(t) /\ Became(t, {d})
      /\ UNCHANGED <<slot, reports>>
  BY DEF Uncollected
<1>2. d.kind = "dispatch"
  BY DEF Dispatch
<1> HIDE DEF d
<1>3. t.run \in Ids
  BY <1>1, TypesOfInv, TaskFields
<1>4. CASE Listed(t.run)
  <2>1. Collecting(t.run)
    BY <1>1, <1>3, <1>4, ListedIs DEF InOrder, RunOK, CollectOK, Collects
  <2>2. ~Busy(t.run)
    BY <1>4, <2>1, PhaseOf
  <2>3. slot.run # t.run /\ \A u \in tasks : ~Sends(u, t.run)
    BY <1>3, <2>2, NotSent DEF InOrder
  <2>4. QED
    BY <1>1, <1>2, <2>3, FailureOrder
<1>5. CASE ~Listed(t.run)
  <2>1. ~Busy(t.run)
    BY <1>5 DEF Busy, Has, Listed
  <2>2. slot.run # t.run /\ \A u \in tasks : ~Sends(u, t.run)
    BY <1>3, <2>1, NotSent DEF InOrder
  <2>3. QED
    BY <1>1, <1>2, <2>2, FailureOrder
<1>6. QED
  BY <1>4, <1>5

LEMMA RefusedOrder ==
  ASSUME GatherInv, InOrder, NEW t \in tasks, Refused(t)
  PROVE  InOrder'
<1> DEFINE d == Dispatch(t.of, t.acks)
<1>1. /\ t.kind = "refused" /\ RecordFailure(t) /\ Became(t, {d})
      /\ UNCHANGED <<slot, reports>>
  BY DEF Refused
<1>2. d.kind = "dispatch"
  BY DEF Dispatch
<1> HIDE DEF d
<1>3. t.run \in Ids
  BY <1>1, TypesOfInv, TaskFields
<1>4. slot.run # t.run /\ \A u \in tasks : Sends(u, t.run) => u = t
  BY <1>1, <1>3 DEF InOrder, RunOK, SentOK, Sends
<1>5. QED
  BY <1>1, <1>2, <1>4, FailureOrder

LEMMA HeadPhase ==
  ASSUME QueueTypes, NEW i \in DOMAIN jobs, NEW phase
  PROVE  [jobs EXCEPT ![i].phase = phase] = WithPhase(jobs, jobs[i].run, phase)
<1> DEFINE A == [jobs EXCEPT ![i].phase = phase]
           B == WithPhase(jobs, jobs[i].run, phase)
<1>1. A = [k \in DOMAIN jobs |->
             IF k = i THEN [jobs[i] EXCEPT !.phase = phase] ELSE jobs[k]]
  <2>1. jobs = [k \in DOMAIN jobs |-> jobs[k]]
    BY SeqDef DEF QueueTypes
  <2>2. QED
    BY <2>1
<1>2. B = [k \in DOMAIN jobs |->
             IF jobs[k].run = jobs[i].run THEN [jobs[k] EXCEPT !.phase = phase] ELSE jobs[k]]
  BY DEF WithPhase
<1>3. \A k \in DOMAIN jobs : jobs[k].run = jobs[i].run <=> k = i
  BY DEF QueueTypes, Distinct
<1>4. QED
  BY <1>1, <1>2, <1>3

LEMMA ClaimedOrder ==
  ASSUME GatherInv, InOrder, NEW q \in Ids, q \in RunsOf(jobs), ~Busy(q), ~Collecting(q),
         jobs' = WithPhase(jobs, q, "preparing"), UNCHANGED <<slot, reports>>,
         NEW t \in tasks, NEW n, n.kind = "execute", n.run = q, Became(t, {n}),
         \A u \in tasks : u.kind \notin {"status", "recover"}
  PROVE  InOrder'
<1>1. /\ slot.run # q /\ \A x \in reports : x.run # q
      /\ \A u \in tasks : ~Of(u, q)
  BY NotBusy DEF InOrder, Of
<1>2. /\ \A r : r # q => JobStays(r)
      /\ Busy(q)'
      /\ NoneCancelling => NoneCancelling'
  <2>1. "preparing" \in {"collecting", "queued"} \cup Executing
    BY DEF Executing
  <2>2. QED
    BY <2>1, PhaseJobs, TypesOfInv
<1>3. ASSUME NEW r \in Ids PROVE RunOK(r)'
  <2>1. CASE r = q
    <3>1. \A u \in tasks' : Of(u, q) => u = n
      BY <1>1 DEF Became
    <3>2. \A u \in tasks' : ~Hears(u, q) /\ ~Collects(u, q)
      BY <3>1 DEF Of, Hears, Collects
    <3>3. SlotOK(q)' /\ ReportOK(q)' /\ HeardOK(q)' /\ CollectOK(q)'
      BY <1>1, <3>2 DEF SlotOK, ReportOK, HeardOK, CollectOK
    <3>4. SentOK(q)'
      BY <1>1, <1>2, <3>1 DEF SentOK, Of
    <3>5. QED
      BY <2>1, <3>3, <3>4 DEF RunOK
  <2>2. CASE r # q
    <3>1. RunOK(r) /\ JobStays(r)
      BY <1>2, <2>2 DEF InOrder
    <3>2. TasksStay(r)
      BY <2>2 DEF TasksStay, Became, Of, Sends, Hears, Collects
    <3>3. QED
      BY <3>1, <3>2, Framed DEF ReportsStay, SlotStays
  <2>3. QED
    BY <2>1, <2>2
<1>4. QuietOK'
  <2>1. NoneCancelling'
    BY <1>2 DEF InOrder, QuietOK, NoneCancelling
  <2>2. \A u \in tasks' : u \in tasks \/ u.kind = "execute"
    BY DEF Became
  <2>3. QED
    BY <2>1, <2>2, QuietAtWork DEF InOrder
<1>5. QED
  BY <1>3, <1>4 DEF InOrder

LEMMA ClaimOrder ==
  ASSUME GatherInv, InOrder, NEW t \in tasks, Claim(t), ~early'
  PROVE  InOrder'
<1>1. CASE NextQueued(jobs) = {}
  <2> DEFINE next == {}
  <2>1. /\ Became(t, next) /\ reports' \subseteq reports /\ UNCHANGED <<jobs, slot>>
        /\ \A u \in next : u.kind \in {"dispatch", "purge"}
    BY <1>1 DEF Claim, AfterAck
  <2> HIDE DEF next
  <2>2. QED
    BY <2>1, TaskEnds
<1>2. CASE NextQueued(jobs) # {}
  <2>1. PICK i \in NextQueued(jobs) :
          /\ jobs' = [jobs EXCEPT ![i].phase = "preparing"]
          /\ Became(t, {[kind |-> "execute", run |-> jobs[i].run, of |-> t.of, acks |-> t.acks]})
          /\ early' = (early \/ \E u \in tasks : u.kind \in {"status", "recover"})
          /\ UNCHANGED <<slot, reports>>
    BY <1>2 DEF Claim
  <2>2. i \in DOMAIN jobs /\ jobs[i].phase = "queued"
    BY <2>1 DEF NextQueued
  <2>3. PICK q : q = jobs[i].run
    OBVIOUS
  <2> DEFINE n == [kind |-> "execute", run |-> q, of |-> t.of, acks |-> t.acks]
  <2>4. jobs' = WithPhase(jobs, q, "preparing")
    BY <2>1, <2>2, <2>3, HeadPhase, TypesOfInv
  <2>5. q \in RunsOf(jobs) /\ ~Busy(q) /\ ~Collecting(q)
    BY <2>2, <2>3, JobPhase, TypesOfInv
  <2>6. q \in Ids
    <3>1. jobs[i] \in JobTypes
      BY <2>2, QueueFacts DEF GatherInv, QueueTypes
    <3>2. QED
      BY <2>3, <3>1 DEF JobTypes
  <2>7. Became(t, {n}) /\ n.kind = "execute" /\ n.run = q
    BY <2>1, <2>3
  <2> HIDE DEF n
  <2>8. \A u \in tasks : u.kind \notin {"status", "recover"}
    BY <2>1
  <2>9. QED
    BY <2>1, <2>4, <2>5, <2>6, <2>7, <2>8, ClaimedOrder
<1>3. QED
  BY <1>1, <1>2

LEMMA HoldsAlone ==
  ASSUME GatherInv
  PROVE  OneHolds
<1> SUFFICES ASSUME NEW i \in DOMAIN jobs, NEW k \in DOMAIN jobs,
                    jobs[i].phase \in Executing, jobs[k].phase \in Executing
             PROVE  i = k
  BY DEF OneHolds
<1>1. DOMAIN jobs = 1 .. Len(jobs) /\ Len(jobs) \in Nat
  BY QueueFacts DEF GatherInv, QueueTypes
<1>2. ~(i > 1) /\ ~(k > 1)
  BY DEF GatherInv, HeadOnly
<1>3. QED
  BY <1>1, <1>2

\* Whoever sends a run to the document finds it free.
LEMMA SentToTheFree ==
  ASSUME GatherInv, InOrder, NEW t \in tasks, t.kind \in {"execute", "refused"}
  PROVE  slot.run = 0 /\ t.run \in Ids /\ Busy(t.run)
<1>1. t.run \in Ids /\ slot.run \in {0} \cup Ids
  BY TypesOfInv, TaskFields DEF SlotTypes
<1>2. Busy(t.run) /\ slot.run # t.run
  BY <1>1 DEF InOrder, RunOK, SentOK, Sends
<1>3. slot.run \in Ids => Busy(slot.run)
  BY DEF InOrder, RunOK, SlotOK
<1>4. \A r, s : Busy(r) /\ Busy(s) => r = s
  BY HoldsAlone DEF OneHolds, Busy, Has, Executing
<1>5. QED
  BY <1>1, <1>2, <1>3, <1>4

LEMMA ExecuteOrder ==
  ASSUME GatherInv, InOrder, NEW t \in tasks, Execute(t)
  PROVE  InOrder'
<1>1. t.kind = "execute" /\ jobs' = jobs
  BY DEF Execute
<1> DEFINE q == t.run
<1>2. slot.run = 0 /\ q \in Ids /\ Busy(q) /\ q # 0
  BY <1>1, SentToTheFree, TypesOfInv
<1>3. /\ slot' = [run |-> q, stage |-> "opening", aborted |-> FALSE]
      /\ reports' \subseteq reports
      /\ tasks' = {IF u.kind = "handle" /\ u.run = q THEN Unawaited(u) ELSE u : u \in tasks \ {t}}
  BY <1>2 DEF Execute, AfterAck
<1> HIDE DEF q
<1>4. /\ \A x \in reports : x.run # q
      /\ \A u \in tasks : Sends(u, q) \/ Hears(u, q) => u = t
  BY <1>1, <1>2 DEF InOrder, RunOK, SentOK, Sends, q
<1>5. tasks' = tasks \ {t}
  BY <1>1, <1>3, <1>4 DEF Hears
<1>6. \A r : JobStays(r)
  BY <1>1, SameJobs
<1>7. ASSUME NEW r \in Ids PROVE RunOK(r)'
  <2>1. CASE r = q
    <3>1. SlotOK(q)'
      BY <1>2, <1>6 DEF SlotOK, JobStays
    <3>2. \A u \in tasks' : ~Sends(u, q) /\ ~Hears(u, q)
      BY <1>4, <1>5
    <3>3. SentOK(q)' /\ ReportOK(q)' /\ HeardOK(q)'
      BY <1>3, <1>4, <3>2 DEF SentOK, ReportOK, HeardOK
    <3>4. q \in RunsOf(jobs') => CollectOK(q)'
      BY <1>2, <1>5, <1>6 DEF InOrder, RunOK, CollectOK, JobStays
    <3>5. QED
      BY <2>1, <3>1, <3>3, <3>4 DEF RunOK
  <2>2. CASE r # q
    <3>1. RunOK(r) /\ JobStays(r)
      BY <1>6 DEF InOrder
    <3>2. TasksStay(r) /\ ReportsStay(r)
      BY <1>3, <1>5 DEF TasksStay, ReportsStay
    <3>3. slot.run # r /\ slot'.run # r
      BY <1>2, <1>3, <2>2, TypesOfInv
    <3>4. QED
      BY <3>1, <3>2, <3>3, Framed DEF SlotStays
  <2>3. QED
    BY <2>1, <2>2
<1>8. QuietOK'
  <2>1. NoneCancelling'
    BY <1>1 DEF InOrder, QuietOK, NoneCancelling
  <2>2. \A u \in tasks : u.kind \notin {"status", "recover"}
    BY <1>1 DEF InOrder, QuietOK
  <2>3. QED
    BY <1>5, <2>1, <2>2, QuietAtWork DEF InOrder
<1>9. QED
  BY <1>7, <1>8 DEF InOrder

LEMMA ExecuteFailsOrder ==
  ASSUME GatherInv, InOrder, NEW t \in tasks, ExecuteFails(t)
  PROVE  InOrder'
<1> DEFINE n == [kind |-> "refused", run |-> t.run, of |-> t.of, acks |-> t.acks]
<1>1. /\ t.kind = "execute" /\ UNCHANGED <<jobs, slot, reports>>
      /\ Became(t, {n}) /\ n.kind = "refused" /\ n.run = t.run
  BY DEF ExecuteFails
<1> HIDE DEF n
<1>2. \A r : JobStays(r)
  BY <1>1, SameJobs
<1>3. slot.run = 0 /\ t.run \in Ids /\ Busy(t.run) /\ t.run # 0
  BY <1>1, SentToTheFree, TypesOfInv
<1>4. /\ \A x \in reports : x.run # t.run
      /\ \A u \in tasks : Sends(u, t.run) \/ Hears(u, t.run) => u = t
  BY <1>1, <1>3 DEF InOrder, RunOK, SentOK, Sends
<1>5. ASSUME NEW r \in Ids PROVE RunOK(r)'
  <2>1. CASE r = t.run
    <3>1. \A u \in tasks' : Sends(u, r) \/ Hears(u, r) => u = n
      BY <1>1, <1>4, <2>1 DEF Became
    <3>2. SlotOK(r)'
      BY <1>1, <1>3, <2>1 DEF SlotOK
    <3>3. SentOK(r)'
      BY <1>1, <1>2, <1>3, <1>4, <2>1, <3>1 DEF SentOK, JobStays
    <3>4. \A u \in tasks' : ~Hears(u, r)
      BY <1>1, <3>1 DEF Hears
    <3>5. ReportOK(r)' /\ HeardOK(r)'
      BY <1>1, <1>4, <2>1, <3>4 DEF ReportOK, HeardOK
    <3>6. \A u \in tasks' : Collects(u, r) => u \in tasks
      BY <1>1 DEF Became, Collects
    <3>7. r \in RunsOf(jobs') => CollectOK(r)'
      BY <1>2, <3>6 DEF InOrder, RunOK, CollectOK, JobStays
    <3>8. QED
      BY <3>2, <3>3, <3>5, <3>7 DEF RunOK
  <2>2. CASE r # t.run
    <3>1. RunOK(r) /\ JobStays(r)
      BY <1>2 DEF InOrder
    <3>2. TasksStay(r)
      BY <1>1, <2>2 DEF TasksStay, Became, Of, Sends, Hears, Collects
    <3>3. QED
      BY <1>1, <3>1, <3>2, Framed DEF ReportsStay, SlotStays
  <2>3. QED
    BY <2>1, <2>2
<1>6. QuietOK'
  <2>1. NoneCancelling'
    BY <1>1 DEF InOrder, QuietOK, NoneCancelling
  <2>2. \A u \in tasks : u.kind \notin {"status", "recover"}
    BY <1>1 DEF InOrder, QuietOK
  <2>3. \A u \in tasks' : u \in tasks \/ u.kind = "refused"
    BY <1>1 DEF Became
  <2>4. QED
    BY <2>1, <2>2, <2>3, QuietAtWork DEF InOrder
<1>7. QED
  BY <1>5, <1>6 DEF InOrder

LEMMA PurgeOrder ==
  ASSUME GatherInv, InOrder, NEW t \in tasks, Purge(t)
  PROVE  InOrder'
<1> DEFINE ends == {i \in DOMAIN jobs : /\ jobs[i].phase \in {"queued", Pause}
                                        /\ jobs[i].profile \notin profiles}
           next == {x \in {Dispatch(0, FALSE)} : t.always \/ ends # {}}
<1>1. /\ jobs' = Kept(jobs, DOMAIN jobs \ ends) /\ Became(t, next)
      /\ UNCHANGED <<slot, reports>>
  BY DEF Purge
<1>2. \A u \in next : u.kind = "dispatch"
  BY DEF Dispatch
<1>3. \A i \in DOMAIN jobs : i \in ends => ~Busy(jobs[i].run)
  BY JobPhase, TypesOfInv DEF Pause
<1> HIDE DEF ends, next
<1>4. jobs \in Seq(JobTypes) /\ Distinct(jobs)
  BY TypesOfInv DEF QueueTypes
<1>5. /\ \A i \in DOMAIN jobs' : \E k \in DOMAIN jobs \ ends : jobs'[i] = jobs[k]
      /\ \A k \in DOMAIN jobs \ ends : \E i \in DOMAIN jobs' : jobs'[i] = jobs[k]
  <2> DEFINE K == DOMAIN jobs \ ends
  <2>1. DOMAIN jobs \cap K = K /\ jobs' = Kept(jobs, K)
    BY <1>1
  <2> HIDE DEF K
  <2>2. /\ \A i \in DOMAIN jobs' : \E k \in K : jobs'[i] = jobs[k]
        /\ \A k \in K : \E i \in DOMAIN jobs' : jobs'[i] = jobs[k]
    BY <1>4, <2>1, KeptRuns
  <2>3. QED
    BY <2>2 DEF K
<1>6. ASSUME NEW r \in Ids PROVE RunOK(r)'
  <2>1. CASE \E k \in DOMAIN jobs : k \in ends /\ jobs[k].run = r
    <3>1. r \notin RunsOf(jobs')
      BY <1>4, <1>5, <2>1 DEF RunsOf, Distinct
    <3>2. slot.run # r /\ \A u \in tasks : ~Sends(u, r)
      BY <1>3, <2>1, NotSent DEF InOrder
    <3>3. \A u \in tasks' : ~Sends(u, r)
      BY <1>1, <1>2, <3>2 DEF Became, Sends
    <3>4. QED
      BY <1>1, <3>1, <3>2, <3>3, Gone
  <2>2. CASE ~\E k \in DOMAIN jobs : k \in ends /\ jobs[k].run = r
    <3>1. JobStays(r)
      BY <1>5, <2>2 DEF JobStays, Busy, Collecting, Has, RunsOf
    <3>2. TasksStay(r)
      BY <1>1, <1>2 DEF TasksStay, Became, Of, Sends, Hears, Collects
    <3>3. QED
      BY <1>1, <3>1, <3>2, Framed DEF ReportsStay, SlotStays, InOrder
  <2>3. QED
    BY <2>1, <2>2
<1>7. QuietOK'
  <2>1. NoneCancelling'
    BY <1>5 DEF InOrder, QuietOK, NoneCancelling
  <2>2. \A u \in tasks' : u \in tasks \/ u.kind = "dispatch"
    BY <1>1, <1>2 DEF Became
  <2>3. QED
    BY <1>1, <2>1, <2>2, QuietFrom DEF InOrder
<1>8. QED
  BY <1>6, <1>7 DEF InOrder

LEMMA AskStatusOrder ==
  ASSUME GatherInv, InOrder, NEW t \in tasks, AskStatus(t)
  PROVE  InOrder'
<1> DEFINE n == [kind |-> "recover", active |-> slot.run]
<1>1. /\ t.kind = "status" /\ UNCHANGED <<jobs, slot, reports>>
      /\ Became(t, {n}) /\ n.kind = "recover"
  BY DEF AskStatus
<1> HIDE DEF n
<1>2. ASSUME NEW r \in Ids PROVE RunOK(r)'
  <2>1. RunOK(r) /\ JobStays(r)
    BY <1>1, SameJobs DEF InOrder
  <2>2. TasksStay(r)
    BY <1>1 DEF TasksStay, Became, Of, Sends, Hears, Collects
  <2>3. QED
    BY <1>1, <2>1, <2>2, Framed DEF ReportsStay, SlotStays
<1>3. QuietOK'
  <2>1. /\ slot.run = 0 /\ reports = {}
        /\ \A u \in tasks : u.kind \notin {"execute", "refused", "handle", "abort"}
    BY <1>1 DEF InOrder, QuietOK
  <2>2. \A u \in tasks' : u.kind \notin {"execute", "refused", "handle", "abort"}
    BY <1>1, <2>1 DEF Became
  <2>3. QED
    BY <1>1, <2>1, <2>2 DEF InOrder, QuietOK
<1>4. QED
  BY <1>2, <1>3 DEF InOrder

LEMMA RecoverOrder ==
  ASSUME GatherInv, InOrder, NEW t \in tasks, Recover(t)
  PROVE  InOrder'
<1> DEFINE n == [kind |-> "purge", always |-> TRUE]
<1>1. /\ t.kind = "recover" /\ UNCHANGED <<slot, reports>>
      /\ Became(t, {n}) /\ n.kind = "purge"
  BY DEF Recover
<1> HIDE DEF n
<1>2. /\ slot.run = 0 /\ reports = {}
      /\ \A u \in tasks : u.kind \notin {"execute", "refused", "handle", "abort"}
  BY <1>1 DEF InOrder, QuietOK
<1>3. \A u \in tasks' : /\ u.kind \notin {"execute", "refused", "handle", "abort"}
                        /\ u \in tasks \/ u.kind = "purge"
  BY <1>1, <1>2 DEF Became
<1>4. /\ RunsOf(jobs') \subseteq RunsOf(jobs) /\ NoneCancelling'
      /\ \A r : Collecting(r) => r \notin RunsOf(jobs') \/ Collecting(r)'
  <2>1. CASE Listed(t.active)
    BY <2>1 DEF Recover, InOrder, QuietOK, NoneCancelling, Collecting, Has
  <2>2. CASE ~Listed(t.active)
    <3> DEFINE ends == {i \in DOMAIN jobs : jobs[i].phase \in {"collecting", "cancelling"}}
               K == DOMAIN jobs \ ends
               kept == Kept(jobs, K)
    <3>1. jobs' = [i \in DOMAIN kept |-> IF kept[i].phase \in {"preparing", "writing"}
                                         THEN [kept[i] EXCEPT !.phase = "queued"] ELSE kept[i]]
      BY <2>2 DEF Recover
    <3>2. jobs \in Seq(JobTypes) /\ Distinct(jobs)
      BY TypesOfInv DEF QueueTypes
    <3>3. \A i \in DOMAIN jobs : /\ i \notin ends => jobs[i].phase # "cancelling"
                                 /\ jobs[i].phase = "collecting" => i \in ends
      OBVIOUS
    <3> HIDE DEF ends
    <3>4. /\ kept \in Seq(JobTypes)
          /\ \A i \in DOMAIN kept : \E k \in DOMAIN jobs \ ends : kept[i] = jobs[k]
      <4>1. DOMAIN jobs \cap K = K
        OBVIOUS
      <4> HIDE DEF K
      <4>2. kept \in Seq(JobTypes) /\ \A i \in DOMAIN kept : \E k \in K : kept[i] = jobs[k]
        BY <3>2, <4>1, KeptRuns
      <4>3. QED
        BY <4>2 DEF K
    <3> HIDE DEF kept, K
    <3>5. \A i \in DOMAIN kept : kept[i] \in JobTypes
      BY <3>4, QueueFacts
    <3>6. /\ DOMAIN jobs' = DOMAIN kept
          /\ \A i \in DOMAIN jobs' : /\ jobs'[i].run = kept[i].run
                                     /\ jobs'[i].phase \in {kept[i].phase, "queued"}
      BY <3>1, <3>5 DEF JobTypes
    <3>7. RunsOf(jobs') \subseteq RunsOf(jobs) /\ NoneCancelling'
      BY <3>3, <3>4, <3>6 DEF RunsOf, NoneCancelling
    <3>8. \A r : Collecting(r) => r \notin RunsOf(jobs')
      <4> SUFFICES ASSUME NEW r, Collecting(r), r \in RunsOf(jobs')
                   PROVE  FALSE
        OBVIOUS
      <4>1. PICK i \in DOMAIN jobs' : jobs'[i].run = r
        BY DEF RunsOf
      <4>2. PICK k \in DOMAIN jobs \ ends : kept[i] = jobs[k]
        BY <3>4, <3>6, <4>1
      <4>3. PICK l \in DOMAIN jobs : jobs[l].run = r /\ jobs[l].phase = "collecting"
        BY DEF Collecting, Has
      <4>4. k = l
        BY <3>2, <3>6, <4>1, <4>2, <4>3 DEF Distinct
      <4>5. QED
        BY <3>3, <4>2, <4>3, <4>4
    <3>9. QED
      BY <3>7, <3>8
  <2>3. QED
    BY <2>1, <2>2
<1>5. ASSUME NEW r \in Ids PROVE RunOK(r)'
  <2>1. \A u \in tasks' : ~Sends(u, r) /\ ~Hears(u, r)
    BY <1>3 DEF Sends, Hears
  <2>2. r # 0
    BY TypesOfInv
  <2>3. SlotOK(r)' /\ SentOK(r)' /\ ReportOK(r)' /\ HeardOK(r)'
    BY <1>1, <1>2, <2>1, <2>2 DEF SlotOK, SentOK, ReportOK, HeardOK
  <2>4. ASSUME r \in RunsOf(jobs') PROVE CollectOK(r)'
    <3>1. CollectOK(r)
      BY <1>4, <2>4 DEF InOrder, RunOK
    <3>2. \A u \in tasks' : Collects(u, r) => u \in tasks
      BY <1>3 DEF Collects
    <3>3. QED
      BY <1>4, <2>4, <3>1, <3>2 DEF CollectOK
  <2>5. QED
    BY <2>3, <2>4 DEF RunOK
<1>6. QuietOK'
  BY <1>1, <1>2, <1>3, <1>4 DEF QuietOK, NoneCancelling
<1>7. QED
  BY <1>5, <1>6 DEF InOrder

LEMMA NobodyAsks ==
  ASSUME InOrder, \/ \E t \in tasks : t.kind \in {"execute", "refused", "handle"}
                  \/ slot.run # 0 \/ reports # {}
  PROVE  \A u \in tasks : u.kind \notin {"status", "recover"}
BY DEF InOrder, QuietOK

\* A job in the queue of which something is heard.
LEMMA HeardFacts ==
  ASSUME GatherInv, InOrder, NEW t \in tasks, t.kind = "handle", Listed(t.run)
  PROVE  /\ JobOf(t.run).phase \in {"preparing", "writing"}
         /\ ~Announces(t) => slot.run # t.run
         /\ Announces(t) => slot.run = t.run
         /\ \A x \in reports : x.run = t.run => t.acks /\ ~Announces(t)
         /\ \A u \in tasks : Of(u, t.run) => u = t
<1>1. t.run \in Ids
  BY TypesOfInv, TaskFields
<1>2. RunOK(t.run) /\ t.run \in RunsOf(jobs) /\ Hears(t, t.run)
  BY <1>1, ListedIs DEF InOrder, Hears
<1>3. /\ Busy(t.run)
      /\ IF Announces(t) THEN slot.run = t.run /\ slot.stage = "announcing" ELSE slot.run # t.run
      /\ \A u \in tasks : Hears(u, t.run) => u = t
  BY <1>2 DEF RunOK, HeardOK
<1>4. JobOf(t.run).phase \in {"preparing", "writing"} /\ ~Collecting(t.run)
  BY <1>3, PhaseOf
<1>5. \A u \in tasks : ~Sends(u, t.run)
  BY <1>2 DEF RunOK, SentOK, Sends, Hears
<1>6. \A u \in tasks : ~Collects(u, t.run)
  BY <1>2, <1>4 DEF RunOK, CollectOK
<1>7. \A x \in reports : x.run = t.run => t.acks /\ slot.run # t.run
  BY <1>2 DEF RunOK, ReportOK
<1>8. QED
  BY <1>3, <1>4, <1>5, <1>6, <1>7 DEF Of

LEMMA HandleOrder ==
  ASSUME GatherInv, InOrder, NEW t \in tasks, Handle(t)
  PROVE  InOrder'
<1> DEFINE q       == t.run
           j       == JobOf(q)
           event   == IF t.event = Pause /\ j.profile \notin t.known THEN "failed" ELSE t.event
           takes   == /\ Listed(q)
                      /\ j.phase # "collecting"
                      /\ ~DropsReport(j, t.event)
                      /\ ~StalePause(j, t.event)
           ends    == takes /\ event \in Terminal
           redelivered == ~Listed(q) /\ t.event \in Terminal
           d       == Dispatch(q, t.acks)
<1>1. /\ t.kind = "handle"
      /\ IF ends THEN RecordAndRemove(q, event)
         ELSE jobs' = IF takes THEN WithPhase(jobs, q, event) ELSE jobs
      /\ IF ends \/ redelivered
         THEN Became(t, {d}) /\ UNCHANGED <<slot, reports>>
         ELSE /\ Became(t, {})
              /\ slot' = IF t.acks /\ t.event = "writing"
                         THEN [slot EXCEPT !.stage = "working"] ELSE slot
              /\ reports' = IF t.event = "writing" THEN reports ELSE AfterAck(q, t.acks)
  BY DEF Handle
<1>2. /\ q \in Ids /\ t.event \in Terminal \cup {"writing", Pause} /\ q # 0
      /\ t.acks \in BOOLEAN
  BY <1>1, TypesOfInv, TaskFields
<1>3. d.kind = "dispatch"
  BY DEF Dispatch
<1>4. Announces(t) <=> t.acks /\ t.event = "writing"
  BY <1>1 DEF Announces
<1>5. AfterAck(q, t.acks) \subseteq reports
  BY DEF AfterAck
<1>6. Pause # "writing" /\ "writing" \notin Terminal /\ "failed" \in Terminal
  BY DEF Pause, Terminal
<1>7. CASE ends \/ redelivered
  <2>0. Became(t, {d}) /\ UNCHANGED <<slot, reports>>
    BY <1>1, <1>7
  <2>1. CASE ends
    <3>1. Listed(q) /\ jobs' = Without(jobs, q) /\ t.event # "writing"
      BY <1>1, <1>6, <2>1 DEF RecordAndRemove
    <3>2. slot.run # q /\ \A u \in tasks : Of(u, q) => u = t
      BY <1>1, <1>4, <3>1, HeardFacts
    <3> HIDE DEF d, q
    <3>3. \A u \in tasks' : (u \in tasks /\ ~Sends(u, q)) \/ u.kind = "dispatch"
      BY <1>3, <2>0, <3>2 DEF Became, Of
    <3>4. QED
      BY <2>0, <3>1, <3>2, <3>3, LeavesOrder
  <2>2. CASE ~ends
    <3>1. jobs' = jobs
      BY <1>1, <1>7, <2>2
    <3> DEFINE next == {d}
    <3>2. Became(t, next) /\ \A u \in next : u.kind \in {"dispatch", "purge"}
      BY <1>3, <2>0
    <3> HIDE DEF next
    <3>3. QED
      BY <2>0, <3>1, <3>2, TaskEnds
  <2>3. QED
    BY <2>1, <2>2
<1>8. CASE ~(ends \/ redelivered) /\ ~takes
  <2>1. jobs' = jobs /\ Became(t, {}) /\ reports' \subseteq reports
    BY <1>1, <1>5, <1>8
  <2>2. ~Announces(t)
    <3>1. CASE Listed(q)
      <4>1. j.phase \in {"preparing", "writing"}
        BY <1>1, <3>1, HeardFacts
      <4>2. StalePause(j, t.event)
        BY <1>8, <3>1, <4>1 DEF DropsReport
      <4>3. QED
        BY <1>4, <1>6, <4>2 DEF StalePause
    <3>2. CASE ~Listed(q)
      <4>1. ~Busy(q)
        BY <3>2 DEF Busy, Has, Listed
      <4>2. slot.run # q
        BY <1>2, <4>1, NotSent DEF InOrder
      <4>3. QED
        BY <4>2 DEF GatherInv, AnnounceOK
    <3>3. QED
      BY <3>1, <3>2
  <2>3. slot' = slot
    BY <1>1, <1>4, <1>8, <2>2
  <2> DEFINE next == {}
  <2>4. Became(t, next) /\ \A u \in next : u.kind \in {"dispatch", "purge"}
    BY <2>1
  <2> HIDE DEF next
  <2>5. QED
    BY <2>1, <2>3, <2>4, TaskEnds
<1>9. CASE ~(ends \/ redelivered) /\ takes
  <2>1. Listed(q) /\ event \in {"writing", Pause} /\ event = t.event
    BY <1>2, <1>6, <1>9
  <2>2. /\ jobs' = WithPhase(jobs, q, event) /\ tasks' = tasks \ {t}
        /\ slot' = IF Announces(t) THEN [slot EXCEPT !.stage = "working"] ELSE slot
        /\ reports' = IF t.event = "writing" THEN reports ELSE AfterAck(q, t.acks)
    BY <1>1, <1>4, <1>9 DEF Became
  <2>3. /\ ~Announces(t) => slot.run # q
        /\ Announces(t) => slot.run = q
        /\ \A x \in reports : x.run = q => t.acks /\ ~Announces(t)
        /\ \A u \in tasks : Of(u, q) => u = t
    BY <1>1, <2>1, HeardFacts
  <2>4. q \in RunsOf(jobs)
    BY <2>1, ListedIs
  <2>5. \A u \in tasks' : ~Of(u, q)
    BY <2>2, <2>3
  <2>6. \A x \in reports' : x.run # q
    BY <1>4, <2>1, <2>2, <2>3 DEF AfterAck
  <2>7. reports' \subseteq reports /\ slot'.run = slot.run
    BY <1>5, <2>2, TypesOfInv DEF SlotTypes
  <2> HIDE DEF event, takes, ends, redelivered, j, d
  <2>8. PICK e : e = event
    OBVIOUS
  <2>9. e \in {"collecting", "queued"} \cup Executing /\ e # "cancelling"
    BY <2>1, <2>8 DEF Executing, Pause
  <2>10. /\ \A r : r # q => JobStays(r)
         /\ e = "writing" => Busy(q)'
         /\ NoneCancelling => NoneCancelling'
    BY <2>2, <2>4, <2>8, <2>9, PhaseJobs, TypesOfInv
  <2>11. ASSUME NEW r \in Ids PROVE RunOK(r)'
    <3>1. CASE r = q
      <4>1. SlotOK(q)'
        BY <1>4, <2>1, <2>3, <2>7, <2>8, <2>10 DEF SlotOK
      <4>2. SentOK(q)' /\ ReportOK(q)' /\ HeardOK(q)' /\ CollectOK(q)'
        BY <2>5, <2>6 DEF SentOK, ReportOK, HeardOK, CollectOK, Of
      <4>3. QED
        BY <3>1, <4>1, <4>2 DEF RunOK
    <3>2. CASE r # q
      <4>1. RunOK(r) /\ JobStays(r)
        BY <2>10, <3>2 DEF InOrder
      <4>2. TasksStay(r) /\ ReportsStay(r)
        BY <2>2, <2>7 DEF TasksStay, ReportsStay
      <4>3. SlotStays(r)
        BY <2>2, <2>3, <2>7, <3>2 DEF SlotStays
      <4>4. QED
        BY <4>1, <4>2, <4>3, Framed
    <3>3. QED
      BY <3>1, <3>2
  <2>12. QuietOK'
    <3>1. NoneCancelling'
      BY <2>10 DEF InOrder, QuietOK, NoneCancelling
    <3>2. \A u \in tasks : u.kind \notin {"status", "recover"}
      BY <1>1, NobodyAsks
    <3>3. QED
      BY <2>2, <3>1, <3>2, QuietAtWork DEF InOrder
  <2>13. QED
    BY <2>11, <2>12 DEF InOrder
<1>10. QED
  BY <1>7, <1>8, <1>9

\* Nothing is sent, reported or collected of the run that executes, and what is heard is its
\* announcement.
LEMMA ExecutingFacts ==
  ASSUME GatherInv, InOrder, slot.stage # "idle"
  PROVE  /\ slot.run \in Ids /\ slot.run # 0 /\ Busy(slot.run) /\ slot.run \in RunsOf(jobs)
         /\ \A x \in reports : x.run # slot.run
         /\ \A u \in tasks : Of(u, slot.run) =>
              Announces(u) /\ u.run = slot.run /\ slot.stage = "announcing"
<1>1. slot.run \in Ids /\ slot.run # 0
  BY TypesOfInv DEF SlotTypes
<1>2. PICK r : r = slot.run
  OBVIOUS
<1>3. RunOK(r)
  BY <1>1, <1>2 DEF InOrder
<1>4. Busy(r)
  BY <1>2, <1>3 DEF RunOK, SlotOK
<1>5. r \in RunsOf(jobs)
  BY <1>4 DEF Busy, Has, RunsOf
<1>6. ~Collecting(r)
  BY <1>4, JobPhase, TypesOfInv DEF Busy, Collecting, Has, QueueTypes, Distinct
<1>7. \A u \in tasks : ~Sends(u, r) /\ ~Collects(u, r)
  BY <1>2, <1>3, <1>5, <1>6 DEF RunOK, SentOK, CollectOK
<1>8. \A x \in reports : x.run # r
  BY <1>2, <1>3, <1>5 DEF RunOK, ReportOK
<1>9. \A u \in tasks : Hears(u, r) => Announces(u) /\ slot.stage = "announcing"
  BY <1>2, <1>3, <1>5 DEF RunOK, HeardOK
<1>10. QED
  BY <1>1, <1>2, <1>4, <1>5, <1>7, <1>8, <1>9 DEF Of, Hears

LEMMA AnnounceOrder ==
  ASSUME GatherInv, InOrder, Announce
  PROVE  InOrder'
<1>0. PICK q : q = slot.run
  OBVIOUS
<1> DEFINE n == [kind |-> "handle", run |-> q, event |-> "writing", known |-> {}, acks |-> TRUE]
<1>1. /\ slot.stage = "opening" /\ slot' = [slot EXCEPT !.stage = "announcing"]
      /\ tasks' = tasks \cup {n} /\ UNCHANGED <<jobs, reports>>
  BY <1>0 DEF Announce
<1>2. n.kind = "handle" /\ n.run = q /\ Announces(n)
  BY DEF Announces
<1> HIDE DEF n
<1>3. slot'.run = q /\ slot'.stage = "announcing"
  BY <1>0, <1>1, TypesOfInv DEF SlotTypes
<1>4. /\ q \in Ids /\ q # 0 /\ Busy(q) /\ q \in RunsOf(jobs)
      /\ \A x \in reports : x.run # q
      /\ \A u \in tasks : ~Of(u, q)
  BY <1>0, <1>1, ExecutingFacts
<1>5. \A r : JobStays(r)
  BY <1>1, SameJobs
<1>6. ASSUME NEW r \in Ids PROVE RunOK(r)'
  <2>1. CASE r = q
    <3>1. \A u \in tasks' : Of(u, q) => u = n
      BY <1>1, <1>4
    <3>2. \A u \in tasks' : ~Sends(u, q) /\ ~Collects(u, q)
      BY <1>2, <3>1 DEF Of, Sends, Collects
    <3>3. SlotOK(q)' /\ SentOK(q)' /\ ReportOK(q)' /\ CollectOK(q)'
      BY <1>1, <1>4, <1>5, <3>2 DEF SlotOK, SentOK, ReportOK, CollectOK, JobStays
    <3>4. HeardOK(q)'
      BY <1>2, <1>3, <1>4, <1>5, <3>1 DEF HeardOK, Of, JobStays
    <3>5. QED
      BY <2>1, <3>3, <3>4 DEF RunOK
  <2>2. CASE r # q
    <3>1. RunOK(r) /\ JobStays(r)
      BY <1>5 DEF InOrder
    <3>2. TasksStay(r)
      BY <1>1, <1>2, <2>2 DEF TasksStay, Of, Sends, Hears, Collects
    <3>3. QED
      BY <1>0, <1>1, <1>3, <2>2, <3>1, <3>2, Framed DEF ReportsStay, SlotStays
  <2>3. QED
    BY <2>1, <2>2
<1>7. QuietOK'
  <2>1. NoneCancelling'
    BY <1>1 DEF InOrder, QuietOK, NoneCancelling
  <2>2. \A u \in tasks : u.kind \notin {"status", "recover"}
    BY <1>0, <1>4, NobodyAsks
  <2>3. QED
    BY <1>1, <1>2, <2>1, <2>2, QuietAtWork DEF InOrder
<1>8. QED
  BY <1>6, <1>7 DEF InOrder

LEMMA SettleOrder ==
  ASSUME GatherInv, InOrder, NEW event \in Endings, Settle(event)
  PROVE  InOrder'
<1>0. PICK q : q = slot.run
  OBVIOUS
<1> DEFINE y == [run |-> q, event |-> event, sent |-> FALSE]
<1>1. /\ slot.stage = "announcing" => AnnouncementLost
      /\ slot' = Idle /\ reports' = reports \cup {y} /\ UNCHANGED <<jobs, tasks>>
      /\ y.run = q
  BY <1>0 DEF Settle
<1> HIDE DEF y
<1>2. slot.stage # "idle" /\ slot'.run = 0
  BY <1>1 DEF Endings, Idle
<1>3. /\ q \in Ids /\ q # 0 /\ Busy(q) /\ q \in RunsOf(jobs)
      /\ \A x \in reports : x.run # q
      /\ \A u \in tasks : Of(u, q) => Announces(u) /\ u.run = q /\ slot.stage = "announcing"
  BY <1>0, <1>2, ExecutingFacts
<1>4. \A u \in tasks : ~Of(u, q)
  BY <1>0, <1>1, <1>3 DEF AnnouncementLost, Announces
<1>5. \A r : JobStays(r)
  BY <1>1, SameJobs
<1>6. ASSUME NEW r \in Ids PROVE RunOK(r)'
  <2>1. CASE r = q
    <3>1. \A x \in reports' : x.run = q => x = y
      BY <1>1, <1>3
    <3>2. SlotOK(q)' /\ SentOK(q)' /\ HeardOK(q)' /\ CollectOK(q)'
      BY <1>1, <1>2, <1>3, <1>4 DEF SlotOK, SentOK, HeardOK, CollectOK, Of
    <3>3. ReportOK(q)'
      BY <1>1, <1>2, <1>3, <1>4, <1>5, <3>1 DEF ReportOK, Of, JobStays
    <3>4. QED
      BY <2>1, <3>2, <3>3 DEF RunOK
  <2>2. CASE r # q
    <3>1. RunOK(r) /\ JobStays(r) /\ r # 0
      BY <1>5, TypesOfInv DEF InOrder
    <3>2. TasksStay(r) /\ ReportsStay(r) /\ SlotStays(r)
      BY <1>0, <1>1, <1>2, <2>2, <3>1 DEF TasksStay, ReportsStay, SlotStays
    <3>3. QED
      BY <3>1, <3>2, Framed
  <2>3. QED
    BY <2>1, <2>2
<1>7. QuietOK'
  <2>1. NoneCancelling'
    BY <1>1 DEF InOrder, QuietOK, NoneCancelling
  <2>2. \A u \in tasks : u.kind \notin {"status", "recover"}
    BY <1>0, <1>3, NobodyAsks
  <2>3. QED
    BY <1>1, <2>1, <2>2, QuietAtWork DEF InOrder
<1>8. QED
  BY <1>6, <1>7 DEF InOrder

LEMMA DeliverOrder ==
  ASSUME GatherInv, InOrder, NEW x \in reports, Deliver(x)
  PROVE  InOrder'
<1> DEFINE q == x.run
           y == [x EXCEPT !.sent = TRUE]
           n == [kind |-> "handle", run |-> q, event |-> x.event,
                 known |-> IF x.event = Pause THEN profiles ELSE {}, acks |-> TRUE]
<1>1. /\ ~x.sent /\ reports' = (reports \ {x}) \cup {y} /\ tasks' = tasks \cup {n}
      /\ UNCHANGED <<jobs, slot>>
  BY DEF Deliver
<1>2. x \in ReportTypes
  BY TypesOfInv
<1>3. q \in Ids /\ x.event \in Terminal \cup {Pause}
  BY <1>2 DEF ReportTypes
<1>4. y.run = q /\ y.event = x.event /\ y.sent
  BY <1>2 DEF ReportTypes
<1>5. n.kind = "handle" /\ n.run = q /\ n.event = x.event /\ n.acks
  OBVIOUS
<1>6. ~Announces(n)
  BY <1>3, <1>5 DEF Announces, Terminal, Pause
<1> HIDE DEF y, n
<1>7. \A r : JobStays(r)
  BY <1>1, SameJobs
<1>8. ASSUME NEW r \in Ids PROVE RunOK(r)'
  <2>1. CASE r = q /\ q \in RunsOf(jobs)
    <3>1. /\ Busy(q) /\ slot.run # q
          /\ \A z \in reports : z.run = q => z = x
          /\ \A u \in tasks : ~Hears(u, q)
      BY <1>1, <2>1 DEF InOrder, RunOK, ReportOK
    <3>2. \A u \in tasks : ~Sends(u, q)
      BY <1>3 DEF InOrder, RunOK, SentOK
    <3>3. ~Collecting(q)
      BY <3>1, TypesOfInv DEF Busy, Collecting, Has, QueueTypes, Distinct
    <3>4. \A u \in tasks : ~Collects(u, q)
      BY <2>1, <3>3 DEF InOrder, RunOK, CollectOK
    <3> HIDE DEF q
    <3>5. \A u \in tasks' : Of(u, q) => u = n
      BY <1>1, <3>1, <3>2, <3>4 DEF Of
    <3>6. \A u \in tasks' : ~Sends(u, q) /\ ~Collects(u, q)
      BY <1>5, <3>5 DEF Of, Sends, Collects
    <3>7. SlotOK(q)' /\ SentOK(q)' /\ CollectOK(q)'
      BY <1>1, <3>1, <3>6 DEF SlotOK, SentOK, CollectOK
    <3>8. HeardOK(q)'
      BY <1>1, <1>6, <1>7, <3>1, <3>5 DEF HeardOK, Of, JobStays
    <3>9. \A z \in reports' : z.run = q => z = y
      BY <1>1, <3>1
    <3>10. ReportOK(q)'
      BY <1>1, <1>4, <1>5, <1>7, <3>1, <3>5, <3>9 DEF ReportOK, Of, JobStays
    <3>11. QED
      BY <2>1, <3>7, <3>8, <3>10 DEF RunOK
  <2>2. CASE r = q /\ q \notin RunsOf(jobs)
    <3>1. ~Busy(q)
      BY <2>2 DEF Busy, Has, RunsOf
    <3>2. slot.run # q /\ \A u \in tasks : ~Sends(u, q)
      BY <1>3, <3>1, NotSent DEF InOrder
    <3> HIDE DEF q
    <3>3. \A u \in tasks' : ~Sends(u, q)
      BY <1>1, <1>5, <3>2 DEF Sends
    <3>4. QED
      BY <1>1, <2>2, <3>2, <3>3, Gone
  <2>3. CASE r # q
    <3>1. RunOK(r) /\ JobStays(r)
      BY <1>7 DEF InOrder
    <3> HIDE DEF q
    <3>2. TasksStay(r)
      BY <1>1, <1>5, <2>3 DEF TasksStay, Of, Sends, Hears, Collects
    <3>3. ReportsStay(r)
      BY <1>1, <1>4, <2>3 DEF ReportsStay
    <3>4. QED
      BY <1>1, <3>1, <3>2, <3>3, Framed DEF SlotStays
  <2>4. QED
    BY <2>1, <2>2, <2>3
<1>9. QuietOK'
  <2>1. NoneCancelling'
    BY <1>1 DEF InOrder, QuietOK, NoneCancelling
  <2>2. \A u \in tasks : u.kind \notin {"status", "recover"}
    BY NobodyAsks
  <2>3. QED
    BY <1>1, <1>5, <2>1, <2>2, QuietAtWork DEF InOrder
<1>10. QED
  BY <1>8, <1>9 DEF InOrder

LEMMA WorkerEndsOrder ==
  ASSUME GatherInv, InOrder, WorkerEnds
  PROVE  InOrder'
<1>1. /\ tasks' = {} /\ reports' = {[x EXCEPT !.sent = FALSE] : x \in reports}
      /\ UNCHANGED <<jobs, slot>>
  BY DEF WorkerEnds
<1>2. \A x \in reports : [x EXCEPT !.sent = FALSE].run = x.run
  BY TypesOfInv DEF ReportTypes
<1>3. ASSUME NEW r \in Ids PROVE RunOK(r)'
  <2>1. RunOK(r) /\ JobStays(r)
    BY <1>1, SameJobs DEF InOrder
  <2>2. SlotOK(r)' /\ SentOK(r)' /\ HeardOK(r)' /\ CollectOK(r)'
    BY <1>1, <2>1 DEF RunOK, SlotOK, SentOK, HeardOK, CollectOK, JobStays
  <2>3. ASSUME r \in RunsOf(jobs') PROVE ReportOK(r)'
    <3>1. ReportOK(r)
      BY <2>1, <2>3 DEF RunOK, JobStays
    <3>2. \A y \in reports' : \E x \in reports : y = [x EXCEPT !.sent = FALSE] /\ y.run = x.run
      BY <1>1, <1>2
    <3>3. ASSUME NEW y \in reports', y.run = r
          PROVE  /\ Busy(r)' /\ slot'.run # r
                 /\ \A z \in reports' : z.run = r => z = y
      <4>1. PICK x \in reports : y = [x EXCEPT !.sent = FALSE] /\ y.run = x.run
        BY <3>2
      <4>2. Busy(r) /\ slot.run # r /\ \A z \in reports : z.run = r => z = x
        BY <3>1, <3>3, <4>1 DEF ReportOK
      <4>3. ASSUME NEW z \in reports', z.run = r PROVE z = y
        <5>1. PICK w \in reports : z = [w EXCEPT !.sent = FALSE] /\ z.run = w.run
          BY <3>2
        <5>2. w = x
          BY <4>2, <4>3, <5>1
        <5>3. QED
          BY <4>1, <5>1, <5>2
      <4>4. Busy(r)' /\ slot'.run # r
        BY <1>1, <2>1, <4>2 DEF JobStays
      <4>5. QED
        BY <4>3, <4>4
    <3>4. QED
      BY <1>1, <3>3 DEF ReportOK
  <2>4. QED
    BY <2>2, <2>3 DEF RunOK
<1>4. QuietOK'
  BY <1>1 DEF InOrder, QuietOK
<1>5. QED
  BY <1>3, <1>4 DEF InOrder

LEMMA DocumentEndsOrder ==
  ASSUME GatherInv, InOrder, DocumentEnds
  PROVE  InOrder'
<1>1. /\ slot'.run = 0 /\ reports' = {} /\ tasks' = {Unawaited(u) : u \in tasks} /\ jobs' = jobs
  BY DEF DocumentEnds, Idle
<1>2. \A u \in tasks' : \E v \in tasks :
        /\ u = Unawaited(v) /\ u.kind = v.kind /\ v \in TaskTypes
        /\ u.kind \in {"collect", "uncollected"} => u = v
        /\ u.kind \in {"execute", "refused", "handle"} => u.run = v.run
        /\ u.kind = "handle" => ~Announces(u)
  <2> SUFFICES ASSUME NEW v \in tasks
               PROVE  LET u == Unawaited(v) IN
                      /\ u.kind = v.kind /\ v \in TaskTypes
                      /\ u.kind \in {"collect", "uncollected"} => u = v
                      /\ u.kind \in {"execute", "refused", "handle"} => u.run = v.run
                      /\ u.kind = "handle" => ~Announces(u)
    BY <1>1
  <2>1. v \in TaskTypes
    BY TypesOfInv
  <2>2. QED
    BY <2>1, UnawaitedFacts DEF Announces
<1>3. ASSUME NEW r \in Ids PROVE RunOK(r)'
  <2>1. RunOK(r) /\ JobStays(r) /\ r # 0
    BY <1>1, SameJobs, TypesOfInv DEF InOrder
  <2>2. SlotOK(r)' /\ ReportOK(r)'
    BY <1>1, <2>1 DEF SlotOK, ReportOK
  <2>3. SentOK(r)'
    <3> SUFFICES ASSUME NEW t \in tasks', Sends(t, r)
                 PROVE  Busy(r)' /\ \A u \in tasks' : Sends(u, r) \/ Hears(u, r) => u = t
      BY <1>1, <2>1 DEF SentOK
    <3>1. PICK v \in tasks : t = Unawaited(v) /\ Sends(v, r)
      BY <1>2 DEF Sends
    <3>2. Busy(r) /\ \A u \in tasks : Sends(u, r) \/ Hears(u, r) => u = v
      BY <2>1, <3>1 DEF RunOK, SentOK
    <3>3. \A u \in tasks' : Sends(u, r) \/ Hears(u, r) =>
             \E w \in tasks : u = Unawaited(w) /\ (Sends(w, r) \/ Hears(w, r))
      BY <1>2 DEF Sends, Hears
    <3>4. QED
      BY <2>1, <3>1, <3>2, <3>3 DEF JobStays
  <2>4. ASSUME r \in RunsOf(jobs') PROVE HeardOK(r)' /\ CollectOK(r)'
    <3>1. HeardOK(r) /\ CollectOK(r)
      BY <2>1, <2>4 DEF RunOK, JobStays
    <3>2. HeardOK(r)'
      <4> SUFFICES ASSUME NEW t \in tasks', Hears(t, r)
                   PROVE  /\ Busy(r)' /\ ~Announces(t)
                          /\ \A u \in tasks' : Hears(u, r) => u = t
        BY <1>1, <2>1 DEF HeardOK
      <4>1. PICK v \in tasks : t = Unawaited(v) /\ Hears(v, r) /\ ~Announces(t)
        BY <1>2 DEF Hears
      <4>2. Busy(r) /\ \A u \in tasks : Hears(u, r) => u = v
        BY <3>1, <4>1 DEF HeardOK
      <4>3. \A u \in tasks' : Hears(u, r) => \E w \in tasks : u = Unawaited(w) /\ Hears(w, r)
        BY <1>2 DEF Hears
      <4>4. QED
        BY <2>1, <4>1, <4>2, <4>3 DEF JobStays
    <3>3. CollectOK(r)'
      BY <1>2, <2>1, <3>1 DEF CollectOK, Collects, JobStays
    <3>4. QED
      BY <3>2, <3>3
  <2>5. QED
    BY <2>2, <2>3, <2>4 DEF RunOK
<1>4. QuietOK'
  <2>1. \A u \in tasks' : \E v \in tasks : u.kind = v.kind
    BY <1>2
  <2>2. QED
    BY <1>1, <2>1 DEF InOrder, QuietOK
<1>5. QED
  BY <1>3, <1>4 DEF InOrder

LEMMA RestartOrder ==
  ASSUME GatherInv, InOrder, Restart
  PROVE  InOrder'
<1>1. /\ slot'.run = 0 /\ reports' = {} /\ tasks' = {[kind |-> "status"]} /\ jobs' = jobs
  BY DEF Restart, Idle
<1>2. \A u \in tasks' : u.kind = "status"
  BY <1>1
<1>3. ASSUME NEW r \in Ids PROVE RunOK(r)'
  <2>1. r # 0 /\ \A u \in tasks' : ~Of(u, r)
    BY <1>2, TypesOfInv DEF Of, Sends, Hears, Collects
  <2>2. QED
    BY <1>1, <2>1, Silent
<1>4. QuietOK'
  BY <1>1, <1>2 DEF InOrder, QuietOK
<1>5. QED
  BY <1>3, <1>4 DEF InOrder

\* A calm state comes after a calm one.
LEMMA CalmBefore ==
  ASSUME GatherInv, Next, Calm'
  PROVE  Calm /\ cancels' = cancels /\ profiles' = profiles
<1>0. cancels \in Nat /\ profiles \subseteq Profiles /\ early \in BOOLEAN
  BY DEF GatherInv, CountTypes
<1>1. CASE People
  <2>1. ASSUME NEW i \in DOMAIN jobs, Cancel(jobs[i].run) PROVE FALSE
    BY <1>0, <2>1 DEF Cancel, Calm
  <2>2. ASSUME NEW p \in Profiles, DeleteProfile(p) PROVE FALSE
    BY <1>0, <2>2 DEF DeleteProfile, Calm
  <2>3. UNCHANGED <<cancels, profiles, early>>
    BY <1>1, <2>1, <2>2 DEF People, Gather, AskRetry, HandBack, people, past
  <2>4. QED
    BY <2>3 DEF Calm
<1>2. CASE Worker \/ Document \/ Faults
  <2>1. UNCHANGED <<cancels, profiles>> /\ (early' = early \/ early' = TRUE \/ (early => early'))
    <3>1. ASSUME NEW t \in tasks,
                 \/ Reserve(t) \/ Retry(t) \/ Abort(t) \/ Collected(t) \/ Uncollected(t)
                 \/ Execute(t) \/ Refused(t) \/ Purge(t) \/ AskStatus(t) \/ Recover(t)
                 \/ CollectFails(t) \/ ExecuteFails(t)
          PROVE  UNCHANGED <<cancels, profiles, early>>
      BY <3>1 DEF Reserve, Retry, Abort, Collected, Uncollected, Execute, Refused, Purge,
                  AskStatus, Recover, CollectFails, ExecuteFails, people, past
    <3>2. ASSUME NEW t \in tasks, Claim(t)
          PROVE  UNCHANGED <<cancels, profiles>> /\ (early => early')
      BY <1>0, <3>2 DEF Claim, people
    <3>3. ASSUME NEW t \in tasks, Handle(t)
          PROVE  UNCHANGED <<cancels, profiles, early>>
      BY <3>3 DEF Handle, people, past
    <3>4. CASE Document
      BY <3>4 DEF Document, Announce, Settle, Deliver, people, past
    <3>5. CASE WorkerEnds \/ DocumentEnds \/ Restart
      BY <3>5 DEF WorkerEnds, DocumentEnds, Restart, people
    <3>6. QED
      BY <1>2, <3>1, <3>2, <3>3, <3>4, <3>5 DEF Worker, Faults
  <2>2. QED
    BY <1>0, <2>1 DEF Calm
<1>3. QED
  BY <1>1, <1>2 DEF Next

LEMMA InOrderKept ==
  ASSUME GatherInv, Calm => InOrder, [Next]_vars
  PROVE  Calm' => InOrder'
<1> SUFFICES ASSUME Calm' PROVE InOrder'
  OBVIOUS
<1>1. CASE UNCHANGED vars
  <2>1. UNCHANGED <<jobs, tasks, slot, reports, cancels, profiles, early>>
    BY <1>1 DEF vars
  <2>2. InOrder
    BY <2>1 DEF Calm
  <2>3. ASSUME NEW r \in Ids PROVE RunOK(r)'
    BY <2>1, <2>2, SameJobs, Framed DEF InOrder, TasksStay, ReportsStay, SlotStays
  <2>4. QuietOK'
    BY <2>1, <2>2, QuietFrom DEF InOrder, QuietOK, NoneCancelling
  <2>5. QED
    BY <2>3, <2>4 DEF InOrder
<1>2. CASE Next
  <2>0. InOrder /\ cancels' = cancels /\ profiles' = profiles
    BY <1>2, CalmBefore
  <2>1. CASE People
    BY <2>0, <2>1, PeopleOrder
  <2>2. CASE Worker
    <3>1. PICK t \in tasks :
            \/ Reserve(t) \/ Retry(t) \/ Abort(t)
            \/ Collected(t) \/ Uncollected(t)
            \/ Claim(t) \/ Execute(t) \/ Refused(t)
            \/ Purge(t) \/ AskStatus(t) \/ Recover(t)
            \/ Handle(t)
      BY <2>2 DEF Worker
    <3>2. ~Abort(t)
      BY <2>0 DEF Abort, InOrder, QuietOK
    <3>3. ~early'
      BY DEF Calm
    <3>4. QED
      BY <2>0, <3>1, <3>2, <3>3, ReserveOrder, RetryOrder, CollectedOrder, UncollectedOrder,
         ClaimOrder, ExecuteOrder, RefusedOrder, PurgeOrder, AskStatusOrder, RecoverOrder,
         HandleOrder
  <2>3. CASE Document
    BY <2>0, <2>3, AnnounceOrder, SettleOrder, DeliverOrder DEF Document
  <2>4. CASE Faults
    BY <2>0, <2>4, CollectFailsOrder, ExecuteFailsOrder, WorkerEndsOrder, DocumentEndsOrder,
       RestartOrder DEF Faults
  <2>5. QED
    BY <1>2, <2>1, <2>2, <2>3, <2>4 DEF Next
<1>3. QED
  BY <1>1, <1>2

LEMMA InOrderFirst == Init => InOrder
<1> SUFFICES ASSUME Init PROVE InOrder
  OBVIOUS
<1>1. jobs = <<>> /\ tasks = {} /\ reports = {} /\ slot.run = 0
  BY DEF Init, Idle
<1>2. QuietOK
  BY <1>1 DEF QuietOK
<1>3. ASSUME NEW r \in Ids PROVE RunOK(r)
  <2>1. r # 0
    BY LenProperties, QueueAssumption DEF Ids
  <2>2. r \notin RunsOf(jobs)
    BY <1>1 DEF RunsOf
  <2>3. SlotOK(r) /\ SentOK(r)
    BY <1>1, <2>1 DEF SlotOK, SentOK
  <2>4. QED
    BY <2>2, <2>3 DEF RunOK
<1>4. QED
  BY <1>2, <1>3 DEF InOrder

-----------------------------------------------------------------------------
(* The theorems. *)

\* The type invariant: in particular no run is in two places of the queue, whatever is redelivered,
\* and neither the queue nor the results grow over their limit.
THEOREM GatherTypesAlways == Spec => []GatherTypeOK
<1>1. GatherInv => GatherTypeOK
  <2> SUFFICES ASSUME GatherInv PROVE GatherTypeOK
    OBVIOUS
  <2>1. QueueTypes /\ WorkTypes /\ CountTypes
    BY DEF GatherInv
  <2>2. /\ IsInjective([i \in DOMAIN jobs |-> jobs[i].run])
        /\ IsInjective([i \in DOMAIN results |-> results[i].run])
    BY <2>1 DEF QueueTypes, Distinct, IsInjective
  <2>3. \A i \in DOMAIN results : ~Listed(results[i].run)
    BY <2>1 DEF QueueTypes, RunsOf, Listed
  <2>4. {cancels, faults} \subseteq 0 .. MaxUpsets
    BY <2>1, UpsetTypes DEF CountTypes, Upsets
  <2>5. /\ slot \in [run : {0} \cup Ids, stage : {"idle", "opening", "announcing", "working"},
                     aborted : BOOLEAN]
        /\ reports \subseteq [run : Ids, event : Terminal \cup {Pause}, sent : BOOLEAN]
        /\ tasks \subseteq TaskTypes
    BY <2>1 DEF WorkTypes, SlotTypes, ReportTypes
  <2>6. QED
    BY <2>1, <2>2, <2>3, <2>4, <2>5 DEF GatherTypeOK, QueueTypes, CountTypes, JobTypes, ResultTypes
<1>2. QED
  BY <1>1, GatherInvAlways, PTL

\* One job at most holds the queue, however many calls dispatch at once, whichever reports come
\* late or again, and whatever ends and restarts between them.  And the handoff is in order: while
\* nobody cancelled, no profile went and nothing was claimed before the browser's recovery, no run
\* is sent to a document that executes another one.
THEOREM HandoffInOrder == Spec => []HandoffOrdered
<1>1. Init => (Calm => InOrder)
  BY InOrderFirst
<1>2. GatherInv /\ (Calm => InOrder) /\ [Next]_vars => (Calm => InOrder)'
  BY InOrderKept DEF Calm
<1>3. GatherInv /\ (Calm => InOrder) => HandoffOrdered
  BY HoldsAlone, SentToTheFree DEF HandoffOrdered, Calm
<1>4. QED
  BY <1>1, <1>2, <1>3, GatherInvAlways, PTL DEF Spec

LEMMA StutterIsCalm ==
  ASSUME GatherInv, UNCHANGED vars
  PROVE  CancelStep /\ ResultStep
<1>1. QueueStep
  BY SameStep DEF GatherInv, vars
<1>2. QED
  BY <1>1 DEF QueueStep

\* A run somebody cancelled is over or still being cancelled.
THEOREM CancelSticksAlways == Spec => CancelSticks
<1>1. ASSUME GatherInv, [Next]_vars
      PROVE  CancelStep
  BY <1>1, NextIsAStep, StutterIsCalm DEF Step, QueueStep
<1>2. QED
  BY <1>1, GatherInvAlways, PTL DEF Spec, CancelSticks, CancelStep

\* What was recorded of a run stands, and what can be retried leaves the results only for that.
THEOREM ResultsStandAlways == Spec => ResultsStand
<1>1. ASSUME GatherInv, [Next]_vars
      PROVE  ResultStep
  BY <1>1, NextIsAStep, StutterIsCalm DEF Step, QueueStep
<1>2. QED
  BY <1>1, GatherInvAlways, PTL DEF Spec, ResultsStand, ResultStep

=============================================================================
