-------------------------- MODULE TidyChangesProofs --------------------------
(***************************************************************************)
(* What the window's queue of changes keeps for any number of presses,     *)
(* stops and steps of Tidy up, and any length of the history.              *)
(*                                                                         *)
(* The queue and the history are sequences, and what a release does to     *)
(* them is written with recursive functions: the module begins with        *)
(* induction over sets of numbers (Least, FromZero) and what it says of    *)
(* Without and HandOver.  The turn comes first (TurnInv): it says what the *)
(* variables hold, and with the turn free that nothing waits.              *)
(*                                                                         *)
(* What Cmd-Z takes needs to know where everything is that it should still *)
(* know of: in the history, in its order, with every plan that once shared *)
(* an entry with it (kin), or taken back by the Undo that runs (Covers).   *)
(* NewestInv says that through every start, report and decision, with what *)
(* the tasks and the queue are about.                                      *)
(***************************************************************************)
EXTENDS TidyChanges, SequenceTheorems, FiniteSetTheorems, WellFoundedInduction, TLAPS

-----------------------------------------------------------------------------
(* Induction, over sets of numbers. *)

LEMMA Least ==
  ASSUME NEW S \in SUBSET Nat, S # {}
  PROVE \E n \in S : \A m \in S : n <= m
<1>1. IsWellFoundedOn(OpToRel(<, Nat), Nat)
  BY NatLessThanWellFounded
<1>2. PICK n \in S : \A m \in S : ~(<<m, n>> \in OpToRel(<, Nat))
  BY <1>1, WFMin
<1>3. ASSUME NEW m \in S PROVE n <= m
  <2>1. ~(m < n)
    BY <1>2 DEF OpToRel
  <2>2. QED BY <2>1
<1>4. QED BY <1>3

LEMMA FromZero ==
  ASSUME NEW S \in SUBSET Nat, 0 \in S, \A n \in S : n + 1 \in S
  PROVE S = Nat
<1> SUFFICES ASSUME Nat \ S # {} PROVE FALSE
  OBVIOUS
<1>1. PICK n \in Nat \ S : \A m \in Nat \ S : n <= m
  BY Least
<1>2. n - 1 \in S
  BY <1>1
<1>3. QED BY <1>1, <1>2

-----------------------------------------------------------------------------
(* What is left of a sequence. *)

LEMMA WithoutIs ==
  ASSUME NEW S, NEW q \in Seq(S), NEW gone
  PROVE  \E upTo : /\ upTo = [n \in 0 .. Len(q) |->
                                IF n = 0 THEN <<>>
                                ELSE IF q[n] \in gone THEN upTo[n - 1]
                                ELSE Append(upTo[n - 1], q[n])]
                   /\ Without(q, gone) = upTo[Len(q)]
<1> DEFINE Step(f, n) == IF n = 0 THEN <<>>
                         ELSE IF q[n] \in gone THEN f[n - 1] ELSE Append(f[n - 1], q[n])
           Upto(f, n) == f = [m \in 0 .. n |-> Step(f, m)]
           Has == {n \in Nat : \E f : Upto(f, n)}
<1>1. 0 \in Has
  <2>1. Upto([m \in 0 .. 0 |-> <<>>], 0)
    OBVIOUS
  <2>2. QED
    BY <2>1
<1>2. ASSUME NEW n \in Has PROVE n + 1 \in Has
  <2>1. PICK f : Upto(f, n)
    OBVIOUS
  <2> DEFINE g == [m \in 0 .. (n + 1) |-> IF m <= n THEN f[m] ELSE Step(f, n + 1)]
  <2>2. ASSUME NEW m \in 0 .. (n + 1) PROVE g[m] = Step(g, m)
    <3>1. CASE m <= n
      <4>1. m \in 0 .. n /\ (m # 0 => m - 1 \in 0 .. n /\ m - 1 \in 0 .. (n + 1))
        BY <3>1
      <4>2. f[m] = Step(f, m)
        BY <2>1, <4>1
      <4>3. Step(g, m) = Step(f, m)
        BY <4>1
      <4>4. QED
        BY <3>1, <4>2, <4>3
    <3>2. CASE m = n + 1
      <4>1. n \in 0 .. n /\ n \in 0 .. (n + 1) /\ (n + 1) - 1 = n
        OBVIOUS
      <4>2. Step(g, m) = Step(f, m)
        BY <3>2, <4>1
      <4>3. QED
        BY <3>2, <4>2
    <3>3. QED
      BY <3>1, <3>2
  <2>3. Upto(g, n + 1)
    BY <2>2
  <2> HIDE DEF g, Step
  <2>4. QED
    BY <2>3
<1>3. Len(q) \in Has
  <2> HIDE DEF Has
  <2>1. Has \in SUBSET Nat
    BY DEF Has
  <2>2. Has = Nat
    BY <1>1, <1>2, <2>1, FromZero
  <2>3. QED
    BY <2>2
<1>4. PICK f : f = [n \in 0 .. Len(q) |->
                      IF n = 0 THEN <<>>
                      ELSE IF q[n] \in gone THEN f[n - 1] ELSE Append(f[n - 1], q[n])]
  BY <1>3
<1>5. QED
  BY <1>4 DEF Without

LEMMA WithoutFacts ==
  ASSUME NEW S, NEW q \in Seq(S), NEW gone
  PROVE  Without(q, gone) \in Seq(S) /\ Len(Without(q, gone)) <= Len(q)
<1>1. PICK upTo : /\ upTo = [n \in 0 .. Len(q) |->
                               IF n = 0 THEN <<>>
                               ELSE IF q[n] \in gone THEN upTo[n - 1]
                               ELSE Append(upTo[n - 1], q[n])]
                  /\ Without(q, gone) = upTo[Len(q)]
  BY WithoutIs
<1>2. Len(q) \in Nat /\ \A n \in 1 .. Len(q) : q[n] \in S
  BY LenProperties, ElementOfSeq
<1>0. \A n \in 0 .. Len(q) :
         upTo[n] = IF n = 0 THEN <<>>
                   ELSE IF q[n] \in gone THEN upTo[n - 1] ELSE Append(upTo[n - 1], q[n])
  BY <1>1
<1> DEFINE Good == {n \in Nat : n <= Len(q) => upTo[n] \in Seq(S) /\ Len(upTo[n]) <= n}
<1>3. 0 \in Good
  <2>1. upTo[0] = <<>>
    BY <1>0, <1>2
  <2>2. <<>> \in Seq(S) /\ Len(<<>>) = 0
    BY EmptySeq
  <2>3. upTo[0] \in Seq(S) /\ Len(upTo[0]) = 0
    BY <2>1, <2>2
  <2>4. QED
    BY <2>3
<1>4. ASSUME NEW n \in Good PROVE n + 1 \in Good
  <2> SUFFICES ASSUME n + 1 <= Len(q)
               PROVE  upTo[n + 1] \in Seq(S) /\ Len(upTo[n + 1]) <= n + 1
    OBVIOUS
  <2>1. n + 1 \in 1 .. Len(q) /\ n + 1 \in 0 .. Len(q) /\ (n + 1) - 1 = n
    BY <1>2
  <2>2. upTo[n + 1] = IF q[n + 1] \in gone THEN upTo[n] ELSE Append(upTo[n], q[n + 1])
    BY <1>0, <2>1
  <2>3. upTo[n] \in Seq(S) /\ Len(upTo[n]) \in Nat /\ Len(upTo[n]) <= n
    BY <2>1, LenProperties
  <2>4. q[n + 1] \in S
    BY <1>2, <2>1
  <2> DEFINE was == upTo[n]
             e   == q[n + 1]
  <2>5. was \in Seq(S) /\ e \in S /\ Len(was) \in Nat
    BY <2>3, <2>4
  <2> HIDE DEF was, e
  <2>6. Append(was, e) \in Seq(S) /\ Len(Append(was, e)) = Len(was) + 1
    BY <2>5, AppendProperties
  <2>7. QED
    BY <2>2, <2>3, <2>6 DEF was, e
<1>5. Good = Nat
  <2> HIDE DEF Good
  <2>1. Good \in SUBSET Nat
    BY DEF Good
  <2>2. QED
    BY <1>3, <1>4, <2>1, FromZero
<1>6. upTo[Len(q)] \in Seq(S) /\ Len(upTo[Len(q)]) <= Len(q)
  BY <1>2, <1>5
<1>7. QED
  BY <1>1, <1>6

-----------------------------------------------------------------------------
(* The inductive invariant. *)

Starts == [kind : {"change"}, tidies : BOOLEAN, steps : Nat]
            \cup [kind : {"undo"}, ids : SUBSET Nat, by : {"again", "page"}]

Waits == Starts \cup [kind : {"again"}, pushed : Nat, returned : Nat, behind : BOOLEAN]

Stage == {"listing", "drafting", "working", "failing", "ended"}
How   == {"done", "cancelled", "failed", "unfinished"}

TaskTypes == [kind : {"change"}, tidies : BOOLEAN, steps : Nat, ids : SUBSET Nat, plan : Nat,
              at : Stage, how : How]
               \cup [kind : {"undo"}, ids : SUBSET Nat, by : {"again", "page"}, left : SUBSET Nat,
                     at : {"working", "ended"}, how : How]

Entries == Seq(SUBSET Nat)

HistoryTypes == undo \in Entries /\ Len(undo) <= UNDO_LIMIT

ChangeTypes == change \in [on : BOOLEAN, stop : BOOLEAN]

CountTypes == pushed \in Nat /\ returned \in Nat /\ nextId \in Nat

\* The turn is free and nothing waits for it, or one task has it.
TurnFree == turn = FALSE /\ tasks = {} /\ queue = <<>> /\ change.on = FALSE
TurnTaken == turn = TRUE /\ \E t \in TaskTypes : tasks = {t} /\ undoes = (t.kind = "undo")

TurnInv ==
    /\ queue \in Seq(Waits)
    /\ HistoryTypes /\ ChangeTypes /\ CountTypes
    /\ TurnFree \/ TurnTaken

-----------------------------------------------------------------------------
(* What a release makes of the queue. *)

Passing == [undo : Entries, pushed : {pushed'}, returned : {returned'}, queue : Seq(Waits),
            next : Starts \cup {Nothing}, unmarked : SUBSET Nat]

\* What is next stays next, and what is skipped waits no more.
Passes(s, entries) ==
    /\ s \in Passing
    /\ Len(s.undo) <= Len(entries)
    /\ s.next = Nothing => s.queue = <<>>

LEMMA FrontFacts ==
  ASSUME NEW S, NEW q \in Seq(S), q # <<>>
  PROVE  Front(q) \in Seq(S) /\ Len(Front(q)) = Len(q) - 1 /\ Last(q) \in S
<1>1. Len(q) \in Nat /\ Len(q) # 0 /\ \A i \in 1 .. Len(q) : q[i] \in S
  BY EmptySeq, LenProperties, ElementOfSeq
<1>2. PICK n \in Nat : Len(q) = n + 1
  <2>1. ASSUME NEW k \in Nat, k # 0 PROVE \E n \in Nat : k = n + 1
    <3>1. k - 1 \in Nat /\ k = (k - 1) + 1
      BY <2>1
    <3>2. QED
      BY <3>1
  <2>2. QED
    BY <1>1, <2>1
<1>3. Front(q) \in Seq(S) /\ Len(Front(q)) = n
  <2>1. Len(q) - 1 = n /\ \A i \in 1 .. n : q[i] \in S
    BY <1>1, <1>2
  <2>2. SubSeq(q, 1, n) \in Seq(S) /\ Len(SubSeq(q, 1, n)) = IF 1 <= n THEN n - 1 + 1 ELSE 0
    BY <2>1, SubSeqProperties
  <2>3. QED
    BY <2>1, <2>2 DEF Front
<1>4. Last(q) \in S
  BY <1>1, <1>2 DEF Last
<1>5. QED
  BY <1>2, <1>3, <1>4

LEMMA PassKeeps ==
  ASSUME NEW entries \in Entries, NEW s, Passes(s, entries), NEW x \in Waits
  PROVE  Passes(Pass(s, x), entries)
<1>1. /\ s \in Passing /\ s.undo \in Entries /\ s.queue \in Seq(Waits)
      /\ Len(s.undo) \in Nat /\ Len(entries) \in Nat /\ Len(s.undo) <= Len(entries)
  BY LenProperties DEF Passes, Passing, Entries
<1>2. CASE s.next # Nothing
  <2>1. Append(s.queue, x) \in Seq(Waits)
    BY <1>1, AppendProperties
  <2>2. Pass(s, x) = [s EXCEPT !.queue = Append(s.queue, x)]
    BY <1>2 DEF Pass
  <2> DEFINE a == Append(s.queue, x)
  <2> HIDE DEF a
  <2>3. QED
    BY <1>1, <1>2, <2>1, <2>2 DEF Passes, Passing, a
<1>3. CASE s.next = Nothing /\ x.kind # "again"
  <2>1. Pass(s, x) = [s EXCEPT !.next = x]
    BY <1>3 DEF Pass
  <2>2. x \in Starts
    BY <1>3 DEF Waits
  <2>3. s.queue = <<>>
    BY <1>3 DEF Passes
  <2>4. QED
    BY <1>1, <2>1, <2>2, <2>3 DEF Passes, Passing
<1>4. CASE s.next = Nothing /\ x.kind = "again" /\ ~Takes(x, s)
  <2>1. Pass(s, x) = s
    BY <1>4 DEF Pass
  <2>2. QED
    BY <2>1
<1>5. CASE s.next = Nothing /\ x.kind = "again" /\ Takes(x, s)
  <2> DEFINE f == Front(s.undo)
             l == Last(s.undo)
  <2>1. f \in Entries /\ Len(f) = Len(s.undo) - 1 /\ l \in SUBSET Nat
    BY <1>1, <1>5, FrontFacts DEF Takes, Entries
  <2>2. Undo(l, "again") \in Starts
    BY <2>1 DEF Undo, Starts
  <2>3. s.queue = <<>>
    BY <1>5 DEF Passes
  <2>4. \/ Pass(s, x) = [s EXCEPT !.undo = f, !.unmarked = s.unmarked \cup l]
        \/ Pass(s, x) = [s EXCEPT !.undo = f, !.next = Undo(l, "again")]
    BY <1>5 DEF Pass
  <2> DEFINE u == Undo(l, "again")
  <2>5. u \in Starts
    BY <2>2
  <2> HIDE DEF f, l, u
  <2>6. CASE Pass(s, x) = [s EXCEPT !.undo = f, !.unmarked = s.unmarked \cup l]
    <3>1. Pass(s, x) \in Passing
      BY <1>1, <2>1, <2>6 DEF Passing
    <3>2. Pass(s, x).undo = f /\ Pass(s, x).queue = s.queue
      BY <1>1, <2>6 DEF Passing
    <3>3. QED
      BY <1>1, <2>1, <2>3, <3>1, <3>2 DEF Passes
  <2>7. CASE Pass(s, x) = [s EXCEPT !.undo = f, !.next = u]
    <3>1. Pass(s, x) \in Passing
      BY <1>1, <2>1, <2>5, <2>7 DEF Passing
    <3>2. Pass(s, x).undo = f /\ Pass(s, x).queue = s.queue
      BY <1>1, <2>7 DEF Passing
    <3>3. QED
      BY <1>1, <2>1, <2>3, <3>1, <3>2 DEF Passes
  <2>8. QED
    BY <2>4, <2>6, <2>7 DEF u
<1>6. QED
  BY <1>2, <1>3, <1>4, <1>5

LEMMA HandOverIs ==
  ASSUME NEW entries, queue \in Seq(Waits)
  PROVE  \E upTo : /\ upTo = [n \in 0 .. Len(queue) |->
                                IF n = 0 THEN Free(entries) ELSE Pass(upTo[n - 1], queue[n])]
                   /\ HandOver(entries) = upTo[Len(queue)]
<1> DEFINE q == queue
           first == Free(entries)
           Step(f, n) == IF n = 0 THEN first ELSE Pass(f[n - 1], q[n])
           Upto(f, n) == f = [m \in 0 .. n |-> Step(f, m)]
           Has == {n \in Nat : \E f : Upto(f, n)}
<1> HIDE DEF first
<1>1. 0 \in Has
  <2>1. Upto([m \in 0 .. 0 |-> first], 0)
    OBVIOUS
  <2>2. QED
    BY <2>1
<1>2. ASSUME NEW n \in Has PROVE n + 1 \in Has
  <2>1. PICK f : Upto(f, n)
    OBVIOUS
  <2> DEFINE g == [m \in 0 .. (n + 1) |-> IF m <= n THEN f[m] ELSE Step(f, n + 1)]
  <2>2. ASSUME NEW m \in 0 .. (n + 1) PROVE g[m] = Step(g, m)
    <3>1. CASE m <= n
      <4>1. m \in 0 .. n /\ (m # 0 => m - 1 \in 0 .. n /\ m - 1 \in 0 .. (n + 1))
        BY <3>1
      <4>2. f[m] = Step(f, m)
        BY <2>1, <4>1
      <4>3. Step(g, m) = Step(f, m)
        BY <4>1
      <4>4. QED
        BY <3>1, <4>2, <4>3
    <3>2. CASE m = n + 1
      <4>1. n \in 0 .. n /\ n \in 0 .. (n + 1) /\ (n + 1) - 1 = n
        OBVIOUS
      <4>2. Step(g, m) = Step(f, m)
        BY <3>2, <4>1
      <4>3. QED
        BY <3>2, <4>2
    <3>3. QED
      BY <3>1, <3>2
  <2>3. Upto(g, n + 1)
    BY <2>2
  <2> HIDE DEF g, Step
  <2>4. QED
    BY <2>3
<1>3. Len(q) \in Has
  <2>1. Len(q) \in Nat
    BY LenProperties
  <2> HIDE DEF Has
  <2>2. Has \in SUBSET Nat
    BY DEF Has
  <2>3. Has = Nat
    BY <1>1, <1>2, <2>2, FromZero
  <2>4. QED
    BY <2>1, <2>3
<1>4. PICK f : f = [n \in 0 .. Len(queue) |->
                      IF n = 0 THEN Free(entries) ELSE Pass(f[n - 1], queue[n])]
  BY <1>3 DEF first
<1>5. QED
  BY <1>4 DEF HandOver

LEMMA HandOverKeeps ==
  ASSUME NEW entries \in Entries, queue \in Seq(Waits)
  PROVE  Passes(HandOver(entries), entries)
<1>1. PICK upTo : /\ upTo = [n \in 0 .. Len(queue) |->
                               IF n = 0 THEN Free(entries) ELSE Pass(upTo[n - 1], queue[n])]
                  /\ HandOver(entries) = upTo[Len(queue)]
  BY HandOverIs
<1>2. Len(queue) \in Nat /\ \A n \in 1 .. Len(queue) : queue[n] \in Waits
  BY LenProperties, ElementOfSeq
<1>0. \A n \in 0 .. Len(queue) :
         upTo[n] = IF n = 0 THEN Free(entries) ELSE Pass(upTo[n - 1], queue[n])
  BY <1>1
<1> DEFINE Good == {n \in Nat : n <= Len(queue) => Passes(upTo[n], entries)}
<1>3. 0 \in Good
  <2>1. upTo[0] = Free(entries)
    BY <1>0, <1>2
  <2>2. <<>> \in Seq(Waits) /\ Len(entries) \in Nat
    BY EmptySeq, LenProperties DEF Entries
  <2>3. Passes(Free(entries), entries)
    BY <2>2 DEF Passes, Free, Passing
  <2>4. QED
    BY <2>1, <2>3
<1>4. ASSUME NEW n \in Good PROVE n + 1 \in Good
  <2> SUFFICES ASSUME n + 1 <= Len(queue)
               PROVE  Passes(upTo[n + 1], entries)
    OBVIOUS
  <2>1. n + 1 \in 1 .. Len(queue) /\ n + 1 \in 0 .. Len(queue) /\ (n + 1) - 1 = n
    BY <1>2
  <2>2. upTo[n + 1] = Pass(upTo[n], queue[n + 1])
    BY <1>0, <2>1
  <2>3. Passes(upTo[n], entries) /\ queue[n + 1] \in Waits
    BY <1>2, <2>1
  <2> DEFINE s == upTo[n]
             x == queue[n + 1]
  <2>4. Passes(s, entries) /\ x \in Waits
    BY <2>3
  <2> HIDE DEF s, x, Good
  <2>5. Passes(Pass(s, x), entries)
    BY <2>4, PassKeeps
  <2>6. QED
    BY <2>2, <2>5 DEF s, x
<1>5. Good = Nat
  <2> HIDE DEF Good
  <2>1. Good \in SUBSET Nat
    BY DEF Good
  <2>2. QED
    BY <1>3, <1>4, <2>1, FromZero
<1>6. Passes(upTo[Len(queue)], entries)
  BY <1>2, <1>5
<1>7. QED
  BY <1>1, <1>6

-----------------------------------------------------------------------------
(* The ways the turn changes hands. *)

\* What a start makes of the turn, whatever of the queue is left.
Took == turn' = TRUE /\ \E t \in TaskTypes : tasks' = {t} /\ undoes' = (t.kind = "undo")

LEMMA BeginTakes ==
  ASSUME NEW x \in Starts, NEW entries \in Entries, Len(entries) <= UNDO_LIMIT,
         Begin(x, entries, {})
  PROVE  Took /\ HistoryTypes' /\ ChangeTypes'
<1>0. UNDO_LIMIT \in Nat /\ Len(entries) \in Nat
  BY LenProperties, ChangesAssumption DEF Entries
<1>1. CASE x.kind = "undo"
  <2> DEFINE t == [kind |-> "undo", ids |-> x.ids, by |-> x.by, left |-> x.ids,
                   at |-> "working", how |-> "done"]
  <2>1. tasks' = {t} /\ turn' = TRUE /\ undoes' = TRUE /\ change' = Fresh("working")
    BY <1>1 DEF Begin
  <2>2. t \in TaskTypes /\ t.kind = "undo"
    BY <1>1 DEF Starts, TaskTypes, Stage, How
  <2>3. undo' = ForgetPlans(entries, x.ids)
    BY <1>1 DEF Begin
  <2>4. undo' \in Entries /\ Len(undo') <= Len(entries) /\ Len(undo') \in Nat
    BY <2>3, WithoutFacts, LenProperties DEF ForgetPlans, Entries
  <2> HIDE DEF t
  <2>5. Took
    BY <2>1, <2>2 DEF Took
  <2>6. QED
    BY <1>0, <2>1, <2>4, <2>5 DEF HistoryTypes, ChangeTypes, Fresh
<1>2. CASE x.kind = "change"
  <2>1. PICK at \in StepStarts(x) :
          /\ tasks' = {[kind |-> "change", tidies |-> x.tidies, steps |-> x.steps,
                        ids |-> {}, plan |-> 0, at |-> at, how |-> "done"]}
          /\ change' = Fresh(at)
    BY <1>2 DEF Begin
  <2> DEFINE t == [kind |-> "change", tidies |-> x.tidies, steps |-> x.steps,
                   ids |-> {}, plan |-> 0, at |-> at, how |-> "done"]
  <2>2. turn' = TRUE /\ undoes' = FALSE /\ undo' = entries /\ tasks' = {t}
    BY <1>2, <2>1 DEF Begin
  <2>3. t \in TaskTypes /\ t.kind = "change"
    BY <1>2 DEF Starts, TaskTypes, Stage, How, StepStarts
  <2> HIDE DEF t
  <2>4. Took
    BY <2>2, <2>3 DEF Took
  <2>5. QED
    BY <1>0, <2>1, <2>2, <2>4 DEF HistoryTypes, ChangeTypes, Fresh
<1>3. QED
  BY <1>1, <1>2 DEF Starts

LEMMA ReleaseKeeps ==
  ASSUME queue \in Seq(Waits), NEW t, tasks = {t}, NEW entries \in Entries,
         Len(entries) <= UNDO_LIMIT, ReleaseTurn(t, entries)
  PROVE  queue' \in Seq(Waits) /\ HistoryTypes' /\ ChangeTypes' /\ (TurnFree \/ TurnTaken)'
<1> DEFINE s == HandOver(entries)
<1>1. Passes(s, entries)
  BY HandOverKeeps
<1>2. /\ queue' = s.queue /\ tasks \ {t} = {}
      /\ s.next # Nothing => Begin(s.next, s.undo, tasks \ {t})
      /\ s.next = Nothing => /\ turn' = FALSE /\ undoes' = FALSE /\ tasks' = tasks \ {t}
                             /\ change' = [on |-> FALSE, stop |-> FALSE] /\ undo' = s.undo
  BY DEF ReleaseTurn
<1> HIDE DEF s
<1>3. /\ s.queue \in Seq(Waits) /\ s.undo \in Entries /\ s.next \in Starts \cup {Nothing}
      /\ Len(s.undo) <= UNDO_LIMIT
  <2>1. s \in Passing /\ Len(s.undo) <= Len(entries)
    BY <1>1 DEF Passes
  <2>2. s.queue \in Seq(Waits) /\ s.undo \in Entries /\ s.next \in Starts \cup {Nothing}
    BY <2>1 DEF Passing
  <2>3. Len(s.undo) \in Nat /\ Len(entries) \in Nat /\ UNDO_LIMIT \in Nat
    BY <2>2, LenProperties, ChangesAssumption DEF Entries
  <2>4. QED
    BY <2>1, <2>2, <2>3
<1>4. CASE s.next = Nothing
  <2>1. queue' = <<>>
    BY <1>1, <1>2, <1>4 DEF Passes
  <2>2. TurnFree'
    BY <1>2, <1>4, <2>1 DEF TurnFree
  <2>3. HistoryTypes'
    BY <1>2, <1>3, <1>4 DEF HistoryTypes
  <2>4. ChangeTypes'
    <3>1. change' = [on |-> FALSE, stop |-> FALSE]
      BY <1>2, <1>4
    <3>2. QED
      BY <3>1 DEF ChangeTypes
  <2>5. QED
    BY <1>2, <1>3, <2>2, <2>3, <2>4
<1>5. CASE s.next # Nothing
  <2>1. Took /\ HistoryTypes' /\ ChangeTypes'
    BY <1>2, <1>3, <1>5, BeginTakes
  <2>2. QED
    BY <1>2, <1>3, <2>1 DEF Took, TurnTaken
<1>6. QED
  BY <1>4, <1>5

LEMMA WhenFreeKeeps ==
  ASSUME TurnInv, NEW x \in Starts, NEW entries \in Entries, Len(entries) <= UNDO_LIMIT,
         WhenFree(x, entries)
  PROVE  queue' \in Seq(Waits) /\ HistoryTypes' /\ ChangeTypes' /\ (TurnFree \/ TurnTaken)'
<1>1. CASE turn = TRUE
  <2>1. /\ queue' = Append(queue, x) /\ undo' = entries
        /\ UNCHANGED <<turn, undoes, change, tasks>>
    BY <1>1 DEF WhenFree
  <2>2. queue' \in Seq(Waits)
    BY <2>1, AppendProperties DEF TurnInv, Waits
  <2>3. TurnTaken'
    BY <1>1, <2>1 DEF TurnInv, TurnFree, TurnTaken
  <2>4. QED
    BY <2>1, <2>2, <2>3 DEF TurnInv, HistoryTypes, ChangeTypes
<1>2. CASE turn = FALSE
  <2>1. tasks = {} /\ queue' = queue /\ Begin(x, entries, tasks)
    BY <1>2 DEF WhenFree, TurnInv, TurnFree, TurnTaken
  <2>2. Took /\ HistoryTypes' /\ ChangeTypes'
    BY <2>1, BeginTakes
  <2>3. QED
    BY <2>1, <2>2 DEF Took, TurnTaken, TurnInv
<1>3. QED
  BY <1>1, <1>2 DEF TurnInv, TurnFree, TurnTaken

-----------------------------------------------------------------------------
(* The steps. *)

LEMMA IdsAreNumbers == Id \subseteq Nat
BY ChangesAssumption DEF Id

LEMMA NewestIs ==
  ASSUME NEW ids \in SUBSET Id, ids # {}
  PROVE  Newest(ids) \in ids /\ Newest(ids) \in Nat
<1> DEFINE N == MaxAsks * TidySteps
<1>1. N \in Nat
  BY ChangesAssumption
<1>2. \A i \in ids : i \in Nat /\ i <= N
  BY <1>1 DEF Id
<1> HIDE DEF N
<1> DEFINE below == {N - i : i \in ids}
<1>3. below \in SUBSET Nat /\ below # {}
  BY <1>1, <1>2
<1>4. PICK k \in below : \A m \in below : k <= m
  <2> HIDE DEF below
  <2>1. QED
    BY <1>3, Least
<1>5. PICK i \in ids : k = N - i
  BY <1>4
<1>6. \A m \in ids : N - i <= N - m
  BY <1>4, <1>5
<1>7. \A m \in ids : m <= i
  BY <1>1, <1>2, <1>6
<1>8. Newest(ids) \in ids
  BY <1>7 DEF Newest
<1>9. QED
  BY <1>2, <1>8

LEMMA KeepEntryFacts ==
  ASSUME HistoryTypes, NEW e \in SUBSET Nat
  PROVE  KeepEntry(undo, e) \in Entries /\ Len(KeepEntry(undo, e)) <= UNDO_LIMIT
<1>0. UNDO_LIMIT \in Nat /\ UNDO_LIMIT # 0
  BY ChangesAssumption
<1>1. undo \in Seq(SUBSET Nat) /\ Len(undo) \in Nat /\ Len(undo) <= UNDO_LIMIT
  BY LenProperties DEF HistoryTypes, Entries
<1> DEFINE q == IF Len(undo) >= UNDO_LIMIT THEN Tail(undo) ELSE undo
<1>2. q \in Seq(SUBSET Nat) /\ Len(q) \in Nat /\ Len(q) + 1 <= UNDO_LIMIT
  <2>1. CASE Len(undo) >= UNDO_LIMIT
    <3>1. undo # <<>>
      BY <1>0, <1>1, <2>1, EmptySeq
    <3>2. Tail(undo) \in Seq(SUBSET Nat) /\ Len(Tail(undo)) = Len(undo) - 1
      BY <1>1, <3>1, HeadTailProperties
    <3>3. Len(Tail(undo)) \in Nat
      BY <3>2, LenProperties
    <3>4. QED
      BY <1>0, <1>1, <2>1, <3>2, <3>3
  <2>2. CASE ~(Len(undo) >= UNDO_LIMIT)
    BY <1>0, <1>1, <2>2
  <2>3. QED
    BY <2>1, <2>2
<1>3. KeepEntry(undo, e) = Append(q, e)
  BY DEF KeepEntry
<1> HIDE DEF q
<1>4. Append(q, e) \in Seq(SUBSET Nat) /\ Len(Append(q, e)) = Len(q) + 1
  BY <1>2, AppendProperties
<1>5. QED
  BY <1>2, <1>3, <1>4 DEF Entries

LEMMA TheTask ==
  ASSUME TurnInv, NEW t \in tasks
  PROVE  t \in TaskTypes /\ tasks = {t} /\ turn = TRUE /\ undoes = (t.kind = "undo") /\ TurnTaken
BY DEF TurnInv, TurnFree, TurnTaken

\* The task of the change goes on.
LEMMA GoesOn ==
  ASSUME TurnInv, NEW t \in tasks, NEW u \in TaskTypes, u.kind = t.kind, Becomes(t, u),
         UNCHANGED <<turn, undoes, queue>>
  PROVE  queue' \in Seq(Waits) /\ (TurnFree \/ TurnTaken)'
<1>1. tasks' = {u}
  BY TheTask DEF Becomes
<1>2. turn' = TRUE /\ undoes' = (u.kind = "undo")
  BY TheTask
<1>3. QED
  BY <1>1, <1>2 DEF TurnTaken, TurnInv

\* The turn's part of the invariant.
TurnPart == queue \in Seq(Waits) /\ HistoryTypes /\ ChangeTypes /\ (TurnFree \/ TurnTaken)

LEMMA AnnounceKeeps ==
  ASSUME TurnInv, NEW t \in tasks, NEW ids \in SUBSET Nat, Announce(t, ids)
  PROVE  TurnPart' /\ pushed' \in Nat /\ returned' \in Nat
<1> DEFINE got == {i \in ids : state[i] = "done"}
           entries == IF got # {} THEN KeepEntry(undo, got) ELSE undo
<1>1. got \in SUBSET Nat
  OBVIOUS
<1> HIDE DEF got
<1>2. entries \in Entries /\ Len(entries) <= UNDO_LIMIT
  BY <1>1, KeepEntryFacts DEF TurnInv, HistoryTypes
<1>3. ReleaseTurn(t, entries)
  BY DEF Announce, got
<1> HIDE DEF entries
<1>4. TurnPart'
  BY <1>2, <1>3, TheTask, ReleaseKeeps DEF TurnInv, TurnPart
<1>5. pushed' \in Nat /\ returned' \in Nat
  BY DEF Announce, PushEntry, countVars, TurnInv, CountTypes
<1>6. QED
  BY <1>4, <1>5

LEMMA FreshTypes == \A at : Fresh(at) \in [on : BOOLEAN, stop : BOOLEAN]
BY DEF Fresh

LEMMA GoOnKeeps ==
  ASSUME TurnInv, NEW t \in tasks, t.kind = "change", NEW ids \in SUBSET Nat, GoOn(t, ids)
  PROVE  TurnPart' /\ pushed' \in Nat /\ returned' \in Nat
<1>1. CASE t.steps > 1
  <2>1. PICK at \in StepStarts(t) :
          /\ Becomes(t, [t EXCEPT !.ids = ids, !.steps = t.steps - 1, !.at = at])
          /\ change' = Fresh(at)
          /\ UNCHANGED <<turn, undoes, queue, historyVars, state>>
    BY <1>1 DEF GoOn
  <2> DEFINE u == [t EXCEPT !.ids = ids, !.steps = t.steps - 1, !.at = at]
  <2>2. u \in TaskTypes /\ u.kind = t.kind
    <3>1. t \in [kind : {"change"}, tidies : BOOLEAN, steps : Nat, ids : SUBSET Nat, plan : Nat,
                 at : Stage, how : How]
      BY TheTask DEF TaskTypes
    <3>2. at \in Stage /\ t.steps - 1 \in Nat
      BY <1>1, <3>1 DEF StepStarts, Stage
    <3>3. QED
      BY <3>1, <3>2 DEF TaskTypes
  <2>3. Becomes(t, u)
    BY <2>1
  <2> HIDE DEF u
  <2>4. queue' \in Seq(Waits) /\ (TurnFree \/ TurnTaken)'
    BY <2>1, <2>2, <2>3, GoesOn
  <2>5. ChangeTypes'
    BY <2>1, FreshTypes DEF ChangeTypes
  <2>6. HistoryTypes' /\ pushed' \in Nat /\ returned' \in Nat
    BY <2>1 DEF historyVars, countVars, TurnInv, HistoryTypes, CountTypes
  <2>7. QED
    BY <2>4, <2>5, <2>6 DEF TurnPart
<1>2. CASE ~(t.steps > 1)
  BY <1>2, AnnounceKeeps DEF GoOn
<1>3. QED
  BY <1>1, <1>2

LEMMA PartsSuffice ==
  ASSUME TurnPart', pushed' \in Nat, returned' \in Nat, nextId' \in Nat
  PROVE  TurnInv'
BY DEF TurnInv, TurnPart, CountTypes

LEMMA PartsStay ==
  ASSUME TurnInv
  PROVE  /\ UNCHANGED undo => HistoryTypes'
         /\ UNCHANGED change => ChangeTypes'
         /\ UNCHANGED countVars => pushed' \in Nat /\ returned' \in Nat
         /\ UNCHANGED nextId => nextId' \in Nat
         /\ UNCHANGED <<turnVars, historyVars>> => TurnPart'
         /\ UNCHANGED turnVars => queue' \in Seq(Waits) /\ ChangeTypes' /\ (TurnFree \/ TurnTaken)'
BY DEF TurnInv, HistoryTypes, ChangeTypes, CountTypes, countVars, turnVars, historyVars, TurnPart,
       TurnFree, TurnTaken

\* What else a task's step leaves of the window's state.
LEMMA TaskKeeps ==
  ASSUME TurnInv, NEW t \in tasks, NEW u \in TaskTypes, u.kind = t.kind, Becomes(t, u),
         UNCHANGED <<turn, undoes, queue, historyVars>>, ChangeTypes'
  PROVE  TurnPart' /\ pushed' \in Nat /\ returned' \in Nat
<1>1. UNCHANGED <<turn, undoes, queue>> /\ UNCHANGED undo /\ UNCHANGED countVars
  BY DEF historyVars
<1>2. QED
  BY <1>1, GoesOn, PartsStay DEF TurnPart

\* Tasks of a kind, as types.
LEMMA TaskKinds ==
  ASSUME TurnInv, NEW t \in tasks
  PROVE  /\ t.kind = "change" =>
              t \in [kind : {"change"}, tidies : BOOLEAN, steps : Nat, ids : SUBSET Nat, plan : Nat,
                     at : Stage, how : How]
         /\ t.kind = "undo" =>
              t \in [kind : {"undo"}, ids : SUBSET Nat, by : {"again", "page"}, left : SUBSET Nat,
                     at : {"working", "ended"}, how : How]
         /\ t.kind \in {"change", "undo"}
BY TheTask DEF TaskTypes

LEMMA ListKeeps ==
  ASSUME TurnInv, NEW t \in tasks, List(t)
  PROVE  TurnInv'
<1>1. t.kind = "change"
  BY TaskKinds DEF List
<1>2. t \in [kind : {"change"}, tidies : BOOLEAN, steps : Nat, ids : SUBSET Nat, plan : Nat,
             at : Stage, how : How]
  BY <1>1, TaskKinds
<1>3. nextId' \in Nat
  BY PartsStay DEF List
<1>4. CASE GoOn(t, t.ids)
  BY <1>1, <1>2, <1>3, <1>4, GoOnKeeps, PartsSuffice
<1>5. CASE ~GoOn(t, t.ids)
  <2> DEFINE u == [t EXCEPT !.at = "drafting"]
  <2>1. /\ Becomes(t, u) /\ change' = Fresh("drafting")
        /\ UNCHANGED <<turn, undoes, queue, historyVars, state>>
    BY <1>5 DEF List
  <2>2. u \in TaskTypes /\ u.kind = t.kind
    BY <1>2 DEF TaskTypes, Stage
  <2> HIDE DEF u
  <2>3. ChangeTypes'
    BY <2>1, FreshTypes DEF ChangeTypes
  <2>4. QED
    BY <1>3, <2>1, <2>2, <2>3, TaskKeeps, PartsSuffice
<1>6. QED
  BY <1>4, <1>5

LEMMA DraftKeeps ==
  ASSUME TurnInv, NEW t \in tasks, Draft(t)
  PROVE  TurnInv'
<1>1. t.kind = "change"
  BY TaskKinds DEF Draft
<1>2. t \in [kind : {"change"}, tidies : BOOLEAN, steps : Nat, ids : SUBSET Nat, plan : Nat,
             at : Stage, how : How]
  BY <1>1, TaskKinds
<1>3. nextId \in Nat
  BY DEF TurnInv, CountTypes
<1>4. CASE (GoOn(t, t.ids) \/ Announce(t, t.ids)) /\ UNCHANGED nextId
  BY <1>1, <1>2, <1>3, <1>4, GoOnKeeps, AnnounceKeeps, PartsSuffice
<1>5. CASE ~((GoOn(t, t.ids) \/ Announce(t, t.ids)) /\ UNCHANGED nextId)
  <2> DEFINE u == [t EXCEPT !.plan = nextId, !.at = "working"]
  <2>1. /\ Becomes(t, u) /\ nextId' = nextId + 1
        /\ UNCHANGED <<turn, undoes, queue, change, historyVars, state>>
    BY <1>5 DEF Draft
  <2>2. u \in TaskTypes /\ u.kind = t.kind
    BY <1>2, <1>3 DEF TaskTypes, Stage
  <2> HIDE DEF u
  <2>3. ChangeTypes' /\ nextId' \in Nat
    BY <1>3, <2>1, PartsStay
  <2>4. QED
    BY <2>1, <2>2, <2>3, TaskKeeps, PartsSuffice
<1>6. QED
  BY <1>4, <1>5

LEMMA JobKeeps ==
  ASSUME TurnInv, NEW t \in tasks, ApplyPlan(t) \/ JobFails(t) \/ UndoPlan(t)
  PROVE  TurnInv'
<1>1. /\ UNCHANGED <<turn, undoes, queue, historyVars>> /\ UNCHANGED change /\ UNCHANGED nextId
  BY DEF ApplyPlan, JobFails, UndoPlan, catalogVars
<1>2. PICK u : Becomes(t, u) /\ u \in TaskTypes /\ u.kind = t.kind
  <2>1. CASE ApplyPlan(t)
    <3>1. PICK at \in {"ended", "failing"} : Becomes(t, [t EXCEPT !.at = at, !.how = "done"])
      BY <2>1 DEF ApplyPlan
    <3>2. t \in [kind : {"change"}, tidies : BOOLEAN, steps : Nat, ids : SUBSET Nat, plan : Nat,
                 at : Stage, how : How]
      BY <2>1, TaskKinds DEF ApplyPlan
    <3>3. /\ [t EXCEPT !.at = at, !.how = "done"] \in TaskTypes
          /\ [t EXCEPT !.at = at, !.how = "done"].kind = t.kind
      BY <3>2 DEF TaskTypes, Stage, How
    <3>4. QED
      BY <3>1, <3>3
  <2>2. CASE JobFails(t)
    <3> DEFINE how == IF change.stop THEN "cancelled" ELSE "failed"
    <3>1. Becomes(t, [t EXCEPT !.at = "ended", !.how = how]) /\ how \in How
      BY <2>2 DEF JobFails, How
    <3> HIDE DEF how
    <3>2. t \in [kind : {"change"}, tidies : BOOLEAN, steps : Nat, ids : SUBSET Nat, plan : Nat,
                 at : Stage, how : How]
      BY <2>2, TaskKinds DEF JobFails
    <3>3. /\ [t EXCEPT !.at = "ended", !.how = how] \in TaskTypes
          /\ [t EXCEPT !.at = "ended", !.how = how].kind = t.kind
      BY <3>1, <3>2 DEF TaskTypes, Stage
    <3>4. QED
      BY <3>1, <3>3
  <2>3. CASE UndoPlan(t)
    <3>1. PICK how \in {"done", "unfinished"} : Becomes(t, [t EXCEPT !.at = "ended", !.how = how])
      BY <2>3 DEF UndoPlan
    <3>2. t \in [kind : {"undo"}, ids : SUBSET Nat, by : {"again", "page"}, left : SUBSET Nat,
                 at : {"working", "ended"}, how : How]
      BY <2>3, TaskKinds DEF UndoPlan
    <3>3. /\ [t EXCEPT !.at = "ended", !.how = how] \in TaskTypes
          /\ [t EXCEPT !.at = "ended", !.how = how].kind = t.kind
      BY <3>2 DEF TaskTypes, How
    <3>4. QED
      BY <3>1, <3>3
  <2>4. QED
    BY <2>1, <2>2, <2>3
<1>3. ChangeTypes' /\ nextId' \in Nat
  BY <1>1, PartsStay
<1>4. QED
  BY <1>1, <1>2, <1>3, TaskKeeps, PartsSuffice

LEMMA ReportKeeps ==
  ASSUME TurnInv, NEW t \in tasks, Report(t)
  PROVE  TurnInv'
<1>1. t \in [kind : {"change"}, tidies : BOOLEAN, steps : Nat, ids : SUBSET Nat, plan : Nat,
             at : Stage, how : How]
  BY TaskKinds DEF Report
<1>2. t.kind = "change" /\ t.ids \in SUBSET Nat /\ t.ids \cup {t.plan} \in SUBSET Nat
  BY <1>1
<1>3. nextId' \in Nat
  BY PartsStay DEF Report
<1>4. Announce(t, t.ids) \/ GoOn(t, t.ids \cup {t.plan})
  BY DEF Report
<1>5. QED
  BY <1>2, <1>3, <1>4, AnnounceKeeps, GoOnKeeps, PartsSuffice

LEMMA ReportUndoKeeps ==
  ASSUME TurnInv, NEW t \in tasks, ReportUndo(t)
  PROVE  TurnInv'
<1>1. t \in [kind : {"undo"}, ids : SUBSET Nat, by : {"again", "page"}, left : SUBSET Nat,
             at : {"working", "ended"}, how : How]
  BY TaskKinds DEF ReportUndo
<1>2. nextId' \in Nat
  BY PartsStay DEF ReportUndo
<1>3. CASE UNCHANGED countVars /\ ReleaseTurn(t, undo)
  <2>1. TurnPart'
    BY <1>3, TheTask, ReleaseKeeps DEF TurnInv, TurnPart, HistoryTypes
  <2>2. QED
    BY <1>2, <1>3, <2>1, PartsStay, PartsSuffice
<1>4. CASE ReturnEntry(t.ids) /\ ReleaseTurn(t, KeepEntry(undo, t.ids))
  <2>1. KeepEntry(undo, t.ids) \in Entries /\ Len(KeepEntry(undo, t.ids)) <= UNDO_LIMIT
    BY <1>1, KeepEntryFacts DEF TurnInv
  <2>2. TurnPart'
    BY <1>4, <2>1, TheTask, ReleaseKeeps DEF TurnInv, TurnPart
  <2>3. pushed' \in Nat /\ returned' \in Nat
    BY <1>4 DEF ReturnEntry, TurnInv, CountTypes
  <2>4. QED
    BY <1>2, <2>2, <2>3, PartsSuffice
<1>5. CASE \E rest \in SUBSET Nat :
             /\ Becomes(t, [t EXCEPT !.left = rest, !.at = "working"])
             /\ change' = Fresh("working")
             /\ UNCHANGED <<turn, undoes, queue, historyVars, state>>
  <2>1. PICK rest \in SUBSET Nat :
             /\ Becomes(t, [t EXCEPT !.left = rest, !.at = "working"])
             /\ change' = Fresh("working")
             /\ UNCHANGED <<turn, undoes, queue, historyVars, state>>
    BY <1>5
  <2> DEFINE u == [t EXCEPT !.left = rest, !.at = "working"]
  <2>2. Becomes(t, u) /\ u \in TaskTypes /\ u.kind = t.kind
    BY <1>1, <2>1 DEF TaskTypes
  <2> HIDE DEF u
  <2>3. ChangeTypes'
    BY <2>1, FreshTypes DEF ChangeTypes
  <2>4. QED
    BY <1>2, <2>1, <2>2, <2>3, TaskKeeps, PartsSuffice
<1>6. t.left \ {Newest(t.left)} \in SUBSET Nat
  BY <1>1
<1>7. QED
  BY <1>3, <1>4, <1>5, <1>6 DEF ReportUndo

LEMMA WhenFreePart ==
  ASSUME TurnInv, NEW x \in Starts, NEW entries \in Entries, Len(entries) <= UNDO_LIMIT,
         WhenFree(x, entries)
  PROVE  TurnPart'
BY WhenFreeKeeps DEF TurnPart

LEMMA UndoIsAStart ==
  ASSUME NEW ids \in SUBSET Nat, NEW by \in {"again", "page"}
  PROVE  Undo(ids, by) \in Starts
BY DEF Undo, Starts

LEMMA PressChangeKeeps ==
  ASSUME TurnInv, NEW tidies \in BOOLEAN, PressChange(tidies)
  PROVE  TurnInv'
<1>1. Change(tidies) \in Starts
  BY ChangesAssumption DEF Change, Starts
<1>2. TurnPart'
  BY <1>1, WhenFreePart DEF PressChange, TurnInv, HistoryTypes
<1>3. QED
  BY <1>2, PartsStay, PartsSuffice DEF PressChange, catalogVars

LEMMA PressUndoKeeps ==
  ASSUME TurnInv, NEW ids \in {{i} : i \in Id} \cup Range(undo) \cup {Journal}, PressUndo(ids)
  PROVE  TurnInv'
<1>1. ids \in SUBSET Nat
  <2>1. CASE ids \in {{i} : i \in Id} \cup {Journal}
    BY <2>1, IdsAreNumbers DEF Journal
  <2>2. CASE ids \in Range(undo)
    <3>1. \A i \in DOMAIN undo : undo[i] \in SUBSET Nat
      BY LenProperties, ElementOfSeq DEF TurnInv, HistoryTypes, Entries
    <3>2. QED
      BY <2>2, <3>1 DEF Range
  <2>3. QED
    BY <2>1, <2>2
<1>2. Undo(ids, "page") \in Starts
  BY <1>1, UndoIsAStart
<1>3. TurnPart'
  BY <1>2, WhenFreePart DEF PressUndo, TurnInv, HistoryTypes
<1>4. QED
  BY <1>3, PartsStay, PartsSuffice DEF PressUndo, catalogVars

LEMMA WaitKeeps ==
  ASSUME TurnInv, HoldingMayBeNeeded, WaitInTurn
  PROVE  TurnPart'
<1>1. TurnTaken
  BY DEF HoldingMayBeNeeded, TurnInv, TurnFree
<1> DEFINE x == [kind |-> "again", pushed |-> pushed, returned |-> returned,
                 behind |-> BehindAChange]
<1>2. x \in Waits
  <2>1. BehindAChange \in BOOLEAN
    BY DEF BehindAChange
  <2> HIDE DEF BehindAChange
  <2>2. QED
    BY <2>1 DEF Waits, TurnInv, CountTypes
<1>3. queue' = Append(queue, x) /\ UNCHANGED <<turn, undoes, change, tasks, undo, state>>
  BY DEF WaitInTurn
<1> HIDE DEF x
<1>4. queue' \in Seq(Waits)
  BY <1>2, <1>3, AppendProperties DEF TurnInv
<1>5. TurnTaken'
  BY <1>1, <1>3 DEF TurnTaken
<1>6. QED
  BY <1>3, <1>4, <1>5, PartsStay DEF TurnPart

LEMMA TakeNewestKeeps ==
  ASSUME TurnInv, undo # <<>>, TakeNewest
  PROVE  TurnPart'
<1>1. /\ Front(undo) \in Entries /\ Len(Front(undo)) = Len(undo) - 1 /\ Last(undo) \in SUBSET Nat
      /\ undo \in Seq(SUBSET Nat)
  BY FrontFacts DEF TurnInv, HistoryTypes, Entries
<1>2. Front(undo) \in Entries /\ Len(Front(undo)) <= UNDO_LIMIT
  <2>1. Len(undo) \in Nat /\ Len(undo) <= UNDO_LIMIT /\ UNDO_LIMIT \in Nat
    BY <1>1, LenProperties, ChangesAssumption DEF TurnInv, HistoryTypes
  <2>2. QED
    BY <1>1, <2>1
<1>3. CASE undo' = Front(undo) /\ UNCHANGED turnVars
  BY <1>2, <1>3, PartsStay DEF TurnPart, HistoryTypes
<1>4. CASE WhenFree(Undo(Last(undo), "again"), Front(undo))
  BY <1>1, <1>2, <1>4, UndoIsAStart, WhenFreePart
<1>5. QED
  BY <1>3, <1>4 DEF TakeNewest

LEMMA UndoLastKeeps ==
  ASSUME TurnInv, UndoLast
  PROVE  TurnInv'
<1>1. TurnPart'
  <2>1. CASE UNCHANGED <<turnVars, undo, state>>
    BY <2>1, PartsStay DEF TurnPart
  <2>2. QED
    BY <2>1, WaitKeeps, TakeNewestKeeps DEF UndoLast
<1>2. QED
  BY <1>1, PartsStay, PartsSuffice DEF UndoLast

LEMMA ReadJournalKeeps ==
  ASSUME TurnInv, ReadJournal
  PROVE  TurnInv'
<1>1. TurnPart'
  <2>1. CASE HoldingMayBeNeeded /\ WaitInTurn
    BY <2>1, WaitKeeps
  <2>2. CASE UNCHANGED <<turnVars, undo>>
    BY <2>2, PartsStay DEF TurnPart
  <2>3. CASE Journal # {} /\ WhenFree(Undo({Newest(Journal)}, "again"), undo)
    <3>1. Newest(Journal) \in Nat
      BY <2>3, NewestIs DEF Journal
    <3>2. Undo({Newest(Journal)}, "again") \in Starts
      BY <3>1, UndoIsAStart
    <3>3. QED
      BY <2>3, <3>2, WhenFreePart DEF TurnInv, HistoryTypes
  <2>4. QED
    BY <2>1, <2>2, <2>3 DEF ReadJournal
<1>2. QED
  BY <1>1, PartsStay, PartsSuffice DEF ReadJournal

LEMMA DecisionKeeps ==
  ASSUME TurnInv, Dismiss \/ \E i \in Id : Dismissed(i) \/ Restore(i)
  PROVE  TurnInv'
<1>1. CASE Dismiss
  <2>1. UNCHANGED <<turnVars, historyVars>> /\ nextId' = nextId + 1
    BY <1>1 DEF Dismiss
  <2>2. nextId' \in Nat
    BY <2>1 DEF TurnInv, CountTypes
  <2>3. TurnPart' /\ UNCHANGED countVars
    BY <2>1, PartsStay DEF historyVars
  <2>4. QED
    BY <2>2, <2>3, PartsStay, PartsSuffice
<1>2. ASSUME NEW i \in Id, Dismissed(i) PROVE TurnInv'
  <2>1. UNCHANGED turnVars /\ UNCHANGED nextId
    BY <1>2 DEF Dismissed
  <2>2. CASE undo' = KeepEntry(undo, {i}) /\ PushEntry({i})
    <3>1. {i} \in SUBSET Nat
      BY IdsAreNumbers
    <3>2. HistoryTypes'
      BY <2>2, <3>1, KeepEntryFacts DEF TurnInv, HistoryTypes
    <3>3. pushed' \in Nat /\ returned' \in Nat
      BY <2>2 DEF PushEntry, TurnInv, CountTypes
    <3>4. QED
      BY <2>1, <3>2, <3>3, PartsStay, PartsSuffice DEF TurnPart
  <2>3. CASE UNCHANGED historyVars
    <3>1. UNCHANGED <<turnVars, historyVars>> /\ UNCHANGED countVars
      BY <2>1, <2>3 DEF historyVars
    <3>2. QED
      BY <2>1, <3>1, PartsStay, PartsSuffice
  <2>4. QED
    BY <1>2, <2>2, <2>3 DEF Dismissed
<1>3. ASSUME NEW i \in Id, Restore(i) PROVE TurnInv'
  <2>1. UNCHANGED turnVars /\ UNCHANGED countVars /\ UNCHANGED nextId
        /\ undo' = Without(undo, {{i}})
    BY <1>3 DEF Restore
  <2>2. HistoryTypes'
    <3>1. undo \in Seq(SUBSET Nat) /\ Len(undo) \in Nat /\ UNDO_LIMIT \in Nat
      BY LenProperties, ChangesAssumption DEF TurnInv, HistoryTypes, Entries
    <3>2. undo' \in Seq(SUBSET Nat) /\ Len(undo') <= Len(undo) /\ Len(undo') \in Nat
      BY <2>1, <3>1, WithoutFacts, LenProperties
    <3>3. QED
      BY <3>1, <3>2 DEF TurnInv, HistoryTypes, Entries
  <2>3. QED
    BY <2>1, <2>2, PartsStay, PartsSuffice DEF TurnPart
<1>4. QED
  BY <1>1, <1>2, <1>3

LEMMA StopKeeps ==
  ASSUME TurnInv, StopChange
  PROVE  TurnInv'
<1>1. /\ change' = [change EXCEPT !.stop = TRUE] /\ change.on
      /\ UNCHANGED <<turn, undoes, queue, tasks, historyVars, nextId>>
  BY DEF StopChange, catalogVars
<1>2. ChangeTypes'
  BY <1>1 DEF TurnInv, ChangeTypes
<1>3. TurnTaken'
  BY <1>1 DEF TurnInv, TurnFree, TurnTaken
<1>4. UNCHANGED undo /\ UNCHANGED countVars /\ UNCHANGED queue
  BY <1>1 DEF historyVars
<1>5. QED
  BY <1>1, <1>2, <1>3, <1>4, PartsStay, PartsSuffice DEF TurnPart, TurnInv

LEMMA RemoveAtFacts ==
  ASSUME NEW S, NEW q \in Seq(S), NEW i \in DOMAIN q
  PROVE  RemoveAt(q, i) \in Seq(S)
<1>1. Len(q) \in Nat /\ i \in 1 .. Len(q) /\ \A k \in 1 .. Len(q) : q[k] \in S
  BY LenProperties, ElementOfSeq
<1> DEFINE N == Len(q)
<1>2. N \in Int /\ i - 1 \in Int /\ i + 1 \in Int
  BY <1>1
<1>3. (\A k \in 1 .. i - 1 : q[k] \in S) /\ (\A k \in i + 1 .. N : q[k] \in S)
  BY <1>1
<1> DEFINE a == i - 1
           b == i + 1
<1> HIDE DEF a, b, N
<1>4. a \in Int /\ b \in Int /\ N \in Int
      /\ (\A k \in 1 .. a : q[k] \in S) /\ (\A k \in b .. N : q[k] \in S)
  BY <1>2, <1>3 DEF a, b
<1>5. SubSeq(q, 1, a) \in Seq(S) /\ SubSeq(q, b, N) \in Seq(S)
  BY <1>4, SubSeqProperties
<1>6. SubSeq(q, 1, a) \o SubSeq(q, b, N) \in Seq(S)
  BY <1>5, ConcatProperties
<1>7. QED
  BY <1>6 DEF RemoveAt, a, b, N

LEMMA DropKeeps ==
  ASSUME TurnInv, NEW i \in DOMAIN queue, DropQueued(i)
  PROVE  TurnInv'
<1>1. /\ queue' = RemoveAt(queue, i)
      /\ UNCHANGED <<turn, undoes, change, tasks, historyVars, nextId>>
  BY DEF DropQueued, catalogVars
<1>2. queue # <<>>
  BY EmptySeq, LenProperties
<1>3. TurnTaken
  BY <1>2 DEF TurnInv, TurnFree
<1>4. TurnTaken' /\ UNCHANGED undo /\ UNCHANGED countVars
  BY <1>1, <1>3 DEF TurnTaken, historyVars
<1>5. queue' \in Seq(Waits)
  BY <1>1, RemoveAtFacts DEF TurnInv
<1>6. QED
  BY <1>1, <1>4, <1>5, PartsStay, PartsSuffice DEF TurnPart

LEMMA AgainKeeps ==
  ASSUME TurnInv, PressAgain \/ Later
  PROVE  TurnInv'
<1>1. CASE UndoLast
  BY <1>1, UndoLastKeeps
<1>2. CASE ~UndoLast
  <2>1. UNCHANGED <<turnVars, historyVars, catalogVars>>
    BY <1>2 DEF PressAgain, Later
  <2>2. UNCHANGED <<turnVars, historyVars>> /\ UNCHANGED countVars /\ UNCHANGED nextId
    BY <2>1 DEF historyVars, catalogVars
  <2>3. QED
    BY <2>2, PartsStay, PartsSuffice
<1>3. QED
  BY <1>1, <1>2

LEMMA TurnInvStep ==
  ASSUME TurnInv, [Next]_vars
  PROVE  TurnInv'
<1>1. CASE Owner
  BY <1>1, PressChangeKeeps, PressUndoKeeps, AgainKeeps, DecisionKeeps, StopKeeps, DropKeeps
     DEF Owner
<1>2. CASE Runs
  BY <1>2, ListKeeps, DraftKeeps, JobKeeps, ReportKeeps, ReportUndoKeeps, AgainKeeps,
     ReadJournalKeeps, DecisionKeeps DEF Runs
<1>3. CASE UNCHANGED vars
  <2>1. UNCHANGED <<turnVars, historyVars>> /\ UNCHANGED countVars /\ UNCHANGED nextId
    BY <1>3 DEF vars, historyVars, catalogVars
  <2>2. QED
    BY <2>1, PartsStay, PartsSuffice
<1>4. QED
  BY <1>1, <1>2, <1>3 DEF Next

LEMMA TurnInvInit == Init => TurnInv
<1> SUFFICES ASSUME Init PROVE TurnInv
  OBVIOUS
<1>1. <<>> \in Seq(Waits) /\ <<>> \in Seq(SUBSET Nat) /\ Len(<<>>) = 0
  BY EmptySeq
<1>2. queue = <<>> /\ undo = <<>> /\ turn = FALSE /\ tasks = {}
      /\ change = [on |-> FALSE, stop |-> FALSE] /\ pushed = 0 /\ returned = 0 /\ nextId = 1
  BY DEF Init
<1>3. HistoryTypes
  BY <1>1, <1>2, ChangesAssumption DEF HistoryTypes, Entries
<1>4. TurnFree /\ ChangeTypes /\ CountTypes
  BY <1>2 DEF TurnFree, ChangeTypes, CountTypes
<1>5. QED
  BY <1>1, <1>2, <1>3, <1>4 DEF TurnInv

LEMMA HeldFromInv ==
  ASSUME TurnInv
  PROVE  TurnIsHeld
<1>1. CASE TurnFree
  <2>1. Cardinality(tasks) = 0
    BY <1>1, FS_EmptySet DEF TurnFree
  <2>2. QED
    BY <1>1, <2>1 DEF TurnFree, TurnIsHeld, TurnInv, HistoryTypes
<1>2. CASE TurnTaken
  <2>1. PICK t \in TaskTypes : tasks = {t} /\ undoes = (t.kind = "undo")
    BY <1>2 DEF TurnTaken
  <2>2. Cardinality(tasks) = 1
    BY <2>1, FS_Singleton
  <2>3. \A u \in tasks : undoes <=> u.kind = "undo"
    BY <2>1
  <2>4. /\ Cardinality(tasks) <= 1 /\ turn /\ tasks # {} /\ Len(undo) <= UNDO_LIMIT
    BY <1>2, <2>1, <2>2 DEF TurnTaken, TurnInv, HistoryTypes
  <2>5. QED
    BY <2>3, <2>4 DEF TurnIsHeld
<1>3. QED
  BY <1>1, <1>2 DEF TurnInv

-----------------------------------------------------------------------------
(* The turn's theorem. *)

\* One change at a time has the turn, and a free turn is not waited for, however long the queue and
\* the history, and whatever a Cmd-Z that has waited finds, drops or gives up (release_turn).
THEOREM TurnIsAlwaysHeld == Spec => []TurnIsHeld
<1>1. Spec => []TurnInv
  BY TurnInvInit, TurnInvStep, PTL DEF Spec
<1>2. QED
  BY <1>1, HeldFromInv, PTL

-----------------------------------------------------------------------------
(* What Cmd-Z takes. *)

\* What Cmd-Z should still know of, in the history or not.
Known(i, st, kn, ls) ==
    /\ st[i] \in {"done", "marked"}
    /\ kn[i] \cap ls = {} /\ \A k \in kn[i] : st[k] # "undone"

\* What came onto the history as one, and is one entry of it.
Entry(e, kn, sp) ==
    /\ e # {} /\ e \subseteq Id
    /\ \A i, j \in e : sp[i] > 0 /\ sp[j] = sp[i] /\ j \in kn[i]

\* The history is in the order in which its entries came.
Sorted(h, kn, sp) ==
    /\ \A e \in Range(h) : Entry(e, kn, sp)
    /\ \A m, n \in DOMAIN h : m < n => \A i \in h[m], j \in h[n] : sp[i] < sp[j]

\* Of what came onto the history, what Cmd-Z should still know of is in an entry, or has been in one
\* with what is in an entry now that came no earlier, or with what an Undo takes back (gone).
Covers(es, gone, st, kn, sp, ls) ==
    \A i \in Id : sp[i] > 0 /\ Known(i, st, kn, ls) =>
        \/ kn[i] \cap gone # {}
        \/ \E e \in es : kn[i] \cap e # {} /\ \A j \in e : sp[i] <= sp[j]

\* What shared an entry is of one class.
Classes(st, kn, sp) ==
    \A i \in Id :
        /\ kn[i] \subseteq Id /\ i \in kn[i] /\ \A j \in kn[i] : kn[j] = kn[i]
        /\ sp[i] = 0 \/ st[i] \in {"coming", "marked", "unmarked"} => kn[i] = {i}

\* Nothing newer than these is there to be taken back.
TopOf(ids, es, st, kn, sp, ls) ==
    /\ \A i, j \in ids : sp[i] = sp[j]
    /\ \A i \in Id : Known(i, st, kn, ls) \/ (\E e \in es : i \in e) => \A j \in ids : sp[i] <= sp[j]

-----------------------------------------------------------------------------
(* Sequences as sets. *)

LEMMA AppendRange ==
  ASSUME NEW S, NEW q \in Seq(S), NEW e \in S
  PROVE  Range(Append(q, e)) = Range(q) \cup {e}
<1>1. Len(q) \in Nat /\ DOMAIN q = 1 .. Len(q)
  BY LenProperties
<1>2. /\ Append(q, e) \in Seq(S) /\ Len(Append(q, e)) = Len(q) + 1
      /\ \A i \in 1 .. Len(q) : Append(q, e)[i] = q[i]
      /\ Append(q, e)[Len(q) + 1] = e
  BY AppendProperties
<1>3. DOMAIN Append(q, e) = 1 .. (Len(q) + 1)
  BY <1>2, LenProperties
<1> DEFINE a == Append(q, e)
           N == Len(q)
<1> HIDE DEF a, N
<1>4. /\ N \in Nat /\ DOMAIN q = 1 .. N /\ DOMAIN a = 1 .. (N + 1)
      /\ \A i \in 1 .. N : a[i] = q[i]
      /\ a[N + 1] = e
  BY <1>1, <1>2, <1>3 DEF a, N
<1>5. Range(a) = Range(q) \cup {e}
  BY <1>4 DEF Range
<1>6. QED
  BY <1>5 DEF a

LEMMA AppendSorted ==
  ASSUME NEW kn, NEW sp, NEW S, NEW q \in Seq(S), NEW e \in S,
         Sorted(q, kn, sp), Entry(e, kn, sp),
         \A d \in Range(q) : \A i \in d, j \in e : sp[i] < sp[j]
  PROVE  Sorted(Append(q, e), kn, sp)
<1>1. Len(q) \in Nat /\ DOMAIN q = 1 .. Len(q)
  BY LenProperties
<1>2. /\ Append(q, e) \in Seq(S) /\ Len(Append(q, e)) = Len(q) + 1
      /\ \A i \in 1 .. Len(q) : Append(q, e)[i] = q[i]
      /\ Append(q, e)[Len(q) + 1] = e
  BY AppendProperties
<1>3. DOMAIN Append(q, e) = 1 .. (Len(q) + 1)
  BY <1>2, LenProperties
<1>4. \A d \in Range(Append(q, e)) : Entry(d, kn, sp)
  BY AppendRange DEF Sorted
<1> DEFINE a == Append(q, e)
           N == Len(q)
<1> HIDE DEF a, N
<1>5. /\ N \in Nat /\ DOMAIN q = 1 .. N /\ DOMAIN a = 1 .. (N + 1)
      /\ \A i \in 1 .. N : a[i] = q[i]
      /\ a[N + 1] = e
  BY <1>1, <1>2, <1>3 DEF a, N
<1>6. ASSUME NEW m \in DOMAIN a, NEW n \in DOMAIN a, m < n
      PROVE  \A i \in a[m], j \in a[n] : sp[i] < sp[j]
  <2>1. m \in 1 .. N /\ m \in DOMAIN q /\ a[m] = q[m] /\ q[m] \in Range(q)
    BY <1>5, <1>6 DEF Range
  <2>2. CASE n = N + 1
    BY <1>5, <2>1, <2>2
  <2>3. CASE n # N + 1
    <3>1. n \in DOMAIN q /\ a[n] = q[n]
      BY <1>5, <2>3
    <3>2. QED
      BY <1>6, <2>1, <3>1 DEF Sorted
  <2>4. QED
    BY <2>2, <2>3
<1>7. QED
  BY <1>4, <1>6 DEF Sorted, a

LEMMA TailSorted ==
  ASSUME NEW kn, NEW sp, NEW S, NEW q \in Seq(S), q # <<>>, Sorted(q, kn, sp)
  PROVE  Sorted(Tail(q), kn, sp) /\ Range(q) = Range(Tail(q)) \cup {Head(q)}
<1>1. /\ Len(q) \in Nat /\ DOMAIN q = 1 .. Len(q) /\ Len(q) # 0
  BY LenProperties, EmptySeq
<1>2. /\ Tail(q) \in Seq(S) /\ Len(Tail(q)) = Len(q) - 1
      /\ \A i \in 1 .. Len(Tail(q)) : Tail(q)[i] = q[i + 1]
  BY HeadTailProperties
<1>3. DOMAIN Tail(q) = 1 .. Len(q) - 1
  BY <1>2, LenProperties
<1>4. Head(q) = q[1]
  BY SMT
<1> DEFINE a == Tail(q)
           N == Len(q)
           hd == Head(q)
<1> HIDE DEF a, N, hd
<1>5. /\ N \in Nat /\ N # 0 /\ DOMAIN q = 1 .. N /\ DOMAIN a = 1 .. N - 1
      /\ \A i \in 1 .. N - 1 : a[i] = q[i + 1]
      /\ hd = q[1]
  BY <1>1, <1>2, <1>3, <1>4 DEF a, N, hd
<1>6. Range(q) = Range(a) \cup {hd}
  <2>1. ASSUME NEW i \in DOMAIN q PROVE q[i] \in Range(a) \cup {hd}
    <3>1. CASE i = 1
      BY <1>5, <3>1
    <3>2. CASE i # 1
      <4>1. i - 1 \in 1 .. N - 1 /\ (i - 1) + 1 = i
        BY <1>5, <3>2
      <4>2. a[i - 1] = q[i]
        BY <1>5, <4>1
      <4>3. QED
        BY <1>5, <4>1, <4>2 DEF Range
    <3>3. QED
      BY <3>1, <3>2
  <2>2. ASSUME NEW i \in DOMAIN a PROVE a[i] \in Range(q)
    <3>1. i + 1 \in DOMAIN q /\ a[i] = q[i + 1]
      BY <1>5
    <3>2. QED
      BY <3>1 DEF Range
  <2>3. hd \in Range(q)
    BY <1>5 DEF Range
  <2>4. QED
    BY <2>1, <2>2, <2>3 DEF Range
<1>7. ASSUME NEW m \in DOMAIN a, NEW n \in DOMAIN a, m < n
      PROVE  \A i \in a[m], j \in a[n] : sp[i] < sp[j]
  <2>1. m + 1 \in DOMAIN q /\ n + 1 \in DOMAIN q /\ m + 1 < n + 1 /\ a[m] = q[m + 1] /\ a[n] = q[n + 1]
    BY <1>5, <1>7
  <2>2. QED
    BY <2>1 DEF Sorted
<1>8. Sorted(a, kn, sp)
  BY <1>6, <1>7 DEF Sorted
<1>9. QED
  BY <1>6, <1>8 DEF a, hd

LEMMA FrontSorted ==
  ASSUME NEW kn, NEW sp, NEW S, NEW q \in Seq(S), q # <<>>, Sorted(q, kn, sp)
  PROVE  /\ Sorted(Front(q), kn, sp) /\ Range(q) = Range(Front(q)) \cup {Last(q)}
         /\ \A e \in Range(Front(q)) : \A i \in e, j \in Last(q) : sp[i] < sp[j]
<1>1. /\ Len(q) \in Nat /\ DOMAIN q = 1 .. Len(q) /\ Len(q) # 0
      /\ \A i \in 1 .. Len(q) : q[i] \in S
  BY LenProperties, EmptySeq, ElementOfSeq
<1>2. Front(q) \in Seq(S) /\ Len(Front(q)) = Len(q) - 1
  BY FrontFacts
<1>3. \A i \in 1 .. Len(q) - 1 : Front(q)[i] = q[i]
  <2>1. 1 \in Int /\ Len(q) - 1 \in Int /\ \A i \in 1 .. Len(q) - 1 : q[i] \in S
    BY <1>1
  <2>2. \A i \in 1 .. Len(Front(q)) : Front(q)[i] = q[1 + i - 1]
    BY <2>1, SubSeqProperties DEF Front
  <2>3. QED
    BY <1>1, <1>2, <2>2
<1>4. DOMAIN Front(q) = 1 .. Len(q) - 1
  BY <1>2, LenProperties
<1>5. Last(q) = q[Len(q)]
  BY DEF Last
<1> DEFINE a == Front(q)
           N == Len(q)
           l == Last(q)
<1> HIDE DEF a, N, l
<1>6. /\ N \in Nat /\ N # 0 /\ DOMAIN q = 1 .. N /\ DOMAIN a = 1 .. N - 1
      /\ \A i \in 1 .. N - 1 : a[i] = q[i]
      /\ l = q[N]
  BY <1>1, <1>2, <1>3, <1>4, <1>5 DEF a, N, l
<1>7. Range(q) = Range(a) \cup {l}
  <2>1. ASSUME NEW i \in DOMAIN q PROVE q[i] \in Range(a) \cup {l}
    <3>1. CASE i = N
      BY <1>6, <3>1
    <3>2. CASE i # N
      <4>1. i \in DOMAIN a /\ a[i] = q[i]
        BY <1>6, <3>2
      <4>2. QED
        BY <4>1 DEF Range
    <3>3. QED
      BY <3>1, <3>2
  <2>2. ASSUME NEW i \in DOMAIN a PROVE a[i] \in Range(q)
    <3>1. i \in DOMAIN q /\ a[i] = q[i]
      BY <1>6
    <3>2. QED
      BY <3>1 DEF Range
  <2>3. l \in Range(q)
    BY <1>6 DEF Range
  <2>4. QED
    BY <2>1, <2>2, <2>3 DEF Range
<1>8. ASSUME NEW m \in DOMAIN a, NEW n \in DOMAIN a, m < n
      PROVE  \A i \in a[m], j \in a[n] : sp[i] < sp[j]
  <2>1. m \in DOMAIN q /\ n \in DOMAIN q /\ a[m] = q[m] /\ a[n] = q[n]
    BY <1>6
  <2>2. QED
    BY <1>8, <2>1 DEF Sorted
<1>9. Sorted(a, kn, sp)
  BY <1>7, <1>8 DEF Sorted
<1>10. ASSUME NEW e \in Range(a) PROVE \A i \in e, j \in l : sp[i] < sp[j]
  <2>1. PICK m \in DOMAIN a : e = a[m]
    BY DEF Range
  <2>2. m \in DOMAIN q /\ N \in DOMAIN q /\ m < N /\ e = q[m]
    BY <1>6, <2>1
  <2>3. QED
    BY <1>6, <2>2 DEF Sorted
<1>11. QED
  BY <1>7, <1>9, <1>10 DEF a, l

LEMMA WithoutSorted ==
  ASSUME NEW kn, NEW sp, NEW S, NEW q \in Seq(S), NEW gone, Sorted(q, kn, sp)
  PROVE  /\ Sorted(Without(q, gone), kn, sp)
         /\ Range(Without(q, gone)) = Range(q) \ gone
<1>1. PICK upTo : /\ upTo = [n \in 0 .. Len(q) |->
                               IF n = 0 THEN <<>>
                               ELSE IF q[n] \in gone THEN upTo[n - 1]
                               ELSE Append(upTo[n - 1], q[n])]
                  /\ Without(q, gone) = upTo[Len(q)]
  BY WithoutIs
<1>2. Len(q) \in Nat /\ DOMAIN q = 1 .. Len(q) /\ \A n \in 1 .. Len(q) : q[n] \in S
  BY LenProperties, ElementOfSeq
<1>0. \A n \in 0 .. Len(q) :
         upTo[n] = IF n = 0 THEN <<>>
                   ELSE IF q[n] \in gone THEN upTo[n - 1] ELSE Append(upTo[n - 1], q[n])
  BY <1>1
<1> DEFINE First(n) == {q[k] : k \in 1 .. n} \ gone
           Fine(n) == upTo[n] \in Seq(S) /\ Sorted(upTo[n], kn, sp) /\ Range(upTo[n]) = First(n)
           Good == {n \in Nat : n <= Len(q) => Fine(n)}
<1>3. 0 \in Good
  <2>1. upTo[0] = <<>>
    BY <1>0, <1>2
  <2>2. <<>> \in Seq(S) /\ DOMAIN <<>> = {}
    BY EmptySeq
  <2>3. Range(<<>>) = {} /\ Sorted(<<>>, kn, sp)
    BY <2>2 DEF Range, Sorted
  <2>4. First(0) = {}
    OBVIOUS
  <2>5. QED
    BY <2>1, <2>2, <2>3, <2>4
<1>4. ASSUME NEW n \in Good PROVE n + 1 \in Good
  <2> SUFFICES ASSUME n + 1 <= Len(q)
               PROVE  Fine(n + 1)
    OBVIOUS
  <2>1. n + 1 \in 1 .. Len(q) /\ n + 1 \in 0 .. Len(q) /\ (n + 1) - 1 = n
    BY <1>2
  <2>2. upTo[n + 1] = IF q[n + 1] \in gone THEN upTo[n] ELSE Append(upTo[n], q[n + 1])
    BY <1>0, <2>1
  <2>3. Fine(n)
    BY <2>1
  <2>4. q[n + 1] \in S /\ q[n + 1] \in Range(q)
    BY <1>2, <2>1 DEF Range
  <2>5. First(n + 1) = First(n) \cup ({q[n + 1]} \ gone)
    <3>1. 1 .. (n + 1) = (1 .. n) \cup {n + 1}
      OBVIOUS
    <3>2. QED
      BY <3>1
  <2>6. CASE q[n + 1] \in gone
    BY <2>2, <2>3, <2>5, <2>6
  <2>7. CASE q[n + 1] \notin gone
    <3>1. Entry(q[n + 1], kn, sp)
      BY <2>4 DEF Sorted
    <3>2. \A d \in First(n) : \A i \in d, j \in q[n + 1] : sp[i] < sp[j]
      <4>1. ASSUME NEW k \in 1 .. n PROVE \A i \in q[k], j \in q[n + 1] : sp[i] < sp[j]
        <5>1. k \in DOMAIN q /\ n + 1 \in DOMAIN q /\ k < n + 1
          BY <1>2, <2>1
        <5>2. QED
          BY <5>1 DEF Sorted
      <4>2. QED
        BY <4>1
    <3>3. upTo[n] \in Seq(S) /\ Sorted(upTo[n], kn, sp) /\ Range(upTo[n]) = First(n)
      BY <2>3
    <3> DEFINE was == upTo[n]
               e   == q[n + 1]
               f   == First(n)
    <3> HIDE DEF was, e, f, First
    <3>4. was \in Seq(S) /\ Sorted(was, kn, sp) /\ Range(was) = f /\ e \in S /\ Entry(e, kn, sp)
          /\ \A d \in f : \A i \in d, j \in e : sp[i] < sp[j]
      BY <2>4, <3>1, <3>2, <3>3 DEF was, e, f
    <3>5. Append(was, e) \in Seq(S) /\ Sorted(Append(was, e), kn, sp) /\ Range(Append(was, e)) = f \cup {e}
      BY <3>4, AppendProperties, AppendSorted, AppendRange
    <3>6. First(n + 1) = f \cup {e}
      BY <2>5, <2>7 DEF f, e
    <3>7. QED
      BY <2>2, <2>7, <3>5, <3>6 DEF was, e
  <2>8. QED
    BY <2>6, <2>7
<1>5. Good = Nat
  <2> HIDE DEF Good
  <2>1. Good \in SUBSET Nat
    BY DEF Good
  <2>2. QED
    BY <1>3, <1>4, <2>1, FromZero
<1>6. Fine(Len(q))
  <2>1. Len(q) \in Good
    <3> HIDE DEF Good
    <3>1. QED
      BY <1>2, <1>5
  <2> HIDE DEF Fine
  <2>2. QED
    BY <1>2, <2>1
<1>7. First(Len(q)) = Range(q) \ gone
  BY <1>2 DEF Range
<1>8. QED
  BY <1>1, <1>6, <1>7

-----------------------------------------------------------------------------
(* What the history covers. *)

\* An Undo takes up what it takes back: the entries that share something with it are dropped.
LEMMA TakeUp ==
  ASSUME NEW st, NEW kn, NEW sp, NEW ls, NEW es, NEW gone, NEW ids, NEW left,
         Classes(st, kn, sp), \A e \in es : Entry(e, kn, sp), gone \subseteq ids,
         Covers(es, gone, st, kn, sp, ls),
         \A e \in es : e \cap ids = {} => e \in left
  PROVE  Covers(left, ids, st, kn, sp, ls)
<1> SUFFICES ASSUME NEW i \in Id, sp[i] > 0, Known(i, st, kn, ls), kn[i] \cap ids = {}
             PROVE  \E e \in left : kn[i] \cap e # {} /\ \A j \in e : sp[i] <= sp[j]
  BY DEF Covers
<1>1. PICK e \in es : kn[i] \cap e # {} /\ \A j \in e : sp[i] <= sp[j]
  BY DEF Covers
<1>2. ASSUME NEW j \in e \cap ids PROVE FALSE
  <2>1. PICK k \in kn[i] : k \in e
    BY <1>1
  <2>2. j \in kn[k] /\ kn[k] = kn[i]
    BY <2>1, <1>2 DEF Entry, Classes
  <2>3. QED
    BY <1>2, <2>2
<1>3. QED
  BY <1>1, <1>2

\* What an Undo took back is covered by nothing.
LEMMA TakenBack ==
  ASSUME NEW st, NEW kn, NEW sp, NEW ls, NEW es, NEW gone,
         Covers(es, gone, st, kn, sp, ls), \A i \in gone : st[i] = "undone"
  PROVE  Covers(es, {}, st, kn, sp, ls)
BY DEF Covers, Known

\* What becomes of the plans and decisions leaves the history as it covers them.
LEMMA StillCovers ==
  ASSUME NEW st, NEW new, NEW kn, NEW sp, NEW ls, NEW es, NEW gone,
         Covers(es, gone, st, kn, sp, ls),
         \A i \in Id : sp[i] > 0 /\ new[i] \in {"done", "marked"} => st[i] \in {"done", "marked"},
         \A i \in Id : st[i] = "undone" => new[i] = "undone",
         \A i \in Id : kn[i] \subseteq Id
  PROVE  Covers(es, gone, new, kn, sp, ls)
BY DEF Covers, Known

\* Decisions (d) are taken back, with their entry.
TakesBack(d, st, new) ==
    /\ \A i \in d : i \in Id /\ st[i] \in {"coming", "marked", "unmarked"}
    /\ \A i \in Id : new[i] = IF i \in d THEN "unmarked" ELSE st[i]

LEMMA StillCoversWithout ==
  ASSUME NEW st, NEW new, NEW kn, NEW sp, NEW ls, NEW es, NEW gone, NEW d, NEW left,
         Classes(st, kn, sp), Covers(es, gone, st, kn, sp, ls), TakesBack(d, st, new),
         es \subseteq left \cup {d}
  PROVE  Covers(left, gone, new, kn, sp, ls)
<1>0. /\ \A i \in d : i \in Id /\ st[i] \in {"coming", "marked", "unmarked"}
      /\ \A i \in Id : new[i] = IF i \in d THEN "unmarked" ELSE st[i]
  BY DEF TakesBack
<1> SUFFICES ASSUME NEW i \in Id, sp[i] > 0, Known(i, new, kn, ls), kn[i] \cap gone = {}
             PROVE  \E e \in left : kn[i] \cap e # {} /\ \A j \in e : sp[i] <= sp[j]
  BY DEF Covers
<1>1. i \notin d /\ st[i] \in {"done", "marked"}
  BY <1>0 DEF Known
<1>2. \A k \in kn[i] : st[k] # "undone"
  BY <1>0 DEF Known, Classes
<1>3. Known(i, st, kn, ls)
  BY <1>1, <1>2 DEF Known
<1>4. PICK e \in es : kn[i] \cap e # {} /\ \A j \in e : sp[i] <= sp[j]
  BY <1>3 DEF Covers
<1>5. e # d
  <2> SUFFICES ASSUME NEW k \in kn[i], k \in d PROVE FALSE
    BY <1>4
  <2>1. k \in Id /\ kn[k] = {k} /\ kn[k] = kn[i] /\ i \in kn[i]
    BY <1>0 DEF Classes
  <2>2. QED
    BY <1>0, <1>1, <2>1
<1>6. QED
  BY <1>4, <1>5

-----------------------------------------------------------------------------
(* What comes onto the history. *)

\* How Arrives changes kin, stamp and lost: the entry e comes onto the history, which dropped (out)
\* its oldest.
Joined(e, kn) == UNION {kn[i] : i \in e}

Arrived2(e, top, out, kn, sp, ls, kn2, sp2, ls2) ==
    /\ sp2 = [i \in Id |-> IF i \in e THEN top ELSE sp[i]]
    /\ kn2 = [i \in Id |-> IF i \in Joined(e, kn) THEN Joined(e, kn) ELSE kn[i]]
    /\ ls2 = (ls \ e) \cup out

\* These stamps are all older.
Older(sp, top) == top \in Nat /\ \A i \in Id : sp[i] < top

Entries2(es, kn, sp) == \A d \in es : Entry(d, kn, sp)

\* What of the history stays.
Leaves(es, left, out) == \A d \in es : d \in left \/ d \subseteq out

\* The history as it comes through an arrival.
Through(es, kn2, sp, sp2) == \A d \in es : Entry(d, kn2, sp2) /\ \A i \in d : sp2[i] = sp[i]

Stamps(e, sp, top) == \A i \in e : sp[i] = top

LEMMA KinGrows ==
  ASSUME NEW st, NEW kn, NEW sp, NEW e \in SUBSET Id, Classes(st, kn, sp), NEW i \in Id
  PROVE  /\ Joined(e, kn) \subseteq Id /\ e \subseteq Joined(e, kn)
         /\ i \in Joined(e, kn) => kn[i] \subseteq Joined(e, kn)
         /\ i \notin Joined(e, kn) => kn[i] \cap Joined(e, kn) = {}
<1>1. Joined(e, kn) \subseteq Id /\ e \subseteq Joined(e, kn)
  BY DEF Joined, Classes
<1>2. ASSUME i \in Joined(e, kn) PROVE kn[i] \subseteq Joined(e, kn)
  <2>1. PICK k \in e : i \in kn[k]
    BY <1>2 DEF Joined
  <2>2. kn[i] = kn[k]
    BY <2>1 DEF Classes
  <2>3. QED
    BY <2>2 DEF Joined
<1>3. ASSUME i \notin Joined(e, kn), NEW j \in kn[i], j \in Joined(e, kn) PROVE FALSE
  <2>1. PICK k \in e : j \in kn[k]
    BY <1>3 DEF Joined
  <2>2. kn[j] = kn[k] /\ kn[j] = kn[i] /\ i \in kn[i]
    BY <1>3, <2>1 DEF Classes
  <2>3. QED
    BY <1>3, <2>2 DEF Joined
<1>4. QED
  BY <1>1, <1>2, <1>3

LEMMA ArrivedClasses ==
  ASSUME NEW st, NEW kn, NEW sp \in [Id -> Nat], NEW ls, NEW kn2, NEW sp2, NEW ls2, NEW out,
         NEW e \in SUBSET Id, NEW top \in Nat, top > 0,
         Classes(st, kn, sp), Arrived2(e, top, out, kn, sp, ls, kn2, sp2, ls2),
         (\A i \in e : st[i] \notin {"coming", "marked", "unmarked"}) \/ (\E i \in Id : e = {i} /\ kn[i] = {i})
  PROVE  Classes(st, kn2, sp2)
<1> DEFINE all == Joined(e, kn)
<1> HIDE DEF all
<1>0. \A i \in Id : kn2[i] = IF i \in all THEN all ELSE kn[i]
  BY DEF Arrived2, all
<1>1. \A i \in Id : /\ all \subseteq Id /\ e \subseteq all
                    /\ i \in all => kn[i] \subseteq all
                    /\ i \notin all => kn[i] \cap all = {}
  BY KinGrows DEF all
<1>2. ASSUME NEW i \in Id
      PROVE  kn2[i] \subseteq Id /\ i \in kn2[i] /\ \A j \in kn2[i] : kn2[j] = kn2[i]
  BY <1>0, <1>1 DEF Classes
<1>3. ASSUME NEW i \in Id, sp2[i] = 0 \/ st[i] \in {"coming", "marked", "unmarked"}
      PROVE  kn2[i] = {i}
  <2>1. kn[i] = {i}
    <3>1. sp2[i] = IF i \in e THEN top ELSE sp[i]
      BY DEF Arrived2
    <3>2. QED
      BY <1>3, <3>1 DEF Classes
  <2>2. CASE i \notin all
    BY <1>0, <2>1, <2>2
  <2>3. CASE i \in all
    <3>1. PICK k \in e : i \in kn[k]
      BY <2>3 DEF all, Joined
    <3>2. k = i
      <4>1. kn[k] = kn[i] /\ k \in kn[k]
        BY <3>1 DEF Classes
      <4>2. QED
        BY <2>1, <4>1
    <3>3. e = {i}
      <4>1. i \in e /\ sp2[i] = top
        BY <3>2 DEF Arrived2
      <4>2. st[i] \in {"coming", "marked", "unmarked"}
        BY <1>3, <4>1
      <4>3. QED
        BY <4>1, <4>2
    <3>4. all = {i}
      BY <2>1, <3>3 DEF all, Joined
    <3>5. QED
      BY <1>0, <2>3, <3>4
  <2>4. QED
    BY <2>2, <2>3
<1>4. QED
  BY <1>2, <1>3 DEF Classes

LEMMA ArrivedCovers ==
  ASSUME NEW st, NEW kn, NEW sp \in [Id -> Nat], NEW ls, NEW kn2, NEW sp2, NEW ls2, NEW out,
         NEW e \in SUBSET Id, e # {}, NEW top, Older(sp, top), NEW gone, NEW kept,
         gone \subseteq e \cup kept, NEW es, NEW left, Entries2(es, kn, sp),
         Classes(st, kn, sp), Arrived2(e, top, out, kn, sp, ls, kn2, sp2, ls2),
         Covers(es, gone, st, kn, sp, ls), Leaves(es, left, out)
  PROVE  Covers(left \cup {e}, kept, st, kn2, sp2, ls2)
<1>0. /\ top \in Nat /\ \A i \in Id : sp[i] < top
      /\ \A d \in es : Entry(d, kn, sp) /\ (d \in left \/ d \subseteq out)
  BY DEF Older, Entries2, Leaves
<1> SUFFICES ASSUME NEW i \in Id, sp2[i] > 0, Known(i, st, kn2, ls2), kn2[i] \cap kept = {}
             PROVE  \E d \in left \cup {e} : kn2[i] \cap d # {} /\ \A j \in d : sp2[i] <= sp2[j]
  BY DEF Covers
<1>1. /\ \A j \in Id : sp2[j] = IF j \in e THEN top ELSE sp[j]
      /\ \A j \in Id : sp[j] \in Nat
      /\ ls2 = (ls \ e) \cup out
      /\ kn2[i] = IF i \in Joined(e, kn) THEN Joined(e, kn) ELSE kn[i]
  BY DEF Arrived2
<1>2. kn[i] \subseteq kn2[i] /\ kn[i] \subseteq Id /\ i \in kn[i]
  BY <1>1, KinGrows DEF Classes
<1>3. \A j \in Id : sp2[j] <= top
  BY <1>0, <1>1
<1>4. CASE kn2[i] \cap e # {}
  <2>1. \A j \in e : sp2[i] <= sp2[j]
    BY <1>0, <1>1, <1>3
  <2>2. QED
    BY <1>4, <2>1
<1>5. CASE kn2[i] \cap e = {}
  <2>1. i \notin e /\ sp2[i] = sp[i] /\ kn[i] \cap e = {}
    BY <1>1, <1>2, <1>5
  <2>2. Known(i, st, kn, ls)
    BY <1>1, <1>2, <2>1 DEF Known
  <2>3. PICK d \in es : kn[i] \cap d # {} /\ \A j \in d : sp[i] <= sp[j]
    <3>1. kn[i] \cap gone = {}
      BY <1>2, <2>1
    <3>2. QED
      BY <2>1, <2>2, <3>1 DEF Covers
  <2>4. ~(d \subseteq out)
    BY <1>1, <1>2, <2>3 DEF Known
  <2>5. d \subseteq Id
    BY <1>0 DEF Entry
  <2>6. \A j \in d : sp2[i] <= sp2[j]
    <3> TAKE j \in d
    <3>1. j \in Id /\ sp[j] <= sp2[j] /\ sp[i] <= sp[j] /\ sp[i] \in Nat /\ sp[j] \in Nat /\ sp2[j] \in Nat
      BY <1>0, <1>1, <2>3, <2>5
    <3>2. QED
      BY <2>1, <3>1
  <2>7. QED
    BY <1>0, <1>2, <2>3, <2>4, <2>6
<1>6. QED
  BY <1>4, <1>5

LEMMA ArrivedEntries ==
  ASSUME NEW st, NEW kn, NEW sp, NEW ls, NEW kn2, NEW sp2, NEW ls2, NEW out,
         NEW e \in SUBSET Id, e # {}, NEW top \in Nat, top > 0,
         Classes(st, kn, sp), Arrived2(e, top, out, kn, sp, ls, kn2, sp2, ls2)
  PROVE  /\ Entry(e, kn2, sp2)
         /\ \A d : Entry(d, kn, sp) /\ d \cap e = {} =>
                /\ Entry(d, kn2, sp2)
                /\ \A i \in d : sp2[i] = sp[i]
<1>1. \A i \in Id : /\ sp2[i] = IF i \in e THEN top ELSE sp[i]
                    /\ kn2[i] = IF i \in Joined(e, kn) THEN Joined(e, kn) ELSE kn[i]
  BY DEF Arrived2
<1>2. e \subseteq Joined(e, kn) /\ \A i \in Id : kn[i] \subseteq kn2[i]
  <2>1. e \subseteq Joined(e, kn)
    BY DEF Joined, Classes
  <2>2. ASSUME NEW i \in Id PROVE kn[i] \subseteq kn2[i]
    <3>1. i \in Joined(e, kn) => kn[i] \subseteq Joined(e, kn)
      BY KinGrows
    <3>2. QED
      BY <1>1, <3>1
  <2>3. QED
    BY <2>1, <2>2
<1>3. Entry(e, kn2, sp2)
  BY <1>1, <1>2 DEF Entry
<1>4. ASSUME NEW d, Entry(d, kn, sp), d \cap e = {}
      PROVE  Entry(d, kn2, sp2) /\ \A i \in d : sp2[i] = sp[i]
  <2>1. d \subseteq Id /\ \A i \in d : sp2[i] = sp[i]
    BY <1>1, <1>4 DEF Entry
  <2>2. QED
    BY <1>2, <1>4, <2>1 DEF Entry
<1>5. QED
  BY <1>3, <1>4

\* The history with an entry more, which is newer than all it had.
LEMMA KeepSorted ==
  ASSUME NEW kn, NEW sp \in [Id -> Nat], NEW sp2, NEW kn2, HistoryTypes, Sorted(undo, kn, sp),
         NEW e \in SUBSET Nat, NEW top, Entry(e, kn2, sp2),
         Stamps(e, sp2, top), Older(sp, top), Through(Range(undo), kn2, sp, sp2)
  PROVE  /\ Sorted(KeepEntry(undo, e), kn2, sp2)
         /\ Range(KeepEntry(undo, e)) \subseteq Range(undo) \cup {e}
         /\ \E left : /\ Range(KeepEntry(undo, e)) = left \cup {e}
                      /\ Leaves(Range(undo), left,
                                IF Len(undo) >= UNDO_LIMIT THEN Head(undo) ELSE {})
<1> USE DEF Stamps, Older, Through, Leaves
<1>0. UNDO_LIMIT \in Nat /\ UNDO_LIMIT # 0 /\ undo \in Seq(SUBSET Nat) /\ Len(undo) \in Nat
  BY ChangesAssumption, LenProperties DEF HistoryTypes, Entries
<1>1. Sorted(undo, kn2, sp2)
  <2>1. ASSUME NEW m \in DOMAIN undo, NEW n \in DOMAIN undo, m < n, NEW i \in undo[m], NEW j \in undo[n]
        PROVE  sp2[i] < sp2[j]
    <3>1. undo[m] \in Range(undo) /\ undo[n] \in Range(undo)
      BY DEF Range
    <3>2. sp2[i] = sp[i] /\ sp2[j] = sp[j] /\ sp[i] < sp[j]
      BY <2>1, <3>1 DEF Sorted
    <3>3. QED
      BY <3>2
  <2>2. QED
    BY <2>1 DEF Sorted
<1> DEFINE q == IF Len(undo) >= UNDO_LIMIT THEN Tail(undo) ELSE undo
           out == IF Len(undo) >= UNDO_LIMIT THEN Head(undo) ELSE {}
<1>2. q \in Seq(SUBSET Nat) /\ Sorted(q, kn2, sp2) /\ Range(q) \subseteq Range(undo)
      /\ \A d \in Range(undo) : d \in Range(q) \/ d \subseteq out
  <2>1. CASE Len(undo) >= UNDO_LIMIT
    <3>1. undo # <<>>
      BY <1>0, <2>1, EmptySeq
    <3>2. Tail(undo) \in Seq(SUBSET Nat) /\ Sorted(Tail(undo), kn2, sp2)
          /\ Range(undo) = Range(Tail(undo)) \cup {Head(undo)}
      BY <1>0, <1>1, <3>1, HeadTailProperties, TailSorted
    <3>3. QED
      BY <2>1, <3>2
  <2>2. CASE ~(Len(undo) >= UNDO_LIMIT)
    BY <1>0, <1>1, <2>2
  <2>3. QED
    BY <2>1, <2>2
<1>3. KeepEntry(undo, e) = Append(q, e)
  BY DEF KeepEntry
<1>4. \A d \in Range(undo) : \A i \in d, j \in e : sp2[i] < sp2[j]
  <2> TAKE d \in Range(undo)
  <2>1. d \subseteq Id /\ \A i \in d : sp2[i] = sp[i]
    BY DEF Entry
  <2>2. QED
    BY <2>1
<1> HIDE DEF q
<1>5. \A d \in Range(q) : \A i \in d, j \in e : sp2[i] < sp2[j]
  BY <1>2, <1>4
<1>6. Sorted(Append(q, e), kn2, sp2) /\ Range(Append(q, e)) = Range(q) \cup {e}
  <2> DEFINE S == SUBSET Nat
  <2>1. q \in Seq(S) /\ e \in S /\ Sorted(q, kn2, sp2)
    BY <1>2
  <2> HIDE DEF S
  <2>2. Range(Append(q, e)) = Range(q) \cup {e}
    BY <2>1, AppendRange
  <2>3. Sorted(Append(q, e), kn2, sp2)
    BY <1>5, <2>1, AppendSorted
  <2>4. QED
    BY <2>2, <2>3
<1>7. QED
  BY <1>2, <1>3, <1>6

-----------------------------------------------------------------------------
(* What the turn's holders and what waits for it are about. *)

State == {"none", "coming", "done", "marked", "unmarked", "undone"}

Plans(ids) == ids # {} /\ ids \subseteq Id /\ \A i \in ids : state[i] \in {"done", "undone"}

\* Of what waits, Cmd-Z's are none with plans yet.
StartFine(x) ==
    /\ x.kind = "undo" => x.by = "page" /\ Plans(x.ids)
    /\ x.kind = "change" => x.steps \in 1 .. TidySteps

QueueFine == \A x \in Range(queue) : StartFine(x)

TaskFine(t) ==
    /\ t.kind = "undo" =>
        /\ Plans(t.ids) /\ t.left # {} /\ t.left \subseteq t.ids
        /\ \A i \in t.ids \ t.left : state[i] = "undone"
        /\ t.at = "ended" /\ t.how = "done" => state[Newest(t.left)] = "undone"
        /\ \A e \in Range(undo) : e \cap t.ids = {}
    /\ t.kind = "change" =>
        /\ t.steps \in 1 .. TidySteps
        /\ \A i \in t.ids : i \in Id /\ i < nextId /\ stamp[i] = 0 /\ state[i] # "coming"
        /\ t.at \notin {"listing", "drafting"} =>
              t.plan \in Id /\ t.plan < nextId /\ stamp[t.plan] = 0 /\ state[t.plan] # "coming"
        /\ t.at = "working" => state[t.plan] = "none"

\* What has just been begun.
Starting(t) ==
    /\ t.kind = "undo" => t.at = "working" /\ t.left = t.ids
    /\ t.kind = "change" =>
        t.ids = {} /\ t.at \in {"listing", "drafting"} /\ t.steps \in 1 .. TidySteps

Covered ==
    \/ (\A t \in tasks : t.kind # "undo") /\ Covers(Range(undo), {}, state, kin, stamp, lost)
    \/ \E t \in tasks : t.kind = "undo" /\ Covers(Range(undo), t.ids, state, kin, stamp, lost)

\* What has come onto the history is done or decided.
Settled(st, sp) ==
    st \in [Id -> State] /\ \A i \in Id : sp[i] > 0 => st[i] \notin {"none", "coming"}

\* The newest is what a Cmd-Z takes that begins an Undo.
NewestBegins ==
    \A t \in tasks' \ tasks :
        t.kind = "undo" /\ t.by = "again" /\ t.at = "working" /\ t.left = t.ids =>
            TopOf(t.ids, Range(undo'), state', kin', stamp', lost')

-----------------------------------------------------------------------------
(* The end of the history. *)

LEMMA LastIsTop ==
  ASSUME NEW st, NEW kn, NEW sp \in [Id -> Nat], NEW ls, NEW h \in Entries, h # <<>>,
         Sorted(h, kn, sp), Covers(Range(h), {}, st, kn, sp, ls)
  PROVE  TopOf(Last(h), Range(h), st, kn, sp, ls) /\ Entry(Last(h), kn, sp)
<1> DEFINE l == Last(h)
           f == Front(h)
<1>1. /\ Range(h) = Range(f) \cup {l}
      /\ \A e \in Range(f) : \A i \in e, j \in l : sp[i] < sp[j]
  BY FrontSorted DEF Entries
<1>2. \A e \in Range(h) : Entry(e, kn, sp)
  BY DEF Sorted
<1> HIDE DEF l, f
<1>3. \A i, j \in l : i \in Id /\ sp[i] = sp[j]
  BY <1>1, <1>2 DEF Entry
<1>4. ASSUME NEW e \in Range(h), NEW j \in l PROVE \A i \in e : sp[i] <= sp[j]
  <2> TAKE i \in e
  <2>1. i \in Id /\ j \in Id /\ sp[i] \in Nat /\ sp[j] \in Nat
    BY <1>1, <1>2 DEF Entry
  <2>2. QED
    BY <1>1, <1>3, <2>1
<1>5. ASSUME NEW i \in Id, Known(i, st, kn, ls) \/ (\E e \in Range(h) : i \in e), NEW j \in l
      PROVE  sp[i] <= sp[j]
  <2>1. sp[i] \in Nat /\ sp[j] \in Nat
    BY <1>3
  <2>2. CASE \E e \in Range(h) : i \in e
    BY <1>4, <2>2
  <2>3. CASE Known(i, st, kn, ls) /\ sp[i] > 0
    <3>1. PICK e \in Range(h) : kn[i] \cap e # {} /\ \A k \in e : sp[i] <= sp[k]
      BY <2>3 DEF Covers
    <3>2. PICK k \in e : k \in kn[i]
      BY <3>1
    <3>3. sp[i] <= sp[k] /\ sp[k] <= sp[j] /\ sp[k] \in Nat
      BY <1>2, <1>4, <3>1 DEF Entry
    <3>4. QED
      BY <2>1, <3>3
  <2>4. QED
    BY <1>5, <2>1, <2>2, <2>3
<1>6. QED
  BY <1>1, <1>2, <1>3, <1>5 DEF TopOf, l

\* An entry is of plans, or it is one decision.
LEMMA EntryIsPlans ==
  ASSUME NEW kn, NEW sp, NEW e, Entry(e, kn, sp), Classes(state, kn, sp), Settled(state, sp),
         ~(e \subseteq Decision)
  PROVE  Plans(e)
<1>1. PICK i \in e : i \notin Decision
  OBVIOUS
<1>2. i \in Id /\ state[i] \in {"done", "undone"}
  BY <1>1 DEF Entry, Settled, Decision, State
<1>3. ASSUME NEW j \in e PROVE state[j] \in {"done", "undone"}
  <2>1. j \in Id /\ sp[j] > 0 /\ j \in kn[i] /\ kn[j] = kn[i] /\ i \in kn[i]
    BY <1>2 DEF Entry, Classes
  <2>2. CASE state[j] \in {"marked", "unmarked"}
    <3>1. kn[j] = {j}
      BY <2>1, <2>2 DEF Classes
    <3>2. QED
      BY <1>2, <2>1, <2>2, <3>1
  <2>3. QED
    BY <2>1, <2>2 DEF Settled, State
<1>4. QED
  BY <1>3 DEF Plans, Entry

-----------------------------------------------------------------------------
(* What a release makes of the history. *)

Unmarked(s) == [i \in Id |-> IF i \in s.unmarked THEN "unmarked" ELSE state[i]]

\* What is next: a start of the queue's, or the Undo that a Cmd-Z takes.
NextFine(s, kn, sp, ls) ==
    \/ StartFine(s.next) /\ Covers(Range(s.undo), {}, Unmarked(s), kn, sp, ls)
    \/ /\ s.next.kind = "undo" /\ s.next.by = "again" /\ Plans(s.next.ids)
       /\ Covers(Range(s.undo), s.next.ids, Unmarked(s), kn, sp, ls)
       /\ TopOf(s.next.ids, Range(s.undo), Unmarked(s), kn, sp, ls)

PassFine(s, kn, sp, ls) ==
    /\ Sorted(s.undo, kn, sp)
    /\ \A i \in s.unmarked : i \in Id /\ sp[i] > 0 /\ state[i] \in {"coming", "marked", "unmarked"}
    /\ \A x \in Range(s.queue) : StartFine(x)
    /\ NextFine(s, kn, sp, ls)

PassCount(s, n) == Len(s.queue) + (IF s.next = Nothing THEN 0 ELSE 1) <= n

LEMMA UnmarkedClasses ==
  ASSUME NEW kn, NEW sp, NEW ls, NEW s, PassFine(s, kn, sp, ls), Classes(state, kn, sp)
  PROVE  Classes(Unmarked(s), kn, sp)
BY DEF Classes, Unmarked, PassFine

LEMMA PassStaysFine ==
  ASSUME NEW kn, NEW sp \in [Id -> Nat], NEW ls, NEW s, NEW entries, NEW x \in Waits, StartFine(x),
         Passes(s, entries), PassFine(s, kn, sp, ls), Classes(state, kn, sp), Settled(state, sp)
  PROVE  PassFine(Pass(s, x), kn, sp, ls)
<1>1. /\ s \in Passing /\ s.undo \in Entries /\ s.queue \in Seq(Waits)
      /\ s.unmarked \in SUBSET Nat
  BY DEF Passes, Passing
<1>2. CASE s.next # Nothing
  <2> DEFINE a == Append(s.queue, x)
             r == [s EXCEPT !.queue = a]
  <2>1. Pass(s, x) = r
    BY <1>2 DEF Pass
  <2>2. Range(a) = Range(s.queue) \cup {x}
    BY <1>1, AppendRange
  <2> HIDE DEF a
  <2>3. r.undo = s.undo /\ r.unmarked = s.unmarked /\ r.queue = a /\ r.next = s.next
    BY <1>1 DEF Passing
  <2> HIDE DEF r
  <2>4. Unmarked(r) = Unmarked(s)
    BY <2>3 DEF Unmarked
  <2>5. QED
    BY <2>1, <2>2, <2>3, <2>4 DEF PassFine, NextFine
<1>3. CASE s.next = Nothing /\ x.kind # "again"
  <2> DEFINE r == [s EXCEPT !.next = x]
  <2>1. Pass(s, x) = r
    BY <1>3 DEF Pass
  <2>2. r.undo = s.undo /\ r.unmarked = s.unmarked /\ r.queue = s.queue /\ r.next = x
    BY <1>1 DEF Passing
  <2> HIDE DEF r
  <2>3. Unmarked(r) = Unmarked(s)
    BY <2>2 DEF Unmarked
  <2>4. Covers(Range(s.undo), {}, Unmarked(s), kn, sp, ls)
    BY <1>3 DEF PassFine, NextFine, Nothing
  <2>5. QED
    BY <2>1, <2>2, <2>3, <2>4 DEF PassFine, NextFine
<1>4. CASE s.next = Nothing /\ x.kind = "again" /\ ~Takes(x, s)
  BY <1>4 DEF Pass
<1>5. CASE s.next = Nothing /\ x.kind = "again" /\ Takes(x, s)
  <2> DEFINE f == Front(s.undo)
             l == Last(s.undo)
  <2>1. s.undo # <<>>
    BY <1>5 DEF Takes
  <2>2. /\ Sorted(s.undo, kn, sp) /\ Sorted(f, kn, sp) /\ Range(s.undo) = Range(f) \cup {l}
        /\ f \in Entries /\ l \in SUBSET Nat
    BY <1>1, <2>1, FrontSorted, FrontFacts DEF PassFine, Entries
  <2>3. Covers(Range(s.undo), {}, Unmarked(s), kn, sp, ls)
    BY <1>5 DEF PassFine, NextFine, Nothing
  <2>4. Classes(Unmarked(s), kn, sp)
    BY UnmarkedClasses
  <2>5. TopOf(l, Range(s.undo), Unmarked(s), kn, sp, ls) /\ Entry(l, kn, sp)
    BY <1>1, <2>1, <2>2, <2>3, LastIsTop
  <2> HIDE DEF f, l
  <2>6. CASE l \subseteq Decision
    <3> DEFINE r == [s EXCEPT !.undo = f, !.unmarked = s.unmarked \cup l]
    <3>1. Pass(s, x) = r
      BY <1>5, <2>6 DEF Pass, f, l
    <3>2. r.undo = f /\ r.unmarked = s.unmarked \cup l /\ r.queue = s.queue /\ r.next = s.next
      BY <1>1 DEF Passing
    <3> HIDE DEF r
    <3>3. l \in SUBSET Id /\ \A i \in l : sp[i] > 0 /\ state[i] \in {"coming", "marked", "unmarked"}
      BY <2>5, <2>6 DEF Entry, Decision
    <3>4. /\ \A i \in l : Unmarked(s)[i] \in {"coming", "marked", "unmarked"}
          /\ \A i \in Id : Unmarked(r)[i] = IF i \in l THEN "unmarked" ELSE Unmarked(s)[i]
      BY <3>2, <3>3 DEF Unmarked
    <3>5. Covers(Range(f), {}, Unmarked(r), kn, sp, ls)
      <4> DEFINE was == Unmarked(s)
                 new == Unmarked(r)
                 es  == Range(s.undo)
                 left == Range(f)
      <4>1. Classes(was, kn, sp) /\ Covers(es, {}, was, kn, sp, ls) /\ es \subseteq left \cup {l}
        BY <2>2, <2>3, <2>4
      <4>2. TakesBack(l, was, new)
        BY <3>3, <3>4 DEF TakesBack
      <4> HIDE DEF was, new, es, left
      <4>3. Covers(left, {}, new, kn, sp, ls)
        BY <4>1, <4>2, StillCoversWithout
      <4>4. QED
        BY <4>3 DEF left, new
    <3>6. StartFine(r.next)
      BY <1>5, <3>2 DEF StartFine, Nothing
    <3>7. QED
      BY <2>2, <3>1, <3>2, <3>3, <3>5, <3>6 DEF PassFine, NextFine
  <2>7. CASE ~(l \subseteq Decision)
    <3> DEFINE r == [s EXCEPT !.undo = f, !.next = Undo(l, "again")]
    <3>1. Pass(s, x) = r
      BY <1>5, <2>7 DEF Pass, f, l
    <3>2. r.undo = f /\ r.unmarked = s.unmarked /\ r.queue = s.queue /\ r.next = Undo(l, "again")
      BY <1>1 DEF Passing
    <3> HIDE DEF r
    <3>3. Unmarked(r) = Unmarked(s)
      BY <3>2 DEF Unmarked
    <3>4. r.next.kind = "undo" /\ r.next.by = "again" /\ r.next.ids = l
      BY <3>2 DEF Undo
    <3>5. Plans(l)
      BY <2>5, <2>7, EntryIsPlans
    <3>6. Covers(Range(f), l, Unmarked(s), kn, sp, ls)
      <4>1. \A e \in Range(s.undo) : Entry(e, kn, sp)
        BY <2>2 DEF Sorted
      <4>2. \A e \in Range(s.undo) : e \cap l = {} => e \in Range(f)
        BY <2>2, <2>5 DEF Entry
      <4>3. QED
        BY <2>3, <2>4, <4>1, <4>2, TakeUp
    <3>7. TopOf(l, Range(f), Unmarked(s), kn, sp, ls)
      BY <2>2, <2>5 DEF TopOf
    <3>8. QED
      BY <2>2, <3>1, <3>2, <3>3, <3>4, <3>5, <3>6, <3>7 DEF PassFine, NextFine
  <2>8. QED
    BY <2>6, <2>7
<1>6. QED
  BY <1>2, <1>3, <1>4, <1>5

LEMMA PassStaysCounted ==
  ASSUME NEW s, NEW entries, NEW x \in Waits, Passes(s, entries), NEW n \in Nat, PassCount(s, n)
  PROVE  PassCount(Pass(s, x), n + 1)
<1>1. /\ s \in Passing /\ s.queue \in Seq(Waits) /\ Len(s.queue) \in Nat
      /\ s.next = Nothing => s.queue = <<>>
  BY LenProperties DEF Passes, Passing
<1>2. CASE s.next # Nothing
  <2> DEFINE a == Append(s.queue, x)
  <2>1. Pass(s, x) = [s EXCEPT !.queue = a] /\ Len(a) = Len(s.queue) + 1
    BY <1>1, <1>2, AppendProperties DEF Pass
  <2> HIDE DEF a
  <2>2. Pass(s, x).queue = a /\ Pass(s, x).next = s.next
    BY <1>1, <2>1 DEF Passing
  <2>3. QED
    BY <1>1, <1>2, <2>1, <2>2 DEF PassCount
<1>3. CASE s.next = Nothing
  <2>1. Pass(s, x).queue = s.queue
    BY <1>1, <1>3 DEF Pass, Passing
  <2>2. Len(s.queue) = 0
    BY <1>1, <1>3, EmptySeq
  <2>3. QED
    BY <2>1, <2>2 DEF PassCount
<1>4. QED
  BY <1>2, <1>3

LEMMA HandOverFine ==
  ASSUME NEW kn, NEW sp \in [Id -> Nat], NEW ls, NEW entries \in Entries, queue \in Seq(Waits),
         QueueFine, Sorted(entries, kn, sp), Covers(Range(entries), {}, state, kn, sp, ls),
         Classes(state, kn, sp), Settled(state, sp)
  PROVE  PassFine(HandOver(entries), kn, sp, ls) /\ PassCount(HandOver(entries), Len(queue))
<1>1. PICK upTo : /\ upTo = [n \in 0 .. Len(queue) |->
                               IF n = 0 THEN Free(entries) ELSE Pass(upTo[n - 1], queue[n])]
                  /\ HandOver(entries) = upTo[Len(queue)]
  BY HandOverIs
<1>2. /\ Len(queue) \in Nat
      /\ \A n \in 1 .. Len(queue) : queue[n] \in Waits /\ StartFine(queue[n])
  BY LenProperties, ElementOfSeq DEF QueueFine, Range
<1>0. \A n \in 0 .. Len(queue) :
         upTo[n] = IF n = 0 THEN Free(entries) ELSE Pass(upTo[n - 1], queue[n])
  BY <1>1
<1> DEFINE Fine(s, n) == Passes(s, entries) /\ PassFine(s, kn, sp, ls) /\ PassCount(s, n)
           Good == {n \in Nat : n <= Len(queue) => Fine(upTo[n], n)}
<1>3. 0 \in Good
  <2>1. upTo[0] = Free(entries)
    BY <1>0, <1>2
  <2>2. <<>> \in Seq(Waits) /\ Len(<<>>) = 0 /\ Len(entries) \in Nat /\ Range(<<>>) = {}
    BY EmptySeq, LenProperties DEF Entries, Range
  <2>3. Passes(Free(entries), entries) /\ PassCount(Free(entries), 0)
    BY <2>2 DEF Passes, Free, Passing, PassCount
  <2>4. PassFine(Free(entries), kn, sp, ls)
    <3> DEFINE s == Free(entries)
    <3>1. s.undo = entries /\ s.unmarked = {} /\ s.queue = <<>> /\ s.next = Nothing
      BY DEF Free
    <3> HIDE DEF s
    <3>2. Unmarked(s) = state
      BY <3>1 DEF Unmarked, Settled
    <3>3. StartFine(s.next)
      BY <3>1 DEF StartFine, Nothing
    <3>4. PassFine(s, kn, sp, ls)
      BY <2>2, <3>1, <3>2, <3>3 DEF PassFine, NextFine
    <3>5. QED
      BY <3>4 DEF s
  <2>5. QED
    BY <2>1, <2>3, <2>4
<1>4. ASSUME NEW n \in Good PROVE n + 1 \in Good
  <2> SUFFICES ASSUME n + 1 <= Len(queue)
               PROVE  Fine(upTo[n + 1], n + 1)
    OBVIOUS
  <2>1. n + 1 \in 1 .. Len(queue) /\ n + 1 \in 0 .. Len(queue) /\ (n + 1) - 1 = n
    BY <1>2
  <2>2. upTo[n + 1] = Pass(upTo[n], queue[n + 1])
    BY <1>0, <2>1
  <2>3. Fine(upTo[n], n) /\ queue[n + 1] \in Waits /\ StartFine(queue[n + 1])
    BY <1>2, <2>1
  <2> DEFINE s == upTo[n]
             x == queue[n + 1]
  <2>4. Fine(s, n) /\ x \in Waits /\ StartFine(x) /\ n \in Nat
    BY <2>3
  <2> HIDE DEF s, x, Good
  <2>5. Fine(Pass(s, x), n + 1)
    BY <2>4, PassKeeps, PassStaysFine, PassStaysCounted
  <2>6. QED
    BY <2>2, <2>5 DEF s, x
<1>5. Good = Nat
  <2> HIDE DEF Good
  <2>1. Good \in SUBSET Nat
    BY DEF Good
  <2>2. QED
    BY <1>3, <1>4, <2>1, FromZero
<1>6. Fine(upTo[Len(queue)], Len(queue))
  <2>1. Len(queue) \in Good
    <3> HIDE DEF Good
    <3>1. QED
      BY <1>2, <1>5
  <2> HIDE DEF Fine
  <2>2. QED
    BY <1>2, <2>1
<1>7. QED
  BY <1>1, <1>6

-----------------------------------------------------------------------------
(* What a start and a release make of all that. *)

\* What is begun, with a history in order and covered: what waited, or the Undo of a Cmd-Z, which
\* has the newest.
BeginsWith(x, h, st, kn, sp, ls) ==
    \/ StartFine(x) /\ Covers(Range(h), {}, st, kn, sp, ls)
    \/ /\ x.kind = "undo" /\ x.by = "again" /\ Plans(x.ids)
       /\ Covers(Range(h), x.ids, st, kn, sp, ls)
       /\ TopOf(x.ids, Range(h), st, kn, sp, ls)

\* The same of the task that it leaves.
Begun(t, st, kn, sp, ls) ==
    /\ Starting(t) /\ t.kind \in {"undo", "change"}
    /\ t.kind = "undo" => /\ Plans(t.ids) /\ t.how = "done"
                          /\ Covers(Range(undo'), t.ids, st, kn, sp, ls)
                          /\ \A e \in Range(undo') : e \cap t.ids = {}
                          /\ t.by = "again" => TopOf(t.ids, Range(undo'), st, kn, sp, ls)
    /\ t.kind = "change" => Covers(Range(undo'), {}, st, kn, sp, ls)

LEMMA BeginBegins ==
  ASSUME NEW st, NEW kn, NEW sp, NEW ls, NEW x \in Starts, NEW h \in Entries, Begin(x, h, {}),
         Classes(st, kn, sp), Sorted(h, kn, sp), BeginsWith(x, h, st, kn, sp, ls)
  PROVE  /\ \E t : tasks' = {t} /\ Begun(t, st, kn, sp, ls)
         /\ Sorted(undo', kn, sp) /\ Range(undo') \subseteq Range(h) /\ Len(undo') <= Len(h)
<1>1. CASE x.kind = "undo"
  <2> DEFINE t == [kind |-> "undo", ids |-> x.ids, by |-> x.by, left |-> x.ids,
                   at |-> "working", how |-> "done"]
  <2>1. tasks' = {t} /\ undo' = ForgetPlans(h, x.ids)
    BY <1>1 DEF Begin
  <2>2. /\ t.kind = "undo" /\ t.ids = x.ids /\ t.by = x.by /\ t.left = x.ids /\ t.at = "working"
        /\ t.how = "done"
    OBVIOUS
  <2> HIDE DEF t
  <2> DEFINE gone == {e \in Range(h) : e \cap x.ids # {}}
  <2>3. Sorted(undo', kn, sp) /\ Range(undo') = Range(h) \ gone /\ Len(undo') <= Len(h)
    BY <2>1, WithoutSorted, WithoutFacts DEF ForgetPlans, Entries
  <2>4. Plans(x.ids)
    BY <1>1 DEF BeginsWith, StartFine
  <2>5. Covers(Range(undo'), x.ids, st, kn, sp, ls)
    <3>1. \A e \in Range(h) : Entry(e, kn, sp) /\ (e \cap x.ids = {} => e \in Range(undo'))
      BY <2>3 DEF Sorted
    <3>2. CASE Covers(Range(h), {}, st, kn, sp, ls)
      <4>1. {} \subseteq x.ids
        OBVIOUS
      <4>2. QED
        BY <3>1, <3>2, <4>1, TakeUp
    <3>3. CASE Covers(Range(h), x.ids, st, kn, sp, ls)
      BY <3>1, <3>3, TakeUp
    <3>4. QED
      BY <3>2, <3>3 DEF BeginsWith
  <2>6. t.by = "again" => TopOf(t.ids, Range(undo'), st, kn, sp, ls)
    <3> SUFFICES ASSUME t.by = "again" PROVE TopOf(x.ids, Range(undo'), st, kn, sp, ls)
      BY <2>2
    <3>1. TopOf(x.ids, Range(h), st, kn, sp, ls)
      BY <1>1, <2>2 DEF BeginsWith, StartFine
    <3>2. QED
      BY <2>3, <3>1 DEF TopOf
  <2>7. \A e \in Range(undo') : e \cap t.ids = {}
    BY <2>2, <2>3
  <2>8. Begun(t, st, kn, sp, ls)
    BY <2>2, <2>4, <2>5, <2>6, <2>7 DEF Begun, Starting
  <2>9. QED
    BY <2>1, <2>3, <2>8
<1>2. CASE x.kind = "change"
  <2>1. PICK at \in StepStarts(x) :
          tasks' = {[kind |-> "change", tidies |-> x.tidies, steps |-> x.steps,
                     ids |-> {}, plan |-> 0, at |-> at, how |-> "done"]}
    BY <1>2 DEF Begin
  <2> DEFINE t == [kind |-> "change", tidies |-> x.tidies, steps |-> x.steps,
                   ids |-> {}, plan |-> 0, at |-> at, how |-> "done"]
  <2>2. undo' = h /\ tasks' = {t}
    BY <1>2, <2>1 DEF Begin
  <2>3. /\ t.kind = "change" /\ t.ids = {} /\ t.steps = x.steps /\ t.at = at
        /\ at \in {"listing", "drafting"}
    BY DEF StepStarts
  <2> HIDE DEF t
  <2>4. x.steps \in 1 .. TidySteps /\ Covers(Range(h), {}, st, kn, sp, ls)
    BY <1>2 DEF BeginsWith, StartFine
  <2>5. Begun(t, st, kn, sp, ls)
    BY <2>2, <2>3, <2>4 DEF Begun, Starting
  <2>6. Len(h) \in Nat
    BY LenProperties DEF Entries
  <2>7. QED
    BY <2>2, <2>5, <2>6
<1>3. QED
  BY <1>1, <1>2 DEF Starts

\* What a step that begins something, or leaves the turn free, sees to.
Turned ==
    /\ Sorted(undo', kin', stamp') /\ Classes(state', kin', stamp') /\ Settled(state', stamp')
    /\ \A x \in Range(queue') : StartFine(x)'
    /\ \A t \in tasks' : TaskFine(t)' /\ Starting(t)
    /\ Covered' /\ NewestBegins

LEMMA BegunTurns ==
  ASSUME NEW t, tasks' = {t}, Begun(t, state', kin', stamp', lost'),
         \A i \in Id : state[i] \in {"done", "undone"} => state'[i] = state[i]
  PROVE  TaskFine(t)' /\ Starting(t) /\ Covered' /\ NewestBegins
<1>1. CASE t.kind = "undo"
  <2>1. Plans(t.ids) /\ Plans(t.ids)'
    BY <1>1 DEF Begun, Plans
  <2>2. TaskFine(t)'
    <3>1. /\ t.left = t.ids /\ t.at = "working" /\ \A e \in Range(undo') : e \cap t.ids = {}
      BY <1>1 DEF Begun, Starting
    <3>2. QED
      BY <1>1, <2>1, <3>1 DEF TaskFine, Plans
  <2>3. Covered'
    BY <1>1 DEF Begun, Covered
  <2>4. NewestBegins
    BY <1>1 DEF Begun, NewestBegins
  <2>5. QED
    BY <2>2, <2>3, <2>4 DEF Begun
<1>2. CASE t.kind = "change"
  <2>1. TaskFine(t)'
    BY <1>2 DEF Begun, Starting, TaskFine
  <2>2. Covered' /\ NewestBegins
    BY <1>2 DEF Begun, Covered, NewestBegins
  <2>3. QED
    BY <2>1, <2>2 DEF Begun
<1>3. QED
  BY <1>1, <1>2 DEF Begun

LEMMA ReleaseTurns ==
  ASSUME queue \in Seq(Waits), NEW t, tasks = {t}, NEW entries \in Entries, ReleaseTurn(t, entries),
         QueueFine, stamp' \in [Id -> Nat], Sorted(entries, kin', stamp'),
         Covers(Range(entries), {}, state, kin', stamp', lost'),
         Classes(state, kin', stamp'), Settled(state, stamp')
  PROVE  /\ Turned /\ Len(undo') <= Len(entries)
         /\ Len(queue') <= Len(queue) /\ (tasks' # {} => Len(queue') + 1 <= Len(queue))
         /\ \A i \in Id : state'[i] # state[i] =>
                              state[i] \in {"coming", "marked", "unmarked"} /\ stamp'[i] > 0
<1> DEFINE s == HandOver(entries)
<1>1. Passes(s, entries)
  BY HandOverKeeps
<1>2. PassFine(s, kin', stamp', lost') /\ PassCount(s, Len(queue))
  BY HandOverFine
<1>3. /\ queue' = s.queue /\ tasks \ {t} = {} /\ state' = Unmarked(s)
      /\ s.next # Nothing => Begin(s.next, s.undo, tasks \ {t})
      /\ s.next = Nothing => tasks' = tasks \ {t} /\ undo' = s.undo
  BY DEF ReleaseTurn, Unmarked
<1> HIDE DEF s
<1>4. /\ s.queue \in Seq(Waits) /\ s.undo \in Entries /\ s.next \in Starts \cup {Nothing}
      /\ Len(s.undo) <= Len(entries) /\ Len(s.undo) \in Nat /\ Len(entries) \in Nat
      /\ Len(s.queue) \in Nat /\ Len(queue) \in Nat
  BY <1>1, LenProperties DEF Passes, Passing, Entries
<1>5. /\ Classes(state', kin', stamp') /\ Sorted(s.undo, kin', stamp')
  BY <1>2, <1>3, UnmarkedClasses DEF PassFine
<1>6. /\ \A i \in Id : state'[i] # state[i] =>
                              state[i] \in {"coming", "marked", "unmarked"} /\ stamp'[i] > 0
      /\ \A i \in Id : state[i] \in {"done", "undone"} => state'[i] = state[i]
      /\ Settled(state', stamp')
  <2>1. \A i \in Id : state'[i] = IF i \in s.unmarked THEN "unmarked" ELSE state[i]
    BY <1>3 DEF Unmarked
  <2>2. \A i \in s.unmarked : i \in Id /\ stamp'[i] > 0 /\ state[i] \in {"coming", "marked", "unmarked"}
    BY <1>2 DEF PassFine
  <2>3. state' \in [Id -> State]
    BY <1>3 DEF Unmarked, Settled, State
  <2>4. \A i \in Id : stamp'[i] > 0 => state'[i] \notin {"none", "coming"}
    BY <2>1 DEF Settled
  <2>5. \A i \in Id : state'[i] # state[i] =>
                              state[i] \in {"coming", "marked", "unmarked"} /\ stamp'[i] > 0
    BY <2>1, <2>2
  <2>6. \A i \in Id : state[i] \in {"done", "undone"} => state'[i] = state[i]
    BY <2>1, <2>2
  <2>7. QED
    BY <2>3, <2>4, <2>5, <2>6 DEF Settled
<1>7. \A x \in Range(queue') : StartFine(x)'
  <2>1. \A x \in Range(queue') : StartFine(x)
    BY <1>2, <1>3 DEF PassFine
  <2>2. QED
    BY <1>6, <2>1 DEF StartFine, Plans
<1>8. CASE s.next = Nothing
  <2>1. tasks' = {} /\ undo' = s.undo
    BY <1>3, <1>8
  <2>2. Covers(Range(undo'), {}, state', kin', stamp', lost')
    BY <1>2, <1>3, <1>8, <2>1 DEF PassFine, NextFine, Nothing
  <2>3. Covered' /\ NewestBegins
    BY <2>1, <2>2 DEF Covered, NewestBegins
  <2>4. Len(queue') <= Len(queue)
    BY <1>2, <1>3, <1>4, <1>8 DEF PassCount
  <2>5. QED
    BY <1>4, <1>5, <1>6, <1>7, <2>1, <2>3, <2>4 DEF Turned
<1>9. CASE s.next # Nothing
  <2>1. Begin(s.next, s.undo, {}) /\ s.next \in Starts
    BY <1>3, <1>4, <1>9
  <2>2. BeginsWith(s.next, s.undo, state', kin', stamp', lost')
    BY <1>2, <1>3 DEF PassFine, NextFine, BeginsWith
  <2>3. /\ \E u : tasks' = {u} /\ Begun(u, state', kin', stamp', lost')
        /\ Sorted(undo', kin', stamp') /\ Len(undo') <= Len(s.undo)
    BY <1>4, <1>5, <2>1, <2>2, BeginBegins
  <2>4. PICK u : tasks' = {u} /\ Begun(u, state', kin', stamp', lost')
    BY <2>3
  <2>5. TaskFine(u)' /\ Starting(u) /\ Covered' /\ NewestBegins
    BY <1>6, <2>4, BegunTurns
  <2>6. Len(queue') + 1 <= Len(queue) /\ Len(queue') <= Len(queue)
    BY <1>2, <1>3, <1>4, <1>9 DEF PassCount
  <2>7. Turned
    BY <1>5, <1>6, <1>7, <2>3, <2>4, <2>5 DEF Turned
  <2>8. Len(undo') <= Len(entries)
    <3>1. Len(undo') \in Nat
      <4>1. undo' = s.undo \/ undo' = ForgetPlans(s.undo, s.next.ids)
        BY <2>1 DEF Begin
      <4>2. s.undo \in Seq(SUBSET Nat)
        BY <1>4 DEF Entries
      <4>3. QED
        BY <4>1, <4>2, WithoutFacts, LenProperties DEF ForgetPlans
    <3>2. QED
      BY <1>4, <2>3, <3>1
  <2>9. QED
    BY <1>6, <2>6, <2>7, <2>8
<1>10. QED
  BY <1>8, <1>9

\* A start with the turn free.
LEMMA FreeStartTurns ==
  ASSUME TurnInv, turn = FALSE, NEW x \in Starts, NEW h \in Entries, WhenFree(x, h),
         UNCHANGED <<countVars, state>>, QueueFine, Classes(state, kin, stamp),
         Settled(state, stamp), Sorted(h, kin, stamp), BeginsWith(x, h, state, kin, stamp, lost)
  PROVE  /\ Turned /\ queue' = <<>> /\ queue = <<>> /\ tasks' # {}
         /\ Len(undo') <= Len(h)
<1>1. tasks = {} /\ queue = <<>> /\ queue' = queue /\ Begin(x, h, {})
  BY DEF WhenFree, TurnInv, TurnFree, TurnTaken
<1>2. kin' = kin /\ stamp' = stamp /\ lost' = lost /\ state' = state
  BY DEF countVars
<1>3. /\ \E t : tasks' = {t} /\ Begun(t, state', kin', stamp', lost')
      /\ Sorted(undo', kin', stamp') /\ Len(undo') <= Len(h)
  BY <1>1, <1>2, BeginBegins
<1>4. PICK t : tasks' = {t} /\ Begun(t, state', kin', stamp', lost')
  BY <1>3
<1>5. TaskFine(t)' /\ Starting(t) /\ Covered' /\ NewestBegins
  BY <1>2, <1>4, BegunTurns
<1>6. \A y \in Range(queue') : StartFine(y)'
  <2>1. \A y \in Range(queue') : StartFine(y)
    BY <1>1 DEF QueueFine
  <2>2. QED
    BY <1>2, <2>1 DEF StartFine, Plans
<1>7. QED
  BY <1>1, <1>2, <1>3, <1>4, <1>5, <1>6 DEF Turned

-----------------------------------------------------------------------------
(* The invariant of the history. *)

Stamped == stamp \in [Id -> Nat] /\ \A i \in Id : stamp[i] <= pushed + returned

HistoryPart ==
    /\ Stamped /\ Settled(state, stamp) /\ Classes(state, kin, stamp)
    /\ Sorted(undo, kin, stamp) /\ Covered

TasksPart == QueueFine /\ \A t \in tasks : TaskFine(t)

Unused == \A i \in Id : i >= nextId => state[i] = "none"

\* While a Cmd-Z reads the journal nothing comes onto the history, which it found empty.
Reads ==
    reading > 0 =>
        /\ undo = <<>>
        /\ \A t \in tasks : /\ t.kind = "undo" => t.at = "working"
                            /\ t.kind = "change" => t.ids = {} /\ t.at \in {"listing", "drafting"}

\* What is asked for has room in Id: each press stands for the steps of a Tidy up at most.
Presses == later \in Nat /\ reading \in Nat /\ asks \in Nat /\ asks <= MaxAsks

StepsLeft(t) == IF t.at \in {"listing", "drafting"} THEN t.steps ELSE t.steps - 1

Waiting == Len(queue) + later + reading

Room ==
    /\ nextId + TidySteps * Waiting <= 1 + TidySteps * asks
    /\ \A t \in tasks : t.kind = "change" =>
          nextId + StepsLeft(t) + TidySteps * Waiting <= 1 + TidySteps * asks

NewestInv == TurnInv /\ HistoryPart /\ TasksPart /\ Unused /\ Reads /\ Presses /\ Room

-----------------------------------------------------------------------------
(* Room. *)

LEMMA Multiples ==
  ASSUME NEW T \in Nat, NEW a \in Nat, NEW b \in Nat
  PROVE  /\ T * (a + b) = T * a + T * b
         /\ a <= b => T * a <= T * b
         /\ T * a \in Nat
<1>1. T * (a + b) = T * a + T * b /\ T * a \in Nat
  OBVIOUS
<1>2. ASSUME a <= b PROVE T * a <= T * b
  <2> DEFINE d == b - a
  <2>1. d \in Nat /\ b = a + d
    BY <1>2
  <2> HIDE DEF d
  <2>2. T * b = T * a + T * d /\ T * d \in Nat /\ T * a \in Nat
    BY <2>1
  <2>3. QED
    BY <2>2
<1>3. QED
  BY <1>1, <1>2

LEMMA RoomMoves ==
  ASSUME NEW T \in Nat, NEW n \in Nat, NEW w \in Nat, NEW a \in Nat, NEW w2 \in Nat, NEW a2 \in Nat,
         NEW k \in Nat, n + k + T * w <= 1 + T * a, w2 + a <= w + a2
  PROVE  /\ n + k + T * w2 <= 1 + T * a2
         /\ \A m \in Nat : m <= T /\ w2 + 1 + a <= w + a2 => n + m + T * w2 <= 1 + T * a2
<1>1. T * (w2 + a) = T * w2 + T * a /\ T * (w + a2) = T * w + T * a2 /\ T * (w2 + a) <= T * (w + a2)
  <2>1. w2 + a \in Nat /\ w + a2 \in Nat
    OBVIOUS
  <2>2. QED
    BY <2>1, Multiples
<1>2. T * w2 \in Nat /\ T * a \in Nat /\ T * w \in Nat /\ T * a2 \in Nat
  BY Multiples
<1>3. ASSUME NEW m \in Nat, m <= T, w2 + 1 + a <= w + a2
      PROVE  n + m + T * w2 <= 1 + T * a2
  <2>1. T * ((w2 + a) + 1) = T * (w2 + a) + T * 1 /\ T * 1 = T
    BY Multiples
  <2>2. T * ((w2 + a) + 1) <= T * (w + a2)
    <3>1. (w2 + a) + 1 \in Nat /\ w + a2 \in Nat /\ (w2 + a) + 1 <= w + a2
      BY <1>3
    <3>2. QED
      BY <3>1, Multiples
  <2> DEFINE p == T * w2
             q == T * a
             r == T * w
             z == T * a2
             y == T * (w2 + a)
             x == T * ((w2 + a) + 1)
  <2>3. /\ p \in Nat /\ q \in Nat /\ r \in Nat /\ z \in Nat /\ y = p + q /\ x = y + T /\ x <= r + z
        /\ n + k + r <= 1 + q
    BY <1>1, <1>2, <2>1, <2>2
  <2> HIDE DEF p, q, r, z, y, x
  <2>4. n + m + p <= 1 + z
    BY <1>3, <2>3
  <2>5. QED
    BY <2>4 DEF p, z
<1> DEFINE p == T * w2
           q == T * a
           r == T * w
           z == T * a2
<1>4. p \in Nat /\ q \in Nat /\ r \in Nat /\ z \in Nat /\ p + q <= r + z /\ n + k + r <= 1 + q
  BY <1>1, <1>2
<1> HIDE DEF p, q, r, z
<1>5. n + k + p <= 1 + z
  BY <1>4
<1>6. QED
  BY <1>3, <1>5 DEF p, z

\* The numbers that Room is about.
LEMMA RoomNumbers ==
  ASSUME NewestInv
  PROVE  /\ nextId \in Nat /\ TidySteps \in Nat \ {0} /\ MaxAsks \in Nat /\ Len(queue) \in Nat
         /\ Waiting \in Nat /\ later \in Nat /\ reading \in Nat /\ asks \in Nat /\ asks <= MaxAsks
         /\ nextId + 0 + TidySteps * Waiting <= 1 + TidySteps * asks
<1>1. Len(queue) \in Nat
  BY LenProperties DEF NewestInv, TurnInv
<1>2. nextId \in Nat /\ TidySteps \in Nat \ {0} /\ MaxAsks \in Nat
  BY ChangesAssumption DEF NewestInv, TurnInv, CountTypes
<1>3. later \in Nat /\ reading \in Nat /\ asks \in Nat /\ asks <= MaxAsks
  BY DEF NewestInv, Presses
<1>4. Waiting \in Nat
  BY <1>1, <1>3 DEF Waiting
<1>5. QED
  BY <1>1, <1>2, <1>3, <1>4 DEF NewestInv, Room

\* A press or a wait more or less, with nothing begun.
LEMMA RoomStays ==
  ASSUME NewestInv, TurnInv', Presses', nextId' = nextId, Waiting' + asks <= Waiting + asks',
         \A t \in tasks' : t \in tasks
  PROVE  Room'
<1>1. /\ nextId \in Nat /\ TidySteps \in Nat /\ Waiting \in Nat /\ asks \in Nat /\ asks' \in Nat
      /\ nextId + 0 + TidySteps * Waiting <= 1 + TidySteps * asks
  BY RoomNumbers DEF Presses
<1>2. Waiting' \in Nat
  BY LenProperties DEF TurnInv, Waiting, Presses
<1>3. nextId + 0 + TidySteps * Waiting' <= 1 + TidySteps * asks'
  BY <1>1, <1>2, RoomMoves
<1>4. ASSUME NEW t \in tasks', t.kind = "change"
      PROVE  nextId + StepsLeft(t) + TidySteps * Waiting' <= 1 + TidySteps * asks'
  <2>1. t \in tasks /\ TaskFine(t) /\ nextId + StepsLeft(t) + TidySteps * Waiting <= 1 + TidySteps * asks
    BY <1>4 DEF NewestInv, TasksPart, Room
  <2>2. StepsLeft(t) \in Nat
    BY <1>4, <2>1, ChangesAssumption DEF TaskFine, StepsLeft
  <2> DEFINE k == StepsLeft(t)
  <2> HIDE DEF k
  <2>3. k \in Nat /\ nextId + k + TidySteps * Waiting <= 1 + TidySteps * asks
    BY <2>1, <2>2 DEF k
  <2>4. nextId + k + TidySteps * Waiting' <= 1 + TidySteps * asks'
    BY <1>1, <1>2, <2>3, RoomMoves
  <2>5. QED
    BY <2>4 DEF k
<1>5. nextId + TidySteps * Waiting' <= 1 + TidySteps * asks'
  <2> DEFINE p == TidySteps * Waiting'
             q == TidySteps * asks'
  <2>1. nextId + 0 + p <= 1 + q /\ nextId \in Nat
    BY <1>1, <1>3
  <2>2. p \in Nat /\ q \in Nat
    BY <1>1, <1>2, Multiples
  <2> HIDE DEF p, q
  <2>3. nextId + p <= 1 + q
    BY <2>1, <2>2
  <2>4. QED
    BY <2>3 DEF p, q
<1>6. QED
  BY <1>4, <1>5 DEF Room, StepsLeft

\* Something is begun, which no longer waits.
LEMMA RoomBegins ==
  ASSUME NewestInv, TurnInv', Presses', nextId' = nextId, Waiting' + asks <= Waiting + asks',
         \A t \in tasks' : Starting(t),
         tasks' # {} => Waiting' + 1 + asks <= Waiting + asks'
  PROVE  Room'
<1>1. /\ nextId \in Nat /\ TidySteps \in Nat /\ Waiting \in Nat /\ asks \in Nat /\ asks' \in Nat
      /\ nextId + 0 + TidySteps * Waiting <= 1 + TidySteps * asks
  BY RoomNumbers DEF Presses
<1>2. Waiting' \in Nat
  BY LenProperties DEF TurnInv, Waiting, Presses
<1>3. nextId + 0 + TidySteps * Waiting' <= 1 + TidySteps * asks'
  BY <1>1, <1>2, RoomMoves
<1>4. ASSUME NEW t \in tasks', t.kind = "change"
      PROVE  nextId + StepsLeft(t) + TidySteps * Waiting' <= 1 + TidySteps * asks'
  <2> DEFINE k == StepsLeft(t)
  <2>1. k \in Nat /\ k <= TidySteps
    BY <1>1, <1>4 DEF Starting, StepsLeft
  <2>2. Waiting' + 1 + asks <= Waiting + asks'
    OBVIOUS
  <2> HIDE DEF k
  <2>3. nextId + k + TidySteps * Waiting' <= 1 + TidySteps * asks'
    BY <1>1, <1>2, <2>1, <2>2, RoomMoves
  <2>4. QED
    BY <2>3 DEF k
<1>5. nextId + TidySteps * Waiting' <= 1 + TidySteps * asks'
  <2> DEFINE p == TidySteps * Waiting'
             q == TidySteps * asks'
  <2>1. nextId + 0 + p <= 1 + q /\ nextId \in Nat
    BY <1>1, <1>3
  <2>2. p \in Nat /\ q \in Nat
    BY <1>1, <1>2, Multiples
  <2> HIDE DEF p, q
  <2>3. nextId + p <= 1 + q
    BY <2>1, <2>2
  <2>4. QED
    BY <2>3 DEF p, q
<1>6. QED
  BY <1>4, <1>5 DEF Room, StepsLeft

\* The task goes on with no more steps left; what it numbers it no longer has left.
LEMMA RoomGoesOn ==
  ASSUME NewestInv, NEW t \in tasks, NEW u, tasks' = {u}, u.kind = t.kind, UNCHANGED <<queue, later, reading, asks>>,
         nextId' \in Nat,
         t.kind = "undo" => nextId' = nextId,
         t.kind = "change" => /\ StepsLeft(u) \in Nat /\ StepsLeft(t) \in Nat
                              /\ nextId' + StepsLeft(u) <= nextId + StepsLeft(t)
  PROVE  Room'
<1> DEFINE p == TidySteps * Waiting
           q == TidySteps * asks
<1>1. p \in Nat /\ q \in Nat /\ nextId \in Nat /\ nextId + p <= 1 + q
  BY RoomNumbers, Multiples DEF NewestInv, Room
<1>2. t.kind = "change" => nextId + StepsLeft(t) + p <= 1 + q
  BY DEF NewestInv, Room
<1>3. Waiting' = Waiting /\ asks' = asks
  BY DEF Waiting
<1>4. t.kind \in {"change", "undo"}
  BY TaskKinds DEF NewestInv
<1> HIDE DEF p, q
<1>5. /\ nextId' + p <= 1 + q
      /\ t.kind = "change" => nextId' + StepsLeft(u) + p <= 1 + q
  <2>1. CASE t.kind = "undo"
    BY <1>1, <2>1
  <2>2. CASE t.kind = "change"
    <3> DEFINE k == StepsLeft(t)
               l == StepsLeft(u)
    <3>1. k \in Nat /\ l \in Nat /\ nextId' + l <= nextId + k /\ nextId + k + p <= 1 + q
      BY <1>2, <2>2
    <3> DEFINE m == nextId'
               n == nextId
    <3> HIDE DEF k, l, m, n
    <3>2. m \in Nat /\ n \in Nat /\ m + l <= n + k
      BY <1>1, <3>1 DEF m, n
    <3>4. n + k + p <= 1 + q
      BY <3>1 DEF n
    <3>5. m + p <= 1 + q /\ m + l + p <= 1 + q
      BY <1>1, <3>1, <3>2, <3>4
    <3>6. nextId' + p <= 1 + q /\ nextId' + l + p <= 1 + q
      BY <3>5 DEF m
    <3>3. QED
      BY <3>6 DEF l
  <2>3. QED
    BY <1>4, <2>1, <2>2
<1>6. QED
  BY <1>3, <1>5 DEF Room, StepsLeft, p, q

LEMMA IdIs == \A n \in Nat : n <= TidySteps * MaxAsks => n \in Id
<1>1. MaxAsks * TidySteps = TidySteps * MaxAsks /\ MaxAsks * TidySteps \in Nat
  BY ChangesAssumption
<1>2. QED
  BY <1>1 DEF Id

LEMMA NextIsAnId ==
  ASSUME NewestInv
  PROVE  /\ \A t \in tasks : t.kind = "change" /\ t.at \in {"listing", "drafting"} => nextId \in Id
         /\ asks < MaxAsks => nextId \in Id
<1> DEFINE p == TidySteps * Waiting
           q == TidySteps * asks
           r == TidySteps * MaxAsks
<1>1. /\ p \in Nat /\ q \in Nat /\ r \in Nat /\ nextId \in Nat /\ nextId + p <= 1 + q /\ q <= r
  BY RoomNumbers, Multiples DEF NewestInv, Room
<1>2. asks < MaxAsks => q + TidySteps <= r
  <2> SUFFICES ASSUME asks < MaxAsks PROVE q + TidySteps <= r
    OBVIOUS
  <2>1. asks + 1 \in Nat /\ asks + 1 <= MaxAsks /\ asks \in Nat /\ MaxAsks \in Nat /\ TidySteps \in Nat
    BY RoomNumbers
  <2>2. TidySteps * (asks + 1) = q + TidySteps * 1 /\ TidySteps * (asks + 1) <= r
    BY <2>1, Multiples
  <2>3. TidySteps * 1 = TidySteps
    BY <2>1
  <2>4. QED
    BY <2>2, <2>3
<1>3. ASSUME NEW t \in tasks, t.kind = "change", t.at \in {"listing", "drafting"} PROVE nextId \in Id
  <2>1. nextId + t.steps + p <= 1 + q /\ t.steps \in Nat /\ t.steps >= 1
    BY <1>3, ChangesAssumption DEF NewestInv, Room, StepsLeft, TasksPart, TaskFine
  <2> HIDE DEF p, q
  <2>2. nextId <= r
    BY <1>1, <2>1
  <2>3. QED
    BY <1>1, <2>2, IdIs
<1>4. ASSUME asks < MaxAsks PROVE nextId \in Id
  <2>1. TidySteps \in Nat \ {0}
    BY ChangesAssumption
  <2>2. nextId <= r
    <3> HIDE DEF p, q, r
    <3>1. QED
      BY <1>1, <1>2, <1>4, <2>1
  <2>3. QED
    BY <1>1, <2>2, IdIs
<1>5. QED
  BY <1>3, <1>4

-----------------------------------------------------------------------------
(* The steps: what they have in common. *)

\* An entry comes onto the history.
LEMMA ArrivesFine ==
  ASSUME NewestInv, NEW st, NEW e \in SUBSET Id, e # {}, Arrives(e),
         pushed' + returned' = pushed + returned + 1, NEW gone, NEW kept, gone \subseteq e \cup kept,
         Classes(st, kin, stamp), Settled(st, stamp), Covers(Range(undo), gone, st, kin, stamp, lost),
         \A d \in Range(undo) : d \cap e = {},
         \A i \in e : st[i] \notin {"none", "coming"},
         \/ \A i \in e : st[i] \notin {"coming", "marked", "unmarked"}
         \/ \E i \in Id : e = {i} /\ kin[i] = {i}
  PROVE  /\ Stamped' /\ Classes(st, kin', stamp') /\ Settled(st, stamp')
         /\ \A i \in Id : i \notin e => stamp'[i] = stamp[i]
         /\ Sorted(KeepEntry(undo, e), kin', stamp')
         /\ Range(KeepEntry(undo, e)) \subseteq Range(undo) \cup {e}
         /\ Covers(Range(KeepEntry(undo, e)), kept, st, kin', stamp', lost')
<1> DEFINE top == pushed + returned + 1
           out == IF Len(undo) >= UNDO_LIMIT THEN Head(undo) ELSE {}
<1>1. Arrived2(e, top, out, kin, stamp, lost, kin', stamp', lost')
  BY DEF Arrives, Arrived2, Joined
<1>2. /\ stamp \in [Id -> Nat] /\ top \in Nat /\ top > 0 /\ \A i \in Id : stamp[i] < top
      /\ pushed' + returned' = top
  BY DEF NewestInv, HistoryPart, Stamped, TurnInv, CountTypes
<1>3. \A d \in Range(undo) : Entry(d, kin, stamp)
  BY DEF NewestInv, HistoryPart, Sorted
<1> HIDE DEF top, out
<1>4. stamp' = [i \in Id |-> IF i \in e THEN top ELSE stamp[i]]
  BY <1>1 DEF Arrived2
<1>5. Stamped'
  <2>1. stamp' \in [Id -> Nat]
    BY <1>2, <1>4
  <2>2. \A i \in Id : stamp'[i] <= top
    BY <1>2, <1>4
  <2>3. QED
    BY <1>2, <2>1, <2>2 DEF Stamped
<1>6. Settled(st, stamp')
  BY <1>4 DEF Settled
<1>7. Classes(st, kin', stamp')
  BY <1>1, <1>2, ArrivedClasses
<1>8. /\ Entry(e, kin', stamp')
      /\ \A d \in Range(undo) : Entry(d, kin', stamp') /\ \A i \in d : stamp'[i] = stamp[i]
  <2> DEFINE kn2 == kin'
             sp2 == stamp'
             ls2 == lost'
  <2>1. Arrived2(e, top, out, kin, stamp, lost, kn2, sp2, ls2) /\ Classes(st, kin, stamp)
    BY <1>1
  <2> HIDE DEF kn2, sp2, ls2
  <2>2. /\ Entry(e, kn2, sp2)
        /\ \A d : Entry(d, kin, stamp) /\ d \cap e = {} =>
               Entry(d, kn2, sp2) /\ \A i \in d : sp2[i] = stamp[i]
    BY <1>2, <2>1, ArrivedEntries
  <2>3. QED
    BY <1>3, <2>2 DEF kn2, sp2
<1>9. \A i \in e : stamp'[i] = top
  BY <1>4
<1>10. e \in SUBSET Nat /\ HistoryTypes /\ Sorted(undo, kin, stamp)
  BY IdsAreNumbers DEF NewestInv, HistoryPart, TurnInv
<1>11. /\ Sorted(KeepEntry(undo, e), kin', stamp')
       /\ Range(KeepEntry(undo, e)) \subseteq Range(undo) \cup {e}
       /\ \E left : /\ Range(KeepEntry(undo, e)) = left \cup {e}
                    /\ Leaves(Range(undo), left, out)
  <2> DEFINE kn2 == kin'
             sp2 == stamp'
  <2>1. Entry(e, kn2, sp2) /\ Stamps(e, sp2, top) /\ Through(Range(undo), kn2, stamp, sp2)
    BY <1>8, <1>9 DEF Stamps, Through
  <2>2. /\ stamp \in [Id -> Nat] /\ Older(stamp, top)
        /\ e \in SUBSET Nat /\ HistoryTypes /\ Sorted(undo, kin, stamp)
    BY <1>2, <1>10 DEF Older
  <2> HIDE DEF kn2, sp2
  <2>3. /\ Sorted(KeepEntry(undo, e), kn2, sp2)
        /\ Range(KeepEntry(undo, e)) \subseteq Range(undo) \cup {e}
        /\ \E left : /\ Range(KeepEntry(undo, e)) = left \cup {e}
                     /\ Leaves(Range(undo), left,
                               IF Len(undo) >= UNDO_LIMIT THEN Head(undo) ELSE {})
    BY <2>1, <2>2, KeepSorted
  <2>4. QED
    BY <2>3 DEF kn2, sp2, out
<1>12. Covers(Range(KeepEntry(undo, e)), kept, st, kin', stamp', lost')
  <2>1. PICK left : /\ Range(KeepEntry(undo, e)) = left \cup {e}
                    /\ Leaves(Range(undo), left, out)
    BY <1>11
  <2> DEFINE es == Range(undo)
  <2>2. /\ Entries2(es, kin, stamp) /\ Leaves(es, left, out)
        /\ Covers(es, gone, st, kin, stamp, lost)
    BY <1>3, <2>1 DEF Entries2
  <2> DEFINE kn2 == kin'
             sp2 == stamp'
             ls2 == lost'
  <2>3. /\ Arrived2(e, top, out, kin, stamp, lost, kn2, sp2, ls2)
        /\ stamp \in [Id -> Nat] /\ Older(stamp, top)
    BY <1>1, <1>2 DEF Older
  <2> HIDE DEF es, kn2, sp2, ls2
  <2>4. Covers(left \cup {e}, kept, st, kn2, sp2, ls2)
    BY <2>2, <2>3, ArrivedCovers
  <2>5. QED
    BY <2>1, <2>4 DEF kn2, sp2, ls2
<1>13. \A i \in Id : i \notin e => stamp'[i] = stamp[i]
  BY <1>4
<1>14. QED
  BY <1>5, <1>6, <1>7, <1>11, <1>12, <1>13

\* What becomes of plans and decisions elsewhere leaves the tasks and what waits as they are.
LEMMA TasksStay ==
  ASSUME NewestInv, tasks' = tasks, queue' = queue, nextId' \in Nat, nextId <= nextId',
         \A i \in Id : state[i] \in {"done", "undone"} => state'[i] = state[i],
         \A i \in Id : i < nextId /\ state[i] # "coming" =>
            /\ state'[i] # "coming" /\ stamp'[i] = stamp[i]
            /\ state[i] = "none" => state'[i] = "none",
         \A e \in Range(undo') : e \in Range(undo) \/ \E i \in Id : e = {i} /\ state[i] = "coming"
  PROVE  TasksPart' /\ NewestBegins
<1>1. QueueFine'
  <2>1. \A x \in Range(queue) : StartFine(x)
    BY DEF NewestInv, TasksPart, QueueFine
  <2>2. \A ids : Plans(ids) => Plans(ids)'
    BY DEF Plans
  <2>3. QED
    BY <2>1, <2>2 DEF QueueFine, StartFine
<1>2. ASSUME NEW t \in tasks PROVE TaskFine(t)'
  <2>1. TaskFine(t)
    BY DEF NewestInv, TasksPart
  <2>2. CASE t.kind = "undo"
    <3>1. /\ Plans(t.ids) /\ t.left # {} /\ t.left \subseteq t.ids
          /\ \A i \in t.ids \ t.left : state[i] = "undone"
          /\ t.at = "ended" /\ t.how = "done" => state[Newest(t.left)] = "undone"
          /\ \A e \in Range(undo) : e \cap t.ids = {}
      BY <2>1, <2>2 DEF TaskFine
    <3>2. t.ids \subseteq Id /\ Newest(t.left) \in Id
      BY <3>1, NewestIs DEF Plans
    <3>3. Plans(t.ids)'
      BY <3>1 DEF Plans
    <3>4. /\ \A i \in t.ids \ t.left : state'[i] = "undone"
          /\ t.at = "ended" /\ t.how = "done" => state'[Newest(t.left)] = "undone"
      BY <3>1, <3>2
    <3>5. \A e \in Range(undo') : e \cap t.ids = {}
      BY <3>1 DEF Plans
    <3>6. QED
      BY <2>2, <3>1, <3>3, <3>4, <3>5 DEF TaskFine
  <2>3. CASE t.kind = "change"
    <3>1. nextId \in Nat
      BY DEF NewestInv, TurnInv, CountTypes
    <3>2. /\ \A i \in t.ids : i \in Id /\ i < nextId /\ stamp[i] = 0 /\ state[i] # "coming"
          /\ t.at \notin {"listing", "drafting"} =>
                t.plan \in Id /\ t.plan < nextId /\ stamp[t.plan] = 0 /\ state[t.plan] # "coming"
          /\ t.at = "working" => state[t.plan] = "none"
          /\ t.steps \in 1 .. TidySteps
      BY <2>1, <2>3 DEF TaskFine
    <3>3. \A i \in Id : i < nextId => i < nextId'
      BY <3>1, IdsAreNumbers
    <3>4. /\ \A i \in t.ids : i \in Id /\ i < nextId' /\ stamp'[i] = 0 /\ state'[i] # "coming"
          /\ t.at \notin {"listing", "drafting"} =>
                t.plan \in Id /\ t.plan < nextId' /\ stamp'[t.plan] = 0 /\ state'[t.plan] # "coming"
          /\ t.at = "working" => state'[t.plan] = "none"
      BY <3>2, <3>3
    <3>5. QED
      BY <2>3, <3>2, <3>4 DEF TaskFine
  <2>4. QED
    BY <2>2, <2>3, TaskKinds DEF NewestInv
<1>3. NewestBegins
  BY DEF NewestBegins
<1>4. QED
  BY <1>1, <1>2, <1>3 DEF TasksPart

\* What the invariant says of the history, of whatever has the turn.
LEMMA CoveredBy ==
  ASSUME NewestInv
  PROVE  /\ tasks = {} => Covers(Range(undo), {}, state, kin, stamp, lost)
         /\ \A t \in tasks : t.kind = "change" => Covers(Range(undo), {}, state, kin, stamp, lost)
         /\ \A t \in tasks : t.kind = "undo" => Covers(Range(undo), t.ids, state, kin, stamp, lost)
         /\ \E gone : /\ Covers(Range(undo), gone, state, kin, stamp, lost)
                      /\ \/ (\A t \in tasks : t.kind # "undo") /\ gone = {}
                         \/ \E t \in tasks : t.kind = "undo" /\ gone = t.ids
<1>1. \A t, u \in tasks : t = u
  BY TheTask DEF NewestInv
<1>2. Covered
  BY DEF NewestInv, HistoryPart
<1>3. QED
  BY <1>1, <1>2 DEF Covered

\* Nothing of the history or of the plans changes, nor what is begun; something may wait, or no more.
LEMMA WaitingChanges ==
  ASSUME NewestInv, TurnInv', Presses', UNCHANGED <<tasks, historyVars, catalogVars>>,
         \A x \in Range(queue') : StartFine(x), Waiting' + asks <= Waiting + asks',
         reading' > 0 => reading > 0 \/ (undo = <<>> /\ tasks = {})
  PROVE  NewestInv' /\ NewestBegins
<1>1. /\ tasks' = tasks /\ undo' = undo /\ kin' = kin /\ stamp' = stamp /\ lost' = lost
      /\ pushed' = pushed /\ returned' = returned /\ state' = state /\ nextId' = nextId
  BY DEF historyVars, countVars, catalogVars
<1>2. HistoryPart'
  BY <1>1 DEF NewestInv, HistoryPart, Stamped, Covered
<1>3. TasksPart'
  <2>1. \A t \in tasks : TaskFine(t)'
    BY <1>1 DEF NewestInv, TasksPart, TaskFine, Plans
  <2>2. QED
    BY <1>1, <2>1 DEF TasksPart, QueueFine, StartFine, Plans
<1>4. Unused'
  BY <1>1 DEF NewestInv, Unused
<1>5. Reads'
  BY <1>1 DEF NewestInv, Reads
<1>6. Room'
  BY <1>1, RoomStays
<1>7. NewestBegins
  BY <1>1 DEF NewestBegins
<1>8. QED
  BY <1>2, <1>3, <1>4, <1>5, <1>6, <1>7 DEF NewestInv

\* Something is begun.
LEMMA BeginsKeep ==
  ASSUME NewestInv, TurnInv', Presses', Turned, Stamped', nextId' = nextId,
         \A i \in Id : state[i] = "none" => state'[i] = "none",
         reading' > 0 => undo' = <<>>,
         Waiting' + asks <= Waiting + asks', tasks' # {} => Waiting' + 1 + asks <= Waiting + asks'
  PROVE  NewestInv' /\ NewestBegins
<1>1. HistoryPart' /\ TasksPart' /\ NewestBegins
  BY DEF Turned, HistoryPart, TasksPart, QueueFine
<1>2. Unused'
  BY DEF NewestInv, Unused
<1>3. Reads'
  BY DEF Turned, Starting, Reads
<1>4. Room'
  BY RoomBegins DEF Turned
<1>5. QED
  BY <1>1, <1>2, <1>3, <1>4 DEF NewestInv

-----------------------------------------------------------------------------
(* The steps of what has the turn. *)

\* A task goes on; of the plans it changes one.
LEMMA GoesOnFine ==
  ASSUME NewestInv, TurnInv', NEW t \in tasks, NEW u, tasks' = {u}, u.kind = t.kind,
         UNCHANGED <<queue, historyVars, later, reading, asks>>,
         TaskFine(u)', Settled(state', stamp), Unused', Room',
         \A i \in Id : state[i] = "undone" => state'[i] = "undone",
         \A i \in Id : state[i] \in {"done", "undone"} => state'[i] \in {"done", "undone"},
         \A i \in Id : stamp[i] > 0 /\ state'[i] \in {"done", "marked"} =>
                          state[i] \in {"done", "marked"},
         \A i \in Id : state'[i] \in {"coming", "marked", "unmarked"} => state'[i] = state[i],
         t.kind = "undo" => u.ids = t.ids /\ (u.at # "working" \/ u.left # u.ids),
         reading > 0 => /\ t.kind = "undo" => u.at = "working"
                        /\ t.kind = "change" => u.ids = {} /\ u.at \in {"listing", "drafting"}
  PROVE  NewestInv' /\ NewestBegins
<1>1. /\ undo' = undo /\ kin' = kin /\ stamp' = stamp /\ lost' = lost
      /\ pushed' = pushed /\ returned' = returned
      /\ queue' = queue /\ later' = later /\ reading' = reading /\ asks' = asks
  BY DEF historyVars, countVars
<1>2. HistoryPart'
  <2>1. Stamped' /\ Sorted(undo', kin', stamp') /\ Settled(state', stamp')
    BY <1>1 DEF NewestInv, HistoryPart, Stamped
  <2>2. Classes(state', kin', stamp')
    BY <1>1 DEF NewestInv, HistoryPart, Classes
  <2>3. \A i \in Id : kin[i] \subseteq Id
    BY DEF NewestInv, HistoryPart, Classes
  <2>4. \A gone : Covers(Range(undo), gone, state, kin, stamp, lost)
                    => Covers(Range(undo), gone, state', kin, stamp, lost)
    BY <2>3, StillCovers
  <2>5. Covered'
    <3>1. CASE t.kind = "undo"
      <4>1. Covers(Range(undo), u.ids, state', kin, stamp, lost)
        BY <2>4, <3>1, CoveredBy
      <4>2. QED
        BY <1>1, <3>1, <4>1 DEF Covered
    <3>2. CASE t.kind = "change"
      <4>1. Covers(Range(undo), {}, state', kin, stamp, lost)
        BY <2>4, <3>2, CoveredBy
      <4>2. QED
        BY <1>1, <3>2, <4>1 DEF Covered
    <3>3. QED
      BY <3>1, <3>2, TaskKinds DEF NewestInv
  <2>6. QED
    BY <2>1, <2>2, <2>5 DEF HistoryPart
<1>3. TasksPart'
  <2>1. \A x \in Range(queue) : StartFine(x)
    BY DEF NewestInv, TasksPart, QueueFine
  <2>2. \A ids : Plans(ids) => Plans(ids)'
    BY DEF Plans
  <2>3. QueueFine'
    BY <1>1, <2>1, <2>2 DEF QueueFine, StartFine
  <2>4. QED
    BY <2>3 DEF TasksPart
<1>4. Reads'
  BY <1>1 DEF NewestInv, Reads
<1>5. NewestBegins
  BY DEF NewestBegins
<1>6. Presses'
  BY <1>1 DEF NewestInv, Presses
<1>7. QED
  BY <1>2, <1>3, <1>4, <1>5, <1>6 DEF NewestInv

\* A task of a change, by the invariant.
LEMMA ChangeTask ==
  ASSUME NewestInv, NEW t \in tasks, t.kind = "change"
  PROVE  /\ t \in [kind : {"change"}, tidies : BOOLEAN, steps : Nat, ids : SUBSET Nat, plan : Nat,
                   at : Stage, how : How]
         /\ tasks = {t} /\ t.steps \in 1 .. TidySteps
         /\ \A i \in t.ids : i \in Id /\ i < nextId /\ stamp[i] = 0 /\ state[i] # "coming"
         /\ t.at \notin {"listing", "drafting"} =>
               t.plan \in Id /\ t.plan < nextId /\ stamp[t.plan] = 0 /\ state[t.plan] # "coming"
         /\ t.at = "working" => state[t.plan] = "none"
         /\ reading > 0 => t.ids = {} /\ t.at \in {"listing", "drafting"}
         /\ StepsLeft(t) \in Nat
<1>1. TaskFine(t)
  BY DEF NewestInv, TasksPart
<1>2. t.steps \in 1 .. TidySteps
  BY <1>1 DEF TaskFine
<1>3. StepsLeft(t) \in Nat
  BY <1>2, ChangesAssumption DEF StepsLeft
<1>4. QED
  BY <1>1, <1>2, <1>3, TaskKinds, TheTask DEF NewestInv, TaskFine, Reads

\* What a release makes of the rest.
LEMMA ReleasedKeeps ==
  ASSUME NewestInv, TurnInv', UNCHANGED <<nextId, later, reading, asks>>, Turned, Stamped',
         NEW h \in Entries, reading > 0 => h = <<>>, Len(undo') <= Len(h), Len(queue') <= Len(queue),
         tasks' # {} => Len(queue') + 1 <= Len(queue),
         \A i \in Id : state'[i] # state[i] =>
                              state[i] \in {"coming", "marked", "unmarked"} /\ stamp'[i] > 0
  PROVE  NewestInv' /\ NewestBegins
<1>1. Len(queue) \in Nat /\ Len(queue') \in Nat /\ Len(undo') \in Nat
  BY LenProperties DEF NewestInv, TurnInv, HistoryTypes, Entries
<1>2. /\ later \in Nat /\ reading \in Nat /\ asks \in Nat /\ later' = later /\ reading' = reading
      /\ asks' = asks /\ Presses'
  BY DEF NewestInv, Presses
<1>3. /\ Waiting' + asks <= Waiting + asks'
      /\ tasks' # {} => Waiting' + 1 + asks <= Waiting + asks'
  BY <1>1, <1>2 DEF Waiting
<1>4. reading' > 0 => undo' = <<>>
  <2> SUFFICES ASSUME reading > 0 PROVE undo' = <<>>
    BY <1>2
  <2>1. Len(undo') = 0
    BY <1>1, EmptySeq
  <2>2. QED
    BY <2>1, EmptySeq DEF TurnInv, HistoryTypes, Entries
<1>5. \A i \in Id : state[i] = "none" => state'[i] = "none"
  OBVIOUS
<1>6. QED
  BY <1>2, <1>3, <1>4, <1>5, BeginsKeep

LEMMA AnnounceFine ==
  ASSUME NewestInv, TurnInv', NEW t \in tasks, t.kind = "change", NEW ids \in SUBSET Id,
         \A i \in ids : stamp[i] = 0, reading > 0 => ids = {}, Announce(t, ids),
         UNCHANGED <<nextId, later, reading, asks>>
  PROVE  NewestInv' /\ NewestBegins
<1> DEFINE got == {i \in ids : state[i] = "done"}
           h == IF got # {} THEN KeepEntry(undo, got) ELSE undo
<1>1. /\ IF got # {} THEN PushEntry(got) ELSE UNCHANGED countVars
      /\ ReleaseTurn(t, h)
  BY DEF Announce
<1>2. /\ got \in SUBSET Id /\ got \in SUBSET Nat
      /\ \A i \in got : stamp[i] = 0 /\ state[i] = "done"
      /\ ids = {} => got = {}
  BY IdsAreNumbers
<1>3. /\ Covers(Range(undo), {}, state, kin, stamp, lost) /\ Classes(state, kin, stamp)
      /\ Settled(state, stamp) /\ Sorted(undo, kin, stamp) /\ Stamped /\ HistoryTypes /\ QueueFine
      /\ queue \in Seq(Waits) /\ tasks = {t}
  BY CoveredBy, TheTask DEF NewestInv, HistoryPart, TurnInv, TasksPart
<1> HIDE DEF got
<1>4. /\ Stamped' /\ Classes(state, kin', stamp') /\ Settled(state, stamp')
      /\ Sorted(h, kin', stamp') /\ Covers(Range(h), {}, state, kin', stamp', lost')
      /\ h \in Entries
  <2>1. CASE got = {}
    <3>1. UNCHANGED countVars /\ h = undo
      BY <1>1, <2>1
    <3>2. kin' = kin /\ stamp' = stamp /\ lost' = lost /\ pushed' = pushed /\ returned' = returned
      BY <3>1 DEF countVars
    <3>3. QED
      BY <1>3, <3>1, <3>2 DEF Stamped, HistoryTypes
  <2>2. CASE got # {}
    <3>1. PushEntry(got) /\ h = KeepEntry(undo, got)
      BY <1>1, <2>2
    <3>2. Arrives(got) /\ pushed' + returned' = pushed + returned + 1
      BY <3>1 DEF PushEntry, NewestInv, TurnInv, CountTypes
    <3>3. \A d \in Range(undo) : d \cap got = {}
      <4>1. \A d \in Range(undo) : \A i \in d : stamp[i] > 0
        BY <1>3 DEF Sorted, Entry
      <4>2. \A i \in got : ~(stamp[i] > 0)
        BY <1>2
      <4>3. QED
        BY <4>1, <4>2
    <3>4. \A i \in got : state[i] \notin {"none", "coming"} /\ state[i] \notin {"coming", "marked", "unmarked"}
      BY <1>2
    <3>5. {} \subseteq got \cup {}
      OBVIOUS
    <3>6. /\ Stamped' /\ Classes(state, kin', stamp') /\ Settled(state, stamp')
          /\ Sorted(KeepEntry(undo, got), kin', stamp')
          /\ Covers(Range(KeepEntry(undo, got)), {}, state, kin', stamp', lost')
      BY <1>2, <1>3, <2>2, <3>2, <3>3, <3>4, <3>5, ArrivesFine
    <3>7. KeepEntry(undo, got) \in Entries
      BY <1>2, <1>3, KeepEntryFacts
    <3>8. QED
      BY <3>1, <3>6, <3>7
  <2>3. QED
    BY <2>1, <2>2
<1>5. reading > 0 => h = <<>>
  BY <1>2 DEF NewestInv, Reads
<1> HIDE DEF h
<1>6. stamp' \in [Id -> Nat]
  BY <1>4 DEF Stamped
<1>7. /\ Turned /\ Len(undo') <= Len(h)
      /\ Len(queue') <= Len(queue) /\ (tasks' # {} => Len(queue') + 1 <= Len(queue))
      /\ \A i \in Id : state'[i] # state[i] =>
                              state[i] \in {"coming", "marked", "unmarked"} /\ stamp'[i] > 0
  BY <1>1, <1>3, <1>4, <1>6, ReleaseTurns
<1>8. QED
  BY <1>4, <1>5, <1>7, ReleasedKeeps

LEMMA GoOnFine ==
  ASSUME NewestInv, TurnInv', NEW t \in tasks, t.kind = "change", NEW ids \in SUBSET Id,
         \A i \in ids : i < nextId /\ stamp[i] = 0 /\ state[i] # "coming",
         reading > 0 => ids = {}, GoOn(t, ids), UNCHANGED <<nextId, later, reading, asks>>
  PROVE  NewestInv' /\ NewestBegins
<1>1. CASE t.steps > 1
  <2>1. PICK at \in StepStarts(t) :
          /\ Becomes(t, [t EXCEPT !.ids = ids, !.steps = t.steps - 1, !.at = at])
          /\ UNCHANGED <<turn, undoes, queue, historyVars, state>>
    BY <1>1 DEF GoOn
  <2> DEFINE u == [t EXCEPT !.ids = ids, !.steps = t.steps - 1, !.at = at]
  <2>2. tasks' = {u}
    BY <2>1, ChangeTask DEF Becomes
  <2>3. /\ u.kind = "change" /\ u.ids = ids /\ u.steps = t.steps - 1 /\ u.at = at
        /\ at \in {"listing", "drafting"}
    BY ChangeTask DEF StepStarts
  <2>4. t.steps \in 1 .. TidySteps /\ t.steps - 1 \in 1 .. TidySteps
    BY <1>1, ChangeTask, ChangesAssumption
  <2> HIDE DEF u
  <2>5. nextId' = nextId /\ state' = state /\ stamp' = stamp /\ nextId \in Nat
    BY <2>1 DEF historyVars, countVars, NewestInv, TurnInv, CountTypes
  <2>6. TaskFine(u)'
    BY <2>3, <2>4, <2>5 DEF TaskFine
  <2>7. Settled(state', stamp) /\ Unused'
    BY <2>5 DEF NewestInv, HistoryPart, Unused
  <2>8. Room'
    <3>1. StepsLeft(u) = t.steps - 1 /\ StepsLeft(u) \in Nat /\ t.steps \in Nat
      BY <2>3, <2>4, ChangesAssumption DEF StepsLeft
    <3>2. StepsLeft(t) \in {t.steps, t.steps - 1} /\ StepsLeft(t) \in Nat
      BY ChangeTask DEF StepsLeft
    <3>3. nextId' + StepsLeft(u) <= nextId + StepsLeft(t)
      BY <2>5, <3>1, <3>2
    <3>4. UNCHANGED <<queue, later, reading, asks>>
      BY <2>1
    <3>5. QED
      BY <2>2, <2>3, <2>5, <3>1, <3>2, <3>3, <3>4, RoomGoesOn
  <2>9. UNCHANGED <<queue, historyVars, later, reading, asks>>
    BY <2>1
  <2>10. QED
    BY <2>2, <2>3, <2>5, <2>6, <2>7, <2>8, <2>9, GoesOnFine
<1>2. CASE ~(t.steps > 1)
  BY <1>2, AnnounceFine DEF GoOn
<1>3. QED
  BY <1>1, <1>2

LEMMA ListFine ==
  ASSUME NewestInv, TurnInv', NEW t \in tasks, List(t)
  PROVE  NewestInv' /\ NewestBegins
<1>1. t.kind = "change" /\ t.at = "listing"
  BY TaskKinds DEF List, NewestInv
<1>2. UNCHANGED <<nextId, later, reading, asks>>
  BY DEF List
<1>3. CASE GoOn(t, t.ids)
  <2>1. t.ids \in SUBSET Id
    BY <1>1, ChangeTask
  <2>2. QED
    BY <1>1, <1>2, <1>3, <2>1, ChangeTask, GoOnFine
<1>4. CASE ~GoOn(t, t.ids)
  <2> DEFINE u == [t EXCEPT !.at = "drafting"]
  <2>1. Becomes(t, u) /\ UNCHANGED <<turn, undoes, queue, historyVars, state>>
    BY <1>4 DEF List
  <2>2. tasks' = {u}
    BY <1>1, <2>1, ChangeTask DEF Becomes
  <2>3. u.kind = "change" /\ u.ids = t.ids /\ u.steps = t.steps /\ u.at = "drafting"
    BY <1>1, ChangeTask
  <2> HIDE DEF u
  <2>4. nextId' = nextId /\ state' = state /\ stamp' = stamp /\ nextId \in Nat
    BY <1>2, <2>1 DEF historyVars, countVars, NewestInv, TurnInv, CountTypes
  <2>5. TaskFine(u)'
    BY <1>1, <2>3, <2>4, ChangeTask DEF TaskFine
  <2>6. Settled(state', stamp) /\ Unused'
    BY <2>4 DEF NewestInv, HistoryPart, Unused
  <2>7. Room'
    <3>1. StepsLeft(u) = StepsLeft(t) /\ StepsLeft(t) \in Nat
      BY <1>1, <2>3, ChangeTask DEF StepsLeft
    <3>2. nextId' + StepsLeft(u) <= nextId + StepsLeft(t)
      BY <2>4, <3>1
    <3>3. UNCHANGED <<queue, later, reading, asks>>
      BY <1>2, <2>1
    <3>4. QED
      BY <1>1, <2>2, <2>3, <2>4, <3>1, <3>2, <3>3, RoomGoesOn
  <2>8. UNCHANGED <<queue, historyVars, later, reading, asks>>
    BY <1>2, <2>1
  <2>9. reading > 0 => u.ids = {} /\ u.at \in {"listing", "drafting"}
    BY <1>1, <2>3, ChangeTask
  <2>10. QED
    BY <1>1, <2>2, <2>3, <2>4, <2>5, <2>6, <2>7, <2>8, <2>9, GoesOnFine
<1>5. QED
  BY <1>3, <1>4

LEMMA DraftFine ==
  ASSUME NewestInv, TurnInv', NEW t \in tasks, Draft(t)
  PROVE  NewestInv' /\ NewestBegins
<1>1. t.kind = "change" /\ t.at = "drafting" /\ reading = 0
  BY TaskKinds DEF Draft, NewestInv
<1>2. UNCHANGED <<later, reading, asks>>
  BY DEF Draft
<1>3. CASE (GoOn(t, t.ids) \/ Announce(t, t.ids)) /\ UNCHANGED nextId
  <2>1. t.ids \in SUBSET Id
    BY <1>1, ChangeTask
  <2>2. \A i \in t.ids : i < nextId /\ stamp[i] = 0 /\ state[i] # "coming"
    BY <1>1, ChangeTask
  <2>3. ~(reading > 0)
    BY <1>1
  <2>4. UNCHANGED <<nextId, later, reading, asks>>
    BY <1>2, <1>3
  <2>5. CASE GoOn(t, t.ids)
    BY <1>1, <2>1, <2>2, <2>3, <2>4, <2>5, GoOnFine
  <2>6. CASE Announce(t, t.ids)
    BY <1>1, <2>1, <2>2, <2>3, <2>4, <2>6, AnnounceFine
  <2>7. QED
    BY <1>3, <2>5, <2>6
<1>4. CASE ~((GoOn(t, t.ids) \/ Announce(t, t.ids)) /\ UNCHANGED nextId)
  <2>0. PICK u : u = [t EXCEPT !.plan = nextId, !.at = "working"]
    OBVIOUS
  <2>1. /\ Becomes(t, u) /\ nextId' = nextId + 1
        /\ UNCHANGED <<turn, undoes, queue, change, historyVars, state>>
    BY <1>4, <2>0 DEF Draft
  <2>2. tasks' = {u}
    BY <1>1, <2>1, ChangeTask DEF Becomes
  <2>3. u.kind = "change" /\ u.ids = t.ids /\ u.steps = t.steps /\ u.at = "working" /\ u.plan = nextId
    BY <1>1, <2>0, ChangeTask
  <2>4. state' = state /\ stamp' = stamp /\ nextId \in Nat /\ nextId' \in Nat
    BY <2>1 DEF historyVars, countVars, NewestInv, TurnInv, CountTypes
  <2>5. nextId \in Id /\ state[nextId] = "none" /\ stamp[nextId] = 0
    <3>1. nextId \in Id
      BY <1>1, NextIsAnId
    <3>2. state[nextId] = "none"
      BY <2>4, <3>1 DEF NewestInv, Unused
    <3>3. QED
      BY <3>1, <3>2 DEF NewestInv, HistoryPart, Stamped, Settled
  <2>6. TaskFine(u)'
    <3>1. \A i \in Id : i < nextId => i < nextId'
      BY <2>1, <2>4, IdsAreNumbers
    <3>2. nextId < nextId'
      BY <2>1, <2>4
    <3>3. /\ u.steps \in 1 .. TidySteps
          /\ \A i \in u.ids : i \in Id /\ i < nextId' /\ stamp'[i] = 0 /\ state'[i] # "coming"
      BY <1>1, <2>3, <2>4, <3>1, ChangeTask
    <3>4. u.plan \in Id /\ u.plan < nextId' /\ stamp'[u.plan] = 0 /\ state'[u.plan] = "none"
      BY <2>3, <2>4, <2>5, <3>2
    <3>5. state'[u.plan] # "coming"
      BY <3>4
    <3>6. QED
      BY <2>3, <3>3, <3>4, <3>5 DEF TaskFine
  <2>7. Settled(state', stamp) /\ Unused'
    <3>1. \A i \in Id : i >= nextId' => i >= nextId
      BY <2>1, <2>4, IdsAreNumbers
    <3>2. QED
      BY <2>4, <3>1 DEF NewestInv, HistoryPart, Unused
  <2>8. Room'
    <3>1. /\ StepsLeft(u) = t.steps - 1 /\ StepsLeft(t) = t.steps /\ StepsLeft(u) \in Nat
          /\ StepsLeft(t) \in Nat
      BY <1>1, <2>3, ChangeTask, ChangesAssumption DEF StepsLeft
    <3>2. nextId' + StepsLeft(u) <= nextId + StepsLeft(t)
      BY <2>1, <2>4, <3>1
    <3>3. UNCHANGED <<queue, later, reading, asks>>
      BY <1>2, <2>1
    <3>4. QED
      BY <1>1, <2>2, <2>3, <2>4, <3>1, <3>2, <3>3, RoomGoesOn
  <2>9. UNCHANGED <<queue, historyVars, later, reading, asks>>
    BY <1>2, <2>1
  <2>10. reading > 0 => u.ids = {} /\ u.at \in {"listing", "drafting"}
    BY <1>1
  <2>11. u.kind = t.kind /\ t.kind # "undo"
    BY <1>1, <2>3
  <2>12. QED
    BY <2>2, <2>4, <2>6, <2>7, <2>8, <2>9, <2>10, <2>11, GoesOnFine
<1>5. QED
  BY <1>3, <1>4

LEMMA ApplyFine ==
  ASSUME NewestInv, TurnInv', NEW t \in tasks, ApplyPlan(t)
  PROVE  NewestInv' /\ NewestBegins
<1>1. t.kind = "change" /\ t.at = "working"
  BY DEF ApplyPlan
<1>2. PICK s \in {"none", "done"}, at \in {"ended", "failing"} :
         /\ state' = [state EXCEPT ![t.plan] = s]
         /\ Becomes(t, [t EXCEPT !.at = at, !.how = "done"])
  BY DEF ApplyPlan
<1>3. UNCHANGED <<queue, historyVars, later, reading, asks>> /\ nextId' = nextId
  BY DEF ApplyPlan
<1>4. /\ t.plan \in Id /\ t.plan < nextId /\ stamp[t.plan] = 0 /\ state[t.plan] = "none"
      /\ state \in [Id -> State] /\ ~(reading > 0) /\ nextId \in Nat
  BY <1>1, ChangeTask DEF NewestInv, HistoryPart, Settled, TurnInv, CountTypes
<1> DEFINE u == [t EXCEPT !.at = at, !.how = "done"]
<1>5. tasks' = {u}
  BY <1>1, <1>2, ChangeTask DEF Becomes
<1>6. u.kind = "change" /\ u.ids = t.ids /\ u.steps = t.steps /\ u.at = at /\ u.plan = t.plan
  BY <1>1, ChangeTask
<1> HIDE DEF u
<1>7. \A i \in Id : state'[i] = IF i = t.plan THEN s ELSE state[i]
  BY <1>2, <1>4
<1>8. Settled(state', stamp)
  <2>1. state' \in [Id -> State]
    BY <1>2, <1>4 DEF State
  <2>2. \A i \in Id : stamp[i] > 0 => i # t.plan
    BY <1>4
  <2>3. QED
    BY <1>7, <2>1, <2>2 DEF Settled, NewestInv, HistoryPart
<1>9. Unused'
  <2>1. \A i \in Id : i >= nextId => i # t.plan
    BY <1>4, IdsAreNumbers
  <2>2. QED
    BY <1>3, <1>7, <2>1 DEF Unused, NewestInv
<1>10. TaskFine(u)'
  <2>1. stamp' = stamp
    BY <1>3 DEF historyVars, countVars
  <2>2. /\ u.steps \in 1 .. TidySteps
        /\ \A i \in u.ids : i \in Id /\ i < nextId' /\ stamp'[i] = 0 /\ state'[i] # "coming"
    BY <1>1, <1>3, <1>6, <1>7, <2>1, ChangeTask
  <2>3. u.plan \in Id /\ u.plan < nextId' /\ stamp'[u.plan] = 0 /\ state'[u.plan] # "coming"
    BY <1>3, <1>4, <1>6, <1>7, <2>1
  <2>4. QED
    BY <1>6, <2>2, <2>3 DEF TaskFine
<1>11. Room'
  <2>1. StepsLeft(u) = StepsLeft(t) /\ StepsLeft(t) \in Nat
    BY <1>1, <1>6, ChangeTask DEF StepsLeft
  <2>2. nextId' + StepsLeft(u) <= nextId + StepsLeft(t) /\ nextId' \in Nat
    BY <1>3, <1>4, <2>1
  <2>3. UNCHANGED <<queue, later, reading, asks>>
    BY <1>3
  <2>4. QED
    BY <1>1, <1>5, <1>6, <2>1, <2>2, <2>3, RoomGoesOn
<1>12. /\ \A i \in Id : state[i] = "undone" => state'[i] = "undone"
       /\ \A i \in Id : state[i] \in {"done", "undone"} => state'[i] \in {"done", "undone"}
       /\ \A i \in Id : state'[i] \in {"coming", "marked", "unmarked"} => state'[i] = state[i]
  BY <1>4, <1>7
<1>13. \A i \in Id : stamp[i] > 0 /\ state'[i] \in {"done", "marked"} => state[i] \in {"done", "marked"}
  BY <1>4, <1>7
<1>14. QED
  BY <1>1, <1>3, <1>4, <1>5, <1>6, <1>8, <1>9, <1>10, <1>11, <1>12, <1>13, GoesOnFine

LEMMA FailsFine ==
  ASSUME NewestInv, TurnInv', NEW t \in tasks, JobFails(t)
  PROVE  NewestInv' /\ NewestBegins
<1>1. t.kind = "change" /\ t.at = "failing"
  BY TaskKinds DEF JobFails, NewestInv
<1>0. PICK how, u : u = [t EXCEPT !.at = "ended", !.how = how] /\ Becomes(t, u)
  BY DEF JobFails
<1>2. UNCHANGED <<queue, historyVars, catalogVars, later, reading, asks>>
  BY DEF JobFails
<1>3. tasks' = {u}
  BY <1>0, <1>1, ChangeTask DEF Becomes
<1>4. u.kind = "change" /\ u.ids = t.ids /\ u.steps = t.steps /\ u.at = "ended" /\ u.plan = t.plan
  BY <1>0, <1>1, ChangeTask
<1>5. nextId' = nextId /\ state' = state /\ stamp' = stamp /\ nextId \in Nat
  BY <1>2 DEF historyVars, countVars, catalogVars, NewestInv, TurnInv, CountTypes
<1>6. TaskFine(u)'
  <2>1. /\ t.steps \in 1 .. TidySteps
        /\ \A i \in t.ids : i \in Id /\ i < nextId /\ stamp[i] = 0 /\ state[i] # "coming"
        /\ t.plan \in Id /\ t.plan < nextId /\ stamp[t.plan] = 0 /\ state[t.plan] # "coming"
    BY <1>1, ChangeTask
  <2>2. /\ u.steps \in 1 .. TidySteps
        /\ \A i \in u.ids : i \in Id /\ i < nextId' /\ stamp'[i] = 0 /\ state'[i] # "coming"
        /\ u.plan \in Id /\ u.plan < nextId' /\ stamp'[u.plan] = 0 /\ state'[u.plan] # "coming"
    BY <1>4, <1>5, <2>1
  <2>3. QED
    BY <1>4, <2>2 DEF TaskFine
<1>7. Settled(state', stamp) /\ Unused'
  BY <1>5 DEF NewestInv, HistoryPart, Unused
<1>8. Room'
  <2>1. StepsLeft(u) = StepsLeft(t) /\ StepsLeft(t) \in Nat
    BY <1>1, <1>4, ChangeTask DEF StepsLeft
  <2>2. nextId' + StepsLeft(u) <= nextId + StepsLeft(t)
    BY <1>5, <2>1
  <2>3. UNCHANGED <<queue, later, reading, asks>>
    BY <1>2
  <2>4. QED
    BY <1>1, <1>3, <1>4, <1>5, <2>1, <2>2, <2>3, RoomGoesOn
<1>9. UNCHANGED <<queue, historyVars, later, reading, asks>>
  BY <1>2
<1>10. reading > 0 => u.ids = {} /\ u.at \in {"listing", "drafting"}
  BY <1>1, ChangeTask
<1>11. u.kind = t.kind /\ t.kind # "undo"
  BY <1>1, <1>4
<1>12. QED
  BY <1>3, <1>5, <1>6, <1>7, <1>8, <1>9, <1>10, <1>11, GoesOnFine

LEMMA ReportFine ==
  ASSUME NewestInv, TurnInv', NEW t \in tasks, Report(t)
  PROVE  NewestInv' /\ NewestBegins
<1>1. t.kind = "change" /\ t.at = "ended"
  BY DEF Report
<1>2. UNCHANGED <<nextId, later, reading, asks>>
  BY DEF Report
<1> DEFINE ids == t.ids \cup {t.plan}
<1>3. /\ t.ids \in SUBSET Id /\ ids \in SUBSET Id /\ ~(reading > 0)
      /\ \A i \in ids : i < nextId /\ stamp[i] = 0 /\ state[i] # "coming"
  BY <1>1, ChangeTask
<1>4. Announce(t, t.ids) \/ GoOn(t, ids)
  BY DEF Report
<1> HIDE DEF ids
<1>5. CASE Announce(t, t.ids)
  <2>1. \A i \in t.ids : stamp[i] = 0
    BY <1>1, ChangeTask
  <2>2. QED
    BY <1>1, <1>2, <1>3, <1>5, <2>1, AnnounceFine
<1>6. CASE GoOn(t, ids)
  BY <1>1, <1>2, <1>3, <1>6, GoOnFine
<1>7. QED
  BY <1>4, <1>5, <1>6

\* A task of an Undo, by the invariant.
LEMMA UndoTask ==
  ASSUME NewestInv, NEW t \in tasks, t.kind = "undo"
  PROVE  /\ t \in [kind : {"undo"}, ids : SUBSET Nat, by : {"again", "page"}, left : SUBSET Nat,
                   at : {"working", "ended"}, how : How]
         /\ tasks = {t} /\ Plans(t.ids) /\ t.left # {} /\ t.left \subseteq t.ids /\ t.ids \subseteq Id
         /\ Newest(t.left) \in t.left /\ Newest(t.left) \in Id
         /\ \A i \in t.ids \ t.left : state[i] = "undone"
         /\ t.at = "ended" /\ t.how = "done" => state[Newest(t.left)] = "undone"
         /\ \A e \in Range(undo) : e \cap t.ids = {}
         /\ reading > 0 => t.at = "working"
<1>1. TaskFine(t)
  BY DEF NewestInv, TasksPart
<1>2. /\ Plans(t.ids) /\ t.left # {} /\ t.left \subseteq t.ids
      /\ \A i \in t.ids \ t.left : state[i] = "undone"
      /\ t.at = "ended" /\ t.how = "done" => state[Newest(t.left)] = "undone"
      /\ \A e \in Range(undo) : e \cap t.ids = {}
  BY <1>1 DEF TaskFine
<1>3. t.ids \subseteq Id /\ t.left \in SUBSET Id
  BY <1>2 DEF Plans
<1>4. Newest(t.left) \in t.left
  BY <1>2, <1>3, NewestIs
<1>5. QED
  BY <1>2, <1>3, <1>4, TaskKinds, TheTask DEF NewestInv, Reads

LEMMA UndoPlanFine ==
  ASSUME NewestInv, TurnInv', NEW t \in tasks, UndoPlan(t)
  PROVE  NewestInv' /\ NewestBegins
<1>1. t.kind = "undo" /\ t.at = "working" /\ reading = 0
  BY DEF UndoPlan
<1>2. PICK u, how : /\ u = [t EXCEPT !.at = "ended", !.how = how] /\ Becomes(t, u)
                    /\ \/ how = "done" /\ state' = [state EXCEPT ![Newest(t.left)] = "undone"]
                       \/ how = "unfinished" /\ UNCHANGED state
  BY DEF UndoPlan
<1>3. UNCHANGED <<queue, historyVars, later, reading, asks>> /\ nextId' = nextId /\ nextId \in Nat
  BY DEF UndoPlan, NewestInv, TurnInv, CountTypes
<1>4. tasks' = {u}
  BY <1>1, <1>2, UndoTask DEF Becomes
<1>5. /\ u.kind = "undo" /\ u.ids = t.ids /\ u.left = t.left /\ u.at = "ended" /\ u.how = how
  BY <1>1, <1>2, UndoTask
<1> DEFINE n == Newest(t.left)
<1>6. /\ n \in t.left /\ n \in Id /\ n \in t.ids /\ state[n] \in {"done", "undone"}
      /\ state \in [Id -> State] /\ nextId \in Nat
  BY <1>1, <1>3, UndoTask DEF Plans, NewestInv, HistoryPart, Settled
<1>7. /\ \A i \in Id : state'[i] # state[i] => i = n /\ state'[i] = "undone"
      /\ how = "done" => state'[n] = "undone"
      /\ state' \in [Id -> State]
  BY <1>2, <1>6 DEF State
<1> HIDE DEF n
<1>8. Settled(state', stamp)
  BY <1>7 DEF Settled, NewestInv, HistoryPart
<1>9. Unused'
  <2>1. state[n] # "none"
    BY <1>6
  <2>2. \A i \in Id : state[i] = "none" => state'[i] = "none"
    BY <1>7, <2>1
  <2>3. QED
    BY <1>3, <2>2 DEF Unused, NewestInv
<1>10. TaskFine(u)'
  <2>1. Plans(u.ids)'
    BY <1>1, <1>5, <1>7, UndoTask DEF Plans
  <2>2. u.left # {} /\ u.left \subseteq u.ids /\ \A i \in u.ids \ u.left : state'[i] = "undone"
    BY <1>1, <1>5, <1>7, UndoTask
  <2>3. u.how = "done" => state'[Newest(u.left)] = "undone"
    BY <1>5, <1>7 DEF n
  <2>4. \A e \in Range(undo') : e \cap u.ids = {}
    BY <1>1, <1>3, <1>5, UndoTask DEF historyVars
  <2>5. QED
    BY <1>5, <2>1, <2>2, <2>3, <2>4 DEF TaskFine
<1>11. Room'
  <2>1. UNCHANGED <<queue, later, reading, asks>> /\ nextId' \in Nat
    BY <1>3
  <2>2. QED
    BY <1>1, <1>3, <1>4, <1>5, <2>1, RoomGoesOn
<1>12. /\ \A i \in Id : state[i] = "undone" => state'[i] = "undone"
       /\ \A i \in Id : state[i] \in {"done", "undone"} => state'[i] \in {"done", "undone"}
       /\ \A i \in Id : state'[i] \in {"coming", "marked", "unmarked"} => state'[i] = state[i]
       /\ \A i \in Id : stamp[i] > 0 /\ state'[i] \in {"done", "marked"} => state[i] \in {"done", "marked"}
  BY <1>7
<1>13. u.kind = t.kind /\ t.kind # "change" /\ u.ids = t.ids /\ u.at # "working" /\ ~(reading > 0)
  BY <1>1, <1>5
<1>14. QED
  BY <1>3, <1>4, <1>8, <1>9, <1>10, <1>11, <1>12, <1>13, GoesOnFine

LEMMA ReportUndoFine ==
  ASSUME NewestInv, TurnInv', NEW t \in tasks, ReportUndo(t)
  PROVE  NewestInv' /\ NewestBegins
<1>1. t.kind = "undo" /\ t.at = "ended"
  BY DEF ReportUndo
<1>2. UNCHANGED <<nextId, later, reading, asks>>
  BY DEF ReportUndo
<1> DEFINE n == Newest(t.left)
           rest == t.left \ {n}
<1>3. /\ n \in t.left /\ Plans(t.ids) /\ t.left \subseteq t.ids /\ t.ids \subseteq Id /\ tasks = {t}
      /\ \A i \in t.ids \ t.left : state[i] = "undone"
      /\ t.how = "done" => state[n] = "undone"
      /\ \A e \in Range(undo) : e \cap t.ids = {}
      /\ ~(reading > 0)
  BY <1>1, UndoTask
<1>4. /\ Covers(Range(undo), t.ids, state, kin, stamp, lost) /\ Classes(state, kin, stamp)
      /\ Settled(state, stamp) /\ Sorted(undo, kin, stamp) /\ Stamped /\ HistoryTypes /\ QueueFine
      /\ queue \in Seq(Waits)
  BY <1>1, CoveredBy DEF NewestInv, HistoryPart, TurnInv, TasksPart
<1>5. CASE t.how = "done" /\ rest # {}
  <2>0. PICK u : u = [t EXCEPT !.left = rest, !.at = "working"]
    OBVIOUS
  <2>1. Becomes(t, u) /\ UNCHANGED <<queue, historyVars, state>>
    BY <1>5, <2>0 DEF ReportUndo
  <2>2. tasks' = {u}
    BY <1>3, <2>1 DEF Becomes
  <2>3. /\ u.kind = "undo" /\ u.ids = t.ids /\ u.left = rest /\ u.at = "working"
    BY <1>1, <2>0, UndoTask
  <2>4. nextId' = nextId /\ state' = state /\ undo' = undo /\ nextId \in Nat
    BY <1>2, <2>1 DEF historyVars, NewestInv, TurnInv, CountTypes
  <2>5. TaskFine(u)'
    <3>1. Plans(u.ids)'
      BY <1>3, <2>3, <2>4 DEF Plans
    <3>2. /\ u.left # {} /\ u.left \subseteq u.ids /\ \A i \in u.ids \ u.left : state'[i] = "undone"
          /\ \A e \in Range(undo') : e \cap u.ids = {}
      BY <1>3, <1>5, <2>3, <2>4
    <3>3. QED
      BY <2>3, <3>1, <3>2 DEF TaskFine
  <2>6. Settled(state', stamp) /\ Unused'
    BY <2>4 DEF NewestInv, HistoryPart, Unused
  <2>7. UNCHANGED <<queue, later, reading, asks>> /\ UNCHANGED <<queue, historyVars, later, reading, asks>>
    BY <1>2, <2>1
  <2>8. Room'
    <3>1. t.kind # "change" /\ nextId' \in Nat /\ u.kind = t.kind
      BY <1>1, <2>3, <2>4
    <3>2. QED
      BY <2>2, <2>4, <2>7, <3>1, RoomGoesOn
  <2>9. u.left # u.ids
    BY <1>3, <2>3
  <2>10. u.kind = t.kind /\ t.kind # "change"
    BY <1>1, <2>3
  <2>11. QED
    BY <1>3, <2>2, <2>3, <2>4, <2>5, <2>6, <2>7, <2>8, <2>9, <2>10, GoesOnFine
<1>6. CASE t.how = "done" /\ rest = {}
  <2>1. UNCHANGED countVars /\ ReleaseTurn(t, undo)
    BY <1>6 DEF ReportUndo
  <2>2. kin' = kin /\ stamp' = stamp /\ lost' = lost /\ pushed' = pushed /\ returned' = returned
    BY <2>1 DEF countVars
  <2>3. \A i \in t.ids : state[i] = "undone"
    BY <1>3, <1>6
  <2>4. Covers(Range(undo), {}, state, kin, stamp, lost)
    BY <1>4, <2>3, TakenBack
  <2>5. stamp' \in [Id -> Nat] /\ undo \in Entries /\ Stamped'
    BY <1>4, <2>2 DEF Stamped, HistoryTypes
  <2>6. /\ Turned /\ Len(undo') <= Len(undo)
        /\ Len(queue') <= Len(queue) /\ (tasks' # {} => Len(queue') + 1 <= Len(queue))
        /\ \A i \in Id : state'[i] # state[i] =>
                                state[i] \in {"coming", "marked", "unmarked"} /\ stamp'[i] > 0
    BY <1>3, <1>4, <2>1, <2>2, <2>4, <2>5, ReleaseTurns
  <2>7. QED
    BY <1>2, <1>3, <2>5, <2>6, ReleasedKeeps
<1>7. CASE t.how # "done"
  <2> DEFINE h == KeepEntry(undo, t.ids)
  <2>1. ReturnEntry(t.ids) /\ ReleaseTurn(t, h)
    BY <1>7 DEF ReportUndo
  <2>2. Arrives(t.ids) /\ pushed' + returned' = pushed + returned + 1
    BY <2>1 DEF ReturnEntry, NewestInv, TurnInv, CountTypes
  <2>3. /\ t.ids \in SUBSET Id /\ t.ids # {} /\ t.ids \subseteq t.ids \cup {}
        /\ \A i \in t.ids : state[i] \notin {"none", "coming"}
        /\ \A i \in t.ids : state[i] \notin {"coming", "marked", "unmarked"}
    BY <1>3 DEF Plans
  <2>4. /\ Stamped' /\ Classes(state, kin', stamp') /\ Settled(state, stamp')
        /\ Sorted(h, kin', stamp') /\ Covers(Range(h), {}, state, kin', stamp', lost')
    BY <1>3, <1>4, <2>2, <2>3, ArrivesFine
  <2>5. h \in Entries
    BY <1>4, <2>3, KeepEntryFacts, IdsAreNumbers
  <2> HIDE DEF h
  <2>6. stamp' \in [Id -> Nat]
    BY <2>4 DEF Stamped
  <2>7. /\ Turned /\ Len(undo') <= Len(h)
        /\ Len(queue') <= Len(queue) /\ (tasks' # {} => Len(queue') + 1 <= Len(queue))
        /\ \A i \in Id : state'[i] # state[i] =>
                                state[i] \in {"coming", "marked", "unmarked"} /\ stamp'[i] > 0
    BY <1>3, <1>4, <2>1, <2>4, <2>5, <2>6, ReleaseTurns
  <2>8. QED
    BY <1>2, <1>3, <2>4, <2>5, <2>7, ReleasedKeeps
<1>8. QED
  BY <1>5, <1>6, <1>7

-----------------------------------------------------------------------------
(* The steps of the owner, and what they leave waiting. *)

LEMMA StartsWait ==
  ASSUME NewestInv, NEW x, NEW q, q = Append(queue, x), x \in Waits, StartFine(x)
  PROVE  (\A y \in Range(q) : StartFine(y)) /\ Len(q) = Len(queue) + 1
<1>1. queue \in Seq(Waits) /\ \A y \in Range(queue) : StartFine(y)
  BY DEF NewestInv, TurnInv, TasksPart, QueueFine
<1>2. Range(q) = Range(queue) \cup {x} /\ Len(q) = Len(queue) + 1
  BY <1>1, AppendRange, AppendProperties
<1>3. QED
  BY <1>1, <1>2

\* A start that waits, or begins.
LEMMA StartFineKeeps ==
  ASSUME NewestInv, TurnInv', Press, NEW x \in Starts, StartFine(x), WhenFree(x, undo),
         UNCHANGED <<countVars, catalogVars, later, reading>>
  PROVE  NewestInv' /\ NewestBegins
<1>1. /\ asks \in Nat /\ asks' = asks + 1 /\ asks' <= MaxAsks /\ later \in Nat /\ reading \in Nat
      /\ later' = later /\ reading' = reading /\ nextId' = nextId /\ state' = state
      /\ Len(queue) \in Nat
  BY RoomNumbers, ChangesAssumption DEF Press, catalogVars
<1>2. Presses'
  BY <1>1 DEF Presses
<1>3. CASE turn = TRUE
  <2>1. queue' = Append(queue, x) /\ UNCHANGED <<tasks, undo>>
    BY <1>3 DEF WhenFree
  <2>2. x \in Waits
    BY DEF Waits
  <2>3. (\A y \in Range(queue') : StartFine(y)) /\ Len(queue') = Len(queue) + 1
    BY <2>1, <2>2, StartsWait
  <2>4. Waiting' + asks <= Waiting + asks'
    BY <1>1, <2>3 DEF Waiting
  <2>5. UNCHANGED <<tasks, historyVars, catalogVars>>
    BY <2>1 DEF historyVars
  <2>6. reading' > 0 => reading > 0
    BY <1>1
  <2>7. QED
    BY <1>2, <2>3, <2>4, <2>5, <2>6, WaitingChanges
<1>4. CASE turn = FALSE
  <2>1. tasks = {}
    BY <1>4 DEF NewestInv, TurnInv, TurnTaken, TurnFree
  <2>2. BeginsWith(x, undo, state, kin, stamp, lost)
    BY <2>1, CoveredBy DEF BeginsWith
  <2>3. /\ QueueFine /\ Classes(state, kin, stamp) /\ Settled(state, stamp) /\ Sorted(undo, kin, stamp)
        /\ Stamped /\ undo \in Entries
    BY DEF NewestInv, HistoryPart, TasksPart, TurnInv, HistoryTypes
  <2>4. UNCHANGED <<countVars, state>> /\ Stamped'
    BY <2>3 DEF catalogVars, countVars, Stamped
  <2>5. /\ Turned /\ queue' = <<>> /\ queue = <<>> /\ Len(undo') <= Len(undo)
    BY <1>4, <2>2, <2>3, <2>4, FreeStartTurns DEF NewestInv
  <2>6. Waiting' + asks <= Waiting + asks' /\ Waiting' + 1 + asks <= Waiting + asks'
    BY <1>1, <2>5 DEF Waiting
  <2>7. reading' > 0 => undo' = <<>>
    <3> SUFFICES ASSUME reading > 0 PROVE undo' = <<>>
      BY <1>1
    <3>1. undo = <<>> /\ Len(undo) = 0
      BY EmptySeq DEF NewestInv, Reads
    <3>2. undo' \in Seq(SUBSET Nat) /\ Len(undo') \in Nat
      BY LenProperties DEF TurnInv, HistoryTypes, Entries
    <3>3. QED
      BY <2>5, <3>1, <3>2, EmptySeq
  <2>8. \A i \in Id : state[i] = "none" => state'[i] = "none"
    BY <1>1
  <2>9. QED
    BY <1>1, <1>2, <2>4, <2>5, <2>6, <2>7, <2>8, BeginsKeep
<1>5. QED
  BY <1>3, <1>4 DEF NewestInv, TurnInv, TurnFree, TurnTaken

LEMMA PressChangeFine ==
  ASSUME NewestInv, TurnInv', NEW tidies \in BOOLEAN, PressChange(tidies)
  PROVE  NewestInv' /\ NewestBegins
<1>1. Change(tidies) \in Starts /\ StartFine(Change(tidies))
  BY ChangesAssumption DEF Change, Starts, StartFine
<1>2. QED
  BY <1>1, StartFineKeeps DEF PressChange

LEMMA PressUndoFine ==
  ASSUME NewestInv, TurnInv', NEW ids \in {{i} : i \in Id} \cup Range(undo) \cup {Journal}, PressUndo(ids)
  PROVE  NewestInv' /\ NewestBegins
<1>1. PICK i \in ids : state[i] = "done"
  BY DEF PressUndo
<1>2. Plans(ids)
  <2>1. CASE ids \in {{k} : k \in Id} \cup {Journal}
    BY <1>1, <2>1 DEF Plans, Journal
  <2>2. CASE ids \in Range(undo)
    <3>1. Entry(ids, kin, stamp) /\ Classes(state, kin, stamp) /\ Settled(state, stamp)
      BY <2>2 DEF NewestInv, HistoryPart, Sorted
    <3>2. ~(ids \subseteq Decision)
      BY <1>1 DEF Decision
    <3>3. QED
      BY <3>1, <3>2, EntryIsPlans
  <2>3. QED
    BY <2>1, <2>2
<1>3. Undo(ids, "page") \in Starts /\ StartFine(Undo(ids, "page"))
  BY <1>2, IdsAreNumbers DEF Undo, Starts, StartFine, Plans
<1>4. QED
  BY <1>3, StartFineKeeps DEF PressUndo

\* What waits after a step, of what waited and was pressed.
LEMMA WaitsOf ==
  ASSUME NewestInv, TurnInv', Presses', NEW k \in 0 .. 1,
         later' + reading' + k + asks <= later + reading + asks', Len(queue') <= Len(queue) + k
  PROVE  /\ Waiting' + asks <= Waiting + asks'
         /\ Len(queue') + 1 <= Len(queue) + k => Waiting' + 1 + asks <= Waiting + asks'
<1>1. Len(queue) \in Nat /\ Len(queue') \in Nat
  BY LenProperties DEF NewestInv, TurnInv
<1>2. /\ later \in Nat /\ reading \in Nat /\ asks \in Nat
      /\ later' \in Nat /\ reading' \in Nat /\ asks' \in Nat
  BY DEF NewestInv, Presses
<1> DEFINE q  == Len(queue)
           q2 == Len(queue')
           l  == later
           l2 == later'
           r  == reading
           r2 == reading'
           a  == asks
           a2 == asks'
<1>3. /\ q \in Nat /\ q2 \in Nat /\ l \in Nat /\ l2 \in Nat /\ r \in Nat /\ r2 \in Nat /\ a \in Nat
      /\ a2 \in Nat /\ l2 + r2 + k + a <= l + r + a2 /\ q2 <= q + k
  BY <1>1, <1>2
<1> HIDE DEF q, q2, l, l2, r, r2, a, a2
<1>4. /\ q2 + l2 + r2 + a <= q + l + r + a2
      /\ q2 + 1 <= q + k => q2 + l2 + r2 + 1 + a <= q + l + r + a2
  BY <1>3
<1>5. QED
  BY <1>4 DEF Waiting, q, q2, l, l2, r, r2, a, a2

\* A Cmd-Z takes a place in the queue.
LEMMA WaitFine ==
  ASSUME NewestInv, TurnInv', Presses', WaitInTurn, UNCHANGED <<countVars, nextId>>,
         later' + reading' + 1 + asks <= later + reading + asks', reading' > 0 => reading > 0
  PROVE  NewestInv' /\ NewestBegins
<1> DEFINE x == [kind |-> "again", pushed |-> pushed, returned |-> returned,
                 behind |-> BehindAChange]
<1>1. x \in Waits /\ x.kind = "again"
  <2>1. BehindAChange \in BOOLEAN
    BY DEF BehindAChange
  <2> HIDE DEF BehindAChange
  <2>2. QED
    BY <2>1 DEF Waits, NewestInv, TurnInv, CountTypes
<1>2. queue' = Append(queue, x) /\ UNCHANGED <<tasks, undo, state>>
  BY DEF WaitInTurn
<1> HIDE DEF x
<1>3. StartFine(x)
  BY <1>1 DEF StartFine
<1>4. (\A y \in Range(queue') : StartFine(y)) /\ Len(queue') = Len(queue) + 1
  BY <1>1, <1>2, <1>3, StartsWait
<1>5. Waiting' + asks <= Waiting + asks'
  <2>1. Len(queue) \in Nat /\ 1 \in 0 .. 1 /\ Len(queue') <= Len(queue) + 1
    BY <1>4, RoomNumbers
  <2>2. QED
    BY <2>1, WaitsOf
<1>6. UNCHANGED <<tasks, historyVars, catalogVars>>
  BY <1>2 DEF historyVars, catalogVars
<1>7. QED
  BY <1>4, <1>5, <1>6, WaitingChanges

\* Decisions are taken back, and their entry leaves the history.
LEMMA TakesBackFine ==
  ASSUME NewestInv, TurnInv', Presses', NEW d \in SUBSET Id,
         \A i \in d : state[i] \in {"coming", "marked", "unmarked"},
         state' = [i \in Id |-> IF i \in d THEN "unmarked" ELSE state[i]],
         Sorted(undo', kin, stamp), Range(undo') \subseteq Range(undo),
         Range(undo) \subseteq Range(undo') \cup {d}, undo = <<>> => undo' = <<>>,
         \A i \in d : state[i] # "coming",
         UNCHANGED <<turnVars, countVars, nextId>>,
         Waiting' + asks <= Waiting + asks', reading' > 0 => reading > 0
  PROVE  NewestInv' /\ NewestBegins
<1>1. /\ tasks' = tasks /\ queue' = queue /\ kin' = kin /\ stamp' = stamp /\ lost' = lost
      /\ pushed' = pushed /\ returned' = returned /\ nextId' = nextId
  BY DEF turnVars, countVars
<1>2. /\ Stamped /\ Settled(state, stamp) /\ Classes(state, kin, stamp) /\ nextId \in Nat
  BY DEF NewestInv, HistoryPart, TurnInv, CountTypes
<1>3. \A i \in Id : state'[i] = IF i \in d THEN "unmarked" ELSE state[i]
  OBVIOUS
<1>4. Settled(state', stamp)
  BY <1>2 DEF Settled, State
<1>5. Classes(state', kin, stamp)
  BY <1>2, <1>3 DEF Classes
<1>6. Covered'
  <2>1. PICK gone : /\ Covers(Range(undo), gone, state, kin, stamp, lost)
                    /\ \/ (\A t \in tasks : t.kind # "undo") /\ gone = {}
                       \/ \E t \in tasks : t.kind = "undo" /\ gone = t.ids
    BY CoveredBy
  <2> DEFINE new  == state'
             es   == Range(undo)
             left == Range(undo')
  <2>2. /\ TakesBack(d, state, new)
        /\ es \subseteq left \cup {d} /\ Covers(es, gone, state, kin, stamp, lost)
    BY <1>3, <2>1 DEF TakesBack
  <2> HIDE DEF new, es, left
  <2>3. Covers(left, gone, new, kin, stamp, lost)
    BY <1>2, <2>2, StillCoversWithout
  <2>4. Covers(Range(undo'), gone, state', kin', stamp', lost')
    BY <1>1, <2>3 DEF new, left
  <2>5. QED
    BY <1>1, <2>1, <2>4 DEF Covered
<1>7. HistoryPart'
  BY <1>1, <1>2, <1>4, <1>5, <1>6 DEF HistoryPart, Stamped
<1>8. TasksPart' /\ NewestBegins
  <2>1. \A i \in Id : state[i] \in {"done", "undone"} => state'[i] = state[i]
    BY <1>3
  <2>2. \A i \in Id : i < nextId /\ state[i] # "coming" =>
            /\ state'[i] # "coming" /\ stamp'[i] = stamp[i]
            /\ state[i] = "none" => state'[i] = "none"
    BY <1>1, <1>3
  <2>3. nextId' \in Nat /\ nextId <= nextId'
    BY <1>1, <1>2
  <2>4. QED
    BY <1>1, <2>1, <2>2, <2>3, TasksStay
<1>9. Unused'
  BY <1>1, <1>3 DEF NewestInv, Unused
<1>10. Reads'
  BY <1>1 DEF NewestInv, Reads
<1>11. Room'
  BY <1>1, RoomStays
<1>12. QED
  BY <1>7, <1>8, <1>9, <1>10, <1>11 DEF NewestInv

\* A Cmd-Z takes the newest entry at once.
LEMMA TakeNewestFine ==
  ASSUME NewestInv, TurnInv', Presses', TakeNewest, turn = FALSE, undo # <<>>,
         UNCHANGED <<countVars, nextId>>,
         later' + reading' + 1 + asks <= later + reading + asks', reading' > 0 => reading > 0
  PROVE  NewestInv' /\ NewestBegins
<1>1. /\ HistoryTypes /\ Stamped /\ Settled(state, stamp) /\ Classes(state, kin, stamp)
      /\ Sorted(undo, kin, stamp) /\ QueueFine /\ tasks = {} /\ queue = <<>>
  BY DEF NewestInv, HistoryPart, TasksPart, TurnInv, TurnFree, TurnTaken
<1> DEFINE last == Last(undo)
           h    == Front(undo)
<1>2. /\ h \in Entries /\ Len(h) = Len(undo) - 1 /\ last \in SUBSET Nat /\ undo \in Seq(SUBSET Nat)
  BY <1>1, FrontFacts DEF HistoryTypes, Entries
<1>3. /\ Sorted(h, kin, stamp) /\ Range(undo) = Range(h) \cup {last}
  <2> DEFINE S == SUBSET Nat
  <2>1. undo \in Seq(S)
    BY <1>2
  <2> HIDE DEF S
  <2>2. QED
    BY <1>1, <2>1, FrontSorted
<1>4. Covers(Range(undo), {}, state, kin, stamp, lost)
  BY <1>1, CoveredBy
<1>5. TopOf(last, Range(undo), state, kin, stamp, lost) /\ Entry(last, kin, stamp)
  BY <1>1, <1>4, LastIsTop DEF HistoryTypes, Stamped
<1>6. ~(reading' > 0)
  BY DEF NewestInv, Reads
<1>7. /\ Len(queue) \in Nat /\ later \in Nat /\ reading \in Nat /\ asks \in Nat
      /\ later' \in Nat /\ reading' \in Nat /\ asks' \in Nat
  BY RoomNumbers DEF Presses
<1>8. CASE last \subseteq Decision
  <2>1. /\ undo' = h /\ UNCHANGED turnVars
        /\ state' = [i \in Id |-> IF i \in last THEN "unmarked" ELSE state[i]]
    BY <1>8 DEF TakeNewest
  <2>2. last \in SUBSET Id /\ \A i \in last : state[i] \in {"coming", "marked", "unmarked"}
    BY <1>8 DEF Decision
  <2>3. \A i \in last : state[i] # "coming"
    BY <1>1, <1>5, <2>2 DEF Settled, Entry
  <2>4. Waiting' + asks <= Waiting + asks'
    <3>1. Len(queue') <= Len(queue) + 1 /\ 1 \in 0 .. 1
      BY <1>7, <2>1 DEF turnVars
    <3>2. QED
      BY <3>1, WaitsOf
  <2>5. Sorted(undo', kin, stamp) /\ Range(undo') \subseteq Range(undo)
        /\ Range(undo) \subseteq Range(undo') \cup {last}
    BY <1>3, <2>1
  <2>6. QED
    BY <1>6, <2>1, <2>2, <2>3, <2>4, <2>5, TakesBackFine
<1>9. CASE ~(last \subseteq Decision)
  <2> DEFINE x == Undo(last, "again")
  <2>1. WhenFree(x, h) /\ UNCHANGED state
    BY <1>9 DEF TakeNewest
  <2>2. x \in Starts /\ x.kind = "undo" /\ x.by = "again" /\ x.ids = last
    BY <1>2, UndoIsAStart DEF Undo
  <2>3. Plans(last)
    BY <1>1, <1>5, <1>9, EntryIsPlans
  <2> HIDE DEF last, h
  <2>4. Covers(Range(h), last, state, kin, stamp, lost)
    <3>1. \A e \in Range(undo) : Entry(e, kin, stamp)
      BY <1>1 DEF Sorted
    <3>2. \A e \in Range(undo) : e \cap last = {} => e \in Range(h)
      BY <1>3, <1>5 DEF Entry
    <3> DEFINE es   == Range(undo)
               left == Range(h)
    <3>3. /\ \A e \in es : Entry(e, kin, stamp)
          /\ \A e \in es : e \cap last = {} => e \in left
          /\ Covers(es, {}, state, kin, stamp, lost) /\ {} \subseteq last
      BY <1>4, <3>1, <3>2
    <3> HIDE DEF es, left
    <3>4. Covers(left, last, state, kin, stamp, lost)
      BY <1>1, <3>3, TakeUp
    <3>5. QED
      BY <3>4 DEF left
  <2>5. TopOf(last, Range(h), state, kin, stamp, lost)
    BY <1>3, <1>5 DEF TopOf
  <2>6. BeginsWith(x, h, state, kin, stamp, lost)
    BY <2>2, <2>3, <2>4, <2>5 DEF BeginsWith
  <2> HIDE DEF x
  <2>7. UNCHANGED <<countVars, state>> /\ Stamped' /\ state' = state /\ nextId' = nextId
    BY <1>1, <2>1 DEF countVars, Stamped
  <2>8. /\ Turned /\ queue' = <<>> /\ queue = <<>>
    BY <1>1, <1>2, <1>3, <2>1, <2>2, <2>6, <2>7, FreeStartTurns DEF NewestInv
  <2>9. Waiting' + asks <= Waiting + asks' /\ Waiting' + 1 + asks <= Waiting + asks'
    <3>1. Len(queue') <= Len(queue) + 1 /\ Len(queue') + 1 <= Len(queue) + 1 /\ 1 \in 0 .. 1
      BY <1>7, <2>8
    <3>2. QED
      BY <3>1, WaitsOf
  <2>10. \A i \in Id : state[i] = "none" => state'[i] = "none"
    BY <2>7
  <2>11. QED
    BY <1>6, <2>7, <2>8, <2>9, <2>10, BeginsKeep
<1>10. QED
  BY <1>8, <1>9

LEMMA WaitSums ==
  ASSUME NewestInv, later' \in Nat, reading' \in Nat, asks' \in Nat
  PROVE  /\ reading' = reading /\ later' + 1 + asks <= later + asks' =>
               later' + reading' + 1 + asks <= later + reading + asks'
         /\ reading' = reading + 1 /\ later' + 1 + asks <= later + asks' =>
               later' + reading' + 0 + asks <= later + reading + asks'
         /\ later' + reading' + asks <= later + reading + asks' =>
               later' + reading' + 0 + asks <= later + reading + asks'
         /\ reading' = reading - 1 /\ later' \in {later, later + 1} /\ asks' = asks =>
               later' + reading' + asks <= later + reading + asks'
<1> DEFINE l  == later
           l2 == later'
           r  == reading
           r2 == reading'
           a  == asks
           a2 == asks'
<1>1. /\ l \in Nat /\ l2 \in Nat /\ r \in Nat /\ r2 \in Nat /\ a \in Nat /\ a2 \in Nat
  BY RoomNumbers
<1> HIDE DEF l, l2, r, r2, a, a2
<1>2. /\ r2 = r /\ l2 + 1 + a <= l + a2 => l2 + r2 + 1 + a <= l + r + a2
      /\ r2 = r + 1 /\ l2 + 1 + a <= l + a2 => l2 + r2 + 0 + a <= l + r + a2
      /\ l2 + r2 + a <= l + r + a2 => l2 + r2 + 0 + a <= l + r + a2
      /\ r2 = r - 1 /\ l2 \in {l, l + 1} /\ a2 = a => l2 + r2 + a <= l + r + a2
  BY <1>1
<1>3. QED
  BY <1>2 DEF l, l2, r, r2, a, a2

LEMMA UndoLastFine ==
  ASSUME NewestInv, TurnInv', UndoLast, later' \in Nat, asks' \in Nat, asks' <= MaxAsks,
         later' + 1 + asks <= later + asks'
  PROVE  NewestInv' /\ NewestBegins
<1>1. UNCHANGED <<countVars, nextId>> /\ later \in Nat /\ reading \in Nat /\ asks \in Nat
  BY RoomNumbers DEF UndoLast
<1>2. CASE reading' = reading
  <2>1. /\ later' + reading' + 1 + asks <= later + reading + asks'
        /\ reading' > 0 => reading > 0
    BY <1>1, <1>2, WaitSums
  <2>2. Presses'
    BY <1>1, <1>2 DEF Presses
  <2>3. CASE WaitInTurn
    BY <1>1, <2>1, <2>2, <2>3, WaitFine
  <2>4. CASE TakeNewest /\ ~HoldingMayBeNeeded /\ undo # <<>>
    <3>1. turn = FALSE
      BY <2>4 DEF HoldingMayBeNeeded, NewestInv, TurnInv, TurnFree, TurnTaken
    <3>2. QED
      BY <1>1, <2>1, <2>2, <2>4, <3>1, TakeNewestFine
  <2>5. CASE reading' = reading + 1
    BY <1>1, <1>2, <2>5
  <2>6. QED
    BY <2>3, <2>4, <2>5 DEF UndoLast
<1>3. CASE ~HoldingMayBeNeeded /\ undo = <<>> /\ reading' = reading + 1 /\ UNCHANGED <<turnVars, undo, state>>
  <2>1. tasks = {}
    BY <1>3 DEF HoldingMayBeNeeded, NewestInv, TurnInv, TurnFree, TurnTaken
  <2>2. Presses'
    BY <1>1, <1>3 DEF Presses
  <2>3. UNCHANGED <<tasks, historyVars, catalogVars>> /\ queue' = queue
    BY <1>1, <1>3 DEF turnVars, historyVars, catalogVars
  <2>4. \A x \in Range(queue') : StartFine(x)
    BY <2>3 DEF NewestInv, TasksPart, QueueFine
  <2>5. Waiting' + asks <= Waiting + asks'
    <3>1. later' + reading' + 0 + asks <= later + reading + asks'
      BY <1>1, <1>3, <2>2, WaitSums DEF Presses
    <3>2. Len(queue') <= Len(queue) + 0 /\ 0 \in 0 .. 1
      BY <2>3, RoomNumbers
    <3>3. QED
      BY <2>2, <3>1, <3>2, WaitsOf
  <2>6. QED
    BY <1>3, <2>1, <2>2, <2>3, <2>4, <2>5, WaitingChanges
<1>4. QED
  BY <1>2, <1>3 DEF UndoLast

\* Only the counts of what waits change.
LEMMA CountsFine ==
  ASSUME NewestInv, TurnInv', UNCHANGED <<turnVars, historyVars, catalogVars>>,
         Presses', later' + reading' + asks <= later + reading + asks', reading' > 0 => reading > 0
  PROVE  NewestInv' /\ NewestBegins
<1>1. queue' = queue /\ tasks' = tasks /\ UNCHANGED <<tasks, historyVars, catalogVars>>
  BY DEF turnVars
<1>2. \A x \in Range(queue') : StartFine(x)
  BY <1>1 DEF NewestInv, TasksPart, QueueFine
<1>3. Waiting' + asks <= Waiting + asks'
  <2>1. later' + reading' + 0 + asks <= later + reading + asks'
    BY WaitSums DEF Presses
  <2>2. Len(queue') <= Len(queue) + 0 /\ 0 \in 0 .. 1
    BY <1>1, RoomNumbers
  <2>3. QED
    BY <2>1, <2>2, WaitsOf
<1>4. QED
  BY <1>1, <1>2, <1>3, WaitingChanges

LEMMA AgainFine ==
  ASSUME NewestInv, TurnInv', PressAgain \/ Later
  PROVE  NewestInv' /\ NewestBegins
<1>1. later \in Nat /\ reading \in Nat /\ asks \in Nat /\ asks <= MaxAsks /\ MaxAsks \in Nat
  BY RoomNumbers
<1>2. CASE PressAgain
  <2>1. asks' = asks + 1 /\ asks' \in Nat /\ asks' <= MaxAsks
    BY <1>1, <1>2 DEF PressAgain
  <2>2. CASE UndoLast /\ later' = later
    <3>1. later' \in Nat /\ later' + 1 + asks <= later + asks'
      BY <1>1, <2>1, <2>2
    <3>2. QED
      BY <2>1, <2>2, <3>1, UndoLastFine
  <2>3. CASE later' = later + 1 /\ UNCHANGED <<turnVars, historyVars, catalogVars, reading>>
    <3>1. later' + reading' + asks <= later + reading + asks' /\ Presses' /\ (reading' > 0 => reading > 0)
      BY <1>1, <2>1, <2>3 DEF Presses
    <3>2. UNCHANGED <<turnVars, historyVars, catalogVars>>
      BY <2>3
    <3>3. QED
      BY <3>1, <3>2, CountsFine
  <2>4. QED
    BY <1>2, <2>2, <2>3 DEF PressAgain
<1>3. CASE Later
  <2>1. later' = later - 1 /\ later > 0 /\ asks' = asks /\ UndoLast
    BY <1>3 DEF Later
  <2>2. later' \in Nat /\ later' + 1 + asks <= later + asks'
    BY <1>1, <2>1
  <2>3. QED
    BY <1>1, <2>1, <2>2, UndoLastFine
<1>4. QED
  BY <1>2, <1>3

LEMMA ReadJournalFine ==
  ASSUME NewestInv, TurnInv', ReadJournal
  PROVE  NewestInv' /\ NewestBegins
<1>1. /\ later \in Nat /\ reading \in Nat /\ asks \in Nat /\ asks <= MaxAsks
      /\ reading > 0 /\ reading' = reading - 1 /\ asks' = asks /\ UNCHANGED <<countVars, nextId>>
  BY RoomNumbers DEF ReadJournal
<1>2. later' = later => Presses' /\ later' + reading' + 1 + asks <= later + reading + asks'
  BY <1>1 DEF Presses
<1>3. CASE UNCHANGED <<turnVars, undo, state>> /\ later' \in {later, later + 1}
  <2>1. UNCHANGED <<turnVars, historyVars, catalogVars>>
    BY <1>1, <1>3 DEF historyVars, catalogVars
  <2>2. Presses' /\ later' + reading' + asks <= later + reading + asks' /\ (reading' > 0 => reading > 0)
    <3>1. Presses' /\ (reading' > 0 => reading > 0)
      BY <1>1, <1>3 DEF Presses
    <3>2. QED
      BY <1>1, <1>3, <3>1, WaitSums DEF Presses
  <2>3. QED
    BY <2>1, <2>2, CountsFine
<1>4. CASE WaitInTurn /\ later' = later
  BY <1>1, <1>2, <1>4, WaitFine
<1>5. CASE /\ ~HoldingMayBeNeeded /\ Journal # {} /\ later' = later /\ state' = state
           /\ WhenFree(Undo({Newest(Journal)}, "again"), undo)
  <2> DEFINE n == Newest(Journal)
             x == Undo({n}, "again")
  <2>1. /\ turn = FALSE /\ tasks = {} /\ QueueFine /\ Classes(state, kin, stamp) /\ Stamped
        /\ Settled(state, stamp) /\ Sorted(undo, kin, stamp) /\ undo = <<>> /\ undo \in Entries
    BY <1>1, <1>5 DEF HoldingMayBeNeeded, NewestInv, TurnInv, TurnFree, TurnTaken, HistoryPart,
                TasksPart, Reads, HistoryTypes
  <2>2. n \in Id /\ n \in Nat /\ state[n] = "done"
    BY <1>5, NewestIs DEF Journal
  <2>3. x \in Starts /\ x.kind = "undo" /\ x.by = "again" /\ x.ids = {n}
    BY <2>2, UndoIsAStart DEF Undo
  <2> HIDE DEF n
  <2>4. Plans({n})
    BY <2>2 DEF Plans
  <2>5. Range(undo) = {}
    BY <2>1, EmptySeq DEF Range
  <2>6. Covers({}, {}, state, kin, stamp, lost)
    BY <2>1, <2>5, CoveredBy
  <2>7. Covers({}, {n}, state, kin, stamp, lost)
    BY <2>6 DEF Covers
  <2>8. TopOf({n}, {}, state, kin, stamp, lost)
    <3>1. \A i \in Id : stamp[i] \in Nat
      BY <2>1 DEF Stamped
    <3>2. \A i \in Id : Known(i, state, kin, lost) => stamp[i] = 0
      BY <2>6, <3>1 DEF Covers
    <3>3. stamp[n] \in Nat
      BY <2>2, <3>1
    <3>4. QED
      BY <3>2, <3>3 DEF TopOf
  <2>9. BeginsWith(x, undo, state, kin, stamp, lost)
    BY <2>3, <2>4, <2>5, <2>7, <2>8 DEF BeginsWith
  <2>10. WhenFree(x, undo)
    BY <1>5 DEF n
  <2> HIDE DEF x
  <2>11. UNCHANGED <<countVars, state>> /\ Stamped' /\ nextId' = nextId
    BY <1>1, <1>5, <2>1 DEF countVars, Stamped
  <2>12. Turned /\ queue' = <<>> /\ queue = <<>> /\ Len(undo') <= Len(undo)
    BY <2>1, <2>3, <2>9, <2>10, <2>11, FreeStartTurns DEF NewestInv
  <2>13. Waiting' + asks <= Waiting + asks' /\ Waiting' + 1 + asks <= Waiting + asks'
    <3>1. Len(queue') <= Len(queue) + 1 /\ Len(queue') + 1 <= Len(queue) + 1 /\ 1 \in 0 .. 1
      BY <2>12, RoomNumbers
    <3>2. QED
      BY <1>2, <1>5, <3>1, WaitsOf
  <2>14. undo' = <<>>
    <3>1. undo' \in Seq(SUBSET Nat) /\ Len(undo') \in Nat
      BY LenProperties DEF TurnInv, HistoryTypes, Entries
    <3>2. QED
      BY <2>1, <2>12, <3>1, EmptySeq
  <2>15. \A i \in Id : state[i] = "none" => state'[i] = "none"
    BY <1>5
  <2>16. QED
    BY <1>2, <1>5, <2>11, <2>12, <2>13, <2>14, <2>15, BeginsKeep
<1>6. QED
  BY <1>3, <1>4, <1>5 DEF ReadJournal

\* A decision asked for takes the next number.
LEMMA DismissFine ==
  ASSUME NewestInv, TurnInv', Dismiss
  PROVE  NewestInv' /\ NewestBegins
<1>1. /\ asks < MaxAsks /\ asks' = asks + 1 /\ asks \in Nat /\ MaxAsks \in Nat /\ later' = later
      /\ reading' = reading /\ later \in Nat /\ reading \in Nat
      /\ nextId \in Nat /\ nextId' = nextId + 1 /\ nextId \in Id
      /\ state' = [state EXCEPT ![nextId] = "coming"]
      /\ UNCHANGED <<turnVars, historyVars>>
  BY RoomNumbers, NextIsAnId DEF Dismiss, Press
<1>2. /\ queue' = queue /\ tasks' = tasks /\ undo' = undo /\ kin' = kin /\ stamp' = stamp
      /\ lost' = lost /\ pushed' = pushed /\ returned' = returned
  BY <1>1 DEF turnVars, historyVars, countVars
<1>3. /\ Stamped /\ Settled(state, stamp) /\ Classes(state, kin, stamp) /\ Sorted(undo, kin, stamp)
      /\ state \in [Id -> State] /\ state[nextId] = "none" /\ stamp[nextId] = 0
  <2>1. state[nextId] = "none"
    BY <1>1 DEF NewestInv, Unused
  <2>2. stamp[nextId] \in Nat /\ Settled(state, stamp) /\ Stamped
    BY <1>1 DEF NewestInv, HistoryPart, Stamped
  <2>3. stamp[nextId] = 0
    BY <1>1, <2>1, <2>2 DEF Settled
  <2>4. QED
    BY <2>1, <2>2, <2>3 DEF NewestInv, HistoryPart, Settled
<1>4. \A i \in Id : state'[i] = IF i = nextId THEN "coming" ELSE state[i]
  BY <1>1, <1>3
<1>5. Settled(state', stamp)
  BY <1>1, <1>3, <1>4 DEF Settled, State
<1>6. Classes(state', kin, stamp)
  BY <1>1, <1>3, <1>4 DEF Classes
<1>7. ASSUME NEW gone, Covers(Range(undo), gone, state, kin, stamp, lost)
      PROVE  Covers(Range(undo), gone, state', kin, stamp, lost)
  <2>1. /\ \A i \in Id : stamp[i] > 0 /\ state'[i] \in {"done", "marked"} => state[i] \in {"done", "marked"}
        /\ \A i \in Id : state[i] = "undone" => state'[i] = "undone"
        /\ \A i \in Id : kin[i] \subseteq Id
    BY <1>3, <1>4 DEF Classes
  <2> DEFINE new == state'
  <2>2. /\ \A i \in Id : stamp[i] > 0 /\ new[i] \in {"done", "marked"} => state[i] \in {"done", "marked"}
        /\ \A i \in Id : state[i] = "undone" => new[i] = "undone"
    BY <2>1
  <2> HIDE DEF new
  <2>3. Covers(Range(undo), gone, new, kin, stamp, lost)
    BY <1>7, <2>1, <2>2, StillCovers
  <2>4. QED
    BY <2>3 DEF new
<1>8. HistoryPart'
  <2>1. PICK gone : /\ Covers(Range(undo), gone, state, kin, stamp, lost)
                    /\ \/ (\A t \in tasks : t.kind # "undo") /\ gone = {}
                       \/ \E t \in tasks : t.kind = "undo" /\ gone = t.ids
    BY CoveredBy
  <2>2. Covers(Range(undo'), gone, state', kin', stamp', lost')
    BY <1>2, <1>7, <2>1
  <2>3. Covered'
    BY <1>2, <2>1, <2>2 DEF Covered
  <2>4. QED
    BY <1>2, <1>3, <1>5, <1>6, <2>3 DEF HistoryPart, Stamped
<1>9. TasksPart' /\ NewestBegins
  <2>1. \A i \in Id : state[i] \in {"done", "undone"} => state'[i] = state[i]
    BY <1>3, <1>4
  <2>2. \A i \in Id : i < nextId /\ state[i] # "coming" =>
            /\ state'[i] # "coming" /\ stamp'[i] = stamp[i]
            /\ state[i] = "none" => state'[i] = "none"
    BY <1>1, <1>2, <1>4
  <2>3. nextId' \in Nat /\ nextId <= nextId'
    BY <1>1
  <2>4. QED
    BY <1>2, <2>1, <2>2, <2>3, TasksStay
<1>10. Unused'
  <2>1. \A i \in Id : i >= nextId => state[i] = "none"
    BY DEF NewestInv, Unused
  <2>2. \A i \in Id : i >= nextId + 1 => i >= nextId /\ i # nextId
    BY <1>1, IdsAreNumbers
  <2>3. QED
    BY <1>1, <1>4, <2>1, <2>2 DEF Unused
<1>11. Reads'
  BY <1>1, <1>2 DEF NewestInv, Reads
<1>12. Presses'
  BY <1>1 DEF Presses
<1>13. Room'
  <2> DEFINE p == TidySteps * Waiting
             q == TidySteps * asks
             z == TidySteps * (asks + 1)
             n == nextId
  <2>1. /\ p \in Nat /\ q \in Nat /\ z = q + TidySteps /\ TidySteps \in Nat /\ TidySteps >= 1 /\ n \in Nat
    <3>1. TidySteps \in Nat /\ TidySteps >= 1 /\ Waiting \in Nat /\ asks \in Nat /\ 1 \in Nat
      BY RoomNumbers
    <3>2. TidySteps * (asks + 1) = TidySteps * asks + TidySteps * 1 /\ TidySteps * 1 = TidySteps
      BY <3>1, Multiples
    <3>3. QED
      BY <1>1, <3>1, <3>2, Multiples
  <2>2. Waiting' = Waiting /\ asks' = asks + 1 /\ nextId' = n + 1 /\ tasks' = tasks
    BY <1>1, <1>2 DEF Waiting
  <2>3. n + p <= 1 + q /\ \A t \in tasks : t.kind = "change" => n + StepsLeft(t) + p <= 1 + q
    BY DEF NewestInv, Room
  <2> HIDE DEF p, q, z, n
  <2>4. (n + 1) + p <= 1 + z
    BY <2>1, <2>3
  <2>5. ASSUME NEW t \in tasks, t.kind = "change" PROVE (n + 1) + StepsLeft(t) + p <= 1 + z
    <3> DEFINE k == StepsLeft(t)
    <3>1. k \in Nat /\ n + k + p <= 1 + q
      BY <2>3, <2>5, ChangeTask
    <3> HIDE DEF k
    <3>2. (n + 1) + k + p <= 1 + z
      BY <2>1, <3>1
    <3>3. QED
      BY <3>2 DEF k
  <2>6. /\ nextId' + TidySteps * Waiting' <= 1 + TidySteps * asks'
        /\ \A t \in tasks' : t.kind = "change" =>
              nextId' + StepsLeft(t) + TidySteps * Waiting' <= 1 + TidySteps * asks'
    BY <2>2, <2>4, <2>5 DEF p, z
  <2>7. QED
    BY <2>6 DEF Room, StepsLeft
<1>14. QED
  BY <1>8, <1>9, <1>10, <1>11, <1>12, <1>13 DEF NewestInv

\* The catalog has a decision, which joins the history, or failed.
LEMMA DismissedFine ==
  ASSUME NewestInv, TurnInv', NEW i \in Id, Dismissed(i)
  PROVE  NewestInv' /\ NewestBegins
<1>1. /\ state[i] = "coming" /\ ~(reading' > 0) /\ reading' = reading /\ later' = later /\ asks' = asks
      /\ UNCHANGED turnVars /\ nextId' = nextId /\ nextId \in Nat
  BY DEF Dismissed, Coming, NewestInv, TurnInv, CountTypes
<1>2. queue' = queue /\ tasks' = tasks
  BY <1>1 DEF turnVars
<1>3. /\ Stamped /\ Settled(state, stamp) /\ Classes(state, kin, stamp) /\ Sorted(undo, kin, stamp)
      /\ state \in [Id -> State] /\ HistoryTypes
  BY DEF NewestInv, HistoryPart, TurnInv, Settled
<1>4. stamp[i] = 0 /\ kin[i] = {i}
  BY <1>1, <1>3 DEF Stamped, Settled, Classes
<1>5. PICK s \in {"marked", "none"} :
         /\ state' = [state EXCEPT ![i] = s]
         /\ \/ s = "marked" /\ undo' = KeepEntry(undo, {i}) /\ PushEntry({i})
            \/ s = "none" /\ UNCHANGED historyVars
  BY DEF Dismissed
<1>6. \A j \in Id : state'[j] = IF j = i THEN s ELSE state[j]
  BY <1>3, <1>5
<1>7. Classes(state', kin, stamp)
  BY <1>3, <1>4, <1>6 DEF Classes
<1>8. state' \in [Id -> State]
  BY <1>3, <1>5 DEF State
<1>9. Settled(state', stamp)
  BY <1>3, <1>4, <1>6, <1>8 DEF Settled
<1>10. PICK gone : /\ Covers(Range(undo), gone, state, kin, stamp, lost)
                   /\ \/ (\A t \in tasks : t.kind # "undo") /\ gone = {}
                      \/ \E t \in tasks : t.kind = "undo" /\ gone = t.ids
  BY CoveredBy
<1>11. Covers(Range(undo), gone, state', kin, stamp, lost)
  <2> DEFINE new == state'
  <2>1. /\ \A j \in Id : stamp[j] > 0 /\ new[j] \in {"done", "marked"} => state[j] \in {"done", "marked"}
        /\ \A j \in Id : state[j] = "undone" => new[j] = "undone"
        /\ \A j \in Id : kin[j] \subseteq Id
    BY <1>1, <1>3, <1>4, <1>6 DEF Classes
  <2> HIDE DEF new
  <2>2. Covers(Range(undo), gone, new, kin, stamp, lost)
    BY <1>10, <2>1, StillCovers
  <2>3. QED
    BY <2>2 DEF new
<1>12. /\ Stamped' /\ Classes(state', kin', stamp') /\ Settled(state', stamp')
       /\ Sorted(undo', kin', stamp') /\ Covers(Range(undo'), gone, state', kin', stamp', lost')
       /\ \A j \in Id : j # i => stamp'[j] = stamp[j]
       /\ \A e \in Range(undo') : e \in Range(undo) \/ e = {i}
  <2>1. CASE s = "marked"
    <3>1. undo' = KeepEntry(undo, {i}) /\ PushEntry({i})
      BY <1>5, <2>1
    <3>2. Arrives({i}) /\ pushed' + returned' = pushed + returned + 1
      BY <3>1 DEF PushEntry, NewestInv, TurnInv, CountTypes
    <3> DEFINE new == state'
               e   == {i}
    <3>3. \A d \in Range(undo) : d \cap e = {}
      <4>1. \A d \in Range(undo) : \A j \in d : stamp[j] > 0
        BY <1>3 DEF Sorted, Entry
      <4>2. ~(stamp[i] > 0)
        BY <1>4
      <4>3. QED
        BY <4>1, <4>2
    <3>4. /\ e \in SUBSET Id /\ e # {} /\ gone \subseteq e \cup gone
          /\ \A j \in e : new[j] \notin {"none", "coming"}
          /\ \E j \in Id : e = {j} /\ kin[j] = {j}
      BY <1>4, <1>6, <2>1
    <3>5. /\ Classes(new, kin, stamp) /\ Settled(new, stamp) /\ Arrives(e)
          /\ Covers(Range(undo), gone, new, kin, stamp, lost)
      BY <1>7, <1>9, <1>11, <3>2
    <3> HIDE DEF new, e
    <3>6. /\ Stamped' /\ Classes(new, kin', stamp') /\ Settled(new, stamp')
          /\ \A j \in Id : j \notin e => stamp'[j] = stamp[j]
          /\ Sorted(KeepEntry(undo, e), kin', stamp')
          /\ Range(KeepEntry(undo, e)) \subseteq Range(undo) \cup {e}
          /\ Covers(Range(KeepEntry(undo, e)), gone, new, kin', stamp', lost')
      BY <3>2, <3>3, <3>4, <3>5, ArrivesFine
    <3>7. QED
      BY <3>1, <3>6 DEF new, e
  <2>2. CASE s = "none"
    <3>1. /\ undo' = undo /\ kin' = kin /\ stamp' = stamp /\ lost' = lost
          /\ pushed' = pushed /\ returned' = returned
      BY <1>5, <2>2 DEF historyVars, countVars
    <3>2. QED
      BY <1>3, <1>7, <1>9, <1>11, <3>1 DEF Stamped
  <2>3. QED
    BY <2>1, <2>2
<1>13. HistoryPart'
  <2>1. Covered'
    BY <1>2, <1>10, <1>12 DEF Covered
  <2>2. QED
    BY <1>12, <2>1 DEF HistoryPart
<1>14. TasksPart' /\ NewestBegins
  <2>1. \A j \in Id : state[j] \in {"done", "undone"} => state'[j] = state[j]
    BY <1>1, <1>6
  <2>2. \A j \in Id : j < nextId /\ state[j] # "coming" =>
            /\ state'[j] # "coming" /\ stamp'[j] = stamp[j]
            /\ state[j] = "none" => state'[j] = "none"
    BY <1>1, <1>6, <1>12
  <2>3. nextId' \in Nat /\ nextId <= nextId'
    BY <1>1
  <2>4. \A e \in Range(undo') : e \in Range(undo) \/ \E j \in Id : e = {j} /\ state[j] = "coming"
    BY <1>1, <1>12
  <2>5. QED
    BY <1>2, <2>1, <2>2, <2>3, <2>4, TasksStay
<1>15. Unused'
  BY <1>1, <1>6 DEF NewestInv, Unused
<1>16. Reads'
  BY <1>1 DEF Reads
<1>17. Presses'
  BY <1>1 DEF NewestInv, Presses
<1>18. Room'
  <2>1. Waiting' + asks <= Waiting + asks'
    BY <1>1, <1>2, RoomNumbers DEF Waiting
  <2>2. QED
    BY <1>1, <1>2, <1>17, <2>1, RoomStays
<1>19. QED
  BY <1>13, <1>14, <1>15, <1>16, <1>17, <1>18 DEF NewestInv

LEMMA RestoreFine ==
  ASSUME NewestInv, TurnInv', NEW i \in Id, Restore(i)
  PROVE  NewestInv' /\ NewestBegins
<1>1. /\ state[i] = "marked" /\ undo' = Without(undo, {{i}}) /\ asks < MaxAsks /\ asks' = asks + 1
      /\ asks \in Nat /\ MaxAsks \in Nat /\ later \in Nat /\ reading \in Nat
      /\ later' = later /\ reading' = reading /\ UNCHANGED <<turnVars, countVars, nextId>>
      /\ state' = [state EXCEPT ![i] = "unmarked"] /\ state \in [Id -> State]
  BY RoomNumbers DEF Restore, Press, NewestInv, HistoryPart, Settled
<1>2. Presses'
  BY <1>1 DEF Presses
<1> DEFINE S == SUBSET Nat
           d == {i}
<1>3. undo \in Seq(S) /\ Sorted(undo, kin, stamp) /\ Len(undo) \in Nat
  BY LenProperties DEF NewestInv, HistoryPart, TurnInv, HistoryTypes, Entries
<1>4. state' = [j \in Id |-> IF j \in d THEN "unmarked" ELSE state[j]]
  BY <1>1
<1>5. d \in SUBSET Id /\ \A j \in d : state[j] \in {"coming", "marked", "unmarked"} /\ state[j] # "coming"
  BY <1>1
<1>6. undo' = Without(undo, {d})
  BY <1>1
<1>7. undo = <<>> => undo' = <<>>
  <2>1. undo' \in Seq(S) /\ Len(undo') <= Len(undo) /\ Len(undo') \in Nat
    BY <1>3, <1>6, WithoutFacts, LenProperties
  <2>2. QED
    BY <1>3, <2>1, EmptySeq
<1> HIDE DEF d, S
<1>8. /\ Sorted(undo', kin, stamp) /\ Range(undo') \subseteq Range(undo)
      /\ Range(undo) \subseteq Range(undo') \cup {d}
  <2>1. Sorted(Without(undo, {d}), kin, stamp) /\ Range(Without(undo, {d})) = Range(undo) \ {d}
    BY <1>3, WithoutSorted
  <2>2. QED
    BY <1>6, <2>1
<1>9. Waiting' + asks <= Waiting + asks'
  BY <1>1, RoomNumbers DEF Waiting, turnVars
<1>10. reading' > 0 => reading > 0
  BY <1>1
<1>11. QED
  BY <1>1, <1>2, <1>4, <1>5, <1>7, <1>8, <1>9, <1>10, TakesBackFine

\* What is stopped or dropped is nothing of the history.
LEMMA StopFine ==
  ASSUME NewestInv, TurnInv', StopChange
  PROVE  NewestInv' /\ NewestBegins
<1>1. UNCHANGED <<queue, tasks, historyVars, catalogVars, later, reading, asks>>
  BY DEF StopChange
<1>2. Presses' /\ Waiting' + asks <= Waiting + asks' /\ (reading' > 0 => reading > 0)
  BY <1>1, RoomNumbers DEF Presses, Waiting
<1>3. \A x \in Range(queue') : StartFine(x)
  BY <1>1 DEF NewestInv, TasksPart, QueueFine
<1>4. UNCHANGED <<tasks, historyVars, catalogVars>>
  BY <1>1
<1>5. QED
  BY <1>2, <1>3, <1>4, WaitingChanges

LEMMA RemoveAtRange ==
  ASSUME NEW S, NEW q \in Seq(S), NEW i \in DOMAIN q
  PROVE  Range(RemoveAt(q, i)) \subseteq Range(q) /\ Len(RemoveAt(q, i)) <= Len(q)
<1>1. Len(q) \in Nat /\ DOMAIN q = 1 .. Len(q) /\ i \in 1 .. Len(q)
  BY LenProperties
<1> DEFINE N == Len(q)
           R == Range(q)
           f == SubSeq(q, 1, i - 1)
           g == SubSeq(q, i + 1, N)
<1>2. f \in Seq(R) /\ Len(f) = i - 1
  <2>1. \A k \in 1 .. i - 1 : q[k] \in R
    BY <1>1 DEF Range
  <2> DEFINE a == i - 1
  <2>2. a \in Int /\ 1 \in Int /\ a \in Nat /\ \A k \in 1 .. a : q[k] \in R
    BY <1>1, <2>1
  <2> HIDE DEF a, R
  <2>3. SubSeq(q, 1, a) \in Seq(R) /\ Len(SubSeq(q, 1, a)) = IF 1 <= a THEN a - 1 + 1 ELSE 0
    BY <2>2, SubSeqProperties
  <2>4. QED
    BY <2>2, <2>3 DEF a
<1>3. g \in Seq(R) /\ Len(g) = N - i
  <2>1. \A k \in i + 1 .. N : q[k] \in R
    BY <1>1 DEF Range
  <2> DEFINE b == i + 1
  <2>2. b \in Int /\ N \in Int /\ b <= N + 1 /\ \A k \in b .. N : q[k] \in R
    BY <1>1, <2>1
  <2> HIDE DEF b, R, N
  <2>3. SubSeq(q, b, N) \in Seq(R) /\ Len(SubSeq(q, b, N)) = IF b <= N THEN N - b + 1 ELSE 0
    BY <2>2, SubSeqProperties
  <2>4. QED
    BY <1>1, <2>2, <2>3 DEF b, N
<1> HIDE DEF f, g, R
<1>4. f \o g \in Seq(R) /\ Len(f \o g) = (i - 1) + (N - i)
  BY <1>2, <1>3, ConcatProperties
<1>5. RemoveAt(q, i) = f \o g
  BY DEF RemoveAt, f, g
<1>6. Range(f \o g) \subseteq R
  <2>1. DOMAIN (f \o g) = 1 .. Len(f \o g) /\ \A k \in 1 .. Len(f \o g) : (f \o g)[k] \in R
    BY <1>4, LenProperties, ElementOfSeq
  <2>2. QED
    BY <2>1 DEF Range
<1>7. QED
  BY <1>1, <1>4, <1>5, <1>6 DEF R

LEMMA DropFine ==
  ASSUME NewestInv, TurnInv', NEW i \in DOMAIN queue, DropQueued(i)
  PROVE  NewestInv' /\ NewestBegins
<1>1. UNCHANGED <<tasks, historyVars, catalogVars, later, reading, asks>> /\ queue' = RemoveAt(queue, i)
  BY DEF DropQueued
<1>2. queue \in Seq(Waits) /\ \A x \in Range(queue) : StartFine(x)
  BY DEF NewestInv, TurnInv, TasksPart, QueueFine
<1>3. Range(queue') \subseteq Range(queue) /\ Len(queue') <= Len(queue)
  BY <1>1, <1>2, RemoveAtRange
<1>4. Presses' /\ (reading' > 0 => reading > 0)
  BY <1>1, RoomNumbers DEF Presses
<1>5. Waiting' + asks <= Waiting + asks'
  <2>1. later' + reading' + asks <= later + reading + asks'
    BY <1>1, RoomNumbers
  <2>2. later' + reading' + 0 + asks <= later + reading + asks'
    BY <1>4, <2>1, WaitSums DEF Presses
  <2>3. Len(queue') <= Len(queue) + 0 /\ 0 \in 0 .. 1
    BY <1>3, RoomNumbers
  <2>4. QED
    BY <1>4, <2>2, <2>3, WaitsOf
<1>6. UNCHANGED <<tasks, historyVars, catalogVars>>
  BY <1>1
<1>7. QED
  BY <1>2, <1>3, <1>4, <1>5, <1>6, WaitingChanges

-----------------------------------------------------------------------------
(* The history's invariant, and what follows of it. *)

LEMMA NewestStep ==
  ASSUME NewestInv, [Next]_vars
  PROVE  NewestInv' /\ NewestBegins
<1>1. TurnInv'
  BY TurnInvStep DEF NewestInv
<1>2. CASE Owner
  BY <1>1, <1>2, PressChangeFine, PressUndoFine, AgainFine, DismissFine, RestoreFine, StopFine,
     DropFine DEF Owner
<1>3. CASE Runs
  BY <1>1, <1>3, ListFine, DraftFine, ApplyFine, FailsFine, ReportFine, UndoPlanFine, ReportUndoFine,
     AgainFine, ReadJournalFine, DismissedFine DEF Runs
<1>4. CASE UNCHANGED vars
  <2>1. UNCHANGED <<turnVars, historyVars, catalogVars>> /\ UNCHANGED <<later, reading, asks>>
    BY <1>4 DEF vars
  <2>2. Presses' /\ later' + reading' + asks <= later + reading + asks' /\ (reading' > 0 => reading > 0)
    BY <2>1, RoomNumbers DEF Presses
  <2>3. QED
    BY <1>1, <2>1, <2>2, CountsFine
<1>5. QED
  BY <1>2, <1>3, <1>4 DEF Next

LEMMA NewestInit == Init => NewestInv
<1> SUFFICES ASSUME Init PROVE NewestInv
  OBVIOUS
<1>1. TurnInv
  BY TurnInvInit
<1>2. /\ queue = <<>> /\ tasks = {} /\ undo = <<>> /\ pushed = 0 /\ returned = 0 /\ lost = {}
      /\ kin = [i \in Id |-> {i}] /\ stamp = [i \in Id |-> 0] /\ nextId = 1
      /\ state = [i \in Id |-> IF i = 0 THEN "done" ELSE "none"]
      /\ later = 0 /\ reading = 0 /\ asks = 0
  BY DEF Init
<1>3. Range(queue) = {} /\ Range(undo) = {} /\ DOMAIN undo = {} /\ Len(queue) = 0
  BY <1>2, EmptySeq DEF Range
<1>4. /\ \A i \in Id : kin[i] = {i} /\ stamp[i] = 0 /\ state[i] = IF i = 0 THEN "done" ELSE "none"
      /\ stamp \in [Id -> Nat]
  BY <1>2
<1>5. Stamped
  BY <1>2, <1>4 DEF Stamped
<1>6. Settled(state, stamp)
  BY <1>2, <1>4 DEF Settled, State
<1>7. Classes(state, kin, stamp)
  BY <1>4 DEF Classes
<1>8. Sorted(undo, kin, stamp)
  BY <1>3 DEF Sorted
<1>9. Covered
  BY <1>2, <1>4 DEF Covered, Covers
<1>10. TasksPart
  BY <1>2, <1>3 DEF TasksPart, QueueFine
<1>11. Unused
  <2>1. \A i \in Id : i >= 1 => i # 0
    BY IdsAreNumbers
  <2>2. QED
    BY <1>2, <1>4, <2>1 DEF Unused
<1>12. Reads /\ Presses
  BY <1>2, ChangesAssumption DEF Reads, Presses
<1>13. Room
  <2>1. TidySteps * 0 = 0 /\ Waiting = 0
    BY <1>2, <1>3, ChangesAssumption DEF Waiting
  <2>2. QED
    BY <1>2, <2>1 DEF Room
<1>14. QED
  BY <1>1, <1>5, <1>6, <1>7, <1>8, <1>9, <1>10, <1>11, <1>12, <1>13 DEF NewestInv, HistoryPart

\* The top of what Cmd-Z should still know of is what arrived last.
LEMMA TopIsNewest ==
  ASSUME NewestInv', NewestBegins
  PROVE  \A t \in tasks' \ tasks :
            t.kind = "undo" /\ t.by = "again" /\ t.at = "working" /\ t.left = t.ids =>
               \A i \in Id : Undoable(i)' => stamp'[i] <= Arrived(t.ids)'
<1> SUFFICES ASSUME NEW t \in tasks' \ tasks,
                    t.kind = "undo", t.by = "again", t.at = "working", t.left = t.ids,
                    NEW i \in Id, Undoable(i)'
             PROVE  stamp'[i] <= Arrived(t.ids)'
  OBVIOUS
<1>1. TopOf(t.ids, Range(undo'), state', kin', stamp', lost')
  BY DEF NewestBegins
<1>2. TaskFine(t)'
  BY DEF NewestInv, TasksPart
<1>3. t.ids # {} /\ t.ids \subseteq Id
  BY <1>2 DEF TaskFine, Plans
<1>4. \A j \in Id : stamp'[j] \in Nat
  BY DEF NewestInv, HistoryPart, Stamped
<1>5. PICK j \in t.ids : \A k \in t.ids : stamp'[k] = stamp'[j]
  BY <1>1, <1>3 DEF TopOf
<1>6. Arrived(t.ids)' = stamp'[j]
  <2> DEFINE sp == stamp'
             ids == t.ids
             n == CHOOSE m \in {sp[k] : k \in ids} : \A k \in ids : sp[k] <= m
  <2>1. sp[j] \in {sp[k] : k \in ids} /\ \A k \in ids : sp[k] <= sp[j]
    BY <1>3, <1>4, <1>5
  <2>2. n \in {sp[k] : k \in ids}
    <3> HIDE DEF sp, ids
    <3>1. QED
      BY <2>1
  <2>3. n = sp[j]
    BY <1>5, <2>2
  <2>4. Arrived(t.ids)' = n
    BY DEF Arrived
  <2>5. QED
    BY <2>3, <2>4
<1>7. Known(i, state', kin', lost') \/ \E e \in Range(undo') : i \in e
  BY DEF Undoable, Known
<1>8. stamp'[i] <= stamp'[j]
  BY <1>1, <1>7 DEF TopOf
<1>9. QED
  BY <1>6, <1>8

\* Cmd-Z takes back the newest, for every limit of the history: an Undo of it begins with nothing
\* left that came onto the history since, wherever it waited and whatever happened meanwhile, so
\* that it undoes nothing "older than the owner meant" (undo_last).
THEOREM NewestIsTaken == Spec => UndoTakesTheNewest
<1>1. Init => NewestInv
  BY NewestInit
<1>2. NewestInv /\ [Next]_vars => NewestInv'
  BY NewestStep
<1>3. NewestInv /\ [Next]_vars =>
         [\A t \in tasks' \ tasks :
             t.kind = "undo" /\ t.by = "again" /\ t.at = "working" /\ t.left = t.ids =>
                \A i \in Id : Undoable(i)' => stamp'[i] <= Arrived(t.ids)']_vars
  BY NewestStep, TopIsNewest
<1>4. QED
  BY <1>1, <1>2, <1>3, PTL DEF Spec, UndoTakesTheNewest

=============================================================================
