------------------------- MODULE TidySchedulerProofs -------------------------
(***************************************************************************)
(* What Tidy's scheduler keeps for any work, any folders and any number of *)
(* items, pauses and presses: the safety properties that TLC checks on     *)
(* small instances.                                                        *)
(***************************************************************************)
EXTENDS TidyScheduler, WellFoundedInduction, TLAPS

-----------------------------------------------------------------------------
(* Type correctness. *)

(***************************************************************************)
(* The variables keep their types; left is a natural number because an     *)
(* item is done only while one is left.                                    *)
(***************************************************************************)
THEOREM TypeCorrect == Spec => []TypeOK
<1> USE DEF TypeOK, Places, Steps, Removals
<1>1. Init => TypeOK
  <2> SUFFICES ASSUME Init PROVE TypeOK
    OBVIOUS
  <2>1. background \in [Work -> BOOLEAN]
    BY Zenon DEF Init
  <2>2. /\ place \in [Work -> Places] /\ id \in [Work -> Nat] /\ step \in [Work -> Steps]
        /\ left \in [Work -> Nat] /\ cancelled \in [Work -> BOOLEAN]
        /\ paused \in [Work -> BOOLEAN]
    BY ConstantsAssumption DEF Init, ConstantsAssumption
  <2>3. /\ removal \in [Root -> Removals] /\ stopping \in [Root -> SUBSET Work]
        /\ nextId \in Nat /\ askedForWaiting \in BOOLEAN /\ asleep \subseteq Work
        /\ owed \subseteq Work /\ pauses \in Nat /\ checked \subseteq Root
        /\ removalAsleep \subseteq Root
    BY DEF Init
  <2>4. QED
    BY <2>1, <2>2, <2>3
<1>2. TypeOK /\ [Next]_vars => TypeOK'
  <2> SUFFICES ASSUME TypeOK, [Next]_vars PROVE TypeOK'
    OBVIOUS
  <2>1. CASE UNCHANGED vars
    BY <2>1 DEF vars, queueVars, ownerVars, removeVars
  <2>2. CASE Next
    <3> USE DEF queueVars, ownerVars, removeVars, Changed, Flag
    <3>1. ASSUME NEW w \in Work, TakeTurn(w) PROVE TypeOK'
      BY <3>1 DEF TakeTurn
    <3>2. ASSUME NEW w \in Work, RefuseTurn(w) PROVE TypeOK'
      BY <3>2 DEF RefuseTurn
    <3>0. ASSUME NEW w \in Work, Start(w) PROVE TypeOK'
      BY <3>0 DEF Start
    <3>3. ASSUME NEW w \in Work, FirstLook(w) PROVE TypeOK'
      <4>1. CASE Start(w)
        BY <4>1, <3>0
      <4>2. CASE ~Start(w)
        BY <3>3, <4>2 DEF FirstLook
      <4>3. QED
        BY <4>1, <4>2
    <3>4. ASSUME NEW w \in Work, Look(w) PROVE TypeOK'
      <4>1. CASE Start(w)
        BY <4>1, <3>0
      <4>2. CASE ~Start(w)
        BY <3>4, <4>2 DEF Look
      <4>3. QED
        BY <4>1, <4>2
    <3>5. ASSUME NEW w \in Work, DoItem(w) PROVE TypeOK'
      BY <3>5 DEF DoItem
    <3>6. ASSUME NEW w \in Work, Finish(w) PROVE TypeOK'
      BY <3>6 DEF Finish
    <3>7. ASSUME NEW w \in Work, Checkpoint(w) PROVE TypeOK'
      BY <3>7 DEF Checkpoint
    <3>8. ASSUME NEW w \in Work, StepAside(w) PROVE TypeOK'
      BY <3>8 DEF StepAside
    <3>9. ASSUME NEW w \in Work, WaitWhilePaused(w) PROVE TypeOK'
      BY <3>9 DEF WaitWhilePaused
    <3>10. ASSUME NEW w \in Work, Leave(w) PROVE TypeOK'
      BY <3>10 DEF Leave
    <3>11. ASSUME NEW w \in Work, Cancel(w) PROVE TypeOK'
      BY <3>11 DEF Cancel
    <3>12. ASSUME NEW w \in Work, Pause(w) PROVE TypeOK'
      BY <3>12 DEF Pause
    <3>13. ASSUME NEW w \in Work, Resume(w) PROVE TypeOK'
      BY <3>13 DEF Resume
    <3>14. ASSUME NEW w \in Work, Nudge(w) PROVE TypeOK'
      BY <3>14 DEF Nudge
    <3>15. ASSUME NEW r \in Root, Promote(r) PROVE TypeOK'
      BY <3>15 DEF Promote
    <3>16. ASSUME NEW r \in Root, StopWorkOn(r) PROVE TypeOK'
      BY <3>16 DEF StopWorkOn, Entries
    <3>17. ASSUME NEW r \in Root, StopOne(r) PROVE TypeOK'
      BY <3>17 DEF StopOne
    <3>18. ASSUME NEW r \in Root, StoppedAll(r) PROVE TypeOK'
      BY <3>18 DEF StoppedAll
    <3>19. ASSUME NEW r \in Root, AwaitStopped(r) PROVE TypeOK'
      BY <3>19 DEF AwaitStopped
    <3>20. QED
      BY <2>2, <3>1, <3>2, <3>3, <3>4, <3>5, <3>6, <3>7, <3>8, <3>9, <3>10, <3>11,
         <3>12, <3>13, <3>14, <3>15, <3>16, <3>17, <3>18, <3>19 DEF Next, Run, Stop
  <2>3. QED
    BY <2>1, <2>2
<1>3. QED
  BY <1>1, <1>2, PTL DEF Spec

-----------------------------------------------------------------------------
(* One piece of work at a time. *)

(***************************************************************************)
(* What makes OneAtATime inductive: a thread is past Turn::start exactly   *)
(* while its entry says Running (until its drop takes the entry out), and  *)
(* may_run lets nobody start beside a Running entry.                       *)
(***************************************************************************)
Exclusion ==
    /\ \A w \in Work : step[w] \in Touching => place[w] = "running"
    /\ \A w \in Work : place[w] = "running" => step[w] \in Touching \cup {"leaving"}
    /\ \A v, w \in Work : place[v] = "running" /\ place[w] = "running" => v = w

\* Taking the turn keeps the entry the only one that runs.
LEMMA StartExcludes ==
  ASSUME TypeOK, Exclusion, NEW w \in Work, MayRun(w), Start(w)
  PROVE  Exclusion'
  BY DEF TypeOK, Exclusion, Touching, Start, MayRun, Places, Steps

\* Every step keeps Exclusion.
LEMMA ExclusionStep ==
  ASSUME TypeOK, Exclusion, [Next]_vars
  PROVE  Exclusion'
<1> USE DEF Exclusion, Touching, TypeOK, queueVars
<1>1. CASE UNCHANGED <<place, step>>
  BY <1>1
<1>2. ASSUME NEW w \in Work, TakeTurn(w) PROVE Exclusion'
  BY <1>2 DEF TakeTurn
<1>3. ASSUME NEW w \in Work, RefuseTurn(w) PROVE Exclusion'
  BY <1>3 DEF RefuseTurn
<1>4. ASSUME NEW w \in Work, FirstLook(w) PROVE Exclusion'
  BY <1>4, StartExcludes DEF FirstLook
<1>5. ASSUME NEW w \in Work, Look(w) PROVE Exclusion'
  BY <1>5, StartExcludes DEF Look
<1>6. ASSUME NEW w \in Work, DoItem(w) \/ Finish(w) \/ Checkpoint(w) PROVE Exclusion'
  BY <1>6 DEF DoItem, Finish, Checkpoint
<1>7. ASSUME NEW w \in Work, StepAside(w) \/ Leave(w) PROVE Exclusion'
  BY <1>7 DEF StepAside, Leave
<1>8. ASSUME NEW w \in Work, WaitWhilePaused(w) PROVE Exclusion'
  BY <1>8 DEF WaitWhilePaused
<1>9. ASSUME NEW r \in Root, Promote(r) PROVE Exclusion'
  BY <1>9 DEF Promote
<1>10. QED
  BY <1>1, <1>2, <1>3, <1>4, <1>5, <1>6, <1>7, <1>8, <1>9
  DEF Next, Run, Stop, Cancel, Pause, Resume, Nudge, StopWorkOn, StopOne, StoppedAll,
      AwaitStopped, vars

\* Exclusion is an invariant.
LEMMA ExclusionHolds == Spec => []Exclusion
<1>1. Init => Exclusion
  BY DEF Init, Exclusion, Touching
<1>2. TypeOK /\ Exclusion /\ [Next]_vars => Exclusion'
  BY ExclusionStep
<1>3. QED
  BY <1>1, <1>2, TypeCorrect, PTL DEF Spec

(***************************************************************************)
(* Two threads are never both at work on a root, for any work and folders  *)
(* (Turn::start and may_run).                                              *)
(***************************************************************************)
THEOREM MutualExclusion == Spec => []OneAtATime
<1>1. Exclusion => OneAtATime
  BY DEF Exclusion, OneAtATime
<1>2. QED
  BY <1>1, ExclusionHolds, PTL

-----------------------------------------------------------------------------
(* The order of arrival. *)

(***************************************************************************)
(* What makes NoOvertaking inductive: entries have ids of their own, given *)
(* in order, and work that was asked for never becomes background work.    *)
(***************************************************************************)
Order ==
    /\ \A w \in Entries : id[w] < nextId
    /\ \A v, w \in Entries : id[v] = id[w] => v = w
    /\ \A w \in AskedFor : ~background[w]
    /\ NoOvertaking

\* Work that takes the turn arrived before every asked-for work that waits.
LEMMA StartKeepsOrder ==
  ASSUME TypeOK, Order, NEW w \in Work, MayRun(w), Start(w)
  PROVE  Order'
<1> USE DEF TypeOK, Order, Start, Entries
<1>1. ASSUME NEW v \in AskedFor, place'[v] = "waiting" PROVE id[w] < id[v]
  <2>1. v \in WaitingAsked /\ v # w
    BY <1>1, ConstantsAssumption DEF WaitingAsked, Waiting, ConstantsAssumption
  <2>2. w \in Entries /\ w \in WaitingAsked /\ id[w] <= id[v]
    BY <2>1 DEF MayRun, IsFirst
  <2>3. QED
    BY <2>1, <2>2 DEF WaitingAsked, Waiting
<1>2. \A v \in Work : place'[v] = "running" => v = w
  BY DEF MayRun
<1>3. NoOvertaking'
  BY <1>1, <1>2 DEF NoOvertaking
<1>4. Entries' = Entries
  BY DEF MayRun
<1>5. QED
  BY <1>3, <1>4

\* Every step keeps Order.
LEMMA OrderStep ==
  ASSUME TypeOK, Exclusion, Order, [Next]_vars
  PROVE  Order'
<1> USE DEF TypeOK, Order, NoOvertaking, Entries, queueVars
<1>1. CASE UNCHANGED queueVars
  BY <1>1
<1>2. ASSUME NEW w \in Work, TakeTurn(w) PROVE Order'
  <2>1. /\ id' = [id EXCEPT ![w] = nextId] /\ nextId' = nextId + 1
        /\ place' = [place EXCEPT ![w] = "waiting"] /\ UNCHANGED background
    BY <1>2 DEF TakeTurn
  <2>2. \A v \in Entries \ {w} : id'[v] = id[v] /\ id[v] < nextId /\ place'[v] = place[v]
    BY <2>1
  <2>3. Entries' = Entries \cup {w}
    BY <2>1
  <2>4. id'[w] = nextId /\ place'[w] = "waiting"
    BY <2>1
  <2>5. \A v \in Entries' : id'[v] < nextId'
    BY <2>1, <2>2, <2>3, <2>4
  <2>6. \A u, v \in Entries' : id'[u] = id'[v] => u = v
    BY <2>2, <2>3, <2>4
  <2>7. NoOvertaking'
    BY <2>1, <2>2, <2>4
  <2>8. QED
    BY <2>1, <2>5, <2>6, <2>7
<1>3. ASSUME NEW w \in Work, FirstLook(w) PROVE Order'
  BY <1>3, <1>1, StartKeepsOrder DEF FirstLook
<1>4. ASSUME NEW w \in Work, Look(w) PROVE Order'
  BY <1>4, <1>1, StartKeepsOrder DEF Look
<1>5. ASSUME NEW w \in Work, StepAside(w) \/ Leave(w) PROVE Order'
  \* Only work that has the turn steps aside, so that no entry is new.
  <2>1. Entries' \subseteq Entries
    BY <1>5 DEF StepAside, Leave, Exclusion, Touching
  <2>2. \A v \in Work : /\ place'[v] = "waiting" => place[v] = "waiting"
                        /\ place'[v] = "running" => place[v] = "running"
    BY <1>5 DEF StepAside, Leave
  <2>3. UNCHANGED <<id, nextId, background>>
    BY <1>5 DEF StepAside, Leave
  <2>4. QED
    BY <2>1, <2>2, <2>3
<1>6. ASSUME NEW r \in Root, Promote(r) PROVE Order'
  BY <1>6, ConstantsAssumption DEF Promote, ConstantsAssumption
<1>7. QED
  BY <1>1, <1>2, <1>3, <1>4, <1>5, <1>6
  DEF Next, Run, Stop, RefuseTurn, DoItem, Finish, Checkpoint, WaitWhilePaused, Cancel, Pause,
      Resume, Nudge, StopWorkOn, StopOne, StoppedAll, AwaitStopped, vars

(***************************************************************************)
(* Asked-for work is passed by nothing that came after it, however it is   *)
(* interleaved with promotions and steps aside (may_run).                  *)
(***************************************************************************)
THEOREM ArrivalOrder == Spec => []NoOvertaking
<1>1. Init => Order
  BY ConstantsAssumption DEF Init, Order, NoOvertaking, Entries, ConstantsAssumption
<1>2. TypeOK /\ Exclusion /\ Order /\ [Next]_vars => Order'
  BY OrderStep
<1>3. Order => NoOvertaking
  BY DEF Order
<1>4. QED
  BY <1>1, <1>2, <1>3, TypeCorrect, ExclusionHolds, PTL DEF Spec

-----------------------------------------------------------------------------
(* Wake-ups. *)

(***************************************************************************)
(* What makes NoLostWakeup inductive: a removal sleeps only while it waits *)
(* for the work it stopped.                                                *)
(***************************************************************************)
Wakeups ==
    /\ NoLostWakeup
    /\ \A r \in removalAsleep : removal[r] = "stopping"

\* What a sleeping work has: a nudge to come, or nothing it could do if it looked.
Excused(w) ==
    \/ w \in owed
    \/ step[w] = "looking" /\ ~cancelled[w] /\ ~MayRun(w)
    \/ step[w] = "pausing" /\ ~cancelled[w] /\ paused[w] /\ ~ShouldStepAside(w)

\* What a look at the queue finds depends on the queue alone.
LEMMA SameQueue ==
  ASSUME UNCHANGED queueVars
  PROVE  /\ \A w \in Work : MayRun(w)' <=> MayRun(w)
         /\ \A w \in Work : ShouldStepAside(w)' <=> ShouldStepAside(w)
         /\ Entries' = Entries
  BY DEF queueVars, MayRun, IsFirst, Entries, WaitingAsked, Waiting, Aside, ShouldStepAside

\* A change of a token's flag leaves the queue as it is, and is heard.
LEMMA FlagHeard ==
  ASSUME TypeOK, Wakeups, NEW w \in Work, Flag(w),
         UNCHANGED <<queueVars, step, asleep, removal, stopping, removalAsleep>>,
         \A v \in Work \ {w} : cancelled'[v] = cancelled[v] /\ paused'[v] = paused[v]
  PROVE  Wakeups'
<1>1. owed \subseteq owed'
  BY DEF Flag
<1>2. ASSUME NEW v \in asleep PROVE Excused(v)'
  <2>1. Excused(v) /\ v \in Work
    BY DEF Wakeups, NoLostWakeup, Excused, TypeOK
  <2>2. CASE v \in owed
    BY <2>2, <1>1 DEF Excused
  <2>3. CASE v \notin owed /\ v = w
    BY <2>1, <2>3 DEF Flag, Listening, Excused
  <2>4. CASE v \notin owed /\ v # w
    BY <2>1, <2>4, SameQueue DEF Excused
  <2>5. QED
    BY <2>2, <2>3, <2>4
<1>3. QED
  BY <1>2, SameQueue DEF Wakeups, NoLostWakeup, Excused

\* A step of one thread, which leaves the queue and the flags as they are.
LEMMA AwakeStep ==
  ASSUME TypeOK, Wakeups, NEW w \in Work,
         UNCHANGED <<queueVars, cancelled, paused, owed, removal, stopping, removalAsleep>>,
         \A v \in Work \ {w} : step'[v] = step[v],
         asleep' \subseteq asleep \cup {w},
         w \in asleep' => Excused(w)'
  PROVE  Wakeups'
<1>1. ASSUME NEW v \in asleep' PROVE Excused(v)'
  <2>1. CASE v = w
    BY <2>1
  <2>2. CASE v # w
    <3>1. v \in asleep /\ v \in Work /\ Excused(v)
      BY <2>2 DEF Wakeups, NoLostWakeup, Excused, TypeOK
    <3>2. QED
      BY <2>2, <3>1, SameQueue DEF Excused
  <2>3. QED
    BY <2>1, <2>2
<1>2. QED
  BY <1>1, SameQueue DEF Wakeups, NoLostWakeup, Excused

\* A step of a removal, which leaves the queue, the threads and the flags as they are.
LEMMA RemovalStep ==
  ASSUME TypeOK, Wakeups,
         UNCHANGED <<queueVars, step, asleep, cancelled, paused, owed>>,
         \A r \in removalAsleep' :
           removal'[r] = "stopping" /\ stopping'[r] \cap Entries # {}
  PROVE  Wakeups'
  BY SameQueue DEF Wakeups, NoLostWakeup, TypeOK

\* Every step keeps Wakeups.
LEMMA WakeupsStep ==
  ASSUME TypeOK, Wakeups, [Next]_vars
  PROVE  Wakeups'
<1> USE DEF queueVars, ownerVars, removeVars
<1>1. CASE asleep' = {} /\ removalAsleep' = {}
  BY <1>1 DEF Wakeups, NoLostWakeup
<1>2. CASE UNCHANGED vars
  <2>1. \A r \in removalAsleep : removal[r] = "stopping" /\ stopping[r] \cap Entries # {}
    BY DEF Wakeups, NoLostWakeup
  <2>2. QED
    BY <1>2, <2>1, RemovalStep DEF vars
<1>3. ASSUME NEW w \in Work,
             TakeTurn(w) \/ Start(w) \/ StepAside(w) \/ Leave(w) \/ Nudge(w)
      PROVE  Wakeups'
  BY <1>1, <1>3 DEF TakeTurn, Start, StepAside, Leave, Nudge, Changed
<1>4. ASSUME NEW r \in Root, Promote(r) PROVE Wakeups'
  BY <1>1, <1>4 DEF Promote, Changed
<1>5. ASSUME NEW w \in Work,
             RefuseTurn(w) \/ DoItem(w) \/ Finish(w) \/ Checkpoint(w)
               \/ (FirstLook(w) /\ ~Start(w))
      PROVE  Wakeups'
  <2>1. step[w] \notin {"looking", "pausing"}
    BY <1>5 DEF RefuseTurn, DoItem, Finish, Checkpoint, FirstLook
  <2>2. /\ UNCHANGED <<place, id, nextId, background, askedForWaiting, asleep, cancelled,
                       paused, owed, removal, stopping, removalAsleep>>
        /\ \A v \in Work \ {w} : step'[v] = step[v]
    BY <1>5 DEF RefuseTurn, DoItem, Finish, Checkpoint, FirstLook, TypeOK
  <2>3. w \in asleep => w \in owed
    BY <2>1 DEF Wakeups, NoLostWakeup
  <2>4. QED
    BY <2>2, <2>3, AwakeStep DEF Excused
<1>6. ASSUME NEW w \in Work, Look(w), ~Start(w) PROVE Wakeups'
  <2>1. CASE asleep' = asleep
    BY <1>6, <2>1, AwakeStep DEF Look, TypeOK
  <2>2. CASE asleep' # asleep
    <3>1. /\ UNCHANGED <<queueVars, step, cancelled, paused, owed, removal, stopping,
                         removalAsleep>>
          /\ asleep' = asleep \cup {w}
          /\ step[w] = "looking" /\ ~cancelled[w] /\ ~MayRun(w)
      BY <1>6, <2>2 DEF Look
    <3>2. Excused(w)'
      BY <3>1, SameQueue DEF Excused
    <3>3. QED
      BY <3>1, <3>2, AwakeStep
  <2>3. QED
    BY <2>1, <2>2
<1>7. ASSUME NEW w \in Work, WaitWhilePaused(w) PROVE Wakeups'
  <2>1. /\ UNCHANGED <<queueVars, cancelled, paused, owed, removal, stopping, removalAsleep>>
        /\ \A v \in Work \ {w} : step'[v] = step[v]
        /\ w \notin asleep /\ asleep' \subseteq asleep \cup {w}
    BY <1>7 DEF WaitWhilePaused, TypeOK
  <2>2. w \in asleep' => Excused(w)'
    <3>1. SUFFICES ASSUME w \in asleep' PROVE Excused(w)'
      OBVIOUS
    <3>2. /\ step'[w] = "pausing" /\ ~cancelled'[w] /\ paused'[w] /\ ~ShouldStepAside(w)
      BY <1>7, <2>1, <3>1 DEF WaitWhilePaused
    <3>3. QED
      BY <2>1, <3>2, SameQueue DEF Excused
  <2>3. QED
    BY <2>1, <2>2, AwakeStep
<1>8. ASSUME NEW w \in Work, Cancel(w) \/ Pause(w) \/ Resume(w) PROVE Wakeups'
  BY <1>8, FlagHeard DEF Cancel, Pause, Resume, TypeOK
<1>9. ASSUME NEW r \in Root, StopOne(r) PROVE Wakeups'
  <2>1. PICK w \in stopping[r] :
          cancelled' = [cancelled EXCEPT ![w] = TRUE] /\ Flag(w)
    BY <1>9 DEF StopOne
  <2>2. w \in Work
    BY <2>1 DEF TypeOK
  <2>3. QED
    BY <1>9, <2>1, <2>2, FlagHeard DEF StopOne, TypeOK
<1>10. ASSUME NEW r \in Root, StopWorkOn(r) \/ StoppedAll(r) \/ AwaitStopped(r) PROVE Wakeups'
  <2>1. UNCHANGED <<queueVars, step, asleep, cancelled, paused, owed>>
    BY <1>10 DEF StopWorkOn, StoppedAll, AwaitStopped
  <2>2. \A q \in removalAsleep' :
          removal'[q] = "stopping" /\ stopping'[q] \cap Entries # {}
    BY <1>10 DEF StopWorkOn, StoppedAll, AwaitStopped, Wakeups, NoLostWakeup, TypeOK
  <2>3. QED
    BY <2>1, <2>2, RemovalStep
<1>11. QED
  BY <1>2, <1>3, <1>4, <1>5, <1>6, <1>7, <1>8, <1>9, <1>10
  DEF Next, Run, Stop, FirstLook, Look

(***************************************************************************)
(* No wake-up is lost, whatever threads, tokens and removals there are:    *)
(* the flag and the nudge of a cancel or a pause may be apart as long as   *)
(* they like (Shared::nudge).                                              *)
(***************************************************************************)
THEOREM WakeupsArrive == Spec => []NoLostWakeup
<1>1. Init => Wakeups
  BY DEF Init, Wakeups, NoLostWakeup
<1>2. TypeOK /\ Wakeups /\ [Next]_vars => Wakeups'
  BY WakeupsStep
<1>3. Wakeups => NoLostWakeup
  BY DEF Wakeups
<1>4. QED
  BY <1>1, <1>2, <1>3, TypeCorrect, PTL DEF Spec

-----------------------------------------------------------------------------
(* A free turn is taken. *)

\* `find` finds: ids are numbers, so some entry of a non-empty set came first.
LEMMA SomeoneIsFirst ==
  ASSUME TypeOK, NEW S \in SUBSET Work, S # {}
  PROVE  \E w \in S : IsFirst(w, S)
<1> DEFINE Ids == {id[w] : w \in S}
<1>1. Ids \subseteq Nat /\ Ids # {}
  BY DEF TypeOK
<1>2. \E n \in Ids : \A m \in Ids : <<m, n>> \notin OpToRel(<, Nat)
  <2> HIDE DEF Ids
  <2>1. QED
    BY <1>1, NatLessThanWellFounded, WFMin, Zenon
<1>3. PICK n \in Ids : \A m \in Ids : ~(m < n)
  BY <1>1, <1>2 DEF OpToRel
<1>4. PICK w \in S : id[w] = n
  BY <1>3
<1>5. \A v \in S : id[w] <= id[v]
  BY <1>3, <1>4 DEF TypeOK
<1>6. QED
  BY <1>5 DEF IsFirst

(***************************************************************************)
(* The turn is free while nobody may take it only when asked-for work has  *)
(* stepped aside, which may_run has no case for: while none has, whoever   *)
(* waits is behind someone who can go on.                                  *)
(***************************************************************************)
THEOREM FreeTurnIsTaken == Spec => [](AskedForNeverAside => TurnFindsATaker)
<1>1. TypeOK /\ AskedForNeverAside => TurnFindsATaker
  <2> SUFFICES ASSUME TypeOK, AskedForNeverAside, Entries # {},
                      \A w \in Entries : place[w] # "running"
               PROVE  \E w \in Entries : MayRun(w)
    BY DEF TurnFindsATaker
  <2>1. \A v \in Work : place[v] # "running"
    BY DEF Entries
  <2>2. /\ WaitingAsked \subseteq Waiting /\ Waiting \subseteq Entries
        /\ Aside \subseteq Entries /\ Entries \subseteq Work
    BY DEF WaitingAsked, Waiting, Aside, Entries
  <2>3. CASE WaitingAsked # {}
    <3>1. PICK w \in WaitingAsked : IsFirst(w, WaitingAsked)
      BY <2>2, <2>3, SomeoneIsFirst
    <3>2. ~background[w]
      BY DEF WaitingAsked
    <3>3. QED
      BY <2>1, <2>2, <3>1, <3>2 DEF MayRun
  <2>4. CASE WaitingAsked = {} /\ Aside # {}
    <3>1. PICK w \in Aside : IsFirst(w, Aside)
      BY <2>2, <2>4, SomeoneIsFirst
    <3>2. background[w]
      BY DEF Aside, AskedForNeverAside
    <3>3. QED
      BY <2>1, <2>2, <2>4, <3>1, <3>2 DEF MayRun
  <2>5. CASE WaitingAsked = {} /\ Aside = {}
    <3>1. Waiting # {}
      BY <2>1, <2>5 DEF Waiting, Aside, Entries, TypeOK, Places
    <3>2. PICK w \in Waiting : IsFirst(w, Waiting)
      BY <2>2, <3>1, SomeoneIsFirst
    <3>3. background[w]
      BY <2>5 DEF WaitingAsked, Waiting
    <3>4. QED
      BY <2>1, <2>2, <2>5, <3>2, <3>3 DEF MayRun
  <2>6. QED
    BY <2>3, <2>4, <2>5
<1>2. QED
  BY <1>1, TypeCorrect, PTL

(***************************************************************************)
(* Without "Check now", work steps aside only as background work and       *)
(* remains that.                                                           *)
(***************************************************************************)
BackgroundAside ==
    /\ checked = {} => \A w \in Work :
         place[w] = "aside" \/ step[w] = "stepping" => background[w]
    /\ checked \subseteq CheckNow

\* Every step keeps BackgroundAside.
LEMMA BackgroundAsideStep ==
  ASSUME TypeOK, BackgroundAside, [Next]_vars
  PROVE  BackgroundAside'
<1> USE DEF BackgroundAside, TypeOK, queueVars, ownerVars
<1>1. CASE UNCHANGED <<place, step, background, checked>>
  BY <1>1
<1>2. ASSUME NEW w \in Work, Start(w) PROVE BackgroundAside'
  BY <1>2 DEF Start
<1>3. ASSUME NEW w \in Work, TakeTurn(w) \/ RefuseTurn(w) \/ Leave(w) PROVE BackgroundAside'
  BY <1>3 DEF TakeTurn, RefuseTurn, Leave
<1>4. ASSUME NEW w \in Work, FirstLook(w) \/ Look(w) PROVE BackgroundAside'
  BY <1>2, <1>4 DEF FirstLook, Look
<1>5. ASSUME NEW w \in Work, DoItem(w) \/ Finish(w) \/ WaitWhilePaused(w)
      PROVE  BackgroundAside'
  BY <1>5 DEF DoItem, Finish, WaitWhilePaused
<1>6. ASSUME NEW w \in Work, Checkpoint(w) PROVE BackgroundAside'
  BY <1>6 DEF Checkpoint, ShouldStepAside
<1>7. ASSUME NEW w \in Work, StepAside(w) PROVE BackgroundAside'
  BY <1>7 DEF StepAside
<1>8. ASSUME NEW r \in Root, Promote(r) PROVE BackgroundAside'
  BY <1>8 DEF Promote
<1>9. QED
  BY <1>1, <1>2, <1>3, <1>4, <1>5, <1>6, <1>7, <1>8
  DEF Next, Run, Stop, Cancel, Pause, Resume, Nudge, StopWorkOn, StopOne, StoppedAll,
      AwaitStopped, vars

(***************************************************************************)
(* While nobody presses "Check now", a free turn always finds a taker      *)
(* (may_run), for any work: only promote can strand the queue.             *)
(***************************************************************************)
THEOREM QueueNeverStuck == CheckNow = {} => (Spec => []TurnFindsATaker)
<1> SUFFICES ASSUME CheckNow = {} PROVE Spec => []TurnFindsATaker
  OBVIOUS
<1>1. Init => BackgroundAside
  BY DEF Init, BackgroundAside
<1>2. TypeOK /\ BackgroundAside /\ [Next]_vars => BackgroundAside'
  BY BackgroundAsideStep
<1>3. BackgroundAside => AskedForNeverAside
  BY DEF BackgroundAside, AskedForNeverAside
<1>4. QED
  BY <1>1, <1>2, <1>3, TypeCorrect, FreeTurnIsTaken, PTL DEF Spec
=============================================================================
