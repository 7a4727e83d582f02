--------------------------- MODULE SysTimer_proofs ---------------------------
(***************************************************************************)
(* Proofs about SysTimer, for any number of timers, any delays and any     *)
(* bound on the clock: the type invariant; the alarm is never lost; the    *)
(* list holds exactly the running timers whatever happens in the middle of *)
(* the handler's walk, and so implements TimerContract; the handler leaves *)
(* with the earliest alarm; and every timer is served in time.  All but    *)
(* the first two hold until the start of a running timer is interrupted.   *)
(***************************************************************************)
EXTENDS SysTimer, FiniteSetTheorems, WellFoundedInduction, TLAPS

LEMMA InitTypeOK == Init => TypeOK
<1> SUFFICES ASSUME Init PROVE TypeOK
    OBVIOUS
<1>1. armed \in [Timers -> BOOLEAN]
      BY Zenon DEF Init
<1>2. drift \in 0 .. MaxDrift
      BY DriftAssumption DEF Init
<1>3. QED BY <1>1, <1>2 DEF Init, TypeOK, Link

\* The counter and the alarm status keep their types when ticks pass.
LEMMA PassTicksType ==
  ASSUME TypeOK, NEW d \in Nat, PassTicks(d)
  PROVE  now' \in Nat /\ alms' \in BOOLEAN
BY DEF TypeOK, PassTicks, AlarmWithin

\* An alarm value computed for a time is a number, and is ahead of the counter.
LEMMA AlarmForAhead ==
  ASSUME now \in Nat, NEW time \in Nat
  PROVE  AlarmFor(time) \in Nat /\ AlarmFor(time) > now
BY DEF AlarmFor, MIN_DELAY_TICKS

LEMMA AlarmAfterStartType ==
  ASSUME TypeOK, NEW t \in Timers
  PROVE  AlarmAfterStart(t) \in Nat
BY DEF AlarmAfterStart, AlarmFor, MIN_DELAY_TICKS, TypeOK

LEMMA UnlinkType ==
  ASSUME TypeOK, NEW t \in Timers, Unlink(t)
  PROVE  first' \in Link /\ next' \in [Timers -> Link]
BY DEF Unlink, TypeOK, Link, listVars

LEMMA RelinkedType ==
  ASSUME TypeOK, NEW t \in Timers
  PROVE  Relinked(t) \in [Timers -> Link]
BY DEF Relinked, TypeOK, Link

LEMMA NextTypeOK == TypeOK /\ [Next]_vars => TypeOK'
<1> SUFFICES ASSUME TypeOK, [Next]_vars PROVE TypeOK'
    OBVIOUS
<1> USE DEF Link
<1>1. CASE Tick
      BY <1>1, DriftAssumption DEF Tick, TypeOK, AlarmWithin, listVars, callVars, isrVars
<1>2. ASSUME NEW t \in Timers, NEW d \in Delays, Timer_startBegin(t, d) PROVE TypeOK'
      BY <1>2, DelaysAssumption
      DEF Timer_startBegin, TypeOK, rttVars, isrVars
<1>3. ASSUME NEW t \in Timers, Timer_startLink(t) PROVE TypeOK'
  <2>1. now' \in Nat /\ alms' \in BOOLEAN
        BY <1>3, PassTicksType, DriftAssumption DEF Timer_startLink
  <2>2. rtar' \in Nat
        BY <1>3, AlarmAfterStartType DEF Timer_startLink
  <2>3. next' \in [Timers -> Link]
        BY <1>3, RelinkedType DEF Timer_startLink
  <2>4. QED BY <1>3, <2>1, <2>2, <2>3 DEF Timer_startLink, TypeOK, isrVars
<1>4. ASSUME NEW t \in Timers, Timer_stop(t) PROVE TypeOK'
  <2>1. first' \in Link /\ next' \in [Timers -> Link]
        BY <1>4, UnlinkType DEF Timer_stop
  <2>2. QED BY <1>4, <2>1 DEF Timer_stop, TypeOK, rttVars, isrVars
<1>4a. ASSUME NEW t \in Timers, Timer_stopCall(t) PROVE TypeOK'
      BY <1>4a DEF Timer_stopCall, TypeOK, rttVars, listVars, isrVars
<1>5. CASE IsrEnter
  <2>1. drift' \in 0 .. MaxDrift
        BY <1>5, DriftAssumption DEF IsrEnter
  <2>2. QED BY <1>5, <2>1 DEF IsrEnter, TypeOK, listVars, callVars
<1>6. CASE IsrVisitPending
      BY <1>6 DEF IsrVisitPending, KeepTimer, TypeOK, rttVars, listVars, callVars
<1>7. CASE IsrVisitRepeating
  <2>1. cur \in Timers /\ NextTarget(cur) \in Nat
        BY <1>7 DEF IsrVisitRepeating, NextTarget, TypeOK
  <2>2. QED BY <1>7, <2>1 DEF IsrVisitRepeating, TypeOK, rttVars, listVars, callVars
<1>8. CASE IsrVisitOneShot
      BY <1>8 DEF IsrVisitOneShot, TypeOK, rttVars, callVars
<1>9. CASE IsrCallback
      BY <1>9 DEF IsrCallback, TypeOK, rttVars, listVars, callVars
<1>10. ASSUME NEW u \in Timers, NEW d \in Delays, IsrCallbackStart(u, d) PROVE TypeOK'
      BY <1>10, DelaysAssumption DEF IsrCallbackStart, PreviousAfterStart, TypeOK, rttVars, callVars
<1>11. ASSUME NEW u \in Timers, IsrCallbackStop(u) PROVE TypeOK'
  <2>1. first' \in Link /\ next' \in [Timers -> Link]
        BY <1>11, UnlinkType DEF IsrCallbackStop
  <2>2. Predecessor(u) # {} => (CHOOSE p \in Predecessor(u) : TRUE) \in Timers
        BY DEF Predecessor
  <2>3. mprev' \in Link /\ mnext' \in Link
        BY <1>11, <2>2 DEF IsrCallbackStop, PreviousAfterStop, NextAfterStop, TypeOK
  <2>4. QED BY <1>11, <2>1, <2>3 DEF IsrCallbackStop, TypeOK, rttVars, callVars
<1>11a. ASSUME NEW u \in Timers, IsrStopCall(u) PROVE TypeOK'
      BY <1>11a DEF IsrStopCall, TypeOK, rttVars, listVars, callVars
<1>12. CASE IsrAfter
      BY <1>12 DEF IsrAfter, KeepTimer, TypeOK, rttVars, listVars, callVars
<1>13. CASE IsrExit
  <2>1. now' \in Nat /\ alms' \in BOOLEAN
    <3>1. CASE first # Nil
          BY <1>13, <3>1, PassTicksType, DriftAssumption DEF IsrExit
    <3>2. CASE first = Nil
          BY <1>13, <3>2 DEF IsrExit, TypeOK
    <3>3. QED BY <3>1, <3>2
  <2>2. rtar' \in Nat
        BY <1>13, AlarmForAhead DEF IsrExit, TypeOK
  <2>3. drift' \in 0 .. MaxDrift
        BY <1>13, DriftAssumption DEF IsrExit
  <2>4. almien' \in BOOLEAN /\ running' \in BOOLEAN
        BY <1>13 DEF IsrExit, TypeOK
  <2>5. QED BY <1>13, <2>1, <2>2, <2>3, <2>4
            DEF IsrExit, TypeOK, listVars, callVars, isrVars
<1>14. CASE UNCHANGED vars
      BY <1>14 DEF TypeOK, vars, rttVars, listVars, isrVars, callVars
<1>15. QED
  BY <1>1, <1>2, <1>3, <1>4, <1>4a, <1>5, <1>6, <1>7, <1>8, <1>9, <1>10, <1>11, <1>11a,
     <1>12, <1>13, <1>14 DEF Next, Client, Isr

\* Every variable of the timer manager keeps its type, for every list of timers.
THEOREM TypeCorrect == Spec => []TypeOK
BY InitTypeOK, NextTypeOK, PTL DEF Spec

-----------------------------------------------------------------------------
(* The alarm.  AlarmAlive is inductive together with TypeOK: each step that *)
(* moves the counter raises the status bit when it passes the alarm, and    *)
(* each step that writes the alarm puts it far enough ahead of the counter. *)

\* An alarm that was ahead is raised or still ahead when some ticks have passed.
LEMMA PassTicksAlarm ==
  ASSUME TypeOK, NEW d \in Nat, PassTicks(d), alms \/ rtar + Lag > now
  PROVE  alms' \/ rtar + Lag > now'
<1>1. now' = now + d /\ (alms \/ AlarmWithin(d) => alms')
      BY DEF TypeOK, PassTicks
<1>2. CASE alms
      BY <1>1, <1>2
<1>3. CASE rtar + Lag > now /\ ~(rtar + Lag > now + d)
      BY <1>1, <1>3, DriftAssumption DEF TypeOK, AlarmWithin
<1>4. CASE rtar + Lag > now /\ rtar + Lag > now + d
      BY <1>1, <1>4
<1>5. QED BY <1>2, <1>3, <1>4

\* Timer_start leaves the alarm where it was, or ahead of the counter.
LEMMA AlarmAfterStartAhead ==
  ASSUME TypeOK, NEW t \in Timers
  PROVE  \/ running /\ AlarmAfterStart(t) = rtar
         \/ AlarmAfterStart(t) > now
BY DEF TypeOK, AlarmAfterStart, AlarmFor, MIN_DELAY_TICKS

\* A value that was ahead of the counter stays ahead of the alarm's match while
\* at most MaxDrift ticks pass.
LEMMA AheadSurvivesDrift ==
  ASSUME TypeOK, NEW d \in 0 .. MaxDrift, PassTicks(d),
         NEW value \in Nat, value > now
  PROVE  value + Lag > now'
<1>1. now' = now + d /\ now \in Nat
      BY DEF TypeOK, PassTicks
<1>2. d \in Int /\ d <= Lag
      BY DriftAssumption
<1>3. QED BY <1>1, <1>2, DriftAssumption

\* AlarmAlive is inductive over the types.
LEMMA NextAlarmAlive == TypeOK /\ AlarmAlive /\ [Next]_vars => AlarmAlive'
<1> SUFFICES ASSUME TypeOK, AlarmAlive, [Next]_vars PROVE AlarmAlive'
    OBVIOUS
<1>1. CASE Tick
  <2>1. ~servicing /\ running => alms' \/ rtar + Lag > now'
    <3>1. now' = now + 1 /\ (alms \/ AlarmWithin(1) => alms')
          BY <1>1 DEF Tick, TypeOK
    <3>2. ~servicing /\ running => alms \/ rtar + Lag > now
          BY DEF AlarmAlive
    <3>3. rtar + Lag > now => AlarmWithin(1) \/ rtar + Lag > now + 1
          BY DriftAssumption DEF TypeOK, AlarmWithin
    <3>4. QED BY <3>1, <3>2, <3>3
  <2>2. QED BY <1>1, <2>1 DEF Tick, AlarmAlive, listVars
<1>2. ASSUME NEW t \in Timers, NEW d \in Delays, Timer_startBegin(t, d) PROVE AlarmAlive'
      BY <1>2 DEF Timer_startBegin, AlarmAlive, rttVars
<1>3. ASSUME NEW t \in Timers, Timer_startLink(t) PROVE AlarmAlive'
  <2>1. PICK d \in 0 .. MaxDrift : PassTicks(d)
        BY <1>3, Zenon DEF Timer_startLink
  <2>2. alms' \/ rtar' + Lag > now'
    <3>1. CASE running /\ rtar' = rtar
      <4>1. alms \/ rtar + Lag > now
            BY <1>3, <3>1 DEF Timer_startLink, AlarmAlive
      <4>2. QED BY <2>1, <3>1, <4>1, PassTicksAlarm
    <3>2. CASE rtar' > now
          BY <1>3, <2>1, <3>2, AheadSurvivesDrift, AlarmAfterStartType DEF Timer_startLink
    <3>3. QED BY <1>3, <3>1, <3>2, AlarmAfterStartAhead DEF Timer_startLink
  <2>3. running' = almien' /\ running' /\ ~servicing'
        BY <1>3 DEF Timer_startLink, AlarmAlive, TypeOK
  <2>4. QED BY <2>2, <2>3 DEF AlarmAlive
<1>4. ASSUME NEW t \in Timers, Timer_stop(t) PROVE AlarmAlive'
  <2>1. first' # Nil => first # Nil
        BY <1>4, TimersAssumption DEF Timer_stop, Unlink, listVars
  <2>2. UNCHANGED <<running, servicing, now, rtar, almien, alms>>
        BY <1>4 DEF Timer_stop, rttVars
  <2>3. QED BY <2>1, <2>2 DEF AlarmAlive
<1>4a. ASSUME NEW t \in Timers, Timer_stopCall(t) PROVE AlarmAlive'
      BY <1>4a DEF Timer_stopCall, AlarmAlive, rttVars, listVars
<1>5. CASE IsrEnter
      BY <1>5 DEF IsrEnter, IrqPending, AlarmAlive
<1>6. CASE IsrVisitPending
      BY <1>6 DEF IsrVisitPending, AlarmAlive, rttVars, listVars
<1>7. CASE IsrVisitRepeating
      BY <1>7 DEF IsrVisitRepeating, AlarmAlive, rttVars, listVars
<1>8. CASE IsrVisitOneShot
      BY <1>8 DEF IsrVisitOneShot, AlarmAlive, rttVars
<1>9. CASE IsrCallback
      BY <1>9 DEF IsrCallback, AlarmAlive, rttVars, listVars
<1>10. ASSUME NEW u \in Timers, NEW d \in Delays, IsrCallbackStart(u, d) PROVE AlarmAlive'
      BY <1>10 DEF IsrCallbackStart, AlarmAlive, rttVars
<1>11. ASSUME NEW u \in Timers, IsrCallbackStop(u) PROVE AlarmAlive'
      BY <1>11 DEF IsrCallbackStop, AlarmAlive, rttVars
<1>11a. ASSUME NEW u \in Timers, IsrStopCall(u) PROVE AlarmAlive'
      BY <1>11a DEF IsrStopCall, AlarmAlive, rttVars, listVars
<1>12. CASE IsrAfter
      BY <1>12 DEF IsrAfter, AlarmAlive, rttVars, listVars
<1>13. CASE IsrExit
  <2>1. CASE first # Nil
    <3>1. PICK d \in 0 .. MaxDrift : PassTicks(d)
          BY <1>13, <2>1 DEF IsrExit
    <3>2. rtar' \in Nat /\ rtar' > now
          BY <1>13, <2>1, AlarmForAhead DEF IsrExit, TypeOK
    <3>3. rtar' + Lag > now'
          BY <3>1, <3>2, AheadSurvivesDrift
    <3>4. QED BY <1>13, <2>1, <3>3 DEF IsrExit, AlarmAlive, listVars
  <2>2. CASE first = Nil
        BY <1>13, <2>2 DEF IsrExit, AlarmAlive, listVars
  <2>3. QED BY <2>1, <2>2
<1>14. CASE UNCHANGED vars
      BY <1>14 DEF AlarmAlive, vars, rttVars, listVars
<1>15. QED
  BY <1>1, <1>2, <1>3, <1>4, <1>4a, <1>5, <1>6, <1>7, <1>8, <1>9, <1>10, <1>11, <1>11a,
     <1>12, <1>13, <1>14 DEF Next, Client, Isr

\* The alarm of timer.c is never lost, for any number of timers and whatever the
\* tasks and the callbacks do: while a timer is on the list the interrupt is
\* enabled and its alarm is raised or still ahead of the counter.
THEOREM AlarmNeverLost == Spec => []AlarmAlive
<1>1. Init => AlarmAlive
      BY DEF Init, AlarmAlive
<1>2. QED BY <1>1, NextAlarmAlive, TypeCorrect, PTL DEF Spec

-----------------------------------------------------------------------------
(* The list.  ListFrom visits what Cardinality(Timers) steps from the head  *)
(* reach.  By induction on the steps that is the least set that the         *)
(* pointers do not leave, and all that the proofs below need of it.         *)

\* The least element of a set of numbers, from the subset ordering on 0 .. n.
LEMMA LeastNat ==
  ASSUME NEW T, T \subseteq Nat, T # {}
  PROVE  \E m \in T : \A k \in T : m <= k
<1>1. PICK n \in T : TRUE
  OBVIOUS
<1> DEFINE Up == 0 .. n
           R  == StrictSubsetOrdering(Up)
           S  == SUBSET Up
           Segments == {0 .. k : k \in {j \in T : j <= n}}
<1>2. IsWellFoundedOn(R, S)
  <2>1. IsFiniteSet(Up)
    BY FS_Interval
  <2>2. FiniteSubsetsOf(Up) = S
    BY <2>1, FS_FiniteSubsetsOfFinite
  <2> HIDE DEF Up
  <2> QED BY <2>2, FS_StrictSubsetOrderingWellFounded
<1>3. Segments \subseteq S /\ Segments # {}
  <2>1. \A k \in T : k <= n => 0 .. k \subseteq Up
    OBVIOUS
  <2>2. n <= n
    OBVIOUS
  <2> QED BY <2>1, <2>2
<1>4. \E s \in Segments : \A z \in Segments : ~ (<<z, s>> \in R)
  <2> HIDE DEF R, S, Segments
  <2> QED BY <1>2, <1>3, WFMin
<1>5. PICK m \in T : m <= n /\ \A k \in T : k <= n => ~ (<<0 .. k, 0 .. m>> \in R)
  <2> HIDE DEF R
  <2> QED BY <1>4
<1>6. ASSUME NEW k \in T, ~(m <= k) PROVE FALSE
  <2>1. k <= n /\ 0 .. k \subseteq 0 .. m /\ 0 .. m # 0 .. k
    <3>1. m \in 0 .. m /\ m \notin 0 .. k
      BY <1>6
    <3>2. k <= n /\ \A j \in 0 .. k : j \in 0 .. m
      BY <1>5, <1>6
    <3> QED BY <3>1, <3>2
  <2>2. 0 .. k \in SUBSET Up /\ 0 .. m \in SUBSET Up
    BY <2>1, <1>5
  <2>3. <<0 .. k, 0 .. m>> \in R
    BY <2>1, <2>2 DEF StrictSubsetOrdering
  <2> HIDE DEF R
  <2> QED BY <1>5, <2>1, <2>3
<1> QED BY <1>6

\* Induction up to N, for a set instead of a predicate.
LEMMA InductionTo ==
  ASSUME NEW N \in Nat, NEW T, 0 \in T, \A i \in 0 .. N - 1 : i \in T => i + 1 \in T
  PROVE  0 .. N \subseteq T
<1> SUFFICES ASSUME NEW m \in 0 .. N, m \notin T, \A k \in 0 .. N : k \notin T => m <= k
             PROVE  FALSE
  <2> DEFINE Out == {k \in 0 .. N : k \notin T}
  <2>1. Out \subseteq Nat
    OBVIOUS
  <2>2. CASE Out # {}
    BY <2>1, <2>2, LeastNat
  <2>3. CASE Out = {}
    BY <2>3
  <2> QED BY <2>2, <2>3
<1>1. m # 0 /\ m - 1 \in 0 .. N - 1
  OBVIOUS
<1>2. m - 1 \in T
  BY <1>1
<1> QED BY <1>1, <1>2

-----------------------------------------------------------------------------
WalkLength == Cardinality(Timers)

LEMMA WalkLengthIsNat == WalkLength \in Nat
BY TimersAssumption, FS_CardinalityType DEF WalkLength

\* w is the walk of ListFrom.
IsWalk(w, n, x) ==
  w = [i \in 0 .. WalkLength |->
         IF i = 0 THEN x ELSE IF w[i-1] = Nil THEN Nil ELSE n[w[i-1]]]

\* There is a walk from x: the recursive function of ListFrom has values for every length.
LEMMA WalkExists ==
  ASSUME NEW n, NEW x
  PROVE  \E w : IsWalk(w, n, x) /\ ListFrom(n, x) = {w[i] : i \in 0 .. WalkLength} \ {Nil}
<1> DEFINE Step(y) == IF y = Nil THEN Nil ELSE n[y]
           Upto(w, k) == w[0] = x /\ \A i \in 1 .. k : w[i] = Step(w[i-1])
           T == {k \in Nat : \E w : Upto(w, k)}
<1>1. 0 \in T
  <2>1. Upto([i \in {0} |-> x], 0)
    OBVIOUS
  <2> QED BY <2>1
<1>2. ASSUME NEW k \in Nat, k \in T PROVE k + 1 \in T
  <2>1. PICK w : Upto(w, k)
    BY <1>2
  <2> DEFINE v == [i \in 0 .. k + 1 |-> IF i = k + 1 THEN Step(w[k]) ELSE w[i]]
  <2>2. \A i \in 0 .. k : v[i] = w[i]
    OBVIOUS
  <2>3. v[k + 1] = Step(v[k])
    OBVIOUS
  <2>4. ASSUME NEW i \in 1 .. k + 1 PROVE v[i] = Step(v[i-1])
    <3>1. CASE i = k + 1
      BY <2>3, <3>1
    <3>2. CASE i # k + 1
      <4>1. i \in 1 .. k /\ i \in 0 .. k /\ i - 1 \in 0 .. k
        BY <3>2
      <4> HIDE DEF v
      <4> QED BY <2>1, <2>2, <4>1
    <3> QED BY <3>1, <3>2
  <2>5. v[0] = x
    BY <2>1, <2>2
  <2> HIDE DEF v
  <2> QED BY <2>4, <2>5
<1>3. WalkLength \in T
  <2> HIDE DEF T
  <2> QED BY <1>1, <1>2, WalkLengthIsNat, InductionTo
<1>4. PICK w : Upto(w, WalkLength)
  BY <1>3
<1> DEFINE v == [i \in 0 .. WalkLength |-> w[i]]
<1>5. IsWalk(v, n, x)
  <2>1. ASSUME NEW i \in 0 .. WalkLength
        PROVE  w[i] = IF i = 0 THEN x ELSE IF v[i-1] = Nil THEN Nil ELSE n[v[i-1]]
    <3>1. CASE i = 0
      BY <1>4, <3>1
    <3>2. CASE i # 0
      <4>1. i \in 1 .. WalkLength /\ i - 1 \in 0 .. WalkLength
        BY <3>2, WalkLengthIsNat
      <4> QED BY <1>4, <3>2, <4>1
    <3> QED BY <3>1, <3>2
  <2> QED BY <2>1 DEF IsWalk
<1> HIDE DEF v
<1> QED BY <1>5 DEF IsWalk, ListFrom, WalkLength

\* A set that the walk from x cannot leave.
Closed(n, x, S) == x \in S \cup {Nil} /\ \A u \in S : n[u] \in S \cup {Nil}

\* Every set that the walk cannot leave holds what it meets.
LEMMA WalkStays ==
  ASSUME NEW n, NEW x, NEW S, Closed(n, x, S), NEW w, IsWalk(w, n, x)
  PROVE  \A i \in 0 .. WalkLength : w[i] \in S \cup {Nil}
<1> DEFINE T == {i \in 0 .. WalkLength : w[i] \in S \cup {Nil}}
<1>1. \A i \in 0 .. WalkLength : w[i] = IF i = 0 THEN x ELSE IF w[i-1] = Nil THEN Nil ELSE n[w[i-1]]
  BY DEF IsWalk
<1>2. 0 \in T
  BY <1>1, WalkLengthIsNat DEF Closed
<1>3. ASSUME NEW i \in 0 .. WalkLength - 1, i \in T PROVE i + 1 \in T
  <2>1. i + 1 \in 0 .. WalkLength /\ i + 1 # 0 /\ (i + 1) - 1 = i
    BY WalkLengthIsNat
  <2>2. w[i + 1] = IF w[i] = Nil THEN Nil ELSE n[w[i]]
    BY <1>1, <2>1
  <2> QED BY <1>3, <2>1, <2>2 DEF Closed
<1>4. 0 .. WalkLength \subseteq T
  <2> HIDE DEF T
  <2> QED BY <1>2, <1>3, WalkLengthIsNat, InductionTo
<1> QED BY <1>4

\* ListFrom is the least closed set: whatever is closed under next contains it.
LEMMA ListFromLeast ==
  ASSUME NEW n, NEW x, NEW S, Closed(n, x, S)
  PROVE  ListFrom(n, x) \subseteq S
<1>1. PICK w : IsWalk(w, n, x) /\ ListFrom(n, x) = {w[i] : i \in 0 .. WalkLength} \ {Nil}
  BY WalkExists
<1>2. \A i \in 0 .. WalkLength : w[i] \in S \cup {Nil}
  BY <1>1, WalkStays
<1> QED BY <1>1, <1>2

\* The walk is long enough: by the pigeonhole principle it has met Nil or a timer
\* twice, so that what it has met is closed.
LEMMA ListFromClosed ==
  ASSUME NEW n \in [Timers -> Link], NEW x \in Link
  PROVE  /\ ListFrom(n, x) \subseteq Timers
         /\ Closed(n, x, ListFrom(n, x))
<1>1. Closed(n, x, Timers)
  BY DEF Closed, Link
<1>2. ListFrom(n, x) \subseteq Timers
  BY <1>1, ListFromLeast
<1>3. PICK w : IsWalk(w, n, x) /\ ListFrom(n, x) = {w[i] : i \in 0 .. WalkLength} \ {Nil}
  BY WalkExists
<1> DEFINE L == ListFrom(n, x)
<1>4. \A i \in 0 .. WalkLength : w[i] = IF i = 0 THEN x ELSE IF w[i-1] = Nil THEN Nil ELSE n[w[i-1]]
  BY <1>3 DEF IsWalk
<1>5. x \in L \cup {Nil}
  BY <1>3, <1>4, WalkLengthIsNat
<1>6. ASSUME NEW i \in 0 .. WalkLength - 1, w[i] # Nil PROVE w[i + 1] = n[w[i]]
  <2>1. i + 1 \in 0 .. WalkLength /\ i + 1 # 0 /\ (i + 1) - 1 = i
    BY WalkLengthIsNat
  <2> QED BY <1>4, <1>6, <2>1
<1>7. ASSUME NEW i \in 0 .. WalkLength - 1, w[i] # Nil PROVE n[w[i]] \in L \cup {Nil}
  <2>1. i + 1 \in 0 .. WalkLength
    BY WalkLengthIsNat
  <2> QED BY <1>3, <1>6, <1>7, <2>1
<1>8. ASSUME w[WalkLength] # Nil PROVE n[w[WalkLength]] \in L \cup {Nil}
  <2>1. ASSUME NEW i \in 0 .. WalkLength, w[i] = Nil PROVE FALSE
    <3> DEFINE T == {j \in Nat : i + j <= WalkLength => w[i + j] = Nil}
    <3>1. 0 \in T
      BY <2>1
    <3>2. ASSUME NEW j \in 0 .. (WalkLength - i) - 1, j \in T PROVE j + 1 \in T
      <4>1. i + (j + 1) \in 0 .. WalkLength /\ i + (j + 1) # 0 /\ (i + (j + 1)) - 1 = i + j
        BY WalkLengthIsNat
      <4>2. w[i + j] = Nil
        BY <3>2, WalkLengthIsNat
      <4> QED BY <1>4, <4>1, <4>2
    <3>3. 0 .. (WalkLength - i) \subseteq T
      <4>1. WalkLength - i \in Nat
        BY WalkLengthIsNat
      <4> HIDE DEF T
      <4> QED BY <3>1, <3>2, <4>1, InductionTo
    <3>4. WalkLength - i \in T
      BY <3>3, WalkLengthIsNat
    <3> QED BY <3>4, <1>8, WalkLengthIsNat
  <2>2. \A i \in 0 .. WalkLength : w[i] \in Timers
    BY <1>1, <1>3, <2>1, WalkStays
  <2>3. \E i, j \in 0 .. WalkLength : i < j /\ w[i] = w[j]
    <3> DEFINE I == 0 .. WalkLength
               f == [i \in I |-> w[i]]
    <3>1. IsFiniteSet(I) /\ Cardinality(I) = WalkLength + 1
      BY WalkLengthIsNat, FS_Interval
    <3>2. f \in [I -> Timers]
      BY <2>2
    <3>3. Cardinality(I) > Cardinality(Timers)
      BY <3>1, WalkLengthIsNat DEF WalkLength
    <3>4. \E a, b \in I : a # b /\ f[a] = f[b]
      <4> HIDE DEF f, I
      <4> QED BY <3>1, <3>2, <3>3, TimersAssumption, FS_PigeonHole
    <3>5. PICK a, b \in 0 .. WalkLength : a # b /\ w[a] = w[b]
      BY <3>4
    <3>6. a < b \/ b < a
      BY <3>5
    <3> QED BY <3>5, <3>6
  <2>4. PICK i, j \in 0 .. WalkLength : i < j /\ w[i] = w[j]
    BY <2>3
  <2> DEFINE Met == {w[k] : k \in 0 .. j - 1}
  <2>5. Closed(n, x, Met)
    <3>1. x \in Met
      BY <1>4, <2>4, WalkLengthIsNat
    <3>2. ASSUME NEW k \in 0 .. j - 1 PROVE n[w[k]] \in Met
      <4>1. k \in 0 .. WalkLength - 1 /\ k \in 0 .. WalkLength
        BY <2>4, WalkLengthIsNat
      <4>2. w[k] # Nil
        BY <2>1, <4>1
      <4>3. n[w[k]] = w[k + 1]
        BY <1>6, <4>1, <4>2
      <4>4. CASE k + 1 = j
        <5>1. i \in 0 .. j - 1
          BY <2>4
        <5> QED BY <2>4, <4>3, <4>4, <5>1
      <4>5. CASE k + 1 # j
        <5>1. k + 1 \in 0 .. j - 1
          BY <4>5
        <5> QED BY <4>3, <5>1
      <4> QED BY <4>4, <4>5
    <3> QED BY <3>1, <3>2 DEF Closed
  <2>6. w[WalkLength] \in Met
    <3>1. L \subseteq Met
      BY <2>5, ListFromLeast
    <3> QED BY <3>1, <1>3, <1>8, WalkLengthIsNat
  <2>7. PICK k \in 0 .. j - 1 : w[WalkLength] = w[k]
    BY <2>6
  <2>8. k \in 0 .. WalkLength - 1 /\ w[k] # Nil
    BY <2>1, <2>4, WalkLengthIsNat
  <2> QED BY <1>7, <2>7, <2>8
<1>9. ASSUME NEW u \in L PROVE n[u] \in L \cup {Nil}
  <2>1. PICK i \in 0 .. WalkLength : u = w[i] /\ w[i] # Nil
    BY <1>3
  <2>2. i = WalkLength \/ i \in 0 .. WalkLength - 1
    BY WalkLengthIsNat
  <2> QED BY <1>7, <1>8, <2>1, <2>2
<1> QED BY <1>2, <1>5, <1>9 DEF Closed

\* The list from x is a chain: no two of its timers have the same successor, and none
\* points back to x.
Proper(n, x) ==
  /\ \A p, q \in ListFrom(n, x) : n[p] = n[q] /\ n[p] # Nil => p = q
  /\ \A p \in ListFrom(n, x) : n[p] # x

\* A list that starts with Nil has no timers.
LEMMA EmptyList == ASSUME NEW n PROVE ListFrom(n, Nil) = {}
<1>1. Closed(n, Nil, {})
  BY DEF Closed
<1> QED BY <1>1, ListFromLeast

\* Only the pointers of the timers on the list matter.
LEMMA SameList ==
  ASSUME NEW n \in [Timers -> Link], NEW m \in [Timers -> Link], NEW x \in Link,
         \A u \in ListFrom(n, x) : m[u] = n[u]
  PROVE  ListFrom(m, x) = ListFrom(n, x)
<1> DEFINE L == ListFrom(n, x)
           M == ListFrom(m, x)
<1>1. Closed(n, x, L) /\ Closed(m, x, M)
  BY ListFromClosed
<1>2. M \subseteq L
  <2>1. Closed(m, x, L)
    BY <1>1 DEF Closed
  <2> QED BY <2>1, ListFromLeast
<1>3. L \subseteq M
  <2>1. Closed(n, x, M)
    BY <1>1, <1>2 DEF Closed
  <2> QED BY <2>1, ListFromLeast
<1> QED BY <1>2, <1>3

\* A timer that is not on the list becomes its head.
LEMMA PushList ==
  ASSUME NEW n \in [Timers -> Link], NEW x \in Link, Proper(n, x),
         NEW t \in Timers, t \notin ListFrom(n, x),
         NEW m, m = [n EXCEPT ![t] = x]
  PROVE  ListFrom(m, t) = ListFrom(n, x) \cup {t} /\ Proper(m, t)
<1> DEFINE L == ListFrom(n, x)
           M == ListFrom(m, t)
<1>1. m \in [Timers -> Link] /\ t \in Link /\ t # Nil
  BY TimersAssumption DEF Link
<1>2. L \subseteq Timers /\ Closed(n, x, L) /\ Closed(m, t, M)
  BY <1>1, ListFromClosed
<1>3. m[t] = x /\ \A u \in L : m[u] = n[u]
  BY <1>2
<1>4. M \subseteq L \cup {t}
  <2>1. Closed(m, t, L \cup {t})
    BY <1>2, <1>3 DEF Closed
  <2> QED BY <2>1, ListFromLeast
<1>5. L \cup {t} \subseteq M
  <2>1. t \in M /\ x \in M \cup {Nil}
    BY <1>1, <1>2, <1>3 DEF Closed
  <2>2. ListFrom(m, x) = L
    BY <1>1, <1>3, SameList
  <2>3. Closed(m, x, M)
    BY <1>2, <2>1 DEF Closed
  <2>4. ListFrom(m, x) \subseteq M
    BY <2>3, ListFromLeast
  <2> QED BY <2>1, <2>2, <2>4
<1>6. \A u \in L : n[u] # t
  BY <1>1, <1>2 DEF Closed
<1>7. M = L \cup {t}
  BY <1>4, <1>5
<1>8. x # Nil => x \in L
  BY <1>2 DEF Closed
<1>9. ASSUME NEW p \in M, NEW q \in M, m[p] = m[q], m[p] # Nil PROVE p = q
  <2>1. \A u \in L : n[u] # x
    BY DEF Proper
  <2>2. CASE p \in L /\ q \in L
    BY <1>3, <1>9, <2>2 DEF Proper
  <2>3. CASE p = t \/ q = t
    <3>1. p \in L => m[p] # x
      BY <1>3, <2>1
    <3>2. q \in L => m[q] # x
      BY <1>3, <2>1
    <3> QED BY <1>3, <1>7, <1>9, <2>3, <3>1, <3>2
  <2> QED BY <1>7, <2>2, <2>3
<1>10. ASSUME NEW p \in M PROVE m[p] # t
  <2>1. x # t
    BY <1>1, <1>8
  <2> QED BY <1>3, <1>6, <1>7, <2>1
<1> HIDE DEF L, M
<1>11. ListFrom(m, t) = ListFrom(n, x) \cup {t}
  BY <1>7 DEF L, M
<1>12. Proper(m, t)
  BY <1>9, <1>10 DEF Proper, M
<1> QED BY <1>11, <1>12

\* Unlinking: whoever pointed to t points behind it.  With t at the head nobody does.
LEMMA RemoveFromList ==
  ASSUME NEW n \in [Timers -> Link], NEW x \in Link, Proper(n, x),
         NEW t \in ListFrom(n, x),
         NEW m \in [Timers -> Link],
         \A u \in ListFrom(n, x) \ {t} : m[u] = IF n[u] = t THEN n[t] ELSE n[u],
         NEW y, y = IF x = t THEN n[t] ELSE x
  PROVE  /\ ListFrom(m, y) = ListFrom(n, x) \ {t}
         /\ Proper(m, y)
         /\ n[t] # t
<1> DEFINE L == ListFrom(n, x)
           M == ListFrom(m, y)
<1>1. L \subseteq Timers /\ Closed(n, x, L) /\ t \in Timers /\ t # Nil
  BY ListFromClosed, TimersAssumption
<1>2. y \in Link /\ Closed(m, y, M)
  <2>1. y \in Link
    BY <1>1
  <2> QED BY <2>1, ListFromClosed
<1>3. n[t] # t
  <2>1. SUFFICES ASSUME n[t] = t PROVE FALSE
    OBVIOUS
  <2>2. x # t
    BY <1>1, <2>1 DEF Proper
  <2>3. \A u \in L \ {t} : n[u] # t
    BY <1>1, <2>1 DEF Proper
  <2>4. Closed(n, x, L \ {t})
    BY <1>1, <2>2, <2>3 DEF Closed
  <2> QED BY <2>4, ListFromLeast
<1>4. M \subseteq L \ {t}
  <2>1. y \in (L \ {t}) \cup {Nil}
    BY <1>1, <1>3 DEF Closed
  <2>2. \A u \in L \ {t} : m[u] \in (L \ {t}) \cup {Nil}
    BY <1>1, <1>3 DEF Closed
  <2>3. Closed(m, y, L \ {t})
    BY <2>1, <2>2 DEF Closed
  <2> QED BY <2>3, ListFromLeast
\* If M with t were not closed, its first timer after t would be missing: then nobody in M
\* points to t, and M alone would be closed.
<1>5. L \subseteq M \cup {t}
  <2>1. CASE n[t] \in M \cup {Nil}
    <3>1. Closed(n, x, M \cup {t})
      <4>1. x \in M \cup {t, Nil}
        BY <1>2 DEF Closed
      <4>2. ASSUME NEW u \in M PROVE n[u] \in M \cup {t, Nil}
        BY <1>2, <1>4 DEF Closed
      <4> QED BY <2>1, <4>1, <4>2 DEF Closed
    <3> QED BY <3>1, ListFromLeast
  <2>2. CASE n[t] \notin M \cup {Nil}
    <3>1. x # t
      BY <1>2, <2>2 DEF Closed
    <3>2. \A u \in M : n[u] # t
      BY <1>2, <1>4, <2>2 DEF Closed
    <3>3. Closed(n, x, M)
      <4>1. x \in M \cup {Nil}
        BY <1>2, <3>1 DEF Closed
      <4>2. ASSUME NEW u \in M PROVE n[u] \in M \cup {Nil}
        BY <1>2, <1>4, <3>2 DEF Closed
      <4> QED BY <4>1, <4>2 DEF Closed
    <3> QED BY <3>3, ListFromLeast
  <2> QED BY <2>1, <2>2
<1>6. M = L \ {t}
  BY <1>4, <1>5
<1>7. Proper(m, y)
  <2>1. ASSUME NEW p \in M, NEW q \in M, m[p] = m[q], m[p] # Nil PROVE p = q
    <3>1. p \in L \ {t} /\ q \in L \ {t} /\ t \in L
      BY <1>4
    <3>2. /\ m[p] = IF n[p] = t THEN n[t] ELSE n[p]
          /\ m[q] = IF n[q] = t THEN n[t] ELSE n[q]
      BY <3>1
    <3>3. \A u, v \in L : n[u] = n[v] /\ n[u] # Nil => u = v
      BY DEF Proper
    <3> HIDE DEF L, M
    <3>4. CASE n[p] = t /\ n[q] = t
      BY <1>1, <3>1, <3>3, <3>4
    <3>5. CASE n[p] = t /\ n[q] # t
      BY <1>1, <2>1, <3>1, <3>2, <3>3, <3>5
    <3>6. CASE n[p] # t /\ n[q] = t
      BY <1>1, <2>1, <3>1, <3>2, <3>3, <3>6
    <3>7. CASE n[p] # t /\ n[q] # t
      BY <2>1, <3>1, <3>2, <3>3, <3>7
    <3> QED BY <3>4, <3>5, <3>6, <3>7
  <2>2. ASSUME NEW p \in M PROVE m[p] # y
    <3>1. p \in L /\ p # t
      BY <1>4
    <3>2. m[p] = IF n[p] = t THEN n[t] ELSE n[p]
      BY <3>1
    <3>3. CASE x = t
      <4>1. n[p] # t /\ m[p] = n[p] /\ y = n[t]
        BY <3>1, <3>2, <3>3 DEF Proper
      <4>2. n[t] # Nil
        BY <1>4, <3>3, EmptyList
      <4> QED BY <3>1, <4>1, <4>2 DEF Proper
    <3>4. CASE x # t
      BY <3>1, <3>2, <3>4 DEF Proper
    <3> QED BY <3>3, <3>4
  <2> QED BY <2>1, <2>2 DEF Proper
<1> QED BY <1>3, <1>6, <1>7

-----------------------------------------------------------------------------
(* The list and the walk.  Tasks and callbacks start and stop timers while  *)
(* the handler is in the middle of the list; timer_manager.previous and     *)
(* next keep its place.                                                     *)

\* What the handler meets; and with what is hidden behind the start of a running timer.
Listed == ListFrom(next, first)
All    == ListFrom(Whole, first)

\* The walk's previous pointer, or the head of the list, points to x.
Points(x) == \/ mprev = Nil /\ first = x
             \/ mprev \in Listed /\ next[mprev] = x

\* Where the walk of the handler stands: at cur; in the callback of cur, which is
\* listed; or in the callback of a timer that has left the list, before mnext.
AtCur  == phase = "visit" /\ Points(cur)
InCur  == phase # "visit" /\ cur \in Listed /\ Points(cur) /\ next[cur] = mnext
PastCur == /\ phase # "visit" /\ Points(mnext) /\ mnext # cur
           /\ phase = "callback" => cur \notin Listed

\* The next timer that the walk will look at, or has just asked to stay.
WalkAt(z) == \/ (AtCur \/ InCur) /\ z = cur
             \/ PastCur /\ z = mnext

WalkInv == IF servicing THEN \E z : WalkAt(z) ELSE phase = "visit"

\* A running timer that is being started again is cut off from its successor; one at
\* a time, and while the handler runs only the last timer of the list, which has none.
OneRestart   == \A t, u \in Timers : Restarting(t) /\ Restarting(u) => t = u
Severed      == \A t \in Timers : Restarting(t) => next[t] = Nil
NothingSaved == \A t \in Timers : Restarting(t) => saved[t] = Nil

Linked ==
  /\ Exact
  /\ Proper(Whole, first)
  /\ OneRestart
  /\ Severed
  /\ servicing => NothingSaved
  /\ WalkInv

ListInv == cut \/ Linked

-----------------------------------------------------------------------------
\* The list leads from timers to timers or to its end.
LEMMA ListedClosed ==
  ASSUME TypeOK
  PROVE  Listed \subseteq Timers /\ Nil \notin Listed /\ Closed(next, first, Listed)
BY ListFromClosed, TimersAssumption DEF TypeOK, Listed

\* The walk's pointers lead to timers of the list.
LEMMA PointsToListed ==
  ASSUME TypeOK, NEW x, Points(x)
  PROVE  x \in Listed \cup {Nil}
BY ListedClosed DEF Points, Closed

\* Unlink takes the timer off the list.
LEMMA UnlinkListed ==
  ASSUME TypeOK, TypeOK', Proper(next, first), NEW u \in Timers, Unlink(u)
  PROVE  /\ Listed' = Listed \ {u}
         /\ Proper(next, first)'
         /\ u \in Listed =>
              /\ next[u] # u
              /\ first' = IF first = u THEN next[u] ELSE first
              /\ \A p \in Listed \ {u} : next'[p] = IF next[p] = u THEN next[u] ELSE next[p]
<1>1. CASE u \in Listed
  <2>1. /\ first' = IF first = u THEN next[u] ELSE first
        /\ next' = [p \in Timers |->
                      IF first # u /\ p \in Predecessor(u) THEN next[u] ELSE next[p]]
    BY <1>1 DEF Unlink, Listed
  <2>2. \A p \in Listed : first = u => next[p] # u
    BY DEF Proper, Listed
  <2>3. ASSUME NEW p \in Listed PROVE next'[p] = IF next[p] = u THEN next[u] ELSE next[p]
    <3>1. p \in Timers /\ (p \in Predecessor(u) <=> next[p] = u)
      BY ListedClosed DEF Predecessor, Listed
    <3> QED BY <2>1, <2>2, <3>1
  <2>4. /\ next \in [Timers -> Link] /\ first \in Link
        /\ next' \in [Timers -> Link]
    BY DEF TypeOK
  <2> DEFINE m == next'
             y == first'
  <2>a. y = IF first = u THEN next[u] ELSE first
    BY <2>1
  <2>b. m \in [Timers -> Link] /\ \A p \in Listed : m[p] = IF next[p] = u THEN next[u] ELSE next[p]
    BY <2>3, <2>4
  <2> HIDE DEF m, y
  <2>5. /\ ListFrom(m, y) = Listed \ {u}
        /\ Proper(m, y)
        /\ next[u] # u
    BY <1>1, <2>a, <2>b, <2>4, RemoveFromList DEF Listed
  <2> USE DEF m, y
  <2> QED BY <2>1, <2>3, <2>5 DEF Listed
<1>2. CASE u \notin Listed
  BY <1>2 DEF Unlink, Listed, listVars
<1> QED BY <1>1, <1>2

\* When a timer that is not running is put at the head, the list gains it.
LEMMA PushListed ==
  ASSUME TypeOK, Proper(next, first), NEW u \in Timers, u \notin Listed,
         first' = u, next' = [next EXCEPT ![u] = first]
  PROVE  /\ Listed' = Listed \cup {u}
         /\ Proper(next, first)'
         /\ next'[u] = first
         /\ \A p \in Listed : next'[p] = next[p]
<1>1. next \in [Timers -> Link] /\ first \in Link
  BY DEF TypeOK
<1> DEFINE pushed == [next EXCEPT ![u] = first]
<1>2. /\ ListFrom(pushed, u) = Listed \cup {u}
      /\ Proper(pushed, u)
  BY <1>1, PushList DEF Listed
<1> QED BY <1>1, <1>2, ListedClosed DEF Listed

\* The whole list leads from timers to timers or to its end.
LEMMA AllClosed ==
  ASSUME TypeOK
  PROVE  /\ Whole \in [Timers -> Link] /\ first \in Link
         /\ All \subseteq Timers /\ Nil \notin All /\ Closed(Whole, first, All)
<1>1. Whole \in [Timers -> Link] /\ first \in Link
  BY DEF TypeOK, Whole
<1> QED BY <1>1, ListFromClosed, TimersAssumption DEF All

\* What the handler meets is part of the whole list.
LEMMA ListedInAll ==
  ASSUME TypeOK, Severed
  PROVE  Listed \subseteq All
<1>1. \A p \in Timers : next[p] = Whole[p] \/ next[p] = Nil
  BY DEF Whole, Severed
<1>2. Closed(next, first, All)
  BY <1>1, AllClosed DEF Closed
<1> QED BY <1>2, ListFromLeast DEF Listed

\* While nothing is hidden the two are the same.
LEMMA NothingHidden ==
  ASSUME TypeOK, Severed, NothingSaved
  PROVE  Whole = next /\ All = Listed
<1>1. Whole = next
  BY DEF Whole, Severed, NothingSaved, TypeOK
<1> QED BY <1>1 DEF All, Listed

\* Timer_start's first half: the successor of a running timer is in nextEntry now.
LEMMA BeginKeepsList ==
  ASSUME TypeOK, TypeOK', Linked, NEW t \in Timers, NEW d, Timer_startBegin(t, d), ~cut'
  PROVE  All' = All /\ Proper(Whole, first)' /\ OneRestart' /\ Severed'
<1>1. /\ first' = first /\ armed' = armed
      /\ call' = [call EXCEPT ![t] = "start"] /\ call[t] = "idle"
      /\ next' = [next EXCEPT ![t] = Nil] /\ saved' = [saved EXCEPT ![t] = next[t]]
      /\ armed[t] => \A u \in Timers : ~Restarting(u)
  BY DEF Timer_startBegin
<1>2. /\ \A p \in Timers : p # t => Restarting(p)' = Restarting(p) /\ Whole'[p] = Whole[p]
      /\ ~Restarting(t) /\ (Restarting(t)' <=> armed[t])
  BY <1>1 DEF Restarting, Whole, TypeOK
<1>3. armed[t] => Whole'[t] = Whole[t]
  BY <1>1, <1>2 DEF Whole, TypeOK
<1>4. ~armed[t] => t \notin All
  BY DEF Linked, Exact, All
<1>5. \A p \in All : Whole'[p] = Whole[p]
  BY <1>2, <1>3, <1>4, AllClosed
<1>6. Whole \in [Timers -> Link] /\ Whole' \in [Timers -> Link] /\ first \in Link
  BY DEF TypeOK, Whole
<1>7. All' = All
  BY <1>1, <1>5, <1>6, SameList DEF All
<1>8. Proper(Whole, first)'
  BY <1>1, <1>5, <1>7 DEF Linked, Proper, All
<1>9. OneRestart' /\ Severed'
  BY <1>1, <1>2 DEF Linked, OneRestart, Severed, TypeOK
<1> QED BY <1>7, <1>8, <1>9

\* The critical section of Timer_start works on the list that leads on from the timer.
Pushed(t) == [next EXCEPT ![t] = first]
Before(t) == {p \in Timers \cap ListFrom(Pushed(t), t) : Pushed(t)[p] = t}

LEMMA LinkRelinks ==
  ASSUME TypeOK, NEW t \in Timers, Timer_startLink(t)
  PROVE  /\ first' = t
         /\ \A p \in Timers : next'[p] = IF p \in Before(t) THEN saved[t] ELSE Pushed(t)[p]
         /\ \A p \in Timers : p # t => Restarting(p)' = Restarting(p)
         /\ ~Restarting(t)'
         /\ saved' = saved
<1>1. Relinked(t) = [p \in Timers |-> IF p \in Before(t) THEN saved[t] ELSE Pushed(t)[p]]
  BY Zenon DEF Relinked, Before, Pushed
<1>2. call' = [call EXCEPT ![t] = "idle"] /\ armed' = [armed EXCEPT ![t] = TRUE]
  BY DEF Timer_startLink
<1> QED BY <1>1, <1>2 DEF Timer_startLink, Restarting, TypeOK

\* No timer is met there that the list does not hold.
LEMMA PushedInAll ==
  ASSUME TypeOK, Severed, NEW t \in Timers
  PROVE  /\ ListFrom(Pushed(t), t) \subseteq All \cup {t}
         /\ Closed(Pushed(t), t, ListFrom(Pushed(t), t))
         /\ t \in ListFrom(Pushed(t), t)
<1>1. \A p \in Timers : next[p] = Whole[p] \/ next[p] = Nil
  BY DEF Whole, Severed
<1>2. Pushed(t) \in [Timers -> Link] /\ t \in Link /\ t # Nil
  BY TimersAssumption DEF Pushed, TypeOK, Link
<1>3. \A p \in Timers : Pushed(t)[p] = IF p = t THEN first ELSE next[p]
  BY DEF Pushed, TypeOK
<1>4. Closed(Pushed(t), t, All \cup {t})
  BY <1>1, <1>3, AllClosed DEF Closed
<1>5. Closed(Pushed(t), t, ListFrom(Pushed(t), t))
  BY <1>2, ListFromClosed
<1> QED BY <1>2, <1>4, <1>5, ListFromLeast DEF Closed

\* The critical section finds nobody that points to a new timer, so it only pushes it.
LEMMA LinkPushes ==
  ASSUME TypeOK, TypeOK', Linked, NEW t \in Timers, ~armed[t], Timer_startLink(t)
  PROVE  All' = All \cup {t} /\ Proper(Whole, first)' /\ OneRestart' /\ Severed'
<1>1. t \notin All /\ Severed /\ OneRestart /\ Proper(Whole, first)
  BY DEF Linked, Exact, All
<1>2. /\ All \subseteq Timers /\ Closed(Whole, first, All) /\ t # Nil
      /\ Whole \in [Timers -> Link] /\ first \in Link
  BY AllClosed, TimersAssumption
<1>3. \A p \in Timers : next[p] = Whole[p] \/ next[p] = Nil
  BY <1>1 DEF Whole, Severed
<1>4. \A p \in Timers : Pushed(t)[p] = IF p = t THEN first ELSE next[p]
  BY DEF Pushed, TypeOK
<1>5. Before(t) = {}
  <2>1. ASSUME NEW p \in All \cup {t} PROVE Pushed(t)[p] # t
    BY <1>1, <1>2, <1>3, <1>4 DEF Closed
  <2> QED BY <1>1, <2>1, PushedInAll DEF Before
<1>6. /\ first' = t /\ \A p \in Timers : next'[p] = Pushed(t)[p]
      /\ \A p \in Timers : p # t => Restarting(p)' = Restarting(p)
      /\ ~Restarting(t)' /\ saved' = saved
  BY <1>5, LinkRelinks
<1>7. Whole' = [Whole EXCEPT ![t] = first]
  <2>1. \A p \in Timers : Whole'[p] = IF p = t THEN first ELSE Whole[p]
    BY <1>4, <1>6 DEF Whole
  <2>2. Whole' \in [Timers -> Link]
    BY DEF TypeOK, Whole
  <2> QED BY <1>2, <2>1, <2>2
<1>8. ListFrom(Whole', t) = All \cup {t} /\ Proper(Whole', t)
  <2>1. PICK n : n = Whole
    OBVIOUS
  <2> DEFINE w == [n EXCEPT ![t] = first]
  <2>3. n \in [Timers -> Link] /\ Proper(n, first) /\ t \notin ListFrom(n, first)
    BY <1>1, <1>2, <2>1 DEF All
  <2>4. ListFrom(w, t) = ListFrom(n, first) \cup {t} /\ Proper(w, t)
    BY <1>2, <2>3, PushList
  <2>5. Whole' = w
    BY <1>7, <2>1
  <2> HIDE DEF w
  <2> QED BY <2>1, <2>4, <2>5 DEF All
<1>9. OneRestart' /\ Severed'
  BY <1>1, <1>4, <1>6 DEF OneRestart, Severed
<1> QED BY <1>6, <1>8, <1>9 DEF All

\* It puts a running timer at the head: nobody points to it from behind the cut, and
\* whoever points to it from before is met on the way to it.
LEMMA LinkMoves ==
  ASSUME TypeOK, TypeOK', Linked, NEW t \in Timers, armed[t], Timer_startLink(t)
  PROVE  All' = All /\ Proper(Whole, first)' /\ OneRestart' /\ Severed'
<1> DEFINE V == ListFrom(Pushed(t), t)
           L == All
<1>1. Severed /\ OneRestart /\ Proper(Whole, first) /\ t \in L /\ Restarting(t)
  BY DEF Linked, Exact, All, Timer_startLink, Restarting
<1>2. /\ L \subseteq Timers /\ Closed(Whole, first, L) /\ t # Nil
      /\ Whole \in [Timers -> Link] /\ first \in Link
  BY AllClosed, TimersAssumption
<1>3. /\ Whole[t] = saved[t]
      /\ \A p \in Timers : p # t => ~Restarting(p) /\ Whole[p] = next[p]
  BY <1>1 DEF Whole, OneRestart
<1>4. \A p \in Timers : Pushed(t)[p] = IF p = t THEN first ELSE next[p]
  BY DEF Pushed, TypeOK
<1>5. V \subseteq L /\ Closed(Pushed(t), t, V) /\ t \in V
  BY <1>1, PushedInAll
<1>6. /\ first' = t /\ \A p \in Timers : next'[p] = IF p \in Before(t) THEN saved[t] ELSE Pushed(t)[p]
      /\ \A p \in Timers : ~Restarting(p)'
  BY <1>3, LinkRelinks
<1>a. \A p, q \in L : Whole[p] = Whole[q] /\ Whole[p] # Nil => p = q
  BY <1>1 DEF Proper, All
<1>b. \A p \in L : Whole[p] # first
  BY <1>1 DEF Proper, All
<1>7. ASSUME NEW p \in L, Whole[p] = t, p # t PROVE p \in Before(t)
  <2>1. first # t
    BY <1>b, <1>7
  <2>2. SUFFICES ASSUME p \notin V PROVE FALSE
    BY <1>2, <1>3, <1>4, <1>7 DEF Before
  <2>3. Closed(Whole, first, V \ {t})
    <3>1. first \in (V \ {t}) \cup {Nil}
      BY <1>1, <1>2, <1>4, <1>5, <2>1 DEF Closed
    <3>2. ASSUME NEW u \in V \ {t} PROVE Whole[u] \in (V \ {t}) \cup {Nil}
      <4>1. u \in L /\ u \in Timers /\ Whole[u] = Pushed(t)[u]
        BY <1>2, <1>3, <1>4, <1>5
      <4>2. Whole[u] # t
        BY <1>2, <1>7, <1>a, <2>2, <4>1
      <4> QED BY <1>5, <4>1, <4>2 DEF Closed
    <3> QED BY <3>1, <3>2 DEF Closed
  <2>4. L \subseteq V \ {t}
    BY <2>3, ListFromLeast DEF All
  <2> QED BY <1>1, <2>4
<1>8. ASSUME NEW p \in Timers, p \in Before(t), p # t PROVE p \in L /\ Whole[p] = t
  BY <1>3, <1>4, <1>5, <1>8 DEF Before
<1>9. t \in Before(t) <=> first = t
  BY <1>4, <1>5 DEF Before
<1> DEFINE m == [p \in Timers |-> IF p \in L \ {t} /\ Whole[p] = t THEN Whole[t] ELSE Whole[p]]
           y == IF first = t THEN Whole[t] ELSE first
<1>10. /\ m \in [Timers -> Link]
       /\ \A u \in L \ {t} : m[u] = IF Whole[u] = t THEN Whole[t] ELSE Whole[u]
       /\ y \in Link
  BY <1>2
<1>11. Whole' = [m EXCEPT ![t] = y]
  <2>1. Whole' = next'
    BY <1>6 DEF Whole, TypeOK
  <2>2. ASSUME NEW p \in Timers, p # t PROVE next'[p] = m[p]
    <3>1. CASE p \in Before(t)
      BY <1>3, <1>6, <1>8, <2>2, <3>1
    <3>2. CASE p \notin Before(t)
      BY <1>3, <1>4, <1>6, <1>7, <2>2, <3>2
    <3> QED BY <3>1, <3>2
  <2>3. next'[t] = y
    BY <1>3, <1>4, <1>6, <1>9
  <2>4. next' \in [Timers -> Link]
    BY DEF TypeOK
  <2> HIDE DEF m, y
  <2> QED BY <1>10, <2>1, <2>2, <2>3, <2>4
<1>12. ListFrom(m, y) = L \ {t} /\ Proper(m, y)
  <2>1. y = IF first = t THEN Whole[t] ELSE first
    OBVIOUS
  <2> HIDE DEF m, y
  <2> QED BY <1>1, <1>2, <1>10, <2>1, RemoveFromList DEF All
<1>13. ListFrom(Whole', t) = L /\ Proper(Whole', t)
  <2> HIDE DEF m, y
  <2>1. t \notin ListFrom(m, y)
    BY <1>12
  <2> DEFINE w == [m EXCEPT ![t] = y]
  <2>a. m \in [Timers -> Link] /\ y \in Link /\ Proper(m, y)
    BY <1>10, <1>12
  <2>3. ListFrom(w, t) = ListFrom(m, y) \cup {t} /\ Proper(w, t)
    BY <2>1, <2>a, PushList
  <2>4. Whole' = w
    BY <1>11
  <2> HIDE DEF L, w
  <2> QED BY <1>1, <1>12, <2>3, <2>4
<1>14. OneRestart' /\ Severed'
  BY <1>6 DEF OneRestart, Severed
<1> QED BY <1>6, <1>13, <1>14 DEF All

\* The head of the list is the only timer on it that nobody points to.
LEMMA HeadOrPredecessor ==
  ASSUME TypeOK, NEW u \in Listed, Predecessor(u) = {}
  PROVE  first = u
<1>1. \A p \in Listed : next[p] # u
  BY ListedClosed DEF Predecessor, Listed
<1>2. SUFFICES ASSUME first # u PROVE FALSE
  OBVIOUS
<1>3. Closed(next, first, Listed \ {u})
  BY <1>1, <1>2, ListedClosed DEF Closed
<1> QED BY <1>3, ListFromLeast DEF Listed

\* A task that stops a timer which the handler can meet takes it off the whole list, and
\* one that stops a timer which does not run changes nothing.
LEMMA StopUnlinks ==
  ASSUME TypeOK, TypeOK', Linked, NEW u \in Timers, Timer_stop(u), ~cut'
  PROVE  All' = All \ {u} /\ Proper(Whole, first)' /\ OneRestart' /\ Severed'
<1>1. Severed /\ OneRestart /\ Proper(Whole, first) /\ (armed[u] <=> u \in All)
  BY DEF Linked, Exact, All
<1>2. /\ All \subseteq Timers /\ Nil \notin All /\ u # Nil
      /\ Whole \in [Timers -> Link] /\ first \in Link
  BY AllClosed, TimersAssumption
<1>3. /\ Unlink(u) /\ saved' = saved /\ (armed[u] => u \in Listed)
      /\ ~Restarting(u) /\ \A p \in Timers : Restarting(p)' = Restarting(p)
  BY DEF Timer_stop, Restarting, TypeOK, Listed
<1>4. \A p \in Timers : Whole[p] = IF Restarting(p) THEN saved[p] ELSE next[p]
  BY DEF Whole
<1>5. \A p \in Timers : Whole'[p] = IF Restarting(p) THEN saved[p] ELSE next'[p]
  BY <1>3 DEF Whole
<1>6. CASE u \notin Listed
  <2>1. UNCHANGED <<first, next>> /\ u \notin All
    BY <1>1, <1>3, <1>6 DEF Unlink, Listed, listVars
  <2>2. Whole' = Whole
    BY <1>3, <2>1 DEF Whole
  <2>3. All' = All \ {u} /\ Proper(Whole, first)'
    BY <1>1, <2>1, <2>2 DEF All
  <2> QED BY <1>1, <1>3, <2>1, <2>3 DEF OneRestart, Severed
<1>7. CASE u \in Listed
  <2>1. /\ u \in All /\ Listed \subseteq All
        /\ first' = IF first = u THEN next[u] ELSE first
        /\ next' = [p \in Timers |->
                      IF first # u /\ p \in Predecessor(u) THEN next[u] ELSE next[p]]
    BY <1>1, <1>3, <1>7, ListedInAll DEF Unlink, Listed
  <2>2. \A p \in Predecessor(u) : p \in Timers /\ p \in All /\ next[p] = u /\ ~Restarting(p)
    BY <1>1, <1>2, <2>1 DEF Predecessor, Listed, Severed
  <2>3. ASSUME NEW p \in All, Whole[p] = u PROVE first # u /\ p \in Predecessor(u)
    <3>1. first # u
      BY <1>1, <2>3 DEF Proper, All
    <3>2. PICK q \in Predecessor(u) : TRUE
      BY <1>7, <3>1, HeadOrPredecessor
    <3>3. Whole[q] = u /\ q \in All
      BY <1>4, <2>2
    <3>4. p = q
      BY <1>1, <1>2, <2>3, <3>3 DEF Proper, All
    <3> QED BY <3>1, <3>4
  <2>4. ASSUME NEW p \in All \ {u} PROVE Whole'[p] = IF Whole[p] = u THEN Whole[u] ELSE Whole[p]
    <3>1. CASE Whole[p] = u
      BY <1>2, <1>3, <1>4, <1>5, <2>1, <2>2, <2>3, <3>1
    <3>2. CASE Whole[p] # u
      BY <1>2, <1>4, <1>5, <2>1, <2>2, <3>2
    <3> QED BY <3>1, <3>2
  <2>5. first' = IF first = u THEN Whole[u] ELSE first
    BY <1>3, <1>4, <2>1
  <2>6. Whole' \in [Timers -> Link]
    BY DEF TypeOK, Whole
  <2>7. ListFrom(Whole', first') = All \ {u} /\ Proper(Whole', first')
    BY <1>1, <1>2, <2>1, <2>4, <2>5, <2>6, RemoveFromList DEF All
  <2>8. Severed' /\ OneRestart'
    BY <1>1, <1>3, <2>1, <2>2 DEF Severed, OneRestart
  <2> QED BY <2>7, <2>8 DEF All
<1> QED BY <1>6, <1>7

\* Timer_stop repairs the walk's previous pointer: it still points to what it
\* pointed to, or behind it when that was the timer stopped.
LEMMA StopKeepsPoints ==
  ASSUME TypeOK, TypeOK', Proper(next, first), NEW u \in Listed, Unlink(u),
         mprev' = PreviousAfterStop(u), NEW x, Points(x),
         NEW y, y = IF x = u THEN next[u] ELSE x
  PROVE  \/ mprev' = Nil /\ first' = y
         \/ mprev' \in Listed' /\ next'[mprev'] = y
<1>1. u \in Timers /\ u # Nil
  BY ListedClosed
<1>2. /\ Listed' = Listed \ {u}
      /\ next[u] # u
      /\ first' = IF first = u THEN next[u] ELSE first
      /\ \A p \in Listed \ {u} : next'[p] = IF next[p] = u THEN next[u] ELSE next[p]
  BY <1>1, UnlinkListed
<1>3. CASE mprev = Nil /\ first = x
  BY <1>1, <1>2, <1>3 DEF PreviousAfterStop
<1>4. CASE mprev \in Listed /\ next[mprev] = x /\ mprev # u
  BY <1>2, <1>4 DEF PreviousAfterStop
<1>5. CASE mprev = u /\ next[u] = x
  <2>1. x # u /\ y = x
    BY <1>2, <1>5
  <2>2. CASE Predecessor(u) = {}
    BY <1>2, <1>5, <2>1, <2>2, HeadOrPredecessor DEF PreviousAfterStop
  <2>3. CASE Predecessor(u) # {}
    <3>1. mprev' \in Predecessor(u)
      BY <1>5, <2>3 DEF PreviousAfterStop
    <3>2. mprev' \in Listed /\ next[mprev'] = u
      BY <3>1 DEF Predecessor, Listed
    <3>3. mprev' \in Listed \ {u}
      BY <1>2, <3>2
    <3> QED BY <1>2, <1>5, <2>1, <3>2, <3>3
  <2> QED BY <2>2, <2>3
<1> QED BY <1>3, <1>4, <1>5 DEF Points

-----------------------------------------------------------------------------
\* Nothing is listed at the start.
LEMMA InitListInv == Init => ListInv
<1> SUFFICES ASSUME Init PROVE Linked
  BY DEF ListInv
<1>1. ListFrom(Whole, first) = {}
  BY EmptyList DEF Init
<1>2. \A t \in Timers : ~armed[t] /\ ~Restarting(t)
  BY DEF Init, Restarting
<1> QED BY <1>1, <1>2
        DEF Init, Linked, Exact, Proper, OneRestart, Severed, WalkInv

\* Steps that touch neither the list nor the walk.
LEMMA ListFrame ==
  ASSUME Linked, UNCHANGED <<listVars, saved, armed>>,
         \A t \in Timers : Restarting(t)' = Restarting(t),
         \/ UNCHANGED <<servicing, cur, mnext, mprev, phase>>
         \/ servicing' = FALSE /\ phase' = "visit"
  PROVE  Linked' /\ All' = All
<1>1. Whole' = Whole /\ first' = first /\ next' = next
  BY DEF Whole, listVars
<1>2. All' = All /\ Exact' /\ Proper(Whole, first)' /\ Listed' = Listed
  BY <1>1 DEF Linked, All, Listed, Exact, Proper
<1>3. OneRestart' /\ Severed' /\ (servicing' => NothingSaved')
  BY <1>1 DEF Linked, OneRestart, Severed, NothingSaved
<1>4. WalkInv'
  BY <1>1, <1>2 DEF Linked, WalkInv, WalkAt, AtCur, InCur, PastCur, Points
<1> QED BY <1>2, <1>3, <1>4 DEF Linked

\* What the handler works on: it meets the whole list.
LEMMA HandlerMeetsAll ==
  ASSUME TypeOK, Linked, servicing
  PROVE  /\ All = Listed /\ Proper(next, first)
         /\ \A t \in Timers : armed[t] \in BOOLEAN /\ (armed[t] <=> t \in Listed)
         /\ \A t \in Timers : Restarting(t) => next[t] = Nil /\ saved[t] = Nil
         /\ OneRestart /\ \E z : WalkAt(z)
<1>1. Whole = next /\ All = Listed
  BY NothingHidden DEF Linked
<1> QED BY <1>1 DEF Linked, Exact, All, Severed, NothingSaved, WalkInv, TypeOK

\* What a step of the handler has to leave behind.
LEMMA HandlerKeepsLinked ==
  ASSUME TypeOK', OneRestart, UNCHANGED <<call, saved>>,
         \A t \in Timers : Restarting(t) => saved[t] = Nil,
         \A t \in Timers : Restarting(t)' => Restarting(t) /\ next'[t] = Nil,
         \A t \in Timers : armed'[t] <=> t \in Listed',
         Proper(next, first)', servicing', NEW y, WalkAt(y)'
  PROVE  Linked' /\ All' = Listed'
<1>1. OneRestart' /\ Severed' /\ NothingSaved'
  BY DEF OneRestart, Severed, NothingSaved
<1>2. Whole' = next'
  BY <1>1 DEF Whole, Severed, NothingSaved, TypeOK
<1>3. All' = Listed' /\ Exact' /\ Proper(Whole, first)'
  BY <1>2 DEF All, Listed, Exact
<1>4. WalkInv'
  BY DEF WalkInv
<1> QED BY <1>1, <1>3, <1>4 DEF Linked

(* How the walk moves, one lemma for each step of the handler that moves it. *)

\* The walk starts at the head.
LEMMA WalkEnter ==
  ASSUME IsrEnter, NEW z, z = first
  PROVE  WalkAt(z)'
BY DEF IsrEnter, WalkAt, AtCur, Points, listVars

\* The timer visited is listed, and the walk's previous pointer points to it.
LEMMA WalkVisits ==
  ASSUME TypeOK, NEW z, WalkAt(z), phase = "visit", cur # Nil
  PROVE  z = cur /\ cur \in Listed /\ cur \in Timers /\ Points(cur)
BY PointsToListed, ListedClosed DEF WalkAt, AtCur, InCur, PastCur

\* A timer that is not due is passed.
LEMMA WalkPending ==
  ASSUME TypeOK, NEW z, WalkAt(z), IsrVisitPending, NEW y, y = next[cur]
  PROVE  WalkAt(y)'
<1>1. cur \in Listed
  BY WalkVisits DEF IsrVisitPending
<1>2. Listed' = Listed
  BY DEF IsrVisitPending, listVars, Listed
<1> QED BY <1>1, <1>2 DEF IsrVisitPending, KeepTimer, WalkAt, AtCur, Points, listVars

\* A repeating timer stays where it is while its callback runs.
LEMMA WalkRepeating ==
  ASSUME TypeOK, NEW z, WalkAt(z), IsrVisitRepeating
  PROVE  WalkAt(z)' /\ z = cur
<1>1. z = cur /\ cur \in Listed /\ Points(cur)
  BY WalkVisits DEF IsrVisitRepeating
<1>2. Listed' = Listed
  BY DEF IsrVisitRepeating, listVars, Listed
<1> QED BY <1>1, <1>2 DEF IsrVisitRepeating, WalkAt, InCur, Points, listVars

\* The handler unlinks the timer it visits, with the walk's previous pointer.
LEMMA OneShotUnlinks ==
  ASSUME TypeOK, TypeOK', Proper(next, first), NEW z, WalkAt(z), IsrVisitOneShot
  PROVE  /\ Listed' = Listed \ {cur}
         /\ Proper(next, first)'
         /\ next[cur] # cur
         /\ first' = IF first = cur THEN next[cur] ELSE first
         /\ \A p \in Listed \ {cur} : next'[p] = IF next[p] = cur THEN next[cur] ELSE next[p]
<1>1. cur \in Listed /\ Points(cur)
  BY WalkVisits DEF IsrVisitOneShot
<1>2. Listed \subseteq Timers /\ Nil \notin Listed
  BY ListedClosed
<1>3. \A p, q \in Listed : next[p] = next[q] /\ next[p] # Nil => p = q
  BY DEF Proper, Listed
<1>4. \A p \in Listed : next[p] # first
  BY DEF Proper, Listed
<1>5. first' = IF first = cur THEN next[cur] ELSE first
  BY <1>1, <1>2, <1>4 DEF IsrVisitOneShot, Points
<1>6. ASSUME NEW p \in Listed \ {cur}
      PROVE  next'[p] = IF next[p] = cur THEN next[cur] ELSE next[p]
  BY <1>1, <1>2, <1>3, <1>4 DEF IsrVisitOneShot, Points, TypeOK
<1>7. /\ ListFrom(next', first') = Listed \ {cur}
      /\ Proper(next', first')
      /\ next[cur] # cur
  <2>1. next \in [Timers -> Link] /\ next' \in [Timers -> Link] /\ first \in Link
    BY DEF TypeOK
  <2> QED BY <1>1, <1>5, <1>6, <2>1, RemoveFromList DEF Listed
<1> QED BY <1>5, <1>6, <1>7 DEF Listed

\* Behind a timer that was unlinked the walk goes on with its successor.
LEMMA WalkOneShot ==
  ASSUME TypeOK, TypeOK', Proper(next, first), NEW z, WalkAt(z), IsrVisitOneShot,
         NEW y, y = next[cur]
  PROVE  WalkAt(y)' /\ z = cur
<1>1. z = cur /\ cur \in Listed /\ Points(cur)
  BY WalkVisits DEF IsrVisitOneShot
<1>2. /\ Listed' = Listed \ {cur}
      /\ next[cur] # cur
      /\ \A p \in Listed \ {cur} : next'[p] = IF next[p] = cur THEN next[cur] ELSE next[p]
  BY OneShotUnlinks
<1>3. mnext' = y /\ mnext' # cur /\ cur' = cur /\ phase' = "callback"
  BY <1>2 DEF IsrVisitOneShot
<1>4. CASE mprev = Nil
  BY <1>1, <1>2, <1>3, <1>4 DEF IsrVisitOneShot, WalkAt, PastCur, Points
<1>5. CASE mprev # Nil
  <2>1. mprev \in Listed \ {cur} /\ next[mprev] = cur
    BY <1>1, <1>2, <1>5 DEF Points
  <2>2. next'[mprev] = next[cur] /\ mprev' = mprev
    BY <1>2, <1>5, <2>1 DEF IsrVisitOneShot
  <2> QED BY <1>1, <1>2, <1>3, <2>1, <2>2 DEF WalkAt, PastCur, Points
<1> QED BY <1>4, <1>5

\* A callback that only posts moves nothing.
LEMMA WalkCallback ==
  ASSUME NEW z, WalkAt(z), IsrCallback
  PROVE  WalkAt(z)'
<1>1. Listed' = Listed
  BY DEF IsrCallback, listVars, Listed
<1> QED BY <1>1 DEF IsrCallback, WalkAt, AtCur, InCur, PastCur, Points, listVars

\* Nor does the call of Timer_stop, before it reads the list.
LEMMA WalkStopCall ==
  ASSUME NEW z, WalkAt(z), NEW u, IsrStopCall(u)
  PROVE  WalkAt(z)'
<1>1. Listed' = Listed
  BY DEF IsrStopCall, listVars, Listed
<1> QED BY <1>1 DEF IsrStopCall, WalkAt, AtCur, InCur, PastCur, Points, listVars

\* A callback that puts a timer at the head leaves the walk where it is.
LEMMA WalkStart ==
  ASSUME TypeOK, Proper(next, first), NEW z, WalkAt(z),
         NEW u \in Timers, u \notin Listed, NEW d, IsrCallbackStart(u, d)
  PROVE  WalkAt(z)'
<1>1. Listed \subseteq Timers /\ Nil \notin Listed
  BY ListedClosed
<1>2. /\ Listed' = Listed \cup {u}
      /\ next'[u] = first
      /\ \A p \in Listed : next'[p] = next[p]
  BY PushListed DEF IsrCallbackStart
<1>3. ASSUME NEW x, Points(x)
      PROVE  mprev' \in Listed' /\ next'[mprev'] = x
  BY <1>1, <1>2, <1>3 DEF IsrCallbackStart, PreviousAfterStart, Points
<1>4. cur' = cur /\ mnext' = mnext /\ phase = "callback" /\ phase' = "after"
  BY DEF IsrCallbackStart
<1>5. CASE InCur /\ z = cur
  BY <1>2, <1>3, <1>4, <1>5 DEF WalkAt, InCur, Points
<1>6. CASE PastCur /\ z = mnext
  BY <1>2, <1>3, <1>4, <1>6 DEF WalkAt, PastCur, Points
<1> QED BY <1>4, <1>5, <1>6 DEF WalkAt, AtCur

\* A callback that stops the timer the walk would go on with makes it go on behind it.
LEMMA WalkStop ==
  ASSUME TypeOK, TypeOK', Proper(next, first), NEW z, WalkAt(z),
         NEW u \in Listed, IsrCallbackStop(u), NEW y, y = IF z = u THEN next[u] ELSE z
  PROVE  WalkAt(y)'
<1>1. Nil \notin Listed /\ Closed(next, first, Listed) /\ u \in Timers
  BY ListedClosed
<1>2. cur' = cur /\ phase' = "after" /\ phase = "callback" /\ Unlink(u)
  BY DEF IsrCallbackStop
<1>3. /\ Listed' = Listed \ {u}
      /\ next[u] # u
      /\ \A p \in Listed \ {u} : next'[p] = IF next[p] = u THEN next[u] ELSE next[p]
  BY <1>1, <1>2, UnlinkListed
<1>4. /\ mprev' = PreviousAfterStop(u)
      /\ mnext' = IF mnext = u THEN next[u] ELSE mnext
  BY DEF IsrCallbackStop, Listed, NextAfterStop
<1>5. ASSUME NEW x, Points(x), NEW v, v = IF x = u THEN next[u] ELSE x
      PROVE  \/ mprev' = Nil /\ first' = v
             \/ mprev' \in Listed' /\ next'[mprev'] = v
  BY <1>2, <1>4, <1>5, StopKeepsPoints
<1>6. CASE InCur /\ z = cur /\ u = cur
  <2>1. Points(cur) /\ mnext' = next[cur] /\ mnext' # cur
    BY <1>3, <1>4, <1>6 DEF InCur
  <2> QED BY <1>2, <1>5, <1>6, <2>1 DEF WalkAt, PastCur, Points
<1>7. CASE InCur /\ z = cur /\ u # cur
  <2>1. Points(cur) /\ cur \in Listed' /\ next'[cur] = mnext'
    BY <1>3, <1>4, <1>7 DEF InCur
  <2> QED BY <1>2, <1>5, <1>7, <2>1 DEF WalkAt, InCur, Points
<1>8. CASE PastCur /\ z = mnext
  <2>1. Points(mnext) /\ mnext # cur /\ cur \notin Listed
    BY <1>2, <1>8 DEF PastCur
  <2>2. mnext' # cur
    BY <1>1, <1>2, <1>4, <2>1 DEF Closed, TypeOK
  <2> QED BY <1>2, <1>4, <1>5, <1>8, <2>1, <2>2 DEF WalkAt, PastCur, Points
<1> QED BY <1>2, <1>6, <1>7, <1>8 DEF WalkAt, AtCur

\* The handler keeps its place behind cur when cur is still listed, and goes on with mnext.
LEMMA WalkAfter ==
  ASSUME TypeOK, NEW z, WalkAt(z), IsrAfter, NEW y, y = mnext
  PROVE  /\ WalkAt(y)'
         /\ \/ z = cur /\ cur \in Listed /\ next[cur] = y /\ KeepTimer(cur)
            \/ z = y /\ UNCHANGED <<nextTime, nextTimeSet>>
<1>1. Listed' = Listed /\ Listed \subseteq Timers /\ Nil \notin Listed
  BY ListedClosed DEF IsrAfter, listVars, Listed
<1>2. cur' = mnext /\ phase = "after" /\ phase' = "visit" /\ UNCHANGED <<first, next>>
  BY DEF IsrAfter, listVars
<1>3. CASE InCur /\ z = cur
  <2>1. StillListed(cur)
    BY <1>1, <1>3 DEF InCur, Points, StillListed
  <2>2. KeepTimer(cur) /\ mprev' = cur
    BY <2>1 DEF IsrAfter, KeepTimer
  <2> QED BY <1>1, <1>2, <1>3, <2>2 DEF WalkAt, AtCur, InCur, Points
<1>4. CASE PastCur /\ z = mnext
  <2>1. ~StillListed(cur)
    BY <1>1, <1>4 DEF PastCur, Points, StillListed
  <2>2. mprev' = mprev /\ UNCHANGED <<nextTime, nextTimeSet>>
    BY <2>1 DEF IsrAfter
  <2> QED BY <1>1, <1>2, <1>4, <2>2 DEF WalkAt, AtCur, PastCur, Points
<1> QED BY <1>2, <1>3, <1>4 DEF WalkAt, AtCur

\* One step of the proof for each action, while no start has been interrupted.
LEMMA NextLinked ==
  ASSUME TypeOK, TypeOK', Linked, ~cut', [Next]_vars
  PROVE  Linked'
<1>a. /\ \A t \in Timers : armed[t] \in BOOLEAN /\ (armed[t] <=> t \in All)
      /\ ~servicing => phase = "visit"
  BY DEF Linked, Exact, All, TypeOK, WalkInv
<1>1. CASE Tick
  BY <1>1, ListFrame DEF Tick, isrVars, callVars, Restarting
<1>2. ASSUME NEW t \in Timers, NEW d \in Delays, Timer_startBegin(t, d) PROVE Linked'
  <2>1. All' = All /\ Proper(Whole, first)' /\ OneRestart' /\ Severed'
    BY <1>2, BeginKeepsList
  <2>2. /\ ~servicing /\ servicing' = servicing /\ phase' = phase
        /\ armed' = armed
    BY <1>2 DEF Timer_startBegin, isrVars
  <2> QED BY <1>a, <2>1, <2>2 DEF Linked, Exact, All, WalkInv
<1>3. ASSUME NEW t \in Timers, Timer_startLink(t) PROVE Linked'
  <2>1. All' = All \cup {t} /\ Proper(Whole, first)' /\ OneRestart' /\ Severed'
    BY <1>3, <1>a, LinkPushes, LinkMoves
  <2>2. /\ ~servicing /\ servicing' = servicing /\ phase' = phase
        /\ armed' = [armed EXCEPT ![t] = TRUE]
    BY <1>3 DEF Timer_startLink, isrVars
  <2> QED BY <1>a, <2>1, <2>2 DEF Linked, Exact, All, WalkInv, TypeOK
<1>4. ASSUME NEW t \in Timers, Timer_stop(t) PROVE Linked'
  <2>1. All' = All \ {t} /\ Proper(Whole, first)' /\ OneRestart' /\ Severed'
    BY <1>4, StopUnlinks
  <2>2. /\ ~servicing /\ servicing' = servicing /\ phase' = phase
        /\ armed' = [armed EXCEPT ![t] = FALSE]
    BY <1>4 DEF Timer_stop, isrVars
  <2> QED BY <1>a, <2>1, <2>2 DEF Linked, Exact, All, WalkInv, TypeOK
<1>4a. ASSUME NEW t \in Timers, Timer_stopCall(t) PROVE Linked'
  <2>1. UNCHANGED <<listVars, saved, armed, servicing, cur, mnext, mprev, phase>>
    BY <1>4a DEF Timer_stopCall, isrVars
  <2>2. \A u \in Timers : Restarting(u)' = Restarting(u)
    BY <1>4a DEF Timer_stopCall, Restarting, TypeOK
  <2> QED BY <2>1, <2>2, ListFrame
<1>5. CASE IsrEnter
  <2>1. /\ UNCHANGED <<first, next, call, saved, armed>> /\ servicing' /\ ~servicing
        /\ \A t \in Timers : Restarting(t) => saved[t] = Nil
    BY <1>5 DEF IsrEnter, listVars, callVars
  <2>2. /\ Whole' = Whole /\ OneRestart' /\ Severed' /\ NothingSaved'
    BY <2>1 DEF Linked, Whole, OneRestart, Severed, NothingSaved, Restarting
  <2>3. Exact' /\ Proper(Whole, first)'
    BY <2>1, <2>2 DEF Linked, Exact
  <2>4. PICK z : z = first
    OBVIOUS
  <2>5. WalkInv'
    BY <1>5, <2>1, <2>4, WalkEnter DEF WalkInv
  <2> QED BY <2>2, <2>3, <2>5 DEF Linked
<1>6. ASSUME servicing, Isr, ~IsrExit PROVE Linked'
  <2>a. /\ Proper(next, first) /\ OneRestart
        /\ \A t \in Timers : armed[t] \in BOOLEAN /\ (armed[t] <=> t \in Listed)
        /\ \A t \in Timers : Restarting(t) => next[t] = Nil /\ saved[t] = Nil
    BY <1>6, HandlerMeetsAll
  <2>b. PICK z : WalkAt(z)
    BY <1>6, HandlerMeetsAll
  <2>c. /\ servicing' /\ UNCHANGED <<call, saved>>
    BY <1>6 DEF Isr, IsrEnter, IsrVisitPending, IsrVisitRepeating, IsrVisitOneShot, IsrCallback,
                IsrCallbackStart, IsrStopCall, IsrCallbackStop, IsrAfter, callVars
  \* Steps that leave the list alone.
  <2>d. ASSUME UNCHANGED <<first, next, armed>>, NEW y, WalkAt(y)' PROVE Linked'
    <3>1. \A t \in Timers : Restarting(t)' => Restarting(t) /\ next'[t] = Nil
      BY <2>a, <2>c, <2>d DEF Restarting
    <3>2. Proper(next, first)' /\ Listed' = Listed
      BY <2>a, <2>d DEF Proper, Listed
    <3> QED BY <2>a, <2>c, <2>d, <3>1, <3>2, HandlerKeepsLinked
  \* Steps that change the list, but clear no pointer to a timer that is started again.
  <2>e. ASSUME \A t \in Timers : armed'[t] <=> t \in Listed',
               \A t \in Timers : armed'[t] /\ call[t] = "start" => armed[t],
               \A t \in Timers : Restarting(t) => next'[t] = next[t],
               Proper(next, first)', NEW y, WalkAt(y)'
        PROVE  Linked'
    <3>1. \A t \in Timers : Restarting(t)' => Restarting(t) /\ next'[t] = Nil
      BY <2>a, <2>c, <2>e DEF Restarting
    <3> QED BY <2>a, <2>c, <2>e, <3>1, HandlerKeepsLinked
  <2>1. CASE IsrVisitPending
    <3>1. PICK y : y = next[cur]
      OBVIOUS
    <3> QED BY <2>1, <2>b, <2>d, <3>1, WalkPending DEF IsrVisitPending, listVars
  <2>2. CASE IsrVisitRepeating
    BY <2>2, <2>b, <2>d, WalkRepeating DEF IsrVisitRepeating, listVars
  <2>3. CASE IsrVisitOneShot
    <3>1. Listed' = Listed \ {cur} /\ Proper(next, first)' /\ cur \in Listed /\ cur \in Timers
      BY <2>3, <2>a, <2>b, OneShotUnlinks, WalkVisits DEF IsrVisitOneShot
    <3>2. armed' = [armed EXCEPT ![cur] = FALSE]
      BY <2>3 DEF IsrVisitOneShot
    <3>3. \A t \in Timers : armed'[t] = (armed[t] /\ t # cur)
      BY <2>a, <3>2 DEF TypeOK
    <3>4. \A t \in Timers : Restarting(t) => next'[t] = next[t]
      <4>1. mprev # Nil => next[mprev] = cur /\ cur # Nil
        BY <2>3, <2>b, WalkVisits DEF Points, IsrVisitOneShot
      <4> QED BY <2>3, <2>a, <4>1 DEF IsrVisitOneShot, TypeOK
    <3>5. PICK y : y = next[cur]
      OBVIOUS
    <3> QED BY <2>3, <2>a, <2>b, <2>e, <3>1, <3>3, <3>4, <3>5, WalkOneShot
  <2>4. CASE IsrCallback
    BY <2>4, <2>b, <2>d, WalkCallback DEF IsrCallback, listVars
  <2>5. ASSUME NEW u \in Timers, NEW d \in Delays, IsrCallbackStart(u, d) PROVE Linked'
    <3>1. u \notin Listed
      BY <2>5, <2>a DEF IsrCallbackStart
    <3>2. Listed' = Listed \cup {u} /\ Proper(next, first)'
      BY <2>5, <2>a, <3>1, PushListed DEF IsrCallbackStart
    <3>3. /\ \A t \in Timers : armed'[t] = (armed[t] \/ t = u)
          /\ \A t \in Timers : t # u => next'[t] = next[t]
          /\ call[u] = "idle"
      BY <2>5, <2>a DEF IsrCallbackStart, TypeOK
    <3> QED BY <2>5, <2>a, <2>b, <2>e, <3>1, <3>2, <3>3, WalkStart DEF Restarting
  <2>6. ASSUME NEW u \in Timers, IsrStopCall(u) PROVE Linked'
    BY <2>6, <2>b, <2>d, WalkStopCall DEF IsrStopCall, listVars
  <2>7. ASSUME NEW u \in Timers, IsrCallbackStop(u) PROVE Linked'
    <3>1. Listed' = Listed \ {u} /\ Proper(next, first)' /\ Unlink(u)
      BY <2>7, <2>a, UnlinkListed DEF IsrCallbackStop
    <3>2. \A t \in Timers : armed'[t] = (armed[t] /\ t # u)
      BY <2>7, <2>a DEF IsrCallbackStop, TypeOK
    <3>3. \A t \in Timers : next[t] = Nil => next'[t] = next[t]
      <4>1. \A p \in Predecessor(u) : next[p] # Nil
        BY TimersAssumption DEF Predecessor
      <4> QED BY <3>1, <4>1 DEF Unlink, listVars
    <3>4. CASE u \notin Listed
      <4>1. UNCHANGED <<first, next, mprev, mnext, cur>> /\ phase = "callback" /\ phase' = "after"
        BY <2>7, <3>4 DEF IsrCallbackStop, Unlink, Listed, listVars
      <4>2. WalkAt(z)'
        BY <2>b, <3>1, <3>4, <4>1 DEF WalkAt, AtCur, InCur, PastCur, Points
      <4> QED BY <2>a, <2>e, <3>1, <3>2, <3>3, <4>2
    <3>5. CASE u \in Listed
      <4>1. PICK y : y = IF z = u THEN next[u] ELSE z
        OBVIOUS
      <4>2. WalkAt(y)'
        BY <2>7, <2>a, <2>b, <3>5, <4>1, WalkStop
      <4> QED BY <2>a, <2>e, <3>1, <3>2, <3>3, <4>2
    <3> QED BY <3>4, <3>5
  <2>8. CASE IsrAfter
    <3>1. PICK y : y = mnext
      OBVIOUS
    <3> QED BY <2>8, <2>b, <2>d, <3>1, WalkAfter DEF IsrAfter, listVars
  <2>9. ~IsrEnter
    BY <1>6 DEF IsrEnter
  <2> QED BY <1>6, <2>1, <2>2, <2>3, <2>4, <2>5, <2>6, <2>7, <2>8, <2>9 DEF Isr
<1>7. CASE IsrExit
  BY <1>7, ListFrame DEF IsrExit, callVars, isrVars, Restarting
<1>8. CASE UNCHANGED vars
  BY <1>8, ListFrame DEF vars, isrVars, callVars, Restarting
<1>9. CASE Isr
  <2>1. Isr /\ ~IsrEnter => servicing
    BY DEF Isr, IsrVisitPending, IsrVisitRepeating, IsrVisitOneShot, IsrCallback,
           IsrCallbackStart, IsrStopCall, IsrCallbackStop, IsrAfter, IsrExit
  <2> QED BY <1>5, <1>6, <1>7, <1>9, <2>1
<1> QED BY <1>1, <1>2, <1>3, <1>4, <1>4a, <1>8, <1>9 DEF Next, Client

\* What has been cut stays cut.
LEMMA CutStays == TypeOK /\ [Next]_vars /\ cut => cut'
BY DEF TypeOK, Next, Tick, Client, Timer_startBegin, Timer_startLink, Timer_stopCall, Timer_stop,
       Isr, IsrEnter, IsrVisitPending, IsrVisitRepeating, IsrVisitOneShot, IsrCallback,
       IsrCallbackStart, IsrStopCall, IsrCallbackStop, IsrAfter, IsrExit, vars

\* ListInv is inductive.
LEMMA NextListInv ==
  ASSUME TypeOK, TypeOK', ListInv, [Next]_vars
  PROVE  ListInv'
BY NextLinked, CutStays DEF ListInv

\* The list of timer.c holds exactly the timers that were started and have neither
\* expired nor been stopped, also while the handler walks it and callbacks start and
\* stop timers under it, and also when a running timer is started again, until such
\* a start is interrupted between its two halves.
THEOREM ListIsExact == Spec => []ListExact
<1>1. TypeOK /\ TypeOK' /\ ListInv /\ [Next]_vars => ListInv'
  BY NextListInv
<1>2. ListInv => ListExact
  BY DEF ListInv, Linked, ListExact
<1> QED BY <1>1, <1>2, InitListInv, TypeCorrect, PTL DEF Spec

-----------------------------------------------------------------------------
(* SysTimer implements TimerContract, with the timers on the list, those   *)
(* behind a cut included, as the running ones.                              *)

\* The timer whose callback runs.
Called == IF phase = "callback" THEN cur ELSE Nil

\* At the start no timer runs and no call is under way.
LEMMA InitContract == Init => Contract!Init
<1> SUFFICES ASSUME Init PROVE Contract!Init
  OBVIOUS
<1>1. ListFrom(Whole, first) = {}
  BY EmptyList DEF Init
<1> QED BY <1>1 DEF Init, Contract!Init

\* Steps of the handler that leave the list alone mean nothing to a client.
LEMMA Stutters ==
  ASSUME UNCHANGED <<now, call, stopArg, target, cut>>, All' = All, Called' = Called
  PROVE  UNCHANGED Contract!vars
BY DEF Contract!vars, All, Called

\* Steps in which only time passes for a client.
LEMMA TimePasses ==
  ASSUME now' >= now, UNCHANGED <<call, stopArg, target>>, All' = All, Called' = Called
  PROVE  Contract!Pass
BY DEF Contract!Pass, All, Called

\* Each operation is the operation of the contract: the first half of Timer_start...
LEMMA BeginCallsStart ==
  ASSUME TypeOK, TypeOK', Linked, NEW t \in Timers, NEW d \in Delays,
         Timer_startBegin(t, d), ~cut'
  PROVE  Contract!CallStart(t)
<1>1. All' = All
  BY BeginKeepsList
<1>2. /\ call[t] = "idle" /\ call' = [call EXCEPT ![t] = "start"]
      /\ target' = [target EXCEPT ![t] = now + d] /\ now' = now
      /\ stopArg' = stopArg /\ Called' = Called
  BY DEF Timer_startBegin, rttVars, isrVars, Called
<1> QED BY <1>1, <1>2
        DEF Contract!CallStart, Contract!Enter, Contract!SetTarget, All, Called

\* ... its critical section...
LEMMA LinkStarts ==
  ASSUME TypeOK, TypeOK', Linked, NEW t \in Timers, Timer_startLink(t)
  PROVE  Contract!Start(t)
<1>1. All' = All \cup {t}
  BY LinkPushes, LinkMoves DEF Linked, Exact, All
<1>2. now' >= now
  BY DriftAssumption DEF Timer_startLink, PassTicks, TypeOK
<1>3. /\ call[t] = "start" /\ call' = [call EXCEPT ![t] = "idle"]
      /\ target' = target /\ stopArg' = stopArg /\ Called' = Called
  BY DEF Timer_startLink, isrVars, Called
<1> QED BY <1>1, <1>2, <1>3 DEF Contract!Start, Contract!Leave, All, Called

\* ... the call of Timer_stop...
LEMMA StopCalls ==
  ASSUME TypeOK, Linked, NEW t \in Timers, Timer_stopCall(t)
  PROVE  Contract!CallStop(t)
<1>1. Whole' = Whole /\ first' = first
  BY DEF Timer_stopCall, Whole, Restarting, TypeOK, listVars
<1>2. All' = All
  BY <1>1 DEF All
<1>3. /\ call[t] = "idle" /\ call' = [call EXCEPT ![t] = "stop"]
      /\ UNCHANGED <<now, target, stopArg>> /\ Called' = Called
  BY DEF Timer_stopCall, rttVars, isrVars, Called
<1> QED BY <1>2, <1>3 DEF Contract!CallStop, Contract!Enter, All, Called

\* ... and its critical section...
LEMMA UnlinkStops ==
  ASSUME TypeOK, TypeOK', Linked, NEW t \in Timers, Timer_stop(t), ~cut'
  PROVE  Contract!Stop(t)
<1>1. All' = All \ {t}
  BY StopUnlinks
<1>2. /\ call[t] = "stop" /\ call' = [call EXCEPT ![t] = "idle"]
      /\ UNCHANGED <<now, target, stopArg>> /\ Called' = Called
  BY DEF Timer_stop, rttVars, isrVars, Called
<1> QED BY <1>1, <1>2 DEF Contract!Stop, Contract!Leave, All, Called

\* ... the visit of a timer that is due...
LEMMA VisitExpires ==
  ASSUME TypeOK, TypeOK', Proper(next, first), All = Listed, All' = Listed',
         NEW z, WalkAt(z), IsrVisitOneShot \/ IsrVisitRepeating
  PROVE  cur \in Timers /\ Contract!Expire(cur)
<1>1. cur \in Listed /\ cur \in Timers /\ cur # Nil
  BY WalkVisits, TimersAssumption DEF IsrVisitOneShot, IsrVisitRepeating
<1>2. /\ target[cur] <= now /\ UNCHANGED <<now, call, stopArg>>
      /\ Called = Nil /\ Called' = cur
  BY DEF IsrVisitOneShot, IsrVisitRepeating, rttVars, callVars, Called
<1>3. CASE IsrVisitOneShot
  <2>1. Listed' = Listed \ {cur}
    BY <1>3, OneShotUnlinks
  <2>2. cur \notin Repeating /\ target' = target
    BY <1>3 DEF IsrVisitOneShot
  <2> QED BY <1>1, <1>2, <2>1, <2>2 DEF Contract!Expire, All, Called
<1>4. CASE IsrVisitRepeating
  <2>1. Listed' = Listed /\ cur \in Repeating
    BY <1>4 DEF IsrVisitRepeating, listVars, Listed
  <2>2. target' = [target EXCEPT ![cur] = NextTarget(cur)]
    BY <1>4 DEF IsrVisitRepeating
  <2>3. target'[cur] = NextTarget(cur) /\ NextTarget(cur) >= now
    BY <1>1, <2>2 DEF NextTarget, TypeOK
  <2> QED BY <1>1, <1>2, <2>1, <2>2, <2>3 DEF Contract!Expire, All, Called
<1> QED BY <1>3, <1>4

\* ... Timer_start in a callback...
LEMMA CallbackStarts ==
  ASSUME TypeOK, Proper(next, first), All = Listed, All' = Listed',
         NEW u \in Timers, u \notin Listed, NEW d \in Delays, IsrCallbackStart(u, d)
  PROVE  Contract!CallbackStart(u)
<1>1. Listed' = Listed \cup {u}
  BY PushListed DEF IsrCallbackStart
<1>2. /\ stopArg = Nil /\ <<Called, u>> \in HandlerStarts /\ call[u] = "idle"
      /\ target' = [target EXCEPT ![u] = now + d] /\ UNCHANGED <<now, call, stopArg>>
      /\ Called' = Nil
  BY DEF IsrCallbackStart, rttVars, callVars, Called
<1> QED BY <1>1, <1>2
        DEF Contract!CallbackStart, Contract!Return, Contract!SetTarget, All, Called

\* ... and Timer_stop in a callback.
LEMMA CallbackStops ==
  ASSUME TypeOK, TypeOK', Proper(next, first), All = Listed, All' = Listed',
         NEW u \in Timers, IsrCallbackStop(u)
  PROVE  Contract!CallbackStop(u)
<1>1. Listed' = Listed \ {u}
  BY UnlinkListed DEF IsrCallbackStop
<1>2. /\ stopArg = u /\ stopArg' = Nil /\ UNCHANGED <<now, call, target>> /\ Called' = Nil
  BY DEF IsrCallbackStop, rttVars, callVars, Called
<1> QED BY <1>1, <1>2 DEF Contract!CallbackStop, Contract!Return, All, Called

\* Steps before any start has been interrupted.
LEMMA StepLinked ==
  ASSUME TypeOK, TypeOK', Linked, Linked', ~cut', [Next]_vars, cut' = cut
  PROVE  Contract!Step \/ UNCHANGED Contract!vars
<1>a. ASSUME UNCHANGED <<first, next, call, saved, armed>> PROVE All' = All
  BY <1>a DEF All, Whole, Restarting
<1>b. ~servicing => phase = "visit"
  BY DEF Linked, WalkInv
<1>1. CASE Tick
  <2>1. UNCHANGED <<first, next, call, saved, armed, target, stopArg, phase, cur>> /\ now' >= now
    BY <1>1 DEF Tick, TypeOK, listVars, callVars, isrVars
  <2>2. Contract!Pass
    BY <1>a, <2>1, TimePasses DEF Called
  <2> QED BY <2>2 DEF Contract!Step
<1>2. ASSUME NEW t \in Timers, NEW d \in Delays, Timer_startBegin(t, d) PROVE Contract!Step
  BY <1>2, BeginCallsStart DEF Contract!Step
<1>3. ASSUME NEW t \in Timers, Timer_startLink(t) PROVE Contract!Step
  BY <1>3, LinkStarts DEF Contract!Step
<1>4. ASSUME NEW t \in Timers, Timer_stopCall(t) PROVE Contract!Step
  BY <1>4, StopCalls DEF Contract!Step
<1>5. ASSUME NEW t \in Timers, Timer_stop(t) PROVE Contract!Step
  BY <1>5, UnlinkStops DEF Contract!Step
<1>6. CASE IsrEnter
  <2>1. /\ UNCHANGED <<first, next, call, saved, armed, target, stopArg, now>>
        /\ phase = "visit" /\ phase' = "visit"
    BY <1>6, <1>b DEF IsrEnter, listVars, callVars
  <2> QED BY <1>a, <2>1, Stutters DEF Called
<1>7. CASE IsrExit
  <2>1. now' >= now /\ UNCHANGED <<first, next, call, saved, armed, target, stopArg, phase, cur>>
    BY <1>7, DriftAssumption DEF IsrExit, PassTicks, TypeOK, listVars, callVars, isrVars
  <2>2. Contract!Pass
    BY <1>a, <2>1, TimePasses DEF Called
  <2> QED BY <2>2 DEF Contract!Step
<1>8. ASSUME servicing, Isr, ~IsrEnter, ~IsrExit
      PROVE  Contract!Step \/ UNCHANGED Contract!vars
  <2>a. /\ All = Listed /\ Proper(next, first)
        /\ \A t \in Timers : armed[t] <=> t \in Listed
    BY <1>8, HandlerMeetsAll
  <2>b. PICK z : WalkAt(z)
    BY <1>8, HandlerMeetsAll
  <2>c. servicing'
    BY <1>8 DEF Isr, IsrVisitPending, IsrVisitRepeating, IsrVisitOneShot, IsrCallback,
                IsrCallbackStart, IsrStopCall, IsrCallbackStop, IsrAfter
  <2>d. All' = Listed'
    <3>1. Whole' = next'
      BY <2>c DEF Linked, Whole, Severed, NothingSaved, TypeOK
    <3> QED BY <3>1 DEF All, Listed
  <2>1. CASE IsrVisitOneShot \/ IsrVisitRepeating
    BY <2>1, <2>a, <2>b, <2>d, VisitExpires DEF Contract!Step
  <2>2. ASSUME NEW u \in Timers, NEW d \in Delays, IsrCallbackStart(u, d) PROVE Contract!Step
    <3>1. u \notin Listed
      BY <2>2, <2>a DEF IsrCallbackStart
    <3> QED BY <2>2, <2>a, <2>d, <3>1, CallbackStarts DEF Contract!Step
  <2>3. ASSUME NEW u \in Timers, IsrCallbackStop(u) PROVE Contract!Step
    BY <2>3, <2>a, <2>d, CallbackStops DEF Contract!Step
  <2>4. CASE IsrVisitPending \/ IsrAfter
    <3>1. /\ UNCHANGED <<first, next, call, saved, armed, target, stopArg, now>>
          /\ phase # "callback" /\ phase' # "callback"
      BY <2>4 DEF IsrVisitPending, IsrAfter, rttVars, listVars, callVars
    <3> QED BY <1>a, <3>1, Stutters DEF Called
  <2>5. CASE IsrCallback
    <3>1. /\ UNCHANGED <<first, next, call, saved, armed, target, stopArg, now>>
          /\ stopArg = Nil /\ Called' = Nil
      BY <2>5 DEF IsrCallback, rttVars, listVars, callVars, Called
    <3>2. Contract!CallbackReturn
      BY <1>a, <3>1 DEF Contract!CallbackReturn, Contract!Return, All, Called
    <3> QED BY <3>2 DEF Contract!Step
  <2>6. ASSUME NEW u \in Timers, IsrStopCall(u) PROVE Contract!Step
    <3>1. /\ UNCHANGED <<first, next, call, saved, armed, target, now>>
          /\ stopArg = Nil /\ stopArg' = u /\ <<Called, u>> \in HandlerStops /\ Called' = Called
      BY <2>6 DEF IsrStopCall, rttVars, listVars, callVars, Called
    <3>2. Contract!CallbackCallStop(u)
      BY <1>a, <3>1 DEF Contract!CallbackCallStop, All, Called
    <3> QED BY <3>2 DEF Contract!Step
  <2> QED BY <1>8, <2>1, <2>2, <2>3, <2>4, <2>5, <2>6 DEF Isr
<1>9. CASE UNCHANGED vars
  <2>1. UNCHANGED <<first, next, call, saved, armed, target, stopArg, now, phase, cur>>
    BY <1>9 DEF vars, rttVars, listVars, callVars, isrVars
  <2> QED BY <1>a, <2>1, Stutters DEF Called
<1>10. CASE Isr
  <2>1. Isr /\ ~IsrEnter => servicing
    BY DEF Isr, IsrVisitPending, IsrVisitRepeating, IsrVisitOneShot, IsrCallback,
           IsrCallbackStart, IsrStopCall, IsrCallbackStop, IsrAfter, IsrExit
  <2> QED BY <1>6, <1>7, <1>8, <1>10, <2>1
<1> QED BY <1>1, <1>2, <1>3, <1>4, <1>5, <1>9, <1>10 DEF Next, Client

\* A start is interrupted only while a running timer is being started.
LEMMA CutIsVoid ==
  ASSUME TypeOK, Linked, ~cut, cut', [Next]_vars
  PROVE  \E t \in All : call[t] = "start"
<1>1. SUFFICES ASSUME NEW t \in Timers, Restarting(t) PROVE t \in All /\ call[t] = "start"
  <2>1. SUFFICES ASSUME \A t \in Timers : ~Restarting(t) PROVE FALSE
    OBVIOUS
  <2>2. /\ All = Listed
        /\ \A t \in Timers : armed[t] => t \in Listed
    BY <2>1, NothingHidden DEF Linked, Severed, NothingSaved, Exact, All
  <2>3. ~(\E t \in Timers : armed[t] /\ t \notin ListFrom(next, first))
    BY <2>2 DEF Listed
  <2> QED
    BY <2>1, <2>3
    DEF TypeOK, Next, Tick, Client, Timer_startBegin, Timer_startLink, Timer_stopCall, Timer_stop,
        Isr, IsrEnter, IsrVisitPending, IsrVisitRepeating, IsrVisitOneShot, IsrCallback,
        IsrCallbackStart, IsrStopCall, IsrCallbackStop, IsrAfter, IsrExit, vars
<1> QED BY <1>1 DEF Linked, Exact, All, Restarting

\* Every step is a step of the contract, or means nothing to the clients.
LEMMA StepContract ==
  ASSUME TypeOK, TypeOK', ListInv, ListInv', [Next]_vars
  PROVE  [Contract!Next]_(Contract!vars)
<1>1. CASE cut
  <2>1. cut'
    BY <1>1, CutStays
  <2> QED BY <1>1, <2>1 DEF Contract!Next, Contract!Void
<1>2. CASE ~cut /\ cut'
  <2>1. \E t \in All : call[t] = "start"
    BY <1>2, CutIsVoid DEF ListInv
  <2> QED BY <1>2, <2>1 DEF Contract!Next, Contract!Void, All
<1>3. CASE ~cut /\ ~cut'
  <2>1. cut' = cut
    BY <1>3 DEF TypeOK
  <2>2. Contract!Step \/ UNCHANGED Contract!vars
    BY <1>3, <2>1, StepLinked DEF ListInv
  <2> QED BY <2>1, <2>2 DEF Contract!Next
<1> QED BY <1>1, <1>2, <1>3

\* timer.c keeps the contract its clients rely on: a timer leaves the list only in the
\* critical section of a stop that was called for it, or in the walk when its target has
\* been reached, and no step does so to another timer, also when tasks and callbacks
\* start and stop timers around the handler's walk, until the start of a running timer
\* is interrupted between its two halves.
THEOREM ImplementsContract == Spec => ContractSpec
<1>1. TypeOK /\ TypeOK' /\ ListInv /\ [Next]_vars => ListInv'
  BY NextListInv
<1>2. TypeOK /\ TypeOK' /\ ListInv /\ ListInv' /\ [Next]_vars => [Contract!Next]_(Contract!vars)
  BY StepContract
<1> QED
  BY <1>1, <1>2, InitContract, InitListInv, TypeCorrect, PTL
  DEF Spec, ContractSpec, Contract!Spec

-----------------------------------------------------------------------------
(* The next alarm.                                                          *)

\* What the walk has decided about the next alarm when it stands before z: the timers V
\* it has kept lead from the head of the list to z, nextTime is no later than any of
\* their targets, and none of them was due by more than the ticks of this interrupt.
KeptBefore(V, z) ==
  /\ V \subseteq Listed
  /\ first \in V \cup {z}
  /\ \A v \in V : /\ next[v] \in V \cup {z}
                  /\ nextTimeSet /\ nextTime <= target[v]
                  /\ now <= target[v] + drift

\* A repeating timer whose callback runs has just got a new target.
CurFresh(z) == phase # "visit" /\ z = cur => now <= target[cur] + drift

\* The walk always stands somewhere with all before it kept.
Covered == ~cut /\ servicing => \E V, z : WalkAt(z) /\ CurFresh(z) /\ KeptBefore(V, z)

\* The timer before which the walk stands is kept in its turn.
LEMMA KeptSkips ==
  ASSUME TypeOK, TypeOK', NEW V, NEW z, KeptBefore(V, z),
         UNCHANGED <<first, next, now, drift>>, Listed' = Listed,
         cur \in Listed, z = cur, KeepTimer(cur), UNCHANGED target,
         now <= target[cur] + drift,
         NEW y, y = next[cur], NEW W, W = V \cup {cur}
  PROVE  KeptBefore(W, y)'
<1>1. \A v \in V \cup {cur} : target[v] \in Nat
  BY ListedClosed DEF TypeOK, KeptBefore
<1>2. /\ nextTime \in Nat /\ nextTime' \in Nat
      /\ nextTimeSet \in BOOLEAN /\ nextTimeSet' \in BOOLEAN
  BY DEF TypeOK
<1>3. CASE ~nextTimeSet \/ target[cur] < nextTime
  <2>1. nextTime' = target[cur] /\ nextTimeSet'
    BY <1>2, <1>3 DEF KeepTimer
  <2>2. ASSUME NEW v \in V PROVE nextTime' <= target[v]
    BY <1>1, <1>2, <1>3, <2>1 DEF KeptBefore
  <2>3. nextTime' <= target[cur]
    BY <1>1, <2>1
  <2> QED BY <2>1, <2>2, <2>3 DEF KeptBefore
<1>4. CASE nextTimeSet /\ ~(target[cur] < nextTime)
  <2>1. nextTime' = nextTime /\ nextTimeSet'
    BY <1>2, <1>4 DEF KeepTimer
  <2>2. nextTime' <= target[cur]
    <3>1. target[cur] \in Nat
      BY <1>1
    <3> QED BY <1>2, <1>4, <2>1, <3>1
  <2> QED BY <2>1, <2>2 DEF KeptBefore
<1> QED BY <1>3, <1>4

LEMMA KeptWithoutUnlinked ==
  ASSUME NEW V, NEW z, KeptBefore(V, z), NEW u,
         UNCHANGED <<now, drift, nextTime, nextTimeSet, target>>,
         Listed' = Listed \ {u}, next[u] # u,
         first' = IF first = u THEN next[u] ELSE first,
         \A p \in Listed \ {u} : next'[p] = IF next[p] = u THEN next[u] ELSE next[p],
         NEW y, y = IF z = u THEN next[u] ELSE z
  PROVE  KeptBefore(V \ {u}, y)'
<1>1. first' \in (V \ {u}) \cup {y}
  BY DEF KeptBefore
<1>2. ASSUME NEW v \in V \ {u} PROVE next'[v] \in (V \ {u}) \cup {y}
  BY DEF KeptBefore
<1> QED BY <1>1, <1>2 DEF KeptBefore

\* Covered is inductive.
LEMMA NextCovered ==
  ASSUME HandlerStarts = {}, TypeOK, TypeOK', ListInv, Covered, [Next]_vars
  PROVE  Covered'
<1>0. SUFFICES ASSUME ~cut' PROVE Covered'
  BY DEF Covered
<1>a. ~cut /\ Linked
  BY <1>0, CutStays DEF ListInv
<1>1. ASSUME UNCHANGED <<servicing, listVars, isrVars, target>>,
             NEW k \in Nat, servicing => now' = now + k /\ drift' = drift + k
      PROVE  Covered'
  <2>1. SUFFICES ASSUME servicing PROVE Covered'
    BY <1>1 DEF Covered
  <2>2. PICK V, z : WalkAt(z) /\ CurFresh(z) /\ KeptBefore(V, z)
    BY <1>a, <1>1, <2>1 DEF Covered
  <2>3. Listed' = Listed
    BY <1>1 DEF Listed, listVars
  <2>4. WalkAt(z)'
    BY <1>1, <2>2, <2>3 DEF WalkAt, AtCur, InCur, PastCur, Points, listVars, isrVars
  <2>5. now' = now + k /\ drift' = drift + k /\ \A v \in Timers : target[v] \in Nat
    BY <1>1, <2>1 DEF TypeOK
  <2>6. now \in Nat /\ now' \in Nat /\ drift \in Nat /\ drift' \in Nat
    BY DriftAssumption DEF TypeOK
  <2>7. ASSUME NEW v \in Timers, now <= target[v] + drift PROVE now' <= target'[v] + drift'
    <3>1. target[v] \in Nat /\ target'[v] = target[v]
      BY <1>1, <2>5
    <3> QED BY <2>5, <2>6, <2>7, <3>1
  <2>8. CurFresh(z)'
    BY <1>1, <2>2, <2>7 DEF CurFresh, isrVars, TypeOK, Link
  <2>9. KeptBefore(V, z)'
    BY <1>1, <2>2, <2>3, <2>7, ListedClosed DEF KeptBefore, isrVars, listVars
  <2> QED BY <2>4, <2>8, <2>9 DEF Covered
<1>2. CASE Tick
  <2>1. servicing => now' = now + 1 /\ drift' = drift + 1
    BY <1>2 DEF Tick
  <2>2. UNCHANGED <<servicing, listVars, isrVars, target>>
    BY <1>2 DEF Tick
  <2> QED BY <1>1, <2>1, <2>2
<1>3. CASE UNCHANGED vars
  <2>1. now' = now + 0 /\ drift' = drift + 0
    BY <1>3, DriftAssumption DEF vars, rttVars, TypeOK
  <2>2. UNCHANGED <<servicing, listVars, isrVars, target>>
    BY <1>3 DEF vars
  <2> QED BY <1>1, <2>1, <2>2
<1>4. CASE \E t \in Timers : Client(t)
  BY <1>4 DEF Client, Timer_startBegin, Timer_startLink, Timer_stopCall, Timer_stop, Covered
<1>5. CASE IsrEnter
  <2>1. PICK z : z = first
    OBVIOUS
  <2>2. WalkAt(z)'
    BY <1>5, <2>1, WalkEnter
  <2>3. KeptBefore({}, z)' /\ CurFresh(z)'
    BY <1>5, <2>1 DEF IsrEnter, KeptBefore, CurFresh, listVars
  <2> QED BY <2>2, <2>3 DEF Covered
<1>6. CASE IsrExit
  BY <1>6 DEF IsrExit, Covered
<1>7. ASSUME servicing, NEW V, NEW z, WalkAt(z), CurFresh(z), KeptBefore(V, z), Isr
      PROVE  Covered' \/ IsrEnter \/ IsrExit
  <2>a. V \subseteq Listed /\ Listed \subseteq Timers
    BY <1>7, ListedClosed DEF KeptBefore
  <2>b. Proper(next, first)
    BY <1>a, <1>7, HandlerMeetsAll
  <2>1. CASE IsrVisitPending
    <3>1. z = cur /\ cur \in Listed /\ cur \in Timers
      BY <1>7, <2>1, WalkVisits DEF IsrVisitPending
    <3>2. PICK y : y = next[cur]
      OBVIOUS
    <3>3. WalkAt(y)'
      BY <1>7, <2>1, <3>2, WalkPending
    <3>4. PICK W : W = V \cup {cur}
      OBVIOUS
    <3>5. KeptBefore(W, y)'
      <4>1. now <= target[cur] + drift
        BY <2>1, <3>1, DriftAssumption DEF IsrVisitPending, TypeOK
      <4>2. UNCHANGED <<first, next, now, drift, target>> /\ KeepTimer(cur) /\ Listed' = Listed
        BY <2>1 DEF IsrVisitPending, rttVars, listVars, Listed
      <4> QED BY <1>7, <3>1, <3>2, <3>4, <4>1, <4>2, KeptSkips
    <3>6. CurFresh(y)'
      BY <2>1 DEF IsrVisitPending, CurFresh
    <3> QED BY <3>3, <3>5, <3>6 DEF Covered
  <2>2. CASE IsrVisitRepeating
    <3>1. WalkAt(z)' /\ z = cur
      BY <1>7, <2>2, WalkRepeating
    <3>2. \A v \in Timers : target[v] \in Nat /\ initial[v] \in Nat
      BY DEF TypeOK
    <3>3. cur \in Timers /\ now \in Nat /\ drift \in Nat
      BY <2>2, DriftAssumption DEF IsrVisitRepeating, TypeOK, Link
    <3>4. target' = [target EXCEPT ![cur] = target[cur] + now + initial[cur]]
      BY <2>2 DEF IsrVisitRepeating, NextTarget
    <3>5. \A v \in Timers : target'[v] \in Nat /\ target[v] <= target'[v]
      BY <3>2, <3>3, <3>4 DEF TypeOK
    <3>6. now <= target'[cur]
      BY <3>2, <3>3, <3>4 DEF TypeOK
    <3>7. UNCHANGED <<now, drift, first, next, nextTime, nextTimeSet, cur>> /\ Listed' = Listed
      BY <2>2 DEF IsrVisitRepeating, rttVars, listVars, Listed
    <3>8. CurFresh(z)'
      BY <3>3, <3>5, <3>6, <3>7 DEF CurFresh
    <3>9. ASSUME NEW v \in V
          PROVE  nextTime <= target'[v] /\ now <= target'[v] + drift
      BY <1>7, <2>a, <3>2, <3>3, <3>5 DEF KeptBefore, TypeOK
    <3>10. KeptBefore(V, z)'
      BY <1>7, <3>7, <3>9 DEF KeptBefore
    <3> QED BY <3>1, <3>8, <3>10 DEF Covered
  <2>3. CASE IsrVisitOneShot
    <3>1. PICK y : y = next[cur]
      OBVIOUS
    <3>2. PICK W : W = V \ {cur}
      OBVIOUS
    <3>3. WalkAt(y)' /\ z = cur
      BY <1>7, <2>3, <2>b, <3>1, WalkOneShot
    <3>4. /\ Listed' = Listed \ {cur}
          /\ next[cur] # cur
          /\ first' = IF first = cur THEN next[cur] ELSE first
          /\ \A p \in Listed \ {cur} : next'[p] = IF next[p] = cur THEN next[cur] ELSE next[p]
      BY <1>7, <2>3, <2>b, OneShotUnlinks
    <3>5. UNCHANGED <<now, drift, nextTime, nextTimeSet, target, cur>>
      BY <2>3 DEF IsrVisitOneShot, rttVars
    <3>6. KeptBefore(W, y)'
      <4>1. PICK u : u = cur
        OBVIOUS
      <4>2. KeptBefore(V \ {u}, y)'
        BY <1>7, <3>1, <3>3, <3>4, <3>5, <4>1, KeptWithoutUnlinked
      <4> QED BY <3>2, <4>1, <4>2
    <3>7. CurFresh(y)'
      BY <3>1, <3>4, <3>5 DEF CurFresh
    <3> QED BY <3>3, <3>6, <3>7 DEF Covered
  <2>4. CASE IsrCallback
    <3>1. WalkAt(z)'
      BY <1>7, <2>4, WalkCallback
    <3>2. /\ UNCHANGED <<now, drift, first, next, nextTime, nextTimeSet, target, cur>>
          /\ Listed' = Listed /\ phase # "visit"
      BY <2>4 DEF IsrCallback, rttVars, listVars, Listed
    <3>3. CurFresh(z)' /\ KeptBefore(V, z)'
      BY <1>7, <3>2 DEF CurFresh, KeptBefore
    <3> QED BY <3>1, <3>3 DEF Covered
  <2>5. ASSUME NEW u \in Timers, NEW d \in Delays, IsrCallbackStart(u, d) PROVE FALSE
    BY <2>5 DEF IsrCallbackStart
  <2>6. ASSUME NEW u \in Timers, IsrCallbackStop(u) PROVE Covered'
    <3>1. UNCHANGED <<now, drift, nextTime, nextTimeSet, target, cur>> /\ phase # "visit"
      BY <2>6 DEF IsrCallbackStop, rttVars
    <3>2. CASE u \in Listed
      <4>1. PICK y : y = IF z = u THEN next[u] ELSE z
        OBVIOUS
      <4>2. WalkAt(y)'
        BY <1>7, <2>6, <2>b, <3>2, <4>1, WalkStop
      <4>3. KeptBefore(V \ {u}, y)'
        <5>1. /\ Listed' = Listed \ {u}
              /\ next[u] # u
              /\ first' = IF first = u THEN next[u] ELSE first
              /\ \A p \in Listed \ {u} : next'[p] = IF next[p] = u THEN next[u] ELSE next[p]
          BY <2>6, <2>b, <3>2, UnlinkListed DEF IsrCallbackStop
        <5> QED BY <1>7, <3>1, <4>1, <5>1, KeptWithoutUnlinked
      <4>4. CurFresh(y)'
        <5>1. y = cur => z = cur
          <6>1. phase = "callback" /\ phase' = "after" /\ Listed' \subseteq Listed
            BY <2>6, <2>b, UnlinkListed DEF IsrCallbackStop
          <6> QED BY <1>7, <3>1, <4>2, <6>1 DEF WalkAt, AtCur, InCur, PastCur
        <5> QED BY <1>7, <3>1, <5>1 DEF CurFresh
      <4> QED BY <4>2, <4>3, <4>4 DEF Covered
    <3>3. CASE u \notin Listed
      <4>1. UNCHANGED <<first, next, mprev, mnext>> /\ phase = "callback" /\ phase' = "after"
        BY <2>6, <3>3 DEF IsrCallbackStop, Unlink, Listed, listVars
      <4>2. Listed' = Listed
        BY <4>1 DEF Listed
      <4>3. WalkAt(z)'
        BY <1>7, <3>1, <4>1, <4>2 DEF WalkAt, AtCur, InCur, PastCur, Points
      <4>4. CurFresh(z)' /\ KeptBefore(V, z)'
        BY <1>7, <3>1, <4>1, <4>2 DEF CurFresh, KeptBefore
      <4> QED BY <4>3, <4>4 DEF Covered
    <3> QED BY <3>2, <3>3
  <2>8. ASSUME NEW u \in Timers, IsrStopCall(u) PROVE Covered'
    <3>1. WalkAt(z)'
      BY <1>7, <2>8, WalkStopCall
    <3>2. /\ UNCHANGED <<now, drift, first, next, nextTime, nextTimeSet, target, cur, phase>>
          /\ Listed' = Listed
      BY <2>8 DEF IsrStopCall, rttVars, listVars, Listed
    <3>3. CurFresh(z)' /\ KeptBefore(V, z)'
      BY <1>7, <3>2 DEF CurFresh, KeptBefore
    <3> QED BY <3>1, <3>3 DEF Covered
  <2>7. CASE IsrAfter
    <3>1. PICK y : y = mnext
      OBVIOUS
    <3>2. /\ WalkAt(y)'
          /\ \/ z = cur /\ cur \in Listed /\ next[cur] = y /\ KeepTimer(cur)
             \/ z = y /\ UNCHANGED <<nextTime, nextTimeSet>>
      BY <1>7, <2>7, <3>1, WalkAfter
    <3>3. UNCHANGED <<now, drift, first, next, target>> /\ Listed' = Listed
          /\ phase = "after" /\ phase' = "visit"
      BY <2>7 DEF IsrAfter, rttVars, listVars, Listed
    <3>4. CurFresh(y)'
      BY <3>3 DEF CurFresh
    <3>5. CASE z = cur /\ cur \in Listed /\ next[cur] = y /\ KeepTimer(cur)
      <4>1. now <= target[cur] + drift
        BY <1>7, <3>3, <3>5 DEF CurFresh
      <4>2. PICK W : W = V \cup {cur}
        OBVIOUS
      <4>3. KeptBefore(W, y)'
        BY <1>7, <3>3, <3>5, <4>1, <4>2, KeptSkips
      <4> QED BY <3>2, <3>4, <4>3 DEF Covered
    <3>6. CASE z = y /\ UNCHANGED <<nextTime, nextTimeSet>>
      <4>1. KeptBefore(V, y)'
        BY <1>7, <3>3, <3>6 DEF KeptBefore
      <4> QED BY <3>2, <3>4, <4>1 DEF Covered
    <3> QED BY <3>2, <3>5, <3>6
  <2> QED BY <1>7, <2>1, <2>2, <2>3, <2>4, <2>5, <2>6, <2>7, <2>8 DEF Isr
<1>8. CASE Isr
  <2>1. Isr /\ ~IsrEnter => servicing
    BY DEF Isr, IsrVisitPending, IsrVisitRepeating, IsrVisitOneShot, IsrCallback,
           IsrCallbackStart, IsrStopCall, IsrCallbackStop, IsrAfter, IsrExit
  <2>2. CASE IsrEnter \/ IsrExit
    BY <1>5, <1>6, <2>2
  <2>3. CASE ~IsrEnter /\ ~IsrExit
    <3>1. PICK V, z : WalkAt(z) /\ CurFresh(z) /\ KeptBefore(V, z)
      BY <1>a, <1>8, <2>1, <2>3 DEF Covered
    <3> QED BY <1>7, <1>8, <2>1, <2>3, <3>1
  <2> QED BY <2>2, <2>3
<1> QED BY <1>2, <1>3, <1>4, <1>8 DEF Next

\* When the walk has reached the end of the list it has kept every timer on it.
LEMMA AllKept ==
  ASSUME TypeOK, Linked, ~cut, Covered, servicing, phase = "visit", cur = Nil
  PROVE  \A t \in Timers : armed[t] =>
            /\ first # Nil
            /\ nextTimeSet /\ nextTime <= target[t] /\ now <= target[t] + drift
<1>1. PICK V, z : WalkAt(z) /\ KeptBefore(V, z)
  BY DEF Covered
<1>2. z = Nil
  BY <1>1 DEF WalkAt, PastCur
<1>3. Closed(next, first, V)
  BY <1>1, <1>2 DEF KeptBefore, Closed
<1>4. Listed \subseteq V
  BY <1>3, ListFromLeast DEF Listed
<1>5. \A t \in Timers : armed[t] => t \in Listed
  BY HandlerMeetsAll
<1>6. first = Nil => Listed = {}
  BY EmptyList DEF Listed
<1> QED BY <1>1, <1>4, <1>5, <1>6 DEF KeptBefore

\* At its end the walk has seen every timer, and its alarm is the earliest.
LEMMA ExitCovers ==
  ASSUME TypeOK, Linked, ~cut, Covered, IsrExit, NEW t \in Timers, armed[t]
  PROVE  rtar' <= target[t] \/ rtar' <= now + MIN_DELAY_TICKS
<1>1. first # Nil /\ nextTime <= target[t]
  BY AllKept DEF IsrExit
<1>2. rtar' = AlarmFor(nextTime)
  BY <1>1 DEF IsrExit
<1>3. now \in Nat /\ nextTime \in Nat /\ target[t] \in Nat
  BY DEF TypeOK
<1> QED BY <1>1, <1>2, <1>3 DEF AlarmFor, MIN_DELAY_TICKS

\* timer_isr.c leaves with an alarm that is no later than any timer asks for, as long as
\* no callback starts a timer, which may leave nextTime without nextTimeSet, and until
\* the start of a running timer is interrupted.
THEOREM AlarmCoversEveryTimer ==
  ASSUME HandlerStarts = {} PROVE Spec => AlarmCoversAll
<1>1. TypeOK /\ TypeOK' /\ ListInv /\ [Next]_vars => ListInv'
  BY NextListInv
<1>2. TypeOK /\ TypeOK' /\ ListInv /\ Covered /\ [Next]_vars => Covered'
  BY NextCovered
<1>3. Init => Covered
  BY DEF Init, Covered
<1>4. Spec => [](TypeOK /\ ListInv /\ Covered)
  BY <1>1, <1>2, <1>3, InitListInv, TypeCorrect, PTL DEF Spec
<1>5. TypeOK /\ ListInv /\ Covered =>
        (IsrExit => cut \/ \A t \in Timers :
           armed[t] => rtar' <= target[t] \/ rtar' <= now + MIN_DELAY_TICKS)
  BY ExitCovers DEF ListInv
<1> QED BY <1>4, <1>5, PTL DEF AlarmCoversAll

-----------------------------------------------------------------------------
(* How late a timer can be.                                                 *)

\* x is at most s ticks after the target of t, or after the last clipped start.
Soon(x, t, s) == x <= target[t] + s \/ x <= clippedAt + s

\* How late the alarm may be for a running timer.
Margin == MaxDrift + MIN_DELAY_TICKS

\* A timer that waits to be served: not one whose new target is not on the list yet.
Waits(t) == armed[t] /\ call[t] # "start"

\* The counter has not passed the alarm, the alarm is soon after each target, and so is
\* the present while the handler is on its way.
Punctual ==
  /\ clippedAt <= now
  /\ ~servicing /\ running => now <= rtar + Lag
  /\ cut \/ \A t \in Timers : Waits(t) =>
              /\ ~servicing => Soon(rtar, t, Margin)
              /\ servicing  => Soon(now, t, Margin + Lag + drift)

\* A running timer means a running manager, outside the handler.
LEMMA ArmedRuns ==
  ASSUME Linked, AlarmAlive, ~servicing, NEW t \in Timers, armed[t]
  PROVE  running /\ first # Nil
<1>1. t \in All
  BY DEF Linked, Exact, All
<1>2. first # Nil
  BY <1>1, EmptyList DEF All
<1> QED BY <1>2 DEF AlarmAlive

\* Punctual bounds the present by the alarm, and the alarm by the targets.
LEMMA PunctualIsOnTime ==
  ASSUME TypeOK, ListInv, AlarmAlive, Punctual
  PROVE  OnTime
<1> SUFFICES ASSUME ~cut, NEW t \in Timers, Waits(t)
             PROVE  now <= target[t] + Slack \/ now <= clippedAt + Slack
  BY DEF OnTime, Waits
<1>1. target[t] \in Nat /\ now \in Nat /\ rtar \in Nat /\ clippedAt \in Nat /\ drift \in 0 .. MaxDrift
  BY DEF TypeOK
<1>2. CASE servicing
  <2>1. Soon(now, t, Margin + Lag + drift)
    BY <1>2 DEF Punctual
  <2> QED BY <1>1, <2>1, DriftAssumption DEF Soon, Margin, Slack, MIN_DELAY_TICKS
<1>3. CASE ~servicing
  <2>1. now <= rtar + Lag /\ Soon(rtar, t, Margin)
    BY <1>3, ArmedRuns DEF Punctual, Waits, ListInv
  <2> QED BY <1>1, <2>1, DriftAssumption DEF Soon, Margin, Slack, MIN_DELAY_TICKS
<1> QED BY <1>2, <1>3

\* Outside the handler no alarm is pending: the counter has not passed the register.
LEMMA NoAlarmMissed ==
  ASSUME TypeOK, AlarmAlive, running, ~servicing, ~IrqPending
  PROVE  ~alms /\ rtar + Lag > now
BY DEF AlarmAlive, IrqPending, TypeOK

\* Timer_start never makes the alarm later for a timer that runs, but for the minimum
\* delay when its own target was already reached; and it serves its own timer.
LEMMA StartKeepsAlarm ==
  ASSUME Lag <= 1, TypeOK, TypeOK', AlarmAlive, ~servicing, ~IrqPending, Punctual,
         NEW t \in Timers, rtar' = AlarmAfterStart(t),
         now <= now', clippedAt' = IF target[t] <= now THEN now' ELSE clippedAt
  PROVE  /\ rtar' <= target[t] + Margin \/ rtar' <= clippedAt' + Margin
         /\ running => rtar' <= rtar \/ rtar' <= clippedAt' + Margin
<1>1. /\ target[t] \in Nat /\ now \in Nat /\ rtar \in Nat /\ clippedAt \in Nat
      /\ now' \in Nat /\ rtar' \in Nat /\ clippedAt' \in Nat
  BY DEF TypeOK
<1>2. running => ~(rtar < now)
  BY <1>1, NoAlarmMissed, DriftAssumption
<1>3. CASE target[t] <= now
  <2>1. clippedAt' = now'
    BY <1>3
  <2>2. rtar' = now + 2 \/ rtar' <= target[t]
    BY <1>1, <1>3 DEF AlarmAfterStart, AlarmFor, MIN_DELAY_TICKS
  <2> QED BY <1>1, <1>3, <2>1, <2>2, DriftAssumption DEF Margin, MIN_DELAY_TICKS
<1>4. CASE target[t] > now
  <2>1. rtar' <= target[t] + 1
    BY <1>1, <1>4 DEF AlarmAfterStart, AlarmFor, MIN_DELAY_TICKS
  <2>2. running => rtar' <= rtar
    BY <1>1, <1>2, <1>4 DEF AlarmAfterStart, AlarmFor, MIN_DELAY_TICKS
  <2> QED BY <1>1, <2>1, <2>2, DriftAssumption DEF Margin, MIN_DELAY_TICKS
<1> QED BY <1>1, <1>3, <1>4

\* A value that the counter has not passed is missed by no more than the lag.
LEMMA DriftWithinLag ==
  ASSUME NEW x \in Nat, NEW y \in Nat, y <= x, NEW d \in 0 .. MaxDrift
  PROVE  y + d <= x + Lag
<1>1. d \in Nat /\ d <= Lag /\ Lag \in Nat
  BY DriftAssumption
<1> QED BY <1>1

\* Punctual is inductive.
LEMMA NextPunctual ==
  ASSUME HandlerStarts = {}, Lag <= 1, TypeOK, TypeOK', ListInv, AlarmAlive, AlarmAlive',
         Covered, Punctual, [Next]_vars
  PROVE  Punctual'
<1>a. cut => cut'
  BY CutStays
<1>b. ~cut => Linked
  BY DEF ListInv
<1>1. /\ now \in Nat /\ now' \in Nat /\ rtar \in Nat /\ rtar' \in Nat
      /\ clippedAt \in Nat /\ clippedAt' \in Nat
      /\ drift \in Nat /\ drift' \in Nat
      /\ \A t \in Timers : target[t] \in Nat /\ target'[t] \in Nat
  BY DriftAssumption DEF TypeOK
<1>2. Margin \in Nat /\ Margin >= 2 /\ Lag \in Nat
  BY DriftAssumption DEF Margin, MIN_DELAY_TICKS
<1>3. CASE Tick
  <2>1. /\ now' = now + 1
        /\ UNCHANGED <<rtar, running, servicing, target, armed, call, clippedAt, cut>>
    BY <1>3 DEF Tick, callVars
  <2>2. ~servicing /\ running => rtar + Lag > now
    <3>1. ~servicing => ~IrqPending
      BY <1>3 DEF Tick
    <3> QED BY <3>1, NoAlarmMissed
  <2>3. servicing => drift' = drift + 1
    BY <1>3 DEF Tick
  <2>4. ~servicing' /\ running' => now' <= rtar' + Lag
    BY <1>1, <1>2, <2>1, <2>2
  <2>5. ASSUME ~cut', NEW t \in Timers, Waits(t)', servicing'
        PROVE  Soon(now, t, Margin + Lag + drift)'
    <3>1. Soon(now, t, Margin + Lag + drift) /\ drift' = drift + 1
      BY <2>1, <2>3, <2>5 DEF Punctual, Waits
    <3>2. target'[t] = target[t] /\ target[t] \in Nat
      BY <1>1, <2>1
    <3> QED BY <1>1, <1>2, <2>1, <3>1, <3>2 DEF Soon
  <2>6. ASSUME ~cut', NEW t \in Timers, Waits(t)', ~servicing' PROVE Soon(rtar, t, Margin)'
    BY <2>1, <2>6 DEF Soon, Punctual, Margin, Waits
  <2>7. clippedAt' <= now'
    BY <1>1, <2>1 DEF Punctual
  <2> QED BY <2>4, <2>5, <2>6, <2>7 DEF Punctual
\* Steps that leave the clock alone, stop timers, or give them a later target.
<1>4. ASSUME UNCHANGED <<now, rtar, running, servicing, drift, clippedAt>>,
             \A t \in Timers : Waits(t)' => Waits(t) /\ target[t] <= target'[t]
      PROVE  Punctual'
  <2>1. ASSUME ~cut', NEW t \in Timers, Waits(t)', servicing'
        PROVE  Soon(now, t, Margin + Lag + drift)'
    <3>1. Soon(now, t, Margin + Lag + drift) /\ target[t] <= target'[t]
      BY <1>a, <1>4, <2>1 DEF Punctual
    <3>2. target'[t] \in Nat /\ target[t] \in Nat
      BY <1>1
    <3> QED BY <1>1, <1>2, <1>4, <3>1, <3>2 DEF Soon
  <2>2. ASSUME ~cut', NEW t \in Timers, Waits(t)', ~servicing' PROVE Soon(rtar, t, Margin)'
    <3>1. Soon(rtar, t, Margin) /\ target[t] <= target'[t]
      BY <1>a, <1>4, <2>2 DEF Punctual
    <3>2. target'[t] \in Nat /\ target[t] \in Nat
      BY <1>1
    <3> QED BY <1>1, <1>2, <1>4, <3>1, <3>2 DEF Soon, Margin
  <2> QED BY <1>4, <2>1, <2>2 DEF Punctual
<1>5. CASE UNCHANGED vars
  <2>1. UNCHANGED <<now, rtar, running, servicing, drift, clippedAt, armed, call, target>>
    BY <1>5 DEF vars, rttVars, callVars
  <2> QED BY <1>1, <1>4, <2>1 DEF Waits
<1>6. ASSUME NEW t \in Timers, NEW d \in Delays, Timer_startBegin(t, d) PROVE Punctual'
  <2>1. /\ UNCHANGED <<now, rtar, running, servicing, drift, clippedAt, armed>>
        /\ target' = [target EXCEPT ![t] = now + d] /\ call' = [call EXCEPT ![t] = "start"]
    BY <1>6 DEF Timer_startBegin, rttVars
  <2>2. /\ ~Waits(t)'
        /\ \A u \in Timers : u # t => target'[u] = target[u] /\ Waits(u)' = Waits(u)
    BY <2>1 DEF TypeOK, Waits
  <2> QED BY <1>1, <1>4, <2>1, <2>2
<1>7. ASSUME NEW t \in Timers, Timer_startLink(t) PROVE Punctual'
  <2>1. PICK d \in 0 .. MaxDrift : PassTicks(d)
    BY <1>7, Zenon DEF Timer_startLink
  <2>2. now' = now + d /\ now <= now'
    BY <1>1, <2>1 DEF PassTicks
  <2>3. /\ ~servicing /\ ~servicing' /\ ~IrqPending
        /\ rtar' = AlarmAfterStart(t)
        /\ clippedAt' = IF target[t] <= now THEN now' ELSE clippedAt
        /\ target' = target
        /\ armed' = [armed EXCEPT ![t] = TRUE] /\ call' = [call EXCEPT ![t] = "idle"]
    BY <1>7 DEF Timer_startLink, TypeOK
  <2>4. clippedAt <= now /\ clippedAt <= clippedAt' /\ clippedAt' <= now'
    BY <1>1, <2>2, <2>3 DEF Punctual
  <2>5. /\ rtar' <= target[t] + Margin \/ rtar' <= clippedAt' + Margin
        /\ running => rtar' <= rtar \/ rtar' <= clippedAt' + Margin
    BY <2>2, <2>3, StartKeepsAlarm
  <2>6. now' <= rtar' + Lag
    <3>1. rtar' >= now
      <4>1. CASE running /\ rtar' = rtar
        BY <1>1, <1>2, <2>3, <4>1, NoAlarmMissed
      <4>2. CASE rtar' > now
        BY <1>1, <4>2
      <4> QED BY <2>3, <4>1, <4>2, AlarmAfterStartAhead
    <3> QED BY <1>1, <2>2, <3>1, DriftWithinLag
  <2>7. ASSUME ~cut', NEW u \in Timers, Waits(u)' PROVE Soon(rtar, u, Margin)'
    <3>1. CASE u = t
      BY <2>3, <2>5, <3>1 DEF Soon, Margin
    <3>2. CASE u # t
      <4>1. Waits(u)
        BY <2>3, <2>7, <3>2 DEF TypeOK, Waits
      <4>2. running /\ Soon(rtar, u, Margin)
        BY <1>a, <1>b, <2>3, <2>7, <4>1, ArmedRuns DEF Punctual, Waits
      <4>3. target'[u] = target[u] /\ target[u] \in Nat
        BY <1>1, <2>3
      <4>4. rtar' <= target[u] + Margin \/ rtar' <= clippedAt' + Margin
        BY <1>1, <1>2, <2>4, <2>5, <4>2, <4>3 DEF Soon
      <4> QED BY <4>3, <4>4 DEF Soon, Margin
    <3> QED BY <3>1, <3>2
  <2> QED BY <2>3, <2>4, <2>6, <2>7 DEF Punctual
<1>8. ASSUME NEW t \in Timers, Timer_stop(t) PROVE Punctual'
  <2>1. /\ UNCHANGED <<now, rtar, running, servicing, drift, clippedAt, target>>
        /\ armed' = [armed EXCEPT ![t] = FALSE]
    BY <1>8 DEF Timer_stop, rttVars
  <2>2. \A u \in Timers : Waits(u)' => Waits(u)
    BY <1>8, <2>1 DEF Timer_stop, TypeOK, Waits
  <2> QED BY <1>1, <1>4, <2>1, <2>2
<1>8a. ASSUME NEW t \in Timers, Timer_stopCall(t) PROVE Punctual'
  <2>1. UNCHANGED <<now, rtar, running, servicing, drift, clippedAt, target, armed>>
    BY <1>8a DEF Timer_stopCall, rttVars
  <2>2. \A u \in Timers : Waits(u)' => Waits(u)
    BY <1>8a DEF Timer_stopCall, TypeOK, Waits
  <2> QED BY <1>1, <1>4, <2>1, <2>2
<1>9. CASE IsrEnter
  <2>1. /\ UNCHANGED <<now, rtar, clippedAt, target, armed, call>>
        /\ servicing' /\ ~servicing /\ drift' = 0
    BY <1>9 DEF IsrEnter, callVars
  <2>2. ASSUME ~cut', NEW t \in Timers, Waits(t)' PROVE Soon(now, t, Margin + Lag + drift)'
    <3>1. Soon(rtar, t, Margin) /\ now <= rtar + Lag
      BY <1>a, <1>b, <2>1, <2>2, ArmedRuns DEF Punctual, Waits
    <3>2. target'[t] = target[t] /\ target[t] \in Nat
      BY <1>1, <2>1
    <3> QED BY <1>1, <1>2, <2>1, <3>1, <3>2 DEF Soon
  <2> QED BY <2>1, <2>2 DEF Punctual
<1>10. CASE IsrVisitPending \/ IsrCallback \/ IsrAfter \/ \E u \in Timers : IsrStopCall(u)
  <2>1. UNCHANGED <<now, rtar, running, servicing, drift, clippedAt, armed, call, target>>
    BY <1>10 DEF IsrVisitPending, IsrCallback, IsrAfter, IsrStopCall, rttVars, callVars
  <2> QED BY <1>1, <1>4, <2>1 DEF Waits
<1>11. CASE IsrVisitRepeating
  <2>1. /\ UNCHANGED <<now, rtar, running, servicing, drift, clippedAt, armed, call>>
        /\ target' = [target EXCEPT ![cur] = target[cur] + now + initial[cur]]
    BY <1>11 DEF IsrVisitRepeating, NextTarget, rttVars, callVars
  <2>2. cur \in Timers /\ \A t \in Timers : initial[t] \in Nat
    BY <1>11 DEF IsrVisitRepeating, TypeOK, Link
  <2>3. \A t \in Timers : target[t] <= target'[t]
    BY <1>1, <2>1, <2>2 DEF TypeOK
  <2> QED BY <1>4, <2>1, <2>3 DEF Waits
<1>12. CASE IsrVisitOneShot
  <2>1. /\ UNCHANGED <<now, rtar, running, servicing, drift, clippedAt, target>>
        /\ armed' = [armed EXCEPT ![cur] = FALSE] /\ call' = call
    BY <1>12 DEF IsrVisitOneShot, rttVars, callVars
  <2>2. \A u \in Timers : Waits(u)' => Waits(u)
    BY <2>1 DEF TypeOK, Waits
  <2> QED BY <1>1, <1>4, <2>1, <2>2
<1>13. ASSUME NEW u \in Timers, NEW d \in Delays, IsrCallbackStart(u, d) PROVE FALSE
  BY <1>13 DEF IsrCallbackStart
<1>14. ASSUME NEW u \in Timers, IsrCallbackStop(u) PROVE Punctual'
  <2>1. /\ UNCHANGED <<now, rtar, running, servicing, drift, clippedAt, target>>
        /\ armed' = [armed EXCEPT ![u] = FALSE] /\ call' = call
    BY <1>14 DEF IsrCallbackStop, rttVars, callVars
  <2>2. \A t \in Timers : Waits(t)' => Waits(t)
    BY <2>1 DEF TypeOK, Waits
  <2> QED BY <1>1, <1>4, <2>1, <2>2
<1>15. CASE IsrExit
  <2>1. /\ ~servicing' /\ UNCHANGED <<target, armed, clippedAt, cut>>
        /\ servicing /\ phase = "visit" /\ cur = Nil
    BY <1>15 DEF IsrExit
  <2>2. CASE first = Nil
    <3>1. ~cut => \A t \in Timers : ~armed[t]
      BY <1>b, <2>1, <2>2, AllKept
    <3>2. now' = now /\ ~running'
      BY <1>15, <2>2 DEF IsrExit
    <3> QED BY <2>1, <3>1, <3>2 DEF Punctual, Waits
  <2>3. CASE first # Nil
    <3>1. PICK d \in 0 .. MaxDrift : d + drift <= MaxDrift /\ PassTicks(d)
      BY <1>15, <2>3 DEF IsrExit
    <3>2. now' = now + d /\ d \in Nat /\ d <= Lag
      BY <3>1, DriftAssumption DEF PassTicks
    <3>3. rtar' = AlarmFor(nextTime) /\ nextTime \in Nat
      BY <1>15, <2>3 DEF IsrExit, TypeOK
    <3>4. rtar' > now
      BY <1>1, <3>3, AlarmForAhead
    <3>5. now' <= rtar' + Lag
      BY <1>1, <3>1, <3>2, <3>4, DriftWithinLag
    <3>7. clippedAt' <= now'
      BY <1>1, <2>1, <3>2 DEF Punctual
    <3>6. ASSUME ~cut', NEW t \in Timers, Waits(t)' PROVE Soon(rtar, t, Margin)'
      <4>1. nextTime <= target[t] /\ now <= target[t] + drift
        BY <1>b, <2>1, <3>6, AllKept DEF Waits
      <4>2. target'[t] = target[t] /\ target[t] \in Nat /\ drift <= MaxDrift
        BY <1>1, <2>1 DEF TypeOK
      <4>3. rtar' <= target[t] + Margin
        BY <1>1, <3>3, <4>1, <4>2, DriftAssumption DEF AlarmFor, Margin, MIN_DELAY_TICKS
      <4> QED BY <4>2, <4>3 DEF Soon, Margin
    <3> QED BY <2>1, <3>5, <3>6, <3>7 DEF Punctual
  <2> QED BY <2>2, <2>3
<1> QED
  BY <1>3, <1>5, <1>6, <1>7, <1>8, <1>8a, <1>9, <1>10, <1>11, <1>12, <1>13, <1>14, <1>15
  DEF Next, Client, Isr

\* Every timer is served within Slack ticks of its target, if the RTT's own lag is one
\* tick at most (MIN_DELAY_TICKS of timer.c allows for no more) and no callback starts a
\* timer, until the start of a running timer is interrupted.
THEOREM TimersAreOnTime ==
  ASSUME HandlerStarts = {}, Lag <= 1 PROVE Spec => []OnTime
<1>1. TypeOK /\ TypeOK' /\ ListInv /\ [Next]_vars => ListInv'
  BY NextListInv
<1>2. TypeOK /\ TypeOK' /\ ListInv /\ Covered /\ [Next]_vars => Covered'
  BY NextCovered
<1>3. TypeOK /\ TypeOK' /\ ListInv /\ AlarmAlive /\ AlarmAlive' /\ Covered /\ Punctual
        /\ [Next]_vars => Punctual'
  BY NextPunctual
<1>4. Init => Covered /\ Punctual
  BY DEF Init, Covered, Punctual, Waits
<1>5. TypeOK /\ ListInv /\ AlarmAlive /\ Punctual => OnTime
  BY PunctualIsOnTime
<1> QED
  BY <1>1, <1>2, <1>3, <1>4, <1>5, InitListInv, TypeCorrect, AlarmNeverLost, PTL DEF Spec
=============================================================================
