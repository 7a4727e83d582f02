-------------------------- MODULE LuaTimers_proofs ---------------------------
(***************************************************************************)
(* Whatever Lua starts and cancels, whichever receivers are deleted and    *)
(* whichever blocks malloc hands out: a timer is freed once and not while  *)
(* it is on the list, no block is lost, a handle in the event queue names  *)
(* the timer that expired, and every step of LuaTimers is a step of        *)
(* TimerService or changes nothing there.                                  *)
(***************************************************************************)
EXTENDS LuaTimers, SequenceTheorems, TLAPS

\* Timed event e is the last one for which the timer in block b was started.
IsLast(b, e) ==
  /\ e \in 1 .. started /\ block[e] = b
  /\ \A j \in 1 .. started : block[j] = b => j <= e

\* A block that was ever used has a last event.
Numbered == \A i \in 1 .. started : \E e \in 1 .. started : IsLast(block[i], e)

\* A block that is in use is intact, and agrees with its timed event.
Heap ==
  /\ magic = allocated /\ listed \subseteq allocated
  /\ \A b \in allocated :
       /\ \E e \in 1 .. started : IsLast(b, e)
       /\ repeat[b] <=> EventOf(b) \in repeating
       /\ repeat[b] => b \in listed

\* An expiry in the queue names a block that is in use, for the event that is its last.
\* A timer that does not repeat has left the list and is there once.
Queued ==
  \A k \in 1 .. Len(queue) :
    LET b == queue[k].handle IN
      /\ b \in allocated /\ queue[k].id = EventOf(b)
      /\ ~repeat[b] => b \notin listed
      /\ \A j \in 1 .. Len(queue) : j # k /\ queue[j].handle = b => repeat[b]

\* History speaks of events that have been started.
Past ==
  /\ repeating \subseteq 1 .. started /\ fired \subseteq 1 .. started
  /\ delivered \subseteq 1 .. started /\ cancelled \subseteq 1 .. started
  /\ deleted \subseteq 1 .. started

\* The event of a handle is the last one of its block, and was not cancelled.
Vectors ==
  \A b \in Blocks : vectors[b] # 0 =>
    /\ vectors[b] \in 1 .. started /\ block[vectors[b]] = b
    /\ vectors[b] = EventOf(b) /\ vectors[b] \notin cancelled

\* The queue holds events whose timer has expired.
Expired == \A k \in 1 .. Len(queue) : queue[k].id \in fired

IInv ==
  /\ TypeOK /\ Past /\ Numbered
  /\ Heap /\ Queued /\ Expired /\ Vectors
  /\ NoLeak /\ MagicHolds

-----------------------------------------------------------------------------
\* The greatest index of b in s, among the first n.
LEMMA GreatestIndex ==
  ASSUME NEW n \in Nat, NEW s, NEW b, NEW e \in 1 .. n, s[e] = b,
         \A j \in 1 .. n : s[j] = b => j <= e
  PROVE  LET ids == {i \in 1 .. n : s[i] = b}
         IN  (CHOOSE i \in ids : \A j \in ids : j <= i) = e
<1> DEFINE ids == {i \in 1 .. n : s[i] = b}
<1>1. e \in ids /\ \A j \in ids : j <= e
  OBVIOUS
<1>2. \A i \in ids : (\A j \in ids : j <= i) => i = e
  BY <1>1
<1> HIDE DEF ids
<1>3. (CHOOSE i \in ids : \A j \in ids : j <= i) = e
  BY <1>1, <1>2
<1> QED
  BY <1>3 DEF ids

LEMMA LastIsEvent ==
  ASSUME started \in Nat, NEW b, NEW e, IsLast(b, e)
  PROVE  EventOf(b) = e
  BY GreatestIndex DEF IsLast, EventOf

LEMMA LastIsEventPrimed ==
  ASSUME started' \in Nat, NEW b, NEW e, IsLast(b, e)'
  PROVE  EventOf(b)' = e
  BY GreatestIndex DEF IsLast, EventOf

\* A new timed event is the last one of its block, and changes no other block's.
LEMMA StartLast ==
  ASSUME TypeOK, NEW b \in Blocks, block' = Append(block, b), started' = started + 1
  PROVE  /\ IsLast(b, started)'
         /\ \A c, e : c # b /\ IsLast(c, e) => IsLast(c, e)'
<1> USE DEF TypeOK
<1>1. /\ block' \in Seq(Blocks) /\ Len(block') = started'
      /\ \A i \in 1 .. started : block'[i] = block[i]
      /\ block'[started + 1] = b
  OBVIOUS
<1>2. started \in Nat /\ 1 .. started' = (1 .. started) \cup {started + 1}
  OBVIOUS
<1>3. IsLast(b, started)'
  BY <1>1, <1>2 DEF IsLast
<1>4. ASSUME NEW c, NEW e, c # b, IsLast(c, e) PROVE IsLast(c, e)'
  BY <1>1, <1>2, <1>4 DEF IsLast
<1> QED
  BY <1>3, <1>4

\* Without a new event the numbering stays.
LEMMA SameEvents ==
  ASSUME UNCHANGED history
  PROVE  /\ \A b : EventOf(b)' = EventOf(b)
         /\ \A b, e : IsLast(b, e)' <=> IsLast(b, e)
  BY DEF history, EventOf, IsLast

LEMMA EventInIds ==
  ASSUME TypeOK, Heap, NEW b \in allocated
  PROVE  EventOf(b) \in 1 .. started /\ EventOf(b) \in Ids
<1>1. PICK e \in 1 .. started : IsLast(b, e)
  BY DEF Heap
<1>2. started \in Nat /\ started <= MaxStarts
  BY BoundsAssumption DEF TypeOK
<1>3. EventOf(b) = e
  BY <1>1, <1>2, LastIsEvent
<1> QED
  BY <1>1, <1>2, <1>3, BoundsAssumption DEF Ids

-----------------------------------------------------------------------------
LEMMA InitInv == Init => IInv
<1> SUFFICES ASSUME Init PROVE IInv
  OBVIOUS
<1> USE DEF Init
<1>1. TypeOK
  <2>1. queue \in Seq(Entries) /\ Len(queue) <= QueueLength /\ block \in Seq(Blocks)
    BY BoundsAssumption
  <2> QED
    BY <2>1, BoundsAssumption DEF TypeOK
<1>2. Past /\ Numbered /\ Heap /\ Queued /\ Expired /\ Vectors /\ NoLeak /\ MagicHolds
  BY DEF Past, Numbered, Heap, Queued, Expired, Vectors, NoLeak, MagicHolds
<1> QED
  BY <1>1, <1>2 DEF IInv

LEMMA StartInv ==
  ASSUME IInv, NEW b \in Blocks, NEW r \in Repeats, l_start(b, r)
  PROVE  IInv'
<1> USE DEF IInv
<1>0. /\ b \notin allocated /\ r \in BOOLEAN /\ started < MaxStarts
      /\ allocated' = allocated \cup {b} /\ magic' = magic \cup {b}
      /\ repeat' = [repeat EXCEPT ![b] = r] /\ listed' = listed \cup {b}
      /\ started' = started + 1 /\ block' = Append(block, b)
      /\ repeating' = (IF r THEN repeating \cup {started + 1} ELSE repeating)
      /\ vectors' = [vectors EXCEPT ![b] = started + 1]
      /\ UNCHANGED <<queue, panic, fired, delivered, cancelled, deleted>>
  BY ClientAssumption DEF l_start, outcome
<1>1. TypeOK'
  <2>1. started' \in 0 .. MaxStarts /\ started + 1 \in Ids
    BY <1>0, BoundsAssumption DEF TypeOK, Ids
  <2>2. block' \in Seq(Blocks) /\ Len(block') = started'
    BY <1>0 DEF TypeOK
  <2>3. repeat' \in [Blocks -> BOOLEAN] /\ vectors' \in [Blocks -> Ids \cup {0}]
    BY <1>0, <2>1 DEF TypeOK
  <2>4. repeating' \subseteq Ids
    BY <1>0, <2>1 DEF TypeOK
  <2>5. allocated' \subseteq Blocks /\ magic' \subseteq Blocks /\ listed' \subseteq Blocks
    BY <1>0 DEF TypeOK
  <2> QED
    BY <1>0, <2>1, <2>2, <2>3, <2>4, <2>5 DEF TypeOK
<1>2. /\ IsLast(b, started)'
      /\ \A c, e : c # b /\ IsLast(c, e) => IsLast(c, e)'
  BY <1>0, StartLast
<1>3. started \in Nat /\ 1 .. started' = (1 .. started) \cup {started + 1}
  BY <1>0 DEF TypeOK
<1>4. EventOf(b)' = started + 1
  <2>1. started' \in Nat
    BY <1>0, <1>3
  <2> QED
    <3>1. /\ started' \in 1 .. started' /\ block'[started'] = b
          /\ \A j \in 1 .. started' : block'[j] = b => j <= started'
      BY <1>2 DEF IsLast
    <3>2. EventOf(b)' = started'
      BY <2>1, <3>1, GreatestIndex DEF EventOf
    <3> QED
      BY <1>0, <3>2
<1>5. \A c \in allocated : EventOf(c)' = EventOf(c) /\ EventOf(c) \in 1 .. started
  <2> SUFFICES ASSUME NEW c \in allocated
               PROVE  EventOf(c)' = EventOf(c) /\ EventOf(c) \in 1 .. started
    OBVIOUS
  <2>1. PICK e \in 1 .. started : IsLast(c, e)
    BY DEF Heap
  <2>2. IsLast(c, e)' /\ started' \in Nat
    BY <1>0, <1>2, <1>3, <2>1
  <2>3. EventOf(c) = e
    BY <1>3, <2>1, LastIsEvent
  <2>4. EventOf(c)' = e
    BY <2>2, LastIsEventPrimed
  <2> QED
    BY <2>1, <2>3, <2>4
<1>6. Numbered'
  <2> SUFFICES ASSUME NEW i \in 1 .. started'
               PROVE  \E e \in 1 .. started' : IsLast(block[i], e)'
    BY DEF Numbered
  <2>1. CASE block'[i] = b
    BY <1>2, <1>3, <2>1 DEF IsLast
  <2>2. CASE block'[i] # b
    <3>1. i \in 1 .. started /\ block'[i] = block[i]
      BY <1>0, <1>3, <2>2 DEF TypeOK
    <3> QED
      BY <1>2, <1>3, <2>2, <3>1 DEF Numbered
  <2> QED
    BY <2>1, <2>2
<1>7. Heap'
  <2>1. ASSUME NEW c \in allocated'
        PROVE  /\ \E e \in 1 .. started' : IsLast(c, e)'
               /\ repeat'[c] <=> EventOf(c)' \in repeating'
               /\ repeat'[c] => c \in listed'
    <3>1. CASE c = b
      <4>1. repeat'[b] = r /\ started + 1 \notin repeating
        BY <1>0, <1>3 DEF TypeOK, Past
      <4>2. \E e \in 1 .. started' : IsLast(b, e)'
        BY <1>2, <1>3 DEF IsLast
      <4> QED
        BY <1>0, <1>4, <3>1, <4>1, <4>2
    <3>2. CASE c # b
      <4>1. c \in allocated /\ repeat'[c] = repeat[c]
        BY <1>0, <2>1, <3>2 DEF TypeOK
      <4>2. EventOf(c) # started + 1
        BY <1>3, <1>5, <4>1
      <4>3. \E e \in 1 .. started' : IsLast(c, e)'
        BY <1>2, <1>3, <3>2, <4>1 DEF Heap
      <4> QED
        BY <1>0, <1>5, <4>1, <4>2, <4>3 DEF Heap
    <3> QED
      BY <3>1, <3>2
  <2>2. magic' = allocated' /\ listed' \subseteq allocated'
    BY <1>0 DEF Heap
  <2> QED
    BY <2>1, <2>2 DEF Heap
<1>8. Queued'
  <2>1. \A k \in 1 .. Len(queue) :
          LET c == queue[k].handle IN
            /\ c \in allocated /\ c # b /\ repeat'[c] = repeat[c]
            /\ EventOf(c)' = EventOf(c) /\ (c \in listed' <=> c \in listed)
    BY <1>0, <1>5 DEF Queued, TypeOK
  <2> QED
    BY <1>0, <2>1 DEF Queued
<1>9. Expired' /\ NoLeak' /\ MagicHolds'
  BY <1>0 DEF Expired, NoLeak, MagicHolds
<1>10. Past'
  BY <1>0, <1>3 DEF Past
<1>11. Vectors'
  <2>1. ASSUME NEW c \in Blocks, vectors'[c] # 0
        PROVE  /\ vectors'[c] \in 1 .. started' /\ block'[vectors'[c]] = c
               /\ vectors'[c] = EventOf(c)' /\ vectors'[c] \notin cancelled'
    <3>1. CASE c = b
      <4>1. vectors'[b] = started + 1 /\ started + 1 \notin cancelled
        BY <1>0, <1>3 DEF TypeOK, Past
      <4>2. block'[started + 1] = b
        BY <1>0 DEF TypeOK
      <4> QED
        <5>1. started + 1 \in 1 .. started' /\ cancelled' = cancelled
          BY <1>0, <1>3
        <5>2. EventOf(c)' = started + 1
          BY ONLY <1>4, <3>1
        <5> QED
          BY ONLY <3>1, <4>1, <4>2, <5>1, <5>2
    <3>2. CASE c # b
      <4>1. vectors'[c] = vectors[c]
        BY <1>0, <3>2 DEF TypeOK
      <4>2. /\ vectors[c] \in 1 .. started /\ block[vectors[c]] = c
            /\ vectors[c] = EventOf(c) /\ vectors[c] \notin cancelled
        BY <2>1, <4>1 DEF Vectors
      <4>3. PICK e \in 1 .. started : IsLast(c, e)
        BY <4>2 DEF Numbered
      <4>4. IsLast(c, e)' /\ started' \in Nat
        BY <1>0, <1>2, <1>3, <3>2, <4>3
      <4>5. EventOf(c) = e /\ EventOf(c)' = e
        BY <1>3, <4>3, <4>4, LastIsEvent, LastIsEventPrimed
      <4>6. block'[vectors[c]] = c
        BY <1>0, <4>2 DEF TypeOK
      <4>7. EventOf(c)' = vectors[c]
        BY ONLY <4>2, <4>5
      <4>8. vectors[c] \in 1 .. started' /\ vectors[c] \notin cancelled'
        BY <1>0, <1>3, <4>2
      <4> QED
        BY ONLY <4>1, <4>6, <4>7, <4>8
    <3> QED
      BY <3>1, <3>2
  <2> QED
    BY ONLY <2>1 DEF Vectors
<1> QED
  BY <1>1, <1>6, <1>7, <1>8, <1>9, <1>10, <1>11

-----------------------------------------------------------------------------
\* A timer that is stopped does not repeat, so it is not in the queue.
LEMMA CancelInv ==
  ASSUME IInv, NEW i \in Ids, Cancel(i)
  PROVE  IInv'
<1> USE DEF IInv
<1> DEFINE b == block[i]
<1>0. /\ i \in 1 .. started /\ b \in Blocks /\ EventOf(b) \notin repeating
      /\ Timer_stop(b) /\ panic = "none"
      /\ vectors' = [vectors EXCEPT ![b] = 0]
      /\ cancelled' = cancelled \cup ({vectors[b]} \ {0})
      /\ UNCHANGED <<repeat, queue, history, fired, delivered, deleted>>
  BY DEF Cancel, VectorAfterCancel, TypeOK
<1> HIDE DEF b
<1>1. UNCHANGED <<started, block, repeating>>
  BY <1>0 DEF history
<1>2. /\ \A c : EventOf(c)' = EventOf(c)
      /\ \A c, e : IsLast(c, e)' <=> IsLast(c, e)
  BY <1>0, SameEvents
<1>3. /\ b \in listed => /\ listed' = listed \ {b} /\ magic' = magic \ {b}
                         /\ allocated' = allocated \ {b} /\ panic' = panic
      /\ b \notin listed => UNCHANGED <<listed, magic, allocated, panic>>
  BY <1>0 DEF Timer_stop, Free, Heap
<1>4. b \in allocated => ~repeat[b]
  BY <1>0 DEF Heap
<1>5. b \in listed => \A k \in 1 .. Len(queue) : queue[k].handle # b
  BY <1>4 DEF Queued, Heap
<1>6. TypeOK'
  <2>1. vectors' \in [Blocks -> Ids \cup {0}] /\ cancelled' \subseteq Ids
    BY <1>0 DEF TypeOK
  <2> QED
    BY <1>0, <1>1, <1>3, <2>1 DEF TypeOK
<1>7. Past' /\ Numbered'
  <2>1. vectors[b] \in 1 .. started \cup {0}
    BY <1>0 DEF Vectors
  <2> QED
    BY <1>0, <1>1, <1>2, <2>1 DEF Past, Numbered
<1>8. Heap'
  BY <1>0, <1>1, <1>2, <1>3 DEF Heap
<1>9. Queued'
  BY <1>0, <1>2, <1>3, <1>5 DEF Queued
<1>10. Expired' /\ NoLeak' /\ MagicHolds'
  BY <1>0, <1>3 DEF Expired, NoLeak, MagicHolds
<1>11. Vectors'
  <2>1. ASSUME NEW c \in Blocks, vectors'[c] # 0
        PROVE  c # b /\ vectors'[c] = vectors[c] /\ vectors[c] # vectors[b]
    <3>1. c # b /\ vectors'[c] = vectors[c]
      BY <1>0, <2>1 DEF TypeOK
    <3> QED
      BY <1>0, <2>1, <3>1 DEF Vectors
  <2> QED
    BY <1>0, <1>1, <1>2, <2>1 DEF Vectors
<1> QED
  BY <1>6, <1>7, <1>8, <1>9, <1>10, <1>11

LEMMA DeleteInv ==
  ASSUME IInv, NEW i \in Ids, Delete(i)
  PROVE  IInv'
<1> USE DEF IInv
<1>1. /\ \A c : EventOf(c)' = EventOf(c)
      /\ \A c, e : IsLast(c, e)' <=> IsLast(c, e)
  BY SameEvents DEF Delete
<1>2. /\ deleted' \subseteq deleted \cup (1 .. started)
      /\ UNCHANGED <<heap, listed, queue, vectors, panic, history, fired, delivered, cancelled>>
  BY DEF Delete
<1>3. TypeOK'
  <2>1. deleted' \subseteq Ids
    BY DEF Delete, TypeOK
  <2> QED
    BY <1>2, <2>1 DEF heap, history, TypeOK
<1>4. Past' /\ Numbered'
  BY <1>1, <1>2 DEF history, Past, Numbered
<1>5. Heap' /\ Queued' /\ Expired' /\ NoLeak' /\ MagicHolds' /\ Vectors'
  BY <1>1, <1>2 DEF heap, history, Heap, Queued, Expired, NoLeak, MagicHolds, Vectors
<1> QED
  BY <1>3, <1>4, <1>5

-----------------------------------------------------------------------------
\* The timer that expires is on the list; when it does not repeat no expiry of it is
\* in the queue yet.
LEMMA FireInv ==
  ASSUME IInv, NEW b \in Blocks, Fire(b)
  PROVE  IInv'
<1> USE DEF IInv
<1> DEFINE entry == [handle |-> b, id |-> EventOf(b)]
<1>0. /\ b \in listed /\ b \in allocated /\ panic = "none"
      /\ listed' = (IF repeat[b] THEN listed ELSE listed \ {b})
      /\ fired' = fired \cup {EventOf(b)}
      /\ UNCHANGED <<allocated, magic, repeat, vectors, started, block, repeating,
                     delivered, cancelled, deleted>>
  BY DEF Fire, ListAfterFire, Heap, heap, history
<1>1. \/ Len(queue) < QueueLength /\ queue' = Append(queue, entry) /\ panic' = "none"
      \/ queue' = queue /\ panic' = "event_post_isr"
  BY <1>0 DEF Fire, Room
<1>2. /\ \A c : EventOf(c)' = EventOf(c)
      /\ \A c, e : IsLast(c, e)' <=> IsLast(c, e)
  BY <1>0, SameEvents DEF history
<1>3. EventOf(b) \in 1 .. started /\ EventOf(b) \in Ids
  BY <1>0, EventInIds
<1>4. entry \in Entries
  BY <1>3 DEF Entries
<1>5. ~repeat[b] => \A k \in 1 .. Len(queue) : queue[k].handle # b
  BY <1>0 DEF Queued
<1> HIDE DEF entry
<1>6. TypeOK'
  <2>1. queue' \in Seq(Entries) /\ Len(queue') <= QueueLength
    BY <1>1, <1>4, BoundsAssumption DEF TypeOK
  <2>2. listed' \subseteq Blocks /\ fired' \subseteq Ids
    BY <1>0, <1>3 DEF TypeOK
  <2> QED
    BY <1>0, <1>1, <2>1, <2>2 DEF TypeOK
<1>7. Past' /\ Numbered'
  BY <1>0, <1>2, <1>3 DEF Past, Numbered
<1>8. Heap'
  BY <1>0, <1>2 DEF Heap
<1>9. Queued'
  <2>1. CASE queue' = queue
    BY <1>0, <1>2, <1>5, <2>1 DEF Queued
  <2>2. CASE queue' = Append(queue, entry)
    <3>1. /\ Len(queue') = Len(queue) + 1 /\ queue'[Len(queue) + 1] = entry
          /\ \A k \in 1 .. Len(queue) : queue'[k] = queue[k]
          /\ Len(queue) \in Nat
      BY <2>2 DEF TypeOK
    <3>2. entry.handle = b /\ entry.id = EventOf(b)
      BY DEF entry
    <3>3. ASSUME NEW k \in 1 .. Len(queue')
          PROVE  LET c == queue'[k].handle IN
                   /\ c \in allocated' /\ queue'[k].id = EventOf(c)
                   /\ ~repeat'[c] => c \notin listed'
                   /\ \A j \in 1 .. Len(queue') :
                        j # k /\ queue'[j].handle = c => repeat'[c]
      <4>1. CASE k \in 1 .. Len(queue)
        BY <1>0, <1>5, <3>1, <3>2, <4>1 DEF Queued
      <4>2. CASE k = Len(queue) + 1
        BY <1>0, <1>5, <3>1, <3>2, <4>2 DEF Queued
      <4> QED
        BY <3>1, <4>1, <4>2
    <3> QED
      BY <1>2, <3>3 DEF Queued
  <2> QED
    BY <1>1, <2>1, <2>2
<1>10. NoLeak' /\ MagicHolds'
  <2>1. MagicHolds'
    BY <1>1 DEF MagicHolds
  <2>2. CASE queue' = Append(queue, entry)
    <3>1. /\ Len(queue') = Len(queue) + 1 /\ queue'[Len(queue) + 1] = entry
          /\ \A k \in 1 .. Len(queue) : queue'[k] = queue[k]
          /\ Len(queue) \in Nat
      BY <2>2 DEF TypeOK
    <3>2. entry.handle = b
      BY DEF entry
    <3>3. \E k \in 1 .. Len(queue') : queue'[k].handle = b
      BY <3>1, <3>2
    <3> QED
      BY <1>0, <2>1, <3>1, <3>3 DEF NoLeak
  <2> QED
    BY <1>1, <2>1, <2>2 DEF NoLeak
<1>11. Vectors'
  BY <1>0, <1>2 DEF Vectors
<1>12. Expired'
  <2>1. CASE queue' = queue
    BY <1>0, <2>1 DEF Expired
  <2>2. CASE queue' = Append(queue, entry)
    <3>1. /\ Len(queue') = Len(queue) + 1 /\ queue'[Len(queue) + 1] = entry
          /\ \A k \in 1 .. Len(queue) : queue'[k] = queue[k]
          /\ Len(queue) \in Nat
      BY <2>2 DEF TypeOK
    <3>2. entry.id = EventOf(b)
      BY DEF entry
    <3> QED
      BY <1>0, <3>1, <3>2 DEF Expired
  <2> QED
    BY <1>1, <2>1, <2>2
<1> QED
  BY <1>6, <1>7, <1>8, <1>9, <1>10, <1>11, <1>12

\* The expiry that the event loop handles is the only one of a timer that does not
\* repeat, which it frees.
LEMMA DispatchInv ==
  ASSUME IInv, Dispatch
  PROVE  IInv'
<1> USE DEF IInv
<1> DEFINE b == Head(queue).handle
<1>0. /\ panic = "none" /\ queue # <<>> /\ queue' = Tail(queue) /\ FreeExpired(b)
      /\ UNCHANGED <<repeat, listed, started, block, repeating, fired, cancelled, deleted>>
      /\ IF panic' = "none"
           THEN /\ vectors' = [vectors EXCEPT ![b] = VectorAfterDispatch(b)]
                /\ delivered' = delivered \cup Receiver(vectors[b])
           ELSE UNCHANGED <<vectors, delivered>>
  BY DEF Dispatch, history
<1>1. /\ Len(queue) \in Nat /\ 1 \in 1 .. Len(queue) /\ Head(queue) = queue[1]
      /\ Len(queue') = Len(queue) - 1 /\ queue' \in Seq(Entries)
      /\ \A k \in 1 .. Len(queue') : queue'[k] = queue[k + 1] /\ k + 1 \in 1 .. Len(queue)
  <2>1. queue \in Seq(Entries)
    BY DEF TypeOK
  <2>2. Len(queue) \in Nat \ {0}
    BY <1>0, <2>1, EmptySeq
  <2> QED
    BY <1>0, <2>1, <2>2, HeadTailProperties
<1>2. b \in allocated /\ b \in Blocks
  BY <1>1 DEF Queued, TypeOK
<1>3. /\ repeat[b] => UNCHANGED <<magic, allocated, panic>>
      /\ ~repeat[b] => magic' = magic \ {b} /\ allocated' = allocated \ {b} /\ panic' = panic
  BY <1>0, <1>2 DEF FreeExpired, Free, Heap
<1>4. /\ panic' = "none" /\ vectors' = [vectors EXCEPT ![b] = VectorAfterDispatch(b)]
      /\ delivered' = delivered \cup Receiver(vectors[b])
  BY <1>0, <1>3
<1>5. /\ \A c : EventOf(c)' = EventOf(c)
      /\ \A c, e : IsLast(c, e)' <=> IsLast(c, e)
  BY <1>0, SameEvents DEF history
<1>6. ~repeat[b] => b \notin listed /\ \A k \in 1 .. Len(queue') : queue'[k].handle # b
  BY <1>1 DEF Queued
<1> HIDE DEF b
<1>7. VectorAfterDispatch(b) \in {0, vectors[b]}
  BY DEF VectorAfterDispatch
<1>8. TypeOK'
  <2>1. vectors' \in [Blocks -> Ids \cup {0}] /\ delivered' \subseteq Ids
    BY <1>2, <1>4, <1>7 DEF TypeOK, Receiver
  <2>2. Len(queue') <= QueueLength
    BY <1>1, BoundsAssumption DEF TypeOK
  <2>3. allocated' \subseteq Blocks /\ magic' \subseteq Blocks
    BY <1>3 DEF TypeOK
  <2> QED
    BY <1>0, <1>1, <1>4, <2>1, <2>2, <2>3 DEF TypeOK
<1>9. Past' /\ Numbered'
  <2>1. vectors[b] \in 1 .. started \cup {0}
    BY <1>2 DEF Vectors
  <2> QED
    BY <1>0, <1>4, <1>5, <2>1 DEF Past, Numbered, Receiver
<1>10. Heap'
  BY <1>0, <1>3, <1>5, <1>6 DEF Heap
<1>11. Queued'
  <2>1. ASSUME NEW k \in 1 .. Len(queue')
        PROVE  LET c == queue'[k].handle IN
                 /\ c \in allocated' /\ queue'[k].id = EventOf(c)
                 /\ ~repeat'[c] => c \notin listed'
                 /\ \A j \in 1 .. Len(queue') :
                      j # k /\ queue'[j].handle = c => repeat'[c]
    BY <1>0, <1>1, <1>3, <1>6 DEF Queued
  <2> QED
    BY <1>5, <2>1 DEF Queued
<1>12. NoLeak' /\ MagicHolds'
  <2>1. ASSUME NEW c \in allocated', c \notin listed'
        PROVE  \E k \in 1 .. Len(queue') : queue'[k].handle = c
    <3>1. c \in allocated /\ c \notin listed /\ c # b
      BY <1>0, <1>2, <1>3, <2>1 DEF Heap
    <3>2. PICK k \in 1 .. Len(queue) : queue[k].handle = c
      BY <1>0, <3>1 DEF NoLeak
    <3>3. k # 1
      BY <1>1, <3>1, <3>2 DEF b
    <3>4. k - 1 \in 1 .. Len(queue') /\ queue'[k - 1] = queue[k]
      BY <1>1, <3>2, <3>3
    <3> QED
      BY <3>2, <3>4
  <2> QED
    BY <1>4, <2>1 DEF NoLeak, MagicHolds
<1>13. Vectors'
  BY <1>0, <1>2, <1>4, <1>5, <1>7 DEF Vectors, TypeOK
<1>14. Expired'
  BY <1>0, <1>1 DEF Expired
<1> QED
  BY <1>8, <1>9, <1>10, <1>11, <1>12, <1>13, <1>14

LEMMA Inductive == IInv /\ [Next]_vars => IInv'
<1> SUFFICES ASSUME IInv, [Next]_vars PROVE IInv'
  OBVIOUS
<1>1. CASE UNCHANGED vars
  <2>1. /\ \A c : EventOf(c)' = EventOf(c)
        /\ \A c, e : IsLast(c, e)' <=> IsLast(c, e)
    BY <1>1, SameEvents DEF vars
  <2>2. TypeOK' /\ Past' /\ Expired' /\ NoLeak' /\ MagicHolds'
    BY <1>1 DEF vars, heap, history, outcome, IInv, TypeOK, Past, Expired, NoLeak, MagicHolds
  <2>3. Numbered' /\ Heap' /\ Queued' /\ Vectors'
    BY <1>1, <2>1 DEF vars, heap, history, outcome, IInv, Numbered, Heap, Queued, Vectors
  <2> QED
    BY <2>2, <2>3 DEF IInv
<1> QED
  <2>1. ASSUME NEW b \in Blocks, NEW r \in Repeats, l_start(b, r) PROVE IInv'
    BY <2>1, StartInv
  <2>2. ASSUME NEW i \in Ids, Cancel(i) \/ Delete(i) PROVE IInv'
    BY <2>2, CancelInv, DeleteInv
  <2>3. ASSUME NEW b \in Blocks, Fire(b) PROVE IInv'
    BY <2>3, FireInv
  <2>4. ASSUME Dispatch PROVE IInv'
    BY <2>4, DispatchInv
  <2> QED
    BY <1>1, <2>1, <2>2, <2>3, <2>4 DEF Next

LEMMA Invariant == Spec => []IInv
  BY InitInv, Inductive, PTL DEF Spec

-----------------------------------------------------------------------------
\* Every variable keeps its type.
THEOREM TypeCorrect == Spec => []TypeOK
<1>1. IInv => TypeOK
  BY DEF IInv
<1> QED
  BY <1>1, Invariant, PTL

\* The interrupt walks live timers only, and no timer is freed twice, whatever is
\* started, cancelled and dispatched in between.
THEOREM FreedOnceAlways == Spec => []FreedOnce
<1>1. IInv => FreedOnce
  BY DEF IInv, Heap, FreedOnce, ListedIsLive
<1> QED
  BY <1>1, Invariant, PTL

\* No block is lost as long as the event queue has not overflowed.
THEOREM NothingLeaks == Spec => []NoLeak
<1>1. IInv => NoLeak
  BY DEF IInv
<1> QED
  BY <1>1, Invariant, PTL

\* A handle in the queue still names the timer that expired.
THEOREM HandlesAreUnique == Spec => []HandleIsUnique
<1>1. IInv => HandleIsUnique
  BY DEF IInv, Queued, HandleIsUnique
<1> QED
  BY <1>1, Invariant, PTL

-----------------------------------------------------------------------------
\* A step changes the status of one event, as the service allows, or of none.
LEMMA OneEvent ==
  ASSUME NEW i \in Ids, NEW to,
         \A j \in Ids : j # i => Status(j)' = Status(j),
         Status(i)' = to
  PROVE  StatusOf' = [StatusOf EXCEPT ![i] = to]
  BY DEF StatusOf

LEMMA NoEvent ==
  ASSUME \A j \in Ids : Status(j)' = Status(j)
  PROVE  StatusOf' = StatusOf
  BY DEF StatusOf

LEMMA IdsAreNumbers == Ids \subseteq Nat
  BY BoundsAssumption DEF Ids

LEMMA StartStep ==
  ASSUME IInv, NEW b \in Blocks, NEW r \in Repeats, l_start(b, r)
  PROVE  [Service!Next]_StatusOf
<1>0. PICK i \in Ids : i = started + 1
  BY BoundsAssumption DEF l_start, Ids, IInv, TypeOK
<1>1. /\ started' = i /\ panic = "none" /\ panic' = "none"
      /\ UNCHANGED <<fired, delivered, cancelled, deleted>>
  BY <1>0 DEF l_start, outcome
<1>2. started \in Nat
  BY DEF IInv, TypeOK
<1>3. i \notin fired \cup delivered \cup cancelled \cup deleted
  BY <1>0, <1>2 DEF IInv, Past
<1>4. Status(i) = "unused" /\ Status(i)' = "pending"
  BY <1>0, <1>1, <1>2, <1>3 DEF Status
<1>5. \A j \in Ids : j # i => Status(j)' = Status(j)
  BY <1>0, <1>1, <1>2, IdsAreNumbers DEF Status
<1>6. StatusOf' = [StatusOf EXCEPT ![i] = "pending"] /\ StatusOf[i] = "unused"
  BY <1>2, <1>4, <1>5, OneEvent DEF StatusOf
<1> QED
  BY <1>2, <1>6 DEF Service!Next, Service!Start, Service!Step, Service!Ids, Ids

\* A cancelled or orphaned event is closed, unless it was closed before.
LEMMA CloseStep ==
  ASSUME IInv, panic = "none", NEW i \in 1 .. started,
         \/ cancelled' = cancelled \cup {i} /\ deleted' = deleted
         \/ cancelled' = cancelled /\ deleted' = deleted \cup {i},
         UNCHANGED <<panic, started, fired, delivered>>
  PROVE  [Service!Next]_StatusOf
<1>1. started \in Nat /\ i \in Ids /\ i <= started
  BY BoundsAssumption DEF IInv, TypeOK, Ids
<1>2. \A j \in Ids : j # i => Status(j)' = Status(j)
  BY DEF Status
<1>3. CASE i \in delivered \cup cancelled \cup deleted
  <2>1. Status(i)' = Status(i)
    BY <1>3 DEF Status
  <2> QED
    BY <1>2, <2>1, NoEvent
<1>4. CASE i \notin delivered \cup cancelled \cup deleted
  <2>1. Status(i) \in {"due", "pending"} /\ Status(i)' = "cancelled"
    BY <1>1, <1>4, IdsAreNumbers DEF Status
  <2>2. /\ StatusOf' = [StatusOf EXCEPT ![i] = "cancelled"]
        /\ StatusOf[i] \in {"pending", "due"}
    BY <1>1, <1>2, <2>1, OneEvent DEF StatusOf
  <2> QED
    BY <1>1, <2>2 DEF Service!Next, Service!Cancel, Service!Step, Service!Ids, Ids
<1> QED
  BY <1>3, <1>4

LEMMA CancelStep ==
  ASSUME IInv, NEW i \in Ids, Cancel(i)
  PROVE  [Service!Next]_StatusOf
<1> DEFINE v == vectors[block[i]]
<1>1. /\ panic = "none" /\ Timer_stop(block[i])
      /\ UNCHANGED <<started, fired, delivered, deleted>>
      /\ cancelled' = cancelled \cup ({v} \ {0}) /\ block[i] \in Blocks
  BY DEF Cancel, history, IInv, TypeOK
<1>2. panic' = "none"
  BY <1>1 DEF Timer_stop, Free, IInv, Heap
<1>3. CASE v = 0
  <2>1. \A j \in Ids : Status(j)' = Status(j)
    BY <1>1, <1>2, <1>3 DEF Status
  <2> QED
    BY <2>1, NoEvent
<1>4. CASE v # 0
  <2>1. PICK e \in 1 .. started : e = v
    BY <1>1, <1>4 DEF IInv, Vectors
  <2>2. cancelled' = cancelled \cup {e}
    BY <1>1, <1>4, <2>1
  <2> QED
    BY <1>1, <1>2, <2>1, <2>2, CloseStep
<1> QED
  BY <1>3, <1>4

LEMMA DeleteStep ==
  ASSUME IInv, NEW i \in Ids, Delete(i)
  PROVE  [Service!Next]_StatusOf
  BY CloseStep DEF Delete, history

\* A panic of the full queue loses every event that is open, if there is one.
LEMMA FireStep ==
  ASSUME IInv, NEW b \in Blocks, Fire(b)
  PROVE  [Service!Next]_StatusOf
<1>1. PICK e \in Ids : e = EventOf(b)
  BY EventInIds DEF IInv, Heap, Fire
<1>2. /\ e \in 1 .. started /\ panic = "none" /\ fired' = fired \cup {e}
      /\ UNCHANGED <<started, delivered, cancelled, deleted>>
  BY <1>1, EventInIds DEF IInv, Heap, Fire, history
<1>3. panic' = "none" \/ panic' = "event_post_isr"
  BY <1>2 DEF Fire
<1>4. started \in Nat
  BY DEF IInv, TypeOK
<1>5. CASE panic' = "none"
  <2>1. \A j \in Ids : j # e => Status(j)' = Status(j)
    BY <1>2, <1>5 DEF Status
  <2>2. CASE Status(e) = "pending"
    <3>1. Status(e)' = "due"
      BY <1>2, <1>4, <1>5, <2>2 DEF Status
    <3>2. StatusOf' = [StatusOf EXCEPT ![e] = "due"] /\ StatusOf[e] = "pending"
      BY <2>1, <2>2, <3>1, OneEvent DEF StatusOf
    <3> QED
      BY <3>2 DEF Service!Next, Service!Expire, Service!Step, Service!Ids, Ids
  <2>3. CASE Status(e) # "pending"
    <3>1. Status(e)' = Status(e)
      BY <1>2, <1>4, <1>5, <2>3 DEF Status
    <3> QED
      BY <2>1, <3>1, NoEvent
  <2> QED
    BY <2>2, <2>3
<1>6. CASE panic' = "event_post_isr"
  <2> DEFINE Open == {"pending", "due"}
  <2>1. \A j \in Ids :
          /\ Status(j) \in Open => Status(j)' = "lost"
          /\ Status(j) \notin Open => Status(j)' = Status(j)
    BY <1>2, <1>4, <1>6, IdsAreNumbers DEF Status
  <2> HIDE DEF Open
  <2>2. CASE \E j \in Ids : Status(j) \in Open
    <3>1. \E j \in Ids : StatusOf[j] \in Open
      BY <2>2 DEF StatusOf
    <3>2. \A j \in Ids : Status(j)' = IF StatusOf[j] \in Open THEN "lost" ELSE StatusOf[j]
      BY <2>1 DEF StatusOf
    <3>3. StatusOf' = [j \in Ids |-> IF StatusOf[j] \in Open THEN "lost" ELSE StatusOf[j]]
      BY ONLY <3>2 DEF StatusOf
    <3> QED
      BY <3>1, <3>3 DEF Open, Service!Next, Service!Halt, Service!Open, Service!Ids, Ids
  <2>3. CASE \A j \in Ids : Status(j) \notin Open
    <3>1. \A j \in Ids : Status(j)' = Status(j)
      BY <2>1, <2>3
    <3> QED
      BY <3>1, NoEvent
  <2> QED
    BY <2>2, <2>3
<1> QED
  BY <1>3, <1>5, <1>6

\* An event that is delivered has expired and was not cancelled.
LEMMA DispatchStep ==
  ASSUME IInv, Dispatch
  PROVE  [Service!Next]_StatusOf
<1> DEFINE b == Head(queue).handle
<1> DEFINE v == vectors[b]
<1>1. /\ panic = "none" /\ queue # <<>> /\ queue \in Seq(Entries) /\ FreeExpired(b)
      /\ UNCHANGED <<started, fired, cancelled, deleted>>
      /\ panic' = "none" => delivered' = delivered \cup Receiver(v)
  BY DEF Dispatch, history, IInv, TypeOK
<1>2. Head(queue) = queue[1] /\ 1 \in 1 .. Len(queue)
  <2>1. Len(queue) \in Nat \ {0}
    BY <1>1, EmptySeq
  <2> QED
    BY <1>1, <2>1, HeadTailProperties
<1>3. /\ b \in allocated /\ b \in Blocks
      /\ queue[1].id = EventOf(b) /\ queue[1].id \in fired
  BY <1>2 DEF IInv, TypeOK, Queued, Expired
<1>4. panic' = "none"
  BY <1>1, <1>3 DEF FreeExpired, Free, IInv, Heap
<1>5. v # 0 => v \in 1 .. started /\ v \in fired /\ v \notin cancelled
  BY <1>3 DEF IInv, Vectors
<1> HIDE DEF v, b
<1>6. CASE v = 0 \/ v \in deleted
  <2>1. delivered' = delivered
    BY <1>1, <1>4, <1>6 DEF Receiver
  <2>2. \A j \in Ids : Status(j)' = Status(j)
    BY <1>1, <1>4, <2>1 DEF Status
  <2> QED
    BY <2>2, NoEvent
<1>7. CASE v # 0 /\ v \notin deleted
  <2>1. PICK e \in Ids : e = v
    BY <1>5, <1>7, BoundsAssumption DEF IInv, TypeOK, Ids
  <2>2. delivered' = delivered \cup {e} /\ e \in 1 .. started
    BY <1>1, <1>4, <1>5, <1>7, <2>1 DEF Receiver
  <2>3. \A j \in Ids : j # e => Status(j)' = Status(j)
    BY <1>1, <1>4, <2>2 DEF Status
  <2>4. started \in Nat
    BY DEF IInv, TypeOK
  <2>5. CASE e \in delivered
    <3>1. Status(e)' = Status(e)
      BY <1>1, <1>4, <2>2, <2>5 DEF Status
    <3> QED
      BY <2>3, <3>1, NoEvent
  <2>6. CASE e \notin delivered
    <3>1. Status(e) = "due" /\ Status(e)' = "delivered"
      BY <1>1, <1>4, <1>5, <1>7, <2>1, <2>2, <2>4, <2>6 DEF Status
    <3>2. StatusOf' = [StatusOf EXCEPT ![e] = "delivered"] /\ StatusOf[e] = "due"
      BY <2>3, <3>1, OneEvent DEF StatusOf
    <3> QED
      BY <3>2 DEF Service!Next, Service!Deliver, Service!Step, Service!Ids, Ids
  <2> QED
    BY <2>5, <2>6
<1> QED
  BY <1>6, <1>7

\* LuaTimers implements the safety part of TimerService: an event reaches its receiver
\* at most once before it is closed, not before its timer has expired, and never after
\* it was cancelled or its receiver deleted.
THEOREM Implements == Spec => Service!Init /\ [][Service!Next]_StatusOf
<1>1. Init => Service!Init
  <2>1. Init => \A j \in Ids : Status(j) = "unused"
    BY IdsAreNumbers DEF Init, Ids, Status
  <2> QED
    BY <2>1 DEF StatusOf, Service!Init, Service!Ids, Ids
<1>2. IInv /\ [Next]_vars => [Service!Next]_StatusOf
  <2> SUFFICES ASSUME IInv, [Next]_vars PROVE [Service!Next]_StatusOf
    OBVIOUS
  <2>1. CASE UNCHANGED vars
    <3>1. \A j \in Ids : Status(j)' = Status(j)
      BY <2>1 DEF vars, history, outcome, Status
    <3> QED
      BY <3>1, NoEvent
  <2>2. ASSUME NEW b \in Blocks, NEW r \in Repeats, l_start(b, r)
        PROVE  [Service!Next]_StatusOf
    BY <2>2, StartStep
  <2>3. ASSUME NEW i \in Ids, Cancel(i) \/ Delete(i) PROVE [Service!Next]_StatusOf
    BY <2>3, CancelStep, DeleteStep
  <2>4. ASSUME NEW b \in Blocks, Fire(b) PROVE [Service!Next]_StatusOf
    BY <2>4, FireStep
  <2>5. ASSUME Dispatch PROVE [Service!Next]_StatusOf
    BY <2>5, DispatchStep
  <2> QED
    BY <2>1, <2>2, <2>3, <2>4, <2>5 DEF Next
<1> QED
  BY <1>1, <1>2, Invariant, PTL DEF Spec
=============================================================================
