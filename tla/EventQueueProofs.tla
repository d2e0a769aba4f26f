-------------------------- MODULE EventQueueProofs --------------------------
(***************************************************************************)
(* Theorems about EventQueue: the invariant that no event is left behind,  *)
(* and that the queue implements Agenda, for any entities, inputs, delays  *)
(* and lengths of a tick.                                                  *)
(***************************************************************************)
EXTENDS EventQueue, EventListProofs

(* The order of the list: by time, and events of one time as posted. *)
Ordered ==
  \A i, j \in 1 .. Len(queue) : i < j =>
    \/ queue[i].after < queue[j].after
    \/ queue[i].after = queue[j].after /\ queue[i].stamp < queue[j].stamp

Stamped ==
  /\ \A i \in 1 .. Len(queue) : queue[i].stamp <= posted
  /\ \A i, j \in 1 .. Len(queue) : i # j => queue[i].stamp # queue[j].stamp

(* What is being served is the head, and it is due. *)
ServesHead ==
  serving => frame = "service" /\ queue # <<>> /\ queue[1].after <= 0

IInv == TypeOK /\ NeverLate /\ Ordered /\ Stamped /\ ServesHead

-----------------------------------------------------------------------------
(* The queue of a good state, in terms of positions. *)
LEMMA QueueFacts ==
  ASSUME TypeOK
  PROVE  /\ Len(queue) \in Nat /\ DOMAIN queue = 1 .. Len(queue)
         /\ \A i \in 1 .. Len(queue) :
              queue[i] \in Event /\ queue[i].after \in Int /\ queue[i].stamp \in 1 .. MaxEvents
         /\ queue # <<>> => Len(queue) >= 1 /\ Head(queue) = queue[1]
<1>1. queue \in Seq(Event) BY DEF TypeOK
<1>2. \A e \in Event : e.after \in Int /\ e.stamp \in 1 .. MaxEvents
  BY DEF Event
<1> QED BY <1>1, <1>2

(* Posting an event puts it behind what fires no later. *)
LEMMA PostKeeps ==
  ASSUME IInv, NEW t \in Entities, NEW n \in Inputs, NEW d \in Delays, NEW c \in Entities,
         Post(t, n, d, c)
  PROVE  IInv'
<1> DEFINE e == [after |-> d, target |-> t, input |-> n, caller |-> c, stamp |-> posted + 1]
<1>1. d \in Nat /\ posted \in Nat /\ posted + 1 \in 1 .. MaxEvents /\ FrameTime \in Nat \ {0}
  BY QueueAssumption DEF IInv, TypeOK, Post
<1>2. e \in Event /\ e.after = d /\ e.stamp = posted + 1
  BY <1>1 DEF Event
<1>3. queue \in Seq(Event) /\ queue' = AddEvent(queue, e) /\ posted' = posted + 1
  BY DEF IInv, TypeOK, Post
<1>4. UNCHANGED <<serving, frame, server>>
  BY DEF Post
<1>5. \A x \in Event : x.after \in Int
  BY DEF Event
<1> HIDE DEF e
<1>6. queue' \in Seq(Event)
  BY <1>2, <1>3, <1>5, AddEventInserts
<1>7. PICK k \in 1 .. Len(queue) + 1 : Inserted(queue', queue, e, k)
  BY <1>2, <1>3, <1>5, AddEventInserts
<1>8. TypeOK'
  BY <1>1, <1>3, <1>4, <1>6 DEF IInv, TypeOK
<1>9. /\ Len(queue) \in Nat /\ k \in Nat
      /\ Len(queue') = Len(queue) + 1 /\ DOMAIN queue' = 1 .. Len(queue')
      /\ \A i \in 1 .. Len(queue) : queue[i].after \in Int /\ queue[i].stamp \in Nat
  BY <1>6, <1>7, QueueFacts DEF IInv, Inserted
<1>10. /\ queue'[k] = e
       /\ \A i \in 1 .. k - 1 : i \in 1 .. Len(queue) /\ queue'[i] = queue[i] /\ queue[i].after <= d
       /\ \A i \in k + 1 .. Len(queue) + 1 :
            i - 1 \in k .. Len(queue) /\ queue'[i] = queue[i - 1] /\ queue[i - 1].after > d
  <2>1. queue'[k] = e
    BY <1>7 DEF Inserted
  <2>2. \A i \in 1 .. k - 1 : i \in 1 .. Len(queue) /\ queue'[i] = queue[i] /\ queue[i].after <= d
    BY <1>2, <1>7, <1>9 DEF Inserted
  <2>3. ASSUME NEW i \in k + 1 .. Len(queue) + 1
        PROVE  i - 1 \in k .. Len(queue) /\ queue'[i] = queue[i - 1] /\ queue[i - 1].after > d
    <3>1. i - 1 \in k .. Len(queue) /\ k \in 1 .. Len(queue) /\ (i - 1) + 1 = i
      BY <1>9
    <3>2. queue'[(i - 1) + 1] = queue[i - 1]
      BY <1>7, <3>1 DEF Inserted
    <3>3. queue[k].after > d
      BY <1>2, <1>7, <3>1 DEF Inserted
    <3>4. queue[k].after <= queue[i - 1].after
      <4>1. CASE i - 1 = k
        BY <1>9, <3>1, <4>1
      <4>2. CASE k < i - 1
        <5>1. i - 1 \in 1 .. Len(queue)
          BY <1>9, <3>1
        <5> QED BY <1>9, <3>1, <4>2, <5>1 DEF IInv, Ordered
      <4> QED BY <1>9, <3>1, <4>1, <4>2
    <3> QED BY <1>1, <1>9, <3>1, <3>2, <3>3, <3>4
  <2> QED BY <2>1, <2>2, <2>3
<1>11. \A i \in 1 .. Len(queue') : i \in 1 .. k - 1 \/ i = k \/ i \in k + 1 .. Len(queue) + 1
  BY <1>9
<1>12. NeverLate'
  <2>1. \A i \in 1 .. Len(queue) : queue[i].after > -FrameTime
    BY QueueFacts DEF IInv, NeverLate
  <2>2. d > -FrameTime
    BY <1>1
  <2> SUFFICES ASSUME NEW i \in 1 .. Len(queue') PROVE queue'[i].after > -FrameTime
    BY <1>4, <1>9 DEF NeverLate
  <2>3. CASE i \in 1 .. k - 1
    BY <1>10, <2>1, <2>3
  <2>4. CASE i = k
    BY <1>2, <1>10, <2>2, <2>4
  <2>5. CASE i \in k + 1 .. Len(queue) + 1
    <3>1. i - 1 \in 1 .. Len(queue)
      BY <1>9, <2>5
    <3> QED BY <1>10, <2>1, <2>5, <3>1
  <2> QED BY <1>11, <2>3, <2>4, <2>5
<1>13. Ordered'
  <2> SUFFICES ASSUME NEW i \in 1 .. Len(queue'), NEW j \in 1 .. Len(queue'), i < j
               PROVE  \/ queue'[i].after < queue'[j].after
                      \/ queue'[i].after = queue'[j].after /\ queue'[i].stamp < queue'[j].stamp
    BY DEF Ordered
  <2>1. \A a, b \in 1 .. Len(queue) : a < b =>
          \/ queue[a].after < queue[b].after
          \/ queue[a].after = queue[b].after /\ queue[a].stamp < queue[b].stamp
    BY DEF IInv, Ordered
  <2>2. \A a \in 1 .. Len(queue) : queue[a].stamp < posted + 1
    BY <1>1, <1>9 DEF IInv, Stamped
  <2>3. CASE i \in 1 .. k - 1
    <3>1. CASE j \in 1 .. k - 1
      BY <1>10, <2>1, <2>3, <3>1
    <3>2. CASE j = k
      BY <1>1, <1>2, <1>9, <1>10, <2>2, <2>3, <3>2
    <3>3. CASE j \in k + 1 .. Len(queue) + 1
      <4>1. queue'[i] = queue[i] /\ queue[i].after <= d /\ queue[i].after \in Int
        BY <1>9, <1>10, <2>3
      <4>2. j - 1 \in 1 .. Len(queue)
        BY <1>9, <3>3
      <4>3. queue'[j] = queue[j - 1] /\ queue[j - 1].after > d /\ queue[j - 1].after \in Int
        BY <1>9, <1>10, <3>3, <4>2
      <4> QED BY <1>1, <4>1, <4>3
    <3> QED BY <1>11, <3>1, <3>2, <3>3
  <2>4. CASE i = k
    <3>1. j \in k + 1 .. Len(queue) + 1
      BY <1>9, <2>4
    <3> QED BY <1>2, <1>9, <1>10, <2>4, <3>1
  <2>5. CASE i \in k + 1 .. Len(queue) + 1
    <3>1. j \in k + 1 .. Len(queue) + 1 /\ i - 1 < j - 1
      BY <1>9, <2>5
    <3>2. i - 1 \in 1 .. Len(queue) /\ j - 1 \in 1 .. Len(queue)
      BY <1>9, <2>5, <3>1
    <3>3. queue'[i] = queue[i - 1] /\ queue'[j] = queue[j - 1]
      BY <1>10, <2>5, <3>1
    <3> QED BY <2>1, <3>1, <3>2, <3>3
  <2> QED BY <1>11, <2>3, <2>4, <2>5
<1>14. Stamped'
  <2>1. \A a \in 1 .. Len(queue) : queue[a].stamp <= posted
    BY DEF IInv, Stamped
  <2>2. \A a, b \in 1 .. Len(queue) : a # b => queue[a].stamp # queue[b].stamp
    BY DEF IInv, Stamped
  <2>3. ASSUME NEW i \in 1 .. Len(queue') PROVE queue'[i].stamp <= posted + 1
    <3>1. CASE i \in 1 .. k - 1
      BY <1>1, <1>9, <1>10, <2>1, <3>1
    <3>2. CASE i = k
      BY <1>1, <1>2, <1>10, <3>2
    <3>3. CASE i \in k + 1 .. Len(queue) + 1
      <4>1. i - 1 \in 1 .. Len(queue)
        BY <1>9, <3>3
      <4> QED BY <1>1, <1>9, <1>10, <2>1, <3>3, <4>1
    <3> QED BY <1>11, <3>1, <3>2, <3>3
  <2>4. ASSUME NEW i \in 1 .. Len(queue'), i # k
        PROVE  \E a \in 1 .. Len(queue) : queue'[i] = queue[a] /\ a = IF i < k THEN i ELSE i - 1
    <3>1. CASE i \in 1 .. k - 1
      BY <1>9, <1>10, <3>1
    <3>2. CASE i \in k + 1 .. Len(queue) + 1
      <4>1. i - 1 \in 1 .. Len(queue) /\ ~(i < k)
        BY <1>9, <3>2
      <4> QED BY <1>10, <3>2, <4>1
    <3> QED BY <1>11, <2>4, <3>1, <3>2
  <2>5. ASSUME NEW i \in 1 .. Len(queue'), NEW j \in 1 .. Len(queue'), i # j
        PROVE  queue'[i].stamp # queue'[j].stamp
    <3>1. CASE i = k
      BY <1>1, <1>2, <1>9, <1>10, <2>1, <2>4, <2>5, <3>1
    <3>2. CASE j = k
      BY <1>1, <1>2, <1>9, <1>10, <2>1, <2>4, <2>5, <3>2
    <3>3. CASE i # k /\ j # k
      <4>1. PICK a \in 1 .. Len(queue) : queue'[i] = queue[a] /\ a = IF i < k THEN i ELSE i - 1
        BY <2>4, <3>3
      <4>2. PICK b \in 1 .. Len(queue) : queue'[j] = queue[b] /\ b = IF j < k THEN j ELSE j - 1
        BY <2>4, <3>3
      <4>3. a # b
        BY <1>9, <2>5, <3>3, <4>1, <4>2
      <4> QED BY <2>2, <4>1, <4>2, <4>3
    <3> QED BY <3>1, <3>2, <3>3
  <2> QED BY <1>3, <2>3, <2>5 DEF Stamped
<1>15. ServesHead'
  <2> SUFFICES ASSUME serving' PROVE frame' = "service" /\ queue' # <<>> /\ queue'[1].after <= 0
    BY DEF ServesHead
  <2>1. frame = "service" /\ queue # <<>> /\ queue[1].after <= 0
    BY <1>4 DEF IInv, ServesHead
  <2>2. Len(queue) >= 1 /\ queue' # <<>>
    BY <1>6, <1>9, <2>1, QueueFacts DEF IInv
  <2>3. CASE k = 1
    <3>1. queue[1].after > d
      BY <1>2, <1>7, <1>9, <2>2, <2>3 DEF Inserted
    <3> QED BY <1>1, <1>9, <2>1, <2>2, <3>1
  <2>4. CASE k > 1
    <3>1. 1 \in 1 .. k - 1
      BY <1>9, <2>4
    <3> QED BY <1>4, <1>10, <2>1, <2>2, <3>1
  <2> QED BY <2>3, <2>4, <1>9
<1> QED BY <1>8, <1>12, <1>13, <1>14, <1>15 DEF IInv
(* Taking events from the list, but not the one that is being served. *)
LEMMA ThinningKeeps ==
  ASSUME IInv, queue' \in Seq(Event), NEW pos, Embeds(pos, queue', queue),
         UNCHANGED <<serving, frame, posted, server>>,
         serving => queue' # <<>> /\ queue'[1] = queue[1]
  PROVE  IInv'
<1>1. /\ Len(queue') \in Nat /\ DOMAIN queue' = 1 .. Len(queue')
      /\ DOMAIN queue = 1 .. Len(queue)
  BY QueueFacts DEF IInv
<1>2. \A i \in 1 .. Len(queue') : pos[i] \in 1 .. Len(queue) /\ queue[pos[i]] = queue'[i]
  BY DEF Embeds
<1>3. \A i, j \in 1 .. Len(queue') : i < j => pos[i] < pos[j]
  BY DEF Embeds
<1>4. \A i, j \in 1 .. Len(queue') : i # j => pos[i] # pos[j]
  BY <1>1, <1>3, QueueFacts, <1>2 DEF IInv
<1>5. TypeOK'
  BY DEF IInv, TypeOK
<1>6. NeverLate'
  BY <1>1, <1>2 DEF IInv, NeverLate
<1>7. Ordered'
  <2> SUFFICES ASSUME NEW i \in 1 .. Len(queue'), NEW j \in 1 .. Len(queue'), i < j
               PROVE  \/ queue'[i].after < queue'[j].after
                      \/ queue'[i].after = queue'[j].after /\ queue'[i].stamp < queue'[j].stamp
    BY DEF Ordered
  <2>1. pos[i] < pos[j]
    BY <1>3
  <2>2. /\ pos[i] \in 1 .. Len(queue) /\ queue[pos[i]] = queue'[i]
        /\ pos[j] \in 1 .. Len(queue) /\ queue[pos[j]] = queue'[j]
    BY <1>2
  <2>3. \/ queue[pos[i]].after < queue[pos[j]].after
        \/ queue[pos[i]].after = queue[pos[j]].after /\ queue[pos[i]].stamp < queue[pos[j]].stamp
    BY <2>1, <2>2 DEF IInv, Ordered
  <2> QED BY <2>2, <2>3
<1>8. Stamped'
  <2>1. ASSUME NEW i \in 1 .. Len(queue') PROVE queue'[i].stamp <= posted
    <3>1. queue[pos[i]].stamp <= posted
      BY <1>2 DEF IInv, Stamped
    <3> QED BY <1>2, <3>1
  <2>2. ASSUME NEW i \in 1 .. Len(queue'), NEW j \in 1 .. Len(queue'), i # j
        PROVE  queue'[i].stamp # queue'[j].stamp
    <3>1. queue[pos[i]].stamp # queue[pos[j]].stamp
      BY <1>2, <1>4, <2>2 DEF IInv, Stamped
    <3> QED BY <1>2, <3>1
  <2> QED BY <2>1, <2>2 DEF Stamped
<1>9. ServesHead'
  BY DEF IInv, ServesHead
<1> QED BY <1>5, <1>6, <1>7, <1>8, <1>9 DEF IInv

(* Taking events from the list keeps the invariant: the head that is being *)
(* served stays, or the server has faulted.                                *)
LEMMA PurgeKeeps ==
  ASSUME IInv, NEW q \in Seq(Event), NEW pos, Embeds(pos, q, queue), Purge(q)
  PROVE  IInv'
<1>1. CASE serving /\ (q = <<>> \/ Head(q) # Head(queue))
  <2>1. UNCHANGED <<queue, serving, frame, posted>> /\ server' = "faulted"
    BY <1>1 DEF Purge
  <2> QED BY <2>1 DEF IInv, TypeOK, NeverLate, Ordered, Stamped, ServesHead
<1>2. CASE ~(serving /\ (q = <<>> \/ Head(q) # Head(queue)))
  <2>1. queue' = q /\ UNCHANGED <<serving, frame, posted, server>>
    BY <1>2 DEF Purge
  <2>2. serving => q # <<>> /\ q[1] = queue[1]
    BY <1>2, QueueFacts DEF IInv, ServesHead
  <2> QED BY <2>1, <2>2, ThinningKeeps
<1> QED BY <1>1, <1>2

(* What Cancel, CancelOn and Clear leave is found in the list as it was. *)
LEMMA CancelThins ==
  ASSUME TypeOK, NEW gone
  PROVE  Without(queue, gone) \in Seq(Event) /\ \E pos : Embeds(pos, Without(queue, gone), queue)
<1>1. queue \in Seq(Event)
  BY DEF TypeOK
<1> QED BY <1>1, WithoutThins

(* An empty list is what clearing leaves of any. *)
LEMMA ClearThins ==
  ASSUME TypeOK
  PROVE  <<>> \in Seq(Event) /\ Embeds(<<>>, <<>>, queue)
<1>1. queue \in Seq(Event)
  BY DEF TypeOK
<1> QED BY <1>1 DEF Embeds

(* The end of a handler removes the event it served. *)
LEMMA ReturnKeeps ==
  ASSUME IInv, Return
  PROVE  IInv'
<1>1. queue \in Seq(Event) /\ queue # <<>> /\ serving
  BY DEF IInv, TypeOK, Return, ServesHead
<1>2. queue' = Tail(queue) /\ UNCHANGED <<frame, posted, server>> /\ serving' = FALSE
  BY DEF Return
<1>3. /\ queue' \in Seq(Event) /\ Len(queue') = Len(queue) - 1
      /\ \A i \in 1 .. Len(queue') : queue'[i] = queue[i + 1]
  BY <1>1, <1>2, HeadTailProperties
<1>4. /\ Len(queue) \in Nat /\ Len(queue') \in Nat
      /\ DOMAIN queue = 1 .. Len(queue) /\ DOMAIN queue' = 1 .. Len(queue')
  BY <1>1, <1>3, LenProperties
<1>5. \A i \in 1 .. Len(queue') : i + 1 \in 1 .. Len(queue)
  BY <1>3, <1>4
<1>6. TypeOK'
  BY <1>2, <1>3 DEF IInv, TypeOK
<1>7. NeverLate'
  BY <1>3, <1>4, <1>5 DEF IInv, NeverLate
<1>8. Ordered'
  <2> SUFFICES ASSUME NEW i \in 1 .. Len(queue'), NEW j \in 1 .. Len(queue'), i < j
               PROVE  \/ queue'[i].after < queue'[j].after
                      \/ queue'[i].after = queue'[j].after /\ queue'[i].stamp < queue'[j].stamp
    BY DEF Ordered
  <2>1. i + 1 < j + 1
    OBVIOUS
  <2> QED BY <1>3, <1>5, <2>1 DEF IInv, Ordered
<1>9. Stamped'
  <2>1. \A i, j \in 1 .. Len(queue') : i # j => i + 1 # j + 1
    OBVIOUS
  <2> QED BY <1>2, <1>3, <1>5, <2>1 DEF IInv, Stamped
<1>10. ServesHead'
  BY <1>2 DEF ServesHead
<1> QED BY <1>6, <1>7, <1>8, <1>9, <1>10 DEF IInv

(* When nothing is due, every event has a positive time left. *)
LEMMA NothingDue ==
  ASSUME IInv, ~Due(queue)
  PROVE  \A i \in 1 .. Len(queue) : queue[i].after > 0
<1> SUFFICES ASSUME NEW i \in 1 .. Len(queue) PROVE queue[i].after > 0
  OBVIOUS
<1>1. queue # <<>> /\ Len(queue) \in Nat /\ 1 \in 1 .. Len(queue) /\ queue[i].after \in Int
  BY QueueFacts DEF IInv, TypeOK
<1>2. Head(queue) = queue[1] /\ queue[1].after \in Int
  BY <1>1, QueueFacts DEF IInv
<1>3. queue[1].after > 0
  BY <1>1, <1>2 DEF Due
<1>4. CASE i = 1
  BY <1>3, <1>4
<1>5. CASE i > 1
  BY <1>1, <1>2, <1>3, <1>5 DEF IInv, Ordered
<1> QED BY <1>1, <1>4, <1>5

(* Nothing is due at the end of a frame, so nothing is late after it by    *)
(* more than it.                                                           *)
LEMMA EndFrameKeeps ==
  ASSUME IInv, EndFrame
  PROVE  IInv'
<1>1. /\ queue \in Seq(Event) /\ Len(queue) \in Nat /\ DOMAIN queue = 1 .. Len(queue)
      /\ \A i \in 1 .. Len(queue) : queue[i] \in Event /\ queue[i].after \in Int
  BY QueueFacts DEF IInv, TypeOK
<1>2. FrameTime \in Nat \ {0}
  BY QueueAssumption
<1>3. queue' = [i \in 1 .. Len(queue) |-> [queue[i] EXCEPT !.after = @ - FrameTime]]
  BY <1>1 DEF EndFrame, Elapse
<1>4. UNCHANGED <<serving, posted, server>> /\ frame' = "think" /\ ~serving
  BY DEF EndFrame
<1>5. \A e \in Event : [e EXCEPT !.after = @ - FrameTime] \in Event
  BY <1>2 DEF Event
<1>6. queue' \in Seq(Event) /\ Len(queue') = Len(queue) /\ DOMAIN queue' = 1 .. Len(queue)
  BY <1>1, <1>3, <1>5
<1>7. \A i \in 1 .. Len(queue) :
        queue'[i].after = queue[i].after - FrameTime /\ queue'[i].stamp = queue[i].stamp
  BY <1>1, <1>3 DEF Event
<1>8. TypeOK'
  BY <1>4, <1>6 DEF IInv, TypeOK
<1>9. NeverLate'
  <2>1. \A i \in 1 .. Len(queue) : queue[i].after > 0
    BY NothingDue DEF EndFrame
  <2> QED BY <1>1, <1>2, <1>6, <1>7, <2>1 DEF NeverLate
<1>10. Ordered'
  BY <1>1, <1>2, <1>6, <1>7 DEF IInv, Ordered
<1>11. Stamped'
  BY <1>4, <1>6, <1>7 DEF IInv, Stamped
<1>12. ServesHead'
  BY <1>4 DEF ServesHead
<1> QED BY <1>8, <1>9, <1>10, <1>11, <1>12 DEF IInv
-----------------------------------------------------------------------------
(* The invariant.                                                          *)

(* The queue starts with the invariant. *)
LEMMA InitHolds == Init => IInv
<1> SUFFICES ASSUME Init PROVE IInv
  OBVIOUS
<1>1. queue = <<>> /\ Len(queue) = 0 /\ DOMAIN queue = {} /\ ~serving
  BY DEF Init
<1>2. TypeOK
  <2>1. <<>> \in Seq(Event) /\ 0 \in 0 .. MaxEvents
    BY QueueAssumption
  <2> QED BY <2>1 DEF Init, TypeOK
<1> QED BY <1>1, <1>2 DEF IInv, NeverLate, Ordered, Stamped, ServesHead

(* Every step keeps the invariant. *)
LEMMA StepHolds == IInv /\ [Next]_vars => IInv'
<1> SUFFICES ASSUME IInv, [Next]_vars PROVE IInv'
  OBVIOUS
<1>1. ASSUME NEW t \in Entities, NEW n \in Inputs, NEW d \in Delays, NEW c \in Entities,
             Post(t, n, d, c)
      PROVE  IInv'
  BY <1>1, PostKeeps
<1>2. ASSUME NEW c \in Entities, Cancel(c) PROVE IInv'
  BY <1>2, CancelThins, PurgeKeeps DEF IInv, Cancel, CancelEvents
<1>3. ASSUME NEW t \in Entities, NEW n \in Inputs, CancelOn(t, {n}) PROVE IInv'
  BY <1>3, CancelThins, PurgeKeeps DEF IInv, CancelOn, CancelEventOn
<1>4. CASE Clear
  BY <1>4, ClearThins, PurgeKeeps DEF IInv, Clear
<1>5. CASE StartService
  BY <1>5 DEF StartService, IInv, TypeOK, NeverLate, Ordered, Stamped, ServesHead
<1>6. CASE Deliver
  <2>1. queue # <<>> /\ queue[1].after <= 0
    BY <1>6, QueueFacts DEF Deliver, Due, IInv
  <2> QED BY <1>6, <2>1 DEF Deliver, IInv, TypeOK, NeverLate, Ordered, Stamped, ServesHead
<1>7. CASE Return
  BY <1>7, ReturnKeeps
<1>8. CASE EndFrame
  BY <1>8, EndFrameKeeps
<1>9. CASE UNCHANGED vars
  BY <1>9 DEF vars, IInv, TypeOK, NeverLate, Ordered, Stamped, ServesHead
<1> QED BY <1>1, <1>2, <1>3, <1>4, <1>5, <1>6, <1>7, <1>8, <1>9 DEF Next

(* The invariant holds in every state the queue reaches. *)
THEOREM InvariantHolds == Spec => []IInv
<1> QED BY InitHolds, StepHolds, PTL DEF Spec

(* No event of CEventQueue is ever left behind by a whole frame, though    *)
(* ServiceEvents stops at the first that is not due: the list is in the    *)
(* order of time whatever the handlers post and cancel.                    *)
THEOREM NoneIsLate == Spec => []NeverLate
<1>1. IInv => NeverLate
  BY DEF IInv
<1> QED BY <1>1, InvariantHolds, PTL
-----------------------------------------------------------------------------
(* The refinement: Agenda through the entries of the list.                 *)

Entry(e) == [stamp |-> e.stamp, after |-> e.after]

Entries(q) == {Entry(q[i]) : i \in DOMAIN q}

Current == IF serving THEN Head(queue).stamp ELSE 0

(* What stays the same when neither the list nor its state changes. *)
LEMMA SameAgenda ==
  ASSUME UNCHANGED <<queue, serving, posted>>
  PROVE  UNCHANGED Served!avars
BY DEF Served!avars

(* The head is the one entry that is served. *)
LEMMA CurrentIsHead ==
  ASSUME IInv, serving
  PROVE  /\ queue # <<>> /\ 1 \in 1 .. Len(queue) /\ Current = queue[1].stamp
         /\ Current # 0 /\ \A i \in 1 .. Len(queue) : queue[i].stamp = Current <=> i = 1
<1>1. queue # <<>> /\ Len(queue) \in Nat /\ Len(queue) >= 1 /\ Head(queue) = queue[1]
  BY QueueFacts DEF IInv, ServesHead
<1>2. queue[1].stamp \in 1 .. MaxEvents
  BY <1>1, QueueFacts DEF IInv
<1> QED BY <1>1, <1>2 DEF IInv, Stamped, Current

(* The served event stays the head while events come and go behind it. *)
LEMMA SameCurrent ==
  ASSUME IInv, IInv', UNCHANGED serving, serving => queue'[1] = queue[1]
  PROVE  Current' = Current
<1>1. serving => queue # <<>> /\ queue' # <<>>
  BY DEF IInv, ServesHead
<1>2. serving => Head(queue) = queue[1] /\ Head(queue') = queue'[1]
  <2>1. TypeOK /\ TypeOK' BY DEF IInv
  <2> QED BY <1>1, <2>1 DEF TypeOK
<1> QED BY <1>2 DEF Current

(* A post is an entry in the agenda, behind those of its time. *)
LEMMA PostEnters ==
  ASSUME IInv, IInv', NEW t \in Entities, NEW n \in Inputs, NEW d \in Delays, NEW c \in Entities,
         Post(t, n, d, c)
  PROVE  Served!Enter(d)
<1> DEFINE e == [after |-> d, target |-> t, input |-> n, caller |-> c, stamp |-> posted + 1]
<1>1. d \in Nat /\ posted \in Nat /\ posted + 1 \in 1 .. MaxEvents
  BY QueueAssumption DEF IInv, TypeOK, Post
<1>2. e \in Event /\ e.after = d /\ e.stamp = posted + 1
  BY <1>1 DEF Event
<1>3. queue \in Seq(Event) /\ queue' = AddEvent(queue, e) /\ posted' = posted + 1
      /\ UNCHANGED serving
  BY DEF IInv, TypeOK, Post
<1>4. \A x \in Event : x.after \in Int
  BY DEF Event
<1> HIDE DEF e
<1>5. PICK k \in 1 .. Len(queue) + 1 : Inserted(queue', queue, e, k)
  BY <1>2, <1>3, <1>4, AddEventInserts
<1>6. /\ Len(queue) \in Nat /\ Len(queue') = Len(queue) + 1
      /\ DOMAIN queue = 1 .. Len(queue) /\ DOMAIN queue' = 1 .. Len(queue')
  BY <1>5, QueueFacts DEF IInv, Inserted
<1>7. Entries(queue') = Entries(queue) \cup {Entry(e)}
  <2>1. ASSUME NEW i \in 1 .. Len(queue')
        PROVE  Entry(queue'[i]) \in Entries(queue) \cup {Entry(e)}
    <3>1. CASE i \in 1 .. k - 1
      <4>1. i \in 1 .. Len(queue) /\ queue'[i] = queue[i]
        BY <1>5, <1>6, <3>1 DEF Inserted
      <4> QED BY <1>6, <4>1 DEF Entries
    <3>2. CASE i = k
      BY <1>5, <3>2 DEF Inserted
    <3>3. CASE i \in k + 1 .. Len(queue) + 1
      <4>1. i - 1 \in k .. Len(queue) /\ i - 1 \in 1 .. Len(queue) /\ (i - 1) + 1 = i
        BY <1>6, <3>3
      <4>2. queue'[(i - 1) + 1] = queue[i - 1]
        BY <1>5, <4>1 DEF Inserted
      <4> QED BY <1>6, <4>1, <4>2 DEF Entries
    <3> QED BY <1>6, <3>1, <3>2, <3>3
  <2>2. ASSUME NEW i \in 1 .. Len(queue) PROVE Entry(queue[i]) \in Entries(queue')
    <3>1. CASE i \in 1 .. k - 1
      <4>1. queue'[i] = queue[i] /\ i \in 1 .. Len(queue')
        BY <1>5, <1>6, <3>1 DEF Inserted
      <4> QED BY <1>6, <4>1 DEF Entries
    <3>2. CASE i \in k .. Len(queue)
      <4>1. queue'[i + 1] = queue[i] /\ i + 1 \in 1 .. Len(queue')
        BY <1>5, <1>6, <3>2 DEF Inserted
      <4> QED BY <1>6, <4>1 DEF Entries
    <3> QED BY <1>6, <3>1, <3>2
  <2>3. Entry(e) \in Entries(queue')
    <3>1. queue'[k] = e /\ k \in 1 .. Len(queue')
      BY <1>5, <1>6 DEF Inserted
    <3> QED BY <1>6, <3>1 DEF Entries
  <2> QED BY <1>6, <2>1, <2>2, <2>3 DEF Entries
<1>8. Current' = Current
  <2>1. ASSUME serving PROVE queue'[1] = queue[1]
    <3>1. queue[1].after <= 0 /\ 1 \in 1 .. Len(queue) /\ queue[1].after \in Int
      BY <2>1, CurrentIsHead, QueueFacts DEF IInv, ServesHead
    <3>2. k # 1
      BY <1>1, <1>2, <1>5, <1>6, <3>1 DEF Inserted
    <3>3. 1 \in 1 .. k - 1
      BY <1>6, <3>2
    <3> QED BY <1>5, <3>3 DEF Inserted
  <2> QED BY <1>3, <2>1, SameCurrent
<1>9. Entry(e) = [stamp |-> posted', after |-> d]
  BY <1>2, <1>3 DEF Entry
<1> QED BY <1>3, <1>7, <1>8, <1>9 DEF Served!Enter, Entries, Entry, Current

(* Taking events from the list withdraws their entries. *)
LEMMA PurgeWithdraws ==
  ASSUME IInv, IInv', NEW q \in Seq(Event), NEW pos, Embeds(pos, q, queue), Purge(q)
  PROVE  (\E xs \in SUBSET Entries(queue) : Served!Withdraw(xs)) \/ UNCHANGED Served!avars
<1>1. CASE serving /\ (q = <<>> \/ Head(q) # Head(queue))
  <2>1. UNCHANGED <<queue, serving, posted>>
    BY <1>1 DEF Purge
  <2> QED BY <2>1, SameAgenda
<1>2. CASE ~(serving /\ (q = <<>> \/ Head(q) # Head(queue)))
  <2>1. queue' = q /\ UNCHANGED <<serving, posted>>
    BY <1>2 DEF Purge
  <2>2. serving => q # <<>> /\ q[1] = queue[1]
    BY <1>2, QueueFacts DEF IInv, ServesHead
  <2>3. Current' = Current
    BY <2>1, <2>2, SameCurrent
  <2>4. DOMAIN queue = 1 .. Len(queue) /\ DOMAIN q = 1 .. Len(q) /\ Len(q) \in Nat
    BY QueueFacts DEF IInv
  <2>5. Entries(q) \subseteq Entries(queue)
    <3>1. \A i \in 1 .. Len(q) : pos[i] \in 1 .. Len(queue) /\ queue[pos[i]] = q[i]
      BY DEF Embeds
    <3> QED BY <2>4, <3>1 DEF Entries
  <2>0. PICK xs : xs = Entries(queue) \ Entries(q)
    OBVIOUS
  <2>6. xs \in SUBSET Entries(queue) /\ Entries(queue') = Entries(queue) \ xs
    BY <2>0, <2>1, <2>5
  <2>7. \A x \in xs : x.stamp # Current
    <3> SUFFICES ASSUME NEW x \in xs, x.stamp = Current PROVE FALSE
      OBVIOUS
    <3>0. PICK i \in 1 .. Len(queue) : x = Entry(queue[i]) /\ queue[i].stamp = Current
      BY <2>0, <2>4 DEF Entries, Entry
    <3>1. queue[i].stamp # 0
      BY QueueFacts DEF IInv
    <3>2. serving
      BY <3>0, <3>1 DEF Current
    <3>3. i = 1 /\ 1 \in 1 .. Len(q)
      BY <2>2, <2>4, <3>0, <3>2, CurrentIsHead
    <3>4. x \in Entries(q)
      BY <2>2, <2>4, <3>0, <3>2, <3>3 DEF Entries
    <3> QED BY <2>0, <3>4
  <2>8. Served!Withdraw(xs)
    BY <2>1, <2>3, <2>6, <2>7 DEF Served!Withdraw, Entries, Entry, Current
  <2> QED BY <2>6, <2>8
<1> QED BY <1>1, <1>2

(* Serving the head serves the entry that is first in time and stamp. *)
LEMMA DeliverServes ==
  ASSUME IInv, Deliver
  PROVE  \E x \in Entries(queue) : Served!Serve(x)
<1>1. queue # <<>> /\ Head(queue).after <= 0 /\ ~serving /\ serving' = TRUE
      /\ UNCHANGED <<queue, posted>>
  BY DEF Deliver, Due
<1>2. /\ DOMAIN queue = 1 .. Len(queue) /\ Len(queue) \in Nat /\ 1 \in 1 .. Len(queue)
      /\ Head(queue) = queue[1]
      /\ \A i \in 1 .. Len(queue) : queue[i].after \in Int /\ queue[i].stamp \in Int
  BY <1>1, QueueFacts DEF IInv
<1> DEFINE x == Entry(queue[1])
<1>3. x \in Entries(queue) /\ x.after = queue[1].after /\ x.stamp = queue[1].stamp
  BY <1>2 DEF Entries, Entry
<1>4. \A y \in Entries(queue) \ {x} : Served!Precedes(x, y)
  <2> SUFFICES ASSUME NEW i \in 1 .. Len(queue), i # 1 PROVE Served!Precedes(x, Entry(queue[i]))
    BY <1>2 DEF Entries
  <2>1. \/ queue[1].after < queue[i].after
        \/ queue[1].after = queue[i].after /\ queue[1].stamp < queue[i].stamp
    BY <1>2 DEF IInv, Ordered
  <2> QED BY <2>1 DEF Entry, Served!Precedes
<1>5. Current = 0 /\ Current' = x.stamp
  BY <1>1, <1>2, <1>3 DEF Current
<1>6. Served!Serve(x)
  BY <1>1, <1>2, <1>3, <1>4, <1>5 DEF Served!Serve, Current, Entries, Entry
<1> QED BY <1>3, <1>6

(* Returning from the handler is the end of the entry it served. *)
LEMMA ReturnIsDone ==
  ASSUME IInv, Return
  PROVE  Served!Done
<1>1. serving /\ queue' = Tail(queue) /\ serving' = FALSE /\ UNCHANGED posted
  BY DEF Return
<1>2. queue \in Seq(Event) /\ queue # <<>>
  BY <1>1 DEF IInv, TypeOK, ServesHead
<1>3. /\ queue' \in Seq(Event) /\ Len(queue') = Len(queue) - 1
      /\ \A i \in 1 .. Len(queue') : queue'[i] = queue[i + 1]
  BY <1>1, <1>2, HeadTailProperties
<1>4. /\ Len(queue) \in Nat /\ Len(queue') \in Nat
      /\ DOMAIN queue = 1 .. Len(queue) /\ DOMAIN queue' = 1 .. Len(queue')
  BY <1>2, <1>3, LenProperties
<1>5. Entries(queue') = {x \in Entries(queue) : x.stamp # Current}
  <2>1. ASSUME NEW i \in 1 .. Len(queue')
        PROVE  Entry(queue'[i]) \in Entries(queue) /\ Entry(queue'[i]).stamp # Current
    <3>1. i + 1 \in 1 .. Len(queue) /\ i + 1 # 1
      BY <1>3, <1>4
    <3>2. queue[i + 1].stamp # Current
      BY <1>1, <3>1, CurrentIsHead
    <3> QED BY <1>3, <1>4, <3>1, <3>2 DEF Entries, Entry
  <2>2. ASSUME NEW i \in 1 .. Len(queue), Entry(queue[i]).stamp # Current
        PROVE  Entry(queue[i]) \in Entries(queue')
    <3>1. i # 1
      BY <1>1, <2>2, CurrentIsHead DEF Entry
    <3>2. i - 1 \in 1 .. Len(queue') /\ (i - 1) + 1 = i
      BY <1>3, <1>4, <3>1
    <3>3. queue'[i - 1] = queue[i]
      BY <1>3, <3>2
    <3> QED BY <1>4, <3>2, <3>3 DEF Entries
  <2> QED BY <1>4, <2>1, <2>2 DEF Entries
<1>6. Current # 0 /\ Current' = 0
  BY <1>1, CurrentIsHead DEF Current
<1> QED BY <1>1, <1>5, <1>6 DEF Served!Done, Entries, Entry, Current

(* The end of a frame moves the agenda on by a tick. *)
LEMMA EndFrameIsNext ==
  ASSUME IInv, EndFrame
  PROVE  Served!NextFrame
<1>1. /\ Len(queue) \in Nat /\ DOMAIN queue = 1 .. Len(queue)
      /\ \A i \in 1 .. Len(queue) : queue[i] \in Event
  BY QueueFacts DEF IInv
<1>2. queue' = [i \in 1 .. Len(queue) |-> [queue[i] EXCEPT !.after = @ - FrameTime]]
  BY <1>1 DEF EndFrame, Elapse
<1>3. ~serving /\ UNCHANGED <<serving, posted>>
  BY DEF EndFrame
<1>4. \A x \in Entries(queue) : x.after > 0
  BY <1>1, NothingDue DEF EndFrame, Entries, Entry
<1>5. DOMAIN queue' = 1 .. Len(queue)
  BY <1>2
<1>6. \A i \in 1 .. Len(queue) :
        Entry(queue'[i]) = [Entry(queue[i]) EXCEPT !.after = @ - FrameTime]
  BY <1>1, <1>2 DEF Event, Entry
<1>7. Entries(queue') = {[x EXCEPT !.after = @ - FrameTime] : x \in Entries(queue)}
  BY <1>1, <1>5, <1>6 DEF Entries
<1>8. Current = 0 /\ Current' = 0
  BY <1>3 DEF Current
<1> QED BY <1>3, <1>4, <1>7, <1>8 DEF Served!NextFrame, Entries, Entry, Current

(* The queue starts as an empty agenda. *)
LEMMA InitMaps == Init => Served!Init
<1> SUFFICES ASSUME Init PROVE Served!Init
  OBVIOUS
<1>1. DOMAIN queue = {} /\ ~serving /\ posted = 0
  BY DEF Init
<1> QED BY <1>1 DEF Served!Init

(* Every step of the queue is a step of the agenda, or none. *)
LEMMA StepMaps == IInv /\ IInv' /\ [Next]_vars => [Served!Next]_Served!avars
<1> SUFFICES ASSUME IInv, IInv', [Next]_vars PROVE Served!Next \/ UNCHANGED Served!avars
  OBVIOUS
<1>0. ASSUME NEW xs \in SUBSET Entries(queue), Served!Withdraw(xs) PROVE Served!Next
  BY <1>0 DEF Served!Next, Entries, Entry
<1>1. ASSUME NEW t \in Entities, NEW n \in Inputs, NEW d \in Delays, NEW c \in Entities,
             Post(t, n, d, c)
      PROVE  Served!Next
  BY <1>1, PostEnters DEF Served!Next
<1>2. ASSUME NEW c \in Entities, Cancel(c) PROVE Served!Next \/ UNCHANGED Served!avars
  BY <1>0, <1>2, CancelThins, PurgeWithdraws DEF IInv, Cancel, CancelEvents
<1>3. ASSUME NEW t \in Entities, NEW n \in Inputs, CancelOn(t, {n})
      PROVE  Served!Next \/ UNCHANGED Served!avars
  BY <1>0, <1>3, CancelThins, PurgeWithdraws DEF IInv, CancelOn, CancelEventOn
<1>4. CASE Clear
  BY <1>0, <1>4, ClearThins, PurgeWithdraws DEF IInv, Clear
<1>5. CASE StartService
  BY <1>5, SameAgenda DEF StartService
<1>6. CASE Deliver
  BY <1>6, DeliverServes DEF Served!Next, Entries, Entry
<1>7. CASE Return
  BY <1>7, ReturnIsDone DEF Served!Next
<1>8. CASE EndFrame
  BY <1>8, EndFrameIsNext DEF Served!Next
<1>9. CASE UNCHANGED vars
  BY <1>9, SameAgenda DEF vars
<1> QED BY <1>1, <1>2, <1>3, <1>4, <1>5, <1>6, <1>7, <1>8, <1>9 DEF Next

(* The queue implements Agenda: of the events that are due the earliest is *)
(* served first, and of several of one time the one posted first, each     *)
(* once, in the first frame that is not before its time.                   *)
THEOREM AgendaImplemented == Spec => ImplementsAgenda
<1> QED BY InvariantHolds, InitMaps, StepMaps, PTL DEF Spec, ImplementsAgenda, Served!Spec
=============================================================================
