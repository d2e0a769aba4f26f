-------------------------- MODULE LogicRelayProofs --------------------------
(***************************************************************************)
(* Theorems about LogicRelay: a waiting relay has the one event that ends  *)
(* its wait in the queue, and a relay that may be triggered has none of    *)
(* its outputs in the queue, for any map, any wiring and any number of     *)
(* posted inputs.                                                          *)
(***************************************************************************)
EXTENDS LogicRelay, EventListProofs, FiniteSetTheorems

IsRefire(e, r) == e.input = "EnableRefire" /\ e.target = r
IsFired(e, r)  == e.caller = r /\ e.output = "OnTrigger"

(* No event of the list releases r; exactly one does. *)
Released(q, r) == \A i \in 1 .. Len(q) : ~IsRefire(q[i], r)
Awaited(q, r)  ==
  \E i \in 1 .. Len(q) : IsRefire(q[i], r) /\ \A j \in 1 .. Len(q) : IsRefire(q[j], r) => j = i

(* No output of r is in the list; those that are come before its release. *)
Quiet(q, r)  == \A i \in 1 .. Len(q) : ~IsFired(q[i], r)
InTime(q, r) ==
  \A i, j \in 1 .. Len(q) : IsFired(q[i], r) /\ IsRefire(q[j], r) => i < j

(* Only a relay releases itself. *)
OwnRefires(q) == \A i \in 1 .. Len(q) : q[i].input = "EnableRefire" => q[i].caller = q[i].target

WaitsRightly(s, q, r) ==
  s.alive => (s.waiting => Awaited(q, r)) /\ (~s.waiting => Released(q, r))

WaitInv ==
  /\ TypeOK
  /\ OwnRefires(queue)
  /\ \A r \in Relays : relay[r].think => relay[r].alive
  /\ \A r \in Relays : WaitsRightly(relay[r], queue, r)

(* An action with a delay is on the list for good, or one that is has no   *)
(* smaller delay: the longest delay does not leave the list.               *)
Lasting(actions) ==
  \A i \in 1 .. Len(actions) :
    actions[i].delay > 0 =>
      \E j \in 1 .. Len(actions) :
        actions[j].times = Always /\ actions[j].delay >= actions[i].delay

(* The relays that post their own release. *)
Waits(r) == ~HasFlag(r, "REMOVE_ON_FIRE") /\ ~HasFlag(r, "FAST_RETRIGGER")

LongestLasts == \A r \in Relays : Waits(r) => Lasting(OnTrigger[r])

FiresRightly(s, q, r) ==
  s.alive /\ ~HasFlag(r, "FAST_RETRIGGER") => InTime(q, r) /\ (~s.waiting => Quiet(q, r))

LastInv ==
  /\ Sorted(queue)
  /\ \A r \in Relays : Waits(r) => Lasting(relay[r].trigger)
  /\ \A r \in Relays : FiresRightly(relay[r], queue, r)

-----------------------------------------------------------------------------
(* What thinning and extending the queue do to the events of a relay.      *)

(* Taking events away, none of them a release of r. *)
LEMMA ThinnedWaits ==
  ASSUME NEW q, NEW t, NEW gone, NEW r, Thinned(q, t, gone), \A e \in gone : ~IsRefire(e, r)
  PROVE  (Awaited(q, r) => Awaited(t, r)) /\ (Released(q, r) => Released(t, r))
<1>1. PICK pos : /\ Embeds(pos, t, q)
                 /\ \A j \in 1 .. Len(q) : q[j] \in gone \/ Meets(pos, t, j)
  BY DEF Thinned
<1>2. /\ pos \in [1 .. Len(t) -> 1 .. Len(q)]
      /\ \A i, j \in 1 .. Len(t) : i < j => pos[i] < pos[j]
      /\ \A i \in 1 .. Len(t) : t[i] = q[pos[i]]
  BY <1>1 DEF Embeds
<1>3. ASSUME Released(q, r) PROVE Released(t, r)
  BY <1>2, <1>3 DEF Released
<1>4. ASSUME Awaited(q, r) PROVE Awaited(t, r)
  <2>1. PICK i \in 1 .. Len(q) : IsRefire(q[i], r) /\ \A j \in 1 .. Len(q) : IsRefire(q[j], r) => j = i
    BY <1>4 DEF Awaited
  <2>2. PICK x \in 1 .. Len(t) : pos[x] = i
    BY <1>1, <2>1 DEF Meets
  <2>3. IsRefire(t[x], r)
    BY <1>2, <2>1, <2>2
  <2>4. ASSUME NEW y \in 1 .. Len(t), IsRefire(t[y], r) PROVE y = x
    <3>1. pos[y] = pos[x]
      BY <1>2, <2>1, <2>2, <2>4
    <3>2. pos[x] \in Int /\ x \in Int /\ y \in Int
      BY <1>2
    <3>3. ~(x < y) /\ ~(y < x)
      BY <1>2, <3>1, <3>2
    <3> QED BY <3>2, <3>3
  <2> QED BY <2>3, <2>4 DEF Awaited
<1> QED BY <1>3, <1>4

(* Taking any events away. *)
LEMMA ThinnedFires ==
  ASSUME NEW q, NEW t, NEW gone, NEW r, Thinned(q, t, gone)
  PROVE  /\ Released(q, r) => Released(t, r)
         /\ Quiet(q, r) => Quiet(t, r)
         /\ InTime(q, r) => InTime(t, r)
         /\ OwnRefires(q) => OwnRefires(t)
<1>1. PICK pos : Embeds(pos, t, q)
  BY DEF Thinned
<1>2. /\ pos \in [1 .. Len(t) -> 1 .. Len(q)]
      /\ \A i, j \in 1 .. Len(t) : i < j => pos[i] < pos[j]
      /\ \A i \in 1 .. Len(t) : t[i] = q[pos[i]]
  BY <1>1 DEF Embeds
<1>3. ASSUME Released(q, r) PROVE Released(t, r)
  BY <1>2, <1>3 DEF Released
<1>4. ASSUME Quiet(q, r) PROVE Quiet(t, r)
  BY <1>2, <1>4 DEF Quiet
<1>5. ASSUME InTime(q, r) PROVE InTime(t, r)
  <2> SUFFICES ASSUME NEW i \in 1 .. Len(t), NEW j \in 1 .. Len(t),
                      IsFired(t[i], r), IsRefire(t[j], r)
               PROVE  i < j
    BY DEF InTime
  <2>1. pos[i] \in 1 .. Len(q) /\ pos[j] \in 1 .. Len(q) /\ i \in Int /\ j \in Int
    BY <1>2
  <2>2. pos[i] < pos[j]
    BY <1>2, <1>5, <2>1 DEF InTime
  <2>3. ~(j < i) /\ i # j
    BY <1>2, <2>1, <2>2
  <2> QED BY <2>1, <2>3
<1>6. ASSUME OwnRefires(q) PROVE OwnRefires(t)
  BY <1>2, <1>6 DEF OwnRefires
<1> QED BY <1>3, <1>4, <1>5, <1>6

(* Adding events, none of them a release of r. *)
LEMMA ExtendedWaits ==
  ASSUME NEW q, NEW t, NEW new, NEW r, Extended(q, t, new), \A e \in new : ~IsRefire(e, r)
  PROVE  (Awaited(q, r) => Awaited(t, r)) /\ (Released(q, r) => Released(t, r))
<1>1. PICK pos : /\ Embeds(pos, q, t)
                 /\ \A j \in 1 .. Len(t) : t[j] \in new \/ Meets(pos, q, j)
  BY DEF Extended
<1>2. /\ pos \in [1 .. Len(q) -> 1 .. Len(t)]
      /\ \A i \in 1 .. Len(q) : t[pos[i]] = q[i]
  BY <1>1 DEF Embeds
<1>3. ASSUME NEW j \in 1 .. Len(t), IsRefire(t[j], r)
      PROVE  \E i \in 1 .. Len(q) : pos[i] = j /\ IsRefire(q[i], r)
  BY <1>1, <1>2, <1>3 DEF Meets
<1>4. ASSUME Released(q, r) PROVE Released(t, r)
  BY <1>3, <1>4 DEF Released
<1>5. ASSUME Awaited(q, r) PROVE Awaited(t, r)
  <2>1. PICK i \in 1 .. Len(q) : IsRefire(q[i], r) /\ \A j \in 1 .. Len(q) : IsRefire(q[j], r) => j = i
    BY <1>5 DEF Awaited
  <2>2. pos[i] \in 1 .. Len(t) /\ IsRefire(t[pos[i]], r)
    BY <1>2, <2>1
  <2>3. \A j \in 1 .. Len(t) : IsRefire(t[j], r) => j = pos[i]
    BY <1>3, <2>1
  <2> QED BY <2>2, <2>3 DEF Awaited
<1> QED BY <1>4, <1>5

(* Adding events, none of them an output of r. *)
LEMMA ExtendedFires ==
  ASSUME NEW q, NEW t, NEW new, NEW r, Extended(q, t, new), \A e \in new : ~IsFired(e, r)
  PROVE  /\ Quiet(q, r) => Quiet(t, r)
         /\ InTime(q, r) /\ (\A e \in new : ~IsRefire(e, r)) => InTime(t, r)
<1>1. PICK pos : /\ Embeds(pos, q, t)
                 /\ \A j \in 1 .. Len(t) : t[j] \in new \/ Meets(pos, q, j)
  BY DEF Extended
<1>2. /\ pos \in [1 .. Len(q) -> 1 .. Len(t)]
      /\ \A i, j \in 1 .. Len(q) : i < j => pos[i] < pos[j]
      /\ \A i \in 1 .. Len(q) : t[pos[i]] = q[i]
  BY <1>1 DEF Embeds
<1>3. ASSUME NEW j \in 1 .. Len(t), IsFired(t[j], r)
      PROVE  \E i \in 1 .. Len(q) : pos[i] = j /\ IsFired(q[i], r)
  BY <1>1, <1>2, <1>3 DEF Meets
<1>4. ASSUME Quiet(q, r) PROVE Quiet(t, r)
  BY <1>3, <1>4 DEF Quiet
<1>5. ASSUME InTime(q, r), \A e \in new : ~IsRefire(e, r) PROVE InTime(t, r)
  <2> SUFFICES ASSUME NEW a \in 1 .. Len(t), NEW b \in 1 .. Len(t),
                      IsFired(t[a], r), IsRefire(t[b], r)
               PROVE  a < b
    BY DEF InTime
  <2>1. PICK i \in 1 .. Len(q) : pos[i] = a /\ IsFired(q[i], r)
    BY <1>3
  <2>2. PICK j \in 1 .. Len(q) : pos[j] = b /\ IsRefire(q[j], r)
    BY <1>1, <1>2, <1>5 DEF Meets
  <2>3. i < j
    BY <1>5, <2>1, <2>2 DEF InTime
  <2> QED BY <1>2, <2>1, <2>2, <2>3
<1> QED BY <1>4, <1>5

(* Added events keep the releases of others to themselves. *)
LEMMA ExtendedOwn ==
  ASSUME NEW q, NEW t, NEW new, Extended(q, t, new), OwnRefires(q),
         \A e \in new : e.input = "EnableRefire" => e.caller = e.target
  PROVE  OwnRefires(t)
<1>1. PICK pos : /\ Embeds(pos, q, t)
                 /\ \A j \in 1 .. Len(t) : t[j] \in new \/ Meets(pos, q, j)
  BY DEF Extended
<1>2. \A i \in 1 .. Len(q) : t[pos[i]] = q[i]
  BY <1>1 DEF Embeds
<1> QED BY <1>1, <1>2 DEF Meets, OwnRefires

(* The head that releases r is the last event that does, and nothing of r  *)
(* is behind it.                                                           *)
LEMMA HeadReleases ==
  ASSUME NEW q \in Seq(EventSet), NEW r, q # <<>>, IsRefire(q[1], r)
  PROVE  /\ Awaited(q, r) => Released(Tail(q), r)
         /\ InTime(q, r) => Quiet(Tail(q), r)
<1>1. /\ Len(q) \in Nat /\ 1 \in 1 .. Len(q)
      /\ \A i \in 1 .. Len(Tail(q)) : i + 1 \in 1 .. Len(q) /\ Tail(q)[i] = q[i + 1]
  <2>1. Len(q) \in Nat /\ 1 \in 1 .. Len(q)
    OBVIOUS
  <2>2. Len(Tail(q)) = Len(q) - 1 /\ \A i \in 1 .. Len(Tail(q)) : Tail(q)[i] = q[i + 1]
    BY TailThins
  <2> QED BY <2>1, <2>2
<1>2. ASSUME Awaited(q, r), NEW i \in 1 .. Len(Tail(q)), IsRefire(Tail(q)[i], r) PROVE FALSE
  <2>1. PICK k \in 1 .. Len(q) : \A j \in 1 .. Len(q) : IsRefire(q[j], r) => j = k
    BY <1>2 DEF Awaited
  <2>2. IsRefire(q[i + 1], r) /\ i + 1 # 1 /\ i + 1 \in 1 .. Len(q)
    BY <1>1, <1>2
  <2> QED BY <1>1, <2>1, <2>2
<1>3. ASSUME InTime(q, r), NEW i \in 1 .. Len(Tail(q)), IsFired(Tail(q)[i], r) PROVE FALSE
  <2>1. IsFired(q[i + 1], r) /\ ~(i + 1 < 1) /\ i + 1 \in 1 .. Len(q)
    BY <1>1, <1>3
  <2> QED BY <1>1, <1>3, <2>1 DEF InTime
<1> QED BY <1>2, <1>3 DEF Released, Quiet
-----------------------------------------------------------------------------
(* The lists of actions.                                                   *)

(* The fields of an action list. *)
LEMMA ActionFacts ==
  ASSUME NEW actions \in Seq(Action)
  PROVE  /\ Len(actions) \in Nat /\ DOMAIN actions = 1 .. Len(actions)
         /\ \A i \in 1 .. Len(actions) :
              /\ actions[i] \in Action /\ actions[i].delay \in Nat
              /\ actions[i].target \in Relays \cup Others /\ actions[i].input \in Inputs
<1>1. /\ Len(actions) \in Nat /\ DOMAIN actions = 1 .. Len(actions)
      /\ \A i \in 1 .. Len(actions) : actions[i] \in Action
  OBVIOUS
<1>2. \A a \in Action : a.delay \in Nat /\ a.target \in Relays \cup Others /\ a.input \in Inputs
  BY DEF Action
<1> QED BY <1>1, <1>2

(* There is a longest delay, and it is no shorter than the others. *)
LEMMA MaxDelay ==
  ASSUME NEW actions \in Seq(Action)
  PROVE  /\ GetMaxDelay(actions) \in Nat
         /\ \A i \in 1 .. Len(actions) : actions[i].delay <= GetMaxDelay(actions)
<1> DEFINE n == Len(actions)
           D(k) == {0} \cup {actions[i].delay : i \in 1 .. k}
           T == {k \in 0 .. n : \E m \in D(k) : \A x \in D(k) : x <= m}
<1>1. n \in Nat /\ DOMAIN actions = 1 .. n /\ \A i \in 1 .. n : actions[i].delay \in Nat
  BY ActionFacts
<1>2. 0 \in T
  <2>1. D(0) = {0} OBVIOUS
  <2>2. \E m \in D(0) : \A x \in D(0) : x <= m
    <3>1. 0 \in D(0) /\ \A x \in D(0) : x <= 0
      BY <2>1
    <3> QED BY <3>1
  <2> HIDE DEF D
  <2> QED BY <1>1, <2>2
<1>3. ASSUME NEW k \in 1 .. n, k - 1 \in T PROVE k \in T
  <2>1. PICK m \in D(k - 1) : \A x \in D(k - 1) : x <= m
    BY <1>3
  <2>2. D(k) = D(k - 1) \cup {actions[k].delay} /\ D(k) \subseteq Nat
    <3>1. \A i : i \in 1 .. k <=> i \in 1 .. k - 1 \/ i = k
      BY <1>1
    <3>2. \A i \in 1 .. k : actions[i].delay \in Nat
      BY <1>1
    <3> QED BY <3>1, <3>2
  <2> HIDE DEF D
  <2>3. CASE actions[k].delay <= m
    BY <2>1, <2>2, <2>3
  <2>4. CASE ~(actions[k].delay <= m)
    <3>1. actions[k].delay \in D(k) /\ \A x \in D(k) : x <= actions[k].delay
      BY <2>1, <2>2, <2>4
    <3> QED BY <3>1
  <2> QED BY <2>3, <2>4
<1>4. n \in T
  <2>1. \A k \in 0 .. n : k \in T
    <3> HIDE DEF T, n
    <3> QED BY <1>1, <1>2, <1>3, UpTo
  <2> HIDE DEF T
  <2> QED BY <1>1, <2>1
<1>5. GetMaxDelay(actions) \in D(n) /\ \A x \in D(n) : GetMaxDelay(actions) >= x
  <2>1. GetMaxDelay(actions) = CHOOSE m \in D(n) : \A x \in D(n) : m >= x
    BY <1>1 DEF GetMaxDelay, Max
  <2>2. \E m \in D(n) : \A x \in D(n) : m >= x
    <3>1. D(n) \subseteq Nat BY <1>1
    <3>2. PICK m \in D(n) : \A x \in D(n) : x <= m
      BY <1>4
    <3> HIDE DEF D
    <3> QED BY <3>1, <3>2
  <2> HIDE DEF D
  <2> QED BY <2>1, <2>2
<1> QED
  <2> HIDE DEF GetMaxDelay
  <2> QED BY <1>1, <1>5

(* The actions that are left are actions, and those that fire always are   *)
(* among them.                                                             *)
LEMMA SpendKeeps ==
  ASSUME NEW actions \in Seq(Action)
  PROVE  /\ Spend(actions) \in Seq(Action)
         /\ \A j \in 1 .. Len(actions) : actions[j].times = Always =>
              \E i \in 1 .. Len(Spend(actions)) :
                Spend(actions)[i].times = Always /\ Spend(actions)[i].delay = actions[j].delay
         /\ \A i \in 1 .. Len(Spend(actions)) :
              \E j \in 1 .. Len(actions) : actions[j].delay = Spend(actions)[i].delay
<1> DEFINE gone == {a \in ToSet(actions) : a.times = 1}
           kept == Without(actions, gone)
           once(a) == IF a.times = Always THEN a ELSE [a EXCEPT !.times = @ - 1]
           left == [i \in DOMAIN kept |-> once(kept[i])]
<1>1. Spend(actions) = left
  BY DEF Spend
<1>2. kept \in Seq(Action) /\ \A i \in 1 .. Len(kept) : kept[i] \notin gone
  <2> HIDE DEF gone
  <2> QED BY WithoutThins
<1>3. PICK pos : /\ Embeds(pos, kept, actions)
                 /\ \A j \in 1 .. Len(actions) : actions[j] \in gone \/ Meets(pos, kept, j)
  <2> HIDE DEF gone
  <2> QED BY WithoutThins
<1> HIDE DEF kept
<1>4. \A i \in 1 .. Len(kept) : pos[i] \in 1 .. Len(actions) /\ kept[i] = actions[pos[i]]
  BY <1>3 DEF Embeds
<1>5. \A i \in 1 .. Len(kept) : kept[i] \in Action /\ kept[i].times # 1
  <2>1. \A i \in 1 .. Len(kept) : kept[i] \in ToSet(actions)
    BY <1>4 DEF ToSet
  <2> QED BY <1>2, <2>1
<1>6. \A a \in Action : a.times # 1 => once(a) \in Action /\ once(a).delay = a.delay
  <2> SUFFICES ASSUME NEW a \in Action, a.times # 1
               PROVE  once(a) \in Action /\ once(a).delay = a.delay
    OBVIOUS
  <2>1. CASE a.times = Always
    BY <2>1
  <2>2. CASE a.times # Always
    <3>1. a.times \in Nat \ {0} /\ a.times - 1 \in Nat \ {0}
      BY <2>2 DEF Action
    <3>2. once(a) = [a EXCEPT !.times = a.times - 1]
      BY <2>2
    <3> QED BY <3>1, <3>2 DEF Action
  <2> QED BY <2>1, <2>2
<1>7. \A a : a.times = Always => once(a) = a
  OBVIOUS
<1> HIDE DEF once
<1>8. /\ Len(kept) \in Nat /\ DOMAIN kept = 1 .. Len(kept) /\ Len(left) = Len(kept)
      /\ \A i \in 1 .. Len(kept) : left[i] = once(kept[i])
      /\ left \in Seq(Action)
  <2>1. Len(kept) \in Nat /\ DOMAIN kept = 1 .. Len(kept)
    BY <1>2
  <2>2. left \in [1 .. Len(kept) -> Action]
    BY <1>5, <1>6, <2>1
  <2> QED BY <2>1, <2>2
<1> HIDE DEF left
<1>9. ASSUME NEW j \in 1 .. Len(actions), actions[j].times = Always
      PROVE  \E i \in 1 .. Len(left) : left[i].times = Always /\ left[i].delay = actions[j].delay
  <2>1. actions[j] \notin gone
    BY <1>9 DEF Always
  <2>2. PICK i \in 1 .. Len(kept) : pos[i] = j
    BY <1>3, <2>1 DEF Meets
  <2>3. left[i] = actions[j]
    BY <1>4, <1>7, <1>8, <1>9, <2>2
  <2> QED BY <1>8, <1>9, <2>2, <2>3
<1>10. ASSUME NEW i \in 1 .. Len(left)
       PROVE  \E j \in 1 .. Len(actions) : actions[j].delay = left[i].delay
  BY <1>4, <1>5, <1>6, <1>8
<1> QED BY <1>1, <1>8, <1>9, <1>10

(* A list whose longest delay lasts still has it when the output has been  *)
(* fired: the release is posted no earlier than the outputs.               *)
LEMMA LongestStays ==
  ASSUME NEW actions \in Seq(Action), Lasting(actions)
  PROVE  /\ Lasting(Spend(actions))
         /\ \A i \in 1 .. Len(actions) : actions[i].delay <= GetMaxDelay(Spend(actions))
<1> DEFINE left == Spend(actions)
<1>1. /\ left \in Seq(Action) /\ Len(left) \in Nat
      /\ \A j \in 1 .. Len(actions) : actions[j].times = Always =>
           \E i \in 1 .. Len(left) : left[i].times = Always /\ left[i].delay = actions[j].delay
      /\ \A i \in 1 .. Len(left) : \E j \in 1 .. Len(actions) : actions[j].delay = left[i].delay
  BY SpendKeeps
<1> HIDE DEF left
<1>2. \A i \in 1 .. Len(actions) : actions[i].delay > 0 =>
        \E x \in 1 .. Len(left) : left[x].times = Always /\ left[x].delay >= actions[i].delay
  <2> SUFFICES ASSUME NEW i \in 1 .. Len(actions), actions[i].delay > 0
               PROVE  \E x \in 1 .. Len(left) :
                        left[x].times = Always /\ left[x].delay >= actions[i].delay
    OBVIOUS
  <2>1. PICK j \in 1 .. Len(actions) :
          actions[j].times = Always /\ actions[j].delay >= actions[i].delay
    BY DEF Lasting
  <2> QED BY <1>1, <2>1
<1>3. Lasting(left)
  BY <1>1, <1>2 DEF Lasting
<1>4. ASSUME NEW i \in 1 .. Len(actions) PROVE actions[i].delay <= GetMaxDelay(left)
  <2>1. GetMaxDelay(left) \in Nat /\ \A x \in 1 .. Len(left) : left[x].delay <= GetMaxDelay(left)
    BY <1>1, MaxDelay
  <2>2. actions[i].delay \in Nat /\ \A x \in 1 .. Len(left) : left[x].delay \in Nat
    BY <1>1, ActionFacts
  <2>3. CASE actions[i].delay > 0
    BY <1>2, <2>1, <2>2, <2>3
  <2>4. CASE ~(actions[i].delay > 0)
    BY <2>1, <2>2, <2>4
  <2> QED BY <2>3, <2>4
<1> QED BY <1>3, <1>4 DEF left
-----------------------------------------------------------------------------
(* What the handlers do to the queue.                                      *)

(* The fields of an event. *)
LEMMA EventFacts ==
  /\ \A x \in EventSet : x.after \in Int
  /\ \A x \in EventSet : x.target \in Relays \cup Others /\ x.input \in Inputs \cup {"EnableRefire"}
BY DEF EventSet

(* The event that is built has the fields it is given. *)
LEMMA EventIs ==
  ASSUME NEW target \in Relays \cup Others, NEW input \in Inputs \cup {"EnableRefire"},
         NEW delay \in Nat, NEW caller \in Relays \cup Others,
         NEW output \in {"OnTrigger", "OnSpawn", "other", "none"},
         NEW e, e = Event(target, input, delay, caller, output)
  PROVE  /\ e \in EventSet
         /\ e.target = target /\ e.input = input /\ e.after = delay
         /\ e.caller = caller /\ e.output = output
BY DEF EventSet, Event

(* No action of an output's list releases a relay. *)
LEMMA InputsAreNoRefire == "EnableRefire" \notin Inputs
BY DEF Inputs

(* t is q with events that r calls for, at delays of the actions, none of *)
(* which releases a relay.                                                 *)
FiredInto(q, t, actions, r, output) ==
  \E new :
    /\ Extended(q, t, new) /\ HeadStays(q, t, new)
    /\ \A e \in new :
         /\ e.input # "EnableRefire" /\ e.caller = r /\ e.output = output
         /\ \E i \in 1 .. Len(actions) : e.after = actions[i].delay

(* Firing an output does that. *)
LEMMA FireOutputExtends ==
  ASSUME NEW q \in Seq(EventSet), NEW actions \in Seq(Action), NEW r \in Relays,
         NEW output \in {"OnTrigger", "OnSpawn"}, NEW t, t = FireOutput(q, actions, r, output)
  PROVE  t \in Seq(EventSet) /\ (Sorted(q) => Sorted(t)) /\ FiredInto(q, t, actions, r, output)
<1> DEFINE n == Len(actions)
           fired(a) == Event(a.target, a.input, a.delay, r, output)
           events == [i \in DOMAIN actions |-> fired(actions[i])]
           new == {fired(actions[i]) : i \in 1 .. n}
<1>1. t = AddEvents(q, events)
  BY DEF FireOutput
<1>2. /\ n \in Nat /\ DOMAIN actions = 1 .. n
      /\ \A i \in 1 .. n : /\ actions[i].delay \in Nat /\ actions[i].input \in Inputs
                           /\ actions[i].target \in Relays \cup Others
  BY ActionFacts
<1>3. ASSUME NEW i \in 1 .. n
      PROVE  /\ fired(actions[i]) \in EventSet
             /\ fired(actions[i]).input # "EnableRefire" /\ fired(actions[i]).caller = r
             /\ fired(actions[i]).output = output
             /\ fired(actions[i]).after = actions[i].delay
  <2> DEFINE a == actions[i]
             e == fired(a)
  <2>1. a.delay \in Nat /\ a.input \in Inputs /\ a.target \in Relays \cup Others
    BY <1>2
  <2> HIDE DEF a
  <2>2. /\ e \in EventSet /\ e.input = a.input /\ e.caller = r
        /\ e.output = output /\ e.after = a.delay
    <3>1. e = Event(a.target, a.input, a.delay, r, output)
      OBVIOUS
    <3> HIDE DEF e
    <3> QED BY <2>1, <3>1, EventIs
  <2> QED BY <2>1, <2>2, InputsAreNoRefire DEF a
<1> HIDE DEF fired
<1>4. events \in Seq(EventSet) /\ Len(events) = n /\ \A i \in 1 .. n : events[i] = fired(actions[i])
  <2>1. events \in [1 .. n -> EventSet]
    BY <1>2, <1>3
  <2> QED BY <1>2, <2>1
<1> HIDE DEF events
<1>5. \A i \in 1 .. Len(events) : events[i] \in new
  BY <1>4
<1>6. \A e \in new :
        /\ e.input # "EnableRefire" /\ e.caller = r /\ e.output = output
        /\ \E i \in 1 .. n : e.after = actions[i].delay
  BY <1>3
<1> HIDE DEF new
<1>7. /\ t \in Seq(EventSet) /\ (Sorted(q) => Sorted(t))
      /\ Extended(q, t, new) /\ HeadStays(q, t, new)
  BY <1>1, <1>4, <1>5, EventFacts, AddEventsExtends
<1>8. FiredInto(q, t, actions, r, output)
  BY <1>6, <1>7 DEF FiredInto
<1> QED BY <1>7, <1>8

(* The outputs of x are in t as they are in q. *)
Spares(q, t, x) == (Quiet(q, x) => Quiet(t, x)) /\ (InTime(q, x) => InTime(t, x))

(* The outputs of r come after delays of the actions; in d at the latest. *)
AtDelays(t, r, actions) ==
  \A j \in 1 .. Len(t) : IsFired(t[j], r) =>
    \E i \in 1 .. Len(actions) : t[j].after = actions[i].delay
NoLater(t, r, d) == \A j \in 1 .. Len(t) : IsFired(t[j], r) => t[j].after <= d

(* What that leaves of every relay's events. *)
LEMMA FireOutputKeeps ==
  ASSUME NEW q \in Seq(EventSet), NEW actions \in Seq(Action), NEW r \in Relays,
         NEW output \in {"OnTrigger", "OnSpawn"}, NEW t, t = FireOutput(q, actions, r, output)
  PROVE  /\ t \in Seq(EventSet) /\ (Sorted(q) => Sorted(t))
         /\ OwnRefires(q) => OwnRefires(t)
         /\ Due(q) => t # <<>> /\ t[1] = q[1]
         /\ \A x \in Relays : Awaited(q, x) => Awaited(t, x)
         /\ \A x \in Relays : Released(q, x) => Released(t, x)
         /\ \A x \in Relays : x # r \/ output # "OnTrigger" => Spares(q, t, x)
         /\ Quiet(q, r) => AtDelays(t, r, actions)
<1>1. t \in Seq(EventSet) /\ (Sorted(q) => Sorted(t)) /\ FiredInto(q, t, actions, r, output)
  BY FireOutputExtends
<1>2. PICK new :
        /\ Extended(q, t, new) /\ HeadStays(q, t, new)
        /\ \A e \in new :
             /\ e.input # "EnableRefire" /\ e.caller = r /\ e.output = output
             /\ \E i \in 1 .. Len(actions) : e.after = actions[i].delay
  BY <1>1 DEF FiredInto
<1>3. \A x \in Relays : \A e \in new : ~IsRefire(e, x)
  BY <1>2 DEF IsRefire
<1>4. OwnRefires(q) => OwnRefires(t)
  BY <1>2, ExtendedOwn
<1>5. ASSUME Due(q) PROVE t # <<>> /\ t[1] = q[1]
  <2>1. q # <<>> /\ q[1].after <= 0 /\ q[1].after \in Int
    <3>1. q[1] \in EventSet /\ Head(q) = q[1] BY <1>5 DEF Due
    <3> QED BY <1>5, <3>1, EventFacts DEF Due
  <2>2. \A e \in new : e.after \in Nat
    <3>1. \A i \in 1 .. Len(actions) : actions[i].delay \in Nat BY ActionFacts
    <3> QED BY <1>2, <3>1
  <2>3. \A e \in new : q[1].after <= e.after
    BY <1>2, <2>1, <2>2
  <2> QED BY <1>2, <2>1, <2>3 DEF HeadStays
<1>6. \A x \in Relays : (Awaited(q, x) => Awaited(t, x)) /\ (Released(q, x) => Released(t, x))
  BY <1>2, <1>3, ExtendedWaits
<1>7. ASSUME NEW x \in Relays, x # r \/ output # "OnTrigger" PROVE Spares(q, t, x)
  <2>1. \A e \in new : ~IsFired(e, x)
    BY <1>2, <1>7 DEF IsFired
  <2>2. (Quiet(q, x) => Quiet(t, x)) /\ (InTime(q, x) => InTime(t, x))
    BY <1>2, <1>3, <2>1, ExtendedFires
  <2> QED BY <2>2 DEF Spares
<1>8. ASSUME Quiet(q, r), NEW j \in 1 .. Len(t), IsFired(t[j], r)
      PROVE  \E i \in 1 .. Len(actions) : t[j].after = actions[i].delay
  <2>1. PICK pos : /\ Embeds(pos, q, t)
                   /\ \A k \in 1 .. Len(t) : t[k] \in new \/ Meets(pos, q, k)
    BY <1>2 DEF Extended
  <2>2. ~Meets(pos, q, j)
    BY <1>8, <2>1 DEF Meets, Embeds, Quiet
  <2> QED BY <1>2, <2>1, <2>2
<1>9. Quiet(q, r) => AtDelays(t, r, actions)
  BY <1>8 DEF AtDelays
<1> QED BY <1>1, <1>4, <1>5, <1>6, <1>7, <1>9

(* Every event of x is in t as it is in q. *)
Untouched(q, t, x) ==
  (Awaited(q, x) => Awaited(t, x)) /\ (Released(q, x) => Released(t, x)) /\ Spares(q, t, x)

(* The release that a relay posts comes behind what fires no later. *)
LEMMA PostRefire ==
  ASSUME NEW q \in Seq(EventSet), NEW r \in Relays, NEW d \in Nat,
         NEW t, t = AddEvent(q, Event(r, "EnableRefire", d, r, "none"))
  PROVE  /\ t \in Seq(EventSet) /\ (Sorted(q) => Sorted(t))
         /\ OwnRefires(q) => OwnRefires(t)
         /\ q # <<>> /\ q[1].after <= 0 => t # <<>> /\ t[1] = q[1]
         /\ \A x \in Relays \ {r} : Untouched(q, t, x)
         /\ Released(q, r) => Awaited(t, r)
         /\ Released(q, r) /\ Sorted(q) /\ NoLater(q, r, d) => InTime(t, r)
<1> DEFINE e == Event(r, "EnableRefire", d, r, "none")
<1>1. /\ e \in EventSet /\ e.target = r /\ e.caller = r /\ e.input = "EnableRefire"
      /\ e.after = d /\ e.output = "none"
  BY DEF Event, EventSet
<1>0. t = AddEvent(q, e)
  OBVIOUS
<1> HIDE DEF e
<1>2. /\ t \in Seq(EventSet) /\ (Sorted(q) => Sorted(t))
      /\ Extended(q, t, {e}) /\ HeadStays(q, t, {e})
  BY <1>0, <1>1, EventFacts, AddEventExtends
<1>3. PICK k \in 1 .. Len(q) + 1 : Inserted(t, q, e, k)
  BY <1>0, <1>1, EventFacts, AddEventInserts
<1>4. OwnRefires(q) => OwnRefires(t)
  BY <1>1, <1>2, ExtendedOwn
<1>5. ASSUME q # <<>>, q[1].after <= 0 PROVE t # <<>> /\ t[1] = q[1]
  <2>1. q[1].after \in Int
    BY <1>5, EventFacts
  <2> QED BY <1>1, <1>2, <1>5, <2>1 DEF HeadStays
<1>6. ASSUME NEW x \in Relays \ {r}
      PROVE  Untouched(q, t, x)
  <2>1. \A y \in {e} : ~IsRefire(y, x) /\ ~IsFired(y, x)
    BY <1>1 DEF IsRefire, IsFired
  <2>2. (Awaited(q, x) => Awaited(t, x)) /\ (Released(q, x) => Released(t, x))
    BY <1>2, <2>1, ExtendedWaits
  <2>3. (Quiet(q, x) => Quiet(t, x)) /\ (InTime(q, x) => InTime(t, x))
    BY <1>2, <2>1, ExtendedFires
  <2> QED BY <2>2, <2>3 DEF Untouched, Spares
<1>7. /\ Len(q) \in Nat /\ k \in Nat /\ Len(t) = Len(q) + 1 /\ t[k] = e
      /\ \A i \in 1 .. k - 1 : i \in 1 .. Len(q) /\ t[i] = q[i]
      /\ \A i \in k + 1 .. Len(q) + 1 : i - 1 \in 1 .. Len(q) /\ t[i] = q[i - 1]
  <2>1. Len(q) \in Nat /\ k \in Nat /\ Len(t) = Len(q) + 1 /\ t[k] = e
    BY <1>3 DEF Inserted
  <2>2. \A i \in 1 .. k - 1 : i \in 1 .. Len(q) /\ t[i] = q[i]
    BY <1>3, <2>1 DEF Inserted
  <2>3. ASSUME NEW i \in k + 1 .. Len(q) + 1 PROVE i - 1 \in 1 .. Len(q) /\ t[i] = q[i - 1]
    <3>1. i - 1 \in k .. Len(q) /\ (i - 1) + 1 = i /\ i - 1 \in 1 .. Len(q)
      BY <2>1
    <3>2. t[(i - 1) + 1] = q[i - 1]
      BY <1>3, <3>1 DEF Inserted
    <3> QED BY <3>1, <3>2
  <2> QED BY <2>1, <2>2, <2>3
<1>8. \A i \in 1 .. Len(t) : i \in 1 .. k - 1 \/ i = k \/ i \in k + 1 .. Len(q) + 1
  BY <1>7
<1>9. ASSUME Released(q, r), NEW j \in 1 .. Len(t), IsRefire(t[j], r) PROVE j = k
  BY <1>7, <1>8, <1>9 DEF Released
<1>10. ASSUME Released(q, r) PROVE Awaited(t, r)
  <2>1. IsRefire(t[k], r) /\ k \in 1 .. Len(t)
    BY <1>1, <1>7 DEF IsRefire
  <2> QED BY <1>9, <1>10, <2>1 DEF Awaited
<1>11. ASSUME Released(q, r), Sorted(q), NoLater(q, r, d)
       PROVE  InTime(t, r)
  <2> SUFFICES ASSUME NEW i \in 1 .. Len(t), NEW j \in 1 .. Len(t),
                      IsFired(t[i], r), IsRefire(t[j], r)
               PROVE  i < j
    BY DEF InTime
  <2>1. j = k
    BY <1>9, <1>11
  <2>2. i # k
    BY <1>1, <1>7 DEF IsFired
  <2>3. CASE i \in k + 1 .. Len(q) + 1
    <3>1. i - 1 \in 1 .. Len(q) /\ t[i] = q[i - 1] /\ k \in 1 .. Len(q)
      BY <1>7, <2>3
    <3>2. q[i - 1].after <= d /\ q[i - 1].after \in Int /\ q[k].after \in Int
      BY <1>11, <3>1, EventFacts DEF NoLater
    <3>3. q[k].after > d
      BY <1>1, <1>3, <3>1 DEF Inserted
    <3>4. q[k].after <= q[i - 1].after
      <4>1. k = i - 1 \/ k < i - 1
        BY <1>7, <2>3
      <4> QED BY <1>11, <3>1, <3>2, <4>1 DEF Sorted
    <3> QED BY <3>2, <3>3, <3>4
  <2> QED BY <1>7, <1>8, <2>1, <2>2, <2>3
<1> QED BY <1>2, <1>4, <1>5, <1>6, <1>10, <1>11

(* CancelPending takes the events of its relay, and only those. *)
LEMMA CancelKeeps ==
  ASSUME NEW q \in Seq(EventSet), NEW r \in Relays, OwnRefires(q),
         NEW t, t = CancelEvents(q, r)
  PROVE  /\ t \in Seq(EventSet) /\ OwnRefires(t) /\ (Sorted(q) => Sorted(t))
         /\ q # <<>> /\ q[1].caller # r => t # <<>> /\ t[1] = q[1]
         /\ Released(t, r) /\ Quiet(t, r)
         /\ \A x \in Relays \ {r} :
              /\ Awaited(q, x) => Awaited(t, x)
              /\ Released(q, x) => Released(t, x)
              /\ Quiet(q, x) => Quiet(t, x)
              /\ InTime(q, x) => InTime(t, x)
<1> DEFINE gone == {e \in ToSet(q) : e.caller = r}
<1>1. t = Without(q, gone)
  BY DEF CancelEvents
<1>2. /\ t \in Seq(EventSet) /\ Thinned(q, t, gone)
      /\ \A i \in 1 .. Len(t) : t[i] \notin gone
  <2> HIDE DEF gone
  <2> QED BY <1>1, WithoutThins DEF Thinned
<1>3. \A i \in 1 .. Len(q) : q[i] \in ToSet(q)
  BY DEF ToSet
<1>4. ASSUME NEW i \in 1 .. Len(t) PROVE t[i].caller # r
  <2>1. PICK pos : Embeds(pos, t, q)
    BY <1>2 DEF Thinned
  <2>2. t[i] \in ToSet(q)
    BY <1>3, <2>1 DEF Embeds
  <2> QED BY <1>2, <2>2
<1>5. OwnRefires(t)
  BY <1>2, ThinnedFires
<1>6. Released(t, r) /\ Quiet(t, r)
  BY <1>4, <1>5 DEF Released, Quiet, OwnRefires, IsRefire, IsFired
<1>7. ASSUME q # <<>>, q[1].caller # r PROVE t # <<>> /\ t[1] = q[1]
  <2>1. q[1] \notin gone
    BY <1>7
  <2> HIDE DEF gone
  <2> QED BY <1>2, <1>7, <2>1, ThinnedHead
<1>8. ASSUME NEW x \in Relays \ {r}
      PROVE  /\ (Awaited(q, x) => Awaited(t, x)) /\ (Released(q, x) => Released(t, x))
             /\ (Quiet(q, x) => Quiet(t, x)) /\ (InTime(q, x) => InTime(t, x))
  <2>1. \A e \in gone : ~IsRefire(e, x)
    <3> SUFFICES ASSUME NEW e \in gone, IsRefire(e, x) PROVE FALSE
      OBVIOUS
    <3>1. PICK i \in 1 .. Len(q) : e = q[i]
      BY DEF ToSet
    <3> QED BY <3>1 DEF OwnRefires, IsRefire
  <2> HIDE DEF gone
  <2> QED BY <1>2, <2>1, ThinnedWaits, ThinnedFires
<1>9. Sorted(q) => Sorted(t)
  BY <1>2, ThinnedIsSorted
<1> QED BY <1>2, <1>5, <1>6, <1>7, <1>8, <1>9
-----------------------------------------------------------------------------
(* The steps.                                                              *)

(* A relay's own switch may have been thrown, and nothing else.            *)
Alike(r) ==
  /\ relay'[r].alive = relay[r].alive /\ relay'[r].waiting = relay[r].waiting
  /\ relay'[r].think = relay[r].think /\ relay'[r].trigger = relay[r].trigger

(* What every step shows: the first invariant, and that the second one     *)
(* goes on.                                                                *)
Kept == WaitInv' /\ (LastInv => LastInv')

(* The head is served, and no relay that is alive waits for it. *)
LEMMA ServedKeeps ==
  ASSUME WaitInv, queue # <<>>, queue' = Tail(queue), UNCHANGED <<frame, server, posts>>,
         relay' \in [Relays -> RelayState], \A x \in Relays : Alike(x),
         \A x \in Relays : IsRefire(queue[1], x) => ~relay[x].alive
  PROVE  Kept
<1>1. queue \in Seq(EventSet) /\ OwnRefires(queue)
  BY DEF WaitInv, TypeOK
<1>2. queue' \in Seq(EventSet) /\ Thinned(queue, queue', {queue[1]})
  BY <1>1, TailThins
<1>3. TypeOK'
  BY <1>2 DEF WaitInv, TypeOK
<1>4. OwnRefires(queue')
  BY <1>1, <1>2, ThinnedFires
<1>5. \A x \in Relays : relay'[x].think => relay'[x].alive
  BY DEF WaitInv, Alike
<1>6. ASSUME NEW x \in Relays PROVE WaitsRightly(relay'[x], queue', x)
  <2> SUFFICES ASSUME relay[x].alive
               PROVE  /\ relay[x].waiting => Awaited(queue', x)
                      /\ ~relay[x].waiting => Released(queue', x)
    BY DEF Alike, WaitsRightly
  <2>1. \A e \in {queue[1]} : ~IsRefire(e, x)
    OBVIOUS
  <2>2. (Awaited(queue, x) => Awaited(queue', x)) /\ (Released(queue, x) => Released(queue', x))
    BY <1>2, <2>1, ThinnedWaits
  <2> QED BY <2>2 DEF WaitInv, WaitsRightly
<1>7. WaitInv'
  BY <1>3, <1>4, <1>5, <1>6 DEF WaitInv
<1>8. ASSUME LastInv PROVE LastInv'
  <2>1. Sorted(queue')
    BY <1>2, <1>8, ThinnedIsSorted DEF LastInv
  <2>2. \A x \in Relays : Waits(x) => Lasting(relay'[x].trigger)
    BY <1>8 DEF LastInv, Alike
  <2>3. ASSUME NEW x \in Relays PROVE FiresRightly(relay'[x], queue', x)
    <3>1. (Quiet(queue, x) => Quiet(queue', x)) /\ (InTime(queue, x) => InTime(queue', x))
      BY <1>2, ThinnedFires
    <3> QED BY <1>8, <3>1 DEF LastInv, FiresRightly, Alike
  <2> QED BY <2>1, <2>2, <2>3 DEF LastInv
<1> QED BY <1>7, <1>8 DEF Kept

(* Another entity posts an input. *)
LEMMA OtherPostsKeeps ==
  ASSUME WaitInv, NEW e \in Others, NEW r \in Relays, NEW input \in Inputs,
         OtherPosts(e, r, input)
  PROVE  Kept
<1> DEFINE ev == Event(r, input, 0, e, "other")
<1>1. queue' = AddEvent(queue, ev) /\ posts' = posts + 1 /\ posts < MaxPosts
      /\ UNCHANGED <<relay, frame, server>>
  BY DEF OtherPosts
<1>2. /\ ev \in EventSet /\ ev.input # "EnableRefire" /\ ev.output = "other"
  <2>1. ev \in EventSet /\ ev.input = input /\ ev.output = "other"
    BY DEF Event, EventSet
  <2> QED BY <2>1, InputsAreNoRefire
<1> HIDE DEF ev
<1>3. queue \in Seq(EventSet)
  BY DEF WaitInv, TypeOK
<1>4. /\ queue' \in Seq(EventSet) /\ Extended(queue, queue', {ev})
      /\ Sorted(queue) => Sorted(queue')
  BY <1>1, <1>2, <1>3, EventFacts, AddEventExtends
<1>5. TypeOK'
  BY <1>1, <1>4, RelayAssumption DEF WaitInv, TypeOK
<1>6. OwnRefires(queue')
  BY <1>2, <1>4, ExtendedOwn DEF WaitInv
<1>7. \A x \in Relays : \A y \in {ev} : ~IsRefire(y, x) /\ ~IsFired(y, x)
  BY <1>2 DEF IsRefire, IsFired
<1>8. ASSUME NEW x \in Relays PROVE WaitsRightly(relay'[x], queue', x)
  <2>1. (Awaited(queue, x) => Awaited(queue', x)) /\ (Released(queue, x) => Released(queue', x))
    BY <1>4, <1>7, ExtendedWaits
  <2> QED BY <1>1, <2>1 DEF WaitInv, WaitsRightly
<1>9. WaitInv'
  BY <1>1, <1>5, <1>6, <1>8 DEF WaitInv
<1>10. ASSUME LastInv PROVE LastInv'
  <2>1. ASSUME NEW x \in Relays PROVE FiresRightly(relay'[x], queue', x)
    <3>1. PICK new : new = {ev}
      OBVIOUS
    <3>2. /\ Extended(queue, queue', new)
          /\ \A y \in new : ~IsRefire(y, x)
          /\ \A y \in new : ~IsFired(y, x)
      BY <1>4, <1>7, <3>1
    <3>3. (Quiet(queue, x) => Quiet(queue', x)) /\ (InTime(queue, x) => InTime(queue', x))
      BY <3>2, ExtendedFires
    <3> QED BY <1>1, <1>10, <3>3 DEF LastInv, FiresRightly
  <2> QED BY <1>1, <1>4, <1>10, <2>1 DEF LastInv
<1> QED BY <1>9, <1>10 DEF Kept

(* The think fires OnSpawn, whose events are of no relay's OnTrigger. *)
LEMMA ThinkKeeps ==
  ASSUME WaitInv, NEW r \in Relays, Think(r)
  PROVE  Kept
<1>1. /\ relay[r].think /\ queue' = FireOutput(queue, OnSpawn[r], r, "OnSpawn")
      /\ relay' = [relay EXCEPT ![r].think = FALSE, ![r].alive = ~HasFlag(r, "REMOVE_ON_FIRE")]
      /\ UNCHANGED <<frame, server, posts>>
  BY DEF Think
<1>2. queue \in Seq(EventSet) /\ relay \in [Relays -> RelayState] /\ OnSpawn[r] \in Seq(Action)
  BY RelayAssumption DEF WaitInv, TypeOK
<1>3. /\ queue' \in Seq(EventSet) /\ (Sorted(queue) => Sorted(queue'))
      /\ OwnRefires(queue) => OwnRefires(queue')
      /\ \A x \in Relays : Awaited(queue, x) => Awaited(queue', x)
      /\ \A x \in Relays : Released(queue, x) => Released(queue', x)
      /\ \A x \in Relays : /\ Quiet(queue, x) => Quiet(queue', x)
                           /\ InTime(queue, x) => InTime(queue', x)
  <2>1. PICK output : output = "OnSpawn"
    OBVIOUS
  <2>2. output \in {"OnTrigger", "OnSpawn"} /\ output # "OnTrigger"
    BY <2>1
  <2>3. queue' = FireOutput(queue, OnSpawn[r], r, output)
    BY <1>1, <2>1
  <2>4. /\ queue' \in Seq(EventSet) /\ (Sorted(queue) => Sorted(queue'))
        /\ OwnRefires(queue) => OwnRefires(queue')
        /\ \A x \in Relays : Awaited(queue, x) => Awaited(queue', x)
        /\ \A x \in Relays : Released(queue, x) => Released(queue', x)
    BY <1>2, <2>2, <2>3, FireOutputKeeps
  <2>5. ASSUME NEW x \in Relays
        PROVE  (Quiet(queue, x) => Quiet(queue', x)) /\ (InTime(queue, x) => InTime(queue', x))
    <3>1. Spares(queue, queue', x)
      BY <1>2, <2>2, <2>3, FireOutputKeeps
    <3> QED BY <3>1 DEF Spares
  <2> QED BY <2>4, <2>5
<1>4. relay' \in [Relays -> RelayState]
  <2> DEFINE s == [relay[r] EXCEPT !.think = FALSE, !.alive = ~HasFlag(r, "REMOVE_ON_FIRE")]
  <2>1. relay[r] \in RelayState /\ HasFlag(r, "REMOVE_ON_FIRE") \in BOOLEAN
    BY <1>2 DEF HasFlag
  <2>2. s \in RelayState
    BY <2>1 DEF RelayState
  <2>3. relay' = [relay EXCEPT ![r] = s]
    BY <1>1, <1>2
  <2> HIDE DEF s
  <2> QED BY <1>2, <2>2, <2>3
<1>5. \A x \in Relays : /\ relay'[x].alive => relay[x].alive
                        /\ relay'[x].think => relay'[x].alive
                        /\ relay'[x].waiting = relay[x].waiting
                        /\ relay'[x].trigger = relay[x].trigger
  <2> TAKE x \in Relays
  <2>1. CASE x = r
    BY <1>1, <1>2, <2>1 DEF RelayState, WaitInv
  <2>2. CASE x # r
    BY <1>1, <1>2, <2>2 DEF WaitInv
  <2> QED BY <2>1, <2>2
<1>6. TypeOK'
  BY <1>1, <1>3, <1>4 DEF WaitInv, TypeOK
<1>7. \A x \in Relays : WaitsRightly(relay'[x], queue', x)
  BY <1>3, <1>5 DEF WaitInv, WaitsRightly
<1>8. WaitInv'
  BY <1>3, <1>5, <1>6, <1>7 DEF WaitInv
<1>9. ASSUME LastInv PROVE LastInv'
  <2>1. Sorted(queue') /\ \A x \in Relays : Waits(x) => Lasting(relay'[x].trigger)
    BY <1>3, <1>5, <1>9 DEF LastInv
  <2>2. ASSUME NEW x \in Relays PROVE FiresRightly(relay'[x], queue', x)
    <3>1. FiresRightly(relay[x], queue, x)
      BY <1>9 DEF LastInv
    <3>2. (Quiet(queue, x) => Quiet(queue', x)) /\ (InTime(queue, x) => InTime(queue', x))
      BY <1>3
    <3>3. (relay'[x].alive => relay[x].alive) /\ relay'[x].waiting = relay[x].waiting
      BY <1>5
    <3> QED BY <3>1, <3>2, <3>3 DEF FiresRightly
  <2> QED BY <2>1, <2>2 DEF LastInv
<1> QED BY <1>8, <1>9 DEF Kept

(* The frame ends. *)
LEMMA EndFrameKeeps ==
  ASSUME WaitInv, EndFrame
  PROVE  Kept
<1>1. /\ queue' = [i \in DOMAIN queue |-> [queue[i] EXCEPT !.after = @ - FrameTime]]
      /\ frame' = "think" /\ UNCHANGED <<relay, server, posts>>
  BY DEF EndFrame, Elapse
<1>2. queue \in Seq(EventSet) /\ FrameTime \in Int
  BY RelayAssumption DEF WaitInv, TypeOK
<1>3. /\ Len(queue) \in Nat /\ DOMAIN queue = 1 .. Len(queue)
      /\ \A i \in 1 .. Len(queue) : queue[i] \in EventSet
  BY <1>2
<1>4. ASSUME NEW x \in EventSet
      PROVE  LET y == [x EXCEPT !.after = @ - FrameTime]
             IN  /\ y \in EventSet /\ y.target = x.target /\ y.input = x.input
                 /\ y.caller = x.caller /\ y.output = x.output
                 /\ y.after = x.after - FrameTime /\ x.after \in Int
  BY <1>2, SMTT(30) DEF EventSet
<1>5. /\ queue' \in Seq(EventSet) /\ Len(queue') = Len(queue)
      /\ \A i \in 1 .. Len(queue) :
           /\ queue'[i].target = queue[i].target /\ queue'[i].input = queue[i].input
           /\ queue'[i].caller = queue[i].caller /\ queue'[i].output = queue[i].output
           /\ queue'[i].after = queue[i].after - FrameTime /\ queue[i].after \in Int
  <2>1. \A i \in 1 .. Len(queue) : queue'[i] = [queue[i] EXCEPT !.after = @ - FrameTime]
    BY <1>1, <1>3
  <2>2. queue' \in [1 .. Len(queue) -> EventSet]
    <3>1. \A i \in 1 .. Len(queue) : [queue[i] EXCEPT !.after = @ - FrameTime] \in EventSet
      BY <1>3, <1>4
    <3> QED BY <1>1, <1>3, <3>1
  <2>3. queue' \in Seq(EventSet) /\ Len(queue') = Len(queue)
    BY <1>3, <2>2
  <2> QED BY <1>3, <1>4, <2>1, <2>3
<1>6. TypeOK'
  BY <1>1, <1>5 DEF WaitInv, TypeOK
<1>7. OwnRefires(queue')
  BY <1>5 DEF WaitInv, OwnRefires
<1>8. \A x \in Relays : /\ Awaited(queue, x) => Awaited(queue', x)
                        /\ Released(queue, x) => Released(queue', x)
                        /\ Quiet(queue, x) => Quiet(queue', x)
                        /\ InTime(queue, x) => InTime(queue', x)
  <2> TAKE x \in Relays
  <2>1. \A i \in 1 .. Len(queue) : (IsRefire(queue'[i], x) <=> IsRefire(queue[i], x))
                                 /\ (IsFired(queue'[i], x) <=> IsFired(queue[i], x))
    BY <1>5 DEF IsRefire, IsFired
  <2> QED BY <1>5, <2>1 DEF Awaited, Released, Quiet, InTime
<1>9. WaitInv'
  BY <1>1, <1>6, <1>7, <1>8 DEF WaitInv, WaitsRightly
<1>10. ASSUME LastInv PROVE LastInv'
  <2>1. Sorted(queue')
    BY <1>2, <1>5, <1>10 DEF LastInv, Sorted
  <2> QED BY <1>1, <1>8, <1>10, <2>1 DEF LastInv, FiresRightly
<1> QED BY <1>9, <1>10 DEF Kept
-----------------------------------------------------------------------------
(* The handlers.                                                           *)

(* An event is being delivered to a relay that is alive. *)
Delivery(r) ==
  /\ queue # <<>> /\ Due(queue) /\ Head(queue) = queue[1] /\ queue[1] \in EventSet
  /\ queue[1].after <= 0 /\ queue[1].target = r /\ relay[r].alive
  /\ relay \in [Relays -> RelayState] /\ queue \in Seq(EventSet)
  /\ UNCHANGED <<frame, server, posts>>

(* A delivery is to the target of the head, which is due. *)
LEMMA DeliveryFacts ==
  ASSUME WaitInv, NEW r \in Relays, Deliver(r)
  PROVE  Delivery(r) /\ Handle(r, queue)
<1>1. /\ queue # <<>> /\ Due(queue) /\ Head(queue).after <= 0 /\ Head(queue).target = r
      /\ relay[r].alive /\ UNCHANGED <<frame, server, posts>> /\ Handle(r, queue)
  BY DEF Deliver, Serving, Due
<1>2. queue \in Seq(EventSet) /\ relay \in [Relays -> RelayState]
  BY DEF WaitInv, TypeOK
<1>3. Head(queue) = queue[1] /\ queue[1] \in EventSet
  BY <1>1, <1>2
<1> QED BY <1>1, <1>2, <1>3 DEF Delivery

(* A relay's state with one field or two set. *)
LEMMA StateFacts ==
  ASSUME NEW s \in RelayState
  PROVE  /\ s.disabled \in BOOLEAN /\ s.waiting \in BOOLEAN /\ s.trigger \in Seq(Action)
         /\ \A b \in BOOLEAN : [s EXCEPT !.disabled = b] \in RelayState
         /\ \A b \in BOOLEAN : [s EXCEPT !.waiting = b] \in RelayState
         /\ \A l \in Seq(Action) : [s EXCEPT !.trigger = l] \in RelayState
         /\ \A l \in Seq(Action) : [s EXCEPT !.trigger = l, !.waiting = TRUE] \in RelayState
         /\ \A l \in Seq(Action) :
              [s EXCEPT !.trigger = l, !.alive = FALSE, !.think = FALSE] \in RelayState
BY DEF RelayState

(* A handler that throws the switch, or does nothing. *)
LEMMA SwitchKeeps ==
  ASSUME WaitInv, NEW r \in Relays, Delivery(r), queue[1].input # "EnableRefire",
         NEW s, s \in RelayState, s.alive = relay[r].alive, s.waiting = relay[r].waiting,
         s.think = relay[r].think, s.trigger = relay[r].trigger, Both(r, s, Tail(queue))
  PROVE  Kept
<1>1. relay' = [relay EXCEPT ![r] = s] /\ queue' = Tail(queue) /\ relay \in [Relays -> RelayState]
  BY DEF Both, Delivery
<1>2. relay' \in [Relays -> RelayState] /\ \A x \in Relays : Alike(x)
  BY <1>1 DEF Alike
<1>3. \A x \in Relays : ~IsRefire(queue[1], x)
  BY DEF IsRefire
<1> QED BY <1>1, <1>2, <1>3, ServedKeeps DEF Delivery

(* The release arrives. *)
LEMMA EnableRefireKeeps ==
  ASSUME WaitInv, NEW r \in Relays, Delivery(r), queue[1].input = "EnableRefire",
         InputEnableRefire(r, queue)
  PROVE  Kept
<1> DEFINE s == [relay[r] EXCEPT !.waiting = FALSE]
<1>1. /\ relay' = [relay EXCEPT ![r] = s] /\ queue' = Tail(queue)
      /\ relay \in [Relays -> RelayState] /\ queue \in Seq(EventSet) /\ queue # <<>>
      /\ relay[r].alive /\ UNCHANGED <<frame, server, posts>>
  BY DEF InputEnableRefire, Both, Delivery
<1>2. /\ s \in RelayState /\ s.alive = relay[r].alive /\ ~s.waiting
      /\ s.think = relay[r].think /\ s.trigger = relay[r].trigger
  BY <1>1 DEF RelayState
<1> HIDE DEF s
<1>3. queue' \in Seq(EventSet) /\ Thinned(queue, queue', {queue[1]})
  BY <1>1, TailThins
<1>4. IsRefire(queue[1], r) /\ \A x \in Relays \ {r} : ~IsRefire(queue[1], x)
  BY DEF Delivery, IsRefire
<1>5. /\ relay' \in [Relays -> RelayState]
      /\ relay'[r] = s /\ \A x \in Relays \ {r} : relay'[x] = relay[x]
  BY <1>1, <1>2
<1>6. TypeOK' /\ OwnRefires(queue') /\ \A x \in Relays : relay'[x].think => relay'[x].alive
  <2>1. OwnRefires(queue')
    BY <1>3, ThinnedFires DEF WaitInv
  <2>2. TypeOK'
    BY <1>1, <1>3, <1>5 DEF WaitInv, TypeOK
  <2> QED BY <1>2, <1>5, <2>1, <2>2 DEF WaitInv
<1>7. Awaited(queue, r)
  <2>1. relay[r].waiting
    <3>1. 1 \in 1 .. Len(queue) BY <1>1
    <3>2. ~Released(queue, r) BY <1>4, <3>1 DEF Released
    <3>3. relay[r].waiting \in BOOLEAN BY <1>1, StateFacts
    <3> QED BY <1>1, <3>2, <3>3 DEF WaitInv, WaitsRightly
  <2> QED BY <1>1, <2>1 DEF WaitInv, WaitsRightly
<1>8. Released(queue', r) /\ (InTime(queue, r) => Quiet(queue', r))
  BY <1>1, <1>4, <1>7, HeadReleases
<1>9. ASSUME NEW x \in Relays \ {r} PROVE WaitsRightly(relay'[x], queue', x)
  <2>1. PICK gone : gone = {queue[1]}
    OBVIOUS
  <2>2. Thinned(queue, queue', gone) /\ \A e \in gone : ~IsRefire(e, x)
    BY <1>3, <1>4, <2>1
  <2>3. (Awaited(queue, x) => Awaited(queue', x)) /\ (Released(queue, x) => Released(queue', x))
    BY <2>2, ThinnedWaits
  <2> QED BY <1>5, <2>3 DEF WaitInv, WaitsRightly
<1>10. WaitsRightly(relay'[r], queue', r)
  BY <1>2, <1>5, <1>8 DEF WaitsRightly
<1>11. WaitInv'
  BY <1>6, <1>9, <1>10 DEF WaitInv
<1>12. ASSUME LastInv PROVE LastInv'
  <2>1. Sorted(queue')
    BY <1>3, <1>12, ThinnedIsSorted DEF LastInv
  <2>2. \A x \in Relays : Waits(x) => Lasting(relay'[x].trigger)
    BY <1>2, <1>5, <1>12 DEF LastInv
  <2>3. ASSUME NEW x \in Relays PROVE FiresRightly(relay'[x], queue', x)
    <3>1. (Quiet(queue, x) => Quiet(queue', x)) /\ (InTime(queue, x) => InTime(queue', x))
      BY <1>3, ThinnedFires
    <3>2. CASE x = r
      BY <1>2, <1>5, <1>8, <1>12, <3>1, <3>2 DEF LastInv, FiresRightly
    <3>3. CASE x # r
      BY <1>5, <1>12, <3>1, <3>3 DEF LastInv, FiresRightly
    <3> QED BY <3>2, <3>3
  <2> QED BY <2>1, <2>2, <2>3 DEF LastInv
<1> QED BY <1>11, <1>12 DEF Kept

(* The relay takes its events back, its release among them. *)
LEMMA CancelPendingKeeps ==
  ASSUME WaitInv, NEW r \in Relays, Delivery(r), queue[1].input # "EnableRefire",
         InputCancelPending(r, queue)
  PROVE  Kept
<1> DEFINE s == [relay[r] EXCEPT !.waiting = FALSE]
           t == CancelEvents(queue, r)
<1>1. /\ relay' = [relay EXCEPT ![r] = s] /\ queue' = Tail(t)
      /\ relay \in [Relays -> RelayState] /\ queue \in Seq(EventSet) /\ queue # <<>>
      /\ relay[r].alive /\ queue[1].caller # r /\ UNCHANGED <<frame, server, posts>>
  BY DEF InputCancelPending, Both, Delivery
<1>2. /\ s \in RelayState /\ s.alive = relay[r].alive /\ ~s.waiting
      /\ s.think = relay[r].think /\ s.trigger = relay[r].trigger
  BY <1>1 DEF RelayState
<1> HIDE DEF s
<1>3. /\ t \in Seq(EventSet) /\ OwnRefires(t) /\ (Sorted(queue) => Sorted(t))
      /\ t # <<>> /\ t[1] = queue[1]
      /\ Released(t, r) /\ Quiet(t, r)
      /\ \A x \in Relays \ {r} :
           /\ Awaited(queue, x) => Awaited(t, x)
           /\ Released(queue, x) => Released(t, x)
           /\ Quiet(queue, x) => Quiet(t, x)
           /\ InTime(queue, x) => InTime(t, x)
  BY <1>1, CancelKeeps DEF WaitInv
<1> HIDE DEF t
<1>4. queue' \in Seq(EventSet) /\ Thinned(t, queue', {queue[1]})
  BY <1>1, <1>3, TailThins
<1>5. /\ relay' \in [Relays -> RelayState]
      /\ relay'[r] = s /\ \A x \in Relays \ {r} : relay'[x] = relay[x]
  BY <1>1, <1>2
<1>6. TypeOK' /\ OwnRefires(queue') /\ \A x \in Relays : relay'[x].think => relay'[x].alive
  <2>1. OwnRefires(queue')
    BY <1>3, <1>4, ThinnedFires
  <2>2. TypeOK'
    BY <1>1, <1>4, <1>5 DEF WaitInv, TypeOK
  <2> QED BY <1>2, <1>5, <2>1, <2>2 DEF WaitInv
<1>7. ASSUME NEW x \in Relays
      PROVE  /\ (Awaited(t, x) => Awaited(queue', x)) /\ (Released(t, x) => Released(queue', x))
             /\ (Quiet(t, x) => Quiet(queue', x)) /\ (InTime(t, x) => InTime(queue', x))
  <2>1. \A e \in {queue[1]} : ~IsRefire(e, x)
    BY DEF IsRefire
  <2>2. (Awaited(t, x) => Awaited(queue', x)) /\ (Released(t, x) => Released(queue', x))
    BY <1>4, <2>1, ThinnedWaits
  <2>3. (Quiet(t, x) => Quiet(queue', x)) /\ (InTime(t, x) => InTime(queue', x))
    BY <1>4, ThinnedFires
  <2> QED BY <2>2, <2>3
<1>8. InTime(queue', r) /\ Quiet(queue', r) /\ Released(queue', r)
  <2>1. InTime(t, r)
    BY <1>3 DEF InTime, Released
  <2> QED BY <1>3, <1>7, <2>1
<1>9. ASSUME NEW x \in Relays PROVE WaitsRightly(relay'[x], queue', x)
  <2>1. CASE x = r
    BY <1>2, <1>5, <1>8, <2>1 DEF WaitsRightly
  <2>2. CASE x # r
    BY <1>3, <1>5, <1>7, <2>2 DEF WaitInv, WaitsRightly
  <2> QED BY <2>1, <2>2
<1>10. WaitInv'
  BY <1>6, <1>9 DEF WaitInv
<1>11. ASSUME LastInv PROVE LastInv'
  <2>1. Sorted(queue')
    BY <1>3, <1>4, <1>11, ThinnedIsSorted DEF LastInv
  <2>2. \A x \in Relays : Waits(x) => Lasting(relay'[x].trigger)
    BY <1>2, <1>5, <1>11 DEF LastInv
  <2>3. ASSUME NEW x \in Relays PROVE FiresRightly(relay'[x], queue', x)
    <3>1. CASE x = r
      BY <1>8, <3>1 DEF FiresRightly
    <3>2. CASE x # r
      BY <1>3, <1>5, <1>7, <1>11, <3>2 DEF LastInv, FiresRightly
    <3> QED BY <3>1, <3>2
  <2> QED BY <2>1, <2>2, <2>3 DEF LastInv
<1> QED BY <1>10, <1>11 DEF Kept
(* A trigger whose relay does not wait afterwards: it is removed, or may be *)
(* triggered again while its outputs are pending.                          *)
LEMMA TriggerWithoutWaitKeeps ==
  ASSUME WaitInv, NEW r \in Relays, Delivery(r), queue[1].input # "EnableRefire",
         ~Waits(r), NEW s, s \in RelayState, s.alive => HasFlag(r, "FAST_RETRIGGER"),
         s.waiting = relay[r].waiting, s.think => s.alive,
         Both(r, s, Tail(FireOutput(queue, relay[r].trigger, r, "OnTrigger")))
  PROVE  Kept
<1>1. PICK t, output : t = FireOutput(queue, relay[r].trigger, r, output) /\ output = "OnTrigger"
  OBVIOUS
<1>2. /\ relay' = [relay EXCEPT ![r] = s] /\ queue' = Tail(t)
      /\ relay \in [Relays -> RelayState] /\ queue \in Seq(EventSet) /\ queue # <<>>
      /\ relay[r].alive /\ Due(queue) /\ UNCHANGED <<frame, server, posts>>
  BY <1>1 DEF Both, Delivery
<1>3. relay[r].trigger \in Seq(Action) /\ output \in {"OnTrigger", "OnSpawn"}
  BY <1>1, <1>2, StateFacts
<1>4. /\ t \in Seq(EventSet) /\ (Sorted(queue) => Sorted(t))
      /\ OwnRefires(t) /\ t # <<>> /\ t[1] = queue[1]
      /\ \A x \in Relays : Awaited(queue, x) => Awaited(t, x)
      /\ \A x \in Relays : Released(queue, x) => Released(t, x)
      /\ \A x \in Relays \ {r} : Spares(queue, t, x)
  BY <1>1, <1>2, <1>3, FireOutputKeeps DEF WaitInv
<1>5. queue' \in Seq(EventSet) /\ Thinned(t, queue', {queue[1]})
  BY <1>2, <1>4, TailThins
<1>6. /\ relay' \in [Relays -> RelayState]
      /\ relay'[r] = s /\ \A x \in Relays \ {r} : relay'[x] = relay[x]
  BY <1>2
<1>7. TypeOK' /\ OwnRefires(queue') /\ \A x \in Relays : relay'[x].think => relay'[x].alive
  <2>1. OwnRefires(queue')
    BY <1>4, <1>5, ThinnedFires
  <2>2. TypeOK'
    BY <1>2, <1>5, <1>6 DEF WaitInv, TypeOK
  <2> QED BY <1>6, <2>1, <2>2 DEF WaitInv
<1>8. ASSUME NEW x \in Relays
      PROVE  /\ Awaited(queue, x) => Awaited(queue', x)
             /\ Released(queue, x) => Released(queue', x)
             /\ Quiet(t, x) => Quiet(queue', x)
             /\ InTime(t, x) => InTime(queue', x)
  <2>1. \A e \in {queue[1]} : ~IsRefire(e, x)
    BY DEF IsRefire
  <2>2. (Awaited(t, x) => Awaited(queue', x)) /\ (Released(t, x) => Released(queue', x))
    BY <1>5, <2>1, ThinnedWaits
  <2>3. (Quiet(t, x) => Quiet(queue', x)) /\ (InTime(t, x) => InTime(queue', x))
    BY <1>5, ThinnedFires
  <2> QED BY <1>4, <2>2, <2>3
<1>9. ASSUME NEW x \in Relays PROVE WaitsRightly(relay'[x], queue', x)
  <2>1. CASE x = r
    BY <1>2, <1>6, <1>8, <2>1 DEF WaitInv, WaitsRightly
  <2>2. CASE x # r
    BY <1>6, <1>8, <2>2 DEF WaitInv, WaitsRightly
  <2> QED BY <2>1, <2>2
<1>10. WaitInv'
  BY <1>7, <1>9 DEF WaitInv
<1>11. ASSUME LastInv PROVE LastInv'
  <2>1. Sorted(queue')
    BY <1>4, <1>5, <1>11, ThinnedIsSorted DEF LastInv
  <2>2. \A x \in Relays : Waits(x) => Lasting(relay'[x].trigger)
    BY <1>6, <1>11 DEF LastInv
  <2>3. ASSUME NEW x \in Relays PROVE FiresRightly(relay'[x], queue', x)
    <3>1. CASE x = r
      BY <1>6, <3>1 DEF FiresRightly
    <3>2. CASE x # r
      <4>1. Spares(queue, t, x)
        BY <1>4, <3>2
      <4>2. (Quiet(queue, x) => Quiet(queue', x)) /\ (InTime(queue, x) => InTime(queue', x))
        BY <1>8, <4>1 DEF Spares
      <4> QED BY <1>6, <1>11, <3>2, <4>2 DEF LastInv, FiresRightly
    <3> QED BY <3>1, <3>2
  <2> QED BY <2>1, <2>2, <2>3 DEF LastInv
<1> QED BY <1>10, <1>11 DEF Kept

(* A trigger after which the relay waits: its outputs go into the queue,   *)
(* then its release, behind them if the longest delay is still on the list.*)
LEMMA TriggerAndWaitKeeps ==
  ASSUME WaitInv, NEW r \in Relays, Delivery(r), queue[1].input # "EnableRefire",
         ~relay[r].waiting, Waits(r),
         NEW left, left = Spend(relay[r].trigger),
         Both(r, [relay[r] EXCEPT !.trigger = left, !.waiting = TRUE],
              Tail(AddEvent(FireOutput(queue, relay[r].trigger, r, "OnTrigger"),
                            Event(r, "EnableRefire", RefireDelay(left), r, "none"))))
  PROVE  Kept
<1> DEFINE s == [relay[r] EXCEPT !.trigger = left, !.waiting = TRUE]
           d == RefireDelay(left)
<1>1. PICK t, output : t = FireOutput(queue, relay[r].trigger, r, output) /\ output = "OnTrigger"
  OBVIOUS
<1>2. PICK u : u = AddEvent(t, Event(r, "EnableRefire", d, r, "none"))
  OBVIOUS
<1>3. /\ relay' = [relay EXCEPT ![r] = s] /\ queue' = Tail(u)
      /\ relay \in [Relays -> RelayState] /\ queue \in Seq(EventSet) /\ queue # <<>>
      /\ relay[r].alive /\ Due(queue) /\ queue[1].after <= 0 /\ UNCHANGED <<frame, server, posts>>
  BY <1>1, <1>2 DEF Both, Delivery
<1>4. relay[r].trigger \in Seq(Action) /\ output \in {"OnTrigger", "OnSpawn"}
  BY <1>1, <1>3, StateFacts
<1>5. left \in Seq(Action) /\ GetMaxDelay(left) \in Nat /\ d = GetMaxDelay(left) + 1 /\ d \in Nat
  <2>1. left \in Seq(Action)
    BY <1>4, SpendKeeps
  <2>2. GetMaxDelay(left) \in Nat
    BY <2>1, MaxDelay
  <2> QED BY <2>1, <2>2 DEF RefireDelay
<1>6. /\ s \in RelayState /\ s.alive = relay[r].alive /\ s.waiting
      /\ s.think = relay[r].think /\ s.trigger = left
  BY <1>3, <1>5 DEF RelayState
<1> HIDE DEF s, d
<1>7. /\ t \in Seq(EventSet) /\ (Sorted(queue) => Sorted(t))
      /\ OwnRefires(t) /\ t # <<>> /\ t[1] = queue[1]
      /\ \A x \in Relays : Awaited(queue, x) => Awaited(t, x)
      /\ \A x \in Relays : Released(queue, x) => Released(t, x)
      /\ \A x \in Relays \ {r} : Spares(queue, t, x)
      /\ Quiet(queue, r) => AtDelays(t, r, relay[r].trigger)
  BY <1>1, <1>3, <1>4, FireOutputKeeps DEF WaitInv
<1>8. /\ u \in Seq(EventSet) /\ (Sorted(t) => Sorted(u)) /\ OwnRefires(u)
      /\ u # <<>> /\ u[1] = queue[1]
      /\ \A x \in Relays \ {r} : Untouched(t, u, x)
      /\ Released(t, r) => Awaited(u, r)
      /\ Released(t, r) /\ Sorted(t) /\ NoLater(t, r, d) => InTime(u, r)
  <2>1. t \in Seq(EventSet) /\ OwnRefires(t) /\ t # <<>> /\ t[1].after <= 0 /\ t[1] = queue[1]
    BY <1>3, <1>7
  <2>2. t \in Seq(EventSet) /\ d \in Nat /\ u = AddEvent(t, Event(r, "EnableRefire", d, r, "none"))
    BY <1>2, <1>5, <2>1
  <2>3. /\ u \in Seq(EventSet) /\ (Sorted(t) => Sorted(u))
        /\ OwnRefires(t) => OwnRefires(u)
        /\ t # <<>> /\ t[1].after <= 0 => u # <<>> /\ u[1] = t[1]
        /\ \A x \in Relays \ {r} : Untouched(t, u, x)
        /\ Released(t, r) => Awaited(u, r)
        /\ Released(t, r) /\ Sorted(t) /\ NoLater(t, r, d) => InTime(u, r)
    BY <2>2, PostRefire
  <2> QED BY <2>1, <2>3
<1>9. queue' \in Seq(EventSet) /\ Thinned(u, queue', {queue[1]})
  BY <1>3, <1>8, TailThins
<1>10. /\ relay' \in [Relays -> RelayState]
       /\ relay'[r] = s /\ \A x \in Relays \ {r} : relay'[x] = relay[x]
  BY <1>3, <1>6
<1>11. TypeOK' /\ OwnRefires(queue') /\ \A x \in Relays : relay'[x].think => relay'[x].alive
  <2>1. OwnRefires(queue')
    BY <1>8, <1>9, ThinnedFires
  <2>2. TypeOK'
    BY <1>3, <1>9, <1>10 DEF WaitInv, TypeOK
  <2> QED BY <1>6, <1>10, <2>1, <2>2 DEF WaitInv
<1>12. ASSUME NEW x \in Relays
       PROVE  /\ Awaited(u, x) => Awaited(queue', x)
              /\ Released(u, x) => Released(queue', x)
              /\ Quiet(u, x) => Quiet(queue', x)
              /\ InTime(u, x) => InTime(queue', x)
  <2>1. \A e \in {queue[1]} : ~IsRefire(e, x)
    BY DEF IsRefire
  <2>2. (Awaited(u, x) => Awaited(queue', x)) /\ (Released(u, x) => Released(queue', x))
    BY <1>9, <2>1, ThinnedWaits, SMTT(30)
  <2>3. (Quiet(u, x) => Quiet(queue', x)) /\ (InTime(u, x) => InTime(queue', x))
    BY <1>9, ThinnedFires
  <2> QED BY <2>2, <2>3
<1>13. Released(queue, r) /\ Released(t, r)
  BY <1>3, <1>7 DEF WaitInv, WaitsRightly
<1>14. ASSUME NEW x \in Relays PROVE WaitsRightly(relay'[x], queue', x)
  <2>1. CASE x = r
    <3>1. Awaited(queue', r)
      BY <1>8, <1>12, <1>13
    <3> QED BY <1>6, <1>10, <2>1, <3>1 DEF WaitsRightly
  <2>2. CASE x # r
    <3>1. (Awaited(queue, x) => Awaited(queue', x)) /\ (Released(queue, x) => Released(queue', x))
      BY <1>7, <1>8, <1>12, <2>2 DEF Untouched
    <3> QED BY <1>10, <2>2, <3>1 DEF WaitInv, WaitsRightly
  <2> QED BY <2>1, <2>2
<1>15. WaitInv'
  BY <1>11, <1>14 DEF WaitInv
<1>16. ASSUME LastInv PROVE LastInv'
  <2>1. Sorted(t) /\ Sorted(queue')
    <3>1. Sorted(t) /\ Sorted(u)
      BY <1>7, <1>8, <1>16 DEF LastInv
    <3> QED BY <1>9, <3>1, ThinnedIsSorted
  <2>2. Lasting(relay[r].trigger)
    BY <1>16 DEF LastInv
  <2>3. /\ Lasting(left)
        /\ \A i \in 1 .. Len(relay[r].trigger) : relay[r].trigger[i].delay <= GetMaxDelay(left)
    BY <1>4, <2>2, LongestStays
  <2>4. \A x \in Relays : Waits(x) => Lasting(relay'[x].trigger)
    BY <1>6, <1>10, <1>16, <2>3 DEF LastInv
  <2>5. InTime(queue', r)
    <3>1. Quiet(queue, r)
      BY <1>3, <1>16 DEF LastInv, FiresRightly, Waits
    <3>2. ASSUME NEW j \in 1 .. Len(t), IsFired(t[j], r) PROVE t[j].after <= d
      <4>1. PICK i \in 1 .. Len(relay[r].trigger) : t[j].after = relay[r].trigger[i].delay
        BY <1>7, <3>1, <3>2 DEF AtDelays
      <4>2. relay[r].trigger[i].delay \in Nat
        BY <1>4, ActionFacts
      <4> QED BY <1>5, <2>3, <4>1, <4>2
    <3>3. InTime(u, r)
      BY <1>8, <1>13, <2>1, <3>2 DEF NoLater
    <3> QED BY <1>12, <3>3
  <2>6. ASSUME NEW x \in Relays PROVE FiresRightly(relay'[x], queue', x)
    <3>1. CASE x = r
      BY <1>6, <1>10, <2>5, <3>1 DEF FiresRightly
    <3>2. CASE x # r
      <4>1. Spares(queue, t, x)
        BY <1>7, <3>2
      <4>2. (Quiet(queue, x) => Quiet(queue', x)) /\ (InTime(queue, x) => InTime(queue', x))
        BY <1>8, <1>12, <3>2, <4>1 DEF Spares, Untouched
      <4> QED BY <1>10, <1>16, <3>2, <4>2 DEF LastInv, FiresRightly
    <3> QED BY <3>1, <3>2
  <2> QED BY <2>1, <2>4, <2>6 DEF LastInv
<1> QED BY <1>15, <1>16 DEF Kept
-----------------------------------------------------------------------------
(* The theorems.                                                           *)

(* An event reaches its relay. *)
LEMMA DeliverKeeps ==
  ASSUME WaitInv, NEW r \in Relays, Deliver(r)
  PROVE  Kept
<1>1. Delivery(r) /\ Handle(r, queue)
  BY DeliveryFacts
<1>2. /\ relay[r] \in RelayState /\ Head(queue) = queue[1]
      /\ queue[1].input \in Inputs \cup {"EnableRefire"}
  BY <1>1, EventFacts DEF Delivery
<1>3. CASE queue[1].input = "Trigger"
  <2> DEFINE left == Spend(relay[r].trigger)
             fired == FireOutput(queue, relay[r].trigger, r, "OnTrigger")
             removed == [relay[r] EXCEPT !.trigger = left, !.alive = FALSE, !.think = FALSE]
             again == [relay[r] EXCEPT !.trigger = left]
  <2>1. InputTrigger(r, queue)
    BY <1>1, <1>2, <1>3 DEF Handle
  <2>2. \/ Both(r, relay[r], Tail(queue))
        \/ /\ ~relay[r].waiting /\ HasFlag(r, "REMOVE_ON_FIRE") /\ Both(r, removed, Tail(fired))
        \/ /\ ~relay[r].waiting /\ HasFlag(r, "FAST_RETRIGGER") /\ ~HasFlag(r, "REMOVE_ON_FIRE")
           /\ Both(r, again, Tail(fired))
        \/ /\ ~relay[r].waiting /\ Waits(r)
           /\ Both(r, [relay[r] EXCEPT !.trigger = left, !.waiting = TRUE],
                   Tail(AddEvent(fired, Event(r, "EnableRefire", RefireDelay(left), r, "none"))))
    BY <2>1 DEF InputTrigger, Waits
  <2>3. left \in Seq(Action)
    BY <1>2, StateFacts, SpendKeeps
  <2>4. CASE Both(r, relay[r], Tail(queue))
    BY <1>1, <1>2, <1>3, <2>4, SwitchKeeps
  <2>5. CASE /\ HasFlag(r, "REMOVE_ON_FIRE") /\ Both(r, removed, Tail(fired))
    <3>1. /\ removed \in RelayState /\ ~removed.alive /\ ~removed.think
          /\ removed.waiting = relay[r].waiting
      BY <1>2, <2>3 DEF RelayState
    <3>2. ~Waits(r)
      BY <2>5 DEF Waits
    <3> HIDE DEF removed, left
    <3> QED BY <1>1, <1>3, <2>5, <3>1, <3>2, TriggerWithoutWaitKeeps
  <2>6. CASE /\ HasFlag(r, "FAST_RETRIGGER") /\ Both(r, again, Tail(fired))
    <3>1. again \in RelayState /\ again.waiting = relay[r].waiting /\ again.alive /\ again.think = relay[r].think
      BY <1>1, <1>2, <2>3 DEF RelayState, Delivery
    <3>2. ~Waits(r)
      BY <2>6 DEF Waits
    <3> HIDE DEF again, left
    <3> QED BY <1>1, <1>3, <2>6, <3>1, <3>2, TriggerWithoutWaitKeeps
  <2>7. CASE /\ ~relay[r].waiting /\ Waits(r)
             /\ Both(r, [relay[r] EXCEPT !.trigger = left, !.waiting = TRUE],
                     Tail(AddEvent(fired, Event(r, "EnableRefire", RefireDelay(left), r, "none"))))
    BY <1>1, <1>3, <2>7, TriggerAndWaitKeeps
  <2> QED BY <2>2, <2>4, <2>5, <2>6, <2>7
<1>4. CASE queue[1].input \in {"Enable", "Disable", "Toggle"}
  <2>1. \E b \in BOOLEAN : Both(r, [relay[r] EXCEPT !.disabled = b], Tail(queue))
    <3>1. CASE queue[1].input = "Enable"
      BY <1>1, <1>2, <3>1 DEF Handle, InputEnable
    <3>2. CASE queue[1].input = "Disable"
      BY <1>1, <1>2, <3>2 DEF Handle, InputDisable
    <3>3. CASE queue[1].input = "Toggle"
      <4>1. InputToggle(r, queue)
        BY <1>1, <1>2, <3>3 DEF Handle
      <4>2. (~relay[r].disabled) \in BOOLEAN
        OBVIOUS
      <4> QED BY <4>1, <4>2 DEF InputToggle
    <3> QED BY <1>4, <3>1, <3>2, <3>3
  <2>2. PICK b \in BOOLEAN : Both(r, [relay[r] EXCEPT !.disabled = b], Tail(queue))
    BY <2>1
  <2> DEFINE s == [relay[r] EXCEPT !.disabled = b]
  <2>3. /\ s \in RelayState /\ s.alive = relay[r].alive /\ s.waiting = relay[r].waiting
        /\ s.think = relay[r].think /\ s.trigger = relay[r].trigger
    BY <1>2 DEF RelayState
  <2>4. Both(r, s, Tail(queue))
    BY <2>2
  <2> HIDE DEF s
  <2>5. queue[1].input # "EnableRefire"
    BY <1>4
  <2> QED BY <1>1, <2>3, <2>4, <2>5, SwitchKeeps
<1>5. CASE queue[1].input = "EnableRefire"
  <2>1. InputEnableRefire(r, queue)
    BY <1>1, <1>2, <1>5 DEF Handle
  <2> QED BY <1>1, <1>5, <2>1, EnableRefireKeeps
<1>6. CASE queue[1].input = "CancelPending"
  <2>1. InputCancelPending(r, queue)
    BY <1>1, <1>2, <1>6 DEF Handle
  <2> QED BY <1>1, <1>6, <2>1, CancelPendingKeeps
<1> QED BY <1>2, <1>3, <1>4, <1>5, <1>6 DEF Inputs

(* Every step keeps both invariants. *)
LEMMA StepKeeps ==
  ASSUME WaitInv, [Next]_vars
  PROVE  Kept
<1>1. CASE UNCHANGED vars
  BY <1>1 DEF vars, Kept, WaitInv, LastInv, TypeOK
<1>2. ASSUME NEW e \in Others, NEW r \in Relays, NEW input \in Inputs, OtherPosts(e, r, input)
      PROVE  Kept
  BY <1>2, OtherPostsKeeps
<1>3. ASSUME NEW r \in Relays, Think(r) PROVE Kept
  BY <1>3, ThinkKeeps
<1>4. ASSUME NEW r \in Relays, Deliver(r) PROVE Kept
  BY <1>4, DeliverKeeps
<1>5. CASE StartService
  BY <1>5 DEF StartService, Kept, WaitInv, LastInv, TypeOK
<1>6. CASE DeliverElsewhere
  <2>1. /\ queue # <<>> /\ queue' = Tail(queue) /\ UNCHANGED <<relay, frame, server, posts>>
        /\ \A x \in Relays : Head(queue).target = x => ~relay[x].alive
    BY <1>6 DEF DeliverElsewhere, Serving, Due
  <2>2. Head(queue) = queue[1] /\ relay \in [Relays -> RelayState]
    BY <2>1 DEF WaitInv, TypeOK
  <2>3. relay' \in [Relays -> RelayState] /\ \A x \in Relays : Alike(x)
    BY <2>1, <2>2 DEF Alike
  <2>4. \A x \in Relays : IsRefire(queue[1], x) => ~relay[x].alive
    BY <2>1, <2>2 DEF IsRefire
  <2> QED BY <2>1, <2>3, <2>4, ServedKeeps
<1>7. CASE UseFreedEvent
  BY <1>7 DEF UseFreedEvent, Kept, WaitInv, LastInv, TypeOK
<1>8. CASE EndFrame
  BY <1>8, EndFrameKeeps
<1> QED BY <1>1, <1>2, <1>3, <1>4, <1>5, <1>6, <1>7, <1>8 DEF Next

(* The queue is empty and nobody waits. *)
LEMMA InitHolds ==
  ASSUME Init
  PROVE  WaitInv /\ (LongestLasts => LastInv)
<1>1. /\ \A r \in Relays : /\ relay[r] \in RelayState /\ relay[r].alive /\ ~relay[r].waiting
                           /\ relay[r].trigger = OnTrigger[r]
      /\ relay \in [Relays -> RelayState]
  <2>1. \A r \in Relays : OnTrigger[r] \in Seq(Action)
    BY RelayAssumption
  <2> QED BY <2>1 DEF Init, RelayState
<1>2. queue = <<>> /\ queue \in Seq(EventSet) /\ Len(queue) = 0
  BY DEF Init
<1>3. TypeOK
  BY <1>1, <1>2, RelayAssumption DEF Init, TypeOK
<1>4. OwnRefires(queue) /\ Sorted(queue)
  BY <1>2 DEF OwnRefires, Sorted
<1>5. \A r \in Relays : Released(queue, r) /\ Quiet(queue, r) /\ InTime(queue, r)
  BY <1>2 DEF Released, Quiet, InTime
<1>6. WaitInv
  BY <1>1, <1>3, <1>4, <1>5 DEF WaitInv, WaitsRightly
<1>7. ASSUME LongestLasts PROVE LastInv
  BY <1>1, <1>4, <1>5, <1>7 DEF LongestLasts, LastInv, FiresRightly
<1> QED BY <1>6, <1>7

(* The types, and one release for each relay that waits. *)
THEOREM WaitInvHolds == Spec => []WaitInv
<1>1. Init => WaitInv
  BY InitHolds
<1>2. WaitInv /\ [Next]_vars => WaitInv'
  BY StepKeeps DEF Kept
<1> QED BY <1>1, <1>2, PTL DEF Spec

(* Every state has the type of LogicRelay. *)
THEOREM TypeCorrect == Spec => []TypeOK
<1>1. WaitInv => TypeOK
  BY DEF WaitInv
<1> QED BY <1>1, WaitInvHolds, PTL

(* A relay waits exactly while one event that ends its wait is queued. *)
LEMMA OneRefire ==
  ASSUME WaitInv
  PROVE  WaitHasItsEvent
<1> SUFFICES ASSUME NEW r \in Relays, relay[r].alive
             PROVE  Cardinality({i \in DOMAIN queue : queue[i].input = "EnableRefire" /\ queue[i].target = r})
                      = IF relay[r].waiting THEN 1 ELSE 0
  BY DEF WaitHasItsEvent, Pending
<1> DEFINE P == {i \in DOMAIN queue : queue[i].input = "EnableRefire" /\ queue[i].target = r}
<1>1. DOMAIN queue = 1 .. Len(queue)
  BY DEF WaitInv, TypeOK
<1>2. (relay[r].waiting => Awaited(queue, r)) /\ (~relay[r].waiting => Released(queue, r))
  BY DEF WaitInv, WaitsRightly
<1>3. CASE relay[r].waiting
  <2>1. PICK i \in 1 .. Len(queue) :
          IsRefire(queue[i], r) /\ \A j \in 1 .. Len(queue) : IsRefire(queue[j], r) => j = i
    BY <1>2, <1>3 DEF Awaited
  <2>2. P = {i}
    BY <1>1, <2>1 DEF IsRefire
  <2>3. Cardinality({i}) = 1
    BY FS_Singleton
  <2> QED BY <1>3, <2>2, <2>3
<1>4. CASE ~relay[r].waiting
  <2>1. P = {}
    BY <1>1, <1>2, <1>4 DEF Released, IsRefire
  <2>2. Cardinality({}) = 0
    BY FS_EmptySet
  <2> QED BY <1>4, <2>1, <2>2
<1> QED BY <1>3, <1>4

(* No relay that waits is stuck, and none is released by an event of an    *)
(* earlier trigger.                                                        *)
THEOREM EveryWaitHasItsEvent == Spec => []WaitHasItsEvent
<1>1. WaitInv => WaitHasItsEvent
  BY OneRefire
<1> QED BY <1>1, WaitInvHolds, PTL

(* A relay that may be triggered has none of its outputs in the queue, if  *)
(* the longest delay of its list is one that fires always.                 *)
THEOREM RefiresLast == LongestLasts => (Spec => []RefiresAfterLastOutput)
<1> SUFFICES ASSUME LongestLasts PROVE Spec => []RefiresAfterLastOutput
  OBVIOUS
<1>1. Init => LastInv
  BY InitHolds
<1>2. WaitInv /\ LastInv /\ [Next]_vars => LastInv'
  BY StepKeeps DEF Kept
<1>3. WaitInv /\ LastInv => RefiresAfterLastOutput
  <2> SUFFICES ASSUME WaitInv, LastInv, NEW r \in Relays, relay[r].alive,
                      ~HasFlag(r, "FAST_RETRIGGER"), ~relay[r].waiting,
                      NEW i \in DOMAIN queue, queue[i].caller = r, queue[i].output = "OnTrigger"
               PROVE  FALSE
    BY DEF RefiresAfterLastOutput, Pending
  <2>1. i \in 1 .. Len(queue)
    BY DEF WaitInv, TypeOK
  <2>2. Quiet(queue, r)
    BY DEF LastInv, FiresRightly
  <2> QED BY <2>1, <2>2 DEF Quiet, IsFired
<1> QED BY <1>1, <1>2, <1>3, WaitInvHolds, PTL DEF Spec
=============================================================================
