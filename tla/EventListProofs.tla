-------------------------- MODULE EventListProofs --------------------------
(***************************************************************************)
(* Lemmas about the operations of EventList, for lists of any length.      *)
(***************************************************************************)
EXTENDS EventList, SequenceTheorems, WellFoundedInduction, TLAPS

(* Every nonempty set of naturals has a least element. *)
LEMMA LeastNatural ==
  ASSUME NEW T \in SUBSET Nat, T # {}
  PROVE  \E x \in T : \A y \in T : x <= y
<1> DEFINE R == {ss \in Nat \X Nat : ss[1] < ss[2]}
<1>1. IsWellFoundedOn(R, Nat)
  BY NatLessThanWellFounded DEF OpToRel
<1>2. PICK x \in T : \A y \in T : ~(<<y, x>> \in R)
  <2> HIDE DEF R
  <2> QED BY <1>1, WFMin
<1>3. ASSUME NEW y \in T, y < x PROVE <<y, x>> \in R
  <2>1. x \in Nat /\ y \in Nat OBVIOUS
  <2> QED BY <1>3, <2>1
<1>4. \A y \in T : ~(y < x)
  <2> HIDE DEF R
  <2> QED BY <1>2, <1>3
<1>5. \A y \in T : x <= y
  BY <1>4
<1> QED BY <1>5

(* Induction from 0 up to n, for a set of the numbers that qualify. *)
LEMMA UpTo ==
  ASSUME NEW n \in Nat, NEW T, 0 \in T,
         \A i \in 1 .. n : i - 1 \in T => i \in T
  PROVE  \A i \in 0 .. n : i \in T
<1> SUFFICES ASSUME (0 .. n) \ T # {} PROVE FALSE
  OBVIOUS
<1>1. PICK x \in (0 .. n) \ T : \A y \in (0 .. n) \ T : x <= y
  <2>1. (0 .. n) \ T \in SUBSET Nat OBVIOUS
  <2> QED BY <2>1, LeastNatural
<1> QED BY <1>1

(* f is defined by a step from each number to the next. *)
Steps(f, c, n, step) == f[0] = c /\ \A i \in 1 .. n : f[i] = step[<<f[i - 1], i>>]

(* There is a function for every such definition. *)
LEMMA Recursion ==
  ASSUME NEW S, NEW c \in S, NEW n \in Nat, NEW step \in [S \X (1 .. n) -> S]
  PROVE  \E f \in [0 .. n -> S] : Steps(f, c, n, step)
<1> DEFINE T == {k \in 0 .. n : \E f \in [0 .. k -> S] : Steps(f, c, k, step)}
<1>1. 0 \in T
  <2> DEFINE g == [i \in 0 .. 0 |-> c]
  <2>1. g \in [0 .. 0 -> S] /\ Steps(g, c, 0, step)
    BY DEF Steps
  <2> HIDE DEF g
  <2> QED BY <2>1
<1>2. ASSUME NEW k \in 1 .. n, k - 1 \in T PROVE k \in T
  <2>1. PICK f \in [0 .. k - 1 -> S] : Steps(f, c, k - 1, step)
    BY <1>2
  <2> DEFINE g == [i \in 0 .. k |-> IF i = k THEN step[<<f[k - 1], k>>] ELSE f[i]]
  <2>2. step[<<f[k - 1], k>>] \in S
    <3>1. <<f[k - 1], k>> \in S \X (1 .. n) OBVIOUS
    <3> QED BY <3>1
  <2>3. g \in [0 .. k -> S]
    BY <2>2
  <2>4. g[0] = c
    BY <2>1 DEF Steps
  <2>5. ASSUME NEW i \in 1 .. k PROVE g[i] = step[<<g[i - 1], i>>]
    <3>1. CASE i = k
      <4>1. g[k] = step[<<f[k - 1], k>>] OBVIOUS
      <4>2. g[k - 1] = f[k - 1] OBVIOUS
      <4> QED BY <3>1, <4>1, <4>2
    <3>2. CASE i # k BY <2>1, <3>2 DEF Steps
    <3> QED BY <3>1, <3>2
  <2>6. Steps(g, c, k, step)
    BY <2>4, <2>5 DEF Steps
  <2>7. \E h \in [0 .. k -> S] : Steps(h, c, k, step)
    <3> HIDE DEF g
    <3> QED BY <2>3, <2>6
  <2> QED BY <2>7
<1>3. \A k \in 0 .. n : k \in T
  <2> HIDE DEF T
  <2> QED BY <1>1, <1>2, UpTo
<1>4. n \in T
  <2> HIDE DEF T
  <2> QED BY <1>3
<1> QED BY <1>4
-----------------------------------------------------------------------------
(* Without: what the walk over the list leaves.                            *)

(* f is what the walk has kept so far, event by event. *)
Leaves(f, q, gone) ==
  /\ f[0] = <<>>
  /\ \A i \in 1 .. Len(q) :
       f[i] = IF q[i] \in gone THEN f[i - 1] ELSE Append(f[i - 1], q[i])

(* What a list keeps is built one element at a time. *)
LEMMA WithoutSteps ==
  ASSUME NEW E, NEW q \in Seq(E), NEW gone
  PROVE  \E f \in [0 .. Len(q) -> Seq(E)] :
           Leaves(f, q, gone) /\ Without(q, gone) = f[Len(q)]
<1> DEFINE n == Len(q)
           Walk(f) == f = [i \in 0 .. n |->
                             IF i = 0 THEN <<>>
                             ELSE IF q[i] \in gone THEN f[i - 1] ELSE Append(f[i - 1], q[i])]
           step == [x \in Seq(E) \X (1 .. n) |->
                      IF q[x[2]] \in gone THEN x[1] ELSE Append(x[1], q[x[2]])]
<1>1. n \in Nat /\ <<>> \in Seq(E)
  OBVIOUS
<1>2. step \in [Seq(E) \X (1 .. n) -> Seq(E)]
  OBVIOUS
<1>3. PICK f \in [0 .. n -> Seq(E)] : Steps(f, <<>>, n, step)
  <2> HIDE DEF n, step, Walk
  <2> QED BY <1>1, <1>2, Recursion
<1>4. \A i \in 1 .. n : f[i] = IF q[i] \in gone THEN f[i - 1] ELSE Append(f[i - 1], q[i])
  <2> TAKE i \in 1 .. n
  <2>1. i - 1 \in 0 .. n BY <1>1
  <2>2. f[i - 1] \in Seq(E) BY <2>1
  <2>3. <<f[i - 1], i>> \in Seq(E) \X (1 .. n) BY <2>2
  <2> QED BY <1>3, <2>3 DEF Steps
<1>5. Walk(f)
  <2>1. f = [i \in 0 .. n |-> f[i]]
    OBVIOUS
  <2>2. \A i \in 0 .. n : i # 0 => i \in 1 .. n
    BY <1>1
  <2> QED BY <1>3, <1>4, <2>1, <2>2 DEF Steps
<1> DEFINE kept == CHOOSE g : Walk(g)
<1>6. Walk(kept)
  <2> HIDE DEF Walk
  <2> QED BY <1>5
<1>7. Without(q, gone) = kept[n]
  BY DEF Without
<1>8. kept \in [0 .. n -> Seq(E)] /\ kept = f
  <2> DEFINE T == {i \in 0 .. n : kept[i] = f[i]}
  <2>0. /\ kept[0] = <<>>
        /\ \A i \in 1 .. n :
             kept[i] = IF q[i] \in gone THEN kept[i - 1] ELSE Append(kept[i - 1], q[i])
    <3> HIDE DEF kept
    <3>1. \A i \in 1 .. n : i \in 0 .. n /\ i # 0
      BY <1>1
    <3>2. 0 \in 0 .. n
      BY <1>1
    <3> QED BY <1>6, <3>1, <3>2
  <2>1. 0 \in T
    <3> HIDE DEF kept
    <3> QED BY <1>1, <1>3, <2>0 DEF Steps
  <2>2. ASSUME NEW i \in 1 .. n, i - 1 \in T PROVE i \in T
    <3> HIDE DEF kept
    <3> QED BY <1>1, <1>4, <2>0, <2>2
  <2>3. \A i \in 0 .. n : i \in T
    <3> HIDE DEF T, kept, n
    <3> QED BY <1>1, <2>1, <2>2, UpTo
  <2>4. kept = [i \in 0 .. n |-> kept[i]]
    <3> HIDE DEF kept
    <3> QED BY <1>6
  <2>5. kept = f
    <3> HIDE DEF kept
    <3> QED BY <2>3, <2>4
  <2> QED BY <2>5
<1> QED
  <2> HIDE DEF kept
  <2> QED BY <1>3, <1>4, <1>7, <1>8 DEF Steps, Leaves
(* q is found in t at the positions pos, in its order. *)
Embeds(pos, q, t) ==
  /\ pos \in [1 .. Len(q) -> 1 .. Len(t)]
  /\ \A i, j \in 1 .. Len(q) : i < j => pos[i] < pos[j]
  /\ \A i \in 1 .. Len(q) : t[pos[i]] = q[i]

Meets(pos, q, j) == \E i \in 1 .. Len(q) : pos[i] = j

(* The walk keeps the order of what it keeps, which is what is not in gone. *)
LEMMA WithoutThins ==
  ASSUME NEW E, NEW q \in Seq(E), NEW gone
  PROVE  /\ Without(q, gone) \in Seq(E)
         /\ \A i \in 1 .. Len(Without(q, gone)) : Without(q, gone)[i] \notin gone
         /\ \E pos : /\ Embeds(pos, Without(q, gone), q)
                     /\ \A j \in 1 .. Len(q) : q[j] \in gone \/ Meets(pos, Without(q, gone), j)
<1> DEFINE n == Len(q)
<1>0. PICK f \in [0 .. n -> Seq(E)] : Leaves(f, q, gone) /\ Without(q, gone) = f[n]
  BY WithoutSteps
<1>1. /\ f[0] = <<>>
      /\ \A i \in 1 .. n :
           f[i] = IF q[i] \in gone THEN f[i - 1] ELSE Append(f[i - 1], q[i])
      /\ Without(q, gone) = f[n]
  BY <1>0 DEF Leaves
<1> DEFINE Fits(k, w, pos) ==
             /\ pos \in [1 .. Len(w) -> 1 .. k]
             /\ \A i, j \in 1 .. Len(w) : i < j => pos[i] < pos[j]
             /\ \A i \in 1 .. Len(w) : q[pos[i]] = w[i] /\ w[i] \notin gone
             /\ \A j \in 1 .. k : q[j] \in gone \/ Meets(pos, w, j)
           T == {k \in 0 .. n : \E pos : Fits(k, f[k], pos)}
<1>2. 0 \in T
  <2>1. Fits(0, <<>>, <<>>)
    BY DEF Meets
  <2> HIDE DEF Fits
  <2> QED BY <1>1, <2>1
<1>3. ASSUME NEW k \in 1 .. n, k - 1 \in T PROVE k \in T
  <2>1. PICK pos : Fits(k - 1, f[k - 1], pos)
    BY <1>3
  <2> DEFINE w == f[k - 1]
  <2>2. w \in Seq(E) /\ Len(w) \in Nat /\ k \in Nat /\ n \in Nat
    BY <1>1
  <2>3. CASE q[k] \in gone
    <3>1. f[k] = w
      BY <1>1, <2>3
    <3>2. Fits(k, w, pos)
      BY <2>1, <2>2, <2>3 DEF Meets
    <3> QED
      <4> HIDE DEF Fits, w
      <4> QED BY <3>1, <3>2
  <2>4. CASE q[k] \notin gone
    <3> DEFINE v == Append(w, q[k])
               p == [i \in 1 .. Len(v) |-> IF i = Len(v) THEN k ELSE pos[i]]
    <3>1. f[k] = v
      BY <1>1, <2>4
    <3>2. /\ Len(v) = Len(w) + 1 /\ v[Len(w) + 1] = q[k]
          /\ \A i \in 1 .. Len(w) : v[i] = w[i]
      <4>1. q[k] \in E BY <2>2
      <4> QED BY <2>2, <4>1, AppendProperties
    <3>3. p[Len(v)] = k /\ \A i \in 1 .. Len(w) : p[i] = pos[i]
      <4> HIDE DEF v, w
      <4> QED BY <2>2, <3>2
    <3>4. \A i \in 1 .. Len(v) : i = Len(v) \/ i \in 1 .. Len(w)
      <4> HIDE DEF v, w
      <4> QED BY <2>2, <3>2
    <3>5. p \in [1 .. Len(v) -> 1 .. k]
      <4>1. \A i \in 1 .. Len(w) : pos[i] \in 1 .. k - 1
        BY <2>1
      <4> HIDE DEF v, w
      <4> QED BY <2>2, <3>3, <3>4, <4>1
    <3>6. \A i, j \in 1 .. Len(v) : i < j => p[i] < p[j]
      <4>1. \A i \in 1 .. Len(w) : pos[i] \in 1 .. k - 1
        BY <2>1
      <4>2. \A i, j \in 1 .. Len(w) : i < j => pos[i] < pos[j]
        BY <2>1
      <4> HIDE DEF v, w, p
      <4> TAKE i, j \in 1 .. Len(v)
      <4> HAVE i < j
      <4>3. i \in 1 .. Len(w)
        BY <2>2, <3>2
      <4>4. CASE j = Len(v)
        BY <2>2, <3>3, <4>1, <4>3, <4>4
      <4>5. CASE j \in 1 .. Len(w)
        BY <3>3, <4>2, <4>3, <4>5
      <4> QED BY <3>4, <4>4, <4>5
    <3>7. \A i \in 1 .. Len(v) : q[p[i]] = v[i] /\ v[i] \notin gone
      <4>1. \A i \in 1 .. Len(w) : q[pos[i]] = w[i] /\ w[i] \notin gone
        BY <2>1
      <4> HIDE DEF v, w, p
      <4> QED BY <2>2, <2>4, <3>2, <3>3, <3>4, <4>1
    <3>8. \A j \in 1 .. k : q[j] \in gone \/ Meets(p, v, j)
      <4>1. \A j \in 1 .. k - 1 : q[j] \in gone \/ \E i \in 1 .. Len(w) : pos[i] = j
        BY <2>1 DEF Meets
      <4> HIDE DEF v, w, p
      <4>2. ASSUME NEW j \in 1 .. k PROVE q[j] \in gone \/ \E i \in 1 .. Len(v) : p[i] = j
        <5>1. CASE j = k
          BY <2>2, <3>2, <3>3, <5>1
        <5>2. CASE j \in 1 .. k - 1
          BY <2>2, <3>2, <3>3, <4>1, <5>2
        <5> QED BY <2>2, <5>1, <5>2
      <4> QED BY <4>2 DEF Meets
    <3>9. Fits(k, v, p)
      BY <3>5, <3>6, <3>7, <3>8
    <3> QED
      <4> HIDE DEF Fits, v
      <4> QED BY <3>1, <3>9
  <2> QED BY <2>3, <2>4
<1>4. n \in T
  <2>1. n \in Nat OBVIOUS
  <2>2. \A k \in 0 .. n : k \in T
    <3> HIDE DEF T, n
    <3> QED BY <1>2, <1>3, <2>1, UpTo
  <2> HIDE DEF T
  <2> QED BY <2>1, <2>2
<1>5. PICK pos : Fits(n, f[n], pos)
  BY <1>4
<1>6. f[n] \in Seq(E)
  <2>1. n \in 0 .. n OBVIOUS
  <2> QED BY <2>1
<1>7. Embeds(pos, f[n], q)
  BY <1>5 DEF Embeds
<1>8. /\ \A i \in 1 .. Len(f[n]) : f[n][i] \notin gone
      /\ \A j \in 1 .. n : q[j] \in gone \/ Meets(pos, f[n], j)
  BY <1>5
<1> QED BY <1>1, <1>6, <1>7, <1>8
-----------------------------------------------------------------------------
(* AddEvent: where the event goes.                                         *)

(* The list t is q with e in its place k: behind what fires no later. *)
Inserted(t, q, e, k) ==
  /\ Len(t) = Len(q) + 1
  /\ t[k] = e
  /\ \A i \in 1 .. k - 1 : t[i] = q[i] /\ q[i].after <= e.after
  /\ \A i \in k .. Len(q) : t[i + 1] = q[i]
  /\ k <= Len(q) => q[k].after > e.after

(* AddEvent puts the event in front of the first that is strictly later, or*)
(* last, and moves nothing else.                                           *)
LEMMA AddEventInserts ==
  ASSUME NEW E, \A x \in E : x.after \in Int, NEW q \in Seq(E), NEW e \in E
  PROVE  /\ AddEvent(q, e) \in Seq(E)
         /\ \E k \in 1 .. Len(q) + 1 : Inserted(AddEvent(q, e), q, e, k)
<1> DEFINE n == Len(q)
           I == {i \in 1 .. n : q[i].after > e.after}
<1>1. n \in Nat /\ q \in [1 .. n -> E] /\ \A i \in 1 .. n : q[i].after \in Int
  OBVIOUS
<1>2. CASE I = {}
  <2>1. AddEvent(q, e) = Append(q, e)
    BY <1>2 DEF AddEvent, SelectInSeq
  <2>2. Append(q, e) \in Seq(E) /\ Inserted(Append(q, e), q, e, n + 1)
    <3>1. \A i \in 1 .. n : q[i].after <= e.after
      BY <1>1, <1>2
    <3> QED BY <1>1, <3>1, AppendProperties DEF Inserted
  <2> QED BY <1>1, <2>1, <2>2
<1>3. CASE I # {}
  <2> DEFINE k == Min(I)
  <2>1. k \in I /\ \A i \in I : k <= i
    <3>1. I \in SUBSET Nat BY <1>1
    <3>2. \E x \in I : \A y \in I : x <= y
      <4> HIDE DEF I
      <4> QED BY <1>3, <3>1, LeastNatural
    <3> HIDE DEF I
    <3> QED BY <3>2 DEF Min
  <2>2. k \in 1 .. n /\ q[k].after > e.after
    <3> HIDE DEF k
    <3> QED BY <2>1
  <2>3. \A i \in 1 .. k - 1 : q[i].after <= e.after
    <3> HIDE DEF k
    <3> QED BY <1>1, <2>1, <2>2
  <2>4. k # 0 BY <1>1, <2>2
  <2>5. AddEvent(q, e) = InsertAt(q, k, e)
    BY <1>3, <2>4 DEF AddEvent, SelectInSeq
  <2> HIDE DEF k
  <2> DEFINE a == SubSeq(q, 1, k - 1)
             b == SubSeq(q, k, n)
             t == InsertAt(q, k, e)
  <2>6. /\ a \in Seq(E) /\ Len(a) = k - 1
        /\ \A i \in 1 .. k - 1 : a[i] = q[i]
    <3>1. k - 1 \in Int /\ \A i \in 1 .. k - 1 : q[i] \in E
      BY <1>1, <2>2
    <3> QED BY <1>1, <2>2, <3>1, SubSeqProperties
  <2>7. /\ b \in Seq(E) /\ Len(b) = n - k + 1
        /\ \A i \in 1 .. n - k + 1 : b[i] = q[k + i - 1]
    <3>1. k \in Int /\ n \in Int /\ \A i \in k .. n : q[i] \in E
      BY <1>1, <2>2
    <3> QED BY <1>1, <2>2, <3>1, SubSeqProperties
  <2> DEFINE c == a \o <<e>>
  <2>8. t = c \o b
    BY DEF InsertAt
  <2> HIDE DEF a, b, t, n
  <2>9. /\ c \in Seq(E) /\ Len(c) = k
        /\ \A i \in 1 .. k : c[i] = IF i = k THEN e ELSE a[i]
    <3>1. <<e>> \in Seq(E) /\ Len(<<e>>) = 1 /\ <<e>>[1] = e OBVIOUS
    <3> QED BY <1>1, <2>2, <2>6, <3>1, ConcatProperties
  <2> HIDE DEF c
  <2>10. /\ t \in Seq(E) /\ Len(t) = n + 1
         /\ \A i \in 1 .. n + 1 : t[i] = IF i <= k THEN c[i] ELSE b[i - k]
    <3>1. t \in Seq(E) /\ Len(t) = Len(c) + Len(b)
          /\ \A i \in 1 .. Len(c) + Len(b) : t[i] = IF i <= Len(c) THEN c[i] ELSE b[i - Len(c)]
      BY <2>7, <2>8, <2>9, ConcatProperties
    <3>2. Len(c) + Len(b) = n + 1
      BY <1>1, <2>2, <2>7, <2>9
    <3> QED BY <2>9, <3>1, <3>2
  <2>11. t[k] = e
    BY <1>1, <2>2, <2>9, <2>10
  <2>12. \A i \in 1 .. k - 1 : t[i] = q[i]
    <3> TAKE i \in 1 .. k - 1
    <3>1. i \in 1 .. n + 1 /\ i <= k /\ i \in 1 .. k /\ i # k
      BY <1>1, <2>2
    <3>2. t[i] = c[i]
      BY <2>10, <3>1
    <3>3. c[i] = a[i]
      BY <2>9, <3>1
    <3> QED BY <2>6, <3>2, <3>3
  <2>13. \A i \in k .. n : t[i + 1] = q[i]
    <3> TAKE i \in k .. n
    <3>1. i + 1 \in 1 .. n + 1 /\ ~(i + 1 <= k) /\ i + 1 - k \in 1 .. n - k + 1
      BY <1>1, <2>2
    <3>2. t[i + 1] = b[i + 1 - k]
      BY <1>1, <2>2, <2>10, <3>1
    <3>3. b[i + 1 - k] = q[k + (i + 1 - k) - 1]
      BY <2>7, <3>1
    <3>4. k + (i + 1 - k) - 1 = i
      BY <1>1, <2>2
    <3> QED BY <3>2, <3>3, <3>4
  <2>14. Inserted(t, q, e, k)
    BY <2>2, <2>3, <2>10, <2>11, <2>12, <2>13 DEF Inserted, n
  <2>15. AddEvent(q, e) = t /\ k \in 1 .. Len(q) + 1
    BY <1>1, <2>2, <2>5 DEF t, n
  <2> QED BY <2>10, <2>14, <2>15
<1> QED BY <1>2, <1>3
-----------------------------------------------------------------------------
(* Lists that come from one another.                                       *)

(* By the time, as the list is kept. *)
Sorted(q) == \A i, j \in 1 .. Len(q) : i < j => q[i].after <= q[j].after

(* t is q without some of the members of gone. *)
Thinned(q, t, gone) ==
  \E pos : /\ Embeds(pos, t, q)
           /\ \A j \in 1 .. Len(q) : q[j] \in gone \/ Meets(pos, t, j)

(* t is q with some of the members of new in between. *)
Extended(q, t, new) ==
  \E pos : /\ Embeds(pos, q, t)
           /\ \A j \in 1 .. Len(t) : t[j] \in new \/ Meets(pos, q, j)

(* Nothing goes in front of a head that fires no later than what is new. *)
HeadStays(q, t, new) ==
  q # <<>> /\ (\A e \in new : q[1].after <= e.after) => t # <<>> /\ t[1] = q[1]

(* Taking the head is thinning the list. *)
LEMMA TailThins ==
  ASSUME NEW E, NEW q \in Seq(E), q # <<>>
  PROVE  /\ Tail(q) \in Seq(E) /\ Len(Tail(q)) = Len(q) - 1
         /\ \A i \in 1 .. Len(Tail(q)) : Tail(q)[i] = q[i + 1]
         /\ Thinned(q, Tail(q), {q[1]})
<1> DEFINE n == Len(q)
           t == Tail(q)
           pos == [i \in 1 .. n - 1 |-> i + 1]
<1>1. n \in Nat /\ n >= 1
  OBVIOUS
<1>2. t \in Seq(E) /\ Len(t) = n - 1 /\ \A i \in 1 .. n - 1 : t[i] = q[i + 1]
  <2>1. \A i \in 1 .. n - 1 : Tail(q)[i] = q[i + 1]
    BY <1>1, HeadTailProperties
  <2> QED BY <1>1, <2>1, HeadTailProperties
<1> HIDE DEF n, t
<1>3. Embeds(pos, t, q)
  BY <1>1, <1>2 DEF Embeds, n
<1>4. ASSUME NEW j \in 1 .. n PROVE q[j] \in {q[1]} \/ Meets(pos, t, j)
  <2>1. CASE j = 1
    BY <2>1
  <2>2. CASE j # 1
    <3>1. j - 1 \in 1 .. Len(t) /\ pos[j - 1] = j
      BY <1>1, <1>2, <2>2
    <3> QED BY <3>1 DEF Meets
  <2> QED BY <2>1, <2>2
<1>5. Thinned(q, t, {q[1]})
  <2> HIDE DEF pos
  <2> QED BY <1>3, <1>4 DEF Thinned, n
<1> QED BY <1>2, <1>5 DEF n, t

(* A thinned list keeps its order. *)
LEMMA ThinnedIsSorted ==
  ASSUME NEW q, NEW t, NEW gone, Thinned(q, t, gone), Sorted(q)
  PROVE  Sorted(t)
<1>1. PICK pos : Embeds(pos, t, q)
  BY DEF Thinned
<1>2. ASSUME NEW i \in 1 .. Len(t), NEW j \in 1 .. Len(t), i < j
      PROVE  t[i].after <= t[j].after
  <2>1. /\ pos[i] \in 1 .. Len(q) /\ pos[j] \in 1 .. Len(q) /\ pos[i] < pos[j]
        /\ t[i] = q[pos[i]] /\ t[j] = q[pos[j]]
    BY <1>1, <1>2 DEF Embeds
  <2> QED BY <2>1 DEF Sorted
<1> QED BY <1>2 DEF Sorted

(* The head stays if it is not among what is taken away. *)
LEMMA ThinnedHead ==
  ASSUME NEW E, NEW q \in Seq(E), NEW t \in Seq(E), NEW gone, Thinned(q, t, gone),
         q # <<>>, q[1] \notin gone
  PROVE  t # <<>> /\ t[1] = q[1]
<1>1. PICK pos : /\ Embeds(pos, t, q)
                 /\ \A j \in 1 .. Len(q) : q[j] \in gone \/ Meets(pos, t, j)
  BY DEF Thinned
<1>2. Len(q) \in Nat /\ 1 \in 1 .. Len(q) /\ Len(t) \in Nat
  OBVIOUS
<1>3. PICK i \in 1 .. Len(t) : pos[i] = 1
  BY <1>1, <1>2 DEF Meets
<1>4. i = 1
  <2>1. CASE i > 1
    <3>1. 1 \in 1 .. Len(t) BY <1>2
    <3>2. pos[1] \in 1 .. Len(q) /\ pos[1] < pos[i]
      BY <1>1, <2>1, <3>1 DEF Embeds
    <3> QED BY <1>2, <1>3, <3>2
  <2> QED BY <1>2, <2>1
<1> QED BY <1>1, <1>2, <1>3, <1>4 DEF Embeds
-----------------------------------------------------------------------------
(* AddEvents: one after the other.                                         *)

(* f is the list as it grows, event by event. *)
Grows(f, q, events) ==
  f[0] = q /\ \A i \in 1 .. Len(events) : f[i] = AddEvent(f[i - 1], events[i])

(* The recursion of AddEvents has its values, each a list of events. *)
LEMMA AddEventsSteps ==
  ASSUME NEW E, \A x \in E : x.after \in Int, NEW q \in Seq(E), NEW events \in Seq(E)
  PROVE  \E f \in [0 .. Len(events) -> Seq(E)] :
           Grows(f, q, events) /\ AddEvents(q, events) = f[Len(events)]
<1> DEFINE n == Len(events)
           Walk(f) == f = [i \in 0 .. n |->
                             IF i = 0 THEN q ELSE AddEvent(f[i - 1], events[i])]
           step == [x \in Seq(E) \X (1 .. n) |-> AddEvent(x[1], events[x[2]])]
<1>1. n \in Nat
  OBVIOUS
<1>2. step \in [Seq(E) \X (1 .. n) -> Seq(E)]
  <2>1. ASSUME NEW x \in Seq(E) \X (1 .. n) PROVE AddEvent(x[1], events[x[2]]) \in Seq(E)
    <3>1. x[1] \in Seq(E) /\ events[x[2]] \in E
      OBVIOUS
    <3> QED BY <3>1, AddEventInserts
  <2> QED BY <2>1
<1>3. PICK f \in [0 .. n -> Seq(E)] : Steps(f, q, n, step)
  <2> HIDE DEF n, step, Walk
  <2> QED BY <1>1, <1>2, Recursion
<1>4. \A i \in 1 .. n : f[i] = AddEvent(f[i - 1], events[i])
  <2> TAKE i \in 1 .. n
  <2>1. i - 1 \in 0 .. n BY <1>1
  <2>2. f[i - 1] \in Seq(E) BY <2>1
  <2>3. <<f[i - 1], i>> \in Seq(E) \X (1 .. n) BY <2>2
  <2> QED BY <1>3, <2>3 DEF Steps
<1>5. Walk(f)
  <2>1. f = [i \in 0 .. n |-> f[i]]
    OBVIOUS
  <2>2. \A i \in 0 .. n : i # 0 => i \in 1 .. n
    BY <1>1
  <2> QED BY <1>3, <1>4, <2>1, <2>2 DEF Steps
<1> DEFINE list == CHOOSE g : Walk(g)
<1>6. Walk(list)
  <2> HIDE DEF Walk
  <2> QED BY <1>5
<1>7. AddEvents(q, events) = list[n]
  BY DEF AddEvents
<1>8. list = f
  <2> DEFINE T == {i \in 0 .. n : list[i] = f[i]}
  <2>1. list[0] = q /\ \A i \in 1 .. n : list[i] = AddEvent(list[i - 1], events[i])
    <3> HIDE DEF list
    <3>1. 0 \in 0 .. n /\ \A i \in 1 .. n : i \in 0 .. n /\ i # 0
      BY <1>1
    <3> QED BY <1>6, <3>1
  <2> HIDE DEF list
  <2>2. 0 \in T
    BY <1>1, <1>3, <2>1 DEF Steps
  <2>3. ASSUME NEW i \in 1 .. n, i - 1 \in T PROVE i \in T
    BY <1>1, <1>4, <2>1, <2>3
  <2>4. \A i \in 0 .. n : i \in T
    <3> HIDE DEF T, n
    <3> QED BY <1>1, <2>2, <2>3, UpTo
  <2>5. list = [i \in 0 .. n |-> list[i]]
    BY <1>6
  <2> QED BY <2>4, <2>5
<1> QED
  <2> HIDE DEF list
  <2> QED BY <1>3, <1>4, <1>7, <1>8 DEF Steps, Grows

(* One more event extends the list by one more. *)
LEMMA ExtendsByOne ==
  ASSUME NEW E, \A x \in E : x.after \in Int, NEW q \in Seq(E), NEW s \in Seq(E), NEW new,
         NEW e \in E, e \in new, Extended(q, s, new), HeadStays(q, s, new)
  PROVE  /\ Extended(q, AddEvent(s, e), new) /\ HeadStays(q, AddEvent(s, e), new)
         /\ Sorted(s) => Sorted(AddEvent(s, e))
<1> DEFINE t == AddEvent(s, e)
           m == Len(s)
<1>1. t \in Seq(E) /\ m \in Nat /\ Len(q) \in Nat
  BY AddEventInserts
<1>2. PICK k \in 1 .. m + 1 : Inserted(t, s, e, k)
  BY AddEventInserts
<1> HIDE DEF t, m
<1>3. /\ Len(t) = m + 1 /\ t[k] = e
      /\ \A i \in 1 .. k - 1 : t[i] = s[i] /\ s[i].after <= e.after
      /\ \A i \in k .. m : t[i + 1] = s[i]
      /\ k <= m => s[k].after > e.after
  BY <1>2 DEF Inserted, m
<1>4. e.after \in Int /\ \A i \in 1 .. m : s[i].after \in Int
  BY DEF m
<1>5. PICK pos : /\ Embeds(pos, q, s)
                 /\ \A j \in 1 .. m : s[j] \in new \/ Meets(pos, q, j)
  BY DEF Extended, m
<1>6. /\ pos \in [1 .. Len(q) -> 1 .. m]
      /\ \A i, j \in 1 .. Len(q) : i < j => pos[i] < pos[j]
      /\ \A i \in 1 .. Len(q) : s[pos[i]] = q[i]
  BY <1>5 DEF Embeds, m
<1> DEFINE to(i) == IF i < k THEN i ELSE i + 1
           p == [i \in 1 .. Len(q) |-> to(pos[i])]
<1>7. \A i \in 1 .. m : to(i) \in 1 .. m + 1 /\ t[to(i)] = s[i]
  <2> TAKE i \in 1 .. m
  <2>1. CASE i < k
    <3>1. i \in 1 .. k - 1 /\ to(i) = i BY <1>1, <2>1
    <3> QED BY <1>1, <1>3, <3>1
  <2>2. CASE ~(i < k)
    <3>1. i \in k .. m /\ to(i) = i + 1 BY <1>1, <2>2
    <3> QED BY <1>1, <1>3, <3>1
  <2> QED BY <2>1, <2>2
<1>8. \A i, j \in 1 .. m : i < j => to(i) < to(j)
  BY <1>1
<1>9. \A j \in 1 .. m + 1 : j = k \/ \E i \in 1 .. m : j = to(i)
  <2> TAKE j \in 1 .. m + 1
  <2>1. CASE j < k
    <3>1. j \in 1 .. m /\ j = to(j) BY <1>1, <2>1
    <3> QED BY <3>1
  <2>2. CASE j > k
    <3>1. j - 1 \in 1 .. m /\ j = to(j - 1) BY <1>1, <2>2
    <3> QED BY <3>1
  <2> QED BY <1>1, <2>1, <2>2
<1> HIDE DEF to
<1>10. Embeds(p, q, t)
  <2>1. p \in [1 .. Len(q) -> 1 .. Len(t)]
    BY <1>3, <1>6, <1>7
  <2>2. \A i, j \in 1 .. Len(q) : i < j => p[i] < p[j]
    BY <1>6, <1>8
  <2>3. \A i \in 1 .. Len(q) : t[p[i]] = q[i]
    BY <1>6, <1>7
  <2> QED BY <2>1, <2>2, <2>3 DEF Embeds
<1>11. ASSUME NEW j \in 1 .. Len(t) PROVE t[j] \in new \/ Meets(p, q, j)
  <2>1. CASE j = k
    BY <1>3, <2>1
  <2>2. CASE j # k
    <3>1. PICK i \in 1 .. m : j = to(i)
      BY <1>3, <1>9, <2>2
    <3>2. CASE s[i] \in new
      BY <1>7, <3>1, <3>2
    <3>3. CASE Meets(pos, q, i)
      <4>1. PICK x \in 1 .. Len(q) : pos[x] = i
        BY <3>3 DEF Meets
      <4>2. p[x] = j
        BY <3>1, <4>1
      <4> QED BY <4>2 DEF Meets
    <3> QED BY <1>5, <3>2, <3>3
  <2> QED BY <2>1, <2>2
<1>12. Extended(q, t, new)
  <2> HIDE DEF p
  <2> QED BY <1>10, <1>11 DEF Extended
<1>13. HeadStays(q, t, new)
  <2> SUFFICES ASSUME q # <<>>, \A x \in new : q[1].after <= x.after
               PROVE  t # <<>> /\ t[1] = q[1]
    BY DEF HeadStays
  <2>1. s # <<>> /\ s[1] = q[1]
    BY DEF HeadStays
  <2>2. m >= 1
    BY <2>1 DEF m
  <2>3. k # 1
    BY <1>1, <1>3, <1>4, <2>1, <2>2
  <2>4. t[1] = s[1]
    <3>1. 1 \in 1 .. k - 1 BY <1>1, <2>3
    <3> QED BY <1>3, <3>1
  <2>5. t # <<>>
    BY <1>1, <1>3
  <2> QED BY <2>1, <2>4, <2>5
<1>14. ASSUME Sorted(s) PROVE Sorted(t)
  <2>1. \A i, j \in 1 .. m : i < j => s[i].after <= s[j].after
    BY <1>14 DEF Sorted, m
  <2>2. \A i \in 1 .. k - 1 : i \in 1 .. m /\ t[i].after = s[i].after /\ s[i].after <= e.after
    BY <1>1, <1>3
  <2>3. ASSUME NEW i \in k + 1 .. m + 1
        PROVE  i - 1 \in 1 .. m /\ t[i].after = s[i - 1].after /\ e.after < s[i - 1].after
    <3>1. i - 1 \in k .. m /\ k \in 1 .. m /\ (i - 1) + 1 = i /\ i - 1 \in 1 .. m
      BY <1>1
    <3>2. t[(i - 1) + 1] = s[i - 1]
      BY <1>3, <3>1
    <3>3. s[k].after <= s[i - 1].after
      BY <1>4, <2>1, <3>1
    <3> QED BY <1>3, <1>4, <3>1, <3>2, <3>3
  <2>4. ASSUME NEW i \in 1 .. m + 1, NEW j \in 1 .. m + 1, i < j
        PROVE  t[i].after <= t[j].after
    <3>1. CASE j < k
      <4>1. i \in 1 .. k - 1 /\ j \in 1 .. k - 1 BY <1>1, <2>4, <3>1
      <4> QED BY <2>1, <2>2, <2>4, <4>1
    <3>2. CASE j = k
      <4>1. i \in 1 .. k - 1 BY <1>1, <2>4, <3>2
      <4> QED BY <1>3, <2>2, <3>2, <4>1
    <3>3. CASE j > k
      <4>0. j \in k + 1 .. m + 1 BY <1>1, <3>3
      <4>1. CASE i < k
        <5>1. i \in 1 .. k - 1 BY <1>1, <4>1
        <5>2. t[i].after <= e.after /\ t[i].after \in Int
          BY <1>4, <2>2, <5>1
        <5>3. e.after < t[j].after /\ t[j].after \in Int
          BY <1>4, <2>3, <4>0
        <5> QED BY <1>4, <5>2, <5>3
      <4>2. CASE i = k
        BY <1>3, <1>4, <2>3, <4>0, <4>2
      <4>3. CASE i > k
        <5>1. i \in k + 1 .. m + 1 /\ i - 1 < j - 1 BY <1>1, <2>4, <4>3
        <5> QED BY <2>1, <2>3, <4>0, <5>1
      <4> QED BY <1>1, <4>1, <4>2, <4>3
    <3> QED BY <1>1, <3>1, <3>2, <3>3
  <2> QED BY <1>3, <2>4 DEF Sorted
<1> QED BY <1>12, <1>13, <1>14 DEF t

(* A list extends itself. *)
LEMMA ExtendsItself ==
  ASSUME NEW E, NEW q \in Seq(E), NEW new
  PROVE  Extended(q, q, new) /\ HeadStays(q, q, new)
<1> DEFINE pos == [i \in 1 .. Len(q) |-> i]
<1>1. Len(q) \in Nat
  OBVIOUS
<1>2. Embeds(pos, q, q)
  BY <1>1 DEF Embeds
<1>3. \A j \in 1 .. Len(q) : Meets(pos, q, j)
  BY DEF Meets
<1>4. Extended(q, q, new)
  <2> HIDE DEF pos
  <2> QED BY <1>2, <1>3 DEF Extended
<1> QED BY <1>4 DEF HeadStays

(* A single event. *)
LEMMA AddEventExtends ==
  ASSUME NEW E, \A x \in E : x.after \in Int, NEW q \in Seq(E), NEW e \in E
  PROVE  LET t == AddEvent(q, e)
         IN  t \in Seq(E) /\ Extended(q, t, {e}) /\ HeadStays(q, t, {e}) /\ (Sorted(q) => Sorted(t))
<1>1. Extended(q, q, {e}) /\ HeadStays(q, q, {e})
  BY ExtendsItself
<1>2. e \in {e}
  OBVIOUS
<1>3. AddEvent(q, e) \in Seq(E)
  BY AddEventInserts
<1>4. /\ Extended(q, AddEvent(q, e), {e}) /\ HeadStays(q, AddEvent(q, e), {e})
      /\ Sorted(q) => Sorted(AddEvent(q, e))
  BY <1>1, <1>2, ExtendsByOne
<1> QED BY <1>3, <1>4

(* What AddEvents makes of a list. *)
LEMMA AddEventsExtends ==
  ASSUME NEW E, \A x \in E : x.after \in Int, NEW q \in Seq(E), NEW events \in Seq(E),
         NEW new, \A i \in 1 .. Len(events) : events[i] \in new
  PROVE  LET t == AddEvents(q, events)
         IN  t \in Seq(E) /\ Extended(q, t, new) /\ HeadStays(q, t, new) /\ (Sorted(q) => Sorted(t))
<1> DEFINE n == Len(events)
           Fits(t) == Extended(q, t, new) /\ HeadStays(q, t, new) /\ (Sorted(q) => Sorted(t))
<1>1. PICK f \in [0 .. n -> Seq(E)] : Grows(f, q, events) /\ AddEvents(q, events) = f[n]
  BY AddEventsSteps
<1>2. n \in Nat /\ \A i \in 1 .. n : events[i] \in E /\ events[i] \in new
  OBVIOUS
<1>3. f[0] = q /\ \A i \in 1 .. n : f[i] = AddEvent(f[i - 1], events[i])
  BY <1>1 DEF Grows
<1> DEFINE T == {i \in 0 .. n : Fits(f[i])}
<1>4. 0 \in T
  <2>1. Fits(q)
    BY ExtendsItself
  <2> HIDE DEF Fits
  <2> QED BY <1>2, <1>3, <2>1
<1>5. ASSUME NEW i \in 1 .. n, i - 1 \in T PROVE i \in T
  <2>1. i - 1 \in 0 .. n /\ i \in 0 .. n BY <1>2
  <2>2. f[i - 1] \in Seq(E) BY <2>1
  <2>3. PICK s \in Seq(E) : s = f[i - 1] BY <2>2
  <2>4. PICK e \in E : e = events[i] /\ e \in new BY <1>2
  <2>5. Fits(s)
    <3> HIDE DEF Fits
    <3> QED BY <1>5, <2>3
  <2>6. Fits(AddEvent(s, e))
    BY <2>4, <2>5, ExtendsByOne
  <2>7. f[i] = AddEvent(s, e)
    BY <1>3, <2>3, <2>4
  <2> HIDE DEF Fits
  <2> QED BY <2>1, <2>6, <2>7
<1>6. \A i \in 0 .. n : i \in T
  <2> HIDE DEF T, n
  <2> QED BY <1>2, <1>4, <1>5, UpTo
<1>7. Fits(f[n]) /\ f[n] \in Seq(E)
  <2>1. n \in 0 .. n BY <1>2
  <2> HIDE DEF Fits
  <2> QED BY <1>6, <2>1
<1> QED
  <2> HIDE DEF n
  <2>1. AddEvents(q, events) = f[n] BY <1>1
  <2> QED BY <1>7, <2>1 DEF n
=============================================================================
