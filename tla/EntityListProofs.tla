-------------------------- MODULE EntityListProofs --------------------------
(***************************************************************************)
(* Theorems about EntityList, for any number of slots, edicts, entities    *)
(* and serial numbers.                                                     *)
(***************************************************************************)
EXTENDS EntityList, FiniteSetTheorems, SequenceTheorems, WellFoundedInduction, TLAPS

Colours == Lists \cup {"none"}

(* No list runs in a circle: some rank grows along the links. *)
Ranks(l, rank) ==
  \A s \in Slots : l.next[s] \in Slots /\ l.next[s] # s => rank[s] < rank[l.next[s]]

Acyclic(l) == \E rank \in [Slots -> Nat] : Ranks(l, rank)

(* Taking a slot out of its list keeps the other slots linked. *)
LEMMA UnlinkKeeps ==
  ASSUME NEW l, NEW col \in [Slots -> Colours], NEW list \in Lists, NEW s \in Slots,
         WellLinked(l, col), Acyclic(l), col[s] = list
  PROVE  /\ WellLinked(Unlink(l, list, s), [col EXCEPT ![s] = "none"])
         /\ Acyclic(Unlink(l, list, s))
<1> DEFINE m == Unlink(l, list, s)
           c == [col EXCEPT ![s] = "none"]
<1>1. l \in Links /\ Nil \notin Slots
  BY SlotsAssumption DEF WellLinked, Slots
<1>2. list # "none"
  BY DEF Lists
<1>3. /\ l.next[s] # s /\ l.prev[s] # s
      /\ l.next[s] \in Slots \cup {Nil} /\ l.prev[s] \in Slots \cup {Nil}
      /\ IF l.next[s] = Nil THEN l.tail[list] = s
         ELSE l.prev[l.next[s]] = s /\ col[l.next[s]] = list
      /\ IF l.prev[s] = Nil THEN l.head[list] = s
         ELSE l.next[l.prev[s]] = s /\ col[l.prev[s]] = list
  BY <1>1, <1>2 DEF WellLinked, Links
<1>4. /\ m.next = [t \in Slots |-> IF t = s THEN s ELSE IF t = l.prev[s] THEN l.next[s] ELSE l.next[t]]
      /\ m.prev = [t \in Slots |-> IF t = s THEN s ELSE IF t = l.next[s] THEN l.prev[s] ELSE l.prev[t]]
      /\ m.head = [l.head EXCEPT ![list] = IF l.prev[s] = Nil THEN l.next[s] ELSE @]
      /\ m.tail = [l.tail EXCEPT ![list] = IF l.next[s] = Nil THEN l.prev[s] ELSE @]
      /\ m \in Links
  BY <1>1, <1>3 DEF Unlink, IsInList, Links
<1> HIDE DEF m
<1> PICK rank \in [Slots -> Nat] : Ranks(l, rank)
  BY DEF Acyclic
<1>8. l.next[s] # Nil /\ l.prev[s] # Nil => rank[l.prev[s]] < rank[l.next[s]] /\ l.prev[s] # l.next[s]
  <2> SUFFICES ASSUME l.next[s] # Nil, l.prev[s] # Nil
               PROVE  rank[l.prev[s]] < rank[l.next[s]] /\ l.prev[s] # l.next[s]
    OBVIOUS
  <2>1. rank[l.prev[s]] < rank[s] /\ rank[s] < rank[l.next[s]]
    BY <1>3 DEF Ranks
  <2>2. rank[l.prev[s]] \in Nat /\ rank[s] \in Nat /\ rank[l.next[s]] \in Nat
    BY <1>3
  <2> QED BY <2>1, <2>2
<1>9. Ranks(m, rank)
  <2> SUFFICES ASSUME NEW t \in Slots, m.next[t] \in Slots, m.next[t] # t
               PROVE  rank[t] < rank[m.next[t]]
    BY DEF Ranks
  <2>1. CASE t = l.prev[s] /\ t # s
    BY <2>1, <1>8, <1>4, <1>1, <1>3
  <2>2. CASE t # l.prev[s] \/ t = s
    BY <2>2, <1>4 DEF Ranks
  <2> QED BY <2>1, <2>2
<1>5. ASSUME NEW t \in Slots
      PROVE  IF c[t] = "none" THEN m.next[t] = t /\ m.prev[t] = t
             ELSE /\ m.next[t] # t /\ m.prev[t] # t
                  /\ IF m.next[t] = Nil THEN m.tail[c[t]] = t
                     ELSE m.prev[m.next[t]] = t /\ c[m.next[t]] = c[t]
                  /\ IF m.prev[t] = Nil THEN m.head[c[t]] = t
                     ELSE m.next[m.prev[t]] = t /\ c[m.prev[t]] = c[t]
  <2>1. CASE t = s
    BY <2>1, <1>4
  <2>2. CASE t # s /\ col[t] = "none"
    <3>1. l.next[t] = t /\ l.prev[t] = t
      BY <2>2 DEF WellLinked
    <3>2. t # l.next[s] /\ t # l.prev[s]
      BY <1>3, <1>1, <1>2, <2>2
    <3> QED BY <3>1, <3>2, <2>2, <1>4
  <2>3. CASE t # s /\ col[t] # "none"
    <3>1. /\ l.next[t] # t /\ l.prev[t] # t
          /\ l.next[t] \in Slots \cup {Nil} /\ l.prev[t] \in Slots \cup {Nil}
          /\ IF l.next[t] = Nil THEN l.tail[col[t]] = t
             ELSE l.prev[l.next[t]] = t /\ col[l.next[t]] = col[t]
          /\ IF l.prev[t] = Nil THEN l.head[col[t]] = t
             ELSE l.next[l.prev[t]] = t /\ col[l.prev[t]] = col[t]
      BY <2>3, <1>1 DEF WellLinked, Links
    <3>2. col[t] \in Lists /\ c[t] = col[t]
      BY <2>3 DEF Colours
    <3>3. /\ m.next[t] # t /\ m.prev[t] # t
      BY <3>1, <2>3, <1>3, <1>4, <1>1, <1>8
    <3>4. IF m.next[t] = Nil THEN m.tail[c[t]] = t
          ELSE m.prev[m.next[t]] = t /\ c[m.next[t]] = c[t]
      <4>1. CASE t = l.prev[s]
        <5>1. l.next[t] = s /\ col[t] = list /\ m.next[t] = l.next[s]
          BY <4>1, <1>3, <1>4, <1>1, <2>3
        <5>2. CASE l.next[s] = Nil
          BY <5>1, <5>2, <4>1, <3>2, <1>4, <1>1 DEF Links
        <5>3. CASE l.next[s] # Nil
          BY <5>1, <5>3, <4>1, <3>2, <1>3, <1>4, <1>1, <2>3
        <5> QED BY <5>2, <5>3
      <4>2. CASE t # l.prev[s]
        <5>1. m.next[t] = l.next[t]
          BY <4>2, <2>3, <1>4
        <5>2. CASE l.next[t] = Nil
          BY <5>1, <5>2, <3>1, <3>2, <1>3, <1>4, <1>1, <2>3 DEF Links
        <5>3. CASE l.next[t] # Nil
          <6>1. l.next[t] \in Slots /\ l.next[t] # s /\ l.prev[l.next[t]] = t
            BY <5>3, <3>1, <4>2
          <6>2. l.next[t] # l.next[s]
            BY <6>1, <1>3, <2>3, <5>3
          <6> QED BY <5>1, <5>3, <6>1, <6>2, <3>1, <3>2, <1>4
        <5> QED BY <5>2, <5>3
      <4> QED BY <4>1, <4>2
    <3>5. IF m.prev[t] = Nil THEN m.head[c[t]] = t
          ELSE m.next[m.prev[t]] = t /\ c[m.prev[t]] = c[t]
      <4>1. CASE t = l.next[s]
        <5>1. l.prev[t] = s /\ col[t] = list /\ m.prev[t] = l.prev[s]
          BY <4>1, <1>3, <1>4, <1>1, <2>3
        <5>2. CASE l.prev[s] = Nil
          BY <5>1, <5>2, <4>1, <3>2, <1>4, <1>1 DEF Links
        <5>3. CASE l.prev[s] # Nil
          BY <5>1, <5>3, <4>1, <3>2, <1>3, <1>4, <1>1, <2>3
        <5> QED BY <5>2, <5>3
      <4>2. CASE t # l.next[s]
        <5>1. m.prev[t] = l.prev[t]
          BY <4>2, <2>3, <1>4
        <5>2. CASE l.prev[t] = Nil
          BY <5>1, <5>2, <3>1, <3>2, <1>3, <1>4, <1>1, <2>3 DEF Links
        <5>3. CASE l.prev[t] # Nil
          <6>1. l.prev[t] \in Slots /\ l.prev[t] # s /\ l.next[l.prev[t]] = t
            BY <5>3, <3>1, <4>2
          <6>2. l.prev[t] # l.prev[s]
            BY <6>1, <1>3, <2>3, <5>3
          <6> QED BY <5>1, <5>3, <6>1, <6>2, <3>1, <3>2, <1>4
        <5> QED BY <5>2, <5>3
      <4> QED BY <4>1, <4>2
    <3>6. c[t] # "none"
      BY <3>2, <2>3
    <3> QED BY <3>3, <3>4, <3>5, <3>6
  <2> QED BY <2>1, <2>2, <2>3
<1>6. ASSUME NEW k \in Lists
      PROVE  /\ IF m.head[k] = Nil THEN m.tail[k] = Nil
                ELSE c[m.head[k]] = k /\ m.prev[m.head[k]] = Nil
             /\ IF m.tail[k] = Nil THEN m.head[k] = Nil
                ELSE c[m.tail[k]] = k /\ m.next[m.tail[k]] = Nil
  <2>1. /\ l.head[k] \in Slots \cup {Nil} /\ l.tail[k] \in Slots \cup {Nil}
        /\ IF l.head[k] = Nil THEN l.tail[k] = Nil
           ELSE col[l.head[k]] = k /\ l.prev[l.head[k]] = Nil
        /\ IF l.tail[k] = Nil THEN l.head[k] = Nil
           ELSE col[l.tail[k]] = k /\ l.next[l.tail[k]] = Nil
    BY <1>1 DEF WellLinked, Links
  <2>2. CASE k # list
    <3>1. m.head[k] = l.head[k] /\ m.tail[k] = l.tail[k]
      BY <2>2, <1>4, <1>1 DEF Links
    <3>2. l.head[k] # Nil => l.head[k] # s /\ l.head[k] # l.next[s]
      BY <2>1, <2>2, <1>3
    <3>3. l.tail[k] # Nil => l.tail[k] # s /\ l.tail[k] # l.prev[s]
      BY <2>1, <2>2, <1>3
    <3> QED BY <3>1, <3>2, <3>3, <2>1, <1>4, <1>1
  <2>3. CASE k = list
    <3>1. /\ m.head[k] = IF l.prev[s] = Nil THEN l.next[s] ELSE l.head[k]
          /\ m.tail[k] = IF l.next[s] = Nil THEN l.prev[s] ELSE l.tail[k]
      BY <2>3, <1>4, <1>1 DEF Links
    <3>2. CASE l.prev[s] = Nil /\ l.next[s] = Nil
      BY <3>1, <3>2
    <3>3. CASE l.prev[s] = Nil /\ l.next[s] # Nil
      <4>1. m.head[k] = l.next[s] /\ m.tail[k] = l.tail[k] /\ l.head[k] = s
        BY <3>1, <3>3, <1>3, <2>3
      <4>2. l.tail[k] # Nil /\ l.tail[k] # s
        BY <4>1, <2>1, <3>3, <1>1
      <4> QED BY <4>1, <4>2, <3>3, <2>1, <1>3, <1>4, <1>1, <2>3
    <3>4. CASE l.prev[s] # Nil /\ l.next[s] = Nil
      <4>1. m.head[k] = l.head[k] /\ m.tail[k] = l.prev[s] /\ l.tail[k] = s
        BY <3>1, <3>4, <1>3, <2>3
      <4>2. l.head[k] # Nil /\ l.head[k] # s
        BY <4>1, <2>1, <3>4, <1>1
      <4> QED BY <4>1, <4>2, <3>4, <2>1, <1>3, <1>4, <1>1, <2>3
    <3>5. CASE l.prev[s] # Nil /\ l.next[s] # Nil
      <4>1. m.head[k] = l.head[k] /\ m.tail[k] = l.tail[k]
        BY <3>1, <3>5
      <4>2. (l.head[k] # Nil => l.head[k] # s) /\ (l.tail[k] # Nil => l.tail[k] # s)
        BY <2>1, <3>5
      <4>3. (l.head[k] # Nil => l.head[k] # l.next[s]) /\ (l.tail[k] # Nil => l.tail[k] # l.prev[s])
        BY <2>1, <3>5, <1>3, <1>1
      <4> QED BY <4>1, <4>2, <4>3, <2>1, <1>4, <1>1
    <3> QED BY <3>2, <3>3, <3>4, <3>5
  <2> QED BY <2>2, <2>3
<1> HIDE DEF c
<1>7. WellLinked(m, c)
  BY <1>4, <1>5, <1>6 DEF WellLinked
<1> QED BY <1>7, <1>9 DEF c, m, Acyclic

(* Putting a slot that is in no list at the end of one. *)
LEMMA AddKeeps ==
  ASSUME NEW l, NEW col \in [Slots -> Colours], NEW list \in Lists, NEW s \in Slots,
         WellLinked(l, col), Acyclic(l), col[s] = "none"
  PROVE  /\ WellLinked(AddToTail(l, list, s), [col EXCEPT ![s] = list])
         /\ Acyclic(AddToTail(l, list, s))
<1> DEFINE m == AddToTail(l, list, s)
           c == [col EXCEPT ![s] = list]
           e == l.tail[list]
<1>1. l \in Links /\ Nil \notin Slots /\ list # "none"
  BY SlotsAssumption DEF WellLinked, Slots, Lists
<1>2. /\ e \in Slots \cup {Nil}
      /\ IF e = Nil THEN l.head[list] = Nil
         ELSE e # s /\ col[e] = list /\ l.next[e] = Nil
  BY <1>1 DEF WellLinked, Links
<1>3. /\ m.next = [t \in Slots |-> IF t = s THEN Nil ELSE IF t = e THEN s ELSE l.next[t]]
      /\ m.prev = [l.prev EXCEPT ![s] = e]
      /\ m.head = [l.head EXCEPT ![list] = IF e = Nil THEN s ELSE @]
      /\ m.tail = [l.tail EXCEPT ![list] = s]
      /\ m \in Links
  BY <1>1, <1>2 DEF AddToTail, Links
<1>4. /\ m.prev[s] = e /\ m.next[s] = Nil /\ m.tail[list] = s
      /\ \A t \in Slots \ {s} : m.prev[t] = l.prev[t]
      /\ m.head[list] = IF e = Nil THEN s ELSE l.head[list]
      /\ \A k \in Lists \ {list} : m.head[k] = l.head[k] /\ m.tail[k] = l.tail[k]
  BY <1>1, <1>3 DEF Links
<1> HIDE DEF m, e
<1>5. ASSUME NEW t \in Slots, t # s, col[t] # "none"
      PROVE  /\ l.next[t] # t /\ l.prev[t] # t /\ l.next[t] # s /\ l.prev[t] # s
             /\ l.next[t] \in Slots \cup {Nil} /\ l.prev[t] \in Slots \cup {Nil}
             /\ IF l.next[t] = Nil THEN l.tail[col[t]] = t
                ELSE l.prev[l.next[t]] = t /\ col[l.next[t]] = col[t]
             /\ IF l.prev[t] = Nil THEN l.head[col[t]] = t
                ELSE l.next[l.prev[t]] = t /\ col[l.prev[t]] = col[t]
             /\ col[t] \in Lists
  <2>1. /\ l.next[t] # t /\ l.prev[t] # t
        /\ l.next[t] \in Slots \cup {Nil} /\ l.prev[t] \in Slots \cup {Nil}
        /\ IF l.next[t] = Nil THEN l.tail[col[t]] = t
           ELSE l.prev[l.next[t]] = t /\ col[l.next[t]] = col[t]
        /\ IF l.prev[t] = Nil THEN l.head[col[t]] = t
           ELSE l.next[l.prev[t]] = t /\ col[l.prev[t]] = col[t]
        /\ col[t] \in Lists
    BY <1>5, <1>1 DEF WellLinked, Links, Colours
  <2>2. l.next[t] # s /\ l.prev[t] # s
    BY <2>1, <1>5, <1>1
  <2> QED BY <2>1, <2>2
<1>6. ASSUME NEW t \in Slots
      PROVE  IF c[t] = "none" THEN m.next[t] = t /\ m.prev[t] = t
             ELSE /\ m.next[t] # t /\ m.prev[t] # t
                  /\ IF m.next[t] = Nil THEN m.tail[c[t]] = t
                     ELSE m.prev[m.next[t]] = t /\ c[m.next[t]] = c[t]
                  /\ IF m.prev[t] = Nil THEN m.head[c[t]] = t
                     ELSE m.next[m.prev[t]] = t /\ c[m.prev[t]] = c[t]
  <2>1. CASE t = s
    <3>1. c[t] = list
      BY <2>1
    <3>2. m.next[t] = Nil /\ m.prev[t] = e /\ m.tail[list] = t /\ e # t
      BY <2>1, <1>2, <1>4, <1>1
    <3>3. CASE e = Nil
      BY <3>1, <3>2, <3>3, <2>1, <1>1, <1>4
    <3>4. CASE e # Nil
      <4>1. m.next[e] = t /\ c[e] = list
        BY <3>4, <1>2, <1>3, <2>1
      <4> QED BY <4>1, <3>1, <3>2, <3>4, <2>1, <1>1
    <3> QED BY <3>3, <3>4
  <2>2. CASE t # s /\ col[t] = "none"
    <3>1. l.next[t] = t /\ l.prev[t] = t /\ c[t] = "none"
      BY <2>2 DEF WellLinked
    <3>2. t # e
      BY <2>2, <1>2, <1>1
    <3> QED BY <3>1, <3>2, <2>2, <1>3, <1>4
  <2>3. CASE t # s /\ col[t] # "none"
    <3>1. c[t] = col[t] /\ m.prev[t] = l.prev[t]
      BY <2>3, <1>4
    <3>2. CASE t = e
      <4>1. m.next[t] = s /\ m.prev[s] = t /\ c[s] = list /\ col[t] = list
        BY <3>2, <2>3, <1>2, <1>3, <1>4, <1>1
      <4>2. IF m.prev[t] = Nil THEN m.head[c[t]] = t
            ELSE m.next[m.prev[t]] = t /\ c[m.prev[t]] = c[t]
        BY <4>1, <3>1, <3>2, <2>3, <1>5, <1>2, <1>3, <1>4, <1>1
      <4> QED BY <4>1, <4>2, <3>1, <2>3, <1>5, <1>1
    <3>3. CASE t # e
      <4>1. m.next[t] = l.next[t]
        BY <3>3, <2>3, <1>3
      <4>2. IF m.next[t] = Nil THEN m.tail[c[t]] = t
            ELSE m.prev[m.next[t]] = t /\ c[m.next[t]] = c[t]
        BY <4>1, <3>1, <3>3, <2>3, <1>5, <1>4, <1>1 DEF e
      <4>3. IF m.prev[t] = Nil THEN m.head[c[t]] = t
            ELSE m.next[m.prev[t]] = t /\ c[m.prev[t]] = c[t]
        <5>1. CASE l.prev[t] = Nil
          <6>1. l.head[col[t]] = t
            BY <5>1, <2>3, <1>5
          <6>2. col[t] = list => e # Nil
            BY <6>1, <1>2, <1>1
          <6> QED BY <5>1, <6>1, <6>2, <3>1, <2>3, <1>5, <1>4
        <5>2. CASE l.prev[t] # Nil
          <6>1. l.next[l.prev[t]] = t /\ l.prev[t] # s /\ l.prev[t] \in Slots
            BY <5>2, <2>3, <1>5
          <6>2. l.prev[t] # e
            BY <6>1, <1>2, <1>1
          <6> QED BY <5>2, <6>1, <6>2, <3>1, <2>3, <1>5, <1>3
        <5> QED BY <5>1, <5>2
      <4> QED BY <4>1, <4>2, <4>3, <3>1, <2>3, <1>5
    <3> QED BY <3>2, <3>3
  <2> QED BY <2>1, <2>2, <2>3
<1>7. ASSUME NEW k \in Lists
      PROVE  /\ IF m.head[k] = Nil THEN m.tail[k] = Nil
                ELSE c[m.head[k]] = k /\ m.prev[m.head[k]] = Nil
             /\ IF m.tail[k] = Nil THEN m.head[k] = Nil
                ELSE c[m.tail[k]] = k /\ m.next[m.tail[k]] = Nil
  <2>1. /\ l.head[k] \in Slots \cup {Nil} /\ l.tail[k] \in Slots \cup {Nil}
        /\ IF l.head[k] = Nil THEN l.tail[k] = Nil
           ELSE col[l.head[k]] = k /\ l.prev[l.head[k]] = Nil
        /\ IF l.tail[k] = Nil THEN l.head[k] = Nil
           ELSE col[l.tail[k]] = k /\ l.next[l.tail[k]] = Nil
    BY <1>1 DEF WellLinked, Links
  <2>2. k # "none"
    BY DEF Lists
  <2>3. CASE k # list
    <3>1. l.head[k] # Nil => l.head[k] # s
      BY <2>1, <2>2
    <3>2. l.tail[k] # Nil => l.tail[k] # s /\ l.tail[k] # e
      BY <2>1, <2>2, <2>3, <1>2
    <3> QED BY <3>1, <3>2, <2>1, <2>3, <1>3, <1>4
  <2>4. CASE k = list
    <3>1. m.tail[k] = s /\ c[s] = k /\ m.next[s] = Nil /\ s # Nil
      BY <2>4, <1>4, <1>1
    <3>2. CASE e = Nil
      BY <3>1, <3>2, <2>4, <1>4, <1>1
    <3>3. CASE e # Nil
      <4>1. m.head[k] = l.head[k] /\ l.head[k] # Nil
        BY <3>3, <2>1, <2>4, <1>4 DEF e
      <4>2. l.head[k] # s
        BY <4>1, <2>1, <2>2
      <4> QED BY <4>1, <4>2, <3>1, <2>1, <1>4
    <3> QED BY <3>2, <3>3
  <2> QED BY <2>3, <2>4
<1> HIDE DEF c
<1>8. WellLinked(m, c)
  BY <1>3, <1>6, <1>7 DEF WellLinked
<1>9. Acyclic(m)
  <2> PICK rank \in [Slots -> Nat] : Ranks(l, rank)
    BY DEF Acyclic
  <2> DEFINE top == IF e = Nil THEN 0 ELSE rank[e] + 1
             r   == [rank EXCEPT ![s] = top]
  <2>1. top \in Nat /\ r \in [Slots -> Nat]
    BY <1>2
  <2>2. ASSUME NEW t \in Slots, m.next[t] \in Slots, m.next[t] # t
        PROVE  r[t] < r[m.next[t]]
    <3>1. t # s
      BY <2>2, <1>4, <1>1
    <3>2. CASE t = e
      <4>1. m.next[t] = s /\ t # Nil
        BY <3>1, <3>2, <1>3, <1>1
      <4>2. r[t] = rank[t] /\ r[s] = rank[t] + 1 /\ rank[t] \in Nat
        BY <4>1, <3>1, <3>2
      <4> QED BY <4>1, <4>2
    <3>3. CASE t # e
      <4>1. m.next[t] = l.next[t]
        BY <3>1, <3>3, <1>3
      <4>2. l.next[t] # s
        BY <4>1, <3>1, <2>2, <1>5 DEF WellLinked
      <4>3. rank[t] < rank[l.next[t]]
        BY <4>1, <2>2 DEF Ranks
      <4> QED BY <4>1, <4>2, <4>3, <3>1, <2>2
    <3> QED BY <3>2, <3>3
  <2>3. Ranks(m, r)
    BY <2>2 DEF Ranks
  <2> QED BY <2>1, <2>3 DEF Acyclic
<1> QED BY <1>8, <1>9 DEF c, m
-----------------------------------------------------------------------------
(* Types.                                                                  *)

CallsOn   == [op : {"update", "updateNow", "destroy"}, ent : Entities]
LoopCalls ==
  [op : {"cleanup", "think", "visit", "clear", "clearEnd", "simulate", "damage", "flush"},
   ent : {Nil}]

Calls == CallsOn \cup LoopCalls

TableTypes ==
  /\ info \in [Slots -> [ent : Entities \cup {Nil}, serial : 0 .. SerialMod - 1]]
  /\ ref \in [Entities -> Handles]
  /\ created \in 0 .. NumEntities
  /\ given \in [Entities -> [handle : Handles, use : Nat]]
  /\ uses \in [Slots -> Nat]

CallTypes ==
  /\ killme \subseteq Entities /\ dead \subseteq Entities
  /\ deleteList \in Seq(Entities) /\ cursor \in 0 .. Len(deleteList)
  /\ pending \in Seq(Entities) /\ thinkers \subseteq Entities
  /\ at \in Entities \cup {Nil}
  /\ stack \in Seq(Calls)

(* The table holds together: see ListsAgree.  The slot that the free list  *)
(* was made without stays empty.                                           *)
TableInv ==
  /\ WellLinked(links, ListOf) /\ Acyclic(links)
  /\ \A s \in Slots :
       info[s].ent # Nil => ref[info[s].ent] = [slot |-> s, serial |-> info[s].serial]
  /\ \A e \in Listed : info[ref[e].slot].ent = e
  /\ info[MaxEdicts].ent = Nil

(* How the handles that were given relate to the serial numbers.           *)
Turns(s, n, serial) == \E k \in Nat : FirstSerial[s] + n = serial + k * SerialMod

HistoryInv ==
  /\ \A e \in Entities : e > created => given[e].handle = Invalid
  /\ \A e \in Listed : given[e] = [handle |-> ref[e], use |-> uses[ref[e].slot]]
  /\ \A s \in Slots : Turns(s, uses[s], info[s].serial)
  /\ \A e \in Entities :
       LET h == given[e].handle
       IN  h # Invalid =>
             /\ h.serial \in Nat
             /\ given[e].use <= uses[h.slot]
             /\ info[h.slot].ent # e => given[e].use < uses[h.slot]
             /\ Turns(h.slot, given[e].use, h.serial)

(* What the assumptions say of the constants, as the proofs use it. *)
LEMMA Constants ==
  /\ NumSlots \in Nat /\ NumSlots > 1 /\ MaxEdicts \in Nat /\ MaxEdicts + 1 < NumSlots
  /\ NumEntities \in Nat /\ SerialMod \in Nat /\ SerialMod > 0
  /\ Nil \notin Slots /\ Nil \notin Entities
  /\ \A h \in Handles : h.slot \in Slots
  /\ Invalid \in Handles /\ Invalid.slot = NumSlots - 1 /\ NumSlots - 1 \in Slots
  /\ \A s \in Slots, n \in 0 .. SerialMod - 1 :
       /\ [slot |-> s, serial |-> n] \in Handles
       /\ [slot |-> s, serial |-> n] # Invalid
<1>1. /\ NumSlots \in Nat /\ NumSlots > 1 /\ MaxEdicts \in Nat /\ MaxEdicts + 1 < NumSlots
      /\ NumEntities \in Nat /\ SerialMod \in Nat /\ SerialMod > 0
      /\ Nil \notin Slots /\ Nil \notin Entities
  BY SlotsAssumption, ListAssumption DEF Slots
<1>2. Invalid.slot = NumSlots - 1 /\ NumSlots - 1 \in Slots /\ Invalid.serial = -1
  BY <1>1 DEF Invalid, Slots
<1> QED BY <1>1, <1>2 DEF Handles

(* The serial number stays in its range: it goes up by one, or comes back  *)
(* to zero.                                                                *)
LEMMA NextSerialIs ==
  ASSUME NEW n \in 0 .. SerialMod - 1
  PROVE  NextSerial(n) = IF n + 1 = SerialMod THEN 0 ELSE n + 1
  BY Constants DEF NextSerial

(* On which list a slot must be, as its type and its value. *)
LEMMA ListOfIs ==
  ASSUME TableTypes
  PROVE  /\ ListOf \in [Slots -> Colours]
         /\ \A s \in Slots : ListOf[s] = IF info[s].ent # Nil THEN "active"
                                         ELSE IF s > MaxEdicts THEN "free" ELSE "none"
  BY DEF ListOf, Colours, Lists

(* A new entity takes a slot that is in no list.                           *)
LEMMA AddOK ==
  ASSUME TableTypes, TableInv, HistoryInv, created < NumEntities,
         NEW s \in Slots, info[s].ent = Nil, s # MaxEdicts,
         NEW l, WellLinked(l, [ListOf EXCEPT ![s] = "none"]), Acyclic(l),
         AddEntityAtSlot(NextEntity, s, l), created' = created + 1
  PROVE  TableTypes' /\ TableInv' /\ HistoryInv'
<1> DEFINE e == NextEntity
           h == [slot |-> s, serial |-> info[s].serial]
<1>1. e = created + 1 /\ e \in Entities /\ created \in Nat /\ e # Nil /\ e > created
  BY Constants DEF NextEntity, Entities, TableTypes
<1>2. /\ info[s].serial \in 0 .. SerialMod - 1
      /\ h \in Handles /\ h # Invalid /\ h.slot = s /\ h.serial \in Nat
  BY Constants DEF TableTypes
<1>3. /\ info' = [info EXCEPT ![s].ent = e]
      /\ links' = AddToTail(l, "active", s)
      /\ ref' = [ref EXCEPT ![e] = h]
      /\ given' = [given EXCEPT ![e] = [handle |-> h, use |-> uses[s]]]
      /\ uses' = uses
  <2>1. ref' = [ref EXCEPT ![e] = h]
    BY DEF AddEntityAtSlot
  <2>2. ref'[e] = h
    BY <2>1, <1>1 DEF TableTypes
  <2> QED BY <2>1, <2>2 DEF AddEntityAtSlot
<1>4. /\ info'[s] = [ent |-> e, serial |-> info[s].serial]
      /\ \A t \in Slots \ {s} : info'[t] = info[t]
      /\ \A t \in Slots : info'[t].serial = info[t].serial
  BY <1>3 DEF TableTypes
<1>5. /\ ref'[e] = h /\ \A f \in Entities \ {e} : ref'[f] = ref[f]
      /\ given'[e] = [handle |-> h, use |-> uses[s]]
      /\ \A f \in Entities \ {e} : given'[f] = given[f]
  BY <1>1, <1>3 DEF TableTypes
<1>6. \A f \in Entities : f # e /\ f > created' => f > created
  BY <1>1 DEF Entities
<1>7. given[e].handle = Invalid /\ ref[e] = Invalid
  <2>1. given[e].handle = Invalid
    <3>1. \A f \in Entities : f > created => given[f].handle = Invalid
      BY DEF HistoryInv
    <3> QED BY <1>1, <3>1
  <2>2. ref[e] # Invalid => given[e].handle = ref[e]
    <3>1. \A f \in Listed : given[f] = [handle |-> ref[f], use |-> uses[ref[f].slot]]
      BY DEF HistoryInv
    <3>2. ref[e] # Invalid => given[e] = [handle |-> ref[e], use |-> uses[ref[e].slot]]
      BY <1>1, <3>1 DEF Listed
    <3> QED BY <3>2
  <2> QED BY <2>1, <2>2
<1>8. \A t \in Slots : info[t].ent # e
  <2>1. ASSUME NEW t \in Slots, info[t].ent # Nil
        PROVE  ref[info[t].ent] # Invalid
    <3>1. ref[info[t].ent] = [slot |-> t, serial |-> info[t].serial]
      BY <2>1 DEF TableInv
    <3>2. info[t].serial \in 0 .. SerialMod - 1
      BY DEF TableTypes
    <3> QED BY <3>1, <3>2, Constants
  <2> QED BY <2>1, <1>1, <1>7
<1>9. TableTypes'
  <2>1. uses[s] \in Nat
    BY DEF TableTypes
  <2>2. info' \in [Slots -> [ent : Entities \cup {Nil}, serial : 0 .. SerialMod - 1]]
    BY <1>1, <1>3 DEF TableTypes
  <2>3. created' \in 0 .. NumEntities
    BY <1>1, Constants
  <2> QED BY <1>1, <1>2, <1>3, <2>1, <2>2, <2>3 DEF TableTypes
<1> HIDE DEF e, h
<1>10. TableInv'
  <2>1. ListOf' = [[ListOf EXCEPT ![s] = "none"] EXCEPT ![s] = "active"]
    <3>1. ASSUME NEW t \in Slots
          PROVE  ListOf'[t] = IF t = s THEN "active" ELSE ListOf[t]
      BY <1>1, <1>4 DEF ListOf
    <3> QED BY <3>1 DEF ListOf
  <2>2. WellLinked(links', ListOf') /\ Acyclic(links')
    BY <2>1, <1>3, AddKeeps, ListOfIs DEF Lists, Colours
  <2>3. \A t \in Slots :
          info'[t].ent # Nil => ref'[info'[t].ent] = [slot |-> t, serial |-> info'[t].serial]
    <3> SUFFICES ASSUME NEW t \in Slots, info'[t].ent # Nil
                 PROVE  ref'[info'[t].ent] = [slot |-> t, serial |-> info'[t].serial]
      OBVIOUS
    <3>1. CASE t = s
      BY <3>1, <1>4, <1>5 DEF h
    <3>2. CASE t # s
      <4>1. info'[t] = info[t] /\ info[t].ent \in Entities /\ info[t].ent # e
        BY <3>2, <1>4, <1>8 DEF TableTypes
      <4>2. ref'[info[t].ent] = ref[info[t].ent]
        BY <4>1, <1>5
      <4> QED BY <4>1, <4>2 DEF TableInv
    <3> QED BY <3>1, <3>2
  <2>4. \A f \in Listed' : info'[ref'[f].slot].ent = f
    <3> SUFFICES ASSUME NEW f \in Entities, ref'[f] # Invalid
                 PROVE  info'[ref'[f].slot].ent = f
      BY DEF Listed
    <3>1. CASE f = e
      BY <3>1, <1>2, <1>4, <1>5
    <3>2. CASE f # e
      <4>1. ref'[f] = ref[f] /\ info[ref[f].slot].ent = f /\ f # Nil /\ ref[f].slot \in Slots
        BY <3>2, <1>5, Constants DEF TableInv, Listed, TableTypes
      <4> QED BY <4>1, <1>4
    <3> QED BY <3>1, <3>2
  <2>5. info'[MaxEdicts].ent = Nil
    <3>1. MaxEdicts \in Slots
      BY Constants DEF Slots
    <3> QED BY <3>1, <1>4 DEF TableInv
  <2> QED BY <2>2, <2>3, <2>4, <2>5 DEF TableInv
<1>11. HistoryInv'
  <2>1. \A f \in Entities : f > created' => given'[f].handle = Invalid
    <3>1. \A f \in Entities : f > created => given[f].handle = Invalid
      BY DEF HistoryInv
    <3>2. ~(e > created')
      BY <1>1
    <3> QED BY <3>1, <3>2, <1>1, <1>5, <1>6
  <2>2. \A f \in Listed' : given'[f] = [handle |-> ref'[f], use |-> uses'[ref'[f].slot]]
    <3> SUFFICES ASSUME NEW f \in Entities, ref'[f] # Invalid
                 PROVE  given'[f] = [handle |-> ref'[f], use |-> uses'[ref'[f].slot]]
      BY DEF Listed
    <3>1. CASE f = e
      BY <3>1, <1>2, <1>3, <1>5
    <3>2. CASE f # e
      BY <3>2, <1>3, <1>5 DEF HistoryInv, Listed
    <3> QED BY <3>1, <3>2
  <2>3. \A t \in Slots : Turns(t, uses'[t], info'[t].serial)
    BY <1>3, <1>4 DEF HistoryInv
  <2>4. ASSUME NEW f \in Entities, given'[f].handle # Invalid
        PROVE  /\ given'[f].handle.serial \in Nat
               /\ given'[f].use <= uses'[given'[f].handle.slot]
               /\ info'[given'[f].handle.slot].ent # f =>
                    given'[f].use < uses'[given'[f].handle.slot]
               /\ Turns(given'[f].handle.slot, given'[f].use, given'[f].handle.serial)
    <3>1. CASE f = e
      <4>1. given'[f].handle = h /\ given'[f].use = uses[s] /\ uses[s] \in Nat
        BY <3>1, <1>5 DEF TableTypes
      <4>2. Turns(s, uses[s], info[s].serial)
        BY DEF HistoryInv
      <4> QED BY <4>1, <4>2, <3>1, <1>2, <1>3, <1>4 DEF h
    <3>2. CASE f # e
      <4>1. given'[f] = given[f] /\ given[f].handle # Invalid /\ given[f].handle.slot \in Slots
        BY <3>2, <2>4, <1>5, Constants DEF TableTypes
      <4>2. /\ given[f].handle.serial \in Nat
            /\ given[f].use <= uses[given[f].handle.slot]
            /\ info[given[f].handle.slot].ent # f => given[f].use < uses[given[f].handle.slot]
            /\ Turns(given[f].handle.slot, given[f].use, given[f].handle.serial)
        BY <4>1 DEF HistoryInv
      <4>3. info'[given[f].handle.slot].ent # f => info[given[f].handle.slot].ent # f
        <5>1. CASE given[f].handle.slot = s
          BY <5>1, Constants
        <5>2. CASE given[f].handle.slot # s
          BY <5>2, <4>1, <1>4
        <5> QED BY <5>1, <5>2
      <4> QED BY <4>1, <4>2, <4>3, <1>3
    <3> QED BY <3>1, <3>2
  <2> QED BY <2>1, <2>2, <2>3, <2>4 DEF HistoryInv
<1> QED BY <1>9, <1>10, <1>11

(* What the table is made of stays as it is.                               *)
LEMMA SameTable ==
  ASSUME TableTypes, TableInv, HistoryInv,
         UNCHANGED <<info, links, ref, created, history>>
  PROVE  TableTypes' /\ TableInv' /\ HistoryInv'
<1>1. ListOf' = ListOf /\ Listed' = Listed
  BY DEF ListOf, Listed
<1>2. info' = info /\ links' = links /\ ref' = ref /\ created' = created
      /\ given' = given /\ uses' = uses
  BY DEF history
<1> QED BY <1>1, <1>2 DEF TableTypes, TableInv, HistoryInv

(* A freed slot gets its next serial number, and changes lists.            *)
LEMMA RemoveOK ==
  ASSUME TableTypes, TableInv, HistoryInv,
         NEW s \in Slots, RemoveEntityAtSlot(s), created' = created
  PROVE  TableTypes' /\ TableInv' /\ HistoryInv'
<1>1. CASE info[s].ent = Nil
  BY <1>1, SameTable DEF RemoveEntityAtSlot, table
<1>2. CASE info[s].ent # Nil
  <2> DEFINE e == info[s].ent
             n == info[s].serial
             m == Unlink(links, "active", s)
  <2>1. e \in Entities /\ n \in 0 .. SerialMod - 1 /\ s # MaxEdicts
        /\ ref[e] = [slot |-> s, serial |-> n] /\ e # Nil /\ ref[e] # Invalid /\ ref[e].slot = s
    <3>1. e \in Entities /\ n \in 0 .. SerialMod - 1 /\ ref[e] = [slot |-> s, serial |-> n]
      BY <1>2 DEF TableTypes, TableInv
    <3>2. s # MaxEdicts
      BY <1>2 DEF TableInv
    <3> QED BY <3>1, <3>2, <1>2, Constants
  <2>2. /\ info' = [info EXCEPT ![s] = [ent |-> Nil, serial |-> NextSerial(n)]]
        /\ links' = IF s >= MaxEdicts THEN AddToTail(m, "free", s) ELSE m
        /\ ref' = [ref EXCEPT ![e] = Invalid]
        /\ uses' = [uses EXCEPT ![s] = @ + 1] /\ given' = given
    BY <1>2 DEF RemoveEntityAtSlot, FreeSlot, TableTypes
  <2>3. NextSerial(n) \in 0 .. SerialMod - 1
    BY <2>1, NextSerialIs, Constants
  <2>4. /\ info'[s] = [ent |-> Nil, serial |-> NextSerial(n)]
        /\ \A t \in Slots \ {s} : info'[t] = info[t]
        /\ ref'[e] = Invalid /\ \A f \in Entities \ {e} : ref'[f] = ref[f]
        /\ uses'[s] = uses[s] + 1 /\ \A t \in Slots \ {s} : uses'[t] = uses[t]
        /\ uses[s] \in Nat
    BY <2>1, <2>2 DEF TableTypes
  <2>5. \A t \in Slots \ {s} : info[t].ent # e
    <3> SUFFICES ASSUME NEW t \in Slots, t # s, info[t].ent = e PROVE FALSE
      OBVIOUS
    <3>1. ref[e] = [slot |-> t, serial |-> info[t].serial]
      BY <2>1 DEF TableInv
    <3> QED BY <3>1, <2>1
  <2>6. TableTypes'
    BY <2>1, <2>2, <2>3, Constants DEF TableTypes
  <2> HIDE DEF e, n, m
  <2>7. TableInv'
    <3>1. ListOf[s] = "active"
      BY <1>2, ListOfIs
    <3>2. /\ WellLinked(m, [ListOf EXCEPT ![s] = "none"]) /\ Acyclic(m)
          /\ [ListOf EXCEPT ![s] = "none"] \in [Slots -> Colours]
          /\ [ListOf EXCEPT ![s] = "none"][s] = "none"
      BY <3>1, UnlinkKeeps, ListOfIs DEF TableInv, Lists, Colours, m
    <3>3. \A t \in Slots : ListOf'[t] = IF t = s THEN IF s > MaxEdicts THEN "free" ELSE "none"
                                        ELSE ListOf[t]
      BY <2>4 DEF ListOf
    <3>4. WellLinked(links', ListOf') /\ Acyclic(links')
      <4>1. CASE s > MaxEdicts
        <5>1. ListOf' = [[ListOf EXCEPT ![s] = "none"] EXCEPT ![s] = "free"]
          BY <4>1, <3>3 DEF ListOf
        <5>2. links' = AddToTail(m, "free", s)
          BY <4>1, <2>2, Constants DEF Slots
        <5> QED BY <5>1, <5>2, <3>2, AddKeeps DEF Lists
      <4>2. CASE ~(s > MaxEdicts)
        <5>1. ListOf' = [ListOf EXCEPT ![s] = "none"]
          BY <4>2, <3>3 DEF ListOf
        <5>2. links' = m
          BY <4>2, <2>1, <2>2, Constants DEF Slots
        <5> QED BY <5>1, <5>2, <3>2
      <4> QED BY <4>1, <4>2
    <3>5. \A t \in Slots :
            info'[t].ent # Nil => ref'[info'[t].ent] = [slot |-> t, serial |-> info'[t].serial]
      <4> SUFFICES ASSUME NEW t \in Slots, info'[t].ent # Nil
                   PROVE  ref'[info'[t].ent] = [slot |-> t, serial |-> info'[t].serial]
        OBVIOUS
      <4>1. t # s
        BY <2>4
      <4>2. info'[t] = info[t] /\ info[t].ent \in Entities \ {e}
        BY <4>1, <2>4, <2>5 DEF TableTypes
      <4> QED BY <4>2, <2>4 DEF TableInv
    <3>6. \A f \in Listed' : info'[ref'[f].slot].ent = f
      <4> SUFFICES ASSUME NEW f \in Entities, ref'[f] # Invalid
                   PROVE  info'[ref'[f].slot].ent = f
        BY DEF Listed
      <4>1. f # e
        BY <2>4
      <4>2. ref'[f] = ref[f] /\ info[ref[f].slot].ent = f /\ ref[f].slot \in Slots
        BY <4>1, <2>4, Constants DEF TableInv, Listed, TableTypes
      <4>3. ref[f].slot # s
        BY <4>1, <4>2 DEF e
      <4> QED BY <4>2, <4>3, <2>4
    <3>7. info'[MaxEdicts].ent = Nil
      <4>1. MaxEdicts \in Slots
        BY Constants DEF Slots
      <4> QED BY <4>1, <2>4 DEF TableInv
    <3> QED BY <3>4, <3>5, <3>6, <3>7 DEF TableInv
  <2>8. HistoryInv'
    <3>1. \A f \in Entities : f > created' => given'[f].handle = Invalid
      BY <2>2 DEF HistoryInv
    <3>2. \A f \in Listed' : given'[f] = [handle |-> ref'[f], use |-> uses'[ref'[f].slot]]
      <4> SUFFICES ASSUME NEW f \in Entities, ref'[f] # Invalid
                   PROVE  given'[f] = [handle |-> ref'[f], use |-> uses'[ref'[f].slot]]
        BY DEF Listed
      <4>1. f # e
        BY <2>4
      <4>2. ref'[f] = ref[f] /\ f \in Listed /\ ref[f].slot \in Slots
        BY <4>1, <2>4, Constants DEF Listed, TableTypes
      <4>3. ref[f].slot # s
        BY <4>1, <4>2 DEF e, TableInv
      <4>4. uses'[ref[f].slot] = uses[ref[f].slot]
        BY <4>2, <4>3, <2>4
      <4>5. given[f] = [handle |-> ref[f], use |-> uses[ref[f].slot]]
        BY <4>2 DEF HistoryInv
      <4> QED BY <4>2, <4>4, <4>5, <2>2
    <3>3. \A t \in Slots : Turns(t, uses'[t], info'[t].serial)
      <4> SUFFICES ASSUME NEW t \in Slots PROVE Turns(t, uses'[t], info'[t].serial)
        OBVIOUS
      <4>1. Turns(t, uses[t], info[t].serial)
        BY DEF HistoryInv
      <4>2. CASE t # s
        BY <4>1, <4>2, <2>4
      <4>3. CASE t = s
        <5>1. PICK k \in Nat : FirstSerial[s] + uses[s] = n + k * SerialMod
          BY <4>1, <4>3 DEF Turns, n
        <5>2. FirstSerial[s] \in Nat /\ SerialMod \in Nat /\ n \in Nat /\ uses[s] \in Nat
          BY <2>1, <2>4, Constants, ListAssumption
        <5>3. info'[s].serial = NextSerial(n) /\ uses'[s] = uses[s] + 1
          BY <2>4
        <5>4. CASE n + 1 = SerialMod
          <6>1. NextSerial(n) = 0 /\ k + 1 \in Nat
            BY <5>4, <2>1, NextSerialIs
          <6>2. (k + 1) * SerialMod = k * SerialMod + SerialMod
            BY <5>2
          <6>3. k * SerialMod \in Nat
            BY <5>2
          <6>4. FirstSerial[s] + uses'[s] = 0 + (k + 1) * SerialMod
            BY <5>1, <5>2, <5>3, <5>4, <6>2, <6>3
          <6> QED BY <6>1, <6>4, <5>3, <4>3 DEF Turns
        <5>5. CASE n + 1 # SerialMod
          <6>1. NextSerial(n) = n + 1
            BY <5>5, <2>1, NextSerialIs
          <6>2. k * SerialMod \in Nat
            BY <5>2
          <6>3. FirstSerial[s] + uses'[s] = (n + 1) + k * SerialMod
            BY <5>1, <5>2, <5>3, <6>2
          <6> QED BY <6>1, <6>3, <5>3, <4>3 DEF Turns
        <5> QED BY <5>4, <5>5
      <4> QED BY <4>2, <4>3
    <3>4. ASSUME NEW f \in Entities, given'[f].handle # Invalid
          PROVE  /\ given'[f].handle.serial \in Nat
                 /\ given'[f].use <= uses'[given'[f].handle.slot]
                 /\ info'[given'[f].handle.slot].ent # f =>
                      given'[f].use < uses'[given'[f].handle.slot]
                 /\ Turns(given'[f].handle.slot, given'[f].use, given'[f].handle.serial)
      <4> DEFINE t == given[f].handle.slot
                 u == given[f].use
      <4>1. given' = given /\ t \in Slots /\ u \in Nat /\ uses[t] \in Nat
        BY <2>2, Constants DEF TableTypes
      <4>2. /\ given[f].handle.serial \in Nat
            /\ u <= uses[t]
            /\ info[t].ent # f => u < uses[t]
            /\ Turns(t, u, given[f].handle.serial)
        BY <3>4, <4>1 DEF HistoryInv
      <4> HIDE DEF t, u
      <4>3. u <= uses'[t] /\ (info'[t].ent # f => u < uses'[t])
        <5>1. CASE t = s
          BY <5>1, <4>1, <4>2, <2>4
        <5>2. CASE t # s
          BY <5>2, <4>1, <4>2, <2>4
        <5> QED BY <5>1, <5>2
      <4> QED BY <4>1, <4>2, <4>3 DEF t, u
    <3> QED BY <3>1, <3>2, <3>3, <3>4 DEF HistoryInv
  <2> QED BY <2>6, <2>7, <2>8
<1> QED BY <1>1, <1>2
-----------------------------------------------------------------------------
(* The calls in progress.                                                  *)

(* The innermost call and the stack without it. *)
LEMMA TopIs ==
  ASSUME stack \in Seq(Calls), stack # <<>>
  PROVE  /\ Len(stack) \in Nat \ {0}
         /\ stack[Len(stack)] = Call(Top, TopEnt) /\ stack[Len(stack)] \in Calls
         /\ Without \in Seq(Calls) /\ Len(Without) = Len(stack) - 1
         /\ \A i \in 1 .. Len(stack) - 1 : Without[i] = stack[i]
         /\ Top \in {"update", "updateNow", "destroy"} <=> TopEnt \in Entities
         /\ TopEnt \in Entities \cup {Nil}
<1>1. Len(stack) \in Nat \ {0} /\ stack[Len(stack)] \in Calls
  OBVIOUS
<1>2. /\ Without \in Seq(Calls) /\ Len(Without) = Len(stack) - 1
      /\ \A i \in 1 .. Len(stack) - 1 : Without[i] = stack[i]
  <2> DEFINE n == Len(stack) - 1
             w == SubSeq(stack, 1, n)
  <2>1. n \in Nat /\ \A i \in 1 .. n : stack[i] \in Calls
    BY <1>1
  <2>2. Without = w
    BY DEF Without
  <2> HIDE DEF n
  <2>3. /\ w \in Seq(Calls)
        /\ Len(w) = IF 1 <= n THEN n - 1 + 1 ELSE 0
        /\ \A i \in 1 .. n - 1 + 1 : w[i] = stack[1 + i - 1]
    BY <2>1, SubSeqProperties
  <2> HIDE DEF w
  <2>4. Len(w) = n /\ n - 1 + 1 = n
    BY <2>1, <2>3
  <2>5. \A i \in 1 .. n : 1 + i - 1 = i
    OBVIOUS
  <2>6. \A i \in 1 .. n : w[i] = stack[i]
    BY <2>3, <2>4, <2>5
  <2> QED BY <2>2, <2>3, <2>4, <2>6 DEF n
<1>3. stack[Len(stack)] = Call(Top, TopEnt)
  BY <1>1 DEF Call, Top, TopEnt, Calls, CallsOn, LoopCalls
<1>4. Top \in {"update", "updateNow", "destroy"} <=> TopEnt \in Entities
  BY <1>1, Constants DEF Top, TopEnt, Calls, CallsOn, LoopCalls
<1>5. TopEnt \in Entities \cup {Nil}
  BY <1>1 DEF TopEnt, Calls, CallsOn, LoopCalls
<1> QED BY <1>1, <1>2, <1>3, <1>4, <1>5

(* The calls the actions make are calls. *)
LEMMA CallIs ==
  /\ \A e \in Entities, op \in {"update", "updateNow", "destroy"} : Call(op, e) \in Calls
  /\ \A op \in {"cleanup", "think", "visit", "clear", "clearEnd", "simulate", "damage", "flush"} :
       Call(op, Nil) \in Calls
  BY DEF Call, Calls, CallsOn, LoopCalls

(* What the steps do to the stack.                                         *)
LEMMA PushIs ==
  ASSUME stack \in Seq(Calls), NEW c \in Calls, stack' = Append(stack, c)
  PROVE  /\ stack' \in Seq(Calls) /\ Len(stack') = Len(stack) + 1
         /\ stack'[Len(stack) + 1] = c
         /\ \A i \in 1 .. Len(stack) : stack'[i] = stack[i]
  BY AppendProperties

(* A return takes the innermost call off the stack and keeps the rest. *)
LEMMA ReturnIs ==
  ASSUME stack \in Seq(Calls), stack # <<>>, Return
  PROVE  /\ stack' \in Seq(Calls) /\ Len(stack') = Len(stack) - 1
         /\ \A i \in 1 .. Len(stack) - 1 : stack'[i] = stack[i]
  BY TopIs DEF Return

(* A call that goes on as another replaces the innermost one only. *)
LEMMA ReplaceIs ==
  ASSUME stack \in Seq(Calls), stack # <<>>, NEW c \in Calls, stack' = Append(Without, c)
  PROVE  /\ stack' \in Seq(Calls) /\ Len(stack') = Len(stack)
         /\ stack'[Len(stack)] = c
         /\ \A i \in 1 .. Len(stack) - 1 : stack'[i] = stack[i]
<1>1. /\ Without \in Seq(Calls) /\ Len(Without) = Len(stack) - 1
      /\ \A i \in 1 .. Len(stack) - 1 : Without[i] = stack[i]
      /\ Len(stack) \in Nat \ {0}
  BY TopIs
<1> QED BY <1>1, AppendProperties

(* Every step keeps the types of the calls and of what they hold. *)
LEMMA CallTypesKept ==
  ASSUME TableTypes, links \in Links, CallTypes, Next
  PROVE  CallTypes'
<1>0. /\ killme \subseteq Entities /\ dead \subseteq Entities
      /\ deleteList \in Seq(Entities) /\ cursor \in 0 .. Len(deleteList)
      /\ pending \in Seq(Entities) /\ thinkers \subseteq Entities
      /\ at \in Entities \cup {Nil}
      /\ stack \in Seq(Calls)
  BY DEF CallTypes
<1>00. \A s \in Slots \cup {Nil} : EntityAt(s) \in Entities \cup {Nil}
  BY DEF EntityAt, TableTypes
<1> USE DEF removals, loops
<1>1. CASE CreateNetworked \/ CreateServerOnly
  BY <1>0, <1>1 DEF CreateNetworked, CreateServerOnly, CallTypes
<1>2. ASSUME NEW e \in Entities, UTIL_Remove(e),
             UNCHANGED <<dead, deleteList, cursor, thinkers, at>>
      PROVE  CallTypes'
  <2>1. CASE Calling("simulate")
    <3>1. pending' = pending \/ pending' = Append(pending, e)
      BY <1>2, <2>1 DEF UTIL_Remove
    <3>2. pending' \in Seq(Entities)
      BY <1>0, <3>1, SMTT(30)
    <3> QED BY <1>0, <1>2, <2>1, <3>2 DEF UTIL_Remove, CallTypes
  <2>2. CASE ~Calling("simulate")
    <3>1. killme' = killme \cup {e} /\ stack' = Append(stack, Call("update", e)) /\ pending' = pending
      BY <1>2, <2>2 DEF UTIL_Remove, Mark, Push
    <3>2. stack' \in Seq(Calls)
      BY <1>0, <3>1, PushIs, CallIs
    <3> QED BY <1>0, <1>2, <3>1, <3>2 DEF CallTypes
  <2> QED BY <2>1, <2>2
<1>3. ASSUME NEW e \in Entities, Remove(e)
      PROVE  CallTypes'
  BY <1>2, <1>3 DEF Remove
<1>4. ASSUME NEW e \in Entities, RemoveImmediate(e)
      PROVE  CallTypes'
  <2>1. /\ killme' = killme \cup {e}
        /\ \E op \in {"update", "updateNow"} : stack' = Append(stack, Call(op, e))
        /\ UNCHANGED <<dead, deleteList, cursor, pending, thinkers, at>>
    BY <1>4 DEF RemoveImmediate, Mark, Push
  <2>2. stack' \in Seq(Calls)
    BY <1>0, <2>1, PushIs, CallIs
  <2> QED BY <1>0, <2>1, <2>2 DEF CallTypes
<1>5. ASSUME NEW op \in {"cleanup", "think", "visit", "clear", "simulate"}, Push(op, Nil),
             UNCHANGED <<killme, dead, deleteList, cursor, pending>>,
             thinkers' \subseteq Entities, at' \in Entities \cup {Nil}
      PROVE  CallTypes'
  <2>1. stack' \in Seq(Calls)
    BY <1>0, <1>5, PushIs, CallIs DEF Push
  <2> QED BY <1>0, <1>5, <2>1 DEF CallTypes
<1>6. CASE StartCleanup \/ StartThinking \/ StartVisit \/ StartClear \/ StartSimulation
  <2>1. CASE StartCleanup \/ StartThinking \/ StartSimulation
    BY <1>0, <1>5, <2>1 DEF StartCleanup, StartThinking, StartSimulation
  <2>2. CASE StartVisit \/ StartClear
    <3>1. /\ at' = EntityAt(links.head["active"])
          /\ Push("visit", Nil) \/ Push("clear", Nil)
          /\ UNCHANGED <<killme, dead, deleteList, cursor, pending, thinkers>>
      BY <2>2 DEF StartVisit, StartClear, StartWalk
    <3>2. links.head["active"] \in Slots \cup {Nil}
      BY DEF Links, Lists
    <3> QED BY <1>0, <1>00, <1>5, <3>1, <3>2
  <2> QED BY <1>6, <2>1, <2>2
<1>7. ASSUME stack # <<>>, Return,
             UNCHANGED <<killme, pending, thinkers, at>>,
             dead' \subseteq Entities, deleteList' \in Seq(Entities), cursor' \in 0 .. Len(deleteList')
      PROVE  CallTypes'
  <2>1. stack' \in Seq(Calls)
    BY <1>0, <1>7, ReturnIs
  <2> QED BY <1>0, <1>7, <2>1 DEF CallTypes
<1>8. ASSUME stack # <<>>, NEW c \in Calls, stack' = Append(Without, c),
             UNCHANGED <<killme, dead, deleteList, cursor, pending, thinkers, at>>
      PROVE  CallTypes'
  <2>1. stack' \in Seq(Calls)
    BY <1>0, <1>8, ReplaceIs
  <2> QED BY <1>0, <1>8, <2>1 DEF CallTypes
<1>9. CASE AddToDeleteList
  <2>1. stack # <<>> /\ TopEnt \in Entities
    BY <1>0, <1>9, TopIs DEF AddToDeleteList
  <2>2. deleteList' \in Seq(Entities) /\ cursor' \in 0 .. Len(deleteList')
    BY <1>0, <1>9, <2>1 DEF AddToDeleteList
  <2> QED BY <1>0, <1>7, <1>9, <2>1, <2>2 DEF AddToDeleteList
<1>10. CASE DeleteNow
  <2>1. stack # <<>> /\ TopEnt \in Entities
    BY <1>0, <1>10, TopIs DEF DeleteNow
  <2> QED BY <1>8, <1>10, <2>1, CallIs DEF DeleteNow, Replace
<1>11. CASE Destroyed
  <2>1. stack # <<>> /\ TopEnt \in Entities
    BY <1>0, <1>11, TopIs DEF Destroyed
  <2> QED BY <1>0, <1>7, <1>11, <2>1 DEF Destroyed
<1>12. CASE Release
  <2>1. /\ cursor + 1 \in 1 .. Len(deleteList) /\ cursor' = cursor + 1
        /\ stack' = Append(stack, Call("destroy", deleteList[cursor + 1]))
        /\ UNCHANGED <<killme, dead, deleteList, pending, thinkers, at>>
    BY <1>0, <1>12 DEF Release, Push
  <2>2. deleteList[cursor + 1] \in Entities
    BY <1>0, <2>1
  <2>3. stack' \in Seq(Calls)
    BY <1>0, <2>1, <2>2, PushIs, CallIs
  <2> QED BY <1>0, <2>1, <2>3 DEF CallTypes
<1>13. CASE EndCleanup
  BY <1>0, <1>7, <1>13 DEF EndCleanup
<1>14. CASE NextThinker
  <2>1. CASE thinkers = {}
    BY <1>0, <1>7, <1>14, <2>1 DEF NextThinker
  <2>2. CASE thinkers # {}
    BY <1>0, <1>14, <2>2 DEF NextThinker, CallTypes
  <2> QED BY <2>1, <2>2
<1>15. CASE NextVisit \/ ClearNext
  <2>1. /\ at # Nil /\ at' = EntityAt(links.next[ref[at].slot])
        /\ UNCHANGED <<killme, dead, deleteList, cursor, pending, thinkers, stack>>
    BY <1>15 DEF NextVisit, ClearNext, WalkTo, NextEnt
  <2>2. links.next[ref[at].slot] \in Slots \cup {Nil}
    <3>1. ref[at].slot \in Slots
      BY <1>0, <2>1, Constants DEF TableTypes
    <3> QED BY <3>1 DEF Links
  <2> QED BY <1>0, <1>00, <2>1, <2>2 DEF CallTypes
<1>16. CASE EndVisit \/ EndClear
  BY <1>0, <1>7, <1>16 DEF EndVisit, EndClear
<1>17. CASE ClearRemove
  <2>1. at \in Entities
    BY <1>0, <1>17 DEF ClearRemove
  <2> QED BY <1>17, <2>1, <1>2 DEF ClearRemove
<1>18. CASE ClearCleanup
  <2>1. stack # <<>> /\ Without \in Seq(Calls)
    BY <1>0, <1>18, TopIs DEF ClearCleanup
  <2>2. Append(Append(Without, Call("clearEnd", Nil)), Call("cleanup", Nil)) \in Seq(Calls)
    BY <2>1, CallIs
  <2> QED BY <1>0, <1>18, <2>2 DEF ClearCleanup, CallTypes
<1>19. CASE UpdateDamageEvents \/ EndDamageEvents
  BY <1>8, <1>19, CallIs DEF UpdateDamageEvents, EndDamageEvents, Replace
<1>20. CASE UpdateRemoveObjects
  <2>1. CASE pending = <<>>
    BY <1>0, <1>7, <1>20, <2>1 DEF UpdateRemoveObjects
  <2>2. CASE pending # <<>>
    <3>1. Head(pending) \in Entities /\ Tail(pending) \in Seq(Entities)
      BY <1>0, <2>2
    <3>2. /\ UNCHANGED <<dead, deleteList, cursor, thinkers, at>> /\ pending' = Tail(pending)
          /\ \/ UNCHANGED <<killme, stack>>
             \/ /\ killme' = killme \cup {Head(pending)}
                /\ stack' = Append(stack, Call("update", Head(pending)))
      BY <1>20, <2>2 DEF UpdateRemoveObjects, Mark, Push
    <3>3. stack' \in Seq(Calls)
      BY <1>0, <3>1, <3>2, PushIs, CallIs
    <3> QED BY <1>0, <3>1, <3>2, <3>3 DEF CallTypes
  <2> QED BY <2>1, <2>2
<1> QED
  BY <1>1, <1>3, <1>4, <1>6, <1>9, <1>10, <1>11, <1>12, <1>13, <1>14, <1>15, <1>16,
     <1>17, <1>18, <1>19, <1>20 DEF Next, Proceed
-----------------------------------------------------------------------------
(* The inductive invariant.                                                *)

IInv == TableTypes /\ CallTypes /\ TableInv /\ HistoryInv

(* The lists agree with the slots before the first entity is made. *)
LEMMA InitTable == Init => TableInv
<1> SUFFICES ASSUME Init PROVE TableInv
  OBVIOUS
<1> DEFINE Free == MaxEdicts + 1 .. NumSlots - 1
<1>1. /\ info = [s \in Slots |-> [ent |-> Nil, serial |-> FirstSerial[s]]]
      /\ links.next = [s \in Slots |-> IF s \notin Free THEN s
                                       ELSE IF s = NumSlots - 1 THEN Nil ELSE s + 1]
      /\ links.prev = [s \in Slots |-> IF s \notin Free THEN s
                                       ELSE IF s = MaxEdicts + 1 THEN Nil ELSE s - 1]
      /\ links.head = [list \in Lists |-> IF list = "free" THEN MaxEdicts + 1 ELSE Nil]
      /\ links.tail = [list \in Lists |-> IF list = "free" THEN NumSlots - 1 ELSE Nil]
      /\ links = [next |-> links.next, prev |-> links.prev, head |-> links.head, tail |-> links.tail]
      /\ ref = [e \in Entities |-> Invalid]
  BY DEF Init
<1>2. \A s \in Slots : ListOf[s] = (IF s \in Free THEN "free" ELSE "none") /\ s \in Int
  BY <1>1, Constants DEF ListOf, Slots
<1>3. /\ MaxEdicts \in Slots /\ MaxEdicts + 1 \in Free /\ NumSlots - 1 \in Free
      /\ Free \subseteq Slots
      /\ \A s \in Free : (s # NumSlots - 1 => s + 1 \in Free) /\ (s # MaxEdicts + 1 => s - 1 \in Free)
      /\ \A s \in Slots : s \in Int /\ s # Nil /\ s + 1 # s /\ s - 1 # s
                          /\ s + 1 - 1 = s /\ s - 1 + 1 = s
      /\ MaxEdicts \in Nat /\ NumSlots \in Nat
  BY Constants DEF Slots
<1> HIDE DEF Free
<1>4. links \in Links
  <2>1. links.next \in [Slots -> Slots \cup {Nil}] /\ links.prev \in [Slots -> Slots \cup {Nil}]
    BY <1>1, <1>3
  <2>2. links.head \in [Lists -> Slots \cup {Nil}] /\ links.tail \in [Lists -> Slots \cup {Nil}]
    BY <1>1, <1>3
  <2> QED BY <1>1, <2>1, <2>2 DEF Links
<1>5. ASSUME NEW s \in Slots
      PROVE  IF ListOf[s] = "none" THEN links.next[s] = s /\ links.prev[s] = s
             ELSE /\ links.next[s] # s /\ links.prev[s] # s
                  /\ IF links.next[s] = Nil THEN links.tail[ListOf[s]] = s
                     ELSE links.prev[links.next[s]] = s /\ ListOf[links.next[s]] = ListOf[s]
                  /\ IF links.prev[s] = Nil THEN links.head[ListOf[s]] = s
                     ELSE links.next[links.prev[s]] = s /\ ListOf[links.prev[s]] = ListOf[s]
  <2>1. CASE s \notin Free
    BY <1>1, <1>2, <2>1
  <2>2. CASE s \in Free
    <3>1. ListOf[s] = "free" /\ links.tail["free"] = NumSlots - 1 /\ links.head["free"] = MaxEdicts + 1
      BY <1>1, <1>2, <2>2 DEF Lists
    <3>2. /\ links.next[s] # s
          /\ IF links.next[s] = Nil THEN s = NumSlots - 1
             ELSE links.prev[links.next[s]] = s /\ links.next[s] \in Free
      <4>1. CASE s = NumSlots - 1
        BY <1>1, <1>3, <2>2, <4>1
      <4>2. CASE s # NumSlots - 1
        <5>1. links.next[s] = s + 1 /\ s + 1 \in Free /\ s + 1 # Nil /\ s + 1 # s
          BY <1>1, <1>3, <2>2, <4>2
        <5>2. s + 1 # MaxEdicts + 1
          BY <1>3, <2>2 DEF Free
        <5>3. links.prev[s + 1] = s
          BY <1>1, <1>3, <5>1, <5>2
        <5> QED BY <5>1, <5>3
      <4> QED BY <4>1, <4>2
    <3>3. /\ links.prev[s] # s
          /\ IF links.prev[s] = Nil THEN s = MaxEdicts + 1
             ELSE links.next[links.prev[s]] = s /\ links.prev[s] \in Free
      <4>1. CASE s = MaxEdicts + 1
        BY <1>1, <1>3, <2>2, <4>1
      <4>2. CASE s # MaxEdicts + 1
        <5>1. links.prev[s] = s - 1 /\ s - 1 \in Free /\ s - 1 # Nil /\ s - 1 # s
          BY <1>1, <1>3, <2>2, <4>2
        <5>2. s - 1 # NumSlots - 1
          BY <1>3, <2>2 DEF Free
        <5>3. links.next[s - 1] = s
          BY <1>1, <1>3, <5>1, <5>2
        <5> QED BY <5>1, <5>3
      <4> QED BY <4>1, <4>2
    <3>4. \A t \in Free : ListOf[t] = "free"
      BY <1>2, <1>3
    <3> QED BY <3>1, <3>2, <3>3, <3>4
  <2> QED BY <2>1, <2>2
<1>6. ASSUME NEW k \in Lists
      PROVE  /\ IF links.head[k] = Nil THEN links.tail[k] = Nil
                ELSE ListOf[links.head[k]] = k /\ links.prev[links.head[k]] = Nil
             /\ IF links.tail[k] = Nil THEN links.head[k] = Nil
                ELSE ListOf[links.tail[k]] = k /\ links.next[links.tail[k]] = Nil
  <2>1. CASE k = "free"
    <3>1. links.tail[k] = NumSlots - 1 /\ links.head[k] = MaxEdicts + 1
      BY <1>1, <2>1
    <3>2. ListOf[NumSlots - 1] = "free" /\ ListOf[MaxEdicts + 1] = "free"
      BY <1>2, <1>3
    <3>3. links.next[NumSlots - 1] = Nil /\ links.prev[MaxEdicts + 1] = Nil
      BY <1>1, <1>3
    <3> QED BY <3>1, <3>2, <3>3, <1>3, <2>1
  <2>2. CASE k # "free"
    BY <1>1, <2>2
  <2> QED BY <2>1, <2>2
<1>7. Acyclic(links)
  <2> DEFINE rank == [s \in Slots |-> s]
  <2>1. rank \in [Slots -> Nat]
    BY DEF Slots
  <2>2. ASSUME NEW s \in Slots, links.next[s] \in Slots, links.next[s] # s
        PROVE  rank[s] < rank[links.next[s]]
    BY <2>2, <1>1, <1>3
  <2> QED BY <2>1, <2>2 DEF Acyclic, Ranks
<1> QED BY <1>1, <1>3, <1>4, <1>5, <1>6, <1>7 DEF TableInv, WellLinked, Listed

(* The invariant of the table holds initially. *)
LEMMA InitInv == Init => IInv
<1> SUFFICES ASSUME Init PROVE IInv
  OBVIOUS
<1>1. TableTypes
  BY Constants, ListAssumption DEF Init, TableTypes
<1>2. CallTypes
  BY DEF Init, CallTypes
<1>3. HistoryInv
  <2>1. /\ given = [e \in Entities |-> [handle |-> Invalid, use |-> 0]]
        /\ uses = [s \in Slots |-> 0] /\ ref = [e \in Entities |-> Invalid]
        /\ info = [s \in Slots |-> [ent |-> Nil, serial |-> FirstSerial[s]]]
    BY DEF Init
  <2>2. ASSUME NEW s \in Slots PROVE Turns(s, uses[s], info[s].serial)
    <3>1. FirstSerial[s] \in Nat /\ uses[s] = 0 /\ info[s].serial = FirstSerial[s]
      BY <2>1, ListAssumption
    <3>2. FirstSerial[s] + uses[s] = info[s].serial + 0 * SerialMod
      BY <3>1, Constants
    <3> QED BY <3>2 DEF Turns
  <2> QED BY <2>1, <2>2 DEF HistoryInv, Listed
<1> QED BY <1>1, <1>2, <1>3, InitTable DEF IInv

(* Creation, deletion and their nested calls keep the table and its history. *)
LEMMA TableKept ==
  ASSUME IInv, Next
  PROVE  TableTypes' /\ TableInv' /\ HistoryInv'
<1> USE DEF IInv
<1>1. CASE CreateNetworked
  <2>1. PICK s \in 0 .. MaxEdicts - 1 :
          info[s].ent = Nil /\ AddEntityAtSlot(NextEntity, s, links)
    BY <1>1 DEF CreateNetworked
  <2>2. s \in Slots /\ s # MaxEdicts /\ ~(s > MaxEdicts)
    BY Constants DEF Slots
  <2>3. [ListOf EXCEPT ![s] = "none"] = ListOf
    BY <2>1, <2>2 DEF ListOf
  <2>4. created < NumEntities /\ created' = created + 1
    BY <1>1 DEF CreateNetworked, CanCreate
  <2> QED BY <2>1, <2>2, <2>3, <2>4, AddOK DEF TableInv
<1>2. CASE CreateServerOnly
  <2> DEFINE s == links.head["free"]
  <2>1. created < NumEntities /\ created' = created + 1
    BY <1>2 DEF CreateServerOnly, CanCreate
  <2>2. CASE s = Nil
    <3>1. UNCHANGED <<table, history>>
      BY <1>2, <2>2 DEF CreateServerOnly
    <3>2. ListOf' = ListOf /\ Listed' = Listed
      BY <3>1 DEF ListOf, Listed, table
    <3>3. TableTypes' /\ TableInv'
      BY <2>1, <3>1, <3>2, Constants DEF TableTypes, TableInv, table, history
    <3>4. \A e \in Entities : e > created' => e > created
      BY <2>1 DEF TableTypes, Entities
    <3>5. HistoryInv'
      BY <3>1, <3>2, <3>4 DEF HistoryInv, table, history
    <3> QED BY <3>3, <3>5
  <2>3. CASE s # Nil
    <3>1. s \in Slots /\ ListOf[s] = "free"
      BY <2>3 DEF TableInv, WellLinked, Links, Lists
    <3>2. info[s].ent = Nil /\ s > MaxEdicts /\ s # MaxEdicts
      BY <3>1, Constants DEF ListOf
    <3>3. /\ WellLinked(Unlink(links, "free", s), [ListOf EXCEPT ![s] = "none"])
          /\ Acyclic(Unlink(links, "free", s))
      BY <3>1, UnlinkKeeps, ListOfIs DEF TableInv, Lists
    <3>4. AddEntityAtSlot(NextEntity, s, Unlink(links, "free", s))
      BY <1>2, <2>3 DEF CreateServerOnly
    <3> HIDE DEF s
    <3> QED BY <2>1, <3>1, <3>2, <3>3, <3>4, AddOK DEF s
  <2> QED BY <2>2, <2>3
<1>3. CASE Destroyed
  <2>1. TopEnt \in Entities
    BY <1>3, TopIs DEF Destroyed, CallTypes
  <2>2. ref[TopEnt].slot \in Slots
    BY <2>1, Constants DEF TableTypes
  <2> QED BY <1>3, <2>2, RemoveOK DEF Destroyed
<1>4. ASSUME UNCHANGED <<info, links, ref, created, history>>
      PROVE  TableTypes' /\ TableInv' /\ HistoryInv'
  BY <1>4, SameTable
<1> USE DEF table
<1>5. CASE \E e \in Entities : Remove(e) \/ RemoveImmediate(e)
  BY <1>4, <1>5 DEF Remove, RemoveImmediate
<1>6. CASE StartCleanup \/ StartThinking \/ StartVisit \/ StartClear \/ StartSimulation
  BY <1>4, <1>6 DEF StartCleanup, StartThinking, StartVisit, StartClear, StartSimulation, StartWalk
<1>7. CASE AddToDeleteList \/ DeleteNow \/ Release \/ EndCleanup \/ NextThinker
  BY <1>4, <1>7 DEF AddToDeleteList, DeleteNow, Release, EndCleanup, NextThinker
<1>8. CASE NextVisit \/ EndVisit \/ ClearRemove \/ ClearNext \/ ClearCleanup \/ EndClear
  BY <1>4, <1>8 DEF NextVisit, EndVisit, ClearRemove, ClearNext, ClearCleanup, EndClear
<1>9. CASE UpdateDamageEvents \/ EndDamageEvents \/ UpdateRemoveObjects
  BY <1>4, <1>9 DEF UpdateDamageEvents, EndDamageEvents, UpdateRemoveObjects
<1> QED
  BY <1>1, <1>2, <1>3, <1>5, <1>6, <1>7, <1>8, <1>9 DEF Next, Proceed

(* Every step keeps the invariant. *)
LEMMA StepInv == IInv /\ [Next]_vars => IInv'
<1> SUFFICES ASSUME IInv, [Next]_vars PROVE IInv'
  OBVIOUS
<1>1. CASE Next
  <2>1. links \in Links
    BY DEF IInv, TableInv, WellLinked
  <2> QED BY <1>1, <2>1, TableKept, CallTypesKept DEF IInv
<1>2. CASE UNCHANGED vars
  <2>1. CallTypes'
    BY <1>2 DEF vars, removals, loops, CallTypes, IInv
  <2>2. UNCHANGED <<info, links, ref, created, history>>
    BY <1>2 DEF vars, table
  <2> QED BY <2>1, <2>2, SameTable DEF IInv
<1> QED BY <1>1, <1>2

(* It holds for ever. *)
LEMMA Invariant == Spec => []IInv
  BY InitInv, StepInv, PTL DEF Spec
-----------------------------------------------------------------------------
(* The theorems.                                                           *)

(* The slots, the lists threaded through them and the entities' handles    *)
(* agree, whatever is created and destroyed, on either side of the edicts. *)
THEOREM SpecListsAgree == Spec => []ListsAgree
<1>1. IInv => ListsAgree
  BY DEF IInv, TableInv, TableTypes, ListsAgree
<1> QED BY <1>1, Invariant, PTL

(* How often a slot is freed until a serial number comes back.             *)
LEMMA Multiple ==
  ASSUME NEW d \in Int, d * SerialMod > 0
  PROVE  d \in 1 .. d * SerialMod
<1>1. SerialMod \in Int /\ SerialMod >= 1
  BY Constants
<1>2. CASE d <= 0
  <2>1. d * SerialMod <= 0
    BY <1>1, <1>2
  <2> QED BY <2>1, <1>1
<1>3. CASE d > 0
  <2>1. d * (SerialMod - 1) >= 0
    BY <1>1, <1>3
  <2>2. d * SerialMod = d * (SerialMod - 1) + d
    BY <1>1
  <2> QED BY <2>1, <2>2, <1>1, <1>3
<1> QED BY <1>2, <1>3

(* A handle resolves to the entity it was given for or to nothing, however *)
(* long it is kept, unless its slot has been freed a multiple of the       *)
(* number of serial numbers since.                                         *)
THEOREM SpecHandlesResolve == Spec => []HandlesResolve
<1>1. ASSUME IInv PROVE HandlesResolve
  <2> SUFFICES ASSUME NEW e \in Entities, given[e].handle # Invalid,
                      Lookup(given[e].handle) \notin {e, Nil}
               PROVE  \E k \in 1 .. uses[given[e].handle.slot] - given[e].use :
                        uses[given[e].handle.slot] - given[e].use = k * SerialMod
    BY DEF HandlesResolve
  <2> DEFINE h == given[e].handle
             s == h.slot
  <2>1. s \in Slots /\ given[e].use \in Nat /\ uses[s] \in Nat /\ FirstSerial[s] \in Nat
        /\ SerialMod \in Nat
    BY <1>1, Constants, ListAssumption DEF IInv, TableTypes
  <2>2. info[s].serial = h.serial /\ info[s].ent # e
    BY DEF Lookup
  <2>3. given[e].use < uses[s] /\ Turns(s, given[e].use, h.serial) /\ h.serial \in Nat
    BY <1>1, <2>2 DEF IInv, HistoryInv
  <2>4. Turns(s, uses[s], h.serial)
    BY <1>1, <2>1, <2>2 DEF IInv, HistoryInv
  <2> HIDE DEF h, s
  <2>5. PICK j \in Nat : FirstSerial[s] + given[e].use = h.serial + j * SerialMod
    BY <2>3 DEF Turns
  <2>6. PICK k \in Nat : FirstSerial[s] + uses[s] = h.serial + k * SerialMod
    BY <2>4 DEF Turns
  <2>7. (k - j) * SerialMod = k * SerialMod - j * SerialMod
    BY <2>1
  <2>8. k * SerialMod \in Nat /\ j * SerialMod \in Nat
    BY <2>1
  <2>9. uses[s] - given[e].use = (k - j) * SerialMod /\ (k - j) * SerialMod > 0
    BY <2>1, <2>3, <2>5, <2>6, <2>7, <2>8
  <2>10. k - j \in 1 .. (k - j) * SerialMod
    BY <2>9, Multiple
  <2> QED BY <2>9, <2>10 DEF h, s
<1> QED BY <1>1, Invariant, PTL
-----------------------------------------------------------------------------
(* The pointers.                                                           *)

Depth == Len(stack)

(* A loop runs at the bottom of the stack, or is the clean-up of Clear.    *)
LoopsAtBottom ==
  \A i \in 1 .. Depth :
    stack[i].ent = Nil =>
      i = 1 \/ (i = 2 /\ stack[1].op = "clearEnd" /\ stack[2].op = "cleanup")

OneCallEach ==
  \A i, j \in 1 .. Depth : stack[i].ent = stack[j].ent /\ stack[i].ent # Nil => i = j

(* What is destroyed at once is fleeting, the rest by a clean-up.          *)
NowIsFleeting ==
  \A i \in 1 .. Depth : stack[i].op = "updateNow" => stack[i].ent \in Fleeting

DestroyIsFleeting ==
  \A i \in 1 .. Depth :
    stack[i].op = "destroy" =>
      stack[i].ent \in Fleeting \/ \E j \in 1 .. Depth : stack[j].op = "cleanup"

(* Under the loop over the thinkers nothing is destroyed.                  *)
ThinkOnlyMarks ==
  Depth > 0 /\ stack[1].op = "think" => \A i \in 2 .. Depth : stack[i].op = "update"

Shape == LoopsAtBottom /\ OneCallEach /\ NowIsFleeting /\ DestroyIsFleeting /\ ThinkOnlyMarks

(* What the calls hold is alive, and on its way to be deleted once; the    *)
(* delete list names an entity once, and what it has not released is       *)
(* alive.                                                                  *)
CallsLive ==
  /\ \A i \in 1 .. Depth :
       stack[i].ent # Nil =>
         /\ stack[i].ent \in killme /\ stack[i].ent \notin dead
         /\ \A n \in cursor + 1 .. Len(deleteList) : deleteList[n] # stack[i].ent
  /\ \A i \in 1 .. Depth :
       stack[i].op \in {"update", "updateNow"} =>
         \A n \in 1 .. Len(deleteList) : deleteList[n] # stack[i].ent
  /\ \A n \in 1 .. Len(deleteList) : deleteList[n] \in killme
  /\ \A n \in cursor + 1 .. Len(deleteList) : deleteList[n] \notin dead
  /\ \A n, k \in 1 .. Len(deleteList) : deleteList[n] = deleteList[k] => n = k

(* The notes of the physics callbacks are kept until they are acted upon;  *)
(* they never name what is destroyed at once.                              *)
NotesLive ==
  /\ \A n \in 1 .. Len(pending) : pending[n] \notin Fleeting \cup dead
  /\ Len(pending) > 0 => Depth > 0 /\ stack[1].op \in {"simulate", "damage", "flush"}

ThinkersLive ==
  /\ thinkers \cap dead = {}
  /\ thinkers # {} => Depth > 0 /\ stack[1].op = "think"

PInv == CallTypes /\ Shape /\ CallsLive /\ NotesLive /\ ThinkersLive

(* At first nobody keeps a pointer. *)
LEMMA InitPointers == Init => PInv
<1> SUFFICES ASSUME Init PROVE PInv
  OBVIOUS
<1>1. /\ killme = {} /\ dead = {} /\ deleteList = <<>> /\ cursor = 0 /\ pending = <<>>
      /\ thinkers = {} /\ stack = <<>> /\ at = Nil
  BY DEF Init
<1>2. CallTypes
  BY <1>1 DEF CallTypes
<1>3. Depth = 0 /\ Len(deleteList) = 0 /\ Len(pending) = 0
  BY <1>1 DEF Depth
<1>4. Shape
  BY <1>3 DEF Shape, LoopsAtBottom, OneCallEach, NowIsFleeting, DestroyIsFleeting, ThinkOnlyMarks
<1>5. CallsLive
  BY <1>1, <1>3 DEF CallsLive
<1>6. NotesLive /\ ThinkersLive
  BY <1>1, <1>3 DEF NotesLive, ThinkersLive
<1> QED BY <1>2, <1>4, <1>5, <1>6 DEF PInv

(* What a call on the stack is, and which operators speak of it. *)
LEMMA FrameIs ==
  ASSUME CallTypes
  PROVE  /\ Depth \in Nat /\ (stack # <<>> <=> Depth > 0)
         /\ \A i \in 1 .. Depth : stack[i] \in Calls
         /\ \A c \in Calls : /\ c = Call(c.op, c.ent)
                             /\ c.op \in {"update", "updateNow", "destroy"} <=> c.ent # Nil
                             /\ c.ent # Nil <=> c.ent \in Entities
         /\ \A op : Calling(op) <=> \E i \in 1 .. Depth : stack[i].op = op
         /\ stack # <<>> => Top = stack[Depth].op /\ TopEnt = stack[Depth].ent
<1>1. stack \in Seq(Calls)
  BY DEF CallTypes
<1>2. \A c \in Calls : /\ c = Call(c.op, c.ent)
                       /\ c.op \in {"update", "updateNow", "destroy"} <=> c.ent # Nil
                       /\ c.ent # Nil <=> c.ent \in Entities
  BY Constants DEF Call, Calls, CallsOn, LoopCalls
<1>3. DOMAIN stack = 1 .. Depth
  BY <1>1 DEF Depth
<1>4. Depth \in Nat /\ (stack # <<>> <=> Depth > 0) /\ \A i \in 1 .. Depth : stack[i] \in Calls
  BY <1>1 DEF Depth
<1> QED BY <1>2, <1>3, <1>4 DEF Calling, Top, TopEnt, Depth

(* The fields of a call. *)
LEMMA CallFields == \A op, e : Call(op, e).op = op /\ Call(op, e).ent = e
  BY DEF Call

(* A call for an entity that has none.                                     *)
LEMMA ShapePush ==
  ASSUME CallTypes, Shape, NEW e \in Entities, NEW op \in {"update", "updateNow", "destroy"},
         stack' = Append(stack, Call(op, e)),
         \A i \in 1 .. Depth : stack[i].ent # e,
         op = "updateNow" => e \in Fleeting,
         op = "destroy" => Top = "cleanup" /\ stack # <<>>,
         op # "update" => ~Calling("think")
  PROVE  Shape' /\ (stack # <<>> => stack'[1] = stack[1])
<1>1. /\ Depth \in Nat /\ Depth' = Depth + 1 /\ stack'[Depth + 1].op = op /\ stack'[Depth + 1].ent = e
      /\ \A i \in 1 .. Depth : stack'[i] = stack[i]
      /\ \A i \in 1 .. Depth' : i = Depth + 1 \/ i \in 1 .. Depth
      /\ e # Nil /\ (stack # <<>> <=> Depth > 0)
  BY PushIs, CallIs, CallFields, FrameIs, Constants DEF Depth, CallTypes
<1>2. LoopsAtBottom'
  <2> SUFFICES ASSUME NEW i \in 1 .. Depth', stack'[i].ent = Nil
               PROVE  i = 1 \/ (i = 2 /\ stack'[1].op = "clearEnd" /\ stack'[2].op = "cleanup")
    BY DEF LoopsAtBottom
  <2>1. i \in 1 .. Depth /\ stack[i].ent = Nil
    BY <1>1
  <2>2. i = 1 \/ (i = 2 /\ stack[1].op = "clearEnd" /\ stack[2].op = "cleanup")
    BY <2>1 DEF Shape, LoopsAtBottom
  <2>3. i = 2 => stack'[1] = stack[1] /\ stack'[2] = stack[2]
    BY <1>1, <2>1
  <2> QED BY <2>2, <2>3
<1>3. OneCallEach'
  <2> SUFFICES ASSUME NEW i \in 1 .. Depth', NEW j \in 1 .. Depth',
                      stack'[i].ent = stack'[j].ent, stack'[i].ent # Nil
               PROVE  i = j
    BY DEF OneCallEach
  <2>1. CASE i \in 1 .. Depth /\ j \in 1 .. Depth
    BY <2>1, <1>1 DEF Shape, OneCallEach
  <2>2. CASE i = Depth + 1 \/ j = Depth + 1
    BY <2>2, <1>1
  <2> QED BY <2>1, <2>2, <1>1
<1>4. NowIsFleeting'
  <2> SUFFICES ASSUME NEW i \in 1 .. Depth', stack'[i].op = "updateNow"
               PROVE  stack'[i].ent \in Fleeting
    BY DEF NowIsFleeting
  <2>1. CASE i \in 1 .. Depth
    BY <2>1, <1>1 DEF Shape, NowIsFleeting
  <2>2. CASE i = Depth + 1
    BY <2>2, <1>1
  <2> QED BY <2>1, <2>2, <1>1
<1>5. DestroyIsFleeting'
  <2> SUFFICES ASSUME NEW i \in 1 .. Depth', stack'[i].op = "destroy"
               PROVE  stack'[i].ent \in Fleeting \/ \E j \in 1 .. Depth' : stack'[j].op = "cleanup"
    BY DEF DestroyIsFleeting
  <2>0. 1 .. Depth \subseteq 1 .. Depth'
    BY <1>1
  <2>1. CASE i = Depth + 1
    <3>0. op = "destroy"
      BY <2>1, <1>1
    <3>1. Depth \in 1 .. Depth /\ stack[Depth].op = "cleanup"
      BY <3>0, <1>1, FrameIs
    <3>2. stack'[Depth].op = "cleanup" /\ Depth \in 1 .. Depth'
      BY <3>1, <2>0, <1>1
    <3> QED BY <3>2
  <2>2. CASE i \in 1 .. Depth
    <3>1. stack[i].ent \in Fleeting \/ \E j \in 1 .. Depth : stack[j].op = "cleanup"
      BY <2>2, <1>1 DEF Shape, DestroyIsFleeting
    <3> QED BY <3>1, <2>0, <2>2, <1>1
  <2> QED BY <2>1, <2>2, <1>1
<1>6. ThinkOnlyMarks'
  <2> SUFFICES ASSUME stack'[1].op = "think", NEW i \in 2 .. Depth'
               PROVE  stack'[i].op = "update"
    BY DEF ThinkOnlyMarks
  <2>1. Depth > 0 /\ 1 \in 1 .. Depth
    BY <1>1
  <2>2. stack[1].op = "think" /\ Calling("think")
    BY <2>1, <1>1, FrameIs
  <2>3. CASE i = Depth + 1
    BY <2>2, <2>3, <1>1
  <2>4. CASE i # Depth + 1
    <3>1. i \in 2 .. Depth /\ i \in 1 .. Depth
      BY <2>4, <1>1
    <3> QED BY <3>1, <2>1, <2>2, <1>1 DEF Shape, ThinkOnlyMarks
  <2> QED BY <2>3, <2>4
<1>7. stack # <<>> => stack'[1] = stack[1]
  <2>1. stack # <<>> => 1 \in 1 .. Depth
    BY <1>1
  <2> QED BY <2>1, <1>1
<1> QED BY <1>2, <1>3, <1>4, <1>5, <1>6, <1>7 DEF Shape

(* A return keeps the shape of the stack. *)
LEMMA ShapeReturn ==
  ASSUME CallTypes, Shape, stack # <<>>, Return
  PROVE  Shape' /\ (Depth > 1 => stack'[1] = stack[1]) /\ Depth' = Depth - 1
<1>1. /\ Depth \in Nat /\ Depth > 0 /\ Depth' = Depth - 1
      /\ \A i \in 1 .. Depth' : stack'[i] = stack[i] /\ i \in 1 .. Depth /\ i # Depth
  BY ReturnIs, FrameIs DEF Depth, CallTypes
<1>2. LoopsAtBottom'
  <2> SUFFICES ASSUME NEW i \in 1 .. Depth', stack'[i].ent = Nil
               PROVE  i = 1 \/ (i = 2 /\ stack'[1].op = "clearEnd" /\ stack'[2].op = "cleanup")
    BY DEF LoopsAtBottom
  <2>1. i = 1 \/ (i = 2 /\ stack[1].op = "clearEnd" /\ stack[2].op = "cleanup")
    BY <1>1 DEF Shape, LoopsAtBottom
  <2>2. i = 2 => 1 \in 1 .. Depth'
    BY <1>1
  <2> QED BY <2>1, <2>2, <1>1
<1>3. OneCallEach'
  <2> SUFFICES ASSUME NEW i \in 1 .. Depth', NEW j \in 1 .. Depth',
                      stack'[i].ent = stack'[j].ent, stack'[i].ent # Nil
               PROVE  i = j
    BY DEF OneCallEach
  <2> QED BY <1>1 DEF Shape, OneCallEach
<1>4. NowIsFleeting'
  BY <1>1 DEF Shape, NowIsFleeting
<1>5. ASSUME NEW i \in 1 .. Depth', stack'[i].op = "destroy", stack'[i].ent \notin Fleeting
      PROVE  \E j \in 1 .. Depth' : stack'[j].op = "cleanup"
  <2>1. PICK j \in 1 .. Depth : stack[j].op = "cleanup"
    BY <1>1, <1>5 DEF Shape, DestroyIsFleeting
  <2>2. stack[j].ent = Nil /\ stack[i].ent # Nil /\ stack[i].op = "destroy"
    BY <2>1, <1>1, <1>5, FrameIs
  <2>3. j # Depth
    <3> SUFFICES ASSUME j = Depth PROVE FALSE
      OBVIOUS
    <3>1. j = 1 \/ (j = 2 /\ stack[1].op = "clearEnd")
      BY <2>2 DEF Shape, LoopsAtBottom
    <3>2. i \in 1 .. Depth - 1
      BY <1>1
    <3> QED BY <3>1, <3>2, <2>2
  <2>4. j \in 1 .. Depth'
    BY <2>3, <1>1
  <2> QED BY <2>1, <2>4, <1>1
<1>6. ThinkOnlyMarks'
  <2> SUFFICES ASSUME stack'[1].op = "think", NEW i \in 2 .. Depth'
               PROVE  stack'[i].op = "update"
    BY DEF ThinkOnlyMarks
  <2>1. 1 \in 1 .. Depth' /\ i \in 1 .. Depth' /\ i \in 2 .. Depth
    BY <1>1
  <2> QED BY <2>1, <1>1 DEF Shape, ThinkOnlyMarks
<1>7. Depth > 1 => stack'[1] = stack[1]
  <2>1. Depth > 1 => 1 \in 1 .. Depth'
    BY <1>1
  <2> QED BY <2>1, <1>1
<1> QED BY <1>1, <1>2, <1>3, <1>4, <1>5, <1>6, <1>7 DEF Shape, DestroyIsFleeting

(* Where a loop runs, and what that says of the bottom of the stack.       *)
LEMMA LoopIs ==
  ASSUME CallTypes, Shape, NEW i \in 1 .. Depth, stack[i].ent = Nil
  PROVE  /\ stack[i].op # "cleanup" => i = 1
         /\ stack[i].op = "cleanup" => stack[1].op \in {"cleanup", "clearEnd"}
  BY DEF Shape, LoopsAtBottom

(* An entity that is not marked yet is marked and gets a call.             *)
LEMMA MarkPush ==
  ASSUME PInv, CallTypes', NEW e \in Entities, e \notin killme \cup dead,
         NEW op \in {"update", "updateNow"}, stack' = Append(stack, Call(op, e)),
         op = "updateNow" => e \in Fleeting /\ ~Calling("think"),
         killme' = killme \cup {e}, UNCHANGED <<dead, deleteList, cursor, thinkers>>,
         pending' = pending \/ (pending # <<>> /\ pending' = Tail(pending))
  PROVE  PInv'
<1>1. CallTypes /\ Shape /\ CallsLive /\ NotesLive /\ ThinkersLive
  BY DEF PInv
<1>2. /\ Depth \in Nat /\ Depth' = Depth + 1 /\ stack'[Depth + 1].op = op /\ stack'[Depth + 1].ent = e
      /\ \A i \in 1 .. Depth : stack'[i] = stack[i]
      /\ \A i \in 1 .. Depth' : i = Depth + 1 \/ i \in 1 .. Depth
      /\ e # Nil /\ (stack # <<>> <=> Depth > 0)
  BY <1>1, PushIs, CallIs, CallFields, FrameIs, Constants DEF Depth, CallTypes
<1>3. \A i \in 1 .. Depth : stack[i].ent # e
  BY <1>1, <1>2 DEF CallsLive
<1>4. Shape' /\ (stack # <<>> => stack'[1] = stack[1])
  BY <1>1, <1>3, ShapePush
<1>5. CallsLive'
  <2>1. \A n \in 1 .. Len(deleteList) : deleteList[n] # e
    BY <1>1 DEF CallsLive
  <2>2. cursor \in 0 .. Len(deleteList) /\ Len(deleteList) \in Nat
    BY <1>1 DEF CallTypes
  <2>3. ASSUME NEW i \in 1 .. Depth', stack'[i].ent # Nil
        PROVE  /\ stack'[i].ent \in killme' /\ stack'[i].ent \notin dead
               /\ \A n \in cursor + 1 .. Len(deleteList) : deleteList[n] # stack'[i].ent
    <3>1. CASE i = Depth + 1
      BY <3>1, <1>2, <2>1, <2>2
    <3>2. CASE i \in 1 .. Depth
      BY <3>2, <2>3, <1>1, <1>2 DEF CallsLive
    <3> QED BY <3>1, <3>2, <1>2
  <2>4. ASSUME NEW i \in 1 .. Depth', stack'[i].op \in {"update", "updateNow"}
        PROVE  \A n \in 1 .. Len(deleteList) : deleteList[n] # stack'[i].ent
    <3>1. CASE i = Depth + 1
      BY <3>1, <1>2, <2>1
    <3>2. CASE i \in 1 .. Depth
      BY <3>2, <2>4, <1>1, <1>2 DEF CallsLive
    <3> QED BY <3>1, <3>2, <1>2
  <2> QED BY <2>3, <2>4, <1>1 DEF CallsLive
<1>6. NotesLive'
  <2>1. \A n \in 1 .. Len(pending') : \E k \in 1 .. Len(pending) : pending'[n] = pending[k]
    <3>1. pending \in Seq(Entities)
      BY <1>1 DEF CallTypes
    <3>2. CASE pending' = pending
      BY <3>2
    <3>3. CASE pending # <<>> /\ pending' = Tail(pending)
      <4>1. /\ Len(pending') = Len(pending) - 1 /\ Len(pending) \in Nat
            /\ \A n \in 1 .. Len(pending') : pending'[n] = pending[n + 1]
        BY <3>1, <3>3
      <4>2. \A n \in 1 .. Len(pending') : n + 1 \in 1 .. Len(pending)
        BY <4>1
      <4> QED BY <4>1, <4>2
    <3> QED BY <3>2, <3>3
  <2>2. Len(pending') > 0 => Len(pending) > 0
    <3>1. pending \in Seq(Entities) /\ pending' \in Seq(Entities)
      BY <1>1 DEF CallTypes
    <3>2. Len(pending') > 0 => 1 \in 1 .. Len(pending')
      BY <3>1
    <3> QED BY <2>1, <3>1, <3>2
  <2>3. \A n \in 1 .. Len(pending') : pending'[n] \notin Fleeting \cup dead'
    <3>1. \A k \in 1 .. Len(pending) : pending[k] \notin Fleeting \cup dead
      BY <1>1 DEF NotesLive
    <3> QED BY <2>1, <3>1
  <2>4. Len(pending') > 0 => Depth' > 0 /\ stack'[1].op \in {"simulate", "damage", "flush"}
    BY <2>2, <1>1, <1>2, <1>4 DEF NotesLive
  <2> QED BY <2>3, <2>4 DEF NotesLive
<1>7. ThinkersLive'
  BY <1>1, <1>2, <1>4 DEF ThinkersLive
<1> QED BY <1>4, <1>5, <1>6, <1>7 DEF PInv

(* A loop starts at the bottom of the stack.                               *)
LEMMA LoopPush ==
  ASSUME PInv, CallTypes', stack = <<>>,
         NEW op \in {"cleanup", "think", "visit", "clear", "simulate"}, Push(op, Nil),
         UNCHANGED <<killme, dead, deleteList, cursor, pending>>,
         thinkers' = thinkers \/ (op = "think" /\ thinkers' \cap dead = {})
  PROVE  PInv'
<1>1. CallTypes /\ Shape /\ CallsLive /\ NotesLive /\ ThinkersLive
  BY DEF PInv
<1>2. Depth = 0 /\ Depth' = 1 /\ stack'[1].op = op /\ stack'[1].ent = Nil
  BY <1>1, PushIs, CallIs, CallFields DEF Depth, CallTypes, Push
<1>3. Shape'
  BY <1>2 DEF Shape, LoopsAtBottom, OneCallEach, NowIsFleeting, DestroyIsFleeting, ThinkOnlyMarks
<1>4. CallsLive'
  BY <1>1, <1>2 DEF CallsLive
<1>5. NotesLive'
  BY <1>1, <1>2 DEF NotesLive
<1>6. ThinkersLive'
  BY <1>1, <1>2 DEF ThinkersLive
<1> QED BY <1>3, <1>4, <1>5, <1>6 DEF PInv

(* A call returns, and leaves the rest as it is.                           *)
LEMMA ReturnKeeps ==
  ASSUME PInv, CallTypes', stack # <<>>, Return,
         UNCHANGED <<killme, dead, pending, thinkers>>,
         (deleteList' = deleteList /\ cursor' = cursor) \/ (deleteList' = <<>> /\ cursor' = 0),
         Depth = 1 => pending = <<>> /\ thinkers = {}
  PROVE  PInv'
<1>1. CallTypes /\ Shape /\ CallsLive /\ NotesLive /\ ThinkersLive
  BY DEF PInv
<1>2. /\ Depth \in Nat /\ Depth > 0 /\ Depth' = Depth - 1
      /\ \A i \in 1 .. Depth' : stack'[i] = stack[i] /\ i \in 1 .. Depth
  BY <1>1, ReturnIs, FrameIs DEF Depth, CallTypes
<1>3. Shape' /\ (Depth > 1 => stack'[1] = stack[1])
  BY <1>1, ShapeReturn
<1>4. CallsLive'
  <2>1. CASE deleteList' = deleteList /\ cursor' = cursor
    BY <2>1, <1>1, <1>2 DEF CallsLive
  <2>2. CASE deleteList' = <<>> /\ cursor' = 0
    <3>1. Len(deleteList') = 0
      BY <2>2
    <3> QED BY <3>1, <2>2, <1>1, <1>2 DEF CallsLive
  <2> QED BY <2>1, <2>2
<1>5. NotesLive'
  <2>1. Len(pending) > 0 => Depth > 1
    BY <1>2
  <2> QED BY <2>1, <1>1, <1>2, <1>3 DEF NotesLive
<1>6. ThinkersLive'
  BY <1>1, <1>2, <1>3 DEF ThinkersLive
<1> QED BY <1>3, <1>4, <1>5, <1>6 DEF PInv

(* The entity of a call that has returned goes on the delete list.         *)
LEMMA AddToDeleteListKeeps ==
  ASSUME PInv, CallTypes', AddToDeleteList
  PROVE  PInv'
<1> DEFINE e == TopEnt
<1>1. CallTypes /\ Shape /\ CallsLive /\ NotesLive /\ ThinkersLive
  BY DEF PInv
<1>2. /\ stack # <<>> /\ Return /\ stack[Depth].op = "update" /\ stack[Depth].ent = e
      /\ deleteList' = deleteList \/ deleteList' = Append(deleteList, e)
      /\ UNCHANGED <<killme, dead, cursor, pending, thinkers>>
  BY <1>1, FrameIs DEF AddToDeleteList, removals, loops
<1> HIDE DEF e
<1>3. /\ Depth \in Nat /\ Depth > 0 /\ Depth' = Depth - 1 /\ Depth \in 1 .. Depth
      /\ \A i \in 1 .. Depth' : stack'[i] = stack[i] /\ i \in 1 .. Depth /\ i # Depth
      /\ e # Nil
  BY <1>1, <1>2, ReturnIs, FrameIs DEF Depth, CallTypes
<1>4. Shape' /\ (Depth > 1 => stack'[1] = stack[1])
  BY <1>1, <1>2, ShapeReturn
<1>5. \A i \in 1 .. Depth' : stack'[i].ent # e
  BY <1>1, <1>2, <1>3 DEF Shape, OneCallEach
<1>6. CASE deleteList' = deleteList
  <2>1. Depth = 1 => pending = <<>> /\ thinkers = {}
    <3> SUFFICES ASSUME Depth = 1 PROVE pending = <<>> /\ thinkers = {}
      OBVIOUS
    <3>1. stack[1].op = "update"
      BY <1>2
    <3>2. Len(pending) \in Nat /\ ~(Len(pending) > 0) /\ thinkers = {}
      BY <1>1, <3>1 DEF NotesLive, ThinkersLive, CallTypes
    <3> QED BY <1>1, <3>2 DEF CallTypes
  <2> QED BY <1>2, <1>6, <2>1, ReturnKeeps
<1>7. CASE deleteList' = Append(deleteList, e)
  <2>0. e \in Entities
    BY <1>1, <1>2, <1>3, FrameIs
  <2>1. /\ Len(deleteList') = Len(deleteList) + 1 /\ deleteList'[Len(deleteList) + 1] = e
        /\ Len(deleteList) \in Nat /\ cursor \in 0 .. Len(deleteList)
        /\ \A n \in 1 .. Len(deleteList) : deleteList'[n] = deleteList[n]
    BY <1>1, <1>7, <2>0, AppendProperties DEF CallTypes
  <2>2. /\ \A n \in 1 .. Len(deleteList') : n = Len(deleteList) + 1 \/ n \in 1 .. Len(deleteList)
        /\ \A n \in cursor + 1 .. Len(deleteList') :
             n = Len(deleteList) + 1 \/ (n \in cursor + 1 .. Len(deleteList) /\ n \in 1 .. Len(deleteList))
    BY <2>1
  <2>3. e \in killme /\ e \notin dead /\ \A n \in 1 .. Len(deleteList) : deleteList[n] # e
    BY <1>1, <1>2, <1>3 DEF CallsLive
  <2>4. CallsLive'
    <3>1. ASSUME NEW i \in 1 .. Depth', stack'[i].ent # Nil
          PROVE  /\ stack'[i].ent \in killme' /\ stack'[i].ent \notin dead'
                 /\ \A n \in cursor' + 1 .. Len(deleteList') : deleteList'[n] # stack'[i].ent
      BY <3>1, <1>1, <1>2, <1>3, <1>5, <2>1, <2>2 DEF CallsLive
    <3>2. ASSUME NEW i \in 1 .. Depth', stack'[i].op \in {"update", "updateNow"}
          PROVE  \A n \in 1 .. Len(deleteList') : deleteList'[n] # stack'[i].ent
      BY <3>2, <1>1, <1>2, <1>3, <1>5, <2>1, <2>2 DEF CallsLive
    <3>3. \A n \in 1 .. Len(deleteList') : deleteList'[n] \in killme'
      BY <1>1, <1>2, <2>1, <2>2, <2>3 DEF CallsLive
    <3>4. \A n \in cursor' + 1 .. Len(deleteList') : deleteList'[n] \notin dead'
      BY <1>1, <1>2, <2>1, <2>2, <2>3 DEF CallsLive
    <3>5. ASSUME NEW n \in 1 .. Len(deleteList'), NEW k \in 1 .. Len(deleteList'),
                 deleteList'[n] = deleteList'[k]
          PROVE  n = k
      BY <3>5, <1>1, <2>1, <2>2, <2>3 DEF CallsLive
    <3> QED BY <3>1, <3>2, <3>3, <3>4, <3>5 DEF CallsLive
  <2>5. NotesLive'
    <3>1. Len(pending) > 0 => Depth > 1
      BY <1>1, <1>2, <1>3 DEF NotesLive
    <3> QED BY <3>1, <1>1, <1>2, <1>3, <1>4 DEF NotesLive
  <2>6. ThinkersLive'
    BY <1>1, <1>2, <1>3, <1>4 DEF ThinkersLive
  <2> QED BY <1>4, <2>4, <2>5, <2>6 DEF PInv
<1> QED BY <1>2, <1>6, <1>7

(* An entity is destroyed: nothing else holds it.                          *)
LEMMA DestroyedKeeps ==
  ASSUME PInv, CallTypes', Destroyed
  PROVE  PInv'
<1> DEFINE e == TopEnt
<1>1. CallTypes /\ Shape /\ CallsLive /\ NotesLive /\ ThinkersLive
  BY DEF PInv
<1>2. /\ stack # <<>> /\ Return /\ stack[Depth].op = "destroy" /\ stack[Depth].ent = e
      /\ dead' = dead \cup {e}
      /\ UNCHANGED <<killme, deleteList, cursor, pending, thinkers>>
  BY <1>1, FrameIs DEF Destroyed, removals, loops
<1> HIDE DEF e
<1>3. /\ Depth \in Nat /\ Depth > 0 /\ Depth' = Depth - 1 /\ Depth \in 1 .. Depth /\ 1 \in 1 .. Depth
      /\ \A i \in 1 .. Depth' : stack'[i] = stack[i] /\ i \in 1 .. Depth /\ i # Depth
      /\ e # Nil
  BY <1>1, <1>2, ReturnIs, FrameIs DEF Depth, CallTypes
<1>4. Shape' /\ (Depth > 1 => stack'[1] = stack[1])
  BY <1>1, <1>2, ShapeReturn
<1>5. \A i \in 1 .. Depth' : stack'[i].ent # e
  BY <1>1, <1>2, <1>3 DEF Shape, OneCallEach
<1>6. CallsLive'
  <2>1. \A n \in cursor + 1 .. Len(deleteList) : deleteList[n] # e
    BY <1>1, <1>2, <1>3 DEF CallsLive
  <2> QED BY <1>1, <1>2, <1>3, <1>5, <2>1 DEF CallsLive
<1>7. NotesLive'
  <2>1. ASSUME Len(pending) > 0
        PROVE  e \in Fleeting /\ Depth > 1
    <3>1. stack[1].op \in {"simulate", "damage", "flush"}
      BY <1>1, <2>1 DEF NotesLive
    <3>2. ASSUME NEW j \in 1 .. Depth, stack[j].op = "cleanup"
          PROVE  FALSE
      <4>1. stack[j].ent = Nil
        BY <1>1, <3>2, FrameIs
      <4> QED BY <4>1, <1>1, <3>1, <3>2, LoopIs
    <3>3. e \in Fleeting
      BY <1>1, <1>2, <1>3, <3>2 DEF Shape, DestroyIsFleeting
    <3> QED BY <1>2, <1>3, <3>1, <3>3
  <2>2. \A n \in 1 .. Len(pending) : Len(pending) > 0
    BY <1>1 DEF CallTypes
  <2> QED BY <1>1, <1>2, <1>3, <1>4, <2>1, <2>2 DEF NotesLive
<1>8. ThinkersLive'
  <2>1. thinkers = {}
    <3> SUFFICES ASSUME thinkers # {} PROVE FALSE
      OBVIOUS
    <3>1. stack[1].op = "think"
      BY <1>1 DEF ThinkersLive
    <3>2. Depth \in 2 .. Depth
      BY <1>2, <1>3, <3>1
    <3> QED BY <1>1, <1>2, <1>3, <3>1, <3>2 DEF Shape, ThinkOnlyMarks
  <2> QED BY <1>2, <2>1 DEF ThinkersLive
<1> QED BY <1>4, <1>6, <1>7, <1>8 DEF PInv

(* The call at the top of the stack becomes another.                       *)
LEMMA DeleteNowKeeps ==
  ASSUME PInv, CallTypes', DeleteNow
  PROVE  PInv'
<1> DEFINE e == TopEnt
<1>1. CallTypes /\ Shape /\ CallsLive /\ NotesLive /\ ThinkersLive
  BY DEF PInv
<1>2. /\ stack # <<>> /\ stack' = Append(Without, Call("destroy", e))
      /\ stack[Depth].op = "updateNow" /\ stack[Depth].ent = e /\ e \in Entities
      /\ UNCHANGED <<killme, dead, deleteList, cursor, pending, thinkers>>
  BY <1>1, FrameIs, TopIs DEF DeleteNow, removals, loops, Replace, CallTypes
<1> HIDE DEF e
<1>3. /\ Depth \in Nat /\ Depth > 0 /\ Depth' = Depth /\ Depth \in 1 .. Depth /\ 1 \in 1 .. Depth
      /\ stack'[Depth].op = "destroy"
      /\ \A i \in 1 .. Depth - 1 : stack'[i] = stack[i]
      /\ \A i \in 1 .. Depth : stack'[i].ent = stack[i].ent
      /\ \A i \in 1 .. Depth : i # Depth => stack'[i] = stack[i]
      /\ e # Nil /\ e \in Fleeting
  <2>1. /\ Depth \in Nat /\ Depth > 0 /\ Depth' = Depth
        /\ stack'[Depth].op = "destroy" /\ stack'[Depth].ent = e
        /\ \A i \in 1 .. Depth - 1 : stack'[i] = stack[i]
    BY <1>1, <1>2, ReplaceIs, CallIs, CallFields, FrameIs DEF Depth, CallTypes
  <2>2. \A i \in 1 .. Depth : i # Depth => i \in 1 .. Depth - 1
    BY <2>1
  <2>3. e # Nil /\ e \in Fleeting
    BY <1>1, <1>2, <2>1, Constants DEF Shape, NowIsFleeting
  <2>4. \A i \in 1 .. Depth : stack'[i].ent = stack[i].ent
    BY <1>2, <2>1, <2>2
  <2>5. Depth \in 1 .. Depth /\ 1 \in 1 .. Depth
    BY <2>1
  <2>6. \A i \in 1 .. Depth : i # Depth => stack'[i] = stack[i]
    BY <2>1, <2>2
  <2> QED BY <2>1, <2>3, <2>4, <2>5, <2>6
<1>4. Depth > 1 \/ stack[1].op = "updateNow"
  BY <1>2, <1>3
<1>5. Shape'
  <2>1. LoopsAtBottom'
    <3> SUFFICES ASSUME NEW i \in 1 .. Depth, stack'[i].ent = Nil
                 PROVE  i = 1 \/ (i = 2 /\ stack'[1].op = "clearEnd" /\ stack'[2].op = "cleanup")
      BY <1>3 DEF LoopsAtBottom
    <3>1. i # Depth /\ stack[i].ent = Nil /\ stack'[i] = stack[i]
      BY <1>2, <1>3
    <3>2. i = 2 => stack'[1] = stack[1]
      BY <1>3, <3>1
    <3> QED BY <1>1, <3>1, <3>2 DEF Shape, LoopsAtBottom
  <2>2. OneCallEach'
    BY <1>1, <1>3 DEF Shape, OneCallEach
  <2>3. NowIsFleeting'
    BY <1>1, <1>3 DEF Shape, NowIsFleeting
  <2>4. DestroyIsFleeting'
    <3> SUFFICES ASSUME NEW i \in 1 .. Depth, stack'[i].op = "destroy", stack'[i].ent \notin Fleeting
                 PROVE  \E j \in 1 .. Depth : stack'[j].op = "cleanup"
      BY <1>3 DEF DestroyIsFleeting
    <3>1. i # Depth
      BY <1>2, <1>3
    <3>2. PICK j \in 1 .. Depth : stack[j].op = "cleanup"
      BY <1>1, <1>3, <3>1 DEF Shape, DestroyIsFleeting
    <3>3. j # Depth
      BY <1>2, <3>2
    <3> QED BY <3>2, <3>3, <1>3
  <2>5. ThinkOnlyMarks'
    <3> SUFFICES ASSUME stack'[1].op = "think" PROVE FALSE
      BY DEF ThinkOnlyMarks
    <3>1. Depth # 1
      BY <1>3
    <3>2. stack[1].op = "think" /\ Depth \in 2 .. Depth
      BY <1>3, <3>1
    <3> QED BY <1>1, <1>2, <1>3, <3>2 DEF Shape, ThinkOnlyMarks
  <2> QED BY <2>1, <2>2, <2>3, <2>4, <2>5 DEF Shape
<1>6. CallsLive'
  <2>1. \A i \in 1 .. Depth : stack'[i].op \in {"update", "updateNow"} =>
          stack'[i] = stack[i]
    BY <1>3
  <2>0. killme' = killme /\ dead' = dead /\ deleteList' = deleteList /\ cursor' = cursor /\ Depth' = Depth
    BY <1>2, <1>3
  <2>2. ASSUME NEW i \in 1 .. Depth', stack'[i].ent # Nil
        PROVE  /\ stack'[i].ent \in killme' /\ stack'[i].ent \notin dead'
               /\ \A n \in cursor' + 1 .. Len(deleteList') : deleteList'[n] # stack'[i].ent
    <3>1. i \in 1 .. Depth /\ stack[i].ent = stack'[i].ent
      BY <2>0, <1>3
    <3>2. /\ stack[i].ent \in killme /\ stack[i].ent \notin dead
          /\ \A n \in cursor + 1 .. Len(deleteList) : deleteList[n] # stack[i].ent
      BY <2>2, <3>1, <1>1 DEF CallsLive
    <3> QED BY <2>0, <3>1, <3>2
  <2>3. ASSUME NEW i \in 1 .. Depth', stack'[i].op \in {"update", "updateNow"}
        PROVE  \A n \in 1 .. Len(deleteList') : deleteList'[n] # stack'[i].ent
    <3>1. i \in 1 .. Depth /\ stack[i] = stack'[i]
      BY <2>0, <2>1, <2>3
    <3>2. \A n \in 1 .. Len(deleteList) : deleteList[n] # stack[i].ent
      BY <2>3, <3>1, <1>1 DEF CallsLive
    <3> QED BY <2>0, <3>1, <3>2
  <2>4. /\ \A n \in 1 .. Len(deleteList) : deleteList[n] \in killme
        /\ \A n \in cursor + 1 .. Len(deleteList) : deleteList[n] \notin dead
        /\ \A n, k \in 1 .. Len(deleteList) : deleteList[n] = deleteList[k] => n = k
    BY <1>1 DEF CallsLive
  <2> QED BY <2>0, <2>2, <2>3, <2>4 DEF CallsLive
<1>7. stack[1].op # "updateNow" => stack'[1] = stack[1]
  BY <1>3, <1>4
<1>8. NotesLive'
  BY <1>1, <1>2, <1>3, <1>7 DEF NotesLive
<1>9. ThinkersLive'
  BY <1>1, <1>2, <1>3, <1>7 DEF ThinkersLive
<1> QED BY <1>5, <1>6, <1>8, <1>9 DEF PInv

(* A phase of the simulation follows another.                              *)
LEMMA PhaseKeeps ==
  ASSUME PInv, CallTypes', stack # <<>>, Top \in {"simulate", "damage"},
         NEW op \in {"damage", "flush"}, Replace(op, Nil),
         UNCHANGED <<killme, dead, deleteList, cursor, pending, thinkers>>
  PROVE  PInv'
<1>1. CallTypes /\ Shape /\ CallsLive /\ NotesLive /\ ThinkersLive
  BY DEF PInv
<1>2. Depth = 1 /\ stack[1].op \in {"simulate", "damage"}
  <2>1. Depth \in 1 .. Depth /\ stack[Depth].op \in {"simulate", "damage"} /\ stack[Depth].ent = Nil
    BY <1>1, FrameIs
  <2> QED BY <1>1, <2>1, LoopIs
<1>3. Depth' = 1 /\ stack'[1].op = op /\ stack'[1].ent = Nil
  BY <1>1, <1>2, ReplaceIs, CallIs, CallFields DEF Depth, CallTypes, Replace
<1>4. Shape'
  BY <1>3 DEF Shape, LoopsAtBottom, OneCallEach, NowIsFleeting, DestroyIsFleeting, ThinkOnlyMarks
<1>5. CallsLive'
  BY <1>1, <1>3 DEF CallsLive
<1>6. NotesLive'
  BY <1>1, <1>3 DEF NotesLive
<1>7. ThinkersLive'
  BY <1>1, <1>2, <1>3 DEF ThinkersLive
<1> QED BY <1>4, <1>5, <1>6, <1>7 DEF PInv

(* The stack when the walk of Clear is over, and its clean-up starts.      *)
LEMMA ClearCleanupIs ==
  ASSUME CallTypes, Shape, ClearCleanup
  PROVE  /\ Depth = 1 /\ stack[1].op = "clear"
         /\ Depth' = 2 /\ stack'[1].op = "clearEnd" /\ stack'[2].op = "cleanup"
         /\ stack'[1].ent = Nil /\ stack'[2].ent = Nil
<1>1. CallTypes /\ Shape
  OBVIOUS
<1>2. /\ stack # <<>> /\ Top = "clear"
      /\ stack' = Append(Append(Without, Call("clearEnd", Nil)), Call("cleanup", Nil))
  BY DEF ClearCleanup
<1>3. Depth = 1 /\ stack[1].op = "clear"
  <2>1. Depth \in 1 .. Depth /\ stack[Depth].op = "clear" /\ stack[Depth].ent = Nil
    BY <1>1, <1>2, FrameIs
  <2> QED BY <1>1, <2>1, LoopIs
<1>4. /\ Depth' = 2 /\ stack'[1].op = "clearEnd" /\ stack'[2].op = "cleanup"
      /\ stack'[1].ent = Nil /\ stack'[2].ent = Nil
  <2> DEFINE w == Append(Without, Call("clearEnd", Nil))
  <2>1. w \in Seq(Calls) /\ Len(w) = 1 /\ w[1] = Call("clearEnd", Nil)
    BY <1>1, <1>2, <1>3, TopIs, CallIs, AppendProperties DEF Depth, CallTypes
  <2>2. stack' = Append(w, Call("cleanup", Nil))
    BY <1>2
  <2> HIDE DEF w
  <2>3. /\ Len(stack') = Len(w) + 1 /\ stack'[Len(w) + 1] = Call("cleanup", Nil)
        /\ \A i \in 1 .. Len(w) : stack'[i] = w[i]
    <3> DEFINE c == Call("cleanup", Nil)
    <3>1. c \in Calls /\ w \in Seq(Calls)
      BY <2>1, CallIs
    <3> HIDE DEF c
    <3>2. /\ Len(Append(w, c)) = Len(w) + 1 /\ Append(w, c)[Len(w) + 1] = c
          /\ \A i \in 1 .. Len(w) : Append(w, c)[i] = w[i]
      BY <3>1, AppendProperties
    <3> QED BY <2>2, <3>2 DEF c
  <2> QED BY <2>1, <2>3, CallFields DEF Depth
<1> QED BY <1>3, <1>4

(* The walk of Clear is over: its clean-up starts.                         *)
LEMMA ClearCleanupKeeps ==
  ASSUME PInv, CallTypes', ClearCleanup
  PROVE  PInv'
<1>1. CallTypes /\ Shape /\ CallsLive /\ NotesLive /\ ThinkersLive
  BY DEF PInv
<1>2. UNCHANGED <<killme, dead, deleteList, cursor, pending, thinkers>>
  BY DEF ClearCleanup, removals, loops
<1>3. Depth = 1 /\ stack[1].op = "clear"
  BY <1>1, ClearCleanupIs
<1>4. /\ Depth' = 2 /\ stack'[1].op = "clearEnd" /\ stack'[2].op = "cleanup"
      /\ stack'[1].ent = Nil /\ stack'[2].ent = Nil
  BY <1>1, ClearCleanupIs
<1>5. \A i \in 1 .. Depth' : i \in {1, 2}
  BY <1>4
<1>6. Shape'
  <2>1. LoopsAtBottom' /\ NowIsFleeting' /\ DestroyIsFleeting' /\ ThinkOnlyMarks'
    BY <1>4, <1>5 DEF LoopsAtBottom, NowIsFleeting, DestroyIsFleeting, ThinkOnlyMarks
  <2>2. OneCallEach'
    BY <1>4, <1>5 DEF OneCallEach
  <2> QED BY <2>1, <2>2 DEF Shape
<1>7. CallsLive'
  BY <1>1, <1>2, <1>4, <1>5 DEF CallsLive
<1>8. NotesLive' /\ ThinkersLive'
  BY <1>1, <1>2, <1>3 DEF NotesLive, ThinkersLive
<1> QED BY <1>6, <1>7, <1>8 DEF PInv

(* The clean-up takes the next of the delete list.                         *)
LEMMA ReleaseKeeps ==
  ASSUME PInv, CallTypes', Release
  PROVE  PInv'
<1> DEFINE c == cursor + 1
           e == deleteList[c]
<1>1. CallTypes /\ Shape /\ CallsLive /\ NotesLive /\ ThinkersLive
  BY DEF PInv
<1>2. /\ stack # <<>> /\ Top = "cleanup" /\ stack' = Append(stack, Call("destroy", e))
      /\ cursor' = c /\ UNCHANGED <<killme, dead, deleteList, pending, thinkers>>
      /\ cursor < Len(deleteList)
  BY DEF Release, removals, loops, Push
<1>3. /\ c \in 1 .. Len(deleteList) /\ c \in c .. Len(deleteList)
      /\ cursor \in Nat /\ Len(deleteList) \in Nat
      /\ \A n \in c + 1 .. Len(deleteList) : n \in c .. Len(deleteList) /\ n \in 1 .. Len(deleteList) /\ n # c
  BY <1>1, <1>2 DEF CallTypes
<1>4. e \in Entities /\ e \in killme /\ e \notin dead
  BY <1>1, <1>3 DEF CallsLive, CallTypes
<1>5. \A i \in 1 .. Depth : stack[i].ent # e
  <2> SUFFICES ASSUME NEW i \in 1 .. Depth, stack[i].ent = e PROVE FALSE
    OBVIOUS
  <2>1. stack[i].ent # Nil
    BY <1>4, Constants
  <2> QED BY <2>1, <1>1, <1>3 DEF CallsLive
<1> HIDE DEF c, e
<1>6. /\ Depth \in Nat /\ Depth' = Depth + 1 /\ stack'[Depth + 1].op = "destroy" /\ stack'[Depth + 1].ent = e
      /\ \A i \in 1 .. Depth : stack'[i] = stack[i]
      /\ \A i \in 1 .. Depth' : i = Depth + 1 \/ i \in 1 .. Depth
      /\ Depth > 0 /\ Depth \in 1 .. Depth /\ 1 \in 1 .. Depth
  BY <1>1, <1>2, <1>4, PushIs, CallIs, CallFields, FrameIs DEF Depth, CallTypes
<1>7. stack[1].op \in {"cleanup", "clearEnd"}
  BY <1>1, <1>2, <1>6, FrameIs, LoopIs
<1>8. ~Calling("think")
  <2> SUFFICES ASSUME NEW j \in 1 .. Depth, stack[j].op = "think" PROVE FALSE
    BY <1>1, FrameIs
  <2>1. stack[j].ent = Nil
    BY <1>1, FrameIs
  <2> QED BY <2>1, <1>1, <1>7, LoopIs
<1>9. Shape'
  BY <1>1, <1>2, <1>4, <1>5, <1>8, ShapePush
<1>10. CallsLive'
  <2>1. ASSUME NEW i \in 1 .. Depth', stack'[i].ent # Nil
        PROVE  /\ stack'[i].ent \in killme' /\ stack'[i].ent \notin dead'
               /\ \A n \in cursor' + 1 .. Len(deleteList') : deleteList'[n] # stack'[i].ent
    <3>1. CASE i = Depth + 1
      <4>1. \A n \in c + 1 .. Len(deleteList) : deleteList[n] # e
        BY <1>1, <1>3 DEF CallsLive, e
      <4> QED BY <3>1, <4>1, <1>2, <1>4, <1>6
    <3>2. CASE i \in 1 .. Depth
      <4>1. /\ stack[i].ent \in killme /\ stack[i].ent \notin dead
            /\ \A n \in c .. Len(deleteList) : deleteList[n] # stack[i].ent
        BY <3>2, <2>1, <1>1, <1>6 DEF CallsLive, c
      <4> QED BY <4>1, <3>2, <1>2, <1>3, <1>6
    <3> QED BY <3>1, <3>2, <1>6
  <2>2. ASSUME NEW i \in 1 .. Depth', stack'[i].op \in {"update", "updateNow"}
        PROVE  \A n \in 1 .. Len(deleteList') : deleteList'[n] # stack'[i].ent
    <3>1. i \in 1 .. Depth
      BY <2>2, <1>6
    <3> QED BY <3>1, <2>2, <1>1, <1>2, <1>6 DEF CallsLive
  <2>3. \A n \in cursor' + 1 .. Len(deleteList') : deleteList'[n] \notin dead'
    BY <1>1, <1>2, <1>3 DEF CallsLive, c
  <2> QED BY <2>1, <2>2, <2>3, <1>1, <1>2 DEF CallsLive
<1>11. NotesLive'
  BY <1>1, <1>2, <1>6, <1>7 DEF NotesLive
<1>12. ThinkersLive'
  BY <1>1, <1>2, <1>6, <1>7 DEF ThinkersLive
<1> QED BY <1>9, <1>10, <1>11, <1>12 DEF PInv

(* A physics callback asks for a removal.                                  *)
LEMMA NoteKeeps ==
  ASSUME PInv, CallTypes', NEW e \in Entities, e \notin dead, e \notin Fleeting,
         Calling("simulate"), pending' = pending \/ pending' = Append(pending, e),
         UNCHANGED <<killme, stack, dead, deleteList, cursor, thinkers>>
  PROVE  PInv'
<1>1. CallTypes /\ Shape /\ CallsLive /\ NotesLive /\ ThinkersLive
  BY DEF PInv
<1>2. Depth' = Depth
  BY DEF Depth
<1>3. Shape' /\ CallsLive' /\ ThinkersLive'
  BY <1>1, <1>2 DEF Shape, LoopsAtBottom, OneCallEach, NowIsFleeting, DestroyIsFleeting,
                    ThinkOnlyMarks, CallsLive, ThinkersLive
<1>4. Depth > 0 /\ stack[1].op = "simulate"
  <2>1. PICK j \in 1 .. Depth : stack[j].op = "simulate"
    BY <1>1, FrameIs
  <2>2. stack[j].ent = Nil
    BY <1>1, <2>1, FrameIs
  <2>3. j = 1
    BY <1>1, <2>1, <2>2, LoopIs
  <2> QED BY <1>1, <2>1, <2>3, FrameIs
<1>5. NotesLive'
  <2>1. CASE pending' = pending
    BY <1>1, <1>2, <2>1 DEF NotesLive
  <2>2. CASE pending' = Append(pending, e)
    <3>1. /\ Len(pending') = Len(pending) + 1 /\ pending'[Len(pending) + 1] = e
          /\ Len(pending) \in Nat
          /\ \A n \in 1 .. Len(pending) : pending'[n] = pending[n]
      BY <1>1, <2>2, AppendProperties DEF CallTypes
    <3>2. \A n \in 1 .. Len(pending') : n = Len(pending) + 1 \/ n \in 1 .. Len(pending)
      BY <3>1
    <3> QED BY <1>1, <1>2, <1>4, <3>1, <3>2 DEF NotesLive
  <2> QED BY <2>1, <2>2
<1> QED BY <1>3, <1>5 DEF PInv

(* A step that leaves the calls and the notes alone keeps all pointers live. *)
LEMMA RestIs ==
  ASSUME PInv, CallTypes', UNCHANGED <<killme, stack, dead, deleteList, cursor, pending>>,
         thinkers' \subseteq thinkers
  PROVE  PInv'
<1>1. CallTypes /\ Shape /\ CallsLive /\ NotesLive /\ ThinkersLive
  BY DEF PInv
<1>2. Depth' = Depth
  BY DEF Depth
<1>3. Shape' /\ CallsLive' /\ NotesLive'
  BY <1>1, <1>2 DEF Shape, LoopsAtBottom, OneCallEach, NowIsFleeting, DestroyIsFleeting,
                    ThinkOnlyMarks, CallsLive, NotesLive
<1>4. ThinkersLive'
  BY <1>1, <1>2 DEF ThinkersLive
<1> QED BY <1>3, <1>4 DEF PInv

(* UTIL_Remove, and what does its work later.                              *)
LEMMA RemoveKeeps ==
  ASSUME PInv, CallTypes', NEW e \in Entities, UTIL_Remove(e),
         Calling("simulate") => e \notin Fleeting,
         UNCHANGED <<dead, deleteList, cursor, thinkers>>
  PROVE  PInv'
<1>1. e \notin dead /\ e \notin killme
  BY DEF UTIL_Remove, Exists
<1>2. CASE Calling("simulate")
  BY <1>1, <1>2, NoteKeeps DEF UTIL_Remove
<1>3. CASE ~Calling("simulate")
  BY <1>1, <1>3, MarkPush DEF UTIL_Remove, Mark, Push
<1> QED BY <1>2, <1>3

(* Every step keeps the pointers live. *)
LEMMA PointersKept ==
  ASSUME PInv, CallTypes', Next
  PROVE  PInv'
<1>1. CallTypes /\ Shape /\ CallsLive /\ NotesLive /\ ThinkersLive
  BY DEF PInv
<1> USE DEF removals, loops
<1>2. CASE CreateNetworked \/ CreateServerOnly \/ NextVisit \/ ClearNext
  BY <1>2, RestIs DEF CreateNetworked, CreateServerOnly, NextVisit, ClearNext
<1>3. ASSUME NEW e \in Entities, Remove(e)
      PROVE  PInv'
  BY <1>3, RemoveKeeps DEF Remove
<1>4. ASSUME NEW e \in Entities, RemoveImmediate(e)
      PROVE  PInv'
  <2>1. /\ e \in Fleeting /\ e \notin killme \cup dead /\ killme' = killme \cup {e}
        /\ UNCHANGED <<dead, deleteList, cursor, pending, thinkers>>
        /\ IF Calling("think") THEN stack' = Append(stack, Call("update", e))
                               ELSE stack' = Append(stack, Call("updateNow", e))
    BY <1>4 DEF RemoveImmediate, Exists, Mark, Push
  <2>2. CASE Calling("think")
    BY <2>1, <2>2, MarkPush
  <2>3. CASE ~Calling("think")
    BY <2>1, <2>3, MarkPush
  <2> QED BY <2>2, <2>3
<1>5. CASE StartCleanup \/ StartVisit \/ StartClear \/ StartSimulation
  BY <1>5, LoopPush DEF StartCleanup, StartVisit, StartClear, StartSimulation, StartWalk
<1>6. CASE StartThinking
  <2>1. thinkers' \cap dead = {}
    BY <1>6 DEF StartThinking, Exists
  <2> QED BY <1>6, <2>1, LoopPush DEF StartThinking
<1>7. CASE AddToDeleteList
  BY <1>7, AddToDeleteListKeeps
<1>8. CASE DeleteNow
  BY <1>8, DeleteNowKeeps
<1>9. CASE Destroyed
  BY <1>9, DestroyedKeeps
<1>10. CASE Release
  BY <1>10, ReleaseKeeps
<1>11. ASSUME stack # <<>>, Depth = 1, Top \notin {"simulate", "damage", "flush", "think"}
       PROVE  pending = <<>> /\ thinkers = {}
  <2>1. stack[1].op = Top
    BY <1>1, <1>11, FrameIs
  <2>2. Len(pending) \in Nat /\ ~(Len(pending) > 0) /\ thinkers = {}
    BY <1>1, <1>11, <2>1 DEF NotesLive, ThinkersLive, CallTypes
  <2> QED BY <1>1, <2>2 DEF CallTypes
<1>12. CASE EndCleanup
  BY <1>12, <1>11, ReturnKeeps DEF EndCleanup
<1>13. CASE NextThinker
  <2>1. CASE thinkers = {}
    <3>1. Depth = 1 => pending = <<>>
      <4> SUFFICES ASSUME Depth = 1 PROVE pending = <<>>
        OBVIOUS
      <4>1. stack[1].op = "think"
        BY <1>1, <1>13, FrameIs DEF NextThinker
      <4>2. Len(pending) \in Nat /\ ~(Len(pending) > 0)
        BY <1>1, <4>1 DEF NotesLive, CallTypes
      <4> QED BY <1>1, <4>2 DEF CallTypes
    <3> QED BY <1>13, <2>1, <3>1, ReturnKeeps DEF NextThinker
  <2>2. CASE thinkers # {}
    BY <1>13, <2>2, RestIs DEF NextThinker
  <2> QED BY <2>1, <2>2
<1>14. CASE EndVisit \/ EndClear
  BY <1>14, <1>11, ReturnKeeps DEF EndVisit, EndClear
<1>15. CASE ClearRemove
  <2>1. at \in Entities /\ stack # <<>> /\ Top = "clear"
    BY <1>1, <1>15 DEF ClearRemove, CallTypes
  <2>2. ~Calling("simulate")
    <3> SUFFICES ASSUME NEW j \in 1 .. Depth, stack[j].op = "simulate" PROVE FALSE
      BY <1>1, FrameIs
    <3>1. stack[j].ent = Nil
      BY <1>1, FrameIs
    <3>2. stack[1].op = "simulate"
      BY <1>1, <3>1, LoopIs
    <3>3. Depth \in 1 .. Depth /\ stack[Depth].op = "clear" /\ stack[Depth].ent = Nil
      BY <1>1, <2>1, FrameIs
    <3> QED BY <1>1, <3>2, <3>3, LoopIs
  <2> QED BY <1>15, <2>1, <2>2, RemoveKeeps DEF ClearRemove
<1>16. CASE ClearCleanup
  BY <1>16, ClearCleanupKeeps
<1>17. CASE UpdateDamageEvents \/ EndDamageEvents
  BY <1>17, PhaseKeeps DEF UpdateDamageEvents, EndDamageEvents
<1>18. CASE UpdateRemoveObjects
  <2>1. stack # <<>> /\ Top = "flush"
        /\ UNCHANGED <<dead, deleteList, cursor, thinkers>>
    BY <1>18 DEF UpdateRemoveObjects
  <2>2. Depth = 1 => thinkers = {}
    BY <1>1, <2>1, FrameIs DEF ThinkersLive
  <2>3. CASE pending = <<>>
    BY <1>18, <2>1, <2>2, <2>3, ReturnKeeps DEF UpdateRemoveObjects
  <2>4. CASE pending # <<>>
    <3> DEFINE e == Head(pending)
    <3>1. pending \in Seq(Entities) /\ e = pending[1] /\ e \in Entities /\ 1 \in 1 .. Len(pending)
          /\ Len(Tail(pending)) = Len(pending) - 1 /\ Len(pending) \in Nat
          /\ \A n \in 1 .. Len(Tail(pending)) : Tail(pending)[n] = pending[n + 1] /\ n + 1 \in 1 .. Len(pending)
      BY <1>1, <2>4 DEF CallTypes
    <3>2. e \notin dead
      BY <1>1, <3>1 DEF NotesLive
    <3>3. pending' = Tail(pending)
      BY <1>18, <2>4 DEF UpdateRemoveObjects
    <3>4. CASE e \in killme
      <4>1. UNCHANGED <<killme, stack>> /\ Depth' = Depth
        BY <1>18, <2>4, <3>4 DEF UpdateRemoveObjects, Depth
      <4>2. Shape' /\ CallsLive' /\ ThinkersLive'
        BY <1>1, <2>1, <4>1 DEF Shape, LoopsAtBottom, OneCallEach, NowIsFleeting,
                  DestroyIsFleeting, ThinkOnlyMarks, CallsLive, ThinkersLive
      <4>3. NotesLive'
        <5>1. \A n \in 1 .. Len(pending') : pending'[n] \notin Fleeting \cup dead'
          BY <1>1, <2>1, <3>1, <3>3 DEF NotesLive
        <5>2. Len(pending) > 0
          BY <3>1
        <5> QED BY <1>1, <4>1, <5>1, <5>2 DEF NotesLive
      <4> QED BY <4>2, <4>3 DEF PInv
    <3>5. CASE e \notin killme
      <4>1. stack' = Append(stack, Call("update", e)) /\ killme' = killme \cup {e}
        BY <1>18, <2>4, <3>5 DEF UpdateRemoveObjects, Mark, Push
      <4> HIDE DEF e
      <4> QED BY <2>1, <2>4, <3>1, <3>2, <3>3, <3>5, <4>1, MarkPush
    <3> QED BY <3>4, <3>5
  <2> QED BY <2>3, <2>4
<1> QED
  BY <1>2, <1>3, <1>4, <1>5, <1>6, <1>7, <1>8, <1>9, <1>10, <1>12, <1>13, <1>14, <1>15,
     <1>16, <1>17, <1>18 DEF Next, Proceed

(* A step, or none, keeps them, given the types after it.                  *)
LEMMA StepPointers == IInv /\ PInv /\ IInv' /\ [Next]_vars => PInv'
<1> SUFFICES ASSUME IInv, PInv, IInv', [Next]_vars PROVE PInv'
  OBVIOUS
<1>1. CallTypes'
  BY DEF IInv
<1>2. CASE Next
  BY <1>1, <1>2, PointersKept
<1>3. CASE UNCHANGED vars
  BY <1>1, <1>3, RestIs DEF vars, removals, loops
<1> QED BY <1>2, <1>3

(* Whatever the game code that runs in between does, the pointers that     *)
(* the loops, the delete list and the calls in progress keep are to        *)
(* entities that still exist.                                              *)
THEOREM SpecPointersAreLive == Spec => []PointersAreLive
<1>1. Init => PInv
  BY InitPointers
<1>2. IInv /\ PInv /\ IInv' /\ [Next]_vars => PInv'
  BY StepPointers
<1>3. ASSUME PInv PROVE PointersAreLive
  <2>1. CallTypes /\ Shape /\ CallsLive /\ NotesLive /\ ThinkersLive
    BY <1>3 DEF PInv
  <2>2. \A e \in ToRelease : e \notin dead
    BY <2>1 DEF CallsLive, ToRelease
  <2>3. \A e \in Elements(pending) : e \notin dead
    BY <2>1 DEF NotesLive, Elements, CallTypes
  <2>4. \A e \in thinkers : e \notin dead
    BY <2>1 DEF ThinkersLive
  <2>5. \A e \in {stack[i].ent : i \in DOMAIN stack} \ {Nil} : e \notin dead
    <3>1. DOMAIN stack = 1 .. Depth
      BY <2>1 DEF CallTypes, Depth
    <3> QED BY <2>1, <3>1 DEF CallsLive
  <2>6. \A i, j \in DOMAIN deleteList : deleteList[i] = deleteList[j] => i = j
    BY <2>1 DEF CallsLive, CallTypes
  <2> QED BY <2>2, <2>3, <2>4, <2>5, <2>6 DEF PointersAreLive
<1> QED BY <1>1, <1>2, <1>3, Invariant, PTL DEF Spec
-----------------------------------------------------------------------------
(* The walks.  Ahead of a walk lie the slots that it still has to come to: *)
(* they follow one another to the end of the list, hold nobody whom it has *)
(* visited and, unless the slots ran out, everybody else.                  *)
Busy(s) == info[s].ent # Nil
SlotAt  == ref[at].slot

Ahead(U) ==
  /\ \A s \in U : Busy(s) /\ s # SlotAt /\ links.next[s] \in U \cup {Nil}
  /\ Busy(SlotAt) => links.next[SlotAt] \in U \cup {Nil}
  /\ \A e \in seen \cap Listed : ref[e].slot \notin U
  /\ Overflowed \/ \A e \in Listed \ seen : ref[e].slot \in U

(* Every nonempty set of naturals has a least element. *)
LEMMA LeastNatural ==
  ASSUME NEW T \in SUBSET Nat, T # {}
  PROVE  \E x \in T : \A y \in T : x <= y
<1> DEFINE R == {ss \in Nat \X Nat : ss[1] < ss[2]}
<1>1. IsWellFoundedOn(R, Nat)
  BY NatLessThanWellFounded DEF OpToRel
<1>2. PICK x \in T : \A y \in T : ~(<<y, x>> \in R)
  <2> HIDE DEF R
  <2> QED BY <1>1, WFMin
<1>3. ASSUME NEW y \in T, y < x PROVE <<y, x>> \in R
  <2>1. x \in Nat /\ y \in Nat OBVIOUS
  <2> QED BY <1>3, <2>1
<1>4. \A y \in T : ~(y < x)
  <2> HIDE DEF R
  <2> QED BY <1>2, <1>3
<1>5. \A y \in T : x <= y
  BY <1>4
<1> QED BY <1>5

(* Along the links some number falls, too. *)
LEMMA Falling ==
  ASSUME NEW l \in Links, Acyclic(l)
  PROVE  \E fall \in [Slots -> Nat] :
           \A s \in Slots : l.next[s] \in Slots /\ l.next[s] # s => fall[l.next[s]] < fall[s]
<1> PICK rank \in [Slots -> Nat] : Ranks(l, rank)
  BY DEF Acyclic
<1> DEFINE Bounds(n, b) == \A s \in Slots : s < n => rank[s] <= b
           Bad == {n \in Nat : n <= NumSlots /\ ~\E b \in Nat : Bounds(n, b)}
<1>1. NumSlots \in Nat /\ \A s \in Slots : s \in Nat /\ s < NumSlots
  BY Constants DEF Slots
<1>2. Bad = {}
  <2> SUFFICES ASSUME Bad # {} PROVE FALSE
    OBVIOUS
  <2>1. PICK n \in Bad : \A m \in Bad : n <= m
    <3>1. PICK k : k \in Bad
      OBVIOUS
    <3>2. Bad \subseteq Nat
      OBVIOUS
    <3> HIDE DEF Bad
    <3> QED BY <3>1, <3>2, LeastNatural
  <2>2. n # 0
    <3>1. Bounds(0, 0)
      BY <1>1
    <3> QED BY <2>1, <3>1
  <2>3. n \in Nat /\ n - 1 \in Nat /\ n - 1 < n /\ n - 1 \in Slots
    BY <2>1, <2>2, <1>1 DEF Slots
  <2>4. PICK b \in Nat : Bounds(n - 1, b)
    BY <2>1, <2>3, <1>1
  <2>5. rank[n - 1] \in Nat
    BY <2>3
  <2>6. Bounds(n, b + rank[n - 1])
    <3> SUFFICES ASSUME NEW s \in Slots, s < n PROVE rank[s] <= b + rank[n - 1]
      OBVIOUS
    <3>1. s = n - 1 \/ s < n - 1
      BY <1>1, <2>3
    <3>2. rank[s] \in Nat
      OBVIOUS
    <3> QED BY <2>4, <2>5, <3>1, <3>2
  <2>7. b + rank[n - 1] \in Nat
    BY <2>5
  <2> QED BY <2>1, <2>6, <2>7
<1>3. PICK b \in Nat : \A s \in Slots : rank[s] <= b
  <2>1. \E b \in Nat : Bounds(NumSlots, b)
    <3>1. NumSlots <= NumSlots
      BY <1>1
    <3>2. NumSlots \notin Bad
      BY <1>2
    <3>3. NumSlots \notin Bad => ~(NumSlots <= NumSlots) \/ \E b \in Nat : Bounds(NumSlots, b)
      <4> HIDE DEF Bounds
      <4> QED BY <1>1
    <3> HIDE DEF Bounds, Bad
    <3> QED BY <3>1, <3>2, <3>3
  <2> QED BY <2>1, <1>1
<1> DEFINE fall == [s \in Slots |-> b - rank[s]]
<1>4. fall \in [Slots -> Nat]
  BY <1>3
<1>5. ASSUME NEW s \in Slots, l.next[s] \in Slots, l.next[s] # s
      PROVE  fall[l.next[s]] < fall[s]
  <2>1. rank[s] < rank[l.next[s]] /\ rank[s] \in Nat /\ rank[l.next[s]] \in Nat
    BY <1>5 DEF Ranks
  <2> QED BY <1>5, <2>1
<1> QED BY <1>4, <1>5

(* Slots that follow one another come to an end, at the tail of the list.  *)
LEMMA LastOf ==
  ASSUME TableTypes, TableInv, NEW U \in SUBSET Slots, U # {},
         \A s \in U : Busy(s) /\ links.next[s] \in U \cup {Nil}
  PROVE  links.tail["active"] \in U
<1>1. links \in Links /\ Acyclic(links)
  BY DEF TableInv, WellLinked
<1>2. PICK fall \in [Slots -> Nat] :
        \A s \in Slots : links.next[s] \in Slots /\ links.next[s] # s => fall[links.next[s]] < fall[s]
  BY <1>1, Falling
<1> DEFINE N == {fall[s] : s \in U}
<1>3. PICK n \in N : \A m \in N : n <= m
  <2>1. \E k : k \in N
    OBVIOUS
  <2>2. N \subseteq Nat
    OBVIOUS
  <2> HIDE DEF N
  <2> QED BY <2>1, <2>2, LeastNatural
<1>4. PICK s \in U : fall[s] = n
  OBVIOUS
<1>5. ListOf[s] = "active" /\ ListOf[s] # "none"
  BY ListOfIs DEF Busy
<1>6. links.next[s] # s /\ (links.next[s] = Nil => links.tail["active"] = s)
  BY <1>5 DEF TableInv, WellLinked
<1>7. links.next[s] \notin U
  <2> SUFFICES ASSUME links.next[s] \in U PROVE FALSE
    OBVIOUS
  <2>1. fall[links.next[s]] < fall[s] /\ fall[links.next[s]] \in N
    BY <1>2, <1>6
  <2>2. fall[links.next[s]] \in Nat /\ fall[s] \in Nat
    OBVIOUS
  <2> QED BY <1>3, <1>4, <2>1, <2>2
<1> QED BY <1>6, <1>7

(* The slot that holds an entity which is on the list. *)
LEMMA ListedIs ==
  ASSUME TableTypes, TableInv
  PROVE  /\ \A e \in Listed : e \in Entities /\ ref[e].slot \in Slots /\ Busy(ref[e].slot)
                              /\ info[ref[e].slot].ent = e
         /\ \A s \in Slots : Busy(s) => info[s].ent \in Listed /\ ref[info[s].ent].slot = s
         /\ \A e \in Entities : ref[e].slot \in Slots
<1>1. \A e \in Entities : ref[e] \in Handles /\ ref[e].slot \in Slots
  BY Constants DEF TableTypes
<1>2. ASSUME NEW e \in Listed
      PROVE  e \in Entities /\ ref[e].slot \in Slots /\ info[ref[e].slot].ent = e /\ Busy(ref[e].slot)
  BY <1>1, Constants DEF Listed, TableInv, Busy
<1>3. ASSUME NEW s \in Slots, Busy(s)
      PROVE  info[s].ent \in Listed /\ ref[info[s].ent].slot = s
  <2>1. info[s].ent \in Entities /\ info[s].serial \in 0 .. SerialMod - 1
        /\ ref[info[s].ent] = [slot |-> s, serial |-> info[s].serial]
    BY <1>3 DEF TableTypes, TableInv, Busy
  <2> QED BY <2>1, Constants DEF Listed
<1> QED BY <1>1, <1>2, <1>3

(* What a creation in the slot s, and the destruction of what the slot s   *)
(* holds, do to the table, as far as a walk can see.                       *)
Grows(s) ==
  LET e == created + 1
  IN  /\ s \in Slots /\ ~Busy(s) /\ e \in Entities /\ created' = e
      /\ info'[s].ent = e /\ \A t \in Slots \ {s} : info'[t] = info[t]
      /\ ref'[e] # Invalid /\ ref'[e].slot = s /\ \A f \in Entities \ {e} : ref'[f] = ref[f]
      /\ given'[e].handle # Invalid /\ \A f \in Entities \ {e} : given'[f] = given[f]
      /\ ref[e] = Invalid
      /\ links'.next[s] = Nil
      /\ \A t \in Slots : Busy(t) => links'.next[t] \in {links.next[t], s}
      /\ numEnts' = numEnts + 1

Shrinks(s) ==
  LET e == info[s].ent
  IN  /\ s \in Slots /\ Busy(s) /\ e \in Listed /\ UNCHANGED <<created, given>>
      /\ info'[s].ent = Nil /\ \A t \in Slots \ {s} : info'[t] = info[t]
      /\ ref'[e] = Invalid /\ \A f \in Entities \ {e} : ref'[f] = ref[f]
      /\ \A t \in Slots \ {s} :
           Busy(t) => links'.next[t] = IF links.next[t] = s THEN links.next[s] ELSE links.next[t]
      /\ numEnts' = numEnts - 1

(* The next slots after a slot is appended to a list. *)
LEMMA AddNext ==
  ASSUME NEW l \in Links, NEW list \in Lists, NEW s \in Slots
  PROVE  /\ AddToTail(l, list, s).next =
              [t \in Slots |-> IF t = s THEN Nil ELSE IF t = l.tail[list] THEN s ELSE l.next[t]]
  BY DEF AddToTail, Links

(* The next slots after a slot is taken out of a list, and the tails. *)
LEMMA UnlinkNext ==
  ASSUME NEW l \in Links, NEW list \in Lists, NEW s \in Slots, IsInList(l, s)
  PROVE  /\ Unlink(l, list, s).next =
              [t \in Slots |-> IF t = s THEN s ELSE IF t = l.prev[s] THEN l.next[s] ELSE l.next[t]]
         /\ \A k \in Lists \ {list} : Unlink(l, list, s).tail[k] = l.tail[k]
  BY DEF Unlink, Links

(* A creation grows the table. *)
LEMMA AddGrows ==
  ASSUME TableTypes, TableInv, HistoryInv, created < NumEntities,
         NEW s \in Slots, info[s].ent = Nil, NEW l,
         l = links \/ (ListOf[s] = "free" /\ l = Unlink(links, "free", s)), l \in Links,
         AddEntityAtSlot(NextEntity, s, l), created' = created + 1
  PROVE  Grows(s)
<1> DEFINE e == NextEntity
           h == [slot |-> s, serial |-> info[s].serial]
<1>1. e = created + 1 /\ e \in Entities /\ created \in Nat /\ e > created
  BY Constants DEF NextEntity, Entities, TableTypes
<1>2. h # Invalid /\ h.slot = s
  BY Constants DEF TableTypes
<1>3. /\ info' = [info EXCEPT ![s].ent = e]
      /\ links' = AddToTail(l, "active", s)
      /\ ref' = [ref EXCEPT ![e] = h]
      /\ given' = [given EXCEPT ![e] = [handle |-> h, use |-> uses[s]]]
      /\ numEnts' = numEnts + 1
  <2>1. ref' = [ref EXCEPT ![e] = h]
    BY DEF AddEntityAtSlot
  <2>2. ref'[e] = h
    BY <2>1, <1>1 DEF TableTypes
  <2> QED BY <2>1, <2>2 DEF AddEntityAtSlot
<1>4. /\ info'[s].ent = e
      /\ \A t \in Slots \ {s} : info'[t] = info[t]
  BY <1>3 DEF TableTypes
<1>5. /\ ref'[e] = h /\ \A f \in Entities \ {e} : ref'[f] = ref[f]
      /\ given'[e] = [handle |-> h, use |-> uses[s]]
      /\ \A f \in Entities \ {e} : given'[f] = given[f]
  BY <1>1, <1>3 DEF TableTypes
<1>6. ref[e] = Invalid
  <2>1. given[e].handle = Invalid
    <3>1. \A f \in Entities : f > created => given[f].handle = Invalid
      BY DEF HistoryInv
    <3> QED BY <3>1, <1>1
  <2>2. ref[e] # Invalid => given[e] = [handle |-> ref[e], use |-> uses[ref[e].slot]]
    <3>1. \A f \in Listed : given[f] = [handle |-> ref[f], use |-> uses[ref[f].slot]]
      BY DEF HistoryInv
    <3> QED BY <3>1, <1>1 DEF Listed
  <2>3. ref[e] # Invalid => given[e].handle = ref[e]
    BY <2>2
  <2> QED BY <2>1, <2>3
<1> HIDE DEF e, h
<1>7. links'.next = [t \in Slots |-> IF t = s THEN Nil ELSE IF t = l.tail["active"] THEN s ELSE l.next[t]]
  BY <1>3, AddNext DEF Lists
<1>8. ASSUME NEW t \in Slots, Busy(t) PROVE l.next[t] = links.next[t]
  <2>1. CASE l = links
    BY <2>1
  <2>2. CASE ListOf[s] = "free" /\ l = Unlink(links, "free", s)
    <3>1. links \in Links /\ t # s /\ ListOf[t] = "active"
      BY <1>8, ListOfIs DEF TableInv, WellLinked, Busy
    <3>2. /\ links.prev[s] # s
          /\ links.prev[s] = Nil \/ ListOf[links.prev[s]] = "free"
      BY <2>2 DEF TableInv, WellLinked
    <3>3. t # links.prev[s]
      BY <3>1, <3>2, Constants
    <3>4. l.next = [u \in Slots |-> IF u = s THEN s ELSE IF u = links.prev[s] THEN links.next[s]
                                    ELSE links.next[u]]
      BY <2>2, <3>1, <3>2, UnlinkNext DEF IsInList, Lists
    <3> QED BY <3>1, <3>3, <3>4
  <2> QED BY <2>1, <2>2
<1>9. links'.next[s] = Nil
      /\ \A t \in Slots : Busy(t) => links'.next[t] \in {links.next[t], s}
  <2>1. ASSUME NEW t \in Slots, Busy(t) PROVE links'.next[t] \in {links.next[t], s}
    <3>1. t # s
      BY <2>1 DEF Busy
    <3> QED BY <1>7, <1>8, <2>1, <3>1
  <2> QED BY <1>7, <2>1
<1>10. given'[e].handle # Invalid
  BY <1>2, <1>5
<1> QED BY <1>1, <1>2, <1>3, <1>4, <1>5, <1>6, <1>9, <1>10 DEF Grows, Busy, h, e

(* A destruction shrinks it. *)
LEMMA RemoveShrinks ==
  ASSUME TableTypes, TableInv, NEW s \in Slots, Busy(s), RemoveEntityAtSlot(s), created' = created
  PROVE  Shrinks(s)
<1> DEFINE e == info[s].ent
           m == Unlink(links, "active", s)
<1>1. e \in Entities /\ e \in Listed
  BY ListedIs DEF Listed
<1>2. /\ info' = [info EXCEPT ![s] = [ent |-> Nil, serial |-> NextSerial(@.serial)]]
      /\ links' = (IF s >= MaxEdicts THEN AddToTail(m, "free", s) ELSE m)
      /\ ref' = [ref EXCEPT ![e] = Invalid]
      /\ numEnts' = numEnts - 1 /\ given' = given
  BY DEF RemoveEntityAtSlot, FreeSlot, Busy
<1>3. /\ info'[s].ent = Nil /\ \A t \in Slots \ {s} : info'[t] = info[t]
      /\ ref'[e] = Invalid /\ \A f \in Entities \ {e} : ref'[f] = ref[f]
  BY <1>1, <1>2 DEF TableTypes
<1>4. links \in Links /\ ListOf[s] = "active" /\ ListOf[s] # "none"
  BY ListOfIs DEF TableInv, WellLinked, Busy
<1>5. /\ links.prev[s] # s
      /\ links.prev[s] # Nil => links.next[links.prev[s]] = s
  BY <1>4 DEF TableInv, WellLinked
<1>6. /\ m.next = [t \in Slots |-> IF t = s THEN s ELSE IF t = links.prev[s] THEN links.next[s]
                                   ELSE links.next[t]]
      /\ m.tail["free"] = links.tail["free"]
  BY <1>4, <1>5, UnlinkNext DEF IsInList, Lists
<1>7. m \in Links
  BY <1>4, UnlinkKeeps, ListOfIs DEF TableInv, WellLinked, Lists
<1> HIDE DEF e, m
<1>8. ASSUME NEW t \in Slots \ {s}, Busy(t)
      PROVE  links'.next[t] = IF links.next[t] = s THEN links.next[s] ELSE links.next[t]
  <2>1. ListOf[t] = "active" /\ ListOf[t] # "none" /\ t # Nil
    BY <1>8, ListOfIs, Constants DEF Busy
  <2>2. links.next[t] = s <=> t = links.prev[s]
    <3>1. links.next[t] = s => links.prev[s] = t
      BY <2>1, Constants DEF TableInv, WellLinked
    <3> QED BY <3>1, <1>5, <2>1
  <2>3. m.next[t] = IF links.next[t] = s THEN links.next[s] ELSE links.next[t]
    BY <1>6, <2>2
  <2>4. t # m.tail["free"]
    <3>1. links.tail["free"] # Nil => ListOf[links.tail["free"]] = "free"
      BY DEF TableInv, WellLinked, Lists
    <3> QED BY <1>6, <2>1, <3>1
  <2>5. AddToTail(m, "free", s).next[t] = m.next[t]
    <3>1. AddToTail(m, "free", s).next =
            [u \in Slots |-> IF u = s THEN Nil ELSE IF u = m.tail["free"] THEN s ELSE m.next[u]]
      BY <1>7, AddNext DEF Lists
    <3> QED BY <2>4, <3>1
  <2> QED BY <1>2, <2>3, <2>5
<1> QED BY <1>1, <1>2, <1>3, <1>8 DEF Shrinks, e

(* A creation takes a slot, or, with none left, only counts. *)
LEMMA Creates ==
  ASSUME IInv, CreateNetworked \/ CreateServerOnly
  PROVE  \/ \E s \in Slots : Grows(s)
         \/ /\ UNCHANGED <<table, history>> /\ created + 1 \in Entities /\ created' = created + 1
            /\ Overflowed'
<1>0. TableTypes /\ TableInv /\ HistoryInv /\ links \in Links
  BY DEF IInv, TableInv, WellLinked
<1>1. CASE CreateNetworked
  <2>1. PICK s \in 0 .. MaxEdicts - 1 :
          info[s].ent = Nil /\ AddEntityAtSlot(NextEntity, s, links)
    BY <1>1 DEF CreateNetworked
  <2>2. s \in Slots
    BY Constants DEF Slots
  <2>3. created < NumEntities /\ created' = created + 1
    BY <1>1 DEF CreateNetworked, CanCreate
  <2> QED BY <1>0, <2>1, <2>2, <2>3, AddGrows
<1>2. CASE CreateServerOnly
  <2> DEFINE s == links.head["free"]
  <2>1. created < NumEntities /\ created' = created + 1
    BY <1>2 DEF CreateServerOnly, CanCreate
  <2>2. CASE s = Nil
    <3>1. UNCHANGED <<table, history>>
      BY <1>2, <2>2 DEF CreateServerOnly
    <3>2. created + 1 \in Entities /\ created + 1 > created /\ created + 1 \in 1 .. created'
      BY <1>0, <2>1, Constants DEF TableTypes, Entities
    <3>3. given[created + 1].handle = Invalid
      <4>1. \A e \in Entities : e > created => given[e].handle = Invalid
        BY <1>0 DEF HistoryInv
      <4> QED BY <3>2, <4>1
    <3>4. Overflowed'
      BY <3>1, <3>2, <3>3 DEF Overflowed, history
    <3> QED BY <2>1, <3>1, <3>2, <3>4
  <2>3. CASE s # Nil
    <3>1. s \in Slots /\ ListOf[s] = "free"
      BY <1>0, <2>3 DEF TableInv, WellLinked, Links, Lists
    <3>2. info[s].ent = Nil
      BY <1>0, <3>1, ListOfIs
    <3>3. Unlink(links, "free", s) \in Links
      BY <1>0, <3>1, UnlinkKeeps, ListOfIs, SMTT(30) DEF TableInv, Lists, WellLinked
    <3>4. AddEntityAtSlot(NextEntity, s, Unlink(links, "free", s))
      BY <1>2, <2>3 DEF CreateServerOnly
    <3> HIDE DEF s
    <3> QED BY <1>0, <2>1, <3>1, <3>2, <3>3, <3>4, AddGrows
  <2> QED BY <2>2, <2>3
<1> QED BY <1>1, <1>2

(* What the entity list has on it afterwards. *)
LEMMA GrowsList ==
  ASSUME TableTypes, NEW s, Grows(s)
  PROVE  /\ Listed' = Listed \cup {created + 1} /\ created + 1 \notin Listed
         /\ Overflowed => Overflowed'
<1>1. created \in Nat /\ created' = created + 1 /\ created + 1 \in Entities
      /\ ref[created + 1] = Invalid /\ ref'[created + 1] # Invalid
      /\ \A f \in Entities \ {created + 1} : ref'[f] = ref[f] /\ given'[f] = given[f]
  BY DEF Grows, TableTypes
<1>2. ASSUME NEW e \in 1 .. created
      PROVE  e \in 1 .. created' /\ e \in Entities \ {created + 1}
  <2>1. created + 1 \in 1 .. NumEntities /\ NumEntities \in Nat
    BY <1>1, Constants DEF Entities
  <2> QED BY <1>1, <2>1 DEF Entities
<1> QED BY <1>1, <1>2 DEF Listed, Overflowed

(* The one entity leaves the list, and its slots are not fewer. *)
LEMMA ShrinksList ==
  ASSUME TableTypes, NEW s, Shrinks(s)
  PROVE  /\ Listed' = Listed \ {info[s].ent} /\ info[s].ent \in Listed
         /\ Overflowed' <=> Overflowed
<1>1. \A f \in Entities \ {info[s].ent} : ref'[f] = ref[f]
  BY DEF Shrinks
<1> QED BY <1>1 DEF Shrinks, Listed, Overflowed

(* A step that leaves the table alone. *)
LEMMA SameList ==
  ASSUME UNCHANGED <<ref, given, created>>
  PROVE  Listed' = Listed /\ (Overflowed' <=> Overflowed)
  BY DEF Listed, Overflowed

(* What is ahead of a walk while it stands still and the table, too. *)
LEMMA AheadSame ==
  ASSUME NEW U, Ahead(U), UNCHANGED <<info, links, ref, at, seen>>, Overflowed => Overflowed'
  PROVE  Ahead(U)'
<1>1. Listed' = Listed /\ SlotAt' = SlotAt /\ \A s : Busy(s)' <=> Busy(s)
  BY DEF Listed, SlotAt, Busy
<1> QED BY <1>1 DEF Ahead

(* A new entity is ahead of the walk.  But if the walk stands at one that  *)
(* dropped out of the list, it may get that one's slot: then all is over.  *)
LEMMA AheadGrows ==
  ASSUME TableTypes, TableInv, NEW s, Grows(s), NEW U \in SUBSET Slots, Ahead(U),
         at \in Entities, at \in seen, seen \subseteq 1 .. created, UNCHANGED <<at, seen>>,
         Overflowed \/ at \in Listed
  PROVE  \E V \in SUBSET Slots : Ahead(V)'
<1> DEFINE e == created + 1
<1>1. /\ s \in Slots /\ ~Busy(s) /\ e \in Entities
      /\ info'[s].ent = e /\ \A t \in Slots \ {s} : info'[t] = info[t]
      /\ ref'[e].slot = s /\ \A f \in Entities \ {e} : ref'[f] = ref[f]
      /\ links'.next[s] = Nil
      /\ \A t \in Slots : Busy(t) => links'.next[t] \in {links.next[t], s}
  BY DEF Grows
<1>2. created \in Nat /\ e \notin seen /\ at # e /\ e # Nil
  BY <1>1, Constants DEF TableTypes, Entities
<1>3. Listed' = Listed \cup {e} /\ e \notin Listed /\ (Overflowed => Overflowed')
  BY GrowsList
<1> HIDE DEF e
<1>4. SlotAt' = SlotAt /\ SlotAt \in Slots
  BY <1>1, <1>2, ListedIs DEF SlotAt
<1>5. /\ \A t \in U : Busy(t) /\ t # SlotAt /\ links.next[t] \in U \cup {Nil}
      /\ Busy(SlotAt) => links.next[SlotAt] \in U \cup {Nil}
      /\ \A f \in seen \cap Listed : ref[f].slot \notin U
      /\ Overflowed \/ \A f \in Listed \ seen : ref[f].slot \in U
  BY DEF Ahead
<1>6. \A f \in Listed : f \in Entities /\ Busy(ref[f].slot)
  BY ListedIs
<1>7. CASE s = SlotAt
  <2>1. Overflowed'
    BY <1>1, <1>3, <1>6, <1>7 DEF SlotAt
  <2>2. Ahead({})'
    BY <1>1, <1>4, <1>7, <2>1 DEF Ahead
  <2> QED BY <2>2
<1>8. CASE s # SlotAt
  <2> DEFINE V == U \cup {s}
  <2>1. \A t \in U : t # s /\ t \in Slots /\ info'[t] = info[t]
    BY <1>1, <1>5
  <2>2. ASSUME NEW t \in V
        PROVE  Busy(t)' /\ t # SlotAt' /\ links'.next[t] \in V \cup {Nil}
    <3>1. CASE t = s
      BY <1>1, <1>2, <1>4, <1>8, <3>1 DEF Busy
    <3>2. CASE t \in U
      <4>1. Busy(t)' /\ links'.next[t] \in {links.next[t], s}
        BY <1>1, <1>5, <2>1, <3>2 DEF Busy
      <4> QED BY <1>4, <1>5, <3>2, <4>1
    <3> QED BY <3>1, <3>2
  <2>3. ASSUME Busy(SlotAt)' PROVE links'.next[SlotAt'] \in V \cup {Nil}
    <3>1. Busy(SlotAt)
      BY <1>1, <1>4, <1>8, <2>3 DEF Busy
    <3> QED BY <1>1, <1>4, <1>5, <3>1
  <2>4. ASSUME NEW f \in seen', f \in Listed' PROVE ref'[f].slot \notin V
    <3>1. f # e /\ f \in Listed /\ f \in seen
      BY <1>2, <1>3, <2>4
    <3>2. ref'[f] = ref[f] /\ Busy(ref[f].slot)
      BY <1>1, <1>6, <3>1
    <3> QED BY <1>1, <1>5, <3>1, <3>2
  <2>5. ASSUME ~Overflowed', NEW f \in Listed', f \notin seen' PROVE ref'[f].slot \in V
    <3>1. CASE f = e
      BY <1>1, <3>1
    <3>2. CASE f # e
      <4>1. f \in Listed /\ f \notin seen /\ f \in Entities /\ ~Overflowed
        BY <1>3, <1>6, <2>5, <3>2
      <4>2. ref'[f] = ref[f]
        BY <1>1, <3>2, <4>1
      <4> QED BY <1>5, <4>1, <4>2
    <3> QED BY <3>1, <3>2
  <2>6. V \in SUBSET Slots
    BY <1>1
  <2> HIDE DEF V
  <2>7. Ahead(V)'
    BY <2>2, <2>3, <2>4, <2>5 DEF Ahead
  <2> QED BY <2>6, <2>7
<1> QED BY <1>7, <1>8

(* What is destroyed is not ahead any more.  If the walk stands at it, it  *)
(* has dropped out of the list without being destroyed itself.             *)
LEMMA AheadShrinks ==
  ASSUME TableTypes, TableInv, NEW s, Shrinks(s), NEW U \in SUBSET Slots, Ahead(U),
         at \in Entities, UNCHANGED <<at, seen>>,
         info[s].ent = at => s = Invalid.slot /\ Overflowed
  PROVE  \E V \in SUBSET Slots : Ahead(V)'
<1> DEFINE e == info[s].ent
<1>1. /\ s \in Slots /\ Busy(s) /\ e \in Listed
      /\ info'[s].ent = Nil /\ \A t \in Slots \ {s} : info'[t] = info[t]
      /\ ref'[e] = Invalid /\ \A f \in Entities \ {e} : ref'[f] = ref[f]
      /\ \A t \in Slots \ {s} :
           Busy(t) => links'.next[t] = IF links.next[t] = s THEN links.next[s] ELSE links.next[t]
  BY DEF Shrinks
<1>2. e = at => s = Invalid.slot /\ Overflowed
  OBVIOUS
<1>3. Listed' = Listed \ {e} /\ (Overflowed' <=> Overflowed)
  BY ShrinksList
<1>4. /\ \A t \in U : Busy(t) /\ t # SlotAt /\ links.next[t] \in U \cup {Nil}
      /\ Busy(SlotAt) => links.next[SlotAt] \in U \cup {Nil}
      /\ \A f \in seen \cap Listed : ref[f].slot \notin U
      /\ Overflowed \/ \A f \in Listed \ seen : ref[f].slot \in U
  BY DEF Ahead
<1>5. \A f \in Listed : f \in Entities /\ info[ref[f].slot].ent = f
  BY ListedIs
<1>6. SlotAt \in Slots
  BY ListedIs DEF SlotAt
<1>7. \A f \in Listed \ {e} : ref[f].slot # s
  BY <1>5
<1> HIDE DEF e
<1>8. CASE e = at
  <2>1. Overflowed' /\ SlotAt' = s
    BY <1>1, <1>2, <1>3, <1>8 DEF SlotAt
  <2>2. Ahead({})'
    BY <1>1, <2>1 DEF Ahead, Busy
  <2> QED BY <2>2
<1>9. CASE e # at
  <2> DEFINE V == U \ {s}
  <2>1. SlotAt' = SlotAt
    BY <1>1, <1>9 DEF SlotAt
  <2>2. ASSUME NEW t \in V
        PROVE  Busy(t)' /\ t # SlotAt' /\ links'.next[t] \in V \cup {Nil}
    <3>1. t \in U /\ t \in Slots \ {s} /\ Busy(t) /\ info'[t] = info[t]
      BY <1>1, <1>4
    <3>2. links'.next[t] = IF links.next[t] = s THEN links.next[s] ELSE links.next[t]
      BY <1>1, <3>1
    <3>3. links.next[t] = s => links.next[s] \in U \cup {Nil} /\ links.next[s] # s
      <4>1. links.next[t] = s => s \in U
        BY <1>1, <1>4, <3>1, Constants
      <4>2. ListOf[s] # "none"
        BY <1>1, ListOfIs DEF Busy
      <4> QED BY <1>1, <1>4, <4>1, <4>2 DEF TableInv, WellLinked
    <3>4. Busy(t)' /\ t # SlotAt'
      BY <1>4, <2>1, <3>1 DEF Busy
    <3>5. CASE links.next[t] = s
      BY <3>2, <3>3, <3>4, <3>5
    <3>6. CASE links.next[t] # s
      BY <1>4, <3>1, <3>2, <3>4, <3>6
    <3> QED BY <3>5, <3>6
  <2>3. ASSUME Busy(SlotAt)' PROVE links'.next[SlotAt'] \in V \cup {Nil}
    <3>1. SlotAt # s /\ Busy(SlotAt)
      BY <1>1, <1>6, <2>1, <2>3 DEF Busy
    <3>2. links'.next[SlotAt] = IF links.next[SlotAt] = s THEN links.next[s] ELSE links.next[SlotAt]
      BY <1>1, <1>6, <3>1
    <3>3. links.next[SlotAt] = s => links.next[s] \in U \cup {Nil} /\ links.next[s] # s
      <4>1. links.next[SlotAt] = s => s \in U
        BY <1>1, <1>4, <3>1, Constants
      <4>2. ListOf[s] # "none"
        BY <1>1, ListOfIs DEF Busy
      <4> QED BY <1>1, <1>4, <4>1, <4>2 DEF TableInv, WellLinked
    <3>5. CASE links.next[SlotAt] = s
      BY <2>1, <3>2, <3>3, <3>5
    <3>6. CASE links.next[SlotAt] # s
      BY <1>4, <2>1, <3>1, <3>2, <3>6
    <3> QED BY <3>5, <3>6
  <2>4. ASSUME NEW f \in seen', f \in Listed' PROVE ref'[f].slot \notin V
    <3>1. f # e /\ f \in Listed /\ f \in seen
      BY <1>3, <2>4
    <3> QED BY <1>1, <1>4, <1>5, <3>1
  <2>5. ASSUME ~Overflowed', NEW f \in Listed', f \notin seen' PROVE ref'[f].slot \in V
    <3>1. f # e /\ f \in Listed /\ f \notin seen /\ ~Overflowed
      BY <1>3, <2>5
    <3> QED BY <1>1, <1>4, <1>5, <1>7, <3>1
  <2>6. V \in SUBSET Slots
    OBVIOUS
  <2> HIDE DEF V
  <2>7. Ahead(V)'
    BY <2>2, <2>3, <2>4, <2>5 DEF Ahead
  <2> QED BY <2>6, <2>7
<1> QED BY <1>8, <1>9

(* The entity in a slot that follows another in the active list. *)
LEMMA NextIs ==
  ASSUME TableTypes, TableInv, NEW s \in Slots, EntityAt(links.next[s]) # Nil
  PROVE  /\ links.next[s] \in Slots /\ Busy(s) /\ Busy(links.next[s])
         /\ links.prev[links.next[s]] = s
         /\ EntityAt(links.next[s]) = info[links.next[s]].ent
<1>1. links \in Links /\ \A t \in Slots : links.next[t] \in Slots \cup {Nil}
  BY DEF TableInv, WellLinked, Links
<1> DEFINE n == links.next[s]
<1>2. n \in Slots /\ n # Nil /\ Busy(n) /\ EntityAt(n) = info[n].ent
  BY <1>1, Constants DEF EntityAt, Busy
<1>3. ListOf[n] = "active" /\ ListOf[s] \in {"active", "free", "none"}
  BY <1>2, ListOfIs DEF Busy, Colours, Lists
<1>4. ListOf[s] = "none" => n = s
  BY DEF TableInv, WellLinked
<1>5. ListOf[s] # "none" => links.prev[n] = s /\ ListOf[n] = ListOf[s]
  BY <1>2 DEF TableInv, WellLinked
<1>6. Busy(s)
  BY <1>3, <1>4, <1>5, ListOfIs DEF Busy
<1> QED BY <1>2, <1>3, <1>4, <1>5, <1>6

(* At the start everything but the head of the list is ahead. *)
LEMMA AheadStart ==
  ASSUME TableTypes, TableInv, at' = EntityAt(links.head["active"]), at' # Nil, seen' = {at'},
         UNCHANGED <<info, links, ref, given, created>>
  PROVE  /\ \E V \in SUBSET Slots : Ahead(V)'
         /\ at' \in Listed
<1> DEFINE h == links.head["active"]
<1>0. PICK V : V = {s \in Slots : Busy(s) /\ s # h}
  OBVIOUS
<1>1. links \in Links /\ h \in Slots \cup {Nil} /\ \A t \in Slots : links.next[t] \in Slots \cup {Nil}
  BY DEF TableInv, WellLinked, Links, Lists
<1>2. h \in Slots /\ at' = info[h].ent /\ Busy(h)
  BY <1>1, Constants DEF EntityAt, Busy
<1>3. at' \in Listed /\ ref[at'].slot = h
  BY <1>2, ListedIs
<1>4. SlotAt' = h /\ Listed' = Listed /\ (Overflowed' <=> Overflowed)
  BY <1>3, SameList DEF SlotAt
<1>5. ASSUME NEW t \in Slots, Busy(t) PROVE links.next[t] \in V \cup {Nil}
  <2>1. ListOf[t] = "active" /\ ListOf[t] # "none"
    BY <1>5, ListOfIs DEF Busy
  <2>2. links.next[t] # Nil => links.prev[links.next[t]] = t /\ ListOf[links.next[t]] = "active"
    BY <2>1 DEF TableInv, WellLinked
  <2>3. h # Nil => links.prev[h] = Nil
    BY DEF TableInv, WellLinked, Lists
  <2>4. links.next[t] # Nil => links.next[t] # h
    BY <1>2, <2>2, <2>3, Constants, <1>5
  <2>5. links.next[t] # Nil => Busy(links.next[t]) /\ links.next[t] \in Slots
    BY <1>1, <2>2, ListOfIs DEF Busy
  <2> QED BY <1>0, <1>1, <2>4, <2>5
<1>6. \A f \in Listed : f # at' => ref[f].slot \in V
  BY <1>0, <1>2, ListedIs
<1>7. Ahead(V)'
  <2>1. ASSUME NEW t \in V PROVE Busy(t)' /\ t # SlotAt' /\ links'.next[t] \in V \cup {Nil}
    <3>1. links.next[t] \in V \cup {Nil}
      BY <1>0, <1>5, <2>1
    <3>2. Busy(t) /\ t # h
      BY <1>0, <2>1
    <3> QED BY <1>4, <3>1, <3>2 DEF Busy
  <2>2. links'.next[SlotAt'] \in V \cup {Nil}
    <3>1. links.next[h] \in V \cup {Nil}
      BY <1>2, <1>5
    <3> QED BY <1>4, <3>1
  <2>3. \A f \in seen' \cap Listed' : ref'[f].slot \notin V
    BY <1>0, <1>3, <1>4
  <2>4. \A f \in Listed' \ seen' : ref'[f].slot \in V
    BY <1>4, <1>6
  <2> QED BY <2>1, <2>2, <2>3, <2>4 DEF Ahead
<1>8. V \in SUBSET Slots
  BY <1>0
<1> QED BY <1>3, <1>7, <1>8

(* A step of the walk comes to an entity that is new to it. *)
LEMMA AheadNext ==
  ASSUME TableTypes, TableInv, NEW U \in SUBSET Slots, Ahead(U), at \in Entities,
         at' = NextEnt(at), at' # Nil, seen' = seen \cup {at'},
         UNCHANGED <<info, links, ref, given, created>>
  PROVE  /\ \E V \in SUBSET Slots : Ahead(V)'
         /\ at' \in Listed /\ at' \notin seen
<1> DEFINE n == links.next[SlotAt]
<1>0. PICK V : V = U \ {n}
  OBVIOUS
<1>1. SlotAt \in Slots
  BY ListedIs DEF SlotAt
<1>2. /\ n \in Slots /\ Busy(SlotAt) /\ Busy(n) /\ links.prev[n] = SlotAt
      /\ at' = info[n].ent
  BY <1>1, NextIs DEF NextEnt, SlotAt
<1>3. at' \in Listed /\ ref[at'].slot = n
  BY <1>2, ListedIs
<1>4. SlotAt' = n /\ Listed' = Listed /\ (Overflowed' <=> Overflowed)
  BY <1>3, SameList DEF SlotAt
<1>5. /\ \A t \in U : Busy(t) /\ t # SlotAt /\ links.next[t] \in U \cup {Nil}
      /\ Busy(SlotAt) => n \in U \cup {Nil}
      /\ \A f \in seen \cap Listed : ref[f].slot \notin U
      /\ Overflowed \/ \A f \in Listed \ seen : ref[f].slot \in U
  BY DEF Ahead
<1>6. n \in U
  BY <1>2, <1>5, Constants
<1>7. at' \notin seen
  BY <1>3, <1>5, <1>6
<1>8. ASSUME NEW t \in U PROVE links.next[t] # n
  <2>1. ListOf[t] # "none"
    BY <1>5, <1>8, ListOfIs DEF Busy
  <2>2. links.next[t] = n => links.prev[n] = t
    BY <1>2, <2>1, Constants DEF TableInv, WellLinked
  <2> QED BY <1>2, <1>5, <2>2
<1>9. links.next[n] # n
  BY <1>2, ListOfIs DEF TableInv, WellLinked, Busy
<1>10. \A f \in Listed : f # at' => ref[f].slot # n
  BY <1>2, ListedIs
<1> HIDE DEF n
<1>11. Ahead(V)'
  <2>1. ASSUME NEW t \in V PROVE Busy(t)' /\ t # SlotAt' /\ links'.next[t] \in V \cup {Nil}
    BY <1>0, <1>4, <1>5, <1>8, <2>1 DEF Busy
  <2>2. links'.next[SlotAt'] \in V \cup {Nil}
    BY <1>0, <1>4, <1>5, <1>6, <1>9
  <2>3. \A f \in seen' \cap Listed' : ref'[f].slot \notin V
    BY <1>0, <1>3, <1>4, <1>5
  <2>4. Overflowed' \/ \A f \in Listed' \ seen' : ref'[f].slot \in V
    BY <1>0, <1>4, <1>5, <1>10
  <2> QED BY <2>1, <2>2, <2>3, <2>4 DEF Ahead
<1>12. V \in SUBSET Slots
  BY <1>0
<1> QED BY <1>3, <1>7, <1>11, <1>12

(* When it ends nothing is ahead. *)
LEMMA AheadEnd ==
  ASSUME TableTypes, TableInv, NEW U \in SUBSET Slots, Ahead(U), at \in Entities,
         NextEnt(at) = Nil, Overflowed \/ at \in Listed
  PROVE  Overflowed \/ Listed \subseteq seen
<1> SUFFICES ASSUME ~Overflowed PROVE Listed \subseteq seen
  OBVIOUS
<1>1. /\ \A t \in U : Busy(t) /\ t # SlotAt /\ links.next[t] \in U \cup {Nil}
      /\ Busy(SlotAt) => links.next[SlotAt] \in U \cup {Nil}
      /\ \A f \in Listed \ seen : ref[f].slot \in U
  BY DEF Ahead
<1>2. SlotAt \in Slots /\ Busy(SlotAt)
  BY ListedIs DEF SlotAt
<1>3. links.next[SlotAt] = Nil
  <2>1. EntityAt(links.next[SlotAt]) = Nil
    BY DEF NextEnt, SlotAt
  <2>2. links.next[SlotAt] \in U => EntityAt(links.next[SlotAt]) # Nil
    BY <1>1, Constants DEF EntityAt, Busy
  <2> QED BY <1>1, <1>2, <2>1, <2>2
<1>4. links.tail["active"] = SlotAt
  <2>1. ListOf[SlotAt] = "active" /\ ListOf[SlotAt] # "none"
    BY <1>2, ListOfIs DEF Busy
  <2> QED BY <1>2, <1>3, <2>1 DEF TableInv, WellLinked
<1>5. U = {}
  BY <1>1, <1>4, LastOf
<1> QED BY <1>1, <1>5

(* A list without a head is empty. *)
LEMMA NoHead ==
  ASSUME TableTypes, TableInv, EntityAt(links.head["active"]) = Nil
  PROVE  Listed = {}
<1> DEFINE U == {s \in Slots : Busy(s)}
           h == links.head["active"]
<1>1. links \in Links /\ h \in Slots \cup {Nil} /\ \A t \in Slots : links.next[t] \in Slots \cup {Nil}
  BY DEF TableInv, WellLinked, Links, Lists
<1>2. h = Nil
  <2>1. h # Nil => ListOf[h] = "active"
    BY DEF TableInv, WellLinked, Lists
  <2>2. h # Nil => Busy(h)
    BY <1>1, <2>1, ListOfIs DEF Busy
  <2> QED BY <2>2 DEF EntityAt, Busy
<1>3. links.tail["active"] = Nil
  BY <1>2 DEF TableInv, WellLinked, Lists
<1>4. ASSUME NEW t \in U PROVE Busy(t) /\ links.next[t] \in U \cup {Nil}
  <2>1. ListOf[t] = "active" /\ ListOf[t] # "none"
    BY <1>4, ListOfIs DEF Busy
  <2>2. links.next[t] # Nil => ListOf[links.next[t]] = "active"
    BY <2>1 DEF TableInv, WellLinked
  <2>3. links.next[t] # Nil => Busy(links.next[t])
    BY <1>1, <2>2, ListOfIs DEF Busy
  <2> QED BY <1>1, <2>3
<1>5. U = {}
  <2>1. U \in SUBSET Slots
    OBVIOUS
  <2> HIDE DEF U
  <2>2. U # {} => links.tail["active"] \in U
    BY <1>4, <2>1, LastOf
  <2> QED BY <1>3, <2>1, <2>2, Constants
<1> QED BY <1>5, ListedIs

(* Whoever is known anywhere has been created, the dead are not on the     *)
(* list, and unless the slots ran out it has all the others, and the count *)
(* is theirs.                                                              *)
Born ==
  /\ seen \cup killme \cup dead \subseteq 1 .. created
  /\ \A n \in 1 .. Len(pending) : pending[n] \in 1 .. created
  /\ dead \cap Listed = {}
  /\ Overflowed \/ (1 .. created) \ dead \subseteq Listed
  /\ Overflowed \/ numEnts = Cardinality(Listed)

(* A walk stands at an entity that it has visited, which nobody destroys,  *)
(* and the rest of the list is ahead.                                      *)
Walking ==
  at # Nil =>
    /\ at \in seen /\ at \notin dead
    /\ Depth > 0 /\ stack[1].op \in {"visit", "clear"}
    /\ \A i \in 1 .. Depth : stack[i].ent = at => stack[i].op = "update"
    /\ \E U \in SUBSET Slots : Ahead(U)

(* What is marked for deletion and still on the list is on its way.        *)
Held(e) ==
  \/ \E n \in cursor + 1 .. Len(deleteList) : deleteList[n] = e
  \/ \E i \in 1 .. Depth : stack[i].ent = e

OnTheirWay == \A e \in killme \cap Listed : Held(e)

(* Clear marks what its walk visits, which is all there is on the list,    *)
(* and then empties the delete list.                                       *)
Clearing ==
  Depth > 0 =>
    /\ stack[1].op = "clear" =>
         /\ seen \ {at} \subseteq killme
         /\ at = Nil => Depth = 1 /\ (Overflowed \/ Listed \subseteq seen)
    /\ stack[1].op = "clearEnd" =>
         /\ Overflowed \/ Listed \subseteq killme
         /\ IF Depth = 1 THEN Len(deleteList) = 0 ELSE stack[2].op = "cleanup"

WInv == Born /\ Walking /\ OnTheirWay /\ Clearing

(* The entities on the list are finitely many, and have been created. *)
LEMMA ListedFinite ==
  ASSUME TableTypes, HistoryInv
  PROVE  IsFiniteSet(Listed) /\ Listed \subseteq 1 .. created
<1>1. IsFiniteSet(Entities)
  BY Constants, FS_Interval DEF Entities
<1>2. IsFiniteSet(Listed)
  BY <1>1, FS_Subset DEF Listed
<1>3. ASSUME NEW e \in Listed PROVE e \in 1 .. created
  <2>1. e \in Entities /\ ref[e] # Invalid /\ given[e] = [handle |-> ref[e], use |-> uses[ref[e].slot]]
    BY DEF HistoryInv, Listed
  <2>2. given[e].handle # Invalid
    BY <2>1
  <2>3. ~(e > created)
    BY <2>1, <2>2 DEF HistoryInv
  <2> QED BY <2>1, <2>3, Constants DEF Entities, TableTypes
<1> QED BY <1>2, <1>3

(* A step that leaves the list and the dead alone. *)
LEMMA BornSame ==
  ASSUME Born, UNCHANGED <<ref, given, created, numEnts, dead>>,
         seen' \cup killme' \subseteq 1 .. created,
         \A n \in 1 .. Len(pending') : pending'[n] \in 1 .. created
  PROVE  Born'
BY SameList DEF Born

(* A creation. *)
LEMMA BornCreates ==
  ASSUME IInv, Born, CreateNetworked \/ CreateServerOnly
  PROVE  Born'
<1>1. UNCHANGED <<killme, dead, removals, loops, stack>>
  BY DEF CreateNetworked, CreateServerOnly
<1>2. TableTypes /\ HistoryInv /\ created \in Nat /\ pending' = pending /\ seen' = seen
  BY <1>1 DEF IInv, TableTypes, removals, loops
<1>3. CASE \E s \in Slots : Grows(s)
  <2>1. PICK s \in Slots : Grows(s)
    BY <1>3
  <2>2. created' = created + 1 /\ numEnts' = numEnts + 1
    BY <2>1 DEF Grows
  <2>3. Listed' = Listed \cup {created + 1} /\ created + 1 \notin Listed /\ (Overflowed => Overflowed')
    BY <1>2, <2>1, GrowsList
  <2>4. 1 .. created' = (1 .. created) \cup {created + 1} /\ created + 1 \notin 1 .. created
    BY <1>2, <2>2
  <2>5. Cardinality(Listed') = Cardinality(Listed) + 1
    BY <1>2, <2>3, ListedFinite, FS_AddElement
  <2> QED BY <1>1, <1>2, <2>2, <2>3, <2>4, <2>5 DEF Born
<1>4. CASE /\ UNCHANGED <<table, history>> /\ created + 1 \in Entities /\ created' = created + 1
           /\ Overflowed'
  <2>1. 1 .. created \subseteq 1 .. created'
    BY <1>2, <1>4
  <2>2. Listed' = Listed
    BY <1>4 DEF Listed, table
  <2> QED BY <1>1, <1>2, <1>4, <2>1, <2>2 DEF Born
<1> QED BY <1>3, <1>4, Creates

(* A destruction of an entity that is alive. *)
LEMMA BornDestroyed ==
  ASSUME IInv, PInv, Born, Destroyed
  PROVE  /\ Born'
         /\ \/ ref[TopEnt].slot \in Slots /\ Shrinks(ref[TopEnt].slot)
            \/ UNCHANGED <<table, history>>
         /\ TopEnt \in Entities /\ TopEnt \notin Listed' /\ (TopEnt \in Listed \/ Overflowed)
         /\ TopEnt \in Listed => info[ref[TopEnt].slot].ent = TopEnt
         /\ TopEnt \notin Listed => ref[TopEnt].slot = Invalid.slot
<1> DEFINE e == TopEnt
           s == ref[e].slot
<1>1. /\ stack # <<>> /\ RemoveEntityAtSlot(s) /\ dead' = dead \cup {e}
      /\ UNCHANGED <<created, killme, pending, seen>>
  BY DEF Destroyed, removals, loops
<1>2. TableTypes /\ TableInv /\ HistoryInv /\ CallTypes /\ CallsLive
  BY DEF IInv, PInv
<1>3. e \in Entities /\ e # Nil /\ e \in killme /\ e \notin dead
  <2>1. e = stack[Depth].ent /\ Depth \in 1 .. Depth /\ stack[Depth].op = "destroy" /\ stack[Depth] \in Calls
    BY <1>1, <1>2, FrameIs DEF Destroyed
  <2>2. e \in Entities /\ e # Nil
    BY <1>2, <2>1, FrameIs
  <2> QED BY <1>2, <2>1, <2>2 DEF CallsLive
<1>4. s \in Slots
  BY <1>2, <1>3, ListedIs
<1>5. e \in 1 .. created /\ (e \in Listed \/ Overflowed)
  BY <1>3 DEF Born
<1>6. /\ e \in Listed => info[s].ent = e
      /\ e \notin Listed => ref[e] = Invalid /\ s = Invalid.slot
  BY <1>2, <1>3, ListedIs DEF Listed
<1>7. CASE Busy(s)
  <2>1. Shrinks(s)
    BY <1>1, <1>2, <1>4, <1>7, RemoveShrinks
  <2>2. /\ Listed' = Listed \ {info[s].ent} /\ info[s].ent \in Listed
        /\ Overflowed' <=> Overflowed
    BY <1>2, <2>1, ShrinksList
  <2>3. e \notin Listed'
    BY <1>6, <2>2
  <2>4. ~Overflowed => Listed' = Listed \ {e}
    BY <1>5, <1>6, <2>2
  <2>5. ~Overflowed => numEnts' = Cardinality(Listed')
    <3> SUFFICES ASSUME ~Overflowed PROVE numEnts' = Cardinality(Listed')
      OBVIOUS
    <3>1. Cardinality(Listed') = Cardinality(Listed) - 1
      BY <1>2, <2>2, ListedFinite, FS_RemoveElement
    <3>2. numEnts' = numEnts - 1 /\ numEnts = Cardinality(Listed)
      BY <2>1 DEF Shrinks, Born
    <3> QED BY <3>1, <3>2
  <2>6. Born'
    BY <1>1, <1>5, <2>2, <2>3, <2>4, <2>5 DEF Born
  <2> QED BY <1>3, <1>4, <1>5, <1>6, <2>1, <2>3, <2>6
<1>8. CASE ~Busy(s)
  <2>1. UNCHANGED <<table, history>>
    BY <1>1, <1>8 DEF RemoveEntityAtSlot, Busy
  <2>2. e \notin Listed
    BY <1>2, <1>8, ListedIs
  <2>3. Listed' = Listed /\ (Overflowed' <=> Overflowed)
    BY <1>1, <2>1, SameList DEF table, history
  <2>4. numEnts' = numEnts
    BY <2>1 DEF table
  <2>5. Born'
    BY <1>1, <1>5, <2>2, <2>3, <2>4 DEF Born
  <2> QED BY <1>3, <1>5, <1>6, <2>1, <2>2, <2>3, <2>5
<1> QED BY <1>7, <1>8

(* When Clear is at its end the list is empty.                             *)
LEMMA Cleared ==
  ASSUME IInv, PInv, WInv, stack # <<>>, Top = "clearEnd"
  PROVE  Overflowed \/ (Listed = {} /\ numEnts = 0)
<1>1. CallTypes /\ Shape
  BY DEF PInv
<1>2. /\ Depth \in Nat /\ Depth > 0 /\ Depth \in 1 .. Depth
      /\ stack[Depth].op = "clearEnd" /\ stack[Depth].ent = Nil
  BY <1>1, FrameIs
<1>3. Depth = 1 /\ stack[1].op = "clearEnd" /\ stack[1].ent = Nil
  BY <1>1, <1>2, LoopIs
<1>4. (Overflowed \/ Listed \subseteq killme) /\ Len(deleteList) = 0
  BY <1>3 DEF WInv, Clearing
<1>5. killme \cap Listed = {}
  <2> SUFFICES ASSUME NEW e \in killme \cap Listed PROVE FALSE
    OBVIOUS
  <2>1. e # Nil
    BY Constants DEF Listed
  <2>2. \A n \in cursor + 1 .. Len(deleteList) : FALSE
    BY <1>1, <1>4 DEF CallTypes
  <2> QED BY <1>3, <2>1, <2>2 DEF WInv, OnTheirWay, Held
<1>6. Overflowed \/ Listed = {}
  BY <1>4, <1>5
<1> QED BY <1>6, FS_EmptySet DEF WInv, Born

(* An entity that exists has been created. *)
LEMMA ExistsBorn ==
  ASSUME TableTypes, NEW e \in Entities, Exists(e)
  PROVE  e \in 1 .. created
BY Constants DEF Exists, Entities, TableTypes

(* The notes after a removal that is only noted. *)
LEMMA NotesOf ==
  ASSUME CallTypes, NEW e \in Entities, NEW N, e \in N, \A n \in 1 .. Len(pending) : pending[n] \in N,
         pending' \in {pending, Append(pending, e)} \/ (pending # <<>> /\ pending' = Tail(pending))
  PROVE  \A n \in 1 .. Len(pending') : pending'[n] \in N
<1>1. pending \in Seq(Entities) /\ Len(pending) \in Nat
  BY DEF CallTypes
<1>2. CASE pending' = Append(pending, e)
  <2>1. /\ Len(pending') = Len(pending) + 1 /\ pending'[Len(pending) + 1] = e
        /\ \A n \in 1 .. Len(pending) : pending'[n] = pending[n]
    BY <1>1, <1>2, AppendProperties
  <2>2. \A n \in 1 .. Len(pending') : n = Len(pending) + 1 \/ n \in 1 .. Len(pending)
    BY <1>1, <2>1
  <2> QED BY <2>1, <2>2
<1>3. CASE pending # <<>> /\ pending' = Tail(pending)
  <2>1. /\ Len(pending') = Len(pending) - 1
        /\ \A n \in 1 .. Len(pending') : pending'[n] = pending[n + 1]
    BY <1>1, <1>3
  <2>2. \A n \in 1 .. Len(pending') : n + 1 \in 1 .. Len(pending)
    BY <1>1, <2>1
  <2> QED BY <2>1, <2>2
<1> QED BY <1>2, <1>3

(* Every step keeps it.                                                    *)
LEMMA BornKept ==
  ASSUME IInv, PInv, WInv, Next
  PROVE  Born'
<1>0. /\ TableTypes /\ TableInv /\ HistoryInv /\ CallTypes /\ Born
      /\ seen \cup killme \cup dead \subseteq 1 .. created
      /\ \A n \in 1 .. Len(pending) : pending[n] \in 1 .. created
  BY DEF IInv, WInv, Born
<1> USE DEF table, removals, loops, history
<1>1. CASE CreateNetworked \/ CreateServerOnly
  BY <1>0, <1>1, BornCreates
<1>2. CASE Destroyed
  BY <1>0, <1>2, BornDestroyed
<1>3. CASE \E e \in Entities : Remove(e) \/ RemoveImmediate(e)
  <2>1. PICK e \in Entities : Remove(e) \/ RemoveImmediate(e)
    BY <1>3
  <2>2. /\ UNCHANGED <<ref, given, created, numEnts, dead, seen>>
        /\ Exists(e) /\ killme' \in {killme, killme \cup {e}}
        /\ pending' \in {pending, Append(pending, e)}
    BY <2>1 DEF Remove, RemoveImmediate, UTIL_Remove, Mark
  <2>3. e \in 1 .. created
    BY <1>0, <2>2, ExistsBorn
  <2>4. \A n \in 1 .. Len(pending') : pending'[n] \in 1 .. created
    BY <1>0, <2>2, <2>3, NotesOf
  <2> QED BY <1>0, <2>2, <2>3, <2>4, BornSame
<1>4. CASE ClearRemove
  <2>1. /\ at \in Entities /\ UNCHANGED <<ref, given, created, numEnts, dead, seen>>
        /\ Exists(at) /\ killme' \in {killme, killme \cup {at}}
        /\ pending' \in {pending, Append(pending, at)}
    BY <1>0, <1>4 DEF ClearRemove, UTIL_Remove, Mark, CallTypes
  <2>2. at \in 1 .. created
    BY <1>0, <2>1, ExistsBorn
  <2>3. \A n \in 1 .. Len(pending') : pending'[n] \in 1 .. created
    BY <1>0, <2>1, <2>2, NotesOf
  <2> QED BY <1>0, <2>1, <2>2, <2>3, BornSame
<1>5. CASE UpdateRemoveObjects
  <2>1. UNCHANGED <<ref, given, created, numEnts, dead, seen>>
    BY <1>5 DEF UpdateRemoveObjects
  <2>2. CASE pending = <<>>
    BY <1>0, <1>5, <2>1, <2>2, BornSame DEF UpdateRemoveObjects
  <2>3. CASE pending # <<>>
    <3> DEFINE e == Head(pending)
    <3>1. pending \in Seq(Entities) /\ e = pending[1] /\ e \in Entities /\ 1 \in 1 .. Len(pending)
      BY <1>0, <2>3 DEF CallTypes
    <3>2. e \in 1 .. created
      BY <1>0, <3>1
    <3>3. pending' = Tail(pending) /\ killme' \in {killme, killme \cup {e}}
      BY <1>5, <2>3 DEF UpdateRemoveObjects, Mark
    <3> HIDE DEF e
    <3>4. \A n \in 1 .. Len(pending') : pending'[n] \in 1 .. created
      BY <1>0, <2>3, <3>1, <3>2, <3>3, NotesOf
    <3> QED BY <1>0, <2>1, <3>2, <3>3, <3>4, BornSame
  <2> QED BY <2>2, <2>3
<1>6. CASE StartVisit \/ StartClear
  <2>1. /\ UNCHANGED <<ref, given, created, numEnts, dead, killme, pending>>
        /\ at' = EntityAt(links.head["active"]) /\ seen' = {at'} \ {Nil}
    BY <1>6 DEF StartVisit, StartClear, StartWalk
  <2>2. links.head["active"] \in Slots \cup {Nil}
    BY <1>0 DEF TableInv, WellLinked, Links, Lists
  <2>3. at' # Nil => at' \in Listed
    BY <1>0, <2>1, <2>2, ListedIs DEF EntityAt, Busy
  <2>4. seen' \subseteq 1 .. created
    BY <1>0, <2>1, <2>3, ListedFinite
  <2> QED BY <1>0, <2>1, <2>4, BornSame
<1>7. CASE NextVisit \/ ClearNext
  <2>1. /\ UNCHANGED <<ref, given, created, numEnts, dead, killme, pending>>
        /\ at' = EntityAt(links.next[SlotAt]) /\ at \in Entities
        /\ seen' = IF at' = Nil THEN seen ELSE seen \cup {at'}
    BY <1>0, <1>7 DEF NextVisit, ClearNext, WalkTo, NextEnt, SlotAt, CallTypes
  <2>2. SlotAt \in Slots
    BY <1>0, <2>1, ListedIs DEF SlotAt
  <2>3. at' # Nil => at' \in Listed
    BY <1>0, <2>1, <2>2, NextIs, ListedIs
  <2>4. seen' \subseteq 1 .. created
    BY <1>0, <2>1, <2>3, ListedFinite
  <2> QED BY <1>0, <2>1, <2>4, BornSame
<1>8. CASE EndClear
  <2>1. /\ UNCHANGED <<ref, given, created, dead, killme, pending, seen>> /\ numEnts' = 0
        /\ stack # <<>> /\ Top = "clearEnd"
    BY <1>8 DEF EndClear
  <2>2. Overflowed \/ numEnts = 0
    BY <2>1, Cleared
  <2>3. Listed' = Listed /\ (Overflowed' <=> Overflowed)
    BY <2>1, SameList
  <2> QED BY <1>0, <2>1, <2>2, <2>3 DEF Born
<1>9. ASSUME UNCHANGED <<ref, given, created, numEnts, dead, seen, killme, pending>>
      PROVE  Born'
  BY <1>0, <1>9, BornSame
<1>10. CASE StartCleanup \/ StartThinking \/ StartSimulation
  BY <1>9, <1>10 DEF StartCleanup, StartThinking, StartSimulation
<1>11. CASE AddToDeleteList \/ DeleteNow \/ Release \/ EndCleanup \/ NextThinker
  BY <1>9, <1>11 DEF AddToDeleteList, DeleteNow, Release, EndCleanup, NextThinker
<1>12. CASE EndVisit \/ ClearCleanup \/ UpdateDamageEvents \/ EndDamageEvents
  BY <1>9, <1>12 DEF EndVisit, ClearCleanup, UpdateDamageEvents, EndDamageEvents
<1> QED
  BY <1>1, <1>2, <1>3, <1>4, <1>5, <1>6, <1>7, <1>8, <1>10, <1>11, <1>12 DEF Next, Proceed

(* The stack after each kind of step.                                      *)
LEMMA PushedIs ==
  ASSUME CallTypes, NEW c \in Calls, stack' = Append(stack, c)
  PROVE  /\ Depth \in Nat /\ Depth' = Depth + 1 /\ stack'[Depth + 1] = c
         /\ \A i \in 1 .. Depth : stack'[i] = stack[i]
         /\ \A i \in 1 .. Depth' : i = Depth + 1 \/ i \in 1 .. Depth
BY PushIs DEF Depth, CallTypes

(* ... after a return ... *)
LEMMA ReturnedIs ==
  ASSUME CallTypes, stack # <<>>, Return
  PROVE  /\ Depth \in Nat /\ Depth > 0 /\ Depth' = Depth - 1
         /\ \A i \in 1 .. Depth' : stack'[i] = stack[i] /\ i \in 1 .. Depth
<1>1. Depth \in Nat /\ Depth > 0
  BY FrameIs
<1>2. Depth' = Depth - 1 /\ \A i \in 1 .. Depth - 1 : stack'[i] = stack[i]
  BY ReturnIs DEF Depth, CallTypes
<1>3. \A i \in 1 .. Depth - 1 : i \in 1 .. Depth
  BY <1>1
<1> QED BY <1>1, <1>2, <1>3

(* ... and after a call that went on as another. *)
LEMMA ReplacedIs ==
  ASSUME CallTypes, stack # <<>>, NEW c \in Calls, stack' = Append(Without, c)
  PROVE  /\ Depth \in Nat /\ Depth > 0 /\ Depth' = Depth /\ stack'[Depth] = c
         /\ \A i \in 1 .. Depth : i # Depth => stack'[i] = stack[i]
<1>1. Depth \in Nat /\ Depth > 0
  BY FrameIs
<1>2. Depth' = Depth /\ stack'[Depth] = c /\ \A i \in 1 .. Depth - 1 : stack'[i] = stack[i]
  BY ReplaceIs DEF Depth, CallTypes
<1>3. \A i \in 1 .. Depth : i # Depth => i \in 1 .. Depth - 1
  BY <1>1
<1> QED BY <1>1, <1>2, <1>3

(* A walk stands still while the table stays as it is.                     *)
LEMMA WalkStays ==
  ASSUME Walking, UNCHANGED <<info, links, ref, given, created, at, seen, dead>>,
         at # Nil => /\ Depth' > 0 /\ stack'[1] = stack[1]
                     /\ \A i \in 1 .. Depth' : stack'[i].ent = at => stack'[i].op = "update"
  PROVE  Walking'
<1> SUFFICES ASSUME at' # Nil
             PROVE  /\ at' \in seen' /\ at' \notin dead'
                    /\ Depth' > 0 /\ stack'[1].op \in {"visit", "clear"}
                    /\ \A i \in 1 .. Depth' : stack'[i].ent = at' => stack'[i].op = "update"
                    /\ \E U \in SUBSET Slots : Ahead(U)'
  BY DEF Walking
<1>1. PICK U \in SUBSET Slots : Ahead(U)
  BY DEF Walking
<1>2. Ahead(U)'
  BY <1>1, AheadSame, SameList
<1> QED BY <1>2 DEF Walking

(* It does so when a call starts that does not destroy where it stands. *)
LEMMA WalkPush ==
  ASSUME CallTypes, Walking, UNCHANGED <<info, links, ref, given, created, at, seen, dead>>,
         NEW c \in Calls, stack' = Append(stack, c), c.ent = at => c.op = "update" \/ at = Nil
  PROVE  Walking'
<1> SUFFICES ASSUME at # Nil
             PROVE  /\ Depth' > 0 /\ stack'[1] = stack[1]
                    /\ \A i \in 1 .. Depth' : stack'[i].ent = at => stack'[i].op = "update"
  BY WalkStays
<1>1. /\ Depth \in Nat /\ Depth' = Depth + 1 /\ stack'[Depth + 1] = c
      /\ \A i \in 1 .. Depth : stack'[i] = stack[i]
      /\ \A i \in 1 .. Depth' : i = Depth + 1 \/ i \in 1 .. Depth
  BY PushedIs
<1>2. Depth > 0 /\ \A i \in 1 .. Depth : stack[i].ent = at => stack[i].op = "update"
  BY DEF Walking
<1>3. Depth' > 0 /\ stack'[1] = stack[1]
  BY <1>1, <1>2
<1>4. ASSUME NEW i \in 1 .. Depth', stack'[i].ent = at PROVE stack'[i].op = "update"
  BY <1>1, <1>2, <1>4
<1> QED BY <1>3, <1>4

(* It does so when a call other than its own returns. *)
LEMMA WalkReturn ==
  ASSUME CallTypes, Walking, UNCHANGED <<info, links, ref, given, created, at, seen, dead>>,
         stack # <<>>, Return, Top \notin {"visit", "clear"}
  PROVE  Walking'
<1> SUFFICES ASSUME at # Nil
             PROVE  /\ Depth' > 0 /\ stack'[1] = stack[1]
                    /\ \A i \in 1 .. Depth' : stack'[i].ent = at => stack'[i].op = "update"
  BY WalkStays
<1>1. /\ Depth \in Nat /\ Depth > 0 /\ Depth' = Depth - 1
      /\ \A i \in 1 .. Depth' : stack'[i] = stack[i] /\ i \in 1 .. Depth
  BY ReturnedIs
<1>2. /\ stack[1].op \in {"visit", "clear"}
      /\ \A i \in 1 .. Depth : stack[i].ent = at => stack[i].op = "update"
  BY DEF Walking
<1>3. Depth # 1
  BY <1>2, FrameIs
<1> QED BY <1>1, <1>2, <1>3

(* It does so when a call goes on as another for the same entity. *)
LEMMA WalkReplace ==
  ASSUME CallTypes, Walking, UNCHANGED <<info, links, ref, given, created, at, seen, dead>>,
         stack # <<>>, NEW c \in Calls, stack' = Append(Without, c), c.ent = TopEnt,
         Top \notin {"visit", "clear", "update"}
  PROVE  Walking'
<1> SUFFICES ASSUME at # Nil
             PROVE  /\ Depth' > 0 /\ stack'[1] = stack[1]
                    /\ \A i \in 1 .. Depth' : stack'[i].ent = at => stack'[i].op = "update"
  BY WalkStays
<1>1. /\ Depth \in Nat /\ Depth > 0 /\ Depth' = Depth /\ stack'[Depth] = c
      /\ \A i \in 1 .. Depth : i # Depth => stack'[i] = stack[i]
  BY ReplacedIs
<1>2. /\ stack[1].op \in {"visit", "clear"}
      /\ \A i \in 1 .. Depth : stack[i].ent = at => stack[i].op = "update"
  BY DEF Walking
<1>3. Depth # 1 /\ TopEnt = stack[Depth].ent /\ stack[Depth].op # "update" /\ Depth \in 1 .. Depth
  BY <1>1, <1>2, FrameIs
<1>4. c.ent # at
  BY <1>2, <1>3
<1>5. Depth' > 0 /\ stack'[1] = stack[1]
  BY <1>1, <1>3
<1>6. ASSUME NEW i \in 1 .. Depth', stack'[i].ent = at PROVE stack'[i].op = "update"
  <2>1. i # Depth
    BY <1>1, <1>4, <1>6
  <2> QED BY <1>1, <1>2, <1>6, <2>1
<1> QED BY <1>5, <1>6

(* Where a walk stands there is an entity, on the list if slots are left.  *)
LEMMA WalkAt ==
  ASSUME CallTypes, Born, Walking, at # Nil
  PROVE  /\ at \in Entities /\ at \in seen /\ at \notin dead /\ seen \subseteq 1 .. created
         /\ Overflowed \/ at \in Listed
BY DEF CallTypes, Born, Walking

(* A walk and what is created on the way. *)
LEMMA WalkCreates ==
  ASSUME IInv, Born, Walking, CreateNetworked \/ CreateServerOnly
  PROVE  Walking'
<1>1. UNCHANGED <<dead, at, seen, stack>>
  BY DEF CreateNetworked, CreateServerOnly, loops
<1>2. TableTypes /\ TableInv /\ CallTypes
  BY DEF IInv
<1> SUFFICES ASSUME at' # Nil PROVE \E V \in SUBSET Slots : Ahead(V)'
  BY <1>1 DEF Walking, Depth
<1>3. PICK U \in SUBSET Slots : Ahead(U)
  BY <1>1 DEF Walking
<1>4. CASE \E s \in Slots : Grows(s)
  <2>1. PICK s \in Slots : Grows(s)
    BY <1>4
  <2> QED BY <1>1, <1>2, <1>3, <2>1, WalkAt, AheadGrows
<1>5. CASE UNCHANGED <<table, history>> /\ Overflowed'
  <2>1. Ahead(U)'
    BY <1>1, <1>3, <1>5, AheadSame DEF table
  <2> QED BY <2>1
<1> QED BY <1>4, <1>5, Creates

(* A walk and what is destroyed on the way.                                *)
LEMMA WalkDestroyed ==
  ASSUME IInv, PInv, Born, Walking, Destroyed
  PROVE  Walking'
<1>1. /\ UNCHANGED <<at, seen>> /\ dead' = dead \cup {TopEnt}
      /\ stack # <<>> /\ Return /\ Top = "destroy"
  BY DEF Destroyed, loops
<1>2. TableTypes /\ TableInv /\ CallTypes
  BY DEF IInv
<1> SUFFICES ASSUME at' # Nil
             PROVE  /\ at' \in seen' /\ at' \notin dead'
                    /\ Depth' > 0 /\ stack'[1].op \in {"visit", "clear"}
                    /\ \A i \in 1 .. Depth' : stack'[i].ent = at' => stack'[i].op = "update"
                    /\ \E U \in SUBSET Slots : Ahead(U)'
  BY DEF Walking
<1>3. /\ at \in seen /\ at \notin dead
      /\ stack[1].op \in {"visit", "clear"}
      /\ \A i \in 1 .. Depth : stack[i].ent = at => stack[i].op = "update"
      /\ \E U \in SUBSET Slots : Ahead(U)
  BY <1>1 DEF Walking
<1>4. /\ Depth \in Nat /\ Depth > 0 /\ Depth' = Depth - 1 /\ Depth \in 1 .. Depth
      /\ \A i \in 1 .. Depth' : stack'[i] = stack[i] /\ i \in 1 .. Depth
      /\ stack[Depth].op = "destroy" /\ stack[Depth].ent = TopEnt
  BY <1>1, <1>2, ReturnedIs, FrameIs
<1>5. TopEnt # at /\ Depth # 1
  BY <1>3, <1>4
<1>6. at \in Entities
  BY <1>1, <1>2, WalkAt
<1>7. PICK U \in SUBSET Slots : Ahead(U)
  BY <1>3
<1>8. /\ \/ ref[TopEnt].slot \in Slots /\ Shrinks(ref[TopEnt].slot)
         \/ UNCHANGED <<table, history>>
      /\ TopEnt \in Listed => info[ref[TopEnt].slot].ent = TopEnt
      /\ TopEnt \notin Listed => ref[TopEnt].slot = Invalid.slot
      /\ TopEnt \in Listed \/ Overflowed
  BY BornDestroyed
<1>9. \E V \in SUBSET Slots : Ahead(V)'
  <2>1. CASE Shrinks(ref[TopEnt].slot)
    <3> DEFINE s == ref[TopEnt].slot
    <3>1. info[s].ent = at => s = Invalid.slot /\ Overflowed
      BY <1>5, <1>8
    <3> HIDE DEF s
    <3>2. Shrinks(s)
      BY <2>1 DEF s
    <3> QED BY <1>1, <1>2, <1>6, <1>7, <3>1, <3>2, AheadShrinks
  <2>2. CASE UNCHANGED <<table, history>>
    <3>1. UNCHANGED <<info, links, ref, given, created>>
      BY <2>2 DEF table, history, Destroyed
    <3> QED BY <1>1, <1>7, <3>1, AheadSame, SameList
  <2> QED BY <1>8, <2>1, <2>2
<1> QED BY <1>1, <1>3, <1>4, <1>5, <1>9

(* It starts at the head of the list.                                      *)
LEMMA WalkStarts ==
  ASSUME IInv, Born, StartVisit \/ StartClear
  PROVE  /\ Walking' /\ seen' \subseteq {at'}
         /\ at' = Nil => Listed' = {}
<1>1. PICK op \in {"visit", "clear"} : StartWalk(op)
  BY DEF StartVisit, StartClear
<1>2. /\ stack = <<>> /\ at' = EntityAt(links.head["active"]) /\ seen' = {at'} \ {Nil}
      /\ stack' = Append(stack, Call(op, Nil))
      /\ UNCHANGED <<info, links, ref, given, created, dead>>
  BY <1>1 DEF StartWalk, Push, table, history
<1>3. TableTypes /\ TableInv /\ CallTypes
  BY DEF IInv
<1>4. at' = Nil => Listed' = {}
  BY <1>2, <1>3, NoHead DEF Listed
<1>5. ASSUME at' # Nil
      PROVE  /\ at' \in seen' /\ at' \notin dead'
             /\ Depth' > 0 /\ stack'[1].op \in {"visit", "clear"}
             /\ \A i \in 1 .. Depth' : stack'[i].ent = at' => stack'[i].op = "update"
             /\ \E U \in SUBSET Slots : Ahead(U)'
  <2>1. seen' = {at'}
    BY <1>2, <1>5
  <2>2. (\E V \in SUBSET Slots : Ahead(V)') /\ at' \in Listed
    BY <1>2, <1>3, <1>5, <2>1, AheadStart
  <2>3. Call(op, Nil) \in Calls /\ Call(op, Nil).op = op /\ Call(op, Nil).ent = Nil
    BY CallIs, CallFields
  <2>4. /\ Depth' = Depth + 1 /\ Depth = 0 /\ stack'[Depth + 1] = Call(op, Nil)
        /\ \A i \in 1 .. Depth' : i = Depth + 1 \/ i \in 1 .. Depth
    BY <1>2, <1>3, <2>3, PushedIs, FrameIs
  <2> QED BY <1>2, <1>5, <2>1, <2>2, <2>3, <2>4 DEF Born
<1> QED BY <1>2, <1>4, <1>5 DEF Walking

(* It goes on from one entity to the next, and has seen all at its end.    *)
LEMMA WalkGoesOn ==
  ASSUME IInv, PInv, Born, Walking, NextVisit \/ ClearNext
  PROVE  /\ Walking' /\ at' \notin seen
         /\ at' = Nil => (Overflowed' \/ Listed' \subseteq seen') /\ seen' = seen
         /\ at' # Nil => seen' = seen \cup {at'}
         /\ Depth = 1 /\ stack' = stack
<1>1. /\ stack # <<>> /\ Top \in {"visit", "clear"} /\ at # Nil
      /\ at' = NextEnt(at) /\ seen' = IF at' = Nil THEN seen ELSE seen \cup {at'}
      /\ UNCHANGED <<info, links, ref, given, created, dead, stack>>
  BY DEF NextVisit, ClearNext, WalkTo, table, history
<1>2. TableTypes /\ TableInv /\ CallTypes /\ Shape
  BY DEF IInv, PInv
<1>3. at \in Entities /\ (Overflowed \/ at \in Listed) /\ seen \subseteq 1 .. created
  BY <1>1, <1>2, WalkAt
<1>4. PICK U \in SUBSET Slots : Ahead(U)
  BY <1>1 DEF Walking
<1>5. /\ Depth = 1 /\ stack[1].op \in {"visit", "clear"} /\ stack[1].ent = Nil
      /\ Depth' = 1 /\ stack'[1] = stack[1]
  <2>1. /\ Depth \in 1 .. Depth /\ stack[Depth].op \in {"visit", "clear"} /\ stack[Depth].ent = Nil
        /\ Depth \in Nat
    BY <1>1, <1>2, FrameIs
  <2>2. Depth = 1
    BY <1>2, <2>1, LoopIs
  <2> QED BY <1>1, <2>1, <2>2 DEF Depth
<1>6. CASE at' = Nil
  <2>1. Overflowed \/ Listed \subseteq seen
    BY <1>1, <1>2, <1>3, <1>4, <1>6, AheadEnd
  <2>2. Listed' = Listed /\ (Overflowed' <=> Overflowed)
    BY <1>1, SameList
  <2>3. Nil \notin seen
    <3>1. \A e \in 1 .. created : e \in 1 .. NumEntities
      BY <1>2, Constants DEF TableTypes
    <3> QED BY <1>3, <3>1, Constants DEF Entities
  <2> QED BY <1>1, <1>5, <1>6, <2>1, <2>2, <2>3 DEF Walking
<1>7. CASE at' # Nil
  <2>1. seen' = seen \cup {at'}
    BY <1>1, <1>7
  <2>2. (\E V \in SUBSET Slots : Ahead(V)') /\ at' \in Listed /\ at' \notin seen
    BY <1>1, <1>2, <1>3, <1>4, <1>7, <2>1, AheadNext
  <2>3. at' \notin dead'
    BY <1>1, <2>2 DEF Born
  <2> QED BY <1>1, <1>5, <1>7, <2>1, <2>2, <2>3 DEF Walking
<1> QED BY <1>6, <1>7

(* Every step keeps the walk on its way.                                   *)
LEMMA WalkingKept ==
  ASSUME IInv, PInv, WInv, Next
  PROVE  Walking'
<1>0. TableTypes /\ CallTypes /\ Shape /\ Born /\ Walking
  BY DEF IInv, PInv, WInv
<1> USE DEF table, removals, loops, history
<1>1. CASE CreateNetworked \/ CreateServerOnly
  BY <1>0, <1>1, WalkCreates
<1>2. CASE Destroyed
  BY <1>0, <1>2, WalkDestroyed
<1>3. CASE StartVisit \/ StartClear
  BY <1>0, <1>3, WalkStarts
<1>4. CASE NextVisit \/ ClearNext
  BY <1>0, <1>4, WalkGoesOn
<1>5. ASSUME UNCHANGED <<info, links, ref, given, created, at, seen, dead>>, at = Nil \/ stack' = stack
      PROVE  Walking'
  <2>1. CASE at = Nil
    BY <1>0, <1>5, <2>1, WalkStays
  <2>2. CASE stack' = stack /\ at # Nil
    <3>1. Depth' > 0 /\ stack'[1] = stack[1]
          /\ \A i \in 1 .. Depth' : stack'[i].ent = at => stack'[i].op = "update"
      BY <1>0, <2>2 DEF Walking, Depth
    <3> QED BY <1>0, <1>5, <3>1, WalkStays
  <2> QED BY <1>5, <2>1, <2>2
<1>6. ASSUME UNCHANGED <<info, links, ref, given, created, at, seen, dead>>,
             NEW e \in Entities, NEW op \in {"update", "updateNow", "destroy"}, Push(op, e),
             op # "update" => e # at \/ at = Nil
      PROVE  Walking'
  <2> DEFINE c == Call(op, e)
  <2>1. c \in Calls /\ c.ent = e /\ c.op = op /\ stack' = Append(stack, c)
    BY <1>6, CallIs, CallFields DEF Push
  <2> HIDE DEF c
  <2> QED BY <1>0, <1>6, <2>1, WalkPush
<1>7. stack = <<>> => at = Nil
  BY <1>0, FrameIs DEF Walking
<1>8. CASE StartCleanup \/ StartThinking \/ StartSimulation
  BY <1>5, <1>7, <1>8 DEF StartCleanup, StartThinking, StartSimulation
<1>9. CASE \E e \in Entities : Remove(e) \/ RemoveImmediate(e)
  <2>1. PICK e \in Entities : Remove(e) \/ RemoveImmediate(e)
    BY <1>9
  <2>2. /\ UNCHANGED <<info, links, ref, given, created, at, seen, dead>>
        /\ stack' = stack \/ Push("update", e) \/ (Push("updateNow", e) /\ e # at)
    BY <2>1 DEF Remove, RemoveImmediate, UTIL_Remove
  <2> QED BY <1>5, <1>6, <2>2
<1>10. CASE ClearRemove
  <2>1. /\ UNCHANGED <<info, links, ref, given, created, at, seen, dead>> /\ at \in Entities
        /\ stack' = stack \/ Push("update", at)
    BY <1>0, <1>10 DEF ClearRemove, UTIL_Remove, CallTypes
  <2> QED BY <1>5, <1>6, <2>1
<1>11. CASE UpdateRemoveObjects
  <2>1. UNCHANGED <<info, links, ref, given, created, at, seen, dead>> /\ stack # <<>> /\ Top = "flush"
    BY <1>11 DEF UpdateRemoveObjects
  <2>2. CASE pending = <<>>
    BY <1>0, <1>11, <2>1, <2>2, WalkReturn DEF UpdateRemoveObjects
  <2>3. CASE pending # <<>>
    <3> DEFINE e == Head(pending)
    <3>1. e \in Entities
      BY <1>0, <2>3 DEF CallTypes
    <3>2. stack' = stack \/ Push("update", e)
      BY <1>11, <2>3 DEF UpdateRemoveObjects
    <3> HIDE DEF e
    <3> QED BY <1>5, <1>6, <2>1, <3>1, <3>2
  <2> QED BY <2>2, <2>3
<1>12. CASE Release
  <2>1. /\ UNCHANGED <<info, links, ref, given, created, at, seen, dead>>
        /\ stack # <<>> /\ Top = "cleanup" /\ Push("destroy", deleteList[cursor + 1])
        /\ deleteList[cursor + 1] \in Entities
    BY <1>0, <1>12 DEF Release, CallTypes
  <2>2. Depth > 0 /\ Depth \in 1 .. Depth /\ stack[Depth].op = "cleanup" /\ stack[Depth].ent = Nil
    BY <1>0, <2>1, FrameIs
  <2>3. stack[1].op \in {"cleanup", "clearEnd"}
    BY <1>0, <2>2, LoopIs
  <2>4. at = Nil
    BY <1>0, <2>3 DEF Walking
  <2> QED BY <1>6, <2>1, <2>4
<1>13. CASE DeleteNow
  <2> DEFINE c == Call("destroy", TopEnt)
  <2>1. /\ UNCHANGED <<info, links, ref, given, created, at, seen, dead>>
        /\ stack # <<>> /\ Top = "updateNow" /\ stack' = Append(Without, c)
    BY <1>13 DEF DeleteNow, Replace
  <2>2. c \in Calls /\ c.ent = TopEnt
    BY <1>0, <2>1, TopIs, CallIs, CallFields DEF CallTypes
  <2> HIDE DEF c
  <2> QED BY <1>0, <2>1, <2>2, WalkReplace
<1>14. CASE UpdateDamageEvents \/ EndDamageEvents
  <2>1. PICK op \in {"damage", "flush"} : Replace(op, Nil)
    BY <1>14 DEF UpdateDamageEvents, EndDamageEvents
  <2> DEFINE c == Call(op, Nil)
  <2>2. /\ UNCHANGED <<info, links, ref, given, created, at, seen, dead>>
        /\ stack # <<>> /\ Top \in {"simulate", "damage"}
    BY <1>14 DEF UpdateDamageEvents, EndDamageEvents
  <2>3. TopEnt = Nil
    BY <1>0, <2>2, FrameIs, TopIs DEF CallTypes
  <2>4. c \in Calls /\ c.ent = TopEnt /\ stack' = Append(Without, c)
    BY <2>1, <2>3, CallIs, CallFields DEF Replace
  <2> HIDE DEF c
  <2> QED BY <1>0, <2>2, <2>4, WalkReplace
<1>15. CASE AddToDeleteList \/ EndCleanup \/ EndClear
  <2>1. /\ UNCHANGED <<info, links, ref, given, created, at, seen, dead>>
        /\ stack # <<>> /\ Return /\ Top \in {"update", "cleanup", "clearEnd"}
    BY <1>15 DEF AddToDeleteList, EndCleanup, EndClear
  <2> QED BY <1>0, <2>1, WalkReturn
<1>16. CASE NextThinker
  <2>1. /\ UNCHANGED <<info, links, ref, given, created, at, seen, dead>>
        /\ stack # <<>> /\ Top = "think" /\ (Return \/ stack' = stack)
    BY <1>16 DEF NextThinker
  <2> QED BY <1>0, <1>5, <2>1, WalkReturn
<1>17. CASE EndVisit \/ ClearCleanup
  BY <1>5, <1>17 DEF EndVisit, ClearCleanup
<1> QED
  BY <1>1, <1>2, <1>3, <1>4, <1>8, <1>9, <1>10, <1>11, <1>12, <1>13, <1>14, <1>15, <1>16, <1>17
     DEF Next, Proceed

(* Who is held by the delete list or a call before a step, and after it.   *)
LEMMA HeldSame ==
  ASSUME UNCHANGED <<stack, deleteList, cursor>>
  PROVE  \A e : Held(e) => Held(e)'
BY DEF Held, Depth

(* A call that starts holds its entity, too. *)
LEMMA HeldPush ==
  ASSUME CallTypes, NEW c \in Calls, stack' = Append(stack, c), UNCHANGED <<deleteList, cursor>>
  PROVE  Held(c.ent)' /\ \A e : Held(e) => Held(e)'
<1>1. /\ Depth \in Nat /\ Depth' = Depth + 1 /\ stack'[Depth + 1] = c
      /\ \A i \in 1 .. Depth : stack'[i] = stack[i]
  BY PushedIs
<1>2. Depth + 1 \in 1 .. Depth' /\ \A i \in 1 .. Depth : i \in 1 .. Depth'
  BY <1>1
<1> QED BY <1>1, <1>2 DEF Held

(* A call that returns lets go of its entity only. *)
LEMMA HeldReturn ==
  ASSUME CallTypes, stack # <<>>, Return,
         UNCHANGED <<deleteList, cursor>> \/ cursor = Len(deleteList)
  PROVE  \A e : Held(e) /\ e # TopEnt => Held(e)'
<1>1. /\ Depth \in Nat /\ Depth > 0 /\ Depth' = Depth - 1
      /\ \A i \in 1 .. Depth' : stack'[i] = stack[i] /\ i \in 1 .. Depth
      /\ TopEnt = stack[Depth].ent
  BY ReturnedIs, FrameIs
<1>2. \A i \in 1 .. Depth : i # Depth => i \in 1 .. Depth'
  BY <1>1
<1>3. cursor = Len(deleteList) => \A n \in cursor + 1 .. Len(deleteList) : FALSE
  BY DEF CallTypes
<1> QED BY <1>1, <1>2, <1>3 DEF Held

(* A call that becomes another keeps its entity. *)
LEMMA HeldReplace ==
  ASSUME CallTypes, stack # <<>>, NEW c \in Calls, stack' = Append(Without, c), c.ent = TopEnt,
         UNCHANGED <<deleteList, cursor>>
  PROVE  \A e : Held(e) => Held(e)'
<1>1. /\ Depth' = Depth /\ stack'[Depth] = c
      /\ \A i \in 1 .. Depth : i # Depth => stack'[i] = stack[i]
      /\ TopEnt = stack[Depth].ent
  BY ReplacedIs, FrameIs
<1>2. \A i \in 1 .. Depth : stack'[i].ent = stack[i].ent
  BY <1>1
<1> QED BY <1>1, <1>2 DEF Held

(* What the clean-up takes off the list is held by the call it makes. *)
LEMMA HeldRelease ==
  ASSUME CallTypes, Release
  PROVE  \A e : Held(e) => Held(e)'
<1> DEFINE c == Call("destroy", deleteList[cursor + 1])
<1>1. /\ cursor' = cursor + 1 /\ deleteList' = deleteList /\ stack' = Append(stack, c)
      /\ c \in Calls /\ c.ent = deleteList[cursor + 1]
      /\ cursor \in Nat /\ Len(deleteList) \in Nat
  <2>1. deleteList[cursor + 1] \in Entities
    BY DEF Release, CallTypes
  <2> QED BY <2>1, CallIs, CallFields DEF Release, CallTypes, Push
<1> HIDE DEF c
<1>2. /\ Depth \in Nat /\ Depth' = Depth + 1 /\ stack'[Depth + 1] = c
      /\ \A i \in 1 .. Depth : stack'[i] = stack[i]
  BY <1>1, PushedIs
<1>3. Depth + 1 \in 1 .. Depth' /\ \A i \in 1 .. Depth : i \in 1 .. Depth'
  BY <1>2
<1>4. ASSUME NEW n \in cursor + 1 .. Len(deleteList)
      PROVE  n = cursor + 1 \/ n \in cursor' + 1 .. Len(deleteList')
  BY <1>1
<1> QED BY <1>1, <1>2, <1>3, <1>4 DEF Held

(* Marked entities stay on their way while they stay held. *)
LEMMA StillOnTheirWay ==
  ASSUME OnTheirWay, \A e \in killme' : e \in killme \/ Held(e)',
         killme \cap Listed' \subseteq Listed,
         \A e \in Listed \cap Listed' : Held(e) => Held(e)'
  PROVE  OnTheirWay'
BY DEF OnTheirWay

(* Every step keeps them on their way.                                     *)
LEMMA OnTheirWayKept ==
  ASSUME IInv, PInv, WInv, Next
  PROVE  OnTheirWay'
<1>0. TableTypes /\ CallTypes /\ Shape /\ Born /\ OnTheirWay
  BY DEF IInv, PInv, WInv
<1> USE DEF table, removals, loops, history
<1>1. CASE CreateNetworked \/ CreateServerOnly
  <2>1. UNCHANGED <<killme, stack, deleteList, cursor>>
    BY <1>1 DEF CreateNetworked, CreateServerOnly
  <2>2. created + 1 \notin killme
    <3>1. created \in Nat /\ killme \subseteq 1 .. created
      BY <1>0 DEF TableTypes, Born
    <3> QED BY <3>1
  <2>3. killme \cap Listed' \subseteq Listed
    <3>1. CASE \E s \in Slots : Grows(s)
      BY <1>0, <2>2, <3>1, GrowsList
    <3>2. CASE UNCHANGED <<table, history>>
      BY <3>2 DEF Listed
    <3> QED BY <1>1, <3>1, <3>2, Creates
  <2> QED BY <1>0, <2>1, <2>3, HeldSame, StillOnTheirWay
<1>2. CASE Destroyed
  <2>1. /\ UNCHANGED <<killme, deleteList, cursor>> /\ stack # <<>> /\ Return
    BY <1>2 DEF Destroyed
  <2>2. TopEnt \notin Listed'
    BY <1>0, <1>2, BornDestroyed
  <2>3. Listed' \subseteq Listed
    <3>1. CASE Shrinks(ref[TopEnt].slot)
      BY <1>0, <3>1, ShrinksList
    <3>2. CASE UNCHANGED <<table, history>>
      BY <3>2 DEF Listed
    <3> QED BY <1>0, <1>2, <3>1, <3>2, BornDestroyed
  <2> QED BY <1>0, <2>1, <2>2, <2>3, HeldReturn, StillOnTheirWay
<1>3. ASSUME ref' = ref, \A e \in killme' : e \in killme \/ Held(e)',
             \A e \in Listed : Held(e) => Held(e)'
      PROVE  OnTheirWay'
  <2>1. Listed' = Listed
    BY <1>3 DEF Listed
  <2> QED BY <1>0, <1>3, <2>1, StillOnTheirWay
<1>4. ASSUME UNCHANGED <<ref, killme, deleteList, cursor, stack>>
      PROVE  OnTheirWay'
  BY <1>3, <1>4, HeldSame
<1>5. ASSUME UNCHANGED <<ref, deleteList, cursor>>, NEW e \in Entities,
             NEW op \in {"update", "updateNow"}, Push(op, e), killme' = killme \cup {e}
      PROVE  OnTheirWay'
  <2> DEFINE c == Call(op, e)
  <2>1. c \in Calls /\ c.ent = e /\ stack' = Append(stack, c)
    BY <1>5, CallIs, CallFields DEF Push
  <2> HIDE DEF c
  <2>2. Held(e)' /\ \A f : Held(f) => Held(f)'
    BY <1>0, <1>5, <2>1, HeldPush
  <2> QED BY <1>3, <1>5, <2>2
<1>6. ASSUME UNCHANGED <<ref, killme>>, stack # <<>>, Return, TopEnt = Nil,
             UNCHANGED <<deleteList, cursor>> \/ cursor = Len(deleteList)
      PROVE  OnTheirWay'
  <2>1. Nil \notin Listed
    BY Constants DEF Listed
  <2> QED BY <1>0, <1>3, <1>6, <2>1, HeldReturn
<1>7. ASSUME stack # <<>>, Top \notin {"update", "updateNow", "destroy"}
      PROVE  TopEnt = Nil
  BY <1>0, <1>7, TopIs DEF CallTypes
<1>8. CASE \/ StartCleanup \/ StartThinking \/ StartVisit \/ StartClear \/ StartSimulation
  <2>1. PICK op \in {"cleanup", "think", "visit", "clear", "simulate"} : Push(op, Nil)
    BY <1>8 DEF StartCleanup, StartThinking, StartVisit, StartClear, StartSimulation, StartWalk
  <2>2. UNCHANGED <<ref, killme, deleteList, cursor>>
    BY <1>8 DEF StartCleanup, StartThinking, StartVisit, StartClear, StartSimulation, StartWalk
  <2> DEFINE c == Call(op, Nil)
  <2>3. c \in Calls /\ stack' = Append(stack, c)
    BY <2>1, CallIs DEF Push
  <2> HIDE DEF c
  <2> QED BY <1>0, <1>3, <2>2, <2>3, HeldPush
<1>9. CASE \E e \in Entities : Remove(e) \/ RemoveImmediate(e)
  <2>1. PICK e \in Entities : Remove(e) \/ RemoveImmediate(e)
    BY <1>9
  <2>2. /\ UNCHANGED <<ref, deleteList, cursor>>
        /\ \/ UNCHANGED <<killme, stack>>
           \/ killme' = killme \cup {e} /\ (Push("update", e) \/ Push("updateNow", e))
    BY <2>1 DEF Remove, RemoveImmediate, UTIL_Remove, Mark
  <2> QED BY <1>4, <1>5, <2>2
<1>10. CASE ClearRemove
  <2>1. /\ UNCHANGED <<ref, deleteList, cursor>> /\ at \in Entities
        /\ \/ UNCHANGED <<killme, stack>>
           \/ killme' = killme \cup {at} /\ Push("update", at)
    BY <1>0, <1>10 DEF ClearRemove, UTIL_Remove, Mark, CallTypes
  <2> QED BY <1>4, <1>5, <2>1
<1>11. CASE UpdateRemoveObjects
  <2>1. UNCHANGED <<ref, deleteList, cursor>> /\ stack # <<>> /\ Top = "flush"
    BY <1>11 DEF UpdateRemoveObjects
  <2>2. CASE pending = <<>>
    BY <1>6, <1>7, <1>11, <2>1, <2>2 DEF UpdateRemoveObjects
  <2>3. CASE pending # <<>>
    <3> DEFINE e == Head(pending)
    <3>1. e \in Entities
      BY <1>0, <2>3 DEF CallTypes
    <3>2. \/ UNCHANGED <<killme, stack>>
          \/ killme' = killme \cup {e} /\ Push("update", e)
      BY <1>11, <2>3 DEF UpdateRemoveObjects, Mark
    <3> HIDE DEF e
    <3> QED BY <1>4, <1>5, <2>1, <3>1, <3>2
  <2> QED BY <2>2, <2>3
<1>12. CASE Release
  BY <1>0, <1>3, <1>12, HeldRelease DEF Release
<1>13. CASE DeleteNow
  <2> DEFINE c == Call("destroy", TopEnt)
  <2>1. /\ UNCHANGED <<ref, killme, deleteList, cursor>>
        /\ stack # <<>> /\ Top = "updateNow" /\ stack' = Append(Without, c)
    BY <1>13 DEF DeleteNow, Replace
  <2>2. c \in Calls /\ c.ent = TopEnt
    BY <1>0, <2>1, TopIs, CallIs, CallFields DEF CallTypes
  <2> HIDE DEF c
  <2> QED BY <1>0, <1>3, <2>1, <2>2, HeldReplace
<1>14. CASE UpdateDamageEvents \/ EndDamageEvents
  <2>1. PICK op \in {"damage", "flush"} : Replace(op, Nil)
    BY <1>14 DEF UpdateDamageEvents, EndDamageEvents
  <2> DEFINE c == Call(op, Nil)
  <2>2. /\ UNCHANGED <<ref, killme, deleteList, cursor>>
        /\ stack # <<>> /\ Top \in {"simulate", "damage"}
    BY <1>14 DEF UpdateDamageEvents, EndDamageEvents
  <2>3. c \in Calls /\ c.ent = TopEnt /\ stack' = Append(Without, c)
    BY <1>7, <2>1, <2>2, CallIs, CallFields DEF Replace
  <2> HIDE DEF c
  <2> QED BY <1>0, <1>3, <2>2, <2>3, HeldReplace
<1>15. CASE AddToDeleteList
  <2>1. /\ UNCHANGED <<ref, killme, cursor>> /\ stack # <<>> /\ Return
        /\ deleteList' = IF ref[TopEnt] = Invalid THEN deleteList ELSE Append(deleteList, TopEnt)
    BY <1>15 DEF AddToDeleteList
  <2>2. CASE ref[TopEnt] = Invalid
    <3>1. TopEnt \notin Listed
      BY <2>2 DEF Listed
    <3> QED BY <1>0, <1>3, <2>1, <2>2, <3>1, HeldReturn
  <2>3. CASE ref[TopEnt] # Invalid
    <3>1. TopEnt \in Entities
      BY <1>0, <1>15, TopIs DEF AddToDeleteList, CallTypes
    <3>2. /\ Len(deleteList') = Len(deleteList) + 1 /\ deleteList'[Len(deleteList) + 1] = TopEnt
          /\ \A n \in 1 .. Len(deleteList) : deleteList'[n] = deleteList[n]
          /\ Len(deleteList) \in Nat /\ cursor \in 0 .. Len(deleteList)
      BY <1>0, <2>1, <2>3, <3>1, AppendProperties DEF CallTypes
    <3>3. /\ Len(deleteList) + 1 \in cursor' + 1 .. Len(deleteList')
          /\ \A n \in cursor + 1 .. Len(deleteList) :
               n \in cursor' + 1 .. Len(deleteList') /\ n \in 1 .. Len(deleteList)
      BY <2>1, <3>2
    <3>4. /\ Depth \in Nat /\ Depth > 0 /\ Depth' = Depth - 1
          /\ \A i \in 1 .. Depth' : stack'[i] = stack[i]
          /\ TopEnt = stack[Depth].ent
      BY <1>0, <2>1, ReturnedIs, FrameIs
    <3>5. \A i \in 1 .. Depth : i # Depth => i \in 1 .. Depth'
      BY <3>4
    <3>6. \A e : Held(e) => Held(e)'
      BY <3>2, <3>3, <3>4, <3>5 DEF Held
    <3> QED BY <1>3, <2>1, <3>6
  <2> QED BY <2>2, <2>3
<1>16. CASE EndCleanup \/ EndVisit \/ EndClear
  <2>1. /\ UNCHANGED <<ref, killme>> /\ stack # <<>> /\ Return
        /\ Top \in {"cleanup", "visit", "clearEnd"}
        /\ UNCHANGED <<deleteList, cursor>> \/ cursor = Len(deleteList)
    BY <1>16 DEF EndCleanup, EndVisit, EndClear
  <2> QED BY <1>6, <1>7, <2>1
<1>17. CASE NextThinker
  <2>1. /\ UNCHANGED <<ref, killme, deleteList, cursor>>
        /\ stack # <<>> /\ Top = "think" /\ (Return \/ stack' = stack)
    BY <1>17 DEF NextThinker
  <2> QED BY <1>4, <1>6, <1>7, <2>1
<1>18. CASE NextVisit \/ ClearNext
  BY <1>4, <1>18 DEF NextVisit, ClearNext
<1>19. CASE ClearCleanup
  <2>1. UNCHANGED <<ref, killme, deleteList, cursor>> /\ stack # <<>> /\ Top = "clear"
    BY <1>19 DEF ClearCleanup
  <2>2. Depth = 1 /\ stack[Depth].ent = Nil
    BY <1>0, <1>7, <1>19, <2>1, ClearCleanupIs, FrameIs
  <2>4. ASSUME NEW e \in Listed, Held(e) PROVE Held(e)'
    <3>1. e # Nil
      BY Constants DEF Listed
    <3>2. ~\E i \in 1 .. Depth : stack[i].ent = e
      BY <2>2, <3>1
    <3> QED BY <2>1, <2>4, <3>2 DEF Held
  <2> QED BY <1>3, <2>1, <2>4
<1> QED
  BY <1>1, <1>2, <1>8, <1>9, <1>10, <1>11, <1>12, <1>13, <1>14, <1>15, <1>16, <1>17, <1>18, <1>19
     DEF Next, Proceed

(* What must hold of Clear when the bottom of the stack stays.             *)
LEMMA ClearStays ==
  ASSUME Clearing, Depth > 0, UNCHANGED <<at, seen>>, killme \subseteq killme',
         Overflowed => Overflowed', Depth' > 0 => stack'[1] = stack[1],
         stack[1].op \in {"clear", "clearEnd"} => Listed' \subseteq Listed,
         stack[1].op = "clear" /\ at = Nil => Depth' = 1,
         stack[1].op = "clearEnd" /\ Depth' > 0 =>
           IF Depth' = 1 THEN Len(deleteList') = 0 ELSE stack'[2].op = "cleanup"
  PROVE  Clearing'
BY DEF Clearing

(* Only above the walk, or above its clean-up, do other calls start. *)
LEMMA ClearPush ==
  ASSUME CallTypes, Clearing, NEW c \in Calls, stack' = Append(stack, c),
         UNCHANGED <<ref, given, created, at, seen, deleteList>>, killme \subseteq killme',
         stack = <<>> => c.op \notin {"clear", "clearEnd"},
         stack # <<>> => Top # "clearEnd" /\ (Top = "clear" => at # Nil)
  PROVE  Clearing'
<1>1. /\ Depth \in Nat /\ Depth' = Depth + 1 /\ stack'[Depth + 1] = c
      /\ \A i \in 1 .. Depth : stack'[i] = stack[i]
      /\ stack # <<>> <=> Depth > 0
      /\ stack # <<>> => Top = stack[Depth].op
  BY PushedIs, FrameIs
<1>2. CASE Depth = 0
  BY <1>1, <1>2 DEF Clearing
<1>3. CASE Depth > 0
  <2>1. Listed' = Listed /\ (Overflowed' <=> Overflowed)
    BY SameList
  <2>2. stack'[1] = stack[1]
    BY <1>1, <1>3
  <2>3. ~(stack[1].op = "clear" /\ at = Nil)
    BY <1>1, <1>3 DEF Clearing
  <2>4. stack[1].op = "clearEnd" => Depth' # 1 /\ stack'[2].op = "cleanup"
    <3> SUFFICES ASSUME stack[1].op = "clearEnd" PROVE Depth' # 1 /\ stack'[2].op = "cleanup"
      OBVIOUS
    <3>1. Depth # 1
      BY <1>1, <1>3
    <3>2. stack[2].op = "cleanup" /\ 2 \in 1 .. Depth
      BY <1>1, <1>3, <3>1 DEF Clearing
    <3> QED BY <1>1, <1>3, <3>2
  <2> QED BY <1>3, <2>1, <2>2, <2>3, <2>4, ClearStays
<1> QED BY <1>1, <1>2, <1>3

(* When its clean-up returns the delete list is empty. *)
LEMMA ClearReturn ==
  ASSUME CallTypes, Clearing, stack # <<>>, Return, UNCHANGED <<at, seen, killme>>,
         Listed' \subseteq Listed, Overflowed => Overflowed',
         Top # "clear", Top = "cleanup" => deleteList' = <<>>
  PROVE  Clearing'
<1>1. /\ Depth \in Nat /\ Depth > 0 /\ Depth' = Depth - 1 /\ Top = stack[Depth].op
      /\ \A i \in 1 .. Depth' : stack'[i] = stack[i]
  BY ReturnedIs, FrameIs
<1>2. Depth' > 0 => stack'[1] = stack[1]
  BY <1>1
<1>3. ~(stack[1].op = "clear" /\ at = Nil)
  BY <1>1 DEF Clearing
<1>4. ASSUME stack[1].op = "clearEnd", Depth' > 0
      PROVE  IF Depth' = 1 THEN Len(deleteList') = 0 ELSE stack'[2].op = "cleanup"
  <2>1. stack[2].op = "cleanup"
    BY <1>1, <1>4 DEF Clearing
  <2>2. CASE Depth' = 1
    <3>1. Top = "cleanup"
      BY <1>1, <2>1, <2>2
    <3> QED BY <2>2, <3>1
  <2>3. CASE Depth' # 1
    <3>1. 2 \in 1 .. Depth'
      BY <1>1, <1>4, <2>3
    <3> QED BY <1>1, <2>1, <2>3, <3>1
  <2> QED BY <2>2, <2>3
<1> QED BY <1>1, <1>2, <1>3, <1>4, ClearStays

(* A call that goes on as another is not one of its. *)
LEMMA ClearReplace ==
  ASSUME CallTypes, Clearing, stack # <<>>, NEW c \in Calls, stack' = Append(Without, c),
         UNCHANGED <<ref, given, created, at, seen, killme, deleteList>>,
         Top \notin {"clear", "clearEnd", "cleanup"}, c.op \notin {"clear", "clearEnd"}
  PROVE  Clearing'
<1>1. /\ Depth \in Nat /\ Depth > 0 /\ Depth' = Depth /\ stack'[Depth] = c /\ Top = stack[Depth].op
      /\ \A i \in 1 .. Depth : i # Depth => stack'[i] = stack[i]
  BY ReplacedIs, FrameIs
<1>2. CASE Depth = 1
  BY <1>1, <1>2 DEF Clearing
<1>3. CASE Depth # 1
  <2>1. Listed' = Listed /\ (Overflowed' <=> Overflowed)
    BY SameList
  <2>2. stack'[1] = stack[1]
    BY <1>1, <1>3
  <2>3. ~(stack[1].op = "clear" /\ at = Nil)
    BY <1>1, <1>3 DEF Clearing
  <2>4. stack[1].op = "clearEnd" => stack'[2].op = "cleanup"
    <3> SUFFICES ASSUME stack[1].op = "clearEnd" PROVE stack'[2].op = "cleanup"
      OBVIOUS
    <3>1. stack[2].op = "cleanup"
      BY <1>1, <1>3 DEF Clearing
    <3>2. 2 # Depth /\ 2 \in 1 .. Depth
      BY <1>1, <1>3, <3>1
    <3> QED BY <1>1, <3>1, <3>2
  <2> QED BY <1>1, <1>3, <2>1, <2>2, <2>3, <2>4, ClearStays
<1> QED BY <1>2, <1>3

(* Every step keeps what Clear relies on.                                  *)
LEMMA ClearingKept ==
  ASSUME IInv, PInv, WInv, Next
  PROVE  Clearing'
<1>0. TableTypes /\ CallTypes /\ Shape /\ Born /\ Walking /\ Clearing
  BY DEF IInv, PInv, WInv
<1> USE DEF table, removals, loops, history
<1>1. /\ Depth \in Nat /\ (stack # <<>> <=> Depth > 0)
      /\ \A op : Calling(op) <=> \E i \in 1 .. Depth : stack[i].op = op
  BY <1>0, FrameIs
<1>2. CASE CreateNetworked \/ CreateServerOnly
  <2>1. stack' = stack /\ ~Calling("clear") /\ ~Calling("clearEnd")
    BY <1>2 DEF CreateNetworked, CreateServerOnly, CanCreate
  <2>2. Depth' = Depth
    BY <2>1 DEF Depth
  <2>3. Depth > 0 => stack[1].op \notin {"clear", "clearEnd"}
    BY <1>1, <2>1
  <2> QED BY <2>1, <2>2, <2>3 DEF Clearing
<1>3. CASE Destroyed
  <2>1. /\ stack # <<>> /\ Return /\ UNCHANGED <<at, seen, killme>> /\ Top = "destroy"
    BY <1>3 DEF Destroyed
  <2>2. Listed' \subseteq Listed /\ (Overflowed => Overflowed')
    <3>1. CASE Shrinks(ref[TopEnt].slot)
      BY <1>0, <3>1, ShrinksList
    <3>2. CASE UNCHANGED <<table, history>>
      BY <1>3, <3>2, SameList DEF Destroyed
    <3> QED BY <1>0, <1>3, <3>1, <3>2, BornDestroyed
  <2> QED BY <1>0, <2>1, <2>2, ClearReturn
<1>4. ASSUME UNCHANGED <<ref, given, created, at, seen, stack, deleteList>>, killme \subseteq killme'
      PROVE  Clearing'
  <2>1. Listed' = Listed /\ (Overflowed' <=> Overflowed) /\ Depth' = Depth
    BY <1>4, SameList DEF Depth
  <2> QED BY <1>0, <1>4, <2>1 DEF Clearing
<1>5. ASSUME UNCHANGED <<ref, given, created, at, seen, deleteList>>, killme \subseteq killme',
             NEW op \in {"update", "updateNow", "destroy"}, NEW e \in Entities, Push(op, e),
             stack # <<>> => Top # "clearEnd" /\ (Top = "clear" => at # Nil)
      PROVE  Clearing'
  <2> DEFINE c == Call(op, e)
  <2>1. c \in Calls /\ c.op \notin {"clear", "clearEnd"} /\ stack' = Append(stack, c)
    BY <1>5, CallIs, CallFields DEF Push
  <2> HIDE DEF c
  <2> QED BY <1>0, <1>5, <2>1, ClearPush
<1>6. CASE StartCleanup \/ StartThinking \/ StartSimulation \/ StartVisit \/ StartClear
  <2>1. PICK op \in {"cleanup", "think", "simulate", "visit", "clear"} :
          Push(op, Nil) /\ (op = "clear" => StartClear)
    BY <1>6 DEF StartCleanup, StartThinking, StartSimulation, StartVisit, StartClear, StartWalk
  <2> DEFINE c == Call(op, Nil)
  <2>2. c \in Calls /\ c.op = op /\ stack' = Append(stack, c) /\ stack = <<>>
    BY <1>6, <2>1, CallIs, CallFields
       DEF Push, StartCleanup, StartThinking, StartSimulation, StartVisit, StartClear, StartWalk
  <2> HIDE DEF c
  <2>3. Depth' = 1 /\ stack'[1].op = op
    BY <1>0, <1>1, <2>2, PushedIs
  <2>4. CASE op # "clear"
    BY <2>1, <2>3, <2>4 DEF Clearing
  <2>5. CASE op = "clear"
    <3>1. seen' \subseteq {at'} /\ (at' = Nil => Listed' = {})
      BY <1>0, <2>1, <2>5, WalkStarts
    <3> QED BY <2>3, <2>5, <3>1 DEF Clearing
  <2> QED BY <2>4, <2>5
<1>7. CASE \E e \in Entities : Remove(e) \/ RemoveImmediate(e)
  <2>1. PICK e \in Entities : Remove(e) \/ RemoveImmediate(e)
    BY <1>7
  <2>2. /\ UNCHANGED <<ref, given, created, at, seen, deleteList>> /\ killme \subseteq killme'
        /\ stack' = stack \/ Push("update", e) \/ Push("updateNow", e)
    BY <2>1 DEF Remove, RemoveImmediate, UTIL_Remove, Mark
  <2>3. stack # <<>> => Top \in {"update", "updateNow", "damage", "think", "visit", "destroy", "simulate"}
    BY <2>1 DEF Remove, RemoveImmediate, RemovingCodeRuns, CodeRuns
  <2> QED BY <1>4, <1>5, <2>2, <2>3
<1>8. CASE ClearRemove
  <2>1. /\ UNCHANGED <<ref, given, created, at, seen, deleteList>> /\ killme \subseteq killme'
        /\ at \in Entities /\ at # Nil /\ Top = "clear"
        /\ stack' = stack \/ Push("update", at)
    BY <1>0, <1>8 DEF ClearRemove, UTIL_Remove, Mark, CallTypes
  <2> QED BY <1>4, <1>5, <2>1
<1>9. CASE UpdateRemoveObjects
  <2>1. /\ UNCHANGED <<ref, given, created, at, seen, deleteList>> /\ killme \subseteq killme'
        /\ stack # <<>> /\ Top = "flush"
    BY <1>9 DEF UpdateRemoveObjects, Mark
  <2>2. CASE pending = <<>>
    <3>1. Return /\ killme' = killme
      BY <1>9, <2>2 DEF UpdateRemoveObjects
    <3>2. Listed' = Listed /\ (Overflowed' <=> Overflowed)
      BY <2>1, SameList
    <3> QED BY <1>0, <2>1, <3>1, <3>2, ClearReturn
  <2>3. CASE pending # <<>>
    <3> DEFINE e == Head(pending)
    <3>1. e \in Entities
      BY <1>0, <2>3 DEF CallTypes
    <3>2. stack' = stack \/ Push("update", e)
      BY <1>9, <2>3 DEF UpdateRemoveObjects
    <3> HIDE DEF e
    <3> QED BY <1>4, <1>5, <2>1, <3>1, <3>2
  <2> QED BY <2>2, <2>3
<1>10. CASE Release
  <2>1. /\ UNCHANGED <<ref, given, created, at, seen, deleteList>> /\ killme \subseteq killme'
        /\ Top = "cleanup" /\ Push("destroy", deleteList[cursor + 1])
        /\ deleteList[cursor + 1] \in Entities
    BY <1>0, <1>10 DEF Release, CallTypes
  <2> QED BY <1>5, <2>1
<1>11. CASE DeleteNow \/ UpdateDamageEvents \/ EndDamageEvents
  <2>1. /\ UNCHANGED <<ref, given, created, at, seen, killme, deleteList>> /\ stack # <<>>
        /\ Top \in {"updateNow", "simulate", "damage"}
    BY <1>11 DEF DeleteNow, UpdateDamageEvents, EndDamageEvents
  <2>2. \E c \in Calls : stack' = Append(Without, c) /\ c.op \in {"destroy", "damage", "flush"}
    <3>1. CASE DeleteNow
      <4> DEFINE c == Call("destroy", TopEnt)
      <4>1. stack' = Append(Without, c)
        BY <3>1 DEF DeleteNow, Replace
      <4>2. c \in Calls /\ c.op = "destroy"
        BY <1>0, <3>1, TopIs, CallIs, CallFields DEF DeleteNow, CallTypes
      <4> HIDE DEF c
      <4> QED BY <4>1, <4>2
    <3>2. CASE UpdateDamageEvents \/ EndDamageEvents
      <4>1. PICK op \in {"damage", "flush"} : Replace(op, Nil)
        BY <3>2 DEF UpdateDamageEvents, EndDamageEvents
      <4> DEFINE c == Call(op, Nil)
      <4>2. c \in Calls /\ c.op = op /\ stack' = Append(Without, c)
        BY <4>1, CallIs, CallFields DEF Replace
      <4> HIDE DEF c
      <4> QED BY <4>2
    <3> QED BY <1>11, <3>1, <3>2
  <2>3. PICK c \in Calls : stack' = Append(Without, c) /\ c.op \in {"destroy", "damage", "flush"}
    BY <2>2
  <2> QED BY <1>0, <2>1, <2>3, ClearReplace
<1>12. ASSUME stack # <<>>, Return, UNCHANGED <<ref, given, created, at, seen, killme>>,
              Top # "clear", Top = "cleanup" => deleteList' = <<>>
       PROVE  Clearing'
  <2>1. Listed' = Listed /\ (Overflowed' <=> Overflowed)
    BY <1>12, SameList
  <2> QED BY <1>0, <1>12, <2>1, ClearReturn
<1>13. CASE AddToDeleteList \/ EndCleanup \/ EndVisit \/ EndClear
  BY <1>12, <1>13 DEF AddToDeleteList, EndCleanup, EndVisit, EndClear
<1>14. CASE NextThinker
  <2>1. /\ UNCHANGED <<ref, given, created, at, seen, killme, deleteList>>
        /\ stack # <<>> /\ Top = "think" /\ (Return \/ stack' = stack)
    BY <1>14 DEF NextThinker
  <2> QED BY <1>4, <1>12, <2>1
<1>15. CASE NextVisit \/ ClearNext
  <2>1. /\ at' = Nil => (Overflowed' \/ Listed' \subseteq seen') /\ seen' = seen
        /\ at' # Nil => seen' = seen \cup {at'}
        /\ Depth = 1 /\ Depth' = Depth /\ stack' = stack
    BY <1>0, <1>15, WalkGoesOn DEF Depth
  <2>2. CASE NextVisit
    <3>1. stack[1].op = "visit"
      BY <1>0, <1>1, <2>1, <2>2, FrameIs DEF NextVisit
    <3> QED BY <2>1, <3>1 DEF Clearing
  <2>3. CASE ClearNext
    <3>1. stack[1].op = "clear" /\ at \in killme /\ killme' = killme
      BY <1>0, <1>1, <2>1, <2>3, FrameIs DEF ClearNext
    <3>2. seen \subseteq killme
      BY <2>1, <3>1, <1>0 DEF Clearing
    <3>3. seen' \ {at'} \subseteq killme'
      BY <2>1, <3>1, <3>2
    <3> QED BY <2>1, <3>1, <3>3 DEF Clearing
  <2> QED BY <1>15, <2>2, <2>3
<1>16. CASE ClearCleanup
  <2>1. /\ Depth = 1 /\ stack[1].op = "clear"
        /\ Depth' = 2 /\ stack'[1].op = "clearEnd" /\ stack'[2].op = "cleanup"
    BY <1>0, <1>16, ClearCleanupIs
  <2>2. at = Nil /\ UNCHANGED <<ref, given, created, killme>>
    BY <1>16 DEF ClearCleanup
  <2>3. seen \ {Nil} \subseteq killme /\ (Overflowed \/ Listed \subseteq seen)
    BY <1>0, <2>1, <2>2 DEF Clearing
  <2>4. Nil \notin Listed
    BY Constants DEF Listed
  <2>5. Listed' = Listed /\ (Overflowed' <=> Overflowed)
    BY <2>2, SameList
  <2> QED BY <2>1, <2>2, <2>3, <2>4, <2>5 DEF Clearing
<1> QED
  BY <1>2, <1>3, <1>6, <1>7, <1>8, <1>9, <1>10, <1>11, <1>13, <1>14, <1>15, <1>16
     DEF Next, Proceed

(* At first no walk goes on, and nobody is known.                          *)
LEMMA InitWalks == Init => WInv
<1> SUFFICES ASSUME Init PROVE WInv
  OBVIOUS
<1>1. /\ numEnts = 0 /\ ref = [e \in Entities |-> Invalid] /\ created = 0 /\ killme = {} /\ dead = {}
      /\ deleteList = <<>> /\ cursor = 0 /\ pending = <<>> /\ at = Nil /\ seen = {} /\ stack = <<>>
  BY DEF Init
<1>2. Listed = {} /\ Depth = 0 /\ Len(pending) = 0
  BY <1>1 DEF Listed, Depth
<1>3. Born
  BY <1>1, <1>2, FS_EmptySet DEF Born
<1>4. Walking /\ OnTheirWay /\ Clearing
  BY <1>1, <1>2 DEF Walking, OnTheirWay, Clearing
<1> QED BY <1>3, <1>4 DEF WInv

(* A step that changes nothing. *)
LEMMA WalksStutter ==
  ASSUME WInv, UNCHANGED vars
  PROVE  WInv'
<1>1. /\ UNCHANGED <<info, links, numEnts, ref, created, killme, dead, deleteList, cursor, pending>>
      /\ UNCHANGED <<at, seen, stack, given>>
  BY DEF vars, table, removals, loops, history
<1>2. Listed' = Listed /\ (Overflowed' <=> Overflowed) /\ Depth' = Depth /\ \A e : Held(e)' <=> Held(e)
  BY <1>1, SameList DEF Depth, Held
<1>3. Born' /\ OnTheirWay' /\ Clearing'
  BY <1>1, <1>2 DEF WInv, Born, OnTheirWay, Clearing
<1>4. Walking'
  BY <1>1, <1>2, WalkStays DEF WInv, Walking
<1> QED BY <1>3, <1>4 DEF WInv

(* What every step keeps of all three.                                     *)
LEMMA WalksInvariant == Spec => [](IInv /\ PInv /\ WInv)
<1>1. Init => PInv /\ WInv
  BY InitPointers, InitWalks
<1>2. IInv /\ PInv /\ IInv' /\ [Next]_vars => PInv'
  BY StepPointers
<1>3. IInv /\ PInv /\ WInv /\ [Next]_vars => WInv'
  <2>1. ASSUME IInv, PInv, WInv, Next PROVE WInv'
    BY <2>1, BornKept, WalkingKept, OnTheirWayKept, ClearingKept DEF WInv
  <2> QED BY <2>1, WalksStutter
<1> QED BY <1>1, <1>2, <1>3, Invariant, PTL DEF Spec

(* A walk over the list never comes to an entity twice, and when it ends   *)
(* everything that is on the list has been visited, whatever was created   *)
(* and destroyed under it, unless the slots ran out.                       *)
THEOREM SpecWalkVisitsAll == Spec => WalkVisitsAll
<1> DEFINE Step == at # Nil /\ at' # at => at' \notin seen /\ (at' = Nil => Listed \subseteq seen \/ Overflowed)
<1>1. IInv /\ PInv /\ WInv /\ [Next]_vars => [Step]_vars
  <2> SUFFICES ASSUME IInv, PInv, WInv, Next, at # Nil, at' # at
               PROVE  at' \notin seen /\ (at' = Nil => Listed \subseteq seen \/ Overflowed)
    OBVIOUS
  <2>1. Born /\ Walking /\ CallTypes
    BY DEF WInv, IInv
  <2>2. stack # <<>>
    BY <2>1, FrameIs DEF Walking
  <2>3. NextVisit \/ ClearNext
    BY <2>2 DEF Next, Proceed, CreateNetworked, CreateServerOnly, Remove, RemoveImmediate,
       StartCleanup, StartThinking, StartVisit, StartClear, StartWalk, StartSimulation,
       AddToDeleteList, DeleteNow, Destroyed, Release, EndCleanup, NextThinker, EndVisit,
       ClearRemove, ClearCleanup, EndClear, UpdateDamageEvents, EndDamageEvents,
       UpdateRemoveObjects, removals, loops
  <2>4. /\ at' \notin seen
        /\ at' = Nil => (Overflowed' \/ Listed' \subseteq seen') /\ seen' = seen
    BY <2>1, <2>3, WalkGoesOn
  <2>5. Listed' = Listed /\ (Overflowed' <=> Overflowed)
    BY <2>3, SameList DEF NextVisit, ClearNext, table, history
  <2> QED BY <2>4, <2>5
<1> QED BY <1>1, WalksInvariant, PTL DEF Spec, WalkVisitsAll

(* When Clear sets the count to zero no entity is left on the list, and    *)
(* the count was zero, unless the slots ran out.                           *)
THEOREM SpecClearLeavesNothing == Spec => []ClearLeavesNothing
<1>1. IInv /\ PInv /\ WInv => ClearLeavesNothing
  BY Cleared DEF ClearLeavesNothing
<1> QED BY <1>1, WalksInvariant, PTL
=============================================================================
