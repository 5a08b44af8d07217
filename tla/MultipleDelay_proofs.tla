-------------------------- MODULE MultipleDelay_proofs --------------------------
(***************************************************************************)
(* Theorems about MultipleDelay, for every heap, every width of the        *)
(* counter, every longest delay and every configuration.                   *)
(***************************************************************************)
EXTENDS MultipleDelay, SequenceTheorems, WellFoundedInduction, TLAPS

(* The numbers of the places of an item, as in Places. *)
InPool == 1
InHigh == 2
InDelay == 3
InLow == 4
InNormal == 5
InMine == 6
InIsr == 7
InArg == 8

(* f, with v for x *)
Put(f, x, v) == [f EXCEPT ![x] = v]

(* In the proofs, w[s] is the place of item s.  A list holds the items     *)
(* whose place it is, each of them once.                                   *)
Holds(l, w, p) ==
    /\ l \in Seq(Items)
    /\ \A i, j \in 1..Len(l) : l[i] = l[j] => i = j
    /\ \A s \in Items : w[s] = p <=> \E i \in 1..Len(l) : l[i] = s

(* The items of the list are in the order of their times. *)
InOrder(l, time) ==
    \A i, j \in 1..Len(l) : i <= j => time[l[i]] <= time[l[j]]

--------------------------------------------------------------------------------
(* What becomes of a list.                                                 *)

(* Every set of numbers that is not empty has a least one. *)
LEMMA Smallest ==
    ASSUME NEW S, S \subseteq Nat, S # {}
    PROVE  /\ Min(S) \in S
           /\ \A n \in S : Min(S) <= n
<1> DEFINE R == {ss \in Nat \X Nat : ss[1] < ss[2]}
<1>1. IsWellFoundedOn(R, Nat)
    BY NatLessThanWellFounded, Zenon DEF OpToRel
<1>2. PICK x \in S : \A y \in S : ~(<<y, x>> \in R)
    <2> HIDE DEF R
    <2> QED
        BY <1>1, WFMin
<1>3. ASSUME NEW n \in S  PROVE x <= n
    <2>1. <<n, x>> \notin R
        BY <1>2
    <2>2. n \in Nat /\ x \in Nat
        OBVIOUS
    <2> QED
        BY <2>1, <2>2
<1> QED
    BY <1>3 DEF Min

(* A list without its head. *)
LEMMA TailSeq ==
    ASSUME NEW l \in Seq(Items), l # <<>>
    PROVE  /\ Len(l) \in Nat /\ Len(l) # 0 /\ 1 \in 1..Len(l)
           /\ Head(l) = l[1] /\ Head(l) \in Items
           /\ Tail(l) \in Seq(Items) /\ Len(Tail(l)) = Len(l) - 1
           /\ \A i \in 1..Len(Tail(l)) : Tail(l)[i] = l[i + 1] /\ i + 1 \in 1..Len(l)
OBVIOUS

(* A list with one more item at its end. *)
LEMMA AppendSeq ==
    ASSUME NEW l \in Seq(Items), NEW s \in Items, NEW n, n = Len(l)
    PROVE  /\ Append(l, s) \in Seq(Items) /\ Len(Append(l, s)) = n + 1
           /\ Append(l, s)[n + 1] = s /\ \A i \in 1..n : Append(l, s)[i] = l[i]
OBVIOUS

(* m is l with s at place k. *)
Inserted(l, k, s, m) ==
    /\ m \in Seq(Items) /\ Len(m) = Len(l) + 1 /\ m[k] = s
    /\ \A i \in 1..Len(l) + 1 : i < k => m[i] = l[i]
    /\ \A i \in 1..Len(l) + 1 : k < i => m[i] = l[i - 1]

(* A list with one more item at a place in it. *)
LEMMA InsertSeq ==
    ASSUME NEW l \in Seq(Items), NEW s \in Items, NEW k \in 1..Len(l) + 1
    PROVE  Inserted(l, k, s, InsertAt(l, k, s))
<1>0. PICK n \in Nat : n = Len(l)
    OBVIOUS
<1> DEFINE a == SubSeq(l, 1, k - 1)
           c == SubSeq(l, k, n)
<1>1. a \in Seq(Items) /\ Len(a) = k - 1 /\ \A i \in 1..k - 1 : a[i] = l[i]
    BY <1>0
<1>2. c \in Seq(Items) /\ Len(c) = n + 1 - k /\ \A i \in 1..n + 1 - k : c[i] = l[i + k - 1]
    BY <1>0
<1> HIDE DEF a, c
<1> DEFINE b == a \o <<s>>
<1>3. b \in Seq(Items) /\ Len(b) = k /\ b[k] = s /\ \A i \in 1..k - 1 : b[i] = l[i]
    BY <1>0, <1>1
<1> HIDE DEF b
<1>4. b \o c \in Seq(Items) /\ Len(b \o c) = n + 1
    BY <1>0, <1>2, <1>3
<1>5. ASSUME NEW i \in 1..n + 1
      PROVE  /\ i = k => (b \o c)[i] = s
             /\ i < k => (b \o c)[i] = l[i]
             /\ k < i => (b \o c)[i] = l[i - 1]
    <2>1. CASE i <= k
        <3>1. (b \o c)[i] = b[i]
            BY <2>1, <1>0, <1>2, <1>3
        <3> QED
            BY <2>1, <3>1, <1>3
    <2>2. CASE ~(i <= k)
        <3>1. (b \o c)[i] = c[i - k]
            BY <2>2, <1>0, <1>2, <1>3
        <3>2. i - k \in 1..n + 1 - k /\ i - k + k - 1 = i - 1
            BY <1>0, <2>2
        <3>3. c[i - k] = l[i - k + k - 1]
            BY <3>2, <1>2
        <3>4. ~(i < k) /\ i # k
            BY <1>0, <2>2
        <3>5. (b \o c)[i] = l[i - 1]
            BY <3>1, <3>2, <3>3
        <3> QED
            BY <3>4, <3>5
    <2> QED
        BY <1>0, <2>1, <2>2
<1>6. (b \o c)[k] = s
    BY <1>0, <1>5
<1>7. InsertAt(l, k, s) = b \o c
    BY <1>0 DEF InsertAt, a, b, c
<1> QED
    BY <1>0, <1>4, <1>5, <1>6, <1>7 DEF Inserted

(* A list without one of its items. *)
LEMMA RemoveSeq ==
    ASSUME NEW l \in Seq(Items), NEW n \in Nat, n = Len(l), NEW k \in 1..n
    PROVE  /\ RemoveAt(l, k) \in Seq(Items) /\ Len(RemoveAt(l, k)) = n - 1
           /\ \A i \in 1..n - 1 : RemoveAt(l, k)[i] = IF i < k THEN l[i] ELSE l[i + 1]
<1> DEFINE a == SubSeq(l, 1, k - 1)
           c == SubSeq(l, k + 1, n)
<1>1. a \in Seq(Items) /\ Len(a) = k - 1 /\ \A i \in 1..k - 1 : a[i] = l[i]
    OBVIOUS
<1>2. c \in Seq(Items) /\ Len(c) = n - k /\ \A i \in 1..n - k : c[i] = l[i + k]
    OBVIOUS
<1> HIDE DEF a, c
<1>3. a \o c \in Seq(Items) /\ Len(a \o c) = n - 1
    BY <1>1, <1>2
<1>4. ASSUME NEW i \in 1..n - 1
      PROVE  (a \o c)[i] = IF i < k THEN l[i] ELSE l[i + 1]
    <2>1. CASE i < k
        <3>1. (a \o c)[i] = a[i]
            BY <2>1, <1>1, <1>2
        <3> QED
            BY <2>1, <3>1, <1>1
    <2>2. CASE ~(i < k)
        <3>1. (a \o c)[i] = c[i - k + 1]
            BY <2>2, <1>1, <1>2
        <3>2. i - k + 1 \in 1..n - k /\ i - k + 1 + k = i + 1
            BY <2>2
        <3>3. c[i - k + 1] = l[i - k + 1 + k]
            BY <3>2, <1>2
        <3> QED
            BY <2>2, <3>1, <3>2, <3>3
    <2> QED
        BY <2>1, <2>2
<1>5. RemoveAt(l, k) = a \o c
    BY DEF RemoveAt, a, c
<1> QED
    BY <1>3, <1>4, <1>5

(* An item that comes from elsewhere and goes elsewhere leaves the list as *)
(* it is.                                                                  *)
LEMMA Keep ==
    ASSUME NEW l, NEW w \in [Items -> 1..8], NEW p \in 1..8, Holds(l, w, p),
           NEW s \in Items, NEW q \in 1..8, w[s] # p, q # p
    PROVE  Holds(l, Put(w, s, q), p)
BY DEF Holds, Put

(* The head of the list goes to another place. *)
LEMMA Pop ==
    ASSUME NEW l, NEW w \in [Items -> 1..8], NEW p \in 1..8, Holds(l, w, p),
           l # <<>>, NEW q \in 1..8, q # p
    PROVE  /\ Head(l) \in Items /\ w[Head(l)] = p
           /\ Holds(Tail(l), Put(w, Head(l), q), p)
<1>1. PICK n \in Nat : n = Len(l) /\ l \in Seq(Items)
    BY DEF Holds
<1>2. /\ n # 0 /\ 1 \in 1..n /\ Head(l) = l[1] /\ Head(l) \in Items
      /\ Tail(l) \in Seq(Items) /\ Len(Tail(l)) = n - 1
      /\ \A i \in 1..n - 1 : Tail(l)[i] = l[i + 1] /\ i + 1 \in 1..n
    BY <1>1, TailSeq
<1>3. PICK s \in Items : s = Head(l) /\ s = l[1]
    BY <1>2
<1>4. w[s] = p
    BY <1>1, <1>2, <1>3 DEF Holds
<1>5. PICK w2 : w2 = Put(w, s, q)
    OBVIOUS
<1>6. w2[s] = q /\ \A t \in Items : t # s => w2[t] = w[t]
    BY <1>5 DEF Put
<1>7. PICK l2 \in Seq(Items) : l2 = Tail(l)
    BY <1>2
<1>8. \A i, j \in 1..n : l[i] = l[j] => i = j
    BY <1>1 DEF Holds
<1>9. \A i, j \in 1..n - 1 : l2[i] = l2[j] => i = j
    <2> SUFFICES ASSUME NEW i \in 1..n - 1, NEW j \in 1..n - 1, l2[i] = l2[j] PROVE i = j
        OBVIOUS
    <2>1. i + 1 = j + 1
        BY <1>2, <1>7, <1>8
    <2> QED
        BY <2>1
<1>10. ASSUME NEW t \in Items PROVE w2[t] = p <=> \E i \in 1..n - 1 : l2[i] = t
    <2>1. w[t] = p <=> \E i \in 1..n : l[i] = t
        BY <1>1 DEF Holds
    <2>2. ASSUME NEW i \in 1..n - 1, l2[i] = t PROVE w2[t] = p
        <3>1. i + 1 \in 1..n /\ l[i + 1] = t /\ i + 1 # 1
            BY <2>2, <1>2, <1>7
        <3>2. t # s
            BY <3>1, <1>2, <1>3, <1>8
        <3> QED
            BY <3>1, <3>2, <2>1, <1>6
    <2>3. ASSUME w2[t] = p PROVE \E i \in 1..n - 1 : l2[i] = t
        <3>1. t # s /\ w[t] = p
            BY <2>3, <1>6
        <3>2. PICK i \in 1..n : l[i] = t
            BY <3>1, <2>1
        <3>3. i - 1 \in 1..n - 1 /\ i - 1 + 1 = i
            BY <3>1, <3>2, <1>3
        <3>4. l2[i - 1] = t
            BY <3>2, <3>3, <1>2, <1>7
        <3> QED
            BY <3>3, <3>4
    <2> QED
        BY <2>2, <2>3
<1>11. Holds(l2, w2, p)
    BY <1>2, <1>7, <1>9, <1>10 DEF Holds
<1> QED
    BY <1>3, <1>4, <1>5, <1>7, <1>11

(* An item is put at a place in the list. *)
LEMMA Insert ==
    ASSUME NEW l, NEW w \in [Items -> 1..8], NEW p \in 1..8, Holds(l, w, p),
           NEW s \in Items, w[s] # p, NEW k \in 1..Len(l) + 1
    PROVE  Holds(InsertAt(l, k, s), Put(w, s, p), p)
<1>1. PICK n \in Nat : n = Len(l) /\ l \in Seq(Items) /\ k \in 1..n + 1
    BY DEF Holds
<1>2. PICK l2 : l2 = InsertAt(l, k, s)
    OBVIOUS
<1>a. Inserted(l, k, s, l2)
    BY <1>1, <1>2, InsertSeq
<1>3. /\ l2 \in Seq(Items) /\ Len(l2) = n + 1
      /\ l2[k] = s
      /\ \A i \in 1..n + 1 : i < k => l2[i] = l[i]
      /\ \A i \in 1..n + 1 : k < i => l2[i] = l[i - 1]
    BY <1>1, <1>a DEF Inserted
<1>4. PICK w2 : w2 = Put(w, s, p)
    OBVIOUS
<1>5. w2[s] = p /\ \A t \in Items : t # s => w2[t] = w[t]
    BY <1>4 DEF Put
<1>6. \A t \in Items : w[t] = p <=> \E i \in 1..n : l[i] = t
    BY <1>1 DEF Holds
<1>7. \A i, j \in 1..n : l[i] = l[j] => i = j
    BY <1>1 DEF Holds
<1>8. \A i \in 1..n : l[i] # s /\ l[i] \in Items
    BY <1>1, <1>6
<1>9. ASSUME NEW i \in 1..n + 1, i # k
      PROVE  \E j \in 1..n : l2[i] = l[j] /\ j = IF i < k THEN i ELSE i - 1
    <2>1. CASE i < k
        <3>1. i \in 1..n
            BY <2>1, <1>1
        <3> QED
            BY <2>1, <3>1, <1>3
    <2>2. CASE ~(i < k)
        <3>1. i - 1 \in 1..n /\ k < i
            BY <2>2, <1>1, <1>9
        <3> QED
            BY <2>2, <3>1, <1>3, <1>9
    <2> QED
        BY <2>1, <2>2
<1>10. l2[k] = s
    BY <1>1, <1>3
<1>11. ASSUME NEW i \in 1..n + 1, NEW j \in 1..n + 1, l2[i] = l2[j] PROVE i = j
    <2>1. CASE i = k \/ j = k
        BY <2>1, <1>8, <1>9, <1>10, <1>11
    <2>2. CASE i # k /\ j # k
        <3>1. PICK a \in 1..n : l2[i] = l[a] /\ a = IF i < k THEN i ELSE i - 1
            BY <2>2, <1>9
        <3>2. PICK b \in 1..n : l2[j] = l[b] /\ b = IF j < k THEN j ELSE j - 1
            BY <2>2, <1>9
        <3>3. a = b
            BY <3>1, <3>2, <1>7, <1>11
        <3> QED
            BY <2>2, <3>1, <3>2, <3>3, <1>1
    <2> QED
        BY <2>1, <2>2
<1>12. ASSUME NEW t \in Items PROVE w2[t] = p <=> \E i \in 1..n + 1 : l2[i] = t
    <2>1. CASE t = s
        BY <2>1, <1>1, <1>5, <1>10
    <2>2. CASE t # s
        <3>1. ASSUME NEW i \in 1..n + 1, l2[i] = t PROVE w[t] = p
            BY <3>1, <2>2, <1>6, <1>9, <1>10
        <3>2. ASSUME NEW j \in 1..n, l[j] = t PROVE \E i \in 1..n + 1 : l2[i] = t
            <4>1. CASE j < k
                <5>1. j \in 1..n + 1 /\ l2[j] = t
                    BY <3>2, <4>1, <1>1, <1>3
                <5> QED
                    BY <5>1
            <4>2. CASE ~(j < k)
                <5>1. j + 1 \in 1..n + 1 /\ k < j + 1 /\ j + 1 - 1 = j
                    BY <4>2, <1>1
                <5>2. l2[j + 1] = t
                    BY <5>1, <3>2, <1>3
                <5> QED
                    BY <5>1, <5>2
            <4> QED
                BY <4>1, <4>2
        <3> QED
            BY <3>1, <3>2, <2>2, <1>5, <1>6
    <2> QED
        BY <2>1, <2>2
<1>13. Holds(l2, w2, p)
    BY <1>3, <1>11, <1>12 DEF Holds
<1> QED
    BY <1>2, <1>4, <1>13

(* An item is put at the end of the list. *)
LEMMA Enqueue ==
    ASSUME NEW l, NEW w \in [Items -> 1..8], NEW p \in 1..8, Holds(l, w, p),
           NEW s \in Items, w[s] # p
    PROVE  Holds(Append(l, s), Put(w, s, p), p)
<1>1. PICK n \in Nat : n = Len(l) /\ l \in Seq(Items)
    BY DEF Holds
<1>2. PICK l2 : l2 = Append(l, s)
    OBVIOUS
<1>3. /\ l2 \in Seq(Items) /\ Len(l2) = n + 1 /\ l2[n + 1] = s
      /\ \A i \in 1..n : l2[i] = l[i]
    BY <1>1, <1>2, AppendSeq
<1>4. PICK w2 : w2 = Put(w, s, p)
    OBVIOUS
<1>5. w2[s] = p /\ \A t \in Items : t # s => w2[t] = w[t]
    BY <1>4 DEF Put
<1>6. \A t \in Items : w[t] = p <=> \E i \in 1..n : l[i] = t
    BY <1>1 DEF Holds
<1>7. \A i, j \in 1..n : l[i] = l[j] => i = j
    BY <1>1 DEF Holds
<1>8. \A i \in 1..n : l[i] # s
    BY <1>1, <1>6
<1>9. \A i \in 1..n + 1 : i = n + 1 \/ i \in 1..n
    BY <1>1
<1>10. n + 1 \in 1..n + 1 /\ \A i \in 1..n : i \in 1..n + 1
    BY <1>1
<1>11. \A i, j \in 1..n + 1 : l2[i] = l2[j] => i = j
    BY <1>3, <1>7, <1>8, <1>9
<1>12. \A t \in Items : w2[t] = p <=> \E i \in 1..n + 1 : l2[i] = t
    BY <1>3, <1>5, <1>6, <1>8, <1>9, <1>10
<1>13. Holds(l2, w2, p)
    BY <1>3, <1>11, <1>12 DEF Holds
<1> QED
    BY <1>2, <1>4, <1>13

(* remove_from_delay_list takes the item out, if it is on the list. *)
LEMMA Remove1 ==
    ASSUME NEW l, NEW w \in [Items -> 1..8], NEW p \in 1..8, Holds(l, w, p),
           NEW s \in Items
    PROVE  /\ Contains(l, s) <=> w[s] = p
           /\ w[s] # p => RemoveFirst(l, s) = l
           /\ w[s] = p => \E k \in 1..Len(l) : l[k] = s /\ RemoveFirst(l, s) = RemoveAt(l, k)
<1>1. Contains(l, s) <=> w[s] = p
    BY DEF Contains, Holds
<1>2. w[s] # p => RemoveFirst(l, s) = l
    BY DEF Holds, RemoveFirst
<1>3. ASSUME w[s] = p
      PROVE  \E k \in 1..Len(l) : l[k] = s /\ RemoveFirst(l, s) = RemoveAt(l, k)
    <2> DEFINE I == {i \in 1..Len(l) : l[i] = s}
    <2>1. I # {} /\ I \subseteq Nat
        BY <1>3 DEF Holds
    <2>2. Min(I) \in I
        <3> HIDE DEF I
        <3> QED
            BY <2>1, Smallest
    <2>3. RemoveFirst(l, s) = RemoveAt(l, Min(I))
        BY <2>1 DEF RemoveFirst, SelectInSeq
    <2> QED
        BY <2>2, <2>3
<1> QED
    BY <1>1, <1>2, <1>3

(* An item that is taken out of the list goes to another place. *)
LEMMA TakeOut ==
    ASSUME NEW l, NEW w \in [Items -> 1..8], NEW p \in 1..8, Holds(l, w, p),
           NEW s \in Items, NEW k \in 1..Len(l), l[k] = s, NEW q \in 1..8, q # p
    PROVE  Holds(RemoveAt(l, k), Put(w, s, q), p)
<1>1. PICK n \in Nat : n = Len(l) /\ l \in Seq(Items) /\ k \in 1..n
    BY DEF Holds
<1>2. PICK l2 : l2 = RemoveAt(l, k)
    OBVIOUS
<1>3. /\ l2 \in Seq(Items) /\ Len(l2) = n - 1
      /\ \A i \in 1..n - 1 : l2[i] = IF i < k THEN l[i] ELSE l[i + 1]
    BY <1>1, <1>2, RemoveSeq
<1>4. PICK w2 : w2 = Put(w, s, q)
    OBVIOUS
<1>5. w2[s] = q /\ \A t \in Items : t # s => w2[t] = w[t]
    BY <1>4 DEF Put
<1>6. \A t \in Items : w[t] = p <=> \E i \in 1..n : l[i] = t
    BY <1>1 DEF Holds
<1>7. \A i, j \in 1..n : l[i] = l[j] => i = j
    BY <1>1 DEF Holds
<1>8. ASSUME NEW i \in 1..n - 1
      PROVE  \E j \in 1..n : l2[i] = l[j] /\ j # k /\ j = IF i < k THEN i ELSE i + 1
    <2>1. CASE i < k
        <3>1. i \in 1..n /\ i # k
            BY <2>1, <1>1
        <3> QED
            BY <2>1, <3>1, <1>3
    <2>2. CASE ~(i < k)
        <3>1. i + 1 \in 1..n /\ i + 1 # k
            BY <2>2, <1>1
        <3> QED
            BY <2>2, <3>1, <1>3
    <2> QED
        BY <2>1, <2>2
<1>9. ASSUME NEW i \in 1..n - 1, NEW j \in 1..n - 1, l2[i] = l2[j] PROVE i = j
    <2>1. PICK a \in 1..n : l2[i] = l[a] /\ a = IF i < k THEN i ELSE i + 1
        BY <1>8
    <2>2. PICK b \in 1..n : l2[j] = l[b] /\ b = IF j < k THEN j ELSE j + 1
        BY <1>8
    <2>3. a = b
        BY <2>1, <2>2, <1>7, <1>9
    <2> QED
        BY <2>1, <2>2, <2>3, <1>1
<1>10. ASSUME NEW t \in Items PROVE w2[t] = p <=> \E i \in 1..n - 1 : l2[i] = t
    <2>1. ASSUME NEW i \in 1..n - 1, l2[i] = t PROVE w2[t] = p
        <3>1. PICK j \in 1..n : t = l[j] /\ j # k
            BY <2>1, <1>8
        <3>2. t # s
            BY <3>1, <1>1, <1>7
        <3> QED
            BY <3>1, <3>2, <1>5, <1>6
    <2>2. ASSUME w2[t] = p PROVE \E i \in 1..n - 1 : l2[i] = t
        <3>1. t # s /\ w[t] = p
            BY <2>2, <1>5
        <3>2. PICK j \in 1..n : l[j] = t
            BY <3>1, <1>6
        <3>3. j # k
            BY <3>1, <3>2
        <3>4. CASE j < k
            <4>1. j \in 1..n - 1
                BY <3>4, <1>1
            <4> QED
                BY <3>2, <3>4, <4>1, <1>3
        <3>5. CASE ~(j < k)
            <4>1. j - 1 \in 1..n - 1 /\ ~(j - 1 < k) /\ j - 1 + 1 = j
                BY <3>3, <3>5, <1>1
            <4>2. l2[j - 1] = t
                BY <3>2, <4>1, <1>3
            <4> QED
                BY <4>1, <4>2
        <3> QED
            BY <3>4, <3>5
    <2> QED
        BY <2>1, <2>2
<1>11. Holds(l2, w2, p)
    BY <1>3, <1>9, <1>10 DEF Holds
<1> QED
    BY <1>2, <1>4, <1>11

--------------------------------------------------------------------------------
(* What becomes of the order of a list.                                    *)

(* The order depends on the times of the items on the list only. *)
LEMMA OrderKept ==
    ASSUME NEW l, NEW w, NEW p, Holds(l, w, p), NEW time, InOrder(l, time),
           NEW time2, \A s \in Items : w[s] = p => time2[s] = time[s]
    PROVE  InOrder(l, time2)
<1>1. \A i \in 1..Len(l) : l[i] \in Items /\ w[l[i]] = p
    BY DEF Holds
<1>2. \A i \in 1..Len(l) : time2[l[i]] = time[l[i]]
    BY <1>1
<1> QED
    BY <1>2 DEF InOrder

(* The head of a list in order has the least time; without it the list is  *)
(* in order.                                                               *)
LEMMA OrderTail ==
    ASSUME NEW l \in Seq(Items), l # <<>>, NEW time, InOrder(l, time)
    PROVE  /\ InOrder(Tail(l), time)
           /\ \A i \in 1..Len(l) : time[Head(l)] <= time[l[i]]
<1>1. /\ Len(l) \in Nat /\ Len(l) # 0 /\ 1 \in 1..Len(l) /\ Head(l) = l[1]
      /\ Len(Tail(l)) = Len(l) - 1
      /\ \A i \in 1..Len(Tail(l)) : Tail(l)[i] = l[i + 1] /\ i + 1 \in 1..Len(l)
    BY TailSeq
<1>2. ASSUME NEW i \in 1..Len(Tail(l)), NEW j \in 1..Len(Tail(l)), i <= j
      PROVE  time[Tail(l)[i]] <= time[Tail(l)[j]]
    <2>1. i + 1 \in 1..Len(l) /\ j + 1 \in 1..Len(l) /\ i + 1 <= j + 1
        BY <1>1, <1>2
    <2>2. time[l[i + 1]] <= time[l[j + 1]]
        BY <2>1 DEF InOrder
    <2> QED
        BY <2>2, <1>1
<1>3. \A i \in 1..Len(l) : 1 <= i
    OBVIOUS
<1> QED
    BY <1>1, <1>2, <1>3 DEF InOrder

(* A list without one of its items is in order. *)
LEMMA OrderRemove ==
    ASSUME NEW l \in Seq(Items), NEW k \in 1..Len(l), NEW time, InOrder(l, time)
    PROVE  InOrder(RemoveAt(l, k), time)
<1>1. PICK n \in Nat : n = Len(l)
    OBVIOUS
<1>2. PICK l2 : l2 = RemoveAt(l, k)
    OBVIOUS
<1>3. Len(l2) = n - 1 /\ \A i \in 1..n - 1 : l2[i] = IF i < k THEN l[i] ELSE l[i + 1]
    BY <1>1, <1>2, RemoveSeq
<1>4. ASSUME NEW i \in 1..n - 1, NEW j \in 1..n - 1, i <= j
      PROVE  time[l2[i]] <= time[l2[j]]
    <2>1. PICK a \in 1..n : a = (IF i < k THEN i ELSE i + 1) /\ l2[i] = l[a]
        BY <1>3
    <2>2. PICK b \in 1..n : b = (IF j < k THEN j ELSE j + 1) /\ l2[j] = l[b]
        BY <1>3
    <2>3. a <= b
        BY <2>1, <2>2, <1>1, <1>4
    <2> QED
        BY <2>1, <2>2, <2>3, <1>1 DEF InOrder
<1> QED
    BY <1>2, <1>3, <1>4 DEF InOrder

(* add_to_delay_list: the list stays in order, and its head stays the head *)
(* if it is due earlier.                                                   *)
LEMMA SortedIn ==
    ASSUME NEW l, NEW w \in [Items -> 1..8], NEW p \in 1..8, Holds(l, w, p),
           wTargetTime \in [Items -> Nat], InOrder(l, wTargetTime),
           NEW s \in Items, w[s] # p, NEW time \in Nat,
           NEW time2, time2[s] = time, \A t \in Items \ {s} : time2[t] = wTargetTime[t]
    PROVE  /\ Holds(Sorted(l, s, time), Put(w, s, p), p)
           /\ InOrder(Sorted(l, s, time), time2)
           /\ Sorted(l, s, time) # <<>>
           /\ l # <<>> /\ wTargetTime[Head(l)] < time => Head(Sorted(l, s, time)) = Head(l)
<1>1. PICK n \in Nat : n = Len(l) /\ l \in Seq(Items)
    BY DEF Holds
<1> DEFINE K == {i \in 1..n : time <= wTargetTime[l[i]]}
<1>2. PICK k : k = Min(K \cup {n + 1})
    OBVIOUS
<1>3. k \in K \cup {n + 1} /\ \A i \in K \cup {n + 1} : k <= i
    <2>1. K \cup {n + 1} \subseteq Nat /\ K \cup {n + 1} # {}
        BY <1>1
    <2> HIDE DEF K
    <2> QED
        BY <2>1, <1>2, Smallest
<1>4. k \in 1..n + 1 /\ (k \in 1..n => time <= wTargetTime[l[k]])
    BY <1>1, <1>3
<1>5. \A i \in 1..n : i < k => wTargetTime[l[i]] < time
    <2> SUFFICES ASSUME NEW i \in 1..n, i < k PROVE wTargetTime[l[i]] < time
        OBVIOUS
    <2>1. wTargetTime[l[i]] \in Nat
        BY <1>1
    <2>2. i \notin K
        BY <1>3, <1>4
    <2> QED
        BY <2>1, <2>2
<1>6. PICK l2 : l2 = InsertAt(l, k, s)
    OBVIOUS
<1>7. l2 = Sorted(l, s, time)
    BY <1>1, <1>2, <1>6 DEF Sorted
<1>8. Inserted(l, k, s, l2) /\ Holds(l2, Put(w, s, p), p)
    <2>1. k \in 1..Len(l) + 1
        BY <1>1, <1>4
    <2> QED
        BY <2>1, <1>1, <1>6, InsertSeq, Insert
<1>9. /\ l2 \in Seq(Items) /\ Len(l2) = n + 1 /\ l2[k] = s
      /\ \A i \in 1..n + 1 : i < k => l2[i] = l[i]
      /\ \A i \in 1..n + 1 : k < i => l2[i] = l[i - 1]
    BY <1>1, <1>8 DEF Inserted
<1>10. \A i \in 1..n : time2[l[i]] = wTargetTime[l[i]] /\ wTargetTime[l[i]] \in Nat
    <2> SUFFICES ASSUME NEW i \in 1..n
                 PROVE  time2[l[i]] = wTargetTime[l[i]] /\ wTargetTime[l[i]] \in Nat
        OBVIOUS
    <2>1. l[i] \in Items /\ l[i] # s
        BY <1>1 DEF Holds
    <2> QED
        BY <2>1
<1>11. \A i, j \in 1..n : i <= j => wTargetTime[l[i]] <= wTargetTime[l[j]]
    BY <1>1 DEF InOrder
<1>12. ASSUME NEW i \in 1..n + 1, i < k
       PROVE  i \in 1..n /\ time2[l2[i]] = wTargetTime[l[i]] /\ wTargetTime[l[i]] < time
    <2>1. i \in 1..n
        BY <1>4, <1>12
    <2> QED
        BY <2>1, <1>5, <1>9, <1>10, <1>12
<1>13. ASSUME NEW i \in 1..n + 1, k < i
       PROVE  /\ i - 1 \in 1..n /\ time2[l2[i]] = wTargetTime[l[i - 1]]
              /\ time <= wTargetTime[l[i - 1]]
    <2>1. i - 1 \in 1..n /\ k \in 1..n /\ k <= i - 1
        BY <1>4, <1>13
    <2>2. time <= wTargetTime[l[k]] /\ wTargetTime[l[k]] <= wTargetTime[l[i - 1]]
        BY <2>1, <1>4, <1>11
    <2>3. wTargetTime[l[k]] \in Nat /\ wTargetTime[l[i - 1]] \in Nat
        BY <2>1, <1>10
    <2>4. time2[l2[i]] = wTargetTime[l[i - 1]]
        BY <2>1, <1>9, <1>10, <1>13
    <2> QED
        BY <2>1, <2>2, <2>3, <2>4
<1>14. ASSUME NEW i \in 1..n + 1, NEW j \in 1..n + 1, i <= j
       PROVE  time2[l2[i]] <= time2[l2[j]]
    <2>1. i = k \/ i < k \/ k < i
        BY <1>4
    <2>2. j = k \/ j < k \/ k < j
        BY <1>4
    <2>3. time2[l2[k]] = time
        BY <1>9
    <2>4. CASE i < k /\ j < k
        <3>1. i \in 1..n /\ j \in 1..n
            BY <2>4, <1>12
        <3> QED
            BY <2>4, <3>1, <1>11, <1>12, <1>14
    <2>5. CASE k < i /\ k < j
        <3>1. i - 1 \in 1..n /\ j - 1 \in 1..n /\ i - 1 <= j - 1
            BY <2>5, <1>13, <1>14
        <3> QED
            BY <2>5, <3>1, <1>11, <1>13
    <2>6. CASE i < k /\ ~(j < k)
        <3>1. time2[l2[i]] < time /\ time2[l2[i]] \in Nat
            BY <2>6, <1>10, <1>12
        <3>2. time <= time2[l2[j]] /\ time2[l2[j]] \in Nat
            BY <2>2, <2>3, <2>6, <1>10, <1>13
        <3> QED
            BY <3>1, <3>2
    <2>7. CASE i = k /\ k < j
        BY <2>3, <2>7, <1>13
    <2>8. CASE i = k /\ j = k
        BY <2>3, <2>8
    <2>9. ~(k < i /\ ~(k < j)) /\ ~(i = k /\ j < k)
        BY <1>4, <1>14
    <2> QED
        BY <2>1, <2>2, <2>4, <2>5, <2>6, <2>7, <2>8, <2>9
<1>15. InOrder(l2, time2)
    BY <1>9, <1>14 DEF InOrder
<1>16. l2 # <<>>
    BY <1>9
<1>17. ASSUME l # <<>>, wTargetTime[Head(l)] < time PROVE Head(l2) = Head(l)
    <2>1. 1 \in 1..n /\ 1 \in 1..n + 1 /\ Head(l) = l[1]
        BY <1>1, <1>17
    <2>2. k # 1
        <3> SUFFICES ASSUME k = 1 PROVE FALSE
            OBVIOUS
        <3>1. time <= wTargetTime[l[1]] /\ wTargetTime[l[1]] \in Nat
            BY <2>1, <1>4, <1>10
        <3> QED
            BY <2>1, <3>1, <1>17
    <2>3. 1 < k
        BY <2>2, <1>4
    <2>4. l2[1] = l[1]
        BY <2>1, <2>3, <1>9
    <2>5. Head(l2) = l2[1]
        BY <1>9, <1>16
    <2> QED
        BY <2>1, <2>4, <2>5
<1> QED
    BY <1>7, <1>8, <1>15, <1>16, <1>17

--------------------------------------------------------------------------------
(* The inductive invariant.                                                *)

Calls == {"new", "add", "cancelHigh", "cancelNormal", "cancelled"}

(* The lists h and d and the queues e hold the items that w says they do.  *)
Queued(h, d, e, w, time) ==
    /\ Holds(h, w, InHigh) /\ Holds(d, w, InDelay)
    /\ Holds(e["LOW"], w, InLow) /\ Holds(e["NORMAL"], w, InNormal)
    /\ InOrder(h, time) /\ InOrder(d, time)

(* Where every item is, and the order of the delay lists. *)
Where(w) ==
    /\ w \in [Items -> 1..8]
    /\ \A s \in Items : w[s] = InPool <=> s \in pool
    /\ Queued(ptHighPriorityDelayList, ptDelayList, events, w, wTargetTime)
    /\ \A s \in Items : w[s] = InMine <=> s = mine
    /\ \A s \in Items : w[s] = InIsr <=> s = isrItem
    /\ \A s \in Items : w[s] = InArg <=> (s = arg /\ pc \in {"add", "cancelled"})

(* What the main thread and the interrupt are doing.                       *)
Flow ==
    /\ mine # NULL <=> (pc = "handler" \/ caller = "handler")
    /\ caller = "handler" => pc \in Calls
    /\ pc = "pop" => ptDelayList # <<>>
    /\ pc \in {"check", "pop"} => chState = "CHECK_LIST"
    /\ pc = "save" => chState = "START"
    /\ pc = "raise" => chState = "RAISE_NORMAL"
    /\ wSavedCounter # 0 => chState = "CHECK_LIST"
    /\ isr # "off" /\ wCounter = Limit - 1 => ptDelayList = <<>>
    /\ pc = "new" => ask \in Priorities \X Delays /\ base + ask[2] < Limit

(* The ticks begun so far, and the age r of an item due at t, at tick c:   *)
(* the ticks still to come, as long as it is not overdue by two.           *)
Clock == wCounter + (IF isr = "off" THEN 0 ELSE 1)
Aged(r, t, c) == t - c <= r /\ (r > -2 => r = t - c)

(* What is known of the time while no copy of the counter is out of date.  *)
Timed(w) ==
    /\ \A s \in Items : w[s] \in {InHigh, InDelay} \/ (pc = "add" /\ s = arg)
                           => Aged(remain[s], wTargetTime[s], Clock)
    /\ pc = "new" => Aged(remain[NULL], base + ask[2], Clock)
    /\ \A s \in Items : w[s] \in {InLow, InNormal, InMine, InIsr} => remain[s] <= 0
    /\ wSavedCounter <= wCounter
    /\ pc = "save" => base <= wCounter
    /\ pc = "pop" => wTargetTime[Head(ptDelayList)] <= wSavedCounter

Known(w) == Where(w) /\ (stale \/ Timed(w))

Inv == TypeOK /\ Flow /\ \E w : Known(w)

USE DEF InPool, InHigh, InDelay, InLow, InNormal, InMine, InIsr, InArg

(* The constants. *)
LEMMA Numbers ==
    /\ Limit \in Nat /\ Limit > 2 /\ MaxDelay \in Nat /\ MaxDelay # 0 /\ MaxDelay < Limit
    /\ NULL \notin Items
    /\ \A d \in Delays : d \in Nat /\ d > 0 /\ d <= MaxDelay /\ d \in -2..MaxDelay
    /\ 0 \in 0..Limit - 1
BY WidthAssumption, ItemsAssumption DEF Limit, Delays

(* In the beginning every item is free. *)
LEMMA InitInv == Init => Inv
<1> SUFFICES ASSUME Init PROVE Inv
    OBVIOUS
<1>1. TypeOK
    <2>1. remain \in [Items \cup {NULL} -> -2..MaxDelay]
        BY Numbers DEF Init
    <2>2. /\ tPriority \in [Items -> Priorities] /\ wTargetTime \in [Items -> 0..Limit-1]
          /\ events \in [{"LOW", "NORMAL"} -> Seq(Items)]
        BY Numbers DEF Init, Priorities
    <2>3. {wCounter, wSavedCounter, base, tCount} \subseteq 0..Limit-1
        BY Numbers DEF Init
    <2> QED
        BY <2>1, <2>2, <2>3, Numbers DEF Init, TypeOK
<1>2. Flow
    BY Numbers DEF Init, Flow
<1> DEFINE w == [s \in Items |-> InPool]
<1>3. Where(w)
    <2>1. \A p \in {2, 3, 4, 5} : Holds(<<>>, w, p)
        BY DEF Holds
    <2>2. InOrder(<<>>, wTargetTime)
        BY DEF InOrder
    <2>3. w \in [Items -> 1..8] /\ \A s \in Items : w[s] = 1
        OBVIOUS
    <2> HIDE DEF w
    <2> QED
        BY <2>1, <2>2, <2>3, Numbers DEF Init, Where, Queued
<1>4. Timed(w)
    <2>1. \A s \in Items : w[s] = 1
        OBVIOUS
    <2> HIDE DEF w
    <2> QED
        BY <2>1 DEF Init, Timed
<1> QED
    BY <1>1, <1>2, <1>3, <1>4 DEF Inv, Known

--------------------------------------------------------------------------------
(* The steps of a request.                                                 *)

(* TypeOK in parts. *)
LEMMA Types ==
    ASSUME TypeOK
    PROVE  /\ wCounter \in 0..Limit-1 /\ wSavedCounter \in 0..Limit-1 /\ base \in 0..Limit-1
           /\ tCount \in 0..Limit-1 /\ wCounter \in Nat /\ wSavedCounter \in Nat /\ base \in Nat
           /\ arg \in Items \cup {NULL} /\ mine \in Items \cup {NULL}
           /\ isrItem \in Items \cup {NULL}
           /\ wTargetTime \in [Items -> 0..Limit-1] /\ wTargetTime \in [Items -> Nat]
           /\ remain \in [Items \cup {NULL} -> -2..MaxDelay]
           /\ Clock \in Nat
BY Numbers DEF TypeOK, Clock

(* TypeOK, split: the data, the numbers, the control state. *)
DataTypes ==
    /\ cfg \in Configs /\ pool \subseteq Items
    /\ tPriority \in [Items -> Priorities] /\ wTargetTime \in [Items -> 0..Limit-1]
    /\ ptHighPriorityDelayList \in Seq(Items) /\ ptDelayList \in Seq(Items)
    /\ events \in [{"LOW", "NORMAL"} -> Seq(Items)]
    /\ remain \in [Items \cup {NULL} -> -2..MaxDelay]

NumberTypes ==
    /\ wCounter \in 0..Limit-1 /\ wSavedCounter \in 0..Limit-1
    /\ base \in 0..Limit-1 /\ tCount \in 0..Limit-1

ControlTypes ==
    /\ chState \in {"START", "CHECK_LIST", "RAISE_NORMAL", "RAISE_LOW"}
    /\ pc \in {"idle", "handler", "new", "add", "cancelHigh", "cancelNormal",
               "cancelled", "save", "check", "pop", "raise"}
    /\ caller \in {"idle", "handler"} /\ isr \in {"off", "check", "handler"}
    /\ arg \in Items \cup {NULL} /\ mine \in Items \cup {NULL}
    /\ isrItem \in Items \cup {NULL}
    /\ arg # NULL <=> pc \in {"add", "cancelHigh", "cancelNormal", "cancelled"}
    /\ pc = "handler" => mine # NULL
    /\ isrItem # NULL <=> isr = "handler"
    /\ stale \in BOOLEAN

(* The parts make up TypeOK, before a step and after it. *)
LEMMA InParts ==
    /\ TypeOK <=> DataTypes /\ NumberTypes /\ ControlTypes
    /\ TypeOK' <=> DataTypes' /\ NumberTypes' /\ ControlTypes'
<1>1. TypeOK <=> DataTypes /\ NumberTypes /\ ControlTypes
    BY DEF TypeOK, DataTypes, NumberTypes, ControlTypes
<1> QED
    BY <1>1, PTL

(* request_delay reads the counter. *)
LEMMA RequestStep ==
    ASSUME Inv, NEW p \in cfg.Uses, NEW d \in Delays, Request(p, d)
    PROVE  Inv'
<1>1. TypeOK /\ Flow
    BY DEF Inv
<1>2. PICK w : Known(w)
    BY DEF Inv
<1>3. p \in Priorities
    BY <1>1, ConfigsAssumption DEF TypeOK
<1>4. isr = "off" /\ pc \in {"idle", "handler"} /\ wCounter + d < Limit
    BY DEF Request, MayCall, Fits
<1>5. remain' \in [Items \cup {NULL} -> -2..MaxDelay]
    BY <1>1, Types, Numbers DEF Request, Remain, Forgotten
<1>6. TypeOK'
    BY <1>1, <1>4, <1>5, Types DEF TypeOK, Request, fields, lists, counters, tick
<1>7. Flow'
    BY <1>1, <1>3, <1>4 DEF Flow, Request, lists, counters, tick, Calls
<1>8. Where(w)'
    BY <1>2, <1>4 DEF Known, Where, Request, fields, lists, counters, tick
<1>9. ~stale => Timed(w)'
    <2> SUFFICES ASSUME ~stale PROVE Timed(w)'
        OBVIOUS
    <2>1. Timed(w)
        BY <1>2 DEF Known
    <2>2. /\ remain'[NULL] = d /\ \A s \in Items : remain'[s] = remain[s]
        BY <1>1, Types, Numbers DEF Request, Remain
    <2>3. Clock' = Clock /\ Clock = wCounter
        BY <1>1, <1>4, Types DEF Clock, Request, counters, tick
    <2>4. Aged(d, wCounter + d, wCounter)
        BY <1>1, Types, Numbers DEF Aged
    <2>5. base' = wCounter /\ ask'[2] = d
        BY DEF Request
    <2>6. Aged(remain'[NULL], base' + ask'[2], Clock')
        BY <2>2, <2>3, <2>4, <2>5
    <2>7. \A s \in Items : w[s] \in {InHigh, InDelay} => Aged(remain'[s], wTargetTime'[s], Clock')
        BY <2>1, <2>2, <2>3 DEF Timed, Request, fields
    <2> QED
        BY <2>1, <2>2, <2>6, <2>7 DEF Timed, Request, counters
<1> QED
    BY <1>6, <1>7, <1>8, <1>9 DEF Inv, Known, Request

(* An item that comes from no list and goes to none leaves the lists as    *)
(* they are, whatever becomes of its time.                                 *)
LEMMA QueuedKept ==
    ASSUME NEW h, NEW d, NEW e, NEW w \in [Items -> 1..8], NEW time,
           Queued(h, d, e, w, time),
           NEW s \in Items, w[s] \in {1, 6, 7, 8}, NEW q \in {1, 6, 7, 8},
           NEW time2, \A t \in Items \ {s} : time2[t] = time[t]
    PROVE  Queued(h, d, e, Put(w, s, q), time2)
<1>1. PICK w2 : w2 = Put(w, s, q)
    OBVIOUS
<1>2. q \in 1..8
    OBVIOUS
<1>3. Holds(h, w2, 2) /\ Holds(d, w2, 3)
    BY <1>1, <1>2, Keep DEF Queued
<1>4. Holds(e["LOW"], w2, 4) /\ Holds(e["NORMAL"], w2, 5)
    BY <1>1, <1>2, Keep DEF Queued
<1>5. \A t \in Items : w[t] \in {2, 3} => time2[t] = time[t]
    OBVIOUS
<1>6. InOrder(h, time2)
    BY <1>5, OrderKept DEF Queued
<1>7. InOrder(d, time2)
    BY <1>5, OrderKept DEF Queued
<1> QED
    BY <1>1, <1>3, <1>4, <1>6, <1>7 DEF Queued

(* What w says of one item changes. *)
LEMMA Moves ==
    ASSUME NEW w \in [Items -> 1..8], NEW s \in Items, NEW q \in 1..8
    PROVE  /\ Put(w, s, q) \in [Items -> 1..8] /\ Put(w, s, q)[s] = q
           /\ \A t \in Items : t # s => Put(w, s, q)[t] = w[t]
BY DEF Put

(* An item is free, if it is in the pool, and so on. *)
LEMMA Placed ==
    ASSUME NEW w, Where(w), TypeOK
    PROVE  /\ w \in [Items -> 1..8] /\ pool \subseteq Items
           /\ \A s \in pool : w[s] = 1
           /\ mine # NULL => mine \in Items /\ w[mine] = 6
           /\ isrItem # NULL => isrItem \in Items /\ w[isrItem] = 7
           /\ pc \in {"add", "cancelled"} => arg \in Items /\ arg # NULL /\ w[arg] = 8
<1>1. pool \subseteq Items
    BY DEF TypeOK
<1>2. pc \in {"add", "cancelled"} => arg # NULL
    BY DEF TypeOK
<1> QED
    BY <1>1, <1>2, Types DEF Where

(* new_item, and the fields of the new item. *)
LEMMA NewItemStep ==
    ASSUME Inv, NewItem
    PROVE  Inv'
<1>1. TypeOK /\ Flow
    BY DEF Inv
<1>2. PICK w : Known(w)
    BY DEF Inv
<1>3. PICK s \in pool :
          /\ pool' = pool \ {s} /\ arg' = s
          /\ tPriority' = [tPriority EXCEPT ![s] = ask[1]]
          /\ wTargetTime' = [wTargetTime EXCEPT ![s] = (base + ask[2]) % Limit]
          /\ Remain([remain EXCEPT ![s] = remain[NULL], ![NULL] = -2])
    BY DEF NewItem
<1>4. pc = "new" /\ pc' = "add" /\ isr = "off" /\ isr' = "off" /\ isrItem' = isrItem
    BY DEF NewItem, Main, tick
<1>5. s \in Items /\ w[s] = 1 /\ w \in [Items -> 1..8] /\ s # NULL
    BY <1>1, <1>2, Placed, Numbers DEF Known
<1>6. ask \in Priorities \X Delays /\ base + ask[2] < Limit /\ ask[1] \in Priorities
        /\ ask[2] \in Nat
    BY <1>1, <1>4, Numbers DEF Flow
<1>7. (base + ask[2]) % Limit = base + ask[2] /\ base + ask[2] \in 0..Limit-1
    BY <1>1, <1>6, Types, Numbers
<1>8. wTargetTime' \in [Items -> 0..Limit-1] /\ wTargetTime'[s] = base + ask[2]
        /\ \A t \in Items \ {s} : wTargetTime'[t] = wTargetTime[t]
    BY <1>1, <1>3, <1>5, <1>7, Types
<1>9. remain' \in [Items \cup {NULL} -> -2..MaxDelay]
    BY <1>1, <1>3, <1>5, Types, Numbers DEF Remain, Forgotten
<1>10. TypeOK'
    <2>1. tPriority' \in [Items -> Priorities] /\ pool' \subseteq Items
        BY <1>1, <1>3, <1>6 DEF TypeOK
    <2>2. {arg', mine', isrItem'} \subseteq Items \cup {NULL}
        BY <1>1, <1>3, <1>5, Types DEF NewItem, tick
    <2>3. {wCounter', wSavedCounter', base', tCount'} \subseteq 0..Limit-1
        BY <1>1, Types, Numbers DEF NewItem, counters
    <2> QED
        BY <1>1, <1>3, <1>4, <1>5, <1>8, <1>9, <2>1, <2>2, <2>3 DEF TypeOK, NewItem, lists, tick
<1>11. Flow'
    BY <1>1, <1>4 DEF Flow, NewItem, lists, counters, tick, Calls
<1>12. PICK w2 : w2 = Put(w, s, 8)
    OBVIOUS
<1>13. w2 \in [Items -> 1..8] /\ w2[s] = 8 /\ \A t \in Items : t # s => w2[t] = w[t]
    BY <1>5, <1>12, Moves
<1>14. Where(w2)'
    <2>1. Queued(ptHighPriorityDelayList, ptDelayList, events, w2, wTargetTime')
        <3>1. Queued(ptHighPriorityDelayList, ptDelayList, events, w, wTargetTime)
            BY <1>2 DEF Known, Where
        <3>2. w[s] \in {1, 6, 7, 8} /\ 8 \in {1, 6, 7, 8}
            BY <1>5
        <3> QED
            BY <3>1, <3>2, <1>5, <1>8, <1>12, QueuedKept
    <2>2. \A t \in Items : w2[t] = 1 <=> t \in pool'
        BY <1>2, <1>3, <1>5, <1>13 DEF Known, Where
    <2>3. \A t \in Items : w2[t] = 6 <=> t = mine'
        BY <1>2, <1>5, <1>13 DEF Known, Where, NewItem
    <2>4. \A t \in Items : w2[t] = 7 <=> t = isrItem'
        BY <1>2, <1>4, <1>5, <1>13 DEF Known, Where
    <2>5. \A t \in Items : w2[t] = 8 <=> (t = arg' /\ pc' \in {"add", "cancelled"})
        BY <1>2, <1>3, <1>4, <1>5, <1>13 DEF Known, Where
    <2> QED
        BY <1>13, <2>1, <2>2, <2>3, <2>4, <2>5 DEF Where, NewItem, lists
<1>15. ~stale => Timed(w2)'
    <2> SUFFICES ASSUME ~stale PROVE Timed(w2)'
        OBVIOUS
    <2>1. Timed(w)
        BY <1>2 DEF Known
    <2>2. remain'[s] = remain[NULL] /\ \A t \in Items : t # s => remain'[t] = remain[t]
        BY <1>1, <1>3, <1>5, Types, Numbers DEF Remain
    <2>3. Clock' = Clock /\ wCounter' = wCounter /\ wSavedCounter' = wSavedCounter
        BY <1>4 DEF Clock, NewItem, counters
    <2>4. Aged(remain'[s], wTargetTime'[s], Clock')
        BY <1>4, <1>8, <2>1, <2>2, <2>3 DEF Timed
    <2>5. ASSUME NEW t \in Items, t # s, w2[t] \in {2, 3} \/ (pc' = "add" /\ t = arg')
          PROVE  Aged(remain'[t], wTargetTime'[t], Clock')
        BY <1>3, <1>8, <1>13, <2>1, <2>2, <2>3, <2>5 DEF Timed
    <2>6. \A t \in Items : w2[t] \in {4, 5, 6, 7} => remain'[t] <= 0
        BY <1>13, <2>1, <2>2 DEF Timed
    <2> QED
        BY <1>4, <2>1, <2>3, <2>4, <2>5, <2>6 DEF Timed
<1> QED
    BY <1>10, <1>11, <1>14, <1>15 DEF Inv, Known, NewItem

(* No item is free. *)
LEMMA NoItemStep ==
    ASSUME Inv, NoItem
    PROVE  Inv'
<1>1. TypeOK /\ Flow
    BY DEF Inv
<1>2. PICK w : Known(w)
    BY DEF Inv
<1>3. /\ pc = "new" /\ pc' = caller /\ pc' \in {"idle", "handler"} /\ caller' = "idle"
      /\ isr = "off" /\ isr' = "off" /\ isrItem' = isrItem
    BY <1>1 DEF NoItem, Main, tick, Return, TypeOK
<1>4. remain' \in [Items \cup {NULL} -> -2..MaxDelay]
    BY <1>1, Types, Numbers DEF NoItem, Remain, Forgotten
<1>5. TypeOK'
    <2>1. DataTypes'
        BY <1>1, <1>4, InParts DEF DataTypes, NoItem, fields, lists
    <2>2. NumberTypes'
        BY <1>1, InParts, Numbers DEF NumberTypes, NoItem, counters
    <2>3. ControlTypes'
        BY <1>1, <1>3, InParts DEF ControlTypes, NoItem, Flow
    <2> QED
        BY <2>1, <2>2, <2>3, InParts
<1>6. Flow'
    BY <1>1, <1>3 DEF Flow, NoItem, lists, counters, tick, Calls
<1>7. Where(w)'
    BY <1>2, <1>3 DEF Known, Where, NoItem, fields, lists
<1>8. ~stale => Timed(w)'
    <2> SUFFICES ASSUME ~stale PROVE Timed(w)'
        OBVIOUS
    <2>1. Timed(w)
        BY <1>2 DEF Known
    <2>2. \A s \in Items : remain'[s] = remain[s]
        BY <1>1, Types, Numbers DEF NoItem, Remain
    <2>3. Clock' = Clock
        BY <1>3 DEF Clock, NoItem, counters
    <2> QED
        BY <1>3, <2>1, <2>2, <2>3 DEF Timed, NoItem, fields, counters
<1> QED
    BY <1>5, <1>6, <1>7, <1>8 DEF Inv, Known, NoItem

(* An item is put on the list of its priority, in its place. *)
LEMMA EnlistStep ==
    ASSUME TypeOK, NEW w, Where(w), NEW s \in Items, w[s] \notin {2, 3, 4, 5},
           NEW p, NEW time \in Nat, Enlist(s, p, time), UNCHANGED events,
           NEW time2, time2[s] = time, \A t \in Items \ {s} : time2[t] = wTargetTime[t]
    PROVE  \E q \in {2, 3} :
              /\ Queued(ptHighPriorityDelayList', ptDelayList', events', Put(w, s, q), time2)
              /\ q = 2 => ptDelayList' = ptDelayList
              /\ q = 3 => /\ ptDelayList' # <<>>
                          /\ ptDelayList # <<>> /\ wTargetTime[Head(ptDelayList)] < time
                                => Head(ptDelayList') = Head(ptDelayList)
<1>1. /\ Holds(ptHighPriorityDelayList, w, 2) /\ Holds(ptDelayList, w, 3)
      /\ Holds(events["LOW"], w, 4) /\ Holds(events["NORMAL"], w, 5)
      /\ InOrder(ptHighPriorityDelayList, wTargetTime) /\ InOrder(ptDelayList, wTargetTime)
      /\ w \in [Items -> 1..8] /\ wTargetTime \in [Items -> Nat]
    BY Types DEF Where, Queued
<1>2. w[s] # 2 /\ w[s] # 3 /\ w[s] # 4 /\ w[s] # 5 /\ events' = events
    OBVIOUS
<1>3. ASSUME NEW q \in {2, 3} PROVE Holds(events["LOW"], Put(w, s, q), 4)
    BY <1>1, <1>2, Keep
<1>4. ASSUME NEW q \in {2, 3} PROVE Holds(events["NORMAL"], Put(w, s, q), 5)
    BY <1>1, <1>2, Keep
<1>5. \A t \in Items : w[t] \in {2, 3} => time2[t] = wTargetTime[t]
    BY <1>2
<1>6. CASE p = "HIGH"
    <2>1. ptHighPriorityDelayList' = Sorted(ptHighPriorityDelayList, s, time)
            /\ ptDelayList' = ptDelayList
        BY <1>6 DEF Enlist
    <2>2. Holds(ptHighPriorityDelayList', Put(w, s, 2), 2)
            /\ InOrder(ptHighPriorityDelayList', time2)
        BY <1>1, <1>2, <2>1, SortedIn
    <2>3. Holds(ptDelayList, Put(w, s, 2), 3)
        BY <1>1, <1>2, Keep
    <2>4. InOrder(ptDelayList, time2)
        BY <1>1, <1>5, OrderKept
    <2>5. Queued(ptHighPriorityDelayList', ptDelayList', events', Put(w, s, 2), time2)
        BY <1>2, <1>3, <1>4, <2>1, <2>2, <2>3, <2>4 DEF Queued
    <2> QED
        BY <2>1, <2>5
<1>7. CASE p # "HIGH"
    <2>1. ptDelayList' = Sorted(ptDelayList, s, time)
            /\ ptHighPriorityDelayList' = ptHighPriorityDelayList
        BY <1>7 DEF Enlist
    <2>2. /\ Holds(ptDelayList', Put(w, s, 3), 3) /\ InOrder(ptDelayList', time2)
          /\ ptDelayList' # <<>>
          /\ ptDelayList # <<>> /\ wTargetTime[Head(ptDelayList)] < time
                => Head(ptDelayList') = Head(ptDelayList)
        BY <1>1, <1>2, <2>1, SortedIn
    <2>3. Holds(ptHighPriorityDelayList, Put(w, s, 3), 2)
        BY <1>1, <1>2, Keep
    <2>4. InOrder(ptHighPriorityDelayList, time2)
        BY <1>1, <1>5, OrderKept
    <2>5. Queued(ptHighPriorityDelayList', ptDelayList', events', Put(w, s, 3), time2)
        BY <1>2, <1>3, <1>4, <2>1, <2>2, <2>3, <2>4 DEF Queued
    <2> QED
        BY <2>2, <2>5
<1> QED
    BY <1>6, <1>7

(* What is queued are sequences of items. *)
LEMMA QueuedTypes ==
    ASSUME NEW h, NEW d, NEW e, NEW w, NEW time, Queued(h, d, e, w, time)
    PROVE  /\ h \in Seq(Items) /\ d \in Seq(Items)
           /\ e["LOW"] \in Seq(Items) /\ e["NORMAL"] \in Seq(Items)
BY DEF Queued, Holds

(* add_to_delay_list *)
LEMMA AddItemStep ==
    ASSUME Inv, AddItem
    PROVE  Inv'
<1>1. TypeOK /\ Flow
    BY DEF Inv
<1>2. PICK w : Known(w)
    BY DEF Inv
<1>3. /\ pc = "add" /\ pc' = caller /\ pc' \in {"idle", "handler"} /\ caller' = "idle"
      /\ isr = "off" /\ isr' = "off" /\ isrItem' = isrItem
    BY <1>1 DEF AddItem, Main, tick, Return, TypeOK
<1>4. PICK s : s = arg
    OBVIOUS
<1>5. s \in Items /\ w[s] = 8 /\ w \in [Items -> 1..8] /\ s # NULL
    BY <1>1, <1>2, <1>3, <1>4, Placed DEF Known
<1>6. wTargetTime[s] \in Nat
    BY <1>1, <1>5, Types
<1>7. PICK q \in {2, 3} :
          Queued(ptHighPriorityDelayList', ptDelayList', events', Put(w, s, q), wTargetTime)
    <2>1. Enlist(s, tPriority[s], wTargetTime[s]) /\ UNCHANGED events
        BY <1>4 DEF AddItem
    <2>2. w[s] \notin {2, 3, 4, 5} /\ Where(w)
        BY <1>2, <1>5 DEF Known
    <2> QED
        BY <1>1, <1>5, <1>6, <2>1, <2>2, EnlistStep
<1>8. wTargetTime' = wTargetTime /\ pool' = pool /\ mine' = mine /\ arg' = NULL /\ remain' = remain
    BY DEF AddItem, fields
<1>9. TypeOK'
    <2>1. ptHighPriorityDelayList' \in Seq(Items) /\ ptDelayList' \in Seq(Items)
        BY <1>7, QueuedTypes
    <2>2. DataTypes'
        BY <1>1, <2>1, InParts DEF DataTypes, AddItem, fields
    <2>3. NumberTypes'
        BY <1>1, InParts, Numbers DEF NumberTypes, AddItem, counters
    <2>4. ControlTypes'
        BY <1>1, <1>3, InParts DEF ControlTypes, AddItem, Flow
    <2> QED
        BY <2>2, <2>3, <2>4, InParts
<1>10. Flow'
    BY <1>1, <1>3 DEF Flow, AddItem, counters, Calls
<1>11. PICK w2 : w2 = Put(w, s, q)
    OBVIOUS
<1>12. w2 \in [Items -> 1..8] /\ w2[s] = q /\ \A t \in Items : t # s => w2[t] = w[t]
    <2>1. q \in 1..8
        OBVIOUS
    <2> QED
        BY <2>1, <1>5, <1>11, Moves
<1>13. Where(w2)'
    <2>1. Queued(ptHighPriorityDelayList', ptDelayList', events', w2, wTargetTime')
        BY <1>7, <1>8, <1>11
    <2>2. \A t \in Items : w2[t] = 1 <=> t \in pool'
        BY <1>2, <1>5, <1>8, <1>12 DEF Known, Where
    <2>3. \A t \in Items : w2[t] = 6 <=> t = mine'
        BY <1>2, <1>5, <1>8, <1>12 DEF Known, Where
    <2>4. \A t \in Items : w2[t] = 7 <=> t = isrItem'
        BY <1>2, <1>3, <1>5, <1>12 DEF Known, Where
    <2>5. \A t \in Items : w2[t] = 8 <=> (t = arg' /\ pc' \in {"add", "cancelled"})
        BY <1>2, <1>3, <1>4, <1>5, <1>12 DEF Known, Where
    <2> QED
        BY <1>12, <2>1, <2>2, <2>3, <2>4, <2>5 DEF Where
<1>14. ~stale => Timed(w2)'
    <2> SUFFICES ASSUME ~stale PROVE Timed(w2)'
        OBVIOUS
    <2>1. Timed(w)
        BY <1>2 DEF Known
    <2>2. Clock' = Clock /\ wCounter' = wCounter /\ wSavedCounter' = wSavedCounter
        BY <1>3 DEF Clock, AddItem, counters
    <2>3. ASSUME NEW t \in Items, w2[t] \in {2, 3}
          PROVE  Aged(remain'[t], wTargetTime'[t], Clock')
        BY <1>3, <1>4, <1>8, <1>12, <2>1, <2>2, <2>3 DEF Timed
    <2>4. \A t \in Items : w2[t] \in {4, 5, 6, 7} => remain'[t] <= 0
        BY <1>8, <1>12, <2>1 DEF Timed
    <2> QED
        BY <1>3, <2>1, <2>2, <2>3, <2>4 DEF Timed
<1> QED
    BY <1>9, <1>10, <1>13, <1>14 DEF Inv, Known, AddItem

(* What becomes of the fields of an item that is freed, and of the others. *)
Freed(w, s, w2) ==
    /\ pool' = pool \cup {s} /\ pool' \subseteq Items
    /\ tPriority' \in [Items -> Priorities] /\ wTargetTime' \in [Items -> 0..Limit-1]
    /\ \A t \in Items \ {s} : wTargetTime'[t] = wTargetTime[t]
    /\ remain' \in [Items \cup {NULL} -> -2..MaxDelay]
    /\ ~stale => \A t \in Items \ {s} : remain'[t] = remain[t]
    /\ Queued(ptHighPriorityDelayList', ptDelayList', events', w2, wTargetTime')
    /\ w2 \in [Items -> 1..8] /\ w2[s] = 1
    /\ \A t \in Items \ {s} : w2[t] = w[t]

(* An item is freed. *)
LEMMA FreeStep ==
    ASSUME TypeOK, NEW w, Where(w), NEW s \in Items, w[s] \in {6, 7, 8}, Free(s),
           UNCHANGED <<lists, events>>, NEW w2, w2 = Put(w, s, 1)
    PROVE  Freed(w, s, w2)
<1>1. pool' = pool \cup {s} /\ pool' \subseteq Items
    BY DEF Free, TypeOK
<1>2. tPriority' \in [Items -> Priorities] /\ wTargetTime' \in [Items -> 0..Limit-1]
    BY Numbers DEF Free, TypeOK, Priorities
<1>3. \A t \in Items \ {s} : wTargetTime'[t] = wTargetTime[t]
    BY Types DEF Free
<1>4. remain' \in [Items \cup {NULL} -> -2..MaxDelay]
    BY Types, Numbers DEF Free, Remain, Forgotten
<1>5. ~stale => \A t \in Items \ {s} : remain'[t] = remain[t]
    BY Types, Numbers DEF Free, Remain
<1>6. w \in [Items -> 1..8] /\ 1 \in 1..8
    BY DEF Where
<1>7. Queued(ptHighPriorityDelayList, ptDelayList, events, w2, wTargetTime')
    <2>1. Queued(ptHighPriorityDelayList, ptDelayList, events, w, wTargetTime)
        BY DEF Where
    <2>2. w[s] \in {1, 6, 7, 8} /\ 1 \in {1, 6, 7, 8}
        OBVIOUS
    <2> QED
        BY <2>1, <2>2, <1>3, <1>6, QueuedKept
<1>8. w2 \in [Items -> 1..8] /\ w2[s] = 1 /\ \A t \in Items \ {s} : w2[t] = w[t]
    BY <1>6, Moves
<1>9. Queued(ptHighPriorityDelayList', ptDelayList', events', w2, wTargetTime')
    BY <1>7 DEF lists
<1> QED
    BY <1>1, <1>2, <1>3, <1>4, <1>5, <1>8, <1>9 DEF Freed


--------------------------------------------------------------------------------
(* The steps of a cancel.                                                  *)

(* An item that is taken off a delay list is with the main thread. *)
LEMMA Taken ==
    ASSUME NEW h, NEW d, NEW e, NEW w \in [Items -> 1..8], NEW time,
           Queued(h, d, e, w, time), NEW s \in Items
    PROVE  /\ Contains(h, s) <=> w[s] = 2
           /\ Contains(d, s) <=> w[s] = 3
           /\ w[s] # 2 => RemoveFirst(h, s) = h
           /\ w[s] # 3 => RemoveFirst(d, s) = d
           /\ w[s] = 2 => Queued(RemoveFirst(h, s), d, e, Put(w, s, 8), time)
           /\ w[s] = 3 => Queued(h, RemoveFirst(d, s), e, Put(w, s, 8), time)
<1>1. Holds(h, w, 2) /\ Holds(d, w, 3) /\ Holds(e["LOW"], w, 4) /\ Holds(e["NORMAL"], w, 5)
        /\ InOrder(h, time) /\ InOrder(d, time) /\ h \in Seq(Items) /\ d \in Seq(Items)
    BY QueuedTypes DEF Queued
<1>2. /\ Contains(h, s) <=> w[s] = 2
      /\ w[s] # 2 => RemoveFirst(h, s) = h
      /\ w[s] = 2 => \E k \in 1..Len(h) : h[k] = s /\ RemoveFirst(h, s) = RemoveAt(h, k)
    BY <1>1, Remove1
<1>3. /\ Contains(d, s) <=> w[s] = 3
      /\ w[s] # 3 => RemoveFirst(d, s) = d
      /\ w[s] = 3 => \E k \in 1..Len(d) : d[k] = s /\ RemoveFirst(d, s) = RemoveAt(d, k)
    BY <1>1, Remove1
<1>4. ASSUME w[s] \in {2, 3}
      PROVE  Holds(e["LOW"], Put(w, s, 8), 4) /\ Holds(e["NORMAL"], Put(w, s, 8), 5)
    <2>1. w[s] # 4 /\ w[s] # 5
        BY <1>4
    <2> QED
        BY <2>1, <1>1, Keep
<1>5. ASSUME w[s] = 2 PROVE Queued(RemoveFirst(h, s), d, e, Put(w, s, 8), time)
    <2>1. PICK k \in 1..Len(h) : h[k] = s /\ RemoveFirst(h, s) = RemoveAt(h, k)
        BY <1>2, <1>5
    <2>2. Holds(RemoveAt(h, k), Put(w, s, 8), 2)
        BY <2>1, <1>1, TakeOut
    <2>3. InOrder(RemoveAt(h, k), time)
        BY <2>1, <1>1, OrderRemove
    <2>4. Holds(d, Put(w, s, 8), 3)
        BY <1>1, <1>5, Keep
    <2> QED
        BY <2>1, <2>2, <2>3, <2>4, <1>1, <1>4, <1>5 DEF Queued
<1>6. ASSUME w[s] = 3 PROVE Queued(h, RemoveFirst(d, s), e, Put(w, s, 8), time)
    <2>1. PICK k \in 1..Len(d) : d[k] = s /\ RemoveFirst(d, s) = RemoveAt(d, k)
        BY <1>3, <1>6
    <2>2. Holds(RemoveAt(d, k), Put(w, s, 8), 3)
        BY <2>1, <1>1, TakeOut
    <2>3. InOrder(RemoveAt(d, k), time)
        BY <2>1, <1>1, OrderRemove
    <2>4. Holds(h, Put(w, s, 8), 2)
        BY <1>1, <1>6, Keep
    <2> QED
        BY <2>1, <2>2, <2>3, <2>4, <1>1, <1>4, <1>6 DEF Queued
<1> QED
    BY <1>2, <1>3, <1>5, <1>6

(* cancel_delay is called. *)
LEMMA CancelStep ==
    ASSUME Inv, NEW s \in Items, Cancel(s)
    PROVE  Inv'
<1>1. TypeOK /\ Flow
    BY DEF Inv
<1>2. PICK w : Known(w)
    BY DEF Inv
<1>3. /\ isr = "off" /\ isr' = "off" /\ isrItem' = isrItem /\ pc \in {"idle", "handler"}
      /\ arg' = s /\ caller' = pc /\ pc' \in {"cancelHigh", "cancelNormal"}
    BY DEF Cancel, MayCall, tick
<1>4. TypeOK'
    <2>1. DataTypes'
        BY <1>1, InParts DEF DataTypes, Cancel, fields, lists
    <2>2. NumberTypes'
        BY <1>1, InParts, Numbers DEF NumberTypes, Cancel, counters
    <2>3. ControlTypes'
        BY <1>1, <1>3, InParts, Numbers DEF ControlTypes, Cancel
    <2> QED
        BY <2>1, <2>2, <2>3, InParts
<1>5. Flow'
    BY <1>1, <1>3 DEF Flow, Cancel, lists, counters, Calls
<1>6. Where(w)'
    BY <1>2, <1>3 DEF Known, Where, Cancel, fields, lists
<1>7. ~stale => Timed(w)'
    <2>1. Clock' = Clock
        BY <1>3 DEF Clock, Cancel, counters
    <2> QED
        BY <1>2, <1>3, <2>1 DEF Known, Timed, Cancel, fields, counters
<1> QED
    BY <1>4, <1>5, <1>6, <1>7 DEF Inv, Known, Cancel

(* What a step keeps of the order of time, when only the main thread has   *)
(* moved, to none of the steps that have a part in it.                     *)
LEMMA TimeKept ==
    ASSUME NEW w, Timed(w), NEW w2,
           UNCHANGED <<remain, wTargetTime, wCounter, wSavedCounter, isr>>,
           pc' \notin {"new", "add", "save", "pop"},
           \A t \in Items : w2[t] \in {2, 3} => w[t] = w2[t],
           \A t \in Items : w2[t] \in {4, 5, 6, 7} => w[t] \in {4, 5, 6, 7}
    PROVE  Timed(w2)'
<1>1. Clock' = Clock
    BY DEF Clock
<1>2. \A s \in Items : w2[s] \in {2, 3} => Aged(remain'[s], wTargetTime'[s], Clock')
    BY <1>1 DEF Timed
<1>3. \A s \in Items : w2[s] \in {4, 5, 6, 7} => remain'[s] <= 0
    BY DEF Timed
<1> QED
    BY <1>2, <1>3 DEF Timed

(* remove_from_delay_list, from the list of high priority. *)
LEMMA CancelHighStep ==
    ASSUME Inv, CancelHigh
    PROVE  Inv'
<1>1. TypeOK /\ Flow
    BY DEF Inv
<1>2. PICK w : Known(w)
    BY DEF Inv
<1>3. /\ pc = "cancelHigh" /\ pc' \in {"cancelled", "cancelNormal"}
      /\ isr = "off" /\ isr' = "off" /\ isrItem' = isrItem
    BY DEF CancelHigh, Main, tick
<1>4. PICK s \in Items : s = arg /\ s # NULL /\ arg' = s
    BY <1>1, <1>3, InParts, Numbers DEF ControlTypes, CancelHigh
<1>5. w \in [Items -> 1..8]
        /\ Queued(ptHighPriorityDelayList, ptDelayList, events, w, wTargetTime)
    BY <1>2 DEF Known, Where
<1>6. /\ Contains(ptHighPriorityDelayList, s) <=> w[s] = 2
      /\ w[s] # 2 => RemoveFirst(ptHighPriorityDelayList, s) = ptHighPriorityDelayList
      /\ w[s] = 2 => Queued(RemoveFirst(ptHighPriorityDelayList, s), ptDelayList, events,
                            Put(w, s, 8), wTargetTime)
    BY <1>5, Taken
<1>7. PICK w2 : w2 = IF w[s] = 2 THEN Put(w, s, 8) ELSE w
    OBVIOUS
<1>8. /\ w2 \in [Items -> 1..8] /\ \A t \in Items : t # s => w2[t] = w[t]
      /\ w[s] = 2 => w2[s] = 8
      /\ w[s] # 2 => w2 = w
    BY <1>5, <1>7, Moves
<1>9. Queued(ptHighPriorityDelayList', ptDelayList, events, w2, wTargetTime)
    BY <1>4, <1>5, <1>6, <1>7 DEF CancelHigh
<1>10. pc' = IF w[s] = 2 THEN "cancelled" ELSE "cancelNormal"
    BY <1>4, <1>6 DEF CancelHigh
<1>11. TypeOK'
    <2>1. DataTypes'
        BY <1>1, <1>9, InParts, QueuedTypes DEF DataTypes, CancelHigh, fields
    <2>2. tCount' \in 0..Limit-1
        BY <1>1, Types, Numbers DEF CancelHigh
    <2>3. NumberTypes'
        BY <1>1, <2>2, InParts DEF NumberTypes, CancelHigh, counters
    <2>4. ControlTypes'
        BY <1>1, <1>3, <1>4, InParts DEF ControlTypes, CancelHigh
    <2> QED
        BY <2>1, <2>3, <2>4, InParts
<1>12. Flow'
    BY <1>1, <1>3 DEF Flow, CancelHigh, counters, tick, Calls
<1>13. Where(w2)'
    <2>1. \A t \in Items : w2[t] = 1 <=> t \in pool'
        BY <1>2, <1>8 DEF Known, Where, CancelHigh
    <2>2. \A t \in Items : w2[t] = 6 <=> t = mine'
        BY <1>2, <1>8 DEF Known, Where, CancelHigh
    <2>3. \A t \in Items : w2[t] = 7 <=> t = isrItem'
        BY <1>2, <1>3, <1>8 DEF Known, Where
    <2>4. \A t \in Items : w2[t] = 8 <=> (t = arg' /\ pc' \in {"add", "cancelled"})
        BY <1>2, <1>3, <1>4, <1>8, <1>10 DEF Known, Where
    <2> QED
        BY <1>8, <1>9, <2>1, <2>2, <2>3, <2>4 DEF Where, CancelHigh, fields
<1>14. ~stale => Timed(w2)'
    <2>1. ~stale => Timed(w)
        BY <1>2 DEF Known
    <2>2. \A t \in Items : w2[t] \in {2, 3} => w[t] = w2[t]
        BY <1>8
    <2>3. \A t \in Items : w2[t] \in {4, 5, 6, 7} => w[t] \in {4, 5, 6, 7}
        BY <1>8
    <2>4. UNCHANGED <<remain, wTargetTime, wCounter, wSavedCounter, isr>>
            /\ pc' \notin {"new", "add", "save", "pop"}
        BY <1>3 DEF CancelHigh, fields, counters
    <2> QED
        BY <2>1, <2>2, <2>3, <2>4, TimeKept
<1> QED
    BY <1>11, <1>12, <1>13, <1>14 DEF Inv, Known, CancelHigh

(* remove_from_delay_list, from the other list. *)
LEMMA CancelNormalStep ==
    ASSUME Inv, CancelNormal
    PROVE  Inv'
<1>1. TypeOK /\ Flow
    BY DEF Inv
<1>2. PICK w : Known(w)
    BY DEF Inv
<1>3. pc = "cancelNormal" /\ isr = "off" /\ isr' = "off" /\ isrItem' = isrItem
    BY DEF CancelNormal, Main, tick
<1>4. PICK s \in Items : s = arg /\ s # NULL
    BY <1>1, <1>3, InParts, Numbers DEF ControlTypes
<1>5. w \in [Items -> 1..8]
        /\ Queued(ptHighPriorityDelayList, ptDelayList, events, w, wTargetTime)
    BY <1>2 DEF Known, Where
<1>6. /\ Contains(ptDelayList, s) <=> w[s] = 3
      /\ w[s] # 3 => RemoveFirst(ptDelayList, s) = ptDelayList
      /\ w[s] = 3 => Queued(ptHighPriorityDelayList, RemoveFirst(ptDelayList, s), events,
                            Put(w, s, 8), wTargetTime)
    BY <1>5, Taken
<1>7. PICK w2 : w2 = IF w[s] = 3 THEN Put(w, s, 8) ELSE w
    OBVIOUS
<1>8. /\ w2 \in [Items -> 1..8] /\ \A t \in Items : t # s => w2[t] = w[t]
      /\ w[s] = 3 => w2[s] = 8
      /\ w[s] # 3 => w2 = w
    BY <1>5, <1>7, Moves
<1>9. Queued(ptHighPriorityDelayList, ptDelayList', events, w2, wTargetTime)
    BY <1>4, <1>5, <1>6, <1>7 DEF CancelNormal
<1>10. /\ w[s] = 3 => pc' = "cancelled" /\ arg' = s /\ caller' = caller
       /\ w[s] # 3 => \/ pc' = caller /\ caller' = "idle" /\ arg' = NULL
                      \/ pc' = "cancelHigh" /\ arg' = s /\ caller' = caller
    BY <1>4, <1>6 DEF CancelNormal, NotFound, Return
<1>11. TypeOK'
    <2>1. DataTypes'
        BY <1>1, <1>9, InParts, QueuedTypes DEF DataTypes, CancelNormal, fields
    <2>2. tCount' \in 0..Limit-1
        BY <1>1, Types, Numbers DEF CancelNormal, NotFound
    <2>3. NumberTypes'
        BY <1>1, <2>2, InParts DEF NumberTypes, CancelNormal, counters
    <2>4. ControlTypes'
        BY <1>1, <1>3, <1>4, <1>10, InParts DEF ControlTypes, CancelNormal, Flow
    <2> QED
        BY <2>1, <2>3, <2>4, InParts
<1>12. caller \in {"idle", "handler"}
    BY <1>1, InParts DEF ControlTypes
<1>13. Flow'
    BY <1>1, <1>3, <1>10, <1>12 DEF Flow, CancelNormal, counters, tick, Calls
<1>14. Where(w2)'
    <2>1. \A t \in Items : w2[t] = 1 <=> t \in pool'
        BY <1>2, <1>8 DEF Known, Where, CancelNormal
    <2>2. \A t \in Items : w2[t] = 6 <=> t = mine'
        BY <1>2, <1>8 DEF Known, Where, CancelNormal
    <2>3. \A t \in Items : w2[t] = 7 <=> t = isrItem'
        BY <1>2, <1>3, <1>8 DEF Known, Where
    <2>4. \A t \in Items : w2[t] = 8 <=> (t = arg' /\ pc' \in {"add", "cancelled"})
        BY <1>2, <1>3, <1>4, <1>8, <1>10, <1>12 DEF Known, Where
    <2> QED
        BY <1>8, <1>9, <2>1, <2>2, <2>3, <2>4 DEF Where, CancelNormal, fields
<1>15. ~stale => Timed(w2)'
    <2>1. ~stale => Timed(w)
        BY <1>2 DEF Known
    <2>2. \A t \in Items : w2[t] \in {2, 3} => w[t] = w2[t]
        BY <1>8
    <2>3. \A t \in Items : w2[t] \in {4, 5, 6, 7} => w[t] \in {4, 5, 6, 7}
        BY <1>8
    <2>4. UNCHANGED <<remain, wTargetTime, wCounter, wSavedCounter, isr>>
            /\ pc' \notin {"new", "add", "save", "pop"}
        BY <1>3, <1>10, <1>12 DEF CancelNormal, fields, counters
    <2> QED
        BY <2>1, <2>2, <2>3, <2>4, TimeKept
<1> QED
    BY <1>11, <1>13, <1>14, <1>15 DEF Inv, Known, CancelNormal

(* The item that was cancelled is freed. *)
LEMMA CancelledStep ==
    ASSUME Inv, Cancelled
    PROVE  Inv'
<1>1. TypeOK /\ Flow
    BY DEF Inv
<1>2. PICK w : Known(w)
    BY DEF Inv
<1>3. /\ pc = "cancelled" /\ pc' = caller /\ pc' \in {"idle", "handler"} /\ caller' = "idle"
      /\ isr = "off" /\ isr' = "off" /\ isrItem' = isrItem /\ arg' = NULL
    BY <1>1 DEF Cancelled, Main, tick, Return, TypeOK
<1>4. PICK s : s = arg
    OBVIOUS
<1>5. s \in Items /\ w[s] = 8 /\ w \in [Items -> 1..8] /\ s # NULL /\ Where(w)
    BY <1>1, <1>2, <1>3, <1>4, Placed DEF Known
<1>6. Free(s) /\ UNCHANGED <<lists, events>>
    BY <1>4 DEF Cancelled
<1>7. PICK w2 : w2 = Put(w, s, 1)
    OBVIOUS
<1>8. /\ pool' = pool \cup {s} /\ pool' \subseteq Items
      /\ tPriority' \in [Items -> Priorities] /\ wTargetTime' \in [Items -> 0..Limit-1]
      /\ \A t \in Items \ {s} : wTargetTime'[t] = wTargetTime[t]
      /\ remain' \in [Items \cup {NULL} -> -2..MaxDelay]
      /\ ~stale => \A t \in Items \ {s} : remain'[t] = remain[t]
      /\ Queued(ptHighPriorityDelayList', ptDelayList', events', w2, wTargetTime')
      /\ w2 \in [Items -> 1..8] /\ w2[s] = 1
      /\ \A t \in Items \ {s} : w2[t] = w[t]
    <2>1. TypeOK /\ Where(w) /\ s \in Items /\ w[s] \in {6, 7, 8}
        BY <1>1, <1>5
    <2>2. Freed(w, s, w2)
        BY <2>1, <1>6, <1>7, FreeStep
    <2> QED
        BY <2>2 DEF Freed
<1>9. TypeOK'
    <2>1. DataTypes'
        BY <1>1, <1>8, InParts DEF DataTypes, Cancelled, lists
    <2>2. NumberTypes'
        BY <1>1, InParts, Numbers DEF NumberTypes, Cancelled, counters
    <2>3. ControlTypes'
        BY <1>1, <1>3, InParts DEF ControlTypes, Cancelled, Flow
    <2> QED
        BY <2>1, <2>2, <2>3, InParts
<1>10. Flow'
    BY <1>1, <1>3 DEF Flow, Cancelled, lists, counters, Calls
<1>11. Where(w2)'
    <2>1. \A t \in Items : w2[t] = 1 <=> t \in pool'
        BY <1>5, <1>8 DEF Where
    <2>2. \A t \in Items : w2[t] = 6 <=> t = mine'
        BY <1>5, <1>8 DEF Where, Cancelled
    <2>3. \A t \in Items : w2[t] = 7 <=> t = isrItem'
        BY <1>3, <1>5, <1>8 DEF Where
    <2>4. \A t \in Items : w2[t] = 8 <=> (t = arg' /\ pc' \in {"add", "cancelled"})
        BY <1>3, <1>4, <1>5, <1>8 DEF Where
    <2> QED
        BY <1>8, <2>1, <2>2, <2>3, <2>4 DEF Where
<1>12. ~stale => Timed(w2)'
    <2> SUFFICES ASSUME ~stale PROVE Timed(w2)'
        OBVIOUS
    <2>1. Timed(w)
        BY <1>2 DEF Known
    <2>2. Clock' = Clock
        BY <1>3 DEF Clock, Cancelled, counters
    <2>3. \A t \in Items : w2[t] \in {2, 3} => Aged(remain'[t], wTargetTime'[t], Clock')
        BY <1>8, <2>1, <2>2 DEF Timed
    <2>4. \A t \in Items : w2[t] \in {4, 5, 6, 7} => remain'[t] <= 0
        BY <1>8, <2>1 DEF Timed
    <2> QED
        BY <1>3, <2>1, <2>3, <2>4 DEF Timed, Cancelled, counters
<1> QED
    BY <1>9, <1>10, <1>11, <1>12 DEF Inv, Known, Cancelled

--------------------------------------------------------------------------------
(* The steps of the task.                                                  *)

(* A step that leaves the items where they are. *)
LEMMA Stays ==
    ASSUME NEW w, Where(w),
           UNCHANGED <<pool, fields, lists, events, mine, isrItem, arg>>,
           pc \notin {"add", "cancelled"}, pc' \notin {"add", "cancelled"}
    PROVE  Where(w)'
BY DEF Where, fields, lists

(* wSavedCounter = wCounter, in two steps. *)
LEMMA LoadStep ==
    ASSUME Inv, LoadCounter
    PROVE  Inv'
<1>1. TypeOK /\ Flow
    BY DEF Inv
<1>2. PICK w : Known(w)
    BY DEF Inv
<1>3. /\ pc = "idle" /\ pc' = "save" /\ chState = "START" /\ base' = wCounter
      /\ isr = "off" /\ isr' = "off" /\ isrItem' = isrItem
    BY DEF LoadCounter, Called, Main, tick
<1>4. TypeOK'
    <2>1. DataTypes'
        BY <1>1, InParts DEF DataTypes, LoadCounter, fields, lists
    <2>2. NumberTypes'
        BY <1>1, <1>3, InParts DEF NumberTypes, LoadCounter, counters
    <2>3. ControlTypes'
        BY <1>1, <1>3, InParts DEF ControlTypes, LoadCounter
    <2> QED
        BY <2>1, <2>2, <2>3, InParts
<1>5. Flow'
    BY <1>1, <1>3 DEF Flow, LoadCounter, lists, counters, Calls
<1>6. Where(w)'
    BY <1>2, <1>3, Stays DEF Known, LoadCounter
<1>7. ~stale => Timed(w)'
    <2>1. Clock' = Clock
        BY <1>3 DEF Clock, LoadCounter, counters
    <2>2. wCounter <= wCounter
        BY <1>1, Types
    <2> QED
        BY <1>2, <1>3, <2>1, <2>2 DEF Known, Timed, LoadCounter, fields, counters
<1> QED
    BY <1>4, <1>5, <1>6, <1>7 DEF Inv, Known, LoadCounter

(* The store of it. *)
LEMMA SaveStep ==
    ASSUME Inv, SaveCounter
    PROVE  Inv'
<1>1. TypeOK /\ Flow
    BY DEF Inv
<1>2. PICK w : Known(w)
    BY DEF Inv
<1>3. /\ pc = "save" /\ pc' = "idle" /\ wSavedCounter' = base /\ base' = 0
      /\ isr = "off" /\ isr' = "off" /\ isrItem' = isrItem /\ chState' = "CHECK_LIST"
    BY DEF SaveCounter, Main, tick
<1>4. TypeOK'
    <2>1. DataTypes'
        BY <1>1, InParts DEF DataTypes, SaveCounter, fields, lists
    <2>2. NumberTypes'
        BY <1>1, <1>3, InParts, Numbers DEF NumberTypes, SaveCounter
    <2>3. ControlTypes'
        BY <1>1, <1>3, InParts DEF ControlTypes, SaveCounter
    <2> QED
        BY <2>1, <2>2, <2>3, InParts
<1>5. Flow'
    BY <1>1, <1>3 DEF Flow, SaveCounter, lists, Calls
<1>6. Where(w)'
    BY <1>2, <1>3, Stays DEF Known, SaveCounter
<1>7. ~stale => Timed(w)'
    <2>1. Clock' = Clock
        BY <1>3 DEF Clock, SaveCounter
    <2> QED
        BY <1>2, <1>3, <2>1 DEF Known, Timed, SaveCounter, fields
<1> QED
    BY <1>4, <1>5, <1>6, <1>7 DEF Inv, Known, SaveCounter

(* The head of the delay list is due. *)
LEMMA HeadDueStep ==
    ASSUME Inv, HeadDue
    PROVE  Inv'
<1>1. TypeOK /\ Flow
    BY DEF Inv
<1>2. PICK w : Known(w)
    BY DEF Inv
<1>3. /\ pc \in {"check", "idle"} /\ pc' = "pop" /\ chState = "CHECK_LIST"
      /\ isr = "off" /\ isr' = "off" /\ isrItem' = isrItem
      /\ ptDelayList # <<>> /\ wTargetTime[Head(ptDelayList)] <= wSavedCounter
    BY <1>1 DEF HeadDue, Checking, Called, Main, tick, Due, Flow
<1>4. TypeOK'
    <2>1. DataTypes'
        BY <1>1, InParts DEF DataTypes, HeadDue, fields, lists
    <2>2. NumberTypes'
        BY <1>1, InParts DEF NumberTypes, HeadDue, counters, locals
    <2>3. ControlTypes'
        BY <1>1, <1>3, InParts DEF ControlTypes, HeadDue, locals
    <2> QED
        BY <2>1, <2>2, <2>3, InParts
<1>5. Flow'
    BY <1>1, <1>3 DEF Flow, HeadDue, lists, counters, locals, Calls
<1>6. Where(w)'
    BY <1>2, <1>3, Stays DEF Known, HeadDue, locals
<1>7. ~stale => Timed(w)'
    <2>1. Clock' = Clock
        BY <1>3 DEF Clock, HeadDue, counters
    <2> QED
        BY <1>2, <1>3, <2>1 DEF Known, Timed, HeadDue, fields, counters, lists
<1> QED
    BY <1>4, <1>5, <1>6, <1>7 DEF Inv, Known, HeadDue

(* The head of the delay list goes to a queue. *)
LEMMA PopStep ==
    ASSUME Inv, PopHead
    PROVE  Inv'
<1>1. TypeOK /\ Flow
    BY DEF Inv
<1>2. PICK w : Known(w)
    BY DEF Inv
<1>3. /\ pc = "pop" /\ pc' = "check" /\ chState = "CHECK_LIST" /\ ptDelayList # <<>>
      /\ isr = "off" /\ isr' = "off" /\ isrItem' = isrItem
    BY <1>1 DEF PopHead, Main, tick, Flow
<1>4. PICK s : s = Head(ptDelayList)
    OBVIOUS
<1>5. PICK p \in {"LOW", "NORMAL"} : events' = [events EXCEPT ![p] = Append(@, s)]
    BY <1>4 DEF PopHead
<1>6. ptDelayList' = Tail(ptDelayList) /\ ptHighPriorityDelayList' = ptHighPriorityDelayList
        /\ wTargetTime' = wTargetTime /\ remain' = remain
    BY DEF PopHead, fields
<1>7. w \in [Items -> 1..8]
        /\ Queued(ptHighPriorityDelayList, ptDelayList, events, w, wTargetTime)
    BY <1>2 DEF Known, Where
<1>8. PICK q \in {4, 5} : q = IF p = "LOW" THEN 4 ELSE 5
    OBVIOUS
<1>9. PICK w2 : w2 = Put(w, s, q)
    OBVIOUS
<1>10. q \in 1..8 /\ q # 3 /\ q # 2
    BY <1>8
<1>11. s \in Items /\ w[s] = 3 /\ Holds(Tail(ptDelayList), w2, 3)
    BY <1>3, <1>4, <1>7, <1>9, <1>10, Pop DEF Queued
<1>12. w2 \in [Items -> 1..8] /\ w2[s] = q /\ \A t \in Items : t # s => w2[t] = w[t]
    BY <1>7, <1>9, <1>10, <1>11, Moves
<1>13. Queued(ptHighPriorityDelayList', ptDelayList', events', w2, wTargetTime')
    <2>1. Holds(ptHighPriorityDelayList', w2, 2)
        BY <1>6, <1>7, <1>9, <1>10, <1>11, Keep DEF Queued
    <2>2. InOrder(ptDelayList', wTargetTime')
        BY <1>3, <1>6, <1>7, OrderTail, QueuedTypes DEF Queued
    <2>3. InOrder(ptHighPriorityDelayList', wTargetTime')
        BY <1>6, <1>7 DEF Queued
    <2>4. events'["LOW"] = (IF p = "LOW" THEN Append(events["LOW"], s) ELSE events["LOW"])
            /\ events'["NORMAL"] = (IF p = "LOW" THEN events["NORMAL"]
                                    ELSE Append(events["NORMAL"], s))
        BY <1>1, <1>5, InParts DEF DataTypes
    <2>5. Holds(events["LOW"], w, 4) /\ Holds(events["NORMAL"], w, 5)
        BY <1>7 DEF Queued
    <2>6. CASE p = "LOW"
        <3>1. q = 4
            BY <1>8, <2>6
        <3>2. Holds(Append(events["LOW"], s), w2, 4)
            BY <3>1, <2>5, <1>7, <1>9, <1>11, Enqueue
        <3>3. Holds(events["NORMAL"], w2, 5)
            BY <3>1, <2>5, <1>7, <1>9, <1>11, Keep
        <3> QED
            BY <3>2, <3>3, <2>1, <2>2, <2>3, <2>4, <2>6, <1>6, <1>11 DEF Queued
    <2>7. CASE p # "LOW"
        <3>1. q = 5
            BY <1>8, <2>7
        <3>2. Holds(Append(events["NORMAL"], s), w2, 5)
            BY <3>1, <2>5, <1>7, <1>9, <1>11, Enqueue
        <3>3. Holds(events["LOW"], w2, 4)
            BY <3>1, <2>5, <1>7, <1>9, <1>11, Keep
        <3> QED
            BY <3>2, <3>3, <2>1, <2>2, <2>3, <2>4, <2>7, <1>6, <1>11 DEF Queued
    <2> QED
        BY <2>6, <2>7
<1>14. TypeOK'
    <2>1. ptDelayList' \in Seq(Items)
        BY <1>13, QueuedTypes
    <2>2. events' \in [{"LOW", "NORMAL"} -> Seq(Items)]
        <3>1. events \in [{"LOW", "NORMAL"} -> Seq(Items)] /\ Append(events[p], s) \in Seq(Items)
            BY <1>1, <1>11, InParts, AppendSeq DEF DataTypes
        <3> QED
            BY <3>1, <1>5
    <2>3. DataTypes'
        BY <1>1, <2>1, <2>2, InParts DEF DataTypes, PopHead, fields
    <2>4. NumberTypes'
        BY <1>1, InParts DEF NumberTypes, PopHead, counters, locals
    <2>5. ControlTypes'
        BY <1>1, <1>3, InParts DEF ControlTypes, PopHead, locals
    <2> QED
        BY <2>3, <2>4, <2>5, InParts
<1>15. Flow'
    BY <1>1, <1>3 DEF Flow, PopHead, counters, locals, Calls
<1>16. Where(w2)'
    <2>1. \A t \in Items : w2[t] = 1 <=> t \in pool'
        BY <1>2, <1>10, <1>11, <1>12 DEF Known, Where, PopHead
    <2>2. \A t \in Items : w2[t] = 6 <=> t = mine'
        BY <1>2, <1>8, <1>11, <1>12 DEF Known, Where, PopHead
    <2>3. \A t \in Items : w2[t] = 7 <=> t = isrItem'
        BY <1>2, <1>3, <1>8, <1>11, <1>12 DEF Known, Where
    <2>4. \A t \in Items : w2[t] = 8 <=> (t = arg' /\ pc' \in {"add", "cancelled"})
        BY <1>2, <1>3, <1>8, <1>11, <1>12 DEF Known, Where
    <2> QED
        BY <1>12, <1>13, <2>1, <2>2, <2>3, <2>4 DEF Where
<1>17. ~stale => Timed(w2)'
    <2> SUFFICES ASSUME ~stale PROVE Timed(w2)'
        OBVIOUS
    <2>1. Timed(w)
        BY <1>2 DEF Known
    <2>2. Clock' = Clock /\ wCounter' = wCounter /\ wSavedCounter' = wSavedCounter
        BY <1>3 DEF Clock, PopHead, counters
    <2>3. \A t \in Items : w2[t] \in {2, 3} => Aged(remain'[t], wTargetTime'[t], Clock')
        BY <1>6, <1>8, <1>12, <2>1, <2>2 DEF Timed
    <2>4. remain[s] <= 0
        <3>1. Aged(remain[s], wTargetTime[s], Clock) /\ wTargetTime[s] <= wSavedCounter
                /\ wSavedCounter <= wCounter
            BY <1>3, <1>4, <1>11, <2>1 DEF Timed
        <3>2. Clock = wCounter
            BY <1>1, <1>3, Types DEF Clock
        <3>3. wTargetTime[s] \in Nat /\ wCounter \in Nat /\ wSavedCounter \in Nat
                /\ remain[s] \in -2..MaxDelay
            BY <1>1, <1>11, Types
        <3> QED
            BY <3>1, <3>2, <3>3, Numbers DEF Aged
    <2>5. \A t \in Items : w2[t] \in {4, 5, 6, 7} => remain'[t] <= 0
        BY <1>6, <1>12, <2>1, <2>4 DEF Timed
    <2> QED
        BY <1>3, <2>1, <2>2, <2>3, <2>5 DEF Timed
<1> QED
    BY <1>14, <1>15, <1>16, <1>17 DEF Inv, Known, PopHead

(* The check of the list ends. *)
LEMMA NothingDueStep ==
    ASSUME Inv, NothingDue
    PROVE  Inv'
<1>1. TypeOK /\ Flow
    BY DEF Inv
<1>2. PICK w : Known(w)
    BY DEF Inv
<1>3. /\ pc \in {"check", "idle"} /\ pc' = "raise" /\ chState' = "RAISE_NORMAL"
      /\ wSavedCounter' = 0 /\ isr = "off" /\ isr' = "off" /\ isrItem' = isrItem
    BY DEF NothingDue, Checking, Called, Main, tick
<1>4. TypeOK'
    <2>1. DataTypes'
        BY <1>1, InParts DEF DataTypes, NothingDue, fields, lists
    <2>2. NumberTypes'
        BY <1>1, <1>3, InParts, Numbers DEF NumberTypes, NothingDue, locals
    <2>3. ControlTypes'
        BY <1>1, <1>3, InParts DEF ControlTypes, NothingDue, locals
    <2> QED
        BY <2>1, <2>2, <2>3, InParts
<1>5. Flow'
    BY <1>1, <1>3 DEF Flow, NothingDue, lists, locals, Calls
<1>6. Where(w)'
    BY <1>2, <1>3, Stays DEF Known, NothingDue, locals
<1>7. ~stale => Timed(w)'
    <2>1. Clock' = Clock /\ 0 <= wCounter
        BY <1>1, <1>3, Types DEF Clock, NothingDue
    <2> QED
        BY <1>2, <1>3, <2>1 DEF Known, Timed, NothingDue, fields
<1> QED
    BY <1>4, <1>5, <1>6, <1>7 DEF Inv, Known, NothingDue

(* The head of a queue is reported. *)
LEMMA RaiseStep ==
    ASSUME Inv, NEW p \in {"LOW", "NORMAL"}, isr = "off", pc \in {"raise", "idle"}, RaiseFrom(p)
    PROVE  Inv'
<1>1. TypeOK /\ Flow
    BY DEF Inv
<1>2. PICK w : Known(w)
    BY DEF Inv
<1>3. /\ pc' = "handler" /\ isr' = "off" /\ isrItem' = isrItem
      /\ mine = NULL /\ caller # "handler"
    BY <1>1 DEF RaiseFrom, tick, Flow, Calls
<1>4. PICK s : s = Head(events[p])
    OBVIOUS
<1>5. mine' = s /\ events' = [events EXCEPT ![p] = Tail(@)] /\ events[p] # <<>>
    BY <1>4 DEF RaiseFrom
<1>6. wTargetTime' = wTargetTime /\ remain' = remain
    BY DEF RaiseFrom, fields
<1>7. w \in [Items -> 1..8]
        /\ Queued(ptHighPriorityDelayList, ptDelayList, events, w, wTargetTime)
    BY <1>2 DEF Known, Where
<1>8. PICK q \in {4, 5} : q = IF p = "LOW" THEN 4 ELSE 5
    OBVIOUS
<1>9. PICK w2 : w2 = Put(w, s, 6)
    OBVIOUS
<1>10. q \in 1..8 /\ q # 6 /\ Holds(events[p], w, q)
    BY <1>7, <1>8 DEF Queued
<1>11. s \in Items /\ w[s] = q /\ Holds(Tail(events[p]), w2, q)
    BY <1>4, <1>5, <1>7, <1>9, <1>10, Pop
<1>12. w2 \in [Items -> 1..8] /\ w2[s] = 6 /\ \A t \in Items : t # s => w2[t] = w[t]
    BY <1>7, <1>9, <1>11, Moves
<1>13. Queued(ptHighPriorityDelayList, ptDelayList, events', w2, wTargetTime)
    <2>1. Holds(ptHighPriorityDelayList, w2, 2)
        BY <1>7, <1>8, <1>9, <1>11, Keep DEF Queued
    <2>2. Holds(ptDelayList, w2, 3)
        BY <1>7, <1>8, <1>9, <1>11, Keep DEF Queued
    <2>3. events'["LOW"] = (IF p = "LOW" THEN Tail(events["LOW"]) ELSE events["LOW"])
            /\ events'["NORMAL"] = (IF p = "LOW" THEN events["NORMAL"]
                                    ELSE Tail(events["NORMAL"]))
        BY <1>1, <1>5, InParts DEF DataTypes
    <2>4. Holds(events["LOW"], w, 4) /\ Holds(events["NORMAL"], w, 5)
        BY <1>7 DEF Queued
    <2>5. CASE p = "LOW"
        <3>1. q = 4
            BY <1>8, <2>5
        <3>2. Holds(events["NORMAL"], w2, 5)
            BY <3>1, <2>4, <1>7, <1>9, <1>11, Keep
        <3> QED
            BY <3>1, <3>2, <2>1, <2>2, <2>3, <2>5, <1>7, <1>11 DEF Queued
    <2>6. CASE p # "LOW"
        <3>1. q = 5
            BY <1>8, <2>6
        <3>2. Holds(events["LOW"], w2, 4)
            BY <3>1, <2>4, <1>7, <1>9, <1>11, Keep
        <3> QED
            BY <3>1, <3>2, <2>1, <2>2, <2>3, <2>6, <1>7, <1>11 DEF Queued
    <2> QED
        BY <2>5, <2>6
<1>14. s # NULL
    BY <1>11, Numbers
<1>15. TypeOK'
    <2>1. events' \in [{"LOW", "NORMAL"} -> Seq(Items)]
        <3>1. events \in [{"LOW", "NORMAL"} -> Seq(Items)] /\ Tail(events[p]) \in Seq(Items)
            BY <1>1, <1>5, InParts, TailSeq DEF DataTypes
        <3> QED
            BY <3>1, <1>5
    <2>2. DataTypes'
        BY <1>1, <2>1, InParts DEF DataTypes, RaiseFrom, fields, lists
    <2>3. NumberTypes'
        BY <1>1, InParts DEF NumberTypes, RaiseFrom, counters, locals
    <2>4. ControlTypes'
        BY <1>1, <1>3, <1>5, <1>11, <1>14, InParts DEF ControlTypes, RaiseFrom, locals
    <2> QED
        BY <2>2, <2>3, <2>4, InParts
<1>16. Flow'
    BY <1>1, <1>3, <1>5, <1>14 DEF Flow, RaiseFrom, counters, locals, Calls
<1>17. Where(w2)'
    <2>1. \A t \in Items : w2[t] = 1 <=> t \in pool'
        BY <1>2, <1>8, <1>11, <1>12 DEF Known, Where, RaiseFrom
    <2>2. \A t \in Items : w2[t] = 6 <=> t = mine'
        BY <1>2, <1>3, <1>5, <1>12, Numbers DEF Known, Where
    <2>3. \A t \in Items : w2[t] = 7 <=> t = isrItem'
        BY <1>2, <1>3, <1>8, <1>11, <1>12 DEF Known, Where
    <2>4. \A t \in Items : w2[t] = 8 <=> (t = arg' /\ pc' \in {"add", "cancelled"})
        BY <1>2, <1>3, <1>8, <1>11, <1>12 DEF Known, Where
    <2> QED
        BY <1>12, <1>13, <2>1, <2>2, <2>3, <2>4 DEF Where, RaiseFrom, fields, lists
<1>18. ~stale => Timed(w2)'
    <2> SUFFICES ASSUME ~stale PROVE Timed(w2)'
        OBVIOUS
    <2>1. Timed(w)
        BY <1>2 DEF Known
    <2>2. Clock' = Clock /\ wCounter' = wCounter /\ wSavedCounter' = wSavedCounter
        BY <1>3 DEF Clock, RaiseFrom, counters
    <2>3. \A t \in Items : w2[t] \in {2, 3} => Aged(remain'[t], wTargetTime'[t], Clock')
        BY <1>6, <1>12, <2>1, <2>2 DEF Timed
    <2>4. remain[s] <= 0
        BY <1>8, <1>11, <2>1 DEF Timed
    <2>5. \A t \in Items : w2[t] \in {4, 5, 6, 7} => remain'[t] <= 0
        BY <1>6, <1>12, <2>1, <2>4 DEF Timed
    <2> QED
        BY <1>3, <2>1, <2>2, <2>3, <2>5 DEF Timed
<1> QED
    BY <1>15, <1>16, <1>17, <1>18 DEF Inv, Known, RaiseFrom

(* A queue is empty: the state machine goes on. *)
LEMMA DoneStep ==
    ASSUME Inv, NormalDone \/ LowDone
    PROVE  Inv'
<1>1. TypeOK /\ Flow
    BY DEF Inv
<1>2. PICK w : Known(w)
    BY DEF Inv
<1>3. /\ pc \in {"raise", "idle"} /\ pc' = "idle" /\ isr = "off" /\ isr' = "off"
      /\ chState \in {"RAISE_NORMAL", "RAISE_LOW"} /\ chState' \in {"RAISE_LOW", "START"}
    BY <1>1 DEF NormalDone, LowDone, Called, Main, tick, Flow
<1>4. UNCHANGED <<cfg, pool, fields, lists, events, counters, caller, mine, locals, tick,
                  remain, stale>>
    BY DEF NormalDone, LowDone
<1>5. TypeOK'
    <2>1. DataTypes'
        BY <1>1, <1>4, InParts DEF DataTypes, fields, lists
    <2>2. NumberTypes'
        BY <1>1, <1>4, InParts DEF NumberTypes, counters, locals
    <2>3. ControlTypes'
        BY <1>1, <1>3, <1>4, InParts DEF ControlTypes, locals, tick
    <2> QED
        BY <2>1, <2>2, <2>3, InParts
<1>6. Flow'
    BY <1>1, <1>3, <1>4 DEF Flow, lists, counters, locals, Calls
<1>7. Where(w)'
    BY <1>2, <1>3, <1>4, Stays DEF Known, locals, tick
<1>8. ~stale => Timed(w)'
    <2>1. Clock' = Clock
        BY <1>3, <1>4 DEF Clock, counters
    <2> QED
        BY <1>2, <1>3, <1>4, <2>1 DEF Known, Timed, fields, counters
<1> QED
    BY <1>4, <1>5, <1>6, <1>7, <1>8 DEF Inv, Known

(* The item that was reported is freed. *)
LEMMA HandlerStep ==
    ASSUME Inv, HandlerReturns
    PROVE  Inv'
<1>1. TypeOK /\ Flow
    BY DEF Inv
<1>2. PICK w : Known(w)
    BY DEF Inv
<1>3. /\ pc = "handler" /\ pc' = (IF chState = "RAISE_NORMAL" THEN "raise" ELSE "idle")
      /\ isr = "off" /\ isr' = "off" /\ isrItem' = isrItem /\ mine' = NULL
    BY DEF HandlerReturns, Main, tick
<1>4. mine # NULL /\ caller # "handler"
    BY <1>1, <1>3 DEF Flow, Calls
<1>5. PICK s : s = mine
    OBVIOUS
<1>6. s \in Items /\ w[s] = 6 /\ w \in [Items -> 1..8] /\ Where(w)
    BY <1>1, <1>2, <1>4, <1>5, Placed DEF Known
<1>7. Free(s) /\ UNCHANGED <<lists, events>>
    BY <1>5 DEF HandlerReturns
<1>8. PICK w2 : w2 = Put(w, s, 1)
    OBVIOUS
<1>9. /\ pool' = pool \cup {s} /\ pool' \subseteq Items
      /\ tPriority' \in [Items -> Priorities] /\ wTargetTime' \in [Items -> 0..Limit-1]
      /\ \A t \in Items \ {s} : wTargetTime'[t] = wTargetTime[t]
      /\ remain' \in [Items \cup {NULL} -> -2..MaxDelay]
      /\ ~stale => \A t \in Items \ {s} : remain'[t] = remain[t]
      /\ Queued(ptHighPriorityDelayList', ptDelayList', events', w2, wTargetTime')
      /\ w2 \in [Items -> 1..8] /\ w2[s] = 1
      /\ \A t \in Items \ {s} : w2[t] = w[t]
    <2>1. TypeOK /\ Where(w) /\ s \in Items /\ w[s] \in {6, 7, 8}
        BY <1>1, <1>6
    <2>2. Freed(w, s, w2)
        BY <2>1, <1>7, <1>8, FreeStep
    <2> QED
        BY <2>2 DEF Freed
<1>10. TypeOK'
    <2>1. DataTypes'
        BY <1>1, <1>9, InParts DEF DataTypes, HandlerReturns, lists
    <2>2. NumberTypes'
        BY <1>1, InParts DEF NumberTypes, HandlerReturns, counters, locals
    <2>3. ControlTypes'
        BY <1>1, <1>3, InParts DEF ControlTypes, HandlerReturns, locals
    <2> QED
        BY <2>1, <2>2, <2>3, InParts
<1>11. Flow'
    BY <1>1, <1>3, <1>4 DEF Flow, HandlerReturns, lists, counters, locals, Calls
<1>12. Where(w2)'
    <2>1. \A t \in Items : w2[t] = 1 <=> t \in pool'
        BY <1>6, <1>9 DEF Where
    <2>2. \A t \in Items : w2[t] = 6 <=> t = mine'
        BY <1>3, <1>5, <1>6, <1>9, Numbers DEF Where
    <2>3. \A t \in Items : w2[t] = 7 <=> t = isrItem'
        BY <1>3, <1>6, <1>9 DEF Where
    <2>4. \A t \in Items : w2[t] = 8 <=> (t = arg' /\ pc' \in {"add", "cancelled"})
        BY <1>3, <1>6, <1>9 DEF Where
    <2> QED
        BY <1>9, <2>1, <2>2, <2>3, <2>4 DEF Where
<1>13. ~stale => Timed(w2)'
    <2> SUFFICES ASSUME ~stale PROVE Timed(w2)'
        OBVIOUS
    <2>1. Timed(w)
        BY <1>2 DEF Known
    <2>2. Clock' = Clock /\ wCounter' = wCounter /\ wSavedCounter' = wSavedCounter
        BY <1>3 DEF Clock, HandlerReturns, counters
    <2>3. \A t \in Items : w2[t] \in {2, 3} => Aged(remain'[t], wTargetTime'[t], Clock')
        BY <1>9, <2>1, <2>2 DEF Timed
    <2>4. \A t \in Items : w2[t] \in {4, 5, 6, 7} => remain'[t] <= 0
        BY <1>9, <2>1 DEF Timed
    <2> QED
        BY <1>3, <2>1, <2>2, <2>3, <2>4 DEF Timed
<1> QED
    BY <1>10, <1>11, <1>12, <1>13 DEF Inv, Known, HandlerReturns

--------------------------------------------------------------------------------
(* The steps of the tick interrupt.                                        *)

(* The waiting times a tick later. *)
LEMMA LaterTimes ==
    ASSUME TypeOK
    PROVE  /\ Later \in [Items \cup {NULL} -> -2..MaxDelay]
           /\ Forgotten \in [Items \cup {NULL} -> -2..MaxDelay]
           /\ \A s \in Items \cup {NULL} : remain[s] <= 0 => Later[s] <= 0
           /\ \A s \in Items \cup {NULL}, t \in Nat, c \in Nat :
                 Aged(remain[s], t, c) => Aged(Later[s], t, c + 1)
<1>1. remain \in [Items \cup {NULL} -> -2..MaxDelay] /\ DOMAIN remain = Items \cup {NULL}
    BY Types
<1>2. \A s \in Items \cup {NULL} :
          Later[s] = IF remain[s] > -2 THEN remain[s] - 1 ELSE -2
    BY <1>1 DEF Later
<1>3. Later \in [Items \cup {NULL} -> -2..MaxDelay]
    BY <1>1, Numbers DEF Later
<1>4. Forgotten \in [Items \cup {NULL} -> -2..MaxDelay]
    BY <1>1, Numbers DEF Forgotten
<1>5. ASSUME NEW s \in Items \cup {NULL}, remain[s] <= 0 PROVE Later[s] <= 0
    BY <1>1, <1>2, <1>5, Numbers
<1>6. ASSUME NEW s \in Items \cup {NULL}, NEW t \in Nat, NEW c \in Nat, Aged(remain[s], t, c)
      PROVE  Aged(Later[s], t, c + 1)
    BY <1>1, <1>2, <1>6, Numbers DEF Aged
<1> QED
    BY <1>3, <1>4, <1>5, <1>6

(* A list that holds no item is empty. *)
LEMMA NoneListed ==
    ASSUME NEW w, Where(w)
    PROVE  /\ ptHighPriorityDelayList = <<>> => \A s \in Items : w[s] # 2
           /\ ptDelayList = <<>> => \A s \in Items : w[s] # 3
BY DEF Where, Queued, Holds

(* A list with nothing due when the counter is at its greatest is empty. *)
LEMMA LastTick ==
    ASSUME TypeOK, NEW list \in Seq(Items), wCounter = Limit - 1, ~Due(list, wCounter)
    PROVE  list = <<>>
<1> SUFFICES ASSUME list # <<>> PROVE FALSE
    OBVIOUS
<1>1. Head(list) \in Items
    BY TailSeq
<1>2. wTargetTime[Head(list)] \in 0..Limit-1
    BY <1>1, Types
<1> QED
    BY <1>2, Numbers DEF Due

(* No list has an item: the counter starts again. *)
LEMMA ResetStep ==
    ASSUME Inv, TickResets
    PROVE  Inv'
<1>1. TypeOK /\ Flow
    BY DEF Inv
<1>2. PICK w : Known(w)
    BY DEF Inv
<1>3. /\ isr = "off" /\ isr' = "off" /\ pc' = pc /\ pc # "pop"
      /\ ptHighPriorityDelayList = <<>> /\ ptDelayList = <<>>
      /\ wCounter' = 0 /\ wSavedCounter' = 0
    BY <1>1 DEF TickResets, tick, Flow
<1>4. remain' \in [Items \cup {NULL} -> -2..MaxDelay]
    BY <1>1, LaterTimes DEF TickResets
<1>5. stale' \in BOOLEAN
    BY <1>1, InParts DEF TickResets, ControlTypes, HoldsCounter
<1>6. TypeOK'
    <2>1. DataTypes'
        BY <1>1, <1>4, InParts DEF DataTypes, TickResets, fields, lists
    <2>2. NumberTypes'
        BY <1>1, <1>3, InParts, Numbers DEF NumberTypes, TickResets, locals
    <2>3. ControlTypes'
        BY <1>1, <1>5, InParts DEF ControlTypes, TickResets, locals, tick
    <2> QED
        BY <2>1, <2>2, <2>3, InParts
<1>7. Flow'
    BY <1>1, <1>3 DEF Flow, TickResets, lists, locals, Calls
<1>8. Where(w)'
    BY <1>2 DEF Known, Where, TickResets, fields, lists, locals, tick
<1>9. ~stale' => Timed(w)'
    <2> SUFFICES ASSUME ~stale' PROVE Timed(w)'
        OBVIOUS
    <2>1. ~stale /\ pc \notin {"new", "add"} /\ (pc = "save" => base = 0) /\ remain' = Later
        BY DEF TickResets, HoldsCounter
    <2>2. Timed(w)
        BY <1>2, <2>1 DEF Known
    <2>3. \A s \in Items : w[s] # 2 /\ w[s] # 3
        BY <1>2, <1>3, NoneListed DEF Known
    <2>4. \A s \in Items : w[s] \in {4, 5, 6, 7} => remain'[s] <= 0
        BY <1>1, <2>1, <2>2, LaterTimes DEF Timed
    <2>5. base' = base /\ 0 <= 0
        BY DEF TickResets, locals
    <2> QED
        BY <1>3, <2>1, <2>3, <2>4, <2>5 DEF Timed
<1> QED
    BY <1>6, <1>7, <1>8, <1>9 DEF Inv, Known

(* The tick looks for delays of high priority. *)
LEMMA BeginStep ==
    ASSUME Inv, TickBegins
    PROVE  Inv'
<1>1. TypeOK /\ Flow
    BY DEF Inv
<1>2. PICK w : Known(w)
    BY DEF Inv
<1>3. isr = "off" /\ isr' = "check" /\ isrItem' = isrItem /\ TaskKeepsUp
    BY DEF TickBegins
<1>4. UNCHANGED <<cfg, pool, fields, lists, events, counters, chState, pc, caller, mine,
                  locals, isrItem, stale>>
    BY DEF TickBegins
<1>5. remain' \in [Items \cup {NULL} -> -2..MaxDelay]
    BY <1>1, LaterTimes DEF TickBegins, Remain
<1>6. TypeOK'
    <2>1. DataTypes'
        BY <1>1, <1>4, <1>5, InParts DEF DataTypes, fields, lists
    <2>2. NumberTypes'
        BY <1>1, <1>4, InParts DEF NumberTypes, counters, locals
    <2>3. ControlTypes'
        BY <1>1, <1>3, <1>4, InParts DEF ControlTypes, locals
    <2> QED
        BY <2>1, <2>2, <2>3, InParts
<1>7. wCounter = Limit - 1 => ptDelayList = <<>>
    <2>1. ptDelayList \in Seq(Items)
        BY <1>1, InParts DEF DataTypes
    <2> QED
        BY <2>1, <1>1, <1>3, LastTick DEF TaskKeepsUp
<1>8. Flow'
    BY <1>1, <1>3, <1>4, <1>7 DEF Flow, lists, counters, locals, Calls
<1>9. Where(w)'
    BY <1>2, <1>4 DEF Known, Where, fields, lists, locals
<1>10. ~stale => Timed(w)'
    <2> SUFFICES ASSUME ~stale PROVE Timed(w)'
        OBVIOUS
    <2>1. Timed(w) /\ remain' = Later
        BY <1>2 DEF Known, TickBegins, Remain
    <2>2. Clock' = Clock + 1 /\ Clock \in Nat /\ Clock = wCounter
        BY <1>1, <1>3, <1>4, Types DEF Clock, counters
    <2>3. ASSUME NEW s \in Items, w[s] \in {2, 3} \/ (pc = "add" /\ s = arg)
          PROVE  Aged(remain'[s], wTargetTime'[s], Clock')
        <3>1. Aged(remain[s], wTargetTime[s], Clock) /\ wTargetTime[s] \in Nat
            BY <1>1, <2>1, <2>3, Types DEF Timed
        <3>2. Aged(Later[s], wTargetTime[s], Clock + 1)
            BY <1>1, <2>2, <3>1, LaterTimes
        <3> QED
            BY <3>2, <1>4, <2>1, <2>2 DEF fields
    <2>4. ASSUME pc = "new" PROVE Aged(remain'[NULL], base' + ask'[2], Clock')
        <3>1. Aged(remain[NULL], base + ask[2], Clock) /\ base + ask[2] \in Nat
            BY <1>1, <2>1, <2>4, Types, Numbers DEF Timed, Flow
        <3>2. Aged(Later[NULL], base + ask[2], Clock + 1)
            BY <1>1, <2>2, <3>1, LaterTimes
        <3> QED
            BY <3>2, <1>4, <2>1, <2>2 DEF locals
    <2>5. \A s \in Items : w[s] \in {4, 5, 6, 7} => remain'[s] <= 0
        BY <1>1, <2>1, LaterTimes DEF Timed
    <2> QED
        BY <1>4, <2>1, <2>3, <2>4, <2>5 DEF Timed, fields, counters, locals, lists
<1> QED
    BY <1>4, <1>6, <1>8, <1>9, <1>10 DEF Inv, Known

(* The head of the list of high priority is reported. *)
LEMMA FiresStep ==
    ASSUME Inv, TickFires
    PROVE  Inv'
<1>1. TypeOK /\ Flow
    BY DEF Inv
<1>2. PICK w : Known(w)
    BY DEF Inv
<1>3. PICK s : s = Head(ptHighPriorityDelayList)
    OBVIOUS
<1>4. /\ isr = "check" /\ isr' = "handler" /\ isrItem = NULL /\ isrItem' = s
      /\ ptHighPriorityDelayList # <<>> /\ wTargetTime[s] <= wCounter
      /\ ptHighPriorityDelayList' = Tail(ptHighPriorityDelayList)
    BY <1>1, <1>3, InParts DEF TickFires, Due, ControlTypes
<1>5. UNCHANGED <<cfg, pool, fields, ptDelayList, events, counters, chState, pc,
                  caller, mine, locals, remain, stale>>
    BY DEF TickFires
<1>6. w \in [Items -> 1..8]
        /\ Queued(ptHighPriorityDelayList, ptDelayList, events, w, wTargetTime)
    BY <1>2 DEF Known, Where
<1>7. PICK w2 : w2 = Put(w, s, 7)
    OBVIOUS
<1>8. s \in Items /\ w[s] = 2 /\ Holds(Tail(ptHighPriorityDelayList), w2, 2)
    BY <1>3, <1>4, <1>6, <1>7, Pop DEF Queued
<1>9. w2 \in [Items -> 1..8] /\ w2[s] = 7 /\ \A t \in Items : t # s => w2[t] = w[t]
    BY <1>6, <1>7, <1>8, Moves
<1>10. Queued(ptHighPriorityDelayList', ptDelayList', events', w2, wTargetTime')
    <2>1. InOrder(Tail(ptHighPriorityDelayList), wTargetTime)
        BY <1>4, <1>6, OrderTail, QueuedTypes DEF Queued
    <2>2. Holds(ptDelayList, w2, 3)
        BY <1>6, <1>7, <1>8, Keep DEF Queued
    <2>3. Holds(events["LOW"], w2, 4)
        BY <1>6, <1>7, <1>8, Keep DEF Queued
    <2>4. Holds(events["NORMAL"], w2, 5)
        BY <1>6, <1>7, <1>8, Keep DEF Queued
    <2> QED
        BY <1>4, <1>5, <1>6, <1>8, <2>1, <2>2, <2>3, <2>4 DEF Queued, fields
<1>11. s # NULL
    BY <1>8, Numbers
<1>12. TypeOK'
    <2>1. ptHighPriorityDelayList' \in Seq(Items)
        BY <1>10, QueuedTypes
    <2>2. DataTypes'
        BY <1>1, <1>5, <2>1, InParts DEF DataTypes, fields
    <2>3. NumberTypes'
        BY <1>1, <1>5, InParts DEF NumberTypes, counters, locals
    <2>4. ControlTypes'
        BY <1>1, <1>4, <1>5, <1>8, <1>11, InParts DEF ControlTypes, locals
    <2> QED
        BY <2>2, <2>3, <2>4, InParts
<1>13. Flow'
    BY <1>1, <1>4, <1>5 DEF Flow, counters, locals, Calls
<1>14. Where(w2)'
    <2>1. \A t \in Items : w2[t] = 1 <=> t \in pool'
        BY <1>2, <1>5, <1>8, <1>9 DEF Known, Where
    <2>2. \A t \in Items : w2[t] = 6 <=> t = mine'
        BY <1>2, <1>5, <1>8, <1>9 DEF Known, Where
    <2>3. \A t \in Items : w2[t] = 7 <=> t = isrItem'
        BY <1>2, <1>4, <1>9, Numbers DEF Known, Where
    <2>4. \A t \in Items : w2[t] = 8 <=> (t = arg' /\ pc' \in {"add", "cancelled"})
        BY <1>2, <1>5, <1>8, <1>9 DEF Known, Where, locals
    <2> QED
        BY <1>9, <1>10, <2>1, <2>2, <2>3, <2>4 DEF Where
<1>15. ~stale => Timed(w2)'
    <2> SUFFICES ASSUME ~stale PROVE Timed(w2)'
        OBVIOUS
    <2>1. Timed(w)
        BY <1>2 DEF Known
    <2>2. Clock' = Clock /\ Clock = wCounter + 1
        BY <1>1, <1>4, <1>5, Types DEF Clock, counters
    <2>3. ASSUME NEW t \in Items, w2[t] \in {2, 3} \/ (pc' = "add" /\ t = arg')
          PROVE  Aged(remain'[t], wTargetTime'[t], Clock')
        BY <1>5, <1>9, <2>1, <2>2, <2>3 DEF Timed, fields, locals
    <2>4. remain[s] <= 0
        <3>1. Aged(remain[s], wTargetTime[s], Clock)
            BY <1>8, <2>1 DEF Timed
        <3>2. wTargetTime[s] \in Nat /\ wCounter \in Nat /\ remain[s] \in -2..MaxDelay
            BY <1>1, <1>8, Types
        <3> QED
            BY <1>4, <2>2, <3>1, <3>2, Numbers DEF Aged
    <2>5. \A t \in Items : w2[t] \in {4, 5, 6, 7} => remain'[t] <= 0
        BY <1>5, <1>9, <2>1, <2>4 DEF Timed
    <2> QED
        BY <1>5, <2>1, <2>2, <2>3, <2>5 DEF Timed, counters, locals, fields
<1> QED
    BY <1>5, <1>12, <1>13, <1>14, <1>15 DEF Inv, Known

(* The handler requests a delay. *)
LEMMA IsrRequestStep ==
    ASSUME Inv, NEW p \in cfg.Uses, NEW d \in Delays, IsrRequest(p, d)
    PROVE  Inv'
<1>1. TypeOK /\ Flow
    BY DEF Inv
<1>2. PICK w : Known(w)
    BY DEF Inv
<1>3. PICK time : time = wCounter + d
    OBVIOUS
<1>4. /\ isr = "handler" /\ time < Limit /\ time \in 0..Limit-1 /\ time \in Nat
      /\ time % Limit = time /\ wCounter < time /\ wCounter # Limit - 1
    BY <1>1, <1>3, Types, Numbers DEF IsrRequest, Fits
<1>5. PICK s \in pool :
          /\ pool' = pool \ {s}
          /\ tPriority' = [tPriority EXCEPT ![s] = p]
          /\ wTargetTime' = [wTargetTime EXCEPT ![s] = time]
          /\ Enlist(s, p, time)
          /\ Remain([remain EXCEPT ![s] = d - 1])
    BY <1>3, <1>4 DEF IsrRequest
<1>6. UNCHANGED <<cfg, events, counters, chState, pc, caller, mine, locals, tick, stale>>
    BY DEF IsrRequest
<1>7. s \in Items /\ w[s] = 1 /\ w \in [Items -> 1..8] /\ s # NULL /\ Where(w)
    BY <1>1, <1>2, Placed, Numbers DEF Known
<1>8. p \in Priorities
    BY <1>1, ConfigsAssumption DEF TypeOK
<1>9. wTargetTime' \in [Items -> 0..Limit-1] /\ wTargetTime'[s] = time
        /\ \A t \in Items \ {s} : wTargetTime'[t] = wTargetTime[t]
    BY <1>1, <1>4, <1>5, <1>7, Types
<1>10. PICK q \in {2, 3} :
          /\ Queued(ptHighPriorityDelayList', ptDelayList', events', Put(w, s, q), wTargetTime')
          /\ q = 2 => ptDelayList' = ptDelayList
          /\ q = 3 => /\ ptDelayList' # <<>>
                      /\ ptDelayList # <<>> /\ wTargetTime[Head(ptDelayList)] < time
                            => Head(ptDelayList') = Head(ptDelayList)
    <2>1. w[s] \notin {2, 3, 4, 5} /\ UNCHANGED events /\ Enlist(s, p, time) /\ time \in Nat
        BY <1>4, <1>5, <1>6, <1>7
    <2>2. PICK time2 : time2 = wTargetTime'
        OBVIOUS
    <2>3. time2[s] = time /\ \A t \in Items \ {s} : time2[t] = wTargetTime[t]
        BY <1>9, <2>2
    <2>4. TypeOK /\ Where(w) /\ s \in Items
        BY <1>1, <1>7
    <2>5. \E q \in {2, 3} :
              /\ Queued(ptHighPriorityDelayList', ptDelayList', events', Put(w, s, q), time2)
              /\ q = 2 => ptDelayList' = ptDelayList
              /\ q = 3 => /\ ptDelayList' # <<>>
                          /\ ptDelayList # <<>> /\ wTargetTime[Head(ptDelayList)] < time
                                => Head(ptDelayList') = Head(ptDelayList)
        BY <2>1, <2>3, <2>4, EnlistStep
    <2> QED
        BY <2>2, <2>5
<1>11. PICK w2 : w2 = Put(w, s, q)
    OBVIOUS
<1>12. w2 \in [Items -> 1..8] /\ w2[s] = q /\ \A t \in Items : t # s => w2[t] = w[t]
    <2>1. q \in 1..8
        OBVIOUS
    <2> QED
        BY <2>1, <1>7, <1>11, Moves
<1>13. remain' \in [Items \cup {NULL} -> -2..MaxDelay]
    BY <1>1, <1>5, <1>7, Types, Numbers, LaterTimes DEF Remain
<1>14. TypeOK'
    <2>1. tPriority' \in [Items -> Priorities] /\ pool' \subseteq Items
        BY <1>1, <1>5, <1>8, InParts DEF DataTypes
    <2>2. ptHighPriorityDelayList' \in Seq(Items) /\ ptDelayList' \in Seq(Items)
        BY <1>10, QueuedTypes
    <2>3. DataTypes'
        BY <1>1, <1>6, <1>9, <1>13, <2>1, <2>2, InParts DEF DataTypes
    <2>4. NumberTypes'
        BY <1>1, <1>6, InParts DEF NumberTypes, counters, locals
    <2>5. ControlTypes'
        BY <1>1, <1>6, InParts DEF ControlTypes, locals, tick
    <2> QED
        BY <2>3, <2>4, <2>5, InParts
<1>15. ptDelayList # <<>> => ptDelayList' # <<>>
    BY <1>10
<1>16. Flow'
    <2>1. wCounter' = wCounter
        BY <1>6 DEF counters
    <2> QED
        BY <1>1, <1>4, <1>6, <1>15, <2>1 DEF Flow, counters, locals, tick, Calls
<1>17. Where(w2)'
    <2>1. \A t \in Items : w2[t] = 1 <=> t \in pool'
        BY <1>5, <1>7, <1>12 DEF Where
    <2>2. \A t \in Items : w2[t] = 6 <=> t = mine'
        BY <1>6, <1>7, <1>12 DEF Where
    <2>3. \A t \in Items : w2[t] = 7 <=> t = isrItem'
        BY <1>6, <1>7, <1>12 DEF Where, tick
    <2>4. \A t \in Items : w2[t] = 8 <=> (t = arg' /\ pc' \in {"add", "cancelled"})
        BY <1>6, <1>7, <1>12 DEF Where, locals
    <2> QED
        BY <1>10, <1>11, <1>12, <2>1, <2>2, <2>3, <2>4 DEF Where
<1>18. ~stale => Timed(w2)'
    <2> SUFFICES ASSUME ~stale PROVE Timed(w2)'
        OBVIOUS
    <2>1. Timed(w)
        BY <1>2 DEF Known
    <2>2. remain'[s] = d - 1 /\ \A t \in Items \cup {NULL} : t # s => remain'[t] = remain[t]
        BY <1>1, <1>5, <1>7, Types, Numbers DEF Remain
    <2>3. Clock' = Clock /\ Clock = wCounter + 1
        BY <1>1, <1>4, <1>6, Types DEF Clock, counters, tick
    <2>4. Aged(remain'[s], wTargetTime'[s], Clock')
        BY <1>1, <1>3, <1>9, <2>2, <2>3, Types, Numbers DEF Aged
    <2>5. ASSUME NEW t \in Items, t # s, w2[t] \in {2, 3} \/ (pc' = "add" /\ t = arg')
          PROVE  Aged(remain'[t], wTargetTime'[t], Clock')
        BY <1>6, <1>9, <1>12, <2>1, <2>2, <2>3, <2>5 DEF Timed, locals
    <2>6. pc = "new" => Aged(remain'[NULL], base' + ask'[2], Clock')
        BY <1>6, <1>7, <2>1, <2>2, <2>3 DEF Timed, locals
    <2>7. \A t \in Items : w2[t] \in {4, 5, 6, 7} => remain'[t] <= 0
        BY <1>12, <2>1, <2>2 DEF Timed
    <2>8. ASSUME pc = "pop" PROVE wTargetTime'[Head(ptDelayList')] <= wSavedCounter
        <3>1. ptDelayList # <<>> /\ wTargetTime[Head(ptDelayList)] <= wSavedCounter
                /\ wSavedCounter <= wCounter
            BY <1>1, <2>1, <2>8 DEF Flow, Timed
        <3>2. Head(ptDelayList) \in Items /\ w[Head(ptDelayList)] = 3
            <4>1. Holds(ptDelayList, w, 3)
                BY <1>7 DEF Where, Queued
            <4>2. 6 \in 1..8 /\ 3 \in 1..8 /\ 6 # 3
                OBVIOUS
            <4> QED
                BY <3>1, <4>1, <4>2, <1>7, Pop
        <3>3. wTargetTime[Head(ptDelayList)] < time
            <4>1. wTargetTime[Head(ptDelayList)] \in Nat /\ wSavedCounter \in Nat
                    /\ wCounter \in Nat
                BY <1>1, <3>2, Types
            <4> QED
                BY <1>4, <3>1, <4>1
        <3>4. Head(ptDelayList') = Head(ptDelayList)
            BY <1>10, <3>1, <3>3
        <3> QED
            BY <1>7, <1>9, <3>1, <3>2, <3>4
    <2> QED
        BY <1>6, <2>1, <2>4, <2>5, <2>6, <2>7, <2>8 DEF Timed, counters, locals
<1> QED
    BY <1>6, <1>14, <1>16, <1>17, <1>18 DEF Inv, Known

(* The item that the interrupt reported is freed. *)
LEMMA IsrReturnsStep ==
    ASSUME Inv, IsrReturns
    PROVE  Inv'
<1>1. TypeOK /\ Flow
    BY DEF Inv
<1>2. PICK w : Known(w)
    BY DEF Inv
<1>3. isr = "handler" /\ isr' = "check" /\ isrItem' = NULL /\ isrItem # NULL
    BY <1>1, InParts DEF IsrReturns, ControlTypes
<1>4. UNCHANGED <<cfg, lists, events, counters, chState, pc, caller, mine, locals, stale>>
    BY DEF IsrReturns
<1>5. PICK s : s = isrItem
    OBVIOUS
<1>6. s \in Items /\ w[s] = 7 /\ w \in [Items -> 1..8] /\ Where(w)
    BY <1>1, <1>2, <1>3, <1>5, Placed DEF Known
<1>7. Free(s) /\ UNCHANGED <<lists, events>>
    BY <1>5 DEF IsrReturns
<1>8. PICK w2 : w2 = Put(w, s, 1)
    OBVIOUS
<1>9. /\ pool' = pool \cup {s} /\ pool' \subseteq Items
      /\ tPriority' \in [Items -> Priorities] /\ wTargetTime' \in [Items -> 0..Limit-1]
      /\ \A t \in Items \ {s} : wTargetTime'[t] = wTargetTime[t]
      /\ remain' \in [Items \cup {NULL} -> -2..MaxDelay]
      /\ ~stale => \A t \in Items \ {s} : remain'[t] = remain[t]
      /\ Queued(ptHighPriorityDelayList', ptDelayList', events', w2, wTargetTime')
      /\ w2 \in [Items -> 1..8] /\ w2[s] = 1
      /\ \A t \in Items \ {s} : w2[t] = w[t]
    <2>1. TypeOK /\ Where(w) /\ s \in Items /\ w[s] \in {6, 7, 8}
        BY <1>1, <1>6
    <2>2. Freed(w, s, w2)
        BY <2>1, <1>7, <1>8, FreeStep
    <2> QED
        BY <2>2 DEF Freed
<1>10. TypeOK'
    <2>1. DataTypes'
        BY <1>1, <1>4, <1>9, InParts DEF DataTypes, lists
    <2>2. NumberTypes'
        BY <1>1, <1>4, InParts DEF NumberTypes, counters, locals
    <2>3. ControlTypes'
        BY <1>1, <1>3, <1>4, InParts DEF ControlTypes, locals
    <2> QED
        BY <2>1, <2>2, <2>3, InParts
<1>11. Flow'
    BY <1>1, <1>3, <1>4 DEF Flow, lists, counters, locals, Calls
<1>12. Where(w2)'
    <2>1. \A t \in Items : w2[t] = 1 <=> t \in pool'
        BY <1>6, <1>9 DEF Where
    <2>2. \A t \in Items : w2[t] = 6 <=> t = mine'
        BY <1>4, <1>6, <1>9 DEF Where
    <2>3. \A t \in Items : w2[t] = 7 <=> t = isrItem'
        BY <1>3, <1>5, <1>6, <1>9, Numbers DEF Where
    <2>4. \A t \in Items : w2[t] = 8 <=> (t = arg' /\ pc' \in {"add", "cancelled"})
        BY <1>4, <1>6, <1>9 DEF Where, locals
    <2> QED
        BY <1>9, <2>1, <2>2, <2>3, <2>4 DEF Where
<1>13. ~stale => Timed(w2)'
    <2> SUFFICES ASSUME ~stale PROVE Timed(w2)'
        OBVIOUS
    <2>1. Timed(w)
        BY <1>2 DEF Known
    <2>2. Clock' = Clock /\ s # NULL
        BY <1>3, <1>4, <1>5 DEF Clock, counters
    <2>3. remain'[NULL] = remain[NULL]
        BY <1>1, <1>5, <1>6, <2>2, Types, Numbers DEF IsrReturns, Free, Remain
    <2>4. ASSUME NEW t \in Items, w2[t] \in {2, 3} \/ (pc' = "add" /\ t = arg')
          PROVE  Aged(remain'[t], wTargetTime'[t], Clock')
        <3>1. t # s
            BY <1>4, <1>6, <1>9, <2>4 DEF Where, locals
        <3> QED
            BY <1>4, <1>9, <2>1, <2>2, <2>4, <3>1 DEF Timed, locals
    <2>5. \A t \in Items : w2[t] \in {4, 5, 6, 7} => remain'[t] <= 0
        BY <1>9, <2>1 DEF Timed
    <2>6. ASSUME pc = "pop" PROVE wTargetTime'[Head(ptDelayList)] <= wSavedCounter
        <3>1. ptDelayList # <<>> /\ wTargetTime[Head(ptDelayList)] <= wSavedCounter
            BY <1>1, <2>1, <2>6 DEF Flow, Timed
        <3>2. Head(ptDelayList) \in Items /\ w[Head(ptDelayList)] = 3
            <4>1. Holds(ptDelayList, w, 3)
                BY <1>6 DEF Where, Queued
            <4>2. 6 \in 1..8 /\ 3 \in 1..8 /\ 6 # 3
                OBVIOUS
            <4> QED
                BY <3>1, <4>1, <4>2, <1>6, Pop
        <3>3. PICK h \in Items : h = Head(ptDelayList) /\ h # s
            BY <1>6, <3>2
        <3>4. wTargetTime'[h] = wTargetTime[h]
            BY <1>9, <3>3
        <3> QED
            BY <3>1, <3>3, <3>4
    <2> QED
        BY <1>4, <2>1, <2>2, <2>3, <2>4, <2>5, <2>6 DEF Timed, counters, locals, lists
<1> QED
    BY <1>4, <1>10, <1>11, <1>12, <1>13 DEF Inv, Known

(* The counter goes up. *)
LEMMA CountStep ==
    ASSUME Inv, TickCounts
    PROVE  Inv'
<1>1. TypeOK /\ Flow
    BY DEF Inv
<1>2. PICK w : Known(w)
    BY DEF Inv
<1>3. isr = "check" /\ isr' = "off" /\ isrItem' = isrItem /\ wCounter' = (wCounter + 1) % Limit
    BY DEF TickCounts
<1>4. UNCHANGED <<cfg, pool, fields, lists, events, wSavedCounter, chState, pc,
                  caller, mine, locals, isrItem>>
    BY DEF TickCounts
<1>5. /\ wCounter' \in 0..Limit-1
      /\ wCounter # Limit - 1 => wCounter' = wCounter + 1 /\ wCounter' # 0
      /\ wCounter = Limit - 1 => wCounter' = 0
    BY <1>1, <1>3, Types, Numbers
<1>6. remain' \in [Items \cup {NULL} -> -2..MaxDelay]
    BY <1>1, LaterTimes, Types DEF TickCounts
<1>7. stale' \in BOOLEAN
    BY <1>1, InParts DEF TickCounts, ControlTypes, HoldsCounter
<1>8. TypeOK'
    <2>1. DataTypes'
        BY <1>1, <1>4, <1>6, InParts DEF DataTypes, fields, lists
    <2>2. NumberTypes'
        BY <1>1, <1>4, <1>5, InParts DEF NumberTypes, locals
    <2>3. ControlTypes'
        BY <1>1, <1>3, <1>4, <1>7, InParts DEF ControlTypes, locals
    <2> QED
        BY <2>1, <2>2, <2>3, InParts
<1>9. Flow'
    BY <1>1, <1>3, <1>4 DEF Flow, lists, locals, Calls
<1>10. Where(w)'
    BY <1>2, <1>4 DEF Known, Where, fields, lists, locals
<1>11. ~stale' => Timed(w)'
    <2> SUFFICES ASSUME ~stale' PROVE Timed(w)'
        OBVIOUS
    <2>1. ~stale /\ remain' = remain
        BY DEF TickCounts
    <2>2. Timed(w)
        BY <1>2, <2>1 DEF Known
    <2>3. CASE wCounter # Limit - 1
        <3>1. Clock' = Clock /\ wSavedCounter <= wCounter'
            BY <1>1, <1>3, <1>5, <2>2, <2>3, Types DEF Clock, Timed
        <3>2. pc = "save" => base <= wCounter'
            BY <1>1, <1>5, <2>2, <2>3, Types DEF Timed
        <3> QED
            BY <1>4, <2>1, <2>2, <3>1, <3>2 DEF Timed, fields, lists, locals
    <2>4. CASE wCounter = Limit - 1
        <3>1. wCounter' = 0 /\ ~HoldsCounter /\ chState # "CHECK_LIST"
            BY <1>5, <2>4 DEF TickCounts
        <3>2. wSavedCounter = 0 /\ pc # "pop"
            BY <1>1, <3>1 DEF Flow
        <3>3. ptDelayList = <<>>
            BY <1>1, <1>3, <2>4 DEF Flow
        <3>4. ptHighPriorityDelayList = <<>>
            BY <1>1, <2>4, LastTick, InParts DEF DataTypes, TickCounts
        <3>5. \A s \in Items : w[s] # 2 /\ w[s] # 3
            BY <1>2, <3>3, <3>4, NoneListed DEF Known
        <3>6. pc \notin {"new", "add"} /\ (pc = "save" => base = 0)
            BY <3>1 DEF HoldsCounter
        <3>7. \A s \in Items : w[s] \in {4, 5, 6, 7} => remain'[s] <= 0
            BY <2>1, <2>2 DEF Timed
        <3>8. UNCHANGED <<pc, wSavedCounter, base>> /\ 0 <= 0
            BY <1>4 DEF locals
        <3> QED
            BY <3>1, <3>2, <3>5, <3>6, <3>7, <3>8 DEF Timed
    <2> QED
        BY <2>3, <2>4
<1> QED
    BY <1>8, <1>9, <1>10, <1>11 DEF Inv, Known

--------------------------------------------------------------------------------
(* Every step keeps the invariant. *)
LEMMA NextInv == Inv /\ [Next]_vars => Inv'
<1> SUFFICES ASSUME Inv, [Next]_vars PROVE Inv'
    OBVIOUS
<1>1. ASSUME NEW p \in cfg.Uses, NEW d \in Delays, Request(p, d) \/ IsrRequest(p, d)
      PROVE  Inv'
    BY <1>1, RequestStep, IsrRequestStep
<1>2. ASSUME NEW s \in Items, Cancel(s) PROVE Inv'
    BY <1>2, CancelStep
<1>3. CASE CallStep
    BY <1>3, NewItemStep, NoItemStep, AddItemStep, CancelHighStep, CancelNormalStep,
       CancelledStep DEF CallStep
<1>4. (isr = "off" /\ pc = "idle" => isr = "off" /\ pc \in {"raise", "idle"})
        /\ (isr = "off" /\ pc = "raise" => isr = "off" /\ pc \in {"raise", "idle"})
    OBVIOUS
<1>5. CASE RaiseLow
    BY <1>4, <1>5, RaiseStep DEF RaiseLow, Called, Main
<1>6. CASE RaiseNormal
    BY <1>4, <1>6, RaiseStep DEF RaiseNormal, Main
<1>7. CASE TaskCalled
    BY <1>5, <1>7, LoadStep, DoneStep, HeadDueStep, NothingDueStep DEF TaskCalled
<1>8. CASE TaskGoesOn
    BY <1>6, <1>8, SaveStep, PopStep, DoneStep, HeadDueStep, NothingDueStep DEF TaskGoesOn
<1>9. CASE HandlerReturns
    BY <1>9, HandlerStep
<1>10. CASE Tick
    BY <1>10, ResetStep, BeginStep, FiresStep, IsrReturnsStep, CountStep DEF Tick
<1>11. CASE UNCHANGED vars
    <2>1. TypeOK' /\ Flow'
        <3>1. DataTypes'
            BY <1>11, InParts DEF Inv, DataTypes, vars, fields, lists
        <3>2. NumberTypes'
            BY <1>11, InParts DEF Inv, NumberTypes, vars, counters, locals
        <3>3. ControlTypes'
            BY <1>11, InParts DEF Inv, ControlTypes, vars, locals, tick
        <3>4. Flow'
            BY <1>11 DEF Inv, Flow, vars, lists, counters, locals, tick
        <3> QED
            BY <3>1, <3>2, <3>3, <3>4, InParts
    <2>2. PICK w : Known(w)
        BY DEF Inv
    <2>3. Where(w)'
        BY <1>11, <2>2 DEF Known, Where, vars, fields, lists, locals, tick
    <2>4. ~stale => Timed(w)'
        <3>1. Clock' = Clock
            BY <1>11 DEF Clock, vars, counters, tick
        <3> QED
            BY <1>11, <2>2, <3>1 DEF Known, Timed, vars, fields, lists, counters, locals
    <2>5. stale' = stale
        BY <1>11 DEF vars
    <2> QED
        BY <2>1, <2>3, <2>4, <2>5 DEF Inv, Known
<1> QED
    BY <1>1, <1>2, <1>3, <1>7, <1>8, <1>9, <1>10, <1>11 DEF Next

(* The invariant holds in every state. *)
LEMMA InvHolds == Spec => []Inv
BY InitInv, NextInv, PTL DEF Spec

--------------------------------------------------------------------------------
(* What follows from the invariant.                                        *)

(* A list that holds its items has no item twice. *)
LEMMA NoneTwice ==
    ASSUME NEW l, NEW w, NEW p, Holds(l, w, p)
    PROVE  IsInjective(l) /\ \A s \in Items : s \in ToSet(l) <=> w[s] = p
<1>1. l \in Seq(Items) /\ DOMAIN l = 1..Len(l)
    BY DEF Holds
<1>2. \A i, j \in 1..Len(l) : l[i] = l[j] => i = j
    BY DEF Holds
<1>3. IsInjective(l)
    BY <1>1, <1>2 DEF IsInjective
<1>4. \A s \in Items : s \in ToSet(l) <=> \E i \in 1..Len(l) : l[i] = s
    BY <1>1 DEF ToSet
<1> QED
    BY <1>3, <1>4 DEF Holds

(* Neighbours in a list in order are in order. *)
LEMMA Neighbours ==
    ASSUME NEW l \in Seq(Items), NEW time, InOrder(l, time)
    PROVE  \A i \in 1..Len(l) - 1 : time[l[i]] <= time[l[i+1]]
<1> SUFFICES ASSUME NEW i \in 1..Len(l) - 1 PROVE time[l[i]] <= time[l[i+1]]
    OBVIOUS
<1>1. i \in 1..Len(l) /\ i + 1 \in 1..Len(l) /\ i <= i + 1
    OBVIOUS
<1> QED
    BY <1>1 DEF InOrder

(* The place of an item is the one that w says. *)
LEMMA InvOnePlace == Inv => OnePlace
<1> SUFFICES ASSUME Inv PROVE OnePlace
    OBVIOUS
<1>1. PICK w : Where(w)
    BY DEF Inv, Known
<1>2. TypeOK
    BY DEF Inv
<1>3. Holds(ptHighPriorityDelayList, w, 2) /\ Holds(ptDelayList, w, 3)
        /\ Holds(events["LOW"], w, 4) /\ Holds(events["NORMAL"], w, 5)
        /\ InOrder(ptHighPriorityDelayList, wTargetTime) /\ InOrder(ptDelayList, wTargetTime)
    BY <1>1 DEF Where, Queued
<1>4. \A list \in Queues : IsInjective(list)
    BY <1>3, NoneTwice DEF Queues
<1>5. \A list \in {ptHighPriorityDelayList, ptDelayList} :
          \A i \in 1..Len(list) - 1 : wTargetTime[list[i]] <= wTargetTime[list[i+1]]
    <2>1. ptHighPriorityDelayList \in Seq(Items) /\ ptDelayList \in Seq(Items)
        BY <1>3 DEF Holds
    <2> QED
        BY <1>3, <2>1, Neighbours
<1>6. ASSUME NEW s \in Items
      PROVE  \E p \in DOMAIN Places : \A q \in DOMAIN Places : s \in Places[q] <=> q = p
    <2>1. DOMAIN Places = 1..8
        BY DEF Places
    <2>2. w[s] \in 1..8
        BY <1>1 DEF Where
    <2>3. ASSUME NEW q \in 1..8 PROVE s \in Places[q] <=> q = w[s]
        <3>1. CASE q = 1
            BY <1>1, <3>1 DEF Places, Where
        <3>2. CASE q = 2
            <4>1. s \in ToSet(ptHighPriorityDelayList) <=> w[s] = 2
                BY <1>3, NoneTwice
            <4> QED
                BY <3>2, <4>1 DEF Places
        <3>3. CASE q = 3
            <4>1. s \in ToSet(ptDelayList) <=> w[s] = 3
                BY <1>3, NoneTwice
            <4> QED
                BY <3>3, <4>1 DEF Places
        <3>4. CASE q = 4
            <4>1. s \in ToSet(events["LOW"]) <=> w[s] = 4
                BY <1>3, NoneTwice
            <4> QED
                BY <3>4, <4>1 DEF Places
        <3>5. CASE q = 5
            <4>1. s \in ToSet(events["NORMAL"]) <=> w[s] = 5
                BY <1>3, NoneTwice
            <4> QED
                BY <3>5, <4>1 DEF Places
        <3>6. CASE q = 6
            BY <1>1, <3>6 DEF Places, Where
        <3>7. CASE q = 7
            BY <1>1, <3>7 DEF Places, Where
        <3>8. CASE q = 8
            BY <1>1, <3>8 DEF Places, Where
        <3> QED
            BY <3>1, <3>2, <3>3, <3>4, <3>5, <3>6, <3>7, <3>8
    <2> QED
        BY <2>1, <2>2, <2>3
<1> QED
    BY <1>2, <1>4, <1>5, <1>6 DEF OnePlace

(* What is being reported is due. *)
LEMMA InvNeverEarly == Inv => NeverEarly
<1> SUFFICES ASSUME Inv, ~stale PROVE NeverEarly
    BY DEF NeverEarly
<1>1. PICK w : Where(w) /\ Timed(w)
    BY DEF Inv, Known
<1>2. mine # NULL => mine \in Items /\ w[mine] = 6
    BY <1>1, Placed DEF Inv
<1>3. isrItem # NULL => isrItem \in Items /\ w[isrItem] = 7
    BY <1>1, Placed DEF Inv
<1> QED
    BY <1>1, <1>2, <1>3 DEF NeverEarly, Timed

(* What the tick leaves on the list of high priority has a later time than *)
(* the tick: the list is in order, and its head is not due.                *)
LEMMA CountOnTime ==
    ASSUME Inv, TickCounts, ~stale'
    PROVE  \A s \in ToSet(ptHighPriorityDelayList') : remain'[s] >= 0
<1>1. TypeOK
    BY DEF Inv
<1>2. isr = "check" /\ ~Due(ptHighPriorityDelayList, wCounter) /\ ~stale /\ remain' = remain
    BY DEF TickCounts
<1>3. ptHighPriorityDelayList' = ptHighPriorityDelayList
    BY DEF TickCounts, lists
<1>4. PICK w : Where(w) /\ Timed(w)
    BY <1>2 DEF Inv, Known
<1>5. Holds(ptHighPriorityDelayList, w, 2) /\ InOrder(ptHighPriorityDelayList, wTargetTime)
        /\ ptHighPriorityDelayList \in Seq(Items)
    BY <1>4 DEF Where, Queued, Holds
<1>6. ToSet(ptHighPriorityDelayList)
        = {ptHighPriorityDelayList[i] : i \in 1..Len(ptHighPriorityDelayList)}
    BY <1>5 DEF ToSet
<1>7. ASSUME NEW i \in 1..Len(ptHighPriorityDelayList)
      PROVE  remain[ptHighPriorityDelayList[i]] >= 0
    <2>1. PICK s \in Items : s = ptHighPriorityDelayList[i]
        BY <1>5
    <2>2. w[s] = 2
        BY <1>5, <2>1 DEF Holds
    <2>3. ptHighPriorityDelayList # <<>>
        BY <1>5
    <2>4. PICK h \in Items : h = Head(ptHighPriorityDelayList)
        BY <1>5, <2>3, TailSeq
    <2>5. wTargetTime[h] <= wTargetTime[s]
        BY <1>5, <2>1, <2>3, <2>4, OrderTail
    <2>6. ~(wTargetTime[h] <= wCounter)
        BY <1>2, <2>3, <2>4 DEF Due
    <2>7. Aged(remain[s], wTargetTime[s], Clock) /\ Clock = wCounter + 1
        BY <1>1, <1>2, <1>4, <2>2, Types DEF Timed, Clock
    <2>8. wTargetTime[h] \in Nat /\ wTargetTime[s] \in Nat /\ wCounter \in Nat
            /\ remain[s] \in -2..MaxDelay
        BY <1>1, <2>1, Types
    <2>9. wTargetTime[s] - (wCounter + 1) >= 0
        BY <2>5, <2>6, <2>8
    <2> QED
        BY <2>1, <2>7, <2>8, <2>9, Numbers DEF Aged
<1> QED
    BY <1>2, <1>3, <1>6, <1>7

(* No item is lost, listed twice or freed twice, and the delay lists stay  *)
(* sorted, whatever the interrupt, the task and a cancel do between each   *)
(* other's steps.                                                          *)
THEOREM Safety == Spec => []OnePlace
BY InvHolds, InvOnePlace, PTL

(* No delay is reported before its time, unless the counter was reset      *)
(* under a copy of it.                                                     *)
THEOREM NotBefore == Spec => []NeverEarly
BY InvHolds, InvNeverEarly, PTL

(* No tick ends with a delay of high priority overdue, with the same       *)
(* exception.                                                              *)
THEOREM NotAfter == Spec => OnTime
<1>1. ASSUME Inv, [Next]_vars, isr # "off", isr' = "off", ~stale'
      PROVE  \A s \in ToSet(ptHighPriorityDelayList') : remain'[s] >= 0
    <2>1. CASE TickCounts
        BY <1>1, <2>1, CountOnTime
    <2>2. ~TickCounts => FALSE
        BY <1>1 DEF Next, Request, IsrRequest, Cancel, MayCall, CallStep, NewItem, NoItem,
           AddItem, CancelHigh, CancelNormal, Cancelled, TaskCalled, TaskGoesOn,
           HandlerReturns, Tick, Main, Called, LoadCounter, SaveCounter, HeadDue, Checking,
           PopHead, NothingDue, RaiseLow, RaiseNormal, RaiseFrom, NormalDone, LowDone,
           TickResets, TickBegins, TickFires, IsrReturns, vars, tick
    <2> QED
        BY <2>1, <2>2
<1>2. Inv /\ [Next]_vars =>
          [isr # "off" /\ isr' = "off" /\ ~stale' =>
              \A s \in ToSet(ptHighPriorityDelayList') : remain'[s] >= 0]_vars
    BY <1>1
<1> QED
    BY <1>2, InvHolds, PTL DEF Spec, OnTime
================================================================================
