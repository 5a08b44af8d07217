---------------------------- MODULE Scheduler_proofs ----------------------------
(***************************************************************************)
(* Theorems about Scheduler, for every size of the task pool and of the    *)
(* stacks and every configuration in which one task at a time waits for    *)
(* the event.                                                              *)
(***************************************************************************)
EXTENDS Scheduler, SequenceTheorems, FiniteSetTheorems, WellFoundedInduction, TLAPS

(* The lists of control blocks; a wait list has the name of its flag.      *)
FreeList == 1
ReadyList == 2
Lists == {FreeList, ReadyList} \cup Flags

First(s) == IF s = <<>> THEN NULL ELSE s[1]
Last(s) == IF s = <<>> THEN NULL ELSE s[Len(s)]

(* f, with v for x *)
Put(f, x, v) == [f EXCEPT ![x] = v]

(* In the proofs, l[p] is the sequence of the blocks on list p. *)
On(l, p) == {l[p][i] : i \in 1..Len(l[p])}

(* No block is on two lists, or twice on one. *)
Apart(l) ==
    \A p, q \in Lists : \A i \in 1..Len(l[p]), j \in 1..Len(l[q]) :
        l[p][i] = l[q][j] => p = q /\ i = j

(* The links lead along the lists. *)
Linked(l, next) ==
    \A p \in Lists : \A i \in 1..Len(l[p]) :
        next[l[p][i]] = IF i = Len(l[p]) THEN NULL ELSE l[p][i + 1]

Sound(l, next) == l \in [Lists -> Seq(Tasks)] /\ Apart(l) /\ Linked(l, next)

--------------------------------------------------------------------------------
(* What becomes of the lists.                                              *)

(* NULL is no block, and the lists are four. *)
LEMMA Names ==
    /\ NULL \notin Tasks /\ Tasks \subseteq Nat
    /\ FreeList \in Lists /\ ReadyList \in Lists /\ Event \in Lists /\ Section \in Lists
    /\ FreeList # ReadyList /\ FreeList \notin Flags /\ ReadyList \notin Flags
    /\ Event # Section /\ NULL \notin Flags
BY FlagsAssumption DEF NULL, Tasks, Lists, FreeList, ReadyList, Flags

(* A sequence of blocks is empty, or has a first and a last one. *)
LEMMA SeqEnds ==
    ASSUME NEW s \in Seq(Tasks)
    PROVE  /\ Len(s) \in Nat
           /\ s = <<>> => Len(s) = 0 /\ First(s) = NULL /\ Last(s) = NULL
           /\ s # <<>> => /\ Len(s) # 0 /\ First(s) = s[1] /\ First(s) \in Tasks
                          /\ Last(s) = s[Len(s)] /\ Last(s) \in Tasks
                          /\ First(s) # NULL /\ Last(s) # NULL
<1>1. CASE s = <<>>
    BY <1>1 DEF First, Last
<1>2. CASE s # <<>>
    <2>1. Len(s) \in Nat /\ Len(s) # 0
        BY <1>2
    <2>2. s[1] \in Tasks /\ s[Len(s)] \in Tasks
        BY <2>1
    <2> QED
        BY <1>2, <2>1, <2>2, Names DEF First, Last
<1> QED
    BY <1>1, <1>2

(* t before s *)
Push(t, s) == <<t>> \o s

(* Tail leaves the blocks after the first, in order. *)
LEMMA TailSeq ==
    ASSUME NEW s \in Seq(Tasks), s # <<>>
    PROVE  /\ Tail(s) \in Seq(Tasks) /\ Len(Tail(s)) = Len(s) - 1
           /\ \A i \in 1..Len(Tail(s)) : Tail(s)[i] = s[i + 1] /\ i + 1 \in 1..Len(s)
OBVIOUS

(* Append leaves the blocks in place, with one after them. *)
LEMMA AppendSeq ==
    ASSUME NEW s \in Seq(Tasks), NEW t \in Tasks, NEW n, n = Len(s)
    PROVE  /\ Append(s, t) \in Seq(Tasks) /\ Len(Append(s, t)) = n + 1
           /\ Append(s, t)[n + 1] = t /\ \A i \in 1..n : Append(s, t)[i] = s[i]
OBVIOUS

(* Push moves every block by one place. *)
LEMMA PushSeq ==
    \A s \in Seq(Tasks) : \A t \in Tasks :
        /\ Push(t, s) \in Seq(Tasks) /\ Len(Push(t, s)) = Len(s) + 1
        /\ Push(t, s)[1] = t /\ \A i \in 1..Len(s) : Push(t, s)[i + 1] = s[i]
BY DEF Push

(* Places near the ends of a sequence. *)
LEMMA Near ==
    ASSUME NEW n \in Nat, n # 0
    PROVE  /\ 1 \in 1..n /\ n \in 1..n /\ n - 1 + 1 = n
           /\ n # 1 => 2 \in 1..n /\ 1 \in 1..n - 1 /\ n - 1 \in 1..n - 1 /\ n - 1 # 0
OBVIOUS

(* The ends of a sequence without its first block. *)
LEMMA TailEnds ==
    ASSUME NEW s \in Seq(Tasks), s # <<>>
    PROVE  /\ Len(s) = 1 => First(Tail(s)) = NULL /\ Last(Tail(s)) = NULL
           /\ Len(s) # 1 => First(Tail(s)) = s[2] /\ s[2] \in Tasks /\ Last(Tail(s)) = Last(s)
<1>1. PICK n \in Nat : n = Len(s) /\ n # 0
    OBVIOUS
<1>2. /\ Tail(s) \in Seq(Tasks) /\ Len(Tail(s)) = n - 1
      /\ \A i \in 1..n - 1 : Tail(s)[i] = s[i + 1]
    BY <1>1
<1>3. CASE n = 1
    <2>0. 1 - 1 = 0
        OBVIOUS
    <2>1. Tail(s) = <<>>
        BY <1>2, <1>3, <2>0, EmptySeq
    <2> QED
        BY <1>1, <1>3, <2>1 DEF First, Last
<1>4. CASE n # 1
    <2>1. 2 \in 1..n /\ 1 \in 1..n - 1 /\ n - 1 \in 1..n - 1 /\ 1 + 1 = 2 /\ n - 1 + 1 = n
        BY <1>4, <1>1, Near
    <2>2. Tail(s)[1] = s[2] /\ Tail(s)[n - 1] = s[n]
        BY <1>2, <2>1
    <2>3. s[2] \in Tasks
        BY <1>1, <2>1
    <2>4. n - 1 # 0
        BY <1>1, <1>4
    <2> QED
        BY <1>1, <1>2, <1>4, <2>2, <2>3, <2>4, SeqEnds, EmptySeq
<1> QED
    BY <1>1, <1>3, <1>4

(* The first block of list p is taken off. *)
LEMMA Popped ==
    ASSUME NEW l, NEW next, Sound(l, next), NEW p \in Lists, l[p] # <<>>,
           NEW l2, l2 = Put(l, p, Tail(l[p])), NEW t, t = First(l[p])
    PROVE  /\ Sound(l2, next) /\ t \in Tasks
           /\ On(l2, p) = On(l, p) \ {t} /\ t \in On(l, p)
           /\ \A q \in Lists \ {p} : l2[q] = l[q] /\ On(l2, q) = On(l, q) /\ t \notin On(l, q)
           /\ First(l2[p]) = next[t]
           /\ Last(l2[p]) = IF next[t] = NULL THEN NULL ELSE Last(l[p])
<1>0. l \in [Lists -> Seq(Tasks)] /\ l[p] \in Seq(Tasks)
    BY DEF Sound
<1>1. /\ l \in [Lists -> Seq(Tasks)] /\ l2 \in [Lists -> Seq(Tasks)]
      /\ l[p] \in Seq(Tasks) /\ Len(l[p]) \in Nat /\ Len(l[p]) # 0
      /\ l2[p] = Tail(l[p]) /\ \A q \in Lists \ {p} : l2[q] = l[q]
    BY <1>0, TailSeq, SeqEnds DEF Put
<1>2. t = l[p][1] /\ t \in Tasks
    BY <1>1, SeqEnds
<1>3. /\ l2[p] \in Seq(Tasks) /\ Len(l2[p]) = Len(l[p]) - 1
      /\ \A i \in 1..Len(l2[p]) : l2[p][i] = l[p][i + 1] /\ i + 1 \in 1..Len(l[p])
    BY <1>1, TailSeq
<1>4. Apart(l2)
    <2> SUFFICES ASSUME NEW a \in Lists, NEW b \in Lists,
                        NEW i \in 1..Len(l2[a]), NEW j \in 1..Len(l2[b]), l2[a][i] = l2[b][j]
                 PROVE  a = b /\ i = j
        BY DEF Apart
    <2>1. i \in Nat /\ j \in Nat
        BY <1>1
    <2>2. PICK m : m = IF a = p THEN i + 1 ELSE i
        OBVIOUS
    <2>3. PICK n : n = IF b = p THEN j + 1 ELSE j
        OBVIOUS
    <2>4. m \in 1..Len(l[a]) /\ l[a][m] = l2[a][i]
        BY <1>1, <1>3, <2>2
    <2>5. n \in 1..Len(l[b]) /\ l[b][n] = l2[b][j]
        BY <1>1, <1>3, <2>3
    <2>6. a = b /\ m = n
        BY <2>4, <2>5 DEF Sound, Apart
    <2> QED
        BY <2>1, <2>2, <2>3, <2>6
<1>5. Linked(l2, next)
    <2> SUFFICES ASSUME NEW q \in Lists, NEW i \in 1..Len(l2[q])
                 PROVE  next[l2[q][i]] = IF i = Len(l2[q]) THEN NULL ELSE l2[q][i + 1]
        BY DEF Linked
    <2>1. CASE q # p
        BY <1>1, <2>1 DEF Sound, Linked
    <2>2. CASE q = p
        <3>1. next[l[p][i + 1]] = IF i + 1 = Len(l[p]) THEN NULL ELSE l[p][i + 1 + 1]
            BY <1>3, <2>2 DEF Sound, Linked
        <3>2. CASE i = Len(l2[p])
            BY <1>1, <1>3, <2>2, <3>1, <3>2
        <3>3. CASE i # Len(l2[p])
            <4>0. /\ i \in 1..Len(l2[p]) /\ Len(l2[p]) = Len(l[p]) - 1
                  /\ Len(l2[p]) \in Nat /\ Len(l[p]) \in Nat
                BY <1>1, <1>3, <2>2
            <4>1. i + 1 \in 1..Len(l2[p]) /\ i + 1 # Len(l[p])
                BY <3>3, <4>0
            <4> QED
                BY <1>3, <2>2, <3>1, <3>3, <4>1
        <3> QED
            BY <3>2, <3>3
    <2> QED
        BY <2>1, <2>2
<1>6. On(l2, p) = On(l, p) \ {t} /\ t \in On(l, p)
    <2>1. t \in On(l, p)
        BY <1>1, <1>2 DEF On
    <2>2. ASSUME NEW u \in On(l2, p) PROVE u \in On(l, p) \ {t}
        <3>1. PICK i \in 1..Len(l2[p]) : u = l2[p][i]
            BY DEF On
        <3>2. i + 1 \in 1..Len(l[p]) /\ u = l[p][i + 1] /\ 1 \in 1..Len(l[p]) /\ i + 1 # 1
            BY <1>1, <1>3, <3>1
        <3>3. u # t
            BY <1>2, <3>2 DEF Sound, Apart
        <3> QED
            BY <3>2, <3>3 DEF On
    <2>3. ASSUME NEW u \in On(l, p) \ {t} PROVE u \in On(l2, p)
        <3>1. PICK i \in 1..Len(l[p]) : u = l[p][i]
            BY DEF On
        <3>0. i # 1 /\ i \in Nat /\ i <= Len(l[p])
            BY <1>1, <1>2, <3>1
        <3>2. i - 1 \in 1..Len(l2[p]) /\ i - 1 + 1 = i
            BY <1>1, <1>3, <3>0
        <3> QED
            BY <1>3, <3>1, <3>2 DEF On
    <2> QED
        BY <2>1, <2>2, <2>3
<1>7. \A q \in Lists \ {p} : l2[q] = l[q] /\ On(l2, q) = On(l, q) /\ t \notin On(l, q)
    <2> SUFFICES ASSUME NEW q \in Lists \ {p} PROVE t \notin On(l, q)
        BY <1>1 DEF On
    <2>1. 1 \in 1..Len(l[p])
        BY <1>1
    <2> QED
        BY <1>2, <2>1 DEF Sound, Apart, On
<1>8. First(l2[p]) = next[t] /\ Last(l2[p]) = IF next[t] = NULL THEN NULL ELSE Last(l[p])
    <2>0. 1 \in 1..Len(l[p])
        BY <1>1
    <2>1. next[t] = IF 1 = Len(l[p]) THEN NULL ELSE l[p][2]
        <3>1. next[l[p][1]] = IF 1 = Len(l[p]) THEN NULL ELSE l[p][1 + 1]
            BY <2>0 DEF Sound, Linked
        <3>2. 1 + 1 = 2
            OBVIOUS
        <3> QED
            BY <1>2, <3>1, <3>2
    <2>2. l[p] \in Seq(Tasks) /\ l2[p] = Tail(l[p])
        BY <1>1
    <2> QED
        BY <2>1, <2>2, TailEnds, Names
<1> QED
    BY <1>1, <1>2, <1>4, <1>5, <1>6, <1>7, <1>8 DEF Sound

(* NULL instead of a link of t, which is on no list, is seen by none; the  *)
(* link of the last block of p, if there is one, leads to t.               *)
Tied(l, p, t, next) ==
    LET cut == [next EXCEPT ![t] = NULL]
    IN  IF l[p] = <<>> THEN cut ELSE [cut EXCEPT ![Last(l[p])] = t]

(* Block t, which is on no list, is put at the end of list p. *)
LEMMA Appended ==
    ASSUME NEW l, NEW next \in [Tasks -> Tasks \cup {NULL}], Sound(l, next), NEW p \in Lists,
           NEW t \in Tasks, \A q \in Lists : t \notin On(l, q),
           NEW l2, l2 = Put(l, p, Append(l[p], t)),
           NEW next2, next2 = Tied(l, p, t, next)
    PROVE  /\ Sound(l2, next2) /\ next2 \in [Tasks -> Tasks \cup {NULL}]
           /\ On(l2, p) = On(l, p) \cup {t}
           /\ \A q \in Lists \ {p} : l2[q] = l[q] /\ On(l2, q) = On(l, q)
           /\ First(l2[p]) = IF l[p] = <<>> THEN t ELSE First(l[p])
           /\ Last(l2[p]) = t
<1>1. /\ l \in [Lists -> Seq(Tasks)] /\ l[p] \in Seq(Tasks)
      /\ l2[p] = Append(l[p], t) /\ \A q \in Lists \ {p} : l2[q] = l[q]
    BY DEF Sound, Put
<1>2. PICK n \in Nat : n = Len(l[p])
    BY <1>1
<1>3. /\ l2[p] \in Seq(Tasks) /\ Len(l2[p]) = n + 1 /\ l2[p][n + 1] = t
      /\ \A i \in 1..n : l2[p][i] = l[p][i]
    BY <1>1, <1>2, AppendSeq
<1>4. l2 \in [Lists -> Seq(Tasks)]
    BY <1>1, <1>3 DEF Put
<1>5. \A q \in Lists : Len(l[q]) \in Nat
    BY <1>1
<1>6. ASSUME NEW q \in Lists, NEW i \in 1..Len(l2[q])
      PROVE  \/ q = p /\ i = n + 1 /\ l2[q][i] = t
             \/ (q # p \/ i # n + 1) /\ i \in 1..Len(l[q]) /\ l2[q][i] = l[q][i] /\ l[q][i] # t
    <2>1. CASE q = p /\ i = n + 1
        BY <1>3, <2>1
    <2>2. CASE q # p \/ i # n + 1
        <3>1. i \in 1..Len(l[q])
            BY <1>1, <1>2, <1>3, <2>2
        <3>2. l2[q][i] = l[q][i]
            BY <1>1, <1>2, <1>3, <3>1
        <3> QED
            BY <2>2, <3>1, <3>2 DEF On
    <2> QED
        BY <2>1, <2>2
<1>7. Apart(l2)
    <2> SUFFICES ASSUME NEW a \in Lists, NEW b \in Lists,
                        NEW i \in 1..Len(l2[a]), NEW j \in 1..Len(l2[b]), l2[a][i] = l2[b][j]
                 PROVE  a = b /\ i = j
        BY DEF Apart
    <2> QED
        BY <1>6 DEF Sound, Apart
<1>8. next2 \in [Tasks -> Tasks \cup {NULL}]
    BY DEF Tied
<1>9. Linked(l2, next2)
    <2> SUFFICES ASSUME NEW q \in Lists, NEW i \in 1..Len(l2[q])
                 PROVE  next2[l2[q][i]] = IF i = Len(l2[q]) THEN NULL ELSE l2[q][i + 1]
        BY DEF Linked
    <2>1. CASE q = p /\ i = n + 1
        <3>1. l2[q][i] = t /\ i = Len(l2[q])
            BY <1>3, <2>1
        <3>2. l[p] # <<>> => Last(l[p]) # t
            <4> SUFFICES ASSUME l[p] # <<>> PROVE Last(l[p]) \in On(l, p)
                OBVIOUS
            <4> QED
                BY <1>1, <1>2, SeqEnds, Near DEF On
        <3>3. next2[t] = NULL
            BY <3>2 DEF Tied
        <3> QED
            BY <3>1, <3>3
    <2>2. CASE q # p \/ i # n + 1
        <3>1. i \in 1..Len(l[q]) /\ l2[q][i] = l[q][i] /\ l[q][i] # t
            BY <1>6, <2>2
        <3>2. next[l[q][i]] = IF i = Len(l[q]) THEN NULL ELSE l[q][i + 1]
            BY <3>1 DEF Sound, Linked
        <3>3. l[q][i] \in Tasks
            BY <1>1, <3>1
        <3>4. CASE q = p /\ i = n
            <4>1. l[p] # <<>> /\ Last(l[p]) = l[p][n]
                <5>1. n # 0
                    BY <1>2, <3>1, <3>4
                <5> QED
                    BY <1>1, <1>2, <5>1, SeqEnds
            <4>2. next2[l[q][i]] = t
                BY <3>3, <3>4, <4>1 DEF Tied
            <4>3. i # Len(l2[q]) /\ l2[q][i + 1] = t
                BY <1>3, <3>4
            <4> QED
                BY <3>1, <4>2, <4>3
        <3>5. CASE q # p \/ i # n
            <4>1. l[p] # <<>> => l[q][i] # Last(l[p])
                <5> SUFFICES ASSUME l[p] # <<>> PROVE l[q][i] # Last(l[p])
                    OBVIOUS
                <5>1. n \in 1..Len(l[p]) /\ Last(l[p]) = l[p][n]
                    BY <1>1, <1>2, SeqEnds, Near
                <5> QED
                    BY <3>1, <3>5, <5>1 DEF Sound, Apart
            <4>2. next2[l[q][i]] = next[l[q][i]]
                BY <3>1, <3>3, <4>1 DEF Tied
            <4>3. (i = Len(l[q])) <=> (i = Len(l2[q]))
                <5>1. CASE q = p
                    <6>1. i # n /\ i # n + 1 /\ Len(l[q]) = n /\ Len(l2[q]) = n + 1
                        BY <1>2, <1>3, <2>2, <3>5, <5>1
                    <6> QED
                        BY <6>1
                <5>2. CASE q # p
                    BY <1>1, <5>2
                <5> QED
                    BY <5>1, <5>2
            <4>4. i # Len(l[q]) => l2[q][i + 1] = l[q][i + 1]
                <5>1. CASE q = p
                    <6>1. i # n => i + 1 \in 1..n
                        BY <1>2, <3>1, <5>1
                    <6> QED
                        BY <1>2, <1>3, <5>1, <6>1
                <5>2. CASE q # p
                    BY <1>1, <5>2
                <5> QED
                    BY <5>1, <5>2
            <4> QED
                BY <3>1, <3>2, <4>2, <4>3, <4>4
        <3> QED
            BY <3>4, <3>5
    <2> QED
        BY <2>1, <2>2
<1>10. On(l2, p) = On(l, p) \cup {t}
    <2>1. ASSUME NEW u \in On(l2, p) PROVE u \in On(l, p) \cup {t}
        BY <1>6 DEF On
    <2>2. ASSUME NEW u \in On(l, p) PROVE u \in On(l2, p)
        <3>1. PICK i \in 1..n : u = l[p][i]
            BY <1>2 DEF On
        <3>2. i \in 1..Len(l2[p]) /\ l2[p][i] = u
            BY <1>3, <3>1
        <3> QED
            BY <3>2 DEF On
    <2>3. t \in On(l2, p)
        <3>1. n + 1 \in 1..Len(l2[p])
            BY <1>3
        <3> QED
            BY <1>3, <3>1 DEF On
    <2> QED
        BY <2>1, <2>2, <2>3
<1>11. First(l2[p]) = (IF l[p] = <<>> THEN t ELSE First(l[p])) /\ Last(l2[p]) = t
    <2>1. l2[p] # <<>> /\ First(l2[p]) = l2[p][1] /\ Last(l2[p]) = l2[p][n + 1]
        <3>1. n + 1 # 0
            BY <1>2
        <3>2. l2[p] # <<>>
            BY <1>3, <3>1, EmptySeq
        <3> QED
            BY <1>3, <3>2, SeqEnds
    <2>2. CASE l[p] = <<>>
        BY <1>1, <1>2, <1>3, <2>1, <2>2
    <2>3. CASE l[p] # <<>>
        <3>1. 1 \in 1..n /\ First(l[p]) = l[p][1]
            BY <1>1, <1>2, <2>3, SeqEnds, Near
        <3> QED
            BY <1>3, <2>1, <2>3, <3>1
    <2> QED
        BY <2>2, <2>3
<1>12. \A q \in Lists \ {p} : l2[q] = l[q] /\ On(l2, q) = On(l, q)
    BY <1>1 DEF On
<1> QED
    BY <1>4, <1>7, <1>8, <1>9, <1>10, <1>11, <1>12 DEF Sound

(* The link of a block that is on no list is free. *)
LEMMA Unlisted ==
    ASSUME NEW l, NEW next \in [Tasks -> Tasks \cup {NULL}], Sound(l, next),
           NEW t \in Tasks, \A q \in Lists : t \notin On(l, q), NEW x
    PROVE  Sound(l, Put(next, t, x)) /\ Put(next, t, x) \in [Tasks -> Tasks \cup {NULL, x}]
<1> SUFFICES ASSUME NEW q \in Lists, NEW i \in 1..Len(l[q])
             PROVE  Put(next, t, x)[l[q][i]] = next[l[q][i]]
    BY DEF Sound, Linked, Put
<1>1. l[q][i] \in Tasks /\ l[q][i] # t
    BY DEF On, Sound
<1> QED
    BY <1>1 DEF Put

(* Block t, which is on no list, is put before list p. *)
LEMMA Pushed ==
    ASSUME NEW l, NEW next \in [Tasks -> Tasks \cup {NULL}], Sound(l, next), NEW p \in Lists,
           NEW t \in Tasks, \A q \in Lists : t \notin On(l, q),
           NEW l2, l2 = Put(l, p, Push(t, l[p])),
           NEW next2, next2 = Put(next, t, First(l[p]))
    PROVE  /\ Sound(l2, next2)
           /\ On(l2, p) = On(l, p) \cup {t} /\ First(l2[p]) = t
           /\ \A q \in Lists \ {p} : l2[q] = l[q] /\ On(l2, q) = On(l, q)
<1>1. /\ l \in [Lists -> Seq(Tasks)] /\ l[p] \in Seq(Tasks)
      /\ l2[p] = Push(t, l[p]) /\ \A q \in Lists \ {p} : l2[q] = l[q]
    BY DEF Sound, Put
<1>2. PICK n \in Nat : n = Len(l[p])
    BY <1>1
<1>3. /\ l2[p] \in Seq(Tasks) /\ Len(l2[p]) = n + 1 /\ l2[p][1] = t
      /\ \A i \in 1..n : l2[p][i + 1] = l[p][i]
    <2>1. PICK s \in Seq(Tasks) : s = l[p]
        BY <1>1
    <2>2. n = Len(s) /\ l2[p] = Push(t, s)
        BY <1>1, <1>2, <2>1
    <2>3. /\ Push(t, s) \in Seq(Tasks) /\ Len(Push(t, s)) = n + 1
          /\ Push(t, s)[1] = t /\ \A i \in 1..n : Push(t, s)[i + 1] = s[i]
        BY <2>2, PushSeq
    <2> QED
        BY <2>1, <2>2, <2>3
<1>4. l2 \in [Lists -> Seq(Tasks)]
    BY <1>1, <1>3 DEF Put
<1>5. ASSUME NEW q \in Lists, NEW i \in 1..Len(l2[q])
      PROVE  \/ q = p /\ i = 1 /\ l2[q][i] = t
             \/ q = p /\ i # 1 /\ i - 1 \in 1..n /\ l2[q][i] = l[q][i - 1] /\ l[q][i - 1] # t
             \/ q # p /\ i \in 1..Len(l[q]) /\ l2[q][i] = l[q][i] /\ l[q][i] # t
    <2>1. CASE q = p /\ i = 1
        BY <1>3, <2>1
    <2>2. CASE q = p /\ i # 1
        <3>1. i - 1 \in 1..n /\ i - 1 + 1 = i
            BY <1>3, <2>2
        <3>2. l2[q][i] = l[q][i - 1]
            BY <1>3, <2>2, <3>1
        <3> QED
            BY <1>2, <2>2, <3>1, <3>2 DEF On
    <2>3. CASE q # p
        BY <1>1, <2>3 DEF On
    <2> QED
        BY <2>1, <2>2, <2>3
<1>6. Apart(l2)
    <2> SUFFICES ASSUME NEW a \in Lists, NEW b \in Lists,
                        NEW i \in 1..Len(l2[a]), NEW j \in 1..Len(l2[b]), l2[a][i] = l2[b][j]
                 PROVE  a = b /\ i = j
        BY DEF Apart
    <2>1. i \in Int /\ j \in Int
        OBVIOUS
    <2>2. PICK m : m = IF a = p THEN i - 1 ELSE i
        OBVIOUS
    <2>3. PICK k : k = IF b = p THEN j - 1 ELSE j
        OBVIOUS
    <2>4. CASE l2[a][i] = t
        <3>1. a = p /\ i = 1
            BY <1>5, <2>4
        <3>2. b = p /\ j = 1
            BY <1>5, <2>4
        <3> QED
            BY <3>1, <3>2
    <2>5. CASE l2[a][i] # t
        <3>1. m \in 1..Len(l[a]) /\ l[a][m] = l2[a][i]
            BY <1>2, <1>5, <2>2, <2>5
        <3>2. k \in 1..Len(l[b]) /\ l[b][k] = l2[b][j]
            BY <1>2, <1>5, <2>3, <2>5
        <3>3. a = b /\ m = k
            BY <3>1, <3>2 DEF Sound, Apart
        <3> QED
            BY <2>1, <2>2, <2>3, <3>3
    <2> QED
        BY <2>4, <2>5
<1>7. Linked(l2, next2)
    <2> SUFFICES ASSUME NEW q \in Lists, NEW i \in 1..Len(l2[q])
                 PROVE  next2[l2[q][i]] = IF i = Len(l2[q]) THEN NULL ELSE l2[q][i + 1]
        BY DEF Linked
    <2>1. CASE q = p /\ i = 1
        <3>1. next2[l2[q][i]] = First(l[p])
            BY <1>3, <2>1 DEF Put
        <3>2. CASE n = 0
            <4>1. l[p] = <<>>
                BY <1>1, <1>2, <3>2, EmptySeq
            <4> QED
                BY <1>3, <2>1, <3>1, <3>2, <4>1 DEF First
        <3>3. CASE n # 0
            <4>1. 1 \in 1..n /\ First(l[p]) = l[p][1]
                BY <1>1, <1>2, <3>3, SeqEnds, Near
            <4>2. l2[p][1 + 1] = l[p][1] /\ 1 # n + 1
                BY <1>3, <3>3, <4>1
            <4> QED
                BY <1>3, <2>1, <3>1, <4>1, <4>2
        <3> QED
            BY <3>2, <3>3
    <2>2. CASE q = p /\ i # 1
        <3>1. i - 1 \in 1..n /\ l2[q][i] = l[q][i - 1] /\ l[q][i - 1] # t /\ i \in Int
            BY <1>5, <2>2
        <3>2. next[l[q][i - 1]] = IF i - 1 = n THEN NULL ELSE l[q][i - 1 + 1]
            BY <1>2, <2>2, <3>1 DEF Sound, Linked
        <3>3. l[q][i - 1] \in Tasks
            BY <1>1, <1>2, <2>2, <3>1
        <3>4. next2[l2[q][i]] = next[l[q][i - 1]]
            BY <3>1, <3>3 DEF Put
        <3>5. i - 1 + 1 = i /\ (i - 1 = n <=> i = n + 1) /\ (i # n + 1 => i \in 1..n)
            BY <3>1
        <3> QED
            BY <1>3, <2>2, <3>2, <3>4, <3>5
    <2>3. CASE q # p
        <3>1. i \in 1..Len(l[q]) /\ l2[q] = l[q] /\ l[q][i] # t /\ l[q][i] \in Tasks
            BY <1>1, <1>5, <2>3
        <3> QED
            BY <3>1 DEF Sound, Linked, Put
    <2> QED
        BY <2>1, <2>2, <2>3
<1>8. On(l2, p) = On(l, p) \cup {t}
    <2>1. ASSUME NEW u \in On(l2, p) PROVE u \in On(l, p) \cup {t}
        BY <1>2, <1>5 DEF On
    <2>2. ASSUME NEW u \in On(l, p) PROVE u \in On(l2, p)
        <3>1. PICK i \in 1..n : u = l[p][i]
            BY <1>2 DEF On
        <3>2. i + 1 \in 1..n + 1
            OBVIOUS
        <3>3. l2[p][i + 1] = u
            BY <1>3, <3>1
        <3> QED
            BY <1>3, <3>2, <3>3 DEF On
    <2>3. 1 \in 1..Len(l2[p])
        BY <1>3
    <2>4. t \in On(l2, p)
        BY <1>3, <2>3 DEF On
    <2> QED
        BY <2>1, <2>2, <2>4
<1>9. First(l2[p]) = t
    <2>1. l2[p] # <<>>
        BY <1>1, <1>3, EmptySeq
    <2> QED
        BY <1>3, <2>1, SeqEnds
<1>10. \A q \in Lists \ {p} : l2[q] = l[q] /\ On(l2, q) = On(l, q)
    BY <1>1 DEF On
<1> QED
    BY <1>4, <1>6, <1>7, <1>8, <1>9, <1>10 DEF Sound

(* List p is emptied. *)
LEMMA Emptied ==
    ASSUME NEW l, NEW next, Sound(l, next), NEW p \in Lists,
           NEW l2, l2 = Put(l, p, <<>>)
    PROVE  /\ Sound(l2, next) /\ l2[p] = <<>> /\ On(l2, p) = {}
           /\ \A q \in Lists \ {p} : l2[q] = l[q] /\ On(l2, q) = On(l, q)
           /\ \A t \in On(l, p) : \A q \in Lists : t \notin On(l2, q)
<1>1. l2 \in [Lists -> Seq(Tasks)] /\ l2[p] = <<>> /\ \A q \in Lists \ {p} : l2[q] = l[q]
    BY DEF Sound, Put
<1>2. On(l2, p) = {} /\ \A q \in Lists \ {p} : On(l2, q) = On(l, q)
    BY <1>1 DEF On
<1>3. \A t \in On(l, p) : \A q \in Lists \ {p} : t \notin On(l, q)
    BY DEF Sound, Apart, On
<1>4. \A q \in Lists : \A i \in 1..Len(l2[q]) : q # p
    BY <1>1
<1>5. Apart(l2) /\ Linked(l2, next)
    BY <1>1, <1>4 DEF Sound, Apart, Linked
<1> QED
    BY <1>1, <1>2, <1>3, <1>5 DEF Sound

--------------------------------------------------------------------------------
(* What the walks along pNext find.                                        *)

(* Every set of numbers that is not empty has a least one. *)
LEMMA Smallest ==
    ASSUME NEW S, S \subseteq Nat, S # {}
    PROVE  \E m \in S : \A n \in S : m <= n
<1> DEFINE R == {ss \in Nat \X Nat : ss[1] < ss[2]}
<1>1. IsWellFoundedOn(R, Nat)
    BY NatLessThanWellFounded, Zenon DEF OpToRel
<1>2. PICK x \in S : \A y \in S : ~(<<y, x>> \in R)
    <2> HIDE DEF R
    <2> QED
        BY <1>1, WFMin
<1>3. ASSUME NEW n \in S  PROVE x <= n
    <2>1. <<n, x>> \notin R
        BY <1>2
    <2>2. n \in Nat /\ x \in Nat
        OBVIOUS
    <2> QED
        BY <2>1, <2>2
<1> QED
    BY <1>3

(* Two walks with the same beginning and the same steps are the same. *)
LEMMA SameWalk ==
    ASSUME NEW g, NEW h,
           g[0] = h[0], \A k \in 1..NumTasks : g[k - 1] = h[k - 1] => g[k] = h[k]
    PROVE  \A k \in 0..NumTasks : g[k] = h[k]
<1> DEFINE S == {k \in 0..NumTasks : g[k] # h[k]}
<1>1. CASE S = {}
    BY <1>1
<1>2. CASE S # {}
    <2>1. S \subseteq Nat
        BY PoolAssumption
    <2>2. PICK m \in S : \A n \in S : m <= n
        <3> HIDE DEF S
        <3> QED
            BY <1>2, <2>1, Smallest
    <2>3. m \in 1..NumTasks /\ m - 1 \in 0..NumTasks
        BY PoolAssumption
    <2>4. m - 1 \notin S
        BY <2>2, <2>3
    <2> QED
        BY <2>3, <2>4
<1> QED
    BY <1>1, <1>2

(* A list has at most as many blocks as there are. *)
LEMMA Short ==
    ASSUME NEW l, NEW next, Sound(l, next), NEW p \in Lists
    PROVE  Len(l[p]) \in 0..NumTasks
<1>1. PICK n \in Nat : n = Len(l[p])
    BY DEF Sound
<1> DEFINE f == [i \in 1..n |-> l[p][i]]
<1>2. f \in Injection(1..n, Tasks)
    <2>1. f \in [1..n -> Tasks]
        BY <1>1 DEF Sound
    <2>2. \A i, j \in 1..n : f[i] = f[j] => i = j
        BY <1>1 DEF Sound, Apart
    <2> QED
        BY <2>1, <2>2 DEF Injection, IsInjective
<1>3. IsFiniteSet(Tasks) /\ Cardinality(Tasks) = NumTasks /\ Cardinality(1..n) = n
    <2>1. n \in Int /\ NumTasks \in Int /\ ~(1 > NumTasks) /\ NumTasks - 1 + 1 = NumTasks
        BY PoolAssumption
    <2>2. Cardinality(1..n) = IF 1 > n THEN 0 ELSE n - 1 + 1
        BY <2>1, FS_Interval
    <2>3. IsFiniteSet(Tasks) /\ Cardinality(Tasks) = IF 1 > NumTasks THEN 0 ELSE NumTasks - 1 + 1
        BY <2>1, FS_Interval DEF Tasks
    <2> QED
        BY <2>1, <2>2, <2>3
<1>4. Cardinality(1..n) <= Cardinality(Tasks)
    <2> HIDE DEF f
    <2> QED
        BY <1>2, <1>3, FS_Injection
<1> QED
    BY <1>1, <1>3, <1>4, PoolAssumption

(* The walk from the head of a list passes its blocks in order, and then   *)
(* stays at NULL.                                                          *)
LEMMA WalkIs ==
    ASSUME NEW l, Sound(l, pNext), NEW p \in Lists
    PROVE  Step(First(l[p])) =
               [k \in 0..NumTasks |-> IF k < Len(l[p]) THEN l[p][k + 1] ELSE NULL]
<1> DEFINE head == First(l[p])
           w == [k \in 0..NumTasks |-> IF k < Len(l[p]) THEN l[p][k + 1] ELSE NULL]
<1>1. PICK n \in Nat : n = Len(l[p]) /\ l[p] \in Seq(Tasks)
    BY DEF Sound
<1>2. w[0] = head
    BY <1>1, SeqEnds, PoolAssumption
<1>3. ASSUME NEW k \in 1..NumTasks
      PROVE  w[k] = IF w[k - 1] = NULL THEN NULL ELSE pNext[w[k - 1]]
    <2>1. k - 1 \in 0..NumTasks /\ k - 1 + 1 = k /\ k \in Nat
        BY PoolAssumption
    <2>2. CASE k - 1 < n
        <3>1. k \in 1..n /\ w[k - 1] = l[p][k]
            BY <1>1, <2>1, <2>2
        <3>2. l[p][k] \in Tasks /\ pNext[l[p][k]] = IF k = n THEN NULL ELSE l[p][k + 1]
            BY <1>1, <3>1 DEF Sound, Linked
        <3>3. w[k] = IF k = n THEN NULL ELSE l[p][k + 1]
            BY <1>1, <3>1
        <3> QED
            BY <3>1, <3>2, <3>3, Names
    <2>3. CASE ~(k - 1 < n)
        BY <1>1, <2>1, <2>3
    <2> QED
        BY <2>2, <2>3
<1>4. w = [k \in 0..NumTasks |-> IF k = 0 THEN head
                                 ELSE IF w[k - 1] = NULL THEN NULL
                                 ELSE pNext[w[k - 1]]]
    <2> HIDE DEF head
    <2> QED
        BY <1>2, <1>3, PoolAssumption
<1>5. PICK g : g = Step(head)
    OBVIOUS
<1>6. PICK v : v = w
    OBVIOUS
<1>7. v = [k \in 0..NumTasks |-> IF k = 0 THEN head
                                 ELSE IF v[k - 1] = NULL THEN NULL
                                 ELSE pNext[v[k - 1]]]
    BY <1>4, <1>6
<1> HIDE DEF head, w
<1>8. g = [k \in 0..NumTasks |-> IF k = 0 THEN head
                                 ELSE IF g[k - 1] = NULL THEN NULL
                                 ELSE pNext[g[k - 1]]]
    BY <1>5, <1>7 DEF Step
<1>9. g = v
    <2>1. g = [k \in 0..NumTasks |-> g[k]] /\ v = [k \in 0..NumTasks |-> v[k]]
        BY <1>7, <1>8
    <2>2. g[0] = v[0]
        BY <1>7, <1>8, PoolAssumption
    <2>3. \A k \in 1..NumTasks : g[k - 1] = v[k - 1] => g[k] = v[k]
        <3> SUFFICES ASSUME NEW k \in 1..NumTasks, g[k - 1] = v[k - 1] PROVE g[k] = v[k]
            OBVIOUS
        <3>1. k \in 0..NumTasks /\ k # 0
            BY PoolAssumption
        <3> QED
            BY <1>7, <1>8, <3>1
    <2>4. \A k \in 0..NumTasks : g[k] = v[k]
        BY <2>2, <2>3, SameWalk
    <2> QED
        BY <2>1, <2>4
<1> QED
    BY <1>5, <1>6, <1>9 DEF head, w

--------------------------------------------------------------------------------
(* The inductive invariant.                                                *)

(* The variables hold the lists l. *)
Held(l) ==
    /\ Sound(l, pNext)
    /\ freeHead = First(l[FreeList])
    /\ qHead = First(l[ReadyList]) /\ qTail = Last(l[ReadyList])
    /\ \A f \in Flags : ptHead[f] = First(l[f]) /\ ptTail[f] = Last(l[f])

(* Every block is on the list where its state says, or is run.             *)
Placed(l) ==
    /\ On(l, FreeList) = Tasks \ keyed
    /\ running \notin On(l, ReadyList)
    /\ \A f \in Flags : \A t \in On(l, f) :
          /\ ptFlag[t] = f /\ want[t] = f /\ ~bSignal[f] /\ ~bSignalRaised[t]
          /\ bThreadBlocked[t] <=> t # running
          /\ t = running => pc \in {"waits", "block"}
    /\ pc \in {"waits", "block"} /\ ptFlag[running] # NULL
          => running \in On(l, ptFlag[running])
    /\ ~nullRead => \A t \in Tasks : t = running \/ \E p \in Lists : t \in On(l, p)

(* What is known of the task being run. *)
Runner ==
    /\ running = NULL <=> pc = "poll"
    /\ running # NULL => running \in keyed
    /\ pc \in {"waits", "block"} =>
          want[running] = IF ptFlag[running] = NULL THEN Event ELSE ptFlag[running]
    /\ pc = "free" => want[running] = NULL /\ running \notin inside

(* What is known of what the tasks wait for. *)
Wants ==
    /\ \A t \in Tasks \ keyed : want[t] = NULL /\ t \notin inside
    /\ \A t \in Tasks : bSignalRaised[t] => want[t] # NULL
    /\ \A t \in inside : want[t] = NULL
    /\ \A t, u \in Tasks : want[t] = Event /\ want[u] = Event => t = u

(* The tasks to which the section was handed. *)
Heirs == {t \in Tasks : want[t] = Section /\ bSignalRaised[t]}

OneInside ==
    /\ \A t, u \in inside \cup Heirs : t = u
    /\ bSignal[Section] <=> inside \cup Heirs = {}

IInv == TypeOK /\ Runner /\ Wants /\ OneInside /\ \E l : Held(l) /\ Placed(l)

--------------------------------------------------------------------------------
(* What a step finds at the heads of the lists.                            *)

(* The first block of a list is on it. *)
LEMMA FirstOn ==
    ASSUME NEW l, NEW next, Sound(l, next), NEW p \in Lists
    PROVE  /\ l[p] = <<>> => First(l[p]) = NULL /\ Last(l[p]) = NULL /\ On(l, p) = {}
           /\ l[p] # <<>> => /\ First(l[p]) \in On(l, p) /\ Last(l[p]) \in On(l, p)
                             /\ First(l[p]) # NULL /\ Last(l[p]) # NULL
           /\ On(l, p) \subseteq Tasks
<1>1. l[p] \in Seq(Tasks)
    BY DEF Sound
<1>2. CASE l[p] = <<>>
    BY <1>2 DEF First, Last, On
<1>3. CASE l[p] # <<>>
    <2>1. 1 \in 1..Len(l[p]) /\ Len(l[p]) \in 1..Len(l[p])
        BY <1>1, <1>3, SeqEnds, Near
    <2>2. l[p][1] \in On(l, p) /\ l[p][Len(l[p])] \in On(l, p)
        BY <2>1 DEF On
    <2> QED
        BY <1>1, <1>3, <2>2, SeqEnds DEF On
<1> QED
    BY <1>2, <1>3

(* No block is on two lists. *)
LEMMA OnOne ==
    ASSUME NEW l, NEW next, Sound(l, next), NEW p \in Lists, NEW q \in Lists, NEW t,
           t \in On(l, p), t \in On(l, q)
    PROVE  p = q
BY DEF Sound, Apart, On

(* At most one task waits for the event. *)
LEMMA OneWaiter ==
    ASSUME Wants, NEW l, Held(l), Placed(l), l[Event] # <<>>
    PROVE  Len(l[Event]) = 1 /\ On(l, Event) = {ptHead[Event]} /\ pNext[ptHead[Event]] = NULL
<1>1. l[Event] \in Seq(Tasks) /\ Event \in Lists /\ ptHead[Event] = First(l[Event])
    BY Names DEF Held, Sound, Flags
<1>2. PICK n \in Nat : n = Len(l[Event]) /\ n # 0
    BY <1>1, SeqEnds
<1>3. ASSUME NEW i \in 1..n, NEW j \in 1..n  PROVE i = j
    <2>1. l[Event][i] \in On(l, Event) /\ l[Event][j] \in On(l, Event)
        BY <1>2 DEF On
    <2>2. l[Event][i] \in Tasks /\ l[Event][j] \in Tasks
        BY <1>1, <1>2
    <2>3. l[Event][i] = l[Event][j]
        BY <2>1, <2>2 DEF Placed, Wants, Flags
    <2> QED
        BY <1>1, <1>2, <2>3 DEF Held, Sound, Apart
<1>4. n = 1
    BY <1>2, <1>3, Near
<1>5. First(l[Event]) = l[Event][1] /\ 1 \in 1..Len(l[Event])
    BY <1>1, <1>2, <1>4, SeqEnds
<1>6. On(l, Event) = {First(l[Event])}
    BY <1>2, <1>4, <1>5 DEF On
<1>7. pNext[l[Event][1]] = NULL
    BY <1>1, <1>2, <1>4, <1>5 DEF Held, Sound, Linked
<1> QED
    BY <1>1, <1>2, <1>4, <1>5, <1>6, <1>7

(* set_event finds the one task that waits, if there is one. *)
LEMMA VisitedIs ==
    ASSUME TypeOK, Wants, NEW l, Held(l), Placed(l)
    PROVE  Visited(Event) = On(l, Event)
<1>1. PICK head : head = ptHead[Event] /\ (head # NULL => pNext[head] = NULL)
    BY OneWaiter, FirstOn, Names DEF Held, Flags
<1>2. PICK v : v = [k \in 0..NumTasks |-> IF k = 0 THEN head ELSE NULL]
    OBVIOUS
<1>3. v = [k \in 0..NumTasks |-> IF k = 0 THEN head
                                 ELSE IF v[k - 1] = NULL \/ bThreadBlocked[v[k - 1]] THEN NULL
                                 ELSE pNext[v[k - 1]]]
    <2>1. ASSUME NEW k \in 0..NumTasks
          PROVE  v[k] = IF k = 0 THEN head
                        ELSE IF v[k - 1] = NULL \/ bThreadBlocked[v[k - 1]] THEN NULL
                        ELSE pNext[v[k - 1]]
        <3>1. CASE k = 0
            BY <1>2, <3>1
        <3>2. CASE k # 0
            <4>1. k - 1 \in 0..NumTasks
                BY <3>2, PoolAssumption
            <4>2. v[k] = NULL /\ (v[k - 1] = NULL \/ v[k - 1] = head)
                BY <1>2, <3>2, <4>1
            <4> QED
                BY <1>1, <3>2, <4>2
        <3> QED
            BY <3>1, <3>2
    <2>2. v = [k \in 0..NumTasks |-> v[k]]
        BY <1>2
    <2> QED
        BY <2>1, <2>2
<1> DEFINE at == CHOOSE at : at = [k \in 0..NumTasks |->
                         IF k = 0 THEN ptHead[Event]
                         ELSE IF at[k - 1] = NULL \/ bThreadBlocked[at[k - 1]] THEN NULL
                         ELSE pNext[at[k - 1]]]
<1>4. /\ at = [k \in 0..NumTasks |-> IF k = 0 THEN ptHead[Event]
                                 ELSE IF at[k - 1] = NULL \/ bThreadBlocked[at[k - 1]] THEN NULL
                                 ELSE pNext[at[k - 1]]]
      /\ Visited(Event) = {at[k] : k \in 0..NumTasks} \ {NULL}
    <2>1. Visited(Event) = {at[k] : k \in 0..NumTasks} \ {NULL}
        BY DEF Visited
    <2>2. v = [k \in 0..NumTasks |-> IF k = 0 THEN ptHead[Event]
                                 ELSE IF v[k - 1] = NULL \/ bThreadBlocked[v[k - 1]] THEN NULL
                                 ELSE pNext[v[k - 1]]]
        BY <1>1, <1>3
    <2> QED
        BY <2>1, <2>2
<1> HIDE DEF at
<1>5. \A k \in 0..NumTasks : at[k] = v[k]
    <2>1. at[0] = v[0]
        BY <1>1, <1>3, <1>4, PoolAssumption
    <2>2. \A k \in 1..NumTasks : at[k - 1] = v[k - 1] => at[k] = v[k]
        <3> SUFFICES ASSUME NEW k \in 1..NumTasks, at[k - 1] = v[k - 1] PROVE at[k] = v[k]
            OBVIOUS
        <3>1. k \in 0..NumTasks /\ k # 0
            BY PoolAssumption
        <3>2. at[k] = IF at[k - 1] = NULL \/ bThreadBlocked[at[k - 1]] THEN NULL
                      ELSE pNext[at[k - 1]]
            BY <1>4, <3>1
        <3>3. v[k] = IF v[k - 1] = NULL \/ bThreadBlocked[v[k - 1]] THEN NULL
                     ELSE pNext[v[k - 1]]
            BY <1>3, <3>1
        <3> QED
            BY <3>2, <3>3
    <2>3. PICK g : g = at
        OBVIOUS
    <2> QED
        BY <2>1, <2>2, <2>3, SameWalk
<1>6. Visited(Event) = {head} \ {NULL}
    <2>1. 0 \in 0..NumTasks
        BY PoolAssumption
    <2>2. at[0] = head /\ \A k \in 0..NumTasks : at[k] = head \/ at[k] = NULL
        BY <1>2, <1>5, <2>1
    <2> QED
        BY <1>4, <2>1, <2>2
<1>7. CASE head = NULL
    BY <1>1, <1>6, <1>7, FirstOn, Names DEF Held, Flags
<1>8. CASE head # NULL
    BY <1>1, <1>6, <1>8, OneWaiter, FirstOn, Names DEF Held, Flags
<1> QED
    BY <1>7, <1>8

(* _register_task appends a block that is on no list to the ready queue.   *)
LEMMA AddTaskIs ==
    ASSUME NEW l, NEW next \in [Tasks -> Tasks \cup {NULL}], Sound(l, next),
           qHead = First(l[ReadyList]), qTail = Last(l[ReadyList]),
           NEW t \in Tasks, \A q \in Lists : t \notin On(l, q), AddTask(t, next),
           NEW l2, l2 = Put(l, ReadyList, Append(l[ReadyList], t))
    PROVE  /\ Sound(l2, pNext') /\ pNext' \in [Tasks -> Ptr]
           /\ On(l2, ReadyList) = On(l, ReadyList) \cup {t}
           /\ \A q \in Lists \ {ReadyList} : l2[q] = l[q] /\ On(l2, q) = On(l, q)
           /\ qHead' = First(l2[ReadyList]) /\ qTail' = Last(l2[ReadyList])
           /\ qHead' \in Ptr /\ qTail' \in Ptr
<1>1. qTail = NULL <=> l[ReadyList] = <<>>
    BY FirstOn, Names
<1>2. pNext' = Tied(l, ReadyList, t, next)
    BY <1>1 DEF AddTask, Tied
<1>3. /\ Sound(l2, pNext') /\ pNext' \in [Tasks -> Tasks \cup {NULL}]
      /\ On(l2, ReadyList) = On(l, ReadyList) \cup {t}
      /\ \A q \in Lists \ {ReadyList} : l2[q] = l[q] /\ On(l2, q) = On(l, q)
      /\ First(l2[ReadyList]) = IF l[ReadyList] = <<>> THEN t ELSE First(l[ReadyList])
      /\ Last(l2[ReadyList]) = t
    <2>1. PICK next2 : next2 = Tied(l, ReadyList, t, next) /\ next2 = pNext'
        BY <1>2
    <2>2. ReadyList \in Lists
        BY Names
    <2>3. PICK p \in Lists : p = ReadyList
        BY <2>2
    <2>4. next2 = Tied(l, p, t, next) /\ l2 = Put(l, p, Append(l[p], t))
        BY <2>1, <2>3
    <2>5. /\ Sound(l2, next2) /\ next2 \in [Tasks -> Tasks \cup {NULL}]
          /\ On(l2, p) = On(l, p) \cup {t}
          /\ \A q \in Lists \ {p} : l2[q] = l[q] /\ On(l2, q) = On(l, q)
          /\ First(l2[p]) = IF l[p] = <<>> THEN t ELSE First(l[p])
          /\ Last(l2[p]) = t
        BY <2>4, Appended
    <2> QED
        BY <2>1, <2>3, <2>5
<1>4. qHead' = First(l2[ReadyList]) /\ qTail' = Last(l2[ReadyList])
    BY <1>1, <1>3 DEF AddTask
<1>5. First(l[ReadyList]) \in Ptr
    BY FirstOn, Names DEF Ptr
<1> QED
    BY <1>3, <1>4, <1>5 DEF Ptr

(* set_event puts the waiter in the ready queue, if it is blocked. *)
LEMMA AwakenIs ==
    ASSUME TypeOK, Wants, NEW l, Held(l), Placed(l), Awaken(Event, Visited(Event))
    PROVE  /\ \/ UNCHANGED <<ready, pNext>> /\ \A t \in On(l, Event) : ~bThreadBlocked[t]
              \/ \E u \in On(l, Event) :
                    bThreadBlocked[u] /\ AddTask(u, pNext) /\ On(l, Event) = {u}
           /\ bThreadBlocked' = [t \in Tasks |-> bThreadBlocked[t] /\ t \notin On(l, Event)]
           /\ bSignalRaised' = [t \in Tasks |-> bSignalRaised[t] \/ t \in On(l, Event)]
           /\ ptFlag' = [t \in Tasks |-> IF t \in On(l, Event) THEN NULL ELSE ptFlag[t]]
           /\ ptHead' = [ptHead EXCEPT ![Event] = NULL]
           /\ ptTail' = [ptTail EXCEPT ![Event] = NULL]
           /\ bSignal' = [bSignal EXCEPT ![Event] = TRUE]
<1>1. Visited(Event) = On(l, Event)
    BY VisitedIs
<1>2. CASE \E t \in On(l, Event) : bThreadBlocked[t]
    <2>1. PICK u : On(l, Event) = {u}
        BY <1>2, OneWaiter, FirstOn, Names DEF Held
    <2>2. (CHOOSE t \in {u} : bThreadBlocked[t]) = u
        BY <1>2, <2>1
    <2>3. AddTask(CHOOSE t \in On(l, Event) : bThreadBlocked[t], pNext)
        BY <1>1, <1>2 DEF Awaken
    <2>4. AddTask(u, pNext)
        BY <2>1, <2>2, <2>3
    <2> QED
        BY <1>1, <1>2, <2>1, <2>4 DEF Awaken
<1>3. CASE ~\E t \in On(l, Event) : bThreadBlocked[t]
    BY <1>1, <1>3 DEF Awaken
<1> QED
    BY <1>2, <1>3

--------------------------------------------------------------------------------
(* Types.                                                                  *)

(* What the lists tell of the heads that a step reads. *)
LEMMA Heads ==
    ASSUME IInv
    PROVE  /\ freeHead # NULL => freeHead \in Tasks \ keyed
           /\ qHead # NULL => qHead \in keyed /\ qHead # running
           /\ ptHead[Section] # NULL =>
                 /\ ptHead[Section] \in Tasks /\ want[ptHead[Section]] = Section
                 /\ pc = "run" => bThreadBlocked[ptHead[Section]] /\ ptHead[Section] # running
<1>1. PICK l : Held(l) /\ Placed(l)
    BY DEF IInv
<1>2. freeHead # NULL => freeHead \in On(l, FreeList)
    BY <1>1, FirstOn, Names DEF Held
<1>3. qHead # NULL => qHead \in On(l, ReadyList) /\ qHead \in Tasks
    BY <1>1, FirstOn, Names DEF Held
<1>4. ptHead[Section] # NULL => ptHead[Section] \in On(l, Section) /\ ptHead[Section] \in Tasks
    BY <1>1, FirstOn, Names DEF Held, Flags
<1>5. qHead # NULL => qHead \in keyed /\ qHead # running
    BY <1>1, <1>3, OnOne, Names DEF Placed, Held
<1>6. Section \in Flags
    BY DEF Flags
<1> QED
    BY <1>1, <1>2, <1>4, <1>5, <1>6 DEF Placed

(* AddTask keeps the types. *)
LEMMA AddTaskType ==
    ASSUME qHead \in Ptr, qTail \in Ptr, NEW next \in [Tasks -> Ptr], NEW t \in Tasks,
           AddTask(t, next)
    PROVE  qHead' \in Ptr /\ qTail' \in Ptr /\ pNext' \in [Tasks -> Ptr]
BY DEF AddTask, Ptr

(* Every step keeps the types. *)
LEMMA TypeStep == IInv /\ Next => TypeOK'
<1> SUFFICES ASSUME IInv, Next PROVE TypeOK'
    OBVIOUS
<1> USE DEF IInv, TypeOK
<1>1. StackSize \in Nat /\ (StackSize \in 1..255)
    BY StackAssumption
<1>2. CASE RegisterTask
    <2>1. freeHead \in Tasks
        BY <1>2, Heads DEF RegisterTask
    <2>2. qHead' \in Ptr /\ qTail' \in Ptr /\ pNext' \in [Tasks -> Ptr]
        BY <1>2, <2>1, AddTaskType DEF RegisterTask
    <2>3. freeHead' \in Ptr /\ keyed' \subseteq Tasks /\ chSP' \in [Tasks -> 0..StackSize]
        BY <1>1, <1>2, <2>1 DEF RegisterTask, NewTask
    <2>4. /\ ptFlag' \in [Tasks -> Flags \cup {NULL}]
          /\ bSignalRaised' \in [Tasks -> BOOLEAN] /\ bThreadBlocked' \in [Tasks -> BOOLEAN]
        BY <1>2, <2>1 DEF RegisterTask, NewTask
    <2> QED
        BY <1>2, <2>2, <2>3, <2>4 DEF RegisterTask, flags
<1>3. ASSUME NEW t \in Tasks, Call(t) \/ OnGoing(t) \/ Complete(t)  PROVE TypeOK'
    <2>1. chSP' \in [Tasks -> 0..StackSize]
        <3>1. chSP[t] \in 0..StackSize
            OBVIOUS
        <3>2. CASE Call(t)
            <4>1. chSP[t] + 1 \in 0..StackSize
                BY <1>1, <3>1, <3>2 DEF Call
            <4> QED
                BY <3>2, <4>1 DEF Call
        <3>3. CASE OnGoing(t)
            BY <3>3 DEF OnGoing
        <3>4. CASE Complete(t)
            <4>1. (IF chSP[t] = 0 THEN 0 ELSE chSP[t] - 1) \in 0..StackSize
                BY <1>1, <3>1
            <4> QED
                BY <3>4, <4>1 DEF Complete
        <3> QED
            BY <1>3, <3>2, <3>3, <3>4
    <2>2. pc' \in {"requeue", "free"}
        BY <1>3 DEF Call, OnGoing, Complete
    <2> QED
        BY <1>3, <2>1, <2>2 DEF Call, OnGoing, Complete, ready, signals, flags
<1>4. ASSUME NEW t \in Tasks, NEW f \in Flags, WaitSucceeds(t, f)  PROVE TypeOK'
    <2>1. /\ bSignal' \in [Flags -> BOOLEAN] /\ bSignalRaised' \in [Tasks -> BOOLEAN]
          /\ want' \in [Tasks -> Flags \cup {NULL}] /\ inside' \subseteq Tasks
        BY <1>4 DEF WaitSucceeds
    <2> QED
        BY <1>4, <2>1 DEF WaitSucceeds, ready
<1>5. ASSUME NEW t \in Tasks, NEW f \in Flags, WaitFails(t, f)  PROVE TypeOK'
    <2>1. pNext' \in [Tasks -> Ptr]
        BY <1>5 DEF WaitFails, Ptr
    <2>2. ptHead' \in [Flags -> Ptr] /\ ptTail' \in [Flags -> Ptr]
        BY <1>5 DEF WaitFails, Ptr
    <2>3. /\ ptFlag' \in [Tasks -> Flags \cup {NULL}] /\ want' \in [Tasks -> Flags \cup {NULL}]
          /\ bThreadBlocked' \in [Tasks -> BOOLEAN] /\ pc' = "waits"
        BY <1>5 DEF WaitFails
    <2> QED
        BY <1>5, <2>1, <2>2, <2>3 DEF WaitFails, ready
<1>6. ASSUME NEW t \in Tasks, ResetEvent(t)  PROVE TypeOK'
    BY <1>6 DEF ResetEvent, ready, signals
<1>7. CASE IsrSetEvent \/ \E t \in Tasks : SetEvent(t)
    <2>1. PICK l : Held(l) /\ Placed(l) /\ On(l, Event) \subseteq Tasks
        BY FirstOn, Names DEF Held
    <2>2. Awaken(Event, Visited(Event))
        BY <1>7 DEF SetEvent, IsrSetEvent
    <2>3. qHead' \in Ptr /\ qTail' \in Ptr /\ pNext' \in [Tasks -> Ptr]
        BY <2>1, <2>2, AwakenIs, AddTaskType DEF ready
    <2>4. /\ bThreadBlocked' \in [Tasks -> BOOLEAN] /\ bSignalRaised' \in [Tasks -> BOOLEAN]
          /\ ptFlag' \in [Tasks -> Flags \cup {NULL}] /\ ptHead' \in [Flags -> Ptr]
          /\ ptTail' \in [Flags -> Ptr] /\ bSignal' \in [Flags -> BOOLEAN]
        BY <2>2 DEF Awaken, Ptr
    <2> QED
        BY <1>7, <2>3, <2>4 DEF SetEvent, IsrSetEvent
<1>8. ASSUME NEW t \in Tasks, LeaveFree(t)  PROVE TypeOK'
    BY <1>8 DEF LeaveFree, ready, signals
<1>9. ASSUME NEW t \in Tasks, LeaveToWaiter(t)  PROVE TypeOK'
    <2>1. PICK u \in Tasks : u = ptHead[Section]
        BY <1>9, Heads DEF LeaveToWaiter
    <2>2. [pNext EXCEPT ![u] = NULL] \in [Tasks -> Ptr] /\ pNext[u] \in Ptr
        BY DEF Ptr
    <2>3. qHead' \in Ptr /\ qTail' \in Ptr /\ pNext' \in [Tasks -> Ptr]
        <3>1. \/ AddTask(u, [pNext EXCEPT ![u] = NULL])
              \/ pNext' = [pNext EXCEPT ![u] = NULL] /\ UNCHANGED ready
            BY <1>9, <2>1 DEF LeaveToWaiter
        <3>2. CASE AddTask(u, [pNext EXCEPT ![u] = NULL])
            BY <2>2, <3>2, AddTaskType
        <3> QED
            BY <2>2, <3>1, <3>2 DEF ready
    <2>4. /\ ptHead' \in [Flags -> Ptr] /\ ptTail' \in [Flags -> Ptr]
          /\ bThreadBlocked' \in [Tasks -> BOOLEAN] /\ bSignalRaised' \in [Tasks -> BOOLEAN]
          /\ ptFlag' \in [Tasks -> Flags \cup {NULL}] /\ inside' \subseteq Tasks
        BY <1>9, <2>1, <2>2 DEF LeaveToWaiter, Ptr
    <2> QED
        BY <1>9, <2>3, <2>4 DEF LeaveToWaiter
<1>10. CASE Dequeue
    <2>1. qHead \in Tasks
        BY <1>10 DEF Dequeue, Ptr
    <2>2. qHead' \in Ptr /\ qTail' \in Ptr /\ running' \in Ptr
        BY <1>10, <2>1 DEF Dequeue, GetTask, Ptr
    <2> QED
        BY <1>10, <2>2 DEF Dequeue, signals, flags
<1>11. CASE Requeue
    <2>1. running \in Tasks
        BY <1>11 DEF Requeue, Runner, Ptr
    <2>2. qHead' \in Ptr /\ qTail' \in Ptr /\ pNext' \in [Tasks -> Ptr]
        BY <1>11, <2>1, AddTaskType DEF Requeue
    <2> QED
        BY <1>11, <2>2 DEF Requeue, signals, flags, Ptr
<1>12. CASE FreeTask
    <2>1. running \in Tasks
        BY <1>12 DEF FreeTask, Runner, Ptr
    <2>2. freeHead' \in Ptr /\ pNext' \in [Tasks -> Ptr] /\ running' \in Ptr
        BY <1>12, <2>1 DEF FreeTask, Ptr
    <2> QED
        BY <1>12, <2>2 DEF FreeTask, ready, signals, flags
<1>13. CASE FlagGone \/ FlagThere
    BY <1>13 DEF FlagGone, FlagThere, ready, signals, flags
<1>14. CASE Block
    <2>1. running \in Tasks
        BY <1>14 DEF Block, Runner, Ptr
    <2>2. PICK signalled \in BOOLEAN : Blocks(signalled)
        BY <1>14 DEF Block
    <2>3. bThreadBlocked' \in [Tasks -> BOOLEAN]
        BY <2>2 DEF Blocks
    <2>4. /\ qHead' \in Ptr /\ qTail' \in Ptr /\ pNext' \in [Tasks -> Ptr]
          /\ bSignalRaised' \in [Tasks -> BOOLEAN] /\ ptFlag' \in [Tasks -> Flags \cup {NULL}]
        <3>1. CASE signalled
            BY <2>1, <2>2, <3>1, AddTaskType DEF Blocks
        <3>2. CASE ~signalled
            BY <2>2, <3>2 DEF Blocks, ready
        <3> QED
            BY <3>1, <3>2
    <2> QED
        BY <1>14, <2>3, <2>4 DEF Block, flags, Ptr
<1> QED
    BY <1>2, <1>3, <1>4, <1>5, <1>6, <1>7, <1>8, <1>9, <1>10, <1>11, <1>12, <1>13, <1>14
    DEF Next, TaskStep, TaskReturns, TaskWaits, TaskLeaves, SchedulerStep

--------------------------------------------------------------------------------
(* The task being run, and what the tasks wait for.                        *)

(* A task is added to those that wait for the event only if there is none. *)
LEMMA WaitersFew ==
    ASSUME TypeOK, NEW t \in Tasks, MayWait(t, Event), want[t] # Event
    PROVE  \A u \in Tasks : want[u] # Event
<1> DEFINE W == {u \in Tasks : want[u] = Event}
<1>1. Cardinality(W) < cfg.MaxWaiters
    BY DEF MayWait
<1>2. cfg.MaxWaiters \in Nat /\ cfg.MaxWaiters <= 1
    BY ConfigsAssumption, WaitersAssumption DEF TypeOK
<1>3. IsFiniteSet(W) /\ Cardinality(W) \in Nat
    <2>1. IsFiniteSet(Tasks)
        BY PoolAssumption, FS_Interval DEF Tasks
    <2> HIDE DEF W
    <2>2. W \subseteq Tasks
        BY DEF W
    <2> QED
        BY <2>1, <2>2, FS_Subset, FS_CardinalityType
<1>4. Cardinality(W) = 0
    <2> HIDE DEF W
    <2> QED
        BY <1>1, <1>2, <1>3
<1>5. W = {}
    <2> HIDE DEF W
    <2> QED
        BY <1>3, <1>4, FS_EmptySet
<1> QED
    BY <1>5

(* Runner is preserved. *)
LEMMA RunnerStep == IInv /\ Next => Runner'
<1> SUFFICES ASSUME IInv, Next PROVE Runner'
    OBVIOUS
<1> USE DEF Runner
<1>0. TypeOK /\ Runner /\ Wants
    BY DEF IInv
<1>1. \A t \in Tasks : t # NULL
    BY Names
<1>2. CASE RegisterTask
    BY <1>0, <1>2 DEF RegisterTask, NewTask, TypeOK
<1>3. ASSUME NEW t \in Tasks, Call(t) \/ OnGoing(t)  PROVE Runner'
    BY <1>0, <1>1, <1>3 DEF Call, OnGoing, Free, Runs
<1>4. ASSUME NEW t \in Tasks, Complete(t)  PROVE Runner'
    BY <1>0, <1>1, <1>4 DEF Complete, Free, Runs
<1>5. ASSUME NEW t \in Tasks, NEW f \in Flags, WaitSucceeds(t, f)  PROVE Runner'
    BY <1>0, <1>1, <1>5 DEF WaitSucceeds, Runs
<1>6. ASSUME NEW t \in Tasks, NEW f \in Flags, WaitFails(t, f)  PROVE Runner'
    <2>1. ptFlag'[t] = f /\ want'[t] = f /\ f # NULL /\ running = t /\ pc' = "waits"
        BY <1>0, <1>6, Names DEF WaitFails, TypeOK, Runs
    <2> QED
        BY <1>0, <1>1, <1>6, <2>1 DEF WaitFails, Runs
<1>7. ASSUME NEW t \in Tasks, ResetEvent(t) \/ LeaveFree(t) \/ LeaveToWaiter(t)  PROVE Runner'
    BY <1>0, <1>1, <1>7 DEF ResetEvent, LeaveFree, LeaveToWaiter, Free, Runs
<1>8. CASE IsrSetEvent \/ \E t \in Tasks : SetEvent(t)
    <2>1. PICK l : Held(l) /\ Placed(l)
        BY DEF IInv
    <2>2. /\ ptFlag' = [t \in Tasks |-> IF t \in On(l, Event) THEN NULL ELSE ptFlag[t]]
          /\ UNCHANGED <<keyed, running, pc, want, inside>>
        BY <1>0, <1>8, <2>1, AwakenIs DEF SetEvent, IsrSetEvent
    <2>3. \A t \in On(l, Event) : want[t] = Event
        BY <2>1 DEF Placed, Flags
    <2>4. pc \in {"waits", "block"} => running \in Tasks
        BY <1>0 DEF TypeOK, Ptr
    <2> QED
        BY <1>0, <2>2, <2>3, <2>4
<1>9. CASE Dequeue
    <2>1. qHead \in keyed /\ qHead # NULL
        BY <1>9, Heads DEF Dequeue
    <2> QED
        BY <1>9, <2>1 DEF Dequeue
<1>10. CASE Requeue \/ FreeTask \/ Block
    BY <1>10 DEF Requeue, FreeTask, Block
<1>11. CASE FlagGone \/ FlagThere
    BY <1>0, <1>11 DEF FlagGone, FlagThere, signals
<1> QED
    BY <1>2, <1>3, <1>4, <1>5, <1>6, <1>7, <1>8, <1>9, <1>10, <1>11
    DEF Next, TaskStep, TaskReturns, TaskWaits, TaskLeaves, SchedulerStep

(* Wants is preserved. *)
LEMMA WantsStep == IInv /\ Next => Wants'
<1> SUFFICES ASSUME IInv, Next PROVE Wants'
    OBVIOUS
<1> USE DEF Wants
<1>0. TypeOK /\ Runner /\ Wants
    BY DEF IInv
<1>1. \A t \in Tasks : t # NULL
    BY Names
<1>2. CASE RegisterTask
    BY <1>0, <1>2 DEF RegisterTask, NewTask, TypeOK
<1>3. ASSUME NEW t \in Tasks, Call(t) \/ OnGoing(t) \/ Complete(t) \/ ResetEvent(t)  PROVE Wants'
    BY <1>0, <1>3 DEF Call, OnGoing, Complete, ResetEvent, signals
<1>4. ASSUME NEW t \in Tasks, NEW f \in Flags, WaitSucceeds(t, f)  PROVE Wants'
    <2>1. t \in keyed /\ inside' \subseteq inside \cup {t} /\ keyed' = keyed
        BY <1>0, <1>1, <1>4 DEF WaitSucceeds, Runs, Runner
    <2>2. want' = [want EXCEPT ![t] = NULL] /\ bSignalRaised' = [bSignalRaised EXCEPT ![t] = FALSE]
        BY <1>4 DEF WaitSucceeds
    <2>3. /\ want'[t] = NULL /\ ~bSignalRaised'[t]
          /\ \A u \in Tasks \ {t} : want'[u] = want[u] /\ bSignalRaised'[u] = bSignalRaised[u]
        BY <1>0, <2>2 DEF TypeOK
    <2>4. Event # NULL /\ inside \subseteq Tasks
        BY <1>0, Names DEF TypeOK, Flags
    <2> QED
        BY <1>0, <2>1, <2>3, <2>4
<1>5. ASSUME NEW t \in Tasks, NEW f \in Flags, WaitFails(t, f)  PROVE Wants'
    <2>1. t \in keyed /\ keyed' = keyed /\ inside' = inside /\ bSignalRaised' = bSignalRaised
        BY <1>0, <1>1, <1>5 DEF WaitFails, Runs, Runner
    <2>2. want'[t] = f /\ f # NULL /\ \A u \in Tasks \ {t} : want'[u] = want[u]
        BY <1>0, <1>5, Names DEF WaitFails, TypeOK
    <2>3. t \notin inside
        BY <1>0, <1>5, <2>2 DEF WaitFails, MayWait
    <2>4. inside \subseteq Tasks
        BY <1>0 DEF TypeOK
    <2>5. \A u, v \in Tasks : want'[u] = Event /\ want'[v] = Event => u = v
        <3>1. CASE f = Event
            <4>1. CASE want[t] = Event
                BY <1>0, <2>2, <4>1
            <4>2. CASE want[t] # Event
                BY <1>0, <1>5, <2>2, <3>1, <4>2, WaitersFew DEF WaitFails
            <4> QED
                BY <4>1, <4>2
        <3>2. CASE f # Event
            BY <1>0, <2>2, <3>2
        <3> QED
            BY <3>1, <3>2
    <2> QED
        BY <1>0, <2>1, <2>2, <2>3, <2>4, <2>5
<1>6. CASE IsrSetEvent \/ \E t \in Tasks : SetEvent(t)
    <2>1. PICK l : Held(l) /\ Placed(l)
        BY DEF IInv
    <2>2. /\ bSignalRaised' = [t \in Tasks |-> bSignalRaised[t] \/ t \in On(l, Event)]
          /\ UNCHANGED <<keyed, want, inside>>
        BY <1>0, <1>6, <2>1, AwakenIs DEF SetEvent, IsrSetEvent
    <2>3. \A t \in On(l, Event) : want[t] = Event
        BY <2>1 DEF Placed, Flags
    <2> QED
        BY <1>0, <2>2, <2>3, Names DEF Flags
<1>7. ASSUME NEW t \in Tasks, LeaveFree(t)  PROVE Wants'
    BY <1>0, <1>7 DEF LeaveFree, signals
<1>8. ASSUME NEW t \in Tasks, LeaveToWaiter(t)  PROVE Wants'
    <2>1. PICK u \in Tasks : u = ptHead[Section] /\ want[u] = Section
        BY <1>8, Heads DEF LeaveToWaiter
    <2>2. /\ bSignalRaised' = [bSignalRaised EXCEPT ![u] = TRUE] /\ inside' = inside \ {t}
          /\ UNCHANGED <<keyed, want>>
        BY <1>8, <2>1 DEF LeaveToWaiter
    <2> QED
        BY <1>0, <2>1, <2>2, Names DEF TypeOK, Flags
<1>9. CASE Dequeue \/ Requeue \/ FlagThere
    BY <1>0, <1>9 DEF Dequeue, Requeue, FlagThere, signals
<1>10. CASE FreeTask
    BY <1>0, <1>10 DEF FreeTask, Runner, signals
<1>11. CASE FlagGone
    BY <1>0, <1>11 DEF FlagGone, TypeOK
<1>12. CASE Block
    <2>1. PICK signalled \in BOOLEAN : Blocks(signalled)
        BY <1>12 DEF Block
    <2>2. running \in Tasks /\ want[running] # NULL
        BY <1>0, <1>12, Names DEF Block, Runner, TypeOK, Ptr, Flags
    <2>3. \A t \in Tasks : bSignalRaised'[t] => bSignalRaised[t] \/ t = running
        BY <1>0, <2>1 DEF Blocks, TypeOK
    <2> QED
        BY <1>0, <1>12, <2>2, <2>3 DEF Block
<1> QED
    BY <1>2, <1>3, <1>4, <1>5, <1>6, <1>7, <1>8, <1>9, <1>10, <1>11, <1>12
    DEF Next, TaskStep, TaskReturns, TaskWaits, TaskLeaves, SchedulerStep

--------------------------------------------------------------------------------
(* The critical section.                                                   *)

(* Steps that leave the section and its heirs alone. *)
LEMMA SameInside ==
    ASSUME OneInside, inside' = inside, Heirs' = Heirs, bSignal'[Section] = bSignal[Section]
    PROVE  OneInside'
BY DEF OneInside

(* OneInside is preserved. *)
LEMMA InsideStep == IInv /\ Next => OneInside'
<1> SUFFICES ASSUME IInv, Next PROVE OneInside'
    OBVIOUS
<1>0. TypeOK /\ Runner /\ Wants /\ OneInside
    BY DEF IInv
<1>1. \A t \in Tasks : t # NULL
    BY Names
<1>2. CASE RegisterTask
    <2>1. freeHead \in Tasks /\ want[freeHead] = NULL
        BY <1>0, <1>2, Heads DEF RegisterTask, Wants
    <2>2. Heirs' = Heirs
        BY <1>0, <1>2, <2>1, Names DEF RegisterTask, NewTask, TypeOK, Heirs, Flags
    <2> QED
        BY <1>0, <1>2, <2>2, SameInside DEF RegisterTask, flags
<1>3. ASSUME NEW t \in Tasks, Call(t) \/ OnGoing(t) \/ Complete(t)  PROVE OneInside'
    BY <1>0, <1>3, SameInside DEF Call, OnGoing, Complete, signals, flags, Heirs
<1>4. ASSUME NEW t \in Tasks, NEW f \in Flags, WaitSucceeds(t, f)  PROVE OneInside'
    <2>1. /\ want'[t] = NULL /\ \A u \in Tasks \ {t} : want'[u] = want[u]
          /\ ~bSignalRaised'[t] /\ \A u \in Tasks \ {t} : bSignalRaised'[u] = bSignalRaised[u]
        BY <1>0, <1>4 DEF WaitSucceeds, TypeOK
    <2>2. Heirs' = Heirs \ {t}
        BY <2>1 DEF Heirs
    <2>3. CASE f = Event
        <3>1. bSignal'[Section] = bSignal[Section] /\ inside' = inside
            BY <1>0, <1>4, <2>3, Names DEF WaitSucceeds, TypeOK, Flags
        <3>2. want[t] # Section
            BY <1>4, <2>3, Names DEF WaitSucceeds, MayWait, Flags
        <3>3. Heirs' = Heirs
            BY <2>2, <3>2 DEF Heirs
        <3> QED
            BY <1>0, <3>1, <3>3, SameInside
    <2>4. CASE f = Section
        <3>1. ~bSignal'[Section] /\ inside' = inside \cup {t}
            BY <1>0, <1>4, <2>4, Names DEF WaitSucceeds, TypeOK, Flags, bManualReset
        <3>2. CASE bSignalRaised[t]
            <4>1. t \in Heirs
                BY <1>0, <1>4, <2>4, <3>2 DEF WaitSucceeds, MayWait, Wants, Heirs
            <4> QED
                BY <1>0, <2>2, <3>1, <4>1 DEF OneInside
        <3>3. CASE ~bSignalRaised[t]
            <4>1. bSignal[Section]
                BY <1>4, <2>4, <3>3 DEF WaitSucceeds, Signalled
            <4> QED
                BY <1>0, <2>2, <3>1, <4>1 DEF OneInside
        <3> QED
            BY <3>2, <3>3
    <2> QED
        BY <2>3, <2>4 DEF Flags
<1>5. ASSUME NEW t \in Tasks, NEW f \in Flags, WaitFails(t, f)  PROVE OneInside'
    <2>1. ~bSignalRaised[t] /\ bSignalRaised' = bSignalRaised
        BY <1>5 DEF WaitFails, Signalled
    <2>2. \A u \in Tasks \ {t} : want'[u] = want[u]
        BY <1>0, <1>5 DEF WaitFails, TypeOK
    <2>3. Heirs' = Heirs
        BY <2>1, <2>2 DEF Heirs
    <2> QED
        BY <1>0, <1>5, <2>3, SameInside DEF WaitFails
<1>6. ASSUME NEW t \in Tasks, ResetEvent(t)  PROVE OneInside'
    <2>1. bSignal'[Section] = bSignal[Section] /\ Heirs' = Heirs
        BY <1>0, <1>6, Names DEF ResetEvent, TypeOK, Flags, Heirs, signals
    <2> QED
        BY <1>0, <1>6, <2>1, SameInside DEF ResetEvent
<1>7. CASE IsrSetEvent \/ \E t \in Tasks : SetEvent(t)
    <2>1. PICK l : Held(l) /\ Placed(l)
        BY DEF IInv
    <2>2. /\ bSignalRaised' = [t \in Tasks |-> bSignalRaised[t] \/ t \in On(l, Event)]
          /\ bSignal' = [bSignal EXCEPT ![Event] = TRUE]
          /\ UNCHANGED <<want, inside>>
        BY <1>0, <1>7, <2>1, AwakenIs DEF SetEvent, IsrSetEvent
    <2>3. \A t \in On(l, Event) : want[t] # Section
        BY <2>1, Names DEF Placed, Flags
    <2>4. Heirs' = Heirs
        BY <2>2, <2>3 DEF Heirs
    <2>5. bSignal'[Section] = bSignal[Section]
        BY <1>0, <2>2, Names DEF TypeOK, Flags
    <2> QED
        BY <1>0, <2>2, <2>4, <2>5, SameInside
<1>8. ASSUME NEW t \in Tasks, LeaveFree(t) \/ LeaveToWaiter(t)  PROVE OneInside'
    <2>1. t \in inside /\ want[t] = NULL /\ inside' = inside \ {t}
        BY <1>8 DEF LeaveFree, LeaveToWaiter, Free
    <2>2. inside' = {} /\ Heirs = {}
        <3>1. \A u \in inside \cup Heirs : u = t
            BY <1>0, <2>1 DEF OneInside
        <3>2. t \notin Heirs
            BY <2>1, Names DEF Heirs, Flags
        <3> QED
            BY <2>1, <3>1, <3>2
    <2>3. CASE LeaveFree(t)
        <3>1. bSignal'[Section] /\ Heirs' = Heirs
            BY <1>0, <2>3 DEF LeaveFree, TypeOK, Flags, Heirs, signals
        <3> QED
            BY <2>2, <3>1 DEF OneInside
    <2>4. CASE LeaveToWaiter(t)
        <3>1. PICK u \in Tasks : u = ptHead[Section] /\ want[u] = Section
            BY <2>4, Heads DEF LeaveToWaiter
        <3>2. /\ bSignalRaised' = [bSignalRaised EXCEPT ![u] = TRUE]
              /\ want' = want /\ ~bSignal[Section] /\ bSignal' = bSignal
            BY <2>4, <3>1 DEF LeaveToWaiter
        <3>3. Heirs' = Heirs \cup {u}
            BY <1>0, <3>1, <3>2 DEF Heirs, TypeOK
        <3> QED
            BY <2>2, <3>2, <3>3 DEF OneInside
    <2> QED
        BY <1>8, <2>3, <2>4
<1>9. CASE Dequeue \/ Requeue \/ FreeTask \/ FlagThere
    BY <1>0, <1>9, SameInside DEF Dequeue, Requeue, FreeTask, FlagThere, signals, flags, Heirs
<1>10. CASE FlagGone
    <2>1. want[running] = Event /\ want' = want
        BY <1>0, <1>10 DEF FlagGone, Runner
    <2>2. Heirs' = Heirs
        BY <1>0, <1>10, <2>1, Names DEF FlagGone, Heirs, TypeOK, Flags
    <2> QED
        BY <1>0, <1>10, <2>2, SameInside DEF FlagGone, flags
<1>11. CASE Block
    <2>1. PICK signalled \in BOOLEAN :
             Blocks(signalled) /\ (ptFlag[running] # NULL => signalled = bSignal[ptFlag[running]])
        BY <1>11 DEF Block
    <2>2. running \in Tasks /\ want' = want
        BY <1>0, <1>11 DEF Block, Runner, TypeOK, Ptr
    <2>3. want[running] = Section => ~signalled
        <3> SUFFICES ASSUME want[running] = Section PROVE ~signalled
            OBVIOUS
        <3>1. PICK l : Placed(l)
            BY DEF IInv
        <3>2. ptFlag[running] = Section /\ Section # NULL
            BY <1>0, <1>11, Names DEF Block, Runner, Flags
        <3>3. ~bSignal[Section]
            BY <1>11, <3>1, <3>2 DEF Placed, Block, Flags
        <3> QED
            BY <2>1, <3>2, <3>3
    <2>4. Heirs' = Heirs
        <3>1. CASE signalled
            BY <1>0, <2>1, <2>2, <2>3, <3>1 DEF Blocks, Heirs, TypeOK
        <3>2. CASE ~signalled
            BY <2>1, <2>2, <3>2 DEF Blocks, Heirs
        <3> QED
            BY <3>1, <3>2
    <2> QED
        BY <1>0, <1>11, <2>4, SameInside DEF Block, flags
<1> QED
    BY <1>2, <1>3, <1>4, <1>5, <1>6, <1>7, <1>8, <1>9, <1>10, <1>11
    DEF Next, TaskStep, TaskReturns, TaskWaits, TaskLeaves, SchedulerStep

--------------------------------------------------------------------------------
(* The lists.                                                              *)

(* Steps that touch no list. *)
LEMMA SameLists ==
    ASSUME NEW l, Held(l), UNCHANGED <<freeHead, ready, pNext, ptHead, ptTail>>
    PROVE  Held(l)'
BY DEF Held, ready

(* register_task moves a block from the free list to the ready queue. *)
LEMMA RegisterLists ==
    ASSUME IInv, NEW l, Held(l), Placed(l), RegisterTask
    PROVE  \E m : Held(m)' /\ Placed(m)'
<1>0. TypeOK
    BY DEF IInv
<1>1. PICK t \in Tasks : t = freeHead /\ t \notin keyed /\ t # NULL
    BY Heads, Names DEF RegisterTask
<1>2. NewTask(t) /\ AddTask(t, pNext)
      /\ UNCHANGED <<bSignal, ptHead, ptTail, running, pc, want, inside, nullRead>>
    BY <1>1 DEF RegisterTask, flags
<1>3. PICK a : a = Put(l, FreeList, Tail(l[FreeList]))
    OBVIOUS
<1>4. /\ Sound(l, pNext) /\ FreeList \in Lists /\ l[FreeList] # <<>>
      /\ t = First(l[FreeList])
    BY <1>1, FirstOn, Names DEF Held
<1>5. /\ Sound(a, pNext) /\ On(a, FreeList) = On(l, FreeList) \ {t}
      /\ \A q \in Lists \ {FreeList} : a[q] = l[q] /\ On(a, q) = On(l, q) /\ t \notin On(l, q)
      /\ First(a[FreeList]) = pNext[t]
    BY <1>3, <1>4, Popped
<1>6. PICK m : m = Put(a, ReadyList, Append(a[ReadyList], t))
    OBVIOUS
<1>7. /\ qHead = First(a[ReadyList]) /\ qTail = Last(a[ReadyList])
      /\ \A q \in Lists : t \notin On(a, q)
      /\ pNext \in [Tasks -> Tasks \cup {NULL}]
    BY <1>0, <1>5, Names DEF Held, TypeOK, Ptr
<1>8. /\ Sound(m, pNext') /\ On(m, ReadyList) = On(a, ReadyList) \cup {t}
      /\ \A q \in Lists \ {ReadyList} : m[q] = a[q] /\ On(m, q) = On(a, q)
      /\ qHead' = First(m[ReadyList]) /\ qTail' = Last(m[ReadyList])
    BY <1>2, <1>5, <1>6, <1>7, AddTaskIs
<1>9. \A f \in Flags : f \in Lists \ {FreeList, ReadyList}
    BY Names DEF Lists
<1>10. Held(m)'
    <2>1. freeHead' = First(m[FreeList])
        BY <1>2, <1>5, <1>8, Names DEF NewTask
    <2>2. \A f \in Flags : ptHead'[f] = First(m[f]) /\ ptTail'[f] = Last(m[f])
        BY <1>2, <1>5, <1>8, <1>9 DEF Held
    <2> QED
        BY <1>8, <2>1, <2>2 DEF Held
<1>11. On(m, FreeList) = On(l, FreeList) \ {t} /\ On(m, ReadyList) = On(l, ReadyList) \cup {t}
       /\ \A f \in Flags : On(m, f) = On(l, f) /\ t \notin On(l, f)
    BY <1>5, <1>8, <1>9, Names
<1>12. Placed(m)'
    <2>1. On(m, FreeList) = Tasks \ keyed'
        BY <1>1, <1>2, <1>11 DEF Placed, NewTask
    <2>2. running' \notin On(m, ReadyList)
        BY <1>1, <1>2, <1>11 DEF Placed, IInv, Runner
    <2>3. \A u \in Tasks \ {t} : /\ ptFlag'[u] = ptFlag[u] /\ bSignalRaised'[u] = bSignalRaised[u]
                                 /\ bThreadBlocked'[u] = bThreadBlocked[u]
        BY <1>0, <1>2 DEF NewTask, TypeOK
    <2>4. \A f \in Flags : On(l, f) \subseteq Tasks \ {t}
        BY <1>4, <1>9, <1>11, FirstOn
    <2>5. \A f \in Flags : \A u \in On(m, f) :
             /\ ptFlag'[u] = f /\ want'[u] = f /\ ~bSignal'[f] /\ ~bSignalRaised'[u]
             /\ bThreadBlocked'[u] <=> u # running'
             /\ u = running' => pc' \in {"waits", "block"}
        BY <1>2, <1>11, <2>3, <2>4 DEF Placed
    <2>6. pc' \notin {"waits", "block"}
        BY <1>2 DEF RegisterTask
    <2>7. ~nullRead' => \A u \in Tasks : u = running' \/ \E p \in Lists : u \in On(m, p)
        BY <1>2, <1>5, <1>8, <1>11, Names DEF Placed
    <2> QED
        BY <2>1, <2>2, <2>5, <2>6, <2>7 DEF Placed
<1> QED
    BY <1>10, <1>12

(* A wait that fails puts the task on the wait list. *)
LEMMA WaitFailsLists ==
    ASSUME IInv, NEW l, Held(l), Placed(l), NEW t \in Tasks, NEW f \in Flags, WaitFails(t, f)
    PROVE  \E m : Held(m)' /\ Placed(m)'
<1>0. TypeOK /\ Runner
    BY DEF IInv
<1>1. t = running /\ pc = "run" /\ t # NULL /\ t \in keyed
    BY <1>0, Names DEF WaitFails, Runs, Runner
<1>2. f \in Lists \ {FreeList, ReadyList} /\ f # NULL
    BY Names DEF Lists, Flags
<1>3. \A q \in Lists : t \notin On(l, q)
    BY <1>1 DEF Placed, Lists
<1>4. /\ Sound(l, pNext) /\ pNext \in [Tasks -> Tasks \cup {NULL}]
      /\ ptTail[f] = Last(l[f]) /\ ptHead[f] = First(l[f])
      /\ (ptTail[f] = NULL <=> l[f] = <<>>)
    BY <1>0, <1>2, FirstOn DEF Held, TypeOK, Ptr
<1>5. PICK m : m = Put(l, f, Append(l[f], t))
    OBVIOUS
<1>6. pNext' = Tied(l, f, t, pNext)
    BY <1>4 DEF WaitFails, Tied
<1>7. PICK next2 : next2 = Tied(l, f, t, pNext) /\ next2 = pNext'
    BY <1>6
<1>8. /\ Sound(m, next2) /\ On(m, f) = On(l, f) \cup {t}
      /\ \A q \in Lists \ {f} : m[q] = l[q] /\ On(m, q) = On(l, q)
      /\ First(m[f]) = (IF l[f] = <<>> THEN t ELSE First(l[f]))
      /\ Last(m[f]) = t
    <2>1. PICK p \in Lists : p = f
        BY <1>2
    <2>2. next2 = Tied(l, p, t, pNext) /\ m = Put(l, p, Append(l[p], t))
        BY <1>5, <1>7, <2>1
    <2>3. Sound(l, pNext) /\ pNext \in [Tasks -> Tasks \cup {NULL}]
        BY <1>4
    <2>4. /\ Sound(m, next2) /\ On(m, p) = On(l, p) \cup {t}
          /\ \A q \in Lists \ {p} : m[q] = l[q] /\ On(m, q) = On(l, q)
          /\ First(m[p]) = (IF l[p] = <<>> THEN t ELSE First(l[p]))
          /\ Last(m[p]) = t
        BY <1>3, <2>2, <2>3, Appended
    <2> QED
        BY <2>1, <2>4
<1>9. ptHead'[f] = First(m[f]) /\ ptTail'[f] = Last(m[f])
      /\ \A g \in Flags \ {f} : ptHead'[g] = ptHead[g] /\ ptTail'[g] = ptTail[g]
    BY <1>0, <1>4, <1>8 DEF WaitFails, TypeOK
<1>10. Held(m)'
    <2>1. freeHead' = freeHead /\ qHead' = qHead /\ qTail' = qTail
        BY DEF WaitFails, ready
    <2>2. \A g \in Flags : ptHead'[g] = First(m[g]) /\ ptTail'[g] = Last(m[g])
        BY <1>8, <1>9 DEF Held, Lists
    <2> QED
        BY <1>2, <1>7, <1>8, <2>1, <2>2, Names DEF Held
<1>11. Placed(m)'
    <2>1. /\ ptFlag' = [ptFlag EXCEPT ![t] = f] /\ want' = [want EXCEPT ![t] = f]
          /\ bThreadBlocked' = [bThreadBlocked EXCEPT ![t] = FALSE]
          /\ bSignalRaised' = bSignalRaised /\ bSignal' = bSignal /\ keyed' = keyed
          /\ running' = t /\ nullRead' = nullRead /\ pc' = "waits"
          /\ ~bSignalRaised[t] /\ ~bSignal[f]
        BY <1>1 DEF WaitFails, Signalled
    <2>2. /\ ptFlag'[t] = f /\ want'[t] = f /\ ~bThreadBlocked'[t]
          /\ \A u \in Tasks \ {t} : ptFlag'[u] = ptFlag[u] /\ want'[u] = want[u]
                                       /\ bThreadBlocked'[u] = bThreadBlocked[u]
        BY <1>0, <2>1 DEF TypeOK
    <2>3. \A g \in Flags : On(l, g) \subseteq Tasks \ {t}
        BY <1>3, <1>4, FirstOn DEF Lists
    <2>4. \A g \in Flags : \A u \in On(m, g) : u \in On(l, g) \/ (u = t /\ g = f)
        BY <1>8 DEF Lists
    <2>5. \A g \in Flags : \A u \in On(m, g) :
             /\ ptFlag'[u] = g /\ want'[u] = g /\ ~bSignal'[g] /\ ~bSignalRaised'[u]
             /\ bThreadBlocked'[u] <=> u # running'
             /\ u = running' => pc' \in {"waits", "block"}
        BY <1>1, <2>1, <2>2, <2>3, <2>4 DEF Placed
    <2>6. On(m, FreeList) = On(l, FreeList) /\ On(m, ReadyList) = On(l, ReadyList)
        BY <1>2, <1>8, Names
    <2>7. \A q \in Lists : On(l, q) \subseteq On(m, q)
        BY <1>8
    <2>8. ~nullRead' => \A u \in Tasks : u = running' \/ \E p \in Lists : u \in On(m, p)
        BY <1>1, <2>1, <2>7 DEF Placed
    <2>9. running' \in On(m, ptFlag'[running'])
        BY <1>8, <2>1, <2>2
    <2> QED
        BY <1>1, <2>1, <2>5, <2>6, <2>8, <2>9 DEF Placed
<1> QED
    BY <1>10, <1>11

(* set_event moves the waiter to the ready queue, or takes the task that   *)
(* is about to block off the wait list.                                    *)
LEMMA AwakenLists ==
    ASSUME IInv, NEW l, Held(l), Placed(l), Awaken(Event, Visited(Event)),
           UNCHANGED <<cfg, freeHead, keyed, chSP, running, pc, want, inside, nullRead>>
    PROVE  \E m : Held(m)' /\ Placed(m)'
<1>0. TypeOK /\ Runner /\ Wants
    BY DEF IInv
<1>1. /\ \/ UNCHANGED <<ready, pNext>> /\ \A t \in On(l, Event) : ~bThreadBlocked[t]
         \/ \E u \in On(l, Event) :
               bThreadBlocked[u] /\ AddTask(u, pNext) /\ On(l, Event) = {u}
      /\ bThreadBlocked' = [t \in Tasks |-> bThreadBlocked[t] /\ t \notin On(l, Event)]
      /\ bSignalRaised' = [t \in Tasks |-> bSignalRaised[t] \/ t \in On(l, Event)]
      /\ ptFlag' = [t \in Tasks |-> IF t \in On(l, Event) THEN NULL ELSE ptFlag[t]]
      /\ ptHead' = [ptHead EXCEPT ![Event] = NULL]
      /\ ptTail' = [ptTail EXCEPT ![Event] = NULL]
      /\ bSignal' = [bSignal EXCEPT ![Event] = TRUE]
    BY <1>0, AwakenIs
<1>2. /\ Sound(l, pNext) /\ Event \in Lists /\ On(l, Event) \subseteq Tasks
      /\ pNext \in [Tasks -> Tasks \cup {NULL}]
    BY <1>0, FirstOn, Names DEF Held, TypeOK, Ptr
<1>3. PICK a : a = Put(l, Event, <<>>)
    OBVIOUS
<1>4. /\ Sound(a, pNext) /\ a[Event] = <<>> /\ On(a, Event) = {}
      /\ \A q \in Lists \ {Event} : a[q] = l[q] /\ On(a, q) = On(l, q)
      /\ \A t \in On(l, Event) : \A q \in Lists : t \notin On(a, q)
    <2>1. PICK p \in Lists : p = Event
        BY <1>2
    <2>2. a = Put(l, p, <<>>)
        BY <1>3, <2>1
    <2>3. Sound(l, pNext)
        BY <1>2
    <2>4. /\ Sound(a, pNext) /\ a[p] = <<>> /\ On(a, p) = {}
          /\ \A q \in Lists \ {p} : a[q] = l[q] /\ On(a, q) = On(l, q)
          /\ \A t \in On(l, p) : \A q \in Lists : t \notin On(a, q)
        BY <2>2, <2>3, Emptied
    <2>5. a[Event] = <<>> /\ On(a, Event) = {}
        BY <2>1, <2>4
    <2>6. \A q \in Lists \ {Event} : a[q] = l[q] /\ On(a, q) = On(l, q)
        BY <2>1, <2>4
    <2>7. \A t \in On(l, Event) : \A q \in Lists : t \notin On(a, q)
        BY <2>1, <2>4
    <2>8. Sound(a, pNext)
        BY <2>4
    <2> QED
        BY <2>5, <2>6, <2>7, <2>8
<1>5. qHead = First(a[ReadyList]) /\ qTail = Last(a[ReadyList])
    BY <1>4, Names DEF Held, Flags
<1>6. PICK m :
         /\ Sound(m, pNext') /\ qHead' = First(m[ReadyList]) /\ qTail' = Last(m[ReadyList])
         /\ \A q \in Lists \ {ReadyList} : m[q] = a[q] /\ On(m, q) = On(a, q)
         /\ \/ On(m, ReadyList) = On(a, ReadyList) /\ \A t \in On(l, Event) : ~bThreadBlocked[t]
            \/ \E u \in On(l, Event) : /\ On(l, Event) = {u} /\ bThreadBlocked[u]
                                       /\ On(m, ReadyList) = On(a, ReadyList) \cup {u}
    <2>1. CASE UNCHANGED <<ready, pNext>> /\ \A t \in On(l, Event) : ~bThreadBlocked[t]
        BY <1>4, <1>5, <2>1 DEF ready
    <2>2. CASE \E u \in On(l, Event) :
                  bThreadBlocked[u] /\ AddTask(u, pNext) /\ On(l, Event) = {u}
        <3>1. PICK u \in On(l, Event) :
                 bThreadBlocked[u] /\ AddTask(u, pNext) /\ On(l, Event) = {u}
            BY <2>2
        <3>2. PICK m : m = Put(a, ReadyList, Append(a[ReadyList], u))
            OBVIOUS
        <3>3. u \in Tasks /\ \A q \in Lists : u \notin On(a, q)
            BY <1>2, <1>4
        <3>4. /\ Sound(m, pNext') /\ On(m, ReadyList) = On(a, ReadyList) \cup {u}
              /\ \A q \in Lists \ {ReadyList} : m[q] = a[q] /\ On(m, q) = On(a, q)
              /\ qHead' = First(m[ReadyList]) /\ qTail' = Last(m[ReadyList])
            BY <1>2, <1>4, <1>5, <3>1, <3>2, <3>3, AddTaskIs
        <3> QED
            BY <3>1, <3>4
    <2> QED
        BY <1>1, <2>1, <2>2
<1>7. /\ On(m, FreeList) = On(l, FreeList) /\ m[FreeList] = l[FreeList]
      /\ On(m, Section) = On(l, Section) /\ m[Section] = l[Section]
      /\ On(m, Event) = {} /\ m[Event] = <<>>
      /\ On(l, ReadyList) \subseteq On(m, ReadyList)
      /\ \A u \in On(m, ReadyList) \ On(l, ReadyList) : u \in On(l, Event) /\ bThreadBlocked[u]
      /\ \A u \in On(l, Event) : bThreadBlocked[u] => u \in On(m, ReadyList)
    <2>1. On(m, FreeList) = On(l, FreeList) /\ m[FreeList] = l[FreeList]
        BY <1>4, <1>6, Names DEF Flags
    <2>2. On(m, Section) = On(l, Section) /\ m[Section] = l[Section]
        BY <1>4, <1>6, Names DEF Flags
    <2>3. On(m, Event) = {} /\ m[Event] = <<>>
        BY <1>4, <1>6, Names DEF Flags
    <2>4. On(a, ReadyList) = On(l, ReadyList)
        BY <1>4, Names DEF Flags
    <2>5. On(l, ReadyList) \subseteq On(m, ReadyList)
        BY <1>6, <2>4
    <2>6. \A u \in On(m, ReadyList) \ On(l, ReadyList) : u \in On(l, Event) /\ bThreadBlocked[u]
        BY <1>6, <2>4
    <2>7. \A u \in On(l, Event) : bThreadBlocked[u] => u \in On(m, ReadyList)
        BY <1>6, <2>4
    <2> QED
        BY <2>1, <2>2, <2>3, <2>5, <2>6, <2>7
<1>8. Held(m)'
    <2>1. freeHead' = First(m[FreeList])
        BY <1>7 DEF Held
    <2>2. /\ ptHead'[Event] = NULL /\ ptTail'[Event] = NULL
          /\ ptHead'[Section] = ptHead[Section] /\ ptTail'[Section] = ptTail[Section]
        BY <1>0, <1>1, Names DEF TypeOK, Flags
    <2>3. \A f \in Flags : ptHead'[f] = First(m[f]) /\ ptTail'[f] = Last(m[f])
        BY <1>7, <2>2 DEF Held, Flags, First, Last
    <2> QED
        BY <1>6, <2>1, <2>3 DEF Held
<1>9. \A u \in On(l, Event) : u \in Tasks /\ (bThreadBlocked[u] <=> u # running)
    BY <1>2 DEF Placed, Flags
<1>10. Placed(m)'
    <2>1. On(m, FreeList) = Tasks \ keyed'
        BY <1>7 DEF Placed
    <2>2. running' \notin On(m, ReadyList)
        BY <1>7, <1>9 DEF Placed
    <2>3. On(l, Section) \subseteq Tasks \ On(l, Event)
        BY <1>2, FirstOn, OnOne, Names
    <2>4. \A u \in On(m, Section) :
             /\ ptFlag'[u] = Section /\ want'[u] = Section /\ ~bSignal'[Section]
             /\ ~bSignalRaised'[u] /\ (bThreadBlocked'[u] <=> u # running')
             /\ u = running' => pc' \in {"waits", "block"}
        <3> SUFFICES ASSUME NEW u \in On(m, Section)
                     PROVE  /\ ptFlag'[u] = Section /\ want'[u] = Section /\ ~bSignal'[Section]
                            /\ ~bSignalRaised'[u] /\ (bThreadBlocked'[u] <=> u # running')
                            /\ u = running' => pc' \in {"waits", "block"}
            OBVIOUS
        <3>1. /\ ptFlag[u] = Section /\ want[u] = Section /\ ~bSignal[Section]
              /\ ~bSignalRaised[u] /\ (bThreadBlocked[u] <=> u # running)
              /\ u = running => pc \in {"waits", "block"}
            BY <1>7 DEF Placed, Flags
        <3>2. /\ ptFlag'[u] = ptFlag[u] /\ (bSignalRaised'[u] <=> bSignalRaised[u])
              /\ (bThreadBlocked'[u] <=> bThreadBlocked[u])
            BY <1>1, <1>7, <2>3
        <3>3. bSignal'[Section] = bSignal[Section]
            BY <1>0, <1>1, Names DEF TypeOK, Flags
        <3> QED
            BY <3>1, <3>2, <3>3
    <2>5. \A f \in Flags : \A u \in On(m, f) :
             /\ ptFlag'[u] = f /\ want'[u] = f /\ ~bSignal'[f] /\ ~bSignalRaised'[u]
             /\ bThreadBlocked'[u] <=> u # running'
             /\ u = running' => pc' \in {"waits", "block"}
        BY <1>7, <2>4 DEF Flags
    <2>6. pc' \in {"waits", "block"} /\ ptFlag'[running'] # NULL
              => running' \in On(m, ptFlag'[running'])
        <3> SUFFICES ASSUME pc \in {"waits", "block"}, ptFlag'[running] # NULL
                     PROVE  running \in On(m, ptFlag'[running])
            OBVIOUS
        <3>1. running \in Tasks
            BY <1>0 DEF TypeOK, Runner, Ptr
        <3>2. running \notin On(l, Event) /\ ptFlag'[running] = ptFlag[running]
            BY <1>1, <3>1
        <3>3. running \in On(l, ptFlag[running]) /\ ptFlag[running] \in Flags
            BY <1>0, <3>1, <3>2 DEF Placed, TypeOK
        <3> QED
            BY <1>7, <3>2, <3>3 DEF Flags
    <2>7. ~nullRead' => \A u \in Tasks : u = running' \/ \E p \in Lists : u \in On(m, p)
        <3> SUFFICES ASSUME ~nullRead, NEW u \in Tasks, u # running
                     PROVE  \E p \in Lists : u \in On(m, p)
            OBVIOUS
        <3>1. PICK p \in Lists : u \in On(l, p)
            BY DEF Placed
        <3>2. CASE p = Event
            BY <1>7, <1>9, <3>1, <3>2, Names
        <3>3. CASE p # Event
            BY <1>7, <3>1, <3>3, Names DEF Lists, Flags
        <3> QED
            BY <3>2, <3>3
    <2> QED
        BY <2>1, <2>2, <2>5, <2>6, <2>7 DEF Placed
<1> QED
    BY <1>8, <1>10

(* A task that is run, and does not wait, is on no list. *)
LEMMA RunningOff ==
    ASSUME IInv, NEW l, Held(l), Placed(l), pc \in {"run", "requeue", "free"}
    PROVE  /\ running \in Tasks /\ running \in keyed
           /\ \A q \in Lists : running \notin On(l, q)
           /\ \A f \in Flags : \A u \in On(l, f) : bThreadBlocked[u] /\ u \in Tasks /\ u # running
<1>0. TypeOK /\ Runner
    BY DEF IInv
<1>1. running \in Tasks /\ running \in keyed
    BY <1>0, Names DEF TypeOK, Runner, Ptr
<1>2. \A q \in Lists : running \notin On(l, q)
    BY <1>1 DEF Placed, Lists
<1>3. \A f \in Flags : On(l, f) \subseteq Tasks
    BY FirstOn DEF Held, Lists
<1> QED
    BY <1>1, <1>2, <1>3 DEF Placed, Lists

(* scheduler() takes a task from the ready queue. *)
LEMMA DequeueLists ==
    ASSUME IInv, NEW l, Held(l), Placed(l), Dequeue
    PROVE  \E m : Held(m)' /\ Placed(m)'
<1>0. TypeOK /\ Runner
    BY DEF IInv
<1>1. running = NULL /\ pc = "poll" /\ qHead # NULL
    BY <1>0 DEF Dequeue, Runner
<1>2. /\ Sound(l, pNext) /\ l[ReadyList] # <<>> /\ ReadyList \in Lists
      /\ qHead = First(l[ReadyList]) /\ qTail = Last(l[ReadyList])
    BY <1>1, FirstOn, Names DEF Held
<1>3. PICK t : t = qHead
    OBVIOUS
<1>4. PICK m : m = Put(l, ReadyList, Tail(l[ReadyList]))
    OBVIOUS
<1>5. /\ Sound(m, pNext) /\ t \in Tasks
      /\ On(m, ReadyList) = On(l, ReadyList) \ {t} /\ t \in On(l, ReadyList)
      /\ \A q \in Lists \ {ReadyList} : m[q] = l[q] /\ On(m, q) = On(l, q) /\ t \notin On(l, q)
      /\ First(m[ReadyList]) = pNext[t]
      /\ Last(m[ReadyList]) = IF pNext[t] = NULL THEN NULL ELSE Last(l[ReadyList])
    BY <1>2, <1>3, <1>4, Popped
<1>6. /\ running' = t /\ pc' = "run" /\ qHead' = pNext[t]
      /\ qTail' = (IF pNext[t] = NULL THEN NULL ELSE qTail)
      /\ UNCHANGED <<freeHead, pNext, keyed, bSignalRaised, bThreadBlocked, ptFlag,
                     bSignal, ptHead, ptTail, want, nullRead>>
    BY <1>3 DEF Dequeue, GetTask, signals, flags
<1>7. FreeList \in Lists \ {ReadyList} /\ Flags \subseteq Lists \ {ReadyList}
    BY Names DEF Lists
<1>8. Held(m)'
    <2>1. freeHead' = First(m[FreeList])
        BY <1>5, <1>6, <1>7 DEF Held
    <2>2. qHead' = First(m[ReadyList]) /\ qTail' = Last(m[ReadyList])
        BY <1>2, <1>5, <1>6
    <2>3. \A f \in Flags : ptHead'[f] = First(m[f]) /\ ptTail'[f] = Last(m[f])
        BY <1>5, <1>6, <1>7 DEF Held
    <2>4. Sound(m, pNext')
        BY <1>5, <1>6
    <2> QED
        BY <2>1, <2>2, <2>3, <2>4 DEF Held
<1>9. Placed(m)'
    <2>1. On(m, FreeList) = Tasks \ keyed'
        BY <1>5, <1>6, <1>7 DEF Placed
    <2>2. running' \notin On(m, ReadyList)
        BY <1>5, <1>6
    <2>3. \A f \in Flags : On(m, f) = On(l, f) /\ t \notin On(l, f) /\ On(l, f) \subseteq Tasks
        BY <1>2, <1>5, <1>7, FirstOn
    <2>4. \A f \in Flags : \A u \in On(m, f) :
             /\ ptFlag'[u] = f /\ want'[u] = f /\ ~bSignal'[f] /\ ~bSignalRaised'[u]
             /\ bThreadBlocked'[u] <=> u # running'
             /\ u = running' => pc' \in {"waits", "block"}
        BY <1>1, <1>6, <2>3, Names DEF Placed
    <2>5. ~nullRead' => \A u \in Tasks : u = running' \/ \E p \in Lists : u \in On(m, p)
        BY <1>1, <1>5, <1>6, Names DEF Placed
    <2> QED
        BY <1>6, <2>1, <2>2, <2>4, <2>5 DEF Placed
<1> QED
    BY <1>8, <1>9

(* scheduler() puts the task back in the ready queue. *)
LEMMA RequeueLists ==
    ASSUME IInv, NEW l, Held(l), Placed(l), Requeue
    PROVE  \E m : Held(m)' /\ Placed(m)'
<1>0. TypeOK
    BY DEF IInv
<1>1. PICK t \in Tasks : t = running
    BY RunningOff DEF Requeue
<1>2. /\ t \in keyed /\ \A q \in Lists : t \notin On(l, q)
      /\ \A f \in Flags : \A u \in On(l, f) : bThreadBlocked[u] /\ u \in Tasks /\ u # t
    BY <1>1, RunningOff DEF Requeue
<1>3. /\ Sound(l, pNext) /\ pNext \in [Tasks -> Tasks \cup {NULL}]
      /\ qHead = First(l[ReadyList]) /\ qTail = Last(l[ReadyList])
    BY <1>0 DEF Held, TypeOK, Ptr
<1>4. PICK m : m = Put(l, ReadyList, Append(l[ReadyList], t))
    OBVIOUS
<1>5. /\ AddTask(t, pNext) /\ running' = NULL /\ pc' = "poll"
      /\ UNCHANGED <<freeHead, keyed, bSignalRaised, bThreadBlocked, ptFlag, bSignal,
                     ptHead, ptTail, want, nullRead>>
    BY <1>1 DEF Requeue, signals, flags
<1>6. /\ Sound(m, pNext') /\ On(m, ReadyList) = On(l, ReadyList) \cup {t}
      /\ \A q \in Lists \ {ReadyList} : m[q] = l[q] /\ On(m, q) = On(l, q)
      /\ qHead' = First(m[ReadyList]) /\ qTail' = Last(m[ReadyList])
    BY <1>2, <1>3, <1>4, <1>5, AddTaskIs
<1>7. FreeList \in Lists \ {ReadyList} /\ Flags \subseteq Lists \ {ReadyList} /\ ReadyList \in Lists
    BY Names DEF Lists
<1>8. Held(m)'
    <2>1. freeHead' = First(m[FreeList])
        BY <1>5, <1>6, <1>7 DEF Held
    <2>2. \A f \in Flags : ptHead'[f] = First(m[f]) /\ ptTail'[f] = Last(m[f])
        BY <1>5, <1>6, <1>7 DEF Held
    <2> QED
        BY <1>6, <2>1, <2>2 DEF Held
<1>9. Placed(m)'
    <2>1. On(m, FreeList) = Tasks \ keyed'
        BY <1>5, <1>6, <1>7 DEF Placed
    <2>2. running' \notin On(m, ReadyList)
        BY <1>3, <1>5, <1>6, <1>7, FirstOn, Names
    <2>3. \A f \in Flags : \A u \in On(m, f) :
             /\ ptFlag'[u] = f /\ want'[u] = f /\ ~bSignal'[f] /\ ~bSignalRaised'[u]
             /\ bThreadBlocked'[u] <=> u # running'
             /\ u = running' => pc' \in {"waits", "block"}
        BY <1>2, <1>5, <1>6, <1>7, Names DEF Placed
    <2>4. ~nullRead' => \A u \in Tasks : u = running' \/ \E p \in Lists : u \in On(m, p)
        BY <1>1, <1>5, <1>6, <1>7 DEF Placed
    <2> QED
        BY <1>5, <2>1, <2>2, <2>3, <2>4 DEF Placed
<1> QED
    BY <1>8, <1>9

(* free_task puts the block before the free list. *)
LEMMA FreeTaskLists ==
    ASSUME IInv, NEW l, Held(l), Placed(l), FreeTask
    PROVE  \E m : Held(m)' /\ Placed(m)'
<1>0. TypeOK
    BY DEF IInv
<1>1. PICK t \in Tasks : t = running
    BY RunningOff DEF FreeTask
<1>2. /\ t \in keyed /\ \A q \in Lists : t \notin On(l, q)
      /\ \A f \in Flags : \A u \in On(l, f) : bThreadBlocked[u] /\ u \in Tasks /\ u # t
    BY <1>1, RunningOff DEF FreeTask
<1>3. /\ Sound(l, pNext) /\ pNext \in [Tasks -> Tasks \cup {NULL}]
      /\ freeHead = First(l[FreeList]) /\ FreeList \in Lists
    BY <1>0, Names DEF Held, TypeOK, Ptr
<1>4. PICK m : m = Put(l, FreeList, Push(t, l[FreeList]))
    OBVIOUS
<1>5. /\ keyed' = keyed \ {t} /\ freeHead' = t /\ pNext' = Put(pNext, t, First(l[FreeList]))
      /\ running' = NULL /\ pc' = "poll"
      /\ UNCHANGED <<qHead, qTail, bSignalRaised, bThreadBlocked, ptFlag, bSignal,
                     ptHead, ptTail, want, nullRead>>
    BY <1>1, <1>2, <1>3 DEF FreeTask, Put, signals, flags, ready
<1>6. /\ Sound(m, pNext') /\ On(m, FreeList) = On(l, FreeList) \cup {t}
      /\ First(m[FreeList]) = t
      /\ \A q \in Lists \ {FreeList} : m[q] = l[q] /\ On(m, q) = On(l, q)
    BY <1>2, <1>3, <1>4, <1>5, Pushed
<1>7. ReadyList \in Lists \ {FreeList} /\ Flags \subseteq Lists \ {FreeList}
    BY Names DEF Lists
<1>8. Held(m)'
    <2>1. qHead' = First(m[ReadyList]) /\ qTail' = Last(m[ReadyList])
        BY <1>5, <1>6, <1>7 DEF Held
    <2>2. \A f \in Flags : ptHead'[f] = First(m[f]) /\ ptTail'[f] = Last(m[f])
        BY <1>5, <1>6, <1>7 DEF Held
    <2>3. freeHead' = First(m[FreeList])
        BY <1>5, <1>6
    <2> QED
        BY <1>6, <2>1, <2>2, <2>3 DEF Held
<1>9. Placed(m)'
    <2>1. On(m, FreeList) = Tasks \ keyed'
        BY <1>5, <1>6 DEF Placed
    <2>2. running' \notin On(m, ReadyList)
        BY <1>3, <1>5, <1>6, <1>7, FirstOn, Names
    <2>3. \A f \in Flags : \A u \in On(m, f) :
             /\ ptFlag'[u] = f /\ want'[u] = f /\ ~bSignal'[f] /\ ~bSignalRaised'[u]
             /\ bThreadBlocked'[u] <=> u # running'
             /\ u = running' => pc' \in {"waits", "block"}
        BY <1>2, <1>5, <1>6, <1>7, Names DEF Placed
    <2>4. ~nullRead' => \A u \in Tasks : u = running' \/ \E p \in Lists : u \in On(m, p)
        BY <1>1, <1>3, <1>5, <1>6 DEF Placed
    <2> QED
        BY <1>5, <2>1, <2>2, <2>3, <2>4 DEF Placed
<1> QED
    BY <1>8, <1>9

(* leave_critical_section moves the first waiter to the ready queue. *)
LEMMA LeaveToWaiterLists ==
    ASSUME IInv, NEW l, Held(l), Placed(l), NEW t \in Tasks, LeaveToWaiter(t)
    PROVE  \E m : Held(m)' /\ Placed(m)'
<1>0. TypeOK
    BY DEF IInv
<1>1. t = running /\ pc = "run" /\ ptHead[Section] # NULL
    BY DEF LeaveToWaiter, Free, Runs
<1>2. PICK u \in Tasks : u = ptHead[Section] /\ bThreadBlocked[u] /\ u # running
    BY <1>1, Heads
<1>3. /\ Sound(l, pNext) /\ l[Section] # <<>> /\ u = First(l[Section])
      /\ ptTail[Section] = Last(l[Section])
      /\ pNext \in [Tasks -> Tasks \cup {NULL}]
    BY <1>0, <1>1, <1>2, FirstOn, Names DEF Held, Flags, TypeOK, Ptr
<1>4. PICK p \in Lists : p = Section
    BY Names
<1>5. PICK a : a = Put(l, p, Tail(l[p]))
    OBVIOUS
<1>6. Sound(l, pNext) /\ l[p] # <<>> /\ u = First(l[p])
    BY <1>3, <1>4
<1>7. /\ Sound(a, pNext) /\ On(a, p) = On(l, p) \ {u} /\ u \in On(l, p)
      /\ \A q \in Lists \ {p} : a[q] = l[q] /\ On(a, q) = On(l, q) /\ u \notin On(l, q)
      /\ First(a[p]) = pNext[u]
      /\ Last(a[p]) = IF pNext[u] = NULL THEN NULL ELSE Last(l[p])
    BY <1>5, <1>6, Popped
<1>8. \A q \in Lists : u \notin On(a, q)
    BY <1>7
<1>9. PICK next : next = Put(pNext, u, NULL)
    OBVIOUS
<1>10. Sound(a, next) /\ next \in [Tasks -> Tasks \cup {NULL}]
    <2>1. Sound(a, pNext)
        BY <1>7
    <2>2. Sound(a, Put(pNext, u, NULL)) /\ Put(pNext, u, NULL) \in [Tasks -> Tasks \cup {NULL, NULL}]
        BY <1>3, <1>8, <2>1, Unlisted
    <2> QED
        BY <1>9, <2>2
<1>11. PICK m : m = Put(a, ReadyList, Append(a[ReadyList], u))
    OBVIOUS
<1>12. /\ ptHead' = [ptHead EXCEPT ![Section] = pNext[u]]
       /\ ptTail' = IF pNext[u] = NULL THEN [ptTail EXCEPT ![Section] = NULL] ELSE ptTail
       /\ AddTask(u, next)
       /\ bThreadBlocked' = [bThreadBlocked EXCEPT ![u] = FALSE]
       /\ ptFlag' = [ptFlag EXCEPT ![u] = NULL]
       /\ bSignalRaised' = [bSignalRaised EXCEPT ![u] = TRUE]
       /\ UNCHANGED <<freeHead, keyed, bSignal, running, pc, want, nullRead>>
    BY <1>2, <1>9 DEF LeaveToWaiter, Put
<1>13. Section # ReadyList /\ ReadyList \in Lists /\ FreeList \in Lists
       /\ FreeList # ReadyList /\ FreeList # Section /\ Event \in Lists
       /\ Event # ReadyList /\ Event # Section
    BY Names DEF Flags
<1>14. qHead = First(a[ReadyList]) /\ qTail = Last(a[ReadyList])
    BY <1>4, <1>7, <1>13 DEF Held
<1>15. /\ Sound(m, pNext') /\ On(m, ReadyList) = On(a, ReadyList) \cup {u}
       /\ \A q \in Lists \ {ReadyList} : m[q] = a[q] /\ On(m, q) = On(a, q)
       /\ qHead' = First(m[ReadyList]) /\ qTail' = Last(m[ReadyList])
    BY <1>8, <1>10, <1>11, <1>12, <1>14, AddTaskIs
<1>16. Held(m)'
    <2>1. freeHead' = First(m[FreeList])
        BY <1>4, <1>7, <1>12, <1>13, <1>15 DEF Held
    <2>2. First(m[Section]) = pNext[u] /\ Last(m[Section]) = (IF pNext[u] = NULL THEN NULL ELSE ptTail[Section])
        BY <1>3, <1>4, <1>7, <1>13, <1>15
    <2>3. ptHead'[Section] = First(m[Section]) /\ ptTail'[Section] = Last(m[Section])
        BY <1>0, <1>12, <2>2 DEF TypeOK, Flags
    <2>4. ptHead'[Event] = ptHead[Event] /\ ptTail'[Event] = ptTail[Event]
        BY <1>0, <1>12, <1>13 DEF TypeOK, Flags
    <2>5. m[Event] = l[Event]
        BY <1>4, <1>7, <1>13, <1>15
    <2>6. \A f \in Flags : ptHead'[f] = First(m[f]) /\ ptTail'[f] = Last(m[f])
        BY <2>3, <2>4, <2>5 DEF Held, Flags
    <2> QED
        BY <1>15, <2>1, <2>6 DEF Held
<1>17. /\ On(m, FreeList) = On(l, FreeList) /\ On(m, ReadyList) = On(l, ReadyList) \cup {u}
       /\ On(m, Event) = On(l, Event) /\ On(m, Section) = On(l, Section) \ {u}
    BY <1>4, <1>7, <1>13, <1>15
<1>18. Placed(m)'
    <2>1. On(m, FreeList) = Tasks \ keyed'
        BY <1>12, <1>17 DEF Placed
    <2>2. running' \notin On(m, ReadyList)
        BY <1>2, <1>12, <1>17 DEF Placed
    <2>3. \A f \in Flags : On(m, f) \subseteq On(l, f) /\ u \notin On(m, f) /\ On(l, f) \subseteq Tasks
        BY <1>4, <1>7, <1>13, <1>17, FirstOn DEF Flags
    <2>4. \A w \in Tasks \ {u} :
             /\ ptFlag'[w] = ptFlag[w] /\ (bSignalRaised'[w] <=> bSignalRaised[w])
             /\ (bThreadBlocked'[w] <=> bThreadBlocked[w])
        BY <1>0, <1>12 DEF TypeOK
    <2>5. \A f \in Flags : \A w \in On(m, f) :
             /\ ptFlag'[w] = f /\ want'[w] = f /\ ~bSignal'[f] /\ ~bSignalRaised'[w]
             /\ bThreadBlocked'[w] <=> w # running'
             /\ w = running' => pc' \in {"waits", "block"}
        BY <1>12, <2>3, <2>4 DEF Placed
    <2>6. \A q \in Lists : \A w \in On(l, q) : \E r \in Lists : w \in On(m, r)
        BY <1>13, <1>17 DEF Lists, Flags
    <2>7. ~nullRead' => \A w \in Tasks : w = running' \/ \E q \in Lists : w \in On(m, q)
        BY <1>12, <2>6 DEF Placed
    <2> QED
        BY <1>1, <1>12, <2>1, <2>2, <2>5, <2>7 DEF Placed
<1> QED
    BY <1>16, <1>18

(* A task that returned WAIT_FOR_OBJ is blocked where it waits, unless the *)
(* event was set meanwhile: then it is on no list, and may be put back in  *)
(* the ready queue.                                                        *)
LEMMA BlockLists ==
    ASSUME IInv, NEW l, Held(l), Placed(l), Block
    PROVE  \E m : Held(m)' /\ Placed(m)'
<1>0. TypeOK /\ Runner
    BY DEF IInv
<1>1. PICK t \in Tasks : t = running /\ t \in keyed
    BY <1>0, Names DEF Block, Runner, TypeOK, Ptr
<1>2. PICK signalled \in BOOLEAN :
         Blocks(signalled) /\ (ptFlag[t] # NULL => signalled = bSignal[ptFlag[t]])
    BY <1>1 DEF Block
<1>3. /\ running' = NULL /\ pc = "block" /\ pc' = "poll"
      /\ (nullRead' <=> nullRead \/ ptFlag[t] = NULL)
      /\ bThreadBlocked' = [bThreadBlocked EXCEPT ![t] = ~signalled]
      /\ UNCHANGED <<freeHead, keyed, bSignal, ptHead, ptTail, want>>
    BY <1>1, <1>2 DEF Block, Blocks, flags
<1>4. /\ Sound(l, pNext) /\ pNext \in [Tasks -> Tasks \cup {NULL}]
      /\ qHead = First(l[ReadyList]) /\ qTail = Last(l[ReadyList])
    BY <1>0 DEF Held, TypeOK, Ptr
<1>5. /\ FreeList \in Lists \ {ReadyList} /\ Flags \subseteq Lists \ {ReadyList}
      /\ ReadyList \in Lists /\ \A f \in Flags : f # NULL
    BY Names DEF Lists
<1>6. \A f \in Flags : On(l, f) \subseteq Tasks
    BY <1>4, <1>5, FirstOn
<1>7. \A u \in Tasks \ {t} : (bThreadBlocked'[u] <=> bThreadBlocked[u])
    BY <1>0, <1>3 DEF TypeOK
<1>8. CASE signalled
    <2>1. ptFlag[t] = NULL
        <3> SUFFICES ASSUME ptFlag[t] # NULL PROVE FALSE
            OBVIOUS
        <3>1. ptFlag[t] \in Flags /\ t \in On(l, ptFlag[t])
            BY <1>0, <1>1, <1>3 DEF Placed, TypeOK
        <3>2. ~bSignal[ptFlag[t]]
            BY <3>1 DEF Placed
        <3> QED
            BY <1>2, <1>8, <3>2
    <2>2. \A q \in Lists : t \notin On(l, q)
        BY <1>1, <1>5, <2>1 DEF Placed, Lists
    <2>3. AddTask(t, pNext) /\ bSignalRaised' = [bSignalRaised EXCEPT ![t] = TRUE]
          /\ ptFlag' = [ptFlag EXCEPT ![t] = NULL]
        BY <1>1, <1>2, <1>8 DEF Blocks
    <2>4. PICK m : m = Put(l, ReadyList, Append(l[ReadyList], t))
        OBVIOUS
    <2>5. /\ Sound(m, pNext') /\ On(m, ReadyList) = On(l, ReadyList) \cup {t}
          /\ \A q \in Lists \ {ReadyList} : m[q] = l[q] /\ On(m, q) = On(l, q)
          /\ qHead' = First(m[ReadyList]) /\ qTail' = Last(m[ReadyList])
        BY <1>4, <2>2, <2>3, <2>4, AddTaskIs
    <2>6. Held(m)'
        <3>1. freeHead' = First(m[FreeList])
            BY <1>3, <1>5, <2>5 DEF Held
        <3>2. \A f \in Flags : ptHead'[f] = First(m[f]) /\ ptTail'[f] = Last(m[f])
            BY <1>3, <1>5, <2>5 DEF Held
        <3> QED
            BY <2>5, <3>1, <3>2 DEF Held
    <2>7. Placed(m)'
        <3>1. On(m, FreeList) = Tasks \ keyed'
            BY <1>3, <1>5, <2>5 DEF Placed
        <3>2. running' \notin On(m, ReadyList)
            BY <1>3, <1>4, <1>5, <2>5, FirstOn, Names
        <3>3. \A u \in Tasks \ {t} : ptFlag'[u] = ptFlag[u] /\ (bSignalRaised'[u] <=> bSignalRaised[u])
            BY <1>0, <2>3 DEF TypeOK
        <3>4. \A f \in Flags : On(m, f) = On(l, f) /\ On(l, f) \subseteq Tasks \ {t}
            BY <1>5, <1>6, <2>2, <2>5
        <3>5. \A f \in Flags : \A u \in On(m, f) :
                 /\ ptFlag'[u] = f /\ want'[u] = f /\ ~bSignal'[f] /\ ~bSignalRaised'[u]
                 /\ bThreadBlocked'[u] <=> u # running'
                 /\ u = running' => pc' \in {"waits", "block"}
            <4>1. \A f \in Flags : \A u \in On(l, f) :
                     ptFlag[u] = f /\ want[u] = f /\ ~bSignal[f] /\ ~bSignalRaised[u]
                     /\ (bThreadBlocked[u] <=> u # t)
                BY <1>1 DEF Placed
            <4>2. \A f \in Flags : \A u \in On(m, f) :
                     u \in On(l, f) /\ u \in Tasks \ {t} /\ u # NULL
                BY <3>4, Names
            <4> QED
                BY <1>3, <1>7, <3>3, <4>1, <4>2
        <3> QED
            BY <1>3, <2>1, <3>1, <3>2, <3>5 DEF Placed
    <2> QED
        BY <2>6, <2>7
<1>9. CASE ~signalled
    <2>1. UNCHANGED <<ready, pNext, bSignalRaised, ptFlag>>
        BY <1>2, <1>9 DEF Blocks
    <2>2. Held(l)'
        BY <1>3, <2>1, SameLists
    <2>3. Placed(l)'
        <3>1. On(l, FreeList) = Tasks \ keyed'
            BY <1>3 DEF Placed
        <3>2. running' \notin On(l, ReadyList)
            BY <1>3, <1>4, <1>5, FirstOn, Names
        <3>3. \A u \in Tasks : u = t => bThreadBlocked'[u]
            BY <1>0, <1>3, <1>9 DEF TypeOK
        <3>4. \A f \in Flags : \A u \in On(l, f) :
                 /\ ptFlag'[u] = f /\ want'[u] = f /\ ~bSignal'[f] /\ ~bSignalRaised'[u]
                 /\ bThreadBlocked'[u] <=> u # running'
                 /\ u = running' => pc' \in {"waits", "block"}
            BY <1>1, <1>3, <1>6, <1>7, <2>1, <3>3, Names DEF Placed
        <3>5. ~nullRead' => \A u \in Tasks : u = running' \/ \E q \in Lists : u \in On(l, q)
            <4> SUFFICES ASSUME ~nullRead', NEW u \in Tasks
                         PROVE  \E q \in Lists : u \in On(l, q)
                OBVIOUS
            <4>1. ~nullRead /\ ptFlag[t] # NULL
                BY <1>3
            <4>2. t \in On(l, ptFlag[t]) /\ ptFlag[t] \in Lists
                BY <1>0, <1>1, <1>3, <1>5, <4>1 DEF Placed, TypeOK
            <4> QED
                BY <1>1, <4>1, <4>2 DEF Placed
        <3> QED
            BY <1>3, <3>1, <3>2, <3>4, <3>5 DEF Placed
    <2> QED
        BY <2>2, <2>3
<1> QED
    BY <1>8, <1>9

(* What a task does without touching a list leaves each block in place. *)
LEMMA RunLists ==
    ASSUME IInv, NEW l, Held(l), Placed(l), NEW t \in Tasks,
           Call(t) \/ OnGoing(t) \/ Complete(t) \/ ResetEvent(t) \/ LeaveFree(t)
    PROVE  Held(l)' /\ Placed(l)'
<1>0. TypeOK
    BY DEF IInv
<1>1. /\ t = running /\ pc = "run" /\ pc' \in {"run", "requeue", "free"}
      /\ UNCHANGED <<freeHead, ready, pNext, ptHead, ptTail>>
      /\ UNCHANGED <<keyed, bSignalRaised, bThreadBlocked, ptFlag, running, want, nullRead>>
    BY DEF Call, OnGoing, Complete, ResetEvent, LeaveFree, Free, Runs, signals, flags
<1>2. Held(l)'
    BY <1>1, SameLists
<1>3. \A f \in Flags : \A u \in On(l, f) : u # running
    BY <1>1 DEF Placed
<1>4. \A f \in Flags : On(l, f) # {} => ~bSignal'[f]
    <2> SUFFICES ASSUME NEW f \in Flags, On(l, f) # {}  PROVE ~bSignal'[f]
        OBVIOUS
    <2>1. ~bSignal[f]
        BY DEF Placed
    <2>2. CASE LeaveFree(t)
        <3>1. f # Section
            BY <2>2, FirstOn, Names DEF LeaveFree, Held, Flags
        <3> QED
            BY <1>0, <2>1, <2>2, <3>1 DEF LeaveFree, TypeOK
    <2>3. CASE ResetEvent(t)
        BY <1>0, <2>1, <2>3 DEF ResetEvent, TypeOK
    <2>4. CASE Call(t) \/ OnGoing(t) \/ Complete(t)
        BY <2>1, <2>4 DEF Call, OnGoing, Complete, flags
    <2> QED
        BY <2>2, <2>3, <2>4
<1>5. Placed(l)'
    BY <1>1, <1>3, <1>4 DEF Placed
<1> QED
    BY <1>2, <1>5

(* So does a wait that succeeds. *)
LEMMA WaitSucceedsLists ==
    ASSUME IInv, NEW l, Held(l), Placed(l), NEW t \in Tasks, NEW f \in Flags, WaitSucceeds(t, f)
    PROVE  Held(l)' /\ Placed(l)'
<1>0. TypeOK
    BY DEF IInv
<1>1. /\ t = running /\ pc = "run" /\ pc' = "run"
      /\ UNCHANGED <<freeHead, ready, pNext, ptHead, ptTail>>
      /\ UNCHANGED <<keyed, bThreadBlocked, ptFlag, running, nullRead>>
      /\ bSignal' = [bSignal EXCEPT ![f] = @ /\ bManualReset[f]]
      /\ bSignalRaised' = [bSignalRaised EXCEPT ![t] = FALSE]
      /\ want' = [want EXCEPT ![t] = NULL]
    BY DEF WaitSucceeds, Runs
<1>2. Held(l)'
    BY <1>1, SameLists
<1>3. \A g \in Flags : \A u \in On(l, g) : u \in Tasks \ {t}
    BY <1>1, RunningOff
<1>4. \A u \in Tasks \ {t} : (bSignalRaised'[u] <=> bSignalRaised[u]) /\ want'[u] = want[u]
    BY <1>0, <1>1 DEF TypeOK
<1>5. \A g \in Flags : bSignal'[g] => bSignal[g]
    BY <1>0, <1>1 DEF TypeOK
<1>6. Placed(l)'
    BY <1>1, <1>3, <1>4, <1>5 DEF Placed
<1> QED
    BY <1>2, <1>6

(* So does the scheduler when it looks whether the flag is still there. *)
LEMMA LookLists ==
    ASSUME IInv, NEW l, Held(l), Placed(l), FlagGone \/ FlagThere
    PROVE  Held(l)' /\ Placed(l)'
<1>0. TypeOK
    BY DEF IInv
<1>1. /\ pc = "waits" /\ (pc' = "block" \/ (ptFlag[running] = NULL /\ pc' = "requeue"))
      /\ UNCHANGED <<freeHead, ready, pNext, ptHead, ptTail>>
      /\ UNCHANGED <<keyed, bSignal, bThreadBlocked, ptFlag, want, running, nullRead>>
      /\ bSignalRaised' = bSignalRaised \/ bSignalRaised' = [bSignalRaised EXCEPT ![running] = FALSE]
    BY DEF FlagGone, FlagThere, signals, flags
<1>2. Held(l)'
    BY <1>1, SameLists
<1>3. \A u \in Tasks : bSignalRaised'[u] => bSignalRaised[u]
    BY <1>0, <1>1 DEF TypeOK
<1>4. \A f \in Flags : f # NULL /\ On(l, f) \subseteq Tasks
    BY FirstOn, Names DEF Held, Lists
<1>5. \A f \in Flags : \A u \in On(l, f) : u = running => pc' \in {"waits", "block"}
    BY <1>1, <1>4 DEF Placed
<1>6. \A f \in Flags : \A u \in On(l, f) : ~bSignalRaised'[u]
    BY <1>3, <1>4 DEF Placed
<1>7. Placed(l)'
    BY <1>1, <1>5, <1>6 DEF Placed
<1> QED
    BY <1>2, <1>7

(* Every step leaves the variables holding four lists. *)
LEMMA ListsStep == IInv /\ Next => \E l : Held(l)' /\ Placed(l)'
<1> SUFFICES ASSUME IInv, Next PROVE \E l : Held(l)' /\ Placed(l)'
    OBVIOUS
<1>1. PICK l : Held(l) /\ Placed(l)
    BY DEF IInv
<1>2. CASE RegisterTask
    BY <1>1, <1>2, RegisterLists
<1>3. ASSUME NEW t \in Tasks, TaskReturns(t) \/ ResetEvent(t) \/ LeaveFree(t)
      PROVE  \E m : Held(m)' /\ Placed(m)'
    <2>1. Call(t) \/ OnGoing(t) \/ Complete(t) \/ ResetEvent(t) \/ LeaveFree(t)
        BY <1>3 DEF TaskReturns
    <2> QED
        BY <1>1, <2>1, RunLists
<1>4. ASSUME NEW t \in Tasks, NEW f \in Flags, WaitSucceeds(t, f)
      PROVE  \E m : Held(m)' /\ Placed(m)'
    BY <1>1, <1>4, WaitSucceedsLists
<1>5. ASSUME NEW t \in Tasks, NEW f \in Flags, WaitFails(t, f)
      PROVE  \E m : Held(m)' /\ Placed(m)'
    BY <1>1, <1>5, WaitFailsLists
<1>6. ASSUME NEW t \in Tasks, LeaveToWaiter(t)
      PROVE  \E m : Held(m)' /\ Placed(m)'
    BY <1>1, <1>6, LeaveToWaiterLists
<1>7. CASE IsrSetEvent \/ \E t \in Tasks : SetEvent(t)
    <2>1. /\ Awaken(Event, Visited(Event))
          /\ UNCHANGED <<cfg, freeHead, keyed, chSP, running, pc, want, inside, nullRead>>
        BY <1>7 DEF IsrSetEvent, SetEvent
    <2> QED
        BY <1>1, <2>1, AwakenLists
<1>8. CASE Dequeue
    BY <1>1, <1>8, DequeueLists
<1>9. CASE Requeue
    BY <1>1, <1>9, RequeueLists
<1>10. CASE FreeTask
    BY <1>1, <1>10, FreeTaskLists
<1>11. CASE Block
    BY <1>1, <1>11, BlockLists
<1>12. CASE FlagGone \/ FlagThere
    BY <1>1, <1>12, LookLists
<1> QED
    BY <1>2, <1>3, <1>4, <1>5, <1>6, <1>7, <1>8, <1>9, <1>10, <1>11, <1>12
    DEF Next, TaskStep, TaskWaits, TaskLeaves, SchedulerStep

--------------------------------------------------------------------------------
(* The theorems.                                                           *)

(* At the beginning every block is on the free list, the last one first. *)
LEMMA InitLists == Init => \E l : Held(l) /\ Placed(l)
<1> SUFFICES ASSUME Init PROVE \E l : Held(l) /\ Placed(l)
    OBVIOUS
<1>0. NumTasks \in Nat /\ NumTasks # 0
    BY PoolAssumption
<1>1. PICK s : s = [i \in 1..NumTasks |-> NumTasks + 1 - i]
    OBVIOUS
<1>2. s \in Seq(Tasks) /\ Len(s) = NumTasks /\ \A i \in 1..NumTasks : s[i] = NumTasks + 1 - i
    <2>1. \A i \in 1..NumTasks : NumTasks + 1 - i \in Tasks
        BY <1>0 DEF Tasks
    <2>2. s \in Seq(Tasks)
        BY <1>0, <1>1, <2>1
    <2>3. Len(s) = NumTasks
        BY <1>0, <1>1, <2>2
    <2> QED
        BY <1>1, <2>2, <2>3
<1>3. PICK l : l = [p \in Lists |-> IF p = FreeList THEN s ELSE <<>>]
    OBVIOUS
<1>4. /\ l \in [Lists -> Seq(Tasks)] /\ l[FreeList] = s
      /\ \A p \in Lists \ {FreeList} : l[p] = <<>> /\ Len(l[p]) = 0 /\ On(l, p) = {}
    BY <1>2, <1>3, Names DEF On
<1>5. Apart(l)
    <2> SUFFICES ASSUME NEW p \in Lists, NEW q \in Lists,
                        NEW i \in 1..Len(l[p]), NEW j \in 1..Len(l[q]), l[p][i] = l[q][j]
                 PROVE  p = q /\ i = j
        BY DEF Apart
    <2>1. p = FreeList /\ q = FreeList
        BY <1>4
    <2>2. i \in 1..NumTasks /\ j \in 1..NumTasks /\ NumTasks + 1 - i = NumTasks + 1 - j
        BY <1>2, <1>4, <2>1
    <2>3. i = j
        BY <1>0, <2>2
    <2> QED
        BY <2>1, <2>3
<1>6. Linked(l, pNext)
    <2> SUFFICES ASSUME NEW p \in Lists, NEW i \in 1..Len(l[p])
                 PROVE  pNext[l[p][i]] = IF i = Len(l[p]) THEN NULL ELSE l[p][i + 1]
        BY DEF Linked
    <2>1. l[p] = s
        BY <1>4
    <2>2. i \in 1..NumTasks /\ s[i] = NumTasks + 1 - i
        BY <1>2, <2>1
    <2>3. NumTasks + 1 - i \in Tasks /\ NumTasks + 1 - i - 1 = NumTasks - i
        BY <1>0, <2>2 DEF Tasks
    <2>4. pNext[s[i]] = NumTasks - i
        <3>1. PICK t \in Tasks : t = NumTasks + 1 - i
            BY <2>3
        <3>2. pNext[t] = t - 1
            BY DEF Init
        <3> QED
            <4>1. s[i] = t
                BY <2>2, <3>1
            <4>2. t - 1 = NumTasks - i
                BY <1>0, <2>2, <3>1
            <4> QED
                BY <3>2, <4>1, <4>2
    <2>5. CASE i = NumTasks
        BY <1>0, <1>2, <2>1, <2>4, <2>5 DEF NULL
    <2>6. CASE i # NumTasks
        <3>1. i + 1 \in 1..NumTasks /\ NumTasks + 1 - (i + 1) = NumTasks - i
            BY <1>0, <2>2, <2>6
        <3>2. s[i + 1] = NumTasks - i
            BY <1>2, <3>1
        <3> QED
            BY <1>2, <2>1, <2>4, <2>6, <3>2
    <2> QED
        BY <2>5, <2>6
<1>7. First(s) = NumTasks
    <2>1. s # <<>> /\ First(s) = s[1]
        BY <1>0, <1>2, SeqEnds
    <2>2. 1 \in 1..NumTasks /\ NumTasks + 1 - 1 = NumTasks
        BY <1>0
    <2> QED
        BY <1>2, <2>1, <2>2
<1>8. First(<<>>) = NULL /\ Last(<<>>) = NULL
    BY DEF First, Last
<1>9. ReadyList \in Lists \ {FreeList} /\ Flags \subseteq Lists \ {FreeList}
    BY Names DEF Lists
<1>10. Held(l)
    <2>1. Sound(l, pNext)
        BY <1>4, <1>5, <1>6 DEF Sound
    <2>2. freeHead = First(l[FreeList])
        BY <1>4, <1>7 DEF Init
    <2>3. qHead = First(l[ReadyList]) /\ qTail = Last(l[ReadyList])
        BY <1>4, <1>8, <1>9 DEF Init
    <2>4. \A f \in Flags : ptHead[f] = First(l[f]) /\ ptTail[f] = Last(l[f])
        BY <1>4, <1>8, <1>9 DEF Init
    <2> QED
        BY <2>1, <2>2, <2>3, <2>4 DEF Held
<1>11. On(l, FreeList) = Tasks
    <2>1. On(l, FreeList) \subseteq Tasks
        BY <1>10, FirstOn, Names DEF Held
    <2>2. ASSUME NEW t \in Tasks  PROVE t \in On(l, FreeList)
        <3>1. PICK i \in 1..NumTasks : NumTasks + 1 - i = t
            <4>1. NumTasks + 1 - t \in 1..NumTasks /\ NumTasks + 1 - (NumTasks + 1 - t) = t
                BY <1>0 DEF Tasks
            <4> QED
                BY <4>1
        <3> QED
            BY <1>2, <1>4, <3>1 DEF On
    <2> QED
        BY <2>1, <2>2
<1>12. Placed(l)
    <2>1. /\ keyed = {} /\ pc = "poll" /\ FreeList \in Lists
          /\ \A f \in Flags : On(l, f) = {}
          /\ On(l, ReadyList) = {}
        BY <1>4, <1>9, Names DEF Init
    <2> QED
        BY <1>11, <2>1 DEF Placed
<1> QED
    BY <1>10, <1>12

(* IInv holds at the beginning. *)
LEMMA InitOK == Init => IInv
<1> SUFFICES ASSUME Init PROVE IInv
    OBVIOUS
<1>1. NumTasks \in Ptr /\ [t \in Tasks |-> t - 1] \in [Tasks -> Ptr]
    BY PoolAssumption DEF Tasks, Ptr, NULL
<1>2. 0 \in 0..StackSize /\ NULL \in Ptr
    BY StackAssumption DEF Ptr
<1>3. TypeOK
    BY <1>1, <1>2 DEF Init, TypeOK
<1>4. Runner
    BY Names DEF Init, Runner
<1>5. Wants
    BY Names DEF Init, Wants, Flags
<1>6. OneInside
    BY Names DEF Init, OneInside, Heirs, Flags
<1> QED
    BY <1>3, <1>4, <1>5, <1>6, InitLists DEF IInv

(* A stuttering step keeps IInv. *)
LEMMA StutterOK == IInv /\ UNCHANGED vars => IInv'
<1> SUFFICES ASSUME IInv, UNCHANGED vars PROVE IInv'
    OBVIOUS
<1> USE DEF vars, ready, signals, flags
<1>1. TypeOK'
    BY DEF IInv, TypeOK
<1>2. Runner' /\ Wants'
    BY DEF IInv, Runner, Wants
<1>3. OneInside'
    BY DEF IInv, OneInside, Heirs
<1>4. PICK l : Held(l) /\ Placed(l)
    BY DEF IInv
<1>5. Held(l)'
    BY <1>4 DEF Held
<1>6. Placed(l)'
    BY <1>4 DEF Placed
<1> QED
    BY <1>1, <1>2, <1>3, <1>5, <1>6 DEF IInv

(* IInv is inductive: the four lists share one link per block, and every   *)
(* function of the scheduler leaves each of them whole.                    *)
THEOREM Inductive == Spec => []IInv
<1>1. IInv /\ [Next]_vars => IInv'
    <2>1. IInv /\ Next => IInv'
        <3> SUFFICES ASSUME IInv, Next PROVE IInv'
            OBVIOUS
        <3>1. TypeOK' /\ Runner' /\ Wants' /\ OneInside'
            BY TypeStep, RunnerStep, WantsStep, InsideStep
        <3>2. \E l : Held(l)' /\ Placed(l)'
            BY ListsStep
        <3> QED
            BY <3>1, <3>2 DEF IInv
    <2> QED
        BY <2>1, StutterOK
<1> QED
    BY InitOK, <1>1, PTL DEF Spec

(* The walk from the head of a list finds the blocks on it, ends, and ends *)
(* with the block its tail points at.                                      *)
LEMMA WalkFinds ==
    ASSUME NEW l, Sound(l, pNext), NEW p \in Lists
    PROVE  /\ Members(First(l[p])) = On(l, p) /\ Ends(First(l[p]))
           /\ SoundList(First(l[p]), Last(l[p]))
<1>0. NumTasks \in Nat /\ Len(l[p]) \in 0..NumTasks /\ l[p] \in Seq(Tasks)
    BY PoolAssumption, Short DEF Sound
<1>1. Step(First(l[p])) =
          [k \in 0..NumTasks |-> IF k < Len(l[p]) THEN l[p][k + 1] ELSE NULL]
    BY WalkIs
<1>2. Ends(First(l[p]))
    BY <1>0, <1>1 DEF Ends
<1>3. PICK n \in 0..NumTasks : n = Len(l[p])
    BY <1>0
<1>4. /\ \A k \in 0..NumTasks : k < n => k + 1 \in 1..n
      /\ \A i \in 1..n : i - 1 \in 0..NumTasks /\ i - 1 < n /\ i - 1 + 1 = i
    BY <1>0
<1>5. \A i \in 1..n : l[p][i] \in Tasks /\ l[p][i] # NULL
    BY <1>0, <1>3, Names
<1>6. Members(First(l[p])) = On(l, p)
    <2>1. Members(First(l[p])) =
              {IF k < n THEN l[p][k + 1] ELSE NULL : k \in 0..NumTasks} \ {NULL}
        BY <1>1, <1>3 DEF Members
    <2>2. On(l, p) = {l[p][i] : i \in 1..n}
        BY <1>3 DEF On
    <2>3. ASSUME NEW x \in Members(First(l[p]))  PROVE x \in On(l, p)
        <3>1. PICK k \in 0..NumTasks : k < n /\ x = l[p][k + 1]
            BY <2>1, <2>3
        <3> QED
            BY <1>4, <2>2, <3>1
    <2>4. ASSUME NEW x \in On(l, p)  PROVE x \in Members(First(l[p]))
        <3>1. PICK i \in 1..n : x = l[p][i]
            BY <2>2, <2>4
        <3>2. PICK k \in 0..NumTasks : k < n /\ k + 1 = i
            BY <1>4, <3>1
        <3>3. x = l[p][k + 1] /\ x # NULL
            BY <1>5, <3>1, <3>2
        <3> QED
            BY <2>1, <3>2, <3>3
    <2> QED
        BY <2>3, <2>4
<1>7. First(l[p]) = NULL <=> Last(l[p]) = NULL
    BY <1>0, SeqEnds
<1>8. Last(l[p]) # NULL => Last(l[p]) \in On(l, p) /\ pNext[Last(l[p])] = NULL
    <2> SUFFICES ASSUME l[p] # <<>>
                 PROVE  Last(l[p]) \in On(l, p) /\ pNext[Last(l[p])] = NULL
        BY <1>0, SeqEnds
    <2>1. n \in 1..n /\ Last(l[p]) = l[p][n]
        BY <1>0, <1>3, SeqEnds
    <2>2. pNext[l[p][n]] = NULL
        BY <1>3, <2>1 DEF Sound, Linked
    <2> QED
        BY <2>1, <2>2, FirstOn
<1> QED
    BY <1>2, <1>6, <1>7, <1>8 DEF SoundList

(* OnePlace: no task is lost, listed twice or on two lists, for every size *)
(* of the pool (scheduler.c, task.c).                                      *)
THEOREM OnePlaceAlways == Spec => []OnePlace
<1>1. IInv => OnePlace
    <2> SUFFICES ASSUME IInv PROVE OnePlace
        OBVIOUS
    <2>0. TypeOK /\ Runner
        BY DEF IInv
    <2>1. PICK l : Held(l) /\ Placed(l)
        BY DEF IInv
    <2>2. \A p \in Lists : /\ Members(First(l[p])) = On(l, p) /\ Ends(First(l[p]))
                           /\ SoundList(First(l[p]), Last(l[p]))
                           /\ On(l, p) \subseteq Tasks
        BY <2>1, WalkFinds, FirstOn DEF Held
    <2>3. /\ Members(freeHead) = On(l, FreeList) /\ Ends(freeHead)
          /\ Ready = On(l, ReadyList) /\ SoundList(qHead, qTail)
          /\ \A f \in Flags : Waiting(f) = On(l, f) /\ SoundList(ptHead[f], ptTail[f])
        BY <2>1, <2>2 DEF Held, Lists, Ready, Waiting
    <2>4. \A p, q \in Lists : p # q => On(l, p) \cap On(l, q) = {}
        BY <2>1, OnOne DEF Held
    <2>5. running \notin On(l, FreeList) /\ running \notin On(l, ReadyList)
        BY <2>0, <2>1, <2>2, Names DEF Placed, Runner
    <2>6. /\ On(l, FreeList) \cap On(l, ReadyList) = {}
          /\ On(l, FreeList) \cap On(l, Event) = {} /\ On(l, FreeList) \cap On(l, Section) = {}
          /\ On(l, ReadyList) \cap On(l, Event) = {} /\ On(l, ReadyList) \cap On(l, Section) = {}
          /\ On(l, Event) \cap On(l, Section) = {}
        BY <2>4, Names DEF Flags
    <2>7. ~nullRead => Tasks \subseteq On(l, FreeList) \cup On(l, ReadyList)
                                          \cup (On(l, Event) \cup On(l, Section)) \cup {running}
        BY <2>1 DEF Placed, Lists, Flags
    <2>8. \A f \in Flags : \A t \in Waiting(f) :
             ptFlag[t] = f /\ (bThreadBlocked[t] <=> t # running)
        BY <2>1, <2>3 DEF Placed
    <2>9. Waiting(Event) = On(l, Event) /\ Waiting(Section) = On(l, Section)
        BY <2>3 DEF Flags
    <2>10. On(l, FreeList) = Tasks \ keyed
        BY <2>1 DEF Placed
    <2> QED
        BY <2>0, <2>3, <2>5, <2>6, <2>7, <2>8, <2>9, <2>10 DEF OnePlace
<1> QED
    BY <1>1, Inductive, PTL

(* MutualExclusion: one task at a time is inside the critical section, or  *)
(* has been handed it (enter and leave_critical_section).                  *)
THEOREM MutualExclusionAlways == Spec => []MutualExclusion
<1>1. IInv => MutualExclusion
    <2> SUFFICES ASSUME IInv PROVE MutualExclusion
        OBVIOUS
    <2>1. OneInside
        BY DEF IInv
    <2>2. PICK S : S = inside \cup Heirs
        OBVIOUS
    <2>3. Cardinality(S) <= 1
        <3>1. CASE S = {}
            BY <3>1, FS_EmptySet
        <3>2. CASE S # {}
            <4>1. PICK t : t \in S
                BY <3>2
            <4>2. \A u \in S : u = t
                BY <2>1, <2>2, <4>1 DEF OneInside
            <4>3. S = {t}
                BY <4>1, <4>2
            <4>4. Cardinality({t}) = 1
                BY FS_Singleton
            <4> QED
                BY <4>3, <4>4
        <3> QED
            BY <3>1, <3>2
    <2> QED
        BY <2>1, <2>2, <2>3 DEF MutualExclusion, OneInside, Heirs
<1> QED
    BY <1>1, Inductive, PTL

================================================================================
