----------------------------- MODULE Delegate_proofs -----------------------------
(***************************************************************************)
(* Theorems about Delegate, for every set of handlers.                     *)
(***************************************************************************)
EXTENDS Delegate, FiniteSetTheorems, WellFoundedInduction, TLAPS

Heads == {"ptEvent", "ptBlockedList"}

(* In the proofs, a chain is a function from 0..n: its head, then the      *)
(* handlers of the list in order.  The links f lead along the chains l; no *)
(* cell is on two of them, or twice on one; the other links are NULL.      *)
Along(f, l, n) ==
    \A c \in Heads : \A i \in 0..n[c] :
        f[l[c][i]] = IF i = n[c] THEN NULL ELSE l[c][i + 1]

Apart(l, n) ==
    \A c, d \in Heads : \A i \in 0..n[c], j \in 0..n[d] :
        l[c][i] = l[d][j] => c = d /\ i = j

Chains(l, n) ==
    /\ n \in [Heads -> Nat] /\ Apart(l, n)
    /\ \A c \in Heads : l[c][0] = c /\ \A i \in 1..n[c] : l[c][i] \in Handlers

(* The handlers on the lists. *)
Sets(l, n) == [c \in Heads |-> {l[c][i] : i \in 1..n[c]}]
Both(S) == S["ptEvent"] \cup S["ptBlockedList"]

(* The lists that the links f make up hold the handlers in S. *)
Holds(f, S) ==
    /\ f \in [Cells -> Handlers \cup {NULL}]
    /\ \A h \in Handlers : h \notin Both(S) => f[h] = NULL
    /\ \E l, n : Chains(l, n) /\ Along(f, l, n) /\ S = Sets(l, n)

(* What is told apart.                                                     *)
LEMMA Names ==
    /\ NULL \notin Handlers /\ NULL \notin Cells
    /\ \A c \in Heads : c \in Cells /\ c \notin Handlers
    /\ "ptEvent" \in Heads /\ "ptBlockedList" \in Heads /\ "ptEvent" # "ptBlockedList"
    /\ Handlers \subseteq Cells /\ \A x \in Cells : x \in Handlers \/ x \in Heads
BY HandlersAssumption DEF Heads, Cells

(* What the chains say about the links. *)
LEMMA Held ==
    ASSUME NEW f, NEW S, Holds(f, S)
    PROVE  /\ S \in [Heads -> SUBSET Handlers]
           /\ S["ptEvent"] \cap S["ptBlockedList"] = {}
           /\ \A x, y \in Cells : f[x] = f[y] /\ f[x] # NULL => x = y
           /\ \A c \in Heads : /\ f[c] = NULL <=> S[c] = {}
                               /\ \A x \in S[c] \cup {c} : f[x] \in S[c] \cup {NULL} /\ f[x] # x
                               /\ \A h \in S[c] : \E x \in S[c] \cup {c} : f[x] = h
<1>1. PICK l, n : Chains(l, n) /\ Along(f, l, n) /\ S = Sets(l, n)
    BY DEF Holds
<1>2. n \in [Heads -> Nat] /\ Apart(l, n)
    BY <1>1 DEF Chains
<1>3. \A c \in Heads : l[c][0] = c /\ \A i \in 1..n[c] : l[c][i] \in Handlers
    BY <1>1 DEF Chains
<1>4. \A c \in Heads : S[c] = {l[c][i] : i \in 1..n[c]}
    BY <1>1 DEF Sets
<1>5. S \in [Heads -> SUBSET Handlers]
    BY <1>1, <1>3 DEF Sets
<1>6. S["ptEvent"] \cap S["ptBlockedList"] = {}
    <2> SUFFICES ASSUME NEW h \in S["ptEvent"], h \in S["ptBlockedList"] PROVE FALSE
        OBVIOUS
    <2>1. PICK i \in 1..n["ptEvent"] : h = l["ptEvent"][i]
        BY <1>4, Names
    <2>2. PICK j \in 1..n["ptBlockedList"] : h = l["ptBlockedList"][j]
        BY <1>4, Names
    <2>3. i \in 0..n["ptEvent"] /\ j \in 0..n["ptBlockedList"]
        BY <1>2, Names
    <2>4. \A c, d \in Heads : \A p \in 0..n[c], q \in 0..n[d] :
              l[c][p] = l[d][q] => c = d
        BY <1>2 DEF Apart
    <2> QED
        BY <2>1, <2>2, <2>3, <2>4, Names
<1>7. ASSUME NEW c \in Heads, NEW x \in S[c] \cup {c}
      PROVE  \E i \in 0..n[c] : x = l[c][i]
    <2>1. CASE x = c
        BY <1>2, <1>3, <2>1
    <2>2. CASE x # c
        <3>1. PICK i \in 1..n[c] : x = l[c][i]
            BY <1>4, <2>2
        <3> QED
            BY <1>2, <3>1
    <2> QED
        BY <2>1, <2>2
<1>8. ASSUME NEW c \in Heads, NEW i \in 0..n[c]
      PROVE  \/ i = n[c] /\ f[l[c][i]] = NULL
             \/ i # n[c] /\ f[l[c][i]] = l[c][i + 1] /\ i + 1 \in 1..n[c] /\ i + 1 \in 0..n[c]
    BY <1>1, <1>2 DEF Along
<1>9. ASSUME NEW x \in Cells, f[x] # NULL
      PROVE  \E c \in Heads : \E i \in 0..n[c] :
                x = l[c][i] /\ f[x] = l[c][i + 1] /\ i + 1 \in 0..n[c]
    <2>1. \E c \in Heads : x \in S[c] \cup {c}
        BY <1>9, Names DEF Holds, Both
    <2>2. PICK c \in Heads : x \in S[c] \cup {c}
        BY <2>1
    <2>3. PICK i \in 0..n[c] : x = l[c][i]
        BY <1>7, <2>2
    <2> QED
        BY <1>8, <1>9, <2>3
<1>10. ASSUME NEW x \in Cells, NEW y \in Cells, f[x] = f[y], f[x] # NULL
       PROVE  x = y
    <2>1. PICK c \in Heads : \E i \in 0..n[c] :
                x = l[c][i] /\ f[x] = l[c][i + 1] /\ i + 1 \in 0..n[c]
        BY <1>9, <1>10
    <2>2. PICK i \in 0..n[c] : x = l[c][i] /\ f[x] = l[c][i + 1] /\ i + 1 \in 0..n[c]
        BY <2>1
    <2>3. PICK d \in Heads : \E j \in 0..n[d] :
                y = l[d][j] /\ f[y] = l[d][j + 1] /\ j + 1 \in 0..n[d]
        BY <1>9, <1>10
    <2>4. PICK j \in 0..n[d] : y = l[d][j] /\ f[y] = l[d][j + 1] /\ j + 1 \in 0..n[d]
        BY <2>3
    <2>5. c = d /\ i + 1 = j + 1
        BY <1>2, <1>10, <2>2, <2>4 DEF Apart
    <2>6. i = j
        BY <1>2, <2>5
    <2> QED
        BY <2>2, <2>4, <2>5, <2>6
<1>11. ASSUME NEW c \in Heads
       PROVE  /\ f[c] = NULL <=> S[c] = {}
              /\ \A x \in S[c] \cup {c} : f[x] \in S[c] \cup {NULL} /\ f[x] # x
              /\ \A h \in S[c] : \E x \in S[c] \cup {c} : f[x] = h
    <2>1. ASSUME NEW x \in S[c] \cup {c} PROVE f[x] \in S[c] \cup {NULL} /\ f[x] # x
        <3>1. PICK i \in 0..n[c] : x = l[c][i]
            BY <1>7, <2>1
        <3>2. x # NULL
            BY <1>5, Names
        <3>3. CASE i = n[c]
            BY <1>8, <3>1, <3>2, <3>3
        <3>4. CASE i # n[c]
            <4>1. f[x] = l[c][i + 1] /\ i + 1 \in 1..n[c] /\ i + 1 \in 0..n[c] /\ i + 1 # i
                BY <1>2, <1>8, <3>1, <3>4
            <4>2. f[x] \in S[c]
                BY <1>4, <4>1
            <4>3. l[c][i + 1] # l[c][i]
                BY <1>2, <4>1 DEF Apart
            <4> QED
                BY <3>1, <4>1, <4>2, <4>3
        <3> QED
            BY <3>3, <3>4
    <2>2. ASSUME NEW h \in S[c] PROVE \E x \in S[c] \cup {c} : f[x] = h
        <3>1. PICK i \in 1..n[c] : h = l[c][i]
            BY <1>4, <2>2
        <3>2. i - 1 \in 0..n[c] /\ i - 1 # n[c] /\ i - 1 + 1 = i
            BY <1>2, <3>1
        <3>3. f[l[c][i - 1]] = h
            BY <1>8, <3>1, <3>2
        <3>4. CASE i = 1
            BY <1>3, <3>3, <3>4
        <3>5. CASE i # 1
            <4>1. i - 1 \in 1..n[c]
                BY <1>2, <3>1, <3>5
            <4> QED
                BY <1>4, <3>3, <4>1
        <3> QED
            BY <3>4, <3>5
    <2>3. S[c] # {} => f[c] # NULL
        <3> SUFFICES ASSUME S[c] # {} PROVE f[c] # NULL
            OBVIOUS
        <3>1. n[c] # 0 /\ 0 \in 0..n[c] /\ 0 + 1 = 1 /\ 1 \in 1..n[c]
            BY <1>2, <1>4
        <3>2. f[c] = l[c][1]
            BY <1>3, <1>8, <3>1
        <3> QED
            BY <1>3, <3>1, <3>2, Names
    <2> QED
        BY <2>1, <2>2, <2>3
<1> QED
    BY <1>5, <1>6, <1>10, <1>11

--------------------------------------------------------------------------------
(* What becomes of the lists.                                              *)

(* The link x to h leads past h. *)
Cut(f, x, h) == [f EXCEPT ![x] = f[h], ![h] = NULL]

(* h at the head c. *)
Pushed(f, c, h) == [f EXCEPT ![h] = f[c], ![c] = h]

(* S, with H for c *)
Put(S, c, H) == [S EXCEPT ![c] = H]

(* A handler that is taken out leaves the others in place. *)
LEMMA TakeOut ==
    ASSUME NEW f, NEW S, Holds(f, S), NEW c \in Heads, NEW x \in Cells,
           NEW h \in S[c], f[x] = h,
           NEW f2, f2 = Cut(f, x, h), NEW S2, S2 = Put(S, c, S[c] \ {h})
    PROVE  Holds(f2, S2) /\ f2[h] = NULL
<1>1. PICK l, n : Chains(l, n) /\ Along(f, l, n) /\ S = Sets(l, n)
    BY DEF Holds
<1>2. n \in [Heads -> Nat] /\ n[c] \in Nat
    BY <1>1 DEF Chains
<1>3. \A d \in Heads : l[d][0] = d /\ \A i \in 1..n[d] : l[d][i] \in Handlers
    BY <1>1 DEF Chains
<1>a. ASSUME NEW d \in Heads, NEW e \in Heads, NEW i \in 0..n[d], NEW j \in 0..n[e],
             l[d][i] = l[e][j]
      PROVE  d = e /\ i = j
    BY <1>1, <1>a DEF Chains, Apart
<1>4. \A d \in Heads : S[d] = {l[d][i] : i \in 1..n[d]}
    BY <1>1 DEF Sets
<1>5. PICK k \in 1..n[c] : h = l[c][k]
    BY <1>4
<1>6. k \in Nat /\ k - 1 \in 0..n[c] /\ k - 1 + 1 = k /\ k \in 0..n[c] /\ k - 1 # n[c] /\ k - 1 # k
    BY <1>2, <1>5
<1>7. h \in Handlers /\ h \in Cells /\ f \in [Cells -> Handlers \cup {NULL}]
    BY <1>3, <1>5, Names DEF Holds
<1>b. ASSUME NEW d \in Heads, NEW i \in 0..n[d]
      PROVE  f[l[d][i]] = IF i = n[d] THEN NULL ELSE l[d][i + 1]
    BY <1>1 DEF Along
<1>c. \A d \in Heads : \A i \in 0..n[d] : l[d][i] \in Cells
    <2> SUFFICES ASSUME NEW d \in Heads, NEW i \in 0..n[d] PROVE l[d][i] \in Cells
        OBVIOUS
    <2>1. CASE i = 0
        BY <1>3, <2>1, Names
    <2>2. CASE i # 0
        <3>1. i \in 1..n[d]
            BY <1>2, <2>2
        <3> QED
            BY <1>3, <3>1, Names
    <2> QED
        BY <2>1, <2>2
<1>8. x = l[c][k - 1] /\ x # h
    <2>1. f[l[c][k - 1]] = h
        BY <1>5, <1>6, <1>b
    <2>2. l[c][k - 1] \in Cells
        BY <1>6, <1>c
    <2>3. x = l[c][k - 1]
        BY <2>1, <2>2, <1>7, Names, Held
    <2> QED
        BY <2>3, <1>5, <1>6, <1>a
<1>9. /\ f2 \in [Cells -> Handlers \cup {NULL}]
      /\ f2[x] = f[h] /\ f2[h] = NULL /\ \A y \in Cells \ {x, h} : f2[y] = f[y]
    BY <1>7, <1>8 DEF Cut
<1> DEFINE m(d, i) == IF d = c /\ i >= k THEN i + 1 ELSE i
           l2 == [d \in Heads |-> [i \in 0..n[d] |-> l[d][m(d, i)]]]
           n2 == [n EXCEPT ![c] = n[c] - 1]
<1>10. n2 \in [Heads -> Nat] /\ n2[c] = n[c] - 1 /\ \A d \in Heads : d # c => n2[d] = n[d]
    BY <1>2, <1>5
<1>11. ASSUME NEW d \in Heads, NEW i \in 0..n2[d]
       PROVE  /\ m(d, i) \in 0..n[d] /\ ~(d = c /\ m(d, i) = k) /\ i \in 0..n[d]
              /\ l2[d][i] = l[d][m(d, i)]
              /\ i # 0 => m(d, i) \in 1..n[d]
    <2>1. CASE d = c
        BY <1>2, <1>5, <1>6, <1>10, <2>1
    <2>2. CASE d # c
        BY <1>2, <1>10, <2>2
    <2> QED
        BY <2>1, <2>2
<1> HIDE DEF l2, n2
<1>12. Chains(l2, n2)
    <2>1. Apart(l2, n2)
        <3> SUFFICES ASSUME NEW d \in Heads, NEW e \in Heads,
                            NEW i \in 0..n2[d], NEW j \in 0..n2[e], l2[d][i] = l2[e][j]
                     PROVE  d = e /\ i = j
            BY DEF Apart
        <3>1. l[d][m(d, i)] = l[e][m(e, j)] /\ m(d, i) \in 0..n[d] /\ m(e, j) \in 0..n[e]
            BY <1>11
        <3>2. d = e /\ m(d, i) = m(e, j)
            BY ONLY <3>1, <1>a
        <3>3. i \in Nat /\ j \in Nat
            BY <1>10
        <3> QED
            BY <3>2, <3>3, <1>6
    <2>2. ASSUME NEW d \in Heads PROVE l2[d][0] = d
        <3>1. 0 \in 0..n2[d] /\ m(d, 0) = 0
            BY <1>10, <1>5
        <3> QED
            BY <3>1, <1>3, <1>11
    <2>3. ASSUME NEW d \in Heads, NEW i \in 1..n2[d] PROVE l2[d][i] \in Handlers
        <3>1. i \in 0..n2[d] /\ i # 0
            BY <1>10
        <3> QED
            BY <3>1, <1>3, <1>11
    <2> QED
        BY <1>10, <2>1, <2>2, <2>3 DEF Chains
<1>13. Along(f2, l2, n2)
    <2> SUFFICES ASSUME NEW d \in Heads, NEW i \in 0..n2[d]
                 PROVE  f2[l2[d][i]] = IF i = n2[d] THEN NULL ELSE l2[d][i + 1]
        BY DEF Along
    <2>1. i \in Nat /\ n[d] \in Nat /\ n2[d] \in Nat /\ i <= n2[d]
        BY <1>2, <1>10
    <2>2. l2[d][i] = l[d][m(d, i)] /\ m(d, i) \in 0..n[d]
        BY <1>11
    <2>3. l[d][m(d, i)] # h
        BY <1>5, <1>6, <1>11, <1>a
    <2>4. i # n2[d] => l2[d][i + 1] = l[d][m(d, i + 1)]
        <3> SUFFICES ASSUME i # n2[d] PROVE i + 1 \in 0..n2[d]
            BY <1>11
        <3> QED
            BY <2>1
    <2>5. CASE d = c /\ i = k - 1
        <3>1. m(d, i) = k - 1 /\ l2[d][i] = x
            BY <1>6, <1>8, <2>2, <2>5
        <3>2. f2[l2[d][i]] = IF k = n[c] THEN NULL ELSE l[c][k + 1]
            BY <1>5, <1>6, <1>9, <1>b, <3>1
        <3>3. m(d, i + 1) = k + 1
            BY <1>6, <2>5
        <3>4. i = n2[d] <=> k = n[c]
            BY <1>2, <1>6, <1>10, <2>5
        <3> QED
            BY <2>4, <2>5, <3>2, <3>3, <3>4
    <2>6. CASE ~(d = c /\ i = k - 1)
        <3>1. ~(d = c /\ m(d, i) = k - 1)
            BY <1>6, <2>1, <2>6
        <3>2. l[d][m(d, i)] # x
            BY <1>6, <1>8, <2>2, <3>1, <1>a
        <3>3. f2[l2[d][i]] = IF m(d, i) = n[d] THEN NULL ELSE l[d][m(d, i) + 1]
            BY <1>9, <1>b, <1>c, <2>2, <2>3, <3>2
        <3>4. m(d, i) = n[d] <=> i = n2[d]
            BY <1>2, <1>5, <1>6, <1>10, <2>1, <2>6
        <3>5. m(d, i + 1) = m(d, i) + 1
            BY <1>6, <2>1, <2>6
        <3> QED
            BY <2>4, <3>3, <3>4, <3>5
    <2> QED
        BY <2>5, <2>6
<1>14. S2 = Sets(l2, n2)
    <2>1. ASSUME NEW d \in Heads, NEW i \in 1..n2[d] PROVE l2[d][i] \in S2[d]
        <3>1. i \in 0..n2[d] /\ i # 0
            BY <1>10
        <3>2. l2[d][i] = l[d][m(d, i)] /\ m(d, i) \in 1..n[d] /\ m(d, i) \in 0..n[d]
                /\ ~(d = c /\ m(d, i) = k)
            BY <3>1, <1>11
        <3>3. l[d][m(d, i)] \in S[d] /\ (d = c => l[d][m(d, i)] # h)
            BY <3>2, <1>4, <1>5, <1>6, <1>a
        <3> QED
            BY <3>2, <3>3, Held DEF Put
    <2>2. ASSUME NEW d \in Heads, NEW g \in S2[d] PROVE \E i \in 1..n2[d] : l2[d][i] = g
        <3>1. g \in S[d] /\ (d = c => g # h)
            BY <2>2, Held DEF Put
        <3>2. PICK j \in 1..n[d] : g = l[d][j]
            BY <3>1, <1>4
        <3>3. PICK i : i = IF d = c /\ j > k THEN j - 1 ELSE j
            OBVIOUS
        <3>4. ~(d = c /\ j = k)
            BY <3>1, <3>2, <1>5
        <3>5. i \in 1..n2[d] /\ m(d, i) = j
            <4>1. CASE d = c
                BY <4>1, <3>2, <3>3, <3>4, <1>2, <1>5, <1>6, <1>10
            <4>2. CASE d # c
                BY <4>2, <3>2, <3>3, <1>10
            <4> QED
                BY <4>1, <4>2
        <3>6. i \in 0..n2[d]
            BY <3>5, <1>10
        <3>7. l2[d][i] = l[d][j]
            BY <3>5, <3>6, <1>11
        <3> QED
            BY <3>2, <3>5, <3>7
    <2>3. ASSUME NEW d \in Heads PROVE S2[d] = {l2[d][i] : i \in 1..n2[d]}
        <3>1. \A i \in 1..n2[d] : l2[d][i] \in S2[d]
            BY <2>1
        <3>2. \A g \in S2[d] : \E i \in 1..n2[d] : l2[d][i] = g
            BY <2>2
        <3> QED
            BY ONLY <3>1, <3>2
    <2>4. S2 = [d \in Heads |-> S2[d]]
        BY Held DEF Put
    <2> QED
        BY <2>3, <2>4 DEF Sets
<1>15. ASSUME NEW g \in Handlers, g \notin Both(S2) PROVE f2[g] = NULL
    <2>1. CASE g = h
        BY <1>9, <2>1
    <2>2. CASE g # h
        <3>1. \A d \in Heads : S2[d] = IF d = c THEN S[c] \ {h} ELSE S[d]
            BY Held DEF Put
        <3>2. g \notin S["ptEvent"] /\ g \notin S["ptBlockedList"]
            BY <1>15, <2>2, <3>1, Names DEF Both
        <3>3. f[g] = NULL
            BY <3>2 DEF Holds, Both
        <3>4. g # x
            BY <3>3, <1>7, Names
        <3> QED
            BY <1>9, <2>2, <3>3, <3>4, Names
    <2> QED
        BY <2>1, <2>2
<1> QED
    BY <1>9, <1>12, <1>13, <1>14, <1>15 DEF Holds

(* A handler on no list is put at the head of one. *)
LEMMA Push ==
    ASSUME NEW f, NEW S, Holds(f, S), NEW c \in Heads, NEW h \in Handlers, h \notin Both(S),
           NEW f2, f2 = Pushed(f, c, h), NEW S2, S2 = Put(S, c, S[c] \cup {h})
    PROVE  Holds(f2, S2)
<1>1. PICK l, n : Chains(l, n) /\ Along(f, l, n) /\ S = Sets(l, n)
    BY DEF Holds
<1>2. n \in [Heads -> Nat] /\ n[c] \in Nat
    BY <1>1 DEF Chains
<1>3. \A d \in Heads : l[d][0] = d /\ \A i \in 1..n[d] : l[d][i] \in Handlers
    BY <1>1 DEF Chains
<1>a. ASSUME NEW d \in Heads, NEW e \in Heads, NEW i \in 0..n[d], NEW j \in 0..n[e],
             l[d][i] = l[e][j]
      PROVE  d = e /\ i = j
    BY <1>1, <1>a DEF Chains, Apart
<1>b. ASSUME NEW d \in Heads, NEW i \in 0..n[d]
      PROVE  f[l[d][i]] = IF i = n[d] THEN NULL ELSE l[d][i + 1]
    BY <1>1 DEF Along
<1>4. \A d \in Heads : S[d] = {l[d][i] : i \in 1..n[d]}
    BY <1>1 DEF Sets
<1>5. S \in [Heads -> SUBSET Handlers] /\ \A d \in Heads : h \notin S[d]
    BY Held, Names DEF Both, Heads
<1>6. \A d \in Heads : \A i \in 0..n[d] : l[d][i] # h /\ l[d][i] \in Cells
    <2> SUFFICES ASSUME NEW d \in Heads, NEW i \in 0..n[d] PROVE l[d][i] # h /\ l[d][i] \in Cells
        OBVIOUS
    <2>1. CASE i = 0
        BY <1>3, <2>1, Names
    <2>2. CASE i # 0
        <3>1. i \in 1..n[d]
            BY <1>2, <2>2
        <3> QED
            BY <1>3, <1>4, <1>5, <3>1, Names
    <2> QED
        BY <2>1, <2>2
<1>7. f \in [Cells -> Handlers \cup {NULL}] /\ h # c /\ f[c] \in Handlers \cup {NULL}
    BY Names DEF Holds
<1>8. /\ f2 \in [Cells -> Handlers \cup {NULL}]
      /\ f2[c] = h /\ f2[h] = f[c] /\ \A y \in Cells \ {c, h} : f2[y] = f[y]
    BY <1>7, Names DEF Pushed
<1>9. f[c] = IF 0 = n[c] THEN NULL ELSE l[c][1]
    <2>1. 0 \in 0..n[c] /\ 0 + 1 = 1
        BY <1>2
    <2> QED
        BY <2>1, <1>3, <1>b
<1> DEFINE l2 == [d \in Heads |-> IF d # c THEN l[d] ELSE
                     [i \in 0..n[c] + 1 |-> IF i = 0 THEN c ELSE IF i = 1 THEN h ELSE l[c][i - 1]]]
           n2 == [n EXCEPT ![c] = n[c] + 1]
<1>10. n2 \in [Heads -> Nat] /\ n2[c] = n[c] + 1 /\ \A d \in Heads : d # c => n2[d] = n[d]
    BY <1>2
<1>11. /\ l2[c][0] = c /\ l2[c][1] = h
       /\ \A i \in 1..n[c] : l2[c][i + 1] = l[c][i]
       /\ \A d \in Heads : d # c => l2[d] = l[d]
    <2>1. 0 \in 0..n[c] + 1 /\ 1 \in 0..n[c] + 1 /\ 1 # 0
        BY <1>2
    <2>2. ASSUME NEW i \in 1..n[c]
          PROVE  i + 1 \in 0..n[c] + 1 /\ i + 1 # 0 /\ i + 1 # 1 /\ i + 1 - 1 = i
        BY <1>2
    <2> QED
        BY <2>1, <2>2
<1> HIDE DEF l2, n2
<1>12. ASSUME NEW d \in Heads, NEW i \in 0..n2[d]
       PROVE  \/ d # c /\ l2[d][i] = l[d][i] /\ i \in 0..n[d]
              \/ d = c /\ i = 0 /\ l2[d][i] = c
              \/ d = c /\ i = 1 /\ l2[d][i] = h
              \/ d = c /\ i # 0 /\ i # 1 /\ i - 1 \in 1..n[d] /\ i - 1 \in 0..n[d]
                   /\ l2[d][i] = l[d][i - 1]
    <2>1. CASE d # c
        BY <2>1, <1>10, <1>11
    <2>2. CASE d = c /\ (i = 0 \/ i = 1)
        BY <2>2, <1>11
    <2>3. CASE d = c /\ i # 0 /\ i # 1
        <3>1. i - 1 \in 1..n[c] /\ i - 1 + 1 = i /\ i - 1 \in 0..n[c]
            BY <2>3, <1>2, <1>10
        <3> QED
            BY <2>3, <3>1, <1>11
    <2> QED
        BY <2>1, <2>2, <2>3
<1>13. 0 \in 0..n[c] /\ l[c][0] = c
    BY <1>2, <1>3
<1>14. Chains(l2, n2)
    <2>1. Apart(l2, n2)
        <3> SUFFICES ASSUME NEW d \in Heads, NEW e \in Heads,
                            NEW i \in 0..n2[d], NEW j \in 0..n2[e], l2[d][i] = l2[e][j]
                     PROVE  d = e /\ i = j
            BY DEF Apart
        <3> DEFINE m(a, k) == IF a = c /\ k # 0 THEN k - 1 ELSE k
        <3>1. ASSUME NEW a \in Heads, NEW k \in 0..n2[a], l2[a][k] # h
              PROVE  l2[a][k] = l[a][m(a, k)] /\ m(a, k) \in 0..n[a] /\ ~(a = c /\ k = 1)
            BY <3>1, <1>11, <1>12, <1>13
        <3>2. ASSUME NEW a \in Heads, NEW k \in 0..n2[a], l2[a][k] = h PROVE a = c /\ k = 1
            <4>1. \A i2 \in 0..n[a] : l[a][i2] # h
                BY <1>6
            <4> QED
                BY <3>2, <4>1, <1>7, <1>12
        <3>3. CASE l2[d][i] = h
            <4>1. d = c /\ i = 1
                BY <3>2, <3>3
            <4>2. e = c /\ j = 1
                BY <3>2, <3>3
            <4> QED
                BY <4>1, <4>2
        <3>4. CASE l2[d][i] # h
            <4>1. d = e /\ m(d, i) = m(e, j)
                <5>1. l[d][m(d, i)] = l[e][m(e, j)] /\ m(d, i) \in 0..n[d] /\ m(e, j) \in 0..n[e]
                    BY <3>1, <3>4
                <5> QED
                    BY ONLY <5>1, <1>a
            <4>2. i \in Nat /\ j \in Nat /\ ~(d = c /\ i = 1) /\ ~(e = c /\ j = 1)
                BY <3>1, <3>4, <1>10
            <4> QED
                BY <4>1, <4>2
        <3> QED
            BY <3>3, <3>4
    <2>2. ASSUME NEW d \in Heads PROVE l2[d][0] = d
        BY <1>3, <1>11
    <2>3. ASSUME NEW d \in Heads, NEW i \in 1..n2[d] PROVE l2[d][i] \in Handlers
        <3>1. i \in 0..n2[d] /\ i # 0
            BY <1>10
        <3>2. d # c => i \in 1..n[d]
            BY <1>10
        <3> QED
            BY <3>1, <3>2, <1>3, <1>12
    <2> QED
        BY <1>10, <2>1, <2>2, <2>3 DEF Chains
<1>15. Along(f2, l2, n2)
    <2> SUFFICES ASSUME NEW d \in Heads, NEW i \in 0..n2[d]
                 PROVE  f2[l2[d][i]] = IF i = n2[d] THEN NULL ELSE l2[d][i + 1]
        BY DEF Along
    <2>1. i \in Nat /\ n[d] \in Nat /\ n2[d] \in Nat /\ i <= n2[d]
        BY <1>2, <1>10
    <2>2. CASE d # c
        <3>1. i \in 0..n[d] /\ n2[d] = n[d] /\ l2[d] = l[d]
            BY <2>2, <1>10, <1>11
        <3>2. l[d][i] # h /\ l[d][i] \in Cells
            BY <3>1, <1>6
        <3>3. l[d][i] # c
            BY <2>2, <3>1, <1>13, <1>a
        <3> QED
            BY <3>1, <3>2, <3>3, <1>8, <1>b
    <2>3. CASE d = c /\ i = 0
        <3>1. i # n2[d] /\ i + 1 = 1
            BY <2>3, <1>2, <1>10
        <3> QED
            BY <2>3, <3>1, <1>8, <1>11
    <2>4. CASE d = c /\ i = 1
        <3>1. i = n2[d] <=> 0 = n[c]
            BY <2>4, <1>2, <1>10
        <3>2. 0 # n[c] => l2[d][i + 1] = l[c][1]
            <4> SUFFICES ASSUME 0 # n[c] PROVE 1 \in 1..n[c]
                BY <2>4, <1>11
            <4> QED
                BY <1>2
        <3> QED
            BY <2>4, <3>1, <3>2, <1>8, <1>9, <1>11
    <2>5. CASE d = c /\ i # 0 /\ i # 1
        <3>1. i - 1 \in 1..n[c] /\ i - 1 \in 0..n[c] /\ l2[d][i] = l[c][i - 1] /\ i - 1 # 0
            BY <2>5, <2>1, <1>12
        <3>2. l[c][i - 1] # h /\ l[c][i - 1] \in Cells
            BY <3>1, <1>6
        <3>3. l[c][i - 1] # c
            BY <3>1, <1>13, <1>a
        <3>4. f2[l2[d][i]] = IF i - 1 = n[c] THEN NULL ELSE l[c][i - 1 + 1]
            BY <3>1, <3>2, <3>3, <1>8, <1>b
        <3>5. i - 1 + 1 = i /\ (i - 1 = n[c] <=> i = n2[d])
            BY <2>1, <2>5, <1>10
        <3>6. i # n2[d] => l2[d][i + 1] = l[c][i]
            <4> SUFFICES ASSUME i # n2[d] PROVE i \in 1..n[c]
                BY <2>5, <1>11
            <4> QED
                BY <2>1, <2>5, <1>10
        <3> QED
            BY <2>5, <3>4, <3>5, <3>6
    <2> QED
        BY <2>2, <2>3, <2>4, <2>5
<1>16. S2 = Sets(l2, n2)
    <2>0. S2 = [d \in Heads |-> IF d = c THEN S[c] \cup {h} ELSE S[d]]
        BY <1>5 DEF Put
    <2>1. ASSUME NEW d \in Heads, NEW i \in 1..n2[d] PROVE l2[d][i] \in S2[d]
        <3>1. i \in 0..n2[d] /\ i # 0 /\ (d # c => i \in 1..n[d])
            BY <1>10
        <3>2. l2[d][i] = h \/ l2[d][i] \in S[d]
            BY <3>1, <1>4, <1>12
        <3>3. l2[d][i] = h => d = c
            BY <3>1, <1>6, <1>12
        <3> QED
            BY <2>0, <3>2, <3>3
    <2>2. ASSUME NEW d \in Heads, NEW g \in S2[d] PROVE \E i \in 1..n2[d] : l2[d][i] = g
        <3>1. CASE d = c /\ g = h
            <4>1. 1 \in 1..n2[d]
                BY <3>1, <1>2, <1>10
            <4> QED
                BY <3>1, <4>1, <1>11
        <3>2. CASE ~(d = c /\ g = h)
            <4>1. PICK j \in 1..n[d] : g = l[d][j]
                BY <2>0, <2>2, <3>2, <1>4
            <4>2. CASE d # c
                BY <4>1, <4>2, <1>10, <1>11
            <4>3. CASE d = c
                <5>1. j + 1 \in 1..n2[d] /\ l2[d][j + 1] = g
                    BY <4>1, <4>3, <1>2, <1>10, <1>11
                <5> QED
                    BY <5>1
            <4> QED
                BY <4>2, <4>3
        <3> QED
            BY <3>1, <3>2
    <2>3. ASSUME NEW d \in Heads PROVE S2[d] = {l2[d][i] : i \in 1..n2[d]}
        <3>1. \A i \in 1..n2[d] : l2[d][i] \in S2[d]
            BY <2>1
        <3>2. \A g \in S2[d] : \E i \in 1..n2[d] : l2[d][i] = g
            BY <2>2
        <3> QED
            BY ONLY <3>1, <3>2
    <2>4. S2 = [d \in Heads |-> S2[d]]
        BY <2>0
    <2> QED
        BY <2>3, <2>4 DEF Sets
<1>17. ASSUME NEW g \in Handlers, g \notin Both(S2) PROVE f2[g] = NULL
    <2>1. g \notin Both(S) /\ g # h
        <3>1. \A d \in Heads : S2[d] = IF d = c THEN S[c] \cup {h} ELSE S[d]
            BY <1>5 DEF Put
        <3>2. \A d \in Heads : g \notin S2[d]
            BY <1>17 DEF Both, Heads
        <3> QED
            BY <3>1, <3>2, Names DEF Both
    <2>2. g # c /\ g \in Cells
        BY Names
    <2> QED
        BY <2>1, <2>2, <1>8 DEF Holds
<1> QED
    BY <1>8, <1>14, <1>15, <1>16, <1>17 DEF Holds

(* The blocked list becomes the ready list, which was empty. *)
LEMMA Exchange ==
    ASSUME NEW f, NEW S, Holds(f, S), S["ptEvent"] = {},
           NEW f2, f2 = [f EXCEPT !["ptEvent"] = f["ptBlockedList"], !["ptBlockedList"] = NULL]
    PROVE  Holds(f2, [c \in Heads |-> IF c = "ptEvent" THEN S["ptBlockedList"] ELSE {}])
<1>1. PICK l, n : Chains(l, n) /\ Along(f, l, n) /\ S = Sets(l, n)
    BY DEF Holds
<1> DEFINE E == "ptEvent"
           B == "ptBlockedList"
<1>0. E \in Heads /\ B \in Heads /\ E # B /\ Heads = {E, B} /\ E \in Cells /\ B \in Cells
    BY Names DEF Heads
<1>2. n \in [Heads -> Nat] /\ n[B] \in Nat /\ n[E] \in Nat
    BY <1>0, <1>1 DEF Chains
<1>3. \A d \in Heads : l[d][0] = d /\ \A i \in 1..n[d] : l[d][i] \in Handlers
    BY <1>1 DEF Chains
<1>4. \A i, j \in 0..n[B] : l[B][i] = l[B][j] => i = j
    BY <1>0, <1>1 DEF Chains, Apart
<1>5. \A i \in 0..n[B] : f[l[B][i]] = IF i = n[B] THEN NULL ELSE l[B][i + 1]
    BY <1>0, <1>1 DEF Along
<1>6. S[B] = {l[B][i] : i \in 1..n[B]} /\ S \in [Heads -> SUBSET Handlers]
    BY <1>0, <1>1, Held DEF Sets
<1>7. f \in [Cells -> Handlers \cup {NULL}] /\ \A h \in Handlers : h \notin Both(S) => f[h] = NULL
    BY DEF Holds
<1>8. /\ f2 \in [Cells -> Handlers \cup {NULL}]
      /\ f2[E] = f[B] /\ f2[B] = NULL /\ \A y \in Cells \ {E, B} : f2[y] = f[y]
    BY <1>0, <1>7
<1> DEFINE l2 == [d \in Heads |-> IF d = E THEN [i \in 0..n[B] |-> IF i = 0 THEN E ELSE l[B][i]]
                                   ELSE [i \in 0..0 |-> B]]
           n2 == [d \in Heads |-> IF d = E THEN n[B] ELSE 0]
           S2 == [c \in Heads |-> IF c = E THEN S[B] ELSE {}]
<1>9. n2 \in [Heads -> Nat] /\ n2[E] = n[B] /\ n2[B] = 0
    BY <1>0, <1>2
<1>10. l2[E][0] = E /\ l2[B][0] = B /\ \A i \in 1..n[B] : l2[E][i] = l[B][i]
    <2>1. 0 \in 0..n[B] /\ 0 \in 0..0 /\ \A i \in 1..n[B] : i \in 0..n[B] /\ i # 0
        BY <1>2
    <2> QED
        BY <2>1, <1>0
<1>11. \A i \in 0..n[B] : i # 0 => i \in 1..n[B]
    BY <1>2
<1>12. \A i \in 0..0 : i = 0
    OBVIOUS
<1>13. S2[E] = S[B] /\ S2[B] = {}
    BY <1>0
<1> HIDE DEF l2, n2, S2
<1>14. Apart(l2, n2)
    <2> SUFFICES ASSUME NEW d \in Heads, NEW e \in Heads,
                        NEW i \in 0..n2[d], NEW j \in 0..n2[e], l2[d][i] = l2[e][j]
                 PROVE  d = e /\ i = j
        BY DEF Apart
    <2>1. CASE d = E /\ e = E
        <3>1. i \in 0..n[B] /\ j \in 0..n[B]
            BY <2>1, <1>9
        <3>2. \A k \in 1..n[B] : l2[E][k] # E
            BY <1>0, <1>3, <1>10, Names
        <3>3. CASE i = 0 \/ j = 0
            BY <2>1, <3>1, <3>2, <3>3, <1>10, <1>11
        <3>4. CASE i # 0 /\ j # 0
            <4>1. i \in 1..n[B] /\ j \in 1..n[B]
                BY <3>1, <3>4, <1>11
            <4>2. l[B][i] = l[B][j]
                BY <2>1, <4>1, <1>10
            <4> QED
                BY <2>1, <3>1, <4>2, <1>4
        <3> QED
            BY <3>3, <3>4
    <2>2. CASE d = B /\ e = B
        BY <2>2, <1>9, <1>12
    <2>3. ASSUME NEW k \in 0..n2[E], NEW k2 \in 0..n2[B] PROVE l2[E][k] # l2[B][k2]
        <3>1. l2[B][k2] = B
            BY <1>9, <1>10, <1>12
        <3>2. k \in 0..n[B]
            BY <1>9
        <3>3. k # 0 => l2[E][k] \in Handlers
            BY <3>2, <1>0, <1>3, <1>10, <1>11
        <3> QED
            BY <3>1, <3>3, <1>0, <1>10, Names
    <2> QED
        BY <2>1, <2>2, <2>3, <1>0
<1>15. Chains(l2, n2)
    <2>1. ASSUME NEW d \in Heads PROVE l2[d][0] = d /\ \A i \in 1..n2[d] : l2[d][i] \in Handlers
        <3>1. CASE d = E
            BY <3>1, <1>0, <1>3, <1>9, <1>10
        <3>2. CASE d = B
            BY <3>2, <1>9, <1>10
        <3> QED
            BY <3>1, <3>2, <1>0
    <2> QED
        BY <2>1, <1>9, <1>14 DEF Chains
<1>16. Along(f2, l2, n2)
    <2> SUFFICES ASSUME NEW d \in Heads, NEW i \in 0..n2[d]
                 PROVE  f2[l2[d][i]] = IF i = n2[d] THEN NULL ELSE l2[d][i + 1]
        BY DEF Along
    <2>1. CASE d = B
        BY <2>1, <1>8, <1>9, <1>10, <1>12
    <2>2. CASE d = E
        <3>1. i \in 0..n[B] /\ n2[d] = n[B] /\ i \in Nat
            BY <2>2, <1>2, <1>9
        <3>2. f2[l2[E][i]] = f[l[B][i]]
            <4>1. CASE i = 0
                BY <4>1, <1>0, <1>3, <1>8, <1>10
            <4>2. CASE i # 0
                <5>1. l2[E][i] = l[B][i] /\ l[B][i] \in Handlers
                    BY <3>1, <4>2, <1>0, <1>3, <1>10, <1>11
                <5> QED
                    BY <5>1, <1>0, <1>8, Names
            <4> QED
                BY <4>1, <4>2
        <3>3. i # n[B] => i + 1 \in 1..n[B]
            BY <3>1, <1>2
        <3>4. i # n[B] => l2[E][i + 1] = l[B][i + 1]
            BY <3>3, <1>10
        <3> QED
            BY <2>2, <3>1, <3>2, <3>4, <1>5
    <2> QED
        BY <2>1, <2>2, <1>0
<1>17. S2 = Sets(l2, n2)
    <2>1. ASSUME NEW d \in Heads PROVE S2[d] = {l2[d][i] : i \in 1..n2[d]}
        <3>1. CASE d = E
            BY <3>1, <1>6, <1>9, <1>10, <1>13
        <3>2. CASE d = B
            BY <3>2, <1>9, <1>13
        <3> QED
            BY <3>1, <3>2, <1>0
    <2>2. S2 = [d \in Heads |-> S2[d]]
        BY DEF S2
    <2> QED
        BY <2>1, <2>2 DEF Sets
<1>18. ASSUME NEW g \in Handlers, g \notin Both(S2) PROVE f2[g] = NULL
    <2>1. g \notin Both(S)
        BY <1>13, <1>18 DEF Both
    <2>2. g # E /\ g # B /\ g \in Cells
        BY <1>0, Names
    <2> QED
        BY <2>1, <2>2, <1>7, <1>8
<1>19. Holds(f2, S2)
    BY <1>8, <1>15, <1>16, <1>17, <1>18 DEF Holds
<1> QED
    BY <1>19 DEF S2

--------------------------------------------------------------------------------
(* What a walk along the links finds.                                      *)

(* Every set of numbers that is not empty has a least one. *)
LEMMA Smallest ==
    ASSUME NEW S, S \subseteq Nat, S # {}
    PROVE  \E m \in S : \A n \in S : m <= n
<1> DEFINE R == {ss \in Nat \X Nat : ss[1] < ss[2]}
<1>1. IsWellFoundedOn(R, Nat)
    BY NatLessThanWellFounded, Zenon DEF OpToRel
<1>2. PICK x \in S : \A y \in S : ~(<<y, x>> \in R)
    <2> HIDE DEF R
    <2> QED
        BY <1>1, WFMin
<1>3. ASSUME NEW n \in S  PROVE x <= n
    <2>1. <<n, x>> \notin R
        BY <1>2
    <2>2. n \in Nat /\ x \in Nat
        OBVIOUS
    <2> QED
        BY <2>1, <2>2
<1> QED
    BY <1>3

(* Two walks with the same beginning and the same steps are the same. *)
LEMMA SameWalk ==
    ASSUME NEW N \in Nat, NEW g, NEW v,
           g[0] = v[0], \A k \in 1..N : g[k - 1] = v[k - 1] => g[k] = v[k]
    PROVE  \A k \in 0..N : g[k] = v[k]
<1> DEFINE D == {k \in 0..N : g[k] # v[k]}
<1>1. CASE D = {}
    BY <1>1
<1>2. CASE D # {}
    <2>1. PICK m \in D : \A k \in D : m <= k
        <3>1. D \subseteq Nat
            OBVIOUS
        <3> HIDE DEF D
        <3> QED
            BY <1>2, <3>1, Smallest
    <2>2. m \in 1..N /\ m - 1 \in 0..N
        OBVIOUS
    <2>3. m - 1 \notin D
        BY <2>1, <2>2
    <2> QED
        BY <2>2, <2>3
<1> QED
    BY <1>1, <1>2

(* A list has at most as many handlers as there are. *)
LEMMA Short ==
    ASSUME NEW l, NEW n, Chains(l, n), NEW c \in Heads
    PROVE  Cardinality(Handlers) \in Nat /\ n[c] \in 0..Cardinality(Handlers)
<1>1. PICK m \in Nat : m = n[c]
    BY DEF Chains
<1> DEFINE f == [i \in 1..m |-> l[c][i]]
<1>2. f \in Injection(1..m, Handlers)
    <2>1. f \in [1..m -> Handlers]
        BY <1>1 DEF Chains
    <2>2. \A i, j \in 1..m : l[c][i] = l[c][j] => i = j
        BY <1>1 DEF Chains, Apart
    <2> QED
        BY <2>1, <2>2 DEF Injection, IsInjective
<1>3. Cardinality(1..m) = m
    <2>1. m \in Int /\ 1 \in Int
        OBVIOUS
    <2>2. Cardinality(1..m) = IF 1 > m THEN 0 ELSE m - 1 + 1
        BY <2>1, FS_Interval
    <2> QED
        BY <2>1, <2>2
<1>4. Cardinality(1..m) <= Cardinality(Handlers) /\ Cardinality(Handlers) \in Nat
    <2>1. IsFiniteSet(Handlers)
        BY HandlersAssumption
    <2> HIDE DEF f
    <2> QED
        BY <1>2, <2>1, FS_Injection, FS_CardinalityType
<1> QED
    BY <1>1, <1>3, <1>4

(* The walk from the head of a list meets its handlers, and no others; it  *)
(* goes along the links.                                                   *)
LEMMA ListIs ==
    ASSUME NEW S, Holds(link, S), NEW c \in Heads
    PROVE  /\ List(c) = S[c] \cup {c} /\ On(c) = S[c]
           /\ \A x, h : Finds(c, x, h) /\ h # NULL
                => x \in S[c] \cup {c} /\ link[x] = h /\ h \in S[c]
<1>1. PICK l, n : Chains(l, n) /\ Along(link, l, n) /\ S = Sets(l, n)
    BY DEF Holds
<1>2. PICK N \in Nat : N = Cardinality(Handlers) /\ n[c] \in 0..N
    BY <1>1, Short
<1>3. l[c][0] = c /\ \A i \in 1..n[c] : l[c][i] \in Handlers
    BY <1>1 DEF Chains
<1>4. \A i \in 0..n[c] : link[l[c][i]] = IF i = n[c] THEN NULL ELSE l[c][i + 1]
    BY <1>1 DEF Along
<1>5. \A i \in 0..n[c] : l[c][i] # NULL
    BY <1>2, <1>3, Names
<1> DEFINE w == [i \in 0..N |-> IF i <= n[c] THEN l[c][i] ELSE NULL]
<1>6. w[0] = c
    BY <1>2, <1>3
<1>7. ASSUME NEW k \in 1..N
      PROVE  w[k] = IF w[k - 1] = NULL THEN NULL ELSE link[w[k - 1]]
    <2>1. k - 1 \in 0..N /\ k - 1 + 1 = k /\ k \in Nat /\ n[c] \in Nat /\ k \in 0..N
        BY <1>2
    <2>2. CASE k - 1 <= n[c]
        <3>1. w[k - 1] = l[c][k - 1] /\ k - 1 \in 0..n[c]
            BY <2>1, <2>2
        <3>2. link[w[k - 1]] = IF k - 1 = n[c] THEN NULL ELSE l[c][k]
            BY <3>1, <2>1, <1>4
        <3>3. w[k] = IF k - 1 = n[c] THEN NULL ELSE l[c][k]
            BY <2>1, <2>2
        <3> QED
            BY <3>1, <3>2, <3>3, <1>5
    <2>3. CASE ~(k - 1 <= n[c])
        BY <2>1, <2>3
    <2> QED
        BY <2>2, <2>3
<1>8. w = [i \in 0..N |-> IF i = 0 THEN c
                          ELSE IF w[i - 1] = NULL THEN NULL ELSE link[w[i - 1]]]
    <2> SUFFICES ASSUME NEW i \in 0..N
                 PROVE  w[i] = IF i = 0 THEN c
                               ELSE IF w[i - 1] = NULL THEN NULL ELSE link[w[i - 1]]
        OBVIOUS
    <2>1. i # 0 => i \in 1..N
        BY <1>2
    <2> HIDE DEF w
    <2> QED
        BY <2>1, <1>6, <1>7
<1>9. PICK g : g = Walk(c)
    OBVIOUS
<1>10. PICK v : v = w
    OBVIOUS
<1>11. v = [i \in 0..N |-> IF i = 0 THEN c
                           ELSE IF v[i - 1] = NULL THEN NULL ELSE link[v[i - 1]]]
    BY <1>8, <1>10
<1> HIDE DEF w
<1>12. g = [i \in 0..N |-> IF i = 0 THEN c
                           ELSE IF g[i - 1] = NULL THEN NULL ELSE link[g[i - 1]]]
    BY <1>2, <1>9, <1>11 DEF Walk
<1>13. g = v
    <2>1. g = [i \in 0..N |-> g[i]] /\ v = [i \in 0..N |-> v[i]]
        BY <1>11, <1>12
    <2>2. g[0] = v[0]
        BY <1>11, <1>12
    <2>3. \A k \in 1..N : g[k - 1] = v[k - 1] => g[k] = v[k]
        <3> SUFFICES ASSUME NEW k \in 1..N, g[k - 1] = v[k - 1] PROVE g[k] = v[k]
            OBVIOUS
        <3>1. k \in 0..N /\ k # 0
            OBVIOUS
        <3> QED
            BY <1>11, <1>12, <3>1
    <2>4. \A k \in 0..N : g[k] = v[k]
        BY <2>2, <2>3, SameWalk
    <2> QED
        BY <2>1, <2>4
<1>14. Walk(c) = [i \in 0..N |-> IF i <= n[c] THEN l[c][i] ELSE NULL]
    BY <1>9, <1>10, <1>13 DEF w
<1>15. Range(Walk(c)) \cap Cells = {l[c][i] : i \in 0..n[c]}
    <2>1. ASSUME NEW x \in Range(Walk(c)) \cap Cells PROVE x \in {l[c][i] : i \in 0..n[c]}
        <3>1. PICK i \in 0..N : x = Walk(c)[i]
            BY <1>14 DEF Range
        <3>2. i <= n[c] /\ x = l[c][i]
            BY <3>1, <1>14, Names
        <3>3. i \in 0..n[c]
            BY <3>2, <1>2
        <3> QED
            BY <3>2, <3>3
    <2>2. ASSUME NEW i \in 0..n[c] PROVE l[c][i] \in Range(Walk(c)) \cap Cells
        <3>1. i \in 0..N /\ i <= n[c]
            BY <1>2
        <3>2. Walk(c)[i] = l[c][i] /\ i \in DOMAIN Walk(c)
            BY <3>1, <1>14
        <3>3. l[c][i] \in Cells
            <4>1. i = 0 \/ i \in 1..n[c]
                BY <1>2
            <4> QED
                BY <4>1, <1>3, Names
        <3> QED
            BY <3>2, <3>3 DEF Range
    <2> QED
        BY <2>1, <2>2
<1>16. {l[c][i] : i \in 0..n[c]} = S[c] \cup {c}
    <2>1. S[c] = {l[c][i] : i \in 1..n[c]}
        BY <1>1 DEF Sets
    <2>2. \A i \in 0..n[c] : i = 0 \/ i \in 1..n[c]
        BY <1>2
    <2>3. 0 \in 0..n[c] /\ \A i \in 1..n[c] : i \in 0..n[c]
        BY <1>2
    <2> QED
        BY <2>1, <2>2, <2>3, <1>3
<1>17. c \notin S[c]
    BY Held, Names
<1>18. ASSUME NEW x, NEW h, Finds(c, x, h), h # NULL
       PROVE  x \in S[c] \cup {c} /\ link[x] = h /\ h \in S[c]
    <2>1. PICK i \in 1..N : Walk(c)[i - 1] = x /\ Walk(c)[i] = h
        BY <1>2, <1>18 DEF Finds
    <2>2. i \in 0..N /\ i - 1 \in 0..N /\ i - 1 + 1 = i
        BY <1>2
    <2>3. i <= n[c] /\ h = l[c][i]
        BY <2>1, <2>2, <1>14, <1>18
    <2>4. i \in 1..n[c] /\ i - 1 \in 0..n[c] /\ i - 1 <= n[c] /\ i - 1 # n[c]
        BY <2>3, <1>2
    <2>5. x = l[c][i - 1]
        BY <2>1, <2>2, <2>4, <1>14
    <2>6. link[x] = h
        BY <2>2, <2>3, <2>4, <2>5, <1>4
    <2>7. x \in S[c] \cup {c}
        BY <2>4, <2>5, <1>16
    <2>8. S[c] = {l[c][k] : k \in 1..n[c]}
        BY <1>1 DEF Sets
    <2> QED
        BY <2>3, <2>4, <2>6, <2>7, <2>8
<1> QED
    BY <1>15, <1>16, <1>17, <1>18 DEF List, On

--------------------------------------------------------------------------------
(* The inductive invariant: the links make up the two lists, those on the  *)
(* blocked list are those that have completed, and neither the iterator    *)
(* nor the handler being called is among them.  (What is called next is    *)
(* then on the ready list, and what ends goes from one list to the other.) *)

Known(S) ==
    /\ Holds(link, S)
    /\ registered = Both(S) /\ done = S["ptBlockedList"]
    /\ pptHandler # "ptBlockedList" /\ pptHandler \notin S["ptBlockedList"]
    /\ running \notin S["ptBlockedList"]

(* This holds until a link is torn. *)
Inv == TypeOK /\ (~torn => \E S : Known(S))

(* The links as the steps leave them are those of the lemmas. *)
LEMMA Links ==
    /\ \A x, h : TakenOut(x, h) = Cut(link, x, h)
    /\ \A h : TypeOK /\ h \in Handlers /\ pptHandler # "ptBlockedList" /\ pptHandler # h
                => Block(h) = Pushed(Cut(link, pptHandler, h), "ptBlockedList", h)
<1>1. \A x, h : TakenOut(x, h) = Cut(link, x, h)
    BY DEF TakenOut, Cut
<1>2. ASSUME NEW h \in Handlers, TypeOK, pptHandler # "ptBlockedList", pptHandler # h
      PROVE  Block(h) = Pushed(Cut(link, pptHandler, h), "ptBlockedList", h)
    <2>1. PICK g : g = Cut(link, pptHandler, h)
        OBVIOUS
    <2>2. g["ptBlockedList"] = link["ptBlockedList"]
        BY <1>2, <2>1, Names DEF TypeOK, Cut
    <2>3. Block(h) = [g EXCEPT ![h] = g["ptBlockedList"], !["ptBlockedList"] = h]
        BY <1>2, <2>1, Names DEF Block, Cut, TypeOK
    <2> QED
        BY <2>1, <2>3 DEF Pushed
<1> QED
    BY <1>1, <1>2

(* What the lists S are, in the words of the model. *)
LEMMA Lists ==
    ASSUME TypeOK, NEW S, Known(S)
    PROVE  /\ On("ptEvent") = S["ptEvent"] /\ On("ptBlockedList") = S["ptBlockedList"]
           /\ S["ptEvent"] \subseteq Handlers /\ S["ptBlockedList"] \subseteq Handlers
           /\ S["ptEvent"] \cap S["ptBlockedList"] = {}
           /\ S \in [Heads -> SUBSET Handlers]
           /\ pptHandler \in S["ptEvent"] \cup {"ptEvent"} \/ link[pptHandler] = NULL
           /\ link[pptHandler] \in S["ptEvent"] \cup {NULL}
           /\ link[pptHandler] # pptHandler
           /\ link["ptEvent"] = NULL <=> S["ptEvent"] = {}
           /\ link["ptBlockedList"] = NULL <=> S["ptBlockedList"] = {}
<1>0. Holds(link, S)
    BY DEF Known
<1>1. On("ptEvent") = S["ptEvent"] /\ On("ptBlockedList") = S["ptBlockedList"]
    BY <1>0, ListIs, Names
<1>2. /\ S \in [Heads -> SUBSET Handlers] /\ S["ptEvent"] \cap S["ptBlockedList"] = {}
      /\ \A c \in Heads : /\ link[c] = NULL <=> S[c] = {}
                          /\ \A x \in S[c] \cup {c} :
                                link[x] \in S[c] \cup {NULL} /\ link[x] # x
    BY <1>0, Held
<1>3. S["ptEvent"] \subseteq Handlers /\ S["ptBlockedList"] \subseteq Handlers
    BY <1>2, Names
<1>4. pptHandler \in S["ptEvent"] \cup {"ptEvent"} \/ link[pptHandler] = NULL
    BY Names DEF Known, Holds, TypeOK, Both, Heads
<1>5. link[pptHandler] \in S["ptEvent"] \cup {NULL} /\ link[pptHandler] # pptHandler
    <2>1. pptHandler # NULL
        BY Names DEF TypeOK
    <2> QED
        BY <2>1, <1>2, <1>4, Names
<1> QED
    BY <1>1, <1>2, <1>3, <1>4, <1>5, Names

(* The invariant implies that the lists are as they should be. *)
LEMMA InvOneList == Inv => OneList
<1> SUFFICES ASSUME Inv PROVE OneList
    OBVIOUS
<1>1. TypeOK
    BY DEF Inv
<1> SUFFICES ASSUME ~torn PROVE OneList
    BY <1>1 DEF OneList
<1>2. PICK S : Known(S)
    BY DEF Inv
<1>3. IteratorOnList
    BY <1>1, <1>2, Lists DEF IteratorOnList
<1>4. On("ptEvent") \cup On("ptBlockedList") = registered
    BY <1>1, <1>2, Lists DEF Known, Both
<1>5. On("ptEvent") \cap On("ptBlockedList") = {}
    BY <1>1, <1>2, Lists
<1>6. \A x, y \in Cells : link[x] = link[y] /\ link[x] # NULL => x = y
    BY <1>2, Held DEF Known
<1> QED
    BY <1>1, <1>3, <1>4, <1>5, <1>6 DEF OneList

(* It holds in the beginning: the lists are empty. *)
LEMMA InitInv == Init => Inv
<1> SUFFICES ASSUME Init PROVE Inv
    OBVIOUS
<1>1. TypeOK
    <2>1. link \in [Cells -> Handlers \cup {NULL}]
        BY DEF Init
    <2>2. pptHandler \in Cells /\ running \in Handlers \cup {NULL} /\ raising \in BOOLEAN
        BY DEF Init, Cells
    <2>3. registered \subseteq Handlers /\ done \subseteq Handlers /\ torn \in BOOLEAN
        BY DEF Init
    <2>4. calls \in 0..MaxCalls
        BY MaxCallsAssumption DEF Init
    <2> QED
        BY <2>1, <2>2, <2>3, <2>4 DEF TypeOK
<1> DEFINE n == [c \in Heads |-> 0]
           l == [c \in Heads |-> [i \in 0..0 |-> c]]
           S == [c \in Heads |-> {}]
<1>2. \A i \in 0..0 : i = 0
    OBVIOUS
<1>3. /\ \A c \in Heads : n[c] = 0 /\ l[c][0] = c /\ S[c] = {}
      /\ n \in [Heads -> Nat] /\ S = [c \in Heads |-> {}]
    OBVIOUS
<1> HIDE DEF n, l, S
<1>4. Apart(l, n)
    BY <1>2, <1>3 DEF Apart
<1>5. Chains(l, n)
    BY <1>3, <1>4 DEF Chains
<1>6. Along(link, l, n)
    <2>1. \A c \in Heads : link[c] = NULL
        BY Names DEF Init
    <2> QED
        BY <2>1, <1>2, <1>3 DEF Along
<1>7. S = Sets(l, n)
    <2>1. \A c \in Heads : {l[c][i] : i \in 1..n[c]} = {}
        BY <1>3
    <2> QED
        BY <2>1, <1>3 DEF Sets
<1>8. Holds(link, S)
    BY <1>1, <1>5, <1>6, <1>7 DEF Holds, TypeOK, Init, Cells
<1>9. Known(S)
    BY <1>3, <1>8, Names DEF Known, Both, Init
<1> QED
    BY <1>1, <1>9 DEF Inv

--------------------------------------------------------------------------------
(* The steps.                                                              *)

(* What the two lists hold after one of them has changed. *)
LEMMA PutIs ==
    ASSUME NEW S \in [Heads -> SUBSET Handlers], NEW c \in Heads, NEW H \in SUBSET Handlers
    PROVE  /\ Put(S, c, H) \in [Heads -> SUBSET Handlers]
           /\ Put(S, c, H)[c] = H
           /\ \A d \in Heads : d # c => Put(S, c, H)[d] = S[d]
BY DEF Put

(* Every step keeps the types of the variables, whatever the links lead to. *)
LEMMA TypeStep ==
    ASSUME TypeOK, [Next]_vars
    PROVE  TypeOK'
<1>0. /\ link \in [Cells -> Handlers \cup {NULL}] /\ pptHandler \in Cells
      /\ running \in Handlers \cup {NULL} /\ raising \in BOOLEAN
      /\ registered \subseteq Handlers /\ done \subseteq Handlers /\ torn \in BOOLEAN
      /\ calls \in 0..MaxCalls
    BY DEF TypeOK
<1>a. \A x \in Cells, h \in Handlers : TakenOut(x, h) \in [Cells -> Handlers \cup {NULL}]
    BY <1>0, Names DEF TakenOut
<1>b. \A free \in [Cells -> Handlers \cup {NULL}], h \in Handlers :
          Added(free, h) \in [Cells -> Handlers \cup {NULL}]
    BY Names DEF Added
<1>c. \A c : \A x \in List(c) : x \in Cells
    BY DEF List
<1>1. CASE UNCHANGED vars
    BY <1>0, <1>1 DEF TypeOK, vars, histories
<1>2. ASSUME NEW h \in Handlers, Register(h) PROVE TypeOK'
    <2>1. link' \in [Cells -> Handlers \cup {NULL}]
        BY <1>0, <1>2, <1>a, <1>b, <1>c DEF Register
    <2>2. registered' \subseteq Handlers /\ done' \subseteq Handlers /\ torn' \in BOOLEAN
        BY <1>0, <1>2 DEF Register, Tear, histories
    <2>3. calls' \in 0..MaxCalls
        BY <1>0, <1>2, MaxCallsAssumption DEF Register, MayCall
    <2> QED
        BY <1>0, <1>2, <2>1, <2>2, <2>3 DEF TypeOK, Register
<1>3. ASSUME NEW h \in Handlers, Unregister(h) PROVE TypeOK'
    <2>1. link' \in [Cells -> Handlers \cup {NULL}] /\ pptHandler' \in Cells
        BY <1>0, <1>3, <1>a, <1>c DEF Unregister, Moved
    <2>2. registered' \subseteq Handlers /\ done' \subseteq Handlers /\ torn' \in BOOLEAN
        BY <1>0, <1>3 DEF Unregister
    <2>3. calls' \in 0..MaxCalls
        BY <1>0, <1>3, MaxCallsAssumption DEF Unregister, MayCall
    <2> QED
        BY <1>0, <1>3, <2>1, <2>2, <2>3 DEF TypeOK, Unregister
<1>4. CASE InvokeNothing
    BY <1>0, <1>4 DEF TypeOK, InvokeNothing, histories
<1>5. CASE InvokeFirst
    <2>1. link' \in [Cells -> Handlers \cup {NULL}] /\ link'["ptEvent"] \in Handlers \cup {NULL}
        BY <1>0, <1>5, Names DEF InvokeFirst
    <2> QED
        BY <1>0, <1>5, <2>1, Names DEF TypeOK, InvokeFirst, Begin
<1>6. CASE InvokePastEnd
    BY <1>0, <1>6, Names DEF TypeOK, InvokePastEnd, Begin, histories
<1>7. CASE InvokeNext
    BY <1>0, <1>7 DEF TypeOK, InvokeNext, Begin, histories
<1>8. CASE OnGoing
    BY <1>0, <1>8, Names DEF TypeOK, OnGoing, histories
<1>9. CASE Unregisters
    <2>1. running \in Handlers
        BY <1>0, <1>9 DEF Unregisters
    <2> QED
        BY <1>0, <1>9, <1>a, <2>1 DEF TypeOK, Unregisters, Tear
<1>10. CASE Completes
    <2>1. running \in Handlers
        BY <1>0, <1>10 DEF Completes
    <2>2. Block(running) \in [Cells -> Handlers \cup {NULL}]
        BY <1>0, <2>1, Names DEF Block
    <2> QED
        BY <1>0, <1>10, <2>1, <2>2 DEF TypeOK, Completes, Tear, Finished
<1> QED
    BY <1>1, <1>2, <1>3, <1>4, <1>5, <1>6, <1>7, <1>8, <1>9, <1>10 DEF Next, Invoke, Ends

(* A handler is registered: it leaves the blocked list if it is on it, and *)
(* comes to the head of the ready list.                                    *)
LEMMA RegisterStep ==
    ASSUME TypeOK, NEW S, Known(S), NEW h \in Handlers, Register(h), ~torn'
    PROVE  \E T : Known(T)'
<1> DEFINE E == "ptEvent"
           B == "ptBlockedList"
<1>4. CASE UNCHANGED <<link, histories>>
    BY <1>4 DEF Known, Register, histories
<1>5. CASE /\ \/ link[h] = NULL /\ link' = Added(link, h)
              \/ /\ link[h] # NULL
                 /\ \E x \in List(B) : Finds(B, x, h) /\ link' = Added(TakenOut(x, h), h)
           /\ registered' = registered \cup {h} /\ done' = done \ {h}
           /\ Tear(link[h] = NULL /\ h \in registered)
    <2>1. /\ Holds(link, S) /\ S \in [Heads -> SUBSET Handlers]
          /\ On(B) = S[B] /\ S[E] \subseteq Handlers /\ S[B] \subseteq Handlers
          /\ registered = Both(S) /\ done = S[B]
        BY Lists DEF Known
    <2>2. PICK free : /\ \/ link[h] = NULL /\ free = link
                         \/ link[h] # NULL /\ \E x : Finds(B, x, h) /\ free = Cut(link, x, h)
                      /\ link' = Pushed(free, E, h)
        BY <1>5, Links DEF Pushed, Added
    <2>a. h # NULL /\ B \in Heads
        BY Names
    <2> DEFINE T == Put(S, B, S[B] \ {h})
    <2>3. T \in [Heads -> SUBSET Handlers] /\ T[B] = S[B] \ {h} /\ T[E] = S[E]
        BY <2>1, PutIs, Names
    <2>4. Holds(free, T) /\ h \notin Both(T)
        <3>1. CASE link[h] = NULL
            <4>1. h \notin Both(S)
                BY <3>1, <2>1, <1>5 DEF Tear
            <4>2. T = S
                BY <4>1, <2>1 DEF Put, Both
            <4> QED
                BY <3>1, <4>1, <4>2, <2>1, <2>2
        <3>2. CASE link[h] # NULL
            <4>1. PICK x : Finds(B, x, h) /\ free = Cut(link, x, h)
                BY <3>2, <2>2
            <4>2. x \in S[B] \cup {B} /\ link[x] = h /\ h \in S[B]
                BY <4>1, <2>1, <2>a, ListIs
            <4>3. x \in Cells
                BY <4>2, <2>1, Names
            <4>5. Holds(free, T)
                BY <4>1, <4>2, <4>3, <2>1, <2>a, TakeOut
            <4>6. h \notin S[E]
                BY <4>2, <2>1, Held
            <4> QED
                BY <4>5, <4>6, <2>3 DEF Both
        <3> QED
            BY <3>1, <3>2
    <2> DEFINE U == Put(T, E, T[E] \cup {h})
    <2>5. U \in [Heads -> SUBSET Handlers] /\ U[E] = S[E] \cup {h} /\ U[B] = S[B] \ {h}
        <3> HIDE DEF T
        <3> QED
            BY <2>1, <2>3, PutIs, Names
    <2>6. Holds(link', U)
        <3> HIDE DEF T
        <3> QED
            BY <2>2, <2>4, Push, Names
    <2> HIDE DEF T, U
    <2>7. registered' = Both(U) /\ done' = U[B]
        BY <1>5, <2>1, <2>5 DEF Both
    <2>8. pptHandler' = pptHandler /\ running' = running /\ raising' = raising
        BY DEF Register
    <2> QED
        BY <2>5, <2>6, <2>7, <2>8 DEF Known
<1> QED
    BY <1>4, <1>5 DEF Register

(* A handler is unregistered: it leaves the list it is on; the iterator,   *)
(* if it stands at it, goes back by one.                                   *)
LEMMA UnregisterStep ==
    ASSUME TypeOK, NEW S, Known(S), NEW h \in Handlers, Unregister(h)
    PROVE  \E T : Known(T)'
<1> DEFINE E == "ptEvent"
           B == "ptBlockedList"
<1>4. /\ Holds(link, S) /\ S \in [Heads -> SUBSET Handlers]
      /\ On(E) = S[E] /\ On(B) = S[B] /\ S[E] \cap S[B] = {}
      /\ S[E] \subseteq Handlers /\ S[B] \subseteq Handlers
      /\ registered = Both(S) /\ done = S[B]
    BY Lists DEF Known
<1>5. CASE h \notin On(E) \cup On(B) /\ UNCHANGED <<link, pptHandler>>
    <2>1. registered' = registered /\ done' = done
        BY <1>4, <1>5 DEF Unregister, Both
    <2> QED
        BY <1>5, <2>1 DEF Known, Unregister
<1>6. ASSUME NEW c \in Heads, NEW x, Finds(c, x, h), link' = TakenOut(x, h),
             pptHandler' = Moved(x, h)
      PROVE  \E T : Known(T)'
    <2>1. h \in S[c] /\ link[x] = h /\ x \in S[c] \cup {c}
        BY <1>4, <1>6, ListIs, Names
    <2>3. x \in Cells
        BY <2>1, <1>4, Names
    <2> DEFINE T == Put(S, c, S[c] \ {h})
    <2>4. Holds(link', T)
        <3>1. link' = Cut(link, x, h)
            BY <1>6, Links
        <3> QED
            BY <3>1, <2>1, <2>3, <1>4, TakeOut
    <2>5. T \in [Heads -> SUBSET Handlers] /\ T[E] = S[E] \ {h} /\ T[B] = S[B] \ {h}
        <3>1. c = E => h \notin S[B]
            BY <2>1, <1>4
        <3>2. c = B => h \notin S[E]
            BY <2>1, <1>4
        <3> QED
            BY <3>1, <3>2, <1>4, PutIs DEF Heads
    <2> HIDE DEF T
    <2>6. registered' = Both(T) /\ done' = T[B]
        BY <1>4, <2>5 DEF Unregister, Both
    <2>7. pptHandler' \in Cells /\ pptHandler' # B /\ pptHandler' \notin T[B]
        <3>1. pptHandler \in Cells /\ pptHandler # B /\ pptHandler \notin S[B]
            BY DEF Known, TypeOK
        <3>2. CASE pptHandler = h
            <4>1. c = E
                BY <2>1, <3>1, <3>2 DEF Heads
            <4>2. pptHandler' = x
                BY <1>6, <3>2 DEF Moved
            <4>3. x # B /\ x \notin S[B]
                BY <4>1, <2>1, <1>4, Names
            <4> QED
                BY <4>2, <4>3, <2>3, <2>5
        <3>3. CASE pptHandler # h
            BY <1>6, <3>1, <3>3, <2>5 DEF Moved
        <3> QED
            BY <3>2, <3>3
    <2>8. running' = running /\ raising' = raising
        BY DEF Unregister
    <2> QED
        BY <2>4, <2>5, <2>6, <2>7, <2>8 DEF Known
<1> QED
    BY <1>5, <1>6 DEF Unregister, Heads, FindsNot

(* invoke_delegate exchanges the lists, or moves the iterator.             *)
LEMMA InvokeStep ==
    ASSUME TypeOK, NEW S, Known(S), Invoke
    PROVE  \E T : Known(T)'
<1> DEFINE E == "ptEvent"
           B == "ptBlockedList"
<1>3. /\ Holds(link, S) /\ S \in [Heads -> SUBSET Handlers] /\ S[E] \cap S[B] = {}
      /\ registered = Both(S) /\ done = S[B]
      /\ link[E] = NULL <=> S[E] = {}
      /\ link[pptHandler] \in S[E] \cup {NULL}
      /\ S[E] \subseteq Handlers
    BY Lists DEF Known
<1>4. CASE InvokeNothing
    BY <1>4 DEF Known, InvokeNothing, histories
<1>5. CASE InvokeFirst
    <2> DEFINE T == [c \in Heads |-> IF c = E THEN S[B] ELSE {}]
    <2>1. Holds(link', T)
        BY <1>3, <1>5, Exchange DEF InvokeFirst
    <2>2. T[E] = S[B] /\ T[B] = {}
        BY Names
    <2> HIDE DEF T
    <2>3. registered' = Both(T) /\ done' = T[B]
        BY <1>3, <1>5, <2>2 DEF InvokeFirst, Both
    <2>4. pptHandler' = E
        BY <1>5 DEF InvokeFirst
    <2> QED
        BY <2>1, <2>2, <2>3, <2>4, Names DEF Known
<1>6. CASE InvokePastEnd
    <2>1. E # B /\ E \notin S[B]
        BY <1>3, Names
    <2> QED
        BY <1>6, <2>1 DEF Known, InvokePastEnd, histories
<1>7. CASE InvokeNext
    <2>1. running' \in S[E]
        BY <1>3, <1>7 DEF InvokeNext
    <2>2. running' \notin S[B]
        BY <2>1, <1>3
    <2> QED
        BY <1>7, <2>2 DEF Known, InvokeNext, histories
<1> QED
    BY <1>4, <1>5, <1>6, <1>7 DEF Invoke

(* A handler returns fsm_rt_on_going: the iterator moves to it.            *)
LEMMA OnGoingStep ==
    ASSUME TypeOK, NEW S, Known(S), OnGoing
    PROVE  \E T : Known(T)'
<1>1. running # "ptBlockedList"
    BY Names DEF TypeOK, OnGoing
<1>2. NULL \notin S["ptBlockedList"]
    BY Lists, Names
<1> QED
    BY <1>1, <1>2 DEF Known, OnGoing, histories

(* What is the case when a handler ends and the iterator points to it.     *)
LEMMA AtRunning ==
    ASSUME TypeOK, NEW S, Known(S), running # NULL, Undisturbed
    PROVE  /\ running \in S["ptEvent"] /\ running \in Handlers /\ running \notin S["ptBlockedList"]
           /\ pptHandler \in Cells /\ pptHandler # running
           /\ pptHandler # "ptBlockedList" /\ pptHandler \notin S["ptBlockedList"]
           /\ NULL \notin S["ptEvent"] /\ NULL \notin S["ptBlockedList"]
<1>1. running \in S["ptEvent"]
    BY Lists DEF Undisturbed
<1>2. running \in Handlers /\ running \notin S["ptBlockedList"]
    BY <1>1, Lists
<1>3. pptHandler # running
    BY Lists DEF Undisturbed
<1> QED
    BY <1>1, <1>2, <1>3, Lists, Names DEF TypeOK, Known

(* A handler ends with EVENT_RT_UNREGISTER. *)
LEMMA UnregistersStep ==
    ASSUME TypeOK, NEW S, Known(S), Unregisters, ~torn'
    PROVE  \E T : Known(T)'
<1> DEFINE E == "ptEvent"
           B == "ptBlockedList"
<1>3. PICK h : h = running
    OBVIOUS
<1>4. /\ h \in S[E] /\ h \in Handlers /\ h \notin S[B]
      /\ pptHandler \in Cells /\ pptHandler # B /\ pptHandler \notin S[B]
      /\ link[pptHandler] = h /\ NULL \notin S[B]
    BY <1>3, AtRunning DEF Unregisters, Undisturbed, Tear
<1>5. /\ Holds(link, S) /\ S \in [Heads -> SUBSET Handlers]
      /\ registered = Both(S) /\ done = S[B]
    BY Lists DEF Known
<1> DEFINE T == Put(S, E, S[E] \ {h})
<1>6. Holds(link', T)
    <2>1. link' = Cut(link, pptHandler, h)
        BY <1>3, Links DEF Unregisters
    <2> QED
        BY <2>1, <1>4, <1>5, TakeOut, Names
<1>7. T[E] = S[E] \ {h} /\ T[B] = S[B]
    BY <1>5, PutIs DEF Heads
<1> HIDE DEF T
<1>8. /\ registered' = registered \ {h} /\ done' = done /\ running' = NULL
      /\ pptHandler' = pptHandler /\ raising' = raising /\ calls' = calls
    BY <1>3 DEF Unregisters
<1>9. registered' = Both(T) /\ done' = T[B]
    BY <1>4, <1>5, <1>7, <1>8 DEF Both
<1>10. Known(T)'
    BY <1>4, <1>6, <1>7, <1>8, <1>9 DEF Known
<1> QED
    BY <1>10

(* A handler ends with fsm_rt_cpl: it goes to the blocked list.            *)
LEMMA CompletesStep ==
    ASSUME TypeOK, NEW S, Known(S), Completes, ~torn'
    PROVE  /\ \E T : Known(T)'
           /\ raising /\ ~raising' => registered' \subseteq done'
<1> DEFINE E == "ptEvent"
           B == "ptBlockedList"
<1>3. PICK h : h = running
    OBVIOUS
<1>4. /\ h \in S[E] /\ h \in Handlers /\ h \notin S[B]
      /\ pptHandler \in Cells /\ pptHandler # B /\ pptHandler \notin S[B]
      /\ pptHandler # h
      /\ link[pptHandler] = h /\ NULL \notin S[B]
    BY <1>3, AtRunning DEF Completes, Undisturbed, Tear
<1>5. /\ Holds(link, S) /\ S \in [Heads -> SUBSET Handlers]
      /\ registered = Both(S) /\ done = S[B]
      /\ S[E] \subseteq Handlers /\ S[B] \subseteq Handlers
    BY Lists DEF Known
<1>6. PICK free : free = Cut(link, pptHandler, h)
    OBVIOUS
<1>7. link' = Pushed(free, B, h)
    BY <1>3, <1>4, <1>6, Links DEF Completes
<1> DEFINE T == Put(S, E, S[E] \ {h})
<1>8. T \in [Heads -> SUBSET Handlers] /\ T[E] = S[E] \ {h} /\ T[B] = S[B]
    BY <1>5, PutIs DEF Heads
<1>9. Holds(free, T)
    BY <1>4, <1>5, <1>6, TakeOut, Names
<1> DEFINE U == Put(T, B, T[B] \cup {h})
<1>10. U \in [Heads -> SUBSET Handlers] /\ U[E] = S[E] \ {h} /\ U[B] = S[B] \cup {h}
    <2> HIDE DEF T
    <2> QED
        BY <1>4, <1>5, <1>8, PutIs, Names
<1>11. Holds(link', U)
    <2>1. h \notin Both(T)
        BY <1>4, <1>8 DEF Both
    <2> HIDE DEF T
    <2> QED
        BY <2>1, <1>4, <1>7, <1>9, Push, Names
<1> HIDE DEF T, U
<1>12. /\ registered' = registered /\ done' = done \cup {h} /\ running' = NULL
       /\ pptHandler' = pptHandler /\ raising' = ~Finished /\ calls' = calls
    BY <1>3 DEF Completes
<1>13. registered' = Both(U) /\ done' = U[B]
    BY <1>4, <1>5, <1>10, <1>12 DEF Both
<1>14. Known(U)'
    BY <1>4, <1>10, <1>11, <1>12, <1>13, Names DEF Known
<1>16. raising /\ ~raising' => registered' \subseteq done'
    <2> SUFFICES ASSUME ~raising' PROVE registered' \subseteq done'
        OBVIOUS
    <2>1. link'[E] = NULL
        BY <1>12 DEF Finished
    <2>2. U[E] = {}
        BY <2>1, <1>11, Held, Names
    <2> QED
        BY <2>2, <1>13 DEF Both
<1> QED
    BY <1>14, <1>16

(* Nothing else changes the variables. *)
LEMMA NextInv == Inv /\ [Next]_vars => Inv'
<1> SUFFICES ASSUME Inv, [Next]_vars PROVE Inv'
    OBVIOUS
<1>0. TypeOK /\ TypeOK'
    BY TypeStep DEF Inv
<1> SUFFICES ASSUME ~torn' PROVE \E T : Known(T)'
    BY <1>0 DEF Inv
<1>1. ~torn
    BY DEF Next, Register, Unregister, Invoke, InvokeNothing, InvokeFirst, InvokePastEnd,
           InvokeNext, OnGoing, Ends, Unregisters, Completes, Tear, vars, histories
<1>2. PICK S : Known(S)
    BY <1>1 DEF Inv
<1>3. CASE UNCHANGED vars
    BY <1>2, <1>3 DEF Known, vars, histories
<1>4. ASSUME NEW h \in Handlers, Register(h) \/ Unregister(h) PROVE \E T : Known(T)'
    BY <1>0, <1>2, <1>4, RegisterStep, UnregisterStep
<1>5. CASE Invoke \/ OnGoing
    BY <1>0, <1>2, <1>5, InvokeStep, OnGoingStep
<1>6. CASE Ends
    BY <1>0, <1>2, <1>6, UnregistersStep, CompletesStep DEF Ends
<1> QED
    BY <1>3, <1>4, <1>5, <1>6 DEF Next

--------------------------------------------------------------------------------
(* However handlers are registered, unregistered and called: until the     *)
(* code writes over a link that leads elsewhere (torn), no handler is lost *)
(* and none is listed twice, and what is called next is on the ready list. *)
THEOREM Safety == Spec => []OneList
<1>1. Init => Inv
    BY InitInv
<1>2. Inv /\ [Next]_vars => Inv'
    BY NextInv
<1>3. Inv => OneList
    BY InvOneList
<1> QED
    BY <1>1, <1>2, <1>3, PTL DEF Spec

(* The handler that a step calls has not completed, or all have. *)
LEMMA CalledStep ==
    ASSUME Inv, [Next]_vars, running' \notin {running, NULL}
    PROVE  running' \notin done \/ registered \subseteq done \/ torn'
<1> SUFFICES ASSUME ~torn' PROVE running' \notin done \/ registered \subseteq done
    OBVIOUS
<1>0. ~torn
    BY DEF Next, Register, Unregister, Invoke, InvokeNothing, InvokeFirst, InvokePastEnd,
           InvokeNext, OnGoing, Ends, Unregisters, Completes, Tear, vars, histories
<1>1. TypeOK
    BY DEF Inv
<1>2. PICK S : Known(S)
    BY <1>0 DEF Inv
<1>3. CASE InvokeFirst
    <2>1. S["ptEvent"] = {}
        BY <1>1, <1>2, <1>3, Lists DEF InvokeFirst
    <2> QED
        BY <2>1, <1>2 DEF Known, Both
<1>4. CASE InvokeNext
    BY <1>1, <1>2, <1>4, Lists DEF InvokeNext, Known
<1> QED
    BY <1>3, <1>4 DEF Next, Register, Unregister, Invoke, InvokeNothing, InvokePastEnd,
                      OnGoing, Ends, Unregisters, Completes, vars

(* The step that ends the raise leaves no handler that has not completed. *)
LEMMA RaiseStep ==
    ASSUME Inv, [Next]_vars, raising, ~raising'
    PROVE  registered' \subseteq done' \/ torn'
<1> SUFFICES ASSUME ~torn' PROVE registered' \subseteq done'
    OBVIOUS
<1>0. ~torn
    BY DEF Next, Register, Unregister, Invoke, InvokeNothing, InvokeFirst, InvokePastEnd,
           InvokeNext, OnGoing, Ends, Unregisters, Completes, Tear, vars, histories
<1>1. TypeOK
    BY DEF Inv
<1>2. PICK S : Known(S)
    BY <1>0 DEF Inv
<1>3. CASE InvokeNothing
    <2>1. S["ptEvent"] = {} /\ S["ptBlockedList"] = {}
        BY <1>1, <1>2, <1>3, Lists DEF InvokeNothing
    <2>2. registered = {}
        BY <2>1, <1>2 DEF Known, Both
    <2> QED
        BY <2>2, <1>3 DEF InvokeNothing, histories
<1>4. CASE Completes
    BY <1>1, <1>2, <1>4, CompletesStep
<1> QED
    BY <1>3, <1>4 DEF Next, Register, Unregister, Invoke, InvokeFirst, InvokePastEnd,
                      InvokeNext, Begin, OnGoing, Ends, Unregisters, vars

(* In every round each handler that stays registered completes once, until *)
(* a link is torn: none that has completed is called before all have, and  *)
(* the raise is over only when all have.                                   *)
THEOREM EachOnce == Spec => CompletesOnce
<1>1. Init => Inv
    BY InitInv
<1>2. Inv /\ [Next]_vars => Inv'
    BY NextInv
<1>3. Inv /\ [Next]_vars
        => [running' \notin {running, NULL}
              => running' \notin done \/ registered \subseteq done \/ torn']_vars
    BY CalledStep
<1>4. Inv /\ [Next]_vars
        => [raising /\ ~raising' => registered' \subseteq done' \/ torn']_vars
    BY RaiseStep
<1>5. Spec => CalledOnce
    BY <1>1, <1>2, <1>3, PTL DEF Spec, CalledOnce
<1>6. Spec => NonePassedOver
    BY <1>1, <1>2, <1>4, PTL DEF Spec, NonePassedOver
<1> QED
    BY <1>5, <1>6 DEF CompletesOnce
================================================================================
