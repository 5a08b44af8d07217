----------------------------- MODULE Frame_proofs -----------------------------
(***************************************************************************)
(* Proofs about the simple frame and the bootloader's parser (Frame and    *)
(* Bootloader), for every input, every buffer and every table of commands. *)
(***************************************************************************)
EXTENDS Frame, SequenceTheorems, WellFoundedInduction, TLAPS

-----------------------------------------------------------------------------
(* Numbers and sequences. *)

\* Every set of numbers has a least one.
LEMMA Least == ASSUME NEW T, T \subseteq Nat, T # {} PROVE \E x \in T : \A y \in T : x <= y
<1>. DEFINE R == OpToRel(<, Nat)
<1>1. IsWellFoundedOn(R, Nat)
  BY NatLessThanWellFounded
<1>2. \A x, y \in Nat : y < x => <<y, x>> \in R
  BY DEF OpToRel
<1>. HIDE DEF R
<1>3. PICK x \in T : \A y \in T : <<y, x>> \notin R
  BY <1>1, WFMin
<1>4. \A y \in T : ~(y < x)
  BY <1>2, <1>3
<1>. QED
  BY <1>4

\* Induction, for a set: what holds of 0 and goes on holds of all numbers.
LEMMA Induction == ASSUME NEW T, 0 \in T, \A n \in Nat : n \in T => n + 1 \in T PROVE Nat \subseteq T
<1>. SUFFICES ASSUME Nat \ T # {} PROVE FALSE
  OBVIOUS
<1>1. PICK x \in Nat \ T : \A y \in Nat \ T : x <= y
  BY Least
<1>2. x # 0 /\ x - 1 \in Nat
  OBVIOUS
<1>3. x - 1 \in T
  BY <1>1, <1>2
<1>. QED
  BY <1>2, <1>3

\* A sequence is one over the set of its elements.
LEMMA Elements == ASSUME NEW q, Sequence(q), NEW S, \A i \in 1 .. Len(q) : q[i] \in S PROVE q \in Seq(S)
<1>1. q \in [1 .. Len(q) -> S] /\ Len(q) \in Nat
  BY DEF Sequence
<1>. QED
  BY <1>1, SeqDef

\* And the other way round.
LEMMA IsSequence == ASSUME NEW S, NEW q \in Seq(S) PROVE Sequence(q)
  BY LenProperties DEF Sequence

\* Two sequences are over one set.
LEMMA CommonSet == ASSUME NEW p, NEW q, Sequence(p), Sequence(q)
                   PROVE  \E S : p \in Seq(S) /\ q \in Seq(S)
<1>. DEFINE S == {p[i] : i \in 1 .. Len(p)} \cup {q[i] : i \in 1 .. Len(q)}
<1>1. p \in Seq(S) /\ q \in Seq(S)
  BY Elements
<1>. QED
  BY <1>1

\* Sequences are equal if their elements are.
LEMMA Equal == ASSUME NEW p, NEW q, Sequence(p), Sequence(q), Len(p) = Len(q),
                      \A i \in 1 .. Len(p) : p[i] = q[i]
               PROVE  p = q
  BY DEF Sequence

\* One sequence after another.
LEMMA Joined == ASSUME NEW p, NEW q, Sequence(p), Sequence(q)
                PROVE  /\ Sequence(p \o q)
                       /\ Len(p \o q) = Len(p) + Len(q)
                       /\ \A i \in 1 .. Len(p) : (p \o q)[i] = p[i]
                       /\ \A i \in 1 .. Len(q) : (p \o q)[Len(p) + i] = q[i]
<1>1. PICK S : p \in Seq(S) /\ q \in Seq(S)
  BY CommonSet
<1>2. p \o q \in Seq(S) /\ Len(p) \in Nat /\ Len(q) \in Nat
  BY <1>1, ConcatProperties, LenProperties
<1>3. \A i \in 1 .. Len(p) + Len(q) : (p \o q)[i] = IF i <= Len(p) THEN p[i] ELSE q[i - Len(p)]
  BY <1>1, ConcatProperties
<1>4. \A i \in 1 .. Len(q) : Len(p) + i \in 1 .. Len(p) + Len(q) /\ ~(Len(p) + i <= Len(p))
                             /\ Len(p) + i - Len(p) = i
  BY <1>2
<1>5. \A i \in 1 .. Len(p) : i \in 1 .. Len(p) + Len(q) /\ i <= Len(p)
  BY <1>2
<1>6. Len(p \o q) = Len(p) + Len(q) /\ Sequence(p \o q)
  BY <1>1, <1>2, ConcatProperties, IsSequence
<1>7. \A i \in 1 .. Len(p) : (p \o q)[i] = p[i]
  BY <1>3, <1>5
<1>8. \A i \in 1 .. Len(q) : (p \o q)[Len(p) + i] = q[i]
  BY <1>3, <1>4
<1>. QED
  BY <1>6, <1>7, <1>8

\* It does not matter what is joined first.
LEMMA JoinedTwice == ASSUME NEW p, NEW q, NEW r, Sequence(p), Sequence(q), Sequence(r)
                     PROVE  (p \o q) \o r = p \o (q \o r)
<1>. DEFINE S == {p[i] : i \in 1 .. Len(p)} \cup {q[i] : i \in 1 .. Len(q)} \cup {r[i] : i \in 1 .. Len(r)}
<1>1. p \in Seq(S) /\ q \in Seq(S) /\ r \in Seq(S)
  BY Elements
<1>. HIDE DEF S
<1>. QED
  BY <1>1, ConcatAssociative

\* Nothing joined to a sequence.
LEMMA JoinedToNothing == ASSUME NEW p, Sequence(p) PROVE <<>> \o p = p /\ p \o <<>> = p
<1>1. p \in Seq({p[i] : i \in 1 .. Len(p)})
  BY Elements
<1>. QED
  BY <1>1, ConcatEmptySeq

Longer(p, e, r) ==
    /\ Sequence(r) /\ Len(r) = Len(p) + 1 /\ r[Len(p) + 1] = e
    /\ \A i \in 1 .. Len(p) : r[i] = p[i]

\* A sequence with an element appended is longer by it.
LEMMA AppendedIsLonger == ASSUME NEW p, NEW e, Sequence(p)
                          PROVE  Longer(p, e, Append(p, e)) /\ Append(p, e) = p \o <<e>>
<1>. DEFINE S == {p[i] : i \in 1 .. Len(p)} \cup {e}
<1>1. p \in Seq(S) /\ e \in S
  BY Elements
<1>. HIDE DEF S
<1>2. Append(p, e) \in Seq(S)
  BY <1>1
<1>3. Sequence(Append(p, e))
  BY <1>2, IsSequence
<1>4. /\ Len(Append(p, e)) = Len(p) + 1
      /\ \A i \in 1 .. Len(p) : Append(p, e)[i] = p[i]
      /\ Append(p, e)[Len(p) + 1] = e
  BY <1>1, AppendProperties
<1>5. Append(p, e) = p \o <<e>>
  BY <1>1, AppendIsConcat
<1>. QED
  BY <1>3, <1>4, <1>5 DEF Longer

\* The same, said of its parts.
LEMMA Appended == ASSUME NEW p, NEW e, Sequence(p)
                  PROVE  /\ Sequence(Append(p, e))
                         /\ Len(Append(p, e)) = Len(p) + 1
                         /\ \A i \in 1 .. Len(p) : Append(p, e)[i] = p[i]
                         /\ Append(p, e)[Len(p) + 1] = e
                         /\ Append(p, e) = p \o <<e>>
  BY AppendedIsLonger DEF Longer

\* A part of anything is a sequence.
LEMMA Part == ASSUME NEW q, NEW m \in Nat, NEW n \in Int
              PROVE  /\ Sequence(SubSeq(q, m, n))
                     /\ Len(SubSeq(q, m, n)) = IF m <= n THEN n - m + 1 ELSE 0
                     /\ \A i \in 1 .. n - m + 1 : SubSeq(q, m, n)[i] = q[m + i - 1]
<1>. DEFINE S == {q[i] : i \in m .. n}
<1>1. SubSeq(q, m, n) \in Seq(S)
  BY SubSeqProperties
<1>2. /\ Len(SubSeq(q, m, n)) = IF m <= n THEN n - m + 1 ELSE 0
      /\ \A i \in 1 .. n - m + 1 : SubSeq(q, m, n)[i] = q[m + i - 1]
  BY SubSeqProperties
<1>. QED
  BY <1>1, <1>2, IsSequence

\* Parts that meet make a part.
LEMMA PartsMeet == ASSUME NEW q, NEW k \in Nat, NEW n \in Nat
                   PROVE  SubSeq(q, 1, k) \o SubSeq(q, k + 1, k + n) = SubSeq(q, 1, k + n)
<1>. DEFINE p == SubSeq(q, 1, k)
            r == SubSeq(q, k + 1, k + n)
            t == SubSeq(q, 1, k + n)
<1>1. Sequence(p) /\ Len(p) = k /\ \A i \in 1 .. k : p[i] = q[i]
  BY Part
<1>2. Sequence(r) /\ Len(r) = n /\ \A i \in 1 .. n : r[i] = q[k + i]
  <2>1. PICK m \in Nat : m = k + 1
    OBVIOUS
  <2>2. PICK l \in Nat : l = k + n
    OBVIOUS
  <2>3. /\ Sequence(SubSeq(q, m, l)) /\ Len(SubSeq(q, m, l)) = IF m <= l THEN l - m + 1 ELSE 0
        /\ \A i \in 1 .. l - m + 1 : SubSeq(q, m, l)[i] = q[m + i - 1]
    BY Part
  <2>4. l - m + 1 = n /\ (m <= l <=> n # 0) /\ \A i \in 1 .. n : m + i - 1 = k + i
    BY <2>1, <2>2
  <2>5. r = SubSeq(q, m, l)
    BY <2>1, <2>2
  <2>. HIDE DEF r
  <2>. QED
    BY <2>3, <2>4, <2>5
<1>3. Sequence(t) /\ Len(t) = k + n /\ \A i \in 1 .. k + n : t[i] = q[i]
  <2>1. PICK l \in Nat : l = k + n
    OBVIOUS
  <2>2. /\ Sequence(SubSeq(q, 1, l)) /\ Len(SubSeq(q, 1, l)) = IF 1 <= l THEN l - 1 + 1 ELSE 0
        /\ \A i \in 1 .. l - 1 + 1 : SubSeq(q, 1, l)[i] = q[1 + i - 1]
    BY Part
  <2>3. l - 1 + 1 = l /\ (IF 1 <= l THEN l - 1 + 1 ELSE 0) = l /\ \A i \in 1 .. l : 1 + i - 1 = i
    OBVIOUS
  <2>. QED
    BY <2>1, <2>2, <2>3
<1>. HIDE DEF p, r, t
<1>4. /\ Sequence(p \o r) /\ Len(p \o r) = k + n
      /\ \A i \in 1 .. k : (p \o r)[i] = q[i]
      /\ \A i \in 1 .. n : (p \o r)[k + i] = q[k + i]
  BY <1>1, <1>2, Joined
<1>5. \A i \in 1 .. k + n : (p \o r)[i] = q[i]
  <2>. SUFFICES ASSUME NEW i \in 1 .. k + n PROVE (p \o r)[i] = q[i]
    OBVIOUS
  <2>1. CASE i <= k
    BY <1>4, <2>1
  <2>2. CASE i > k
    <3>1. i - k \in 1 .. n /\ k + (i - k) = i
      BY <2>2
    <3>2. (p \o r)[k + (i - k)] = q[k + (i - k)]
      BY <1>4, <3>1
    <3>. QED
      BY <3>1, <3>2
  <2>3. i \in Int /\ k \in Int
    OBVIOUS
  <2>4. i <= k \/ i > k
    BY <2>3
  <2>. QED
    BY <2>1, <2>2, <2>4
<1>6. p \o r = t
  BY <1>3, <1>4, <1>5, Equal
<1>. QED
  BY <1>6 DEF p, r, t

\* The whole is a part.
LEMMA PartWhole == ASSUME NEW q, Sequence(q) PROVE SubSeq(q, 1, Len(q)) = q
<1>1. Len(q) \in Nat /\ Sequence(SubSeq(q, 1, Len(q))) /\ Len(SubSeq(q, 1, Len(q))) = Len(q)
  BY Part DEF Sequence
<1>2. \A i \in 1 .. Len(q) : SubSeq(q, 1, Len(q))[i] = q[i]
  BY <1>1, Part
<1>. QED
  BY <1>1, <1>2, Equal

\* Without the first element.
LEMMA Shortened == ASSUME NEW q, Sequence(q), q # <<>>
                   PROVE  /\ Sequence(Tail(q)) /\ Len(Tail(q)) = Len(q) - 1 /\ Len(q) > 0
                          /\ \A i \in 1 .. Len(q) - 1 : Tail(q)[i] = q[i + 1]
                          /\ Head(q) = q[1]
<1>. DEFINE S == {q[i] : i \in 1 .. Len(q)}
<1>1. q \in Seq(S)
  BY Elements
<1>. HIDE DEF S
<1>2. Tail(q) \in Seq(S) /\ Len(Tail(q)) = Len(q) - 1 /\ Len(q) > 0
  BY <1>1
<1>3. \A i \in 1 .. Len(q) - 1 : Tail(q)[i] = q[i + 1]
  BY <1>1
<1>4. Head(q) = q[1]
  BY <1>1
<1>. QED
  BY <1>2, <1>3, <1>4, IsSequence

\* No element, no sequence.
LEMMA NoElement == ASSUME NEW q, Sequence(q) PROVE q = <<>> <=> Len(q) = 0
<1>1. Sequence(<<>>) /\ Len(<<>>) = 0
  BY EmptySeq, IsSequence
<1>. QED
  BY <1>1, Equal

-----------------------------------------------------------------------------
(* Sequences of sequences, one after another. *)

Recursion(f, n, pieces) == f = [i \in 1 .. n |-> IF i = 1 THEN pieces[i] ELSE f[i - 1] \o pieces[i]]

Follows(f, i, pieces) == (i = 1 => f[i] = pieces[i]) /\ (i # 1 => f[i] = f[i - 1] \o pieces[i])

\* One step of it.
LEMMA RecursionStep == ASSUME NEW f, NEW n \in Nat, NEW pieces, Recursion(f, n, pieces), NEW i \in 1 .. n
                       PROVE  Follows(f, i, pieces)
  BY DEF Recursion, Follows

\* What FlattenSeq chooses exists.
LEMMA RecursionExists == ASSUME NEW pieces, NEW n \in Nat PROVE \E f : Recursion(f, n, pieces)
<1>. DEFINE T == {k \in Nat : \E f : Recursion(f, k, pieces)}
<1>1. 0 \in T
  <2>. DEFINE f == [i \in 1 .. 0 |-> pieces[i]]
  <2>1. Recursion(f, 0, pieces)
    BY DEF Recursion
  <2>. QED
    BY <2>1
<1>2. ASSUME NEW k \in Nat, k \in T PROVE k + 1 \in T
  <2>1. PICK f : Recursion(f, k, pieces)
    BY <1>2
  <2>. DEFINE g == [i \in 1 .. k + 1 |-> IF i = 1 THEN pieces[i] ELSE f[i - 1] \o pieces[i]]
  <2>2. \A i \in 1 .. k : g[i] = f[i]
    <3>. SUFFICES ASSUME NEW i \in 1 .. k PROVE g[i] = f[i]
      OBVIOUS
    <3>1. i \in 1 .. k + 1
      OBVIOUS
    <3>2. g[i] = IF i = 1 THEN pieces[i] ELSE f[i - 1] \o pieces[i]
      BY <3>1
    <3>. HIDE DEF g
    <3>3. Recursion(f, k, pieces) /\ k \in Nat /\ i \in 1 .. k
      BY <2>1
    <3>4. Follows(f, i, pieces)
      BY <3>3, RecursionStep, Zenon
    <3>. QED
      BY <3>2, <3>4 DEF Follows
  <2>3. \A i \in 1 .. k + 1 : i # 1 => i - 1 \in 1 .. k
    OBVIOUS
  <2>4. \A i \in 1 .. k + 1 : i # 1 => g[i - 1] = f[i - 1]
    BY <2>2, <2>3
  <2>5. Recursion(g, k + 1, pieces)
    BY <2>4 DEF Recursion
  <2>. QED
    BY <2>5
<1>. HIDE DEF T
<1>3. n \in T
  BY <1>1, <1>2, Induction
<1>. QED
  BY <1>3 DEF T

\* It is the end of such a recursion.
LEMMA FlattenIs == ASSUME NEW pieces, Len(pieces) \in Nat \ {0}
                   PROVE  \E f : Recursion(f, Len(pieces), pieces) /\ FlattenSeq(pieces) = f[Len(pieces)]
<1>1. \E f : f = [i \in 1 .. Len(pieces) |-> IF i = 1 THEN pieces[i] ELSE f[i - 1] \o pieces[i]]
  BY RecursionExists DEF Recursion
<1>. DEFINE c == CHOOSE f : f = [i \in 1 .. Len(pieces) |->
                                     IF i = 1 THEN pieces[i] ELSE f[i - 1] \o pieces[i]]
<1>2. c = [i \in 1 .. Len(pieces) |-> IF i = 1 THEN pieces[i] ELSE c[i - 1] \o pieces[i]]
  BY <1>1
<1>3. FlattenSeq(pieces) = c[Len(pieces)]
  BY DEF FlattenSeq
<1>. QED
  BY <1>2, <1>3 DEF Recursion

\* Two recursions over the same pieces agree.
LEMMA RecursionsAgree == ASSUME NEW f, NEW g, NEW p, NEW q, NEW m \in Nat, NEW n \in Nat, m <= n,
                                Recursion(f, m, p), Recursion(g, n, q),
                                \A i \in 1 .. m : p[i] = q[i]
                         PROVE  \A i \in 1 .. m : f[i] = g[i]
<1>. DEFINE T == {k \in Nat : k \in 1 .. m => f[k] = g[k]}
<1>1. 0 \in T
  OBVIOUS
<1>2. ASSUME NEW k \in Nat, k \in T PROVE k + 1 \in T
  <2>. SUFFICES ASSUME k + 1 \in 1 .. m PROVE f[k + 1] = g[k + 1]
    OBVIOUS
  <2>1. PICK i \in Nat : i = k + 1
    OBVIOUS
  <2>2. i \in 1 .. m /\ i \in 1 .. n /\ i - 1 = k /\ (i # 1 => k \in 1 .. m)
    BY <2>1
  <2>a. i \in 1 .. m
    BY <2>2
  <2>b. i \in 1 .. n
    BY <2>2
  <2>3. /\ i = 1 => f[i] = p[i]
        /\ i # 1 => f[i] = f[i - 1] \o p[i]
    BY <2>a DEF Recursion
  <2>4. /\ i = 1 => g[i] = q[i]
        /\ i # 1 => g[i] = g[i - 1] \o q[i]
    BY <2>b DEF Recursion
  <2>5. i # 1 => f[k] = g[k]
    BY <1>2, <2>2
  <2>6. f[i] = g[i]
    BY <2>2, <2>3, <2>4, <2>5
  <2>. QED
    BY <2>1, <2>6
<1>. HIDE DEF T
<1>3. Nat \subseteq T
  BY <1>1, <1>2, Induction
<1>. QED
  BY <1>3 DEF T

\* Of sequences it makes a sequence, and what holds of all elements (they are
\* in E) holds of its.
LEMMA FlattenMakes == ASSUME NEW pieces, Sequence(pieces), NEW E,
                             \A i \in 1 .. Len(pieces) : pieces[i] \in Seq(E)
                      PROVE  FlattenSeq(pieces) \in Seq(E)
<1>1. Len(pieces) \in Nat
  BY DEF Sequence
<1>2. CASE Len(pieces) = 0
  BY <1>2, NoElement, EmptySeq DEF FlattenSeq
<1>3. CASE Len(pieces) # 0
  <2>1. PICK f : Recursion(f, Len(pieces), pieces) /\ FlattenSeq(pieces) = f[Len(pieces)]
    BY <1>1, <1>3, FlattenIs
  <2>. DEFINE T == {k \in Nat : k \in 1 .. Len(pieces) => f[k] \in Seq(E)}
  <2>2. 0 \in T
    OBVIOUS
  <2>3. ASSUME NEW k \in Nat, k \in T PROVE k + 1 \in T
    <3>. SUFFICES ASSUME k + 1 \in 1 .. Len(pieces) PROVE f[k + 1] \in Seq(E)
      OBVIOUS
    <3>1. (k + 1) - 1 = k
      OBVIOUS
    <3>2. f[k + 1] = IF k + 1 = 1 THEN pieces[k + 1] ELSE f[k] \o pieces[k + 1]
      BY <2>1, <3>1 DEF Recursion
    <3>3. k # 0 => f[k] \in Seq(E)
      BY <1>1, <2>3
    <3>. QED
      BY <3>2, <3>3, ConcatProperties
  <2>. HIDE DEF T
  <2>4. Nat \subseteq T
    BY <2>2, <2>3, Induction
  <2>5. Len(pieces) \in T
    BY <1>1, <2>4
  <2>. QED
    BY <1>1, <1>3, <2>1, <2>5 DEF T
<1>. QED
  BY <1>2, <1>3

\* One piece more is joined at the end.
LEMMA FlattenAppend == ASSUME NEW pieces, NEW q, NEW more, Sequence(pieces), Sequence(more), Sequence(q),
                              Len(more) = Len(pieces) + 1, more[Len(pieces) + 1] = q,
                              \A i \in 1 .. Len(pieces) : more[i] = pieces[i]
                       PROVE  FlattenSeq(more) = FlattenSeq(pieces) \o q
<1>1. Len(pieces) \in Nat /\ Len(more) \in Nat \ {0}
  BY DEF Sequence
<1>2. PICK g : Recursion(g, Len(more), more) /\ FlattenSeq(more) = g[Len(more)]
  BY <1>1, FlattenIs
<1>3. CASE Len(pieces) = 0
  <2>1. pieces = <<>> /\ FlattenSeq(pieces) = <<>>
    BY <1>3, NoElement DEF FlattenSeq
  <2>2. FlattenSeq(more) = q
    BY <1>2, <1>3 DEF Recursion
  <2>. QED
    BY <2>1, <2>2, JoinedToNothing
<1>4. CASE Len(pieces) # 0
  <2>1. PICK f : Recursion(f, Len(pieces), pieces) /\ FlattenSeq(pieces) = f[Len(pieces)]
    BY <1>1, <1>4, FlattenIs
  <2>2. \A i \in 1 .. Len(pieces) : f[i] = g[i]
    BY <1>1, <1>2, <2>1, RecursionsAgree
  <2>3. Len(more) \in 1 .. Len(more) /\ Len(more) # 1 /\ Len(more) - 1 = Len(pieces)
    BY <1>1, <1>4
  <2>4. g[Len(more)] = g[Len(pieces)] \o q
    <3>1. PICK n \in Nat : n = Len(more)
      BY <1>1
    <3>2. Recursion(g, n, more) /\ n \in 1 .. n /\ n # 1 /\ n - 1 = Len(pieces) /\ n = Len(pieces) + 1
      BY <1>1, <1>2, <2>3, <3>1
    <3>a. Recursion(g, n, more)
      BY <3>2
    <3>b. n \in 1 .. n
      BY <3>2
    <3>3. Follows(g, n, more)
      BY <3>a, <3>b, RecursionStep, Zenon
    <3>4. n # 1 => g[n] = g[n - 1] \o more[n]
      BY <3>3 DEF Follows
    <3>. QED
      BY <3>1, <3>2, <3>4
  <2>5. g[Len(pieces)] = f[Len(pieces)]
    BY <1>1, <1>4, <2>2
  <2>. QED
    BY <1>2, <2>1, <2>4, <2>5
<1>. QED
  BY <1>3, <1>4

\* Sequences of sequences give a sequence.
LEMMA FlattenSequences == ASSUME NEW pieces, Sequence(pieces), \A i \in 1 .. Len(pieces) : Sequence(pieces[i])
                          PROVE  Sequence(FlattenSeq(pieces))
<1>. DEFINE E == UNION {{pieces[i][k] : k \in 1 .. Len(pieces[i])} : i \in 1 .. Len(pieces)}
<1>1. ASSUME NEW i \in 1 .. Len(pieces) PROVE pieces[i] \in Seq(E)
  <2>1. \A k \in 1 .. Len(pieces[i]) : pieces[i][k] \in E
    OBVIOUS
  <2>2. Sequence(pieces[i])
    OBVIOUS
  <2>. HIDE DEF E
  <2>. QED
    BY <2>1, <2>2, Elements
<1>. HIDE DEF E
<1>2. FlattenSeq(pieces) \in Seq(E)
  BY <1>1, FlattenMakes
<1>. QED
  BY <1>2, IsSequence

Begins(p, q) == Len(p) <= Len(q) /\ \A i \in 1 .. Len(p) : p[i] = q[i]

\* A beginning, in the words of the community module.
LEMMA BeginsIsPrefix == ASSUME NEW p, NEW q, Sequence(p), Sequence(q), Begins(p, q) PROVE IsPrefix(p, q)
<1>0. Len(p) \in Nat /\ Len(p) <= Len(q)
  BY DEF Sequence, Begins
<1>1. PICK n \in Nat : n = Len(p)
  BY <1>0
<1>2. /\ Sequence(SubSeq(p, 1, n)) /\ Len(SubSeq(p, 1, n)) = IF 1 <= n THEN n - 1 + 1 ELSE 0
      /\ \A i \in 1 .. n - 1 + 1 : SubSeq(p, 1, n)[i] = p[1 + i - 1]
  BY Part
<1>3. /\ Sequence(SubSeq(q, 1, n)) /\ Len(SubSeq(q, 1, n)) = IF 1 <= n THEN n - 1 + 1 ELSE 0
      /\ \A i \in 1 .. n - 1 + 1 : SubSeq(q, 1, n)[i] = q[1 + i - 1]
  BY Part
<1>4. n - 1 + 1 = n /\ (IF 1 <= n THEN n - 1 + 1 ELSE 0) = n /\ \A i \in 1 .. n : 1 + i - 1 = i
  OBVIOUS
<1>5. \A i \in 1 .. n : p[i] = q[i]
  BY <1>1 DEF Begins
<1>6. SubSeq(p, 1, n) = SubSeq(q, 1, n)
  BY <1>2, <1>3, <1>4, <1>5, Equal
<1>. QED
  BY <1>0, <1>1, <1>6 DEF IsPrefix

\* A sequence begins what is made of it by appending more.
LEMMA BeginsJoined == ASSUME NEW p, NEW q, Sequence(p), Sequence(q) PROVE Begins(p, p \o q)
<1>1. Len(p) \in Nat /\ Len(q) \in Nat
  BY DEF Sequence
<1>. QED
  BY <1>1, Joined DEF Begins

\* What is the same before them changes nothing.
LEMMA BeginsBehind == ASSUME NEW r, NEW p, NEW q, Sequence(r), Sequence(p), Sequence(q), Begins(p, q)
                      PROVE  Begins(r \o p, r \o q)
<1>1. Len(p) \in Nat /\ Len(q) \in Nat /\ Len(r) \in Nat /\ Len(p) <= Len(q)
  BY DEF Sequence, Begins
<1>2. Len(r \o p) = Len(r) + Len(p) /\ Len(r \o q) = Len(r) + Len(q)
  BY Joined
<1>3. \A i \in 1 .. Len(r) : (r \o p)[i] = r[i] /\ (r \o q)[i] = r[i]
  BY Joined
<1>4. \A i \in 1 .. Len(p) : (r \o p)[Len(r) + i] = p[i]
  BY Joined
<1>5. \A i \in 1 .. Len(q) : (r \o q)[Len(r) + i] = q[i]
  BY Joined
<1>6. ASSUME NEW i \in 1 .. Len(r) + Len(p) PROVE (r \o p)[i] = (r \o q)[i]
  <2>1. CASE i <= Len(r)
    <3>1. i \in 1 .. Len(r)
      BY <1>1, <2>1
    <3>. QED
      BY <1>3, <3>1
  <2>2. CASE i > Len(r)
    <3>1. PICK j \in Int : j = i - Len(r)
      BY <1>1
    <3>2. j \in 1 .. Len(p) /\ j \in 1 .. Len(q) /\ i = Len(r) + j
      BY <1>1, <2>2, <3>1
    <3>3. (r \o p)[Len(r) + j] = p[j] /\ (r \o q)[Len(r) + j] = q[j]
      BY <1>4, <1>5, <3>2
    <3>4. p[j] = q[j]
      BY <3>2 DEF Begins
    <3>. QED
      BY <3>2, <3>3, <3>4
  <2>3. i <= Len(r) \/ i > Len(r)
    BY <1>1
  <2>. QED
    BY <2>1, <2>2, <2>3
<1>. QED
  BY <1>1, <1>2, <1>6 DEF Begins

\* And it is transitive.
LEMMA BeginsBegins == ASSUME NEW p, NEW q, NEW r, Sequence(p), Sequence(q), Sequence(r), Begins(p, q), Begins(q, r)
                      PROVE  Begins(p, r)
<1>1. Len(p) \in Nat /\ Len(q) \in Nat /\ Len(r) \in Nat /\ Len(p) <= Len(q) /\ Len(q) <= Len(r)
  BY DEF Sequence, Begins
<1>2. \A i \in 1 .. Len(p) : i \in 1 .. Len(q)
  BY <1>1
<1>. QED
  BY <1>1, <1>2 DEF Begins

\* Short ones.
LEMMA Short == /\ Sequence(<<>>) /\ Len(<<>>) = 0
               /\ \A a : Sequence(<<a>>) /\ Len(<<a>>) = 1 /\ <<a>>[1] = a
               /\ \A a, b : Sequence(<<a, b>>) /\ Len(<<a, b>>) = 2 /\ <<a, b>>[1] = a /\ <<a, b>>[2] = b
<1>1. Sequence(<<>>) /\ Len(<<>>) = 0
  BY EmptySeq, IsSequence
<1>2. \A a : Sequence(<<a>>) /\ Len(<<a>>) = 1 /\ <<a>>[1] = a
  <2>. TAKE a
  <2>1. <<a>> \in Seq({a})
    OBVIOUS
  <2>. QED
    BY <2>1, IsSequence
<1>3. \A a, b : Sequence(<<a, b>>) /\ Len(<<a, b>>) = 2 /\ <<a, b>>[1] = a /\ <<a, b>>[2] = b
  <2>. TAKE a, b
  <2>1. <<a, b>> \in Seq({a, b})
    OBVIOUS
  <2>. QED
    BY <2>1, IsSequence
<1>. QED
  BY <1>1, <1>2, <1>3

-----------------------------------------------------------------------------
(* An encoded frame. *)

FrameBody(data) == LengthBytes(Len(data)) \o data

\* Its parts are sequences.
LEMMA EncodedIs == ASSUME NEW data, Sequence(data)
                   PROVE  /\ Sequence(FrameBody(data)) /\ Len(FrameBody(data)) = Len(data) + 2
                          /\ FrameBody(data)[1] = LengthBytes(Len(data))[1]
                          /\ FrameBody(data)[2] = LengthBytes(Len(data))[2]
                          /\ \A i \in 1 .. Len(data) : FrameBody(data)[2 + i] = data[i]
                          /\ Sequence(<<HEAD>> \o FrameBody(data))
                          /\ Encoded(data) = (<<HEAD>> \o FrameBody(data)) \o CheckSum(FrameBody(data))
                          /\ Sequence(Encoded(data))
<1>. DEFINE l == LengthBytes(Len(data))
<1>1. Sequence(l) /\ Len(l) = 2
  BY Short DEF LengthBytes
<1>. HIDE DEF l
<1>2. /\ Sequence(l \o data) /\ Len(l \o data) = 2 + Len(data)
      /\ \A i \in 1 .. 2 : (l \o data)[i] = l[i]
      /\ \A i \in 1 .. Len(data) : (l \o data)[2 + i] = data[i]
  <2>1. /\ Sequence(l \o data) /\ Len(l \o data) = Len(l) + Len(data)
        /\ \A i \in 1 .. Len(l) : (l \o data)[i] = l[i]
        /\ \A i \in 1 .. Len(data) : (l \o data)[Len(l) + i] = data[i]
    <3>1. Sequence(l) /\ Sequence(data)
      BY <1>1
    <3>. QED
      BY <3>1, Joined
  <2>. QED
    BY <1>1, <2>1
<1>3. Len(data) \in Nat
  BY DEF Sequence
<1>4. FrameBody(data) = l \o data
  BY DEF FrameBody, l
<1>5. Sequence(<<HEAD>> \o FrameBody(data))
  BY <1>2, <1>4, Joined, Short
<1>6. Encoded(data) = (<<HEAD>> \o FrameBody(data)) \o CheckSum(FrameBody(data))
  BY DEF Encoded, FrameBody
<1>7. Sequence(CheckSum(FrameBody(data)))
  BY Short DEF CheckSum
<1>8. Sequence(Encoded(data))
  BY <1>5, <1>6, <1>7, Joined
<1>9. FrameBody(data)[1] = l[1] /\ FrameBody(data)[2] = l[2]
  BY <1>2, <1>4
<1>a. Len(FrameBody(data)) = Len(data) + 2
  BY <1>2, <1>3, <1>4
<1>. QED
  BY <1>2, <1>4, <1>5, <1>6, <1>8, <1>9, <1>a DEF l

-----------------------------------------------------------------------------
(* The encoder: what it has sent of a frame. *)

EncStates == {"START", "SEND_HEAD", "SEND_LENGTH_L", "SEND_LENGTH_H", "SEND_DATA", "SEND_CRC_L", "SEND_CRC_H"}

IsEnc(e) ==
    e = [at |-> e.at, data |-> e.data, hwCounter |-> e.hwCounter, hwCheckSUM |-> e.hwCheckSUM]

\* The checksum covers what of the body has been sent.
Summed(e) ==
    /\ IsEnc(e) /\ e.at \in EncStates
    /\ e.at # "START" => Sequence(e.data)
    /\ e.at \in {"SEND_HEAD", "SEND_LENGTH_L"} => e.hwCheckSUM = <<>> /\ e.hwCounter = 0
    /\ e.at = "SEND_LENGTH_H" => e.hwCheckSUM = <<LengthBytes(Len(e.data))[1]>> /\ e.hwCounter = 0
    /\ e.at = "SEND_DATA" =>
          /\ e.hwCounter \in 0 .. Len(e.data)
          /\ e.hwCheckSUM = LengthBytes(Len(e.data)) \o SubSeq(e.data, 1, e.hwCounter)
    /\ e.at \in {"SEND_CRC_L", "SEND_CRC_H"} => e.hwCheckSUM = FrameBody(e.data)

Written(e) ==
    IF e.at \in {"START", "SEND_HEAD"} THEN <<>>
    ELSE IF e.at = "SEND_LENGTH_L" THEN <<HEAD>>
    ELSE IF e.at = "SEND_CRC_H" THEN (<<HEAD>> \o e.hwCheckSUM) \o <<<<"L", e.hwCheckSUM>>>>
    ELSE <<HEAD>> \o e.hwCheckSUM

\* What is sent is a sequence, and the beginning of the frame.
LEMMA WrittenBegins == ASSUME NEW e, Summed(e), e.at # "START"
                       PROVE  /\ Sequence(Written(e)) /\ Sequence(e.hwCheckSUM)
                              /\ Begins(Written(e), Encoded(e.data))
<1>. DEFINE n == Len(e.data)
            l == LengthBytes(n)
            body == FrameBody(e.data)
            sum == e.hwCheckSUM
<1>1. Sequence(e.data) /\ n \in Nat
  BY DEF Summed, Sequence
<1>2. /\ Sequence(body) /\ Sequence(<<HEAD>> \o body) /\ Sequence(Encoded(e.data))
      /\ Encoded(e.data) = (<<HEAD>> \o body) \o CheckSum(body)
  BY <1>1, EncodedIs
<1>3. Sequence(l) /\ Len(l) = 2
  BY Short DEF LengthBytes
<1>4. Sequence(CheckSum(body)) /\ Sequence(<<HEAD>>)
  BY Short DEF CheckSum
<1>5. Begins(<<HEAD>> \o body, Encoded(e.data))
  BY <1>2, <1>4, BeginsJoined
<1>6. CASE e.at \in {"SEND_HEAD"}
  <2>1. Written(e) = <<>> /\ sum = <<>>
    BY <1>6 DEF Written, Summed
  <2>2. Begins(<<>>, <<>> \o Encoded(e.data))
    BY <1>2, Short, BeginsJoined
  <2>. QED
    BY <1>2, <2>1, <2>2, Short, JoinedToNothing
<1>7. CASE e.at = "SEND_LENGTH_L"
  <2>1. Written(e) = <<HEAD>> /\ sum = <<>>
    BY <1>7 DEF Written, Summed
  <2>2. Begins(<<HEAD>>, <<HEAD>> \o body)
    BY <1>2, <1>4, BeginsJoined
  <2>3. Begins(<<HEAD>>, Encoded(e.data))
    BY <1>2, <1>4, <1>5, <2>2, BeginsBegins
  <2>. QED
    BY <1>4, <2>1, <2>3, Short
<1>8. CASE e.at \in {"SEND_LENGTH_H", "SEND_DATA", "SEND_CRC_L", "SEND_CRC_H"}
  <2>1. Sequence(sum) /\ Begins(sum, body)
    <3>1. CASE e.at = "SEND_LENGTH_H"
      <4>1. sum = <<l[1]>>
        BY <3>1 DEF Summed
      <4>2. Len(body) \in Nat /\ Len(body) = n + 2 /\ body[1] = l[1]
        <5>1. Len(body) = n + 2
          BY <1>1, EncodedIs
        <5>2. body[1] = l[1]
          BY <1>1, EncodedIs
        <5>. QED
          BY <1>1, <5>1, <5>2
      <4>3. Sequence(sum) /\ Len(sum) = 1 /\ sum[1] = l[1]
        BY <4>1, Short
      <4>. HIDE DEF sum, body, l
      <4>4. 1 <= Len(body) /\ \A i \in 1 .. 1 : i = 1
        BY <1>1, <4>2
      <4>. QED
        BY <4>2, <4>3, <4>4 DEF Begins
    <3>2. CASE e.at = "SEND_DATA"
      <4>. DEFINE part == SubSeq(e.data, 1, e.hwCounter)
                  rest == SubSeq(e.data, e.hwCounter + 1, e.hwCounter + (n - e.hwCounter))
      <4>1. e.hwCounter \in 0 .. n /\ sum = l \o part
        BY <3>2 DEF Summed
      <4>2. e.hwCounter \in Nat /\ n - e.hwCounter \in Nat /\ e.hwCounter + (n - e.hwCounter) = n
        BY <1>1, <4>1
      <4>3. part \o rest = e.data
        <5>1. part \o rest = SubSeq(e.data, 1, e.hwCounter + (n - e.hwCounter))
          BY <4>2, PartsMeet
        <5>2. SubSeq(e.data, 1, n) = e.data
          BY <1>1, PartWhole
        <5>. QED
          BY <4>2, <5>1, <5>2
      <4>4. Sequence(part) /\ Sequence(rest)
        <5>1. e.hwCounter + 1 \in Nat /\ e.hwCounter + (n - e.hwCounter) \in Int /\ e.hwCounter \in Int
          BY <4>2
        <5>. QED
          BY <5>1, Part
      <4>5. body = l \o (part \o rest)
        BY <4>3 DEF FrameBody
      <4>. HIDE DEF part, rest, l, body, sum
      <4>6. Begins(part, part \o rest)
        BY <4>4, BeginsJoined
      <4>7. Begins(l \o part, l \o (part \o rest)) /\ Sequence(l \o part)
        BY <1>3, <4>4, <4>6, BeginsBehind, Joined
      <4>. QED
        BY <4>1, <4>5, <4>7
    <3>3. CASE e.at \in {"SEND_CRC_L", "SEND_CRC_H"}
      <4>1. sum = body
        BY <3>3 DEF Summed
      <4>2. \A i \in 1 .. Len(body) : body[i] = body[i]
        OBVIOUS
      <4>3. Len(body) <= Len(body)
        BY <1>2 DEF Sequence
      <4>. QED
        BY <1>2, <4>1, <4>3 DEF Begins
    <3>. QED
      BY <1>8, <3>1, <3>2, <3>3
  <2>2. Sequence(<<HEAD>> \o sum) /\ Begins(<<HEAD>> \o sum, <<HEAD>> \o body)
    BY <1>2, <1>4, <2>1, Joined, BeginsBehind
  <2>3. Begins(<<HEAD>> \o sum, Encoded(e.data))
    BY <1>2, <1>5, <2>2, BeginsBegins
  <2>4. CASE e.at # "SEND_CRC_H"
    <3>1. Written(e) = <<HEAD>> \o sum
      BY <1>8, <2>4 DEF Written
    <3>. QED
      BY <2>1, <2>2, <2>3, <3>1
  <2>5. CASE e.at = "SEND_CRC_H"
    <3>1. sum = body /\ Written(e) = (<<HEAD>> \o body) \o <<<<"L", body>>>>
      BY <2>5 DEF Written, Summed
    <3>2. Begins(<<<<"L", body>>>>, CheckSum(body)) /\ Sequence(<<<<"L", body>>>>)
      <4>1. CheckSum(body) = <<<<"L", body>>, <<"H", body>>>>
        BY DEF CheckSum
      <4>2. /\ Sequence(<<<<"L", body>>>>) /\ Len(<<<<"L", body>>>>) = 1
            /\ <<<<"L", body>>>>[1] = <<"L", body>>
        BY Short
      <4>3. Len(CheckSum(body)) = 2 /\ CheckSum(body)[1] = <<"L", body>>
        BY <4>1, Short
      <4>4. \A i \in 1 .. 1 : i = 1
        OBVIOUS
      <4>. QED
        BY <4>2, <4>3, <4>4 DEF Begins
    <3>3. /\ Begins((<<HEAD>> \o body) \o <<<<"L", body>>>>, (<<HEAD>> \o body) \o CheckSum(body))
          /\ Sequence((<<HEAD>> \o body) \o <<<<"L", body>>>>)
      BY <1>2, <1>4, <3>2, BeginsBehind, Joined
    <3>. QED
      BY <1>2, <2>1, <3>1, <3>3
  <2>. QED
    BY <2>4, <2>5
<1>. QED
  BY <1>6, <1>7, <1>8 DEF Summed, EncStates

\* Two bytes, one after the other.
LEMMA Pair == ASSUME NEW a, NEW b PROVE <<a>> \o <<b>> = <<a, b>>
<1>1. PICK p, q, t : p = <<a>> /\ q = <<b>> /\ t = <<a, b>>
  OBVIOUS
<1>2. /\ Sequence(p) /\ Len(p) = 1 /\ p[1] = a /\ Sequence(q) /\ Len(q) = 1 /\ q[1] = b
      /\ Sequence(t) /\ Len(t) = 2 /\ t[1] = a /\ t[2] = b
  BY <1>1, Short
<1>3. /\ Sequence(p \o q) /\ Len(p \o q) = 2 /\ (p \o q)[1] = a
      /\ \A i \in 1 .. 1 : (p \o q)[1 + i] = b
  BY <1>2, Joined
<1>4. (p \o q)[1 + 1] = b /\ 1 + 1 = 2
  BY <1>3
<1>5. \A i \in 1 .. 2 : (p \o q)[i] = t[i]
  BY <1>2, <1>3, <1>4
<1>6. p \o q = t
  BY <1>2, <1>3, <1>5, Equal
<1>. QED
  BY <1>1, <1>6

\* A state that writes one byte.
LEMMA HeaderWrites ==
  ASSUME Summed(enc), SendHeader
  PROVE  /\ Summed(enc') /\ enc.at # "START" /\ enc'.at # "START" /\ enc'.data = enc.data /\ begun' = begun
         /\ \E b : tx' = Append(tx, b) /\ Written(enc') = Written(enc) \o <<b>>
<1>. DEFINE n == Len(enc.data)
            l == LengthBytes(n)
            sum == enc.hwCheckSUM
<1>0. IsEnc(enc)
  BY DEF Summed
<1>1. CASE Writes("SEND_HEAD", HEAD, "SEND_LENGTH_L", sum)
  <2>1. enc.at = "SEND_HEAD" /\ tx' = Append(tx, HEAD) /\ begun' = begun
    BY <1>1 DEF Writes
  <2>2. /\ IsEnc(enc') /\ enc'.at = "SEND_LENGTH_L" /\ enc'.data = enc.data
        /\ enc'.hwCounter = enc.hwCounter /\ enc'.hwCheckSUM = sum
    BY <1>0, <1>1 DEF Writes, IsEnc
  <2>3. Summed(enc')
    BY <2>1, <2>2 DEF Summed, EncStates
  <2>4. Written(enc) = <<>> /\ Written(enc') = <<HEAD>>
    BY <2>1, <2>2 DEF Written
  <2>5. <<>> \o <<HEAD>> = <<HEAD>>
    BY Short, JoinedToNothing
  <2>. QED
    BY <2>1, <2>2, <2>3, <2>4, <2>5
<1>2. CASE Writes("SEND_LENGTH_L", l[1], "SEND_LENGTH_H", Append(sum, l[1]))
  <2>1. enc.at = "SEND_LENGTH_L" /\ tx' = Append(tx, l[1]) /\ begun' = begun
    BY <1>2 DEF Writes
  <2>2. /\ IsEnc(enc') /\ enc'.at = "SEND_LENGTH_H" /\ enc'.data = enc.data
        /\ enc'.hwCounter = enc.hwCounter /\ enc'.hwCheckSUM = Append(sum, l[1])
    BY <1>0, <1>2 DEF Writes, IsEnc
  <2>3. sum = <<>> /\ enc.hwCounter = 0 /\ Sequence(enc.data)
    BY <2>1 DEF Summed
  <2>4. Append(sum, l[1]) = <<l[1]>>
    BY <2>3, Short, Appended, JoinedToNothing
  <2>5. Summed(enc')
    BY <2>2, <2>3, <2>4 DEF Summed, EncStates
  <2>6. Written(enc) = <<HEAD>> /\ Written(enc') = <<HEAD>> \o <<l[1]>>
    BY <2>1, <2>2, <2>4 DEF Written
  <2>. QED
    BY <2>1, <2>2, <2>5, <2>6
<1>3. CASE Writes("SEND_LENGTH_H", l[2], "SEND_DATA", Append(sum, l[2]))
  <2>1. enc.at = "SEND_LENGTH_H" /\ tx' = Append(tx, l[2]) /\ begun' = begun
    BY <1>3 DEF Writes
  <2>2. /\ IsEnc(enc') /\ enc'.at = "SEND_DATA" /\ enc'.data = enc.data
        /\ enc'.hwCounter = enc.hwCounter /\ enc'.hwCheckSUM = Append(sum, l[2])
    BY <1>0, <1>3 DEF Writes, IsEnc
  <2>3. sum = <<l[1]>> /\ enc.hwCounter = 0 /\ Sequence(enc.data) /\ n \in Nat
    BY <2>1 DEF Summed, Sequence
  <2>4. Append(sum, l[2]) = sum \o <<l[2]>> /\ Sequence(sum)
    <3>1. Sequence(sum)
      BY <2>3, Short
    <3>2. PICK p, e : p = sum /\ e = l[2]
      OBVIOUS
    <3>3. Sequence(p)
      BY <3>1, <3>2
    <3>4. Append(p, e) = p \o <<e>>
      BY <3>3, Appended, Zenon
    <3>. QED
      BY <3>1, <3>2, <3>4
  <2>5. sum \o <<l[2]>> = l
    <3>1. l = <<l[1], l[2]>>
      BY DEF LengthBytes
    <3>2. PICK a, b : a = l[1] /\ b = l[2]
      OBVIOUS
    <3>3. <<a>> \o <<b>> = <<a, b>>
      BY Pair
    <3>. HIDE DEF l
    <3>. QED
      BY <2>3, <3>1, <3>2, <3>3
  <2>6. SubSeq(enc.data, 1, 0) = <<>>
    BY SubSeqEmpty
  <2>7. l \o <<>> = l
    BY Short, JoinedToNothing DEF LengthBytes
  <2>8. Summed(enc')
    <3>1. enc'.hwCheckSUM = l \o SubSeq(enc.data, 1, enc'.hwCounter) /\ enc'.hwCounter \in 0 .. n
      BY <2>2, <2>3, <2>4, <2>5, <2>6, <2>7
    <3>. QED
      BY <2>2, <2>3, <3>1 DEF Summed, EncStates
  <2>9. Written(enc) = <<HEAD>> \o sum /\ Written(enc') = <<HEAD>> \o (sum \o <<l[2]>>)
    BY <2>1, <2>2, <2>4 DEF Written
  <2>a. Written(enc') = Written(enc) \o <<l[2]>>
    <3>1. Sequence(<<HEAD>>) /\ Sequence(<<l[2]>>)
      BY Short
    <3>2. PICK p, q, t : p = <<HEAD>> /\ q = sum /\ t = <<l[2]>>
      OBVIOUS
    <3>3. Sequence(p) /\ Sequence(q) /\ Sequence(t)
      BY <2>4, <3>1, <3>2
    <3>4. (p \o q) \o t = p \o (q \o t)
      BY <3>3, JoinedTwice, SMTT(60)
    <3>. QED
      BY <2>9, <3>2, <3>4
  <2>. QED
    BY <2>1, <2>2, <2>8, <2>a
<1>4. CASE Writes("SEND_CRC_L", <<"L", sum>>, "SEND_CRC_H", sum)
  <2>1. enc.at = "SEND_CRC_L" /\ tx' = Append(tx, <<"L", sum>>) /\ begun' = begun
    BY <1>4 DEF Writes
  <2>2. /\ IsEnc(enc') /\ enc'.at = "SEND_CRC_H" /\ enc'.data = enc.data
        /\ enc'.hwCounter = enc.hwCounter /\ enc'.hwCheckSUM = sum
    BY <1>0, <1>4 DEF Writes, IsEnc
  <2>3. Summed(enc')
    BY <2>1, <2>2 DEF Summed, EncStates
  <2>4. Written(enc') = Written(enc) \o <<<<"L", sum>>>>
    BY <2>1, <2>2 DEF Written
  <2>. QED
    BY <2>1, <2>2, <2>3, <2>4
<1>. QED
  BY <1>1, <1>2, <1>3, <1>4 DEF SendHeader

\* The data, in parts of any size.
LEMMA DataWrites ==
  ASSUME Summed(enc), SendData
  PROVE  /\ Summed(enc') /\ enc.at # "START" /\ enc'.at # "START" /\ enc'.data = enc.data /\ begun' = begun
         /\ \E bs : Sequence(bs) /\ tx' = tx \o bs /\ Written(enc') = Written(enc) \o bs
<1>. DEFINE c == enc.hwCounter
            l == LengthBytes(Len(enc.data))
            sum == enc.hwCheckSUM
<1>1. PICK n \in 1 .. Len(enc.data) - c :
        LET bytes == SubSeq(enc.data, c + 1, c + n)
        IN /\ tx' = tx \o bytes
           /\ enc' = [enc EXCEPT !.hwCheckSUM = @ \o bytes, !.hwCounter = @ + n,
                                 !.at = IF c + n >= Len(enc.data) THEN "SEND_CRC_L" ELSE @]
  BY DEF SendData
<1>. DEFINE bytes == SubSeq(enc.data, c + 1, c + n)
<1>2. /\ enc.at = "SEND_DATA" /\ IsEnc(enc) /\ Sequence(enc.data) /\ Len(enc.data) \in Nat
      /\ c \in 0 .. Len(enc.data) /\ sum = l \o SubSeq(enc.data, 1, c) /\ begun' = begun
  BY DEF SendData, Summed, Sequence
<1>3. c \in Nat /\ n \in Nat /\ c + n \in 0 .. Len(enc.data) /\ c + 1 \in Nat /\ c + n \in Int
  <2>1. c \in Nat /\ n \in Nat
    BY <1>2
  <2>2. c + n <= Len(enc.data)
    BY <1>2, <2>1
  <2>. QED
    BY <1>2, <2>1, <2>2
<1>4. /\ Sequence(bytes) /\ Sequence(SubSeq(enc.data, 1, c))
      /\ SubSeq(enc.data, 1, c) \o bytes = SubSeq(enc.data, 1, c + n)
  <2>1. PICK d, k, m, j : d = enc.data /\ k = c /\ m = c + 1 /\ j = c + n
    OBVIOUS
  <2>2. k \in Nat /\ m \in Nat /\ j \in Int /\ k \in Int
    BY <1>3, <2>1
  <2>3. Sequence(SubSeq(d, m, j))
    BY <2>2, Part
  <2>4. Sequence(SubSeq(d, 1, k))
    BY <2>2, Part
  <2>5. SubSeq(d, 1, k) \o SubSeq(d, k + 1, k + n) = SubSeq(d, 1, k + n)
    BY <1>3, <2>2, PartsMeet
  <2>. QED
    BY <2>1, <2>3, <2>4, <2>5
<1>5. Sequence(l)
  BY Short DEF LengthBytes
<1>6. /\ IsEnc(enc') /\ enc'.data = enc.data /\ enc'.hwCounter = c + n /\ enc'.hwCheckSUM = sum \o bytes
      /\ enc'.at = IF c + n >= Len(enc.data) THEN "SEND_CRC_L" ELSE "SEND_DATA"
  BY <1>1, <1>2 DEF IsEnc
<1>. HIDE DEF bytes, l
<1>7. sum \o bytes = l \o SubSeq(enc.data, 1, c + n) /\ Sequence(sum)
  <2>1. PICK p : p = SubSeq(enc.data, 1, c)
    OBVIOUS
  <2>a. sum = l \o p
    BY <1>2, <2>1
  <2>b. Sequence(p) /\ p \o bytes = SubSeq(enc.data, 1, c + n)
    BY <1>4, <2>1
  <2>2. Sequence(p) /\ sum = l \o p /\ p \o bytes = SubSeq(enc.data, 1, c + n)
    BY <2>a, <2>b
  <2>c. Sequence(l) /\ Sequence(p) /\ Sequence(bytes)
    BY <1>4, <1>5, <2>b
  <2>3. (l \o p) \o bytes = l \o (p \o bytes)
    BY <2>c, JoinedTwice, SMTT(60)
  <2>4. Sequence(l \o p)
    BY <1>5, <2>2, Joined
  <2>. QED
    BY <2>2, <2>3, <2>4
<1>8. ASSUME c + n >= Len(enc.data) PROVE Summed(enc')
  <2>1. c + n = Len(enc.data)
    BY <1>2, <1>3, <1>8
  <2>2. SubSeq(enc.data, 1, c + n) = enc.data
    BY <1>2, <2>1, PartWhole
  <2>3. enc'.hwCheckSUM = FrameBody(enc'.data)
    BY <1>6, <1>7, <2>2 DEF FrameBody, l
  <2>4. enc'.at = "SEND_CRC_L"
    BY <1>6, <1>8
  <2>. QED
    <3>1. IsEnc(enc') /\ Sequence(enc'.data)
      BY <1>2, <1>6
    <3>. QED
      BY <2>3, <2>4, <3>1 DEF Summed, EncStates
<1>9. ASSUME ~(c + n >= Len(enc.data)) PROVE Summed(enc')
  <2>1. enc'.at = "SEND_DATA"
    BY <1>6, <1>9
  <2>2. enc'.hwCheckSUM = LengthBytes(Len(enc'.data)) \o SubSeq(enc'.data, 1, enc'.hwCounter)
    BY <1>6, <1>7 DEF l
  <2>3. enc'.hwCounter \in 0 .. Len(enc'.data)
    BY <1>3, <1>6
  <2>. QED
    <3>1. IsEnc(enc') /\ Sequence(enc'.data)
      BY <1>2, <1>6
    <3>. QED
      BY <2>1, <2>2, <2>3, <3>1 DEF Summed, EncStates
<1>a. Summed(enc') /\ enc'.at \in {"SEND_DATA", "SEND_CRC_L"}
  BY <1>6, <1>8, <1>9
<1>b. Written(enc) = <<HEAD>> \o sum /\ Written(enc') = <<HEAD>> \o (sum \o bytes)
  BY <1>2, <1>6, <1>a DEF Written
<1>c. Written(enc') = Written(enc) \o bytes
  <2>1. Sequence(<<HEAD>>)
    BY Short
  <2>2. PICK p, q : p = <<HEAD>> /\ q = sum
    OBVIOUS
  <2>3. Sequence(p) /\ Sequence(q)
    BY <1>7, <2>1, <2>2
  <2>4. (p \o q) \o bytes = p \o (q \o bytes)
    BY <1>4, <2>3, JoinedTwice, SMTT(60)
  <2>. QED
    BY <1>b, <2>2, <2>4
<1>d. tx' = tx \o bytes
  BY <1>1 DEF bytes
<1>. QED
  BY <1>2, <1>4, <1>6, <1>a, <1>c, <1>d

\* The last byte makes the frame whole.
LEMMA LastWrites ==
  ASSUME Summed(enc), SendCRCH
  PROVE  /\ Summed(enc') /\ enc.at # "START" /\ enc'.at = "START" /\ begun' = begun
         /\ \E b : tx' = Append(tx, b) /\ Encoded(enc.data) = Written(enc) \o <<b>>
<1>. DEFINE sum == enc.hwCheckSUM
<1>1. enc.at = "SEND_CRC_H" /\ tx' = Append(tx, <<"H", sum>>) /\ begun' = begun /\ IsEnc(enc)
  BY DEF SendCRCH, Writes, Summed
<1>2. IsEnc(enc') /\ enc'.at = "START"
  BY <1>1 DEF SendCRCH, Writes, IsEnc
<1>3. Summed(enc')
  BY <1>2 DEF Summed, EncStates
<1>4. sum = FrameBody(enc.data) /\ Sequence(enc.data)
  BY <1>1 DEF Summed
<1>5. /\ Sequence(<<HEAD>> \o sum)
      /\ Encoded(enc.data) = (<<HEAD>> \o sum) \o <<<<"L", sum>>, <<"H", sum>>>>
  BY <1>4, EncodedIs DEF CheckSum
<1>6. <<<<"L", sum>>, <<"H", sum>>>> = <<<<"L", sum>>>> \o <<<<"H", sum>>>>
  OBVIOUS
<1>7. Written(enc) = (<<HEAD>> \o sum) \o <<<<"L", sum>>>>
  BY <1>1 DEF Written
<1>. HIDE DEF sum
<1>8. Encoded(enc.data) = Written(enc) \o <<<<"H", sum>>>>
  <2>1. Sequence(<<<<"L", sum>>>>) /\ Sequence(<<<<"H", sum>>>>)
    BY Short
  <2>2. PICK p, q, t : p = <<HEAD>> \o sum /\ q = <<<<"L", sum>>>> /\ t = <<<<"H", sum>>>>
    OBVIOUS
  <2>3. Sequence(p) /\ Sequence(q) /\ Sequence(t)
    BY <1>5, <2>1, <2>2
  <2>4. (p \o q) \o t = p \o (q \o t)
    BY <2>3, JoinedTwice, SMTT(60)
  <2>. QED
    BY <1>5, <1>6, <1>7, <2>2, <2>4
<1>. QED
  BY <1>1, <1>2, <1>3, <1>8

-----------------------------------------------------------------------------
(* What one of the two has sent of all that was sent. *)

\* The same, with what it says about one place.
Carried(by, frames, part, which) ==
    \E f \in [which -> DOMAIN frames] :
        /\ \A i \in which : frames[f[i]].by = by /\ frames[f[i]].data = part[i]
        /\ \A i, j \in which : i < j => f[i] < f[j]
        /\ \A k \in DOMAIN frames : frames[k].by = by => \E i \in which : f[i] = k

\* The two say the same.
LEMMA AllOfIsCarried == ASSUME NEW by, NEW frames, NEW part, NEW which
                        PROVE  AllOf(by, frames, part, which) <=> Carried(by, frames, part, which)
<1>. DEFINE places == {k \in DOMAIN frames : frames[k].by = by}
            data == [k \in DOMAIN frames |-> frames[k].data]
<1>1. ASSUME AllOf(by, frames, part, which) PROVE Carried(by, frames, part, which)
  <2>1. PICK f \in [which -> places] : Ascending(f, part, data) /\ \A k \in places : \E i \in which : f[i] = k
    BY <1>1 DEF AllOf
  <2>2. f \in [which -> DOMAIN frames]
    OBVIOUS
  <2>3. DOMAIN f = which
    OBVIOUS
  <2>4. \A i \in which : f[i] \in places /\ part[i] = data[f[i]]
    BY <2>1, <2>3 DEF Ascending
  <2>5. \A i \in which : frames[f[i]].by = by /\ frames[f[i]].data = part[i]
    BY <2>4
  <2>6. \A i, j \in which : i < j => f[i] < f[j]
    BY <2>1, <2>3 DEF Ascending
  <2>7. \A k \in DOMAIN frames : frames[k].by = by => \E i \in which : f[i] = k
    BY <2>1
  <2>. QED
    BY <2>2, <2>5, <2>6, <2>7 DEF Carried
<1>2. ASSUME Carried(by, frames, part, which) PROVE AllOf(by, frames, part, which)
  <2>1. PICK f \in [which -> DOMAIN frames] :
            /\ \A i \in which : frames[f[i]].by = by /\ frames[f[i]].data = part[i]
            /\ \A i, j \in which : i < j => f[i] < f[j]
            /\ \A k \in DOMAIN frames : frames[k].by = by => \E i \in which : f[i] = k
    BY <1>2 DEF Carried
  <2>2. DOMAIN f = which
    OBVIOUS
  <2>3. \A i \in which : f[i] \in places /\ part[i] = data[f[i]]
    BY <2>1
  <2>4. f \in [which -> places]
    BY <2>3
  <2>5. Ascending(f, part, data)
    BY <2>1, <2>2, <2>3 DEF Ascending
  <2>6. \A k \in places : \E i \in which : f[i] = k
    BY <2>1
  <2>. QED
    BY <2>4, <2>5, <2>6 DEF AllOf
<1>. QED
  BY <1>1, <1>2

\* Nothing has been sent.
LEMMA CarriedNone == ASSUME NEW by, NEW part PROVE AllOf(by, <<>>, part, {})
<1>1. DOMAIN <<>> = {}
  OBVIOUS
<1>. DEFINE f == [i \in {} |-> 0]
<1>3. f \in [{} -> DOMAIN <<>>]
  OBVIOUS
<1>4. \A k \in DOMAIN <<>> : <<>>[k].by = by => \E i \in {} : f[i] = k
  BY <1>1
<1>. HIDE DEF f
<1>5. \A i \in {} : <<>>[f[i]].by = by /\ <<>>[f[i]].data = part[i]
  OBVIOUS
<1>6. \A i, j \in {} : i < j => f[i] < f[j]
  OBVIOUS
<1>2. Carried(by, <<>>, part, {})
  BY <1>3, <1>4, <1>5, <1>6 DEF Carried
<1>. QED
  BY <1>2, AllOfIsCarried

\* Only what is at the indices matters.
LEMMA CarriedSame == ASSUME NEW by, NEW frames, NEW part, NEW more, NEW which,
                            AllOf(by, frames, part, which), \A i \in which : more[i] = part[i]
                     PROVE  AllOf(by, frames, more, which)
<1>1. Carried(by, frames, part, which)
  BY AllOfIsCarried
<1>2. Carried(by, frames, more, which)
  BY <1>1 DEF Carried
<1>. QED
  BY <1>2, AllOfIsCarried

\* A frame of the other changes nothing.
LEMMA CarriedOther == ASSUME NEW by, NEW frames, NEW more, NEW part, NEW which,
                             Sequence(frames), Sequence(more), Len(more) = Len(frames) + 1,
                             \A k \in 1 .. Len(frames) : more[k] = frames[k],
                             more[Len(frames) + 1].by # by, AllOf(by, frames, part, which)
                      PROVE  AllOf(by, more, part, which)
<1>. DEFINE n == Len(frames)
<1>1. n \in Nat /\ DOMAIN frames = 1 .. n /\ DOMAIN more = 1 .. n + 1
  BY DEF Sequence
<1>2. Carried(by, frames, part, which)
  BY AllOfIsCarried
<1>3. PICK f \in [which -> 1 .. n] :
          /\ \A i \in which : frames[f[i]].by = by /\ frames[f[i]].data = part[i]
          /\ \A i, j \in which : i < j => f[i] < f[j]
          /\ \A k \in 1 .. n : frames[k].by = by => \E i \in which : f[i] = k
  BY <1>1, <1>2 DEF Carried
<1>. HIDE DEF n
<1>4. f \in [which -> 1 .. n + 1]
  BY <1>1
<1>5. \A k \in 1 .. n : more[k] = frames[k]
  BY DEF n
<1>6. \A i \in which : more[f[i]].by = by /\ more[f[i]].data = part[i]
  BY <1>3, <1>5
<1>7. \A k \in 1 .. n + 1 : k \in 1 .. n \/ k = n + 1
  BY <1>1
<1>8. more[n + 1].by # by
  BY DEF n
<1>9. \A k \in 1 .. n + 1 : more[k].by = by => \E i \in which : f[i] = k
  BY <1>3, <1>5, <1>7, <1>8
<1>a. Carried(by, more, part, which)
  BY <1>1, <1>3, <1>4, <1>6, <1>9 DEF Carried
<1>. QED
  BY <1>a, AllOfIsCarried

\* A frame of its own is what is at an index behind the others.
LEMMA CarriedMore == ASSUME NEW by, NEW frames, NEW more, NEW part, NEW which, NEW new \in Nat,
                            Sequence(frames), Sequence(more), Len(more) = Len(frames) + 1,
                            \A k \in 1 .. Len(frames) : more[k] = frames[k],
                            more[Len(frames) + 1].by = by, more[Len(frames) + 1].data = part[new],
                            AllOf(by, frames, part, which), \A i \in which : i \in Nat /\ i < new
                     PROVE  AllOf(by, more, part, which \cup {new})
<1>. DEFINE n == Len(frames)
            all == which \cup {new}
<1>1. n \in Nat /\ DOMAIN frames = 1 .. n /\ DOMAIN more = 1 .. n + 1
  BY DEF Sequence
<1>2. Carried(by, frames, part, which)
  BY AllOfIsCarried
<1>3. PICK f \in [which -> 1 .. n] :
          /\ \A i \in which : frames[f[i]].by = by /\ frames[f[i]].data = part[i]
          /\ \A i, j \in which : i < j => f[i] < f[j]
          /\ \A k \in 1 .. n : frames[k].by = by => \E i \in which : f[i] = k
  <2>1. PICK f \in [which -> DOMAIN frames] :
            /\ \A i \in which : frames[f[i]].by = by /\ frames[f[i]].data = part[i]
            /\ \A i, j \in which : i < j => f[i] < f[j]
            /\ \A k \in DOMAIN frames : frames[k].by = by => \E i \in which : f[i] = k
    BY <1>2 DEF Carried
  <2>. HIDE DEF n
  <2>2. DOMAIN frames = 1 .. n
    BY <1>1
  <2>3. f \in [which -> 1 .. n]
    BY <2>1, <2>2
  <2>4. \A k \in 1 .. n : frames[k].by = by => \E i \in which : f[i] = k
    BY <2>1, <2>2
  <2>5. \A i \in which : frames[f[i]].by = by /\ frames[f[i]].data = part[i]
    BY <2>1
  <2>6. \A i, j \in which : i < j => f[i] < f[j]
    BY <2>1
  <2>. QED
    BY <2>3, <2>4, <2>5, <2>6
<1>4. /\ \A k \in 1 .. n : more[k] = frames[k]
      /\ more[n + 1].by = by /\ more[n + 1].data = part[new]
  OBVIOUS
<1>. DEFINE g == [i \in all |-> IF i = new THEN n + 1 ELSE f[i]]
<1>. HIDE DEF n
<1>5. new \notin which /\ \A i \in all : i = new \/ i \in which
  OBVIOUS
<1>6. g[new] = n + 1 /\ \A i \in which : g[i] = f[i] /\ f[i] \in 1 .. n
  BY <1>5
<1>7. g \in [all -> 1 .. n + 1]
  BY <1>1, <1>5, <1>6
<1>. HIDE DEF g
<1>8. \A i \in all : more[g[i]].by = by /\ more[g[i]].data = part[i]
  <2>1. \A i \in which : more[g[i]].by = by /\ more[g[i]].data = part[i]
    BY <1>3, <1>4, <1>6
  <2>. QED
    BY <1>4, <1>5, <1>6, <2>1
<1>9. \A i, j \in all : i < j => g[i] < g[j]
  <2>. SUFFICES ASSUME NEW i \in all, NEW j \in all, i < j PROVE g[i] < g[j]
    OBVIOUS
  <2>1. CASE j = new
    <3>1. i \in which
      BY <1>5, <2>1
    <3>. QED
      BY <1>1, <1>6, <2>1, <3>1
  <2>2. CASE j # new
    <3>1. j \in which
      BY <1>5, <2>2
    <3>2. i # new
      BY <3>1
    <3>3. i \in which
      BY <1>5, <3>2
    <3>. QED
      BY <1>3, <1>6, <3>1, <3>3
  <2>. QED
    BY <2>1, <2>2
<1>a. \A k \in 1 .. n + 1 : k \in 1 .. n \/ k = n + 1
  BY <1>1
<1>b. \A k \in 1 .. n + 1 : more[k].by = by => \E i \in all : g[i] = k
  <2>1. \A k \in 1 .. n : more[k].by = by => \E i \in all : g[i] = k
    BY <1>3, <1>4, <1>6
  <2>. QED
    BY <1>6, <1>a, <2>1
<1>c. Carried(by, more, part, all)
  BY <1>1, <1>7, <1>8, <1>9, <1>b DEF Carried
<1>. QED
  BY <1>c, AllOfIsCarried

-----------------------------------------------------------------------------
(* The invariant of the sending side. *)

IsDec(d) ==
    d = [at |-> d.at, hwLength |-> d.hwLength, hwCounter |-> d.hwCounter, hwCheckSUM |-> d.hwCheckSUM,
         bUnsupportFrame |-> d.bUnsupportFrame, buffer |-> d.buffer]

\* Who encodes holds the lock, and nobody else does.
Locked ==
    /\ task \in {"START", "DECODING", "TRY_TO_LOCK", "REPLY"}
    /\ user \in {"none", "START", "TRY_TO_LOCK", "ENCODING"}
    /\ tMutex <=> task = "REPLY" \/ user = "ENCODING"
    /\ task = "REPLY" => user # "ENCODING"
    /\ enc.at # "START" => task = "REPLY" \/ user = "ENCODING"

\* The reply in hand is the last one, and still in the buffer.
InHand ==
    /\ IsDec(dec) /\ Sequence(answers)
    /\ task \in {"TRY_TO_LOCK", "REPLY"} =>
          /\ Len(answers) > 0 /\ answers[Len(answers)] # <<>>
          /\ answers[Len(answers)] = SubSeq(dec.buffer, 1, dec.hwLength)
          /\ dec.hwLength \in Nat

\* The user's frames that are left are the last ones.
Waiting ==
    /\ Sequence(toSend) /\ Len(toSend) <= Len(UserFrames)
    /\ \A i \in 1 .. Len(toSend) : toSend[i] = UserFrames[Len(UserFrames) - Len(toSend) + i]
    /\ user = "none" <=> Len(toSend) = 0

\* The frame that is being sent is the last one begun.
Sending ==
    /\ Sequence(begun) /\ \A k \in 1 .. Len(begun) : Sequence(begun[k].data)
    /\ enc.at # "START" =>
          /\ Len(begun) > 0 /\ begun[Len(begun)].data = enc.data
          /\ begun[Len(begun)].by = IF task = "REPLY" THEN "task" ELSE "user"
          /\ enc.data = IF task = "REPLY" THEN answers[Len(answers)] ELSE toSend[1]

AllEncoded(frames) == [k \in DOMAIN frames |-> Encoded(frames[k].data)]

OnWire ==
    /\ tx = FlattenSeq(AllEncoded(Ended)) \o Written(enc)
    /\ AllOf("user", Ended, UserFrames, 1 .. Sent)
    /\ AllOf("task", Ended, answers, Replied)

Inv == Locked /\ InHand /\ Waiting /\ Sending /\ Summed(enc) /\ OnWire

\* All frames, encoded.
LEMMA EncodedFrames == ASSUME NEW frames, Sequence(frames),
                              \A k \in 1 .. Len(frames) : Sequence(frames[k].data)
                       PROVE  /\ Sequence(AllEncoded(frames)) /\ Len(AllEncoded(frames)) = Len(frames)
                              /\ \A k \in 1 .. Len(frames) : AllEncoded(frames)[k] = Encoded(frames[k].data)
                              /\ Sequence(FlattenSeq(AllEncoded(frames)))
<1>. DEFINE n == Len(frames)
            all == AllEncoded(frames)
<1>1. n \in Nat /\ DOMAIN frames = 1 .. n
  BY DEF Sequence
<1>2. \A k \in 1 .. n : Sequence(Encoded(frames[k].data))
  BY EncodedIs
<1>3. all = [k \in 1 .. n |-> Encoded(frames[k].data)]
  BY <1>1 DEF AllEncoded
<1>. HIDE DEF all, n
<1>4. DOMAIN all = 1 .. n /\ \A k \in 1 .. n : all[k] = Encoded(frames[k].data)
  BY <1>3
<1>5. all \in Seq({Encoded(frames[k].data) : k \in 1 .. n})
  <2>1. all \in [1 .. n -> {Encoded(frames[k].data) : k \in 1 .. n}]
    BY <1>3
  <2>. QED
    BY <1>1, <2>1, SeqDef
<1>6. Sequence(all) /\ Len(all) = n
  BY <1>1, <1>4, <1>5, LenProperties, IsSequence
<1>7. \A k \in 1 .. Len(all) : Sequence(all[k])
  BY <1>2, <1>4, <1>6
<1>8. Sequence(FlattenSeq(all))
  BY <1>6, <1>7, FlattenSequences
<1>. QED
  BY <1>4, <1>6, <1>8 DEF all, n

\* A frame more, encoded.
LEMMA EncodedMore == ASSUME NEW frames, NEW more, Sequence(frames), Sequence(more),
                            Len(more) = Len(frames) + 1, \A k \in 1 .. Len(frames) : more[k] = frames[k],
                            \A k \in 1 .. Len(more) : Sequence(more[k].data)
                     PROVE  /\ FlattenSeq(AllEncoded(more)) =
                                  FlattenSeq(AllEncoded(frames)) \o Encoded(more[Len(more)].data)
                            /\ Sequence(FlattenSeq(AllEncoded(frames)))
<1>. DEFINE n == Len(frames)
            last == Encoded(more[n + 1].data)
<1>1. n \in Nat /\ Len(more) = n + 1
  BY DEF Sequence
<1>. HIDE DEF n
<1>2. \A k \in 1 .. n : k \in 1 .. n + 1 /\ more[k] = frames[k]
  BY <1>1 DEF n
<1>3. \A k \in 1 .. n : Sequence(frames[k].data)
  BY <1>1, <1>2
<1>4. /\ Sequence(AllEncoded(frames)) /\ Len(AllEncoded(frames)) = n
      /\ \A k \in 1 .. n : AllEncoded(frames)[k] = Encoded(frames[k].data)
      /\ Sequence(FlattenSeq(AllEncoded(frames)))
  BY <1>3, EncodedFrames DEF n
<1>5. /\ Sequence(AllEncoded(more)) /\ Len(AllEncoded(more)) = n + 1
      /\ \A k \in 1 .. n + 1 : AllEncoded(more)[k] = Encoded(more[k].data)
  BY <1>1, EncodedFrames
<1>6. Sequence(last)
  BY <1>1, EncodedIs
<1>7. PICK p, q : p = AllEncoded(frames) /\ q = AllEncoded(more)
  OBVIOUS
<1>8. /\ Sequence(p) /\ Len(p) = n /\ Sequence(q) /\ Len(q) = n + 1 /\ q[n + 1] = last
      /\ \A k \in 1 .. n : q[k] = p[k]
  BY <1>1, <1>2, <1>4, <1>5, <1>7
<1>. HIDE DEF last
<1>9. FlattenSeq(q) = FlattenSeq(p) \o last
  BY <1>6, <1>8, FlattenAppend
<1>. QED
  BY <1>1, <1>4, <1>7, <1>9 DEF last

\* The frames that have been sent to the end.
LEMMA EndedIs == ASSUME Sending
                 PROVE  /\ Sequence(Ended) /\ \A k \in 1 .. Len(Ended) : Sequence(Ended[k].data)
                        /\ enc.at = "START" => Ended = begun
                        /\ enc.at # "START" =>
                              /\ Len(begun) = Len(Ended) + 1
                              /\ \A k \in 1 .. Len(Ended) : begun[k] = Ended[k]
<1>1. CASE enc.at = "START"
  BY <1>1 DEF Ended, Sending
<1>2. CASE enc.at # "START"
  <2>1. PICK n : n = Len(begun) - 1
    OBVIOUS
  <2>2. n \in Nat /\ Len(begun) = n + 1 /\ \A k \in 1 .. Len(begun) : Sequence(begun[k].data)
    BY <1>2, <2>1 DEF Sending, Sequence
  <2>3. Ended = SubSeq(begun, 1, n)
    BY <1>2, <2>1 DEF Ended
  <2>4. /\ Sequence(SubSeq(begun, 1, n)) /\ Len(SubSeq(begun, 1, n)) = IF 1 <= n THEN n - 1 + 1 ELSE 0
        /\ \A k \in 1 .. n - 1 + 1 : SubSeq(begun, 1, n)[k] = begun[1 + k - 1]
    BY <2>2, Part
  <2>5. Len(Ended) = n /\ \A k \in 1 .. n : Ended[k] = begun[k]
    <3>1. \A k \in 1 .. n : 1 + k - 1 = k
      OBVIOUS
    <3>2. n - 1 + 1 = n
      BY <2>2
    <3>. QED
      BY <2>2, <2>3, <2>4, <3>1, <3>2
  <2>6. \A k \in 1 .. n : k \in 1 .. n + 1
    BY <2>2
  <2>. QED
    BY <1>2, <2>2, <2>3, <2>4, <2>5, <2>6
<1>. QED
  BY <1>1, <1>2

\* The invariant says what is promised.
LEMMA WholeIsSent == Inv => OutputWhole
<1>. SUFFICES ASSUME Inv PROVE OutputWhole
  OBVIOUS
<1>. DEFINE flat == FlattenSeq(AllEncoded(Ended))
            whole == FlattenSeq(AllEncoded(begun))
<1>1. Sending /\ Summed(enc) /\ tx = flat \o Written(enc)
  BY DEF Inv, OnWire
<1>2. Sequence(flat)
  BY <1>1, EndedIs, EncodedFrames
<1>3. Sequence(whole)
  BY <1>1, EncodedFrames DEF Sending
<1>4. CASE enc.at = "START"
  <2>1. Written(enc) = <<>> /\ Ended = begun
    BY <1>1, <1>4, EndedIs DEF Written
  <2>2. tx = whole
    BY <1>1, <1>2, <2>1, JoinedToNothing
  <2>3. Len(whole) <= Len(whole)
    BY <1>3 DEF Sequence
  <2>4. Begins(whole, whole)
    BY <2>3 DEF Begins
  <2>. QED
    BY <1>3, <2>2, <2>4, BeginsIsPrefix DEF Inv, OnWire, OutputWhole, AllEncoded
<1>5. CASE enc.at # "START"
  <2>1. /\ Sequence(Ended) /\ Len(begun) = Len(Ended) + 1 /\ \A k \in 1 .. Len(Ended) : begun[k] = Ended[k]
        /\ Sequence(begun) /\ \A k \in 1 .. Len(begun) : Sequence(begun[k].data)
        /\ begun[Len(begun)].data = enc.data
    BY <1>1, <1>5, EndedIs DEF Sending
  <2>2. whole = flat \o Encoded(enc.data)
    BY <2>1, EncodedMore
  <2>3. Sequence(Written(enc)) /\ Begins(Written(enc), Encoded(enc.data))
    BY <1>1, <1>5, WrittenBegins
  <2>4. Sequence(Encoded(enc.data))
    BY <1>1, <1>5, EncodedIs DEF Summed
  <2>. HIDE DEF flat, whole
  <2>5. Begins(flat \o Written(enc), flat \o Encoded(enc.data))
    BY <1>2, <2>3, <2>4, BeginsBehind
  <2>6. Sequence(flat \o Written(enc))
    BY <1>2, <2>3, Joined
  <2>7. IsPrefix(tx, whole)
    BY <1>1, <1>3, <2>2, <2>5, <2>6, BeginsIsPrefix
  <2>. QED
    BY <1>5, <2>7 DEF Inv, OnWire, OutputWhole, AllEncoded, whole
<1>. QED
  BY <1>4, <1>5

\* It holds at first.
LEMMA InitInv == Init => Inv
<1>. SUFFICES ASSUME Init PROVE Inv
  OBVIOUS
<1>1. Sequence(UserFrames) /\ Len(UserFrames) \in Nat
  BY FrameAssumption DEF Sequence
<1>2. Sequence(<<>>) /\ Len(<<>>) = 0
  BY Short
<1>3. /\ task = "START" /\ tMutex = FALSE /\ answers = <<>> /\ begun = <<>> /\ tx = <<>>
      /\ toSend = UserFrames /\ user = IF UserFrames = <<>> THEN "none" ELSE "START"
      /\ enc = [at |-> "START", data |-> <<>>, hwCounter |-> 0, hwCheckSUM |-> <<>>]
      /\ dec = [at |-> "START", hwLength |-> 0, hwCounter |-> 0, hwCheckSUM |-> <<>>,
                bUnsupportFrame |-> FALSE, buffer |-> [i \in 1 .. NSIZE |-> <<0>>]]
  BY DEF Init
<1>4. Locked
  BY <1>3 DEF Locked
<1>5. InHand
  <2>1. IsDec(dec)
    BY <1>3 DEF IsDec
  <2>. QED
    BY <1>2, <1>3, <2>1 DEF InHand
<1>6. Waiting
  <2>1. UserFrames = <<>> <=> Len(UserFrames) = 0
    BY <1>1, NoElement
  <2>2. \A i \in 1 .. Len(UserFrames) : Len(UserFrames) - Len(UserFrames) + i = i
    BY <1>1
  <2>3. Len(toSend) <= Len(UserFrames)
    BY <1>1, <1>3
  <2>4. \A i \in 1 .. Len(toSend) : toSend[i] = UserFrames[Len(UserFrames) - Len(toSend) + i]
    BY <1>3, <2>2
  <2>. QED
    BY <1>1, <1>3, <2>1, <2>3, <2>4 DEF Waiting
<1>7. Sending
  BY <1>2, <1>3 DEF Sending
<1>8. Summed(enc)
  BY <1>3 DEF Summed, EncStates, IsEnc
<1>9. OnWire
  <2>1. Ended = <<>> /\ Written(enc) = <<>>
    BY <1>3 DEF Ended, Written
  <2>2. AllEncoded(<<>>) = <<>>
    <3>1. DOMAIN <<>> = {}
      OBVIOUS
    <3>2. Sequence(AllEncoded(<<>>)) /\ Len(AllEncoded(<<>>)) = Len(<<>>)
      BY <1>2, EncodedFrames
    <3>. QED
      BY <1>2, <3>2, NoElement
  <2>3. FlattenSeq(<<>>) = <<>>
    BY <1>2 DEF FlattenSeq
  <2>4. tx = FlattenSeq(AllEncoded(Ended)) \o Written(enc)
    BY <1>2, <1>3, <2>1, <2>2, <2>3, JoinedToNothing
  <2>5. 1 .. Sent = {}
    BY <1>1, <1>3 DEF Sent
  <2>6. Replied = {}
    <3>1. Replied = Replies
      BY <1>3 DEF Replied
    <3>2. DOMAIN answers = {}
      BY <1>3
    <3>. QED
      BY <3>1, <3>2 DEF Replies
  <2>7. AllOf("user", Ended, UserFrames, 1 .. Sent)
    BY <2>1, <2>5, CarriedNone
  <2>8. AllOf("task", Ended, answers, Replied)
    BY <2>1, <2>6, CarriedNone
  <2>. QED
    BY <2>4, <2>7, <2>8 DEF OnWire
<1>. QED
  BY <1>4, <1>5, <1>6, <1>7, <1>8, <1>9 DEF Inv

-----------------------------------------------------------------------------
(* The steps of the sending side. *)

\* What is sent stays what it is when only the one who waits goes on.
LEMMA WireStays ==
  ASSUME OnWire, UNCHANGED <<enc, begun, tx, toSend>>, Replied' = Replied, \A i \in Replied : answers'[i] = answers[i]
  PROVE  OnWire'
<1>1. Ended' = Ended /\ Written(enc)' = Written(enc)
  BY DEF Ended, Written
<1>2. Sent' = Sent
  BY DEF Sent
<1>3. AllOf("user", Ended, UserFrames, 1 .. Sent)'
  BY <1>1, <1>2 DEF OnWire
<1>4. AllOf("task", Ended, answers', Replied)
  BY CarriedSame DEF OnWire
<1>5. tx' = FlattenSeq(AllEncoded(Ended')) \o Written(enc)'
  BY <1>1 DEF OnWire
<1>. QED
  BY <1>1, <1>3, <1>4, <1>5 DEF OnWire

\* A step of the decoder that parses nothing.
LEMMA DecodingStays ==
  ASSUME Inv, task \in {"START", "DECODING"}, task' \in {"START", "DECODING"}, IsDec(dec'),
         UNCHANGED <<answers, encVars, user, toSend, tMutex>>
  PROVE  Inv'
<1>1. UNCHANGED <<enc, begun, tx, toSend, user, tMutex>>
  BY DEF encVars
<1>2. Locked'
  BY <1>1 DEF Inv, Locked
<1>3. InHand'
  BY DEF Inv, InHand
<1>4. Waiting' /\ Summed(enc)'
  BY <1>1 DEF Inv, Waiting, Summed
<1>5. Sending'
  BY <1>1 DEF Inv, Sending
<1>6. Replied' = Replied
  BY DEF Replied, Replies
<1>7. OnWire'
  BY <1>1, <1>6, WireStays DEF Inv
<1>. QED
  BY <1>2, <1>3, <1>4, <1>5, <1>7 DEF Inv

\* What a handler returns.
LEMMA ParserReturns ==
  ASSUME NEW c, NEW buffer
  PROVE  /\ booloader_command_parser(c, buffer).size \in 0 .. NSIZE
         /\ Answer(c, buffer, 1).size \in 0 .. NSIZE
<1>1. NSIZE \in Nat /\ NSIZE >= 2 /\ Len(INFO) \in 0 .. NSIZE
  BY FrameAssumption DEF Sequence
<1>2. \A b, n : Answer(c, b, n).size = n
  BY DEF Answer
<1>3. \A d, b, n : Answer(d, b, n).size = n
  BY DEF Answer
<1>4. ASSUME NEW index \in {"write", "read", "erase", "secure"} PROVE Access(c, buffer, index).size \in 1 .. 2
  BY <1>3, <1>4 DEF Access
<1>5. ASSUME NEW index \in {"write", "read", "erase", "secure"}
      PROVE  cmd_memory_handler(c, buffer, index).size \in 0 .. 2
  <2>1. Access(c, buffer, index).size \in 1 .. 2
    BY <1>4
  <2>. QED
    BY <1>3, <2>1 DEF cmd_memory_handler
<1>6. cmd_ack_handler(c, buffer).size = Len(INFO) /\ cmd_resume_handler(c, buffer).size = 0
  BY <1>3 DEF cmd_ack_handler, cmd_resume_handler
<1>7. buffer[1] \in DOMAIN c_tCMDMap =>
         c_tCMDMap[buffer[1]] \in {"ack", "resume", "write", "read", "erase", "secure"}
  BY BootloaderAssumption
<1>8. booloader_command_parser(c, buffer).size \in {0, 1, 2, Len(INFO)}
  BY <1>3, <1>5, <1>6, <1>7 DEF booloader_command_parser
<1>. QED
  BY <1>1, <1>3, <1>8

\* A frame is parsed.
LEMMA ParseStep == ASSUME Inv, WaitForCheckSumH, Parse PROVE Inv'
<1>1. PICK a \in {IF dec.bUnsupportFrame
                  THEN Answer(cell, [dec.buffer EXCEPT ![1] = ERROR], 1)
                  ELSE booloader_command_parser(cell, dec.buffer)} :
        /\ dec' = [dec EXCEPT !.at = "START", !.buffer = a.buffer, !.hwLength = a.size]
        /\ answers' = Append(answers, SubSeq(a.buffer, 1, a.size))
        /\ task' = IF a.size \in 1 .. NSIZE THEN "TRY_TO_LOCK" ELSE "START"
  BY DEF Parse
<1>2. a.size \in 0 .. NSIZE
  BY <1>1, ParserReturns
<1>3. task = "DECODING" /\ UNCHANGED <<enc, begun, tx, toSend, user, tMutex>>
  BY DEF WaitForCheckSumH, encVars
<1>4. NSIZE \in Nat /\ a.size \in Nat /\ a.size \in Int
  BY <1>2, FrameAssumption
<1>. DEFINE reply == SubSeq(a.buffer, 1, a.size)
            n == Len(answers)
<1>5. Sequence(reply) /\ (reply = <<>> <=> a.size = 0)
  <2>1. Sequence(SubSeq(a.buffer, 1, a.size)) /\ Len(SubSeq(a.buffer, 1, a.size)) = IF 1 <= a.size THEN a.size - 1 + 1 ELSE 0
    <3>1. PICK k : k = a.size
      OBVIOUS
    <3>2. k \in Int
      BY <1>4, <3>1
    <3>3. /\ Sequence(SubSeq(a.buffer, 1, k))
          /\ Len(SubSeq(a.buffer, 1, k)) = IF 1 <= k THEN k - 1 + 1 ELSE 0
      BY <3>2, Part
    <3>. QED
      BY <3>1, <3>3
  <2>2. reply = <<>> <=> Len(reply) = 0
    BY <2>1, NoElement
  <2>. QED
    BY <1>4, <2>1, <2>2
<1>6. n \in Nat /\ Sequence(answers) /\ DOMAIN answers = 1 .. n
  BY DEF Inv, InHand, Sequence
<1>. HIDE DEF reply, n
<1>7. /\ Sequence(answers') /\ Len(answers') = n + 1 /\ answers'[n + 1] = reply
      /\ \A i \in 1 .. n : answers'[i] = answers[i]
  <2>1. answers' = Append(answers, reply)
    BY <1>1 DEF reply
  <2>2. PICK p, e : p = answers /\ e = reply
    OBVIOUS
  <2>a. Sequence(p)
    BY <1>6, <2>2
  <2>3. Sequence(p) /\ answers' = Append(p, e) /\ Len(p) = n
    BY <1>6, <2>1, <2>2 DEF n
  <2>4. Longer(p, e, Append(p, e))
    BY <2>a, AppendedIsLonger, Zenon
  <2>5. Longer(p, e, answers')
    BY <2>3, <2>4
  <2>. QED
    BY <2>2, <2>3, <2>5 DEF n, Longer
<1>8. IsDec(dec') /\ dec'.buffer = a.buffer /\ dec'.hwLength = a.size
  <2>1. IsDec(dec)
    BY DEF Inv, InHand
  <2>. QED
    BY <1>1, <2>1 DEF IsDec
<1>9. task' = IF a.size = 0 THEN "START" ELSE "TRY_TO_LOCK"
  BY <1>1, <1>2, <1>4
<1>a. Locked'
  BY <1>3, <1>9 DEF Inv, Locked
<1>b. InHand'
  <2>1. task' \in {"TRY_TO_LOCK", "REPLY"} => a.size # 0
    BY <1>9
  <2>2. dec'.hwLength \in Nat /\ reply = SubSeq(dec'.buffer, 1, dec'.hwLength)
    BY <1>4, <1>8 DEF reply
  <2>3. n + 1 > 0
    BY <1>6
  <2>. QED
    BY <1>5, <1>7, <1>8, <2>1, <2>2, <2>3 DEF InHand
<1>c. Waiting' /\ Summed(enc)'
  BY <1>3 DEF Inv, Waiting, Summed
<1>d. task # "REPLY" /\ task' # "REPLY"
  BY <1>3, <1>9
<1>e. Sending'
  BY <1>3, <1>d DEF Inv, Sending
<1>f. Replied' = Replied
  <2>1. Replied = {i \in 1 .. n : answers[i] # <<>>}
    BY <1>3, <1>6 DEF Replied, Replies
  <2>2. DOMAIN answers' = 1 .. n + 1
    BY <1>6, <1>7 DEF Sequence
  <2>3. Replies' = {i \in 1 .. n + 1 : answers'[i] # <<>>}
    BY <2>2 DEF Replies
  <2>4. \A i : i \in 1 .. n + 1 <=> i \in 1 .. n \/ i = n + 1
    BY <1>6
  <2>5. n + 1 \notin 1 .. n
    BY <1>6
  <2>6. CASE a.size = 0
    <3>1. Replied' = Replies' /\ answers'[n + 1] = <<>>
      BY <1>5, <1>7, <1>9, <2>6 DEF Replied
    <3>. QED
      BY <1>7, <2>1, <2>3, <2>4, <3>1
  <2>7. CASE a.size # 0
    <3>1. Replied' = Replies' \ {n + 1}
      BY <1>7, <1>9, <2>7 DEF Replied
    <3>. QED
      BY <1>7, <2>1, <2>3, <2>4, <2>5, <3>1
  <2>. QED
    BY <2>6, <2>7
<1>g. \A i \in Replied : answers'[i] = answers[i]
  <2>1. Replied \subseteq 1 .. n
    BY <1>6 DEF Replied, Replies
  <2>. QED
    BY <1>7, <2>1
<1>h. OnWire'
  BY <1>3, <1>f, <1>g, WireStays DEF Inv
<1>. QED
  BY <1>a, <1>b, <1>c, <1>e, <1>h DEF Inv

\* The lock is taken, or someone starts to wait for it.
LEMMA LockStep == ASSUME Inv, TaskLock \/ UserStart \/ UserLock PROVE Inv'
<1>1. UNCHANGED <<answers, dec, enc, begun, tx, toSend>>
  BY DEF TaskLock, UserStart, UserLock, decVars, histVars, encVars
<1>2. Locked'
  BY DEF Inv, Locked, TaskLock, UserStart, UserLock, encVars
<1>3. task' \in {"TRY_TO_LOCK", "REPLY"} <=> task \in {"TRY_TO_LOCK", "REPLY"}
  BY DEF TaskLock, UserStart, UserLock
<1>4. InHand'
  BY <1>1, <1>3 DEF Inv, InHand
<1>5. user' = "none" <=> user = "none"
  BY DEF TaskLock, UserStart, UserLock
<1>6. Waiting' /\ Summed(enc)'
  BY <1>1, <1>5 DEF Inv, Waiting, Summed
<1>7. enc.at # "START" => task' = task
  BY DEF Inv, Locked, TaskLock, UserStart, UserLock
<1>8. Sending'
  BY <1>1, <1>7 DEF Inv, Sending
<1>9. Replied' = Replied
  BY <1>1, <1>3 DEF Replied, Replies
<1>a. OnWire'
  BY <1>1, <1>9, WireStays DEF Inv
<1>. QED
  BY <1>2, <1>4, <1>6, <1>8, <1>a DEF Inv

\* Whose frame is being sent.
Sender == IF task = "REPLY" THEN "task" ELSE "user"
Frame1 == IF task = "REPLY" THEN answers[Len(answers)] ELSE toSend[1]

\* The sending of a frame begins.
LEMMA BeginStep ==
  ASSUME Inv, task = "REPLY" \/ user = "ENCODING", EncoderStart(Sender, Frame1), Sequence(Frame1),
         UNCHANGED <<answers, dec, task, user, toSend, tMutex>>
  PROVE  Inv'
<1>. DEFINE new == [by |-> Sender, data |-> Frame1]
            n == Len(begun)
<1>1. /\ enc.at = "START" /\ begun' = Append(begun, new) /\ tx' = tx
      /\ enc' = [at |-> "SEND_HEAD", data |-> Frame1, hwCounter |-> 0, hwCheckSUM |-> <<>>]
  BY DEF EncoderStart
<1>2. Sequence(begun) /\ n \in Nat /\ \A k \in 1 .. n : Sequence(begun[k].data)
  BY DEF Inv, Sending, Sequence
<1>. HIDE DEF new, n
<1>3. /\ Sequence(begun') /\ Len(begun') = n + 1 /\ begun'[n + 1] = new
      /\ \A k \in 1 .. n : begun'[k] = begun[k]
  <2>1. PICK p : p = begun
    OBVIOUS
  <2>a. Sequence(p)
    BY <1>2, <2>1
  <2>2. Sequence(p) /\ begun' = Append(p, new) /\ Len(p) = n
    BY <1>1, <1>2, <2>1 DEF n
  <2>3. Longer(p, new, Append(p, new))
    BY <2>a, AppendedIsLonger, Zenon
  <2>4. Longer(p, new, begun')
    BY <2>2, <2>3
  <2>. QED
    BY <2>1, <2>2, <2>4 DEF Longer
<1>4. new.by = Sender /\ new.data = Frame1
  BY DEF new
<1>5. enc'.at = "SEND_HEAD" /\ enc'.data = Frame1
  BY <1>1
<1>6. Locked'
  BY DEF Inv, Locked
<1>7. InHand' /\ Waiting'
  BY DEF Inv, InHand, Waiting
<1>8. Summed(enc)'
  BY <1>1 DEF Summed, EncStates, IsEnc
<1>9. Sending'
  <2>1. \A k \in 1 .. n + 1 : k \in 1 .. n \/ k = n + 1
    BY <1>2
  <2>2. \A k \in 1 .. n + 1 : Sequence(begun'[k].data)
    BY <1>2, <1>3, <1>4, <2>1
  <2>3. n + 1 > 0
    BY <1>2
  <2>4. /\ Sender = IF task' = "REPLY" THEN "task" ELSE "user"
        /\ Frame1 = IF task' = "REPLY" THEN answers'[Len(answers')] ELSE toSend'[1]
    BY DEF Sender, Frame1
  <2>. QED
    BY <1>3, <1>4, <1>5, <2>2, <2>3, <2>4 DEF Sending
<1>a. Ended = begun /\ Ended' = begun
  <2>1. Ended = begun
    BY <1>1 DEF Ended
  <2>2. Ended' = SubSeq(begun', 1, Len(begun') - 1)
    BY <1>5 DEF Ended
  <2>3. Len(begun') - 1 = n
    BY <1>2, <1>3
  <2>4. Sending'
    BY <1>9
  <2>5. Sequence(SubSeq(begun', 1, n)) /\ Len(SubSeq(begun', 1, n)) = n
    <3>1. PICK q : q = begun'
      OBVIOUS
    <3>2. n \in Int /\ (IF 1 <= n THEN n - 1 + 1 ELSE 0) = n
      BY <1>2
    <3>3. Sequence(SubSeq(q, 1, n))
      BY <3>2, Part
    <3>4. Len(SubSeq(q, 1, n)) = IF 1 <= n THEN n - 1 + 1 ELSE 0
      BY <3>2, Part
    <3>. QED
      BY <3>1, <3>2, <3>3, <3>4
  <2>6. \A k \in 1 .. n : SubSeq(begun', 1, n)[k] = begun'[k]
    <3>1. PICK q : q = begun'
      OBVIOUS
    <3>2. \A k \in 1 .. n - 1 + 1 : SubSeq(q, 1, n)[k] = q[1 + k - 1]
      BY <1>2, Part
    <3>3. n - 1 + 1 = n /\ \A k \in 1 .. n : 1 + k - 1 = k
      BY <1>2
    <3>. QED
      BY <3>1, <3>2, <3>3
  <2>7. PICK p, q : p = SubSeq(begun', 1, n) /\ q = begun
    OBVIOUS
  <2>8. Sequence(p) /\ Sequence(q) /\ Len(p) = Len(q) /\ \A k \in 1 .. Len(p) : p[k] = q[k]
    BY <1>2, <1>3, <2>5, <2>6, <2>7 DEF n
  <2>9. p = q
    BY <2>8, Equal
  <2>. QED
    BY <2>1, <2>2, <2>3, <2>7, <2>9
<1>b. Written(enc) = <<>> /\ Written(enc)' = <<>>
  BY <1>1, <1>5 DEF Written
<1>c. Sent' = Sent /\ Replied' = Replied
  BY DEF Sent, Replied, Replies
<1>d. tx' = FlattenSeq(AllEncoded(Ended')) \o Written(enc)'
  BY <1>1, <1>a, <1>b DEF Inv, OnWire
<1>e. AllOf("user", Ended, UserFrames, 1 .. Sent)' /\ AllOf("task", Ended, answers, Replied)'
  BY <1>a, <1>c DEF Inv, OnWire
<1>f. OnWire'
  BY <1>d, <1>e DEF OnWire
<1>. QED
  BY <1>6, <1>7, <1>8, <1>9, <1>f DEF Inv

\* It goes on.
LEMMA GoesOnStep ==
  ASSUME Inv, task = "REPLY" \/ user = "ENCODING", SendHeader \/ SendData,
         UNCHANGED <<answers, dec, task, user, toSend, tMutex>>
  PROVE  Inv'
<1>1. /\ Summed(enc') /\ enc.at # "START" /\ enc'.at # "START" /\ enc'.data = enc.data /\ begun' = begun
      /\ \E bs : Sequence(bs) /\ tx' = tx \o bs /\ Written(enc') = Written(enc) \o bs
  <2>0. Summed(enc) /\ Sending /\ tx = FlattenSeq(AllEncoded(Ended)) \o Written(enc)
    BY DEF Inv, OnWire
  <2>1. CASE SendHeader
    <3>1. /\ Summed(enc') /\ enc.at # "START" /\ enc'.at # "START" /\ enc'.data = enc.data /\ begun' = begun
          /\ \E b : tx' = Append(tx, b) /\ Written(enc') = Written(enc) \o <<b>>
      BY <2>0, <2>1, HeaderWrites
    <3>2. PICK b : tx' = Append(tx, b) /\ Written(enc') = Written(enc) \o <<b>>
      BY <3>1
    <3>3. Sequence(tx)
      <4>1. Sequence(Ended) /\ \A k \in 1 .. Len(Ended) : Sequence(Ended[k].data)
        BY <2>0, EndedIs
      <4>2. Sequence(FlattenSeq(AllEncoded(Ended))) /\ Sequence(Written(enc))
        BY <2>0, <3>1, <4>1, EncodedFrames, WrittenBegins
      <4>3. PICK p, q : p = FlattenSeq(AllEncoded(Ended)) /\ q = Written(enc)
        OBVIOUS
      <4>4. Sequence(p) /\ Sequence(q)
        BY <4>2, <4>3
      <4>5. Sequence(p \o q)
        BY <4>4, Joined
      <4>. QED
        BY <2>0, <4>3, <4>5
    <3>4. Append(tx, b) = tx \o <<b>>
      <4>1. PICK p : p = tx
        OBVIOUS
      <4>2. Append(p, b) = p \o <<b>>
        BY <3>3, <4>1, Appended, Zenon
      <4>. QED
        BY <4>1, <4>2
    <3>5. Sequence(<<b>>)
      BY Short
    <3>. QED
      BY <3>1, <3>2, <3>4, <3>5
  <2>2. CASE SendData
    BY <2>0, <2>2, DataWrites
  <2>. QED
    BY <2>1, <2>2
<1>2. PICK bs : Sequence(bs) /\ tx' = tx \o bs /\ Written(enc') = Written(enc) \o bs
  BY <1>1
<1>3. Locked'
  BY <1>1 DEF Inv, Locked
<1>4. InHand' /\ Waiting'
  BY DEF Inv, InHand, Waiting
<1>5. Sending'
  BY <1>1 DEF Inv, Sending
<1>6. Ended' = Ended /\ Sent' = Sent /\ Replied' = Replied
  BY <1>1 DEF Ended, Sent, Replied, Replies
<1>7. tx' = FlattenSeq(AllEncoded(Ended')) \o Written(enc)'
  <2>1. /\ Summed(enc) /\ Sending /\ tx = FlattenSeq(AllEncoded(Ended)) \o Written(enc)
    BY DEF Inv, OnWire
  <2>2. Sequence(Ended) /\ \A k \in 1 .. Len(Ended) : Sequence(Ended[k].data)
    BY <2>1, EndedIs
  <2>3. Sequence(FlattenSeq(AllEncoded(Ended))) /\ Sequence(Written(enc))
    BY <1>1, <2>1, <2>2, EncodedFrames, WrittenBegins
  <2>4. PICK p, q : p = FlattenSeq(AllEncoded(Ended)) /\ q = Written(enc)
    OBVIOUS
  <2>5. Sequence(p) /\ Sequence(q)
    BY <2>3, <2>4
  <2>6. (p \o q) \o bs = p \o (q \o bs)
    BY <1>2, <2>5, JoinedTwice, SMTT(60)
  <2>7. Written(enc)' = Written(enc')
    BY DEF Written
  <2>. QED
    BY <1>2, <1>6, <2>1, <2>4, <2>6, <2>7
<1>8. AllOf("user", Ended, UserFrames, 1 .. Sent)' /\ AllOf("task", Ended, answers, Replied)'
  BY <1>6 DEF Inv, OnWire
<1>9. OnWire'
  BY <1>7, <1>8 DEF OnWire
<1>a. Summed(enc)'
  BY <1>1
<1>. QED
  BY <1>3, <1>4, <1>5, <1>9, <1>a DEF Inv

\* It ends, and what was sent last is one more of those that have ended.
LEMMA EndStep ==
  ASSUME Inv, task = "REPLY" \/ user = "ENCODING", SendCRCH
  PROVE  /\ enc.at # "START" /\ enc'.at = "START" /\ Summed(enc)' /\ begun' = begun
         /\ tx' = FlattenSeq(AllEncoded(Ended')) \o Written(enc)'
         /\ Ended' = begun /\ Sequence(Ended) /\ Sequence(begun) /\ Len(begun) = Len(Ended) + 1
         /\ \A k \in 1 .. Len(Ended) : begun[k] = Ended[k]
         /\ begun[Len(Ended) + 1].by = Sender /\ begun[Len(Ended) + 1].data = Frame1
<1>0. Summed(enc) /\ Sending /\ tx = FlattenSeq(AllEncoded(Ended)) \o Written(enc)
  BY DEF Inv, OnWire
<1>1. /\ Summed(enc') /\ enc.at # "START" /\ enc'.at = "START" /\ begun' = begun
      /\ \E b : tx' = Append(tx, b) /\ Encoded(enc.data) = Written(enc) \o <<b>>
  BY <1>0, LastWrites
<1>2. PICK b : tx' = Append(tx, b) /\ Encoded(enc.data) = Written(enc) \o <<b>>
  BY <1>1
<1>3. /\ Sequence(Ended) /\ \A k \in 1 .. Len(Ended) : Sequence(Ended[k].data)
      /\ Len(begun) = Len(Ended) + 1 /\ \A k \in 1 .. Len(Ended) : begun[k] = Ended[k]
  BY <1>0, <1>1, EndedIs
<1>4. /\ Sequence(begun) /\ \A k \in 1 .. Len(begun) : Sequence(begun[k].data)
      /\ begun[Len(begun)].data = enc.data
      /\ begun[Len(begun)].by = Sender /\ enc.data = Frame1
  BY <1>0, <1>1 DEF Sending, Sender, Frame1
<1>5. Ended' = begun /\ Written(enc)' = <<>>
  BY <1>1 DEF Ended, Written
<1>6. /\ FlattenSeq(AllEncoded(begun)) = FlattenSeq(AllEncoded(Ended)) \o Encoded(enc.data)
      /\ Sequence(FlattenSeq(AllEncoded(Ended))) /\ Sequence(FlattenSeq(AllEncoded(begun)))
  <2>1. Sequence(FlattenSeq(AllEncoded(begun)))
    BY <1>4, EncodedFrames
  <2>2. PICK frames, more : frames = Ended /\ more = begun
    OBVIOUS
  <2>3. /\ Sequence(frames) /\ Sequence(more) /\ Len(more) = Len(frames) + 1
        /\ \A k \in 1 .. Len(frames) : more[k] = frames[k]
        /\ \A k \in 1 .. Len(more) : Sequence(more[k].data)
    BY <1>3, <1>4, <2>2
  <2>4. /\ FlattenSeq(AllEncoded(more)) = FlattenSeq(AllEncoded(frames)) \o Encoded(more[Len(more)].data)
        /\ Sequence(FlattenSeq(AllEncoded(frames)))
    BY <2>3, EncodedMore
  <2>5. FlattenSeq(AllEncoded(begun)) = FlattenSeq(AllEncoded(Ended)) \o Encoded(begun[Len(begun)].data)
    BY <2>2, <2>4
  <2>. QED
    BY <1>4, <2>1, <2>2, <2>4, <2>5
<1>7. tx' = FlattenSeq(AllEncoded(Ended')) \o Written(enc)'
  <2>1. PICK p, q, w : /\ p = FlattenSeq(AllEncoded(Ended)) /\ q = Written(enc)
                       /\ w = FlattenSeq(AllEncoded(begun))
    OBVIOUS
  <2>2. Sequence(Written(enc)) /\ Sequence(<<b>>)
    BY <1>0, <1>1, WrittenBegins, Short
  <2>3. Sequence(p) /\ Sequence(q) /\ Sequence(w)
    BY <1>6, <2>1, <2>2
  <2>4. PICK t : t = <<b>>
    OBVIOUS
  <2>5. Sequence(t)
    BY <2>2, <2>4
  <2>6. (p \o q) \o t = p \o (q \o t)
    BY <2>3, <2>5, JoinedTwice, SMTT(60)
  <2>7. Sequence(p \o q)
    BY <2>3, Joined
  <2>8. Append(p \o q, b) = (p \o q) \o t
    <3>1. PICK r : r = p \o q
      OBVIOUS
    <3>2. Sequence(r)
      BY <2>7, <3>1
    <3>3. Append(r, b) = r \o <<b>>
      BY <3>2, Appended, Zenon
    <3>. QED
      BY <2>4, <3>1, <3>3
  <2>9. w \o <<>> = w
    BY <2>3, JoinedToNothing
  <2>a. tx' = Append(p \o q, b)
    BY <1>0, <1>2, <2>1
  <2>b. w = p \o (q \o t)
    BY <1>2, <1>6, <2>1, <2>4
  <2>c. tx' = w \o <<>>
    BY <2>6, <2>8, <2>9, <2>a, <2>b
  <2>d. w = FlattenSeq(AllEncoded(Ended'))
    BY <1>5, <2>1
  <2>. QED
    BY <1>5, <2>c, <2>d
<1>8. Summed(enc)'
  BY <1>1
<1>9. begun[Len(Ended) + 1].by = Sender /\ begun[Len(Ended) + 1].data = Frame1
  BY <1>3, <1>4
<1>. QED
  BY <1>1, <1>3, <1>4, <1>5, <1>7, <1>8, <1>9

\* The reply has been sent.
LEMMA RepliedStep == ASSUME Inv, TaskReplied PROVE Inv'
<1>1. /\ task = "REPLY" /\ SendCRCH /\ task' = "START" /\ tMutex' = FALSE
      /\ UNCHANGED <<answers, dec, user, toSend>>
  BY DEF TaskReplied, decVars, histVars
<1>2. /\ enc.at # "START" /\ enc'.at = "START" /\ Summed(enc)' /\ begun' = begun
      /\ tx' = FlattenSeq(AllEncoded(Ended')) \o Written(enc)'
      /\ Ended' = begun /\ Sequence(Ended) /\ Sequence(begun) /\ Len(begun) = Len(Ended) + 1
      /\ \A k \in 1 .. Len(Ended) : begun[k] = Ended[k]
      /\ begun[Len(Ended) + 1].by = Sender /\ begun[Len(Ended) + 1].data = Frame1
  BY <1>1, EndStep
<1>. DEFINE n == Len(answers)
<1>3. /\ n \in Nat /\ n > 0 /\ answers[n] # <<>> /\ DOMAIN answers = 1 .. n
      /\ Sender = "task" /\ Frame1 = answers[n] /\ Sender # "user"
  BY <1>1 DEF Inv, InHand, Sequence, Sender, Frame1
<1>4. Locked'
  BY <1>1, <1>2 DEF Inv, Locked
<1>5. InHand' /\ Waiting'
  BY <1>1 DEF Inv, InHand, Waiting
<1>6. Sending'
  BY <1>2 DEF Inv, Sending
<1>. HIDE DEF n
<1>7. Sent' = Sent /\ Replied' = Replied \cup {n}
  <2>1. Replied' = Replies /\ Replied = Replies \ {n}
    BY <1>1 DEF Replied, Replies, n
  <2>2. n \in Replies
    BY <1>3 DEF Replies
  <2>3. Sent' = Sent
    BY <1>1 DEF Sent
  <2>. QED
    BY <2>1, <2>2, <2>3
<1>8. \A i \in Replied : i \in Nat /\ i < n
  <2>1. \A i \in Replied : i \in 1 .. n /\ i # n
    BY <1>1, <1>3 DEF Replied, Replies, n
  <2>. QED
    BY <1>3, <2>1
<1>9. AllOf("user", Ended, UserFrames, 1 .. Sent) /\ AllOf("task", Ended, answers, Replied)
  BY DEF Inv, OnWire
<1>a. PICK frames, which : frames = Ended /\ which = Replied
  OBVIOUS
<1>b. /\ Sequence(frames) /\ Sequence(begun) /\ Len(begun) = Len(frames) + 1
      /\ \A k \in 1 .. Len(frames) : begun[k] = frames[k]
      /\ begun[Len(frames) + 1].by = "task" /\ begun[Len(frames) + 1].data = answers[n]
      /\ AllOf("user", frames, UserFrames, 1 .. Sent) /\ AllOf("task", frames, answers, which)
      /\ \A i \in which : i \in Nat /\ i < n
  BY <1>2, <1>3, <1>8, <1>9, <1>a
<1>c. AllOf("user", begun, UserFrames, 1 .. Sent)
  <2>1. begun[Len(frames) + 1].by # "user"
    BY <1>b
  <2>. QED
    BY <1>b, <2>1, CarriedOther
<1>d. AllOf("task", begun, answers, which \cup {n})
  BY <1>3, <1>b, CarriedMore
<1>e. AllOf("user", Ended, UserFrames, 1 .. Sent)' /\ AllOf("task", Ended, answers, Replied)'
  BY <1>1, <1>2, <1>7, <1>a, <1>c, <1>d
<1>f. OnWire'
  BY <1>2, <1>e DEF OnWire
<1>. QED
  BY <1>2, <1>4, <1>5, <1>6, <1>f DEF Inv

\* The user's frame has been sent.
LEMMA UserSentStep == ASSUME Inv, UserSent PROVE Inv'
<1>1. /\ user = "ENCODING" /\ SendCRCH /\ tMutex' = FALSE /\ toSend' = Tail(toSend)
      /\ user' = IF Len(toSend) = 1 THEN "none" ELSE "START"
      /\ UNCHANGED <<answers, dec, task>>
  BY DEF UserSent, decVars, histVars
<1>2. /\ enc.at # "START" /\ enc'.at = "START" /\ Summed(enc)' /\ begun' = begun
      /\ tx' = FlattenSeq(AllEncoded(Ended')) \o Written(enc)'
      /\ Ended' = begun /\ Sequence(Ended) /\ Sequence(begun) /\ Len(begun) = Len(Ended) + 1
      /\ \A k \in 1 .. Len(Ended) : begun[k] = Ended[k]
      /\ begun[Len(Ended) + 1].by = Sender /\ begun[Len(Ended) + 1].data = Frame1
  BY <1>1, EndStep
<1>. DEFINE n == Len(toSend)
            all == Len(UserFrames)
<1>3. /\ n \in Nat /\ n > 0 /\ Sequence(toSend) /\ toSend # <<>> /\ n <= all /\ all \in Nat
      /\ \A i \in 1 .. n : toSend[i] = UserFrames[all - n + i]
  <2>1. /\ Sequence(toSend) /\ n <= all /\ (user = "none" <=> n = 0)
        /\ \A i \in 1 .. n : toSend[i] = UserFrames[all - n + i]
    BY DEF Inv, Waiting
  <2>2. n \in Nat /\ all \in Nat
    BY <2>1, FrameAssumption DEF Sequence
  <2>3. toSend # <<>>
    BY <1>1, <2>1, NoElement
  <2>. QED
    BY <1>1, <2>1, <2>2, <2>3
<1>4. task # "REPLY" /\ Sender = "user" /\ Frame1 = UserFrames[all - n + 1] /\ Sender # "task"
  <2>1. task # "REPLY"
    BY <1>1 DEF Inv, Locked
  <2>2. toSend[1] = UserFrames[all - n + 1]
    BY <1>3
  <2>. QED
    BY <2>1, <2>2 DEF Sender, Frame1
<1>5. /\ Sequence(toSend') /\ Len(toSend') = n - 1 /\ \A i \in 1 .. n - 1 : toSend'[i] = toSend[i + 1]
  <2>1. PICK q : q = toSend
    OBVIOUS
  <2>2. Sequence(q) /\ q # <<>>
    BY <1>3, <2>1
  <2>3. Sequence(Tail(q)) /\ Len(Tail(q)) = Len(q) - 1 /\ \A i \in 1 .. Len(q) - 1 : Tail(q)[i] = q[i + 1]
    BY <2>2, Shortened
  <2>. QED
    BY <1>1, <2>1, <2>3
<1>6. Locked'
  BY <1>1, <1>2, <1>4 DEF Inv, Locked
<1>7. InHand'
  BY <1>1 DEF Inv, InHand
<1>. HIDE DEF n, all
<1>8. Waiting'
  <2>1. n - 1 <= all /\ n - 1 >= 0
    BY <1>3
  <2>2. \A i \in 1 .. n - 1 : toSend'[i] = UserFrames[all - (n - 1) + i]
    <3>. SUFFICES ASSUME NEW i \in 1 .. n - 1 PROVE toSend'[i] = UserFrames[all - (n - 1) + i]
      OBVIOUS
    <3>1. i + 1 \in 1 .. n /\ all - n + (i + 1) = all - (n - 1) + i
      BY <1>3
    <3>2. toSend'[i] = toSend[i + 1]
      BY <1>5
    <3>. QED
      BY <1>3, <3>1, <3>2
  <2>3. user' = "none" <=> n - 1 = 0
    BY <1>1, <1>3 DEF n
  <2>. QED
    BY <1>5, <2>1, <2>2, <2>3 DEF Waiting, all
<1>9. Sending'
  BY <1>2 DEF Inv, Sending
<1>a. Sent = all - n /\ Sent' = all - n + 1 /\ Sent \in Nat /\ Sent' = Sent + 1
  <2>1. Sent = all - n /\ Sent' = all - (n - 1)
    BY <1>5 DEF Sent, all, n
  <2>. QED
    BY <1>3, <2>1
<1>b. 1 .. Sent' = 1 .. Sent \cup {Sent + 1} /\ Sent + 1 \in Nat /\ \A i \in 1 .. Sent : i \in Nat /\ i < Sent + 1
  BY <1>a
<1>c. Replied' = Replied
  BY <1>1 DEF Replied, Replies
<1>d. AllOf("user", Ended, UserFrames, 1 .. Sent) /\ AllOf("task", Ended, answers, Replied)
  BY DEF Inv, OnWire
<1>e. PICK frames, new, s : frames = Ended /\ new = Sent + 1 /\ s = 1 .. Sent
  OBVIOUS
<1>f. /\ Sequence(frames) /\ Sequence(begun) /\ Len(begun) = Len(frames) + 1
      /\ \A k \in 1 .. Len(frames) : begun[k] = frames[k]
      /\ begun[Len(frames) + 1].by = "user" /\ begun[Len(frames) + 1].data = UserFrames[new]
      /\ AllOf("user", frames, UserFrames, s) /\ AllOf("task", frames, answers, Replied)
      /\ new \in Nat /\ \A i \in s : i \in Nat /\ i < new
  <2>1. all - n + 1 = new
    BY <1>3, <1>a, <1>e
  <2>. QED
    BY <1>2, <1>4, <1>b, <1>d, <1>e, <2>1
<1>g. AllOf("user", begun, UserFrames, s \cup {new})
  BY <1>f, CarriedMore
<1>h. AllOf("task", begun, answers, Replied)
  <2>1. begun[Len(frames) + 1].by # "task"
    BY <1>f
  <2>. QED
    BY <1>f, <2>1, CarriedOther
<1>i. AllOf("user", Ended, UserFrames, 1 .. Sent)' /\ AllOf("task", Ended, answers, Replied)'
  <2>1. 1 .. Sent' = s \cup {new}
    BY <1>b, <1>e
  <2>. QED
    BY <1>1, <1>2, <1>c, <1>g, <1>h, <2>1
<1>j. OnWire'
  BY <1>2, <1>i DEF OnWire
<1>. QED
  BY <1>2, <1>6, <1>7, <1>8, <1>9, <1>j DEF Inv

\* Only WaitForCheckSumH parses; the others keep what the sender needs.
LEMMA DecoderSteps ==
  ASSUME Inv,
         \/ DecoderStart \/ WaitForHead \/ WaitForLengthL \/ WaitForLengthH
         \/ WaitForData \/ WaitForCheckSumL \/ (WaitForCheckSumH /\ Mismatch)
  PROVE  Inv'
<1>0. IsDec(dec)
  BY DEF Inv, InHand
<1>1. task = "DECODING" /\ task' = "DECODING" /\ UNCHANGED <<answers, encVars, user, toSend, tMutex>>
  BY DEF DecoderStart, WaitForHead, WaitForLengthL, WaitForLengthH, WaitForData, WaitForCheckSumL,
         WaitForCheckSumH, Mismatch, Reads, histVars
<1>2. IsDec(dec')
  <2>1. CASE DecoderStart
    BY <1>0, <2>1 DEF DecoderStart, IsDec
  <2>2. CASE WaitForHead
    BY <1>0, <2>2 DEF WaitForHead, Reads, IsDec
  <2>3. CASE WaitForLengthL
    BY <1>0, <2>3 DEF WaitForLengthL, Reads, IsDec
  <2>4. CASE WaitForLengthH
    BY <1>0, <2>4 DEF WaitForLengthH, Reads, IsDec
  <2>5. CASE WaitForData
    BY <1>0, <2>5 DEF WaitForData, IsDec
  <2>6. CASE WaitForCheckSumL
    BY <1>0, <2>6 DEF WaitForCheckSumL, Reads, IsDec
  <2>7. CASE (WaitForCheckSumH /\ Mismatch)
    BY <1>0, <2>7 DEF Mismatch, IsDec
  <2>. QED
    BY <2>1, <2>2, <2>3, <2>4, <2>5, <2>6, <2>7
<1>. QED
  BY <1>1, <1>2, DecodingStays

\* Every step keeps it.
LEMMA NextInv == Inv /\ [Next]_vars => Inv'
<1>. SUFFICES ASSUME Inv, [Next]_vars PROVE Inv'
  OBVIOUS
<1>1. CASE TaskStart
  <2>1. /\ task \in {"START", "DECODING"} /\ task' \in {"START", "DECODING"} /\ IsDec(dec')
        /\ UNCHANGED <<answers, encVars, user, toSend, tMutex>>
    BY <1>1 DEF TaskStart, decVars, histVars, Inv, InHand
  <2>. QED
    BY <2>1, DecodingStays
<1>2. CASE Decoder
  <2>1. CASE WaitForCheckSumH /\ Parse
    BY <2>1, ParseStep
  <2>2. CASE WaitForCheckSumH /\ Mismatch
    BY <2>2, DecoderSteps
  <2>3. CASE DecoderStart \/ WaitForHead \/ WaitForLengthL \/ WaitForLengthH
    BY <2>3, DecoderSteps
  <2>4. CASE WaitForData \/ WaitForCheckSumL
    BY <2>4, DecoderSteps
  <2>5. WaitForCheckSumH => Mismatch \/ Parse
    BY DEF WaitForCheckSumH
  <2>. QED
    BY <1>2, <2>1, <2>2, <2>3, <2>4, <2>5 DEF Decoder
<1>3. CASE TaskLock \/ UserStart \/ UserLock
  BY <1>3, LockStep
<1>4. CASE TaskReply
  <2>1. /\ task = "REPLY" /\ Sends("task", SubSeq(dec.buffer, 1, dec.hwLength))
        /\ UNCHANGED <<answers, dec, task, user, toSend, tMutex>>
    BY <1>4 DEF TaskReply, decVars, histVars
  <2>2. Sender = "task" /\ Frame1 = SubSeq(dec.buffer, 1, dec.hwLength) /\ dec.hwLength \in Nat
    BY <2>1 DEF Inv, InHand, Sender, Frame1
  <2>3. Sequence(Frame1)
    <3>1. PICK k : k = dec.hwLength
      OBVIOUS
    <3>2. k \in Int
      BY <2>2, <3>1
    <3>3. Sequence(SubSeq(dec.buffer, 1, k))
      BY <3>2, Part
    <3>. QED
      BY <2>2, <3>1, <3>3
  <2>4. EncoderStart(Sender, Frame1) \/ SendHeader \/ SendData
    BY <2>1, <2>2 DEF Sends
  <2>. QED
    BY <2>1, <2>3, <2>4, BeginStep, GoesOnStep
<1>5. CASE TaskReplied
  BY <1>5, RepliedStep
<1>6. CASE UserEncode
  <2>1. /\ user = "ENCODING" /\ Sends("user", Head(toSend))
        /\ UNCHANGED <<answers, dec, task, user, toSend, tMutex>>
    BY <1>6 DEF UserEncode, decVars, histVars
  <2>2. Sequence(toSend) /\ Len(toSend) # 0 /\ task # "REPLY"
    BY <2>1 DEF Inv, Waiting, Locked
  <2>3. toSend # <<>>
    BY <2>2, NoElement
  <2>4. Sender = "user" /\ Frame1 = Head(toSend) /\ Frame1 = toSend[1]
    <3>1. Head(toSend) = toSend[1]
      <4>1. PICK q : q = toSend
        OBVIOUS
      <4>2. Head(q) = q[1]
        BY <2>2, <2>3, <4>1, Shortened
      <4>. QED
        BY <4>1, <4>2
    <3>. QED
      BY <2>2, <3>1 DEF Sender, Frame1
  <2>5. Sequence(Frame1)
    <3>1. Len(toSend) \in Nat /\ Len(UserFrames) \in Nat /\ Len(toSend) <= Len(UserFrames)
      BY <2>2, FrameAssumption DEF Sequence, Inv, Waiting
    <3>2. PICK i : i = Len(UserFrames) - Len(toSend) + 1
      OBVIOUS
    <3>3. i \in 1 .. Len(UserFrames) /\ 1 \in 1 .. Len(toSend)
      BY <2>2, <3>1, <3>2
    <3>4. toSend[1] = UserFrames[i]
      BY <3>2, <3>3 DEF Inv, Waiting
    <3>. QED
      BY <2>4, <3>3, <3>4, FrameAssumption
  <2>6. EncoderStart(Sender, Frame1) \/ SendHeader \/ SendData
    BY <2>1, <2>4 DEF Sends
  <2>. QED
    BY <2>1, <2>5, <2>6, BeginStep, GoesOnStep
<1>7. CASE UserSent
  BY <1>7, UserSentStep
<1>8. CASE UNCHANGED vars
  <2>1. /\ dec' = dec /\ task' = task /\ enc' = enc /\ tx' = tx /\ begun' = begun
        /\ user' = user /\ toSend' = toSend /\ tMutex' = tMutex /\ answers' = answers
    BY <1>8 DEF vars, decVars, histVars, encVars
  <2>2. Locked' /\ InHand' /\ Waiting' /\ Sending' /\ Summed(enc')
    BY <2>1 DEF Inv, Locked, InHand, Waiting, Sending
  <2>3. Ended' = Ended /\ Sent' = Sent /\ Replied' = Replied /\ Written(enc)' = Written(enc)
    BY <2>1 DEF Ended, Sent, Replied, Replies, Written
  <2>4. OnWire'
    BY <2>1, <2>3 DEF Inv, OnWire
  <2>. QED
    BY <2>1, <2>2, <2>4 DEF Inv
<1>. QED
  BY <1>1, <1>2, <1>3, <1>4, <1>5, <1>6, <1>7, <1>8 DEF Next, Task, Encoder

\* The replies and the user's frames never mix on the wire and none gets lost:
\* it carries whole frames, all that the user was told are sent and all replies
\* but the one in hand, each once and in order.
THEOREM Safety == Spec => []OutputWhole
<1>1. Inv /\ [Next]_vars => Inv'
  BY NextInv
<1>2. Init => Inv
  BY InitInv
<1>3. Inv => OutputWhole
  BY WholeIsSent
<1>. QED
  BY <1>1, <1>2, <1>3, PTL DEF Spec

-----------------------------------------------------------------------------
(* The invariant of the receiving side. *)

Bytes(q) == Sequence(q) /\ \A i \in 1 .. Len(q) : Value(q[i]) \in Nat

\* The checksum covers the two bytes of the length and the data so far, of
\* which the buffer has what it has room for.
Decoding ==
    /\ IsDec(dec) /\ Bytes(rx) /\ DOMAIN dec.buffer = 1 .. NSIZE
    /\ dec.at \in {"WAIT_FOR_HEAD", "WAIT_FOR_LENGTH_L"} => dec.hwCheckSUM = <<>>
    /\ dec.at = "WAIT_FOR_LENGTH_H" =>
          Sequence(dec.hwCheckSUM) /\ Len(dec.hwCheckSUM) = 1 /\ dec.hwLength \in Nat
    /\ dec.at \in {"WAIT_FOR_DATA", "WAIT_FOR_CHECK_SUM_L", "WAIT_FOR_CHECK_SUM_H"} =>
          /\ dec.hwLength \in Nat /\ dec.hwCounter \in 0 .. dec.hwLength
          /\ Sequence(dec.hwCheckSUM) /\ Len(dec.hwCheckSUM) = dec.hwCounter + 2
          /\ dec.bUnsupportFrame <=> dec.hwLength > NSIZE
          /\ \A k \in 1 .. dec.hwCounter : k <= NSIZE => dec.buffer[k] = dec.hwCheckSUM[k + 2]
    /\ dec.at \in {"WAIT_FOR_CHECK_SUM_L", "WAIT_FOR_CHECK_SUM_H"} => dec.hwCounter = dec.hwLength

\* There is one answer to every frame.
Answered ==
    /\ Sequence(handled) /\ Sequence(seen) /\ Sequence(answers)
    /\ Len(seen) = Len(handled) /\ Len(answers) = Len(handled)

\* The memory is what the answers so far have made of it.
Kept ==
    /\ cell = [content |-> cell.content, secured |-> cell.secured] /\ cell.secured \in BOOLEAN
    /\ cell.secured <=> SecuredBefore(Len(handled) + 1)
    /\ cell.content = ContentBefore(Len(handled) + 1)

AnswersInv == Decoding /\ Answered /\ Kept /\ AnswersRight

\* Joined bytes.
LEMMA BytesJoined == ASSUME NEW p, NEW q, Bytes(p), Bytes(q) PROVE Bytes(p \o q)
<1>1. /\ Sequence(p) /\ Sequence(q) /\ Len(p) \in Nat /\ Len(q) \in Nat
      /\ \A i \in 1 .. Len(p) : Value(p[i]) \in Nat
      /\ \A i \in 1 .. Len(q) : Value(q[i]) \in Nat
  BY DEF Bytes, Sequence
<1>2. /\ Sequence(p \o q) /\ Len(p \o q) = Len(p) + Len(q)
      /\ \A i \in 1 .. Len(p) : (p \o q)[i] = p[i]
      /\ \A i \in 1 .. Len(q) : (p \o q)[Len(p) + i] = q[i]
  BY <1>1, Joined
<1>3. ASSUME NEW i \in 1 .. Len(p) + Len(q) PROVE Value((p \o q)[i]) \in Nat
  <2>1. CASE i <= Len(p)
    <3>1. i \in 1 .. Len(p)
      BY <1>1, <2>1
    <3>. QED
      BY <1>1, <1>2, <3>1
  <2>2. CASE i > Len(p)
    <3>1. PICK j : j = i - Len(p)
      OBVIOUS
    <3>2. j \in 1 .. Len(q) /\ Len(p) + j = i
      BY <1>1, <2>2, <3>1
    <3>3. (p \o q)[i] = q[j]
      BY <1>2, <3>2
    <3>. QED
      BY <1>1, <3>2, <3>3
  <2>. QED
    BY <1>1, <2>1, <2>2
<1>. QED
  BY <1>2, <1>3 DEF Bytes

\* What is a byte has a value.
LEMMA ByteHasValue == ASSUME NEW b, IsByte(b) PROVE Len(b) = 1 /\ Value(b) = b[1] /\ Value(b) \in Nat
<1>1. b = <<b[1]>> /\ b[1] \in Nat
  BY DEF IsByte
<1>2. PICK x : x = b[1]
  OBVIOUS
<1>3. Len(<<x>>) = 1
  BY Short
<1>4. Len(b) = 1
  BY <1>1, <1>2, <1>3
<1>. QED
  BY <1>1, <1>4 DEF Value

\* A byte that is no checksum's is a head if it is the head.
LEMMA HeadByte == ASSUME NEW b, IsByte(b) PROVE IsHead(b) <=> b = HEAD
<1>1. IsByte(HEAD)
  BY FrameAssumption
<1>2. Value(b) = b[1] /\ b = <<b[1]>> /\ HEAD = <<HEAD[1]>>
  <2>1. b = <<b[1]>> /\ HEAD = <<HEAD[1]>>
    BY <1>1 DEF IsByte
  <2>. QED
    BY <2>1, ByteHasValue
<1>. QED
  BY <1>2 DEF IsHead

\* The head is one.
LEMMA HeadIsHead == IsHead(HEAD)
<1>1. IsByte(HEAD)
  BY FrameAssumption
<1>. QED
  BY <1>1, HeadByte

\* So has a byte of a checksum.
LEMMA SumHasValue == ASSUME NEW x, NEW y PROVE Value(<<x, y>>) \in Nat
<1>1. PICK b : b = <<x, y>>
  OBVIOUS
<1>2. Len(b) = 2
  BY <1>1, Short
<1>3. Value(b) = IF b \in DOMAIN SumValues THEN SumValues[b] ELSE 1
  BY <1>2 DEF Value
<1>4. b \in DOMAIN SumValues => SumValues[b] \in Nat
  BY FrameAssumption
<1>. QED
  BY <1>1, <1>3, <1>4

\* What a piece of the input is.
LEMMA PieceIs == ASSUME NEW pieces \in Streams, NEW i \in 1 .. Len(pieces)
                 PROVE  /\ pieces[i].kind \in {"frame", "damaged", "noise"}
                        /\ Sequence(pieces[i].data)
                        /\ \A k \in 1 .. Len(pieces[i].data) : IsByte(pieces[i].data[k])
                        /\ pieces[i].kind = "damaged" =>
                              /\ pieces[i].at \in DOMAIN Encoded(pieces[i].data)
                              /\ Encoded(pieces[i].data)[pieces[i].at] # <<0>>
  BY FrameAssumption

LEMMA PieceHasBytes == ASSUME NEW pieces \in Streams, NEW i \in 1 .. Len(pieces)
                       PROVE  Bytes(pieces[i].data)
<1>. DEFINE data == pieces[i].data
<1>1. Sequence(data) /\ \A k \in 1 .. Len(data) : IsByte(data[k])
  BY PieceIs
<1>2. \A k \in 1 .. Len(data) : Value(data[k]) \in Nat
  BY <1>1, ByteHasValue
<1>. QED
  BY <1>1, <1>2 DEF Bytes

\* The bytes of a length.
LEMMA LengthIsBytes == ASSUME NEW n \in Nat PROVE Bytes(LengthBytes(n))
<1>1. BASE \in Nat \ {0}
  BY FrameAssumption
<1>2. n % BASE \in Nat /\ n \div BASE \in Nat
  BY <1>1
<1>3. PICK x, y : x = n % BASE /\ y = n \div BASE
  OBVIOUS
<1>4. Value(<<x>>) = x /\ Value(<<y>>) = y
  <2>1. Len(<<x>>) = 1 /\ <<x>>[1] = x /\ Len(<<y>>) = 1 /\ <<y>>[1] = y
    BY Short
  <2>. QED
    BY <2>1 DEF Value
<1>5. PICK a, b : a = <<x>> /\ b = <<y>>
  OBVIOUS
<1>6. LengthBytes(n) = <<a, b>>
  BY <1>3, <1>5 DEF LengthBytes
<1>7. Sequence(<<a, b>>) /\ Len(<<a, b>>) = 2 /\ <<a, b>>[1] = a /\ <<a, b>>[2] = b
  BY Short
<1>8. Value(a) \in Nat /\ Value(b) \in Nat
  BY <1>2, <1>3, <1>4, <1>5
<1>9. \A i \in 1 .. 2 : i = 1 \/ i = 2
  OBVIOUS
<1>. QED
  BY <1>6, <1>7, <1>8, <1>9 DEF Bytes

\* Two bytes and one.
LEMMA FewBytes == /\ \A a : Value(a) \in Nat => Bytes(<<a>>)
                  /\ \A a, b : Value(a) \in Nat /\ Value(b) \in Nat => Bytes(<<a, b>>)
<1>1. ASSUME NEW a, Value(a) \in Nat PROVE Bytes(<<a>>)
  <2>1. Sequence(<<a>>) /\ Len(<<a>>) = 1 /\ <<a>>[1] = a
    BY Short
  <2>2. \A i \in 1 .. 1 : i = 1
    OBVIOUS
  <2>. QED
    BY <1>1, <2>1, <2>2 DEF Bytes
<1>2. ASSUME NEW a, NEW b, Value(a) \in Nat, Value(b) \in Nat PROVE Bytes(<<a, b>>)
  <2>1. Sequence(<<a, b>>) /\ Len(<<a, b>>) = 2 /\ <<a, b>>[1] = a /\ <<a, b>>[2] = b
    BY Short
  <2>2. \A i \in 1 .. 2 : i = 1 \/ i = 2
    OBVIOUS
  <2>. QED
    BY <1>2, <2>1, <2>2 DEF Bytes
<1>. QED
  BY <1>1, <1>2

\* The bytes of a frame.
LEMMA EncodedIsBytes == ASSUME NEW data, Bytes(data) PROVE Bytes(Encoded(data))
<1>. DEFINE l == LengthBytes(Len(data))
            body == l \o data
<1>1. Len(data) \in Nat /\ Bytes(l)
  BY LengthIsBytes DEF Bytes, Sequence
<1>. HIDE DEF l
<1>2. Bytes(body)
  BY <1>1, BytesJoined
<1>3. Bytes(<<HEAD>>)
  <2>1. IsByte(HEAD)
    BY FrameAssumption
  <2>2. Value(HEAD) \in Nat
    BY <2>1, ByteHasValue
  <2>. QED
    BY <2>2, FewBytes
<1>. HIDE DEF body
<1>4. PICK head : head = <<HEAD>>
  OBVIOUS
<1>5. Bytes(head \o body)
  BY <1>2, <1>3, <1>4, BytesJoined
<1>6. Bytes(CheckSum(body))
  <2>2. Value(<<"L", body>>) \in Nat /\ Value(<<"H", body>>) \in Nat
    BY SumHasValue
  <2>3. PICK a, b : a = <<"L", body>> /\ b = <<"H", body>>
    OBVIOUS
  <2>4. Bytes(<<a, b>>)
    BY <2>2, <2>3, FewBytes
  <2>. QED
    BY <2>3, <2>4 DEF CheckSum
<1>7. PICK p, q : p = head \o body /\ q = CheckSum(body)
  OBVIOUS
<1>8. Bytes(p \o q)
  BY <1>5, <1>6, <1>7, BytesJoined
<1>9. Encoded(data) = (<<HEAD>> \o body) \o CheckSum(body)
  <2>1. Sequence(data)
    BY DEF Bytes
  <2>2. Encoded(data) = (<<HEAD>> \o FrameBody(data)) \o CheckSum(FrameBody(data))
    BY <2>1, EncodedIs
  <2>3. FrameBody(data) = body
    BY DEF FrameBody, body, l
  <2>. QED
    BY <2>2, <2>3
<1>. QED
  BY <1>4, <1>7, <1>8, <1>9

\* The bytes of a piece, whatever happened to it.
LEMMA PieceIsBytes == ASSUME NEW p, p.kind \in {"frame", "damaged", "noise"}, Bytes(p.data)
                      PROVE  Bytes(PieceBytes(p))
<1>1. CASE p.kind = "frame"
  BY <1>1, EncodedIsBytes DEF PieceBytes
<1>2. CASE p.kind = "noise"
  BY <1>2 DEF PieceBytes
<1>3. CASE p.kind = "damaged"
  <2>1. PICK q : q = Encoded(p.data)
    OBVIOUS
  <2>2. Bytes(q)
    BY <2>1, EncodedIsBytes
  <2>3. Value(<<0>>) \in Nat
    <3>1. Len(<<0>>) = 1 /\ <<0>>[1] = 0
      BY Short
    <3>. QED
      BY <3>1 DEF Value
  <2>. DEFINE r == [q EXCEPT ![p.at] = <<0>>]
              n == Len(q)
  <2>4. Sequence(q) /\ n \in Nat /\ DOMAIN q = 1 .. n /\ \A i \in 1 .. n : Value(q[i]) \in Nat
    BY <2>2 DEF Bytes, Sequence
  <2>5. DOMAIN r = 1 .. n /\ r = [i \in 1 .. n |-> r[i]]
    BY <2>4
  <2>6. \A i \in 1 .. n : r[i] = <<0>> \/ r[i] = q[i]
    BY <2>4
  <2>7. PieceBytes(p) = r
    BY <1>3, <2>1 DEF PieceBytes
  <2>. HIDE DEF r, n
  <2>8. Sequence(r) /\ Len(r) = n
    <3>1. r \in Seq({r[i] : i \in 1 .. n})
      <4>1. r \in [1 .. n -> {r[i] : i \in 1 .. n}]
        BY <2>5
      <4>. QED
        BY <2>4, <4>1, SeqDef
    <3>2. Len(r) = n
      BY <2>4, <2>5, <3>1, LenProperties
    <3>. QED
      BY <3>1, <3>2, IsSequence
  <2>9. \A i \in 1 .. n : Value(r[i]) \in Nat
    BY <2>3, <2>4, <2>6
  <2>. QED
    BY <2>7, <2>8, <2>9 DEF Bytes
<1>. QED
  BY <1>1, <1>2, <1>3

\* All that comes in is bytes.
LEMMA FlattenBytes == ASSUME NEW pieces, Sequence(pieces), \A i \in 1 .. Len(pieces) : Bytes(pieces[i])
                      PROVE  Bytes(FlattenSeq(pieces))
<1>. DEFINE E == UNION {{pieces[i][k] : k \in 1 .. Len(pieces[i])} : i \in 1 .. Len(pieces)}
<1>1. \A b \in E : Value(b) \in Nat
  BY DEF Bytes
<1>2. ASSUME NEW i \in 1 .. Len(pieces) PROVE pieces[i] \in Seq(E)
  <2>1. Sequence(pieces[i])
    BY DEF Bytes
  <2>2. \A k \in 1 .. Len(pieces[i]) : pieces[i][k] \in E
    OBVIOUS
  <2>. HIDE DEF E
  <2>3. PICK q : q = pieces[i]
    OBVIOUS
  <2>4. Sequence(q) /\ \A k \in 1 .. Len(q) : q[k] \in E
    BY <2>1, <2>2, <2>3
  <2>5. q \in Seq(E)
    BY <2>4, Elements
  <2>. QED
    BY <2>3, <2>5
<1>. HIDE DEF E
<1>3. FlattenSeq(pieces) \in Seq(E)
  BY <1>2, FlattenMakes
<1>4. PICK q : q = FlattenSeq(pieces)
  OBVIOUS
<1>5. q \in Seq(E)
  BY <1>3, <1>4
<1>6. Sequence(q) /\ \A k \in 1 .. Len(q) : q[k] \in E
  BY <1>5, IsSequence
<1>. QED
  BY <1>1, <1>4, <1>6 DEF Bytes

\* It holds at first.
LEMMA InitAnswers == Init => AnswersInv
<1>. SUFFICES ASSUME Init PROVE AnswersInv
  OBVIOUS
<1>1. /\ stream \in Streams /\ rx = FlattenSeq([i \in DOMAIN stream |-> PieceBytes(stream[i])])
      /\ dec = [at |-> "START", hwLength |-> 0, hwCounter |-> 0, hwCheckSUM |-> <<>>,
                bUnsupportFrame |-> FALSE, buffer |-> [i \in 1 .. NSIZE |-> <<0>>]]
      /\ cell = [content |-> EMPTY, secured |-> FALSE]
      /\ handled = <<>> /\ seen = <<>> /\ answers = <<>>
  BY DEF Init
<1>2. Sequence(<<>>) /\ Len(<<>>) = 0
  BY Short
<1>3. Bytes(rx)
  <2>1. /\ Sequence(stream)
        /\ \A i \in 1 .. Len(stream) :
              stream[i].kind \in {"frame", "damaged", "noise"} /\ Bytes(stream[i].data)
    <3>1. Sequence(stream)
      BY <1>1, FrameAssumption
    <3>. QED
      BY <1>1, <3>1, PieceIs, PieceHasBytes
  <2>. DEFINE n == Len(stream)
              pieces == [i \in 1 .. n |-> PieceBytes(stream[i])]
  <2>2. n \in Nat /\ DOMAIN stream = 1 .. n
    BY <2>1 DEF Sequence
  <2>3. \A i \in 1 .. n : Bytes(pieces[i])
    BY <2>1, PieceIsBytes
  <2>4. pieces \in Seq({pieces[i] : i \in 1 .. n})
    <3>1. pieces \in [1 .. n -> {pieces[i] : i \in 1 .. n}]
      OBVIOUS
    <3>. HIDE DEF pieces, n
    <3>. QED
      BY <2>2, <3>1, SeqDef
  <2>5. DOMAIN pieces = 1 .. n /\ rx = FlattenSeq(pieces)
    BY <1>1, <2>2
  <2>. HIDE DEF pieces, n
  <2>6. Sequence(pieces) /\ Len(pieces) = n
    BY <2>2, <2>4, <2>5, LenProperties, IsSequence
  <2>7. Bytes(FlattenSeq(pieces))
    BY <2>3, <2>6, FlattenBytes
  <2>. QED
    BY <2>5, <2>7
<1>4. Decoding
  BY <1>1, <1>3 DEF Decoding, IsDec
<1>5. Answered
  BY <1>1, <1>2 DEF Answered
<1>6. \A hs : Before(Len(handled) + 1, hs) = {}
  <2>1. Len(handled) = 0
    BY <1>1, <1>2
  <2>. QED
    BY <2>1 DEF Before
<1>7. Kept
  BY <1>1, <1>6 DEF Kept, SecuredBefore, ContentBefore
<1>8. AnswersRight
  BY <1>1 DEF AnswersRight
<1>. QED
  BY <1>4, <1>5, <1>7, <1>8 DEF AnswersInv

-----------------------------------------------------------------------------
(* The steps of the receiving side. *)

\* Who does not parse changes no history.
LEMMA HistoryStays ==
  ASSUME Answered, Kept, AnswersRight, UNCHANGED <<cell, histVars>>
  PROVE  Answered' /\ Kept' /\ AnswersRight'
<1>1. UNCHANGED <<cell, handled, seen, answers>>
  BY DEF histVars
<1>2. \A i : Handler(i)' = Handler(i) /\ Fits(i)' = Fits(i)
  BY <1>1 DEF Handler, Fits
<1>3. \A i, hs : Before(i, hs)' = Before(i, hs)
  BY <1>1, <1>2 DEF Before
<1>4. \A i : SecuredBefore(i)' <=> SecuredBefore(i)
  BY <1>3 DEF SecuredBefore
<1>5. \A i : ContentBefore(i)' = ContentBefore(i)
  BY <1>1, <1>2, <1>3 DEF ContentBefore
<1>6. \A i : Reply(i)' = Reply(i)
  BY <1>2, <1>4, <1>5 DEF Reply
<1>7. Answered'
  BY <1>1 DEF Answered
<1>8. Kept'
  BY <1>1, <1>4, <1>5 DEF Kept
<1>9. AnswersRight'
  BY <1>1, <1>2, <1>6 DEF AnswersRight
<1>. QED
  BY <1>7, <1>8, <1>9

\* What remains of the bytes when the first one has been read.
LEMMA ByteRead ==
  ASSUME NEW q, Bytes(q), q # <<>>
  PROVE  Bytes(Tail(q)) /\ Value(Head(q)) \in Nat
<1>1. Sequence(q) /\ Len(q) \in Nat /\ \A i \in 1 .. Len(q) : Value(q[i]) \in Nat
  BY DEF Bytes, Sequence
<1>2. /\ Sequence(Tail(q)) /\ Len(Tail(q)) = Len(q) - 1 /\ Len(q) > 0
      /\ \A i \in 1 .. Len(q) - 1 : Tail(q)[i] = q[i + 1]
      /\ Head(q) = q[1]
  BY <1>1, Shortened
<1>3. \A i \in 1 .. Len(q) - 1 : i + 1 \in 1 .. Len(q)
  BY <1>1
<1>4. \A i \in 1 .. Len(q) - 1 : Value(Tail(q)[i]) \in Nat
  BY <1>1, <1>2, <1>3
<1>5. 1 \in 1 .. Len(q)
  BY <1>1, <1>2
<1>. QED
  BY <1>1, <1>2, <1>4, <1>5 DEF Bytes

\* And when some have been.
LEMMA BytesRead ==
  ASSUME NEW q, Bytes(q), NEW n \in 1 .. Len(q)
  PROVE  Bytes(SubSeq(q, n + 1, Len(q)))
<1>1. Sequence(q) /\ Len(q) \in Nat /\ \A i \in 1 .. Len(q) : Value(q[i]) \in Nat
  BY DEF Bytes, Sequence
<1>2. PICK m, k, r : m = n + 1 /\ k = Len(q) /\ r = SubSeq(q, n + 1, Len(q))
  OBVIOUS
<1>3. m \in Nat /\ k \in Int /\ m > 1 /\ k \in Nat
  BY <1>1, <1>2
<1>4. r = SubSeq(q, m, k)
  BY <1>2
<1>5. Sequence(SubSeq(q, m, k))
  BY <1>3, Part
<1>6. Len(SubSeq(q, m, k)) = IF m <= k THEN k - m + 1 ELSE 0
  BY <1>3, Part
<1>7. \A i \in 1 .. k - m + 1 : SubSeq(q, m, k)[i] = q[m + i - 1]
  BY <1>3, Part
<1>8. ASSUME NEW i \in 1 .. Len(r) PROVE Value(r[i]) \in Nat
  <2>1. m <= k
    BY <1>3, <1>4, <1>6
  <2>2. i \in 1 .. k - m + 1
    BY <1>3, <1>4, <1>6, <2>1
  <2>3. PICK j : j = m + i - 1
    OBVIOUS
  <2>4. j \in 1 .. k
    BY <1>3, <2>1, <2>2, <2>3
  <2>5. r[i] = q[j]
    BY <1>4, <1>7, <2>2, <2>3
  <2>. QED
    BY <1>1, <1>2, <2>4, <2>5
<1>9. Bytes(r)
  BY <1>4, <1>5, <1>8 DEF Bytes
<1>. QED
  BY <1>2, <1>9

\* The bytes of the header.
LEMMA HeaderDecoded ==
  ASSUME Decoding, DecoderStart \/ WaitForHead \/ WaitForLengthL \/ WaitForLengthH
  PROVE  Decoding'
<1>1. IsDec(dec) /\ Bytes(rx) /\ DOMAIN dec.buffer = 1 .. NSIZE
  BY DEF Decoding
<1>2. CASE DecoderStart
  <2>1. /\ IsDec(dec') /\ dec'.at = "WAIT_FOR_HEAD" /\ dec'.hwCheckSUM = <<>> /\ dec'.buffer = dec.buffer
        /\ rx' = rx
    BY <1>1, <1>2 DEF DecoderStart, IsDec
  <2>. QED
    BY <1>1, <2>1 DEF Decoding
<1>3. CASE WaitForHead
  <2>1. /\ rx # <<>> /\ rx' = Tail(rx) /\ dec.at = "WAIT_FOR_HEAD"
        /\ dec' = IF IsHead(Head(rx)) THEN [dec EXCEPT !.at = "WAIT_FOR_LENGTH_L"] ELSE dec
    BY <1>3 DEF WaitForHead, Reads
  <2>2. /\ IsDec(dec') /\ dec'.at \in {"WAIT_FOR_HEAD", "WAIT_FOR_LENGTH_L"}
        /\ dec'.hwCheckSUM = dec.hwCheckSUM /\ dec'.buffer = dec.buffer
    BY <1>1, <2>1 DEF IsDec
  <2>3. dec.hwCheckSUM = <<>>
    BY <2>1 DEF Decoding
  <2>4. Bytes(rx')
    BY <1>1, <2>1, ByteRead
  <2>. QED
    BY <1>1, <2>2, <2>3, <2>4 DEF Decoding
<1>4. CASE WaitForLengthL
  <2>1. /\ rx # <<>> /\ rx' = Tail(rx) /\ dec.at = "WAIT_FOR_LENGTH_L"
        /\ dec' = [dec EXCEPT !.at = "WAIT_FOR_LENGTH_H", !.hwLength = Value(Head(rx)),
                              !.hwCheckSUM = Append(@, Head(rx))]
    BY <1>4 DEF WaitForLengthL, Reads
  <2>2. /\ IsDec(dec') /\ dec'.at = "WAIT_FOR_LENGTH_H" /\ dec'.hwLength = Value(Head(rx))
        /\ dec'.hwCheckSUM = Append(dec.hwCheckSUM, Head(rx)) /\ dec'.buffer = dec.buffer
    BY <1>1, <2>1 DEF IsDec
  <2>3. dec.hwCheckSUM = <<>>
    BY <2>1 DEF Decoding
  <2>4. Bytes(rx') /\ Value(Head(rx)) \in Nat
    BY <1>1, <2>1, ByteRead
  <2>5. Sequence(dec'.hwCheckSUM) /\ Len(dec'.hwCheckSUM) = 1
    <3>1. PICK p, e : p = dec.hwCheckSUM /\ e = Head(rx)
      OBVIOUS
    <3>2. Sequence(p) /\ Len(p) = 0
      BY <2>3, <3>1, Short
    <3>3. Sequence(Append(p, e)) /\ Len(Append(p, e)) = Len(p) + 1
      BY <3>2, Appended, Zenon
    <3>. QED
      BY <2>2, <3>1, <3>2, <3>3
  <2>. QED
    BY <1>1, <2>2, <2>4, <2>5 DEF Decoding
<1>5. CASE WaitForLengthH
  <2>. DEFINE n == dec.hwLength + BASE * Value(Head(rx))
  <2>1. /\ rx # <<>> /\ rx' = Tail(rx) /\ dec.at = "WAIT_FOR_LENGTH_H"
        /\ dec' = [dec EXCEPT !.hwLength = n, !.hwCheckSUM = Append(@, Head(rx)), !.hwCounter = 0,
                              !.bUnsupportFrame = n > NSIZE,
                              !.at = IF n = 0 THEN "WAIT_FOR_CHECK_SUM_L" ELSE "WAIT_FOR_DATA"]
    BY <1>5 DEF WaitForLengthH, Reads
  <2>2. Bytes(rx') /\ Value(Head(rx)) \in Nat
    BY <1>1, <2>1, ByteRead
  <2>3. Sequence(dec.hwCheckSUM) /\ Len(dec.hwCheckSUM) = 1 /\ dec.hwLength \in Nat
    BY <2>1 DEF Decoding
  <2>4. n \in Nat
    BY <2>2, <2>3, FrameAssumption
  <2>. HIDE DEF n
  <2>5. /\ IsDec(dec') /\ dec'.hwLength = n /\ dec'.hwCounter = 0 /\ dec'.buffer = dec.buffer
        /\ dec'.hwCheckSUM = Append(dec.hwCheckSUM, Head(rx)) /\ dec'.bUnsupportFrame = (n > NSIZE)
        /\ dec'.at = IF n = 0 THEN "WAIT_FOR_CHECK_SUM_L" ELSE "WAIT_FOR_DATA"
    BY <1>1, <2>1 DEF IsDec
  <2>6. Sequence(dec'.hwCheckSUM) /\ Len(dec'.hwCheckSUM) = 2
    <3>1. PICK p, e : p = dec.hwCheckSUM /\ e = Head(rx)
      OBVIOUS
    <3>2. Sequence(p) /\ Len(p) = 1
      BY <2>3, <3>1
    <3>3. Sequence(Append(p, e)) /\ Len(Append(p, e)) = Len(p) + 1
      BY <3>2, Appended, Zenon
    <3>. QED
      BY <2>5, <3>1, <3>2, <3>3
  <2>7. dec'.hwCounter \in 0 .. dec'.hwLength /\ Len(dec'.hwCheckSUM) = dec'.hwCounter + 2
    BY <2>4, <2>5, <2>6
  <2>8. 1 .. dec'.hwCounter = {}
    BY <2>5
  <2>9. dec'.at = "WAIT_FOR_CHECK_SUM_L" => dec'.hwCounter = dec'.hwLength
    BY <2>5
  <2>. QED
    BY <1>1, <2>2, <2>4, <2>5, <2>6, <2>7, <2>8, <2>9 DEF Decoding
<1>. QED
  BY <1>2, <1>3, <1>4, <1>5

\* The data, in parts of any size.
LEMMA DataDecoded == ASSUME Decoding, WaitForData PROVE Decoding'
<1>. DEFINE c == dec.hwCounter
            sum == dec.hwCheckSUM
            l == dec.hwLength
<1>1. PICK n \in 1 .. Min({Len(rx), l - c}) :
        /\ rx' = SubSeq(rx, n + 1, Len(rx))
        /\ dec' = [dec EXCEPT
              !.buffer = [i \in 1 .. NSIZE |-> IF i \in c + 1 .. c + n THEN SubSeq(rx, 1, n)[i - c] ELSE @[i]],
              !.hwCheckSUM = @ \o SubSeq(rx, 1, n),
              !.hwCounter = c + n,
              !.at = IF c + n >= l THEN "WAIT_FOR_CHECK_SUM_L" ELSE @]
  BY DEF WaitForData
<1>. DEFINE bytes == SubSeq(rx, 1, n)
<1>2. /\ dec.at = "WAIT_FOR_DATA" /\ IsDec(dec) /\ Bytes(rx) /\ DOMAIN dec.buffer = 1 .. NSIZE
      /\ l \in Nat /\ c \in 0 .. l /\ Sequence(sum) /\ Len(sum) = c + 2
      /\ (dec.bUnsupportFrame <=> l > NSIZE)
      /\ \A k \in 1 .. c : k <= NSIZE => dec.buffer[k] = sum[k + 2]
  BY DEF Decoding, WaitForData
<1>3. Len(rx) \in Nat /\ c \in Nat /\ l - c \in Nat /\ NSIZE \in Nat
  BY <1>2, FrameAssumption DEF Bytes, Sequence
<1>4. n \in 1 .. Len(rx) /\ n \in 1 .. l - c
  <2>1. PICK a, b : a = Len(rx) /\ b = l - c
    OBVIOUS
  <2>2. a \in Nat /\ b \in Nat
    BY <1>3, <2>1
  <2>3. Min({a, b}) = IF a <= b THEN a ELSE b
    BY <2>2 DEF Min
  <2>4. n \in 1 .. (IF a <= b THEN a ELSE b)
    BY <2>1, <2>3
  <2>. QED
    BY <2>1, <2>2, <2>4
<1>5. /\ IsDec(dec') /\ dec'.hwLength = l /\ dec'.hwCounter = c + n /\ dec'.hwCheckSUM = sum \o bytes
      /\ dec'.bUnsupportFrame = dec.bUnsupportFrame
      /\ dec'.buffer = [i \in 1 .. NSIZE |-> IF i \in c + 1 .. c + n THEN bytes[i - c] ELSE dec.buffer[i]]
      /\ dec'.at = IF c + n >= l THEN "WAIT_FOR_CHECK_SUM_L" ELSE "WAIT_FOR_DATA"
  BY <1>1, <1>2 DEF IsDec
<1>6. Sequence(bytes) /\ Len(bytes) = n
  <2>1. n \in Int /\ (IF 1 <= n THEN n - 1 + 1 ELSE 0) = n
    BY <1>4
  <2>2. PICK q : q = rx
    OBVIOUS
  <2>3. Sequence(SubSeq(q, 1, n))
    BY <2>1, Part
  <2>4. Len(SubSeq(q, 1, n)) = IF 1 <= n THEN n - 1 + 1 ELSE 0
    BY <2>1, Part
  <2>. QED
    BY <2>1, <2>2, <2>3, <2>4
<1>7. Bytes(rx')
  BY <1>1, <1>2, <1>4, BytesRead
<1>. HIDE DEF bytes
<1>8. PICK p : p = sum
  OBVIOUS
<1>9. Sequence(p) /\ Len(p) = c + 2
  BY <1>2, <1>8
<1>a. /\ Sequence(p \o bytes) /\ Len(p \o bytes) = Len(p) + Len(bytes)
      /\ \A i \in 1 .. Len(p) : (p \o bytes)[i] = p[i]
      /\ \A i \in 1 .. Len(bytes) : (p \o bytes)[Len(p) + i] = bytes[i]
  <2>1. PICK q : q = bytes
    OBVIOUS
  <2>2. Sequence(p) /\ Sequence(q)
    BY <1>6, <1>9, <2>1
  <2>3. /\ Sequence(p \o q) /\ Len(p \o q) = Len(p) + Len(q)
        /\ \A i \in 1 .. Len(p) : (p \o q)[i] = p[i]
        /\ \A i \in 1 .. Len(q) : (p \o q)[Len(p) + i] = q[i]
    BY <2>2, Joined
  <2>. QED
    BY <2>1, <2>3
<1>b. c + n \in 0 .. l /\ Len(p \o bytes) = c + n + 2
  <2>1. c \in Int /\ n \in Int /\ l \in Int /\ 0 <= n /\ n <= l - c /\ 0 <= c
    BY <1>2, <1>3, <1>4
  <2>2. c + n \in 0 .. l /\ (c + 2) + n = c + n + 2
    <3>1. PICK i, j, k : i = c /\ j = n /\ k = l
      OBVIOUS
    <3>2. i \in Int /\ j \in Int /\ k \in Int /\ 0 <= j /\ j <= k - i /\ 0 <= i
      BY <2>1, <3>1
    <3>3. i + j \in 0 .. k /\ (i + 2) + j = i + j + 2
      BY <3>2
    <3>. QED
      BY <3>1, <3>3
  <2>3. Len(p \o bytes) = (c + 2) + n
    BY <1>6, <1>9, <1>a
  <2>. QED
    BY <2>2, <2>3
<1>c. ASSUME NEW k \in 1 .. c + n, k <= NSIZE PROVE dec'.buffer[k] = (p \o bytes)[k + 2]
  <2>0. k \in 1 .. NSIZE
    BY <1>3, <1>c
  <2>1. CASE k <= c
    <3>1. k \in 1 .. c /\ k \notin c + 1 .. c + n /\ k + 2 \in 1 .. c + 2
      BY <1>3, <2>1
    <3>2. dec'.buffer[k] = dec.buffer[k]
      BY <1>5, <2>0, <3>1
    <3>3. (p \o bytes)[k + 2] = p[k + 2]
      BY <1>9, <1>a, <3>1
    <3>. QED
      BY <1>2, <1>8, <1>c, <3>1, <3>2, <3>3
  <2>2. CASE k > c
    <3>1. PICK i : i = k - c
      OBVIOUS
    <3>2. i \in 1 .. n /\ k \in c + 1 .. c + n /\ c + 2 + i = k + 2
      BY <1>3, <1>4, <2>2, <3>1
    <3>3. dec'.buffer[k] = bytes[i]
      BY <1>5, <2>0, <3>1, <3>2
    <3>4. (p \o bytes)[c + 2 + i] = bytes[i]
      BY <1>6, <1>9, <1>a, <3>2
    <3>. QED
      BY <3>2, <3>3, <3>4
  <2>3. k \in Int /\ c \in Int
    BY <1>3, <2>0
  <2>4. k <= c \/ k > c
    BY <2>3
  <2>. QED
    BY <2>1, <2>2, <2>4
<1>d. DOMAIN dec'.buffer = 1 .. NSIZE
  BY <1>5
<1>e. dec'.at = "WAIT_FOR_CHECK_SUM_L" => c + n = l
  <2>1. c + n \in Int /\ c + n <= l /\ l \in Int
    BY <1>2, <1>b
  <2>2. dec'.at = "WAIT_FOR_CHECK_SUM_L" => c + n >= l
    BY <1>5
  <2>3. PICK t : t = c + n
    OBVIOUS
  <2>. QED
    BY <2>1, <2>2, <2>3
<1>f. dec'.hwCheckSUM = p \o bytes
  BY <1>5, <1>8
<1>g. dec'.at \in {"WAIT_FOR_DATA", "WAIT_FOR_CHECK_SUM_L"} /\ dec'.hwLength \in Nat /\ dec'.hwCounter \in 0 .. dec'.hwLength
  BY <1>2, <1>5, <1>b
<1>. HIDE DEF c, l, sum
<1>h. /\ Len(dec'.hwCheckSUM) = dec'.hwCounter + 2 /\ Sequence(dec'.hwCheckSUM)
      /\ (dec'.bUnsupportFrame <=> dec'.hwLength > NSIZE)
      /\ \A k \in 1 .. dec'.hwCounter : k <= NSIZE => dec'.buffer[k] = dec'.hwCheckSUM[k + 2]
      /\ dec'.at = "WAIT_FOR_CHECK_SUM_L" => dec'.hwCounter = dec'.hwLength
  BY <1>2, <1>5, <1>a, <1>b, <1>c, <1>e, <1>f
<1>. QED
  BY <1>5, <1>7, <1>d, <1>g, <1>h DEF Decoding

\* The first byte of the checksum, and a checksum that is wrong.
LEMMA CheckSumDecoded ==
  ASSUME Decoding, WaitForCheckSumL \/ (WaitForCheckSumH /\ Mismatch)
  PROVE  Decoding'
<1>1. IsDec(dec) /\ Bytes(rx) /\ DOMAIN dec.buffer = 1 .. NSIZE
  BY DEF Decoding
<1>2. CASE WaitForCheckSumL
  <2>1. /\ rx # <<>> /\ rx' = Tail(rx) /\ dec.at = "WAIT_FOR_CHECK_SUM_L"
        /\ \E at \in {"WAIT_FOR_CHECK_SUM_H", "START"} : dec' = [dec EXCEPT !.at = at]
    BY <1>2 DEF WaitForCheckSumL, Reads
  <2>2. /\ IsDec(dec') /\ dec'.at \in {"WAIT_FOR_CHECK_SUM_H", "START"}
        /\ dec'.hwCheckSUM = dec.hwCheckSUM /\ dec'.buffer = dec.buffer /\ dec'.hwLength = dec.hwLength
        /\ dec'.hwCounter = dec.hwCounter /\ dec'.bUnsupportFrame = dec.bUnsupportFrame
    BY <1>1, <2>1 DEF IsDec
  <2>3. Bytes(rx')
    BY <1>1, <2>1, ByteRead
  <2>. QED
    BY <2>1, <2>2, <2>3 DEF Decoding
<1>3. CASE WaitForCheckSumH /\ Mismatch
  <2>1. rx # <<>> /\ rx' = Tail(rx) /\ dec' = [dec EXCEPT !.at = "START"]
    BY <1>3 DEF WaitForCheckSumH, Mismatch
  <2>2. IsDec(dec') /\ dec'.at = "START" /\ dec'.buffer = dec.buffer
    BY <1>1, <2>1 DEF IsDec
  <2>3. Bytes(rx')
    BY <1>1, <2>1, ByteRead
  <2>. QED
    BY <1>1, <2>2, <2>3 DEF Decoding
<1>. QED
  BY <1>2, <1>3

\* A beginning of anything.
LEMMA Beginning == ASSUME NEW q, NEW k \in Nat
                   PROVE  /\ Sequence(SubSeq(q, 1, k)) /\ Len(SubSeq(q, 1, k)) = k
                          /\ \A i \in 1 .. k : SubSeq(q, 1, k)[i] = q[i]
<1>1. k \in Int /\ (IF 1 <= k THEN k - 1 + 1 ELSE 0) = k /\ k - 1 + 1 = k
  OBVIOUS
<1>2. Sequence(SubSeq(q, 1, k))
  BY <1>1, Part
<1>3. Len(SubSeq(q, 1, k)) = IF 1 <= k THEN k - 1 + 1 ELSE 0
  BY <1>1, Part
<1>4. \A i \in 1 .. k - 1 + 1 : SubSeq(q, 1, k)[i] = q[1 + i - 1]
  BY <1>1, Part
<1>5. \A i \in 1 .. k : 1 + i - 1 = i
  OBVIOUS
<1>. QED
  BY <1>1, <1>2, <1>3, <1>4, <1>5

\* The first elements.
LEMMA FirstOnes == ASSUME NEW q
                   PROVE  /\ SubSeq(q, 1, 0) = <<>>
                          /\ SubSeq(q, 1, 1) = <<q[1]>>
                          /\ SubSeq(q, 1, 2) = <<q[1], q[2]>>
<1>1. SubSeq(q, 1, 0) = <<>>
  <2>1. PICK k \in Nat : k = 0
    OBVIOUS
  <2>2. Sequence(SubSeq(q, 1, k)) /\ Len(SubSeq(q, 1, k)) = k
    BY Beginning
  <2>3. SubSeq(q, 1, k) = <<>>
    BY <2>1, <2>2, NoElement
  <2>. QED
    BY <2>1, <2>3
<1>2. SubSeq(q, 1, 1) = <<q[1]>>
  <2>1. /\ Sequence(SubSeq(q, 1, 1)) /\ Len(SubSeq(q, 1, 1)) = 1
        /\ \A i \in 1 .. 1 : SubSeq(q, 1, 1)[i] = q[i]
    <3>1. PICK k \in Nat : k = 1
      OBVIOUS
    <3>2. /\ Sequence(SubSeq(q, 1, k)) /\ Len(SubSeq(q, 1, k)) = k
          /\ \A i \in 1 .. k : SubSeq(q, 1, k)[i] = q[i]
      BY Beginning
    <3>. QED
      BY <3>1, <3>2
  <2>2. PICK a, b, e : a = SubSeq(q, 1, 1) /\ e = q[1] /\ b = <<e>>
    OBVIOUS
  <2>3. Sequence(b) /\ Len(b) = 1 /\ b[1] = e
    BY <2>2, Short
  <2>4. Sequence(a) /\ Len(a) = 1 /\ a[1] = e
    <3>1. 1 \in 1 .. 1
      OBVIOUS
    <3>. QED
      BY <2>1, <2>2, <3>1
  <2>5. \A i \in 1 .. 1 : a[i] = b[i]
    BY <2>3, <2>4
  <2>6. a = b
    BY <2>3, <2>4, <2>5, Equal
  <2>. QED
    BY <2>2, <2>6
<1>3. SubSeq(q, 1, 2) = <<q[1], q[2]>>
  <2>1. /\ Sequence(SubSeq(q, 1, 2)) /\ Len(SubSeq(q, 1, 2)) = 2
        /\ \A i \in 1 .. 2 : SubSeq(q, 1, 2)[i] = q[i]
    <3>1. PICK k \in Nat : k = 2
      OBVIOUS
    <3>2. /\ Sequence(SubSeq(q, 1, k)) /\ Len(SubSeq(q, 1, k)) = k
          /\ \A i \in 1 .. k : SubSeq(q, 1, k)[i] = q[i]
      BY Beginning
    <3>. QED
      BY <3>1, <3>2
  <2>2. PICK a, b, e, f : a = SubSeq(q, 1, 2) /\ e = q[1] /\ f = q[2] /\ b = <<e, f>>
    OBVIOUS
  <2>3. Sequence(b) /\ Len(b) = 2 /\ b[1] = e /\ b[2] = f
    BY <2>2, Short
  <2>4. Sequence(a) /\ Len(a) = 2 /\ a[1] = e /\ a[2] = f
    <3>1. 1 \in 1 .. 2 /\ 2 \in 1 .. 2
      OBVIOUS
    <3>. QED
      BY <2>1, <2>2, <3>1
  <2>5. \A i \in 1 .. 2 : a[i] = b[i]
    <3>1. \A i \in 1 .. 2 : i = 1 \/ i = 2
      OBVIOUS
    <3>. QED
      BY <2>3, <2>4, <3>1
  <2>6. a = b
    BY <2>3, <2>4, <2>5, Equal
  <2>. QED
    BY <2>2, <2>6
<1>. QED
  BY <1>1, <1>2, <1>3

\* The largest of some numbers.
LEMMA Greatest == ASSUME NEW n \in Nat, NEW T, T \subseteq 1 .. n, T # {}
                  PROVE  Max(T) \in T /\ \A y \in T : y <= Max(T)
<1>. DEFINE above == {x \in Nat : \A y \in T : y <= x}
<1>1. above \subseteq Nat /\ n \in above
  OBVIOUS
<1>2. PICK m \in above : \A x \in above : m <= x
  BY <1>1, Least
<1>3. m \in T
  <2>. SUFFICES ASSUME m \notin T PROVE FALSE
    OBVIOUS
  <2>1. PICK t \in T : TRUE
    OBVIOUS
  <2>2. m \in Nat /\ \A y \in T : y \in Nat /\ y <= m /\ y # m /\ y >= 1
    OBVIOUS
  <2>3. m - 1 \in Nat /\ \A y \in T : y <= m - 1
    BY <2>1, <2>2
  <2>4. m - 1 \in above
    BY <2>3
  <2>. QED
    BY <1>2, <2>2, <2>4
<1>4. \E x \in T : \A y \in T : x >= y
  <2>1. \A y \in T : y <= m /\ y \in Nat /\ m \in Nat
    OBVIOUS
  <2>. QED
    BY <1>3, <2>1
<1>5. Max(T) \in T /\ \A y \in T : Max(T) >= y
  BY <1>4 DEF Max
<1>6. \A y \in T : y \in Nat
  OBVIOUS
<1>. QED
  BY <1>5, <1>6

MemoryCommands == {"write", "read", "erase", "secure"}

\* What a command does that is carried out.
Done(c, buffer, index) ==
    CASE index = "write"  -> [content |-> buffer[3], secured |-> c.secured]
      [] index = "read"   -> c
      [] index = "erase"  -> [content |-> EMPTY, secured |-> FALSE]
      [] index = "secure" -> [content |-> c.content, secured |-> TRUE]

ReplyOf(a) == SubSeq(a.buffer, 1, a.size)

Beginning1(buffer, e) == [buffer EXCEPT ![1] = e]

\* A reply of one byte, which is written to the beginning of the buffer.
LEMMA OneByte == ASSUME NEW c, NEW buffer, DOMAIN buffer = 1 .. NSIZE, NEW e
                 PROVE  /\ ReplyOf(Answer(c, Beginning1(buffer, e), 1)) = <<e>>
                        /\ Answer(c, Beginning1(buffer, e), 1).cell = c
                        /\ DOMAIN Answer(c, Beginning1(buffer, e), 1).buffer = 1 .. NSIZE
<1>. DEFINE a == Answer(c, Beginning1(buffer, e), 1)
<1>1. a.cell = c /\ a.buffer = [buffer EXCEPT ![1] = e] /\ a.size = 1
  BY DEF Answer, Beginning1
<1>2. NSIZE \in Nat /\ 1 \in 1 .. NSIZE
  BY FrameAssumption
<1>3. DOMAIN a.buffer = 1 .. NSIZE /\ a.buffer[1] = e
  BY <1>1, <1>2
<1>. HIDE DEF a
<1>4. PICK q : q = a.buffer
  OBVIOUS
<1>5. SubSeq(q, 1, 1) = <<q[1]>>
  BY FirstOnes
<1>6. ReplyOf(a) = <<e>>
  BY <1>1, <1>3, <1>4, <1>5 DEF ReplyOf
<1>. QED
  BY <1>1, <1>3, <1>6 DEF a

\* A reply of none.
LEMMA NoByte == ASSUME NEW c, NEW buffer
                PROVE  LET a == Answer(c, buffer, 0) IN ReplyOf(a) = <<>> /\ a.cell = c /\ a.buffer = buffer
<1>1. Answer(c, buffer, 0).cell = c /\ Answer(c, buffer, 0).buffer = buffer /\ Answer(c, buffer, 0).size = 0
  BY DEF Answer
<1>2. SubSeq(buffer, 1, 0) = <<>>
  BY FirstOnes
<1>. QED
  BY <1>1, <1>2 DEF ReplyOf

\* A command that is carried out.
LEMMA AccessDoes ==
  ASSUME NEW c, c = [content |-> c.content, secured |-> c.secured],
         NEW buffer, DOMAIN buffer = 1 .. NSIZE, NEW index \in MemoryCommands
  PROVE  /\ Access(c, buffer, index).cell = Done(c, buffer, index)
         /\ ReplyOf(Access(c, buffer, index)) =
               IF index = "read" THEN <<IAP_RSP_OK, c.content>> ELSE <<IAP_RSP_OK>>
         /\ DOMAIN Access(c, buffer, index).buffer = 1 .. NSIZE
<1>. DEFINE ok == [buffer EXCEPT ![1] = IAP_RSP_OK]
<1>0. ok = Beginning1(buffer, IAP_RSP_OK)
  BY DEF Beginning1
<1>. HIDE DEF ok
<1>1. ASSUME NEW d
      PROVE  /\ ReplyOf(Answer(d, ok, 1)) = <<IAP_RSP_OK>>
             /\ Answer(d, ok, 1).cell = d /\ DOMAIN Answer(d, ok, 1).buffer = 1 .. NSIZE
  BY <1>0, OneByte
<1>. USE DEF ok
<1>2. CASE index = "write"
  <2>1. Access(c, buffer, index) = Answer([c EXCEPT !.content = buffer[3]], ok, 1)
    BY <1>2 DEF Access
  <2>2. [c EXCEPT !.content = buffer[3]] = [content |-> buffer[3], secured |-> c.secured]
    OBVIOUS
  <2>3. Done(c, buffer, index) = [content |-> buffer[3], secured |-> c.secured]
    BY <1>2 DEF Done
  <2>. HIDE DEF ok
  <2>. QED
    BY <1>1, <1>2, <2>1, <2>2, <2>3
<1>3. CASE index = "erase"
  <2>1. Access(c, buffer, index) = Answer([content |-> EMPTY, secured |-> FALSE], ok, 1)
    BY <1>3 DEF Access
  <2>2. Done(c, buffer, index) = [content |-> EMPTY, secured |-> FALSE]
    BY <1>3 DEF Done
  <2>. HIDE DEF ok
  <2>. QED
    BY <1>1, <1>3, <2>1, <2>2
<1>4. CASE index = "secure"
  <2>1. Access(c, buffer, index) = Answer([c EXCEPT !.secured = TRUE], ok, 1)
    BY <1>4 DEF Access
  <2>2. [c EXCEPT !.secured = TRUE] = [content |-> c.content, secured |-> TRUE]
    <3>1. PICK t : t = TRUE
      OBVIOUS
    <3>2. [c EXCEPT !.secured = t] = [content |-> c.content, secured |-> t]
      OBVIOUS
    <3>. QED
      BY <3>1, <3>2, Zenon
  <2>3. Done(c, buffer, index) = [content |-> c.content, secured |-> TRUE]
    BY <1>4 DEF Done
  <2>. HIDE DEF ok
  <2>. QED
    BY <1>1, <1>4, <2>1, <2>2, <2>3
<1>5. CASE index = "read"
  <2>. DEFINE both == [ok EXCEPT ![2] = c.content]
  <2>1. Access(c, buffer, index) = Answer(c, both, 2) /\ Done(c, buffer, index) = c
    BY <1>5 DEF Access, Done
  <2>2. NSIZE \in Nat /\ 1 \in 1 .. NSIZE /\ 2 \in 1 .. NSIZE
    BY FrameAssumption
  <2>3. DOMAIN both = 1 .. NSIZE /\ both[1] = IAP_RSP_OK /\ both[2] = c.content
    BY <2>2
  <2>. HIDE DEF both
  <2>4. Answer(c, both, 2).cell = c /\ Answer(c, both, 2).buffer = both /\ Answer(c, both, 2).size = 2
    BY DEF Answer
  <2>5. SubSeq(both, 1, 2) = <<both[1], both[2]>>
    BY FirstOnes
  <2>6. ReplyOf(Answer(c, both, 2)) = <<IAP_RSP_OK, c.content>>
    BY <2>3, <2>4, <2>5 DEF ReplyOf
  <2>. QED
    BY <1>5, <2>1, <2>3, <2>4, <2>6
<1>. QED
  BY <1>2, <1>3, <1>4, <1>5 DEF MemoryCommands

\* A memory command.
LEMMA MemoryDoes ==
  ASSUME NEW c, c = [content |-> c.content, secured |-> c.secured],
         NEW buffer, DOMAIN buffer = 1 .. NSIZE, NEW index \in MemoryCommands
  PROVE  LET a == cmd_memory_handler(c, buffer, index)
         IN /\ DOMAIN a.buffer = 1 .. NSIZE
            /\ c.secured /\ index # "erase" => ReplyOf(a) = <<>> /\ a.cell = c
            /\ ~(c.secured /\ index # "erase") =>
                  \/ ReplyOf(a) = <<IAP_RSP_ERROR>> /\ a.cell = c
                  \/ /\ ReplyOf(a) = IF index = "read" THEN <<IAP_RSP_OK, c.content>> ELSE <<IAP_RSP_OK>>
                     /\ a.cell = Done(c, buffer, index)
<1>. DEFINE a == cmd_memory_handler(c, buffer, index)
<1>1. CASE c.secured /\ index # "erase"
  <2>1. a = Answer(c, buffer, 0)
    BY <1>1 DEF cmd_memory_handler
  <2>2. ReplyOf(Answer(c, buffer, 0)) = <<>> /\ Answer(c, buffer, 0).cell = c /\ Answer(c, buffer, 0).buffer = buffer
    BY NoByte
  <2>. HIDE DEF a
  <2>3. DOMAIN a.buffer = 1 .. NSIZE /\ ReplyOf(a) = <<>> /\ a.cell = c
    BY <2>1, <2>2
  <2>. QED
    BY <1>1, <2>3 DEF a
<1>2. CASE ~(c.secured /\ index # "erase")
  <2>. DEFINE error == Answer(c, [buffer EXCEPT ![1] = IAP_RSP_ERROR], 1)
  <2>1. a = error \/ a = Access(c, buffer, index)
    BY <1>2 DEF cmd_memory_handler
  <2>2. ReplyOf(error) = <<IAP_RSP_ERROR>> /\ error.cell = c /\ DOMAIN error.buffer = 1 .. NSIZE
    <3>1. error = Answer(c, Beginning1(buffer, IAP_RSP_ERROR), 1)
      BY DEF Beginning1
    <3>. HIDE DEF error
    <3>. QED
      BY <3>1, OneByte
  <2>3. /\ Access(c, buffer, index).cell = Done(c, buffer, index)
        /\ ReplyOf(Access(c, buffer, index)) =
              IF index = "read" THEN <<IAP_RSP_OK, c.content>> ELSE <<IAP_RSP_OK>>
        /\ DOMAIN Access(c, buffer, index).buffer = 1 .. NSIZE
    BY AccessDoes
  <2>. HIDE DEF a, error
  <2>4. /\ DOMAIN a.buffer = 1 .. NSIZE
        /\ \/ ReplyOf(a) = <<IAP_RSP_ERROR>> /\ a.cell = c
           \/ /\ ReplyOf(a) = IF index = "read" THEN <<IAP_RSP_OK, c.content>> ELSE <<IAP_RSP_OK>>
              /\ a.cell = Done(c, buffer, index)
    <3>1. CASE a = error
      BY <2>2, <3>1
    <3>2. CASE a = Access(c, buffer, index)
      BY <2>3, <3>2
    <3>. QED
      BY <2>1, <3>1, <3>2
  <2>. QED
    BY <1>2, <2>4 DEF a
<1>. QED
  BY <1>1, <1>2

\* What is parsed, as the histories will name it.
Asks(fits, buffer) == IF fits /\ buffer[1] \in DOMAIN c_tCMDMap THEN c_tCMDMap[buffer[1]] ELSE "none"

\* What comes of it.
LEMMA ParserDoes ==
  ASSUME NEW c, c = [content |-> c.content, secured |-> c.secured],
         NEW buffer, DOMAIN buffer = 1 .. NSIZE, NEW fits \in BOOLEAN,
         NEW a, a = IF ~fits THEN Answer(c, [buffer EXCEPT ![1] = ERROR], 1)
                    ELSE booloader_command_parser(c, buffer)
  PROVE  LET h == Asks(fits, buffer)
         IN /\ DOMAIN a.buffer = 1 .. NSIZE
            /\ h \in MemoryCommands \cup {"none", "ack", "resume"}
            /\ ~fits => h = "none" /\ ReplyOf(a) = <<ERROR>> /\ a.cell = c
            /\ fits /\ h \in {"none", "resume"} => ReplyOf(a) = <<>> /\ a.cell = c
            /\ h = "ack" => ReplyOf(a) = INFO /\ a.cell = c
            /\ h \in MemoryCommands /\ c.secured /\ h # "erase" => ReplyOf(a) = <<>> /\ a.cell = c
            /\ h \in MemoryCommands /\ ~(c.secured /\ h # "erase") =>
                  \/ ReplyOf(a) = <<IAP_RSP_ERROR>> /\ a.cell = c
                  \/ /\ ReplyOf(a) = IF h = "read" THEN <<IAP_RSP_OK, c.content>> ELSE <<IAP_RSP_OK>>
                     /\ a.cell = Done(c, buffer, h)
<1>. DEFINE h == Asks(fits, buffer)
<1>1. CASE ~fits
  <2>1. a = Answer(c, Beginning1(buffer, ERROR), 1) /\ h = "none"
    BY <1>1 DEF Beginning1, Asks
  <2>2. /\ ReplyOf(Answer(c, Beginning1(buffer, ERROR), 1)) = <<ERROR>>
        /\ Answer(c, Beginning1(buffer, ERROR), 1).cell = c
        /\ DOMAIN Answer(c, Beginning1(buffer, ERROR), 1).buffer = 1 .. NSIZE
    BY OneByte
  <2>3. DOMAIN a.buffer = 1 .. NSIZE /\ ReplyOf(a) = <<ERROR>> /\ a.cell = c
    BY <2>1, <2>2
  <2>. QED
    BY <1>1, <2>1, <2>3 DEF MemoryCommands
<1>2. CASE fits /\ buffer[1] \notin DOMAIN c_tCMDMap
  <2>1. a = Answer(c, buffer, 0) /\ h = "none"
    BY <1>2 DEF booloader_command_parser, Asks
  <2>2. /\ ReplyOf(Answer(c, buffer, 0)) = <<>> /\ Answer(c, buffer, 0).cell = c
        /\ Answer(c, buffer, 0).buffer = buffer
    BY NoByte
  <2>3. DOMAIN a.buffer = 1 .. NSIZE /\ ReplyOf(a) = <<>> /\ a.cell = c
    BY <2>1, <2>2
  <2>. QED
    BY <1>2, <2>1, <2>3 DEF MemoryCommands
<1>3. CASE fits /\ buffer[1] \in DOMAIN c_tCMDMap
  <2>0. h = c_tCMDMap[buffer[1]] /\ h \in {"ack", "resume", "write", "read", "erase", "secure"}
    BY <1>3, BootloaderAssumption DEF Asks
  <2>1. CASE h = "resume"
    <3>1. a = Answer(c, buffer, 0)
      BY <1>3, <2>0, <2>1 DEF booloader_command_parser, cmd_resume_handler
    <3>2. /\ ReplyOf(Answer(c, buffer, 0)) = <<>> /\ Answer(c, buffer, 0).cell = c
          /\ Answer(c, buffer, 0).buffer = buffer
      BY NoByte
    <3>3. DOMAIN a.buffer = 1 .. NSIZE /\ ReplyOf(a) = <<>> /\ a.cell = c
      BY <3>1, <3>2
    <3>. QED
      BY <1>3, <2>1, <3>3 DEF MemoryCommands
  <2>2. CASE h = "ack"
    <3>. DEFINE b == [i \in DOMAIN buffer |-> IF i \in DOMAIN INFO THEN INFO[i] ELSE buffer[i]]
    <3>1. a = Answer(c, b, Len(INFO))
      <4>1. c_tCMDMap[buffer[1]] = "ack"
        BY <2>0, <2>2
      <4>2. a = cmd_ack_handler(c, buffer)
        BY <1>3, <4>1 DEF booloader_command_parser
      <4>3. cmd_ack_handler(c, buffer) = Answer(c, b, Len(INFO))
        BY DEF cmd_ack_handler
      <4>. HIDE DEF b
      <4>. QED
        BY <4>2, <4>3
    <3>2. a.cell = c /\ a.buffer = b /\ a.size = Len(INFO)
      <4>. HIDE DEF b
      <4>1. /\ Answer(c, b, Len(INFO)).cell = c /\ Answer(c, b, Len(INFO)).buffer = b
            /\ Answer(c, b, Len(INFO)).size = Len(INFO)
        BY DEF Answer
      <4>. QED
        BY <3>1, <4>1
    <3>3. Sequence(INFO) /\ Len(INFO) \in Nat /\ DOMAIN INFO = 1 .. Len(INFO) /\ Len(INFO) <= NSIZE /\ NSIZE \in Nat
      BY FrameAssumption DEF Sequence
    <3>4. DOMAIN b = 1 .. NSIZE /\ \A i \in 1 .. Len(INFO) : b[i] = INFO[i]
      <4>1. \A i \in 1 .. Len(INFO) : i \in 1 .. NSIZE
        BY <3>3
      <4>. QED
        BY <3>3, <4>1
    <3>. HIDE DEF b
    <3>5. SubSeq(b, 1, Len(INFO)) = INFO
      <4>1. PICK k, q : k = Len(INFO) /\ q = SubSeq(b, 1, k)
        OBVIOUS
      <4>2. k \in Nat
        BY <3>3, <4>1
      <4>3. /\ Sequence(SubSeq(b, 1, k)) /\ Len(SubSeq(b, 1, k)) = k
            /\ \A i \in 1 .. k : SubSeq(b, 1, k)[i] = b[i]
        BY <4>2, Beginning
      <4>4. Sequence(q) /\ Len(q) = Len(INFO) /\ \A i \in 1 .. Len(q) : q[i] = INFO[i]
        BY <3>4, <4>1, <4>3
      <4>5. q = INFO
        BY <3>3, <4>4, Equal
      <4>. QED
        BY <4>1, <4>5
    <3>6. ReplyOf(a) = INFO
      BY <3>2, <3>5 DEF ReplyOf
    <3>. QED
      BY <1>3, <2>2, <3>2, <3>4, <3>6 DEF MemoryCommands
  <2>3. CASE h \in MemoryCommands
    <3>1. a = cmd_memory_handler(c, buffer, h)
      <4>1. h # "ack" /\ h # "resume"
        BY <2>3 DEF MemoryCommands
      <4>. QED
        BY <1>3, <2>0, <4>1 DEF booloader_command_parser
    <3>. HIDE DEF h
    <3>2. /\ DOMAIN cmd_memory_handler(c, buffer, h).buffer = 1 .. NSIZE
          /\ c.secured /\ h # "erase" =>
                /\ ReplyOf(cmd_memory_handler(c, buffer, h)) = <<>>
                /\ cmd_memory_handler(c, buffer, h).cell = c
          /\ ~(c.secured /\ h # "erase") =>
                \/ /\ ReplyOf(cmd_memory_handler(c, buffer, h)) = <<IAP_RSP_ERROR>>
                   /\ cmd_memory_handler(c, buffer, h).cell = c
                \/ /\ ReplyOf(cmd_memory_handler(c, buffer, h)) =
                         IF h = "read" THEN <<IAP_RSP_OK, c.content>> ELSE <<IAP_RSP_OK>>
                   /\ cmd_memory_handler(c, buffer, h).cell = Done(c, buffer, h)
      BY <2>3, MemoryDoes
    <3>3. h # "none" /\ h # "ack" /\ h # "resume"
      BY <2>3 DEF MemoryCommands
    <3>. QED
      BY <1>3, <2>3, <3>1, <3>2, <3>3 DEF h
  <2>. QED
    BY <2>0, <2>1, <2>2, <2>3 DEF MemoryCommands
<1>. QED
  BY <1>1, <1>2, <1>3

\* One frame more: what the histories said before they still say, and the new
\* frame is the last one.
LEMMA OneMore ==
  ASSUME Answered, NEW data, NEW reply,
         handled' = Append(handled, data), seen' = Append(seen, dec.buffer), answers' = Append(answers, reply)
  PROVE  /\ Answered' /\ Len(handled') = Len(handled) + 1 /\ Len(handled) \in Nat
         /\ DOMAIN handled = 1 .. Len(handled) /\ DOMAIN handled' = 1 .. Len(handled) + 1
         /\ \A i \in 1 .. Len(handled) :
               handled'[i] = handled[i] /\ seen'[i] = seen[i] /\ answers'[i] = answers[i]
         /\ handled'[Len(handled) + 1] = data /\ seen'[Len(handled) + 1] = dec.buffer
         /\ answers'[Len(handled) + 1] = reply
<1>. DEFINE n == Len(handled)
<1>1. /\ Sequence(handled) /\ Sequence(seen) /\ Sequence(answers) /\ n \in Nat
      /\ Len(seen) = n /\ Len(answers) = n /\ DOMAIN handled = 1 .. n
  BY DEF Answered, Sequence
<1>. HIDE DEF n
<1>3. Sequence(handled') /\ Len(handled') = n + 1 /\ (\A i \in 1 .. n : handled'[i] = handled[i]) /\ handled'[n + 1] = data
  <2>1. PICK q, r, e : q = handled /\ r = handled' /\ e = data
    OBVIOUS
  <2>a. Sequence(q)
    BY <1>1, <2>1
  <2>2. Sequence(q) /\ Len(q) = n /\ r = Append(q, e)
    <3>1. Sequence(q) /\ Len(q) = n
      BY <1>1, <2>1 DEF n
    <3>2. r = Append(q, e)
      BY <2>1
    <3>. QED
      BY <3>1, <3>2
  <2>3. Sequence(r) /\ Len(r) = n + 1 /\ (\A i \in 1 .. n : r[i] = q[i]) /\ r[n + 1] = e
    <3>1. Longer(q, e, Append(q, e))
      BY <2>a, AppendedIsLonger, Zenon
    <3>2. Longer(q, e, r)
      BY <2>2, <3>1
    <3>. QED
      BY <2>2, <3>2 DEF Longer
  <2>. QED
    BY <2>1, <2>3
<1>4. Sequence(seen') /\ Len(seen') = n + 1 /\ (\A i \in 1 .. n : seen'[i] = seen[i]) /\ seen'[n + 1] = dec.buffer
  <2>1. PICK q, r, e : q = seen /\ r = seen' /\ e = dec.buffer
    OBVIOUS
  <2>a. Sequence(q)
    BY <1>1, <2>1
  <2>2. Sequence(q) /\ Len(q) = n /\ r = Append(q, e)
    <3>1. Sequence(q) /\ Len(q) = n
      BY <1>1, <2>1 DEF n
    <3>2. r = Append(q, e)
      BY <2>1
    <3>. QED
      BY <3>1, <3>2
  <2>3. Sequence(r) /\ Len(r) = n + 1 /\ (\A i \in 1 .. n : r[i] = q[i]) /\ r[n + 1] = e
    <3>1. Longer(q, e, Append(q, e))
      BY <2>a, AppendedIsLonger, Zenon
    <3>2. Longer(q, e, r)
      BY <2>2, <3>1
    <3>. QED
      BY <2>2, <3>2 DEF Longer
  <2>. QED
    BY <2>1, <2>3
<1>5. Sequence(answers') /\ Len(answers') = n + 1 /\ (\A i \in 1 .. n : answers'[i] = answers[i]) /\ answers'[n + 1] = reply
  <2>1. PICK q, r, e : q = answers /\ r = answers' /\ e = reply
    OBVIOUS
  <2>a. Sequence(q)
    BY <1>1, <2>1
  <2>2. Sequence(q) /\ Len(q) = n /\ r = Append(q, e)
    <3>1. Sequence(q) /\ Len(q) = n
      BY <1>1, <2>1 DEF n
    <3>2. r = Append(q, e)
      BY <2>1
    <3>. QED
      BY <3>1, <3>2
  <2>3. Sequence(r) /\ Len(r) = n + 1 /\ (\A i \in 1 .. n : r[i] = q[i]) /\ r[n + 1] = e
    <3>1. Longer(q, e, Append(q, e))
      BY <2>a, AppendedIsLonger, Zenon
    <3>2. Longer(q, e, r)
      BY <2>2, <3>1
    <3>. QED
      BY <2>2, <3>2 DEF Longer
  <2>. QED
    BY <2>1, <2>3
<1>6. Answered'
  BY <1>3, <1>4, <1>5 DEF Answered
<1>7. DOMAIN handled' = 1 .. n + 1
  BY <1>1, <1>3 DEF Sequence
<1>. QED
  BY <1>1, <1>3, <1>4, <1>5, <1>6, <1>7 DEF n

\* The requests before the new frame are the same as before it.
LEMMA BeforeSame ==
  ASSUME NEW n \in Nat,
         \A i \in 1 .. n : handled'[i] = handled[i] /\ seen'[i] = seen[i] /\ answers'[i] = answers[i]
  PROVE  /\ \A i \in 1 .. n : Fits(i)' = Fits(i) /\ Handler(i)' = Handler(i)
         /\ \A i \in 1 .. n + 1 : \A hs : Before(i, hs)' = Before(i, hs)
         /\ \A i \in 1 .. n + 1 : SecuredBefore(i)' <=> SecuredBefore(i)
         /\ \A i \in 1 .. n + 1 : ContentBefore(i)' = ContentBefore(i)
         /\ \A i \in 1 .. n : Reply(i)' = Reply(i)
<1>1. \A i \in 1 .. n : Fits(i)' = Fits(i) /\ Handler(i)' = Handler(i)
  BY DEF Fits, Handler
<1>2. \A i \in 1 .. n + 1 : \A hs : Before(i, hs)' = Before(i, hs)
  <2>. SUFFICES ASSUME NEW i \in 1 .. n + 1, NEW hs PROVE Before(i, hs)' = Before(i, hs)
    OBVIOUS
  <2>1. \A j \in 1 .. i - 1 : j \in 1 .. n
    OBVIOUS
  <2>. QED
    BY <1>1, <2>1 DEF Before
<1>3. \A i \in 1 .. n + 1 : SecuredBefore(i)' <=> SecuredBefore(i)
  BY <1>2 DEF SecuredBefore
<1>4. \A i \in 1 .. n + 1 : ContentBefore(i)' = ContentBefore(i)
  <2>. SUFFICES ASSUME NEW i \in 1 .. n + 1 PROVE ContentBefore(i)' = ContentBefore(i)
    OBVIOUS
  <2>. DEFINE done == Before(i, {"write", "erase"})
  <2>1. done \subseteq 1 .. i - 1 /\ i - 1 \in Nat
    BY DEF Before
  <2>2. Before(i, {"write", "erase"})' = done
    BY <1>2
  <2>3. CASE done = {}
    BY <2>2, <2>3 DEF ContentBefore
  <2>4. CASE done # {}
    <3>. HIDE DEF done
    <3>1. PICK k, set, m : k = i - 1 /\ set = done /\ m = Max(set)
      OBVIOUS
    <3>2. k \in Nat /\ set \subseteq 1 .. k /\ set # {} /\ \A j \in 1 .. k : j \in 1 .. n
      BY <2>1, <2>4, <3>1
    <3>3. m \in 1 .. n
      BY <3>1, <3>2, Greatest
    <3>4. Handler(m)' = Handler(m) /\ seen'[m] = seen[m]
      BY <1>1, <3>3
    <3>5. ContentBefore(i) = IF Handler(m) = "erase" THEN EMPTY ELSE seen[m][3]
      <4>1. Before(i, {"write", "erase"}) = set
        BY <3>1 DEF done
      <4>. QED
        BY <3>1, <3>2, <4>1 DEF ContentBefore
    <3>6. ContentBefore(i)' = IF Handler(m)' = "erase" THEN EMPTY ELSE seen'[m][3]
      <4>1. Before(i, {"write", "erase"})' = set
        BY <2>2, <3>1
      <4>2. m = Max(Before(i, {"write", "erase"}))' /\ Before(i, {"write", "erase"})' # {}
        BY <3>1, <3>2, <4>1
      <4>. QED
        BY <4>2 DEF ContentBefore
    <3>. QED
      BY <3>4, <3>5, <3>6
  <2>. QED
    BY <2>3, <2>4
<1>5. \A i \in 1 .. n : Reply(i)' = Reply(i)
  <2>1. \A i \in 1 .. n : i \in 1 .. n + 1
    OBVIOUS
  <2>. QED
    BY <1>1, <1>3, <1>4, <2>1 DEF Reply
<1>. QED
  BY <1>1, <1>2, <1>3, <1>4, <1>5

\* What had been done before the next frame: what had been before this one, and
\* this one, if it was done.
LEMMA BeforeMore ==
  ASSUME NEW n \in Nat, \A hs : Before(n + 1, hs)' = Before(n + 1, hs), NEW hs
  PROVE  /\ Before(n + 1, hs) \subseteq 1 .. n
         /\ Handler(n + 1)' \in hs /\ answers'[n + 1] = <<IAP_RSP_OK>> =>
               Before(n + 2, hs)' = Before(n + 1, hs) \cup {n + 1}
         /\ ~(Handler(n + 1)' \in hs /\ answers'[n + 1] = <<IAP_RSP_OK>>) =>
               Before(n + 2, hs)' = Before(n + 1, hs)
<1>1. Before(n + 1, hs) \subseteq 1 .. n
  BY DEF Before
<1>2. n + 2 - 1 = n + 1 /\ n + 1 - 1 = n
  OBVIOUS
<1>3. \A j : j \in 1 .. n + 1 <=> j \in 1 .. n \/ j = n + 1
  OBVIOUS
<1>4. Before(n + 2, hs)' = {j \in 1 .. n + 1 : Handler(j)' \in hs /\ answers'[j] = <<IAP_RSP_OK>>}
  BY <1>2 DEF Before
<1>5. Before(n + 1, hs)' = {j \in 1 .. n : Handler(j)' \in hs /\ answers'[j] = <<IAP_RSP_OK>>}
  BY <1>2 DEF Before
<1>6. Before(n + 1, hs)' = Before(n + 1, hs)
  OBVIOUS
<1>7. ASSUME Handler(n + 1)' \in hs /\ answers'[n + 1] = <<IAP_RSP_OK>>
      PROVE  Before(n + 2, hs)' = Before(n + 1, hs) \cup {n + 1}
  BY <1>3, <1>4, <1>5, <1>6, <1>7
<1>8. ASSUME ~(Handler(n + 1)' \in hs /\ answers'[n + 1] = <<IAP_RSP_OK>>)
      PROVE  Before(n + 2, hs)' = Before(n + 1, hs)
  BY <1>3, <1>4, <1>5, <1>6, <1>8
<1>. QED
  BY <1>1, <1>7, <1>8

\* The memory stays what the histories say when a command is carried out.
LEMMA KeptDone ==
  ASSUME Kept, NEW n \in Nat, n = Len(handled), Len(handled') = n + 1, seen'[n + 1] = dec.buffer,
         \A i \in 1 .. n : Handler(i)' = Handler(i) /\ seen'[i] = seen[i],
         \A hs : Before(n + 1, hs)' = Before(n + 1, hs),
         NEW h \in {"write", "erase", "secure"}, Handler(n + 1)' = h,
         answers'[n + 1] = <<IAP_RSP_OK>>, cell' = Done(cell, dec.buffer, h)
  PROVE  Kept'
<1>1. /\ cell = [content |-> cell.content, secured |-> cell.secured] /\ cell.secured \in BOOLEAN
      /\ (cell.secured <=> SecuredBefore(n + 1)) /\ cell.content = ContentBefore(n + 1)
  BY DEF Kept
<1>2. PICK S, E, W, SS, EE, WW : /\ S = Before(n + 1, {"secure"}) /\ SS = Before(n + 2, {"secure"})'
                                 /\ E = Before(n + 1, {"erase"}) /\ EE = Before(n + 2, {"erase"})'
                                 /\ W = Before(n + 1, {"write", "erase"}) /\ WW = Before(n + 2, {"write", "erase"})'
  OBVIOUS
<1>3. S \subseteq 1 .. n /\ SS = IF h = "secure" THEN S \cup {n + 1} ELSE S
  BY <1>2, BeforeMore
<1>4. E \subseteq 1 .. n /\ EE = IF h = "erase" THEN E \cup {n + 1} ELSE E
  BY <1>2, BeforeMore
<1>5. W \subseteq 1 .. n /\ WW = IF h \in {"write", "erase"} THEN W \cup {n + 1} ELSE W
  BY <1>2, BeforeMore
<1>6. Len(handled)' + 1 = n + 2
  OBVIOUS
<1>7. SecuredBefore(n + 1) <=> \E j \in S : \A k \in E : k < j
  BY <1>2 DEF SecuredBefore
<1>8. SecuredBefore(n + 2)' <=> \E j \in SS : \A k \in EE : k < j
  BY <1>2 DEF SecuredBefore
<1>9. ContentBefore(n + 1) = IF W = {} \/ Handler(Max(W)) = "erase" THEN EMPTY ELSE seen[Max(W)][3]
  BY <1>2 DEF ContentBefore
<1>a. ContentBefore(n + 2)' = IF WW = {} \/ Handler(Max(WW))' = "erase" THEN EMPTY ELSE seen'[Max(WW)][3]
  BY <1>2 DEF ContentBefore
<1>b. ASSUME h \in {"write", "erase"} PROVE WW # {} /\ Max(WW) = n + 1
  <2>1. n + 1 \in WW
    BY <1>5, <1>b
  <2>2. WW \subseteq 1 .. n + 1 /\ n + 1 \in Nat
    <3>1. n + 1 \in Nat /\ n + 1 \in 1 .. n + 1 /\ \A x \in 1 .. n : x \in 1 .. n + 1
      OBVIOUS
    <3>. QED
      BY <1>5, <3>1
  <2>3. PICK k \in Nat : k = n + 1
    OBVIOUS
  <2>4. WW \subseteq 1 .. k /\ WW # {}
    BY <2>1, <2>2, <2>3
  <2>5. Max(WW) \in WW /\ \A y \in WW : y <= Max(WW)
    BY <2>4, Greatest
  <2>6. PICK m : m = Max(WW)
    OBVIOUS
  <2>7. m \in 1 .. n + 1 /\ n + 1 <= m
    BY <2>1, <2>2, <2>5, <2>6
  <2>8. m = n + 1
    BY <2>7
  <2>. QED
    BY <2>1, <2>6, <2>8
<1>c. CASE h = "write"
  <2>1. cell' = [content |-> dec.buffer[3], secured |-> cell.secured]
    BY <1>c DEF Done
  <2>2. SecuredBefore(n + 2)' <=> cell.secured
    BY <1>1, <1>3, <1>4, <1>7, <1>8, <1>c
  <2>3. Max(WW) = n + 1 /\ WW # {}
    BY <1>b, <1>c
  <2>4. ContentBefore(n + 2)' = dec.buffer[3]
    BY <1>a, <1>c, <2>3
  <2>. QED
    BY <1>1, <1>6, <2>1, <2>2, <2>4 DEF Kept
<1>d. CASE h = "erase"
  <2>1. cell' = [content |-> EMPTY, secured |-> FALSE]
    BY <1>d DEF Done
  <2>2. ~SecuredBefore(n + 2)'
    <3>1. n + 1 \in EE /\ \A j \in SS : j \in Nat /\ j <= n
      BY <1>3, <1>4, <1>d
    <3>2. \A j \in SS : ~(n + 1 < j)
      BY <3>1
    <3>. QED
      BY <1>8, <3>1, <3>2
  <2>3. Max(WW) = n + 1 /\ WW # {}
    BY <1>b, <1>d
  <2>4. ContentBefore(n + 2)' = EMPTY
    BY <1>a, <1>d, <2>3
  <2>. QED
    BY <1>6, <2>1, <2>2, <2>4 DEF Kept
<1>e. CASE h = "secure"
  <2>1. cell' = [content |-> cell.content, secured |-> TRUE]
    BY <1>e DEF Done
  <2>2. SecuredBefore(n + 2)'
    <3>1. n + 1 \in SS /\ \A k \in EE : k \in Nat /\ k <= n
      BY <1>3, <1>4, <1>e
    <3>2. \A k \in EE : k < n + 1
      BY <3>1
    <3>. QED
      BY <1>8, <3>1, <3>2
  <2>3. WW = W
    BY <1>5, <1>e
  <2>4. W = {} \/ Max(W) \in 1 .. n
    BY <1>5, Greatest
  <2>5. ContentBefore(n + 2)' = ContentBefore(n + 1)
    <3>1. CASE W = {}
      BY <1>9, <1>a, <2>3, <3>1
    <3>2. CASE W # {}
      <4>1. PICK m : m = Max(W)
        OBVIOUS
      <4>2. m \in 1 .. n
        BY <2>4, <3>2, <4>1
      <4>3. Handler(m)' = Handler(m) /\ seen'[m] = seen[m]
        BY <4>2
      <4>4. ContentBefore(n + 2)' = IF Handler(m)' = "erase" THEN EMPTY ELSE seen'[m][3]
        BY <1>a, <2>3, <3>2, <4>1
      <4>5. ContentBefore(n + 1) = IF Handler(m) = "erase" THEN EMPTY ELSE seen[m][3]
        BY <1>9, <3>2, <4>1
      <4>. QED
        BY <4>3, <4>4, <4>5
    <3>. QED
      BY <3>1, <3>2
  <2>. QED
    BY <1>1, <1>6, <2>1, <2>2, <2>5 DEF Kept
<1>. QED
  BY <1>c, <1>d, <1>e

\* A frame is parsed.
LEMMA ParseAnswers == ASSUME AnswersInv, WaitForCheckSumH, Parse PROVE AnswersInv'
<1>1. PICK a \in {IF dec.bUnsupportFrame
                  THEN Answer(cell, [dec.buffer EXCEPT ![1] = ERROR], 1)
                  ELSE booloader_command_parser(cell, dec.buffer)} :
        /\ cell' = a.cell
        /\ dec' = [dec EXCEPT !.at = "START", !.buffer = a.buffer, !.hwLength = a.size]
        /\ handled' = Append(handled, SubSeq(dec.hwCheckSUM, 3, Len(dec.hwCheckSUM)))
        /\ seen' = Append(seen, dec.buffer)
        /\ answers' = Append(answers, SubSeq(a.buffer, 1, a.size))
  BY DEF Parse
<1>2. /\ IsDec(dec) /\ Bytes(rx) /\ DOMAIN dec.buffer = 1 .. NSIZE
      /\ dec.hwLength \in Nat /\ Sequence(dec.hwCheckSUM) /\ Len(dec.hwCheckSUM) = dec.hwLength + 2
      /\ (dec.bUnsupportFrame <=> dec.hwLength > NSIZE)
      /\ \A k \in 1 .. dec.hwLength : k <= NSIZE => dec.buffer[k] = dec.hwCheckSUM[k + 2]
  BY DEF AnswersInv, Decoding, WaitForCheckSumH
<1>3. PICK fits \in BOOLEAN : fits <=> dec.hwLength <= NSIZE
  OBVIOUS
<1>4. dec.bUnsupportFrame <=> ~fits
  <2>1. NSIZE \in Nat
    BY FrameAssumption
  <2>2. dec.hwLength > NSIZE <=> ~(dec.hwLength <= NSIZE)
    BY <1>2, <2>1
  <2>. QED
    BY <1>2, <1>3, <2>2
<1>5. a = IF ~fits THEN Answer(cell, [dec.buffer EXCEPT ![1] = ERROR], 1)
          ELSE booloader_command_parser(cell, dec.buffer)
  <2>1. CASE fits
    BY <1>1, <1>4, <2>1
  <2>2. CASE ~fits
    BY <1>1, <1>4, <2>2
  <2>. QED
    BY <2>1, <2>2
<1>6. PICK h, data, reply, n : /\ h = Asks(fits, dec.buffer) /\ reply = ReplyOf(a) /\ n = Len(handled)
                               /\ data = SubSeq(dec.hwCheckSUM, 3, Len(dec.hwCheckSUM))
  OBVIOUS
<1>7. cell = [content |-> cell.content, secured |-> cell.secured] /\ cell.secured \in BOOLEAN
  BY DEF AnswersInv, Kept
<1>8. /\ DOMAIN a.buffer = 1 .. NSIZE
      /\ h \in MemoryCommands \cup {"none", "ack", "resume"}
      /\ ~fits => h = "none" /\ reply = <<ERROR>> /\ a.cell = cell
      /\ fits /\ h \in {"none", "resume"} => reply = <<>> /\ a.cell = cell
      /\ h = "ack" => reply = INFO /\ a.cell = cell
      /\ h \in MemoryCommands /\ cell.secured /\ h # "erase" => reply = <<>> /\ a.cell = cell
      /\ h \in MemoryCommands /\ ~(cell.secured /\ h # "erase") =>
            \/ reply = <<IAP_RSP_ERROR>> /\ a.cell = cell
            \/ /\ reply = IF h = "read" THEN <<IAP_RSP_OK, cell.content>> ELSE <<IAP_RSP_OK>>
               /\ a.cell = Done(cell, dec.buffer, h)
  <2>1. PICK c, buffer : c = cell /\ buffer = dec.buffer
    OBVIOUS
  <2>2. /\ c = [content |-> c.content, secured |-> c.secured] /\ DOMAIN buffer = 1 .. NSIZE
        /\ a = IF ~fits THEN Answer(c, [buffer EXCEPT ![1] = ERROR], 1)
               ELSE booloader_command_parser(c, buffer)
    BY <1>2, <1>5, <1>7, <2>1
  <2>3. h = Asks(fits, buffer) /\ reply = ReplyOf(a)
    BY <1>6, <2>1
  <2>. QED
    BY <2>1, <2>2, <2>3, ParserDoes
<1>9. /\ Answered' /\ Len(handled') = n + 1 /\ n \in Nat
      /\ DOMAIN handled = 1 .. n /\ DOMAIN handled' = 1 .. n + 1
      /\ \A i \in 1 .. n : handled'[i] = handled[i] /\ seen'[i] = seen[i] /\ answers'[i] = answers[i]
      /\ handled'[n + 1] = data /\ seen'[n + 1] = dec.buffer /\ answers'[n + 1] = reply
  <2>1. /\ Answered /\ handled' = Append(handled, data) /\ seen' = Append(seen, dec.buffer)
        /\ answers' = Append(answers, reply)
    BY <1>1, <1>6 DEF AnswersInv, ReplyOf
  <2>. QED
    BY <1>6, <2>1, OneMore
<1>a. /\ \A i \in 1 .. n : Fits(i)' = Fits(i) /\ Handler(i)' = Handler(i)
      /\ \A i \in 1 .. n + 1 : \A hs : Before(i, hs)' = Before(i, hs)
      /\ \A i \in 1 .. n + 1 : SecuredBefore(i)' <=> SecuredBefore(i)
      /\ \A i \in 1 .. n + 1 : ContentBefore(i)' = ContentBefore(i)
      /\ \A i \in 1 .. n : Reply(i)' = Reply(i)
  BY <1>9, BeforeSame
<1>b. Sequence(data) /\ Len(data) = dec.hwLength /\ \A k \in 1 .. dec.hwLength : data[k] = dec.hwCheckSUM[k + 2]
  <2>1. PICK sum, m, l : sum = dec.hwCheckSUM /\ m = 3 /\ l = dec.hwLength + 2
    OBVIOUS
  <2>2. m \in Nat /\ l \in Int /\ data = SubSeq(sum, m, l) /\ (IF m <= l THEN l - m + 1 ELSE 0) = dec.hwLength
    BY <1>2, <1>6, <2>1
  <2>3. Sequence(SubSeq(sum, m, l))
    BY <2>2, Part
  <2>4. Len(SubSeq(sum, m, l)) = IF m <= l THEN l - m + 1 ELSE 0
    BY <2>2, Part
  <2>5. \A i \in 1 .. l - m + 1 : SubSeq(sum, m, l)[i] = sum[m + i - 1]
    BY <2>2, Part
  <2>6. \A k \in 1 .. dec.hwLength : k \in 1 .. l - m + 1 /\ m + k - 1 = k + 2
    BY <1>2, <2>1
  <2>. QED
    BY <2>1, <2>2, <2>3, <2>4, <2>5, <2>6
<1>c. n + 1 \in 1 .. n + 1 /\ (\A i \in 1 .. n : i \in 1 .. n + 1) /\ \A i \in 1 .. n + 1 : i \in 1 .. n \/ i = n + 1
  BY <1>9
<1>d. (Fits(n + 1)' <=> fits) /\ Handler(n + 1)' = h
  <2>1. Fits(n + 1)' <=> fits
    BY <1>3, <1>9, <1>b DEF Fits
  <2>. QED
    BY <1>6, <1>9, <2>1 DEF Handler, Asks
<1>e. (SecuredBefore(n + 1)' <=> cell.secured) /\ ContentBefore(n + 1)' = cell.content
  BY <1>6, <1>a, <1>c DEF AnswersInv, Kept
<1>f. Decoding'
  <2>1. IsDec(dec') /\ dec'.at = "START" /\ dec'.buffer = a.buffer
    BY <1>1, <1>2 DEF IsDec
  <2>2. Bytes(rx')
    BY <1>2, ByteRead DEF WaitForCheckSumH
  <2>. QED
    BY <1>8, <2>1, <2>2 DEF Decoding
<1>g. reply \in Reply(n + 1)'
  <2>1. CASE ~fits
    BY <1>8, <1>d, <2>1 DEF Reply
  <2>2. CASE fits /\ h \in {"none", "resume"}
    BY <1>8, <1>d, <2>2 DEF Reply
  <2>3. CASE fits /\ h = "ack"
    <3>1. Reply(n + 1)' = {INFO}
      BY <1>d, <2>3 DEF Reply
    <3>. QED
      BY <1>8, <2>3, <3>1
  <2>4. CASE fits /\ h = "erase"
    <3>1. Reply(n + 1)' = {<<IAP_RSP_OK>>, <<IAP_RSP_ERROR>>}
      BY <1>d, <2>4 DEF Reply
    <3>2. reply \in {<<IAP_RSP_OK>>, <<IAP_RSP_ERROR>>}
      BY <1>8, <2>4 DEF MemoryCommands
    <3>. QED
      BY <3>1, <3>2
  <2>5. CASE fits /\ h \in {"write", "read", "secure"}
    <3>1. Reply(n + 1)' = IF cell.secured THEN {<<>>}
                          ELSE {<<IAP_RSP_ERROR>>,
                                IF h = "read" THEN <<IAP_RSP_OK, cell.content>> ELSE <<IAP_RSP_OK>>}
      BY <1>d, <1>e, <2>5 DEF Reply
    <3>2. h \in MemoryCommands /\ h # "erase"
      BY <2>5 DEF MemoryCommands
    <3>3. IF cell.secured THEN reply = <<>>
          ELSE \/ reply = <<IAP_RSP_ERROR>>
               \/ reply = IF h = "read" THEN <<IAP_RSP_OK, cell.content>> ELSE <<IAP_RSP_OK>>
      BY <1>8, <3>2
    <3>. QED
      BY <3>1, <3>3
  <2>. QED
    BY <1>8, <2>1, <2>2, <2>3, <2>4, <2>5 DEF MemoryCommands
<1>h. AnswersRight'
  <2>. SUFFICES ASSUME NEW i \in 1 .. n + 1
                PROVE  /\ Fits(i)' => \A k \in DOMAIN handled'[i] : seen'[i][k] = handled'[i][k]
                       /\ answers'[i] \in Reply(i)'
    BY <1>9 DEF AnswersRight
  <2>1. CASE i \in 1 .. n
    <3>1. /\ Fits(i) => \A k \in DOMAIN handled[i] : seen[i][k] = handled[i][k]
          /\ answers[i] \in Reply(i)
      BY <1>9, <2>1 DEF AnswersInv, AnswersRight
    <3>. QED
      BY <1>9, <1>a, <2>1, <3>1
  <2>2. CASE i = n + 1
    <3>1. DOMAIN data = 1 .. dec.hwLength
      BY <1>b DEF Sequence
    <3>2. NSIZE \in Nat
      BY FrameAssumption
    <3>3. fits => \A k \in 1 .. dec.hwLength : k <= NSIZE
      BY <1>2, <1>3, <3>2
    <3>4. fits => \A k \in 1 .. dec.hwLength : dec.buffer[k] = data[k]
      BY <1>2, <1>b, <3>3
    <3>. QED
      BY <1>9, <1>d, <1>g, <2>2, <3>1, <3>4
  <2>. QED
    BY <1>c, <2>1, <2>2
<1>i. Kept'
  <2>0. \A x, y : <<x>> = <<y>> => x = y
    OBVIOUS
  <2>1. IAP_RSP_OK # IAP_RSP_ERROR /\ <<IAP_RSP_OK>> # <<IAP_RSP_ERROR>> /\ <<IAP_RSP_OK>> # <<>>
    <3>1. IAP_RSP_OK # IAP_RSP_ERROR
      BY BootloaderAssumption
    <3>2. Len(<<IAP_RSP_OK>>) = 1 /\ Len(<<>>) = 0
      BY Short
    <3>. QED
      BY <2>0, <3>1, <3>2
  <2>2. \A hs : Before(n + 1, hs)' = Before(n + 1, hs)
    BY <1>a, <1>c
  <2>3. CASE h \in {"write", "erase", "secure"} /\ reply = <<IAP_RSP_OK>>
    <3>1. h \in MemoryCommands /\ h # "read"
      BY <2>3 DEF MemoryCommands
    <3>2. a.cell = Done(cell, dec.buffer, h)
      BY <1>8, <2>1, <2>3, <3>1
    <3>3. cell' = Done(cell, dec.buffer, h) /\ answers'[n + 1] = <<IAP_RSP_OK>>
      BY <1>1, <1>9, <2>3, <3>2
    <3>4. Kept /\ \A i \in 1 .. n : Handler(i)' = Handler(i) /\ seen'[i] = seen[i]
      BY <1>9, <1>a DEF AnswersInv
    <3>. QED
      BY <1>6, <1>9, <1>d, <2>2, <2>3, <3>3, <3>4, KeptDone
  <2>4. CASE ~(h \in {"write", "erase", "secure"} /\ reply = <<IAP_RSP_OK>>)
    <3>1. a.cell = cell
      <4>1. CASE h \in {"none", "ack", "resume"}
        <5>1. fits \/ ~fits
          BY <1>3
        <5>. QED
          BY <1>8, <4>1, <5>1
      <4>2. CASE h = "read"
        <5>1. Done(cell, dec.buffer, h) = cell /\ h \in MemoryCommands
          BY <4>2 DEF Done, MemoryCommands
        <5>. QED
          BY <1>8, <5>1
      <4>3. CASE h \in {"write", "erase", "secure"}
        <5>1. h \in MemoryCommands /\ h # "read"
          BY <4>3 DEF MemoryCommands
        <5>. QED
          BY <1>8, <2>4, <4>3, <5>1
      <4>. QED
        BY <1>8, <4>1, <4>2, <4>3 DEF MemoryCommands
    <3>2. cell' = cell
      BY <1>1, <3>1
    <3>3. /\ Before(n + 2, {"secure"})' = Before(n + 1, {"secure"})
          /\ Before(n + 2, {"erase"})' = Before(n + 1, {"erase"})
          /\ Before(n + 2, {"write", "erase"})' = Before(n + 1, {"write", "erase"})
          /\ Before(n + 1, {"write", "erase"}) \subseteq 1 .. n
      <4>1. \A hs : hs \subseteq {"write", "erase", "secure"} =>
                 ~(Handler(n + 1)' \in hs /\ answers'[n + 1] = <<IAP_RSP_OK>>)
        BY <1>9, <1>d, <2>4
      <4>2. /\ {"secure"} \subseteq {"write", "erase", "secure"}
            /\ {"erase"} \subseteq {"write", "erase", "secure"}
            /\ {"write", "erase"} \subseteq {"write", "erase", "secure"}
        OBVIOUS
      <4>. QED
        BY <1>9, <2>2, <4>1, <4>2, BeforeMore
    <3>4. Kept /\ Len(handled)' + 1 = n + 2
      BY <1>9 DEF AnswersInv
    <3>5. SecuredBefore(n + 2)' <=> SecuredBefore(n + 1)
      BY <3>3 DEF SecuredBefore
    <3>6. ContentBefore(n + 2)' = ContentBefore(n + 1)
      <4>1. PICK W : W = Before(n + 1, {"write", "erase"})
        OBVIOUS
      <4>2. Before(n + 2, {"write", "erase"})' = W /\ W \subseteq 1 .. n
        BY <3>3, <4>1
      <4>3. ContentBefore(n + 1) = IF W = {} \/ Handler(Max(W)) = "erase" THEN EMPTY ELSE seen[Max(W)][3]
        BY <4>1 DEF ContentBefore
      <4>4. ContentBefore(n + 2)' = IF W = {} \/ Handler(Max(W))' = "erase" THEN EMPTY ELSE seen'[Max(W)][3]
        BY <4>2 DEF ContentBefore
      <4>5. CASE W = {}
        BY <4>3, <4>4, <4>5
      <4>6. CASE W # {}
        <5>1. PICK m : m = Max(W)
          OBVIOUS
        <5>2. m \in 1 .. n
          BY <1>9, <4>2, <4>6, <5>1, Greatest
        <5>3. Handler(m)' = Handler(m) /\ seen'[m] = seen[m]
          BY <1>9, <1>a, <5>2
        <5>. QED
          BY <4>3, <4>4, <5>1, <5>3
      <4>. QED
        BY <4>5, <4>6
    <3>. QED
      BY <1>6, <3>2, <3>4, <3>5, <3>6 DEF Kept
  <2>. QED
    BY <2>3, <2>4
<1>. QED
  BY <1>9, <1>f, <1>h, <1>i DEF AnswersInv

\* Every step keeps it.
LEMMA NextAnswers == AnswersInv /\ [Next]_vars => AnswersInv'
<1>. SUFFICES ASSUME AnswersInv, [Next]_vars PROVE AnswersInv'
  OBVIOUS
<1>1. ASSUME UNCHANGED decVars PROVE AnswersInv'
  <2>1. UNCHANGED <<rx, dec, cell, histVars>>
    BY <1>1 DEF decVars
  <2>2. Decoding'
    BY <2>1 DEF AnswersInv, Decoding
  <2>3. Answered' /\ Kept' /\ AnswersRight'
    BY <2>1, HistoryStays DEF AnswersInv
  <2>. QED
    BY <2>2, <2>3 DEF AnswersInv
<1>2. CASE Decoder
  <2>1. CASE WaitForCheckSumH /\ Parse
    BY <2>1, ParseAnswers
  <2>2. ASSUME Decoding', UNCHANGED <<cell, histVars>> PROVE AnswersInv'
    BY <2>2, HistoryStays DEF AnswersInv
  <2>3. CASE WaitForCheckSumH /\ Mismatch
    <3>1. UNCHANGED <<cell, histVars>>
      BY <2>3 DEF Mismatch
    <3>. QED
      BY <2>2, <2>3, <3>1, CheckSumDecoded DEF AnswersInv
  <2>4. CASE WaitForCheckSumL
    <3>1. UNCHANGED <<cell, histVars>>
      BY <2>4 DEF WaitForCheckSumL, Reads
    <3>. QED
      BY <2>2, <2>4, <3>1, CheckSumDecoded DEF AnswersInv
  <2>5. CASE WaitForData
    <3>1. UNCHANGED <<cell, histVars>>
      BY <2>5 DEF WaitForData
    <3>. QED
      BY <2>2, <2>5, <3>1, DataDecoded DEF AnswersInv
  <2>6. CASE DecoderStart \/ WaitForHead \/ WaitForLengthL \/ WaitForLengthH
    <3>1. UNCHANGED <<cell, histVars>>
      BY <2>6 DEF DecoderStart, WaitForHead, WaitForLengthL, WaitForLengthH, Reads
    <3>. QED
      BY <2>2, <2>6, <3>1, HeaderDecoded DEF AnswersInv
  <2>7. WaitForCheckSumH => Mismatch \/ Parse
    BY DEF WaitForCheckSumH
  <2>. QED
    BY <1>2, <2>1, <2>3, <2>4, <2>5, <2>6, <2>7 DEF Decoder
<1>3. CASE TaskStart \/ TaskLock \/ TaskReply \/ TaskReplied
  <2>1. UNCHANGED decVars
    BY <1>3 DEF TaskStart, TaskLock, TaskReply, TaskReplied
  <2>. QED
    BY <1>1, <2>1
<1>4. CASE UserStart \/ UserLock \/ UserEncode \/ UserSent
  <2>1. UNCHANGED decVars
    BY <1>4 DEF UserStart, UserLock, UserEncode, UserSent
  <2>. QED
    BY <1>1, <2>1
<1>5. CASE UNCHANGED vars
  <2>1. UNCHANGED decVars
    BY <1>5 DEF vars
  <2>. QED
    BY <1>1, <2>1
<1>. QED
  BY <1>2, <1>3, <1>4, <1>5 DEF Next, Task, Encoder

\* Every frame that is parsed is in the buffer, and the answer to it is right:
\* a secured device does nothing but an erase and tells nothing; otherwise a
\* read gets what was written last.
THEOREM Answers == Spec => []AnswersRight
<1>1. Init => AnswersInv
  BY InitAnswers
<1>2. AnswersInv /\ [Next]_vars => AnswersInv'
  BY NextAnswers
<1>3. AnswersInv => AnswersRight
  BY DEF AnswersInv
<1>. QED
  BY <1>1, <1>2, <1>3, PTL DEF Spec
-----------------------------------------------------------------------------
(* The bytes of a frame, one by one. *)

\* Where what is in a frame.
LEMMA EncodedBytes ==
  ASSUME NEW data, Sequence(data)
  PROVE  /\ Sequence(Encoded(data)) /\ Len(Encoded(data)) = Len(data) + 5
         /\ Encoded(data)[1] = HEAD
         /\ \A j \in 1 .. Len(data) + 2 : Encoded(data)[1 + j] = FrameBody(data)[j]
         /\ Encoded(data)[Len(data) + 4] = <<"L", FrameBody(data)>>
         /\ Encoded(data)[Len(data) + 5] = <<"H", FrameBody(data)>>
<1>. DEFINE n == Len(data)
            body == FrameBody(data)
<1>1. n \in Nat /\ Sequence(body) /\ Len(body) = n + 2
  BY EncodedIs DEF Sequence
<1>2. Encoded(data) = (<<HEAD>> \o body) \o CheckSum(body)
  BY EncodedIs
<1>. HIDE DEF n, body
<1>3. PICK a, b, h : a = <<"L", body>> /\ b = <<"H", body>> /\ h = <<HEAD>>
  OBVIOUS
<1>4. PICK c : c = <<a, b>>
  OBVIOUS
<1>5. Sequence(c) /\ Len(c) = 2 /\ c[1] = a /\ c[2] = b
  BY <1>4, Short
<1>6. Sequence(h) /\ Len(h) = 1 /\ h[1] = HEAD
  BY <1>3, Short
<1>7. PICK p : p = h \o body
  OBVIOUS
<1>8. /\ Sequence(p) /\ Len(p) = n + 3 /\ p[1] = HEAD
      /\ \A j \in 1 .. n + 2 : p[1 + j] = body[j]
  <2>1. /\ Sequence(h \o body) /\ Len(h \o body) = Len(h) + Len(body)
        /\ \A i \in 1 .. Len(h) : (h \o body)[i] = h[i]
        /\ \A i \in 1 .. Len(body) : (h \o body)[Len(h) + i] = body[i]
    <3>1. Sequence(h)
      BY <1>6
    <3>2. Sequence(body)
      BY <1>1
    <3>. QED
      BY <3>1, <3>2, Joined
  <2>2. Len(p) = n + 3
    BY <1>1, <1>6, <1>7, <2>1
  <2>3. p[1] = HEAD
    BY <1>6, <1>7, <2>1
  <2>4. \A j \in 1 .. n + 2 : p[1 + j] = body[j]
    BY <1>1, <1>6, <1>7, <2>1
  <2>. QED
    BY <1>7, <2>1, <2>2, <2>3, <2>4
<1>9. PICK q : q = p \o c
  OBVIOUS
<1>a. /\ Sequence(p \o c) /\ Len(p \o c) = Len(p) + Len(c)
      /\ \A i \in 1 .. Len(p) : (p \o c)[i] = p[i]
      /\ \A i \in 1 .. Len(c) : (p \o c)[Len(p) + i] = c[i]
  <2>1. Sequence(p)
    BY <1>8
  <2>2. Sequence(c)
    BY <1>5
  <2>. QED
    BY <2>1, <2>2, Joined
<1>b. Encoded(data) = q
  BY <1>2, <1>3, <1>4, <1>7, <1>9 DEF CheckSum
<1>c. Sequence(q) /\ Len(q) = n + 5
  BY <1>1, <1>5, <1>8, <1>9, <1>a
<1>d. q[1] = HEAD
  <2>1. 1 \in 1 .. Len(p)
    BY <1>1, <1>8
  <2>. QED
    BY <1>8, <1>9, <1>a, <2>1
<1>e. ASSUME NEW j \in 1 .. n + 2 PROVE q[1 + j] = body[j]
  <2>1. 1 + j \in 1 .. Len(p)
    BY <1>1, <1>8
  <2>. QED
    BY <1>8, <1>9, <1>a, <2>1
<1>f. q[n + 4] = a
  <2>1. 1 \in 1 .. Len(c) /\ Len(p) + 1 = n + 4
    BY <1>1, <1>5, <1>8
  <2>. QED
    BY <1>5, <1>9, <1>a, <2>1
<1>g. q[n + 5] = b
  <2>1. 2 \in 1 .. Len(c) /\ Len(p) + 2 = n + 5
    BY <1>1, <1>5, <1>8
  <2>. QED
    BY <1>5, <1>9, <1>a, <2>1
<1>. QED
  BY <1>3, <1>b, <1>c, <1>d, <1>e, <1>f, <1>g DEF n, body

\* All but the checksum of a frame of bytes are bytes.
LEMMA EncodedPlain ==
  ASSUME NEW data, Sequence(data), \A k \in 1 .. Len(data) : IsByte(data[k]), NEW j \in 1 .. Len(data) + 3
  PROVE  IsByte(Encoded(data)[j])
<1>1. Len(data) \in Nat
  BY DEF Sequence
<1>2. CASE j = 1
  BY <1>2, EncodedBytes, FrameAssumption
<1>3. CASE j # 1
  <2>1. PICK k : k = j - 1
    OBVIOUS
  <2>2. k \in 1 .. Len(data) + 2 /\ 1 + k = j
    BY <1>1, <1>3, <2>1
  <2>3. Encoded(data)[j] = FrameBody(data)[k]
    BY <2>2, EncodedBytes
  <2>4. CASE k > 2
    <3>1. PICK i : i = k - 2
      OBVIOUS
    <3>2. i \in 1 .. Len(data) /\ 2 + i = k
      BY <1>1, <2>2, <2>4, <3>1
    <3>3. FrameBody(data)[k] = data[i]
      BY <3>2, EncodedIs
    <3>. QED
      BY <2>3, <3>2, <3>3
  <2>5. CASE k <= 2
    <3>1. PICK x, y : x = Len(data) % BASE /\ y = Len(data) \div BASE
      OBVIOUS
    <3>2. x \in Nat /\ y \in Nat
      <4>1. BASE \in Nat \ {0}
        BY FrameAssumption
      <4>2. PICK m \in Nat : m = Len(data)
        BY <1>1
      <4>3. m % BASE \in Nat /\ m \div BASE \in Nat
        BY <4>1
      <4>. QED
        BY <3>1, <4>2, <4>3
    <3>3. IsByte(<<x>>) /\ IsByte(<<y>>)
      <4>1. <<x>>[1] = x /\ <<y>>[1] = y
        BY Short
      <4>. QED
        BY <3>2, <4>1 DEF IsByte
    <3>4. PICK a, b : a = <<x>> /\ b = <<y>>
      OBVIOUS
    <3>5. LengthBytes(Len(data)) = <<a, b>>
      BY <3>1, <3>4 DEF LengthBytes
    <3>6. <<a, b>>[1] = a /\ <<a, b>>[2] = b
      BY Short
    <3>7. FrameBody(data)[1] = a /\ FrameBody(data)[2] = b
      BY <3>5, <3>6, EncodedIs
    <3>8. k = 1 \/ k = 2
      BY <1>1, <2>2, <2>5
    <3>. QED
      BY <2>3, <3>3, <3>4, <3>7, <3>8
  <2>. QED
    BY <2>2, <2>4, <2>5
<1>. QED
  BY <1>2, <1>3

\* A byte is no byte of a checksum.
LEMMA NoToken == ASSUME NEW b, IsByte(b), NEW x, NEW y PROVE b # <<x, y>>
<1>1. Len(b) = 1
  BY ByteHasValue
<1>2. Len(<<x, y>>) = 2
  BY Short
<1>. QED
  BY <1>1, <1>2

\* Two bytes of checksums are the same if they say so.
LEMMA SameToken == ASSUME NEW a, NEW b, NEW x, NEW y, <<a, x>> = <<b, y>> PROVE a = b /\ x = y
<1>1. <<a, x>>[1] = a /\ <<a, x>>[2] = x
  BY Short
<1>2. <<b, y>>[1] = b /\ <<b, y>>[2] = y
  BY Short
<1>. QED
  BY <1>1, <1>2

LEMMA ZeroIsByte == IsByte(<<0>>)
<1>1. <<0>>[1] = 0
  BY Short
<1>. QED
  BY <1>1 DEF IsByte

-----------------------------------------------------------------------------
(* Where the pieces are in the input. *)

IsEnds(e, pieces, line) ==
    /\ e \in [0 .. Len(pieces) -> Nat] /\ e[0] = 0 /\ e[Len(pieces)] = Len(line)
    /\ \A i \in 1 .. Len(pieces) :
          /\ e[i] = e[i - 1] + Len(pieces[i])
          /\ \A j \in 1 .. Len(pieces[i]) : line[e[i - 1] + j] = pieces[i][j]

\* One piece more.
OneMorePiece(pieces, line, q, more, all) ==
    /\ Sequence(pieces) /\ Sequence(more) /\ Sequence(line) /\ Sequence(q)
    /\ \A i \in 1 .. Len(pieces) : Sequence(pieces[i])
    /\ Len(more) = Len(pieces) + 1 /\ more[Len(pieces) + 1] = q
    /\ \A i \in 1 .. Len(pieces) : more[i] = pieces[i]
    /\ all = line \o q

LEMMA EndsMore ==
  ASSUME NEW e, NEW pieces, NEW line, NEW q, NEW more, NEW all, IsEnds(e, pieces, line),
         OneMorePiece(pieces, line, q, more, all)
  PROVE  \E g : IsEnds(g, more, all)
<1>0. /\ Sequence(pieces) /\ Sequence(more) /\ Sequence(line) /\ Sequence(q)
      /\ \A i \in 1 .. Len(pieces) : Sequence(pieces[i])
      /\ Len(more) = Len(pieces) + 1 /\ more[Len(pieces) + 1] = q
      /\ \A i \in 1 .. Len(pieces) : more[i] = pieces[i]
      /\ all = line \o q
  BY DEF OneMorePiece
<1>. DEFINE n == Len(pieces)
            g == [i \in 0 .. n + 1 |-> IF i = n + 1 THEN e[n] + Len(q) ELSE e[i]]
<1>1. n \in Nat /\ Len(q) \in Nat /\ Len(line) \in Nat /\ \A i \in 1 .. n : Len(pieces[i]) \in Nat
  BY <1>0 DEF Sequence
<1>2. e \in [0 .. n -> Nat] /\ e[0] = 0 /\ e[n] = Len(line)
  BY DEF IsEnds
<1>3. \A i \in 1 .. n : /\ e[i] = e[i - 1] + Len(pieces[i])
                        /\ \A j \in 1 .. Len(pieces[i]) : line[e[i - 1] + j] = pieces[i][j]
  BY DEF IsEnds
<1>4. /\ Sequence(all) /\ Len(all) = Len(line) + Len(q)
      /\ \A i \in 1 .. Len(line) : all[i] = line[i]
      /\ \A i \in 1 .. Len(q) : all[Len(line) + i] = q[i]
  BY <1>0, Joined
<1>5. n + 1 = Len(more) /\ more[n + 1] = q /\ \A i \in 1 .. n : more[i] = pieces[i]
  BY <1>0
<1>. HIDE DEF n
<1>6. g \in [0 .. n + 1 -> Nat] /\ g[0] = 0 /\ g[n + 1] = Len(all)
  BY <1>1, <1>2, <1>4
<1>7. /\ g[n + 1] = e[n] + Len(q) /\ g[n] = e[n]
      /\ \A i \in 1 .. n : g[i] = e[i] /\ g[i - 1] = e[i - 1]
  BY <1>1
<1>. HIDE DEF g
<1>8. \A i \in 0 .. n : e[i] <= Len(line) /\ e[i] \in Nat
  <2>. DEFINE T == {k \in Nat : k <= n => e[n - k] <= Len(line)}
  <2>1. 0 \in T
    <3>1. n - 0 = n
      BY <1>1
    <3>. QED
      BY <1>1, <1>2, <3>1
  <2>2. ASSUME NEW k \in Nat, k \in T PROVE k + 1 \in T
    <3>. SUFFICES ASSUME k + 1 <= n PROVE e[n - (k + 1)] <= Len(line)
      OBVIOUS
    <3>1. PICK i : i = n - k
      OBVIOUS
    <3>2. i \in 1 .. n /\ i - 1 = n - (k + 1) /\ k <= n /\ i \in 0 .. n /\ i - 1 \in 0 .. n
      BY <1>1, <3>1
    <3>3. e[i] <= Len(line)
      BY <2>2, <3>1, <3>2
    <3>4. e[i] = e[i - 1] + Len(pieces[i]) /\ Len(pieces[i]) \in Nat /\ e[i] \in Nat /\ e[i - 1] \in Nat
      BY <1>1, <1>2, <1>3, <3>2
    <3>5. e[i - 1] <= Len(line)
      BY <1>1, <3>3, <3>4
    <3>. QED
      BY <3>2, <3>5
  <2>. HIDE DEF T
  <2>3. Nat \subseteq T
    BY <2>1, <2>2, Induction
  <2>4. ASSUME NEW i \in 0 .. n PROVE e[i] <= Len(line) /\ e[i] \in Nat
    <3>1. PICK k : k = n - i
      OBVIOUS
    <3>2. k \in Nat /\ k <= n /\ n - k = i
      BY <1>1, <3>1
    <3>3. e[n - k] <= Len(line)
      BY <2>3, <3>2 DEF T
    <3>. QED
      BY <1>2, <3>2, <3>3
  <2>. QED
    BY <2>4
<1>9. ASSUME NEW i \in 1 .. n + 1
      PROVE  /\ g[i] = g[i - 1] + Len(more[i])
             /\ \A j \in 1 .. Len(more[i]) : all[g[i - 1] + j] = more[i][j]
  <2>1. CASE i = n + 1
    <3>1. i - 1 = n
      BY <1>1, <2>1
    <3>2. g[i - 1] = Len(line) /\ more[i] = q
      BY <1>2, <1>5, <1>7, <2>1, <3>1
    <3>. QED
      BY <1>2, <1>4, <1>7, <2>1, <3>2
  <2>2. CASE i # n + 1
    <3>1. i \in 1 .. n /\ i - 1 \in 0 .. n /\ i \in 0 .. n
      BY <1>1, <2>2
    <3>2. more[i] = pieces[i] /\ g[i] = e[i] /\ g[i - 1] = e[i - 1] /\ Len(pieces[i]) \in Nat
      BY <1>1, <1>5, <1>7, <3>1
    <3>3. e[i] = e[i - 1] + Len(pieces[i]) /\ e[i] <= Len(line) /\ e[i] \in Nat /\ e[i - 1] \in Nat
      BY <1>3, <1>8, <3>1
    <3>4. ASSUME NEW j \in 1 .. Len(pieces[i]) PROVE all[e[i - 1] + j] = pieces[i][j]
      <4>1. e[i - 1] + j \in 1 .. Len(line)
        <5>1. PICK a, b, c, d : a = e[i - 1] /\ b = Len(pieces[i]) /\ c = Len(line) /\ d = e[i]
          OBVIOUS
        <5>2. a \in Nat /\ b \in Nat /\ c \in Nat /\ d = a + b /\ d <= c /\ j \in 1 .. b
          BY <1>1, <3>2, <3>3, <5>1
        <5>3. a + j \in 1 .. c
          BY <5>2
        <5>. QED
          BY <5>1, <5>3
      <4>2. line[e[i - 1] + j] = pieces[i][j]
        BY <1>3, <3>1
      <4>. QED
        BY <1>4, <4>1, <4>2
    <3>. QED
      BY <3>2, <3>3, <3>4
  <2>. QED
    BY <2>1, <2>2
<1>a. IsEnds(g, more, all)
  BY <1>5, <1>6, <1>9 DEF IsEnds
<1>. QED
  BY <1>a

\* There are such places.
LEMMA EndsExist ==
  ASSUME NEW pieces, Sequence(pieces), \A i \in 1 .. Len(pieces) : Sequence(pieces[i])
  PROVE  \E e : IsEnds(e, pieces, FlattenSeq(pieces))
<1>. DEFINE n == Len(pieces)
            T == {m \in Nat : m <= n => \E e : IsEnds(e, SubSeq(pieces, 1, m), FlattenSeq(SubSeq(pieces, 1, m)))}
<1>1. n \in Nat
  BY DEF Sequence
<1>2. 0 \in T
  <2>1. PICK p : p = SubSeq(pieces, 1, 0)
    OBVIOUS
  <2>2. Sequence(p) /\ Len(p) = 0
    BY <2>1, Beginning
  <2>3. p = <<>>
    BY <2>2, NoElement
  <2>4. FlattenSeq(p) = <<>>
    BY <2>3 DEF FlattenSeq
  <2>. DEFINE e == [i \in 0 .. 0 |-> 0]
  <2>5. e \in [0 .. 0 -> Nat] /\ e[0] = 0
    OBVIOUS
  <2>. HIDE DEF e
  <2>6. Len(<<>>) = 0 /\ 1 .. 0 = {}
    BY Short
  <2>7. IsEnds(e, p, FlattenSeq(p))
    BY <2>2, <2>4, <2>5, <2>6 DEF IsEnds
  <2>. QED
    BY <2>1, <2>7
<1>3. ASSUME NEW m \in Nat, m \in T PROVE m + 1 \in T
  <2>. SUFFICES ASSUME m + 1 <= n
                PROVE  \E e : IsEnds(e, SubSeq(pieces, 1, m + 1), FlattenSeq(SubSeq(pieces, 1, m + 1)))
    OBVIOUS
  <2>1. PICK p, more, q : p = SubSeq(pieces, 1, m) /\ more = SubSeq(pieces, 1, m + 1) /\ q = pieces[m + 1]
    OBVIOUS
  <2>2. Sequence(p) /\ Len(p) = m /\ \A i \in 1 .. m : p[i] = pieces[i]
    BY <2>1, Beginning
  <2>3. PICK l \in Nat : l = m + 1
    OBVIOUS
  <2>4. Sequence(more) /\ Len(more) = l /\ \A i \in 1 .. l : more[i] = pieces[i]
    BY <2>1, <2>3, Beginning
  <2>5. m <= n /\ l \in 1 .. n /\ l \in 1 .. l /\ \A i \in 1 .. m : i \in 1 .. l /\ i \in 1 .. n
    BY <1>1, <2>3
  <2>6. PICK e : IsEnds(e, p, FlattenSeq(p))
    BY <1>3, <2>1, <2>5
  <2>7. Sequence(q)
    BY <2>1, <2>3, <2>5
  <2>8. \A i \in 1 .. Len(p) : Sequence(p[i])
    BY <2>2, <2>5
  <2>9. Len(more) = Len(p) + 1 /\ more[Len(p) + 1] = q /\ \A i \in 1 .. Len(p) : more[i] = p[i]
    BY <2>1, <2>2, <2>3, <2>4, <2>5
  <2>a. Sequence(p) /\ Sequence(more)
    BY <2>2, <2>4
  <2>b. FlattenSeq(more) = FlattenSeq(p) \o q
    BY <2>7, <2>9, <2>a, FlattenAppend
  <2>c. PICK line, all : line = FlattenSeq(p) /\ all = FlattenSeq(more)
    OBVIOUS
  <2>d. Sequence(line)
    BY <2>8, <2>a, <2>c, FlattenSequences
  <2>e. all = line \o q /\ IsEnds(e, p, line)
    BY <2>6, <2>b, <2>c
  <2>f. \E g : IsEnds(g, more, all)
    <3>1. OneMorePiece(p, line, q, more, all)
      BY <2>7, <2>8, <2>9, <2>a, <2>d, <2>e DEF OneMorePiece
    <3>2. IsEnds(e, p, line)
      BY <2>e
    <3>. QED
      BY <3>1, <3>2, EndsMore
  <2>. QED
    BY <2>1, <2>c, <2>f
<1>. HIDE DEF T
<1>4. Nat \subseteq T
  BY <1>2, <1>3, Induction
<1>5. n \in T
  BY <1>1, <1>4
<1>6. \E e : IsEnds(e, SubSeq(pieces, 1, n), FlattenSeq(SubSeq(pieces, 1, n)))
  BY <1>1, <1>5 DEF T
<1>7. SubSeq(pieces, 1, n) = pieces
  BY PartWhole
<1>. QED
  BY <1>6, <1>7

\* What a piece of the input is made of.
SizeOf(p) == IF p.kind = "noise" THEN Len(p.data) ELSE Len(p.data) + 5

ByteOf(p, j) ==
    IF p.kind = "noise" THEN p.data[j]
    ELSE IF p.kind = "damaged" /\ j = p.at THEN <<0>> ELSE Encoded(p.data)[j]

LEMMA PieceBytesAre ==
  ASSUME NEW p, p.kind \in {"frame", "damaged", "noise"}, Sequence(p.data)
  PROVE  /\ Sequence(PieceBytes(p)) /\ Len(PieceBytes(p)) = SizeOf(p)
         /\ \A j \in 1 .. SizeOf(p) : PieceBytes(p)[j] = ByteOf(p, j)
<1>0. Len(p.data) \in Nat
  BY DEF Sequence
<1>1. CASE p.kind = "noise"
  <2>1. PieceBytes(p) = p.data
    BY <1>1 DEF PieceBytes
  <2>. QED
    BY <1>1, <2>1 DEF SizeOf, ByteOf
<1>2. CASE p.kind = "frame"
  <2>1. PieceBytes(p) = Encoded(p.data)
    BY <1>2 DEF PieceBytes
  <2>2. Sequence(Encoded(p.data)) /\ Len(Encoded(p.data)) = Len(p.data) + 5
    BY EncodedBytes
  <2>. QED
    BY <1>2, <2>1, <2>2 DEF SizeOf, ByteOf
<1>3. CASE p.kind = "damaged"
  <2>1. PICK q : q = Encoded(p.data)
    OBVIOUS
  <2>2. Sequence(q) /\ Len(q) = Len(p.data) + 5
    BY <2>1, EncodedBytes
  <2>. DEFINE r == [q EXCEPT ![p.at] = <<0>>]
              n == Len(q)
  <2>3. PieceBytes(p) = r
    BY <1>3, <2>1 DEF PieceBytes
  <2>4. DOMAIN q = 1 .. n /\ n \in Nat
    BY <2>2 DEF Sequence
  <2>5. DOMAIN r = 1 .. n /\ r = [i \in 1 .. n |-> r[i]]
    BY <2>4
  <2>6. \A i \in 1 .. n : r[i] = IF i = p.at THEN <<0>> ELSE q[i]
    BY <2>4
  <2>. HIDE DEF r, n
  <2>7. r \in [1 .. n -> {r[i] : i \in 1 .. n}]
    BY <2>5
  <2>8. r \in Seq({r[i] : i \in 1 .. n})
    BY <2>4, <2>7, SeqDef
  <2>9. Sequence(r) /\ Len(r) = n
    BY <2>4, <2>5, <2>8, LenProperties, IsSequence
  <2>a. n = SizeOf(p)
    BY <1>3, <2>2 DEF SizeOf, n
  <2>b. \A i \in 1 .. n : r[i] = ByteOf(p, i)
    BY <1>3, <2>1, <2>6 DEF ByteOf
  <2>. QED
    BY <2>3, <2>9, <2>a, <2>b
<1>. QED
  BY <1>1, <1>2, <1>3

PiecesOf(s) == [i \in DOMAIN s |-> PieceBytes(s[i])]
LineOf(s) == FlattenSeq(PiecesOf(s))
EndsOf(s) == CHOOSE e : IsEnds(e, PiecesOf(s), LineOf(s))

\* The input, byte by byte: e has the ends of its pieces.
Layout(s, e, line) ==
    /\ Len(s) \in Nat /\ DOMAIN s = 1 .. Len(s) /\ Len(line) \in Nat /\ Sequence(line)
    /\ e \in [0 .. Len(s) -> Nat] /\ e[0] = 0 /\ e[Len(s)] = Len(line)
    /\ \A i \in 1 .. Len(s) :
          /\ e[i] = e[i - 1] + SizeOf(s[i])
          /\ \A j \in 1 .. SizeOf(s[i]) : line[e[i - 1] + j] = ByteOf(s[i], j)

LEMMA LayoutHolds == ASSUME NEW s \in Streams PROVE Layout(s, EndsOf(s), LineOf(s))
<1>. DEFINE n == Len(s)
<1>1. Sequence(s) /\ n \in Nat /\ DOMAIN s = 1 .. n
  <2>1. Sequence(s)
    BY FrameAssumption
  <2>. QED
    BY <2>1 DEF Sequence
<1>2. PICK pieces : pieces = PiecesOf(s)
  OBVIOUS
<1>. HIDE DEF n
<1>3. DOMAIN pieces = 1 .. n /\ pieces = [i \in 1 .. n |-> pieces[i]] /\ \A i \in 1 .. n : pieces[i] = PieceBytes(s[i])
  BY <1>1, <1>2 DEF PiecesOf
<1>4. Sequence(pieces) /\ Len(pieces) = n
  <2>1. pieces \in [1 .. n -> {pieces[i] : i \in 1 .. n}]
    BY <1>3
  <2>2. pieces \in Seq({pieces[i] : i \in 1 .. n})
    BY <1>1, <2>1, SeqDef
  <2>. QED
    BY <1>1, <1>3, <2>2, LenProperties, IsSequence
<1>5. ASSUME NEW i \in 1 .. n
      PROVE  /\ Sequence(pieces[i]) /\ Len(pieces[i]) = SizeOf(s[i])
             /\ \A j \in 1 .. SizeOf(s[i]) : pieces[i][j] = ByteOf(s[i], j)
  <2>1. PICK p : p = s[i]
    OBVIOUS
  <2>2. p.kind \in {"frame", "damaged", "noise"}
    BY <2>1, PieceIs DEF n
  <2>3. Sequence(p.data)
    BY <2>1, PieceIs DEF n
  <2>4. /\ Sequence(PieceBytes(p)) /\ Len(PieceBytes(p)) = SizeOf(p)
        /\ \A j \in 1 .. SizeOf(p) : PieceBytes(p)[j] = ByteOf(p, j)
    BY <2>2, <2>3, PieceBytesAre
  <2>. QED
    BY <1>3, <2>1, <2>4
<1>6. PICK line : line = FlattenSeq(pieces)
  OBVIOUS
<1>7. Sequence(line)
  BY <1>4, <1>5, <1>6, FlattenSequences
<1>8. \E e : IsEnds(e, pieces, line)
  <2>1. Sequence(pieces)
    BY <1>4
  <2>2. \A i \in 1 .. Len(pieces) : Sequence(pieces[i])
    BY <1>4, <1>5
  <2>3. \E e : IsEnds(e, pieces, FlattenSeq(pieces))
    BY <2>1, <2>2, EndsExist
  <2>. QED
    BY <1>6, <2>3
<1>9. PICK e : e = EndsOf(s)
  OBVIOUS
<1>a. line = LineOf(s)
  BY <1>2, <1>6 DEF LineOf
<1>b. IsEnds(e, pieces, line)
  BY <1>2, <1>8, <1>9, <1>a DEF EndsOf
<1>c. /\ e \in [0 .. n -> Nat] /\ e[0] = 0 /\ e[n] = Len(line)
      /\ \A i \in 1 .. n : /\ e[i] = e[i - 1] + Len(pieces[i])
                           /\ \A j \in 1 .. Len(pieces[i]) : line[e[i - 1] + j] = pieces[i][j]
  BY <1>4, <1>b DEF IsEnds
<1>d. ASSUME NEW i \in 1 .. n
      PROVE  /\ e[i] = e[i - 1] + SizeOf(s[i])
             /\ \A j \in 1 .. SizeOf(s[i]) : line[e[i - 1] + j] = ByteOf(s[i], j)
  BY <1>5, <1>c
<1>e. Len(line) \in Nat
  BY <1>7 DEF Sequence
<1>f. Layout(s, e, line)
  BY <1>1, <1>7, <1>c, <1>d, <1>e DEF Layout, n
<1>. QED
  BY <1>9, <1>a, <1>f

\* What is laid out later lies behind.
LEMMA EndsGrow == ASSUME NEW s, NEW e, NEW line, Layout(s, e, line),
                         \A i \in 1 .. Len(s) : SizeOf(s[i]) \in Nat,
                         NEW i \in 0 .. Len(s), NEW k \in 0 .. Len(s), i <= k
                  PROVE  e[i] <= e[k]
<1>. DEFINE n == Len(s)
            T == {m \in Nat : i + m <= n => e[i] <= e[i + m]}
<1>1. /\ n \in Nat /\ e \in [0 .. n -> Nat]
      /\ \A l \in 1 .. n : e[l] = e[l - 1] + SizeOf(s[l]) /\ SizeOf(s[l]) \in Nat
  BY DEF Layout
<1>0. i \in Nat /\ k \in Nat /\ i \in 0 .. n /\ k \in 0 .. n
  BY <1>1
<1>. HIDE DEF n
<1>2. 0 \in T
  <2>1. i + 0 = i
    BY <1>0
  <2>. QED
    BY <1>0, <1>1, <2>1
<1>3. ASSUME NEW m \in Nat, m \in T PROVE m + 1 \in T
  <2>. SUFFICES ASSUME i + (m + 1) <= n PROVE e[i] <= e[i + (m + 1)]
    OBVIOUS
  <2>1. PICK l : l = i + (m + 1)
    OBVIOUS
  <2>2. l \in 1 .. n /\ l - 1 = i + m /\ i + m <= n /\ l - 1 \in 0 .. n /\ l \in 0 .. n
    BY <1>0, <1>1, <2>1
  <2>3. e[i] <= e[l - 1]
    BY <1>3, <2>2
  <2>4. e[l] = e[l - 1] + SizeOf(s[l]) /\ SizeOf(s[l]) \in Nat /\ e[l] \in Nat /\ e[l - 1] \in Nat /\ e[i] \in Nat
    BY <1>0, <1>1, <2>2
  <2>5. e[i] <= e[l]
    BY <2>3, <2>4
  <2>. QED
    BY <2>1, <2>5
<1>. HIDE DEF T
<1>4. Nat \subseteq T
  BY <1>2, <1>3, Induction
<1>5. PICK m : m = k - i
  OBVIOUS
<1>6. m \in Nat /\ i + m = k /\ k <= n
  BY <1>0, <1>1, <1>5
<1>7. i + m <= n => e[i] <= e[i + m]
  BY <1>4, <1>6 DEF T
<1>. QED
  BY <1>6, <1>7

LEMMA SizesAre == ASSUME NEW s \in Streams, NEW i \in 1 .. Len(s)
                  PROVE  /\ SizeOf(s[i]) \in Nat /\ Len(s[i].data) \in Nat
                         /\ s[i].kind # "noise" => SizeOf(s[i]) = Len(s[i].data) + 5
<1>1. Len(s[i].data) \in Nat
  BY PieceIs DEF Sequence
<1>. QED
  BY <1>1 DEF SizeOf

\* Every byte of the input is in a piece.
LEMMA Inside == ASSUME NEW s, NEW e, NEW line, Layout(s, e, line), NEW p \in Nat, p < Len(line)
                PROVE  \E i \in 1 .. Len(s) : e[i - 1] <= p /\ p < e[i]
<1>. DEFINE n == Len(s)
            T == {i \in 1 .. n : p < e[i]}
<1>1. n \in Nat /\ e \in [0 .. n -> Nat] /\ e[0] = 0 /\ e[n] = Len(line)
  BY DEF Layout
<1>. HIDE DEF n
<1>2. n # 0
  BY <1>1
<1>3. n \in T /\ T \subseteq Nat
  BY <1>1, <1>2
<1>4. PICK i \in T : \A k \in T : i <= k
  <2>1. T # {} /\ T \subseteq Nat
    BY <1>3
  <2>. HIDE DEF T
  <2>. QED
    BY <2>1, Least
<1>5. i \in 1 .. n /\ p < e[i]
  BY <1>4
<1>6. e[i - 1] <= p
  <2>1. CASE i = 1
    BY <1>1, <2>1
  <2>2. CASE i # 1
    <3>1. i - 1 \in 1 .. n /\ ~(i <= i - 1) /\ i - 1 \in 0 .. n
      BY <1>1, <1>5, <2>2
    <3>2. ~(p < e[i - 1])
      BY <1>4, <3>1
    <3>3. e[i - 1] \in Nat
      BY <1>1, <3>1
    <3>. QED
      BY <3>2, <3>3
  <2>. QED
    BY <2>1, <2>2
<1>. QED
  BY <1>5, <1>6 DEF n

-----------------------------------------------------------------------------
(* What passes the decoder's test is an undamaged frame. *)

\* The data of a frame, out of its body.
LEMMA DataOfBody == ASSUME NEW data, Sequence(data)
                    PROVE  SubSeq(FrameBody(data), 3, Len(FrameBody(data))) = data
<1>. DEFINE n == Len(data)
<1>1. n \in Nat /\ Len(FrameBody(data)) = n + 2 /\ \A i \in 1 .. n : FrameBody(data)[2 + i] = data[i]
  BY EncodedIs DEF Sequence
<1>. HIDE DEF n
<1>2. PICK m, w, d : m = n + 2 /\ w = FrameBody(data) /\ d = SubSeq(FrameBody(data), 3, Len(FrameBody(data)))
  OBVIOUS
<1>3. m \in Int /\ (IF 3 <= m THEN m - 3 + 1 ELSE 0) = n /\ m - 3 + 1 = n
  BY <1>1, <1>2
<1>4. d = SubSeq(w, 3, m)
  BY <1>1, <1>2
<1>5. Sequence(SubSeq(w, 3, m))
  BY <1>3, Part
<1>6. Len(SubSeq(w, 3, m)) = IF 3 <= m THEN m - 3 + 1 ELSE 0
  BY <1>3, Part
<1>7. \A i \in 1 .. m - 3 + 1 : SubSeq(w, 3, m)[i] = w[3 + i - 1]
  BY <1>3, Part
<1>8. ASSUME NEW i \in 1 .. n PROVE d[i] = data[i]
  <2>1. 3 + i - 1 = 2 + i
    BY <1>1
  <2>2. d[i] = w[2 + i]
    BY <1>3, <1>4, <1>7, <2>1
  <2>. QED
    BY <1>1, <1>2, <2>2
<1>9. Sequence(d) /\ Len(d) = n
  BY <1>3, <1>4, <1>5, <1>6
<1>a. d = data
  BY <1>8, <1>9, Equal DEF n
<1>. QED
  BY <1>2, <1>a

\* Behind a head, w has been read, and what comes after it is its checksum.
Checked(line, q, w) ==
    /\ q \in Nat \ {0} /\ Sequence(w) /\ IsHead(line[q])
    /\ \A j \in 1 .. Len(w) : line[q + j] = w[j]

\* A natural number and its distance from another.
LEMMA Minus == ASSUME NEW b \in Nat, NEW p \in Nat PROVE p - b \in Int /\ b + (p - b) = p
  OBVIOUS

\* If the two bytes that follow are the checksum of w, a frame sent with that data ends there.
LEMMA FrameAt ==
  ASSUME NEW s \in Streams, NEW e, NEW line, Layout(s, e, line), NEW q, NEW w, Checked(line, q, w),
         NEW p, p = q + Len(w) + 1, p < Len(line), line[p] = <<"L", w>>, line[p + 1] = <<"H", w>>
  PROVE  \E i \in 1 .. Len(s) : s[i].kind = "frame" /\ s[i].data = SubSeq(w, 3, Len(w)) /\ e[i] = p + 1
<1>1. /\ q \in Nat \ {0} /\ Sequence(w) /\ IsHead(line[q]) /\ Len(w) \in Nat
      /\ \A j \in 1 .. Len(w) : line[q + j] = w[j]
  BY DEF Checked, Sequence
<1>2. /\ Len(s) \in Nat /\ Len(line) \in Nat /\ e \in [0 .. Len(s) -> Nat]
      /\ \A i \in 1 .. Len(s) :
            /\ e[i] = e[i - 1] + SizeOf(s[i])
            /\ \A j \in 1 .. SizeOf(s[i]) : line[e[i - 1] + j] = ByteOf(s[i], j)
  BY DEF Layout
<1>3. PICK m \in Nat : m = Len(w)
  BY <1>1
<1>4. PICK p0 : p0 = p - 1
  OBVIOUS
<1>5. p \in Nat /\ p0 \in Nat /\ p0 < Len(line) /\ p = q + m + 1 /\ p0 + 1 = p
  <2>1. q \in Nat \ {0} /\ p = q + m + 1
    BY <1>1, <1>3
  <2>2. PICK n \in Nat : n = Len(line)
    BY <1>2
  <2>3. p < n
    BY <2>2
  <2>. QED
    BY <1>4, <2>1, <2>2, <2>3
<1>6. PICK i \in 1 .. Len(s) : e[i - 1] <= p0 /\ p0 < e[i]
  BY <1>5, Inside
<1>7. PICK b, f, t, data, z : b = e[i - 1] /\ f = e[i] /\ t = s[i] /\ data = s[i].data /\ z = SizeOf(s[i])
  OBVIOUS
<1>8. b \in Nat /\ z \in Nat /\ f = b + z /\ \A j \in 1 .. z : line[b + j] = ByteOf(t, j)
  <2>1. i - 1 \in 0 .. Len(s)
    BY <1>2
  <2>. QED
    BY <1>2, <1>7, <2>1, SizesAre
<1>9. /\ t.kind \in {"frame", "damaged", "noise"} /\ t.data = data /\ Sequence(data)
      /\ \A k \in 1 .. Len(data) : IsByte(data[k])
      /\ t.kind = "damaged" => t.at \in DOMAIN Encoded(data) /\ Encoded(data)[t.at] # <<0>>
  BY <1>7, PieceIs
<1>a. PICK j : j = p - b
  OBVIOUS
<1>b. j \in 1 .. z /\ b + j = p
  <2>1. b <= p0 /\ p0 < f
    BY <1>6, <1>7, Zenon
  <2>2. b \in Nat /\ z \in Nat /\ f = b + z /\ p \in Nat /\ p0 + 1 = p /\ p0 \in Nat
    BY <1>5, <1>8
  <2>3. j \in Int /\ b + j = p
    BY <1>a, <2>2, Minus, Zenon
  <2>4. 1 <= j /\ j <= z
    BY <2>1, <2>2, <2>3
  <2>. QED
    BY <2>2, <2>3, <2>4
<1>c. ByteOf(t, j) = <<"L", w>>
  BY <1>8, <1>b
<1>d. t.kind # "noise"
  <2>. SUFFICES ASSUME t.kind = "noise" PROVE FALSE
    OBVIOUS
  <2>1. z = Len(data)
    BY <1>7 DEF SizeOf
  <2>2. ByteOf(t, j) = data[j]
    BY <1>9 DEF ByteOf
  <2>3. IsByte(data[j])
    BY <1>9, <1>b, <2>1
  <2>. QED
    BY <1>c, <2>2, <2>3, NoToken
<1>e. z = Len(data) + 5 /\ Len(data) \in Nat
  BY <1>7, <1>9, <1>d, SizesAre
<1>f. PICK n \in Nat : n = Len(data)
  BY <1>e
<1>g. \A k : ByteOf(t, k) = IF t.kind = "damaged" /\ k = t.at THEN <<0>> ELSE Encoded(data)[k]
  BY <1>9, <1>d DEF ByteOf
<1>h. <<0>> # <<"L", w>> /\ <<0>> # <<"H", w>>
  BY ZeroIsByte, NoToken
<1>i. Encoded(data)[j] = <<"L", w>>
  BY <1>c, <1>g, <1>h
<1>j. /\ DOMAIN Encoded(data) = 1 .. n + 5 /\ Encoded(data)[1] = HEAD
      /\ \A k \in 1 .. n + 2 : Encoded(data)[1 + k] = FrameBody(data)[k]
      /\ Encoded(data)[n + 4] = <<"L", FrameBody(data)>>
      /\ Encoded(data)[n + 5] = <<"H", FrameBody(data)>>
  <2>1. /\ Sequence(Encoded(data)) /\ Len(Encoded(data)) = Len(data) + 5
        /\ Encoded(data)[1] = HEAD
        /\ \A k \in 1 .. Len(data) + 2 : Encoded(data)[1 + k] = FrameBody(data)[k]
        /\ Encoded(data)[Len(data) + 4] = <<"L", FrameBody(data)>>
        /\ Encoded(data)[Len(data) + 5] = <<"H", FrameBody(data)>>
    BY <1>9, EncodedBytes
  <2>2. DOMAIN Encoded(data) = 1 .. Len(Encoded(data))
    BY <2>1 DEF Sequence
  <2>. QED
    BY <1>f, <2>1, <2>2
<1>k. j = n + 4
  <2>1. CASE j <= n + 3
    <3>1. j \in 1 .. Len(data) + 3
      BY <1>b, <1>e, <1>f, <2>1
    <3>2. IsByte(Encoded(data)[j])
      BY <1>9, <3>1, EncodedPlain
    <3>. QED
      BY <1>i, <3>2, NoToken
  <2>2. CASE j = n + 5
    <3>1. <<"L", w>> = <<"H", FrameBody(data)>>
      BY <1>i, <1>j, <2>2
    <3>2. "L" = "H"
      BY <3>1, SameToken
    <3>. QED
      BY <3>2
  <2>. QED
    BY <1>b, <1>e, <1>f, <2>1, <2>2
<1>l. w = FrameBody(data)
  <2>1. <<"L", w>> = <<"L", FrameBody(data)>>
    BY <1>i, <1>j, <1>k
  <2>. QED
    BY <2>1, SameToken
<1>m. m = n + 2 /\ q = b + 1 /\ f = p + 1
  <2>1. m = n + 2
    BY <1>3, <1>9, <1>f, <1>l, EncodedIs
  <2>. QED
    <3>1. b \in Nat /\ n \in Nat /\ q \in Nat /\ p \in Nat /\ m \in Nat
      BY <1>1, <1>5, <1>8
    <3>2. f = b + (n + 5) /\ b + (n + 4) = p /\ p = q + m + 1 /\ m = n + 2
      BY <1>5, <1>8, <1>b, <1>e, <1>f, <1>k, <2>1
    <3>. QED
      BY <3>1, <3>2
<1>n. ASSUME NEW k \in 1 .. n + 5 PROVE ByteOf(t, k) = Encoded(data)[k]
  <2>1. line[b + k] = ByteOf(t, k)
    BY <1>8, <1>e, <1>f
  <2>2. CASE k = 1
    <3>1. line[q] = ByteOf(t, 1) /\ IsHead(line[q])
      BY <1>1, <1>m, <2>1, <2>2
    <3>2. IsByte(HEAD)
      BY FrameAssumption
    <3>3. IsByte(ByteOf(t, 1))
      BY <1>g, <1>j, <3>2, ZeroIsByte
    <3>4. ByteOf(t, 1) = HEAD
      BY <3>1, <3>3, HeadByte
    <3>. QED
      BY <1>j, <2>2, <3>4
  <2>3. CASE k \in 2 .. n + 3
    <3>1. PICK l : l = k - 1
      OBVIOUS
    <3>2. l \in 1 .. n + 2 /\ 1 + l = k /\ q + l = b + k
      BY <1>8, <1>m, <2>3, <3>1
    <3>3. line[q + l] = w[l]
      BY <1>1, <1>3, <1>m, <3>2
    <3>. QED
      BY <1>j, <1>l, <2>1, <3>2, <3>3
  <2>4. CASE k = n + 4
    BY <1>c, <1>i, <1>k, <2>4
  <2>5. CASE k = n + 5
    <3>1. b + k = p + 1
      BY <1>8, <1>b, <1>k, <2>5
    <3>. QED
      BY <1>j, <1>l, <2>1, <2>5, <3>1
  <2>6. k = 1 \/ k \in 2 .. n + 3 \/ k = n + 4 \/ k = n + 5
    OBVIOUS
  <2>. QED
    BY <2>2, <2>3, <2>4, <2>5, <2>6
<1>o. t.kind = "frame"
  <2>. SUFFICES ASSUME t.kind = "damaged" PROVE FALSE
    BY <1>9, <1>d
  <2>1. t.at \in 1 .. n + 5 /\ Encoded(data)[t.at] # <<0>>
    BY <1>9, <1>j
  <2>2. ByteOf(t, t.at) = <<0>>
    BY <1>g
  <2>. QED
    BY <1>n, <2>1, <2>2
<1>p. data = SubSeq(w, 3, Len(w))
  BY <1>9, <1>l, DataOfBody
<1>. QED
  BY <1>7, <1>m, <1>o, <1>p

-----------------------------------------------------------------------------
(* Reading on. *)

\* After pos bytes of the input, r is what remains.
HasRead(line, r, pos) ==
    /\ pos \in Nat /\ Sequence(r) /\ pos + Len(r) = Len(line)
    /\ \A j \in 1 .. Len(r) : line[pos + j] = r[j]

LEMMA OneRead == ASSUME NEW line, NEW r, NEW pos, HasRead(line, r, pos), r # <<>>
                 PROVE  /\ HasRead(line, Tail(r), pos + 1) /\ pos < Len(line) /\ pos \in Nat
                        /\ Head(r) = line[pos + 1]
<1>1. /\ pos \in Nat /\ Sequence(r) /\ pos + Len(r) = Len(line) /\ Len(r) \in Nat
      /\ \A j \in 1 .. Len(r) : line[pos + j] = r[j]
  BY DEF HasRead, Sequence
<1>2. /\ Sequence(Tail(r)) /\ Len(Tail(r)) = Len(r) - 1 /\ Len(r) > 0
      /\ \A i \in 1 .. Len(r) - 1 : Tail(r)[i] = r[i + 1]
      /\ Head(r) = r[1]
  BY <1>1, Shortened
<1>3. Head(r) = line[pos + 1] /\ pos < Len(line) /\ (pos + 1) + Len(Tail(r)) = Len(line)
  <2>1. 1 \in 1 .. Len(r)
    BY <1>1, <1>2
  <2>. QED
    BY <1>1, <1>2, <2>1
<1>4. ASSUME NEW j \in 1 .. Len(Tail(r)) PROVE line[(pos + 1) + j] = Tail(r)[j]
  <2>1. j \in 1 .. Len(r) - 1 /\ j + 1 \in 1 .. Len(r) /\ (pos + 1) + j = pos + (j + 1)
    BY <1>1, <1>2
  <2>2. line[pos + (j + 1)] = r[j + 1]
    BY <1>1, <2>1
  <2>. QED
    BY <1>2, <2>1, <2>2
<1>5. HasRead(line, Tail(r), pos + 1)
  <2>1. pos + 1 \in Nat
    BY <1>1
  <2>. QED
    BY <1>2, <1>3, <1>4, <2>1 DEF HasRead
<1>. QED
  BY <1>1, <1>3, <1>5

LEMMA SomeRead == ASSUME NEW line, NEW r, NEW pos, HasRead(line, r, pos), NEW n \in 1 .. Len(r)
                  PROVE  /\ HasRead(line, SubSeq(r, n + 1, Len(r)), pos + n)
                         /\ Sequence(SubSeq(r, 1, n)) /\ Len(SubSeq(r, 1, n)) = n
                         /\ \A j \in 1 .. n : line[pos + j] = SubSeq(r, 1, n)[j]
<1>1. /\ pos \in Nat /\ Sequence(r) /\ pos + Len(r) = Len(line) /\ Len(r) \in Nat /\ n \in Nat
      /\ \A j \in 1 .. Len(r) : line[pos + j] = r[j]
  BY DEF HasRead, Sequence
<1>2. PICK m, k, t : m = n + 1 /\ k = Len(r) /\ t = SubSeq(r, n + 1, Len(r))
  OBVIOUS
<1>3. m \in Nat /\ k \in Int /\ k \in Nat /\ n <= k /\ k - m + 1 = k - n /\ (IF m <= k THEN k - m + 1 ELSE 0) = k - n
  BY <1>1, <1>2
<1>4. Sequence(SubSeq(r, m, k))
  BY <1>3, Part
<1>5. Len(SubSeq(r, m, k)) = IF m <= k THEN k - m + 1 ELSE 0
  BY <1>3, Part
<1>6. \A i \in 1 .. k - m + 1 : SubSeq(r, m, k)[i] = r[m + i - 1]
  BY <1>3, Part
<1>7. t = SubSeq(r, m, k) /\ Len(t) = k - n
  BY <1>2, <1>3, <1>5
<1>8. ASSUME NEW j \in 1 .. Len(t) PROVE line[(pos + n) + j] = t[j]
  <2>1. j \in 1 .. k - m + 1 /\ n + j \in 1 .. k /\ m + j - 1 = n + j /\ (pos + n) + j = pos + (n + j)
    BY <1>1, <1>2, <1>3, <1>7
  <2>2. t[j] = r[n + j]
    BY <1>6, <1>7, <2>1
  <2>3. line[pos + (n + j)] = r[n + j]
    BY <1>1, <1>2, <2>1
  <2>. QED
    BY <2>1, <2>2, <2>3
<1>9. HasRead(line, t, pos + n)
  <2>1. pos + n \in Nat /\ (pos + n) + Len(t) = Len(line)
    <3>1. pos \in Nat /\ n \in Nat /\ k \in Nat /\ pos + k = Len(line) /\ Len(t) = k - n
      BY <1>1, <1>2, <1>3, <1>7
    <3>. QED
      BY <3>1
  <2>. QED
    BY <1>4, <1>7, <1>8, <2>1 DEF HasRead
<1>a. /\ Sequence(SubSeq(r, 1, n)) /\ Len(SubSeq(r, 1, n)) = n
      /\ \A i \in 1 .. n : SubSeq(r, 1, n)[i] = r[i]
  BY <1>1, Beginning
<1>b. \A j \in 1 .. n : line[pos + j] = SubSeq(r, 1, n)[j]
  <2>1. \A j \in 1 .. n : j \in 1 .. Len(r)
    BY <1>1
  <2>. QED
    BY <1>1, <1>a, <2>1
<1>. QED
  BY <1>2, <1>9, <1>a, <1>b

\* What the checksum covers grows with the bytes that are read.
LEMMA CheckedMore ==
  ASSUME NEW line, NEW q, NEW w, Checked(line, q, w), NEW b, Sequence(b),
         \A j \in 1 .. Len(b) : line[q + Len(w) + j] = b[j]
  PROVE  Checked(line, q, w \o b) /\ Len(w \o b) = Len(w) + Len(b)
<1>1. /\ q \in Nat \ {0} /\ Sequence(w) /\ IsHead(line[q]) /\ Len(w) \in Nat /\ Len(b) \in Nat
      /\ \A j \in 1 .. Len(w) : line[q + j] = w[j]
  BY DEF Checked, Sequence
<1>2. PICK c : c = w \o b
  OBVIOUS
<1>3. /\ Sequence(c) /\ Len(c) = Len(w) + Len(b)
      /\ \A i \in 1 .. Len(w) : c[i] = w[i]
      /\ \A i \in 1 .. Len(b) : c[Len(w) + i] = b[i]
  <2>1. /\ Sequence(w \o b) /\ Len(w \o b) = Len(w) + Len(b)
        /\ \A i \in 1 .. Len(w) : (w \o b)[i] = w[i]
        /\ \A i \in 1 .. Len(b) : (w \o b)[Len(w) + i] = b[i]
    BY <1>1, Joined
  <2>. QED
    BY <1>2, <2>1
<1>4. ASSUME NEW j \in 1 .. Len(c) PROVE line[q + j] = c[j]
  <2>1. CASE j <= Len(w)
    <3>1. j \in 1 .. Len(w)
      BY <1>1, <2>1
    <3>. QED
      BY <1>1, <1>3, <3>1
  <2>2. CASE j > Len(w)
    <3>1. PICK i : i = j - Len(w)
      OBVIOUS
    <3>2. i \in 1 .. Len(b) /\ Len(w) + i = j /\ q + Len(w) + i = q + j
      BY <1>1, <1>3, <2>2, <3>1
    <3>. QED
      BY <1>3, <3>2
  <2>. QED
    BY <1>1, <2>1, <2>2
<1>5. Checked(line, q, c)
  BY <1>1, <1>3, <1>4 DEF Checked
<1>. QED
  BY <1>2, <1>3, <1>5

LEMMA CheckedOneMore ==
  ASSUME NEW line, NEW q, NEW w, Checked(line, q, w), NEW b, line[q + Len(w) + 1] = b
  PROVE  Checked(line, q, Append(w, b)) /\ Len(Append(w, b)) = Len(w) + 1
<1>1. Sequence(w)
  BY DEF Checked
<1>2. PICK c : c = <<b>>
  OBVIOUS
<1>3. Sequence(c) /\ Len(c) = 1 /\ c[1] = b
  BY <1>2, Short
<1>4. \A j \in 1 .. Len(c) : line[q + Len(w) + j] = c[j]
  <2>1. \A j \in 1 .. 1 : j = 1
    OBVIOUS
  <2>. QED
    BY <1>3, <2>1
<1>5. Checked(line, q, w \o c) /\ Len(w \o c) = Len(w) + Len(c)
  <2>1. Sequence(c)
    BY <1>3
  <2>. QED
    BY <1>4, <2>1, CheckedMore
<1>6. Append(w, b) = w \o c
  BY <1>1, <1>2, Appended
<1>. QED
  BY <1>3, <1>5, <1>6

-----------------------------------------------------------------------------
(* The frames found so far. *)

Good(s) == {k \in DOMAIN s : s[k].kind = "frame"}

\* They are among the frames that have been read, in their order; and all of
\* these if the decoder is in step.
FoundIn(s, e, pos, h, x) ==
    \E f \in [DOMAIN h -> Good(s)] :
        /\ \A i \in DOMAIN h : h[i] = s[f[i]].data /\ e[f[i]] <= pos
        /\ \A i, j \in DOMAIN h : i < j => f[i] < f[j]
        /\ x => \A k \in Good(s) : e[k] <= pos => \E i \in DOMAIN h : f[i] = k

\* The place of the end of a piece.
LEMMA EndIs == ASSUME NEW s \in Streams, NEW e, NEW line, Layout(s, e, line), NEW i \in 1 .. Len(s)
               PROVE  /\ e[i] \in Nat /\ e[i - 1] \in Nat /\ SizeOf(s[i]) \in Nat /\ Len(s[i].data) \in Nat
                      /\ e[i] = e[i - 1] + SizeOf(s[i])
                      /\ s[i].kind # "noise" => e[i] = e[i - 1] + Len(s[i].data) + 5
                      /\ i \in 0 .. Len(s) /\ i - 1 \in 0 .. Len(s)
<1>1. /\ Len(s) \in Nat /\ e \in [0 .. Len(s) -> Nat]
      /\ \A k \in 1 .. Len(s) : e[k] = e[k - 1] + SizeOf(s[k])
  BY DEF Layout
<1>2. i \in 0 .. Len(s) /\ i - 1 \in 0 .. Len(s)
  BY <1>1
<1>3. /\ SizeOf(s[i]) \in Nat /\ Len(s[i].data) \in Nat
      /\ s[i].kind # "noise" => SizeOf(s[i]) = Len(s[i].data) + 5
  BY SizesAre
<1>4. e[i] \in Nat /\ e[i - 1] \in Nat /\ e[i] = e[i - 1] + SizeOf(s[i])
  BY <1>1, <1>2
<1>5. s[i].kind # "noise" => e[i] = e[i - 1] + Len(s[i].data) + 5
  <2>1. PICK a, b, c : a = e[i - 1] /\ b = SizeOf(s[i]) /\ c = Len(s[i].data)
    OBVIOUS
  <2>2. a \in Nat /\ b \in Nat /\ c \in Nat
    BY <1>3, <1>4, <2>1
  <2>3. b = c + 5 => a + b = a + c + 5
    BY <2>2
  <2>. QED
    BY <1>3, <1>4, <2>1, <2>3
<1>. QED
  BY <1>2, <1>3, <1>4, <1>5

\* A piece that begins behind the end of another.
LEMMA Behind == ASSUME NEW s \in Streams, NEW e, NEW line, Layout(s, e, line),
                       NEW i \in 1 .. Len(s), NEW k \in 1 .. Len(s), i < k
                PROVE  e[i] <= e[k - 1]
<1>1. \A l \in 1 .. Len(s) : SizeOf(s[l]) \in Nat
  BY SizesAre
<1>2. i \in 0 .. Len(s) /\ k - 1 \in 0 .. Len(s) /\ i <= k - 1
  <2>1. Len(s) \in Nat
    BY DEF Layout
  <2>. QED
    BY <2>1
<1>. QED
  BY <1>1, <1>2, EndsGrow

\* A place is in one piece.
LEMMA OnePiece == ASSUME NEW s \in Streams, NEW e, NEW line, Layout(s, e, line), NEW p \in Nat,
                         NEW i \in 1 .. Len(s), e[i - 1] <= p, p < e[i],
                         NEW k \in 1 .. Len(s), e[k - 1] <= p, p < e[k]
                  PROVE  i = k
<1>0. i \in Int /\ k \in Int /\ e[i] \in Nat /\ e[k] \in Nat /\ e[i - 1] \in Nat /\ e[k - 1] \in Nat
  BY EndIs
<1>1. ~(i < k)
  <2>. SUFFICES ASSUME i < k PROVE FALSE
    OBVIOUS
  <2>1. e[i] <= e[k - 1]
    BY Behind
  <2>. QED
    BY <1>0, <2>1
<1>2. ~(k < i)
  <2>. SUFFICES ASSUME k < i PROVE FALSE
    OBVIOUS
  <2>1. e[k] <= e[i - 1]
    BY Behind
  <2>. QED
    BY <1>0, <2>1
<1>. QED
  BY <1>0, <1>1, <1>2

\* Within a piece no piece ends.
LEMMA NoEnd == ASSUME NEW s \in Streams, NEW e, NEW line, Layout(s, e, line), NEW p \in Nat, NEW q \in Nat,
                      NEW i \in 1 .. Len(s), e[i - 1] <= p, q < e[i],
                      NEW k \in 1 .. Len(s), e[k] <= q
               PROVE  e[k] <= p
<1>0. i \in Int /\ k \in Int /\ e[i] \in Nat /\ e[k] \in Nat /\ e[i - 1] \in Nat /\ e[k - 1] \in Nat
  BY EndIs
<1>1. k # i
  BY <1>0
<1>2. ~(i < k)
  <2>. SUFFICES ASSUME i < k PROVE FALSE
    OBVIOUS
  <2>1. e[i] <= e[k - 1]
    BY Behind
  <2>2. e[k] = e[k - 1] + SizeOf(s[k]) /\ SizeOf(s[k]) \in Nat
    BY EndIs
  <2>. QED
    BY <1>0, <2>1, <2>2
<1>3. k < i
  BY <1>0, <1>1, <1>2
<1>4. e[k] <= e[i - 1]
  BY <1>3, Behind
<1>. QED
  BY <1>0, <1>4

\* Bytes that end no frame change nothing.
LEMMA FoundStays == ASSUME NEW s \in Streams, NEW e, NEW line, Layout(s, e, line), NEW pos \in Nat, NEW q \in Nat,
                           pos <= q, NEW h, NEW x, FoundIn(s, e, pos, h, x),
                           x => \A k \in Good(s) : e[k] <= q => e[k] <= pos
                    PROVE  FoundIn(s, e, q, h, x)
<1>1. PICK f \in [DOMAIN h -> Good(s)] :
        /\ \A i \in DOMAIN h : h[i] = s[f[i]].data /\ e[f[i]] <= pos
        /\ \A i, j \in DOMAIN h : i < j => f[i] < f[j]
        /\ x => \A k \in Good(s) : e[k] <= pos => \E i \in DOMAIN h : f[i] = k
  BY DEF FoundIn
<1>2. ASSUME NEW i \in DOMAIN h PROVE e[f[i]] <= q
  <2>1. f[i] \in 1 .. Len(s)
    BY DEF Good, Layout
  <2>2. PICK k \in 1 .. Len(s) : k = f[i]
    BY <2>1
  <2>3. e[k] \in Nat
    BY EndIs
  <2>4. e[k] <= pos
    BY <1>1, <2>2
  <2>5. e[k] <= q
    BY <2>3, <2>4
  <2>. QED
    BY <2>2, <2>5
<1>. QED
  BY <1>1, <1>2 DEF FoundIn

\* A frame that ends here is one more.
LEMMA FoundMore == ASSUME NEW s \in Streams, NEW e, NEW line, Layout(s, e, line), NEW pos \in Nat, NEW q, q = pos + 1,
                          NEW h, Sequence(h), NEW x, FoundIn(s, e, pos, h, x),
                          NEW m \in 1 .. Len(s), s[m].kind = "frame", e[m] = q, NEW d, d = s[m].data
                   PROVE  FoundIn(s, e, q, Append(h, d), x)
<1>1. PICK f \in [DOMAIN h -> Good(s)] :
        /\ \A i \in DOMAIN h : h[i] = s[f[i]].data /\ e[f[i]] <= pos
        /\ \A i, j \in DOMAIN h : i < j => f[i] < f[j]
        /\ x => \A k \in Good(s) : e[k] <= pos => \E i \in DOMAIN h : f[i] = k
  BY DEF FoundIn
<1>2. PICK n, all : n = Len(h) /\ all = Append(h, d)
  OBVIOUS
<1>3. n \in Nat /\ DOMAIN h = 1 .. n
  BY <1>2 DEF Sequence
<1>4. DOMAIN all = 1 .. n + 1 /\ all[n + 1] = d /\ \A i \in 1 .. n : all[i] = h[i]
  <2>1. /\ Sequence(Append(h, d)) /\ Len(Append(h, d)) = Len(h) + 1
        /\ \A i \in 1 .. Len(h) : Append(h, d)[i] = h[i]
        /\ Append(h, d)[Len(h) + 1] = d
    <3>1. Sequence(Append(h, d)) /\ Len(Append(h, d)) = Len(h) + 1
      BY Appended, Zenon
    <3>2. \A i \in 1 .. Len(h) : Append(h, d)[i] = h[i]
      <4>. TAKE i \in 1 .. Len(h)
      <4>. QED
        BY Appended
    <3>3. Append(h, d)[Len(h) + 1] = d
      BY Appended, Zenon
    <3>. QED
      BY <3>1, <3>2, <3>3
  <2>. QED
    BY <1>2, <2>1 DEF Sequence
<1>5. m \in Good(s) /\ \A k \in Good(s) : k \in 1 .. Len(s) /\ s[k].kind = "frame"
  BY DEF Good, Layout
<1>6. q \in Nat /\ m \in Int /\ e[m] \in Nat
  BY EndIs
<1>. DEFINE g == [i \in 1 .. n + 1 |-> IF i = n + 1 THEN m ELSE f[i]]
<1>7. g[n + 1] = m /\ \A i \in 1 .. n : g[i] = f[i] /\ f[i] \in Good(s)
  BY <1>3
<1>8. \A i \in 1 .. n + 1 : i \in 1 .. n \/ i = n + 1
  BY <1>3
<1>9. g \in [1 .. n + 1 -> Good(s)]
  BY <1>5, <1>7, <1>8
<1>. HIDE DEF g
<1>a. ASSUME NEW i \in 1 .. n PROVE f[i] < m /\ e[f[i]] <= q /\ f[i] \in Int
  <2>1. PICK k \in 1 .. Len(s) : k = f[i]
    BY <1>5, <1>7
  <2>2. e[k] \in Nat /\ e[m] \in Nat /\ k \in Int /\ e[k] <= pos /\ e[k] = e[k - 1] + SizeOf(s[k])
        /\ SizeOf(s[k]) \in Nat /\ e[k - 1] \in Nat
    <3>1. e[k] <= pos
      BY <1>1, <1>3, <2>1
    <3>2. /\ e[k] \in Nat /\ e[k - 1] \in Nat /\ SizeOf(s[k]) \in Nat /\ e[k] = e[k - 1] + SizeOf(s[k])
      BY EndIs
    <3>. QED
      BY <1>6, <3>1, <3>2
  <2>3. ~(m < k)
    <3>. SUFFICES ASSUME m < k PROVE FALSE
      OBVIOUS
    <3>1. e[m] <= e[k - 1]
      BY Behind
    <3>. QED
      BY <2>2, <3>1
  <2>4. k # m
    BY <2>2
  <2>5. k < m /\ e[k] <= q
    BY <1>6, <2>2, <2>3, <2>4
  <2>. QED
    BY <2>1, <2>2, <2>5
<1>b. ASSUME NEW i \in 1 .. n + 1 PROVE all[i] = s[g[i]].data /\ e[g[i]] <= q
  <2>1. CASE i \in 1 .. n
    <3>1. all[i] = h[i] /\ g[i] = f[i] /\ h[i] = s[f[i]].data
      BY <1>1, <1>3, <1>4, <1>7, <2>1
    <3>2. e[f[i]] <= q
      BY <1>a, <2>1
    <3>. QED
      BY <3>1, <3>2
  <2>2. CASE i = n + 1
    BY <1>4, <1>6, <1>7, <2>2
  <2>. QED
    BY <1>8, <2>1, <2>2
<1>c. ASSUME NEW i \in 1 .. n + 1, NEW j \in 1 .. n + 1, i < j PROVE g[i] < g[j]
  <2>1. i \in 1 .. n
    BY <1>3, <1>c
  <2>2. CASE j \in 1 .. n
    BY <1>1, <1>3, <1>7, <1>c, <2>1, <2>2
  <2>3. CASE j = n + 1
    BY <1>7, <1>a, <2>1, <2>3
  <2>. QED
    BY <1>8, <2>2, <2>3
<1>d. ASSUME x, NEW k \in Good(s), e[k] <= q PROVE \E i \in 1 .. n + 1 : g[i] = k
  <2>0. n + 1 \in 1 .. n + 1 /\ \A i \in 1 .. n : i \in 1 .. n + 1
    BY <1>3
  <2>1. CASE k = m
    BY <1>7, <2>0, <2>1
  <2>2. CASE k # m
    <3>1. k \in 1 .. Len(s) /\ s[k].kind = "frame"
      BY <1>5
    <3>a. e[k] \in Nat /\ e[k - 1] \in Nat /\ Len(s[k].data) \in Nat /\ e[k] = e[k - 1] + Len(s[k].data) + 5
      BY <3>1, EndIs
    <3>b. e[m] \in Nat /\ e[m - 1] \in Nat /\ Len(s[m].data) \in Nat /\ e[m] = e[m - 1] + Len(s[m].data) + 5
      BY EndIs
    <3>2. /\ e[k] \in Nat /\ e[k - 1] \in Nat /\ e[m - 1] \in Nat /\ k \in Int
          /\ Len(s[k].data) \in Nat /\ Len(s[m].data) \in Nat
          /\ e[k] = e[k - 1] + Len(s[k].data) + 5
          /\ e[m] = e[m - 1] + Len(s[m].data) + 5
      BY <3>1, <3>a, <3>b
    <3>3. e[k] # e[m]
      <4>1. k < m => e[k] <= e[m - 1]
        BY <3>1, Behind
      <4>2. m < k => e[m] <= e[k - 1]
        BY <3>1, Behind
      <4>3. k < m \/ m < k
        BY <1>6, <2>2, <3>2
      <4>4. e[m - 1] < e[m] /\ e[k - 1] < e[k]
        <5>1. PICK a, b, c, t, u, v : /\ a = e[m] /\ b = e[m - 1] /\ c = Len(s[m].data)
                                      /\ t = e[k] /\ u = e[k - 1] /\ v = Len(s[k].data)
          OBVIOUS
        <5>2. b \in Nat /\ c \in Nat /\ u \in Nat /\ v \in Nat /\ a = b + c + 5 /\ t = u + v + 5
          BY <3>2, <5>1
        <5>3. b < a /\ u < t
          BY <5>2
        <5>. QED
          BY <5>1, <5>3
      <4>5. PICK a, b, t, u : a = e[m] /\ b = e[m - 1] /\ t = e[k] /\ u = e[k - 1]
        OBVIOUS
      <4>6. a \in Nat /\ b \in Nat /\ t \in Nat /\ u \in Nat /\ b < a /\ u < t
        BY <3>a, <3>b, <4>4, <4>5
      <4>7. t <= b \/ a <= u
        BY <4>1, <4>2, <4>3, <4>5
      <4>8. t # a
        BY <4>6, <4>7
      <4>. QED
        BY <4>5, <4>8
    <3>4. e[k] <= pos
      BY <1>6, <1>d, <3>2, <3>3
    <3>5. PICK i \in 1 .. n : f[i] = k
      BY <1>1, <1>3, <1>d, <3>4
    <3>. QED
      BY <1>7, <2>0, <3>5
  <2>. QED
    BY <2>1, <2>2
<1>e. FoundIn(s, e, q, all, x)
  <2>1. g \in [DOMAIN all -> Good(s)]
    BY <1>4, <1>9
  <2>2. \A i \in DOMAIN all : all[i] = s[g[i]].data /\ e[g[i]] <= q
    BY <1>4, <1>b
  <2>3. \A i, j \in DOMAIN all : i < j => g[i] < g[j]
    BY <1>4, <1>c
  <2>4. x => \A k \in Good(s) : e[k] <= q => \E i \in DOMAIN all : g[i] = k
    BY <1>4, <1>d
  <2>. QED
    BY <2>1, <2>2, <2>3, <2>4 DEF FoundIn
<1>. QED
  BY <1>2, <1>e

-----------------------------------------------------------------------------
(* In step: with input that does no harm the decoder takes no data for a   *)
(* head and no head for data.                                              *)

HarmlessIn(s) ==
    \A i \in 1 .. Len(s) :
        /\ s[i].kind = "damaged" => s[i].at > 3 /\ ~IsHead(ByteOf(s[i], SizeOf(s[i])))
        /\ s[i].kind = "noise" => \A k \in 1 .. Len(s[i].data) : ~IsHead(s[i].data[k])

\* Who waits for a head within a piece is not in a frame and meets no head in
\* what remains of it.
Calm(s, e, line, pos) ==
    \A i \in 1 .. Len(s) : e[i - 1] < pos /\ pos < e[i] =>
        s[i].kind # "frame" /\ \A p \in pos + 1 .. e[i] : ~IsHead(line[p])

\* It depends on the piece that the byte is in.
LEMMA CalmNext == ASSUME NEW s \in Streams, NEW e, NEW line, Layout(s, e, line), NEW pos \in Nat,
                         NEW i \in 1 .. Len(s), e[i - 1] <= pos, pos < e[i],
                         pos + 1 < e[i] => s[i].kind # "frame" /\ \A p \in pos + 2 .. e[i] : ~IsHead(line[p])
                  PROVE  Calm(s, e, line, pos + 1)
<1>. SUFFICES ASSUME NEW k \in 1 .. Len(s), e[k - 1] < pos + 1, pos + 1 < e[k]
              PROVE  s[k].kind # "frame" /\ \A p \in (pos + 1) + 1 .. e[k] : ~IsHead(line[p])
  BY DEF Calm
<1>1. e[k] \in Nat /\ e[k - 1] \in Nat
  BY EndIs
<1>2. e[k - 1] <= pos /\ pos < e[k]
  BY <1>1
<1>3. i = k
  BY <1>2, OnePiece
<1>4. (pos + 1) + 1 = pos + 2
  OBVIOUS
<1>. QED
  BY <1>3, <1>4

\* The bytes of a piece.
LEMMA BytesOfPiece == ASSUME NEW s \in Streams, NEW e, NEW line, Layout(s, e, line), NEW i \in 1 .. Len(s),
                             NEW j \in 1 .. SizeOf(s[i])
                      PROVE  line[e[i - 1] + j] = ByteOf(s[i], j)
  BY DEF Layout

\* The header of a frame, damaged or not.
LEMMA HeaderOf == ASSUME NEW s \in Streams, NEW e, NEW line, Layout(s, e, line), HarmlessIn(s),
                         NEW i \in 1 .. Len(s), s[i].kind # "noise"
                  PROVE  /\ line[e[i - 1] + 1] = HEAD
                         /\ line[e[i - 1] + 2] = <<Len(s[i].data) % BASE>>
                         /\ line[e[i - 1] + 3] = <<Len(s[i].data) \div BASE>>
<1>. DEFINE data == s[i].data
<1>1. Len(data) \in Nat /\ SizeOf(s[i]) = Len(data) + 5
  BY SizesAre
<1>2. \A j \in 1 .. 3 : ~(s[i].kind = "damaged" /\ j = s[i].at)
  <2>. SUFFICES ASSUME NEW j \in 1 .. 3, s[i].kind = "damaged", j = s[i].at PROVE FALSE
    OBVIOUS
  <2>1. s[i].at > 3
    BY DEF HarmlessIn
  <2>. QED
    BY <2>1
<1>3. ASSUME NEW j \in 1 .. 3 PROVE line[e[i - 1] + j] = Encoded(data)[j]
  <2>1. ByteOf(s[i], j) = Encoded(data)[j]
    BY <1>2 DEF ByteOf
  <2>2. j \in 1 .. SizeOf(s[i])
    BY <1>1
  <2>. QED
    BY <2>1, <2>2, BytesOfPiece
<1>4. Sequence(data)
  BY PieceIs
<1>. HIDE DEF data
<1>5. PICK x, y : x = <<Len(data) % BASE>> /\ y = <<Len(data) \div BASE>>
  OBVIOUS
<1>6. LengthBytes(Len(data)) = <<x, y>>
  BY <1>5 DEF LengthBytes
<1>7. LengthBytes(Len(data))[1] = x /\ LengthBytes(Len(data))[2] = y
  BY <1>6, Short
<1>8. FrameBody(data)[1] = x /\ FrameBody(data)[2] = y
  BY <1>4, <1>7, EncodedIs
<1>9. Encoded(data)[1] = HEAD /\ Encoded(data)[2] = x /\ Encoded(data)[3] = y
  <2>1. Encoded(data)[1] = HEAD /\ \A j \in 1 .. Len(data) + 2 : Encoded(data)[1 + j] = FrameBody(data)[j]
    BY <1>4, EncodedBytes
  <2>2. 1 \in 1 .. Len(data) + 2 /\ 2 \in 1 .. Len(data) + 2 /\ 1 + 1 = 2 /\ 1 + 2 = 3
    BY <1>1 DEF data
  <2>. QED
    BY <1>8, <2>1, <2>2
<1>. QED
  BY <1>3, <1>5, <1>9 DEF data

\* A byte that is no head.
LEMMA CalmStays == ASSUME NEW s \in Streams, NEW e, NEW line, Layout(s, e, line), HarmlessIn(s),
                          NEW pos \in Nat, pos < Len(line), Calm(s, e, line, pos), ~IsHead(line[pos + 1])
                   PROVE  /\ Calm(s, e, line, pos + 1)
                          /\ \A k \in Good(s) : e[k] <= pos + 1 => e[k] <= pos
<1>1. PICK i \in 1 .. Len(s) : e[i - 1] <= pos /\ pos < e[i]
  BY Inside
<1>2. e[i] \in Nat /\ e[i - 1] \in Nat /\ e[i] = e[i - 1] + SizeOf(s[i]) /\ SizeOf(s[i]) \in Nat
  BY EndIs
<1>4. ASSUME NEW k \in Good(s), e[k] <= pos + 1 PROVE e[k] <= pos
  <2>1. k \in 1 .. Len(s) /\ s[k].kind = "frame"
    BY DEF Good, Layout
  <2>2. /\ e[k] \in Nat /\ e[k - 1] \in Nat /\ Len(s[k].data) \in Nat
        /\ e[k] = e[k - 1] + Len(s[k].data) + 5
    BY <2>1, EndIs
  <2>3. ~(e[k] = pos + 1)
    <3>. SUFFICES ASSUME e[k] = pos + 1 PROVE FALSE
      OBVIOUS
    <3>1. PICK a, b, c : a = e[k] /\ b = e[k - 1] /\ c = Len(s[k].data)
      OBVIOUS
    <3>2. a = b + c + 5 /\ b \in Nat /\ c \in Nat /\ a = pos + 1
      BY <2>2, <3>1
    <3>3. b < pos /\ pos < a
      BY <3>2
    <3>4. s[k].kind # "frame"
      BY <2>1, <3>1, <3>3 DEF Calm
    <3>. QED
      BY <2>1, <3>4
  <2>. QED
    BY <1>4, <2>2, <2>3
<1>3. CASE e[i - 1] < pos
  <2>1. s[i].kind # "frame" /\ \A p \in pos + 1 .. e[i] : ~IsHead(line[p])
    BY <1>1, <1>3 DEF Calm
  <2>2. \A p \in pos + 2 .. e[i] : p \in pos + 1 .. e[i]
    BY <1>2
  <2>. QED
    BY <1>1, <2>1, <2>2, CalmNext, <1>4
<1>5. CASE e[i - 1] = pos
  <2>1. s[i].kind = "noise"
    <3>. SUFFICES ASSUME s[i].kind # "noise" PROVE FALSE
      OBVIOUS
    <3>1. line[pos + 1] = HEAD
      BY <1>5, HeaderOf
    <3>. QED
      BY <3>1, HeadIsHead
  <2>2. \A k \in 1 .. Len(s[i].data) : ~IsHead(s[i].data[k])
    BY <2>1 DEF HarmlessIn
  <2>3. SizeOf(s[i]) = Len(s[i].data)
    BY <2>1 DEF SizeOf
  <2>4. ASSUME NEW p \in pos + 2 .. e[i] PROVE ~IsHead(line[p])
    <3>1. PICK j : j = p - pos
      OBVIOUS
    <3>2. j \in 1 .. SizeOf(s[i]) /\ e[i - 1] + j = p
      BY <1>2, <1>5, <3>1
    <3>3. line[p] = ByteOf(s[i], j)
      BY <3>2, BytesOfPiece
    <3>4. ByteOf(s[i], j) = s[i].data[j]
      BY <2>1 DEF ByteOf
    <3>. QED
      BY <2>2, <2>3, <3>2, <3>3, <3>4
  <2>5. Calm(s, e, line, pos + 1)
    BY <1>1, <2>1, <2>4, CalmNext
  <2>. QED
    BY <1>4, <2>5
<1>. QED
  BY <1>1, <1>2, <1>3, <1>5

\* A head.
LEMMA HeadFound == ASSUME NEW s \in Streams, NEW e, NEW line, Layout(s, e, line), HarmlessIn(s),
                          NEW pos \in Nat, pos < Len(line), Calm(s, e, line, pos), IsHead(line[pos + 1])
                   PROVE  \E i \in 1 .. Len(s) : s[i].kind # "noise" /\ e[i - 1] = pos
<1>1. PICK i \in 1 .. Len(s) : e[i - 1] <= pos /\ pos < e[i]
  BY Inside
<1>2. e[i] \in Nat /\ e[i - 1] \in Nat /\ e[i] = e[i - 1] + SizeOf(s[i]) /\ SizeOf(s[i]) \in Nat
  BY EndIs
<1>3. ~(e[i - 1] < pos)
  <2>. SUFFICES ASSUME e[i - 1] < pos PROVE FALSE
    OBVIOUS
  <2>1. \A p \in pos + 1 .. e[i] : ~IsHead(line[p])
    BY <1>1 DEF Calm
  <2>2. pos + 1 \in pos + 1 .. e[i]
    BY <1>1, <1>2
  <2>. QED
    BY <2>1, <2>2
<1>4. e[i - 1] = pos
  BY <1>1, <1>2, <1>3
<1>5. s[i].kind # "noise"
  <2>. SUFFICES ASSUME s[i].kind = "noise" PROVE FALSE
    OBVIOUS
  <2>1. SizeOf(s[i]) = Len(s[i].data) /\ ByteOf(s[i], 1) = s[i].data[1]
    BY DEF SizeOf, ByteOf
  <2>2. 1 \in 1 .. SizeOf(s[i])
    BY <1>1, <1>2, <1>4
  <2>3. line[pos + 1] = s[i].data[1]
    BY <1>4, <2>1, <2>2, BytesOfPiece
  <2>4. ~IsHead(s[i].data[1])
    BY <2>1, <2>2 DEF HarmlessIn
  <2>. QED
    BY <2>3, <2>4
<1>. QED
  BY <1>4, <1>5

-----------------------------------------------------------------------------
(* The decoder in the input. *)

FrameStates == {"WAIT_FOR_LENGTH_L", "WAIT_FOR_LENGTH_H", "WAIT_FOR_DATA",
                "WAIT_FOR_CHECK_SUM_L", "WAIT_FOR_CHECK_SUM_H"}

\* The place of the head that it took.
HeadAt(pos, d) == pos - Len(d.hwCheckSUM) - (IF d.at = "WAIT_FOR_CHECK_SUM_H" THEN 1 ELSE 0)

\* How long the checksum is: a part of what Decoding says.
Measured(d) ==
    /\ d.at \in {"WAIT_FOR_HEAD", "WAIT_FOR_LENGTH_L"} => d.hwCheckSUM = <<>>
    /\ d.at = "WAIT_FOR_LENGTH_H" => Len(d.hwCheckSUM) = 1
    /\ d.at = "WAIT_FOR_DATA" =>
          /\ d.hwLength \in Nat /\ d.hwCounter \in 0 .. d.hwLength
          /\ Len(d.hwCheckSUM) = d.hwCounter + 2
    /\ d.at \in {"WAIT_FOR_CHECK_SUM_L", "WAIT_FOR_CHECK_SUM_H"} =>
          d.hwLength \in Nat /\ Len(d.hwCheckSUM) = d.hwLength + 2

\* The checksum covers what came behind the head, and its first byte was right.
CoveredIn(line, pos, d) ==
    d.at \in FrameStates =>
        /\ Checked(line, HeadAt(pos, d), d.hwCheckSUM)
        /\ d.at = "WAIT_FOR_CHECK_SUM_H" => line[pos] = <<"L", d.hwCheckSUM>>

\* The frame it reads is the i-th piece.
OnFrame(s, e, pos, d, i) ==
    /\ s[i].kind # "noise" /\ HeadAt(pos, d) = e[i - 1] + 1
    /\ d.at = "WAIT_FOR_LENGTH_H" => d.hwLength = Len(s[i].data) % BASE
    /\ d.at \in {"WAIT_FOR_DATA", "WAIT_FOR_CHECK_SUM_L", "WAIT_FOR_CHECK_SUM_H"} =>
          d.hwLength = Len(s[i].data)

StepIn(s, e, line, pos, d) ==
    /\ d.at \in {"START", "WAIT_FOR_HEAD"} => Calm(s, e, line, pos)
    /\ d.at \in FrameStates => \E i \in 1 .. Len(s) : OnFrame(s, e, pos, d, i)

Given(s, e, line, x) == s \in Streams /\ Layout(s, e, line) /\ (x => HarmlessIn(s))

WholeAt(s, e, line, pos, r, d, h, x) ==
    /\ HasRead(line, r, pos)
    /\ CoveredIn(line, pos, d)
    /\ FoundIn(s, e, pos, h, x)
    /\ x => StepIn(s, e, line, pos, d)

\* Where in the piece it is.
LEMMA Spot ==
  ASSUME NEW s \in Streams, NEW e, NEW line, Layout(s, e, line), NEW pos \in Nat, NEW d, Measured(d),
         d.at \in FrameStates, NEW i \in 1 .. Len(s), OnFrame(s, e, pos, d, i)
  PROVE  /\ d.at = "WAIT_FOR_LENGTH_L" => pos = e[i - 1] + 1
         /\ d.at = "WAIT_FOR_LENGTH_H" => pos = e[i - 1] + 2
         /\ d.at = "WAIT_FOR_DATA" =>
               /\ pos = e[i - 1] + 3 + d.hwCounter /\ d.hwLength = Len(s[i].data)
               /\ d.hwCounter \in Nat /\ d.hwCounter <= d.hwLength
         /\ d.at = "WAIT_FOR_CHECK_SUM_L" => pos = e[i - 1] + 3 + Len(s[i].data)
         /\ d.at = "WAIT_FOR_CHECK_SUM_H" => pos = e[i - 1] + 4 + Len(s[i].data)
         /\ e[i - 1] < pos /\ pos < e[i]
<1>1. PICK b, n, f : b = e[i - 1] /\ n = Len(s[i].data) /\ f = e[i]
  OBVIOUS
<1>2. b \in Nat /\ n \in Nat /\ f = b + n + 5
  BY <1>1, EndIs DEF OnFrame
<1>3. pos - Len(d.hwCheckSUM) - (IF d.at = "WAIT_FOR_CHECK_SUM_H" THEN 1 ELSE 0) = b + 1
  BY <1>1 DEF OnFrame, HeadAt
<1>4. CASE d.at = "WAIT_FOR_LENGTH_L"
  <2>1. Len(d.hwCheckSUM) = 0
    BY <1>4, Short DEF Measured
  <2>2. pos - 0 - 0 = b + 1
    BY <1>3, <1>4, <2>1
  <2>3. pos = b + 1
    BY <1>2, <2>2
  <2>4. b < pos /\ pos < f
    BY <1>2, <2>3
  <2>. QED
    BY <1>1, <1>4, <2>3, <2>4
<1>5. CASE d.at = "WAIT_FOR_LENGTH_H"
  <2>1. Len(d.hwCheckSUM) = 1
    BY <1>5 DEF Measured
  <2>2. pos = b + 2
    BY <1>2, <1>3, <1>5, <2>1
  <2>3. b < pos /\ pos < f
    BY <1>2, <2>2
  <2>. QED
    BY <1>1, <1>5, <2>2, <2>3
<1>6. CASE d.at = "WAIT_FOR_DATA"
  <2>1. d.hwLength = n /\ d.hwCounter \in Nat /\ d.hwCounter <= n /\ Len(d.hwCheckSUM) = d.hwCounter + 2
    BY <1>1, <1>2, <1>6 DEF Measured, OnFrame
  <2>2. pos = b + 3 + d.hwCounter
    BY <1>2, <1>3, <1>6, <2>1
  <2>3. b < pos /\ pos < f
    BY <1>2, <2>1, <2>2
  <2>. QED
    BY <1>1, <1>6, <2>1, <2>2, <2>3
<1>7. CASE d.at \in {"WAIT_FOR_CHECK_SUM_L", "WAIT_FOR_CHECK_SUM_H"}
  <2>1. d.hwLength = n /\ Len(d.hwCheckSUM) = n + 2
    BY <1>1, <1>7 DEF Measured, OnFrame
  <2>2. d.at = "WAIT_FOR_CHECK_SUM_L" => pos = b + 3 + n
    BY <1>2, <1>3, <2>1
  <2>3. d.at = "WAIT_FOR_CHECK_SUM_H" => pos = b + 4 + n
    BY <1>2, <1>3, <2>1
  <2>4. b < pos /\ pos < f
    BY <1>2, <1>7, <2>2, <2>3
  <2>. QED
    BY <1>1, <1>7, <2>2, <2>3, <2>4
<1>. QED
  BY <1>4, <1>5, <1>6, <1>7 DEF FrameStates

\* Bytes within a piece end no frame.
LEMMA FoundWithin ==
  ASSUME NEW s, NEW e, NEW line, NEW x, Given(s, e, line, x), NEW pos \in Nat, NEW q \in Nat, pos <= q,
         NEW h, FoundIn(s, e, pos, h, x), x => \E i \in 1 .. Len(s) : e[i - 1] <= pos /\ q < e[i]
  PROVE  FoundIn(s, e, q, h, x)
<1>1. s \in Streams /\ Layout(s, e, line)
  BY DEF Given
<1>2. ASSUME x, NEW k \in Good(s), e[k] <= q PROVE e[k] <= pos
  <2>1. PICK i \in 1 .. Len(s) : e[i - 1] <= pos /\ q < e[i]
    BY <1>2
  <2>2. k \in 1 .. Len(s)
    BY <1>1 DEF Good, Layout
  <2>. QED
    BY <1>1, <1>2, <2>1, <2>2, NoEnd
<1>3. x => \A k \in Good(s) : e[k] <= q => e[k] <= pos
  BY <1>2
<1>. QED
  BY <1>1, <1>3, FoundStays

\* on_start
LEMMA StartWhole ==
  ASSUME NEW s, NEW e, NEW line, NEW x, NEW pos, NEW r, NEW d, NEW h, WholeAt(s, e, line, pos, r, d, h, x),
         d.at = "START", NEW c, c.at = "WAIT_FOR_HEAD"
  PROVE  WholeAt(s, e, line, pos, r, c, h, x)
<1>1. HasRead(line, r, pos) /\ FoundIn(s, e, pos, h, x) /\ (x => StepIn(s, e, line, pos, d))
  BY DEF WholeAt
<1>2. CoveredIn(line, pos, c)
  BY DEF CoveredIn, FrameStates
<1>3. x => StepIn(s, e, line, pos, c)
  BY <1>1 DEF StepIn, FrameStates
<1>. QED
  BY <1>1, <1>2, <1>3 DEF WholeAt

\* A byte while there is no head.
LEMMA HeadWhole ==
  ASSUME NEW s, NEW e, NEW line, NEW x, Given(s, e, line, x), NEW pos, NEW r, NEW d, NEW h,
         WholeAt(s, e, line, pos, r, d, h, x), d.at = "WAIT_FOR_HEAD", Measured(d), r # <<>>,
         NEW c, c.hwCheckSUM = d.hwCheckSUM,
         c.at = IF IsHead(Head(r)) THEN "WAIT_FOR_LENGTH_L" ELSE "WAIT_FOR_HEAD"
  PROVE  WholeAt(s, e, line, pos + 1, Tail(r), c, h, x)
<1>1. s \in Streams /\ Layout(s, e, line) /\ (x => HarmlessIn(s))
  BY DEF Given
<1>2. HasRead(line, r, pos) /\ FoundIn(s, e, pos, h, x) /\ (x => Calm(s, e, line, pos))
  BY DEF WholeAt, StepIn
<1>3. HasRead(line, Tail(r), pos + 1) /\ pos < Len(line) /\ pos \in Nat /\ Head(r) = line[pos + 1]
  BY <1>2, OneRead
<1>4. pos + 1 \in Nat /\ pos <= pos + 1
  BY <1>3
<1>5. c.hwCheckSUM = <<>>
  BY DEF Measured
<1>6. CASE IsHead(Head(r))
  <2>0. c.at = "WAIT_FOR_LENGTH_L"
    BY <1>6
  <2>1. HeadAt(pos + 1, c) = pos + 1
    BY <1>3, <1>5, <2>0, Short DEF HeadAt
  <2>2. Checked(line, pos + 1, <<>>)
    <3>1. 1 .. 0 = {} /\ pos + 1 \in Nat \ {0}
      BY <1>3
    <3>. QED
      BY <1>3, <1>6, <3>1, Short DEF Checked
  <2>3. CoveredIn(line, pos + 1, c)
    BY <1>5, <2>0, <2>1, <2>2 DEF CoveredIn
  <2>4. ASSUME x PROVE \E i \in 1 .. Len(s) : s[i].kind # "noise" /\ e[i - 1] = pos
    BY <1>1, <1>2, <1>3, <1>6, <2>4, HeadFound
  <2>5. ASSUME x PROVE \E i \in 1 .. Len(s) : e[i - 1] <= pos /\ pos + 1 < e[i]
    <3>1. PICK i \in 1 .. Len(s) : s[i].kind # "noise" /\ e[i - 1] = pos
      BY <2>4, <2>5
    <3>2. e[i] = e[i - 1] + Len(s[i].data) + 5 /\ Len(s[i].data) \in Nat
      BY <1>1, <3>1, EndIs
    <3>3. PICK a, n : a = e[i] /\ n = Len(s[i].data)
      OBVIOUS
    <3>4. a = pos + n + 5 /\ n \in Nat
      BY <3>1, <3>2, <3>3
    <3>5. e[i - 1] <= pos /\ pos + 1 < a
      BY <1>3, <3>1, <3>4
    <3>. QED
      BY <3>3, <3>5
  <2>6. FoundIn(s, e, pos + 1, h, x)
    BY <1>2, <1>3, <1>4, <2>5, FoundWithin
  <2>7. ASSUME x PROVE StepIn(s, e, line, pos + 1, c)
    <3>1. PICK i \in 1 .. Len(s) : s[i].kind # "noise" /\ e[i - 1] = pos
      BY <2>4, <2>7
    <3>2. OnFrame(s, e, pos + 1, c, i)
      BY <2>0, <2>1, <3>1 DEF OnFrame
    <3>. QED
      BY <2>0, <3>2 DEF StepIn
  <2>. QED
    BY <1>3, <2>3, <2>6, <2>7 DEF WholeAt
<1>7. CASE ~IsHead(Head(r))
  <2>0. c.at = "WAIT_FOR_HEAD"
    BY <1>7
  <2>1. CoveredIn(line, pos + 1, c)
    BY <2>0 DEF CoveredIn, FrameStates
  <2>2. ASSUME x PROVE Calm(s, e, line, pos + 1) /\ \A k \in Good(s) : e[k] <= pos + 1 => e[k] <= pos
    BY <1>1, <1>2, <1>3, <1>7, <2>2, CalmStays
  <2>3. FoundIn(s, e, pos + 1, h, x)
    BY <1>1, <1>2, <1>3, <1>4, <2>2, FoundStays
  <2>4. ASSUME x PROVE StepIn(s, e, line, pos + 1, c)
    BY <2>0, <2>2, <2>4 DEF StepIn, FrameStates
  <2>. QED
    BY <1>3, <2>1, <2>3, <2>4 DEF WholeAt
<1>. QED
  BY <1>6, <1>7

\* The checksum covers what is read in a frame.
LEMMA CoveredOneMore ==
  ASSUME NEW line, NEW pos \in Nat, NEW d, CoveredIn(line, pos, d), NEW c,
         d.at \in FrameStates \ {"WAIT_FOR_CHECK_SUM_H"}, c.at \in FrameStates \ {"WAIT_FOR_CHECK_SUM_H"},
         c.hwCheckSUM = Append(d.hwCheckSUM, line[pos + 1])
  PROVE  CoveredIn(line, pos + 1, c) /\ HeadAt(pos + 1, c) = HeadAt(pos, d)
<1>1. PICK q, w, b, m : q = HeadAt(pos, d) /\ w = d.hwCheckSUM /\ b = line[pos + 1] /\ m = Len(w)
  OBVIOUS
<1>2. Checked(line, q, w)
  BY <1>1 DEF CoveredIn
<1>3. m \in Nat /\ q \in Nat
  BY <1>1, <1>2 DEF Checked, Sequence
<1>4. q = pos - m
  <2>1. q = pos - m - 0
    BY <1>1 DEF HeadAt
  <2>. QED
    BY <1>3, <2>1
<1>5. q + m + 1 = pos + 1
  BY <1>3, <1>4
<1>6. line[q + Len(w) + 1] = b
  BY <1>1, <1>5
<1>7. Checked(line, q, Append(w, b)) /\ Len(Append(w, b)) = Len(w) + 1
  BY <1>2, <1>6, CheckedOneMore
<1>8. Len(c.hwCheckSUM) = m + 1
  BY <1>1, <1>7
<1>9. HeadAt(pos + 1, c) = q
  <2>1. HeadAt(pos + 1, c) = (pos + 1) - (m + 1) - 0
    BY <1>8 DEF HeadAt
  <2>. QED
    BY <1>3, <1>4, <2>1
<1>. QED
  BY <1>1, <1>7, <1>9 DEF CoveredIn

\* From one state of the decoder to another the bytes of b are read.
Covers(line, pos, d, c, b, k) ==
    /\ Sequence(b) /\ k = Len(b) /\ c.hwCheckSUM = d.hwCheckSUM \o b
    /\ \A j \in 1 .. Len(b) : line[pos + j] = b[j]
    /\ d.at \in FrameStates \ {"WAIT_FOR_CHECK_SUM_H"} /\ c.at \in FrameStates \ {"WAIT_FOR_CHECK_SUM_H"}

LEMMA CoveredMore ==
  ASSUME NEW line, NEW pos \in Nat, NEW d, CoveredIn(line, pos, d), NEW c, NEW b, NEW k, Covers(line, pos, d, c, b, k)
  PROVE  CoveredIn(line, pos + k, c) /\ HeadAt(pos + k, c) = HeadAt(pos, d)
<1>0. /\ Sequence(b) /\ k = Len(b) /\ c.hwCheckSUM = d.hwCheckSUM \o b
      /\ \A j \in 1 .. k : line[pos + j] = b[j]
      /\ d.at \in FrameStates /\ d.at # "WAIT_FOR_CHECK_SUM_H"
      /\ c.at \in FrameStates /\ c.at # "WAIT_FOR_CHECK_SUM_H"
  BY DEF Covers
<1>1. PICK q, w, m : q = HeadAt(pos, d) /\ w = d.hwCheckSUM /\ m = Len(w)
  OBVIOUS
<1>2. Checked(line, q, w)
  BY <1>0, <1>1 DEF CoveredIn
<1>3. m \in Nat /\ q \in Nat /\ k \in Nat
  BY <1>0, <1>1, <1>2 DEF Checked, Sequence
<1>4. q = pos - m
  <2>1. q = pos - m - 0
    BY <1>0, <1>1 DEF HeadAt
  <2>. QED
    BY <1>3, <2>1
<1>5. q + m = pos
  BY <1>3, <1>4
<1>6. \A j \in 1 .. Len(b) : line[q + Len(w) + j] = b[j]
  BY <1>0, <1>1, <1>5
<1>7. Checked(line, q, w \o b) /\ Len(w \o b) = Len(w) + Len(b)
  BY <1>0, <1>2, <1>6, CheckedMore
<1>8. Len(c.hwCheckSUM) = m + k
  BY <1>0, <1>1, <1>7
<1>9. HeadAt(pos + k, c) = q
  <2>1. HeadAt(pos + k, c) = (pos + k) - (m + k) - 0
    BY <1>0, <1>8 DEF HeadAt
  <2>. QED
    BY <1>3, <1>4, <2>1
<1>. QED
  BY <1>0, <1>1, <1>7, <1>9 DEF CoveredIn

\* Within a frame it goes on in this frame.
LEMMA FrameGoesOn ==
  ASSUME NEW s, NEW e, NEW line, NEW x, Given(s, e, line, x), NEW pos \in Nat, NEW q \in Nat, pos <= q,
         NEW d, NEW h, FoundIn(s, e, pos, h, x), d.at \in FrameStates, Measured(d), NEW c, c.at \in FrameStates,
         x => \E i \in 1 .. Len(s) : OnFrame(s, e, pos, d, i) /\ OnFrame(s, e, q, c, i) /\ q < e[i]
  PROVE  FoundIn(s, e, q, h, x) /\ (x => StepIn(s, e, line, q, c))
<1>1. s \in Streams /\ Layout(s, e, line)
  BY DEF Given
<1>2. ASSUME x PROVE StepIn(s, e, line, q, c) /\ \E i \in 1 .. Len(s) : e[i - 1] <= pos /\ q < e[i]
  <2>1. PICK i \in 1 .. Len(s) : OnFrame(s, e, pos, d, i) /\ OnFrame(s, e, q, c, i) /\ q < e[i]
    BY <1>2
  <2>2. e[i - 1] < pos
    BY <1>1, <2>1, Spot
  <2>3. e[i - 1] <= pos
    BY <1>1, <2>2, EndIs
  <2>4. StepIn(s, e, line, q, c)
    BY <2>1 DEF StepIn, FrameStates
  <2>. QED
    BY <2>1, <2>3, <2>4
<1>3. FoundIn(s, e, q, h, x)
  BY <1>2, FoundWithin
<1>. QED
  BY <1>2, <1>3

\* The low byte of the length.
LEMMA LengthLWhole ==
  ASSUME NEW s, NEW e, NEW line, NEW x, Given(s, e, line, x), NEW pos, NEW r, NEW d, NEW h,
         WholeAt(s, e, line, pos, r, d, h, x), d.at = "WAIT_FOR_LENGTH_L", Measured(d), r # <<>>,
         NEW c, c.hwCheckSUM = Append(d.hwCheckSUM, Head(r)), c.at = "WAIT_FOR_LENGTH_H",
         c.hwLength = Value(Head(r))
  PROVE  WholeAt(s, e, line, pos + 1, Tail(r), c, h, x)
<1>1. s \in Streams /\ Layout(s, e, line) /\ (x => HarmlessIn(s))
  BY DEF Given
<1>2. /\ HasRead(line, r, pos) /\ FoundIn(s, e, pos, h, x) /\ CoveredIn(line, pos, d)
      /\ x => \E i \in 1 .. Len(s) : OnFrame(s, e, pos, d, i)
  BY DEF WholeAt, StepIn, FrameStates
<1>3. HasRead(line, Tail(r), pos + 1) /\ pos < Len(line) /\ pos \in Nat /\ Head(r) = line[pos + 1]
  BY <1>2, OneRead
<1>4. pos + 1 \in Nat /\ pos <= pos + 1 /\ d.at \in FrameStates /\ c.at \in FrameStates
  BY <1>3 DEF FrameStates
<1>5. CoveredIn(line, pos + 1, c) /\ HeadAt(pos + 1, c) = HeadAt(pos, d)
  BY <1>2, <1>3, CoveredOneMore DEF FrameStates
<1>6. ASSUME x PROVE \E i \in 1 .. Len(s) : OnFrame(s, e, pos, d, i) /\ OnFrame(s, e, pos + 1, c, i) /\ pos + 1 < e[i]
  <2>1. PICK i \in 1 .. Len(s) : OnFrame(s, e, pos, d, i)
    BY <1>2, <1>6
  <2>2. s[i].kind # "noise" /\ HeadAt(pos, d) = e[i - 1] + 1
    BY <2>1 DEF OnFrame
  <2>3. pos = e[i - 1] + 1
    BY <1>1, <1>3, <1>4, <2>1, Spot
  <2>4. e[i - 1] \in Nat /\ Len(s[i].data) \in Nat /\ e[i] = e[i - 1] + Len(s[i].data) + 5
    BY <1>1, <2>2, EndIs
  <2>5. PICK b, n, f, y : b = e[i - 1] /\ n = Len(s[i].data) /\ f = e[i] /\ y = Len(s[i].data) % BASE
    OBVIOUS
  <2>6. b \in Nat /\ n \in Nat /\ f = b + n + 5 /\ pos = b + 1
    BY <2>3, <2>4, <2>5
  <2>7. pos + 1 < f /\ pos + 1 = b + 2
    BY <2>6
  <2>8. Head(r) = <<y>>
    BY <1>1, <1>3, <1>6, <2>2, <2>5, <2>7, HeaderOf
  <2>9. Value(<<y>>) = y
    BY Short DEF Value
  <2>a. OnFrame(s, e, pos + 1, c, i)
    BY <1>5, <2>2, <2>5, <2>8, <2>9 DEF OnFrame
  <2>. QED
    BY <2>1, <2>5, <2>7, <2>a
<1>7. FoundIn(s, e, pos + 1, h, x) /\ (x => StepIn(s, e, line, pos + 1, c))
  BY <1>2, <1>3, <1>4, <1>6, FrameGoesOn
<1>. QED
  BY <1>3, <1>5, <1>7 DEF WholeAt

\* The high byte.
LEMMA LengthHWhole ==
  ASSUME NEW s, NEW e, NEW line, NEW x, Given(s, e, line, x), NEW pos, NEW r, NEW d, NEW h,
         WholeAt(s, e, line, pos, r, d, h, x), d.at = "WAIT_FOR_LENGTH_H", Measured(d), r # <<>>,
         NEW c, c.hwCheckSUM = Append(d.hwCheckSUM, Head(r)),
         c.at \in {"WAIT_FOR_CHECK_SUM_L", "WAIT_FOR_DATA"},
         c.hwLength = d.hwLength + BASE * Value(Head(r))
  PROVE  WholeAt(s, e, line, pos + 1, Tail(r), c, h, x)
<1>1. s \in Streams /\ Layout(s, e, line) /\ (x => HarmlessIn(s))
  BY DEF Given
<1>2. /\ HasRead(line, r, pos) /\ FoundIn(s, e, pos, h, x) /\ CoveredIn(line, pos, d)
      /\ x => \E i \in 1 .. Len(s) : OnFrame(s, e, pos, d, i)
  BY DEF WholeAt, StepIn, FrameStates
<1>3. HasRead(line, Tail(r), pos + 1) /\ pos < Len(line) /\ pos \in Nat /\ Head(r) = line[pos + 1]
  BY <1>2, OneRead
<1>4. pos + 1 \in Nat /\ pos <= pos + 1 /\ d.at \in FrameStates /\ c.at \in FrameStates
  BY <1>3 DEF FrameStates
<1>5. CoveredIn(line, pos + 1, c) /\ HeadAt(pos + 1, c) = HeadAt(pos, d)
  BY <1>2, <1>3, CoveredOneMore DEF FrameStates
<1>6. ASSUME x PROVE \E i \in 1 .. Len(s) : OnFrame(s, e, pos, d, i) /\ OnFrame(s, e, pos + 1, c, i) /\ pos + 1 < e[i]
  <2>1. PICK i \in 1 .. Len(s) : OnFrame(s, e, pos, d, i)
    BY <1>2, <1>6
  <2>2. s[i].kind # "noise" /\ HeadAt(pos, d) = e[i - 1] + 1 /\ d.hwLength = Len(s[i].data) % BASE
    BY <2>1 DEF OnFrame
  <2>3. pos = e[i - 1] + 2
    BY <1>1, <1>3, <1>4, <2>1, Spot
  <2>4. e[i - 1] \in Nat /\ Len(s[i].data) \in Nat /\ e[i] = e[i - 1] + Len(s[i].data) + 5
    BY <1>1, <2>2, EndIs
  <2>5. PICK b, n, f, y : b = e[i - 1] /\ n = Len(s[i].data) /\ f = e[i] /\ y = Len(s[i].data) \div BASE
    OBVIOUS
  <2>6. b \in Nat /\ n \in Nat /\ f = b + n + 5 /\ pos = b + 2
    BY <2>3, <2>4, <2>5
  <2>7. pos + 1 < f /\ pos + 1 = b + 3
    BY <2>6
  <2>8. Head(r) = <<y>>
    <3>1. line[e[i - 1] + 3] = <<Len(s[i].data) \div BASE>>
      BY <1>1, <1>6, <2>2, HeaderOf
    <3>2. line[b + 3] = <<y>>
      BY <2>5, <3>1
    <3>. QED
      BY <1>3, <2>7, <3>2
  <2>9. Value(<<y>>) = y
    BY Short DEF Value
  <2>a. (n % BASE) + BASE * (n \div BASE) = n
    <3>1. BASE \in Nat \ {0}
      BY FrameAssumption
    <3>. QED
      BY <2>6, <3>1
  <2>b. c.hwLength = n
    BY <2>2, <2>5, <2>8, <2>9, <2>a
  <2>c. OnFrame(s, e, pos + 1, c, i)
    BY <1>5, <2>2, <2>5, <2>b DEF OnFrame
  <2>. QED
    BY <2>1, <2>5, <2>7, <2>c
<1>7. FoundIn(s, e, pos + 1, h, x) /\ (x => StepIn(s, e, line, pos + 1, c))
  BY <1>2, <1>3, <1>4, <1>6, FrameGoesOn
<1>. QED
  BY <1>3, <1>5, <1>7 DEF WholeAt

\* Some data.
LEMMA DataWhole ==
  ASSUME NEW s, NEW e, NEW line, NEW x, Given(s, e, line, x), NEW pos, NEW r, NEW d, NEW h,
         WholeAt(s, e, line, pos, r, d, h, x), d.at = "WAIT_FOR_DATA", Measured(d),
         NEW k \in 1 .. Len(r), k <= d.hwLength - d.hwCounter,
         NEW c, c.hwCheckSUM = d.hwCheckSUM \o SubSeq(r, 1, k),
         c.at \in {"WAIT_FOR_CHECK_SUM_L", "WAIT_FOR_DATA"}, c.hwLength = d.hwLength
  PROVE  WholeAt(s, e, line, pos + k, SubSeq(r, k + 1, Len(r)), c, h, x)
<1>1. s \in Streams /\ Layout(s, e, line) /\ (x => HarmlessIn(s))
  BY DEF Given
<1>2. /\ HasRead(line, r, pos) /\ FoundIn(s, e, pos, h, x) /\ CoveredIn(line, pos, d)
      /\ x => \E i \in 1 .. Len(s) : OnFrame(s, e, pos, d, i)
  BY DEF WholeAt, StepIn, FrameStates
<1>0. PICK t, u : t = SubSeq(r, 1, k) /\ u = SubSeq(r, k + 1, Len(r))
  OBVIOUS
<1>3. HasRead(line, u, pos + k) /\ Sequence(t) /\ Len(t) = k /\ \A j \in 1 .. k : line[pos + j] = t[j]
  BY <1>0, <1>2, SomeRead
<1>8. pos \in Nat
  BY <1>2 DEF HasRead
<1>9. k \in Nat
  BY <1>2 DEF HasRead, Sequence
<1>4. pos + k \in Nat /\ pos <= pos + k /\ d.at \in FrameStates /\ c.at \in FrameStates
  BY <1>8, <1>9 DEF FrameStates
<1>5. CoveredIn(line, pos + k, c) /\ HeadAt(pos + k, c) = HeadAt(pos, d)
  <2>1. Covers(line, pos, d, c, t, k)
    BY <1>0, <1>3 DEF Covers, FrameStates
  <2>3. CoveredIn(line, pos, d)
    BY <1>2
  <2>. QED
    BY <1>8, <2>1, <2>3, CoveredMore
<1>6. ASSUME x PROVE \E i \in 1 .. Len(s) : OnFrame(s, e, pos, d, i) /\ OnFrame(s, e, pos + k, c, i) /\ pos + k < e[i]
  <2>1. PICK i \in 1 .. Len(s) : OnFrame(s, e, pos, d, i)
    BY <1>2, <1>6
  <2>2. s[i].kind # "noise" /\ HeadAt(pos, d) = e[i - 1] + 1 /\ d.hwLength = Len(s[i].data)
    BY <2>1 DEF OnFrame
  <2>3. pos = e[i - 1] + 3 + d.hwCounter /\ d.hwCounter \in Nat
    BY <1>1, <1>4, <1>8, <2>1, Spot
  <2>4. e[i - 1] \in Nat /\ Len(s[i].data) \in Nat /\ e[i] = e[i - 1] + Len(s[i].data) + 5
    BY <1>1, <2>2, EndIs
  <2>5. PICK b, n, f, l : b = e[i - 1] /\ n = Len(s[i].data) /\ f = e[i] /\ l = d.hwCounter
    OBVIOUS
  <2>6. b \in Nat /\ n \in Nat /\ l \in Nat /\ f = b + n + 5 /\ pos = b + 3 + l /\ k <= n - l
    BY <2>2, <2>3, <2>4, <2>5
  <2>7. pos + k < f
    BY <1>9, <2>6
  <2>a. OnFrame(s, e, pos + k, c, i)
    BY <1>5, <2>2 DEF OnFrame
  <2>. QED
    BY <2>1, <2>5, <2>7, <2>a
<1>7. FoundIn(s, e, pos + k, h, x) /\ (x => StepIn(s, e, line, pos + k, c))
  BY <1>2, <1>4, <1>6, <1>8, FrameGoesOn
<1>. QED
  BY <1>0, <1>3, <1>5, <1>7 DEF WholeAt

\* What was read of a frame whose length and data are not damaged.
LEMMA BodyRead ==
  ASSUME NEW s \in Streams, NEW e, NEW line, Layout(s, e, line), NEW pos \in Nat, NEW d, Measured(d),
         d.at \in {"WAIT_FOR_CHECK_SUM_L", "WAIT_FOR_CHECK_SUM_H"}, CoveredIn(line, pos, d),
         NEW i \in 1 .. Len(s), OnFrame(s, e, pos, d, i),
         s[i].kind = "damaged" => s[i].at \notin 2 .. Len(s[i].data) + 3
  PROVE  d.hwCheckSUM = FrameBody(s[i].data)
<1>1. PICK w, q, data, b : w = d.hwCheckSUM /\ q = HeadAt(pos, d) /\ data = s[i].data /\ b = e[i - 1]
  OBVIOUS
<1>2. Sequence(w) /\ \A j \in 1 .. Len(w) : line[q + j] = w[j]
  BY <1>1 DEF CoveredIn, Checked, FrameStates
<1>3. s[i].kind # "noise" /\ q = b + 1 /\ d.hwLength = Len(data)
  BY <1>1 DEF OnFrame
<1>4. Sequence(data) /\ Len(data) \in Nat /\ b \in Nat /\ SizeOf(s[i]) = Len(data) + 5
  BY <1>1, <1>3, PieceIs, EndIs, SizesAre
<1>5. PICK n \in Nat : n = Len(data)
  BY <1>4
<1>6. Len(w) = n + 2
  BY <1>1, <1>3, <1>5 DEF Measured
<1>7. Sequence(FrameBody(data)) /\ Len(FrameBody(data)) = n + 2
  BY <1>4, <1>5, EncodedIs
<1>8. ASSUME NEW j \in 1 .. n + 2 PROVE w[j] = FrameBody(data)[j]
  <2>1. PICK k : k = 1 + j
    OBVIOUS
  <2>2. k \in 1 .. n + 5 /\ k \in 2 .. n + 3 /\ q + j = b + k
    <3>1. n \in Nat /\ b \in Nat /\ q = b + 1
      BY <1>3, <1>4
    <3>. QED
      BY <2>1, <3>1
  <2>3. ~(s[i].kind = "damaged" /\ k = s[i].at)
    BY <1>1, <1>5, <2>2
  <2>4. ByteOf(s[i], k) = Encoded(data)[k]
    BY <1>1, <1>3, <2>3 DEF ByteOf
  <2>5. line[b + k] = ByteOf(s[i], k)
    BY <1>1, <1>4, <1>5, <2>2, BytesOfPiece
  <2>6. Encoded(data)[1 + j] = FrameBody(data)[j]
    BY <1>4, <1>5, EncodedBytes
  <2>7. line[q + j] = w[j]
    BY <1>2, <1>6
  <2>. QED
    BY <2>1, <2>2, <2>4, <2>5, <2>6, <2>7
<1>9. w = FrameBody(data)
  BY <1>2, <1>6, <1>7, <1>8, Equal
<1>. QED
  BY <1>1, <1>9

\* The checksum of a frame, where it is not damaged.
DamagedAt(p, k) == p.kind = "damaged" /\ p.at = k

EndsWith(line, b, n, data, p) ==
    /\ DamagedAt(p, n + 4) \/ line[b + (n + 4)] = <<"L", FrameBody(data)>>
    /\ DamagedAt(p, n + 5) \/ line[b + (n + 5)] = <<"H", FrameBody(data)>>

LEMMA CheckSumOf ==
  ASSUME NEW s \in Streams, NEW e, NEW line, Layout(s, e, line), NEW i \in 1 .. Len(s), s[i].kind # "noise"
  PROVE  EndsWith(line, e[i - 1], Len(s[i].data), s[i].data, s[i])
<1>0. PICK n, data : n = Len(s[i].data) /\ data = s[i].data
  OBVIOUS
<1>1. n \in Nat /\ SizeOf(s[i]) = n + 5 /\ Sequence(data)
  BY <1>0, PieceIs, SizesAre
<1>2. Encoded(data)[n + 4] = <<"L", FrameBody(data)>> /\ Encoded(data)[n + 5] = <<"H", FrameBody(data)>>
  BY <1>0, <1>1, EncodedBytes
<1>3. n + 4 \in 1 .. SizeOf(s[i]) /\ n + 5 \in 1 .. SizeOf(s[i])
  BY <1>1
<1>4. /\ line[e[i - 1] + (n + 4)] = ByteOf(s[i], n + 4)
      /\ line[e[i - 1] + (n + 5)] = ByteOf(s[i], n + 5)
  BY <1>3, BytesOfPiece
<1>5. \A k : DamagedAt(s[i], k) \/ ByteOf(s[i], k) = Encoded(data)[k]
  BY <1>0 DEF ByteOf, DamagedAt
<1>6. EndsWith(line, e[i - 1], n, data, s[i])
  BY <1>2, <1>4, <1>5 DEF EndsWith
<1>. QED
  BY <1>0, <1>6

\* The first byte of the checksum is right.
LEMMA RightLWhole ==
  ASSUME NEW s, NEW e, NEW line, NEW x, Given(s, e, line, x), NEW pos, NEW r, NEW d, NEW h,
         WholeAt(s, e, line, pos, r, d, h, x), d.at = "WAIT_FOR_CHECK_SUM_L", Measured(d), r # <<>>,
         Head(r) = <<"L", d.hwCheckSUM>>,
         NEW c, c.hwCheckSUM = d.hwCheckSUM, c.at = "WAIT_FOR_CHECK_SUM_H", c.hwLength = d.hwLength
  PROVE  WholeAt(s, e, line, pos + 1, Tail(r), c, h, x)
<1>1. s \in Streams /\ Layout(s, e, line) /\ (x => HarmlessIn(s))
  BY DEF Given
<1>2. /\ HasRead(line, r, pos) /\ FoundIn(s, e, pos, h, x) /\ CoveredIn(line, pos, d)
      /\ x => \E i \in 1 .. Len(s) : OnFrame(s, e, pos, d, i)
  BY DEF WholeAt, StepIn, FrameStates
<1>3. HasRead(line, Tail(r), pos + 1) /\ pos < Len(line) /\ pos \in Nat /\ Head(r) = line[pos + 1]
  BY <1>2, OneRead
<1>4. pos + 1 \in Nat /\ pos <= pos + 1 /\ d.at \in FrameStates /\ c.at \in FrameStates
  BY <1>3 DEF FrameStates
<1>5. CoveredIn(line, pos + 1, c) /\ HeadAt(pos + 1, c) = HeadAt(pos, d)
  <2>1. Checked(line, HeadAt(pos, d), d.hwCheckSUM)
    BY <1>2, <1>4 DEF CoveredIn
  <2>2. PICK m : m = Len(d.hwCheckSUM)
    OBVIOUS
  <2>3. m \in Nat
    BY <2>1, <2>2 DEF Checked, Sequence
  <2>4. HeadAt(pos, d) = pos - m - 0 /\ HeadAt(pos + 1, c) = (pos + 1) - m - 1
    BY <2>2 DEF HeadAt
  <2>5. HeadAt(pos + 1, c) = HeadAt(pos, d)
    BY <1>3, <2>3, <2>4
  <2>. QED
    BY <1>3, <2>1, <2>5 DEF CoveredIn
<1>6. ASSUME x PROVE \E i \in 1 .. Len(s) : OnFrame(s, e, pos, d, i) /\ OnFrame(s, e, pos + 1, c, i) /\ pos + 1 < e[i]
  <2>1. PICK i \in 1 .. Len(s) : OnFrame(s, e, pos, d, i)
    BY <1>2, <1>6
  <2>2. s[i].kind # "noise" /\ HeadAt(pos, d) = e[i - 1] + 1 /\ d.hwLength = Len(s[i].data)
    BY <2>1 DEF OnFrame
  <2>3. pos = e[i - 1] + 3 + Len(s[i].data)
    BY <1>1, <1>3, <1>4, <2>1, Spot
  <2>4. e[i - 1] \in Nat /\ Len(s[i].data) \in Nat /\ e[i] = e[i - 1] + Len(s[i].data) + 5
    BY <1>1, <2>2, EndIs
  <2>5. PICK b, n, f : b = e[i - 1] /\ n = Len(s[i].data) /\ f = e[i]
    OBVIOUS
  <2>6. b \in Nat /\ n \in Nat /\ f = b + n + 5 /\ pos = b + 3 + n
    BY <2>3, <2>4, <2>5
  <2>7. pos + 1 < f
    BY <2>6
  <2>8. OnFrame(s, e, pos + 1, c, i)
    BY <1>5, <2>2 DEF OnFrame
  <2>. QED
    BY <2>1, <2>5, <2>7, <2>8
<1>7. FoundIn(s, e, pos + 1, h, x) /\ (x => StepIn(s, e, line, pos + 1, c))
  BY <1>2, <1>3, <1>4, <1>6, FrameGoesOn
<1>. QED
  BY <1>3, <1>5, <1>7 DEF WholeAt

\* It is wrong.
LEMMA WrongLWhole ==
  ASSUME NEW s, NEW e, NEW line, NEW x, Given(s, e, line, x), NEW pos, NEW r, NEW d, NEW h,
         WholeAt(s, e, line, pos, r, d, h, x), d.at = "WAIT_FOR_CHECK_SUM_L", Measured(d), r # <<>>,
         Head(r) # <<"L", d.hwCheckSUM>>, NEW c, c.at = "START"
  PROVE  WholeAt(s, e, line, pos + 1, Tail(r), c, h, x)
<1>1. s \in Streams /\ Layout(s, e, line) /\ (x => HarmlessIn(s))
  BY DEF Given
<1>2. /\ HasRead(line, r, pos) /\ FoundIn(s, e, pos, h, x) /\ CoveredIn(line, pos, d)
      /\ x => \E i \in 1 .. Len(s) : OnFrame(s, e, pos, d, i)
  BY DEF WholeAt, StepIn, FrameStates
<1>3. HasRead(line, Tail(r), pos + 1) /\ pos < Len(line) /\ pos \in Nat /\ Head(r) = line[pos + 1]
  BY <1>2, OneRead
<1>4. pos + 1 \in Nat /\ pos <= pos + 1 /\ d.at \in FrameStates
  BY <1>3 DEF FrameStates
<1>5. CoveredIn(line, pos + 1, c)
  BY DEF CoveredIn, FrameStates
<1>6. ASSUME x PROVE Calm(s, e, line, pos + 1) /\ \E i \in 1 .. Len(s) : e[i - 1] <= pos /\ pos + 1 < e[i]
  <2>1. PICK i \in 1 .. Len(s) : OnFrame(s, e, pos, d, i)
    BY <1>2, <1>6
  <2>2. s[i].kind # "noise"
    BY <2>1 DEF OnFrame
  <2>3. pos = e[i - 1] + 3 + Len(s[i].data)
    BY <1>1, <1>3, <1>4, <2>1, Spot
  <2>4. e[i - 1] \in Nat /\ Len(s[i].data) \in Nat /\ e[i] = e[i - 1] + Len(s[i].data) + 5
    BY <1>1, <2>2, EndIs
  <2>5. PICK b, n, f, data : b = e[i - 1] /\ n = Len(s[i].data) /\ f = e[i] /\ data = s[i].data
    OBVIOUS
  <2>z. EndsWith(line, b, n, data, s[i])
    <3>1. EndsWith(line, e[i - 1], Len(s[i].data), s[i].data, s[i])
      BY <1>1, <2>2, CheckSumOf
    <3>. QED
      BY <2>5, <3>1
  <2>6. b \in Nat /\ n \in Nat /\ f = b + n + 5 /\ pos = b + 3 + n
    BY <2>3, <2>4, <2>5
  <2>7. b <= pos /\ pos < f /\ pos + 1 < f /\ pos + 2 = f /\ pos + 1 = b + (n + 4) /\ f = b + (n + 5)
    BY <2>6
  <2>8. s[i].kind = "damaged" /\ s[i].at \in 2 .. n + 4
    <3>. SUFFICES ASSUME ~(s[i].kind = "damaged" /\ s[i].at \in 2 .. n + 4) PROVE FALSE
      OBVIOUS
    <3>1. s[i].kind = "damaged" => s[i].at \notin 2 .. Len(s[i].data) + 3
      <4>1. Len(s[i].data) = n
        BY <2>5
      <4>2. \A k \in 2 .. n + 3 : k \in 2 .. n + 4
        BY <2>6
      <4>. QED
        BY <4>1, <4>2
    <3>2. d.hwCheckSUM = FrameBody(data)
      BY <1>1, <1>2, <1>3, <2>1, <2>5, <3>1, BodyRead
    <3>3. ~DamagedAt(s[i], n + 4)
      BY <2>6 DEF DamagedAt
    <3>4. line[b + (n + 4)] = <<"L", FrameBody(data)>>
      BY <2>z, <3>3 DEF EndsWith
    <3>. QED
      BY <1>3, <2>7, <3>2, <3>4
  <2>9. SizeOf(s[i]) = n + 5 /\ SizeOf(s[i]) \in 1 .. SizeOf(s[i])
    <3>1. SizeOf(s[i]) = Len(s[i].data) + 5
      BY <1>1, <2>2, SizesAre
    <3>2. SizeOf(s[i]) = n + 5
      BY <2>5, <3>1
    <3>3. n + 5 \in 1 .. n + 5
      BY <2>6
    <3>. QED
      BY <3>2, <3>3
  <2>a. line[f] = ByteOf(s[i], SizeOf(s[i]))
    BY <1>1, <2>5, <2>7, <2>9, BytesOfPiece
  <2>b. ~IsHead(line[f])
    BY <1>1, <1>6, <2>8, <2>a DEF HarmlessIn
  <2>c. \A p \in pos + 2 .. f : p = f
    BY <2>6, <2>7
  <2>d. s[i].kind # "frame" /\ \A p \in pos + 2 .. e[i] : ~IsHead(line[p])
    BY <2>5, <2>8, <2>b, <2>c
  <2>e. e[i - 1] <= pos /\ pos < e[i] /\ pos + 1 < e[i]
    BY <2>5, <2>7
  <2>f. Calm(s, e, line, pos + 1)
    BY <1>1, <1>3, <2>d, <2>e, CalmNext
  <2>. QED
    BY <2>e, <2>f
<1>7. FoundIn(s, e, pos + 1, h, x)
  BY <1>2, <1>3, <1>4, <1>6, FoundWithin
<1>8. x => StepIn(s, e, line, pos + 1, c)
  BY <1>6 DEF StepIn, FrameStates
<1>. QED
  BY <1>3, <1>5, <1>7, <1>8 DEF WholeAt

\* The second byte is wrong.
LEMMA WrongHWhole ==
  ASSUME NEW s, NEW e, NEW line, NEW x, Given(s, e, line, x), NEW pos, NEW r, NEW d, NEW h,
         WholeAt(s, e, line, pos, r, d, h, x), d.at = "WAIT_FOR_CHECK_SUM_H", Measured(d), r # <<>>,
         Head(r) # <<"H", d.hwCheckSUM>>, NEW c, c.at = "START"
  PROVE  WholeAt(s, e, line, pos + 1, Tail(r), c, h, x)
<1>1. s \in Streams /\ Layout(s, e, line) /\ (x => HarmlessIn(s))
  BY DEF Given
<1>2. /\ HasRead(line, r, pos) /\ FoundIn(s, e, pos, h, x) /\ CoveredIn(line, pos, d)
      /\ x => \E i \in 1 .. Len(s) : OnFrame(s, e, pos, d, i)
  BY DEF WholeAt, StepIn, FrameStates
<1>3. HasRead(line, Tail(r), pos + 1) /\ pos < Len(line) /\ pos \in Nat /\ Head(r) = line[pos + 1]
  BY <1>2, OneRead
<1>4. pos + 1 \in Nat /\ pos <= pos + 1 /\ d.at \in FrameStates
  BY <1>3 DEF FrameStates
<1>5. CoveredIn(line, pos + 1, c)
  BY DEF CoveredIn, FrameStates
<1>6. ASSUME x PROVE Calm(s, e, line, pos + 1) /\ \A k \in Good(s) : e[k] <= pos + 1 => e[k] <= pos
  <2>1. PICK i \in 1 .. Len(s) : OnFrame(s, e, pos, d, i)
    BY <1>2, <1>6
  <2>2. s[i].kind # "noise"
    BY <2>1 DEF OnFrame
  <2>3. pos = e[i - 1] + 4 + Len(s[i].data)
    BY <1>1, <1>3, <1>4, <2>1, Spot
  <2>4. e[i - 1] \in Nat /\ Len(s[i].data) \in Nat /\ e[i] = e[i - 1] + Len(s[i].data) + 5
    BY <1>1, <2>2, EndIs
  <2>5. PICK b, n, f, data : b = e[i - 1] /\ n = Len(s[i].data) /\ f = e[i] /\ data = s[i].data
    OBVIOUS
  <2>z. EndsWith(line, b, n, data, s[i])
    <3>1. EndsWith(line, e[i - 1], Len(s[i].data), s[i].data, s[i])
      BY <1>1, <2>2, CheckSumOf
    <3>. QED
      BY <2>5, <3>1
  <2>6. b \in Nat /\ n \in Nat /\ f = b + n + 5 /\ pos = b + 4 + n
    BY <2>3, <2>4, <2>5
  <2>7. b < pos /\ pos < f /\ pos + 1 = f /\ pos + 1 = b + (n + 5) /\ ~(pos + 1 < f)
    BY <2>6
  <2>8. s[i].kind # "frame"
    <3>. SUFFICES ASSUME s[i].kind = "frame" PROVE FALSE
      OBVIOUS
    <3>1. s[i].kind = "damaged" => s[i].at \notin 2 .. Len(s[i].data) + 3
      OBVIOUS
    <3>2. d.hwCheckSUM = FrameBody(data)
      BY <1>1, <1>2, <1>3, <2>1, <2>5, <3>1, BodyRead
    <3>3. ~DamagedAt(s[i], n + 5)
      BY DEF DamagedAt
    <3>4. line[b + (n + 5)] = <<"H", FrameBody(data)>>
      BY <2>z, <3>3 DEF EndsWith
    <3>. QED
      BY <1>3, <2>7, <3>2, <3>4
  <2>9. e[i - 1] <= pos /\ pos < e[i] /\ ~(pos + 1 < e[i])
    BY <2>5, <2>6, <2>7
  <2>a. Calm(s, e, line, pos + 1)
    BY <1>1, <1>3, <2>9, CalmNext
  <2>b. ASSUME NEW k \in Good(s), e[k] <= pos + 1 PROVE e[k] <= pos
    <3>1. k \in 1 .. Len(s) /\ s[k].kind = "frame"
      BY <1>1 DEF Good, Layout
    <3>2. k # i
      BY <2>8, <3>1
    <3>3. e[k] \in Nat /\ e[k - 1] \in Nat /\ Len(s[k].data) \in Nat /\ e[k] = e[k - 1] + Len(s[k].data) + 5
      BY <1>1, <3>1, EndIs
    <3>4. PICK t, u, v : t = e[k] /\ u = e[k - 1] /\ v = Len(s[k].data)
      OBVIOUS
    <3>5. t = u + v + 5 /\ u \in Nat /\ v \in Nat /\ t <= f
      BY <2>7, <2>b, <3>3, <3>4
    <3>6. CASE k < i
      <4>1. e[k] <= e[i - 1]
        BY <1>1, <3>1, <3>6, Behind
      <4>2. t <= b /\ b < pos /\ b \in Nat /\ t \in Nat
        <5>1. t <= b
          BY <2>5, <3>4, <4>1
        <5>2. t \in Nat
          BY <3>5
        <5>. QED
          BY <2>6, <2>7, <5>1, <5>2
      <4>3. t <= pos
        BY <1>3, <4>2
      <4>. QED
        BY <3>4, <4>3
    <3>7. CASE i < k
      <4>0. e[i] <= e[k - 1]
        BY <1>1, <3>1, <3>7, Behind
      <4>1. f <= u
        BY <2>5, <3>4, <4>0
      <4>. QED
        BY <2>6, <3>5, <4>1
    <3>8. k < i \/ i < k
      BY <3>1, <3>2
    <3>. QED
      BY <3>6, <3>7, <3>8
  <2>. QED
    BY <2>a, <2>b
<1>7. FoundIn(s, e, pos + 1, h, x)
  BY <1>1, <1>2, <1>3, <1>4, <1>6, FoundStays
<1>8. x => StepIn(s, e, line, pos + 1, c)
  BY <1>6 DEF StepIn, FrameStates
<1>. QED
  BY <1>3, <1>5, <1>7, <1>8 DEF WholeAt

\* The whole checksum is right: a frame has been found.
LEMMA ParsedWhole ==
  ASSUME NEW s, NEW e, NEW line, NEW x, Given(s, e, line, x), NEW pos, NEW r, NEW d, NEW h, Sequence(h),
         WholeAt(s, e, line, pos, r, d, h, x), d.at = "WAIT_FOR_CHECK_SUM_H", Measured(d), r # <<>>,
         Head(r) = <<"H", d.hwCheckSUM>>, NEW c, c.at = "START",
         NEW data, data = SubSeq(d.hwCheckSUM, 3, Len(d.hwCheckSUM))
  PROVE  WholeAt(s, e, line, pos + 1, Tail(r), c, Append(h, data), x)
<1>1. s \in Streams /\ Layout(s, e, line) /\ (x => HarmlessIn(s))
  BY DEF Given
<1>2. HasRead(line, r, pos) /\ FoundIn(s, e, pos, h, x) /\ CoveredIn(line, pos, d)
  BY DEF WholeAt
<1>3. HasRead(line, Tail(r), pos + 1) /\ pos < Len(line) /\ pos \in Nat /\ Head(r) = line[pos + 1]
  BY <1>2, OneRead
<1>5. CoveredIn(line, pos + 1, c)
  BY DEF CoveredIn, FrameStates
<1>6. PICK w, q : w = d.hwCheckSUM /\ q = HeadAt(pos, d)
  OBVIOUS
<1>7. Checked(line, q, w) /\ line[pos] = <<"L", w>>
  BY <1>2, <1>6 DEF CoveredIn, FrameStates
<1>8. pos = q + Len(w) + 1
  <2>1. PICK m : m = Len(w)
    OBVIOUS
  <2>2. m \in Nat
    BY <1>7, <2>1 DEF Checked, Sequence
  <2>3. q = pos - m - 1
    BY <1>6, <2>1 DEF HeadAt
  <2>4. pos = q + m + 1
    BY <1>3, <2>2, <2>3
  <2>. QED
    BY <2>1, <2>4
<1>9. line[pos + 1] = <<"H", w>>
  BY <1>3, <1>6
<1>a. PICK i \in 1 .. Len(s) : s[i].kind = "frame" /\ s[i].data = SubSeq(w, 3, Len(w)) /\ e[i] = pos + 1
  <2>1. Checked(line, q, w)
    BY <1>7
  <2>2. line[pos] = <<"L", w>>
    BY <1>7
  <2>3. s \in Streams
    BY <1>1
  <2>4. Layout(s, e, line)
    BY <1>1
  <2>5. pos < Len(line)
    BY <1>3
  <2>. QED
    BY <1>8, <1>9, <2>1, <2>2, <2>3, <2>4, <2>5, FrameAt
<1>b. data = s[i].data
  BY <1>6, <1>a
<1>c. FoundIn(s, e, pos + 1, Append(h, data), x)
  BY <1>1, <1>2, <1>3, <1>a, <1>b, FoundMore
<1>d. Calm(s, e, line, pos + 1)
  <2>1. PICK b, n, f : b = e[i - 1] /\ n = Len(s[i].data) /\ f = e[i]
    OBVIOUS
  <2>2. b \in Nat /\ n \in Nat /\ f = b + n + 5 /\ f = pos + 1
    BY <1>1, <1>a, <2>1, EndIs
  <2>3. b <= pos /\ pos < f /\ ~(pos + 1 < f)
    BY <1>3, <2>2
  <2>4. e[i - 1] <= pos /\ pos < e[i] /\ ~(pos + 1 < e[i])
    BY <2>1, <2>3
  <2>. QED
    BY <1>1, <1>3, <2>4, CalmNext
<1>e. x => StepIn(s, e, line, pos + 1, c)
  BY <1>d DEF StepIn, FrameStates
<1>. QED
  BY <1>3, <1>5, <1>c, <1>e DEF WholeAt

-----------------------------------------------------------------------------
(* What has been parsed is what was sent. *)

\* Somewhere in the input the decoder has read up to.
Placed(s, r, d, h, x) ==
    /\ Sequence(h) /\ Given(s, EndsOf(s), LineOf(s), x)
    /\ \E pos : WholeAt(s, EndsOf(s), LineOf(s), pos, r, d, h, x)

InputInv == \E x \in BOOLEAN : (Harmless => x) /\ Placed(stream, rx, dec, handled, x)

LEMMA PlacedSame == ASSUME NEW x, Placed(stream, rx, dec, handled, x), UNCHANGED <<stream, rx, dec, handled>>
                    PROVE  Placed(stream, rx, dec, handled, x)'
  BY DEF Placed

LEMMA HarmlessIs == ASSUME stream \in Streams, Harmless PROVE HarmlessIn(stream)
<1>1. DOMAIN stream = 1 .. Len(stream)
  BY LayoutHolds DEF Layout
<1>. SUFFICES ASSUME NEW i \in 1 .. Len(stream)
              PROVE  /\ stream[i].kind = "damaged" =>
                           stream[i].at > 3 /\ ~IsHead(ByteOf(stream[i], SizeOf(stream[i])))
                     /\ stream[i].kind = "noise" =>
                           \A k \in 1 .. Len(stream[i].data) : ~IsHead(stream[i].data[k])
  BY DEF HarmlessIn
<1>2. PICK p : p = stream[i]
  OBVIOUS
<1>3. \/ p.kind = "frame"
      \/ p.kind = "damaged" /\ p.at > 3 /\ ~IsHead(Last(PieceBytes(p)))
      \/ p.kind = "noise" /\ HEAD \notin {p.data[k] : k \in DOMAIN p.data}
  BY <1>1, <1>2 DEF Harmless
<1>4. DOMAIN p.data = 1 .. Len(p.data)
  <2>1. Sequence(p.data)
    BY <1>2, PieceIs
  <2>. QED
    BY <2>1 DEF Sequence
<1>5. \A k \in 1 .. Len(p.data) : IsHead(p.data[k]) => p.data[k] = HEAD
  <2>1. \A k \in 1 .. Len(p.data) : IsByte(p.data[k])
    BY <1>2, PieceIs
  <2>. QED
    BY <2>1, HeadByte
<1>6. p.kind = "damaged" => Last(PieceBytes(p)) = ByteOf(p, SizeOf(p))
  <2>. SUFFICES ASSUME p.kind = "damaged" PROVE Last(PieceBytes(p)) = ByteOf(p, SizeOf(p))
    OBVIOUS
  <2>1. Len(PieceBytes(p)) = SizeOf(p) /\ \A j \in 1 .. SizeOf(p) : PieceBytes(p)[j] = ByteOf(p, j)
    BY <1>2, PieceIs, PieceBytesAre
  <2>2. SizeOf(p) \in 1 .. SizeOf(p)
    <3>1. SizeOf(p) = Len(p.data) + 5 /\ Len(p.data) \in Nat
      BY <1>2, SizesAre
    <3>. QED
      BY <3>1
  <2>. QED
    BY <2>1, <2>2 DEF Last
<1>. QED
  BY <1>2, <1>3, <1>4, <1>5, <1>6

\* Before the first byte.
LEMMA NothingRead == ASSUME NEW s \in Streams, NEW e, NEW line, Layout(s, e, line), NEW d, d.at = "START", NEW x
                     PROVE  WholeAt(s, e, line, 0, line, d, <<>>, x)
<1>1. Sequence(line) /\ Len(line) \in Nat
  BY DEF Layout
<1>2. HasRead(line, line, 0)
  <2>1. \A j \in 1 .. Len(line) : 0 + j = j
    BY <1>1
  <2>. QED
    BY <1>1, <2>1 DEF HasRead
<1>3. CoveredIn(line, 0, d)
  BY DEF CoveredIn, FrameStates
<1>4. ASSUME NEW k \in 1 .. Len(s) PROVE ~(e[k - 1] < 0) /\ (s[k].kind = "frame" => ~(e[k] <= 0))
  <2>1. e[k - 1] \in Nat
    BY EndIs
  <2>2. s[k].kind = "frame" => e[k] = e[k - 1] + Len(s[k].data) + 5 /\ Len(s[k].data) \in Nat
    BY EndIs
  <2>3. PICK a, b, n : a = e[k] /\ b = e[k - 1] /\ n = Len(s[k].data)
    OBVIOUS
  <2>. QED
    BY <2>1, <2>2, <2>3
<1>5. DOMAIN s = 1 .. Len(s)
  BY DEF Layout
<1>6. FoundIn(s, e, 0, <<>>, x)
  <2>1. DOMAIN <<>> = {}
    OBVIOUS
  <2>2. PICK D : D = DOMAIN <<>>
    OBVIOUS
  <2>3. PICK f : f = [i \in D |-> 0]
    OBVIOUS
  <2>4. D = {}
    BY <2>1, <2>2
  <2>5. f \in [D -> Good(s)]
    BY <2>3, <2>4
  <2>6. \A k \in Good(s) : ~(e[k] <= 0)
    BY <1>4, <1>5 DEF Good
  <2>. QED
    BY <2>2, <2>4, <2>5, <2>6 DEF FoundIn
<1>7. StepIn(s, e, line, 0, d)
  BY <1>4 DEF StepIn, Calm, FrameStates
<1>. QED
  BY <1>2, <1>3, <1>6, <1>7 DEF WholeAt

LEMMA InitInput == Init => InputInv
<1>. SUFFICES ASSUME Init PROVE InputInv
  OBVIOUS
<1>1. stream \in Streams /\ dec.at = "START" /\ handled = <<>> /\ rx = LineOf(stream)
  BY DEF Init, LineOf, PiecesOf
<1>2. Layout(stream, EndsOf(stream), LineOf(stream))
  BY <1>1, LayoutHolds
<1>3. PICK x \in BOOLEAN : x <=> Harmless
  OBVIOUS
<1>4. x => HarmlessIn(stream)
  BY <1>1, <1>3, HarmlessIs
<1>5. Given(stream, EndsOf(stream), LineOf(stream), x)
  BY <1>1, <1>2, <1>4 DEF Given
<1>6. WholeAt(stream, EndsOf(stream), LineOf(stream), 0, rx, dec, handled, x)
  <2>1. WholeAt(stream, EndsOf(stream), LineOf(stream), 0, LineOf(stream), dec, <<>>, x)
    BY <1>1, <1>2, NothingRead
  <2>. QED
    BY <1>1, <2>1
<1>7. Sequence(handled)
  BY <1>1, Short
<1>8. Placed(stream, rx, dec, handled, x)
  BY <1>5, <1>6, <1>7 DEF Placed
<1>. QED
  BY <1>3, <1>8 DEF InputInv

LEMMA DecodingMeasures == ASSUME Decoding PROVE Measured(dec) /\ IsDec(dec)
  BY DEF Decoding, Measured

\* A byte of the frame.
LEMMA PlacedByte ==
  ASSUME NEW x, Placed(stream, rx, dec, handled, x), Decoding,
         DecoderStart \/ WaitForHead \/ WaitForLengthL \/ WaitForLengthH
  PROVE  Placed(stream, rx, dec, handled, x)'
<1>1. PICK s, e, line, pos, h :
         /\ s = stream /\ e = EndsOf(stream) /\ line = LineOf(stream) /\ h = handled
         /\ WholeAt(s, e, line, pos, rx, dec, h, x)
  BY DEF Placed
<1>2. Given(s, e, line, x) /\ Sequence(h)
  BY <1>1 DEF Placed
<1>3. Measured(dec) /\ IsDec(dec)
  BY DecodingMeasures
<1>4. stream' = stream /\ handled' = handled
  BY DEF DecoderStart, WaitForHead, WaitForLengthL, WaitForLengthH, Reads, histVars
<1>5. ASSUME NEW q, WholeAt(s, e, line, q, rx', dec', h, x) PROVE Placed(stream, rx, dec, handled, x)'
  BY <1>1, <1>2, <1>4, <1>5 DEF Placed
<1>6. CASE DecoderStart
  <2>1. dec.at = "START" /\ dec'.at = "WAIT_FOR_HEAD" /\ rx' = rx
    BY <1>3, <1>6 DEF DecoderStart, IsDec
  <2>2. WholeAt(s, e, line, pos, rx, dec', h, x)
    BY <1>1, <2>1, StartWhole
  <2>. QED
    BY <1>5, <2>1, <2>2
<1>7. CASE WaitForHead
  <2>1. /\ dec.at = "WAIT_FOR_HEAD" /\ rx # <<>> /\ rx' = Tail(rx) /\ dec'.hwCheckSUM = dec.hwCheckSUM
        /\ dec'.at = IF IsHead(Head(rx)) THEN "WAIT_FOR_LENGTH_L" ELSE "WAIT_FOR_HEAD"
    BY <1>3, <1>7 DEF WaitForHead, Reads, IsDec
  <2>2. WholeAt(s, e, line, pos + 1, Tail(rx), dec', h, x)
    BY <1>1, <1>2, <1>3, <2>1, HeadWhole
  <2>. QED
    BY <1>5, <2>1, <2>2
<1>8. CASE WaitForLengthL
  <2>1. /\ dec.at = "WAIT_FOR_LENGTH_L" /\ rx # <<>> /\ rx' = Tail(rx)
        /\ dec'.hwCheckSUM = Append(dec.hwCheckSUM, Head(rx)) /\ dec'.at = "WAIT_FOR_LENGTH_H"
        /\ dec'.hwLength = Value(Head(rx))
    BY <1>3, <1>8 DEF WaitForLengthL, Reads, IsDec
  <2>2. WholeAt(s, e, line, pos + 1, Tail(rx), dec', h, x)
    BY <1>1, <1>2, <1>3, <2>1, LengthLWhole
  <2>. QED
    BY <1>5, <2>1, <2>2
<1>9. CASE WaitForLengthH
  <2>1. /\ dec.at = "WAIT_FOR_LENGTH_H" /\ rx # <<>> /\ rx' = Tail(rx)
        /\ dec'.hwCheckSUM = Append(dec.hwCheckSUM, Head(rx))
        /\ dec'.at \in {"WAIT_FOR_CHECK_SUM_L", "WAIT_FOR_DATA"}
        /\ dec'.hwLength = dec.hwLength + BASE * Value(Head(rx))
    BY <1>3, <1>9 DEF WaitForLengthH, Reads, IsDec
  <2>2. WholeAt(s, e, line, pos + 1, Tail(rx), dec', h, x)
    BY <1>1, <1>2, <1>3, <2>1, LengthHWhole
  <2>. QED
    BY <1>5, <2>1, <2>2
<1>. QED
  BY <1>6, <1>7, <1>8, <1>9

\* Some of the data.
LEMMA PlacedData ==
  ASSUME NEW x, Placed(stream, rx, dec, handled, x), Decoding, WaitForData
  PROVE  Placed(stream, rx, dec, handled, x)'
<1>1. PICK s, e, line, pos, h :
         /\ s = stream /\ e = EndsOf(stream) /\ line = LineOf(stream) /\ h = handled
         /\ WholeAt(s, e, line, pos, rx, dec, h, x)
  BY DEF Placed
<1>2. Given(s, e, line, x) /\ Sequence(h)
  BY <1>1 DEF Placed
<1>3. Measured(dec) /\ IsDec(dec) /\ dec.at = "WAIT_FOR_DATA"
  BY DecodingMeasures DEF WaitForData
<1>4. stream' = stream /\ handled' = handled
  BY DEF WaitForData, histVars
<1>. DEFINE c == dec.hwCounter
            l == dec.hwLength
<1>5. PICK n \in 1 .. Min({Len(rx), l - c}) :
        /\ rx' = SubSeq(rx, n + 1, Len(rx))
        /\ dec' = [dec EXCEPT
              !.buffer = [i \in 1 .. NSIZE |-> IF i \in c + 1 .. c + n THEN SubSeq(rx, 1, n)[i - c] ELSE @[i]],
              !.hwCheckSUM = @ \o SubSeq(rx, 1, n),
              !.hwCounter = c + n,
              !.at = IF c + n >= l THEN "WAIT_FOR_CHECK_SUM_L" ELSE @]
  BY DEF WaitForData
<1>6. n \in 1 .. Len(rx) /\ n <= l - c
  <2>1. PICK a, b : a = Len(rx) /\ b = l - c
    OBVIOUS
  <2>2. a \in Nat
    BY <2>1 DEF Decoding, Bytes, Sequence
  <2>3. b \in Nat
    BY <1>3, <2>1 DEF Measured
  <2>4. Min({a, b}) = IF a <= b THEN a ELSE b
    BY <2>2, <2>3 DEF Min
  <2>5. n \in 1 .. (IF a <= b THEN a ELSE b)
    BY <1>5, <2>1, <2>4
  <2>6. n \in 1 .. a /\ n <= b
    BY <2>2, <2>3, <2>5
  <2>. QED
    BY <2>1, <2>6
<1>7. /\ dec'.hwCheckSUM = dec.hwCheckSUM \o SubSeq(rx, 1, n) /\ dec'.hwLength = dec.hwLength
      /\ dec'.at \in {"WAIT_FOR_CHECK_SUM_L", "WAIT_FOR_DATA"}
  BY <1>3, <1>5 DEF IsDec
<1>8. WholeAt(s, e, line, pos + n, SubSeq(rx, n + 1, Len(rx)), dec', h, x)
  <2>1. Given(s, e, line, x) /\ WholeAt(s, e, line, pos, rx, dec, h, x) /\ Measured(dec)
    BY <1>1, <1>2, <1>3
  <2>2. n <= dec.hwLength - dec.hwCounter
    BY <1>6
  <2>. QED
    BY <1>3, <1>6, <1>7, <2>1, <2>2, DataWhole
<1>. QED
  BY <1>1, <1>2, <1>4, <1>5, <1>8 DEF Placed

\* A byte of the checksum.
LEMMA PlacedCheckSum ==
  ASSUME NEW x, Placed(stream, rx, dec, handled, x), Decoding, WaitForCheckSumL \/ WaitForCheckSumH
  PROVE  Placed(stream, rx, dec, handled, x)'
<1>1. PICK s, e, line, pos, h :
         /\ s = stream /\ e = EndsOf(stream) /\ line = LineOf(stream) /\ h = handled
         /\ WholeAt(s, e, line, pos, rx, dec, h, x)
  BY DEF Placed
<1>2. Given(s, e, line, x) /\ Sequence(h)
  BY <1>1 DEF Placed
<1>3. Measured(dec) /\ IsDec(dec)
  BY DecodingMeasures
<1>4. stream' = stream /\ rx # <<>> /\ rx' = Tail(rx)
  BY DEF WaitForCheckSumL, WaitForCheckSumH, Reads
<1>5. ASSUME NEW g, handled' = g, Sequence(g), NEW q, WholeAt(s, e, line, q, Tail(rx), dec', g, x)
      PROVE  Placed(stream, rx, dec, handled, x)'
  BY <1>1, <1>2, <1>4, <1>5 DEF Placed
<1>6. CASE WaitForCheckSumL
  <2>1. dec.at = "WAIT_FOR_CHECK_SUM_L" /\ handled' = h
    BY <1>1, <1>6 DEF WaitForCheckSumL, Reads, histVars
  <2>2. CASE Head(rx) = <<"L", dec.hwCheckSUM>>
    <3>1. /\ dec'.hwCheckSUM = dec.hwCheckSUM /\ dec'.at = "WAIT_FOR_CHECK_SUM_H"
          /\ dec'.hwLength = dec.hwLength
      BY <1>3, <1>6, <2>2 DEF WaitForCheckSumL, Reads, IsDec
    <3>2. WholeAt(s, e, line, pos + 1, Tail(rx), dec', h, x)
      BY <1>1, <1>2, <1>3, <1>4, <2>1, <2>2, <3>1, RightLWhole
    <3>. QED
      BY <1>2, <1>5, <2>1, <3>2
  <2>3. CASE Head(rx) # <<"L", dec.hwCheckSUM>>
    <3>1. dec'.at = "START"
      BY <1>3, <1>6, <2>3 DEF WaitForCheckSumL, Reads, IsDec
    <3>2. WholeAt(s, e, line, pos + 1, Tail(rx), dec', h, x)
      BY <1>1, <1>2, <1>3, <1>4, <2>1, <2>3, <3>1, WrongLWhole
    <3>. QED
      BY <1>2, <1>5, <2>1, <3>2
  <2>. QED
    BY <2>2, <2>3
<1>7. CASE WaitForCheckSumH /\ Mismatch
  <2>1. /\ dec.at = "WAIT_FOR_CHECK_SUM_H" /\ handled' = h /\ Head(rx) # <<"H", dec.hwCheckSUM>>
        /\ dec'.at = "START"
    BY <1>1, <1>3, <1>7 DEF WaitForCheckSumH, Mismatch, histVars, IsDec
  <2>2. WholeAt(s, e, line, pos + 1, Tail(rx), dec', h, x)
    BY <1>1, <1>2, <1>3, <1>4, <2>1, WrongHWhole
  <2>. QED
    BY <1>2, <1>5, <2>1, <2>2
<1>8. CASE WaitForCheckSumH /\ Parse
  <2>1. PICK data : data = SubSeq(dec.hwCheckSUM, 3, Len(dec.hwCheckSUM))
    OBVIOUS
  <2>2. dec.at = "WAIT_FOR_CHECK_SUM_H" /\ Head(rx) = <<"H", dec.hwCheckSUM>>
    BY <1>8 DEF WaitForCheckSumH, Parse
  <2>3. handled' = Append(h, data) /\ dec'.at = "START"
    BY <1>1, <1>3, <1>8, <2>1 DEF Parse, IsDec
  <2>4. WholeAt(s, e, line, pos + 1, Tail(rx), dec', Append(h, data), x)
    BY <1>1, <1>2, <1>3, <1>4, <2>1, <2>2, <2>3, ParsedWhole
  <2>5. Sequence(Append(h, data))
    BY <1>2, Appended
  <2>. QED
    BY <1>5, <2>3, <2>4, <2>5
<1>9. WaitForCheckSumH => Mismatch \/ Parse
  BY DEF WaitForCheckSumH
<1>. QED
  BY <1>6, <1>7, <1>8, <1>9

LEMMA NextInput == AnswersInv /\ InputInv /\ [Next]_vars => InputInv'
<1>. SUFFICES ASSUME AnswersInv, InputInv, [Next]_vars PROVE InputInv'
  OBVIOUS
<1>1. PICK x \in BOOLEAN : (Harmless => x) /\ Placed(stream, rx, dec, handled, x)
  BY DEF InputInv
<1>2. Decoding
  BY DEF AnswersInv
<1>3. stream' = stream /\ Placed(stream, rx, dec, handled, x)'
  <2>1. CASE DecoderStart \/ WaitForHead \/ WaitForLengthL \/ WaitForLengthH
    <3>1. stream' = stream
      BY <2>1 DEF DecoderStart, WaitForHead, WaitForLengthL, WaitForLengthH, Reads
    <3>. QED
      BY <1>1, <1>2, <2>1, <3>1, PlacedByte
  <2>2. CASE WaitForData
    <3>1. stream' = stream
      BY <2>2 DEF WaitForData
    <3>. QED
      BY <1>1, <1>2, <2>2, <3>1, PlacedData
  <2>3. CASE WaitForCheckSumL \/ WaitForCheckSumH
    <3>1. stream' = stream
      BY <2>3 DEF WaitForCheckSumL, WaitForCheckSumH, Reads
    <3>. QED
      BY <1>1, <1>2, <2>3, <3>1, PlacedCheckSum
  <2>4. CASE TaskStart \/ TaskLock \/ TaskReply \/ TaskReplied \/ Encoder
    <3>1. UNCHANGED <<stream, rx, dec, handled>>
      BY <2>4 DEF TaskStart, TaskLock, TaskReply, TaskReplied, Encoder, UserStart, UserLock, UserEncode,
                  UserSent, decVars, histVars
    <3>. QED
      BY <1>1, <3>1, PlacedSame
  <2>5. CASE UNCHANGED vars
    <3>1. UNCHANGED <<stream, rx, dec, handled>>
      BY <2>5 DEF vars, decVars, histVars
    <3>. QED
      BY <1>1, <3>1, PlacedSame
  <2>. QED
    BY <2>1, <2>2, <2>3, <2>4, <2>5 DEF Next, Task, Decoder
<1>4. Harmless' <=> Harmless
  BY <1>3 DEF Harmless
<1>. QED
  BY <1>1, <1>3, <1>4 DEF InputInv

LEMMA InputIsParsed == InputInv => ParsedIsSent
<1>. SUFFICES ASSUME InputInv PROVE ParsedIsSent
  OBVIOUS
<1>1. PICK x \in BOOLEAN : (Harmless => x) /\ Placed(stream, rx, dec, handled, x)
  BY DEF InputInv
<1>2. PICK s, e, line, pos, h :
         /\ s = stream /\ e = EndsOf(stream) /\ line = LineOf(stream) /\ h = handled
         /\ WholeAt(s, e, line, pos, rx, dec, h, x)
  BY <1>1 DEF Placed
<1>3. s \in Streams /\ Layout(s, e, line)
  BY <1>1, <1>2 DEF Placed, Given
<1>4. Good(s) = Intact
  BY <1>2 DEF Good, Intact
<1>5. PICK f \in [DOMAIN h -> Good(s)] :
        /\ \A i \in DOMAIN h : h[i] = s[f[i]].data /\ e[f[i]] <= pos
        /\ \A i, j \in DOMAIN h : i < j => f[i] < f[j]
        /\ x => \A k \in Good(s) : e[k] <= pos => \E i \in DOMAIN h : f[i] = k
  BY <1>2 DEF WholeAt, FoundIn
<1>6. f \in [DOMAIN handled -> Intact] /\ DOMAIN f = DOMAIN handled
  BY <1>2, <1>4, <1>5
<1>7. Ascending(f, handled, StreamData)
  <2>1. \A k \in Good(s) : StreamData[k] = s[k].data
    BY <1>2 DEF StreamData, Good
  <2>2. \A i \in DOMAIN f : handled[i] = StreamData[f[i]]
    BY <1>2, <1>5, <1>6, <2>1
  <2>3. \A i, j \in DOMAIN f : i < j => f[i] < f[j]
    BY <1>2, <1>5, <1>6
  <2>. QED
    BY <2>2, <2>3 DEF Ascending
<1>8. ASSUME Harmless, rx = <<>>, NEW k \in Intact PROVE \E i \in DOMAIN handled : f[i] = k
  <2>1. pos = Len(line)
    <3>1. pos \in Nat /\ pos + Len(rx) = Len(line)
      BY <1>2 DEF WholeAt, HasRead
    <3>2. Len(rx) = 0
      BY <1>8, Short
    <3>. QED
      BY <3>1, <3>2
  <2>2. k \in 1 .. Len(s) /\ k \in Good(s)
    BY <1>3, <1>4 DEF Good, Layout
  <2>3. Len(s) \in Nat /\ e[Len(s)] = Len(line)
    BY <1>3 DEF Layout
  <2>4. k \in 0 .. Len(s) /\ Len(s) \in 0 .. Len(s) /\ k <= Len(s)
    BY <2>2, <2>3
  <2>5. e[k] <= e[Len(s)]
    <3>1. \A i \in 1 .. Len(s) : SizeOf(s[i]) \in Nat
      BY <1>3, SizesAre
    <3>. QED
      BY <1>3, <2>4, <3>1, EndsGrow
  <2>6. e[k] <= pos
    BY <2>1, <2>3, <2>5
  <2>. QED
    BY <1>1, <1>2, <1>5, <1>8, <2>2, <2>6
<1>. QED
  BY <1>6, <1>7, <1>8 DEF ParsedIsSent

\* Whatever the line does and whatever byte is taken for a head, what is parsed
\* are undamaged frames, each once and in order; and all of them, unless the
\* line adds a head, damages a length, or damages a frame whose checksum ends
\* with the value of a head.
THEOREM Parsed == Spec => []ParsedIsSent
<1>1. Init => AnswersInv /\ InputInv
  BY InitAnswers, InitInput
<1>2. AnswersInv /\ InputInv /\ [Next]_vars => (AnswersInv /\ InputInv)'
  BY NextAnswers, NextInput
<1>3. AnswersInv /\ InputInv => ParsedIsSent
  BY InputIsParsed
<1>. QED
  BY <1>1, <1>2, <1>3, PTL DEF Spec
=============================================================================
