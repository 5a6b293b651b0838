----------------------------- MODULE SequenceLemmas -----------------------------
(***************************************************************************)
(* Lemmas about sequences and about FlattenSeq, which joins the texts of a *)
(* sequence of texts.  No module of the project depends on them but those  *)
(* with proofs.                                                            *)
(***************************************************************************)
EXTENDS Naturals, SequencesExt, SequenceTheorems, WellFoundedInduction, TLAPS

-----------------------------------------------------------------------------
(* Least and greatest elements                                              *)

Less == {p \in Nat \X Nat : p[1] < p[2]}

\* For inductions over a position: the least one at which something fails.
LEMMA LeastElement ==
  ASSUME NEW T \in SUBSET Nat, T # {}
  PROVE  \E x \in T : \A y \in T : x <= y
  <1>1. IsWellFoundedOn(Less, Nat)
    BY NatLessThanWellFounded DEF OpToRel, Less
  <1>2. PICK x \in T : \A y \in T : <<y, x>> \notin Less
    BY <1>1, WFMin
  <1>3. ASSUME NEW y \in T
        PROVE  x <= y
    <2>1. x \in Nat /\ y \in Nat /\ <<y, x>> \notin Less
      BY <1>2
    <2> QED
      BY <2>1 DEF Less
  <1> QED
    BY <1>3

LEMMA GreatestElement ==
  ASSUME NEW n \in Nat, NEW T \in SUBSET (0 .. n), T # {}
  PROVE  \E x \in T : \A y \in T : y <= x
  <1> DEFINE U == {k \in 0 .. n : n - k \in T}
  <1>1. PICK z \in T : TRUE
    OBVIOUS
  <1>2. n - z \in U /\ U \in SUBSET Nat
    OBVIOUS
  <1>3. \E u \in U : \A y \in U : u <= y
    BY <1>2, LeastElement
  <1>4. PICK u \in U : \A y \in U : u <= y
    BY <1>3
  <1>5. \A y \in T : n - y \in U /\ y \in Int
    OBVIOUS
  <1> QED
    BY <1>4, <1>5

-----------------------------------------------------------------------------
(* Taking apart and joining                                                 *)

\* What joining two sequences makes.
LEMMA JoinedIs ==
  ASSUME NEW S, NEW q \in Seq(S), NEW r \in Seq(S), NEW c \in Seq(S),
         Len(c) = Len(q) + Len(r),
         \A i \in 1 .. Len(q) : c[i] = q[i],
         \A i \in 1 .. Len(r) : c[Len(q) + i] = r[i]
  PROVE  q \o r = c
  <1>1. \A i \in 1 .. Len(c) :
          i \in 1 .. Len(q) \/ (i - Len(q) \in 1 .. Len(r) /\ Len(q) + (i - Len(q)) = i)
    OBVIOUS
  <1> QED
    BY <1>1

LEMMA TwoJoined ==
  ASSUME NEW S, NEW a \in S, NEW b \in S
  PROVE  <<a, b>> = <<a>> \o <<b>>
  <1> DEFINE p == <<a>>
             q == <<b>>
             c == <<a, b>>
  <1>1. /\ p \in Seq(S) /\ Len(p) = 1 /\ p[1] = a
        /\ q \in Seq(S) /\ Len(q) = 1 /\ q[1] = b
        /\ c \in Seq(S) /\ Len(c) = 2 /\ c[1] = a /\ c[2] = b
    OBVIOUS
  <1> HIDE DEF p, q, c
  <1>2. p \o q = c
    <2>1. /\ Len(c) = Len(p) + Len(q)
          /\ \A i \in 1 .. Len(p) : c[i] = p[i]
          /\ \A i \in 1 .. Len(q) : c[Len(p) + i] = q[i]
      BY <1>1
    <2> QED
      BY <1>1, <2>1, JoinedIs
  <1> QED
    BY <1>2 DEF p, q, c

\* A queue, cut before and behind one of its frames.
LEMMA CutAround ==
  ASSUME NEW S, NEW q \in Seq(S), NEW i \in DOMAIN q
  PROVE  /\ q = SubSeq(q, 1, i) \o SubSeq(q, i + 1, Len(q))
         /\ SubSeq(q, 1, i) = SubSeq(q, 1, i - 1) \o <<q[i]>>
  <1>1. i \in 1 .. Len(q) /\ Len(q) \in Nat
    OBVIOUS
  <1>2. q = SubSeq(q, 1, i) \o SubSeq(q, i + 1, Len(q))
    <2> DEFINE a == SubSeq(q, 1, i)
               b == SubSeq(q, i + 1, Len(q))
    <2>1. /\ a \in Seq(S) /\ Len(a) = i /\ \A k \in 1 .. i : a[k] = q[k]
          /\ b \in Seq(S) /\ Len(b) = Len(q) - i
          /\ \A k \in 1 .. Len(q) - i : b[k] = q[i + k]
      BY <1>1
    <2> HIDE DEF a, b
    <2>2. a \o b = q
      BY <1>1, <2>1, JoinedIs
    <2> QED
      BY <2>2 DEF a, b
  <1>3. SubSeq(q, 1, i) = SubSeq(q, 1, i - 1) \o <<q[i]>>
    <2> DEFINE a == SubSeq(q, 1, i - 1)
               b == <<q[i]>>
               c == SubSeq(q, 1, i)
    <2>1. /\ a \in Seq(S) /\ Len(a) = i - 1 /\ \A k \in 1 .. i - 1 : a[k] = q[k]
          /\ b \in Seq(S) /\ Len(b) = 1 /\ b[1] = q[i]
          /\ c \in Seq(S) /\ Len(c) = i /\ \A k \in 1 .. i : c[k] = q[k]
      BY <1>1
    <2> HIDE DEF a, b, c
    <2>2. \A k \in 1 .. Len(a) : c[k] = a[k]
      BY <1>1, <2>1, SMTT(60)
    <2>3. \A k \in 1 .. Len(b) : c[Len(a) + k] = b[k]
      BY <1>1, <2>1
    <2>4. Len(c) = Len(a) + Len(b)
      BY <1>1, <2>1
    <2>5. a \o b = c
      BY <2>1, <2>2, <2>3, <2>4, JoinedIs
    <2> QED
      BY <2>5 DEF a, b, c
  <1> QED
    BY <1>2, <1>3

-----------------------------------------------------------------------------
(* Concatenating texts                                                      *)

\* f[i] is the concatenation of s[1] .. s[i], for i up to n.
Concats(s, n, f) ==
  f = [i \in 1 .. n |-> IF i = 1 THEN s[i] ELSE f[i - 1] \o s[i]]

\* The same, one step at a time.
StepByStep(s, n, f, S) ==
  /\ n >= 1 => f[1] = s[1]
  /\ \A i \in 1 .. n - 1 : f[i + 1] = f[i] \o s[i + 1]
  /\ \A i \in 1 .. n : f[i] \in Seq(S)

LEMMA ConcatsSteps ==
  ASSUME NEW S, NEW s \in Seq(Seq(S)), NEW n \in 0 .. Len(s), NEW f, Concats(s, n, f)
  PROVE  StepByStep(s, n, f, S)
  <1> n \in Nat /\ Len(s) \in Nat
    OBVIOUS
  <1>1. \A i \in 1 .. n : f[i] = IF i = 1 THEN s[i] ELSE f[i - 1] \o s[i]
    BY Zenon DEF Concats
  <1>2. \A i \in 1 .. n : s[i] \in Seq(S)
    OBVIOUS
  <1>3. n >= 1 => f[1] = s[1]
    BY <1>1
  <1>4. ASSUME NEW i \in 1 .. n - 1
        PROVE  f[i + 1] = f[i] \o s[i + 1]
    <2>1. i + 1 \in 1 .. n /\ i + 1 # 1 /\ (i + 1) - 1 = i
      OBVIOUS
    <2> QED
      BY <1>1, <2>1
  <1>5. \A i \in 1 .. n : f[i] \in Seq(S)
    <2> SUFFICES ASSUME NEW j \in 1 .. n, f[j] \notin Seq(S)
                 PROVE  FALSE
      OBVIOUS
    <2> DEFINE T == {i \in 1 .. n : f[i] \notin Seq(S)}
    <2>1. PICK x \in T : \A y \in T : x <= y
      <3>1. T \subseteq Nat /\ j \in T
        OBVIOUS
      <3> HIDE DEF T
      <3> QED
        BY <3>1, LeastElement
    <2>2. x \in 1 .. n /\ f[x] \notin Seq(S)
      BY <2>1
    <2>3. x # 1
      BY <1>2, <1>3, <2>2
    <2>4. x - 1 \in 1 .. n - 1 /\ x - 1 \in 1 .. n /\ (x - 1) + 1 = x
      BY <2>2, <2>3
    <2>5. f[x - 1] \in Seq(S)
      BY <2>1, <2>4
    <2>6. f[x] = f[x - 1] \o s[x]
      BY <1>4, <2>4
    <2>7. s[x] \in Seq(S)
      BY <1>2, <2>2
    <2> HIDE DEF T
    <2>8. f[x - 1] \o s[x] \in Seq(S)
      BY <2>5, <2>7, ConcatProperties
    <2> QED
      BY <2>2, <2>6, <2>8
  <1> QED
    BY <1>3, <1>4, <1>5 DEF StepByStep

LEMMA ConcatsExist ==
  ASSUME NEW S, NEW s \in Seq(Seq(S)), NEW n \in 0 .. Len(s)
  PROVE  \E f : Concats(s, n, f)
  <1> Len(s) \in Nat
    OBVIOUS
  <1> SUFFICES ASSUME ~ \E f : Concats(s, n, f)
               PROVE  FALSE
    OBVIOUS
  <1> DEFINE T == {i \in 0 .. Len(s) : ~ \E f : Concats(s, i, f)}
  <1>1. PICK x \in T : \A y \in T : x <= y
    <2>1. T \subseteq Nat /\ n \in T
      OBVIOUS
    <2> HIDE DEF T
    <2> QED
      BY <2>1, LeastElement
  <1>2. x \in 0 .. Len(s) /\ ~ \E f : Concats(s, x, f)
    BY <1>1
  <1>3. x # 0
    <2> DEFINE e == [i \in {} |-> <<>>]
    <2>1. 1 .. 0 = {}
      OBVIOUS
    <2>2. e = [i \in {} |-> IF i = 1 THEN s[i] ELSE e[i - 1] \o s[i]]
      OBVIOUS
    <2>3. Concats(s, 0, e)
      BY <2>1, <2>2 DEF Concats
    <2> QED
      BY <1>2, <2>3
  <1>4. x - 1 \in 0 .. Len(s) /\ ~(x <= x - 1) /\ x \in Nat /\ x >= 1
    BY <1>2, <1>3
  <1>5. PICK f : Concats(s, x - 1, f)
    <2>1. x - 1 \notin T
      BY <1>1, <1>4
    <2> QED
      BY <1>4, <2>1
  <1> HIDE DEF T
  <1> DEFINE g == [i \in 1 .. x |-> IF i < x THEN f[i]
                                    ELSE IF i = 1 THEN s[i] ELSE f[i - 1] \o s[i]]
  <1>6. ASSUME NEW i \in 1 .. x
        PROVE  g[i] = IF i = 1 THEN s[i] ELSE g[i - 1] \o s[i]
    <2>1. i < x => f[i] = IF i = 1 THEN s[i] ELSE f[i - 1] \o s[i]
      <3>1. i < x => i \in 1 .. x - 1
        BY <1>4
      <3>2. \A j \in 1 .. x - 1 : f[j] = IF j = 1 THEN s[j] ELSE f[j - 1] \o s[j]
        BY <1>5, Zenon DEF Concats
      <3> QED
        BY <3>1, <3>2
    <2>2. i # 1 => i - 1 \in 1 .. x /\ i - 1 < x
      BY <1>4
    <2>3. i # 1 => g[i - 1] = f[i - 1]
      BY <2>2
    <2>4. CASE i < x
      BY <2>1, <2>3, <2>4
    <2>5. CASE i = x
      <3>1. ~(i < x)
        BY <1>4, <2>5
      <3>2. g[i] = IF i = 1 THEN s[i] ELSE f[i - 1] \o s[i]
        BY <3>1
      <3> QED
        BY <2>3, <3>2
    <2> QED
      BY <1>4, <2>4, <2>5
  <1>7. Concats(s, x, g)
    <2>1. DOMAIN g = 1 .. x /\ g = [i \in 1 .. x |-> g[i]]
      OBVIOUS
    <2> HIDE DEF g
    <2> QED
      BY <1>6, <2>1 DEF Concats
  <1> QED
    BY <1>2, <1>7

Agree(n, f, g) == \A i \in 1 .. n : f[i] = g[i]

\* Where two sequences agree, so do their concatenations.
LEMMA ConcatsAgree ==
  ASSUME NEW S, NEW s \in Seq(Seq(S)), NEW r \in Seq(Seq(S)),
         NEW n \in 0 .. Len(s), NEW m \in 0 .. Len(r), n <= m,
         \A i \in 1 .. n : s[i] = r[i],
         NEW f, Concats(s, n, f), NEW g, Concats(r, m, g)
  PROVE  Agree(n, f, g)
  <1> SUFFICES \A i \in 1 .. n : f[i] = g[i]
    BY DEF Agree
  <1> n \in Nat /\ m \in Nat /\ Len(s) \in Nat /\ Len(r) \in Nat
    OBVIOUS
  <1>3. /\ n >= 1 => f[1] = s[1]
        /\ \A i \in 1 .. n - 1 : f[i + 1] = f[i] \o s[i + 1]
    <2>1. StepByStep(s, n, f, S)
      BY ConcatsSteps
    <2> QED
      BY <2>1 DEF StepByStep
  <1>4. /\ m >= 1 => g[1] = r[1]
        /\ \A i \in 1 .. m - 1 : g[i + 1] = g[i] \o r[i + 1]
    <2>1. StepByStep(r, m, g, S)
      BY ConcatsSteps
    <2> QED
      BY <2>1 DEF StepByStep
  <1> SUFFICES ASSUME NEW k \in 1 .. n, f[k] # g[k]
               PROVE  FALSE
    OBVIOUS
  <1> DEFINE T == {i \in 1 .. n : f[i] # g[i]}
  <1>1. PICK x \in T : \A y \in T : x <= y
    <2>1. T \subseteq Nat /\ k \in T
      OBVIOUS
    <2> HIDE DEF T
    <2> QED
      BY <2>1, LeastElement
  <1>2. x \in 1 .. n /\ f[x] # g[x]
    BY <1>1
  <1>5. x # 1
    BY <1>2, <1>3, <1>4
  <1>6. x - 1 \in 1 .. n - 1 /\ x - 1 \in 1 .. m - 1 /\ x - 1 \in 1 .. n
        /\ (x - 1) + 1 = x /\ ~(x <= x - 1)
    BY <1>2, <1>5
  <1>7. f[x - 1] = g[x - 1]
    BY <1>1, <1>6
  <1> HIDE DEF T
  <1>8. f[x] = f[x - 1] \o s[x] /\ g[x] = g[x - 1] \o r[x]
    BY <1>3, <1>4, <1>6
  <1> QED
    BY <1>2, <1>7, <1>8

\* FlattenSeq returns the last of any such concatenations.
LEMMA FlattenIs ==
  ASSUME NEW S, NEW s \in Seq(Seq(S)), NEW f, Concats(s, Len(s), f)
  PROVE  FlattenSeq(s) = IF Len(s) = 0 THEN <<>> ELSE f[Len(s)]
  <1> DEFINE F == CHOOSE g : Concats(s, Len(s), g)
  <1>1. Len(s) \in Nat /\ Len(s) \in 0 .. Len(s)
    OBVIOUS
  <1>2. Len(s) = 0 => FlattenSeq(s) = <<>>
    BY DEF FlattenSeq
  <1>3. Len(s) # 0 => FlattenSeq(s) = F[Len(s)]
    BY Zenon DEF FlattenSeq, Concats
  <1>4. Concats(s, Len(s), F)
    BY Zenon
  <1> HIDE DEF F
  <1>5. \A i \in 1 .. Len(s) : F[i] = f[i]
    <2> DEFINE n == Len(s)
    <2>1. /\ n \in 0 .. Len(s) /\ n <= n /\ \A i \in 1 .. n : s[i] = s[i]
          /\ Concats(s, n, F) /\ Concats(s, n, f)
      BY <1>1, <1>4
    <2> HIDE DEF n
    <2>2. Agree(n, F, f)
      BY <2>1, ConcatsAgree
    <2> QED
      BY <2>2 DEF Agree, n
  <1>6. Len(s) # 0 => Len(s) \in 1 .. Len(s)
    BY <1>1
  <1> QED
    BY <1>2, <1>3, <1>5, <1>6

LEMMA FlattenType ==
  ASSUME NEW S, NEW s \in Seq(Seq(S))
  PROVE  FlattenSeq(s) \in Seq(S)
  <1>1. Len(s) \in Nat /\ Len(s) \in 0 .. Len(s)
    OBVIOUS
  <1>2. PICK f : Concats(s, Len(s), f)
    BY <1>1, ConcatsExist
  <1>3. StepByStep(s, Len(s), f, S)
    BY <1>1, <1>2, ConcatsSteps
  <1>4. Len(s) # 0 => f[Len(s)] \in Seq(S)
    BY <1>1, <1>3 DEF StepByStep
  <1>5. FlattenSeq(s) = IF Len(s) = 0 THEN <<>> ELSE f[Len(s)]
    BY <1>2, FlattenIs
  <1> QED
    BY <1>4, <1>5

\* Two sequences of texts, one behind the other.
LEMMA FlattenConcat ==
  ASSUME NEW S, NEW a \in Seq(Seq(S)), NEW b \in Seq(Seq(S))
  PROVE  FlattenSeq(a \o b) = FlattenSeq(a) \o FlattenSeq(b)
  <1> DEFINE c == a \o b
             n == Len(a)
  <1>1. /\ Len(a) \in Nat /\ n = Len(a) /\ n \in 0 .. Len(a)
        /\ Len(b) \in Nat /\ Len(b) \in 0 .. Len(b)
    OBVIOUS
  <1>2. /\ c \in Seq(Seq(S)) /\ c = a \o b
        /\ Len(c) = n + Len(b) /\ Len(c) \in 0 .. Len(c)
        /\ \A i \in 1 .. n : a[i] = c[i]
        /\ \A i \in 1 .. Len(b) : c[n + i] = b[i]
    OBVIOUS
  <1> HIDE DEF c, n
  <1>3. CASE Len(a) = 0
    <2>1. a = <<>> /\ a \o b = b
      BY <1>3
    <2>2. FlattenSeq(a) = <<>>
      BY <2>1 DEF FlattenSeq
    <2>3. FlattenSeq(b) \in Seq(S)
      BY FlattenType
    <2>4. <<>> \o FlattenSeq(b) = FlattenSeq(b)
      BY <2>3
    <2> QED
      BY <2>1, <2>2, <2>4
  <1>4. CASE Len(b) = 0
    <2>1. b = <<>> /\ a \o b = a
      BY <1>4
    <2>2. FlattenSeq(b) = <<>>
      BY <2>1 DEF FlattenSeq
    <2>3. FlattenSeq(a) \in Seq(S)
      BY FlattenType
    <2>4. FlattenSeq(a) \o <<>> = FlattenSeq(a)
      BY <2>3
    <2> QED
      BY <2>1, <2>2, <2>4
  <1>5. CASE Len(a) # 0 /\ Len(b) # 0
    <2>1. PICK f : Concats(a, Len(a), f)
      BY <1>1, ConcatsExist
    <2>2. PICK g : Concats(b, Len(b), g)
      BY <1>1, ConcatsExist
    <2>3. PICK h : Concats(c, Len(c), h)
      BY <1>2, ConcatsExist
    <2>4. Agree(Len(a), f, h)
      <3>1. Len(a) \in 0 .. Len(a) /\ Len(a) <= Len(c) /\ \A i \in 1 .. Len(a) : a[i] = c[i]
        BY <1>1, <1>2
      <3> QED
        BY <1>2, <2>1, <2>3, <3>1, ConcatsAgree
    <2>5. StepByStep(a, Len(a), f, S) /\ StepByStep(b, Len(b), g, S)
          /\ StepByStep(c, Len(c), h, S)
      BY <1>1, <1>2, <2>1, <2>2, <2>3, ConcatsSteps
    <2>6. f[n] \in Seq(S) /\ h[n] = f[n]
      <3>1. n \in 1 .. Len(a)
        BY <1>1, <1>5
      <3> QED
        BY <1>1, <2>4, <2>5, <3>1 DEF Agree, StepByStep
    <2>7. \A i \in 1 .. Len(b) : g[i] \in Seq(S) /\ b[i] \in Seq(S)
      BY <1>1, <2>5 DEF StepByStep
    <2>8. \A i \in 1 .. Len(b) - 1 : g[i + 1] = g[i] \o b[i + 1]
      BY <2>5 DEF StepByStep
    <2>9. g[1] = b[1]
      BY <1>1, <1>5, <2>5 DEF StepByStep
    <2>10. \A i \in 1 .. Len(b) : h[n + i] = h[n + i - 1] \o b[i]
      <3> SUFFICES ASSUME NEW i \in 1 .. Len(b)
                   PROVE  h[n + i] = h[n + i - 1] \o b[i]
        OBVIOUS
      <3>1. n + i - 1 \in 1 .. Len(c) - 1 /\ (n + i - 1) + 1 = n + i
        BY <1>1, <1>2, <1>5
      <3>2. h[(n + i - 1) + 1] = h[n + i - 1] \o c[(n + i - 1) + 1]
        BY <2>5, <3>1 DEF StepByStep
      <3>3. c[n + i] = b[i]
        BY <1>2
      <3> QED
        BY <3>1, <3>2, <3>3
    <2>11. \A i \in 1 .. Len(b) : h[n + i] = f[n] \o g[i]
      <3> SUFFICES ASSUME NEW k \in 1 .. Len(b), h[n + k] # f[n] \o g[k]
                   PROVE  FALSE
        OBVIOUS
      <3> DEFINE T == {i \in 1 .. Len(b) : h[n + i] # f[n] \o g[i]}
      <3>1. PICK x \in T : \A y \in T : x <= y
        <4>1. T \subseteq 1 .. Len(b) /\ k \in T
          OBVIOUS
        <4> HIDE DEF T
        <4>2. T \subseteq Nat
          BY <1>1, <4>1
        <4> QED
          BY <4>1, <4>2, LeastElement
      <3>2. x \in 1 .. Len(b) /\ h[n + x] # f[n] \o g[x]
        BY <3>1
      <3>3. h[n + x] = h[n + x - 1] \o b[x]
        BY <2>10, <3>2
      <3>4. x # 1
        <4>1. x = 1 => n + x - 1 = n
          BY <1>1
        <4> QED
          BY <2>6, <2>9, <3>2, <3>3, <4>1
      <3>5. /\ x - 1 \in 1 .. Len(b) /\ x - 1 \in 1 .. Len(b) - 1
            /\ (x - 1) + 1 = x /\ ~(x <= x - 1) /\ n + x - 1 = n + (x - 1)
        BY <1>1, <3>2, <3>4
      <3>6. h[n + (x - 1)] = f[n] \o g[x - 1]
        BY <3>1, <3>5
      <3> HIDE DEF T
      <3>7. g[x] = g[x - 1] \o b[x]
        BY <2>8, <3>5
      <3>8. (f[n] \o g[x - 1]) \o b[x] = f[n] \o (g[x - 1] \o b[x])
        <4> DEFINE p == f[n]
                   q == g[x - 1]
                   r == b[x]
        <4>1. p \in Seq(S) /\ q \in Seq(S) /\ r \in Seq(S)
          BY <2>6, <2>7, <3>2, <3>5
        <4> HIDE DEF p, q, r
        <4>2. (p \o q) \o r = p \o (q \o r)
          BY ONLY <4>1, SMTT(60)
        <4> QED
          BY <4>2 DEF p, q, r
      <3> QED
        BY <3>2, <3>3, <3>5, <3>6, <3>7, <3>8
    <2>12. FlattenSeq(a) = f[n] /\ FlattenSeq(b) = g[Len(b)]
      <3>1. FlattenSeq(a) = IF Len(a) = 0 THEN <<>> ELSE f[Len(a)]
        BY <2>1, FlattenIs
      <3>2. FlattenSeq(b) = IF Len(b) = 0 THEN <<>> ELSE g[Len(b)]
        BY <2>2, FlattenIs
      <3> QED
        BY <1>1, <1>5, <3>1, <3>2
    <2>13. FlattenSeq(c) = h[n + Len(b)]
      <3>1. FlattenSeq(c) = IF Len(c) = 0 THEN <<>> ELSE h[Len(c)]
        BY <1>2, <2>3, FlattenIs
      <3> QED
        BY <1>1, <1>2, <1>5, <3>1
    <2>14. Len(b) \in 1 .. Len(b)
      BY <1>1, <1>5
    <2> QED
      BY <1>2, <2>11, <2>12, <2>13, <2>14
  <1> QED
    BY <1>3, <1>4, <1>5

LEMMA FlattenOne ==
  ASSUME NEW S, NEW x \in Seq(S)
  PROVE  FlattenSeq(<<x>>) = x
  <1> DEFINE s == <<x>>
  <1>1. s \in Seq(Seq(S)) /\ Len(s) = 1 /\ s[1] = x /\ s = <<x>> /\ 1 \in 0 .. Len(s)
    OBVIOUS
  <1> HIDE DEF s
  <1>2. PICK f : Concats(s, Len(s), f)
    BY <1>1, ConcatsExist
  <1>3. FlattenSeq(s) = IF Len(s) = 0 THEN <<>> ELSE f[Len(s)]
    BY <1>1, <1>2, FlattenIs
  <1>4. StepByStep(s, Len(s), f, S)
    BY <1>1, <1>2, ConcatsSteps
  <1>5. f[1] = s[1]
    BY <1>1, <1>4 DEF StepByStep
  <1> QED
    BY <1>1, <1>3, <1>5

LEMMA FlattenNothing ==
  ASSUME NEW S, NEW s \in Seq(Seq(S)), \A i \in 1 .. Len(s) : s[i] = <<>>
  PROVE  FlattenSeq(s) = <<>>
  <1>1. Len(s) \in Nat /\ Len(s) \in 0 .. Len(s)
    OBVIOUS
  <1>2. PICK f : Concats(s, Len(s), f)
    BY <1>1, ConcatsExist
  <1>3. FlattenSeq(s) = IF Len(s) = 0 THEN <<>> ELSE f[Len(s)]
    BY <1>2, FlattenIs
  <1>4. StepByStep(s, Len(s), f, S)
    BY <1>1, <1>2, ConcatsSteps
  <1>5. \A i \in 1 .. Len(s) : f[i] = <<>>
    <2> SUFFICES ASSUME NEW k \in 1 .. Len(s), f[k] # <<>>
                 PROVE  FALSE
      OBVIOUS
    <2> DEFINE T == {i \in 1 .. Len(s) : f[i] # <<>>}
    <2>1. PICK x \in T : \A y \in T : x <= y
      <3>1. T \subseteq Nat /\ k \in T
        OBVIOUS
      <3> HIDE DEF T
      <3> QED
        BY <3>1, LeastElement
    <2>2. x \in 1 .. Len(s) /\ f[x] # <<>>
      BY <2>1
    <2>3. x # 1
      BY <1>1, <1>4, <2>2 DEF StepByStep
    <2>4. /\ x - 1 \in 1 .. Len(s) /\ x - 1 \in 1 .. Len(s) - 1
          /\ (x - 1) + 1 = x /\ ~(x <= x - 1)
      BY <1>1, <2>2, <2>3
    <2>5. f[x - 1] = <<>>
      BY <2>1, <2>4
    <2> HIDE DEF T
    <2>6. f[(x - 1) + 1] = f[x - 1] \o s[(x - 1) + 1]
      BY <1>4, <2>4 DEF StepByStep
    <2>7. f[x] = <<>> \o <<>>
      BY <2>2, <2>4, <2>5, <2>6
    <2> QED
      BY <2>2, <2>7
  <1> QED
    BY <1>1, <1>3, <1>5

\* The same, for a sequence of texts given element by element.
LEMMA FlattenJoined ==
  ASSUME NEW S, NEW a \in Seq(Seq(S)), NEW b \in Seq(Seq(S)), NEW c \in Seq(Seq(S)),
         Len(c) = Len(a) + Len(b),
         \A i \in 1 .. Len(a) : c[i] = a[i],
         \A i \in 1 .. Len(b) : c[Len(a) + i] = b[i]
  PROVE  FlattenSeq(c) = FlattenSeq(a) \o FlattenSeq(b)
  <1>1. a \o b = c
    BY JoinedIs
  <1>2. FlattenSeq(a \o b) = FlattenSeq(a) \o FlattenSeq(b)
    BY FlattenConcat
  <1> QED
    BY <1>1, <1>2

-----------------------------------------------------------------------------
(* Beginnings of a sequence                                                 *)

LEMMA PrefixIs ==
  ASSUME NEW S, NEW s \in Seq(S), NEW t \in Seq(S)
  PROVE  IsPrefix(s, t) <=> Len(s) <= Len(t) /\ \A i \in 1 .. Len(s) : s[i] = t[i]
  <1>1. SubSeq(s, 1, Len(s)) = s
    OBVIOUS
  <1>2. CASE Len(s) <= Len(t)
    <2> DEFINE u == SubSeq(t, 1, Len(s))
    <2>1. u \in Seq(S) /\ Len(u) = Len(s) /\ \A i \in 1 .. Len(s) : u[i] = t[i]
      BY <1>2
    <2> HIDE DEF u
    <2>2. s = u <=> \A i \in 1 .. Len(s) : s[i] = u[i]
      BY <2>1
    <2> QED
      BY <1>1, <1>2, <2>1, <2>2 DEF IsPrefix, u
  <1> QED
    BY <1>2 DEF IsPrefix

LEMMA BeginsJoined ==
  ASSUME NEW S, NEW s \in Seq(S), NEW t \in Seq(S)
  PROVE  IsPrefix(s, s \o t)
  <1> DEFINE c == s \o t
  <1>1. c \in Seq(S) /\ Len(s) <= Len(c) /\ \A i \in 1 .. Len(s) : s[i] = c[i]
    OBVIOUS
  <1> HIDE DEF c
  <1>2. IsPrefix(s, c)
    BY <1>1, PrefixIs
  <1> QED
    BY <1>2 DEF c

\* Two beginnings of the same sequence: one of them is a beginning of the other.
LEMMA BeginningsCompare ==
  ASSUME NEW S, NEW s \in Seq(S), NEW t \in Seq(S), NEW u \in Seq(S),
         IsPrefix(s, u), IsPrefix(t, u)
  PROVE  IsPrefix(s, t) \/ IsPrefix(t, s)
  <1>1. /\ Len(s) \in Nat /\ Len(t) \in Nat
        /\ \A i \in 1 .. Len(s) : s[i] = u[i]
        /\ \A i \in 1 .. Len(t) : t[i] = u[i]
    BY PrefixIs
  <1>2. CASE Len(s) <= Len(t)
    <2>1. \A i \in 1 .. Len(s) : s[i] = t[i]
      BY <1>1, <1>2
    <2> QED
      BY <1>2, <2>1, PrefixIs
  <1>3. CASE Len(t) <= Len(s)
    <2>1. \A i \in 1 .. Len(t) : t[i] = s[i]
      BY <1>1, <1>3
    <2> QED
      BY <1>3, <2>1, PrefixIs
  <1> QED
    BY <1>1, <1>2, <1>3

LEMMA BeginsTransitively ==
  ASSUME NEW S, NEW s \in Seq(S), NEW t \in Seq(S), NEW u \in Seq(S),
         IsPrefix(s, t), IsPrefix(t, u)
  PROVE  IsPrefix(s, u)
  <1>1. /\ Len(s) \in Nat /\ Len(t) \in Nat /\ Len(u) \in Nat
        /\ Len(s) <= Len(t) /\ \A i \in 1 .. Len(s) : s[i] = t[i]
        /\ Len(t) <= Len(u) /\ \A i \in 1 .. Len(t) : t[i] = u[i]
    BY PrefixIs
  <1>2. Len(s) <= Len(u) /\ \A i \in 1 .. Len(s) : s[i] = u[i]
    BY <1>1
  <1> QED
    BY <1>2, PrefixIs

LEMMA BeginsAfter ==
  ASSUME NEW S, NEW s \in Seq(S), NEW t \in Seq(S), NEW u \in Seq(S), IsPrefix(s, t)
  PROVE  IsPrefix(u \o s, u \o t)
  <1> DEFINE a == u \o s
             b == u \o t
  <1>1. /\ Len(s) \in Nat /\ Len(t) \in Nat /\ Len(u) \in Nat
        /\ Len(s) <= Len(t) /\ \A i \in 1 .. Len(s) : s[i] = t[i]
    BY PrefixIs
  <1>2. /\ a \in Seq(S) /\ Len(a) = Len(u) + Len(s)
        /\ \A i \in 1 .. Len(u) : a[i] = u[i]
        /\ \A i \in 1 .. Len(a) : i \in 1 .. Len(u)
                                 \/ (i - Len(u) \in 1 .. Len(s) /\ a[i] = s[i - Len(u)])
    BY <1>1
  <1>3. /\ b \in Seq(S) /\ Len(b) = Len(u) + Len(t)
        /\ \A i \in 1 .. Len(u) : b[i] = u[i]
        /\ \A i \in 1 .. Len(b) : i - Len(u) \in 1 .. Len(t) => b[i] = t[i - Len(u)]
    BY <1>1
  <1> HIDE DEF a, b
  <1>4. Len(a) <= Len(b) /\ Len(a) \in Nat /\ Len(b) \in Nat
    BY <1>1, <1>2, <1>3
  <1>5. \A i \in 1 .. Len(a) : a[i] = b[i]
    <2> SUFFICES ASSUME NEW i \in 1 .. Len(a)
                 PROVE  a[i] = b[i]
      OBVIOUS
    <2>1. CASE i \in 1 .. Len(u)
      BY <1>2, <1>3, <2>1
    <2>2. CASE i \notin 1 .. Len(u)
      <3>1. i - Len(u) \in 1 .. Len(s) /\ a[i] = s[i - Len(u)]
        BY <1>2, <2>2
      <3>2. i \in 1 .. Len(b) /\ i - Len(u) \in 1 .. Len(t)
        BY <1>1, <1>4, <3>1
      <3>3. b[i] = t[i - Len(u)]
        BY <1>3, <3>2
      <3> QED
        BY <1>1, <3>1, <3>3
    <2> QED
      BY <2>1, <2>2
  <1>6. IsPrefix(a, b)
    BY <1>2, <1>3, <1>4, <1>5, PrefixIs
  <1> QED
    BY <1>6 DEF a, b

===============================================================================
