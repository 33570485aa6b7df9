------------------------------ MODULE ListsProofs ------------------------------
(***************************************************************************)
(* What Retain returns, for every sequence, by induction on the length of  *)
(* the part that has been looked at; and that recursive functions exist    *)
(* which count up, or which jump ahead over a sequence.                     *)
(***************************************************************************)
EXTENDS Lists, WellFoundedInduction, TLAPS

(* A set of naturals that is not empty has a least element.                *)
LEMMA LeastNat ==
  ASSUME NEW S, S \subseteq Nat, S # {}
  PROVE  \E n \in S : \A m \in S : n <= m
  <1>1. PICK n \in S : \A m \in S : <<m, n>> \notin OpToRel(<, Nat)
    BY NatLessThanWellFounded, WFMin
  <1>2. \A m \in S : n <= m
    <2> TAKE m \in S
    <2>1. m \in Nat /\ n \in Nat
      OBVIOUS
    <2>2. ~(m < n)
      BY <1>1, <2>1 DEF OpToRel
    <2> QED BY <2>1, <2>2
  <1> QED BY <1>2

(* So what holds of 0, and of the successor of what it holds of, holds of  *)
(* every natural up to N.                                                  *)
LEMMA UpTo ==
  ASSUME NEW N \in Nat, NEW S, 0 \in S, \A n \in 0..N : n \in S /\ n < N => n + 1 \in S
  PROVE  N \in S
  <1> DEFINE bad == {n \in 0..N : n \notin S}
  <1>1. SUFFICES ASSUME bad # {} PROVE FALSE
    OBVIOUS
  <1>2. bad \subseteq Nat
    OBVIOUS
  <1>3. PICK n \in bad : \A m \in bad : n <= m
    BY <1>1, <1>2, LeastNat
  <1>4. n # 0 /\ n - 1 \in 0..N /\ n - 1 \notin bad
    BY <1>3
  <1>5. n - 1 \in S /\ (n - 1) + 1 = n /\ n - 1 < N
    BY <1>3, <1>4
  <1> QED BY <1>3, <1>4, <1>5

(* A function that is defined step by step: step[n] makes the value at n   *)
(* of the one at n - 1.                                                    *)
Iterates(f, N, base, step) ==
  f = [n \in 0..N |-> IF n = 0 THEN base ELSE step[n][f[n - 1]]]

LEMMA IterationExists ==
  ASSUME NEW N \in Nat, NEW V, NEW base \in V, NEW step \in [1..N -> [V -> V]]
  PROVE  \E f \in [0..N -> V] : Iterates(f, N, base, step)
  <1> DEFINE Part(n, g) == g[0] = base /\ \A i \in 1..n : g[i] = step[i][g[i - 1]]
             ok == {n \in 0..N : \E g \in [0..N -> V] : Part(n, g)}
  <1>1. 0 \in ok
    <2>1. PICK g : g = [i \in 0..N |-> base]
      OBVIOUS
    <2>2. g \in [0..N -> V] /\ g[0] = base /\ 0 \in 0..N
      BY <2>1
    <2>3. Part(0, g)
      BY <2>2
    <2> QED BY <2>2, <2>3
  <1>2. ASSUME NEW n \in 0..N, n \in ok, n < N PROVE n + 1 \in ok
    <2>1. PICK g \in [0..N -> V] : Part(n, g)
      BY <1>2
    <2>2. PICK h : h = [g EXCEPT ![n + 1] = step[n + 1][g[n]]]
      OBVIOUS
    <2>3. n + 1 \in 1..N /\ step[n + 1] \in [V -> V] /\ g[n] \in V
      BY <1>2, <2>1
    <2>4. h \in [0..N -> V] /\ h[n + 1] = step[n + 1][g[n]]
            /\ \A i \in 0..N : i # n + 1 => h[i] = g[i]
      BY <2>1, <2>2, <2>3
    <2>5. ASSUME NEW i \in 1..(n + 1) PROVE h[i] = step[i][h[i - 1]]
      <3>1. i - 1 \in 0..N /\ i - 1 # n + 1 /\ h[i - 1] = g[i - 1]
        BY <2>4, <1>2
      <3>2. CASE i = n + 1
        <4>1. i - 1 = n
          BY <3>2
        <4> QED BY <2>4, <3>1, <3>2, <4>1
      <3>3. CASE i # n + 1
        <4>1. i \in 1..n /\ i \in 0..N
          BY <3>3, <1>2
        <4> QED BY <2>1, <2>4, <3>1, <3>3, <4>1
      <3> QED BY <3>2, <3>3
    <2>6. Part(n + 1, h)
      BY <2>1, <2>4, <2>5
    <2> QED BY <2>3, <2>4, <2>6
  <1>3. N \in ok
    <2> HIDE DEF ok
    <2> QED BY <1>1, <1>2, UpTo
  <1>4. PICK g \in [0..N -> V] : Part(N, g)
    BY <1>3
  <1>5. \A n \in 0..N : g[n] = IF n = 0 THEN base ELSE step[n][g[n - 1]]
    BY <1>4
  <1>6. g = [n \in 0..N |-> IF n = 0 THEN base ELSE step[n][g[n - 1]]]
    BY <1>5
  <1> QED BY <1>6 DEF Iterates

(* The recursion in Retain defines a function.                             *)
Kept(s, S, kept) ==
  kept = [n \in 0..Len(s) |->
            IF n = 0 THEN <<>>
            ELSE IF s[n] \in S THEN Append(kept[n - 1], s[n]) ELSE kept[n - 1]]

LEMMA KeptExists ==
  ASSUME NEW T, NEW s \in Seq(T), NEW S
  PROVE  \E kept : Kept(s, S, kept)
  <1> DEFINE Step(n) == [x \in Seq(T) |-> IF s[n] \in S THEN Append(x, s[n]) ELSE x]
  <1>1. PICK step : step = [n \in 1..Len(s) |-> Step(n)]
    OBVIOUS
  <1>2. Len(s) \in Nat /\ \A n \in 1..Len(s) : s[n] \in T
    OBVIOUS
  <1>3. \A n \in 1..Len(s) : step[n] = Step(n) /\ Step(n) \in [Seq(T) -> Seq(T)]
    BY <1>1, <1>2
  <1>4. step \in [1..Len(s) -> [Seq(T) -> Seq(T)]]
    BY <1>1, <1>3
  <1>5. PICK f \in [0..Len(s) -> Seq(T)] : Iterates(f, Len(s), <<>>, step)
    <2>1. <<>> \in Seq(T)
      OBVIOUS
    <2> QED BY <1>2, <1>4, <2>1, IterationExists
  <1>6. \A n \in 0..Len(s) :
          f[n] = IF n = 0 THEN <<>>
                 ELSE IF s[n] \in S THEN Append(f[n - 1], s[n]) ELSE f[n - 1]
    <2> TAKE n \in 0..Len(s)
    <2>1. f[n] = IF n = 0 THEN <<>> ELSE step[n][f[n - 1]]
      BY <1>5 DEF Iterates
    <2>2. CASE n = 0
      BY <2>1, <2>2
    <2>3. CASE n # 0
      <3>1. n \in 1..Len(s) /\ n - 1 \in 0..Len(s)
        BY <1>2, <2>3
      <3>2. f[n - 1] \in Seq(T)
        BY <1>5, <3>1
      <3>3. step[n][f[n - 1]] = IF s[n] \in S THEN Append(f[n - 1], s[n]) ELSE f[n - 1]
        <4>1. PICK y \in Seq(T) : y = f[n - 1]
          BY <3>2
        <4>2. Step(n)[y] = IF s[n] \in S THEN Append(y, s[n]) ELSE y
          OBVIOUS
        <4>3. step[n] = Step(n)
          BY <1>3, <3>1
        <4> HIDE DEF Step
        <4> QED BY <4>1, <4>2, <4>3
      <3> QED BY <2>1, <2>3, <3>3
    <2> QED BY <2>2, <2>3
  <1>7. f = [n \in 0..Len(s) |->
               IF n = 0 THEN <<>>
               ELSE IF s[n] \in S THEN Append(f[n - 1], s[n]) ELSE f[n - 1]]
    BY <1>5, <1>6
  <1> QED BY <1>7 DEF Kept

(* The same, step by step.                                                 *)
LEMMA RetainSteps ==
  ASSUME NEW T, NEW s \in Seq(T), NEW S
  PROVE  \E kept :
           /\ Retain(s, S) = kept[Len(s)] /\ kept[0] = <<>>
           /\ \A n \in 1..Len(s) :
                kept[n] = IF s[n] \in S THEN Append(kept[n - 1], s[n]) ELSE kept[n - 1]
  <1>1. PICK kept : kept = CHOOSE f : Kept(s, S, f)
    OBVIOUS
  <1>2. Kept(s, S, kept)
    BY <1>1, KeptExists
  <1>3. Retain(s, S) = kept[Len(s)]
    BY <1>1 DEF Retain, Kept
  <1>4. Len(s) \in Nat
    OBVIOUS
  <1>5. kept[0] = <<>>
    BY <1>2, <1>4 DEF Kept
  <1>6. \A n \in 1..Len(s) :
          kept[n] = IF s[n] \in S THEN Append(kept[n - 1], s[n]) ELSE kept[n - 1]
    <2> TAKE n \in 1..Len(s)
    <2>1. n \in 0..Len(s) /\ n # 0
      BY <1>4
    <2>2. kept[n] = IF n = 0 THEN <<>>
                    ELSE IF s[n] \in S THEN Append(kept[n - 1], s[n]) ELSE kept[n - 1]
      BY <1>2, <2>1, Zenon DEF Kept
    <2> QED BY <2>1, <2>2
  <1> QED BY <1>3, <1>5, <1>6

(* What is kept of the first n elements: those in S, in their order.  at   *)
(* gives the place where each of them was.                                 *)
Selects(r, s, S, n, at) ==
  /\ at \in [1..Len(r) -> 1..n]
  /\ \A j \in 1..Len(r) : r[j] = s[at[j]] /\ s[at[j]] \in S
  /\ \A j, k \in 1..Len(r) : j < k => at[j] < at[k]
  /\ \A i \in 1..n : s[i] \in S => \E j \in 1..Len(r) : at[j] = i

LEMMA RetainSelects ==
  ASSUME NEW T, NEW s \in Seq(T), NEW S
  PROVE  Retain(s, S) \in Seq(T) /\ \E at : Selects(Retain(s, S), s, S, Len(s), at)
  <1>1. PICK kept :
          /\ Retain(s, S) = kept[Len(s)] /\ kept[0] = <<>>
          /\ \A n \in 1..Len(s) :
               kept[n] = IF s[n] \in S THEN Append(kept[n - 1], s[n]) ELSE kept[n - 1]
    BY RetainSteps
  <1>2. Len(s) \in Nat /\ \A n \in 1..Len(s) : s[n] \in T
    OBVIOUS
  <1> DEFINE Good(n) == kept[n] \in Seq(T) /\ \E at : Selects(kept[n], s, S, n, at)
             ok == {n \in 0..Len(s) : Good(n)}
  <1>3. 0 \in ok
    <2>1. PICK at : at = [j \in 1..0 |-> 0]
      OBVIOUS
    <2>2. kept[0] \in Seq(T) /\ Len(kept[0]) = 0
      BY <1>1
    <2>3. Selects(kept[0], s, S, 0, at)
      BY <2>1, <2>2 DEF Selects
    <2> QED BY <1>2, <2>2, <2>3
  <1>4. ASSUME NEW n \in 0..Len(s), n \in ok, n < Len(s) PROVE n + 1 \in ok
    <2>1. n + 1 \in 1..Len(s) /\ n + 1 \in 0..Len(s) /\ (n + 1) - 1 = n /\ n \in Nat
      BY <1>2, <1>4
    <2>2. kept[n + 1] = IF s[n + 1] \in S THEN Append(kept[n], s[n + 1]) ELSE kept[n]
      BY <1>1, <2>1
    <2>3. kept[n] \in Seq(T)
      BY <1>4
    <2>4. PICK at : Selects(kept[n], s, S, n, at)
      BY <1>4
    <2>5. CASE s[n + 1] \notin S
      <3>1. kept[n + 1] = kept[n]
        BY <2>2, <2>5
      <3>2. Selects(kept[n], s, S, n + 1, at)
        BY <2>1, <2>3, <2>4, <2>5 DEF Selects
      <3>3. Good(n + 1)
        BY <2>3, <3>1, <3>2
      <3> QED BY <2>1, <3>3
    <2>6. CASE s[n + 1] \in S
      <3>1. PICK r : r = kept[n + 1]
        OBVIOUS
      <3>2. /\ r \in Seq(T) /\ Len(r) = Len(kept[n]) + 1 /\ Len(kept[n]) \in Nat
            /\ r[Len(r)] = s[n + 1]
            /\ \A j \in 1..Len(kept[n]) : r[j] = kept[n][j]
        BY <1>2, <2>1, <2>2, <2>3, <2>6, <3>1
      <3>3. PICK at2 : at2 = [j \in 1..Len(r) |-> IF j = Len(r) THEN n + 1 ELSE at[j]]
        OBVIOUS
      <3>4. at2[Len(r)] = n + 1 /\ \A j \in 1..Len(kept[n]) : at2[j] = at[j] /\ at[j] \in 1..n
        BY <2>4, <3>2, <3>3 DEF Selects
      <3>5. \A j \in 1..Len(r) : j = Len(r) \/ j \in 1..Len(kept[n])
        BY <3>2
      <3>6. at2 \in [1..Len(r) -> 1..(n + 1)]
        <4>1. n + 1 \in 1..(n + 1) /\ \A i \in 1..n : i \in 1..(n + 1)
          BY <2>1
        <4>2. \A j \in 1..Len(r) : at2[j] \in 1..(n + 1)
          <5> TAKE j \in 1..Len(r)
          <5>1. CASE j = Len(r)
            BY <3>4, <4>1, <5>1
          <5>2. CASE j \in 1..Len(kept[n])
            BY <3>4, <4>1, <5>2
          <5> QED BY <3>5, <5>1, <5>2
        <4> QED BY <3>3, <4>2
      <3>7. \A j \in 1..Len(r) : r[j] = s[at2[j]] /\ s[at2[j]] \in S
        BY <2>4, <2>6, <3>2, <3>4, <3>5 DEF Selects
      <3>8. \A j, k \in 1..Len(r) : j < k => at2[j] < at2[k]
        <4> SUFFICES ASSUME NEW j \in 1..Len(r), NEW k \in 1..Len(r), j < k PROVE at2[j] < at2[k]
          OBVIOUS
        <4>1. j \in 1..Len(kept[n]) /\ at2[j] = at[j] /\ at[j] \in 1..n
          BY <3>2, <3>4
        <4>2. CASE k = Len(r)
          BY <2>1, <3>4, <4>1, <4>2
        <4>3. CASE k # Len(r)
          <5>1. k \in 1..Len(kept[n]) /\ at2[k] = at[k]
            BY <3>4, <3>5, <4>3
          <5> QED BY <2>4, <4>1, <5>1 DEF Selects
        <4> QED BY <4>2, <4>3
      <3>9. \A i \in 1..(n + 1) : s[i] \in S => \E j \in 1..Len(r) : at2[j] = i
        <4>1. Len(r) \in 1..Len(r) /\ \A j \in 1..Len(kept[n]) : j \in 1..Len(r)
          BY <3>2
        <4>2. \A i \in 1..(n + 1) : i = n + 1 \/ i \in 1..n
          BY <2>1
        <4> QED BY <2>4, <3>4, <4>1, <4>2 DEF Selects
      <3>10. Selects(r, s, S, n + 1, at2)
        BY <3>6, <3>7, <3>8, <3>9 DEF Selects
      <3>11. Good(n + 1)
        BY <3>1, <3>2, <3>10
      <3> QED BY <2>1, <3>11
    <2> QED BY <2>5, <2>6
  <1>5. Len(s) \in ok
    <2> HIDE DEF ok
    <2> QED BY <1>2, <1>3, <1>4, UpTo
  <1>6. Good(Len(s))
    BY <1>5
  <1> QED BY <1>1, <1>6

(* The elements of r are those of s that are in S.                         *)
KeptOf(T, r, s, S) ==
  /\ r \in Seq(T \cap S)
  /\ \A j \in 1..Len(r) : \E i \in 1..Len(s) : r[j] = s[i]
  /\ \A i \in 1..Len(s) : s[i] \in S => \E j \in 1..Len(r) : r[j] = s[i]

(* So nothing else is kept, and nothing of S is lost.                      *)
LEMMA RetainOK ==
  ASSUME NEW T, NEW s \in Seq(T), NEW S, NEW r, r = Retain(s, S)
  PROVE  KeptOf(T, r, s, S)
  <1>1. r \in Seq(T)
    BY RetainSelects
  <1>2. PICK at : Selects(r, s, S, Len(s), at)
    BY <1>1, RetainSelects
  <1>3. \A j \in 1..Len(r) : r[j] \in T \cap S
    BY <1>1, <1>2 DEF Selects
  <1>4. r \in Seq(T \cap S)
    BY <1>1, <1>3
  <1>5. \A j \in 1..Len(r) : \E i \in 1..Len(s) : r[j] = s[i]
    BY <1>2 DEF Selects
  <1>6. \A i \in 1..Len(s) : s[i] \in S => \E j \in 1..Len(r) : r[j] = s[i]
    <2> TAKE i \in 1..Len(s)
    <2> HAVE s[i] \in S
    <2>1. PICK j \in 1..Len(r) : at[j] = i
      BY <1>2 DEF Selects
    <2> QED BY <1>2, <2>1 DEF Selects
  <1> QED BY <1>4, <1>5, <1>6 DEF KeptOf

(* A function whose value at o is made of the one at a later place next[o], *)
(* until a place of stop is reached.                                       *)
Jumps(f, N, stop, next, base, step) ==
  f = [o \in 0..N |-> IF o \in stop THEN base ELSE step[o][f[next[o]]]]

LEMMA JumpExists ==
  ASSUME NEW N \in Nat, NEW V, NEW base \in V, NEW step \in [0..N -> [V -> V]],
         NEW stop, NEW next \in [0..N -> Nat],
         \A o \in 0..N : o \notin stop => o < next[o] /\ next[o] <= N
  PROVE  \E f \in [0..N -> V] : Jumps(f, N, stop, next, base, step)
  <1> DEFINE Right(g, o) == g[o] = IF o \in stop THEN base ELSE step[o][g[next[o]]]
             ok == {k \in 0..N : \E g \in [0..N -> V] : \A o \in (N - k)..N : Right(g, o)}
  <1>1. 0 \in ok
    <2>1. PICK g : g = [o \in 0..N |-> base]
      OBVIOUS
    <2>2. g \in [0..N -> V] /\ g[N] = base /\ 0 \in 0..N
      BY <2>1
    <2>3. N \in stop
      <3>1. N \in 0..N
        OBVIOUS
      <3>2. ASSUME N \notin stop PROVE FALSE
        <4>1. N < next[N] /\ next[N] <= N /\ next[N] \in Nat
          BY <3>1, <3>2
        <4> QED BY <4>1
      <3> QED BY <3>2
    <2>4. \A o \in (N - 0)..N : o = N
      OBVIOUS
    <2>5. \A o \in (N - 0)..N : Right(g, o)
      BY <2>2, <2>3, <2>4
    <2> QED BY <2>2, <2>5
  <1>2. ASSUME NEW k \in 0..N, k \in ok, k < N PROVE k + 1 \in ok
    <2>1. PICK g \in [0..N -> V] : \A o \in (N - k)..N : Right(g, o)
      BY <1>2
    <2>2. PICK p \in 0..N : p = N - (k + 1)
      BY <1>2
    <2>3. PICK v : v = IF p \in stop THEN base ELSE step[p][g[next[p]]]
      OBVIOUS
    <2>4. v \in V
      <3>1. CASE p \in stop
        BY <2>3, <3>1
      <3>2. CASE p \notin stop
        <4>1. next[p] \in 0..N
          BY <2>2, <3>2
        <4>2. g[next[p]] \in V /\ step[p] \in [V -> V]
          BY <2>1, <2>2, <4>1
        <4> QED BY <2>3, <3>2, <4>2
      <3> QED BY <3>1, <3>2
    <2>5. PICK h : h = [g EXCEPT ![p] = v]
      OBVIOUS
    <2>6. h \in [0..N -> V] /\ h[p] = v /\ \A o \in 0..N : o # p => h[o] = g[o]
      BY <2>1, <2>2, <2>4, <2>5
    <2>7. ASSUME NEW o \in (N - (k + 1))..N PROVE Right(h, o)
      <3>1. o \in 0..N /\ p <= o /\ (o = p \/ (o \in (N - k)..N /\ p < o))
        BY <1>2, <2>2
      <3>2. o \notin stop => next[o] \in 0..N /\ next[o] # p
        BY <2>2, <3>1
      <3>3. o \notin stop => h[next[o]] = g[next[o]]
        BY <2>6, <3>2
      <3>4. CASE o = p
        BY <2>3, <2>6, <3>3, <3>4
      <3>5. CASE o # p
        <4>1. h[o] = g[o] /\ Right(g, o)
          BY <2>1, <2>6, <3>1, <3>5
        <4> QED BY <3>3, <4>1
      <3> QED BY <3>4, <3>5
    <2>8. k + 1 \in 0..N
      BY <1>2
    <2> QED BY <2>6, <2>7, <2>8
  <1>3. N \in ok
    <2> HIDE DEF ok
    <2> QED BY <1>1, <1>2, UpTo
  <1>4. PICK g \in [0..N -> V] : \A o \in (N - N)..N : Right(g, o)
    BY <1>3
  <1>5. \A o \in 0..N : g[o] = IF o \in stop THEN base ELSE step[o][g[next[o]]]
    BY <1>4
  <1>6. g = [o \in 0..N |-> IF o \in stop THEN base ELSE step[o][g[next[o]]]]
    BY <1>5
  <1> QED BY <1>6 DEF Jumps
=============================================================================
