--------------------------- MODULE VectorTheorems ----------------------------
(***************************************************************************)
(* What a scan that erases leaves of a vector: the elements of Kept, by    *)
(* induction over the length, of the parts of a sequence and of their      *)
(* concatenation.  The induction is over the least counterexample, which   *)
(* well-foundedness of < gives.                                            *)
(***************************************************************************)
EXTENDS Vectors, SequencesExt, WellFoundedInduction, TLAPS

(* Every non-empty set of natural numbers has a least one.                 *)
LEMMA Least ==
  ASSUME NEW B \in SUBSET Nat, B # {}
  PROVE  \E n \in B : \A m \in B : n <= m
<1>1. IsWellFoundedOn(OpToRel(<, Nat), Nat)
  BY NatLessThanWellFounded
<1>2. PICK n \in B : \A m \in B : ~ (<<m, n>> \in OpToRel(<, Nat))
  BY <1>1, WFMin
<1>3. \A m \in B : ~ (m < n)
  BY <1>2 DEF OpToRel
<1> QED
  BY <1>3

(* The recursion of Kept up to n, and what it says of f.                   *)
Scan(s, S, f, n) ==
  [i \in 0 .. n |-> IF i = 0 THEN <<>>
                    ELSE IF s[i] \in S THEN Append(f[i - 1], s[i])
                    ELSE f[i - 1]]

(* The recursion of Kept has a solution.                                   *)
LEMMA ScanExists ==
  ASSUME NEW s, NEW S, NEW N \in Nat
  PROVE  \E f : f = Scan(s, S, f, N)
<1> DEFINE Bad == {n \in Nat : ~\E f : f = Scan(s, S, f, n)}
<1>1. SUFFICES ASSUME Bad # {} PROVE FALSE
  OBVIOUS
<1>2. PICK n \in Bad : \A m \in Bad : n <= m
  <2>1. Bad \in SUBSET Nat
    OBVIOUS
  <2> QED
    BY <1>1, <2>1, Least
<1>3. n # 0
  <2>1. [i \in 0 .. 0 |-> <<>>] = Scan(s, S, [i \in 0 .. 0 |-> <<>>], 0)
    BY DEF Scan
  <2> QED
    BY <2>1
<1>4. n \in Nat /\ n - 1 \in Nat /\ n - 1 \notin Bad
  BY <1>2, <1>3
<1>5. PICK f : f = Scan(s, S, f, n - 1)
  BY <1>4
<1> DEFINE last == IF s[n] \in S THEN Append(f[n - 1], s[n]) ELSE f[n - 1]
           g == [i \in 0 .. n |-> IF i = n THEN last ELSE f[i]]
<1>6. g = Scan(s, S, g, n)
  <2>1. \A i \in 0 .. n : i # n => g[i] = f[i] /\ (i # 0 => g[i - 1] = f[i - 1])
    BY <1>4
  <2>2. \A i \in 0 .. n : i # n => f[i] = Scan(s, S, f, n - 1)[i] 
    BY <1>5
  <2>3. ASSUME NEW i \in 0 .. n PROVE g[i] = Scan(s, S, g, n)[i]
    <3>1. CASE i = n
      <4>1. g[n] = last
        BY <1>4
      <4>2. g[n - 1] = f[n - 1]
        BY <1>4
      <4>3. Scan(s, S, g, n)[n] = IF s[n] \in S THEN Append(g[n - 1], s[n]) ELSE g[n - 1]
        BY <1>3, <1>4 DEF Scan
      <4> HIDE DEF g
      <4> QED
        BY <4>1, <4>2, <4>3, <3>1
    <3>2. CASE i # n
      <4>1. g[i] = f[i] /\ (i # 0 => g[i - 1] = f[i - 1])
        BY <2>1, <3>2
      <4>2. i \in 0 .. n - 1
        BY <3>2, <1>4
      <4>3. Scan(s, S, f, n - 1)[i] = IF i = 0 THEN <<>>
                    ELSE IF s[i] \in S THEN Append(f[i - 1], s[i])
                    ELSE f[i - 1]
        BY <4>2 DEF Scan
      <4>4. Scan(s, S, g, n)[i] = IF i = 0 THEN <<>>
                    ELSE IF s[i] \in S THEN Append(g[i - 1], s[i])
                    ELSE g[i - 1]
        BY DEF Scan
      <4> HIDE DEF g
      <4> QED
        BY <4>1, <4>3, <4>4, <2>2, <3>2
    <3> QED
      BY <3>1, <3>2
  <2>4. g = [i \in 0 .. n |-> g[i]]
    OBVIOUS
  <2>5. Scan(s, S, g, n) = [i \in 0 .. n |-> Scan(s, S, g, n)[i]]
    BY DEF Scan
  <2> HIDE DEF g
  <2> QED
    BY <2>3, <2>4, <2>5
<1> QED
  BY <1>2, <1>6

(* Kept is the last value of such a function.                              *)
LEMMA KeptUnfolds ==
  ASSUME NEW s, NEW S, Len(s) \in Nat
  PROVE  \E f : f = Scan(s, S, f, Len(s)) /\ Kept(s, S) = f[Len(s)]
<1> DEFINE f == CHOOSE f : f = Scan(s, S, f, Len(s))
<1>1. f = Scan(s, S, f, Len(s))
  BY ScanExists
<1>2. Kept(s, S) = f[Len(s)]
  BY DEF Kept, Scan
<1> QED
  BY <1>1, <1>2

(* What Kept keeps: the elements in S, each as often as s holds it.        *)
LEMMA KeptFacts ==
  ASSUME NEW T, NEW s \in Seq(T), NEW S
  PROVE  /\ Kept(s, S) \in Seq(T)
         /\ ToSet(Kept(s, S)) = ToSet(s) \cap S
         /\ IsInjective(s) => IsInjective(Kept(s, S))
<1>1. PICK f : f = Scan(s, S, f, Len(s)) /\ Kept(s, S) = f[Len(s)]
  BY KeptUnfolds
<1> DEFINE Seen(n) == {s[i] : i \in 1 .. n}
           Good(n) == /\ f[n] \in Seq(T)
                      /\ ToSet(f[n]) = Seen(n) \cap S
                      /\ IsInjective(s) => IsInjective(f[n])
           Bad == {n \in 0 .. Len(s) : ~Good(n)}
<1>0. Len(s) \in Nat /\ DOMAIN s = 1 .. Len(s) /\ \A i \in 1 .. Len(s) : s[i] \in T
  OBVIOUS
<1>2. f[0] = <<>>
  BY <1>0, <1>1 DEF Scan
<1>3. ASSUME NEW i \in 1 .. Len(s)
      PROVE  f[i] = IF s[i] \in S THEN Append(f[i - 1], s[i]) ELSE f[i - 1]
  <2>1. i \in 0 .. Len(s) /\ i # 0
    BY <1>0
  <2>2. Scan(s, S, f, Len(s))[i] = IF s[i] \in S THEN Append(f[i - 1], s[i]) ELSE f[i - 1]
    BY <2>1 DEF Scan
  <2> QED
    BY <1>1, <2>2
<1>4. Good(0)
  BY <1>2 DEF ToSet, IsInjective
<1>5. ASSUME NEW i \in 1 .. Len(s), Good(i - 1) PROVE Good(i)
  <2>0. Seen(i) = Seen(i - 1) \cup {s[i]} /\ s[i] \in T
    BY <1>0
  <2>1. CASE s[i] \notin S
    BY <2>1, <2>0, <1>3, <1>5
  <2>2. CASE s[i] \in S
    <3> DEFINE t == f[i - 1]
    <3>1. t \in Seq(T) /\ ToSet(t) = Seen(i - 1) \cap S /\ (IsInjective(s) => IsInjective(t))
      BY <1>5
    <3>2. f[i] = Append(t, s[i])
      BY <2>2, <1>3
    <3> HIDE DEF t, Seen
    <3>3. /\ f[i] \in Seq(T)
          /\ DOMAIN f[i] = 1 .. Len(t) + 1 /\ DOMAIN t = 1 .. Len(t) /\ Len(t) \in Nat
          /\ \A j \in 1 .. Len(t) : f[i][j] = t[j]
          /\ f[i][Len(t) + 1] = s[i]
      BY <3>1, <3>2, <2>0
    <3>4. ToSet(f[i]) = ToSet(t) \cup {s[i]}
      BY <3>3 DEF ToSet
    <3>5. ToSet(f[i]) = Seen(i) \cap S
      BY <3>4, <3>1, <2>0, <2>2
    <3>6. ASSUME IsInjective(s) PROVE IsInjective(f[i])
      <4>1. s[i] \notin Seen(i - 1)
        BY <3>6, <1>0 DEF IsInjective, Seen
      <4>2. \A j \in 1 .. Len(t) : t[j] # s[i]
        BY <4>1, <3>1, <3>3 DEF ToSet
      <4>3. IsInjective(t)
        BY <3>6, <3>1
      <4>4. SUFFICES ASSUME NEW a \in 1 .. Len(t) + 1, NEW b \in 1 .. Len(t) + 1, f[i][a] = f[i][b]
                     PROVE  a = b
        BY <3>3 DEF IsInjective
      <4>5. /\ a \in 1 .. Len(t) \/ a = Len(t) + 1
            /\ b \in 1 .. Len(t) \/ b = Len(t) + 1
        BY <3>3
      <4>6. CASE a \in 1 .. Len(t) /\ b \in 1 .. Len(t)
        <5>1. t[a] = t[b]
          BY <4>4, <4>6, <3>3
        <5>2. a \in DOMAIN t /\ b \in DOMAIN t
          BY <4>6, <3>3
        <5> QED
          BY <5>1, <5>2, <4>3, Zenon DEF IsInjective
      <4>7. CASE a \in 1 .. Len(t) /\ b = Len(t) + 1
        BY <4>2, <4>4, <4>7, <3>3
      <4>8. CASE a = Len(t) + 1 /\ b \in 1 .. Len(t)
        BY <4>2, <4>4, <4>8, <3>3
      <4> QED
        BY <4>5, <4>6, <4>7, <4>8
    <3> QED
      BY <3>3, <3>5, <3>6
  <2> QED
    BY <2>1, <2>2
<1>6. Bad = {}
  <2>1. SUFFICES ASSUME Bad # {} PROVE FALSE
    OBVIOUS
  <2>2. Bad \in SUBSET Nat
    OBVIOUS
  <2>3. PICK n \in Bad : \A m \in Bad : n <= m
    BY <2>1, <2>2, Least
  <2> HIDE DEF Good
  <2>4. n \in 1 .. Len(s)
    BY <2>3, <1>4, <1>0
  <2>5. n - 1 \in 0 .. Len(s) /\ n - 1 \notin Bad
    BY <2>3, <2>4, <1>0
  <2> QED
    BY <2>4, <2>5, <1>5, <2>3
<1>7. Good(Len(s))
  BY <1>6, <1>0
<1>8. Seen(Len(s)) = ToSet(s)
  BY <1>0 DEF ToSet
<1> QED
  BY <1>1, <1>7, <1>8

-----------------------------------------------------------------------------
(* Parts of a vector and their elements *)

(* The elements of a concatenation, and when they differ pairwise.         *)
LEMMA ConcatFacts ==
  ASSUME NEW T, NEW s \in Seq(T), NEW t \in Seq(T)
  PROVE  /\ s \o t \in Seq(T)
         /\ ToSet(s \o t) = ToSet(s) \cup ToSet(t)
         /\ IsInjective(s) /\ IsInjective(t) /\ ToSet(s) \cap ToSet(t) = {}
              => IsInjective(s \o t)
<1> DEFINE u == s \o t
<1>1. /\ u \in Seq(T) /\ Len(s) \in Nat /\ Len(t) \in Nat
      /\ DOMAIN s = 1 .. Len(s) /\ DOMAIN t = 1 .. Len(t)
      /\ DOMAIN u = 1 .. Len(s) + Len(t)
      /\ \A i \in 1 .. Len(s) : u[i] = s[i]
      /\ \A i \in 1 .. Len(t) : u[Len(s) + i] = t[i]
  OBVIOUS
<1>2. \A i \in DOMAIN u : i \in 1 .. Len(s) \/ (i - Len(s) \in 1 .. Len(t) /\ u[i] = t[i - Len(s)])
  BY <1>1
<1> HIDE DEF u
<1>3. ToSet(u) = ToSet(s) \cup ToSet(t)
  <2>1. ToSet(u) \subseteq ToSet(s) \cup ToSet(t)
    BY <1>1, <1>2 DEF ToSet
  <2>2. ToSet(s) \subseteq ToSet(u)
    BY <1>1 DEF ToSet
  <2>3. ASSUME NEW i \in 1 .. Len(t) PROVE t[i] \in ToSet(u)
    <3>1. Len(s) + i \in DOMAIN u
      BY <1>1
    <3> QED
      BY <3>1, <1>1 DEF ToSet
  <2> QED
    BY <2>1, <2>2, <2>3, <1>1 DEF ToSet
<1>4. ASSUME IsInjective(s), IsInjective(t), ToSet(s) \cap ToSet(t) = {}
      PROVE  IsInjective(u)
  <2>1. \A i \in 1 .. Len(s), j \in 1 .. Len(t) : s[i] # t[j]
    BY <1>4, <1>1 DEF ToSet
  <2>2. SUFFICES ASSUME NEW i \in DOMAIN u, NEW j \in DOMAIN u, u[i] = u[j] PROVE i = j
    BY DEF IsInjective
  <2>3. CASE i \in 1 .. Len(s) /\ j \in 1 .. Len(s)
    BY <2>3, <2>2, <1>1, <1>4 DEF IsInjective
  <2>4. CASE i \notin 1 .. Len(s) /\ j \notin 1 .. Len(s)
    <3>1. /\ i - Len(s) \in 1 .. Len(t) /\ u[i] = t[i - Len(s)]
          /\ j - Len(s) \in 1 .. Len(t) /\ u[j] = t[j - Len(s)]
      BY <2>4, <1>2
    <3>2. i - Len(s) = j - Len(s)
      BY <3>1, <2>2, <1>1, <1>4 DEF IsInjective
    <3> QED
      BY <3>2, <1>1
  <2>5. CASE i \in 1 .. Len(s) /\ j \notin 1 .. Len(s)
    BY <2>5, <2>2, <1>1, <1>2, <2>1
  <2>6. CASE i \notin 1 .. Len(s) /\ j \in 1 .. Len(s)
    BY <2>6, <2>2, <1>1, <1>2, <2>1
  <2> QED
    BY <2>3, <2>4, <2>5, <2>6
<1> QED
  BY <1>1, <1>3, <1>4 DEF u

(* The elements of a part of a sequence.                                   *)
LEMMA SubSeqFacts ==
  ASSUME NEW T, NEW s \in Seq(T), NEW m \in 1 .. Len(s) + 1, NEW n \in 0 .. Len(s)
  PROVE  /\ SubSeq(s, m, n) \in Seq(T)
         /\ ToSet(SubSeq(s, m, n)) = {s[i] : i \in m .. n}
         /\ IsInjective(s) => IsInjective(SubSeq(s, m, n))
<1> DEFINE u == SubSeq(s, m, n)
           k == IF m <= n THEN n - m + 1 ELSE 0
<1>0. Len(s) \in Nat /\ DOMAIN s = 1 .. Len(s) /\ k \in Nat
      /\ (\A i \in 1 .. k : i + m - 1 \in m .. n /\ i + m - 1 \in 1 .. Len(s))
      /\ (\A i \in m .. n : i - m + 1 \in 1 .. k)
  OBVIOUS
<1>1. u = [i \in 1 .. k |-> s[i + m - 1]]
  BY <1>0
<1>2. DOMAIN u = 1 .. k /\ \A i \in 1 .. k : u[i] = s[i + m - 1]
  BY <1>1
<1> HIDE DEF u, k
<1>3. u \in Seq(T)
  <2>1. \A i \in 1 .. k : s[i + m - 1] \in T
    BY <1>0
  <2> QED
    BY <2>1, <1>0, <1>1
<1>4. ToSet(u) = {s[i] : i \in m .. n}
  <2>1. ToSet(u) \subseteq {s[i] : i \in m .. n}
    BY <1>0, <1>2 DEF ToSet
  <2>2. ASSUME NEW i \in m .. n PROVE s[i] \in ToSet(u)
    <3>1. i - m + 1 \in 1 .. k
      BY m \in Int, n \in Int DEF k
    <3>2. (i - m + 1) + m - 1 = i
      BY <1>0
    <3>3. u[i - m + 1] = s[i]
      BY <3>1, <3>2, <1>2
    <3> QED
      BY <3>1, <3>3, <1>2 DEF ToSet
  <2> QED
    BY <2>1, <2>2
<1>5. ASSUME IsInjective(s) PROVE IsInjective(u)
  <2>1. SUFFICES ASSUME NEW i \in 1 .. k, NEW j \in 1 .. k, s[i + m - 1] = s[j + m - 1]
                 PROVE  i = j
    BY <1>2 DEF IsInjective
  <2>2. i + m - 1 = j + m - 1
    BY <2>1, <1>5, <1>0 DEF IsInjective
  <2> QED
    BY <2>2, <1>0
<1> QED
  BY <1>3, <1>4, <1>5 DEF u

(* The scan of wrap up to position i: what is left before, at and after it.*)
LEMMA SpliceFacts ==
  ASSUME NEW T, NEW s \in Seq(T), NEW i \in DOMAIN s, NEW S, IsInjective(s)
  PROVE  LET left   == SubSeq(s, 1, i - 1)
             before == Kept(left, S)
             after  == SubSeq(s, i + 1, Len(s))
             with   == before \o <<s[i]>> \o after
             without == before \o after
         IN  /\ with \in Seq(T) /\ IsInjective(with)
             /\ ToSet(with) \subseteq ToSet(s)
             /\ \A e \in ToSet(s) : (e \in ToSet(left) => e \in S) => e \in ToSet(with)
             /\ s[i] \in ToSet(with)
             /\ without \in Seq(T) /\ IsInjective(without)
             /\ ToSet(without) \subseteq ToSet(s) \ {s[i]}
             /\ \A e \in ToSet(s) :
                   e # s[i] /\ (e \in ToSet(left) => e \in S) => e \in ToSet(without)
<1> DEFINE left == SubSeq(s, 1, i - 1)
           before == Kept(left, S)
           after == SubSeq(s, i + 1, Len(s))
           middle == <<s[i]>>
<1>0. Len(s) \in Nat /\ DOMAIN s = 1 .. Len(s) /\ i \in 1 .. Len(s)
      /\ 1 \in 1 .. Len(s) + 1 /\ i - 1 \in 0 .. Len(s) /\ i + 1 \in 1 .. Len(s) + 1
      /\ Len(s) \in 0 .. Len(s)
  OBVIOUS
<1>1. /\ left \in Seq(T) /\ ToSet(left) = {s[j] : j \in 1 .. i - 1} /\ IsInjective(left)
      /\ after \in Seq(T) /\ ToSet(after) = {s[j] : j \in i + 1 .. Len(s)}
      /\ IsInjective(after)
  BY <1>0, SubSeqFacts
<1>2. before \in Seq(T) /\ ToSet(before) = ToSet(left) \cap S /\ IsInjective(before)
  BY <1>1, KeptFacts
<1>3. middle \in Seq(T) /\ ToSet(middle) = {s[i]} /\ IsInjective(middle)
  BY <1>0 DEF ToSet, IsInjective
<1> HIDE DEF left, before, after, middle
<1>4. /\ s[i] \notin ToSet(before) /\ s[i] \notin ToSet(after)
      /\ ToSet(before) \cap ToSet(after) = {}
  <2>1. \A j, k \in 1 .. Len(s) : s[j] = s[k] => j = k
    BY <1>0 DEF IsInjective
  <2>2. s[i] \notin ToSet(left) /\ s[i] \notin ToSet(after)
    BY <2>1, <1>0, <1>1
  <2>3. ToSet(left) \cap ToSet(after) = {}
    <3>1. ASSUME NEW j \in 1 .. i - 1, NEW k \in i + 1 .. Len(s), s[j] = s[k] PROVE FALSE
      BY <3>1, <2>1, <1>0
    <3> QED
      BY <3>1, <1>1
  <2> QED
    BY <2>2, <2>3, <1>2
<1>5. ToSet(s) = ToSet(left) \cup {s[i]} \cup ToSet(after)
  <2>1. ToSet(s) = {s[j] : j \in 1 .. Len(s)}
    BY <1>0 DEF ToSet
  <2>2. \A j \in 1 .. Len(s) : j \in 1 .. i - 1 \/ j = i \/ j \in i + 1 .. Len(s)
    BY <1>0
  <2>3. (1 .. i - 1) \cup {i} \cup (i + 1 .. Len(s)) \subseteq 1 .. Len(s)
    BY <1>0
  <2> QED
    BY <2>1, <2>2, <2>3, <1>1
<1>6. /\ before \o middle \in Seq(T) /\ ToSet(before \o middle) = ToSet(before) \cup {s[i]}
      /\ IsInjective(before \o middle)
  BY <1>2, <1>3, <1>4, ConcatFacts
<1>7. /\ before \o middle \o after \in Seq(T)
      /\ ToSet(before \o middle \o after) = ToSet(before) \cup {s[i]} \cup ToSet(after)
      /\ IsInjective(before \o middle \o after)
  <2> DEFINE front == before \o middle
  <2> HIDE DEF front
  <2>1. /\ front \in Seq(T) /\ ToSet(front) = ToSet(before) \cup {s[i]} /\ IsInjective(front)
        /\ ToSet(front) \cap ToSet(after) = {}
    BY <1>4, <1>6 DEF front
  <2>2. /\ front \o after \in Seq(T) /\ ToSet(front \o after) = ToSet(front) \cup ToSet(after)
        /\ IsInjective(front \o after)
    <3>1. after \in Seq(T) /\ IsInjective(after)
      BY <1>1
    <3>2. front \in Seq(T) /\ IsInjective(front) /\ ToSet(front) \cap ToSet(after) = {}
      BY <2>1
    <3> QED
      BY <3>1, <3>2, ConcatFacts
  <2> QED
    BY <2>1, <2>2 DEF front
<1>8. /\ before \o after \in Seq(T)
      /\ ToSet(before \o after) = ToSet(before) \cup ToSet(after)
      /\ IsInjective(before \o after)
  <2>1. before \in Seq(T) /\ IsInjective(before) /\ after \in Seq(T) /\ IsInjective(after)
    BY <1>1, <1>2
  <2>2. ToSet(before) \cap ToSet(after) = {}
    BY <1>2, <1>4
  <2> HIDE DEF before, after
  <2> QED
    BY <2>1, <2>2, ConcatFacts
<1> QED
  BY <1>2, <1>4, <1>5, <1>7, <1>8 DEF left, before, after, middle

(* The elements after a push and after a pop.                              *)
LEMMA PushFacts ==
  ASSUME NEW T, NEW s \in Seq(T), NEW x \in T
  PROVE  /\ Append(s, x) \in Seq(T) /\ Len(Append(s, x)) = Len(s) + 1
         /\ ToSet(Append(s, x)) = ToSet(s) \cup {x}
         /\ IsInjective(s) /\ x \notin ToSet(s) => IsInjective(Append(s, x))
<1> DEFINE u == Append(s, x)
<1>1. /\ u \in Seq(T) /\ Len(s) \in Nat /\ DOMAIN s = 1 .. Len(s)
      /\ DOMAIN u = 1 .. Len(s) + 1 /\ Len(u) = Len(s) + 1
      /\ \A i \in 1 .. Len(s) : u[i] = s[i]
      /\ u[Len(s) + 1] = x
  OBVIOUS
<1> HIDE DEF u
<1>2. ToSet(u) = ToSet(s) \cup {x}
  BY <1>1 DEF ToSet
<1>3. ASSUME IsInjective(s), x \notin ToSet(s) PROVE IsInjective(u)
  <2>1. \A i \in 1 .. Len(s) : s[i] # x
    BY <1>1, <1>3 DEF ToSet
  <2> QED
    BY <2>1, <1>1, <1>3 DEF IsInjective
<1> QED
  BY <1>1, <1>2, <1>3 DEF u

(* Taking the front element leaves the others (CleanerPop).                *)
LEMMA PopFacts ==
  ASSUME NEW T, NEW s \in Seq(T), s # <<>>
  PROVE  /\ Head(s) \in T /\ Tail(s) \in Seq(T) /\ Len(Tail(s)) < Len(s)
         /\ ToSet(s) = {Head(s)} \cup ToSet(Tail(s))
<1> DEFINE u == Tail(s)
<1>1. /\ u \in Seq(T) /\ Len(s) \in Nat /\ Len(s) > 0 /\ DOMAIN s = 1 .. Len(s)
      /\ DOMAIN u = 1 .. Len(s) - 1 /\ Len(u) = Len(s) - 1
      /\ \A i \in 1 .. Len(s) - 1 : u[i] = s[i + 1]
      /\ Head(s) = s[1] /\ s[1] \in T
  OBVIOUS
<1> HIDE DEF u
<1>2. ToSet(s) = {s[1]} \cup ToSet(u)
  <2>1. ToSet(s) \subseteq {s[1]} \cup ToSet(u)
    <3>1. ASSUME NEW i \in 1 .. Len(s), i # 1 PROVE s[i] \in ToSet(u)
      <4>1. i - 1 \in 1 .. Len(s) - 1 /\ (i - 1) + 1 = i
        BY <3>1, <1>1
      <4>2. u[i - 1] = s[i]
        BY <4>1, <1>1
      <4> QED
        BY <4>1, <4>2, <1>1 DEF ToSet
    <3> QED
      BY <3>1, <1>1 DEF ToSet
  <2>2. ToSet(u) \subseteq ToSet(s)
    <3>1. ASSUME NEW i \in 1 .. Len(s) - 1 PROVE u[i] \in ToSet(s)
      BY <1>1 DEF ToSet
    <3> QED
      BY <3>1, <1>1 DEF ToSet
  <2>3. s[1] \in ToSet(s)
    BY <1>1 DEF ToSet
  <2> QED
    BY <2>1, <2>2, <2>3
<1> QED
  BY <1>1, <1>2 DEF u
=============================================================================
