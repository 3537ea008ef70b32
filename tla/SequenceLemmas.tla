--------------------------- MODULE SequenceLemmas ---------------------------
(***************************************************************************)
(* What FlattenSeq makes of a sequence of sequences, whatever they hold.   *)
(* It is a recursive function, so these facts need induction: that < is    *)
(* well-founded gives it for a set of natural numbers.                     *)
(***************************************************************************)
EXTENDS SequencesExt, SequenceTheorems, WellFoundedInduction, TLAPS

\* Induction, for a set: < is well-founded.
LessThan == { p \in Nat \X Nat : p[1] < p[2] }

LEMMA SetInduction ==
  ASSUME NEW S, 0 \in S, \A i \in Nat : i \in S => i + 1 \in S
  PROVE  \A i \in Nat : i \in S
<1> DEFINE T == { i \in Nat : i \notin S }
<1>1. IsWellFoundedOn(LessThan, Nat)
  BY NatLessThanWellFounded DEF OpToRel, LessThan
<1>2. ASSUME T # {}  PROVE FALSE
  <2>1. PICK k \in T : \A s \in T : <<s, k>> \notin LessThan
    BY <1>1, <1>2, WFMin
  <2>2. k \in Nat /\ k # 0
    BY <2>1
  <2>3. k - 1 \in Nat /\ (k - 1) + 1 = k /\ k - 1 < k
    BY <2>2
  <2>4. k - 1 \notin T
    BY <2>1, <2>2, <2>3 DEF LessThan
  <2>. QED BY <2>1, <2>3, <2>4
<1>. QED BY <1>2

\* FlattenSeq, step by step: f[i] is what the first i sequences of s make.
Steps(s, f, n) == f[0] = <<>> /\ \A i \in 1..n : f[i] = f[i - 1] \o s[i]
Flattens(X, s, f) == f \in [0..Len(s) -> Seq(X)] /\ Steps(s, f, Len(s))

LEMMA FlattenExists ==
  ASSUME NEW X, NEW s \in Seq(Seq(X))
  PROVE  \E f : Flattens(X, s, f)
<1> DEFINE Upto(n, f) == /\ f \in [0..n -> Seq(X)]
                         /\ f[0] = <<>>
                         /\ \A i \in 1..n : f[i] = f[i - 1] \o s[i]
           S == { n \in Nat : n <= Len(s) => \E f : Upto(n, f) }
<1>0. Len(s) \in Nat /\ \A i \in 1..Len(s) : s[i] \in Seq(X)
  OBVIOUS
<1>1. 0 \in S
  <2>1. Upto(0, [i \in 0..0 |-> <<>>])
    OBVIOUS
  <2> HIDE DEF Upto
  <2>. QED BY <2>1
<1>2. ASSUME NEW n \in Nat, n \in S  PROVE n + 1 \in S
  <2>1. CASE ~(n + 1 <= Len(s))
    <3> HIDE DEF Upto
    <3>. QED BY <2>1
  <2>2. CASE n + 1 <= Len(s)
    <3>1. n <= Len(s) /\ n + 1 \in 1..Len(s)
      BY <1>0, <2>2
    <3>2. PICK f : Upto(n, f)
      BY <1>2, <3>1
    <3> DEFINE g == [i \in 0..(n + 1) |-> IF i <= n THEN f[i] ELSE f[n] \o s[n + 1]]
    <3>3. f[n] \in Seq(X) /\ s[n + 1] \in Seq(X)
      BY <1>0, <3>1, <3>2
    <3>4. f[n] \o s[n + 1] \in Seq(X)
      BY <3>3
    <3>5. g \in [0..(n + 1) -> Seq(X)]
      BY <3>2, <3>4
    <3>6. \A i \in 0..n : g[i] = f[i]
      OBVIOUS
    <3>7. g[n + 1] = f[n] \o s[n + 1]
      <4>1. n + 1 \in 0..(n + 1) /\ ~(n + 1 <= n)
        BY <1>2
      <4>. QED BY <4>1
    <3> HIDE DEF g
    <3>8. \A i \in 1..(n + 1) : g[i] = g[i - 1] \o s[i]
      <4>1. ASSUME NEW i \in 1..(n + 1)  PROVE g[i] = g[i - 1] \o s[i]
        <5>1. CASE i = n + 1
          <6>1. i - 1 = n /\ n \in 0..n
            BY <5>1
          <6>. QED BY <3>6, <3>7, <5>1, <6>1
        <5>2. CASE i # n + 1
          <6>1. i - 1 \in 0..n /\ i \in 0..n /\ i \in 1..n
            BY <5>2
          <6>. QED BY <3>2, <3>6, <6>1
        <5>. QED BY <5>1, <5>2
      <4>. QED BY <4>1
    <3>9. Upto(n + 1, g)
      <4>1. 0 \in 0..n /\ f[0] = <<>>
        BY <3>2
      <4>. QED BY <3>5, <3>6, <3>8, <4>1
    <3> HIDE DEF Upto
    <3>. QED BY <3>9
  <2>. QED BY <2>1, <2>2
<1> HIDE DEF S
<1>3. Len(s) \in S
  BY <1>0, <1>1, <1>2, SetInduction
<1> HIDE DEF Upto
<1>4. PICK f : Upto(Len(s), f)
  BY <1>0, <1>3 DEF S
<1>. QED BY <1>4 DEF Upto, Flattens, Steps

\* The steps determine it.
Agree(s, t, n) == \A i \in 1..n : s[i] = t[i]

LEMMA FlattenUnique ==
  ASSUME NEW s, NEW t, NEW n \in Nat, Agree(s, t, n),
         NEW f, NEW g, Steps(s, f, n), Steps(t, g, n)
  PROVE  \A i \in 0..n : f[i] = g[i]
<1> DEFINE S == { i \in Nat : i <= n => f[i] = g[i] }
<1>0. /\ f[0] = <<>> /\ \A i \in 1..n : f[i] = f[i - 1] \o s[i]
      /\ g[0] = <<>> /\ \A i \in 1..n : g[i] = g[i - 1] \o t[i]
  BY DEF Steps
<1>1. 0 \in S
  BY <1>0
<1>2. ASSUME NEW i \in Nat, i \in S  PROVE i + 1 \in S
  <2>1. ASSUME i + 1 <= n  PROVE f[i + 1] = g[i + 1]
    <3>1. i + 1 \in 1..n /\ (i + 1) - 1 = i /\ i <= n
      BY <2>1
    <3>2. f[i + 1] = f[i] \o s[i + 1] /\ g[i + 1] = g[i] \o t[i + 1]
      BY <1>0, <3>1
    <3>3. s[i + 1] = t[i + 1]
      BY <3>1 DEF Agree
    <3>. QED BY <1>2, <3>1, <3>2, <3>3
  <2>. QED BY <2>1
<1> HIDE DEF S
<1>3. \A i \in Nat : i \in S
  BY <1>1, <1>2, SetInduction
<1>. QED BY <1>3 DEF S

LEMMA FlattenIs ==
  ASSUME NEW X, NEW s \in Seq(Seq(X)), NEW f, Flattens(X, s, f)
  PROVE  FlattenSeq(s) = f[Len(s)]
<1> DEFINE R(g) == g = [i \in 1..Len(s) |->
                          IF i = 1 THEN s[i] ELSE g[i - 1] \o s[i]]
           h == [i \in 1..Len(s) |-> f[i]]
<1>0. Len(s) \in Nat /\ \A i \in 1..Len(s) : s[i] \in Seq(X)
  OBVIOUS
<1>1. CASE Len(s) = 0
  BY <1>1 DEF FlattenSeq, Flattens, Steps
<1>2. CASE Len(s) # 0
  <2>1. FlattenSeq(s) = (CHOOSE g : R(g))[Len(s)]
    BY <1>2 DEF FlattenSeq
  <2>2. \A i \in 1..Len(s) :
          h[i] = IF i = 1 THEN s[i] ELSE h[i - 1] \o s[i]
    <3>1. ASSUME NEW i \in 1..Len(s)
          PROVE  h[i] = IF i = 1 THEN s[i] ELSE h[i - 1] \o s[i]
      <4>1. CASE i = 1
        <5>1. f[1] = <<>> \o s[1] /\ s[1] \in Seq(X)
          <6>1. 1 \in 1..Len(s) /\ 1 - 1 = 0
            BY <4>1
          <6>. QED BY <1>0, <6>1 DEF Flattens, Steps
        <5>2. <<>> \o s[1] = s[1]
          BY <5>1, ConcatEmptySeq
        <5>. QED BY <4>1, <5>1, <5>2
      <4>2. CASE i # 1
        <5>1. i - 1 \in 1..Len(s)
          BY <1>0, <4>2
        <5>2. h[i - 1] = f[i - 1] /\ h[i] = f[i]
          BY <5>1
        <5>3. f[i] = f[i - 1] \o s[i]
          BY DEF Flattens, Steps
        <5>. QED BY <4>2, <5>2, <5>3
      <4>. QED BY <4>1, <4>2
    <3>. QED BY <3>1
  <2>3. R(h)
    BY <2>2
  <2>4. PICK g : R(g) /\ FlattenSeq(s) = g[Len(s)]
    BY <2>1, <2>3
  <2> DEFINE e == [i \in 0..Len(s) |-> IF i = 0 THEN <<>> ELSE g[i]]
  <2>5. e[0] = <<>> /\ \A i \in 1..Len(s) : e[i] = g[i]
    BY <1>0
  <2>6. \A i \in 1..Len(s) : g[i] = IF i = 1 THEN s[i] ELSE g[i - 1] \o s[i]
    BY <2>4
  <2> HIDE DEF e, R, h
  <2>7. \A i \in 1..Len(s) : e[i] = e[i - 1] \o s[i]
    <3>1. ASSUME NEW i \in 1..Len(s)  PROVE e[i] = e[i - 1] \o s[i]
      <4>1. CASE i = 1
        <5>1. s[1] \in Seq(X) /\ <<>> \o s[1] = s[1]
          BY <1>0, <4>1
        <5>2. i - 1 = 0
          BY <4>1
        <5>. QED BY <2>5, <2>6, <4>1, <5>1, <5>2
      <4>2. CASE i # 1
        <5>1. i - 1 \in 1..Len(s)
          BY <1>0, <4>2
        <5>. QED BY <2>5, <2>6, <4>2, <5>1
      <4>. QED BY <4>1, <4>2
    <3>. QED BY <3>1
  <2>8. \A i \in 0..Len(s) : f[i] = e[i]
    <3>1. Steps(s, f, Len(s)) /\ Steps(s, e, Len(s))
      BY <2>5, <2>7 DEF Flattens, Steps
    <3>2. Agree(s, s, Len(s))
      BY DEF Agree
    <3>. QED BY <1>0, <3>1, <3>2, FlattenUnique
  <2>. QED BY <1>0, <1>2, <2>4, <2>5, <2>8
<1>. QED BY <1>1, <1>2

LEMMA FlattenSeqType ==
  ASSUME NEW X
  PROVE  /\ FlattenSeq(<<>>) = <<>>
         /\ \A s \in Seq(Seq(X)) : FlattenSeq(s) \in Seq(X)
<1>1. FlattenSeq(<<>>) = <<>>
  BY DEF FlattenSeq
<1>2. ASSUME NEW s \in Seq(Seq(X))  PROVE FlattenSeq(s) \in Seq(X)
  <2>1. PICK f : Flattens(X, s, f)
    BY FlattenExists
  <2>2. FlattenSeq(s) = f[Len(s)]
    BY <2>1, FlattenIs
  <2>3. Len(s) \in 0..Len(s)
    OBVIOUS
  <2>. QED BY <2>1, <2>2, <2>3 DEF Flattens
<1>. QED BY <1>1, <1>2

\* A sequence behind the others.
LEMMA FlattenSeqAppend ==
  ASSUME NEW X, NEW s \in Seq(Seq(X)), NEW x \in Seq(X)
  PROVE  FlattenSeq(Append(s, x)) = FlattenSeq(s) \o x
<1> DEFINE t == Append(s, x)
           n == Len(s)
<1>1. /\ t \in Seq(Seq(X)) /\ n \in Nat /\ Len(t) = n + 1
      /\ \A i \in 1..n : t[i] = s[i]
      /\ t[n + 1] = x
  OBVIOUS
<1>2. PICK f : Flattens(X, s, f)
  BY FlattenExists
<1> HIDE DEF t
<1>3. PICK g : Flattens(X, t, g)
  BY <1>1, FlattenExists
<1>4. FlattenSeq(s) = f[n] /\ FlattenSeq(t) = g[n + 1]
  BY <1>1, <1>2, <1>3, FlattenIs
<1> HIDE DEF n
<1>5. Steps(s, f, n) /\ Steps(t, g, n)
  <2>1. Steps(s, f, n)
    BY <1>2 DEF Flattens, n
  <2>2. g[0] = <<>> /\ \A i \in 1..(n + 1) : g[i] = g[i - 1] \o t[i]
    BY <1>1, <1>3 DEF Flattens, Steps
  <2>3. \A i \in 1..n : i \in 1..(n + 1)
    BY <1>1
  <2>4. Steps(t, g, n)
    BY <2>2, <2>3 DEF Steps
  <2>. QED BY <2>1, <2>4
<1>6. f[n] = g[n]
  <2>1. Agree(s, t, n)
    BY <1>1 DEF Agree
  <2>2. \A i \in 0..n : f[i] = g[i]
    BY <1>1, <1>5, <2>1, FlattenUnique
  <2>3. n \in 0..n
    BY <1>1
  <2>. QED BY <2>2, <2>3
<1>7. g[n + 1] = g[n] \o x
  <2>1. n + 1 \in 1..Len(t) /\ (n + 1) - 1 = n
    BY <1>1
  <2>. QED BY <1>1, <1>3, <2>1 DEF Flattens, Steps
<1>. QED BY <1>4, <1>6, <1>7 DEF t

\* One sequence, and one before the others.
LEMMA FlattenSeqOne ==
  ASSUME NEW X, NEW x \in Seq(X)
  PROVE  FlattenSeq(<<x>>) = x
<1>1. <<x>> = Append(<<>>, x) /\ <<>> \in Seq(Seq(X)) /\ <<>> \o x = x
  OBVIOUS
<1>. QED BY <1>1, FlattenSeqAppend, FlattenSeqType

LEMMA FlattenSeqCons ==
  ASSUME NEW X, NEW s \in Seq(Seq(X)), NEW x \in Seq(X)
  PROVE  FlattenSeq(<<x>> \o s) = x \o FlattenSeq(s)
<1> DEFINE t == <<x>> \o s
           n == Len(s)
<1>1. /\ t \in Seq(Seq(X)) /\ n \in Nat /\ Len(t) = n + 1 /\ t[1] = x
      /\ \A i \in 1..n : t[i + 1] = s[i] /\ s[i] \in Seq(X)
  OBVIOUS
<1>2. PICK f : Flattens(X, s, f)
  BY FlattenExists
<1> HIDE DEF t
<1>3. PICK g : Flattens(X, t, g)
  BY <1>1, FlattenExists
<1>4. FlattenSeq(s) = f[n] /\ FlattenSeq(t) = g[n + 1]
  BY <1>1, <1>2, <1>3, FlattenIs
<1>5. /\ f[0] = <<>> /\ \A i \in 1..n : f[i] = f[i - 1] \o s[i]
      /\ \A i \in 0..n : f[i] \in Seq(X)
      /\ g[0] = <<>> /\ \A i \in 1..(n + 1) : g[i] = g[i - 1] \o t[i]
  BY <1>1, <1>2, <1>3 DEF Flattens, Steps
<1> HIDE DEF n
<1> DEFINE S == { i \in Nat : i <= n => g[i + 1] = x \o f[i] }
<1>6. 0 \in S
  <2>1. 1 \in 1..(n + 1) /\ 1 - 1 = 0 /\ 0 + 1 = 1
    BY <1>1
  <2>2. g[1] = <<>> \o x
    BY <1>1, <1>5, <2>1
  <2>3. <<>> \o x = x \o <<>>
    OBVIOUS
  <2>. QED BY <1>5, <2>1, <2>2, <2>3
<1>7. ASSUME NEW i \in Nat, i \in S  PROVE i + 1 \in S
  <2>1. ASSUME i + 1 <= n  PROVE g[(i + 1) + 1] = x \o f[i + 1]
    <3>1. /\ i + 1 \in 1..n /\ (i + 1) - 1 = i /\ i <= n /\ i \in 0..n
          /\ (i + 1) + 1 \in 1..(n + 1) /\ ((i + 1) + 1) - 1 = i + 1
      BY <1>1, <2>1
    <3>2. g[(i + 1) + 1] = g[i + 1] \o t[(i + 1) + 1]
      BY <1>5, <3>1
    <3>3. t[(i + 1) + 1] = s[i + 1] /\ s[i + 1] \in Seq(X)
      BY <1>1, <3>1
    <3>4. g[i + 1] = x \o f[i] /\ f[i] \in Seq(X)
      BY <1>5, <1>7, <3>1
    <3>5. f[i + 1] = f[i] \o s[i + 1]
      BY <1>5, <3>1
    <3>6. (x \o f[i]) \o s[i + 1] = x \o (f[i] \o s[i + 1])
      <4> DEFINE a == f[i]
                 b == s[i + 1]
      <4>1. a \in Seq(X) /\ b \in Seq(X)
        BY <3>3, <3>4
      <4> HIDE DEF a, b
      <4>2. (x \o a) \o b = x \o (a \o b)
        BY <4>1, ConcatAssociative
      <4>. QED BY <4>2 DEF a, b
    <3>. QED BY <3>2, <3>3, <3>4, <3>5, <3>6
  <2>. QED BY <2>1
<1> HIDE DEF S
<1>8. n \in S
  BY <1>1, <1>6, <1>7, SetInduction
<1>9. g[n + 1] = x \o f[n]
  BY <1>1, <1>8 DEF S
<1>. QED BY <1>4, <1>9 DEF t

\* b begins with a.
Begins(b, a) == Len(a) <= Len(b) /\ \A i \in 1..Len(a) : b[i] = a[i]

\* x lies in all where f[k - 1] ends, and f[k] ends where x does.
IsPart(all, f, k, x) ==
  /\ Len(f[k]) = Len(f[k - 1]) + Len(x)
  /\ \A i \in 1..Len(x) : all[Len(f[k - 1]) + i] = x[i]

\* Where the sequences lie that a sequence is made of.
LEMMA FlattenSeqParts ==
  ASSUME NEW X, NEW s \in Seq(Seq(X)), NEW f, Flattens(X, s, f)
  PROVE  /\ Len(f[0]) = 0
         /\ \A k \in 0..Len(s) : /\ Len(f[k]) \in Nat
                                 /\ Len(f[k]) <= Len(FlattenSeq(s))
         /\ \A k \in 1..Len(s) : IsPart(FlattenSeq(s), f, k, s[k])
<1> DEFINE n == Len(s)
<1>1. /\ n \in Nat /\ f[0] = <<>>
      /\ \A k \in 0..n : f[k] \in Seq(X)
      /\ \A k \in 1..n : f[k] = f[k - 1] \o s[k] /\ s[k] \in Seq(X)
  BY DEF Flattens, Steps
<1> HIDE DEF n
<1>2. ASSUME NEW k \in 1..n
      PROVE  /\ Len(f[k]) = Len(f[k - 1]) + Len(s[k])
             /\ \A i \in 1..Len(s[k]) : f[k][Len(f[k - 1]) + i] = s[k][i]
             /\ Begins(f[k], f[k - 1])
  <2> DEFINE a == f[k - 1]
             b == s[k]
             c == f[k]
  <2>1. a \in Seq(X) /\ b \in Seq(X) /\ c = a \o b
    <3>1. k - 1 \in 0..n /\ k \in 0..n
      BY <1>1
    <3>. QED BY <1>1, <3>1
  <2> HIDE DEF a, b, c
  <2>2. /\ Len(a) \in Nat /\ Len(b) \in Nat /\ Len(c) = Len(a) + Len(b)
        /\ \A i \in 1..(Len(a) + Len(b)) :
             c[i] = IF i <= Len(a) THEN a[i] ELSE b[i - Len(a)]
    BY <2>1, ConcatProperties
  <2>3. \A i \in 1..Len(b) : c[Len(a) + i] = b[i]
    <3>1. ASSUME NEW i \in 1..Len(b)  PROVE c[Len(a) + i] = b[i]
      <4>1. /\ Len(a) + i \in 1..(Len(a) + Len(b)) /\ ~(Len(a) + i <= Len(a))
            /\ (Len(a) + i) - Len(a) = i
        BY <2>2
      <4>. QED BY <2>2, <4>1
    <3>. QED BY <3>1
  <2>4. Begins(c, a)
    <3>1. \A i \in 1..Len(a) : i \in 1..(Len(a) + Len(b)) /\ i <= Len(a)
      BY <2>2
    <3>. QED BY <2>2, <3>1 DEF Begins
  <2>. QED BY <2>2, <2>3, <2>4 DEF a, b, c
<1>3. ASSUME NEW k \in 0..n  PROVE Begins(f[n], f[k])
  <2> DEFINE S == { j \in Nat : k + j <= n => Begins(f[k + j], f[k]) }
  <2>1. 0 \in S
    BY <1>1 DEF Begins
  <2>2. ASSUME NEW j \in Nat, j \in S  PROVE j + 1 \in S
    <3>1. ASSUME k + (j + 1) <= n  PROVE Begins(f[k + (j + 1)], f[k])
      <4>1. /\ k + (j + 1) \in 1..n /\ (k + (j + 1)) - 1 = k + j
            /\ k + j \in 0..n
        BY <1>1, <3>1
      <4> DEFINE a == f[k]
                 b == f[k + j]
                 c == f[k + (j + 1)]
      <4>2. Begins(b, a) /\ Begins(c, b)
        <5>1. Begins(f[k + j], f[k])
          BY <1>1, <2>2, <4>1
        <5>2. Begins(f[k + (j + 1)], f[(k + (j + 1)) - 1])
          BY <1>2, <4>1
        <5>. QED BY <4>1, <5>1, <5>2
      <4>3. a \in Seq(X) /\ b \in Seq(X) /\ c \in Seq(X)
        BY <1>1, <3>1, <4>1
      <4> HIDE DEF a, b, c
      <4>4. Begins(c, a)
        BY <4>2, <4>3 DEF Begins
      <4>. QED BY <4>4 DEF a, b, c
    <3>. QED BY <3>1
  <2> HIDE DEF S
  <2>3. \A j \in Nat : j \in S
    BY <2>1, <2>2, SetInduction
  <2>4. PICK j \in Nat : k + j = n
    <3>1. n - k \in Nat /\ k + (n - k) = n
      BY <1>1
    <3>. QED BY <3>1
  <2>5. k + j <= n => Begins(f[k + j], f[k])
    BY <2>3 DEF S
  <2>6. k + j <= n
    BY <1>1, <2>4
  <2>. QED BY <2>4, <2>5, <2>6
<1>4. FlattenSeq(s) = f[n]
  BY FlattenIs DEF n
<1>5. \A k \in 0..n : Len(f[k]) \in Nat /\ Len(f[k]) <= Len(f[n])
  BY <1>1, <1>3 DEF Begins
<1>6. ASSUME NEW k \in 1..n, NEW i \in 1..Len(s[k])
      PROVE  f[n][Len(f[k - 1]) + i] = s[k][i]
  <2>1. k \in 0..n /\ k - 1 \in 0..n
    BY <1>1
  <2>2. Len(f[k - 1]) + i \in 1..Len(f[k])
    <3>1. Len(f[k - 1]) \in Nat /\ Len(s[k]) \in Nat
      BY <1>1, <1>5, <2>1
    <3>2. Len(f[k]) = Len(f[k - 1]) + Len(s[k])
      BY <1>2
    <3> DEFINE p == Len(f[k - 1])
               q == Len(s[k])
               r == Len(f[k])
    <3>3. p \in Nat /\ q \in Nat /\ r = p + q /\ i \in 1..q
      BY <3>1, <3>2
    <3> HIDE DEF p, q, r
    <3>4. p + i \in 1..r
      BY <3>3
    <3>. QED BY <3>4 DEF p, q, r
  <2>3. f[n][Len(f[k - 1]) + i] = f[k][Len(f[k - 1]) + i]
    BY <1>3, <2>1, <2>2 DEF Begins
  <2>. QED BY <1>2, <2>3
<1>7. Len(f[0]) = 0
  BY <1>1
<1>8. \A k \in 1..n : IsPart(FlattenSeq(s), f, k, s[k])
  BY <1>2, <1>4, <1>6 DEF IsPart
<1>. QED BY <1>4, <1>5, <1>7, <1>8 DEF n
==============================================================================
