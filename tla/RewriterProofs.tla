--------------------------- MODULE RewriterProofs ---------------------------
(***************************************************************************)
(* What RequestRewriter does to a stream, for every stream of requests,    *)
(* every way to cut it into pieces and every limit.                        *)
(***************************************************************************)
EXTENDS Rewriter, FiniteSetTheorems, WellFoundedInduction, TLAPS

(* Every lemma assumes ConstantsOK; only the leaves that name it look into *)
(* it.                                                                     *)
HIDE DEF ConstantsOK

(* Induction on the natural numbers, for a set instead of a predicate: a   *)
(* number outside of T would have a least one below it.                    *)
LEMMA NatSet ==
  ASSUME NEW T, 0 \in T, \A n \in Nat : n \in T => n + 1 \in T
  PROVE  Nat \subseteq T
<1> DEFINE R == OpToRel(<, Nat)
<1>1. IsWellFoundedOn(R, Nat)  BY NatLessThanWellFounded
<1>2. \A x, y \in Nat : y < x => <<y, x>> \in R  BY DEF OpToRel
<1> HIDE DEF R
<1> DEFINE U == Nat \ T
<1>3. SUFFICES ASSUME U # {} PROVE FALSE  OBVIOUS
<1>4. PICK x \in U : \A y \in U : ~ (<<y, x>> \in R)
  <2>1. U \subseteq Nat OBVIOUS
  <2> HIDE DEF U
  <2> QED BY <1>1, <1>3, <2>1, WFMin
<1>5. x \in Nat /\ x # 0 /\ x - 1 \in Nat /\ x - 1 < x /\ (x - 1) + 1 = x  OBVIOUS
<1>6. x - 1 \in U  BY <1>5
<1> QED BY <1>2, <1>4, <1>5, <1>6

(* A function that gives each number its value from the one before exists. *)
Steps(g, N, St, a, F) ==
  g \in [0..N -> St] /\ g[0] = a /\ \A n \in 1..N : g[n] = F[<<n, g[n - 1]>>]

LEMMA StepFunction ==
  ASSUME NEW N \in Nat, NEW St, NEW a \in St, NEW F \in [(1..N) \X St -> St]
  PROVE  \E g : Steps(g, N, St, a, F)
<1> DEFINE Good(m, g) ==
      g[0] = a /\ \A n \in 1..m : g[n] = F[<<n, g[n - 1]>>]
    T == {m \in Nat : m <= N => \E g \in [0..m -> St] : Good(m, g)}
<1>1. 0 \in T
  <2> DEFINE g == [n \in 0..0 |-> a]
  <2>1. g \in [0..0 -> St]  OBVIOUS
  <2>2. Good(0, g)  OBVIOUS
  <2> QED BY <2>1, <2>2
<1>2. ASSUME NEW m \in Nat, m \in T PROVE m + 1 \in T
  <2>1. SUFFICES ASSUME m + 1 <= N PROVE \E g \in [0..(m + 1) -> St] : Good(m + 1, g)
    OBVIOUS
  <2>2. PICK f \in [0..m -> St] : Good(m, f)  BY <1>2, <2>1
  <2> DEFINE g == [n \in 0..(m + 1) |-> IF n = m + 1 THEN F[<<m + 1, f[m]>>] ELSE f[n]]
  <2>3. m + 1 \in 1..N /\ f[m] \in St  BY <2>1
  <2>4. F[<<m + 1, f[m]>>] \in St  BY <2>3
  <2>5. g \in [0..(m + 1) -> St]
    <3>1. ASSUME NEW n \in 0..(m + 1) PROVE (IF n = m + 1 THEN F[<<m + 1, f[m]>>] ELSE f[n]) \in St
      <4>1. CASE n = m + 1  BY <2>4, <4>1
      <4>2. CASE n # m + 1  BY <4>2
      <4> QED BY <4>1, <4>2
    <3> QED BY <3>1
  <2>6. Good(m + 1, g)
    <3>1. g[0] = a  BY <2>2
    <3>2. ASSUME NEW n \in 1..(m + 1) PROVE g[n] = F[<<n, g[n - 1]>>]
      <4>1. CASE n = m + 1
        <5>1. g[n] = F[<<m + 1, f[m]>>] /\ n - 1 = m /\ m \in 0..(m + 1) /\ m # m + 1  BY <4>1
        <5>2. g[m] = f[m]  BY <5>1
        <5> QED BY <4>1, <5>1, <5>2
      <4>2. CASE n # m + 1
        <5>1. n \in 1..m /\ n \in 0..(m + 1) /\ n - 1 \in 0..(m + 1) /\ n - 1 # m + 1  BY <4>2
        <5>2. g[n] = f[n] /\ g[n - 1] = f[n - 1]  BY <4>2, <5>1
        <5> QED BY <2>2, <5>1, <5>2
      <4> QED BY <4>1, <4>2
    <3> QED BY <3>1, <3>2
  <2> QED BY <2>5, <2>6
<1>3. N \in T  BY <1>1, <1>2, NatSet
<1> QED BY <1>3 DEF Steps

-----------------------------------------------------------------------------
(* Sequences of lines.                                                     *)

LEMMA SeqEqual ==
  ASSUME NEW s \in Seq(Lines), NEW t \in Seq(Lines), Len(s) = Len(t),
         \A i \in 1..Len(s) : s[i] = t[i]
  PROVE  s = t
OBVIOUS

LEMMA Concatenation ==
  ASSUME NEW s \in Seq(Lines), NEW t \in Seq(Lines)
  PROVE  /\ s \o t \in Seq(Lines) /\ Len(s \o t) = Len(s) + Len(t)
         /\ \A k \in 1..Len(s) : (s \o t)[k] = s[k]
         /\ \A k \in 1..Len(t) : (s \o t)[Len(s) + k] = t[k]
OBVIOUS

LEMMA ConcatIndex ==
  ASSUME NEW s \in Seq(Lines), NEW t \in Seq(Lines), NEW i \in 1..Len(s \o t)
  PROVE  (s \o t)[i] = IF i <= Len(s) THEN s[i] ELSE t[i - Len(s)]
OBVIOUS

LEMMA Associative ==
  ASSUME NEW s \in Seq(Lines), NEW t \in Seq(Lines), NEW u \in Seq(Lines)
  PROVE  (s \o t) \o u = s \o (t \o u)
OBVIOUS

LEMMA AppendConcat ==
  ASSUME NEW s \in Seq(Lines), NEW t \in Seq(Lines), NEW a \in Lines
  PROVE  /\ Append(s \o t, a) = s \o Append(t, a)
         /\ Append(s, a) = s \o <<a>> /\ <<a>> \in Seq(Lines)
BY SMTT(30)

LEMMA Neutral ==
  ASSUME NEW s \in Seq(Lines)
  PROVE  <<>> \in Seq(Lines) /\ Len(<<>>) = 0 /\ s \o <<>> = s /\ <<>> \o s = s
OBVIOUS

LEMMA Stretch ==
  ASSUME NEW s \in Seq(Lines), NEW m \in Nat, NEW n \in Nat, m <= n, n <= Len(s)
  PROVE  /\ SubSeq(s, m + 1, n) \in Seq(Lines)
         /\ Len(SubSeq(s, m + 1, n)) = n - m
         /\ \A i \in 1..(n - m) : SubSeq(s, m + 1, n)[i] = s[m + i]
OBVIOUS

LEMMA Cut ==
  ASSUME NEW s \in Seq(Lines), NEW l \in Nat, NEW m \in Nat, NEW n \in Nat,
         l <= m, m <= n, n <= Len(s)
  PROVE  SubSeq(s, l + 1, n) = SubSeq(s, l + 1, m) \o SubSeq(s, m + 1, n)
OBVIOUS

LEMMA Whole ==
  ASSUME NEW s \in Seq(Lines)
  PROVE  SubSeq(s, 1, Len(s)) = s
OBVIOUS

LEMMA CutInTwo ==
  ASSUME NEW s \in Seq(Lines), NEW m \in Nat, m <= Len(s)
  PROVE  s = SubSeq(s, 1, m) \o SubSeq(s, m + 1, Len(s))
<1> DEFINE x == SubSeq(s, 1, m)
           y == SubSeq(s, m + 1, Len(s))
<1>1. Len(s) \in Nat  OBVIOUS
<1>2. x \in Seq(Lines) /\ Len(x) = m /\ \A i \in 1..m : x[i] = s[i]
  <2>1. 0 + 1 = 1 /\ m - 0 = m /\ 0 <= m /\ \A i \in 1..m : 0 + i = i  OBVIOUS
  <2> QED BY <2>1, Stretch
<1>3. /\ y \in Seq(Lines) /\ Len(y) = Len(s) - m
      /\ \A i \in 1..(Len(s) - m) : y[i] = s[m + i]
  BY <1>1, Stretch
<1> HIDE DEF x, y
<1>4. x \o y \in Seq(Lines) /\ Len(x \o y) = Len(s)
  <2>1. x \o y \in Seq(Lines) /\ Len(x \o y) = Len(x) + Len(y)
    BY <1>2, <1>3, Concatenation
  <2>2. \A a, b \in Nat : b + (a - b) = a  OBVIOUS
  <2> QED BY <1>1, <1>2, <1>3, <2>1, <2>2
<1>5. \A i \in 1..Len(s) : s[i] = (x \o y)[i]
  <2> TAKE i \in 1..Len(s)
  <2>1. CASE i <= m
    <3>1. i \in 1..Len(x) /\ i \in 1..m  BY <1>1, <1>2, <2>1
    <3>2. (x \o y)[i] = x[i]  BY <1>2, <1>3, <3>1, Concatenation
    <3> QED BY <1>2, <3>1, <3>2
  <2>2. CASE ~ (i <= m)
    <3>1. i - m \in 1..(Len(s) - m) /\ m + (i - m) = i  BY <1>1, <2>2
    <3>2. (x \o y)[Len(x) + (i - m)] = y[i - m]  BY <1>2, <1>3, <3>1, Concatenation
    <3> QED BY <1>2, <1>3, <3>1, <3>2
  <2> QED BY <2>1, <2>2
<1>6. s = x \o y  BY <1>4, <1>5, SeqEqual
<1> QED BY <1>6 DEF x, y

LEMMA OneOrTwo ==
  ASSUME NEW a \in Lines, NEW b \in Lines
  PROVE  /\ <<a>> \in Seq(Lines) /\ Len(<<a>>) = 1 /\ <<a>>[1] = a
         /\ <<a, b>> \in Seq(Lines) /\ Len(<<a, b>>) = 2 /\ <<a, b>>[1] = a /\ <<a, b>>[2] = b
OBVIOUS

-----------------------------------------------------------------------------
(* Without keeps the other lines, one after the other.                     *)

WithoutSteps(lines, those, g) ==
  /\ g \in [0..Len(lines) -> Seq(Lines)]
  /\ g[0] = <<>>
  /\ \A n \in 1..Len(lines) :
       g[n] = IF lines[n] \in those THEN g[n - 1] ELSE Append(g[n - 1], lines[n])
  /\ Without(lines, those) = g[Len(lines)]

LEMMA WithoutRuns ==
  ASSUME NEW lines \in Seq(Lines), NEW those
  PROVE  \E g : WithoutSteps(lines, those, g)
<1> DEFINE N == Len(lines)
    S == Seq(Lines)
    Next1(n, r) == IF lines[n] \in those THEN r ELSE Append(r, lines[n])
    F == [x \in (1..N) \X S |-> Next1(x[1], x[2])]
    Def(g) == [n \in 0..N |-> IF n = 0 THEN <<>>
                 ELSE IF lines[n] \in those THEN g[n - 1] ELSE Append(g[n - 1], lines[n])]
<1>1. N \in Nat /\ \A n \in 1..N : lines[n] \in Lines  OBVIOUS
<1>2. <<>> \in S  OBVIOUS
<1>3. ASSUME NEW n \in 1..N, NEW r \in S PROVE Next1(n, r) \in S
  BY <1>1
<1>4. F \in [(1..N) \X S -> S]  BY <1>3
<1>5. PICK g : Steps(g, N, S, <<>>, F)
  <2> HIDE DEF F, N, S
  <2> QED BY <1>1, <1>2, <1>4, StepFunction
<1>6. g \in [0..N -> S] /\ g[0] = <<>> /\ \A n \in 1..N : g[n] = Next1(n, g[n - 1])
  <2>1. ASSUME NEW n \in 1..N PROVE g[n] = Next1(n, g[n - 1])
    <3>1. n - 1 \in 0..N  BY <1>1
    <3> HIDE DEF N, S
    <3>2. <<n, g[n - 1]>> \in (1..N) \X S  BY <1>5, <3>1 DEF Steps
    <3>3. F[<<n, g[n - 1]>>] = Next1(n, g[n - 1])  BY <3>2
    <3> QED BY <1>5, <3>3 DEF Steps
  <2> HIDE DEF F, N, S, Next1
  <2> QED BY <1>5, <2>1 DEF Steps
<1>7. g = Def(g)
  <2>1. \A n \in 0..N : n = 0 \/ (n # 0 /\ n \in 1..N)  BY <1>1
  <2> HIDE DEF N, S
  <2>2. \A n \in 0..N : g[n] = IF n = 0 THEN <<>>
          ELSE IF lines[n] \in those THEN g[n - 1] ELSE Append(g[n - 1], lines[n])
    BY <1>6, <2>1
  <2> QED BY <1>6, <2>2
<1> DEFINE h == CHOOSE g0 : g0 = Def(g0)
<1>8. h = Def(h)
  <2> HIDE DEF Def
  <2> QED BY <1>7
<1>9. Without(lines, those) = h[N]  BY DEF Without
<1>10. /\ h[0] = <<>>
       /\ \A n \in 1..N : h[n] = Next1(n, h[n - 1])
       /\ h = [n \in 0..N |-> h[n]]
  <2>1. 0 \in 0..N /\ \A n \in 1..N : n \in 0..N /\ n # 0  BY <1>1
  <2> HIDE DEF h, N
  <2>2. h[0] = <<>>  BY <1>8, <2>1
  <2>3. \A n \in 1..N : h[n] = Next1(n, h[n - 1])  BY <1>8, <2>1
  <2>4. h = [n \in 0..N |-> h[n]]  BY <1>8
  <2> QED BY <2>2, <2>3, <2>4
<1> HIDE DEF h
<1>11. \A n \in 0..N : h[n] \in S
  <2> DEFINE T == {n \in Nat : n <= N => h[n] \in S}
  <2>1. 0 \in T  BY <1>2, <1>10
  <2>2. ASSUME NEW n \in Nat, n \in T PROVE n + 1 \in T
    <3>1. SUFFICES ASSUME n + 1 <= N PROVE h[n + 1] \in S  OBVIOUS
    <3>2. n + 1 \in 1..N /\ (n + 1) - 1 = n /\ n <= N  BY <1>1, <3>1
    <3>3. h[n] \in S  BY <2>2, <3>2
    <3> HIDE DEF N, S, Next1
    <3> QED BY <1>3, <1>10, <3>2, <3>3
  <2> HIDE DEF T
  <2>3. Nat \subseteq T  BY <2>1, <2>2, NatSet
  <2> QED BY <1>1, <2>3 DEF T
<1>12. h \in [0..N -> S]  BY <1>10, <1>11
<1> QED BY <1>9, <1>10, <1>12 DEF WithoutSteps

(* It goes through a sequence piece by piece.                              *)
LEMMA WithoutConcat ==
  ASSUME NEW s \in Seq(Lines), NEW t \in Seq(Lines), NEW those
  PROVE  Without(s \o t, those) = Without(s, those) \o Without(t, those)
<1> DEFINE u == s \o t
<1>1. PICK f : WithoutSteps(s, those, f)  BY WithoutRuns
<1>2. PICK g : WithoutSteps(t, those, g)  BY WithoutRuns
<1>3. /\ u \in Seq(Lines) /\ Len(u) = Len(s) + Len(t)
      /\ \A k \in 1..Len(s) : u[k] = s[k]
      /\ \A k \in 1..Len(t) : u[Len(s) + k] = t[k]
  BY Concatenation
<1>4. PICK h : WithoutSteps(u, those, h)  BY <1>3, WithoutRuns
<1> DEFINE M == Len(s)
           N == Len(t)
<1>5. M \in Nat /\ N \in Nat /\ Len(u) = M + N  BY <1>3
<1> HIDE DEF u, M, N
<1>6. /\ f \in [0..M -> Seq(Lines)] /\ f[0] = <<>>
      /\ \A n \in 1..M : f[n] = IF s[n] \in those THEN f[n - 1] ELSE Append(f[n - 1], s[n])
      /\ Without(s, those) = f[M]
  BY <1>1 DEF WithoutSteps, M
<1>7. /\ g \in [0..N -> Seq(Lines)] /\ g[0] = <<>>
      /\ \A n \in 1..N : g[n] = IF t[n] \in those THEN g[n - 1] ELSE Append(g[n - 1], t[n])
      /\ Without(t, those) = g[N]
  BY <1>2 DEF WithoutSteps, N
<1>8. /\ h[0] = <<>>
      /\ \A n \in 1..(M + N) : h[n] = IF u[n] \in those THEN h[n - 1] ELSE Append(h[n - 1], u[n])
      /\ Without(u, those) = h[M + N]
  BY <1>4, <1>5 DEF WithoutSteps
<1>9. h[M] = f[M]
  <2> DEFINE T == {n \in Nat : n <= M => h[n] = f[n]}
  <2>1. 0 \in T  BY <1>6, <1>8
  <2>2. ASSUME NEW n \in Nat, n \in T PROVE n + 1 \in T
    <3>1. SUFFICES ASSUME n + 1 <= M PROVE h[n + 1] = f[n + 1]  OBVIOUS
    <3>2. n + 1 \in 1..M /\ n + 1 \in 1..(M + N) /\ (n + 1) - 1 = n /\ n <= M  BY <1>5, <3>1
    <3>3. h[n] = f[n]  BY <2>2, <3>2
    <3>4. u[n + 1] = s[n + 1]  BY <1>3, <3>2 DEF M
    <3>5. h[n + 1] = IF u[n + 1] \in those THEN h[n] ELSE Append(h[n], u[n + 1])
      BY <1>8, <3>2
    <3>6. f[n + 1] = IF s[n + 1] \in those THEN f[n] ELSE Append(f[n], s[n + 1])
      BY <1>6, <3>2
    <3> QED BY <3>3, <3>4, <3>5, <3>6
  <2> HIDE DEF T
  <2>3. M \in T  BY <1>5, <2>1, <2>2, NatSet
  <2> QED BY <1>5, <2>3 DEF T
<1>10. h[M + N] = f[M] \o g[N]
  <2>1. f[M] \in Seq(Lines) /\ \A n \in 0..N : g[n] \in Seq(Lines)  BY <1>5, <1>6, <1>7
  <2> DEFINE Q(n) == h[M + n] = f[M] \o g[n]
             T == {n \in Nat : n <= N => Q(n)}
  <2>2. 0 \in T
    <3>1. M + 0 = M /\ f[M] \o <<>> = f[M]  BY <1>5, <2>1
    <3>2. Q(0)  BY <1>7, <1>9, <3>1
    <3> HIDE DEF Q
    <3> QED BY <3>2
  <2>3. ASSUME NEW n \in Nat, n \in T PROVE n + 1 \in T
    <3> HIDE DEF Q
    <3>1. SUFFICES ASSUME n + 1 <= N PROVE Q(n + 1)  OBVIOUS
    <3>2. /\ n + 1 \in 1..N /\ M + (n + 1) \in 1..(M + N) /\ (n + 1) - 1 = n
          /\ (M + (n + 1)) - 1 = M + n /\ n \in 0..N /\ n <= N
      BY <1>5, <3>1
    <3>3. Q(n)  BY <2>3, <3>2
    <3>4. u[M + (n + 1)] = t[n + 1] /\ t[n + 1] \in Lines  BY <1>3, <3>2 DEF M, N
    <3>5. h[M + (n + 1)] = IF u[M + (n + 1)] \in those THEN h[M + n]
                           ELSE Append(h[M + n], u[M + (n + 1)])
      BY <1>8, <3>2
    <3>6. g[n + 1] = IF t[n + 1] \in those THEN g[n] ELSE Append(g[n], t[n + 1])
      BY <1>7, <3>2
    <3>7. Append(f[M] \o g[n], t[n + 1]) = f[M] \o Append(g[n], t[n + 1])
      <4>1. f[M] \in Seq(Lines) /\ g[n] \in Seq(Lines)  BY <2>1, <3>2
      <4> QED BY <3>4, <4>1, AppendConcat
    <3> QED BY <3>3, <3>4, <3>5, <3>6, <3>7 DEF Q
  <2> HIDE DEF T
  <2>4. N \in T  BY <1>5, <2>2, <2>3, NatSet
  <2> HIDE DEF Q
  <2>5. Q(N)  BY <1>5, <2>4 DEF T
  <2> QED BY <2>5 DEF Q
<1> QED BY <1>6, <1>7, <1>8, <1>9, <1>10 DEF u

LEMMA WithoutType ==
  ASSUME NEW s \in Seq(Lines), NEW those
  PROVE  Without(s, those) \in Seq(Lines)
<1>1. PICK g : WithoutSteps(s, those, g)  BY WithoutRuns
<1>2. Len(s) \in 0..Len(s)  OBVIOUS
<1> QED BY <1>1, <1>2 DEF WithoutSteps

LEMMA WithoutFew ==
  ASSUME NEW a \in Lines, NEW those
  PROVE  /\ Without(<<>>, those) = <<>>
         /\ Without(<<a>>, those) = IF a \in those THEN <<>> ELSE <<a>>
<1>1. <<>> \in Seq(Lines) /\ Len(<<>>) = 0 /\ <<a>> \in Seq(Lines) /\ Len(<<a>>) = 1 /\ <<a>>[1] = a
  OBVIOUS
<1>2. PICK f : WithoutSteps(<<>>, those, f)  BY <1>1, WithoutRuns
<1>3. PICK g : WithoutSteps(<<a>>, those, g)  BY <1>1, WithoutRuns
<1>4. Without(<<>>, those) = <<>>  BY <1>1, <1>2 DEF WithoutSteps
<1>5. g[0] = <<>> /\ g[1] = IF a \in those THEN g[0] ELSE Append(g[0], a)
  <2>1. 1 \in 1..1 /\ 1 - 1 = 0  OBVIOUS
  <2> QED BY <1>1, <1>3, <2>1 DEF WithoutSteps
<1>6. Append(<<>>, a) = <<a>>  OBVIOUS
<1>7. Without(<<a>>, those) = g[1]  BY <1>1, <1>3 DEF WithoutSteps
<1> QED BY <1>4, <1>5, <1>6, <1>7

(* What is gone once is gone for a larger set as well.                     *)
LEMMA WithoutTwice ==
  ASSUME NEW s \in Seq(Lines), NEW some, NEW those, some \subseteq those
  PROVE  Without(Without(s, some), those) = Without(s, those)
<1>1. PICK f : WithoutSteps(s, some, f)  BY WithoutRuns
<1>2. PICK g : WithoutSteps(s, those, g)  BY WithoutRuns
<1> DEFINE N == Len(s)
           T == {n \in Nat : n <= N => Without(f[n], those) = g[n]}
<1>3. N \in Nat /\ \A n \in 1..N : s[n] \in Lines  OBVIOUS
<1>4. 0 \in T
  <2>1. Blank \in Lines  BY DEF Lines
  <2> QED BY <1>1, <1>2, <2>1, WithoutFew DEF WithoutSteps
<1>5. ASSUME NEW n \in Nat, n \in T PROVE n + 1 \in T
  <2>1. SUFFICES ASSUME n + 1 <= N PROVE Without(f[n + 1], those) = g[n + 1]  OBVIOUS
  <2>2. n + 1 \in 1..N /\ (n + 1) - 1 = n /\ n \in 0..N /\ n <= N  BY <1>3, <2>1
  <2> DEFINE a == s[n + 1]
  <2>3. Without(f[n], those) = g[n] /\ f[n] \in Seq(Lines) /\ g[n] \in Seq(Lines) /\ a \in Lines
    BY <1>1, <1>2, <1>3, <1>5, <2>2 DEF WithoutSteps
  <2>4. f[n + 1] = IF a \in some THEN f[n] ELSE Append(f[n], a)
    BY <1>1, <2>2 DEF WithoutSteps
  <2>5. g[n + 1] = IF a \in those THEN g[n] ELSE Append(g[n], a)
    BY <1>2, <2>2 DEF WithoutSteps
  <2> HIDE DEF N, a
  <2>6. CASE a \in some  BY <2>3, <2>4, <2>5, <2>6
  <2>7. CASE a \notin some
    <3>1. Append(f[n], a) = f[n] \o <<a>> /\ <<a>> \in Seq(Lines)
      BY <2>3, AppendConcat
    <3>2. Without(f[n] \o <<a>>, those) = g[n] \o Without(<<a>>, those)
      <4>1. \A x, y \in Seq(Lines) :
              Without(x \o y, those) = Without(x, those) \o Without(y, those)
        BY WithoutConcat
      <4> QED BY <2>3, <3>1, <4>1
    <3>3. g[n] \o <<>> = g[n] /\ g[n] \o <<a>> = Append(g[n], a)  BY <2>3
    <3> QED BY <2>3, <2>4, <2>5, <2>7, <3>1, <3>2, <3>3, WithoutFew
  <2> QED BY <2>6, <2>7
<1>6. N \in T
  <2> HIDE DEF T
  <2> QED BY <1>3, <1>4, <1>5, NatSet
<1> QED BY <1>1, <1>2, <1>3, <1>6 DEF WithoutSteps

(* It is empty if every line is to go, and ends with the last one to stay. *)
LEMMA WithoutLast ==
  ASSUME NEW s \in Seq(Lines), NEW those
  PROVE  \/ Without(s, those) = <<>> /\ \A i \in 1..Len(s) : s[i] \in those
         \/ \E i \in 1..Len(s) :
              /\ s[i] \notin those /\ \A j \in (i + 1)..Len(s) : s[j] \in those
              /\ Without(s, those) # <<>> /\ Last(Without(s, those)) = s[i]
<1>1. PICK g : WithoutSteps(s, those, g)  BY WithoutRuns
<1> DEFINE N == Len(s)
           End(n) == \/ g[n] = <<>> /\ \A i \in 1..n : s[i] \in those
                     \/ \E i \in 1..n :
                          /\ s[i] \notin those /\ \A j \in (i + 1)..n : s[j] \in those
                          /\ g[n] # <<>> /\ Last(g[n]) = s[i]
           T == {n \in Nat : n <= N => End(n)}
<1>2. N \in Nat /\ \A n \in 1..N : s[n] \in Lines  OBVIOUS
<1>3. 0 \in T  BY <1>1 DEF WithoutSteps
<1>4. ASSUME NEW n \in Nat, n \in T PROVE n + 1 \in T
  <2>1. SUFFICES ASSUME n + 1 <= N PROVE End(n + 1)  OBVIOUS
  <2>2. n + 1 \in 1..N /\ (n + 1) - 1 = n /\ n \in 0..N /\ n <= N  BY <1>2, <2>1
  <2> DEFINE a == s[n + 1]
  <2>3. End(n) /\ g[n] \in Seq(Lines) /\ a \in Lines
    <3>1. End(n)  BY <1>4, <2>2
    <3> HIDE DEF End
    <3> QED BY <1>1, <1>2, <2>2, <3>1 DEF WithoutSteps
  <2>4. g[n + 1] = IF a \in those THEN g[n] ELSE Append(g[n], a)
    BY <1>1, <2>2 DEF WithoutSteps
  <2>5. /\ n + 1 \in 1..(n + 1) /\ (n + 1 + 1)..(n + 1) = {}
        /\ \A i \in 1..(n + 1) : i \in 1..n \/ i = n + 1
        /\ \A i \in 1..n : i \in 1..(n + 1)
        /\ \A i \in 1..n : \A j \in (i + 1)..(n + 1) : j \in (i + 1)..n \/ j = n + 1
    OBVIOUS
  <2> HIDE DEF N
  <2>6. CASE a \in those
    <3>1. g[n + 1] = g[n]  BY <2>4, <2>6
    <3>2. CASE g[n] = <<>> /\ \A i \in 1..n : s[i] \in those
      BY <2>5, <2>6, <3>1, <3>2
    <3>3. CASE \E i \in 1..n :
                 /\ s[i] \notin those /\ \A j \in (i + 1)..n : s[j] \in those
                 /\ g[n] # <<>> /\ Last(g[n]) = s[i]
      BY <2>5, <2>6, <3>1, <3>3
    <3> QED BY <2>3, <3>2, <3>3
  <2>7. CASE a \notin those
    <3>1. g[n + 1] = Append(g[n], a)  BY <2>4, <2>7
    <3>2. Append(g[n], a) # <<>> /\ Last(Append(g[n], a)) = a  BY <2>3 DEF Last
    <3> QED BY <2>5, <2>7, <3>1, <3>2
  <2> QED BY <2>6, <2>7
<1>5. N \in T
  <2> HIDE DEF T
  <2> QED BY <1>2, <1>3, <1>4, NatSet
<1> QED BY <1>1, <1>2, <1>5 DEF WithoutSteps

-----------------------------------------------------------------------------
(* The least of some numbers, and a sequence of sequences laid end to end. *)

LEMMA MinIsLeast ==
  ASSUME NEW T \in SUBSET Nat, T # {}
  PROVE  Min(T) \in T /\ \A y \in T : Min(T) <= y
<1> DEFINE R == OpToRel(<, Nat)
<1>1. IsWellFoundedOn(R, Nat)  BY NatLessThanWellFounded
<1>2. \A x, y \in Nat : y < x => <<y, x>> \in R  BY DEF OpToRel
<1> HIDE DEF R
<1>3. PICK x \in T : \A y \in T : ~ (<<y, x>> \in R)  BY <1>1, WFMin
<1>4. \A y \in T : x <= y
  <2> TAKE y \in T
  <2>1. x \in Nat /\ y \in Nat /\ ~ (y < x)  BY <1>2, <1>3
  <2> QED BY <2>1
<1> QED BY <1>4 DEF Min

TailsOf(segs, g) ==
  /\ g \in [1..(Len(segs) + 1) -> Seq(Lines)]
  /\ g[Len(segs) + 1] = <<>>
  /\ \A k \in 1..Len(segs) : g[k] = segs[k] \o g[k + 1]
  /\ FlattenSeq(segs) = g[1]

LEMMA FlattenTails ==
  ASSUME NEW segs \in Seq(Seq(Lines))
  PROVE  \E g : TailsOf(segs, g)
<1> DEFINE N == Len(segs)
    S == Seq(Lines)
    F == [x \in (1..N) \X S |-> x[2] \o segs[x[1]]]
<1>1. N \in Nat /\ <<>> \in S /\ \A n \in 1..N : segs[n] \in S  OBVIOUS
<1>2. F \in [(1..N) \X S -> S]
  <2>1. \A x \in (1..N) \X S : x[2] \o segs[x[1]] \in S
    <3> TAKE x \in (1..N) \X S
    <3>1. x[2] \in S /\ segs[x[1]] \in S  BY <1>1
    <3> QED BY <3>1, Concatenation
  <2> QED BY <2>1
<1>3. PICK f : Steps(f, N, S, <<>>, F)
  <2> HIDE DEF F, N, S
  <2> QED BY <1>1, <1>2, StepFunction
<1>4. /\ f \in [0..N -> S] /\ f[0] = <<>>
      /\ \A n \in 1..N : f[n] = f[n - 1] \o segs[n]
  <2>1. ASSUME NEW n \in 1..N PROVE f[n] = f[n - 1] \o segs[n]
    <3>1. n - 1 \in 0..N  BY <1>1
    <3> HIDE DEF N, S
    <3>2. <<n, f[n - 1]>> \in (1..N) \X S  BY <1>3, <3>1 DEF Steps
    <3>3. F[<<n, f[n - 1]>>] = f[n - 1] \o segs[n]  BY <3>2
    <3> QED BY <1>3, <3>3 DEF Steps
  <2> HIDE DEF F, N, S
  <2> QED BY <1>3, <2>1 DEF Steps
<1>5. FlattenSeq(segs) = f[N]
  <2>1. CASE N = 0
    <3>1. FlattenSeq(segs) = <<>>  BY <2>1 DEF FlattenSeq
    <3> QED BY <1>4, <2>1, <3>1
  <2>2. CASE N # 0
    <3> DEFINE Def(g) == [i \in 1..N |-> IF i = 1 THEN segs[i] ELSE g[i - 1] \o segs[i]]
               h == CHOOSE g : g = Def(g)
               f1 == [n \in 1..N |-> f[n]]
    <3>1. f1 = Def(f1)
      <4>1. ASSUME NEW n \in 1..N
            PROVE  f[n] = IF n = 1 THEN segs[n] ELSE f1[n - 1] \o segs[n]
        <5>1. CASE n = 1
          <6>1. n - 1 = 0 /\ segs[n] \in S  BY <1>1, <5>1
          <6>2. <<>> \o segs[n] = segs[n]  BY <6>1, Neutral
          <6> QED BY <1>4, <5>1, <6>1, <6>2
        <5>2. CASE n # 1
          <6>1. n - 1 \in 1..N  BY <1>1, <5>2
          <6> QED BY <1>4, <5>2, <6>1
        <5> QED BY <5>1, <5>2
      <4> QED BY <4>1
    <3>2. h = Def(h)
      <4> HIDE DEF Def, f1
      <4> QED BY <3>1
    <3>3. FlattenSeq(segs) = h[N]  BY <2>2 DEF FlattenSeq
    <3> HIDE DEF h
    <3>4. \A n \in 1..N : h[n] = IF n = 1 THEN segs[n] ELSE h[n - 1] \o segs[n]
      <4> HIDE DEF N
      <4> QED BY <3>2
    <3> DEFINE T == {n \in Nat : n + 1 <= N => h[n + 1] = f[n + 1]}
    <3>5. 0 \in T
      <4>1. 1 \in 1..N  BY <1>1, <2>2
      <4>2. h[1] = segs[1] /\ f1[1] = segs[1] /\ f1[1] = f[1]
        <5>1. h[1] = segs[1]  BY <3>4, <4>1
        <5>2. f[1] = f[0] \o segs[1]
          <6>1. 1 - 1 = 0  OBVIOUS
          <6> QED BY <1>4, <4>1, <6>1
        <5>3. <<>> \o segs[1] = segs[1]  BY <1>1, <4>1, Neutral
        <5> QED BY <1>4, <4>1, <5>1, <5>2, <5>3
      <4>3. 0 + 1 = 1  OBVIOUS
      <4> QED BY <4>2, <4>3
    <3>6. ASSUME NEW n \in Nat, n \in T PROVE n + 1 \in T
      <4>1. SUFFICES ASSUME (n + 1) + 1 <= N PROVE h[(n + 1) + 1] = f[(n + 1) + 1]
        OBVIOUS
      <4> DEFINE m == (n + 1) + 1
      <4>2. m \in 1..N /\ m # 1 /\ m - 1 = n + 1 /\ n + 1 <= N  BY <1>1, <4>1
      <4>3. h[n + 1] = f[n + 1]  BY <3>6, <4>2
      <4> HIDE DEF m, N
      <4>4. h[m] = h[n + 1] \o segs[m] /\ f[m] = f[n + 1] \o segs[m]
        BY <1>4, <3>4, <4>2
      <4> QED BY <4>3, <4>4 DEF m
    <3>7. N - 1 \in T
      <4>1. N - 1 \in Nat  BY <1>1, <2>2
      <4> HIDE DEF T
      <4> QED BY <3>5, <3>6, <4>1, NatSet
    <3>8. N - 1 \in Nat /\ (N - 1) + 1 = N  BY <1>1, <2>2
    <3> QED BY <3>3, <3>7, <3>8
  <2> QED BY <2>1, <2>2
<1> HIDE DEF F
<1> DEFINE G(n, g) == /\ g \in [1..(n + 1) -> S]
                      /\ g[n + 1] = <<>>
                      /\ \A k \in 1..n : g[k] = segs[k] \o g[k + 1]
                      /\ f[n] = g[1]
           T == {n \in Nat : n <= N => \E g : G(n, g)}
<1>6. 0 \in T
  <2> DEFINE g == [n \in 1..1 |-> <<>>]
  <2>1. g \in [1..(0 + 1) -> S] /\ g[0 + 1] = <<>> /\ g[1] = <<>>  BY <1>1
  <2>2. G(0, g)  BY <1>4, <2>1
  <2> HIDE DEF G
  <2> QED BY <2>2
<1>7. ASSUME NEW n \in Nat, n \in T PROVE n + 1 \in T
  <2> HIDE DEF G
  <2>1. SUFFICES ASSUME n + 1 <= N PROVE \E g : G(n + 1, g)  OBVIOUS
  <2>2. n + 1 \in 1..N /\ n <= N /\ (n + 1) - 1 = n  BY <1>1, <2>1
  <2>3. PICK g : G(n, g)  BY <1>7, <2>2
  <2>4. /\ g \in [1..(n + 1) -> S] /\ g[n + 1] = <<>>
        /\ \A k \in 1..n : g[k] = segs[k] \o g[k + 1]
        /\ f[n] = g[1]
    BY <2>3 DEF G
  <2> DEFINE a == segs[n + 1]
             d == [k \in 1..((n + 1) + 1) |-> IF k = (n + 1) + 1 THEN <<>> ELSE g[k] \o a]
  <2>5. a \in S  BY <1>1, <2>2
  <2> HIDE DEF a
  <2>6. \A k \in 1..(n + 1) : g[k] \in S /\ g[k] \o a \in S /\ d[k] = g[k] \o a
    <3> TAKE k \in 1..(n + 1)
    <3>1. g[k] \in S  BY <2>4
    <3>2. k \in 1..((n + 1) + 1) /\ k # (n + 1) + 1  OBVIOUS
    <3> HIDE DEF S
    <3>3. d[k] = g[k] \o a  BY <3>2
    <3> QED BY <2>5, <3>1, <3>3, Concatenation DEF S
  <2>7. d[(n + 1) + 1] = <<>>  OBVIOUS
  <2>8. d \in [1..((n + 1) + 1) -> S]
    <3>1. \A k \in 1..((n + 1) + 1) : k = (n + 1) + 1 \/ k \in 1..(n + 1)  OBVIOUS
    <3>2. \A k \in 1..((n + 1) + 1) : d[k] \in S  BY <1>1, <2>6, <2>7, <3>1
    <3>3. d = [k \in 1..((n + 1) + 1) |-> d[k]]  OBVIOUS
    <3> HIDE DEF d, S
    <3> QED BY <3>2, <3>3
  <2> HIDE DEF d
  <2>9. ASSUME NEW k \in 1..(n + 1) PROVE d[k] = segs[k] \o d[k + 1]
    <3>1. CASE k = n + 1
      <4>1. d[n + 1] = <<>> \o a  BY <2>4, <2>6, <3>1
      <4>2. <<>> \o a = a /\ a \o <<>> = a  BY <2>5, Neutral
      <4> QED BY <2>7, <3>1, <4>1, <4>2 DEF a
    <3>2. CASE k # n + 1
      <4>1. k \in 1..n /\ k + 1 \in 1..(n + 1) /\ k \in 1..N  BY <2>2, <3>2
      <4>2. segs[k] \in S /\ g[k + 1] \in S  BY <1>1, <2>6, <4>1
      <4>3. (segs[k] \o g[k + 1]) \o a = segs[k] \o (g[k + 1] \o a)
        BY <2>5, <4>2, Associative
      <4> QED BY <2>4, <2>6, <4>1, <4>3
    <3> QED BY <3>1, <3>2
  <2>10. f[n + 1] = d[1]
    <3>1. f[n + 1] = f[n] \o a  BY <1>4, <2>2 DEF a
    <3>2. 1 \in 1..(n + 1)  OBVIOUS
    <3> QED BY <2>4, <2>6, <3>1, <3>2
  <2>11. G(n + 1, d)  BY <2>7, <2>8, <2>9, <2>10 DEF G
  <2> QED BY <2>11
<1>8. N \in T
  <2> HIDE DEF T
  <2> QED BY <1>1, <1>6, <1>7, NatSet
<1>9. PICK g : G(N, g)
  <2> HIDE DEF G
  <2> QED BY <1>1, <1>8
<1> QED BY <1>5, <1>9 DEF TailsOf

-----------------------------------------------------------------------------
(* What the lines are, and what Framing reads off a head.                  *)

LEMMA LineShape ==
  ASSUME NEW l \in Lines
  PROVE  /\ l[1] \in {"length", "size"} => l \in {"length", "size"} \X Nat
         /\ l \in {Request, Header, Forged, Blank, Garbage, Part, HalfEnd, OtherHalf, Stamp}
              => l[1] \notin {"length", "size", "coding"}
         /\ {Request, Header, Forged, Blank, Garbage, Part, HalfEnd, OtherHalf, Stamp}
              \subseteq Lines
<1>1. l \in {Request, Header, Forged, Blank, Garbage, Part, HalfEnd, OtherHalf, Stamp}
        => l[1] \notin {"length", "size", "coding"}
  BY DEF Request, Header, Forged, Blank, Garbage, Part, HalfEnd, OtherHalf, Stamp
<1>2. l \in {"coding"} \X STRING => l[1] = "coding"  OBVIOUS
<1> QED BY <1>1, <1>2 DEF Lines

LEMMA HeadLines ==
  ASSUME NEW head \in Seq(Lines)
  PROVE  /\ ToSet(head) \subseteq Lines /\ IsFiniteSet(ToSet(head))
         /\ ToSet(head) = {head[i] : i \in 1..Len(head)}
<1>1. DOMAIN head = 1..Len(head) /\ Len(head) \in Nat /\ \A i \in 1..Len(head) : head[i] \in Lines
  OBVIOUS
<1>2. ToSet(head) = {head[i] : i \in 1..Len(head)}  BY <1>1 DEF ToSet
<1>3. IsFiniteSet(1..Len(head))  BY <1>1, FS_Interval
<1>4. head \in Surjection(1..Len(head), ToSet(head))
  <2>1. head \in [1..Len(head) -> ToSet(head)]  BY <1>1, <1>2
  <2> QED BY <1>2, <2>1 DEF Surjection
<1>5. IsFiniteSet(ToSet(head))  BY <1>3, <1>4, FS_Surjection
<1> QED BY <1>1, <1>2, <1>5

LEMMA CodingsLast ==
  ASSUME NEW head \in Seq(Lines)
  PROVE  LET m == [head |-> head, body |-> <<>>] IN
         /\ Codings(head) # <<>> <=> Coded(m)
         /\ Coded(m) => (Last(Codings(head)) = Coding("chunked") <=> ChunkedLast(m))
<1> DEFINE m == [head |-> head, body |-> <<>>]
           those == {line \in ToSet(head) : line[1] # "coding"}
           N == Len(head)
<1>1. N \in Nat /\ DOMAIN head = 1..N /\ ToSet(head) = {head[i] : i \in 1..N}
  BY HeadLines
<1>2. \A i \in 1..N : head[i] \in those <=> head[i][1] # "coding"  BY <1>1
<1>3. Coded(m) <=> \E i \in 1..N : head[i][1] = "coding"  BY <1>1 DEF Coded
<1>4. ChunkedLast(m) <=>
        \E i \in 1..N : head[i] = Coding("chunked") /\ \A j \in (i + 1)..N : head[j][1] # "coding"
  BY <1>1 DEF ChunkedLast
<1>5. \/ Codings(head) = <<>> /\ \A i \in 1..N : head[i] \in those
      \/ \E i \in 1..N :
           /\ head[i] \notin those /\ \A j \in (i + 1)..N : head[j] \in those
           /\ Codings(head) # <<>> /\ Last(Codings(head)) = head[i]
  BY WithoutLast DEF Codings
<1> HIDE DEF those, m
<1>6. \A i \in 1..N : \A j \in (i + 1)..N : j \in 1..N  BY <1>1
<1>7. CASE Codings(head) = <<>> /\ \A i \in 1..N : head[i] \in those
  BY <1>2, <1>3, <1>7 DEF m
<1>8. ASSUME NEW i \in 1..N, head[i] \notin those, \A j \in (i + 1)..N : head[j] \in those,
             Codings(head) # <<>>, Last(Codings(head)) = head[i]
      PROVE  Coded(m) /\ (Last(Codings(head)) = Coding("chunked") <=> ChunkedLast(m))
  <2>1. Coded(m)  BY <1>2, <1>3, <1>8
  <2>2. head[i] = Coding("chunked") => ChunkedLast(m)  BY <1>2, <1>4, <1>6, <1>8
  <2>3. ASSUME ChunkedLast(m) PROVE head[i] = Coding("chunked")
    <3>1. PICK k \in 1..N : head[k] = Coding("chunked") /\ \A j \in (k + 1)..N : head[j][1] # "coding"
      BY <1>4, <2>3
    <3>2. head[k][1] = "coding"  BY <3>1 DEF Coding
    <3>3. head[i][1] = "coding"  BY <1>2, <1>8
    <3>4. i \in (k + 1)..N \/ k \in (i + 1)..N \/ i = k  BY <1>1
    <3>5. k \notin (i + 1)..N  BY <1>2, <1>6, <1>8, <3>2
    <3> QED BY <3>1, <3>3, <3>4, <3>5
  <2> QED BY <1>8, <2>1, <2>2, <2>3
<1> QED BY <1>5, <1>7, <1>8 DEF m

(* _body_framing() reads what RFC 9112 says.                               *)
Reads(m, f) ==
  /\ f.kind \in {"chunked", "length", "none", "unknown"} /\ f.length \in Nat
  /\ f.kind = "chunked" <=> Coded(m) /\ ChunkedLast(m)
  /\ f.kind = "none" <=> ~Coded(m) /\ Announced(m) = {}
  /\ f.kind = "length" <=> ~Coded(m) /\ Cardinality(Announced(m)) = 1
  /\ f.kind = "length" => \E line \in Announced(m) :
                            Announced(m) = {line} /\ f.length = line[2]

LEMMA FramingRight ==
  ASSUME NEW m \in [head : Seq(Lines), body : Seq(Lines)]
  PROVE  Reads(m, Framing(m.head)) /\ IsFiniteSet(Announced(m))
<1> DEFINE h == m.head
<1>1. h \in Seq(Lines)  OBVIOUS
<1>2. /\ Codings(h) # <<>> <=> Coded(m)
      /\ Coded(m) => (Last(Codings(h)) = Coding("chunked") <=> ChunkedLast(m))
  BY <1>1, CodingsLast DEF Coded, ChunkedLast
<1>3. Lengths(h) = Announced(m)  BY DEF Lengths, Announced
<1>4. IsFiniteSet(Announced(m))
  BY <1>1, HeadLines, FS_Subset DEF Announced
<1>5. CASE Coded(m)
  <2>1. Framing(h) = [kind |-> IF Last(Codings(h)) = Coding("chunked") THEN "chunked"
                               ELSE "unknown", length |-> 0]
    BY <1>2, <1>5 DEF Framing
  <2>2. \/ ChunkedLast(m) /\ Framing(h) = [kind |-> "chunked", length |-> 0]
        \/ ~ChunkedLast(m) /\ Framing(h) = [kind |-> "unknown", length |-> 0]
    BY <1>2, <1>5, <2>1
  <2> QED BY <1>4, <1>5, <2>2 DEF Reads
<1>6. CASE ~Coded(m) /\ Announced(m) = {}
  <2>1. Cardinality(Announced(m)) # 1  BY <1>6, FS_EmptySet
  <2>2. Framing(h) = [kind |-> "none", length |-> 0]
    BY <1>2, <1>3, <1>6, <2>1 DEF Framing
  <2> QED BY <1>4, <1>6, <2>1, <2>2 DEF Reads
<1>7. CASE ~Coded(m) /\ Cardinality(Announced(m)) = 1
  <2>1. PICK line : Announced(m) = {line}  BY <1>4, <1>7, FS_Singleton
  <2>2. Framing(h) = [kind |-> "length", length |-> (CHOOSE l \in {line} : TRUE)[2]]
    BY <1>2, <1>3, <1>7, <2>1 DEF Framing
  <2>3. (CHOOSE l \in {line} : TRUE) = line  OBVIOUS
  <2>4. line \in Lines /\ line[1] = "length"
    BY <1>1, <2>1, HeadLines DEF Announced
  <2>5. line[2] \in Nat  BY <2>4, LineShape
  <2>6. Framing(h) = [kind |-> "length", length |-> line[2]]  BY <2>2, <2>3
  <2> QED BY <1>4, <1>7, <2>1, <2>5, <2>6 DEF Reads
<1>8. CASE ~Coded(m) /\ Announced(m) # {} /\ Cardinality(Announced(m)) # 1
  <2>1. Framing(h) = [kind |-> "unknown", length |-> 0]  BY <1>2, <1>3, <1>8 DEF Framing
  <2> QED BY <1>4, <1>8, <2>1 DEF Reads
<1> QED BY <1>5, <1>6, <1>7, <1>8

-----------------------------------------------------------------------------
(* Types, and where feed() stops to wait.                                  *)

Messages == [head : Seq(Lines), body : Seq(Lines)]

States == {"head", "body", "chunk_size", "chunk_data", "chunk_end", "trailers", "passthrough"}

TypeOK ==
  /\ stream \in Streams
  /\ fed \in 0..Len(Wire(stream))
  /\ feeding \in BOOLEAN
  /\ state \in States
  /\ buffer \in Seq(Lines)
  /\ remaining \in Nat
  /\ out \in Seq(Lines)

Waits ==
  ~feeding =>
    \/ buffer = <<>>
    \/ state = "head" /\ HeadEnd = {} /\ Len(buffer) <= HeadLimit
    \/ state \in {"chunk_size", "trailers"} /\ LineEnd = {} /\ Len(buffer) <= LineLimit
    \/ state = "chunk_end" /\ buffer = <<HalfEnd>>

Segments(messages) ==
  [i \in DOMAIN messages |-> messages[i].head \o <<Blank>> \o messages[i].body]

LEMMA SegmentsType ==
  ASSUME NEW messages \in Seq(Messages)
  PROVE  /\ Segments(messages) \in Seq(Seq(Lines))
         /\ Len(Segments(messages)) = Len(messages)
<1>1. /\ DOMAIN messages = 1..Len(messages) /\ Len(messages) \in Nat
      /\ \A i \in 1..Len(messages) : messages[i] \in Messages
  OBVIOUS
<1>2. <<Blank>> \in Seq(Lines)
  <2>1. Blank \in Lines  BY DEF Lines
  <2> QED BY <2>1, OneOrTwo
<1>3. \A i \in 1..Len(messages) :
        messages[i].head \o <<Blank>> \o messages[i].body \in Seq(Lines)
  <2> TAKE i \in 1..Len(messages)
  <2>1. messages[i].head \in Seq(Lines) /\ messages[i].body \in Seq(Lines)
    BY <1>1 DEF Messages
  <2>2. messages[i].head \o <<Blank>> \in Seq(Lines)  BY <1>2, <2>1, Concatenation
  <2> QED BY <2>1, <2>2, Concatenation
<1>4. Segments(messages) \in [1..Len(messages) -> Seq(Lines)]
  BY <1>1, <1>3 DEF Segments
<1> QED BY <1>1, <1>4

LEMMA WireTails ==
  ASSUME NEW messages \in Seq(Messages)
  PROVE  /\ \E g : TailsOf(Segments(messages), g)
         /\ Wire(messages) \in Seq(Lines) /\ Len(Wire(messages)) \in Nat
<1>1. PICK g : TailsOf(Segments(messages), g)  BY SegmentsType, FlattenTails
<1>2. Wire(messages) = g[1]  BY <1>1 DEF TailsOf, Wire, Segments
<1>3. 1 \in 1..(Len(Segments(messages)) + 1)  BY SegmentsType
<1>4. Wire(messages) \in Seq(Lines)  BY <1>1, <1>2, <1>3 DEF TailsOf
<1>5. Len(Wire(messages)) \in Nat  BY <1>4
<1> QED BY <1>1, <1>4, <1>5

LEMMA StreamType ==
  ASSUME ConstantsOK, stream \in Streams
  PROVE  /\ stream \in Seq(Messages)
         /\ \A i \in 1..Len(stream) : Framed(stream[i])
         /\ Wire(stream) \in Seq(Lines) /\ Len(Wire(stream)) \in Nat
<1>1. stream \in Seq(Messages) /\ \A i \in DOMAIN stream : Framed(stream[i])
  BY DEF ConstantsOK, Messages
<1>2. DOMAIN stream = 1..Len(stream)  BY <1>1
<1> QED BY <1>1, <1>2, WireTails

(* The first m lines of the buffer, and the others.                        *)
LEMMA Popped ==
  ASSUME NEW b \in Seq(Lines), NEW m \in Nat, m <= Len(b)
  PROVE  LET x == SubSeq(b, 1, m)
             r == SubSeq(b, m + 1, Len(b)) IN
         /\ x \in Seq(Lines) /\ Len(x) = m /\ \A i \in 1..m : x[i] = b[i]
         /\ r \in Seq(Lines) /\ Len(r) = Len(b) - m
         /\ b = x \o r
<1>1. Len(b) \in Nat  OBVIOUS
<1>2. 0 + 1 = 1 /\ m - 0 = m /\ \A i \in 1..m : 0 + i = i  OBVIOUS
<1>3. /\ SubSeq(b, 1, m) \in Seq(Lines) /\ Len(SubSeq(b, 1, m)) = m
      /\ \A i \in 1..m : SubSeq(b, 1, m)[i] = b[i]
  BY <1>1, <1>2, Stretch
<1>4. SubSeq(b, m + 1, Len(b)) \in Seq(Lines) /\ Len(SubSeq(b, m + 1, Len(b))) = Len(b) - m
  BY <1>1, Stretch
<1>5. b = SubSeq(b, 1, m) \o SubSeq(b, m + 1, Len(b))
  BY CutInTwo
<1> QED BY <1>3, <1>4, <1>5

LEMMA LineEndMin ==
  ASSUME buffer \in Seq(Lines), LineEnd # {}
  PROVE  LET m == Min(LineEnd) IN
         /\ m \in 1..Len(buffer) /\ buffer[m] # Part
         /\ \A i \in 1..(m - 1) : buffer[i] = Part
<1>1. LineEnd \in SUBSET Nat /\ \A i \in LineEnd : i \in 1..Len(buffer) /\ buffer[i] # Part
  BY DEF LineEnd
<1>2. Min(LineEnd) \in LineEnd /\ \A y \in LineEnd : Min(LineEnd) <= y
  BY <1>1, MinIsLeast
<1> DEFINE m == Min(LineEnd)
<1>3. m \in 1..Len(buffer) /\ buffer[m] # Part  BY <1>1, <1>2
<1>4. ASSUME NEW i \in 1..(m - 1) PROVE buffer[i] = Part
  <2>1. i \in 1..Len(buffer) /\ ~ (m <= i)  BY <1>3
  <2>2. i \notin LineEnd  BY <1>2, <2>1
  <2> QED BY <2>1, <2>2 DEF LineEnd
<1> QED BY <1>3, <1>4

LEMMA HeadEndMin ==
  ASSUME buffer \in Seq(Lines), HeadEnd # {}
  PROVE  LET m == Min(HeadEnd) IN
         /\ m \in 2..Len(buffer) /\ buffer[m] = Blank
         /\ \A i \in 2..(m - 1) : buffer[i] # Blank
<1>1. HeadEnd \in SUBSET Nat /\ \A i \in HeadEnd : i \in 2..Len(buffer) /\ buffer[i] = Blank
  BY DEF HeadEnd
<1>2. Min(HeadEnd) \in HeadEnd /\ \A y \in HeadEnd : Min(HeadEnd) <= y
  BY <1>1, MinIsLeast
<1> DEFINE m == Min(HeadEnd)
<1>3. m \in 2..Len(buffer) /\ buffer[m] = Blank  BY <1>1, <1>2
<1>4. ASSUME NEW i \in 2..(m - 1) PROVE buffer[i] # Blank
  <2>1. i \in 2..Len(buffer) /\ ~ (m <= i)  BY <1>3
  <2>2. i \notin HeadEnd  BY <1>2, <2>1
  <2> QED BY <2>1, <2>2 DEF HeadEnd
<1> QED BY <1>3, <1>4

(* Of two numbers, the smaller.                                            *)
LEMMA MinOfTwo ==
  ASSUME NEW a \in Nat, NEW b \in Nat
  PROVE  LET m == Min({a, b}) IN m \in Nat /\ m <= a /\ m <= b /\ (m = a \/ m = b)
<1>1. {a, b} \in SUBSET Nat /\ {a, b} # {}  OBVIOUS
<1>2. Min({a, b}) \in {a, b} /\ \A y \in {a, b} : Min({a, b}) <= y
  BY <1>1, MinIsLeast
<1> QED BY <1>2

LEMMA TheirsConcat ==
  \A x, y \in Seq(Lines) : Theirs(x \o y) = Theirs(x) \o Theirs(y)
BY WithoutConcat DEF Theirs

(* What inject_headers() makes of a head.                                  *)
LEMMA InjectType ==
  ASSUME NEW head \in Seq(Lines), head # <<>>
  PROVE  /\ Inject(head) \in Seq(Lines)
         /\ Theirs(Inject(head)) = Theirs(head)
         /\ head = <<head[1]>> \o Tail(head) /\ Tail(head) \in Seq(Lines) /\ head[1] \in Lines
<1> DEFINE t == Tail(head)
           k == Strip(t)
           a == head[1]
<1>1. a \in Lines /\ Stamp \in Lines  BY DEF Lines
<1>2. t \in Seq(Lines) /\ head = <<a>> \o t  OBVIOUS
<1>3. k \in Seq(Lines)  BY <1>2, WithoutType DEF Strip
<1>4. Theirs(k) = Theirs(t)
  <2>1. {Forged} \subseteq {Stamp, Forged}  OBVIOUS
  <2> QED BY <1>2, <2>1, WithoutTwice DEF Strip, Theirs
<1>5. <<a>> \in Seq(Lines) /\ <<Stamp>> \in Seq(Lines) /\ <<a, Stamp>> \in Seq(Lines)
      /\ <<a, Stamp>> = <<a>> \o <<Stamp>>
  BY <1>1
<1>6. Theirs(<<Stamp>>) = <<>> /\ Theirs(<<>>) = <<>>
  BY <1>1, WithoutFew DEF Theirs
<1>7. Theirs(head) = Theirs(<<a>>) \o Theirs(t)
  BY <1>2, <1>5, TheirsConcat
<1>8. Theirs(<<a>>) \in Seq(Lines)  BY <1>5, WithoutType DEF Theirs
<1> HIDE DEF t, a
<1>9. CASE k = <<>>
  <2>1. Inject(head) = <<a>>  BY <1>9 DEF Inject, t, a
  <2>2. Theirs(t) = <<>>  BY <1>4, <1>6, <1>9
  <2>3. Theirs(<<a>>) \o <<>> = Theirs(<<a>>)  BY <1>8, Neutral
  <2> QED BY <1>1, <1>2, <1>5, <1>7, <2>1, <2>2, <2>3 DEF t, a
<1>10. CASE k # <<>>
  <2>1. Inject(head) = <<a, Stamp>> \o k  BY <1>10 DEF Inject, t, a
  <2> HIDE DEF k
  <2>2. Inject(head) \in Seq(Lines)  BY <1>3, <1>5, <2>1, Concatenation
  <2>3. Theirs(Inject(head)) = Theirs(<<a, Stamp>>) \o Theirs(k)
    BY <1>3, <1>5, <2>1, TheirsConcat
  <2>4. Theirs(<<a, Stamp>>) = Theirs(<<a>>) \o Theirs(<<Stamp>>)
    BY <1>5, TheirsConcat
  <2>5. Theirs(<<a>>) \o <<>> = Theirs(<<a>>)  BY <1>8, Neutral
  <2> QED BY <1>1, <1>2, <1>4, <1>6, <1>7, <2>2, <2>3, <2>4, <2>5 DEF t, a
<1> QED BY <1>9, <1>10

-----------------------------------------------------------------------------
(* Every step but Feed leaves alone what is fed, keeps the types, and      *)
(* moves lines from the buffer to the output, but for the stamps and the   *)
(* copies of ours.                                                         *)
Moves ==
  /\ TypeOK' /\ Waits'
  /\ stream' = stream /\ fed' = fed
  /\ Theirs(out' \o buffer') = Theirs(out \o buffer)

(* A stretch of the buffer that goes to the output as it is.               *)
LEMMA Moved ==
  ASSUME NEW o \in Seq(Lines), NEW b \in Seq(Lines), NEW m \in Nat, m <= Len(b)
  PROVE  LET x == SubSeq(b, 1, m)
             r == SubSeq(b, m + 1, Len(b)) IN
         /\ o \o x \in Seq(Lines) /\ r \in Seq(Lines)
         /\ (o \o x) \o r = o \o b
<1> DEFINE x == SubSeq(b, 1, m)
           r == SubSeq(b, m + 1, Len(b))
<1>1. x \in Seq(Lines) /\ r \in Seq(Lines) /\ b = x \o r  BY Popped
<1> HIDE DEF x, r
<1>2. o \o x \in Seq(Lines) /\ (o \o x) \o r = o \o (x \o r)
  BY <1>1, Concatenation, Associative, SMTT(30)
<1> QED BY <1>1, <1>2 DEF x, r

LEMMA ExhaustedMoves == ASSUME TypeOK, Exhausted PROVE Moves
<1>1. /\ stream' = stream /\ fed' = fed /\ state' = state /\ buffer' = buffer /\ buffer = <<>>
      /\ remaining' = remaining /\ out' = out /\ feeding' = FALSE
  BY DEF Exhausted
<1>2. TypeOK'  BY <1>1 DEF TypeOK
<1>3. Waits'  BY <1>1 DEF Waits
<1> QED BY <1>1, <1>2, <1>3 DEF Moves

LEMMA PassThroughMoves == ASSUME TypeOK, PassThrough PROVE Moves
<1>1. /\ stream' = stream /\ fed' = fed /\ state' = state /\ buffer' = <<>>
      /\ remaining' = remaining /\ out' = out \o buffer /\ feeding' = feeding
  BY DEF PassThrough
<1>2. <<>> \in Seq(Lines) /\ out \o buffer \in Seq(Lines)
      /\ (out \o buffer) \o <<>> = out \o buffer
  <2>1. out \o buffer \in Seq(Lines)  BY Concatenation DEF TypeOK
  <2> QED BY <2>1, Neutral
<1>3. TypeOK'  BY <1>1, <1>2 DEF TypeOK
<1>4. Waits'  BY <1>1 DEF Waits
<1> QED BY <1>1, <1>2, <1>3, <1>4 DEF Moves

LEMMA BodyMoves == ASSUME TypeOK, Body PROVE Moves
<1> DEFINE take == Min({remaining, Len(buffer)})
<1>1. /\ stream' = stream /\ fed' = fed /\ feeding' = TRUE
      /\ out' = out \o SubSeq(buffer, 1, take)
      /\ buffer' = SubSeq(buffer, take + 1, Len(buffer))
      /\ remaining' = remaining - take
      /\ state' \in {state, "head", "chunk_end"}
  <2>1. feeding /\ feeding \in BOOLEAN  BY DEF Body, TypeOK
  <2> QED BY <2>1 DEF Body
<1>2. take \in Nat /\ take <= remaining /\ take <= Len(buffer)
  <2>1. remaining \in Nat /\ Len(buffer) \in Nat  BY DEF TypeOK
  <2> QED BY <2>1, MinOfTwo
<1> HIDE DEF take
<1>3. /\ out' \in Seq(Lines) /\ buffer' \in Seq(Lines) /\ out' \o buffer' = out \o buffer
  BY <1>1, <1>2, Moved DEF TypeOK
<1>4. remaining' \in Nat  BY <1>1, <1>2 DEF TypeOK
<1>5. TypeOK'  BY <1>1, <1>3, <1>4 DEF TypeOK, States
<1>6. Waits'  BY <1>1 DEF Waits
<1> QED BY <1>1, <1>3, <1>5, <1>6 DEF Moves

LEMMA ChunkEndMoves == ASSUME TypeOK, ChunkEnd PROVE Moves
<1>1. stream' = stream /\ fed' = fed /\ remaining' = remaining /\ feeding = TRUE
  BY DEF ChunkEnd, TypeOK
<1>2. ASSUME NEW end \in {<<Blank>>, <<HalfEnd, OtherHalf>>}, IsPrefix(end, buffer),
             out' = out \o end, buffer' = SubSeq(buffer, Len(end) + 1, Len(buffer)),
             state' = "chunk_size", feeding' = feeding
      PROVE  Moves
  <2>1. end \in Seq(Lines) /\ Len(end) \in Nat
    <3>1. Blank \in Lines /\ HalfEnd \in Lines /\ OtherHalf \in Lines  BY DEF Lines
    <3> QED BY <1>2, <3>1, OneOrTwo
  <2>2. Len(end) <= Len(buffer) /\ SubSeq(buffer, 1, Len(end)) = end
    <3>1. SubSeq(end, 1, Len(end)) = end  BY <2>1, Whole
    <3> QED BY <1>2, <3>1 DEF IsPrefix
  <2>3. /\ out' \in Seq(Lines) /\ buffer' \in Seq(Lines) /\ out' \o buffer' = out \o buffer
    <3> DEFINE m == Len(end)
    <3>1. m \in Nat /\ m <= Len(buffer) /\ end = SubSeq(buffer, 1, m)  BY <2>1, <2>2
    <3>2. out' = out \o SubSeq(buffer, 1, m) /\ buffer' = SubSeq(buffer, m + 1, Len(buffer))
      BY <1>2, <3>1
    <3> HIDE DEF m
    <3> QED BY <3>1, <3>2, Moved DEF TypeOK
  <2>4. TypeOK'  BY <1>1, <1>2, <2>3 DEF TypeOK, States
  <2>5. Waits'  BY <1>1, <1>2 DEF Waits
  <2> QED BY <1>1, <2>3, <2>4, <2>5 DEF Moves
<1>3. ASSUME buffer = <<HalfEnd>>, feeding' = FALSE, out' = out, buffer' = buffer, state' = state
      PROVE  Moves
  <2>1. state = "chunk_end"  BY DEF ChunkEnd
  <2>2. TypeOK'  BY <1>1, <1>3 DEF TypeOK
  <2>3. Waits'  BY <1>3, <2>1 DEF Waits
  <2> QED BY <1>1, <1>3, <2>2, <2>3 DEF Moves
<1>4. ASSUME state' = "passthrough", out' = out, buffer' = buffer, feeding' = feeding
      PROVE  Moves
  <2>1. TypeOK'  BY <1>1, <1>4 DEF TypeOK, States
  <2>2. Waits'  BY <1>1, <1>4 DEF Waits
  <2> QED BY <1>1, <1>4, <2>1, <2>2 DEF Moves
<1> QED BY <1>2, <1>3, <1>4 DEF ChunkEnd

LEMMA LineMissingMoves == ASSUME ConstantsOK, TypeOK, LineMissing PROVE Moves
<1>1. /\ stream' = stream /\ fed' = fed /\ buffer' = buffer /\ remaining' = remaining
      /\ out' = out /\ feeding = TRUE /\ LineEnd = {} /\ state \in {"chunk_size", "trailers"}
      /\ IF Len(buffer) > LineLimit
         THEN state' = "passthrough" /\ feeding' = feeding
         ELSE feeding' = FALSE /\ state' = state
  BY DEF LineMissing, TypeOK
<1>2. TypeOK'  BY <1>1 DEF TypeOK, States
<1>3. Waits'
  <2>1. LineEnd' = {}  BY <1>1 DEF LineEnd
  <2>2. Len(buffer) \in Nat /\ LineLimit \in Nat  BY DEF TypeOK, ConstantsOK
  <2>3. CASE Len(buffer) > LineLimit  BY <1>1, <2>3 DEF Waits
  <2>4. CASE ~ (Len(buffer) > LineLimit)
    <3>1. Len(buffer') <= LineLimit  BY <1>1, <2>2, <2>4
    <3> QED BY <1>1, <2>1, <2>4, <3>1 DEF Waits
  <2> QED BY <2>3, <2>4
<1> QED BY <1>1, <1>2, <1>3 DEF Moves

LEMMA HeadMissingMoves == ASSUME ConstantsOK, TypeOK, HeadMissing PROVE Moves
<1>1. /\ stream' = stream /\ fed' = fed /\ buffer' = buffer /\ remaining' = remaining
      /\ out' = out /\ feeding = TRUE /\ HeadEnd = {} /\ state = "head"
      /\ IF Len(buffer) > HeadLimit
         THEN state' = "passthrough" /\ feeding' = feeding
         ELSE feeding' = FALSE /\ state' = state
  BY DEF HeadMissing, TypeOK
<1>2. TypeOK'  BY <1>1 DEF TypeOK, States
<1>3. Waits'
  <2>1. HeadEnd' = {}  BY <1>1 DEF HeadEnd
  <2>2. Len(buffer) \in Nat /\ HeadLimit \in Nat  BY DEF TypeOK, ConstantsOK
  <2>3. CASE Len(buffer) > HeadLimit  BY <1>1, <2>3 DEF Waits
  <2>4. CASE ~ (Len(buffer) > HeadLimit)
    <3>1. Len(buffer') <= HeadLimit  BY <1>1, <2>2, <2>4
    <3> QED BY <1>1, <2>1, <2>4, <3>1 DEF Waits
  <2> QED BY <2>3, <2>4
<1> QED BY <1>1, <1>2, <1>3 DEF Moves

(* A popped line leaves the buffer in front.                               *)
LEMMA PopLineMoves ==
  ASSUME TypeOK, LineEnd # {}, PopLine
  PROVE  /\ out' \in Seq(Lines) /\ buffer' \in Seq(Lines) /\ out' \o buffer' = out \o buffer
         /\ Line \in Lines
<1> DEFINE m == Min(LineEnd)
<1>1. m \in 1..Len(buffer)  BY LineEndMin DEF TypeOK
<1>2. m \in Nat /\ m <= Len(buffer) /\ Len(buffer) \in Nat  BY <1>1 DEF TypeOK
<1>3. Line \in Lines  BY <1>1 DEF Line, TypeOK
<1> HIDE DEF m
<1>4. out' = out \o SubSeq(buffer, 1, m) /\ buffer' = SubSeq(buffer, m + 1, Len(buffer))
  BY DEF PopLine, m
<1> QED BY <1>2, <1>3, <1>4, Moved DEF TypeOK

LEMMA ChunkSizeMoves == ASSUME TypeOK, ChunkSize PROVE Moves
<1>1. /\ stream' = stream /\ fed' = fed /\ feeding' = feeding /\ feeding = TRUE
      /\ LineEnd # {} /\ PopLine
  BY DEF ChunkSize, TypeOK
<1>2. /\ out' \in Seq(Lines) /\ buffer' \in Seq(Lines) /\ out' \o buffer' = out \o buffer
      /\ Line \in Lines
  BY <1>1, PopLineMoves
<1>3. state' \in States /\ remaining' \in Nat
  <2>1. CASE Line[1] # "size"
    <3>1. Line # Size(0)  BY <2>1 DEF Size
    <3> QED BY <2>1, <3>1 DEF ChunkSize, TypeOK, States
  <2>2. CASE Line = Size(0)
    <3>1. Line[1] = "size"  BY <2>2 DEF Size
    <3> QED BY <2>2, <3>1 DEF ChunkSize, TypeOK, States
  <2>3. CASE Line[1] = "size" /\ Line # Size(0)
    <3>1. Line \in {"length", "size"} \X Nat  BY <1>2, <2>3, LineShape
    <3>2. state' = "chunk_data" /\ remaining' = Line[2]  BY <2>3 DEF ChunkSize
    <3> QED BY <3>1, <3>2 DEF States
  <2> QED BY <2>1, <2>2, <2>3
<1>4. TypeOK'  BY <1>1, <1>2, <1>3 DEF TypeOK
<1>5. Waits'  BY <1>1 DEF Waits
<1> QED BY <1>1, <1>2, <1>4, <1>5 DEF Moves

LEMMA TrailersMoves == ASSUME TypeOK, Trailers PROVE Moves
<1>1. /\ stream' = stream /\ fed' = fed /\ feeding' = feeding /\ feeding = TRUE
      /\ remaining' = remaining /\ LineEnd # {} /\ PopLine /\ state' \in {"head", state}
  BY DEF Trailers, TypeOK
<1>2. /\ out' \in Seq(Lines) /\ buffer' \in Seq(Lines) /\ out' \o buffer' = out \o buffer
  BY <1>1, PopLineMoves
<1>3. TypeOK'  BY <1>1, <1>2 DEF TypeOK, States
<1>4. Waits'  BY <1>1 DEF Waits
<1> QED BY <1>1, <1>2, <1>3, <1>4 DEF Moves

(* The head that is rewritten, and what is left behind it.                 *)
LEMMA HeadCut ==
  ASSUME buffer \in Seq(Lines), HeadEnd # {}
  PROVE  LET m == Min(HeadEnd)
             head == SubSeq(buffer, 1, m - 1)
             rest == SubSeq(buffer, m + 1, Len(buffer)) IN
         /\ head \in Seq(Lines) /\ head # <<>> /\ Len(head) = m - 1 /\ rest \in Seq(Lines)
         /\ head[1] = buffer[1] /\ \A i \in 2..(m - 1) : head[i] # Blank
         /\ buffer = (head \o <<Blank>>) \o rest
<1> DEFINE m == Min(HeadEnd)
           head == SubSeq(buffer, 1, m - 1)
           rest == SubSeq(buffer, m + 1, Len(buffer))
           first == SubSeq(buffer, 1, m)
<1>1. m \in 2..Len(buffer) /\ buffer[m] = Blank /\ \A i \in 2..(m - 1) : buffer[i] # Blank
  BY HeadEndMin
<1> HIDE DEF m
<1>2. /\ m \in Nat /\ m <= Len(buffer) /\ m - 1 \in Nat /\ m - 1 <= m /\ Len(buffer) \in Nat
      /\ m - 1 <= Len(buffer) /\ m - 1 # 0 /\ 1 \in 1..(m - 1) /\ (m - 1) + 1 = m
      /\ m \in 1..m /\ \A i \in 2..(m - 1) : i \in 1..(m - 1)
      /\ \A i \in 1..(m - 1) : i \in 1..m
  BY <1>1
<1>3. /\ first \in Seq(Lines) /\ Len(first) = m /\ \A i \in 1..m : first[i] = buffer[i]
      /\ rest \in Seq(Lines) /\ buffer = first \o rest
  BY <1>2, Popped
<1>4. /\ head \in Seq(Lines) /\ Len(head) = m - 1 /\ \A i \in 1..(m - 1) : head[i] = buffer[i]
  BY <1>2, Popped
<1> HIDE DEF head, rest, first
<1>5. Blank \in Lines /\ <<Blank>> \in Seq(Lines) /\ Len(<<Blank>>) = 1 /\ <<Blank>>[1] = Blank
  <2>1. Blank \in Lines  BY DEF Lines
  <2> QED BY <2>1, OneOrTwo
<1>6. first = head \o <<Blank>>
  <2>1. /\ head \o <<Blank>> \in Seq(Lines) /\ Len(head \o <<Blank>>) = (m - 1) + 1
        /\ \A k \in 1..(m - 1) : (head \o <<Blank>>)[k] = head[k]
        /\ (head \o <<Blank>>)[(m - 1) + 1] = Blank
    <3>1. 1 \in 1..Len(<<Blank>>)  BY <1>5
    <3> QED BY <1>4, <1>5, <3>1, Concatenation
  <2>2. \A i \in 1..m : i \in 1..(m - 1) \/ i = m  BY <1>2
  <2>3. \A i \in 1..Len(first) : first[i] = (head \o <<Blank>>)[i]
    BY <1>1, <1>2, <1>3, <1>4, <2>1, <2>2
  <2> QED BY <1>2, <1>3, <2>1, <2>3, SeqEqual
<1>7. head # <<>>  BY <1>2, <1>4, Neutral
<1> QED BY <1>1, <1>2, <1>3, <1>4, <1>6, <1>7 DEF m, head, rest, first

(* A head that is stamped adds nothing to what is the client's.            *)
LEMMA Restamped ==
  ASSUME NEW o \in Seq(Lines), NEW i \in Seq(Lines), NEW h \in Seq(Lines),
         NEW b \in Seq(Lines), NEW r \in Seq(Lines), Theirs(i) = Theirs(h)
  PROVE  Theirs(((o \o i) \o b) \o r) = Theirs(o \o ((h \o b) \o r))
<1> DEFINE br == b \o r
<1>1. br \in Seq(Lines)  BY Concatenation
<1>2. ASSUME NEW x \in Seq(Lines)
      PROVE  /\ Theirs(((o \o x) \o b) \o r) = (Theirs(o) \o Theirs(x)) \o Theirs(br)
             /\ ((o \o x) \o b) \o r = o \o ((x \o b) \o r)
  <2> DEFINE ox == o \o x
  <2>1. ox \in Seq(Lines)  BY Concatenation
  <2>2. (x \o b) \o r = x \o br  BY Associative, ZenonT(30)
  <2> HIDE DEF ox
  <2>3. (ox \o b) \o r = ox \o br  BY <2>1, Associative, ZenonT(30)
  <2> HIDE DEF br
  <2>4. \A v \in Seq(Lines) : (o \o x) \o v = o \o (x \o v)  BY Associative
  <2>5. Theirs(ox \o br) = Theirs(ox) \o Theirs(br)  BY <1>1, <2>1, TheirsConcat
  <2>6. Theirs(ox) = Theirs(o) \o Theirs(x)  BY TheirsConcat DEF ox
  <2>7. ox \o br = o \o (x \o br)  BY <1>1, <2>4 DEF ox
  <2> QED BY <2>2, <2>3, <2>5, <2>6, <2>7 DEF ox
<1>3. /\ Theirs(((o \o i) \o b) \o r) = (Theirs(o) \o Theirs(i)) \o Theirs(br)
      /\ Theirs(((o \o h) \o b) \o r) = (Theirs(o) \o Theirs(h)) \o Theirs(br)
      /\ ((o \o h) \o b) \o r = o \o ((h \o b) \o r)
  BY <1>2
<1> QED BY <1>3

LEMMA RewriteHeadMoves == ASSUME TypeOK, RewriteHead PROVE Moves
<1> DEFINE m == Min(HeadEnd)
           head == SubSeq(buffer, 1, m - 1)
           rest == SubSeq(buffer, m + 1, Len(buffer))
           framing == Framing(head)
<1>1. /\ stream' = stream /\ fed' = fed /\ feeding' = feeding /\ feeding = TRUE
      /\ HeadEnd # {} /\ out' = out \o Inject(head) \o <<Blank>> /\ buffer' = rest
  BY DEF RewriteHead, TypeOK
<1>2. /\ head \in Seq(Lines) /\ head # <<>> /\ rest \in Seq(Lines)
      /\ buffer = (head \o <<Blank>>) \o rest
  BY <1>1, HeadCut DEF TypeOK
<1>3. framing.length \in Nat
      /\ framing.kind \in {"chunked", "length", "none", "unknown"}
  <2> DEFINE m0 == [head |-> head, body |-> <<>>]
  <2>1. m0 \in [head : Seq(Lines), body : Seq(Lines)] /\ m0.head = head
    BY <1>2, Neutral
  <2> HIDE DEF m0
  <2> QED BY <2>1, FramingRight DEF Reads
<1>4. /\ CASE framing.kind = "chunked" -> state' = "chunk_size" /\ remaining' = remaining
           [] framing.kind = "length" /\ framing.length > 0 ->
                state' = "body" /\ remaining' = framing.length
           [] framing.kind = "unknown" -> state' = "passthrough" /\ remaining' = remaining
           [] OTHER -> state' = "head" /\ remaining' = remaining
  BY DEF RewriteHead
<1> HIDE DEF m, head, rest, framing
<1>5. state' \in States /\ remaining' \in Nat
  <2>1. CASE framing.kind = "chunked"  BY <1>4, <2>1 DEF TypeOK, States
  <2>2. CASE framing.kind = "length" /\ framing.length > 0
    BY <1>3, <1>4, <2>2 DEF TypeOK, States
  <2>3. CASE framing.kind = "unknown"  BY <1>4, <2>3 DEF TypeOK, States
  <2>4. CASE framing.kind = "none" \/ (framing.kind = "length" /\ ~ (framing.length > 0))
    BY <1>4, <2>4 DEF TypeOK, States
  <2> QED BY <1>3, <2>1, <2>2, <2>3, <2>4
<1>6. <<Blank>> \in Seq(Lines)
  <2>1. Blank \in Lines  BY DEF Lines
  <2> QED BY <2>1, OneOrTwo
<1>7. Inject(head) \in Seq(Lines) /\ Theirs(Inject(head)) = Theirs(head)
  BY <1>2, InjectType
<1> DEFINE i == Inject(head)
<1> HIDE DEF i
<1>8. /\ out \in Seq(Lines) /\ i \in Seq(Lines) /\ out \o i \in Seq(Lines)
      /\ (out \o i) \o <<Blank>> \in Seq(Lines)
  BY <1>6, <1>7, Concatenation DEF TypeOK, i
<1>9. out' \in Seq(Lines) /\ buffer' \in Seq(Lines)  BY <1>1, <1>2, <1>8 DEF i
<1>10. Theirs(out' \o buffer') = Theirs(out \o buffer)
  <2> DEFINE bl == <<Blank>>
  <2> HIDE DEF bl
  <2>1. Theirs(((out \o i) \o bl) \o rest) = Theirs(out \o ((head \o bl) \o rest))
    <3>1. bl \in Seq(Lines) /\ Theirs(i) = Theirs(head)  BY <1>6, <1>7 DEF i, bl
    <3> QED BY <1>2, <1>8, <3>1, Restamped
  <2> QED BY <1>1, <1>2, <2>1 DEF i, bl
<1>11. TypeOK'  BY <1>1, <1>5, <1>9 DEF TypeOK
<1>12. Waits'  BY <1>1 DEF Waits
<1> QED BY <1>1, <1>10, <1>11, <1>12 DEF Moves

LEMMA LoopStepMoves == ASSUME ConstantsOK, TypeOK, LoopStep PROVE Moves
BY ExhaustedMoves, PassThroughMoves, BodyMoves, ChunkEndMoves, LineMissingMoves, ChunkSizeMoves,
   TrailersMoves, HeadMissingMoves, RewriteHeadMoves DEF LoopStep

(* What Feed adds to the buffer is what comes next on the wire.            *)
LEMMA Fed1 ==
  ASSUME ConstantsOK, TypeOK, Feed
  PROVE  /\ TypeOK' /\ Waits' /\ stream' = stream /\ out' = out
         /\ state' = state /\ remaining' = remaining
         /\ \E x \in Seq(Lines) : buffer' = buffer \o x /\ Fed' = Fed \o x
         /\ \E n \in 1..(Len(Wire(stream)) - fed) :
              /\ buffer' = buffer \o SubSeq(Wire(stream), fed + 1, fed + n)
              /\ fed' = fed + n
<1> DEFINE W == Wire(stream)
<1>1. W \in Seq(Lines) /\ Len(W) \in Nat  BY StreamType DEF TypeOK
<1>2. PICK n \in 1..(Len(W) - fed) :
        buffer' = buffer \o SubSeq(W, fed + 1, fed + n) /\ fed' = fed + n
  BY DEF Feed
<1>3. /\ stream' = stream /\ out' = out /\ state' = state /\ remaining' = remaining
      /\ feeding' = TRUE
  BY DEF Feed
<1>4. Wire(stream)' = W  BY <1>3
<1> DEFINE x == SubSeq(W, fed + 1, fed + n)
<1>5. fed \in Nat /\ fed <= Len(W) /\ fed + n \in Nat /\ fed <= fed + n /\ fed + n <= Len(W)
      /\ 0 <= fed /\ 0 + 1 = 1 /\ fed + n \in 0..Len(W)
  BY <1>1 DEF TypeOK
<1>6. x \in Seq(Lines)  BY <1>1, <1>5, Stretch
<1>7. SubSeq(W, 1, fed + n) = SubSeq(W, 1, fed) \o x
  BY <1>1, <1>5, Cut
<1> HIDE DEF W, x
<1>8. buffer \o x \in Seq(Lines)  BY <1>6, Concatenation DEF TypeOK
<1>9. TypeOK'  BY <1>2, <1>3, <1>4, <1>5, <1>8 DEF TypeOK, W, x
<1>10. Waits'  BY <1>3 DEF Waits
<1>11. buffer' = buffer \o x /\ Fed' = Fed \o x  BY <1>2, <1>4, <1>7 DEF Fed, W, x
<1> QED BY <1>2, <1>3, <1>6, <1>9, <1>10, <1>11 DEF W

IInv == TypeOK /\ Waits /\ Lossless

LEMMA InitInv == ASSUME ConstantsOK, Init PROVE IInv
<1>1. Len(Wire(stream)) \in Nat /\ Wire(stream) \in Seq(Lines)  BY StreamType DEF Init
<1>2. TypeOK
  <2>1. <<>> \in Seq(Lines)  OBVIOUS
  <2>2. fed \in 0..Len(Wire(stream))  BY <1>1 DEF Init
  <2> QED BY <2>1, <2>2 DEF Init, TypeOK, States
<1>3. Waits  BY DEF Init, Waits
<1>4. Lossless
  <2>1. Fed = <<>>  BY <1>1 DEF Init, Fed
  <2>2. out \o buffer = <<>>  BY Neutral DEF Init
  <2> QED BY <2>1, <2>2 DEF Lossless
<1> QED BY <1>2, <1>3, <1>4 DEF IInv

LEMMA NextInv == ASSUME ConstantsOK, IInv, [Next]_vars PROVE IInv'
<1>1. TypeOK /\ Waits /\ Theirs(out \o buffer) = Theirs(Fed)  BY DEF IInv, Lossless
<1>2. CASE Feed
  <2>1. /\ TypeOK' /\ Waits' /\ out' = out
        /\ \E x \in Seq(Lines) : buffer' = buffer \o x /\ Fed' = Fed \o x
    BY <1>1, <1>2, Fed1
  <2>2. PICK x \in Seq(Lines) : buffer' = buffer \o x /\ Fed' = Fed \o x  BY <2>1
  <2>3. out \in Seq(Lines) /\ buffer \in Seq(Lines) /\ Fed \in Seq(Lines)
    <3>1. Wire(stream) \in Seq(Lines) /\ fed \in Nat /\ fed <= Len(Wire(stream))
      <4>1. stream \in Streams /\ fed \in 0..Len(Wire(stream))  BY <1>1 DEF TypeOK
      <4>2. Wire(stream) \in Seq(Lines) /\ Len(Wire(stream)) \in Nat  BY <4>1, StreamType
      <4>3. \A n \in Nat : \A f \in 0..n : f \in Nat /\ f <= n  OBVIOUS
      <4> QED BY <4>1, <4>2, <4>3
    <3>2. Fed \in Seq(Lines)  BY <3>1, Popped DEF Fed
    <3> QED BY <1>1, <3>2 DEF TypeOK
  <2>4. out \o buffer \in Seq(Lines)  BY <2>3, Concatenation
  <2>5. Theirs((out \o buffer) \o x) = Theirs(Fed \o x)
        /\ (out \o buffer) \o x = out \o (buffer \o x)
    <3>1. Theirs((out \o buffer) \o x) = Theirs(out \o buffer) \o Theirs(x)
      BY <2>4, TheirsConcat
    <3>2. Theirs(Fed \o x) = Theirs(Fed) \o Theirs(x)  BY <2>3, TheirsConcat
    <3> QED BY <1>1, <2>3, <3>1, <3>2, Associative
  <2>6. Theirs(out' \o buffer') = Theirs(Fed')
    BY <2>1, <2>2, <2>5
  <2>7. Lossless'  BY <2>6 DEF Lossless, Theirs
  <2> QED BY <2>1, <2>7 DEF IInv
<1>3. CASE LoopStep
  <2>1. Moves  BY <1>1, <1>3, LoopStepMoves
  <2>2. Fed' = Fed  BY <2>1 DEF Moves, Fed
  <2>3. Theirs(out' \o buffer') = Theirs(Fed')  BY <1>1, <2>1, <2>2 DEF Moves
  <2>4. Lossless'  BY <2>3 DEF Lossless, Theirs
  <2> QED BY <2>1, <2>4 DEF IInv, Moves
<1>4. CASE UNCHANGED vars
  BY <1>4 DEF IInv, vars, TypeOK, Waits, Lossless, Fed, HeadEnd, LineEnd
<1> QED BY <1>2, <1>3, <1>4 DEF Next

(* Lines are lines, counts are counts, and the rewriter is in one of its   *)
(* states.                                                                 *)
THEOREM TypeCorrect == Spec => []TypeOK
<1>1. Init => IInv  BY ConstantsOK, InitInv
<1>2. IInv /\ [Next]_vars => IInv'  BY ConstantsOK, NextInv
<1>3. IInv => TypeOK  BY DEF IInv
<1> QED BY <1>1, <1>2, <1>3, PTL DEF Spec

(* Nothing a client sends is lost, repeated or reordered by feed(), in     *)
(* whatever pieces it comes and whatever its framing says.                 *)
THEOREM NothingIsLost == Spec => []Lossless
<1>1. Init => IInv  BY ConstantsOK, InitInv
<1>2. IInv /\ [Next]_vars => IInv'  BY ConstantsOK, NextInv
<1>3. IInv => Lossless  BY DEF IInv
<1> QED BY <1>1, <1>2, <1>3, PTL DEF Spec

(* Between two calls of feed() no more waits than HEAD_LIMIT, or           *)
(* LINE_LIMIT, allow.                                                      *)
THEOREM BufferStaysBounded == Spec => []BufferBounded
<1>1. Init => IInv  BY ConstantsOK, InitInv
<1>2. IInv /\ [Next]_vars => IInv'  BY ConstantsOK, NextInv
<1>3. ASSUME IInv PROVE BufferBounded
  <2>1. HeadLimit \in Nat \ {0} /\ LineLimit \in Nat \ {0}  BY ConstantsOK DEF ConstantsOK
  <2>2. Len(<<>>) = 0 /\ Len(<<HalfEnd>>) = 1  OBVIOUS
  <2>3. 0 <= HeadLimit /\ 0 <= LineLimit /\ 1 <= LineLimit  BY <2>1
  <2> QED BY <1>3, <2>2, <2>3 DEF IInv, Waits, BufferBounded
<1> QED BY <1>1, <1>2, <1>3, PTL DEF Spec

-----------------------------------------------------------------------------
(* Where one sequence begins like another.                                 *)

LEMMA CancelSame ==
  ASSUME NEW x \in Seq(Lines), NEW r \in Seq(Lines), NEW d \in Seq(Lines), NEW w \in Seq(Lines),
         x \o r = d \o w, Len(x) = Len(d)
  PROVE  x = d /\ r = w
<1> DEFINE s == x \o r
           t == d \o w
<1>1. Len(x) \in Nat /\ Len(r) \in Nat /\ Len(d) \in Nat /\ Len(w) \in Nat  OBVIOUS
<1>2. /\ Len(s) = Len(x) + Len(r) /\ \A i \in 1..Len(x) : s[i] = x[i]
      /\ \A i \in 1..Len(r) : s[Len(x) + i] = r[i]
  BY Concatenation
<1>3. /\ Len(t) = Len(d) + Len(w) /\ \A i \in 1..Len(d) : t[i] = d[i]
      /\ \A i \in 1..Len(w) : t[Len(d) + i] = w[i]
  BY Concatenation
<1>4. s = t  OBVIOUS
<1> HIDE DEF s, t
<1>5. Len(r) = Len(w)
  <2>1. Len(x) + Len(r) = Len(x) + Len(w)  BY <1>2, <1>3, <1>4
  <2>2. \A a, b, c \in Nat : a + b = a + c => b = c  OBVIOUS
  <2> QED BY <1>1, <2>1, <2>2
<1>6. \A i \in 1..Len(x) : x[i] = d[i]  BY <1>2, <1>3, <1>4
<1>7. \A i \in 1..Len(r) : r[i] = w[i]  BY <1>2, <1>3, <1>4, <1>5
<1>8. x = d  BY <1>6, SeqEqual
<1>9. r = w  BY <1>5, <1>7, SeqEqual
<1> QED BY <1>8, <1>9

LEMMA Cancel ==
  ASSUME NEW x \in Seq(Lines), NEW r \in Seq(Lines), NEW d \in Seq(Lines), NEW w \in Seq(Lines),
         x \o r = d \o w, Len(x) <= Len(d)
  PROVE  /\ x = SubSeq(d, 1, Len(x)) /\ r = SubSeq(d, Len(x) + 1, Len(d)) \o w
         /\ SubSeq(d, Len(x) + 1, Len(d)) \in Seq(Lines)
<1> DEFINE n == Len(x)
           d1 == SubSeq(d, 1, n)
           d2 == SubSeq(d, n + 1, Len(d))
<1>1. n \in Nat /\ n <= Len(d)  OBVIOUS
<1>2. d1 \in Seq(Lines) /\ Len(d1) = Len(x) /\ d2 \in Seq(Lines) /\ d = d1 \o d2
  <2> HIDE DEF n
  <2>1. d1 \in Seq(Lines) /\ Len(d1) = n /\ d2 \in Seq(Lines) /\ d = d1 \o d2  BY <1>1, Popped
  <2> QED BY <2>1 DEF n
<1> HIDE DEF d1, d2
<1>3. (d1 \o d2) \o w = d1 \o (d2 \o w)  BY <1>2, Associative, SMTT(30)
<1> DEFINE dw == d2 \o w
<1>4. dw \in Seq(Lines)  BY <1>2, Concatenation
<1>5. x \o r = d1 \o dw  BY <1>2, <1>3
<1> HIDE DEF dw
<1>6. x = d1 /\ r = dw  BY <1>2, <1>4, <1>5, CancelSame
<1> QED BY <1>2, <1>6 DEF d1, d2, dw

(* Texts and how they are put together, by name: what the provers know of  *)
(* \o by themselves is in their way where many sequences meet.             *)
Texts == Seq(Lines)
Cat(s, t) == s \o t

LEMMA Cats ==
  /\ <<>> \in Texts /\ \A s \in Texts : Cat(s, <<>>) = s /\ Cat(<<>>, s) = s
  /\ \A s, t \in Texts : Cat(s, t) \in Texts
  /\ \A s, t, u \in Texts : Cat(Cat(s, t), u) = Cat(s, Cat(t, u))
<1>1. <<>> \in Texts /\ \A s \in Texts : Cat(s, <<>>) = s /\ Cat(<<>>, s) = s
  BY Neutral DEF Texts, Cat
<1>2. \A s, t \in Texts : Cat(s, t) \in Texts  BY Concatenation DEF Texts, Cat
<1>3. \A s, t, u \in Texts : Cat(Cat(s, t), u) = Cat(s, Cat(t, u))
  BY Associative DEF Texts, Cat
<1> QED BY <1>1, <1>2, <1>3

LEMMA CancelCat ==
  ASSUME NEW x \in Texts, NEW r \in Texts, NEW d \in Texts, NEW w \in Texts,
         Cat(x, r) = Cat(d, w)
  PROVE  /\ Len(x) <= Len(d) =>
              /\ x = SubSeq(d, 1, Len(x)) /\ r = Cat(SubSeq(d, Len(x) + 1, Len(d)), w)
              /\ SubSeq(d, Len(x) + 1, Len(d)) \in Texts
              /\ d = Cat(x, SubSeq(d, Len(x) + 1, Len(d)))
         /\ Len(x) = Len(d) => x = d /\ r = w
<1>1. Len(x) = Len(d) => x = d /\ r = w  BY CancelSame DEF Texts, Cat
<1>2. ASSUME Len(x) <= Len(d)
      PROVE  /\ x = SubSeq(d, 1, Len(x)) /\ r = Cat(SubSeq(d, Len(x) + 1, Len(d)), w)
             /\ SubSeq(d, Len(x) + 1, Len(d)) \in Texts
  BY <1>2, Cancel DEF Texts, Cat
<1>3. ASSUME Len(x) <= Len(d) PROVE d = Cat(x, SubSeq(d, Len(x) + 1, Len(d)))
  <2> DEFINE n == Len(x)
  <2>1. n \in Nat /\ n <= Len(d) /\ d \in Seq(Lines)  BY <1>3 DEF Texts
  <2>2. x = SubSeq(d, 1, n)  BY <1>2, <1>3
  <2> HIDE DEF n
  <2>3. d = SubSeq(d, 1, n) \o SubSeq(d, n + 1, Len(d))  BY <2>1, Popped
  <2>4. d = Cat(x, SubSeq(d, n + 1, Len(d)))  BY <2>2, <2>3 DEF Cat
  <2> QED BY <2>4 DEF n
<1> QED BY <1>1, <1>2, <1>3

(* A stretch of a stretch.                                                 *)
LEMMA FurtherOn ==
  ASSUME NEW s \in Seq(Lines), NEW b \in 0..Len(s), NEW n \in Nat, n <= Len(s) - b
  PROVE  LET d == SubSeq(s, b + 1, Len(s)) IN
         /\ d \in Seq(Lines) /\ Len(d) = Len(s) - b /\ \A i \in 1..(Len(s) - b) : d[i] = s[b + i]
         /\ SubSeq(d, n + 1, Len(d)) = SubSeq(s, (b + n) + 1, Len(s))
         /\ b + n \in 0..Len(s)
<1> DEFINE L == Len(s)
           d == SubSeq(s, b + 1, L)
           u == SubSeq(d, n + 1, L - b)
           v == SubSeq(s, (b + n) + 1, L)
<1>1. L \in Nat /\ b \in Nat /\ b <= L /\ b + n \in Nat /\ b + n <= L /\ b + n \in 0..L
      /\ n <= L - b /\ L - b \in Nat /\ (L - b) - n = L - (b + n)
      /\ \A i \in 1..(L - (b + n)) : n + i \in 1..(L - b) /\ b + (n + i) = (b + n) + i
  OBVIOUS
<1>2. d \in Seq(Lines) /\ Len(d) = L - b /\ \A i \in 1..(L - b) : d[i] = s[b + i]
  <2>1. b \in Nat /\ L \in Nat /\ b <= L /\ L <= Len(s)  BY <1>1
  <2> QED BY <2>1, Stretch
<1>3. v \in Seq(Lines) /\ Len(v) = L - (b + n) /\ \A i \in 1..(L - (b + n)) : v[i] = s[(b + n) + i]
  <2>1. b + n \in Nat /\ L \in Nat /\ b + n <= L /\ L <= Len(s)  BY <1>1
  <2> DEFINE c == b + n
  <2> HIDE DEF c
  <2>2. /\ SubSeq(s, c + 1, L) \in Seq(Lines) /\ Len(SubSeq(s, c + 1, L)) = L - c
        /\ \A i \in 1..(L - c) : SubSeq(s, c + 1, L)[i] = s[c + i]
    BY <2>1, Stretch DEF c
  <2> QED BY <2>2 DEF c
<1> HIDE DEF d, L, v
<1>4. u \in Seq(Lines) /\ Len(u) = (L - b) - n /\ \A i \in 1..((L - b) - n) : u[i] = d[n + i]
  BY <1>1, <1>2, Stretch
<1> HIDE DEF u
<1>5. \A i \in 1..Len(u) : u[i] = v[i]  BY <1>1, <1>2, <1>3, <1>4
<1>6. u = v  BY <1>1, <1>3, <1>4, <1>5, SeqEqual
<1> QED BY <1>1, <1>2, <1>6 DEF d, L, u, v

-----------------------------------------------------------------------------
(* The chunked framing of a body, line by line.                            *)

Places ==
  {at \in [place : {"size", "data", "end", "half", "trailers", "long", "done", "over", "broken"},
           left : Nat] : at.place = "data" => at.left # 0}

PlaceSteps(body, g) ==
  /\ g \in [0..Len(body) -> Places]
  /\ g[0] = At("size")
  /\ \A n \in 1..Len(body) : g[n] = Chunk(g[n - 1], body[n])
  /\ Chunks(body) = g[Len(body)].place

Data(n) == [place |-> "data", left |-> n]

LEMMA ChunkIs ==
  ASSUME NEW line \in Lines
  PROVE  /\ line[1] = "size" /\ line # Size(0) =>
              /\ Chunk(At("size"), line) = Data(line[2])
              /\ line[2] \in Nat \ {0}
         /\ Chunk(At("size"), Size(0)) = At("trailers")
         /\ Chunk(At("size"), Part) = At("size")
         /\ line[1] # "size" /\ line # Part => Chunk(At("size"), line) = At("broken")
         /\ Chunk(Data(1), line) = At("end")
         /\ \A n \in Nat \ {0, 1} : Chunk(Data(n), line) = Data(n - 1)
         /\ Chunk(At("end"), Blank) = At("size")
         /\ Chunk(At("end"), HalfEnd) = At("half")
         /\ line # Blank /\ line # HalfEnd => Chunk(At("end"), line) = At("broken")
         /\ Chunk(At("half"), OtherHalf) = At("size")
         /\ line # OtherHalf => Chunk(At("half"), line) = At("broken")
         /\ Chunk(At("trailers"), Blank) = At("done")
         /\ Chunk(At("trailers"), Part) = At("long")
         /\ Chunk(At("long"), Part) = At("long")
         /\ line # Blank /\ line # Part => Chunk(At("trailers"), line) = At("trailers")
         /\ line # Part => Chunk(At("long"), line) = At("trailers")
         /\ Chunk(At("done"), line) = At("over") /\ Chunk(At("over"), line) = At("over")
         /\ Chunk(At("broken"), line) = At("broken")
<1>1. /\ Part[1] = "part" /\ Size(0)[1] = "size" /\ Blank[1] = "blank" /\ HalfEnd[1] = "cr"
      /\ OtherHalf[1] = "lf"
  BY DEF Part, Size, Blank, HalfEnd, OtherHalf
<1>2. ASSUME line[1] = "size", line # Size(0) PROVE line[2] \in Nat \ {0}
  <2>1. line \in {"length", "size"} \X Nat  BY <1>2, LineShape
  <2>2. line[2] = 0 => line = Size(0)  BY <1>2, <2>1 DEF Size
  <2> QED BY <1>2, <2>1, <2>2
<1>3. /\ line[1] = "size" /\ line # Size(0) => Chunk(At("size"), line) = Data(line[2])
      /\ Chunk(At("size"), Size(0)) = At("trailers")
      /\ Chunk(At("size"), Part) = At("size")
      /\ line[1] # "size" /\ line # Part => Chunk(At("size"), line) = At("broken")
  BY <1>1 DEF Chunk, At, Data
<1>4. /\ Chunk(Data(1), line) = At("end")
      /\ \A n \in Nat \ {0, 1} : Chunk(Data(n), line) = Data(n - 1)
  BY DEF Chunk, At, Data
<1>5. /\ Chunk(At("end"), Blank) = At("size")
      /\ Chunk(At("end"), HalfEnd) = At("half")
      /\ line # Blank /\ line # HalfEnd => Chunk(At("end"), line) = At("broken")
      /\ Chunk(At("half"), OtherHalf) = At("size")
      /\ line # OtherHalf => Chunk(At("half"), line) = At("broken")
  BY <1>1 DEF Chunk, At
<1>6. /\ Chunk(At("trailers"), Blank) = At("done")
      /\ Chunk(At("trailers"), Part) = At("long")
      /\ Chunk(At("long"), Part) = At("long")
      /\ line # Blank /\ line # Part => Chunk(At("trailers"), line) = At("trailers")
      /\ line # Part => Chunk(At("long"), line) = At("trailers")
  BY <1>1 DEF Chunk, At
<1>7. /\ Chunk(At("done"), line) = At("over") /\ Chunk(At("over"), line) = At("over")
      /\ Chunk(At("broken"), line) = At("broken")
  BY DEF Chunk, At
<1> QED BY <1>2, <1>3, <1>4, <1>5, <1>6, <1>7

LEMMA ChunkType ==
  ASSUME NEW at \in Places, NEW line \in Lines
  PROVE  Chunk(at, line) \in Places
<1>1. \A p \in {"size", "end", "half", "trailers", "long", "done", "over", "broken"} : At(p) \in Places
  BY DEF At, Places
<1>2. \A n \in Nat \ {0} : Data(n) \in Places  BY DEF Data, Places
<1>3. CASE at.place = "size" /\ line[1] = "size" /\ line # Size(0)
  <2>1. line[2] \in Nat \ {0}  BY <1>3, ChunkIs
  <2>2. line # Part /\ Part[1] = "part"  BY <1>3 DEF Part
  <2>3. Chunk(at, line) = Data(line[2])  BY <1>3, <2>2 DEF Chunk, Data
  <2> QED BY <1>2, <2>1, <2>3
<1>4. CASE at.place = "data" /\ at.left # 1
  <2>1. at.left - 1 \in Nat \ {0}  BY <1>4 DEF Places
  <2>2. Chunk(at, line) = Data(at.left - 1)  BY <1>4 DEF Chunk, Data
  <2> QED BY <1>2, <2>1, <2>2
<1>5. CASE /\ ~ (at.place = "size" /\ line[1] = "size" /\ line # Size(0))
           /\ ~ (at.place = "data" /\ at.left # 1)
  <2>1. \E p \in {"size", "end", "half", "trailers", "long", "done", "over", "broken"} :
          Chunk(at, line) = At(p)
    BY <1>5 DEF Chunk
  <2> QED BY <1>1, <2>1
<1> QED BY <1>3, <1>4, <1>5

LEMMA ChunksRun ==
  ASSUME NEW body \in Seq(Lines)
  PROVE  \E g : PlaceSteps(body, g)
<1> DEFINE N == Len(body)
    S == Places
    F == [x \in (1..N) \X S |-> Chunk(x[2], body[x[1]])]
    Def(g) == [n \in 0..N |-> IF n = 0 THEN At("size") ELSE Chunk(g[n - 1], body[n])]
<1>1. N \in Nat /\ \A n \in 1..N : body[n] \in Lines  OBVIOUS
<1>2. At("size") \in S  BY DEF At, Places
<1>3. F \in [(1..N) \X S -> S]
  <2>1. \A x \in (1..N) \X S : Chunk(x[2], body[x[1]]) \in S
    <3> TAKE x \in (1..N) \X S
    <3>1. x[1] \in 1..N /\ x[2] \in S  OBVIOUS
    <3> QED BY <1>1, <3>1, ChunkType
  <2> QED BY <2>1
<1>4. PICK g : Steps(g, N, S, At("size"), F)
  <2> HIDE DEF F, N, S
  <2> QED BY <1>1, <1>2, <1>3, StepFunction
<1>5. g \in [0..N -> S] /\ g[0] = At("size") /\ \A n \in 1..N : g[n] = Chunk(g[n - 1], body[n])
  <2>1. ASSUME NEW n \in 1..N PROVE g[n] = Chunk(g[n - 1], body[n])
    <3>1. n - 1 \in 0..N  BY <1>1
    <3> HIDE DEF N, S
    <3>2. <<n, g[n - 1]>> \in (1..N) \X S  BY <1>4, <3>1 DEF Steps
    <3>3. F[<<n, g[n - 1]>>] = Chunk(g[n - 1], body[n])  BY <3>2
    <3> QED BY <1>4, <3>3 DEF Steps
  <2> HIDE DEF F, N, S
  <2> QED BY <1>4, <2>1 DEF Steps
<1>6. g = Def(g)
  <2>1. \A n \in 0..N : n = 0 \/ (n # 0 /\ n \in 1..N)  BY <1>1
  <2> HIDE DEF N, S
  <2>2. \A n \in 0..N : g[n] = IF n = 0 THEN At("size") ELSE Chunk(g[n - 1], body[n])
    BY <1>5, <2>1
  <2> QED BY <1>5, <2>2
<1> DEFINE h == CHOOSE g0 : g0 = Def(g0)
<1>7. h = Def(h)
  <2> HIDE DEF Def
  <2> QED BY <1>6
<1>8. Chunks(body) = h[N].place  BY DEF Chunks
<1>9. /\ h[0] = At("size")
      /\ \A n \in 1..N : h[n] = Chunk(h[n - 1], body[n])
      /\ h = [n \in 0..N |-> h[n]]
  <2>1. 0 \in 0..N /\ \A n \in 1..N : n \in 0..N /\ n # 0  BY <1>1
  <2> HIDE DEF h, N
  <2>2. h[0] = At("size")  BY <1>7, <2>1
  <2>3. \A n \in 1..N : h[n] = Chunk(h[n - 1], body[n])  BY <1>7, <2>1
  <2>4. h = [n \in 0..N |-> h[n]]  BY <1>7
  <2> QED BY <2>2, <2>3, <2>4
<1> HIDE DEF h
<1>10. \A n \in 0..N : h[n] \in S
  <2> DEFINE T == {n \in Nat : n <= N => h[n] \in S}
  <2>1. 0 \in T  BY <1>2, <1>9
  <2>2. ASSUME NEW n \in Nat, n \in T PROVE n + 1 \in T
    <3>1. SUFFICES ASSUME n + 1 <= N PROVE h[n + 1] \in S  OBVIOUS
    <3>2. n + 1 \in 1..N /\ (n + 1) - 1 = n /\ n <= N  BY <1>1, <3>1
    <3>3. h[n] \in S  BY <2>2, <3>2
    <3>4. h[n + 1] = Chunk(h[n], body[n + 1]) /\ body[n + 1] \in Lines  BY <1>1, <1>9, <3>2
    <3> HIDE DEF N
    <3> QED BY <3>3, <3>4, ChunkType
  <2> HIDE DEF T
  <2>3. Nat \subseteq T  BY <2>1, <2>2, NatSet
  <2> QED BY <1>1, <2>3 DEF T
<1>11. h \in [0..N -> S]  BY <1>9, <1>10
<1> QED BY <1>8, <1>9, <1>11 DEF PlaceSteps

(* As long as every line leads from these places to these, it stays there. *)
LEMMA Stays ==
  ASSUME NEW body \in Seq(Lines), NEW g, PlaceSteps(body, g),
         NEW b \in 0..Len(body), NEW e \in 0..Len(body), b <= e, NEW T, g[b] \in T,
         \A i \in 1..Len(body) : b < i /\ i <= e => \A at \in T : Chunk(at, body[i]) \in T
  PROVE  g[e] \in T
<1> DEFINE U == {n \in Nat : b + n <= e => g[b + n] \in T}
<1>1. b \in Nat /\ e \in Nat /\ Len(body) \in Nat /\ e <= Len(body)  OBVIOUS
<1>2. 0 \in U
  <2>1. b + 0 = b  BY <1>1
  <2> QED BY <2>1
<1>3. ASSUME NEW n \in Nat, n \in U PROVE n + 1 \in U
  <2>1. SUFFICES ASSUME b + (n + 1) <= e PROVE g[b + (n + 1)] \in T  OBVIOUS
  <2>2. /\ b + (n + 1) \in 1..Len(body) /\ b < b + (n + 1) /\ (b + (n + 1)) - 1 = b + n
        /\ b + n <= e
    BY <1>1, <2>1
  <2>3. g[b + n] \in T  BY <1>3, <2>2
  <2>4. g[b + (n + 1)] = Chunk(g[b + n], body[b + (n + 1)])
    BY <2>2 DEF PlaceSteps
  <2> QED BY <2>1, <2>2, <2>3, <2>4
<1>4. Nat \subseteq U
  <2> HIDE DEF U
  <2> QED BY <1>2, <1>3, NatSet
<1>5. e - b \in Nat /\ b + (e - b) = e /\ b + (e - b) <= e  BY <1>1
<1>6. e - b \in U
  <2> HIDE DEF U
  <2> QED BY <1>4, <1>5
<1> QED BY <1>5, <1>6

(* A body that was broken stays broken, and nothing follows a whole one.   *)
LEMMA BrokenStays ==
  ASSUME NEW body \in Seq(Lines), NEW g, PlaceSteps(body, g), NEW b \in 0..Len(body),
         g[b] = At("broken")
  PROVE  Chunks(body) # "done"
<1>1. Len(body) \in 0..Len(body) /\ b <= Len(body) /\ \A i \in 1..Len(body) : body[i] \in Lines
  OBVIOUS
<1>2. \A i \in 1..Len(body) : \A at \in {At("broken")} : Chunk(at, body[i]) \in {At("broken")}
  BY <1>1, ChunkIs
<1>3. g[Len(body)] \in {At("broken")}  BY <1>1, <1>2, Stays
<1> QED BY <1>3 DEF PlaceSteps, At

LEMMA DoneIsEnd ==
  ASSUME NEW body \in Seq(Lines), NEW g, PlaceSteps(body, g), NEW b \in 0..Len(body),
         g[b] = At("done"), Chunks(body) \in {"done", "broken"}
  PROVE  b = Len(body) /\ Chunks(body) = "done"
<1>1. Len(body) \in 0..Len(body) /\ b <= Len(body) /\ \A i \in 1..Len(body) : body[i] \in Lines
      /\ Len(body) \in Nat /\ b \in Nat
  OBVIOUS
<1>2. b = Len(body)
  <2>1. SUFFICES ASSUME b # Len(body) PROVE FALSE  OBVIOUS
  <2>2. b + 1 \in 1..Len(body) /\ b + 1 \in 0..Len(body) /\ (b + 1) - 1 = b /\ b + 1 <= Len(body)
    BY <1>1, <2>1
  <2>3. g[b + 1] = Chunk(g[b], body[b + 1])  BY <2>2 DEF PlaceSteps
  <2>4. g[b + 1] \in {At("over")}  BY <1>1, <2>2, <2>3, ChunkIs
  <2>5. \A i \in 1..Len(body) : \A at \in {At("over")} : Chunk(at, body[i]) \in {At("over")}
    BY <1>1, ChunkIs
  <2>6. g[Len(body)] \in {At("over")}  BY <1>1, <2>2, <2>4, <2>5, Stays
  <2> QED BY <2>6 DEF PlaceSteps, At
<1> QED BY <1>2 DEF PlaceSteps, At

(* Parts do not end a line, so a body does not end with one.               *)
LEMMA PartsStay ==
  ASSUME NEW body \in Seq(Lines), NEW g, PlaceSteps(body, g),
         NEW b \in 0..Len(body), NEW e \in 0..Len(body), b <= e,
         \A i \in 1..Len(body) : b < i /\ i <= e => body[i] = Part
  PROVE  /\ g[b] = At("size") => g[e] = At("size")
         /\ g[b] = At("trailers") => g[e] = IF e = b THEN At("trailers") ELSE At("long")
<1>1. Part \in Lines  BY DEF Lines
<1>2. ASSUME g[b] = At("size") PROVE g[e] = At("size")
  <2>1. Chunk(At("size"), Part) = At("size")  BY <1>1, ChunkIs
  <2>2. g[b] \in {At("size")}  BY <1>2
  <2>3. \A i \in 1..Len(body) : b < i /\ i <= e =>
          \A at \in {At("size")} : Chunk(at, body[i]) \in {At("size")}
    BY <2>1
  <2>4. g[e] \in {At("size")}  BY <2>2, <2>3, Stays
  <2> QED BY <2>4
<1>3. ASSUME g[b] = At("trailers"), e # b PROVE g[e] = At("long")
  <2>1. /\ b + 1 \in 1..Len(body) /\ b + 1 \in 0..Len(body) /\ (b + 1) - 1 = b /\ b + 1 <= e
        /\ b < b + 1 /\ \A i \in 1..Len(body) : b + 1 < i => b < i
    BY <1>3
  <2>2. g[b + 1] = Chunk(g[b], body[b + 1]) /\ body[b + 1] = Part  BY <2>1 DEF PlaceSteps
  <2>3. Chunk(At("trailers"), Part) = At("long") /\ Chunk(At("long"), Part) = At("long")
    BY <1>1, ChunkIs
  <2>4. g[b + 1] \in {At("long")}  BY <1>3, <2>2, <2>3
  <2>5. \A i \in 1..Len(body) : b + 1 < i /\ i <= e =>
          \A at \in {At("long")} : Chunk(at, body[i]) \in {At("long")}
    BY <2>1, <2>3
  <2>6. g[e] \in {At("long")}  BY <2>1, <2>4, <2>5, Stays
  <2> QED BY <2>6
<1> QED BY <1>2, <1>3

(* A chunk is as long as its size says.                                    *)
LEMMA DataRuns ==
  ASSUME NEW body \in Seq(Lines), NEW g, PlaceSteps(body, g), NEW b \in 0..Len(body),
         NEW n \in Nat \ {0}, g[b] = Data(n)
  PROVE  \A i \in 0..n : b + i <= Len(body) =>
           g[b + i] = IF i = n THEN At("end") ELSE Data(n - i)
<1> DEFINE Q(i) == g[b + i] = IF i = n THEN At("end") ELSE Data(n - i)
           U == {i \in Nat : i <= n /\ b + i <= Len(body) => Q(i)}
<1>1. b \in Nat /\ Len(body) \in Nat /\ \A i \in 1..Len(body) : body[i] \in Lines  OBVIOUS
<1>2. Q(0)
  <2>1. b + 0 = b /\ n - 0 = n /\ 0 # n  BY <1>1
  <2> QED BY <2>1
<1>3. ASSUME NEW i \in Nat, i + 1 <= n, b + (i + 1) <= Len(body), Q(i) PROVE Q(i + 1)
  <2>1. /\ b + (i + 1) \in 1..Len(body) /\ (b + (i + 1)) - 1 = b + i /\ i # n
        /\ n - i \in Nat \ {0} /\ (n - i) - 1 = n - (i + 1) /\ (n - i = 1 <=> i + 1 = n)
    BY <1>1, <1>3
  <2>2. g[b + (i + 1)] = Chunk(g[b + i], body[b + (i + 1)]) /\ body[b + (i + 1)] \in Lines
    BY <1>1, <2>1 DEF PlaceSteps
  <2>3. g[b + i] = Data(n - i)  BY <1>3, <2>1
  <2>4. CASE i + 1 = n
    <3>1. g[b + i] = Data(1)  BY <2>1, <2>3, <2>4
    <3> QED BY <2>2, <2>4, <3>1, ChunkIs
  <2>5. CASE i + 1 # n
    <3>1. n - i \in Nat \ {0, 1}  BY <2>1, <2>5
    <3>2. Chunk(Data(n - i), body[b + (i + 1)]) = Data((n - i) - 1)  BY <2>2, <3>1, ChunkIs
    <3> QED BY <2>1, <2>2, <2>3, <2>5, <3>2
  <2> QED BY <2>4, <2>5
<1> HIDE DEF Q
<1>4. \A i \in Nat : i + 1 <= n /\ b + (i + 1) <= Len(body) => i <= n /\ b + i <= Len(body)
  BY <1>1
<1>5. Nat \subseteq U
  <2>1. 0 \in U  BY <1>2
  <2>2. ASSUME NEW i \in Nat, i \in U PROVE i + 1 \in U  BY <1>3, <1>4, <2>2
  <2> HIDE DEF U
  <2> QED BY <2>1, <2>2, NatSet
<1>6. \A i \in 0..n : i \in Nat /\ i <= n  OBVIOUS
<1> QED BY <1>5, <1>6 DEF Q

-----------------------------------------------------------------------------
(* What is left of a stream from its k-th request on, as it comes and as   *)
(* it should come out.                                                     *)

Passed(ms, k) == \A j \in 1..(k - 1) : Parsable(ms[j])

Rewrites(ms) ==
  [i \in DOMAIN ms |-> IF \A j \in 1..(i - 1) : Parsable(ms[j]) THEN Rewritten(ms[i])
                       ELSE Wire(<<ms[i]>>)]

From(ms, k) == (CHOOSE g : TailsOf(Segments(ms), g))[k]
Due(ms, k) == (CHOOSE g : TailsOf(Rewrites(ms), g))[k]
Left(ms, k, b) == SubSeq(ms[k].body, b + 1, Len(ms[k].body))

(* The head of a message with its empty line, as it comes and stamped.     *)
Top(m) == Cat(m.head, <<Blank>>)
Stamped(m) == Cat(Cat(<<m.head[1], Stamp>>, Strip(Tail(m.head))), <<Blank>>)

LEMMA MessageParts ==
  ASSUME NEW m \in Messages, Framed(m)
  PROVE  /\ m.head \in Texts /\ m.body \in Texts /\ m.head # <<>>
         /\ m.head[1] \in Lines /\ Tail(m.head) \in Texts
         /\ <<Blank>> \in Texts /\ <<m.head[1], Stamp>> \in Texts /\ Strip(Tail(m.head)) \in Texts
         /\ Top(m) \in Texts /\ Stamped(m) \in Texts
         /\ Rewritten(m) = Cat(Stamped(m), m.body) /\ Rewritten(m) \in Texts
<1>1. m.head \in Seq(Lines) /\ m.body \in Seq(Lines)  BY DEF Messages
<1>2. m.head # <<>>  BY DEF Framed
<1>3. m.head[1] \in Lines /\ Tail(m.head) \in Seq(Lines)
  <2> DEFINE h == m.head
  <2>1. h \in Seq(Lines) /\ h # <<>>  BY <1>1, <1>2
  <2> HIDE DEF h
  <2>2. h[1] \in Lines /\ Tail(h) \in Seq(Lines)  BY <2>1
  <2> QED BY <2>2 DEF h
<1>4. Strip(Tail(m.head)) \in Seq(Lines)  BY <1>3, WithoutType DEF Strip
<1>5. <<Blank>> \in Seq(Lines) /\ <<m.head[1], Stamp>> \in Seq(Lines)
  <2>1. Blank \in Lines /\ Stamp \in Lines  BY DEF Lines
  <2> QED BY <1>3, <2>1, OneOrTwo
<1>6. m.head \in Texts /\ m.body \in Texts /\ Tail(m.head) \in Texts
      /\ <<Blank>> \in Texts /\ <<m.head[1], Stamp>> \in Texts /\ Strip(Tail(m.head)) \in Texts
  BY <1>1, <1>3, <1>4, <1>5 DEF Texts
<1>7. Top(m) \in Texts /\ Stamped(m) \in Texts  BY <1>6, Cats DEF Top, Stamped
<1>8. Rewritten(m) = Cat(Stamped(m), m.body)  BY DEF Rewritten, Stamped, Cat
<1>9. Rewritten(m) \in Texts
  <2>1. m.body \in Texts /\ Stamped(m) \in Texts  BY <1>6, <1>7
  <2>2. Cat(Stamped(m), m.body) \in Texts  BY <2>1, Cats
  <2> QED BY <1>8, <2>2
<1>10. m.head[1] \in Lines  BY <1>3
<1> QED BY <1>2, <1>6, <1>7, <1>8, <1>9, <1>10, Zenon

LEMMA WireOne ==
  ASSUME NEW m \in Messages
  PROVE  Wire(<<m>>) = m.head \o <<Blank>> \o m.body
<1> DEFINE ms == <<m>>
           segs == Segments(ms)
<1>1. ms \in Seq(Messages) /\ Len(ms) = 1 /\ DOMAIN ms = 1..1 /\ ms[1] = m  OBVIOUS
<1> HIDE DEF ms
<1>2. segs \in Seq(Seq(Lines)) /\ Len(segs) = 1  BY <1>1, SegmentsType
<1>3. segs[1] = m.head \o <<Blank>> \o m.body
  <2>1. 1 \in DOMAIN ms  BY <1>1
  <2>2. segs[1] = ms[1].head \o <<Blank>> \o ms[1].body  BY <2>1 DEF Segments
  <2> QED BY <1>1, <2>2
<1>4. segs[1] \in Seq(Lines)  BY <1>2
<1> HIDE DEF segs
<1>5. PICK g : TailsOf(segs, g)  BY <1>2, FlattenTails
<1>6. 1 \in 1..1 /\ 1 + 1 = 2  OBVIOUS
<1>7. g[1] = segs[1] \o g[2] /\ g[2] = <<>> /\ FlattenSeq(segs) = g[1]
  BY <1>2, <1>5, <1>6 DEF TailsOf
<1>8. segs[1] \o <<>> = segs[1]  BY <1>4, Neutral
<1>9. Wire(ms) = FlattenSeq(segs)  BY DEF Wire, segs, Segments
<1> QED BY <1>3, <1>7, <1>8, <1>9 DEF ms

LEMMA RewritesType ==
  ASSUME NEW ms \in Seq(Messages), \A i \in 1..Len(ms) : Framed(ms[i])
  PROVE  Rewrites(ms) \in Seq(Seq(Lines)) /\ Len(Rewrites(ms)) = Len(ms)
<1>1. /\ DOMAIN ms = 1..Len(ms) /\ Len(ms) \in Nat /\ \A i \in 1..Len(ms) : ms[i] \in Messages
  OBVIOUS
<1>2. \A i \in 1..Len(ms) : Rewritten(ms[i]) \in Seq(Lines)
  BY <1>1, MessageParts DEF Texts
<1>3. \A i \in 1..Len(ms) : Wire(<<ms[i]>>) \in Seq(Lines)
  <2> TAKE i \in 1..Len(ms)
  <2>1. <<ms[i]>> \in Seq(Messages)  BY <1>1
  <2> QED BY <2>1, WireTails
<1>4. Rewrites(ms) \in [1..Len(ms) -> Seq(Lines)]  BY <1>1, <1>2, <1>3 DEF Rewrites
<1> QED BY <1>1, <1>4

LEMMA TailsAre ==
  ASSUME NEW ms \in Seq(Messages), \A i \in 1..Len(ms) : Framed(ms[i])
  PROVE  /\ From(ms, 1) = Wire(ms) /\ Due(ms, 1) = FlattenSeq(Rewrites(ms))
         /\ From(ms, Len(ms) + 1) = <<>> /\ Due(ms, Len(ms) + 1) = <<>>
         /\ \A k \in 1..(Len(ms) + 1) : From(ms, k) \in Texts /\ Due(ms, k) \in Texts
         /\ \A k \in 1..Len(ms) :
              /\ From(ms, k) = Cat(Top(ms[k]), Cat(ms[k].body, From(ms, k + 1)))
              /\ Passed(ms, k) => Due(ms, k) = Cat(Stamped(ms[k]), Cat(ms[k].body, Due(ms, k + 1)))
              /\ ~Passed(ms, k) => Due(ms, k) = Cat(Top(ms[k]), Cat(ms[k].body, Due(ms, k + 1)))
<1> DEFINE f == CHOOSE g : TailsOf(Segments(ms), g)
           d == CHOOSE g : TailsOf(Rewrites(ms), g)
           N == Len(ms)
<1>1. N \in Nat /\ DOMAIN ms = 1..N /\ \A k \in 1..N : ms[k] \in Messages  OBVIOUS
<1>2. TailsOf(Segments(ms), f) /\ Len(Segments(ms)) = N
  <2>1. \E g : TailsOf(Segments(ms), g)  BY WireTails
  <2> QED BY <2>1, SegmentsType
<1>3. TailsOf(Rewrites(ms), d) /\ Len(Rewrites(ms)) = N
  <2>1. \E g : TailsOf(Rewrites(ms), g)  BY RewritesType, FlattenTails
  <2> QED BY <2>1, RewritesType
<1> HIDE DEF f, d, N
<1>4. \A k : From(ms, k) = f[k] /\ Due(ms, k) = d[k]  BY DEF From, Due, f, d
<1>5. f[1] = Wire(ms) /\ d[1] = FlattenSeq(Rewrites(ms)) /\ f[N + 1] = <<>> /\ d[N + 1] = <<>>
      /\ \A k \in 1..(N + 1) : f[k] \in Texts /\ d[k] \in Texts
  BY <1>2, <1>3 DEF TailsOf, Texts, Wire, Segments
<1>6. ASSUME NEW k \in 1..N
      PROVE  /\ f[k] = Cat(Top(ms[k]), Cat(ms[k].body, f[k + 1]))
             /\ Passed(ms, k) => d[k] = Cat(Stamped(ms[k]), Cat(ms[k].body, d[k + 1]))
             /\ ~Passed(ms, k) => d[k] = Cat(Top(ms[k]), Cat(ms[k].body, d[k + 1]))
  <2>1. k + 1 \in 1..(N + 1)  BY <1>1
  <2>2. f[k + 1] \in Texts /\ d[k + 1] \in Texts  BY <1>5, <2>1
  <2>3. ms[k] \in Messages /\ Framed(ms[k])  BY <1>1 DEF N
  <2>4. Top(ms[k]) \in Texts /\ Stamped(ms[k]) \in Texts /\ ms[k].body \in Texts
    BY <2>3, MessageParts
  <2>5. f[k] = Cat(Cat(Top(ms[k]), ms[k].body), f[k + 1])
    <3>1. f[k] = Segments(ms)[k] \o f[k + 1]  BY <1>2 DEF TailsOf
    <3>2. Segments(ms)[k] = ms[k].head \o <<Blank>> \o ms[k].body  BY <1>1 DEF Segments
    <3> QED BY <3>1, <3>2 DEF Cat, Top
  <2>6. d[k] = Rewrites(ms)[k] \o d[k + 1]  BY <1>3 DEF TailsOf
  <2>7. Rewrites(ms)[k] = IF Passed(ms, k) THEN Rewritten(ms[k]) ELSE Wire(<<ms[k]>>)
    BY <1>1 DEF Rewrites, Passed
  <2>8. Passed(ms, k) => d[k] = Cat(Cat(Stamped(ms[k]), ms[k].body), d[k + 1])
    <3>1. Rewritten(ms[k]) = Cat(Stamped(ms[k]), ms[k].body)  BY <2>3, MessageParts
    <3> QED BY <2>6, <2>7, <3>1 DEF Cat
  <2>9. ~Passed(ms, k) => d[k] = Cat(Cat(Top(ms[k]), ms[k].body), d[k + 1])
    <3>1. Wire(<<ms[k]>>) = ms[k].head \o <<Blank>> \o ms[k].body  BY <2>3, WireOne
    <3> QED BY <2>6, <2>7, <3>1 DEF Cat, Top
  <2> QED BY <2>2, <2>4, <2>5, <2>8, <2>9, Cats, ZenonT(30)
<1> QED BY <1>4, <1>5, <1>6 DEF N

(* Behind a request whose framing cannot be parsed, all comes as it came.  *)
LEMMA Behind ==
  ASSUME NEW ms \in Seq(Messages), \A i \in 1..Len(ms) : Framed(ms[i]),
         NEW k \in 1..Len(ms), ~Parsable(ms[k])
  PROVE  Due(ms, k + 1) = From(ms, k + 1)
<1> DEFINE N == Len(ms)
           Q(j) == Due(ms, j) = From(ms, j)
           U == {n \in Nat : n <= N - k => Q((N + 1) - n)}
<1>1. N \in Nat /\ k \in Nat /\ k <= N  OBVIOUS
<1>2. 0 \in U
  <2>1. (N + 1) - 0 = N + 1  BY <1>1
  <2>2. Q(N + 1)  BY TailsAre
  <2> HIDE DEF Q, N
  <2> QED BY <2>1, <2>2
<1>3. ASSUME NEW n \in Nat, n \in U PROVE n + 1 \in U
  <2>1. SUFFICES ASSUME n + 1 <= N - k PROVE Q((N + 1) - (n + 1))
    <3> HIDE DEF Q
    <3> QED OBVIOUS
  <2> DEFINE j == (N + 1) - (n + 1)
  <2>2. j \in 1..N /\ j + 1 = (N + 1) - n /\ n <= N - k /\ k \in 1..(j - 1)
    BY <1>1, <2>1
  <2>3. Q(j + 1)
    <3> HIDE DEF Q, j
    <3> QED BY <1>3, <2>2
  <2> HIDE DEF j
  <2>4. ~Passed(ms, j)  BY <2>2 DEF Passed
  <2>5. /\ From(ms, j) = Cat(Top(ms[j]), Cat(ms[j].body, From(ms, j + 1)))
        /\ Due(ms, j) = Cat(Top(ms[j]), Cat(ms[j].body, Due(ms, j + 1)))
    BY <2>2, <2>4, TailsAre
  <2>6. Q(j)  BY <2>3, <2>5
  <2> QED BY <2>6 DEF j
<1> HIDE DEF Q
<1>4. Nat \subseteq U
  <2> HIDE DEF U
  <2> QED BY <1>2, <1>3, NatSet
<1>5. N - k \in Nat /\ (N + 1) - (N - k) = k + 1 /\ N - k <= N - k  BY <1>1
<1>6. N - k \in U
  <2> HIDE DEF U, N
  <2> QED BY <1>4, <1>5
<1>7. Q((N + 1) - (N - k))  BY <1>5, <1>6
<1>8. Q(k + 1)
  <2> HIDE DEF N
  <2> QED BY <1>5, <1>7
<1> QED BY <1>8 DEF Q

-----------------------------------------------------------------------------
(* Where the rewriter is in a stream: r is what it has not passed on yet,  *)
(* buffered or still to come, and o what it has.                           *)

IsStream(ms) == ms \in Seq(Messages) /\ \A i \in 1..Len(ms) : Framed(ms[i])

(* Before the k-th request.                                                *)
AtHead(ms, k, o, r) ==
  /\ Passed(ms, k)
  /\ r = From(ms, k)
  /\ Cat(o, Due(ms, k)) = Due(ms, 1)

(* Behind the b-th line of its body.                                       *)
Inside(ms, k, b, o, r) ==
  /\ Passed(ms, k)
  /\ r = Cat(Left(ms, k, b), From(ms, k + 1))
  /\ Cat(o, Cat(Left(ms, k, b), Due(ms, k + 1))) = Due(ms, 1)

Place(body, b) == (CHOOSE g : PlaceSteps(body, g))[b]

ChunkStates == {"chunk_size", "chunk_data", "chunk_end", "trailers"}

Mode(s, left) ==
  CASE s = "chunk_size" -> At("size")
    [] s = "chunk_data" -> Data(left)
    [] s = "chunk_end" -> At("end")
    [] s = "trailers" -> At("trailers")

ByLength(m, b, left) == ~Coded(m) /\ Parsable(m) /\ b + left = Len(m.body) /\ left # 0

ByChunks(m, b, s, left) == Coded(m) /\ ChunkedLast(m) /\ Place(m.body, b) = Mode(s, left)

InSync(ms, s, left, o, r) ==
  /\ s = "head" => \E k \in 1..(Len(ms) + 1) : AtHead(ms, k, o, r)
  /\ s = "body" =>
       \E k \in 1..Len(ms) : \E b \in 0..Len(ms[k].body) :
         Inside(ms, k, b, o, r) /\ ByLength(ms[k], b, left)
  /\ s \in ChunkStates =>
       \E k \in 1..Len(ms) : \E b \in 0..Len(ms[k].body) :
         Inside(ms, k, b, o, r) /\ ByChunks(ms[k], b, s, left)
  /\ s = "passthrough" => Cat(o, r) = Due(ms, 1)

LEMMA Spot ==
  ASSUME NEW ms, IsStream(ms), NEW k \in 1..Len(ms)
  PROVE  /\ Len(ms) \in Nat /\ ms[k] \in Messages /\ Framed(ms[k]) /\ ms[k].body \in Seq(Lines)
         /\ Len(ms[k].body) \in Nat
         /\ k + 1 \in 1..(Len(ms) + 1) /\ k \in 1..(Len(ms) + 1)
         /\ From(ms, k + 1) \in Texts /\ Due(ms, k + 1) \in Texts
         /\ \A b \in 0..Len(ms[k].body) :
              /\ Left(ms, k, b) \in Texts /\ Len(Left(ms, k, b)) = Len(ms[k].body) - b
              /\ \A i \in 1..(Len(ms[k].body) - b) : Left(ms, k, b)[i] = ms[k].body[b + i]
<1>1. ms \in Seq(Messages) /\ Framed(ms[k])  BY DEF IsStream
<1>2. Len(ms) \in Nat /\ ms[k] \in Messages  BY <1>1
<1>3. ms[k].body \in Seq(Lines)  BY <1>2 DEF Messages
<1>4. Len(ms[k].body) \in Nat  BY <1>3
<1>5. k + 1 \in 1..(Len(ms) + 1) /\ k \in 1..(Len(ms) + 1)  BY <1>2
<1>6. From(ms, k + 1) \in Texts /\ Due(ms, k + 1) \in Texts  BY <1>5, TailsAre DEF IsStream
<1> DEFINE s == ms[k].body
<1>7. ASSUME NEW b \in 0..Len(s)
      PROVE  /\ SubSeq(s, b + 1, Len(s)) \in Texts /\ Len(SubSeq(s, b + 1, Len(s))) = Len(s) - b
             /\ \A i \in 1..(Len(s) - b) : SubSeq(s, b + 1, Len(s))[i] = s[b + i]
  <2> HIDE DEF s
  <2>1. s \in Seq(Lines) /\ Len(s) \in Nat  BY <1>3, <1>4 DEF s
  <2>2. b \in Nat /\ b <= Len(s)  BY <2>1
  <2> QED BY <2>1, <2>2, Stretch DEF Texts
<1> HIDE DEF s
<1>8. \A b : Left(ms, k, b) = SubSeq(s, b + 1, Len(s))  BY DEF Left, s
<1> QED BY <1>1, <1>2, <1>3, <1>4, <1>5, <1>6, <1>7, <1>8 DEF s

(* The lines of the buffer go on where the body does.                      *)
LEMMA Peek ==
  ASSUME NEW ms, IsStream(ms), NEW k \in 1..Len(ms), NEW b \in 0..Len(ms[k].body),
         NEW o, NEW bf \in Texts, NEW ah \in Texts, Inside(ms, k, b, o, Cat(bf, ah))
  PROVE  /\ \A i \in 1..Len(bf) : i <= Len(ms[k].body) - b => bf[i] = ms[k].body[b + i]
         /\ Len(bf) + Len(ah) >= Len(ms[k].body) - b
<1> DEFINE d == Left(ms, k, b)
           w == From(ms, k + 1)
           L == Len(ms[k].body) - b
<1>1. /\ d \in Texts /\ w \in Texts /\ Len(d) = L /\ \A i \in 1..L : d[i] = ms[k].body[b + i]
      /\ L \in Nat
  <2>1. Len(ms[k].body) \in Nat  BY Spot
  <2>2. Len(ms[k].body) - b \in Nat  BY <2>1
  <2> QED BY <2>2, Spot
<1>2. Cat(bf, ah) = Cat(d, w)  BY DEF Inside
<1> HIDE DEF d, w, L
<1>3. /\ Len(Cat(bf, ah)) = Len(bf) + Len(ah) /\ \A i \in 1..Len(bf) : Cat(bf, ah)[i] = bf[i]
      /\ Len(Cat(d, w)) = Len(d) + Len(w) /\ \A i \in 1..Len(d) : Cat(d, w)[i] = d[i]
      /\ Len(bf) \in Nat /\ Len(ah) \in Nat /\ Len(w) \in Nat
  <2>1. /\ Len(Cat(bf, ah)) = Len(bf) + Len(ah) /\ \A i \in 1..Len(bf) : Cat(bf, ah)[i] = bf[i]
        /\ Len(bf) \in Nat /\ Len(ah) \in Nat
    BY Concatenation DEF Cat, Texts
  <2>2. /\ Len(Cat(d, w)) = Len(d) + Len(w) /\ \A i \in 1..Len(d) : Cat(d, w)[i] = d[i]
        /\ Len(w) \in Nat
    <3>1. \A s, t \in Seq(Lines) :
            /\ Len(s \o t) = Len(s) + Len(t) /\ \A i \in 1..Len(s) : (s \o t)[i] = s[i]
            /\ Len(t) \in Nat
      BY Concatenation
    <3>2. d \in Seq(Lines) /\ w \in Seq(Lines)  BY <1>1 DEF Texts
    <3> QED BY <3>1, <3>2 DEF Cat
  <2> QED BY <2>1, <2>2
<1>4. ASSUME NEW i \in 1..Len(bf), i <= L PROVE bf[i] = ms[k].body[b + i]
  <2>1. i \in 1..L  BY <1>1, <1>3, <1>4
  <2> QED BY <1>1, <1>2, <1>3, <2>1
<1>5. Len(bf) + Len(ah) >= L  BY <1>1, <1>2, <1>3
<1> QED BY <1>4, <1>5 DEF L

(* Some of them go out.                                                    *)
LEMMA Advance ==
  ASSUME NEW ms, IsStream(ms), NEW k \in 1..Len(ms), NEW b \in 0..Len(ms[k].body),
         NEW o \in Texts, NEW x \in Texts, NEW bf \in Texts, NEW ah \in Texts,
         Inside(ms, k, b, o, Cat(Cat(x, bf), ah)), Len(x) <= Len(ms[k].body) - b
  PROVE  /\ Inside(ms, k, b + Len(x), Cat(o, x), Cat(bf, ah))
         /\ b + Len(x) \in 0..Len(ms[k].body)
<1> DEFINE d == Left(ms, k, b)
           w == From(ms, k + 1)
           e == Due(ms, k + 1)
           n == Len(x)
<1>1. d \in Texts /\ w \in Texts /\ e \in Texts /\ Len(d) = Len(ms[k].body) - b  BY Spot
<1>2. Cat(Cat(x, bf), ah) = Cat(d, w) /\ Cat(o, Cat(d, e)) = Due(ms, 1) /\ Passed(ms, k)
  BY DEF Inside
<1>3. n \in Nat /\ n <= Len(ms[k].body) - b  BY DEF Texts
<1>4. SubSeq(d, n + 1, Len(d)) = Left(ms, k, b + n) /\ b + n \in 0..Len(ms[k].body)
  <2>1. ms[k].body \in Seq(Lines)  BY Spot
  <2> HIDE DEF n
  <2> QED BY <1>3, <2>1, FurtherOn DEF Left
<1> HIDE DEF d, w, e
<1>5. /\ Cat(bf, ah) = Cat(SubSeq(d, n + 1, Len(d)), w)
      /\ Cat(Cat(o, x), Cat(SubSeq(d, n + 1, Len(d)), e)) = Cat(o, Cat(d, e))
  <2> DEFINE d2 == SubSeq(d, Len(x) + 1, Len(d))
             ra == Cat(bf, ah)
  <2>1. ra \in Texts /\ Cat(x, ra) = Cat(d, w) /\ Len(x) <= Len(d)
    <3>1. ra \in Texts /\ Cat(Cat(x, bf), ah) = Cat(x, ra)  BY Cats
    <3>2. Len(x) <= Len(d)  BY <1>1
    <3> HIDE DEF ra
    <3> QED BY <1>2, <3>1, <3>2
  <2> HIDE DEF ra
  <2>2. ra = Cat(d2, w) /\ d2 \in Texts /\ d = Cat(x, d2)
    <3>1. d \in Texts /\ w \in Texts  BY <1>1
    <3> QED BY <2>1, <3>1, CancelCat
  <2> HIDE DEF d2
  <2>3. Cat(d, e) = Cat(x, Cat(d2, e)) /\ Cat(d2, e) \in Texts  BY <1>1, <2>2, Cats
  <2>4. Cat(Cat(o, x), Cat(d2, e)) = Cat(o, Cat(x, Cat(d2, e)))  BY <2>3, Cats
  <2> QED BY <2>2, <2>3, <2>4 DEF d2, ra
<1> HIDE DEF n
<1>6. Inside(ms, k, b + n, Cat(o, x), Cat(bf, ah))
  BY <1>2, <1>4, <1>5 DEF Inside, w, e
<1> QED BY <1>4, <1>6 DEF n

(* The body is over.                                                       *)
LEMMA BodyOver ==
  ASSUME NEW ms, IsStream(ms), NEW k \in 1..Len(ms), NEW o, NEW r,
         Inside(ms, k, Len(ms[k].body), o, r), Parsable(ms[k])
  PROVE  AtHead(ms, k + 1, o, r) /\ k + 1 \in 1..(Len(ms) + 1)
<1> DEFINE L == Len(ms[k].body)
<1>1. L \in Nat /\ L \in 0..L  BY Spot
<1>2. Left(ms, k, L) = <<>>
  <2>1. Left(ms, k, L) \in Texts /\ Len(Left(ms, k, L)) = L - L  BY <1>1, Spot
  <2>2. L - L = 0  BY <1>1
  <2> HIDE DEF L
  <2> QED BY <2>1, <2>2 DEF Texts
<1>3. Passed(ms, k + 1)
  <2>1. k \in Nat /\ \A j \in 1..((k + 1) - 1) : j = k \/ j \in 1..(k - 1)  OBVIOUS
  <2> QED BY <2>1 DEF Passed, Inside
<1>4. From(ms, k + 1) \in Texts /\ Due(ms, k + 1) \in Texts /\ k + 1 \in 1..(Len(ms) + 1)  BY Spot
<1>5. /\ r = Cat(Left(ms, k, L), From(ms, k + 1))
      /\ Cat(o, Cat(Left(ms, k, L), Due(ms, k + 1))) = Due(ms, 1)
  BY DEF Inside
<1>6. Cat(<<>>, From(ms, k + 1)) = From(ms, k + 1) /\ Cat(<<>>, Due(ms, k + 1)) = Due(ms, k + 1)
  BY <1>4, Cats
<1> HIDE DEF L
<1> QED BY <1>2, <1>3, <1>4, <1>5, <1>6 DEF AtHead

(* What cannot be parsed is passed on as it is.                            *)
LEMMA GiveUp ==
  ASSUME NEW ms, IsStream(ms), NEW k \in 1..Len(ms), NEW b, NEW o, NEW r,
         Inside(ms, k, b, o, r), ~Parsable(ms[k])
  PROVE  Cat(o, r) = Due(ms, 1)
<1>1. Due(ms, k + 1) = From(ms, k + 1)  BY Behind DEF IsStream
<1> QED BY <1>1 DEF Inside

LEMMA PlaceRuns ==
  ASSUME NEW body \in Seq(Lines)
  PROVE  \E g : PlaceSteps(body, g) /\ \A b : Place(body, b) = g[b]
<1>1. \E g : PlaceSteps(body, g)  BY ChunksRun
<1>2. PlaceSteps(body, CHOOSE g : PlaceSteps(body, g))  BY <1>1
<1> QED BY <1>2 DEF Place

(* A line of the chunked framing is followed by its end, and a chunk by    *)
(* what is behind it.                                                      *)
LEMMA LineComes ==
  ASSUME NEW body \in Seq(Lines), Chunks(body) \in {"done", "broken"}, NEW b \in 0..Len(body),
         Place(body, b) \in {At("size"), At("trailers")}, NEW n \in Nat,
         \A i \in 1..Len(body) : b < i /\ i <= b + n => body[i] = Part
  PROVE  /\ b + (n + 1) \in 1..Len(body)
         /\ Place(body, b + (n + 1)) =
              Chunk(IF Place(body, b) = At("size") THEN At("size")
                    ELSE IF n = 0 THEN At("trailers") ELSE At("long"), body[b + (n + 1)])
<1>1. PICK g : PlaceSteps(body, g) /\ \A c : Place(body, c) = g[c]  BY PlaceRuns
<1>2. b \in Nat /\ Len(body) \in Nat /\ b <= Len(body) /\ Len(body) \in 0..Len(body)  OBVIOUS
<1>3. b + n < Len(body)
  <2>1. SUFFICES ASSUME Len(body) <= b + n PROVE FALSE  BY <1>2
  <2>2. \A i \in 1..Len(body) : b < i /\ i <= Len(body) => body[i] = Part  BY <1>2, <2>1
  <2>3. g[Len(body)] \in {At("size"), At("trailers"), At("long")}
    BY <1>1, <1>2, <2>2, PartsStay
  <2>4. g[Len(body)].place \in {"done", "broken"}  BY <1>1 DEF PlaceSteps
  <2> QED BY <2>3, <2>4 DEF At
<1>4. b + n \in 0..Len(body) /\ b <= b + n /\ (b + n = b <=> n = 0)
      /\ b + (n + 1) \in 1..Len(body) /\ (b + (n + 1)) - 1 = b + n
  BY <1>2, <1>3
<1>5. g[b + n] = IF g[b] = At("size") THEN At("size")
                 ELSE IF n = 0 THEN At("trailers") ELSE At("long")
  BY <1>1, <1>4, PartsStay
<1>6. g[b + (n + 1)] = Chunk(g[b + n], body[b + (n + 1)])  BY <1>1, <1>4 DEF PlaceSteps
<1> QED BY <1>1, <1>4, <1>5, <1>6

LEMMA NotOver ==
  ASSUME NEW body \in Seq(Lines), Chunks(body) \in {"done", "broken"}, NEW b \in 0..Len(body),
         Place(body, b).place \notin {"done", "broken"}
  PROVE  /\ b + 1 \in 1..Len(body) /\ b + 1 \in 0..Len(body) /\ body[b + 1] \in Lines
         /\ Place(body, b + 1) = Chunk(Place(body, b), body[b + 1])
<1>1. PICK g : PlaceSteps(body, g) /\ \A c : Place(body, c) = g[c]  BY PlaceRuns
<1>2. b # Len(body)  BY <1>1 DEF PlaceSteps
<1>3. b + 1 \in 1..Len(body) /\ b + 1 \in 0..Len(body) /\ (b + 1) - 1 = b  BY <1>2
<1>4. g[b + 1] = Chunk(g[b], body[b + 1])  BY <1>1, <1>3 DEF PlaceSteps
<1> QED BY <1>1, <1>3, <1>4

LEMMA DataComes ==
  ASSUME NEW body \in Seq(Lines), Chunks(body) \in {"done", "broken"}, NEW b \in 0..Len(body),
         NEW left \in Nat, Place(body, b) = Data(left)
  PROVE  /\ left # 0 /\ b + left <= Len(body)
         /\ \A i \in 0..left : Place(body, b + i) = IF i = left THEN At("end") ELSE Data(left - i)
<1>1. PICK g : PlaceSteps(body, g) /\ \A c : Place(body, c) = g[c]  BY PlaceRuns
<1>2. b \in Nat /\ Len(body) \in Nat /\ b <= Len(body)  OBVIOUS
<1>3. left # 0
  <2>1. Data(left) \in Places  BY <1>1 DEF PlaceSteps
  <2> QED BY <2>1 DEF Data, Places
<1>4. \A i \in 0..left : b + i <= Len(body) =>
        g[b + i] = IF i = left THEN At("end") ELSE Data(left - i)
  BY <1>1, <1>3, DataRuns
<1>5. b + left <= Len(body)
  <2>1. SUFFICES ASSUME Len(body) < b + left PROVE FALSE
    <3>1. \A p, q, l \in Nat : p + l <= q \/ q < p + l  OBVIOUS
    <3> QED BY <1>2, <3>1
  <2>2. PICK i \in 0..left : b + i = Len(body) /\ i # left
    <3>1. \A p, q, l \in Nat : p <= q /\ q < p + l =>
            q - p \in 0..l /\ p + (q - p) = q /\ q - p # l
      OBVIOUS
    <3> QED BY <1>2, <2>1, <3>1
  <2>3. g[Len(body)] = Data(left - i)  BY <1>2, <1>4, <2>2
  <2>4. g[Len(body)].place \in {"done", "broken"}  BY <1>1 DEF PlaceSteps
  <2> QED BY <2>3, <2>4 DEF Data
<1>6. \A i \in 0..left : b + i <= Len(body)  BY <1>2, <1>5
<1> QED BY <1>1, <1>3, <1>4, <1>5, <1>6

(* A chunked body is whole or broken, and can be parsed when it is whole.  *)
LEMMA ChunkedBody ==
  ASSUME NEW m \in Messages, Framed(m), Coded(m), ChunkedLast(m)
  PROVE  /\ Chunks(m.body) \in {"done", "broken"} /\ (Parsable(m) <=> Chunks(m.body) = "done")
         /\ m.body \in Seq(Lines)
<1>1. Chunks(m.body) \in {"done", "broken"}  BY DEF Framed
<1>2. Parsable(m) <=> Chunks(m.body) = "done"  BY DEF Parsable
<1>3. m.body \in Seq(Lines)  BY DEF Messages
<1> QED BY <1>1, <1>2, <1>3

LEMMA BrokenBody ==
  ASSUME NEW m \in Messages, Framed(m), Coded(m), ChunkedLast(m), NEW b \in 0..Len(m.body),
         Place(m.body, b) = At("broken")
  PROVE  ~Parsable(m)
<1>1. PICK g : PlaceSteps(m.body, g) /\ \A c : Place(m.body, c) = g[c]
  BY ChunkedBody, PlaceRuns
<1>2. Chunks(m.body) # "done"  BY <1>1, ChunkedBody, BrokenStays
<1> QED BY <1>2, ChunkedBody

LEMMA WholeBody ==
  ASSUME NEW m \in Messages, Framed(m), Coded(m), ChunkedLast(m), NEW b \in 0..Len(m.body),
         Place(m.body, b) = At("done")
  PROVE  Parsable(m) /\ b = Len(m.body)
<1>1. PICK g : PlaceSteps(m.body, g) /\ \A c : Place(m.body, c) = g[c]
  BY ChunkedBody, PlaceRuns
<1>2. Chunks(m.body) = "done" /\ b = Len(m.body)  BY <1>1, ChunkedBody, DoneIsEnd
<1> QED BY <1>2, ChunkedBody

LEMMA SameStart ==
  ASSUME NEW s \in Texts, NEW t \in Texts, NEW u \in Texts, NEW v \in Texts,
         Cat(s, t) = Cat(u, v)
  PROVE  /\ Len(s) \in Nat /\ Len(t) \in Nat /\ Len(u) \in Nat
         /\ \A i \in 1..Len(s) : i <= Len(u) => s[i] = u[i]
         /\ Len(s) + Len(t) >= Len(u)
<1> DEFINE a == Cat(s, t)
           c == Cat(u, v)
<1>1. /\ Len(a) = Len(s) + Len(t) /\ \A i \in 1..Len(s) : a[i] = s[i]
      /\ Len(s) \in Nat /\ Len(t) \in Nat
  BY Concatenation DEF Cat, Texts
<1>2. /\ Len(c) = Len(u) + Len(v) /\ \A i \in 1..Len(u) : c[i] = u[i]
      /\ Len(u) \in Nat /\ Len(v) \in Nat
  BY Concatenation DEF Cat, Texts
<1>3. a = c  OBVIOUS
<1> HIDE DEF a, c
<1>4. \A i \in 1..Len(s) : i <= Len(u) => i \in 1..Len(u)  BY <1>1, <1>2
<1> QED BY <1>1, <1>2, <1>3, <1>4

(* A head comes with the empty line that ends it, and has no other.       *)
LEMMA HeadPeek ==
  ASSUME NEW ms, IsStream(ms), NEW k \in 1..Len(ms), NEW o,
         NEW bf \in Texts, NEW ah \in Texts, AtHead(ms, k, o, Cat(bf, ah))
  PROVE  LET h == ms[k].head IN
         /\ Len(h) \in Nat \ {0} /\ h \in Seq(Lines)
         /\ \A i \in 1..Len(bf) : i <= Len(h) => bf[i] = h[i] /\ (i > 1 => bf[i] # Blank)
         /\ Len(h) + 1 <= Len(bf) => bf[Len(h) + 1] = Blank
         /\ Len(bf) + Len(ah) >= Len(h) + 1
<1> DEFINE m == ms[k]
           h == m.head
           t == Top(m)
           v == Cat(m.body, From(ms, k + 1))
<1>1. m \in Messages /\ Framed(m) /\ From(ms, k + 1) \in Texts  BY Spot
<1>2. h \in Texts /\ h # <<>> /\ m.body \in Texts /\ <<Blank>> \in Texts /\ t \in Texts
  BY <1>1, MessageParts
<1>3. v \in Texts  BY <1>1, <1>2, Cats
<1>4. Cat(bf, ah) = Cat(t, v)  BY TailsAre DEF AtHead, IsStream
<1>5. \A i \in 1..Len(h) : i > 1 => h[i] # Blank
  <2>1. DOMAIN h = 1..Len(h)  BY <1>2 DEF Texts
  <2> QED BY <1>1, <2>1 DEF Framed
<1>6. t = Cat(h, <<Blank>>)  BY DEF Top
<1> HIDE DEF m, h, t, v
<1>7. h \in Seq(Lines) /\ Len(h) \in Nat \ {0} /\ 1 \in 1..1 /\ Len(<<Blank>>) = 1 /\ <<Blank>>[1] = Blank
      /\ <<Blank>> \in Seq(Lines)
  BY <1>2 DEF Texts
<1>8. Len(t) = Len(h) + 1 /\ \A i \in 1..Len(h) : t[i] = h[i]
  <2>1. Len(h \o <<Blank>>) = Len(h) + Len(<<Blank>>)
        /\ \A i \in 1..Len(h) : (h \o <<Blank>>)[i] = h[i]
    BY <1>7, Concatenation
  <2> QED BY <1>6, <1>7, <2>1 DEF Cat
<1>9. t[Len(h) + 1] = Blank
  <2>1. \A i \in 1..Len(<<Blank>>) : (h \o <<Blank>>)[Len(h) + i] = <<Blank>>[i]
    BY <1>7, Concatenation
  <2> QED BY <1>6, <1>7, <2>1 DEF Cat
<1>10. /\ \A i \in 1..Len(bf) : i <= Len(t) => bf[i] = t[i]
       /\ Len(bf) + Len(ah) >= Len(t) /\ Len(bf) \in Nat
  BY <1>2, <1>3, <1>4, SameStart
<1>11. ASSUME NEW i \in 1..Len(bf), i <= Len(h) PROVE bf[i] = h[i] /\ (i > 1 => bf[i] # Blank)
  <2>1. i <= Len(t) /\ i \in 1..Len(h)  BY <1>7, <1>8, <1>10, <1>11
  <2> QED BY <1>5, <1>8, <1>10, <2>1
<1>12. ASSUME Len(h) + 1 <= Len(bf) PROVE bf[Len(h) + 1] = Blank
  <2>1. Len(h) + 1 \in 1..Len(bf) /\ Len(h) + 1 <= Len(t)  BY <1>7, <1>8, <1>10, <1>12
  <2> QED BY <1>9, <1>10, <2>1
<1>13. Len(bf) + Len(ah) >= Len(h) + 1  BY <1>8, <1>10
<1> QED BY <1>7, <1>11, <1>12, <1>13 DEF m, h

(* The head that is found is the head that was sent.                       *)
LEMMA HeadFound ==
  ASSUME NEW ms, IsStream(ms), NEW k \in 1..(Len(ms) + 1), NEW o \in Texts,
         NEW h \in Texts, NEW bf \in Texts, NEW ah \in Texts,
         AtHead(ms, k, o, Cat(Cat(Cat(h, <<Blank>>), bf), ah)),
         h # <<>>, \A i \in 2..Len(h) : h[i] # Blank
  PROVE  /\ k \in 1..Len(ms) /\ h = ms[k].head
         /\ Inside(ms, k, 0, Cat(o, Stamped(ms[k])), Cat(bf, ah))
<1> DEFINE hb == Cat(h, <<Blank>>)
           b0 == Cat(hb, bf)
<1>1. <<Blank>> \in Texts /\ <<Blank>> \in Seq(Lines) /\ Len(<<Blank>>) = 1 /\ <<Blank>>[1] = Blank
  <2>1. Blank \in Lines  BY DEF Lines
  <2> QED BY <2>1, OneOrTwo DEF Texts
<1>2. hb \in Texts /\ Len(h) \in Nat \ {0} /\ Len(hb) = Len(h) + 1 /\ hb[Len(h) + 1] = Blank
      /\ \A i \in 1..Len(h) : hb[i] = h[i]
  <2>1. hb \in Texts  BY <1>1, Cats
  <2>2. h \in Seq(Lines) /\ Len(h) \in Nat \ {0} /\ 1 \in 1..1  BY DEF Texts
  <2>3. /\ Len(h \o <<Blank>>) = Len(h) + Len(<<Blank>>)
        /\ \A i \in 1..Len(h) : (h \o <<Blank>>)[i] = h[i]
        /\ \A i \in 1..Len(<<Blank>>) : (h \o <<Blank>>)[Len(h) + i] = <<Blank>>[i]
    BY <1>1, <2>2, Concatenation
  <2> QED BY <1>1, <2>1, <2>2, <2>3 DEF Cat
<1> HIDE DEF hb
<1>3. /\ b0 \in Texts /\ Len(b0) \in Nat /\ Len(b0) >= Len(hb)
      /\ \A i \in 1..Len(hb) : b0[i] = hb[i] /\ i \in 1..Len(b0)
  <2>1. b0 \in Texts  BY <1>2, Cats
  <2>2. hb \in Seq(Lines) /\ bf \in Seq(Lines) /\ Len(bf) \in Nat /\ Len(hb) \in Nat
    BY <1>2 DEF Texts
  <2>3. Len(hb \o bf) = Len(hb) + Len(bf) /\ \A i \in 1..Len(hb) : (hb \o bf)[i] = hb[i]
    BY <2>2, Concatenation
  <2> HIDE DEF b0
  <2>4. Len(b0) = Len(hb) + Len(bf) /\ \A i \in 1..Len(hb) : b0[i] = hb[i]
    BY <2>3 DEF Cat, b0
  <2>5. \A i \in 1..Len(hb) : i \in 1..Len(b0)  BY <2>2, <2>4
  <2> QED BY <2>1, <2>2, <2>4, <2>5
<1>4. AtHead(ms, k, o, Cat(b0, ah))  BY DEF hb
<1> HIDE DEF b0
<1>5. k \in 1..Len(ms)
  <2>1. SUFFICES ASSUME k = Len(ms) + 1 PROVE FALSE
    <3>1. Len(ms) \in Nat  BY DEF IsStream
    <3> QED BY <3>1
  <2>2. Cat(b0, ah) = <<>>  BY <1>4, <2>1, TailsAre DEF AtHead, IsStream
  <2>3. Cat(<<>>, <<>>) = <<>> /\ <<>> \in Texts  BY Cats
  <2>4. Cat(b0, ah) = Cat(<<>>, <<>>)  BY <2>2, <2>3
  <2>5. Len(b0 \o ah) = Len(b0) + Len(ah) /\ Len(ah) \in Nat
    BY <1>3, Concatenation DEF Texts
  <2>6. Len(<<>>) = Len(b0) + Len(ah)  BY <2>2, <2>5 DEF Cat
  <2> QED BY <1>2, <1>3, <2>5, <2>6, Neutral
<1> DEFINE m == ms[k]
           g == m.head
<1>6. /\ Len(g) \in Nat \ {0} /\ g \in Seq(Lines)
      /\ \A i \in 1..Len(b0) : i <= Len(g) => b0[i] = g[i] /\ (i > 1 => b0[i] # Blank)
      /\ Len(g) + 1 <= Len(b0) => b0[Len(g) + 1] = Blank
  <2>1. b0 \in Texts  BY <1>3
  <2>2. Len(g) \in Nat \ {0} /\ g \in Seq(Lines)  BY <1>4, <1>5, <2>1, HeadPeek
  <2>3. \A i \in 1..Len(b0) : i <= Len(g) => b0[i] = g[i] /\ (i > 1 => b0[i] # Blank)
    BY <1>4, <1>5, <2>1, HeadPeek
  <2>4. Len(g) + 1 <= Len(b0) => b0[Len(g) + 1] = Blank
    BY <1>4, <1>5, <2>1, HeadPeek
  <2> QED BY <2>2, <2>3, <2>4
<1>7. m \in Messages /\ Framed(m) /\ From(ms, k + 1) \in Texts /\ Due(ms, k + 1) \in Texts
  BY <1>5, Spot
<1>8. m.body \in Texts /\ Stamped(m) \in Texts  BY <1>7, MessageParts
<1> HIDE DEF g
<1>9. Len(g) = Len(h)
  <2>1. ASSUME Len(h) < Len(g) PROVE FALSE
    <3>1. Len(h) + 1 \in 1..Len(hb) /\ Len(h) + 1 <= Len(g)  BY <1>2, <1>6, <2>1
    <3> QED BY <1>2, <1>3, <1>6, <3>1
  <2>2. ASSUME Len(g) < Len(h) PROVE FALSE
    <3>1. /\ Len(g) + 1 \in 1..Len(hb) /\ Len(g) + 1 \in 2..Len(h) /\ Len(g) + 1 <= Len(b0)
          /\ Len(g) + 1 \in 1..Len(h)
      BY <1>2, <1>3, <1>6, <2>2
    <3> QED BY <1>2, <1>3, <1>6, <3>1
  <2>3. \A p, q \in Nat : ~ (p < q) /\ ~ (q < p) => p = q  OBVIOUS
  <2> QED BY <1>2, <1>6, <2>1, <2>2, <2>3
<1>10. h = g
  <2>1. \A i \in 1..Len(h) : h[i] = g[i]
    <3> TAKE i \in 1..Len(h)
    <3>1. i \in 1..Len(hb) /\ i <= Len(g)  BY <1>2, <1>9
    <3> QED BY <1>2, <1>3, <1>6, <3>1
  <2> QED BY <1>6, <1>9, <2>1, SeqEqual DEF Texts
<1>11. Cat(bf, ah) = Cat(m.body, From(ms, k + 1))
  <2> DEFINE v == Cat(m.body, From(ms, k + 1))
             u == Cat(bf, ah)
  <2>1. v \in Texts /\ u \in Texts  BY <1>7, <1>8, Cats
  <2>2. Cat(b0, ah) = Cat(hb, u)  BY <1>2, Cats DEF b0
  <2>3. Top(m) = hb  BY <1>10 DEF Top, hb, g
  <2>4. Cat(b0, ah) = Cat(hb, v)
    <3>1. From(ms, k) = Cat(Top(m), v)  BY <1>5, TailsAre DEF IsStream
    <3>2. Cat(b0, ah) = From(ms, k)  BY <1>4 DEF AtHead
    <3> QED BY <2>3, <3>1, <3>2
  <2> HIDE DEF u, v
  <2>5. u = v
    <3>1. Cat(hb, u) = Cat(hb, v) /\ hb \in Texts  BY <1>2, <2>2, <2>4
    <3> QED BY <2>1, <3>1, CancelCat
  <2> QED BY <2>5 DEF u, v
<1>12. Passed(ms, k) /\ Cat(o, Cat(Stamped(m), Cat(m.body, Due(ms, k + 1)))) = Due(ms, 1)
  BY <1>4, <1>5, TailsAre DEF AtHead, IsStream
<1>13. Cat(Cat(o, Stamped(m)), Cat(m.body, Due(ms, k + 1))) = Due(ms, 1)
  <2> DEFINE v == Cat(m.body, Due(ms, k + 1))
  <2>1. v \in Texts  BY <1>7, <1>8, Cats
  <2> HIDE DEF v
  <2>2. Cat(Cat(o, Stamped(m)), v) = Cat(o, Cat(Stamped(m), v))  BY <1>8, <2>1, Cats
  <2> QED BY <1>12, <2>2 DEF v
<1>14. Left(ms, k, 0) = m.body
  <2>1. SubSeq(m.body, 1, Len(m.body)) = m.body  BY <1>8, Whole DEF Texts
  <2>2. 0 + 1 = 1  OBVIOUS
  <2> QED BY <2>1, <2>2 DEF Left
<1> QED BY <1>5, <1>10, <1>11, <1>12, <1>13, <1>14 DEF Inside, g

-----------------------------------------------------------------------------
(* The rewriter never loses its place, unless a request is beyond the      *)
(* limits or bare.                                                         *)

Ahead == SubSeq(Wire(stream), fed + 1, Len(Wire(stream)))

Good == \A i \in DOMAIN stream : Fits(stream[i]) /\ ~Bare(stream[i])

Sync == Good => InSync(stream, state, remaining, out, Cat(buffer, Ahead))

LEMMA Basics ==
  ASSUME ConstantsOK, TypeOK
  PROVE  /\ IsStream(stream) /\ Len(stream) \in Nat /\ Wire(stream) \in Seq(Lines)
         /\ buffer \in Texts /\ out \in Texts /\ Ahead \in Texts
         /\ fed \in Nat /\ fed <= Len(Wire(stream)) /\ Len(Wire(stream)) \in Nat
         /\ Len(Ahead) = Len(Wire(stream)) - fed
         /\ Expected = Due(stream, 1) /\ From(stream, 1) = Wire(stream)
<1>1. stream \in Streams  BY DEF TypeOK
<1>2. /\ stream \in Seq(Messages) /\ \A i \in 1..Len(stream) : Framed(stream[i])
      /\ Wire(stream) \in Seq(Lines) /\ Len(Wire(stream)) \in Nat
  BY <1>1, StreamType
<1>3. IsStream(stream) /\ Len(stream) \in Nat  BY <1>2 DEF IsStream
<1>4. fed \in Nat /\ fed <= Len(Wire(stream))
  <2>1. fed \in 0..Len(Wire(stream))  BY DEF TypeOK
  <2>2. \A n \in Nat : \A f \in 0..n : f \in Nat /\ f <= n  OBVIOUS
  <2> QED BY <1>2, <2>1, <2>2
<1>5. Ahead \in Texts /\ Len(Ahead) = Len(Wire(stream)) - fed
  BY <1>2, <1>4, Stretch DEF Ahead, Texts
<1>6. buffer \in Texts /\ out \in Texts  BY DEF TypeOK, Texts
<1>7. Due(stream, 1) = FlattenSeq(Rewrites(stream)) /\ From(stream, 1) = Wire(stream)
  BY <1>2, TailsAre
<1>8. Expected = FlattenSeq(Rewrites(stream))  BY DEF Expected, Rewrites
<1> QED BY <1>2, <1>3, <1>4, <1>5, <1>6, <1>7, <1>8

(* A step that takes the next lines, if any, from what is left.            *)
Passes ==
  /\ stream' = stream /\ fed' = fed
  /\ InSync(stream, state', remaining', out', Cat(buffer', Ahead))

LEMMA PassesSync == ASSUME Passes PROVE Sync'
<1>1. Ahead' = Ahead  BY DEF Passes, Ahead
<1> QED BY <1>1 DEF Passes, Sync

LEMMA CutText ==
  \A w \in Texts : \A l, m \in Nat :
    l <= m /\ m <= Len(w) =>
      SubSeq(w, l + 1, Len(w)) = Cat(SubSeq(w, l + 1, m), SubSeq(w, m + 1, Len(w)))
<1> SUFFICES ASSUME NEW w \in Texts, NEW l \in Nat, NEW m \in Nat, l <= m, m <= Len(w)
             PROVE  SubSeq(w, l + 1, Len(w)) = Cat(SubSeq(w, l + 1, m), SubSeq(w, m + 1, Len(w)))
  OBVIOUS
<1>1. w \in Seq(Lines) /\ Len(w) \in Nat  BY DEF Texts
<1>2. SubSeq(w, l + 1, Len(w)) = SubSeq(w, l + 1, m) \o SubSeq(w, m + 1, Len(w))
  <2>1. PICK n \in Nat : n = Len(w)  BY <1>1
  <2>2. w \in Seq(Lines) /\ n <= Len(w) /\ m <= n  BY <1>1, <2>1
  <2>3. SubSeq(w, l + 1, n) = SubSeq(w, l + 1, m) \o SubSeq(w, m + 1, n)
    BY <2>2, Cut
  <2> QED BY <2>1, <2>3
<1> QED BY <1>2 DEF Cat

LEMMA FedSync == ASSUME ConstantsOK, TypeOK, TypeOK', Sync, Feed PROVE Sync'
<1> DEFINE W == Wire(stream)
<1>1. /\ stream' = stream /\ out' = out /\ state' = state /\ remaining' = remaining
      /\ \E n \in 1..(Len(W) - fed) :
           buffer' = buffer \o SubSeq(W, fed + 1, fed + n) /\ fed' = fed + n
  BY Fed1
<1>2. PICK n \in 1..(Len(W) - fed) :
        buffer' = buffer \o SubSeq(W, fed + 1, fed + n) /\ fed' = fed + n
  BY <1>1
<1>3. W \in Seq(Lines) /\ Len(W) \in Nat /\ fed \in Nat /\ fed <= Len(W) /\ buffer \in Texts
  BY Basics
<1>4. fed + n \in Nat /\ fed <= fed + n /\ fed + n <= Len(W)  BY <1>3
<1> DEFINE x == SubSeq(W, fed + 1, fed + n)
           y == SubSeq(W, (fed + n) + 1, Len(W))
<1>5. x \in Texts  BY <1>3, <1>4, Stretch DEF Texts
<1>6. y \in Texts
  <2> DEFINE f == fed + n
  <2>1. f \in Nat /\ f <= Len(W)  BY <1>4
  <2> HIDE DEF f
  <2>2. SubSeq(W, f + 1, Len(W)) \in Seq(Lines)  BY <1>3, <2>1, Stretch
  <2> QED BY <2>2 DEF f, Texts
<1>7. Ahead = Cat(x, y)
  <2>1. W \in Texts /\ fed \in Nat /\ fed + n \in Nat /\ fed <= fed + n /\ fed + n <= Len(W)
    BY <1>3, <1>4 DEF Texts
  <2>2. SubSeq(W, fed + 1, Len(W)) = Cat(x, y)
    <3> DEFINE f == fed + n
    <3> HIDE DEF W
    <3>1. W \in Texts /\ fed \in Nat /\ f \in Nat /\ fed <= f /\ f <= Len(W)  BY <2>1
    <3> HIDE DEF f
    <3>2. SubSeq(W, fed + 1, Len(W)) = Cat(SubSeq(W, fed + 1, f), SubSeq(W, f + 1, Len(W)))
      BY <3>1, CutText
    <3> QED BY <3>2 DEF f
  <2> QED BY <2>2 DEF Ahead
<1>8. Ahead' = y  BY <1>1, <1>2 DEF Ahead
<1>9. buffer' = Cat(buffer, x)  BY <1>2 DEF Cat
<1> HIDE DEF x, y, W
<1>10. Cat(buffer', Ahead') = Cat(buffer, Ahead)  BY <1>3, <1>5, <1>6, <1>7, <1>8, <1>9, Cats
<1>11. Good' = Good  BY <1>1 DEF Good
<1> QED BY <1>1, <1>10, <1>11 DEF Sync

(* Nothing moves: the loop stops, to wait or for good.                     *)
LEMMA StopPasses ==
  ASSUME InSync(stream, state, remaining, out, Cat(buffer, Ahead)),
         stream' = stream, fed' = fed, state' = state, buffer' = buffer,
         remaining' = remaining, out' = out
  PROVE  Passes
BY DEF Passes

LEMMA PassThroughPasses ==
  ASSUME ConstantsOK, TypeOK, InSync(stream, state, remaining, out, Cat(buffer, Ahead)),
         PassThrough
  PROVE  Passes
<1>1. /\ stream' = stream /\ fed' = fed /\ state' = state /\ state = "passthrough"
      /\ buffer' = <<>> /\ out' = Cat(out, buffer)
  BY DEF PassThrough, Cat
<1>2. buffer \in Texts /\ out \in Texts /\ Ahead \in Texts  BY Basics
<1>3. Cat(out', Cat(buffer', Ahead)) = Cat(out, Cat(buffer, Ahead))
  <2>1. Cat(<<>>, Ahead) = Ahead  BY <1>2, Cats
  <2>2. Cat(Cat(out, buffer), Ahead) = Cat(out, Cat(buffer, Ahead))  BY <1>2, Cats
  <2> QED BY <1>1, <2>1, <2>2
<1>4. Cat(out, Cat(buffer, Ahead)) = Due(stream, 1)  BY <1>1 DEF InSync
<1> QED BY <1>1, <1>3, <1>4 DEF Passes, InSync, ChunkStates

(* The first m lines of the buffer go out, and the place moves with them.  *)
LEMMA MovedOn ==
  ASSUME ConstantsOK, TypeOK, NEW m \in Nat, m <= Len(buffer),
         NEW k \in 1..Len(stream), NEW b \in 0..Len(stream[k].body),
         Inside(stream, k, b, out, Cat(buffer, Ahead)), m <= Len(stream[k].body) - b,
         out' = out \o SubSeq(buffer, 1, m), buffer' = SubSeq(buffer, m + 1, Len(buffer))
  PROVE  /\ Inside(stream, k, b + m, out', Cat(buffer', Ahead))
         /\ b + m \in 0..Len(stream[k].body)
<1> DEFINE x == SubSeq(buffer, 1, m)
           r == SubSeq(buffer, m + 1, Len(buffer))
<1>1. IsStream(stream) /\ buffer \in Texts /\ out \in Texts /\ Ahead \in Texts  BY Basics
<1>2. x \in Texts /\ Len(x) = m /\ r \in Texts /\ buffer = Cat(x, r)
  BY <1>1, Popped DEF Texts, Cat
<1>3. out' = Cat(out, x) /\ buffer' = r  BY DEF Cat
<1> HIDE DEF x, r
<1>4. Inside(stream, k, b, out, Cat(Cat(x, r), Ahead))  BY <1>2
<1>5. Len(x) <= Len(stream[k].body) - b  BY <1>2
<1>6. /\ Inside(stream, k, b + Len(x), Cat(out, x), Cat(r, Ahead))
      /\ b + Len(x) \in 0..Len(stream[k].body)
  BY <1>1, <1>2, <1>4, <1>5, Advance
<1> QED BY <1>2, <1>3, <1>6

LEMMA BodyPasses ==
  ASSUME ConstantsOK, TypeOK, InSync(stream, state, remaining, out, Cat(buffer, Ahead)), Body
  PROVE  Passes
<1> DEFINE take == Min({remaining, Len(buffer)})
<1>1. /\ stream' = stream /\ fed' = fed /\ state \in {"body", "chunk_data"}
      /\ out' = out \o SubSeq(buffer, 1, take)
      /\ buffer' = SubSeq(buffer, take + 1, Len(buffer))
      /\ remaining' = remaining - take
      /\ state' = IF remaining > take THEN state
                  ELSE IF state = "body" THEN "head" ELSE "chunk_end"
  BY DEF Body
<1>2. take \in Nat /\ take <= remaining /\ take <= Len(buffer) /\ remaining \in Nat
  <2>1. remaining \in Nat /\ Len(buffer) \in Nat  BY DEF TypeOK
  <2> QED BY <2>1, MinOfTwo
<1> HIDE DEF take
<1>3. IsStream(stream)  BY Basics
<1>4. CASE state = "body"
  <2>0. PICK k \in 1..Len(stream) : \E b \in 0..Len(stream[k].body) :
          Inside(stream, k, b, out, Cat(buffer, Ahead)) /\ ByLength(stream[k], b, remaining)
    BY <1>4 DEF InSync
  <2>1. PICK b \in 0..Len(stream[k].body) :
          Inside(stream, k, b, out, Cat(buffer, Ahead)) /\ ByLength(stream[k], b, remaining)
    BY <2>0
  <2> DEFINE L == Len(stream[k].body)
  <2>2. L \in Nat /\ b \in Nat /\ b + remaining = L /\ remaining # 0
        /\ ~Coded(stream[k]) /\ Parsable(stream[k])
    BY <1>3, <2>1, Spot DEF ByLength
  <2>3. take <= L - b  BY <1>2, <2>2
  <2>4. Inside(stream, k, b + take, out', Cat(buffer', Ahead)) /\ b + take \in 0..L
    BY <1>1, <1>2, <2>1, <2>3, MovedOn
  <2> HIDE DEF L
  <2>5. CASE remaining > take
    <3>0. \A t, r, c \in Nat : r > t => r - t \in Nat /\ r - t # 0 /\ (c + t) + (r - t) = c + r
      OBVIOUS
    <3>1. state' = "body" /\ remaining' = remaining - take  BY <1>1, <1>4, <2>5
    <3>1a. remaining' # 0 /\ (b + take) + remaining' = L
      BY <1>2, <2>2, <2>5, <3>0, <3>1
    <3>2. ByLength(stream[k], b + take, remaining')  BY <2>2, <3>1a DEF ByLength, L
    <3> QED BY <1>1, <2>4, <3>1, <3>2 DEF Passes, InSync, ChunkStates, L
  <2>6. CASE ~ (remaining > take)
    <3>0. \A t, r \in Nat : t <= r /\ ~ (r > t) => t = r  OBVIOUS
    <3>1. state' = "head"  BY <1>1, <1>4, <2>6
    <3>1a. b + take = L  BY <1>2, <2>2, <2>6, <3>0
    <3>2. AtHead(stream, k + 1, out', Cat(buffer', Ahead)) /\ k + 1 \in 1..(Len(stream) + 1)
      BY <1>3, <2>2, <2>4, <3>1a, BodyOver DEF L
    <3> QED BY <1>1, <3>1, <3>2 DEF Passes, InSync, ChunkStates
  <2> QED BY <2>5, <2>6
<1>5. CASE state = "chunk_data"
  <2>0. PICK k \in 1..Len(stream) : \E b \in 0..Len(stream[k].body) :
          /\ Inside(stream, k, b, out, Cat(buffer, Ahead))
          /\ ByChunks(stream[k], b, state, remaining)
    BY <1>5 DEF InSync, ChunkStates
  <2>1. PICK b \in 0..Len(stream[k].body) :
          /\ Inside(stream, k, b, out, Cat(buffer, Ahead))
          /\ ByChunks(stream[k], b, state, remaining)
    BY <2>0
  <2> DEFINE m == stream[k]
             L == Len(m.body)
  <2>2. /\ m \in Messages /\ Framed(m) /\ L \in Nat /\ b \in Nat
        /\ Coded(m) /\ ChunkedLast(m) /\ Place(m.body, b) = Data(remaining)
    BY <1>3, <1>5, <2>1, Spot DEF ByChunks, Mode
  <2>3. /\ remaining # 0 /\ b + remaining <= L
        /\ \A i \in 0..remaining :
             Place(m.body, b + i) = IF i = remaining THEN At("end") ELSE Data(remaining - i)
    <3> DEFINE body == m.body
    <3>1. body \in Seq(Lines) /\ Chunks(body) \in {"done", "broken"}  BY <2>2, ChunkedBody
    <3>2. b \in 0..Len(body) /\ remaining \in Nat /\ Place(body, b) = Data(remaining)
      BY <1>2, <2>2
    <3> HIDE DEF body
    <3>3. /\ remaining # 0 /\ b + remaining <= Len(body)
          /\ \A i \in 0..remaining :
               Place(body, b + i) = IF i = remaining THEN At("end") ELSE Data(remaining - i)
      BY <3>1, <3>2, DataComes
    <3> QED BY <3>3 DEF body
  <2> HIDE DEF L
  <2>4. take <= L - b /\ take \in 0..remaining
    <3>1. \A t, r, c, d \in Nat : t <= r /\ c + r <= d => t <= d - c /\ t \in 0..r  OBVIOUS
    <3>2. b + remaining <= L  BY <2>3
    <3>3. L \in Nat /\ b \in Nat  BY <2>2
    <3> QED BY <1>2, <3>1, <3>2, <3>3
  <2>5. Inside(stream, k, b + take, out', Cat(buffer', Ahead)) /\ b + take \in 0..L
    BY <1>1, <1>2, <2>1, <2>4, MovedOn DEF L
  <2>6. CASE remaining > take
    <3>1. state' = "chunk_data" /\ take # remaining  BY <1>1, <1>2, <1>5, <2>6
    <3>2. Place(m.body, b + take) = Data(remaining')  BY <1>1, <2>3, <2>4, <3>1
    <3>3. ByChunks(m, b + take, state', remaining')  BY <2>2, <3>1, <3>2 DEF ByChunks, Mode
    <3> QED BY <1>1, <2>5, <3>1, <3>3 DEF Passes, InSync, ChunkStates, L
  <2>7. CASE ~ (remaining > take)
    <3>1. state' = "chunk_end" /\ take = remaining  BY <1>1, <1>2, <1>5, <2>7
    <3>2. Place(m.body, b + take) = At("end")  BY <2>3, <2>4, <3>1
    <3>3. ByChunks(m, b + take, state', remaining')  BY <2>2, <3>1, <3>2 DEF ByChunks, Mode
    <3> QED BY <1>1, <2>5, <3>1, <3>3 DEF Passes, InSync, ChunkStates, L
  <2> QED BY <2>6, <2>7
<1> QED BY <1>1, <1>4, <1>5

(* Within a chunked body: where it is, and what is ahead in the buffer.    *)
InChunks(k, b) ==
  /\ k \in 1..Len(stream) /\ b \in 0..Len(stream[k].body)
  /\ Inside(stream, k, b, out, Cat(buffer, Ahead))
  /\ ByChunks(stream[k], b, state, remaining)

LEMMA ChunkSpot ==
  ASSUME ConstantsOK, TypeOK, NEW k, NEW b, InChunks(k, b)
  PROVE  /\ stream[k] \in Messages /\ Framed(stream[k]) /\ Coded(stream[k])
         /\ ChunkedLast(stream[k])
         /\ stream[k].body \in Seq(Lines) /\ Len(stream[k].body) \in Nat
         /\ b \in Nat /\ b <= Len(stream[k].body) /\ b \in 0..Len(stream[k].body)
         /\ Chunks(stream[k].body) \in {"done", "broken"}
         /\ Place(stream[k].body, b) = Mode(state, remaining)
         /\ \A i \in 1..Len(buffer) :
              i <= Len(stream[k].body) - b => buffer[i] = stream[k].body[b + i]
         /\ Len(buffer) + Len(Ahead) >= Len(stream[k].body) - b
         /\ Len(buffer) \in Nat /\ Len(Ahead) \in Nat
<1>1. IsStream(stream) /\ buffer \in Texts /\ Ahead \in Texts /\ out \in Texts  BY Basics
<1>2. k \in 1..Len(stream) /\ b \in 0..Len(stream[k].body)  BY DEF InChunks
<1>3. /\ stream[k] \in Messages /\ Framed(stream[k]) /\ stream[k].body \in Seq(Lines)
      /\ Len(stream[k].body) \in Nat
  BY <1>1, <1>2, Spot
<1>4. b \in Nat /\ b <= Len(stream[k].body)  BY <1>2, <1>3
<1>5. /\ Coded(stream[k]) /\ ChunkedLast(stream[k])
      /\ Place(stream[k].body, b) = Mode(state, remaining)
  BY DEF InChunks, ByChunks
<1>6. Chunks(stream[k].body) \in {"done", "broken"}  BY <1>3, <1>5, ChunkedBody
<1>7. Inside(stream, k, b, out, Cat(buffer, Ahead))  BY DEF InChunks
<1>8. \A i \in 1..Len(buffer) : i <= Len(stream[k].body) - b => buffer[i] = stream[k].body[b + i]
  <2> TAKE i \in 1..Len(buffer)
  <2> HAVE i <= Len(stream[k].body) - b
  <2>1. \A j \in 1..Len(buffer) :
          j <= Len(stream[k].body) - b => buffer[j] = stream[k].body[b + j]
    BY <1>1, <1>2, <1>7, Peek
  <2> QED BY <2>1
<1>9. Len(buffer) + Len(Ahead) >= Len(stream[k].body) - b  BY <1>1, <1>2, <1>7, Peek
<1>10. Len(buffer) \in Nat /\ Len(Ahead) \in Nat  BY <1>1 DEF Texts
<1> QED BY <1>2, <1>3, <1>4, <1>5, <1>6, <1>8, <1>9, <1>10

LEMMA ChunkAhead ==
  ASSUME ConstantsOK, TypeOK, NEW k, NEW b, InChunks(k, b),
         NEW i \in 1..Len(buffer), i <= Len(stream[k].body) - b
  PROVE  buffer[i] = stream[k].body[b + i]
<1>1. /\ \A j \in 1..Len(buffer) : j <= Len(stream[k].body) - b => buffer[j] = stream[k].body[b + j]
      /\ Len(buffer) + Len(Ahead) >= Len(stream[k].body) - b
  <2>1. IsStream(stream) /\ buffer \in Texts /\ Ahead \in Texts /\ out \in Texts  BY Basics
  <2>2. k \in 1..Len(stream) /\ b \in 0..Len(stream[k].body)  BY DEF InChunks
  <2>3. Inside(stream, k, b, out, Cat(buffer, Ahead))  BY DEF InChunks
  <2> QED BY <2>1, <2>2, <2>3, Peek, SMTT(30)
<1> QED BY <1>1, ZenonT(30)

(* Where a step of the chunked framing may leave it.                       *)
LEMMA Landed ==
  ASSUME ConstantsOK, TypeOK, NEW k, NEW b, InChunks(k, b),
         NEW c \in 0..Len(stream[k].body), Inside(stream, k, c, out', Cat(buffer', Ahead)),
         stream' = stream, fed' = fed,
         \/ state' \in ChunkStates /\ Place(stream[k].body, c) = Mode(state', remaining')
         \/ state' = "passthrough" /\ \E e \in 0..Len(stream[k].body) :
                                        Place(stream[k].body, e) = At("broken")
         \/ state' = "head" /\ Place(stream[k].body, c) = At("done")
  PROVE  Passes
<1>1. IsStream(stream) /\ k \in 1..Len(stream)  BY Basics DEF InChunks
<1>2. /\ stream[k] \in Messages /\ Framed(stream[k]) /\ Coded(stream[k])
      /\ ChunkedLast(stream[k])
  BY ChunkSpot
<1>3. CASE state' \in ChunkStates /\ Place(stream[k].body, c) = Mode(state', remaining')
  <2>1. ByChunks(stream[k], c, state', remaining')  BY <1>2, <1>3 DEF ByChunks
  <2> QED BY <1>1, <1>3, <2>1 DEF Passes, InSync, ChunkStates
<1>4. ASSUME state' = "passthrough",
             NEW e \in 0..Len(stream[k].body), Place(stream[k].body, e) = At("broken")
      PROVE  Passes
  <2>1. ~Parsable(stream[k])  BY <1>2, <1>4, BrokenBody
  <2>2. Cat(out', Cat(buffer', Ahead)) = Due(stream, 1)  BY <1>1, <2>1, GiveUp
  <2> QED BY <1>4, <2>2 DEF Passes, InSync, ChunkStates
<1>5. CASE state' = "head" /\ Place(stream[k].body, c) = At("done")
  <2>1. Parsable(stream[k]) /\ c = Len(stream[k].body)  BY <1>2, <1>5, WholeBody
  <2>2. AtHead(stream, k + 1, out', Cat(buffer', Ahead)) /\ k + 1 \in 1..(Len(stream) + 1)
    BY <1>1, <2>1, BodyOver
  <2> QED BY <1>5, <2>2 DEF Passes, InSync, ChunkStates
<1> QED BY <1>3, <1>4, <1>5

(* The line end after a chunk.                                             *)
LEMMA ChunkEndPasses ==
  ASSUME ConstantsOK, TypeOK, InSync(stream, state, remaining, out, Cat(buffer, Ahead)),
         ChunkEnd
  PROVE  Passes
<1>1. stream' = stream /\ fed' = fed /\ remaining' = remaining /\ state = "chunk_end"
      /\ buffer # <<>>
  BY DEF ChunkEnd
<1>2. PICK k \in 1..Len(stream) : \E b \in 0..Len(stream[k].body) :
        /\ Inside(stream, k, b, out, Cat(buffer, Ahead))
        /\ ByChunks(stream[k], b, state, remaining)
  BY <1>1 DEF InSync, ChunkStates
<1>3. PICK b \in 0..Len(stream[k].body) :
        /\ Inside(stream, k, b, out, Cat(buffer, Ahead))
        /\ ByChunks(stream[k], b, state, remaining)
  BY <1>2
<1>4. InChunks(k, b)  BY <1>3 DEF InChunks
<1> DEFINE body == stream[k].body
           L == Len(body)
<1>5. /\ body \in Seq(Lines) /\ L \in Nat /\ b \in Nat /\ b <= L
      /\ Chunks(body) \in {"done", "broken"} /\ Place(body, b) = Mode(state, remaining)
      /\ Len(buffer) \in Nat
  BY <1>4, ChunkSpot
<1>6. \A i \in 1..Len(buffer) : i <= L - b => buffer[i] = body[b + i]  BY <1>4, ChunkSpot
<1>7. buffer \in Seq(Lines) /\ out \in Seq(Lines)  BY DEF TypeOK
<1>8. Place(body, b) = At("end")  BY <1>1, <1>5 DEF Mode
<1>9. b + 1 \in 1..L /\ b + 1 \in 0..L /\ body[b + 1] \in Lines
      /\ Place(body, b + 1) = Chunk(At("end"), body[b + 1])
  <2>1. Place(body, b).place \notin {"done", "broken"}  BY <1>8 DEF At
  <2> HIDE DEF body
  <2> QED BY <1>5, <1>8, <2>1, NotOver
<1>10. 1 \in 1..Len(buffer) /\ buffer[1] = body[b + 1]
  <2>1. Len(buffer) # 0  BY <1>1, <1>7
  <2>2. 1 \in 1..Len(buffer)  BY <1>5, <2>1
  <2> HIDE DEF L
  <2>3. 1 <= L - b  BY <1>5, <1>9
  <2> QED BY <1>6, <2>2, <2>3
<1>11. ASSUME body[b + 1] = HalfEnd
       PROVE  /\ b + 2 \in 1..L /\ b + 2 \in 0..L /\ body[b + 2] \in Lines
              /\ Place(body, b + 2) = Chunk(At("half"), body[b + 2])
  <2>1. Place(body, b + 1) = At("half")  BY <1>9, <1>11, ChunkIs
  <2>2. Place(body, b + 1).place \notin {"done", "broken"}  BY <2>1 DEF At
  <2> DEFINE c == b + 1
  <2>3. c \in 0..L /\ Place(body, c).place \notin {"done", "broken"} /\ Place(body, c) = At("half")
    BY <1>9, <2>1, <2>2
  <2>4. c + 1 = b + 2  BY <1>5
  <2> HIDE DEF c, body
  <2>5. c + 1 \in 1..L /\ c + 1 \in 0..L /\ body[c + 1] \in Lines
        /\ Place(body, c + 1) = Chunk(At("half"), body[c + 1])
    BY <1>5, <2>3, NotOver
  <2> QED BY <2>4, <2>5
<1> HIDE DEF body, L
<1>12. ASSUME NEW end \in {<<Blank>>, <<HalfEnd, OtherHalf>>}, IsPrefix(end, buffer),
              out' = out \o end, buffer' = SubSeq(buffer, Len(end) + 1, Len(buffer)),
              state' = "chunk_size"
       PROVE  Passes
  <2>1. Blank \in Lines /\ HalfEnd \in Lines /\ OtherHalf \in Lines  BY DEF Lines
  <2>2. end \in Seq(Lines) /\ Len(end) \in Nat
    BY <1>12, <2>1, OneOrTwo
  <2>3. Len(end) <= Len(buffer) /\ SubSeq(buffer, 1, Len(end)) = end
    <3>1. SubSeq(end, 1, Len(end)) = end  BY <2>2, Whole
    <3> QED BY <1>12, <3>1 DEF IsPrefix
  <2>4. \A i \in 1..Len(end) : end[i] = buffer[i]
    <3> DEFINE n == Len(end)
    <3>1. n \in Nat /\ n <= Len(buffer)  BY <2>2, <2>3
    <3>2. end = SubSeq(buffer, 1, n)  BY <2>3
    <3> HIDE DEF n
    <3>3. \A i \in 1..n : SubSeq(buffer, 1, n)[i] = buffer[i]  BY <1>7, <3>1, Popped
    <3> QED BY <3>2, <3>3 DEF n
  <2>5. b + Len(end) \in 0..L /\ Len(end) <= L - b /\ Place(body, b + Len(end)) = At("size")
    <3>1. CASE end = <<Blank>>
      <4>1. Len(end) = 1 /\ end[1] = Blank  BY <2>1, <3>1, OneOrTwo
      <4>2. body[b + 1] = Blank  BY <1>10, <2>4, <4>1
      <4>3. Place(body, b + 1) = At("size")  BY <1>9, <4>2, ChunkIs
      <4>4. 1 <= L - b  BY <1>5, <1>9
      <4> QED BY <1>9, <4>1, <4>3, <4>4
    <3>2. CASE end = <<HalfEnd, OtherHalf>>
      <4>1. Len(end) = 2 /\ end[1] = HalfEnd /\ end[2] = OtherHalf  BY <2>1, <3>2, OneOrTwo
      <4>2. 1 \in 1..Len(end) /\ 2 \in 1..Len(end) /\ 2 \in 1..Len(buffer)
        BY <1>5, <2>3, <4>1
      <4>3. body[b + 1] = HalfEnd  BY <1>10, <2>4, <4>1, <4>2
      <4>4. b + 2 \in 1..L /\ b + 2 \in 0..L /\ body[b + 2] \in Lines
            /\ Place(body, b + 2) = Chunk(At("half"), body[b + 2])
        BY <1>11, <4>3
      <4>5. 2 <= L - b  BY <1>5, <4>4
      <4>6. body[b + 2] = OtherHalf  BY <1>6, <2>4, <4>1, <4>2, <4>5
      <4>7. Place(body, b + 2) = At("size")  BY <4>4, <4>6, ChunkIs
      <4> QED BY <4>1, <4>4, <4>5, <4>7
    <3> QED BY <1>12, <3>1, <3>2
  <2> DEFINE n == Len(end)
  <2>6. out' = out \o SubSeq(buffer, 1, n) /\ buffer' = SubSeq(buffer, n + 1, Len(buffer))
    BY <1>12, <2>3
  <2>7. n \in Nat /\ n <= Len(buffer) /\ n <= L - b /\ b + n \in 0..L
        /\ Place(body, b + n) = At("size")
    BY <2>2, <2>3, <2>5
  <2> HIDE DEF n
  <2>8. Inside(stream, k, b + n, out', Cat(buffer', Ahead))
    BY <1>3, <2>6, <2>7, MovedOn DEF L, body
  <2>9. Place(body, b + n) = Mode(state', remaining') /\ state' \in ChunkStates
    BY <1>12, <2>7 DEF Mode, ChunkStates
  <2> DEFINE c == b + n
  <2>10. c \in 0..L /\ Inside(stream, k, c, out', Cat(buffer', Ahead))
         /\ Place(body, c) = Mode(state', remaining')
    BY <2>7, <2>8, <2>9
  <2> HIDE DEF c
  <2> QED BY <1>1, <1>4, <2>9, <2>10, Landed DEF L, body
<1>13. ASSUME out' = out, buffer' = buffer, state' = state PROVE Passes
  BY <1>1, <1>13, StopPasses
<1>14. ASSUME Head(buffer) # Blank, buffer # <<HalfEnd>>,
              ~IsPrefix(<<HalfEnd, OtherHalf>>, buffer), state' = "passthrough",
              out' = out, buffer' = buffer
       PROVE  Passes
  <2>1. Head(buffer) = buffer[1]  BY <1>1, <1>7
  <2>2. CASE body[b + 1] # HalfEnd
    <3>1. Place(body, b + 1) = At("broken")  BY <1>9, <1>10, <1>14, <2>1, <2>2, ChunkIs
    <3> QED BY <1>1, <1>3, <1>4, <1>9, <1>14, <3>1, Landed DEF L, body
  <2>3. CASE body[b + 1] = HalfEnd
    <3>1. b + 2 \in 1..L /\ b + 2 \in 0..L /\ body[b + 2] \in Lines
          /\ Place(body, b + 2) = Chunk(At("half"), body[b + 2])
      BY <1>11, <2>3
    <3>2. HalfEnd \in Lines /\ OtherHalf \in Lines  BY DEF Lines
    <3>3. Len(buffer) # 1
      <4>1. SUFFICES ASSUME Len(buffer) = 1 PROVE FALSE  OBVIOUS
      <4>2. <<HalfEnd>> \in Seq(Lines) /\ Len(<<HalfEnd>>) = 1 /\ <<HalfEnd>>[1] = HalfEnd
        BY <3>2, OneOrTwo
      <4>3. \A i \in 1..Len(buffer) : buffer[i] = <<HalfEnd>>[i]
        BY <1>10, <2>3, <4>1, <4>2
      <4>4. buffer = <<HalfEnd>>  BY <1>7, <4>1, <4>2, <4>3, SeqEqual
      <4> QED BY <1>14, <4>4
    <3>4. 2 \in 1..Len(buffer) /\ 2 <= Len(buffer)
      <4>1. \A n \in Nat : 1 \in 1..n /\ n # 1 => 2 \in 1..n /\ 2 <= n  OBVIOUS
      <4>2. Len(buffer) \in Nat /\ 1 \in 1..Len(buffer)  BY <1>5, <1>10
      <4> QED BY <3>3, <4>1, <4>2
    <3>5. 2 <= L - b  BY <1>5, <3>1
    <3>6. buffer[2] = body[b + 2]  BY <1>6, <3>4, <3>5
    <3>7. body[b + 2] # OtherHalf
      <4>1. SUFFICES ASSUME buffer[2] = OtherHalf PROVE FALSE  BY <3>6
      <4> DEFINE p == <<HalfEnd, OtherHalf>>
                 q == SubSeq(buffer, 1, 2)
      <4>2. p \in Seq(Lines) /\ Len(p) = 2 /\ p[1] = HalfEnd /\ p[2] = OtherHalf
        BY <3>2, OneOrTwo
      <4>3. q \in Seq(Lines) /\ Len(q) = 2 /\ \A i \in 1..2 : q[i] = buffer[i]
        BY <1>7, <3>4, Popped
      <4> HIDE DEF p, q
      <4>4. \A i \in 1..Len(p) : p[i] = q[i]
        <5>1. \A i \in 1..2 : i = 1 \/ i = 2  OBVIOUS
        <5>2. 1 \in 1..2 /\ 2 \in 1..2  OBVIOUS
        <5> QED BY <1>10, <2>3, <4>1, <4>2, <4>3, <5>1, <5>2
      <4>5. p = q  BY <4>2, <4>3, <4>4, SeqEqual
      <4>6. SubSeq(p, 1, Len(p)) = p  BY <4>2, Whole
      <4>7. IsPrefix(p, buffer)  BY <3>4, <4>2, <4>5, <4>6 DEF IsPrefix, q
      <4> QED BY <1>14, <4>7 DEF p
    <3>8. Place(body, b + 2) = At("broken")  BY <3>1, <3>7, ChunkIs
    <3> QED BY <1>1, <1>3, <1>4, <1>14, <3>1, <3>8, Landed DEF L, body
  <2> QED BY <2>2, <2>3
<1> QED BY <1>12, <1>13, <1>14 DEF ChunkEnd

(* Parts are followed by the line they are parts of.                       *)
LEMMA LineAhead ==
  ASSUME ConstantsOK, TypeOK, NEW k, NEW b, InChunks(k, b),
         state \in {"chunk_size", "trailers"},
         NEW n \in Nat, n <= Len(buffer), \A i \in 1..n : buffer[i] = Part
  PROVE  /\ b + (n + 1) \in 1..Len(stream[k].body)
         /\ \A i \in 1..Len(stream[k].body) :
              b < i /\ i <= b + n => stream[k].body[i] = Part
         /\ Place(stream[k].body, b + (n + 1)) =
              Chunk(IF state = "chunk_size" THEN At("size")
                    ELSE IF n = 0 THEN At("trailers") ELSE At("long"),
                    stream[k].body[b + (n + 1)])
<1> DEFINE body == stream[k].body
           L == Len(body)
<1>1. /\ body \in Seq(Lines) /\ L \in Nat /\ b \in Nat /\ b <= L /\ b \in 0..L
      /\ Chunks(body) \in {"done", "broken"} /\ Place(body, b) = Mode(state, remaining)
      /\ Len(buffer) \in Nat
  BY ChunkSpot
<1>2. ASSUME NEW i \in 1..Len(buffer), i <= L - b PROVE buffer[i] = body[b + i]
  BY <1>2, ChunkAhead
<1>3. Place(body, b) = IF state = "chunk_size" THEN At("size") ELSE At("trailers")
  BY <1>1 DEF Mode
<1>4. At("size") # At("trailers")  BY DEF At
<1> HIDE DEF L
<1>5. ASSUME NEW i \in 1..L, b < i, i <= b + n PROVE body[i] = Part
  <2>1. \A p, q, r, l, z \in Nat :
          p < q /\ q <= p + r /\ q <= l /\ r <= z =>
            q - p \in 1..r /\ q - p \in 1..z /\ q - p <= l - p /\ p + (q - p) = q
    OBVIOUS
  <2>2. i \in Nat /\ i <= L  BY <1>1
  <2> DEFINE j == i - b
  <2>3. j \in 1..n /\ j \in 1..Len(buffer) /\ j <= L - b /\ b + j = i
    BY <1>1, <1>5, <2>1, <2>2
  <2> HIDE DEF j, body
  <2>4. buffer[j] = body[b + j]  BY <1>2, <2>3
  <2> QED BY <2>3, <2>4
<1> HIDE DEF body
<1>6. /\ b + (n + 1) \in 1..Len(body)
      /\ Place(body, b + (n + 1)) =
           Chunk(IF Place(body, b) = At("size") THEN At("size")
                 ELSE IF n = 0 THEN At("trailers") ELSE At("long"), body[b + (n + 1)])
  <2>1. b \in 0..Len(body) /\ Place(body, b) \in {At("size"), At("trailers")}
    BY <1>1, <1>3 DEF L
  <2>2. \A i \in 1..Len(body) : b < i /\ i <= b + n => body[i] = Part  BY <1>5 DEF L
  <2> QED BY <1>1, <2>1, <2>2, LineComes
<1> QED BY <1>3, <1>4, <1>5, <1>6 DEF body, L

(* The line that is popped is the next one of the body.                    *)
LEMMA LinePopped ==
  ASSUME ConstantsOK, TypeOK, NEW k, NEW b, InChunks(k, b),
         state \in {"chunk_size", "trailers"}, LineEnd # {}, PopLine
  PROVE  /\ b + Min(LineEnd) \in 0..Len(stream[k].body)
         /\ Inside(stream, k, b + Min(LineEnd), out', Cat(buffer', Ahead))
         /\ Line \in Lines /\ Line # Part
         /\ Place(stream[k].body, b + Min(LineEnd)) =
              Chunk(IF state = "chunk_size" THEN At("size")
                    ELSE IF Min(LineEnd) = 1 THEN At("trailers") ELSE At("long"), Line)
<1> DEFINE m == Min(LineEnd)
           body == stream[k].body
<1>1. buffer \in Seq(Lines) /\ Len(buffer) \in Nat  BY DEF TypeOK
<1>2. /\ m \in 1..Len(buffer) /\ buffer[m] # Part
      /\ \A i \in 1..(m - 1) : buffer[i] = Part
  BY <1>1, LineEndMin
<1>3. out' = out \o SubSeq(buffer, 1, m) /\ buffer' = SubSeq(buffer, m + 1, Len(buffer))
  BY DEF PopLine
<1>4. Line = buffer[m] /\ Line \in Lines  BY <1>1, <1>2 DEF Line
<1> HIDE DEF m
<1>5. m - 1 \in Nat /\ m - 1 <= Len(buffer) /\ (m - 1) + 1 = m /\ m \in Nat /\ m <= Len(buffer)
      /\ (m - 1 = 0 <=> m = 1)
  BY <1>1, <1>2
<1>6. /\ b + m \in 1..Len(body)
      /\ Place(body, b + m) =
           Chunk(IF state = "chunk_size" THEN At("size")
                 ELSE IF m = 1 THEN At("trailers") ELSE At("long"), body[b + m])
  <2> DEFINE n == m - 1
  <2>1. n \in Nat /\ n <= Len(buffer) /\ \A i \in 1..n : buffer[i] = Part  BY <1>2, <1>5
  <2>2. n + 1 = m /\ (n = 0 <=> m = 1)  BY <1>5
  <2> HIDE DEF n
  <2>3. /\ b + (n + 1) \in 1..Len(body)
        /\ Place(body, b + (n + 1)) =
             Chunk(IF state = "chunk_size" THEN At("size")
                   ELSE IF n = 0 THEN At("trailers") ELSE At("long"), body[b + (n + 1)])
    BY <2>1, LineAhead
  <2> QED BY <2>2, <2>3
<1>7. b \in Nat /\ Len(body) \in Nat  BY ChunkSpot
<1>8. m <= Len(body) - b /\ b + m \in 0..Len(body)
  <2>1. \A p, q, l \in Nat : p + q \in 1..l => q <= l - p /\ p + q \in 0..l  OBVIOUS
  <2> QED BY <1>5, <1>6, <1>7, <2>1
<1>9. buffer[m] = body[b + m]
  <2>1. ASSUME NEW i \in 1..Len(buffer), i <= Len(body) - b PROVE buffer[i] = body[b + i]
    BY <2>1, ChunkAhead
  <2> QED BY <1>2, <1>8, <2>1
<1>10. Inside(stream, k, b + m, out', Cat(buffer', Ahead))
  <2>1. k \in 1..Len(stream) /\ b \in 0..Len(stream[k].body)
        /\ Inside(stream, k, b, out, Cat(buffer, Ahead))
    BY DEF InChunks
  <2> QED BY <1>3, <1>5, <1>8, <2>1, MovedOn
<1> QED BY <1>2, <1>4, <1>6, <1>8, <1>9, <1>10 DEF m

LEMMA ChunkSizePasses ==
  ASSUME ConstantsOK, TypeOK, InSync(stream, state, remaining, out, Cat(buffer, Ahead)),
         ChunkSize
  PROVE  Passes
<1>1. /\ stream' = stream /\ fed' = fed /\ state = "chunk_size" /\ LineEnd # {} /\ PopLine
  BY DEF ChunkSize
<1>2. PICK k \in 1..Len(stream) : \E b \in 0..Len(stream[k].body) :
        /\ Inside(stream, k, b, out, Cat(buffer, Ahead))
        /\ ByChunks(stream[k], b, state, remaining)
  BY <1>1 DEF InSync, ChunkStates
<1>3. PICK b \in 0..Len(stream[k].body) :
        /\ Inside(stream, k, b, out, Cat(buffer, Ahead))
        /\ ByChunks(stream[k], b, state, remaining)
  BY <1>2
<1>4. InChunks(k, b)  BY <1>3 DEF InChunks
<1> DEFINE c == b + Min(LineEnd)
<1>5. /\ c \in 0..Len(stream[k].body) /\ Inside(stream, k, c, out', Cat(buffer', Ahead))
      /\ Line \in Lines /\ Line # Part
      /\ Place(stream[k].body, c) = Chunk(At("size"), Line)
  BY <1>1, <1>4, LinePopped
<1> HIDE DEF c
<1>6. CASE Line[1] # "size"
  <2>1. Line # Size(0)  BY <1>6 DEF Size
  <2>2. state' = "passthrough"  BY <1>6, <2>1 DEF ChunkSize
  <2>3. Place(stream[k].body, c) = At("broken")  BY <1>5, <1>6, ChunkIs
  <2> QED BY <1>1, <1>4, <1>5, <2>2, <2>3, Landed
<1>7. CASE Line = Size(0)
  <2>1. Line[1] = "size"  BY <1>7 DEF Size
  <2>2. state' = "trailers"  BY <1>7, <2>1 DEF ChunkSize
  <2>3. Place(stream[k].body, c) = Mode(state', remaining') /\ state' \in ChunkStates
    <3>1. Place(stream[k].body, c) = At("trailers")  BY <1>5, <1>7, ChunkIs
    <3> QED BY <2>2, <3>1 DEF Mode, ChunkStates
  <2> QED BY <1>1, <1>4, <1>5, <2>3, Landed
<1>8. CASE Line[1] = "size" /\ Line # Size(0)
  <2>1. state' = "chunk_data" /\ remaining' = Line[2]  BY <1>8 DEF ChunkSize
  <2>2. Place(stream[k].body, c) = Mode(state', remaining') /\ state' \in ChunkStates
    <3>1. Place(stream[k].body, c) = Data(Line[2])  BY <1>5, <1>8, ChunkIs
    <3> QED BY <2>1, <3>1 DEF Mode, ChunkStates
  <2> QED BY <1>1, <1>4, <1>5, <2>2, Landed
<1> QED BY <1>6, <1>7, <1>8

LEMMA TrailersPasses ==
  ASSUME ConstantsOK, TypeOK, InSync(stream, state, remaining, out, Cat(buffer, Ahead)),
         Trailers
  PROVE  Passes
<1>1. /\ stream' = stream /\ fed' = fed /\ state = "trailers" /\ LineEnd # {} /\ PopLine
      /\ state' = IF Line = Blank /\ Min(LineEnd) = 1 THEN "head" ELSE state
  BY DEF Trailers
<1>2. PICK k \in 1..Len(stream) : \E b \in 0..Len(stream[k].body) :
        /\ Inside(stream, k, b, out, Cat(buffer, Ahead))
        /\ ByChunks(stream[k], b, state, remaining)
  BY <1>1 DEF InSync, ChunkStates
<1>3. PICK b \in 0..Len(stream[k].body) :
        /\ Inside(stream, k, b, out, Cat(buffer, Ahead))
        /\ ByChunks(stream[k], b, state, remaining)
  BY <1>2
<1>4. InChunks(k, b)  BY <1>3 DEF InChunks
<1> DEFINE c == b + Min(LineEnd)
<1>5. /\ c \in 0..Len(stream[k].body) /\ Inside(stream, k, c, out', Cat(buffer', Ahead))
      /\ Line \in Lines /\ Line # Part
      /\ Place(stream[k].body, c) =
           Chunk(IF Min(LineEnd) = 1 THEN At("trailers") ELSE At("long"), Line)
  BY <1>1, <1>4, LinePopped
<1> HIDE DEF c
<1>6. CASE Line = Blank /\ Min(LineEnd) = 1
  <2>1. Place(stream[k].body, c) = At("done")  BY <1>5, <1>6, ChunkIs
  <2> QED BY <1>1, <1>4, <1>5, <1>6, <2>1, Landed
<1>7. CASE ~ (Line = Blank /\ Min(LineEnd) = 1)
  <2>1. Place(stream[k].body, c) = At("trailers")  BY <1>5, <1>7, ChunkIs
  <2>2. Place(stream[k].body, c) = Mode(state', remaining') /\ state' \in ChunkStates
    BY <1>1, <1>7, <2>1 DEF Mode, ChunkStates
  <2> QED BY <1>1, <1>4, <1>5, <2>2, Landed
<1> QED BY <1>6, <1>7

(* A line of the chunked framing that fits is never given up.              *)
LEMMA LineMissingPasses ==
  ASSUME ConstantsOK, TypeOK, Good,
         InSync(stream, state, remaining, out, Cat(buffer, Ahead)), LineMissing
  PROVE  Passes
<1>1. /\ stream' = stream /\ fed' = fed /\ buffer' = buffer /\ remaining' = remaining
      /\ out' = out /\ LineEnd = {} /\ state \in {"chunk_size", "trailers"}
      /\ ~ (Len(buffer) > LineLimit) => state' = state
  BY DEF LineMissing
<1>2. CASE ~ (Len(buffer) > LineLimit)  BY <1>1, <1>2, StopPasses
<1>3. CASE Len(buffer) > LineLimit
  <2>1. PICK k \in 1..Len(stream) : \E b \in 0..Len(stream[k].body) :
          /\ Inside(stream, k, b, out, Cat(buffer, Ahead))
          /\ ByChunks(stream[k], b, state, remaining)
    BY <1>1 DEF InSync, ChunkStates
  <2>2. PICK b \in 0..Len(stream[k].body) :
          /\ Inside(stream, k, b, out, Cat(buffer, Ahead))
          /\ ByChunks(stream[k], b, state, remaining)
    BY <2>1
  <2>3. InChunks(k, b)  BY <2>2 DEF InChunks
  <2> DEFINE body == stream[k].body
             n == Len(buffer)
  <2>4. n \in Nat /\ n <= Len(buffer) /\ \A i \in 1..n : buffer[i] = Part
    <3>1. buffer \in Seq(Lines)  BY DEF TypeOK
    <3> QED BY <1>1, <3>1 DEF LineEnd
  <2>5. b + (n + 1) \in 1..Len(body)
    <3> HIDE DEF n
    <3> QED BY <1>1, <2>3, <2>4, LineAhead
  <2>6. \A i \in 1..Len(body) : b < i /\ i <= b + n => body[i] = Part
    <3> HIDE DEF n
    <3> QED BY <1>1, <2>3, <2>4, LineAhead
  <2>7. b \in Nat /\ Len(body) \in Nat /\ b \in 0..Len(body)  BY <2>3, ChunkSpot
  <2>8. LineLimit \in Nat /\ LineLimit < n  BY <1>3, <2>4, ConstantsOK DEF ConstantsOK
  <2>9. Fits(stream[k])
    <3>1. k \in DOMAIN stream
      <4>1. stream \in Seq(Messages)  BY Basics DEF IsStream
      <4> QED BY <4>1
    <3> QED BY <3>1 DEF Good
  <2> HIDE DEF body, n
  <2>10. b + LineLimit < Len(body)
    <3>1. \A p, q, l, z \in Nat : p + (q + 1) \in 1..l /\ z < q => p + z < l  OBVIOUS
    <3> QED BY <2>4, <2>5, <2>7, <2>8, <3>1
  <2>11. PICK j \in (b + 1)..(b + LineLimit + 1) : body[j] # Part
    BY <2>7, <2>9, <2>10 DEF Fits, body
  <2>12. j \in 1..Len(body) /\ b < j /\ j <= b + n
    <3>1. \A p, q, l, z \in Nat : \A i \in (p + 1)..(p + z + 1) :
            p + (q + 1) \in 1..l /\ z < q => i \in 1..l /\ p < i /\ i <= p + q
      OBVIOUS
    <3> QED BY <2>4, <2>5, <2>7, <2>8, <3>1
  <2> QED BY <2>6, <2>11, <2>12
<1> QED BY <1>2, <1>3

(* A head that fits is never given up, and has more to come.               *)
LEMMA HeadAwaits ==
  ASSUME ConstantsOK, TypeOK, InSync(stream, state, remaining, out, Cat(buffer, Ahead)),
         state = "head", buffer # <<>>, HeadEnd = {}
  PROVE  /\ Good => Len(buffer) <= HeadLimit
         /\ Ahead # <<>>
<1>1. PICK k \in 1..(Len(stream) + 1) : AtHead(stream, k, out, Cat(buffer, Ahead))
  BY DEF InSync
<1>2. IsStream(stream) /\ buffer \in Texts /\ Ahead \in Texts /\ Len(stream) \in Nat  BY Basics
<1>3. Len(buffer) \in Nat \ {0} /\ Len(Ahead) \in Nat
  BY <1>2 DEF Texts
<1>4. k \in 1..Len(stream)
  <2>1. SUFFICES ASSUME k = Len(stream) + 1 PROVE FALSE  BY <1>2
  <2>2. Cat(buffer, Ahead) = <<>>  BY <1>1, <1>2, <2>1, TailsAre DEF AtHead, IsStream
  <2>3. Len(Cat(buffer, Ahead)) = Len(buffer) + Len(Ahead)
    BY <1>2, Concatenation DEF Texts, Cat
  <2>4. Len(<<>>) = 0  OBVIOUS
  <2>5. Len(buffer) + Len(Ahead) = 0  BY <2>2, <2>3, <2>4
  <2> QED BY <1>3, <2>5
<1> DEFINE h == stream[k].head
<1>5. Len(h) \in Nat \ {0}  BY <1>1, <1>2, <1>4, HeadPeek
<1>6. Len(h) + 1 <= Len(buffer) => buffer[Len(h) + 1] = Blank
  BY <1>1, <1>2, <1>4, HeadPeek
<1>7. Len(buffer) + Len(Ahead) >= Len(h) + 1  BY <1>1, <1>2, <1>4, HeadPeek
<1> HIDE DEF h
<1>8. ~ (Len(h) + 1 <= Len(buffer))
  <2>1. Len(h) + 1 <= Len(buffer) => Len(h) + 1 \in 2..Len(buffer)  BY <1>3, <1>5
  <2>2. \A i \in 2..Len(buffer) : buffer[i] # Blank  BY DEF HeadEnd
  <2> QED BY <1>6, <2>1, <2>2
<1>9. Len(buffer) <= Len(h)  BY <1>3, <1>5, <1>8
<1>10. Ahead # <<>>
  <2>1. Len(Ahead) # 0  BY <1>3, <1>5, <1>7, <1>8
  <2>2. Len(<<>>) = 0  OBVIOUS
  <2> QED BY <2>1, <2>2
<1>11. ASSUME Good PROVE Len(buffer) <= HeadLimit
  <2>1. k \in DOMAIN stream
    <3>1. stream \in Seq(Messages)  BY <1>2 DEF IsStream
    <3> QED BY <1>4, <3>1
  <2>2. Len(h) <= HeadLimit  BY <1>11, <2>1 DEF Good, Fits, h
  <2>3. HeadLimit \in Nat  BY ConstantsOK DEF ConstantsOK
  <2> QED BY <1>3, <1>5, <1>9, <2>2, <2>3
<1> QED BY <1>10, <1>11

LEMMA HeadMissingPasses ==
  ASSUME ConstantsOK, TypeOK, Good,
         InSync(stream, state, remaining, out, Cat(buffer, Ahead)), HeadMissing
  PROVE  Passes
<1>1. /\ stream' = stream /\ fed' = fed /\ buffer' = buffer /\ remaining' = remaining
      /\ out' = out /\ HeadEnd = {} /\ state = "head" /\ buffer # <<>>
      /\ ~ (Len(buffer) > HeadLimit) => state' = state
  BY DEF HeadMissing
<1>2. Len(buffer) <= HeadLimit  BY <1>1, HeadAwaits
<1>3. Len(buffer) \in Nat /\ HeadLimit \in Nat  BY ConstantsOK DEF ConstantsOK, TypeOK
<1>4. ~ (Len(buffer) > HeadLimit)  BY <1>2, <1>3
<1> QED BY <1>1, <1>4, StopPasses

(* Whatever the framing of a request, its body ends where it is read to.   *)
LEMMA Entered ==
  ASSUME NEW ms, IsStream(ms), NEW k \in 1..Len(ms), NEW o, NEW r,
         Inside(ms, k, 0, o, r), NEW s, NEW left, NEW f, f = Framing(ms[k].head),
         CASE f.kind = "chunked" -> s = "chunk_size"
           [] f.kind = "length" /\ f.length > 0 -> s = "body" /\ left = f.length
           [] f.kind = "unknown" -> s = "passthrough"
           [] OTHER -> s = "head"
  PROVE  InSync(ms, s, left, o, r)
<1> DEFINE m == ms[k]
<1>1. m \in Messages /\ Framed(m) /\ m.body \in Seq(Lines) /\ Len(m.body) \in Nat
  BY Spot
<1>2. Reads(m, f) /\ IsFiniteSet(Announced(m))  BY <1>1, FramingRight DEF Messages
<1>3. 0 \in 0..Len(m.body) /\ \A n \in Nat : 0 + n = n  BY <1>1
<1>4. CASE f.kind = "chunked"
  <2>1. s = "chunk_size"  BY <1>4
  <2>2. Coded(m) /\ ChunkedLast(m)  BY <1>2, <1>4 DEF Reads
  <2>3. Place(m.body, 0) = At("size")
    <3>1. PICK g : PlaceSteps(m.body, g) /\ \A c : Place(m.body, c) = g[c]  BY <1>1, PlaceRuns
    <3> QED BY <3>1 DEF PlaceSteps
  <2>4. ByChunks(m, 0, s, left)  BY <2>1, <2>2, <2>3 DEF ByChunks, Mode
  <2> QED BY <1>3, <2>1, <2>4 DEF InSync, ChunkStates
<1>5. CASE f.kind = "length"
  <2>1. ~Coded(m) /\ Cardinality(Announced(m)) = 1 /\ f.length \in Nat  BY <1>2, <1>5 DEF Reads
  <2>2. PICK line \in Announced(m) : Announced(m) = {line} /\ f.length = line[2]
    BY <1>2, <1>5 DEF Reads
  <2>3. Parsable(m)  BY <2>1 DEF Parsable
  <2>4. Len(m.body) = f.length
    <3>1. Announced(m) # {}  BY <2>2
    <3>2. \A l \in Announced(m) : Announced(m) = {l} => Len(m.body) = l[2]
      BY <1>1, <2>1, <3>1 DEF Framed
    <3> QED BY <2>2, <3>2
  <2>5. CASE f.length > 0
    <3>1. s = "body" /\ left = f.length  BY <1>5, <2>5
    <3>2. f.length # 0  BY <2>1, <2>5
    <3>3. ByLength(m, 0, left)  BY <1>3, <2>1, <2>3, <2>4, <3>1, <3>2 DEF ByLength
    <3> QED BY <1>3, <3>1, <3>3 DEF InSync, ChunkStates
  <2>6. CASE ~ (f.length > 0)
    <3>1. s = "head"  BY <1>5, <2>6
    <3>2. Len(m.body) = 0  BY <2>1, <2>4, <2>6
    <3>3. AtHead(ms, k + 1, o, r) /\ k + 1 \in 1..(Len(ms) + 1)  BY <2>3, <3>2, BodyOver
    <3> QED BY <3>1, <3>3 DEF InSync, ChunkStates
  <2> QED BY <2>5, <2>6
<1>6. CASE f.kind = "none"
  <2>1. ~Coded(m) /\ Announced(m) = {}  BY <1>2, <1>6 DEF Reads
  <2>2. m.body = <<>>  BY <1>1, <2>1 DEF Framed
  <2>3. Len(m.body) = 0  BY <2>2
  <2>4. Parsable(m)
    <3>1. Cardinality(Announced(m)) = 0  BY <2>1, FS_EmptySet
    <3> QED BY <2>1, <3>1 DEF Parsable
  <2>5. s = "head"  BY <1>6
  <2>6. AtHead(ms, k + 1, o, r) /\ k + 1 \in 1..(Len(ms) + 1)  BY <2>3, <2>4, BodyOver
  <2> QED BY <2>5, <2>6 DEF InSync, ChunkStates
<1>7. CASE f.kind = "unknown"
  <2>1. s = "passthrough"  BY <1>7
  <2>2. ~ (Coded(m) /\ ChunkedLast(m)) /\ ~ (~Coded(m) /\ Announced(m) = {})
        /\ ~ (~Coded(m) /\ Cardinality(Announced(m)) = 1)
    BY <1>2, <1>7 DEF Reads
  <2>3. ~Parsable(m)
    <3>1. Cardinality(Announced(m)) \in Nat /\ (Cardinality(Announced(m)) = 0 <=> Announced(m) = {})
      BY <1>2, FS_CardinalityType, FS_EmptySet
    <3>2. \A n \in Nat : n <= 1 => n = 0 \/ n = 1  OBVIOUS
    <3> QED BY <2>2, <3>1, <3>2 DEF Parsable
  <2>4. Cat(o, r) = Due(ms, 1)  BY <2>3, GiveUp
  <2> QED BY <2>1, <2>4 DEF InSync, ChunkStates
<1> QED BY <1>2, <1>4, <1>5, <1>6, <1>7 DEF Reads

LEMMA RewriteHeadPasses ==
  ASSUME ConstantsOK, TypeOK, Good,
         InSync(stream, state, remaining, out, Cat(buffer, Ahead)), RewriteHead
  PROVE  Passes
<1> DEFINE h == SubSeq(buffer, 1, Min(HeadEnd) - 1)
           rest == SubSeq(buffer, Min(HeadEnd) + 1, Len(buffer))
           f == Framing(h)
<1>1. /\ stream' = stream /\ fed' = fed /\ state = "head" /\ HeadEnd # {}
      /\ out' = out \o Inject(h) \o <<Blank>> /\ buffer' = rest
  BY DEF RewriteHead
<1>2. /\ CASE f.kind = "chunked" -> state' = "chunk_size"
           [] f.kind = "length" /\ f.length > 0 -> state' = "body" /\ remaining' = f.length
           [] f.kind = "unknown" -> state' = "passthrough"
           [] OTHER -> state' = "head"
  BY DEF RewriteHead
<1>3. buffer \in Texts /\ out \in Texts /\ Ahead \in Texts /\ IsStream(stream)  BY Basics
<1>4. /\ h \in Seq(Lines) /\ h # <<>> /\ Len(h) = Min(HeadEnd) - 1 /\ rest \in Seq(Lines)
      /\ \A i \in 2..(Min(HeadEnd) - 1) : h[i] # Blank
      /\ buffer = (h \o <<Blank>>) \o rest
  BY <1>1, HeadCut DEF TypeOK
<1>5. h \in Texts /\ rest \in Texts /\ \A i \in 2..Len(h) : h[i] # Blank
  BY <1>4 DEF Texts
<1>6. buffer = Cat(Cat(h, <<Blank>>), rest)  BY <1>4 DEF Cat
<1>7. PICK k \in 1..(Len(stream) + 1) : AtHead(stream, k, out, Cat(buffer, Ahead))
  BY <1>1 DEF InSync
<1> HIDE DEF h, rest, f
<1>8. AtHead(stream, k, out, Cat(Cat(Cat(h, <<Blank>>), rest), Ahead))  BY <1>6, <1>7
<1>9. /\ k \in 1..Len(stream) /\ h = stream[k].head
      /\ Inside(stream, k, 0, Cat(out, Stamped(stream[k])), Cat(rest, Ahead))
  BY <1>3, <1>4, <1>5, <1>8, HeadFound
<1>10. out' = Cat(out, Stamped(stream[k]))
  <2> DEFINE bl == <<Blank>>
             i == Cat(<<h[1], Stamp>>, Strip(Tail(h)))
  <2>1. Strip(Tail(h)) # <<>>
    <3>1. k \in DOMAIN stream
      <4>1. stream \in Seq(Messages)  BY <1>3 DEF IsStream
      <4> QED BY <1>9, <4>1
    <3> QED BY <1>9, <3>1 DEF Good, Bare
  <2>2. Inject(h) = i  BY <2>1 DEF Inject, Cat
  <2>3. i \in Texts /\ bl \in Texts
    <3>1. stream[k] \in Messages /\ Framed(stream[k])  BY <1>3, <1>9, Spot
    <3>2. <<h[1], Stamp>> \in Texts /\ Strip(Tail(h)) \in Texts /\ bl \in Texts
      BY <1>9, <3>1, MessageParts
    <3> QED BY <3>2, Cats
  <2>4. Stamped(stream[k]) = Cat(i, bl)  BY <1>9 DEF Stamped
  <2> HIDE DEF i
  <2>5. out' = Cat(Cat(out, i), bl)  BY <1>1, <2>2 DEF Cat
  <2> HIDE DEF bl
  <2> QED BY <1>3, <2>3, <2>4, <2>5, Cats
<1>11. InSync(stream, state', remaining', out', Cat(buffer', Ahead))
  <2>1. Inside(stream, k, 0, out', Cat(buffer', Ahead))  BY <1>1, <1>9, <1>10
  <2>2. f = Framing(stream[k].head)  BY <1>9 DEF f
  <2> QED BY <1>2, <1>3, <1>9, <2>1, <2>2, Entered
<1> QED BY <1>1, <1>11 DEF Passes

-----------------------------------------------------------------------------
(* Every head is stamped.                                                  *)

LEMMA InitSync == ASSUME ConstantsOK, TypeOK, Init PROVE Sync
<1>1. /\ IsStream(stream) /\ Len(stream) \in Nat /\ Wire(stream) \in Seq(Lines)
      /\ From(stream, 1) = Wire(stream)
  BY Basics
<1>2. fed = 0 /\ state = "head" /\ buffer = <<>> /\ out = <<>>  BY DEF Init
<1>3. Ahead = Wire(stream)
  <2>1. 0 + 1 = 1  OBVIOUS
  <2> QED BY <1>1, <1>2, <2>1, Whole DEF Ahead
<1>4. 1 \in 1..(Len(stream) + 1)  BY <1>1
<1>5. From(stream, 1) \in Texts /\ Due(stream, 1) \in Texts
  BY <1>1, <1>4, TailsAre DEF IsStream
<1>6. Cat(buffer, Ahead) = From(stream, 1) /\ Cat(out, Due(stream, 1)) = Due(stream, 1)
  BY <1>1, <1>2, <1>3, <1>5, Cats
<1>7. Passed(stream, 1)  BY DEF Passed
<1>8. AtHead(stream, 1, out, Cat(buffer, Ahead))  BY <1>6, <1>7 DEF AtHead
<1> QED BY <1>2, <1>4, <1>8 DEF Sync, InSync, ChunkStates

LEMMA LoopSync == ASSUME ConstantsOK, TypeOK, Sync, LoopStep PROVE Sync'
<1>1. CASE ~Good
  <2>1. Moves  BY LoopStepMoves
  <2>2. Good' = Good  BY <2>1 DEF Moves, Good
  <2> QED BY <1>1, <2>2 DEF Sync
<1>2. CASE Good
  <2>1. InSync(stream, state, remaining, out, Cat(buffer, Ahead))  BY <1>2 DEF Sync
  <2>2. CASE Exhausted
    <3>1. /\ stream' = stream /\ fed' = fed /\ state' = state /\ buffer' = buffer
          /\ remaining' = remaining /\ out' = out
      BY <2>2 DEF Exhausted
    <3> QED BY <2>1, <3>1, StopPasses, PassesSync
  <2>3. CASE PassThrough  BY <2>1, <2>3, PassThroughPasses, PassesSync
  <2>4. CASE Body  BY <2>1, <2>4, BodyPasses, PassesSync
  <2>5. CASE ChunkEnd  BY <2>1, <2>5, ChunkEndPasses, PassesSync
  <2>6. CASE LineMissing  BY <1>2, <2>1, <2>6, LineMissingPasses, PassesSync
  <2>7. CASE ChunkSize  BY <2>1, <2>7, ChunkSizePasses, PassesSync
  <2>8. CASE Trailers  BY <2>1, <2>8, TrailersPasses, PassesSync
  <2>9. CASE HeadMissing  BY <1>2, <2>1, <2>9, HeadMissingPasses, PassesSync
  <2>10. CASE RewriteHead  BY <1>2, <2>1, <2>10, RewriteHeadPasses, PassesSync
  <2> QED
    BY <2>2, <2>3, <2>4, <2>5, <2>6, <2>7, <2>8, <2>9, <2>10 DEF LoopStep
<1> QED BY <1>1, <1>2

LEMMA NextSync == ASSUME ConstantsOK, IInv, Sync, [Next]_vars PROVE Sync'
<1>1. TypeOK  BY DEF IInv
<1>2. CASE Feed
  <2>1. TypeOK'  BY <1>1, <1>2, Fed1
  <2> QED BY <1>1, <1>2, <2>1, FedSync
<1>3. CASE LoopStep  BY <1>1, <1>3, LoopSync
<1>4. CASE UNCHANGED vars
  <2>1. /\ stream' = stream /\ fed' = fed /\ state' = state /\ buffer' = buffer
        /\ remaining' = remaining /\ out' = out
    BY <1>4 DEF vars
  <2>2. Good' = Good  BY <2>1 DEF Good
  <2>3. CASE ~Good  BY <2>2, <2>3 DEF Sync
  <2>4. CASE Good
    <3>1. InSync(stream, state, remaining, out, Cat(buffer, Ahead))  BY <2>4 DEF Sync
    <3> QED BY <2>1, <3>1, StopPasses, PassesSync
  <2> QED BY <2>3, <2>4
<1> QED BY <1>2, <1>3, <1>4 DEF Next

(* What came out is the beginning of what should.                          *)
LEMMA Prefixed ==
  ASSUME ConstantsOK, TypeOK, InSync(stream, state, remaining, out, Cat(buffer, Ahead))
  PROVE  IsPrefix(out, Expected)
<1>1. /\ IsStream(stream) /\ Len(stream) \in Nat /\ buffer \in Texts /\ out \in Texts
      /\ Ahead \in Texts /\ Expected = Due(stream, 1)
  BY Basics
<1>2. \A k \in 1..(Len(stream) + 1) : Due(stream, k) \in Texts
  BY <1>1, TailsAre DEF IsStream
<1>3. ASSUME NEW k \in 1..Len(stream), NEW b \in 0..Len(stream[k].body),
             Inside(stream, k, b, out, Cat(buffer, Ahead))
      PROVE  \E z \in Texts : Cat(out, z) = Due(stream, 1)
  <2>1. Left(stream, k, b) \in Texts /\ Due(stream, k + 1) \in Texts  BY <1>1, Spot
  <2>2. Cat(Left(stream, k, b), Due(stream, k + 1)) \in Texts  BY <2>1, Cats
  <2> QED BY <1>3, <2>2 DEF Inside
<1>4. PICK z \in Texts : Cat(out, z) = Due(stream, 1)
  <2>1. CASE state = "head"
    <3>1. PICK k \in 1..(Len(stream) + 1) : AtHead(stream, k, out, Cat(buffer, Ahead))
      BY <2>1 DEF InSync
    <3> QED BY <1>2, <3>1 DEF AtHead
  <2>2. CASE state = "body"
    <3>1. PICK k \in 1..Len(stream) : \E b \in 0..Len(stream[k].body) :
            Inside(stream, k, b, out, Cat(buffer, Ahead))
      BY <2>2 DEF InSync
    <3> QED BY <1>3, <3>1
  <2>3. CASE state \in ChunkStates
    <3>1. PICK k \in 1..Len(stream) : \E b \in 0..Len(stream[k].body) :
            Inside(stream, k, b, out, Cat(buffer, Ahead))
      BY <2>3 DEF InSync
    <3> QED BY <1>3, <3>1
  <2>4. CASE state = "passthrough"
    <3>1. Cat(out, Cat(buffer, Ahead)) = Due(stream, 1)  BY <2>4 DEF InSync
    <3>2. Cat(buffer, Ahead) \in Texts  BY <1>1, Cats
    <3> QED BY <3>1, <3>2
  <2> QED BY <2>1, <2>2, <2>3, <2>4 DEF TypeOK, States, ChunkStates
<1>5. out \in Seq(Lines) /\ z \in Seq(Lines) /\ Expected = out \o z
  BY <1>1, <1>4 DEF Texts, Cat
<1> HIDE DEF Expected
<1>6. \A x, y \in Seq(Lines) : IsPrefix(x, x \o y)
  BY DEF IsPrefix
<1> QED BY <1>5, <1>6

(* When all was fed and feed() has returned, nothing more is due.          *)
LEMMA AllOut ==
  ASSUME ConstantsOK, TypeOK, Waits,
         InSync(stream, state, remaining, out, Cat(buffer, Ahead)),
         ~feeding, fed = Len(Wire(stream))
  PROVE  out = Expected
<1>1. /\ IsStream(stream) /\ Len(stream) \in Nat /\ buffer \in Texts /\ out \in Texts
      /\ Ahead \in Texts /\ Expected = Due(stream, 1)
      /\ Len(Ahead) = Len(Wire(stream)) - fed /\ Len(Wire(stream)) \in Nat
  BY Basics
<1>2. Len(Ahead) = 0 /\ Ahead = <<>>  BY <1>1 DEF Texts
<1>3. Len(buffer) \in Nat /\ (Len(buffer) = 0 <=> buffer = <<>>)  BY <1>1 DEF Texts
<1> HIDE DEF Expected
<1>4. CASE state = "passthrough"
  <2>1. buffer = <<>>  BY <1>4 DEF Waits
  <2>2. Cat(out, Cat(buffer, Ahead)) = Due(stream, 1)  BY <1>4 DEF InSync
  <2> QED BY <1>1, <1>2, <2>1, <2>2, Cats
<1>5. CASE state = "head"
  <2>1. buffer = <<>>
    <3>1. SUFFICES ASSUME buffer # <<>> PROVE FALSE  OBVIOUS
    <3>2. HeadEnd = {}  BY <1>5, <3>1 DEF Waits
    <3> QED BY <1>2, <1>5, <3>1, <3>2, HeadAwaits
  <2>2. PICK k \in 1..(Len(stream) + 1) : AtHead(stream, k, out, Cat(buffer, Ahead))
    BY <1>5 DEF InSync
  <2>3. k = Len(stream) + 1
    <3>1. SUFFICES ASSUME k \in 1..Len(stream) PROVE FALSE  BY <1>1
    <3> DEFINE h == stream[k].head
    <3>2. Len(h) \in Nat \ {0}  BY <1>1, <2>2, <3>1, HeadPeek
    <3>3. Len(buffer) + Len(Ahead) >= Len(h) + 1  BY <1>1, <2>2, <3>1, HeadPeek
    <3> HIDE DEF h
    <3> QED BY <1>2, <1>3, <2>1, <3>2, <3>3
  <2>4. Due(stream, k) = <<>> /\ Cat(out, Due(stream, k)) = Due(stream, 1)
    BY <1>1, <2>2, <2>3, TailsAre DEF AtHead, IsStream
  <2> QED BY <1>1, <2>4, Cats
<1>6. CASE state = "body"
  <2>1. PICK k \in 1..Len(stream) : \E b \in 0..Len(stream[k].body) :
          Inside(stream, k, b, out, Cat(buffer, Ahead)) /\ ByLength(stream[k], b, remaining)
    BY <1>6 DEF InSync
  <2>2. PICK b \in 0..Len(stream[k].body) :
          Inside(stream, k, b, out, Cat(buffer, Ahead)) /\ ByLength(stream[k], b, remaining)
    BY <2>1
  <2> DEFINE L == Len(stream[k].body)
  <2>3. Len(buffer) + Len(Ahead) >= L - b  BY <1>1, <2>2, Peek
  <2>4. L \in Nat /\ b \in Nat /\ b + remaining = L /\ remaining # 0
    BY <1>1, <2>2, Spot DEF ByLength
  <2>5. remaining \in Nat  BY DEF TypeOK
  <2>6. buffer = <<>>  BY <1>6 DEF Waits
  <2> HIDE DEF L
  <2>7. 0 >= L - b  BY <1>2, <1>3, <2>3, <2>6
  <2>8. FALSE  BY <2>4, <2>5, <2>7
  <2> QED BY <2>8
<1>7. CASE state \in ChunkStates
  <2>1. PICK k \in 1..Len(stream) : \E b \in 0..Len(stream[k].body) :
          /\ Inside(stream, k, b, out, Cat(buffer, Ahead))
          /\ ByChunks(stream[k], b, state, remaining)
    BY <1>7 DEF InSync
  <2>2. PICK b \in 0..Len(stream[k].body) :
          /\ Inside(stream, k, b, out, Cat(buffer, Ahead))
          /\ ByChunks(stream[k], b, state, remaining)
    BY <2>1
  <2>3. InChunks(k, b)  BY <2>2 DEF InChunks
  <2> DEFINE body == stream[k].body
             L == Len(body)
  <2>4. /\ body \in Seq(Lines) /\ L \in Nat /\ b \in Nat /\ b \in 0..L
        /\ Chunks(body) \in {"done", "broken"} /\ Place(body, b) = Mode(state, remaining)
    BY <2>3, ChunkSpot
  <2>5. Len(buffer) + Len(Ahead) >= L - b  BY <2>3, ChunkSpot
  <2>6. \A i \in 1..Len(buffer) : i <= L - b => buffer[i] = body[b + i]  BY <2>3, ChunkSpot
  <2>7. /\ b + 1 \in 1..L /\ b + 1 \in 0..L /\ body[b + 1] \in Lines
        /\ Place(body, b + 1) = Chunk(Place(body, b), body[b + 1])
    <3>1. Place(body, b).place \notin {"done", "broken"}
      BY <1>7, <2>4 DEF Mode, ChunkStates, At, Data
    <3> HIDE DEF body
    <3> QED BY <2>4, <3>1, NotOver
  <2> HIDE DEF L
  <2>8. Len(buffer) >= L - b /\ 1 <= L - b /\ buffer # <<>>
    <3>1. Len(buffer) >= L - b  BY <1>2, <1>3, <2>5
    <3>2. 1 <= L - b  BY <2>4, <2>7
    <3>3. Len(buffer) # 0  BY <1>3, <2>4, <3>1, <3>2
    <3> QED BY <1>3, <3>1, <3>2, <3>3
  <2>9. CASE state \in {"chunk_size", "trailers"} /\ LineEnd = {}
    <3> DEFINE n == Len(buffer)
    <3>1. n \in Nat /\ n <= Len(buffer) /\ \A i \in 1..n : buffer[i] = Part
      <4>1. buffer \in Seq(Lines)  BY DEF TypeOK
      <4> QED BY <2>9, <4>1 DEF LineEnd
    <3> HIDE DEF n
    <3>2. b + (n + 1) \in 1..Len(body)  BY <2>3, <2>9, <3>1, LineAhead
    <3>3. \A p, q, l \in Nat : p + (q + 1) \in 1..l => ~ (q >= l - p)  OBVIOUS
    <3>4. n >= L - b  BY <2>8 DEF n
    <3>5. FALSE  BY <2>4, <3>1, <3>2, <3>3, <3>4 DEF L
    <3> QED BY <3>5
  <2>10. CASE state = "chunk_end" /\ buffer = <<HalfEnd>>
    <3>1. Len(buffer) = 1 /\ buffer[1] = HalfEnd /\ 1 \in 1..Len(buffer)  BY <2>10
    <3>2. body[b + 1] = HalfEnd  BY <2>6, <2>8, <3>1
    <3>3. Place(body, b) = At("end")  BY <2>4, <2>10 DEF Mode
    <3>4. Place(body, b + 1) = At("half")  BY <2>7, <3>2, <3>3, ChunkIs
    <3> DEFINE c == b + 1
    <3>5. c \in 0..L /\ Place(body, c).place \notin {"done", "broken"}
      BY <2>7, <3>4 DEF At
    <3> HIDE DEF c, body
    <3>6. c + 1 \in 1..L  BY <2>4, <3>5, NotOver DEF L
    <3>7. 2 <= L - b  BY <2>4, <3>6 DEF c
    <3>8. FALSE  BY <2>4, <2>8, <3>1, <3>7
    <3> QED BY <3>8
  <2> QED BY <1>7, <2>8, <2>9, <2>10 DEF Waits, ChunkStates
<1> QED BY <1>4, <1>5, <1>6, <1>7 DEF TypeOK, States, ChunkStates

(* On a connection whose requests fit the limits, begin with their request *)
(* line and have a header that is no copy of ours, each is stamped exactly *)
(* once, after its request line, with the copies of our headers that the   *)
(* client sent removed, and no other line is touched: in whatever pieces   *)
(* the bytes arrive, however many requests are pipelined and whatever      *)
(* their bodies look like.                                                 *)
THEOREM EveryHeadIsStamped == Spec => []EveryHeadStamped
<1>1. Init => IInv /\ Sync
  <2>1. ASSUME Init PROVE IInv /\ Sync
    <3>1. IInv  BY <2>1, ConstantsOK, InitInv
    <3> QED BY <2>1, <3>1, ConstantsOK, InitSync DEF IInv
  <2> QED BY <2>1
<1>2. IInv /\ Sync /\ [Next]_vars => IInv' /\ Sync'  BY ConstantsOK, NextInv, NextSync
<1>3. ASSUME IInv, Sync PROVE EveryHeadStamped
  <2>1. ASSUME \A i \in DOMAIN stream :
                 Fits(stream[i]) /\ LineFirst(stream[i]) /\ ~Bare(stream[i])
        PROVE  /\ IsPrefix(out, Expected)
               /\ ~feeding /\ fed = Len(Wire(stream)) => out = Expected
    <3> Good  BY <2>1 DEF Good
    <3>1. InSync(stream, state, remaining, out, Cat(buffer, Ahead))  BY <1>3 DEF Sync
    <3>2. TypeOK /\ Waits  BY <1>3 DEF IInv
    <3>3. IsPrefix(out, Expected)  BY <3>1, <3>2, ConstantsOK, Prefixed
    <3>4. ASSUME ~feeding, fed = Len(Wire(stream)) PROVE out = Expected
      BY <3>1, <3>2, <3>4, ConstantsOK, AllOut
    <3> QED BY <3>3, <3>4
  <2> QED BY <2>1 DEF EveryHeadStamped
<1> QED BY <1>1, <1>2, <1>3, PTL DEF Spec

=============================================================================
