---------------------------- MODULE AnalysisProofs ----------------------------
(***************************************************************************)
(* What the log is good for, for any requests, any number of days and any  *)
(* loss: what is published, and what sessions and actors say.  An          *)
(* inductive invariant tells which events a log can hold; the rest is      *)
(* about the folds that read it.                                           *)
(***************************************************************************)
EXTENDS Analysis, WellFoundedInduction, TLAPS

(* Induction on the natural numbers, for a set instead of a predicate: a   *)
(* number outside of T would have a least one below it.                    *)
LEMMA Counting ==
  ASSUME NEW T, 0 \in T, \A n \in Nat : n \in T => n + 1 \in T
  PROVE  Nat \subseteq T
<1> DEFINE R == OpToRel(<, Nat)
           U == Nat \ T
<1>1. IsWellFoundedOn(R, Nat) /\ \A x, y \in Nat : y < x => <<y, x>> \in R
  BY NatLessThanWellFounded DEF OpToRel
<1> HIDE DEF R
<1>2. SUFFICES ASSUME U # {} PROVE FALSE
  OBVIOUS
<1>3. U \subseteq Nat
  OBVIOUS
<1>4. PICK x \in U : \A y \in U : ~ (<<y, x>> \in R)
  <2> HIDE DEF U
  <2> QED
    BY <1>1, <1>2, <1>3, WFMin
<1>5. x \in Nat /\ x # 0 /\ x - 1 \in Nat /\ x - 1 < x /\ (x - 1) + 1 = x
  OBVIOUS
<1> QED
  BY <1>1, <1>4, <1>5

-----------------------------------------------------------------------------
(* Sequences that are put together from parts.                             *)

LEMMA ElementsOfBoth ==
  ASSUME NEW S, NEW s \in Seq(S), NEW t \in Seq(S)
  PROVE  s \o t \in Seq(S) /\ ToSet(s \o t) = ToSet(s) \union ToSet(t)
<1>1. /\ s \o t \in Seq(S) /\ DOMAIN s = 1..Len(s) /\ DOMAIN t = 1..Len(t)
      /\ DOMAIN (s \o t) = 1..(Len(s) + Len(t)) /\ Len(s) \in Nat /\ Len(t) \in Nat
      /\ \A i \in 1..(Len(s) + Len(t)) : (s \o t)[i] = IF i <= Len(s) THEN s[i] ELSE t[i - Len(s)]
  OBVIOUS
<1>2. ASSUME NEW x \in ToSet(s \o t)
      PROVE  x \in ToSet(s) \union ToSet(t)
  <2>1. PICK i \in 1..(Len(s) + Len(t)) : x = IF i <= Len(s) THEN s[i] ELSE t[i - Len(s)]
    BY <1>1 DEF ToSet
  <2>2. i <= Len(s) => i \in 1..Len(s)
    BY <1>1
  <2>3. ~(i <= Len(s)) => i - Len(s) \in 1..Len(t)
    BY <1>1
  <2> QED
    BY <1>1, <2>1, <2>2, <2>3 DEF ToSet
<1>3. ASSUME NEW x \in ToSet(s)
      PROVE  x \in ToSet(s \o t)
  <2>1. PICK i \in 1..Len(s) : x = s[i]
    BY <1>1 DEF ToSet
  <2>2. i \in 1..(Len(s) + Len(t)) /\ i <= Len(s)
    BY <1>1
  <2> QED
    BY <1>1, <2>1, <2>2 DEF ToSet
<1>4. ASSUME NEW x \in ToSet(t)
      PROVE  x \in ToSet(s \o t)
  <2>1. PICK i \in 1..Len(t) : x = t[i]
    BY <1>1 DEF ToSet
  <2>2. /\ i + Len(s) \in 1..(Len(s) + Len(t)) /\ ~(i + Len(s) <= Len(s))
        /\ (i + Len(s)) - Len(s) = i
    BY <1>1
  <2>3. (s \o t)[i + Len(s)] = t[i]
    BY <1>1, <2>2
  <2> QED
    BY <1>1, <2>1, <2>2, <2>3 DEF ToSet
<1> QED
  BY <1>1, <1>2, <1>3, <1>4

LEMMA ElementsOfOne ==
  ASSUME NEW S, NEW x \in S
  PROVE  <<x>> \in Seq(S) /\ ToSet(<<x>>) = {x} /\ <<>> \in Seq(S) /\ ToSet(<<>>) = {}
BY DEF ToSet

(* Parts are appended one after the other, g telling how far.              *)
Joins(g, parts) ==
  /\ DOMAIN g = 0..Len(parts) /\ g[0] = <<>>
  /\ \A n \in 1..Len(parts) : g[n] = g[n - 1] \o parts[n]

LEMMA ElementsOfAll ==
  ASSUME NEW S, NEW parts \in Seq(Seq(S)), NEW g, Joins(g, parts)
  PROVE  /\ g[Len(parts)] \in Seq(S)
         /\ ToSet(g[Len(parts)]) = UNION {ToSet(parts[n]) : n \in DOMAIN parts}
<1> DEFINE N == Len(parts)
           Upto(n) == UNION {ToSet(parts[k]) : k \in 1..n}
           T == {n \in Nat : n <= N => g[n] \in Seq(S) /\ ToSet(g[n]) = Upto(n)}
<1>1. N \in Nat /\ DOMAIN parts = 1..N /\ \A n \in 1..N : parts[n] \in Seq(S)
  OBVIOUS
<1>2. 0 \in T
  <2>1. ToSet(<<>>) = {} /\ <<>> \in Seq(S)
    BY DEF ToSet
  <2>2. Upto(0) = {}
    OBVIOUS
  <2> QED
    BY <2>1, <2>2 DEF Joins
<1>3. ASSUME NEW n \in Nat, n \in T
      PROVE  n + 1 \in T
  <2>1. SUFFICES ASSUME n + 1 <= N
                 PROVE  g[n + 1] \in Seq(S) /\ ToSet(g[n + 1]) = Upto(n + 1)
    OBVIOUS
  <2>2. n + 1 \in 1..N /\ (n + 1) - 1 = n /\ n <= N
    BY <1>1, <2>1
  <2>3. g[n + 1] = g[n] \o parts[n + 1]
    BY <2>2 DEF Joins
  <2>4. g[n] \in Seq(S) /\ ToSet(g[n]) = Upto(n) /\ parts[n + 1] \in Seq(S)
    BY <1>1, <1>3, <2>2
  <2>5. Upto(n + 1) = Upto(n) \union ToSet(parts[n + 1])
    <3>1. 1..(n + 1) = (1..n) \union {n + 1}
      OBVIOUS
    <3>2. ASSUME NEW x
          PROVE  x \in Upto(n + 1) <=> x \in Upto(n) \/ x \in ToSet(parts[n + 1])
      <4>1. x \in Upto(n + 1) <=> \E k \in 1..(n + 1) : x \in ToSet(parts[k])
        BY Zenon
      <4>2. x \in Upto(n) <=> \E k \in 1..n : x \in ToSet(parts[k])
        BY Zenon
      <4> HIDE DEF Upto
      <4> QED
        BY <3>1, <4>1, <4>2, Zenon
    <3> HIDE DEF Upto
    <3> QED
      BY <3>2, Zenon
  <2>6. /\ g[n] \o parts[n + 1] \in Seq(S)
        /\ ToSet(g[n] \o parts[n + 1]) = ToSet(g[n]) \union ToSet(parts[n + 1])
    BY <2>4, ElementsOfBoth
  <2> HIDE DEF Upto
  <2> QED
    BY <2>3, <2>4, <2>5, <2>6, Zenon
<1>4. N \in T
  <2> HIDE DEF T
  <2> QED
    BY <1>1, <1>2, <1>3, Counting
<1> QED
  BY <1>1, <1>4

(* Such a g exists.                                                        *)
LEMMA JoinsExist ==
  ASSUME NEW S, NEW parts \in Seq(Seq(S))
  PROVE  \E g : Joins(g, parts)
<1> DEFINE N == Len(parts)
           Good(m, g) == DOMAIN g = 0..m /\ g[0] = <<>> /\ \A n \in 1..m : g[n] = g[n - 1] \o parts[n]
           T == {m \in Nat : \E g : Good(m, g)}
<1>1. 0 \in T
  <2> DEFINE f == [n \in 0..0 |-> <<>>]
  <2>1. DOMAIN f = 0..0 /\ f[0] = <<>> /\ 1..0 = {}
    OBVIOUS
  <2> HIDE DEF f
  <2>2. Good(0, f)
    BY <2>1
  <2> QED
    BY <2>2
<1>2. ASSUME NEW m \in Nat, m \in T
      PROVE  m + 1 \in T
  <2>1. PICK f : Good(m, f)
    BY <1>2
  <2> DEFINE g == [n \in 0..(m + 1) |-> IF n = m + 1 THEN f[m] \o parts[m + 1] ELSE f[n]]
  <2>2. \A n \in 0..m : n \in 0..(m + 1) /\ n # m + 1 /\ g[n] = f[n]
    OBVIOUS
  <2>3. g[m + 1] = f[m] \o parts[m + 1] /\ (m + 1) - 1 = m /\ m \in 0..m
    <3>1. m + 1 \in 0..(m + 1) /\ (m + 1) - 1 = m /\ m \in 0..m
      OBVIOUS
    <3> QED
      BY <3>1, Zenon
  <2>4. DOMAIN g = 0..(m + 1)
    OBVIOUS
  <2> HIDE DEF g
  <2>5. ASSUME NEW n \in 1..(m + 1)
        PROVE  g[n] = g[n - 1] \o parts[n]
    <3>1. CASE n = m + 1
      BY <2>2, <2>3, <3>1
    <3>2. CASE n # m + 1
      <4>1. n \in 1..m /\ n \in 0..m /\ n - 1 \in 0..m
        BY <3>2
      <4> QED
        BY <2>1, <2>2, <4>1
    <3> QED
      BY <3>1, <3>2
  <2>6. g[0] = <<>>
    BY <2>1, <2>2
  <2>7. Good(m + 1, g)
    BY <2>4, <2>5, <2>6
  <2>8. m + 1 \in Nat
    OBVIOUS
  <2> HIDE DEF Good
  <2> QED
    BY <2>7, <2>8
<1>3. N \in T
  <2>1. N \in Nat
    OBVIOUS
  <2> HIDE DEF T, N
  <2> QED
    BY <1>1, <1>2, <2>1, Counting
<1> QED
  BY <1>3 DEF Joins

LEMMA ElementsOfFlat ==
  ASSUME NEW S, NEW parts \in Seq(Seq(S))
  PROVE  /\ FlattenSeq(parts) \in Seq(S)
         /\ ToSet(FlattenSeq(parts)) = UNION {ToSet(parts[n]) : n \in DOMAIN parts}
<1> DEFINE N == Len(parts)
           Def(h) == [i \in 1..N |-> IF i = 1 THEN parts[i] ELSE h[i - 1] \o parts[i]]
           h == CHOOSE f : f = Def(f)
<1>1. N \in Nat /\ DOMAIN parts = 1..N /\ \A n \in 1..N : parts[n] \in Seq(S)
  OBVIOUS
<1>2. CASE N = 0
  <2>1. FlattenSeq(parts) = parts
    BY <1>2 DEF FlattenSeq
  <2>2. DOMAIN parts = {}
    BY <1>1, <1>2
  <2>3. parts \in Seq(S)
    BY <1>2, <2>2
  <2>4. ToSet(parts) = {}
    BY <2>2 DEF ToSet
  <2> QED
    BY <2>1, <2>2, <2>3, <2>4
<1>3. CASE N # 0
  <2>1. FlattenSeq(parts) = h[N]
    BY <1>3 DEF FlattenSeq
  <2>2. PICK g : Joins(g, parts)
    BY JoinsExist
  <2>3. g[1] = parts[1]
    <3>1. g[1] = <<>> \o parts[1]
      <4>1. 1 \in 1..N /\ 1 - 1 = 0
        BY <1>1, <1>3
      <4> QED
        BY <2>2, <4>1 DEF Joins
    <3>2. 1 \in 1..N
      BY <1>1, <1>3
    <3> QED
      BY <1>1, <3>1, <3>2
  <2> DEFINE f == [i \in 1..N |-> g[i]]
  <2>4. f = Def(f)
    <3>1. ASSUME NEW i \in 1..N
          PROVE  f[i] = IF i = 1 THEN parts[i] ELSE f[i - 1] \o parts[i]
      <4>1. i # 1 => i - 1 \in 1..N
        BY <1>1
      <4> QED
        BY <2>2, <2>3, <4>1 DEF Joins
    <3> QED
      BY <3>1
  <2>5. h = Def(h)
    <3> HIDE DEF Def, f
    <3> QED
      BY <2>4
  <2> DEFINE k == [i \in 0..N |-> IF i = 0 THEN <<>> ELSE h[i]]
  <2>6. \A i \in 1..N : h[i] = IF i = 1 THEN parts[i] ELSE h[i - 1] \o parts[i]
    <3> HIDE DEF h
    <3> QED
      BY <2>5
  <2> HIDE DEF h
  <2>7. Joins(k, parts)
    <3>1. DOMAIN k = 0..N /\ 0 \in 0..N /\ k[0] = <<>>
      BY <1>1
    <3>2. ASSUME NEW n \in 1..N
          PROVE  k[n] = k[n - 1] \o parts[n]
      <4>1. n \in 0..N /\ n # 0 /\ n - 1 \in 0..N /\ (n # 1 <=> n - 1 # 0)
        BY <1>1
      <4>2. k[n] = h[n]
        BY <4>1
      <4>3. CASE n = 1
        <5>1. k[n - 1] = <<>> /\ h[n] = parts[n]
          BY <2>6, <4>1, <4>3
        <5>2. <<>> \o parts[n] = parts[n]
          BY <1>1
        <5> QED
          BY <4>2, <5>1, <5>2
      <4>4. CASE n # 1
        <5>1. k[n - 1] = h[n - 1] /\ h[n] = h[n - 1] \o parts[n]
          BY <2>6, <4>1, <4>4
        <5> QED
          BY <4>2, <5>1
      <4> QED
        BY <4>3, <4>4
    <3> HIDE DEF k
    <3> QED
      BY <3>1, <3>2 DEF Joins
  <2>8. k[N] = h[N]
    BY <1>1, <1>3
  <2> HIDE DEF k, N
  <2>9. /\ k[N] \in Seq(S)
        /\ ToSet(k[N]) = UNION {ToSet(parts[n]) : n \in DOMAIN parts}
    BY <2>7, ElementsOfAll DEF N
  <2> QED
    BY <2>1, <2>8, <2>9, Zenon
<1> QED
  BY <1>2, <1>3

(* The events that stand at some places, and what a sequence without any   *)
(* element is.                                                             *)
LEMMA ElementsStanding ==
  ASSUME NEW S, NEW all \in Seq(S), NEW places
  PROVE  /\ Standing(all, places) \in Seq(S)
         /\ ToSet(Standing(all, places)) = {all[i] : i \in places \intersect DOMAIN all}
<1> DEFINE part(i) == IF i \in places THEN <<all[i]>> ELSE <<>>
           parts == [i \in DOMAIN all |-> part(i)]
<1>1. ASSUME NEW i \in DOMAIN all
      PROVE  part(i) \in Seq(S) /\ ToSet(part(i)) = IF i \in places THEN {all[i]} ELSE {}
  <2>1. all[i] \in S
    OBVIOUS
  <2>2. /\ <<all[i]>> \in Seq(S) /\ ToSet(<<all[i]>>) = {all[i]}
        /\ <<>> \in Seq(S) /\ ToSet(<<>>) = {}
    BY <2>1, ElementsOfOne
  <2> QED
    BY <2>2, Zenon
<1>2. parts \in Seq(Seq(S)) /\ DOMAIN parts = DOMAIN all /\ \A i \in DOMAIN all : parts[i] = part(i)
  <2> HIDE DEF part
  <2>1. DOMAIN all = 1..Len(all) /\ Len(all) \in Nat
    OBVIOUS
  <2> QED
    BY <1>1, <2>1
<1>3. Standing(all, places) = FlattenSeq(parts)
  BY DEF Standing
<1> HIDE DEF parts, part
<1>4. /\ FlattenSeq(parts) \in Seq(S)
      /\ ToSet(FlattenSeq(parts)) = UNION {ToSet(parts[n]) : n \in DOMAIN parts}
  BY <1>2, ElementsOfFlat
<1>5. UNION {ToSet(parts[n]) : n \in DOMAIN parts} = {all[i] : i \in places \intersect DOMAIN all}
  <2>1. \A i \in DOMAIN all : ToSet(parts[i]) = IF i \in places THEN {all[i]} ELSE {}
    BY <1>1, <1>2
  <2>2. ASSUME NEW x
        PROVE  x \in UNION {ToSet(parts[n]) : n \in DOMAIN parts}
                 <=> x \in {all[i] : i \in places \intersect DOMAIN all}
    <3>1. x \in UNION {ToSet(parts[n]) : n \in DOMAIN parts}
            <=> \E n \in DOMAIN all : x \in ToSet(parts[n])
      BY <1>2, Zenon
    <3>2. \A n \in DOMAIN all : x \in ToSet(parts[n]) <=> n \in places /\ x = all[n]
      BY <2>1
    <3>3. x \in {all[i] : i \in places \intersect DOMAIN all}
            <=> \E n \in DOMAIN all : n \in places /\ x = all[n]
      BY Zenon
    <3> QED
      BY <3>1, <3>2, <3>3, Zenon
  <2> QED
    BY <2>2, Zenon
<1> QED
  BY <1>3, <1>4, <1>5

LEMMA EmptyHasNone ==
  ASSUME NEW S, NEW s \in Seq(S)
  PROVE  /\ ToSet(s) \subseteq S /\ (ToSet(s) = {} => s = <<>>)
         /\ s \in Seq(ToSet(s))
<1>1. DOMAIN s = 1..Len(s) /\ Len(s) \in Nat /\ \A i \in 1..Len(s) : s[i] \in S
  OBVIOUS
<1>2. ToSet(s) = {} => s = <<>>
  <2>1. SUFFICES ASSUME Len(s) # 0 PROVE ToSet(s) # {}
    BY <1>1
  <2>2. 1 \in DOMAIN s
    BY <1>1, <2>1
  <2> QED
    BY <2>2 DEF ToSet
<1>3. \A i \in 1..Len(s) : s[i] \in ToSet(s)
  BY <1>1 DEF ToSet
<1>4. s \in Seq(ToSet(s))
  BY <1>1, <1>3
<1> QED
  BY <1>1, <1>2, <1>4 DEF ToSet

-----------------------------------------------------------------------------
(* What a request leaves in the log.                                       *)

LEMMA GivenText ==
  ASSUME NEW S, NEW text \in S
  PROVE  Given(text) \in Seq(S) /\ (Given(text) = <<>> <=> text = {})
<1>1. CASE text = {}
  BY <1>1 DEF Given
<1>2. CASE text # {}
  <2>1. Given(text) = <<text>>
    BY <1>2 DEF Given
  <2>2. <<text>> \in Seq(S) /\ <<text>> # <<>>
    OBVIOUS
  <2> QED
    BY <1>2, <2>1, <2>2
<1> QED
  BY <1>1, <1>2

LEMMA CredentialTexts ==
  ASSUME NEW r \in Requests
  PROVE  Credentials(r) \in Seq(Texts(r) \union {{}})
<1> DEFINE S == Texts(r) \union {{}}
           login == IF r.login = "none" THEN {} ELSE r[r.login]
<1>1. r.basic \in S /\ r.apikey \in S /\ {} \in S
  BY DEF Texts
<1>2. r.login \in {"none", "query", "body"}
  BY RequestsOK
<1>3. login \in S
  <2>1. CASE r.login = "none"
    BY <2>1
  <2>2. CASE r.login = "query"
    BY <2>2 DEF Texts
  <2>3. CASE r.login = "body"
    BY <2>3 DEF Texts
  <2> QED
    BY <1>2, <2>1, <2>2, <2>3
<1>4. Credentials(r) = Given(r.basic) \o Given(r.apikey) \o Given(login)
  BY DEF Credentials
<1> HIDE DEF S, login
<1>5. Given(r.basic) \in Seq(S) /\ Given(r.apikey) \in Seq(S) /\ Given(login) \in Seq(S)
  BY <1>1, <1>3, GivenText
<1>6. Given(r.basic) \o Given(r.apikey) \o Given(login) \in Seq(S)
  BY <1>5
<1> QED
  BY <1>4, <1>6 DEF S

LEMMA EmittedEvents ==
  ASSUME NEW rid, NEW r \in Requests
  PROVE  /\ Emitted(rid, r) \in Seq(ToSet(Emitted(rid, r)))
         /\ \A e : e \in ToSet(Emitted(rid, r)) <=>
              \/ r.probe # NoProbe /\ e = HuntEvent(rid, r)
              \/ e = RequestEvent(rid, r)
              \/ \E i \in DOMAIN Credentials(r) : e = CredentialEvent(rid, r, Credentials(r)[i])
<1> DEFINE h == HuntEvent(rid, r)
           q == RequestEvent(rid, r)
           c(i) == CredentialEvent(rid, r, Credentials(r)[i])
           H == IF r.probe = NoProbe THEN <<>> ELSE <<h>>
           C == [i \in DOMAIN Credentials(r) |-> c(i)]
           S == {h, q} \union {c(i) : i \in DOMAIN Credentials(r)}
<1>1. Emitted(rid, r) = (H \o <<q>>) \o C
  BY DEF Emitted
<1> HIDE DEF h, q, c
<1>2. H \in Seq(S) /\ ToSet(H) = IF r.probe = NoProbe THEN {} ELSE {h}
  <2>1. h \in S
    OBVIOUS
  <2> HIDE DEF S
  <2> QED
    BY <2>1, ElementsOfOne
<1>3. <<q>> \in Seq(S) /\ ToSet(<<q>>) = {q}
  <2>1. q \in S
    OBVIOUS
  <2> HIDE DEF S
  <2> QED
    BY <2>1, ElementsOfOne
<1>4. C \in Seq(S) /\ ToSet(C) = {c(i) : i \in DOMAIN Credentials(r)}
  <2>1. DOMAIN Credentials(r) = 1..Len(Credentials(r)) /\ Len(Credentials(r)) \in Nat
    BY CredentialTexts
  <2>2. \A i \in DOMAIN Credentials(r) : c(i) \in S
    OBVIOUS
  <2>3. DOMAIN C = DOMAIN Credentials(r) /\ \A i \in DOMAIN Credentials(r) : C[i] = c(i)
    OBVIOUS
  <2>4. ToSet(C) = {c(i) : i \in DOMAIN Credentials(r)}
    BY <2>3 DEF ToSet
  <2> HIDE DEF S
  <2> QED
    BY <2>1, <2>2, <2>4
<1> HIDE DEF H, C, S
<1>5. /\ H \o <<q>> \in Seq(S) /\ ToSet(H \o <<q>>) = ToSet(H) \union ToSet(<<q>>)
  BY <1>2, <1>3, ElementsOfBoth
<1> DEFINE Hq == H \o <<q>>
<1>6. /\ Hq \o C \in Seq(S)
      /\ ToSet(Hq \o C) = ToSet(Hq) \union ToSet(C)
  <2>1. Hq \in Seq(S)
    BY <1>5
  <2> HIDE DEF Hq
  <2> QED
    BY <1>4, <2>1, ElementsOfBoth
<1>7. Emitted(rid, r) \in Seq(ToSet(Emitted(rid, r)))
  BY <1>1, <1>6, EmptyHasNone
<1>8. ToSet(Emitted(rid, r)) =
        (IF r.probe = NoProbe THEN {} ELSE {h}) \union {q} \union {c(i) : i \in DOMAIN Credentials(r)}
  BY <1>1, <1>2, <1>3, <1>4, <1>5, <1>6, Zenon
<1>9. \A e : e \in ToSet(Emitted(rid, r)) <=>
        (r.probe # NoProbe /\ e = h) \/ e = q \/ \E i \in DOMAIN Credentials(r) : e = c(i)
  BY <1>8
<1> QED
  BY <1>7, <1>9 DEF h, q, c

(* What each of them says of its request.                                  *)
LEMMA EventFacts ==
  ASSUME NEW rid, NEW r \in Requests, NEW e \in ToSet(Emitted(rid, r))
  PROVE  /\ e.kind \in {"hunt", "request", "credential"} /\ e.rid = rid
         /\ e.actor = ActorOf(r.client) /\ e.actor # <<>>
         /\ {"kind", "rid", "actor", "tells", "fields"} \subseteq DOMAIN e
         /\ e.kind = "hunt" => r.probe # NoProbe /\ e = HuntEvent(rid, r)
         /\ e.kind = "request" => e = RequestEvent(rid, r)
         /\ e.kind = "credential" =>
              Credentials(r) # <<>> /\ \E t \in Texts(r) \union {{}} : e = CredentialEvent(rid, r, t)
<1>1. ActorOf(r.client) # <<>>
  BY DEF ActorOf
<1>2. CASE r.probe # NoProbe /\ e = HuntEvent(rid, r)
  BY <1>1, <1>2 DEF HuntEvent, Event
<1>3. CASE e = RequestEvent(rid, r)
  BY <1>1, <1>3 DEF RequestEvent, Event
<1>4. CASE \E i \in DOMAIN Credentials(r) : e = CredentialEvent(rid, r, Credentials(r)[i])
  <2>1. PICK i \in DOMAIN Credentials(r) : e = CredentialEvent(rid, r, Credentials(r)[i])
    BY <1>4
  <2> DEFINE t == Credentials(r)[i]
  <2> DEFINE S == Texts(r) \union {{}}
  <2> HIDE DEF S
  <2>2. t \in S /\ Credentials(r) # <<>>
    <3>1. Credentials(r) \in Seq(S)
      BY CredentialTexts DEF S
    <3> QED
      BY <3>1
  <2> HIDE DEF t
  <2>3. e = CredentialEvent(rid, r, t)
    BY <2>1 DEF t
  <2>4. /\ e.kind = "credential" /\ e.rid = rid /\ e.actor = ActorOf(r.client)
        /\ {"kind", "rid", "actor", "tells", "fields"} \subseteq DOMAIN e
    BY <2>3 DEF CredentialEvent, Event
  <2> QED
    BY <1>1, <2>2, <2>3, <2>4 DEF S
<1> QED
  BY <1>2, <1>3, <1>4, EmittedEvents

(* And that each is there.                                                 *)
LEMMA EventsExist ==
  ASSUME NEW rid, NEW r \in Requests
  PROVE  /\ RequestEvent(rid, r) \in ToSet(Emitted(rid, r))
         /\ r.probe # NoProbe => HuntEvent(rid, r) \in ToSet(Emitted(rid, r))
         /\ Credentials(r) # <<>> => \E e \in ToSet(Emitted(rid, r)) : e.kind = "credential"
<1>1. RequestEvent(rid, r) \in ToSet(Emitted(rid, r))
  BY EmittedEvents
<1>2. r.probe # NoProbe => HuntEvent(rid, r) \in ToSet(Emitted(rid, r))
  BY EmittedEvents
<1>3. ASSUME Credentials(r) # <<>>
      PROVE  \E e \in ToSet(Emitted(rid, r)) : e.kind = "credential"
  <2>1. 1 \in DOMAIN Credentials(r)
    <3>1. Credentials(r) \in Seq(Texts(r) \union {{}})
      BY CredentialTexts
    <3> QED
      BY <1>3, <3>1
  <2> DEFINE e == CredentialEvent(rid, r, Credentials(r)[1])
  <2>2. e \in ToSet(Emitted(rid, r))
    BY <2>1, EmittedEvents
  <2>3. e.kind = "credential"
    BY DEF CredentialEvent, Event
  <2> HIDE DEF e
  <2> QED
    BY <2>2, <2>3
<1> QED
  BY <1>1, <1>2, <1>3

-----------------------------------------------------------------------------
(* What publish.py makes of an event.                                      *)

(* The secrets whose key id stands in clear in what is kept of an event.   *)
Secrets(e) ==
  LET kept == [n \in DOMAIN e.fields \ TokenFields |-> e.fields[n]]
      open == [e EXCEPT !.fields = kept]
  IN {<<"secret", w[3]>> :
        w \in {x \in UNION {Plain(t) : t \in Units(open)} : Ours(x) /\ x[2] = "aws_key_id"}}

Safe(e) ==
  [e EXCEPT !.fields = [n \in DOMAIN e.fields \ TokenFields |-> Rewrite(e.fields[n], Secrets(e))]]

LEMMA SafeEvent ==
  ASSUME NEW e, {"kind", "rid", "tells", "fields"} \subseteq DOMAIN e
  PROVE  /\ Sanitized(e) = IF Leaks(Safe(e)) THEN <<>> ELSE <<Safe(e)>>
         /\ {"kind", "rid", "tells", "fields"} \subseteq DOMAIN Safe(e)
         /\ Safe(e).kind = e.kind /\ Safe(e).rid = e.rid /\ Safe(e).tells = e.tells
         /\ DOMAIN Safe(e).fields = DOMAIN e.fields \ TokenFields
         /\ \A n \in DOMAIN e.fields \ TokenFields : Safe(e).fields[n] = Rewrite(e.fields[n], Secrets(e))
<1>1. /\ {"kind", "rid", "tells", "fields"} \subseteq DOMAIN Safe(e)
      /\ Safe(e).kind = e.kind /\ Safe(e).rid = e.rid /\ Safe(e).tells = e.tells
      /\ Safe(e).fields = [n \in DOMAIN e.fields \ TokenFields |-> Rewrite(e.fields[n], Secrets(e))]
  BY DEF Safe
<1>2. Sanitized(e) = IF Leaks(Safe(e)) THEN <<>> ELSE <<Safe(e)>>
  <2> DEFINE kept == [n \in DOMAIN e.fields \ TokenFields |-> e.fields[n]]
             out == [e EXCEPT !.fields = [n \in DOMAIN kept |-> Rewrite(kept[n], Secrets(e))]]
  <2>1. Sanitized(e) = IF Leaks(out) THEN <<>> ELSE <<out>>
    BY DEF Sanitized, Secrets
  <2>2. [n \in DOMAIN kept |-> Rewrite(kept[n], Secrets(e))]
          = [n \in DOMAIN e.fields \ TokenFields |-> Rewrite(e.fields[n], Secrets(e))]
    OBVIOUS
  <2>3. out = Safe(e)
    BY <2>2 DEF Safe
  <2> HIDE DEF out
  <2> QED
    BY <2>1, <2>3
<1> QED
  BY <1>1, <1>2

(* What a visitor's event loses, and what an attacker's keeps.             *)
LEMMA AnonymizedEvent ==
  ASSUME NEW e, NEW attacking, {"kind", "rid", "tells", "fields"} \subseteq DOMAIN e
  PROVE  LET f == Anonymized(e, attacking) IN
         /\ f.kind = e.kind /\ f.rid = e.rid /\ f.tells = e.tells
         /\ DOMAIN f.fields \subseteq DOMAIN e.fields
         /\ \A n \in DOMAIN f.fields : f.fields[n] = Redacted \/ f.fields[n] = e.fields[n]
         /\ e.kind = "request" /\ e.tells.attacks = {} =>
              /\ "body" \notin DOMAIN f.fields
              /\ \A n \in DOMAIN f.fields \intersect PrivateHeaders : f.fields[n] = Redacted
         /\ e.kind = "credential" /\ e.rid \notin attacking =>
              ("password" \in DOMAIN f.fields => f.fields["password"] = Redacted)
         /\ e.kind = "request" /\ e.tells.attacks # {} =>
              DOMAIN f.fields = DOMAIN e.fields /\ \A n \in DOMAIN e.fields : f.fields[n] = e.fields[n]
<1> DEFINE private == \/ e.kind = "request" /\ e.tells.attacks = {}
                      \/ e.kind = "credential" /\ e.rid \notin attacking
           hidden == CASE private /\ e.kind = "request"    -> PrivateHeaders
                       [] private /\ e.kind = "credential" -> {"password"}
                       [] e.kind = "identity" /\ e.tells.verdict # "verified" -> {"rdns"}
                       [] OTHER -> {}
           gone == IF private /\ e.kind = "request" THEN {"body"} ELSE {}
           fields == [n \in DOMAIN e.fields \ gone |-> IF n \in hidden THEN Redacted ELSE e.fields[n]]
           f == Anonymized(e, attacking)
<1>1. f = [e EXCEPT !.fields = fields]
  BY DEF Anonymized
<1>2. e.kind = "request" /\ e.tells.attacks = {} => hidden = PrivateHeaders /\ gone = {"body"}
  OBVIOUS
<1>3. e.kind = "credential" /\ e.rid \notin attacking => hidden = {"password"}
  OBVIOUS
<1>4. e.kind = "request" /\ e.tells.attacks # {} => hidden = {} /\ gone = {}
  OBVIOUS
<1> HIDE DEF hidden, gone
<1>5. /\ DOMAIN fields = DOMAIN e.fields \ gone
      /\ \A n \in DOMAIN e.fields \ gone : fields[n] = IF n \in hidden THEN Redacted ELSE e.fields[n]
  OBVIOUS
<1> HIDE DEF fields, f
<1>6. f.kind = e.kind /\ f.rid = e.rid /\ f.tells = e.tells /\ f.fields = fields
  BY <1>1
<1>7. \A n \in DOMAIN f.fields : f.fields[n] = Redacted \/ f.fields[n] = e.fields[n]
  BY <1>5, <1>6
<1>8. e.kind = "request" /\ e.tells.attacks = {} =>
        /\ "body" \notin DOMAIN f.fields
        /\ \A n \in DOMAIN f.fields \intersect PrivateHeaders : f.fields[n] = Redacted
  BY <1>2, <1>5, <1>6
<1>9. e.kind = "credential" /\ e.rid \notin attacking =>
        ("password" \in DOMAIN f.fields => f.fields["password"] = Redacted)
  BY <1>3, <1>5, <1>6
<1>10. e.kind = "request" /\ e.tells.attacks # {} =>
         DOMAIN f.fields = DOMAIN e.fields /\ \A n \in DOMAIN e.fields : f.fields[n] = e.fields[n]
  BY <1>4, <1>5, <1>6
<1>11. DOMAIN f.fields \subseteq DOMAIN e.fields
  BY <1>5, <1>6
<1> QED
  BY <1>6, <1>7, <1>8, <1>9, <1>10, <1>11 DEF f

(* A day that is exported shows what its events become, and only that.     *)
LEMMA ExportedEvents ==
  ASSUME NEW S, NEW file \in Seq(S),
         \A e \in ToSet(file) : {"kind", "rid", "tells", "fields"} \subseteq DOMAIN e
  PROVE  \A f : f \in ToSet(ExportDay(file)) <=>
           \E e \in ToSet(file) : ~Leaks(Safe(e)) /\ f = Anonymized(Safe(e), Attacking(file))
<1> DEFINE out(e) == Anonymized(Safe(e), Attacking(file))
           X == {out(e) : e \in ToSet(file)}
           part(i) == [j \in DOMAIN Sanitized(file[i]) |-> Anonymized(Sanitized(file[i])[j], Attacking(file))]
           parts == [i \in DOMAIN file |-> part(i)]
<1>1. DOMAIN file = 1..Len(file) /\ Len(file) \in Nat
  OBVIOUS
<1>2. ASSUME NEW i \in DOMAIN file
      PROVE  /\ part(i) \in Seq(X)
             /\ ToSet(part(i)) = IF Leaks(Safe(file[i])) THEN {} ELSE {out(file[i])}
  <2>1. file[i] \in ToSet(file)
    BY DEF ToSet
  <2>2. Sanitized(file[i]) = IF Leaks(Safe(file[i])) THEN <<>> ELSE <<Safe(file[i])>>
    BY <2>1, SafeEvent
  <2>3. CASE Leaks(Safe(file[i]))
    <3>1. part(i) = <<>>
      BY <2>2, <2>3
    <3> HIDE DEF part, X, out
    <3> QED
      BY <2>3, <3>1, ElementsOfOne DEF ToSet
  <2>4. CASE ~Leaks(Safe(file[i]))
    <3>1. Sanitized(file[i]) = <<Safe(file[i])>>
      BY <2>2, <2>4
    <3>2. part(i) = <<out(file[i])>>
      <4>1. DOMAIN Sanitized(file[i]) = 1..1 /\ Sanitized(file[i])[1] = Safe(file[i])
        BY <3>1
      <4> QED
        BY <4>1
    <3>3. out(file[i]) \in X
      BY <2>1
    <3> HIDE DEF part, X, out
    <3>4. <<out(file[i])>> \in Seq(X) /\ ToSet(<<out(file[i])>>) = {out(file[i])}
      BY <3>3, ElementsOfOne
    <3> QED
      BY <2>4, <3>2, <3>4
  <2> QED
    BY <2>3, <2>4
<1>3. ExportDay(file) = FlattenSeq(parts)
  BY DEF ExportDay
<1>4. parts \in Seq(Seq(X)) /\ DOMAIN parts = DOMAIN file /\ \A i \in DOMAIN file : parts[i] = part(i)
  <2> HIDE DEF part, X
  <2> QED
    BY <1>1, <1>2
<1> HIDE DEF part, parts, X
<1>5. ToSet(FlattenSeq(parts)) = UNION {ToSet(parts[n]) : n \in DOMAIN parts}
  BY <1>4, ElementsOfFlat
<1> HIDE DEF out
<1>6. ASSUME NEW f
      PROVE  f \in ToSet(ExportDay(file)) <=> \E e \in ToSet(file) : ~Leaks(Safe(e)) /\ f = out(e)
  <2>1. f \in ToSet(ExportDay(file)) <=> \E i \in DOMAIN file : f \in ToSet(part(i))
    <3>1. f \in UNION {ToSet(parts[n]) : n \in DOMAIN parts}
            <=> \E n \in DOMAIN parts : f \in ToSet(parts[n])
      BY Zenon
    <3>2. f \in ToSet(ExportDay(file)) <=> \E n \in DOMAIN parts : f \in ToSet(parts[n])
      BY <1>3, <1>5, <3>1, Zenon
    <3> QED
      BY <1>4, <3>2
  <2>2. \A i \in DOMAIN file : f \in ToSet(part(i)) <=> ~Leaks(Safe(file[i])) /\ f = out(file[i])
    BY <1>2
  <2>3. (\E e \in ToSet(file) : ~Leaks(Safe(e)) /\ f = out(e))
          <=> \E i \in DOMAIN file : ~Leaks(Safe(file[i])) /\ f = out(file[i])
    BY Zenon DEF ToSet
  <2> QED
    BY <2>1, <2>2, <2>3, Zenon
<1> QED
  BY <1>6 DEF out

-----------------------------------------------------------------------------
(* The inductive invariant.                                                *)

VerdictEvents == {VerdictEvent("verified"), VerdictEvent("impersonating")}

Events == VerdictEvents \union UNION {ToSet(Emitted(n, r)) : n \in Nat, r \in Requests}

TypeOK ==
  /\ today \in 1..Days /\ sent \in Seq(Requests) /\ lost \in BOOLEAN
  /\ files \in [1..Days -> Seq(Events)]

(* Every event is a verdict, or its rid leads to the request that left it. *)
Traced ==
  \A d \in 1..Days : \A e \in ToSet(files[d]) :
    e \in VerdictEvents \/ \E n \in DOMAIN sent : e \in ToSet(Emitted(n, sent[n]))

(* Nothing is missing unless something was lost.                           *)
Complete ==
  ~lost => \A n \in DOMAIN sent : \A e \in ToSet(Emitted(n, sent[n])) :
             \E d \in 1..Days : e \in ToSet(files[d])

(* A published day is over, and what is out is what its file gives.        *)
Faithful ==
  \A d \in DOMAIN published : d \in 1..(today - 1) /\ published[d] = ExportDay(files[d])

LogInv == TypeOK /\ Traced /\ Complete /\ Faithful

LEMMA EmittedInEvents ==
  ASSUME NEW n \in Nat, NEW r \in Requests
  PROVE  Emitted(n, r) \in Seq(Events) /\ ToSet(Emitted(n, r)) \subseteq Events
<1> DEFINE E == ToSet(Emitted(n, r))
<1>1. E \subseteq Events
  <2>1. E \in {ToSet(Emitted(k, q)) : k \in Nat, q \in Requests}
    OBVIOUS
  <2> HIDE DEF E
  <2> QED
    BY <2>1 DEF Events
<1>2. Emitted(n, r) \in Seq(E)
  BY EmittedEvents
<1> HIDE DEF E
<1>3. Emitted(n, r) \in Seq(Events)
  BY <1>1, <1>2
<1> QED
  BY <1>1, <1>3 DEF E

LEMMA InitLog ==
  ASSUME Init
  PROVE  LogInv
<1>1. Days \in Nat \ {0} /\ today = 1 /\ sent = <<>> /\ lost = FALSE /\ published = <<>>
  BY RequestsOK DEF Init
<1>2. files = [d \in 1..Days |-> <<>>] /\ ToSet(<<>>) = {} /\ DOMAIN sent = {} /\ DOMAIN published = {}
  BY <1>1 DEF Init, ToSet
<1>3. TypeOK
  <2>1. <<>> \in Seq(Events) /\ <<>> \in Seq(Requests) /\ 1 \in 1..Days
    BY <1>1
  <2> QED
    BY <1>1, <1>2, <2>1 DEF TypeOK
<1>4. \A d \in 1..Days : ToSet(files[d]) = {}
  BY <1>2
<1> QED
  BY <1>2, <1>3, <1>4 DEF LogInv, Traced, Complete, Faithful

LEMMA ServeLog ==
  ASSUME LogInv, NEW r \in Requests, Serve(r)
  PROVE  LogInv'
<1> DEFINE m == Len(sent) + 1
           all == Emitted(m, r)
<1>1. PICK kept \in SUBSET DOMAIN all, cut \in 0..Len(all) :
        /\ cut < Len(all) => today < Days
        /\ today' = IF cut < Len(all) THEN today + 1 ELSE today
        /\ files' = [d \in 1..Days |->
             files[d] \o Standing(all, {i \in kept : d = IF i <= cut THEN today ELSE today + 1})]
        /\ lost' = (lost \/ kept # DOMAIN all)
  BY DEF Serve
<1> DEFINE places(d) == {i \in kept : d = IF i <= cut THEN today ELSE today + 1}
<1>2. /\ today \in 1..Days /\ sent \in Seq(Requests) /\ lost \in BOOLEAN
      /\ files \in [1..Days -> Seq(Events)] /\ Days \in Nat \ {0}
  BY RequestsOK DEF LogInv, TypeOK
<1>3. m \in Nat /\ all \in Seq(Events) /\ DOMAIN all = 1..Len(all) /\ Len(all) \in Nat
  <2>1. m \in Nat
    BY <1>2
  <2> HIDE DEF m
  <2>2. all \in Seq(Events)
    BY <2>1, EmittedInEvents
  <2> HIDE DEF all
  <2> QED
    BY <2>1, <2>2
<1>4. /\ sent' = Append(sent, r) /\ sent' \in Seq(Requests)
      /\ DOMAIN sent' = DOMAIN sent \union {m} /\ sent'[m] = r
      /\ \A n \in DOMAIN sent : n \in Nat /\ sent'[n] = sent[n] /\ sent[n] \in Requests
  <2>1. sent' = Append(sent, r)
    BY DEF Serve
  <2> QED
    BY <1>2, <2>1
<1>5. published' = published
  BY DEF Serve
<1> HIDE DEF all, m
<1>6. ASSUME NEW d \in 1..Days
      PROVE  /\ files'[d] \in Seq(Events)
             /\ ToSet(files'[d]) = ToSet(files[d]) \union {all[i] : i \in places(d) \intersect DOMAIN all}
             /\ places(d) = {} => files'[d] = files[d]
  <2>1. files'[d] = files[d] \o Standing(all, places(d)) /\ files[d] \in Seq(Events)
    BY <1>1, <1>2
  <2> HIDE DEF places
  <2>2. /\ Standing(all, places(d)) \in Seq(Events)
        /\ ToSet(Standing(all, places(d))) = {all[i] : i \in places(d) \intersect DOMAIN all}
    BY <1>3, ElementsStanding
  <2>3. /\ files[d] \o Standing(all, places(d)) \in Seq(Events)
        /\ ToSet(files[d] \o Standing(all, places(d))) = ToSet(files[d]) \union ToSet(Standing(all, places(d)))
    BY <2>1, <2>2, ElementsOfBoth
  <2>4. ASSUME places(d) = {}
        PROVE  files'[d] = files[d]
    <3>1. ToSet(Standing(all, places(d))) = {}
      BY <2>2, <2>4
    <3>2. Standing(all, places(d)) = <<>>
      BY <2>2, <3>1, EmptyHasNone
    <3> QED
      BY <2>1, <3>2
  <2> QED
    BY <2>1, <2>2, <2>3, <2>4
<1>7. /\ today' \in 1..Days /\ today <= today' /\ today \in 1..Days
      /\ cut < Len(all) => today + 1 \in 1..Days
  BY <1>1, <1>2
<1>8. TypeOK'
  <2>1. lost' \in BOOLEAN
    BY <1>1, <1>2
  <2>2. files' \in [1..Days -> Seq(Events)]
    <3>1. DOMAIN files' = 1..Days /\ files' = [d \in 1..Days |-> files'[d]]
      BY <1>1, Zenon
    <3> QED
      BY <1>6, <3>1
  <2> QED
    BY <1>4, <1>7, <2>1, <2>2 DEF TypeOK
<1>9. Traced'
  <2>1. SUFFICES ASSUME NEW d \in 1..Days, NEW e \in ToSet(files'[d])
                 PROVE  e \in VerdictEvents \/ \E n \in DOMAIN sent' : e \in ToSet(Emitted(n, sent'[n]))
    BY Zenon DEF Traced, VerdictEvents, VerdictEvent
  <2>2. CASE e \in ToSet(files[d])
    <3>1. e \in VerdictEvents \/ \E n \in DOMAIN sent : e \in ToSet(Emitted(n, sent[n]))
      BY <2>2 DEF LogInv, Traced
    <3> QED
      BY <1>4, <3>1
  <2>3. CASE e \in {all[i] : i \in places(d) \intersect DOMAIN all}
    <3>1. e \in ToSet(all)
      BY <2>3 DEF ToSet
    <3>2. e \in ToSet(Emitted(m, sent'[m])) /\ m \in DOMAIN sent'
      BY <1>4, <3>1 DEF all
    <3> QED
      BY <3>2
  <2> QED
    BY <1>6, <2>2, <2>3
<1>10. Complete'
  <2>1. SUFFICES ASSUME ~lost', NEW n \in DOMAIN sent', NEW e \in ToSet(Emitted(n, sent'[n]))
                 PROVE  \E d \in 1..Days : e \in ToSet(files'[d])
    BY Zenon DEF Complete
  <2>2. CASE n \in DOMAIN sent
    <3>1. e \in ToSet(Emitted(n, sent[n])) /\ ~lost
      BY <1>1, <1>2, <1>4, <2>1, <2>2
    <3>2. PICK d \in 1..Days : e \in ToSet(files[d])
      BY <2>2, <3>1 DEF LogInv, Complete
    <3> QED
      BY <1>6, <3>2
  <2>3. CASE n = m
    <3>1. e \in ToSet(all) /\ kept = DOMAIN all
      BY <1>1, <1>2, <1>4, <2>1, <2>3 DEF all
    <3>2. PICK i \in DOMAIN all : e = all[i]
      BY <3>1 DEF ToSet
    <3> DEFINE d == IF i <= cut THEN today ELSE today + 1
    <3>3. d \in 1..Days
      BY <1>3, <1>7
    <3>4. i \in places(d) \intersect DOMAIN all
      BY <3>1
    <3> HIDE DEF d, places
    <3>5. e \in ToSet(files'[d])
      BY <1>6, <3>2, <3>3, <3>4
    <3> QED
      BY <3>3, <3>5
  <2> QED
    BY <1>4, <2>2, <2>3
<1>11. Faithful'
  <2>1. SUFFICES ASSUME NEW d \in DOMAIN published
                 PROVE  d \in 1..(today' - 1) /\ published[d] = ExportDay(files'[d])
    BY <1>5 DEF Faithful
  <2>2. d \in 1..(today - 1) /\ published[d] = ExportDay(files[d])
    BY DEF LogInv, Faithful
  <2>3. d \in 1..(today' - 1) /\ d \in 1..Days /\ d # today /\ d # today + 1
    <3>1. today \in Int /\ today' \in Int /\ Days \in Int /\ today <= Days /\ today <= today'
      BY <1>2, <1>7
    <3> QED
      BY <2>2, <3>1
  <2>4. places(d) = {}
    BY <2>3
  <2> HIDE DEF places
  <2> QED
    BY <1>6, <2>2, <2>3, <2>4
<1> QED
  BY <1>8, <1>9, <1>10, <1>11 DEF LogInv

LEMMA VerdictLog ==
  ASSUME LogInv, Verdict
  PROVE  LogInv'
<1>1. PICK v \in {"verified", "impersonating"} :
        files' = [files EXCEPT ![today] = Append(@, VerdictEvent(v))]
  BY DEF Verdict
<1> DEFINE x == VerdictEvent(v)
<1>2. /\ today \in 1..Days /\ sent \in Seq(Requests) /\ lost \in BOOLEAN
      /\ files \in [1..Days -> Seq(Events)] /\ Days \in Nat \ {0}
      /\ today' = today /\ sent' = sent /\ lost' = lost /\ published' = published
  BY RequestsOK DEF LogInv, TypeOK, Verdict
<1>3. x \in VerdictEvents /\ x \in Events
  BY DEF VerdictEvents, Events
<1> HIDE DEF x
<1>4. ASSUME NEW d \in 1..Days
      PROVE  /\ files'[d] \in Seq(Events)
             /\ ToSet(files'[d]) = ToSet(files[d]) \union (IF d = today THEN {x} ELSE {})
             /\ d # today => files'[d] = files[d]
  <2>1. files[d] \in Seq(Events)
    BY <1>2
  <2>2. CASE d # today
    BY <1>1, <1>2, <2>1, <2>2
  <2>3. CASE d = today
    <3>1. files'[d] = files[d] \o <<x>>
      <4>1. files'[d] = Append(files[d], x)
        BY <1>1, <1>2, <2>3 DEF x
      <4> QED
        BY <1>3, <2>1, <4>1
    <3>2. <<x>> \in Seq(Events) /\ ToSet(<<x>>) = {x}
      BY <1>3, ElementsOfOne
    <3> DEFINE one == <<x>>
    <3>3. one \in Seq(Events) /\ files'[d] = files[d] \o one /\ ToSet(one) = {x}
      BY <3>1, <3>2
    <3> HIDE DEF one
    <3>4. files[d] \o one \in Seq(Events) /\ ToSet(files[d] \o one) = ToSet(files[d]) \union ToSet(one)
      BY <2>1, <3>3, ElementsOfBoth
    <3> QED
      BY <2>3, <3>3, <3>4
  <2> QED
    BY <2>2, <2>3
<1>5. TypeOK'
  <2>1. DOMAIN files' = 1..Days /\ files' = [d \in 1..Days |-> files'[d]]
    BY <1>1, <1>2
  <2>2. files' \in [1..Days -> Seq(Events)]
    BY <1>4, <2>1
  <2> QED
    BY <1>2, <2>2 DEF TypeOK
<1>6. Traced'
  BY <1>2, <1>3, <1>4 DEF LogInv, Traced
<1>7. Complete'
  BY <1>2, <1>4 DEF LogInv, Complete
<1>8. Faithful'
  <2>1. SUFFICES ASSUME NEW d \in DOMAIN published
                 PROVE  d \in 1..(today - 1) /\ published[d] = ExportDay(files'[d])
    BY <1>2 DEF Faithful
  <2>2. d \in 1..(today - 1) /\ published[d] = ExportDay(files[d])
    BY DEF LogInv, Faithful
  <2>3. d \in 1..Days /\ d # today
    BY <1>2, <2>2
  <2> QED
    BY <1>4, <2>2, <2>3
<1> QED
  BY <1>5, <1>6, <1>7, <1>8 DEF LogInv

LEMMA ExportLog ==
  ASSUME LogInv, Export
  PROVE  LogInv'
<1>1. UNCHANGED <<today, sent, files, lost>>
  BY DEF Export
<1>2. TypeOK' /\ Traced' /\ Complete'
  BY <1>1 DEF LogInv, TypeOK, Traced, Complete
<1>3. PICK d \in 1..(today - 1) \ DOMAIN published :
        published' = [x \in DOMAIN published \union {d} |->
                        IF x = d THEN ExportDay(files[d]) ELSE published[x]]
  BY DEF Export
<1>4. Faithful'
  BY <1>1, <1>3 DEF LogInv, Faithful
<1> QED
  BY <1>2, <1>4 DEF LogInv

THEOREM LogAlways == Spec => []LogInv
<1>1. Init => LogInv
  BY InitLog
<1>2. LogInv /\ [Next]_vars => LogInv'
  <2>1. SUFFICES ASSUME LogInv, [Next]_vars PROVE LogInv'
    OBVIOUS
  <2>2. CASE \E r \in Requests : Serve(r)
    BY <2>1, <2>2, ServeLog
  <2>3. CASE Verdict
    BY <2>1, <2>3, VerdictLog
  <2>4. CASE Export
    BY <2>1, <2>4, ExportLog
  <2>5. CASE UNCHANGED vars
    BY <2>1, <2>5 DEF vars, LogInv, TypeOK, Traced, Complete, Faithful
  <2> QED
    BY <2>1, <2>2, <2>3, <2>4, <2>5 DEF Next
<1> QED
  BY <1>1, <1>2, PTL DEF Spec

-----------------------------------------------------------------------------
(* What is published.                                                      *)

LEMMA VerdictFacts ==
  ASSUME NEW e \in VerdictEvents
  PROVE  /\ e.kind = "identity" /\ e.actor = <<>> /\ DOMAIN e.fields = {"rdns"}
         /\ {"kind", "rid", "actor", "tells", "fields"} \subseteq DOMAIN e
BY DEF VerdictEvents, VerdictEvent

(* The fields of an event that a request left.                             *)
LEMMA FieldFacts ==
  ASSUME NEW rid, NEW r \in Requests, NEW e \in ToSet(Emitted(rid, r))
  PROVE  /\ e.kind = "hunt" => DOMAIN e.fields = {"query"}
         /\ e.kind = "credential" => DOMAIN e.fields = {"password"}
         /\ e.kind = "request" =>
              /\ e.tells.attacks = Attacks(r)
              /\ DOMAIN e.fields = {"query", "authorization", "x_api_key", "body", "replays"}
              /\ e.fields["query"] = r.query /\ e.fields["authorization"] = r.basic
              /\ e.fields["x_api_key"] = r.apikey /\ e.fields["body"] = r.body
         /\ \A n \in DOMAIN e.fields \ TokenFields : e.fields[n] \in Texts(r) \union {{}}
<1>1. CASE e.kind = "hunt"
  <2>1. e = HuntEvent(rid, r)
    BY <1>1, EventFacts
  <2>2. DOMAIN e.fields = {"query"} /\ e.fields["query"] = r.query
    BY <2>1 DEF HuntEvent, Event
  <2> QED
    BY <1>1, <2>2 DEF Texts
<1>2. CASE e.kind = "request"
  <2>1. e = RequestEvent(rid, r)
    BY <1>2, EventFacts
  <2>2. /\ e.tells.attacks = Attacks(r)
        /\ DOMAIN e.fields = {"query", "authorization", "x_api_key", "body", "replays"}
        /\ e.fields["query"] = r.query /\ e.fields["authorization"] = r.basic
        /\ e.fields["x_api_key"] = r.apikey /\ e.fields["body"] = r.body
    BY <2>1 DEF RequestEvent, Event
  <2> QED
    BY <1>2, <2>2 DEF Texts, TokenFields
<1>3. CASE e.kind = "credential"
  <2>1. PICK t \in Texts(r) \union {{}} : e = CredentialEvent(rid, r, t)
    BY <1>3, EventFacts
  <2>2. DOMAIN e.fields = {"password"} /\ e.fields["password"] = t
    BY <2>1 DEF CredentialEvent, Event
  <2> QED
    BY <1>3, <2>2
<1> QED
  BY <1>1, <1>2, <1>3, EventFacts

LEMMA StoredEvents ==
  ASSUME LogInv, NEW d \in 1..Days, NEW e \in ToSet(files[d])
  PROVE  /\ {"kind", "rid", "actor", "tells", "fields"} \subseteq DOMAIN e
         /\ e.kind \in {"identity", "hunt", "request", "credential"}
         /\ e.kind = "identity" <=> e \in VerdictEvents
         /\ e.kind # "identity" =>
              /\ e.rid \in DOMAIN sent /\ sent[e.rid] \in Requests
              /\ e \in ToSet(Emitted(e.rid, sent[e.rid]))
<1>1. CASE e \in VerdictEvents
  BY <1>1, VerdictFacts
<1>2. CASE \E n \in DOMAIN sent : e \in ToSet(Emitted(n, sent[n]))
  <2>1. PICK n \in DOMAIN sent : e \in ToSet(Emitted(n, sent[n]))
    BY <1>2
  <2>2. sent[n] \in Requests
    BY DEF LogInv, TypeOK
  <2>3. /\ e.rid = n /\ e.kind \in {"hunt", "request", "credential"}
        /\ {"kind", "rid", "actor", "tells", "fields"} \subseteq DOMAIN e
    BY <2>1, <2>2, EventFacts
  <2> QED
    BY <2>1, <2>2, <2>3, VerdictFacts
<1> QED
  BY <1>1, <1>2 DEF LogInv, Traced

LEMMA PublishedEvents ==
  ASSUME LogInv, NEW d \in DOMAIN published
  PROVE  /\ d \in 1..Days
         /\ \A f : f \in ToSet(published[d]) <=>
              \E e \in ToSet(files[d]) : ~Leaks(Safe(e)) /\ f = Anonymized(Safe(e), Attacking(files[d]))
<1>1. /\ today \in 1..Days /\ files \in [1..Days -> Seq(Events)] /\ Days \in Nat
      /\ d \in 1..(today - 1) /\ published[d] = ExportDay(files[d])
  BY RequestsOK DEF LogInv, TypeOK, Faithful
<1>2. d \in 1..Days
  BY <1>1
<1>3. \A e \in ToSet(files[d]) : {"kind", "rid", "tells", "fields"} \subseteq DOMAIN e
  BY <1>2, StoredEvents
<1>4. files[d] \in Seq(Events)
  BY <1>1, <1>2
<1>5. \A f : f \in ToSet(ExportDay(files[d])) <=>
        \E e \in ToSet(files[d]) : ~Leaks(Safe(e)) /\ f = Anonymized(Safe(e), Attacking(files[d]))
  BY <1>3, <1>4, ExportedEvents
<1> QED
  BY <1>1, <1>2, <1>5

(* What is left of an event in the file of a day.                          *)
LEMMA PublishedEvent ==
  ASSUME LogInv, NEW d \in 1..Days, NEW e \in ToSet(files[d]), NEW f,
         f = Anonymized(Safe(e), Attacking(files[d]))
  PROVE  /\ f.kind = e.kind /\ f.rid = e.rid /\ f.tells = e.tells
         /\ DOMAIN f.fields \subseteq DOMAIN e.fields \ TokenFields
         /\ \A n \in DOMAIN f.fields :
              f.fields[n] = Redacted \/ f.fields[n] = Rewrite(e.fields[n], Secrets(e))
         /\ e.kind = "request" /\ e.tells.attacks = {} =>
              /\ "body" \notin DOMAIN f.fields
              /\ \A n \in DOMAIN f.fields \intersect PrivateHeaders : f.fields[n] = Redacted
         /\ e.kind = "credential" /\ e.rid \notin Attacking(files[d]) =>
              ("password" \in DOMAIN f.fields => f.fields["password"] = Redacted)
         /\ e.kind = "request" /\ e.tells.attacks # {} =>
              /\ DOMAIN f.fields = DOMAIN e.fields \ TokenFields
              /\ \A n \in DOMAIN f.fields : f.fields[n] = Rewrite(e.fields[n], Secrets(e))
<1> DEFINE g == Safe(e)
           A == Attacking(files[d])
<1>1. {"kind", "rid", "tells", "fields"} \subseteq DOMAIN e
  BY StoredEvents
<1>2. /\ {"kind", "rid", "tells", "fields"} \subseteq DOMAIN g
      /\ g.kind = e.kind /\ g.rid = e.rid /\ g.tells = e.tells
      /\ DOMAIN g.fields = DOMAIN e.fields \ TokenFields
      /\ \A n \in DOMAIN e.fields \ TokenFields : g.fields[n] = Rewrite(e.fields[n], Secrets(e))
  BY <1>1, SafeEvent
<1>3. f = Anonymized(g, A)
  OBVIOUS
<1> HIDE DEF g, A
<1>4. /\ f.kind = g.kind /\ f.rid = g.rid /\ f.tells = g.tells
      /\ DOMAIN f.fields \subseteq DOMAIN g.fields
      /\ \A n \in DOMAIN f.fields : f.fields[n] = Redacted \/ f.fields[n] = g.fields[n]
      /\ g.kind = "request" /\ g.tells.attacks = {} =>
           /\ "body" \notin DOMAIN f.fields
           /\ \A n \in DOMAIN f.fields \intersect PrivateHeaders : f.fields[n] = Redacted
      /\ g.kind = "credential" /\ g.rid \notin A =>
           ("password" \in DOMAIN f.fields => f.fields["password"] = Redacted)
      /\ g.kind = "request" /\ g.tells.attacks # {} =>
           DOMAIN f.fields = DOMAIN g.fields /\ \A n \in DOMAIN g.fields : f.fields[n] = g.fields[n]
  BY <1>2, <1>3, AnonymizedEvent
<1> QED
  BY <1>2, <1>4 DEF A

LEMMA VisitorsHidden ==
  ASSUME LogInv
  PROVE  VisitorsAreHidden
<1>1. SUFFICES ASSUME NEW d \in DOMAIN published, NEW f \in ToSet(published[d]),
                      NEW n \in DOMAIN f.fields \intersect ({"password", "body"} \union PrivateHeaders),
                      f.fields[n] # Redacted
               PROVE  Attacks(sent[f.rid]) # {}
  BY DEF VisitorsAreHidden
<1>2. d \in 1..Days
  BY PublishedEvents
<1>3. PICK e \in ToSet(files[d]) : f = Anonymized(Safe(e), Attacking(files[d]))
  BY PublishedEvents
<1>4. /\ f.rid = e.rid /\ n \in DOMAIN e.fields
      /\ e.kind = "request" /\ e.tells.attacks = {} =>
           /\ "body" \notin DOMAIN f.fields
           /\ \A k \in DOMAIN f.fields \intersect PrivateHeaders : f.fields[k] = Redacted
      /\ e.kind = "credential" /\ e.rid \notin Attacking(files[d]) =>
           ("password" \in DOMAIN f.fields => f.fields["password"] = Redacted)
  BY <1>2, <1>3, PublishedEvent
<1>5. n \in {"password", "body", "authorization", "x_api_key"}
  BY RequestsOK
<1>6. CASE e.kind = "identity"
  BY <1>2, <1>4, <1>5, <1>6, StoredEvents, VerdictFacts
<1>7. CASE e.kind # "identity"
  <2> DEFINE r == sent[e.rid]
  <2>1. r \in Requests /\ e \in ToSet(Emitted(e.rid, r))
    BY <1>2, <1>7, StoredEvents
  <2>2. /\ e.kind \in {"hunt", "request", "credential"}
        /\ e.kind = "hunt" => DOMAIN e.fields = {"query"}
        /\ e.kind = "credential" => DOMAIN e.fields = {"password"}
        /\ e.kind = "request" => e.tells.attacks = Attacks(r)
        /\ e.kind = "request" => "password" \notin DOMAIN e.fields
    BY <2>1, EventFacts, FieldFacts
  <2>3. CASE e.kind = "hunt"
    BY <1>4, <1>5, <2>2, <2>3
  <2>4. CASE e.kind = "request"
    <3>1. e.tells.attacks # {}
      BY <1>1, <1>4, <2>2, <2>4
    <3> QED
      BY <1>4, <2>2, <2>4, <3>1
  <2>5. CASE e.kind = "credential"
    <3>1. n = "password" /\ e.rid \in Attacking(files[d])
      BY <1>1, <1>4, <2>2, <2>5
    <3>2. PICK x \in ToSet(files[d]) : x.kind = "request" /\ x.tells.attacks # {} /\ x.rid = e.rid
      BY <3>1 DEF Attacking
    <3>3. sent[x.rid] \in Requests /\ x \in ToSet(Emitted(x.rid, sent[x.rid]))
      BY <1>2, <3>2, StoredEvents
    <3>4. x.tells.attacks = Attacks(sent[x.rid])
      BY <3>2, <3>3, FieldFacts
    <3> QED
      BY <1>4, <3>2, <3>4
  <2> QED
    BY <2>2, <2>3, <2>4, <2>5
<1> QED
  BY <1>6, <1>7

(* A password, a cookie or a body leaves in clear only with a request that *)
(* carried an attack, also when that request was lost or is in the file of *)
(* another day.                                                            *)
THEOREM VisitorsAreHiddenAlways == Spec => []VisitorsAreHidden
BY LogAlways, VisitorsHidden, PTL

(* A piece that is looked at is in clear or behind at least one decoding.  *)
LEMMA SeenPieces ==
  ASSUME NEW text, NEW w
  PROVE  /\ w \in Seen(text) <=> \E p \in text : p.depth <= Rounds /\ p.what = w
         /\ w \in Plain(text) <=> \E p \in text : p.depth = 0 /\ p.what = w
BY DEF Seen, Plain

LEMMA RewrittenPieces ==
  ASSUME NEW text, NEW secrets
  PROVE  /\ \A p \in Rewrite(text, secrets) :
              p = Mark \/ (p \in text /\ ~(p.depth = 0 /\ (Ours(p.what) \/ p.what \in secrets)))
         /\ \A p \in text : ~(p.depth = 0 /\ (Ours(p.what) \/ p.what \in secrets)) => p \in Rewrite(text, secrets)
<1> DEFINE goes(p) == p.depth = 0 /\ (Ours(p.what) \/ p.what \in secrets)
<1>1. Rewrite(text, secrets) = {IF goes(p) THEN Mark ELSE p : p \in text}
  BY DEF Rewrite
<1> HIDE DEF goes
<1>2. \A p \in Rewrite(text, secrets) : p = Mark \/ (p \in text /\ ~goes(p))
  BY <1>1
<1>3. \A p \in text : ~goes(p) => p \in Rewrite(text, secrets)
  BY <1>1
<1> QED
  BY <1>2, <1>3 DEF goes

(* The texts that stand for something else tell nothing.                   *)
LEMMA NothingTold ==
  /\ Mark.depth = 0 /\ ~Ours(Mark.what) /\ Mark.what # <<"secret", Key>>
  /\ \A p \in Redacted : p.depth = 0 /\ ~Ours(p.what) /\ p.what # <<"secret", Key>>
BY DEF Mark, Redacted, Ours

(* A token of ours that is published is one that the client sent encoded   *)
(* more often than is decoded: it is as it was in the event, or it would   *)
(* have been found there.                                                  *)
LEMMA NoTokenLeft ==
  ASSUME LogInv, NEW d \in DOMAIN published, NEW f \in ToSet(published[d]),
         NEW t \in Units(f), NEW p \in t, Ours(p.what)
  PROVE  p.depth > Rounds /\ \E text \in Texts(sent[f.rid]) : p \in text
<1>1. d \in 1..Days
  BY PublishedEvents
<1>2. PICK e \in ToSet(files[d]) : ~Leaks(Safe(e)) /\ f = Anonymized(Safe(e), Attacking(files[d]))
  BY PublishedEvents
<1>3. PICK n \in DOMAIN f.fields : t = f.fields[n]
  BY DEF Units
<1>4. /\ n \in DOMAIN e.fields \ TokenFields /\ f.rid = e.rid
      /\ t = Redacted \/ t = Rewrite(e.fields[n], Secrets(e))
  BY <1>1, <1>2, <1>3, PublishedEvent
<1>5. t = Rewrite(e.fields[n], Secrets(e)) /\ p \in e.fields[n]
  <2>1. t # Redacted /\ p # Mark
    BY NothingTold
  <2> QED
    BY <1>4, <2>1, RewrittenPieces
<1>6. {"kind", "rid", "tells", "fields"} \subseteq DOMAIN e
  BY <1>1, StoredEvents
<1>7. ~(p.depth <= Rounds)
  <2>1. SUFFICES ASSUME p.depth <= Rounds PROVE FALSE
    OBVIOUS
  <2>2. n \in DOMAIN Safe(e).fields /\ t = Safe(e).fields[n]
    BY <1>4, <1>5, <1>6, SafeEvent
  <2>3. t \in Units(Safe(e)) /\ p.what \in Seen(t)
    BY <2>1, <2>2, SeenPieces DEF Units
  <2> QED
    BY <1>2, <2>3 DEF Leaks
<1>8. CASE e.kind = "identity"
  <2>1. e \in VerdictEvents /\ n = "rdns"
    BY <1>1, <1>4, <1>8, StoredEvents, VerdictFacts
  <2>2. \A q \in e.fields["rdns"] : ~Ours(q.what)
    BY <2>1 DEF VerdictEvents, VerdictEvent, Ours
  <2> QED
    BY <1>5, <2>1, <2>2
<1>9. CASE e.kind # "identity"
  <2> DEFINE r == sent[e.rid]
  <2>1. r \in Requests /\ e \in ToSet(Emitted(e.rid, r))
    BY <1>1, <1>9, StoredEvents
  <2>2. e.fields[n] \in Texts(r) \union {{}}
    BY <1>4, <2>1, FieldFacts
  <2>3. e.fields[n] \in Texts(r)
    BY <1>5, <2>2
  <2>4. p.depth \in Nat /\ Rounds \in Nat
    BY <1>5, <2>1, <2>3, RequestsOK
  <2>5. p.depth > Rounds
    BY <1>7, <2>4
  <2> QED
    BY <1>4, <1>5, <2>3, <2>5
<1> QED
  BY <1>8, <1>9

(* A secret in clear is published only of an event that does not show its  *)
(* key id: an event that shows it encoded stays, and where it is plain the *)
(* secret is replaced.                                                     *)
LEMMA NoSecretLeft ==
  ASSUME LogInv, NEW d \in DOMAIN published, NEW f \in ToSet(published[d]),
         <<"secret", Key>> \in UNION {Plain(t) : t \in Units(f)}
  PROVE  \E e \in ToSet(Emitted(f.rid, sent[f.rid])) :
           e.kind = f.kind /\ KeyId \notin UNION {Seen(t) : t \in Units(e)}
<1> DEFINE secret == <<"secret", Key>>
<1>1. d \in 1..Days
  BY PublishedEvents
<1>2. PICK e \in ToSet(files[d]) : ~Leaks(Safe(e)) /\ f = Anonymized(Safe(e), Attacking(files[d]))
  BY PublishedEvents
<1>3. /\ f.rid = e.rid /\ f.kind = e.kind
      /\ DOMAIN f.fields \subseteq DOMAIN e.fields \ TokenFields
      /\ \A n \in DOMAIN f.fields :
           f.fields[n] = Redacted \/ f.fields[n] = Rewrite(e.fields[n], Secrets(e))
  BY <1>1, <1>2, PublishedEvent
<1>4. {"kind", "rid", "tells", "fields"} \subseteq DOMAIN e
  BY <1>1, StoredEvents
<1>5. PICK k \in DOMAIN f.fields : secret \in Plain(f.fields[k])
  BY Zenon DEF Units
<1> HIDE DEF secret
<1>6. PICK q \in f.fields[k] : q.depth = 0 /\ q.what = secret
  BY <1>5, SeenPieces
<1>7. /\ k \in DOMAIN e.fields \ TokenFields /\ q \in e.fields[k]
      /\ secret \notin Secrets(e)
  <2>1. f.fields[k] # Redacted /\ q # Mark
    BY <1>6, NothingTold DEF secret
  <2>2. f.fields[k] = Rewrite(e.fields[k], Secrets(e))
    BY <1>3, <2>1
  <2> QED
    BY <1>3, <1>6, <2>1, <2>2, RewrittenPieces
<1>8. ASSUME NEW n \in DOMAIN e.fields \ TokenFields, KeyId \in Seen(e.fields[n])
      PROVE  FALSE
  <2> DEFINE text == e.fields[n]
             R == Rewrite(text, Secrets(e))
  <2>1. Ours(KeyId) /\ KeyId[2] = "aws_key_id" /\ KeyId[3] = Key
    BY DEF Ours, KeyId
  <2>2. PICK p \in text : p.depth <= Rounds /\ p.what = KeyId
    BY <1>8, SeenPieces
  <2>3. n \in DOMAIN Safe(e).fields /\ Safe(e).fields[n] = R
    BY <1>4, SafeEvent
  <2>4. p.depth = 0
    <3>1. SUFFICES ASSUME p.depth # 0 PROVE FALSE
      OBVIOUS
    <3>2. p \in R
      BY <3>1, RewrittenPieces
    <3> HIDE DEF R
    <3>3. KeyId \in Seen(R)
      BY <2>2, <3>2, SeenPieces
    <3>4. R \in Units(Safe(e))
      BY <2>3 DEF Units
    <3> QED
      BY <1>2, <2>1, <3>3, <3>4 DEF Leaks
  <2> DEFINE kept == [m \in DOMAIN e.fields \ TokenFields |-> e.fields[m]]
             open == [e EXCEPT !.fields = kept]
  <2>5. open.fields = kept /\ kept[n] = text /\ DOMAIN kept = DOMAIN e.fields \ TokenFields
    BY <1>4
  <2>6. Secrets(e) = {<<"secret", v[3]>> :
          v \in {x \in UNION {Plain(t) : t \in Units(open)} : Ours(x) /\ x[2] = "aws_key_id"}}
    BY DEF Secrets
  <2> HIDE DEF kept, open, text
  <2>7. text \in Units(open)
    BY <2>5 DEF Units
  <2>8. KeyId \in Plain(text)
    BY <2>2, <2>4, SeenPieces
  <2>9. KeyId \in {x \in UNION {Plain(t) : t \in Units(open)} : Ours(x) /\ x[2] = "aws_key_id"}
    BY <2>1, <2>7, <2>8
  <2>10. <<"secret", KeyId[3]>> \in Secrets(e)
    BY <2>6, <2>9
  <2> QED
    BY <1>7, <2>1, <2>10 DEF secret
<1>9. e.kind # "identity"
  <2>1. SUFFICES ASSUME e.kind = "identity" PROVE FALSE
    OBVIOUS
  <2>2. e \in VerdictEvents /\ k = "rdns"
    BY <1>1, <1>7, <2>1, StoredEvents, VerdictFacts
  <2>3. \A x \in e.fields["rdns"] : x.what # <<"secret", Key>>
    BY <2>2 DEF VerdictEvents, VerdictEvent
  <2> QED
    BY <1>6, <1>7, <2>2, <2>3 DEF secret
<1> DEFINE r == sent[e.rid]
<1>10. r \in Requests /\ e \in ToSet(Emitted(e.rid, r))
  BY <1>1, <1>9, StoredEvents
<1>11. ASSUME NEW n \in DOMAIN e.fields, KeyId \in Seen(e.fields[n])
       PROVE  FALSE
  <2>1. n \in TokenFields
    BY <1>8, <1>11
  <2>2. e.kind \in {"hunt", "request", "credential"}
    BY <1>10, EventFacts
  <2>3. e.kind = "request"
    BY <1>10, <2>1, <2>2, FieldFacts DEF TokenFields
  <2>4. /\ e = RequestEvent(e.rid, r) /\ n = "replays"
        /\ {"query", "authorization", "x_api_key", "body"} \subseteq DOMAIN e.fields \ TokenFields
        /\ e.fields["query"] = r.query /\ e.fields["authorization"] = r.basic
        /\ e.fields["x_api_key"] = r.apikey /\ e.fields["body"] = r.body
    BY <1>10, <2>1, <2>3, EventFacts, FieldFacts DEF TokenFields
  <2>5. e.fields["replays"] = {[what |-> w, depth |-> 0] : w \in Replayed(r)}
    <3> DEFINE id == e.rid
    <3>1. RequestEvent(id, r).fields["replays"] = {[what |-> w, depth |-> 0] : w \in Replayed(r)}
      BY DEF RequestEvent, Event
    <3> QED
      BY <2>4, <3>1
  <2>6. KeyId \in Replayed(r)
    BY <1>11, <2>4, <2>5, SeenPieces
  <2>7. PICK text \in Texts(r) : KeyId \in Seen(text)
    BY <2>6 DEF Replayed
  <2>8. PICK m \in DOMAIN e.fields \ TokenFields : e.fields[m] = text
    BY <2>4, <2>7 DEF Texts
  <2> QED
    BY <1>8, <2>7, <2>8
<1>12. KeyId \notin UNION {Seen(t) : t \in Units(e)}
  BY <1>11, Zenon DEF Units
<1> QED
  BY <1>3, <1>10, <1>12

(* What is published of an event that hides no token of ours.              *)
LEMMA AllElseIsThere ==
  ASSUME LogInv, NEW d \in DOMAIN published, NEW e \in ToSet(files[d]), e.kind # "identity",
         ~\E t \in Texts(sent[e.rid]) : \E w \in Seen({p \in t : p.depth > 0}) : Ours(w)
  PROVE  \E f \in ToSet(published[d]) :
           /\ f.kind = e.kind /\ f.rid = e.rid
           /\ e.kind = "request" /\ Attacks(sent[e.rid]) # {} =>
                \A n \in {"query", "authorization", "x_api_key", "body"} :
                  {w \in Seen(e.fields[n]) : ~Ours(w) /\ w[1] # "secret"} \subseteq Seen(f.fields[n])
<1> DEFINE r == sent[e.rid]
           f == Anonymized(Safe(e), Attacking(files[d]))
<1>1. d \in 1..Days
  BY PublishedEvents
<1>2. /\ r \in Requests /\ e \in ToSet(Emitted(e.rid, r))
      /\ {"kind", "rid", "tells", "fields"} \subseteq DOMAIN e
  BY <1>1, StoredEvents
<1>3. \A n \in DOMAIN e.fields \ TokenFields : e.fields[n] \in Texts(r) \union {{}}
  BY <1>2, FieldFacts
<1>4. ~Leaks(Safe(e))
  <2>1. SUFFICES ASSUME NEW n \in DOMAIN Safe(e).fields, NEW w \in Seen(Safe(e).fields[n]), Ours(w)
                 PROVE  FALSE
    BY DEF Leaks, Units
  <2>2. n \in DOMAIN e.fields \ TokenFields /\ Safe(e).fields[n] = Rewrite(e.fields[n], Secrets(e))
    BY <1>2, SafeEvent
  <2>3. PICK p \in Rewrite(e.fields[n], Secrets(e)) : p.depth <= Rounds /\ p.what = w
    BY <2>2, SeenPieces
  <2>4. p \in e.fields[n] /\ p.depth # 0
    BY <2>1, <2>3, RewrittenPieces, NothingTold
  <2>5. e.fields[n] \in Texts(r)
    BY <1>3, <2>2, <2>4
  <2>6. p.depth > 0
    BY <1>2, <2>4, <2>5, RequestsOK
  <2> DEFINE hidden == {q \in e.fields[n] : q.depth > 0}
  <2>7. p \in hidden
    BY <2>4, <2>6
  <2> HIDE DEF hidden
  <2>8. w \in Seen(hidden)
    BY <2>3, <2>7, SeenPieces
  <2> QED
    BY <2>1, <2>5, <2>8 DEF hidden
<1>5. f \in ToSet(published[d])
  BY <1>4, PublishedEvents
<1>6. f.kind = e.kind /\ f.rid = e.rid
  BY <1>1, PublishedEvent
<1>7. ASSUME e.kind = "request", Attacks(r) # {},
             NEW n \in {"query", "authorization", "x_api_key", "body"},
             NEW w \in Seen(e.fields[n]), ~Ours(w), w[1] # "secret"
      PROVE  w \in Seen(f.fields[n])
  <2>1. e.tells.attacks = Attacks(r) /\ n \in DOMAIN e.fields \ TokenFields
    BY <1>2, <1>7, FieldFacts DEF TokenFields
  <2>2. f.fields[n] = Rewrite(e.fields[n], Secrets(e))
    BY <1>1, <1>7, <2>1, PublishedEvent
  <2>3. PICK p \in e.fields[n] : p.depth <= Rounds /\ p.what = w
    BY SeenPieces
  <2>4. w \notin Secrets(e)
    <3>1. \A x \in Secrets(e) : x[1] = "secret"
      BY DEF Secrets
    <3> QED
      BY <1>7, <3>1
  <2>5. p \in Rewrite(e.fields[n], Secrets(e))
    BY <1>7, <2>3, <2>4, RewrittenPieces
  <2> QED
    BY <2>2, <2>3, <2>5, SeenPieces
<1> HIDE DEF f
<1> QED
  BY <1>5, <1>6, <1>7

(* Of the tokens that verify, those leave that a client sent encoded more  *)
(* often than is decoded, and no others; the AWS secret leaves in clear    *)
(* only in an event that does not show its key id; all else is there.      *)
THEOREM TokensStayAtHomeAlways == Spec => []TokensStayAtHome
<1>1. LogInv => TokensStayAtHome
  <2>1. SUFFICES ASSUME LogInv, NEW d \in DOMAIN published
                 PROVE  /\ \A f \in ToSet(published[d]) : \A t \in Units(f) : \A p \in t : Ours(p.what) =>
                             p.depth > Rounds /\ \E text \in Texts(sent[f.rid]) : p \in text
                        /\ \A f \in ToSet(published[d]) :
                             <<"secret", Key>> \in UNION {Plain(t) : t \in Units(f)} =>
                               \E e \in ToSet(Emitted(f.rid, sent[f.rid])) :
                                 e.kind = f.kind /\ KeyId \notin UNION {Seen(t) : t \in Units(e)}
                        /\ \A e \in ToSet(files[d]) : e.kind # "identity" =>
                             (~(\E t \in Texts(sent[e.rid]) : \E w \in Seen({p \in t : p.depth > 0}) : Ours(w)) =>
                                \E f \in ToSet(published[d]) :
                                  /\ f.kind = e.kind /\ f.rid = e.rid
                                  /\ e.kind = "request" /\ Attacks(sent[e.rid]) # {} =>
                                       \A n \in {"query", "authorization", "x_api_key", "body"} :
                                         {w \in Seen(e.fields[n]) : ~Ours(w) /\ w[1] # "secret"}
                                           \subseteq Seen(f.fields[n]))
    BY Zenon DEF TokensStayAtHome
  <2>2. ASSUME NEW f \in ToSet(published[d]), NEW t \in Units(f), NEW p \in t, Ours(p.what)
        PROVE  p.depth > Rounds /\ \E text \in Texts(sent[f.rid]) : p \in text
    BY <2>1, <2>2, NoTokenLeft
  <2>3. ASSUME NEW f \in ToSet(published[d]), <<"secret", Key>> \in UNION {Plain(t) : t \in Units(f)}
        PROVE  \E e \in ToSet(Emitted(f.rid, sent[f.rid])) :
                 e.kind = f.kind /\ KeyId \notin UNION {Seen(t) : t \in Units(e)}
    BY <2>1, <2>3, NoSecretLeft
  <2> QED
    BY <2>1, <2>2, <2>3, AllElseIsThere, Zenon
<1> QED
  BY <1>1, LogAlways, PTL

-----------------------------------------------------------------------------
(* What a session tells of the events it is made of.                       *)

Kinds == {"hunt", "request", "credential"}

UrlsOf(e) == IF e.kind \in {"hunt", "request"} THEN e.tells.urls ELSE {}
OastOf(e) == IF e.kind = "request" THEN e.tells.oast ELSE {}
TokensOf(e) == IF e.kind = "request" THEN e.tells.replayed ELSE {}
ClassesOf(e) == IF e.kind = "request" THEN e.tells.attacks ELSE {}
BodiesOf(e) == IF e.kind = "request" /\ e.tells.attacks # {} THEN e.tells.bodies ELSE {}
FamiliesOf(e) == IF e.kind = "hunt" THEN {e.tells.family} ELSE {}
WebOf(e) == IF e.kind = "hunt" THEN e.tells.web_attacks ELSE {}
Decoys(e) == e.kind = "hunt" /\ e.tells.decoy_served
Walks(e) == e.kind = "hunt" /\ e.tells.stage

Told(s, E) ==
  /\ DOMAIN s = DOMAIN NoSession
  /\ s.urls = UNION {UrlsOf(e) : e \in E} /\ s.oast = UNION {OastOf(e) : e \in E}
  /\ s.tokens = UNION {TokensOf(e) : e \in E} /\ s.bodies = UNION {BodiesOf(e) : e \in E}
  /\ s.attack_classes = UNION {ClassesOf(e) : e \in E}
  /\ s.families = UNION {FamiliesOf(e) : e \in E} /\ s.web_attacks = UNION {WebOf(e) : e \in E}
  /\ s.decoy_served \in BOOLEAN /\ (s.decoy_served <=> \E e \in E : Decoys(e))
  /\ s.walked_multistage \in BOOLEAN /\ (s.walked_multistage <=> \E e \in E : Walks(e))
  /\ s.attempts \in Nat /\ (s.attempts > 0 <=> \E e \in E : e.kind = "credential")

Readable(e) ==
  e.kind \in Kinds /\ (e.kind = "hunt" => e.tells.decoy_served \in BOOLEAN /\ e.tells.stage \in BOOLEAN)

LEMMA NothingObserved == Told(NoSession, {})
BY DEF Told, NoSession

(* What one more event adds.                                               *)
LEMMA ObserveFields ==
  ASSUME NEW s, DOMAIN s = DOMAIN NoSession, NEW e, e.kind \in Kinds
  PROVE  LET t == Observe(s, e) IN
         /\ DOMAIN t = DOMAIN NoSession
         /\ t.urls = s.urls \union UrlsOf(e) /\ t.oast = s.oast \union OastOf(e)
         /\ t.tokens = s.tokens \union TokensOf(e) /\ t.bodies = s.bodies \union BodiesOf(e)
         /\ t.attack_classes = s.attack_classes \union ClassesOf(e)
         /\ t.families = s.families \union FamiliesOf(e) /\ t.web_attacks = s.web_attacks \union WebOf(e)
         /\ t.decoy_served = IF e.kind = "hunt" THEN s.decoy_served \/ e.tells.decoy_served ELSE s.decoy_served
         /\ t.walked_multistage =
              IF e.kind = "hunt" THEN s.walked_multistage \/ e.tells.stage ELSE s.walked_multistage
         /\ t.attempts = IF e.kind = "credential" THEN s.attempts + 1 ELSE s.attempts
<1> DEFINE b == [s EXCEPT !.events = @ + 1, !.ips = @ \union {e.ip}]
           t == Observe(s, e)
<1>1. DOMAIN NoSession =
        {"events", "requests", "ips", "families", "web_attacks", "decoy_served", "walked_multistage",
         "attack_classes", "tools", "oast", "urls", "tokens", "bodies", "attempts", "pairs"}
  BY DEF NoSession
<1>2. /\ DOMAIN b = DOMAIN NoSession
      /\ b.urls = s.urls /\ b.oast = s.oast /\ b.tokens = s.tokens /\ b.bodies = s.bodies
      /\ b.attack_classes = s.attack_classes /\ b.families = s.families /\ b.web_attacks = s.web_attacks
      /\ b.decoy_served = s.decoy_served /\ b.walked_multistage = s.walked_multistage
      /\ b.attempts = s.attempts
  BY <1>1
<1>3. /\ e.kind = "request" => t = ObserveRequest(b, e)
      /\ e.kind = "hunt" => t = ObserveHunt(b, e)
      /\ e.kind = "credential" => t = ObserveCredential(b, e)
  BY DEF Observe
<1> HIDE DEF b, t
<1>4. CASE e.kind = "request"
  <2>1. t = ObserveRequest(b, e)
    BY <1>3, <1>4
  <2>2. /\ DOMAIN t = DOMAIN NoSession
        /\ t.urls = b.urls \union e.tells.urls /\ t.oast = b.oast \union e.tells.oast
        /\ t.tokens = b.tokens \union e.tells.replayed
        /\ t.bodies = b.bodies \union (IF e.tells.attacks # {} THEN e.tells.bodies ELSE {})
        /\ t.attack_classes = b.attack_classes \union e.tells.attacks
        /\ t.families = b.families /\ t.web_attacks = b.web_attacks /\ t.decoy_served = b.decoy_served
        /\ t.walked_multistage = b.walked_multistage /\ t.attempts = b.attempts
    BY <1>1, <1>2, <2>1 DEF ObserveRequest
  <2> QED
    BY <1>2, <1>4, <2>2 DEF t, UrlsOf, OastOf, TokensOf, BodiesOf, ClassesOf, FamiliesOf, WebOf
<1>5. CASE e.kind = "hunt"
  <2>1. t = ObserveHunt(b, e)
    BY <1>3, <1>5
  <2>2. /\ DOMAIN t = DOMAIN NoSession
        /\ t.urls = b.urls \union e.tells.urls /\ t.oast = b.oast /\ t.tokens = b.tokens
        /\ t.bodies = b.bodies /\ t.attack_classes = b.attack_classes
        /\ t.families = b.families \union {e.tells.family}
        /\ t.web_attacks = b.web_attacks \union e.tells.web_attacks
        /\ t.decoy_served = (b.decoy_served \/ e.tells.decoy_served)
        /\ t.walked_multistage = (b.walked_multistage \/ e.tells.stage)
        /\ t.attempts = b.attempts
    BY <1>1, <1>2, <2>1 DEF ObserveHunt
  <2> QED
    BY <1>2, <1>5, <2>2 DEF t, UrlsOf, OastOf, TokensOf, BodiesOf, ClassesOf, FamiliesOf, WebOf
<1>6. CASE e.kind = "credential"
  <2>1. t = ObserveCredential(b, e)
    BY <1>3, <1>6
  <2>2. /\ DOMAIN t = DOMAIN NoSession
        /\ t.urls = b.urls /\ t.oast = b.oast /\ t.tokens = b.tokens
        /\ t.bodies = b.bodies /\ t.attack_classes = b.attack_classes
        /\ t.families = b.families /\ t.web_attacks = b.web_attacks
        /\ t.decoy_served = b.decoy_served /\ t.walked_multistage = b.walked_multistage
        /\ t.attempts = b.attempts + 1
    BY <1>1, <1>2, <2>1 DEF ObserveCredential
  <2> QED
    BY <1>2, <1>6, <2>2 DEF t, UrlsOf, OastOf, TokensOf, BodiesOf, ClassesOf, FamiliesOf, WebOf
<1> QED
  BY <1>4, <1>5, <1>6 DEF Kinds

LEMMA ObserveTold ==
  ASSUME NEW s, NEW E, Told(s, E), NEW e, Readable(e)
  PROVE  Told(Observe(s, e), E \union {e})
<1> DEFINE t == Observe(s, e)
           F == E \union {e}
<1>1. /\ DOMAIN t = DOMAIN NoSession
      /\ t.urls = s.urls \union UrlsOf(e) /\ t.oast = s.oast \union OastOf(e)
      /\ t.tokens = s.tokens \union TokensOf(e) /\ t.bodies = s.bodies \union BodiesOf(e)
      /\ t.attack_classes = s.attack_classes \union ClassesOf(e)
      /\ t.families = s.families \union FamiliesOf(e) /\ t.web_attacks = s.web_attacks \union WebOf(e)
      /\ t.decoy_served = IF e.kind = "hunt" THEN s.decoy_served \/ e.tells.decoy_served ELSE s.decoy_served
      /\ t.walked_multistage =
           IF e.kind = "hunt" THEN s.walked_multistage \/ e.tells.stage ELSE s.walked_multistage
      /\ t.attempts = IF e.kind = "credential" THEN s.attempts + 1 ELSE s.attempts
  BY ObserveFields DEF Told, Readable
<1> HIDE DEF t
<1>2. /\ s.urls = UNION {UrlsOf(x) : x \in E} /\ s.oast = UNION {OastOf(x) : x \in E}
      /\ s.tokens = UNION {TokensOf(x) : x \in E} /\ s.bodies = UNION {BodiesOf(x) : x \in E}
      /\ s.attack_classes = UNION {ClassesOf(x) : x \in E}
      /\ s.families = UNION {FamiliesOf(x) : x \in E} /\ s.web_attacks = UNION {WebOf(x) : x \in E}
      /\ s.decoy_served \in BOOLEAN /\ (s.decoy_served <=> \E x \in E : Decoys(x))
      /\ s.walked_multistage \in BOOLEAN /\ (s.walked_multistage <=> \E x \in E : Walks(x))
      /\ s.attempts \in Nat /\ (s.attempts > 0 <=> \E x \in E : x.kind = "credential")
  BY DEF Told
<1>3. \A x : x \in F <=> x \in E \/ x = e
  OBVIOUS
<1> HIDE DEF F
<1>4. UNION {UrlsOf(x) : x \in F} = (UNION {UrlsOf(x) : x \in E}) \union UrlsOf(e)
  BY <1>3
<1>5. UNION {OastOf(x) : x \in F} = (UNION {OastOf(x) : x \in E}) \union OastOf(e)
  BY <1>3
<1>6. UNION {TokensOf(x) : x \in F} = (UNION {TokensOf(x) : x \in E}) \union TokensOf(e)
  BY <1>3
<1>7. UNION {BodiesOf(x) : x \in F} = (UNION {BodiesOf(x) : x \in E}) \union BodiesOf(e)
  BY <1>3
<1>8. UNION {ClassesOf(x) : x \in F} = (UNION {ClassesOf(x) : x \in E}) \union ClassesOf(e)
  BY <1>3
<1>9. UNION {FamiliesOf(x) : x \in F} = (UNION {FamiliesOf(x) : x \in E}) \union FamiliesOf(e)
  BY <1>3
<1>10. UNION {WebOf(x) : x \in F} = (UNION {WebOf(x) : x \in E}) \union WebOf(e)
  BY <1>3
<1>11. t.decoy_served \in BOOLEAN /\ (t.decoy_served <=> \E x \in F : Decoys(x))
  <2>1. t.decoy_served \in BOOLEAN /\ (t.decoy_served <=> s.decoy_served \/ Decoys(e))
    BY <1>1, <1>2 DEF Readable, Decoys
  <2> QED
    BY <1>2, <1>3, <2>1
<1>12. t.walked_multistage \in BOOLEAN /\ (t.walked_multistage <=> \E x \in F : Walks(x))
  <2>1. t.walked_multistage \in BOOLEAN /\ (t.walked_multistage <=> s.walked_multistage \/ Walks(e))
    BY <1>1, <1>2 DEF Readable, Walks
  <2> QED
    BY <1>2, <1>3, <2>1
<1>13. t.attempts \in Nat /\ (t.attempts > 0 <=> \E x \in F : x.kind = "credential")
  <2>1. t.attempts \in Nat /\ (t.attempts > 0 <=> s.attempts > 0 \/ e.kind = "credential")
    BY <1>1, <1>2
  <2> QED
    BY <1>2, <1>3, <2>1
<1>14. Told(t, F)
  BY <1>1, <1>2, <1>4, <1>5, <1>6, <1>7, <1>8, <1>9, <1>10, <1>11, <1>12, <1>13 DEF Told
<1> QED
  BY <1>14 DEF t, F

LEMMA SessionTold ==
  ASSUME NEW S, NEW log \in Seq(S), NEW a, \A e \in ToSet(log) : e.actor = a => Readable(e)
  PROVE  Told(Session(log, a), {e \in ToSet(log) : e.actor = a})
<1> DEFINE N == Len(log)
           step(n, s) == IF log[n].actor = a THEN Observe(s, log[n]) ELSE s
           Def(g) == [n \in 0..N |->
                        IF n = 0 THEN NoSession
                        ELSE IF log[n].actor = a THEN Observe(g[n - 1], log[n]) ELSE g[n - 1]]
           Good(m, g) == DOMAIN g = 0..m /\ g[0] = NoSession /\ \A n \in 1..m : g[n] = step(n, g[n - 1])
           h == CHOOSE g : g = Def(g)
           upto(n) == {log[k] : k \in {i \in 1..n : log[i].actor = a}}
<1>1. N \in Nat /\ DOMAIN log = 1..N
  OBVIOUS
<1>2. \E g : Good(N, g)
  <2> DEFINE T == {m \in Nat : \E g : Good(m, g)}
  <2> HIDE DEF step
  <2>1. 0 \in T
    <3> DEFINE f == [n \in 0..0 |-> NoSession]
    <3>1. DOMAIN f = 0..0 /\ f[0] = NoSession /\ 1..0 = {}
      OBVIOUS
    <3> HIDE DEF f
    <3>2. Good(0, f)
      BY <3>1
    <3> QED
      BY <3>2
  <2>2. ASSUME NEW m \in Nat, m \in T
        PROVE  m + 1 \in T
    <3>1. PICK f : Good(m, f)
      BY <2>2
    <3> DEFINE g == [n \in 0..(m + 1) |-> IF n = m + 1 THEN step(m + 1, f[m]) ELSE f[n]]
    <3>2. \A n \in 0..m : n \in 0..(m + 1) /\ n # m + 1 /\ g[n] = f[n]
      OBVIOUS
    <3>3. m + 1 \in 0..(m + 1) /\ (m + 1) - 1 = m /\ m \in 0..m
      OBVIOUS
    <3>4. g[m + 1] = step(m + 1, f[m]) /\ DOMAIN g = 0..(m + 1)
      BY <3>3, Zenon
    <3> HIDE DEF g
    <3>5. ASSUME NEW n \in 1..(m + 1)
          PROVE  g[n] = step(n, g[n - 1])
      <4>1. CASE n = m + 1
        BY <3>2, <3>3, <3>4, <4>1
      <4>2. CASE n # m + 1
        <5>1. n \in 1..m /\ n \in 0..m /\ n - 1 \in 0..m
          BY <4>2
        <5> QED
          BY <3>1, <3>2, <5>1
      <4> QED
        BY <4>1, <4>2
    <3>6. Good(m + 1, g)
      BY <3>1, <3>2, <3>4, <3>5
    <3>7. m + 1 \in Nat
      OBVIOUS
    <3> HIDE DEF Good
    <3> QED
      BY <3>6, <3>7
  <2> HIDE DEF T, N
  <2>3. N \in T
    BY <1>1, <2>1, <2>2, Counting
  <2> QED
    BY <2>3 DEF T
<1>3. h = Def(h)
  <2>1. PICK g : Good(N, g)
    BY <1>2
  <2> DEFINE f == [n \in 0..N |-> g[n]]
  <2>2. ASSUME NEW n \in 0..N
        PROVE  f[n] = IF n = 0 THEN NoSession
                      ELSE IF log[n].actor = a THEN Observe(f[n - 1], log[n]) ELSE f[n - 1]
    <3>1. n # 0 => n \in 1..N /\ n - 1 \in 0..N
      BY <1>1
    <3> QED
      BY <2>1, <3>1
  <2>3. f = Def(f)
    BY <2>2
  <2> HIDE DEF Def, f
  <2> QED
    BY <2>3
<1>4. h[0] = NoSession /\ \A n \in 1..N : h[n] = step(n, h[n - 1])
  <2> HIDE DEF h
  <2>1. \A n \in 1..N : n \in 0..N /\ n # 0 /\ 0 \in 0..N
    BY <1>1
  <2> QED
    BY <1>1, <1>3, <2>1
<1> HIDE DEF h, Def, Good
<1> DEFINE T == {m \in Nat : m <= N => Told(h[m], upto(m))}
<1>5. 0 \in T
  <2>1. upto(0) = {}
    OBVIOUS
  <2> HIDE DEF upto
  <2> QED
    BY <1>4, <2>1, NothingObserved
<1>6. ASSUME NEW m \in Nat, m \in T
      PROVE  m + 1 \in T
  <2>1. SUFFICES ASSUME m + 1 <= N PROVE Told(h[m + 1], upto(m + 1))
    OBVIOUS
  <2>2. m + 1 \in 1..N /\ (m + 1) - 1 = m /\ m <= N
    BY <1>1, <2>1
  <2>3. Told(h[m], upto(m)) /\ h[m + 1] = step(m + 1, h[m])
    BY <1>4, <1>6, <2>2
  <2>4. \A i : i \in 1..(m + 1) <=> i \in 1..m \/ i = m + 1
    OBVIOUS
  <2>5. CASE log[m + 1].actor = a
    <3> DEFINE e == log[m + 1]
    <3>1. \A i : i \in {j \in 1..(m + 1) : log[j].actor = a}
                   <=> i \in {j \in 1..m : log[j].actor = a} \/ i = m + 1
      BY <2>4, <2>5
    <3>2. upto(m + 1) = upto(m) \union {e}
      BY <3>1
    <3>3. Readable(e)
      BY <1>1, <2>2, <2>5 DEF ToSet
    <3>4. h[m + 1] = Observe(h[m], e)
      BY <2>3, <2>5
    <3> HIDE DEF e, upto
    <3> QED
      BY <2>3, <3>2, <3>3, <3>4, ObserveTold
  <2>6. CASE log[m + 1].actor # a
    <3>1. {j \in 1..(m + 1) : log[j].actor = a} = {j \in 1..m : log[j].actor = a}
      BY <2>4, <2>6
    <3>2. upto(m + 1) = upto(m)
      BY <3>1
    <3>3. h[m + 1] = h[m]
      BY <2>3, <2>6
    <3> HIDE DEF upto
    <3> QED
      BY <2>3, <3>2, <3>3
  <2> QED
    BY <2>5, <2>6
<1>7. Told(h[N], upto(N))
  <2>1. N \in T
    <3> HIDE DEF T, N
    <3> QED
      BY <1>1, <1>5, <1>6, Counting
  <2>2. N <= N
    BY <1>1
  <2> HIDE DEF upto, N
  <2> QED
    BY <2>1, <2>2, Zenon
<1>8. Session(log, a) = h[N]
  BY DEF Session, h, Def
<1>9. upto(N) = {e \in ToSet(log) : e.actor = a}
  <2>1. upto(N) = {log[k] : k \in {i \in DOMAIN log : log[i].actor = a}}
    BY <1>1
  <2> HIDE DEF upto
  <2> QED
    BY <2>1 DEF ToSet
<1> HIDE DEF upto, N
<1> QED
  BY <1>7, <1>8, <1>9

-----------------------------------------------------------------------------
(* Requests, and what their events contribute.                             *)

Bodies(r) == IF Attacks(r) # {} /\ r.body # {} THEN {<<r.body>>} ELSE {}

(* No event says more than its request.                                    *)
LEMMA Contributes ==
  ASSUME NEW rid, NEW r \in Requests, NEW e \in ToSet(Emitted(rid, r))
  PROVE  /\ Readable(e)
         /\ UrlsOf(e) \subseteq r.urls /\ OastOf(e) \subseteq Oast(r)
         /\ TokensOf(e) \subseteq Replayed(r) /\ ClassesOf(e) \subseteq Attacks(r)
         /\ BodiesOf(e) \subseteq Bodies(r)
         /\ e.kind = "hunt" \/ Decoys(e) \/ Walks(e) \/ FamiliesOf(e) # {} \/ WebOf(e) # {} => r.probe # NoProbe
         /\ WebOf(e) # {} => WebOf(e) = r.probe.web_attacks
         /\ Decoys(e) => r.probe.decoy_served
         /\ Walks(e) => r.probe.stage
         /\ e.kind = "credential" => Credentials(r) # <<>>
<1>1. CASE e.kind = "hunt"
  <2>1. r.probe # NoProbe /\ e = HuntEvent(rid, r)
    BY <1>1, EventFacts
  <2>2. /\ e.tells.urls = r.urls /\ e.tells.web_attacks = r.probe.web_attacks
        /\ e.tells.decoy_served = r.probe.decoy_served /\ e.tells.stage = r.probe.stage
    BY <2>1 DEF HuntEvent, Event
  <2>3. r.probe.stage \in BOOLEAN /\ r.probe.decoy_served \in BOOLEAN
    BY <2>1, RequestsOK
  <2> QED
    BY <1>1, <2>1, <2>2, <2>3
       DEF Readable, Kinds, UrlsOf, OastOf, TokensOf, ClassesOf, BodiesOf, FamiliesOf, WebOf, Decoys, Walks
<1>2. CASE e.kind = "request"
  <2>1. e = RequestEvent(rid, r)
    BY <1>2, EventFacts
  <2>2. /\ e.tells.urls = r.urls /\ e.tells.oast = Oast(r) /\ e.tells.replayed = Replayed(r)
        /\ e.tells.attacks = Attacks(r) /\ e.tells.bodies = IF r.body = {} THEN {} ELSE {<<r.body>>}
    BY <2>1 DEF RequestEvent, Event
  <2> QED
    BY <1>2, <2>2
       DEF Readable, Kinds, UrlsOf, OastOf, TokensOf, ClassesOf, BodiesOf, FamiliesOf, WebOf, Decoys, Walks, Bodies
<1>3. CASE e.kind = "credential"
  <2>1. Credentials(r) # <<>>
    BY <1>3, EventFacts
  <2> QED
    BY <1>3, <2>1
       DEF Readable, Kinds, UrlsOf, OastOf, TokensOf, ClassesOf, BodiesOf, FamiliesOf, WebOf, Decoys, Walks
<1> QED
  BY <1>1, <1>2, <1>3, EventFacts

(* Together they say all of it.                                            *)
LEMMA RequestTells ==
  ASSUME NEW rid, NEW r \in Requests
  PROVE  LET q == RequestEvent(rid, r) IN
         /\ UrlsOf(q) = r.urls /\ OastOf(q) = Oast(r) /\ TokensOf(q) = Replayed(r)
         /\ ClassesOf(q) = Attacks(r) /\ BodiesOf(q) = Bodies(r)
<1> DEFINE q == RequestEvent(rid, r)
<1>1. /\ q.kind = "request" /\ q.tells.urls = r.urls /\ q.tells.oast = Oast(r)
      /\ q.tells.replayed = Replayed(r) /\ q.tells.attacks = Attacks(r)
      /\ q.tells.bodies = IF r.body = {} THEN {} ELSE {<<r.body>>}
  BY DEF RequestEvent, Event
<1> HIDE DEF q
<1>2. /\ UrlsOf(q) = r.urls /\ OastOf(q) = Oast(r) /\ TokensOf(q) = Replayed(r)
      /\ ClassesOf(q) = Attacks(r) /\ BodiesOf(q) = Bodies(r)
  BY <1>1 DEF UrlsOf, OastOf, TokensOf, ClassesOf, BodiesOf, Bodies
<1> QED
  BY <1>2 DEF q

LEMMA HuntTells ==
  ASSUME NEW rid, NEW r \in Requests, r.probe # NoProbe
  PROVE  LET h == HuntEvent(rid, r) IN
         /\ FamiliesOf(h) # {} /\ WebOf(h) = r.probe.web_attacks
         /\ Decoys(h) <=> r.probe.decoy_served
         /\ Walks(h) <=> r.probe.stage
<1> DEFINE h == HuntEvent(rid, r)
<1>1. /\ h.kind = "hunt" /\ h.tells.web_attacks = r.probe.web_attacks
      /\ h.tells.decoy_served = r.probe.decoy_served /\ h.tells.stage = r.probe.stage
  BY DEF HuntEvent, Event
<1> HIDE DEF h
<1>2. r.probe.stage \in BOOLEAN /\ r.probe.decoy_served \in BOOLEAN
  BY RequestsOK
<1>3. FamiliesOf(h) # {} /\ WebOf(h) = r.probe.web_attacks
  BY <1>1 DEF FamiliesOf, WebOf
<1>4. (Decoys(h) <=> r.probe.decoy_served) /\ (Walks(h) <=> r.probe.stage)
  BY <1>1, <1>2 DEF Decoys, Walks
<1> QED
  BY <1>3, <1>4 DEF h

LEMMA LogEvents ==
  ASSUME LogInv
  PROVE  /\ Log \in Seq(Events)
         /\ \A e : e \in ToSet(Log) <=> \E d \in 1..Days : e \in ToSet(files[d])
<1>1. files \in [1..Days -> Seq(Events)] /\ Days \in Nat
  BY RequestsOK DEF LogInv, TypeOK
<1>2. files \in Seq(Seq(Events)) /\ DOMAIN files = 1..Days
  BY <1>1
<1>3. /\ FlattenSeq(files) \in Seq(Events)
      /\ ToSet(FlattenSeq(files)) = UNION {ToSet(files[d]) : d \in DOMAIN files}
  BY <1>2, ElementsOfFlat
<1>4. \A e : e \in UNION {ToSet(files[d]) : d \in DOMAIN files} <=> \E d \in DOMAIN files : e \in ToSet(files[d])
  BY Zenon
<1> QED
  BY <1>2, <1>3, <1>4 DEF Log

(* The events of an actor, and the requests they come from.                *)
Of(a) == {e \in ToSet(Log) : e.actor = a}

LEMMA ActorEvents ==
  ASSUME LogInv, NEW a \in Actors(Log)
  PROVE  /\ Of(a) # {}
         /\ \A e \in Of(a) : \E r \in Sent(a) : r \in Requests /\ e \in ToSet(Emitted(e.rid, r))
         /\ \A r \in Sent(a) : r \in Requests
         /\ ~lost => \A r \in Sent(a) : \E n \in DOMAIN sent : \A e \in ToSet(Emitted(n, r)) : e \in Of(a)
<1>1. a # <<>> /\ Of(a) # {}
  BY DEF Actors, Of
<1>2. ASSUME NEW e \in Of(a)
      PROVE  \E r \in Sent(a) : r \in Requests /\ e \in ToSet(Emitted(e.rid, r))
  <2>1. PICK d \in 1..Days : e \in ToSet(files[d])
    BY LogEvents DEF Of
  <2>2. e.kind # "identity"
    BY <1>1, <2>1, StoredEvents, VerdictFacts DEF Of
  <2>3. e.rid \in DOMAIN sent /\ sent[e.rid] \in Requests /\ e \in ToSet(Emitted(e.rid, sent[e.rid]))
    BY <2>1, <2>2, StoredEvents
  <2>4. ActorOf(sent[e.rid].client) = a
    BY <2>3, EventFacts DEF Of
  <2>5. sent[e.rid] \in Sent(a)
    BY <2>3, <2>4 DEF Sent, ToSet
  <2> QED
    BY <2>3, <2>5
<1>3. \A r \in Sent(a) : r \in Requests /\ ActorOf(r.client) = a /\ \E n \in DOMAIN sent : r = sent[n]
  BY DEF Sent, ToSet, LogInv, TypeOK
<1>4. ASSUME ~lost, NEW r \in Sent(a)
      PROVE  \E n \in DOMAIN sent : \A e \in ToSet(Emitted(n, r)) : e \in Of(a)
  <2>1. PICK n \in DOMAIN sent : r = sent[n]
    BY <1>3
  <2>2. ASSUME NEW e \in ToSet(Emitted(n, r))
        PROVE  e \in Of(a)
    <3>1. \E d \in 1..Days : e \in ToSet(files[d])
      BY <1>4, <2>1 DEF LogInv, Complete
    <3>2. e \in ToSet(Log)
      BY <3>1, LogEvents
    <3>3. e.actor = a
      BY <1>3, EventFacts
    <3> QED
      BY <3>2, <3>3 DEF Of
  <2> QED
    BY <2>2
<1> QED
  BY <1>1, <1>2, <1>3, <1>4

LEMMA ActorTold ==
  ASSUME LogInv, NEW a \in Actors(Log)
  PROVE  Told(Session(Log, a), Of(a))
<1>1. \A e \in ToSet(Log) : e.actor = a => Readable(e)
  <2>1. SUFFICES ASSUME NEW e \in Of(a) PROVE Readable(e)
    BY DEF Of
  <2>2. PICK r \in Sent(a) : r \in Requests /\ e \in ToSet(Emitted(e.rid, r))
    BY ActorEvents
  <2> QED
    BY <2>2, Contributes
<1> QED
  BY <1>1, LogEvents, SessionTold DEF Of

(* Stages.                                                                 *)

Pays(r) ==
  \/ Attacks(r) # {} \/ Credentials(r) # <<>>
  \/ r.urls \union Replayed(r) # {}
  \/ r.probe # NoProbe /\ r.probe.web_attacks \intersect PayloadAttacks # {}

LEMMA Ranks ==
  ASSUME NEW r \in Requests
  PROVE  /\ Rank(r) \in 0..4
         /\ Rank(r) = 4 <=> Pays(r)
         /\ ~Pays(r) /\ r.probe # NoProbe =>
              Rank(r) = IF r.probe.stage THEN 3 ELSE IF r.probe.decoy_served THEN 2 ELSE 1
         /\ ~Pays(r) /\ r.probe = NoProbe => Rank(r) = 0
BY DEF Rank, Pays

LEMMA Stages ==
  ASSUME NEW s, s.decoy_served \in BOOLEAN, s.walked_multistage \in BOOLEAN
  PROVE  Stage(s) = IF HasPayload(s) THEN 4
                    ELSE IF s.walked_multistage THEN 3
                    ELSE IF s.decoy_served THEN 2
                    ELSE IF s.families \union s.web_attacks # {} THEN 1 ELSE 0
<1>1. HasPayload(s) \in BOOLEAN
  BY DEF HasPayload
<1> QED
  BY <1>1, Zenon DEF Stage

(* A session tells a payload only if a request carried it, and all of it   *)
(* if nothing was lost.                                                    *)
LEMMA PayloadTold ==
  ASSUME LogInv, NEW a \in Actors(Log)
  PROVE  LET s == Session(Log, a) IN
         /\ HasPayload(s) => \E r \in Sent(a) : Pays(r)
         /\ ~lost /\ (\E r \in Sent(a) : Pays(r)) => HasPayload(s)
<1> DEFINE s == Session(Log, a)
           E == Of(a)
<1>1. Told(s, E)
  BY ActorTold
<1>2. \A e \in E : \E r \in Sent(a) : r \in Requests /\ e \in ToSet(Emitted(e.rid, r))
  BY ActorEvents
<1> HIDE DEF s, E
<1>3. ASSUME HasPayload(s)
      PROVE  \E r \in Sent(a) : Pays(r)
  <2>1. \E e \in E : \/ UrlsOf(e) # {} \/ e.kind = "credential" \/ ClassesOf(e) # {} \/ TokensOf(e) # {}
                     \/ WebOf(e) \intersect PayloadAttacks # {}
    <3>1. CASE s.urls # {}
      BY <1>1, <3>1 DEF Told
    <3>2. CASE s.attempts > 0
      BY <1>1, <3>2 DEF Told
    <3>3. CASE s.attack_classes # {}
      BY <1>1, <3>3 DEF Told
    <3>4. CASE s.tokens # {}
      BY <1>1, <3>4 DEF Told
    <3>5. CASE s.web_attacks \intersect PayloadAttacks # {}
      BY <1>1, <3>5 DEF Told
    <3> QED
      BY <1>3, <3>1, <3>2, <3>3, <3>4, <3>5 DEF HasPayload
  <2>2. PICK e \in E : \/ UrlsOf(e) # {} \/ e.kind = "credential" \/ ClassesOf(e) # {} \/ TokensOf(e) # {}
                       \/ WebOf(e) \intersect PayloadAttacks # {}
    BY <2>1
  <2>3. PICK r \in Sent(a) : r \in Requests /\ e \in ToSet(Emitted(e.rid, r))
    BY <1>2
  <2>4. /\ UrlsOf(e) \subseteq r.urls /\ TokensOf(e) \subseteq Replayed(r) /\ ClassesOf(e) \subseteq Attacks(r)
        /\ WebOf(e) # {} => r.probe # NoProbe /\ WebOf(e) = r.probe.web_attacks
        /\ e.kind = "credential" => Credentials(r) # <<>>
    BY <2>3, Contributes
  <2>5. Pays(r)
    BY <2>2, <2>4 DEF Pays
  <2> QED
    BY <2>5
<1>4. ASSUME ~lost, NEW r \in Sent(a), Pays(r)
      PROVE  HasPayload(s)
  <2>1. r \in Requests
    BY ActorEvents
  <2>2. PICK n \in DOMAIN sent : \A e \in ToSet(Emitted(n, r)) : e \in E
    BY <1>4, ActorEvents DEF E
  <2> DEFINE q == RequestEvent(n, r)
             h == HuntEvent(n, r)
  <2>3. q \in E /\ UrlsOf(q) = r.urls /\ TokensOf(q) = Replayed(r) /\ ClassesOf(q) = Attacks(r)
    BY <2>1, <2>2, EventsExist, RequestTells
  <2>4. r.probe # NoProbe => h \in E /\ WebOf(h) = r.probe.web_attacks
    BY <2>1, <2>2, EventsExist, HuntTells
  <2>5. Credentials(r) # <<>> => \E e \in E : e.kind = "credential"
    BY <2>1, <2>2, EventsExist
  <2> HIDE DEF q, h
  <2>6. CASE Attacks(r) # {}
    <3>1. s.attack_classes # {}
      BY <1>1, <2>3, <2>6 DEF Told
    <3> QED
      BY <3>1 DEF HasPayload
  <2>7. CASE Credentials(r) # <<>>
    <3>1. s.attempts > 0
      BY <1>1, <2>5, <2>7 DEF Told
    <3> QED
      BY <3>1 DEF HasPayload
  <2>8. CASE r.urls # {}
    <3>1. s.urls # {}
      BY <1>1, <2>3, <2>8 DEF Told
    <3> QED
      BY <3>1 DEF HasPayload
  <2>9. CASE Replayed(r) # {}
    <3>1. s.tokens # {}
      BY <1>1, <2>3, <2>9 DEF Told
    <3> QED
      BY <3>1 DEF HasPayload
  <2>10. CASE r.probe # NoProbe /\ r.probe.web_attacks \intersect PayloadAttacks # {}
    <3>1. s.web_attacks \intersect PayloadAttacks # {}
      BY <1>1, <2>4, <2>10 DEF Told
    <3> QED
      BY <3>1 DEF HasPayload
  <2> QED
    BY <1>4, <2>6, <2>7, <2>8, <2>9, <2>10 DEF Pays
<1> QED
  BY <1>3, <1>4 DEF s

(* What was seen of the decoys.                                            *)
LEMMA ProbesTold ==
  ASSUME LogInv, NEW a \in Actors(Log)
  PROVE  LET s == Session(Log, a) IN
         /\ s.walked_multistage \in BOOLEAN /\ s.decoy_served \in BOOLEAN
         /\ s.walked_multistage => \E r \in Sent(a) : r.probe # NoProbe /\ r.probe.stage
         /\ s.decoy_served => \E r \in Sent(a) : r.probe # NoProbe /\ r.probe.decoy_served
         /\ s.families \union s.web_attacks # {} => \E r \in Sent(a) : r.probe # NoProbe
         /\ ~lost => \A r \in Sent(a) : r.probe # NoProbe =>
              /\ r.probe.stage => s.walked_multistage
              /\ r.probe.decoy_served => s.decoy_served
              /\ s.families \union s.web_attacks # {}
<1> DEFINE s == Session(Log, a)
           E == Of(a)
<1>1. Told(s, E)
  BY ActorTold
<1>2. \A e \in E : \E r \in Sent(a) : r \in Requests /\ e \in ToSet(Emitted(e.rid, r))
  BY ActorEvents
<1> HIDE DEF s, E
<1>3. /\ s.walked_multistage \in BOOLEAN /\ s.decoy_served \in BOOLEAN
      /\ s.walked_multistage <=> \E e \in E : Walks(e)
      /\ s.decoy_served <=> \E e \in E : Decoys(e)
      /\ s.families = UNION {FamiliesOf(e) : e \in E} /\ s.web_attacks = UNION {WebOf(e) : e \in E}
  BY <1>1 DEF Told
<1>4. ASSUME NEW e \in E
      PROVE  \E r \in Sent(a) :
               /\ Walks(e) => r.probe # NoProbe /\ r.probe.stage
               /\ Decoys(e) => r.probe # NoProbe /\ r.probe.decoy_served
               /\ FamiliesOf(e) # {} \/ WebOf(e) # {} => r.probe # NoProbe
  <2>1. PICK r \in Sent(a) : r \in Requests /\ e \in ToSet(Emitted(e.rid, r))
    BY <1>2
  <2>2. /\ Walks(e) => r.probe # NoProbe /\ r.probe.stage
        /\ Decoys(e) => r.probe # NoProbe /\ r.probe.decoy_served
        /\ FamiliesOf(e) # {} \/ WebOf(e) # {} => r.probe # NoProbe
    BY <2>1, Contributes
  <2> QED
    BY <2>2
<1>5. s.walked_multistage => \E r \in Sent(a) : r.probe # NoProbe /\ r.probe.stage
  BY <1>3, <1>4
<1>6. s.decoy_served => \E r \in Sent(a) : r.probe # NoProbe /\ r.probe.decoy_served
  BY <1>3, <1>4
<1>7. ASSUME s.families \union s.web_attacks # {}
      PROVE  \E r \in Sent(a) : r.probe # NoProbe
  <2>1. PICK e \in E : FamiliesOf(e) # {} \/ WebOf(e) # {}
    BY <1>3, <1>7
  <2> QED
    BY <1>4, <2>1
<1>8. ASSUME ~lost, NEW r \in Sent(a), r.probe # NoProbe
      PROVE  /\ r.probe.stage => s.walked_multistage
             /\ r.probe.decoy_served => s.decoy_served
             /\ s.families \union s.web_attacks # {}
  <2>1. r \in Requests
    BY ActorEvents
  <2>2. PICK n \in DOMAIN sent : \A e \in ToSet(Emitted(n, r)) : e \in E
    BY <1>8, ActorEvents DEF E
  <2> DEFINE h == HuntEvent(n, r)
  <2>3. h \in E /\ FamiliesOf(h) # {} /\ (Decoys(h) <=> r.probe.decoy_served) /\ (Walks(h) <=> r.probe.stage)
    BY <1>8, <2>1, <2>2, EventsExist, HuntTells
  <2> HIDE DEF h
  <2>4. s.families # {}
    BY <1>3, <2>3
  <2> QED
    BY <1>3, <2>3, <2>4
<1> QED
  BY <1>3, <1>5, <1>6, <1>7, <1>8 DEF s

LEMMA GreatestRank ==
  ASSUME NEW R \in SUBSET (0..4), R # {}
  PROVE  Max(R) \in R /\ \A n \in R : n <= Max(R)
<1>1. \E x \in R : \A y \in R : x >= y
  <2>1. CASE 4 \in R
    BY <2>1
  <2>2. CASE 4 \notin R /\ 3 \in R
    BY <2>2
  <2>3. CASE 4 \notin R /\ 3 \notin R /\ 2 \in R
    BY <2>3
  <2>4. CASE 4 \notin R /\ 3 \notin R /\ 2 \notin R /\ 1 \in R
    BY <2>4
  <2>5. CASE 4 \notin R /\ 3 \notin R /\ 2 \notin R /\ 1 \notin R
    <3>1. PICK x \in R : TRUE
      OBVIOUS
    <3>2. \A y \in R : y = 0
      BY <2>5
    <3>3. x = 0 /\ 0 >= 0
      BY <3>2
    <3> QED
      BY <3>2, <3>3
  <2> QED
    BY <2>1, <2>2, <2>3, <2>4, <2>5
<1>2. Max(R) \in R /\ \A y \in R : Max(R) >= y
  BY <1>1 DEF Max
<1> QED
  BY <1>2

(* A session reaches the stage that its furthest request reached, in any   *)
(* order of its requests and over midnight; and when events were lost, no  *)
(* further one.                                                            *)
THEOREM StagesAreEarnedAlways == Spec => []StagesAreEarned
<1>1. ASSUME LogInv, NEW a \in Actors(Log)
      PROVE  LET earned == Max({Rank(r) : r \in Sent(a)})
                 reached == Stage(Session(Log, a))
             IN reached <= earned /\ (~lost => reached = earned)
  <2> DEFINE s == Session(Log, a)
             R == {Rank(r) : r \in Sent(a)}
             payload == HasPayload(s)
             reached == Stage(s)
  <2>1. \A r \in Sent(a) : r \in Requests /\ Rank(r) \in 0..4
    BY <1>1, ActorEvents, Ranks
  <2>2. PICK p \in Sent(a) : TRUE
    BY <1>1, ActorEvents
  <2>3. R \in SUBSET (0..4) /\ R # {}
    BY <2>1, <2>2
  <2>4. /\ payload => \E r \in Sent(a) : Pays(r)
        /\ ~lost /\ (\E r \in Sent(a) : Pays(r)) => payload
    BY <1>1, PayloadTold
  <2>5. /\ s.walked_multistage \in BOOLEAN /\ s.decoy_served \in BOOLEAN
        /\ s.walked_multistage => \E r \in Sent(a) : r.probe # NoProbe /\ r.probe.stage
        /\ s.decoy_served => \E r \in Sent(a) : r.probe # NoProbe /\ r.probe.decoy_served
        /\ s.families \union s.web_attacks # {} => \E r \in Sent(a) : r.probe # NoProbe
        /\ ~lost => \A r \in Sent(a) : r.probe # NoProbe =>
             /\ r.probe.stage => s.walked_multistage
             /\ r.probe.decoy_served => s.decoy_served
             /\ s.families \union s.web_attacks # {}
    BY <1>1, ProbesTold
  <2>6. reached = IF payload THEN 4
                  ELSE IF s.walked_multistage THEN 3
                  ELSE IF s.decoy_served THEN 2
                  ELSE IF s.families \union s.web_attacks # {} THEN 1 ELSE 0
    BY <2>5, Stages
  <2> HIDE DEF s, payload, reached
  <2>7. \E r \in Sent(a) : reached <= Rank(r)
    <3>1. CASE payload
      <4>1. PICK r \in Sent(a) : Pays(r)
        BY <2>4, <3>1
      <4>2. Rank(r) = 4 /\ reached = 4
        BY <2>1, <2>6, <3>1, <4>1, Ranks
      <4> QED
        BY <4>2
    <3>2. CASE ~payload /\ s.walked_multistage
      <4>1. PICK r \in Sent(a) : r.probe # NoProbe /\ r.probe.stage
        BY <2>5, <3>2
      <4>2. Rank(r) \in {3, 4} /\ reached = 3
        BY <2>1, <2>6, <3>2, <4>1, Ranks
      <4> QED
        BY <4>2
    <3>3. CASE ~payload /\ ~s.walked_multistage /\ s.decoy_served
      <4>1. PICK r \in Sent(a) : r.probe # NoProbe /\ r.probe.decoy_served
        BY <2>5, <3>3
      <4>2. Rank(r) \in {2, 3, 4} /\ reached = 2
        BY <2>1, <2>6, <3>3, <4>1, Ranks
      <4> QED
        BY <4>2
    <3>4. CASE ~payload /\ ~s.walked_multistage /\ ~s.decoy_served /\ s.families \union s.web_attacks # {}
      <4>1. PICK r \in Sent(a) : r.probe # NoProbe
        BY <2>5, <3>4
      <4>2. Rank(r) \in {1, 2, 3, 4} /\ reached = 1
        BY <2>1, <2>6, <3>4, <4>1, Ranks
      <4> QED
        BY <4>2
    <3>5. CASE ~payload /\ ~s.walked_multistage /\ ~s.decoy_served /\ s.families \union s.web_attacks = {}
      <4>1. reached = 0 /\ Rank(p) \in 0..4
        BY <2>1, <2>6, <3>5
      <4> QED
        BY <4>1
    <3> QED
      BY <3>1, <3>2, <3>3, <3>4, <3>5
  <2>8. ASSUME ~lost, NEW r \in Sent(a)
        PROVE  Rank(r) <= reached
    <3>1. CASE Pays(r)
      <4>1. Rank(r) = 4 /\ reached = 4
        BY <2>1, <2>4, <2>6, <2>8, <3>1, Ranks
      <4> QED
        BY <4>1
    <3>2. CASE ~Pays(r) /\ r.probe # NoProbe
      <4>1. /\ r.probe.stage => s.walked_multistage
            /\ r.probe.decoy_served => s.decoy_served
            /\ s.families \union s.web_attacks # {}
        BY <2>5, <2>8, <3>2
      <4>2. Rank(r) = IF r.probe.stage THEN 3 ELSE IF r.probe.decoy_served THEN 2 ELSE 1
        BY <2>1, <3>2, Ranks
      <4> QED
        BY <2>6, <4>1, <4>2
    <3>3. CASE ~Pays(r) /\ r.probe = NoProbe
      <4>1. Rank(r) = 0
        BY <2>1, <3>3, Ranks
      <4>2. reached \in 0..4
        BY <2>6
      <4> QED
        BY <4>1, <4>2
    <3> QED
      BY <3>1, <3>2, <3>3
  <2>9. Max(R) \in R /\ \A n \in R : n <= Max(R)
    <3> HIDE DEF R
    <3> QED
      BY <2>3, GreatestRank
  <2>10. reached \in Nat /\ Max(R) \in Nat
    <3>1. Max(R) \in Nat
      <4>1. \A n \in R : n \in Nat
        BY <2>1
      <4> HIDE DEF R
      <4> QED
        BY <2>9, <4>1
    <3> HIDE DEF R
    <3> QED
      BY <2>6, <3>1
  <2>11. reached <= Max(R)
    <3>1. PICK r \in Sent(a) : reached <= Rank(r)
      BY <2>7
    <3>2. Rank(r) \in R /\ Rank(r) \in Nat
      BY <2>1
    <3> HIDE DEF R
    <3>3. Rank(r) <= Max(R)
      BY <2>9, <3>2
    <3> QED
      BY <2>10, <3>1, <3>2, <3>3
  <2>12. ~lost => Max(R) <= reached
    <3>1. PICK r \in Sent(a) : Max(R) = Rank(r)
      BY <2>9
    <3> HIDE DEF R
    <3> QED
      BY <2>8, <3>1
  <2> HIDE DEF R
  <2>13. reached <= Max(R) /\ (~lost => reached = Max(R))
    BY <2>10, <2>11, <2>12
  <2> QED
    BY <2>13 DEF R, reached, s
<1>2. LogInv => StagesAreEarned
  BY <1>1, Zenon DEF StagesAreEarned
<1> QED
  BY <1>2, LogAlways, PTL

(* Joins.                                                                  *)

LEMMA NormalForms ==
  /\ \A v : Normal("url", v) = IF v[2] = NoHost THEN {} ELSE {<<"url", v[2]>>}
  /\ \A v : Normal("host", v) = IF v[2] = NoHost THEN {} ELSE {<<v[2]>>}
  /\ \A v : Normal("sha256", v) = {v} /\ Normal("honeytoken", v) = {v}
BY DEF Normal

(* Which keys a session offers.                                            *)
LEMMA KeysOffered ==
  ASSUME NEW s
  PROVE  /\ \A k \in JoinKeys(s) :
              \/ \E u \in s.urls : u[2] # NoHost /\ k = <<"url", <<"url", u[2]>>>>
              \/ \E u \in s.urls \union s.oast : u[2] # NoHost /\ k = <<"host", <<u[2]>>>>
              \/ \E b \in s.bodies : k = <<"sha256", b>>
              \/ \E t \in s.tokens : k = <<"honeytoken", t>>
         /\ \A u \in s.urls \union s.oast : u[2] # NoHost => <<"host", <<u[2]>>>> \in JoinKeys(s)
         /\ \A b \in s.bodies : <<"sha256", b>> \in JoinKeys(s)
         /\ \A t \in s.tokens : <<"honeytoken", t>> \in JoinKeys(s)
<1>1. ASSUME NEW x \in Raw(s), x[1] \in Strong
      PROVE  \/ \E u \in s.urls : x = <<"url", u>>
             \/ \E u \in s.urls \union s.oast : x = <<"host", u>>
             \/ \E b \in s.bodies : x = <<"sha256", b>>
             \/ \E t \in s.tokens : x = <<"honeytoken", t>>
  <2>1. \/ \E u \in s.urls : x = <<"url", u>>
        \/ \E u \in s.urls \union s.oast : x = <<"host", u>>
        \/ \E b \in s.bodies : x = <<"sha256", b>>
        \/ \E t \in s.tokens : x = <<"honeytoken", t>>
        \/ x[1] \in {"ip", "credential", "tool"}
    BY DEF Raw
  <2> QED
    BY <1>1, <2>1 DEF Strong
<1>2. /\ \A u \in s.urls \union s.oast : <<"host", u>> \in Raw(s)
      /\ \A b \in s.bodies : <<"sha256", b>> \in Raw(s)
      /\ \A t \in s.tokens : <<"honeytoken", t>> \in Raw(s)
  BY DEF Raw
<1>3. ASSUME NEW k \in JoinKeys(s)
      PROVE  \E x \in Raw(s) : \E v \in Normal(x[1], x[2]) : x[1] \in Strong /\ k = <<x[1], v>>
  <2>1. PICK i \in Indicators(s) : i.strength = "strong" /\ k = <<i.type, i.value>>
    BY DEF JoinKeys
  <2>2. PICK x \in Raw(s) : i \in {[type |-> x[1], value |-> v, strength |-> Strength(x[1])] : v \in Normal(x[1], x[2])}
    BY Zenon DEF Indicators
  <2>3. PICK v \in Normal(x[1], x[2]) : i = [type |-> x[1], value |-> v, strength |-> Strength(x[1])]
    BY <2>2
  <2>4. x[1] \in Strong
    BY <2>1, <2>3 DEF Strength
  <2> QED
    BY <2>1, <2>3, <2>4
<1>4. ASSUME NEW type \in Strong, NEW y, <<type, y>> \in Raw(s), NEW v \in Normal(type, y)
      PROVE  <<type, v>> \in JoinKeys(s)
  <2> DEFINE x == <<type, y>>
             i == [type |-> type, value |-> v, strength |-> Strength(type)]
  <2>1. x[1] = type /\ x[2] = y
    OBVIOUS
  <2> DEFINE of(z) == {[type |-> z[1], value |-> w, strength |-> Strength(z[1])] : w \in Normal(z[1], z[2])}
  <2>2. i \in of(x)
    BY <1>4, <2>1
  <2>3. Indicators(s) = UNION {of(z) : z \in Raw(s)}
    BY DEF Indicators
  <2>4. x \in Raw(s)
    BY <1>4
  <2> HIDE DEF i, of, x
  <2>5. i \in Indicators(s)
    BY <2>2, <2>3, <2>4
  <2>6. i.strength = "strong" /\ i.type = type /\ i.value = v
    BY <1>4 DEF i, Strength
  <2> QED
    BY <2>5, <2>6 DEF JoinKeys
<1>5. ASSUME NEW k \in JoinKeys(s)
      PROVE  \/ \E u \in s.urls : u[2] # NoHost /\ k = <<"url", <<"url", u[2]>>>>
             \/ \E u \in s.urls \union s.oast : u[2] # NoHost /\ k = <<"host", <<u[2]>>>>
             \/ \E b \in s.bodies : k = <<"sha256", b>>
             \/ \E t \in s.tokens : k = <<"honeytoken", t>>
  <2>1. PICK x \in Raw(s) : \E v \in Normal(x[1], x[2]) : x[1] \in Strong /\ k = <<x[1], v>>
    BY <1>3
  <2>2. PICK v \in Normal(x[1], x[2]) : x[1] \in Strong /\ k = <<x[1], v>>
    BY <2>1
  <2>3. CASE \E u \in s.urls : x = <<"url", u>>
    <3>1. PICK u \in s.urls : x = <<"url", u>>
      BY <2>3
    <3>2. v \in Normal("url", u) /\ k = <<"url", v>>
      BY <2>2, <3>1
    <3>3. u[2] # NoHost /\ v = <<"url", u[2]>>
      BY <3>2, NormalForms
    <3> QED
      BY <3>2, <3>3
  <2>4. CASE \E u \in s.urls \union s.oast : x = <<"host", u>>
    <3>1. PICK u \in s.urls \union s.oast : x = <<"host", u>>
      BY <2>4
    <3>2. v \in Normal("host", u) /\ k = <<"host", v>>
      BY <2>2, <3>1
    <3>3. u[2] # NoHost /\ v = <<u[2]>>
      BY <3>2, NormalForms
    <3> QED
      BY <3>2, <3>3
  <2>5. CASE \E b \in s.bodies : x = <<"sha256", b>>
    <3>1. PICK b \in s.bodies : x = <<"sha256", b>>
      BY <2>5
    <3>2. v \in Normal("sha256", b) /\ k = <<"sha256", v>>
      BY <2>2, <3>1
    <3> QED
      BY <3>2, NormalForms
  <2>6. CASE \E t \in s.tokens : x = <<"honeytoken", t>>
    <3>1. PICK t \in s.tokens : x = <<"honeytoken", t>>
      BY <2>6
    <3>2. v \in Normal("honeytoken", t) /\ k = <<"honeytoken", v>>
      BY <2>2, <3>1
    <3> QED
      BY <3>2, NormalForms
  <2> QED
    BY <1>1, <2>2, <2>3, <2>4, <2>5, <2>6
<1>6. ASSUME NEW u \in s.urls \union s.oast, u[2] # NoHost
      PROVE  <<"host", <<u[2]>>>> \in JoinKeys(s)
  <2>1. <<u[2]>> \in Normal("host", u) /\ "host" \in Strong
    BY <1>6, NormalForms DEF Strong
  <2> QED
    BY <1>2, <1>4, <2>1
<1>7. ASSUME NEW b \in s.bodies
      PROVE  <<"sha256", b>> \in JoinKeys(s)
  <2>1. b \in Normal("sha256", b) /\ "sha256" \in Strong
    BY NormalForms DEF Strong
  <2> QED
    BY <1>2, <1>4, <2>1
<1>8. ASSUME NEW t \in s.tokens
      PROVE  <<"honeytoken", t>> \in JoinKeys(s)
  <2>1. t \in Normal("honeytoken", t) /\ "honeytoken" \in Strong
    BY NormalForms DEF Strong
  <2> QED
    BY <1>2, <1>4, <2>1
<1> QED
  BY <1>5, <1>6, <1>7, <1>8

(* What a key stands for, and the key of what was delivered.               *)
Meant(k) ==
  IF k[1] = "url" THEN <<"host", k[2][2]>>
  ELSE IF k[1] = "host" THEN <<"host", k[2][1]>>
  ELSE IF k[1] = "sha256" THEN <<"body", k[2][1]>>
  ELSE <<"honeytoken", k[2]>>

KeyTo(x) ==
  IF x[1] = "host" THEN <<"host", <<x[2]>>>>
  ELSE IF x[1] = "body" THEN <<"sha256", <<x[2]>>>>
  ELSE <<"honeytoken", x[2]>>

LEMMA Delivered ==
  ASSUME NEW r, NEW urls
  PROVE  \A x : x \in Delivers(r, urls) <=>
           \/ \E w \in urls \union Oast(r) : w[2] # NoHost /\ x = <<"host", w[2]>>
           \/ \E t \in Replayed(r) : x = <<"honeytoken", t>>
           \/ Attacks(r) # {} /\ r.body # {} /\ x = <<"body", r.body>>
BY DEF Delivers

(* The URLs that are found are among those that are there, and all of them *)
(* where no limit is exceeded.                                             *)
LEMMA FirstOnes ==
  ASSUME NEW S, NEW n, NEW u \in Firsts(S, n)
  PROVE  u \subseteq S /\ (Cardinality(S) <= n => u = S)
BY DEF Firsts

LEMMA ScannedUrls ==
  ASSUME NEW t, NEW u \in Scanned(t)
  PROVE  /\ u \subseteq Held(t, Blobs(t))
         /\ Cardinality(Blobs(t)) <= BlobsMax /\ Cardinality(Held(t, Blobs(t))) <= UrlsMax =>
              u = Held(t, Blobs(t))
<1>1. PICK blobs \in Firsts(Blobs(t), BlobsMax) : u \in Firsts(Held(t, blobs), UrlsMax)
  BY Zenon DEF Scanned
<1>2. blobs \subseteq Blobs(t) /\ (Cardinality(Blobs(t)) <= BlobsMax => blobs = Blobs(t))
  BY <1>1, FirstOnes
<1>3. u \subseteq Held(t, blobs) /\ (Cardinality(Held(t, blobs)) <= UrlsMax => u = Held(t, blobs))
  BY <1>1, FirstOnes
<1>4. Held(t, blobs) \subseteq Held(t, Blobs(t))
  BY <1>2 DEF Held
<1> QED
  BY <1>2, <1>3, <1>4

LEMMA FoundUrls ==
  ASSUME NEW r \in Requests
  PROVE  r.urls \subseteq Brought(r) /\ (Moderate(r) => r.urls = Brought(r))
<1> DEFINE F == {f \in [Texts(r) -> UNION {Scanned(t) : t \in Texts(r)}] :
                  \A t \in Texts(r) : f[t] \in Scanned(t)}
           All(f) == UNION {Foreign(f[t]) : t \in Texts(r)}
<1>1. r.urls \in Findings(r)
  BY RequestsOK
<1>2. Findings(r) = UNION {Firsts(All(f), UrlsMax) : f \in F}
  BY DEF Findings
<1>3. PICK f \in F : r.urls \in Firsts(All(f), UrlsMax)
  <2> HIDE DEF F, All
  <2> QED
    BY <1>1, <1>2
<1>4. \A t \in Texts(r) : f[t] \in Scanned(t)
  OBVIOUS
<1>5. \A t \in Texts(r) : f[t] \subseteq Held(t, Blobs(t))
  BY <1>4, ScannedUrls
<1>6. All(f) \subseteq Brought(r)
  BY <1>5 DEF Brought, Foreign
<1>7. r.urls \subseteq All(f) /\ (Cardinality(All(f)) <= UrlsMax => r.urls = All(f))
  <2> HIDE DEF F, All
  <2> QED
    BY <1>3, FirstOnes
<1>8. ASSUME Moderate(r)
      PROVE  All(f) = Brought(r)
  <2>1. \A t \in Texts(r) : f[t] = Held(t, Blobs(t))
    BY <1>4, <1>8, ScannedUrls DEF Moderate
  <2> QED
    BY <2>1 DEF Brought, Foreign
<1>9. ASSUME Moderate(r)
      PROVE  r.urls = Brought(r)
  <2>1. Cardinality(Brought(r)) <= UrlsMax
    BY <1>9 DEF Moderate
  <2> HIDE DEF All
  <2> QED
    BY <1>7, <1>8, <1>9, <2>1
<1> HIDE DEF All
<1> QED
  BY <1>6, <1>7, <1>9

Sure(r) == IF Moderate(r) THEN Brought(r) ELSE {}

(* Every key was brought by some request.                                  *)
LEMMA KeysBrought ==
  ASSUME LogInv, NEW a \in Actors(Log), NEW k \in JoinKeys(Session(Log, a))
  PROVE  \E r \in Sent(a) : Meant(k) \in Delivers(r, Brought(r))
<1> DEFINE s == Session(Log, a)
           E == Of(a)
<1>1. Told(s, E)
  BY ActorTold
<1>2. \A e \in E : \E r \in Sent(a) : r \in Requests /\ e \in ToSet(Emitted(e.rid, r))
  BY ActorEvents
<1>3. k \in JoinKeys(s)
  OBVIOUS
<1> HIDE DEF s, E
<1>4. ASSUME NEW u \in s.urls \union s.oast, u[2] # NoHost, Meant(k) = <<"host", u[2]>>
      PROVE  \E r \in Sent(a) : Meant(k) \in Delivers(r, Brought(r))
  <2>1. PICK e \in E : u \in UrlsOf(e) \union OastOf(e)
    BY <1>1 DEF Told
  <2>2. PICK r \in Sent(a) : r \in Requests /\ e \in ToSet(Emitted(e.rid, r))
    BY <1>2
  <2>3. UrlsOf(e) \subseteq r.urls /\ OastOf(e) \subseteq Oast(r)
    BY <2>2, Contributes
  <2>4. u \in Brought(r) \union Oast(r)
    BY <2>1, <2>2, <2>3, FoundUrls
  <2> QED
    BY <1>4, <2>4, Delivered
<1>5. CASE \E u \in s.urls : u[2] # NoHost /\ k = <<"url", <<"url", u[2]>>>>
  <2>1. PICK u \in s.urls : u[2] # NoHost /\ k = <<"url", <<"url", u[2]>>>>
    BY <1>5
  <2>2. Meant(k) = <<"host", u[2]>>
    BY <2>1 DEF Meant
  <2> QED
    BY <1>4, <2>1, <2>2
<1>6. CASE \E u \in s.urls \union s.oast : u[2] # NoHost /\ k = <<"host", <<u[2]>>>>
  <2>1. PICK u \in s.urls \union s.oast : u[2] # NoHost /\ k = <<"host", <<u[2]>>>>
    BY <1>6
  <2>2. Meant(k) = <<"host", u[2]>>
    BY <2>1 DEF Meant
  <2> QED
    BY <1>4, <2>1, <2>2
<1>7. CASE \E b \in s.bodies : k = <<"sha256", b>>
  <2>1. PICK b \in s.bodies : k = <<"sha256", b>>
    BY <1>7
  <2>2. PICK e \in E : b \in BodiesOf(e)
    BY <1>1 DEF Told
  <2>3. PICK r \in Sent(a) : r \in Requests /\ e \in ToSet(Emitted(e.rid, r))
    BY <1>2
  <2>4. b \in Bodies(r)
    BY <2>2, <2>3, Contributes
  <2>5. Attacks(r) # {} /\ r.body # {} /\ b = <<r.body>>
    BY <2>4 DEF Bodies
  <2>6. Meant(k) = <<"body", r.body>>
    BY <2>1, <2>5 DEF Meant
  <2> QED
    BY <2>5, <2>6, Delivered
<1>8. CASE \E t \in s.tokens : k = <<"honeytoken", t>>
  <2>1. PICK t \in s.tokens : k = <<"honeytoken", t>>
    BY <1>8
  <2>2. PICK e \in E : t \in TokensOf(e)
    BY <1>1 DEF Told
  <2>3. PICK r \in Sent(a) : r \in Requests /\ e \in ToSet(Emitted(e.rid, r))
    BY <1>2
  <2>4. t \in Replayed(r)
    BY <2>2, <2>3, Contributes
  <2>5. Meant(k) = <<"honeytoken", t>>
    BY <2>1 DEF Meant
  <2> QED
    BY <2>4, <2>5, Delivered
<1> QED
  BY <1>3, <1>5, <1>6, <1>7, <1>8, KeysOffered

(* And when nothing is lost, whatever was brought is a key.                *)
LEMMA KeysKept ==
  ASSUME LogInv, ~lost, NEW a \in Actors(Log), NEW r \in Sent(a), NEW x \in Delivers(r, Sure(r))
  PROVE  KeyTo(x) \in JoinKeys(Session(Log, a))
<1> DEFINE s == Session(Log, a)
           E == Of(a)
<1>1. Told(s, E)
  BY ActorTold
<1>2. r \in Requests
  BY ActorEvents
<1>3. PICK n \in DOMAIN sent : \A e \in ToSet(Emitted(n, r)) : e \in E
  BY ActorEvents
<1> DEFINE q == RequestEvent(n, r)
<1>4. q \in E /\ UrlsOf(q) = r.urls /\ OastOf(q) = Oast(r) /\ TokensOf(q) = Replayed(r) /\ BodiesOf(q) = Bodies(r)
  BY <1>2, <1>3, EventsExist, RequestTells
<1> HIDE DEF s, E, q
<1>5. /\ r.urls \subseteq s.urls /\ Oast(r) \subseteq s.oast
      /\ Replayed(r) \subseteq s.tokens /\ Bodies(r) \subseteq s.bodies
  BY <1>1, <1>4 DEF Told
<1>6. CASE \E w \in Sure(r) \union Oast(r) : w[2] # NoHost /\ x = <<"host", w[2]>>
  <2>1. PICK w \in Sure(r) \union Oast(r) : w[2] # NoHost /\ x = <<"host", w[2]>>
    BY <1>6
  <2>2. Sure(r) \subseteq r.urls
    BY <1>2, FoundUrls DEF Sure
  <2>3. KeyTo(x) = <<"host", <<w[2]>>>> /\ w \in s.urls \union s.oast
    BY <1>5, <2>1, <2>2 DEF KeyTo
  <2> QED
    BY <2>1, <2>3, KeysOffered DEF s
<1>7. CASE \E t \in Replayed(r) : x = <<"honeytoken", t>>
  <2>1. PICK t \in Replayed(r) : x = <<"honeytoken", t>>
    BY <1>7
  <2>2. KeyTo(x) = <<"honeytoken", t>> /\ t \in s.tokens
    BY <1>5, <2>1 DEF KeyTo
  <2> QED
    BY <2>2, KeysOffered DEF s
<1>8. CASE Attacks(r) # {} /\ r.body # {} /\ x = <<"body", r.body>>
  <2>1. <<r.body>> \in s.bodies
    BY <1>5, <1>8 DEF Bodies
  <2>2. KeyTo(x) = <<"sha256", <<r.body>>>>
    BY <1>8 DEF KeyTo
  <2> QED
    BY <2>1, <2>2, KeysOffered DEF s
<1> QED
  BY <1>6, <1>7, <1>8, Delivered

(* Two actors can be joined only if both brought the same thing: a host    *)
(* their payloads point at, an exploit's body, a credential we planted.    *)
(* When nothing is lost, whoever brought the same is joined, but for a     *)
(* host in requests with more URLs or base64 blobs than are taken.         *)
THEOREM JoinsAreEarnedAlways == Spec => []JoinsAreEarned
<1>1. ASSUME LogInv, NEW a \in Actors(Log), NEW b \in Actors(Log)
      PROVE  LET joined == JoinKeys(Session(Log, a)) \intersect JoinKeys(Session(Log, b)) # {}
                 sure(r) == IF Moderate(r) THEN Brought(r) ELSE {}
             IN /\ joined => \E q \in Sent(a), r \in Sent(b) :
                               Delivers(q, Brought(q)) \intersect Delivers(r, Brought(r)) # {}
                /\ ~lost /\ (\E q \in Sent(a), r \in Sent(b) :
                               Delivers(q, sure(q)) \intersect Delivers(r, sure(r)) # {}) => joined
  <2> DEFINE A == JoinKeys(Session(Log, a))
             B == JoinKeys(Session(Log, b))
  <2>1. ASSUME NEW k \in A \intersect B
        PROVE  \E q \in Sent(a), r \in Sent(b) :
                 Delivers(q, Brought(q)) \intersect Delivers(r, Brought(r)) # {}
    <3>1. PICK q \in Sent(a) : Meant(k) \in Delivers(q, Brought(q))
      BY <1>1, KeysBrought
    <3>2. PICK r \in Sent(b) : Meant(k) \in Delivers(r, Brought(r))
      BY <1>1, KeysBrought
    <3> QED
      BY <3>1, <3>2
  <2>2. ASSUME ~lost, NEW q \in Sent(a), NEW r \in Sent(b),
               NEW x \in Delivers(q, Sure(q)) \intersect Delivers(r, Sure(r))
        PROVE  KeyTo(x) \in A \intersect B
    BY <1>1, <2>2, KeysKept
  <2>3. ASSUME ~lost, NEW q \in Sent(a), NEW r \in Sent(b),
               Delivers(q, Sure(q)) \intersect Delivers(r, Sure(r)) # {}
        PROVE  A \intersect B # {}
    BY <2>2, <2>3
  <2> HIDE DEF A, B
  <2>4. /\ A \intersect B # {} => \E q \in Sent(a), r \in Sent(b) :
                                   Delivers(q, Brought(q)) \intersect Delivers(r, Brought(r)) # {}
        /\ ~lost /\ (\E q \in Sent(a), r \in Sent(b) :
                       Delivers(q, Sure(q)) \intersect Delivers(r, Sure(r)) # {}) => A \intersect B # {}
    BY <2>1, <2>3
  <2> QED
    BY <2>4 DEF Sure, A, B
<1>2. LogInv => JoinsAreEarned
  BY <1>1, Zenon DEF JoinsAreEarned
<1> QED
  BY <1>2, LogAlways, PTL

=============================================================================
