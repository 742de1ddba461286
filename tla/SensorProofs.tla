---------------------------- MODULE SensorProofs ----------------------------
(***************************************************************************)
(* What the profiles say, for every log the sensor can leave behind.  A    *)
(* profile is the last value of a recursive function over the log, so the  *)
(* proofs have two layers: lemmas about the profile after each entry, by   *)
(* induction on the entries, and an inductive invariant of the log.        *)
(***************************************************************************)
EXTENDS Sensor, WellFoundedInduction, TLAPS

(* Induction on the natural numbers, for a set instead of a predicate: a   *)
(* number outside of T would have a least one below it.                    *)
LEMMA NatSet ==
  ASSUME NEW T, 0 \in T, \A n \in Nat : n \in T => n + 1 \in T
  PROVE  Nat \subseteq T
<1> DEFINE R == OpToRel(<, Nat)
<1>1. IsWellFoundedOn(R, Nat)  BY NatLessThanWellFounded
<1>2. \A x, y \in Nat : y < x => <<y, x>> \in R  BY DEF OpToRel
<1> HIDE DEF R
<1> DEFINE U == Nat \ T
<1>3. SUFFICES ASSUME U # {} PROVE FALSE  OBVIOUS
<1>4. PICK x \in U : \A y \in U : ~ (<<y, x>> \in R)
  <2>1. U \subseteq Nat OBVIOUS
  <2> HIDE DEF U
  <2> QED BY <1>1, <1>3, <2>1, WFMin
<1>5. x \in Nat /\ x # 0 /\ x - 1 \in Nat /\ x - 1 < x /\ (x - 1) + 1 = x  OBVIOUS
<1>6. x - 1 \in U  BY <1>5
<1> QED BY <1>2, <1>4, <1>5, <1>6

(* A function that gives each number its value from the one before exists. *)
Steps(g, N, St, a, F) ==
  g \in [0..N -> St] /\ g[0] = a /\ \A n \in 1..N : g[n] = F[<<n, g[n - 1]>>]

LEMMA StepFunction ==
  ASSUME NEW N \in Nat, NEW St, NEW a \in St, NEW F \in [(1..N) \X St -> St]
  PROVE  \E g : Steps(g, N, St, a, F)
<1> DEFINE Good(m, g) ==
      g[0] = a /\ \A n \in 1..m : g[n] = F[<<n, g[n - 1]>>]
    T == {m \in Nat : m <= N => \E g \in [0..m -> St] : Good(m, g)}
<1>1. 0 \in T
  <2> DEFINE g == [n \in 0..0 |-> a]
  <2>1. g \in [0..0 -> St]  OBVIOUS
  <2>2. Good(0, g)  OBVIOUS
  <2> QED BY <2>1, <2>2
<1>2. ASSUME NEW m \in Nat, m \in T PROVE m + 1 \in T
  <2>1. SUFFICES ASSUME m + 1 <= N PROVE \E g \in [0..(m + 1) -> St] : Good(m + 1, g)
    OBVIOUS
  <2>2. PICK f \in [0..m -> St] : Good(m, f)  BY <1>2, <2>1
  <2> DEFINE g == [n \in 0..(m + 1) |-> IF n = m + 1 THEN F[<<m + 1, f[m]>>] ELSE f[n]]
  <2>3. m + 1 \in 1..N /\ f[m] \in St  BY <2>1
  <2>4. F[<<m + 1, f[m]>>] \in St  BY <2>3
  <2>5. g \in [0..(m + 1) -> St]
    <3>1. ASSUME NEW n \in 0..(m + 1) PROVE (IF n = m + 1 THEN F[<<m + 1, f[m]>>] ELSE f[n]) \in St
      <4>1. CASE n = m + 1  BY <2>4, <4>1
      <4>2. CASE n # m + 1  BY <4>2
      <4> QED BY <4>1, <4>2
    <3> QED BY <3>1
  <2>6. Good(m + 1, g)
    <3>1. g[0] = a  BY <2>2
    <3>2. ASSUME NEW n \in 1..(m + 1) PROVE g[n] = F[<<n, g[n - 1]>>]
      <4>1. CASE n = m + 1
        <5>1. g[n] = F[<<m + 1, f[m]>>] /\ n - 1 = m /\ m \in 0..(m + 1) /\ m # m + 1  BY <4>1
        <5>2. g[m] = f[m]  BY <5>1
        <5> QED BY <4>1, <5>1, <5>2
      <4>2. CASE n # m + 1
        <5>1. n \in 1..m /\ n \in 0..(m + 1) /\ n - 1 \in 0..(m + 1) /\ n - 1 # m + 1  BY <4>2
        <5>2. g[n] = f[n] /\ g[n - 1] = f[n - 1]  BY <4>2, <5>1
        <5> QED BY <2>2, <5>1, <5>2
      <4> QED BY <4>1, <4>2
    <3> QED BY <3>1, <3>2
  <2> QED BY <2>5, <2>6
<1>3. N \in T  BY <1>1, <1>2, NatSet
<1> QED BY <1>3 DEF Steps

-----------------------------------------------------------------------------
(* What the log holds.                                                     *)

Kinds == {"policy_read", "trap_hit", "request", "credential"}

Entries ==
  [event : [kind : Kinds, rid : Nat, client : Clients, what : Targets], kept : BOOLEAN]

(* An event of a policy file or of a trap path says which standard it is.  *)
Sound(e) ==
  /\ e.event.kind = "policy_read" => \E s \in Policies : e.event.what = Policy(s)
  /\ e.event.kind = "trap_hit" => \E s \in Standards : e.event.what = Trap(s)

Logs == {l \in Seq(Entries) : \A i \in DOMAIN l : Sound(l[i])}

Profiles ==
  [read : SUBSET Standards, mined : SUBSET Standards, disallowed : SUBSET Targets,
   defied : SUBSET Targets, credentials : Nat]

(* An event adds standards and targets to a profile, nothing else.         *)
LEMMA AbsorbedType ==
  ASSUME NEW p \in Profiles, NEW e \in Entries, Sound(e), NEW b \in BOOLEAN
  PROVE  Absorbed(p, e.event, b) \in Profiles
<1> USE ConstantsOK
<1> DEFINE v == e.event
<1>1. v.kind \in Kinds /\ v.what \in Targets  BY DEF Entries
<1>2. CASE v.kind = "policy_read"
  <2>1. v.what[2] \in Standards  BY <1>2 DEF Sound, Policy
  <2> QED BY <1>2, <2>1 DEF Absorbed, Profiles
<1>3. CASE v.kind = "trap_hit"
  <2>1. v.what[2] \in Standards  BY <1>3 DEF Sound, Trap
  <2> QED BY <1>3, <2>1 DEF Absorbed, Profiles
<1>4. CASE v.kind = "request"  BY <1>1, <1>4 DEF Absorbed, Profiles
<1>5. CASE v.kind = "credential"
  <2>1. p.credentials + 1 \in Nat  BY DEF Profiles
  <2> QED BY <1>5, <2>1 DEF Absorbed, Profiles
<1> QED BY <1>1, <1>2, <1>3, <1>4, <1>5 DEF Kinds

(* The profile of a key after each entry of a log.                         *)
After(key, l, g) ==
  /\ g \in [0..Len(l) -> Profiles]
  /\ g[0] = NoProfile
  /\ \A n \in 1..Len(l) :
       g[n] = IF l[n].kept /\ Key(l[n].event) = key
              THEN Absorb(g[n - 1], l[n].event) ELSE g[n - 1]
  /\ Profile(key, l) = g[Len(l)]

(* The profiles after each entry exist, and the last one is the profile.   *)
LEMMA ProfileSteps ==
  ASSUME NEW key, NEW l \in Logs PROVE \E g : After(key, l, g)
<1> DEFINE N == Len(l)
    Takes(n) == l[n].kept /\ Key(l[n].event) = key
    F == [x \in (1..N) \X Profiles |->
            IF Takes(x[1]) THEN Absorb(x[2], l[x[1]].event) ELSE x[2]]
    Def(g) == [n \in 0..N |->
                 IF n = 0 THEN NoProfile
                 ELSE IF Takes(n) THEN Absorb(g[n - 1], l[n].event) ELSE g[n - 1]]
<1>1. N \in Nat /\ \A n \in 1..N : l[n] \in Entries /\ Sound(l[n])  BY DEF Logs
<1>2. NoProfile \in Profiles  BY DEF NoProfile, Profiles
<1>3. F \in [(1..N) \X Profiles -> Profiles]
  <2>1. ASSUME NEW n \in 1..N, NEW p \in Profiles
        PROVE  Absorb(p, l[n].event) \in Profiles
    <3>1. (p.read \intersect Robots # {}) \in BOOLEAN  OBVIOUS
    <3> QED BY <1>1, <3>1, AbsorbedType DEF Absorb
  <2> QED BY <2>1
<1>4. PICK g : Steps(g, N, Profiles, NoProfile, F)
  <2> HIDE DEF F, N
  <2> QED BY <1>1, <1>2, <1>3, StepFunction
<1>5. \A n \in 1..N : F[<<n, g[n - 1]>>]
                       = IF Takes(n) THEN Absorb(g[n - 1], l[n].event) ELSE g[n - 1]
  <2> TAKE n \in 1..N
  <2>1. n - 1 \in 0..N  BY <1>1
  <2>2. <<n, g[n - 1]>> \in (1..N) \X Profiles  BY <1>4, <2>1 DEF Steps
  <2> QED BY <2>2
<1>6. g = Def(g)
  <2>1. \A n \in 0..N : n = 0 \/ (n # 0 /\ n \in 1..N)  BY <1>1
  <2> HIDE DEF F, Takes, N
  <2>2. \A n \in 0..N : g[n] = IF n = 0 THEN NoProfile
          ELSE IF Takes(n) THEN Absorb(g[n - 1], l[n].event) ELSE g[n - 1]
    BY <1>4, <1>5, <2>1 DEF Steps
  <2> QED BY <1>4, <2>2 DEF Steps
<1> DEFINE h == CHOOSE g0 : g0 = Def(g0)
<1>7. h = Def(h)
  <2> HIDE DEF Def
  <2> QED BY <1>6
<1>8. Profile(key, l) = h[N]  BY DEF Profile
<1>9. h \in [0..N -> Profiles]
  <2> DEFINE T == {n \in Nat : n <= N => h[n] \in Profiles}
  <2>1. 0 \in T
    <3>1. 0 \in 0..N  BY <1>1
    <3>2. h[0] = NoProfile  BY <1>7, <3>1
    <3> QED BY <1>2, <3>2
  <2>2. ASSUME NEW n \in Nat, n \in T PROVE n + 1 \in T
    <3>1. SUFFICES ASSUME n + 1 <= N PROVE h[n + 1] \in Profiles  OBVIOUS
    <3>2. n + 1 \in 1..N /\ n + 1 \in 0..N /\ n + 1 # 0 /\ (n + 1) - 1 = n  BY <1>1, <3>1
    <3>3. h[n] \in Profiles  BY <2>2, <3>1
    <3>4. h[n + 1] = IF Takes(n + 1) THEN Absorb(h[n], l[n + 1].event) ELSE h[n]
      <4> HIDE DEF h, N, Takes
      <4> QED BY <1>7, <3>2
    <3>5. Absorb(h[n], l[n + 1].event) \in Profiles
      <4>1. (h[n].read \intersect Robots # {}) \in BOOLEAN  OBVIOUS
      <4> HIDE DEF h, N
      <4> QED BY <1>1, <3>2, <3>3, <4>1, AbsorbedType DEF Absorb
    <3> QED BY <3>3, <3>4, <3>5
  <2> HIDE DEF T, h
  <2>3. Nat \subseteq T  BY <2>1, <2>2, NatSet
  <2>4. \A n \in 0..N : h[n] \in Profiles  BY <2>3, <1>1 DEF T
  <2>5. h = [n \in 0..N |-> h[n]]  BY <1>7
  <2> QED BY <2>4, <2>5
<1>10. After(key, l, h)
  <2>1. h[0] = NoProfile
    <3>1. 0 \in 0..N  BY <1>1
    <3> QED BY <1>7, <3>1
  <2>2. ASSUME NEW n \in 1..N
        PROVE  h[n] = IF Takes(n) THEN Absorb(h[n - 1], l[n].event) ELSE h[n - 1]
    <3>1. n \in 0..N /\ n # 0  BY <1>1
    <3> HIDE DEF h, N, Takes
    <3> QED BY <1>7, <3>1
  <2> HIDE DEF h
  <2> QED BY <1>8, <1>9, <2>1, <2>2 DEF After
<1> QED BY <1>10

-----------------------------------------------------------------------------
(* A smaller profile stays smaller, whatever both absorb: the one branch   *)
(* that looks at what is there is the one for defiance.                    *)

Below(p, q) ==
  /\ p.read \subseteq q.read /\ p.mined \subseteq q.mined
  /\ p.disallowed \subseteq q.disallowed /\ p.defied \subseteq q.defied

LEMMA AbsorbMonotone ==
  ASSUME NEW p \in Profiles, NEW q \in Profiles, Below(p, q),
         NEW e \in Entries, Sound(e)
  PROVE  Below(Absorb(p, e.event), Absorb(q, e.event))
<1> DEFINE v == e.event
<1>1. v.kind \in Kinds  BY DEF Entries
<1>2. p.read \intersect Robots # {} => q.read \intersect Robots # {}  BY DEF Below
<1>3. CASE v.kind = "policy_read"  BY <1>3 DEF Absorb, Absorbed, Profiles, Below
<1>4. CASE v.kind = "trap_hit"  BY <1>4 DEF Absorb, Absorbed, Profiles, Below
<1>5. CASE v.kind = "request"  BY <1>2, <1>5 DEF Absorb, Absorbed, Profiles, Below
<1>6. CASE v.kind = "credential"  BY <1>6 DEF Absorb, Absorbed, Profiles, Below
<1> QED BY <1>1, <1>3, <1>4, <1>5, <1>6 DEF Kinds

(* Nothing is ever taken out of a profile.                                 *)
LEMMA AbsorbGrows ==
  ASSUME NEW p \in Profiles, NEW e \in Entries, Sound(e)
  PROVE  Below(p, Absorb(p, e.event))
<1> DEFINE v == e.event
<1>1. v.kind \in Kinds  BY DEF Entries
<1>2. CASE v.kind = "policy_read"  BY <1>2 DEF Absorb, Absorbed, Profiles, Below
<1>3. CASE v.kind = "trap_hit"  BY <1>3 DEF Absorb, Absorbed, Profiles, Below
<1>4. CASE v.kind = "request"  BY <1>4 DEF Absorb, Absorbed, Profiles, Below
<1>5. CASE v.kind = "credential"  BY <1>5 DEF Absorb, Absorbed, Profiles, Below
<1> QED BY <1>1, <1>2, <1>3, <1>4, <1>5 DEF Kinds

(* What a lossy log says of a client, the whole log says as well.          *)
LEMMA LossyBelowWhole ==
  ASSUME NEW key, NEW l \in Logs, NEW w \in Logs, Len(w) = Len(l),
         \A i \in 1..Len(l) : w[i].event = l[i].event /\ w[i].kept
  PROVE  Below(Profile(key, l), Profile(key, w))
<1>1. PICK g : After(key, l, g)  BY ProfileSteps
<1>2. PICK h : After(key, w, h)  BY ProfileSteps
<1> DEFINE N == Len(l)
    T == {n \in Nat : n <= N => Below(g[n], h[n])}
<1>3. N \in Nat /\ \A n \in 1..N : l[n] \in Entries /\ Sound(l[n])  BY DEF Logs
<1>4. 0 \in T  BY <1>1, <1>2 DEF After, Below
<1>5. ASSUME NEW n \in Nat, n \in T PROVE n + 1 \in T
  <2>1. SUFFICES ASSUME n + 1 <= N PROVE Below(g[n + 1], h[n + 1])  OBVIOUS
  <2>2. n + 1 \in 1..N /\ (n + 1) - 1 = n /\ n \in 0..N  BY <1>3, <2>1
  <2>3. Below(g[n], h[n]) /\ g[n] \in Profiles /\ h[n] \in Profiles
    BY <1>1, <1>2, <1>5, <2>1, <2>2 DEF After
  <2> DEFINE e == l[n + 1]
  <2>4. e \in Entries /\ Sound(e)  BY <1>3, <2>2
  <2>5. g[n + 1] = IF e.kept /\ Key(e.event) = key THEN Absorb(g[n], e.event) ELSE g[n]
    BY <1>1, <2>2 DEF After
  <2>6. h[n + 1] = IF Key(e.event) = key THEN Absorb(h[n], e.event) ELSE h[n]
    BY <1>2, <2>2 DEF After
  <2> HIDE DEF e, N
  <2>7. CASE e.kept /\ Key(e.event) = key
    BY <2>3, <2>4, <2>5, <2>6, <2>7, AbsorbMonotone
  <2>8. CASE ~ e.kept /\ Key(e.event) = key
    <3>1. Below(h[n], h[n + 1])  BY <2>3, <2>4, <2>6, <2>8, AbsorbGrows
    <3> QED BY <2>3, <2>5, <2>8, <3>1 DEF Below
  <2>9. CASE Key(e.event) # key  BY <2>3, <2>5, <2>6, <2>9
  <2> QED BY <2>7, <2>8, <2>9
<1>6. N \in T
  <2> HIDE DEF T
  <2> QED BY <1>3, <1>4, <1>5, NatSet
<1> QED BY <1>1, <1>2, <1>3, <1>6 DEF After

(* In a log where the hit stands just before the request it belongs to,    *)
(* and is kept with it, a trap path among the violations is mined.         *)
HitBeforeRequest(l) ==
  \A i \in DOMAIN l : l[i].event.kind = "request" /\ l[i].event.what[1] = "trap" =>
    /\ i - 1 \in DOMAIN l
    /\ l[i - 1].event.kind = "trap_hit"
    /\ l[i - 1].event.what = l[i].event.what
    /\ l[i - 1].event.client = l[i].event.client
    /\ l[i].kept => l[i - 1].kept

Mined(p) ==
  \A what \in p.disallowed :
    what[1] = "trap" /\ Kind[what[2]] = "prohibition" => what[2] \in p.mined

(* Such a log mines every trap path of a prohibition that was asked for.   *)
LEMMA HitsMine ==
  ASSUME NEW key, NEW l \in Logs, HitBeforeRequest(l)
  PROVE  Mined(Profile(key, l))
<1>1. PICK g : After(key, l, g)  BY ProfileSteps
<1> DEFINE N == Len(l)
    T == {n \in Nat : n <= N => Mined(g[n])}
<1>2. N \in Nat /\ DOMAIN l = 1..N /\ \A n \in 1..N : l[n] \in Entries /\ Sound(l[n])
  BY DEF Logs
<1>3. 0 \in T  BY <1>1 DEF After, Mined, NoProfile
<1>4. ASSUME NEW n \in Nat, n \in T PROVE n + 1 \in T
  <2>1. SUFFICES ASSUME n + 1 <= N PROVE Mined(g[n + 1])  OBVIOUS
  <2>2. n + 1 \in 1..N /\ (n + 1) - 1 = n /\ n \in 0..N  BY <1>2, <2>1
  <2>3. Mined(g[n]) /\ g[n] \in Profiles  BY <1>1, <1>4, <2>1, <2>2 DEF After
  <2> DEFINE e == l[n + 1]
  <2>4. e \in Entries /\ Sound(e) /\ e.event.kind \in Kinds  BY <1>2, <2>2 DEF Entries
  <2>5. g[n + 1] = IF e.kept /\ Key(e.event) = key THEN Absorb(g[n], e.event) ELSE g[n]
    BY <1>1, <2>2 DEF After
  <2>6. SUFFICES ASSUME e.kept, Key(e.event) = key
                 PROVE  Mined(Absorb(g[n], e.event))
    BY <2>3, <2>5
  <2>7. CASE e.event.kind = "request"
    <3>1. SUFFICES ASSUME e.event.what[1] = "trap", Kind[e.event.what[2]] = "prohibition"
                   PROVE  e.event.what[2] \in g[n].mined
      BY <2>3, <2>7 DEF Absorb, Absorbed, Profiles, Mined
    <3>2. /\ n \in 1..N
          /\ l[n].event.kind = "trap_hit"
          /\ l[n].event.what = e.event.what
          /\ l[n].event.client = e.event.client
          /\ l[n].kept
      BY <1>2, <2>2, <2>6, <2>7, <3>1 DEF HitBeforeRequest
    <3>3. Key(l[n].event) = key  BY <2>6, <2>7, <3>2 DEF Key
    <3>4. n - 1 \in 0..N  BY <1>2, <3>2
    <3>5. g[n] = Absorb(g[n - 1], l[n].event) /\ g[n - 1] \in Profiles
      BY <1>1, <3>2, <3>3, <3>4 DEF After
    <3> HIDE DEF e, N
    <3> QED BY <3>1, <3>2, <3>5 DEF Absorb, Absorbed, Profiles
  <2>8. CASE e.event.kind # "request"
    <3>1. Below(g[n], Absorb(g[n], e.event))  BY <2>3, <2>4, AbsorbGrows
    <3>2. Absorb(g[n], e.event).disallowed = g[n].disallowed
      BY <2>3, <2>4, <2>8 DEF Absorb, Absorbed, Profiles, Kinds
    <3> HIDE DEF e, N
    <3> QED BY <2>3, <3>1, <3>2 DEF Below, Mined
  <2> QED BY <2>7, <2>8
<1>5. N \in T
  <2> HIDE DEF T
  <2> QED BY <1>2, <1>3, <1>4, NatSet
<1> QED BY <1>1, <1>2, <1>5 DEF After

(* Every mined standard, and every defied rule, has its events in the log. *)
HitSeen(l, n, s) ==
  \E i \in 1..n :
    l[i].event.kind = "trap_hit" /\ l[i].event.what = Trap(s) /\ Kind[s] = "prohibition"

ReadAt(key, l, i) ==
  Key(l[i].event) = key /\ l[i].event.kind \in {"policy_read", "trap_hit"}

ReadSeen(key, l, n, s) == \E i \in 1..n : ReadAt(key, l, i) /\ l[i].event.what[2] = s

DefianceSeen(key, l, n, what) ==
  \E i, j \in 1..n :
    /\ i < j
    /\ ReadAt(key, l, i) /\ l[i].event.what[2] \in Robots
    /\ Key(l[j].event) = key /\ l[j].event.what = what

Earned(key, l, n, p) ==
  /\ \A s \in p.mined : HitSeen(l, n, s)
  /\ \A s \in p.read : ReadSeen(key, l, n, s)
  /\ \A what \in p.defied : DefianceSeen(key, l, n, what)

(* No profile holds more than the log accounts for.                       *)
LEMMA ProfilesAreEarned ==
  ASSUME NEW key, NEW l \in Logs
  PROVE  Earned(key, l, Len(l), Profile(key, l))
<1>1. PICK g : After(key, l, g)  BY ProfileSteps
<1> DEFINE N == Len(l)
    T == {n \in Nat : n <= N => Earned(key, l, n, g[n])}
<1>2. N \in Nat /\ \A n \in 1..N : l[n] \in Entries /\ Sound(l[n])  BY DEF Logs
<1>3. 0 \in T  BY <1>1 DEF After, Earned, NoProfile
<1>4. ASSUME NEW n \in Nat, n \in T PROVE n + 1 \in T
  <2>1. SUFFICES ASSUME n + 1 <= N PROVE Earned(key, l, n + 1, g[n + 1])  OBVIOUS
  <2>2. n + 1 \in 1..N /\ (n + 1) - 1 = n /\ n \in 0..N  BY <1>2, <2>1
  <2>3. Earned(key, l, n, g[n]) /\ g[n] \in Profiles
    BY <1>1, <1>4, <2>1, <2>2 DEF After
  <2>4. Earned(key, l, n + 1, g[n])
    <3>1. 1..n \subseteq 1..(n + 1)  OBVIOUS
    <3> QED BY <2>3, <3>1 DEF Earned, HitSeen, ReadSeen, DefianceSeen
  <2> DEFINE e == l[n + 1]
             q == Absorb(g[n], e.event)
             s0 == e.event.what[2]
  <2>5. e \in Entries /\ Sound(e) /\ e.event.kind \in Kinds  BY <1>2, <2>2 DEF Entries
  <2>6. g[n + 1] = IF e.kept /\ Key(e.event) = key THEN q ELSE g[n]
    BY <1>1, <2>2 DEF After
  <2>7. SUFFICES ASSUME Key(e.event) = key PROVE Earned(key, l, n + 1, q)
    BY <2>4, <2>6
  <2>8. n + 1 \in 1..(n + 1) /\ \A i \in 1..n : i \in 1..(n + 1) /\ i < n + 1  OBVIOUS
  <2> HIDE DEF N
  <2>9. CASE e.event.kind = "policy_read"
    <3>1. q.read = g[n].read \union {s0} /\ q.mined = g[n].mined /\ q.defied = g[n].defied
      BY <2>3, <2>9 DEF Absorb, Absorbed, Profiles
    <3>2. ReadSeen(key, l, n + 1, s0)  BY <2>7, <2>8, <2>9 DEF ReadSeen, ReadAt
    <3> HIDE DEF q, s0
    <3> QED BY <2>4, <3>1, <3>2 DEF Earned
  <2>10. CASE e.event.kind = "trap_hit"
    <3>1. e.event.what = Trap(s0)  BY <2>5, <2>10 DEF Sound, Trap
    <3>2. /\ q.read = g[n].read \/ q.read = g[n].read \union {s0}
          /\ q.mined = g[n].mined \/ (Kind[s0] = "prohibition" /\ q.mined = g[n].mined \union {s0})
          /\ q.defied = g[n].defied
      BY <2>3, <2>10 DEF Absorb, Absorbed, Profiles
    <3>3. ReadSeen(key, l, n + 1, s0)  BY <2>7, <2>8, <2>10 DEF ReadSeen, ReadAt
    <3>4. Kind[s0] = "prohibition" => HitSeen(l, n + 1, s0)
      BY <2>8, <2>10, <3>1 DEF HitSeen
    <3> HIDE DEF q, s0
    <3> QED BY <2>4, <3>2, <3>3, <3>4 DEF Earned
  <2>11. CASE e.event.kind = "request"
    <3>1. /\ q.read = g[n].read /\ q.mined = g[n].mined
          /\ \/ q.defied = g[n].defied
             \/ g[n].read \intersect Robots # {} /\ q.defied = g[n].defied \union {e.event.what}
      BY <2>3, <2>11 DEF Absorb, Absorbed, Profiles
    <3>2. ASSUME g[n].read \intersect Robots # {}
          PROVE  DefianceSeen(key, l, n + 1, e.event.what)
      <4>1. PICK s \in g[n].read : s \in Robots  BY <3>2
      <4>2. PICK i \in 1..n : ReadAt(key, l, i) /\ l[i].event.what[2] = s
        BY <2>3, <4>1 DEF Earned, ReadSeen
      <4> QED BY <2>7, <2>8, <4>1, <4>2 DEF DefianceSeen
    <3> HIDE DEF q, e
    <3> QED BY <2>4, <3>1, <3>2 DEF Earned
  <2>12. CASE e.event.kind = "credential"
    <3>1. q.read = g[n].read /\ q.mined = g[n].mined /\ q.defied = g[n].defied
      BY <2>3, <2>12 DEF Absorb, Absorbed, Profiles
    <3> HIDE DEF q
    <3> QED BY <2>4, <3>1 DEF Earned
  <2> QED BY <2>5, <2>9, <2>10, <2>11, <2>12 DEF Kinds
<1>5. N \in T
  <2> HIDE DEF T
  <2> QED BY <1>2, <1>3, <1>4, NatSet
<1> QED BY <1>1, <1>2, <1>5 DEF After

-----------------------------------------------------------------------------
(* The invariant of the log.                                               *)

Requests == [client : Clients, target : Targets, cargo : Cargo, phase : {"body", "answered"}]

TypeOK == requests \in Seq(Requests) /\ minted \subseteq Standards /\ log \in Logs

(* A client asks for trap paths that are out, and a hit is for one.        *)
KnownTraps ==
  /\ \A r \in DOMAIN requests :
       requests[r].target[1] = "trap" => requests[r].target[2] \in minted
  /\ \A i \in DOMAIN log : log[i].event.kind = "trap_hit" => log[i].event.what[2] \in minted

(* The trap path of a prohibition is out once its policy file was read.    *)
PolicyRead(s) ==
  \E i \in DOMAIN log : log[i].event.kind = "policy_read" /\ log[i].event.what = Policy(s)

PolicyBehindTrap == \A s \in minted : Kind[s] = "prohibition" => PolicyRead(s)

IInv == TypeOK /\ KnownTraps /\ PolicyBehindTrap /\ HitBeforeRequest(log)

(* A policy target names a policy file, a trap target a standard.          *)
LEMMA TargetShape ==
  ASSUME NEW t \in Targets
  PROVE  /\ t[1] = "policy" => \E s \in Policies : t = Policy(s)
         /\ t[1] = "trap" => \E s \in Standards : t = Trap(s)
BY DEF Targets, Policy, Trap, Page, Health

(* The sequences of at most one element, and what concatenation keeps.     *)
LEMMA OneOrNone ==
  ASSUME NEW S, NEW a \in S
  PROVE  /\ <<>> \in Seq(S) /\ Len(<<>>) = 0
         /\ <<a>> \in Seq(S) /\ Len(<<a>>) = 1 /\ <<a>>[1] = a
OBVIOUS

LEMMA Concatenation ==
  ASSUME NEW S, NEW s \in Seq(S), NEW t \in Seq(S)
  PROVE  /\ s \o t \in Seq(S) /\ Len(s \o t) = Len(s) + Len(t)
         /\ \A k \in 1..Len(s) : (s \o t)[k] = s[k]
         /\ \A k \in 1..Len(t) : (s \o t)[Len(s) + k] = t[k]
OBVIOUS

(* A block has sound events of its own request, and if that is for a trap  *)
(* path, the request event has the hit before it.                          *)
LEMMA BlockShape ==
  ASSUME TypeOK, NEW r \in DOMAIN requests
  PROVE  /\ Block(r) \in Seq([kind : Kinds, rid : Nat, client : Clients, what : Targets])
         /\ \A k \in DOMAIN Block(r) :
              /\ Block(r)[k].client = requests[r].client
              /\ Block(r)[k].what = requests[r].target
              /\ Block(r)[k].kind = "policy_read" => requests[r].target[1] = "policy"
              /\ Block(r)[k].kind = "trap_hit" => requests[r].target[1] = "trap"
              /\ Block(r)[k].kind = "request" /\ requests[r].target[1] = "trap" =>
                   k = 2 /\ Block(r)[1].kind = "trap_hit"
         /\ requests[r].target[1] = "policy" =>
              1 \in DOMAIN Block(r) /\ Block(r)[1].kind = "policy_read"
<1> DEFINE q == requests[r]
           E == [kind : Kinds, rid : Nat, client : Clients, what : Targets]
<1>1. q \in Requests /\ r \in Nat  BY DEF TypeOK
<1>2. \A k \in Kinds : Event(r, k) \in E /\ Event(r, k).kind = k
                        /\ Event(r, k).client = q.client /\ Event(r, k).what = q.target
  BY <1>1 DEF Event, Requests
<1>3. {"policy_read", "trap_hit", "request", "credential"} \subseteq Kinds  BY DEF Kinds
<1>4. CASE q.target = Health
  <2>1. Block(r) = <<>> /\ q.target[1] = "admin"  BY <1>4 DEF Block, Health
  <2> QED BY <2>1
<1>5. CASE q.target # Health
  <2> DEFINE A == Event(r, "policy_read")
             H == Event(r, "trap_hit")
             Q == Event(r, "request")
             C == Event(r, "credential")
  <2>1. /\ A \in E /\ A.kind = "policy_read" /\ A.client = q.client /\ A.what = q.target
        /\ H \in E /\ H.kind = "trap_hit" /\ H.client = q.client /\ H.what = q.target
        /\ Q \in E /\ Q.kind = "request" /\ Q.client = q.client /\ Q.what = q.target
        /\ C \in E /\ C.kind = "credential" /\ C.client = q.client /\ C.what = q.target
    BY <1>2, <1>3
  <2> DEFINE X == HandlerEvents(r)
             Y == CredentialEvents(r)
  <2>2. Block(r) = (X \o <<Q>>) \o Y  BY <1>5 DEF Block
  <2>3. \/ X = <<A>> /\ q.target[1] = "policy"
        \/ X = <<H>> /\ q.target[1] = "trap"
        \/ X = <<>> /\ q.target[1] # "policy" /\ q.target[1] # "trap"
    BY DEF HandlerEvents
  <2>4. Y = <<>> \/ Y = <<C>>  BY DEF CredentialEvents
  <2> HIDE DEF A, H, Q, C, E, X, Y
  <2> HIDE DEF E
  <2>5. /\ X \in Seq(E) /\ (Len(X) = 0 \/ Len(X) = 1)
        /\ q.target[1] = "policy" => Len(X) = 1 /\ X[1] = A
        /\ q.target[1] = "trap" => Len(X) = 1 /\ X[1] = H
        /\ q.target[1] \notin {"policy", "trap"} => Len(X) = 0
    <3>1. A \in E /\ H \in E  BY <2>1
    <3>2. /\ <<>> \in Seq(E) /\ Len(<<>>) = 0
          /\ <<A>> \in Seq(E) /\ Len(<<A>>) = 1 /\ <<A>>[1] = A
          /\ <<H>> \in Seq(E) /\ Len(<<H>>) = 1 /\ <<H>>[1] = H
      BY <3>1, OneOrNone
    <3>3. CASE X = <<A>> /\ q.target[1] = "policy"  BY <3>2, <3>3
    <3>4. CASE X = <<H>> /\ q.target[1] = "trap"  BY <3>2, <3>4
    <3>5. CASE X = <<>> /\ q.target[1] # "policy" /\ q.target[1] # "trap"  BY <3>2, <3>5
    <3> QED BY <2>3, <3>3, <3>4, <3>5
  <2>6. <<Q>> \in Seq(E) /\ Len(<<Q>>) = 1 /\ <<Q>>[1] = Q  BY <2>1
  <2>7. Y \in Seq(E) /\ (Len(Y) = 0 \/ Len(Y) = 1) /\ (Len(Y) = 1 => Y[1] = C)
    <3>1. C \in E  BY <2>1
    <3>2. /\ <<>> \in Seq(E) /\ Len(<<>>) = 0
          /\ <<C>> \in Seq(E) /\ Len(<<C>>) = 1 /\ <<C>>[1] = C
      BY <3>1, OneOrNone
    <3>3. CASE Y = <<>>  BY <3>2, <3>3
    <3>4. CASE Y = <<C>>  BY <3>2, <3>4
    <3> QED BY <2>4, <3>3, <3>4
  <2> DEFINE Z == X \o <<Q>>
  <2>8. /\ Z \in Seq(E) /\ Len(Z) = Len(X) + 1 /\ Z[Len(X) + 1] = Q
        /\ \A k \in 1..Len(X) : Z[k] = X[k]
    BY <2>5, <2>6, Concatenation
  <2> HIDE DEF Z
  <2>9. /\ Z \o Y \in Seq(E) /\ Len(Z \o Y) = Len(X) + 1 + Len(Y)
        /\ \A k \in 1..(Len(X) + 1) : (Z \o Y)[k] = Z[k]
        /\ \A k \in 1..Len(Y) : (Z \o Y)[(Len(X) + 1) + k] = Y[k]
    BY <2>5, <2>7, <2>8, Concatenation
  <2> DEFINE B == Block(r)
  <2>10. B = Z \o Y  BY <2>2 DEF Z
  <2> HIDE DEF B
  <2>11. /\ B \in Seq(E) /\ DOMAIN B = 1..(Len(X) + 1 + Len(Y))
         /\ B[Len(X) + 1] = Q
         /\ \A k \in 1..Len(X) : B[k] = X[k]
         /\ Len(Y) = 1 => B[Len(X) + 2] = C
    <3>1. 1 \in 1..1 /\ Len(X) + 1 \in 1..(Len(X) + 1) /\ (Len(X) + 1) + 1 = Len(X) + 2
          /\ \A k \in 1..Len(X) : k \in 1..(Len(X) + 1)
      BY <2>5
    <3> QED BY <2>7, <2>8, <2>9, <2>10, <3>1
  <2>12. ASSUME NEW k \in DOMAIN B
         PROVE  \/ k = Len(X) + 1 /\ B[k] = Q
                \/ k = Len(X) + 2 /\ B[k] = C
                \/ k = 1 /\ Len(X) = 1 /\ q.target[1] = "policy" /\ B[k] = A
                \/ k = 1 /\ Len(X) = 1 /\ q.target[1] = "trap" /\ B[k] = H
    <3>0. Len(X) \in Nat /\ Len(Y) \in Nat /\ k \in 1..(Len(X) + 1 + Len(Y))
      <4>1. X \in Seq(E) /\ Y \in Seq(E)  BY <2>5, <2>7
      <4>2. Len(X) \in Nat /\ Len(Y) \in Nat  BY <4>1
      <4> QED BY <2>11, <4>2
    <3>1. k \in 1..Len(X) \/ k = Len(X) + 1 \/ (k = Len(X) + 2 /\ Len(Y) = 1)
      <4>1. \A a, b \in Nat : \A j \in 1..(a + 1 + b) : b = 0 \/ b = 1 =>
              j \in 1..a \/ j = a + 1 \/ (j = a + 2 /\ b = 1)
        OBVIOUS
      <4> QED BY <2>7, <3>0, <4>1
    <3>2. k \in 1..Len(X) => k = 1 /\ Len(X) = 1
      <4>1. \A a \in Nat : \A j \in 1..a : a = 0 \/ a = 1 => j = 1 /\ a = 1
        OBVIOUS
      <4> QED BY <2>5, <3>0, <4>1
    <3> QED BY <2>5, <2>11, <3>1, <3>2
  <2>13. q.target[1] = "trap" => B[1] = H
    <3>1. Len(X) = 1 => 1 \in 1..Len(X)  OBVIOUS
    <3> QED BY <2>5, <2>11, <3>1
  <2>14. q.target[1] = "policy" => 1 \in DOMAIN B /\ B[1] = A
    <3>1. Len(X) = 1 => 1 \in 1..Len(X) /\ 1 \in 1..(Len(X) + 1 + Len(Y))  BY <2>7
    <3> QED BY <2>5, <2>11, <3>1
  <2>15. \A k \in DOMAIN B :
           /\ B[k].client = q.client /\ B[k].what = q.target
           /\ B[k].kind = "policy_read" => q.target[1] = "policy"
           /\ B[k].kind = "trap_hit" => q.target[1] = "trap"
           /\ B[k].kind = "request" /\ q.target[1] = "trap" => k = 2 /\ B[1].kind = "trap_hit"
    <3> SUFFICES ASSUME NEW k \in DOMAIN B
                 PROVE  /\ B[k].client = q.client /\ B[k].what = q.target
                        /\ B[k].kind = "policy_read" => q.target[1] = "policy"
                        /\ B[k].kind = "trap_hit" => q.target[1] = "trap"
                        /\ B[k].kind = "request" /\ q.target[1] = "trap" =>
                             k = 2 /\ B[1].kind = "trap_hit"
      OBVIOUS
    <3>1. CASE k = Len(X) + 1 /\ B[k] = Q
      <4>1. q.target[1] = "trap" => k = 2
        <5>1. q.target[1] = "trap" => Len(X) = 1  BY <2>5
        <5>2. Len(X) = 1 => Len(X) + 1 = 2  OBVIOUS
        <5> QED BY <3>1, <5>1, <5>2
      <4> QED BY <2>1, <2>13, <3>1, <4>1
    <3>2. CASE B[k] = C  BY <2>1, <3>2
    <3>3. CASE q.target[1] = "policy" /\ B[k] = A  BY <2>1, <3>3
    <3>4. CASE q.target[1] = "trap" /\ B[k] = H  BY <2>1, <3>4
    <3> QED BY <2>12, <3>1, <3>2, <3>3, <3>4
  <2> QED BY <2>1, <2>11, <2>14, <2>15 DEF B, E
<1> QED BY <1>4, <1>5

(* An answer changes the phase of its request and nothing else.            *)
LEMMA MarkAnswered ==
  ASSUME NEW q \in Seq(Requests), NEW r \in DOMAIN q
  PROVE  LET n == [q EXCEPT ![r].phase = "answered"] IN
         /\ n \in Seq(Requests) /\ DOMAIN n = DOMAIN q
         /\ \A k \in DOMAIN q : n[k].target = q[k].target
<1> DEFINE n == [q EXCEPT ![r].phase = "answered"]
<1>1. DOMAIN q = 1..Len(q) /\ Len(q) \in Nat /\ \A k \in DOMAIN q : q[k] \in Requests
  OBVIOUS
<1>2. DOMAIN n = DOMAIN q  OBVIOUS
<1>3. ASSUME NEW k \in DOMAIN q PROVE n[k] \in Requests /\ n[k].target = q[k].target
  <2>1. CASE k = r
    <3>1. n[k] = [q[k] EXCEPT !.phase = "answered"]  BY <2>1
    <3> QED BY <1>1, <3>1 DEF Requests
  <2>2. CASE k # r  BY <1>1, <2>2
  <2> QED BY <2>1, <2>2
<1>4. n = [k \in 1..Len(q) |-> n[k]]  BY <1>1, <1>2
<1> HIDE DEF n
<1>5. n \in Seq(Requests)  BY <1>1, <1>3, <1>4
<1> QED BY <1>2, <1>3, <1>5 DEF n

(* The invariant holds at the start, and every step keeps it.              *)
LEMMA InitInv == ASSUME ConstantsOK, Init PROVE IInv
BY DEF Init, IInv, TypeOK, KnownTraps, PolicyBehindTrap, HitBeforeRequest, Logs

LEMMA ArriveInv ==
  ASSUME IInv, NEW c \in Clients, NEW target \in Targets, NEW cargo \in Cargo,
         Arrive(c, target, cargo)
  PROVE  IInv'
<1> DEFINE q == [client |-> c, target |-> target, cargo |-> cargo, phase |-> "body"]
<1>1. /\ requests' = Append(requests, q) /\ minted' = minted /\ log' = log
      /\ target[1] = "trap" => target[2] \in minted
  BY DEF Arrive
<1>2. q \in Requests  BY DEF Requests
<1>3. TypeOK'  BY <1>1, <1>2 DEF IInv, TypeOK
<1>4. \A r \in DOMAIN requests' : \/ r \in DOMAIN requests /\ requests'[r] = requests[r]
                                  \/ requests'[r] = q
  BY <1>1, <1>2 DEF IInv, TypeOK
<1>5. KnownTraps'  BY <1>1, <1>4 DEF IInv, KnownTraps
<1>6. PolicyBehindTrap' /\ HitBeforeRequest(log)'
  BY <1>1 DEF IInv, PolicyBehindTrap, PolicyRead, HitBeforeRequest
<1> QED BY <1>3, <1>5, <1>6 DEF IInv

LEMMA ServeInv ==
  ASSUME ConstantsOK, IInv, NEW r \in DOMAIN requests, Serve(r)
  PROVE  IInv'
<1> DEFINE q == requests[r]
           B == Block(r)
           L == Len(log)
<1>1. PICK n \in 0..Len(B) : log' = log \o [i \in DOMAIN B |-> [event |-> B[i], kept |-> i <= n]]
  BY DEF Serve
<1> DEFINE K == [i \in DOMAIN B |-> [event |-> B[i], kept |-> i <= n]]
<1>2. /\ minted' = IF q.target \in DOMAIN Planted THEN minted \union Planted[q.target] ELSE minted
      /\ requests' = [requests EXCEPT ![r].phase = "answered"]
  BY DEF Serve
<1>3. TypeOK /\ KnownTraps /\ PolicyBehindTrap /\ HitBeforeRequest(log)  BY DEF IInv
<1>4. q \in Requests /\ q.target \in Targets
  <2>1. q \in Requests  BY <1>3 DEF TypeOK
  <2> QED BY <2>1 DEF Requests
<1>5. /\ B \in Seq([kind : Kinds, rid : Nat, client : Clients, what : Targets])
      /\ \A k \in DOMAIN B :
           /\ B[k].client = q.client /\ B[k].what = q.target
           /\ B[k].kind = "policy_read" => q.target[1] = "policy"
           /\ B[k].kind = "trap_hit" => q.target[1] = "trap"
           /\ B[k].kind = "request" /\ q.target[1] = "trap" => k = 2 /\ B[1].kind = "trap_hit"
      /\ q.target[1] = "policy" => 1 \in DOMAIN B /\ B[1].kind = "policy_read"
  BY <1>3, BlockShape
<1>6. Len(B) \in Nat /\ DOMAIN B = 1..Len(B) /\ n \in Nat  BY <1>1, <1>5
<1>7. log \in Seq(Entries) /\ L \in Nat /\ \A i \in DOMAIN log : Sound(log[i])
  BY <1>3 DEF TypeOK, Logs
<1> HIDE DEF B, q
<1>8. \A k \in 1..Len(B) : K[k].event = B[k] /\ K[k].kept = (k <= n) /\ K[k] \in Entries /\ Sound(K[k])
  <2> SUFFICES ASSUME NEW k \in 1..Len(B)
               PROVE  K[k].event = B[k] /\ K[k].kept = (k <= n) /\ K[k] \in Entries /\ Sound(K[k])
    OBVIOUS
  <2>1. K[k] = [event |-> B[k], kept |-> k <= n] /\ (k <= n) \in BOOLEAN  BY <1>6
  <2>2. B[k] \in [kind : Kinds, rid : Nat, client : Clients, what : Targets]
    <3> DEFINE E == [kind : Kinds, rid : Nat, client : Clients, what : Targets]
    <3>1. B \in Seq(E)  BY <1>5
    <3> HIDE DEF E
    <3>2. B[k] \in E  BY <1>6, <3>1
    <3> QED BY <3>2 DEF E
  <2>3. K[k] \in Entries  BY <2>1, <2>2 DEF Entries
  <2>4. Sound(K[k])  BY <1>4, <1>5, <1>6, <2>1, TargetShape DEF Sound
  <2> QED BY <2>1, <2>3, <2>4
<1>9. K \in Seq(Entries) /\ Len(K) = Len(B)
  <2>1. K \in [1..Len(B) -> Entries]  BY <1>6, <1>8
  <2> QED BY <1>6, <2>1
<1> HIDE DEF K
<1>10. /\ log' \in Seq(Entries) /\ Len(log') = L + Len(B) /\ DOMAIN log' = 1..(L + Len(B))
       /\ \A i \in 1..L : log'[i] = log[i]
       /\ \A k \in 1..Len(B) : log'[L + k] = K[k]
  BY <1>1, <1>6, <1>7, <1>9 DEF K
<1>11. DOMAIN log = 1..L /\ \A i \in 1..L : i \in 1..(L + Len(B))  BY <1>6, <1>7
<1>12. ASSUME NEW i \in DOMAIN log'
       PROVE  \/ i \in 1..L /\ log'[i] = log[i]
              \/ \E k \in 1..Len(B) : i = L + k /\ log'[i] = K[k]
  <2>1. CASE i \in 1..L  BY <1>10, <2>1
  <2>2. CASE i \notin 1..L
    <3>1. i - L \in 1..Len(B) /\ i = L + (i - L)  BY <1>6, <1>7, <1>10, <2>2
    <3> QED BY <1>10, <3>1
  <2> QED BY <2>1, <2>2
<1>13. log' \in Logs  BY <1>7, <1>8, <1>10, <1>11, <1>12 DEF Logs
<1>14. requests' \in Seq(Requests) /\ DOMAIN requests' = DOMAIN requests
       /\ \A k \in DOMAIN requests : requests'[k].target = requests[k].target
  <2>1. requests \in Seq(Requests)  BY <1>3 DEF TypeOK
  <2> QED BY <1>2, <2>1, MarkAnswered
<1>15. minted' \subseteq Standards /\ minted \subseteq minted'
  BY <1>2, <1>3, ConstantsOK DEF TypeOK, ConstantsOK
<1>16. TypeOK'  BY <1>13, <1>14, <1>15 DEF TypeOK
<1>17. KnownTraps'
  <2>1. \A k \in DOMAIN requests' :
          requests'[k].target[1] = "trap" => requests'[k].target[2] \in minted'
    BY <1>3, <1>14, <1>15 DEF KnownTraps
  <2>2. \A i \in DOMAIN log' :
          log'[i].event.kind = "trap_hit" => log'[i].event.what[2] \in minted'
    <3> SUFFICES ASSUME NEW i \in DOMAIN log', log'[i].event.kind = "trap_hit"
                 PROVE  log'[i].event.what[2] \in minted'
      OBVIOUS
    <3>1. CASE i \in 1..L /\ log'[i] = log[i]
      BY <1>3, <1>11, <1>15, <3>1 DEF KnownTraps
    <3>2. CASE \E k \in 1..Len(B) : i = L + k /\ log'[i] = K[k]
      <4>1. log'[i].event.what = q.target /\ q.target[1] = "trap"
        BY <1>5, <1>6, <1>8, <3>2
      <4>2. q.target[2] \in minted  BY <1>3, <4>1 DEF KnownTraps, q
      <4> QED BY <1>15, <4>1, <4>2
    <3> QED BY <1>12, <3>1, <3>2
  <2> QED BY <2>1, <2>2 DEF KnownTraps
<1>18. PolicyBehindTrap'
  <2> SUFFICES ASSUME NEW s \in minted', Kind[s] = "prohibition" PROVE PolicyRead(s)'
    BY DEF PolicyBehindTrap
  <2>1. CASE s \in minted
    <3>1. PICK i \in DOMAIN log :
            log[i].event.kind = "policy_read" /\ log[i].event.what = Policy(s)
      BY <1>3, <2>1 DEF PolicyBehindTrap, PolicyRead
    <3>2. i \in DOMAIN log' /\ log'[i] = log[i]  BY <1>10, <1>11
    <3> QED BY <3>1, <3>2 DEF PolicyRead
  <2>2. CASE s \notin minted
    <3>1. q.target = Policy(s)
      <4>1. q.target \in DOMAIN Planted /\ s \in Planted[q.target]  BY <1>2, <2>2
      <4>2. s \in Standards  BY <1>15
      <4> QED BY <4>1, <4>2, ConstantsOK DEF ConstantsOK
    <3>2. 1 \in 1..Len(B) /\ B[1].kind = "policy_read" /\ B[1].what = Policy(s)
      BY <1>5, <1>6, <3>1 DEF Policy
    <3>3. L + 1 \in DOMAIN log' /\ log'[L + 1] = K[1]  BY <1>6, <1>7, <1>10, <3>2
    <3>4. log'[L + 1].event = B[1]  BY <1>8, <3>2, <3>3
    <3> QED BY <3>2, <3>3, <3>4 DEF PolicyRead
  <2> QED BY <2>1, <2>2
<1>19. HitBeforeRequest(log')
  <2> SUFFICES ASSUME NEW i \in DOMAIN log',
                      log'[i].event.kind = "request", log'[i].event.what[1] = "trap"
               PROVE  /\ i - 1 \in DOMAIN log'
                      /\ log'[i - 1].event.kind = "trap_hit"
                      /\ log'[i - 1].event.what = log'[i].event.what
                      /\ log'[i - 1].event.client = log'[i].event.client
                      /\ log'[i].kept => log'[i - 1].kept
    BY DEF HitBeforeRequest
  <2>1. CASE i \in 1..L /\ log'[i] = log[i]
    <3>1. /\ i - 1 \in 1..L
          /\ log[i - 1].event.kind = "trap_hit"
          /\ log[i - 1].event.what = log[i].event.what
          /\ log[i - 1].event.client = log[i].event.client
          /\ log[i].kept => log[i - 1].kept
      BY <1>3, <1>11, <2>1 DEF HitBeforeRequest
    <3> QED BY <1>10, <1>11, <2>1, <3>1
  <2>2. CASE \E k \in 1..Len(B) : i = L + k /\ log'[i] = K[k]
    <3>1. PICK k \in 1..Len(B) : i = L + k /\ log'[i] = K[k]  BY <2>2
    <3>2. B[k].kind = "request" /\ B[k].what = q.target /\ q.target[1] = "trap"
      BY <1>5, <1>6, <1>8, <3>1
    <3>3. k = 2 /\ B[1].kind = "trap_hit"  BY <1>5, <1>6, <3>2
    <3>4. 1 \in 1..Len(B) /\ i - 1 = L + 1 /\ i - 1 \in DOMAIN log'
      BY <1>6, <1>7, <1>10, <3>1, <3>3
    <3>5. log'[i - 1] = K[1]  BY <1>10, <3>4
    <3>6. /\ K[1].event = B[1] /\ K[1].kept = (1 <= n)
          /\ K[2].event = B[2] /\ K[2].kept = (2 <= n)
      BY <1>8, <3>3, <3>4
    <3>7. /\ B[1].client = q.client /\ B[1].what = q.target
          /\ B[2].client = q.client /\ B[2].what = q.target
      BY <1>5, <1>6, <3>3, <3>4
    <3>8. 2 <= n => 1 <= n  BY <1>6
    <3>9. log'[i].event = B[2] /\ log'[i].kept = (2 <= n) /\ log'[i - 1].event = B[1]
          /\ log'[i - 1].kept = (1 <= n)
      BY <3>1, <3>3, <3>5, <3>6
    <3> QED BY <3>3, <3>4, <3>7, <3>8, <3>9
  <2> QED BY <1>12, <2>1, <2>2
<1> QED BY <1>16, <1>17, <1>18, <1>19 DEF IInv, HitBeforeRequest

LEMMA ServeAwkwardInv ==
  ASSUME IInv, NEW r \in DOMAIN requests, ServeAwkward(r)
  PROVE  IInv'
<1>1. /\ requests' = [requests EXCEPT ![r].phase = "answered"]
      /\ minted' = minted /\ log' = log
  BY DEF ServeAwkward
<1>2. requests' \in Seq(Requests) /\ DOMAIN requests' = DOMAIN requests
      /\ \A k \in DOMAIN requests : requests'[k].target = requests[k].target
  BY <1>1, MarkAnswered DEF IInv, TypeOK
<1>3. TypeOK'  BY <1>1, <1>2 DEF IInv, TypeOK
<1>4. KnownTraps'  BY <1>1, <1>2 DEF IInv, KnownTraps
<1>5. PolicyBehindTrap' /\ HitBeforeRequest(log)'
  BY <1>1 DEF IInv, PolicyBehindTrap, PolicyRead, HitBeforeRequest
<1> QED BY <1>3, <1>4, <1>5 DEF IInv

LEMMA StepInv == ASSUME ConstantsOK, IInv, [Next]_vars PROVE IInv'
<1>1. ASSUME NEW c \in Clients, NEW target \in Targets, NEW cargo \in Cargo,
             Arrive(c, target, cargo)
      PROVE  IInv'
  BY <1>1, ArriveInv
<1>2. ASSUME NEW r \in DOMAIN requests, Serve(r) PROVE IInv'
  BY <1>2, ServeInv
<1>3. ASSUME NEW r \in DOMAIN requests, ServeAwkward(r) PROVE IInv'
  BY <1>3, ServeAwkwardInv
<1>4. CASE UNCHANGED vars
  BY <1>4 DEF vars, IInv, TypeOK, KnownTraps, PolicyBehindTrap, PolicyRead, HitBeforeRequest
<1> QED BY <1>1, <1>2, <1>3, <1>4 DEF Next

(* The log that the sensor leaves behind is well formed: hits stand before *)
(* their requests, and the policy file before the use of what it held.     *)
THEOREM LogIsWellFormed == Spec => []IInv
<1>1. Init => IInv  BY ConstantsOK, InitInv
<1>2. IInv /\ [Next]_vars => IInv'  BY ConstantsOK, StepInv
<1> QED BY <1>1, <1>2, PTL DEF Spec

(* A kept request for the trap path of a prohibition makes its client a    *)
(* miner, whatever the queue refused.                                      *)
THEOREM TrapsAreMinedAlways == Spec => []TrapsAreMined
<1>1. IInv => TrapsAreMined
  BY HitsMine DEF IInv, TypeOK, TrapsAreMined, Stored, Mined
<1> QED BY <1>1, LogIsWellFormed, PTL

(* A profile of the log as it is says nothing that one of the whole log    *)
(* would not say.                                                          *)
THEOREM LossOnlyHidesAlways == Spec => []LossOnlyHides
<1>1. IInv => LossOnlyHides
  <2> SUFFICES ASSUME IInv PROVE LossOnlyHides  OBVIOUS
  <2> DEFINE w == Emitted
  <2>1. log \in Seq(Entries) /\ Len(log) \in Nat /\ DOMAIN log = 1..Len(log)
        /\ \A i \in DOMAIN log : Sound(log[i])
    BY DEF IInv, TypeOK, Logs
  <2>2. \A i \in 1..Len(log) : w[i].event = log[i].event /\ w[i].kept /\ w[i] \in Entries
    <3> SUFFICES ASSUME NEW i \in 1..Len(log)
                 PROVE  w[i].event = log[i].event /\ w[i].kept /\ w[i] \in Entries
      OBVIOUS
    <3>1. w[i] = [log[i] EXCEPT !.kept = TRUE] /\ log[i] \in Entries  BY <2>1 DEF Emitted
    <3> QED BY <3>1 DEF Entries
  <2>3. w \in [1..Len(log) -> Entries]  BY <2>1, <2>2 DEF Emitted
  <2> HIDE DEF w
  <2>4. w \in Seq(Entries) /\ Len(w) = Len(log) /\ DOMAIN w = 1..Len(log)  BY <2>1, <2>3
  <2>5. w \in Logs /\ log \in Logs  BY <2>1, <2>2, <2>4 DEF Logs, Sound
  <2>6. \A key \in Keys : Below(Profile(key, log), Profile(key, w))
    BY <2>2, <2>4, <2>5, LossyBelowWhole
  <2> QED BY <2>6 DEF LossOnlyHides, Stored, Below, w
<1> QED BY <1>1, LogIsWellFormed, PTL

(* A miner's policy file was served, and a defiant client had read its     *)
(* robots.txt, or used what only robots.txt holds, before the violation.   *)
THEOREM VerdictsAreEarnedAlways == Spec => []VerdictsAreEarned
<1>1. IInv => VerdictsAreEarned
  <2> SUFFICES ASSUME IInv, NEW key \in Keys
               PROVE  LET p == Profile(key, log) IN
                      /\ \A s \in p.mined : \E i \in DOMAIN log :
                           log[i].event.kind = "policy_read" /\ log[i].event.what = Policy(s)
                      /\ \A what \in p.defied : \E i, j \in DOMAIN log :
                           /\ i < j
                           /\ Key(log[i].event) = key
                           /\ log[i].event.kind \in {"policy_read", "trap_hit"}
                           /\ log[i].event.what[2] \in Robots
                           /\ Key(log[j].event) = key /\ log[j].event.what = what
    BY DEF VerdictsAreEarned, Stored
  <2> DEFINE p == Profile(key, log)
  <2>1. log \in Logs /\ DOMAIN log = 1..Len(log)  BY DEF IInv, TypeOK, Logs
  <2>2. Earned(key, log, Len(log), p)  BY <2>1, ProfilesAreEarned
  <2> HIDE DEF p
  <2>3. ASSUME NEW s \in p.mined PROVE PolicyRead(s)
    <3>1. PICK i \in DOMAIN log :
            /\ log[i].event.kind = "trap_hit" /\ log[i].event.what = Trap(s)
            /\ Kind[s] = "prohibition"
      BY <2>1, <2>2 DEF Earned, HitSeen
    <3>2. s \in minted  BY <3>1 DEF IInv, KnownTraps, Trap
    <3> QED BY <3>1, <3>2 DEF IInv, PolicyBehindTrap
  <2>4. ASSUME NEW what \in p.defied
        PROVE  \E i, j \in DOMAIN log :
                 /\ i < j
                 /\ Key(log[i].event) = key
                 /\ log[i].event.kind \in {"policy_read", "trap_hit"}
                 /\ log[i].event.what[2] \in Robots
                 /\ Key(log[j].event) = key /\ log[j].event.what = what
    BY <2>1, <2>2 DEF Earned, DefianceSeen, ReadAt
  <2> QED BY <2>3, <2>4 DEF PolicyRead, p
<1> QED BY <1>1, LogIsWellFormed, PTL

=============================================================================
