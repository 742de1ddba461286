---------------------------- MODULE TrapsProofs -----------------------------
(***************************************************************************)
(* What Traps promises, for any clients, probes, personas, key, window and *)
(* length of the stamp.  First its tokens: what comes back of honeytokens  *)
(* and of beacons tells whom it was given to, and when.  Then the robots   *)
(* rules of Robots: what the parser reads back of the text is the data the *)
(* text was made from, the traps spelled out; what a pattern matches; and  *)
(* so what the two verdicts are, and how they can differ.                  *)
(***************************************************************************)
EXTENDS Traps, WellFoundedInduction, SequenceTheorems, TLAPS

(* A token given out says of itself to whom and when; and its hunt event   *)
(* is on record.                                                           *)
OnRecord(g) ==
  \E h \in log : h.kind = "hunt" /\ h.client = g.client /\ h.at = g.at /\ g.token \in h.issued

Issued(t, c, time) ==
  "key" \in DOMAIN t /\ t.key = Key /\ t.ip = c.ip /\ t.hours = Stamp(time)

GivenTells ==
  \A g \in given : g.at \in Nat /\ g.at <= now /\ Issued(g.token, g.client, g.at) /\ OnRecord(g)

(* A replay is of a token given out by then, and reads its age off it.     *)
Told(f, c) ==
  /\ f.at \in Nat /\ f.same_ip = (f.token.ip = c.ip)
  /\ f.age = Max({0, f.at - f.token.hours * Hour})
  /\ \E g \in given : g.token = f.token /\ g.at <= f.at

ReplaysTold == \A e \in log : e.kind = "request" => \A f \in e.honeytokens : Told(f, e.client)

Inv == now \in Nat /\ GivenTells /\ ReplaysTold

-----------------------------------------------------------------------------
LEMMA MinOfTwo ==
  ASSUME NEW a \in Nat, NEW b \in Nat
  PROVE  Min({a, b}) = IF a <= b THEN a ELSE b
<1> DEFINE m == IF a <= b THEN a ELSE b
<1>1. m \in {a, b} /\ \A y \in {a, b} : m <= y
  OBVIOUS
<1>2. \A n \in {a, b} : (\A y \in {a, b} : n <= y) => n = m
  OBVIOUS
<1> QED
  BY <1>1, <1>2 DEF Min

LEMMA MaxWithZero ==
  ASSUME NEW a \in Int
  PROVE  Max({0, a}) = IF a >= 0 THEN a ELSE 0
<1> DEFINE m == IF a >= 0 THEN a ELSE 0
<1>1. m \in {0, a} /\ \A y \in {0, a} : m >= y
  OBVIOUS
<1>2. \A n \in {0, a} : (\A y \in {0, a} : n >= y) => n = m
  OBVIOUS
<1> QED
  BY <1>1, <1>2 DEF Max

(* The stamp is the hour the time is in, unless that is beyond the largest. *)
LEMMA StampOfTime ==
  ASSUME NEW t \in Nat
  PROVE  /\ Stamp(t) \in Nat /\ Stamp(t) * Hour \in Nat /\ Stamp(t) * Hour <= t
         /\ t \div Hour <= HoursMax => t < Stamp(t) * Hour + Hour
<1>1. Hour \in Nat \ {0} /\ HoursMax \in Nat
  BY ConstantsOK
<1> DEFINE q == t \div Hour
<1>2. q \in Nat /\ q * Hour <= t /\ t < q * Hour + Hour
  BY <1>1
<1> HIDE DEF q
<1>3. Stamp(t) = IF q <= HoursMax THEN q ELSE HoursMax
  <2>1. Min({q, HoursMax}) = IF q <= HoursMax THEN q ELSE HoursMax
    BY <1>1, <1>2, MinOfTwo
  <2> QED
    BY <2>1 DEF Stamp, q
<1>4. CASE q <= HoursMax
  BY <1>1, <1>2, <1>3, <1>4 DEF q
<1>5. CASE ~(q <= HoursMax)
  <2>1. HoursMax * Hour <= q * Hour /\ HoursMax * Hour \in Nat
    BY <1>1, <1>2, <1>5
  <2>2. HoursMax * Hour <= t
    BY <1>1, <1>2, <2>1
  <2> QED
    BY <1>1, <1>3, <1>5, <2>1, <2>2 DEF q
<1> QED
  BY <1>4, <1>5

-----------------------------------------------------------------------------
LEMMA InitInv == Init => Inv
BY DEF Init, Inv, GivenTells, ReplaysTold

(* No event, no token, only time.                                          *)
LEMMA TimePasses == Inv /\ (Tick \/ Restart \/ UNCHANGED vars) => Inv'
<1> SUFFICES ASSUME Inv, Tick \/ Restart \/ UNCHANGED vars
             PROVE  Inv'
  OBVIOUS
<1>1. now \in Nat /\ now' \in Nat /\ now <= now' /\ given' = given /\ log' = log
  BY DEF Inv, Tick, Restart, vars
<1>2. GivenTells'
  BY <1>1 DEF Inv, GivenTells, OnRecord, Issued, Stamp
<1>3. ReplaysTold'
  BY <1>1 DEF Inv, ReplaysTold, Told
<1> QED
  BY <1>1, <1>2, <1>3 DEF Inv

(* What scan_request() finds in what a request can bring.                  *)
LEMMA ReplaysAreTold ==
  ASSUME Inv, NEW c, NEW brought \in Cargo, NEW f \in Replays(c, brought)
  PROVE  Told(f, c)
<1>1. PICK t \in {b \in brought : b.key = Key} :
        f = [token |-> t, at |-> now, age |-> Max({0, now - t.hours * Hour}), same_ip |-> t.ip = c.ip]
  BY DEF Replays
<1>2. PICK g \in given : brought = {g.token} \/ brought = {Forged(g.token)}
  BY <1>1 DEF Cargo
<1>3. g.at <= now /\ "key" \in DOMAIN g.token
  BY DEF Inv, GivenTells, Issued
<1>4. Forged(g.token).key = OtherKey /\ Key # OtherKey
  BY <1>3, ConstantsOK DEF Forged
<1>5. t = g.token
  BY <1>1, <1>2, <1>4
<1> QED
  BY <1>1, <1>3, <1>5 DEF Told, Inv

(* Whatever a handler does, it records what the request brought, and puts  *)
(* the tokens it gives out on record.                                      *)
Handles(c, path, brought, issued, events) ==
  /\ given' = given \union {[token |-> t, client |-> c, at |-> now] : t \in issued}
  /\ \E resource, status : Recorded(c, path, resource, status, brought, events)
  /\ \A e \in events : e.kind # "request"
  /\ \A t \in issued : Issued(t, c, now)
  /\ issued # {} => \E h \in events : h.kind = "hunt" /\ h.client = c /\ h.at = now /\ h.issued = issued

LEMMA HandlesKeeps ==
  ASSUME Inv, NEW c, NEW path, NEW brought \in Cargo, NEW issued, NEW events,
         Handles(c, path, brought, issued, events)
  PROVE  Inv'
<1>1. PICK resource, status : Recorded(c, path, resource, status, brought, events)
  BY DEF Handles
<1> DEFINE request == Request(c, path, resource, status, brought)
<1>2. now' = now /\ now \in Nat /\ log' = log \union events \union {request}
  BY <1>1 DEF Recorded, Inv
<1>3. request.kind = "request" /\ request.client = c /\ request.honeytokens = Replays(c, brought)
  BY DEF Request
<1> HIDE DEF request
<1>4. given \subseteq given' /\ log \subseteq log'
  BY <1>2 DEF Handles
<1>5. GivenTells'
  <2> SUFFICES ASSUME NEW g \in given'
               PROVE  g.at \in Nat /\ g.at <= now' /\ Issued(g.token, g.client, g.at)' /\ OnRecord(g)'
    BY DEF GivenTells
  <2>1. CASE g \in given
    BY <1>2, <1>4, <2>1 DEF Inv, GivenTells, OnRecord, Issued, Stamp
  <2>2. CASE g \notin given
    <3>1. PICK t \in issued : g = [token |-> t, client |-> c, at |-> now]
      BY <2>2 DEF Handles
    <3>2. PICK h \in events : h.kind = "hunt" /\ h.client = c /\ h.at = now /\ h.issued = issued
      BY <3>1 DEF Handles
    <3>3. OnRecord(g)'
      BY <1>2, <3>1, <3>2 DEF OnRecord
    <3>4. Issued(t, c, now)
      BY DEF Handles
    <3> QED
      BY <1>2, <3>1, <3>3, <3>4 DEF Issued, Stamp
  <2> QED
    BY <2>1, <2>2
<1>6. ASSUME NEW f, NEW who, Told(f, who)
      PROVE  Told(f, who)'
  BY <1>4, <1>6 DEF Told
<1>7. ReplaysTold'
  <2> SUFFICES ASSUME NEW e \in log', e.kind = "request", NEW f \in e.honeytokens
               PROVE  Told(f, e.client)'
    BY DEF ReplaysTold
  <2>1. CASE e \in log
    BY <1>6, <2>1 DEF Inv, ReplaysTold
  <2>2. CASE e \in events
    BY <2>2 DEF Handles
  <2>3. CASE e = request
    <3>1. Told(f, c)
      BY <1>3, <2>3, ReplaysAreTold
    <3> QED
      BY <1>3, <1>6, <2>3, <3>1
  <2> QED
    BY <1>2, <2>1, <2>2, <2>3
<1> QED
  BY <1>2, <1>5, <1>7 DEF Inv

LEMMA NothingIssued ==
  ASSUME Inv, NEW c, NEW path, NEW resource, NEW status, NEW brought \in Cargo, NEW events,
         Recorded(c, path, resource, status, brought, events), given' = given,
         \A e \in events : e.kind # "request"
  PROVE  Inv'
<1>1. Handles(c, path, brought, {}, events)
  BY DEF Handles
<1> QED
  BY <1>1, HandlesKeeps

(* Every placeholder is filled with a token of the client, and of now.     *)
LEMMA FilledIssues == \A kinds, c : \A t \in Filled(kinds, c) : Issued(t, c, now)
BY DEF Filled, Honeytoken, Issued

(* A hunt that gives out the tokens it names.                              *)
LEMMA HuntKeeps ==
  ASSUME Inv, NEW c, NEW path, NEW resource, NEW status, NEW brought \in Cargo, NEW issued, NEW on,
         \A t \in issued : Issued(t, c, now),
         given' = given \union {[token |-> t, client |-> c, at |-> now] : t \in issued},
         Recorded(c, path, resource, status, brought, {Hunt(c, path, issued, on)})
  PROVE  Inv'
<1> DEFINE h == Hunt(c, path, issued, on)
<1>1. h.kind = "hunt" /\ h.client = c /\ h.at = now /\ h.issued = issued
  BY DEF Hunt
<1> HIDE DEF h
<1>2. Handles(c, path, brought, issued, {h})
  BY <1>1 DEF Handles, h
<1> QED
  BY <1>2, HandlesKeeps

LEMMA HuntProbeKeeps ==
  ASSUME Inv, NEW c, NEW path, NEW probe, NEW brought \in Cargo, HuntProbe(c, path, probe, brought)
  PROVE  Inv'
<1> DEFINE on == probe.decoy # NoDecoy /\ decoys
           issued == IF on THEN Filled(probe.decoy, c) ELSE {}
           status == IF on THEN 200 ELSE 404
<1>1. /\ given' = given \union {[token |-> t, client |-> c, at |-> now] : t \in issued}
      /\ Recorded(c, path, "hunt", status, brought, {Hunt(c, path, issued, on)})
  BY DEF HuntProbe
<1>2. \A t \in issued : Issued(t, c, now)
  BY FilledIssues
<1> HIDE DEF on, issued, status
<1> QED
  BY <1>1, <1>2, HuntKeeps

LEMMA ReadPolicyKeeps ==
  ASSUME Inv, NEW c, NEW s, NEW brought \in Cargo, ReadPolicy(c, s, brought)
  PROVE  Inv'
<1> DEFINE path == IF s = "robots" THEN RobotsTxt ELSE File(<<>>, s)
           read == [kind |-> "policy_read", client |-> c, path |-> path, standard |-> s,
                    tokens |-> Named(Mint(c, Carries(s)).tokens)]
<1>1. Recorded(c, path, "policy", 200, brought, {read}) /\ given' = given
  BY DEF ReadPolicy
<1>2. \A e \in {read} : e.kind # "request"
  OBVIOUS
<1> HIDE DEF path, read
<1> QED
  BY <1>1, <1>2, NothingIssued

LEMMA ViewKeeps ==
  ASSUME Inv, NEW c, NEW place, NEW brought \in Cargo, View(c, place, brought)
  PROVE  Inv'
<1>1. PICK status : Recorded(c, Planted[place].path, place, status, brought, {})
  BY DEF View
<1>2. given' = given
  BY DEF View
<1> QED
  BY <1>1, <1>2, NothingIssued

LEMMA FetchKeeps ==
  ASSUME Inv, NEW c, NEW path, NEW brought \in Cargo, Fetch(c, path, brought)
  PROVE  Inv'
<1>1. CASE \E t : /\ Recorded(c, path, "trap", 200, brought, {BeaconHit(c, path, t)})
                  /\ given' = given
  <2>1. PICK t : /\ Recorded(c, path, "trap", 200, brought, {BeaconHit(c, path, t)})
                 /\ given' = given
    BY <1>1
  <2>2. \A e \in {BeaconHit(c, path, t)} : e.kind # "request"
    BY DEF BeaconHit
  <2> QED
    BY <2>1, <2>2, NothingIssued
<1>2. CASE \E p : HuntProbe(c, path, p, brought)
  BY <1>2, HuntProbeKeeps
<1>3. CASE Recorded(c, path, "stable", 200, brought, {StableHit(c, path)}) /\ given' = given
  <2>1. \A e \in {StableHit(c, path)} : e.kind # "request"
    BY DEF StableHit
  <2> QED
    BY <1>3, <2>1, NothingIssued
<1>4. CASE Recorded(c, path, "not_found", 404, brought, {}) /\ given' = given
  BY <1>4, NothingIssued
<1> QED
  BY <1>1, <1>2, <1>3, <1>4 DEF Fetch

LEMMA WebAppKeeps ==
  ASSUME Inv, NEW c, NEW path, NEW shapes, NEW probe, NEW brought \in Cargo,
         WebApp(c, path, shapes, probe, brought)
  PROVE  Inv'
<1> DEFINE issued == IF Template(shapes) /\ decoys THEN Filled(probe.decoy, c) ELSE {}
<1>1. /\ given' = given \union {[token |-> t, client |-> c, at |-> now] : t \in issued}
      /\ \E status : Recorded(c, path, "webapp", status, brought, {Hunt(c, path, issued, decoys)})
  BY DEF WebApp
<1>2. \A t \in issued : Issued(t, c, now)
  BY FilledIssues
<1> HIDE DEF issued
<1> QED
  BY <1>1, <1>2, HuntKeeps

LEMMA PersonaKeeps ==
  ASSUME Inv, NEW c, NEW persona, NEW path, NEW brought \in Cargo,
         Workflow(c, persona, path, brought) \/ Service(c, persona, path, brought)
  PROVE  Inv'
<1>1. CASE \E p : HuntProbe(c, path, p, brought)
  BY <1>1, HuntProbeKeeps
<1>2. CASE \E resource, status, on :
             /\ Recorded(c, path, resource, status, brought, {Hunt(c, path, {}, on)})
             /\ given' = given
  <2>1. PICK resource, status, on :
             /\ Recorded(c, path, resource, status, brought, {Hunt(c, path, {}, on)})
             /\ given' = given
    BY <1>2
  <2>2. \A e \in {Hunt(c, path, {}, on)} : e.kind # "request"
    BY DEF Hunt
  <2> QED
    BY <2>1, <2>2, NothingIssued
<1> QED
  BY <1>1, <1>2 DEF Workflow, Service

LEMMA StepInv == Inv /\ [Next]_vars => Inv'
<1> SUFFICES ASSUME Inv, [Next]_vars
             PROVE  Inv'
  OBVIOUS
<1>1. CASE Tick \/ Restart \/ UNCHANGED vars
  BY <1>1, TimePasses
<1>2. ASSUME NEW c \in Clients, NEW brought \in Cargo,
             \/ \E s \in Surfaces : ReadPolicy(c, s, brought)
             \/ \E place \in Places : View(c, place, brought)
             \/ \E path \in Paths : Fetch(c, path, brought)
             \/ \E shapes \in Shapes, i \in DOMAIN Probes :
                  WebApp(c, Probes[i].prefix, shapes, Probes[i], brought)
             \/ \E persona \in Personas : \E path \in persona.asked :
                  Workflow(c, persona, path, brought) \/ Service(c, persona, path, brought)
      PROVE  Inv'
  BY <1>2, ReadPolicyKeeps, ViewKeeps, FetchKeeps, WebAppKeeps, PersonaKeeps
<1> QED
  BY <1>1, <1>2 DEF Next

-----------------------------------------------------------------------------
LEMMA InvTells == Inv => ReplaysTellTheTaker
<1> SUFFICES ASSUME Inv, NEW e \in log, e.kind = "request", NEW f \in e.honeytokens
             PROVE  /\ \E g \in given : g.token = f.token
                    /\ \A g \in given : g.token = f.token =>
                         /\ f.same_ip = (g.client.ip = e.client.ip)
                         /\ g.at <= f.at => f.age >= f.at - g.at
                         /\ g.at \div Hour <= HoursMax => f.age < f.at - g.at + Hour
                         /\ OnRecord(g)
  BY DEF ReplaysTellTheTaker, OnRecord
<1>1. Told(f, e.client)
  BY DEF Inv, ReplaysTold
<1> DEFINE start == f.token.hours * Hour
<1>2. /\ f.at \in Nat /\ f.same_ip = (f.token.ip = e.client.ip)
      /\ f.age = Max({0, f.at - start})
  BY <1>1 DEF Told
<1> HIDE DEF start
<1>3. Hour \in Nat \ {0}
  BY ConstantsOK
<1>4. ASSUME NEW g \in given, g.token = f.token
      PROVE  /\ g.at \in Nat /\ f.token.ip = g.client.ip /\ OnRecord(g)
             /\ start \in Nat /\ start <= g.at /\ (g.at \div Hour <= HoursMax => g.at < start + Hour)
  <2>1. g.at \in Nat /\ f.token.hours = Stamp(g.at) /\ f.token.ip = g.client.ip /\ OnRecord(g)
    BY <1>4 DEF Inv, GivenTells, Issued
  <2>2. start = Stamp(g.at) * Hour
    BY <2>1 DEF start
  <2> QED
    BY <2>1, <2>2, StampOfTime
<1>5. PICK first \in given : first.token = f.token /\ first.at <= f.at
  BY <1>1 DEF Told
<1>6. start \in Nat /\ start <= f.at
  BY <1>2, <1>4, <1>5
<1>7. f.age = f.at - start
  <2>1. f.at - start \in Int /\ f.at - start >= 0
    BY <1>2, <1>6
  <2> QED
    BY <1>2, <2>1, MaxWithZero
<1>8. ASSUME NEW g \in given, g.token = f.token
      PROVE  /\ f.same_ip = (g.client.ip = e.client.ip)
             /\ g.at <= f.at => f.age >= f.at - g.at
             /\ g.at \div Hour <= HoursMax => f.age < f.at - g.at + Hour
             /\ OnRecord(g)
  <2>1. /\ g.at \in Nat /\ f.token.ip = g.client.ip /\ OnRecord(g)
        /\ start <= g.at /\ (g.at \div Hour <= HoursMax => g.at < start + Hour)
    BY <1>4, <1>8
  <2>2. f.same_ip = (g.client.ip = e.client.ip)
    BY <1>2, <2>1
  <2>3. g.at <= f.at => f.age >= f.at - g.at
    BY <1>2, <1>6, <1>7, <2>1
  <2>4. g.at \div Hour <= HoursMax => f.age < f.at - g.at + Hour
    BY <1>2, <1>3, <1>6, <1>7, <2>1
  <2> QED
    BY <2>1, <2>2, <2>3, <2>4
<1> QED
  BY <1>5, <1>8

(* A honeytoken that comes back is one of those that the hunt handlers     *)
(* gave out; every time it went out is on record as issued to the client   *)
(* that took it; same_ip compares with that client; and the age is right   *)
(* to the hour, and too great only once the stamp has reached its largest  *)
(* value.  For any clients, probes, personas, hours and key, however the   *)
(* tokens are forged on their way and how often the process restarts.      *)
THEOREM ReplaysTellTheTakerAlways == Spec => []ReplaysTellTheTaker
<1>1. Spec => []Inv
  BY InitInv, StepInv, PTL DEF Spec
<1> QED
  BY <1>1, InvTells, PTL

-----------------------------------------------------------------------------
(* Beacons.  Each says of itself to whom and when it was minted; it goes   *)
(* out again, from the cache, to the same client and within the window.    *)

Ips == {c.ip : c \in Clients}
Agents == {c.ua : c \in Clients}
Beacons ==
  [standard : Standards, ip : Ips, ua : Agents, ts : Nat, key : {Key}, canonical : {TRUE}]

(* The beacons of some standards that a client may be given at a time.     *)
Fit(c, time, standards) ==
  {t \in Beacons : /\ t.standard \in standards /\ t.ip = c.ip /\ t.ua = c.ua
                   /\ t.ts <= time /\ time <= t.ts + Window}

CacheFits(entries, time) ==
  \A k \in DOMAIN entries :
    /\ entries[k] \in Beacons /\ entries[k].ts <= time
    /\ k = <<entries[k].standard, entries[k].ip, entries[k].ua>>

(* The event of a policy read that names the beacon.                       *)
ReadOnRecord(t) ==
  \E r \in log : /\ r.kind = "policy_read" /\ t \in r.tokens
                 /\ r.client = [ip |-> t.ip, ua |-> t.ua]

ServedTells ==
  \A x \in served :
    /\ x.at \in Nat /\ x.at <= now /\ x.client \in Clients
    /\ x.token \in Fit(x.client, x.at, Standards)
    /\ x.token.standard \in Capabilities \/ ReadOnRecord(x.token)

(* A hit is by a beacon that went out, and reads off it what it says.      *)
HitTold(e) ==
  /\ e.at \in Nat /\ e.delay = e.at - e.token.ts
  /\ e.standard = e.token.standard
  /\ e.same_ip = (e.token.ip = e.client.ip) /\ e.same_ua = (e.token.ua = e.client.ua)
  /\ \E x \in served : x.token = e.token

BeaconInv ==
  /\ now \in Nat
  /\ CacheFits(cache, now)
  /\ ServedTells
  /\ \A e \in Hits : HitTold(e)

-----------------------------------------------------------------------------
(* Minting.                                                                *)

LEMMA SweptIsPart ==
  ASSUME NEW entries
  PROVE  /\ DOMAIN Swept(entries) \subseteq DOMAIN entries
         /\ \A k \in DOMAIN Swept(entries) : Swept(entries)[k] = entries[k]
BY DEF Swept, Restrict

(* What is minted so far fits the client, and so does what is cached.      *)
Fitting(m, c, standards) ==
  /\ m = [tokens |-> m.tokens, cache |-> m.cache]
  /\ m.tokens \in Seq(Fit(c, now, standards)) /\ CacheFits(m.cache, now)

LEMMA OneFits ==
  ASSUME now \in Nat, NEW c \in Clients, NEW standards \in SUBSET Standards, NEW s \in standards,
         NEW m, Fitting(m, c, standards)
  PROVE  Fitting(MintOne(m, c, s), c, standards)
<1> DEFINE k == CacheKey(s, c)
<1>1. Window \in Nat  BY ConstantsOK
<1>2. CASE Window > 0 /\ k \in DOMAIN m.cache /\ now - m.cache[k].ts < Window
  <2> DEFINE t == m.cache[k]
  <2>1. t \in Beacons /\ t.ts <= now /\ k = <<t.standard, t.ip, t.ua>>
    BY <1>2 DEF Fitting, CacheFits
  <2>2. t.standard = s /\ t.ip = c.ip /\ t.ua = c.ua
    BY <2>1 DEF CacheKey
  <2>3. t.ts \in Nat
    BY <2>1 DEF Beacons
  <2>4. now <= t.ts + Window
    BY <1>1, <1>2, <2>3
  <2>5. t \in Fit(c, now, standards)
    BY <2>1, <2>2, <2>4 DEF Fit
  <2>6. MintOne(m, c, s) = [m EXCEPT !.tokens = Append(@, t)]
    BY <1>2 DEF MintOne
  <2> HIDE DEF t, k
  <2>7. Append(m.tokens, t) \in Seq(Fit(c, now, standards))
    BY <2>5 DEF Fitting
  <2>8. MintOne(m, c, s) = [tokens |-> Append(m.tokens, t), cache |-> m.cache]
    BY <2>6 DEF Fitting
  <2> QED
    BY <2>7, <2>8 DEF Fitting
<1>3. CASE ~(Window > 0 /\ k \in DOMAIN m.cache /\ now - m.cache[k].ts < Window)
  <2> DEFINE t == Beacon(s, c)
  <2>1. t \in Beacons /\ t.standard = s /\ t.ip = c.ip /\ t.ua = c.ua /\ t.ts = now
    BY DEF Beacon, Beacons, Ips, Agents
  <2> DEFINE entries == IF Window = 0 THEN m.cache ELSE Storing(t, k, Swept(m.cache))
  <2>2. MintOne(m, c, s) = [tokens |-> Append(m.tokens, t), cache |-> entries]
    BY <1>3 DEF MintOne
  <2> HIDE DEF t
  <2>3. t \in Fit(c, now, standards)
    BY <1>1, <2>1 DEF Fit
  <2>4. CacheFits(entries, now)
    <3>1. CASE Window = 0
      BY <3>1 DEF Fitting
    <3>2. CASE Window # 0
      <4> SUFFICES ASSUME NEW j \in DOMAIN entries
                   PROVE  /\ entries[j] \in Beacons /\ entries[j].ts <= now
                          /\ j = <<entries[j].standard, entries[j].ip, entries[j].ua>>
        BY DEF CacheFits
      <4>1. entries = Storing(t, k, Swept(m.cache))
        BY <3>2
      <4> HIDE DEF entries, k
      <4>2. CASE j = k
        <5>1. entries[j] = t
          BY <4>1, <4>2 DEF Storing
        <5>2. k = <<t.standard, t.ip, t.ua>>
          BY <2>1 DEF CacheKey, k
        <5> QED
          BY <2>1, <4>2, <5>1, <5>2
      <4>3. CASE j # k
        <5>1. j \in DOMAIN Swept(m.cache) /\ entries[j] = Swept(m.cache)[j]
          BY <4>1, <4>3 DEF Storing
        <5>2. j \in DOMAIN m.cache /\ entries[j] = m.cache[j]
          BY <5>1, SweptIsPart
        <5> QED
          BY <5>2 DEF Fitting, CacheFits
      <4> QED
        BY <4>2, <4>3
    <3> QED
      BY <3>1, <3>2
  <2> HIDE DEF entries
  <2>5. Append(m.tokens, t) \in Seq(Fit(c, now, standards))
    BY <2>3 DEF Fitting
  <2> QED
    BY <2>2, <2>4, <2>5 DEF Fitting
<1> QED
  BY <1>2, <1>3

(* No file and no page has more than two beacons.                          *)
LEMMA MintUnfolds ==
  ASSUME NEW c, NEW standards, Len(standards) \in 0..2
  PROVE  LET none == [tokens |-> <<>>, cache |-> cache]
             first == MintOne(none, c, standards[1]) IN
         Mint(c, standards) = CASE Len(standards) = 0 -> none
                                [] Len(standards) = 1 -> first
                                [] Len(standards) = 2 -> MintOne(first, c, standards[2])
<1> DEFINE N == Len(standards)
           none == [tokens |-> <<>>, cache |-> cache]
           first == MintOne(none, c, standards[1])
           second == MintOne(first, c, standards[2])
           Def(g) == [n \in 0..N |-> IF n = 0 THEN none ELSE MintOne(g[n - 1], c, standards[n])]
           h == [n \in 0..N |-> IF n = 0 THEN none ELSE IF n = 1 THEN first ELSE second]
           after == CHOOSE g : g = Def(g)
<1>1. Mint(c, standards) = after[N]
  BY DEF Mint
<1>2. h = Def(h)
  <2>1. ASSUME NEW n \in 0..N
        PROVE  h[n] = IF n = 0 THEN none ELSE MintOne(h[n - 1], c, standards[n])
    <3>1. CASE n = 0
      BY <3>1
    <3>2. CASE n = 1
      <4>1. h[1] = first /\ h[0] = none
        BY <3>2
      <4> QED
        BY <3>2, <4>1
    <3>3. CASE n = 2
      <4>1. h[2] = second /\ h[1] = first
        BY <3>3
      <4> QED
        BY <3>3, <4>1
    <3> QED
      BY <3>1, <3>2, <3>3
  <2> QED
    BY <2>1
<1>3. after = Def(after)
  <2> HIDE DEF h, Def
  <2> QED
    BY <1>2
<1> HIDE DEF after, h, none, first, second
<1>4. after[0] = none
  BY <1>3
<1>5. N >= 1 => after[1] = first
  BY <1>3, <1>4 DEF first
<1>6. N = 2 => after[2] = second
  BY <1>3, <1>5 DEF second
<1> QED
  BY <1>1, <1>4, <1>5, <1>6 DEF first, second, none

LEMMA MintFits ==
  ASSUME BeaconInv, NEW c \in Clients, NEW standards \in SUBSET Standards,
         NEW list \in Seq(standards), Len(list) \in 0..2
  PROVE  Fitting(Mint(c, list), c, standards)
<1> DEFINE none == [tokens |-> <<>>, cache |-> cache]
           first == MintOne(none, c, list[1])
<1>1. now \in Nat /\ CacheFits(cache, now)
  BY DEF BeaconInv
<1>2. Fitting(none, c, standards)
  BY <1>1 DEF Fitting
<1> HIDE DEF none
<1>3. Len(list) >= 1 => list[1] \in standards
  OBVIOUS
<1>4. Len(list) = 2 => list[2] \in standards
  OBVIOUS
<1>5. Len(list) >= 1 => Fitting(first, c, standards)
  BY <1>1, <1>2, <1>3, OneFits
<1> HIDE DEF first
<1>6. Len(list) = 2 => Fitting(MintOne(first, c, list[2]), c, standards)
  BY <1>1, <1>4, <1>5, OneFits
<1>7. Mint(c, list) = CASE Len(list) = 0 -> none
                        [] Len(list) = 1 -> first
                        [] Len(list) = 2 -> MintOne(first, c, list[2])
  BY MintUnfolds DEF none, first
<1> QED
  BY <1>2, <1>5, <1>6, <1>7

-----------------------------------------------------------------------------
(* Paths: the only genuine token in one is one that went out.              *)

LEMMA MinIsMember ==
  ASSUME NEW T \in SUBSET Nat, T # {}
  PROVE  Min(T) \in T
<1> DEFINE R == OpToRel(<, Nat)
<1>1. IsWellFoundedOn(R, Nat)
  BY NatLessThanWellFounded
<1>2. \A x, y \in Nat : y < x => <<y, x>> \in R
  BY DEF OpToRel
<1> HIDE DEF R
<1>3. PICK x \in T : \A y \in T : ~ (<<y, x>> \in R)
  BY <1>1, WFMin
<1>4. \A y \in T : x <= y
  <2> TAKE y \in T
  <2>1. x \in Nat /\ y \in Nat /\ ~ (y < x)
    BY <1>2, <1>3
  <2> QED
    BY <2>1
<1> QED
  BY <1>4 DEF Min

Names == Standards \union {"/", "leaf", "internal", "private", "reserved", "docs", "restricted",
                           "archive", "team", "assets"}
Plain == {<<n>> : n \in Names}

LEMMA PlainIsNoToken == \A a \in Plain : a[1] # "token"
<1>1. "token" \notin Names
  BY DEF Names, Standards, Prohibitions, Invitations, Capabilities, Controls
<1> QED
  BY <1>1 DEF Plain

LEMMA DirsAreNames == \A s \in Standards : TrapDir(s) \in Seq(Names)
<1> SUFFICES ASSUME NEW s \in Standards
             PROVE  TrapDir(s) \in Seq(Names)
  OBVIOUS
<1>1. \A a, b \in Names : <<a>> \in Seq(Names) /\ <<a, b>> \in Seq(Names)
  OBVIOUS
<1>2. {"internal", "private", "reserved", "docs", "restricted", "archive", "team", "assets"}
        \subseteq Names
  BY DEF Names
<1>3. TrapDir(s) \in {<<"internal">>, <<"private">>, <<"reserved">>, <<"docs", "restricted">>,
                      <<"archive">>, <<"team">>, <<"assets">>}
  BY DEF TrapDir, Standards, Prohibitions, Invitations, Capabilities, Controls
<1> HIDE DEF Names
<1> QED
  BY <1>1, <1>2, <1>3

LEMMA UnderIsPlain ==
  ASSUME NEW dirs \in Seq(Names)
  PROVE  Under(dirs) \in Seq(Plain)
<1> DEFINE n == 2 * Len(dirs) + 1
<1>1. Len(dirs) \in Nat /\ n \in Nat
  OBVIOUS
<1>2. "/" \in Names
  BY DEF Names
<1>3. ASSUME NEW i \in 1..n
      PROVE  (IF i % 2 = 1 THEN Slash ELSE <<dirs[i \div 2]>>) \in Plain
  <2>1. CASE i % 2 = 1
    BY <1>2, <2>1 DEF Slash, Plain
  <2>2. CASE i % 2 # 1
    <3>1. i \div 2 \in 1..Len(dirs)
      BY <1>1, <2>2
    <3>2. dirs[i \div 2] \in Names
      BY <3>1
    <3> QED
      BY <2>2, <3>2 DEF Plain
  <2> QED
    BY <2>1, <2>2
<1>4. Under(dirs) \in [1..n -> Plain]
  BY <1>3 DEF Under
<1> HIDE DEF n
<1> QED
  BY <1>1, <1>4

LEMMA TrapPathAtoms ==
  ASSUME NEW s \in Standards, NEW a, NEW S, Plain \subseteq S, a \in S
  PROVE  TrapPath(s, a) \in Seq(S)
<1>1. TrapDir(s) \in Seq(Names) /\ s \in Names
  BY DirsAreNames DEF Names
<1>2. Append(TrapDir(s), s) \in Seq(Names)
  BY <1>1
<1>3. Under(Append(TrapDir(s), s)) \in Seq(Plain)
  BY <1>2, UnderIsPlain
<1>4. Slash \in Plain /\ <<"leaf">> \in Plain
  BY DEF Slash, Plain, Names
<1> DEFINE u == Under(Append(TrapDir(s), s))
<1>5. u \in Seq(S) /\ <<a>> \in Seq(S) /\ <<Slash, <<"leaf">>>> \in Seq(S)
  BY <1>3, <1>4
<1> HIDE DEF u
<1>6. (u \o <<a>>) \o <<Slash, <<"leaf">>>> \in Seq(S)
  BY <1>5
<1> QED
  BY <1>6 DEF TrapPath, u

(* The atoms of a path that a token that went out leads to.                *)
Atoms(b) == Plain \union {Atom(b), Atom(Misspelled(b)), Atom(Forged(b))}

LEMMA PathAtoms ==
  ASSUME BeaconInv, NEW path \in Paths, path \notin Unrouted
  PROVE  \E x \in served : x.token \in Beacons /\ path \in Seq(Atoms(x.token))
<1> DEFINE Alone(b) == TrapPath(b.standard, Atom(b))
           First(b) == TrapPath(b.standard, Atom(Misspelled(b)))
           Rest(b) == <<Slash, Atom(Forged(b)), Slash, Atom(b)>>
<1>1. PICK x \in served : path = Alone(x.token) \/ path = First(x.token) \o Rest(x.token)
  <2>1. Paths = Unrouted \union UNION {{Alone(b), First(b) \o Rest(b)} : b \in {x.token : x \in served}}
    BY DEF Paths
  <2> HIDE DEF Alone, First, Rest
  <2>2. \E b \in {x.token : x \in served} : path = Alone(b) \/ path = First(b) \o Rest(b)
    BY <2>1
  <2> QED
    BY <2>2
<1> DEFINE b == x.token
           S == Atoms(b)
<1>2. b \in Beacons /\ b.standard \in Standards
  BY DEF BeaconInv, ServedTells, Fit, Beacons
<1>3. Plain \subseteq S /\ {Atom(b), Atom(Misspelled(b)), Atom(Forged(b))} \subseteq S
  BY DEF Atoms
<1>4. Slash \in S
  BY <1>3 DEF Slash, Plain, Names
<1> HIDE DEF S
<1>5. Alone(b) \in Seq(S) /\ First(b) \in Seq(S)
  BY <1>2, <1>3, TrapPathAtoms
<1>6. Rest(b) \in Seq(S)
  BY <1>3, <1>4
<1> HIDE DEF Alone, First, Rest
<1>7. First(b) \o Rest(b) \in Seq(S)
  BY <1>5, <1>6
<1>8. path \in Seq(S)
  BY <1>1, <1>5, <1>7
<1> QED
  BY <1>2, <1>8 DEF S

LEMMA FoundWentOut ==
  ASSUME BeaconInv, NEW path \in Paths, NEW t \in Found(path)
  PROVE  \E x \in served : x.token = t
<1> DEFINE at == {i \in DOMAIN path : path[i][1] = "token" /\ Genuine(path[i][2])}
<1>1. at # {} /\ t = path[Min(at)][2]
  BY DEF Found
<1>2. CASE path \in Unrouted
  <2>1. at = {}
    BY <1>2, ConstantsOK
  <2> QED
    BY <1>1, <2>1
<1>3. CASE path \notin Unrouted
  <2>1. PICK x \in served : x.token \in Beacons /\ path \in Seq(Atoms(x.token))
    BY <1>3, PathAtoms
  <2> DEFINE b == x.token
  <2>2. at \in SUBSET Nat
    BY <2>1
  <2>3. Min(at) \in at
    BY <1>1, <2>2, MinIsMember
  <2>4. PICK i \in DOMAIN path : path[i][1] = "token" /\ Genuine(path[i][2]) /\ t = path[i][2]
    BY <1>1, <2>3
  <2>5. path[i] \in Atoms(b)
    BY <2>1, <2>4
  <2>6. path[i] \notin Plain
    BY <2>4, PlainIsNoToken
  <2>7. ~Genuine(Misspelled(b)) /\ ~Genuine(Forged(b))
    BY <2>1, ConstantsOK DEF Genuine, Misspelled, Forged, Beacons
  <2>8. t = b
    BY <2>4, <2>5, <2>6, <2>7 DEF Atom, Atoms
  <2> QED
    BY <2>8
<1> QED
  BY <1>2, <1>3

-----------------------------------------------------------------------------
(* The invariant holds and is kept.                                        *)

LEMMA BeaconInit == Init => BeaconInv
BY DEF Init, BeaconInv, CacheFits, ServedTells, Hits

(* What went out stays true of a longer log and a later time.              *)
LEMMA Later ==
  ASSUME BeaconInv, now' \in Nat, now <= now', log \subseteq log', served \subseteq served'
  PROVE  /\ \A x \in served :
              /\ x.at \in Nat /\ x.at <= now' /\ x.client \in Clients
              /\ x.token \in Fit(x.client, x.at, Standards)
              /\ x.token.standard \in Capabilities \/ ReadOnRecord(x.token)'
         /\ \A e \in Hits : HitTold(e)'
         /\ CacheFits(cache, now')
<1>1. ASSUME NEW t, ReadOnRecord(t)
      PROVE  ReadOnRecord(t)'
  BY <1>1 DEF ReadOnRecord
<1>2. ASSUME NEW x \in served
      PROVE  /\ x.at \in Nat /\ x.at <= now' /\ x.client \in Clients
             /\ x.token \in Fit(x.client, x.at, Standards)
             /\ x.token.standard \in Capabilities \/ ReadOnRecord(x.token)'
  BY <1>1 DEF BeaconInv, ServedTells
<1>3. ASSUME NEW e \in Hits
      PROVE  HitTold(e)'
  BY DEF BeaconInv, HitTold
<1>4. ASSUME NEW k \in DOMAIN cache
      PROVE  /\ cache[k] \in Beacons /\ cache[k].ts <= now'
             /\ k = <<cache[k].standard, cache[k].ip, cache[k].ua>>
  <2>1. /\ cache[k] \in Beacons /\ cache[k].ts <= now
        /\ k = <<cache[k].standard, cache[k].ip, cache[k].ua>>
    BY DEF BeaconInv, CacheFits
  <2>2. cache[k].ts \in Nat /\ now \in Nat
    BY <2>1 DEF Beacons, BeaconInv
  <2> QED
    BY <2>1, <2>2
<1> QED
  BY <1>2, <1>3, <1>4 DEF CacheFits

LEMMA TimePassesForBeacons == BeaconInv /\ (Tick \/ Restart \/ UNCHANGED vars) => BeaconInv'
<1> SUFFICES ASSUME BeaconInv, Tick \/ Restart \/ UNCHANGED vars
             PROVE  BeaconInv'
  OBVIOUS
<1>1. /\ now' \in Nat /\ now <= now' /\ served' = served /\ log' = log
      /\ cache' = cache \/ cache' = <<>>
  BY DEF BeaconInv, Tick, Restart, vars
<1>2. CacheFits(cache', now')
  <2>1. CacheFits(<<>>, now')
    BY DEF CacheFits
  <2> QED
    BY <1>1, <2>1, Later
<1>3. ServedTells'
  BY <1>1, Later DEF ServedTells
<1>4. Hits' = Hits
  BY <1>1 DEF Hits
<1> QED
  BY <1>1, <1>2, <1>3, <1>4, Later DEF BeaconInv

(* A handler that mints nothing and whose events, if hits, tell the truth. *)
LEMMA TellingKeeps ==
  ASSUME BeaconInv, NEW c, NEW path, NEW resource, NEW status, NEW brought, NEW events,
         Recorded(c, path, resource, status, brought, events), UNCHANGED <<cache, served>>,
         \A e \in events : e.kind = "trap_hit" /\ e.standard # "stable" => HitTold(e)
  PROVE  BeaconInv'
<1> DEFINE request == Request(c, path, resource, status, brought)
<1>1. now' = now /\ now \in Nat /\ log' = log \union events \union {request}
  BY DEF Recorded, BeaconInv
<1>2. request.kind = "request"
  BY DEF Request
<1> HIDE DEF request
<1>3. CacheFits(cache', now')
  BY <1>1 DEF BeaconInv
<1>4. ServedTells'
  BY <1>1, Later DEF ServedTells
<1>5. ASSUME NEW e \in Hits'
      PROVE  HitTold(e)'
  <2>1. CASE e \in log
    <3>1. e \in Hits
      BY <2>1 DEF Hits
    <3> QED
      BY <1>1, <3>1, Later
  <2>2. CASE e \notin log
    <3>1. e \in events /\ e.kind = "trap_hit" /\ e.standard # "stable"
      BY <1>1, <1>2, <2>2 DEF Hits
    <3> QED
      BY <3>1 DEF HitTold
  <2> QED
    BY <2>1, <2>2
<1> QED
  BY <1>1, <1>3, <1>4, <1>5 DEF BeaconInv

LEMMA SilentKeeps ==
  ASSUME BeaconInv, NEW c, NEW path, NEW resource, NEW status, NEW brought, NEW events,
         Recorded(c, path, resource, status, brought, events), UNCHANGED <<cache, served>>,
         \A e \in events : e.kind # "trap_hit"
  PROVE  BeaconInv'
BY TellingKeeps

(* A handler that mints: what goes out fits the client, and is on record   *)
(* unless it was planted in a page.                                        *)
LEMMA MintingKeeps ==
  ASSUME BeaconInv, NEW c \in Clients, NEW standards \in SUBSET Standards,
         NEW m, Fitting(m, c, standards), cache' = m.cache,
         served' = served \union Serving(c, m.tokens),
         NEW path, NEW resource, NEW status, NEW brought, NEW events,
         Recorded(c, path, resource, status, brought, events),
         \A e \in events : e.kind # "trap_hit",
         \/ standards \subseteq Capabilities
         \/ \E r \in events : r.kind = "policy_read" /\ r.client = c /\ r.tokens = ToSet(m.tokens)
  PROVE  BeaconInv'
<1> DEFINE request == Request(c, path, resource, status, brought)
<1>1. now' = now /\ now \in Nat /\ log' = log \union events \union {request}
  BY DEF Recorded, BeaconInv
<1>2. request.kind = "request"
  BY DEF Request
<1> HIDE DEF request
<1>3. CacheFits(cache', now')
  BY <1>1 DEF Fitting
<1>4. ServedTells'
  <2> SUFFICES ASSUME NEW x \in served'
               PROVE  /\ x.at \in Nat /\ x.at <= now' /\ x.client \in Clients
                      /\ x.token \in Fit(x.client, x.at, Standards)
                      /\ x.token.standard \in Capabilities \/ ReadOnRecord(x.token)'
    BY DEF ServedTells
  <2>1. CASE x \in served
    BY <1>1, <2>1, Later
  <2>2. CASE x \notin served
    <3>1. PICK t \in ToSet(m.tokens) : x = [token |-> t, client |-> c, at |-> now]
      BY <2>2 DEF Serving
    <3>2. t \in Fit(c, now, standards)
      BY DEF Fitting, ToSet
    <3>3. t \in Fit(c, now, Standards) /\ t.standard \in standards /\ t.ip = c.ip /\ t.ua = c.ua
      BY <3>2 DEF Fit
    <3>4. x.token.standard \in Capabilities \/ ReadOnRecord(x.token)'
      <4>1. CASE standards \subseteq Capabilities
        BY <3>1, <3>3, <4>1
      <4>2. CASE \E r \in events :
                   r.kind = "policy_read" /\ r.client = c /\ r.tokens = ToSet(m.tokens)
        <5>1. c = [ip |-> t.ip, ua |-> t.ua]
          BY <3>3, ConstantsOK
        <5> QED
          BY <1>1, <3>1, <4>2, <5>1 DEF ReadOnRecord
      <4> QED
        BY <4>1, <4>2
    <3> QED
      BY <1>1, <3>1, <3>3, <3>4
  <2> QED
    BY <2>1, <2>2
<1>5. Hits' = Hits
  BY <1>1, <1>2 DEF Hits
<1> QED
  BY <1>1, <1>3, <1>4, <1>5, Later DEF BeaconInv

LEMMA ReadPolicyKeepsBeacons ==
  ASSUME BeaconInv, NEW c \in Clients, NEW s \in Surfaces, NEW brought, ReadPolicy(c, s, brought)
  PROVE  BeaconInv'
<1> DEFINE m == Mint(c, Carries(s))
           path == IF s = "robots" THEN RobotsTxt ELSE File(<<>>, s)
           read == [kind |-> "policy_read", client |-> c, path |-> path, standard |-> s,
                    tokens |-> Named(m.tokens)]
<1>1. s \in Standards /\ "control_allow" \in Standards
  BY ConstantsOK DEF Standards, Controls
<1>2. Carries(s) \in Seq(Standards) /\ Len(Carries(s)) \in 0..2
  BY <1>1 DEF Carries
<1>3. Fitting(m, c, Standards)
  BY <1>2, MintFits
<1>4. /\ cache' = m.cache /\ served' = served \union Serving(c, m.tokens)
      /\ Recorded(c, path, "policy", 200, brought, {read})
  BY DEF ReadPolicy
<1>5. read.kind = "policy_read" /\ read.client = c /\ read.tokens = ToSet(m.tokens)
  BY DEF Named
<1> HIDE DEF m, path, read
<1>6. \A e \in {read} : e.kind # "trap_hit"
  BY <1>5
<1>7. \E r \in {read} : r.kind = "policy_read" /\ r.client = c /\ r.tokens = ToSet(m.tokens)
  BY <1>5
<1> QED
  BY <1>3, <1>4, <1>6, <1>7, MintingKeeps

LEMMA PlantedBeacons ==
  ASSUME NEW place \in Places
  PROVE  Planted[place].beacons \in Seq(Capabilities) /\ Len(Planted[place].beacons) \in 0..2
<1> DEFINE list == Planted[place].beacons
<1>1. place \in {"index", "docs_index", "project_index", "page", "restricted", "public",
                 "asset_css", "asset_js"}
  BY PlacesOK DEF Planted
<1>2. list \in {<<"hidden_link", "nofollow">>, <<>>, <<"meta_noai">>, <<"css_beacon">>, <<"js_beacon">>}
  <2>1. /\ Planted["index"].beacons = <<"hidden_link", "nofollow">>
        /\ Planted["docs_index"].beacons = <<>> /\ Planted["project_index"].beacons = <<>>
        /\ Planted["page"].beacons = <<>> /\ Planted["public"].beacons = <<>>
        /\ Planted["restricted"].beacons = <<"meta_noai">>
        /\ Planted["asset_css"].beacons = <<"css_beacon">>
        /\ Planted["asset_js"].beacons = <<"js_beacon">>
    BY DEF Planted
  <2> QED
    BY <1>1, <2>1
<1>3. {"hidden_link", "nofollow", "meta_noai", "css_beacon", "js_beacon"} \subseteq Capabilities
  BY DEF Capabilities
<1> HIDE DEF list
<1>4. list \in Seq(Capabilities) /\ Len(list) \in 0..2
  <2>1. \A S : \A a, b \in S :
          /\ <<>> \in Seq(S) /\ <<a>> \in Seq(S) /\ <<a, b>> \in Seq(S)
          /\ Len(<<>>) = 0 /\ Len(<<a>>) = 1 /\ Len(<<a, b>>) = 2
    OBVIOUS
  <2>2. CASE list = <<"hidden_link", "nofollow">>
    BY <1>3, <2>1, <2>2
  <2>3. CASE list = <<>>
    BY <1>3, <2>1, <2>3
  <2>4. CASE list \in {<<"meta_noai">>, <<"css_beacon">>, <<"js_beacon">>}
    <3>1. PICK a \in Capabilities : list = <<a>>
      BY <1>3, <2>4
    <3> QED
      BY <2>1, <3>1
  <2> QED
    BY <1>2, <2>2, <2>3, <2>4
<1> QED
  BY <1>4 DEF list

LEMMA ViewKeepsBeacons ==
  ASSUME BeaconInv, NEW c \in Clients, NEW place \in Places, NEW brought, View(c, place, brought)
  PROVE  BeaconInv'
<1> DEFINE list == Planted[place].beacons
           m == Mint(c, list)
<1>1. Capabilities \in SUBSET Standards
  BY DEF Standards
<1>2. list \in Seq(Capabilities) /\ Len(list) \in 0..2
  BY PlantedBeacons
<1>3. PICK status : Recorded(c, Planted[place].path, place, status, brought, {})
  BY DEF View
<1>4. cache' = m.cache /\ served' = served \union Serving(c, m.tokens)
  BY DEF View
<1> HIDE DEF list
<1>5. Fitting(m, c, Capabilities)
  BY <1>1, <1>2, MintFits
<1> HIDE DEF m
<1> QED
  BY <1>1, <1>3, <1>4, <1>5, MintingKeeps

LEMMA HuntProbeKeepsBeacons ==
  ASSUME BeaconInv, NEW c, NEW path, NEW probe, NEW brought, HuntProbe(c, path, probe, brought)
  PROVE  BeaconInv'
<1>1. PICK status, issued, on :
        /\ Recorded(c, path, "hunt", status, brought, {Hunt(c, path, issued, on)})
        /\ UNCHANGED <<cache, served>>
  BY ZenonT(30) DEF HuntProbe
<1>2. \A e \in {Hunt(c, path, issued, on)} : e.kind # "trap_hit"
  BY DEF Hunt
<1> QED
  BY <1>1, <1>2, SilentKeeps

LEMMA FetchKeepsBeacons ==
  ASSUME BeaconInv, NEW c, NEW path \in Paths, NEW brought, Fetch(c, path, brought)
  PROVE  BeaconInv'
<1>1. ASSUME NEW t \in Found(path), Recorded(c, path, "trap", 200, brought, {BeaconHit(c, path, t)}),
             UNCHANGED <<cache, served>>
      PROVE  BeaconInv'
  <2> DEFINE hit == BeaconHit(c, path, t)
  <2>1. \E x \in served : x.token = t
    BY FoundWentOut
  <2>2. now \in Nat
    BY DEF BeaconInv
  <2>3. HitTold(hit)
    BY <2>1, <2>2 DEF HitTold, BeaconHit
  <2> HIDE DEF hit
  <2>4. \A e \in {hit} : e.kind = "trap_hit" /\ e.standard # "stable" => HitTold(e)
    BY <2>3
  <2> QED
    BY <1>1, <2>4, TellingKeeps DEF hit
<1>2. CASE \E p : HuntProbe(c, path, p, brought)
  BY <1>2, HuntProbeKeepsBeacons
<1>3. CASE /\ Recorded(c, path, "stable", 200, brought, {StableHit(c, path)})
           /\ UNCHANGED <<cache, served>>
  <2>1. \A e \in {StableHit(c, path)} :
          e.kind = "trap_hit" /\ e.standard # "stable" => HitTold(e)
    BY DEF StableHit
  <2> QED
    BY <1>3, <2>1, TellingKeeps
<1>4. CASE Recorded(c, path, "not_found", 404, brought, {}) /\ UNCHANGED <<cache, served>>
  BY <1>4, SilentKeeps
<1> QED
  BY <1>1, <1>2, <1>3, <1>4 DEF Fetch

LEMMA PersonaKeepsBeacons ==
  ASSUME BeaconInv, NEW c, NEW path, NEW brought,
         \/ \E shapes, probe : WebApp(c, path, shapes, probe, brought)
         \/ \E persona : Workflow(c, persona, path, brought) \/ Service(c, persona, path, brought)
  PROVE  BeaconInv'
<1>1. CASE \E p : HuntProbe(c, path, p, brought)
  BY <1>1, HuntProbeKeepsBeacons
<1>2. ASSUME NEW resource, NEW status, NEW issued, NEW on,
             Recorded(c, path, resource, status, brought, {Hunt(c, path, issued, on)}),
             UNCHANGED <<cache, served>>
      PROVE  BeaconInv'
  <2>1. \A e \in {Hunt(c, path, issued, on)} : e.kind # "trap_hit"
    BY DEF Hunt
  <2> QED
    BY <1>2, <2>1, SilentKeeps
<1>3. ASSUME NEW shapes, NEW probe, WebApp(c, path, shapes, probe, brought)
      PROVE  BeaconInv'
  BY <1>2, <1>3 DEF WebApp
<1>4. ASSUME NEW persona, Workflow(c, persona, path, brought)
      PROVE  BeaconInv'
  BY <1>2, <1>4 DEF Workflow
<1>5. ASSUME NEW persona, Service(c, persona, path, brought)
      PROVE  BeaconInv'
  BY <1>1, <1>2, <1>5 DEF Service
<1> QED
  BY <1>3, <1>4, <1>5

LEMMA BeaconStep == BeaconInv /\ [Next]_vars => BeaconInv'
<1> SUFFICES ASSUME BeaconInv, [Next]_vars
             PROVE  BeaconInv'
  OBVIOUS
<1>1. CASE Tick \/ Restart \/ UNCHANGED vars
  BY <1>1, TimePassesForBeacons
<1>2. ASSUME NEW c \in Clients, NEW brought \in Cargo,
             \/ \E s \in Surfaces : ReadPolicy(c, s, brought)
             \/ \E place \in Places : View(c, place, brought)
             \/ \E path \in Paths : Fetch(c, path, brought)
             \/ \E shapes \in Shapes, i \in DOMAIN Probes :
                  WebApp(c, Probes[i].prefix, shapes, Probes[i], brought)
             \/ \E persona \in Personas : \E path \in persona.asked :
                  Workflow(c, persona, path, brought) \/ Service(c, persona, path, brought)
      PROVE  BeaconInv'
  BY <1>2, ReadPolicyKeepsBeacons, ViewKeepsBeacons, FetchKeepsBeacons, PersonaKeepsBeacons
<1> QED
  BY <1>1, <1>2 DEF Next

LEMMA BeaconsAlways == Spec => []BeaconInv
BY BeaconInit, BeaconStep, PTL DEF Spec

-----------------------------------------------------------------------------
LEMMA BeaconsTell == BeaconInv => HitsTellTheReader
<1> SUFFICES ASSUME BeaconInv, NEW e \in Hits
             PROVE  /\ \E x \in served : x.token = e.token
                    /\ \A x \in served : x.token = e.token =>
                         /\ e.standard = x.token.standard
                         /\ e.same_ip = (e.client.ip = x.client.ip)
                         /\ e.same_ua = (e.client.ua = x.client.ua)
                         /\ x.at - Window <= e.at - e.delay
                         /\ x.at <= e.at => e.delay >= e.at - x.at
  BY DEF HitsTellTheReader
<1>1. HitTold(e)
  BY DEF BeaconInv
<1>2. ASSUME NEW x \in served, x.token = e.token
      PROVE  /\ e.standard = x.token.standard
             /\ e.same_ip = (e.client.ip = x.client.ip)
             /\ e.same_ua = (e.client.ua = x.client.ua)
             /\ x.at - Window <= e.at - e.delay
             /\ x.at <= e.at => e.delay >= e.at - x.at
  <2> DEFINE t == e.token
  <2>1. /\ x.at \in Nat /\ t \in Beacons /\ t.ip = x.client.ip /\ t.ua = x.client.ua
        /\ t.ts <= x.at /\ x.at <= t.ts + Window
    BY <1>2 DEF BeaconInv, ServedTells, Fit
  <2>2. t.ts \in Nat /\ Window \in Nat
    BY <2>1, ConstantsOK DEF Beacons
  <2>3. /\ e.at \in Nat /\ e.delay = e.at - t.ts /\ e.standard = t.standard
        /\ e.same_ip = (t.ip = e.client.ip) /\ e.same_ua = (t.ua = e.client.ua)
    BY <1>1 DEF HitTold
  <2> HIDE DEF t
  <2>4. x.at - Window <= e.at - e.delay /\ (x.at <= e.at => e.delay >= e.at - x.at)
    BY <2>1, <2>2, <2>3
  <2>5. e.same_ip = (e.client.ip = x.client.ip) /\ e.same_ua = (e.client.ua = x.client.ua)
    BY <2>1, <2>3
  <2>6. e.standard = x.token.standard
    BY <1>2, <2>3 DEF t
  <2> QED
    BY <2>4, <2>5, <2>6
<1> QED
  BY <1>1, <1>2 DEF HitTold

(* A trap hit names the standard of a beacon that went out, to one client  *)
(* only; compares its reader with that client; and counts the delay from a *)
(* time no later than each time the beacon went out, and no more than a    *)
(* window earlier.  For any clients, window, cache size and key, whatever  *)
(* is done to the tokens on their way, and across restarts.                *)
THEOREM HitsTellTheReaderAlways == Spec => []HitsTellTheReader
BY BeaconsAlways, BeaconsTell, PTL

(* Whoever comes to the trap path of a policy file, the log holds the read *)
(* in which that beacon went out, with the address and the user agent of   *)
(* the client it went to.                                                  *)
THEOREM ReaderIsOnRecordAlways == Spec => []ReaderIsOnRecord
<1>1. BeaconInv => ReaderIsOnRecord
  <2> SUFFICES ASSUME BeaconInv, NEW e \in Hits, e.standard \in Surfaces \union Controls
               PROVE  ReadOnRecord(e.token)
    BY DEF ReaderIsOnRecord, ReadOnRecord
  <2>1. PICK x \in served : x.token = e.token /\ e.standard = e.token.standard
    BY DEF BeaconInv, HitTold
  <2>2. e.standard \in Prohibitions \union Invitations \union Controls
    BY ConstantsOK
  <2>3. e.standard \notin Capabilities
    BY <2>2 DEF Prohibitions, Invitations, Controls, Capabilities
  <2> QED
    BY <2>1, <2>3 DEF BeaconInv, ServedTells
<1> QED
  BY <1>1, BeaconsAlways, PTL

-----------------------------------------------------------------------------
(* Induction on the natural numbers, for a set instead of a predicate: a   *)
(* number outside of T would have a least one below it.                    *)
LEMMA Counting ==
  ASSUME NEW T, 0 \in T, \A n \in Nat : n \in T => n + 1 \in T
  PROVE  Nat \subseteq T
<1> DEFINE R == OpToRel(<, Nat)
           U == Nat \ T
<1>1. IsWellFoundedOn(R, Nat) /\ \A x, y \in Nat : y < x => <<y, x>> \in R
  BY NatLessThanWellFounded DEF OpToRel
<1> HIDE DEF R
<1>2. SUFFICES ASSUME U # {} PROVE FALSE
  OBVIOUS
<1>3. U \subseteq Nat
  OBVIOUS
<1>4. PICK x \in U : \A y \in U : ~ (<<y, x>> \in R)
  <2> HIDE DEF U
  <2> QED
    BY <1>1, <1>2, <1>3, WFMin
<1>5. x \in Nat /\ x # 0 /\ x - 1 \in Nat /\ x - 1 < x /\ (x - 1) + 1 = x
  OBVIOUS
<1> QED
  BY <1>1, <1>4, <1>5

-----------------------------------------------------------------------------
(* Reading a text.                                                         *)

(* f tells what has been read after each line.                             *)
Reads(f, p, lines) ==
  /\ DOMAIN f = 0..Len(lines) /\ f[0] = p
  /\ \A n \in 1..Len(lines) : f[n] = ReadLine(f[n - 1], lines[n])

LEMMA ReadsExist ==
  ASSUME NEW p, NEW S, NEW lines \in Seq(S)
  PROVE  \E f : Reads(f, p, lines)
<1> DEFINE Good(m, f) == /\ DOMAIN f = 0..m /\ f[0] = p
                         /\ \A n \in 1..m : f[n] = ReadLine(f[n - 1], lines[n])
           T == {m \in Nat : \E f : Good(m, f)}
<1>1. 0 \in T
  <2> DEFINE f == [n \in 0..0 |-> p]
  <2>1. DOMAIN f = 0..0 /\ f[0] = p /\ 1..0 = {}
    OBVIOUS
  <2> HIDE DEF f
  <2>2. Good(0, f)
    BY <2>1
  <2> QED
    BY <2>2
<1>2. ASSUME NEW m \in Nat, m \in T
      PROVE  m + 1 \in T
  <2>1. PICK f : Good(m, f)
    BY <1>2
  <2> DEFINE g == [n \in 0..(m + 1) |-> IF n = m + 1 THEN ReadLine(f[m], lines[m + 1]) ELSE f[n]]
  <2>2. \A n \in 0..m : n \in 0..(m + 1) /\ n # m + 1 /\ g[n] = f[n]
    OBVIOUS
  <2>3. g[m + 1] = ReadLine(f[m], lines[m + 1]) /\ (m + 1) - 1 = m /\ m \in 0..m
    <3>1. m + 1 \in 0..(m + 1) /\ (m + 1) - 1 = m /\ m \in 0..m
      OBVIOUS
    <3> QED
      BY <3>1, Zenon
  <2>4. DOMAIN g = 0..(m + 1) /\ m + 1 \in Nat
    OBVIOUS
  <2> HIDE DEF g
  <2>5. ASSUME NEW n \in 1..(m + 1)
        PROVE  g[n] = ReadLine(g[n - 1], lines[n])
    <3>1. CASE n = m + 1
      BY <2>2, <2>3, <3>1
    <3>2. CASE n # m + 1
      <4>1. n \in 1..m /\ n \in 0..m /\ n - 1 \in 0..m
        BY <3>2
      <4> QED
        BY <2>1, <2>2, <4>1
    <3> QED
      BY <3>1, <3>2
  <2>6. g[0] = p
    BY <2>1, <2>2
  <2>7. Good(m + 1, g)
    BY <2>4, <2>5, <2>6
  <2> HIDE DEF Good
  <2> QED
    BY <2>4, <2>7
<1>3. Len(lines) \in T
  <2>1. Len(lines) \in Nat
    OBVIOUS
  <2> HIDE DEF T
  <2> QED
    BY <1>1, <1>2, <2>1, Counting
<1> QED
  BY <1>3 DEF Reads

LEMMA ReadLinesReads ==
  ASSUME NEW p, NEW S, NEW lines \in Seq(S), NEW f, Reads(f, p, lines)
  PROVE  ReadLines(p, lines) = f[Len(lines)]
<1> DEFINE N == Len(lines)
           Def(g) == [n \in 0..N |-> IF n = 0 THEN p ELSE ReadLine(g[n - 1], lines[n])]
           h == CHOOSE g : g = Def(g)
<1>1. N \in Nat
  OBVIOUS
<1>2. ReadLines(p, lines) = h[N]
  BY DEF ReadLines
<1> DEFINE e == [n \in 0..N |-> f[n]]
<1>3. e = Def(e)
  <2>1. ASSUME NEW n \in 0..N
        PROVE  e[n] = IF n = 0 THEN p ELSE ReadLine(e[n - 1], lines[n])
    <3>1. n # 0 => n \in 1..N /\ n - 1 \in 0..N
      BY <1>1
    <3> QED
      BY <3>1 DEF Reads
  <2> QED
    BY <2>1
<1>4. h = Def(h)
  <2> HIDE DEF Def, e
  <2> QED
    BY <1>3
<1>5. h[0] = p /\ \A n \in 1..N : h[n] = ReadLine(h[n - 1], lines[n])
  <2> HIDE DEF h
  <2>1. 0 \in 0..N /\ \A n \in 1..N : n \in 0..N /\ n # 0
    BY <1>1
  <2> QED
    BY <1>4, <2>1
<1> HIDE DEF h
<1> DEFINE T == {n \in Nat : n <= N => h[n] = f[n]}
<1>6. 0 \in T
  BY <1>5 DEF Reads
<1>7. ASSUME NEW n \in Nat, n \in T
      PROVE  n + 1 \in T
  <2>1. SUFFICES ASSUME n + 1 <= N PROVE h[n + 1] = f[n + 1]
    OBVIOUS
  <2>2. n + 1 \in 1..N /\ (n + 1) - 1 = n /\ n <= N
    BY <1>1, <2>1
  <2> QED
    BY <1>5, <1>7, <2>2 DEF Reads
<1>8. N \in T
  <2> HIDE DEF T
  <2> QED
    BY <1>1, <1>6, <1>7, Counting
<1> QED
  BY <1>1, <1>2, <1>8

LEMMA ReadOne ==
  ASSUME NEW p, NEW line
  PROVE  ReadLines(p, <<line>>) = ReadLine(p, line) /\ ReadLines(p, <<>>) = p
<1> DEFINE one == <<line>>
           none == <<>>
<1>1. one \in Seq({line}) /\ none \in Seq({line}) /\ Len(one) = 1 /\ Len(none) = 0 /\ one[1] = line
  OBVIOUS
<1> HIDE DEF one, none
<1>2. PICK f : Reads(f, p, one)
  BY <1>1, ReadsExist
<1>3. PICK g : Reads(g, p, none)
  BY <1>1, ReadsExist
<1>4. ReadLines(p, one) = f[1] /\ ReadLines(p, none) = g[0]
  BY <1>1, <1>2, <1>3, ReadLinesReads
<1>5. 1 \in 1..Len(one) /\ 1 - 1 = 0
  BY <1>1
<1>6. f[1] = ReadLine(p, line) /\ g[0] = p
  BY <1>1, <1>2, <1>3, <1>5 DEF Reads
<1> QED
  BY <1>4, <1>6 DEF one, none

(* What is read of two parts one after the other.                          *)
LEMMA ReadBoth ==
  ASSUME NEW p, NEW S, NEW s \in Seq(S), NEW t \in Seq(S)
  PROVE  s \o t \in Seq(S) /\ ReadLines(p, s \o t) = ReadLines(ReadLines(p, s), t)
<1> DEFINE both == s \o t
           M == Len(s)
           N == Len(t)
<1>1. /\ both \in Seq(S) /\ M \in Nat /\ N \in Nat /\ Len(both) = M + N
      /\ \A i \in 1..M : both[i] = s[i]
      /\ \A i \in 1..N : both[M + i] = t[i]
  OBVIOUS
<1> HIDE DEF both
<1>2. PICK f : Reads(f, p, s)
  BY ReadsExist
<1>3. PICK g : Reads(g, f[M], t)
  BY ReadsExist
<1> DEFINE h == [n \in 0..(M + N) |-> IF n <= M THEN f[n] ELSE g[n - M]]
<1>4. g[0] = f[M] /\ f[0] = p
  BY <1>2, <1>3 DEF Reads
<1>5. \A n \in 0..M : h[n] = f[n]
  BY <1>1
<1>6. \A n \in 0..N : h[M + n] = g[n]
  <2> TAKE n \in 0..N
  <2>1. M + n \in 0..(M + N) /\ (M + n) - M = n /\ (n # 0 => ~(M + n <= M)) /\ (n = 0 => M + n = M /\ M <= M)
    BY <1>1
  <2>2. CASE n = 0
    BY <1>1, <1>4, <2>1, <2>2
  <2>3. CASE n # 0
    BY <2>1, <2>3
  <2> QED
    BY <2>2, <2>3
<1>7. DOMAIN h = 0..(M + N)
  OBVIOUS
<1> HIDE DEF h
<1>8. ASSUME NEW n \in 1..(M + N)
      PROVE  h[n] = ReadLine(h[n - 1], both[n])
  <2>1. CASE n <= M
    <3>1. n \in 1..M /\ n \in 0..M /\ n - 1 \in 0..M
      BY <1>1, <2>1
    <3>2. f[n] = ReadLine(f[n - 1], s[n])
      BY <1>2, <3>1 DEF Reads
    <3> QED
      BY <1>1, <1>5, <3>1, <3>2
  <2>2. CASE ~(n <= M)
    <3> DEFINE k == n - M
    <3>1. k \in 1..N /\ k \in 0..N /\ k - 1 \in 0..N /\ n = M + k /\ n - 1 = M + (k - 1)
      BY <1>1, <2>2
    <3> HIDE DEF k
    <3>2. g[k] = ReadLine(g[k - 1], t[k])
      BY <1>3, <3>1 DEF Reads
    <3>3. h[n] = g[k] /\ h[n - 1] = g[k - 1] /\ both[n] = t[k]
      BY <1>1, <1>6, <3>1
    <3> QED
      BY <3>2, <3>3
  <2> QED
    BY <2>1, <2>2
<1>9. Reads(h, p, both)
  <2>1. h[0] = p
    BY <1>1, <1>4, <1>5
  <2> QED
    BY <1>1, <1>7, <1>8, <2>1 DEF Reads
<1>10. ReadLines(p, both) = h[M + N]
  BY <1>1, <1>9, ReadLinesReads
<1>11. h[M + N] = g[N]
  BY <1>1, <1>6
<1>12. ReadLines(p, s) = f[M] /\ ReadLines(f[M], t) = g[N]
  BY <1>2, <1>3, ReadLinesReads
<1> QED
  BY <1>1, <1>10, <1>11, <1>12 DEF both

(* Parts are appended one after the other, g telling how far.              *)
Joins(g, parts) ==
  /\ DOMAIN g = 0..Len(parts) /\ g[0] = <<>>
  /\ \A n \in 1..Len(parts) : g[n] = g[n - 1] \o parts[n]

LEMMA JoinsExist ==
  ASSUME NEW S, NEW parts \in Seq(Seq(S))
  PROVE  \E g : Joins(g, parts)
<1> DEFINE N == Len(parts)
           Good(m, g) == DOMAIN g = 0..m /\ g[0] = <<>> /\ \A n \in 1..m : g[n] = g[n - 1] \o parts[n]
           T == {m \in Nat : \E g : Good(m, g)}
<1>1. 0 \in T
  <2> DEFINE f == [n \in 0..0 |-> <<>>]
  <2>1. DOMAIN f = 0..0 /\ f[0] = <<>> /\ 1..0 = {}
    OBVIOUS
  <2> HIDE DEF f
  <2>2. Good(0, f)
    BY <2>1
  <2> QED
    BY <2>2
<1>2. ASSUME NEW m \in Nat, m \in T
      PROVE  m + 1 \in T
  <2>1. PICK f : Good(m, f)
    BY <1>2
  <2> DEFINE g == [n \in 0..(m + 1) |-> IF n = m + 1 THEN f[m] \o parts[m + 1] ELSE f[n]]
  <2>2. \A n \in 0..m : n \in 0..(m + 1) /\ n # m + 1 /\ g[n] = f[n]
    OBVIOUS
  <2>3. g[m + 1] = f[m] \o parts[m + 1] /\ (m + 1) - 1 = m /\ m \in 0..m
    <3>1. m + 1 \in 0..(m + 1) /\ (m + 1) - 1 = m /\ m \in 0..m
      OBVIOUS
    <3> QED
      BY <3>1, Zenon
  <2>4. DOMAIN g = 0..(m + 1) /\ m + 1 \in Nat
    OBVIOUS
  <2> HIDE DEF g
  <2>5. ASSUME NEW n \in 1..(m + 1)
        PROVE  g[n] = g[n - 1] \o parts[n]
    <3>1. CASE n = m + 1
      BY <2>2, <2>3, <3>1
    <3>2. CASE n # m + 1
      <4>1. n \in 1..m /\ n \in 0..m /\ n - 1 \in 0..m
        BY <3>2
      <4> QED
        BY <2>1, <2>2, <4>1
    <3> QED
      BY <3>1, <3>2
  <2>6. g[0] = <<>>
    BY <2>1, <2>2
  <2>7. Good(m + 1, g)
    BY <2>4, <2>5, <2>6
  <2> HIDE DEF Good
  <2> QED
    BY <2>4, <2>7
<1>3. N \in T
  <2>1. N \in Nat
    OBVIOUS
  <2> HIDE DEF T, N
  <2> QED
    BY <1>1, <1>2, <2>1, Counting
<1> QED
  BY <1>3 DEF Joins

LEMMA FlatJoins ==
  ASSUME NEW S, NEW parts \in Seq(Seq(S))
  PROVE  \E k : Joins(k, parts) /\ FlattenSeq(parts) = k[Len(parts)]
<1> DEFINE N == Len(parts)
           Def(h) == [i \in 1..N |-> IF i = 1 THEN parts[i] ELSE h[i - 1] \o parts[i]]
           h == CHOOSE f : f = Def(f)
<1>1. N \in Nat /\ DOMAIN parts = 1..N /\ \A n \in 1..N : parts[n] \in Seq(S)
  OBVIOUS
<1>2. PICK g : Joins(g, parts)
  BY JoinsExist
<1>3. CASE N = 0
  <2>1. FlattenSeq(parts) = <<>>
    BY <1>3 DEF FlattenSeq
  <2> QED
    BY <1>2, <1>3, <2>1 DEF Joins
<1>4. CASE N # 0
  <2>1. FlattenSeq(parts) = h[N]
    BY <1>4 DEF FlattenSeq
  <2>2. g[1] = parts[1]
    <3>1. g[1] = <<>> \o parts[1]
      <4>1. 1 \in 1..N /\ 1 - 1 = 0
        BY <1>1, <1>4
      <4> QED
        BY <1>2, <4>1 DEF Joins
    <3>2. 1 \in 1..N
      BY <1>1, <1>4
    <3> QED
      BY <1>1, <3>1, <3>2
  <2> DEFINE f == [i \in 1..N |-> g[i]]
  <2>3. f = Def(f)
    <3>1. ASSUME NEW i \in 1..N
          PROVE  f[i] = IF i = 1 THEN parts[i] ELSE f[i - 1] \o parts[i]
      <4>1. i # 1 => i - 1 \in 1..N
        BY <1>1
      <4> QED
        BY <1>2, <2>2, <4>1 DEF Joins
    <3> QED
      BY <3>1
  <2>4. h = Def(h)
    <3> HIDE DEF Def, f
    <3> QED
      BY <2>3
  <2> DEFINE k == [i \in 0..N |-> IF i = 0 THEN <<>> ELSE h[i]]
  <2>5. \A i \in 1..N : h[i] = IF i = 1 THEN parts[i] ELSE h[i - 1] \o parts[i]
    <3> HIDE DEF h
    <3> QED
      BY <2>4
  <2> HIDE DEF h
  <2>6. Joins(k, parts)
    <3>1. DOMAIN k = 0..N /\ 0 \in 0..N /\ k[0] = <<>>
      BY <1>1
    <3>2. ASSUME NEW n \in 1..N
          PROVE  k[n] = k[n - 1] \o parts[n]
      <4>1. n \in 0..N /\ n # 0 /\ n - 1 \in 0..N /\ (n # 1 <=> n - 1 # 0)
        BY <1>1
      <4>2. k[n] = h[n]
        BY <4>1
      <4>3. CASE n = 1
        <5>1. k[n - 1] = <<>> /\ h[n] = parts[n]
          BY <2>5, <4>1, <4>3
        <5>2. <<>> \o parts[n] = parts[n]
          BY <1>1
        <5> QED
          BY <4>2, <5>1, <5>2
      <4>4. CASE n # 1
        <5>1. k[n - 1] = h[n - 1] /\ h[n] = h[n - 1] \o parts[n]
          BY <2>5, <4>1, <4>4
        <5> QED
          BY <4>2, <5>1
      <4> QED
        BY <4>3, <4>4
    <3> HIDE DEF k
    <3> QED
      BY <3>1, <3>2 DEF Joins
  <2>7. k[N] = h[N]
    BY <1>1, <1>4
  <2> HIDE DEF k, N
  <2> QED
    BY <2>1, <2>6, <2>7 DEF N
<1> QED
  BY <1>3, <1>4

(* What is read of the parts of a text, part by part.                      *)
LEMMA ReadParts ==
  ASSUME NEW S, NEW parts \in Seq(Seq(S)), NEW q,
         \A n \in 1..Len(parts) : q[n] = ReadLines(q[n - 1], parts[n])
  PROVE  FlattenSeq(parts) \in Seq(S) /\ ReadLines(q[0], FlattenSeq(parts)) = q[Len(parts)]
<1> DEFINE N == Len(parts)
<1>1. N \in Nat /\ \A n \in 1..N : parts[n] \in Seq(S)
  OBVIOUS
<1>2. PICK k : Joins(k, parts) /\ FlattenSeq(parts) = k[N]
  BY FlatJoins
<1> DEFINE T == {n \in Nat : n <= N => k[n] \in Seq(S) /\ ReadLines(q[0], k[n]) = q[n]}
<1>3. 0 \in T
  <2>1. <<>> \in Seq(S)
    OBVIOUS
  <2> QED
    BY <1>2, <2>1, ReadOne DEF Joins
<1>4. ASSUME NEW n \in Nat, n \in T
      PROVE  n + 1 \in T
  <2>1. SUFFICES ASSUME n + 1 <= N
                 PROVE  k[n + 1] \in Seq(S) /\ ReadLines(q[0], k[n + 1]) = q[n + 1]
    OBVIOUS
  <2>2. n + 1 \in 1..N /\ (n + 1) - 1 = n /\ n <= N
    BY <1>1, <2>1
  <2>3. k[n + 1] = k[n] \o parts[n + 1] /\ q[n + 1] = ReadLines(q[n], parts[n + 1])
    BY <1>2, <2>2 DEF Joins
  <2>4. k[n] \in Seq(S) /\ parts[n + 1] \in Seq(S) /\ ReadLines(q[0], k[n]) = q[n]
    BY <1>1, <1>4, <2>2
  <2>5. /\ k[n] \o parts[n + 1] \in Seq(S)
        /\ ReadLines(q[0], k[n] \o parts[n + 1]) = ReadLines(ReadLines(q[0], k[n]), parts[n + 1])
    BY <2>4, ReadBoth
  <2> QED
    BY <2>3, <2>4, <2>5
<1>5. N \in T
  <2> HIDE DEF T
  <2> QED
    BY <1>1, <1>3, <1>4, Counting
<1> QED
  BY <1>1, <1>2, <1>5

(* The rules, and the groups, that a text with these traps holds.          *)
TextPath(rule, traps) == IF rule.trap = "" THEN rule.path ELSE traps[rule.trap]
TextRule(rule, traps) == Rule(rule.allow, TextPath(rule, traps))
TextGroup(g, traps) ==
  [agents |-> g.agents, rules |-> [j \in 1..Len(g.rules) |-> TextRule(g.rules[j], traps)]]

(* The lines whose values are in V.                                        *)
Keys == {"#", "user-agent", "allow", "disallow", "crawl-delay", "sitemap"}
Lines(V) == [key : Keys, value : V]

LEMMA OneMore ==
  ASSUME NEW n \in Nat, NEW S, NEW f, \A i \in 1..(n + 1) : f[i] \in S
  PROVE  Append([i \in 1..n |-> f[i]], f[n + 1]) = [i \in 1..(n + 1) |-> f[i]]
<1> DEFINE s == [i \in 1..n |-> f[i]]
           t == [i \in 1..(n + 1) |-> f[i]]
<1>1. s \in Seq(S) /\ t \in Seq(S) /\ Len(s) = n /\ Len(t) = n + 1 /\ f[n + 1] \in S
  <2>1. s \in [1..n -> S] /\ t \in [1..(n + 1) -> S] /\ n + 1 \in 1..(n + 1)
    OBVIOUS
  <2> HIDE DEF s, t
  <2> QED
    BY <2>1
<1>2. \A i \in 1..(n + 1) : Append(s, f[n + 1])[i] = t[i]
  <2> TAKE i \in 1..(n + 1)
  <2>1. CASE i = n + 1
    <3>1. Append(s, f[n + 1])[n + 1] = f[n + 1] /\ t[n + 1] = f[n + 1]
      <4> HIDE DEF s
      <4> QED
        BY <1>1
    <3> QED
      BY <2>1, <3>1
  <2>2. CASE i # n + 1
    <3>1. i \in 1..n
      BY <2>2
    <3>2. s[i] = f[i] /\ t[i] = f[i]
      BY <3>1
    <3> HIDE DEF s, t
    <3>3. Append(s, f[n + 1])[i] = s[i]
      BY <1>1, <3>1
    <3> QED
      BY <3>2, <3>3
  <2> QED
    BY <2>1, <2>2
<1> HIDE DEF s, t
<1>3. Append(s, f[n + 1]) \in Seq(S) /\ Len(Append(s, f[n + 1])) = n + 1
  BY <1>1
<1>4. Append(s, f[n + 1]) = t
  BY <1>1, <1>2, <1>3
<1> QED
  BY <1>4 DEF s, t

(* Every rule has a line, and its value is in V.                           *)
Legible(rules, traps, V) ==
  \A j \in 1..Len(rules) :
    /\ rules[j].allow \in BOOLEAN /\ TextPath(rules[j], traps) \in V
    /\ rules[j].trap # "" => traps[rules[j].trap] # <<>>

(* The lines of the rules of a group, read after its user-agent lines.     *)
LEMMA ReadRules ==
  ASSUME NEW groups, NEW agents, agents # <<>>, NEW R, NEW rules \in Seq(R), rules # <<>>,
         NEW traps, NEW V, Legible(rules, traps, V)
  PROVE  /\ FlattenSeq([j \in DOMAIN rules |-> RuleLines(rules[j], traps)]) \in Seq(Lines(V))
         /\ ReadLines([groups |-> groups, agents |-> agents, rules |-> <<>>, inRules |-> FALSE],
                      FlattenSeq([j \in DOMAIN rules |-> RuleLines(rules[j], traps)]))
              = [groups |-> groups, agents |-> agents, inRules |-> TRUE,
                 rules |-> [j \in 1..Len(rules) |-> TextRule(rules[j], traps)]]
<1> DEFINE N == Len(rules)
<1>1. N \in Nat /\ N # 0 /\ DOMAIN rules = 1..N
  OBVIOUS
<1>2. \A n \in 1..N : n \in 0..N /\ n - 1 \in 0..N /\ n - 1 \in Nat /\ (n - 1) + 1 = n /\ n # 0
  <2> HIDE DEF N
  <2> QED
    BY <1>1
<1> DEFINE S == Lines(V)
           line(j) == Line(IF rules[j].allow THEN "allow" ELSE "disallow", TextPath(rules[j], traps))
           f == [j \in 1..N |-> TextRule(rules[j], traps)]
<1>3. ASSUME NEW j \in 1..N
      PROVE  /\ RuleLines(rules[j], traps) = <<line(j)>> /\ line(j) \in S
             /\ line(j).key \in {"allow", "disallow"} /\ line(j).key # "user-agent"
             /\ f[j] = Rule(line(j).key = "allow", line(j).value)
  <2> HIDE DEF f
  <2>0. /\ rules[j].allow \in BOOLEAN /\ TextPath(rules[j], traps) \in V
        /\ rules[j].trap # "" => traps[rules[j].trap] # <<>>
    BY Zenon DEF Legible
  <2>1. RuleLines(rules[j], traps) = <<line(j)>>
    BY <2>0, Zenon DEF RuleLines, TextPath
  <2>2. line(j) \in S
    <3> DEFINE key == IF rules[j].allow THEN "allow" ELSE "disallow"
               value == TextPath(rules[j], traps)
    <3>1. (key = "allow" \/ key = "disallow") /\ value \in V
      BY <2>0, Zenon
    <3> HIDE DEF key, value
    <3>2. Line(key, value) \in S
      BY <3>1 DEF Line, Lines, Keys
    <3> QED
      BY <3>2 DEF key, value
  <2>3. line(j).key = (IF rules[j].allow THEN "allow" ELSE "disallow")
        /\ line(j).value = TextPath(rules[j], traps)
    BY DEF Line
  <2>4. f[j] = TextRule(rules[j], traps)
    BY DEF f
  <2> HIDE DEF line
  <2>5. rules[j].allow = (line(j).key = "allow")
    BY <2>0, <2>3
  <2> QED
    BY <2>1, <2>2, <2>3, <2>4, <2>5 DEF TextRule
<1>4. \A n \in 1..N : Append([j \in 1..(n - 1) |-> f[j]], f[n]) = [j \in 1..n |-> f[j]]
  <2> HIDE DEF f, N, S, line
  <2> TAKE n \in 1..N
  <2> DEFINE F == {f[j] : j \in 1..N}
  <2>1. \A i \in 1..((n - 1) + 1) : f[i] \in F
    BY <1>1, <1>2
  <2> HIDE DEF F
  <2>2. Append([i \in 1..(n - 1) |-> f[i]], f[(n - 1) + 1]) = [i \in 1..((n - 1) + 1) |-> f[i]]
    BY <1>2, <2>1, OneMore
  <2> QED
    BY <1>2, <2>2
<1>5. f = [j \in 1..N |-> f[j]]
  OBVIOUS
<1> HIDE DEF f, line
<1> DEFINE parts == [j \in DOMAIN rules |-> RuleLines(rules[j], traps)]
<1>6. parts \in Seq(Seq(S)) /\ Len(parts) = N /\ \A j \in 1..N : parts[j] = <<line(j)>>
  <2> HIDE DEF S, N
  <2>1. \A j \in 1..N : parts[j] = <<line(j)>> /\ <<line(j)>> \in Seq(S)
    BY <1>1, <1>3
  <2>2. parts \in [1..N -> Seq(S)]
    <3>1. \A j \in 1..N : RuleLines(rules[j], traps) \in Seq(S)
      <4>1. \A j \in 1..N : RuleLines(rules[j], traps) = <<line(j)>>
        BY <1>3, Zenon
      <4> QED
        BY <2>1, <4>1, Zenon
    <3> QED
      BY <1>1, <3>1
  <2> HIDE DEF parts
  <2> QED
    BY <1>1, <2>1, <2>2
<1> HIDE DEF parts
<1> DEFINE after(n, rs) == [groups |-> groups, agents |-> agents, rules |-> rs, inRules |-> n # 0]
           q == [n \in 0..N |-> after(n, [j \in 1..n |-> f[j]])]
<1>7. \A n \in 0..N : q[n] = after(n, [j \in 1..n |-> f[j]])
  OBVIOUS
<1> HIDE DEF q
<1>8. ASSUME NEW n \in 1..N
      PROVE  q[n] = ReadLines(q[n - 1], parts[n])
  <2>1. ReadLines(q[n - 1], parts[n]) = ReadLine(q[n - 1], line(n))
    BY <1>6, ReadOne
  <2> DEFINE rs == [j \in 1..(n - 1) |-> f[j]]
  <2>2. q[n - 1] = after(n - 1, rs) /\ q[n] = after(n, Append(rs, f[n]))
    <3>1. n \in 0..N /\ n - 1 \in 0..N
      BY <1>2
    <3> HIDE DEF after, N
    <3> QED
      BY <1>4, <1>7, <3>1
  <2> HIDE DEF rs
  <2>3. ReadLine(after(n - 1, rs), line(n)) = after(n, Append(rs, f[n]))
    <3>1. n # 0
      BY <1>2
    <3> HIDE DEF N, S
    <3>2. ReadLine(after(n - 1, rs), line(n))
            = [after(n - 1, rs) EXCEPT !.inRules = TRUE, !.rules = Append(@, f[n])]
      <4>1. after(n - 1, rs).agents # <<>>
        OBVIOUS
      <4> HIDE DEF after
      <4> QED
        BY <1>3, <4>1 DEF ReadLine
    <3> QED
      BY <3>1, <3>2
  <2> QED
    BY <2>1, <2>2, <2>3
<1>9. q[0] = [groups |-> groups, agents |-> agents, rules |-> <<>>, inRules |-> FALSE]
  <2>1. q[0] = after(0, [j \in 1..0 |-> f[j]])
    <3>1. 0 \in 0..N
      BY <1>1
    <3> HIDE DEF after, N
    <3> QED
      BY <1>7, <3>1, Zenon
  <2>2. [j \in 1..0 |-> f[j]] = <<>>
    OBVIOUS
  <2> QED
    BY <2>1, <2>2
<1>10. q[N] = [groups |-> groups, agents |-> agents, rules |-> f, inRules |-> TRUE]
  <2>1. q[N] = after(N, f)
    <3> HIDE DEF after, N
    <3> QED
      BY <1>1, <1>5, <1>7
  <2> HIDE DEF N
  <2> QED
    BY <1>1, <2>1
<1> HIDE DEF after, S
<1>11. FlattenSeq(parts) \in Seq(S) /\ ReadLines(q[0], FlattenSeq(parts)) = q[N]
  BY <1>6, <1>8, ReadParts
<1> QED
  BY <1>9, <1>10, <1>11 DEF parts, S, f

(* A group with one agent and some rules, all of which have a line.        *)
Readable(g, traps, V, R) ==
  \E a \in V, rules \in Seq(R) :
    g = [agents |-> <<a>>, rules |-> rules] /\ rules # <<>> /\ Legible(rules, traps, V)

(* The lines of a group, read after those of another one or at the start.  *)
LEMMA ReadGroup ==
  ASSUME NEW g, NEW traps, NEW V, <<>> \in V, NEW R, Readable(g, traps, V, R),
         NEW p, p = Unread \/ p.inRules = TRUE
  PROVE  /\ GroupLines(g, traps) \in Seq(Lines(V))
         /\ ReadLines(p, GroupLines(g, traps))
              = [groups |-> IF p.inRules THEN Closed(p) ELSE <<>>,
                 agents |-> g.agents, rules |-> TextGroup(g, traps).rules, inRules |-> TRUE]
<1>1. PICK a \in V, rules \in Seq(R) :
        g = [agents |-> <<a>>, rules |-> rules] /\ rules # <<>> /\ Legible(rules, traps, V)
  BY DEF Readable
<1> DEFINE S == Lines(V)
           agents == <<a>>
           first == Line("user-agent", a)
           middle == FlattenSeq([j \in DOMAIN rules |-> RuleLines(rules[j], traps)])
           last == Line("crawl-delay", <<>>)
           front == <<first>>
           back == <<last>>
           groups == IF p.inRules THEN Closed(p) ELSE <<>>
           opened == [groups |-> groups, agents |-> agents, rules |-> <<>>, inRules |-> FALSE]
           done == [groups |-> groups, agents |-> agents, inRules |-> TRUE,
                    rules |-> [j \in 1..Len(rules) |-> TextRule(rules[j], traps)]]
<1>2. front \in Seq(S) /\ back \in Seq(S)
  <2>1. first \in S /\ last \in S
    BY DEF Line, Lines, Keys
  <2> HIDE DEF first, last, S
  <2> QED
    BY <2>1
<1>3. GroupLines(g, traps) = (front \o middle) \o back
  <2>1. [i \in DOMAIN <<a>> |-> Line("user-agent", <<a>>[i])] = front
    <3>1. DOMAIN <<a>> = 1..1 /\ \A i \in 1..1 : <<a>>[i] = a
      OBVIOUS
    <3> HIDE DEF first
    <3>2. [i \in 1..1 |-> first] = front
      OBVIOUS
    <3> QED
      BY <3>1, <3>2, Zenon DEF first
  <2>2. g.agents = <<a>> /\ g.rules = rules
    BY <1>1
  <2>3. [i \in DOMAIN g.agents |-> Line("user-agent", g.agents[i])] = front
    BY <2>1, <2>2, Zenon
  <2>4. FlattenSeq([j \in DOMAIN g.rules |-> RuleLines(g.rules[j], traps)]) = middle
    BY <2>2, Zenon
  <2> HIDE DEF first, last, front, middle
  <2> QED
    BY <2>3, <2>4, Zenon DEF GroupLines, last
<1>4. ReadLine(p, first) = opened
  <2>1. first.key = "user-agent" /\ first.value = a
    BY DEF Line
  <2> HIDE DEF first
  <2>2. CASE p.inRules = TRUE
    BY <2>1, <2>2 DEF ReadLine
  <2>3. CASE p = Unread
    <3>1. p.inRules = FALSE /\ p.agents = <<>> /\ p.groups = <<>> /\ p.rules = <<>>
      BY <2>3 DEF Unread
    <3>2. ReadLine(p, first) = [p EXCEPT !.agents = Append(@, a)]
      BY <2>1, <3>1 DEF ReadLine
    <3>3. Append(<<>>, a) = <<a>>
      OBVIOUS
    <3> QED
      BY <2>3, <3>1, <3>2, <3>3 DEF Unread
  <2> QED
    BY <2>2, <2>3
<1>5. ReadLine(done, last) = done
  <2>1. last.key = "crawl-delay"
    BY DEF Line
  <2> HIDE DEF last, done
  <2> QED
    BY <2>1 DEF ReadLine
<1>6. middle \in Seq(S) /\ ReadLines(opened, middle) = done
  <2>1. agents # <<>>
    OBVIOUS
  <2> HIDE DEF groups, agents
  <2> QED
    BY <1>1, <2>1, ReadRules
<1>7. TextGroup(g, traps).rules = done.rules /\ g.agents = done.agents
  BY <1>1 DEF TextGroup
<1> HIDE DEF middle, first, last, opened, S, groups
<1>8. ReadLines(p, front) = opened /\ ReadLines(done, back) = done
  <2> HIDE DEF done
  <2> QED
    BY <1>4, <1>5, ReadOne DEF front, back
<1> HIDE DEF front, back
<1> DEFINE most == front \o middle
<1>9. most \in Seq(S) /\ ReadLines(p, most) = done
  <2>1. most \in Seq(S) /\ ReadLines(p, most) = ReadLines(ReadLines(p, front), middle)
    BY <1>2, <1>6, ReadBoth
  <2> HIDE DEF most, done
  <2> QED
    BY <1>6, <1>8, <2>1
<1> HIDE DEF most, done
<1>10. most \o back \in Seq(S) /\ ReadLines(p, most \o back) = done
  <2>1. /\ most \o back \in Seq(S)
        /\ ReadLines(p, most \o back) = ReadLines(ReadLines(p, most), back)
    BY <1>2, <1>9, ReadBoth
  <2> QED
    BY <1>8, <1>9, <2>1
<1> QED
  BY <1>3, <1>7, <1>10 DEF most, done, S, groups

(* The whole text: the parser gets back the groups, with the traps in it.  *)
LEMMA ParseText ==
  ASSUME NEW traps, NEW V, <<>> \in V, NEW R, NEW Q, Groups \in Seq(Q), Groups # <<>>,
         \A i \in 1..Len(Groups) : Readable(Groups[i], traps, V, R)
  PROVE  Parse(Text(traps)) = [i \in 1..Len(Groups) |-> TextGroup(Groups[i], traps)]
<1> DEFINE N == Len(Groups)
           G == [i \in 1..N |-> TextGroup(Groups[i], traps)]
<1>1. N \in Nat /\ N # 0 /\ DOMAIN Groups = 1..N
  OBVIOUS
<1> HIDE DEF N
<1>2. \A n \in 1..N : n \in 0..N /\ n - 1 \in 0..N /\ n - 1 \in Nat /\ (n - 1) + 1 = n /\ n # 0
  BY <1>1
<1>3. ASSUME NEW n \in 1..N
      PROVE  /\ G[n] = TextGroup(Groups[n], traps) /\ Readable(Groups[n], traps, V, R)
             /\ G[n] = [agents |-> Groups[n].agents, rules |-> G[n].rules]
  <2>1. G[n] = TextGroup(Groups[n], traps)
    OBVIOUS
  <2> HIDE DEF G
  <2> QED
    BY <1>1, <2>1 DEF TextGroup, N
<1>4. G = [i \in 1..N |-> G[i]]
  OBVIOUS
<1> HIDE DEF G
<1> DEFINE S == Lines(V)
           first == <<Line("#", <<>>)>>
           last == <<Line("sitemap", <<>>)>>
           parts == [i \in DOMAIN Groups |-> GroupLines(Groups[i], traps)]
           state(n) == [groups |-> [k \in 1..(n - 1) |-> G[k]], agents |-> Groups[n].agents,
                        rules |-> G[n].rules, inRules |-> TRUE]
           q == [n \in 0..N |-> IF n = 0 THEN Unread ELSE state(n)]
<1>5. first \in Seq(S) /\ last \in Seq(S)
  <2> DEFINE a == Line("#", <<>>)
             b == Line("sitemap", <<>>)
  <2>1. a \in S /\ b \in S
    BY DEF Line, Lines, Keys
  <2> HIDE DEF a, b, S
  <2>2. <<a>> \in Seq(S) /\ <<b>> \in Seq(S)
    BY <2>1
  <2> QED
    BY <2>2 DEF a, b
<1>6. parts \in Seq(Seq(S)) /\ Len(parts) = N /\ \A n \in 1..N : parts[n] = GroupLines(Groups[n], traps)
  <2>1. \A n \in 1..N : GroupLines(Groups[n], traps) \in Seq(S)
    <3> TAKE n \in 1..N
    <3>1. Readable(Groups[n], traps, V, R)
      BY <1>3
    <3> QED
      BY <3>1, ReadGroup
  <2> HIDE DEF S
  <2>2. parts \in [1..N -> Seq(S)] /\ \A n \in 1..N : parts[n] = GroupLines(Groups[n], traps)
    BY <1>1, <2>1
  <2> HIDE DEF parts
  <2> QED
    BY <1>1, <2>2
<1>7. q[0] = Unread /\ \A n \in 1..N : q[n] = state(n)
  <2> HIDE DEF state
  <2> QED
    BY <1>1, <1>2
<1>8. \A n \in 1..N : state(n).inRules = TRUE /\ Closed(state(n)) = [k \in 1..n |-> G[k]]
  <2> TAKE n \in 1..N
  <2>1. Closed(state(n)) = Append([k \in 1..(n - 1) |-> G[k]], G[n])
    BY <1>3 DEF Closed
  <2> DEFINE F == {G[k] : k \in 1..N}
  <2>2. \A k \in 1..((n - 1) + 1) : G[k] \in F
    BY <1>1, <1>2
  <2> HIDE DEF F
  <2>3. Append([k \in 1..(n - 1) |-> G[k]], G[(n - 1) + 1]) = [k \in 1..((n - 1) + 1) |-> G[k]]
    BY <1>2, <2>2, OneMore
  <2>4. state(n).inRules = TRUE
    OBVIOUS
  <2> HIDE DEF state
  <2> QED
    BY <1>2, <2>1, <2>3, <2>4
<1>9. ASSUME NEW n \in 1..N
      PROVE  q[n] = ReadLines(q[n - 1], parts[n])
  <2> DEFINE p == q[n - 1]
             groups == IF p.inRules THEN Closed(p) ELSE <<>>
  <2>1. p = Unread \/ p.inRules = TRUE
    <3> HIDE DEF q, state
    <3> QED
      BY <1>2, <1>7, <1>8
  <2>2. groups = [k \in 1..(n - 1) |-> G[k]]
    <3>1. CASE n = 1
      <4>1. p = Unread
        <5> HIDE DEF q
        <5> QED
          BY <1>7, <3>1
      <4>2. groups = <<>>
        <5> HIDE DEF p
        <5> QED
          BY <4>1 DEF Unread
      <4>3. [k \in 1..(1 - 1) |-> G[k]] = <<>>
        OBVIOUS
      <4> QED
        BY <3>1, <4>2, <4>3
    <3>2. CASE n # 1
      <4>1. n - 1 \in 1..N
        BY <1>1, <3>2
      <4> HIDE DEF q, state
      <4> QED
        BY <1>7, <1>8, <4>1
    <3> QED
      BY <3>1, <3>2
  <2>3. Readable(Groups[n], traps, V, R) /\ G[n].rules = TextGroup(Groups[n], traps).rules
    BY <1>3
  <2> HIDE DEF p
  <2>4. ReadLines(p, GroupLines(Groups[n], traps))
          = [groups |-> groups, agents |-> Groups[n].agents,
             rules |-> TextGroup(Groups[n], traps).rules, inRules |-> TRUE]
    BY <2>1, <2>3, ReadGroup
  <2> HIDE DEF groups
  <2>5. state(n) = ReadLines(p, GroupLines(Groups[n], traps))
    BY <2>2, <2>3, <2>4
  <2> HIDE DEF q, state
  <2> QED
    BY <1>6, <1>7, <2>5 DEF p
<1> DEFINE middle == FlattenSeq(parts)
<1>10. middle \in Seq(S) /\ ReadLines(Unread, middle) = state(N)
  <2> HIDE DEF q, state, parts, S
  <2>1. middle \in Seq(S) /\ ReadLines(q[0], middle) = q[N]
    BY <1>6, <1>9, ReadParts
  <2>2. N \in 1..N
    BY <1>1
  <2> QED
    BY <1>7, <2>1, <2>2
<1>11. ReadLine(Unread, Line("#", <<>>)) = Unread
  BY DEF ReadLine, Unread, Line
<1>12. ReadLine(state(N), Line("sitemap", <<>>)) = state(N)
  <2> HIDE DEF state
  <2> QED
    BY DEF ReadLine, Line
<1>13. Text(traps) = (first \o middle) \o last
  <2> HIDE DEF parts
  <2> QED
    BY DEF Text, parts
<1>14. ReadLines(Unread, first) = Unread /\ ReadLines(state(N), last) = state(N)
  <2> HIDE DEF state
  <2> QED
    BY <1>11, <1>12, ReadOne
<1>15. state(N).agents # <<>> /\ Closed(state(N)) = G
  <2>1. N \in 1..N
    BY <1>1
  <2>2. Readable(Groups[N], traps, V, R)
    BY <1>3, <2>1
  <2>3. Groups[N].agents # <<>>
    <3>1. PICK a : Groups[N].agents = <<a>>
      BY <2>2 DEF Readable
    <3> QED
      BY <3>1
  <2>4. Closed(state(N)) = G
    <3> HIDE DEF state
    <3> QED
      BY <1>4, <1>8, <2>1
  <2> QED
    BY <2>3, <2>4
<1> HIDE DEF state, middle, first, last, S
<1> DEFINE most == first \o middle
<1>16. most \in Seq(S) /\ ReadLines(Unread, most) = ReadLines(ReadLines(Unread, first), middle)
  BY <1>5, <1>10, ReadBoth
<1> HIDE DEF most
<1>17. ReadLines(Unread, most \o last) = ReadLines(ReadLines(Unread, most), last)
  BY <1>5, <1>16, ReadBoth
<1>18. ReadLines(Unread, Text(traps)) = state(N)
  BY <1>10, <1>13, <1>14, <1>16, <1>17 DEF most
<1> QED
  BY <1>15, <1>18 DEF Parse, G, N

-----------------------------------------------------------------------------
(* Matching.                                                               *)

(* r tells how far into the path the first atoms of the pattern reach.     *)
Reaches(r, pattern, path) ==
  /\ DOMAIN r = 0..Len(pattern) /\ r[0] = {0}
  /\ \A n \in 1..Len(pattern) : r[n] = Reached(pattern, path, n, r[n - 1])

LEMMA ReachesExist ==
  ASSUME NEW S, NEW pattern \in Seq(S), NEW path
  PROVE  \E r : Reaches(r, pattern, path)
<1> DEFINE Good(m, r) == /\ DOMAIN r = 0..m /\ r[0] = {0}
                         /\ \A n \in 1..m : r[n] = Reached(pattern, path, n, r[n - 1])
           T == {m \in Nat : \E r : Good(m, r)}
<1>1. 0 \in T
  <2> DEFINE f == [n \in 0..0 |-> {0}]
  <2>1. DOMAIN f = 0..0 /\ f[0] = {0} /\ 1..0 = {}
    OBVIOUS
  <2> HIDE DEF f
  <2>2. Good(0, f)
    BY <2>1
  <2> QED
    BY <2>2
<1>2. ASSUME NEW m \in Nat, m \in T
      PROVE  m + 1 \in T
  <2>1. PICK f : Good(m, f)
    BY <1>2
  <2> DEFINE g == [n \in 0..(m + 1) |->
                     IF n = m + 1 THEN Reached(pattern, path, m + 1, f[m]) ELSE f[n]]
  <2>2. \A n \in 0..m : n \in 0..(m + 1) /\ n # m + 1 /\ g[n] = f[n]
    OBVIOUS
  <2>3. g[m + 1] = Reached(pattern, path, m + 1, f[m]) /\ (m + 1) - 1 = m /\ m \in 0..m
    <3>1. m + 1 \in 0..(m + 1) /\ (m + 1) - 1 = m /\ m \in 0..m
      OBVIOUS
    <3> QED
      BY <3>1, Zenon
  <2>4. DOMAIN g = 0..(m + 1) /\ m + 1 \in Nat
    OBVIOUS
  <2> HIDE DEF g
  <2>5. ASSUME NEW n \in 1..(m + 1)
        PROVE  g[n] = Reached(pattern, path, n, g[n - 1])
    <3>1. CASE n = m + 1
      BY <2>2, <2>3, <3>1
    <3>2. CASE n # m + 1
      <4>1. n \in 1..m /\ n \in 0..m /\ n - 1 \in 0..m
        BY <3>2
      <4> QED
        BY <2>1, <2>2, <4>1
    <3> QED
      BY <3>1, <3>2
  <2>6. g[0] = {0}
    BY <2>1, <2>2
  <2>7. Good(m + 1, g)
    BY <2>4, <2>5, <2>6
  <2> HIDE DEF Good
  <2> QED
    BY <2>4, <2>7
<1>3. Len(pattern) \in T
  <2>1. Len(pattern) \in Nat
    OBVIOUS
  <2> HIDE DEF T
  <2> QED
    BY <1>1, <1>2, <2>1, Counting
<1> QED
  BY <1>3 DEF Reaches

LEMMA MatchesReaches ==
  ASSUME NEW S, NEW pattern \in Seq(S), NEW path
  PROVE  \E r : Reaches(r, pattern, path) /\ (Matches(pattern, path) <=> r[Len(pattern)] # {})
<1> DEFINE N == Len(pattern)
           Def(g) == [n \in 0..N |-> IF n = 0 THEN {0} ELSE Reached(pattern, path, n, g[n - 1])]
           h == CHOOSE g : g = Def(g)
<1>1. N \in Nat
  OBVIOUS
<1>2. Matches(pattern, path) <=> h[N] # {}
  BY DEF Matches
<1>3. PICK f : Reaches(f, pattern, path)
  BY ReachesExist
<1> DEFINE e == [n \in 0..N |-> f[n]]
<1>4. e = Def(e)
  <2>1. ASSUME NEW n \in 0..N
        PROVE  e[n] = IF n = 0 THEN {0} ELSE Reached(pattern, path, n, e[n - 1])
    <3>1. n # 0 => n \in 1..N /\ n - 1 \in 0..N
      BY <1>1
    <3> QED
      BY <1>3, <3>1 DEF Reaches
  <2> QED
    BY <2>1
<1>5. h = Def(h)
  <2> HIDE DEF Def, e
  <2> QED
    BY <1>4
<1>6. Reaches(h, pattern, path)
  <2> HIDE DEF h
  <2>1. 0 \in 0..N /\ \A n \in 1..N : n \in 0..N /\ n # 0
    BY <1>1
  <2>2. DOMAIN h = 0..N /\ h[0] = {0}
    BY <1>5, <2>1
  <2>3. \A n \in 1..N : h[n] = Reached(pattern, path, n, h[n - 1])
    BY <1>5, <2>1
  <2> QED
    BY <2>2, <2>3 DEF Reaches
<1> HIDE DEF h
<1> QED
  BY <1>2, <1>6

(* The first m atoms of the pattern are those of the path.                 *)
Begins(pattern, m, path) == m <= Len(path) /\ \A i \in 1..m : path[i] = pattern[i]

(* As long as there is no wildcard, the path has to begin as the pattern.  *)
LEMMA PlainReaches ==
  ASSUME NEW S, NEW P, NEW pattern \in Seq(S), NEW path \in Seq(P), NEW r, Reaches(r, pattern, path),
         NEW m \in 0..Len(pattern), \A i \in 1..m : pattern[i] # Star /\ pattern[i] # End
  PROVE  \A n \in 0..m : r[n] = IF Begins(pattern, n, path) THEN {n} ELSE {}
<1> DEFINE L == Len(path)
           Good(n) == r[n] = IF Begins(pattern, n, path) THEN {n} ELSE {}
           T == {n \in Nat : n <= m => Good(n)}
<1>1. L \in Nat /\ m \in Nat /\ Len(pattern) \in Nat /\ m <= Len(pattern)
  OBVIOUS
<1> HIDE DEF L
<1>2. 0 \in T
  <2>1. Begins(pattern, 0, path)
    BY <1>1 DEF Begins, L
  <2> QED
    BY <2>1 DEF Reaches
<1>3. ASSUME NEW n \in Nat, n \in T
      PROVE  n + 1 \in T
  <2>1. SUFFICES ASSUME n + 1 <= m PROVE Good(n + 1)
    OBVIOUS
  <2>2. n + 1 \in 1..m /\ n + 1 \in 1..Len(pattern) /\ (n + 1) - 1 = n /\ n <= m /\ n # n + 1
    BY <1>1, <2>1
  <2>3. r[n + 1] = Reached(pattern, path, n + 1, r[n])
    BY <2>2 DEF Reaches
  <2>4. pattern[n + 1] # Star /\ pattern[n + 1] # End
    BY <2>2
  <2>5. Reached(pattern, path, n + 1, r[n])
          = {j + 1 : j \in {j \in r[n] : j < L /\ path[j + 1] = pattern[n + 1]}}
    BY <2>4, Zenon DEF Reached, L
  <2>6. Begins(pattern, n + 1, path)
          <=> Begins(pattern, n, path) /\ n < L /\ path[n + 1] = pattern[n + 1]
    <3>1. \A i \in 1..(n + 1) : i \in 1..n \/ i = n + 1
      OBVIOUS
    <3>2. 1..n \subseteq 1..(n + 1) /\ n + 1 \in 1..(n + 1) /\ (n + 1 <= L <=> n < L) /\ (n < L => n <= L)
      BY <1>1
    <3> QED
      BY <3>1, <3>2 DEF Begins, L
  <2>7. Good(n)
    BY <1>3, <2>2
  <2>8. CASE Begins(pattern, n, path) /\ n < L /\ path[n + 1] = pattern[n + 1]
    <3>1. r[n] = {n}
      BY <2>7, <2>8
    <3> QED
      BY <2>3, <2>5, <2>6, <2>8, <3>1
  <2>9. CASE ~(Begins(pattern, n, path) /\ n < L /\ path[n + 1] = pattern[n + 1])
    <3>1. \A j \in r[n] : j = n /\ Begins(pattern, n, path)
      BY <2>7
    <3>2. {j \in r[n] : j < L /\ path[j + 1] = pattern[n + 1]} = {}
      BY <2>9, <3>1
    <3> QED
      BY <2>3, <2>5, <2>6, <2>9, <3>2
  <2> QED
    BY <2>8, <2>9
<1>4. Nat \subseteq T
  <2> HIDE DEF T
  <2> QED
    BY <1>2, <1>3, Counting
<1> QED
  BY <1>1, <1>4

LEMMA PlainMatches ==
  ASSUME NEW S, NEW P, NEW pattern \in Seq(S), NEW path \in Seq(P),
         \A i \in 1..Len(pattern) : pattern[i] # Star /\ pattern[i] # End
  PROVE  Matches(pattern, path) <=> Begins(pattern, Len(pattern), path)
<1>1. PICK r : Reaches(r, pattern, path) /\ (Matches(pattern, path) <=> r[Len(pattern)] # {})
  BY MatchesReaches
<1>2. Len(pattern) \in 0..Len(pattern)
  OBVIOUS
<1>3. r[Len(pattern)] = IF Begins(pattern, Len(pattern), path) THEN {Len(pattern)} ELSE {}
  BY <1>1, <1>2, PlainReaches
<1> QED
  BY <1>1, <1>3

LEMMA MatchBegins ==
  ASSUME NEW S, NEW P, NEW pattern \in Seq(S), NEW path \in Seq(P), Matches(pattern, path),
         NEW m \in 0..Len(pattern), \A i \in 1..m : pattern[i] # Star /\ pattern[i] # End
  PROVE  Begins(pattern, m, path)
<1> DEFINE N == Len(pattern)
<1>1. N \in Nat /\ m \in 0..N
  OBVIOUS
<1> HIDE DEF N
<1>2. PICK r : Reaches(r, pattern, path) /\ r[N] # {}
  BY MatchesReaches DEF N
<1>3. ASSUME ~Begins(pattern, m, path)
      PROVE  FALSE
  <2>1. m \in 0..m
    BY <1>1
  <2>2. r[m] = {}
    BY <1>2, <1>3, <2>1, PlainReaches DEF N
  <2> DEFINE T == {n \in Nat : m + n <= N => r[m + n] = {}}
  <2>3. 0 \in T
    BY <1>1, <2>2
  <2>4. ASSUME NEW n \in Nat, n \in T
        PROVE  n + 1 \in T
    <3>1. SUFFICES ASSUME m + (n + 1) <= N PROVE r[m + (n + 1)] = {}
      OBVIOUS
    <3>2. m + (n + 1) \in 1..N /\ (m + (n + 1)) - 1 = m + n /\ m + n <= N
      BY <1>1, <3>1
    <3>3. r[m + n] = {} /\ r[m + (n + 1)] = Reached(pattern, path, m + (n + 1), r[m + n])
      BY <1>2, <2>4, <3>2 DEF Reaches, N
    <3> DEFINE k == m + (n + 1)
    <3> HIDE DEF k
    <3>4. Reached(pattern, path, k, {}) = {}
      BY DEF Reached
    <3> QED
      BY <3>3, <3>4 DEF k
  <2>5. N - m \in T
    <3> HIDE DEF T
    <3> QED
      BY <1>1, <2>3, <2>4, Counting
  <2>6. N - m \in Nat /\ m + (N - m) = N
    BY <1>1
  <2> QED
    BY <1>1, <1>2, <2>5, <2>6
<1> QED
  BY <1>3

(* What matches a pattern still does with a Star for one of its atoms.     *)
LEMMA StarMatches ==
  ASSUME NEW S, NEW P, NEW pattern \in Seq(S), NEW wild \in Seq(S), NEW path \in Seq(P),
         Begins(pattern, Len(pattern), path), Len(wild) = Len(pattern),
         NEW k \in 1..Len(wild), wild[k] = Star,
         \A i \in 1..Len(wild) : i # k => wild[i] = pattern[i] /\ wild[i] # Star /\ wild[i] # End
  PROVE  Matches(wild, path)
<1> DEFINE N == Len(wild)
<1>1. N \in Nat /\ Len(path) \in Nat /\ N <= Len(path)
  <2>1. N \in Nat /\ Len(path) \in Nat /\ N = Len(pattern)
    OBVIOUS
  <2>2. Len(pattern) <= Len(path)
    BY DEF Begins
  <2> QED
    BY <2>1, <2>2
<1>2. PICK r : Reaches(r, wild, path) /\ (Matches(wild, path) <=> r[N] # {})
  BY MatchesReaches
<1> DEFINE T == {n \in Nat : n <= N => n \in r[n]}
<1>3. 0 \in T
  BY <1>2 DEF Reaches
<1>4. ASSUME NEW n \in Nat, n \in T
      PROVE  n + 1 \in T
  <2>1. SUFFICES ASSUME n + 1 <= N PROVE n + 1 \in r[n + 1]
    OBVIOUS
  <2>2. n + 1 \in 1..N /\ (n + 1) - 1 = n /\ n <= N /\ n < Len(path) /\ n + 1 \in 0..Len(path)
    BY <1>1, <2>1
  <2>3. r[n + 1] = Reached(wild, path, n + 1, r[n]) /\ n \in r[n]
    BY <1>2, <1>4, <2>2 DEF Reaches
  <2>4. CASE n + 1 = k
    <3>1. r[n + 1] = {l \in 0..Len(path) : \E j \in r[n] : j <= l}
      <4>1. wild[n + 1] = Star /\ wild[n + 1] # End
        <5>1. <<"*">> # <<"$">>
          OBVIOUS
        <5> QED
          BY <2>4, <5>1 DEF Star, End
      <4> HIDE DEF N
      <4>2. Reached(wild, path, n + 1, r[n]) = {l \in 0..Len(path) : \E j \in r[n] : j <= l}
        BY <4>1, Zenon DEF Reached
      <4> QED
        BY <2>3, <4>2
    <3>2. n <= n + 1
      OBVIOUS
    <3> QED
      BY <2>2, <2>3, <3>1, <3>2
  <2>5. CASE n + 1 # k
    <3>1. wild[n + 1] = pattern[n + 1] /\ wild[n + 1] # Star /\ wild[n + 1] # End
      BY <2>2, <2>5
    <3>2. r[n + 1] = {j + 1 : j \in {j \in r[n] : j < Len(path) /\ path[j + 1] = wild[n + 1]}}
      BY <2>3, <3>1, Zenon DEF Reached
    <3>3. path[n + 1] = pattern[n + 1]
      BY <2>2 DEF Begins
    <3> QED
      BY <2>2, <2>3, <3>1, <3>2, <3>3
  <2> QED
    BY <2>4, <2>5
<1>5. N \in T
  <2> HIDE DEF T
  <2> QED
    BY <1>1, <1>3, <1>4, Counting
<1> QED
  BY <1>1, <1>2, <1>5

-----------------------------------------------------------------------------
(* The paths and patterns of the rules, atom by atom.                      *)

LEMMA UnderTop == Under(<<>>) = <<Slash>>
<1>1. 2 * Len(<<>>) + 1 = 1
  OBVIOUS
<1>2. \A i \in 1..1 : i = 1 /\ i % 2 = 1
  OBVIOUS
<1>3. Under(<<>>) = [i \in 1..1 |-> Slash]
  BY <1>1, <1>2 DEF Under
<1> QED
  BY <1>3

LEMMA UnderOne == \A a : Under(<<a>>) = <<Slash, <<a>>, Slash>>
<1> TAKE a
<1> DEFINE d == <<a>>
<1>1. 2 * Len(d) + 1 = 3 /\ d[1] = a
  OBVIOUS
<1> HIDE DEF d
<1>2. /\ 1 % 2 = 1 /\ 2 % 2 # 1 /\ 3 % 2 = 1 /\ 2 \div 2 = 1
      /\ \A i \in 1..3 : i = 1 \/ i = 2 \/ i = 3
  OBVIOUS
<1> DEFINE u == Under(d)
<1>3. u = [i \in 1..3 |-> IF i % 2 = 1 THEN Slash ELSE <<d[i \div 2]>>]
  BY <1>1 DEF Under
<1> HIDE DEF u
<1>4. u[1] = Slash /\ u[2] = <<a>> /\ u[3] = Slash /\ DOMAIN u = 1..3 /\ u = [i \in 1..3 |-> u[i]]
  BY <1>1, <1>2, <1>3
<1>5. u = <<Slash, <<a>>, Slash>>
  BY <1>2, <1>4
<1> QED
  BY <1>5 DEF u, d

LEMMA UnderTwo == \A a, b : Under(<<a, b>>) = <<Slash, <<a>>, Slash, <<b>>, Slash>>
<1> TAKE a, b
<1> DEFINE d == <<a, b>>
<1>1. 2 * Len(d) + 1 = 5 /\ d[1] = a /\ d[2] = b
  OBVIOUS
<1> HIDE DEF d
<1>2. /\ 1 % 2 = 1 /\ 2 % 2 # 1 /\ 3 % 2 = 1 /\ 4 % 2 # 1 /\ 5 % 2 = 1 /\ 2 \div 2 = 1 /\ 4 \div 2 = 2
      /\ \A i \in 1..5 : i = 1 \/ i = 2 \/ i = 3 \/ i = 4 \/ i = 5
  OBVIOUS
<1> DEFINE u == Under(d)
<1>3. u = [i \in 1..5 |-> IF i % 2 = 1 THEN Slash ELSE <<d[i \div 2]>>]
  BY <1>1 DEF Under
<1> HIDE DEF u
<1>4. /\ u[1] = Slash /\ u[2] = <<a>> /\ u[3] = Slash /\ u[4] = <<b>> /\ u[5] = Slash
      /\ DOMAIN u = 1..5 /\ u = [i \in 1..5 |-> u[i]]
  BY <1>1, <1>2, <1>3
<1>5. u = <<Slash, <<a>>, Slash, <<b>>, Slash>>
  BY <1>2, <1>4
<1> QED
  BY <1>5 DEF u, d

LEMMA OneLonger ==
  ASSUME NEW S, NEW s \in Seq(S), NEW x \in S
  PROVE  /\ Append(s, x) \in Seq(S) /\ Len(Append(s, x)) = Len(s) + 1
         /\ Append(s, x)[Len(s) + 1] = x
OBVIOUS

LEMMA OneLongerAt ==
  ASSUME NEW S, NEW s \in Seq(S), NEW x \in S, NEW i \in 1..Len(s)
  PROVE  Append(s, x)[i] = s[i]
OBVIOUS

LEMMA FileTwo ==
  \A a, b, c : File(<<a, b>>, c) = <<Slash, <<a>>, Slash, <<b>>, Slash, <<c>>>>
<1> TAKE a, b, c
<1> DEFINE S == {Slash, <<a>>, <<b>>, <<c>>}
           u == <<Slash, <<a>>, Slash, <<b>>, Slash>>
           e == <<c>>
           f == Append(u, e)
<1>1. /\ u \in Seq(S) /\ e \in S /\ Len(u) = 5
      /\ u[1] = Slash /\ u[2] = <<a>> /\ u[3] = Slash /\ u[4] = <<b>> /\ u[5] = Slash
  OBVIOUS
<1>2. File(<<a, b>>, c) = f
  BY UnderTwo DEF File
<1> HIDE DEF S, u, e
<1>3. /\ f \in Seq(S) /\ Len(f) = 6 /\ f[1] = u[1] /\ f[2] = u[2] /\ f[3] = u[3]
      /\ f[4] = u[4] /\ f[5] = u[5] /\ f[6] = e
  <2>1. f \in Seq(S) /\ Len(f) = Len(u) + 1 /\ f[Len(u) + 1] = e
    BY <1>1, OneLonger
  <2>2. \A i \in 1..Len(u) : f[i] = u[i]
    BY <1>1, OneLongerAt
  <2> HIDE DEF f
  <2>3. \A i \in 1..5 : f[i] = u[i]
    BY <1>1, <2>2
  <2> QED
    BY <1>1, <2>1, <2>3
<1> HIDE DEF f
<1>4. f = [i \in 1..6 |-> f[i]] /\ \A i \in 1..6 : i \in {1, 2, 3, 4, 5, 6}
  <2>1. f = [i \in 1..Len(f) |-> f[i]] /\ Len(f) \in Nat
    BY <1>3
  <2> QED
    BY <1>3, <2>1
<1>5. f = <<Slash, <<a>>, Slash, <<b>>, Slash, e>>
  BY <1>1, <1>3, <1>4
<1> QED
  BY <1>2, <1>5 DEF e

(* The standards whose trap paths a robots file mentions.                  *)
RuleStandards == Robots \union {"control_allow"}

LEMMA TrapPathOf ==
  ASSUME NEW s \in RuleStandards, NEW t
  PROVE  TrapPath(s, t) = <<Slash, <<"internal">>, Slash, <<s>>, Slash, t, Slash, <<"leaf">>>>
<1>1. TrapDir(s) = <<"internal">>
  BY DEF RuleStandards, Robots, TrapDir
<1> DEFINE d == Append(<<"internal">>, s)
<1>2. d = <<"internal", s>>
  <2> DEFINE top == <<"internal">>
             S == {"internal", s}
  <2>1. top \in Seq(S) /\ s \in S /\ Len(top) = 1 /\ top[1] = "internal"
    OBVIOUS
  <2> HIDE DEF top, S, d
  <2> DEFINE e == Append(top, s)
  <2>2. e \in Seq(S) /\ Len(e) = Len(top) + 1 /\ e[Len(top) + 1] = s
    BY <2>1, OneLonger
  <2>3. \A i \in 1..Len(top) : e[i] = top[i]
    BY <2>1, OneLongerAt
  <2> HIDE DEF e
  <2>4. e = [i \in 1..2 |-> e[i]] /\ e[1] = "internal" /\ e[2] = s
    BY <2>1, <2>2, <2>3
  <2>5. e = <<"internal", s>>
    BY <2>4
  <2> QED
    BY <2>5 DEF d, e, top
<1> HIDE DEF d
<1> DEFINE u == <<Slash, <<"internal">>, Slash, <<s>>, Slash>>
           v == <<t>>
           w == <<Slash, <<"leaf">>>>
           S == {Slash, <<"internal">>, <<s>>, t, <<"leaf">>}
           p == (u \o v) \o w
<1>3. Under(d) = u
  BY <1>2, UnderTwo
<1>4. TrapPath(s, t) = p
  <2> HIDE DEF u, v, w
  <2> QED
    BY <1>1, <1>3 DEF TrapPath, d, v, w
<1>5. /\ u \in Seq(S) /\ v \in Seq(S) /\ w \in Seq(S) /\ Len(u) = 5 /\ Len(v) = 1 /\ Len(w) = 2
      /\ u[1] = Slash /\ u[2] = <<"internal">> /\ u[3] = Slash /\ u[4] = <<s>> /\ u[5] = Slash
      /\ v[1] = t /\ w[1] = Slash /\ w[2] = <<"leaf">>
  OBVIOUS
<1> HIDE DEF u, v, w, S
<1> DEFINE x == u \o v
<1>6. /\ x \in Seq(S) /\ Len(x) = 6 /\ x[1] = u[1] /\ x[2] = u[2] /\ x[3] = u[3]
      /\ x[4] = u[4] /\ x[5] = u[5] /\ x[6] = v[1]
  <2>1. /\ x \in Seq(S) /\ Len(x) = Len(u) + Len(v)
        /\ \A i \in 1..(Len(u) + Len(v)) : x[i] = IF i <= Len(u) THEN u[i] ELSE v[i - Len(u)]
    BY <1>5, ConcatProperties
  <2> HIDE DEF x
  <2>2. \A i \in 1..6 : x[i] = IF i <= 5 THEN u[i] ELSE v[i - 5]
    BY <1>5, <2>1
  <2> QED
    BY <1>5, <2>1, <2>2
<1> HIDE DEF x
<1> DEFINE y == x \o w
<1>7. /\ y \in Seq(S) /\ Len(y) = 8 /\ y[1] = x[1] /\ y[2] = x[2] /\ y[3] = x[3]
      /\ y[4] = x[4] /\ y[5] = x[5] /\ y[6] = x[6] /\ y[7] = w[1] /\ y[8] = w[2]
  <2>1. /\ y \in Seq(S) /\ Len(y) = Len(x) + Len(w)
        /\ \A i \in 1..(Len(x) + Len(w)) : y[i] = IF i <= Len(x) THEN x[i] ELSE w[i - Len(x)]
    BY <1>5, <1>6, ConcatProperties
  <2> HIDE DEF y
  <2>2. \A i \in 1..8 : y[i] = IF i <= 6 THEN x[i] ELSE w[i - 6]
    BY <1>5, <1>6, <2>1
  <2> QED
    BY <1>5, <1>6, <2>1, <2>2
<1> HIDE DEF y
<1> HIDE DEF p
<1>8. y = [i \in 1..8 |-> y[i]] /\ \A i \in 1..8 : i \in {1, 2, 3, 4, 5, 6, 7, 8}
  BY <1>7
<1>9. y = <<Slash, <<"internal">>, Slash, <<s>>, Slash, t, Slash, <<"leaf">>>>
  <2>1. /\ y[1] = Slash /\ y[2] = <<"internal">> /\ y[3] = Slash /\ y[4] = <<s>> /\ y[5] = Slash
        /\ y[6] = t /\ y[7] = Slash /\ y[8] = <<"leaf">>
    BY <1>5, <1>6, <1>7
  <2>2. DOMAIN y = 1..8
    BY <1>8
  <2> QED
    BY <1>8, <2>1, <2>2
<1> QED
  BY <1>4, <1>9 DEF p, x, y

-----------------------------------------------------------------------------
(* Which paths the rules for everyone forbid.                              *)

Literal == {<<n>> : n \in {"/", "internal", "private", "reserved", "docs", "restricted", "public",
                           "exports", "quarterly.html", "allowed", "index.html", "leaf",
                           "robots", "robots_wellknown", "control_allow"}}

LEMMA LiteralIsNoWildcard == \A a \in Literal : a # Star /\ a # End
<1> TAKE a \in Literal
<1>1. PICK n \in {"/", "internal", "private", "reserved", "docs", "restricted", "public",
                  "exports", "quarterly.html", "allowed", "index.html", "leaf",
                  "robots", "robots_wellknown", "control_allow"} : a = <<n>>
  BY DEF Literal
<1>2. n # "*" /\ n # "$"
  OBVIOUS
<1> QED
  BY <1>1, <1>2 DEF Star, End

LEMMA LiteralMatches ==
  ASSUME NEW P, NEW path \in Seq(P), NEW pattern \in Seq(Literal)
  PROVE  Matches(pattern, path) <=> Begins(pattern, Len(pattern), path)
<1>1. \A i \in 1..Len(pattern) : pattern[i] \in Literal
  OBVIOUS
<1>2. \A i \in 1..Len(pattern) : pattern[i] # Star /\ pattern[i] # End
  BY <1>1, LiteralIsNoWildcard
<1> QED
  BY <1>2, PlainMatches

(* A path in the directory of the first, or the first two names.           *)
In(path, a) == 3 <= Len(path) /\ path[1] = Slash /\ path[2] = <<a>> /\ path[3] = Slash
Within(path, a, b) == In(path, a) /\ 5 <= Len(path) /\ path[4] = <<b>> /\ path[5] = Slash

Forbidden(path) ==
  \/ In(path, "internal") \/ In(path, "private") \/ In(path, "reserved")
  \/ Within(path, "docs", "restricted")

LEMMA DirectoryMatches ==
  ASSUME NEW P, NEW path \in Seq(P), NEW a, <<a>> \in Literal
  PROVE  Len(Under(<<a>>)) = 3 /\ (Matches(Under(<<a>>), path) <=> In(path, a))
<1> DEFINE d == <<Slash, <<a>>, Slash>>
<1>1. Under(<<a>>) = d
  BY UnderOne
<1>2. Slash \in Literal
  BY DEF Literal, Slash
<1>3. d \in Seq(Literal) /\ Len(d) = 3 /\ d[1] = Slash /\ d[2] = <<a>> /\ d[3] = Slash
  BY <1>2
<1> HIDE DEF d
<1>4. Begins(d, 3, path) <=> In(path, a)
  <2>1. \A i \in 1..3 : i \in {1, 2, 3}
    OBVIOUS
  <2>2. 1 \in 1..3 /\ 2 \in 1..3 /\ 3 \in 1..3
    OBVIOUS
  <2> QED
    BY <1>3, <2>1, <2>2 DEF Begins, In
<1> QED
  BY <1>1, <1>3, <1>4, LiteralMatches

LEMMA SubdirectoryMatches ==
  ASSUME NEW P, NEW path \in Seq(P), NEW a, NEW b, <<a>> \in Literal, <<b>> \in Literal
  PROVE  Len(Under(<<a, b>>)) = 5 /\ (Matches(Under(<<a, b>>), path) <=> Within(path, a, b))
<1> DEFINE d == <<Slash, <<a>>, Slash, <<b>>, Slash>>
<1>1. Under(<<a, b>>) = d
  BY UnderTwo
<1>2. Slash \in Literal
  BY DEF Literal, Slash
<1>3. /\ d \in Seq(Literal) /\ Len(d) = 5
      /\ d[1] = Slash /\ d[2] = <<a>> /\ d[3] = Slash /\ d[4] = <<b>> /\ d[5] = Slash
  BY <1>2
<1> HIDE DEF d
<1>4. Begins(d, 5, path) <=> Within(path, a, b)
  <2>1. (\A i \in 1..5 : path[i] = d[i])
          <=> path[1] = d[1] /\ path[2] = d[2] /\ path[3] = d[3] /\ path[4] = d[4] /\ path[5] = d[5]
    <3>1. \A i \in 1..5 : i \in {1, 2, 3, 4, 5}
      OBVIOUS
    <3>2. 1 \in 1..5 /\ 2 \in 1..5 /\ 3 \in 1..5 /\ 4 \in 1..5 /\ 5 \in 1..5
      OBVIOUS
    <3> QED
      BY <3>1, <3>2, Zenon
  <2>2. Len(path) \in Nat /\ (5 <= Len(path) => 3 <= Len(path))
    OBVIOUS
  <2> QED
    BY <1>3, <2>1, <2>2 DEF Begins, In, Within
<1> QED
  BY <1>1, <1>3, <1>4, LiteralMatches

LEMMA FileMatches ==
  ASSUME NEW P, NEW path \in Seq(P), NEW a, NEW b, NEW c,
         <<a>> \in Literal, <<b>> \in Literal, <<c>> \in Literal
  PROVE  Len(File(<<a, b>>, c)) = 6 /\ (Matches(File(<<a, b>>, c), path) => Within(path, a, b))
<1> DEFINE d == <<Slash, <<a>>, Slash, <<b>>, Slash, <<c>>>>
<1>1. File(<<a, b>>, c) = d
  BY FileTwo
<1>2. Slash \in Literal
  BY DEF Literal, Slash
<1>3. /\ d \in Seq(Literal) /\ Len(d) = 6
      /\ d[1] = Slash /\ d[2] = <<a>> /\ d[3] = Slash /\ d[4] = <<b>> /\ d[5] = Slash
  BY <1>2
<1> HIDE DEF d
<1>4. Begins(d, 6, path) => Within(path, a, b)
  <2>1. 1 \in 1..6 /\ 2 \in 1..6 /\ 3 \in 1..6 /\ 4 \in 1..6 /\ 5 \in 1..6
    OBVIOUS
  <2>2. Len(path) \in Nat
    OBVIOUS
  <2> QED
    BY <1>3, <2>1, <2>2 DEF Begins, In, Within
<1> QED
  BY <1>1, <1>3, <1>4, LiteralMatches

(* A trap path of the rules, with a token or a Star in it.                 *)
LEMMA TrapMatches ==
  ASSUME NEW P, NEW path \in Seq(P), NEW s \in RuleStandards, NEW t
  PROVE  /\ Len(TrapPath(s, t)) = 8
         /\ Matches(TrapPath(s, t), path) => Within(path, "internal", s)
<1> DEFINE d == <<Slash, <<"internal">>, Slash, <<s>>, Slash, t, Slash, <<"leaf">>>>
           S == Literal \union {t}
<1>1. TrapPath(s, t) = d
  BY TrapPathOf
<1>2. Slash \in Literal /\ <<"internal">> \in Literal /\ <<s>> \in Literal /\ <<"leaf">> \in Literal
  BY DEF Literal, Slash, RuleStandards, Robots
<1>3. /\ d \in Seq(S) /\ Len(d) = 8 /\ d[1] = Slash /\ d[2] = <<"internal">> /\ d[3] = Slash
      /\ d[4] = <<s>> /\ d[5] = Slash
  BY <1>2
<1> HIDE DEF d, S
<1>4. \A i \in 1..5 : d[i] # Star /\ d[i] # End
  <2>1. \A i \in 1..5 : i \in {1, 2, 3, 4, 5}
    OBVIOUS
  <2>2. \A i \in 1..5 : d[i] \in Literal
    BY <1>2, <1>3, <2>1
  <2> QED
    BY <2>2, LiteralIsNoWildcard
<1>5. Begins(d, 5, path) => Within(path, "internal", s)
  <2>1. 1 \in 1..5 /\ 2 \in 1..5 /\ 3 \in 1..5 /\ 4 \in 1..5 /\ 5 \in 1..5
    OBVIOUS
  <2>2. Len(path) \in Nat
    OBVIOUS
  <2> QED
    BY <1>3, <2>1, <2>2 DEF Begins, In, Within
<1>6. Matches(d, path) => Begins(d, 5, path)
  <2>1. 5 \in 0..Len(d)
    BY <1>3
  <2> QED
    BY <1>3, <1>4, <2>1, MatchBegins
<1> QED
  BY <1>1, <1>3, <1>5, <1>6

(* Where a token is asked for, any token would do.                         *)
LEMMA TokenMatchesStar ==
  ASSUME NEW P, NEW path \in Seq(P), NEW s \in RuleStandards, NEW t, t # Star, t # End,
         Matches(TrapPath(s, t), path)
  PROVE  Matches(TrapPath(s, Star), path)
<1> DEFINE d == <<Slash, <<"internal">>, Slash, <<s>>, Slash, t, Slash, <<"leaf">>>>
           w == <<Slash, <<"internal">>, Slash, <<s>>, Slash, Star, Slash, <<"leaf">>>>
           S == Literal \union {t, Star}
<1>1. TrapPath(s, t) = d /\ TrapPath(s, Star) = w
  BY TrapPathOf
<1>2. Slash \in Literal /\ <<"internal">> \in Literal /\ <<s>> \in Literal /\ <<"leaf">> \in Literal
  BY DEF Literal, Slash, RuleStandards, Robots
<1>3. /\ d \in Seq(S) /\ Len(d) = 8 /\ d[1] = Slash /\ d[2] = <<"internal">> /\ d[3] = Slash
      /\ d[4] = <<s>> /\ d[5] = Slash /\ d[6] = t /\ d[7] = Slash /\ d[8] = <<"leaf">>
  BY <1>2
<1>4. /\ w \in Seq(S) /\ Len(w) = 8 /\ w[1] = Slash /\ w[2] = <<"internal">> /\ w[3] = Slash
      /\ w[4] = <<s>> /\ w[5] = Slash /\ w[6] = Star /\ w[7] = Slash /\ w[8] = <<"leaf">>
  BY <1>2
<1> HIDE DEF d, w, S
<1>5. \A i \in 1..8 : i \in {1, 2, 3, 4, 5, 6, 7, 8}
  OBVIOUS
<1>6. \A i \in 1..8 : d[i] # Star /\ d[i] # End
  <2>1. \A i \in 1..8 : d[i] \in Literal \/ d[i] = t
    BY <1>2, <1>3, <1>5
  <2> QED
    BY <2>1, LiteralIsNoWildcard
<1>7. \A i \in 1..8 : i # 6 => w[i] = d[i]
  BY <1>3, <1>4, <1>5
<1>8. Begins(d, Len(d), path)
  BY <1>1, <1>3, <1>6, PlainMatches
<1>9. \A i \in 1..Len(w) : i # 6 => w[i] = d[i] /\ w[i] # Star /\ w[i] # End
  BY <1>4, <1>6, <1>7
<1>10. 6 \in 1..Len(w) /\ Len(w) = Len(d)
  BY <1>3, <1>4
<1>11. Matches(w, path)
  <2>1. d \in Seq(S) /\ w \in Seq(S) /\ w[6] = Star
    BY <1>3, <1>4, Zenon
  <2> QED
    BY <1>8, <1>9, <1>10, <2>1, StarMatches
<1> QED
  BY <1>1, <1>11

(* The patterns of the rules for everyone, the traps aside.                *)
FixedDisallow ==
  {Under(<<"internal">>), Under(<<"private">>), Under(<<"reserved">>), Under(<<"docs", "restricted">>),
   StableDisallowUnlinked, StableDisallowLinked}
FixedAllow == {Under(<<"public">>), StableAllowUnlinked}

LEMMA FixedDisallowMatches ==
  ASSUME NEW P, NEW path \in Seq(P)
  PROVE  /\ \A q \in FixedDisallow : Len(q) \in 1..6 /\ (Matches(q, path) => Forbidden(path))
         /\ Forbidden(path) => \E q \in FixedDisallow : Matches(q, path)
<1>1. /\ <<"internal">> \in Literal /\ <<"private">> \in Literal /\ <<"reserved">> \in Literal
      /\ <<"docs">> \in Literal /\ <<"restricted">> \in Literal /\ <<"exports">> \in Literal
      /\ <<"quarterly.html">> \in Literal /\ <<"index.html">> \in Literal
  BY DEF Literal
<1> DEFINE a == Under(<<"internal">>)
           b == Under(<<"private">>)
           c == Under(<<"reserved">>)
           d == Under(<<"docs", "restricted">>)
           e == StableDisallowUnlinked
           f == StableDisallowLinked
<1>2. Len(a) = 3 /\ (Matches(a, path) <=> In(path, "internal"))
  BY <1>1, DirectoryMatches
<1>3. Len(b) = 3 /\ (Matches(b, path) <=> In(path, "private"))
  BY <1>1, DirectoryMatches
<1>4. Len(c) = 3 /\ (Matches(c, path) <=> In(path, "reserved"))
  BY <1>1, DirectoryMatches
<1>5. Len(d) = 5 /\ (Matches(d, path) <=> Within(path, "docs", "restricted"))
  BY <1>1, SubdirectoryMatches
<1>6. Len(e) = 6 /\ (Matches(e, path) => Within(path, "internal", "exports"))
  BY <1>1, FileMatches DEF StableDisallowUnlinked
<1>7. Len(f) = 6 /\ (Matches(f, path) => Within(path, "docs", "restricted"))
  BY <1>1, FileMatches DEF StableDisallowLinked
<1>8. FixedDisallow = {a, b, c, d, e, f}
  BY DEF FixedDisallow
<1>9. Within(path, "internal", "exports") => In(path, "internal")
  BY DEF Within
<1> HIDE DEF a, b, c, d, e, f
<1>10. 3 \in 1..6 /\ 5 \in 1..6 /\ 6 \in 1..6
  OBVIOUS
<1> QED
  BY <1>2, <1>3, <1>4, <1>5, <1>6, <1>7, <1>8, <1>9, <1>10, Zenon DEF Forbidden

LEMMA FixedAllowMatches ==
  ASSUME NEW P, NEW path \in Seq(P), NEW q \in FixedAllow
  PROVE  Len(q) \in 1..6 /\ (Matches(q, path) => ~Forbidden(path))
<1>1. /\ <<"public">> \in Literal /\ <<"allowed">> \in Literal /\ <<"index.html">> \in Literal
  BY DEF Literal
<1>2. Len(Under(<<"public">>)) = 3 /\ (Matches(Under(<<"public">>), path) <=> In(path, "public"))
  BY <1>1, DirectoryMatches
<1>3. /\ Len(StableAllowUnlinked) = 6
      /\ Matches(StableAllowUnlinked, path) => Within(path, "public", "allowed")
  BY <1>1, FileMatches DEF StableAllowUnlinked
<1>4. Within(path, "public", "allowed") => In(path, "public")
  BY DEF Within
<1>5. In(path, "public") => ~Forbidden(path)
  <2>1. /\ <<"public">> # <<"internal">> /\ <<"public">> # <<"private">>
        /\ <<"public">> # <<"reserved">> /\ <<"public">> # <<"docs">>
    OBVIOUS
  <2> QED
    BY <2>1 DEF Forbidden, In, Within
<1>6. q = Under(<<"public">>) \/ q = StableAllowUnlinked
  BY DEF FixedAllow
<1>7. 3 \in 1..6 /\ 6 \in 1..6
  OBVIOUS
<1> QED
  BY <1>2, <1>3, <1>4, <1>5, <1>6, <1>7, Zenon

(* The verdict by one group of rules.                                      *)
Verdict(g, path) ==
  \E d \in Matching({g}, FALSE, path) : \A a \in Matching({g}, TRUE, path) : Len(a) < Len(d)

(* A group whose rules are those for everyone, X and t being the traps.    *)
RulesFor(g, X, t, path) ==
  /\ \A x \in X : \E s \in Robots : \E u : x = TrapPath(s, u)
  /\ \A q : q \in Matching({g}, FALSE, path) <=> q \in FixedDisallow \union X /\ Matches(q, path)
  /\ \A q : q \in Matching({g}, TRUE, path)
                <=> q \in FixedAllow \union {TrapPath("control_allow", t)} /\ Matches(q, path)

(* With any traps in the group for everyone, it forbids its directories    *)
(* but for the path of the control's trap.                                 *)
LEMMA EveryoneForbids ==
  ASSUME NEW P, NEW path \in Seq(P), NEW g, NEW X, NEW t, RulesFor(g, X, t, path)
  PROVE  Verdict(g, path) <=> Forbidden(path) /\ ~Matches(TrapPath("control_allow", t), path)
<1> DEFINE c == TrapPath("control_allow", t)
<1>0. /\ \A x \in X : \E s \in Robots : \E u : x = TrapPath(s, u)
      /\ \A q : q \in Matching({g}, FALSE, path) <=> q \in FixedDisallow \union X /\ Matches(q, path)
      /\ \A q : q \in Matching({g}, TRUE, path) <=> q \in FixedAllow \union {c} /\ Matches(q, path)
  BY Zenon DEF RulesFor
<1>1. Len(c) = 8
  <2>1. "control_allow" \in RuleStandards
    BY DEF RuleStandards
  <2> QED
    BY <2>1, TrapMatches
<1>2. \A x \in X : Len(x) = 8 /\ (Matches(x, path) => Forbidden(path))
  <2> TAKE x \in X
  <2>0. PICK s \in Robots : \E u : x = TrapPath(s, u)
    BY <1>0
  <2>1. PICK u : x = TrapPath(s, u)
    BY <2>0
  <2>2. s \in RuleStandards
    BY DEF RuleStandards
  <2>3. Len(x) = 8 /\ (Matches(x, path) => Within(path, "internal", s))
    BY <2>1, <2>2, TrapMatches
  <2> QED
    BY <2>3 DEF Within, Forbidden
<1> HIDE DEF c
<1>3. ASSUME Verdict(g, path)
      PROVE  Forbidden(path) /\ ~Matches(c, path)
  <2>1. PICK d \in Matching({g}, FALSE, path) : \A a \in Matching({g}, TRUE, path) : Len(a) < Len(d)
    BY <1>3 DEF Verdict
  <2>2. d \in FixedDisallow \union X /\ Matches(d, path)
    BY <1>0
  <2>3. Forbidden(path) /\ (Len(d) \in 1..6 \/ Len(d) = 8)
    BY <1>2, <2>2, FixedDisallowMatches
  <2>4. ~(8 < Len(d))
    <3>1. \A n : n \in 1..6 \/ n = 8 => ~(8 < n)
      OBVIOUS
    <3> QED
      BY <2>3, <3>1, Zenon
  <2>5. c \in Matching({g}, TRUE, path) <=> Matches(c, path)
    BY <1>0
  <2> QED
    BY <1>1, <2>1, <2>3, <2>4, <2>5
<1>4. ASSUME Forbidden(path), ~Matches(c, path)
      PROVE  Verdict(g, path)
  <2>1. PICK d \in FixedDisallow : Matches(d, path)
    BY <1>4, FixedDisallowMatches
  <2>2. d \in Matching({g}, FALSE, path)
    BY <1>0, <2>1
  <2>3. \A a \in Matching({g}, TRUE, path) : FALSE
    <3> TAKE a \in Matching({g}, TRUE, path)
    <3>1. a \in FixedAllow \union {c} /\ Matches(a, path)
      BY <1>0
    <3> QED
      BY <1>4, <3>1, FixedAllowMatches
  <2> QED
    BY <2>2, <2>3 DEF Verdict
<1> QED
  BY <1>3, <1>4 DEF c

LEMMA MatchingOfOne ==
  ASSUME NEW g, NEW b, NEW path, NEW q
  PROVE  q \in Matching({g}, b, path)
           <=> /\ \E j \in DOMAIN g.rules : g.rules[j].allow = b /\ q \in Patterns(g.rules[j])
               /\ q # <<>> /\ Matches(q, path)
<1> DEFINE rules == UNION {ToSet(h.rules) : h \in {g}}
<1>1. \A r : r \in rules <=> \E j \in DOMAIN g.rules : r = g.rules[j]
  BY Zenon DEF ToSet
<1>2. q \in Matching({g}, b, path)
        <=> /\ q \in UNION {Patterns(r) : r \in {r \in rules : r.allow = b}}
            /\ q # <<>> /\ Matches(q, path)
  BY Zenon DEF Matching
<1> HIDE DEF rules
<1>3. q \in UNION {Patterns(r) : r \in {r \in rules : r.allow = b}}
        <=> \E r \in rules : r.allow = b /\ q \in Patterns(r)
  BY Zenon
<1> QED
  BY <1>1, <1>2, <1>3, Zenon

(* The patterns of the group for everyone: its traps are X and t.          *)
Opened(g, X, t) ==
  /\ DOMAIN g.rules = 1..10
  /\ \A j \in 1..7 : g.rules[j].allow = FALSE
  /\ \A j \in 8..10 : g.rules[j].allow = TRUE
  /\ Patterns(g.rules[1]) = {Under(<<"internal">>)}
  /\ Patterns(g.rules[2]) = {Under(<<"private">>)}
  /\ Patterns(g.rules[3]) = {Under(<<"reserved">>)}
  /\ Patterns(g.rules[4]) = {Under(<<"docs", "restricted">>)}
  /\ Patterns(g.rules[5]) = X
  /\ Patterns(g.rules[6]) = {StableDisallowUnlinked}
  /\ Patterns(g.rules[7]) = {StableDisallowLinked}
  /\ Patterns(g.rules[8]) = {Under(<<"public">>)}
  /\ Patterns(g.rules[9]) = {StableAllowUnlinked}
  /\ Patterns(g.rules[10]) = {TrapPath("control_allow", t)}

LEMMA NotEmpty == \A q : Len(q) # 0 => q # <<>>
OBVIOUS

LEMMA OpenedForbids ==
  ASSUME NEW P, NEW path \in Seq(P), NEW g, NEW X, NEW t, Opened(g, X, t),
         \A x \in X : \E s \in Robots : \E u : x = TrapPath(s, u)
  PROVE  Verdict(g, path) <=> Forbidden(path) /\ ~Matches(TrapPath("control_allow", t), path)
<1> DEFINE pat(j) == Patterns(g.rules[j])
           c == TrapPath("control_allow", t)
<1>1. /\ pat(1) \union pat(2) \union pat(3) \union pat(4) \union pat(6) \union pat(7) = FixedDisallow
      /\ pat(5) = X /\ pat(8) \union pat(9) = FixedAllow /\ pat(10) = {c}
  BY DEF Opened, FixedDisallow, FixedAllow
<1>2. /\ DOMAIN g.rules = 1..10 /\ \A j \in 1..7 : g.rules[j].allow = FALSE
      /\ \A j \in 8..10 : g.rules[j].allow = TRUE
  BY DEF Opened
<1> HIDE DEF pat, c
<1>3. /\ \A j \in 1..10 : j \in 1..7 \/ j \in 8..10
      /\ \A j \in 1..7 : j \in {1, 2, 3, 4, 5, 6, 7}
      /\ \A j \in 8..10 : j \in {8, 9, 10}
      /\ {1, 2, 3, 4, 5, 6, 7} \subseteq 1..10 /\ {8, 9, 10} \subseteq 1..10
      /\ {1, 2, 3, 4, 5, 6, 7} \subseteq 1..7 /\ {8, 9, 10} \subseteq 8..10
  OBVIOUS
<1>4. \A q : (\E j \in 1..10 : g.rules[j].allow = FALSE /\ q \in pat(j)) <=> q \in FixedDisallow \union X
  <2> TAKE q
  <2>1. (\E j \in 1..10 : g.rules[j].allow = FALSE /\ q \in pat(j)) <=> \E j \in 1..7 : q \in pat(j)
    BY <1>2, <1>3
  <2>2. (\E j \in 1..7 : q \in pat(j))
          <=> \/ q \in pat(1) \/ q \in pat(2) \/ q \in pat(3) \/ q \in pat(4) \/ q \in pat(5)
              \/ q \in pat(6) \/ q \in pat(7)
    BY <1>3
  <2> QED
    BY <1>1, <2>1, <2>2
<1>5. \A q : (\E j \in 1..10 : g.rules[j].allow = TRUE /\ q \in pat(j)) <=> q \in FixedAllow \union {c}
  <2> TAKE q
  <2>1. (\E j \in 1..10 : g.rules[j].allow = TRUE /\ q \in pat(j)) <=> \E j \in 8..10 : q \in pat(j)
    BY <1>2, <1>3
  <2>2. (\E j \in 8..10 : q \in pat(j)) <=> q \in pat(8) \/ q \in pat(9) \/ q \in pat(10)
    BY <1>3
  <2> QED
    BY <1>1, <2>1, <2>2
<1>11. 8 # 0 /\ \A n \in 1..6 : n # 0
  OBVIOUS
<1>6. \A q \in FixedDisallow \union X : q # <<>>
  <2> TAKE q \in FixedDisallow \union X
  <2>1. CASE q \in FixedDisallow
    <3>1. Len(q) \in 1..6
      BY <2>1, FixedDisallowMatches
    <3> QED
      BY <1>11, <3>1, NotEmpty, Zenon
  <2>2. CASE q \in X
    <3>0. PICK s \in Robots : \E u : q = TrapPath(s, u)
      BY <2>2
    <3>1. PICK u : q = TrapPath(s, u)
      BY <3>0
    <3>2. Len(q) = 8
      <4>1. s \in RuleStandards
        BY DEF RuleStandards
      <4> QED
        BY <3>1, <4>1, TrapMatches
    <3> QED
      BY <1>11, <3>2, NotEmpty, Zenon
  <2> QED
    BY <2>1, <2>2
<1>7. \A q \in FixedAllow \union {c} : q # <<>>
  <2> TAKE q \in FixedAllow \union {c}
  <2>1. CASE q \in FixedAllow
    <3>1. Len(q) \in 1..6
      BY <2>1, FixedAllowMatches
    <3> QED
      BY <1>11, <3>1, NotEmpty, Zenon
  <2>2. CASE q = c
    <3>1. Len(q) = 8
      <4>1. "control_allow" \in RuleStandards
        BY DEF RuleStandards
      <4> QED
        BY <2>2, <4>1, TrapMatches DEF c
    <3> QED
      BY <1>11, <3>1, NotEmpty, Zenon
  <2> QED
    BY <2>1, <2>2
<1>8. \A b, q : q \in Matching({g}, b, path)
                  <=> /\ \E j \in 1..10 : g.rules[j].allow = b /\ q \in pat(j)
                      /\ q # <<>> /\ Matches(q, path)
  <2> TAKE b, q
  <2>1. q \in Matching({g}, b, path)
          <=> /\ \E j \in DOMAIN g.rules : g.rules[j].allow = b /\ q \in pat(j)
              /\ q # <<>> /\ Matches(q, path)
    BY MatchingOfOne, Zenon DEF pat
  <2>2. DOMAIN g.rules = 1..10
    BY <1>2
  <2> QED
    BY <2>1, <2>2, Zenon
<1>9. \A q : q \in Matching({g}, FALSE, path) <=> q \in FixedDisallow \union X /\ Matches(q, path)
  BY <1>4, <1>6, <1>8, Zenon
<1>10. \A q : q \in Matching({g}, TRUE, path) <=> q \in FixedAllow \union {c} /\ Matches(q, path)
  BY <1>5, <1>7, <1>8, Zenon
<1>12. \A q : q \in Matching({g}, TRUE, path)
                 <=> q \in FixedAllow \union {TrapPath("control_allow", t)} /\ Matches(q, path)
  BY <1>10, Zenon DEF c
<1>13. RulesFor(g, X, t, path)
  BY <1>9, <1>12, Zenon DEF RulesFor
<1> QED
  BY <1>13, EveryoneForbids, Zenon

-----------------------------------------------------------------------------
(* The same of the rules as data, and of a text with the traps in it.      *)

LEMMA EveryoneIs ==
  /\ DOMAIN Everyone = 1..10
  /\ Everyone[1] = Rule(FALSE, Under(<<"internal">>))
  /\ Everyone[2] = Rule(FALSE, Under(<<"private">>))
  /\ Everyone[3] = Rule(FALSE, Under(<<"reserved">>))
  /\ Everyone[4] = Rule(FALSE, Under(<<"docs", "restricted">>))
  /\ Everyone[5] = TrapRule(FALSE, "self")
  /\ Everyone[6] = Rule(FALSE, StableDisallowUnlinked)
  /\ Everyone[7] = Rule(FALSE, StableDisallowLinked)
  /\ Everyone[8] = Rule(TRUE, Under(<<"public">>))
  /\ Everyone[9] = Rule(TRUE, StableAllowUnlinked)
  /\ Everyone[10] = TrapRule(TRUE, "control_allow")
BY DEF Everyone

LEMMA PatternsOfRule ==
  /\ \A b, p : Patterns(Rule(b, p)) = {p}
  /\ \A b : Patterns(TrapRule(b, "self")) = {TrapPath(s, Star) : s \in Robots}
  /\ \A b : Patterns(TrapRule(b, "control_allow")) = {TrapPath("control_allow", Star)}
<1>1. \A b, p : Rule(b, p).trap = "" /\ Rule(b, p).path = p
  BY DEF Rule
<1>2. \A b, s : TrapRule(b, s).trap = s
  BY DEF TrapRule
<1>3. \A b, p : Patterns(Rule(b, p)) = {p}
  BY <1>1, Zenon DEF Patterns
<1>4. ASSUME NEW b
      PROVE  Patterns(TrapRule(b, "self")) = {TrapPath(s, Star) : s \in Robots}
  <2>1. TrapRule(b, "self").trap = "self" /\ "self" # ""
    BY <1>2
  <2> QED
    BY <2>1, Zenon DEF Patterns
<1>5. ASSUME NEW b
      PROVE  Patterns(TrapRule(b, "control_allow")) = {TrapPath("control_allow", Star)}
  <2> DEFINE r == TrapRule(b, "control_allow")
  <2>1. r.trap = "control_allow" /\ "control_allow" # "" /\ "control_allow" # "self"
    BY <1>2
  <2>2. r.trap # "" /\ r.trap # "self"
    BY <2>1, Zenon
  <2> HIDE DEF r
  <2>3. Patterns(r) = {TrapPath(s, Star) : s \in {r.trap}}
    BY <2>2, Zenon DEF Patterns
  <2>4. {TrapPath(s, Star) : s \in {r.trap}} = {TrapPath(r.trap, Star)}
    BY Zenon
  <2>5. {TrapPath(r.trap, Star)} = {TrapPath("control_allow", Star)}
    BY <2>1, Zenon
  <2> QED
    BY <2>3, <2>4, <2>5, Zenon DEF r
<1> QED
  BY <1>3, <1>4, <1>5, Zenon

LEMMA AllowOfRule ==
  \A p : /\ Rule(FALSE, p).allow = FALSE /\ TrapRule(FALSE, p).allow = FALSE
         /\ Rule(TRUE, p).allow = TRUE /\ TrapRule(TRUE, p).allow = TRUE
BY DEF Rule, TrapRule

LEMMA FirstPatterns ==
  /\ Patterns(Everyone[1]) = {Under(<<"internal">>)}
  /\ Patterns(Everyone[2]) = {Under(<<"private">>)}
  /\ Patterns(Everyone[3]) = {Under(<<"reserved">>)}
  /\ Patterns(Everyone[4]) = {Under(<<"docs", "restricted">>)}
BY EveryoneIs, PatternsOfRule, Zenon

LEMMA TableOpened ==
  ASSUME NEW g, g.rules = Everyone
  PROVE  Opened(g, {TrapPath(s, Star) : s \in Robots}, Star)
<1>0. /\ Everyone[1].allow = FALSE /\ Everyone[2].allow = FALSE /\ Everyone[3].allow = FALSE
      /\ Everyone[4].allow = FALSE /\ Everyone[5].allow = FALSE /\ Everyone[6].allow = FALSE
      /\ Everyone[7].allow = FALSE /\ Everyone[8].allow = TRUE /\ Everyone[9].allow = TRUE
      /\ Everyone[10].allow = TRUE
  BY DEF Everyone, Rule, TrapRule
<1>1. \A j \in 1..7 : Everyone[j].allow = FALSE
  BY <1>0
<1>2. \A j \in 8..10 : Everyone[j].allow = TRUE
  BY <1>0
<1>4. /\ Patterns(Everyone[5]) = {TrapPath(s, Star) : s \in Robots}
      /\ Patterns(Everyone[6]) = {StableDisallowUnlinked}
      /\ Patterns(Everyone[7]) = {StableDisallowLinked}
      /\ Patterns(Everyone[8]) = {Under(<<"public">>)}
      /\ Patterns(Everyone[9]) = {StableAllowUnlinked}
      /\ Patterns(Everyone[10]) = {TrapPath("control_allow", Star)}
  BY EveryoneIs, PatternsOfRule, Zenon
<1>5. DOMAIN Everyone = 1..10
  BY EveryoneIs, Zenon
<1> QED
  BY <1>1, <1>2, <1>4, <1>5, FirstPatterns, Zenon DEF Opened

LEMMA TextOpened ==
  ASSUME NEW g, g.rules = Everyone, NEW traps, NEW t, traps["control_allow"] = TrapPath("control_allow", t)
  PROVE  Opened(TextGroup(g, traps), {traps["self"]}, t)
<1> DEFINE text == TextGroup(g, traps)
<1>1. DOMAIN text.rules = 1..10 /\ \A j \in 1..10 : text.rules[j] = TextRule(Everyone[j], traps)
  <2>1. text.rules = [j \in DOMAIN g.rules |-> TextRule(g.rules[j], traps)]
    BY DEF TextGroup
  <2>2. DOMAIN g.rules = 1..10
    BY EveryoneIs, Zenon
  <2> HIDE DEF text
  <2> QED
    BY <2>1, <2>2, Zenon
<1> HIDE DEF text
<1>2. /\ \A p : TextRule(Rule(FALSE, p), traps) = Rule(FALSE, p)
      /\ \A p : TextRule(Rule(TRUE, p), traps) = Rule(TRUE, p)
      /\ \A s : s # "" => /\ TextRule(TrapRule(FALSE, s), traps) = Rule(FALSE, traps[s])
                         /\ TextRule(TrapRule(TRUE, s), traps) = Rule(TRUE, traps[s])
  BY DEF TextRule, TextPath, Rule, TrapRule
<1>3. /\ \A j \in 1..7 : j = 1 \/ j = 2 \/ j = 3 \/ j = 4 \/ j = 5 \/ j = 6 \/ j = 7
      /\ \A j \in 8..10 : j = 8 \/ j = 9 \/ j = 10
      /\ 1 \in 1..10 /\ 2 \in 1..10 /\ 3 \in 1..10 /\ 4 \in 1..10 /\ 5 \in 1..10
      /\ 6 \in 1..10 /\ 7 \in 1..10 /\ 8 \in 1..10 /\ 9 \in 1..10 /\ 10 \in 1..10
  OBVIOUS
<1>4. /\ text.rules[1] = Rule(FALSE, Under(<<"internal">>))
      /\ text.rules[2] = Rule(FALSE, Under(<<"private">>))
      /\ text.rules[3] = Rule(FALSE, Under(<<"reserved">>))
      /\ text.rules[4] = Rule(FALSE, Under(<<"docs", "restricted">>))
      /\ text.rules[5] = Rule(FALSE, traps["self"])
      /\ text.rules[6] = Rule(FALSE, StableDisallowUnlinked)
      /\ text.rules[7] = Rule(FALSE, StableDisallowLinked)
      /\ text.rules[8] = Rule(TRUE, Under(<<"public">>))
      /\ text.rules[9] = Rule(TRUE, StableAllowUnlinked)
      /\ text.rules[10] = Rule(TRUE, traps["control_allow"])
  <2>1. /\ TextRule(TrapRule(FALSE, "self"), traps) = Rule(FALSE, traps["self"])
        /\ TextRule(TrapRule(TRUE, "control_allow"), traps) = Rule(TRUE, traps["control_allow"])
    <3>1. "self" # "" /\ "control_allow" # ""
      OBVIOUS
    <3> QED
      BY <1>2, <3>1
  <2>2. /\ text.rules[1] = TextRule(Everyone[1], traps) /\ text.rules[2] = TextRule(Everyone[2], traps)
        /\ text.rules[3] = TextRule(Everyone[3], traps) /\ text.rules[4] = TextRule(Everyone[4], traps)
        /\ text.rules[5] = TextRule(Everyone[5], traps) /\ text.rules[6] = TextRule(Everyone[6], traps)
        /\ text.rules[7] = TextRule(Everyone[7], traps) /\ text.rules[8] = TextRule(Everyone[8], traps)
        /\ text.rules[9] = TextRule(Everyone[9], traps) /\ text.rules[10] = TextRule(Everyone[10], traps)
    BY <1>1, <1>3, Zenon
  <2> QED
    BY <1>2, <2>1, <2>2, EveryoneIs
<1>8. /\ text.rules[1].allow = FALSE /\ text.rules[2].allow = FALSE /\ text.rules[3].allow = FALSE
      /\ text.rules[4].allow = FALSE /\ text.rules[5].allow = FALSE /\ text.rules[6].allow = FALSE
      /\ text.rules[7].allow = FALSE /\ text.rules[8].allow = TRUE /\ text.rules[9].allow = TRUE
      /\ text.rules[10].allow = TRUE
  BY <1>4, AllowOfRule
<1>5. \A j \in 1..7 : text.rules[j].allow = FALSE
  BY <1>8
<1>6. \A j \in 8..10 : text.rules[j].allow = TRUE
  BY <1>8
<1>7. /\ Patterns(text.rules[1]) = {Under(<<"internal">>)}
      /\ Patterns(text.rules[2]) = {Under(<<"private">>)}
      /\ Patterns(text.rules[3]) = {Under(<<"reserved">>)}
      /\ Patterns(text.rules[4]) = {Under(<<"docs", "restricted">>)}
  <2>1. \A j : text.rules[j] = Everyone[j] => Patterns(text.rules[j]) = Patterns(Everyone[j])
    BY Zenon
  <2>2. /\ text.rules[1] = Everyone[1] /\ text.rules[2] = Everyone[2]
        /\ text.rules[3] = Everyone[3] /\ text.rules[4] = Everyone[4]
    BY <1>4, EveryoneIs
  <2> QED
    BY <2>1, <2>2, FirstPatterns, Zenon
<1>13. Patterns(text.rules[5]) = {traps["self"]}
  <2>1. text.rules[5] = Rule(FALSE, traps["self"])
    BY <1>4
  <2>2. Patterns(Rule(FALSE, traps["self"])) = {traps["self"]}
    BY PatternsOfRule
  <2> QED
    BY <2>1, <2>2
<1>9. /\ Patterns(text.rules[6]) = {StableDisallowUnlinked}
      /\ Patterns(text.rules[7]) = {StableDisallowLinked}
  BY <1>4, PatternsOfRule, Zenon
<1>12. /\ Patterns(text.rules[8]) = {Under(<<"public">>)}
       /\ Patterns(text.rules[9]) = {StableAllowUnlinked}
  BY <1>4, PatternsOfRule
<1>10. Patterns(text.rules[10]) = {TrapPath("control_allow", t)}
  <2>1. text.rules[10] = Rule(TRUE, traps["control_allow"])
    BY <1>4
  <2>2. Patterns(Rule(TRUE, traps["control_allow"])) = {traps["control_allow"]}
    BY PatternsOfRule
  <2> QED
    BY <2>1, <2>2
<1>11. Opened(text, {traps["self"]}, t)
  BY <1>1, <1>5, <1>6, <1>7, <1>9, <1>10, <1>12, <1>13, Zenon DEF Opened
<1> QED
  BY <1>11 DEF text

(* The groups: everyone's, and one for each named agent.                   *)
ForAgent(a) == [agents |-> <<a>>, rules |-> <<Rule(FALSE, Under(<<>>))>>]
ForEveryone == [agents |-> <<"*">>, rules |-> Everyone]

LEMMA AgentsAre ==
  /\ DOMAIN NamedAgents = 1..6 /\ \A i \in 1..6 : NamedAgents[i] # "*"
BY DEF NamedAgents

LEMMA GroupsAre ==
  /\ (\E Q : Groups \in Seq(Q)) /\ Len(Groups) = 7 /\ Groups # <<>>
  /\ Groups[1] = ForEveryone /\ \A i \in 2..7 : Groups[i] = ForAgent(NamedAgents[i - 1])
<1> DEFINE others == [i \in DOMAIN NamedAgents |-> ForAgent(NamedAgents[i])]
           Q == {ForEveryone} \union {ForAgent(NamedAgents[i]) : i \in 1..6}
<1>1. Groups = <<ForEveryone>> \o others
  BY Zenon DEF Groups, ForEveryone, ForAgent
<1>2. /\ others \in [1..6 -> Q] /\ \A i \in 1..6 : others[i] = ForAgent(NamedAgents[i])
  <2>1. others = [i \in 1..6 |-> ForAgent(NamedAgents[i])]
    BY AgentsAre, Zenon
  <2>2. \A i \in 1..6 : ForAgent(NamedAgents[i]) \in Q
    OBVIOUS
  <2> HIDE DEF others, Q
  <2> QED
    BY <2>1, <2>2
<1>3. <<ForEveryone>> \in Seq(Q) /\ Len(<<ForEveryone>>) = 1 /\ <<ForEveryone>>[1] = ForEveryone
  OBVIOUS
<1>4. others \in Seq(Q) /\ Len(others) = 6
  <2> HIDE DEF others, Q
  <2>1. \A n \in Nat : \A S, f : f \in [1..n -> S] => f \in Seq(S) /\ Len(f) = n
    OBVIOUS
  <2>2. 6 \in Nat
    OBVIOUS
  <2> QED
    BY <1>2, <2>1, <2>2, Zenon
<1> HIDE DEF others, Q
<1> DEFINE one == <<ForEveryone>>
<1> HIDE DEF one
<1>5. /\ one \o others \in Seq(Q) /\ Len(one \o others) = 1 + 6
      /\ \A i \in 1..(1 + 6) : (one \o others)[i] = IF i <= 1 THEN one[i] ELSE others[i - 1]
  <2>1. one \in Seq(Q) /\ Len(one) = 1
    BY <1>3 DEF one
  <2>2. Len(one \o others) = Len(one) + Len(others) /\ one \o others \in Seq(Q)
    BY <1>4, <2>1, ConcatProperties, Zenon
  <2>3. \A i \in 1..(Len(one) + Len(others)) :
          (one \o others)[i] = IF i <= Len(one) THEN one[i] ELSE others[i - Len(one)]
    BY <1>4, <2>1, ConcatProperties, Zenon
  <2> QED
    BY <1>4, <2>1, <2>2, <2>3, Zenon
<1>6. Groups \in Seq(Q) /\ Len(Groups) = 7
      /\ \A i \in 1..7 : Groups[i] = IF i <= 1 THEN one[i] ELSE others[i - 1]
  BY <1>1, <1>5 DEF one
<1>7. Groups[1] = ForEveryone
  BY <1>3, <1>6 DEF one
<1>8. \A i \in 2..7 : Groups[i] = ForAgent(NamedAgents[i - 1])
  <2> TAKE i \in 2..7
  <2>1. i \in 1..7 /\ ~(i <= 1) /\ i - 1 \in 1..6
    OBVIOUS
  <2> QED
    BY <1>2, <1>6, <2>1, Zenon
<1>9. Groups # <<>>
  <2>1. Len(<<>>) # 7
    OBVIOUS
  <2> QED
    BY <1>6, <2>1, Zenon
<1> QED
  BY <1>6, <1>7, <1>8, <1>9

(* Whom a group is for, of groups with the agents of ours.                 *)
AgentsOfOurs(groups) ==
  /\ DOMAIN groups = 1..7 /\ groups[1].agents = <<"*">>
  /\ \A i \in 2..7 : groups[i] = ForAgent(NamedAgents[i - 1])

NamedIn(ua) == {i \in 2..7 : NamedAgents[i - 1] \in ua}

LEMMA ChosenAre ==
  ASSUME NEW groups, AgentsOfOurs(groups), NEW ua
  PROVE  Chosen(groups, ua) = IF NamedIn(ua) # {} THEN {Groups[i] : i \in NamedIn(ua)} ELSE {groups[1]}
<1> DEFINE specific == {g \in ToSet(groups) : (ToSet(g.agents) \ {"*"}) \intersect ua # {}}
           common == {g \in ToSet(groups) : "*" \in ToSet(g.agents)}
<1>1. /\ ToSet(groups[1].agents) = {"*"}
      /\ \A i \in 2..7 : ToSet(groups[i].agents) = {NamedAgents[i - 1]} /\ NamedAgents[i - 1] # "*"
  <2>1. \A a : ToSet(<<a>>) = {a}
    BY DEF ToSet
  <2>2. groups[1].agents = <<"*">>
    BY DEF AgentsOfOurs
  <2>3. ASSUME NEW i \in 2..7
        PROVE  groups[i].agents = <<NamedAgents[i - 1]>> /\ NamedAgents[i - 1] # "*"
    <3>1. i - 1 \in 1..6
      OBVIOUS
    <3>2. ForAgent(NamedAgents[i - 1]).agents = <<NamedAgents[i - 1]>>
      BY DEF ForAgent
    <3>3. groups[i] = ForAgent(NamedAgents[i - 1])
      BY Zenon DEF AgentsOfOurs
    <3> QED
      BY <3>1, <3>2, <3>3, AgentsAre, Zenon
  <2> QED
    BY <2>1, <2>2, <2>3, Zenon
<1>2. /\ ToSet(groups) = {groups[i] : i \in 1..7}
      /\ \A i \in 1..7 : i = 1 \/ i \in 2..7
      /\ \A i \in 2..7 : i \in 1..7
      /\ 1 \in 1..7
  BY DEF ToSet, AgentsOfOurs
<1>3. \A i \in 2..7 : groups[i] = Groups[i]
  BY GroupsAre, Zenon DEF AgentsOfOurs
<1>4. specific = {Groups[i] : i \in NamedIn(ua)}
  <2>1. ASSUME NEW g \in specific
        PROVE  g \in {Groups[i] : i \in NamedIn(ua)}
    <3>1. PICK i \in 1..7 : g = groups[i]
      BY <1>2
    <3>2. (ToSet(g.agents) \ {"*"}) \intersect ua # {}
      OBVIOUS
    <3>3. i \in 2..7
      BY <1>1, <1>2, <3>1, <3>2
    <3>4. NamedAgents[i - 1] \in ua
      BY <1>1, <3>1, <3>2, <3>3
    <3> QED
      BY <1>3, <3>1, <3>3, <3>4, Zenon DEF NamedIn
  <2>2. ASSUME NEW i \in NamedIn(ua)
        PROVE  Groups[i] \in specific
    <3>1. i \in 2..7 /\ NamedAgents[i - 1] \in ua
      BY DEF NamedIn
    <3>2. groups[i] \in ToSet(groups)
      BY <1>2, <3>1
    <3>3. (ToSet(groups[i].agents) \ {"*"}) \intersect ua # {}
      BY <1>1, <3>1
    <3> QED
      BY <1>3, <3>1, <3>2, <3>3, Zenon
  <2> QED
    BY <2>1, <2>2
<1>5. common = {groups[1]}
  <2>1. groups[1] \in common
    BY <1>1, <1>2
  <2>2. ASSUME NEW g \in common
        PROVE  g = groups[1]
    <3>1. PICK i \in 1..7 : g = groups[i]
      BY <1>2
    <3>2. i \notin 2..7
      BY <1>1, <3>1
    <3> QED
      BY <1>2, <3>1, <3>2
  <2> QED
    BY <2>1, <2>2
<1>6. specific = {} <=> NamedIn(ua) = {}
  BY <1>4
<1>7. Chosen(groups, ua) = IF specific # {} THEN specific ELSE common
  BY Zenon DEF Chosen
<1> HIDE DEF specific, common
<1> QED
  BY <1>4, <1>5, <1>6, <1>7

(* A named agent is judged by its group, which no trap is in; anyone else  *)
(* by the first group.                                                     *)
LEMMA NamedAgentsAgree ==
  ASSUME NEW groups, AgentsOfOurs(groups), NEW ua, NamedIn(ua) # {}, NEW path
  PROVE  Evaluate(groups, path, ua) <=> Evaluate(Groups, path, ua)
<1>1. AgentsOfOurs(Groups)
  <2>1. ForEveryone.agents = <<"*">>
    BY DEF ForEveryone
  <2> QED
    BY <2>1, GroupsAre DEF AgentsOfOurs
<1>2. Chosen(groups, ua) = Chosen(Groups, ua)
  BY <1>1, ChosenAre
<1> QED
  BY <1>2, Zenon DEF Evaluate

LEMMA OthersByTheFirst ==
  ASSUME NEW groups, AgentsOfOurs(groups), NEW ua, NamedIn(ua) = {}, NEW path
  PROVE  Evaluate(groups, path, ua) <=> path # RobotsTxt /\ Verdict(groups[1], path)
<1>1. Chosen(groups, ua) = {groups[1]}
  BY ChosenAre
<1> QED
  BY <1>1, Zenon DEF Evaluate, Verdict

(* What a robots file says is what the judge goes by, the traps aside.     *)
AllRules == ToSet(Everyone) \union {Rule(FALSE, Under(<<>>))}

Values(traps) == {TextPath(r, traps) : r \in AllRules} \union {<<>>, "*"} \union ToSet(NamedAgents)

Plainly(r) == \E b \in BOOLEAN : \E p : r = Rule(b, p)
ByTrap(r) == \E b \in BOOLEAN, s \in {"self", "control_allow"} : r = TrapRule(b, s)

LEMMA RulesAre ==
  ASSUME NEW r \in AllRules
  PROVE  Plainly(r) \/ ByTrap(r)
<1>1. /\ \A p : Plainly(Rule(FALSE, p)) /\ Plainly(Rule(TRUE, p))
      /\ ByTrap(TrapRule(FALSE, "self")) /\ ByTrap(TrapRule(TRUE, "control_allow"))
  BY DEF Plainly, ByTrap
<1>2. CASE r \in ToSet(Everyone)
  <2>1. PICK j \in 1..10 : r = Everyone[j]
    BY <1>2, EveryoneIs, Zenon DEF ToSet
  <2>2. j = 1 \/ j = 2 \/ j = 3 \/ j = 4 \/ j = 5 \/ j = 6 \/ j = 7 \/ j = 8 \/ j = 9 \/ j = 10
    OBVIOUS
  <2>3. /\ Plainly(Everyone[1]) /\ Plainly(Everyone[2]) /\ Plainly(Everyone[3])
        /\ Plainly(Everyone[4]) /\ Plainly(Everyone[6]) /\ Plainly(Everyone[7])
        /\ Plainly(Everyone[8]) /\ Plainly(Everyone[9])
    BY <1>1, EveryoneIs
  <2>4. ByTrap(Everyone[5]) /\ ByTrap(Everyone[10])
    BY <1>1, EveryoneIs
  <2> QED
    BY <2>1, <2>2, <2>3, <2>4, Zenon
<1>3. CASE r = Rule(FALSE, Under(<<>>))
  BY <1>1, <1>3, Zenon
<1> QED
  BY <1>2, <1>3 DEF AllRules

LEMMA GroupsAreReadable ==
  ASSUME NEW traps, traps["self"] # <<>>, traps["control_allow"] # <<>>, NEW i \in 1..Len(Groups)
  PROVE  Readable(Groups[i], traps, Values(traps), AllRules)
<1>1. ASSUME NEW r \in AllRules
      PROVE  /\ r.allow \in BOOLEAN /\ TextPath(r, traps) \in Values(traps)
             /\ r.trap # "" => traps[r.trap] # <<>>
  <2>1. TextPath(r, traps) \in Values(traps)
    BY Zenon DEF Values
  <2>2. Plainly(r) \/ ByTrap(r)
    BY RulesAre
  <2>3. CASE Plainly(r)
    <3>1. PICK b \in BOOLEAN : \E p : r = Rule(b, p)
      BY <2>3 DEF Plainly
    <3>2. r.allow = b /\ r.trap = ""
      <4>1. PICK p : r = Rule(b, p)
        BY <3>1
      <4> QED
        BY <4>1 DEF Rule
    <3> QED
      BY <2>1, <3>2
  <2>4. CASE ByTrap(r)
    <3>1. PICK b \in BOOLEAN, s \in {"self", "control_allow"} : r = TrapRule(b, s)
      BY <2>4 DEF ByTrap
    <3>2. r.allow = b /\ r.trap = s
      BY <3>1 DEF TrapRule
    <3> QED
      BY <2>1, <3>2
  <2> QED
    BY <2>2, <2>3, <2>4
<1>2. ASSUME NEW rules \in Seq(AllRules)
      PROVE  Legible(rules, traps, Values(traps))
  <2>1. \A j \in 1..Len(rules) : rules[j] \in AllRules
    OBVIOUS
  <2> QED
    BY <1>1, <2>1, Zenon DEF Legible
<1>3. i \in 1..7
  BY GroupsAre, Zenon
<1>4. CASE i = 1
  <2>1. Everyone \in Seq(AllRules) /\ Everyone # <<>>
    <3>2. \A j \in 1..10 : Everyone[j] \in AllRules
      BY EveryoneIs, Zenon DEF AllRules, ToSet
    <3>3. Everyone = <<Everyone[1], Everyone[2], Everyone[3], Everyone[4], Everyone[5],
                       Everyone[6], Everyone[7], Everyone[8], Everyone[9], Everyone[10]>>
      BY EveryoneIs, Zenon DEF Everyone
    <3>4. {1, 2, 3, 4, 5, 6, 7, 8, 9, 10} \subseteq 1..10
      OBVIOUS
    <3> DEFINE R == AllRules
    <3>5. /\ Everyone[1] \in R /\ Everyone[2] \in R /\ Everyone[3] \in R /\ Everyone[4] \in R
          /\ Everyone[5] \in R /\ Everyone[6] \in R /\ Everyone[7] \in R /\ Everyone[8] \in R
          /\ Everyone[9] \in R /\ Everyone[10] \in R
      BY <3>2, <3>4
    <3> HIDE DEF R
    <3>6. <<Everyone[1], Everyone[2], Everyone[3], Everyone[4], Everyone[5],
            Everyone[6], Everyone[7], Everyone[8], Everyone[9], Everyone[10]>> \in Seq(R)
      BY <3>5
    <3>7. Len(<<Everyone[1], Everyone[2], Everyone[3], Everyone[4], Everyone[5], Everyone[6],
                Everyone[7], Everyone[8], Everyone[9], Everyone[10]>>) = 10 /\ 10 # 0
      OBVIOUS
    <3> QED
      BY <3>3, <3>6, <3>7, NotEmpty, Zenon DEF R
  <2>2. "*" \in Values(traps)
    BY DEF Values
  <2>3. Groups[i] = [agents |-> <<"*">>, rules |-> Everyone]
    BY <1>4, GroupsAre, Zenon DEF ForEveryone
  <2> QED
    BY <1>2, <2>1, <2>2, <2>3, Zenon DEF Readable
<1>5. CASE i \in 2..7
  <2> DEFINE rules == <<Rule(FALSE, Under(<<>>))>>
             a == NamedAgents[i - 1]
  <2>1. rules \in Seq(AllRules) /\ rules # <<>>
    <3>1. \A S : \A x \in S : <<x>> \in Seq(S) /\ <<x>> # <<>>
      OBVIOUS
    <3> QED
      BY <3>1 DEF AllRules
  <2>2. a \in Values(traps)
    <3>1. i - 1 \in 1..6
      BY <1>5
    <3> QED
      BY <3>1, AgentsAre DEF Values, ToSet
  <2>3. Groups[i] = [agents |-> <<a>>, rules |-> rules]
    BY <1>5, GroupsAre, Zenon DEF ForAgent
  <2> HIDE DEF rules, a
  <2> QED
    BY <1>2, <2>1, <2>2, <2>3, Zenon DEF Readable
<1> QED
  BY <1>3, <1>4, <1>5

(* The text read back: our groups, the traps spelled out.                  *)
LEMMA TextReadBack ==
  ASSUME NEW traps, traps["self"] # <<>>, traps["control_allow"] # <<>>
  PROVE  /\ AgentsOfOurs(Parse(Text(traps)))
         /\ Parse(Text(traps))[1] = TextGroup(ForEveryone, traps)
<1> DEFINE G == [i \in 1..Len(Groups) |-> TextGroup(Groups[i], traps)]
<1>1. Parse(Text(traps)) = G
  <2>1. <<>> \in Values(traps)
    BY DEF Values
  <2>2. \A i \in 1..Len(Groups) : Readable(Groups[i], traps, Values(traps), AllRules)
    BY GroupsAreReadable
  <2>3. PICK Q : Groups \in Seq(Q)
    BY GroupsAre
  <2> QED
    BY <2>1, <2>2, <2>3, GroupsAre, ParseText
<1>2. Len(Groups) = 7 /\ 1 \in 1..7 /\ \A i \in 2..7 : i \in 1..7
  BY GroupsAre
<1>3. DOMAIN G = 1..7 /\ \A i \in 1..7 : G[i] = TextGroup(Groups[i], traps)
  BY <1>2, Zenon
<1> HIDE DEF G
<1>4. G[1] = TextGroup(ForEveryone, traps)
  BY <1>2, <1>3, GroupsAre, Zenon
<1>5. TextGroup(ForEveryone, traps).agents = <<"*">>
  BY DEF TextGroup, ForEveryone
<1>6. \A a : TextGroup(ForAgent(a), traps) = ForAgent(a)
  <2> TAKE a
  <2> DEFINE rule == Rule(FALSE, Under(<<>>))
             one == <<rule>>
  <2>1. TextRule(rule, traps) = rule
    BY DEF TextRule, TextPath, Rule
  <2> HIDE DEF rule
  <2>2. Len(one) = 1 /\ one = [j \in 1..1 |-> rule] /\ one[1] = rule
    OBVIOUS
  <2>3. \A j \in 1..1 : j = 1
    OBVIOUS
  <2>4. [j \in 1..Len(one) |-> TextRule(one[j], traps)] = one
    <3> HIDE DEF one
    <3> QED
      BY <2>1, <2>2, <2>3
  <2>5. ForAgent(a) = [agents |-> <<a>>, rules |-> one]
    BY Zenon DEF ForAgent, rule
  <2> HIDE DEF one
  <2>6. ForAgent(a).agents = <<a>> /\ ForAgent(a).rules = one
    BY <2>5
  <2> QED
    BY <2>4, <2>5, <2>6, Zenon DEF TextGroup
<1>7. \A i \in 2..7 : G[i] = ForAgent(NamedAgents[i - 1])
  <2> TAKE i \in 2..7
  <2>1. G[i] = TextGroup(Groups[i], traps)
    BY <1>2, <1>3, Zenon
  <2>2. Groups[i] = ForAgent(NamedAgents[i - 1])
    BY GroupsAre, Zenon
  <2> QED
    BY <1>6, <2>1, <2>2, Zenon
<1>8. AgentsOfOurs(G)
  BY <1>3, <1>4, <1>5, <1>7, Zenon DEF AgentsOfOurs
<1> QED
  BY <1>1, <1>4, <1>8, Zenon

(* The judge, and a robots file with traps of its own.                     *)
LEMMA JudgeAndText ==
  ASSUME NEW P, NEW path \in Seq(P), NEW ua, NEW traps, NEW s \in Robots, NEW u, NEW t,
         traps["self"] = TrapPath(s, u), traps["control_allow"] = TrapPath("control_allow", t),
         t # Star, t # End
  PROVE  LET forbidden == Evaluate(Parse(Text(traps)), path, ua) IN
         /\ Disallowed(path, ua) => forbidden
         /\ forbidden /\ ~Disallowed(path, ua) => Within(path, "internal", "control_allow")
<1> DEFINE text == Parse(Text(traps))
<1>1. s \in RuleStandards /\ "control_allow" \in RuleStandards
  BY DEF RuleStandards
<1>2. AgentsOfOurs(text) /\ text[1] = TextGroup(ForEveryone, traps)
  <2>1. Len(TrapPath(s, u)) = 8 /\ Len(TrapPath("control_allow", t)) = 8
    BY <1>1, TrapMatches
  <2>2. 8 # 0
    OBVIOUS
  <2>3. traps["self"] # <<>> /\ traps["control_allow"] # <<>>
    BY <2>1, <2>2, NotEmpty, Zenon
  <2> QED
    BY <2>3, TextReadBack, Zenon
<1> HIDE DEF text
<1>3. AgentsOfOurs(Groups)
  <2>1. ForEveryone.agents = <<"*">> /\ DOMAIN Groups = 1..7
    BY GroupsAre DEF ForEveryone
  <2> QED
    BY <2>1, GroupsAre, Zenon DEF AgentsOfOurs
<1>4. CASE NamedIn(ua) # {}
  BY <1>2, <1>4, NamedAgentsAgree, Zenon DEF Disallowed, text
<1>5. CASE NamedIn(ua) = {}
  <2>1. ForEveryone.rules = Everyone
    BY DEF ForEveryone
  <2>2. /\ Evaluate(text, path, ua) <=> path # RobotsTxt /\ Verdict(text[1], path)
        /\ Evaluate(Groups, path, ua) <=> path # RobotsTxt /\ Verdict(Groups[1], path)
    BY <1>2, <1>3, <1>5, OthersByTheFirst, Zenon
  <2>3. Verdict(text[1], path) <=> Forbidden(path) /\ ~Matches(TrapPath("control_allow", t), path)
    <3> DEFINE X == {traps["self"]}
    <3>1. Opened(text[1], X, t)
      BY <1>2, <2>1, TextOpened
    <3>2. \A x \in X : \E z \in Robots : \E v : x = TrapPath(z, v)
      OBVIOUS
    <3> HIDE DEF X
    <3> QED
      BY <3>1, <3>2, OpenedForbids
  <2>4. Verdict(Groups[1], path) <=> Forbidden(path) /\ ~Matches(TrapPath("control_allow", Star), path)
    <3> DEFINE X == {TrapPath(z, Star) : z \in Robots}
    <3>1. Opened(Groups[1], X, Star)
      BY <2>1, GroupsAre, TableOpened
    <3>2. \A x \in X : \E z \in Robots : \E v : x = TrapPath(z, v)
      BY Zenon
    <3> HIDE DEF X
    <3> QED
      BY <3>1, <3>2, OpenedForbids
  <2>5. Matches(TrapPath("control_allow", t), path) => Matches(TrapPath("control_allow", Star), path)
    BY <1>1, TokenMatchesStar
  <2>6. Matches(TrapPath("control_allow", Star), path) => Within(path, "internal", "control_allow")
    BY <1>1, TrapMatches
  <2> QED
    BY <2>2, <2>3, <2>4, <2>5, <2>6, Zenon DEF Disallowed, text
<1> QED
  BY <1>4, <1>5

-----------------------------------------------------------------------------
(* Every path that is asked for is a sequence.                             *)
IsPath(path) == path \in Seq(ToSet(path))
PathsInv == \A e \in log : e.kind = "request" => IsPath(e.path)

LEMMA SequencesArePaths ==
  ASSUME NEW S, NEW path \in Seq(S)
  PROVE  IsPath(path)
<1>1. path \in [1..Len(path) -> {path[i] : i \in DOMAIN path}] /\ Len(path) \in Nat
  OBVIOUS
<1> QED
  BY <1>1 DEF IsPath, ToSet

LEMMA FilesArePaths ==
  ASSUME NEW D, NEW dirs \in Seq(D), NEW name
  PROVE  IsPath(Under(dirs)) /\ IsPath(File(dirs, name))
<1> DEFINE n == 2 * Len(dirs) + 1
           S == {Under(dirs)[i] : i \in 1..n} \union {<<name>>}
<1>1. n \in Nat
  OBVIOUS
<1>2. Under(dirs) = [i \in 1..n |-> Under(dirs)[i]]
  BY DEF Under
<1>3. \A i \in 1..n : Under(dirs)[i] \in S
  OBVIOUS
<1> DEFINE u == Under(dirs)
<1> HIDE DEF n, S, u
<1>4. u \in Seq(S)
  <2>1. u = [i \in 1..n |-> u[i]] /\ \A i \in 1..n : u[i] \in S
    BY <1>2, <1>3, Zenon DEF u
  <2>2. u \in [1..n -> S]
    BY <2>1
  <2> QED
    BY <1>1, <2>2
<1>5. <<name>> \in S
  BY DEF S
<1>6. Append(u, <<name>>) \in Seq(S)
  BY <1>4, <1>5, OneLonger
<1> QED
  BY <1>4, <1>6, SequencesArePaths, Zenon DEF File, u

LEMMA PlantedArePaths == \A place \in Places : IsPath(Planted[place].path)
<1> SUFFICES ASSUME NEW place \in Places
             PROVE  IsPath(Planted[place].path)
  OBVIOUS
<1>1. place \in {"index", "docs_index", "project_index", "page", "restricted", "public",
                 "asset_css", "asset_js"}
  BY PlacesOK DEF Planted
<1>2. /\ Planted["index"].path = Under(<<>>) /\ Planted["docs_index"].path = Under(<<"docs">>)
      /\ Planted["project_index"].path = Under(<<"docs", "p001">>)
      /\ Planted["page"].path = File(<<"docs", "p001">>, "00.html")
      /\ Planted["restricted"].path = File(<<"docs", "restricted">>, "index.html")
      /\ Planted["public"].path = Under(<<"public">>)
      /\ Planted["asset_css"].path = File(<<"assets">>, "style.css")
      /\ Planted["asset_js"].path = File(<<"assets">>, "app.js")
  BY DEF Planted, StableDisallowLinked
<1> DEFINE D == {"docs", "p001", "restricted", "public", "assets"}
<1>3. /\ <<>> \in Seq(D) /\ <<"docs">> \in Seq(D) /\ <<"docs", "p001">> \in Seq(D)
      /\ <<"docs", "restricted">> \in Seq(D) /\ <<"public">> \in Seq(D) /\ <<"assets">> \in Seq(D)
  OBVIOUS
<1> HIDE DEF D
<1>4. \A dirs \in Seq(D) : \A name : IsPath(Under(dirs)) /\ IsPath(File(dirs, name))
  BY FilesArePaths
<1> QED
  BY <1>1, <1>2, <1>3, <1>4, Zenon

LEMMA PathsArePaths ==
  ASSUME BeaconInv, NEW path \in Paths
  PROVE  IsPath(path)
<1>1. CASE path \in Unrouted
  BY <1>1, ConstantsOK DEF IsPath
<1>2. CASE path \notin Unrouted
  <2>1. PICK x \in served : path \in Seq(Atoms(x.token))
    BY <1>2, PathAtoms
  <2> QED
    BY <2>1, SequencesArePaths
<1> QED
  BY <1>1, <1>2

LEMMA RecordedKeepsPaths ==
  ASSUME PathsInv, NEW c, NEW path, NEW resource, NEW status, NEW brought, NEW events,
         Recorded(c, path, resource, status, brought, events), IsPath(path),
         \A e \in events : e.kind # "request"
  PROVE  PathsInv'
<1> DEFINE request == Request(c, path, resource, status, brought)
<1>1. log' = log \union events \union {request} /\ request.path = path
  BY DEF Recorded, Request
<1> HIDE DEF request
<1> QED
  BY <1>1 DEF PathsInv, IsPath

LEMMA HuntKeepsPaths ==
  ASSUME PathsInv, NEW c, NEW path, NEW resource, NEW status, NEW brought, NEW issued, NEW on,
         Recorded(c, path, resource, status, brought, {Hunt(c, path, issued, on)}), IsPath(path)
  PROVE  PathsInv'
<1>1. \A e \in {Hunt(c, path, issued, on)} : e.kind # "request"
  BY DEF Hunt
<1> QED
  BY <1>1, RecordedKeepsPaths

LEMMA HuntProbeKeepsPaths ==
  ASSUME PathsInv, NEW c, NEW path, NEW probe, NEW brought, HuntProbe(c, path, probe, brought),
         IsPath(path)
  PROVE  PathsInv'
<1>1. PICK status, issued, on :
        Recorded(c, path, "hunt", status, brought, {Hunt(c, path, issued, on)})
  BY ZenonT(30) DEF HuntProbe
<1> QED
  BY <1>1, HuntKeepsPaths

LEMMA ReadPolicyKeepsPaths ==
  ASSUME PathsInv, NEW c, NEW s, NEW brought, ReadPolicy(c, s, brought)
  PROVE  PathsInv'
<1> DEFINE path == IF s = "robots" THEN RobotsTxt ELSE File(<<>>, s)
           read == [kind |-> "policy_read", client |-> c, path |-> path, standard |-> s,
                    tokens |-> Named(Mint(c, Carries(s)).tokens)]
<1>1. Recorded(c, path, "policy", 200, brought, {read})
  BY DEF ReadPolicy
<1>2. \A e \in {read} : e.kind # "request"
  OBVIOUS
<1>3. IsPath(path)
  <2>1. <<>> \in Seq({})
    OBVIOUS
  <2> QED
    BY <2>1, FilesArePaths DEF RobotsTxt
<1> HIDE DEF path, read
<1> QED
  BY <1>1, <1>2, <1>3, RecordedKeepsPaths

LEMMA ViewKeepsPaths ==
  ASSUME PathsInv, NEW c, NEW place \in Places, NEW brought, View(c, place, brought)
  PROVE  PathsInv'
<1>1. PICK status : Recorded(c, Planted[place].path, place, status, brought, {})
  BY DEF View
<1> QED
  BY <1>1, PlantedArePaths, RecordedKeepsPaths

LEMMA FetchKeepsPaths ==
  ASSUME PathsInv, NEW c, NEW path, IsPath(path), NEW brought, Fetch(c, path, brought)
  PROVE  PathsInv'
<1>1. ASSUME NEW t, Recorded(c, path, "trap", 200, brought, {BeaconHit(c, path, t)})
      PROVE  PathsInv'
  <2>1. \A e \in {BeaconHit(c, path, t)} : e.kind # "request"
    BY DEF BeaconHit
  <2> QED
    BY <1>1, <2>1, RecordedKeepsPaths
<1>2. CASE \E p : HuntProbe(c, path, p, brought)
  BY <1>2, HuntProbeKeepsPaths
<1>3. CASE Recorded(c, path, "stable", 200, brought, {StableHit(c, path)})
  <2>1. \A e \in {StableHit(c, path)} : e.kind # "request"
    BY DEF StableHit
  <2> QED
    BY <1>3, <2>1, RecordedKeepsPaths
<1>4. CASE Recorded(c, path, "not_found", 404, brought, {})
  BY <1>4, RecordedKeepsPaths
<1> QED
  BY <1>1, <1>2, <1>3, <1>4 DEF Fetch

LEMMA PersonaKeepsPaths ==
  ASSUME PathsInv, NEW c, NEW path, IsPath(path), NEW brought,
         \/ \E shapes, probe : WebApp(c, path, shapes, probe, brought)
         \/ \E persona : Workflow(c, persona, path, brought) \/ Service(c, persona, path, brought)
  PROVE  PathsInv'
<1>1. CASE \E p : HuntProbe(c, path, p, brought)
  BY <1>1, HuntProbeKeepsPaths
<1>2. ASSUME NEW resource, NEW status, NEW issued, NEW on,
             Recorded(c, path, resource, status, brought, {Hunt(c, path, issued, on)})
      PROVE  PathsInv'
  BY <1>2, HuntKeepsPaths
<1>3. ASSUME NEW shapes, NEW probe, WebApp(c, path, shapes, probe, brought)
      PROVE  PathsInv'
  BY <1>2, <1>3 DEF WebApp
<1>4. ASSUME NEW persona, Workflow(c, persona, path, brought)
      PROVE  PathsInv'
  BY <1>2, <1>4 DEF Workflow
<1>5. ASSUME NEW persona, Service(c, persona, path, brought)
      PROVE  PathsInv'
  BY <1>1, <1>2, <1>5 DEF Service
<1> QED
  BY <1>3, <1>4, <1>5

LEMMA PathsStep == BeaconInv /\ PathsInv /\ [Next]_vars => PathsInv'
<1> SUFFICES ASSUME BeaconInv, PathsInv, [Next]_vars
             PROVE  PathsInv'
  OBVIOUS
<1>1. CASE Tick \/ Restart \/ UNCHANGED vars
  BY <1>1 DEF Tick, Restart, vars, PathsInv, IsPath
<1>2. ASSUME NEW c \in Clients, NEW brought \in Cargo,
             \/ \E s \in Surfaces : ReadPolicy(c, s, brought)
             \/ \E place \in Places : View(c, place, brought)
             \/ \E path \in Paths : Fetch(c, path, brought)
             \/ \E shapes \in Shapes, i \in DOMAIN Probes :
                  WebApp(c, Probes[i].prefix, shapes, Probes[i], brought)
             \/ \E persona \in Personas : \E path \in persona.asked :
                  Workflow(c, persona, path, brought) \/ Service(c, persona, path, brought)
      PROVE  PathsInv'
  <2>1. /\ \A i \in DOMAIN Probes : IsPath(Probes[i].prefix)
        /\ \A persona \in Personas : \A path \in persona.asked : IsPath(path)
    BY ConstantsOK DEF IsPath
  <2>2. CASE \E s \in Surfaces : ReadPolicy(c, s, brought)
    BY <2>2, ReadPolicyKeepsPaths
  <2>3. CASE \E place \in Places : View(c, place, brought)
    BY <2>3, ViewKeepsPaths
  <2>4. CASE \E path \in Paths : Fetch(c, path, brought)
    BY <2>4, PathsArePaths, FetchKeepsPaths
  <2>5. CASE \E shapes \in Shapes, i \in DOMAIN Probes :
               WebApp(c, Probes[i].prefix, shapes, Probes[i], brought)
    BY <2>1, <2>5, PersonaKeepsPaths
  <2>6. CASE \E persona \in Personas : \E path \in persona.asked :
               Workflow(c, persona, path, brought) \/ Service(c, persona, path, brought)
    BY <2>1, <2>6, PersonaKeepsPaths
  <2> QED
    BY <1>2, <2>2, <2>3, <2>4, <2>5, <2>6
<1> QED
  BY <1>1, <1>2 DEF Next

LEMMA PathsAlways == Spec => []PathsInv
<1>1. Init => PathsInv
  BY DEF Init, PathsInv
<1> QED
  BY <1>1, PathsStep, BeaconsAlways, PTL DEF Spec

LEMMA WithinIsPrefix ==
  ASSUME NEW P, NEW path \in Seq(P), NEW a, NEW b, Within(path, a, b)
  PROVE  IsPrefix(Under(<<a, b>>), path)
<1> DEFINE u == <<Slash, <<a>>, Slash, <<b>>, Slash>>
<1>1. /\ 5 <= Len(path) /\ Len(path) \in Nat /\ path[1] = Slash /\ path[2] = <<a>>
      /\ path[3] = Slash /\ path[4] = <<b>> /\ path[5] = Slash
  BY DEF Within, In
<1>2. /\ u \in Seq({Slash, <<a>>, <<b>>}) /\ Len(u) = 5
      /\ \A i \in 1..5 : path[i] = u[i]
  BY <1>1
<1> HIDE DEF u
<1>3. /\ SubSeq(path, 1, 5) = [i \in 1..5 |-> path[i]]
      /\ SubSeq(u, 1, 5) = [i \in 1..5 |-> u[i]]
  BY <1>1, <1>2
<1>5. SubSeq(u, 1, 5) = SubSeq(path, 1, 5)
  BY <1>2, <1>3
<1>4. Under(<<a, b>>) = u
  BY UnderTwo DEF u
<1> QED
  BY <1>1, <1>2, <1>4, <1>5 DEF IsPrefix

(* What a client is called a violator for, every robots file it was served *)
(* forbids it, parsed and judged as a crawler would, and the judge lets    *)
(* pass what such a file forbids only on the control's path: for any user  *)
(* agents and paths, whatever tokens are in the file.                      *)
THEOREM JudgedAsServedAlways == Spec => []JudgedAsServed
<1>1. PathsInv => JudgedAsServed
  <2> SUFFICES ASSUME PathsInv, NEW e \in log, NEW r \in log, e.kind = "request",
                      r.kind = "policy_read", r.standard \in Robots, r.client = e.client
               PROVE  LET forbidden == Evaluate(Parse(Text(Own(r))), e.path, e.client.ua) IN
                      /\ Disallowed(e.path, e.client.ua) => forbidden
                      /\ forbidden /\ ~Disallowed(e.path, e.client.ua)
                           => IsPrefix(Under(<<"internal", "control_allow">>), e.path)
    BY DEF JudgedAsServed
  <2> DEFINE u(s) == Atom(CHOOSE t \in r.tokens : t.standard = s)
             path == e.path
             ua == e.client.ua
             own == Own(r)
             P == ToSet(e.path)
  <2>1. path \in Seq(P)
    BY DEF PathsInv, IsPath
  <2>2. /\ own["self"] = TrapPath(r.standard, u(r.standard))
        /\ own["control_allow"] = TrapPath("control_allow", u("control_allow"))
    BY DEF Own
  <2>3. u("control_allow") # Star /\ u("control_allow") # End
    BY DEF Atom, Star, End
  <2> HIDE DEF u, path, ua, own, P
  <2>4. LET forbidden == Evaluate(Parse(Text(own)), path, ua) IN
        /\ Disallowed(path, ua) => forbidden
        /\ forbidden /\ ~Disallowed(path, ua) => Within(path, "internal", "control_allow")
    BY <2>1, <2>2, <2>3, JudgeAndText
  <2>5. Within(path, "internal", "control_allow")
          => IsPrefix(Under(<<"internal", "control_allow">>), path)
    BY <2>1, WithinIsPrefix
  <2> QED
    BY <2>4, <2>5, Zenon DEF path, ua, own
<1> QED
  BY <1>1, PathsAlways, PTL

=============================================================================
