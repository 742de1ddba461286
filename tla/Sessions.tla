------------------------------ MODULE Sessions ------------------------------
(***************************************************************************)
(* sessions.py: the log folded into one session per actor, and actors.py:  *)
(* what a session shows to whoever merges sensors.  Operators only; the    *)
(* events are made in Analysis.  A URL is <<"url", host, spelling>>, a     *)
(* callback domain <<"oast", host>>, and NoHost a host that is not valid.  *)
(* Wallets, pools and miners are found, kept and joined on as URLs are,    *)
(* and policy reads and trap hits touch nothing that is told here.         *)
(***************************************************************************)
EXTENDS Naturals, Sequences, FiniteSets, SequencesExt

CONSTANTS
  NoHost,
  PairsMax,       \* how many credential pairs a session keeps
  PayloadAttacks  \* _PAYLOAD_ATTACKS

Actors(log) == {e.actor : e \in {x \in ToSet(log) : x.actor # <<>>}}

NoSession ==
  [events |-> 0, requests |-> 0, ips |-> {}, families |-> {}, web_attacks |-> {},
   decoy_served |-> FALSE, walked_multistage |-> FALSE, attack_classes |-> {}, tools |-> {},
   oast |-> {}, urls |-> {}, tokens |-> {}, bodies |-> {}, attempts |-> 0, pairs |-> {}]

ObserveRequest(s, e) ==
  [s EXCEPT !.requests = @ + 1, !.attack_classes = @ \union e.tells.attacks, !.tools = @ \union e.tells.tools,
            !.oast = @ \union e.tells.oast, !.urls = @ \union e.tells.urls, !.tokens = @ \union e.tells.replayed,
            !.bodies = @ \union (IF e.tells.attacks # {} THEN e.tells.bodies ELSE {})]

ObserveHunt(s, e) ==
  [s EXCEPT !.families = @ \union {e.tells.family}, !.web_attacks = @ \union e.tells.web_attacks,
            !.decoy_served = @ \/ e.tells.decoy_served, !.walked_multistage = @ \/ e.tells.stage,
            !.urls = @ \union e.tells.urls]

ObserveCredential(s, e) ==
  [s EXCEPT !.attempts = @ + 1,
            !.pairs = IF Cardinality(@) < PairsMax THEN @ \union {e.tells.pair} ELSE @]

(* Mutant: whether a decoy was served is what the last event says.         *)
ObserveLast(s, e) ==
  LET t == [s EXCEPT !.events = @ + 1, !.ips = @ \union {e.ip}] IN
  CASE e.kind = "request"    -> ObserveRequest(t, e)
    [] e.kind = "hunt"       -> [ObserveHunt(t, e) EXCEPT !.decoy_served = e.tells.decoy_served]
    [] e.kind = "credential" -> ObserveCredential(t, e)

(* Mutant: the hash of any body counts, not only of one with an attack.    *)
ObserveAnyBody(s, e) ==
  LET t == [s EXCEPT !.events = @ + 1, !.ips = @ \union {e.ip}] IN
  CASE e.kind = "request"    -> [ObserveRequest(t, e) EXCEPT !.bodies = @ \union e.tells.bodies]
    [] e.kind = "hunt"       -> ObserveHunt(t, e)
    [] e.kind = "credential" -> ObserveCredential(t, e)

(* Session._observe()                                                      *)
Observe(s, e) ==
  LET t == [s EXCEPT !.events = @ + 1, !.ips = @ \union {e.ip}] IN
  CASE e.kind = "request"    -> ObserveRequest(t, e)
    [] e.kind = "hunt"       -> ObserveHunt(t, e)
    [] e.kind = "credential" -> ObserveCredential(t, e)

(* build_sessions(): events without an actor, the verdicts on identities,  *)
(* belong to nobody.                                                       *)
Session(log, a) ==
  LET after[n \in 0..Len(log)] ==
        IF n = 0 THEN NoSession
        ELSE IF log[n].actor = a THEN Observe(after[n - 1], log[n]) ELSE after[n - 1]
  IN  after[Len(log)]

HasPayload(s) ==
  \/ s.urls # {} \/ s.attempts > 0 \/ s.attack_classes # {} \/ s.tokens # {}
  \/ s.web_attacks \intersect PayloadAttacks # {}

(* stage_reached, as its rank in STAGES.                                   *)
Stage(s) ==
  CASE HasPayload(s) -> 4
    [] ~HasPayload(s) /\ s.walked_multistage -> 3
    [] ~HasPayload(s) /\ ~s.walked_multistage /\ s.decoy_served -> 2
    [] OTHER -> IF s.families \union s.web_attacks # {} THEN 1 ELSE 0

-----------------------------------------------------------------------------
(* Indicators of actors.py.                                                *)

Strong == {"url", "host", "sha256", "honeytoken"}
Strength(type) == IF type \in Strong THEN "strong" ELSE "weak"

(* normalize(): one form for all spellings, none for what is not valid.    *)
Normal(type, value) ==
  CASE type \in {"url", "host"} /\ value[2] = NoHost -> {}
    [] type = "url" /\ value[2] # NoHost -> {<<"url", value[2]>>}
    [] type = "host" /\ value[2] # NoHost -> {<<value[2]>>}
    [] OTHER -> {value}

(* _indicators(): the host of a URL is an indicator of its own.            *)
Raw(s) ==
  ({"ip"} \X {<<i>> : i \in s.ips}) \union ({"url"} \X s.urls)
    \union ({"host"} \X (s.urls \union s.oast)) \union ({"sha256"} \X s.bodies)
    \union ({"honeytoken"} \X s.tokens) \union ({"credential"} \X s.pairs)
    \union ({"tool"} \X {<<t>> : t \in s.tools})

Indicators(s) ==
  UNION {{[type |-> r[1], value |-> v, strength |-> Strength(r[1])] : v \in Normal(r[1], r[2])} :
         r \in Raw(s)}

JoinKeys(s) == {<<i.type, i.value>> : i \in {x \in Indicators(s) : x.strength = "strong"}}
=============================================================================
