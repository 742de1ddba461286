-------------------------------- MODULE Traps --------------------------------
(***************************************************************************)
(* What the sensor plants and recognises again: the beacons of beacons.py  *)
(* in policy files and pages, the honeytokens of honeytokens.py in decoys, *)
(* and the handlers of server.py that serve and meet them.  A token says   *)
(* by itself what it is, so that it outlives the process; the process only *)
(* keeps a cache by which a client is given one token for a while.         *)
(*                                                                         *)
(* A handler runs without an await, so each is one action.  The events are *)
(* those emitted: EventLog says which of them are stored.  Hashes are      *)
(* taken as injective.  A client is [ip, ua], ua as in Robots; `served`    *)
(* and `given` are histories of what left the sensor.                      *)
(***************************************************************************)
EXTENDS Robots, FiniteSets, Functions, FiniteSetsExt

CONSTANTS
  Clients,
  Surfaces,      \* the policy files in use, of POLICY_FILES
  Unrouted,      \* the paths without a handler of their own that are asked for
  Places,        \* the pages in use, of DOMAIN Planted
  Probes,        \* the probe signatures of hunt.py in their order
  Personas,      \* the persona ports that are open, and the paths asked for there
  Shapes,        \* the sets of shapes in which requests to the web application come
  Key, OtherKey, \* the signing key, and another one
  Window,        \* beacon_reuse_seconds
  Limit,         \* the size of the cache beyond which it is swept
  Hour,          \* the time that one step of a honeytoken's stamp stands for
  HoursMax,      \* the largest stamp
  MaxTime, MaxRequests  \* bounds

(* A token is signed, so the paths that are asked for without having been  *)
(* read somewhere hold none.                                               *)
ASSUME ConstantsOK ==
  /\ \A c \in Clients : c = [ip |-> c.ip, ua |-> c.ua]
  /\ \A path \in Unrouted : \A i \in DOMAIN path : path[i][1] # "token"
  /\ \A path \in (Unrouted \union {Probes[i].prefix : i \in DOMAIN Probes})
                   \union (UNION {persona.asked : persona \in Personas}) : path \in Seq(ToSet(path))
  /\ Surfaces \subseteq (Prohibitions \union Invitations) /\ Key # OtherKey
  /\ Window \in Nat /\ Limit \in Nat /\ Hour \in Nat \ {0} /\ HoursMax \in Nat

VARIABLES
  now,
  decoys,    \* CRAWL_HUNT_DECOYS of this process
  cache,     \* _beacon_cache
  served,    \* the beacons that went out: token, client, time
  given,     \* the honeytokens that went out: token, client, time
  log,       \* the events emitted
  requests   \* the number of requests so far

vars == <<now, decoys, cache, served, given, log, requests>>

Init ==
  /\ now = 0 /\ decoys \in BOOLEAN /\ cache = <<>> /\ served = {} /\ given = {}
  /\ log = {} /\ requests = 0

-----------------------------------------------------------------------------
(* Beacons.                                                                *)

Beacon(s, c) == [standard |-> s, ip |-> c.ip, ua |-> c.ua, ts |-> now, key |-> Key,
                 canonical |-> TRUE]
Atom(t) == <<"token", t>>

(* parse(): ours, and spelled the one way in which we spell it.            *)
Genuine(t) == t.key = Key /\ t.canonical

(* find_in_path(): the first genuine token of a path.                      *)
Found(path) ==
  LET at == {i \in DOMAIN path : path[i][1] = "token" /\ Genuine(path[i][2])} IN
  IF at = {} THEN {} ELSE {path[Min(at)][2]}

\* Mutation: whoever comes next with the same user agent is given the same token.
KeyByAgent(s, c) == <<s, c.ua>>

CacheKey(s, c) == <<s, c.ip, c.ua>>

(* Beyond the limit, what has outlived the window goes.                    *)
Swept(entries) ==
  IF Cardinality(DOMAIN entries) > Limit
  THEN Restrict(entries, {k \in DOMAIN entries : entries[k].ts + Window >= now}) ELSE entries

Storing(t, k, entries) ==
  [j \in DOMAIN entries \union {k} |-> IF j = k THEN t ELSE entries[j]]

(* Sensor.mint(), onto the tokens minted so far.                           *)
MintOne(m, c, s) ==
  LET k == CacheKey(s, c) IN
  IF Window > 0 /\ k \in DOMAIN m.cache /\ now - m.cache[k].ts < Window
  THEN [m EXCEPT !.tokens = Append(@, m.cache[k])]
  ELSE [tokens |-> Append(m.tokens, Beacon(s, c)),
        cache |-> IF Window = 0 THEN m.cache ELSE Storing(Beacon(s, c), k, Swept(m.cache))]

(* The same for the standards of a sequence one after the other.           *)
Mint(c, standards) ==
  LET after[n \in 0..Len(standards)] ==
        IF n = 0 THEN [tokens |-> <<>>, cache |-> cache]
        ELSE MintOne(after[n - 1], c, standards[n])
  IN  after[Len(standards)]

Serving(c, tokens) == {[token |-> t, client |-> c, at |-> now] : t \in ToSet(tokens)}

-----------------------------------------------------------------------------
(* Honeytokens.                                                            *)

\* Mutation: the stamp is rounded, not cut.
RoundedStamp(time) == Min({(time + Hour \div 2) \div Hour, HoursMax})

Stamp(time) == Min({time \div Hour, HoursMax})
Honeytoken(kind, c) == [kind |-> kind, hours |-> Stamp(now), ip |-> c.ip, key |-> Key]

(* fill(): one token per kind; the secret of an AWS pair is a function of  *)
(* its key id, and brings the id's token with it.                          *)
Filled(kinds, c) ==
  {Honeytoken(IF k = "aws_secret" THEN "aws_access_key" ELSE k, c) : k \in kinds}

(* scan_request(): the tokens of ours among those a request brings.        *)
Replays(c, brought) ==
  {[token |-> t, at |-> now, age |-> Max({0, now - t.hours * Hour}), same_ip |-> t.ip = c.ip] :
     t \in {b \in brought : b.key = Key}}

-----------------------------------------------------------------------------
(* What record() adds to every request, after the handler's own events.    *)

(* Events bear the time only where something hangs on it.                  *)
Request(c, path, resource, status, brought) ==
  [kind |-> "request", client |-> c, path |-> path,
   resource |-> resource, status |-> status, honeytokens |-> Replays(c, brought)]

Recorded(c, path, resource, status, brought, events) ==
  /\ requests' = requests + 1
  /\ log' = log \union events \union {Request(c, path, resource, status, brought)}
  /\ UNCHANGED <<now, decoys>>

(* POLICY_FILES, extras included: the tokens of a file in minting order.   *)
Carries(s) == IF s \in Robots THEN <<s, "control_allow">> ELSE <<s>>

\* Mutation: the event names the file's own token only.
OwnToken(tokens) == {tokens[1]}

(* The tokens that the event of a policy read names.                       *)
Named(tokens) == ToSet(tokens)

(* policy_file(), with render_with().                                      *)
ReadPolicy(c, s, brought) ==
  LET m == Mint(c, Carries(s))
      path == IF s = "robots" THEN RobotsTxt ELSE File(<<>>, s)
      read == [kind |-> "policy_read", client |-> c, path |-> path,
               standard |-> s, tokens |-> Named(m.tokens)] IN
  /\ cache' = m.cache /\ served' = served \union Serving(c, m.tokens)
  /\ Recorded(c, path, "policy", 200, brought, {read})
  /\ UNCHANGED given

(* The pages: path, resource and beacons of each.  A page of the site also *)
(* answers 304 to a client that shows the right validator.                 *)
Planted ==
  [index |-> [path |-> Under(<<>>), beacons |-> <<"hidden_link", "nofollow">>],
   docs_index |-> [path |-> Under(<<"docs">>), beacons |-> <<>>],
   project_index |-> [path |-> Under(<<"docs", "p001">>), beacons |-> <<>>],
   page |-> [path |-> File(<<"docs", "p001">>, "00.html"), beacons |-> <<>>],
   restricted |-> [path |-> StableDisallowLinked, beacons |-> <<"meta_noai">>],
   public |-> [path |-> Under(<<"public">>), beacons |-> <<>>],
   asset_css |-> [path |-> File(<<"assets">>, "style.css"), beacons |-> <<"css_beacon">>],
   asset_js |-> [path |-> File(<<"assets">>, "app.js"), beacons |-> <<"js_beacon">>]]

ASSUME PlacesOK == Places \subseteq DOMAIN Planted

(* index(), docs_index(), project(), page(), restricted_index(),           *)
(* public_index(), stylesheet(), script().                                 *)
View(c, place, brought) ==
  LET m == Mint(c, Planted[place].beacons) IN
  /\ cache' = m.cache /\ served' = served \union Serving(c, m.tokens)
  /\ \E status \in IF place = "page" THEN {200, 304} ELSE {200} :
       Recorded(c, Planted[place].path, place, status, brought, {})
  /\ UNCHANGED given

(* hunt.match(): the first signature, of the given families, that fits.    *)
Signature(path, families) ==
  LET fit == {i \in DOMAIN Probes : Probes[i].family \in families /\ IsPrefix(Probes[i].prefix, path)} IN
  IF fit = {} THEN {} ELSE {Probes[Min(fit)]}
Families == {Probes[i].family : i \in DOMAIN Probes}

(* hunt_probe().  A decoy is the set of placeholders in it, NoDecoy none.  *)
NoDecoy == {"no decoy"}
Hunt(c, path, issued, served_decoy) ==
  [kind |-> "hunt", client |-> c, path |-> path, at |-> now,
   issued |-> issued, decoy_served |-> served_decoy]

HuntProbe(c, path, probe, brought) ==
  LET on == probe.decoy # NoDecoy /\ decoys
      issued == IF on THEN Filled(probe.decoy, c) ELSE {} IN
  /\ given' = given \union {[token |-> t, client |-> c, at |-> now] : t \in issued}
  /\ Recorded(c, path, "hunt", IF on THEN 200 ELSE 404, brought, {Hunt(c, path, issued, on)})
  /\ UNCHANGED <<cache, served>>

(* The trap_hit events of catch_all(): a beacon's, and a stable path's.    *)
BeaconHit(c, path, t) ==
  [kind |-> "trap_hit", client |-> c, path |-> path, at |-> now,
   token |-> t, standard |-> t.standard, delay |-> now - t.ts, same_ip |-> t.ip = c.ip,
   same_ua |-> t.ua = c.ua, disallowed |-> Disallowed(path, c.ua)]
StableHit(c, path) ==
  [kind |-> "trap_hit", client |-> c, path |-> path,
   standard |-> "stable", disallowed |-> Disallowed(path, c.ua)]

(* catch_all(), and health() anywhere but on the admin socket.             *)
Fetch(c, path, brought) ==
  LET beacon == Found(path)
      probe == Signature(path, Families)
      stable == path \in {StableDisallowUnlinked, StableAllowUnlinked} IN
  \/ \E t \in beacon :
       /\ Recorded(c, path, "trap", 200, brought, {BeaconHit(c, path, t)})
       /\ UNCHANGED <<cache, served, given>>
  \/ \E p \in probe : beacon = {} /\ HuntProbe(c, path, p, brought)
  \/ /\ beacon = {} /\ probe = {} /\ stable
     /\ Recorded(c, path, "stable", 200, brought, {StableHit(c, path)})
     /\ UNCHANGED <<cache, served, given>>
  \/ /\ beacon = {} /\ probe = {} /\ ~stable
     /\ Recorded(c, path, "not_found", 404, brought, {})
     /\ UNCHANGED <<cache, served, given>>

-----------------------------------------------------------------------------
(* Persona ports.                                                          *)

(* webapp.respond(): the first of these shapes that a request has decides  *)
(* the page; a traversal to a credential file gets that file's template.   *)
WebShapes == <<"traversal", "sqli", "php", "phpinfo", "cms", "root">>
Template(shapes) == shapes \intersect {"traversal", "dotdot"} # {} /\ "credential_file" \in shapes
WebReply(shapes) ==
  LET fit == {i \in DOMAIN WebShapes : WebShapes[i] \in shapes} IN
  CASE Template(shapes) -> "traversal"
    [] ~Template(shapes) /\ fit # {} -> WebShapes[Min(fit)]
    [] OTHER -> "unmapped"

(* persona_dispatch() of the web application: its template is filled when  *)
(* decoys are on and blanked when they are off.                            *)
WebApp(c, path, shapes, probe, brought) ==
  LET issued == IF Template(shapes) /\ decoys THEN Filled(probe.decoy, c) ELSE {}
      status == CASE WebReply(shapes) = "sqli" -> 500 [] WebReply(shapes) = "unmapped" -> 404
                  [] OTHER -> 200 IN
  /\ Template(shapes) => probe.decoy \notin {NoDecoy, {}}
  /\ given' = given \union {[token |-> t, client |-> c, at |-> now] : t \in issued}
  /\ Recorded(c, path, "webapp", status, brought, {Hunt(c, path, issued, decoys)})
  /\ UNCHANGED <<cache, served>>

(* persona_dispatch() of the others: a step of a workflow (never minted:   *)
(* ids are functions of key and client), a probe of the port's families,   *)
(* or the default reply.                                                   *)
Workflow(c, persona, path, brought) ==
  /\ path \in persona.stages /\ decoys
  /\ Recorded(c, path, "stage", 200, brought, {Hunt(c, path, {}, TRUE)})
  /\ UNCHANGED <<cache, served, given>>
Service(c, persona, path, brought) ==
  LET probe == Signature(path, persona.families) IN
  /\ ~(path \in persona.stages /\ decoys)
  /\ \/ \E p \in probe : HuntProbe(c, path, p, brought)
     \/ /\ probe = {}
        /\ Recorded(c, path, "persona", 404, brought, {Hunt(c, path, {}, persona.default /\ decoys)})
        /\ UNCHANGED <<cache, served, given>>

-----------------------------------------------------------------------------
Tick == now < MaxTime /\ now' = now + 1 /\ UNCHANGED <<decoys, cache, served, given, log, requests>>

(* The process ends, by a stop or a crash, and after a while another one   *)
(* takes over, perhaps configured differently.                             *)
Restart ==
  /\ now < MaxTime /\ now' = now + 1 /\ cache' = <<>> /\ decoys' \in BOOLEAN
  /\ UNCHANGED <<served, given, log, requests>>

(* What can be asked for: the trap path of any token that went out, alone  *)
(* or after a misspelled one and one of another key; other paths.          *)
Misspelled(t) == [t EXCEPT !.canonical = FALSE]
Forged(t) == [t EXCEPT !.key = OtherKey]
Paths ==
  Unrouted \union UNION {{TrapPath(t.standard, Atom(t)),
                   TrapPath(t.standard, Atom(Misspelled(t)))
                     \o <<Slash, Atom(Forged(t)), Slash, Atom(t)>>} :
                  t \in {x.token : x \in served}}

(* What a request can bring: nothing, or a honeytoken, ours or forged.     *)
Cargo == {{}} \union UNION {{{g.token}, {Forged(g.token)}} : g \in given}

Next ==
  \/ Tick
  \/ Restart
  \/ /\ requests < MaxRequests
     /\ \E c \in Clients, brought \in Cargo :
       \/ \E s \in Surfaces : ReadPolicy(c, s, brought)
       \/ \E place \in Places : View(c, place, brought)
       \/ \E path \in Paths : Fetch(c, path, brought)
       \/ \E shapes \in Shapes, i \in DOMAIN Probes : WebApp(c, Probes[i].prefix, shapes, Probes[i], brought)
       \/ \E persona \in Personas : \E path \in persona.asked :
            Workflow(c, persona, path, brought) \/ Service(c, persona, path, brought)

Spec == Init /\ [][Next]_vars

-----------------------------------------------------------------------------
(* Properties.                                                             *)

Hits == {e \in log : e.kind = "trap_hit" /\ e.standard # "stable"}

(* A trap hit tells the truth about its reader: the token went out, with   *)
(* the standard the event names, to one client only, and each time no      *)
(* later than a window after it was minted; same_ip and same_ua compare    *)
(* with that client; and the delay covers the time since it went out.  It  *)
(* holds across restarts, shared caches of clients and altered tokens.     *)
HitsTellTheReader ==
  \A e \in Hits :
    /\ \E x \in served : x.token = e.token
    /\ \A x \in served : x.token = e.token =>
         /\ e.standard = x.token.standard
         /\ e.same_ip = (e.client.ip = x.client.ip) /\ e.same_ua = (e.client.ua = x.client.ua)
         /\ x.at - Window <= e.at - e.delay
         /\ x.at <= e.at => e.delay >= e.at - x.at

(* Whoever comes to the trap path of a policy file, the log holds the read *)
(* in which its token went out, with the reader's address and user agent.  *)
ReaderIsOnRecord ==
  \A e \in Hits : e.standard \in Surfaces \union Controls =>
    \E r \in log : /\ r.kind = "policy_read" /\ e.token \in r.tokens
                   /\ r.client = [ip |-> e.token.ip, ua |-> e.token.ua]

(* A honeytoken that comes back is one that was given out, is on record as *)
(* issued to the address that took it, and is called as old as it is, to   *)
(* the hour, and older only when its stamp has reached the largest value.  *)
ReplaysTellTheTaker ==
  \A e \in log : e.kind = "request" => \A f \in e.honeytokens :
    /\ \E g \in given : g.token = f.token
    /\ \A g \in given : g.token = f.token =>
         /\ f.same_ip = (g.client.ip = e.client.ip)
         /\ g.at <= f.at => f.age >= f.at - g.at
         /\ g.at \div Hour <= HoursMax => f.age < f.at - g.at + Hour
         /\ \E h \in log : h.kind = "hunt" /\ h.client = g.client /\ h.at = g.at /\ g.token \in h.issued

(* The judge and the text agree.  What a client is called a violator for,  *)
(* every robots file it was served forbids it, parsed and judged as a      *)
(* crawler would; and the judge lets pass what such a file forbids only on *)
(* the control's path with another client's token.                         *)
Own(r) == [trap \in {"self", "control_allow"} |->
  LET s == IF trap = "self" THEN r.standard ELSE trap IN
  TrapPath(s, Atom(CHOOSE t \in r.tokens : t.standard = s))]
JudgedAsServed ==
  \A e, r \in log :
    e.kind = "request" /\ r.kind = "policy_read" /\ r.standard \in Robots /\ r.client = e.client =>
      LET forbidden == Evaluate(Parse(Text(Own(r))), e.path, e.client.ua) IN
      /\ Disallowed(e.path, e.client.ua) => forbidden
      /\ forbidden /\ ~Disallowed(e.path, e.client.ua) => IsPrefix(Under(<<"internal", "control_allow">>), e.path)

(* README.md:129: the trap paths of prohibition and invitation files "sit  *)
(* under different prefixes, so `disallowed` is true for the first group   *)
(* and false for the second".                                              *)
InvitationsAreAllowed ==
  \A e \in Hits : e.standard \in Invitations /\ e.client.ua \intersect ToSet(NamedAgents) = {} => ~e.disallowed

=============================================================================
