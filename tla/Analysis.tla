------------------------------- MODULE Analysis -------------------------------
(***************************************************************************)
(* What the log is used for.  Requests come in, each leaves a few events,  *)
(* any of which may be lost, and midnight may fall between them; the log   *)
(* is folded into sessions and actors (Sessions), and finished days are    *)
(* published (Publish).                                                    *)
(*                                                                         *)
(* A request is [client, query, basic, apikey, body, login, tool, probe,   *)
(* urls]: texts as in Publish, as far as they are looked at (32768         *)
(* characters of each), login which of them is a login form, if any, probe *)
(* and urls what hunt.py makes of the path and of the texts.  An exploit   *)
(* is the piece <<"attack">>, a base64 blob <<"blob", the URLs in it>>.    *)
(***************************************************************************)
EXTENDS Sessions, Publish, FiniteSetsExt

CONSTANTS
  Requests,     \* what may be asked
  UrlsMax,      \* how many URLs are taken of a text, and of a request
  BlobsMax,     \* how many base64 blobs are opened of a text
  OwnHost,      \* the sensor's
  NoProbe,      \* the path is no probe
  Days,         \* bound: days of the log
  MaxRequests,  \* bound
  MaxVerdicts   \* bound

Texts(r) == {r.query, r.basic, r.apikey, r.body}

-----------------------------------------------------------------------------
(* scan_payload(), scan_request() of capture.py.  Which URLs and blobs are *)
(* the first is up to their order, which a set of pieces does not tell.    *)

Firsts(S, n) == IF Cardinality(S) <= n THEN {S} ELSE {u \in SUBSET S : Cardinality(u) = n}

Clear(t) == {w \in Seen(t) : w[1] = "url"}
Blobs(t) == {w \in Seen(t) : w[1] = "blob"}
Held(t, blobs) == Clear(t) \union UNION {w[2] : w \in blobs}

Scanned(t) == UNION {Firsts(Held(t, blobs), UrlsMax) : blobs \in Firsts(Blobs(t), BlobsMax)}

(* The sensor's own host counts in its text and is then left out.          *)
Foreign(urls) == {u \in urls : u[2] # OwnHost}

Findings(r) ==
  UNION {Firsts(UNION {Foreign(found[t]) : t \in Texts(r)}, UrlsMax) :
         found \in {f \in [Texts(r) -> UNION {Scanned(t) : t \in Texts(r)}] :
                      \A t \in Texts(r) : f[t] \in Scanned(t)}}

-----------------------------------------------------------------------------
ASSUME RequestsOK ==
  /\ Rounds \in Nat /\ Days \in Nat \ {0} /\ PrivateHeaders \subseteq {"authorization", "x_api_key"}
  /\ \A r \in Requests :
       /\ \A t \in Texts(r) : \A p \in t : p.depth \in Nat
       /\ r.urls \in Findings(r)
       /\ r.login \in {"none", "query", "body"}
       /\ r.probe # NoProbe => {r.probe.stage, r.probe.decoy_served} \subseteq BOOLEAN

VARIABLES
  today,
  sent,       \* the requests, numbered by their rids
  files,      \* by day: the events stored
  lost,       \* whether any event has been lost
  verdicts,   \* identity events so far
  published   \* by day, if it has been exported: the events that went out

vars == <<today, sent, files, lost, verdicts, published>>

Init ==
  /\ today = 1 /\ sent = <<>> /\ files = [d \in 1..Days |-> <<>>] /\ lost = FALSE
  /\ verdicts = 0 /\ published = <<>>

-----------------------------------------------------------------------------
(* What the sensor makes of a request.                                     *)

(* actor_id(): the address and the better of two fingerprints.             *)
ActorOf(c) == <<c.ip, IF c.ja4 = "none" THEN <<"header_order", c.order>> ELSE <<"ja4", c.ja4>>>>

(* _units() and _views() of attacks.py: each part with its decodings, but  *)
(* a Basic value as it stands.                                             *)
Viewed(r) == [query |-> r.query, apikey |-> r.apikey, body |-> r.body]
Attacks(r) == {n \in DOMAIN Viewed(r) : <<"attack">> \in Seen(Viewed(r)[n])}

(* oast_domains(), which reads the last layer of a text: that one shows    *)
(* what any does, but for a name that a decoding runs into its neighbour,  *)
(* and such a name is no piece.                                            *)
Oast(r) == {w \in UNION {Seen(Viewed(r)[n]) : n \in DOMAIN Viewed(r)} : w[1] = "oast"}

(* scan_request() of honeytokens.py, which also decodes a Basic value.     *)
Replayed(r) ==
  {w \in UNION {Seen(t) : t \in Texts(r)} : Ours(w) /\ w[2] # "beacon"}

(* extract() of credentials.py.                                            *)
Given(text) == IF text = {} THEN <<>> ELSE <<text>>
Credentials(r) ==
  Given(r.basic) \o Given(r.apikey) \o Given(IF r.login = "none" THEN {} ELSE r[r.login])

(* An event: where it comes from, its fields as texts, and what else it    *)
(* tells, derived from them.                                               *)
Event(kind, rid, r, fields, tells) ==
  [kind |-> kind, rid |-> rid, actor |-> ActorOf(r.client), ip |-> r.client.ip,
   fields |-> fields, tells |-> tells]

HuntEvent(rid, r) ==
  Event("hunt", rid, r, [query |-> r.query],
        [family |-> r.probe.family, web_attacks |-> r.probe.web_attacks, stage |-> r.probe.stage,
         decoy_served |-> r.probe.decoy_served, urls |-> r.urls])

RequestEvent(rid, r) ==
  Event("request", rid, r,
        [query |-> r.query, authorization |-> r.basic, x_api_key |-> r.apikey, body |-> r.body,
         replays |-> {[what |-> w, depth |-> 0] : w \in Replayed(r)}],
        [attacks |-> Attacks(r), tools |-> r.tool, oast |-> Oast(r), urls |-> r.urls,
         replayed |-> Replayed(r), bodies |-> IF r.body = {} THEN {} ELSE {<<r.body>>}])

CredentialEvent(rid, r, text) ==
  Event("credential", rid, r, [password |-> text], [pair |-> <<text>>])

(* record(): the handler's event, the request, its credentials.            *)
Emitted(rid, r) ==
  (IF r.probe = NoProbe THEN <<>> ELSE <<HuntEvent(rid, r)>>) \o <<RequestEvent(rid, r)>>
  \o [i \in DOMAIN Credentials(r) |-> CredentialEvent(rid, r, Credentials(r)[i])]

(* The events of a sequence that stand at the given places.                *)
Standing(all, places) ==
  FlattenSeq([i \in DOMAIN all |-> IF i \in places THEN <<all[i]>> ELSE <<>>])

(* The events in `kept` are stored, those beyond `cut` on the next day.    *)
Serve(r) ==
  LET all == Emitted(Len(sent) + 1, r) IN
  /\ Len(sent) < MaxRequests /\ sent' = Append(sent, r)
  /\ \E kept \in SUBSET DOMAIN all, cut \in 0..Len(all) :
       /\ cut < Len(all) => today < Days
       /\ today' = IF cut < Len(all) THEN today + 1 ELSE today
       /\ files' = [d \in 1..Days |->
                      files[d] \o Standing(all, {i \in kept : d = IF i <= cut THEN today ELSE today + 1})]
       /\ lost' = (lost \/ kept # DOMAIN all)
  /\ UNCHANGED <<verdicts, published>>

(* _verify_identity(): an event that belongs to no request.                *)
VerdictEvent(v) ==
  [kind |-> "identity", rid |-> 0, actor |-> <<>>, tells |-> [verdict |-> v],
   fields |-> [rdns |-> {[what |-> <<"data">>, depth |-> 0]}]]

Verdict ==
  /\ verdicts < MaxVerdicts /\ verdicts' = verdicts + 1
  /\ \E v \in {"verified", "impersonating"} :
       files' = [files EXCEPT ![today] = Append(@, VerdictEvent(v))]
  /\ UNCHANGED <<today, sent, lost, published>>

Export ==
  /\ \E d \in 1..(today - 1) \ DOMAIN published :
       published' = [x \in DOMAIN published \union {d} |->
                       IF x = d THEN ExportDay(files[d]) ELSE published[x]]
  /\ UNCHANGED <<today, sent, files, lost, verdicts>>

Next == (\E r \in Requests : Serve(r)) \/ Verdict \/ Export

Spec == Init /\ [][Next]_vars

-----------------------------------------------------------------------------
(* The files read one after the other.                                     *)
Log == FlattenSeq(files)

Sent(a) == {r \in ToSet(sent) : ActorOf(r.client) = a}

(* The URLs in a request, and whether no limit keeps any of them out.      *)
Brought(r) == Foreign(UNION {Held(t, Blobs(t)) : t \in Texts(r)})
Moderate(r) ==
  /\ \A t \in Texts(r) : /\ Cardinality(Blobs(t)) <= BlobsMax
                         /\ Cardinality(Held(t, Blobs(t))) <= UrlsMax
  /\ Cardinality(Brought(r)) <= UrlsMax

Delivers(r, urls) ==
  ({"host"} \X ({w[2] : w \in urls \union Oast(r)} \ {NoHost}))
    \union ({"honeytoken"} \X Replayed(r))
    \union (IF Attacks(r) # {} /\ r.body # {} THEN {<<"body", r.body>>} ELSE {})

Rank(r) ==
  IF \/ Attacks(r) # {} \/ Credentials(r) # <<>>
     \/ r.urls \union Replayed(r) # {}
     \/ r.probe # NoProbe /\ r.probe.web_attacks \intersect PayloadAttacks # {} THEN 4
  ELSE IF r.probe = NoProbe THEN 0
  ELSE IF r.probe.stage THEN 3 ELSE IF r.probe.decoy_served THEN 2 ELSE 1

(* A session reaches the stage that its furthest request reached, in any   *)
(* order of its requests and over midnight; and when events were lost, no  *)
(* further one.                                                            *)
StagesAreEarned ==
  \A a \in Actors(Log) :
    LET earned == Max({Rank(r) : r \in Sent(a)})
        reached == Stage(Session(Log, a))
    IN reached <= earned /\ (~lost => reached = earned)

(* Two actors can be joined only if both brought the same thing: a host    *)
(* their payloads point at, an exploit's body, a credential we planted.    *)
(* An address, a tool or a password that they share does not join them.    *)
(* And when nothing is lost, whoever brought the same is joined, but for a *)
(* host in requests with more URLs or base64 blobs than scan_payload()     *)
(* takes.                                                                  *)
JoinsAreEarned ==
  \A a, b \in Actors(Log) : a # b =>
    LET joined == JoinKeys(Session(Log, a)) \intersect JoinKeys(Session(Log, b)) # {}
        sure(r) == IF Moderate(r) THEN Brought(r) ELSE {}
    IN /\ joined => \E q \in Sent(a), r \in Sent(b) :
                      Delivers(q, Brought(q)) \intersect Delivers(r, Brought(r)) # {}
       /\ ~lost /\ (\E q \in Sent(a), r \in Sent(b) :
                      Delivers(q, sure(q)) \intersect Delivers(r, sure(r)) # {}) => joined

(* Of the tokens that verify, those leave that a client sent encoded more  *)
(* often than url_layers() decodes, and no others: what a client sent      *)
(* plain or encoded as often as that, and what the sensor noted of it      *)
(* itself, stays.  The AWS secret leaves in clear only in an event that    *)
(* does not show its key id.  And all else is there: a token of another    *)
(* key, an exploit, and every event without a token that only decoding     *)
(* shows (sanitize, leaks, export_day).                                    *)
TokensStayAtHome ==
  \A d \in DOMAIN published :
    LET out == ToSet(published[d])
        hides(r) == \E t \in Texts(r) :
                      \E w \in Seen({p \in t : p.depth > 0}) : Ours(w)
    IN /\ \A e \in out : \A t \in Units(e) : \A p \in t : Ours(p.what) =>
            p.depth > Rounds /\ \E text \in Texts(sent[e.rid]) : p \in text
       /\ \A e \in out : <<"secret", Key>> \in UNION {Plain(t) : t \in Units(e)} =>
            \E f \in ToSet(Emitted(e.rid, sent[e.rid])) :
              f.kind = e.kind /\ KeyId \notin UNION {Seen(t) : t \in Units(f)}
       /\ \A e \in ToSet(files[d]) : e.kind # "identity" =>
            LET r == sent[e.rid] IN
            ~hides(r) =>
              \E f \in out : /\ f.kind = e.kind /\ f.rid = e.rid
                             /\ e.kind = "request" /\ Attacks(r) # {} =>
                                  \A n \in {"query", "authorization", "x_api_key", "body"} :
                                    {w \in Seen(e.fields[n]) : ~Ours(w) /\ w[1] # "secret"}
                                      \subseteq Seen(f.fields[n])

(* A password, a cookie or a body leaves in clear only with a request that *)
(* carried an attack, also when that request was lost or is in the file of *)
(* another day.                                                            *)
VisitorsAreHidden ==
  \A d \in DOMAIN published : \A e \in ToSet(published[d]) :
    \A n \in DOMAIN e.fields \intersect ({"password", "body"} \union PrivateHeaders) :
      e.fields[n] # Redacted => Attacks(sent[e.rid]) # {}

(* tests/test_export_r2.py:97: "visitor cookie and credential redacted".   *)
(* Refuted: a value that the credential event hides stands in the headers  *)
(* of its own request.                                                     *)
CredentialsAreHidden ==
  \A d \in DOMAIN published : \A e \in ToSet(files[d]), f \in ToSet(published[d]) :
    (e.kind = "credential" /\ f.kind = "request" /\ f.rid = e.rid /\ f.tells.attacks = {}) =>
      \A n \in DOMAIN f.fields : Plain(f.fields[n]) \intersect Plain(e.fields["password"]) = {}
=============================================================================
