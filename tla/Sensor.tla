------------------------------- MODULE Sensor -------------------------------
(***************************************************************************)
(* The sensor's record() middleware in server.py and the profiles that     *)
(* classify.py builds from its log.  Requests wait for their bodies side   *)
(* by side; once a body is there, the request is handled and its events    *)
(* are emitted without another await, so they form one block of the log.   *)
(* The log's queue is not drained meanwhile: once one event of a block is  *)
(* refused, so is the rest of the block (EventLog says when that happens). *)
(*                                                                         *)
(* A client is what classify.py keys by: a user agent with the crawler it  *)
(* claims to be.  Standards are the policy files and other places a beacon *)
(* is planted; the trap path of a standard carries that beacon.            *)
(***************************************************************************)
EXTENDS Naturals, Sequences

CONSTANTS
  Clients,
  Crawlers,      \* the clients whose user agent claims a known crawler
  Standards,     \* the standards of policies.py
  Kind,          \* STANDARD_KIND
  Robots,        \* ROBOTS_STANDARDS
  Policies,      \* the standards with a policy file
  Pages,         \* ordinary paths
  Planted,       \* policy file or page -> the standards whose trap paths it holds
  Forbidden,     \* the <<client, target>> pairs that robots.txt disallows
  MaxRequests    \* bound: requests that arrive

(* What a request asks for.                                                *)
Policy(s) == <<"policy", s>>
Trap(s) == <<"trap", s>>
Page(p) == <<"page", p>>
Health == <<"admin", "healthz">>
Targets ==
  {Policy(s) : s \in Policies} \union {Trap(s) : s \in Standards}
    \union {Page(p) : p \in Pages} \union {Health}

(* What it brings along: nothing of note, credentials, or text on which    *)
(* the indicator scanner raises.                                           *)
Cargo == {"plain", "credential", "awkward"}

ASSUME ConstantsOK ==
  /\ Crawlers \subseteq Clients
  /\ Kind \in [Standards -> {"prohibition", "invitation", "capability", "control"}]
  /\ Robots \subseteq Policies /\ Policies \subseteq Standards
  /\ Planted \in [{Policy(s) : s \in Policies} \union {Page(p) : p \in Pages} ->
                   SUBSET Standards]
  /\ \A t \in DOMAIN Planted, s \in Standards :
       s \in Planted[t] /\ Kind[s] = "prohibition" => t = Policy(s)
  /\ \A s \in Robots : Kind[s] = "prohibition"
  /\ Forbidden \subseteq Clients \X ({Page(p) : p \in Pages} \union {Trap(s) : s \in Standards})
  /\ MaxRequests \in Nat

VARIABLES
  requests,  \* the requests that arrived, in order of arrival
  minted,    \* the standards whose trap path is known to clients
  log        \* the events emitted, and for each whether the queue took it

vars == <<requests, minted, log>>

Waiting == {r \in DOMAIN requests : requests[r].phase = "body"}
Answered == {r \in DOMAIN requests : requests[r].phase = "answered"}

Init == requests = <<>> /\ minted = {} /\ log = <<>>

-----------------------------------------------------------------------------
(* The events of a request, in the order of record().                      *)

Event(r, kind) ==
  [kind |-> kind, rid |-> r, client |-> requests[r].client, what |-> requests[r].target]

(* What the handler emits itself.                                          *)
HandlerEvents(r) ==
  CASE requests[r].target[1] = "policy" -> <<Event(r, "policy_read")>>
    [] requests[r].target[1] = "trap" -> <<Event(r, "trap_hit")>>
    [] OTHER -> <<>>

CredentialEvents(r) ==
  IF requests[r].cargo = "credential" THEN <<Event(r, "credential")>> ELSE <<>>

\* Mutation: the request is recorded before its handler runs.
RequestFirst(r) ==
  IF requests[r].target = Health THEN <<>>
  ELSE <<Event(r, "request")>> \o HandlerEvents(r) \o CredentialEvents(r)

(* Operator traffic on the admin socket leaves nothing.                    *)
Block(r) ==
  IF requests[r].target = Health THEN <<>>
  ELSE HandlerEvents(r) \o <<Event(r, "request")>> \o CredentialEvents(r)

-----------------------------------------------------------------------------
(* A request comes in and its body is awaited.  A trap path is known to    *)
(* whoever was shown it, and to those it was passed on to.                 *)
Arrive(c, target, cargo) ==
  /\ Len(requests) < MaxRequests
  /\ target[1] = "trap" => target[2] \in minted
  /\ target = Health => cargo = "plain"
  /\ requests' = Append(requests,
       [client |-> c, target |-> target, cargo |-> cargo, phase |-> "body"])
  /\ UNCHANGED <<minted, log>>

(* The body is there, or its ten seconds are over: the rest of record(),   *)
(* with the first n events of the block taken by the queue.                *)
Serve(r) ==
  /\ r \in Waiting /\ requests[r].cargo # "awkward"
  /\ \E n \in 0..Len(Block(r)) :
       log' = log \o [i \in DOMAIN Block(r) |-> [event |-> Block(r)[i], kept |-> i <= n]]
  /\ minted' = IF requests[r].target \in DOMAIN Planted
               THEN minted \union Planted[requests[r].target] ELSE minted
  /\ requests' = [requests EXCEPT ![r].phase = "answered"]

(* The scanner, scan_request(), raises outside of every `try` of record(): *)
(* the server answers with an error of its own, and nothing is emitted.    *)
ServeAwkward(r) ==
  /\ r \in Waiting /\ requests[r].cargo = "awkward"
  /\ requests' = [requests EXCEPT ![r].phase = "answered"]
  /\ UNCHANGED <<minted, log>>

Next ==
  \/ \E c \in Clients, target \in Targets, cargo \in Cargo : Arrive(c, target, cargo)
  \/ \E r \in DOMAIN requests : Serve(r) \/ ServeAwkward(r)

Spec == Init /\ [][Next]_vars
-----------------------------------------------------------------------------
(* build_profiles(): the log is read from the start, event by event, and   *)
(* each goes into the profile of its user agent and claimed crawler.  A    *)
(* credential event carries no claimed crawler.                            *)

NoProfile == [read |-> {}, mined |-> {}, disallowed |-> {}, defied |-> {}, credentials |-> 0]

Key(e) == <<e.client, e.client \in Crawlers /\ e.kind # "credential">>

Absorbed(p, e, defiant) ==
  CASE e.kind = "policy_read" -> [p EXCEPT !.read = @ \union {e.what[2]}]
    [] e.kind = "trap_hit" /\ Kind[e.what[2]] = "prohibition" ->
         [p EXCEPT !.mined = @ \union {e.what[2]}, !.read = @ \union {e.what[2]}]
    [] e.kind = "trap_hit" /\ Kind[e.what[2]] = "invitation" ->
         [p EXCEPT !.read = @ \union {e.what[2]}]
    [] e.kind = "request" /\ <<e.client, e.what>> \in Forbidden ->
         [p EXCEPT !.disallowed = @ \union {e.what},
                   !.defied = IF defiant THEN @ \union {e.what} ELSE @]
    [] e.kind = "credential" -> [p EXCEPT !.credentials = @ + 1]
    [] OTHER -> p

\* Mutation: the test is the wrong way round.
AbsorbInverted(p, e) == Absorbed(p, e, p.read \intersect Robots = {})

\* Mutation: a violation is defiance in any case.
AbsorbAlways(p, e) == Absorbed(p, e, TRUE)

(* A violation is defiance only when robots.txt was read before it.        *)
Absorb(p, e) == Absorbed(p, e, p.read \intersect Robots # {})

\* Entries of the log: an event, and whether it is there to be read.
Profile(key, entries) ==
  LET after[n \in 0..Len(entries)] ==
        IF n = 0 THEN NoProfile
        ELSE IF entries[n].kept /\ Key(entries[n].event) = key
             THEN Absorb(after[n - 1], entries[n].event)
             ELSE after[n - 1]
  IN  after[Len(entries)]

State(p) ==
  CASE p.mined # {} -> "miner"
    [] p.mined = {} /\ p.defied # {} -> "defiant"
    [] p.mined = {} /\ p.defied = {} /\ p.disallowed # {} -> "ignorant"
    [] p.mined = {} /\ p.defied = {} /\ p.disallowed = {} /\ p.read # {} -> "compliant"
    [] OTHER -> "indeterminate"

-----------------------------------------------------------------------------
(* Properties.                                                             *)

(* The log as it is read, and as it would be had the queue taken it all.   *)
Stored == log
Emitted == [i \in DOMAIN log |-> [log[i] EXCEPT !.kept = TRUE]]
Keys == Clients \X BOOLEAN

(* Whatever the queue refused, a stored request for the trap path of a     *)
(* prohibition makes its client a miner: the hit that proves the mining is *)
(* never lost while the request that shows it is kept.                     *)
TrapsAreMined ==
  \A key \in Keys :
    LET p == Profile(key, Stored) IN
    \A what \in p.disallowed :
      what[1] = "trap" /\ Kind[what[2]] = "prohibition" => what[2] \in p.mined

(* A lossy log only hides: a profile holds no read, no mined standard and  *)
(* no violation that it would not hold if every event had been stored.     *)
LossOnlyHides ==
  \A key \in Keys :
    LET whole == Profile(key, Emitted)
        stored == Profile(key, Stored) IN
    /\ stored.read \subseteq whole.read /\ stored.mined \subseteq whole.mined
    /\ stored.disallowed \subseteq whole.disallowed /\ stored.defied \subseteq whole.defied

(* A client is called a miner only on the strength of a policy file that   *)
(* was really served, to it or to someone who passed the path on; and it   *)
(* is called defiant only if its own robots.txt read, or its use of a path *)
(* that only robots.txt holds, is in the log before the violation.         *)
VerdictsAreEarned ==
  \A key \in Keys :
    LET p == Profile(key, Stored) IN
    /\ \A s \in p.mined : \E i \in DOMAIN log :
         log[i].event.kind = "policy_read" /\ log[i].event.what = Policy(s)
    /\ \A what \in p.defied : \E i, j \in DOMAIN log :
         /\ i < j
         /\ Key(log[i].event) = key /\ log[i].event.kind \in {"policy_read", "trap_hit"}
         /\ log[i].event.what[2] \in Robots
         /\ Key(log[j].event) = key /\ log[j].event.what = what

(* The comment in record(), "a classifier bug must never cost the request  *)
(* event itself": what a client carries does not decide whether its        *)
(* request is recorded.                                                    *)
EveryAnswerRecorded ==
  \A r \in Answered : requests[r].target # Health =>
    \E i \in DOMAIN log : log[i].event.kind = "request" /\ log[i].event.rid = r

(* classify.py: "ignorant  never read a policy file".                      *)
IgnorantNeverRead ==
  \A key \in Keys :
    LET p == Profile(key, Stored) IN State(p) = "ignorant" => p.read = {}

=============================================================================
