-------------------------------- MODULE Boot --------------------------------
(***************************************************************************)
(* Starting and stopping sensors that share a data directory: the key file *)
(* of config.py, the range file of identity.py with its refresher, and the *)
(* listeners of server.py.  Several processes may be at it at once: a      *)
(* second sensor started by hand, or one that starts while its predecessor *)
(* still stops.  A supervisor starts a sensor that ended again.            *)
(*                                                                         *)
(* A key is named by the process that drew it, the part of one that a full *)
(* disk left by <<process>>; a key made from CRAWL_BEACON_SECRET has a     *)
(* name of its own.  A socket file is named by the process whose socket it *)
(* is.  Accepting on a listener and noting its role happen in one turn of  *)
(* the event loop.                                                         *)
(***************************************************************************)
EXTENDS Naturals, Sequences, FiniteSets, SequencesExt

CONSTANTS
  Procs,
  Configs,      \* by process: the configurations it may run with
  Interfaces,   \* the addresses of the host
  Wildcards,    \* the addresses 0.0.0.0 and ::
  IPv6,         \* of the addresses and wildcards, those with a colon
  DefaultPorts, \* by persona: DEFAULT_PORTS
  Junk,         \* the socket paths at which some other file lies
  Operators,    \* the crawler operators of the range file
  Sources,      \* by operator: the URLs that publish its ranges
  NoOne, Other, \* no process or key; a file that is not a socket
  MaxDeaths,    \* bound: crashes and failing writes
  MaxStops,     \* bound: orderly stops
  MaxRefreshes  \* bound

(* What _sock_key() finds a listener to be, and what a face is called,     *)
(* when it is no persona's.                                                *)
Listening == {"public", "front", "proxy", "admin"}
Faces == {"docs", "attack"}

ASSUME ConstantsOK ==
  /\ {NoOne, Other} \intersect Procs = {} /\ Wildcards \intersect Interfaces = {}
  /\ DOMAIN DefaultPorts \intersect (Listening \union Faces) = {}
  /\ {MaxDeaths, MaxStops, MaxRefreshes} \subseteq Nat

VARIABLES
  config,    \* by process: its configuration
  stage,     \* by process: where it is in its life
  key,       \* by process: the key it holds
  used,      \* every key that a sensor or an export has held
  keyfile,   \* [holds, of]: how much of whose key the file holds
  open,      \* by process: the numbers of its listeners that accept
  roles,     \* by process: its map `listeners`, from socket keys to roles
  sock,      \* by path: the socket file
  rivalled,  \* by process: another one was public since it began to open
  ranges,    \* the range file: [whole, lists]
  refresh,   \* what the refresher is about to write: <<lists>> or <<>>
  deaths, stops, refreshes

secret == <<used, keyfile>>
net    == <<open, roles, sock>>
range  == <<ranges, refresh, refreshes>>
vars   == <<config, stage, key, secret, net, rivalled, range, deaths, stops>>

-----------------------------------------------------------------------------
(* Configurations: [given, host, port, sockets, proxy, trust, personas],   *)
(* given being the key of CRAWL_BEACON_SECRET, or NoOne.                   *)

Tcp(at, port, role) == [net |-> "tcp", at |-> at, port |-> port, role |-> role]
Unix(l) == l.net = "unix"

(* parse_ports(): an item names a persona and a port, 0 for none.          *)
Unusable(item) ==
  \/ item.name \notin DOMAIN DefaultPorts
  \/ item.port = 0 /\ DefaultPorts[item.name] = 0
Port(item) == IF item.port # 0 THEN item.port ELSE DefaultPorts[item.name]

(* Mutant: the socket files come first.                                    *)
SocketsFirst(c) ==
  c.sockets \o <<Tcp(c.host, c.port, "public")>> \o c.proxy
  \o [i \in DOMAIN c.personas |-> Tcp(c.host, Port(c.personas[i]), c.personas[i].name)]

(* start_sites(): the public port first.                                   *)
Listeners(c) ==
  <<Tcp(c.host, c.port, "public")>> \o c.sockets \o c.proxy
  \o [i \in DOMAIN c.personas |-> Tcp(c.host, Port(c.personas[i]), c.personas[i].name)]

Own(c) == {l.at : l \in ToSet(c.sockets)}
Paths == UNION {Own(c) : c \in UNION {Configs[p] : p \in Procs}}
Given == {c.given : c \in UNION {Configs[p] : p \in Procs}} \ {NoOne}

ASSUME ConfigsOK ==
  \A p \in Procs : \A c \in Configs[p] :
    /\ c.given \notin Procs \union {<<q>> : q \in Procs}
    /\ Wildcards \intersect Own(c) = {}
    /\ c.sockets \in Seq([net : {"unix"}, at : Paths, port : {0}, role : {"front", "admin"}])
    /\ c.proxy \in Seq([net : {"tcp"}, at : Wildcards \union Interfaces, port : Nat, role : {"proxy"}])
    /\ c.personas \in Seq([name : STRING, port : Nat])

Init ==
  /\ config \in {f \in [Procs -> UNION {Configs[p] : p \in Procs}] :
                  \A p \in Procs : f[p] \in Configs[p]}
  /\ stage = [p \in Procs |-> "down"] /\ key = [p \in Procs |-> NoOne] /\ used = {}
  /\ keyfile = [holds |-> "nothing", of |-> NoOne]
  /\ open = [p \in Procs |-> {}] /\ roles = [p \in Procs |-> <<>>]
  /\ sock = [f \in Paths |-> IF f \in Junk THEN Other ELSE NoOne]
  /\ rivalled = [p \in Procs |-> FALSE]
  /\ ranges = [whole |-> TRUE, lists |-> Sources] /\ refresh = <<>>
  /\ deaths = 0 /\ stops = 0 /\ refreshes = 0

Goes(p, s) == stage' = [stage EXCEPT ![p] = s]

(* The process ends without its cleanup: its socket files stay.            *)
Ends(p) ==
  /\ Goes(p, "down") /\ key' = [key EXCEPT ![p] = NoOne]
  /\ open' = [open EXCEPT ![p] = {}] /\ roles' = [roles EXCEPT ![p] = <<>>]
  /\ UNCHANGED <<sock, rivalled>>

-----------------------------------------------------------------------------
(* The key.                                                                *)

(* _parse_secret(): 64 hex digits are a key, any other 32 bytes or more    *)
(* are a raw one, "part" among them, and anything shorter is refused.      *)
Parsed(f) == CASE f.holds = "all"  -> f.of
               [] f.holds = "part" -> <<f.of>>
               [] OTHER            -> NoOne

Holds(p, k) ==
  /\ Goes(p, "keyed") /\ key' = [key EXCEPT ![p] = k] /\ used' = used \union {k}
  /\ UNCHANGED <<net, rivalled>>

TakeKey(p) ==
  /\ UNCHANGED keyfile
  /\ IF Parsed(keyfile) = NoOne THEN Ends(p) /\ UNCHANGED used
                                ELSE Holds(p, Parsed(keyfile))

(* load_secret() up to its check that the file exists, which a key from    *)
(* the environment makes unnecessary.                                      *)
LookForKey(p) ==
  /\ stage[p] = "down"
  /\ CASE config[p].given # NoOne -> Holds(p, config[p].given) /\ UNCHANGED keyfile
       [] config[p].given = NoOne /\ keyfile.holds = "nothing" ->
            Goes(p, "drawn") /\ UNCHANGED <<key, secret, net, rivalled>>
       [] OTHER -> TakeKey(p)
  /\ UNCHANGED <<config, range, deaths, stops>>

(* Mutant: without O_EXCL.                                                 *)
CreateAnyway(p) ==
  /\ stage[p] = "drawn"
  /\ Goes(p, "creating") /\ keyfile' = [holds |-> "empty", of |-> p]
  /\ UNCHANGED <<key, used, net, rivalled, config, range, deaths, stops>>

(* open() with O_CREAT and O_EXCL: the loser of a race reads.              *)
CreateKey(p) ==
  /\ stage[p] = "drawn"
  /\ IF keyfile.holds = "nothing"
     THEN /\ Goes(p, "creating") /\ keyfile' = [holds |-> "empty", of |-> p]
          /\ UNCHANGED <<key, used, net, rivalled>>
     ELSE TakeKey(p)
  /\ UNCHANGED <<config, range, deaths, stops>>

WriteKey(p) ==
  /\ stage[p] = "creating"
  /\ keyfile' = [holds |-> "all", of |-> p] /\ Holds(p, p)
  /\ UNCHANGED <<config, range, deaths, stops>>

(* The disk is full: what got into the file stays there.                   *)
WriteKeyFails(p) ==
  /\ stage[p] = "creating" /\ deaths < MaxDeaths
  /\ \E h \in {"empty", "short", "part"} : keyfile' = [keyfile EXCEPT !.holds = h]
  /\ Ends(p) /\ deaths' = deaths + 1
  /\ UNCHANGED <<config, used, range, stops>>

(* read_secret() of the export, which never makes a key.                   *)
ExportReadsKey ==
  /\ Parsed(keyfile) # NoOne /\ used' = used \union {Parsed(keyfile)}
  /\ UNCHANGED <<config, stage, key, keyfile, net, rivalled, range, deaths, stops>>

-----------------------------------------------------------------------------
(* The ranges.                                                             *)

(* load_file(): a file that json.loads() refuses ends the sensor.          *)
LoadRanges(p) ==
  /\ stage[p] = "keyed"
  /\ IF ranges.whole THEN Goes(p, "opening") /\ UNCHANGED <<key, net, rivalled>>
                     ELSE Ends(p)
  /\ UNCHANGED <<config, secret, range, deaths, stops>>

(* main() of the refresher: sources fail one by one.  A list becomes what  *)
(* was collected, and stays as it is when that is nothing.                 *)
Merged(old, found) == [o \in Operators |-> IF found[o] = {} THEN old[o] ELSE found[o]]

RefreshStarts ==
  /\ refresh = <<>> /\ ranges.whole /\ refreshes < MaxRefreshes
  /\ \E found \in [Operators -> SUBSET UNION {Sources[o] : o \in Operators}] :
       /\ \A o \in Operators : found[o] \subseteq Sources[o]
       /\ refresh' = <<Merged(ranges.lists, found)>>
  /\ refreshes' = refreshes + 1
  /\ UNCHANGED <<config, stage, key, secret, net, rivalled, ranges, deaths, stops>>

(* write_text() truncates the file and then fills it.                      *)
RefreshWrites ==
  /\ refresh # <<>>
  /\ IF ranges.whole
     THEN ranges' = [ranges EXCEPT !.whole = FALSE] /\ UNCHANGED refresh
     ELSE ranges' = [whole |-> TRUE, lists |-> Head(refresh)] /\ refresh' = <<>>
  /\ UNCHANGED <<config, stage, key, secret, net, rivalled, refreshes, deaths, stops>>

RefreshDies ==
  /\ refresh # <<>> /\ deaths < MaxDeaths
  /\ refresh' = <<>> /\ deaths' = deaths + 1
  /\ UNCHANGED <<config, stage, key, secret, net, rivalled, ranges, refreshes, stops>>

-----------------------------------------------------------------------------
(* The listeners.                                                          *)

(* Mutant, which the comment in _sock_key() warns of.                      *)
KeyByAddress(l) == IF Unix(l) THEN <<"unix", l.at>> ELSE <<"tcp", l.at, l.port>>

(* _sock_key(): a path, or a port alone.                                   *)
SockKey(l) == IF Unix(l) THEN <<"unix", l.at>> ELSE <<"tcp", l.port>>

(* bind() refuses an address on which somebody listens.  An IPv6 socket of *)
(* create_server() is for IPv6 alone, so the two families do not meet.     *)
SameFamily(x, y) == x \in IPv6 <=> y \in IPv6

Clash(k, l) ==
  /\ ~Unix(k) /\ ~Unix(l) /\ k.port = l.port /\ SameFamily(k.at, l.at)
  /\ k.at = l.at \/ {k.at, l.at} \intersect Wildcards # {}

Taken(l) == \E q \in Procs : \E i \in open[q] : Clash(Listeners(config[q])[i], l)

(* "Every listener we register has a distinct port, so the port alone      *)
(* identifies it": so it is where bind() refuses the second of the two.    *)
(* Listeners at two addresses of the host, or of two families, must be     *)
(* given ports of their own, as socket files must be given their paths.    *)
Distinct(c) ==
  \A i, j \in DOMAIN Listeners(c) :
    i # j /\ SockKey(Listeners(c)[i]) = SockKey(Listeners(c)[j])
    => Clash(Listeners(c)[i], Listeners(c)[j])

(* Mutant: nothing is replaced.                                            *)
Occupied(l) == Unix(l) /\ sock[l.at] # NoOne

(* _unix_socket(): a socket at the path is replaced, another file is not.  *)
Refused(l) == Unix(l) /\ sock[l.at] = Other

Public(p) == \/ \E i \in open[p] : Listeners(config[p])[i].role = "public"
             \/ stage[p] \in {"stopping", "flushed"}

(* start_sites(): what raises, here or at a bad configuration, ends it.    *)
OpenNext(p) ==
  LET c == config[p]
      n == Cardinality(open[p]) + 1
      l == Listeners(c)[n]
      bad == \/ c.trust /\ c.proxy = <<>>
             \/ /\ n > 1 + Len(c.sockets \o c.proxy)
                /\ \E i \in DOMAIN c.personas : Unusable(c.personas[i])
  IN /\ stage[p] = "opening"
     /\ IF bad \/ Taken(l) \/ Refused(l) THEN Ends(p)
        ELSE /\ open' = [open EXCEPT ![p] = @ \union {n}]
             /\ roles' = [roles EXCEPT ![p] =
                  [k \in DOMAIN @ \union {SockKey(l)} |-> IF k = SockKey(l) THEN l.role ELSE @[k]]]
             /\ sock' = IF Unix(l) THEN [sock EXCEPT ![l.at] = p] ELSE sock
             /\ Goes(p, IF n = Len(Listeners(c)) THEN "up" ELSE "opening")
             /\ rivalled' = [q \in Procs |->
                  IF q = p THEN (n > 1 /\ rivalled[p]) \/ (\E r \in Procs \ {p} : Public(r))
                  ELSE rivalled[q] \/ (open[q] # {} /\ (Public(p) \/ l.role = "public"))]
             /\ UNCHANGED key
     /\ UNCHANGED <<config, secret, range, deaths, stops>>

(* runner.cleanup() closes the listeners and lets requests finish, ...     *)
StopSites(p) ==
  /\ stage[p] = "up" /\ stops < MaxStops
  /\ Goes(p, "stopping") /\ open' = [open EXCEPT ![p] = {}] /\ stops' = stops + 1
  /\ UNCHANGED <<config, key, secret, roles, sock, rivalled, range, deaths>>

(* ... _on_stop empties the log, ...                                       *)
StopLog(p) ==
  /\ stage[p] = "stopping" /\ Goes(p, "flushed")
  /\ UNCHANGED <<config, key, secret, net, rivalled, range, deaths, stops>>

(* ... and _unlink removes what lies at its paths, whosever it is.         *)
Unlink(p) ==
  /\ stage[p] = "flushed"
  /\ Goes(p, "down") /\ key' = [key EXCEPT ![p] = NoOne]
  /\ roles' = [roles EXCEPT ![p] = <<>>]
  /\ sock' = [f \in Paths |-> IF f \in Own(config[p]) THEN NoOne ELSE sock[f]]
  /\ UNCHANGED <<config, secret, open, rivalled, range, deaths, stops>>

Dies(p) ==
  /\ stage[p] # "down" /\ deaths < MaxDeaths
  /\ Ends(p) /\ deaths' = deaths + 1
  /\ UNCHANGED <<config, secret, range, stops>>

Step(p) ==
  \/ LookForKey(p) \/ CreateKey(p) \/ WriteKey(p)
  \/ LoadRanges(p) \/ OpenNext(p) \/ StopLog(p) \/ Unlink(p)

Next ==
  \/ \E p \in Procs : Step(p) \/ WriteKeyFails(p) \/ StopSites(p) \/ Dies(p)
  \/ ExportReadsKey
  \/ RefreshStarts \/ RefreshWrites \/ RefreshDies

(* docker-compose.yml starts a sensor that ended again, and a process that *)
(* can go on does.  Crashes, stops and refreshes owe nothing.              *)
Fairness == \A p \in Procs : WF_vars(Step(p))

Spec == Init /\ [][Next]_vars /\ Fairness

-----------------------------------------------------------------------------
(* Requests: [peer, forwarded, proxied, ja4, host], None where absent.     *)

None == "none"
Requests == [peer : {"peer"}, forwarded : {None, "header"}, proxied : {None, "header"},
             ja4 : {None, "ja4"}, host : {"site", "other"}]

(* listener_of(): by the name of the accepted socket.                      *)
ListenerOf(p, l) == IF SockKey(l) \in DOMAIN roles[p] THEN roles[p][SockKey(l)] ELSE "public"

(* client_identity()                                                       *)
ClientIdentity(role, c, r) ==
  CASE role = "front" -> [ip |-> IF r.forwarded = None THEN r.peer ELSE r.forwarded, ja4 |-> r.ja4]
    [] role = "proxy" /\ c.trust -> [ip |-> IF r.proxied = None THEN r.peer ELSE r.proxied, ja4 |-> None]
    [] OTHER -> [ip |-> r.peer, ja4 |-> None]

(* face_of()                                                               *)
FaceOf(role, r) ==
  IF role \notin Listening THEN role
  ELSE IF r.host = "site" THEN "docs" ELSE "attack"

-----------------------------------------------------------------------------
(* Sensors and exports that take the key from the file of one data         *)
(* directory never hold different ones, however they race for it, die over *)
(* it and start again: a token that one minted is known to all of them     *)
(* (load_secret, read_secret).  A sensor whose environment gives the key   *)
(* is not among them: the export would read the file all the same.         *)
OneKey == Cardinality(used \ Given) <= 1

(* A client's word about its address or its TLS is taken only where the    *)
(* front or a trusted proxy says it, there it is taken, and a persona port *)
(* shows its own persona and no other port does, at whatever address of    *)
(* the host a request arrives (start_sites, listener_of, client_identity,  *)
(* face_of).                                                               *)
ListenersAreTheirRoles ==
  \A p \in Procs : \A i \in open[p] :
    LET c == config[p]
        l == Listeners(c)[i]
        arrivals == {[l EXCEPT !.at = a] : a \in {l.at} \union
                       {x \in Interfaces : l.at \in Wildcards /\ SameFamily(x, l.at)}}
    IN \A a \in arrivals :
         LET role == ListenerOf(p, a)
         IN \A r \in Requests :
              LET told == ClientIdentity(role, c, r)
              IN /\ told.ja4 = IF l.role = "front" THEN r.ja4 ELSE None
                 /\ (told.ip = "header") <=>
                      \/ (l.role = "front" /\ r.forwarded = "header")
                      \/ (l.role = "proxy" /\ c.trust /\ r.proxied = "header")
                 /\ IF l.role \in DOMAIN DefaultPorts THEN FaceOf(role, r) = l.role
                    ELSE FaceOf(role, r) \in Faces

(* A sensor that is up is behind its socket files, so that the TLS front   *)
(* reaches it, unless another sensor was public, or still stopped, in its  *)
(* time: a second start that fails on the port leaves the files alone      *)
(* (start_sites, _unlink).                                                 *)
Reachable ==
  \A p \in Procs : stage[p] = "up" /\ ~rivalled[p] =>
    \A f \in Own(config[p]) : sock[f] = p

(* Whoever crashed and whatever it left, some sensor is up again, unless   *)
(* the key file stays too short to be a key or the range file torn.        *)
StartsAgain ==
  \/ []<>(\E p \in Procs : stage[p] = "up")
  \/ <>[](Parsed(keyfile) = NoOne)
  \/ <>[](~ranges.whole)
=============================================================================
