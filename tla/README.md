# Verification of mirage-crawl

TLA+ models of mirage-crawl, a sensor that serves policy files and decoy
documentation to crawlers, plants beacons in them, logs every request and judges
afterwards who kept to the rules. The modules are translated from the Python
source; `PROJECT.json` maps every definition to the lines it stands for.

## The system

| Component | State | Operations | Interacts with |
|---|---|---|---|
| Event log (`eventlog.py`) | queue, drain task, open day file, counters | `emit`, `_drain`, `_write`, `start`, `stop` | everything emits into it; readers open its files |
| Identity (`identity.py`, `server.py`) | seen set, semaphore, verdict cache, resolver threads | `_schedule_identity`, `_verify_identity`, `VerifierCache.get`, `reverse_confirm` | started by every logged request, emits an identity event |
| TLS front, connections (`tlsfront.py`) | active counter, stage and record of each connection | `handle`, `_session`, `_close`, `_emit` | owns a rewriter and a relay per session, has an event log of its own |
| TLS front, rewriter | parser state, buffer, bytes remaining | `feed`, `inject_headers`, `_body_framing` | called by the upward pump |
| TLS front, relay | two pump tasks and four buffers | `_to_backend`, `_to_client`, the wait around them | client socket, sensor's front socket |
| Sensor (`server.py`, `capture.py`) | requests in flight | `record` middleware and its handlers | emits; schedules identity checks; plants and recognises tokens |
| Policies (`policies.py`) | constant tables | `render_with`, `evaluate`, `parse_robots` | served by the sensor, consulted by the classifier |
| Beacons, honeytokens (`beacons.py`, `honeytokens.py`, `Sensor.mint`) | the reuse cache; signed tokens that outlive the process | `mint`, `parse`, `find_in_path`, `fill`, `scan_request` | planted by the sensor, recognised in later requests |
| Hunt decoys, personas (`hunt.py`, `personas/`) | constant tables | `match`, `respond`, `persona_dispatch` | called by the sensor's handlers |
| Classifier (`classify.py`) | a profile per client | `build_profiles`, `Profile.state` | reads the log |
| Sessions, actors (`sessions.py`, `actors.py`) | a session per actor | `build_sessions`, `stage_reached`, `join_keys` | read the log; actors are merged with those of other sensors |
| Publication (`publish.py`, `scripts/export_r2.py`) | none | `sanitize`, `anonymize`, `export_day` | reads finished days, knows the signing key |
| Log files (`eventlog.read_events`, `scripts/rotate_logs.py`, `scripts/export_r2.py`) | the log directory | read, compress, delete, export | other processes on the same directory |
| Key file, range file (`config.py`, `identity.load_file`, `scripts/refresh_ranges.py`) | two files that several processes share | `load_secret`, `read_secret`, load, refresh | every signed token; identity |
| Listeners and startup (`server.py`, `run.py`) | sockets, socket files, the map from sockets to roles | `start_sites`, `_unlink`, `listener_of`, `client_identity`, `face_of` | every trust decision; the front's way to the sensor |
| Attack rules, JA4, fingerprint, wallets, site, reports | none, or constant | pure functions of one request, or of the log | the sensor, the operator |

What is hard in it: one event loop shared by handlers, pumps and the drain task,
so that what happens between two awaits matters; failing and crashing file
operations; resolver threads that outlive their timeout; byte streams cut
anywhere; two flow controls in one relay; tokens that come back after a restart,
altered or by other hands; several processes on one key file, one range file and
one set of socket files; and a classifier, sessions and a publication that all
draw conclusions from a log that is allowed to lose events. `hazards` in
`PROJECT.json` lists the places.

What makes each component correct:

- log: every event counted once; files in order and on their own day; `stop()`
  ends and flushes; the caller is never made to wait;
- identity: no pair verified that is not genuine, verdicts fresh, one task a pair,
  bounded cache, every pair judged;
- rewriter: every head that begins with its request line and has a header of its own
  stamped exactly once, nothing else changed, bounded buffer, always returns;
- relay: both directions in order, ends when a side is gone, no mutual blocking;
- connections: exact slots, one record each that tells the truth;
- sensor and classifier: a lossy log only hides, and a verdict rests on events
  that prove it;
- tokens: what a hit or a replay says of who took the token, where and when is
  true, and the log can prove it;
- policies: the judge never accuses a client of what its robots.txt allowed;
- sessions and actors: nobody reaches a stage, or is joined with another, without
  having earned it;
- publication: no token of ours that the decoder can see and no visitor's password or
  body leaves, attackers' payloads do;
- key and start: one key for all who take it from the file, a listener's role and nothing else decides whom
  to believe, the sensor that is up is the one behind the socket files, and some
  sensor comes up again.

## The modules

**`LossyLog`** is the abstract specification of an event log: events are accepted
or refused on the spot, settled in order, each once; a restart takes what waits.

**`EventLog`** is `eventlog.py`'s `EventLog`. Event n is the n-th record emitted.
`queue`, `drain`, `openDay`, `written` and `dropped` are the attributes of the
class (`_queue`, `_task`, `_day`, and the counters as sets). One action per step
between awaits: `Emit`, `Wake`/`DrainWrite`/`Park`/`TakeStop` and
`FlushWrite`/`FlushEnd` are `_drain` and `_flush_remaining`; since
`await queue.get()` does not suspend on a non-empty queue, `LoopFree` keeps
handlers out while the task runs. `WriteSameDay`, `WriteFirst` and `WriteRollover`
are `_write` with `_open_for` and `_close`, each with the ways it can fail.
Below Python the model has a handle buffer, a file per day, a partial last line
and an fsync mark; `Crash` keeps at least what was synced. `Promise` maps it to
`LossyLog`.

**`EventLogProofs`** holds the theorems about `EventLog` and the proof that it
implements `LossyLog`.

**`Identity`** is `_schedule_identity`, `_verify_identity`, `VerifierCache.get`,
`verify` and `reverse_confirm`. A task is created by `Schedule`, passes the
semaphore in `Acquire`, is judged there or waits for a lookup, which a thread
takes (`LookupStarts`), ends (`LookupEnds`) or the task abandons
(`LookupTimesOut`) while the thread goes on. What a pair's address and DNS really
say are the constants; how a lookup ends is a choice among `Outcomes`.
**`BootProofs`** holds the theorems about it.

**`Rewriter`** is `RequestRewriter`. The unit is a line with its line end, a part
of a long line, or half a line end after a chunk; every branch of the loop in
`feed()` is an action, and `Feed` may bring any number of units. What a client
sends is a sequence of requests that RFC 9112 delimits (`Framed`), the last of
which may be cut short: the reference that the code's own framing is held against.
An empty line in front of a request line is part of that request's head. A chunk size
is whatever `int(text, 16)` accepts, so `0x5`, `+5` and `1_0` count as sizes here as
they do in the code, though RFC 9112 knows none of them.
**`RewriterProofs`** holds the theorems about it.

**`Relay`** is the third stage of a TLS session: `UpReads`/`UpDrains`/`UpEnds` is
`_to_backend`, `DownReads`/`DownDrains`/`DownEnds` is `_to_client`, `SessionEnds`
the `asyncio.wait(FIRST_COMPLETED)`, the cancellation and `backend_writer.close()`,
`BackendConnectionCloses` the end of `wait_closed()`, which comes when the transport has
handed on what it holds (`HandedOn`: up to `SocketCap` units fit into the kernel's
buffer) or the sensor is gone. Client and sensor are external and may do anything a peer may. What happens to the bytes of a request
on the way is `Rewriter`'s business; here a request is one unit.

**`Front`** is `Front.handle` with the stages of `_session`. Each stage ends in
its successor or in any of the returns and exceptions the code can take there;
the relay is one stage, which may last for ever: what ends it is `Relay`'s business. **`FrontProofs`** EXTENDS both
and holds the theorems about `Front` and that the order survives `Relay`.

**`LogFiles`** is the log directory and its four users: the sensor as one action
per line, `rotate_logs.py` (`RotPlan` to `RotUnlinks`, one action per file
operation of `_compress`), `export_r2.py` (`ExStarts` to `ExLists`, one action per
pass over a file and per `put`), and `read_events`. Rotation and export can die
between any two steps; a `.gz` without its end raises when read, or reads as empty
while nothing has been flushed into it. `LateLinesFit` is what the options of the
two scripts must satisfy together, and what the deployed ones do.

**`LogFilesProofs`** holds the theorems about `LogFiles`.

**`Sensor`** is the `record` middleware and the profiles of `classify.py`. A
request waits for its body, then its handler runs and its events go into the log
in one block; the log may refuse any tail of a block, because the queue is not
drained between two events of it (`EventLog`). `Absorb` is one event of
`build_profiles`. What is forbidden is the constant `Forbidden` here; `Robots`
says how it is judged. **`SensorProofs`** holds the theorems about it.

**`Robots`** is the part of `policies.py` about rules: the table of standards and
their trap paths, `ROBOTS_GROUPS`, `_robots()` which makes the text, `parse_robots`,
`_pattern_regex` and `evaluate`. A path is a sequence of atoms, so that a pattern
with wildcards can be matched and measured without characters. It has operators only; what is proved of them is in
`TrapsProofs`.

**`Traps`** EXTENDS it with the state: the reuse cache of `Sensor.mint`, the time,
whether decoys are on, the log, and as histories which token went out to whom and
when. One action per handler: `ReadPolicy` (`policy_file`), `View` (the pages with
their beacons), `Fetch` (`catch_all` with hits, probes, stable paths), `WebApp`,
`Workflow` and `Service` (`persona_dispatch`), and `Restart`, which empties the cache
and may change the decoy setting. Clients ask for the trap paths of any token that
ever went out, also misspelled, with another key or behind another token, and bring
honeytokens back, ours or forged. **`TrapsProofs`** holds the theorems about beacons and
honeytokens.

**`Boot`** is everything several processes of one installation share: the key file
(`LookForKey`, `CreateKey`, `WriteKey`, `WriteKeyFails` are `load_secret`, with a key
from `CRAWL_BEACON_SECRET` if the configuration has one, `ExportReadsKey` is
`read_secret`, which knows only the file), the range file (`RefreshStarts`, `RefreshWrites`,
`RefreshDies`, `LoadRanges`) and the sockets (`OpenNext` is a round of `start_sites`,
`StopSites`, `StopLog` and `Unlink` the cleanup, `Dies` a crash). `Clash` is when
`bind()` refuses: the same port, and one address or a wildcard, of one family. `ListenerOf`,
`ClientIdentity` and `FaceOf` say what a request on an accepted socket is taken for.
**`BootProofs`** EXTENDS `Boot` and `Identity` and holds the theorems about both.

**`Sessions`** and **`Publish`** are operators on events: the fold of `sessions.py`
with the indicators and join keys of `actors.py`, and `leaks`, `sanitize`,
`anonymize` and `export_day`. A text is a set of pieces, each with the number of
encodings around it; that is what the code's limits on decoding are about. A piece with
more than `Rounds` of them is one the decoder does not see, and stands also for one in
an encoding it does not know, such as base64 inside a query or a JSON body.

**`Analysis`** puts them together: `Serve` is a request with the events it leaves,
any of which may be lost and between any of which midnight may fall; `Verdict` is an
identity event; `Export` publishes a finished day. `Findings` is `scan_payload` and
`scan_request` of `capture.py` with their limits: so many URLs of a text and of a
request, so many base64 blobs of a text, the sensor's own host left out at the end; which
of more are taken is a choice, as their order in the text is not in the model. The sessions are computed from the
log, and the histories of what was really sent say what they should hold.
**`AnalysisProofs`** holds the theorems about all three.

Modules compose where components share state: `Traps` uses `Robots` both to plant
and to judge, `Analysis` uses `Sessions` and `Publish` on one log, `EventLog` is
shown to implement `LossyLog`, and `Sensor` and `Analysis` assume of the log only
what `LossyLog` leaves open, that events may be refused.

## The runs

| Run | Instance | Shows |
|---|---|---|
| `eventlog` | queue 2, 4 events, 2 days, 1 crash | counting, file order, stop, progress, refinement of `LossyLog` |
| `identity` | 4 pairs, 2 slots, 1 thread, cache 2, seen set 2, ttl 1, clock 0..2, 4 tasks | verdicts, freshness, every pair judged |
| `rewriter` | 256 streams of three requests, head limit 4, line limit 2 | stamping, losslessness, bounds, termination |
| `relay` | 5 requests, buffers that block at the first unit | order, end of the relaying and of the session, no mutual blocking |
| `front` | 3 connections, 2 slots | slots, records, one of each connection that does not stay in its relay |
| `logfiles` | 2 days, 2 lines, compression at two days, deletion beyond, clock 0..4, 1 death | nothing lost, complete and immutable publication, complete reading, every day published |
| `sensor` | 2 clients, 3 requests, a policy file, a disallowed page | verdicts under loss |
| `traps` | 2 addresses, 1 user agent, a policy file, a planted page, 2 probes, a persona port and the web application, window 1, cache 1, hours of 2 steps, clock 0..2, 3 requests | trap hits, replays, the judge against the text |
| `boot` | 2 sensors, 5 configurations of the second, 2 persona ports, 3 addresses of 2 families, 2 deaths or failures, 1 stop, 1 refresh | key, roles of listeners, socket files, coming up again |
| `analysis` | 3 clients, any 2 of 15 requests, 2 URLs and 1 blob a text, 2 rounds of decoding, 3 days, 1 identity event | stages, joins, publication under loss and midnight |
| `traps_invited` | as `traps`, with sitemap and security.txt | an invitation whose path is disallowed (violated) |
| `analysis_hidden` | as `analysis` | an API key published with its request (violated) |

`findings` in `PROJECT.json` lists these two disagreements and those met while
modelling for which no run is kept. Some of them have a definition beside the
properties (`WrittenIsReadable`, `ImpersonatingIsContradicted`,
`EveryRequestStamped`, `OrderlyCloseForwardsAll`, `EveryAnswerRecorded`,
`IgnorantNeverRead`) that TLC refutes with the constants of that module's run.

Why the bounds are enough. The log's interesting cases are a full queue, a
rollover, a failure in each file operation, a sentinel behind and before other
records, and a torn file reopened: a queue of two with four events, two days and
one crash has all of them in combination. Identity needs more tasks than slots,
more slots than threads, a cache that overflows, a seen set that is cleared and
an entry that expires. In the rewriter two arbitrary requests followed by one
whose stamp shows where the parser believes a head begins; the limits are small
so that heads and lines beyond them occur. In the relay each transport blocks
at its first unit, so four requests fill both buffers, the sensor and the way
back, and a fifth waits behind them. Three
connections on two slots refuse one and reuse a slot. Three requests are a read,
its use and a violation, by one client or by two. Two days of the log are enough
for one that blocks the other; they are written, read, compressed, published and
deleted within five ticks of the clock, and one death leaves whatever a rotation
or an export can leave. A token needs a client that takes it, one that uses it, and
a third request between them that shares the cache or sweeps it; two addresses with
one user agent are what the cache key and the comparisons must tell apart; the clock
passes both the window and an hour. Two sensors are a race, a second start that
fails, or a successor; two deaths leave a key file cut and its successor dead, and
the second configuration is in turn the same, one on the same port of the other family
with a key of its own, and each of the three that `start_sites` refuses. Every property of `Analysis` is about one request
or about two (of one actor or of two), and the fifteen requests have each kind of
piece at each depth that matters: plain, within the decoder's rounds, beyond them, in
each part; one has a URL and one a blob more than are taken.

The bounds themselves (`MaxEvents`, `LastDay`, `MaxCrashes`, `MaxTasks`,
`LastTick`, `MaxLines`, `MaxDeaths`, `MaxRequests`, `MaxTime`, `MaxStops`, `MaxRefreshes`,
`MaxVerdicts`, `Days`) sit in guards and are named as such. Deadlock is checked in
`boot`, where some process can always try again; in the other runs it is off: a server
without clients, and a run that has reached its bounds, may stop. `traps` uses the
symmetry of the two addresses, which nothing but equality tells apart; it checks no
liveness.

## Fairness

Only what the event loop and the timers guarantee. `EventLog`: the drain task
and the caller of `stop()` keep being scheduled. `Identity`: waiting tasks are
let through and the timer of each lookup fires; no resolver has to answer and no
thread has to end. `Rewriter`: the loop inside `feed()` goes on; no input has to
come. `Relay`: both pumps, their idle timers, the handler, and the kernel's
report that a closed socket was written to; `EveryRequestAnswered` adds a sensor
that is scheduled and a client that takes its answers (`ServedFairly`), and
claims nothing otherwise. A `wait_closed()` goes on once it can; that it can is nobody's
duty, and `GoneEndsSession` says so. `Front`: each stage has a timer but the relay, whose
`drain()` and `wait_closed()` have none: no fairness is assumed of `RelayEnds`, and
`EveryConnectionRecorded` excepts the connection that stays there for ever.
`LogFiles`: the timers start rotation and
export again and the host runs them; deaths are bounded. `Boot`: docker-compose.yml has the
sensor restarted whenever it ends, and a process that can take its next step takes
it; crashes, stops and refreshes are free and bounded. `Sensor`, `Traps` and
`Analysis` claim safety only and assume none. Nobody is obliged to emit, connect,
send, stop or crash.

## What is proved

`EventLogProofs` proves of `EventLog!Spec`, for every `QueueSize`, `LastDay`,
`MaxEvents` and `MaxCrashes` that meet `ConstantsOK`:

- `TypeCorrect`: `[]TypeOK`, inductive as it stands;
- `AccountedAlways`: `[]Accounted`. That an accepted event is on the queue only
  once needs the queue to be increasing and newer than everything settled, which
  is the strengthening;
- `FilesInOrderAlways`: `[]FilesInOrder`. The strengthening says that a handle's
  buffer holds lines of its own day that are newer than the file's and older
  than the queue's, so that a late flush, a failed rollover or a reopened torn
  file cannot break the order;
- `StopFlushesAlways`: `[]StopFlushes`. It rests on where the sentinel is in
  each phase of `stop()`, and on an invariant of the disk: a day that is not
  open is synced to its end, or no event counted by this process is on it.

Nothing is assumed beyond `ConstantsOK`, which every run of `EventLog` evaluates.

`LogFilesProofs` proves of `LogFiles!Spec`, for all options and bounds that meet
`ConstantsOK` and `LateLinesFit`:

- `NothingLostAlways`, `PublishedCompleteAlways`, `ReaderMissesNothingAlways` and
  the action property `ObjectsStay`, all from one invariant, `DirectoryInvariant`.
  It says that a plain file is always complete; that a day without one has a
  complete `.gz` and gets no more lines; that a rotation plans only days that are
  over and has a full copy of what it unlinks; that an export holds the whole of
  the day it works on; and that what a reader lacks is in a file still on its list.
  Its arithmetic is `AgeIsLate`: a file old enough to be compressed or deleted is
  one the sensor has finished with. Without `LateLinesFit` this is false, and so
  are the theorems.

A day past `DeleteAfter` is exempt from all of them: its plain file goes before
its `.gz`, which may be an unfinished one.

`EventLogProofs` also proves `ImplementsLossyLog`, `Spec => KeepsPromise`, from the
invariant behind `AccountedAlways`: the queue's increasing order makes the record
taken from it the oldest one waiting, so `_write` is a `Keep` or a `Drop`; `emit` is
an `Accept` or a `Refuse`; a crash is a `Restart`; and the clock, the task, the
sentinel and closing the file are unseen.

`FrontProofs` proves of `Front!Spec`, for any finite set of connections and any
cap, `TypeCorrect`, `SlotsExactAlways` and `RecordTellsFateAlways`. The invariant
says what is on file of a connection at each stage: while its session runs there is
no error yet and the phase is the stage's own, so a timeout can be named after the
phase; once its end is known, the error and the handshake flag are those of the
stage and the cause. The slot count rests on finite sets growing and shrinking by
one, over every return and every exception of `_session`.

`BootProofs` proves of `IdentitySpec`, for any pairs, resolvers, slots,
threads, limits and clock, `TypeCorrect`, `VerifiedIsGenuineAlways`,
`OneTaskPerSweepAlways`, `ReuseIsFreshAlways` and `CacheBoundedAlways`. The
strengthening has one part for tasks (a task of the running sweep has its pair in
the seen set; only pairs that need a resolver wait for one; a reused verdict is its
source's) and one for cache entries (each is the verdict of a judged task of that
pair, dated as that task is). That an entry is dated when it was asked for, not when
the answer came, is what bounds its reuse by `Ttl`.

`BootProofs` proves of `Boot!Spec`, for any sensors, configurations and addresses:

- `OneKeyAlways`: `[]OneKey`. It is about keys that come from the file: one made from
  `CRAWL_BEACON_SECRET` is known to its own sensor only, and not to an export (see
  `findings`). The invariant says that every other key ever in use is what the file
  parses to now, and that while a process creates the file nobody else has
  put anything into it. The case that needs it is a full disk that leaves enough of a
  key to be taken for a raw one: whoever was writing it ends without having used it;
- `ReachableAlways`: `[]Reachable`. A sensor opens its listeners in order, the public
  port first, so whoever replaces or removes a socket file is public by then or still
  stops; and a sensor during whose time nobody else was has its own sockets at the
  paths it has opened so far. A start that fails on the port has replaced nothing,
  which is what the order in `start_sites` is for;
- `ListenersAreTheirRolesAlways`: `[]ListenersAreTheirRoles`, if every configuration is
  `Distinct`. The invariant says that each listener that accepts is in the map under its
  key with its own role. `_sock_key` drops the address, so a second listener with the
  port of an earlier one would take its place. Where the two `Clash`, the second `bind()`
  fails and the start with it: so it is with `CRAWL_HOST` at 0.0.0.0, the default, and a
  proxy at an IPv4 address. Where they do not, at two addresses of the host or in two
  families, `Distinct` asks for the distinct ports that the comment in `_sock_key` claims
  and `start_sites` does not check (see `findings`), and for distinct socket paths.

`FrontProofs` proves of `RelaySpec`, for any buffer size and any number of requests,
`RelayedInOrderAlways`: `[]RelayedInOrder`. The invariant gives every buffer between
the client's request and the answer it takes back its place in one count: each holds
consecutive numbers, goes on where the one in front of it ends, and together with the
request the sensor is at work on they add up to what was forwarded. The wire goes on
where the upward pump stopped only while that pump runs: a read that meets a close
notice drops what it had decrypted, and is its last.

`RewriterProofs` proves of `Rewriter!Spec`, for any requests, any cut into reads and any
limits:

- `TypeCorrect`, `NothingIsLost` (`[]Lossless`) and `BufferStaysBounded`
  (`[]BufferBounded`), from one invariant about what waits in the buffer when `feed()`
  returns in each of its states;
- `EveryHeadIsStamped`: `[]EveryHeadStamped`. The invariant, `Sync`, says where in its
  stream the rewriter is: unless a request was beyond the limits, bare (no header but
  copies of ours) or behind an empty line, what it holds
  and what is still to come are the rest of the stream from a request on, or from a line
  of a request's body on, with `remaining` and the state of the chunk parser those of the
  reference at that line; and what it put out is what was due up to there. The work is in
  showing that a body ends for `_body_framing` and the chunk loop where it ends for RFC
  9112, also when a line comes in parts and a line end in halves.

`ConstantsOK` of `Rewriter` assumes every request `Framed`. That is wide: a body that
breaks its framing is a framed one too, a request cut short is one of which less was fed,
an empty line may come before a request line, and whatever follows a request is the next
one. What it does ask of a client is that a head begins with a request line or an empty
one, and that a chunk size is one to `int()`. `EveryHeadStamped` asks more, of every
request on the connection: `Fits`, `LineFirst` and not `Bare`. What the code does with the
other two is in `RewriteHead` and `Inject` and in `findings`: a bare head goes on without our headers, and
those of a head behind an empty line go in front of its request line.

`SensorProofs` proves of `Sensor!Spec`, for any clients, requests, policy files and any
loss, `LogIsWellFormed`, `TrapsAreMinedAlways`, `LossOnlyHidesAlways` and
`VerdictsAreEarnedAlways`. The invariant is about the log: a hit stands just before its
request and is kept if that is; a trap path that is asked for was out, behind a read of
its policy file. The rest is about the fold: a profile of a log with gaps stays below the
profile of the whole at every entry, whatever both absorb, but for the one branch that
looks at what was read before; and nothing is in a profile that no entry accounts for.

`TrapsProofs` proves of `Traps!Spec`, for any clients, probes, personas, window, cache
limit, key and hours:

- `ReplaysTellTheTakerAlways`: `[]ReplaysTellTheTaker`. The invariant says that a
  honeytoken given out names its taker and the hour, with its hunt event on record, and
  that a replay is of a token given out by then, its age read off the stamp. The rest is
  arithmetic: a stamp is the hour the time is in unless that is beyond the largest;
- `HitsTellTheReaderAlways` and `ReaderIsOnRecordAlways`, from `BeaconInv`: a cached
  beacon is one of the client and the standard it is cached under; a beacon went out only
  to the client it names and within a window of its time, and is in a policy read on
  record unless it was planted in a page; a hit is by a beacon that went out. That
  `Mint` gives a client only tokens of this kind is by induction on the standards it is
  asked for, through every reuse and sweep. They assume that a path nobody was given
  holds no token of ours (`ConstantsOK`): a token is signed;
- `JudgedAsServedAlways`: `[]JudgedAsServed`, for any user agents and any paths that are
  sequences (`ConstantsOK`). The work is in three lemmas about `Robots`. `ParseText`:
  `parse_robots` gives back of the text of `_robots` the table it was made from, the traps
  spelled out; it is proved of any groups of one agent with rules whose traps are given,
  by induction along the lines. `PlainMatches` and `StarMatches`: a pattern without
  wildcards matches what it is a prefix of, and with a `*` for one atom what it matched
  before. `OpenedForbids`: with any traps in it, the group for everyone forbids its four
  directories but for what the control's trap matches. The verdicts of table and text can
  then differ by that one pattern only, and a named agent's group has no trap at all.

`AnalysisProofs` proves of `Analysis!Spec`, for any requests, decoding rounds, number of
days and loss, all four invariants that its run checks. They rest on `LogAlways`, the
inductive invariant of the log: an event is an identity verdict or one of those that the
request its rid names leaves (`Traced`); as long as nothing was lost, all of those are in
some file (`Complete`); and a published day is over and is what its file gives
(`Faithful`), so that nothing that still comes changes it. On top of it:

- `VisitorsAreHiddenAlways` and `TokensStayAtHomeAlways`, event by event. What is left of
  an event is told by `SafeEvent` and `AnonymizedEvent`; a piece that still decodes to a
  token of ours makes `leaks` drop the event, so what is published has only tokens deeper
  than the decoder goes, and those can only be what the client sent, since what the sensor
  adds is plain; and an event whose own texts show the key id to the decoder is dropped or
  shows it in clear, and then the secret in it was found. The key id in another event of
  the same request does not help: its credential event is looked at alone (see `findings`);
- `StagesAreEarnedAlways` and `JoinsAreEarnedAlways`. `SessionTold` is about the fold, by
  induction along the log: a session holds exactly what the events of its actor tell, and
  a stage or a key is a matter of whether there is such an event, whatever their order and
  number. `KeysBrought` and `KeysKept` are the two directions of a join. Joined is who brought the
  same; that whoever brought the same is joined holds of a host only where no limit of
  `scan_payload` keeps it out (`Moderate`).

Their one assumption, `RequestsOK`, has the types of a request, that its URLs are among
its `Findings`, and that what `_PRIVATE_HEADERS` hides is a header.

All of these assume only the named assumptions of each module (`ConstantsOK`,
`IdentityConstantsOK`, `ConfigsOK` of `Boot`, `PlacesOK` of `Traps`, `RequestsOK` of
`Analysis`), which its runs evaluate, and
`ListenersAreTheirRolesAlways` the hypothesis in its statement, which `MCBoot` evaluates
for its configurations.

The library's induction theorems take a predicate as an argument, which the provers
cannot instantiate. Where a definition recurs along a sequence (`Without`, `Chunks`,
`Profile`, `Mint`, `Session`, `ReadLines`, `Matches`), the proofs use a set instead
(`NatSet`, in `TrapsProofs` `Counting`: a set with 0 and every successor holds all
naturals, since its complement would have a least element), and the definitions are
recursive functions rather than folds.

Type correctness is proved of `EventLog`, `Identity`, `Front` and `Rewriter`; the type
parts of the other invariants are inside `DirectoryInvariant`, `LogIsWellFormed`,
`LogAlways` and the invariants of `BootProofs` and `FrontProofs`. `CacheBoundedAlways` and `LogIsWellFormed`
are proved and have no run of their own.

Only model-checked: the liveness properties, which are out of reach of the prover. Every
safety invariant and every action property that a passing run checks has a theorem.

## What is not modelled

- JA4, the fingerprint of a request, wallet checksums, the attack rules, the payload
  scanner's expressions, credential parsing, site text, the pages of decoys and
  personas: pure functions on text and bytes, without state, whose correctness is a
  matter of tables and wording. The models keep what they decide: whether a
  ClientHello was recognised, whether and how deep a piece is seen, which handler
  answers, which parts of a request give a credential event.
- Reports, digest, queries, demo: presentation. Of `sessions.py` scores, timelines and
  `filter_sessions`; of `classify.py` the counters of indicators, attacks, hunts and
  repeat fetches, which no verdict depends on.
- Deployment: units and scripts around the program; `Boot` takes the restart policy
  from it, `LogFiles` the ages and lags.
- In `Identity` the `error` verdict (unreachable: everything below catches), and in
  `Relay` the few bytes TLS itself sends back.
- Real time: a slow disk blocks the loop inside `_write` and so delays everybody.
  The `drain()` and `wait_closed()` of a relay, which have no timeout, are modelled, and
  what they cost is in the properties (see `hazards`).
- A host that dies: processes die in the models, and `EventLog` loses what was not
  synced, but `LogFiles` does not reorder metadata and data on the disk.

## Plan

Done: the log and its promise, identity, the front, the directory, the request
pipeline; robots rules, beacons and honeytokens; key file, ranges and listeners;
sessions, actors and publication. What is left, in order of weight:

1. `Sensor` with `Forbidden` taken from `Robots`, and the classifier's other counters.
2. A host that dies under `LogFiles`, with `_compress` as it is and with an fsync.
3. `Identity` under a range file that changes between two starts (`Boot`).
