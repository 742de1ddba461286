------------------------------ MODULE Identity ------------------------------
(***************************************************************************)
(* Identity verification, off the request path: server.py starts one task  *)
(* per (address, claimed crawler) pair it has not seen, at most Slots of   *)
(* them are past the semaphore, each asks the verdict cache of identity.py *)
(* and, on a miss, the published ranges or a reverse lookup that runs in   *)
(* the loop's thread pool and is abandoned after a timeout.  A thread is   *)
(* not: it stays busy with an abandoned lookup until the resolver answers. *)
(*                                                                         *)
(* Task n is the n-th one created.  Tasks queue for the semaphore, and     *)
(* lookups for a thread, in that order.                                    *)
(***************************************************************************)
EXTENDS Naturals, Sequences, FiniteSets, FiniteSetsExt

CONSTANTS
  Keys,         \* the (ip, claimed_crawler) pairs clients present
  Method,       \* key -> its crawler's verify_method: "rdns", "cidr" or "none"
  Ranges,       \* key -> its operator's loaded ranges: "absent", "inside", "outside"
  HasName,      \* the keys whose address has a PTR record
  Confirms,     \* those whose PTR name resolves back to the address
  OwnSuffix,    \* those whose PTR name is under a suffix of the claimed operator
  Undeclared,   \* the keys with no declared crawler, or a generic library
  Slots,        \* the semaphore's 16
  Threads,      \* workers of the loop's default thread pool
  SeenLimit,    \* _schedule_identity's 100_000
  Ttl,          \* ttl
  MaxEntries,   \* max_entries
  Quarter,      \* max_entries // 4, the entries a full cache evicts
  MaxTasks,     \* bound: tasks created
  LastTick      \* bound: the clock shows 0..LastTick

ASSUME IdentityConstantsOK ==
  /\ IsFiniteSet(Keys)
  /\ Method \in [Keys -> {"rdns", "cidr", "none"}]
  /\ Ranges \in [Keys -> {"absent", "inside", "outside"}]
  /\ HasName \subseteq Keys /\ Confirms \subseteq HasName /\ OwnSuffix \subseteq HasName
  /\ Undeclared \subseteq Keys
  /\ Slots \in Nat \ {0} /\ Threads \in Nat \ {0}
  /\ SeenLimit \in Nat /\ Ttl \in Nat
  /\ MaxEntries \in Nat \ {0} /\ Quarter \in 1..MaxEntries
  /\ MaxTasks \in Nat /\ LastTick \in Nat

Verdicts == {"verified", "impersonating", "unverifiable", "undeclared"}

VARIABLES
  clock,    \* time.time()
  seen,     \* _seen_identities
  sweeps,   \* history: how often it was cleared
  tasks,    \* the tasks of _verify_identity, in order of creation
  threads,  \* the tasks whose _lookup a thread is running
  cache     \* _cache

identityVars == <<clock, seen, sweeps, tasks, threads, cache>>

(* A task: `phase` is "waiting" (for the semaphore), "lookup" (awaiting    *)
(* reverse_confirm) or "judged" (its identity event is emitted); `now` is  *)
(* when it passed the semaphore; `source` is the task that worked out its  *)
(* verdict, another one when the cache had it; `sweep` numbers the sweep   *)
(* it was created in.                                                      *)
Waiting == {n \in DOMAIN tasks : tasks[n].phase = "waiting"}
Looking == {n \in DOMAIN tasks : tasks[n].phase = "lookup"}
Judged == {n \in DOMAIN tasks : tasks[n].phase = "judged"}

Created(k) ==
  [key |-> k, phase |-> "waiting", now |-> 0, verdict |-> "none", source |-> 0, sweep |-> sweeps]

IdentityInit ==
  /\ clock = 0
  /\ seen = {} /\ sweeps = 0
  /\ tasks = <<>> /\ threads = {}
  /\ cache = <<>>

Tick ==
  /\ clock < LastTick
  /\ clock' = clock + 1
  /\ UNCHANGED <<seen, sweeps, tasks, threads, cache>>

-----------------------------------------------------------------------------
(* _schedule_identity(): called at the end of every logged request.        *)

\* Mutation: the pair is remembered only once its task has passed the semaphore.
LateSchedule(k) ==
  /\ Len(tasks) < MaxTasks
  /\ \A n \in Looking \union Judged : tasks[n].key # k \/ tasks[n].sweep # sweeps
  /\ tasks' = Append(tasks, Created(k))
  /\ UNCHANGED <<clock, seen, sweeps, threads, cache>>

Schedule(k) ==
  /\ k \notin seen
  /\ Len(tasks) < MaxTasks
  /\ IF Cardinality(seen \union {k}) > SeenLimit
     THEN seen' = {} /\ sweeps' = sweeps + 1
     ELSE seen' = seen \union {k} /\ UNCHANGED sweeps
  /\ tasks' = Append(tasks, Created(k))
  /\ UNCHANGED <<clock, threads, cache>>

-----------------------------------------------------------------------------
(* VerifierCache.get().                                                    *)

Fresh(k) == k \in DOMAIN cache /\ clock - cache[k].at < Ttl

(* What may stay of a full cache: its oldest quarter goes (among entries   *)
(* of one age the code takes the ones inserted first; here, any).          *)
Kept(c) ==
  IF Cardinality(DOMAIN c) < MaxEntries THEN {DOMAIN c}
  ELSE {DOMAIN c \ old : old \in
          {s \in kSubset(Quarter, DOMAIN c) :
             \A k \in s, other \in DOMAIN c \ s : c[k].at <= c[other].at}}

\* Mutation: an entry is dated when the answer comes, not when it was asked for.
StoreDatedLate(n, v, now) ==
  \E keep \in Kept(cache) :
    cache' = [k \in keep \union {tasks[n].key} |->
                IF k = tasks[n].key THEN [at |-> clock, verdict |-> v, by |-> n] ELSE cache[k]]

(* Task n stores its verdict, dated at the `now` it read before verify().  *)
Store(n, v, now) ==
  \E keep \in Kept(cache) :
    cache' = [k \in keep \union {tasks[n].key} |->
                IF k = tasks[n].key THEN [at |-> now, verdict |-> v, by |-> n] ELSE cache[k]]

(* Task n leaves the semaphore and emits its identity event.               *)
Judge(n, v, now, m) ==
  tasks' = [tasks EXCEPT ![n] = [@ EXCEPT !.phase = "judged", !.verdict = v,
                                          !.now = now, !.source = m]]

(* The verdicts that verify() reaches without waiting for anyone.          *)
CidrVerdict(k) ==
  CASE Ranges[k] = "absent" -> "unverifiable"
    [] Ranges[k] = "inside" -> "verified"
    [] OTHER -> "impersonating"

DirectVerdict(k) ==
  CASE k \in Undeclared -> "undeclared"
    [] k \notin Undeclared /\ Method[k] = "cidr" -> CidrVerdict(k)
    [] OTHER -> "unverifiable"

NeedsDns(k) == k \notin Undeclared /\ Method[k] = "rdns"

(* Past the semaphore, a task without a lookup to wait for is through in   *)
(* the same step.                                                          *)
Pass(n) ==
  /\ LET k == tasks[n].key IN
     \/ /\ Fresh(k)
        /\ Judge(n, cache[k].verdict, clock, cache[k].by)
        /\ UNCHANGED cache
     \/ /\ ~Fresh(k) /\ ~NeedsDns(k)
        /\ Judge(n, DirectVerdict(k), clock, n)
        /\ Store(n, DirectVerdict(k), clock)
     \/ /\ ~Fresh(k) /\ NeedsDns(k)
        /\ tasks' = [tasks EXCEPT ![n] = [@ EXCEPT !.phase = "lookup", !.now = clock]]
        /\ UNCHANGED cache
  /\ UNCHANGED <<clock, seen, sweeps, threads>>

(* The oldest waiting task passes the semaphore.                           *)
Acquire(n) ==
  /\ n \in Waiting /\ \A m \in Waiting : n <= m
  /\ Cardinality(Looking) < Slots
  /\ Pass(n)

-----------------------------------------------------------------------------
(* reverse_confirm(): the lookup in the pool, and the timeout around it.   *)

(* A free thread takes the oldest lookup still wanted.                     *)
LookupStarts(n) ==
  /\ n \in Looking \ threads /\ \A m \in Looking \ threads : n <= m
  /\ Cardinality(threads) < Threads
  /\ threads' = threads \union {n}
  /\ UNCHANGED <<clock, seen, sweeps, tasks, cache>>

(* How a lookup can end.  Either resolver call can fail although the       *)
(* record is there, and the code reads that as there being none.           *)
Outcomes(k) ==
  {"no name"}
    \union (IF k \in HasName THEN {"no forward"} ELSE {})
    \union (IF k \in Confirms THEN {"confirmed"} ELSE {})

\* Mutation: the operator's suffix is looked for before the forward lookup.
SuffixFirst(k, outcome) ==
  CASE outcome = "no name" -> "unverifiable"
    [] outcome # "no name" /\ k \in OwnSuffix -> "verified"
    [] OTHER -> "impersonating"

RdnsVerdict(k, outcome) ==
  CASE outcome = "no name" -> "unverifiable"
    [] outcome = "confirmed" /\ k \in OwnSuffix -> "verified"
    [] OTHER -> "impersonating"

(* The thread ends; if its task still waits, the verdict follows.          *)
LookupEnds(n) ==
  /\ n \in threads
  /\ threads' = threads \ {n}
  /\ IF n \in Looking
     THEN \E outcome \in Outcomes(tasks[n].key) :
            LET v == RdnsVerdict(tasks[n].key, outcome) IN
            Judge(n, v, tasks[n].now, n) /\ Store(n, v, tasks[n].now)
     ELSE UNCHANGED <<tasks, cache>>
  /\ UNCHANGED <<clock, seen, sweeps>>

\* Mutation: the timeout abandons the lookup and the task with it.
TimeoutLosesTask(n) ==
  /\ n \in Looking
  /\ tasks' = [tasks EXCEPT ![n].phase = "waiting"]
  /\ UNCHANGED <<clock, seen, sweeps, threads, cache>>

(* wait_for() gives up, on a lookup that runs or on one that never got a   *)
(* thread; a running one keeps its thread.                                 *)
LookupTimesOut(n) ==
  /\ n \in Looking
  /\ Judge(n, "unverifiable", tasks[n].now, n)
  /\ Store(n, "unverifiable", tasks[n].now)
  /\ UNCHANGED <<clock, seen, sweeps, threads>>

-----------------------------------------------------------------------------
IdentityNext ==
  \/ Tick
  \/ \E k \in Keys : Schedule(k)
  \/ \E n \in DOMAIN tasks :
       Acquire(n) \/ LookupStarts(n) \/ LookupEnds(n) \/ LookupTimesOut(n)

(* The loop runs every task that can go on, and the timer of every lookup  *)
(* fires.  No resolver has to answer.                                      *)
IdentityFairness ==
  /\ WF_identityVars(\E n \in DOMAIN tasks : Acquire(n))
  /\ \A n \in 1..MaxTasks : WF_identityVars(n \in DOMAIN tasks /\ LookupTimesOut(n))

IdentitySpec == IdentityInit /\ [][IdentityNext]_identityVars
FairIdentitySpec == IdentitySpec /\ IdentityFairness

-----------------------------------------------------------------------------
(* Properties.                                                             *)

Task == [key : Keys, phase : {"waiting", "lookup", "judged"}, now : Nat,
         verdict : Verdicts \union {"none"}, source : Nat, sweep : Nat]

TypeOK ==
  /\ clock \in Nat
  /\ seen \subseteq Keys
  /\ sweeps \in Nat
  /\ tasks \in Seq(Task)
  /\ threads \subseteq DOMAIN tasks
  /\ DOMAIN cache \subseteq Keys
  /\ \A k \in DOMAIN cache : cache[k] \in [at : 0..clock, verdict : Verdicts, by : DOMAIN tasks]
  /\ Cardinality(Looking) <= Slots
  /\ Cardinality(threads) <= Threads

(* The address and the claim belong together, by what the operator         *)
(* publishes; and they are contradicted by it.                             *)
Genuine(k) ==
  /\ k \notin Undeclared
  /\ \/ Method[k] = "cidr" /\ Ranges[k] = "inside"
     \/ Method[k] = "rdns" /\ k \in Confirms \intersect OwnSuffix

Contradicted(k) ==
  /\ k \notin Undeclared
  /\ \/ Method[k] = "cidr" /\ Ranges[k] = "outside"
     \/ Method[k] = "rdns" /\ k \in HasName \ (Confirms \intersect OwnSuffix)

(* An identity event says "verified" only of a genuine pair, whether the   *)
(* verdict was worked out or found in the cache and whatever timed out.    *)
VerifiedIsGenuine ==
  \A n \in Judged : tasks[n].verdict = "verified" => Genuine(tasks[n].key)

(* The claim of identity.py's header: only a contradicted claim is ever    *)
(* recorded as impersonation.                                              *)
ImpersonatingIsContradicted ==
  \A n \in Judged : tasks[n].verdict = "impersonating" => Contradicted(tasks[n].key)

(* A pair has one task, so one identity event, between two sweeps of the   *)
(* seen set, also while its first task still waits for a slot or an answer. *)
OneTaskPerSweep ==
  \A n, m \in DOMAIN tasks :
    n < m /\ tasks[n].key = tasks[m].key => tasks[n].sweep < tasks[m].sweep

(* A cached verdict is handed out only within Ttl of the moment its own    *)
(* lookup was begun, however long that lookup took.                        *)
ReuseIsFresh ==
  \A n \in Judged : tasks[n].source # n =>
    /\ tasks[n].key = tasks[tasks[n].source].key
    /\ tasks[n].verdict = tasks[tasks[n].source].verdict
    /\ tasks[n].now - tasks[tasks[n].source].now < Ttl

(* The cache stays within its limit, although many tasks are between their *)
(* look into it and their insertion at once.                               *)
CacheBounded == Cardinality(DOMAIN cache) <= MaxEntries

(* Every scheduled pair is judged, even if no resolver ever answers and    *)
(* every thread of the pool hangs.                                         *)
EveryPairJudged ==
  \A n \in 1..MaxTasks : n \in DOMAIN tasks ~> n \in Judged

=============================================================================
