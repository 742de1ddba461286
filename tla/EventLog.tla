------------------------------ MODULE EventLog ------------------------------
(***************************************************************************)
(* The append-only event log of mirage_crawl/eventlog.py: emit() puts a    *)
(* record on a bounded queue and never waits, one background task drains   *)
(* the queue into one file per UTC day, stop() sends a sentinel through    *)
(* the same queue, and the process can die at any point and be started     *)
(* again on the same directory.                                            *)
(*                                                                         *)
(* Event n is the n-th record ever emitted.  The task and the emitters     *)
(* share one event loop: `await queue.get()` only suspends when the queue  *)
(* is empty, so once awake the task holds the loop until it has written    *)
(* everything, and no emit() runs meanwhile.                               *)
(***************************************************************************)
EXTENDS Naturals, Sequences

CONSTANTS
  QueueSize,   \* queue_size
  LastDay,     \* bound: the clock shows days 1..LastDay
  MaxEvents,   \* bound: events emitted
  MaxCrashes   \* bound: processes that die and are replaced

ASSUME ConstantsOK ==
  /\ QueueSize \in Nat \ {0}
  /\ LastDay \in Nat \ {0}
  /\ MaxEvents \in Nat
  /\ MaxCrashes \in Nat

Stop == 0       \* the {"__stop__": True} record
NoDay == 0      \* self._day is None, and then self._handle is None too
Spoiled == 0    \* a line of a file that is no JSON record
Days == 1..LastDay

VARIABLES
  today,      \* the day an emit() would stamp now
  stamps,     \* history: stamps[n] is the day in the "ts" of event n
  base,       \* history: the last event emitted before this process started
  queue,      \* self._queue
  drain,      \* the task: "none", "waiting", "running", "flushing", "returned"
  stop,       \* stop(): "no", "putting", "joining", "closed", "failed"
  stopAt,     \* history: how many events existed when stop() was called
  written,    \* the events counted in self.written
  dropped,    \* the events counted in self.dropped
  openDay,    \* self._day
  buffer,     \* lines written to the handle that no flush has accepted yet
  files,      \* files[d]: the lines of <d>.jsonl the operating system holds
  torn,       \* torn[d]: the file ends in a partial line
  synced,     \* synced[d]: how many of its lines are past an fsync
  crashes     \* how many processes have died

taskVars == <<queue, drain, stop, stopAt>>
counters == <<written, dropped>>
diskVars == <<openDay, buffer, files, torn, synced>>
history == <<today, stamps, base, crashes>>
vars == <<taskVars, counters, diskVars, history>>

Emitted == Len(stamps)
Entries(q) == {q[i] : i \in DOMAIN q}
Queued == Entries(queue) \ {Stop}

(* The event numbers of a sequence grow; sentinels and spoiled lines apart. *)
Increasing(s) ==
  \A i, j \in DOMAIN s : i < j /\ s[i] # 0 /\ s[j] # 0 => s[i] < s[j]

(* Handlers run only while the task is suspended or finished.              *)
LoopFree == drain \notin {"running", "flushing"}

Init ==
  /\ today = 1 /\ stamps = <<>> /\ base = 0 /\ crashes = 0
  /\ queue = <<>> /\ drain = "none" /\ stop = "no" /\ stopAt = 0
  /\ written = {} /\ dropped = {}
  /\ openDay = NoDay /\ buffer = <<>>
  /\ files = [d \in Days |-> <<>>]
  /\ torn = [d \in Days |-> FALSE]
  /\ synced = [d \in Days |-> 0]

-----------------------------------------------------------------------------
(* The clock, and start().                                                 *)

Midnight ==
  /\ today < LastDay
  /\ today' = today + 1
  /\ UNCHANGED <<stamps, base, crashes, taskVars, counters, diskVars>>

Start ==
  /\ drain = "none"
  /\ drain' = "waiting"
  /\ UNCHANGED <<queue, stop, stopAt, counters, diskVars, history>>

-----------------------------------------------------------------------------
(* emit(): queue the record, or count it as dropped when the queue is full. *)

\* Mutation: a full queue loses the record and nobody counts it.
UncountedEmit ==
  /\ LoopFree /\ drain # "none"
  /\ Emitted < MaxEvents
  /\ stamps' = Append(stamps, today)
  /\ queue' = IF Len(queue) < QueueSize THEN Append(queue, Emitted + 1) ELSE queue
  /\ UNCHANGED <<drain, stop, stopAt, counters, diskVars, today, base, crashes>>

\* Mutation: a full queue makes room by pushing its oldest entry out.
EvictingEmit ==
  /\ LoopFree /\ drain # "none"
  /\ Emitted < MaxEvents
  /\ stamps' = Append(stamps, today)
  /\ IF Len(queue) < QueueSize
     THEN queue' = Append(queue, Emitted + 1) /\ UNCHANGED dropped
     ELSE queue' = Append(Tail(queue), Emitted + 1) /\ dropped' = dropped \union {Head(queue)}
  /\ UNCHANGED <<drain, stop, stopAt, written, diskVars, today, base, crashes>>

Emit ==
  /\ LoopFree /\ drain # "none"
  /\ Emitted < MaxEvents
  /\ stamps' = Append(stamps, today)
  /\ IF Len(queue) < QueueSize
     THEN queue' = Append(queue, Emitted + 1) /\ UNCHANGED dropped
     ELSE dropped' = dropped \union {Emitted + 1} /\ UNCHANGED queue
  /\ UNCHANGED <<drain, stop, stopAt, written, diskVars, today, base, crashes>>

-----------------------------------------------------------------------------
(* Files.  A handle is line buffered: a successful write leaves nothing in *)
(* its buffer, a failed one may leave the line there for the next flush.   *)

(* The lines of a file after `lines` reach it: a torn last line swallows   *)
(* the first of them.                                                      *)
Extended(d, lines) ==
  IF torn[d] /\ lines # <<>>
  THEN files[d] \o <<Spoiled>> \o Tail(lines)
  ELSE files[d] \o lines

(* The handle's buffer, then `lines`, reach file d.                        *)
Reach(d, lines) ==
  /\ files' = [files EXCEPT ![d] = Extended(d, lines)]
  /\ torn' = [torn EXCEPT ![d] = torn[d] /\ lines = <<>>]

\* Mutation: the handle is closed without an fsync.
CloseUnsynced ==
  /\ Reach(openDay, buffer)
  /\ UNCHANGED synced

(* _close() on an open handle.  It raises when flush() does, or when fsync *)
(* does after the flush went through; the handle is then kept.             *)
CloseOpenDay ==
  /\ Reach(openDay, buffer)
  /\ synced' = [synced EXCEPT ![openDay] = Len(Extended(openDay, buffer))]

CloseRaises ==
  /\ UNCHANGED <<openDay, synced>>
  /\ \/ UNCHANGED <<buffer, files, torn>>
     \/ Reach(openDay, buffer) /\ buffer' = <<>>

(* A line that the handle of day d fails to write: it is lost, or stays in *)
(* the buffer behind the lines `before` and goes out with the next flush.  *)
LineFails(n, before) == buffer' \in {before, Append(before, n)}

CountWritten(n) == written' = written \union {n} /\ UNCHANGED dropped
CountDropped(n) == dropped' = dropped \union {n} /\ UNCHANGED written

(* _write(n) when the handle open is already the right one.                *)
WriteSameDay(n) ==
  /\ openDay = stamps[n]
  /\ UNCHANGED <<openDay, synced>>
  /\ \/ /\ Reach(openDay, Append(buffer, n))
        /\ buffer' = <<>>
        /\ CountWritten(n)
     \/ /\ CountDropped(n)
        /\ \/ UNCHANGED <<files, torn>> /\ LineFails(n, buffer)
           \/ Reach(openDay, buffer) /\ LineFails(n, <<>>)

(* _write(n) when no handle is open: open() may fail, and the write after. *)
WriteFirst(n) ==
  /\ openDay = NoDay
  /\ UNCHANGED synced
  /\ \/ /\ openDay' = stamps[n]
        /\ Reach(stamps[n], <<n>>)
        /\ CountWritten(n)
        /\ UNCHANGED buffer
     \/ /\ CountDropped(n)
        /\ UNCHANGED <<files, torn>>
        /\ \/ UNCHANGED <<openDay, buffer>>
           \/ openDay' = stamps[n] /\ LineFails(n, <<>>)

(* _write(n) on another day: the old handle is flushed and closed first.   *)
WriteRollover(n) ==
  /\ openDay \notin {NoDay, stamps[n]}
  /\ \/ /\ files' = [files EXCEPT ![openDay] = Extended(openDay, buffer),
                                  ![stamps[n]] = Extended(stamps[n], <<n>>)]
        /\ torn' = [torn EXCEPT ![openDay] = torn[openDay] /\ buffer = <<>>,
                                ![stamps[n]] = FALSE]
        /\ synced' = [synced EXCEPT ![openDay] = Len(Extended(openDay, buffer))]
        /\ openDay' = stamps[n]
        /\ buffer' = <<>>
        /\ CountWritten(n)
     \/ /\ CloseOpenDay
        /\ CountDropped(n)
        /\ \/ openDay' = NoDay /\ buffer' = <<>>
           \/ openDay' = stamps[n] /\ LineFails(n, <<>>)
     \/ /\ CloseRaises
        /\ CountDropped(n)

\* Mutation: the handle of the day before is kept past midnight.
StaleHandleWrite(n) ==
  \/ /\ openDay = NoDay /\ WriteFirst(n)
  \/ /\ openDay # NoDay
     /\ Reach(openDay, Append(buffer, n))
     /\ buffer' = <<>>
     /\ CountWritten(n)
     /\ UNCHANGED <<openDay, synced>>

Write(n) == WriteSameDay(n) \/ WriteFirst(n) \/ WriteRollover(n)

-----------------------------------------------------------------------------
(* _drain(): the background task.                                          *)

Wake ==
  /\ drain = "waiting" /\ queue # <<>>
  /\ drain' = "running"
  /\ UNCHANGED <<queue, stop, stopAt, counters, diskVars, history>>

\* Mutation: a record that cannot be written ends the task.
FragileWrite ==
  /\ drain = "running" /\ queue # <<>> /\ Head(queue) # Stop
  /\ Write(Head(queue))
  /\ queue' = Tail(queue)
  /\ drain' = IF dropped' = dropped THEN drain ELSE "returned"
  /\ UNCHANGED <<stop, stopAt, history>>

DrainWrite ==
  /\ drain = "running" /\ queue # <<>> /\ Head(queue) # Stop
  /\ Write(Head(queue))
  /\ queue' = Tail(queue)
  /\ UNCHANGED <<drain, stop, stopAt, history>>

Park ==
  /\ drain = "running" /\ queue = <<>>
  /\ drain' = "waiting"
  /\ UNCHANGED <<queue, stop, stopAt, counters, diskVars, history>>

TakeStop ==
  /\ drain = "running" /\ queue # <<>> /\ Head(queue) = Stop
  /\ queue' = Tail(queue)
  /\ drain' = "flushing"
  /\ UNCHANGED <<stop, stopAt, counters, diskVars, history>>

(* _flush_remaining(), one record at a time; another sentinel is skipped.  *)
FlushWrite ==
  /\ drain = "flushing" /\ queue # <<>>
  /\ queue' = Tail(queue)
  /\ IF Head(queue) # Stop
     THEN Write(Head(queue))
     ELSE UNCHANGED <<counters, diskVars>>
  /\ UNCHANGED <<drain, stop, stopAt, history>>

FlushEnd ==
  /\ drain = "flushing" /\ queue = <<>>
  /\ drain' = "returned"
  /\ UNCHANGED <<queue, stop, stopAt, counters, diskVars, history>>

DrainStep == Wake \/ DrainWrite \/ Park \/ TakeStop \/ FlushWrite \/ FlushEnd

-----------------------------------------------------------------------------
(* stop(): the sentinel goes through the queue, waiting for a free slot;   *)
(* then the task is awaited and the handle closed.                         *)

\* Mutation: the sentinel is offered once, and a full queue loses it.
StopCallNoWait ==
  /\ LoopFree /\ drain # "none" /\ stop = "no"
  /\ stopAt' = Emitted
  /\ queue' = IF Len(queue) < QueueSize THEN Append(queue, Stop) ELSE queue
  /\ stop' = "joining"
  /\ UNCHANGED <<drain, counters, diskVars, history>>

StopCall ==
  /\ LoopFree /\ drain # "none" /\ stop = "no"
  /\ stopAt' = Emitted
  /\ IF Len(queue) < QueueSize
     THEN queue' = Append(queue, Stop) /\ stop' = "joining"
     ELSE stop' = "putting" /\ UNCHANGED queue
  /\ UNCHANGED <<drain, counters, diskVars, history>>

StopPut ==
  /\ LoopFree /\ stop = "putting" /\ Len(queue) < QueueSize
  /\ queue' = Append(queue, Stop)
  /\ stop' = "joining"
  /\ UNCHANGED <<drain, stopAt, counters, diskVars, history>>

StopClose ==
  /\ stop = "joining" /\ drain = "returned"
  /\ \/ /\ openDay = NoDay
        /\ stop' = "closed"
        /\ UNCHANGED diskVars
     \/ /\ openDay # NoDay
        /\ CloseOpenDay
        /\ openDay' = NoDay /\ buffer' = <<>>
        /\ stop' = "closed"
     \/ /\ openDay # NoDay
        /\ CloseRaises
        /\ stop' = "failed"
  /\ UNCHANGED <<queue, drain, stopAt, counters, history>>

-----------------------------------------------------------------------------
(* The process, or its host, dies at any point: the queue and the buffer   *)
(* are gone, and of each file at least what was fsynced is still there.  A *)
(* cut may fall inside a line.  Another process starts over on the         *)
(* directory.                                                              *)
Crash ==
  /\ crashes < MaxCrashes
  /\ crashes' = crashes + 1
  /\ \E kept \in [Days -> 0..MaxEvents] :
       /\ \A d \in Days : synced[d] <= kept[d] /\ kept[d] <= Len(files[d])
       /\ files' = [d \in Days |-> SubSeq(files[d], 1, kept[d])]
       /\ torn' \in [Days -> BOOLEAN]
       /\ \A d \in Days :
            ~(kept[d] < Len(files[d]) \/ (d = openDay /\ buffer # <<>>)) => torn'[d] = torn[d]
  /\ queue' = <<>> /\ drain' = "none" /\ stop' = "no" /\ stopAt' = 0
  /\ written' = {} /\ dropped' = {}
  /\ openDay' = NoDay /\ buffer' = <<>>
  /\ base' = Emitted
  /\ UNCHANGED <<synced, today, stamps>>

-----------------------------------------------------------------------------
Next ==
  \/ Midnight
  \/ Start
  \/ Emit
  \/ DrainStep
  \/ StopCall \/ StopPut \/ StopClose
  \/ Crash

(* The event loop keeps running the task and the caller of stop(); nobody  *)
(* is obliged to emit, to stop, or to crash.                               *)
Fairness ==
  /\ WF_vars(Start)
  /\ WF_vars(DrainStep)
  /\ WF_vars(StopPut)
  /\ WF_vars(StopClose)

Spec == Init /\ [][Next]_vars
FairSpec == Spec /\ Fairness

-----------------------------------------------------------------------------
(* Properties.                                                             *)

TypeOK ==
  /\ today \in Days
  /\ stamps \in Seq(Days)
  /\ base \in 0..Emitted
  /\ crashes \in Nat
  /\ queue \in Seq(Nat) /\ Len(queue) <= QueueSize
  /\ drain \in {"none", "waiting", "running", "flushing", "returned"}
  /\ stop \in {"no", "putting", "joining", "closed", "failed"}
  /\ stopAt \in 0..Emitted
  /\ written \subseteq 1..Emitted
  /\ dropped \subseteq 1..Emitted
  /\ openDay \in Days \union {NoDay}
  /\ buffer \in Seq(Nat)
  /\ files \in [Days -> Seq(Nat)]
  /\ torn \in [Days -> BOOLEAN]
  /\ synced \in [Days -> Nat]

(* Every event this process emitted is in exactly one place: on the queue, *)
(* counted as written, or counted as dropped.                              *)
Accounted ==
  /\ Queued \union written \union dropped = (base + 1)..Emitted
  /\ Queued \intersect written = {}
  /\ Queued \intersect dropped = {}
  /\ written \intersect dropped = {}

(* Every readable line of a file was stamped with that file's day, and the *)
(* lines of a file are in the order of emission with none repeated,        *)
(* whatever failed, was retried or crashed on the way.                     *)
FilesInOrder ==
  \A d \in Days :
    /\ \A i \in DOMAIN files[d] : files[d][i] # Spoiled =>
          files[d][i] \in 1..Emitted /\ stamps[files[d][i]] = d
    /\ Increasing(files[d])

(* When stop() returns, what was emitted before it was called has been     *)
(* settled, nothing is left in the handle's buffer, and every file this    *)
(* process counts a line in is fsynced to its end.                         *)
StopFlushes ==
  stop = "closed" =>
    /\ Queued \intersect 1..stopAt = {}
    /\ buffer = <<>>
    /\ \A n \in written : synced[stamps[n]] = Len(files[stamps[n]])

(* "Crash-safe by construction": what the running process counts as        *)
(* written can be read back from its file.                                 *)
WrittenIsReadable ==
  \A n \in written : n \in Entries(files[stamps[n]])

(* A call of stop() ends, however full the queue is and whatever fails.    *)
StopTerminates ==
  stop \in {"putting", "joining"} ~> stop \notin {"putting", "joining"}

(* An accepted event does not stay on the queue while the task lives.      *)
EveryEventSettles ==
  \A n \in 1..MaxEvents :
    (n \in Queued /\ drain # "returned") ~> n \notin Queued

(* The log keeps the promise of LossyLog.                                  *)
Promise == INSTANCE LossyLog WITH
  Capacity <- QueueSize, count <- Emitted, pending <- Queued,
  kept <- written, refused <- dropped

KeepsPromise == Promise!Spec

=============================================================================
