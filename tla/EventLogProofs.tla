--------------------------- MODULE EventLogProofs ---------------------------
(***************************************************************************)
(* Theorems about the event log, for every queue size, any number of days  *)
(* and events, and any number of crashes; and, at the end, that it         *)
(* implements LossyLog.                                                    *)
(***************************************************************************)
EXTENDS EventLog, SequenceTheorems, FiniteSetTheorems, TLAPS

-----------------------------------------------------------------------------
(* Lemmas about the sequences the log is built from.                       *)

LEMMA EntriesAppend ==
  ASSUME NEW q \in Seq(Nat), NEW x \in Nat
  PROVE  Entries(Append(q, x)) = Entries(q) \union {x}
<1>1. DOMAIN Append(q, x) = 1..(Len(q) + 1) /\ DOMAIN q = 1..Len(q)
  OBVIOUS
<1>2. \A i \in 1..Len(q) : Append(q, x)[i] = q[i]
  OBVIOUS
<1>3. Append(q, x)[Len(q) + 1] = x
  OBVIOUS
<1>4. QED
  BY <1>1, <1>2, <1>3 DEF Entries

LEMMA EntriesTail ==
  ASSUME NEW q \in Seq(Nat), q # <<>>
  PROVE  Entries(q) = {Head(q)} \union Entries(Tail(q))
<1>1. DOMAIN Tail(q) = 1..(Len(q) - 1) /\ DOMAIN q = 1..Len(q) /\ Len(q) \in Nat \ {0}
  OBVIOUS
<1>2. \A i \in 1..(Len(q) - 1) : Tail(q)[i] = q[i + 1]
  OBVIOUS
<1>3. Head(q) = q[1]
  OBVIOUS
<1>4. ASSUME NEW x \in Entries(q), x # Head(q)
      PROVE  x \in Entries(Tail(q))
  <2>1. PICK i \in 1..Len(q) : x = q[i]
    BY <1>1 DEF Entries
  <2>2. i - 1 \in 1..(Len(q) - 1) /\ q[i] = Tail(q)[i - 1]
    BY <1>1, <1>2, <1>3, <1>4, <2>1
  <2>3. QED
    BY <1>1, <2>1, <2>2 DEF Entries
<1>5. ASSUME NEW x \in Entries(Tail(q))
      PROVE  x \in Entries(q)
  <2>1. PICK i \in 1..(Len(q) - 1) : x = Tail(q)[i]
    BY <1>1 DEF Entries
  <2>2. i + 1 \in 1..Len(q) /\ x = q[i + 1]
    BY <1>1, <1>2, <2>1
  <2>3. QED
    BY <1>1, <2>2 DEF Entries
<1>6. Head(q) \in Entries(q)
  BY <1>1, <1>3 DEF Entries
<1>7. QED
  BY <1>4, <1>5, <1>6

LEMMA HeadIsLeast ==
  ASSUME NEW q \in Seq(Nat), q # <<>>, Increasing(q), Head(q) # 0
  PROVE  \A m \in Entries(Tail(q)) : m # 0 => Head(q) < m
<1>1. DOMAIN Tail(q) = 1..(Len(q) - 1) /\ DOMAIN q = 1..Len(q) /\ Len(q) \in Nat \ {0}
  OBVIOUS
<1>2. \A i \in 1..(Len(q) - 1) : Tail(q)[i] = q[i + 1] /\ i + 1 \in DOMAIN q /\ 1 < i + 1
  BY <1>1
<1>3. QED
  BY <1>1, <1>2 DEF Entries, Increasing

LEMMA IncreasingTail ==
  ASSUME NEW q \in Seq(Nat), q # <<>>, Increasing(q)
  PROVE  Increasing(Tail(q)) /\ Tail(q) \in Seq(Nat)
<1>1. DOMAIN Tail(q) = 1..(Len(q) - 1) /\ DOMAIN q = 1..Len(q) /\ Len(q) \in Nat \ {0}
  OBVIOUS
<1>2. \A i \in 1..(Len(q) - 1) : Tail(q)[i] = q[i + 1] /\ i + 1 \in DOMAIN q
  BY <1>1
<1>3. QED
  BY <1>1, <1>2, SMTT(30) DEF Increasing

LEMMA IncreasingAppend ==
  ASSUME NEW q \in Seq(Nat), Increasing(q), NEW x \in Nat,
         x = 0 \/ \A m \in Entries(q) : m # 0 => m < x
  PROVE  Increasing(Append(q, x))
<1>1. DOMAIN Append(q, x) = 1..(Len(q) + 1) /\ DOMAIN q = 1..Len(q)
  OBVIOUS
<1>2. \A i \in 1..Len(q) : Append(q, x)[i] = q[i]
  OBVIOUS
<1>3. Append(q, x)[Len(q) + 1] = x
  OBVIOUS
<1>4. QED
  BY <1>1, <1>2, <1>3 DEF Increasing, Entries

-----------------------------------------------------------------------------
(* The accounting invariant: Accounted needs to know that the queue holds  *)
(* each event once, oldest first, and only events of this process.         *)

QueueOK ==
  /\ Increasing(queue)
  /\ Entries(queue) \subseteq {Stop} \union ((base + 1)..Emitted)

Core == TypeOK /\ QueueOK /\ Accounted

(* The event at the head of the queue, once taken, has left it.            *)
LEMMA HeadLeaves ==
  ASSUME Core, queue # <<>>, Head(queue) # Stop
  PROVE  /\ Head(queue) \in (base + 1)..Emitted
         /\ Head(queue) \in Queued
         /\ Entries(Tail(queue)) \ {Stop} = Queued \ {Head(queue)}
         /\ \A m \in Queued \ {Head(queue)} : Head(queue) < m
<1> USE DEF Core, QueueOK, TypeOK
<1>1. Entries(queue) = {Head(queue)} \union Entries(Tail(queue))
  BY EntriesTail
<1>2. \A m \in Entries(Tail(queue)) : m # 0 => Head(queue) < m
  BY HeadIsLeast DEF Stop
<1>3. Head(queue) \in Nat
  OBVIOUS
<1>4. Head(queue) \in (base + 1)..Emitted /\ Head(queue) \in Queued
  BY <1>1 DEF Queued
<1>5. Head(queue) \notin Entries(Tail(queue))
  BY <1>2, <1>3 DEF Stop
<1>6. Entries(Tail(queue)) \ {Stop} = Queued \ {Head(queue)}
  BY <1>1, <1>5 DEF Queued
<1>7. QED
  BY <1>2, <1>4, <1>6 DEF Stop

(* What is left of the queue when its head is taken is still in order.     *)
LEMMA TailOK ==
  ASSUME Core, queue # <<>>, queue' = Tail(queue), base' = base, stamps' = stamps
  PROVE  QueueOK' /\ queue' \in Seq(Nat) /\ Len(queue') <= QueueSize
<1> USE DEF Core, QueueOK, TypeOK
<1>1. Increasing(Tail(queue)) /\ Tail(queue) \in Seq(Nat)
  BY IncreasingTail
<1>2. Entries(queue) = {Head(queue)} \union Entries(Tail(queue))
  BY EntriesTail
<1>3. Len(Tail(queue)) <= QueueSize
  BY ConstantsOK
<1>4. QED
  BY <1>1, <1>2, <1>3 DEF Entries, Increasing, Emitted

(* Whatever happens on the disk, _write() counts the record once.          *)
LEMMA WriteCounts ==
  ASSUME NEW n, Write(n)
  PROVE  CountWritten(n) \/ CountDropped(n)
BY DEF Write, WriteSameDay, WriteFirst, WriteRollover

LEMMA ExtendedType ==
  ASSUME TypeOK, NEW d \in Days, NEW lines \in Seq(Nat)
  PROVE  Extended(d, lines) \in Seq(Nat)
<1>1. files[d] \in Seq(Nat)
  BY DEF TypeOK
<1>2. CASE torn[d] /\ lines # <<>>
  <2>1. Tail(lines) \in Seq(Nat) /\ <<Spoiled>> \in Seq(Nat)
    BY <1>2 DEF Spoiled
  <2>2. files[d] \o <<Spoiled>> \o Tail(lines) \in Seq(Nat)
    BY <1>1, <2>1
  <2>3. QED
    BY <1>2, <2>2 DEF Extended
<1>3. CASE ~(torn[d] /\ lines # <<>>)
  BY <1>1, <1>3 DEF Extended
<1>4. QED
  BY <1>2, <1>3

DiskType ==
  /\ openDay \in Days \union {NoDay}
  /\ buffer \in Seq(Nat)
  /\ files \in [Days -> Seq(Nat)]
  /\ torn \in [Days -> BOOLEAN]
  /\ synced \in [Days -> Nat]

LEMMA ReachType ==
  ASSUME TypeOK, NEW d \in Days, NEW lines \in Seq(Nat), Reach(d, lines)
  PROVE  files' \in [Days -> Seq(Nat)] /\ torn' \in [Days -> BOOLEAN]
BY ExtendedType DEF Reach, TypeOK

LEMMA CloseType ==
  ASSUME TypeOK, openDay # NoDay, CloseOpenDay
  PROVE  /\ files' \in [Days -> Seq(Nat)]
         /\ torn' \in [Days -> BOOLEAN]
         /\ synced' \in [Days -> Nat]
<1>1. openDay \in Days /\ buffer \in Seq(Nat)
  BY DEF TypeOK
<1>2. Extended(openDay, buffer) \in Seq(Nat)
  BY <1>1, ExtendedType
<1>3. Len(Extended(openDay, buffer)) \in Nat
  BY <1>2
<1>4. synced' \in [Days -> Nat]
  BY <1>1, <1>3 DEF CloseOpenDay, TypeOK
<1>5. QED
  BY <1>1, <1>4, ReachType DEF CloseOpenDay

LEMMA RaiseType ==
  ASSUME TypeOK, openDay # NoDay, CloseRaises
  PROVE  DiskType'
<1>1. openDay \in Days /\ buffer \in Seq(Nat)
  BY DEF TypeOK
<1>2. CASE UNCHANGED <<buffer, files, torn>>
  BY <1>2 DEF CloseRaises, TypeOK, DiskType
<1>3. CASE Reach(openDay, buffer) /\ buffer' = <<>>
  BY <1>1, <1>3, ReachType, SMTT(30) DEF CloseRaises, TypeOK, DiskType
<1>4. QED
  BY <1>2, <1>3 DEF CloseRaises

LEMMA WriteType ==
  ASSUME TypeOK, NEW n \in 1..Emitted, Write(n)
  PROVE  DiskType'
<1> DEFINE day == stamps[n]
<1>1. day \in Days /\ n \in Nat
  BY DEF TypeOK, Emitted
<1>2. <<n>> \in Seq(Nat) /\ <<>> \in Seq(Nat) /\ Append(buffer, n) \in Seq(Nat)
  BY <1>1 DEF TypeOK
<1>3. Append(<<>>, n) \in Seq(Nat)
  BY <1>1
<1>4. CASE WriteSameDay(n)
  BY <1>1, <1>2, <1>3, <1>4, ReachType DEF WriteSameDay, LineFails, TypeOK, DiskType
<1>5. CASE WriteFirst(n)
  BY <1>1, <1>2, <1>3, <1>5, ReachType DEF WriteFirst, LineFails, TypeOK, DiskType
<1>6. CASE WriteRollover(n)
  <2>1. openDay \in Days /\ openDay # NoDay
    BY <1>6 DEF WriteRollover, TypeOK
  <2>a. Extended(openDay, buffer) \in Seq(Nat)
    BY <2>1, ExtendedType DEF TypeOK
  <2>b. Extended(day, <<n>>) \in Seq(Nat)
    BY <1>1, <1>2, ExtendedType
  <2>2. /\ Extended(openDay, buffer) \in Seq(Nat) /\ Len(Extended(openDay, buffer)) \in Nat
        /\ Extended(day, <<n>>) \in Seq(Nat)
    BY <2>a, <2>b
  <2>3. CASE /\ files' = [files EXCEPT ![openDay] = Extended(openDay, buffer),
                                       ![day] = Extended(day, <<n>>)]
             /\ torn' = [torn EXCEPT ![openDay] = torn[openDay] /\ buffer = <<>>,
                                     ![day] = FALSE]
             /\ synced' = [synced EXCEPT ![openDay] = Len(Extended(openDay, buffer))]
             /\ openDay' = day
             /\ buffer' = <<>>
    <3>1. files' \in [Days -> Seq(Nat)]
      BY <1>1, <2>1, <2>2, <2>3 DEF TypeOK
    <3>2. torn' \in [Days -> BOOLEAN]
      BY <1>1, <2>1, <2>3 DEF TypeOK
    <3>3. synced' \in [Days -> Nat]
      BY <1>1, <2>1, <2>2, <2>3 DEF TypeOK
    <3>4. QED
      BY <1>1, <1>2, <2>3, <3>1, <3>2, <3>3 DEF DiskType
  <2>4. CASE /\ CloseOpenDay
             /\ \/ openDay' = NoDay /\ buffer' = <<>>
                \/ openDay' = day /\ LineFails(n, <<>>)
    <3>1. openDay' \in Days \union {NoDay} /\ buffer' \in Seq(Nat)
      BY <1>1, <1>2, <1>3, <2>4 DEF LineFails
    <3>2. QED
      BY <2>1, <2>4, <3>1, CloseType DEF DiskType
  <2>5. CASE CloseRaises
    BY <2>1, <2>5, RaiseType
  <2>6. QED
    BY <1>6, <2>3, <2>4, <2>5 DEF WriteRollover
<1>7. QED
  BY <1>4, <1>5, <1>6 DEF Write

(* Settling the head of the queue keeps the books.                         *)
LEMMA SettleCore ==
  ASSUME Core, queue # <<>>, Head(queue) # Stop, Write(Head(queue)),
         queue' = Tail(queue), drain' = drain,
         UNCHANGED <<stop, stopAt, history>>
  PROVE  Core'
<1> DEFINE n == Head(queue)
<1>1. n \in (base + 1)..Emitted /\ n \in Queued /\ Queued' = Queued \ {n}
  BY HeadLeaves DEF Queued, Entries
<1>2. n \in 1..Emitted
  BY <1>1 DEF Core, TypeOK, Emitted
<1>3. QueueOK' /\ queue' \in Seq(Nat) /\ Len(queue') <= QueueSize
  BY TailOK DEF history
<1>4. DiskType'
  BY <1>2, WriteType DEF Core
<1>5. CountWritten(n) \/ CountDropped(n)
  BY WriteCounts
<1>6. UNCHANGED <<today, stamps, base, crashes>> /\ Emitted' = Emitted
  BY DEF history, Emitted
<1>7. TypeOK'
  BY <1>2, <1>3, <1>4, <1>5, <1>6 DEF Core, TypeOK, DiskType, CountWritten, CountDropped
<1>8. Accounted'
  BY <1>1, <1>5, <1>6 DEF Core, Accounted, CountWritten, CountDropped
<1>9. QED
  BY <1>3, <1>7, <1>8 DEF Core

(* Taking the sentinel changes no event.                                   *)
LEMMA SentinelCore ==
  ASSUME Core, queue # <<>>, Head(queue) = Stop, queue' = Tail(queue),
         drain' \in {drain, "flushing"},
         UNCHANGED <<stop, stopAt, counters, diskVars, history>>
  PROVE  Core'
<1>1. QueueOK' /\ queue' \in Seq(Nat) /\ Len(queue') <= QueueSize
  BY TailOK DEF history
<1>2. Entries(queue) = {Stop} \union Entries(Tail(queue))
  BY EntriesTail DEF Core, TypeOK
<1>3. Queued' = Queued
  BY <1>2 DEF Queued, Entries
<1>4. Emitted' = Emitted
  BY DEF history, Emitted
<1>5. TypeOK'
  BY <1>1, <1>4 DEF Core, TypeOK, counters, diskVars, history
<1>6. Accounted'
  BY <1>3, <1>4 DEF Core, Accounted, counters, history
<1>7. QED
  BY <1>1, <1>5, <1>6 DEF Core

(* Putting the sentinel on a queue that has room changes no event.         *)
LEMMA PutStopCore ==
  ASSUME Core, Len(queue) < QueueSize, queue' = Append(queue, Stop),
         stop' = "joining", stopAt' \in 0..Emitted,
         UNCHANGED <<drain, counters, diskVars, history>>
  PROVE  Core'
<1>1. Stop \in Nat /\ queue \in Seq(Nat)
  BY DEF Stop, Core, TypeOK
<1>2. Entries(queue') = Entries(queue) \union {Stop}
  BY <1>1, EntriesAppend
<1>3. Increasing(queue')
  BY <1>1, IncreasingAppend DEF Core, QueueOK, Stop
<1>4. queue' \in Seq(Nat) /\ Len(queue') <= QueueSize
  BY <1>1, ConstantsOK
<1>5. Queued' = Queued /\ Emitted' = Emitted
  BY <1>2 DEF Queued, Entries, Emitted, history
<1>6. QueueOK'
  BY <1>2, <1>3, <1>5 DEF Core, QueueOK, history
<1>7. TypeOK'
  BY <1>4, <1>5 DEF Core, TypeOK, counters, diskVars, history
<1>8. Accounted'
  BY <1>5 DEF Core, Accounted, counters, history
<1>9. QED
  BY <1>6, <1>7, <1>8 DEF Core

LEMMA EmitCore ==
  ASSUME Core, Emit
  PROVE  Core'
<1> DEFINE n == Emitted + 1
<1>1. stamps \in Seq(Days) /\ today \in Days /\ stamps' = Append(stamps, today)
  BY DEF Core, TypeOK, Emit
<1>2. stamps' \in Seq(Days) /\ Emitted \in Nat /\ Emitted' = n
  BY <1>1 DEF Emitted
<1>3. base \in 0..Emitted /\ queue \in Seq(Nat) /\ n \in Nat
  BY <1>2 DEF Core, TypeOK
<1>4. \A m \in Entries(queue) : m # 0 => m < n
  BY <1>2, <1>3 DEF Core, QueueOK, Stop
<1>5. CASE Len(queue) < QueueSize
  <2>1. queue' = Append(queue, n) /\ dropped' = dropped
    BY <1>5 DEF Emit
  <2>2. Entries(queue') = Entries(queue) \union {n} /\ Increasing(queue')
    BY <1>3, <1>4, <2>1, EntriesAppend, IncreasingAppend DEF Core, QueueOK
  <2>3. queue' \in Seq(Nat) /\ Len(queue') <= QueueSize
    BY <1>3, <1>5, <2>1, ConstantsOK
  <2>4. Queued' = Queued \union {n}
    <3>1. Queued' = Entries(queue') \ {Stop} /\ n # Stop
      BY <1>2, <1>3 DEF Queued, Entries, Stop
    <3>2. QED
      BY <2>2, <3>1 DEF Queued
  <2>5. QueueOK'
    BY <1>2, <1>3, <2>2 DEF Core, QueueOK, Emit
  <2>6. TypeOK'
    BY <1>2, <1>3, <2>1, <2>3 DEF Core, TypeOK, Emit, diskVars
  <2>7. Accounted'
    BY <1>2, <1>3, <2>1, <2>4 DEF Core, Accounted, Emit
  <2>8. QED
    BY <2>5, <2>6, <2>7 DEF Core
<1>6. CASE ~(Len(queue) < QueueSize)
  <2>1. queue' = queue /\ dropped' = dropped \union {n}
    BY <1>6 DEF Emit
  <2>2. Queued' = Queued
    BY <2>1 DEF Queued, Entries
  <2>3. QueueOK'
    <3>1. Increasing(queue') /\ Entries(queue') = Entries(queue)
      BY <2>1 DEF Core, QueueOK
    <3>2. base' = base
      BY DEF Emit
    <3>3. Entries(queue') \subseteq {Stop} \union ((base' + 1)..Emitted')
      BY <1>2, <1>3, <3>1, <3>2 DEF Core, QueueOK
    <3>4. QED
      BY <3>1, <3>3 DEF QueueOK, Entries, Increasing
  <2>4. TypeOK'
    BY <1>2, <1>3, <2>1 DEF Core, TypeOK, Emit, diskVars
  <2>5. Accounted'
    BY <1>2, <1>3, <2>1, <2>2 DEF Core, Accounted, Emit
  <2>6. QED
    BY <2>3, <2>4, <2>5 DEF Core
<1>7. QED
  BY <1>5, <1>6

LEMMA CrashCore ==
  ASSUME Core, Crash
  PROVE  Core'
<1>1. Emitted \in Nat /\ Emitted' = Emitted /\ base' = Emitted
  BY DEF Core, TypeOK, Crash, Emitted
<1>2. Queued' = {} /\ QueueOK' /\ queue' \in Seq(Nat) /\ Len(queue') <= QueueSize
  BY ConstantsOK DEF Crash, Queued, QueueOK, Entries, Increasing
<1>3. files' \in [Days -> Seq(Nat)]
  <2>1. PICK kept \in [Days -> 0..MaxEvents] :
           /\ \A d \in Days : synced[d] <= kept[d] /\ kept[d] <= Len(files[d])
           /\ files' = [d \in Days |-> SubSeq(files[d], 1, kept[d])]
    BY DEF Crash
  <2>2. ASSUME NEW d \in Days
        PROVE  SubSeq(files[d], 1, kept[d]) \in Seq(Nat)
    <3>1. files[d] \in Seq(Nat) /\ kept[d] \in Nat /\ kept[d] <= Len(files[d])
      BY <2>1, ConstantsOK DEF Core, TypeOK
    <3>2. \A i \in 1..kept[d] : files[d][i] \in Nat
      BY <3>1
    <3>3. QED
      BY <3>1, <3>2
  <2>3. QED
    BY <2>1, <2>2
<1>4. torn' \in [Days -> BOOLEAN]
  BY DEF Crash
<1>5. TypeOK'
  BY <1>1, <1>2, <1>3, <1>4 DEF Core, TypeOK, Crash, NoDay
<1>6. Accounted'
  BY <1>1, <1>2 DEF Accounted, Crash
<1>7. QED
  BY <1>2, <1>5, <1>6 DEF Core

LEMMA CoreInit == Init => Core
<1> SUFFICES ASSUME Init PROVE Core
  OBVIOUS
<1>1. Emitted = 0 /\ Entries(queue) = {} /\ Queued = {}
  BY DEF Init, Emitted, Entries, Queued
<1>2. TypeOK
  BY <1>1, ConstantsOK DEF Init, TypeOK, Days, NoDay
<1>3. QueueOK /\ Accounted
  BY <1>1 DEF Init, QueueOK, Increasing, Accounted
<1>4. QED
  BY <1>2, <1>3 DEF Core

LEMMA CoreStep == Core /\ [Next]_vars => Core'
<1> SUFFICES ASSUME Core, [Next]_vars PROVE Core'
  OBVIOUS
<1> USE DEF history, counters, diskVars, taskVars
<1>a. ASSUME UNCHANGED <<stamps, base, crashes, queue, counters, diskVars>>,
             today' \in Days, stopAt' \in 0..Emitted,
             drain' \in {"none", "waiting", "running", "flushing", "returned"},
             stop' \in {"no", "putting", "joining", "closed", "failed"}
      PROVE  Core'
  <2>1. Emitted' = Emitted /\ Queued' = Queued
    BY <1>a DEF Emitted, Queued, Entries
  <2>2. QueueOK'
    BY <1>a, <2>1 DEF Core, QueueOK, Increasing, Entries
  <2>3. TypeOK'
    BY <1>a, <2>1 DEF Core, TypeOK
  <2>4. QED
    BY <1>a, <2>1, <2>2, <2>3 DEF Core, Accounted
<1>1. CASE Midnight
  <2>1. today' \in Days
    BY <1>1, ConstantsOK DEF Midnight, Core, TypeOK, Days
  <2>2. QED
    BY <1>1, <1>a, <2>1 DEF Midnight, Core, TypeOK
<1>2. CASE Start
  BY <1>2, <1>a DEF Start, Core, TypeOK
<1>3. CASE Emit
  BY <1>3, EmitCore
<1>4. CASE Wake
  BY <1>4, <1>a DEF Wake, Core, TypeOK
<1>5. CASE DrainWrite
  BY <1>5, SettleCore DEF DrainWrite
<1>6. CASE Park
  BY <1>6, <1>a DEF Park, Core, TypeOK
<1>7. CASE TakeStop
  BY <1>7, SentinelCore DEF TakeStop
<1>8. CASE FlushWrite
  <2>1. CASE Head(queue) # Stop
    BY <1>8, <2>1, SettleCore DEF FlushWrite
  <2>2. CASE Head(queue) = Stop
    BY <1>8, <2>2, SentinelCore DEF FlushWrite
  <2>3. QED
    BY <2>1, <2>2
<1>9. CASE FlushEnd
  BY <1>9, <1>a DEF FlushEnd, Core, TypeOK
<1>10. CASE StopCall
  <2>1. Emitted \in 0..Emitted
    BY DEF Core, TypeOK, Emitted
  <2>2. CASE Len(queue) < QueueSize
    BY <1>10, <2>1, <2>2, PutStopCore DEF StopCall
  <2>3. CASE ~(Len(queue) < QueueSize)
    BY <1>10, <1>a, <2>1, <2>3 DEF StopCall, Core, TypeOK
  <2>4. QED
    BY <2>2, <2>3
<1>11. CASE StopPut
  BY <1>11, PutStopCore DEF StopPut, Core, TypeOK
<1>12. CASE StopClose
  <2>1. UNCHANGED <<stamps, base, crashes, queue, counters, today, drain, stopAt>>
    BY <1>12 DEF StopClose
  <2>2. Emitted' = Emitted /\ Queued' = Queued /\ QueueOK'
    BY <2>1 DEF Core, Emitted, Queued, Entries, QueueOK, Increasing
  <2>3. DiskType'
    <3>1. CASE openDay = NoDay /\ UNCHANGED diskVars
      BY <3>1 DEF Core, TypeOK, DiskType
    <3>2. CASE openDay # NoDay /\ CloseOpenDay /\ openDay' = NoDay /\ buffer' = <<>>
      BY <3>2, CloseType DEF Core, DiskType
    <3>3. CASE openDay # NoDay /\ CloseRaises
      BY <3>3, RaiseType DEF Core
    <3>4. QED
      BY <1>12, <3>1, <3>2, <3>3 DEF StopClose
  <2>4. stop' \in {"closed", "failed"}
    BY <1>12 DEF StopClose
  <2>5. TypeOK'
    BY <2>1, <2>2, <2>3, <2>4 DEF Core, TypeOK, DiskType
  <2>6. QED
    BY <2>1, <2>2, <2>5 DEF Core, Accounted
<1>13. CASE Crash
  BY <1>13, CrashCore
<1>14. CASE UNCHANGED vars
  BY <1>14, <1>a DEF vars, Core, TypeOK
<1>15. QED
  BY <1>1, <1>2, <1>3, <1>4, <1>5, <1>6, <1>7, <1>8, <1>9, <1>10, <1>11, <1>12, <1>13, <1>14
  DEF Next, DrainStep

(* Every variable keeps its type: eventlog.py's queue, files and counters. *)
THEOREM TypeCorrect == Spec => []TypeOK
<1>1. Core => TypeOK
  BY DEF Core
<1>2. QED
  BY <1>1, CoreInit, CoreStep, PTL DEF Spec

(* No event is lost from the books, counted twice, or counted while it     *)
(* still waits: eventlog.py's written, dropped and queue partition what    *)
(* the process emitted.                                                    *)
THEOREM AccountedAlways == Spec => []Accounted
<1>1. Core => Accounted
  BY DEF Core
<1>2. QED
  BY <1>1, CoreInit, CoreStep, PTL DEF Spec

-----------------------------------------------------------------------------
(* The files.  A sequence of lines is sound for day d when its events grow, *)
(* carry the stamp d, and are older than everything still on the queue.     *)

Sound(s, d, st, Q) ==
  /\ Increasing(s)
  /\ \A x \in Entries(s) : x # 0 =>
        x \in 1..Len(st) /\ st[x] = d /\ \A m \in Q : x < m

LEMMA ConcatEntries ==
  ASSUME NEW s \in Seq(Nat), NEW t \in Seq(Nat)
  PROVE  Entries(s \o t) = Entries(s) \union Entries(t)
<1>1. /\ DOMAIN s = 1..Len(s) /\ DOMAIN t = 1..Len(t) /\ Len(s) \in Nat /\ Len(t) \in Nat
      /\ DOMAIN (s \o t) = 1..(Len(s) + Len(t))
  OBVIOUS
<1>2. /\ \A i \in 1..Len(s) : (s \o t)[i] = s[i]
      /\ \A i \in 1..Len(t) : (s \o t)[Len(s) + i] = t[i]
  OBVIOUS
<1>3. ASSUME NEW x \in Entries(s \o t)
      PROVE  x \in Entries(s) \union Entries(t)
  <2>1. PICK i \in 1..(Len(s) + Len(t)) : x = (s \o t)[i]
    BY <1>1, <1>3 DEF Entries
  <2>2. CASE i \in 1..Len(s)
    BY <1>1, <1>2, <2>1, <2>2 DEF Entries
  <2>3. CASE i \notin 1..Len(s)
    <3>1. i - Len(s) \in 1..Len(t) /\ i = Len(s) + (i - Len(s))
      BY <1>1, <2>1, <2>3
    <3>2. x = t[i - Len(s)]
      BY <1>2, <2>1, <3>1
    <3>3. QED
      BY <1>1, <3>1, <3>2 DEF Entries
  <2>4. QED
    BY <2>2, <2>3
<1>4. ASSUME NEW x \in Entries(s)
      PROVE  x \in Entries(s \o t)
  <2>1. PICK i \in 1..Len(s) : x = s[i]
    BY <1>1, <1>4 DEF Entries
  <2>2. i \in DOMAIN (s \o t) /\ x = (s \o t)[i]
    BY <1>1, <1>2, <2>1
  <2>3. QED
    BY <2>2 DEF Entries
<1>5. ASSUME NEW x \in Entries(t)
      PROVE  x \in Entries(s \o t)
  <2>1. PICK i \in 1..Len(t) : x = t[i]
    BY <1>1, <1>5 DEF Entries
  <2>2. Len(s) + i \in DOMAIN (s \o t) /\ x = (s \o t)[Len(s) + i]
    BY <1>1, <1>2, <2>1
  <2>3. QED
    BY <2>2 DEF Entries
<1>6. QED
  BY <1>3, <1>4, <1>5

(* All the events of s are older than all the events of t.                 *)
Before(s, t) == \A x \in Entries(s), y \in Entries(t) : x # 0 /\ y # 0 => x < y

LEMMA ConcatIncreasing ==
  ASSUME NEW s \in Seq(Nat), NEW t \in Seq(Nat)
  PROVE  Increasing(s \o t) <=> Increasing(s) /\ Increasing(t) /\ Before(s, t)
<1>1. /\ DOMAIN s = 1..Len(s) /\ DOMAIN t = 1..Len(t) /\ Len(s) \in Nat /\ Len(t) \in Nat
      /\ DOMAIN (s \o t) = 1..(Len(s) + Len(t))
  OBVIOUS
<1>2. /\ \A i \in 1..Len(s) : (s \o t)[i] = s[i]
      /\ \A i \in 1..Len(t) : (s \o t)[Len(s) + i] = t[i]
  OBVIOUS
<1>3. ASSUME Increasing(s \o t)
      PROVE  Increasing(s) /\ Increasing(t) /\ Before(s, t)
  <2>1. Increasing(s)
    <3>1. SUFFICES ASSUME NEW i \in 1..Len(s), NEW j \in 1..Len(s), i < j, s[i] # 0, s[j] # 0
                   PROVE  s[i] < s[j]
      BY <1>1 DEF Increasing
    <3>2. i \in DOMAIN (s \o t) /\ j \in DOMAIN (s \o t)
      BY <1>1, <3>1
    <3>3. QED
      BY <1>2, <1>3, <3>1, <3>2 DEF Increasing
  <2>2. Increasing(t)
    <3>1. SUFFICES ASSUME NEW i \in 1..Len(t), NEW j \in 1..Len(t), i < j, t[i] # 0, t[j] # 0
                   PROVE  t[i] < t[j]
      BY <1>1 DEF Increasing
    <3>2. Len(s) + i \in DOMAIN (s \o t) /\ Len(s) + j \in DOMAIN (s \o t) /\ Len(s) + i < Len(s) + j
      BY <1>1, <3>1
    <3>3. QED
      BY <1>2, <1>3, <3>1, <3>2 DEF Increasing
  <2>3. Before(s, t)
    <3>1. SUFFICES ASSUME NEW i \in 1..Len(s), NEW j \in 1..Len(t), s[i] # 0, t[j] # 0
                   PROVE  s[i] < t[j]
      BY <1>1 DEF Before, Entries
    <3>2. i \in DOMAIN (s \o t) /\ Len(s) + j \in DOMAIN (s \o t) /\ i < Len(s) + j
      BY <1>1, <3>1
    <3>3. QED
      BY <1>2, <1>3, <3>1, <3>2 DEF Increasing
  <2>4. QED
    BY <2>1, <2>2, <2>3
<1>4. ASSUME Increasing(s), Increasing(t), Before(s, t)
      PROVE  Increasing(s \o t)
  <2>1. SUFFICES ASSUME NEW i \in 1..(Len(s) + Len(t)), NEW j \in 1..(Len(s) + Len(t)), i < j,
                        (s \o t)[i] # 0, (s \o t)[j] # 0
                 PROVE  (s \o t)[i] < (s \o t)[j]
    BY <1>1 DEF Increasing
  <2>2. CASE j \in 1..Len(s)
    <3>1. i \in 1..Len(s)
      BY <1>1, <2>1, <2>2
    <3>2. QED
      BY <1>1, <1>2, <1>4, <2>1, <2>2, <3>1 DEF Increasing
  <2>3. CASE i \in 1..Len(s) /\ j \notin 1..Len(s)
    <3>1. j - Len(s) \in 1..Len(t) /\ j = Len(s) + (j - Len(s))
      BY <1>1, <2>1, <2>3
    <3>2. (s \o t)[j] = t[j - Len(s)] /\ t[j - Len(s)] \in Entries(t)
      BY <1>1, <1>2, <3>1 DEF Entries
    <3>3. (s \o t)[i] = s[i] /\ s[i] \in Entries(s)
      BY <1>1, <1>2, <2>3 DEF Entries
    <3>4. QED
      BY <1>4, <2>1, <3>2, <3>3 DEF Before
  <2>4. CASE i \notin 1..Len(s)
    <3>1. /\ i - Len(s) \in 1..Len(t) /\ i = Len(s) + (i - Len(s))
          /\ j - Len(s) \in 1..Len(t) /\ j = Len(s) + (j - Len(s))
          /\ i - Len(s) < j - Len(s)
      BY <1>1, <2>1, <2>4
    <3>2. (s \o t)[i] = t[i - Len(s)] /\ (s \o t)[j] = t[j - Len(s)]
      BY <1>2, <3>1
    <3>3. QED
      BY <1>1, <1>4, <2>1, <3>1, <3>2 DEF Increasing
  <2>5. i \in 1..Len(s) => j \in 1..Len(s) \/ j \notin 1..Len(s)
    OBVIOUS
  <2>6. QED
    BY <2>2, <2>3, <2>4
<1>5. QED
  BY <1>3, <1>4

(* Soundness of a concatenation, of a prefix, and of one more line.        *)
LEMMA SoundConcat ==
  ASSUME NEW s \in Seq(Nat), NEW t \in Seq(Nat), NEW d, NEW st, NEW Q
  PROVE  Sound(s \o t, d, st, Q) <=> Sound(s, d, st, Q) /\ Sound(t, d, st, Q) /\ Before(s, t)
<1>1. Entries(s \o t) = Entries(s) \union Entries(t)
  BY ConcatEntries
<1>2. Increasing(s \o t) <=> Increasing(s) /\ Increasing(t) /\ Before(s, t)
  BY ConcatIncreasing
<1>3. QED
  BY <1>1, <1>2 DEF Sound

LEMMA SoundPrefix ==
  ASSUME NEW s \in Seq(Nat), NEW k \in 0..Len(s), NEW d, NEW st, NEW Q, Sound(s, d, st, Q)
  PROVE  Sound(SubSeq(s, 1, k), d, st, Q)
<1>1. /\ DOMAIN s = 1..Len(s) /\ Len(s) \in Nat
      /\ DOMAIN SubSeq(s, 1, k) = 1..k
      /\ \A i \in 1..k : SubSeq(s, 1, k)[i] = s[i] /\ i \in 1..Len(s)
  OBVIOUS
<1>2. Increasing(SubSeq(s, 1, k))
  BY <1>1 DEF Sound, Increasing
<1>3. Entries(SubSeq(s, 1, k)) \subseteq Entries(s)
  BY <1>1 DEF Entries
<1>4. QED
  BY <1>2, <1>3 DEF Sound

LEMMA SoundOne ==
  ASSUME NEW n \in Nat, NEW d, NEW st, NEW Q,
         n # 0 => n \in 1..Len(st) /\ st[n] = d /\ \A m \in Q : n < m
  PROVE  Sound(<<n>>, d, st, Q) /\ Entries(<<n>>) = {n}
<1>1. DOMAIN <<n>> = {1} /\ <<n>>[1] = n
  OBVIOUS
<1>2. Entries(<<n>>) = {n}
  BY <1>1 DEF Entries
<1>3. Increasing(<<n>>)
  BY <1>1 DEF Increasing
<1>4. QED
  BY <1>2, <1>3 DEF Sound

(* The event n settled from the head of the queue Q can be added.          *)
LEMMA SoundGrows ==
  ASSUME NEW s \in Seq(Nat), NEW n \in Nat \ {0}, NEW d, NEW st, NEW Q,
         Sound(s, d, st, Q), n \in Q, n \in 1..Len(st), st[n] = d,
         \A m \in Q \ {n} : n < m
  PROVE  Sound(s \o <<n>>, d, st, Q \ {n})
<1>a. n \in Nat /\ <<n>> \in Seq(Nat)
  OBVIOUS
<1>b. DEFINE R == Q \ {n}
<1>c. n # 0 => n \in 1..Len(st) /\ st[n] = d /\ \A m \in R : n < m
  OBVIOUS
<1>d. HIDE DEF R
<1>e. Sound(<<n>>, d, st, R) /\ Entries(<<n>>) = {n}
  BY <1>a, <1>c, SoundOne
<1>1. Sound(<<n>>, d, st, Q \ {n}) /\ Entries(<<n>>) = {n} /\ <<n>> \in Seq(Nat)
  BY <1>a, <1>e DEF R
<1>2. Sound(s, d, st, Q \ {n})
  BY DEF Sound
<1>3. Before(s, <<n>>)
  BY <1>1 DEF Before, Sound
<1>4. QED
  BY <1>1, <1>2, <1>3, SoundConcat

(* Lines that reach a file are sound even when a torn line swallows one.   *)
LEMMA SoundExtended ==
  ASSUME TypeOK, NEW d \in Days, NEW lines \in Seq(Nat), NEW st, NEW Q,
         Sound(files[d] \o lines, d, st, Q)
  PROVE  Sound(Extended(d, lines), d, st, Q)
<1>1. files[d] \in Seq(Nat)
  BY DEF TypeOK
<1>2. CASE torn[d] /\ lines # <<>>
  <2>1. Sound(files[d], d, st, Q) /\ Sound(lines, d, st, Q) /\ Before(files[d], lines)
    BY <1>1, SoundConcat
  <2>2. Tail(lines) \in Seq(Nat) /\ Increasing(Tail(lines))
    BY <1>2, <2>1, IncreasingTail DEF Sound
  <2>3. Entries(lines) = {Head(lines)} \union Entries(Tail(lines))
    BY <1>2, EntriesTail
  <2>4. Sound(Tail(lines), d, st, Q) /\ Before(files[d], Tail(lines))
    BY <2>1, <2>2, <2>3 DEF Sound, Before
  <2>5. Sound(<<Spoiled>>, d, st, Q) /\ Entries(<<Spoiled>>) = {0} /\ <<Spoiled>> \in Seq(Nat)
    BY SoundOne DEF Spoiled
  <2>6. Before(files[d], <<Spoiled>>)
    BY <2>5 DEF Before
  <2>c. files[d] \o <<Spoiled>> \in Seq(Nat)
    BY <1>1, <2>5
  <2>7. Sound(files[d] \o <<Spoiled>>, d, st, Q) /\ files[d] \o <<Spoiled>> \in Seq(Nat)
    BY <1>1, <2>1, <2>5, <2>6, <2>c, SoundConcat
  <2>8. Entries(files[d] \o <<Spoiled>>) = Entries(files[d]) \union {0}
    BY <1>1, <2>5, ConcatEntries
  <2>9. Before(files[d] \o <<Spoiled>>, Tail(lines))
    BY <2>4, <2>8 DEF Before
  <2>10. Sound((files[d] \o <<Spoiled>>) \o Tail(lines), d, st, Q)
    BY <2>2, <2>4, <2>7, <2>9, SoundConcat
  <2>11. QED
    BY <1>2, <2>10 DEF Extended
<1>3. CASE ~(torn[d] /\ lines # <<>>)
  BY <1>3 DEF Extended
<1>4. QED
  BY <1>2, <1>3

(* The files, and what the open handle's buffer would make of its file.    *)
FilesSound(f, o, b, st, Q) ==
  /\ \A d \in Days : Sound(f[d], d, st, Q)
  /\ o = NoDay => b = <<>>
  /\ o # NoDay => Sound(f[o] \o b, o, st, Q)

FilesInv == FilesSound(files, openDay, buffer, stamps, Queued)

LEMMA SoundFewer ==
  ASSUME NEW s, NEW d, NEW st, NEW Q, NEW R \in SUBSET Q, Sound(s, d, st, Q)
  PROVE  Sound(s, d, st, R)
BY DEF Sound

LEMMA EmptyBuffer ==
  ASSUME NEW g \in [Days -> Seq(Nat)], NEW o \in Days \union {NoDay}, NEW st, NEW Q,
         \A d \in Days : Sound(g[d], d, st, Q)
  PROVE  FilesSound(g, o, <<>>, st, Q)
<1>1. ASSUME o # NoDay PROVE g[o] \o <<>> = g[o] /\ o \in Days
  BY <1>1
<1>2. QED
  BY <1>1 DEF FilesSound

LEMMA ConcatAppend ==
  ASSUME NEW s \in Seq(Nat), NEW t \in Seq(Nat), NEW x \in Nat
  PROVE  (s \o t) \o <<x>> = s \o Append(t, x)
<1>1. <<x>> \in Seq(Nat)
  OBVIOUS
<1>2. Append(t, x) = t \o <<x>>
  BY AppendIsConcat
<1>3. QED
  BY <1>1, <1>2, ConcatAssociative, SMTT(30)

LEMMA LineInBuffer ==
  ASSUME NEW g \in [Days -> Seq(Nat)], NEW o \in Days, NEW st, NEW Q,
         NEW b \in Seq(Nat), NEW n \in Nat \ {0},
         \A d \in Days : Sound(g[d], d, st, Q), Sound(g[o] \o b, o, st, Q),
         n \in Q, n \in 1..Len(st), st[n] = o, \A m \in Q \ {n} : n < m
  PROVE  FilesSound(g, o, Append(b, n), st, Q \ {n})
<1>1. g[o] \in Seq(Nat) /\ g[o] \o b \in Seq(Nat)
  OBVIOUS
<1>2. (g[o] \o b) \o <<n>> = g[o] \o Append(b, n)
  BY <1>1, ConcatAppend, ZenonT(30)
<1>3. Sound((g[o] \o b) \o <<n>>, o, st, Q \ {n})
  BY <1>1, SoundGrows
<1>4. \A d \in Days : Sound(g[d], d, st, Q \ {n})
  BY SoundFewer
<1>5. o # NoDay
  BY DEF Days, NoDay
<1>6. QED
  BY <1>2, <1>3, <1>4, <1>5 DEF FilesSound

LEMMA ReachSound ==
  ASSUME TypeOK, NEW e \in Days, NEW lines \in Seq(Nat), NEW st, NEW Q,
         \A d \in Days : Sound(files[d], d, st, Q), Sound(files[e] \o lines, e, st, Q),
         Reach(e, lines)
  PROVE  /\ files' \in [Days -> Seq(Nat)]
         /\ \A d \in Days : Sound(files'[d], d, st, Q)
<1>1. files' \in [Days -> Seq(Nat)]
  BY ReachType
<1>2. Sound(Extended(e, lines), e, st, Q)
  BY SoundExtended
<1>3. QED
  BY <1>1, <1>2 DEF Reach, TypeOK

LEMMA WriteSound ==
  ASSUME Core, FilesInv, NEW n \in Queued, n \in 1..Emitted,
         \A m \in Queued \ {n} : n < m, Write(n)
  PROVE  FilesSound(files', openDay', buffer', stamps, Queued \ {n})
<1> DEFINE R == Queued \ {n}
<1> DEFINE d == stamps[n]
<1>0. TypeOK
  BY DEF Core
<1>a. n \in Nat \ {0} /\ n \in 1..Len(stamps) /\ stamps \in Seq(Days)
  BY <1>0 DEF TypeOK, Emitted
<1>e. d \in Days
  BY <1>a
<1>b. d \in Days /\ d # NoDay
  BY <1>e, ConstantsOK DEF Days, NoDay
<1>c. /\ files \in [Days -> Seq(Nat)] /\ buffer \in Seq(Nat)
      /\ openDay \in Days \union {NoDay}
  BY <1>0 DEF TypeOK
<1>1. /\ d \in Days /\ n \in Nat \ {0} /\ n \in 1..Len(stamps)
      /\ files \in [Days -> Seq(Nat)] /\ buffer \in Seq(Nat)
      /\ openDay \in Days \union {NoDay} /\ d # NoDay
  BY <1>a, <1>b, <1>c
<1>2. R \subseteq Queued
  OBVIOUS
<1>3. \A e \in Days : Sound(files[e], e, stamps, Queued) /\ Sound(files[e], e, stamps, R)
  BY SoundFewer DEF FilesInv, FilesSound
<1>4. FilesSound(files, openDay, buffer, stamps, R)
  BY <1>1, <1>3, SoundFewer DEF FilesInv, FilesSound
<1>5. <<>> \in Seq(Nat) /\ Append(<<>>, n) = <<n>>
  BY <1>1
<1>d. Sound(files[d] \o <<n>>, d, stamps, R) /\ <<n>> \in Seq(Nat)
  <2>1. files[d] \in Seq(Nat) /\ <<n>> \in Seq(Nat)
    BY <1>1
  <2>2. Sound(files[d], d, stamps, Queued)
    BY <1>1, <1>3
  <2>3. QED
    BY <1>1, <2>1, <2>2, SoundGrows
<1>6. ASSUME NEW g \in [Days -> Seq(Nat)], \A e \in Days : Sound(g[e], e, stamps, Queued),
             LineFails(n, <<>>)
      PROVE  FilesSound(g, d, buffer', stamps, R)
  <2>1. \A e \in Days : Sound(g[e], e, stamps, R)
    BY <1>2, <1>6, SoundFewer
  <2>2. g[d] \o <<>> = g[d]
    BY <1>1
  <2>3. FilesSound(g, d, <<>>, stamps, R)
    BY <1>1, <2>1, EmptyBuffer
  <2>4. FilesSound(g, d, Append(<<>>, n), stamps, R)
    BY <1>1, <1>5, <1>6, <2>2, LineInBuffer
  <2>5. QED
    BY <1>6, <2>3, <2>4 DEF LineFails
<1>7. CASE WriteSameDay(n)
  <2>1. openDay = d /\ openDay' = d /\ Sound(files[d] \o buffer, d, stamps, Queued)
    BY <1>1, <1>7 DEF WriteSameDay, FilesInv, FilesSound
  <2>2. FilesSound(files, d, Append(buffer, n), stamps, R)
    BY <1>1, <1>3, <2>1, LineInBuffer
  <2>3. CASE Reach(openDay, Append(buffer, n)) /\ buffer' = <<>>
    <3>1. Sound(files[d] \o Append(buffer, n), d, stamps, R) /\ Append(buffer, n) \in Seq(Nat)
      BY <1>1, <2>2 DEF FilesSound
    <3>2. files' \in [Days -> Seq(Nat)] /\ \A e \in Days : Sound(files'[e], e, stamps, R)
      BY <1>0, <1>1, <1>3, <2>1, <2>3, <3>1, ReachSound
    <3>3. QED
      BY <1>1, <2>1, <2>3, <3>2, EmptyBuffer
  <2>4. CASE UNCHANGED <<files, torn>> /\ LineFails(n, buffer)
    BY <1>4, <2>1, <2>2, <2>4 DEF LineFails
  <2>5. CASE Reach(openDay, buffer) /\ LineFails(n, <<>>)
    <3>1. files' \in [Days -> Seq(Nat)] /\ \A e \in Days : Sound(files'[e], e, stamps, Queued)
      BY <1>0, <1>1, <1>3, <2>1, <2>5, ReachSound
    <3>2. QED
      BY <1>6, <2>1, <2>5, <3>1
  <2>6. QED
    BY <1>7, <2>3, <2>4, <2>5 DEF WriteSameDay
<1>8. CASE WriteFirst(n)
  <2>1. openDay = NoDay /\ buffer = <<>>
    BY <1>8 DEF WriteFirst, FilesInv, FilesSound
  <2>2. CASE openDay' = d /\ Reach(d, <<n>>) /\ UNCHANGED buffer
    <3>1. Sound(files[d] \o <<n>>, d, stamps, R) /\ <<n>> \in Seq(Nat)
      BY <1>d
    <3>2. files' \in [Days -> Seq(Nat)] /\ \A e \in Days : Sound(files'[e], e, stamps, R)
      BY <1>0, <1>1, <1>3, <2>2, <3>1, ReachSound
    <3>3. QED
      BY <1>1, <2>1, <2>2, <3>2, EmptyBuffer
  <2>3. CASE UNCHANGED <<files, torn, openDay, buffer>>
    BY <1>4, <2>3
  <2>4. CASE UNCHANGED <<files, torn>> /\ openDay' = d /\ LineFails(n, <<>>)
    BY <1>1, <1>3, <1>6, <2>4
  <2>5. QED
    BY <1>8, <2>2, <2>3, <2>4 DEF WriteFirst
<1>9. CASE WriteRollover(n)
  <2>1. openDay \in Days /\ openDay # d /\ Sound(files[openDay] \o buffer, openDay, stamps, Queued)
    BY <1>1, <1>9 DEF WriteRollover, FilesInv, FilesSound
  <2>2. ASSUME Reach(openDay, buffer)
        PROVE  files' \in [Days -> Seq(Nat)] /\ \A e \in Days : Sound(files'[e], e, stamps, Queued)
    BY <1>0, <1>1, <1>3, <2>1, <2>2, ReachSound
  <2>3. CASE /\ files' = [files EXCEPT ![openDay] = Extended(openDay, buffer),
                                       ![d] = Extended(d, <<n>>)]
             /\ openDay' = d /\ buffer' = <<>>
    <3>1. Sound(files[d] \o <<n>>, d, stamps, R) /\ <<n>> \in Seq(Nat)
      BY <1>d
    <3>2. Sound(Extended(d, <<n>>), d, stamps, R) /\ Extended(d, <<n>>) \in Seq(Nat)
      BY <1>0, <1>1, <3>1, SoundExtended, ExtendedType
    <3>3. Sound(Extended(openDay, buffer), openDay, stamps, Queued)
      BY <1>0, <1>1, <2>1, SoundExtended
    <3>4. Sound(Extended(openDay, buffer), openDay, stamps, R)
      BY <1>2, <3>3, SoundFewer
    <3>5. Extended(openDay, buffer) \in Seq(Nat)
      BY <1>0, <1>1, <2>1, ExtendedType
    <3>6. files' \in [Days -> Seq(Nat)]
      BY <1>1, <2>1, <2>3, <3>2, <3>5
    <3>7. \A e \in Days : Sound(files'[e], e, stamps, R)
      BY <1>1, <1>3, <2>1, <2>3, <3>2, <3>4
    <3>8. QED
      BY <1>1, <2>3, <3>6, <3>7, EmptyBuffer
  <2>4. CASE /\ CloseOpenDay
             /\ \/ openDay' = NoDay /\ buffer' = <<>>
                \/ openDay' = d /\ LineFails(n, <<>>)
    <3>1. files' \in [Days -> Seq(Nat)] /\ \A e \in Days : Sound(files'[e], e, stamps, Queued)
      BY <2>2, <2>4 DEF CloseOpenDay
    <3>2. \A e \in Days : Sound(files'[e], e, stamps, R)
      BY <1>2, <3>1, SoundFewer
    <3>3. FilesSound(files', NoDay, <<>>, stamps, R)
      BY <3>1, <3>2, EmptyBuffer
    <3>4. QED
      BY <1>6, <2>4, <3>1, <3>3
  <2>5. CASE CloseRaises
    <3>1. CASE UNCHANGED <<buffer, files, torn>>
      BY <1>4, <2>5, <3>1 DEF CloseRaises
    <3>2. CASE Reach(openDay, buffer) /\ buffer' = <<>>
      <4>1. files' \in [Days -> Seq(Nat)] /\ \A e \in Days : Sound(files'[e], e, stamps, Queued)
        BY <2>2, <3>2
      <4>2. \A e \in Days : Sound(files'[e], e, stamps, R)
        BY <1>2, <4>1, SoundFewer
      <4>3. QED
        BY <1>1, <2>5, <3>2, <4>1, <4>2, EmptyBuffer DEF CloseRaises
    <3>3. QED
      BY <2>5, <3>1, <3>2 DEF CloseRaises
  <2>6. QED
    BY <1>9, <2>3, <2>4, <2>5 DEF WriteRollover
<1>10. QED
  BY <1>7, <1>8, <1>9 DEF Write

(* The sentinel comes and goes without an event entering or leaving.       *)
LEMMA SentinelIsNoEvent ==
  ASSUME TypeOK
  PROVE  /\ queue' = Append(queue, Stop) => Queued' = Queued
         /\ queue # <<>> /\ Head(queue) = Stop /\ queue' = Tail(queue) => Queued' = Queued
<1>1. queue \in Seq(Nat) /\ Stop \in Nat
  BY DEF TypeOK, Stop
<1>2. Queued' = Entries(queue') \ {Stop}
  BY DEF Queued, Entries
<1>3. Entries(Append(queue, Stop)) = Entries(queue) \union {Stop}
  BY <1>1, EntriesAppend
<1>4. queue # <<>> => Entries(queue) = {Head(queue)} \union Entries(Tail(queue))
  BY <1>1, EntriesTail
<1>5. QED
  BY <1>2, <1>3, <1>4 DEF Queued

LEMMA SoundEmit ==
  ASSUME NEW s, NEW d, NEW st \in Seq(Days), NEW day \in Days, NEW Q,
         NEW R \in SUBSET (Q \union {Len(st) + 1}), Sound(s, d, st, Q)
  PROVE  Sound(s, d, Append(st, day), R)
<1>1. Len(st) \in Nat /\ Len(Append(st, day)) = Len(st) + 1
  OBVIOUS
<1>2. \A x \in 1..Len(st) : Append(st, day)[x] = st[x] /\ x < Len(st) + 1 /\ x \in 1..(Len(st) + 1)
  OBVIOUS
<1>3. QED
  BY <1>1, <1>2 DEF Sound

LEMMA FilesInit == Init => FilesInv
<1> SUFFICES ASSUME Init PROVE FilesInv
  OBVIOUS
<1>1. files \in [Days -> Seq(Nat)] /\ \A d \in Days : files[d] = <<>>
  BY DEF Init
<1>2. \A d \in Days : Sound(files[d], d, stamps, Queued)
  BY <1>1 DEF Sound, Increasing, Entries
<1>3. QED
  BY <1>1, <1>2, EmptyBuffer DEF FilesInv, Init

LEMMA SettleFiles ==
  ASSUME Core, FilesInv, queue # <<>>, Head(queue) # Stop, Write(Head(queue)),
         queue' = Tail(queue), stamps' = stamps
  PROVE  FilesInv'
<1> DEFINE n == Head(queue)
<1>1. /\ n \in (base + 1)..Emitted /\ n \in Queued /\ Queued' = Queued \ {n}
      /\ \A m \in Queued \ {n} : n < m
  BY HeadLeaves DEF Queued, Entries
<1>2. n \in 1..Emitted
  BY <1>1 DEF Core, TypeOK, Emitted
<1>3. FilesSound(files', openDay', buffer', stamps, Queued \ {n})
  BY <1>1, <1>2, WriteSound
<1>4. FilesSound(files', openDay', buffer', stamps', Queued')
  BY <1>1, <1>3
<1>5. QED
  BY <1>4 DEF FilesInv, FilesSound

LEMMA FilesStep == Core /\ FilesInv /\ [Next]_vars => FilesInv'
<1> SUFFICES ASSUME Core, FilesInv, [Next]_vars PROVE FilesInv'
  OBVIOUS
<1> USE DEF history, diskVars, taskVars
<1>0. TypeOK /\ FilesSound(files, openDay, buffer, stamps, Queued)
  BY DEF Core, FilesInv
<1>a. ASSUME UNCHANGED <<files, openDay, buffer, stamps>>, Queued' = Queued
      PROVE  FilesInv'
  <2>1. FilesSound(files', openDay', buffer', stamps', Queued')
    BY <1>0, <1>a
  <2>2. QED
    BY <2>1 DEF FilesInv
<1>b. UNCHANGED queue => Queued' = Queued
  BY DEF Queued, Entries
<1>1. CASE Midnight \/ Start \/ Wake \/ Park \/ FlushEnd
  BY <1>1, <1>a, <1>b DEF Midnight, Start, Wake, Park, FlushEnd
<1>2. CASE Emit
  <2>1. /\ stamps \in Seq(Days) /\ today \in Days /\ stamps' = Append(stamps, today)
        /\ UNCHANGED <<files, openDay, buffer>>
    BY <1>0, <1>2 DEF TypeOK, Emit
  <2>2. Queued' \subseteq Queued \union {Len(stamps) + 1}
    <3>1. Entries(Append(queue, Emitted + 1)) = Entries(queue) \union {Emitted + 1}
      BY <1>0, <2>1, EntriesAppend DEF TypeOK, Emitted
    <3>2. queue' = queue \/ queue' = Append(queue, Emitted + 1)
      BY <1>2 DEF Emit
    <3>3. Queued' = Entries(queue') \ {Stop}
      BY DEF Queued, Entries
    <3>4. QED
      BY <3>1, <3>2, <3>3 DEF Queued, Emitted
  <2>3. \A s, d : Sound(s, d, stamps, Queued) => Sound(s, d, stamps', Queued')
    BY <2>1, <2>2, SoundEmit
  <2>4. FilesSound(files', openDay', buffer', stamps', Queued')
    BY <1>0, <2>1, <2>3 DEF FilesSound
  <2>5. QED
    BY <2>4 DEF FilesInv
<1>3. CASE DrainWrite
  BY <1>3, SettleFiles DEF DrainWrite
<1>4. CASE TakeStop
  BY <1>0, <1>4, <1>a, SentinelIsNoEvent DEF TakeStop
<1>5. CASE FlushWrite
  <2>1. CASE Head(queue) # Stop
    BY <1>5, <2>1, SettleFiles DEF FlushWrite
  <2>2. CASE Head(queue) = Stop
    BY <1>0, <1>5, <2>2, <1>a, SentinelIsNoEvent DEF FlushWrite
  <2>3. QED
    BY <2>1, <2>2
<1>6. CASE StopCall \/ StopPut
  <2>1. UNCHANGED <<files, openDay, buffer, stamps>>
    BY <1>6 DEF StopCall, StopPut
  <2>2. queue' = queue \/ queue' = Append(queue, Stop)
    BY <1>6 DEF StopCall, StopPut
  <2>3. QED
    BY <1>0, <1>a, <1>b, <2>1, <2>2, SentinelIsNoEvent
<1>7. CASE StopClose
  <2>1. Queued' = Queued /\ stamps' = stamps
    BY <1>7, <1>b DEF StopClose
  <2>2. CASE openDay = NoDay /\ UNCHANGED diskVars
    BY <1>a, <2>1, <2>2
  <2>3. CASE openDay # NoDay
    <3>1. openDay \in Days /\ buffer \in Seq(Nat) /\ files \in [Days -> Seq(Nat)]
      BY <1>0, <2>3 DEF TypeOK
    <3>2. ASSUME Reach(openDay, buffer)
          PROVE  files' \in [Days -> Seq(Nat)] /\ \A d \in Days : Sound(files'[d], d, stamps, Queued)
      BY <1>0, <2>3, <3>1, <3>2, ReachSound DEF FilesSound
    <3>3. ASSUME NEW o \in Days \union {NoDay}, Reach(openDay, buffer), openDay' = o, buffer' = <<>>
          PROVE  FilesInv'
      <4>1. FilesSound(files', o, <<>>, stamps, Queued)
        BY <3>2, <3>3, EmptyBuffer
      <4>2. FilesSound(files', openDay', buffer', stamps', Queued')
        BY <2>1, <3>3, <4>1
      <4>3. QED
        BY <4>2 DEF FilesInv
    <3>4. CASE CloseOpenDay /\ openDay' = NoDay /\ buffer' = <<>>
      BY <3>3, <3>4 DEF CloseOpenDay
    <3>5. CASE CloseRaises
      BY <1>a, <2>1, <3>1, <3>3, <3>5 DEF CloseRaises
    <3>6. QED
      BY <1>7, <2>3, <3>4, <3>5 DEF StopClose
  <2>4. QED
    BY <1>7, <2>2, <2>3 DEF StopClose
<1>8. CASE Crash
  <2>1. PICK kept \in [Days -> 0..MaxEvents] :
           /\ \A d \in Days : synced[d] <= kept[d] /\ kept[d] <= Len(files[d])
           /\ files' = [d \in Days |-> SubSeq(files[d], 1, kept[d])]
    BY <1>8 DEF Crash
  <2>2. stamps' = stamps /\ Queued' = {} /\ openDay' = NoDay /\ buffer' = <<>>
    BY <1>8 DEF Crash, Queued, Entries
  <2>3. ASSUME NEW d \in Days
        PROVE  files'[d] \in Seq(Nat) /\ Sound(files'[d], d, stamps, {})
    <3>1. files[d] \in Seq(Nat) /\ kept[d] \in 0..Len(files[d])
      BY <1>0, <2>1, ConstantsOK DEF TypeOK
    <3>2. Sound(files[d], d, stamps, {})
      BY <1>0, SoundFewer DEF FilesSound
    <3>3. Sound(SubSeq(files[d], 1, kept[d]), d, stamps, {})
      BY <3>1, <3>2, SoundPrefix
    <3>4. SubSeq(files[d], 1, kept[d]) \in Seq(Nat)
      BY <3>1
    <3>5. QED
      BY <2>1, <3>3, <3>4
  <2>4. files' \in [Days -> Seq(Nat)]
    BY <2>1, <2>3
  <2>5. FilesSound(files', NoDay, <<>>, stamps, {})
    BY <2>3, <2>4, EmptyBuffer
  <2>6. FilesSound(files', openDay', buffer', stamps', Queued')
    BY <2>2, <2>5
  <2>7. QED
    BY <2>6 DEF FilesInv
<1>9. CASE UNCHANGED vars
  BY <1>9, <1>a, <1>b DEF vars
<1>10. QED
  BY <1>1, <1>2, <1>3, <1>4, <1>5, <1>6, <1>7, <1>8, <1>9 DEF Next, DrainStep

(* Each day's file holds events of that day only, in the order they were   *)
(* emitted and none twice, through write failures whose lines surface      *)
(* later, midnight, crashes and restarts on the same directory.            *)
THEOREM FilesInOrderAlways == Spec => []FilesInOrder
<1>1. Core /\ FilesInv => FilesInOrder
  <2> SUFFICES ASSUME Core, FilesInv, NEW d \in Days
               PROVE  /\ \A i \in DOMAIN files[d] : files[d][i] # Spoiled =>
                            files[d][i] \in 1..Emitted /\ stamps[files[d][i]] = d
                      /\ Increasing(files[d])
    BY DEF FilesInOrder
  <2>1. Sound(files[d], d, stamps, Queued)
    BY DEF FilesInv, FilesSound
  <2>2. \A i \in DOMAIN files[d] : files[d][i] \in Entries(files[d])
    BY DEF Entries
  <2>3. QED
    BY <2>1, <2>2 DEF Sound, Spoiled, Emitted
<1>2. QED
  BY <1>1, CoreInit, CoreStep, FilesInit, FilesStep, PTL DEF Spec

-----------------------------------------------------------------------------
(* stop().  A day this process has written to is the open one or fsynced.  *)

SyncInv == \A d \in Days : d = openDay \/ synced[d] = Len(files[d]) \/ \A n \in written : stamps[n] # d

StopInv ==
  /\ Stop \in Entries(queue) => stop \in {"joining", "closed", "failed"}
  /\ drain \in {"flushing", "returned"} => stop \in {"joining", "closed", "failed"}
  /\ drain = "returned" => Queued \intersect 1..stopAt = {}
  /\ stop \in {"closed", "failed"} => drain = "returned"
  /\ stop = "closed" => openDay = NoDay

LEMMA SyncReach ==
  ASSUME TypeOK, NEW e \in Days, NEW lines, Reach(e, lines), NEW d \in Days, d # e
  PROVE  files'[d] = files[d]
BY DEF Reach, TypeOK

LEMMA SyncClose ==
  ASSUME TypeOK, openDay # NoDay, CloseOpenDay, NEW d \in Days
  PROVE  IF d = openDay THEN synced'[d] = Len(files'[d])
         ELSE synced'[d] = synced[d] /\ files'[d] = files[d]
BY DEF CloseOpenDay, Reach, TypeOK

LEMMA SyncRaise ==
  ASSUME TypeOK, openDay # NoDay, CloseRaises, NEW d \in Days, d # openDay
  PROVE  synced'[d] = synced[d] /\ files'[d] = files[d]
BY DEF CloseRaises, Reach, TypeOK

LEMMA SyncWrite ==
  ASSUME TypeOK, SyncInv, NEW n \in 1..Emitted, Write(n), stamps' = stamps
  PROVE  SyncInv'
<1>1. stamps[n] \in Days /\ stamps[n] # NoDay
  <2>1. stamps[n] \in Days
    BY DEF TypeOK, Emitted
  <2>2. QED
    BY <2>1, ConstantsOK DEF Days, NoDay
<1>2. SUFFICES ASSUME NEW d \in Days, d # openDay'
               PROVE  synced'[d] = Len(files'[d]) \/ \A m \in written' : stamps[m] # d
  BY DEF SyncInv
<1>3. CountWritten(n) \/ CountDropped(n)
  BY WriteCounts
<1>4. ASSUME synced'[d] = synced[d], files'[d] = files[d], d # openDay, d # stamps[n] \/ CountDropped(n)
      PROVE  synced'[d] = Len(files'[d]) \/ \A m \in written' : stamps[m] # d
  BY <1>3, <1>4 DEF SyncInv, CountWritten, CountDropped
<1>5. CASE WriteSameDay(n)
  <2>1. openDay' = openDay /\ openDay = stamps[n] /\ synced' = synced
    BY <1>5 DEF WriteSameDay
  <2>2. files'[d] = files[d]
    BY <1>1, <1>2, <1>5, <2>1, SyncReach DEF WriteSameDay
  <2>3. QED
    BY <1>2, <1>4, <2>1, <2>2
<1>6. CASE WriteFirst(n)
  <2>1. synced' = synced /\ openDay = NoDay /\ d # openDay
    BY <1>6, ConstantsOK DEF WriteFirst, NoDay, Days
  <2>2. CASE openDay' = stamps[n] /\ Reach(stamps[n], <<n>>)
    BY <1>1, <1>2, <1>4, <2>1, <2>2, SyncReach
  <2>3. CASE CountDropped(n) /\ UNCHANGED <<files, torn>>
    BY <1>4, <2>1, <2>3
  <2>4. QED
    BY <1>6, <2>2, <2>3 DEF WriteFirst
<1>7. CASE WriteRollover(n)
  <2>1. openDay \in Days /\ openDay # NoDay
    BY <1>7 DEF WriteRollover, TypeOK
  <2>2. CASE /\ files' = [files EXCEPT ![openDay] = Extended(openDay, buffer),
                                       ![stamps[n]] = Extended(stamps[n], <<n>>)]
             /\ synced' = [synced EXCEPT ![openDay] = Len(Extended(openDay, buffer))]
             /\ openDay' = stamps[n]
    BY <1>1, <1>2, <1>4, <2>1, <2>2 DEF TypeOK
  <2>3. CASE CloseOpenDay /\ CountDropped(n)
    BY <1>4, <2>1, <2>3, SyncClose
  <2>4. CASE CloseRaises /\ CountDropped(n)
    <3>1. openDay' = openDay
      BY <2>4 DEF CloseRaises
    <3>2. QED
      BY <1>2, <1>4, <2>1, <2>4, <3>1, SyncRaise
  <2>5. QED
    BY <1>7, <2>2, <2>3, <2>4 DEF WriteRollover
<1>8. QED
  BY <1>5, <1>6, <1>7 DEF Write

LEMMA SyncStep == Core /\ SyncInv /\ [Next]_vars => SyncInv'
<1> SUFFICES ASSUME Core, SyncInv, [Next]_vars PROVE SyncInv'
  OBVIOUS
<1> USE DEF history, diskVars, taskVars, counters
<1>0. TypeOK
  BY DEF Core
<1>a. UNCHANGED <<files, openDay, synced, written, stamps>> => SyncInv'
  BY DEF SyncInv
<1>1. CASE Midnight \/ Start \/ Wake \/ Park \/ TakeStop \/ FlushEnd \/ StopCall \/ StopPut
  BY <1>1, <1>a DEF Midnight, Start, Wake, Park, TakeStop, FlushEnd, StopCall, StopPut
<1>2. CASE Emit
  <2>1. /\ UNCHANGED <<files, openDay, synced, written>>
        /\ stamps \in Seq(Days) /\ today \in Days /\ stamps' = Append(stamps, today)
        /\ written \subseteq 1..Len(stamps)
    BY <1>0, <1>2 DEF Emit, TypeOK, Emitted
  <2>2. \A n \in written : stamps'[n] = stamps[n]
    BY <2>1
  <2>3. QED
    BY <2>1, <2>2 DEF SyncInv
<1>3. CASE DrainWrite \/ FlushWrite
  <2>1. CASE Head(queue) # Stop
    <3>1. queue # <<>> /\ Write(Head(queue)) /\ stamps' = stamps
      BY <1>3, <2>1 DEF DrainWrite, FlushWrite
    <3>2. Head(queue) \in (base + 1)..Emitted
      BY <2>1, <3>1, HeadLeaves
    <3>3. base \in Nat /\ Emitted \in Nat
      BY <1>0 DEF TypeOK, Emitted
    <3>4. Head(queue) \in 1..Emitted
      BY <3>2, <3>3
    <3>5. QED
      BY <1>0, <3>1, <3>4, SyncWrite
  <2>2. CASE Head(queue) = Stop
    BY <1>3, <1>a, <2>2 DEF DrainWrite, FlushWrite
  <2>3. QED
    BY <2>1, <2>2
<1>4. CASE StopClose
  <2>1. CASE openDay = NoDay /\ UNCHANGED diskVars
    BY <1>4, <1>a, <2>1 DEF StopClose
  <2>2. CASE openDay # NoDay /\ CloseOpenDay
    BY <1>0, <1>4, <2>2, SyncClose DEF StopClose, SyncInv
  <2>3. CASE openDay # NoDay /\ CloseRaises
    <3>1. openDay' = openDay
      BY <2>3 DEF CloseRaises
    <3>2. QED
      BY <1>0, <1>4, <2>3, <3>1, SyncRaise DEF StopClose, SyncInv
  <2>4. QED
    BY <1>4, <2>1, <2>2, <2>3 DEF StopClose
<1>5. CASE Crash
  BY <1>5 DEF Crash, SyncInv
<1>6. CASE UNCHANGED vars
  BY <1>6, <1>a DEF vars
<1>7. QED
  BY <1>1, <1>2, <1>3, <1>4, <1>5, <1>6 DEF Next, DrainStep

LEMMA StopStep == Core /\ StopInv /\ [Next]_vars => StopInv'
<1> SUFFICES ASSUME Core, StopInv, [Next]_vars PROVE StopInv'
  OBVIOUS
<1> USE DEF history, diskVars, taskVars
<1>0. TypeOK /\ queue \in Seq(Nat) /\ Stop \in Nat /\ Emitted \in Nat
  <2>1. TypeOK
    BY Zenon DEF Core
  <2>2. stamps \in Seq(Days) /\ queue \in Seq(Nat)
    BY <2>1, Zenon DEF TypeOK
  <2>3. QED
    BY <2>1, <2>2 DEF Stop, Emitted
<1>a. Queued' = Entries(queue') \ {Stop}
  BY DEF Queued, Entries
<1>b. \A x \in Nat : Entries(Append(queue, x)) = Entries(queue) \union {x}
  BY <1>0, EntriesAppend
<1>c. queue # <<>> => Entries(queue) = {Head(queue)} \union Entries(Tail(queue))
  BY <1>0, EntriesTail
<1>d. (Stop \in Entries(queue))' <=> Stop \in Entries(queue')
  BY DEF Entries
<1>1. CASE Midnight
  BY <1>1, <1>a, <1>d DEF Midnight, StopInv, Queued
<1>2. CASE Start
  BY <1>2, <1>a, <1>d DEF Start, StopInv
<1>3. CASE Emit
  <2>1. UNCHANGED <<drain, stop, stopAt, openDay>> /\ stopAt \in 0..Emitted
    BY <1>0, <1>3 DEF Emit, TypeOK
  <2>2. queue' = queue \/ queue' = Append(queue, Emitted + 1)
    BY <1>3 DEF Emit
  <2>3. Entries(queue') \subseteq Entries(queue) \union {Emitted + 1} /\ Emitted + 1 # Stop
    <3>1. Emitted + 1 \in Nat /\ Emitted + 1 # Stop
      BY <1>0 DEF Stop
    <3>2. Entries(Append(queue, Emitted + 1)) = Entries(queue) \union {Emitted + 1}
      BY <1>b, <3>1
    <3>3. QED
      BY <2>2, <3>1, <3>2
  <2>4. drain' = "returned" => Queued' \intersect 1..stopAt' = {}
    BY <1>0, <1>a, <2>1, <2>3 DEF StopInv, Queued
  <2>5. QED
    BY <1>d, <2>1, <2>3, <2>4 DEF StopInv
<1>4. CASE Wake \/ Park
  BY <1>4, <1>a, <1>d DEF Wake, Park, StopInv
<1>5. CASE DrainWrite
  <2>1. drain' = "running" /\ UNCHANGED <<stop, stopAt>> /\ stop \notin {"closed", "failed"}
    BY <1>5 DEF DrainWrite, StopInv
  <2>2. Entries(queue') \subseteq Entries(queue)
    BY <1>5, <1>c DEF DrainWrite
  <2>3. QED
    BY <1>d, <2>1, <2>2 DEF StopInv
<1>6. CASE TakeStop
  <2>1. stop = "joining" /\ UNCHANGED <<stop, stopAt>> /\ drain' = "flushing"
    BY <1>6, <1>c DEF TakeStop, StopInv
  <2>2. QED
    BY <1>d, <2>1 DEF StopInv
<1>7. CASE FlushWrite
  <2>1. drain' = "flushing" /\ UNCHANGED <<stop, stopAt>> /\ stop \notin {"closed", "failed"}
    BY <1>7 DEF FlushWrite, StopInv
  <2>2. Entries(queue') \subseteq Entries(queue)
    BY <1>7, <1>c DEF FlushWrite
  <2>3. QED
    BY <1>7, <1>d, <2>1, <2>2 DEF StopInv, FlushWrite
<1>8. CASE FlushEnd
  <2>1. queue' = <<>> /\ UNCHANGED <<stop, stopAt, openDay>> /\ drain = "flushing"
    BY <1>8 DEF FlushEnd
  <2>2. Entries(queue') = {}
    BY <2>1 DEF Entries
  <2>3. QED
    BY <1>8, <1>a, <1>d, <2>1, <2>2 DEF FlushEnd, StopInv
<1>9. CASE StopCall \/ StopPut
  <2>1. /\ drain' = drain /\ stop \in {"no", "putting"}
        /\ stop' = "joining" \/ (stop' = "putting" /\ queue' = queue /\ stop = "no")
    BY <1>9 DEF StopCall, StopPut
  <2>2. drain \notin {"flushing", "returned"}
    BY <2>1 DEF StopInv
  <2>3. QED
    BY <1>d, <2>1, <2>2 DEF StopInv
<1>10. CASE StopClose
  <2>1. stop' \in {"closed", "failed"} /\ UNCHANGED <<queue, drain, stopAt>> /\ drain = "returned"
    BY <1>10 DEF StopClose
  <2>2. stop' = "closed" => openDay' = NoDay
    BY <1>10 DEF StopClose
  <2>3. QED
    BY <1>a, <1>d, <2>1, <2>2 DEF StopInv, Queued
<1>11. CASE Crash
  <2>1. queue' = <<>> /\ drain' = "none" /\ stop' = "no"
    BY <1>11 DEF Crash
  <2>2. Entries(queue') = {}
    BY <2>1 DEF Entries
  <2>3. QED
    BY <1>d, <2>1, <2>2 DEF StopInv
<1>12. CASE UNCHANGED vars
  BY <1>12, <1>a, <1>d DEF vars, StopInv, Queued
<1>13. QED
  BY <1>1, <1>2, <1>3, <1>4, <1>5, <1>6, <1>7, <1>8, <1>9, <1>10, <1>11, <1>12 DEF Next, DrainStep

(* stop() leaves nothing behind: what was emitted before it was called is  *)
(* settled, the buffer is empty and the files counted in are fsynced.      *)
THEOREM StopFlushesAlways == Spec => []StopFlushes
<1>1. Init => SyncInv /\ StopInv
  BY DEF Init, SyncInv, StopInv, Entries
<1>2. Core /\ FilesInv /\ SyncInv /\ StopInv => StopFlushes
  <2> SUFFICES ASSUME Core, FilesInv, SyncInv, StopInv, stop = "closed"
               PROVE  /\ Queued \intersect 1..stopAt = {}
                      /\ buffer = <<>>
                      /\ \A n \in written : synced[stamps[n]] = Len(files[stamps[n]])
    BY DEF StopFlushes
  <2>1. drain = "returned" /\ openDay = NoDay
    BY DEF StopInv
  <2>2. ASSUME NEW n \in written
        PROVE  synced[stamps[n]] = Len(files[stamps[n]])
    <3>1. stamps \in Seq(Days) /\ n \in 1..Len(stamps)
      BY DEF Core, TypeOK, Emitted
    <3>2. stamps[n] \in Days
      BY <3>1
    <3>3. stamps[n] # NoDay
      BY <3>2, ConstantsOK DEF Days, NoDay
    <3>4. QED
      BY <2>1, <3>2, <3>3 DEF SyncInv
  <2>3. QED
    BY <2>1, <2>2 DEF StopInv, FilesInv, FilesSound
<1>3. QED
  BY <1>1, <1>2, CoreInit, CoreStep, FilesInit, FilesStep, SyncStep, StopStep, PTL DEF Spec

-----------------------------------------------------------------------------
(* EventLog implements LossyLog, for all its constants: its initial states *)
(* are LossyLog's, and each of its steps is one of LossyLog's or none.     *)

(* The promise's queue is no longer than the real one.                     *)
LEMMA QueuedFits ==
  ASSUME NEW q \in Seq(Nat), Len(q) <= QueueSize
  PROVE  Cardinality(Entries(q) \ {Stop}) <= QueueSize
<1>1. DOMAIN q = 1..Len(q) /\ Len(q) \in Nat
  OBVIOUS
<1>2. IsFiniteSet(1..Len(q)) /\ Cardinality(1..Len(q)) = Len(q)
  <2>1. /\ IsFiniteSet(1..Len(q))
        /\ Cardinality(1..Len(q)) = IF 1 > Len(q) THEN 0 ELSE Len(q) - 1 + 1
    BY <1>1, FS_Interval, SMTT(30)
  <2> QED
    BY <1>1, <2>1
<1>3. q \in Surjection(1..Len(q), Entries(q))
  BY <1>1 DEF Surjection, Entries
<1>4. IsFiniteSet(Entries(q)) /\ Cardinality(Entries(q)) <= Len(q)
  BY <1>2, <1>3, FS_Surjection
<1>5. Cardinality(Entries(q) \ {Stop}) <= Cardinality(Entries(q))
  BY <1>4, FS_Subset
<1>6. Cardinality(Entries(q)) \in Nat /\ Cardinality(Entries(q) \ {Stop}) \in Nat
  BY <1>4, FS_Subset, FS_CardinalityType
<1> QED
  BY <1>1, <1>4, <1>5, <1>6, ConstantsOK DEF ConstantsOK

(* Most steps leave the promise where it is.                               *)
LEMMA Unseen ==
  ASSUME Emitted' = Emitted, Queued' = Queued, written' = written, dropped' = dropped
  PROVE  UNCHANGED Promise!vars
BY DEF Promise!vars

LEMMA EmitPromised ==
  ASSUME Core, Emit
  PROVE  Promise!Accept \/ Promise!Refuse
<1>1. stamps \in Seq(Days) /\ today \in Days /\ stamps' = Append(stamps, today)
  BY DEF Core, TypeOK, Emit
<1>2. Emitted \in Nat /\ Emitted' = Emitted + 1
  BY <1>1 DEF Emitted
<1>3. queue \in Seq(Nat)
  BY DEF Core, TypeOK
<1>4. CASE Len(queue) < QueueSize
  <2>1. queue' = Append(queue, Emitted + 1) /\ dropped' = dropped /\ written' = written
    BY <1>4 DEF Emit
  <2>2. queue' \in Seq(Nat) /\ Len(queue') <= QueueSize
    BY <1>2, <1>3, <1>4, <2>1, ConstantsOK DEF ConstantsOK
  <2>3. Queued' = Queued \union {Emitted + 1}
    BY <1>2, <1>3, <2>1, EntriesAppend DEF Queued, Stop
  <2>4. Cardinality(Queued') <= QueueSize
    BY <2>2, QueuedFits DEF Queued
  <2>5. Promise!Cardinality(Queued') = Cardinality(Queued')
    BY DEF Promise!Cardinality, Cardinality
  <2> QED
    BY <1>2, <2>1, <2>3, <2>4, <2>5 DEF Promise!Accept
<1>5. CASE ~(Len(queue) < QueueSize)
  <2>1. queue' = queue /\ dropped' = dropped \union {Emitted + 1} /\ written' = written
    BY <1>5 DEF Emit
  <2>2. Queued' = Queued
    BY <2>1 DEF Queued
  <2> QED
    BY <1>2, <2>1, <2>2 DEF Promise!Refuse
<1> QED
  BY <1>4, <1>5

(* _write() settles the oldest of the events that wait.                    *)
LEMMA WritePromised ==
  ASSUME Core, queue # <<>>, Head(queue) # Stop, Write(Head(queue)),
         queue' = Tail(queue), UNCHANGED stamps
  PROVE  \E n \in Queued : Promise!Keep(n) \/ Promise!Drop(n)
<1> DEFINE n == Head(queue)
<1>1. n \in Queued /\ Queued' = Queued \ {n} /\ \A m \in Queued \ {n} : n < m
  BY HeadLeaves DEF Queued
<1>2. Emitted' = Emitted
  BY DEF Emitted
<1>3. queue \in Seq(Nat) /\ n \in Nat
  BY DEF Core, TypeOK
<1>4. Promise!Oldest(n)
  <2>1. \A m \in Queued : n <= m
    <3>1. Queued \subseteq Nat
      BY <1>3 DEF Queued, Entries
    <3> QED
      BY <1>1, <1>3, <3>1
  <2> QED
    BY <1>1, <2>1 DEF Promise!Oldest
<1>5. CountWritten(n) \/ CountDropped(n)
  BY WriteCounts
<1>6. CASE CountWritten(n)
  BY <1>1, <1>2, <1>4, <1>6 DEF CountWritten, Promise!Keep
<1>7. CASE CountDropped(n)
  BY <1>1, <1>2, <1>4, <1>7 DEF CountDropped, Promise!Drop
<1> QED
  BY <1>5, <1>6, <1>7

(* Neither putting the sentinel on the queue nor taking it off is seen.    *)
LEMMA SentinelUnseen ==
  ASSUME Core,
         \/ queue' = Append(queue, Stop)
         \/ queue # <<>> /\ Head(queue) = Stop /\ queue' = Tail(queue),
         UNCHANGED <<stamps, written, dropped>>
  PROVE  UNCHANGED Promise!vars
<1>1. queue \in Seq(Nat) /\ Stop \in Nat
  BY DEF Core, TypeOK, Stop
<1>2. CASE queue' = Append(queue, Stop)
  BY <1>1, <1>2, EntriesAppend, Unseen DEF Queued, Emitted
<1>3. CASE queue # <<>> /\ Head(queue) = Stop /\ queue' = Tail(queue)
  <2>1. Entries(queue) = {Stop} \union Entries(Tail(queue))
    BY <1>1, <1>3, EntriesTail
  <2> QED
    BY <1>3, <2>1, Unseen DEF Queued, Emitted
<1> QED
  BY <1>2, <1>3

LEMMA InitPromised == Init => Promise!Init
<1> SUFFICES ASSUME Init PROVE Promise!Init
  OBVIOUS
<1>1. Emitted = 0 /\ Queued = {}
  BY DEF Init, Emitted, Queued, Entries
<1> QED
  BY <1>1 DEF Init, Promise!Init

LEMMA StepPromised == Core /\ [Next]_vars => [Promise!Next]_Promise!vars
<1> SUFFICES ASSUME Core, [Next]_vars PROVE [Promise!Next]_Promise!vars
  OBVIOUS
<1> USE DEF history, counters, taskVars
<1>a. ASSUME UNCHANGED <<stamps, queue, written, dropped>>
      PROVE  UNCHANGED Promise!vars
  BY <1>a, Unseen DEF Emitted, Queued
<1>1. CASE Midnight \/ Start \/ Wake \/ Park \/ FlushEnd \/ StopClose \/ UNCHANGED vars
  BY <1>1, <1>a DEF Midnight, Start, Wake, Park, FlushEnd, StopClose, vars
<1>2. CASE Emit
  BY <1>2, EmitPromised DEF Promise!Next
<1>3. CASE DrainWrite
  BY <1>3, WritePromised DEF DrainWrite, Promise!Next
<1>4. CASE TakeStop
  BY <1>4, SentinelUnseen DEF TakeStop
<1>5. CASE FlushWrite
  <2>1. CASE Head(queue) # Stop
    BY <1>5, <2>1, WritePromised DEF FlushWrite, Promise!Next
  <2>2. CASE Head(queue) = Stop
    BY <1>5, <2>2, SentinelUnseen DEF FlushWrite
  <2> QED
    BY <2>1, <2>2
<1>6. CASE StopCall
  <2>1. CASE Len(queue) < QueueSize
    BY <1>6, <2>1, SentinelUnseen DEF StopCall
  <2>2. CASE ~(Len(queue) < QueueSize)
    BY <1>6, <2>2, <1>a DEF StopCall
  <2> QED
    BY <2>1, <2>2
<1>7. CASE StopPut
  BY <1>7, SentinelUnseen DEF StopPut
<1>8. CASE Crash
  <2>1. queue' = <<>> /\ written' = {} /\ dropped' = {} /\ stamps' = stamps
    BY <1>8 DEF Crash
  <2>2. Queued' = {} /\ Emitted' = Emitted
    BY <2>1 DEF Queued, Entries, Emitted
  <2> QED
    BY <2>1, <2>2 DEF Promise!Restart, Promise!Next
<1> QED
  BY <1>1, <1>2, <1>3, <1>4, <1>5, <1>6, <1>7, <1>8 DEF Next, DrainStep

(* Seen from the code that emits into it, the log with its queue, task,    *)
(* files, days, sentinel and crashes behaves as LossyLog: events are       *)
(* accepted or refused on the spot, settled once, in order of emission.    *)
THEOREM ImplementsLossyLog == Spec => KeepsPromise
BY InitPromised, StepPromised, CoreInit, CoreStep, PTL DEF Spec, KeepsPromise, Promise!Spec

=============================================================================
