------------------------------ MODULE LossyLog ------------------------------
(***************************************************************************)
(* What an event log promises the code that emits into it, with no queue,  *)
(* task, file or day in sight: every event is accepted or refused on the   *)
(* spot; accepted events are settled strictly in the order they were       *)
(* emitted; each one is settled once, as written or as dropped; at most    *)
(* Capacity events wait; and a process that dies takes only the waiting    *)
(* events with it.                                                         *)
(***************************************************************************)
EXTENDS Naturals, FiniteSets

CONSTANT Capacity

VARIABLES
  count,    \* how many events were ever emitted: event n is the n-th
  pending,  \* accepted and not settled
  kept,     \* settled as written, by the running process
  refused   \* counted as dropped, by the running process

vars == <<count, pending, kept, refused>>

Init ==
  /\ count = 0
  /\ pending = {}
  /\ kept = {}
  /\ refused = {}

(* An emitted event waits.                                                 *)
Accept ==
  /\ count' = count + 1
  /\ pending' = pending \union {count'}
  /\ Cardinality(pending') <= Capacity
  /\ UNCHANGED <<kept, refused>>

(* An emitted event is counted as dropped on the spot.                     *)
Refuse ==
  /\ count' = count + 1
  /\ refused' = refused \union {count'}
  /\ UNCHANGED <<pending, kept>>

Oldest(n) ==
  /\ n \in pending
  /\ \A m \in pending : n <= m

Keep(n) ==
  /\ Oldest(n)
  /\ pending' = pending \ {n}
  /\ kept' = kept \union {n}
  /\ UNCHANGED <<count, refused>>

Drop(n) ==
  /\ Oldest(n)
  /\ pending' = pending \ {n}
  /\ refused' = refused \union {n}
  /\ UNCHANGED <<count, kept>>

(* The process ends and another takes over with counters at zero.          *)
Restart ==
  /\ pending' = {}
  /\ kept' = {}
  /\ refused' = {}
  /\ UNCHANGED count

Next ==
  \/ Accept
  \/ Refuse
  \/ \E n \in pending : Keep(n) \/ Drop(n)
  \/ Restart

Spec == Init /\ [][Next]_vars

=============================================================================
