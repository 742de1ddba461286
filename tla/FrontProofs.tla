---------------------------- MODULE FrontProofs -----------------------------
(***************************************************************************)
(* What Front promises, for any number of connections and any cap: the     *)
(* slots are counted exactly on every path out of a session, and the one   *)
(* record of a connection tells what became of it.  And what Relay         *)
(* promises of a session in its last stage: both streams arrive in order.  *)
(***************************************************************************)
EXTENDS Front, Relay, FiniteSetTheorems, SequenceTheorems, TLAPS

Running == {c \in Connections : stage[c] \in InSession}

(* What is on file of a connection whose session is under way.             *)
Under(c) ==
  /\ info[c].error = "none"
  /\ info[c].handshake_ok <=> stage[c] \in {"connecting", "relay"}
  /\ stage[c] = "hello" => info[c].phase = "hello"
  /\ stage[c] = "handshake" => info[c].phase = "handshake"
  /\ stage[c] \in {"connecting", "relay"} => info[c].phase = "idle"

(* And of one whose end is known, recorded or not.                         *)
Told(c) ==
  /\ info[c].error = "none" <=> fate[c] = [at |-> "relay", by |-> "none"]
  /\ info[c].handshake_ok <=> fate[c].at \in {"connecting", "relay"}
  /\ info[c].error = "hello_timeout" <=> fate[c] = [at |-> "hello", by |-> "timeout"]
  /\ info[c].error = "handshake_timeout" <=> fate[c] = [at |-> "handshake", by |-> "timeout"]
  /\ info[c].error = "over_capacity" <=> fate[c].at = "absent"

ConnectionOK(c) ==
  /\ records[c] = IF stage[c] = "done" THEN 1 ELSE 0
  /\ stage[c] = "absent" => info[c] = Fresh
  /\ stage[c] \in {"absent", "refusing"} \union InSession =>
       fate[c] = [at |-> "absent", by |-> "none"]
  /\ stage[c] \in InSession => Under(c)
  /\ stage[c] \in {"refusing", "closing", "done"} => Told(c)

Inv ==
  /\ TypeOK
  /\ SlotsExact
  /\ \A c \in Connections : ConnectionOK(c)

-----------------------------------------------------------------------------
(* Entering and leaving the running sessions moves their number by one.    *)

LEMMA RunningFinite ==
  /\ IsFiniteSet(Running)
  /\ Cardinality(Running) \in Nat
<1>1. Running \subseteq Connections
  BY DEF Running
<1>2. IsFiniteSet(Running)
  BY <1>1, ConstantsOK, FS_Subset DEF ConstantsOK
<1> QED
  BY <1>2, FS_CardinalityType

LEMMA Enters ==
  ASSUME NEW c \in Connections, NEW s \in InSession, TypeOK,
         stage[c] \notin InSession, To(c, s)
  PROVE  Cardinality(Running') = Cardinality(Running) + 1
<1>1. Running' = Running \union {c}
  BY DEF Running, To, TypeOK
<1>2. c \notin Running
  BY DEF Running
<1> QED
  BY <1>1, <1>2, RunningFinite, FS_AddElement

LEMMA Leaves ==
  ASSUME NEW c \in Connections, NEW s \in Stages \ InSession, TypeOK,
         stage[c] \in InSession, To(c, s)
  PROVE  /\ Cardinality(Running') = Cardinality(Running) - 1
         /\ Cardinality(Running) > 0
<1>1. Running' = Running \ {c}
  BY DEF Running, To, TypeOK
<1>2. c \in Running
  BY DEF Running
<1>3. Cardinality(Running \ {c}) = Cardinality(Running) - 1
  BY <1>2, RunningFinite, FS_RemoveElement
<1>4. Cardinality(Running) # 0
  BY <1>2, RunningFinite, FS_EmptySet
<1> QED
  BY <1>1, <1>3, <1>4, RunningFinite

LEMMA Stays ==
  ASSUME NEW c \in Connections, NEW s \in Stages, TypeOK,
         stage[c] \in InSession <=> s \in InSession, To(c, s)
  PROVE  Running' = Running
BY DEF Running, To, TypeOK

-----------------------------------------------------------------------------
(* A session that is over, for whatever cause its stage allows.            *)

Allowed(c, cause) ==
  \/ stage[c] = "hello" /\ cause \in {"no_data", "not_tls", "timeout", "reset", "exception"}
  \/ stage[c] = "handshake"
       /\ cause \in {"closed_in_handshake", "timeout", "reset", "ssl", "exception"}
  \/ stage[c] = "connecting" /\ cause \in {"reset", "exception"}
  \/ stage[c] = "relay" /\ cause \in {"none", "timeout", "exception"}

LEMMA SessionOverKeeps ==
  ASSUME NEW c \in Connections, NEW cause, Inv, Allowed(c, cause), SessionOver(c, cause)
  PROVE  Inv'
<1> USE DEF Inv
<1>a. stage[c] \in InSession /\ cause \in Causes
  BY DEF Allowed, InSession, Causes
<1>b. info[c].error = "none" /\ Under(c)
  BY <1>a DEF ConnectionOK, Under
<1>c. ErrorAfter(c, cause) =
        IF cause = "timeout" THEN Timeout(info[c].phase) ELSE cause
  BY <1>a, <1>b DEF ErrorAfter, Causes
<1>d. /\ stage[c] = "hello" /\ cause = "timeout" => ErrorAfter(c, cause) = "hello_timeout"
      /\ stage[c] = "handshake" /\ cause = "timeout" => ErrorAfter(c, cause) = "handshake_timeout"
      /\ stage[c] = "relay" /\ cause = "timeout" => ErrorAfter(c, cause) = "idle_timeout"
      /\ cause # "timeout" => ErrorAfter(c, cause) = cause
  BY <1>b, <1>c DEF Under, Timeout
<1>e. ErrorAfter(c, cause) \in Errors
  BY <1>a, <1>d DEF Allowed, Errors, Causes, InSession
<1>1. active' \in Nat /\ SlotsExact'
  <2>1. "closing" \in Stages \ InSession
    BY DEF Stages, InSession
  <2>2. /\ Cardinality(Running') = Cardinality(Running) - 1
        /\ Cardinality(Running) > 0
    BY <1>a, <2>1, Leaves DEF SessionOver
  <2> QED
    BY <2>2, RunningFinite, ConstantsOK DEF SlotsExact, Running, SessionOver, ConstantsOK
<1>2. TypeOK'
  <2>1. stage' \in [Connections -> Stages]
    BY DEF TypeOK, SessionOver, To, Stages
  <2>2. info' \in [Connections -> [error : Errors, handshake_ok : BOOLEAN, ja4 : BOOLEAN,
                                   phase : {"hello", "handshake", "idle"}]]
    BY <1>e DEF TypeOK, SessionOver
  <2>3. fate' \in [Connections -> [at : {"absent"} \union InSession, by : Causes]]
    BY <1>a DEF TypeOK, SessionOver
  <2> QED
    BY <1>1, <2>1, <2>2, <2>3 DEF TypeOK, SessionOver
<1>3. ASSUME NEW d \in Connections
      PROVE  ConnectionOK(d)'
  <2>1. CASE d # c
    BY <2>1 DEF ConnectionOK, Under, Told, TypeOK, SessionOver, To
  <2>2. CASE d = c
    <3>1. stage'[c] = "closing" /\ records'[c] = 0
      BY <1>a DEF SessionOver, To, TypeOK, ConnectionOK, InSession
    <3>2. /\ info'[c].error = ErrorAfter(c, cause)
          /\ info'[c].handshake_ok = info[c].handshake_ok
      BY DEF SessionOver, TypeOK
    <3>3. fate'[c] = [at |-> stage[c], by |-> cause]
      BY DEF SessionOver, TypeOK
    <3>4. Told(c)'
      BY <1>a, <1>b, <1>d, <3>2, <3>3 DEF Told, Under, Allowed, InSession
    <3> QED
      BY <2>2, <3>1, <3>4 DEF ConnectionOK, InSession
  <2> QED
    BY <2>1, <2>2
<1> QED
  BY <1>1, <1>2, <1>3

-----------------------------------------------------------------------------
(* The steps that end no session.                                          *)

LEMMA AcceptKeeps ==
  ASSUME NEW c \in Connections, Inv, Accept(c)
  PROVE  Inv'
<1> USE DEF Inv
<1>1. CASE active >= MaxConnections
  <2>1. To(c, "refusing") /\ info' = [info EXCEPT ![c].error = "over_capacity"]
    BY <1>1 DEF Accept
  <2>2. active' = active /\ records' = records /\ fate' = fate
    BY <1>1 DEF Accept
  <2>3. Running' = Running
    BY <2>1, Stays DEF Accept, Stages, InSession
  <2>4. TypeOK' /\ SlotsExact'
    BY <2>1, <2>2, <2>3, ZenonT(30) DEF TypeOK, SlotsExact, Running, To, Stages, Errors
  <2>5. ASSUME NEW d \in Connections
        PROVE  ConnectionOK(d)'
    BY <2>1, <2>2 DEF Accept, ConnectionOK, Under, Told, TypeOK, To, Fresh, InSession
  <2> QED
    BY <2>4, <2>5
<1>2. CASE ~(active >= MaxConnections)
  <2>1. To(c, "hello") /\ active' = active + 1
    BY <1>2 DEF Accept
  <2>2. info' = info /\ records' = records /\ fate' = fate
    BY <1>2 DEF Accept
  <2>3. Cardinality(Running') = Cardinality(Running) + 1
    BY <2>1, Enters DEF Accept, InSession
  <2>4. SlotsExact' /\ active' \in Nat
    BY <1>2, <2>1, <2>3, ConstantsOK DEF TypeOK, SlotsExact, Running, ConstantsOK
  <2>5. TypeOK'
    BY <2>1, <2>2, <2>4 DEF TypeOK, To, Stages, InSession
  <2>6. ASSUME NEW d \in Connections
        PROVE  ConnectionOK(d)'
    BY <2>1, <2>2 DEF Accept, ConnectionOK, Under, Told, TypeOK, To, Fresh, InSession
  <2> QED
    BY <2>4, <2>5, <2>6
<1> QED
  BY <1>1, <1>2

LEMMA CloseAndRecordKeeps ==
  ASSUME NEW c \in Connections, Inv, CloseAndRecord(c)
  PROVE  Inv'
<1> USE DEF Inv
<1>1. Running' = Running
  BY Stays DEF CloseAndRecord, Stages, InSession
<1>2. records'[c] = 1
  BY DEF CloseAndRecord, ConnectionOK, TypeOK
<1>3. SlotsExact'
  BY <1>1 DEF CloseAndRecord, SlotsExact, Running
<1>5. TypeOK'
  <2>1. stage' \in [Connections -> Stages]
    BY DEF CloseAndRecord, TypeOK, To, Stages
  <2>2. records' \in [Connections -> 0..1]
    BY <1>2 DEF CloseAndRecord, TypeOK
  <2> QED
    BY <2>1, <2>2 DEF CloseAndRecord, TypeOK
<1>4. ASSUME NEW d \in Connections
      PROVE  ConnectionOK(d)'
  BY <1>2 DEF CloseAndRecord, ConnectionOK, Under, Told, TypeOK, To, InSession
<1> QED
  BY <1>3, <1>4, <1>5

(* From one stage of a running session to the next.                        *)
LEMMA StageKeeps ==
  ASSUME NEW c \in Connections, Inv,
         HelloRead(c) \/ HandshakeCompletes(c) \/ Connects(c)
  PROVE  Inv'
<1> USE DEF Inv
<1>1. Running' = Running
  BY Stays DEF HelloRead, HandshakeCompletes, Connects, Stages, InSession
<1>2. SlotsExact'
  BY <1>1 DEF HelloRead, HandshakeCompletes, Connects, SlotsExact, Running
<1>3. CASE HelloRead(c)
  <2>1. TypeOK'
    BY <1>3, ZenonT(30) DEF HelloRead, TypeOK, To, Stages, InSession
  <2>2. ASSUME NEW d \in Connections
        PROVE  ConnectionOK(d)'
    BY <1>3 DEF HelloRead, ConnectionOK, Under, Told, TypeOK, To, InSession
  <2> QED
    BY <1>2, <2>1, <2>2
<1>4. CASE HandshakeCompletes(c)
  <2>1. TypeOK'
    BY <1>4, ZenonT(30) DEF HandshakeCompletes, TypeOK, To, Stages, InSession
  <2>2. ASSUME NEW d \in Connections
        PROVE  ConnectionOK(d)'
    BY <1>4 DEF HandshakeCompletes, ConnectionOK, Under, Told, TypeOK, To, InSession
  <2> QED
    BY <1>2, <2>1, <2>2
<1>5. CASE Connects(c)
  <2>1. TypeOK'
    BY <1>5 DEF Connects, TypeOK, To, Stages, InSession
  <2>2. ASSUME NEW d \in Connections
        PROVE  ConnectionOK(d)'
    BY <1>5 DEF Connects, ConnectionOK, Under, Told, TypeOK, To, InSession
  <2> QED
    BY <1>2, <2>1, <2>2
<1> QED
  BY <1>3, <1>4, <1>5

-----------------------------------------------------------------------------
LEMMA InitHolds == Init => Inv
<1> SUFFICES ASSUME Init PROVE Inv
  OBVIOUS
<1>1. Running = {}
  BY DEF Init, Running, InSession
<1>2. SlotsExact
  BY <1>1, FS_EmptySet, ConstantsOK DEF Init, SlotsExact, Running, ConstantsOK
<1>3. TypeOK
  BY DEF Init, TypeOK, Stages, Fresh, Errors, Causes
<1>4. \A c \in Connections : ConnectionOK(c)
  BY DEF Init, ConnectionOK, Fresh, InSession
<1> QED
  BY <1>2, <1>3, <1>4 DEF Inv

LEMMA NextKeeps == Inv /\ [Next]_vars => Inv'
<1> SUFFICES ASSUME Inv, [Next]_vars PROVE Inv'
  OBVIOUS
<1>1. CASE UNCHANGED vars
  BY <1>1 DEF vars, Inv, TypeOK, SlotsExact, ConnectionOK, Under, Told
<1>2. CASE Next
  <2> PICK c \in Connections :
        \/ Accept(c) \/ CloseAndRecord(c)
        \/ HelloRead(c) \/ HelloEnds(c)
        \/ HandshakeCompletes(c) \/ HandshakeEnds(c)
        \/ Connects(c) \/ ConnectFails(c)
        \/ RelayEnds(c)
    BY <1>2 DEF Next
  <2>1. CASE Accept(c)
    BY <2>1, AcceptKeeps
  <2>2. CASE CloseAndRecord(c)
    BY <2>2, CloseAndRecordKeeps
  <2>3. CASE HelloRead(c) \/ HandshakeCompletes(c) \/ Connects(c)
    BY <2>3, StageKeeps
  <2>4. CASE HelloEnds(c) \/ HandshakeEnds(c) \/ ConnectFails(c) \/ RelayEnds(c)
    <3>1. PICK cause : Allowed(c, cause) /\ SessionOver(c, cause)
      BY <2>4, Zenon DEF HelloEnds, HandshakeEnds, ConnectFails, RelayEnds, Allowed
    <3> QED
      BY <3>1, SessionOverKeeps
  <2> QED
    BY <2>1, <2>2, <2>3, <2>4
<1> QED
  BY <1>1, <1>2

(* The type invariant, with every record count at most one.                *)
THEOREM TypeCorrect == Spec => []TypeOK
<1>1. Inv => TypeOK
  BY DEF Inv
<1> QED
  BY InitHolds, NextKeeps, <1>1, PTL DEF Spec

(* Whatever ends a session - a return, a timeout, a reset, an exception -  *)
(* its slot is given back once, so `active` is always the number of        *)
(* sessions running and the cap is never passed.                           *)
THEOREM SlotsExactAlways == Spec => []SlotsExact
<1>1. Inv => SlotsExact
  BY DEF Inv
<1> QED
  BY InitHolds, NextKeeps, <1>1, PTL DEF Spec

(* A connection that is done has exactly one record, and its error and     *)
(* handshake fields are those of the stage and the cause that ended it.    *)
THEOREM RecordTellsFateAlways == Spec => []RecordTellsFate
<1>1. Inv => RecordTellsFate
  BY DEF Inv, ConnectionOK, Told, RecordTellsFate
<1> QED
  BY InitHolds, NextKeeps, <1>1, PTL DEF Spec

-----------------------------------------------------------------------------
(* The relay of a session, for any buffer size and any number of requests: *)
(* both streams arrive in order.  Every buffer on the way holds            *)
(* consecutive numbers, each goes on where the one in front of it ends,    *)
(* and together they account for all that was forwarded.                   *)

(* The numbers after a, in order.                                          *)
Run(s, a) == \A i \in 1..Len(s) : s[i] = a + i

Pumping == {"reading", "draining"}

Types ==
  /\ sent \in Nat
  /\ wire \in Seq(Nat) /\ toBackend \in Seq(Nat) /\ forwarded \in Seq(Nat)
  /\ toFront \in Seq(Nat) /\ toClient \in Seq(Nat) /\ received \in Seq(Nat)

(* While the upward pump runs, the wire goes on where it stopped.          *)
Requests ==
  /\ Run(forwarded, 0) /\ Len(forwarded) <= sent
  /\ up \in Pumping =>
       /\ \A i \in 1..Len(wire) : wire[i] # CloseNotify =>
            wire[i] = Len(forwarded) + i /\ Len(forwarded) + i <= sent
       /\ ~notified => Len(forwarded) + Len(wire) = sent

AtWork == IF backend = "answering" THEN 1 ELSE 0
Answered == Len(received) + Len(toClient) + Len(toFront)

(* The sensor has one request at most between taking and answering it.     *)
Answers ==
  /\ Run(received, 0) /\ Run(toClient, Len(received))
  /\ Run(toFront, Len(received) + Len(toClient))
  /\ Run(toBackend, Answered + AtWork)
  /\ Answered + AtWork + Len(toBackend) = Len(forwarded)

StreamInv == Types /\ Requests /\ Answers

-----------------------------------------------------------------------------
LEMMA Lens == Types => /\ Len(wire) \in Nat /\ Len(toBackend) \in Nat /\ Len(forwarded) \in Nat
                       /\ Len(toFront) \in Nat /\ Len(toClient) \in Nat /\ Len(received) \in Nat
                       /\ AtWork \in Nat
BY LenProperties DEF Types, AtWork

LEMMA RunJoins ==
  ASSUME NEW s \in Seq(Nat), NEW t \in Seq(Nat), NEW a \in Nat, Run(s, a), Run(t, a + Len(s))
  PROVE  s \o t \in Seq(Nat) /\ Len(s \o t) = Len(s) + Len(t) /\ Run(s \o t, a)
<1>1. Len(s) \in Nat /\ Len(t) \in Nat
  BY LenProperties
<1>2. /\ s \o t \in Seq(Nat) /\ Len(s \o t) = Len(s) + Len(t)
      /\ \A i \in 1..Len(s) + Len(t) :
           (s \o t)[i] = IF i <= Len(s) THEN s[i] ELSE t[i - Len(s)]
  BY ConcatProperties
<1>3. ASSUME NEW i \in 1..Len(s) + Len(t)
      PROVE  (s \o t)[i] = a + i
  <2>1. CASE i <= Len(s)
    BY <1>1, <1>2, <2>1 DEF Run
  <2>2. CASE ~(i <= Len(s))
    <3>1. i - Len(s) \in 1..Len(t)
      BY <1>1, <2>2
    <3>2. (s \o t)[i] = t[i - Len(s)]
      BY <1>2, <2>2
    <3>3. t[i - Len(s)] = (a + Len(s)) + (i - Len(s))
      BY <3>1 DEF Run
    <3> QED
      BY <1>1, <3>2, <3>3
  <2> QED
    BY <2>1, <2>2
<1> QED
  BY <1>2, <1>3 DEF Run

LEMMA RunGrows ==
  ASSUME NEW s \in Seq(Nat), NEW a \in Nat, Run(s, a), NEW n \in Nat, n = a + Len(s) + 1
  PROVE  /\ Append(s, n) \in Seq(Nat) /\ Len(Append(s, n)) = Len(s) + 1
         /\ Run(Append(s, n), a)
<1>1. Len(s) \in Nat
  BY LenProperties
<1>2. /\ Append(s, n) \in Seq(Nat) /\ Len(Append(s, n)) = Len(s) + 1
      /\ \A i \in 1..Len(s) : Append(s, n)[i] = s[i]
      /\ Append(s, n)[Len(s) + 1] = n
  BY AppendProperties
<1>3. ASSUME NEW i \in 1..Len(s) + 1
      PROVE  Append(s, n)[i] = a + i
  <2>1. CASE i \in 1..Len(s)
    BY <1>2, <2>1 DEF Run
  <2>2. CASE i = Len(s) + 1
    BY <1>1, <1>2, <2>2
  <2> QED
    BY <1>1, <2>1, <2>2
<1> QED
  BY <1>2, <1>3 DEF Run

LEMMA RunShrinks ==
  ASSUME NEW s \in Seq(Nat), s # <<>>, NEW a \in Nat, Run(s, a)
  PROVE  Tail(s) \in Seq(Nat) /\ Len(Tail(s)) = Len(s) - 1 /\ Run(Tail(s), a + 1)
<1>1. Len(s) \in Nat \ {0}
  BY EmptySeq
<1>2. /\ Tail(s) \in Seq(Nat) /\ Len(Tail(s)) = Len(s) - 1
      /\ \A i \in 1..Len(Tail(s)) : Tail(s)[i] = s[i + 1]
  BY HeadTailProperties
<1>3. ASSUME NEW i \in 1..Len(Tail(s))
      PROVE  Tail(s)[i] = (a + 1) + i
  <2>1. i + 1 \in 1..Len(s)
    BY <1>1, <1>2
  <2> QED
    BY <1>2, <2>1 DEF Run
<1> QED
  BY <1>2, <1>3 DEF Run

-----------------------------------------------------------------------------
LEMMA StreamInit == RelayInit => StreamInv
<1> SUFFICES ASSUME RelayInit
             PROVE  StreamInv
  OBVIOUS
<1>1. Len(<<>>) = 0 /\ <<>> \in Seq(Nat) /\ \A a : Run(<<>>, a)
  BY EmptySeq DEF Run
<1>2. Types
  BY <1>1 DEF RelayInit, Types
<1>3. Requests
  BY <1>1 DEF RelayInit, Requests
<1>4. Answers
  BY <1>1 DEF RelayInit, Answers, Answered, AtWork
<1> QED
  BY <1>2, <1>3, <1>4 DEF StreamInv

(* No stream moves.                                                        *)
LEMMA Quiet ==
  ASSUME StreamInv,
         UNCHANGED <<sent, notified, wire, toBackend, forwarded, toFront, toClient, received>>,
         up' \in Pumping => up \in Pumping, AtWork' = AtWork
  PROVE  StreamInv'
<1>1. Types'
  BY DEF StreamInv, Types
<1>2. Requests'
  BY DEF StreamInv, Requests, Run
<1>3. Answers'
  BY DEF StreamInv, Answers, Answered, Run
<1> QED
  BY <1>1, <1>2, <1>3 DEF StreamInv

(* The client puts n on the wire: its next request, or the close notice.   *)
LEMMA WireGrows ==
  ASSUME StreamInv, NEW n \in Nat, wire' = Append(wire, n), sent' \in Nat,
         ~notified, sent <= sent',
         n = CloseNotify \/ (n = sent + 1 /\ sent' = sent + 1),
         ~notified' => n # CloseNotify,
         UNCHANGED <<toBackend, forwarded, toFront, toClient, received, up, backend>>
  PROVE  StreamInv'
<1>1. /\ wire' \in Seq(Nat) /\ Len(wire') = Len(wire) + 1
      /\ \A i \in 1..Len(wire) : wire'[i] = wire[i]
      /\ wire'[Len(wire) + 1] = n
  BY AppendProperties DEF StreamInv, Types
<1>2. Types'
  BY <1>1 DEF StreamInv, Types
<1>3. Requests'
  <2>1. Run(forwarded, 0)' /\ Len(forwarded)' <= sent'
    BY <1>2, Lens DEF StreamInv, Types, Requests, Run
  <2>2. ASSUME up \in Pumping, NEW i \in 1..Len(wire) + 1, wire'[i] # CloseNotify
        PROVE  wire'[i] = Len(forwarded) + i /\ Len(forwarded) + i <= sent'
    <3>1. CASE i \in 1..Len(wire)
      <4>1. wire[i] = Len(forwarded) + i /\ Len(forwarded) + i <= sent
        BY <1>1, <2>2, <3>1 DEF StreamInv, Requests
      <4> QED
        BY <1>1, <3>1, <4>1, Lens DEF StreamInv, Types
    <3>2. CASE i = Len(wire) + 1
      BY <1>1, <2>2, <3>2, Lens DEF StreamInv, Types, Requests
    <3> QED
      BY <3>1, <3>2, Lens DEF StreamInv
  <2>3. ASSUME up \in Pumping, ~notified'
        PROVE  Len(forwarded) + Len(wire') = sent'
    <3>1. sent' = sent + 1
      BY <2>3
    <3>2. Len(forwarded) + Len(wire) = sent
      BY <2>3 DEF StreamInv, Requests
    <3>3. Len(forwarded) \in Nat /\ Len(wire) \in Nat /\ sent \in Nat
      BY Lens DEF StreamInv, Types
    <3>4. Len(wire') = Len(wire) + 1
      BY <1>1
    <3> QED
      BY <3>1, <3>2, <3>3, <3>4
  <2> QED
    BY <1>1, <2>1, <2>2, <2>3 DEF Requests
<1>4. Answers'
  BY DEF StreamInv, Answers, Answered, AtWork, Run
<1> QED
  BY <1>2, <1>3, <1>4 DEF StreamInv

LEMMA ClientReadsKeeps == StreamInv /\ ClientReads => StreamInv'
<1> SUFFICES ASSUME StreamInv, ClientReads
             PROVE  StreamInv'
  OBVIOUS
<1>1. /\ received' = received \o toClient /\ toClient' = <<>>
      /\ UNCHANGED <<sent, notified, wire, toBackend, forwarded, toFront, up, backend>>
  BY DEF ClientReads, unchangedFront
<1>2. received' \in Seq(Nat) /\ Len(received') = Len(received) + Len(toClient) /\ Run(received', 0)
  <2>1. Run(toClient, 0 + Len(received))
    BY Lens DEF StreamInv, Answers
  <2> QED
    BY <1>1, <2>1, RunJoins DEF StreamInv, Types, Answers
<1>3. toClient' \in Seq(Nat) /\ Len(toClient') = 0
  BY <1>1, EmptySeq
<1>4. Types'
  BY <1>1, <1>2, <1>3 DEF StreamInv, Types
<1>5. Requests'
  BY <1>1 DEF StreamInv, Requests, Run
<1>6. Answered' = Answered /\ AtWork' = AtWork
  BY <1>1, <1>2, <1>3, Lens DEF StreamInv, Answered, AtWork
<1>7. Run(toClient', Len(received')) /\ Len(received') + Len(toClient') = Len(received) + Len(toClient)
  BY <1>2, <1>3, Lens DEF Run, StreamInv
<1>8. Answers'
  BY <1>1, <1>2, <1>6, <1>7 DEF StreamInv, Answers, Run
<1> QED
  BY <1>4, <1>5, <1>8 DEF StreamInv

LEMMA DownReadsKeeps == StreamInv /\ DownReads => StreamInv'
<1> SUFFICES ASSUME StreamInv, DownReads
             PROVE  StreamInv'
  OBVIOUS
<1>1. /\ toClient' = toClient \o toFront /\ toFront' = <<>>
      /\ UNCHANGED <<sent, notified, wire, toBackend, forwarded, received, up, backend>>
  BY DEF DownReads, downOnly, clientVars
<1>2. /\ toClient' \in Seq(Nat) /\ Len(toClient') = Len(toClient) + Len(toFront)
      /\ Run(toClient', Len(received))
  BY <1>1, RunJoins, Lens DEF StreamInv, Types, Answers
<1>3. toFront' \in Seq(Nat) /\ Len(toFront') = 0 /\ \A a : Run(toFront', a)
  BY <1>1, EmptySeq DEF Run
<1>4. Types'
  BY <1>1, <1>2, <1>3 DEF StreamInv, Types
<1>5. Requests'
  BY <1>1 DEF StreamInv, Requests, Run
<1>6. Answered' = Answered /\ AtWork' = AtWork
  BY <1>1, <1>2, <1>3, Lens DEF StreamInv, Answered, AtWork
<1>7. Run(received, 0)' /\ Run(toClient, Len(received))'
  BY <1>1, <1>2 DEF StreamInv, Answers
<1>8. Run(toFront, Len(received) + Len(toClient))'
  BY <1>3
<1>9. Run(toBackend, Answered + AtWork)' /\ (Answered + AtWork + Len(toBackend) = Len(forwarded))'
  BY <1>1, <1>6 DEF StreamInv, Answers, Run
<1> QED
  BY <1>4, <1>5, <1>7, <1>8, <1>9 DEF StreamInv, Answers

LEMMA BackendTakesKeeps == StreamInv /\ BackendTakes => StreamInv'
<1> SUFFICES ASSUME StreamInv, BackendTakes
             PROVE  StreamInv'
  OBVIOUS
<1>1. /\ toBackend # <<>> /\ toBackend' = Tail(toBackend)
      /\ UNCHANGED <<sent, notified, wire, forwarded, toFront, toClient, received, up>>
  BY DEF BackendTakes, unchangedPumps, clientVars
<1>2. AtWork = 0 /\ AtWork' = 1 /\ Answered' = Answered /\ Answered \in Nat
  BY <1>1, Lens DEF StreamInv, BackendTakes, AtWork, Answered
<1>3. Run(toBackend, Answered)
  BY <1>2 DEF StreamInv, Answers, Run
<1>4. /\ toBackend' \in Seq(Nat) /\ Len(toBackend') = Len(toBackend) - 1
      /\ Run(toBackend', Answered + 1)
  BY <1>1, <1>2, <1>3, RunShrinks DEF StreamInv, Types
<1>5. Types'
  BY <1>1, <1>4 DEF StreamInv, Types
<1>6. Requests'
  BY <1>1 DEF StreamInv, Requests, Run
<1>7. Run(received, 0)' /\ Run(toClient, Len(received))' /\ Run(toFront, Len(received) + Len(toClient))'
  BY <1>1 DEF StreamInv, Answers, Run
<1>8. (Answered + AtWork + Len(toBackend) = Len(forwarded))'
  BY <1>1, <1>2, <1>4, Lens DEF StreamInv, Answers
<1> QED
  BY <1>2, <1>4, <1>5, <1>6, <1>7, <1>8 DEF StreamInv, Answers

LEMMA BackendAnswersKeeps == StreamInv /\ BackendAnswers => StreamInv'
<1> SUFFICES ASSUME StreamInv, BackendAnswers
             PROVE  StreamInv'
  OBVIOUS
<1>1. /\ toFront' = Append(toFront, Len(forwarded) - Len(toBackend))
      /\ UNCHANGED <<sent, notified, wire, toBackend, forwarded, toClient, received, up>>
  BY DEF BackendAnswers, unchangedPumps, clientVars
<1>2. AtWork = 1 /\ AtWork' = 0 /\ Answered \in Nat
  BY Lens DEF StreamInv, BackendAnswers, AtWork, Answered
<1>3. Len(forwarded) - Len(toBackend) = (Len(received) + Len(toClient)) + Len(toFront) + 1
  BY <1>2, Lens DEF StreamInv, Answers, Answered
<1>4. /\ toFront' \in Seq(Nat) /\ Len(toFront') = Len(toFront) + 1
      /\ Run(toFront', Len(received) + Len(toClient))
  <2>1. toFront \in Seq(Nat) /\ Len(received) + Len(toClient) \in Nat
    BY Lens DEF StreamInv, Types
  <2>2. Len(forwarded) - Len(toBackend) \in Nat
    BY <1>3, <2>1, Lens DEF StreamInv
  <2>3. Run(toFront, Len(received) + Len(toClient))
    BY DEF StreamInv, Answers
  <2> QED
    BY <1>1, <1>3, <2>1, <2>2, <2>3, RunGrows
<1>5. Types'
  BY <1>1, <1>4 DEF StreamInv, Types
<1>6. Requests'
  BY <1>1 DEF StreamInv, Requests, Run
<1>7. Answered' = Answered + 1
  BY <1>1, <1>4, Lens DEF StreamInv, Answered
<1>8. Answered' + AtWork' = Answered + AtWork
  BY <1>2, <1>7
<1>9. Run(received, 0)' /\ Run(toClient, Len(received))' /\ Run(toFront, Len(received) + Len(toClient))'
  BY <1>1, <1>4 DEF StreamInv, Answers, Run
<1>10. Run(toBackend, Answered + AtWork)' /\ (Answered + AtWork + Len(toBackend) = Len(forwarded))'
  BY <1>1, <1>8 DEF StreamInv, Answers, Run
<1> QED
  BY <1>5, <1>6, <1>9, <1>10 DEF StreamInv, Answers

(* One read of the upward pump: plain is a run, unless a notice is in it.  *)
LEMMA UpReadsKeeps == StreamInv /\ UpReads => StreamInv'
<1> SUFFICES ASSUME StreamInv, UpReads
             PROVE  StreamInv'
  OBVIOUS
<1>1. PICK n \in 1..Len(wire) :
        /\ wire' = SubSeq(wire, n + 1, Len(wire))
        /\ IF CloseNotify \in ToSet(SubSeq(wire, 1, n))
           THEN up' = "returned" /\ UNCHANGED <<toBackend, forwarded>>
           ELSE /\ toBackend' = toBackend \o SubSeq(wire, 1, n)
                /\ forwarded' = forwarded \o SubSeq(wire, 1, n)
  BY DEF UpReads
<1>2. up \in Pumping /\ UNCHANGED <<sent, notified, toFront, toClient, received, backend>>
  BY DEF UpReads, upOnly, Pumping
<1>3. Len(wire) \in Nat /\ n \in Nat /\ n >= 1 /\ n <= Len(wire) /\ Len(forwarded) \in Nat
  BY Lens DEF StreamInv
<1>4. \A i \in 1..Len(wire) : wire[i] \in Nat
  BY ElementOfSeq DEF StreamInv, Types
<1>5. /\ wire' \in Seq(Nat) /\ Len(wire') = Len(wire) - n
      /\ \A i \in 1..Len(wire) - n : wire'[i] = wire[n + i]
  <2>1. n + 1 \in Int /\ Len(wire) \in Int /\ \A i \in (n + 1)..Len(wire) : wire[i] \in Nat
    BY <1>3, <1>4
  <2>2. /\ SubSeq(wire, n + 1, Len(wire)) \in Seq(Nat)
        /\ Len(SubSeq(wire, n + 1, Len(wire))) =
             IF n + 1 <= Len(wire) THEN Len(wire) - (n + 1) + 1 ELSE 0
        /\ \A i \in 1..Len(wire) - (n + 1) + 1 :
             SubSeq(wire, n + 1, Len(wire))[i] = wire[n + 1 + i - 1]
    BY <2>1, SubSeqProperties
  <2>3. /\ Len(wire) - (n + 1) + 1 = Len(wire) - n
        /\ \A i \in 1..Len(wire) - n : n + 1 + i - 1 = n + i
        /\ ~(n + 1 <= Len(wire)) => Len(wire) - n = 0
    BY <1>3
  <2> DEFINE rest == SubSeq(wire, n + 1, Len(wire))
  <2>4. wire' = rest
    BY <1>1
  <2>5. rest \in Seq(Nat) /\ Len(rest) = Len(wire) - n
    BY <2>2, <2>3
  <2>6. \A i \in 1..Len(wire) - n : rest[i] = wire[n + i]
    BY <2>2, <2>3
  <2> HIDE DEF rest
  <2> QED
    BY <2>4, <2>5, <2>6
<1> DEFINE plain == SubSeq(wire, 1, n)
<1>6. /\ plain \in Seq(Nat) /\ Len(plain) = n /\ \A i \in 1..n : plain[i] = wire[i]
  <2>1. 1 \in Int /\ n \in Int /\ \A i \in 1..n : wire[i] \in Nat
    BY <1>3, <1>4
  <2>2. /\ plain \in Seq(Nat) /\ Len(plain) = IF 1 <= n THEN n - 1 + 1 ELSE 0
        /\ \A i \in 1..n - 1 + 1 : plain[i] = wire[1 + i - 1]
    BY <2>1, SubSeqProperties
  <2>3. n - 1 + 1 = n /\ \A i \in 1..n : 1 + i - 1 = i
    BY <1>3
  <2> QED
    BY <1>3, <2>2, <2>3
<1>7. CASE CloseNotify \in ToSet(plain)
  <2>1. up' = "returned" /\ UNCHANGED <<toBackend, forwarded>>
    BY <1>1, <1>7
  <2>2. Types'
    BY <1>2, <1>5, <2>1 DEF StreamInv, Types
  <2>3. Requests'
    BY <1>2, <2>1 DEF StreamInv, Requests, Run, Pumping
  <2>4. Answers'
    BY <1>2, <2>1 DEF StreamInv, Answers, Answered, AtWork, Run
  <2> QED
    BY <2>2, <2>3, <2>4 DEF StreamInv
<1>8. CASE CloseNotify \notin ToSet(plain)
  <2>1. toBackend' = toBackend \o plain /\ forwarded' = forwarded \o plain
    BY <1>1, <1>8
  <2>2. ASSUME NEW i \in 1..n
        PROVE  wire[i] # CloseNotify
    <3>1. DOMAIN plain = 1..n
      BY <1>6, LenProperties
    <3>2. plain[i] \in ToSet(plain)
      BY <3>1 DEF ToSet
    <3> QED
      BY <1>6, <1>8, <3>2
  <2>3. \A i \in 1..n : wire[i] = Len(forwarded) + i /\ Len(forwarded) + i <= sent
    BY <1>2, <1>3, <2>2 DEF StreamInv, Requests
  <2> HIDE DEF plain
  <2>4. Run(plain, Len(forwarded))
    BY <1>6, <2>3 DEF Run
  <2>5. forwarded' \in Seq(Nat) /\ Len(forwarded') = Len(forwarded) + n /\ Run(forwarded', 0)
    <3>1. Run(plain, 0 + Len(forwarded)) /\ Run(forwarded, 0)
      BY <1>3, <2>4 DEF StreamInv, Requests
    <3> QED
      BY <1>6, <2>1, <3>1, RunJoins DEF StreamInv, Types
  <2>6. Answered + AtWork \in Nat
    BY Lens DEF StreamInv, Answered
  <2>7. /\ toBackend' \in Seq(Nat) /\ Len(toBackend') = Len(toBackend) + n
        /\ Run(toBackend', Answered + AtWork)
    <3>1. (Answered + AtWork) + Len(toBackend) = Len(forwarded)
      BY DEF StreamInv, Answers
    <3>2. Run(plain, (Answered + AtWork) + Len(toBackend)) /\ Run(toBackend, Answered + AtWork)
      BY <2>4, <3>1 DEF StreamInv, Answers
    <3> QED
      BY <1>6, <2>1, <2>6, <3>2, RunJoins DEF StreamInv, Types
  <2>8. Types'
    BY <1>2, <1>5, <2>5, <2>7 DEF StreamInv, Types
  <2>9. Len(forwarded') <= sent'
    <3>1. n \in 1..n
      BY <1>3
    <3>2. Len(forwarded) + n <= sent
      BY <2>3, <3>1
    <3> QED
      BY <1>2, <2>5, <3>2
  <2>10. ASSUME NEW i \in 1..Len(wire'), wire'[i] # CloseNotify
         PROVE  wire'[i] = Len(forwarded') + i /\ Len(forwarded') + i <= sent'
    <3>1. n + i \in 1..Len(wire) /\ i \in 1..Len(wire) - n
      BY <1>3, <1>5
    <3>2. wire'[i] = wire[n + i]
      BY <1>5, <3>1
    <3>3. wire[n + i] = Len(forwarded) + (n + i) /\ Len(forwarded) + (n + i) <= sent
      BY <1>2, <2>10, <3>1, <3>2 DEF StreamInv, Requests
    <3> QED
      BY <1>2, <1>3, <2>5, <3>1, <3>2, <3>3
  <2>11. ASSUME ~notified'
         PROVE  Len(forwarded') + Len(wire') = sent'
    <3>1. Len(forwarded) + Len(wire) = sent
      BY <1>2, <2>11 DEF StreamInv, Requests
    <3> QED
      BY <1>2, <1>3, <1>5, <2>5, <3>1
  <2>12. Requests'
    BY <2>5, <2>9, <2>10, <2>11 DEF Requests
  <2>13. Answered' = Answered /\ AtWork' = AtWork
    BY <1>2 DEF Answered, AtWork
  <2>14. (Answered + AtWork + Len(toBackend) = Len(forwarded))'
    <3>1. Answered + AtWork + Len(toBackend) = Len(forwarded)
      BY DEF StreamInv, Answers
    <3>2. Len(toBackend) \in Nat /\ Len(forwarded) \in Nat /\ n \in Nat
      BY <1>3, Lens DEF StreamInv
    <3>3. Len(toBackend') = Len(toBackend) + n /\ Len(forwarded') = Len(forwarded) + n
      BY <2>5, <2>7
    <3>4. Answered' + AtWork' = Answered + AtWork
      BY <2>13
    <3> QED
      BY <2>6, <3>1, <3>2, <3>3, <3>4
  <2>15. Run(received, 0)' /\ Run(toClient, Len(received))' /\ Run(toFront, Len(received) + Len(toClient))'
    BY <1>2 DEF StreamInv, Answers, Run
  <2>16. Answers'
    BY <2>7, <2>13, <2>14, <2>15 DEF Answers
  <2> QED
    BY <2>8, <2>12, <2>16 DEF StreamInv
<1> QED
  BY <1>7, <1>8

LEMMA StreamStep == StreamInv /\ [RelayNext]_relayVars => StreamInv'
<1> SUFFICES ASSUME StreamInv, [RelayNext]_relayVars
             PROVE  StreamInv'
  OBVIOUS
<1>1. CASE ClientSends
  <2>1. sent \in Nat /\ sent' = sent + 1 /\ wire' = Append(wire, sent + 1) /\ ~notified
        /\ UNCHANGED <<toBackend, forwarded, toFront, toClient, received, up, backend>>
    BY <1>1 DEF ClientSends, unchangedFront, StreamInv, Types
  <2>2. sent + 1 \in Nat /\ sent' \in Nat /\ sent <= sent' /\ sent + 1 # CloseNotify
    BY <2>1 DEF CloseNotify
  <2> QED
    BY <2>1, <2>2, WireGrows
<1>2. CASE ClientNotifies
  <2>1. sent \in Nat /\ sent' = sent /\ wire' = Append(wire, CloseNotify) /\ ~notified /\ notified'
        /\ UNCHANGED <<toBackend, forwarded, toFront, toClient, received, up, backend>>
    BY <1>2 DEF ClientNotifies, unchangedFront, StreamInv, Types
  <2>2. CloseNotify \in Nat /\ sent' \in Nat /\ sent <= sent'
    BY <2>1 DEF CloseNotify
  <2> QED
    BY <2>1, <2>2, WireGrows
<1>3. CASE ClientReads
  BY <1>3, ClientReadsKeeps
<1>4. CASE BackendTakes
  BY <1>4, BackendTakesKeeps
<1>5. CASE BackendAnswers
  BY <1>5, BackendAnswersKeeps
<1>6. CASE UpReads
  BY <1>6, UpReadsKeeps
<1>7. CASE DownReads
  BY <1>7, DownReadsKeeps
<1>8. CASE ClientCloses \/ ClientResets \/ BackendCloses
  BY <1>8, Quiet DEF ClientCloses, ClientResets, BackendCloses,
                     unchangedFront, unchangedPumps, clientVars, AtWork
<1>9. CASE UpDrains \/ UpEnds
  BY <1>9, Quiet DEF UpDrains, UpEnds, upOnly, AtWork, Pumping
<1>10. CASE DownDrains \/ DownEnds
  BY <1>10, Quiet DEF DownDrains, DownEnds, downOnly, clientVars, AtWork
<1>11. CASE SessionEnds \/ BackendConnectionCloses
  BY <1>11, Quiet DEF SessionEnds, BackendConnectionCloses, clientVars, backendVars,
                      AtWork, Pumping, Ends
<1>12. CASE UNCHANGED relayVars
  BY <1>12, Quiet DEF relayVars, clientVars, backendVars, AtWork
<1> QED
  BY <1>1, <1>2, <1>3, <1>4, <1>5, <1>6, <1>7, <1>8, <1>9, <1>10, <1>11, <1>12 DEF RelayNext

-----------------------------------------------------------------------------
(* From consecutive numbers to the order the property speaks of.           *)

LEMMA RunIsFirstN ==
  ASSUME NEW s \in Seq(Nat), Run(s, 0)
  PROVE  s = FirstN(Len(s))
<1>1. Len(s) \in Nat /\ s \in [1..Len(s) -> Nat]
  BY LenProperties
<1>2. ASSUME NEW i \in 1..Len(s)
      PROVE  s[i] = i
  BY <1>1 DEF Run
<1> QED
  BY <1>1, <1>2 DEF FirstN

LEMMA ReverseOfRun ==
  ASSUME NEW s \in Seq(Nat), NEW a \in Nat, Run(s, a)
  PROVE  /\ Reverse(s) \in Seq(Nat) /\ Len(Reverse(s)) = Len(s)
         /\ \A i \in 1..Len(s) : Reverse(s)[i] = a + Len(s) - i + 1
<1>1. Len(s) \in Nat
  BY LenProperties
<1>2. ASSUME NEW i \in 1..Len(s)
      PROVE  s[(Len(s) - i) + 1] = a + Len(s) - i + 1 /\ s[(Len(s) - i) + 1] \in Nat
  <2>1. (Len(s) - i) + 1 \in 1..Len(s)
    BY <1>1
  <2>2. s[(Len(s) - i) + 1] = a + ((Len(s) - i) + 1)
    BY <2>1 DEF Run
  <2> QED
    BY <1>1, <2>1, <2>2
<1>3. Reverse(s) \in [1..Len(s) -> Nat]
  BY <1>2 DEF Reverse
<1>4. Reverse(s) \in Seq(Nat) /\ Len(Reverse(s)) = Len(s)
  BY <1>1, <1>3
<1> QED
  BY <1>2, <1>4 DEF Reverse

LEMMA EndOfRun ==
  ASSUME NEW s \in Seq(Nat), NEW t \in Seq(Nat), NEW a \in Nat,
         Run(s, a), Run(t, 0), a + Len(s) = Len(t)
  PROVE  IsSuffix(s, t)
<1> DEFINE rs == Reverse(s)
           rt == Reverse(t)
<1>1. Len(s) \in Nat /\ Len(t) \in Nat /\ Len(s) <= Len(t)
  BY LenProperties
<1>2. /\ rs \in Seq(Nat) /\ Len(rs) = Len(s)
      /\ \A i \in 1..Len(s) : rs[i] = Len(t) - i + 1
  <2>1. /\ rs \in Seq(Nat) /\ Len(rs) = Len(s)
        /\ \A i \in 1..Len(s) : rs[i] = a + Len(s) - i + 1
    BY ReverseOfRun
  <2>2. \A i \in 1..Len(s) : a + Len(s) - i + 1 = Len(t) - i + 1
    OBVIOUS
  <2> HIDE DEF rs, rt
  <2> QED
    BY <2>1, <2>2
<1>3. /\ rt \in Seq(Nat) /\ Len(rt) = Len(t)
      /\ \A i \in 1..Len(t) : rt[i] = Len(t) - i + 1
  <2>1. /\ rt \in Seq(Nat) /\ Len(rt) = Len(t)
        /\ \A i \in 1..Len(t) : rt[i] = 0 + Len(t) - i + 1
    BY ReverseOfRun
  <2> QED
    BY <1>1, <2>1
<1> HIDE DEF rs, rt
<1>4. ASSUME NEW i \in 1..Len(s)
      PROVE  rs[i] \in Nat /\ rt[i] \in Nat /\ rs[i] = rt[i]
  <2>1. i \in 1..Len(t) /\ Len(t) - i + 1 \in Nat
    BY <1>1
  <2>2. rs[i] = Len(t) - i + 1
    BY <1>2
  <2>3. rt[i] = Len(t) - i + 1
    BY <1>3, <2>1
  <2> QED
    BY <2>1, <2>2, <2>3
<1> DEFINE front(r) == SubSeq(r, 1, Len(s))
<1>5. /\ front(rs) \in Seq(Nat) /\ Len(front(rs)) = IF 1 <= Len(s) THEN Len(s) - 1 + 1 ELSE 0
      /\ \A i \in 1..Len(s) - 1 + 1 : front(rs)[i] = rs[1 + i - 1]
  BY <1>1, <1>4, SubSeqProperties
<1>6. /\ front(rt) \in Seq(Nat) /\ Len(front(rt)) = IF 1 <= Len(s) THEN Len(s) - 1 + 1 ELSE 0
      /\ \A i \in 1..Len(s) - 1 + 1 : front(rt)[i] = rt[1 + i - 1]
  BY <1>1, <1>4, SubSeqProperties
<1> HIDE DEF front
<1>7. \A i \in 1..Len(front(rs)) : i \in 1..Len(s) - 1 + 1 /\ i \in 1..Len(s) /\ 1 + i - 1 = i
  BY <1>1, <1>5
<1>8. front(rs) = front(rt)
  <2>1. \A i \in 1..Len(front(rs)) : front(rs)[i] = front(rt)[i]
    BY <1>4, <1>5, <1>6, <1>7
  <2>2. Len(front(rs)) = Len(front(rt))
    BY <1>5, <1>6
  <2> QED
    BY <1>5, <1>6, <2>1, <2>2, SeqEqual
<1> QED
  BY <1>1, <1>2, <1>3, <1>8 DEF IsSuffix, IsPrefix, rs, rt, front

LEMMA InvOrders == StreamInv => RelayedInOrder
<1> SUFFICES ASSUME StreamInv
             PROVE  RelayedInOrder
  OBVIOUS
<1>1. Types /\ Requests /\ Answers
  BY DEF StreamInv
<1>2. forwarded = FirstN(Len(forwarded)) /\ Len(forwarded) <= sent
  BY <1>1, RunIsFirstN DEF Types, Requests
<1>3. Answered + AtWork \in Nat
  BY <1>1, Lens DEF Answered
<1>4. IsSuffix(toBackend, forwarded)
  BY <1>1, <1>3, EndOfRun DEF Types, Requests, Answers
<1> DEFINE taken == received \o toClient
           answers == received \o toClient \o toFront
<1>5. taken \in Seq(Nat) /\ Len(taken) = Len(received) + Len(toClient) /\ Run(taken, 0)
  <2>1. Run(toClient, 0 + Len(received))
    BY <1>1, Lens DEF Answers
  <2> QED
    BY <1>1, <2>1, RunJoins DEF Types, Answers
<1>6. answers \in Seq(Nat) /\ Len(answers) = Answered /\ Run(answers, 0)
  <2> HIDE DEF taken
  <2>1. Run(toFront, 0 + Len(taken))
    BY <1>1, <1>5, Lens DEF Answers
  <2>2. /\ taken \o toFront \in Seq(Nat) /\ Len(taken \o toFront) = Len(taken) + Len(toFront)
        /\ Run(taken \o toFront, 0)
    BY <1>1, <1>5, <2>1, RunJoins DEF Types
  <2> QED
    BY <1>5, <2>2 DEF taken, Answered
<1> HIDE DEF answers
<1>7. answers = FirstN(Len(answers))
  BY <1>6, RunIsFirstN
<1>8. Len(answers) + Len(toBackend) <= Len(forwarded)
  <2>1. Len(toBackend) \in Nat /\ Len(forwarded) \in Nat /\ AtWork \in Nat /\ Answered \in Nat
    BY <1>1, Lens DEF Answered
  <2>2. Answered + AtWork + Len(toBackend) = Len(forwarded)
    BY <1>1 DEF Answers
  <2> QED
    BY <1>6, <2>1, <2>2
<1> QED
  BY <1>2, <1>4, <1>7, <1>8 DEF RelayedInOrder, answers

(* Both pumps keep the order: for any buffer size and any number of        *)
(* requests, whatever is read in one go, wherever a pump waits or is       *)
(* cancelled, and however either side ends, the sensor is given the        *)
(* client's requests from the first on without gap or repetition, and the  *)
(* k-th answer the client takes is the answer to its k-th request.         *)
THEOREM RelayedInOrderAlways == RelaySpec => []RelayedInOrder
<1>1. RelaySpec => []StreamInv
  BY StreamInit, StreamStep, PTL DEF RelaySpec
<1> QED
  BY <1>1, InvOrders, PTL

=============================================================================
