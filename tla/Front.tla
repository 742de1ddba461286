------------------------------- MODULE Front --------------------------------
(***************************************************************************)
(* Front of tlsfront.py: from the accepted connection to its one record in *)
(* the event log.  handle() refuses a connection over the cap, otherwise   *)
(* runs the stages of _session() - read the ClientHello, complete the      *)
(* handshake, connect to the sensor, relay - any of which may end it.      *)
(* Whatever does, handle() gives the slot back, closes the socket and      *)
(* writes the record.                                                      *)
(*                                                                         *)
(* What a relay does, and when it ends, is the business of Relay.          *)
(***************************************************************************)
EXTENDS Naturals, FiniteSets

CONSTANTS
  Connections,     \* the connections clients open
  MaxConnections   \* max_connections

ASSUME ConstantsOK ==
  /\ IsFiniteSet(Connections)
  /\ MaxConnections \in Nat

VARIABLES
  stage,    \* where handle(c) is
  info,     \* the dict of handle(c), as far as properties tell it apart
  active,   \* self.active
  records,  \* records[c]: how many records were written for c
  fate      \* history: the stage _session() of c ended in, and what ended it

vars == <<stage, info, active, records, fate>>

(* "refusing" and "closing" wait in _close(), the first outside the `try`; *)
(* "connecting" is between the handshake and the relay.                    *)
InSession == {"hello", "handshake", "connecting", "relay"}
Stages == {"absent", "refusing", "closing", "done"} \union InSession

Fresh == [error |-> "none", handshake_ok |-> FALSE, ja4 |-> FALSE, phase |-> "hello"]
Timeout(phase) ==
  CASE phase = "hello" -> "hello_timeout"
    [] phase = "handshake" -> "handshake_timeout"
    [] phase = "idle" -> "idle_timeout"
Causes == {"none", "timeout", "reset", "ssl", "exception",
           "no_data", "not_tls", "closed_in_handshake"}

Init ==
  /\ stage = [c \in Connections |-> "absent"]
  /\ info = [c \in Connections |-> Fresh]
  /\ active = 0
  /\ records = [c \in Connections |-> 0]
  /\ fate = [c \in Connections |-> [at |-> "absent", by |-> "none"]]

To(c, s) == stage' = [stage EXCEPT ![c] = s]

-----------------------------------------------------------------------------
(* handle(): the cap is tested and the slot taken with no await between.   *)

\* Mutation: the slot is taken only once the ClientHello is there.
LateSlotAccept(c) ==
  /\ stage[c] = "absent"
  /\ IF Cardinality({d \in Connections : stage[d] \in InSession \ {"hello"}}) >= MaxConnections
     THEN To(c, "refusing") /\ UNCHANGED active
          /\ info' = [info EXCEPT ![c].error = "over_capacity"]
     ELSE To(c, "hello") /\ active' = active + 1 /\ UNCHANGED info
  /\ UNCHANGED <<records, fate>>

Accept(c) ==
  /\ stage[c] = "absent"
  /\ IF active >= MaxConnections
     THEN /\ To(c, "refusing")
          /\ info' = [info EXCEPT ![c].error = "over_capacity"]
          /\ UNCHANGED active
     ELSE /\ To(c, "hello")
          /\ active' = active + 1
          /\ UNCHANGED info
  /\ UNCHANGED <<records, fate>>

(* _session() of c is over: by a plain return, which leaves the error that *)
(* it set, or by an exception, which handle() turns into one.  A timeout   *)
(* is named after the phase on file and replaces an earlier error; a reset *)
(* and an SSL error do not.                                                *)
ErrorAfter(c, cause) ==
  CASE cause = "timeout" -> Timeout(info[c].phase)
    [] cause = "exception" -> "exception"
    [] cause \in {"reset", "ssl"} /\ info[c].error # "none" -> info[c].error
    [] OTHER -> cause

SessionOver(c, cause) ==
  /\ To(c, "closing")
  /\ active' = active - 1
  /\ info' = [info EXCEPT ![c].error = ErrorAfter(c, cause)]
  /\ fate' = [fate EXCEPT ![c] = [at |-> stage[c], by |-> cause]]
  /\ UNCHANGED records

\* Mutation: a refused connection leaves no record.
CloseUnrecorded(c) ==
  /\ stage[c] \in {"refusing", "closing"}
  /\ To(c, "done")
  /\ records' = [records EXCEPT ![c] = IF stage[c] = "refusing" THEN 0 ELSE 1]
  /\ UNCHANGED <<info, active, fate>>

(* _close(), bounded by two seconds, and _emit().                          *)
CloseAndRecord(c) ==
  /\ stage[c] \in {"refusing", "closing"}
  /\ To(c, "done")
  /\ records' = [records EXCEPT ![c] = @ + 1]
  /\ UNCHANGED <<info, active, fate>>

-----------------------------------------------------------------------------
(* _session(), stage by stage.                                             *)

(* The ClientHello: fingerprinted, or nothing came, or it is something     *)
(* else; the on_hello callback may raise in either of the last cases.      *)
HelloRead(c) ==
  /\ stage[c] = "hello"
  /\ To(c, "handshake")
  /\ info' = [info EXCEPT ![c] = [@ EXCEPT !.ja4 = TRUE, !.phase = "handshake"]]
  /\ UNCHANGED <<active, records, fate>>

HelloEnds(c) ==
  /\ stage[c] = "hello"
  /\ \E cause \in {"no_data", "not_tls", "timeout", "reset", "exception"} : SessionOver(c, cause)

\* Mutation: the phase on file is not moved on after the handshake.
HandshakeKeepsPhase(c) ==
  /\ stage[c] = "handshake"
  /\ To(c, "connecting")
  /\ info' = [info EXCEPT ![c] = [@ EXCEPT !.handshake_ok = TRUE]]
  /\ UNCHANGED <<active, records, fate>>

HandshakeCompletes(c) ==
  /\ stage[c] = "handshake"
  /\ To(c, "connecting")
  /\ info' = [info EXCEPT ![c] = [@ EXCEPT !.handshake_ok = TRUE, !.phase = "idle"]]
  /\ UNCHANGED <<active, records, fate>>

HandshakeEnds(c) ==
  /\ stage[c] = "handshake"
  /\ \E cause \in {"closed_in_handshake", "timeout", "reset", "ssl", "exception"} :
       SessionOver(c, cause)

(* What is left of the handshake is written, and the sensor's socket opened. *)
Connects(c) ==
  /\ stage[c] = "connecting"
  /\ To(c, "relay")
  /\ UNCHANGED <<info, active, records, fate>>

ConnectFails(c) ==
  /\ stage[c] = "connecting"
  /\ \E cause \in {"reset", "exception"} : SessionOver(c, cause)

(* A pump's reset or SSL error is not an error of the session; its idle    *)
(* timeout, and anything unexpected, is.                                   *)
RelayEnds(c) ==
  /\ stage[c] = "relay"
  /\ \E cause \in {"none", "timeout", "exception"} : SessionOver(c, cause)

Next ==
  \E c \in Connections :
    \/ Accept(c) \/ CloseAndRecord(c)
    \/ HelloRead(c) \/ HelloEnds(c)
    \/ HandshakeCompletes(c) \/ HandshakeEnds(c)
    \/ Connects(c) \/ ConnectFails(c)
    \/ RelayEnds(c)

(* Hello and handshake have a timer each, _close() has one, and connecting *)
(* to a local socket ends.  Nothing makes a relay end: its idle timeout is *)
(* that of a read, a client may keep sending, and neither drain() nor      *)
(* wait_closed() has a timer (Relay).                                      *)
Fairness ==
  \A c \in Connections :
    /\ WF_vars(HelloRead(c) \/ HelloEnds(c))
    /\ WF_vars(HandshakeCompletes(c) \/ HandshakeEnds(c))
    /\ WF_vars(Connects(c) \/ ConnectFails(c))
    /\ WF_vars(CloseAndRecord(c))

Spec == Init /\ [][Next]_vars
FairSpec == Spec /\ Fairness

-----------------------------------------------------------------------------
(* Properties.                                                             *)

Errors == Causes \union {"over_capacity", "hello_timeout", "handshake_timeout", "idle_timeout"}

TypeOK ==
  /\ stage \in [Connections -> Stages]
  /\ info \in [Connections -> [error : Errors, handshake_ok : BOOLEAN, ja4 : BOOLEAN,
                               phase : {"hello", "handshake", "idle"}]]
  /\ active \in Nat
  /\ records \in [Connections -> 0..1]
  /\ fate \in [Connections -> [at : {"absent"} \union InSession, by : Causes]]

(* The counter is the number of sessions running, and never over the cap.  *)
SlotsExact ==
  /\ active = Cardinality({c \in Connections : stage[c] \in InSession})
  /\ active <= MaxConnections

(* A finished connection has one record, and the record tells what became  *)
(* of it: no error exactly when a relay ended quietly, a handshake exactly *)
(* when one was completed, and a timeout named after the stage it struck.  *)
RecordTellsFate ==
  \A c \in Connections : stage[c] = "done" =>
    /\ records[c] = 1
    /\ info[c].error = "none" <=> fate[c] = [at |-> "relay", by |-> "none"]
    /\ info[c].handshake_ok <=> fate[c].at \in {"connecting", "relay"}
    /\ info[c].error = "hello_timeout" <=> fate[c] = [at |-> "hello", by |-> "timeout"]
    /\ info[c].error = "handshake_timeout" <=> fate[c] = [at |-> "handshake", by |-> "timeout"]
    /\ info[c].error = "over_capacity" <=> fate[c].at = "absent"

(* Every connection that is accepted gets its record in the end, unless    *)
(* its relay goes on for ever: refused, timed out, failed or relayed to    *)
(* the end, and whatever the other connections do.                         *)
EveryConnectionRecorded ==
  \A c \in Connections :
    stage[c] # "absent" ~> records[c] = 1 \/ [](stage[c] = "relay")

=============================================================================
