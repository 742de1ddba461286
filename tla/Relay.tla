------------------------------- MODULE Relay --------------------------------
(***************************************************************************)
(* The third stage of a TLS session in tlsfront.py: two pumps between a    *)
(* client and the sensor, _to_backend and _to_client.  Each reads from one *)
(* side, with an idle timeout, and writes to the other, waiting without    *)
(* one in drain() when more than Cap units are not yet taken.  The first   *)
(* pump to end ends the relaying, the other is cancelled, and the session  *)
(* is over once the connection to the sensor is closed, which waits, again *)
(* without a timeout, until what it still holds is handed on.              *)
(*                                                                         *)
(* Request n is the n-th the client sends, and a unit of the stream; what  *)
(* becomes of its bytes on the way is the business of Rewriter.  Client    *)
(* and sensor are external.  The names leave those of Front free, so that  *)
(* a module can speak of both.                                             *)
(***************************************************************************)
EXTENDS Naturals, Sequences, SequencesExt

CONSTANTS
  Cap,         \* units a transport buffers before drain() waits
  SocketCap,   \* of these, the units the kernel holds of the sensor's socket
  MaxRequests  \* bound: requests the client sends

ASSUME RelayConstantsOK == Cap \in Nat /\ SocketCap \in 0..Cap /\ MaxRequests \in Nat

CloseNotify == 0   \* the TLS alert of an orderly close, in line with the data

VARIABLES
  sent,        \* how many requests the client has sent
  notified,    \* the client has sent CloseNotify
  client,      \* the client's socket: "open", "closed" or "reset"
  wire,        \* from the client: requests and CloseNotify, not yet read
  toBackend,   \* written to the sensor and not taken by it
  forwarded,   \* history: everything written to the sensor
  backend,     \* the sensor: "reading", "answering" or "closed"
  toFront,     \* answers of the sensor not yet read by the front
  toClient,    \* answers written to the client and not taken by it
  received,    \* history: the answers the client has taken
  up, down,    \* _to_backend and _to_client: "reading", "draining", or how they ended
  session      \* "pumping", "closing" the connection to the sensor, or "over"

clientVars == <<sent, notified, client, wire, received>>
backendVars == <<backend>>
relayVars == <<clientVars, backendVars, toBackend, forwarded, toFront, toClient, up, down, session>>

Ends == {"returned", "timeout", "error", "cancelled"}

RelayInit ==
  /\ sent = 0 /\ notified = FALSE /\ client = "open" /\ wire = <<>>
  /\ toBackend = <<>> /\ forwarded = <<>>
  /\ backend = "reading" /\ toFront = <<>>
  /\ toClient = <<>> /\ received = <<>>
  /\ up = "reading" /\ down = "reading" /\ session = "pumping"

-----------------------------------------------------------------------------
(* The client: it sends, takes answers or lets them pile up, announces the *)
(* end, closes its socket, or vanishes.  Data for a closed socket draws a  *)
(* reset, and a reset makes unread data unreadable.                        *)

unchangedFront == UNCHANGED <<toBackend, forwarded, toFront, up, down, session>>

ClientSends ==
  /\ client = "open" /\ ~notified /\ sent < MaxRequests
  /\ sent' = sent + 1
  /\ wire' = Append(wire, sent')
  /\ UNCHANGED <<notified, client, received, backend, toClient>> /\ unchangedFront

ClientNotifies ==
  /\ client = "open" /\ ~notified
  /\ notified' = TRUE
  /\ wire' = Append(wire, CloseNotify)
  /\ UNCHANGED <<sent, client, received, backend, toClient>> /\ unchangedFront

ClientReads ==
  /\ client = "open" /\ toClient # <<>>
  /\ received' = received \o toClient
  /\ toClient' = <<>>
  /\ UNCHANGED <<sent, notified, client, wire, backend>> /\ unchangedFront

ClientCloses ==
  /\ client = "open"
  /\ client' = "closed"
  /\ UNCHANGED <<sent, notified, wire, received, backend, toClient>> /\ unchangedFront

ClientResets ==
  /\ \/ client = "open"
     \/ client = "closed" /\ toClient # <<>>
  /\ client' = "reset"
  /\ UNCHANGED <<sent, notified, wire, received, backend, toClient>> /\ unchangedFront

-----------------------------------------------------------------------------
(* The sensor: takes a request, answers it when its own transport accepts  *)
(* the answer, and may close an idle connection.                           *)

unchangedPumps == UNCHANGED <<clientVars, forwarded, toClient, up, down, session>>

BackendTakes ==
  /\ backend = "reading" /\ toBackend # <<>>
  /\ backend' = "answering"
  /\ toBackend' = Tail(toBackend)
  /\ UNCHANGED toFront /\ unchangedPumps

BackendAnswers ==
  /\ backend = "answering" /\ Len(toFront) <= Cap
  /\ backend' = "reading"
  /\ toFront' = Append(toFront, Len(forwarded) - Len(toBackend))
  /\ UNCHANGED toBackend /\ unchangedPumps

BackendCloses ==
  /\ backend = "reading"
  /\ backend' = "closed"
  /\ UNCHANGED <<toBackend, toFront>> /\ unchangedPumps

-----------------------------------------------------------------------------
(* _to_backend(): one read, everything it decrypts, one write.             *)

upOnly == UNCHANGED <<sent, notified, client, received, backend, toFront, toClient, down, session>>

\* Mutation: the plaintext of a read that leaves a record unfinished is forgotten.
UpReadsLast ==
  /\ session = "pumping" /\ up = "reading" /\ client # "reset"
  /\ \E n \in 1..Len(wire) :
       LET plain == SubSeq(wire, 1, n) IN
       /\ wire' = SubSeq(wire, n + 1, Len(wire))
       /\ IF CloseNotify \in ToSet(plain)
          THEN up' = "returned" /\ UNCHANGED <<toBackend, forwarded>>
          ELSE /\ toBackend' = Append(toBackend, Last(plain))
               /\ forwarded' = Append(forwarded, Last(plain))
               /\ up' = IF Len(toBackend') > Cap THEN "draining" ELSE "reading"
  /\ upOnly

(* A read returns any amount of what is there.  If it decrypts to a close  *)
(* notice the pump returns at once, and the requests decrypted in front of *)
(* it in the same round are forwarded no more.                             *)
UpReads ==
  /\ session = "pumping" /\ up = "reading" /\ client # "reset"
  /\ \E n \in 1..Len(wire) :
       LET plain == SubSeq(wire, 1, n) IN
       /\ wire' = SubSeq(wire, n + 1, Len(wire))
       /\ IF CloseNotify \in ToSet(plain)
          THEN up' = "returned" /\ UNCHANGED <<toBackend, forwarded>>
          ELSE /\ toBackend' = toBackend \o plain
               /\ forwarded' = forwarded \o plain
               /\ up' = IF Len(toBackend') > Cap THEN "draining" ELSE "reading"
  /\ upOnly

(* drain() returns when the sensor took enough, and raises when it is gone. *)
UpDrains ==
  /\ session = "pumping" /\ up = "draining"
  /\ \/ Len(toBackend) <= Cap /\ up' = "reading"
     \/ backend = "closed" /\ up' = "error"
  /\ UNCHANGED <<wire, toBackend, forwarded>> /\ upOnly

UpEnds ==
  /\ session = "pumping" /\ up = "reading"
  /\ \/ client = "closed" /\ wire = <<>> /\ up' = "returned"
     \/ client = "reset" /\ up' = "error"
     \/ client = "open" /\ wire = <<>> /\ up' = "timeout"
  /\ UNCHANGED <<wire, toBackend, forwarded>> /\ upOnly

-----------------------------------------------------------------------------
(* _to_client().                                                           *)

downOnly == UNCHANGED <<clientVars, backend, toBackend, forwarded, up, session>>

DownReads ==
  /\ session = "pumping" /\ down = "reading" /\ toFront # <<>>
  /\ toFront' = <<>>
  /\ toClient' = toClient \o toFront
  /\ down' = IF Len(toClient') > Cap THEN "draining" ELSE "reading"
  /\ downOnly

\* Mutation: a reset of the client does not wake a pump that waits in drain().
DownDrainsOnly ==
  /\ session = "pumping" /\ down = "draining"
  /\ Len(toClient) <= Cap /\ down' = "reading"
  /\ UNCHANGED <<toFront, toClient>> /\ downOnly

\* Mutation: the pump resumes strictly below the mark instead of at it.
DownDrainsBelow ==
  /\ session = "pumping" /\ down = "draining"
  /\ \/ Len(toClient) < Cap /\ down' = "reading"
     \/ client = "reset" /\ down' = "error"
  /\ UNCHANGED <<toFront, toClient>> /\ downOnly

DownDrains ==
  /\ session = "pumping" /\ down = "draining"
  /\ \/ Len(toClient) <= Cap /\ down' = "reading"
     \/ client = "reset" /\ down' = "error"
  /\ UNCHANGED <<toFront, toClient>> /\ downOnly

DownEnds ==
  /\ session = "pumping" /\ down = "reading" /\ toFront = <<>>
  /\ \/ backend = "closed" /\ down' = "returned"
     \/ backend # "closed" /\ down' = "timeout"
  /\ UNCHANGED <<toFront, toClient>> /\ downOnly

-----------------------------------------------------------------------------
(* asyncio.wait(..., FIRST_COMPLETED), the cancellation and the gather,    *)
(* and backend_writer.close(): nothing more is read from the sensor.       *)
SessionEnds ==
  /\ session = "pumping" /\ (up \in Ends \/ down \in Ends)
  /\ session' = "closing"
  /\ up' = IF up \in Ends THEN up ELSE "cancelled"
  /\ down' = IF down \in Ends THEN down ELSE "cancelled"
  /\ UNCHANGED <<clientVars, backendVars, toBackend, forwarded, toFront, toClient>>

(* wait_closed(): the transport has handed all it holds to the kernel, or  *)
(* the sensor is gone and the rest is thrown away.                         *)
HandedOn == Len(toBackend) <= SocketCap \/ backend = "closed"

BackendConnectionCloses ==
  /\ session = "closing" /\ HandedOn
  /\ session' = "over"
  /\ UNCHANGED <<clientVars, backendVars, toBackend, forwarded, toFront, toClient, up, down>>

RelayNext ==
  \/ ClientSends \/ ClientNotifies \/ ClientReads \/ ClientCloses \/ ClientResets
  \/ BackendTakes \/ BackendAnswers \/ BackendCloses
  \/ UpReads \/ UpDrains \/ UpEnds
  \/ DownReads \/ DownDrains \/ DownEnds
  \/ SessionEnds \/ BackendConnectionCloses

(* The loop runs both pumps and the handler, a silent side trips the idle  *)
(* timeout, and the kernel reports data for a closed socket as a reset.    *)
(* Neither client nor sensor has to do anything.                           *)
RelayFairness ==
  /\ WF_relayVars(UpReads \/ UpDrains \/ UpEnds)
  /\ WF_relayVars(DownReads \/ DownDrains \/ DownEnds)
  /\ WF_relayVars(SessionEnds \/ BackendConnectionCloses)
  /\ WF_relayVars(client = "closed" /\ ClientResets)

RelaySpec == RelayInit /\ [][RelayNext]_relayVars
FairRelaySpec == RelaySpec /\ RelayFairness

(* The sensor's own scheduling, and a client that takes its answers.       *)
ServedFairly == WF_relayVars(BackendTakes \/ BackendAnswers) /\ WF_relayVars(ClientReads)

-----------------------------------------------------------------------------
(* Properties.                                                             *)

FirstN(n) == [i \in 1..n |-> i]

(* Both streams are relayed in order, without gap or repetition, and the   *)
(* sensor is never more than one read ahead of what it was given: so the   *)
(* k-th answer a client takes is the answer to its k-th request.           *)
RelayedInOrder ==
  /\ forwarded = FirstN(Len(forwarded)) /\ Len(forwarded) <= sent
  /\ IsSuffix(toBackend, forwarded)
  /\ LET answers == received \o toClient \o toFront IN
     /\ answers = FirstN(Len(answers))
     /\ Len(answers) + Len(toBackend) <= Len(forwarded)

(* Once the client or the sensor is gone the relaying ends, whatever the   *)
(* other pump was waiting for at that moment.  The session itself is then  *)
(* over if it was the sensor that went; if it was the client, it is over   *)
(* unless the sensor stays and never takes what is still held for it:      *)
(* nothing else bounds wait_closed().                                      *)
GoneEndsSession ==
  /\ client # "open" \/ backend = "closed" ~> session # "pumping"
  /\ backend = "closed" ~> session = "over"
  /\ client # "open" ~> session = "over" \/ []~HandedOn

(* With a client that takes its answers, every forwarded request is        *)
(* answered to the client, or the relaying ends: the two flow controls     *)
(* never wait for each other for good.                                     *)
EveryRequestAnswered ==
  ServedFairly =>
    \A n \in 1..MaxRequests :
      Len(forwarded) >= n ~> Len(received) >= n \/ session # "pumping"

(* The claim that the front "forwards plaintext to the sensor": a client   *)
(* that ends its stream in order has all its requests forwarded.           *)
OrderlyCloseForwardsAll == up = "returned" => Len(forwarded) = sent

=============================================================================
