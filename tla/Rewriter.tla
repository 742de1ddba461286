------------------------------ MODULE Rewriter ------------------------------
(***************************************************************************)
(* RequestRewriter of tlsfront.py: the plaintext of one keep-alive         *)
(* connection goes through it in whatever pieces it was read, and the head *)
(* of every request on it is stamped with the front's headers.             *)
(*                                                                         *)
(* A stream is a sequence of lines, each with its line end, or of parts    *)
(* that come before the end of a long one; they are the unit of every      *)
(* length and limit here.  The body of a request is made of the same lines *)
(* as a head, so losing track of where a body ends would stamp the wrong   *)
(* line.                                                                   *)
(***************************************************************************)
EXTENDS Naturals, Sequences, SequencesExt, FiniteSets, FiniteSetsExt

CONSTANTS
  Streams,    \* what clients may send: sequences of requests, see Wire
  HeadLimit,  \* HEAD_LIMIT
  LineLimit   \* LINE_LIMIT

(* The lines.                                                              *)
Request == <<"request">>          \* a request line
Header == <<"header">>            \* a header or trailer without meaning here
Forged == <<"forged">>            \* a client's own copy of a header we inject
Blank == <<"blank">>              \* an empty line
Length(n) == <<"length", n>>      \* Content-Length: n
Coding(c) == <<"coding", c>>      \* Transfer-Encoding: c
Size(n) == <<"size", n>>          \* a chunk-size line that int(..., 16) reads as n
Garbage == <<"garbage">>          \* one it refuses
Part == <<"part">>                \* a stretch of a line that does not end it
HalfEnd == <<"cr">>               \* the line end after a chunk, when it comes in halves
OtherHalf == <<"lf">>
Stamp == <<"stamp">>              \* the headers inject_headers() adds

Lines ==
  {Request, Header, Forged, Blank, Garbage, Part, HalfEnd, OtherHalf, Stamp}
    \union ({"length", "size"} \X Nat) \union ({"coding"} \X STRING)

VARIABLES
  stream,     \* the requests this client sends
  fed,        \* how many of their lines were fed so far
  feeding,    \* feed() is running
  state,      \* self.state
  buffer,     \* self.buffer
  remaining,  \* self.remaining
  out         \* everything feed() returned, and will return of this call

vars == <<stream, fed, feeding, state, buffer, remaining, out>>

-----------------------------------------------------------------------------
(* The stream: a request is a head, its blank line, and the lines after.   *)

Wire(messages) == FlattenSeq([i \in DOMAIN messages |->
                                messages[i].head \o <<Blank>> \o messages[i].body])

(* How RFC 9112 delimits a body.                                           *)
Coded(m) == \E line \in ToSet(m.head) : line[1] = "coding"

ChunkedLast(m) ==
  \E i \in DOMAIN m.head :
    /\ m.head[i] = Coding("chunked")
    /\ \A j \in (i + 1)..Len(m.head) : m.head[j][1] # "coding"

Announced(m) == {line \in ToSet(m.head) : line[1] = "length"}

(* The chunked framing: what a line leads to, and whether a body ends it   *)
(* or breaks it.  A line that came in parts is what its last part says.  A *)
(* size is what int() makes of the text: it takes 0x5, +5 and 1_0 too,     *)
(* which are no sizes to RFC 9112, and they count as sizes here.           *)
At(place) == [place |-> place, left |-> 0]

Chunk(at, line) ==
  CASE at.place = "size" /\ line[1] = "size" ->
         IF line = Size(0) THEN At("trailers") ELSE [place |-> "data", left |-> line[2]]
    [] at.place = "data" ->
         IF at.left = 1 THEN At("end") ELSE [place |-> "data", left |-> at.left - 1]
    [] at.place = "end" /\ line = HalfEnd -> At("half")
    [] \/ at.place = "end" /\ line = Blank
       \/ at.place = "half" /\ line = OtherHalf
       \/ at.place = "size" /\ line = Part -> At("size")
    [] at.place = "trailers" /\ line = Blank -> At("done")
    [] at.place \in {"trailers", "long"} /\ line = Part -> At("long")
    [] \/ at.place = "trailers" /\ line \notin {Blank, Part}
       \/ at.place = "long" /\ line # Part -> At("trailers")
    [] at.place \in {"done", "over"} -> At("over")
    [] OTHER -> At("broken")

Chunks(body) ==
  LET at[n \in 0..Len(body)] == IF n = 0 THEN At("size") ELSE Chunk(at[n - 1], body[n])
  IN  at[Len(body)].place

(* A request ends where its framing says, or breaks it.  What comes after  *)
(* a request is the next one, and a request cut short is one that was not  *)
(* fed to its end.  An empty line may come before the request line (RFC    *)
(* 9112 2.2): it is then the first line of the head, and a second one ends *)
(* it, so that the two are a head of their own.                            *)
Framed(m) ==
  /\ m.head # <<>> /\ m.head[1] \in {Request, Blank}
  /\ \A i \in DOMAIN m.head : i > 1 => m.head[i] # Blank
  /\ CASE Coded(m) -> ChunkedLast(m) => Chunks(m.body) \in {"done", "broken"}
       [] ~Coded(m) /\ Announced(m) = {} -> m.body = <<>>
       [] OTHER -> \A line \in Announced(m) :
                     Announced(m) = {line} => Len(m.body) = line[2]

ASSUME ConstantsOK ==
  /\ HeadLimit \in Nat \ {0}
  /\ LineLimit \in Nat \ {0}
  /\ \A messages \in Streams :
       /\ messages \in Seq([head : Seq(Lines), body : Seq(Lines)])
       /\ \A i \in DOMAIN messages : Framed(messages[i])

(* The lines that are none of these.                                       *)
Without(lines, those) ==
  LET rest[n \in 0..Len(lines)] ==
        IF n = 0 THEN <<>>
        ELSE IF lines[n] \in those THEN rest[n - 1] ELSE Append(rest[n - 1], lines[n])
  IN  rest[Len(lines)]

-----------------------------------------------------------------------------
(* inject_headers() and _body_framing().                                   *)

Strip(headers) == Without(headers, {Forged})

(* Our headers go in after the first line, even if that is an empty one    *)
(* before the request line; a head of one line has no line end to put them *)
(* after, and is left as it is.                                            *)
Inject(head) ==
  LET kept == Strip(Tail(head)) IN
  IF kept = <<>> THEN <<head[1]>> ELSE <<head[1], Stamp>> \o kept

(* Transfer-Encoding beats Content-Length, and its last coding decides.    *)
Codings(head) == Without(head, {line \in ToSet(head) : line[1] # "coding"})
Lengths(head) == {line \in ToSet(head) : line[1] = "length"}

\* Mutation: Content-Length is believed although the body is chunked.
LengthFirst(head) ==
  IF Cardinality(Lengths(head)) = 1
  THEN [kind |-> "length", length |-> (CHOOSE line \in Lengths(head) : TRUE)[2]]
  ELSE IF Codings(head) # <<>> THEN [kind |-> "chunked", length |-> 0]
  ELSE [kind |-> "none", length |-> 0]

Framing(head) ==
  CASE Codings(head) # <<>> ->
         [kind |-> IF Last(Codings(head)) = Coding("chunked") THEN "chunked" ELSE "unknown",
          length |-> 0]
    [] Codings(head) = <<>> /\ Lengths(head) = {} -> [kind |-> "none", length |-> 0]
    [] Codings(head) = <<>> /\ Cardinality(Lengths(head)) = 1 ->
         [kind |-> "length", length |-> (CHOOSE line \in Lengths(head) : TRUE)[2]]
    [] OTHER -> [kind |-> "unknown", length |-> 0]

-----------------------------------------------------------------------------
Init ==
  /\ stream \in Streams
  /\ fed = 0 /\ feeding = FALSE
  /\ state = "head" /\ buffer = <<>> /\ remaining = 0
  /\ out = <<>>

(* feed(data): the next lines join the buffer, and the loop starts.        *)
Feed ==
  /\ ~feeding
  /\ \E n \in 1..(Len(Wire(stream)) - fed) :
       /\ buffer' = buffer \o SubSeq(Wire(stream), fed + 1, fed + n)
       /\ fed' = fed + n
  /\ feeding' = TRUE
  /\ UNCHANGED <<stream, state, remaining, out>>

(* The loop ends when the buffer is empty, or by a break of a branch.      *)
Exhausted ==
  /\ feeding /\ buffer = <<>>
  /\ feeding' = FALSE
  /\ UNCHANGED <<stream, fed, state, buffer, remaining, out>>

PassThrough ==
  /\ feeding /\ buffer # <<>> /\ state = "passthrough"
  /\ out' = out \o buffer
  /\ buffer' = <<>>
  /\ UNCHANGED <<stream, fed, feeding, state, remaining>>

Body ==
  /\ feeding /\ buffer # <<>> /\ state \in {"body", "chunk_data"}
  /\ LET take == Min({remaining, Len(buffer)}) IN
     /\ out' = out \o SubSeq(buffer, 1, take)
     /\ buffer' = SubSeq(buffer, take + 1, Len(buffer))
     /\ remaining' = remaining - take
     /\ state' = IF remaining > take THEN state
                 ELSE IF state = "body" THEN "head" ELSE "chunk_end"
  /\ UNCHANGED <<stream, fed, feeding>>

(* The line end after a chunk, for whose second byte the loop may have to  *)
(* wait; anything else in its place is no framing.                         *)
ChunkEnd ==
  /\ feeding /\ buffer # <<>> /\ state = "chunk_end"
  /\ \/ \E end \in {<<Blank>>, <<HalfEnd, OtherHalf>>} :
          /\ IsPrefix(end, buffer)
          /\ out' = out \o end
          /\ buffer' = SubSeq(buffer, Len(end) + 1, Len(buffer))
          /\ state' = "chunk_size"
          /\ UNCHANGED feeding
     \/ /\ buffer = <<HalfEnd>>
        /\ feeding' = FALSE
        /\ UNCHANGED <<out, buffer, state>>
     \/ /\ Head(buffer) # Blank /\ buffer # <<HalfEnd>>
        /\ ~IsPrefix(<<HalfEnd, OtherHalf>>, buffer)
        /\ state' = "passthrough"
        /\ UNCHANGED <<out, buffer, feeding>>
  /\ UNCHANGED <<stream, fed, remaining>>

(* A line is there once a token that ends one is; until then the loop      *)
(* breaks to wait for more, unless no real line is that long.              *)
LineEnd == {i \in DOMAIN buffer : buffer[i] # Part}
Line == buffer[Min(LineEnd)]

\* Mutation: the loop goes round again instead of waiting for the rest.
LineAwaitedInLoop ==
  /\ feeding /\ buffer # <<>> /\ state \in {"chunk_size", "trailers"} /\ LineEnd = {}
  /\ state' = IF Len(buffer) > LineLimit THEN "passthrough" ELSE state
  /\ UNCHANGED <<stream, fed, feeding, buffer, remaining, out>>

LineMissing ==
  /\ feeding /\ buffer # <<>> /\ state \in {"chunk_size", "trailers"} /\ LineEnd = {}
  /\ IF Len(buffer) > LineLimit
     THEN state' = "passthrough" /\ UNCHANGED feeding
     ELSE feeding' = FALSE /\ UNCHANGED state
  /\ UNCHANGED <<stream, fed, buffer, remaining, out>>

\* Mutation: of a line that came in parts only the end is passed on.
PopLineEnd ==
  /\ out' = Append(out, Line)
  /\ buffer' = SubSeq(buffer, Min(LineEnd) + 1, Len(buffer))

PopLine ==
  /\ out' = out \o SubSeq(buffer, 1, Min(LineEnd))
  /\ buffer' = SubSeq(buffer, Min(LineEnd) + 1, Len(buffer))

ChunkSize ==
  /\ feeding /\ state = "chunk_size" /\ LineEnd # {}
  /\ PopLine
  /\ CASE Line[1] # "size" -> state' = "passthrough" /\ UNCHANGED remaining
       [] Line = Size(0) -> state' = "trailers" /\ UNCHANGED remaining
       [] OTHER -> state' = "chunk_data" /\ remaining' = Line[2]
  /\ UNCHANGED <<stream, fed, feeding>>

Trailers ==
  /\ feeding /\ state = "trailers" /\ LineEnd # {}
  /\ PopLine
  /\ state' = IF Line = Blank /\ Min(LineEnd) = 1 THEN "head" ELSE state
  /\ UNCHANGED <<stream, fed, feeding, remaining>>

(* The head ends with the first empty line after another line.             *)
HeadEnd == {i \in 2..Len(buffer) : buffer[i] = Blank}

\* Mutation: nothing bounds how much of a head is waited for.
HeadAwaited ==
  /\ feeding /\ buffer # <<>> /\ state = "head" /\ HeadEnd = {}
  /\ feeding' = FALSE
  /\ UNCHANGED <<stream, fed, state, buffer, remaining, out>>

HeadMissing ==
  /\ feeding /\ buffer # <<>> /\ state = "head" /\ HeadEnd = {}
  /\ IF Len(buffer) > HeadLimit
     THEN state' = "passthrough" /\ UNCHANGED feeding
     ELSE feeding' = FALSE /\ UNCHANGED state
  /\ UNCHANGED <<stream, fed, buffer, remaining, out>>

RewriteHead ==
  /\ feeding /\ state = "head" /\ HeadEnd # {}
  /\ LET head == SubSeq(buffer, 1, Min(HeadEnd) - 1)
         framing == Framing(head) IN
     /\ out' = out \o Inject(head) \o <<Blank>>
     /\ buffer' = SubSeq(buffer, Min(HeadEnd) + 1, Len(buffer))
     /\ CASE framing.kind = "chunked" -> state' = "chunk_size" /\ UNCHANGED remaining
          [] framing.kind = "length" /\ framing.length > 0 ->
               state' = "body" /\ remaining' = framing.length
          [] framing.kind = "unknown" -> state' = "passthrough" /\ UNCHANGED remaining
          [] OTHER -> state' = "head" /\ UNCHANGED remaining
  /\ UNCHANGED <<stream, fed, feeding>>

LoopStep ==
  Exhausted \/ PassThrough \/ Body \/ ChunkEnd \/ LineMissing \/ ChunkSize \/ Trailers
    \/ HeadMissing \/ RewriteHead

Next == Feed \/ LoopStep

Spec == Init /\ [][Next]_vars
FairSpec == Spec /\ WF_vars(LoopStep)    \* feed() runs to its end; more need not come

-----------------------------------------------------------------------------
(* Properties.                                                             *)

Fed == SubSeq(Wire(stream), 1, fed)

(* The lines of a stream but for those that come from us or pose as ours.  *)
Theirs(lines) == Without(lines, {Stamp, Forged})

(* Nothing a client sends is lost, repeated or put in another order: what  *)
(* was fed is what came out and what is still buffered, stamps apart.      *)
Lossless == Theirs(out \o buffer) = Theirs(Fed)

(* What should come out, worked out request by request instead of line by  *)
(* line: every head stamped and cleaned, and every body as it was sent;    *)
(* after a request whose framing cannot be parsed, all lines as they came. *)
Parsable(m) ==
  IF Coded(m) THEN ChunkedLast(m) /\ Chunks(m.body) = "done" ELSE Cardinality(Announced(m)) <= 1

Rewritten(m) == <<m.head[1], Stamp>> \o Strip(Tail(m.head)) \o <<Blank>> \o m.body

Expected ==
  FlattenSeq([i \in DOMAIN stream |->
    IF \A j \in 1..(i - 1) : Parsable(stream[j]) THEN Rewritten(stream[i])
    ELSE Wire(<<stream[i]>>)])

(* Within the limits: a head, and a line of the chunked framing, that may  *)
(* be waited for whole.                                                    *)
Fits(m) ==
  /\ Len(m.head) <= HeadLimit
  /\ \A i \in 0..Len(m.body) :
       i + LineLimit < Len(m.body) => \E j \in (i + 1)..(i + LineLimit + 1) : m.body[j] # Part

(* Two kinds of request are not stamped as they should be.  A bare one has *)
(* no header left once the copies of ours are removed: inject_headers()    *)
(* leaves it alone.  One that begins with an empty line is stamped after   *)
(* that line, in front of its request line.                                *)
Bare(m) == Strip(Tail(m.head)) = <<>>
LineFirst(m) == m.head[1] = Request

(* On a connection without either kind, every request is stamped, exactly  *)
(* once, after its request line, with the copies of our headers that the   *)
(* client sent removed, and no other line of the stream is touched: in     *)
(* whatever pieces the bytes arrive, whatever the bodies look like, and    *)
(* however many requests are pipelined.                                    *)
EveryHeadStamped ==
  (\A i \in DOMAIN stream : Fits(stream[i]) /\ LineFirst(stream[i]) /\ ~Bare(stream[i])) =>
    /\ IsPrefix(out, Expected)
    /\ ~feeding /\ fed = Len(Wire(stream)) => out = Expected

(* The claim of the class and of docs/UPDATE-tls-and-hunt.md: the same of  *)
(* every request within the limits, and a stamp always follows a request   *)
(* line.  Both kinds refute it.                                            *)
EveryRequestStamped ==
  (\A i \in DOMAIN stream : Fits(stream[i])) =>
    /\ IsPrefix(out, Expected)
    /\ \A i \in DOMAIN out : out[i] = Stamp => i > 1 /\ out[i - 1] = Request

(* What waits between two calls is bounded by the limits, so a client that *)
(* never ends a head or a line cannot make the buffer grow.                *)
BufferBounded ==
  ~feeding => Len(buffer) <= (IF state = "head" THEN HeadLimit ELSE LineLimit)

(* feed() always returns.                                                  *)
FeedReturns == feeding ~> ~feeding

=============================================================================
