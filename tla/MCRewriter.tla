----------------------------- MODULE MCRewriter -----------------------------
(* Streams of up to two requests of a catalogue, and a third plain one to  *)
(* show where the rewriter believes the next head begins.                  *)
EXTENDS Rewriter

Get == [head |-> <<Request, Header>>, body |-> <<>>]
BareGet == [head |-> <<Request>>, body |-> <<>>]
ForgedGet == [head |-> <<Request, Forged, Header, Forged>>, body |-> <<>>]
OnlyForged == [head |-> <<Request, Forged>>, body |-> <<>>]
BlankGet == [head |-> <<Blank, Request, Header>>, body |-> <<>>]
TwoBlanks == [head |-> <<Blank>>, body |-> <<>>]
LongGet == [head |-> <<Request, Part, Part, Part, Header>>, body |-> <<>>]

(* Bodies that look like framing, or like the next request.                *)
Post == [head |-> <<Request, Length(3)>>, body |-> <<Request, Forged, Blank>>]
EmptyPost == [head |-> <<Request, Length(0)>>, body |-> <<>>]
Chunked == [head |-> <<Request, Coding("gzip"), Coding("chunked")>>,
            body |-> <<Size(2), Blank, Size(0), Blank, Part, Size(1), Header, HalfEnd, OtherHalf,
                       Size(0), Part, Header, Blank>>]
ChunkedAndLength == [head |-> <<Request, Length(1), Coding("chunked")>>,
                     body |-> <<Size(0), Blank>>]

(* Framing that cannot be parsed, and a line too long to wait for.         *)
TwoLengths == [head |-> <<Request, Length(1), Length(2)>>, body |-> <<Header>>]
NotChunkedLast == [head |-> <<Request, Coding("chunked"), Coding("gzip")>>, body |-> <<Header>>]
BadSize == [head |-> <<Request, Coding("chunked")>>, body |-> <<Garbage, Header>>]
BadChunkEnd == [head |-> <<Request, Coding("chunked")>>, body |-> <<Size(1), Header, Garbage>>]
LongLine == [head |-> <<Request, Coding("chunked")>>,
             body |-> <<Part, Part, Part, Size(0), Blank>>]

Catalogue ==
  {Get, BareGet, ForgedGet, OnlyForged, BlankGet, TwoBlanks, LongGet, Post, EmptyPost,
   Chunked, ChunkedAndLength, TwoLengths, NotChunkedLast, BadSize, BadChunkEnd, LongLine}

MCStreams == {<<a, b, ForgedGet>> : a, b \in Catalogue}

=============================================================================
