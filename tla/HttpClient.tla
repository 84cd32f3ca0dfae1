------------------------------ MODULE HttpClient ------------------------------
(****************************************************************************)
(* request of src/src/http.rs: the hand-written HTTP/1.1 client that the    *)
(* registry forwarder waits on.  One response, cut into segments wherever   *)
(* the network likes, is read until its framing says that it is complete,   *)
(* until the connection ends or until the time-out fires.                   *)
(*                                                                          *)
(* The wire carries units, the smallest pieces a property here tells apart: *)
(* the status line, the framing header, a CRLF, a chunk size line, a piece  *)
(* of data.  A piece of data may look like a CRLF.  Half a unit is as good  *)
(* as none to the code, so a segment boundary falls between units.  Header  *)
(* text, extensions of a chunk size and UTF-8 are left out.                 *)
(****************************************************************************)
EXTENDS Naturals, SequencesExt

CONSTANTS
    Chunk,       \* the chunks a server may send, sequences of Data
    MaxChunks,   \* bound: chunks of one response
    MaxDeclared  \* bound: value of a Content-Length header

CRLF == <<"crlf", 0>>
Data == {<<"data", 0>>, CRLF}

ASSUME HttpClientAssumption ==
    /\ Chunk \subseteq Seq(Data) \ {<<>>}
    /\ MaxChunks \in Nat
    /\ MaxDeclared \in Nat

VARIABLES
    response,  \* what the server set out to send
    raw,       \* the units read so far (raw of request)
    pc,        \* "connecting", "reading" or "done"
    ended,     \* a read returned 0: the connection has ended
    reply      \* what request returns once pc is "done"

vars == <<response, raw, pc, ended, reply>>

-------------------------------------------------------------------------------
(* The server, which the code only talks to.                                 *)

\* framing: the header the code looks at.  A chunked response may end in a size
\* line that is no number; a Content-Length may differ from what is sent.
Response ==
    [status : {"ok", "bad"}, chunks : BoundedSeq(Chunk, MaxChunks),
     framing : {"chunked"}, malformed : BOOLEAN]
    \cup [status : {"ok"}, chunks : BoundedSeq(Chunk, MaxChunks),
          framing : {"length"}, declared : 0..MaxDeclared]
    \cup [status : {"ok"}, chunks : BoundedSeq(Chunk, MaxChunks),
          framing : {"none"}]

HeaderOf(r) ==
    IF r.framing = "length" THEN <<"length", r.declared>> ELSE <<r.framing, 0>>

ChunkOnWire(c) == <<<<"size", Len(c)>>, CRLF>> \o c \o <<CRLF>>

LastChunk(r) ==
    <<IF r.malformed THEN <<"junk", 0>> ELSE <<"size", 0>>, CRLF, CRLF>>

Content(r) ==
    IF r.framing = "chunked"
    THEN FlattenSeq([i \in DOMAIN r.chunks |-> ChunkOnWire(r.chunks[i])])
            \o LastChunk(r)
    ELSE FlattenSeq(r.chunks)

Wire(r) == <<<<"status", IF r.status = "ok" THEN 1 ELSE 0>>, HeaderOf(r),
             CRLF, CRLF>> \o Content(r)

\* The body the server means the client to have.
Intended(r) ==
    LET body == FlattenSeq(r.chunks)
    IN  IF r.framing = "length" /\ r.declared < Len(body)
        THEN SubSeq(body, 1, r.declared) ELSE body

-------------------------------------------------------------------------------
(* What the client makes of the bytes it holds.  A result is a set: empty    *)
(* for an error or for nothing yet, the singleton of a value otherwise.      *)

\* The least position from which needle occurs at or after from.
find_subslice(haystack, needle, from) ==
    LET found == {i \in from..Len(haystack) :
                    /\ i + Len(needle) - 1 <= Len(haystack)
                    /\ SubSeq(haystack, i, i + Len(needle) - 1) = needle}
    IN  {i \in found : \A j \in found : i <= j}

\* Mutant: data that is still arriving is taken for the whole chunk.
DecodeChunk_Eager(bytes, at) ==
    LET size == bytes[at.pos][2]
    IN  IF at.end # "none" THEN at
        ELSE IF \/ find_subslice(bytes, <<CRLF>>, at.pos) # {at.pos + 1}
                \/ bytes[at.pos][1] # "size"
        THEN [at EXCEPT !.end = "error"]
        ELSE IF size = 0 THEN [at EXCEPT !.end = "ok"]
        ELSE IF at.pos + size + 2 > Len(bytes)
        THEN [at EXCEPT !.end = "ok", !.out = @ \o SubSeq(bytes, at.pos + 2, Len(bytes))]
        ELSE [at EXCEPT !.pos = @ + size + 3,
                        !.out = @ \o SubSeq(bytes, at.pos + 2, at.pos + size + 1)]

\* A pass of the loop: the size line, its data and the CRLF after them.  A size line that
\* is no number ends the loop like one that has yet to come.
DecodeChunk(bytes, at) ==
    LET size == bytes[at.pos][2]
    IN  IF at.end # "none" THEN at
        ELSE IF \/ find_subslice(bytes, <<CRLF>>, at.pos) # {at.pos + 1}
                \/ bytes[at.pos][1] # "size"
        THEN [at EXCEPT !.end = "error"]
        ELSE IF size = 0 THEN [at EXCEPT !.end = "ok"]
        ELSE IF at.pos + size + 2 > Len(bytes) THEN [at EXCEPT !.end = "error"]
        ELSE [at EXCEPT !.pos = @ + size + 3,
                        !.out = @ \o SubSeq(bytes, at.pos + 2, at.pos + size + 1)]

\* Where the loop stands after n passes, each of which takes a unit at least.
Decoding(bytes) ==
    LET after[n \in 0..Len(bytes)] ==
            IF n = 0 THEN [pos |-> 1, out |-> <<>>, end |-> "none"]
            ELSE DecodeChunk(bytes, after[n - 1])
    IN  after

\* The code starts again from the first chunk after each read.
decode_chunked_body(bytes) ==
    LET last == Decoding(bytes)[Len(bytes)]
    IN  IF last.end = "ok" THEN {last.out} ELSE {}

header_end(bytes) == {i + 1 : i \in find_subslice(bytes, <<CRLF, CRLF>>, 1)}

body_bytes(bytes, end) == SubSeq(bytes, end + 1, Len(bytes))

\* Mutant: the loop goes on while the body is no longer than was declared.
Complete_OneMore(header, body) ==
    CASE header[1] = "chunked" -> decode_chunked_body(body)
      [] header[1] = "length" ->
            IF Len(body) <= header[2] THEN {} ELSE {SubSeq(body, 1, header[2])}
      [] OTHER -> {}

\* The body, once no further read is needed for it.
Complete(header, body) ==
    CASE header[1] = "chunked" -> decode_chunked_body(body)
      [] header[1] = "length" ->
            IF Len(body) < header[2] THEN {} ELSE {SubSeq(body, 1, header[2])}
      [] OTHER -> {}

\* The body when the connection ends first: only chunked framing minds.
Cut(header, body) == IF header[1] = "chunked" THEN {} ELSE {body}

-------------------------------------------------------------------------------

NoReply == [kind |-> "none", body |-> <<>>]

Fail(kind) == pc' = "done" /\ reply' = [kind |-> kind, body |-> <<>>]

Return(body) == pc' = "done" /\ reply' = [kind |-> "ok", body |-> body]

\* Connecting, then writing the request, which may fail as well.
Connect ==
    /\ pc = "connecting"
    /\ \/ pc' = "reading" /\ UNCHANGED reply
       \/ Fail("io")
    /\ UNCHANGED <<response, raw, ended>>

\* What follows a read that brought something, up to the next read.
Settle(bytes) ==
    \/ /\ header_end(bytes) = {}
       /\ UNCHANGED <<pc, reply>>
    \/ \E end \in header_end(bytes) :
        \/ bytes[1][2] = 0 /\ Fail("invalid")
        \/ /\ bytes[1][2] # 0
           /\ LET done == Complete(bytes[2], body_bytes(bytes, end))
              IN  \/ done = {} /\ UNCHANGED <<pc, reply>>
                  \/ \E body \in done : Return(body)

\* Mutant: each read overwrites the buffer instead of extending it.
Read_Overwrites ==
    /\ pc = "reading"
    /\ \E n \in Len(raw) + 1..Len(Wire(response)) :
        /\ raw' = SubSeq(Wire(response), Len(raw) + 1, n)
        /\ Settle(raw')
    /\ UNCHANGED <<response, ended>>

\* read returns between one unit and all that the server has yet to send.
Read ==
    /\ pc = "reading"
    /\ \E n \in Len(raw) + 1..Len(Wire(response)) :
        /\ raw' = SubSeq(Wire(response), 1, n)
        /\ Settle(raw')
    /\ UNCHANGED <<response, ended>>

\* read returns 0: the server is done, or the connection broke.
EndOfStream ==
    /\ pc = "reading"
    /\ ended' = TRUE
    /\ \/ header_end(raw) = {} /\ Fail("eof")
       \/ \E end \in header_end(raw) :
            LET body == Cut(raw[2], body_bytes(raw, end))
            IN  \/ body = {} /\ Fail("eof")
                \/ \E b \in body : Return(b)
    /\ UNCHANGED <<response, raw>>

\* read, in whichever loop, returns an error of its own: the connection was reset.
ReadFails ==
    /\ pc = "reading"
    /\ Fail("io")
    /\ UNCHANGED <<response, raw, ended>>

\* Mutant: only waiting for the head is timed.
TimeOut_HeadOnly ==
    /\ pc # "done"
    /\ header_end(raw) = {}
    /\ Fail("timeout")
    /\ UNCHANGED <<response, raw, ended>>

\* The time-out wraps everything, connecting included.
TimeOut ==
    /\ pc # "done"
    /\ Fail("timeout")
    /\ UNCHANGED <<response, raw, ended>>

-------------------------------------------------------------------------------

Init ==
    /\ response \in Response
    /\ raw = <<>>
    /\ pc = "connecting"
    /\ ended = FALSE
    /\ reply = NoReply

Next == Connect \/ Read \/ EndOfStream \/ ReadFails \/ TimeOut

Spec == Init /\ [][Next]_vars

\* The runtime's timer fires; nothing obliges the server to send or to close.
FairSpec == Spec /\ WF_vars(TimeOut)

-------------------------------------------------------------------------------

\* Every variable has its type; what was read is a prefix of what is sent.
TypeOK ==
    /\ response \in Response
    /\ IsPrefix(raw, Wire(response))
    /\ pc \in {"connecting", "reading", "done"}
    /\ ended \in BOOLEAN
    /\ reply \in [kind : {"none", "ok", "io", "invalid", "eof", "timeout"},
                  body : Seq(Data)]

\* However the response was cut into segments, a body returned as whole is the
\* body the server meant.  A chunked response cut short is never returned; one
\* with a length, or with neither, may be, and only if the connection ended.
\* (request and decode_chunked_body, src/src/http.rs:141-255)
BodyIsTheServers ==
    reply.kind = "ok" =>
        /\ response.status = "ok"
        /\ IsPrefix(reply.body, Intended(response))
        /\ \/ response.framing = "chunked"
           \/ raw = Wire(response)
           \/ ~ended
           => reply.body = Intended(response)
        /\ response.framing = "chunked" => ~response.malformed

\* A client that holds a complete response answers instead of reading on, which
\* would last until the server closes or the time-out turns an answer into an
\* error.  (the three body loops, src/src/http.rs:180-213)
NeverWaitsForMore ==
    /\ raw = Wire(response)
    /\ response.status = "ok"
    /\ \/ response.framing = "chunked" /\ ~response.malformed
       \/ /\ response.framing = "length"
          /\ response.declared <= Len(FlattenSeq(response.chunks))
    => pc = "done"

\* A request comes to an end whatever the server does.
\* (tokio::time::timeout around all of it, src/src/http.rs:218-220)
Finishes == <>(pc = "done")
===============================================================================
