----------------------------- MODULE HttpClient -----------------------------
(***************************************************************************)
(* marble's client (marble/src/client_http.hpp): requests one after the    *)
(* other over one socket that is kept, and a server that answers with      *)
(* replies of any framing and closes the connection whenever it likes.     *)
(*                                                                         *)
(* What is sent is a sequence of pieces: a whole header, a byte of the     *)
(* content, the line with the size of a chunk, and the end of a chunk.     *)
(* All of a reply is sent at once, and the client's reads see as much of   *)
(* it as has arrived.                                                      *)
(***************************************************************************)
EXTENDS Integers, SequencesExt

CONSTANTS MaxCalls,  \* the program makes at most so many requests
          MaxContent \* bytes of a content, and of a chunk

VARIABLES wire,         \* what the server sent and the client has not read
          peer,         \* the server's end of the connection: "none", "open", "closed"
          asked,        \* the server has a request to answer
          call,         \* the number of the request
          at,           \* where request() is
          socket_error, \* as in the code
          buffer,       \* content_buffer of the response
          head,         \* the header of the response
          chunks,       \* contentLocal
          replies,      \* what the server answered, by request
          outcome       \* what the last request returned

clientVars == <<wire, peer, asked, call, at, socket_error, buffer, head, chunks, replies, outcome>>

Lengths == 0 .. MaxContent
Bad == -1   \* what stoull() throws for
Failed == [how |-> "threw"]
-----------------------------------------------------------------------------
(* Replies *)
Piece(is, of, size) == [is |-> is, of |-> of, size |-> size]
Content(n, count) == [i \in 1 .. count |-> Piece("byte", n, i)]

\* A Content-Length that may be wrong, a content in chunks, or neither header.
Replies == [framing : {"length"}, says : Lengths \cup {Bad}, content : Lengths]
           \cup [framing : {"none"}, says : {0}, content : Lengths]
           \cup [framing : {"chunked"}, says : {<<>>} \cup {<<k>> : k \in {Bad} \cup (Lengths \ {0})}
                                             \cup {<<1, k>> : k \in {Bad, 1}}, content : {0}]

Chunk(n, size) == <<Piece("size", n, size)>>
                  \o (IF size = Bad THEN <<>> ELSE Content(n, size) \o <<Piece("end", n, 0)>>)

Sent(n, r) ==
    <<[is |-> "header", of |-> n, framing |-> r.framing, says |-> r.says]>>
    \o (IF r.framing = "chunked" THEN FlattenSeq([i \in DOMAIN r.says |-> Chunk(n, r.says[i])]) \o Chunk(n, 0)
        ELSE Content(n, r.content))

\* The content of a reply as its sender meant it.
Meant(n, r) == IF r.framing = "chunked"
               THEN FlattenSeq([i \in DOMAIN r.says |-> Content(n, r.says[i])])
               ELSE Content(n, r.content)

\* A reply that sends no more than it says; any other leaves a rest in the
\* connection that nothing tells from the next reply.
Framed(r) == r.framing = "chunked" \/ r.says = Bad \/ r.content <= r.says
-----------------------------------------------------------------------------
(* Steps of request() *)
Returns(h, content) == /\ at' = "returned"
                       /\ outcome' = [how |-> "returned", of |-> h, content |-> content]

\* Mutant: the handler of the exception does not set socket_error.
MutFails == /\ at' = "returned" /\ outcome' = Failed
            /\ UNCHANGED socket_error

\* Whatever is thrown is thrown on, and the next request connects again.
Fails == /\ at' = "returned" /\ outcome' = Failed
         /\ socket_error' = TRUE

ClientInit ==
    /\ wire = <<>> /\ peer = "none" /\ asked = FALSE /\ call = 0 /\ at = "returned"
    /\ socket_error = FALSE /\ buffer = <<>> /\ head = <<>> /\ chunks = <<>>
    /\ replies = <<>> /\ outcome = Failed

\* The program makes a request.  What it makes of a connection that has given
\* it a reply without a header is not followed.
Request ==
    /\ at = "returned" /\ call < MaxCalls
    /\ outcome.how = "returned" => outcome.of # 0
    /\ call' = call + 1
    /\ buffer' = <<>> /\ head' = <<>> /\ chunks' = <<>> /\ replies' = Append(replies, <<>>)

\* connect(): that the server has closed its end does not close this one.
Connected == ~socket_error /\ peer # "none"
Connect ==
    /\ Request
    /\ \/ Connected /\ at' = "write" /\ UNCHANGED <<wire, peer, asked, socket_error, outcome>>
       \/ /\ ~Connected
          /\ wire' = <<>> /\ peer' = "open" /\ asked' = FALSE
          /\ at' = "write" /\ socket_error' = FALSE /\ UNCHANGED outcome
       \/ ~Connected /\ Fails /\ UNCHANGED <<wire, peer, asked>>

\* The request is written; on a connection that is closed this may fail.
Write ==
    /\ at = "write"
    /\ \/ at' = "header" /\ asked' = (peer = "open") /\ UNCHANGED <<socket_error, outcome>>
       \/ peer = "closed" /\ Fails /\ UNCHANGED asked
    /\ UNCHANGED <<wire, peer, call, buffer, head, chunks, replies>>

\* parse_response_header(): a rest of the last reply, in front of the header at
\* j, spoils the first line, and nothing of the header is found then.
NoHeader == [is |-> "header", of |-> 0, framing |-> "none", says |-> 0]
Parsed(j) == IF j = 1 THEN wire[j] ELSE NoHeader

\* read_until() a blank line, and what the header says of the content.
ReadHeader ==
    /\ at = "header"
    /\ \E j \in DOMAIN wire :
          /\ wire[j].is = "header" /\ \A i \in 1 .. j - 1 : wire[i].is # "header"
          /\ head' = Parsed(j)
          /\ \E k \in j .. Len(wire) : /\ wire' = SubSeq(wire, k + 1, Len(wire))
                                      /\ buffer' = SubSeq(wire, j + 1, k)
    /\ LET h == head'
       IN \/ h.framing = "none" /\ Returns(h.of, buffer') /\ UNCHANGED socket_error
          \/ h.framing = "length" /\ h.says = Bad /\ Fails
          \/ /\ h.framing = "length" /\ h.says # Bad
             /\ at' = "content" /\ UNCHANGED <<socket_error, outcome>>
          \/ h.framing = "chunked" /\ at' = "size" /\ UNCHANGED <<socket_error, outcome>>
    /\ UNCHANGED <<peer, asked, call, chunks, replies>>

\* read() what the header says and is not there yet.  When more is there than it
\* says the difference of the two wraps, and only the end of the connection ends it.
ReadContent ==
    /\ at = "content"
    /\ LET missing == head.says - Len(buffer)
       IN /\ missing \in 0 .. Len(wire)
          /\ wire' = SubSeq(wire, missing + 1, Len(wire))
          /\ buffer' = buffer \o SubSeq(wire, 1, missing)
          /\ Returns(head.of, buffer')
    /\ UNCHANGED <<peer, asked, call, socket_error, head, chunks, replies>>

\* The size of a chunk, read only when nothing is in the buffer.
ReadSize ==
    /\ at = "size"
    /\ \E k \in 0 .. Len(wire) :
          /\ (k = 0) = (buffer # <<>>)
          /\ buffer' = buffer \o SubSeq(wire, 1, k)
          /\ wire' = SubSeq(wire, k + 1, Len(wire))
    /\ \/ Head(buffer').size = Bad /\ Fails
       \/ Head(buffer').size # Bad /\ at' = "chunk" /\ UNCHANGED <<socket_error, outcome>>
    /\ UNCHANGED <<peer, asked, call, head, chunks, replies>>

\* A chunk and its end; behind the last one, which is empty, the content is put
\* behind what the buffer still holds.
ReadChunk ==
    /\ at = "chunk"
    /\ LET length == Head(buffer).size
           missing == IF length + 2 > Len(buffer) THEN length + 2 - Len(buffer) ELSE 0
           there == buffer \o SubSeq(wire, 1, missing)
       IN /\ missing <= Len(wire)
          /\ wire' = SubSeq(wire, missing + 1, Len(wire))
          /\ chunks' = chunks \o SubSeq(there, 2, length + 1)
          /\ buffer' = SubSeq(there, length + 3, Len(there)) \o (IF length = 0 THEN chunks ELSE <<>>)
          /\ \/ length > 0 /\ at' = "size" /\ UNCHANGED outcome
             \/ length = 0 /\ Returns(head.of, buffer')
    /\ UNCHANGED <<peer, asked, call, socket_error, head, replies>>

\* The connection ends before what a read waits for: it throws.
Lacks == CASE at = "header" -> \A j \in DOMAIN wire : wire[j].is # "header"
           [] at = "content" -> head.says - Len(buffer) \notin 0 .. Len(wire)
           [] at = "size" -> buffer = <<>> /\ wire = <<>>
           [] at = "chunk" -> Head(buffer).size + 2 > Len(buffer) + Len(wire)
           [] OTHER -> FALSE
EndOfStream ==
    /\ peer = "closed" /\ Lacks
    /\ Fails
    /\ UNCHANGED <<wire, peer, asked, call, buffer, head, chunks, replies>>
-----------------------------------------------------------------------------
(* The server *)
Serve(r) ==
    /\ asked /\ peer = "open"
    /\ asked' = FALSE
    /\ wire' = wire \o Sent(call, r)
    /\ replies' = [replies EXCEPT ![call] = <<r>>]
    /\ UNCHANGED <<peer, call, at, socket_error, buffer, head, chunks, outcome>>

\* The server closes the connection, between two requests or with a part of a
\* reply sent.
Close ==
    /\ peer = "open"
    /\ peer' = "closed" /\ asked' = FALSE
    /\ \E k \in 0 .. Len(wire) : wire' = SubSeq(wire, 1, k)
    /\ UNCHANGED <<call, at, socket_error, buffer, head, chunks, replies, outcome>>

ClientNext == \/ Connect \/ Write \/ ReadHeader \/ ReadContent \/ ReadSize \/ ReadChunk
              \/ EndOfStream \/ Close \/ \E r \in Replies : Serve(r)
-----------------------------------------------------------------------------
\* The pieces in the buffer and on the wire are of requests that were made
\* (client_http.hpp 64-125, 134).
ClientTypeOK ==
    /\ peer \in {"none", "open", "closed"} /\ asked \in BOOLEAN /\ socket_error \in BOOLEAN
    /\ call \in 0 .. MaxCalls /\ Len(replies) = call
    /\ at \in {"returned", "write", "header", "content", "size", "chunk"}
    /\ \A s \in {wire, buffer, chunks} : \A i \in DOMAIN s : s[i].of \in 1 .. call
    /\ at = "chunk" => Head(buffer).is = "size"

\* What request() returns is the whole reply to that request and nothing else,
\* whatever went wrong with the requests before: the server closing the
\* connection it has kept, half a reply, a length that is no number.  Only a
\* reply that sends more than it says is not kept apart from the next one
\* (client_http.hpp 64-125, 200-208).
ReplyIsToItsRequest ==
    /\ at = "returned" /\ outcome.how = "returned"
    /\ \A n \in 1 .. call : \A i \in DOMAIN replies[n] : Framed(replies[n][i])
    => /\ outcome.of = call
       /\ \E i \in DOMAIN replies[call] : outcome.content = Meant(call, replies[call][i])
=============================================================================
