----------------------------- MODULE HttpSession -----------------------------
(***************************************************************************)
(* One connection of the marble web server (src/marble/src/server_http.hpp *)
(* and server_https.hpp): a chain of asynchronous operations on a socket,  *)
(* each guarded by a timer that closes the socket when it expires.         *)
(*                                                                         *)
(* Completed operations and expired timers queue their handlers in the     *)
(* io_service; its threads take them in order and run them.  A thread may  *)
(* be slow with a handler it has taken, so with k threads the next handler *)
(* to run is one of the first k in the queue.  Cancelling a timer that has *)
(* expired changes nothing: its handler is in the queue already.           *)
(***************************************************************************)
EXTENDS Naturals, Sequences, SequencesExt

CONSTANTS NumThreads,      \* threads that run the io_service
          MaxRequests      \* the client sends at most so many requests

ASSUME SessionAssumption ==
    NumThreads \in Nat \ {0} /\ MaxRequests \in Nat \ {0}

\* What the handlers look at in a request: its Content-Length header and its
\* version, each of which may be no number, and whether a resource answers it
\* or its callback throws.
Requests == [content : {"none", "length", "bad"},
             version : {"old", "persistent", "bad"},
             resource : {"none", "answers", "throws"}]

\* Server<HTTPS> or Server<HTTP>, and whether timeout_request and
\* timeout_content are more than 0.
Configs == [https : BOOLEAN, timeout_request : BOOLEAN, timeout_content : BOOLEAN]

Ops == {"handshake", "header", "content", "write"}

VARIABLES sock,     \* "open", "reset" by the client, or "closed"
          op,       \* the operation in progress, or "none"
          pending,  \* is its completion still to come?
          timer,    \* of the operation in progress: "none", "armed", "expired"
          queue,    \* the handlers the io_service has to run
          request,  \* the request being served
          reqno,    \* its number on this connection
          server,   \* "running"; "threw", "crashed": run() has been left
          config    \* how the server was made

vars == <<sock, op, pending, timer, queue, request, reqno, server, config>>

Handler(kind, ok) == [kind |-> kind, ok |-> ok]

TimeoutOf(kind) == IF kind \in {"handshake", "header"} THEN config.timeout_request
                   ELSE config.timeout_content

Start == IF config.https THEN "handshake" ELSE "header"

Init == /\ config \in Configs
        /\ sock = "open" /\ op = Start /\ pending = TRUE
        /\ timer = IF config.timeout_request THEN "armed" ELSE "none"
        /\ queue = <<>> /\ request \in Requests /\ reqno = 1
        /\ server = "running"
-----------------------------------------------------------------------------
(***************************************************************************)
(* Steps a handler is made of.  rest is the queue without that handler.    *)
(***************************************************************************)
\* Start an asynchronous operation; on a socket that is not open it fails at once.
Begin(kind, guard, rest) ==
    /\ op' = kind
    /\ pending' = (sock = "open")
    /\ queue' = IF sock = "open" THEN rest ELSE Append(rest, Handler(kind, FALSE))
    /\ timer' = guard

\* Nothing follows: the last reference to the socket goes, unless the handler
\* of an expired timer holds one.
Finish(rest) ==
    /\ op' = "none" /\ pending' = FALSE /\ timer' = "none" /\ queue' = rest
    /\ sock' = IF \E i \in DOMAIN rest : rest[i].kind = "timer" THEN sock ELSE "closed"

ArmedIf(set) == IF set THEN "armed" ELSE "none"

\* Mutant: set_timeout_on_socket() is forgotten.
MutReadRequest(rest) ==
    /\ Begin("header", "none", rest)
    /\ request' \in Requests
    /\ UNCHANGED <<sock, server>>

\* read_request_and_content(): a new Request, and the timer of the header.
ReadRequest(rest) ==
    /\ Begin("header", ArmedIf(config.timeout_request), rest)
    /\ request' \in Requests
    /\ UNCHANGED <<sock, server>>

\* async_read of the content.  The timer made for it is held by a local
\* variable only (the handler captures the other one): it is destroyed, and
\* so cancelled, when the present handler returns.
ReadContent(rest) ==
    /\ Begin("content", "none", rest)
    /\ UNCHANGED <<sock, request, reqno, server>>

Stop(outcome, rest) ==
    /\ server' = outcome
    /\ queue' = rest
    /\ UNCHANGED <<sock, op, pending, timer, request, reqno>>

\* write_response(): find the resource and call it; with none nothing is written,
\* and an exception of its callback leaves run().
WriteResponse(rest) ==
    \/ /\ request.resource = "answers"
       /\ Begin("write", ArmedIf(config.timeout_content), rest)
       /\ UNCHANGED <<sock, request, reqno, server>>
    \/ /\ request.resource = "none"
       /\ Finish(rest) /\ UNCHANGED <<request, reqno, server>>
    \/ request.resource = "throws" /\ Stop("threw", rest)
-----------------------------------------------------------------------------
(***************************************************************************)
(* The handlers                                                            *)
(***************************************************************************)
RunHandshake(ok, rest) ==
    \/ ok /\ ReadRequest(rest) /\ UNCHANGED reqno
    \/ ~ok /\ Finish(rest) /\ UNCHANGED <<request, reqno, server>>

RunHeader(ok, rest) ==
    \/ ok /\ request.content = "length" /\ ReadContent(rest)
    \/ ok /\ request.content = "bad" /\ Stop("threw", rest)     \* stoull()
    \/ ok /\ request.content = "none" /\ WriteResponse(rest)
    \/ ~ok /\ Finish(rest) /\ UNCHANGED <<request, reqno, server>>

\* timer->cancel() is called on the timer of the header, which was not made
\* when timeout_request is 0.
RunContent(ok, rest) ==
    LET null_timer == config.timeout_content /\ ~config.timeout_request
    IN  \/ null_timer /\ Stop("crashed", rest)
        \/ ~null_timer /\ ok /\ WriteResponse(rest)
        \/ /\ ~null_timer /\ ~ok
           /\ Finish(rest) /\ UNCHANGED <<request, reqno, server>>

RunWrite(ok, rest) ==
    \/ ok /\ request.version = "persistent" /\ ReadRequest(rest) /\ reqno' = reqno + 1
    \/ ok /\ request.version = "bad" /\ Stop("threw", rest)      \* stof()
    \/ /\ ~ok \/ request.version = "old"
       /\ Finish(rest) /\ UNCHANGED <<request, reqno, server>>

\* shutdown() and close(): an operation in progress fails.  shutdown() throws
\* on a socket that is reset or closed already, and that leaves run().
RunTimer(rest) ==
    \/ /\ sock = "open"
       /\ sock' = "closed"
       /\ queue' = IF pending THEN Append(rest, Handler(op, FALSE)) ELSE rest
       /\ pending' = FALSE
       /\ UNCHANGED <<op, timer, request, reqno, server>>
    \/ sock # "open" /\ Stop("threw", rest)

Run(i) ==
    LET h == queue[i]
        rest == RemoveAt(queue, i)
    IN  /\ server = "running"
        /\ UNCHANGED config
        /\ CASE h.kind = "handshake" -> RunHandshake(h.ok, rest)
             [] h.kind = "header" -> RunHeader(h.ok, rest)
             [] h.kind = "content" -> RunContent(h.ok, rest)
             [] h.kind = "write" -> RunWrite(h.ok, rest)
             [] h.kind = "timer" -> RunTimer(rest)

RunHandler == \E i \in DOMAIN queue : i <= NumThreads /\ Run(i)
-----------------------------------------------------------------------------
(***************************************************************************)
(* The network and the clock                                               *)
(***************************************************************************)
\* Mutant: a completion is delivered twice.
MutCompletes == /\ pending
                /\ op = "header" => reqno <= MaxRequests
                /\ queue' = Append(queue, Handler(op, TRUE))
                /\ UNCHANGED <<sock, op, pending, timer, request, reqno, server, config>>

\* What the operation waits for has arrived: the handshake, the blank line
\* after the header, the content, or room for the response.
Completes == /\ pending
             /\ op = "header" => reqno <= MaxRequests
             /\ pending' = FALSE
             /\ queue' = Append(queue, Handler(op, TRUE))
             /\ UNCHANGED <<sock, op, timer, request, reqno, server, config>>

\* The client closes the connection, or resets it.
PeerFails == /\ pending
             /\ pending' = FALSE
             /\ sock' \in {"open", "reset"}
             /\ queue' = Append(queue, Handler(op, FALSE))
             /\ UNCHANGED <<op, timer, request, reqno, server, config>>

Expires == /\ timer = "armed"
           /\ timer' = "expired"
           /\ queue' = Append(queue, Handler("timer", TRUE))
           /\ UNCHANGED <<sock, op, pending, request, reqno, server, config>>

Next == RunHandler \/ Completes \/ PeerFails \/ Expires

\* The io_service runs what is queued, and time passes.  The client need not
\* do anything.
Fairness == /\ \A i \in 1..NumThreads : WF_vars(i \in DOMAIN queue /\ Run(i))
            /\ WF_vars(Expires)

SafeSpec == Init /\ [][Next]_vars
Spec == SafeSpec /\ Fairness
-----------------------------------------------------------------------------
(***************************************************************************)
(* Properties                                                              *)
(***************************************************************************)
Kinds == Ops \cup {"timer"}

\* Types, and the handlers queued: of the operation in progress exactly one
\* when it has completed, and of no other (server_http.hpp 110-202).
TypeOK == /\ sock \in {"open", "reset", "closed"}
          /\ op \in Ops \cup {"none"} /\ pending \in BOOLEAN
          /\ timer \in {"none", "armed", "expired"}
          /\ queue \in Seq([kind : Kinds, ok : BOOLEAN])
          /\ request \in Requests
          /\ reqno \in 1..(MaxRequests + 1)
          /\ server \in {"running", "threw", "crashed"}
          /\ server = "running" =>
               LET mine == {i \in DOMAIN queue : queue[i].kind # "timer"}
               IN  IF op = "none" \/ pending THEN mine = {}
                   ELSE \E i \in mine : mine = {i} /\ queue[i].kind = op

Running == server = "running"

\* A client that stalls in the handshake, or while the server reads its header
\* or writes to it.
Stalled == op \in {k \in Ops \ {"content"} : TimeoutOf(k)} /\ pending /\ Running

\* A client that stalls does not hold the connection when the operation it stalls
\* has a timeout; and once the timer has closed the socket the chain of operations
\* ends: what completed at the same moment may go on, but not for ever, though
\* the requests ask for a persistent connection (server_http.hpp 99-106, 115-120,
\* 154-163, 182-201; server_https.hpp 38-41).
ConnectionEnds == /\ Stalled ~> ~Stalled
                  /\ sock = "closed" /\ Running ~> op = "none" \/ ~Running

\* While the content is awaited a timer for it is armed, or has expired and
\* is about to close the socket:
\* "Set timeout on the following boost::asio::async-read or write function"
\* (server_http.hpp 142), said of the read of the content.
ContentIsTimed ==
    op = "content" /\ pending /\ sock = "open" /\ config.timeout_content => timer # "none"
=============================================================================
