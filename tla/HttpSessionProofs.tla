-------------------------- MODULE HttpSessionProofs --------------------------
(***************************************************************************)
(* What HttpSession guarantees for any number of threads of the io_service *)
(* and of requests on the connection.                                      *)
(***************************************************************************)
EXTENDS HttpSession, SequenceTheorems, TLAPS

USE SessionAssumption

LEMMA SubSeqTyped ==
    ASSUME NEW S, NEW s \in Seq(S), NEW m \in Int, NEW n \in Int,
           1 <= m, n <= Len(s), m <= n + 1
    PROVE  /\ SubSeq(s, m, n) \in Seq(S)
           /\ Len(SubSeq(s, m, n)) = n - m + 1
           /\ \A j \in 1..(n - m + 1) : SubSeq(s, m, n)[j] = s[m + j - 1]
  OBVIOUS

\* Taking an element out of a sequence leaves the others, in their order.
LEMMA RemoveAtProperties ==
    ASSUME NEW S, NEW s \in Seq(S), NEW i \in DOMAIN s
    PROVE  /\ RemoveAt(s, i) \in Seq(S)
           /\ DOMAIN RemoveAt(s, i) = 1..(Len(s) - 1)
           /\ \A j \in 1..(Len(s) - 1) :
                 RemoveAt(s, i)[j] = IF j < i THEN s[j] ELSE s[j + 1]
  <1> DEFINE front == SubSeq(s, 1, i - 1)
             back == SubSeq(s, i + 1, Len(s))
  <1>1. i \in Int /\ 1 <= i /\ i <= Len(s) /\ Len(s) \in Nat
    OBVIOUS
  <1>2. /\ front \in Seq(S) /\ Len(front) = i - 1
        /\ \A j \in 1..(i - 1) : front[j] = s[j]
    BY <1>1
  <1>3. /\ back \in Seq(S) /\ Len(back) = Len(s) - i
        /\ \A j \in 1..(Len(s) - i) : back[j] = s[i + j]
    BY <1>1
  <1>4. RemoveAt(s, i) = front \o back
    BY DEF RemoveAt
  <1> HIDE DEF front, back
  <1>5. /\ front \o back \in Seq(S) /\ Len(front \o back) = Len(s) - 1
        /\ \A j \in 1..(Len(s) - 1) :
              (front \o back)[j] = IF j <= i - 1 THEN front[j] ELSE back[j - (i - 1)]
    <2>1. /\ front \o back \in Seq(S) /\ Len(front \o back) = Len(front) + Len(back)
          /\ \A j \in 1..(Len(front) + Len(back)) :
                (front \o back)[j] = IF j <= Len(front) THEN front[j] ELSE back[j - Len(front)]
      BY <1>2, <1>3, ConcatProperties, ZenonT(60)
    <2>2. Len(front) + Len(back) = Len(s) - 1
      BY <1>1, <1>2, <1>3
    <2> QED
      BY <1>2, <2>1, <2>2
  <1>6. ASSUME NEW j \in 1..(Len(s) - 1)
        PROVE  (front \o back)[j] = IF j < i THEN s[j] ELSE s[j + 1]
    <2>0. (front \o back)[j] = IF j <= i - 1 THEN front[j] ELSE back[j - (i - 1)]
      BY <1>5
    <2>1. CASE j < i
      <3>1. j \in 1..(i - 1) /\ j <= i - 1
        BY <1>1, <2>1
      <3> QED
        BY <1>2, <2>0, <2>1, <3>1
    <2>2. CASE ~(j < i)
      <3>1. j - (i - 1) \in 1..(Len(s) - i) /\ ~(j <= i - 1)
        BY <1>1, <2>2
      <3>2. back[j - (i - 1)] = s[j + 1]
        BY <1>3, <3>1
      <3> QED
        BY <2>0, <2>2, <3>1, <3>2
    <2> QED
      BY <2>1, <2>2
  <1> QED
    BY <1>4, <1>5, <1>6
-----------------------------------------------------------------------------
(***************************************************************************)
(* The queue: what it holds besides the handlers of expired timers.        *)
(***************************************************************************)
Handlers == [kind : Kinds, ok : BOOLEAN]

TimersOnly(q) == \A j \in DOMAIN q : q[j].kind = "timer"
OneOf(q, k) == /\ k # "timer"
               /\ \E j \in DOMAIN q : /\ q[j].kind = k
                                      /\ \A l \in DOMAIN q \ {j} : q[l].kind = "timer"

\* A header that has been read is one of the requests the client sends.
HeadersSent(q, n) ==
    \A j \in DOMAIN q : q[j].kind = "header" /\ q[j].ok => n <= MaxRequests

LEMMA RemoveTimer ==
    ASSUME NEW q \in Seq(Handlers), NEW i \in DOMAIN q, q[i].kind = "timer", NEW k
    PROVE  /\ TimersOnly(q) => TimersOnly(RemoveAt(q, i))
           /\ OneOf(q, k) => OneOf(RemoveAt(q, i), k)
  <1> DEFINE r == RemoveAt(q, i)
  <1>1. /\ DOMAIN q = 1..Len(q) /\ Len(q) \in Nat /\ i \in 1..Len(q)
        /\ DOMAIN r = 1..(Len(q) - 1)
        /\ \A j \in 1..(Len(q) - 1) : r[j] = IF j < i THEN q[j] ELSE q[j + 1]
    BY RemoveAtProperties
  <1> HIDE DEF r
  <1>2. ASSUME TimersOnly(q) PROVE TimersOnly(r)
    BY <1>1, <1>2 DEF TimersOnly
  <1>3. ASSUME OneOf(q, k) PROVE OneOf(r, k)
    <2>1. PICK j \in 1..Len(q) : /\ q[j].kind = k
                                 /\ \A l \in 1..Len(q) \ {j} : q[l].kind = "timer"
      BY <1>1, <1>3 DEF OneOf
    <2>2. j # i /\ k # "timer"
      BY <1>3, <2>1 DEF OneOf
    <2> DEFINE m == IF j < i THEN j ELSE j - 1
    <2>3. m \in 1..(Len(q) - 1) /\ r[m] = q[j]
      BY <1>1, <2>2
    <2>4. ASSUME NEW l \in 1..(Len(q) - 1), l # m PROVE r[l].kind = "timer"
      BY <1>1, <2>1, <2>2, <2>4
    <2> QED
      BY <1>1, <2>1, <2>2, <2>3, <2>4 DEF OneOf
  <1> QED
    BY <1>2, <1>3 DEF r

\* The handler of the operation in progress is the only one of its kind.
LEMMA RemoveMine ==
    ASSUME NEW q \in Seq(Handlers), NEW i \in DOMAIN q, q[i].kind # "timer",
           NEW k, OneOf(q, k)
    PROVE  q[i].kind = k /\ TimersOnly(RemoveAt(q, i))
  <1> DEFINE r == RemoveAt(q, i)
  <1>1. /\ DOMAIN q = 1..Len(q) /\ Len(q) \in Nat /\ i \in 1..Len(q)
        /\ DOMAIN r = 1..(Len(q) - 1)
        /\ \A j \in 1..(Len(q) - 1) : r[j] = IF j < i THEN q[j] ELSE q[j + 1]
    BY RemoveAtProperties
  <1> HIDE DEF r
  <1>2. q[i].kind = k /\ \A l \in DOMAIN q \ {i} : q[l].kind = "timer"
    BY DEF OneOf
  <1>3. TimersOnly(r)
    BY <1>1, <1>2 DEF TimersOnly
  <1> QED
    BY <1>2, <1>3 DEF r

LEMMA RemoveHeaders ==
    ASSUME NEW q \in Seq(Handlers), NEW i \in DOMAIN q, NEW n, HeadersSent(q, n)
    PROVE  HeadersSent(RemoveAt(q, i), n)
  <1> DEFINE r == RemoveAt(q, i)
  <1>1. /\ DOMAIN q = 1..Len(q) /\ Len(q) \in Nat /\ i \in 1..Len(q)
        /\ DOMAIN r = 1..(Len(q) - 1)
        /\ \A j \in 1..(Len(q) - 1) : r[j] = IF j < i THEN q[j] ELSE q[j + 1]
    BY RemoveAtProperties
  <1> HIDE DEF r
  <1> QED
    BY <1>1 DEF HeadersSent, r

LEMMA AppendHandler ==
    ASSUME NEW q \in Seq(Handlers), NEW k \in Kinds, NEW ok \in BOOLEAN
    PROVE  /\ Append(q, Handler(k, ok)) \in Seq(Handlers)
           /\ TimersOnly(q) /\ k # "timer" => OneOf(Append(q, Handler(k, ok)), k)
           /\ TimersOnly(q) /\ k = "timer" => TimersOnly(Append(q, Handler(k, ok)))
           /\ \A c : OneOf(q, c) /\ k = "timer" => OneOf(Append(q, Handler(k, ok)), c)
           /\ \A n : HeadersSent(q, n) /\ (k = "header" /\ ok => n <= MaxRequests)
                       => HeadersSent(Append(q, Handler(k, ok)), n)
  <1> DEFINE h == Handler(k, ok)
             a == Append(q, h)
  <1>1. h \in Handlers /\ h.kind = k /\ h.ok = ok
    BY DEF Handler, Handlers
  <1> HIDE DEF h
  <1>2. /\ a \in Seq(Handlers) /\ DOMAIN q = 1..Len(q) /\ Len(q) \in Nat
        /\ DOMAIN a = 1..(Len(q) + 1)
        /\ a[Len(q) + 1] = h /\ \A j \in 1..Len(q) : a[j] = q[j]
    BY <1>1, AppendProperties
  <1> HIDE DEF a
  <1>3. ASSUME TimersOnly(q), k # "timer" PROVE OneOf(a, k)
    BY <1>1, <1>2, <1>3 DEF TimersOnly, OneOf
  <1>4. ASSUME TimersOnly(q), k = "timer" PROVE TimersOnly(a)
    BY <1>1, <1>2, <1>4 DEF TimersOnly
  <1>5. ASSUME NEW c, OneOf(q, c), k = "timer" PROVE OneOf(a, c)
    BY <1>1, <1>2, <1>5 DEF OneOf
  <1>6. ASSUME NEW n, HeadersSent(q, n), k = "header" /\ ok => n <= MaxRequests
        PROVE  HeadersSent(a, n)
    BY <1>1, <1>2, <1>6 DEF HeadersSent
  <1> QED
    BY <1>2, <1>3, <1>4, <1>5, <1>6 DEF a, h
-----------------------------------------------------------------------------
QueueOK ==
    IF op = "none" \/ pending THEN TimersOnly(queue) ELSE OneOf(queue, op)

IInv ==
    /\ sock \in {"open", "reset", "closed"}
    /\ op \in Ops \cup {"none"} /\ pending \in BOOLEAN
    /\ timer \in {"none", "armed", "expired"}
    /\ queue \in Seq(Handlers)
    /\ request \in Requests
    /\ reqno \in 1..(MaxRequests + 1)
    /\ server \in {"running", "threw", "crashed"}
    /\ config \in Configs
    /\ pending => op # "none"
    /\ server = "running" => QueueOK
    /\ HeadersSent(queue, reqno)
    /\ op \in {"content", "write"} => reqno <= MaxRequests

LEMMA InvImpliesType == IInv => TypeOK
  <1> SUFFICES ASSUME IInv, server = "running"
               PROVE  LET mine == {i \in DOMAIN queue : queue[i].kind # "timer"}
                      IN  IF op = "none" \/ pending THEN mine = {}
                          ELSE \E i \in mine : mine = {i} /\ queue[i].kind = op
    BY DEF IInv, TypeOK, Handlers
  <1>1. CASE op = "none" \/ pending
    BY <1>1 DEF IInv, QueueOK, TimersOnly
  <1>2. CASE ~(op = "none" \/ pending)
    <2>1. PICK j \in DOMAIN queue :
             /\ queue[j].kind = op /\ op # "timer"
             /\ \A l \in DOMAIN queue \ {j} : queue[l].kind = "timer"
      BY <1>2 DEF IInv, QueueOK, OneOf
    <2>2. {i \in DOMAIN queue : queue[i].kind # "timer"} = {j}
      BY <2>1
    <2> QED
      BY <1>2, <2>1, <2>2
  <1> QED
    BY <1>1, <1>2

LEMMA InvInit == Init => IInv
  <1> SUFFICES ASSUME Init PROVE IInv
    OBVIOUS
  <1>1. 1 \in 1..(MaxRequests + 1)
    BY DEF SessionAssumption
  <1>2. queue \in Seq(Handlers) /\ TimersOnly(queue) /\ HeadersSent(queue, reqno)
    BY DEF Init, TimersOnly, HeadersSent
  <1> QED
    BY <1>1, <1>2 DEF Init, IInv, Start, Ops, QueueOK

\* What a handler leaves behind when it has taken its operation's place.
Left(rest) == rest \in Seq(Handlers) /\ TimersOnly(rest)

LEMMA BeginOK ==
    ASSUME NEW kind \in Ops, NEW guard, NEW rest, Left(rest), Begin(kind, guard, rest)
    PROVE  /\ op' = kind /\ pending' \in BOOLEAN /\ timer' = guard
           /\ queue' \in Seq(Handlers) /\ QueueOK'
           /\ \A n : HeadersSent(queue', n)
  <1>1. \A n : HeadersSent(rest, n)
    BY DEF Left, TimersOnly, HeadersSent
  <1>2. kind # "none" /\ kind # "timer" /\ kind \in Kinds
    BY DEF Ops, Kinds
  <1>3. LET q == Append(rest, Handler(kind, FALSE))
        IN  q \in Seq(Handlers) /\ OneOf(q, kind) /\ \A n : HeadersSent(q, n)
    BY <1>1, <1>2, AppendHandler DEF Left
  <1>4. CASE sock = "open"
    BY <1>1, <1>2, <1>4 DEF Begin, Left, QueueOK
  <1>5. CASE sock # "open"
    BY <1>2, <1>3, <1>5 DEF Begin, QueueOK
  <1> QED
    BY <1>4, <1>5

LEMMA FinishOK ==
    ASSUME NEW rest, Left(rest), Finish(rest), IInv
    PROVE  /\ op' = "none" /\ pending' = FALSE /\ timer' = "none"
           /\ queue' \in Seq(Handlers) /\ QueueOK'
           /\ sock' \in {"open", "reset", "closed"}
           /\ \A n : HeadersSent(queue', n)
  BY DEF Left, Finish, IInv, QueueOK, TimersOnly, HeadersSent

LEMMA ReadRequestOK ==
    ASSUME IInv, NEW rest, Left(rest), ReadRequest(rest), UNCHANGED config,
           reqno' \in 1..(MaxRequests + 1)
    PROVE  IInv'
  <1>1. "header" \in Ops
    BY DEF Ops
  <1> QED
    BY <1>1, BeginOK DEF ReadRequest, IInv, ArmedIf

LEMMA ReadContentOK ==
    ASSUME IInv, NEW rest, Left(rest), ReadContent(rest), UNCHANGED config,
           reqno <= MaxRequests
    PROVE  IInv'
  <1>1. "content" \in Ops
    BY DEF Ops
  <1> QED
    BY <1>1, BeginOK DEF ReadContent, IInv

LEMMA LastOK ==
    ASSUME IInv, NEW rest, Left(rest), Finish(rest),
           UNCHANGED <<request, reqno, server, config>>
    PROVE  IInv'
  BY FinishOK DEF IInv

\* An exception, or a null pointer, leaves run(): nothing is run any more.
LEMMA StopOK ==
    ASSUME IInv, NEW rest \in Seq(Handlers), HeadersSent(rest, reqno),
           NEW outcome \in {"threw", "crashed"}, Stop(outcome, rest), UNCHANGED config
    PROVE  IInv'
  BY DEF IInv, Stop

LEMMA WriteResponseOK ==
    ASSUME IInv, NEW rest, Left(rest), WriteResponse(rest), UNCHANGED config,
           reqno <= MaxRequests, HeadersSent(rest, reqno)
    PROVE  IInv'
  <1>1. "write" \in Ops
    BY DEF Ops
  <1>2. CASE /\ Begin("write", ArmedIf(config.timeout_content), rest)
             /\ UNCHANGED <<sock, request, reqno, server>>
    BY <1>1, <1>2, BeginOK DEF IInv, ArmedIf
  <1>3. CASE Finish(rest) /\ UNCHANGED <<request, reqno, server>>
    BY <1>3, LastOK
  <1>4. CASE Stop("threw", rest)
    BY <1>4, StopOK DEF Left
  <1> QED
    BY <1>2, <1>3, <1>4 DEF WriteResponse

\* Which handler may run: that of the operation in progress, or a timer's.
LEMMA MineRuns ==
    ASSUME IInv, server = "running", NEW i \in DOMAIN queue, queue[i].kind # "timer"
    PROVE  /\ op = queue[i].kind /\ ~pending
           /\ Left(RemoveAt(queue, i))
           /\ HeadersSent(RemoveAt(queue, i), reqno)
  <1>1. ~TimersOnly(queue)
    BY DEF TimersOnly
  <1>2. ~pending /\ OneOf(queue, op)
    BY <1>1 DEF IInv, QueueOK
  <1>3. op = queue[i].kind /\ TimersOnly(RemoveAt(queue, i))
    BY <1>2, RemoveMine DEF IInv
  <1>4. RemoveAt(queue, i) \in Seq(Handlers) /\ HeadersSent(RemoveAt(queue, i), reqno)
    BY RemoveAtProperties, RemoveHeaders DEF IInv
  <1> QED
    BY <1>2, <1>3, <1>4 DEF Left

LEMMA TimerOK ==
    ASSUME IInv, server = "running", NEW i \in DOMAIN queue, queue[i].kind = "timer",
           RunTimer(RemoveAt(queue, i)), UNCHANGED config
    PROVE  IInv'
  <1> DEFINE rest == RemoveAt(queue, i)
  <1>1. rest \in Seq(Handlers) /\ HeadersSent(rest, reqno)
    BY RemoveAtProperties, RemoveHeaders DEF IInv
  <1>2. /\ TimersOnly(queue) => TimersOnly(rest)
        /\ OneOf(queue, op) => OneOf(rest, op)
    BY RemoveTimer DEF IInv
  <1>3. RunTimer(rest)
    OBVIOUS
  <1> HIDE DEF rest
  <1>4. CASE sock # "open"
    <2>1. Stop("threw", rest)
      BY <1>3, <1>4 DEF RunTimer
    <2> QED
      BY <1>1, <2>1, StopOK
  <1>5. CASE sock = "open" /\ pending
    <2>1. TimersOnly(rest) /\ op \in Ops
      BY <1>2, <1>5 DEF IInv, QueueOK
    <2>2. op \in Kinds /\ op # "timer" /\ op # "none"
      BY <2>1 DEF Ops, Kinds
    <2>3. LET q == Append(rest, Handler(op, FALSE))
          IN  q \in Seq(Handlers) /\ OneOf(q, op) /\ HeadersSent(q, reqno)
      BY <1>1, <2>1, <2>2, AppendHandler
    <2>4. /\ queue' = Append(rest, Handler(op, FALSE)) /\ pending' = FALSE
          /\ sock' = "closed" /\ UNCHANGED <<op, timer, request, reqno, server>>
      BY <1>3, <1>5 DEF RunTimer, Stop
    <2> QED
      BY <2>2, <2>3, <2>4 DEF IInv, QueueOK
  <1>6. CASE sock = "open" /\ ~pending
    <2>1. /\ queue' = rest /\ pending' = FALSE
          /\ sock' = "closed" /\ UNCHANGED <<op, timer, request, reqno, server>>
      BY <1>3, <1>6 DEF RunTimer, Stop
    <2> QED
      BY <1>1, <1>2, <1>6, <2>1 DEF IInv, QueueOK
  <1> QED
    BY <1>4, <1>5, <1>6 DEF IInv

LEMMA HandlerOK == IInv /\ RunHandler => IInv'
  <1> SUFFICES ASSUME IInv, NEW i \in DOMAIN queue, Run(i) PROVE IInv'
    BY DEF RunHandler
  <1> DEFINE h == queue[i]
             rest == RemoveAt(queue, i)
  <1>1. server = "running" /\ UNCHANGED config
    BY DEF Run
  <1>2. h \in Handlers
    BY DEF IInv
  <1>3. ASSUME h.kind # "timer"
        PROVE  /\ op = h.kind /\ Left(rest) /\ HeadersSent(rest, reqno)
               /\ rest \in Seq(Handlers)
    BY <1>1, <1>3, MineRuns DEF Left
  <1>4. CASE h.kind = "handshake"
    <2>1. RunHandshake(h.ok, rest)
      BY <1>4 DEF Run
    <2>2. Left(rest) /\ reqno \in 1..(MaxRequests + 1)
      BY <1>3, <1>4 DEF IInv
    <2> HIDE DEF h, rest
    <2> QED
      BY <1>1, <2>1, <2>2, ReadRequestOK, LastOK DEF RunHandshake
  <1>5. CASE h.kind = "header"
    <2>1. RunHeader(h.ok, rest)
      BY <1>5 DEF Run
    <2>2. Left(rest) /\ rest \in Seq(Handlers) /\ HeadersSent(rest, reqno)
      BY <1>3, <1>5
    <2>3. h.ok => reqno <= MaxRequests
      BY <1>5 DEF IInv, HeadersSent
    <2> HIDE DEF h, rest
    <2>4. CASE h.ok /\ request.content = "length" /\ ReadContent(rest)
      BY <1>1, <2>2, <2>3, <2>4, ReadContentOK
    <2>5. CASE h.ok /\ request.content = "bad" /\ Stop("threw", rest)
      BY <1>1, <2>2, <2>5, StopOK
    <2>6. CASE h.ok /\ request.content = "none" /\ WriteResponse(rest)
      BY <1>1, <2>2, <2>3, <2>6, WriteResponseOK
    <2>7. CASE ~h.ok /\ Finish(rest) /\ UNCHANGED <<request, reqno, server>>
      BY <1>1, <2>2, <2>7, LastOK
    <2> QED
      BY <2>1, <2>4, <2>5, <2>6, <2>7 DEF RunHeader
  <1>6. CASE h.kind = "content"
    <2>1. RunContent(h.ok, rest)
      BY <1>6 DEF Run
    <2>2. /\ Left(rest) /\ rest \in Seq(Handlers) /\ HeadersSent(rest, reqno)
          /\ reqno <= MaxRequests
      BY <1>3, <1>6 DEF IInv
    <2> HIDE DEF h, rest
    <2>3. CASE Stop("crashed", rest)
      BY <1>1, <2>2, <2>3, StopOK
    <2>4. CASE h.ok /\ WriteResponse(rest)
      BY <1>1, <2>2, <2>4, WriteResponseOK
    <2>5. CASE ~h.ok /\ Finish(rest) /\ UNCHANGED <<request, reqno, server>>
      BY <1>1, <2>2, <2>5, LastOK
    <2> QED
      BY <2>1, <2>3, <2>4, <2>5 DEF RunContent
  <1>7. CASE h.kind = "write"
    <2>1. RunWrite(h.ok, rest)
      BY <1>7 DEF Run
    <2>2. /\ Left(rest) /\ rest \in Seq(Handlers) /\ HeadersSent(rest, reqno)
          /\ reqno + 1 \in 1..(MaxRequests + 1)
      BY <1>3, <1>7 DEF IInv
    <2> HIDE DEF h, rest
    <2>3. CASE ReadRequest(rest) /\ reqno' = reqno + 1
      BY <1>1, <2>2, <2>3, ReadRequestOK
    <2>4. CASE Stop("threw", rest)
      BY <1>1, <2>2, <2>4, StopOK
    <2>5. CASE Finish(rest) /\ UNCHANGED <<request, reqno, server>>
      BY <1>1, <2>2, <2>5, LastOK
    <2> QED
      BY <2>1, <2>3, <2>4, <2>5 DEF RunWrite
  <1>8. CASE h.kind = "timer"
    <2>1. RunTimer(rest)
      BY <1>8 DEF Run
    <2> QED
      BY <1>1, <1>8, <2>1, TimerOK
  <1> QED
    BY <1>2, <1>4, <1>5, <1>6, <1>7, <1>8 DEF Handlers, Kinds, Ops

LEMMA NetworkOK == IInv /\ (Completes \/ PeerFails \/ Expires) => IInv'
  <1> SUFFICES ASSUME IInv, Completes \/ PeerFails \/ Expires PROVE IInv'
    OBVIOUS
  <1>1. ASSUME NEW ok \in BOOLEAN, pending, pending' = FALSE,
               op = "header" /\ ok => reqno <= MaxRequests,
               sock' \in {"open", "reset", "closed"},
               queue' = Append(queue, Handler(op, ok)),
               UNCHANGED <<op, timer, request, reqno, server, config>>
        PROVE  IInv'
    <2>1. op \in Kinds /\ op # "timer" /\ op # "none"
      BY <1>1 DEF IInv, Ops, Kinds
    <2>2. server = "running" => TimersOnly(queue)
      BY <1>1 DEF IInv, QueueOK
    <2>3. /\ queue' \in Seq(Handlers) /\ HeadersSent(queue', reqno)
          /\ server = "running" => OneOf(queue', op)
      BY <1>1, <2>1, <2>2, AppendHandler DEF IInv
    <2> QED
      BY <1>1, <2>1, <2>3 DEF IInv, QueueOK
  <1>2. CASE Completes
    BY <1>1, <1>2 DEF Completes, IInv
  <1>3. CASE PeerFails
    BY <1>1, <1>3 DEF PeerFails
  <1>4. CASE Expires
    <2>1. "timer" \in Kinds
      BY DEF Kinds
    <2>2. queue' = Append(queue, Handler("timer", TRUE))
      BY <1>4 DEF Expires
    <2>3. /\ queue' \in Seq(Handlers) /\ HeadersSent(queue', reqno)
          /\ TimersOnly(queue) => TimersOnly(queue')
          /\ OneOf(queue, op) => OneOf(queue', op)
      BY <2>1, <2>2, AppendHandler DEF IInv
    <2> QED
      BY <1>4, <2>3 DEF Expires, IInv, QueueOK
  <1> QED
    BY <1>2, <1>3, <1>4

\* In every state of a connection the queue holds one handler of the operation
\* in progress when that has completed, and no other but those of timers: no
\* completion is lost or delivered twice, whichever thread is slow and
\* whenever the timer closes the socket (server_http.hpp 110-202).
THEOREM TypeCorrect == SafeSpec => []TypeOK
  <1>1. IInv /\ [Next]_vars => IInv'
    <2>1. IInv /\ UNCHANGED vars => IInv'
      BY DEF IInv, vars, QueueOK
    <2> QED
      BY <2>1, HandlerOK, NetworkOK DEF Next
  <1> QED
    BY InvInit, InvImpliesType, <1>1, PTL DEF SafeSpec
=============================================================================
