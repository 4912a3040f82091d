----------------------- MODULE IoUringLoopOrderProofs -----------------------
(***************************************************************************)
(* Proofs that build on the invariant of the operations in flight: replies *)
(* reach the wire in order, ids are never reused, the accept discipline.   *)
(***************************************************************************)
EXTENDS IoUringLoopProofs

\* The queue holds the completion of a successful send of connection c.
HasOk(q, c) ==
    \E i \in 1 .. Len(q) : q[i].op = "send" /\ q[i].conn = c /\ q[i].res = "ok"

\* Posting a completion adds that completion and nothing else.
LEMMA HasOkAppend ==
    ASSUME NEW q \in Seq(Completions), NEW e \in Completions, NEW c
    PROVE  HasOk(Append(q, e), c) <=>
               HasOk(q, c) \/ (e.op = "send" /\ e.conn = c /\ e.res = "ok")
<1> DEFINE r == Append(q, e)
<1>1. Len(r) = Len(q) + 1 /\ r[Len(q) + 1] = e
      /\ \A i \in 1 .. Len(q) : r[i] = q[i]
  BY AppendProperties
<1>2. Len(q) \in Nat
  BY LenProperties
<1> HIDE DEF r
<1>3. HasOk(r, c) <=> HasOk(q, c) \/ (e.op = "send" /\ e.conn = c /\ e.res = "ok")
  BY <1>1, <1>2 DEF HasOk
<1> QED BY <1>3 DEF r

\* Handling the first completion removes it; a send has at most one.
LEMMA HasOkTail ==
    ASSUME NEW q \in Seq(Completions), q # <<>>, Unique(q), NEW c
    PROVE  /\ HasOk(Tail(q), c) <=>
                 HasOk(q, c) /\ ~(Head(q).op = "send" /\ Head(q).conn = c)
           /\ Head(q).op = "send" /\ Head(q).conn = c =>
                 (HasOk(q, c) <=> Head(q).res = "ok")
<1> DEFINE r == Tail(q)
<1>1. /\ r \in Seq(Completions) /\ Len(r) = Len(q) - 1
      /\ \A i \in 1 .. Len(r) : r[i] = q[i + 1]
      /\ Head(q) = q[1]
  BY HeadTailProperties, SMT
<1>2. Len(q) \in Nat /\ Len(q) >= 1
  BY EmptySeq, LenProperties, SMT
<1> HIDE DEF r
<1>3. ASSUME HasOk(r, c)
      PROVE  HasOk(q, c) /\ ~(Head(q).op = "send" /\ Head(q).conn = c)
  <2>1. PICK i \in 1 .. Len(r) : r[i].op = "send" /\ r[i].conn = c /\ r[i].res = "ok"
    BY <1>3 DEF HasOk
  <2>2. i + 1 \in 1 .. Len(q) /\ 1 \in 1 .. Len(q) /\ i + 1 # 1 /\ r[i] = q[i + 1]
    BY <1>1, <1>2
  <2> QED BY <1>1, <2>1, <2>2 DEF HasOk, Unique
<1>4. ASSUME HasOk(q, c), ~(Head(q).op = "send" /\ Head(q).conn = c)
      PROVE  HasOk(r, c)
  <2>1. PICK i \in 1 .. Len(q) : q[i].op = "send" /\ q[i].conn = c /\ q[i].res = "ok"
    BY <1>4 DEF HasOk
  <2>2. i # 1
    BY <1>1, <1>4, <2>1
  <2>3. i - 1 \in 1 .. Len(r) /\ r[i - 1] = q[i]
    BY <1>1, <1>2, <2>2
  <2> QED BY <2>1, <2>3 DEF HasOk
<1>5. ASSUME Head(q).op = "send", Head(q).conn = c
      PROVE  HasOk(q, c) <=> Head(q).res = "ok"
  <2>1. 1 \in 1 .. Len(q)
    BY <1>2
  <2>2. ASSUME HasOk(q, c) PROVE Head(q).res = "ok"
    <3>1. PICK i \in 1 .. Len(q) : q[i].op = "send" /\ q[i].conn = c /\ q[i].res = "ok"
      BY <2>2 DEF HasOk
    <3>2. i = 1
      BY <1>1, <1>5, <2>1, <3>1 DEF Unique
    <3> QED BY <1>1, <3>1, <3>2
  <2> QED BY <1>1, <1>5, <2>1, <2>2 DEF HasOk
<1> QED BY <1>3, <1>4, <1>5 DEF r

\* A completed send is a send in the queue.
LEMMA OkInCq ==
    ASSUME NEW c, HasOk(cq, c)
    PROVE  InCq("send", c)
BY DEF HasOk, InCq, Has

-----------------------------------------------------------------------------
(* Order.  While a connection is held its queue is the tail end of what    *)
(* was submitted, and the wire is everything before it, plus the front     *)
(* when the front's send has completed but has not been handled.           *)

Ordered(w) == \A i \in 1 .. Len(w) : w[i] = i

Contiguous(q, n) ==
    /\ Len(q) <= n
    /\ \A i \in 1 .. Len(q) : q[i] = n - Len(q) + i

OrderOK(c) ==
    /\ Ordered(wire[c]) /\ Len(wire[c]) <= submitted[c]
    /\ c \in live =>
          /\ Contiguous(buf[c].write_queue, submitted[c])
          /\ Len(wire[c]) = submitted[c] - Len(buf[c].write_queue)
                            + (IF HasOk(cq, c) THEN 1 ELSE 0)

OrderInv == FlightInv /\ \A c \in Conns : OrderOK(c)

\* A connection nothing happened to keeps its order.
LEMMA OrderFrame ==
    ASSUME NEW d \in Conns, OrderOK(d), wire'[d] = wire[d], submitted'[d] = submitted[d],
           d \in live' => d \in live /\ buf'[d].write_queue = buf[d].write_queue,
           HasOk(cq, d)' <=> HasOk(cq, d)
    PROVE  OrderOK(d)'
BY DEF OrderOK

\* Submitting one more reply keeps the queue contiguous.
LEMMA ContiguousAppend ==
    ASSUME NEW q \in Seq(1 .. MaxReplies), NEW n \in Nat, Contiguous(q, n),
           n + 1 \in 1 .. MaxReplies
    PROVE  /\ Contiguous(Append(q, n + 1), n + 1)
           /\ Len(Append(q, n + 1)) = Len(q) + 1
           /\ Append(q, n + 1) \in Seq(1 .. MaxReplies)
<1>1. PICK k \in 1 .. MaxReplies : k = n + 1
  OBVIOUS
<1>2. PICK r : r = Append(q, k)
  OBVIOUS
<1>3. /\ r \in Seq(1 .. MaxReplies) /\ Len(r) = Len(q) + 1 /\ r[Len(q) + 1] = k
      /\ \A i \in 1 .. Len(q) : r[i] = q[i]
  BY <1>2, AppendProperties
<1>4. Len(q) \in Nat
  BY LenProperties
<1>5. Contiguous(r, n + 1)
  BY <1>1, <1>3, <1>4 DEF Contiguous
<1> QED BY <1>1, <1>2, <1>3, <1>5

\* Popping the front keeps the queue contiguous.
LEMMA ContiguousTail ==
    ASSUME NEW q \in Seq(1 .. MaxReplies), NEW n \in Nat, Contiguous(q, n), q # <<>>
    PROVE  /\ Contiguous(Tail(q), n) /\ Len(Tail(q)) = Len(q) - 1
           /\ Head(q) = n - Len(q) + 1
<1>1. PICK r : r = Tail(q)
  OBVIOUS
<1>2. /\ Len(r) = Len(q) - 1 /\ Head(q) = q[1]
      /\ \A i \in 1 .. Len(r) : r[i] = q[i + 1]
  BY <1>1, HeadTailProperties, SMT
<1>3. Len(q) \in Nat /\ Len(q) >= 1
  BY EmptySeq, LenProperties, SMT
<1>4. Contiguous(r, n) /\ Head(q) = n - Len(q) + 1
  BY <1>2, <1>3 DEF Contiguous
<1> QED BY <1>1, <1>2, <1>4

\* Before the first connection nothing is submitted and nothing on the wire.
LEMMA OrderInit == Init => OrderInv
<1> SUFFICES ASSUME Init PROVE OrderInv
  OBVIOUS
<1>1. ASSUME NEW c \in Conns PROVE OrderOK(c)
  <2>1. wire[c] = <<>> /\ submitted[c] = 0 /\ live = {}
    BY DEF Init
  <2> QED BY <2>1 DEF OrderOK, Ordered
<1> QED BY <1>1, FlightInit DEF OrderInv

\* A step that submits nothing, sends nothing and leaves the queues it keeps.
LEMMA OrderQuiet ==
    ASSUME OrderInv, FlightInv', UNCHANGED <<wire, submitted>>,
           \A d \in Conns : d \in live' => /\ d \in live
                                           /\ buf'[d].write_queue = buf[d].write_queue,
           \A d \in Conns : HasOk(cq, d)' <=> HasOk(cq, d)
    PROVE  OrderInv'
BY OrderFrame DEF OrderInv

\* submit_close frees the queue or leaves it as it is.
LEMMA CloseQueue ==
    ASSUME TypeOK, NEW c \in Conns, c \in live, NEW b \in ConnBuffers,
           b.write_queue = buf[c].write_queue,
           \/ SubmitClose(c, b)
           \/ buf' = [buf EXCEPT ![c] = b] /\ UNCHANGED live
    PROVE  \A d \in Conns : d \in live' => /\ d \in live
                                           /\ buf'[d].write_queue = buf[d].write_queue
<1>1. buf \in [Conns -> ConnBuffers]
  BY DEF TypeOK
<1>2. CASE buf' = [buf EXCEPT ![c] = b] /\ UNCHANGED live
  BY <1>1, <1>2
<1>3. CASE SubmitClose(c, b) /\ Busy(b)
  <2>1. PICK m : m = [b EXCEPT !.closing = TRUE]
    OBVIOUS
  <2>2. buf' = [buf EXCEPT ![c] = m] /\ UNCHANGED live
    BY <1>3, <2>1 DEF SubmitClose
  <2>3. m.write_queue = b.write_queue
    BY <2>1, MarkedBuf
  <2> QED BY <1>1, <2>2, <2>3
<1>4. CASE SubmitClose(c, b) /\ ~Busy(b)
  <2>1. buf' = [buf EXCEPT ![c] = NewBuffer] /\ live' = live \ {c}
    BY <1>4 DEF SubmitClose
  <2> QED BY <1>1, <2>1
<1> QED BY <1>2, <1>3, <1>4

\* The steps that touch no connection's queue.
LEMMA OrderIdle ==
    ASSUME OrderInv, FlightInv', UNCHANGED <<live, buf, cq, wire, submitted>>
    PROVE  OrderInv'
BY OrderQuiet

\* A completion other than a send's changes no connection's count of sends.
LEMMA PostOk ==
    ASSUME FlightInv, NEW o, NEW x, NEW res, o # "send",
           Completion(o, x, res) \in Completions, Post(o, x, res)
    PROVE  \A d \in Conns : HasOk(cq, d)' <=> HasOk(cq, d)
<1>1. PICK e \in Completions : e = Completion(o, x, res)
  OBVIOUS
<1>2. cq' = Append(cq, e) /\ e.op # "send" /\ cq \in Seq(Completions)
  BY <1>1 DEF Post, Completion, FlightInv, TypeOK
<1> QED BY <1>2, HasOkAppend

\* Handling a completion other than a send's leaves the sends' alone.
LEMMA DispatchOk ==
    ASSUME FlightInv, NEW o, NEW x, o # "send", Dispatch(o, x)
    PROVE  \A d \in Conns : HasOk(cq, d)' <=> HasOk(cq, d)
<1>1. /\ cq \in Seq(Completions) /\ Unique(cq) /\ cq # <<>> /\ cq' = Tail(cq)
      /\ Head(cq).op # "send"
  BY DEF Dispatch, FlightInv, TypeOK
<1> QED BY <1>1, HasOkTail

\* The kernel's completions other than a send's.
LEMMA OrderKernel ==
    ASSUME OrderInv, FlightInv',
           \/ \E a \in Addrs : KernelAccept(a)
           \/ KernelAcceptFails \/ KernelTimer
           \/ \E c \in Conns, res \in {"data", "failed", "canceled"} : KernelRecv(c, res)
    PROVE  OrderInv'
<1>1. PICK o, x, res : o # "send" /\ Completion(o, x, res) \in Completions /\ Post(o, x, res)
  <2>1. ASSUME NEW a \in Addrs, KernelAccept(a)
        PROVE  Completion("accept", 0, a) \in Completions /\ Post("accept", 0, a)
    BY <2>1 DEF KernelAccept, Completion, Completions, AcceptResults
  <2>2. ASSUME KernelAcceptFails
        PROVE  Completion("accept", 0, "failed") \in Completions /\ Post("accept", 0, "failed")
    BY <2>2 DEF KernelAcceptFails, Completion, Completions, AcceptResults
  <2>3. ASSUME KernelTimer
        PROVE  Completion("timer", 0, "etime") \in Completions /\ Post("timer", 0, "etime")
    BY <2>3 DEF KernelTimer, Completion, Completions
  <2>4. ASSUME NEW c \in Conns, NEW res \in {"data", "failed", "canceled"}, KernelRecv(c, res)
        PROVE  Completion("recv", c, res) \in Completions /\ Post("recv", c, res)
    BY <2>4 DEF KernelRecv, Completion, Completions
  <2> QED BY <2>1, <2>2, <2>3, <2>4
<1>2. UNCHANGED <<live, buf, wire, submitted>>
  BY DEF KernelAccept, KernelAcceptFails, KernelTimer, KernelRecv, connVars, historyVars
<1>3. \A d \in Conns : HasOk(cq, d)' <=> HasOk(cq, d)
  BY <1>1, PostOk DEF OrderInv
<1> QED BY <1>2, <1>3, OrderQuiet

\* A send that succeeds puts the front of the queue on the wire.
LEMMA OrderKernelSend ==
    ASSUME OrderInv, FlightInv', NEW c \in Conns, NEW res \in {"ok", "failed"},
           KernelSend(c, res)
    PROVE  OrderInv'
<1>1. /\ sends[c] # <<>> /\ Post("send", c, res)
      /\ UNCHANGED <<live, buf, submitted>>
  BY DEF KernelSend, connVars
<1>2. /\ ConnOK(c) /\ OrderOK(c) /\ cq \in Seq(Completions) /\ buf[c] \in ConnBuffers
      /\ wire \in [Conns -> Seq(1 .. MaxReplies)] /\ submitted[c] \in Nat
      /\ sends[c] \in Seq(1 .. MaxReplies)
  BY DEF OrderInv, FlightInv, TypeOK
<1>3. PICK e \in Completions : e = Completion("send", c, res)
  BY DEF Completion, Completions
<1>4. cq' = Append(cq, e) /\ e.op = "send" /\ e.conn = c /\ e.res = res
  BY <1>1, <1>3 DEF Post, Completion
<1>5. \A d : HasOk(cq, d)' <=> HasOk(cq, d) \/ (d = c /\ res = "ok")
  BY <1>2, <1>4, HasOkAppend
<1>6. ASSUME NEW d \in Conns, d # c PROVE OrderOK(d)'
  <2>1. wire'[d] = wire[d]
    BY <1>2, <1>6 DEF KernelSend
  <2>2. HasOk(cq, d)' <=> HasOk(cq, d)
    BY <1>5, <1>6
  <2> QED BY <1>1, <1>6, <2>1, <2>2, OrderFrame DEF OrderInv
<1>7. CASE res = "failed"
  <2>1. wire' = wire
    BY <1>7 DEF KernelSend
  <2>2. HasOk(cq, c)' <=> HasOk(cq, c)
    BY <1>5, <1>7
  <2>3. OrderOK(c)'
    BY <1>1, <1>2, <2>1, <2>2, OrderFrame
  <2> QED BY <1>6, <2>3 DEF OrderInv
<1>8. CASE res = "ok"
  <2>1. /\ c \in live /\ ~HasOk(cq, c) /\ buf[c].write_queue # <<>>
        /\ Head(sends[c]) = Head(buf[c].write_queue)
    BY <1>1, <1>2, OkInCq DEF ConnOK, SendOut
  <2>2. PICK q \in Seq(1 .. MaxReplies) : q = buf[c].write_queue
    BY <1>2 DEF ConnBuffers
  <2>3. PICK n \in Nat : n = submitted[c]
    BY <1>2
  <2>4. PICK w \in Seq(1 .. MaxReplies) : w = wire[c]
    BY <1>2
  <2>5. /\ Ordered(w) /\ Len(w) <= n /\ Contiguous(q, n) /\ Len(w) = n - Len(q) + 0
    BY <1>2, <2>1, <2>2, <2>3, <2>4 DEF OrderOK
  <2>6. Head(q) = n - Len(q) + 1 /\ Len(q) \in Nat /\ Len(q) >= 1 /\ Head(q) \in 1 .. MaxReplies
    <3>1. q # <<>>
      BY <2>1, <2>2
    <3>2. Head(q) = n - Len(q) + 1 /\ Head(q) \in 1 .. MaxReplies
      BY <2>5, <3>1, ContiguousTail, HeadTailProperties
    <3> QED BY <3>1, <3>2, EmptySeq, LenProperties, SMT
  <2>7. PICK h \in 1 .. MaxReplies : h = Head(q)
    BY <2>6
  <2>8. PICK r : r = Append(w, h)
    OBVIOUS
  <2>9. /\ Len(r) = Len(w) + 1 /\ r[Len(w) + 1] = h
        /\ \A i \in 1 .. Len(w) : r[i] = w[i]
    BY <2>8, AppendProperties
  <2>10. Len(w) \in Nat
    BY LenProperties
  <2>11. wire'[c] = r
    BY <1>2, <1>8, <2>1, <2>2, <2>4, <2>7, <2>8 DEF KernelSend
  <2>12. Ordered(r) /\ Len(r) <= n /\ Len(r) = n - Len(q) + 1
    BY <2>5, <2>6, <2>7, <2>9, <2>10 DEF Ordered
  <2>13. HasOk(cq, c)'
    BY <1>5, <1>8
  <2>14. OrderOK(c)'
    BY <1>1, <2>1, <2>2, <2>3, <2>5, <2>11, <2>12, <2>13 DEF OrderOK
  <2> QED BY <1>6, <2>14 DEF OrderInv
<1> QED BY <1>7, <1>8

\* A connection whose session submits replies 1 or 2 more keeps its order: what
\* is already on the wire does not depend on what is queued behind it.
LEMMA OrderGrow ==
    ASSUME OrderInv, NEW c \in Conns, c \in live, NEW n \in {1, 2}, NEW b,
           b = Written(buf[c], submitted[c] + 1), SubmitReplies(c, n),
           UNCHANGED <<recvs, cq, wire>>, c \in live' => buf'[c].write_queue =
               IF n = 2 THEN Append(b.write_queue, submitted[c] + 2) ELSE b.write_queue
    PROVE  OrderOK(c)'
<1>1. /\ OrderOK(c) /\ buf[c] \in ConnBuffers /\ wire[c] \in Seq(1 .. MaxReplies)
      /\ FlightInv
  BY DEF OrderInv, FlightInv, TypeOK
<1>2. /\ submitted[c] + n \in 1 .. MaxReplies /\ submitted'[c] = submitted[c] + n
      /\ b.write_queue = Append(buf[c].write_queue, submitted[c] + 1)
  <2>1. UNCHANGED <<recvs, cq>>
    OBVIOUS
  <2>2. Replied(c, n, b)
    BY <1>1, <2>1, ReplyConn
  <2> QED BY <2>2, Zenon DEF Replied
<1>3. PICK k \in Nat : k = submitted[c]
  BY <1>1 DEF FlightInv, TypeOK
<1>4. PICK q \in Seq(1 .. MaxReplies) : q = buf[c].write_queue
  BY <1>1 DEF ConnBuffers
<1>5. PICK w \in Seq(1 .. MaxReplies) : w = wire[c]
  BY <1>1
<1>6. PICK one \in {0, 1} : one = IF HasOk(cq, c) THEN 1 ELSE 0
  OBVIOUS
<1>7. Ordered(w) /\ Len(w) <= k /\ Contiguous(q, k) /\ Len(w) = k - Len(q) + one
  BY <1>1, <1>3, <1>4, <1>5, <1>6 DEF OrderOK
<1>8. Len(w) \in Nat /\ Len(q) \in Nat /\ MaxReplies \in Nat
  BY LenProperties, LoopAssumption
<1>9. k + 1 \in 1 .. MaxReplies /\ (n = 2 => k + 2 \in 1 .. MaxReplies)
  BY <1>2, <1>3, <1>8
<1>10. PICK r : r = Append(q, k + 1)
  OBVIOUS
<1>11. Contiguous(r, k + 1) /\ Len(r) = Len(q) + 1 /\ r \in Seq(1 .. MaxReplies)
  BY <1>7, <1>9, <1>10, ContiguousAppend
<1>12. (HasOk(cq, c)' <=> HasOk(cq, c)) /\ wire'[c] = w
  BY <1>5
<1>13. CASE n = 1
  <2>1. submitted'[c] = k + 1 /\ (c \in live' => buf'[c].write_queue = r)
    BY <1>2, <1>3, <1>4, <1>10, <1>13
  <2>2. Len(w) <= k + 1 /\ Len(w) = k + 1 - Len(r) + one
    BY <1>7, <1>8, <1>11
  <2> QED BY <1>6, <1>7, <1>11, <1>12, <2>1, <2>2 DEF OrderOK
<1>14. CASE n = 2
  <2>1. PICK t : t = Append(r, k + 2)
    OBVIOUS
  <2>2. PICK j \in Nat : j = k + 1
    OBVIOUS
  <2>3. j + 1 \in 1 .. MaxReplies /\ t = Append(r, j + 1) /\ Contiguous(r, j)
    <3>1. j + 1 = k + 2
      BY <2>2
    <3> QED BY <1>9, <1>11, <1>14, <2>1, <2>2, <3>1
  <2>4. Contiguous(t, j + 1) /\ Len(t) = Len(r) + 1
    BY <1>11, <2>3, ContiguousAppend
  <2>5. submitted'[c] = j + 1
    BY <1>2, <1>3, <1>14, <2>2
  <2>6. c \in live' => buf'[c].write_queue = t
    BY <1>2, <1>3, <1>4, <1>10, <1>14, <2>1
  <2>7. Len(w) <= j + 1 /\ Len(w) = j + 1 - Len(t) + one
    <3>1. PICK x \in Nat, y \in Nat : x = Len(w) /\ y = Len(q)
      BY <1>8
    <3>2. x <= k /\ x = k - y + one /\ Len(t) = y + 1 + 1
      BY <1>7, <1>11, <2>4, <3>1
    <3>3. x <= j + 1 /\ x = j + 1 - (y + 1 + 1) + one
      BY <2>2, <3>2
    <3> QED BY <3>1, <3>2, <3>3
  <2> QED BY <1>6, <1>7, <1>12, <2>4, <2>5, <2>6, <2>7 DEF OrderOK
<1> QED BY <1>13, <1>14

\* One connection worked on, the others left alone.
LEMMA OrderOne ==
    ASSUME OrderInv, FlightInv', NEW c \in Conns, OrderOK(c)',
           \A d \in Conns : d # c =>
               /\ wire'[d] = wire[d] /\ submitted'[d] = submitted[d]
               /\ d \in live' => d \in live /\ buf'[d].write_queue = buf[d].write_queue
               /\ HasOk(cq, d)' <=> HasOk(cq, d)
    PROVE  OrderInv'
<1>1. ASSUME NEW d \in Conns, d # c PROVE OrderOK(d)'
  BY <1>1, OrderFrame DEF OrderInv
<1> QED BY <1>1 DEF OrderInv

\* A session's reply, its STARTTLS answer, or ciphertext of OpenSSL's own.
LEMMA OrderReply ==
    ASSUME OrderInv, FlightInv', NEW c \in Conns, c \in live, SubmitReplies(c, 1),
           buf' = [buf EXCEPT ![c] = Written(@, submitted[c] + 1)],
           UNCHANGED <<live, recvs, cq, wire>>
    PROVE  OrderInv'
<1>1. PICK b : b = Written(buf[c], submitted[c] + 1)
  OBVIOUS
<1>2. buf \in [Conns -> ConnBuffers] /\ submitted \in [Conns -> 0 .. MaxReplies]
  BY DEF OrderInv, FlightInv, TypeOK
<1>3. buf'[c] = b /\ \A d \in Conns : d # c => buf'[d] = buf[d]
  BY <1>1, <1>2
<1>4. \A d \in Conns : d # c => submitted'[d] = submitted[d]
  BY <1>2 DEF SubmitReplies
<1>5. OrderOK(c)'
  BY <1>1, <1>3, OrderGrow
<1> QED BY <1>3, <1>4, <1>5, OrderOne

\* QUIT and LOGOUT.
LEMMA OrderSessionQuits ==
    ASSUME OrderInv, FlightInv', NEW c \in Conns, SessionQuits(c)
    PROVE  OrderInv'
<1>1. /\ c \in live /\ SubmitReplies(c, QuitReplies) /\ QuitReplies \in {1, 2}
      /\ UNCHANGED <<recvs, cq, wire>>
  BY DEF SessionQuits, InSession, QuitReplies, loopVars
<1>2. PICK a : a = Written(buf[c], submitted[c] + 1)
  OBVIOUS
<1>3. /\ submitted[c] + QuitReplies \in 1 .. MaxReplies
      /\ a \in ConnBuffers
      /\ \A d \in Conns : d # c => submitted'[d] = submitted[d]
  <2>1. PICK n \in {1, 2} : n = QuitReplies
    BY <1>1
  <2>2. FlightInv /\ SubmitReplies(c, n) /\ UNCHANGED <<recvs, cq>>
    BY <1>1, <2>1 DEF OrderInv
  <2>3. Replied(c, n, a)
    BY <1>1, <1>2, <2>2, ReplyConn
  <2> QED BY <2>1, <2>3, Zenon DEF Replied
<1>4. PICK b : b = IF QuitReplies = 2 THEN Written(a, submitted[c] + 2) ELSE a
  OBVIOUS
<1>5. /\ b \in ConnBuffers
      /\ b.write_queue = IF QuitReplies = 2 THEN Append(a.write_queue, submitted[c] + 2)
                                            ELSE a.write_queue
  <2>1. CASE QuitReplies = 2
    <3>1. PICK k \in 1 .. MaxReplies : k = submitted[c] + 2
      BY <1>3, <2>1
    <3>2. b = Written(a, k)
      BY <1>4, <2>1, <3>1
    <3>3. b \in ConnBuffers /\ b.write_queue = Append(a.write_queue, k)
      BY <1>3, <3>2, WrittenBuf
    <3> QED BY <2>1, <3>1, <3>3
  <2>2. CASE QuitReplies = 1
    BY <1>3, <1>4, <2>2
  <2> QED BY <1>1, <2>1, <2>2
<1>6. buf \in [Conns -> ConnBuffers] /\ TypeOK
  BY DEF OrderInv, FlightInv, TypeOK
<1>7. /\ c \in live' => buf'[c].write_queue = b.write_queue
      /\ \A d \in Conns : d # c => /\ d \in live' => d \in live
                                   /\ buf'[d] = buf[d]
  <2>1. CASE Busy(b) \/ ~QuitCloses
    <3>1. PICK v \in BOOLEAN : v = (b.closing \/ QuitCloses)
      BY <1>5 DEF ConnBuffers
    <3>2. PICK m : m = [b EXCEPT !.closing = v]
      OBVIOUS
    <3>3. m.write_queue = b.write_queue
      BY <1>5, <3>2, MarkedBuf
    <3>4. buf' = [buf EXCEPT ![c] = m] /\ UNCHANGED live
      <4>1. buf' = [buf EXCEPT ![c] = [b EXCEPT !.closing = b.closing \/ QuitCloses]]
            /\ UNCHANGED live
        BY <1>2, <1>4, <2>1 DEF SessionQuits
      <4> QED BY <3>1, <3>2, <4>1
    <3> QED BY <1>6, <3>3, <3>4
  <2>2. CASE ~Busy(b) /\ QuitCloses
    <3>1. SubmitClose(c, b)
      BY <1>2, <1>4, <2>2 DEF SessionQuits
    <3>2. live' = live \ {c} /\ buf' = [buf EXCEPT ![c] = NewBuffer]
      BY <2>2, <3>1 DEF SubmitClose
    <3> QED BY <1>6, <3>2
  <2> QED BY <2>1, <2>2
<1>8. OrderOK(c)'
  BY <1>1, <1>2, <1>5, <1>7, OrderGrow
<1> QED BY <1>1, <1>3, <1>7, <1>8, OrderOne

\* A new connection's queue and history start with its banner.
LEMMA OrderNewConn ==
    ASSUME OrderInv, FlightInv', NewConn
    PROVE  OrderInv'
<1>1. PICK c \in Conns : c = next_conn_id
  BY DEF NewConn, FreshId
<1>2. PICK w : w = Written(NewBuffer, 1)
  OBVIOUS
<1>3. 1 \in 1 .. MaxReplies
  BY LoopAssumption
<1>4. w \in ConnBuffers /\ w.write_queue = Append(<<>>, 1)
  BY <1>2, <1>3, WrittenBuf, NewBufferType
<1>5. PICK b : b = Counted(w)
  OBVIOUS
<1>6. b.write_queue = <<1>>
  <2>1. b.write_queue = w.write_queue
    BY <1>4, <1>5, FieldBuf
  <2> QED BY <1>4, <2>1
<1>7. /\ live' = live \cup {c} /\ buf' = [buf EXCEPT ![c] = b]
      /\ submitted' = [submitted EXCEPT ![c] = @ + 1]
      /\ UNCHANGED <<cq, wire>>
  <2>1. /\ live' = live \cup {c} /\ UNCHANGED <<cq, wire>>
        /\ buf' = [buf EXCEPT ![c] = Counted(Written(NewBuffer, 1))]
        /\ submitted' = [submitted EXCEPT ![c] = @ + 1]
    BY <1>1, Zenon DEF NewConn, FreshId
  <2> QED BY <1>2, <1>5, <2>1
<1>8. /\ ConnOK(c) /\ buf \in [Conns -> ConnBuffers] /\ c \in Int
      /\ submitted \in [Conns -> 0 .. MaxReplies]
  BY DEF OrderInv, FlightInv, TypeOK, Conns
<1>9. /\ submitted[c] = 0 /\ wire[c] = <<>> /\ ~HasOk(cq, c)
  BY <1>1, <1>8, OkInCq DEF ConnOK, SendOut
<1>10. /\ buf'[c] = b /\ submitted'[c] = 1 /\ wire'[c] = <<>> /\ ~HasOk(cq, c)'
       /\ \A d \in Conns : d # c => /\ buf'[d] = buf[d] /\ submitted'[d] = submitted[d]
                                    /\ d \in live' => d \in live
  BY <1>7, <1>8, <1>9
<1>11. Contiguous(<<1>>, 1) /\ Ordered(<<>>) /\ Len(<<>>) = 0 /\ Len(<<1>>) = 1
  BY DEF Contiguous, Ordered
<1>12. OrderOK(c)'
  BY <1>6, <1>10, <1>11 DEF OrderOK
<1>13. \A d \in Conns : wire'[d] = wire[d] /\ (HasOk(cq, d)' <=> HasOk(cq, d))
  BY <1>7
<1> QED BY <1>10, <1>12, <1>13, OrderOne

\* on_read takes a completion that is not a send's and perhaps closes.
LEMMA OrderOnRead ==
    ASSUME OrderInv, FlightInv', NEW c \in Conns, OnRead(c)
    PROVE  OrderInv'
<1>1. Dispatch("recv", c) /\ UNCHANGED <<submitted, wire>>
  BY DEF OnRead, historyVars
<1>2. \A d \in Conns : HasOk(cq, d)' <=> HasOk(cq, d)
  BY <1>1, DispatchOk DEF OrderInv
<1>3. PICK b : b = [buf[c] EXCEPT !.inflight = @ - 1]
  OBVIOUS
<1>4. InCq("recv", c) /\ ConnOK(c) /\ buf[c] \in ConnBuffers /\ TypeOK
  BY <1>1, DispatchCq DEF OrderInv, FlightInv, TypeOK
<1>5. c \in live /\ buf[c].inflight > 0
  BY <1>4 DEF ConnOK, RecvOut
<1>6. b \in ConnBuffers /\ b.write_queue = buf[c].write_queue
  BY <1>3, <1>4, <1>5, FieldBuf
<1>7. SubmitClose(c, b) \/ (buf' = [buf EXCEPT ![c] = b] /\ UNCHANGED live)
  BY <1>3, <1>5 DEF OnRead
<1>8. \A d \in Conns : d \in live' => d \in live /\ buf'[d].write_queue = buf[d].write_queue
  BY <1>4, <1>5, <1>6, <1>7, CloseQueue
<1> QED BY <1>1, <1>2, <1>8, OrderQuiet

\* A close under the running session, or at the end of on_read.
LEMMA OrderCloses ==
    ASSUME OrderInv, FlightInv', NEW c \in Conns,
           EncryptFails(c) \/ FeedThrows(c) \/ AfterSession(c)
    PROVE  OrderInv'
<1>1. UNCHANGED <<submitted, wire, cq>>
  BY DEF EncryptFails, FeedThrows, AfterSession, kernelVars, historyVars
<1>2. buf[c] \in ConnBuffers /\ TypeOK
  BY DEF OrderInv, FlightInv, TypeOK
<1>3. CASE UNCHANGED <<live, buf>>
  BY <1>1, <1>3, OrderIdle
<1>4. CASE c \in live /\ SubmitClose(c, buf[c])
  <2>1. \A d \in Conns : d \in live' => d \in live /\ buf'[d].write_queue = buf[d].write_queue
    BY <1>2, <1>4, CloseQueue
  <2> QED BY <1>1, <2>1, OrderQuiet
<1>5. CASE c \in live /\ buf' = [buf EXCEPT ![c] = Counted(@)] /\ UNCHANGED live
  <2>1. PICK b : b = Counted(buf[c])
    OBVIOUS
  <2>2. b \in ConnBuffers /\ b.write_queue = buf[c].write_queue
    BY <1>2, <2>1, FieldBuf
  <2>3. buf' = [buf EXCEPT ![c] = b]
    BY <1>5, <2>1
  <2>4. \A d \in Conns : d \in live' => d \in live /\ buf'[d].write_queue = buf[d].write_queue
    BY <1>2, <1>5, <2>2, <2>3, CloseQueue
  <2> QED BY <1>1, <2>4, OrderQuiet
<1> QED BY <1>3, <1>4, <1>5 DEF EncryptFails, FeedThrows, AfterSession, InSession

\* on_write pops the reply whose send succeeded: the wire already had it.
LEMMA OrderOnWrite ==
    ASSUME OrderInv, FlightInv', NEW c \in Conns, OnWrite(c)
    PROVE  OrderInv'
<1>1. Dispatch("send", c) /\ UNCHANGED <<submitted, wire>>
  BY DEF OnWrite, historyVars
<1>2. /\ cq \in Seq(Completions) /\ Unique(cq) /\ TypeOK /\ buf[c] \in ConnBuffers
      /\ ConnOK(c) /\ OrderOK(c) /\ buf \in [Conns -> ConnBuffers]
  BY DEF OrderInv, FlightInv, TypeOK
<1>3. InCq("send", c) /\ Head(cq) \in Completions /\ Head(cq).op = "send" /\ Head(cq).conn = c
      /\ cq # <<>> /\ cq' = Tail(cq)
  BY <1>1, <1>2, DispatchCq DEF Dispatch
<1>4. /\ HasOk(cq, c) <=> Head(cq).res = "ok"
      /\ ~HasOk(cq, c)'
      /\ \A d \in Conns : d # c => (HasOk(cq, d)' <=> HasOk(cq, d))
  BY <1>2, <1>3, HasOkTail
<1>5. c \in live /\ buf[c].write_queue # <<>> /\ buf[c].inflight > 0
  BY <1>2, <1>3 DEF ConnOK, SendOut
<1>6. PICK done : done = [buf[c] EXCEPT !.inflight = @ - 1]
  OBVIOUS
<1>7. done \in ConnBuffers /\ done.write_queue = buf[c].write_queue
  BY <1>2, <1>5, <1>6, FieldBuf
<1>8. PICK b : b = Popped(done)
  OBVIOUS
<1>9. b \in ConnBuffers /\ b.write_queue = Tail(buf[c].write_queue)
  BY <1>5, <1>7, <1>8, PoppedBuf
<1>10. CASE Head(cq).res = "failed" /\ SubmitClose(c, done)
  <2>1. \A d \in Conns : d \in live' => d \in live /\ buf'[d].write_queue = buf[d].write_queue
    BY <1>2, <1>5, <1>7, <1>10, CloseQueue
  <2>2. ~HasOk(cq, c)
    BY <1>4, <1>10
  <2> QED BY <1>1, <1>4, <2>1, <2>2, OrderQuiet
<1>11. ASSUME Head(cq).res = "ok", c \in live' => buf'[c].write_queue = b.write_queue,
              \A d \in Conns : d # c => buf'[d] = buf[d] /\ (d \in live' => d \in live)
       PROVE  OrderInv'
  <2>1. PICK q \in Seq(1 .. MaxReplies) : q = buf[c].write_queue
    BY <1>2 DEF ConnBuffers
  <2>2. PICK n \in Nat : n = submitted[c]
    BY <1>2 DEF TypeOK
  <2>3. /\ Ordered(wire[c]) /\ Len(wire[c]) <= n /\ Contiguous(q, n)
        /\ Len(wire[c]) = n - Len(q) + 1
    BY <1>2, <1>4, <1>5, <1>11, <2>1, <2>2 DEF OrderOK
  <2>4. Contiguous(Tail(q), n) /\ Len(Tail(q)) = Len(q) - 1 /\ Len(q) \in Nat
    BY <1>5, <2>1, <2>3, ContiguousTail, LenProperties
  <2>5. PICK y \in Nat : y = Len(q)
    BY <2>4
  <2>6. Len(wire[c]) = n - Len(Tail(q)) + 0
    <3>1. n - y + 1 = n - (y - 1) + 0
      OBVIOUS
    <3> QED BY <2>3, <2>4, <2>5, <3>1
  <2>7. OrderOK(c)'
    BY <1>1, <1>4, <1>9, <1>11, <2>1, <2>2, <2>3, <2>4, <2>6 DEF OrderOK
  <2> QED BY <1>1, <1>4, <1>11, <2>7, OrderOne
<1>12. CASE Head(cq).res = "ok" /\ (SubmitClose(c, b)
                                   \/ (buf' = [buf EXCEPT ![c] = b] /\ UNCHANGED live))
  <2>1. CASE SubmitClose(c, b) /\ Busy(b)
    <3>1. PICK m : m = [b EXCEPT !.closing = TRUE]
      OBVIOUS
    <3>2. m.write_queue = b.write_queue
      BY <1>9, <3>1, MarkedBuf
    <3>3. buf' = [buf EXCEPT ![c] = m] /\ UNCHANGED live
      BY <2>1, <3>1 DEF SubmitClose
    <3> QED BY <1>2, <1>11, <1>12, <3>2, <3>3
  <2>2. CASE SubmitClose(c, b) /\ ~Busy(b)
    <3>1. buf' = [buf EXCEPT ![c] = NewBuffer] /\ live' = live \ {c}
      BY <2>2 DEF SubmitClose
    <3> QED BY <1>2, <1>11, <1>12, <3>1
  <2>3. CASE buf' = [buf EXCEPT ![c] = b] /\ UNCHANGED live
    BY <1>2, <1>11, <1>12, <2>3
  <2> QED BY <1>12, <2>1, <2>2, <2>3
<1>13. CASE /\ Head(cq).res = "ok" /\ b.write_queue # <<>>
            /\ buf' = [buf EXCEPT ![c] = Flushed(b)] /\ UNCHANGED live
  <2>1. PICK f : f = Flushed(b)
    OBVIOUS
  <2>2. f.write_queue = b.write_queue
    BY <1>9, <1>13, <2>1, FlushedBuf
  <2>3. buf' = [buf EXCEPT ![c] = f]
    BY <1>13, <2>1
  <2> QED BY <1>2, <1>11, <1>13, <2>2, <2>3
<1> QED BY <1>5, <1>6, <1>8, <1>10, <1>12, <1>13, Zenon DEF OnWrite

\* Every step keeps the order.
LEMMA OrderNext == OrderInv /\ [Next]_vars => OrderInv'
<1> SUFFICES ASSUME OrderInv, [Next]_vars PROVE OrderInv'
  OBVIOUS
<1>1. FlightInv'
  BY FlightNext DEF OrderInv
<1> USE <1>1
<1>2. CASE UNCHANGED vars
  BY <1>2, OrderIdle DEF vars, connVars, kernelVars, historyVars
<1>3. CASE Environment
  <2>1. CASE RequestShutdown
    BY <2>1, OrderIdle DEF RequestShutdown, connVars, kernelVars, historyVars
  <2> QED BY <1>3, <2>1, OrderKernel, OrderKernelSend DEF Environment
<1>4. CASE TestShutdown \/ WaitCqe \/ EndBatch \/ RefuseConn
  BY <1>4, OrderIdle DEF TestShutdown, WaitCqe, EndBatch, RefuseConn, connVars,
                         kernelVars, historyVars
<1>5. CASE OnTimer \/ OnAccept
  <2>1. PICK o \in {"timer", "accept"} : Dispatch(o, 0)
    BY <1>5 DEF OnTimer, OnAccept
  <2>2. UNCHANGED <<live, buf, wire, submitted>>
    BY <1>5 DEF OnTimer, OnAccept, connVars, historyVars
  <2>3. \A d \in Conns : HasOk(cq, d)' <=> HasOk(cq, d)
    BY <2>1, DispatchOk DEF OrderInv
  <2> QED BY <2>2, <2>3, OrderQuiet
<1>6. ASSUME NEW c \in Conns, SessionReplies(c) \/ SessionUpgrades(c) PROVE OrderInv'
  <2>1. /\ c \in live /\ SubmitReplies(c, 1)
        /\ buf' = [buf EXCEPT ![c] = Written(@, submitted[c] + 1)]
        /\ UNCHANGED <<live, recvs, cq, wire>>
    BY <1>6 DEF SessionReplies, SessionUpgrades, InSession
  <2> QED BY <2>1, OrderReply
<1>7. ASSUME NEW c \in Conns, FeedReturns(c) PROVE OrderInv'
  <2>1. CASE UNCHANGED <<buf, sends, submitted>>
    BY <1>7, <2>1, OrderIdle DEF FeedReturns
  <2>2. CASE /\ c \in live /\ SubmitReplies(c, 1)
             /\ buf' = [buf EXCEPT ![c] = Written(@, submitted[c] + 1)]
    BY <1>7, <2>2, OrderReply DEF FeedReturns
  <2> QED BY <1>7, <2>1, <2>2 DEF FeedReturns
<1>8. ASSUME NEW c \in Conns, PlainReturns(c) \/ SessionThrows(c) PROVE OrderInv'
  BY <1>8, OrderIdle DEF PlainReturns, SessionThrows, connVars, kernelVars, historyVars
<1>9. ASSUME NEW c \in Conns, Session(c) PROVE OrderInv'
  BY <1>6, <1>7, <1>8, <1>9, OrderSessionQuits, OrderCloses DEF Session
<1> QED BY <1>2, <1>3, <1>4, <1>5, <1>9, OrderNewConn, OrderOnRead, OrderCloses,
           OrderOnWrite DEF Next, Loop, Exited

\* What the client reads is, at every moment, a prefix of what the session
\* submitted: submit_write, flush_write and on_write never skip, repeat or
\* reorder a reply, whatever the session does and however sends fail.
THEOREM OrderCorrect == Spec => []RepliesInOrder
<1>1. OrderInv => RepliesInOrder
  BY DEF OrderInv, OrderOK, Ordered, RepliesInOrder
<1> QED BY <1>1, OrderInit, OrderNext, PTL DEF Spec

-----------------------------------------------------------------------------
(* Which connections are held.                                             *)

\* Only on_accept adds a connection: under the limit, with the next id.
LEMMA LiveStep ==
    ASSUME [Next]_vars
    PROVE  \/ live' \subseteq live
           \/ ~AtLimit /\ live' = live \cup {next_conn_id}
<1> USE DEF connVars
<1>1. ASSUME NEW c, NEW b, SubmitClose(c, b) PROVE live' \subseteq live
  BY <1>1 DEF SubmitClose
<1>2. CASE NewConn
  BY <1>2 DEF NewConn, FreshId
<1>3. CASE Environment \/ UNCHANGED vars
  BY <1>3 DEF Environment, KernelAccept, KernelAcceptFails, KernelRecv, KernelSend,
              KernelTimer, RequestShutdown, vars
<1>4. CASE TestShutdown \/ WaitCqe \/ EndBatch \/ OnTimer \/ OnAccept \/ RefuseConn
  BY <1>4 DEF TestShutdown, WaitCqe, EndBatch, OnTimer, OnAccept, RefuseConn
<1>5. ASSUME NEW c \in Conns, Session(c) PROVE live' \subseteq live
  <2>1. CASE SessionQuits(c)
    BY <1>1, <2>1 DEF SessionQuits
  <2>2. CASE EncryptFails(c) \/ FeedThrows(c)
    BY <1>1, <2>2 DEF EncryptFails, FeedThrows
  <2>3. CASE \/ SessionReplies(c) \/ SessionUpgrades(c) \/ SessionThrows(c)
             \/ PlainReturns(c) \/ FeedReturns(c)
    BY <2>3 DEF SessionReplies, SessionUpgrades, SessionThrows, PlainReturns, FeedReturns
  <2> QED BY <1>5, <2>1, <2>2, <2>3 DEF Session
<1>6. ASSUME NEW c \in Conns, OnRead(c) PROVE live' \subseteq live
  BY <1>1, <1>6 DEF OnRead
<1>7. ASSUME NEW c \in Conns, AfterSession(c) PROVE live' \subseteq live
  BY <1>1, <1>7 DEF AfterSession
<1>8. ASSUME NEW c \in Conns, OnWrite(c) PROVE live' \subseteq live
  BY <1>1, <1>8 DEF OnWrite
<1> QED BY <1>2, <1>3, <1>4, <1>5, <1>6, <1>7, <1>8 DEF Next, Loop, Exited

\* An id below next_conn_id_ that is not in buffers_ never comes back: a late
\* completion cannot reach another client's connection.
THEOREM IdCorrect == Spec => IdNeverReused
<1> DEFINE Erased == \A c \in Conns : c < next_conn_id /\ c \notin live => c \notin live'
<1>1. FlightInv /\ [Next]_vars => [Erased]_vars
  <2> SUFFICES ASSUME FlightInv, [Next]_vars, NEW c \in Conns,
                      c < next_conn_id, c \notin live
               PROVE  c \notin live'
    OBVIOUS
  <2>1. c # next_conn_id
    BY DEF FlightInv, TypeOK, Conns
  <2> QED BY <2>1, LiveStep
<1> QED BY <1>1, FlightCorrect, PTL DEF Spec, IdNeverReused

\* on_accept holds at most MaxLive connections and keeps exactly one accept
\* armed or waiting to be handled.
THEOREM AcceptCorrect == Spec => []AcceptDiscipline
<1> DEFINE Few == Cardinality(live) <= MaxLive
<1>1. Init => Few
  BY FS_EmptySet, LoopAssumption DEF Init
<1>2. FlightInv /\ Few /\ [Next]_vars => Few'
  <2> SUFFICES ASSUME FlightInv, Few, [Next]_vars PROVE Few'
    OBVIOUS
  <2>1. IsFiniteSet(live) /\ Cardinality(live) \in Nat /\ MaxLive \in Nat
    <3>1. IsFiniteSet(Conns)
      BY FS_Interval, LoopAssumption DEF Conns
    <3>2. live \subseteq Conns
      BY DEF FlightInv, TypeOK
    <3> QED BY <3>1, <3>2, FS_Subset, FS_CardinalityType, LoopAssumption
  <2>2. CASE live' \subseteq live
    <3>1. Cardinality(live') <= Cardinality(live) /\ Cardinality(live') \in Nat
      BY <2>1, <2>2, FS_Subset, FS_CardinalityType
    <3> QED BY <2>1, <3>1
  <2>3. CASE ~AtLimit /\ live' = live \cup {next_conn_id}
    <3>1. Cardinality(live) < MaxLive
      BY <2>1, <2>3 DEF AtLimit
    <3>2. Cardinality(live') \in {Cardinality(live), Cardinality(live) + 1}
      BY <2>1, <2>3, FS_AddElement
    <3> QED BY <2>1, <3>1, <3>2
  <2> QED BY <2>2, <2>3, LiveStep
<1>3. FlightInv /\ Few => AcceptDiscipline
  BY DEF FlightInv, Singles, AcceptDiscipline
<1> QED BY <1>1, <1>2, <1>3, FlightCorrect, PTL DEF Spec
=============================================================================
