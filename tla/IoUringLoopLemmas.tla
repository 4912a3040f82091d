------------------------- MODULE IoUringLoopLemmas -------------------------
(***************************************************************************)
(* What the proofs about IoUringLoop rest on: the completion queue, the    *)
(* operations of a ConnBuffer, the inductive invariant of the operations   *)
(* in flight, and its preservation by the steps of the kernel.             *)
(***************************************************************************)
EXTENDS IoUringLoop, SequenceTheorems, FiniteSetTheorems, TLAPS

\* No two completions of one operation of one connection wait at once.
Unique(q) ==
    \A i, j \in 1 .. Len(q) : q[i].op = q[j].op /\ q[i].conn = q[j].conn => i = j

-----------------------------------------------------------------------------
(* The completion queue.                                                   *)

\* Posting a completion adds that completion and nothing else.
LEMMA HasAppend ==
    ASSUME NEW q \in Seq(Completions), NEW e \in Completions, NEW op, NEW c
    PROVE  Has(Append(q, e), op, c) <=> Has(q, op, c) \/ (e.op = op /\ e.conn = c)
<1> DEFINE r == Append(q, e)
<1>1. Len(r) = Len(q) + 1 /\ r[Len(q) + 1] = e
      /\ \A i \in 1 .. Len(q) : r[i] = q[i]
  BY AppendProperties
<1>2. Len(q) \in Nat
  BY LenProperties
<1> HIDE DEF r
<1>3. Has(r, op, c) <=> Has(q, op, c) \/ (e.op = op /\ e.conn = c)
  BY <1>1, <1>2 DEF Has
<1> QED BY <1>3 DEF r

\* Posting a completion that was not there keeps the queue free of duplicates.
LEMMA UniqueAppend ==
    ASSUME NEW q \in Seq(Completions), NEW e \in Completions,
           Unique(q), ~Has(q, e.op, e.conn)
    PROVE  Unique(Append(q, e))
<1> DEFINE r == Append(q, e)
<1>1. Len(r) = Len(q) + 1 /\ r[Len(q) + 1] = e
      /\ \A i \in 1 .. Len(q) : r[i] = q[i]
  BY AppendProperties
<1>2. Len(q) \in Nat
  BY LenProperties
<1> HIDE DEF r
<1>3. Unique(r)
  BY <1>1, <1>2 DEF Has, Unique
<1> QED BY <1>3 DEF r

\* Handling the first completion removes it and, since there are no
\* duplicates, no other completion of that operation is left.
LEMMA HasTail ==
    ASSUME NEW q \in Seq(Completions), q # <<>>, Unique(q), NEW op, NEW c
    PROVE  /\ Has(Tail(q), op, c) <=>
                 Has(q, op, c) /\ ~(Head(q).op = op /\ Head(q).conn = c)
           /\ Has(q, Head(q).op, Head(q).conn)
           /\ Unique(Tail(q))
           /\ Tail(q) \in Seq(Completions)
           /\ Head(q) \in Completions
<1> DEFINE r == Tail(q)
<1>1. /\ r \in Seq(Completions) /\ Len(r) = Len(q) - 1
      /\ \A i \in 1 .. Len(r) : r[i] = q[i + 1]
      /\ Head(q) = q[1] /\ Head(q) \in Completions
  BY HeadTailProperties, SMT
<1>2. Len(q) \in Nat /\ Len(q) >= 1
  BY EmptySeq, LenProperties, SMT
<1> HIDE DEF r
<1>3. Has(q, Head(q).op, Head(q).conn)
  BY <1>1, <1>2 DEF Has
<1>4. Unique(r)
  BY <1>1, <1>2 DEF Unique
<1>5. ASSUME Has(r, op, c)
      PROVE  Has(q, op, c) /\ ~(Head(q).op = op /\ Head(q).conn = c)
  <2>1. PICK i \in 1 .. Len(r) : r[i].op = op /\ r[i].conn = c
    BY <1>5 DEF Has
  <2>2. i + 1 \in 1 .. Len(q) /\ 1 \in 1 .. Len(q) /\ i + 1 # 1 /\ r[i] = q[i + 1]
    BY <1>1, <1>2
  <2> QED BY <1>1, <2>1, <2>2 DEF Has, Unique
<1>6. ASSUME Has(q, op, c), ~(Head(q).op = op /\ Head(q).conn = c)
      PROVE  Has(r, op, c)
  <2>1. PICK i \in 1 .. Len(q) : q[i].op = op /\ q[i].conn = c
    BY <1>6 DEF Has
  <2>2. i # 1
    BY <1>1, <1>6, <2>1
  <2>3. i - 1 \in 1 .. Len(r) /\ r[i - 1] = q[i]
    BY <1>1, <1>2, <2>2
  <2> QED BY <2>1, <2>3 DEF Has
<1> QED BY <1>1, <1>3, <1>4, <1>5, <1>6 DEF r

\* The kernel posts a completion of an operation none of which waits.
LEMMA PostCq ==
    ASSUME cq \in Seq(Completions), Unique(cq), NEW o, NEW x, NEW res,
           Completion(o, x, res) \in Completions, Post(o, x, res), ~InCq(o, x)
    PROVE  /\ cq' \in Seq(Completions)
           /\ Unique(cq')
           /\ \A op, c : InCq(op, c)' <=> InCq(op, c) \/ (op = o /\ c = x)
<1> DEFINE e == Completion(o, x, res)
<1>1. e.op = o /\ e.conn = x
  BY DEF Completion
<1>2. cq' = Append(cq, e)
  BY DEF Post
<1>3. cq' \in Seq(Completions)
  BY <1>2, AppendProperties
<1>4. Unique(cq')
  BY <1>1, <1>2, UniqueAppend DEF InCq
<1>5. ASSUME NEW op, NEW c
      PROVE  InCq(op, c)' <=> InCq(op, c) \/ (op = o /\ c = x)
  BY <1>1, <1>2, HasAppend DEF InCq
<1> QED BY <1>3, <1>4, <1>5

\* The loop handles the first completion.
LEMMA DispatchCq ==
    ASSUME cq \in Seq(Completions), Unique(cq), NEW o, NEW x, Dispatch(o, x)
    PROVE  /\ cq' \in Seq(Completions)
           /\ Unique(cq')
           /\ \A op, c : InCq(op, c)' <=> InCq(op, c) /\ ~(op = o /\ c = x)
           /\ InCq(o, x)
           /\ Head(cq) \in Completions /\ Head(cq).op = o /\ Head(cq).conn = x
<1>1. cq # <<>> /\ Head(cq).op = o /\ Head(cq).conn = x /\ cq' = Tail(cq)
  BY DEF Dispatch
<1>2. /\ cq' \in Seq(Completions) /\ Unique(cq')
      /\ InCq(o, x) /\ Head(cq) \in Completions
  BY <1>1, HasTail DEF InCq
<1>3. ASSUME NEW op, NEW c
      PROVE  InCq(op, c)' <=> InCq(op, c) /\ ~(op = o /\ c = x)
  BY <1>1, HasTail DEF InCq
<1> QED BY <1>1, <1>2, <1>3

-----------------------------------------------------------------------------
(* ConnBuffer operations.                                                  *)

\* flush_write of a queue that is not empty counts the send it arms.
LEMMA FlushedBuf ==
    ASSUME NEW b \in ConnBuffers, b.write_queue # <<>>
    PROVE  /\ Flushed(b) \in ConnBuffers
           /\ Flushed(b).write_queue = b.write_queue
           /\ Flushed(b).write_pending
           /\ Flushed(b).closing = b.closing
           /\ Flushed(b).inflight = b.inflight + 1
<1>1. Flushed(b) = [b EXCEPT !.write_pending = TRUE, !.inflight = b.inflight + 1]
  BY DEF Flushed
<1>2. b = [write_queue |-> b.write_queue, write_pending |-> b.write_pending,
           closing |-> b.closing, inflight |-> b.inflight]
  BY DEF ConnBuffers
<1>3. Flushed(b) = [write_queue |-> b.write_queue, write_pending |-> TRUE,
                    closing |-> b.closing, inflight |-> b.inflight + 1]
  BY <1>1, <1>2
<1> QED BY <1>3 DEF ConnBuffers

\* submit_write appends the reply, leaves a send pending, and counts one more
\* operation exactly when none was pending.
LEMMA WrittenBuf ==
    ASSUME NEW b \in ConnBuffers, NEW n \in 1 .. MaxReplies
    PROVE  /\ Written(b, n) \in ConnBuffers
           /\ Written(b, n).write_queue = Append(b.write_queue, n)
           /\ Written(b, n).write_pending
           /\ Written(b, n).closing = b.closing
           /\ Written(b, n).inflight =
                 (IF b.write_pending THEN b.inflight ELSE b.inflight + 1)
<1> DEFINE q == [b EXCEPT !.write_queue = Append(@, n)]
<1>1. /\ b.write_queue \in Seq(1 .. MaxReplies) /\ b.write_pending \in BOOLEAN
      /\ b.closing \in BOOLEAN /\ b.inflight \in Nat
  BY DEF ConnBuffers
<1>2. Append(b.write_queue, n) \in Seq(1 .. MaxReplies)
      /\ Append(b.write_queue, n) # <<>>
  <2>1. /\ Append(b.write_queue, n) \in Seq(1 .. MaxReplies)
        /\ Len(Append(b.write_queue, n)) = Len(b.write_queue) + 1
    BY <1>1, AppendProperties
  <2>2. Len(b.write_queue) \in Nat
    BY <1>1, LenProperties
  <2> QED BY <2>1, <2>2, EmptySeq
<1>3. /\ q \in ConnBuffers /\ q.write_queue = Append(b.write_queue, n)
      /\ q.write_pending = b.write_pending /\ q.closing = b.closing
      /\ q.inflight = b.inflight
  BY <1>1, <1>2 DEF ConnBuffers
<1>4. Written(b, n) = IF ~q.write_pending THEN Flushed(q) ELSE q
  BY DEF Written, SendIdle
<1> HIDE DEF q
<1>5. CASE b.write_pending
  <2>1. Written(b, n) = q /\ q.write_pending
    BY <1>3, <1>4, <1>5
  <2> QED BY <1>3, <1>5, <2>1
<1>6. CASE ~b.write_pending
  <2>1. Written(b, n) = Flushed(q) /\ q.write_queue # <<>>
    BY <1>2, <1>3, <1>4, <1>6
  <2> QED BY <1>3, <1>6, <2>1, FlushedBuf
<1> QED BY <1>5, <1>6

\* on_write's pop removes the front and clears write_pending.
LEMMA PoppedBuf ==
    ASSUME NEW b \in ConnBuffers, b.write_queue # <<>>
    PROVE  /\ Popped(b) \in ConnBuffers
           /\ Popped(b).write_queue = Tail(b.write_queue)
           /\ ~Popped(b).write_pending
           /\ Popped(b).closing = b.closing
           /\ Popped(b).inflight = b.inflight
<1>1. Tail(b.write_queue) \in Seq(1 .. MaxReplies)
  BY HeadTailProperties DEF ConnBuffers
<1> QED BY <1>1 DEF Popped, ConnBuffers

\* Counting one operation more or less, and marking, change one field.
LEMMA FieldBuf ==
    ASSUME NEW b \in ConnBuffers
    PROVE  /\ Counted(b) \in ConnBuffers
           /\ Counted(b).write_queue = b.write_queue
           /\ Counted(b).write_pending = b.write_pending
           /\ Counted(b).closing = b.closing
           /\ Counted(b).inflight = b.inflight + 1
           /\ b.inflight > 0 => [b EXCEPT !.inflight = @ - 1] \in ConnBuffers
           /\ [b EXCEPT !.inflight = @ - 1].write_queue = b.write_queue
           /\ [b EXCEPT !.inflight = @ - 1].write_pending = b.write_pending
           /\ [b EXCEPT !.inflight = @ - 1].closing = b.closing
           /\ [b EXCEPT !.inflight = @ - 1].inflight = b.inflight - 1
<1>1. b = [write_queue |-> b.write_queue, write_pending |-> b.write_pending,
           closing |-> b.closing, inflight |-> b.inflight]
  BY DEF ConnBuffers
<1>2. Counted(b) = [write_queue |-> b.write_queue, write_pending |-> b.write_pending,
                    closing |-> b.closing, inflight |-> b.inflight + 1]
  BY <1>1 DEF Counted
<1>3. [b EXCEPT !.inflight = @ - 1] =
          [write_queue |-> b.write_queue, write_pending |-> b.write_pending,
           closing |-> b.closing, inflight |-> b.inflight - 1]
  BY <1>1
<1>4. Counted(b) \in ConnBuffers
  BY <1>2 DEF ConnBuffers
<1>5. b.inflight > 0 => [b EXCEPT !.inflight = @ - 1] \in ConnBuffers
  BY <1>3 DEF ConnBuffers
<1> QED BY <1>2, <1>3, <1>4, <1>5

\* Marking a ConnBuffer as closing changes only that field.
LEMMA MarkedBuf ==
    ASSUME NEW b \in ConnBuffers, NEW v \in BOOLEAN
    PROVE  LET m == [b EXCEPT !.closing = v]
           IN /\ m \in ConnBuffers
              /\ m.write_queue = b.write_queue
              /\ m.write_pending = b.write_pending
              /\ m.closing = v
              /\ m.inflight = b.inflight
<1>1. b = [write_queue |-> b.write_queue, write_pending |-> b.write_pending,
           closing |-> b.closing, inflight |-> b.inflight]
  BY DEF ConnBuffers
<1>2. [b EXCEPT !.closing = v] =
          [write_queue |-> b.write_queue, write_pending |-> b.write_pending,
           closing |-> v, inflight |-> b.inflight]
  BY <1>1
<1>3. [b EXCEPT !.closing = v] \in ConnBuffers
  BY <1>2 DEF ConnBuffers
<1> QED BY <1>2, <1>3

\* A fresh ConnBuffer is well typed, empty and idle.
LEMMA NewBufferType ==
    /\ NewBuffer \in ConnBuffers
    /\ NewBuffer.write_queue = <<>> /\ ~NewBuffer.write_pending
    /\ ~NewBuffer.closing /\ NewBuffer.inflight = 0
<1>1. <<>> \in Seq(1 .. MaxReplies)
  OBVIOUS
<1> QED BY <1>1 DEF NewBuffer, ConnBuffers

-----------------------------------------------------------------------------
(* The inductive invariant of the operations in flight.                    *)

InHandler == {"plain", "feed", "tail"}

Handler ==
    /\ pc \in InHandler => cur \in Conns
    /\ pc \notin InHandler \cup {"exited"} => cur = 0

ConnOK(c) ==
    /\ recvs[c] <= 1 /\ (InCq("recv", c) => recvs[c] = 0)
    /\ Len(sends[c]) <= 1 /\ (InCq("send", c) => sends[c] = <<>>)
    /\ buf[c].inflight = (IF RecvOut(c) THEN 1 ELSE 0) + (IF SendOut(c) THEN 1 ELSE 0)
    /\ RecvOut(c) \/ SendOut(c) => c \in live
    /\ cur = c => ~RecvOut(c)
    /\ SendOut(c) => buf[c].write_queue # <<>> /\ buf[c].write_pending
    /\ sends[c] # <<>> => Head(sends[c]) = Head(buf[c].write_queue)
    /\ c \notin live => buf[c] = NewBuffer
    /\ c >= next_conn_id => c \notin live /\ submitted[c] = 0 /\ wire[c] = <<>>

Singles ==
    /\ accepts + (IF InCq("accept", 0) THEN 1 ELSE 0) = 1
    /\ timers + (IF InCq("timer", 0) THEN 1 ELSE 0) <= 1

FlightInv ==
    /\ TypeOK
    /\ Unique(cq)
    /\ Handler
    /\ Singles
    /\ \A c \in Conns : ConnOK(c)

\* A connection nothing happened to keeps its part of the invariant.
LEMMA FrameConn ==
    ASSUME NEW d \in Conns, ConnOK(d),
           recvs'[d] = recvs[d], sends'[d] = sends[d], buf'[d] = buf[d],
           InCq("recv", d)' <=> InCq("recv", d), InCq("send", d)' <=> InCq("send", d),
           d \in live' <=> d \in live, cur' = d => cur = d,
           d >= next_conn_id' => d >= next_conn_id,
           submitted'[d] = submitted[d], wire'[d] = wire[d]
    PROVE  ConnOK(d)'
BY DEF ConnOK, RecvOut, SendOut

\* The invariant holds before the loop has accepted anyone.
LEMMA FlightInit == Init => FlightInv
<1> SUFFICES ASSUME Init PROVE FlightInv
  OBVIOUS
<1>1. TypeOK
  <2>1. /\ <<>> \in Seq(1 .. MaxReplies)
        /\ <<>> \in Seq(Completions)
    OBVIOUS
  <2>2. NewBuffer \in ConnBuffers
    BY <2>1 DEF NewBuffer, ConnBuffers
  <2>3. buf \in [Conns -> ConnBuffers]
    BY <2>2 DEF Init
  <2>4. sends \in [Conns -> Seq(1 .. MaxReplies)] /\ wire \in [Conns -> Seq(1 .. MaxReplies)]
    BY <2>1 DEF Init
  <2>5. next_conn_id \in 1 .. LastConn + 1 /\ submitted \in [Conns -> 0 .. MaxReplies]
    BY LoopAssumption DEF Init
  <2> HIDE DEF ConnBuffers, Completions
  <2> QED BY <2>1, <2>3, <2>4, <2>5 DEF Init, TypeOK, AcceptResults
<1>2. Unique(cq)
  BY DEF Init, Unique
<1>3. Handler
  BY DEF Init, Handler, InHandler
<1>4. ASSUME NEW c \in Conns PROVE ConnOK(c)
  BY DEF Init, ConnOK, RecvOut, SendOut, InCq, Has, NewBuffer
<1>5. Singles
  BY DEF Init, Singles, InCq, Has
<1> QED BY <1>1, <1>2, <1>3, <1>4, <1>5 DEF FlightInv

\* What a step that only moves the loop's thread leaves alone.
LEMMA FlightIdle ==
    ASSUME FlightInv, TypeOK', Handler', UNCHANGED <<live, buf, recvs, sends, cq>>,
           UNCHANGED <<accepts, timers>>,
           UNCHANGED <<next_conn_id, submitted, wire>>,
           \A c \in Conns : cur' = c => cur = c
    PROVE  FlightInv'
<1>1. Unique(cq')
  BY DEF FlightInv
<1>2. ASSUME NEW d \in Conns PROVE ConnOK(d)'
  BY FrameConn DEF FlightInv, InCq
<1>3. Singles'
  BY DEF FlightInv, Singles, InCq
<1> QED BY <1>1, <1>2, <1>3 DEF FlightInv

\* The steps of run() itself, and those that only leave a session.
LEMMA FlightPc ==
    ASSUME FlightInv,
           \/ TestShutdown \/ WaitCqe \/ EndBatch \/ RefuseConn \/ RequestShutdown
           \/ \E c \in Conns : PlainReturns(c) \/ SessionThrows(c)
    PROVE  FlightInv'
<1> USE DEF loopVars, connVars, kernelVars, historyVars
<1>1. CASE TestShutdown \/ WaitCqe \/ EndBatch
  <2>1. UNCHANGED <<cur, accepted, next_conn_id, g_shutdown, connVars, kernelVars, historyVars>>
    BY <1>1 DEF TestShutdown, WaitCqe, EndBatch
  <2>2. pc' \in {"test", "wait", "batch", "exited"} /\ pc \notin InHandler \cup {"exited"}
    BY <1>1 DEF TestShutdown, WaitCqe, EndBatch, InHandler
  <2>3. TypeOK'
    BY <2>1, <2>2 DEF FlightInv, TypeOK
  <2>4. Handler'
    BY <2>1, <2>2 DEF FlightInv, Handler, InHandler
  <2> QED BY <2>1, <2>3, <2>4, FlightIdle
<1>2. CASE RefuseConn
  <2>1. TypeOK'
    BY <1>2 DEF RefuseConn, FlightInv, TypeOK, AcceptResults
  <2>2. Handler'
    BY <1>2 DEF RefuseConn, FlightInv, Handler, InHandler
  <2> QED BY <1>2, <2>1, <2>2, FlightIdle DEF RefuseConn
<1>3. CASE RequestShutdown
  <2>1. TypeOK'
    BY <1>3 DEF RequestShutdown, FlightInv, TypeOK
  <2>2. Handler'
    BY <1>3 DEF RequestShutdown, FlightInv, Handler
  <2> QED BY <1>3, <2>1, <2>2, FlightIdle DEF RequestShutdown
<1>4. CASE \E c \in Conns : PlainReturns(c)
  <2>1. TypeOK'
    BY <1>4 DEF PlainReturns, FlightInv, TypeOK
  <2>2. Handler'
    BY <1>4 DEF PlainReturns, FlightInv, Handler, InHandler
  <2> QED BY <1>4, <2>1, <2>2, FlightIdle DEF PlainReturns
<1>5. CASE \E c \in Conns : SessionThrows(c)
  <2>1. TypeOK'
    BY <1>5 DEF SessionThrows, FlightInv, TypeOK
  <2>2. Handler'
    BY <1>5 DEF SessionThrows, FlightInv, Handler, InHandler
  <2> QED BY <1>5, <2>1, <2>2, FlightIdle DEF SessionThrows
<1> QED BY <1>1, <1>2, <1>3, <1>4, <1>5

\* The kernel completes an accept or the timer.
LEMMA FlightKernelSingle ==
    ASSUME FlightInv,
           (\E a \in Addrs : KernelAccept(a)) \/ KernelAcceptFails \/ KernelTimer
    PROVE  FlightInv'
<1> USE DEF loopVars, connVars, historyVars
<1>1. PICK o \in {"accept", "timer"}, res \in AcceptResults \cup {"etime"} :
          /\ Post(o, 0, res) /\ Completion(o, 0, res) \in Completions
          /\ IF o = "accept" THEN accepts > 0 /\ accepts' = accepts - 1 /\ timers' = timers
                             ELSE timers > 0 /\ timers' = timers - 1 /\ accepts' = accepts
          /\ client_addr' \in Addrs
  BY DEF KernelAccept, KernelAcceptFails, KernelTimer, Completion, Completions,
         AcceptResults, FlightInv, TypeOK
<1>2. UNCHANGED <<loopVars, connVars, recvs, sends, historyVars>>
  BY DEF KernelAccept, KernelAcceptFails, KernelTimer
<1>3. ~InCq(o, 0)
  BY <1>1 DEF FlightInv, Singles, TypeOK
<1>4. /\ cq' \in Seq(Completions) /\ Unique(cq')
      /\ \A op, c : InCq(op, c)' <=> InCq(op, c) \/ (op = o /\ c = 0)
  BY <1>1, <1>3, PostCq DEF FlightInv, TypeOK
<1>5. TypeOK'
  BY <1>1, <1>2, <1>4 DEF FlightInv, TypeOK
<1>6. Handler'
  BY <1>2 DEF FlightInv, Handler
<1>7. Singles'
  BY <1>1, <1>3, <1>4 DEF FlightInv, Singles, TypeOK
<1>8. ASSUME NEW d \in Conns PROVE ConnOK(d)'
  <2>1. InCq("recv", d)' <=> InCq("recv", d)
    BY <1>4
  <2>2. InCq("send", d)' <=> InCq("send", d)
    BY <1>4
  <2> QED BY <1>2, <2>1, <2>2, FrameConn DEF FlightInv
<1> QED BY <1>4, <1>5, <1>6, <1>7, <1>8 DEF FlightInv

\* The kernel completes a recv.
LEMMA FlightKernelRecv ==
    ASSUME FlightInv, NEW c \in Conns, NEW res \in {"data", "failed", "canceled"},
           KernelRecv(c, res)
    PROVE  FlightInv'
<1> USE DEF loopVars, connVars, historyVars
<1>1. /\ recvs[c] > 0 /\ recvs' = [recvs EXCEPT ![c] = @ - 1]
      /\ Post("recv", c, res) /\ broken' \in [Conns -> BOOLEAN]
      /\ UNCHANGED <<loopVars, connVars, client_addr, accepts, timers, sends,
                     submitted, wire, origin>>
  BY DEF KernelRecv, FlightInv, TypeOK
<1>2. ConnOK(c) /\ recvs[c] \in Nat
  BY DEF FlightInv, TypeOK
<1>3. ~InCq("recv", c)
  BY <1>1, <1>2 DEF ConnOK
<1>4. Completion("recv", c, res) \in Completions
  BY DEF Completion, Completions
<1>5. /\ cq' \in Seq(Completions) /\ Unique(cq')
      /\ \A op, d : InCq(op, d)' <=> InCq(op, d) \/ (op = "recv" /\ d = c)
  BY <1>1, <1>3, <1>4, PostCq DEF FlightInv, TypeOK
<1>6. TypeOK'
  <2>1. recvs' \in [Conns -> Nat]
    BY <1>1 DEF FlightInv, TypeOK
  <2> QED BY <1>1, <1>5, <2>1 DEF FlightInv, TypeOK
<1>7. Handler'
  BY <1>1 DEF FlightInv, Handler
<1>8. Singles'
  BY <1>1, <1>5 DEF FlightInv, Singles
<1>9. ConnOK(c)'
  <2>1. recvs'[c] = 0 /\ InCq("recv", c)' /\ (InCq("send", c)' <=> InCq("send", c))
    BY <1>1, <1>2, <1>5 DEF ConnOK, FlightInv, TypeOK
  <2> QED BY <1>1, <1>2, <2>1 DEF ConnOK, RecvOut, SendOut
<1>10. ASSUME NEW d \in Conns, d # c PROVE ConnOK(d)'
  <2>1. InCq("recv", d)' <=> InCq("recv", d)
    BY <1>5, <1>10
  <2>2. InCq("send", d)' <=> InCq("send", d)
    BY <1>5
  <2>3. recvs'[d] = recvs[d]
    BY <1>1, <1>10 DEF FlightInv, TypeOK
  <2> QED BY <1>1, <2>1, <2>2, <2>3, FrameConn DEF FlightInv
<1> QED BY <1>5, <1>6, <1>7, <1>8, <1>9, <1>10 DEF FlightInv

\* The kernel completes a send.
LEMMA FlightKernelSend ==
    ASSUME FlightInv, NEW c \in Conns, NEW res \in {"ok", "failed"}, KernelSend(c, res)
    PROVE  FlightInv'
<1> USE DEF loopVars, connVars, historyVars
<1>1. /\ sends[c] # <<>> /\ sends' = [sends EXCEPT ![c] = Tail(@)]
      /\ Post("send", c, res)
      /\ UNCHANGED <<loopVars, connVars, client_addr, accepts, timers, recvs,
                     submitted, origin>>
  BY DEF KernelSend
<1>2. ConnOK(c) /\ sends[c] \in Seq(1 .. MaxReplies)
  BY DEF FlightInv, TypeOK
<1>3. ~InCq("send", c)
  BY <1>1, <1>2 DEF ConnOK
<1>4. Completion("send", c, res) \in Completions
  BY DEF Completion, Completions
<1>5. /\ cq' \in Seq(Completions) /\ Unique(cq')
      /\ \A op, d : InCq(op, d)' <=> InCq(op, d) \/ (op = "send" /\ d = c)
  BY <1>1, <1>3, <1>4, PostCq DEF FlightInv, TypeOK
<1>6. /\ Head(sends[c]) \in 1 .. MaxReplies /\ Tail(sends[c]) \in Seq(1 .. MaxReplies)
      /\ Len(Tail(sends[c])) = Len(sends[c]) - 1
  BY <1>1, <1>2, HeadTailProperties
<1>7. wire' \in [Conns -> Seq(1 .. MaxReplies)]
      /\ \A d \in Conns : d # c => wire'[d] = wire[d]
  <2>1. Append(wire[c], Head(sends[c])) \in Seq(1 .. MaxReplies)
    BY <1>6, AppendProperties DEF FlightInv, TypeOK
  <2> QED BY <2>1 DEF KernelSend, FlightInv, TypeOK
<1>8. TypeOK'
  <2>1. sends' \in [Conns -> Seq(1 .. MaxReplies)]
    BY <1>1, <1>6 DEF FlightInv, TypeOK
  <2>2. broken' \in [Conns -> BOOLEAN]
    BY DEF KernelSend, FlightInv, TypeOK
  <2> QED BY <1>1, <1>5, <1>7, <2>1, <2>2 DEF FlightInv, TypeOK
<1>9. Handler' /\ Singles'
  BY <1>1, <1>5 DEF FlightInv, Handler, Singles
<1>10. ConnOK(c)'
  <2>1. sends'[c] = <<>> /\ InCq("send", c)' /\ (InCq("recv", c)' <=> InCq("recv", c))
    <3>1. Len(sends[c]) = 1
      <4>1. Len(sends[c]) \in Nat /\ Len(sends[c]) # 0
        BY <1>1, <1>2, LenProperties, EmptySeq
      <4>2. Len(sends[c]) <= 1
        BY <1>2 DEF ConnOK
      <4>3. \A n \in Nat : n # 0 /\ n <= 1 => n = 1
        OBVIOUS
      <4> QED BY <4>1, <4>2, <4>3, Zenon
    <3>2. Len(Tail(sends[c])) = 0
      BY <1>6, <3>1
    <3>3. Tail(sends[c]) = <<>>
      BY <1>6, <3>2, EmptySeq
    <3> QED BY <1>1, <1>5, <3>3 DEF FlightInv, TypeOK
  <2>2. c < next_conn_id /\ next_conn_id \in Int /\ c \in Int
    BY <1>1, <1>2 DEF ConnOK, SendOut, FlightInv, TypeOK, Conns
  <2> QED BY <1>1, <1>2, <2>1, <2>2 DEF ConnOK, RecvOut, SendOut
<1>11. ASSUME NEW d \in Conns, d # c PROVE ConnOK(d)'
  <2>1. InCq("send", d)' <=> InCq("send", d)
    BY <1>5, <1>11
  <2>2. InCq("recv", d)' <=> InCq("recv", d)
    BY <1>5
  <2>3. sends'[d] = sends[d]
    BY <1>1, <1>11 DEF FlightInv, TypeOK
  <2> QED BY <1>1, <1>7, <1>11, <2>1, <2>2, <2>3, FrameConn DEF FlightInv
<1> QED BY <1>5, <1>8, <1>9, <1>10, <1>11 DEF FlightInv

\* A connection that is held has an id that was given out.
LEMMA LiveId ==
    ASSUME FlightInv, NEW c \in Conns, c \in live
    PROVE  c < next_conn_id /\ ~(c >= next_conn_id)
<1>1. ConnOK(c) /\ next_conn_id \in Int /\ c \in Int
  BY DEF FlightInv, TypeOK, Conns
<1>2. ~(c >= next_conn_id)
  BY <1>1, Zenon DEF ConnOK
<1> QED BY <1>1, <1>2

\* A handler leaves connection c with buffer b, or closes it: if b agrees with
\* the operations that are then outstanding, c keeps its part of the invariant.
LEMMA SettleConn ==
    ASSUME FlightInv, NEW c \in Conns, NEW b \in ConnBuffers, c \in live,
           recvs'[c] <= 1, InCq("recv", c)' => recvs'[c] = 0,
           Len(sends'[c]) <= 1, InCq("send", c)' => sends'[c] = <<>>,
           b.inflight = (IF RecvOut(c)' THEN 1 ELSE 0) + (IF SendOut(c)' THEN 1 ELSE 0),
           cur' = c => ~RecvOut(c)',
           SendOut(c)' => b.write_queue # <<>> /\ b.write_pending,
           sends'[c] # <<>> => Head(sends'[c]) = Head(b.write_queue),
           next_conn_id' = next_conn_id,
           \/ SubmitClose(c, b)
           \/ buf' = [buf EXCEPT ![c] = b] /\ UNCHANGED <<live, tls, wants_close>>
    PROVE  /\ buf' \in [Conns -> ConnBuffers] /\ live' \in SUBSET Conns
           /\ tls' \in [Conns -> {"none", "handshake", "established"}]
           /\ wants_close' \in [Conns -> BOOLEAN]
           /\ \A d \in Conns : d # c => buf'[d] = buf[d] /\ (d \in live' <=> d \in live)
           /\ live' \subseteq live
           /\ ConnOK(c)'
<1>1. /\ buf \in [Conns -> ConnBuffers] /\ live \in SUBSET Conns
      /\ tls \in [Conns -> {"none", "handshake", "established"}]
      /\ wants_close \in [Conns -> BOOLEAN]
      /\ ConnOK(c) /\ next_conn_id \in Int /\ c \in Int
  BY DEF FlightInv, TypeOK, Conns
<1>2. c < next_conn_id
  BY LiveId
<1>3. CASE buf' = [buf EXCEPT ![c] = b] /\ UNCHANGED <<live, tls, wants_close>>
  <2>1. buf'[c] = b
    BY <1>1, <1>3
  <2>2. ConnOK(c)'
    BY <1>1, <1>2, <1>3, <2>1 DEF ConnOK
  <2> QED BY <1>1, <1>3, <2>2
<1>4. CASE SubmitClose(c, b) /\ Busy(b)
  <2> DEFINE m == [b EXCEPT !.closing = TRUE]
  <2>1. buf' = [buf EXCEPT ![c] = m] /\ UNCHANGED <<live, tls, wants_close>>
    BY <1>4 DEF SubmitClose
  <2>2. /\ m \in ConnBuffers /\ m.write_queue = b.write_queue
        /\ m.write_pending = b.write_pending /\ m.inflight = b.inflight
    BY MarkedBuf
  <2> HIDE DEF m
  <2>3. buf'[c] = m
    BY <1>1, <2>1
  <2>4. ConnOK(c)'
    BY <1>1, <1>2, <2>1, <2>2, <2>3 DEF ConnOK
  <2> QED BY <1>1, <2>1, <2>2, <2>4
<1>5. CASE SubmitClose(c, b) /\ ~Busy(b)
  <2>1. /\ live' = live \ {c} /\ buf' = [buf EXCEPT ![c] = NewBuffer]
        /\ tls' = [tls EXCEPT ![c] = "none"]
        /\ wants_close' = [wants_close EXCEPT ![c] = FALSE]
    BY <1>5 DEF SubmitClose
  <2>2. ~RecvOut(c)' /\ ~SendOut(c)'
    BY <1>5 DEF Busy, ConnBuffers
  <2>3. buf'[c] = NewBuffer /\ c \notin live'
    BY <1>1, <2>1
  <2>4. ConnOK(c)'
    BY <1>1, <1>2, <2>2, <2>3, NewBufferType DEF ConnOK, SendOut
  <2> QED BY <1>1, <2>1, <2>4, NewBufferType
<1> QED BY <1>3, <1>4, <1>5

\* The front of a queue stays the front when a reply is appended.
LEMMA HeadAppend ==
    ASSUME NEW S, NEW s \in Seq(S), NEW e \in S
    PROVE  /\ Append(s, e) \in Seq(S) /\ Append(s, e) # <<>>
           /\ s # <<>> => Head(Append(s, e)) = Head(s)
           /\ Head(Append(s, e)) \in S
<1>1. /\ Append(s, e) \in Seq(S) /\ Len(Append(s, e)) = Len(s) + 1
      /\ Append(s, e)[Len(s) + 1] = e
      /\ \A i \in 1 .. Len(s) : Append(s, e)[i] = s[i]
  BY AppendProperties
<1>2. Len(s) \in Nat
  BY LenProperties
<1>3. Append(s, e) # <<>>
  BY <1>1, <1>2, EmptySeq
<1>4. Head(Append(s, e)) = Append(s, e)[1] /\ Head(Append(s, e)) \in S
  BY <1>1, <1>3, HeadTailProperties
<1>5. ASSUME s # <<>> PROVE Head(Append(s, e)) = Head(s)
  <2>1. Head(s) = s[1]
    BY <1>5, HeadTailProperties
  <2>2. 1 \in 1 .. Len(s)
    BY <1>2, <1>5, EmptySeq
  <2> QED BY <1>1, <1>4, <2>1, <2>2
<1> QED BY <1>1, <1>3, <1>4, <1>5

\* What submit_write of the next n replies leaves of connection c, b being its
\* buffer after the first: the buffer agrees with the sends in the kernel.
Replied(c, n, b) ==
    /\ submitted[c] + n \in 1 .. MaxReplies
    /\ b \in ConnBuffers /\ b.write_pending /\ b.write_queue # <<>>
    /\ b.closing = buf[c].closing
    /\ b.write_queue = Append(buf[c].write_queue, submitted[c] + 1)
    /\ submitted' \in [Conns -> 0 .. MaxReplies]
    /\ sends' \in [Conns -> Seq(1 .. MaxReplies)]
    /\ \A d \in Conns : d # c => sends'[d] = sends[d] /\ submitted'[d] = submitted[d]
    /\ submitted'[c] = submitted[c] + n
    /\ recvs'[c] <= 1 /\ (InCq("recv", c)' => recvs'[c] = 0)
    /\ Len(sends'[c]) <= 1 /\ (InCq("send", c)' => sends'[c] = <<>>)
    /\ b.inflight = (IF RecvOut(c)' THEN 1 ELSE 0) + (IF SendOut(c)' THEN 1 ELSE 0)
    /\ RecvOut(c)' <=> RecvOut(c)
    /\ sends'[c] # <<>> => Head(sends'[c]) = Head(b.write_queue)
    /\ ~buf[c].write_pending => sends'[c] # <<>>
    /\ buf[c].write_pending => sends'[c] = sends[c]

\* submit_write of the next reply keeps the buffer and the sends in agreement,
\* whether a send was pending or not.
LEMMA ReplyConn ==
    ASSUME FlightInv, NEW c \in Conns, c \in live, NEW n \in {1, 2},
           SubmitReplies(c, n), UNCHANGED <<recvs, cq>>, NEW b,
           b = Written(buf[c], submitted[c] + 1)
    PROVE  Replied(c, n, b)
<1>1. /\ buf[c] \in ConnBuffers /\ submitted[c] \in 0 .. MaxReplies /\ MaxReplies \in Nat
      /\ sends \in [Conns -> Seq(1 .. MaxReplies)] /\ recvs[c] \in Nat
      /\ submitted \in [Conns -> 0 .. MaxReplies] /\ ConnOK(c)
  BY LoopAssumption DEF FlightInv, TypeOK
<1>2. submitted[c] + n \in 1 .. MaxReplies /\ submitted[c] + 1 \in 1 .. MaxReplies
  BY <1>1 DEF SubmitReplies
<1>3. /\ submitted' \in [Conns -> 0 .. MaxReplies]
      /\ \A d \in Conns : d # c => submitted'[d] = submitted[d]
      /\ submitted'[c] = submitted[c] + n
  BY <1>1, <1>2 DEF SubmitReplies
<1>4. /\ b \in ConnBuffers /\ b.write_pending /\ b.closing = buf[c].closing
      /\ b.write_queue = Append(buf[c].write_queue, submitted[c] + 1)
      /\ b.inflight = (IF buf[c].write_pending THEN buf[c].inflight ELSE buf[c].inflight + 1)
  <2>1. PICK k \in 1 .. MaxReplies : k = submitted[c] + 1
    BY <1>2
  <2>2. PICK a \in ConnBuffers : a = buf[c]
    BY <1>1
  <2>3. b = Written(a, k)
    BY <2>1, <2>2
  <2> QED BY <2>1, <2>2, <2>3, WrittenBuf
<1>5. /\ buf[c].write_queue \in Seq(1 .. MaxReplies) /\ b.write_queue # <<>>
      /\ buf[c].write_queue # <<>> => Head(b.write_queue) = Head(buf[c].write_queue)
      /\ Head(b.write_queue) \in 1 .. MaxReplies
  <2>1. buf[c].write_queue \in Seq(1 .. MaxReplies)
    BY <1>1 DEF ConnBuffers
  <2>2. PICK q \in Seq(1 .. MaxReplies) : q = buf[c].write_queue
    BY <2>1
  <2>3. PICK k \in 1 .. MaxReplies : k = submitted[c] + 1
    BY <1>2
  <2>4. b.write_queue = Append(q, k)
    BY <1>4, <2>2, <2>3
  <2>5. /\ Append(q, k) # <<>> /\ (q # <<>> => Head(Append(q, k)) = Head(q))
        /\ Head(Append(q, k)) \in 1 .. MaxReplies
    BY HeadAppend
  <2> QED BY <2>1, <2>2, <2>4, <2>5
<1>6. \A op, d : InCq(op, d)' <=> InCq(op, d)
  BY DEF InCq
<1>7. CASE buf[c].write_pending
  <2>1. sends' = sends
    BY <1>7 DEF SubmitReplies, SendIdle
  <2>2. (RecvOut(c)' <=> RecvOut(c)) /\ (SendOut(c)' <=> SendOut(c))
    BY <1>6, <2>1 DEF RecvOut, SendOut
  <2>3. sends'[c] # <<>> => Head(sends'[c]) = Head(b.write_queue)
    BY <1>1, <1>5, <2>1 DEF ConnOK, SendOut
  <2>4. b.inflight = (IF RecvOut(c)' THEN 1 ELSE 0) + (IF SendOut(c)' THEN 1 ELSE 0)
    BY <1>1, <1>4, <1>7, <2>2 DEF ConnOK
  <2>5. /\ recvs'[c] <= 1 /\ (InCq("recv", c)' => recvs'[c] = 0)
        /\ Len(sends'[c]) <= 1 /\ (InCq("send", c)' => sends'[c] = <<>>)
    BY <1>1, <1>6, <2>1 DEF ConnOK
  <2>6. /\ sends' \in [Conns -> Seq(1 .. MaxReplies)]
        /\ \A d \in Conns : sends'[d] = sends[d]
    BY <1>1, <2>1, Zenon
  <2> QED BY <1>2, <1>3, <1>4, <1>5, <1>7, <2>2, <2>3, <2>4, <2>5, <2>6, Zenon DEF Replied
<1>8. CASE ~buf[c].write_pending
  <2>1. sends' = [sends EXCEPT ![c] = Append(@, Head(b.write_queue))]
    BY <1>4, <1>8 DEF SubmitReplies, SendIdle, ArmSend
  <2>2. ~SendOut(c) /\ sends[c] = <<>> /\ ~InCq("send", c)
    BY <1>1, <1>8 DEF ConnOK, SendOut
  <2>3. sends'[c] = <<Head(b.write_queue)>>
    BY <1>1, <1>5, <2>1, <2>2
  <2>4. /\ sends' \in [Conns -> Seq(1 .. MaxReplies)]
        /\ \A d \in Conns : d # c => sends'[d] = sends[d]
    <3>1. <<Head(b.write_queue)>> \in Seq(1 .. MaxReplies)
      BY <1>5
    <3>2. Append(sends[c], Head(b.write_queue)) \in Seq(1 .. MaxReplies)
      BY <1>1, <1>5, AppendProperties
    <3> QED BY <1>1, <2>1, <3>2
  <2>5. Len(sends'[c]) = 1 /\ sends'[c] # <<>> /\ Head(sends'[c]) = Head(b.write_queue)
    BY <2>3
  <2>6. SendOut(c)' /\ ~InCq("send", c)' /\ (RecvOut(c)' <=> RecvOut(c))
    BY <1>6, <2>2, <2>5 DEF SendOut, RecvOut
  <2>7. b.inflight = (IF RecvOut(c)' THEN 1 ELSE 0) + (IF SendOut(c)' THEN 1 ELSE 0)
    <3>1. buf[c].inflight = IF RecvOut(c) THEN 1 ELSE 0
      BY <1>1, <2>2 DEF ConnOK
    <3> QED BY <1>4, <1>8, <2>6, <3>1
  <2>8. /\ recvs'[c] <= 1 /\ (InCq("recv", c)' => recvs'[c] = 0)
        /\ Len(sends'[c]) <= 1 /\ (InCq("send", c)' => sends'[c] = <<>>)
    BY <1>1, <1>6, <2>5, <2>6 DEF ConnOK
  <2> QED BY <1>2, <1>3, <1>4, <1>5, <1>8, <2>4, <2>5, <2>6, <2>7, <2>8, Zenon DEF Replied
<1> QED BY <1>7, <1>8, Zenon

\* Joins the connection a handler worked on with all the others.
LEMMA FlightOne ==
    ASSUME FlightInv, NEW c \in Conns, TypeOK', Unique(cq'), Handler', Singles',
           ConnOK(c)',
           \A d \in Conns : d # c =>
               /\ recvs'[d] = recvs[d] /\ sends'[d] = sends[d] /\ buf'[d] = buf[d]
               /\ InCq("recv", d)' <=> InCq("recv", d)
               /\ InCq("send", d)' <=> InCq("send", d)
               /\ d \in live' <=> d \in live
               /\ cur' = d => cur = d
               /\ d >= next_conn_id' => d >= next_conn_id
               /\ submitted'[d] = submitted[d] /\ wire'[d] = wire[d]
    PROVE  FlightInv'
<1>1. ASSUME NEW d \in Conns, d # c PROVE ConnOK(d)'
  BY <1>1, FrameConn DEF FlightInv
<1> QED BY <1>1 DEF FlightInv

=============================================================================
