------------------------- MODULE IoUringLoopProofs -------------------------
(***************************************************************************)
(* Proofs about IoUringLoop for every number of connections and replies,   *)
(* every kind of session and every set of faults.                          *)
(***************************************************************************)
EXTENDS IoUringLoopLemmas

\* The session replies, or upgrades to TLS, or OpenSSL has bytes of its own.
LEMMA FlightReply ==
    ASSUME FlightInv, NEW c \in Conns, c \in live, cur = c, pc \in {"plain", "feed"},
           SubmitReplies(c, 1),
           buf' = [buf EXCEPT ![c] = Written(@, submitted[c] + 1)],
           pc' \in {pc, "tail"},
           tls' \in [Conns -> {"none", "handshake", "established"}],
           UNCHANGED <<cur, accepted, next_conn_id, g_shutdown, live, wants_close>>,
           UNCHANGED <<remote_ip, client_addr, accepts, timers, recvs, cq, wire>>,
           UNCHANGED <<broken, origin>>
    PROVE  FlightInv'
<1>1. PICK b : b = Written(buf[c], submitted[c] + 1)
  OBVIOUS
<1>2. /\ b \in ConnBuffers /\ b.write_pending /\ b.write_queue # <<>>
      /\ submitted' \in [Conns -> 0 .. MaxReplies]
      /\ sends' \in [Conns -> Seq(1 .. MaxReplies)]
      /\ \A d \in Conns : d # c => sends'[d] = sends[d] /\ submitted'[d] = submitted[d]
      /\ recvs'[c] <= 1 /\ (InCq("recv", c)' => recvs'[c] = 0)
      /\ Len(sends'[c]) <= 1 /\ (InCq("send", c)' => sends'[c] = <<>>)
      /\ b.inflight = (IF RecvOut(c)' THEN 1 ELSE 0) + (IF SendOut(c)' THEN 1 ELSE 0)
      /\ RecvOut(c)' <=> RecvOut(c)
      /\ sends'[c] # <<>> => Head(sends'[c]) = Head(b.write_queue)
  <2>1. UNCHANGED <<recvs, cq>>
    OBVIOUS
  <2>2. Replied(c, 1, b)
    BY <1>1, <2>1, ReplyConn
  <2> QED BY <2>2, Zenon DEF Replied
<1>3. ~RecvOut(c) /\ buf \in [Conns -> ConnBuffers]
  BY DEF FlightInv, ConnOK, TypeOK
<1>4. /\ buf' = [buf EXCEPT ![c] = b] /\ buf' \in [Conns -> ConnBuffers] /\ buf'[c] = b
      /\ \A d \in Conns : d # c => buf'[d] = buf[d]
  BY <1>1, <1>2, <1>3
<1>5. ConnOK(c)'
  <2>1. ConnOK(c) /\ ~(c >= next_conn_id)
    BY LiveId DEF FlightInv
  <2>2. /\ ~RecvOut(c)' /\ c \in live' /\ ~(c >= next_conn_id')
    BY <1>2, <1>3, <2>1
  <2> QED BY <1>2, <1>4, <2>2, Zenon DEF ConnOK
<1>6. TypeOK'
  BY <1>2, <1>4 DEF FlightInv, TypeOK
<1>7. Handler' /\ Singles' /\ Unique(cq')
  BY DEF FlightInv, Handler, Singles, InHandler, InCq
<1>8. \A op, d : InCq(op, d)' <=> InCq(op, d)
  BY DEF InCq
<1> QED BY <1>2, <1>4, <1>5, <1>6, <1>7, <1>8, FlightOne

\* A reply of the running session keeps the invariant.
LEMMA FlightSessionReplies ==
    ASSUME FlightInv, NEW c \in Conns, SessionReplies(c)
    PROVE  FlightInv'
<1>1. /\ c \in live /\ cur = c /\ pc \in {"plain", "feed"}
      /\ tls' \in [Conns -> {"none", "handshake", "established"}]
  BY DEF SessionReplies, InSession, FlightInv, TypeOK
<1> QED BY <1>1, FlightReply DEF SessionReplies, loopVars

\* STARTTLS's reply and upgrade keep the invariant.
LEMMA FlightSessionUpgrades ==
    ASSUME FlightInv, NEW c \in Conns, SessionUpgrades(c)
    PROVE  FlightInv'
<1>1. /\ c \in live /\ cur = c /\ pc \in {"plain", "feed"}
      /\ tls' \in [Conns -> {"none", "handshake", "established"}]
  BY DEF SessionUpgrades, InSession, FlightInv, TypeOK
<1> QED BY <1>1, FlightReply DEF SessionUpgrades

\* feed_encryption's return, with or without bytes to send.
LEMMA FlightFeedReturns ==
    ASSUME FlightInv, NEW c \in Conns, FeedReturns(c)
    PROVE  FlightInv'
<1>1. /\ cur = c /\ pc = "feed" /\ pc' = "tail"
      /\ tls' \in [Conns -> {"none", "handshake", "established"}]
  BY DEF FeedReturns, FlightInv, TypeOK
<1>2. CASE UNCHANGED <<buf, sends, submitted>>
  <2>1. TypeOK'
    BY <1>1, <1>2 DEF FeedReturns, FlightInv, TypeOK
  <2>2. Handler'
    BY <1>1 DEF FeedReturns, FlightInv, Handler, InHandler
  <2> QED BY <1>2, <2>1, <2>2, FlightIdle DEF FeedReturns
<1>3. CASE /\ c \in live
           /\ SubmitReplies(c, 1)
           /\ buf' = [buf EXCEPT ![c] = Written(@, submitted[c] + 1)]
  BY <1>1, <1>3, FlightReply DEF FeedReturns
<1> QED BY <1>2, <1>3 DEF FeedReturns

\* A close under the running session, or at the end of on_read: nothing is
\* completed or armed, so the buffer as it is agrees with what is outstanding.
LEMMA FlightCloseNow ==
    ASSUME FlightInv, NEW c \in Conns, c \in live, cur = c, SubmitClose(c, buf[c]),
           pc' \in {"plain", "feed", "drain"},
           Handler', cur' \in {0, c},
           UNCHANGED <<accepted, next_conn_id, g_shutdown, remote_ip, recvs, sends>>,
           UNCHANGED <<client_addr, accepts, timers, cq, submitted, wire, broken, origin>>
    PROVE  FlightInv'
<1>1. PICK b : b = buf[c]
  OBVIOUS
<1>2. ConnOK(c) /\ b \in ConnBuffers /\ TypeOK /\ c # 0
  BY <1>1 DEF FlightInv, TypeOK, Conns
<1>3. \A op, d : InCq(op, d)' <=> InCq(op, d)
  BY DEF InCq
<1>4. (RecvOut(c)' <=> RecvOut(c)) /\ (SendOut(c)' <=> SendOut(c))
  BY <1>3 DEF RecvOut, SendOut
<1>5. /\ recvs'[c] <= 1 /\ (InCq("recv", c)' => recvs'[c] = 0)
      /\ Len(sends'[c]) <= 1 /\ (InCq("send", c)' => sends'[c] = <<>>)
      /\ b.inflight = (IF RecvOut(c)' THEN 1 ELSE 0) + (IF SendOut(c)' THEN 1 ELSE 0)
      /\ cur' = c => ~RecvOut(c)'
      /\ SendOut(c)' => b.write_queue # <<>> /\ b.write_pending
      /\ sends'[c] # <<>> => Head(sends'[c]) = Head(b.write_queue)
      /\ SubmitClose(c, b)
  BY <1>1, <1>2, <1>3, <1>4 DEF ConnOK
<1>6. /\ buf' \in [Conns -> ConnBuffers] /\ live' \in SUBSET Conns
      /\ tls' \in [Conns -> {"none", "handshake", "established"}]
      /\ wants_close' \in [Conns -> BOOLEAN]
      /\ \A d \in Conns : d # c => buf'[d] = buf[d] /\ (d \in live' <=> d \in live)
      /\ ConnOK(c)'
  BY <1>2, <1>5, SettleConn
<1>7. TypeOK'
  BY <1>2, <1>6 DEF TypeOK
<1>8. Singles' /\ Unique(cq')
  BY DEF FlightInv, Singles, InCq
<1> QED BY <1>2, <1>3, <1>6, <1>7, <1>8, FlightOne DEF Conns

\* submit_write whose encrypt() throws closes under the session.
LEMMA FlightEncryptFails ==
    ASSUME FlightInv, NEW c \in Conns, EncryptFails(c)
    PROVE  FlightInv'
<1>1. /\ c \in live /\ cur = c /\ SubmitClose(c, buf[c]) /\ pc' \in {"plain", "feed", "drain"}
      /\ cur' = c /\ Handler'
      /\ UNCHANGED <<accepted, next_conn_id, g_shutdown, remote_ip, recvs, sends>>
      /\ UNCHANGED <<client_addr, accepts, timers, cq, submitted, wire, broken, origin>>
  BY DEF EncryptFails, InSession, FlightInv, Handler, loopVars, kernelVars, historyVars
<1> QED BY <1>1, FlightCloseNow

\* The catch around feed_encryption closes the connection.
LEMMA FlightFeedThrows ==
    ASSUME FlightInv, NEW c \in Conns, FeedThrows(c)
    PROVE  FlightInv'
<1>1. /\ c \in live /\ cur = c /\ SubmitClose(c, buf[c]) /\ pc' = "drain" /\ cur' = 0
      /\ UNCHANGED <<accepted, next_conn_id, g_shutdown, remote_ip, recvs, sends>>
      /\ UNCHANGED <<client_addr, accepts, timers, cq, submitted, wire, broken, origin>>
  BY DEF FeedThrows, kernelVars, historyVars
<1>2. Handler'
  BY <1>1 DEF Handler, InHandler
<1> QED BY <1>1, <1>2, FlightCloseNow

\* The end of on_read closes, or arms and counts the next recv.
LEMMA FlightAfterSession ==
    ASSUME FlightInv, NEW c \in Conns, AfterSession(c)
    PROVE  FlightInv'
<1>1. /\ cur = c /\ pc = "tail" /\ pc' = "drain" /\ cur' = 0
      /\ UNCHANGED <<accepted, next_conn_id, g_shutdown, remote_ip, sends>>
      /\ UNCHANGED <<client_addr, accepts, timers, cq, submitted, wire, broken, origin>>
  BY DEF AfterSession, historyVars
<1>2. Handler' /\ c # 0
  BY <1>1 DEF Handler, InHandler, Conns
<1>3. CASE c \notin live /\ UNCHANGED <<live, buf, tls, wants_close, recvs>>
  <2>1. TypeOK'
    BY <1>1, <1>3 DEF FlightInv, TypeOK
  <2> QED BY <1>1, <1>2, <1>3, <2>1, FlightIdle DEF Conns
<1>4. CASE c \in live /\ SubmitClose(c, buf[c]) /\ UNCHANGED recvs
  BY <1>1, <1>2, <1>4, FlightCloseNow
<1>5. CASE /\ c \in live
           /\ buf' = [buf EXCEPT ![c] = Counted(@)]
           /\ recvs' = [recvs EXCEPT ![c] = @ + 1]
           /\ UNCHANGED <<live, tls, wants_close>>
  <2>1. PICK b : b = Counted(buf[c])
    OBVIOUS
  <2>2. ConnOK(c) /\ buf[c] \in ConnBuffers /\ recvs \in [Conns -> Nat] /\ ~RecvOut(c)
    BY <1>1 DEF FlightInv, TypeOK, ConnOK
  <2>3. /\ b \in ConnBuffers /\ b.write_queue = buf[c].write_queue
        /\ b.write_pending = buf[c].write_pending /\ b.inflight = buf[c].inflight + 1
    BY <2>1, <2>2, FieldBuf
  <2>4. \A op, d : InCq(op, d)' <=> InCq(op, d)
    BY <1>1 DEF InCq
  <2>5. recvs'[c] = 1 /\ ~InCq("recv", c)' /\ RecvOut(c)' /\ (SendOut(c)' <=> SendOut(c))
    BY <1>1, <1>5, <2>2, <2>4 DEF RecvOut, SendOut
  <2>6. /\ recvs'[c] <= 1 /\ (InCq("recv", c)' => recvs'[c] = 0)
        /\ Len(sends'[c]) <= 1 /\ (InCq("send", c)' => sends'[c] = <<>>)
        /\ b.inflight = (IF RecvOut(c)' THEN 1 ELSE 0) + (IF SendOut(c)' THEN 1 ELSE 0)
        /\ cur' # c
        /\ SendOut(c)' => b.write_queue # <<>> /\ b.write_pending
        /\ sends'[c] # <<>> => Head(sends'[c]) = Head(b.write_queue)
    BY <1>1, <1>2, <2>2, <2>3, <2>4, <2>5 DEF ConnOK
  <2>7. buf' = [buf EXCEPT ![c] = b]
    BY <1>5, <2>1
  <2>8. /\ buf' \in [Conns -> ConnBuffers]
        /\ \A d \in Conns : d # c => buf'[d] = buf[d] /\ (d \in live' <=> d \in live)
        /\ ConnOK(c)'
    BY <1>1, <1>5, <2>3, <2>6, <2>7, SettleConn
  <2>9. recvs' \in [Conns -> Nat] /\ \A d \in Conns : d # c => recvs'[d] = recvs[d]
    BY <1>5, <2>2
  <2>10. TypeOK'
    BY <1>1, <1>5, <2>8, <2>9 DEF FlightInv, TypeOK
  <2>11. Singles' /\ Unique(cq')
    BY <1>1 DEF FlightInv, Singles, InCq
  <2> QED BY <1>1, <1>2, <2>4, <2>8, <2>9, <2>10, <2>11, FlightOne DEF Conns
<1> QED BY <1>3, <1>4, <1>5 DEF AfterSession

\* QUIT and LOGOUT: one or two replies, then perhaps a close.
LEMMA FlightSessionQuits ==
    ASSUME FlightInv, NEW c \in Conns, SessionQuits(c)
    PROVE  FlightInv'
<1>1. /\ c \in live /\ cur = c /\ SubmitReplies(c, QuitReplies) /\ QuitReplies \in {1, 2}
      /\ UNCHANGED <<pc, cur, accepted, next_conn_id, g_shutdown, remote_ip, recvs>>
      /\ UNCHANGED <<client_addr, accepts, timers, cq, wire, broken, origin>>
  BY DEF SessionQuits, InSession, QuitReplies, loopVars
<1>2. PICK a : a = Written(buf[c], submitted[c] + 1)
  OBVIOUS
<1>3. /\ submitted[c] + QuitReplies \in 1 .. MaxReplies
      /\ a \in ConnBuffers /\ a.write_pending /\ a.write_queue # <<>>
      /\ submitted' \in [Conns -> 0 .. MaxReplies]
      /\ sends' \in [Conns -> Seq(1 .. MaxReplies)]
      /\ \A d \in Conns : d # c => sends'[d] = sends[d] /\ submitted'[d] = submitted[d]
      /\ recvs'[c] <= 1 /\ (InCq("recv", c)' => recvs'[c] = 0)
      /\ Len(sends'[c]) <= 1 /\ (InCq("send", c)' => sends'[c] = <<>>)
      /\ a.inflight = (IF RecvOut(c)' THEN 1 ELSE 0) + (IF SendOut(c)' THEN 1 ELSE 0)
      /\ RecvOut(c)' <=> RecvOut(c)
      /\ sends'[c] # <<>> => Head(sends'[c]) = Head(a.write_queue)
  <2>1. PICK n \in {1, 2} : n = QuitReplies
    BY <1>1
  <2>2. SubmitReplies(c, n)
    BY <1>1, <2>1
  <2>3. UNCHANGED <<recvs, cq>>
    BY <1>1
  <2>4. Replied(c, n, a)
    BY <1>1, <1>2, <2>2, <2>3, ReplyConn
  <2> QED BY <2>1, <2>4, Zenon DEF Replied
<1>4. ~RecvOut(c)
  BY <1>1 DEF FlightInv, ConnOK
<1>5. PICK b : b = IF QuitReplies = 2 THEN Written(a, submitted[c] + 2) ELSE a
  OBVIOUS
<1>6. /\ b \in ConnBuffers /\ b.write_pending /\ b.write_queue # <<>>
      /\ b.inflight = a.inflight /\ Head(b.write_queue) = Head(a.write_queue)
  <2>1. CASE QuitReplies = 2
    <3>1. PICK k \in 1 .. MaxReplies : k = submitted[c] + 2
      BY <1>3, <2>1
    <3>2. b = Written(a, k)
      BY <1>5, <2>1, <3>1
    <3>3. /\ b \in ConnBuffers /\ b.write_pending
          /\ b.write_queue = Append(a.write_queue, k) /\ b.inflight = a.inflight
      BY <1>3, <3>2, WrittenBuf
    <3>4. PICK q \in Seq(1 .. MaxReplies) : q = a.write_queue
      BY <1>3 DEF ConnBuffers
    <3>5. Append(q, k) # <<>> /\ (q # <<>> => Head(Append(q, k)) = Head(q))
      BY HeadAppend
    <3> QED BY <1>3, <3>3, <3>4, <3>5
  <2>2. CASE QuitReplies = 1
    BY <1>3, <1>5, <2>2
  <2> QED BY <1>1, <2>1, <2>2
<1>7. \A op, d : InCq(op, d)' <=> InCq(op, d)
  BY <1>1 DEF InCq
<1>8. /\ buf' \in [Conns -> ConnBuffers] /\ live' \in SUBSET Conns
      /\ tls' \in [Conns -> {"none", "handshake", "established"}]
      /\ wants_close' \in [Conns -> BOOLEAN]
      /\ \A d \in Conns : d # c => buf'[d] = buf[d] /\ (d \in live' <=> d \in live)
      /\ ConnOK(c)'
  <2>1. CASE Busy(b) \/ ~QuitCloses
    <3>1. PICK m : m = [b EXCEPT !.closing = b.closing \/ QuitCloses]
      OBVIOUS
    <3>2. /\ m \in ConnBuffers /\ m.write_pending /\ m.write_queue # <<>>
          /\ m.inflight = a.inflight /\ Head(m.write_queue) = Head(a.write_queue)
      <4>1. PICK v \in BOOLEAN : v = (b.closing \/ QuitCloses)
        BY <1>6 DEF ConnBuffers
      <4>2. m = [b EXCEPT !.closing = v]
        BY <3>1, <4>1
      <4> QED BY <1>6, <4>2, MarkedBuf
    <3>3. /\ buf' = [buf EXCEPT ![c] = m] /\ UNCHANGED <<live, tls>>
          /\ wants_close' = [wants_close EXCEPT ![c] = TRUE]
      BY <1>2, <1>5, <2>1, <3>1 DEF SessionQuits
    <3>4. /\ buf \in [Conns -> ConnBuffers] /\ ConnOK(c) /\ next_conn_id \in Int /\ c \in Int
          /\ wants_close \in [Conns -> BOOLEAN] /\ live \in SUBSET Conns
          /\ tls \in [Conns -> {"none", "handshake", "established"}]
      BY DEF FlightInv, TypeOK, Conns
    <3>5. buf'[c] = m /\ c < next_conn_id
      BY <1>1, <3>3, <3>4 DEF ConnOK
    <3>6. ConnOK(c)'
      BY <1>1, <1>3, <1>4, <3>2, <3>3, <3>4, <3>5 DEF ConnOK
    <3> QED BY <3>2, <3>3, <3>4, <3>6
  <2>2. CASE ~Busy(b) /\ QuitCloses
    <3>1. SubmitClose(c, b)
      BY <1>2, <1>5, <2>2 DEF SessionQuits
    <3>2. /\ b.inflight = (IF RecvOut(c)' THEN 1 ELSE 0) + (IF SendOut(c)' THEN 1 ELSE 0)
          /\ cur' = c => ~RecvOut(c)'
          /\ SendOut(c)' => b.write_queue # <<>> /\ b.write_pending
          /\ sends'[c] # <<>> => Head(sends'[c]) = Head(b.write_queue)
      BY <1>3, <1>4, <1>6
    <3> QED BY <1>1, <1>3, <1>6, <3>1, <3>2, SettleConn
  <2> QED BY <2>1, <2>2
<1>9. TypeOK'
  BY <1>1, <1>3, <1>8 DEF FlightInv, TypeOK
<1>10. Handler' /\ Singles' /\ Unique(cq')
  BY <1>1 DEF FlightInv, Handler, Singles, InCq
<1> QED BY <1>1, <1>3, <1>7, <1>8, <1>9, <1>10, FlightOne

\* The loop handles the timer, or an accept up to the point it is split at.
LEMMA FlightSingle ==
    ASSUME FlightInv, OnTimer \/ OnAccept
    PROVE  FlightInv'
<1>1. PICK o \in {"timer", "accept"} :
          /\ Dispatch(o, 0)
          /\ IF o = "accept"
             THEN accepts' = accepts + 1 /\ timers' = timers /\ accepted' = Head(cq).res
             ELSE timers' \in {timers, timers + 1} /\ accepts' = accepts /\ accepted' = accepted
          /\ pc' \in {"drain", "accept"}
  BY DEF OnTimer, OnAccept, Dispatch
<1>2. UNCHANGED <<cur, next_conn_id, g_shutdown, connVars, client_addr, recvs, sends, historyVars>>
  BY DEF OnTimer, OnAccept
<1>3. /\ cq' \in Seq(Completions) /\ Unique(cq')
      /\ \A op, c : InCq(op, c)' <=> InCq(op, c) /\ ~(op = o /\ c = 0)
      /\ InCq(o, 0)
      /\ Head(cq) \in Completions /\ Head(cq).op = o
  BY <1>1, DispatchCq DEF FlightInv, TypeOK
<1>4. accepted' \in AcceptResults
  BY <1>1, <1>3 DEF FlightInv, TypeOK, Completions
<1>5. Singles' /\ accepts' \in Nat /\ timers' \in Nat
  BY <1>1, <1>3 DEF FlightInv, Singles, TypeOK
<1>6. TypeOK'
  BY <1>1, <1>2, <1>3, <1>4, <1>5 DEF FlightInv, TypeOK, connVars, historyVars
<1>7. Handler'
  BY <1>1, <1>2 DEF FlightInv, Handler, InHandler, Dispatch
<1>8. ASSUME NEW d \in Conns PROVE ConnOK(d)'
  <2>1. (InCq("recv", d)' <=> InCq("recv", d)) /\ (InCq("send", d)' <=> InCq("send", d))
    BY <1>3
  <2> QED BY <1>2, <2>1, FrameConn DEF FlightInv, connVars, historyVars
<1> QED BY <1>3, <1>5, <1>6, <1>7, <1>8 DEF FlightInv

\* A new connection starts with its banner's send and its first recv.
LEMMA FlightNewConn ==
    ASSUME FlightInv, NewConn
    PROVE  FlightInv'
<1>1. PICK c \in Conns : c = next_conn_id
  BY DEF NewConn, FreshId
<1>2. PICK w : w = Written(NewBuffer, 1)
  OBVIOUS
<1>3. 1 \in 1 .. MaxReplies /\ c \in Nat /\ c <= LastConn /\ c >= 1 /\ LastConn \in Nat
  BY LoopAssumption DEF Conns
<1>4. /\ w \in ConnBuffers /\ w.write_queue = Append(<<>>, 1) /\ w.write_pending
      /\ w.inflight = 1
  BY <1>2, <1>3, WrittenBuf, NewBufferType
<1>5. w.write_queue = <<1>> /\ Head(w.write_queue) = 1
  BY <1>4
<1>6. PICK b : b = Counted(w)
  OBVIOUS
<1>7. b \in ConnBuffers /\ b.write_queue = <<1>> /\ b.write_pending /\ b.inflight = 2
  <2>1. /\ b \in ConnBuffers /\ b.write_queue = w.write_queue
        /\ b.write_pending = w.write_pending /\ b.inflight = w.inflight + 1
    BY <1>4, <1>6, FieldBuf
  <2> QED BY <1>4, <1>5, <2>1
<1>8. /\ next_conn_id' = next_conn_id + 1 /\ pc = "accept" /\ pc' = "drain"
      /\ accepted' = "failed" /\ accepted \in AcceptResults
      /\ live' = live \cup {c}
      /\ buf' = [buf EXCEPT ![c] = b]
      /\ remote_ip' = [remote_ip EXCEPT ![c] = client_addr]
      /\ origin' = [origin EXCEPT ![c] = accepted]
      /\ recvs' = [recvs EXCEPT ![c] = @ + 1]
      /\ submitted' = [submitted EXCEPT ![c] = @ + 1]
      /\ sends' = [sends EXCEPT ![c] = Append(@, 1)]
      /\ UNCHANGED <<cur, g_shutdown, tls, wants_close, client_addr, accepts, timers>>
      /\ UNCHANGED <<cq, wire, broken>>
  <2>1. /\ live' = live \cup {c}
        /\ buf' = [buf EXCEPT ![c] = Counted(Written(NewBuffer, 1))]
        /\ remote_ip' = [remote_ip EXCEPT ![c] = client_addr]
        /\ origin' = [origin EXCEPT ![c] = accepted]
        /\ recvs' = [recvs EXCEPT ![c] = @ + 1]
        /\ submitted' = [submitted EXCEPT ![c] = @ + 1]
        /\ sends' = [sends EXCEPT ![c] = Append(@, Head(Written(NewBuffer, 1).write_queue))]
    BY <1>1, Zenon DEF NewConn, ArmSend, FreshId
  <2>2. /\ buf' = [buf EXCEPT ![c] = b] /\ sends' = [sends EXCEPT ![c] = Append(@, 1)]
    BY <1>2, <1>5, <1>6, <2>1
  <2> QED BY <2>1, <2>2 DEF NewConn, FlightInv, TypeOK
<1>9. ConnOK(c) /\ TypeOK
  BY DEF FlightInv
<1>10. /\ c \notin live /\ submitted[c] = 0 /\ wire[c] = <<>> /\ cur = 0
       /\ recvs[c] = 0 /\ sends[c] = <<>> /\ ~InCq("recv", c) /\ ~InCq("send", c)
  <2>1. c >= next_conn_id
    BY <1>1, <1>3
  <2>2. c \notin live /\ submitted[c] = 0 /\ wire[c] = <<>>
    BY <1>9, <2>1, Zenon DEF ConnOK
  <2>3. ~RecvOut(c) /\ ~SendOut(c)
    BY <1>9, <2>2, Zenon DEF ConnOK
  <2>4. ~(recvs[c] > 0) /\ sends[c] = <<>> /\ ~InCq("recv", c) /\ ~InCq("send", c)
    BY <2>3, Zenon DEF RecvOut, SendOut
  <2>5. recvs[c] = 0
    BY <1>9, <2>4 DEF TypeOK
  <2>6. cur = 0
    BY <1>8 DEF FlightInv, Handler, InHandler
  <2> QED BY <2>2, <2>4, <2>5, <2>6
<1>11. /\ recvs'[c] = 1 /\ sends'[c] = <<1>> /\ buf'[c] = b /\ submitted'[c] = 1
       /\ \A d \in Conns : d # c =>
             /\ recvs'[d] = recvs[d] /\ sends'[d] = sends[d] /\ buf'[d] = buf[d]
             /\ submitted'[d] = submitted[d] /\ (d \in live' <=> d \in live)
  BY <1>8, <1>9, <1>10 DEF TypeOK
<1>12. <<1>> \in Seq(1 .. MaxReplies)
  BY <1>3
<1>13. TypeOK'
  <2>1. /\ recvs' \in [Conns -> Nat] /\ buf' \in [Conns -> ConnBuffers]
        /\ submitted' \in [Conns -> 0 .. MaxReplies] /\ live' \in SUBSET Conns
        /\ remote_ip' \in [Conns -> Addrs] /\ origin' \in [Conns -> AcceptResults]
    BY <1>3, <1>7, <1>8, <1>9, <1>10 DEF TypeOK
  <2>2. sends' \in [Conns -> Seq(1 .. MaxReplies)]
    BY <1>8, <1>9, <1>10, <1>12 DEF TypeOK
  <2>3. next_conn_id' \in 1 .. LastConn + 1 /\ accepted' \in AcceptResults
    BY <1>1, <1>3, <1>8 DEF AcceptResults
  <2> QED BY <1>8, <1>9, <2>1, <2>2, <2>3 DEF TypeOK
<1>14. \A op, d : InCq(op, d)' <=> InCq(op, d)
  BY <1>8 DEF InCq
<1>15. Handler' /\ Singles' /\ Unique(cq')
  BY <1>8, <1>10 DEF FlightInv, Handler, InHandler, Singles, InCq
<1>16. ConnOK(c)'
  <2>1. ~InCq("recv", c)' /\ ~InCq("send", c)'
    BY <1>10, <1>14, Zenon
  <2>2. /\ sends'[c] # <<>> /\ Len(sends'[c]) <= 1 /\ Head(sends'[c]) = 1
        /\ recvs'[c] > 0 /\ recvs'[c] <= 1
    BY <1>11
  <2>3. RecvOut(c)' /\ SendOut(c)'
    BY <2>2, Zenon DEF RecvOut, SendOut
  <2>4. c \in live' /\ cur' # c
    <3>1. c \in live'
      BY <1>8
    <3>2. c # 0
      BY <1>3
    <3> QED BY <1>8, <1>10, <3>1, <3>2
  <2>5. ~(c >= next_conn_id')
    BY <1>1, <1>3, <1>8
  <2>6. /\ buf'[c].inflight = (IF RecvOut(c)' THEN 1 ELSE 0) + (IF SendOut(c)' THEN 1 ELSE 0)
        /\ buf'[c].write_queue # <<>> /\ buf'[c].write_pending
        /\ Head(buf'[c].write_queue) = 1
    <3>1. buf'[c] = b
      BY <1>11
    <3>2. <<1>> # <<>> /\ Head(<<1>>) = 1
      OBVIOUS
    <3>3. 2 = (IF RecvOut(c)' THEN 1 ELSE 0) + (IF SendOut(c)' THEN 1 ELSE 0)
      BY <2>3
    <3> QED BY <1>7, <3>1, <3>2, <3>3, Zenon
  <2> QED BY <2>1, <2>2, <2>3, <2>4, <2>5, <2>6, Zenon DEF ConnOK
<1>17. \A d \in Conns : d >= next_conn_id' => d >= next_conn_id
  BY <1>1, <1>3, <1>8 DEF Conns
<1> QED BY <1>8, <1>11, <1>13, <1>14, <1>15, <1>16, <1>17, FlightOne

\* on_read up to the session: one recv fewer is outstanding and counted.
LEMMA FlightOnRead ==
    ASSUME FlightInv, NEW c \in Conns, OnRead(c)
    PROVE  FlightInv'
<1>1. /\ Dispatch("recv", c)
      /\ UNCHANGED <<accepted, next_conn_id, g_shutdown, remote_ip, client_addr, accepts>>
      /\ UNCHANGED <<timers, recvs, sends, submitted, wire, broken, origin>>
  BY DEF OnRead, historyVars
<1>2. /\ cq' \in Seq(Completions) /\ Unique(cq')
      /\ \A op, d : InCq(op, d)' <=> InCq(op, d) /\ ~(op = "recv" /\ d = c)
      /\ InCq("recv", c)
  BY <1>1, DispatchCq DEF FlightInv, TypeOK
<1>3. /\ ConnOK(c) /\ c \in live /\ recvs[c] = 0 /\ buf[c] \in ConnBuffers
      /\ buf[c].inflight > 0 /\ cur = 0 /\ pc \in {"batch", "drain"}
  <2>1. ConnOK(c) /\ buf[c] \in ConnBuffers
    BY DEF FlightInv, TypeOK
  <2>2. RecvOut(c)
    BY <1>2 DEF RecvOut
  <2>3. c \in live /\ recvs[c] = 0
    BY <1>2, <2>1, <2>2, Zenon DEF ConnOK
  <2>4. buf[c].inflight = (IF RecvOut(c) THEN 1 ELSE 0) + (IF SendOut(c) THEN 1 ELSE 0)
    BY <2>1, Zenon DEF ConnOK
  <2>5. cur = 0 /\ pc \in {"batch", "drain"}
    BY <1>1 DEF FlightInv, Dispatch, Handler, InHandler
  <2> QED BY <2>1, <2>2, <2>3, <2>4, <2>5
<1>4. PICK b : b = [buf[c] EXCEPT !.inflight = @ - 1]
  OBVIOUS
<1>5. /\ b \in ConnBuffers /\ b.write_queue = buf[c].write_queue
      /\ b.write_pending = buf[c].write_pending /\ b.inflight = buf[c].inflight - 1
  BY <1>3, <1>4, FieldBuf
<1>6. \/ SubmitClose(c, b) /\ pc' = "drain" /\ cur' = cur
      \/ /\ buf' = [buf EXCEPT ![c] = b] /\ UNCHANGED <<live, tls, wants_close>>
         /\ (pc' = "drain" /\ cur' = cur) \/ (pc' \in {"plain", "feed"} /\ cur' = c)
  BY <1>3, <1>4 DEF OnRead
<1>7. /\ ~RecvOut(c)' /\ (SendOut(c)' <=> SendOut(c)) /\ ~InCq("recv", c)'
      /\ (InCq("send", c)' <=> InCq("send", c))
  <2>1. ~InCq("recv", c)' /\ (InCq("send", c)' <=> InCq("send", c))
    BY <1>2
  <2>2. recvs'[c] = 0 /\ ~(recvs'[c] > 0) /\ sends'[c] = sends[c]
    BY <1>1, <1>3
  <2> QED BY <2>1, <2>2, Zenon DEF RecvOut, SendOut
<1>8. /\ recvs'[c] <= 1 /\ (InCq("recv", c)' => recvs'[c] = 0)
      /\ Len(sends'[c]) <= 1 /\ (InCq("send", c)' => sends'[c] = <<>>)
      /\ b.inflight = (IF RecvOut(c)' THEN 1 ELSE 0) + (IF SendOut(c)' THEN 1 ELSE 0)
      /\ SendOut(c)' => b.write_queue # <<>> /\ b.write_pending
      /\ sends'[c] # <<>> => Head(sends'[c]) = Head(b.write_queue)
  <2>1. RecvOut(c)
    BY <1>2, Zenon DEF RecvOut
  <2>2. /\ buf[c].inflight = (IF RecvOut(c) THEN 1 ELSE 0) + (IF SendOut(c) THEN 1 ELSE 0)
        /\ Len(sends[c]) <= 1 /\ (InCq("send", c) => sends[c] = <<>>)
        /\ SendOut(c) => buf[c].write_queue # <<>> /\ buf[c].write_pending
        /\ sends[c] # <<>> => Head(sends[c]) = Head(buf[c].write_queue)
    BY <1>3, Zenon DEF ConnOK
  <2>3. b.inflight = (IF RecvOut(c)' THEN 1 ELSE 0) + (IF SendOut(c)' THEN 1 ELSE 0)
    BY <1>5, <1>7, <2>1, <2>2
  <2>4. recvs'[c] = 0 /\ recvs'[c] <= 1 /\ sends'[c] = sends[c]
    BY <1>1, <1>3
  <2> QED BY <1>5, <1>7, <2>2, <2>3, <2>4, Zenon
<1>9. /\ buf' \in [Conns -> ConnBuffers] /\ live' \in SUBSET Conns
      /\ tls' \in [Conns -> {"none", "handshake", "established"}]
      /\ wants_close' \in [Conns -> BOOLEAN]
      /\ \A d \in Conns : d # c => buf'[d] = buf[d] /\ (d \in live' <=> d \in live)
      /\ ConnOK(c)'
  BY <1>1, <1>3, <1>5, <1>6, <1>7, <1>8, SettleConn
<1>10. TypeOK'
  BY <1>1, <1>2, <1>3, <1>6, <1>9 DEF FlightInv, TypeOK
<1>11. Handler'
  BY <1>3, <1>6 DEF Handler, InHandler
<1>12. Singles'
  BY <1>1, <1>2 DEF FlightInv, Singles
<1>13. \A d \in Conns : cur' = d => d = c
  BY <1>3, <1>6 DEF Conns
<1>14. \A d \in Conns : d # c => /\ InCq("recv", d)' <=> InCq("recv", d)
                                 /\ InCq("send", d)' <=> InCq("send", d)
  BY <1>2
<1> QED BY <1>1, <1>2, <1>9, <1>10, <1>11, <1>12, <1>13, <1>14, FlightOne

\* on_write: the send is no longer outstanding; the next one may be.
LEMMA FlightOnWrite ==
    ASSUME FlightInv, NEW c \in Conns, OnWrite(c)
    PROVE  FlightInv'
<1>1. /\ Dispatch("send", c) /\ pc' = "drain"
      /\ UNCHANGED <<cur, accepted, next_conn_id, g_shutdown, remote_ip, client_addr>>
      /\ UNCHANGED <<accepts, timers, recvs, submitted, wire, broken, origin>>
  BY DEF OnWrite, historyVars
<1>2. /\ cq' \in Seq(Completions) /\ Unique(cq')
      /\ \A op, d : InCq(op, d)' <=> InCq(op, d) /\ ~(op = "send" /\ d = c)
      /\ InCq("send", c)
  BY <1>1, DispatchCq DEF FlightInv, TypeOK
<1>3. /\ ConnOK(c) /\ c \in live /\ sends[c] = <<>> /\ buf[c] \in ConnBuffers
      /\ buf[c].inflight = 1 + (IF RecvOut(c) THEN 1 ELSE 0)
      /\ buf[c].write_queue # <<>> /\ cur = 0 /\ c # 0
      /\ sends \in [Conns -> Seq(1 .. MaxReplies)]
  <2>1. ConnOK(c) /\ SendOut(c) /\ buf[c] \in ConnBuffers /\ c # 0
        /\ sends \in [Conns -> Seq(1 .. MaxReplies)]
    BY <1>2 DEF FlightInv, SendOut, TypeOK, Conns
  <2>2. cur = 0
    BY <1>1 DEF FlightInv, Dispatch, Handler, InHandler
  <2>3. /\ c \in live /\ sends[c] = <<>> /\ buf[c].write_queue # <<>>
        /\ buf[c].inflight = (IF RecvOut(c) THEN 1 ELSE 0) + (IF SendOut(c) THEN 1 ELSE 0)
    BY <1>2, <2>1 DEF ConnOK
  <2> QED BY <2>1, <2>2, <2>3
<1>4. PICK done : done = [buf[c] EXCEPT !.inflight = @ - 1]
  OBVIOUS
<1>5. /\ done \in ConnBuffers /\ done.write_queue = buf[c].write_queue
      /\ done.inflight = buf[c].inflight - 1 /\ done.closing = buf[c].closing
  <2>1. buf[c].inflight > 0
    BY <1>3
  <2> QED BY <1>3, <1>4, <2>1, FieldBuf
<1>6. PICK b : b = Popped(done)
  OBVIOUS
<1>7. b \in ConnBuffers /\ b.inflight = done.inflight
  BY <1>3, <1>5, <1>6, PoppedBuf
<1>8. /\ (RecvOut(c)' <=> RecvOut(c)) /\ ~InCq("send", c)'
      /\ (InCq("recv", c)' <=> InCq("recv", c))
      /\ recvs'[c] <= 1 /\ (InCq("recv", c)' => recvs'[c] = 0)
      /\ done.inflight = IF RecvOut(c)' THEN 1 ELSE 0
  <2>1. ~InCq("send", c)' /\ (InCq("recv", c)' <=> InCq("recv", c)) /\ recvs'[c] = recvs[c]
    BY <1>1, <1>2
  <2>2. RecvOut(c)' <=> RecvOut(c)
    BY <2>1, Zenon DEF RecvOut
  <2>3. recvs[c] <= 1 /\ (InCq("recv", c) => recvs[c] = 0)
    BY <1>3, Zenon DEF ConnOK
  <2>4. done.inflight = IF RecvOut(c)' THEN 1 ELSE 0
    <3>1. PICK r \in {0, 1} : r = IF RecvOut(c) THEN 1 ELSE 0
      OBVIOUS
    <3>2. buf[c].inflight = 1 + r
      BY <1>3, <3>1
    <3>3. done.inflight = r
      BY <1>5, <3>2
    <3> QED BY <2>2, <3>1, <3>3
  <2> QED BY <2>1, <2>2, <2>3, <2>4, Zenon
<1>9. \A d \in Conns : d # c => /\ InCq("recv", d)' <=> InCq("recv", d)
                                /\ InCq("send", d)' <=> InCq("send", d)
  BY <1>2
<1>10. Handler' /\ Singles'
  BY <1>1, <1>2, <1>3 DEF FlightInv, Handler, InHandler, Singles
<1>11. CASE /\ UNCHANGED sends
            /\ \/ SubmitClose(c, done)
               \/ SubmitClose(c, b)
               \/ buf' = [buf EXCEPT ![c] = b] /\ UNCHANGED <<live, tls, wants_close>>
  <2>1. ~SendOut(c)' /\ sends'[c] = <<>> /\ Len(sends'[c]) <= 1
    <3>1. sends'[c] = <<>>
      BY <1>3, <1>11
    <3>2. Len(sends'[c]) <= 1
      BY <3>1
    <3> QED BY <1>8, <3>1, <3>2, Zenon DEF SendOut
  <2>2. PICK x \in {done, b} :
            \/ SubmitClose(c, x)
            \/ buf' = [buf EXCEPT ![c] = x] /\ UNCHANGED <<live, tls, wants_close>>
    BY <1>11
  <2>3. x \in ConnBuffers
        /\ x.inflight = (IF RecvOut(c)' THEN 1 ELSE 0) + (IF SendOut(c)' THEN 1 ELSE 0)
    BY <1>5, <1>7, <1>8, <2>1
  <2>4. /\ buf' \in [Conns -> ConnBuffers] /\ live' \in SUBSET Conns
        /\ tls' \in [Conns -> {"none", "handshake", "established"}]
        /\ wants_close' \in [Conns -> BOOLEAN]
        /\ \A d \in Conns : d # c => buf'[d] = buf[d] /\ (d \in live' <=> d \in live)
        /\ ConnOK(c)'
    BY <1>1, <1>3, <1>8, <2>1, <2>2, <2>3, SettleConn
  <2>5. TypeOK'
    BY <1>1, <1>2, <1>3, <1>11, <2>4 DEF FlightInv, TypeOK
  <2> QED BY <1>1, <1>2, <1>9, <1>10, <1>11, <2>4, <2>5, FlightOne
<1>12. CASE /\ b.write_queue # <<>>
            /\ buf' = [buf EXCEPT ![c] = Flushed(b)]
            /\ ArmSend(c, b.write_queue)
            /\ UNCHANGED <<live, tls, wants_close>>
  <2>1. PICK f : f = Flushed(b)
    OBVIOUS
  <2>2. /\ f \in ConnBuffers /\ f.write_queue = b.write_queue /\ f.write_pending
        /\ f.inflight = b.inflight + 1
    BY <1>7, <1>12, <2>1, FlushedBuf
  <2>3. Head(b.write_queue) \in 1 .. MaxReplies
    <3>1. b.write_queue \in Seq(1 .. MaxReplies)
      BY <1>7 DEF ConnBuffers
    <3> QED BY <1>12, <3>1, HeadTailProperties
  <2>4. sends' = [sends EXCEPT ![c] = <<Head(b.write_queue)>>]
    BY <1>3, <1>12, <2>3 DEF ArmSend
  <2>5. /\ sends' \in [Conns -> Seq(1 .. MaxReplies)]
        /\ sends'[c] = <<Head(b.write_queue)>>
        /\ \A d \in Conns : d # c => sends'[d] = sends[d]
    <3>1. <<Head(b.write_queue)>> \in Seq(1 .. MaxReplies)
      BY <2>3
    <3> QED BY <1>3, <2>4, <3>1
  <2>6. /\ sends'[c] # <<>> /\ Len(sends'[c]) = 1
        /\ Head(sends'[c]) = Head(f.write_queue)
    BY <2>2, <2>5
  <2>7. SendOut(c)' /\ f.inflight = (IF RecvOut(c)' THEN 1 ELSE 0) + 1
    BY <1>7, <1>8, <2>2, <2>6 DEF SendOut
  <2>8. /\ buf' \in [Conns -> ConnBuffers] /\ live' \in SUBSET Conns
        /\ tls' \in [Conns -> {"none", "handshake", "established"}]
        /\ wants_close' \in [Conns -> BOOLEAN]
        /\ \A d \in Conns : d # c => buf'[d] = buf[d] /\ (d \in live' <=> d \in live)
        /\ ConnOK(c)'
    <3>1. buf' = [buf EXCEPT ![c] = f]
      BY <1>12, <2>1
    <3>2. /\ f.inflight = (IF RecvOut(c)' THEN 1 ELSE 0) + (IF SendOut(c)' THEN 1 ELSE 0)
          /\ f.write_queue # <<>> /\ Len(sends'[c]) <= 1 /\ cur' # c
      <4>1. f.inflight = (IF RecvOut(c)' THEN 1 ELSE 0) + (IF SendOut(c)' THEN 1 ELSE 0)
        BY <2>7
      <4>2. f.write_queue # <<>>
        BY <1>12, <2>2
      <4>3. Len(sends'[c]) <= 1
        BY <2>6
      <4>4. cur' # c
        BY <1>1, <1>3
      <4> QED BY <4>1, <4>2, <4>3, <4>4
    <3> QED BY <1>1, <1>3, <1>8, <1>12, <2>2, <2>6, <3>1, <3>2, SettleConn
  <2>9. TypeOK'
    BY <1>1, <1>2, <2>5, <2>8 DEF FlightInv, TypeOK
  <2> QED BY <1>1, <1>2, <1>9, <1>10, <2>5, <2>8, <2>9, FlightOne
<1> QED BY <1>3, <1>4, <1>6, <1>11, <1>12, Zenon DEF OnWrite

\* Every step of the loop, its sessions and the kernel keeps the invariant.
LEMMA FlightNext == FlightInv /\ [Next]_vars => FlightInv'
<1> SUFFICES ASSUME FlightInv, [Next]_vars PROVE FlightInv'
  OBVIOUS
<1>1. CASE UNCHANGED vars
  <2>1. UNCHANGED <<loopVars, connVars, kernelVars, historyVars>>
    BY <1>1 DEF vars
  <2>2. TypeOK' /\ Handler'
    BY <2>1 DEF FlightInv, TypeOK, Handler, loopVars, connVars, kernelVars, historyVars
  <2> QED BY <2>1, <2>2, FlightIdle DEF loopVars, connVars, kernelVars, historyVars
<1>2. CASE Environment
  BY <1>2, FlightKernelSingle, FlightKernelRecv, FlightKernelSend, FlightPc DEF Environment
<1>3. CASE TestShutdown \/ WaitCqe \/ EndBatch \/ RefuseConn
  BY <1>3, FlightPc
<1>4. CASE OnTimer \/ OnAccept \/ NewConn
  BY <1>4, FlightSingle, FlightNewConn
<1>5. ASSUME NEW c \in Conns, Session(c) PROVE FlightInv'
  BY <1>5, FlightSessionReplies, FlightSessionQuits, FlightSessionUpgrades,
     FlightEncryptFails, FlightFeedThrows, FlightFeedReturns, FlightPc DEF Session
<1>6. ASSUME NEW c \in Conns, OnRead(c) \/ AfterSession(c) \/ OnWrite(c) PROVE FlightInv'
  BY <1>6, FlightOnRead, FlightAfterSession, FlightOnWrite
<1> QED BY <1>1, <1>2, <1>3, <1>4, <1>5, <1>6 DEF Next, Loop, Exited

\* The invariant of the operations in flight holds in every reachable state.
LEMMA FlightCorrect == Spec => []FlightInv
BY FlightInit, FlightNext, PTL DEF Spec

\* Every reachable state of the loop is well typed; in particular inflight
\* never goes negative.
THEOREM TypeCorrect == Spec => []TypeOK
<1>1. FlightInv => TypeOK
  BY DEF FlightInv
<1> QED BY <1>1, FlightCorrect, PTL

\* inflight counts exactly the operations of its connection that are in the
\* kernel or in the queue, whatever the session, the faults and the schedule.
THEOREM InflightCorrect == Spec => []InflightExact
<1>1. FlightInv => InflightExact
  <2> SUFFICES ASSUME FlightInv, NEW c \in Conns
               PROVE  /\ recvs[c] + (IF InCq("recv", c) THEN 1 ELSE 0) <= 1
                      /\ Len(sends[c]) + (IF InCq("send", c) THEN 1 ELSE 0) <= 1
                      /\ buf[c].inflight = (IF RecvOut(c) THEN 1 ELSE 0)
                                           + (IF SendOut(c) THEN 1 ELSE 0)
    BY DEF InflightExact
  <2>1. ConnOK(c) /\ recvs[c] \in Nat /\ Len(sends[c]) \in Nat
    BY LenProperties DEF FlightInv, TypeOK
  <2>2. PICK n \in Nat : n = Len(sends[c])
    BY <2>1
  <2>3. n <= 1 /\ (InCq("send", c) => n = 0)
    BY <2>1, <2>2 DEF ConnOK
  <2>4. n + (IF InCq("send", c) THEN 1 ELSE 0) <= 1
    BY <2>3
  <2>5. recvs[c] + (IF InCq("recv", c) THEN 1 ELSE 0) <= 1
    BY <2>1 DEF ConnOK
  <2> QED BY <2>1, <2>2, <2>4, <2>5, Zenon DEF ConnOK
<1> QED BY <1>1, FlightCorrect, PTL

\* submit_close never frees buffers the kernel may still use: an outstanding
\* operation's connection is still held.
THEOREM NoDanglingCorrect == Spec => []NoDanglingOp
<1>1. FlightInv => NoDanglingOp
  BY DEF FlightInv, ConnOK, NoDanglingOp
<1> QED BY <1>1, FlightCorrect, PTL

\* A session parses read_buf only while no recv can overwrite it, and a send's
\* buffer stays at the front of the queue until its completion is handled.
THEOREM BuffersCorrect == Spec => []KernelBuffersStable
<1>1. FlightInv => KernelBuffersStable
  BY DEF FlightInv, ConnOK, KernelBuffersStable
<1> QED BY <1>1, FlightCorrect, PTL
=============================================================================
