---------------------------- MODULE IoUringLoop ----------------------------
(***************************************************************************)
(* The event loop every server thread runs (src/io/io_uring_loop.cpp): one *)
(* thread that drains io_uring's completion queue and, for each            *)
(* connection, keeps a ConnBuffer, a session and perhaps a TLS connection. *)
(*                                                                         *)
(* The kernel and the loop run concurrently.  A handler that calls into a  *)
(* session is split into one action per call the session makes back into   *)
(* the loop, so the kernel completes operations between any two of them.   *)
(* A reply is known by its number on its connection: 1 is the banner.      *)
(***************************************************************************)
EXTENDS Integers, Sequences, FiniteSets

CONSTANTS
    LastConn,    \* bound: connection ids handed out are 1 .. LastConn
    MaxLive,     \* connections held at once: 100 in on_accept
    MaxReplies,  \* bound: submit_write calls on one connection
    Addrs,       \* client addresses
    Kind,        \* which session the factory makes: "smtp", "submission" or "imap"
    Faults,      \* which failures, and whether a shutdown, the environment shows
    HasTimer     \* whether arm_periodic_timer was called before run()

Conns == 1 .. LastConn

AllFaults == {"accept", "canceled", "send", "feed", "encrypt", "throw", "shutdown"}

ASSUME LoopAssumption ==
    /\ LastConn \in Nat \ {0}
    /\ MaxLive \in Nat \ {0}
    /\ MaxReplies \in Nat \ {0}
    /\ Kind \in {"smtp", "submission", "imap"}
    /\ Faults \subseteq AllFaults
    /\ HasTimer \in BOOLEAN
    /\ Addrs # {}
    /\ "failed" \notin Addrs

VARIABLES
    pc,            \* where the loop thread is
    cur,           \* the connection a split handler works for, or 0
    accepted,      \* the accept result a split on_accept works on
    next_conn_id,
    client_addr,   \* client_addr_: the one sockaddr every accept writes
    g_shutdown,
    live,          \* the keys of buffers_ and of sessions_
    buf,           \* buffers_: the ConnBuffer of each live connection
    tls,           \* tls_conns_: "none", "handshake" or "established"
    wants_close,   \* what the session's wants_close() returns
    remote_ip,     \* the address the session was constructed with
    accepts,       \* accept operations the kernel holds
    timers,        \* timeout operations the kernel holds
    recvs,         \* recv operations the kernel holds, per connection
    sends,         \* send operations the kernel holds: the reply each points to
    cq,            \* completions the kernel has posted, oldest first
    submitted,     \* history: replies handed to submit_write
    wire,          \* history: replies the kernel took, in order
    broken,        \* history: the kernel reported the socket dead
    origin         \* history: who really connected

loopVars == <<pc, cur, accepted, next_conn_id, g_shutdown>>
connVars == <<live, buf, tls, wants_close, remote_ip>>
kernelVars == <<client_addr, accepts, timers, recvs, sends, cq>>
historyVars == <<submitted, wire, broken, origin>>
vars == <<loopVars, connVars, kernelVars, historyVars>>

\* A ConnBuffer as buffers_[cid] default-constructs it.
NewBuffer == [write_queue |-> <<>>, write_pending |-> FALSE,
              closing |-> FALSE, inflight |-> 0]

Init ==
    /\ pc = "test" /\ cur = 0 /\ accepted = "failed"
    /\ next_conn_id = 1
    /\ client_addr \in Addrs
    /\ g_shutdown = FALSE
    /\ live = {}
    /\ buf = [c \in Conns |-> NewBuffer]
    /\ tls = [c \in Conns |-> "none"]
    /\ wants_close = [c \in Conns |-> FALSE]
    /\ remote_ip = [c \in Conns |-> client_addr]
    /\ accepts = 1
    /\ timers = IF HasTimer THEN 1 ELSE 0
    /\ recvs = [c \in Conns |-> 0]
    /\ sends = [c \in Conns |-> <<>>]
    /\ cq = <<>>
    /\ submitted = [c \in Conns |-> 0]
    /\ wire = [c \in Conns |-> <<>>]
    /\ broken = [c \in Conns |-> FALSE]
    /\ origin = [c \in Conns |-> client_addr]

-----------------------------------------------------------------------------
(* The kernel: it completes an operation it holds and posts the result.    *)

\* Once run() has returned its ring is torn down.
Running == pc # "exited"

Completion(op, c, res) == [op |-> op, conn |-> c, res |-> res]

Post(op, c, res) == cq' = Append(cq, Completion(op, c, res))

\* A client at address a connects: the kernel fills client_addr_ and
\* completes the accept.  The guard on ids is the bound LastConn.
KernelAccept(a) ==
    /\ Running /\ accepts > 0
    /\ next_conn_id + (IF pc = "accept" THEN 1 ELSE 0) <= LastConn
    /\ accepts' = accepts - 1
    /\ client_addr' = a
    /\ Post("accept", 0, a)
    /\ UNCHANGED <<loopVars, connVars, timers, recvs, sends, historyVars>>

KernelAcceptFails ==
    /\ "accept" \in Faults
    /\ Running /\ accepts > 0
    /\ accepts' = accepts - 1
    /\ Post("accept", 0, "failed")
    /\ UNCHANGED <<loopVars, connVars, client_addr, timers, recvs, sends,
                   historyVars>>

\* A recv completes with bytes, with end of file or an error, or canceled.
KernelRecv(c, res) ==
    /\ Running /\ recvs[c] > 0
    /\ res = "canceled" => res \in Faults
    /\ recvs' = [recvs EXCEPT ![c] = @ - 1]
    /\ Post("recv", c, res)
    /\ broken' = [broken EXCEPT ![c] = @ \/ res = "failed"]
    /\ UNCHANGED <<loopVars, connVars, client_addr, accepts, timers, sends,
                   submitted, wire, origin>>

\* A send takes the reply its buffer held when it was armed, or fails.
KernelSend(c, res) ==
    /\ Running /\ sends[c] # <<>>
    /\ res = "failed" => "send" \in Faults
    /\ sends' = [sends EXCEPT ![c] = Tail(@)]
    /\ Post("send", c, res)
    /\ wire' = IF res = "ok" THEN [wire EXCEPT ![c] = Append(@, Head(sends[c]))]
                             ELSE wire
    /\ broken' = [broken EXCEPT ![c] = @ \/ res = "failed"]
    /\ UNCHANGED <<loopVars, connVars, client_addr, accepts, timers, recvs,
                   submitted, origin>>

KernelTimer ==
    /\ Running /\ timers > 0
    /\ timers' = timers - 1
    /\ Post("timer", 0, "etime")
    /\ UNCHANGED <<loopVars, connVars, client_addr,
                   accepts, recvs, sends, historyVars>>

\* handle_signal, or a sibling thread that failed, asks every loop to stop.
RequestShutdown ==
    /\ "shutdown" \in Faults
    /\ Running /\ ~g_shutdown
    /\ g_shutdown' = TRUE
    /\ UNCHANGED <<pc, cur, accepted, next_conn_id, connVars, kernelVars,
                   historyVars>>

-----------------------------------------------------------------------------
(* The loop's own operations on a ConnBuffer b.                            *)

\* flush_write: the front of the queue goes to the kernel.
Flushed(b) ==
    IF b.write_queue = <<>>
    THEN b
    ELSE [b EXCEPT !.write_pending = TRUE, !.inflight = @ + 1]

\* Mutant: send every reply at once.
SendIdle_Always(b) == TRUE

\* submit_write arms a send only when none is in flight.
SendIdle(b) == ~b.write_pending

\* submit_write of reply n: queue it, and flush if that is due.
Written(b, n) ==
    LET q == [b EXCEPT !.write_queue = Append(@, n)]
    IN IF SendIdle(q) THEN Flushed(q) ELSE q

\* The send flush_write arms points to the front of the queue it was given.
ArmSend(c, queue) == sends' = [sends EXCEPT ![c] = Append(@, Head(queue))]

\* What submit_write of the next n replies does outside the ConnBuffer.
SubmitReplies(c, n) ==
    /\ submitted[c] + n <= MaxReplies
    /\ submitted' = [submitted EXCEPT ![c] = @ + n]
    /\ IF SendIdle(buf[c])
       THEN ArmSend(c, Append(buf[c].write_queue, submitted[c] + 1))
       ELSE UNCHANGED sends

\* Mutant: the recv is armed but inflight is not incremented.
Counted_Not(b) == b

\* An armed recv is counted.
Counted(b) == [b EXCEPT !.inflight = @ + 1]

\* Mutant: off by one, one operation may still be in flight.
Busy_OffByOne(b) == b.inflight > 1

\* submit_close waits while an operation is in flight.
Busy(b) == b.inflight > 0

\* submit_close: mark, and erase the connection once it is not busy.
SubmitClose(c, b) ==
    IF Busy(b)
    THEN /\ buf' = [buf EXCEPT ![c] = [b EXCEPT !.closing = TRUE]]
         /\ UNCHANGED <<live, tls, wants_close>>
    ELSE /\ live' = live \ {c}
         /\ buf' = [buf EXCEPT ![c] = NewBuffer]
         /\ tls' = [tls EXCEPT ![c] = "none"]
         /\ wants_close' = [wants_close EXCEPT ![c] = FALSE]

\* Mutant: the reply that was sent stays at the front.
Popped_Keeps(b) == [b EXCEPT !.write_pending = FALSE]

\* Mutant: write_pending is not reset.
Popped_StillPending(b) ==
    [b EXCEPT !.write_queue = IF @ = <<>> THEN @ ELSE Tail(@)]

\* on_write pops the reply that was sent.
Popped(b) ==
    [b EXCEPT !.write_queue = IF @ = <<>> THEN @ ELSE Tail(@),
              !.write_pending = FALSE]

\* Mutant: the deferred close is forgotten.
ClosesAfterSend_Never(b) == FALSE

\* on_write finishes a close that was waiting for the send.
ClosesAfterSend(b) == b.closing

\* Mutant: one connection more than the limit.
AtLimit_OffByOne == Cardinality(live) > MaxLive

\* Mutant: number connections by how many are held.
FreshId_BySize == Cardinality(live) + 1

\* on_accept's limit, and the id it gives the next connection.
AtLimit == Cardinality(live) >= MaxLive

FreshId == next_conn_id

-----------------------------------------------------------------------------
(* run(): test the flag, wait, drain the batch.                            *)

\* Mutant: the flag is never looked at.
TestShutdown_Ignored ==
    /\ pc = "test"
    /\ pc' = "wait"
    /\ UNCHANGED <<cur, accepted, next_conn_id, g_shutdown, connVars,
                   kernelVars, historyVars>>

TestShutdown ==
    /\ pc = "test"
    /\ pc' = IF g_shutdown THEN "exited" ELSE "wait"
    /\ UNCHANGED <<cur, accepted, next_conn_id, g_shutdown, connVars,
                   kernelVars, historyVars>>

\* io_uring_wait_cqe_timeout returns at once when a completion waits; else it
\* sleeps until one arrives, the timeout passes or a signal interrupts it.
WaitCqe ==
    /\ pc = "wait"
    /\ pc' = IF cq # <<>> THEN "batch" ELSE "test"
    /\ UNCHANGED <<cur, accepted, next_conn_id, g_shutdown, connVars,
                   kernelVars, historyVars>>

\* io_uring_for_each_cqe ends after at least one completion: the queue is
\* empty, or it has reached the tail it read, or the ring's last slot.
EndBatch ==
    /\ pc = "drain"
    /\ pc' = "test"
    /\ UNCHANGED <<cur, accepted, next_conn_id, g_shutdown, connVars,
                   kernelVars, historyVars>>

Dispatch(op, c) ==
    /\ pc \in {"batch", "drain"}
    /\ cq # <<>>
    /\ Head(cq).op = op /\ Head(cq).conn = c
    /\ cq' = Tail(cq)

\* Mutant: a timer that is not re-armed.
OnTimer_Once ==
    /\ Dispatch("timer", 0)
    /\ pc' = "drain"
    /\ UNCHANGED <<cur, accepted, next_conn_id, g_shutdown, connVars, client_addr,
                   accepts, timers, recvs, sends, historyVars>>

\* on_timer: run the periodic callback, re-arm unless shutting down.
OnTimer ==
    /\ Dispatch("timer", 0)
    /\ pc' = "drain"
    /\ timers' = IF g_shutdown THEN timers ELSE timers + 1
    /\ UNCHANGED <<cur, accepted, next_conn_id, g_shutdown, connVars, client_addr,
                   accepts, recvs, sends, historyVars>>

-----------------------------------------------------------------------------
(* on_accept.  The next accept is armed first, so the kernel may complete  *)
(* it, and overwrite client_addr_, before the address is read.             *)

OnAccept ==
    /\ Dispatch("accept", 0)
    /\ accepts' = accepts + 1
    /\ accepted' = Head(cq).res
    /\ pc' = "accept"
    /\ UNCHANGED <<cur, next_conn_id, g_shutdown, connVars, client_addr, timers,
                   recvs, sends, historyVars>>

\* At the limit, or on an error, the handler returns; the id is not used.
RefuseConn ==
    /\ pc = "accept"
    /\ AtLimit \/ accepted = "failed"
    /\ pc' = "drain" /\ accepted' = "failed"
    /\ UNCHANGED <<cur, next_conn_id, g_shutdown, connVars, kernelVars, historyVars>>

\* The session's constructor submits the banner; then the first recv is armed.
NewConn ==
    /\ pc = "accept"
    /\ ~AtLimit /\ accepted # "failed"
    /\ pc' = "drain" /\ accepted' = "failed"
    /\ next_conn_id' = next_conn_id + 1
    /\ LET cid == FreshId
           b == Written(NewBuffer, 1)
       IN /\ cid \in Conns
          /\ live' = live \cup {cid}
          /\ buf' = [buf EXCEPT ![cid] = Counted(b)]
          /\ remote_ip' = [remote_ip EXCEPT ![cid] = client_addr]
          /\ origin' = [origin EXCEPT ![cid] = accepted]
          /\ recvs' = [recvs EXCEPT ![cid] = @ + 1]
          /\ submitted' = [submitted EXCEPT ![cid] = @ + 1]
          /\ ArmSend(cid, b.write_queue)
    /\ UNCHANGED <<cur, g_shutdown, tls, wants_close, client_addr, accepts, timers,
                   cq, wire, broken>>

-----------------------------------------------------------------------------
(* on_read, up to the call into the session or the TLS connection.         *)

OnRead(c) ==
    /\ Dispatch("recv", c)
    /\ LET b == [buf[c] EXCEPT !.inflight = @ - 1]
           res == Head(cq).res
       IN \/ /\ c \notin live
             /\ pc' = "drain"
             /\ UNCHANGED <<cur, live, buf, tls, wants_close>>
          \/ /\ c \in live /\ res = "canceled"
             /\ buf' = [buf EXCEPT ![c] = b]
             /\ pc' = "drain"
             /\ UNCHANGED <<cur, live, tls, wants_close>>
          \/ /\ c \in live /\ res = "failed"
             /\ SubmitClose(c, b)
             /\ pc' = "drain"
             /\ UNCHANGED cur
          \/ /\ c \in live /\ res = "data"
             /\ pc' = IF tls[c] = "none" THEN "plain" ELSE "feed"
             /\ cur' = c
             /\ buf' = [buf EXCEPT ![c] = b]
             /\ UNCHANGED <<live, tls, wants_close>>
    /\ UNCHANGED <<accepted, next_conn_id, g_shutdown, remote_ip, client_addr,
                   accepts, timers, recvs, sends, historyVars>>

\* on_data is running for connection c.  During the handshake feed_encryption
\* does not call it.
InSession(c) ==
    /\ cur = c /\ c \in live
    /\ pc = "plain" \/ (pc = "feed" /\ tls[c] = "established")

\* The session replies to a command.
SessionReplies(c) ==
    /\ InSession(c)
    /\ SubmitReplies(c, 1)
    /\ buf' = [buf EXCEPT ![c] = Written(@, submitted[c] + 1)]
    /\ UNCHANGED <<loopVars, live, tls, wants_close, remote_ip, client_addr,
                   accepts, timers, recvs, cq, wire, broken, origin>>

\* submit_write's encrypt() throws: the reply is given up and the connection
\* closed under the session that is still running.
EncryptFails(c) ==
    /\ "encrypt" \in Faults
    /\ InSession(c) /\ tls[c] = "established"
    /\ SubmitClose(c, buf[c])
    /\ UNCHANGED <<loopVars, remote_ip, kernelVars, historyVars>>

\* QUIT or LOGOUT.  SMTP::Session leaves the close to on_read; the other two
\* call submit_close themselves, IMAP after two replies.
QuitReplies == IF Kind = "imap" THEN 2 ELSE 1


QuitCloses == Kind # "smtp"

SessionQuits(c) ==
    LET n == submitted[c]
        first == Written(buf[c], n + 1)
        b == IF QuitReplies = 2 THEN Written(first, n + 2) ELSE first
    IN /\ InSession(c)
       /\ SubmitReplies(c, QuitReplies)
       /\ IF Busy(b) \/ ~QuitCloses
          THEN /\ buf' = [buf EXCEPT ![c] = [b EXCEPT !.closing = @ \/ QuitCloses]]
               /\ wants_close' = [wants_close EXCEPT ![c] = TRUE]
               /\ UNCHANGED <<live, tls>>
          ELSE SubmitClose(c, b)
       /\ UNCHANGED <<loopVars, remote_ip, client_addr, accepts, timers, recvs,
                      cq, wire, broken, origin>>

\* STARTTLS: reply, upgrade_tls, and on_data drops the rest of its input.
\* Only IMAP accepts it when TLS is already up.
SessionUpgrades(c) ==
    /\ InSession(c)
    /\ tls[c] = "none" \/ Kind = "imap"
    /\ SubmitReplies(c, 1)
    /\ buf' = [buf EXCEPT ![c] = Written(@, submitted[c] + 1)]
    /\ tls' = [tls EXCEPT ![c] = "handshake"]
    /\ pc' = "tail"
    /\ UNCHANGED <<cur, accepted, next_conn_id, g_shutdown, live, wants_close,
                   remote_ip, client_addr, accepts, timers, recvs, cq, wire,
                   broken, origin>>

\* An exception out of a plaintext on_data leaves run(): main's thread
\* function catches it and asks every thread to stop.
SessionThrows(c) ==
    /\ "throw" \in Faults
    /\ InSession(c) /\ pc = "plain"
    /\ pc' = "exited"
    /\ g_shutdown' = TRUE
    /\ UNCHANGED <<cur, accepted, next_conn_id, connVars, kernelVars, historyVars>>

\* on_read catches what feed_encryption, or a session under it, throws.
FeedThrows(c) ==
    /\ Faults \cap {"feed", "throw"} # {}
    /\ pc = "feed" /\ cur = c /\ c \in live
    /\ SubmitClose(c, buf[c])
    /\ pc' = "drain" /\ cur' = 0
    /\ UNCHANGED <<accepted, next_conn_id, g_shutdown, remote_ip, kernelVars,
                   historyVars>>

PlainReturns(c) ==
    /\ pc = "plain" /\ cur = c
    /\ pc' = "tail"
    /\ UNCHANGED <<cur, accepted, next_conn_id, g_shutdown, connVars, kernelVars,
                   historyVars>>

\* feed_encryption returns: the handshake may have completed, and there may
\* be ciphertext of OpenSSL's own to send, raw.
FeedReturns(c) ==
    /\ pc = "feed" /\ cur = c
    /\ pc' = "tail"
    /\ \/ UNCHANGED tls
       \/ /\ tls[c] = "handshake"
          /\ tls' = [tls EXCEPT ![c] = "established"]
    /\ \/ UNCHANGED <<buf, sends, submitted>>
       \/ /\ c \in live
          /\ SubmitReplies(c, 1)
          /\ buf' = [buf EXCEPT ![c] = Written(@, submitted[c] + 1)]
    /\ UNCHANGED <<cur, accepted, next_conn_id, g_shutdown, live, wants_close,
                   remote_ip, client_addr, accepts, timers, recvs, cq, wire,
                   broken, origin>>

\* The end of on_read: look the connection up again, close or re-arm.
AfterSession(c) ==
    /\ pc = "tail" /\ cur = c
    /\ pc' = "drain" /\ cur' = 0
    /\ \/ /\ c \notin live
          /\ UNCHANGED <<live, buf, tls, wants_close, recvs>>
       \/ /\ c \in live /\ (wants_close[c] \/ buf[c].closing)
          /\ SubmitClose(c, buf[c])
          /\ UNCHANGED recvs
       \/ /\ c \in live /\ ~wants_close[c] /\ ~buf[c].closing
          /\ buf' = [buf EXCEPT ![c] = Counted(@)]
          /\ recvs' = [recvs EXCEPT ![c] = @ + 1]
          /\ UNCHANGED <<live, tls, wants_close>>
    /\ UNCHANGED <<accepted, next_conn_id, g_shutdown, remote_ip, client_addr,
                   accepts, timers, sends, cq, historyVars>>

-----------------------------------------------------------------------------
(* on_write.  Its branch on wants_tls_upgrade() never runs: every session  *)
(* clears the flag before on_data returns.                                 *)

OnWrite(c) ==
    /\ Dispatch("send", c)
    /\ pc' = "drain"
    /\ LET done == [buf[c] EXCEPT !.inflight = @ - 1]
           b == Popped(done)
           more == b.write_queue # <<>> /\ ~b.closing
       IN \/ /\ c \notin live
             /\ UNCHANGED <<live, buf, tls, wants_close, sends>>
          \/ /\ c \in live /\ Head(cq).res = "failed"
             /\ SubmitClose(c, done)
             /\ UNCHANGED sends
          \/ /\ c \in live /\ Head(cq).res = "ok" /\ more
             /\ buf' = [buf EXCEPT ![c] = Flushed(b)]
             /\ ArmSend(c, b.write_queue)
             /\ UNCHANGED <<live, tls, wants_close>>
          \/ /\ c \in live /\ Head(cq).res = "ok" /\ ClosesAfterSend(b)
             /\ SubmitClose(c, b)
             /\ UNCHANGED sends
          \/ /\ c \in live /\ Head(cq).res = "ok" /\ ~more /\ ~ClosesAfterSend(b)
             /\ buf' = [buf EXCEPT ![c] = b]
             /\ UNCHANGED <<live, tls, wants_close, sends>>
    /\ UNCHANGED <<cur, accepted, next_conn_id, g_shutdown, remote_ip, client_addr,
                   accepts, timers, recvs, historyVars>>

-----------------------------------------------------------------------------
Environment ==
    \/ \E a \in Addrs : KernelAccept(a)
    \/ KernelAcceptFails
    \/ \E c \in Conns, res \in {"data", "failed", "canceled"} : KernelRecv(c, res)
    \/ \E c \in Conns, res \in {"ok", "failed"} : KernelSend(c, res)
    \/ KernelTimer
    \/ RequestShutdown

Session(c) ==
    \/ SessionReplies(c)
    \/ SessionQuits(c)
    \/ SessionUpgrades(c)
    \/ EncryptFails(c)
    \/ SessionThrows(c)
    \/ FeedThrows(c)
    \/ PlainReturns(c)
    \/ FeedReturns(c)

Loop ==
    \/ TestShutdown
    \/ WaitCqe
    \/ EndBatch
    \/ OnTimer
    \/ OnAccept
    \/ RefuseConn
    \/ NewConn
    \/ \E c \in Conns : OnRead(c) \/ Session(c) \/ AfterSession(c) \/ OnWrite(c)

Exited == ~Running /\ UNCHANGED vars

Next == Loop \/ Environment \/ Exited

Spec == Init /\ [][Next]_vars

\* The thread runs whenever it can; the kernel runs timers and completes sends
\* (peers read, or the socket fails), and a recv on a socket it reported dead.
Fairness ==
    /\ WF_vars(TestShutdown) /\ WF_vars(WaitCqe) /\ SF_vars(EndBatch)
    /\ WF_vars(OnTimer) /\ WF_vars(OnAccept) /\ WF_vars(RefuseConn \/ NewConn)
    /\ WF_vars(KernelTimer)
    /\ \A c \in Conns :
          /\ WF_vars(OnRead(c)) /\ WF_vars(OnWrite(c))
          /\ WF_vars(PlainReturns(c) \/ FeedReturns(c)) /\ WF_vars(AfterSession(c))
          /\ WF_vars(\E res \in {"ok", "failed"} : KernelSend(c, res))
          /\ WF_vars(broken[c] /\ KernelRecv(c, "failed"))

FairSpec == Spec /\ Fairness

-----------------------------------------------------------------------------
(* Properties.                                                             *)

ConnBuffers == [write_queue : Seq(1 .. MaxReplies), write_pending : BOOLEAN,
                closing : BOOLEAN, inflight : Nat]

AcceptResults == Addrs \cup {"failed"}

\* What the kernel posts for each kind of operation.
Completions ==
    [op : {"accept"}, conn : {0}, res : AcceptResults]
        \cup [op : {"timer"}, conn : {0}, res : {"etime"}]
        \cup [op : {"recv"}, conn : Conns, res : {"data", "failed", "canceled"}]
        \cup [op : {"send"}, conn : Conns, res : {"ok", "failed"}]

\* Every variable of the loop, the kernel and the history has its type.
TypeOK ==
    /\ pc \in {"test", "wait", "batch", "drain", "accept", "plain", "feed", "tail",
               "exited"}
    /\ cur \in Conns \cup {0}
    /\ accepted \in AcceptResults
    /\ next_conn_id \in 1 .. LastConn + 1
    /\ client_addr \in Addrs
    /\ g_shutdown \in BOOLEAN
    /\ live \in SUBSET Conns
    /\ buf \in [Conns -> ConnBuffers]
    /\ tls \in [Conns -> {"none", "handshake", "established"}]
    /\ wants_close \in [Conns -> BOOLEAN]
    /\ remote_ip \in [Conns -> Addrs]
    /\ accepts \in Nat /\ timers \in Nat
    /\ recvs \in [Conns -> Nat]
    /\ sends \in [Conns -> Seq(1 .. MaxReplies)]
    /\ cq \in Seq(Completions)
    /\ submitted \in [Conns -> 0 .. MaxReplies]
    /\ wire \in [Conns -> Seq(1 .. MaxReplies)]
    /\ broken \in [Conns -> BOOLEAN]
    /\ origin \in [Conns -> AcceptResults]

\* A completion of kind op for connection c waits in the queue.
Has(q, op, c) == \E i \in 1 .. Len(q) : q[i].op = op /\ q[i].conn = c

InCq(op, c) == Has(cq, op, c)

RecvOut(c) == recvs[c] > 0 \/ InCq("recv", c)
SendOut(c) == sends[c] # <<>> \/ InCq("send", c)

\* ConnBuffer::inflight, the only thing that keeps submit_close from freeing
\* the buffers, counts exactly the operations of the connection that the kernel
\* holds or whose completion has not been handled; at most one recv, one send.
InflightExact ==
    \A c \in Conns :
        /\ recvs[c] + (IF InCq("recv", c) THEN 1 ELSE 0) <= 1
        /\ Len(sends[c]) + (IF InCq("send", c) THEN 1 ELSE 0) <= 1
        /\ buf[c].inflight = (IF RecvOut(c) THEN 1 ELSE 0) + (IF SendOut(c) THEN 1 ELSE 0)

\* The kernel never holds, and the queue never carries, an operation of a
\* connection whose buffers are gone ("avoid dangling references", the comment
\* on encode_userdata in io_uring_loop.hpp).
NoDanglingOp ==
    \A c \in Conns : RecvOut(c) \/ SendOut(c) => c \in live

\* While a session parses read_buf no recv can write into it, and the buffer a
\* send points to is the front of write_queue until its completion is handled.
KernelBuffersStable ==
    \A c \in Conns :
        /\ cur = c => ~RecvOut(c)
        /\ SendOut(c) => buf[c].write_queue # <<>> /\ buf[c].write_pending
        /\ sends[c] # <<>> => Head(sends[c]) = Head(buf[c].write_queue)

\* The client reads the replies in the order the session submitted them: none
\* twice, none out of order, none skipped.
RepliesInOrder ==
    \A c \in Conns :
        /\ Len(wire[c]) <= submitted[c]
        /\ \A i \in 1 .. Len(wire[c]) : wire[c][i] = i

\* A queued reply of an open connection always has a send on its way whose
\* completion will flush the next: no reply is left behind without a wake-up.
NoStuckReply ==
    \A c \in live : buf[c].write_queue # <<>> /\ ~buf[c].closing => SendOut(c)

\* Between handlers every connection the loop still holds has an operation
\* outstanding that will wake the loop for it, and an open one is listening.
NoOrphan ==
    \A c \in live \ {cur} :
        /\ RecvOut(c) \/ SendOut(c)
        /\ ~buf[c].closing => RecvOut(c)

\* on_accept holds at most MaxLive connections, and exactly one accept is
\* armed or waits to be handled: the listener never goes deaf.
AcceptDiscipline ==
    /\ Cardinality(live) <= MaxLive
    /\ accepts + (IF InCq("accept", 0) THEN 1 ELSE 0) = 1

\* A connection id names one connection for ever: once erased it stays erased,
\* so a late completion cannot reach another client's buffers.
IdNeverReused ==
    [][\A c \in Conns : c < next_conn_id /\ c \notin live => c \notin live']_vars


\* submit_close, line 492, "wait for the queue to drain": a connection closed
\* on a healthy socket has sent every reply its session submitted.
DrainedBeforeClose ==
    \A c \in Conns :
        c < next_conn_id /\ c \notin live /\ ~broken[c] => Len(wire[c]) = submitted[c]

\* A connection marked closing is erased, unless the loop ends first.
ClosingCompletes ==
    \A c \in Conns : buf[c].closing ~> (c \notin live \/ pc = "exited")

\* A submitted reply reaches the wire unless the connection fails or closes.
RepliesReachWire ==
    \A c \in Conns : \A n \in 1 .. MaxReplies :
        submitted[c] >= n ~> \/ Len(wire[c]) >= n
                             \/ broken[c] \/ c \notin live \/ buf[c].closing
                             \/ pc = "exited"

\* Once g_shutdown is set the loop's thread ends.
ShutdownCompletes == g_shutdown ~> pc = "exited"

\* The periodic callback runs again and again until shutdown.
TimerKeepsFiring == []<><<OnTimer>>_vars \/ <>g_shutdown
=============================================================================
