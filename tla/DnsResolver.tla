---------------------------- MODULE DnsResolver ----------------------------
(***************************************************************************)
(* DNS::Resolver (dns/resolver.cpp) on the io_uring of a listener's loop.  *)
(* A query is a chain of three linked requests, sendmsg, a link timeout    *)
(* and recvmsg, all on one UDP socket; completions come back through       *)
(* on_cqe with nothing but the operation and the 16-bit transaction id.    *)
(*                                                                         *)
(* The kernel is external and modelled as io_uring documents it: the link  *)
(* timeout bounds the request before it, the sendmsg; recvmsg starts when  *)
(* sendmsg has succeeded and is cancelled when it has not; a datagram      *)
(* completes any one recvmsg that waits on the socket.  The network may    *)
(* lose, delay, duplicate and reorder the nameserver's replies.            *)
(***************************************************************************)
EXTENDS DnsMessage, FiniteSets

CONSTANTS
    Queries,   \* the calls of resolve
    Txids,     \* transaction ids
    NameOf,    \* [Queries -> name]
    TypeOf,    \* [Queries -> record type]
    Shapes,    \* what the nameserver's replies may be like
    MAX_RETRIES,
    MaxPending, \* bound on queries in progress at a time
    MaxCq,      \* bound on completions the loop has not yet taken
    MaxArrived  \* bound on completions of recvmsg other than cancellations

Statuses == {"OK", "NXDomain", "ServFail", "Timeout", "ParseError"}

ASSUME Ids ==
    /\ Txids \subseteq 1..65535
    /\ MaxPending \in Nat /\ MaxPending < Cardinality(Txids)
    /\ MaxCq \in Nat /\ MaxArrived \in Nat
ASSUME RetriesBounded == MAX_RETRIES \in Nat
ASSUME QueriesNamed == "none" \notin Queries

VARIABLES
    pending,   \* pending_: [Txids -> [q, retries] or None]
    ctx,       \* recv_ctxs_: [Txids -> the chain whose buffer it is, 0: absent]
    sends,     \* kernel: chains whose sendmsg has not completed
    recvs,     \* kernel: recvmsg requests waiting for a datagram
    cq,        \* kernel: the completion queue
    known,     \* nameserver: the queries that reached it, with their ids
    chains,    \* chains submitted so far
    arrived,   \* datagrams and errors that completed a recvmsg so far
    asked,     \* history: queries passed to resolve
    answer,    \* history: what each callback was called with
    usedIds,   \* history: [Queries -> ids the query was sent with]
    source,    \* history: [Queries -> the query whose reply it was given]
    stray      \* history: queries reached by a completion of another chain

kernelVars == <<sends, recvs, cq, known>>
vars == <<pending, ctx, sends, recvs, cq, known, chains, arrived, asked,
          answer, usedIds, source, stray>>

None == [q |-> "none", retries |-> 0]

Init ==
    /\ pending = [t \in Txids |-> None]
    /\ ctx = [t \in Txids |-> 0]
    /\ sends = {} /\ recvs = {} /\ cq = <<>> /\ known = {}
    /\ chains = 0 /\ arrived = 0
    /\ asked = {}
    /\ answer = [q \in Queries |-> "none"]
    /\ usedIds = [q \in Queries |-> {}]
    /\ source = [q \in Queries |-> "none"]
    /\ stray = {}

-----------------------------------------------------------------------------
(* Submitting *)

\* alloc_txid draws until the id is not pending.
Free == {t \in Txids : pending[t] = None}
Room == Cardinality(Txids \ Free) < MaxPending

\* submit_query and arm_recv for q under the id t, on top of a pending map
\* and a table of receive contexts that the caller has changed already.
Submit_NoContext(q, retries, t, pend, ctxs) ==
    /\ pending' = [pend EXCEPT ![t] = [q |-> q, retries |-> retries]]
    /\ ctx' = ctxs
    /\ sends' = sends \cup {[n |-> chains + 1, txid |-> t, q |-> q]}
    /\ chains' = chains + 1
    /\ usedIds' = [usedIds EXCEPT ![q] = @ \cup {t}]

Submit(q, retries, t, pend, ctxs) ==
    /\ pending' = [pend EXCEPT ![t] = [q |-> q, retries |-> retries]]
    /\ ctx' = [ctxs EXCEPT ![t] = chains + 1]
    /\ sends' = sends \cup {[n |-> chains + 1, txid |-> t, q |-> q]}
    /\ chains' = chains + 1
    /\ usedIds' = [usedIds EXCEPT ![q] = @ \cup {t}]

\* resolve, called from the loop's thread.
Resolve ==
    /\ Room
    /\ \E q \in Queries \ asked, t \in Free :
         /\ asked' = asked \cup {q}
         /\ Submit(q, 0, t, pending, ctx)
    /\ UNCHANGED <<recvs, cq, known, arrived, answer, source, stray>>

-----------------------------------------------------------------------------
(* Completions *)

\* The callback of the query under t is called with st, then the entry and
\* its context are erased.  Inside the callback another query may be asked;
\* t is still pending then, so its id is another one.
Erased(t) == [pending EXCEPT ![t] = None]
ContextErased_Kept(t) == ctx
ContextErased(t) == [ctx EXCEPT ![t] = 0]

Done(t, st) ==
    LET pend == Erased(t)
        ctxs == ContextErased(t)
    IN  /\ answer' = [answer EXCEPT ![pending[t].q] = st]
        /\ \/ /\ pending' = pend /\ ctx' = ctxs
              /\ UNCHANGED <<sends, chains, asked, usedIds>>
           \/ \E q \in Queries \ asked, u \in Free :
                /\ asked' = asked \cup {q}
                /\ Submit(q, 0, u, pend, ctxs)

Ignored == UNCHANGED <<pending, ctx, sends, chains, asked, answer, usedIds>>


on_send(c) ==
    /\ IF pending[c.txid] = None THEN Ignored ELSE Done(c.txid, "ServFail")
    /\ UNCHANGED <<recvs, source>>

\* on_recv of a cancelled recvmsg: once more under a new id, then Timeout.
MayRetry(t) == pending[t].retries < MAX_RETRIES

Retry_Forgets(t) ==
    /\ pending' = Erased(t) /\ ctx' = ContextErased(t)
    /\ UNCHANGED <<sends, chains, usedIds, asked, answer>>

Retry(t) ==
    /\ \E u \in Free :
         Submit(pending[t].q, pending[t].retries + 1, u,
                Erased(t), ContextErased(t))
    /\ UNCHANGED <<asked, answer>>

\* What the buffer of the context holds: the datagram, when the completion
\* is of the recvmsg that was given this buffer.  Otherwise the kernel wrote
\* to one that was freed, and the allocator may have handed that memory out
\* again for this context, zeroed, before or after the write.
Zero == [q |-> "none", txid |-> 0, shape |-> "zero"]
BufferOf(c) == IF ctx[c.txid] = c.n THEN {c.data} ELSE {c.data, Zero}

\* The bytes of a datagram: replies with a record, without, refused,
\* truncated, cut short inside the question, or shorter than a header.
Query(q, t) == encode_query(NameOf[q], TypeOf[q], t)
AnswerData == [type \in {A, TXT} |-> IF type = A THEN <<192, 0, 2, 1>>
                                     ELSE <<1, 118, 2, 61, 49>>]
Bytes(d) ==
    IF d.shape = "zero" THEN [i \in 1..16 |-> 0]
    ELSE LET query == Query(d.q, d.txid)
         IN  CASE d.shape = "record" ->
                    Reply(query, 33152, <<Record(NamePointer, TypeOf[d.q],
                                                 AnswerData[TypeOf[d.q]])>>)
               [] d.shape = "nxdomain" -> Reply(query, 33155, <<>>)
               [] d.shape = "refused" -> Reply(query, 33157, <<>>)
               [] d.shape = "truncated" -> Reply(query, 33664, <<>>)
               [] d.shape = "cut" -> SubSeq(Reply(query, 33152, <<>>), 1, Len(query) - 3)
               [] d.shape = "short" -> SubSeq(query, 1, 11)

\* What Message::decode makes of each of them.
Datagrams == [q : Queries, txid : Txids, shape : Shapes] \cup {Zero}
Decoded == [d \in Datagrams |-> decode(Bytes(d))]

StatusOf(msg) ==
    CASE ~msg.ok -> "ParseError"
      [] msg.ok /\ msg.rcode = 3 -> "NXDomain"
      [] msg.ok /\ msg.rcode \notin {0, 3} -> "ServFail"
      [] msg.ok /\ msg.rcode = 0 -> IF msg.tc THEN "ServFail" ELSE "OK"

\* A reply to another id: recvmsg is armed again with the context's buffer,
\* and then the context is erased.
IdMatches_Unchecked(msg, t) == TRUE
IdMatches(msg, t) == msg.id = t

Rearm(c) ==
    /\ recvs' = recvs \cup {[n |-> -c.n, txid |-> c.txid]}
    /\ ctx' = [ctx EXCEPT ![c.txid] = 0]
    /\ UNCHANGED <<pending, sends, chains, asked, answer, usedIds, source>>

on_recv(c) ==
    LET t == c.txid
    IN  \/ /\ pending[t] = None                    \* already answered
           /\ ctx' = [ctx EXCEPT ![t] = 0]
           /\ UNCHANGED <<pending, sends, chains, asked, answer, usedIds, recvs, source>>
        \/ /\ pending[t] # None /\ c.res = "cancelled"
           /\ IF MayRetry(t) THEN Retry(t) ELSE Done(t, "Timeout")
           /\ UNCHANGED <<recvs, source>>
        \/ /\ pending[t] # None /\ c.res = "error"
           /\ Done(t, "ServFail")
           /\ UNCHANGED <<recvs, source>>
        \/ /\ pending[t] # None /\ c.res = "data"
           /\ ctx[t] = 0                           \* no context
           /\ Done(t, "ParseError")
           /\ UNCHANGED <<recvs, source>>
        \/ /\ pending[t] # None /\ c.res = "data"
           /\ ctx[t] # 0
           /\ \E d \in BufferOf(c) : \E msg \in {Decoded[d]} :
                IF msg.ok /\ ~IdMatches(msg, t) THEN Rearm(c)
                ELSE /\ Done(t, StatusOf(msg))
                     /\ source' = [source EXCEPT ![pending[t].q] =
                                     IF msg.ok THEN d.q ELSE @]
                     /\ UNCHANGED recvs

\* on_cqe: the head of the queue, by its operation; on_timeout only logs.
OnCqe ==
    /\ cq # <<>>
    /\ cq' = Tail(cq)
    /\ LET c == Head(cq)
       IN  /\ \/ c.op = "send" /\ on_send(c)
              \/ c.op = "recv" /\ on_recv(c)
              \/ c.op = "timeout" /\ Ignored /\ UNCHANGED <<recvs, source>>
           /\ stray' = IF pending[c.txid] # None /\ ctx[c.txid] # c.n
                       THEN stray \cup {pending[c.txid].q} ELSE stray
    /\ UNCHANGED <<known, arrived>>

-----------------------------------------------------------------------------
(* The kernel and the network *)

Cqe(op, c, res, data) == [op |-> op, txid |-> c.txid, n |-> c.n, res |-> res, data |-> data]

\* sendmsg succeeds: its timeout is disarmed and recvmsg starts to wait.
KernelSent(c) ==
    /\ Len(cq) + 2 <= MaxCq
    /\ sends' = sends \ {c}
    /\ recvs' = recvs \cup {[n |-> c.n, txid |-> c.txid]}
    /\ known' = known \cup {[q |-> c.q, txid |-> c.txid]}
    /\ cq' = cq \o <<Cqe("send", c, "sent", Zero),
                     Cqe("timeout", c, "cancelled", Zero)>>
    /\ UNCHANGED <<pending, ctx, chains, arrived, asked, answer, usedIds, source,
                   stray>>

\* sendmsg fails or times out: the rest of the chain is cancelled.
KernelSendFailed(c) ==
    /\ Len(cq) + 3 <= MaxCq
    /\ sends' = sends \ {c}
    /\ cq' = cq \o <<Cqe("send", c, "failed", Zero),
                     Cqe("timeout", c, "cancelled", Zero),
                     Cqe("recv", c, "cancelled", Zero)>>
    /\ UNCHANGED <<pending, ctx, chains, arrived, asked, answer, usedIds, source,
                   stray, recvs, known>>

\* A datagram, or an error of the socket, completes a waiting recvmsg.
KernelRecv(r) ==
    /\ Len(cq) < MaxCq /\ arrived < MaxArrived
    /\ arrived' = arrived + 1
    /\ recvs' = recvs \ {r}
    /\ \/ cq' = Append(cq, Cqe("recv", r, "error", Zero))
       \/ \E k \in known, sh \in Shapes :
            cq' = Append(cq, Cqe("recv", r, "data",
                                 [q |-> k.q, txid |-> k.txid, shape |-> sh]))
    /\ UNCHANGED <<pending, ctx, sends, chains, asked, answer, usedIds, source,
                   stray, known>>

Next ==
    \/ Resolve
    \/ OnCqe
    \/ \E c \in sends : KernelSent(c) \/ KernelSendFailed(c)
    \/ \E r \in recvs : KernelRecv(r)

\* The loop handles completions as long as there are any, and the kernel
\* completes every sendmsg: its link timeout sees to that.  No fairness on
\* the arrival of datagrams.
\* OnCqe is the one step that takes a completion off the queue, and there is
\* always a free id for it, so fairness of the taking is fairness of OnCqe.
TakesHead == cq # <<>> /\ cq' = Tail(cq)

Fairness ==
    /\ WF_cq(TakesHead)
    /\ WF_vars(\E c \in sends : KernelSent(c) \/ KernelSendFailed(c))

Spec == Init /\ [][Next]_vars /\ Fairness

-----------------------------------------------------------------------------
(* Properties *)

\* What the resolver promises, with its history of calls as the contract's.
Contract == INSTANCE DnsContract WITH asked <- asked, answer <- answer

\* The resolver implements the contract, fairness included: every query is
\* answered, once, whatever the kernel, the network and the drawing of ids do.
ImplementsContract == Contract!Spec

\* The tables fit together: a pending query was asked and is not answered,
\* it is pending under one id, and a receive context exists only for an id
\* that is pending, so none is leaked.
TypeOK ==
    /\ \A t \in Txids :
         /\ pending[t] # None => /\ pending[t].q \in asked
                                 /\ answer[pending[t].q] = "none"
                                 /\ pending[t].retries \in 0..MAX_RETRIES
                                 /\ t \in usedIds[pending[t].q]
         /\ ctx[t] # 0 => pending[t] # None
         /\ \A u \in Txids : pending[t] # None /\ pending[t].q = pending[u].q => t = u
    /\ \A q \in Queries : answer[q] \in Statuses \cup {"none"}

\* A query is given the reply to another query only when the two were sent
\* under the same id: on_recv checks the id and not the question.
WrongReplyOnlyByReuse ==
    \A q \in Queries : source[q] \notin {"none", q}
        => usedIds[q] \cap usedIds[source[q]] # {}


\* on_recv's recv_ctxs_.erase(cit) has something to erase when it retries:
\* cit was looked up before, and is not checked there.
RetryHasContext ==
    cq # <<>> =>
        LET c == Head(cq)
        IN  c.op = "recv" /\ c.res = "cancelled" /\ pending[c.txid] # None
              /\ MayRetry(c.txid)
            => ctx[c.txid] # 0

\* decode reads back what a nameserver answers: the id, the question as it
\* was encoded (empty labels dropped, long ones cut at 63 bytes), and each
\* record under the name its compression pointer leads to.
ReplyDecodes ==
    \A k \in known : \A msg \in {Decoded[[q |-> k.q, txid |-> k.txid, shape |-> "record"]]} :
        LET Cut(l) == SubSeq(l, 1, IF Len(l) > 63 THEN 63 ELSE Len(l))
            kept == SelectSeq(NameOf[k.q], LAMBDA l : l # <<>>)
            name == [i \in DOMAIN kept |-> Cut(kept[i])]
        IN  /\ msg.ok /\ msg.id = k.txid /\ msg.rcode = 0 /\ ~msg.tc
            /\ msg.questions = <<[name |-> name, qtype |-> TypeOf[k.q]]>>
            /\ msg.answers = <<[name |-> name, type |-> TypeOf[k.q],
                   rdata |-> IF TypeOf[k.q] = A THEN <<192, 0, 2, 1>>
                             ELSE <<118, 61, 49>>]>>

=============================================================================
