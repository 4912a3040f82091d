-------------------------- MODULE DnsResolverProofs --------------------------
(***************************************************************************)
(* Proofs about DnsResolver for every set of queries and ids: its tables   *)
(* stay consistent (TypeOK), and it implements the safety part of          *)
(* DnsContract: a callback runs once, for a query that was asked.          *)
(***************************************************************************)
EXTENDS DnsResolver, TLAPS

\* The tables of the resolver: TypeOK with the types that its proof needs.
Tables ==
    /\ pending \in [Txids -> [q : Queries \cup {"none"}, retries : Nat]]
    /\ ctx \in [Txids -> Nat]
    /\ chains \in Nat
    /\ asked \subseteq Queries
    /\ answer \in [Queries -> Statuses \cup {"none"}]
    /\ usedIds \in [Queries -> SUBSET Txids]
    /\ \A q \in Queries \ asked : answer[q] = "none"
    /\ TypeOK

\* The kernel's requests and completions carry ids of the resolver.
CqeType == [op : {"send", "timeout", "recv"}, txid : Txids, n : Int,
            res : {"sent", "failed", "cancelled", "error", "data"},
            data : [q : Queries \cup {"none"}, txid : Txids \cup {0}, shape : Shapes \cup {"zero"}]]
Kernel ==
    /\ sends \subseteq [n : Int, txid : Txids, q : Queries]
    /\ recvs \subseteq [n : Int, txid : Txids]
    /\ known \subseteq [q : Queries, txid : Txids]
    /\ cq \in Seq(CqeType)

ResolverInv == Tables /\ Kernel

\* Sending a query q under a free id u keeps the tables consistent, whether q
\* is new or takes the place of the entry that pend no longer has.
LEMMA SubmitKeeps ==
    ASSUME Tables, NEW q \in Queries, NEW r \in 0..MAX_RETRIES, NEW u \in Txids,
           NEW pend, NEW ctxs,
           pend \in [Txids -> [q : Queries \cup {"none"}, retries : Nat]],
           ctxs \in [Txids -> Nat],
           \A t \in Txids : pend[t] = pending[t] \/ pend[t] = None,
           \A t \in Txids : ctxs[t] # 0 => pend[t] # None,
           \A t \in Txids : pend[t].q # q,
           \A t \in Txids : pend[t] # None => answer'[pend[t].q] = "none",
           answer' \in [Queries -> Statuses \cup {"none"}],
           answer'[q] = "none",
           asked' \subseteq Queries, asked \subseteq asked', q \in asked',
           \A x \in Queries \ asked' : answer'[x] = "none",
           Submit(q, r, u, pend, ctxs)
    PROVE  Tables' /\ sends' \subseteq sends \cup [n : Nat, txid : Txids, q : Queries]
<1> USE RetriesBounded, QueriesNamed DEF Tables, None
<1>1. /\ pending' = [pend EXCEPT ![u] = [q |-> q, retries |-> r]]
      /\ ctx' = [ctxs EXCEPT ![u] = chains + 1]
      /\ usedIds' = [usedIds EXCEPT ![q] = @ \cup {u}]
      /\ chains' = chains + 1
      /\ sends' = sends \cup {[n |-> chains + 1, txid |-> u, q |-> q]}
  BY DEF Submit
<1>2. r \in Nat
  OBVIOUS
<1>3. pending' \in [Txids -> [q : Queries \cup {"none"}, retries : Nat]]
  BY <1>1, <1>2
<1>4. ctx' \in [Txids -> Nat] /\ chains' \in Nat /\ usedIds' \in [Queries -> SUBSET Txids]
  BY <1>1
<1>5. \A t \in Txids : t # u => pending'[t] = pend[t] /\ ctx'[t] = ctxs[t]
  BY <1>1
<1>6. pending'[u] = [q |-> q, retries |-> r]
  BY <1>1
<1>7. \A x \in Queries : usedIds[x] \subseteq usedIds'[x] /\ u \in usedIds'[q]
  BY <1>1
<1>8. ASSUME NEW t \in Txids
      PROVE  /\ pending'[t] # None => /\ pending'[t].q \in asked'
                                      /\ answer'[pending'[t].q] = "none"
                                      /\ pending'[t].retries \in 0..MAX_RETRIES
                                      /\ t \in usedIds'[pending'[t].q]
             /\ ctx'[t] # 0 => pending'[t] # None
  <2>1. CASE t = u
    BY <1>6, <1>7, <2>1
  <2>2. CASE t # u
    BY <1>5, <1>7, <2>2 DEF TypeOK
  <2> QED BY <2>1, <2>2
<1>9. ASSUME NEW t \in Txids, NEW v \in Txids, pending'[t] # None, pending'[t].q = pending'[v].q
      PROVE  t = v
  <2>1. CASE t # u /\ v # u
    BY <1>5, <1>9, <2>1 DEF TypeOK
  <2>2. CASE t = u \/ v = u
    BY <1>5, <1>6, <1>9, <2>2
  <2> QED BY <2>1, <2>2
<1>10. TypeOK'
  BY <1>8, <1>9 DEF TypeOK
<1>11. sends' \subseteq sends \cup [n : Nat, txid : Txids, q : Queries]
  BY <1>1
<1> QED BY <1>3, <1>4, <1>10, <1>11

\* What the requests of new chains look like.
SendType == [n : Nat, txid : Txids, q : Queries]

\* Calling the callback of the query under t, which may ask another one,
\* keeps the tables consistent and is a step of the contract.
LEMMA DoneKeeps ==
    ASSUME Tables, NEW t \in Txids, NEW st \in Statuses, pending[t] # None, Done(t, st)
    PROVE  Tables' /\ sends' \subseteq sends \cup SendType /\ Contract!Next
<1> DEFINE q == pending[t].q
<1> USE RetriesBounded, QueriesNamed
<1>1. q \in asked /\ q \in Queries /\ answer[q] = "none"
  BY DEF Tables, TypeOK
<1>2. answer' = [answer EXCEPT ![q] = st]
  BY DEF Done
<1>3. answer' \in [Queries -> Statuses \cup {"none"}]
  BY <1>1, <1>2 DEF Tables
<1>4. \A v \in Txids : v # t /\ pending[v] # None => answer'[pending[v].q] = "none"
  BY <1>1, <1>2 DEF Tables, TypeOK
<1>5. /\ Erased(t) \in [Txids -> [q : Queries \cup {"none"}, retries : Nat]]
      /\ Erased(t)[t] = None
      /\ \A v \in Txids : v # t => Erased(t)[v] = pending[v]
  BY DEF Tables, Erased, None
<1>6. /\ ContextErased(t) \in [Txids -> Nat]
      /\ ContextErased(t)[t] = 0
      /\ \A v \in Txids : v # t => ContextErased(t)[v] = ctx[v]
  BY DEF Tables, ContextErased
<1>7. CASE /\ pending' = Erased(t) /\ ctx' = ContextErased(t)
           /\ UNCHANGED <<sends, chains, asked, usedIds>>
  <2>1. ASSUME NEW v \in Txids
        PROVE  /\ pending'[v] # None => /\ pending'[v].q \in asked'
                                        /\ answer'[pending'[v].q] = "none"
                                        /\ pending'[v].retries \in 0..MAX_RETRIES
                                        /\ v \in usedIds'[pending'[v].q]
               /\ ctx'[v] # 0 => pending'[v] # None
               /\ \A u \in Txids : pending'[v] # None /\ pending'[v].q = pending'[u].q => v = u
    <3>1. CASE v = t
      BY <1>5, <1>6, <1>7, <3>1
    <3>2. CASE v # t
      <4>1. ASSUME NEW u \in Txids, pending'[v] # None, pending'[v].q = pending'[u].q
            PROVE  v = u
        <5>1. pending[v].q \in Queries
          BY <1>5, <1>7, <3>2, <4>1 DEF Tables, TypeOK
        <5> QED BY <1>5, <1>7, <3>2, <4>1, <5>1 DEF Tables, TypeOK, None
      <4> QED BY <1>4, <1>5, <1>6, <1>7, <3>2, <4>1 DEF Tables, TypeOK
    <3> QED BY <3>1, <3>2
  <2>2. TypeOK'
    BY <1>3, <2>1 DEF TypeOK
  <2>5. \A x \in Queries \ asked' : answer'[x] = "none"
    BY <1>1, <1>2, <1>7 DEF Tables
  <2>3. Tables' /\ sends' \subseteq sends \cup SendType
    BY <1>3, <1>5, <1>6, <1>7, <2>2, <2>5 DEF Tables
  <2>4. Contract!Answer(q)
    <3>1. asked' = asked \cup {} /\ {} \in SUBSET (Queries \ asked)
      BY <1>7
    <3> QED BY <1>1, <1>2, <3>1 DEF Contract!Answer
  <2> QED BY <1>1, <2>3, <2>4 DEF Contract!Next
<1>8. ASSUME NEW new \in Queries \ asked, NEW u \in Free,
             asked' = asked \cup {new}, Submit(new, 0, u, Erased(t), ContextErased(t))
      PROVE  Tables' /\ sends' \subseteq sends \cup SendType /\ Contract!Next
  <2>1. u \in Txids
    BY DEF Free
  <2>2. \A v \in Txids : Erased(t)[v].q # new
    BY <1>5 DEF Tables, TypeOK, None
  <2>3. answer'[new] = "none"
    BY <1>1, <1>2 DEF Tables
  <2>4. \A v \in Txids : Erased(t)[v] = pending[v] \/ Erased(t)[v] = None
    BY <1>5
  <2>5. \A v \in Txids : ContextErased(t)[v] # 0 => Erased(t)[v] # None
    BY <1>5, <1>6 DEF Tables, TypeOK
  <2>6. \A v \in Txids : Erased(t)[v] # None => answer'[Erased(t)[v].q] = "none"
    BY <1>4, <1>5
  <2>7. /\ asked' \subseteq Queries /\ asked \subseteq asked' /\ new \in asked'
        /\ \A x \in Queries \ asked' : answer'[x] = "none"
    BY <1>1, <1>2, <1>8 DEF Tables
  <2>8. 0 \in 0..MAX_RETRIES
    OBVIOUS
  <2>9. Tables' /\ sends' \subseteq sends \cup SendType
    BY <1>3, <1>5, <1>6, <1>8, <2>1, <2>2, <2>3, <2>4, <2>5, <2>6, <2>7, <2>8, SubmitKeeps DEF SendType
  <2>10. Contract!Answer(q)
    <3>1. {new} \in SUBSET (Queries \ asked)
      OBVIOUS
    <3> QED BY <1>1, <1>2, <1>8, <3>1 DEF Contract!Answer
  <2> QED BY <1>1, <2>9, <2>10 DEF Contract!Next
<1> QED BY <1>7, <1>8 DEF Done

\* Sending a query once more under another id keeps the tables consistent.
LEMMA RetryKeeps ==
    ASSUME Tables, NEW t \in Txids, pending[t] # None, MayRetry(t), Retry(t)
    PROVE  Tables' /\ sends' \subseteq sends \cup SendType /\ UNCHANGED <<asked, answer>>
<1> USE RetriesBounded, QueriesNamed
<1> DEFINE q == pending[t].q
<1>1. /\ q \in asked /\ q \in Queries /\ answer[q] = "none"
      /\ pending[t].retries + 1 \in 0..MAX_RETRIES
  BY DEF Tables, TypeOK, MayRetry
<1>2. /\ Erased(t) \in [Txids -> [q : Queries \cup {"none"}, retries : Nat]]
      /\ Erased(t)[t] = None
      /\ \A v \in Txids : v # t => Erased(t)[v] = pending[v]
  BY DEF Tables, Erased, None
<1>3. /\ ContextErased(t) \in [Txids -> Nat]
      /\ ContextErased(t)[t] = 0
      /\ \A v \in Txids : v # t => ContextErased(t)[v] = ctx[v]
  BY DEF Tables, ContextErased
<1>4. PICK u \in Free : Submit(q, pending[t].retries + 1, u, Erased(t), ContextErased(t))
  BY DEF Retry
<1>5. u \in Txids /\ UNCHANGED <<asked, answer>>
  BY DEF Free, Retry
<1>6. \A v \in Txids : Erased(t)[v].q # q
  BY <1>1, <1>2 DEF Tables, TypeOK, None
<1>7. \A v \in Txids : ContextErased(t)[v] # 0 => Erased(t)[v] # None
  BY <1>2, <1>3 DEF Tables, TypeOK
<1>8. \A v \in Txids : Erased(t)[v] # None => answer'[Erased(t)[v].q] = "none"
  BY <1>2, <1>5 DEF Tables, TypeOK
<1>9. /\ answer' \in [Queries -> Statuses \cup {"none"}] /\ answer'[q] = "none"
      /\ asked' \subseteq Queries /\ asked \subseteq asked' /\ q \in asked'
      /\ \A x \in Queries \ asked' : answer'[x] = "none"
  BY <1>1, <1>5 DEF Tables
<1>10. \A v \in Txids : Erased(t)[v] = pending[v] \/ Erased(t)[v] = None
  BY <1>2
<1> QED BY <1>1, <1>2, <1>3, <1>4, <1>5, <1>6, <1>7, <1>8, <1>9, <1>10, SubmitKeeps DEF SendType

\* Erasing a receive context, and nothing else, keeps the tables consistent.
LEMMA ContextKeeps ==
    ASSUME Tables, NEW t \in Txids, ctx' = [ctx EXCEPT ![t] = 0],
           UNCHANGED <<pending, chains, asked, answer, usedIds>>
    PROVE  Tables'
<1>1. ctx' \in [Txids -> Nat] /\ \A v \in Txids : ctx'[v] # 0 => ctx[v] # 0
  BY DEF Tables
<1>2. TypeOK'
  BY <1>1 DEF Tables, TypeOK
<1> QED BY <1>1, <1>2 DEF Tables

\* The status given to a callback is one of the five.
LEMMA StatusKnown == ASSUME NEW msg PROVE StatusOf(msg) \in Statuses
<1>1. CASE ~msg.ok
  BY <1>1 DEF StatusOf, Statuses
<1>2. CASE msg.ok /\ msg.rcode = 3
  BY <1>2 DEF StatusOf, Statuses
<1>3. CASE msg.ok /\ msg.rcode \notin {0, 3}
  BY <1>3 DEF StatusOf, Statuses
<1>4. CASE msg.ok /\ msg.rcode = 0
  BY <1>4 DEF StatusOf, Statuses
<1> QED BY <1>1, <1>2, <1>3, <1>4

\* A completion, whichever it is, keeps the tables consistent, adds requests
\* of the known form only, and is a step of the contract or none.
LEMMA CompletionKeeps ==
    ASSUME ResolverInv, OnCqe
    PROVE  /\ Tables'
           /\ sends' \subseteq sends \cup SendType
           /\ recvs' \subseteq recvs \cup [n : Int, txid : Txids]
           /\ Contract!Next \/ UNCHANGED <<asked, answer>>
<1> DEFINE c == Head(cq)
<1> DEFINE Goal == /\ Tables' /\ sends' \subseteq sends \cup SendType
                   /\ Contract!Next \/ UNCHANGED <<asked, answer>>
<1>1. c \in CqeType /\ c.txid \in Txids /\ c.n \in Int
  <2>1. cq \in Seq(CqeType) /\ cq # <<>>
    BY DEF OnCqe, ResolverInv, Kernel
  <2>2. c \in CqeType
    BY <2>1
  <2> QED BY <2>2 DEF CqeType
<1>2. Tables
  BY DEF ResolverInv
<1>3. ASSUME Ignored PROVE Goal
  <2>1. UNCHANGED <<pending, ctx, sends, chains, asked, answer, usedIds>>
    BY <1>3 DEF Ignored
  <2>2. TypeOK'
    BY <1>2, <2>1 DEF Tables, TypeOK
  <2> QED BY <1>2, <2>1, <2>2 DEF Tables
<1>4. ASSUME NEW st \in Statuses, pending[c.txid] # None, Done(c.txid, st) PROVE Goal
  BY <1>1, <1>2, <1>4, DoneKeeps
<1>5. {"ServFail", "Timeout", "ParseError"} \subseteq Statuses
  BY DEF Statuses
<1>6. CASE c.op = "send" /\ on_send(c)
  <2>1. UNCHANGED recvs
    BY <1>6 DEF on_send
  <2> QED BY <1>3, <1>4, <1>5, <1>6, <2>1 DEF on_send
<1>7. CASE c.op = "timeout" /\ Ignored /\ UNCHANGED <<recvs, source>>
  BY <1>3, <1>7
<1>8. CASE c.op = "recv" /\ on_recv(c)
  <2>1. CASE pending[c.txid] = None
    <3>1. /\ ctx' = [ctx EXCEPT ![c.txid] = 0]
          /\ UNCHANGED <<pending, sends, chains, asked, answer, usedIds, recvs>>
      BY <1>8, <2>1 DEF on_recv
    <3> QED BY <1>1, <1>2, <3>1, ContextKeeps
  <2>2. CASE pending[c.txid] # None /\ c.res = "cancelled"
    <3>1. UNCHANGED recvs /\ IF MayRetry(c.txid) THEN Retry(c.txid) ELSE Done(c.txid, "Timeout")
      BY <1>8, <2>2 DEF on_recv
    <3> QED BY <1>1, <1>2, <1>4, <1>5, <2>2, <3>1, RetryKeeps
  <2>3. CASE pending[c.txid] # None /\ c.res = "error"
    <3>1. UNCHANGED recvs /\ Done(c.txid, "ServFail")
      BY <1>8, <2>3 DEF on_recv
    <3> QED BY <1>4, <1>5, <2>3, <3>1
  <2>4. CASE pending[c.txid] # None /\ c.res = "data" /\ ctx[c.txid] = 0
    <3>1. UNCHANGED recvs /\ Done(c.txid, "ParseError")
      BY <1>8, <2>4 DEF on_recv
    <3> QED BY <1>4, <1>5, <2>4, <3>1
  <2>5. CASE pending[c.txid] # None /\ c.res = "data" /\ ctx[c.txid] # 0
    <3>1. PICK d \in BufferOf(c) :
              \/ Rearm(c)
              \/ Done(c.txid, StatusOf(Decoded[d])) /\ UNCHANGED recvs
      BY <1>8, <2>5 DEF on_recv
    <3>2. CASE Rearm(c)
      <4>1. recvs' = recvs \cup {[n |-> -c.n, txid |-> c.txid]}
        BY <3>2 DEF Rearm
      <4>2. Tables'
        BY <1>1, <1>2, <3>2, ContextKeeps DEF Rearm
      <4>3. UNCHANGED <<sends, asked, answer>>
        BY <3>2 DEF Rearm
      <4> QED BY <1>1, <4>1, <4>2, <4>3
    <3>3. CASE Done(c.txid, StatusOf(Decoded[d])) /\ UNCHANGED recvs
      BY <1>4, <2>5, <3>3, StatusKnown
    <3> QED BY <3>1, <3>2, <3>3
  <2> QED BY <1>8, <2>1, <2>2, <2>3, <2>4, <2>5 DEF on_recv
<1> QED BY <1>6, <1>7, <1>8 DEF OnCqe

\* Every step keeps ResolverInv and is a step of the contract or none.
LEMMA ResolverStep ==
    ASSUME ResolverInv, [Next]_vars
    PROVE  ResolverInv' /\ [Contract!Next]_<<asked, answer>>
<1> USE RetriesBounded, QueriesNamed
<1>0. SendType \subseteq [n : Int, txid : Txids, q : Queries]
  BY DEF SendType
<1>1. CASE Resolve
  <2>1. PICK q \in Queries \ asked, t \in Free : asked' = asked \cup {q} /\ Submit(q, 0, t, pending, ctx)
    BY <1>1 DEF Resolve
  <2>2. t \in Txids /\ UNCHANGED <<recvs, cq, known, answer>>
    BY <1>1 DEF Free, Resolve
  <2>3. /\ \A v \in Txids : pending[v].q # q
        /\ \A v \in Txids : pending[v] # None => answer'[pending[v].q] = "none"
        /\ \A v \in Txids : ctx[v] # 0 => pending[v] # None
    BY <2>2 DEF ResolverInv, Tables, TypeOK, None
  <2>4. /\ answer' \in [Queries -> Statuses \cup {"none"}] /\ answer'[q] = "none"
        /\ asked' \subseteq Queries /\ asked \subseteq asked' /\ q \in asked'
        /\ \A x \in Queries \ asked' : answer'[x] = "none"
        /\ 0 \in 0..MAX_RETRIES
        /\ pending \in [Txids -> [q : Queries \cup {"none"}, retries : Nat]] /\ ctx \in [Txids -> Nat]
    BY <2>1, <2>2 DEF ResolverInv, Tables
  <2>5. Tables' /\ sends' \subseteq sends \cup SendType
    BY <2>1, <2>2, <2>3, <2>4, SubmitKeeps DEF ResolverInv, SendType
  <2>6. Contract!Ask
    BY <2>1, <2>2 DEF Contract!Ask
  <2> QED BY <1>0, <2>2, <2>5, <2>6 DEF ResolverInv, Kernel, Contract!Next
<1>2. CASE OnCqe
  <2>1. /\ Tables' /\ sends' \subseteq sends \cup SendType
        /\ recvs' \subseteq recvs \cup [n : Int, txid : Txids]
        /\ Contract!Next \/ UNCHANGED <<asked, answer>>
    BY <1>2, CompletionKeeps
  <2>2. cq' \in Seq(CqeType) /\ UNCHANGED known
    BY <1>2 DEF OnCqe, ResolverInv, Kernel
  <2>3. Kernel'
    BY <1>0, <2>1, <2>2 DEF ResolverInv, Kernel
  <2> QED BY <2>1, <2>3 DEF ResolverInv
<1>3. CASE \/ \E c \in sends : KernelSent(c) \/ KernelSendFailed(c)
           \/ \E r \in recvs : KernelRecv(r)
           \/ UNCHANGED vars
  <2>1. UNCHANGED <<pending, ctx, chains, asked, answer, usedIds>>
    BY <1>3 DEF KernelSent, KernelSendFailed, KernelRecv, vars
  <2>2. TypeOK'
    BY <2>1 DEF ResolverInv, Tables, TypeOK
  <2>3. Tables'
    BY <2>1, <2>2 DEF ResolverInv, Tables
  <2>4. Zero \in [q : Queries \cup {"none"}, txid : Txids \cup {0}, shape : Shapes \cup {"zero"}]
    BY DEF Zero
  <2>5. ASSUME NEW c \in sends, KernelSent(c) PROVE Kernel'
    <3>1. c \in [n : Int, txid : Txids, q : Queries]
      BY DEF ResolverInv, Kernel
    <3>2. Cqe("send", c, "sent", Zero) \in CqeType /\ Cqe("timeout", c, "cancelled", Zero) \in CqeType
      BY <2>4, <3>1 DEF Cqe, CqeType
    <3>3. cq' \in Seq(CqeType)
      BY <2>5, <3>2 DEF KernelSent, ResolverInv, Kernel
    <3> QED BY <2>5, <3>1, <3>3 DEF KernelSent, ResolverInv, Kernel
  <2>6. ASSUME NEW c \in sends, KernelSendFailed(c) PROVE Kernel'
    <3>1. c \in [n : Int, txid : Txids, q : Queries]
      BY DEF ResolverInv, Kernel
    <3>2. /\ Cqe("send", c, "failed", Zero) \in CqeType
          /\ Cqe("timeout", c, "cancelled", Zero) \in CqeType
          /\ Cqe("recv", c, "cancelled", Zero) \in CqeType
      BY <2>4, <3>1 DEF Cqe, CqeType
    <3>3. cq' \in Seq(CqeType)
      BY <2>6, <3>2 DEF KernelSendFailed, ResolverInv, Kernel
    <3> QED BY <2>6, <3>3 DEF KernelSendFailed, ResolverInv, Kernel
  <2>7. ASSUME NEW r \in recvs, KernelRecv(r) PROVE Kernel'
    <3>1. r \in [n : Int, txid : Txids]
      BY DEF ResolverInv, Kernel
    <3>2. Cqe("recv", r, "error", Zero) \in CqeType
      BY <2>4, <3>1 DEF Cqe, CqeType
    <3>3. \A k \in known, sh \in Shapes :
             Cqe("recv", r, "data", [q |-> k.q, txid |-> k.txid, shape |-> sh]) \in CqeType
      BY <3>1 DEF Cqe, CqeType, ResolverInv, Kernel
    <3>4. cq' \in Seq(CqeType)
      <4>1. PICK e \in CqeType : cq' = Append(cq, e)
        BY <2>7, <3>2, <3>3 DEF KernelRecv
      <4> QED BY <4>1 DEF ResolverInv, Kernel
    <3> QED BY <2>7, <3>4 DEF KernelRecv, ResolverInv, Kernel
  <2>8. ASSUME UNCHANGED vars PROVE Kernel'
    <3>1. UNCHANGED <<sends, recvs, cq, known>>
      BY <2>8 DEF vars
    <3> QED BY <3>1 DEF ResolverInv, Kernel
  <2>9. Kernel'
    BY <1>3, <2>5, <2>6, <2>7, <2>8 DEF ResolverInv
  <2> QED BY <2>1, <2>3, <2>9 DEF ResolverInv
<1> QED BY <1>1, <1>2, <1>3 DEF Next

\* The resolver starts in a consistent state.
LEMMA ResolverInit == Init => ResolverInv
<1> SUFFICES ASSUME Init PROVE ResolverInv
  OBVIOUS
<1> USE RetriesBounded, QueriesNamed
<1>1. TypeOK
  BY DEF Init, TypeOK, None
<1> QED BY <1>1 DEF Init, ResolverInv, Tables, Kernel, None, CqeType

\* For every set of queries and ids, and whatever the kernel and the network
\* do, pending_ and recv_ctxs_ fit together and no query is pending under two
\* ids.
THEOREM TablesCorrect == Spec => []TypeOK
<1>1. ResolverInv => TypeOK
  BY DEF ResolverInv, Tables
<1>2. ResolverInv /\ [Next]_vars => ResolverInv'
  BY ResolverStep
<1> QED BY ResolverInit, <1>1, <1>2, PTL DEF Spec

\* Every step of the resolver is a step of the contract or leaves it alone:
\* a callback runs only for a query that was asked, and only once.
THEOREM ImplementsSafety == Spec => Contract!Safety
<1>1. Init => Contract!Init
  BY DEF Init, Contract!Init
<1>2. ResolverInv /\ [Next]_vars => ResolverInv' /\ [Contract!Next]_<<asked, answer>>
  BY ResolverStep
<1>3. ResolverInv /\ [Next]_vars => ResolverInv' /\ [Contract!Next]_Contract!contractVars
  BY <1>2 DEF Contract!contractVars
<1> QED BY ResolverInit, <1>1, <1>3, PTL DEF Spec, Contract!Safety
=============================================================================
