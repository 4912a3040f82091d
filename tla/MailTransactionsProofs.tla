----------------------- MODULE MailTransactionsProofs -----------------------
(***************************************************************************)
(* Proofs about MailTransactions, for any aliases, policies and bounds.    *)
(* Calls says what a thread inside a call relies on; with TypeOK it is     *)
(* inductive.                                                              *)
(***************************************************************************)
EXTENDS MailTransactions, TLAPS

RcptPoints == {"select", "refuse", "update", "deactivate", "domain"}

\* What holds of a session at each point of a call.
Call(s) ==
    /\ pc[s] \in RcptPoints =>
          arg[s] \in AliasAddrs /\ Len(rcpt_to[s]) < MaxRcpt /\ state[s] \in {"Mail", "Rcpt"}
    /\ pc[s] \in {"deliver", "store"} =>
          state[s] = "Data" /\ message[s] \in 1 .. MaxMessages
    /\ pc[s] = "store" =>
          /\ arg[s] \in Addrs /\ box[s] \in Addrs
          /\ todo[s] # <<>> /\ arg[s] = Head(todo[s])
    /\ state[s] \in {"Mail", "Rcpt", "Data"} => mail_from[s] \in Senders
    /\ pc[s] = "idle" => todo[s] = <<>>

Calls == \A s \in Sessions : Call(s)

-----------------------------------------------------------------------------
(* Types and calls.                                                        *)

\* The mailbox of an address is an address.
LEMMA MailboxIsAddr ==
    ASSUME NEW s \in Sessions, NEW a \in Addrs
    PROVE  MailboxOf(s, a) \in Addrs
BY MailAssumption DEF MailboxOf, Resolves, Addrs, Policies

\* The recipients deliver works through are addresses.
LEMMA RecipientsAreAddrs ==
    ASSUME TypeOK, NEW s \in Sessions, NEW cc \in Addrs
    PROVE  Recipients(s, cc) \in Seq(Addrs)
BY DEF Recipients, TypeOK

\* One more recipient keeps the envelope's type.
LEMMA AppendType ==
    ASSUME TypeOK, NEW s \in Sessions, NEW a \in Addrs, Len(rcpt_to[s]) < MaxRcpt, AcceptRcpt(s, a)
    PROVE  /\ rcpt_to' \in [Sessions -> Seq(Addrs)]
           /\ \A r \in Sessions : Len(rcpt_to'[r]) <= MaxRcpt
           /\ state' \in [Sessions -> States]
<1>1. Append(rcpt_to[s], a) \in Seq(Addrs) /\ Len(Append(rcpt_to[s], a)) = Len(rcpt_to[s]) + 1
  BY DEF TypeOK
<1>2. rcpt_to' = [rcpt_to EXCEPT ![s] = Append(rcpt_to[s], a)]
  BY DEF AcceptRcpt
<1>3. Len(rcpt_to[s]) \in Nat
  BY DEF TypeOK
<1> QED BY <1>1, <1>2, <1>3, MailAssumption DEF TypeOK, AcceptRcpt, States

\* The locals of a call are well typed when it returns.
LEMMA ReturnType ==
    ASSUME TypeOK, NEW s \in Sessions, Return(s)
    PROVE  /\ pc' \in [Sessions -> Points]
           /\ arg' \in [Sessions -> Addrs \cup {NULL}] /\ box' \in [Sessions -> Addrs \cup {NULL}]
           /\ seen' \in [Sessions -> Nat] /\ all_ok' \in [Sessions -> BOOLEAN]
           /\ todo' \in [Sessions -> Seq(Addrs)]
BY DEF TypeOK, Return, Goto, Points

\* Deactivating aliases keeps the column's type.
LEMMA DeactivatedType ==
    ASSUME NEW A
    PROVE  Deactivated(A) \in [AliasAddrs -> BOOLEAN]
BY Zenon DEF Deactivated

\* A new session object is well typed and in no call.
LEMMA NewSessionsType ==
    ASSUME TypeOK, Calls, NEW S \in SUBSET Sessions, NewSessions(S), crashes' \in 0 .. MaxCrashes
    PROVE  TypeOK' /\ Calls'
<1>1. TypeOK'
  BY MailAssumption DEF TypeOK, NewSessions, FirstState, States, Points, tableVars
<1>2. Calls'
  <2> SUFFICES ASSUME NEW s \in Sessions PROVE Call(s)'
    BY DEF Calls
  <2>1. CASE s \in S
    BY <2>1 DEF NewSessions, FirstState, Call, RcptPoints
  <2>2. CASE s \notin S
    BY <2>2 DEF NewSessions, Calls, Call
  <2> QED BY <2>1, <2>2
<1> QED BY <1>1, <1>2

\* Each step keeps types and calls.
LEMMA TypeStep ==
    ASSUME TypeOK, Calls, [Next]_vars
    PROVE  TypeOK' /\ Calls'
<1> USE DEF tableVars, envVars, callVars, worldVars, historyVars
<1>1. CASE UNCHANGED vars
  BY <1>1 DEF vars, TypeOK, Calls, Call
<1>2. ASSUME NEW s \in Sessions, Ehlo(s) \/ Rset(s) \/ Quit(s) \/ Auth(s) \/ Data(s)
      PROVE  TypeOK' /\ Calls'
  <2>1. TypeOK'
    <3>1. CASE Ehlo(s)
      BY <3>1, MailAssumption DEF TypeOK, Ehlo, ClearEnvelope, States
    <3>2. CASE Rset(s)
      BY <3>2, MailAssumption DEF TypeOK, Rset, ClearEnvelope, States
    <3>3. CASE Quit(s) \/ Auth(s) \/ Data(s)
      BY Zenon, <3>3 DEF TypeOK, Quit, Auth, Data, States
    <3> QED BY <1>2, <3>1, <3>2, <3>3
  <2>2. Calls'
    BY Zenon, <1>2 DEF TypeOK, Calls, Call, RcptPoints, Ehlo, Rset, Quit, Auth, Data, Takes, ClearEnvelope
  <2> QED BY <2>1, <2>2
<1>3. ASSUME NEW s \in Sessions, NEW d \in Senders, Mail(s, d)
      PROVE  TypeOK' /\ Calls'
  <2>1. TypeOK'
    BY <1>3 DEF TypeOK, Mail, Takes, States
  <2>2. Calls'
    BY <1>3 DEF TypeOK, Calls, Call, RcptPoints, Mail, Takes
  <2> QED BY <2>1, <2>2
<1>4. ASSUME NEW s \in Sessions, NEW a \in Addrs, Rcpt(s, a)
      PROVE  TypeOK' /\ Calls'
  <2>1. TypeOK'
    <3>1. CASE Resolves(a)
      BY Zenon, <1>4, <3>1 DEF TypeOK, Rcpt, Goto, Points
    <3>2. CASE ~Resolves(a)
      <4>1. AcceptRcpt(s, a) /\ Len(rcpt_to[s]) < MaxRcpt
        BY <1>4, <3>2 DEF Rcpt, RoomForRcpt
      <4> QED BY Zenon, <1>4, <3>2, <4>1, AppendType DEF TypeOK, Rcpt
    <3> QED BY <3>1, <3>2
  <2>2. Calls'
    <3>1. CASE Resolves(a)
      BY <1>4, <3>1 DEF TypeOK, Calls, Call, RcptPoints, Rcpt, Takes, RoomForRcpt, Resolves, Goto
    <3>2. CASE ~Resolves(a)
      BY <1>4, <3>2 DEF TypeOK, Calls, Call, RcptPoints, Rcpt, Takes, AcceptRcpt
    <3> QED BY <3>1, <3>2
  <2> QED BY <2>1, <2>2
<1>5. ASSUME NEW s \in Sessions, NEW r \in Seq(Addrs), EndOfData(s, r)
      PROVE  TypeOK' /\ Calls'
  <2>1. TypeOK'
    BY <1>5, MailAssumption DEF TypeOK, EndOfData, Goto, Points
  <2>2. Calls'
    BY <1>5, MailAssumption DEF TypeOK, Calls, Call, RcptPoints, EndOfData, Goto
  <2> QED BY <2>1, <2>2
<1>6. ASSUME NEW s \in Sessions, ConsumeSelect(s) \/ ConsumeRefuse(s) \/ ConsumeUpdate(s) \/ ConsumeDeactivate(s)
      PROVE  TypeOK' /\ Calls'
  <2>1. arg[s] \in AliasAddrs
    BY <1>6 DEF Calls, Call, RcptPoints, ConsumeSelect, ConsumeRefuse, ConsumeUpdate, ConsumeDeactivate
  <2>2. TypeOK'
    <3>1. CASE ConsumeSelect(s) \/ ConsumeUpdate(s)
      <4>1. pc' \in [Sessions -> Points]
        <5>1. PICK p \in Points : Goto(s, p)
          BY <3>1 DEF ConsumeSelect, ConsumeUpdate, Points
        <5> QED BY <5>1 DEF TypeOK, Goto
      <4>2. seen' \in [Sessions -> Nat] /\ uses_count' \in [AliasAddrs -> Nat]
        <5>1. CASE ConsumeSelect(s)
          BY <2>1, <5>1 DEF TypeOK, ConsumeSelect
        <5>2. CASE ConsumeUpdate(s)
          BY <2>1, <5>2 DEF TypeOK, ConsumeUpdate
        <5> QED BY <3>1, <5>1, <5>2
      <4> QED BY <3>1, <4>1, <4>2 DEF TypeOK, ConsumeSelect, ConsumeUpdate
    <3>2. CASE ConsumeRefuse(s)
      BY Zenon, <3>2, DeactivatedType, ReturnType DEF TypeOK, ConsumeRefuse
    <3>3. CASE ConsumeDeactivate(s)
      BY <3>3, DeactivatedType DEF TypeOK, ConsumeDeactivate, Goto, Points
    <3> QED BY <1>6, <3>1, <3>2, <3>3
  <2>3. Calls'
    BY <1>6 DEF TypeOK, Calls, Call, RcptPoints, ConsumeSelect, ConsumeRefuse, ConsumeUpdate,
                ConsumeDeactivate, Goto, Return
  <2> QED BY <2>2, <2>3
<1>7. ASSUME NEW s \in Sessions, RcptDomain(s)
      PROVE  TypeOK' /\ Calls'
  <2>1. arg[s] \in AliasAddrs /\ Len(rcpt_to[s]) < MaxRcpt
    BY <1>7 DEF Calls, Call, RcptPoints, RcptDomain
  <2>2. TypeOK'
    <3>1. arg[s] \in Addrs
      BY <2>1 DEF Addrs
    <3>4. /\ pc' \in [Sessions -> Points]
          /\ arg' \in [Sessions -> Addrs \cup {NULL}] /\ box' \in [Sessions -> Addrs \cup {NULL}]
          /\ seen' \in [Sessions -> Nat] /\ all_ok' \in [Sessions -> BOOLEAN]
          /\ todo' \in [Sessions -> Seq(Addrs)]
      BY Zenon, <1>7, ReturnType DEF RcptDomain
    <3>5. granted' \in [AliasAddrs -> Nat]
      BY <1>7, <2>1 DEF RcptDomain, TypeOK
    <3>2. CASE DomainAllowed(arg[s], mail_from[s])
      <4>1. /\ rcpt_to' \in [Sessions -> Seq(Addrs)]
            /\ \A r \in Sessions : Len(rcpt_to'[r]) <= MaxRcpt
            /\ state' \in [Sessions -> States]
        BY <1>7, <2>1, <3>1, <3>2, AppendType DEF RcptDomain
      <4> QED BY Zenon, <1>7, <3>4, <3>5, <4>1 DEF TypeOK, RcptDomain
    <3>3. CASE ~DomainAllowed(arg[s], mail_from[s])
      BY <1>7, <3>3, <3>4, <3>5 DEF TypeOK, RcptDomain
    <3> QED BY <3>2, <3>3
  <2>3. Calls'
    BY <1>7 DEF TypeOK, Calls, Call, RcptPoints, RcptDomain, AcceptRcpt, Goto, Return
  <2> QED BY <2>2, <2>3
<1>8. ASSUME NEW s \in Sessions, DeliverNext(s)
      PROVE  TypeOK' /\ Calls'
  <2> DEFINE a == Head(todo[s])
  <2>1. a \in Addrs /\ Tail(todo[s]) \in Seq(Addrs)
    BY <1>8 DEF TypeOK, DeliverNext
  <2>2. MailboxOf(s, a) \in Addrs
    BY <2>1, MailboxIsAddr
  <2>3. TypeOK'
    BY Zenon, <1>8, <2>1, <2>2 DEF TypeOK, DeliverNext, NotAllOk, Goto, Points
  <2>4. Calls'
    BY <1>8, <2>1, <2>2 DEF TypeOK, Calls, Call, RcptPoints, DeliverNext, Goto
  <2> QED BY <2>3, <2>4
<1>9. ASSUME NEW s \in Sessions, DeliverStore(s)
      PROVE  TypeOK' /\ Calls'
  <2>1. Copy(s) \in Copies
    BY <1>9 DEF DeliverStore, Calls, Call, Copy, Copies
  <2>2. TypeOK'
    <3>1. Tail(todo[s]) \in Seq(Addrs)
      BY <1>9 DEF TypeOK, DeliverStore, Calls, Call
    <3>2. stored' \subseteq Copies
      BY <1>9, <2>1 DEF TypeOK, DeliverStore
    <3> QED BY <1>9, <3>1, <3>2 DEF TypeOK, DeliverStore, Goto, Points
  <2>3. Calls'
    BY <1>9 DEF TypeOK, Calls, Call, RcptPoints, DeliverStore, Goto
  <2> QED BY <2>2, <2>3
<1>10. ASSUME NEW s \in Sessions, DeliverEnd(s)
      PROVE  TypeOK' /\ Calls'
  <2>1. message[s] \in 1 .. MaxMessages
    BY <1>10 DEF DeliverEnd, Calls, Call
  <2>2. TypeOK'
    <3>1. acked' \subseteq [msg : 1 .. MaxMessages, rcpt : Addrs]
      <4>1. \A i \in 1 .. Len(rcpt_to[s]) : rcpt_to[s][i] \in Addrs
        BY DEF TypeOK
      <4>2. \A i \in 1 .. Len(rcpt_to[s]) :
               [msg |-> message[s], rcpt |-> rcpt_to[s][i]] \in [msg : 1 .. MaxMessages, rcpt : Addrs]
        BY <2>1, <4>1
      <4>3. acked \subseteq [msg : 1 .. MaxMessages, rcpt : Addrs]
        BY DEF TypeOK
      <4> QED BY <1>10, <4>2, <4>3 DEF DeliverEnd
    <3>4. /\ pc' \in [Sessions -> Points]
          /\ arg' \in [Sessions -> Addrs \cup {NULL}] /\ box' \in [Sessions -> Addrs \cup {NULL}]
          /\ seen' \in [Sessions -> Nat] /\ all_ok' \in [Sessions -> BOOLEAN]
          /\ todo' \in [Sessions -> Seq(Addrs)]
      BY <1>10, ReturnType DEF DeliverEnd
    <3>5. message' \in [Sessions -> 0 .. MaxMessages]
      BY <1>10, MailAssumption DEF TypeOK, DeliverEnd
    <3>2. CASE all_ok[s]
      <4>1. /\ rcpt_to' \in [Sessions -> Seq(Addrs)]
            /\ mail_from' \in [Sessions -> Senders \cup {NULL}]
            /\ \A r \in Sessions : Len(rcpt_to'[r]) <= MaxRcpt
            /\ state' \in [Sessions -> States]
        <5>1. AfterDelivery(s)
          BY <1>10, <3>2 DEF DeliverEnd
        <5> QED BY <5>1, MailAssumption DEF TypeOK, AfterDelivery, ClearEnvelope, States
      <4> QED BY Zenon, <1>10, <3>1, <3>4, <3>5, <4>1 DEF TypeOK, DeliverEnd
    <3>3. CASE ~all_ok[s]
      BY <1>10, <3>1, <3>3, <3>4, <3>5 DEF TypeOK, DeliverEnd
    <3> QED BY <3>2, <3>3
  <2>3. Calls'
    BY <1>10 DEF TypeOK, Calls, Call, RcptPoints, DeliverEnd, AfterDelivery, ClearEnvelope, Goto, Return
  <2> QED BY <2>2, <2>3
<1>11. ASSUME NEW s \in Sessions, Disconnect(s) \/ DeliverThrows(s)
      PROVE  TypeOK' /\ Calls'
  BY Zenon, <1>11, NewSessionsType DEF Disconnect, DeliverThrows, TypeOK
<1>12. CASE Crash
  <2>1. crashes' \in 0 .. MaxCrashes
    BY <1>12, MailAssumption DEF Crash, TypeOK
  <2> QED BY <1>12, <2>1, NewSessionsType DEF Crash
<1>13. CASE ReapExpired \/ Tick
  <2>1. TypeOK'
    <3>1. CASE ReapExpired
      BY <3>1, DeactivatedType DEF TypeOK, ReapExpired
    <3>2. CASE Tick
      BY <3>2, MailAssumption DEF TypeOK, Tick
    <3> QED BY <1>13, <3>1, <3>2
  <2>2. Calls'
    BY <1>13 DEF Calls, Call, ReapExpired, Tick
  <2> QED BY <2>1, <2>2
<1>14. \A s \in Sessions : rcpt_to[s] \in Seq(Addrs)
  BY DEF TypeOK
<1> QED
  BY <1>1, <1>2, <1>3, <1>4, <1>5, <1>6, <1>7, <1>8, <1>9, <1>10, <1>11, <1>12, <1>13, <1>14,
     RecipientsAreAddrs DEF Next, CallStep

\* TypeOK holds in every reachable state, with what calls rely on.
THEOREM MailTypeCorrect == Spec => [](TypeOK /\ Calls)
<1>1. Init => TypeOK /\ Calls
  BY MailAssumption DEF Init, FirstState, TypeOK, Calls, Call, RcptPoints, Points, States, Copies
<1>2. TypeOK /\ Calls /\ [Next]_vars => (TypeOK /\ Calls)'
  BY TypeStep
<1> QED BY <1>1, <1>2, PTL DEF Spec

-----------------------------------------------------------------------------
(* The envelope.                                                           *)

\* No step leaves recipients behind where a transaction starts.
LEMMA FreshStep ==
    ASSUME TypeOK, Calls, FreshEnvelope, [Next]_vars
    PROVE  FreshEnvelope'
<1> USE DEF tableVars, envVars, callVars, worldVars, historyVars, FreshEnvelope
<1>1. CASE UNCHANGED vars
  BY <1>1 DEF vars
<1>2. ASSUME NEW s \in Sessions, Ehlo(s) \/ Rset(s)
      PROVE  FreshEnvelope'
  BY <1>2 DEF TypeOK, Ehlo, Rset, ClearEnvelope
<1>3. ASSUME NEW s \in Sessions, Quit(s) \/ Auth(s) \/ Data(s)
      PROVE  FreshEnvelope'
  BY <1>3 DEF TypeOK, Quit, Auth, Data
<1>4. ASSUME NEW s \in Sessions, NEW d \in Senders, Mail(s, d)
      PROVE  FreshEnvelope'
  BY <1>4 DEF TypeOK, Mail, MailStates
<1>5. ASSUME NEW s \in Sessions, NEW a, AcceptRcpt(s, a)
      PROVE  FreshEnvelope'
  BY <1>5 DEF TypeOK, AcceptRcpt
<1>6. ASSUME NEW s \in Sessions, DeliverEnd(s)
      PROVE  FreshEnvelope'
  <2>1. CASE AfterDelivery(s)
    BY <2>1 DEF TypeOK, AfterDelivery, ClearEnvelope
  <2>2. CASE UNCHANGED <<state, rcpt_to>>
    BY <2>2
  <2> QED BY Zenon, <1>6, <2>1, <2>2 DEF DeliverEnd
<1>7. ASSUME NEW S, NewSessions(S)
      PROVE  FreshEnvelope'
  BY <1>7 DEF TypeOK, NewSessions
<1>8. CASE UNCHANGED <<state, rcpt_to>>
  BY <1>8
<1>9. ASSUME NEW s \in Sessions, NEW r, EndOfData(s, r)
      PROVE  FreshEnvelope'
  BY <1>8, <1>9 DEF EndOfData
<1>10. ASSUME NEW s \in Sessions, CallStep(s)
      PROVE  FreshEnvelope'
  BY Zenon, <1>5, <1>6, <1>8, <1>10 DEF CallStep, ConsumeSelect, ConsumeRefuse, ConsumeUpdate,
     ConsumeDeactivate, RcptDomain, DeliverNext, DeliverStore
<1>11. ASSUME NEW s \in Sessions, NEW a \in Addrs, Rcpt(s, a)
      PROVE  FreshEnvelope'
  BY Zenon, <1>5, <1>8, <1>11 DEF Rcpt
<1>12. CASE Crash \/ ReapExpired \/ Tick
  BY <1>7, <1>8, <1>12 DEF Crash, ReapExpired, Tick
<1>13. ASSUME NEW s \in Sessions, Disconnect(s) \/ DeliverThrows(s)
      PROVE  FreshEnvelope'
  BY <1>7, <1>13 DEF Disconnect, DeliverThrows
<1> QED
  BY <1>1, <1>2, <1>3, <1>4, <1>9, <1>10, <1>11, <1>12, <1>13 DEF Next

\* Recipients never leak from one transaction into the next.
THEOREM FreshEnvelopeCorrect == Spec => []FreshEnvelope
<1>1. Init => FreshEnvelope
  BY DEF Init, FreshEnvelope
<1>2. TypeOK /\ Calls /\ FreshEnvelope /\ [Next]_vars => FreshEnvelope'
  BY FreshStep
<1> QED BY <1>1, <1>2, MailTypeCorrect, PTL DEF Spec

-----------------------------------------------------------------------------
(* The column active.                                                      *)

\* No step reactivates an alias.
LEMMA NeverReactivated ==
    ASSUME [Next]_vars, NEW a \in AliasAddrs, ~active[a]
    PROVE  ~active'[a]
<1> USE DEF tableVars, envVars, callVars, worldVars, historyVars
<1>1. \A A : ~Deactivated(A)[a]
  BY Zenon DEF Deactivated
<1>2. ASSUME NEW s \in Sessions, CallStep(s) PROVE active' = active \/ \E A : active' = Deactivated(A)
  BY <1>2 DEF CallStep, ConsumeSelect, ConsumeRefuse, ConsumeUpdate, ConsumeDeactivate,
     RcptDomain, DeliverNext, DeliverStore, DeliverEnd
<1>3. active' = active \/ \E A : active' = Deactivated(A)
  BY <1>2 DEF Next, vars, Ehlo, Rset, Quit, Auth, Data, Mail, Rcpt, EndOfData, Disconnect,
     DeliverThrows, NewSessions, Crash, ReapExpired, Tick
<1> QED BY <1>1, <1>3

=============================================================================
