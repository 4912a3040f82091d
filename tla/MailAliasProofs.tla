-------------------------- MODULE MailAliasProofs --------------------------
(***************************************************************************)
(* Proofs about the aliases of MailTransactions: the limit on uses, for    *)
(* which UseInv strengthens UseLimit, and the mailbox an alias leads to.   *)
(***************************************************************************)
EXTENDS MailTransactionsProofs, FiniteSetTheorems

\* Sessions between the SELECT and the UPDATE of accept_and_consume.
Pending(s, a) == IF pc[s] = "update" /\ arg[s] = a THEN 1 ELSE 0

\* Sessions past the UPDATE whose call has not returned.
Counted(s, a) == IF pc[s] \in {"deactivate", "domain"} /\ arg[s] = a THEN 1 ELSE 0

\* A use is counted before it is granted, and the uses counted and pending
\* exceed the limit by one at most.
UseInv ==
    \A a \in AliasAddrs :
        /\ granted[a] + Counted("smtp", a) + Counted("submission", a) <= uses_count[a]
        /\ Policy[a].max_uses # NULL =>
              uses_count[a] + Pending("smtp", a) + Pending("submission", a)
                  <= Policy[a].max_uses + 1

\* The copy a session is about to store misses only an inactive alias's account.
MissInv ==
    /\ \A s \in Sessions :
          /\ pc[s] = "store" /\ arg[s] \in AliasAddrs
          /\ Policy[arg[s]].prefix = Policy[arg[s]].username
          /\ box[s] # Policy[arg[s]].username
          => ~active[arg[s]]
    /\ MissedOnlyIfInactive

-----------------------------------------------------------------------------
(* The limit on uses.                                                      *)

\* There are two sessions.
LEMMA TwoSessions == Cardinality(Sessions) = 2
<1>1. IsFiniteSet({"smtp"}) /\ Cardinality({"smtp"}) = 1
  BY FS_Singleton
<1>2. "submission" \notin {"smtp"}
  OBVIOUS
<1>3. Cardinality({"smtp"} \cup {"submission"}) = Cardinality({"smtp"}) + 1
  BY <1>1, <1>2, FS_AddElement
<1>4. Sessions = {"smtp"} \cup {"submission"}
  BY DEF Sessions
<1> QED BY <1>1, <1>3, <1>4

\* A step that takes no session into the counting part of accept_and_consume,
\* and counts and grants nothing, keeps UseInv.
LEMMA UseFrame ==
    ASSUME TypeOK, UseInv, UNCHANGED <<uses_count, granted>>,
           \A r \in Sessions : \/ pc'[r] = pc[r] /\ arg'[r] = arg[r]
                               \/ pc'[r] \notin {"update", "deactivate", "domain"}
    PROVE  UseInv'
<1>1. \A r \in Sessions : \A a : Pending(r, a)' \in {0, Pending(r, a)} /\ Counted(r, a)' \in {0, Counted(r, a)}
  BY DEF Pending, Counted
<1>2. "smtp" \in Sessions /\ "submission" \in Sessions
  BY DEF Sessions
<1>3. \A r, a : Pending(r, a) \in {0, 1} /\ Counted(r, a) \in {0, 1}
  BY DEF Pending, Counted
<1> SUFFICES ASSUME NEW a \in AliasAddrs
    PROVE  /\ granted[a] + Counted("smtp", a)' + Counted("submission", a)' <= uses_count[a]
           /\ Policy[a].max_uses # NULL =>
                 uses_count[a] + Pending("smtp", a)' + Pending("submission", a)'
                     <= Policy[a].max_uses + 1
  BY DEF UseInv
<1>4. /\ Pending("smtp", a)' \in {0, Pending("smtp", a)}
      /\ Pending("submission", a)' \in {0, Pending("submission", a)}
      /\ Counted("smtp", a)' \in {0, Counted("smtp", a)}
      /\ Counted("submission", a)' \in {0, Counted("submission", a)}
  BY <1>1, <1>2
<1>5. granted[a] \in Nat /\ uses_count[a] \in Nat /\ Policy[a].max_uses \in Nat \cup {NULL}
  BY MailAssumption DEF TypeOK, Policies
<1> QED BY <1>3, <1>4, <1>5 DEF UseInv, NULL

\* The other session.
Other(s) == IF s = "smtp" THEN "submission" ELSE "smtp"

\* UseInv for one alias, seen from a session.
UseOf(s, a) ==
    /\ granted[a] + Counted(s, a) + Counted(Other(s), a) <= uses_count[a]
    /\ Policy[a].max_uses # NULL =>
          uses_count[a] + Pending(s, a) + Pending(Other(s), a) <= Policy[a].max_uses + 1

\* A step inside accept_and_consume keeps the limit.
LEMMA UseConsume ==
    ASSUME TypeOK, Calls, UseInv, NEW s \in Sessions,
           ConsumeSelect(s) \/ ConsumeUpdate(s) \/ ConsumeDeactivate(s) \/ RcptDomain(s)
    PROVE  UseInv'
<1> DEFINE o == Other(s)
<1>1. o \in Sessions /\ o # s
  BY DEF Other, Sessions
<1>2. \A a \in AliasAddrs : UseOf(s, a)
  <2>1. \A r, a : Pending(r, a) \in {0, 1} /\ Counted(r, a) \in {0, 1}
    BY DEF Pending, Counted
  <2>2. \A a \in AliasAddrs :
           granted[a] \in Nat /\ uses_count[a] \in Nat /\ Policy[a].max_uses \in Nat \cup {NULL}
    BY MailAssumption DEF TypeOK, Policies
  <2>3. CASE s = "smtp"
    BY <2>3 DEF UseInv, UseOf, Other
  <2>4. CASE s = "submission"
    <3>1. Other(s) = "smtp"
      BY <2>4 DEF Other
    <3> QED BY <2>1, <2>2, <2>4, <3>1 DEF UseInv, UseOf, NULL
  <2> QED BY <2>3, <2>4 DEF Sessions
<1>3. arg[s] \in AliasAddrs
  BY DEF Calls, Call, RcptPoints, ConsumeSelect, ConsumeUpdate, ConsumeDeactivate, RcptDomain
<1>4. \A a \in AliasAddrs :
         granted[a] \in Nat /\ uses_count[a] \in Nat /\ Policy[a].max_uses \in Nat \cup {NULL}
  BY MailAssumption DEF TypeOK, Policies
<1>5. pc'[o] = pc[o] /\ arg'[o] = arg[o]
  BY <1>1 DEF TypeOK, ConsumeSelect, ConsumeUpdate, ConsumeDeactivate, RcptDomain, Goto, Return
<1>6. \A a \in AliasAddrs : Counted(o, a)' = Counted(o, a) /\ Pending(o, a)' = Pending(o, a)
  BY Zenon, <1>5 DEF Counted, Pending
<1>7. \A a : Counted(o, a) \in {0, 1} /\ Pending(o, a) \in {0, 1}
  BY DEF Counted, Pending
<1>8. ASSUME NEW a \in AliasAddrs PROVE UseOf(s, a)'
  <2>1. CASE ConsumeSelect(s)
    <3>1. UNCHANGED <<uses_count, granted, arg>>
      BY <2>1 DEF ConsumeSelect, tableVars, historyVars
    <3>2. pc'[s] \in {"refuse", "update"} /\ (pc'[s] = "update" => ~Expired(arg[s]))
      BY <2>1 DEF ConsumeSelect, Goto, TypeOK
    <3>3. Counted(s, a)' = 0 /\ Counted(s, a) = 0 /\ Pending(s, a) = 0
      BY Zenon, <2>1, <3>2 DEF ConsumeSelect, Counted, Pending
    <3>4. CASE Pending(s, a)' = 0
      BY <1>2, <1>4, <1>6, <1>7, <3>1, <3>3, <3>4 DEF UseOf, NULL
    <3>5. CASE Pending(s, a)' # 0
      <4>1. Pending(s, a)' = 1 /\ a = arg[s] /\ ~Expired(a)
        BY <3>1, <3>2, <3>5 DEF Pending
      <4>2. Policy[a].max_uses # NULL => uses_count[a] < Policy[a].max_uses
        BY <4>1, <1>4 DEF Expired, NULL
      <4> QED BY <1>2, <1>4, <1>6, <1>7, <3>1, <3>3, <4>1, <4>2 DEF UseOf, NULL
    <3> QED BY <3>4, <3>5
  <2>2. CASE ConsumeUpdate(s)
    <3>1. granted' = granted /\ arg' = arg /\ uses_count' = [uses_count EXCEPT ![arg[s]] = uses_count[arg[s]] + 1]
      BY <2>2 DEF ConsumeUpdate, historyVars
    <3>2. pc'[s] \in {"deactivate", "domain"}
      BY <2>2 DEF ConsumeUpdate, Goto, TypeOK
    <3>3. CASE a = arg[s]
      <4>1. Pending(s, a) = 1 /\ Pending(s, a)' = 0 /\ Counted(s, a) = 0 /\ Counted(s, a)' = 1
        BY <2>2, <3>1, <3>2, <3>3 DEF ConsumeUpdate, Pending, Counted
      <4>2. uses_count'[a] = uses_count[a] + 1
        BY <3>1, <3>3 DEF TypeOK
      <4> QED BY <1>2, <1>4, <1>6, <1>7, <3>1, <4>1, <4>2 DEF UseOf, NULL
    <3>4. CASE a # arg[s]
      <4>1. Pending(s, a) = 0 /\ Pending(s, a)' = 0 /\ Counted(s, a) = 0 /\ Counted(s, a)' = 0
        BY <3>1, <3>4 DEF Pending, Counted
      <4>2. uses_count'[a] = uses_count[a]
        BY <3>1, <3>4 DEF TypeOK
      <4> QED BY <1>2, <1>4, <1>6, <1>7, <3>1, <4>1, <4>2 DEF UseOf, NULL
    <3> QED BY <3>3, <3>4
  <2>3. CASE ConsumeDeactivate(s)
    <3>1. UNCHANGED <<uses_count, granted, arg>>
      BY Zenon, <2>3 DEF ConsumeDeactivate, historyVars
    <3>2. pc[s] = "deactivate" /\ pc'[s] = "domain"
      BY <2>3 DEF ConsumeDeactivate, Goto, TypeOK
    <3>3. Counted(s, a)' = Counted(s, a) /\ Pending(s, a)' = 0 /\ Pending(s, a) = 0
      BY <3>1, <3>2 DEF Counted, Pending
    <3> QED BY <1>2, <1>4, <1>6, <1>7, <3>1, <3>3 DEF UseOf, NULL
  <2>4. CASE RcptDomain(s)
    <3>1. uses_count' = uses_count /\ granted' = [granted EXCEPT ![arg[s]] = granted[arg[s]] + 1]
      BY Zenon, <2>4 DEF RcptDomain, tableVars
    <3>2. pc[s] = "domain" /\ pc'[s] = "idle"
      BY <2>4 DEF RcptDomain, Return, Goto, TypeOK
    <3>3. Counted(s, a)' = 0 /\ Pending(s, a)' = 0 /\ Pending(s, a) = 0
      BY <3>2 DEF Counted, Pending
    <3>4. Counted(s, a) = (IF a = arg[s] THEN 1 ELSE 0)
      BY <3>2 DEF Counted
    <3>5. granted'[a] = granted[a] + Counted(s, a)
      <4>1. granted \in [AliasAddrs -> Nat]
        BY DEF TypeOK
      <4>2. CASE a = arg[s]
        BY <3>1, <3>4, <4>1, <4>2
      <4>3. CASE a # arg[s]
        BY <3>1, <3>4, <4>1, <4>3
      <4> QED BY <4>2, <4>3
    <3> QED BY <1>2, <1>4, <1>6, <1>7, <3>1, <3>3, <3>4, <3>5 DEF UseOf, NULL
  <2> QED BY <2>1, <2>2, <2>3, <2>4
<1>9. \A a \in AliasAddrs : granted'[a] \in Nat /\ uses_count'[a] \in Nat
  BY TypeStep DEF TypeOK, Next, CallStep
<1> QED
  <2>1. \A r, a : Pending(r, a)' \in {0, 1} /\ Counted(r, a)' \in {0, 1}
    BY DEF Pending, Counted
  <2>2. CASE s = "smtp"
    BY <1>8, <2>2 DEF UseInv, UseOf, Other
  <2>3. CASE s = "submission"
    <3>1. Other(s) = "smtp"
      BY <2>3 DEF Other
    <3> QED BY <1>4, <1>8, <1>9, <2>1, <2>3, <3>1 DEF UseInv, UseOf, NULL
  <2> QED BY <2>2, <2>3 DEF Sessions

\* Each step keeps the limit.
LEMMA UseStep ==
    ASSUME TypeOK, Calls, UseInv, [Next]_vars
    PROVE  UseInv'
<1> USE DEF tableVars, envVars, callVars, worldVars, historyVars
<1>1. CASE UNCHANGED <<pc, arg, uses_count, granted>>
  BY <1>1, UseFrame
<1>2. ASSUME NEW s \in Sessions, Ehlo(s) \/ Rset(s) \/ Quit(s) \/ Auth(s) \/ Data(s)
      PROVE  UseInv'
  BY <1>1, <1>2 DEF Ehlo, Rset, Quit, Auth, Data
<1>3. ASSUME NEW s \in Sessions, NEW d \in Senders, Mail(s, d)
      PROVE  UseInv'
  BY <1>1, <1>3 DEF Mail
<1>4. ASSUME NEW s \in Sessions, NEW p \in {"idle", "select", "deliver", "store"}, Goto(s, p),
             \A r \in Sessions \ {s} : arg'[r] = arg[r], UNCHANGED <<uses_count, granted>>
      PROVE  UseInv'
  <2>1. \A r \in Sessions : \/ pc'[r] = pc[r] /\ arg'[r] = arg[r]
                            \/ pc'[r] \notin {"update", "deactivate", "domain"}
    BY <1>4 DEF Goto, TypeOK
  <2> QED BY <1>4, <2>1, UseFrame
<1>5. ASSUME NEW s \in Sessions, NEW a \in Addrs, Rcpt(s, a)
      PROVE  UseInv'
  <2>1. CASE Resolves(a)
    BY <1>4, <1>5, <2>1 DEF Rcpt, TypeOK
  <2>2. CASE ~Resolves(a)
    BY <1>1, <1>5, <2>2 DEF Rcpt
  <2> QED BY <2>1, <2>2
<1>6. ASSUME NEW s \in Sessions, NEW r, EndOfData(s, r)
      PROVE  UseInv'
  BY Zenon, <1>4, <1>6 DEF EndOfData
<1>7. ASSUME NEW s \in Sessions, ConsumeRefuse(s) \/ DeliverEnd(s)
      PROVE  UseInv'
  BY <1>4, <1>7 DEF ConsumeRefuse, DeliverEnd, Return, TypeOK
<1>8. ASSUME NEW s \in Sessions, DeliverNext(s) \/ DeliverStore(s)
      PROVE  UseInv'
  <2>1. CASE UNCHANGED <<pc, arg>>
    BY <1>1, <1>8, <2>1 DEF DeliverNext, DeliverStore
  <2>2. CASE \E p \in {"deliver", "store"} : Goto(s, p)
    BY <1>4, <1>8, <2>2 DEF DeliverNext, DeliverStore, TypeOK
  <2> QED BY <1>8, <2>1, <2>2 DEF DeliverNext, DeliverStore
<1>9. ASSUME NEW s \in Sessions, CallStep(s)
      PROVE  UseInv'
  BY <1>7, <1>8, <1>9, UseConsume DEF CallStep
<1>10. ASSUME NEW S, NewSessions(S)
      PROVE  UseInv'
  BY <1>10, UseFrame DEF NewSessions
<1>11. CASE Crash \/ ReapExpired \/ Tick
  BY <1>1, <1>10, <1>11 DEF Crash, ReapExpired, Tick
<1>12. ASSUME NEW s \in Sessions, Disconnect(s) \/ DeliverThrows(s)
      PROVE  UseInv'
  BY <1>10, <1>12 DEF Disconnect, DeliverThrows
<1>13. CASE UNCHANGED vars
  BY <1>1, <1>13 DEF vars
<1> QED
  BY <1>2, <1>3, <1>5, <1>6, <1>9, <1>11, <1>12, <1>13 DEF Next

\* accept_and_consume overruns max_uses by one grant per other thread at most.
THEOREM UseLimitCorrect == Spec => []UseLimit
<1>1. Init => UseInv
  <2> SUFFICES ASSUME Init, NEW a \in AliasAddrs
      PROVE  /\ granted[a] + Counted("smtp", a) + Counted("submission", a) <= uses_count[a]
             /\ Policy[a].max_uses # NULL =>
                   uses_count[a] + Pending("smtp", a) + Pending("submission", a)
                       <= Policy[a].max_uses + 1
    BY DEF UseInv
  <2>1. \A r \in Sessions : Counted(r, a) = 0 /\ Pending(r, a) = 0
    BY DEF Init, Counted, Pending
  <2>2. granted[a] = 0 /\ uses_count[a] = 0 /\ Policy[a].max_uses \in Nat \cup {NULL}
    BY MailAssumption DEF Init, Policies
  <2> QED BY <2>1, <2>2 DEF Sessions, NULL
<1>2. TypeOK /\ Calls /\ UseInv /\ [Next]_vars => UseInv'
  BY UseStep
<1>3. TypeOK /\ UseInv => UseLimit
  <2> SUFFICES ASSUME TypeOK, UseInv, NEW a \in AliasAddrs, Policy[a].max_uses # NULL
      PROVE  granted[a] <= Policy[a].max_uses + Cardinality(Sessions) - 1
    BY DEF UseLimit
  <2>1. Cardinality(Sessions) = 2
    BY TwoSessions
  <2>2. \A r : Pending(r, a) \in {0, 1} /\ Counted(r, a) \in {0, 1}
    BY DEF Pending, Counted
  <2>3. granted[a] \in Nat /\ uses_count[a] \in Nat /\ Policy[a].max_uses \in Nat
    BY MailAssumption DEF TypeOK, Policies
  <2> QED BY <2>1, <2>2, <2>3 DEF UseInv
<1> QED BY <1>1, <1>2, <1>3, MailTypeCorrect, PTL DEF Spec

-----------------------------------------------------------------------------
(* The mailbox.                                                            *)

\* A step that stores nothing and brings no session to a copy keeps MissInv.
LEMMA MissFrame ==
    ASSUME MissInv, [Next]_vars, TypeOK, stored' = stored,
           \A r \in Sessions : pc'[r] = "store" =>
               pc[r] = "store" /\ arg'[r] = arg[r] /\ box'[r] = box[r]
    PROVE  MissInv'
<1>1. \A a \in AliasAddrs : ~active[a] => ~active'[a]
  BY NeverReactivated
<1> QED BY <1>1 DEF MissInv, MissedOnlyIfInactive

\* Each step keeps MissInv.
LEMMA MissStep ==
    ASSUME TypeOK, Calls, MissInv, [Next]_vars
    PROVE  MissInv'
<1> USE DEF tableVars, envVars, callVars, worldVars, historyVars
<1>1. CASE UNCHANGED <<pc, arg, box, stored>>
  BY <1>1, MissFrame
<1>2. ASSUME NEW s \in Sessions, Ehlo(s) \/ Rset(s) \/ Quit(s) \/ Auth(s) \/ Data(s)
      PROVE  MissInv'
  BY <1>1, <1>2 DEF Ehlo, Rset, Quit, Auth, Data
<1>3. ASSUME NEW s \in Sessions, NEW d \in Senders, Mail(s, d)
      PROVE  MissInv'
  BY <1>1, <1>3 DEF Mail
<1>4. ASSUME NEW s \in Sessions, NEW p \in Points \ {"store"}, Goto(s, p), stored' = stored,
             \A r \in Sessions \ {s} : arg'[r] = arg[r] /\ box'[r] = box[r]
      PROVE  MissInv'
  <2>1. \A r \in Sessions : pc'[r] = "store" =>
               pc[r] = "store" /\ arg'[r] = arg[r] /\ box'[r] = box[r]
    BY <1>4 DEF Goto, TypeOK
  <2> QED BY <1>4, <2>1, MissFrame
<1>5. ASSUME NEW s \in Sessions, NEW a \in Addrs, Rcpt(s, a)
      PROVE  MissInv'
  <2>1. CASE Resolves(a)
    BY <1>4, <1>5, <2>1 DEF Rcpt, TypeOK, Points
  <2>2. CASE ~Resolves(a)
    BY <1>1, <1>5, <2>2 DEF Rcpt
  <2> QED BY <2>1, <2>2
<1>6. ASSUME NEW s \in Sessions, NEW r, EndOfData(s, r)
      PROVE  MissInv'
  BY <1>4, <1>6 DEF EndOfData, Points
<1>7. ASSUME NEW s \in Sessions,
             ConsumeSelect(s) \/ ConsumeUpdate(s) \/ ConsumeDeactivate(s)
      PROVE  MissInv'
  <2>1. \E p \in Points \ {"store"} : Goto(s, p)
    BY <1>7 DEF ConsumeSelect, ConsumeUpdate, ConsumeDeactivate, Points
  <2> QED BY <1>4, <1>7, <2>1 DEF ConsumeSelect, ConsumeUpdate, ConsumeDeactivate
<1>8. ASSUME NEW s \in Sessions, ConsumeRefuse(s) \/ RcptDomain(s) \/ DeliverEnd(s)
      PROVE  MissInv'
  <2>1. Return(s) /\ stored' = stored
    BY <1>8 DEF ConsumeRefuse, RcptDomain, DeliverEnd
  <2> QED BY <1>4, <2>1 DEF Return, TypeOK, Points
<1>9. ASSUME NEW s \in Sessions, DeliverNext(s)
      PROVE  MissInv'
  <2> DEFINE a == Head(todo[s])
  <2>1. CASE Rejects(s, a)
    BY <1>1, <1>9, <2>1 DEF DeliverNext
  <2>2. CASE ~Rejects(s, a)
    <3>1. /\ pc' = [pc EXCEPT ![s] = "store"] /\ arg' = [arg EXCEPT ![s] = a]
          /\ box' = [box EXCEPT ![s] = MailboxOf(s, a)]
          /\ UNCHANGED <<active, stored>>
      BY <1>9, <2>2 DEF DeliverNext, Goto
    <3>2. a \in AliasAddrs /\ Policy[a].prefix = Policy[a].username
          /\ MailboxOf(s, a) # Policy[a].username => ~active[a]
      BY DEF MailboxOf, Resolves
    <3> QED BY <3>1, <3>2 DEF MissInv, MissedOnlyIfInactive, TypeOK
  <2> QED BY <2>1, <2>2
<1>10. ASSUME NEW s \in Sessions, DeliverStore(s)
      PROVE  MissInv'
  <2>1. /\ active' = active /\ stored' \subseteq stored \cup {Copy(s)}
        /\ pc' = [pc EXCEPT ![s] = "deliver"]
        /\ \A r \in Sessions \ {s} : arg'[r] = arg[r] /\ box'[r] = box[r]
    BY <1>10 DEF DeliverStore, Goto, TypeOK
  <2>2. pc[s] = "store" /\ Copy(s).rcpt = arg[s] /\ Copy(s).box = box[s]
    BY <1>10 DEF DeliverStore, Copy
  <2>3. MissedOnlyIfInactive'
    BY <2>1, <2>2 DEF MissInv, MissedOnlyIfInactive
  <2> QED BY <2>1, <2>3 DEF MissInv, TypeOK
<1>11. ASSUME NEW s \in Sessions, CallStep(s)
      PROVE  MissInv'
  BY <1>7, <1>8, <1>9, <1>10, <1>11 DEF CallStep
<1>12. ASSUME NEW S, NewSessions(S)
      PROVE  MissInv'
  BY <1>12, MissFrame DEF NewSessions
<1>13. CASE Crash \/ ReapExpired \/ Tick
  BY <1>1, <1>12, <1>13 DEF Crash, ReapExpired, Tick
<1>14. ASSUME NEW s \in Sessions, Disconnect(s) \/ DeliverThrows(s)
      PROVE  MissInv'
  BY <1>12, <1>14 DEF Disconnect, DeliverThrows
<1>15. CASE UNCHANGED vars
  BY <1>1, <1>15 DEF vars
<1> QED
  BY <1>2, <1>3, <1>5, <1>6, <1>11, <1>13, <1>14, <1>15 DEF Next

\* Mail for an alias misses the target account only once the alias is inactive.
THEOREM MissedCorrect == Spec => []MissedOnlyIfInactive
<1>1. Init => MissInv
  BY DEF Init, MissInv, MissedOnlyIfInactive
<1>2. TypeOK /\ Calls /\ MissInv /\ [Next]_vars => MissInv'
  BY MissStep
<1>3. MissInv => MissedOnlyIfInactive
  BY DEF MissInv
<1> QED BY <1>1, <1>2, <1>3, MailTypeCorrect, PTL DEF Spec

=============================================================================
