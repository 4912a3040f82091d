------------------------- MODULE MailDeliveryProofs -------------------------
(***************************************************************************)
(* Proofs about what MailTransactions stores: the sender's domain, and     *)
(* what a 250 after DATA promises.                                         *)
(***************************************************************************)
EXTENDS MailTransactionsProofs

\* May mail from the current sender of the SMTP session go through address a?
Cleared(a) == a \in AliasAddrs => DomainAllowed(a, mail_from["smtp"]) \/ ~active[a]

DomainInv ==
    /\ \A i \in 1 .. Len(rcpt_to["smtp"]) : Cleared(rcpt_to["smtp"][i])
    /\ \A i \in 1 .. Len(todo["smtp"]) : Cleared(todo["smtp"][i])
    /\ pc["smtp"] = "store" /\ arg["smtp"] \in AliasAddrs /\ box["smtp"] # arg["smtp"] =>
          DomainAllowed(arg["smtp"], mail_from["smtp"])
    /\ DomainRespected

\* Recipient a of the message session s delivers is still to come or stored.
Covered(s, a) ==
    \/ \E j \in 1 .. Len(todo[s]) : todo[s][j] = a
    \/ \E c \in stored : c.msg = message[s] /\ c.rcpt = a

StoreInv ==
    /\ \A s \in Sessions :
          pc[s] \in {"deliver", "store"} /\ all_ok[s] =>
              \A i \in 1 .. Len(rcpt_to[s]) : Covered(s, rcpt_to[s][i])
    /\ AcceptedIsStored

-----------------------------------------------------------------------------
(* The sender's domain.                                                    *)

\* A step that leaves the SMTP session's envelope and copy alone, and stores for
\* the submission session only, keeps DomainInv.
LEMMA DomainFrame ==
    ASSUME DomainInv, [Next]_vars, TypeOK,
           mail_from'["smtp"] = mail_from["smtp"], rcpt_to'["smtp"] = rcpt_to["smtp"],
           todo'["smtp"] = todo["smtp"],
           pc'["smtp"] = "store" =>
               pc["smtp"] = "store" /\ arg'["smtp"] = arg["smtp"] /\ box'["smtp"] = box["smtp"],
           \A c \in stored' : c \in stored \/ c.via # "smtp"
    PROVE  DomainInv'
<1>1. \A a : Cleared(a) => Cleared(a)'
  BY NeverReactivated DEF Cleared, DomainAllowed
<1>2. DomainRespected'
  BY DEF DomainInv, DomainRespected, DomainAllowed
<1>3. (\A i \in 1 .. Len(rcpt_to["smtp"]) : Cleared(rcpt_to["smtp"][i]))'
  BY <1>1 DEF DomainInv
<1>4. (\A i \in 1 .. Len(todo["smtp"]) : Cleared(todo["smtp"][i]))'
  BY <1>1 DEF DomainInv
<1>5. (pc["smtp"] = "store" /\ arg["smtp"] \in AliasAddrs /\ box["smtp"] # arg["smtp"] =>
          DomainAllowed(arg["smtp"], mail_from["smtp"]))'
  BY DEF DomainInv, DomainAllowed
<1> QED BY <1>2, <1>3, <1>4, <1>5 DEF DomainInv

\* A step after which the SMTP session has no recipients, and which stores
\* nothing, establishes DomainInv.
LEMMA DomainEmpty ==
    ASSUME DomainInv, stored' = stored, rcpt_to'["smtp"] = <<>>, todo'["smtp"] = <<>>,
           pc'["smtp"] # "store"
    PROVE  DomainInv'
BY DEF DomainInv, DomainRespected, DomainAllowed

\* A recipient the SMTP session accepts may be used with the current sender.
LEMMA DomainAppend ==
    ASSUME TypeOK, DomainInv, [Next]_vars, NEW a \in Addrs, Cleared(a), AcceptRcpt("smtp", a),
           UNCHANGED <<mail_from, stored>>, pc'["smtp"] = "idle",
           todo'["smtp"] = todo["smtp"] \/ todo'["smtp"] = <<>>
    PROVE  DomainInv'
<1>1. \A x : Cleared(x) => Cleared(x)'
  BY NeverReactivated DEF Cleared, DomainAllowed
<1>2. /\ rcpt_to'["smtp"] = Append(rcpt_to["smtp"], a) /\ rcpt_to["smtp"] \in Seq(Addrs)
  BY DEF TypeOK, AcceptRcpt, Sessions
<1>3. (\A i \in 1 .. Len(rcpt_to["smtp"]) : Cleared(rcpt_to["smtp"][i]))'
  <2> SUFFICES ASSUME NEW i \in 1 .. Len(rcpt_to'["smtp"]) PROVE Cleared(rcpt_to["smtp"][i])'
    OBVIOUS
  <2>1. CASE i <= Len(rcpt_to["smtp"])
    <3>1. rcpt_to'["smtp"][i] = rcpt_to["smtp"][i] /\ i \in 1 .. Len(rcpt_to["smtp"])
      BY <1>2, <2>1
    <3>2. Cleared(rcpt_to["smtp"][i])
      BY <3>1 DEF DomainInv
    <3> QED BY <1>1, <3>1, <3>2 DEF Cleared, DomainAllowed
  <2>2. CASE ~(i <= Len(rcpt_to["smtp"]))
    <3>1. rcpt_to'["smtp"][i] = a
      BY <1>2, <2>2
    <3> QED BY <1>1, <3>1 DEF Cleared, DomainAllowed
  <2> QED BY <2>1, <2>2
<1>4. (\A i \in 1 .. Len(todo["smtp"]) : Cleared(todo["smtp"][i]))'
  BY <1>1 DEF DomainInv
<1>5. DomainRespected'
  BY DEF DomainInv, DomainRespected, DomainAllowed
<1> QED BY <1>3, <1>4, <1>5 DEF DomainInv

\* A step of the submission session keeps DomainInv.
LEMMA DomainSubmission ==
    ASSUME TypeOK, DomainInv, [Next]_vars,
           mail_from'["smtp"] = mail_from["smtp"], rcpt_to'["smtp"] = rcpt_to["smtp"],
           todo'["smtp"] = todo["smtp"], pc'["smtp"] = pc["smtp"],
           arg'["smtp"] = arg["smtp"], box'["smtp"] = box["smtp"],
           stored' \subseteq stored \cup {Copy("submission")}
    PROVE  DomainInv'
<1>1. Copy("submission").via # "smtp"
  BY DEF Copy
<1> QED BY <1>1, DomainFrame

\* A step of a call of the submission session, or the end of its body, keeps DomainInv.
LEMMA DomainSubmissionCall ==
    ASSUME TypeOK, DomainInv, [Next]_vars,
           CallStep("submission") \/ \E r : EndOfData("submission", r)
    PROVE  DomainInv'
<1> USE DEF tableVars, envVars, callVars, worldVars, historyVars
<1> DEFINE b == "submission"
<1>1. "smtp" \in Sessions /\ b \in Sessions /\ b # "smtp"
  BY DEF Sessions
<1>2. CASE ConsumeSelect(b) \/ ConsumeRefuse(b) \/ ConsumeUpdate(b) \/ ConsumeDeactivate(b)
  BY Zenon, <1>1, <1>2, DomainSubmission DEF TypeOK, ConsumeSelect, ConsumeRefuse, ConsumeUpdate,
     ConsumeDeactivate, Goto, Return
<1>3. CASE RcptDomain(b)
  BY Zenon, <1>1, <1>3, DomainSubmission DEF TypeOK, RcptDomain, AcceptRcpt, Goto, Return
<1>4. CASE DeliverNext(b) \/ DeliverStore(b)
  BY <1>1, <1>4, DomainSubmission DEF TypeOK, DeliverNext, DeliverStore, Goto
<1>5. CASE DeliverEnd(b)
  BY Zenon, <1>1, <1>5, DomainSubmission DEF TypeOK, DeliverEnd, AfterDelivery, ClearEnvelope, Goto, Return
<1>6. CASE \E r : EndOfData(b, r)
  BY <1>1, <1>6, DomainSubmission DEF TypeOK, EndOfData, Goto
<1> QED BY <1>2, <1>3, <1>4, <1>5, <1>6 DEF CallStep

\* A step of a call of the SMTP session keeps DomainInv.
LEMMA DomainSmtpCall ==
    ASSUME TypeOK, Calls, DomainInv, [Next]_vars, CallStep("smtp")
    PROVE  DomainInv'
<1> USE DEF tableVars, envVars, callVars, worldVars, historyVars
<1> DEFINE s == "smtp"
<1>1. s \in Sessions
  BY DEF Sessions
<1>2. CASE ConsumeSelect(s) \/ ConsumeUpdate(s) \/ ConsumeDeactivate(s)
  <2>1. pc'[s] # "store"
    BY <1>1, <1>2 DEF TypeOK, ConsumeSelect, ConsumeUpdate, ConsumeDeactivate, Goto
  <2> QED BY <1>2, <2>1, DomainFrame DEF ConsumeSelect, ConsumeUpdate, ConsumeDeactivate
<1>3. CASE ConsumeRefuse(s)
  <2>1. UNCHANGED <<mail_from, rcpt_to, stored>> /\ pc'[s] = "idle" /\ todo'[s] = <<>>
    BY <1>1, <1>3 DEF ConsumeRefuse, Return, Goto, TypeOK
  <2>2. \A a : Cleared(a) => Cleared(a)'
    BY <2>1, NeverReactivated DEF Cleared, DomainAllowed
  <2> QED BY <2>1, <2>2 DEF DomainInv, DomainRespected, DomainAllowed
<1>4. CASE RcptDomain(s)
  <2>1. UNCHANGED <<active, mail_from, stored>> /\ pc'[s] = "idle" /\ todo'[s] = <<>>
    BY <1>1, <1>4 DEF RcptDomain, Return, Goto, TypeOK
  <2>2. CASE DomainAllowed(arg[s], mail_from[s])
    <3>1. arg[s] \in Addrs /\ Cleared(arg[s]) /\ AcceptRcpt(s, arg[s])
      BY <1>1, <1>4, <2>2 DEF RcptDomain, Cleared, Calls, Call, RcptPoints, Addrs
    <3> QED BY <2>1, <3>1, DomainAppend
  <2>3. CASE ~DomainAllowed(arg[s], mail_from[s])
    <3>1. rcpt_to' = rcpt_to
      BY <1>4, <2>3 DEF RcptDomain
    <3> QED BY <2>1, <3>1 DEF DomainInv, DomainRespected, DomainAllowed, Cleared
  <2> QED BY <2>2, <2>3
<1>5. CASE DeliverNext(s)
  <2> DEFINE a == Head(todo[s])
  <2>1. UNCHANGED <<active, mail_from, rcpt_to, stored>>
    BY <1>5 DEF DeliverNext
  <2>2. todo[s] \in Seq(Addrs) /\ todo[s] # <<>>
    BY <1>1, <1>5 DEF DeliverNext, TypeOK
  <2>3. Cleared(a)
    BY <2>2 DEF DomainInv
  <2>4. CASE Rejects(s, a)
    <3>1. todo'[s] = Tail(todo[s]) /\ pc'[s] = "deliver"
      BY <1>1, <1>5, <2>4 DEF DeliverNext, TypeOK
    <3>2. \A i \in 1 .. Len(Tail(todo[s])) :
             i + 1 \in 1 .. Len(todo[s]) /\ Tail(todo[s])[i] = todo[s][i + 1]
      BY <2>2
    <3>3. \A i \in 1 .. Len(todo'[s]) : Cleared(todo'[s][i])
      BY <3>1, <3>2 DEF DomainInv
    <3> QED BY <2>1, <3>1, <3>3 DEF DomainInv, DomainRespected, DomainAllowed, Cleared
  <2>5. CASE ~Rejects(s, a)
    <3>1. todo' = todo /\ arg'[s] = a /\ box'[s] = MailboxOf(s, a)
      BY <1>1, <1>5, <2>5 DEF DeliverNext, TypeOK
    <3>2. a \in AliasAddrs /\ MailboxOf(s, a) # a => DomainAllowed(a, mail_from[s])
      BY <2>3 DEF MailboxOf, Resolves, Cleared
    <3> QED BY <2>1, <3>1, <3>2 DEF DomainInv, DomainRespected, DomainAllowed, Cleared
  <2> QED BY <2>4, <2>5
<1>6. CASE DeliverStore(s)
  <2>1. UNCHANGED <<active, mail_from, rcpt_to>> /\ pc'[s] = "deliver" /\ pc[s] = "store"
        /\ todo'[s] = Tail(todo[s]) /\ stored' \subseteq stored \cup {Copy(s)}
    BY <1>1, <1>6 DEF DeliverStore, Goto, TypeOK
  <2>2. todo[s] \in Seq(Addrs) /\ todo[s] # <<>>
    BY <1>1, <2>1 DEF Calls, Call, TypeOK
  <2>3. \A i \in 1 .. Len(Tail(todo[s])) :
             i + 1 \in 1 .. Len(todo[s]) /\ Tail(todo[s])[i] = todo[s][i + 1]
    BY <2>2
  <2>4. \A i \in 1 .. Len(todo'[s]) : Cleared(todo'[s][i])
    BY <2>1, <2>3 DEF DomainInv
  <2>5. Copy(s).rcpt = arg[s] /\ Copy(s).box = box[s] /\ Copy(s).from = mail_from[s]
    BY DEF Copy
  <2>6. DomainRespected'
    BY <2>1, <2>5 DEF DomainInv, DomainRespected, DomainAllowed
  <2> QED BY Zenon, <2>1, <2>4, <2>6 DEF DomainInv, DomainAllowed, Cleared
<1>7. CASE DeliverEnd(s)
  <2>1. UNCHANGED <<active, stored>> /\ pc'[s] = "idle" /\ todo'[s] = <<>>
    BY <1>1, <1>7 DEF DeliverEnd, Return, Goto, TypeOK
  <2>2. CASE AfterDelivery(s)
    BY <1>1, <2>1, <2>2, DomainEmpty DEF AfterDelivery, ClearEnvelope, TypeOK
  <2>3. CASE UNCHANGED <<mail_from, rcpt_to>>
    BY <2>1, <2>3 DEF DomainInv, DomainRespected, DomainAllowed, Cleared
  <2> QED BY <1>7, <2>2, <2>3 DEF DeliverEnd
<1> QED BY <1>2, <1>3, <1>4, <1>5, <1>6, <1>7 DEF CallStep

\* Each step keeps DomainInv.
LEMMA DomainStep ==
    ASSUME TypeOK, Calls, FreshEnvelope, DomainInv, [Next]_vars
    PROVE  DomainInv'
<1> USE DEF tableVars, envVars, callVars, worldVars, historyVars
<1>1. "smtp" \in Sessions /\ "submission" \in Sessions
  BY DEF Sessions
<1>2. CASE UNCHANGED <<mail_from, rcpt_to, todo, pc, arg, box, stored>>
  BY <1>2, DomainFrame
<1>3. ASSUME NEW s \in Sessions, Ehlo(s) \/ Rset(s)
      PROVE  DomainInv'
  <2>1. ClearEnvelope(s) /\ UNCHANGED <<todo, pc, arg, box, stored>> /\ pc[s] = "idle"
    BY <1>3 DEF Ehlo, Rset, Takes
  <2>2. CASE s = "smtp"
    BY <1>1, <2>1, <2>2, DomainEmpty DEF ClearEnvelope, Calls, Call, TypeOK
  <2>3. CASE s = "submission"
    BY <1>1, <2>1, <2>3, DomainSubmission DEF ClearEnvelope, TypeOK
  <2> QED BY <2>2, <2>3 DEF Sessions
<1>4. ASSUME NEW s \in Sessions, Quit(s) \/ Auth(s) \/ Data(s)
      PROVE  DomainInv'
  BY <1>2, <1>4 DEF Quit, Auth, Data
<1>5. ASSUME NEW s \in Sessions, NEW d \in Senders, Mail(s, d)
      PROVE  DomainInv'
  <2>1. /\ UNCHANGED <<rcpt_to, todo, pc, arg, box, stored>> /\ pc[s] = "idle"
        /\ state[s] \in MailStates(s) /\ mail_from' = [mail_from EXCEPT ![s] = d]
    BY Zenon, <1>5 DEF Mail, Takes
  <2>2. CASE s = "smtp"
    <3>1. rcpt_to[s] = <<>> /\ todo[s] = <<>>
      BY <2>1, <2>2 DEF FreshEnvelope, MailStates, Calls, Call
    <3> QED BY <2>1, <2>2, <3>1, DomainEmpty
  <2>3. CASE s = "submission"
    BY <1>1, <2>1, <2>3, DomainSubmission DEF TypeOK
  <2> QED BY <2>2, <2>3 DEF Sessions
<1>6. ASSUME NEW s \in Sessions, NEW a \in Addrs, Rcpt(s, a)
      PROVE  DomainInv'
  <2>1. UNCHANGED <<active, mail_from, todo, box, stored>> /\ pc[s] = "idle"
    BY <1>6 DEF Rcpt, Takes
  <2>2. CASE Resolves(a)
    <3>1. pc'[s] = "select" /\ rcpt_to' = rcpt_to
          /\ \A r \in Sessions \ {s} : pc'[r] = pc[r] /\ arg'[r] = arg[r]
      BY <1>6, <2>2 DEF Rcpt, Goto, TypeOK
    <3> QED BY <1>1, <2>1, <3>1, DomainFrame
  <2>3. CASE ~Resolves(a)
    <3>1. AcceptRcpt(s, a) /\ UNCHANGED <<pc, arg>>
      BY <1>6, <2>3 DEF Rcpt
    <3>2. CASE s = "smtp"
      BY <2>1, <2>3, <3>1, <3>2, DomainAppend DEF Cleared, Resolves
    <3>3. CASE s = "submission"
      BY Zenon, <1>1, <2>1, <3>1, <3>3, DomainSubmission DEF AcceptRcpt, TypeOK
    <3> QED BY <3>2, <3>3 DEF Sessions
  <2> QED BY <2>2, <2>3
<1>7. ASSUME NEW s \in Sessions, NEW r,
             EndOfData(s, r), s = "smtp" => r = rcpt_to[s]
      PROVE  DomainInv'
  <2>1. CASE s = "smtp"
    <3>1. /\ UNCHANGED <<active, mail_from, rcpt_to, arg, box, stored>>
          /\ pc'["smtp"] = "deliver" /\ todo'["smtp"] = rcpt_to["smtp"]
      BY <1>7, <2>1 DEF EndOfData, Goto, TypeOK
    <3> QED BY <3>1 DEF DomainInv, DomainRespected, DomainAllowed, Cleared
  <2>2. CASE s = "submission"
    BY <1>7, <2>2, DomainSubmissionCall
  <2> QED BY <2>1, <2>2 DEF Sessions
<1>8. ASSUME NEW s \in Sessions, CallStep(s)
      PROVE  DomainInv'
  BY <1>8, DomainSmtpCall, DomainSubmissionCall DEF Sessions
<1>9. ASSUME NEW S, NewSessions(S)
      PROVE  DomainInv'
  <2>1. CASE "smtp" \in S
    BY <1>1, <1>9, <2>1, DomainEmpty DEF NewSessions
  <2>2. CASE "smtp" \notin S
    BY <1>1, <1>9, <2>2, DomainFrame DEF NewSessions
  <2> QED BY <2>1, <2>2
<1>10. CASE Crash \/ ReapExpired \/ Tick
  BY <1>2, <1>9, <1>10 DEF Crash, ReapExpired, Tick
<1>11. ASSUME NEW s \in Sessions, Disconnect(s) \/ DeliverThrows(s)
      PROVE  DomainInv'
  BY <1>9, <1>11 DEF Disconnect, DeliverThrows
<1>12. CASE UNCHANGED vars
  BY <1>2, <1>12 DEF vars
<1>13. ASSUME NEW s \in Sessions, NEW cc \in Addrs, s = "smtp" PROVE Recipients(s, cc) = rcpt_to[s]
  BY <1>13 DEF Recipients
<1> QED
  BY <1>3, <1>4, <1>5, <1>6, <1>7, <1>8, <1>10, <1>11, <1>12, <1>13 DEF Next

\* The SMTP session stores mail for an alias only from domains on its allowlist.
THEOREM DomainCorrect == Spec => []DomainRespected
<1>1. Init => DomainInv
  BY DEF Init, DomainInv, DomainRespected, Sessions
<1>2. TypeOK /\ Calls /\ FreshEnvelope /\ DomainInv /\ [Next]_vars => DomainInv'
  BY DomainStep
<1>3. DomainInv => DomainRespected
  BY DEF DomainInv
<1> QED BY <1>1, <1>2, <1>3, MailTypeCorrect, FreshEnvelopeCorrect, PTL DEF Spec

-----------------------------------------------------------------------------
(* What a 250 after DATA promises, on storage that does not fail silently. *)

\* A step that brings no session into deliver and changes no delivery under way
\* keeps StoreInv.
LEMMA StoreFrame ==
    ASSUME StoreInv, stored' = stored, acked' = acked,
           \A r \in Sessions : pc'[r] \in {"deliver", "store"} =>
               /\ pc[r] \in {"deliver", "store"} /\ (all_ok'[r] => all_ok[r])
               /\ rcpt_to'[r] = rcpt_to[r] /\ todo'[r] = todo[r] /\ message'[r] = message[r]
    PROVE  StoreInv'
<1>1. AcceptedIsStored'
  BY DEF StoreInv, AcceptedIsStored
<1>2. ASSUME NEW r \in Sessions, pc'[r] \in {"deliver", "store"}, all_ok'[r],
             NEW i \in 1 .. Len(rcpt_to'[r])
      PROVE  Covered(r, rcpt_to[r][i])'
  <2>1. Covered(r, rcpt_to[r][i])
    BY <1>2 DEF StoreInv
  <2> QED BY <1>2, <2>1 DEF Covered
<1> QED BY <1>1, <1>2 DEF StoreInv

\* A step of session s outside deliver, which may only leave it, keeps StoreInv.
LEMMA StoreElsewhere ==
    ASSUME StoreInv, NEW s \in Sessions, pc'[s] \notin {"deliver", "store"},
           stored' = stored, acked' = acked,
           \A r \in Sessions \ {s} :
               /\ pc'[r] = pc[r] /\ all_ok'[r] = all_ok[r] /\ rcpt_to'[r] = rcpt_to[r]
               /\ todo'[r] = todo[r] /\ message'[r] = message[r]
    PROVE  StoreInv'
BY StoreFrame

\* The steps of deliver keep StoreInv.
LEMMA StoreDeliver ==
    ASSUME TypeOK, Calls, StoreInv, "disk" \notin Faults, NEW s \in Sessions,
           DeliverNext(s) \/ DeliverStore(s) \/ DeliverEnd(s)
    PROVE  StoreInv'
<1> USE DEF tableVars, envVars, callVars, worldVars, historyVars
<1>1. CASE DeliverNext(s)
  <2> DEFINE a == Head(todo[s])
  <2>1. UNCHANGED <<stored, acked, rcpt_to, message>> /\ pc[s] = "deliver"
    BY <1>1 DEF DeliverNext
  <2>2. CASE Rejects(s, a)
    <3>1. /\ all_ok' = [all_ok EXCEPT ![s] = FALSE] /\ todo' = [todo EXCEPT ![s] = Tail(todo[s])]
          /\ pc' = pc
      BY <1>1, <2>2 DEF DeliverNext, NotAllOk
    <3>2. ~all_ok'[s]
      BY <3>1 DEF TypeOK
    <3>3. \A r \in Sessions \ {s} : all_ok'[r] = all_ok[r] /\ todo'[r] = todo[r]
      BY <3>1 DEF TypeOK
    <3>4. AcceptedIsStored'
      BY <2>1 DEF StoreInv, AcceptedIsStored
    <3>5. ASSUME NEW r \in Sessions, pc'[r] \in {"deliver", "store"}, all_ok'[r],
                 NEW i \in 1 .. Len(rcpt_to'[r])
          PROVE  Covered(r, rcpt_to[r][i])'
      <4>1. r \in Sessions \ {s} /\ Covered(r, rcpt_to[r][i])
        BY <2>1, <3>1, <3>2, <3>3, <3>5 DEF StoreInv
      <4> QED BY <2>1, <3>3, <4>1 DEF Covered
    <3> QED BY <3>4, <3>5 DEF StoreInv
  <2>3. CASE ~Rejects(s, a)
    <3>1. UNCHANGED <<all_ok, todo>> /\ pc' = [pc EXCEPT ![s] = "store"]
      BY <1>1, <2>3 DEF DeliverNext, Goto
    <3> QED BY <2>1, <3>1, StoreFrame DEF TypeOK
  <2> QED BY <2>2, <2>3
<1>2. CASE DeliverStore(s)
  <2>1. /\ stored' = stored \cup {Copy(s)} /\ UNCHANGED <<acked, rcpt_to, message, all_ok>>
        /\ pc[s] = "store" /\ pc' = [pc EXCEPT ![s] = "deliver"]
        /\ todo' = [todo EXCEPT ![s] = Tail(todo[s])]
    BY <1>2 DEF DeliverStore, Goto
  <2>2. Copy(s).msg = message[s] /\ Copy(s).rcpt = arg[s]
    BY Zenon DEF Copy
  <2>3. todo[s] \in Seq(Addrs) /\ todo[s] # <<>> /\ arg[s] = Head(todo[s])
    BY <2>1 DEF Calls, Call, TypeOK
  <2>4. \A j \in 1 .. Len(todo[s]) :
           todo[s][j] = arg[s] \/ (j - 1 \in 1 .. Len(Tail(todo[s])) /\ Tail(todo[s])[j - 1] = todo[s][j])
    BY <2>3
  <2>5. AcceptedIsStored'
    BY <2>1 DEF StoreInv, AcceptedIsStored
  <2>6. ASSUME NEW r \in Sessions, pc'[r] \in {"deliver", "store"}, all_ok'[r],
               NEW i \in 1 .. Len(rcpt_to'[r])
        PROVE  Covered(r, rcpt_to[r][i])'
    <3>1. Covered(r, rcpt_to[r][i])
      BY <2>1, <2>6 DEF StoreInv, TypeOK
    <3>2. CASE r # s
      BY <2>1, <3>1, <3>2 DEF Covered, TypeOK
    <3>3. CASE r = s
      <4>1. todo'[s] = Tail(todo[s])
        BY <2>1 DEF TypeOK
      <4>2. CASE \E c \in stored : c.msg = message[s] /\ c.rcpt = rcpt_to[s][i]
        BY <2>1, <3>3, <4>2 DEF Covered
      <4>3. ASSUME NEW j \in 1 .. Len(todo[s]), todo[s][j] = rcpt_to[s][i]
            PROVE  Covered(s, rcpt_to[s][i])'
        <5>1. CASE todo[s][j] = arg[s]
          BY Zenon, <2>1, <2>2, <4>3, <5>1 DEF Covered
        <5>2. CASE j - 1 \in 1 .. Len(Tail(todo[s])) /\ Tail(todo[s])[j - 1] = todo[s][j]
          BY Zenon, <2>1, <4>1, <4>3, <5>2 DEF Covered
        <5> QED BY <2>4, <5>1, <5>2
      <4> QED BY <3>1, <3>3, <4>2, <4>3 DEF Covered
    <3> QED BY <3>2, <3>3
  <2> QED BY <2>5, <2>6 DEF StoreInv
<1>3. CASE DeliverEnd(s)
  <2>1. /\ pc[s] = "deliver" /\ todo[s] = <<>> /\ stored' = stored
        /\ pc'[s] = "idle"
    BY Zenon, <1>3 DEF DeliverEnd, Return, Goto, TypeOK
  <2>2. \A r \in Sessions \ {s} :
               /\ pc'[r] = pc[r] /\ all_ok'[r] = all_ok[r] /\ rcpt_to'[r] = rcpt_to[r]
               /\ todo'[r] = todo[r] /\ message'[r] = message[r]
    BY <1>3 DEF DeliverEnd, AfterDelivery, ClearEnvelope, Return, Goto, TypeOK
  <2>3. AcceptedIsStored'
    <3> SUFFICES ASSUME NEW k \in acked' PROVE \E c \in stored : c.msg = k.msg /\ c.rcpt = k.rcpt
      BY <2>1 DEF AcceptedIsStored
    <3>1. CASE k \in acked
      BY <3>1 DEF StoreInv, AcceptedIsStored
    <3>2. CASE k \notin acked
      <4>1. all_ok[s]
        BY <1>3, <3>2 DEF DeliverEnd
      <4>2. PICK i \in 1 .. Len(rcpt_to[s]) : k = [msg |-> message[s], rcpt |-> rcpt_to[s][i]]
        BY <1>3, <3>2, <4>1 DEF DeliverEnd
      <4>3. Covered(s, rcpt_to[s][i])
        BY <2>1, <4>1 DEF StoreInv
      <4> QED BY <2>1, <4>2, <4>3 DEF Covered
    <3> QED BY <3>1, <3>2
  <2>4. ASSUME NEW r \in Sessions, pc'[r] \in {"deliver", "store"}, all_ok'[r],
               NEW i \in 1 .. Len(rcpt_to'[r])
        PROVE  Covered(r, rcpt_to[r][i])'
    <3>1. r \in Sessions \ {s} /\ Covered(r, rcpt_to[r][i])
      BY <2>1, <2>2, <2>4 DEF StoreInv
    <3> QED BY Zenon, <2>1, <2>2, <3>1 DEF Covered
  <2> QED BY <2>3, <2>4 DEF StoreInv
<1> QED BY <1>1, <1>2, <1>3

\* Each step keeps StoreInv.
LEMMA StoreStep ==
    ASSUME TypeOK, Calls, StoreInv, "disk" \notin Faults, [Next]_vars
    PROVE  StoreInv'
<1> USE DEF tableVars, envVars, callVars, worldVars, historyVars
<1>1. CASE UNCHANGED <<pc, all_ok, rcpt_to, todo, message, stored, acked>>
  BY <1>1, StoreFrame
<1>2. ASSUME NEW s \in Sessions, Ehlo(s) \/ Rset(s)
      PROVE  StoreInv'
  BY Zenon, <1>2, StoreElsewhere DEF Ehlo, Rset, Takes, ClearEnvelope, TypeOK
<1>3. ASSUME NEW s \in Sessions, Quit(s) \/ Auth(s) \/ Data(s)
      PROVE  StoreInv'
  BY <1>1, <1>3 DEF Quit, Auth, Data
<1>4. ASSUME NEW s \in Sessions, NEW d \in Senders, Mail(s, d)
      PROVE  StoreInv'
  BY <1>1, <1>4 DEF Mail
<1>5. ASSUME NEW s \in Sessions, NEW a \in Addrs, Rcpt(s, a)
      PROVE  StoreInv'
  <2>1. UNCHANGED <<all_ok, todo, message, stored, acked>> /\ pc[s] = "idle"
    BY <1>5 DEF Rcpt, Takes
  <2>2. CASE Resolves(a)
    <3>1. rcpt_to' = rcpt_to /\ pc' = [pc EXCEPT ![s] = "select"]
      BY <1>5, <2>2 DEF Rcpt, Goto
    <3> QED BY <2>1, <3>1, StoreElsewhere DEF TypeOK
  <2>3. CASE ~Resolves(a)
    <3>1. pc' = pc /\ rcpt_to' = [rcpt_to EXCEPT ![s] = Append(rcpt_to[s], a)]
      BY <1>5, <2>3 DEF Rcpt, AcceptRcpt
    <3> QED BY Zenon, <2>1, <3>1, StoreElsewhere DEF TypeOK
  <2> QED BY <2>2, <2>3
<1>6. ASSUME NEW s \in Sessions, NEW q, EndOfData(s, q), q \in Seq(Addrs),
             \A i \in 1 .. Len(rcpt_to[s]) : \E j \in 1 .. Len(q) : q[j] = rcpt_to[s][i]
      PROVE  StoreInv'
  <2>1. /\ UNCHANGED <<rcpt_to, stored, acked>> /\ todo'[s] = q /\ pc'[s] = "deliver"
        /\ \A r \in Sessions \ {s} :
               /\ pc'[r] = pc[r] /\ all_ok'[r] = all_ok[r]
               /\ todo'[r] = todo[r] /\ message'[r] = message[r]
    BY <1>6 DEF EndOfData, Goto, TypeOK
  <2>2. AcceptedIsStored'
    BY Zenon, <2>1 DEF StoreInv, AcceptedIsStored
  <2>3. ASSUME NEW r \in Sessions, pc'[r] \in {"deliver", "store"}, all_ok'[r],
               NEW i \in 1 .. Len(rcpt_to'[r])
        PROVE  Covered(r, rcpt_to[r][i])'
    <3>1. CASE r = s
      BY <1>6, <2>1, <3>1 DEF Covered
    <3>2. CASE r # s
      <4>1. Covered(r, rcpt_to[r][i])
        BY <2>1, <2>3, <3>2 DEF StoreInv
      <4> QED BY <2>1, <3>2, <4>1 DEF Covered
    <3> QED BY <3>1, <3>2
  <2> QED BY Zenon, <2>2, <2>3 DEF StoreInv
<1>7. ASSUME NEW s \in Sessions, ConsumeSelect(s) \/ ConsumeUpdate(s) \/ ConsumeDeactivate(s)
      PROVE  StoreInv'
  <2>1. PICK p \in RcptPoints : Goto(s, p)
    BY <1>7 DEF ConsumeSelect, ConsumeUpdate, ConsumeDeactivate, RcptPoints
  <2>2. UNCHANGED <<all_ok, rcpt_to, todo, message, stored, acked>>
    BY <1>7 DEF ConsumeSelect, ConsumeUpdate, ConsumeDeactivate
  <2> QED BY <2>1, <2>2, StoreElsewhere DEF Goto, TypeOK, RcptPoints
<1>8. ASSUME NEW s \in Sessions, ConsumeRefuse(s) \/ RcptDomain(s)
      PROVE  StoreInv'
  <2>1. Return(s) /\ UNCHANGED <<message, stored, acked>>
    BY Zenon, <1>8 DEF ConsumeRefuse, RcptDomain
  <2>2. \A r \in Sessions \ {s} : rcpt_to'[r] = rcpt_to[r]
    BY <1>8 DEF ConsumeRefuse, RcptDomain, AcceptRcpt, TypeOK
  <2> QED BY Zenon, <2>1, <2>2, StoreElsewhere DEF Return, Goto, TypeOK
<1>9. ASSUME NEW s \in Sessions, CallStep(s)
      PROVE  StoreInv'
  BY <1>7, <1>8, <1>9, StoreDeliver DEF CallStep
<1>10. ASSUME NEW S, NewSessions(S)
      PROVE  StoreInv'
  BY Zenon, <1>10, StoreFrame DEF NewSessions
<1>11. CASE Crash \/ ReapExpired \/ Tick
  BY <1>1, <1>10, <1>11 DEF Crash, ReapExpired, Tick
<1>12. ASSUME NEW s \in Sessions, Disconnect(s) \/ DeliverThrows(s)
      PROVE  StoreInv'
  BY <1>10, <1>12 DEF Disconnect, DeliverThrows
<1>13. CASE UNCHANGED vars
  BY <1>1, <1>13 DEF vars
<1>14. ASSUME NEW s \in Sessions, EndOfData(s, rcpt_to[s])
      PROVE  StoreInv'
  BY <1>6, <1>14 DEF TypeOK
<1>15. ASSUME NEW s \in Sessions, NEW cc \in Addrs, EndOfData(s, Recipients(s, cc))
      PROVE  StoreInv'
  <2>1. Recipients(s, cc) \in Seq(Addrs)
    BY RecipientsAreAddrs
  <2>2. ASSUME NEW i \in 1 .. Len(rcpt_to[s])
        PROVE  i \in 1 .. Len(Recipients(s, cc)) /\ Recipients(s, cc)[i] = rcpt_to[s][i]
    BY DEF Recipients, TypeOK
  <2> QED BY <1>6, <1>15, <2>1, <2>2
<1> QED
  BY <1>2, <1>3, <1>4, <1>5, <1>9, <1>11, <1>12, <1>13, <1>14, <1>15 DEF Next

\* Where MailDir::deliver never fails with an empty path, "250 OK: Message
\* Accepted" means that every recipient of the envelope has a copy.
THEOREM AcceptedCorrect == ASSUME "disk" \notin Faults PROVE Spec => []AcceptedIsStored
<1>1. Init => StoreInv
  BY DEF Init, StoreInv, AcceptedIsStored
<1>2. TypeOK /\ Calls /\ StoreInv /\ [Next]_vars => StoreInv'
  BY StoreStep
<1>3. StoreInv => AcceptedIsStored
  BY DEF StoreInv
<1> QED BY <1>1, <1>2, <1>3, MailTypeCorrect, PTL DEF Spec

=============================================================================
