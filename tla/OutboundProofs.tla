--------------------------- MODULE OutboundProofs ---------------------------
(***************************************************************************)
(* Proofs about Outbound for every value of its constants: who may send    *)
(* (AuthenticatedWasVerified) and that relay_outbound closes its socket    *)
(* (LeakOnlyIfMalformed).                                                  *)
(***************************************************************************)
EXTENDS Outbound, TLAPS

Sending == {"Authenticated", "Mail", "Rcpt", "Data"}

SaslType ==
    [state : {"Idle", "WaitingPlainResponse", "WaitingLoginUsername", "WaitingLoginPassword"},
     authenticated : BOOLEAN, username : Users \cup {"none"},
     pending : Users \cup {"none"}, attempts : Nat]

\* What makes AuthenticatedWasVerified inductive: the row that a verify under
\* way has read stays in the history though the table may have changed since,
\* and an exchange is in progress only in a greeted session under TLS.
AuthInv ==
    /\ sasl \in SaslType
    /\ ValidIn(users) \subseteq valid
    /\ login # NoLogin =>
          /\ state_ = "Greeted" /\ tls = "active" /\ sasl.state = "Idle"
          /\ login.found => login.user \in Users /\ <<login.user, login.hash>> \in valid
    /\ sasl.state # "Idle" => state_ = "Greeted" /\ tls = "active"
    /\ sasl.state = "WaitingLoginPassword" => sasl.pending \in Users
    /\ sasl.authenticated = TRUE =>
          tls = "active" /\ presented[1] = sasl.username /\ presented \in valid
    /\ state_ \in Sending => sasl.authenticated = TRUE

\* What the credential exchange must keep: the conjuncts about sasl and login.
SaslKept ==
    /\ sasl' \in SaslType
    /\ login' # NoLogin => sasl'.state = "Idle"
    /\ login' # NoLogin /\ login'.found => login'.user \in Users /\ <<login'.user, login'.hash>> \in valid
    /\ sasl'.state = "WaitingLoginPassword" => sasl'.pending \in Users
    /\ sasl'.authenticated = TRUE => sasl.authenticated = TRUE /\ sasl'.username = sasl.username

\* Starting verify on an exchange keeps it in order: the row read belongs to
\* an active account.
LEMMA CallVerifyKeeps ==
    ASSUME NEW s, NEW user, NEW passwd,
           s \in SaslType,
           user # "" => user \in Users,
           s.authenticated = TRUE => sasl.authenticated = TRUE /\ s.username = sasl.username,
           ValidIn(users) \subseteq valid,
           login = NoLogin,
           CallVerify(s, user, passwd)
    PROVE  SaslKept /\ sasl'.state = "Idle"
<1>1. CASE "" \in {user, passwd}
  BY <1>1 DEF CallVerify, auth_failure, SaslKept, SaslType
<1>2. CASE "" \notin {user, passwd}
  <2>1. sasl' = [s EXCEPT !.state = "Idle"] /\ login' = Select(user, passwd) /\ user \in Users
    BY <1>2 DEF CallVerify
  <2>2. login'.found => <<login'.user, login'.hash>> \in ValidIn(users) /\ login'.user \in Users
    BY <2>1 DEF Select, ValidIn
  <2>3. sasl' \in SaslType
    BY <2>1 DEF SaslType
  <2> QED BY <2>1, <2>2, <2>3 DEF SaslKept, SaslType
<1> QED BY <1>1, <1>2

\* attempts_ stays a natural number.
LEMMA CountsUp == \A n \in Nat : n + 1 \in Nat
OBVIOUS

\* The first line of an AUTH command keeps the exchange in order.
LEMMA BeginKeeps ==
    ASSUME NEW mechanism, NEW initial \in {<<>>} \cup ((Users \cup {""}) \X Passwords),
           AuthInv, login = NoLogin, begin(mechanism, initial)
    PROVE  SaslKept
<1> DEFINE tried == [sasl EXCEPT !.attempts = @ + 1]
<1>0. /\ tried \in SaslType
      /\ tried.state = sasl.state /\ tried.pending = sasl.pending
      /\ tried.authenticated = sasl.authenticated /\ tried.username = sasl.username
  <2>2. sasl \in SaslType
    BY DEF AuthInv
  <2>0. sasl.attempts \in Nat
    BY <2>2 DEF SaslType
  <2>1. sasl.attempts + 1 \in Nat
    BY <2>0, CountsUp, Zenon
  <2>3. tried \in SaslType
    BY <2>1, <2>2 DEF SaslType
  <2>4. tried.state = sasl.state /\ tried.pending = sasl.pending /\ tried.username = sasl.username
    BY <2>2 DEF SaslType
  <2>5. tried.authenticated = sasl.authenticated
    BY <2>2, Zenon DEF SaslType
  <2> QED BY <2>3, <2>4, <2>5
<1>1. CASE UNCHANGED <<sasl, login>>
  BY <1>1 DEF AuthInv, SaslKept
<1>2. CASE sasl' = tried /\ UNCHANGED login
  BY <1>0, <1>2 DEF AuthInv, SaslKept
<1>3. CASE initial # <<>> /\ CallVerify(tried, initial[1], initial[2])
  <2>1. initial[1] # "" => initial[1] \in Users
    BY <1>3
  <2> QED BY <1>0, <1>3, <2>1, CallVerifyKeeps DEF AuthInv
<1>4. CASE \E w \in {"WaitingPlainResponse", "WaitingLoginUsername"} :
              sasl' = [tried EXCEPT !.state = w] /\ UNCHANGED login
  BY <1>0, <1>4 DEF AuthInv, SaslKept, SaslType
<1> QED BY <1>1, <1>2, <1>3, <1>4 DEF begin

\* A further line of an exchange keeps it in order.
LEMMA RespondKeeps ==
    ASSUME NEW cancel \in BOOLEAN, NEW user \in Users \cup {""}, NEW passwd,
           AuthInv, login = NoLogin, respond(cancel, user, passwd)
    PROVE  SaslKept
<1>1. CASE sasl' = reset(sasl) /\ UNCHANGED login
  BY <1>1 DEF AuthInv, SaslKept, SaslType, reset, auth_failure
<1>2. CASE CallVerify(sasl, user, passwd)
  BY <1>2, CallVerifyKeeps DEF AuthInv
<1>3. CASE /\ sasl' = IF user = "" THEN auth_failure(sasl)
                      ELSE [sasl EXCEPT !.pending = user, !.state = "WaitingLoginPassword"]
           /\ UNCHANGED login
  BY <1>3 DEF AuthInv, SaslKept, SaslType, auth_failure
<1>4. CASE sasl.state = "WaitingLoginPassword" /\ CallVerify(sasl, sasl.pending, passwd)
  BY <1>4, CallVerifyKeeps DEF AuthInv
<1> QED BY <1>1, <1>2, <1>3, <1>4 DEF respond

\* A line of the exchange, in a greeted session under TLS, keeps AuthInv.
LEMMA ExchangeStep ==
    ASSUME AuthInv, SaslKept, state_ = "Greeted", tls = "active",
           UNCHANGED <<state_, tls, presented, users, valid>>
    PROVE  AuthInv'
<1>1. ValidIn(users)' = ValidIn(users)
  BY DEF ValidIn
<1> QED BY <1>1 DEF AuthInv, SaslKept, Sending

\* A step that only moves state_, and towards sending only for an
\* authenticated client, keeps AuthInv.
LEMMA StateStep ==
    ASSUME AuthInv, UNCHANGED <<sasl, login, tls, presented, users, valid>>,
           \/ state_' \in {state_, "Greeted"}
           \/ /\ login = NoLogin /\ sasl.state = "Idle"
              /\ state_' \in Sending => sasl.authenticated = TRUE
    PROVE  AuthInv'
<1>1. ValidIn(users)' = ValidIn(users)
  BY DEF ValidIn
<1> QED BY <1>1 DEF AuthInv, Sending

\* Whatever relay_outbound does, it leaves state_ alone or ends in Greeted.
LEMMA RelayMovesState ==
    ASSUME Connect \/ Expect \/ RelayHandshake
    PROVE  /\ state_' \in {state_, "Greeted"}
           /\ UNCHANGED <<sasl, login, tls, presented, users, valid>>
<1>1. ASSUME NEW r, Return(r) PROVE state_' \in {state_, "Greeted"}
  BY <1>1 DEF Return, AfterDeliver
<1>2. ASSUME NEW r, NEW lines, NEW pc, Send(r, lines, pc) PROVE state_' = state_
  BY <1>2 DEF Send
<1>3. ASSUME NEW r, Fail(r) \/ HandshakeFailed(r) PROVE state_' \in {state_, "Greeted"}
  BY <1>1, <1>3 DEF Fail, HandshakeFailed
<1>4. ASSUME NEW r, NEW ok, Quit(r, ok) PROVE state_' = state_
  BY <1>2, <1>4 DEF Quit
<1>5. SendBody => state_' \in {state_, "Greeted"}
  BY <1>1, <1>2, <1>4 DEF SendBody
<1>6. ASSUME NEW got, OnReply(got) PROVE state_' \in {state_, "Greeted"}
  <2>1. CASE relay.pc = "ehlo"
    BY <1>2, <1>6, <2>1 DEF OnReply
  <2>2. CASE relay.pc \in {"banner", "helo", "ehlo2"}
    BY <1>6, <2>2 DEF OnReply, Send, Fail, Return, AfterDeliver
  <2>3. CASE relay.pc \in {"starttls", "mail", "rcpt", "end"}
    BY <1>6, <2>3 DEF OnReply, Send, Quit
  <2>4. CASE relay.pc \in {"data", "quit"}
    <3>1. SendBody \/ Quit(relay, FALSE) \/ Return(Closed(relay))
      BY <1>6, <2>4 DEF OnReply
    <3> QED BY <1>1, <1>4, <1>5, <3>1
  <2> QED BY <1>6, <2>1, <2>2, <2>3, <2>4 DEF OnReply
<1>7. CASE Connect
  BY <1>1, <1>7 DEF Connect, store
<1>8. CASE Expect
  BY <1>6, <1>8 DEF Expect, store
<1>9. CASE RelayHandshake
  BY <1>2, <1>3, <1>9 DEF RelayHandshake, store
<1> QED BY <1>7, <1>8, <1>9

\* Every step keeps AuthInv.
LEMMA AuthStep ==
    ASSUME AuthInv, [Next]_vars
    PROVE  AuthInv'
<1>1. CASE SaslLine
  BY <1>1, RespondKeeps, ExchangeStep DEF SaslLine, Takes, store, AuthInv
<1>2. CASE cmd_auth
  <2>1. CASE tls = "active" /\ state_ = "Greeted"
    BY <1>2, <2>1, BeginKeeps, ExchangeStep DEF cmd_auth, Command, Takes, store
  <2>2. CASE ~(tls = "active" /\ state_ = "Greeted")
    BY <1>2, <2>2, StateStep DEF cmd_auth, store
  <2> QED BY <2>1, <2>2
<1>3. CASE VerifyReturns
  <2>1. /\ login # NoLogin /\ state_ = "Greeted" /\ tls = "active" /\ tls' = tls
        /\ login' = NoLogin /\ users' = users /\ valid' = valid
    BY <1>3 DEF VerifyReturns, AuthInv, store
  <2>2. ValidIn(users)' = ValidIn(users)
    BY <2>1 DEF ValidIn
  <2>3. CASE /\ login.found /\ login.passwd = login.hash
             /\ sasl' = auth_success(login.user)
             /\ state_' = "Authenticated"
             /\ presented' = <<login.user, login.passwd>>
    <3>1. sasl' \in SaslType /\ sasl'.username = login.user /\ sasl'.state = sasl.state
      BY <2>1, <2>3 DEF auth_success, AuthInv, SaslType
    <3>2. sasl'.authenticated = TRUE
      BY <2>3 DEF auth_success, AuthInv, SaslType
    <3>3. presented' \in valid /\ presented'[1] = login.user
      BY <2>1, <2>3 DEF AuthInv
    <3>4. sasl.state = "Idle"
      BY <2>1 DEF AuthInv
    <3> QED BY <2>1, <2>2, <2>3, <3>1, <3>2, <3>3, <3>4 DEF AuthInv, Sending
  <2>4. CASE sasl' = auth_failure(sasl) /\ UNCHANGED <<state_, presented>>
    <3>1. sasl' \in SaslType /\ sasl'.state = "Idle" /\ sasl'.authenticated = FALSE
      BY <2>4 DEF auth_failure, AuthInv, SaslType
    <3> QED BY <2>1, <2>2, <2>4, <3>1 DEF AuthInv, Sending
  <2> QED BY <1>3, <2>3, <2>4 DEF VerifyReturns
<1>4. CASE Administer
  <2>1. valid \subseteq valid' /\ ValidIn(users') \subseteq valid' /\ UNCHANGED session
    BY <1>4 DEF Administer
  <2>2. ValidIn(users)' = ValidIn(users')
    BY DEF ValidIn
  <2> QED BY <2>1, <2>2 DEF AuthInv, session
<1>5. CASE Handshake \/ cmd_starttls
  <2>1. ValidIn(users)' = ValidIn(users) /\ users' = users /\ valid' = valid
    BY <1>5 DEF ValidIn, Handshake, cmd_starttls, store
  <2> QED BY <1>5, <2>1 DEF Handshake, cmd_starttls, Command, Takes, AuthInv, Sending
<1>6. CASE cmd_ehlo \/ cmd_mail \/ cmd_rcpt \/ cmd_data \/ cmd_rset \/ cmd_quit
  <2>1. /\ UNCHANGED <<sasl, login, tls, presented, users, valid>>
        /\ login = NoLogin /\ sasl.state = "Idle"
    BY <1>6 DEF cmd_ehlo, cmd_mail, cmd_rcpt, cmd_data, cmd_rset, cmd_quit, Command, Takes, store
  <2>2. state_' \in Sending => state_ \in Sending \/ sasl.authenticated = TRUE
    BY <1>6 DEF cmd_ehlo, cmd_mail, cmd_rcpt, cmd_data, cmd_rset, cmd_quit, Sending, AuthInv, SaslType
  <2> QED BY <2>1, <2>2, StateStep DEF AuthInv
<1>7. CASE EndOfData
  BY <1>7, StateStep DEF EndOfData, AfterDeliver, store
<1>8. CASE Connect \/ Expect \/ RelayHandshake
  BY <1>8, RelayMovesState, StateStep
<1>9. CASE RemoteGreets \/ RemoteReads \/ RemoteReadsData \/ RemoteHangsUp \/ UNCHANGED vars
  <2>1. UNCHANGED <<state_, sasl, login, tls, presented, users, valid>>
    BY <1>9 DEF RemoteGreets, RemoteReads, RemoteReadsData, RemoteHangsUp, vars, session, store
  <2> QED BY <2>1, StateStep
<1> QED BY <1>1, <1>2, <1>3, <1>4, <1>5, <1>6, <1>7, <1>8, <1>9 DEF Next

\* For every set of users, passwords and messages: only a client whose
\* password the table held for an active account reaches MAIL, RCPT and DATA.
THEOREM AuthenticatedCorrect == Spec => []AuthenticatedWasVerified
<1>1. Init => AuthInv
  BY DEF Init, AuthInv, SaslType, Sending
<1>2. AuthInv => AuthenticatedWasVerified
  BY DEF AuthInv, AuthenticatedWasVerified, Sending
<1>3. AuthInv /\ [Next]_vars => AuthInv'
  BY AuthStep
<1> QED BY <1>1, <1>2, <1>3, PTL DEF Spec

RelayType ==
    [pc : {"idle", "mx", "banner", "ehlo", "helo", "starttls", "handshake", "ehlo2",
           "mail", "rcpt", "data", "end", "quit"},
     ok : BOOLEAN, sock : {"none", "open", "closed"}]

\* relay_outbound owns no socket before it connects.
SockInv ==
    /\ relay \in RelayType
    /\ relay.pc = "mx" => relay.sock = "none"
    /\ LeakOnlyIfMalformed

\* Replies to any command keep SockInv: every return but SendBody's closes.
LEMMA ReplyStep ==
    ASSUME SockInv, NEW got, OnReply(got), msg' = msg
    PROVE  SockInv'
<1> USE DEF SockInv, LeakOnlyIfMalformed
<1>1. ASSUME Fail(relay) \/ Return(Closed(relay)) PROVE SockInv'
  BY <1>1 DEF Fail, Return, Closed, RelayType
<1>2. ASSUME NEW lines, NEW pc \in {"ehlo", "helo", "starttls", "mail", "rcpt", "data", "end"},
             Send(relay, lines, pc)
      PROVE  SockInv'
  BY <1>2 DEF Send, RelayType
<1>3. ASSUME NEW ok \in BOOLEAN, Quit(relay, ok) PROVE SockInv'
  BY <1>3 DEF Quit, Send, RelayType
<1>4. ASSUME SendBody PROVE SockInv'
  <2>1. CASE ~msg.separated /\ Return([relay EXCEPT !.ok = FALSE])
    BY <2>1 DEF Return, RelayType
  <2> QED BY <1>2, <1>3, <1>4, <2>1 DEF SendBody
<1>5. CASE relay.pc = "ehlo"
  BY <1>2, <1>5 DEF OnReply
<1>6. CASE relay.pc = "banner"
  BY <1>1, <1>2, <1>6 DEF OnReply
<1>7. CASE relay.pc \in {"helo", "ehlo2"}
  BY <1>1, <1>2, <1>7 DEF OnReply
<1>8. CASE relay.pc = "starttls"
  <2>1. CASE relay' = [relay EXCEPT !.pc = "handshake"]
    BY <2>1 DEF RelayType
  <2> QED BY <1>2, <1>8, <2>1 DEF OnReply
<1>9. CASE relay.pc \in {"mail", "rcpt"}
  BY <1>2, <1>3, <1>9 DEF OnReply
<1>10. CASE relay.pc = "data"
  BY <1>3, <1>4, <1>10 DEF OnReply
<1>11. CASE relay.pc = "end"
  <2>1. Quit(relay, got.code = 250)
    BY <1>11 DEF OnReply
  <2> QED BY <1>3, <2>1
<1>12. CASE relay.pc = "quit"
  BY <1>1, <1>12 DEF OnReply
<1> QED BY <1>5, <1>6, <1>7, <1>8, <1>9, <1>10, <1>11, <1>12 DEF OnReply

\* Every step keeps SockInv.
LEMMA SockStep ==
    ASSUME SockInv, [Next]_vars
    PROVE  SockInv'
<1>1. CASE Expect
  BY <1>1, ReplyStep DEF Expect
<1>2. CASE Connect
  <2>1. msg' = msg /\ relay.pc = "mx"
    BY <1>2 DEF Connect
  <2>2. CASE \E r \in {relay, Closed(relay)} : Return([r EXCEPT !.ok = FALSE])
    BY <2>1, <2>2 DEF Return, Closed, SockInv, LeakOnlyIfMalformed, RelayType
  <2>3. CASE relay' = [relay EXCEPT !.pc = "banner", !.sock = "open"]
    BY <2>1, <2>3 DEF SockInv, LeakOnlyIfMalformed, RelayType
  <2> QED BY <1>2, <2>2, <2>3 DEF Connect
<1>3. CASE RelayHandshake
  <2>1. msg' = msg
    BY <1>3 DEF RelayHandshake
  <2>2. CASE HandshakeFailed(relay)
    BY <2>1, <2>2 DEF HandshakeFailed, Fail, Return, Closed, SockInv, LeakOnlyIfMalformed, RelayType
  <2>3. CASE Send(relay, <<Verb("EHLO")>>, "ehlo2")
    BY <2>1, <2>3 DEF Send, SockInv, LeakOnlyIfMalformed, RelayType
  <2> QED BY <1>3, <2>2, <2>3 DEF RelayHandshake
<1>4. CASE EndOfData
  <2>1. CASE relay' = NoRelay
    BY <2>1 DEF NoRelay, RelayType, SockInv, LeakOnlyIfMalformed
  <2>2. CASE relay' = [pc |-> "mx", ok |-> TRUE, sock |-> "none"]
    BY <2>2 DEF RelayType, SockInv, LeakOnlyIfMalformed
  <2> QED BY <1>4, <2>1, <2>2 DEF EndOfData
<1>5. CASE UNCHANGED <<relay, msg>>
  BY <1>5 DEF SockInv, LeakOnlyIfMalformed
<1>6. CASE SaslLine \/ cmd_ehlo \/ cmd_starttls \/ cmd_auth \/ cmd_mail \/ cmd_rcpt
           \/ cmd_data \/ cmd_rset \/ cmd_quit
  BY <1>5, <1>6 DEF SaslLine, cmd_ehlo, cmd_starttls, cmd_auth, cmd_mail, cmd_rcpt,
                    cmd_data, cmd_rset, cmd_quit, dialogue
<1>7. CASE Handshake \/ VerifyReturns \/ Administer \/ UNCHANGED vars
  BY <1>5, <1>7 DEF Handshake, VerifyReturns, Administer, vars, session, dialogue
<1>8. CASE RemoteGreets \/ RemoteReads \/ RemoteReadsData \/ RemoteHangsUp
  BY <1>5, <1>8 DEF RemoteGreets, RemoteReads, RemoteReadsData, RemoteHangsUp, session
<1> QED BY <1>1, <1>2, <1>3, <1>4, <1>6, <1>7, <1>8 DEF Next

\* For every remote server and message: relay_outbound leaves a socket open
\* only for a message without a separator.
THEOREM SocketsCorrect == Spec => []LeakOnlyIfMalformed
<1>1. Init => SockInv
  BY DEF Init, NoRelay, SockInv, LeakOnlyIfMalformed, RelayType
<1>2. SockInv => LeakOnlyIfMalformed
  BY DEF SockInv
<1>3. SockInv /\ [Next]_vars => SockInv'
  BY SockStep
<1> QED BY <1>1, <1>2, <1>3, PTL DEF Spec
=============================================================================
