------------------------------ MODULE Outbound ------------------------------
(***************************************************************************)
(* A submission session that authenticates and whose message is relayed:   *)
(* SASLSession (auth/sasl/sasl.cpp) over CredentialStore                   *)
(* (auth/credentials/cred_store.cpp), the part of SubmissionServer that    *)
(* carries its state_, and SubmissionServer::relay_outbound against the    *)
(* mail server of the recipient's domain.                                  *)
(*                                                                         *)
(* All of it runs on the submission thread and blocks it: while verify or  *)
(* relay_outbound is under way the session takes no other step, but the    *)
(* administrator and the remote server do.  A recipient that is relayed    *)
(* comes from a Cc or Bcc header that names this host in mixed case: RCPT  *)
(* refuses every other domain.  Local copies are those of MailTransactions *)
(* and have no state here.                                                 *)
(***************************************************************************)
EXTENDS Naturals, Sequences

CONSTANTS
    Users, Passwords,
    Accounts,         \* users at the start: [Users -> row, or NoRow]
    MxAnswers,        \* answers to the MX query: sequences of [prio, host]
    Domain,           \* the recipient's domain
    Hosts,            \* hosts that have an address
    Messages,         \* [headers, body, separated, relayed, local_ok]
    MaxCommands,      \* bound on lines of the client
    MaxAdmin          \* bound on calls of the administrator

MAX_AUTH_ATTEMPTS == 3

VARIABLES
    state_,           \* SubmissionServer::state_
    tls,              \* TLS of the connection: "off", "pending", "active"
    sasl,             \* members of SASLSession
    login,            \* the verify call under way, or NoLogin
    users,            \* table users
    change,           \* the change_password call under way, or NoChange
    relay,            \* locals of relay_outbound
    remote,           \* the remote server
    toRemote,         \* lines on their way to it
    wire,             \* its replies on their way back
    msg,              \* the message last given to deliver
    commands, admin,  \* counters behind the bounds
    valid,            \* history: <<user, password>> that the table ever held as active
    presented         \* history: the pair that the last successful verify was given

session == <<state_, tls, sasl, login, msg, commands, presented>>
store == <<users, change, admin, valid>>
dialogue == <<relay, remote, toRemote, wire>>
vars == <<session, store, dialogue>>

NoRow == [hash |-> "none", active |-> FALSE]
NoLogin == [user |-> "none", passwd |-> "none", found |-> FALSE, hash |-> "none"]
NoChange == [user |-> "none", new |-> "none"]
NoRelay == [pc |-> "idle", ok |-> FALSE, sock |-> "none"]
NoRemote == [st |-> "none", open |-> FALSE, got |-> <<>>, accepted |-> <<>>]
NoMessage == [headers |-> <<>>, body |-> <<>>, separated |-> TRUE, relayed |-> FALSE, local_ok |-> TRUE]

ValidIn(table) == {<<u, table[u].hash>> : u \in {v \in Users : table[v].active}}

Init ==
    /\ state_ = "Connected"
    /\ tls = "off"
    /\ sasl = [state |-> "Idle", authenticated |-> FALSE, username |-> "none", pending |-> "none", attempts |-> 0]
    /\ login = NoLogin
    /\ users = Accounts
    /\ change = NoChange
    /\ relay = NoRelay
    /\ remote = NoRemote
    /\ toRemote = <<>>
    /\ wire = <<>>
    /\ msg = NoMessage
    /\ commands = 0
    /\ admin = 0
    /\ valid = ValidIn(Accounts)
    /\ presented = <<"none", "none">>

----------------------------------------------------------------------------
(* CredentialStore.  The hash of a password is salted by the user name,    *)
(* which keeps passwords of one user apart: the password stands for it.    *)
(* last_known_ip decides only whether verify also sends a notice.          *)

\* The administrator's statements.  The primary key refuses a second row.
add_user(u, p) ==
    /\ users[u] = NoRow
    /\ users' = [users EXCEPT ![u] = [hash |-> p, active |-> TRUE]]
    /\ UNCHANGED change

deactivate_user(u) ==
    /\ users' = [users EXCEPT ![u].active = FALSE]
    /\ UNCHANGED change

activate_user(u) ==
    /\ users' = [users EXCEPT ![u].active = users[u] # NoRow]
    /\ UNCHANGED change

\* change_password reads the row, whether active or not, and checks the old
\* password against it; another statement writes the new one.
change_password_select(u, old, new) ==
    /\ change = NoChange
    /\ users[u] # NoRow /\ users[u].hash = old
    /\ change' = [user |-> u, new |-> new]
    /\ UNCHANGED users

change_password_update ==
    /\ change # NoChange
    /\ users' = [users EXCEPT ![change.user].hash = change.new]
    /\ change' = NoChange

Administer ==
    /\ \/ /\ admin < MaxAdmin
          /\ admin' = admin + 1
          /\ \E u \in Users :
                \/ \E p \in Passwords : add_user(u, p)
                \/ deactivate_user(u)
                \/ activate_user(u)
                \/ \E old, new \in Passwords : change_password_select(u, old, new)
       \/ change_password_update /\ UNCHANGED admin
    /\ valid' = valid \cup ValidIn(users')
    /\ UNCHANGED <<session, dialogue>>

\* Variant of Select: the statement does not ask for active = 1.
Select_AnyRow(u, p) ==
    [user |-> u, passwd |-> p, found |-> users[u] # NoRow,
     hash |-> users[u].hash]

\* What verify's SELECT leaves in its locals.
Select(u, p) ==
    [user |-> u, passwd |-> p, found |-> users[u] # NoRow /\ users[u].active,
     hash |-> users[u].hash]

----------------------------------------------------------------------------
(* SASLSession.  A line of the client is [user, passwd] as base64 decodes   *)
(* it: "" where nothing is decoded or the NULs are missing.                 *)

auth_success(user) == [sasl EXCEPT !.authenticated = TRUE, !.username = user, !.pending = "none"]
auth_failure(s) ==
    [s EXCEPT !.authenticated = FALSE, !.username = "none", !.pending = "none", !.state = "Idle"]
reset(s) == [auth_failure(s) EXCEPT !.attempts = 0]

\* The credentials go to verify, which refuses empty ones at once.
CallVerify(s, user, passwd) ==
    IF "" \in {user, passwd}
    THEN sasl' = auth_failure(s) /\ UNCHANGED login
    ELSE sasl' = [s EXCEPT !.state = "Idle"] /\ login' = Select(user, passwd)

begin(mechanism, initial) ==
    LET tried == [sasl EXCEPT !.attempts = @ + 1]
    IN  \/ sasl.authenticated /\ UNCHANGED <<sasl, login>>
        \/ /\ ~sasl.authenticated
           /\ \/ /\ tried.attempts > MAX_AUTH_ATTEMPTS \/ mechanism \notin {"PLAIN", "LOGIN"}
                 /\ sasl' = tried /\ UNCHANGED login
              \/ /\ tried.attempts <= MAX_AUTH_ATTEMPTS
                 /\ \/ /\ mechanism = "PLAIN" /\ initial # <<>>
                       /\ CallVerify(tried, initial[1], initial[2])
                    \/ /\ mechanism = "PLAIN" /\ initial = <<>>
                       /\ sasl' = [tried EXCEPT !.state = "WaitingPlainResponse"]
                       /\ UNCHANGED login
                    \/ /\ mechanism = "LOGIN"
                       /\ sasl' = [tried EXCEPT !.state = "WaitingLoginUsername"]
                       /\ UNCHANGED login

respond(cancel, user, passwd) ==
    \/ cancel /\ sasl' = reset(sasl) /\ UNCHANGED login
    \/ /\ ~cancel
       /\ \/ sasl.state = "WaitingPlainResponse" /\ CallVerify(sasl, user, passwd)
          \/ /\ sasl.state = "WaitingLoginUsername"
             /\ sasl' = IF user = "" THEN auth_failure(sasl)
                        ELSE [sasl EXCEPT !.pending = user, !.state = "WaitingLoginPassword"]
             /\ UNCHANGED login
          \/ sasl.state = "WaitingLoginPassword" /\ CallVerify(sasl, sasl.pending, passwd)

\* verify returns once the key is derived and a notice is sent, which takes a
\* while; a missing pepper or a failing statement makes it false.
\* begin's or respond's caller then sets state_ by the reply.
VerifyReturns ==
    /\ login # NoLogin
    /\ \/ /\ login.found /\ login.passwd = login.hash
          /\ sasl' = auth_success(login.user)
          /\ state_' = "Authenticated"
          /\ presented' = <<login.user, login.passwd>>
       \/ /\ sasl' = auth_failure(sasl)
          /\ UNCHANGED <<state_, presented>>
    /\ login' = NoLogin
    /\ UNCHANGED <<tls, msg, commands, store, dialogue>>

----------------------------------------------------------------------------
(* SubmissionServer, one line of the client at a time.                     *)

\* on_data reaches process_line: the thread is not blocked by an earlier line
Takes ==
    /\ login = NoLogin /\ relay.pc = "idle"
    /\ state_ # "Done" /\ tls # "pending"
    /\ commands < MaxCommands
    /\ commands' = commands + 1

Command == Takes /\ state_ # "Data" /\ sasl.state = "Idle"

SaslLine ==
    /\ Takes /\ sasl.state # "Idle"
    /\ \E cancel \in BOOLEAN, user \in Users \cup {""}, passwd \in Passwords \cup {""} :
           respond(cancel, user, passwd)
    /\ UNCHANGED <<state_, tls, msg, presented, store, dialogue>>

\* cmd_ehlo and cmd_helo
cmd_ehlo ==
    /\ Command
    /\ state_' = "Greeted"
    /\ UNCHANGED <<tls, sasl, login, msg, presented, store, dialogue>>

cmd_starttls ==
    /\ Command
    /\ \/ tls = "active" /\ UNCHANGED <<state_, tls>>
       \/ tls = "off" /\ state_' = "Greeted" /\ tls' = "pending"
    /\ UNCHANGED <<sasl, login, msg, presented, store, dialogue>>

\* The loop completes the handshake, or closes the connection.
Handshake ==
    /\ tls = "pending"
    /\ \/ tls' = "active" /\ UNCHANGED state_
       \/ tls' = "off" /\ state_' = "Done"
    /\ UNCHANGED <<sasl, login, msg, commands, presented, store, dialogue>>

cmd_auth ==
    /\ Command
    /\ IF tls = "active" /\ state_ = "Greeted"
       THEN \E mechanism \in {"PLAIN", "LOGIN", "other"},
               initial \in {<<>>} \cup ((Users \cup {""}) \X Passwords) : begin(mechanism, initial)
       ELSE UNCHANGED <<sasl, login>>
    /\ UNCHANGED <<state_, tls, msg, presented, store, dialogue>>

\* MAIL, RCPT and DATA with arguments that pass their checks
cmd_mail ==
    /\ Command
    /\ state_' = IF state_ = "Authenticated" THEN "Mail" ELSE state_
    /\ UNCHANGED <<tls, sasl, login, msg, presented, store, dialogue>>

cmd_rcpt ==
    /\ Command
    /\ state_' = IF state_ \in {"Mail", "Rcpt"} THEN "Rcpt" ELSE state_
    /\ UNCHANGED <<tls, sasl, login, msg, presented, store, dialogue>>

cmd_data ==
    /\ Command
    /\ state_' = IF state_ = "Rcpt" THEN "Data" ELSE state_
    /\ UNCHANGED <<tls, sasl, login, msg, presented, store, dialogue>>

cmd_rset ==
    /\ Command
    /\ state_' = IF sasl.authenticated THEN "Authenticated" ELSE "Greeted"
    /\ UNCHANGED <<tls, sasl, login, msg, presented, store, dialogue>>

cmd_quit ==
    /\ Command
    /\ state_' = "Done"
    /\ UNCHANGED <<tls, sasl, login, msg, presented, store, dialogue>>

\* on_data after deliver: accepted, or 452 with the session still in Data
AfterDeliver(all_ok) == state_' = IF all_ok THEN "Greeted" ELSE state_

\* The end of the data: deliver stores the local copies, then relays.
EndOfData ==
    /\ Takes /\ state_ = "Data"
    /\ msg' \in Messages
    /\ IF msg'.relayed
       THEN relay' = [pc |-> "mx", ok |-> TRUE, sock |-> "none"] /\ UNCHANGED state_
       ELSE relay' = NoRelay /\ AfterDeliver(msg'.local_ok)
    /\ remote' = NoRemote
    /\ toRemote' = <<>>
    /\ wire' = <<>>
    /\ UNCHANGED <<tls, sasl, login, presented, store>>

----------------------------------------------------------------------------
(* relay_outbound: a blocking dialogue whose reads give up after 30 s.      *)
(* A line is [verb, text]; verb "line" is a line of the message.            *)

Verb(v) == [verb |-> v, text |-> <<>>]
Line(l) == [verb |-> "line", text |-> l]
DkimHeader == <<"D">>

\* The exchanger of least priority below 65535, the first among equals, or
\* the domain itself.
mx_host(records) ==
    LET best == {i \in DOMAIN records :
                    /\ records[i].prio < 65535
                    /\ \A j \in DOMAIN records :
                          \/ records[i].prio < records[j].prio
                          \/ records[i].prio = records[j].prio /\ i <= j}
    IN  IF best = {} THEN Domain ELSE records[CHOOSE i \in best : TRUE].host

\* The lines after DATA: the headers, the signature header, the body (the
\* empty line between headers and body is not put back).
Outgoing(m) == m.headers \o <<DkimHeader>> \o m.body

Stuffed(line) == IF line # <<>> /\ Head(line) = "." THEN <<".">> \o line ELSE line

send_line(lines) == toRemote' = IF remote.open THEN toRemote \o lines ELSE toRemote

\* relay_outbound returns; deliver and on_data go on with its result.
Return(r) ==
    /\ relay' = [r EXCEPT !.pc = "idle"]
    /\ AfterDeliver(r.ok /\ msg.local_ok)

\* close_conn: what the remote server has not read yet it still reads.
Closed(r) == [r EXCEPT !.sock = "closed"]
Fail(r) == Return([Closed(r) EXCEPT !.ok = FALSE]) /\ UNCHANGED toRemote

\* Variant of HandshakeFailed: returns without close_conn.
HandshakeFailed_Open(r) == Return([r EXCEPT !.ok = FALSE]) /\ UNCHANGED toRemote
HandshakeFailed(r) == Fail(r)

\* The next command goes out and the dialogue waits for its reply.
Send(r, lines, pc) == send_line(lines) /\ relay' = [r EXCEPT !.pc = pc] /\ UNCHANGED state_
Quit(r, ok) == Send([r EXCEPT !.ok = ok], <<Verb("QUIT")>>, "quit")

\* MX query, address, socket and connect; the remote server greets.
Connect ==
    /\ relay.pc = "mx"
    /\ \/ \* the query, the address or the socket fails
          /\ Return([relay EXCEPT !.ok = FALSE])
          /\ UNCHANGED <<remote, toRemote, wire>>
       \/ /\ \E records \in MxAnswers : mx_host(records) \in Hosts
          /\ Return([Closed(relay) EXCEPT !.ok = FALSE])
          /\ UNCHANGED <<remote, toRemote, wire>>
       \/ /\ \E records \in MxAnswers : mx_host(records) \in Hosts
          /\ relay' = [relay EXCEPT !.pc = "banner", !.sock = "open"]
          /\ remote' = [NoRemote EXCEPT !.st = "banner", !.open = TRUE]
          /\ UNCHANGED <<state_, toRemote, wire>>
    /\ UNCHANGED <<tls, sasl, login, msg, commands, presented, store>>

\* The body is split off and signed; without a separator relay_outbound
\* returns at once, and a failing signer ends the dialogue.
SendBody ==
    \/ /\ ~msg.separated
       /\ Return([relay EXCEPT !.ok = FALSE]) /\ UNCHANGED toRemote
    \/ msg.separated /\ Quit(relay, FALSE)
    \/ /\ msg.separated
       /\ LET out == Outgoing(msg)
          IN  Send(relay, [i \in 1..Len(out) |-> Line(Stuffed(out[i]))] \o <<Line(<<".">>)>>, "end")

\* What follows expect's result for the command that pc waits for.
OnReply(got) ==
    \/ /\ relay.pc = "banner"
       /\ IF got.code = 220 THEN Send(relay, <<Verb("EHLO")>>, "ehlo") ELSE Fail(relay)
    \/ /\ relay.pc = "ehlo"
       /\ CASE got.code # 250 -> Send(relay, <<Verb("HELO")>>, "helo")
            [] got.code = 250 /\ got.starttls -> Send(relay, <<Verb("STARTTLS")>>, "starttls")
            [] OTHER -> Send(relay, <<Verb("MAIL")>>, "mail")
    \/ /\ relay.pc \in {"helo", "ehlo2"}
       /\ IF got.code = 250 THEN Send(relay, <<Verb("MAIL")>>, "mail") ELSE Fail(relay)
    \/ /\ relay.pc = "starttls"
       /\ IF got.code = 220
          THEN relay' = [relay EXCEPT !.pc = "handshake"] /\ UNCHANGED <<state_, toRemote>>
          ELSE Send(relay, <<Verb("MAIL")>>, "mail")
    \/ /\ relay.pc = "mail"
       /\ IF got.code = 250 THEN Send(relay, <<Verb("RCPT")>>, "rcpt") ELSE Quit(relay, FALSE)
    \/ /\ relay.pc = "rcpt"
       /\ IF got.code = 250 THEN Send(relay, <<Verb("DATA")>>, "data") ELSE Quit(relay, FALSE)
    \/ /\ relay.pc = "data"
       /\ IF got.code = 354 THEN SendBody ELSE Quit(relay, FALSE)
    \/ /\ relay.pc = "end"
       /\ Quit(relay, got.code = 250)
    \/ /\ relay.pc = "quit"
       /\ Return(Closed(relay)) /\ UNCHANGED toRemote

\* expect: the next reply, or none when the connection is closed or 30 s pass.
Silence == [code |-> 0, starttls |-> FALSE]
Expect ==
    /\ OnReply(IF wire = <<>> THEN Silence ELSE Head(wire))
    /\ wire' = IF wire = <<>> THEN wire ELSE Tail(wire)
    /\ UNCHANGED <<tls, sasl, login, msg, commands, presented, store, remote>>

\* ClientContext::handshake, then the second EHLO
RelayHandshake ==
    /\ relay.pc = "handshake"
    /\ \/ /\ remote.open /\ remote.st = "starttls" /\ toRemote = <<>>
          /\ Send(relay, <<Verb("EHLO")>>, "ehlo2")
          /\ remote' = [remote EXCEPT !.st = "hello"]
       \/ HandshakeFailed(relay) /\ UNCHANGED remote
    /\ UNCHANGED <<tls, sasl, login, msg, commands, presented, store, wire>>

----------------------------------------------------------------------------
(* The remote server: it may refuse any command, reply late, or hang up.   *)

Unstuffed(line) == IF line # <<>> /\ Head(line) = "." THEN Tail(line) ELSE line
NextState == [EHLO |-> "ready", HELO |-> "ready", STARTTLS |-> "starttls", MAIL |-> "mail",
              RCPT |-> "rcpt", DATA |-> "data", QUIT |-> "gone", line |-> "none"]
CodeOf == [EHLO |-> 250, HELO |-> 250, STARTTLS |-> 220, MAIL |-> 250,
           RCPT |-> 250, DATA |-> 354, QUIT |-> 221, line |-> 500]
Allowed == [EHLO |-> {"hello", "ready"}, HELO |-> {"hello", "ready"}, STARTTLS |-> {"ready"},
            MAIL |-> {"ready"}, RCPT |-> {"mail"}, DATA |-> {"rcpt"},
            QUIT |-> {"hello", "ready", "mail", "rcpt"}, line |-> {}]
REFUSED == 554
RemoteReplies(code, starttls) == wire' = Append(wire, [code |-> code, starttls |-> starttls])

RemoteGreets ==
    /\ remote.open /\ remote.st = "banner"
    /\ remote' = [remote EXCEPT !.st = "hello"]
    /\ \E code \in {220, REFUSED} : RemoteReplies(code, FALSE)
    /\ UNCHANGED <<session, store, relay, toRemote>>

RemoteReads ==
    /\ remote.open /\ remote.st \notin {"banner", "data", "starttls"}
    /\ toRemote # <<>>
    /\ LET v == Head(toRemote).verb
       IN  \/ /\ remote.st \in Allowed[v]
              /\ remote' = [remote EXCEPT !.st = NextState[v], !.open = v # "QUIT"]
              /\ \E starttls \in BOOLEAN : (starttls => v = "EHLO") /\ RemoteReplies(CodeOf[v], starttls)
           \/ RemoteReplies(REFUSED, FALSE) /\ UNCHANGED remote
    /\ toRemote' = Tail(toRemote)
    /\ UNCHANGED <<session, store, relay>>

\* In DATA every line up to a lone dot is message; commands are text there.
RemoteReadsData ==
    /\ remote.open /\ remote.st = "data"
    /\ toRemote # <<>>
    /\ LET c == Head(toRemote)
       IN  IF c.text # <<".">>
           THEN /\ remote' = [remote EXCEPT !.got = Append(@, Unstuffed(c.text))]
                /\ UNCHANGED wire
           ELSE \/ /\ remote' = [remote EXCEPT !.st = "ready", !.accepted = Append(@, remote.got)]
                   /\ RemoteReplies(250, FALSE)
                \/ /\ remote' = [remote EXCEPT !.st = "ready"]
                   /\ RemoteReplies(REFUSED, FALSE)
    /\ toRemote' = Tail(toRemote)
    /\ UNCHANGED <<session, store, relay>>

RemoteHangsUp ==
    /\ remote.open
    /\ remote' = [remote EXCEPT !.open = FALSE]
    /\ UNCHANGED <<session, store, relay, toRemote, wire>>

Next ==
    \/ SaslLine \/ cmd_ehlo \/ cmd_starttls \/ cmd_auth \/ cmd_mail \/ cmd_rcpt
    \/ cmd_data \/ cmd_rset \/ cmd_quit \/ EndOfData
    \/ Handshake \/ VerifyReturns \/ Administer
    \/ Connect \/ Expect \/ RelayHandshake
    \/ RemoteGreets \/ RemoteReads \/ RemoteReadsData \/ RemoteHangsUp

Spec == Init /\ [][Next]_vars

----------------------------------------------------------------------------
\* Whenever the session would take a sender, a recipient or a message
\* (cmd_mail to EndOfData), TLS is active, sasl_ is authenticated, and the name
\* it carries was presented with a password that the users table held for it
\* while the account was active: neither RSET and EHLO, nor a password change
\* or deactivation that overlaps verify, lets anyone else in.
AuthenticatedWasVerified ==
    state_ \in {"Authenticated", "Mail", "Rcpt", "Data"} =>
        /\ tls = "active"
        /\ sasl.authenticated
        /\ presented[1] = sasl.username
        /\ presented \in valid


\* When relay_outbound has returned its socket is closed, on every error path
\* but one: a message without an empty line after its headers.
LeakOnlyIfMalformed ==
    relay.pc = "idle" /\ relay.sock = "open" => ~msg.separated
=============================================================================
