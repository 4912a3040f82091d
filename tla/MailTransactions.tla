--------------------------- MODULE MailTransactions ---------------------------
(***************************************************************************)
(* Mail transactions of the SMTP session (port 25) and of the submission   *)
(* session (port 587), the table of aliases the two threads share, and the *)
(* copies they store.  Each thread serves one connection here.  A thread   *)
(* runs a handler without giving way to its other connections, but the two *)
(* threads interleave between any two SQL statements.                      *)
(***************************************************************************)
EXTENDS Integers, Sequences, FiniteSets

CONSTANTS
    AliasAddrs,   \* addresses with a row in the table aliases
    PlainAddrs,   \* other recipient addresses; each also names its mailbox
    Unsafe,       \* addresses whose local part MailDir::is_safe refuses
    Policy,       \* the columns of an alias that never change
    Senders,      \* domains a MAIL FROM may carry
    MaxRcpt,      \* 100 in the code
    Faults,       \* failures the storage shows: "disk", "throw"
    MaxMessages,  \* bound: bodies received
    MaxUses,      \* bound: uses of an alias
    MaxTime,      \* bound: the clock
    MaxCrashes    \* bound: restarts of the process

Sessions == {"smtp", "submission"}
Addrs == AliasAddrs \cup PlainAddrs
NULL == -1

\* username is the target account; prefix is username cut at the length of the
\* alias's own local part; domains is empty when there is no allowlist.
Policies == [username : PlainAddrs, prefix : PlainAddrs, max_uses : Nat \cup {NULL},
             expires_at : Nat \cup {NULL}, domains : SUBSET Senders]

ASSUME MailAssumption ==
    /\ AliasAddrs \cap PlainAddrs = {}
    /\ Unsafe \subseteq Addrs
    /\ Policy \in [AliasAddrs -> Policies]
    /\ MaxRcpt \in Nat \ {0} /\ MaxMessages \in Nat /\ MaxUses \in Nat
    /\ MaxTime \in Nat /\ MaxCrashes \in Nat
    /\ Faults \subseteq {"disk", "throw"}
    /\ NULL \notin Addrs \cup Senders

VARIABLES
    active,       \* column active of the table aliases
    uses_count,   \* column uses_count
    state,        \* state_ of the session
    authed,       \* sasl_.authenticated() of the session
    mail_from,    \* env_.mail_from: its domain, or NULL
    rcpt_to,      \* env_.rcpt_to
    pc,           \* the statement the thread of the session is at
    arg,          \* the recipient a RCPT or a delivery works on
    seen,         \* uses_count as accept_and_consume read it
    todo,         \* recipients deliver has left
    box,          \* the mailbox the current copy goes to
    all_ok,       \* all_ok of deliver
    now,          \* the clock
    crashes,      \* how often the process has restarted
    messages,     \* history: bodies received
    message,      \* history: the body the session delivers
    granted,      \* history: calls of accept_and_consume that returned true
    stored,       \* history: copies renamed into a mailbox's new/
    acked         \* history: message and recipient of each 250 after DATA

tableVars == <<active, uses_count>>
envVars == <<state, authed, mail_from, rcpt_to>>
callVars == <<pc, arg, seen, todo, box, all_ok>>
worldVars == <<now, crashes>>
historyVars == <<messages, message, granted, stored, acked>>
vars == <<tableVars, envVars, callVars, worldVars, historyVars>>

Copies == [msg : 1 .. MaxMessages, rcpt : Addrs, box : Addrs,
           from : Senders, via : Sessions]

States == {"Connected", "Greeted", "Authenticated", "Mail", "Rcpt", "Data", "Done"}
Points == {"idle", "select", "refuse", "update", "deactivate", "domain", "deliver", "store"}

\* Only the constructor of the SMTP session moves on to Greeted.
FirstState(s) == IF s = "smtp" THEN "Greeted" ELSE "Connected"

Init ==
    /\ active = [a \in AliasAddrs |-> TRUE]
    /\ uses_count = [a \in AliasAddrs |-> 0]
    /\ state = [s \in Sessions |-> FirstState(s)]
    /\ authed = [s \in Sessions |-> FALSE]
    /\ mail_from = [s \in Sessions |-> NULL]
    /\ rcpt_to = [s \in Sessions |-> <<>>]
    /\ pc = [s \in Sessions |-> "idle"]
    /\ arg = [s \in Sessions |-> NULL]
    /\ seen = [s \in Sessions |-> 0]
    /\ todo = [s \in Sessions |-> <<>>]
    /\ box = [s \in Sessions |-> NULL]
    /\ all_ok = [s \in Sessions |-> TRUE]
    /\ now = 0 /\ crashes = 0
    /\ messages = 0
    /\ message = [s \in Sessions |-> 0]
    /\ granted = [a \in AliasAddrs |-> 0]
    /\ stored = {} /\ acked = {}

-----------------------------------------------------------------------------
(* The table of aliases: what each statement tests and sets.               *)

\* resolve: is the address an active alias?
Resolves(a) == a \in AliasAddrs /\ active[a]

\* accept_and_consume's test of the row it selected.
Expired_OffByOne(a) ==
    \/ ~active[a]
    \/ Policy[a].expires_at # NULL /\ now >= Policy[a].expires_at
    \/ Policy[a].max_uses # NULL /\ uses_count[a] > Policy[a].max_uses
Expired(a) ==
    \/ ~active[a]
    \/ Policy[a].expires_at # NULL /\ now >= Policy[a].expires_at
    \/ Policy[a].max_uses # NULL /\ uses_count[a] >= Policy[a].max_uses

\* Was the use of an alias the last one, given the count read before it?
LastUse(a, n) == Policy[a].max_uses # NULL /\ n + 1 >= Policy[a].max_uses

DomainAllowed(a, d) == Policy[a].domains = {} \/ d \in Policy[a].domains

\* reap_expired: the rows its UPDATE selects.
Reapable_ByTimeOnly(a) ==
    active[a] /\ Policy[a].expires_at # NULL /\ Policy[a].expires_at <= now
Reapable(a) ==
    /\ active[a]
    /\ \/ Policy[a].expires_at # NULL /\ Policy[a].expires_at <= now
       \/ Policy[a].max_uses # NULL /\ uses_count[a] >= Policy[a].max_uses

Deactivated(A) == [a \in AliasAddrs |-> active[a] /\ a \notin A]

-----------------------------------------------------------------------------
(* Commands.  One that is refused for its place or its syntax only replies. *)

\* The session may take a command; in Data every byte belongs to the body.
Takes(s) == pc[s] = "idle" /\ state[s] # "Data"

ClearEnvelope(s) ==
    /\ mail_from' = [mail_from EXCEPT ![s] = NULL]
    /\ rcpt_to' = [rcpt_to EXCEPT ![s] = <<>>]

\* EHLO and HELO; STARTTLS leaves the same state behind.
Ehlo(s) ==
    /\ Takes(s)
    /\ ClearEnvelope(s)
    /\ state' = [state EXCEPT ![s] = "Greeted"]
    /\ UNCHANGED <<tableVars, authed, callVars, worldVars, historyVars>>

Rset(s) ==
    /\ Takes(s)
    /\ ClearEnvelope(s)
    /\ state' = [state EXCEPT ![s] = IF authed[s] THEN "Authenticated" ELSE "Greeted"]
    /\ UNCHANGED <<tableVars, authed, callVars, worldVars, historyVars>>

Quit(s) ==
    /\ Takes(s)
    /\ state' = [state EXCEPT ![s] = "Done"]
    /\ UNCHANGED <<tableVars, authed, mail_from, rcpt_to, callVars, worldVars, historyVars>>

\* The SASL exchange of the submission session succeeds, once: begin answers 503
\* from then on, and only RSET leads from Greeted back to Authenticated.
Auth(s) ==
    /\ s = "submission" /\ Takes(s) /\ state[s] = "Greeted" /\ ~authed[s]
    /\ state' = [state EXCEPT ![s] = "Authenticated"]
    /\ authed' = [authed EXCEPT ![s] = TRUE]
    /\ UNCHANGED <<tableVars, mail_from, rcpt_to, callVars, worldVars, historyVars>>

\* The states in which MAIL is accepted.
MailStates_AnyTime(s) ==
    IF s = "smtp" THEN {"Greeted", "Mail", "Rcpt"} ELSE {"Authenticated", "Mail", "Rcpt"}
MailStates(s) == IF s = "smtp" THEN {"Greeted"} ELSE {"Authenticated"}

Mail(s, d) ==
    /\ Takes(s) /\ state[s] \in MailStates(s)
    /\ mail_from' = [mail_from EXCEPT ![s] = d]
    /\ state' = [state EXCEPT ![s] = "Mail"]
    /\ UNCHANGED <<tableVars, authed, rcpt_to, callVars, worldVars, historyVars>>

Data(s) ==
    /\ Takes(s) /\ state[s] = "Rcpt"
    /\ state' = [state EXCEPT ![s] = "Data"]
    /\ UNCHANGED <<tableVars, authed, mail_from, rcpt_to, callVars, worldVars, historyVars>>

-----------------------------------------------------------------------------
(* RCPT: the recipient is resolved; an alias is consumed statement by      *)
(* statement, and only then is the sender's domain looked at.              *)

RoomForRcpt_OffByOne(s) == Len(rcpt_to[s]) <= MaxRcpt
RoomForRcpt(s) == Len(rcpt_to[s]) < MaxRcpt

AcceptRcpt(s, a) ==
    /\ rcpt_to' = [rcpt_to EXCEPT ![s] = Append(@, a)]
    /\ state' = [state EXCEPT ![s] = "Rcpt"]

Goto(s, p) == pc' = [pc EXCEPT ![s] = p]

\* The call returns and its locals are gone.
Return(s) ==
    /\ Goto(s, "idle")
    /\ arg' = [arg EXCEPT ![s] = NULL] /\ seen' = [seen EXCEPT ![s] = 0]
    /\ todo' = [todo EXCEPT ![s] = <<>>] /\ box' = [box EXCEPT ![s] = NULL]
    /\ all_ok' = [all_ok EXCEPT ![s] = TRUE]

\* Up to the call of resolve.  Only the SMTP session looks at the local part.
Rcpt(s, a) ==
    /\ Takes(s) /\ state[s] \in {"Mail", "Rcpt"}
    /\ RoomForRcpt(s)
    /\ s = "smtp" => a \notin Unsafe
    /\ a \in AliasAddrs => uses_count[a] < MaxUses
    /\ IF Resolves(a)
       THEN /\ Goto(s, "select")
            /\ arg' = [arg EXCEPT ![s] = a]
            /\ UNCHANGED <<state, rcpt_to>>
       ELSE AcceptRcpt(s, a) /\ UNCHANGED <<pc, arg>>
    /\ UNCHANGED <<tableVars, authed, mail_from, seen, todo, box, all_ok>>
    /\ UNCHANGED <<worldVars, historyVars>>

\* accept_and_consume: SELECT active, expires_at, max_uses, uses_count.
ConsumeSelect(s) ==
    /\ pc[s] = "select"
    /\ seen' = [seen EXCEPT ![s] = uses_count[arg[s]]]
    /\ Goto(s, IF Expired(arg[s]) THEN "refuse" ELSE "update")
    /\ UNCHANGED <<tableVars, envVars, arg, todo, box, all_ok, worldVars, historyVars>>

\* The alias was spent: UPDATE ... SET active = 0, then 550.
ConsumeRefuse(s) ==
    /\ pc[s] = "refuse"
    /\ active' = Deactivated({arg[s]})
    /\ Return(s)
    /\ UNCHANGED <<uses_count, envVars, worldVars, historyVars>>

\* UPDATE ... SET uses_count = uses_count + 1.
ConsumeUpdate(s) ==
    /\ pc[s] = "update"
    /\ uses_count' = [uses_count EXCEPT ![arg[s]] = @ + 1]
    /\ Goto(s, IF LastUse(arg[s], seen[s]) THEN "deactivate" ELSE "domain")
    /\ UNCHANGED <<active, envVars, arg, seen, todo, box, all_ok, worldVars, historyVars>>

\* UPDATE ... SET active = 0 after the last use.
ConsumeDeactivate(s) ==
    /\ pc[s] = "deactivate"
    /\ active' = Deactivated({arg[s]})
    /\ Goto(s, "domain")
    /\ UNCHANGED <<uses_count, envVars, arg, seen, todo, box, all_ok, worldVars, historyVars>>

\* accept_and_consume has returned true; is_domain_allowed decides.
RcptDomain(s) ==
    /\ pc[s] = "domain"
    /\ granted' = [granted EXCEPT ![arg[s]] = @ + 1]
    /\ IF DomainAllowed(arg[s], mail_from[s])
       THEN AcceptRcpt(s, arg[s])
       ELSE UNCHANGED <<rcpt_to, state>>
    /\ Return(s)
    /\ UNCHANGED <<tableVars, authed, mail_from, worldVars, messages, message, stored, acked>>

-----------------------------------------------------------------------------
(* The end of the body: deliver, one recipient after the other.            *)

\* Submission adds local addresses of Cc and Bcc headers; they pass no RCPT.
Recipients(s, cc) ==
    IF s = "submission" /\ \A i \in 1 .. Len(rcpt_to[s]) : rcpt_to[s][i] # cc
    THEN Append(rcpt_to[s], cc) ELSE rcpt_to[s]

EndOfData(s, rcpts) ==
    /\ pc[s] = "idle" /\ state[s] = "Data"
    /\ messages < MaxMessages
    /\ messages' = messages + 1
    /\ message' = [message EXCEPT ![s] = messages + 1]
    /\ todo' = [todo EXCEPT ![s] = rcpts]
    /\ all_ok' = [all_ok EXCEPT ![s] = TRUE]
    /\ Goto(s, "deliver")
    /\ UNCHANGED <<tableVars, envVars, arg, seen, box, worldVars, granted, stored, acked>>

\* The mailbox of a recipient: for an alias that is still active the target
\* account, which the SMTP session cuts at the length of the alias's local part.
MailboxOf_OwnName(s, a) == a
MailboxOf(s, a) ==
    IF ~Resolves(a) THEN a
    ELSE IF s = "smtp" THEN Policy[a].prefix ELSE Policy[a].username

\* Submission looks at the recipient's local part before it resolves it.
Rejects(s, a) == MailboxOf(s, a) \in Unsafe \/ (s = "submission" /\ a \in Unsafe)

NotAllOk_Forgotten(s) == all_ok
NotAllOk(s) == [all_ok EXCEPT ![s] = FALSE]

DeliverNext(s) ==
    /\ pc[s] = "deliver" /\ todo[s] # <<>>
    /\ LET a == Head(todo[s]) IN
       /\ IF Rejects(s, a)
          THEN /\ all_ok' = NotAllOk(s)
               /\ todo' = [todo EXCEPT ![s] = Tail(@)]
               /\ UNCHANGED <<pc, arg, box>>
          ELSE /\ arg' = [arg EXCEPT ![s] = a]
               /\ box' = [box EXCEPT ![s] = MailboxOf(s, a)]
               /\ Goto(s, "store")
               /\ UNCHANGED <<all_ok, todo>>
    /\ UNCHANGED <<tableVars, envVars, seen, worldVars, historyVars>>

Copy(s) == [msg |-> message[s], rcpt |-> arg[s], box |-> box[s],
            from |-> mail_from[s], via |-> s]

\* MailDir::deliver.  It reports a failure by an empty path, which is not the
\* empty optional deliver tests for, so all_ok stays as it is.  schedule_purge
\* then fails to prepare: the table has no column auto_delete_after.
DeliverStore(s) ==
    /\ pc[s] = "store"
    /\ stored' \in {stored \cup {Copy(s)}} \cup (IF "disk" \in Faults THEN {stored} ELSE {})
    /\ todo' = [todo EXCEPT ![s] = Tail(@)]
    /\ Goto(s, "deliver")
    /\ arg' = [arg EXCEPT ![s] = NULL] /\ box' = [box EXCEPT ![s] = NULL]
    /\ UNCHANGED <<tableVars, envVars, seen, all_ok, worldVars>>
    /\ UNCHANGED <<messages, message, granted, acked>>

AfterDelivery_KeepsEnvelope(s) ==
    /\ state' = [state EXCEPT ![s] = "Greeted"]
    /\ UNCHANGED <<mail_from, rcpt_to>>
AfterDelivery(s) ==
    /\ state' = [state EXCEPT ![s] = "Greeted"]
    /\ ClearEnvelope(s)

\* 250, or 452 and the session stays in Data.
DeliverEnd(s) ==
    /\ pc[s] = "deliver" /\ todo[s] = <<>>
    /\ Return(s)
    /\ message' = [message EXCEPT ![s] = 0]
    /\ IF all_ok[s]
       THEN /\ acked' = acked \cup {[msg |-> message[s], rcpt |-> rcpt_to[s][i]] :
                                    i \in 1 .. Len(rcpt_to[s])}
            /\ AfterDelivery(s)
       ELSE UNCHANGED <<acked, state, mail_from, rcpt_to>>
    /\ UNCHANGED <<tableVars, authed, worldVars, messages, granted, stored>>

-----------------------------------------------------------------------------
(* The end of a session, the periodic timer, and the world.                *)

\* A new session object replaces that of a closed connection.
NewSessions(S) ==
    /\ state' = [s \in Sessions |-> IF s \in S THEN FirstState(s) ELSE state[s]]
    /\ authed' = [s \in Sessions |-> authed[s] /\ s \notin S]
    /\ mail_from' = [s \in Sessions |-> IF s \in S THEN NULL ELSE mail_from[s]]
    /\ rcpt_to' = [s \in Sessions |-> IF s \in S THEN <<>> ELSE rcpt_to[s]]
    /\ pc' = [s \in Sessions |-> IF s \in S THEN "idle" ELSE pc[s]]
    /\ arg' = [s \in Sessions |-> IF s \in S THEN NULL ELSE arg[s]]
    /\ seen' = [s \in Sessions |-> IF s \in S THEN 0 ELSE seen[s]]
    /\ todo' = [s \in Sessions |-> IF s \in S THEN <<>> ELSE todo[s]]
    /\ box' = [s \in Sessions |-> IF s \in S THEN NULL ELSE box[s]]
    /\ all_ok' = [s \in Sessions |-> all_ok[s] \/ s \in S]
    /\ message' = [s \in Sessions |-> IF s \in S THEN 0 ELSE message[s]]
    /\ UNCHANGED <<tableVars, now, messages, granted, stored, acked>>

\* The connection ends between two calls of on_data.
Disconnect(s) == pc[s] = "idle" /\ NewSessions({s}) /\ UNCHANGED crashes

\* weakly_canonical throws before the copy.  Under TLS on_read catches it and closes
\* the connection; without TLS nothing does, the process ends, and that is Crash.
DeliverThrows(s) ==
    /\ "throw" \in Faults
    /\ pc[s] = "store"
    /\ NewSessions({s}) /\ UNCHANGED crashes

\* The process dies and starts again; the database and the files stay.
Crash ==
    /\ crashes < MaxCrashes
    /\ crashes' = crashes + 1
    /\ NewSessions(Sessions)

\* The callback of the timer, on the SMTP thread.  The purge queue is empty:
\* nothing can insert into it.
ReapExpired ==
    /\ pc["smtp"] = "idle"
    /\ active' = Deactivated({a \in AliasAddrs : Reapable(a)})
    /\ UNCHANGED <<uses_count, envVars, callVars, worldVars, historyVars>>

Tick ==
    /\ now < MaxTime
    /\ now' = now + 1
    /\ UNCHANGED <<tableVars, envVars, callVars, crashes, historyVars>>

\* A step of a call that is under way.
CallStep(s) ==
    \/ ConsumeSelect(s) \/ ConsumeRefuse(s) \/ ConsumeUpdate(s) \/ ConsumeDeactivate(s)
    \/ RcptDomain(s) \/ DeliverNext(s) \/ DeliverStore(s) \/ DeliverEnd(s)

Next ==
    \/ \E s \in Sessions :
          \/ Ehlo(s) \/ Rset(s) \/ Quit(s) \/ Auth(s) \/ Data(s)
          \/ \E d \in Senders : Mail(s, d)
          \/ \E a \in Addrs : Rcpt(s, a)
          \/ EndOfData(s, rcpt_to[s])
          \/ \E cc \in Addrs : EndOfData(s, Recipients(s, cc))
          \/ CallStep(s) \/ Disconnect(s) \/ DeliverThrows(s)
    \/ Crash \/ ReapExpired \/ Tick

Spec == Init /\ [][Next]_vars

\* A thread that is inside a call goes on, and the loop keeps serving its timer.
FairSpec ==
    /\ Spec
    /\ \A s \in Sessions : WF_vars(CallStep(s))
    /\ SF_vars(ReapExpired)

-----------------------------------------------------------------------------
(* Properties.                                                             *)

TypeOK ==
    /\ active \in [AliasAddrs -> BOOLEAN]
    /\ uses_count \in [AliasAddrs -> Nat] /\ granted \in [AliasAddrs -> Nat]
    /\ state \in [Sessions -> States] /\ authed \in [Sessions -> BOOLEAN]
    /\ mail_from \in [Sessions -> Senders \cup {NULL}]
    /\ rcpt_to \in [Sessions -> Seq(Addrs)] /\ todo \in [Sessions -> Seq(Addrs)]
    /\ \A s \in Sessions : Len(rcpt_to[s]) <= MaxRcpt
    /\ pc \in [Sessions -> Points]
    /\ arg \in [Sessions -> Addrs \cup {NULL}] /\ box \in [Sessions -> Addrs \cup {NULL}]
    /\ seen \in [Sessions -> Nat] /\ all_ok \in [Sessions -> BOOLEAN]
    /\ now \in 0 .. MaxTime /\ crashes \in 0 .. MaxCrashes
    /\ messages \in 0 .. MaxMessages /\ message \in [Sessions -> 0 .. MaxMessages]
    /\ stored \subseteq Copies
    /\ acked \subseteq [msg : 1 .. MaxMessages, rcpt : Addrs]

\* An alias is never granted more than max_uses times plus one for each other
\* thread: accept_and_consume reads the count and increments it in two
\* statements, so threads that read it together may overrun it, but no further.
UseLimit ==
    \A a \in AliasAddrs :
        Policy[a].max_uses # NULL =>
            granted[a] <= Policy[a].max_uses + Cardinality(Sessions) - 1

\* Mail an SMTP session stored for an alias came from a domain on the alias's
\* allowlist: no order of commands, resets and aliases going inactive lets a
\* recipient accepted for one sender be used with another.
DomainRespected ==
    \A c \in stored :
        c.via = "smtp" /\ c.rcpt \in AliasAddrs /\ c.box # c.rcpt =>
            DomainAllowed(c.rcpt, c.from)

\* Recipients never leak from one transaction into the next: a session that has
\* not yet accepted a RCPT since its last MAIL or greeting has none.
FreshEnvelope ==
    \A s \in Sessions :
        state[s] \in {"Connected", "Greeted", "Authenticated", "Mail"} => rcpt_to[s] = <<>>

\* Mail for an alias that missed the target account was stored after the alias
\* went inactive: deliver resolves the recipient again, and nothing reactivates
\* an alias.  (prefix = username: the SMTP session did not cut the name.)
MissedOnlyIfInactive ==
    \A c \in stored :
        /\ c.rcpt \in AliasAddrs
        /\ Policy[c.rcpt].prefix = Policy[c.rcpt].username
        /\ c.box # Policy[c.rcpt].username
        => ~active[c.rcpt]

\* "250 OK: Message Accepted" is sent only when a copy for every recipient of the
\* envelope is in a mailbox, whatever exceptions and restarts come before it.
AcceptedIsStored ==
    \A k \in acked : \E c \in stored : c.msg = k.msg /\ c.rcpt = k.rcpt

\* Every copy stored for an alias with an allowlist came from a domain on it.
AllowedDomainsOnly ==
    \A c \in stored :
        c.rcpt \in AliasAddrs /\ c.box # c.rcpt => DomainAllowed(c.rcpt, c.from)

\* A spent alias, by count or by time, is deactivated in the end, although two
\* threads that race for the last uses may both leave it active.
SpentGoesInactive ==
    \A a \in AliasAddrs :
        (\/ Policy[a].max_uses # NULL /\ uses_count[a] >= Policy[a].max_uses
         \/ Policy[a].expires_at # NULL /\ now >= Policy[a].expires_at) ~> ~active[a]

=============================================================================
