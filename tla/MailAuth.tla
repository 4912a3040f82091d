------------------------------ MODULE MailAuth ------------------------------
(***************************************************************************)
(* The authentication of inbound messages: SPF::Checker::check,            *)
(* DKIM::Verifier::verify and DMARC::Checker::check as their headers show  *)
(* them used, over a resolver that keeps DnsContract: every query is       *)
(* answered once, in any order, with the records of the zone or a failure. *)
(*                                                                         *)
(* Several messages are checked at a time and share the verifier, hence    *)
(* its key cache.  No session calls the three yet, so the order of the     *)
(* calls (both checks first, DMARC on their results) is external.          *)
(***************************************************************************)
EXTENDS Integers, FiniteSets, Spf, Dkim, Dmarc

CONSTANTS
    Slots,       \* messages being checked
    Mails,       \* [Slots -> the messages it may be]
    TxtZone,     \* [name -> sequence of TXT records] for SPF and DMARC
    AZone,       \* [name -> set of addresses]
    KeyZones,    \* the states of the key records: a set of [name -> sequence of tags]
    KeysAtStart, \* the one the checks begin with
    Failures,    \* statuses of a failed lookup
    MaxSigs,     \* bound on the signatures of a message
    MaxFailures, \* bound on the lookups that fail in a behaviour
    MaxNow       \* bound on the clock, in the unit of t= and x=

VARIABLES
    mail,        \* the message of each slot
    spf,         \* evaluation of Spf, or Idle
    dkim,        \* one entry per callback that verify owes its caller
    dmarc,       \* evaluation of Dmarc, or Idle
    key_cache_,  \* DKIM::Verifier::key_cache_
    keys,        \* key records published now
    now,
    ever,        \* history: <<name, p=>> ever published
    clean,       \* history: no SPF lookup of the slot failed
    answers,     \* parity of the number of answers that each asker of a slot got
    failures,    \* lookups that failed
    expected     \* the SPF result of the direct evaluation, fixed from the start

vars == <<mail, spf, dkim, dmarc, key_cache_, keys, now, ever, clean, answers, failures, expected>>

----------------------------------------------------------------------------
(* The resolver, as its users see it.                                      *)

Failed(status) == [status |-> status, records |-> <<>>, addresses |-> {}]

TxtOf(zone, name) ==
    IF name \in DOMAIN zone THEN [status |-> "OK", records |-> zone[name], addresses |-> {}]
    ELSE Failed("NXDomain")

AddressesOf(name) ==
    IF name \in DOMAIN AZone THEN [status |-> "OK", records |-> <<>>, addresses |-> AZone[name]]
    ELSE Failed("NXDomain")

Reply(query) == IF query.type = "a" THEN AddressesOf(query.name) ELSE TxtOf(TxtZone, query.name)

\* The resolver calls back an asker with the reply, or with a failure.
Waits(i, asker) ==
    CASE asker[1] = "spf" -> spf[i].result = "pending"
      [] asker[1] = "key" -> asker[2] \in DOMAIN dkim[i] /\ dkim[i][asker[2]].result = "pending"
      [] asker[1] = "dmarc" -> dmarc[i].result = "pending"

IsAnswered(i, asker) ==
    /\ Waits(i, asker)
    /\ answers' = [answers EXCEPT ![i][asker] = 1 - @]

Answer(reply, rr) ==
    \/ rr = reply /\ UNCHANGED failures
    \/ /\ rr # reply
       /\ failures < MaxFailures
       /\ failures' = failures + 1

Answers(reply) == {reply} \cup {Failed(status) : status \in Failures}

----------------------------------------------------------------------------
(* Reference: check_host in direct style, on a zone that always answers.    *)
(* n lookups were made on the way to domain, at include or redirect depth d.*)

RECURSIVE CheckHost(_, _, _, _, _)
CheckHost(ip, domain, sender, n, d) ==
    LET prefixed == <<"_spf">> \o domain \in DOMAIN TxtZone
        used == IF prefixed THEN n + 1 ELSE n + 2
        rr == Reply(Txt(IF prefixed THEN <<"_spf">> \o domain ELSE domain))
        spfs == {j \in DOMAIN rr.records : rr.records[j].version \in {"spf1", "spf1..."}}
        record == parse_record(rr.records[CHOOSE j \in spfs : TRUE])
        ms == record.mechanisms
        lookups(k) == used + Cardinality({j \in 1 .. k : ms[j].type = "a"})
        hit(k) == qualifier_to_result(ms[k].qualifier)
        included(sub, k) == CASE sub = "Pass" -> hit(k)
                              [] sub \in {"Fail", "SoftFail", "Neutral"} -> "next"
                              [] OTHER -> "PermError"
        \* What mechanism k decides, "next" when it decides nothing.
        outcome == [k \in DOMAIN ms |->
            CASE ms[k].type = "all" -> hit(k)
              [] ms[k].type = "ip4" -> IF ipv4_matches(ip, ms[k].value) THEN hit(k) ELSE "next"
              [] ms[k].type = "ip6" -> IF ipv6_matches(ip, ms[k].value) THEN hit(k) ELSE "next"
              [] ms[k].type = "a" ->
                     IF lookups(k) > MaxLookups THEN "PermError"
                     ELSE IF \E a \in AddressesOf(ADomain(ms[k].value, sender)).addresses :
                                ipv4_matches(ip, [base |-> a, prefix |-> ms[k].value.prefix])
                     THEN hit(k) ELSE "next"
              [] ms[k].type = "include" ->
                     IF ms[k].value.name = <<>> \/ d >= MaxDepth THEN "PermError"
                     ELSE included(CheckHost(ip, ms[k].value.name, ms[k].value.name,
                                             lookups(k), d + 1), k)
              [] ms[k].type \in {"ptr", "exits"} -> "next"
              [] OTHER -> "PermError"]
        deciding == {k \in DOMAIN ms : outcome[k] # "next" /\ \A j \in 1 .. k - 1 : outcome[j] = "next"}
    IN  IF used > MaxLookups THEN "PermError"
        ELSE IF spfs = {} THEN "None"
        ELSE IF Cardinality(spfs) > 1 \/ ~record.ok THEN "PermError"
        ELSE IF record.redirect # <<>> /\ ms = <<>>
        THEN IF d >= MaxDepth THEN "PermError" ELSE CheckHost(ip, record.redirect, sender, used, d + 1)
        ELSE IF deciding = {} THEN "Neutral" ELSE outcome[CHOOSE k \in deciding : TRUE]

SpfDomain(m) == IF m.mail_from.null THEN m.helo ELSE m.mail_from.domain

SpfReference(m) ==
    IF SpfDomain(m) = <<>> THEN "PermError"
    ELSE CheckHost(m.client_ip, SpfDomain(m), SpfDomain(m), 0, 0)

----------------------------------------------------------------------------
Idle == [ask |-> NoQuery, result |-> "idle"]

\* Who waits for answers: the SPF evaluation, each signature, the DMARC check.
Askers == {<<"spf", 0>>, <<"dmarc", 0>>} \cup {<<"key", k>> : k \in 1 .. MaxSigs}

Published(zone) == UNION {{<<n, zone[n][i].p>> : i \in DOMAIN zone[n]} : n \in DOMAIN zone}

Init ==
    /\ mail \in {f \in [Slots -> UNION {Mails[i] : i \in Slots}] : \A i \in Slots : f[i] \in Mails[i]}
    /\ spf = [i \in Slots |-> Idle]
    /\ dkim = [i \in Slots |-> <<>>]
    /\ dmarc = [i \in Slots |-> Idle]
    /\ key_cache_ = <<>>
    /\ keys = KeysAtStart
    /\ now = 1
    /\ ever = Published(keys)
    /\ clean = [i \in Slots |-> TRUE]
    /\ answers = [i \in Slots |-> [asker \in Askers |-> 0]]
    /\ failures = 0
    /\ expected = [i \in Slots |-> SpfReference(mail[i])]

----------------------------------------------------------------------------
(* DKIM: one entry [tags, result, why, key] per signature.                 *)

cached_key(tags) == <<tags.s, "_domainkey">> \o tags.d

Report(tags, result, why) == [tags |-> tags, result |-> result, why |-> why]

\* do_verify with the reason it reports next to the result.
Verified(message, tags, key) ==
    LET result == do_verify(message, tags, key, now)
    IN  Report(tags, result,
               IF result = "Fail" /\ ~BodyHashMatches(message, tags) THEN "body" ELSE "")

\* verify() of one header: refused, verified with a cached key, or waiting.
fetch_key_and_verify(message, tags) ==
    IF ~parse_signature(tags).ok THEN Report(<<>>, "PermError", "")
    ELSE IF cached_key(tags) \in DOMAIN key_cache_
    THEN Verified(message, tags, key_cache_[cached_key(tags)])
    ELSE Report(tags, "pending", "")

\* The first record with a p= tag is the one that counts.
KeyText(rr) == SelectSeq(rr.records, LAMBDA t : "p" \in DOMAIN t)

\* Both checks start; verify reports at once when there is nothing to verify.
Check(i) ==
    LET m == mail[i]
        headers == extract_dkim_headers(m)
    IN  /\ spf[i] = Idle
        /\ spf' = [spf EXCEPT ![i] = SpfCheck(m.mail_from, m.client_ip, m.helo)]
        /\ dkim' = [dkim EXCEPT ![i] =
               IF headers = <<>> THEN <<Report(<<>>, "None", "")>>
               ELSE [k \in 1 .. Len(headers) |-> fetch_key_and_verify(m, headers[k])]]
        /\ UNCHANGED <<mail, expected, dmarc, key_cache_, keys, now, ever, clean, answers, failures>>

SpfAnswer(i) ==
    /\ IsAnswered(i, <<"spf", 0>>)
    /\ \E rr \in Answers(Reply(spf[i].ask)) :
          /\ Answer(Reply(spf[i].ask), rr)
          /\ spf' = [spf EXCEPT ![i] = SpfAnswered(@, rr)]
          /\ clean' = [clean EXCEPT ![i] = @ /\ rr = Reply(spf[i].ask)]
    /\ UNCHANGED <<mail, expected, dkim, dmarc, key_cache_, keys, now, ever>>

\* The callback of fetch_key_and_verify; the key is cached before it is used.
KeyAnswer(i, k) ==
    LET tags == dkim[i][k].tags
        name == cached_key(tags)
        reported(r) == dkim' = [dkim EXCEPT ![i][k] = r]
    IN  /\ IsAnswered(i, <<"key", k>>)
        /\ \E rr \in Answers(TxtOf(keys, name)) :
              LET key == parse_key_record(KeyText(rr)[1])
                  usable == KeyText(rr) # <<>> /\ key.ok
              IN  /\ Answer(TxtOf(keys, name), rr)
                  /\ \/ /\ rr.status \in {"Timeout", "ServFail"}
                        /\ reported(Report(tags, "TempError", ""))
                        /\ UNCHANGED key_cache_
                     \/ /\ rr.status \notin {"Timeout", "ServFail"} /\ ~usable
                        /\ reported(Report(tags, "PermError", ""))
                        /\ UNCHANGED key_cache_
                     \/ /\ usable
                        /\ key_cache_' = (name :> key) @@ key_cache_
                        /\ reported(Verified(mail[i], tags, key))
        /\ UNCHANGED <<mail, expected, spf, dmarc, keys, now, ever, clean>>

DkimResults(i) ==
    {[result |-> dkim[i][k].result, domain |-> Tag(dkim[i][k].tags, "d", <<>>)] : k \in DOMAIN dkim[i]}

\* The caller has the SPF result and one result per signature.
Decide(i) ==
    /\ dmarc[i] = Idle
    /\ spf[i].result \in Results
    /\ \A k \in DOMAIN dkim[i] : dkim[i][k].result # "pending"
    /\ dmarc' = [dmarc EXCEPT ![i] = DmarcCheck(mail[i].from)]
    /\ UNCHANGED <<mail, expected, spf, dkim, key_cache_, keys, now, ever, clean, answers, failures>>

DmarcAnswer(i) ==
    /\ IsAnswered(i, <<"dmarc", 0>>)
    /\ \E rr \in Answers(Reply(dmarc[i].ask)) :
          /\ Answer(Reply(dmarc[i].ask), rr)
          /\ dmarc' = [dmarc EXCEPT ![i] = DmarcAnswered(@, rr, mail[i].from, SpfDomain(mail[i]),
                                                         spf[i].result, DkimResults(i))]
    /\ UNCHANGED <<mail, expected, spf, dkim, key_cache_, keys, now, ever, clean>>

\* A sending domain rotates or revokes its keys, once.
Rotate ==
    /\ keys = KeysAtStart
    /\ keys' \in KeyZones \ {keys}
    /\ ever' = ever \cup Published(keys')
    /\ UNCHANGED <<mail, expected, spf, dkim, dmarc, key_cache_, now, clean, answers, failures>>

Tick ==
    /\ now < MaxNow
    /\ now' = now + 1
    /\ UNCHANGED <<mail, expected, spf, dkim, dmarc, key_cache_, keys, ever, clean, answers, failures>>

Next ==
    \/ \E i \in Slots : Check(i) \/ SpfAnswer(i) \/ Decide(i) \/ DmarcAnswer(i)
    \/ \E i \in Slots : \E k \in DOMAIN dkim[i] : KeyAnswer(i, k)
    \/ Rotate
    \/ Tick

\* The answers are DnsContract's; Decide is the caller going on.
Fairness ==
    \A i \in Slots :
        /\ \A asker \in Askers : WF_answers(IsAnswered(i, asker))
        /\ WF_vars(Decide(i))

Spec == Init /\ [][Next]_vars /\ Fairness
----------------------------------------------------------------------------
(* An evaluation that was cut into callbacks, with a state per include and  *)
(* the rest of each record kept in a lambda, ends with the result of the    *)
(* direct evaluation when no lookup failed (checker.cpp:72-394).            *)
SpfAsReference ==
    \A i \in Slots :
        spf[i].result \in Results /\ clean[i] => spf[i].result = expected[i]

(* A signature passes only under a key that its domain has published at the *)
(* signature's own selector, be it answered now or taken from the cache     *)
(* that all messages share (verifier.cpp:712-771).                          *)
PassByOwnKey ==
    \A i \in Slots : \A k \in DOMAIN dkim[i] :
        dkim[i][k].result = "Pass" =>
            <<cached_key(dkim[i][k].tags), dkim[i][k].tags.b.key>> \in ever

(* The signer and the verifier agree on the body: what a relay may change   *)
(* (blanks at the end of a line, runs of blanks, empty lines at the end)    *)
(* never makes the verifier report a body hash mismatch                     *)
(* (signer.cpp:61-143, verifier.cpp:364-446 and 812-828).                   *)
CarriedBodyMatches ==
    \A i \in Slots : \A k \in DOMAIN dkim[i] :
        dkim[i][k].why = "body" => ~mail[i].carried

(* DMARC passes only mail that SPF or DKIM passed, never fails mail that    *)
(* either passed for the very domain of the From header, and asks for a     *)
(* rejection only of mail that failed (checker.cpp:146-204).                *)
VerdictJustified ==
    \A i \in Slots :
        LET spfPass == spf[i].result = "Pass"
            passed == {dr.domain : dr \in {r \in DkimResults(i) : r.result = "Pass"}}
        IN  /\ dmarc[i].result = "Pass" => spfPass \/ passed # {}
            /\ dmarc[i].result = "Fail" =>
                   /\ ~(spfPass /\ SpfDomain(mail[i]) = mail[i].from)
                   /\ mail[i].from \notin passed
            /\ dmarc[i].result \notin {"idle", "Fail"} => dmarc[i].policy = "None"

=============================================================================
