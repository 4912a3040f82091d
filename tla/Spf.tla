-------------------------------- MODULE Spf --------------------------------
(***************************************************************************)
(* SPF::Checker (auth/spf/checker.cpp): the evaluation of one check_host, *)
(* as what the checker does between two answers of the resolver.           *)
(*                                                                         *)
(* A domain is the sequence of its labels.  An evaluation is                *)
(*   [stack, stage, ask, result]                                           *)
(* where stack holds one EvalState per include under way (the innermost    *)
(* last), ask is the query the checker waits for, stage the callback that  *)
(* takes its answer, and result is "pending" until the callback the caller *)
(* of check() passed has run.  An EvalState keeps the record it is in the  *)
(* middle of (mechs, idx), which the C++ lambdas capture.                  *)
(***************************************************************************)
EXTENDS Naturals, Sequences, SequencesExt

\* The two limits, both written 10 in the code.
MaxLookups == 10
MaxDepth == 10

Results == {"Pass", "Fail", "SoftFail", "Neutral", "None", "TempError", "PermError"}

NoQuery == [type |-> "none", name |-> <<>>]
Txt(name) == [type |-> "txt", name |-> name]
A(name) == [type |-> "a", name |-> name]

Asking(stack, stage, query) ==
    [stack |-> stack, stage |-> stage, ask |-> query, result |-> "pending"]

Finished(result) ==
    [stack |-> <<>>, stage |-> "done", ask |-> NoQuery, result |-> result]

Top(stack, state) == [stack EXCEPT ![Len(stack)] = state]

----------------------------------------------------------------------------
(* Addresses are sequences of octets, a network is [base, prefix] where     *)
(* prefix is empty when the text has no slash.                              *)

\* The first n bits of two addresses agree.
SamePrefix(a, b, n) ==
    \A i \in 1 .. Len(a) :
        LET bits == IF n >= 8 * i THEN 8
                    ELSE IF n > 8 * (i - 1) THEN n - 8 * (i - 1) ELSE 0
        IN  a[i] \div 2^(8 - bits) = b[i] \div 2^(8 - bits)

\* uint8_t(stoi(...)): the length is taken modulo 256.
prefix_len(prefix, default) == IF prefix = <<>> THEN default ELSE prefix[1] % 256

ipv4_matches(ip, net) ==
    LET prefix == prefix_len(net.prefix, 32)
    IN  /\ Len(ip) = 4
        /\ Len(net.base) = 4
        /\ prefix <= 32
        /\ SamePrefix(ip, net.base, prefix)

\* The code has no guard on prefix > 128: such a network is no input here.
ipv6_matches(ip, net) ==
    /\ Len(ip) = 16
    /\ Len(net.base) = 16
    /\ SamePrefix(ip, net.base, prefix_len(net.prefix, 128))

\* The name an "a" mechanism asks for.  The value is not split: with a prefix, the slash and what
\* follows stay in the name.
ADomain(value, sender_domain) ==
    IF value.name = <<>> /\ value.prefix = <<>> THEN sender_domain
    ELSE IF value.prefix = <<>> THEN value.name ELSE Append(value.name, "/")

\* The A records of an answer, each widened to the prefix in the mechanism.
check_a_record(ip, value, rr) ==
    /\ rr.status = "OK"
    /\ \E a \in rr.addresses :
          ipv4_matches(ip, [base |-> a, prefix |-> <<prefix_len(value.prefix, 32)>>])

----------------------------------------------------------------------------
(* Records.  A TXT record is [version, terms]; "spf1..." stands for a text  *)
(* that starts with "v=spf1" but whose first word is longer.                *)

\* A token without a qualifier counts as "+".
parse_mechanism(token) ==
    [qualifier |-> IF token.qualifier = "" THEN "+" ELSE token.qualifier,
     type |-> token.type, value |-> token.value]

parse_record(txt) ==
    LET modifiers == SelectSeq(txt.terms, LAMBDA t : t.type = "redirect=")
        tokens == SelectSeq(txt.terms, LAMBDA t : t.type \notin {"redirect=", "exp="})
    IN  [ok |-> txt.version = "spf1",
         redirect |-> IF modifiers = <<>> THEN <<>> ELSE Last(modifiers).value.name,
         mechanisms |-> [i \in 1 .. Len(tokens) |-> parse_mechanism(tokens[i])]]

qualifier_to_result(q) ==
    CASE q = "+" -> "Pass" [] q = "-" -> "Fail" [] q = "~" -> "SoftFail" [] q = "?" -> "Neutral"

----------------------------------------------------------------------------
RECURSIVE finish(_, _)
RECURSIVE eval_mechanisms_at(_, _)

\* Variant of included_callback: the cases of Fail and SoftFail end with a break instead of falling
\* through to the next mechanism.
included_callback_NoFallthrough(caller, included) ==
    LET state == Last(caller)
        mech == state.mechs[state.idx]
    IN  CASE included = "Pass" -> finish(caller, qualifier_to_result(mech.qualifier))
          [] included \in {"Fail", "SoftFail"} -> finish(caller, included)
          [] included = "Neutral" -> eval_mechanisms_at(state.idx + 1, caller)
          [] included = "TempError" -> finish(caller, "TempError")
          [] OTHER -> finish(caller, "PermError")

\* How the result of an included record goes on in the record that includes it.
included_callback(caller, included) ==
    LET state == Last(caller)
        mech == state.mechs[state.idx]
    IN  CASE included = "Pass" -> finish(caller, qualifier_to_result(mech.qualifier))
          [] included \in {"Fail", "SoftFail", "Neutral"} ->
                 eval_mechanisms_at(state.idx + 1, caller)
          [] included = "TempError" -> finish(caller, "TempError")
          [] OTHER -> finish(caller, "PermError")

finish(stack, result) ==
    IF Len(stack) = 1 THEN Finished(result) ELSE included_callback(Front(stack), result)

\* One more lookup of a TXT record, or the end when the limit is reached.
fetch_and_eval(domain, stack) ==
    LET state == Last(stack)
    IN  IF state.dns_lookups >= MaxLookups THEN finish(stack, "PermError")
        ELSE Asking(Top(stack, [state EXCEPT !.dns_lookups = @ + 1, !.domain = domain]),
                    "prefixed", Txt(<<"_spf">> \o domain))

\* The EvalState of an include: the counter is copied, and never added back.
IncludedState(state, domain) ==
    [state EXCEPT !.sender_domain = domain, !.depth = @ + 1, !.mechs = <<>>, !.idx = 0]

eval_mechanisms_at(idx, stack) ==
    LET state == [Last(stack) EXCEPT !.idx = idx]
        here == Top(stack, state)
        mech == state.mechs[idx]
        matched(yes) == IF yes THEN finish(here, qualifier_to_result(mech.qualifier))
                        ELSE eval_mechanisms_at(idx + 1, here)
    IN  IF idx > Len(state.mechs) THEN finish(stack, "Neutral")
        ELSE CASE mech.type = "all" -> matched(TRUE)
               [] mech.type = "ip4" -> matched(ipv4_matches(state.client_ip, mech.value))
               [] mech.type = "ip6" -> matched(ipv6_matches(state.client_ip, mech.value))
               [] mech.type = "a" ->
                      IF state.dns_lookups >= MaxLookups THEN finish(here, "PermError")
                      ELSE Asking(Top(here, [state EXCEPT !.dns_lookups = @ + 1]), "a",
                                  A(ADomain(mech.value, state.sender_domain)))
               [] mech.type = "include" ->
                      IF mech.value.name = <<>> \/ state.depth >= MaxDepth
                      THEN finish(here, "PermError")
                      ELSE fetch_and_eval(mech.value.name,
                               Append(here, IncludedState(state, mech.value.name)))
               [] mech.type \in {"ptr", "exits"} -> matched(FALSE)
               [] OTHER -> finish(here, "PermError")

\* The answer to a TXT query is the policy of stack's innermost EvalState.
handle_txt_response(stack, rr) ==
    LET state == Last(stack)
        spf == SelectSeq(rr.records, LAMBDA t : t.version \in {"spf1", "spf1..."})
        record == parse_record(spf[1])
    IN  CASE rr.status \in {"Timeout", "ServFail"} -> finish(stack, "TempError")
          [] rr.status \notin {"Timeout", "ServFail"} /\ spf = <<>> -> finish(stack, "None")
          [] OTHER ->
                 IF Len(spf) > 1 \/ ~record.ok THEN finish(stack, "PermError")
                 ELSE IF record.redirect # <<>> /\ record.mechanisms = <<>>
                 THEN IF state.depth >= MaxDepth THEN finish(stack, "PermError")
                      ELSE fetch_and_eval(record.redirect,
                                          Top(stack, [state EXCEPT !.depth = @ + 1]))
                 ELSE eval_mechanisms_at(1, Top(stack, [state EXCEPT !.mechs = record.mechanisms]))

\* The bare name is asked for when there is nothing at _spf.<domain>.
prefixed_callback(stack, rr) ==
    LET state == Last(stack)
    IN  IF rr.status # "NXDomain" THEN handle_txt_response(stack, rr)
        ELSE IF state.dns_lookups >= MaxLookups THEN finish(stack, "PermError")
        ELSE Asking(Top(stack, [state EXCEPT !.dns_lookups = @ + 1]), "bare", Txt(state.domain))

\* The callback of an A query: check_a_record, then on_match.
a_callback(stack, rr) ==
    LET state == Last(stack)
        mech == state.mechs[state.idx]
    IN  IF check_a_record(state.client_ip, mech.value, rr)
        THEN finish(stack, qualifier_to_result(mech.qualifier))
        ELSE eval_mechanisms_at(state.idx + 1, stack)

\* What the checker does with the answer it waits for.
SpfAnswered(eval, rr) ==
    CASE eval.stage = "prefixed" -> prefixed_callback(eval.stack, rr)
      [] eval.stage = "bare" -> handle_txt_response(eval.stack, rr)
      [] eval.stage = "a" -> a_callback(eval.stack, rr)

\* The part of the address after the last "@"; empty when there is none.
extract_domain(mail_from) == mail_from.domain

\* The bounce address <> falls back to the HELO domain.
SpfCheck(mail_from, client_ip, helo_domain) ==
    LET sender == IF mail_from.null THEN helo_domain ELSE extract_domain(mail_from)
        state == [sender_domain |-> sender, client_ip |-> client_ip, domain |-> sender,
                  dns_lookups |-> 0, depth |-> 0, mechs |-> <<>>, idx |-> 0]
    IN  IF sender = <<>> THEN Finished("PermError") ELSE fetch_and_eval(sender, <<state>>)
============================================================================
