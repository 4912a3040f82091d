------------------------------- MODULE Dmarc -------------------------------
(***************************************************************************)
(* DMARC::Checker (auth/dmarc/checker.cpp).  A domain is the sequence of   *)
(* its labels in lower case (aligned lower-cases both sides).  A DMARC     *)
(* record is the function of its tags, a TXT record [version, tags].       *)
(***************************************************************************)
EXTENDS Naturals, Sequences, SequencesExt

\* Two dots or more and every label but the last is stripped: dot_count is
\* taken once, before the loop.
org_domain(domain) == IF Len(domain) >= 3 THEN <<Last(domain)>> ELSE domain

aligned(a, b, mode) == IF mode = "s" THEN a = b ELSE org_domain(a) = org_domain(b)

\* "quarantine" is read as Reject too.
parse_policy(value) == IF value \in {"reject", "quarantine"} THEN "Reject" ELSE "None"

DmarcTag(tags, name, default) == IF name \in DOMAIN tags THEN tags[name] ELSE default

\* sp= defaults to p=, an explicit sp=none included.
parse_dmarc_record(tags) ==
    LET p == parse_policy(DmarcTag(tags, "p", "none"))
        sp == parse_policy(DmarcTag(tags, "sp", "none"))
    IN  [policy |-> p, subdomain_policy |-> IF sp = "None" THEN p ELSE sp,
         adkim |-> DmarcTag(tags, "adkim", "r"), aspf |-> DmarcTag(tags, "aspf", "r")]

DmarcDone(result, policy, spf, dkim) ==
    [ask |-> [type |-> "none", name |-> <<>>], fallback |-> FALSE, result |-> result,
     policy |-> policy, spf_passed |-> spf, dkim_passed |-> dkim]

DmarcAsking(domain, fallback) ==
    [ask |-> [type |-> "txt", name |-> <<"_dmarc">> \o domain], fallback |-> fallback,
     result |-> "pending", policy |-> "None", spf_passed |-> FALSE, dkim_passed |-> FALSE]

DmarcCheck(from) == DmarcAsking(org_domain(from), org_domain(from) # from)


\* The name of the From domain itself is tried once.
DmarcFallback(from) == DmarcAsking(from, FALSE)

\* Variant of evaluate: the results are searched without looking at the verdict.
evaluate_AnySignature(record, from, mail_from, spf_result, dkim_results) ==
    LET used == IF org_domain(from) # from THEN record.subdomain_policy ELSE record.policy
        spf_aligned == spf_result = "Pass" /\ aligned(mail_from, from, record.aspf)
        dkim_aligned == \E dr \in dkim_results : aligned(dr.domain, from, record.adkim)
    IN  IF spf_aligned \/ dkim_aligned THEN DmarcDone("Pass", "None", spf_aligned, dkim_aligned)
        ELSE DmarcDone("Fail", IF used # "None" /\ record.policy # "None" THEN record.policy ELSE used,
                       FALSE, FALSE)

\* dkim_results is the set of [result, domain] that the verifier reported.
evaluate(record, from, mail_from, spf_result, dkim_results) ==
    LET used == IF org_domain(from) # from THEN record.subdomain_policy ELSE record.policy
        spf_aligned == spf_result = "Pass" /\ aligned(mail_from, from, record.aspf)
        dkim_aligned == \E dr \in dkim_results :
                            dr.result = "Pass" /\ aligned(dr.domain, from, record.adkim)
    IN  IF spf_aligned \/ dkim_aligned THEN DmarcDone("Pass", "None", spf_aligned, dkim_aligned)
        ELSE DmarcDone("Fail", IF used # "None" /\ record.policy # "None" THEN record.policy ELSE used,
                       FALSE, FALSE)

\* The callback of fetch_and_evaluate; PermError cannot be reached, parsing never fails.
DmarcAnswered(eval, rr, from, mail_from, spf_result, dkim_results) ==
    LET found == SelectSeq(rr.records, LAMBDA t : t.version \in {"DMARC1", "dmarc1"})
    IN  IF rr.status \in {"Timeout", "ServFail"} THEN DmarcDone("TempError", "None", FALSE, FALSE)
        ELSE IF rr.status = "NXDomain" \/ rr.records = <<>>
        THEN IF eval.fallback THEN DmarcFallback(from)
             ELSE DmarcDone("None", "None", FALSE, FALSE)
        ELSE IF found = <<>> THEN DmarcDone("None", "None", FALSE, FALSE)
        ELSE evaluate(parse_dmarc_record(found[1].tags), from, mail_from, spf_result, dkim_results)
============================================================================
