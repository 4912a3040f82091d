----------------------------- MODULE DnsContract -----------------------------
(***************************************************************************)
(* What DNS::Resolver promises its users (the SPF, DKIM and DMARC checkers *)
(* each continue in the callback they pass to resolve): a query that was   *)
(* asked is answered once, with some status, and an answer is never taken  *)
(* back.  The callback may ask further queries before it returns.          *)
(***************************************************************************)
CONSTANTS Queries, Statuses

VARIABLES
    asked,    \* queries passed to resolve
    answer    \* [Queries -> the status the callback was called with, or "none"]

contractVars == <<asked, answer>>

Init ==
    /\ asked = {}
    /\ answer = [q \in Queries |-> "none"]

Ask ==
    /\ \E q \in Queries \ asked : asked' = asked \cup {q}
    /\ UNCHANGED answer

\* The callback of q runs, and asks the queries of more.
Answer(q) ==
    /\ q \in asked /\ answer[q] = "none"
    /\ \E st \in Statuses : answer' = [answer EXCEPT ![q] = st]
    /\ \E more \in SUBSET (Queries \ asked) : asked' = asked \cup more

Next == Ask \/ \E q \in Queries : Answer(q)

Safety == Init /\ [][Next]_contractVars
Spec == Safety /\ \A q \in Queries : WF_contractVars(Answer(q))

=============================================================================
