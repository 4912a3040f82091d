----------------------------- MODULE MCOutbound -----------------------------
(* An instance: one account that is active, one that can be added; messages *)
(* with a line that is a lone dot, and without a separator.                 *)
EXTENDS Outbound

MCAccounts == [u \in Users |-> IF u = "alice" THEN [hash |-> "p1", active |-> TRUE] ELSE NoRow]
MCMxAnswers == {<<[prio |-> 20, host |-> "backup"], [prio |-> 10, host |-> "mx"]>>,
                <<[prio |-> 65535, host |-> "mx"]>>}
MCMessages ==
    {[headers |-> <<<<"H">>>>, body |-> <<<<".">>, <<"x">>>>, separated |-> s, relayed |-> TRUE,
      local_ok |-> TRUE] : s \in BOOLEAN}
    \cup {[headers |-> <<<<"H">>>>, body |-> <<>>, separated |-> TRUE, relayed |-> FALSE,
           local_ok |-> ok] : ok \in BOOLEAN}
=============================================================================
