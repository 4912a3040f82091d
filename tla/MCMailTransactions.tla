------------------------- MODULE MCMailTransactions -------------------------
(* Instances of MailTransactions for model checking.                       *)
EXTENDS MailTransactions, TLC

CONSTANTS few, brief, bob, odd, good, bad

\* An alias of two uses for the domain good, and one that only expires.
MCPolicy ==
    few :> [username |-> bob, prefix |-> bob, max_uses |-> 2,
            expires_at |-> NULL, domains |-> {good}]
    @@ brief :> [username |-> bob, prefix |-> bob, max_uses |-> NULL,
                 expires_at |-> 1, domains |-> {}]

\* The first of them alone.
MCFew == [a \in {few} |-> MCPolicy[a]]

=============================================================================
