---------------------------- MODULE MCImapSession ----------------------------
(* Instances of ImapSession for model checking.                            *)
EXTENDS ImapSession, TLC

CONSTANTS imap, imaps, smtp, submission

\* The delivering threads are interchangeable.
MCSymmetry == Permutations(Threads)

\* One client that changes the mailbox, and one that polls and reads.
MCCommands ==
    imap :> {"LOGIN", "SELECT", "NOOP", "STORE", "EXPUNGE", "CLOSE", "APPEND",
             "CREATE", "DISCONNECT"}
    @@ imaps :> {"AUTHENTICATE", "LOGOUT", "EXAMINE", "SELECT", "NOOP", "FETCH",
                 "EXPUNGE"}

\* "2", which one message makes 1, and "*:1".
MCSequenceSets == {<< <<2, 2>> >>, << <<Star, 1>> >>}

\* STORE of (\Deleted), APPEND with (\Seen).
MCFlagArgs == {<<"Deleted">>}
MCAppendArgs == {<<"Seen">>}

=============================================================================
