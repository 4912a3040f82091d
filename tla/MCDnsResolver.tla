---------------------------- MODULE MCDnsResolver ----------------------------
(* Instances of DnsResolver for model checking.                            *)
EXTENDS DnsResolver, TLC

CONSTANTS spf, dmarc, mx

\* "a..bc", a label of 64 bytes, and "z".
MCNameOf == spf :> << <<97>>, <<>>, <<98, 99>> >>
            @@ dmarc :> << [i \in 1..64 |-> 120] >>
            @@ mx :> << <<122>> >>
MCTypeOf == spf :> TXT @@ dmarc :> A @@ mx :> TXT

=============================================================================
