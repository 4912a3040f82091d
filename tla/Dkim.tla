-------------------------------- MODULE Dkim --------------------------------
(***************************************************************************)
(* DKIM::Signer and DKIM::Verifier (auth/dkim/signer.cpp, verifier.cpp):   *)
(* canonicalisation, the header block that is signed and verified, and the *)
(* verdict on one signature once its key is known.                         *)
(*                                                                         *)
(* A body is a sequence of lines [text, end], where end is "crlf", "lf" or *)
(* "none" for a last line without terminator; a text is a sequence of      *)
(* characters, of which only the blanks are told apart.  A header is       *)
(* [name, value, sig]: sig is 0, or the index in the message's sigs of the *)
(* tags that a DKIM-Signature header carries.  In a value "fold" is the    *)
(* CRLF of a folded header, and "tags" the text of the tags.  Hashes and   *)
(* base64 are injective and are left out: bh= is the canonical body, b= is *)
(* [key, data].                                                            *)
(***************************************************************************)
EXTENDS Naturals, Sequences, SequencesExt

\* Every comparison is of lower-cased names, so names are written in lower case
\* but for the one that the signer writes in mixed case.
Lower(name) == IF name = "DKIM-Signature" THEN "dkim-signature" ELSE name

\* A text that base64_decode turns into nothing.
Undecodable == "!"

Blank(c) == c \in {" ", "\t", "fold"}

\* Variant of ReduceBlanks: the run at the end of a line is reduced like any other.
ReduceBlanks_KeepsEnd(text) ==
    LET kept == SelectSeq([i \in 1 .. Len(text) |-> i],
                    LAMBDA i : ~Blank(text[i]) \/ i = Len(text) \/ ~Blank(text[i + 1]))
    IN  [k \in 1 .. Len(kept) |-> IF Blank(text[kept[k]]) THEN " " ELSE text[kept[k]]]

\* Every run of blanks becomes one space, and a run at the end nothing.
ReduceBlanks(text) ==
    LET kept == SelectSeq([i \in 1 .. Len(text) |-> i],
                    LAMBDA i : ~Blank(text[i]) \/ (i < Len(text) /\ ~Blank(text[i + 1])))
    IN  [k \in 1 .. Len(kept) |-> IF Blank(text[kept[k]]) THEN " " ELSE text[kept[k]]]

\* The lines without the empty ones at the end; one empty line if none is left.
WithoutTrailingEmpty(texts) ==
    LET full == {i \in 1 .. Len(texts) : texts[i] # <<>>}
    IN  IF full = {} THEN <<(<<>>)>>
        ELSE SubSeq(texts, 1, CHOOSE i \in full : \A j \in full : j <= i)

\* getline and pop_back: the last character goes, a CR or not.
PopBack(line) ==
    IF line.end = "crlf" \/ line.text = <<>> THEN line.text ELSE Front(line.text)

\* The texts of the canonical lines, each ended by CRLF.
canonicalize_body(body, method) ==
    WithoutTrailingEmpty([i \in 1 .. Len(body) |->
        IF method = "relaxed" THEN ReduceBlanks(PopBack(body[i])) ELSE body[i].text])

\* The relaxed value loses its first character: start is the truth of the test.
canonicalize_header(name, value, method) ==
    LET reduced == ReduceBlanks(value)
        unindented == IF reduced # <<>> /\ reduced[1] = " " THEN Tail(reduced) ELSE reduced
    IN  IF method = "relaxed"
        THEN [name |-> Lower(name),
              value |-> IF unindented = <<>> THEN <<>> ELSE Tail(unindented)]
        ELSE [name |-> name, value |-> value]

Concat(seqs) == FoldSeq(LAMBDA s, acc : s \o acc, <<>>, seqs)

----------------------------------------------------------------------------
(* Signer *)

\* Signer::trim.
Trim(text) ==
    LET ink == {i \in 1 .. Len(text) : ~Blank(text[i])}
    IN  IF ink = {} THEN <<>>
        ELSE SubSeq(text, CHOOSE i \in ink : \A j \in ink : i <= j,
                          CHOOSE i \in ink : \A j \in ink : j <= i)

\* The lines of a folded value.
Lines(value) ==
    LET cuts == SelectSeq([i \in 1 .. Len(value) |-> i], LAMBDA i : value[i] = "fold")
        from(k) == IF k = 1 THEN 1 ELSE cuts[k - 1] + 1
        to(k) == IF k > Len(cuts) THEN Len(value) ELSE cuts[k] - 1
    IN  [k \in 1 .. Len(cuts) + 1 |-> SubSeq(value, from(k), to(k))]

\* The values of the headers called name, each unfolded.
parse_headers(headers, name) ==
    LET named == SelectSeq(headers, LAMBDA h : Lower(h.name) = name)
        unfolded(value) == Concat([k \in 1 .. Len(Lines(value)) |->
            (IF k = 1 THEN <<>> ELSE <<" ">>) \o Trim(Lines(value)[k])])
    IN  [i \in 1 .. Len(named) |-> unfolded(named[i].value)]

build_signature_header(config, bh, now) ==
    [v |-> "1", a |-> "rsa-sha256", c |-> <<config.header_canon, config.body_canon>>,
     d |-> config.domain, s |-> config.selector, t |-> now,
     h |-> config.signed_headers, bh |-> bh]
    @@ IF config.signature_expiry # 0 THEN [x |-> now + config.signature_expiry] ELSE <<>>

\* The last occurrence of each listed header, then the signature's own tags.
build_signing_data(config, headers, tags) ==
    LET present == SelectSeq(config.signed_headers,
                             LAMBDA name : parse_headers(headers, name) # <<>>)
    IN  [headers |-> [i \in 1 .. Len(present) |->
             canonicalize_header(present[i], Last(parse_headers(headers, present[i])),
                                 config.header_canon)],
         dkim |-> canonicalize_header("DKIM-Signature", <<"v", "tags">>, config.header_canon),
         tags |-> tags]

\* The tags that sign() puts after the headers, b= included.
sign(config, headers, body, now) ==
    LET tags == build_signature_header(config, canonicalize_body(body, config.body_canon), now)
    IN  tags @@ [b |-> [key |-> config.key, data |-> build_signing_data(config, headers, tags)]]

----------------------------------------------------------------------------
(* Verifier *)

\* The DKIM-Signature headers.  A folded one loses what follows its first line.
extract_dkim_headers(message) ==
    LET found == SelectSeq(message.headers, LAMBDA h : Lower(h.name) = "dkim-signature")
    IN  [i \in 1 .. Len(found) |-> message.sigs[found[i].sig][1]]

Has(tags, names) == names \subseteq DOMAIN tags
Tag(tags, name, default) == IF name \in DOMAIN tags THEN tags[name] ELSE default

parse_signature(tags) ==
    LET c == Tag(tags, "c", <<"simple", "simple">>)
    IN  [ok |-> /\ Has(tags, {"v", "a", "d", "s", "h", "bh", "b"})
                /\ tags.v = "1"
                /\ tags.a \in {"rsa-sha256", "ed25519-sha256"},
         expiry |-> Tag(tags, "x", 0),
         body_length |-> Tag(tags, "l", -1),
         header_canon |-> c[1],
         body_canon |-> IF Len(c) = 1 THEN "simple" ELSE c[2]]

\* A key record that may be used: revoked keys have an empty p=.
parse_key_record(txt) ==
    [ok |-> /\ Tag(txt, "v", "DKIM1") = "DKIM1"
            /\ Tag(txt, "p", "") # ""
            /\ Tag(txt, "k", "rsa") \in {"rsa", "ed25519"},
     key_type |-> Tag(txt, "k", "rsa"),
     pk |-> Tag(txt, "p", "")]

\* All headers end up in one element, under the name of the first: `current`
\* is appended to and pushed once, after the loop.  The CR of a fold is gone.
header_lines(headers) ==
    LET unfolded(value) == [i \in 1 .. Len(value) |-> IF value[i] = "fold" THEN "\n" ELSE value[i]]
        rest(i) == IF i = 1 THEN <<>> ELSE <<headers[i].name>>
    IN  IF headers = <<>> THEN <<>>
        ELSE <<[name |-> headers[1].name,
                value |-> Concat([i \in 1 .. Len(headers) |-> rest(i) \o unfolded(headers[i].value)])]>>

\* The listed headers, repeated names taken from the bottom up.
build_signed_header_block(lines, tags, header_canon) ==
    LET values(name) == LET s == SelectSeq(lines, LAMBDA h : Lower(h.name) = name)
                        IN  [i \in 1 .. Len(s) |-> s[i].value]
        consumed(k) == Cardinality({j \in 1 .. k - 1 : Lower(tags.h[j]) = Lower(tags.h[k])})
        found == SelectSeq([k \in 1 .. Len(tags.h) |-> k],
                           LAMBDA k : consumed(k) < Len(values(Lower(tags.h[k]))))
    IN  [headers |-> [i \in 1 .. Len(found) |->
             LET name == Lower(tags.h[found[i]])
             IN  canonicalize_header(name, values(name)[Len(values(name)) - consumed(found[i])],
                                     header_canon)],
         dkim |-> canonicalize_header("dkim-signature", <<" ", "v", "tags">>, header_canon),
         tags |-> [t \in DOMAIN tags \ {"b"} |-> tags[t]]]

\* Variant of verify_signature: the outcome for another key is taken for success.
verify_signature_AnyKey(b, data, pk) == b.data = data

\* verify_rsa_sha256 and verify_ed25519: OpenSSL accepts what the key signed.
verify_signature(b, data, pk) == b.key = pk /\ b.data = data

BodyHashMatches(message, tags) ==
    LET sig == parse_signature(tags)
        covered == IF sig.body_length >= 0 /\ sig.body_length < Len(message.body)
                   THEN SubSeq(message.body, 1, sig.body_length) ELSE message.body
    IN  canonicalize_body(covered, sig.body_canon) = tags.bh

do_verify(message, tags, key, now) ==
    LET sig == parse_signature(tags)
        block == build_signed_header_block(header_lines(message.headers), tags, sig.header_canon)
    IN  IF <<tags.a, key.key_type>> \notin {<<"rsa-sha256", "rsa">>, <<"ed25519-sha256", "ed25519">>}
        THEN "PermError"
        ELSE IF sig.expiry > 0 /\ now > sig.expiry THEN "Fail"
        ELSE IF ~BodyHashMatches(message, tags) THEN "Fail"
        ELSE IF Undecodable \in {tags.b.key, key.pk} THEN "PermError"
        ELSE IF verify_signature(tags.b, block, key.pk) THEN "Pass" ELSE "Fail"
=============================================================================
