----------------------------- MODULE MCMailAuth -----------------------------
(* Two messages out of a small choice, over a zone with nested, looping and *)
(* redirected SPF records, key rotation and a DMARC policy per kind.        *)
EXTENDS MailAuth

Term(q, type, name) == [qualifier |-> q, type |-> type, value |-> [name |-> name, prefix |-> <<>>]]
Net(q, type, base, prefix) == [qualifier |-> q, type |-> type, value |-> [base |-> base, prefix |-> prefix]]
SpfText(terms) == <<[version |-> "spf1", terms |-> terms, tags |-> <<>>]>>
DmarcText(tags) == <<[version |-> "DMARC1", terms |-> <<>>, tags |-> tags]>>

Shop == <<"shop", "org">>
News == <<"news", "shop", "org">>
Bulk == <<"bulk", "net">>
Loop == <<"loop", "net">>
Twin == <<"twin", "net">>
Old == <<"old", "net">>

MCTxtZone ==
    (<<"_spf">> \o Shop) :> SpfText(<<Term("", "include", Bulk), Term("", "a", <<>>), Term("-", "all", <<>>)>>)
    @@ Bulk :> SpfText(<<Net("", "ip4", <<10, 1, 0, 0>>, <<15>>), Term("~", "all", <<>>)>>)
    @@ (<<"_spf">> \o Loop) :> SpfText(<<Term("", "include", Bulk), Term("", "include", Loop)>>)
    @@ Old :> SpfText(<<Term("", "redirect=", Shop)>>)
    @@ Twin :> (SpfText(<<>>) \o SpfText(<<Term("", "mx", <<>>)>>))
    @@ (<<"_dmarc">> \o Shop) :> DmarcText([p |-> "reject", aspf |-> "s"])
    @@ (<<"_dmarc">> \o News) :> DmarcText([p |-> "none", sp |-> "quarantine"])

MCAZone == Shop :> {<<10, 9, 9, 1>>}

KeyName(s) == <<s, "_domainkey">> \o Shop
MCKeysAtStart == KeyName("s1") :> <<[v |-> "DKIM1", k |-> "rsa", p |-> "k1"]>>
MCKeyZones ==
    { MCKeysAtStart,
      KeyName("s1") :> <<[p |-> ""]>> @@ KeyName("s2") :> <<[p |-> "k2"]>> }

Config(selector, key, headers) ==
    [header_canon |-> "relaxed", body_canon |-> "relaxed", domain |-> Shop, selector |-> selector,
     key |-> key, signed_headers |-> headers, signature_expiry |-> 1]

Line(text) == [text |-> text, end |-> "crlf"]
SignedBody == <<Line(<<"x", " ", "y">>), Line(<<>>), Line(<<" ", "x">>)>>
CarriedBody == <<Line(<<"x", "\t", " ", "y", " ">>), Line(<<" ">>), Line(<<" ", " ", "x">>), Line(<<>>)>>
OtherBody == <<Line(<<"x">>)>>

Header(name, value) == [name |-> name, value |-> value, sig |-> 0]
SigHeader(k) == [name |-> "DKIM-Signature", value |-> <<" ", "v", "tags">>, sig |-> k]

Mail(from, sender, ip, headers, sigs, body, carried) ==
    [from |-> from, mail_from |-> [null |-> sender = <<>>, domain |-> sender], helo |-> Bulk,
     client_ip |-> ip, headers |-> headers, sigs |-> sigs, body |-> body, carried |-> carried]

Subject == <<Header("subject", <<" ", "x">>)>>
Sig(selector, key, listed) == sign(Config(selector, key, listed), Subject, SignedBody, 0)

MCMails == <<
    { Mail(Shop, Shop, <<10, 0, 7, 7>>, Subject \o <<SigHeader(1), SigHeader(2)>>,
           <<(<<Sig("s1", "k1", <<"from">>)>>), (<<Sig("s2", "k2", <<"from">>)>>)>>, CarriedBody, TRUE),
      Mail(News, Old, <<10, 9, 9, 1>>, Subject \o <<SigHeader(1), SigHeader(2)>>,
           <<(<<Sig("s1", "k1", <<"subject">>)>>), (<<[v |-> "1"], Sig("s1", "k1", <<>>)>>)>>, CarriedBody, TRUE) },
    { Mail(Shop, Loop, <<10, 9, 9, 2>>, <<SigHeader(1)>> \o Subject,
           <<(<<Sig("s1", "k2", <<"from">>)>>)>>, SignedBody, TRUE),
      Mail(Bulk, <<>>, <<10, 0, 7, 7>>, Subject, <<>>, OtherBody, FALSE),
      Mail(<<"mail", "twin", "net">>, Twin, <<10, 0, 7, 7>>, Subject \o <<SigHeader(1)>>,
           <<(<<Sig("s1", "k1", <<"from">>)>>)>>, OtherBody, FALSE) } >>
=============================================================================
