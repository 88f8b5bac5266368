---------------------------- MODULE MCDnsZones ------------------------------
(***************************************************************************)
(* A zone, a zone within it and a reverse zone; one name in two spellings, *)
(* and lines of every type, of which some have no zone, no TTL or an       *)
(* address that is none.                                                   *)
(***************************************************************************)
EXTENDS DnsZones

Labels == {"lan", "sub", "www", "WWW", "ns", "org", "1", "2", "arpa", ""}

MCFold == [l \in Labels |-> IF l = "WWW" THEN "www" ELSE l]
MCReverseRoot == <<"arpa">>

Lan == <<"lan">>
Sub == <<"sub", "lan">>
Www == <<"www", "lan">>
WWW == <<"WWW", "lan">>
Deep == <<"www", "sub", "lan">>
Ns == <<"ns", "lan">>
Elsewhere == <<"www", "org">>
Ip == <<"1", "2">>

Make(type, name, data0, ip, ttl) ==
  [type |-> type, name |-> name, data |-> data0, ip |-> ip, ttl |-> ttl,
   serial |-> IF type = "Z" THEN 1 ELSE None]

MCLine ==
  { Make("Z", Lan, None, None, 1), Make("Z", Lan, None, None, None),
    Make("Z", Sub, None, None, 2), Make("Z", MCReverseRoot, None, None, 1),
    Make("+", Www, None, Ip, None), Make("+", Deep, None, Ip, 3),
    Make("=", Www, None, Ip, None), Make("=", Www, None, <<"1">>, None),
    Make("C", Www, Ns, None, None), Make("C", WWW, Lan, None, None),
    Make("&", Lan, Ns, Ip, None), Make("&", Lan, None, Ip, None),
    Make("'", Elsewhere, Lan, None, None), Make(":", Deep, Www, None, None),
    Make("?", Www, None, None, None) }

Hand(owner, rtype, content) ==
  [owner |-> owner, rtype |-> rtype, content |-> content, ttl |-> None,
   serial |-> IF rtype = "soa" THEN 1 ELSE None, implicit |-> FALSE]

MCRecord ==
  { Hand(Lan, "soa", <<>>), Hand(Sub, "soa", <<>>), Hand(Www, "a", Ip), Hand(Deep, "a", Ip),
    Hand(Deep, "cname", Www) }

=============================================================================
