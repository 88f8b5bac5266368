---------------------------- MODULE MCPdnsReload ----------------------------
(***************************************************************************)
(* Two zones: a file with one of them, with both and a record changed      *)
(* under the same SOA, with a CNAME beside an A, with two SOAs in one and  *)
(* none in the other, and one that is no YAML.                             *)
(***************************************************************************)
EXTENDS PdnsReload

MCFold == [l \in {"lan", "org", "www", "arpa", ""} |-> l]
MCReverseRoot == <<"arpa">>

Rec(owner, rtype, content) == [owner |-> owner, rtype |-> rtype, content |-> content, serial |-> 1]

Lan(records) ==
  [domain |-> <<"lan">>, records |-> <<Rec(<<"lan">>, "soa", <<>>)>> \o records]
Org == [domain |-> <<"org">>, records |-> <<Rec(<<"org">>, "soa", <<>>)>>]
A == Rec(<<"www", "lan">>, "a", <<"1", "2">>)
Alias == Rec(<<"www", "lan">>, "cname", <<"lan">>)

Second == Rec(<<"lan">>, "soa", <<"2">>)
Bare == [domain |-> <<"org">>, records |-> <<>>]

MCDoc ==
  {Malformed, <<Lan(<<A>>)>>, <<Lan(<<Alias>>), Org>>, <<Lan(<<A, Alias>>), Org>>,
   <<Lan(<<Second>>), Bare>>}

=============================================================================
