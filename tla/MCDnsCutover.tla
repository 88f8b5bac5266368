---------------------------- MODULE MCDnsCutover ----------------------------
(* Two names: one behind the proxy and one without records, or one with a   *)
(* TTL of its own and a CNAME; a second record comes by hand.  The syncs:   *)
(* all names to a new address, with a snapshot; and one name to the old     *)
(* address, as catalog-heal does with a target that nobody changed.         *)
EXTENDS DnsCutover, TLC

MCPlace == [n \in Name |-> IF n = "git" THEN 1 ELSE 2]
MCKind == [c \in Content |-> IF c = "old.host" THEN "CNAME" ELSE "A"]

A(content) == [content |-> content, proxied |-> FALSE, ttl |-> 300]
Behind(content) == [content |-> content, proxied |-> TRUE, ttl |-> 1]
One(record) == [i \in {1} |-> record]
Www(www, git) == [n \in Name |-> IF n = "www" THEN www ELSE git]

MCInitial ==
  {Www(One(Behind("1.1.1.1")), Empty), Www(One(A("1.1.1.1")), One(A("old.host")))}

MCJobs ==
  {[names |-> Name, target |-> "2.2.2.2", proxied |-> FALSE, snapshot |-> TRUE],
   [names |-> {"www"}, target |-> "1.1.1.1", proxied |-> FALSE, snapshot |-> FALSE]}

MCTyped == {A("2.2.2.2")}

RunnerSymmetry == Permutations(Runner)

=============================================================================
