----------------------------- MODULE ZoneFiles ------------------------------
(***************************************************************************)
(* zones.yml, the file PowerDNS serves: what app/dns_zones_lint.py finds   *)
(* in it and what dns-zones-yaml-check lets pass.  A name is its sequence  *)
(* of labels, the root last; "" after the root is a trailing dot.  A       *)
(* document is the sequence of its domains, or Malformed.                  *)
(***************************************************************************)
EXTENDS Integers, FiniteSets, SequencesExt

CONSTANTS
  None,        \* no value
  Malformed,   \* not YAML, or not the shape of a zones file
  Fold,        \* the lower-case spelling of each label
  Octets,      \* 4
  ReverseRoot  \* in-addr.arpa

Label == DOMAIN Fold

ASSUME NamesAssumption ==
  /\ Fold \in [Label -> Label]
  /\ Octets \in Nat
  /\ ReverseRoot \in Seq(Label)
  /\ None \notin Seq(Label)

Inside(name, apex) == IsSuffix(apex, name)

\* _longest_matching_apex, _zone_of: None if no apex contains the name.
Closest(name, apexes) ==
  LET above == {a \in apexes : Inside(name, a)} IN
  IF above = {} THEN None ELSE CHOOSE a \in above : \A b \in above : Len(b) <= Len(a)

\* _name.
Canon(name) ==
  LET folded == [i \in DOMAIN name |-> Fold[name[i]]] IN
  IF Last(folded) = "" THEN Front(folded) ELSE folded

\* _reverse_dns_owner and _ipv4_from_reverse.
ReverseName(address) == Reverse(address) \o ReverseRoot

AddressOf(name) ==
  IF Inside(name, ReverseRoot) /\ Len(name) = Octets + Len(ReverseRoot)
  THEN Reverse(SubSeq(name, 1, Octets)) ELSE None

-----------------------------------------------------------------------------
(* The lint.                                                                *)

\* _collect: domains that are spelled differently are one zone, and so are
\* owners.
Apexes(doc) == {Canon(doc[i].domain) : i \in DOMAIN doc}

Records(doc, apex) ==
  FlattenSeq([i \in DOMAIN doc |->
    IF Canon(doc[i].domain) = apex
    THEN [j \in DOMAIN doc[i].records |-> [doc[i].records[j] EXCEPT !.owner = Canon(@)]]
    ELSE <<>>])

All(doc) == UNION {ToSet(Records(doc, apex)) : apex \in Apexes(doc)}

\* Mutant of LintSoa: an SOA anywhere in the zone will do.
LintSoaAnywhere(apex, records) ==
  IF \A i \in DOMAIN records : records[i].rtype # "soa" THEN {<<apex, "no SOA">>} ELSE {}

LintSoa(apex, records) ==
  LET soas == {i \in DOMAIN records : records[i].rtype = "soa" /\ records[i].owner = apex}
      Short(i) == records[i].serial = None
  IN  {<<r.owner, "stray SOA">> : r \in {s \in ToSet(records) : s.rtype = "soa" /\ s.owner # apex}}
      \cup (IF soas = {} THEN {<<apex, "no SOA">>} ELSE {})
      \cup (IF Cardinality(soas) > 1 THEN {<<apex, "several SOAs">>} ELSE {})
      \cup {<<apex, "short SOA">> : i \in {j \in soas : Short(j) /\ \A k \in soas : j <= k}}

\* The positions whose owner also has other records.
Shared(records) ==
  {i \in DOMAIN records : \E j \in DOMAIN records \ {i} : records[j].owner = records[i].owner}

\* A CNAME beside anything else: the one finding that blocks a reload.
CnameClashes(records) ==
  {records[i].owner : i \in {j \in Shared(records) : records[j].rtype = "cname"}}

\* An entry that is no single `type: content` mapping is no record here, and
\* so not among the findings either.
LintOwner(apex, records) ==
  {<<r.owner, "outside">> : r \in {s \in ToSet(records) : ~Inside(s.owner, apex)}}
  \cup {<<owner, "CNAME">> : owner \in CnameClashes(records)}
  \cup {<<records[i].owner, "repeated">> :
          i \in {j \in DOMAIN records : \E k \in DOMAIN records \ {j} :
                   /\ records[k].owner = records[j].owner
                   /\ records[k].rtype = records[j].rtype
                   /\ records[k].content = records[j].content}}

\* _lint_address_pairs: an A without any PTR, a PTR without its A, where the
\* zone of the other side is in this file.
LintAddressPairs(doc) ==
  LET addresses == {r \in All(doc) : r.rtype = "a"}
      pointers == {r \in All(doc) : r.rtype = "ptr"}
      Here(name) == Closest(name, Apexes(doc)) # None
  IN  {<<r.owner, "no PTR">> : r \in {a \in addresses :
         Here(ReverseName(a.content)) /\ \A p \in pointers : p.owner # ReverseName(a.content)}}
      \cup {<<r.owner, "no A">> : r \in {p \in pointers :
         /\ AddressOf(p.owner) # None
         /\ Here(Canon(p.content))
         /\ \A a \in addresses : ~(a.owner = Canon(p.content) /\ a.content = AddressOf(p.owner))}}

\* lint_zones, without a previous version.
Lint(doc) ==
  UNION {LintSoa(apex, Records(doc, apex)) \cup LintOwner(apex, Records(doc, apex)) :
           apex \in Apexes(doc)}
  \cup LintAddressPairs(doc)

Blocks(doc) == \E apex \in Apexes(doc) : CnameClashes(Records(doc, apex)) # {}

\* validate_zones_yaml_syntax.
WellFormed(doc) == doc # Malformed /\ doc # <<>>

\* dns-zones-yaml-check: exit status 0.
Accepted(doc) == WellFormed(doc) /\ ~Blocks(doc)

=============================================================================
