------------------------------ MODULE DnsZones ------------------------------
(***************************************************************************)
(* From tinydns to PowerDNS: an operator writes dns/data, converts it with *)
(* dns-tinydns-convert (app/dns_tinydns_convert.py and its CLI) and, once  *)
(* zones.yml is the source of truth, edits that by hand.                   *)
(***************************************************************************)
EXTENDS ZoneFiles

CONSTANTS
  Line,       \* the lines operators write
  Record,     \* the records they add to zones.yml by hand
  MaxLines,   \* bound on the lines of dns/data
  MaxEdits    \* bound on the edits of zones.yml by hand

Optional(S) == S \cup {None}

\* A resource record; a text is a sequence of labels too.
Entry ==
  [owner : Seq(Label), rtype : {"soa", "ns", "a", "ptr", "cname", "txt", "srv"},
   content : Optional(Seq(Label)), ttl : Optional(Nat), serial : Optional(Nat),
   implicit : BOOLEAN]

Domain == [domain : Seq(Label), ttl : Optional(Nat), records : Seq(Entry)]

ASSUME LinesAssumption ==
  /\ Line \subseteq [type : STRING, name : Seq(Label), data : Optional(Seq(Label)),
                     ip : Optional(Seq(Label)), ttl : Optional(Nat), serial : Optional(Nat)]
  /\ \A line \in Line : line.type = "=" => line.ip # None
  /\ Record \subseteq Entry
  /\ MaxLines \in Nat /\ MaxEdits \in Nat
  /\ None \notin Seq(Domain) /\ Malformed \notin Seq(Domain)

VARIABLES
  data,       \* dns/data
  zones,      \* zones.yml, None if there is none
  issues,     \* what the last conversion reported
  source,     \* history: what the last conversion made zones.yml from, None after an edit
  handEdits   \* the edits by hand so far

zonesVars == <<data, zones, issues, source, handEdits>>

-----------------------------------------------------------------------------
(* parse_tinydns_data.                                                      *)

Rec(line, owner, rtype, content) ==
  [owner |-> owner, rtype |-> rtype, content |-> content, ttl |-> line.ttl,
   serial |-> line.serial, implicit |-> FALSE]

\* _parse_line raises: a type or a shape that is not supported.
Raises(line) ==
  \/ line.type \notin {"Z", "&", "=", "+", "'", "C", ":"}
  \/ line.type = "=" /\ Len(line.ip) # Octets
  \/ line.type = "&" /\ line.data = None

\* _parse_line: the records of a line.
Parsed(line) ==
  CASE line.type = "Z" -> <<Rec(line, line.name, "soa", <<>>)>>
    [] line.type = "+" -> <<Rec(line, line.name, "a", line.ip)>>
    [] line.type = "=" ->
         <<Rec(line, line.name, "a", line.ip),
           [Rec(line, ReverseName(line.ip), "ptr", line.name) EXCEPT !.implicit = TRUE]>>
    [] line.type = "&" ->
         <<Rec(line, line.name, "ns", line.data)>>
         \o (IF line.ip = None THEN <<>> ELSE <<Rec(line, line.data, "a", line.ip)>>)
    [] line.type = "'" -> <<Rec(line, line.name, "txt", line.data)>>
    [] line.type = "C" -> <<Rec(line, line.name, "cname", line.data)>>
    [] line.type = ":" -> <<Rec(line, line.name, "srv", line.data)>>

\* All of them, in order; a line that raises has none.
ParsedFile(file) ==
  FlattenSeq([i \in DOMAIN file |-> IF Raises(file[i]) THEN <<>> ELSE Parsed(file[i])])

ParseIssues(file) == {<<"line", file[i]>> : i \in {j \in DOMAIN file : Raises(file[j])}}

-----------------------------------------------------------------------------
(* bucket_into_zones.                                                       *)

\* zone_apexes_from_records.
ApexesOf(records) == {r.owner : r \in {s \in ToSet(records) : s.rtype = "soa"}}

\* The TTL of the apex's last SOA that has one.
DefaultTtl(records, apex) ==
  LET setters == {i \in DOMAIN records : /\ records[i].rtype = "soa"
                                         /\ records[i].owner = apex
                                         /\ records[i].ttl # None}
  IN  IF setters = {} THEN None
      ELSE records[CHOOSE i \in setters : \A j \in setters : j <= i].ttl

\* Mutant of ZoneOf: the apexes are tried as they come.
SomeZoneOf(r, records) ==
  LET above == {a \in ApexesOf(records) : Inside(r.owner, a)} IN
  IF above = {} THEN None ELSE CHOOSE a \in above : TRUE

ZoneOf(r, records) == Closest(r.owner, ApexesOf(records))

\* Mutant of Survives: among CNAMEs only, all stay.
SurvivesOthers(i, zone) ==
  zone[i].rtype # "cname"
  \/ \A j \in DOMAIN zone : zone[j].owner = zone[i].owner => zone[j].rtype = "cname"

\* _drop_cname_conflicts: other records before a CNAME, the first CNAME
\* before the later ones.
Survives(i, zone) ==
  zone[i].rtype # "cname"
  \/ \A j \in DOMAIN zone \ {i} :
       zone[j].owner = zone[i].owner => (zone[j].rtype = "cname" /\ i < j)

\* The records of one zone, before and after.
Bucket(records, apex) ==
  FlattenSeq([i \in DOMAIN records |->
    IF ZoneOf(records[i], records) = apex THEN <<records[i]>> ELSE <<>>])

Kept(zone) ==
  FlattenSeq([i \in DOMAIN zone |-> IF Survives(i, zone) THEN <<zone[i]>> ELSE <<>>])

\* The zones that have a TTL.
Convertible(records) == {a \in ApexesOf(records) : DefaultTtl(records, a) # None}

\* One domain each; zones.yml lists them in the order of their names.
Converted(records) ==
  [i \in 1 .. Cardinality(Convertible(records)) |->
     LET apex == SetToSeq(Convertible(records))[i] IN
     [domain |-> apex, ttl |-> DefaultTtl(records, apex),
      records |-> Kept(Bucket(records, apex))]]

\* What the import leaves out, by name.  An implicit PTR without a zone was
\* never served: it is not an error, but the CLI reports it too.
BucketIssues(records) ==
  {<<"zone", a>> : a \in ApexesOf(records) \ Convertible(records)}
  \cup {<<"no zone", r>> : r \in {s \in ToSet(records) : ZoneOf(s, records) = None}}
  \cup UNION {LET zone == Bucket(records, a) IN
              {<<"CNAME", zone[i]>> : i \in {j \in DOMAIN zone : ~Survives(j, zone)}} :
                a \in Convertible(records)}

-----------------------------------------------------------------------------

ZonesInit ==
  /\ data = <<>>
  /\ zones = None
  /\ issues = {}
  /\ source = None
  /\ handEdits = 0

WriteLine ==
  /\ Len(data) < MaxLines /\ handEdits = 0
  /\ \E line \in Line : data' = Append(data, line)
  /\ UNCHANGED <<zones, issues, source, handEdits>>

\* The CLI: with no zone to write it writes nothing, exit status 2.
Convert ==
  /\ handEdits = 0
  /\ LET records == ParsedFile(data) IN
     /\ issues' = ParseIssues(data) \cup
          (IF ApexesOf(records) = {} THEN {} ELSE BucketIssues(records))
     /\ IF Converted(records) = <<>>
        THEN source' = None /\ UNCHANGED zones
        ELSE source' = data /\ zones' = Converted(records)
  /\ UNCHANGED <<data, handEdits>>

\* zones.yml becomes the source of truth: one more record in a domain, one
\* less, or one more domain.
EditByHand ==
  /\ zones # None /\ handEdits < MaxEdits
  /\ \/ \E i \in DOMAIN zones, r \in Record :
          zones' = [zones EXCEPT ![i].records = Append(@, r)]
     \/ \E i \in DOMAIN zones : \E j \in DOMAIN zones[i].records :
          zones' = [zones EXCEPT ![i].records = RemoveAt(@, j)]
     \/ \E r \in Record :
          zones' = Append(zones, [domain |-> r.owner, ttl |-> 1, records |-> <<r>>])
  /\ handEdits' = handEdits + 1
  /\ data' = <<>> /\ source' = None /\ issues' = {}

ZonesNext == WriteLine \/ Convert \/ EditByHand

ZonesSpec == ZonesInit /\ [][ZonesNext]_zonesVars

-----------------------------------------------------------------------------
(* Properties.                                                              *)

\* A record of zones.yml is at home where a server looks for it.
AtHome(r) ==
  \E i \in DOMAIN zones :
    /\ r \in ToSet(zones[i].records)
    /\ zones[i].domain = Closest(r.owner, {zones[j].domain : j \in DOMAIN zones})

\* The import "never silently drops anything else" (dns_tinydns_convert.py):
\* every line it cannot parse is reported, and every record of the others is
\* in the zone that answers for it, or reported, itself or its own zone;
\* and zones.yml says nothing that the data did not.
NothingIsLost ==
  source # None =>
    LET records == ParsedFile(source) IN
    /\ \A i \in DOMAIN source : Raises(source[i]) => <<"line", source[i]>> \in issues
    /\ \A r \in ToSet(records) :
         \/ AtHome(r)
         \/ <<"no zone", r>> \in issues \/ <<"CNAME", r>> \in issues
         \/ <<"zone", Closest(r.owner, ApexesOf(records))>> \in issues
    /\ \A i \in DOMAIN zones : ToSet(zones[i].records) \subseteq ToSet(records)

\* Two owners that differ in their spelling only.
SpelledTwice(records) ==
  \E r, s \in ToSet(records) : r.owner # s.owner /\ Canon(r.owner) = Canon(s.owner)

\* "The result is a zones.yml the reload gate accepts"
\* (_drop_cname_conflicts), unless the data spells one name in two ways: the
\* import tells them apart, the gate does not.
ConvertedPassesGate ==
  (source # None /\ ~SpelledTwice(ParsedFile(source))) => Accepted(zones)

\* A file the lint finds nothing in hides no record: each is in the zone
\* that answers for its name, at whose apex there is an SOA, and is no CNAME
\* beside others; unless the file has a closer zone for it in another place.
CleanFileIsAnswered ==
  (zones # None /\ Lint(zones) = {}) =>
    \A apex \in Apexes(zones) : \A r \in ToSet(Records(zones, apex)) :
      LET home == Closest(r.owner, Apexes(zones))
      IN  \/ home # None /\ home # apex /\ Inside(home, apex)
          \/ /\ home = apex
             /\ \E s \in ToSet(Records(zones, apex)) : s.rtype = "soa" /\ s.owner = apex
             /\ r.rtype = "cname" =>
                  \A s \in ToSet(Records(zones, apex)) : s.owner = r.owner => s = r

=============================================================================
