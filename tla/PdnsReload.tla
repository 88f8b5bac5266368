----------------------------- MODULE PdnsReload -----------------------------
(***************************************************************************)
(* scripts/pdns-test-and-reload behind its path unit: a changed zones.yml  *)
(* is checked, loaded, and the caches on the way to the clients are        *)
(* emptied, one command after the other, each of which can fail, while the *)
(* file is edited, clients ask, and the unit's timeout may end the run.    *)
(***************************************************************************)
EXTENDS ZoneFiles

CONSTANTS
  Doc,        \* the documents operators write, Malformed among them
  Refused,    \* the answer for a zone the server does not know
  Elsewhere,  \* what the public DNS answers
  MaxFileEdits    \* bound on the edits

ASSUME ReloadAssumption ==
  /\ Malformed \in Doc /\ \E d \in Doc : Accepted(d)
  /\ MaxFileEdits \in Nat

Served == Doc \ {Malformed}
Zone == UNION {Apexes(d) : d \in Served}

\* What a document says of a zone.
Content(doc, z) == Records(doc, z)

\* The SOA records an answer has for the zone's apex.  The public DNS may
\* have one too, which is another.
Soas(answer, z) ==
  LET AtApex(r) == r.rtype = "soa" /\ r.owner = z IN
  IF answer \in {Refused, Elsewhere} THEN <<>> ELSE SelectSeq(answer, AtApex)

ASSUME AnswerAssumption ==
  \A d \in Served, z \in Zone : Content(d, z) \notin {Refused, Elsewhere}

\* The one SOA a probe can compare.
OnlySoa(soas) == soas # <<>> /\ <<Head(soas)>> = soas

VARIABLES
  file,       \* zones.yml
  pending,    \* the path unit saw a change
  pc,         \* where the run is
  todo,       \* the zones it has still to wipe or to probe
  checked,    \* the zones the check listed
  loaded,     \* what the authoritative server loaded
  apexes,     \* its zone cache
  cached,     \* its packet cache, for each zone
  configured, \* the zones in the recursor's configuration
  forwarded,  \* those it forwards
  relayed,    \* its cache
  unanswered, \* the zones whose probe failed
  outcome,    \* what is known since the last run
  edits,      \* the edits so far
  edited,     \* history: the file changed since the check
  warned,     \* history: the run could not empty some cache
  silent,     \* history: it had no dig, or some dig no answer but SERVFAIL
  unchecked   \* history: what is loaded never passed a check

server == <<loaded, apexes, unchecked>>
caches == <<cached, relayed>>
probes == <<unanswered, silent>>
vars == <<file, pending, pc, todo, checked, server, caches, configured, forwarded,
          outcome, edits, edited, warned, probes>>

Init ==
  /\ file \in {d \in Served : Accepted(d)}
  /\ loaded = file /\ apexes = Apexes(file)
  /\ pending = FALSE /\ pc = "idle" /\ todo = {} /\ checked = {}
  /\ cached = [z \in Zone |-> None]
  /\ configured \in SUBSET Zone
  /\ forwarded \in SUBSET configured
  /\ relayed = [z \in Zone |-> None]
  /\ outcome = "unknown" /\ edits = 0
  /\ edited = FALSE /\ warned = FALSE /\ unchecked = FALSE
  /\ unanswered = {} /\ silent = FALSE

-----------------------------------------------------------------------------
(* Clients and daemons.                                                     *)

\* A zone with no SOA at its apex is not answered for.
Authoritative(z) == z \in apexes /\ Soas(Content(loaded, z), z) # <<>>

\* The packet cache answers first.
AuthAnswer(z) ==
  CASE cached[z] # None -> cached[z]
    [] cached[z] = None /\ Authoritative(z) -> Content(loaded, z)
    [] OTHER -> Refused

RelayedAnswer(z) ==
  CASE relayed[z] # None -> relayed[z]
    [] relayed[z] = None /\ z \in forwarded -> AuthAnswer(z)
    [] OTHER -> Elsewhere

\* A question to the recursor leaves traces in both caches.
Asked(z) ==
  /\ relayed' = [relayed EXCEPT ![z] = RelayedAnswer(z)]
  /\ cached' = IF relayed[z] = None /\ z \in forwarded
               THEN [cached EXCEPT ![z] = AuthAnswer(z)] ELSE cached

\* Clients ask one server or the other; answers expire.
Client(z) ==
  /\ \/ Asked(z)
     \/ cached' = [cached EXCEPT ![z] = AuthAnswer(z)] /\ UNCHANGED relayed
     \/ cached' = [cached EXCEPT ![z] = None] /\ UNCHANGED relayed
     \/ relayed' = [relayed EXCEPT ![z] = None] /\ UNCHANGED cached
  /\ UNCHANGED <<file, pending, pc, todo, checked, server, configured, forwarded,
                 outcome, edits, edited, warned, probes>>

\* zone-cache-refresh-interval.
RefreshZones ==
  /\ apexes' = Apexes(loaded)
  /\ UNCHANGED <<file, pending, pc, todo, checked, loaded, unchecked, caches, configured,
                 forwarded, outcome, edits, edited, warned, probes>>

\* A restart loads whatever is there, past every check.
Restart ==
  /\ file # Malformed
  /\ loaded' = file /\ apexes' = Apexes(file) /\ unchecked' = (file # loaded \/ unchecked)
  /\ cached' = [z \in Zone |-> None]
  /\ outcome' = "unknown"
  /\ UNCHANGED <<file, pending, pc, todo, checked, relayed, configured, forwarded, edits,
                 edited, warned, probes>>

\* By hand or by dns-tinydns-convert.  What systemd makes of a change while
\* the service runs is left open.
Edit ==
  /\ edits < MaxFileEdits
  /\ \E d \in Doc \ {file} : file' = d
  /\ edits' = edits + 1
  /\ edited' = TRUE /\ outcome' = "unknown"
  /\ IF pc = "idle" THEN pending' = TRUE ELSE pending' \in {pending, TRUE}
  /\ UNCHANGED <<pc, todo, checked, server, caches, configured, forwarded, warned, probes>>

\* The recursor's configuration is maintained by hand; a changed mtime of
\* zones.yml runs the script again.
AddForward ==
  /\ pc = "idle"
  /\ \E z \in Zone \ configured : configured' = configured \cup {z}
  /\ pending' = TRUE
  /\ UNCHANGED <<file, pc, todo, checked, server, caches, forwarded, outcome, edits, edited,
                 warned, probes>>

-----------------------------------------------------------------------------
(* The run.                                                                 *)

\* The path unit starts the service.
Activate ==
  /\ pc = "idle" /\ pending
  /\ pending' = FALSE
  /\ pc' = "check"
  /\ outcome' = "unknown" /\ warned' = FALSE /\ silent' = FALSE
  /\ UNCHANGED <<file, todo, checked, server, caches, configured, forwarded, edits, edited,
                 unanswered>>

Exit(result) ==
  pc' = "idle" /\ todo' = {} /\ unanswered' = {} /\ outcome' = IF edited THEN "unknown" ELSE result

\* Any command before the probes that ends the run by failing, a unit that is
\* not there or not active, and the unit's timeout.
GiveUp ==
  /\ pc # "idle"
  /\ Exit("unknown")
  /\ UNCHANGED <<file, pending, checked, server, caches, configured, forwarded, edits, edited,
                 warned, silent>>

\* Mutant of Passes: the findings are printed and nothing else.
PassesWithFindings(doc) == doc # Malformed

\* run_zones_check, by its exit status.
Passes(doc) == Accepted(doc)

\* Exit status 2 for a file that is refused.
Check ==
  /\ pc = "check"
  /\ edited' = FALSE
  /\ IF Passes(file)
     THEN pc' = "reload" /\ checked' = Apexes(file) /\ UNCHANGED <<todo, outcome, unanswered>>
     ELSE Exit("unknown") /\ UNCHANGED checked
  /\ UNCHANGED <<file, pending, server, caches, configured, forwarded, edits, warned, silent>>

\* Mutant of After: the packet cache is emptied before the zone cache is renewed.
AfterPurgingFirst ==
  [reload |-> "purge", purge |-> "rediscover", rediscover |-> "recursor"]

\* The order of the three commands.
After == [reload |-> "rediscover", rediscover |-> "purge", purge |-> "recursor"]

\* pdns_control reload rereads the file, and keeps every cache.
Reload ==
  /\ pc = "reload" /\ file # Malformed
  /\ loaded' = file
  /\ unchecked' = edited
  /\ pc' = After[pc]
  /\ UNCHANGED <<file, pending, todo, checked, apexes, caches, configured, forwarded, outcome,
                 edits, edited, warned, probes>>

Rediscover ==
  /\ pc = "rediscover"
  /\ apexes' = Apexes(loaded)
  /\ pc' = After[pc]
  /\ UNCHANGED <<file, pending, todo, checked, loaded, unchecked, caches, configured, forwarded,
                 outcome, edits, edited, warned, probes>>

\* A purge that fails is only a warning.
Purge ==
  /\ pc = "purge"
  /\ \/ cached' = [z \in Zone |-> None] /\ UNCHANGED warned
     \/ UNCHANGED cached /\ warned' = TRUE
  /\ pc' = After[pc]
  /\ UNCHANGED <<file, pending, todo, checked, server, relayed, configured, forwarded, outcome,
                 edits, edited, probes>>

\* rec_control reload-zones.
ReloadZones ==
  /\ pc = "recursor"
  /\ forwarded' = configured
  /\ pc' = "wipe" /\ todo' = checked
  /\ UNCHANGED <<file, pending, checked, server, caches, configured, outcome, edits, edited,
                 warned, probes>>

\* rec_control wipe-cache, zone by zone; a warning if it fails.
Wipe ==
  /\ pc = "wipe" /\ todo # {}
  /\ \E z \in todo :
       /\ todo' = todo \ {z}
       /\ \/ relayed' = [relayed EXCEPT ![z] = None] /\ UNCHANGED warned
          \/ UNCHANGED relayed /\ warned' = TRUE
  /\ UNCHANGED <<file, pending, pc, checked, server, cached, configured, forwarded, outcome,
                 edits, edited, probes>>

\* Exit status 3 without dig.
FindDig ==
  /\ pc = "wipe" /\ todo = {}
  /\ \/ pc' = "probe" /\ todo' = checked /\ UNCHANGED <<outcome, probes>>
     \/ Exit("unverified") /\ silent' = TRUE
  /\ UNCHANGED <<file, pending, checked, server, caches, configured, forwarded, edits, edited,
                 warned>>

\* Mutant of Matches: any answer is taken for the zone's.
AnyAnswer(z) == RelayedAnswer(z) # Refused

\* The first SOA the recursor answers with is all that the authoritative
\* server answers with.
Matches(z) ==
  LET found == Soas(RelayedAnswer(z), z) IN
  found # <<>> /\ <<Head(found)>> = Soas(AuthAnswer(z), z)

\* The authoritative server is asked only if the recursor knows an SOA.
AskedBoth(z) ==
  /\ relayed' = [relayed EXCEPT ![z] = RelayedAnswer(z)]
  /\ cached' = [cached EXCEPT ![z] = AuthAnswer(z)]

\* probe_recursor_zone.  An answer that does not come, or comes as SERVFAIL,
\* may have left its traces.
Probe ==
  /\ pc = "probe"
  /\ \E z \in todo :
       /\ todo' = todo \ {z}
       /\ \/ /\ IF Soas(RelayedAnswer(z), z) # <<>> THEN AskedBoth(z) ELSE Asked(z)
             /\ unanswered' = IF Matches(z) THEN unanswered ELSE unanswered \cup {z}
             /\ UNCHANGED silent
          \/ /\ Asked(z) \/ UNCHANGED caches
             /\ unanswered' = unanswered \cup {z} /\ silent' = TRUE
  /\ UNCHANGED <<file, pending, pc, checked, server, configured, forwarded, outcome, edits,
                 edited, warned>>

\* Exit status 3 if any probe failed, whichever the zone.
Conclude ==
  /\ pc = "probe" /\ todo = {}
  /\ Exit(IF unanswered = {} THEN "ok" ELSE "unverified")
  /\ UNCHANGED <<file, pending, checked, server, caches, configured, forwarded, edits, edited,
                 warned, silent>>

Run ==
  Activate \/ Check \/ Reload \/ Rediscover \/ Purge \/ ReloadZones \/ Wipe
  \/ FindDig \/ Probe \/ Conclude

Next ==
  \/ Run \/ GiveUp
  \/ Edit \/ AddForward \/ Restart \/ RefreshZones
  \/ \E z \in Zone : Client(z)

Spec == Init /\ [][Next]_vars

-----------------------------------------------------------------------------
(* Properties.                                                              *)

\* A file with a finding that blocks the reload is not served, unless it was
\* written between the check and the reload, or the server was restarted.
NothingBlockedIsServed == unchecked \/ Accepted(loaded)

\* Exit status 0 after the probes means that clients get what the file says,
\* of either server and from either cache, and go on to get it: no REFUSED
\* for a new zone and no old record is left, whatever was asked between two
\* of the commands; unless a purge or a wipe failed, which is only warned of.
OkMeansServed ==
  (outcome = "ok" /\ ~warned) =>
    /\ loaded = file
    /\ \A z \in Apexes(file) :
         /\ AuthAnswer(z) = Content(file, z)
         /\ RelayedAnswer(z) = Content(file, z)

\* Exit status 3 tells the operator to add zones to the recursor's
\* configuration, so it must not come from an answer that a client left in a
\* cache between two of the commands (the comment on rediscover): unless dig
\* or an answer was missing, or a cache not emptied, some zone of the file is
\* not configured, or has no SOA, or more than the one a probe can compare.
FailureIsTheConfiguration ==
  (outcome = "unverified" /\ ~warned /\ ~silent) =>
    \E z \in Apexes(file) :
      z \notin forwarded \/ ~OnlySoa(Soas(Content(file, z), z))

=============================================================================
