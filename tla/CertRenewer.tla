----------------------------- MODULE CertRenewer ----------------------------
(***************************************************************************)
(* scripts/cert-renewer and those who run it: the daily certbot unit,      *)
(* ensure_cert of app/catalog_register.py (for the catalog-heal unit and   *)
(* for catalog-register) and operators.  A run reads the list of domains   *)
(* and has certbot renew or create each certificate in turn; under set -e  *)
(* the first failure ends it, and an EXIT trap hands the keys to nginx's   *)
(* group.  Nothing but certbot's own lock keeps runs apart.  A run can be  *)
(* stopped (the trap still runs) or killed, as ensure_cert's timeout does  *)
(* (it does not, and certbot goes on alone).                               *)
(*                                                                         *)
(* The service group exists and the operators are in it (setup-service     *)
(* sees to both), so the chgrp does not fail; nginx's master is running,   *)
(* so a HUP reaches it; --dry-run changes nothing and is left out.         *)
(***************************************************************************)
EXTENDS Integers, Sequences

CONSTANTS
  Domain,
  Configured,  \* the domains of nginx's configuration
  Runner,      \* who can run the script
  Unit,        \* home-warden-certbot.service
  Heal,        \* home-warden-catalog-heal.service
  Nobody,      \* no domain, and no owner
  Listed,      \* the lists conf/certbot-domains may hold at first
  MaxRuns,     \* bound on the runs beside the certbot unit's
  MaxFaults,   \* bound on refusals of Let's Encrypt, Cloudflare and sudo, on
               \* timeouts, stops and kills
  MaxExpiries  \* bound on the certificates that come near their end

ASSUME NamesAssumption ==
  /\ Unit \in Runner /\ Heal \in Runner /\ Unit # Heal
  /\ Nobody \notin Runner \cup Domain
  /\ Configured \subseteq Domain
  /\ Listed \subseteq Seq(Domain)

VARIABLES
  certbot_domains, \* the primary clone's list
  worktree,        \* the list of a linked worktree, until link-runtime-conf replaces it
  linked,          \* whether it has been replaced
  live,            \* domains with a certificate under live/
  archive,         \* domains with a directory under archive/
  renewal_conf,    \* renewal/<domain>.conf
  shared,          \* domains whose key nginx's group can read
  due,             \* domains in need of a new certificate
  current,         \* configured domains whose certificate nginx has loaded
  certbot,         \* the certbot process, if there is one: it holds certbot's lock
  pc,              \* where each runner is
  todo,            \* the domains its loop has not reached
  want,            \* the domain it was asked for, if ensure_cert runs it
  result,          \* the status ensure_cert last returned
  runs, faults, expiries, \* counted against their bounds
  tended,          \* history: the domains certbot returned 0 for in this run
  alone,           \* history: the run nobody has overlapped
  late,            \* history: runs whose domain somebody else listed after they read the list
  overtaken,       \* history: runs moving a lineage aside that was completed meanwhile
  abandoned        \* history: domains whose key a killed run or a certbot of its own left behind

lists == <<certbot_domains, worktree, linked>>
certs == <<live, archive, renewal_conf, shared, due>>
run == <<todo, want, tended>>
counters == <<runs, faults, expiries>>
overlaps == <<alone, late, overtaken>>
vars == <<lists, certs, current, certbot, pc, run, result, counters, overlaps, abandoned>>

Elements(s) == {s[i] : i \in 1..Len(s)}

Goto(r, label) == pc' = [pc EXCEPT ![r] = label]

\* The script between its trap and its last use of it.
Clearing == {"clear_live", "clear_archive", "clear_conf"}
Trapped == {"loop", "wait", "fail"} \cup Clearing

\* Operators work in a linked worktree, the units in the primary clone.
InWorktree(r) == r \notin {Unit, Heal} /\ ~linked

\* read_domains and load_domains.
DomainsFile(r) == IF InWorktree(r) THEN worktree ELSE certbot_domains

\* catalog-heal goes on with its pass, unless it was stopped.
Rest(r) ==
  IF r # Heal THEN "idle" ELSE IF want[r] = Nobody THEN "stopped" ELSE "pass"

-----------------------------------------------------------------------------
(* The callers.                                                             *)

\* The daily timer.
TimerFires ==
  /\ pc[Unit] = "idle"
  /\ Goto(Unit, "load")
  /\ UNCHANGED <<lists, certs, current, certbot, run, result, counters, overlaps, abandoned>>

\* The script run by hand.
ByHand(r) ==
  /\ r \notin {Unit, Heal} /\ pc[r] = "idle" /\ runs < MaxRuns
  /\ runs' = runs + 1
  /\ Goto(r, "load")
  /\ UNCHANGED <<lists, certs, current, certbot, run, result, faults, expiries, overlaps, abandoned>>

\* ensure_cert reads the list.
EnsureCert(r, d) ==
  /\ r # Unit /\ pc[r] \in {"idle", "pass"} /\ runs < MaxRuns
  /\ runs' = runs + 1
  /\ want' = [want EXCEPT ![r] = d]
  /\ Goto(r, IF d \in Elements(DomainsFile(r)) THEN "load" ELSE "append")
  /\ UNCHANGED <<lists, certs, current, certbot, todo, tended, result, faults, expiries, overlaps, abandoned>>

\* append_domain, which follows the link.
AppendDomain(r) ==
  /\ pc[r] = "append"
  /\ IF InWorktree(r)
     THEN worktree' = Append(worktree, want[r]) /\ UNCHANGED certbot_domains
     ELSE certbot_domains' = Append(certbot_domains, want[r]) /\ UNCHANGED worktree
  /\ late' = late \cup {q \in Runner \ {r} : want[q] = want[r] /\ pc[q] # "append"}
  /\ Goto(r, "load")
  /\ UNCHANGED <<linked, certs, current, certbot, run, result, counters, alone, overtaken, abandoned>>

\* Mutant of Status: the spelling of CheckResult.
StatusOfACheck(r, ok) == IF ok THEN "applied" ELSE "fail"

\* RegisterStepResult.status.
Status(r, ok) == IF ok THEN "applied" ELSE "failed"

\* The script has ended.
Quit(r) ==
  /\ Goto(r, Rest(r))
  /\ todo' = [todo EXCEPT ![r] = <<>>]
  /\ want' = [want EXCEPT ![r] = Nobody]
  /\ tended' = [tended EXCEPT ![r] = {}]
  /\ alone' = alone \ {r} /\ late' = late \ {r} /\ overtaken' = overtaken \ {r}

\* And so does ensure_cert, if it ran the script.
Return(r, ok) ==
  /\ result' = IF want[r] = Nobody THEN result ELSE Status(r, ok)
  /\ Quit(r)

\* Mutant of Survived: an exit status of 0 is taken for proof.
SurvivedSurely(r) == TRUE

\* The check of line 190: the domain is still listed.
Survived(r) == want[r] \in Elements(DomainsFile(r))

Verify(r) ==
  /\ pc[r] = "verify"
  /\ Return(r, Survived(r))
  /\ UNCHANGED <<lists, certs, current, certbot, counters, abandoned>>

-----------------------------------------------------------------------------
(* cert-renewer.                                                            *)

\* link-runtime-conf replaces the worktree's list with a link to the primary
\* clone's, if that has one.
Relinks(r) == InWorktree(r) /\ certbot_domains # <<>>

\* load_domains after it, and the trap.
LoadDomains(r) ==
  /\ pc[r] = "load"
  /\ linked' = (linked \/ Relinks(r))
  /\ LET domains == IF Relinks(r) THEN certbot_domains ELSE DomainsFile(r) IN
     IF domains = <<>>
     THEN Return(r, FALSE)
     ELSE /\ Goto(r, "loop")
          /\ todo' = [todo EXCEPT ![r] = domains]
          /\ alone' = IF certbot = {} /\ \A q \in Runner \ {r} : pc[q] \notin Trapped
                      THEN {r} ELSE {}
          /\ late' = late \ {r}
          /\ UNCHANGED <<want, tended, result, overtaken>>
  /\ UNCHANGED <<certbot_domains, worktree, certs, current, certbot, counters, abandoned>>

\* Mutants of Known: an empty conf passes for a lineage; a certificate near
\* its end does not.
KnownByName(d) == renewal_conf[d] # "none" /\ d \in live
KnownUntilDue(d) == renewal_conf[d] = "full" /\ d \in live /\ d \notin due

\* Line 211: certbot knows the lineage.
Known(d) == renewal_conf[d] = "full" /\ d \in live

\* Line 229: there is something of it.
Incomplete(d) == d \in live \/ d \in archive \/ renewal_conf[d] # "none"

\* run_certbot: without the lock certbot exits at once.
RunCertbot(r, verb) ==
  IF certbot = {}
  THEN /\ certbot' = {[domain |-> Head(todo[r]), verb |-> verb, stage |-> "asks", owner |-> r]}
       /\ Goto(r, "wait")
  ELSE Goto(r, "fail") /\ UNCHANGED certbot

\* The loop tests the next domain.
NextDomain(r) ==
  /\ pc[r] = "loop" /\ todo[r] # <<>>
  /\ LET d == Head(todo[r]) IN
     IF Known(d) THEN RunCertbot(r, "renew")
     ELSE IF Incomplete(d) THEN Goto(r, "clear_live") /\ UNCHANGED certbot
     ELSE RunCertbot(r, "certonly")
  /\ UNCHANGED <<lists, certs, current, run, result, counters, overlaps, abandoned>>

\* The three mv, each if there is something to move.
MoveAside(r) ==
  /\ LET d == Head(todo[r]) IN
     \/ /\ pc[r] = "clear_live" /\ Goto(r, "clear_archive")
        /\ live' = live \ {d}
        /\ due' = due \cup {d}
        /\ current' = IF d \in live THEN current \ {d} ELSE current
        /\ UNCHANGED <<archive, renewal_conf, certbot, overtaken>>
     \/ /\ pc[r] = "clear_archive" /\ Goto(r, "clear_conf")
        /\ archive' = archive \ {d}
        /\ UNCHANGED <<live, renewal_conf, due, current, certbot, overtaken>>
     \/ /\ pc[r] = "clear_conf" /\ RunCertbot(r, "certonly")
        /\ renewal_conf' = [renewal_conf EXCEPT ![d] = "none"]
        /\ overtaken' = overtaken \ {r}
        /\ UNCHANGED <<live, archive, due, current>>
  /\ UNCHANGED <<lists, shared, run, result, counters, alone, late, abandoned>>

-----------------------------------------------------------------------------
(* certbot (external): --cert-name of a lineage it knows renews it when it  *)
(* is due; a new lineage is an empty conf, then the files, then the conf.   *)

\* A lineage certbot can use.
Intact(d) == renewal_conf[d] = "full" /\ d \in live

\* Mutant of ExitStatus: a failure is not passed on.
ExitStatusDropped(ok) == TRUE

\* The status run_certbot returns.
ExitStatus(ok) == ok

\* Under set -e only a success takes the loop further.
CertbotExits(b, ok) ==
  LET goesOn == ExitStatus(ok) IN
  /\ certbot' = {}
  /\ pc' = [r \in Runner |-> IF r # b.owner THEN pc[r] ELSE IF goesOn THEN "loop" ELSE "fail"]
  /\ todo' = [r \in Runner |-> IF r = b.owner /\ goesOn THEN Tail(todo[r]) ELSE todo[r]]
  /\ tended' = [r \in Runner |->
       IF r = b.owner /\ goesOn THEN tended[r] \cup {b.domain} ELSE tended[r]]
  /\ UNCHANGED <<lists, want, result, runs, expiries, alone, late>>

\* Let's Encrypt or Cloudflare refuses.
CertbotFails(b) ==
  /\ b.stage = "asks" /\ faults < MaxFaults
  /\ faults' = faults + 1
  /\ CertbotExits(b, FALSE)
  /\ UNCHANGED <<certs, current, overtaken, abandoned>>

\* A new certificate, after which the group can read keys.
Issue(b, keys) ==
  /\ live' = live \cup {b.domain}
  /\ archive' = archive \cup {b.domain}
  /\ due' = due \ {b.domain}
  /\ shared' = keys
  /\ current' = current \ {b.domain}
  /\ abandoned' = IF b.owner = Nobody /\ b.domain \notin keys
                  THEN abandoned \cup {b.domain} ELSE abandoned

\* A renewed key has the modes of the last one, or is the operator's alone.
CertbotRenews(b) ==
  /\ b.stage = "asks" /\ Intact(b.domain)
  /\ IF b.domain \in due
     THEN \E keys \in {shared, shared \ {b.domain}} : Issue(b, keys)
     ELSE UNCHANGED <<live, archive, due, shared, current, abandoned>>
  /\ CertbotExits(b, TRUE)
  /\ UNCHANGED <<renewal_conf, faults, overtaken>>

\* There is no such lineage to renew, or one in the way.
CertbotRefuses(b) ==
  /\ b.stage = "asks" /\ ~Intact(b.domain)
  /\ b.verb = "renew" \/ Incomplete(b.domain)
  /\ CertbotExits(b, FALSE)
  /\ UNCHANGED <<certs, current, faults, overtaken, abandoned>>

CertbotClaims(b) ==
  /\ b.stage = "asks" /\ b.verb = "certonly" /\ ~Incomplete(b.domain)
  /\ renewal_conf' = [renewal_conf EXCEPT ![b.domain] = "empty"]
  /\ certbot' = {[b EXCEPT !.stage = "claimed"]}
  /\ UNCHANGED <<lists, live, archive, shared, due, current, pc, run, result, counters, overlaps, abandoned>>

CertbotStores(b) ==
  /\ b.stage = "claimed"
  /\ Issue(b, shared \ {b.domain})
  /\ certbot' = {[b EXCEPT !.stage = "stored"]}
  /\ UNCHANGED <<lists, renewal_conf, pc, run, result, counters, overlaps>>

\* It fails if the files it stored have been moved meanwhile.
CertbotWritesConf(b) ==
  /\ b.stage = "stored"
  /\ renewal_conf' = [renewal_conf EXCEPT ![b.domain] = "full"]
  /\ overtaken' = overtaken \cup
       {q \in Runner : pc[q] \in Clearing /\ Head(todo[q]) = b.domain}
  /\ CertbotExits(b, b.domain \in live)
  /\ UNCHANGED <<live, archive, shared, due, current, faults, abandoned>>

CertbotStep ==
  \E b \in certbot :
    \/ CertbotFails(b)
    \/ CertbotRenews(b)
    \/ CertbotRefuses(b)
    \/ CertbotClaims(b)
    \/ CertbotStores(b)
    \/ CertbotWritesConf(b)

-----------------------------------------------------------------------------
(* The end of a run.                                                        *)

\* Mutant of ShareKeys: not from the trap.
ShareKeysAtTheEnd(r) ==
  IF pc[r] = "fail" THEN UNCHANGED <<shared, abandoned>>
  ELSE shared' = shared \cup live \cup archive /\ abandoned' = {}

\* fix_cert_permissions.
ShareKeys(r) == shared' = shared \cup live \cup archive /\ abandoned' = {}

\* The EXIT trap of a run that failed or was stopped.
Fail(r) ==
  /\ pc[r] = "fail"
  /\ ShareKeys(r)
  /\ Return(r, FALSE)
  /\ UNCHANGED <<lists, live, archive, renewal_conf, due, current, certbot, counters>>

\* HOME_WARDEN_RELOAD=0 in the units; the certbot unit has ExecStartPost.
Finish(r) ==
  /\ pc[r] = "loop" /\ todo[r] = <<>>
  /\ ShareKeys(r)
  /\ Goto(r, IF r = Heal THEN "verify" ELSE "reload")
  /\ UNCHANGED <<lists, live, archive, renewal_conf, due, current, certbot, run, result, counters, overlaps>>

\* The master loads the configuration with all its files, or keeps what it has.
Hup == current' = IF Configured \subseteq live \cap shared THEN Configured ELSE current

Reload(r) ==
  /\ pc[r] = "reload"
  /\ Hup
  /\ IF want[r] = Nobody THEN Quit(r) ELSE Goto(r, "verify") /\ UNCHANGED <<run, overlaps>>
  /\ UNCHANGED <<lists, certs, certbot, result, counters, abandoned>>

\* It is interrupted, or sudo asks for a password: neither reload nor restart.
ReloadFails(r) ==
  /\ pc[r] = "reload" /\ faults < MaxFaults
  /\ faults' = faults + 1
  /\ Return(r, FALSE)
  /\ UNCHANGED <<lists, certs, current, certbot, runs, expiries, abandoned>>

\* A pass of catalog-heal ends, which may have asked for nothing: ExecStopPost.
HealEnds ==
  /\ pc[Heal] \in {"idle", "pass", "stopped"}
  /\ Hup
  /\ Goto(Heal, "idle")
  /\ UNCHANGED <<lists, certs, certbot, run, result, counters, overlaps, abandoned>>

-----------------------------------------------------------------------------

\* CERTBOT_TIMEOUT_SEC: timeout kills certbot wherever it is.
CertbotTimesOut ==
  \E b \in certbot :
    /\ faults < MaxFaults /\ faults' = faults + 1
    /\ certbot' = {}
    /\ pc' = [r \in Runner |-> IF r = b.owner THEN "fail" ELSE pc[r]]
    /\ UNCHANGED <<lists, certs, current, run, result, runs, expiries, overlaps, abandoned>>

\* systemctl stop, TimeoutStartSec or ^C: certbot and the caller die with the
\* script, whose trap runs.
Stop(r) ==
  /\ pc[r] \in Trapped \ {"fail"} /\ faults < MaxFaults
  /\ faults' = faults + 1
  /\ certbot' = {b \in certbot : b.owner # r}
  /\ want' = [want EXCEPT ![r] = Nobody]
  /\ Goto(r, "fail")
  /\ UNCHANGED <<lists, certs, current, todo, tended, result, runs, expiries, overlaps, abandoned>>

\* SIGKILL, from ensure_cert's timeout: the trap does not run and certbot
\* goes on, except in the certbot unit, where systemd kills the rest too.
Kill(r) ==
  /\ pc[r] \in Trapped /\ faults < MaxFaults
  /\ faults' = faults + 1
  /\ certbot' = {IF b.owner = r THEN [b EXCEPT !.owner = Nobody] ELSE b :
                   b \in {c \in certbot : c.owner # Unit \/ r # Unit}}
  /\ abandoned' = IF \E q \in Runner \ {r} : pc[q] \in Trapped THEN abandoned
                  ELSE abandoned \cup ((live \cup archive) \ shared)
  /\ Return(r, FALSE)
  /\ UNCHANGED <<lists, certs, current, runs, expiries>>

\* A certificate comes near its end.
Expire(d) ==
  /\ d \in live \ due /\ expiries < MaxExpiries
  /\ expiries' = expiries + 1
  /\ due' = due \cup {d}
  /\ UNCHANGED <<lists, live, archive, renewal_conf, shared, current, certbot, pc, run, result, runs, faults, overlaps, abandoned>>

\* nginx runs.  A domain has a lineage, files that bootstrap staged or that
\* were copied from another host, or nothing.
Init ==
  /\ certbot_domains \in Listed /\ worktree = <<>> /\ linked = FALSE
  /\ live \in SUBSET Domain /\ archive \in SUBSET live
  /\ renewal_conf \in [Domain -> {"none", "full"}]
  /\ \A d \in Domain : renewal_conf[d] = "full" => d \in archive
  /\ shared = live
  /\ due = {d \in Domain : ~Intact(d)}
  /\ Configured \subseteq live /\ current = Configured
  /\ certbot = {}
  /\ pc = [r \in Runner |-> "idle"]
  /\ todo = [r \in Runner |-> <<>>]
  /\ want = [r \in Runner |-> Nobody]
  /\ result = "none"
  /\ tended = [r \in Runner |-> {}]
  /\ runs = 0 /\ faults = 0 /\ expiries = 0
  /\ alone = {} /\ late = {} /\ overtaken = {} /\ abandoned = {}

Step(r) ==
  \/ AppendDomain(r)
  \/ LoadDomains(r)
  \/ NextDomain(r)
  \/ MoveAside(r)
  \/ Fail(r)
  \/ Finish(r)
  \/ Reload(r)
  \/ Verify(r)

Next ==
  \/ TimerFires \/ HealEnds
  \/ \E r \in Runner :
       \/ Step(r)
       \/ ByHand(r)
       \/ \E d \in Domain : EnsureCert(r, d)
       \/ ReloadFails(r)
       \/ Stop(r)
       \/ Kill(r)
  \/ CertbotStep
  \/ CertbotTimesOut
  \/ \E d \in Domain : Expire(d)

Spec == Init /\ [][Next]_vars

\* The timer is persistent, every process takes its next step, and certbot,
\* which has a timeout, ends.
FairSpec ==
  /\ Spec
  /\ WF_vars(TimerFires) /\ WF_vars(pc[Heal] # "idle" /\ HealEnds) /\ WF_vars(CertbotStep)
  /\ \A r \in Runner : WF_vars(Step(r))

-----------------------------------------------------------------------------
(* Properties.                                                              *)

(* Every variable keeps its type; ensure_cert's callers know the statuses.  *)
TypeOK ==
  /\ certbot_domains \in Seq(Domain) /\ worktree \in Seq(Domain) /\ linked \in BOOLEAN
  /\ live \subseteq Domain /\ archive \subseteq Domain
  /\ shared \subseteq Domain /\ due \subseteq Domain /\ current \subseteq Configured
  /\ renewal_conf \in [Domain -> {"none", "empty", "full"}]
  /\ certbot \subseteq [domain: Domain, verb: {"renew", "certonly"},
                        stage: {"asks", "claimed", "stored"}, owner: Runner \cup {Nobody}]
  /\ \A b, c \in certbot : b = c
  /\ pc \in [Runner -> {"idle", "pass", "stopped", "append", "load", "reload", "verify"} \cup Trapped]
  /\ todo \in [Runner -> Seq(Domain)]
  /\ want \in [Runner -> Domain \cup {Nobody}]
  /\ result \in {"none", "applied", "failed"}
  /\ tended \in [Runner -> SUBSET Domain]
  /\ alone \subseteq Runner /\ late \subseteq Runner /\ overtaken \subseteq Runner
  /\ abandoned \subseteq Domain
  /\ runs \in Nat /\ faults \in Nat /\ expiries \in Nat

(* A key that nginx's group cannot read belongs to a run that will share it *)
(* (line 203's trap, whatever fails), unless a killed run left it behind.   *)
KeysGetShared ==
  \A d \in (live \cup archive) \ shared :
    d \in abandoned \/ \E r \in Runner : pc[r] \in Trapped

(* A lineage in use is never moved aside, unless another run completed it   *)
(* between this one's test and its mv.                                      *)
IntactStaysInPlace ==
  [][\A d \in Domain : Intact(d) /\ ~Intact(d)' =>
       \E r \in overtaken : pc[r] \in Clearing /\ Head(todo[r]) = d]_vars

(* ensure_cert says "applied" only of a domain certbot returned 0 for in    *)
(* its run, unless somebody else listed it meanwhile.                       *)
AppliedMeansTended ==
  [][\A r \in Runner : pc[r] = "verify" /\ pc'[r] # "verify" /\ result' = "applied" =>
       want[r] \in tended[r] \/ r \in late]_vars

(* "reloads nginx after a successful renew": after a run that nobody        *)
(* overlapped and that tended every configured domain, nginx has loaded     *)
(* the certificates in place.                                               *)
ServedAfterSuccess ==
  [][\A r \in alone : pc[r] = "reload" /\ pc'[r] # "reload" /\ faults' = faults
                      /\ Configured \subseteq tended[r] =>
       current' = Configured]_vars

(* Whatever lineages failures and kills left behind, a listed domain in     *)
(* need of a certificate gets one that nginx serves, once certbot stops     *)
(* failing.                                                                 *)
EveryCertIsRenewed ==
  \A d \in Domain :
    d \in due /\ d \in Elements(certbot_domains) ~> d \notin due /\ (d \in Configured => d \in current)

=============================================================================
