# home-warden in TLA+

A verification development for home-warden: models of the parts of the
program whose correctness depends on *when* things happen, checked with TLC on
small instances and, for their safety properties, proved with TLAPS for every
value of the constants.

home-warden is a set of programs that share one host and a few files.  A
catalog (`services.json`) lists the services the host fronts; a web
application, a dozen command-line tools and some systemd timers render it,
check it, repair what drifted from it, and mail an operator.  There is no
database and hardly a lock: the programs meet in files that each of them reads,
edits in memory and replaces.  What is hard about them is therefore always the
same: two of them at once, one killed in the middle, a stale read, a lost
answer.

## 1. Inventory

`PROJECT.json` lists every component with its sources.  This is what they keep
and how they meet.

| component | state | operations | what is hard | what makes it correct |
|---|---|---|---|---|
| catalog heal (`catalog_heal.py`) | one JSON file: attempts per check, alert per check | a pass: check, repair, mail, save once at its end | timer and operators at once, no lock; killed passes; one reading of the clock per pass | attempts stay inside cooldown and cap; inbox and file agree; reminders come on time |
| catalog CRUD (`catalog_crud.py`, its routes) | `services.json`; one preview directory under a flock | create, update, delete, preview | threads; load and replace are not one step; shared preview | unique identifiers; only what nginx -t accepted; atomic edits; every request answered |
| SMTP settings (`smtp_config.py`, `smtp_routes.py`) | the `[smtp]` table of `config.toml`, beside `fqdn` | save, delete, test mail | two reads per save, rewriting in place, no lock | other keys kept; a password stays with its relay; a malformed file is not overwritten |
| healthcheck (`scripts/healthcheck`) | one JSON file: status, last alert | a run: probe, read, mail, write | run by hand beside the timer; `set -e`; kills between mail and write | every silence had its mail; lasting failures and recoveries are reported |
| external DNS (`sync_dns_record`, `catalog_dns_sync_cli.py`, `dns_cutover.py`) | the records at Cloudflare, snapshot files | sync, restore | lost answers, a POST that is not idempotent, others at the dashboard, killed runs | no record twice; exit status 0 means done; a sync can be undone |
| registration and certificates (`catalog_register.py`, `cert-renewer`) | the domain list, certbot's lineages, the keys' group | register, renew, move an incomplete lineage aside, hand keys over, reload | three callers and no lock, two nested timeouts, a loop under `set -e`, kills at any line | keys reach nginx; lineages in use stay; "applied" is deserved; every listed domain is renewed in the end |
| login and sessions (`home_warden_auth.py`, `login_rate_limit.py`, `auth_routes.py`, `serve.py`) | the session secret's file; in memory a counter per source | log in, start and end of a process | attempts overlap in PAM; two processes create the secret at once; a start that dies halfway; entries that are evicted | backoff is never cut short; a restart logs nobody out |
| nginx reload (`nginx-test-and-reload`, path unit) | nginx's running configuration | test, reload | files change between test and reload; coalesced events | nginx runs what was tested |
| PowerDNS reload (`pdns-test-and-reload`, path unit) | what the authoritative server loaded, its zone and packet caches; the recursor's zones and cache | check, reload, rediscover, purge, reload-zones, wipe, probe | order; clients that ask between two commands; edits after the check; commands that fail | success means that clients get the file; failure means what it tells the operator |
| DNS zone tools (`dns_tinydns_convert.py`, `dns_zones_lint.py`, their CLIs) | `dns/data`, `zones.yml` | convert, lint, edit by hand | nested zones, spellings, partial conversion | nothing is lost in silence; the gate accepts the result; a clean file is answered |
| client PKI (`client-pki`, `client-pki-store`, `client-pki-devices`) | a CA, its index and CRL, device certificates, backups | enroll, rotate, create, revoke, renew the CRL, back up, restore | two locks, and commands that take one, both or none; a check and what it allows are two calls; a restore that found the store empty a while ago | no device is cut off; the hints name every older certificate; a backup is whole; nothing is forgotten |
| deployment (`on-deploy`, `setup-service`, ...) | the deployed revision, units | deploy, set up | the revision is recorded before the restart | a failed restart is retried |
| renderer, read-only views, cutover assessment, web UI client, host guard | none of their own | conversions, comparisons, pages | nothing concurrent | conversions are faithful |

How they interact: catalog heal and catalog register call `sync_dns_record`
and `ensure_cert`; the CRUD routes render through `catalog_render.py` with the
`fqdn` that the SMTP settings share a file with; the nginx path unit reacts to
rendered files, the PowerDNS one to `zones.yml`, which the converter writes and
the lint guards; timers start heal, healthcheck, certbot and the CRL renewal.

## 2. Modules

| module | models | abstract specification | proofs |
|---|---|---|---|
| `CatalogHeal` | passes of catalog heal | `HealBudget` | `CatalogHeal_proofs` |
| `CatalogEdits` | the pure half of `catalog_crud.py` | | `CatalogCrud_proofs` |
| `CatalogCrud` (extends `CatalogEdits`) | requests of the catalog routes | `AtomicCatalog` | `CatalogCrud_proofs` |
| `SmtpConfig` | requests of the SMTP routes | | `SmtpConfig_proofs` |
| `Healthcheck` | runs of `scripts/healthcheck` | | `HostScripts_proofs` |
| `DnsCutover` | syncs, snapshots and restores of DNS records | | `DnsCutover_proofs` |
| `CertRenewer` | runs of `cert-renewer`, its callers and certbot | | `CertRenewer_proofs` |
| `LoginRateLimit` | the methods of `LoginRateLimiter`, on tables | | `WebUi_proofs` |
| `WebUi` (extends `LoginRateLimit`) | processes of the web UI, their secret and logins | | `WebUi_proofs` |
| `ZoneFiles` | the lint of `zones.yml` and the reload gate | | `Zones_proofs` |
| `DnsZones` (extends `ZoneFiles`) | the conversion from tinydns, edits by hand | | `Zones_proofs` |
| `PdnsReload` (extends `ZoneFiles`) | the reload unit, both servers and their caches | | `Zones_proofs` |
| `ClientPki` | commands over the client CA's store, backups, restores | | `HostScripts_proofs` |

Each `MC...` module gives the constants of its component values for TLC.
Some modules hold, directly above a definition, a variant of it with a
plausible bug (`... Mutant of Blocked: ...`).  Nothing uses the variants; they
record which mistake each property is there to find, and every property of
every passing run was seen to fail under one of them.

### History variables and excuses

The programs take no locks, so several properties cannot hold without an
excuse, and the excuse is part of the statement.  Each module keeps history
variables that no guard reads and that say exactly which interleaving is
excused; `stale`, `late`, `lost`, `touched` mark the item that was concerned,
never the whole system where that can be avoided.  A property then says that
*nothing else* can break the promise.  A hazard that an excuse takes
out is listed in `PROJECT.json` with a note and without that property.  For two
sentences of the repository that promise something without an excuse a run of
its own shows the counterexample (section 4).

### CatalogHeal

`stateFile` is the JSON file, `state[r]` the copy a pass edits, `now[r]` its
one reading of the clock.  `Begin` is `heal_catalog` up to its loop;
`Report`, `BeginAttempt` and `FinishAttempt` are `_heal_one` (with
`_heal_cert` and `_heal_dns` in between, whose outcome is arbitrary);
`EndHealing` is the end of a dry run or the switch to the alerts;
`MaybeAlert` is `_maybe_alert` for one result; what it stamps (`Stamped`) does
not depend on what became of the mail: `_send_alert` returns without sending
when there is no recipient or no ready relay, swallows a `send_email` that
raises, and tells its caller nothing of either, so `SendAlert` leaves it open
whether the mail arrived.  `mails` is the history of all of them, with the
kind, the start of the pass and the fate of each.  `Save` is `_save_state`;
`Kill` is systemd's timeout, ^C or a reboot, also between two mails.  The clock ticks at any time, but never
leaves a pass of the timer running longer than `RunLimit`.  What `run_all`
finds is arbitrary and drawn where it is used.  Actions are reduced to what
`_maybe_alert` tells apart, alert-worthy or not.

* `BudgetKept`: the attempts really made (`ledger`, not the file) respect cap
  and window.
* `ImplementsHealBudget`: the passes implement `HealBudget`, which has no
  files and no passes, only a ledger and the rule for charging it.
* `InboxMatchesFile`: the last mail about a check agrees with the file, if it
  arrived.  If it was swallowed they differ, for a call for attention until
  `Resend` is over, and for good for a recovery, which nothing repeats.
* `RemindersOnTime`: over all the mails of all passes, no call for attention
  comes within `Resend` of the one before it unless a recovery is between
  them, no recovery comes that answers no call; and a pass that saves a check
  as bad leaves a call, by whichever pass, less than `Resend` older than
  itself.  The calls are those `_send_alert` was asked for: one that was
  swallowed is therefore tried again after `Resend`, and not before.

Excused in all four are checks in `lost` or `lostAlert`: an entry that was
overwritten, killed with its pass, or changed unseen by a pass that then
decided on its own copy.

### CatalogEdits and CatalogCrud

`CatalogEdits` says what one edit makes of a catalog and when it is refused.
An entry is its name, its second identifier (server name or listen port) and a
body for all the other fields; `Keep` and `Null` are fields a payload omits or
clears.  In `CatalogCrud` a request goes through `Load`, `Build`, `Render`,
`Acquire`, `WriteConf`, `NginxTest`, `Lint` and `Persist`, with its refusals
(400, 404, 409, 500) where the code has them.  A rendered text stands for what
it was rendered from, so that it can be told whose text was tested.  `Crash`
is a restart of the server; `SetFqdn` is an operator's edit of `config.toml`,
which every rendering reads again.  The verdict of nginx is arbitrary.

* `UniqueIdentifiers`, `NeverWedged`: the file in place has no clash, and
  renders (a catalog that does not render would block the very edit that
  repairs it, for the diff renders it first).
* `OnlyTestedIsPersisted`: not another request's text, though all share one
  preview directory.
* `ImplementsAtomicCatalog`: atomic accepted edits, but for `Overlap` steps.
* `EveryRequestEnds`: liveness; the flock has no timeout.

`FairSpec` assumes weak fairness of each request's next step (a thread that
can run does; nginx -t and gixy run under timeouts) and strong fairness of
`Acquire` (the kernel wakes the waiters of a flock in turn).  Crashes and new
requests need no fairness.  `CertRenewer` has a fair specification too; the
others state safety only and assume none.

### SmtpConfig

`file` is `config.toml`: the `fqdn` key and the `[smtp]` table, or `Malformed`.
A save is `Arrive`, `ResolveSave` (`_resolve_save_password`, the first read),
`Read` (`_read_toml_dict_for_write`, the second), `Open` (`O_TRUNC`) and
`Write`.  `NoConfig` is both a missing file and one that is cut down to no
bytes, for the readers do not tell them apart.  A write on top of another
request's text, or one that comes up short, may leave a file that does not
parse.

* `OtherKeysKept`: saves and deletes keep `fqdn`.
* `PasswordOfItsRelay`: no password is stored for, or sent to, a relay it was
  not given for.
* `MalformedIsKept`: a file that does not parse is never overwritten.

`disturbed` (a request went on with a read that was stale) and `cut` (a write
ended early) are the excuses.

### Healthcheck

`Begin`, `Probe`, `ReadState`, `SendMail`, `WriteState` are the script's
steps; `Fail` is what `set -e` makes of a failed mail or write; `Kill` is the
unit's timeout, ^C or a reboot; `Flip` is the service going down or coming
back.  Time is counted in periods of the timer.  `Tick` waits until the timer
has fired and its run is over or within `RunLimit`, as systemd does, so that
bounded reporting times can be stated as invariants.  The model assumes a
designated host with `HEALTHCHECK_EMAIL_TO` set; `--check-only` changes
nothing and is left out.

The script's header says "Exit: always 0 when run from the timer"
(`src/scripts/healthcheck:16`); `Fail` is where it does not.

* `SilenceHasItsMail`: the file silences later runs only with the stamp of a
  mail that was sent.
* `FailureIsReported`: a service that stays down is reported within
  `Resend + 2 * RunLimit` of the last disturbance, and again within each such
  interval.
* `RecoveryIsReported`: a recovery is reported within two runs, unless a mail
  or a state was lost, since nothing repeats a recovery.

### DnsCutover

`zone` holds the records of each name, by id.  A run is a sync (`file[r] = 0`)
or a restore of snapshot `file[r]`.  `BeginSync` and `BeginRestore` start it,
`TakeRecords` and `SaveSnapshot` take its snapshot, `Lookup`, `Write` and
`Confirm` are `sync_dns_record` for one name, `Finish` is the exit.  A call may
fail, be carried out without an answer, and, if it is not a POST, be sent
again.  A request that Cloudflare has not carried out when its caller gives up
on it never is.  `ByHand` is an operator at Cloudflare's dashboard.
`sync_dns_record` walks the candidate zones up to the one that holds the
records; the model has that one.  Two catalog entries with one server name
count as one.  Cloudflare keeps no TTL for a proxied record (`Automatic`);
dry runs and the report on leftovers change nothing and are left out.

* `NoRecordTwice`: no name gets two records of one content, through any number
  of lost answers and reruns.
* `SyncMovedAll`, `RollbackIsComplete`: an exit status of 0 means that every
  name is moved, or has what it had when the run that took the snapshot began.
* `EverySyncCanBeUndone`: past its snapshot, a sync has a file with what its
  names had.

Excused are names that others touched while the run lasted (`touched`,
`blurred`) and, for `NoRecordTwice`, names that were written on a lookup that
was no longer true or filled by hand (`raced`).

### CertRenewer

What is on disk is kept as sets of domains: `live`, `archive`, `shared` (keys
nginx's group can read), `due` (in need of a certificate), and `renewal_conf`,
which may be missing, empty or full; `current` are the domains whose
certificate in place nginx has loaded.  A run of the script goes through
`LoadDomains` (with `link-runtime-conf`, which may replace a worktree's list),
`NextDomain` (the test of line 211), the three `mv` of `MoveAside`, `Finish`
or, from the EXIT trap, `Fail`, and `Reload`.  Its callers are `TimerFires`
(the certbot unit), `ByHand` and `EnsureCert` with `AppendDomain` before and
`Verify` after it; `HealEnds` is the `ExecStopPost` of catalog heal.  certbot
is external and modelled from what the script relies on: one at a time by its
own lock, `renew` of a lineage it knows, `certonly` that claims an empty conf,
stores the files and fills the conf, and refuses what is half there.
`CertbotTimesOut` is `run_certbot`'s timeout, `Stop` is systemd or `^C` (the
trap runs), `Kill` is the SIGKILL of `ensure_cert`'s timeout (it does not, and
certbot lives on).  The service group exists and the chgrp works; nginx's
master runs; `--dry-run`, the contents of backups and reboots are left out.

* `KeysGetShared`: a key nginx's group cannot read belongs to a run that will
  share it, whatever fails.  Excused are the keys a killed run or its certbot
  left behind (`abandoned`): until the next run nginx's HUP keeps the old
  configuration without an error.
* `IntactStaysInPlace`: a lineage in use is never moved aside.  Excused is a
  run between its test and its `mv` when another completed the lineage
  (`overtaken`); certbot's lock does not cover the two.
* `AppliedMeansTended`: `ensure_cert` says "applied" only of a domain certbot
  returned 0 for in its run.  Excused is a domain that somebody else listed
  after the run had read the list (`late`): line 190 then finds it.
* `ServedAfterSuccess`: after a run that tended every configured domain nginx
  has loaded the certificates in place.  It is stated of a run that nobody
  overlapped (`alone`).
* `EveryCertIsRenewed`: liveness.  Whatever failures and kills left behind, a
  listed domain in need gets a certificate that nginx serves.

`FairSpec` assumes weak fairness of the timer (it is persistent), of every
process's next step, of certbot (it runs under a timeout), and that a catalog
heal pass that began ends (its unit has a timeout).  Failures, stops, kills,
requests and expiries need none; they are finitely many, which is what "once
certbot stops failing" means in the property.

### LoginRateLimit and WebUi

`LoginRateLimit` has the limiter's methods as operators from tables to tables
(each runs under the limiter's lock, so it is one step), with the doubling, its
bounded exponent and the eviction of stale entries; `Power` is a table of
powers of two, for TLAPS has no exponentiation.  `WebUi` has the processes.  A
start goes through `Read`, `Clear`, `Open` and `Write`, the system calls of
`ensure_session_secret`, up to `MaxAttempts` rounds when `O_EXCL` finds the
file taken; any call may fail.  A file is known by who made it, so that a write
to a file whose name has been removed or taken goes nowhere.  `Bind` gives the
port to one of them.  `Ask`, and then `Unavailable`, `Reject` or `Accept`, are
`POST /auth/login` around its call of PAM, in as many threads as there are
`Request`s.  `Die` loses what is in memory.

* `SessionsSurvive`: every cookie was signed with the secret of the process
  that serves now.  Excused is what happens once two starts overlapped or a
  call failed (`disturbed`): the `unlink` of a blank file may remove one that
  another process has just written, and both then use different secrets.  A
  process that merely dies, at any step, is no excuse.
* `BackoffIsServed`: no login reaches PAM before the backoff of its source is
  over, as `memory`, a table that is never swept, remembers it.
* `BurstIsBounded`: the limiter is asked before PAM and told after it; while
  the clock stands a source fails at most threshold plus threads times.

### ZoneFiles and DnsZones

A name is its sequence of labels, `Fold` the lower case of a label, an address
its octets (`Octets` of them).  A list the code builds in a loop is a
`FlattenSeq` over the positions of its input.  `ZoneFiles` has `lint_zones`
with its findings, the one of them that blocks (`Blocks`), and the gate
(`Accepted`).  An entry that is no single `type: content` mapping, which the
lint reports too, is left out of documents.
`DnsZones` has the lines of `dns/data` by type, `parse_tinydns_data`
(`Parsed`, `Raises`), `bucket_into_zones` (`ZoneOf`, `DefaultTtl`, `Survives`,
`Converted`, `BucketIssues`) and the actions of the operator: `WriteLine`,
`Convert`, `EditByHand`.

* `NothingIsLost`: every line that does not parse is reported, and every record
  of the others is in the zone that answers for its name or is reported, itself
  or the very zone it belongs to; and `zones.yml` says nothing that the data did
  not.
* `ConvertedPassesGate`: the gate accepts what the converter writes.  Excused
  is data that spells one name in two ways: the converter tells names apart by
  case, the lint does not, so a CNAME beside a record of the same name in other
  case survives the conversion and is then refused, against the comment of
  `_drop_cname_conflicts`.
* `CleanFileIsAnswered`: when the lint finds nothing, each record is in the
  zone that answers for its name, under an SOA, and no CNAME is beside it.
  Excused is a record for which the file has a closer zone elsewhere, of which
  the lint says nothing.

### PdnsReload

`file` is `zones.yml`, `loaded` and `apexes` what the authoritative server has
of it (backend and zone cache), `cached` its packet cache, `configured` and
`forwarded` the zones of the recursor's configuration and of the recursor,
`relayed` its cache.  `Activate` is the path unit; `Check`, `Reload`,
`Rediscover`, `Purge`, `ReloadZones`, `Wipe`, `FindDig`, `Probe` and
`Conclude` are the script's commands, with `After` as their order; `GiveUp` is
any of them that ends the run, and the unit's timeout.  A probe asks the
recursor, and the authoritative server only if the recursor knows an SOA; it
`Matches` if the first SOA of the one is all that the other has.  `unanswered`
are the zones whose probe failed, for whatever reason: the script counts them
and ends with status 3 after the last, whichever of its four messages it
printed.  `silent` remembers that there was no `dig` (status 3 as well), or
that a question had no answer or SERVFAIL.  `Client` asks either server at any moment, or an
answer expires; `RefreshZones` and `Restart` are PowerDNS's own; `Edit` and
`AddForward` are the operator's.  What the servers do is external and modelled
from what the script and its comments rely on: a reload keeps every cache.  A
zone with no SOA at its apex is not answered for (`Authoritative`), as
`src/app/dns_zones_lint.py:204` says; neither that nor a second SOA blocks a
reload, so both reach the probes.

* `NothingBlockedIsServed`: a file with a blocking finding is served only if it
  was written after the check, or came in with a restart, which checks nothing
  (`unchecked`).
* `OkMeansServed`: after a run that exits with 0, both servers answer every
  zone with what the file says, from their caches too, until the next edit.
  Excused are runs in which a purge or a wipe failed (`warned`): the script
  prints a warning and goes on.
* `FailureIsTheConfiguration`: the exit status 3, which tells the operator to
  complete the recursor's configuration, never comes from a stale answer in a
  cache: if every question was answered (`silent`) and every cache emptied
  (`warned`), then some zone of the file is not forwarded, or has no SOA, or
  more than one.  In the latter two cases the advice is of no use: the
  recursor's first SOA is compared with all of the authoritative server's
  (lines 113 and 115), so a zone with two never passes.

Zones that a new file no longer has are not wiped from the recursor; the
properties speak of the zones in the file only.

### ClientPki

`store` is the directory: its index (`issued`, `revoked`) and its CRL
(`listed`); `flock` is the lock on `ca/` that enroll and rotate hold from
their check to their end, `writer` and `readers` the one on `ca/.lock`.
`Lock`, `List`, `Issue` and `Deliver` are enroll and rotate; a hand-run
`create` begins at `Issue` and revokes the device's certificate
(`Publish`).  `Install` brings a certificate to its device, `Obey` does what
the hints of a rotation say, `Retire` revokes by hand.  `Open` and `Tar` are a
backup; `Look`, `Clear` and `Move` a restore, which no lock protects, beside
`InitCa` and other restores.  `Abort` ends a command anywhere.  tiny-pki is
external and modelled from what the scripts rely on.

* `NoDeviceIsCutOff`: a device that was given a certificate keeps one that is
  not revoked, through enrolments, rotations and hints that are obeyed late.
  Excused are devices with a hand-run `create` (`created`) or given up
  (`retired`), and a store that is not the one that was moved aside
  (`rewound`): an older backup knows less than the devices.
* `HintsAreComplete`: every older certificate that is still valid after a
  rotation is in its hints, those of commands that failed halfway included.
* `BackupIsWhole`: the CRL in an archive lists what its index has revoked.
* `NothingIsForgotten`: no command loses a certificate or a revocation; `rmdir`
  and `mv` do no harm to a store that appeared since `Look`.

The operator moves a store aside only while no command uses it.  A restore
whose `mv` finds a store in its place leaves its staging directory within it,
which the model does not show, and reports success.  Expiry of certificates and
of the CRL, the secret of the CA's key and the permission check are left out.

## 3. Runs that pass

| run | instance | why that is enough |
|---|---|---|
| `catalog_heal` | the timer and one operator, one check, three passes, clock 4 to 7 | two passes overlap and a third meets what they left; the operator's passes with other flags load and save the file without touching the check's entry; window 2 and cap 2 make both limits bite, and `Resend` 2 falls due; any mail may be swallowed |
| `catalog_crud` | two requests served, two services and a stream, ten edits | every pair of edits interleaves at every step, with crashes and one change of `fqdn`; the edits clash in each identifier, with each other and with the web UI's own name |
| `smtp_config` | two requests at a time, three in all, two relays, two passwords | a save between the two reads of another, and a third request that meets the result; the initial file is with or without `fqdn`, or malformed |
| `healthcheck` | timer and operator, one run by hand, two flips, clock 0 to 6, `Resend` 2 | a failure, its reminder and a recovery fit, with a run by hand, kills and failing mails anywhere between them |
| `dns_cutover` | two processes, two names, up to two records each, three runs, one change by hand | a sync that is killed or fails, a second one beside it, and a restore of either snapshot; names that are proxied, absent, of another type or have a TTL |
| `cert_renewer` | the certbot unit, catalog heal and one operator; one configured domain and one to be registered; one run beside the unit's, one fault, one expiry | the daily unit runs any number of times, so the one other run overlaps it at every step and the next one finds what they left; the one fault is a refusal, a timeout, a stop or a kill at any step; lineages begin complete, staged, half there or missing |
| `web_ui` | two processes, two threads, two sources, two rounds, four logins, clock 0 to 4, threshold 1, backoff up to 2, entries for 2 | the second process starts beside the first or after its death at any step, on a file that is missing, blank or written; two logins of one source overlap in PAM, and entries are evicted as soon as the longest block has ended |
| `dns_zones` | files of up to four of fifteen lines, two edits by hand | a zone, a zone within it and a reverse zone with their records in any order, lines that do not parse, have no zone or no TTL, one name in two spellings; the edits take any record away or add one of five, to any domain |
| `pdns_reload` | two zones, five documents, one of them refused, one that does not parse, and one in which one zone has two SOAs and the other none, two edits | an edit before, during and after a run and a second run that meets what the first left; a client asks between any two commands; the recursor begins with any configuration |
| `client_pki` | two commands at a time, four in all besides revocations, one device, three certificates, one store moved aside | two commands for one device are where the locks matter: a certificate, its rotation and a third one, with a backup or a failure beside them; and two restores, or a restore and an init, of one empty store |

Bounds (`MaxClock`, `MaxPasses`, `MaxRequests`, `MaxMoves`, `MaxRuns`,
`MaxFlips`, `MaxRecord`, `MaxHand`, `MaxFaults`, `MaxExpiries`, `MaxLogins`,
`MaxLines`, `MaxEdits`, `MaxFileEdits`, `MaxSerial`, `MaxCommands`) stand in the guards of the actions they
bound.  When they are used up the models stop, so
the runs do not check for deadlock, but for `cert_renewer`, whose timer never
stops; `catalog_crud` checks instead that every request ends.  The runs of
`dns_cutover`, `web_ui` and `client_pki` use the symmetry of processes, threads
and sources; they check no liveness.

The type invariants of `CatalogHeal`, `SmtpConfig`, `Healthcheck`, `WebUi`,
`ClientPki` and `DnsZones` are theorems (`TypeCorrect`, `PkiTypeCorrect`,
`ZonesTypeCorrect`) and not checked again by the runs.

## 4. Runs that end in a counterexample

Each shows that a sentence of the repository says more than the code does.

* `heal_hard_cap`: "Hard cap on real heal attempts per service+dimension per
  window" (`src/app/catalog_health_settings.py:132`).  A pass saves its
  attempts only at its end; killed before, it forgets them.
* `smtp_password`: a blank password must "not silently carry it over to a
  relay it was never issued for" (`src/app/api/smtp_routes.py:146`).  The
  check and the save read the file separately.

## 5. Proofs

All safety properties of the passing runs are theorems: `Spec => []Property`
(or `Spec => Property` for action properties and refinements) for any number
of runners, requests, checks, names, lines and records, and any bounds.  The
assumptions are the named `ASSUME`s of the modules: what configuration and
code guarantee about constants (intervals are positive, marks are no values,
hand-written catalogs have no clash, and so on), which TLC also evaluates.

* **CatalogHeal.**  `BudgetInv`: for a check that is not lost, the ledger is
  the entry of the one pass that holds an unsaved change, and of the file if
  none does; every other pass loaded what the file still says.  So the one
  that decides sees all attempts.  The same shape, `InboxInv`, relates the
  last mail to the alert entries: status and stamp are those of the last mail
  that was asked for, whether it arrived or not, for the next pass decides on
  nothing else (the inbox agrees only if it did); `AlertsComeLast` says that alert
  entries change only in the second loop, one result after the other, and
  `StampedInTime` that what it has stamped is not yet due.  `InboxTheorem` and
  `RemindersTheorem` follow.  `Refinement` follows
  from `BudgetInv`: an attempt allowed by the entry is allowed by the ledger.
* **CatalogEdits** (in `CatalogCrud_proofs`).  `EditedSectionUnique`: an
  accepted create, update or delete keeps identifiers unique, for sections of
  any length.  It rests on lemmas about `Append`, `EXCEPT` and `RemoveAt`, and
  on the fact that `IndexOf` picks an index that exists.
  `EditTouchesOneEntry` is the frame of an edit: the entries it does not name
  stay as they were, in their order, and nothing else comes in but the new
  entry.
* **CatalogCrud.**  `IInv` has a `Stage` for each request: what it has loaded,
  rendered and been told so far.  The step that needs it is `Persist`: the
  text nginx accepted is the request's own, because from `WriteConf` to
  `Lint` the request holds the lock, and only its holder writes `conf`.
  `AtomicTheorem` adds that a request that is not `late` still has the
  catalog it loaded; with `EditTouchesOneEntry` that gives
  `OthersAreKeptTheorem`, that no update is lost but by an overlap.
  `LockIsReleased` is the safety half of `EveryRequestEnds`: the flock is held
  only where a request goes on without waiting for another.
* **SmtpConfig.**  Until a request is disturbed, what it will write was made
  from the file as it is; `KeysInv`, `PasswordInv` and `MalformedInv` say so
  for the three properties, with `BodyInv` about what the request knows.
* **Healthcheck.**  `RunAgrees`: a run that is about to write a silencing
  state either mailed itself or read a state that had its mail.  The reporting
  times need `ReportInv`.  `Covered` is a time such that a run of the timer which
  began no earlier has ended; it moves with the clock, whatever stage the timer's
  run is at.  If it lies after the last disturbance, the file and the mails are
  right (`CoveredInv`), because a run that began after it knows better
  (`TimerInv`): the stamp it reads is either that of a mail or older than the
  disturbance (`OldStamps`).  For recoveries `MailInv` says that inbox and file
  agree, or differ by the one run that has mailed and is about to write.
* **ClientPki** (also in `HostScripts_proofs`).  `StageOf` says for each command
  what it knows at each stage.  The store only grows unless it is moved aside
  (`StoreGrows`, `CaGrows`), so what `List` found under the flock is still all
  there is when `Issue` comes (`IssueInv`), as no other enrolment or rotation
  holds it; with `HintInv` that gives `HintsTheorem`.  `RevokeInv`: whoever
  revokes a certificate because of a hint does so for a newer one that the
  device has, so a device's newest certificate survives (`NewestInv`, `CaInv`),
  from which `CutOffTheorem` follows.  `LocksAreReleased`: of the two locks
  only the flock is held by a command that may wait, for `ca/.lock`, whose
  holders wait for nothing; so no commands wait in a circle.  `WholeInv`: index and CRL differ only
  while a writer holds `ca/.lock`, which excludes readers, or if the store is
  `torn`.  `ForgottenTheorem` needs that `Clear` and `Move` meet no store that
  they could harm.
* **DnsCutover.**  `RunInv` follows one run: names it is done with are as
  wanted, the name it is at is as it found it, unless somebody else touched
  it; `OtherRun` shows that whoever touches it leaves the mark.  `FileInv`
  ties snapshots to what there was.  `RollbackIsComplete` then needs that a
  record with a pinned TTL that needs no change is equal to the one wanted.
* **CertRenewer.**  `StateInv` says what the loop, `ensure_cert` and certbot
  know of each other: whoever waits for certbot has the domain certbot works
  on at hand, and an empty conf is still certbot's.  `KeysAreShared` follows:
  every way out of the trap's reach shares the keys or leaves them to another
  run.  `ListInv` accounts for the domain that was asked for from the moment
  the list is read: it is ahead, tended, or on no list the check will read.
  `ClearInv`: what is being moved aside is no lineage, unless the run was
  overtaken.  `AloneInv`: a run nobody overlaps keeps what it tended, and
  after its loop every live key is shared, so the HUP loads them all.
* **LoginRateLimit** (in `WebUi_proofs`).  `BackoffDoubles`: the delay doubles
  from failure to failure and never shrinks, up to the bound on the exponent
  and the one on the delay.
* **WebUi.**  `SecretInv`: while nothing was disturbed at most one process is
  making a secret; nobody has signed anything then, and otherwise the file is
  what every process that is up uses.  `LimiterInv`: what the table forgot is
  stale in `memory`, and a block ends no later than `MaxBackoff` after the last
  failure, hence before the entry may be evicted; this is what the assumption
  `MaxBackoff <= EntryTTL` is for, which the defaults satisfy.  `BurstInv`
  counts the failures of this moment together with the logins that are with
  PAM: past the threshold the source is blocked, and only those that are
  already with PAM can still fail.
* **ZoneFiles and DnsZones** (in `Zones_proofs`).  The state invariant is
  short: until an edit by hand, `zones.yml` is what the last conversion made
  of `source`, and `issues` what it reported (`SourceInv`).  What has to be
  proved is that the operators say what the properties ask, for files of any
  length. `LeastNatural` (a set of naturals that is not empty has a least
  element) is induction by least counterexample; it proves what a flattened
  sequence is made of (`FlattenOrigins`: each element comes from one place of
  one part, and no place is left out), from which follow `RecordsOrigins` for
  the lint, `BucketSelects` and `KeptSelects` for the converter.
  `ClosestIsLongest` and `ClosestOfFewer` say when a record's zone stays its
  zone as others are dropped for want of a TTL, which is the hard case of
  `NothingIsLostTheorem` and of its converse, `WrittenIsAtHomeTheorem`:
  nothing that is written is hidden by a closer zone.
  `ReverseNamesRoundTrip`: the conversions between addresses and their names
  are inverse, so that the lint's rules for A and for PTR records look for
  each other's records.  For `ConvertedPassesTheorem`, two records of one name
  in a converted zone, one of them a CNAME, come from two places of the
  bucket, and `Survives` holds of one of them only.  `CleanZone` and `Nested`
  (of two zones above one name one is inside the other) give
  `CleanFileTheorem`.
* **PdnsReload** (also in `Zones_proofs`).  Each command makes one thing agree
  with the file for good, as long as nobody edits it: `FileInv` and `CacheInv`
  say what agrees past each stage.  A client's question between two commands
  leaves only answers that agree as far as the stages behind it do
  (`AskedLeavesFresh`), which is why the order of the commands matters.
  `ProbeFinds` is what a probe of such caches tells: a match means that the zone
  is forwarded and has an SOA, a failure that it is not, or has not exactly one.
  `ProbeInv` keeps that of every zone in `unanswered` until `Conclude`.

Only model-checked are `EveryRequestEnds` and `EveryCertIsRenewed`, which are
liveness under fairness and need `ENABLED`.  The counterexamples of section 4
are TLC's.  Some theorems state what no run checks: they are about operators for
inputs of any length (`EditTouchesOneEntry`, `BackoffDoubles`,
`ReverseNamesRoundTrip`), or are invariants that the proofs made visible
(`OthersAreKept`, `HolderIsAtWork`, `LocksAreOrdered`, `WrittenIsAtHome`); these
are defined in the proof modules.

## 6. Not modelled

* Verdicts and findings of other programs (nginx, gixy, certbot, PAM,
  sendmail, Cloudflare's errors) are arbitrary outcomes.
* Conversions without state: the text of an nginx configuration, the
  read-only views.  The renderer enters only in that it may refuse.
* Of the zone tools: the comparison of SOA serials with a previous file
  (`--previous`), the decoding of tinydns escapes, the validation in a scratch
  sqlite backend and the parity check, none of which changes anything.
* `pdns-test-and-reload` run by hand beside the unit's run.
* Logout and the expiry of a cookie, which end only what one browser holds.
* The dialogue with an SMTP relay; headers and pages of the web application.
* Host guard: one test that fails closed before any command.
* An attempt of catalog heal is stamped with the time its pass began, so two
  attempts may be closer in time than the "Minimum time between real (--apply)
  heal attempts" of `src/app/catalog_health_settings.py:117`; cooldowns are
  modelled and stated on the clock of the passes, as the code has them.

## 7. Plan

In this order, each with its MC module, runs and proofs:

1. `NginxReload`: `nginx-test-and-reload` behind its path unit, files that
   change between test and reload, coalesced events.
2. `Deploy`: the recorded revision and the restart.
3. The catalog checks, the renderer's grouping and the cutover's preflight as
   operators.
4. `CatalogCrud` with `SmtpConfig`: a save that truncates `config.toml` while
   a catalog edit renders with its `fqdn`.

`PROJECT.json` lists the hazards that wait for these modules, with the line
where each bites.
