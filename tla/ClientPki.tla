----------------------------- MODULE ClientPki ------------------------------
(***************************************************************************)
(* scripts/client-pki and the libraries it sources: operators enroll       *)
(* devices, rotate and revoke their certificates, back the store up and    *)
(* restore it, several commands at a time.  enroll and rotate hold a flock *)
(* on ca/ from their check to their end; each tiny-pki that writes, and a  *)
(* backup, holds one on ca/.lock.  Of tiny-pki (external) the model has    *)
(* what the scripts rely on: serials are drawn in sequence, a certificate  *)
(* revokes the name's former one unless told otherwise, and what is        *)
(* revoked is in the index first and in the published CRL next.            *)
(***************************************************************************)
EXTENDS Integers, SequencesExt

CONSTANTS
  Device,       \* their common names
  Proc,         \* who runs commands
  None,
  Missing,      \* no store
  Empty,        \* an empty directory
  MaxSerial,    \* bound on the certificates
  MaxCommands,  \* bound on the commands
  MaxMoves      \* bound on the stores moved aside

Serial == 1 .. MaxSerial

\* index.json, public/crl.pem, and whether a command died in between.
Store == [issued: Seq(Device), revoked: SUBSET Serial, listed: SUBSET Serial, torn: BOOLEAN]

ASSUME PkiAssumption ==
  /\ None \notin Proc /\ None \notin Store
  /\ Missing # Empty /\ Missing \notin Store /\ Empty \notin Store
  /\ MaxSerial \in Nat /\ MaxCommands \in Nat /\ MaxMoves \in Nat

NewStore == [issued |-> <<>>, revoked |-> {}, listed |-> {}, torn |-> FALSE]

VARIABLES
  store,      \* the directory
  archive,    \* the last backup
  flock,      \* who holds the one on ca/
  writer,     \* the tiny-pki that holds the one on ca/.lock
  readers,    \* the backups that share it
  stage,      \* where each command is
  job,        \* what it knows
  installed,  \* for each device, the certificates it has
  hints,      \* the revoke commands that rotate printed
  commands,   \* the commands so far
  moves,      \* the stores moved aside so far
  aside,      \* history: the last of them
  created,    \* history: devices with a hand-run create
  retired,    \* history: devices the operator gave up
  rewound     \* history: a store took over that was not the last one

locks == <<flock, writer, readers>>
command == <<stage, job>>
devices == <<installed, hints>>
history == <<aside, created, retired, rewound>>
pkiVars == <<store, archive, locks, command, devices, commands, moves, history>>

NoJob == [verb |-> None, device |-> None, previous |-> {}, serial |-> 0, copy |-> None]

PkiInit ==
  /\ store \in {Missing, Empty, NewStore}
  /\ archive = None
  /\ flock = None /\ writer = None /\ readers = {}
  /\ stage = [p \in Proc |-> "idle"]
  /\ job = [p \in Proc |-> NoJob]
  /\ hints = {}
  /\ installed = [d \in Device |-> {}]
  /\ commands = 0 /\ moves = 0
  /\ aside = None /\ created = {} /\ retired = {} /\ rewound = FALSE

HasCa(s) == s \notin {Missing, Empty}

\* client_pki_active_serials.
Active(s, d) == {n \in DOMAIN s.issued : s.issued[n] = d /\ n \notin s.revoked}

Proceed(p, next) == stage' = [stage EXCEPT ![p] = next]

\* The command is over and its locks are free.
Leave(p) ==
  /\ Proceed(p, "idle")
  /\ job' = [job EXCEPT ![p] = NoJob]
  /\ flock' = IF flock = p THEN None ELSE flock

-----------------------------------------------------------------------------
(* The commands.                                                            *)

FirstStage == [enroll |-> "lock", rotate |-> "lock", create |-> "issue",
               backup |-> "open", restore |-> "look", init |-> "init"]

Start(p, verb, d) ==
  /\ stage[p] = "idle" /\ commands < MaxCommands
  /\ commands' = commands + 1
  /\ Proceed(p, FirstStage[verb])
  /\ job' = [job EXCEPT ![p] = [NoJob EXCEPT !.verb = verb, !.device = d]]
  /\ created' = IF verb = "create" THEN created \cup {d} ELSE created
  /\ UNCHANGED <<store, archive, locks, devices, moves, aside, retired, rewound>>

\* Mutant of Hint: one serial is enough.
HintOfOne(j) ==
  [device |-> j.device, old |-> {CHOOSE n \in j.previous : TRUE}, new |-> j.serial]

\* client_pki_print_revoke_hints.
Hint(j) == [device |-> j.device, old |-> j.previous, new |-> j.serial]

\* A command that is refused, fails or is stopped, wherever it is; rotate
\* with a CSR prints its hints all the same, if it got as far as the signing.
Abort(p) ==
  /\ stage[p] # "idle"
  /\ Leave(p)
  /\ writer' = IF writer = p THEN None ELSE writer
  /\ readers' = readers \ {p}
  /\ store' = IF writer = p THEN [store EXCEPT !.torn = TRUE] ELSE store
  /\ hints' \in {hints} \cup
       (IF stage[p] \in {"issue", "deliver"} /\ job[p].verb = "rotate"
        THEN {hints \cup {Hint(job[p])}}
        ELSE {})
  /\ UNCHANGED <<archive, installed, commands, moves, history>>

\* Mutant of Lock: the flock is on a file of its own for each command.
LockNothing(p) ==
  /\ stage[p] = "lock" /\ HasCa(store)
  /\ Proceed(p, "list")
  /\ UNCHANGED <<store, archive, locks, job, devices, commands, moves, history>>

\* client_pki_locked: on ca/, which must be there; whoever waits too long fails.
Lock(p) ==
  /\ stage[p] = "lock" /\ HasCa(store) /\ flock = None
  /\ flock' = p
  /\ Proceed(p, "list")
  /\ UNCHANGED <<store, archive, writer, readers, job, devices, commands, moves, history>>

\* enroll takes a name without a certificate, rotate one that has one.
List(p) ==
  /\ stage[p] = "list" /\ HasCa(store)
  /\ LET previous == Active(store, job[p].device) IN
     /\ (previous = {}) <=> (job[p].verb = "enroll")
     /\ job' = [job EXCEPT ![p].previous = previous]
  /\ Proceed(p, "issue")
  /\ UNCHANGED <<store, archive, locks, devices, commands, moves, history>>

Unlocked == writer = None /\ readers = {}

\* create and sign, with --keep-previous for rotate; after a CSR's inspection
\* and its owner's word.
Issue(p) ==
  /\ stage[p] = "issue" /\ HasCa(store) /\ Unlocked
  /\ Len(store.issued) < MaxSerial
  /\ LET d == job[p].device
         gone == IF job[p].verb = "rotate" THEN {} ELSE Active(store, d)
     IN  /\ store' = [store EXCEPT !.issued = Append(@, d), !.revoked = @ \cup gone]
         /\ IF gone = {} THEN Proceed(p, "deliver") /\ UNCHANGED writer
                         ELSE Proceed(p, "publish") /\ writer' = p
  /\ job' = [job EXCEPT ![p].serial = Len(store'.issued)]
  /\ UNCHANGED <<archive, flock, readers, devices, commands, moves, history>>

\* tiny-pki replaces public/crl.pem.
Publish(p) ==
  /\ stage[p] = "publish"
  /\ store' = [store EXCEPT !.listed = store.revoked, !.torn = FALSE]
  /\ writer' = None
  /\ IF job[p].verb = "revoke"
     THEN Leave(p)
     ELSE Proceed(p, "deliver") /\ UNCHANGED <<job, flock>>
  /\ UNCHANGED <<archive, readers, devices, commands, moves, history>>

\* export p12, or the certificate that sign wrote to --out.
Deliver(p) ==
  /\ stage[p] = "deliver"
  /\ hints' = IF job[p].verb = "rotate" THEN hints \cup {Hint(job[p])} ELSE hints
  /\ Leave(p)
  /\ UNCHANGED <<store, archive, writer, readers, installed, commands, moves, history>>

\* The device gets a certificate, which its command delivered, or which was
\* recovered with an export by hand.
Install(s) ==
  /\ HasCa(store) /\ s \in DOMAIN store.issued
  /\ installed' = [installed EXCEPT ![store.issued[s]] = @ \cup {s}]
  /\ UNCHANGED <<store, archive, locks, command, hints, commands, moves, history>>

ToRevoke(p, d, s) ==
  /\ stage[p] = "idle" /\ HasCa(store) /\ s \in Active(store, d)
  /\ Proceed(p, "revoke")
  /\ job' = [job EXCEPT ![p] = [NoJob EXCEPT !.verb = "revoke", !.device = d, !.serial = s]]

\* What rotate tells the operator to do "once the device has the new certificate".
Obey(p, h, s) ==
  /\ h.new \in installed[h.device] /\ s \in h.old
  /\ ToRevoke(p, h.device, s)
  /\ UNCHANGED <<store, archive, locks, devices, commands, moves, history>>

\* A lost device.
Retire(p, d, s) ==
  /\ ToRevoke(p, d, s)
  /\ retired' = retired \cup {d}
  /\ UNCHANGED <<store, archive, locks, devices, commands, moves, aside, created, rewound>>

Revoke(p) ==
  /\ stage[p] = "revoke" /\ HasCa(store) /\ Unlocked
  /\ store' = [store EXCEPT !.revoked = @ \cup {job[p].serial}]
  /\ writer' = p
  /\ Proceed(p, "publish")
  /\ UNCHANGED <<archive, flock, readers, job, devices, commands, moves, history>>

\* The daily timer, or crl by hand.
RefreshCrl ==
  /\ HasCa(store) /\ Unlocked
  /\ store' = [store EXCEPT !.listed = store.revoked, !.torn = FALSE]
  /\ UNCHANGED <<archive, locks, command, devices, commands, moves, history>>

-----------------------------------------------------------------------------
(* Backup and restore.                                                      *)

\* Mutant of Open: tar does not wait.
OpenUnlocked(p) ==
  /\ stage[p] = "open" /\ HasCa(store)
  /\ job' = [job EXCEPT ![p].copy = store]
  /\ Proceed(p, "tar")
  /\ UNCHANGED <<store, archive, locks, devices, commands, moves, history>>

\* client_pki_backup: the shared flock, and the index.
Open(p) ==
  /\ stage[p] = "open" /\ HasCa(store) /\ writer = None
  /\ readers' = readers \cup {p}
  /\ job' = [job EXCEPT ![p].copy = store]
  /\ Proceed(p, "tar")
  /\ UNCHANGED <<store, archive, flock, writer, devices, commands, moves, history>>

\* The rest of the store; the archive is decrypted once more before the end.
Tar(p) ==
  /\ stage[p] = "tar"
  /\ archive' = [job[p].copy EXCEPT !.listed = store.listed]
  /\ readers' = readers \ {p}
  /\ Leave(p)
  /\ UNCHANGED <<store, writer, devices, commands, moves, history>>

\* client_pki_restore refuses a store that is not empty, and unpacks beside it.
Look(p) ==
  /\ stage[p] = "look" /\ archive # None /\ ~HasCa(store)
  /\ job' = [job EXCEPT ![p].copy = archive]
  /\ Proceed(p, "clear")
  /\ UNCHANGED <<store, archive, locks, devices, commands, moves, history>>

\* Mutant of Clear: rm -rf.
ClearAll(p) ==
  /\ stage[p] = "clear"
  /\ store' = Missing
  /\ Proceed(p, "move")
  /\ UNCHANGED <<archive, locks, job, devices, commands, moves, history>>

\* rmdir, which fails for what has been filled in the meantime.
Clear(p) ==
  /\ stage[p] = "clear" /\ ~HasCa(store)
  /\ store' = Missing
  /\ Proceed(p, "move")
  /\ UNCHANGED <<archive, locks, job, devices, commands, moves, history>>

\* mv: the staging directory becomes the store, or ends up within it.
Move(p) ==
  /\ stage[p] = "move"
  /\ IF store = Missing
     THEN store' = job[p].copy /\ rewound' = (rewound \/ job[p].copy # aside)
     ELSE UNCHANGED <<store, rewound>>
  /\ Leave(p)
  /\ UNCHANGED <<archive, writer, readers, devices, commands, moves, aside, created, retired>>

\* tiny-pki init.
InitCa(p) ==
  /\ stage[p] = "init" /\ ~HasCa(store)
  /\ store' = NewStore
  /\ rewound' = (rewound \/ aside # None)
  /\ Leave(p)
  /\ UNCHANGED <<archive, writer, readers, devices, commands, moves, aside, created, retired>>

\* The operator makes room for a restore while no other command runs.
MoveAside ==
  /\ HasCa(store) /\ moves < MaxMoves
  /\ \A p \in Proc : stage[p] \in {"idle", "look", "clear", "move", "init"}
  /\ moves' = moves + 1
  /\ store' \in {Missing, Empty}
  /\ aside' = store
  /\ UNCHANGED <<archive, locks, command, devices, commands, created, retired, rewound>>

PkiNext ==
  \/ \E p \in Proc :
       \/ \E verb \in DOMAIN FirstStage, d \in Device : Start(p, verb, d)
       \/ Abort(p)
       \/ Lock(p) \/ List(p) \/ Issue(p) \/ Publish(p) \/ Deliver(p)
       \/ \E h \in hints : \E s \in h.old : Obey(p, h, s)
       \/ \E d \in Device, s \in Serial : HasCa(store) /\ Retire(p, d, s)
       \/ Revoke(p)
       \/ Open(p) \/ Tar(p) \/ Look(p) \/ Clear(p) \/ Move(p) \/ InitCa(p)
  \/ \E s \in Serial : Install(s)
  \/ RefreshCrl \/ MoveAside

PkiSpec == PkiInit /\ [][PkiNext]_pkiVars

-----------------------------------------------------------------------------
(* Properties.                                                              *)

\* Enrolling, rotating and following the hints leave a device that had a
\* certificate with one that is not revoked, whatever overlaps: no check is
\* stale when its certificate is issued.  Not so with a hand-run create,
\* which does not take the lock, or a store that is older than the devices.
NoDeviceIsCutOff ==
  HasCa(store) /\ ~rewound =>
    \A d \in Device \ (created \cup retired) :
      installed[d] # {} => installed[d] \ store.revoked # {}

\* After a rotation no older certificate stays valid unnoticed: the hints
\* name each one, those of failed and killed commands included.
HintsAreComplete ==
  HasCa(store) /\ ~rewound =>
    \A h \in hints : h.device \notin created =>
      \A s \in Active(store, h.device) : s < h.new => s \in h.old

\* A backup "never captures a half-finished revoke" (docs/client-pki.md):
\* its CRL lists what its index has revoked, unless a revoke was killed
\* halfway before the backup began.
BackupIsWhole ==
  archive # None /\ ~archive.torn => archive.listed = archive.revoked

\* No command makes the store forget a certificate or a revocation: not a
\* restore either, although the store it found missing or empty may be there
\* when it comes to put its own in place.
NothingIsForgotten ==
  [][HasCa(store) =>
       \/ aside' = store
       \/ /\ HasCa(store')
          /\ IsPrefix(store.issued, store'.issued)
          /\ store.revoked \subseteq store'.revoked]_pkiVars

=============================================================================
