----------------------------- MODULE DnsCutover -----------------------------
(***************************************************************************)
(* app/catalog_dns_sync_cli.py and app/dns_cutover.py over                 *)
(* sync_dns_record of app/catalog_checks.py: runs that point the catalog's *)
(* names at a target, and runs that put the records of a snapshot back.    *)
(* A run takes its snapshot first, and then works name by name: it looks   *)
(* the records up, decides, writes one and reads it back, each step a call *)
(* to Cloudflare that may fail or whose answer may be lost.  Nothing locks *)
(* the records: other runs (also the single records that catalog-heal and  *)
(* catalog-register sync) and an operator at the dashboard change them at  *)
(* any time, and a run may be killed at any point.                         *)
(*                                                                         *)
(* A request Cloudflare has not carried out when its caller gives up on it *)
(* never is.  Dry runs write nothing and are left out, and so is the       *)
(* read-only report on leftovers (--old-target).                           *)
(***************************************************************************)
EXTENDS Integers, Sequences, FiniteSets

CONSTANTS
  Runner,    \* the processes
  Name,      \* the catalog's server names
  Place,     \* where each stands in it
  Content,   \* what a record can point at
  Kind,      \* its type: A, AAAA or CNAME
  Ttl,       \* TTLs an operator sets
  Automatic, \* the TTL Cloudflare gives a proxied record
  Unpinned,  \* no TTL asked for
  Initial,   \* the records the names may have had at first
  Jobs,      \* the syncs that are run
  Typed,     \* the records operators create at the dashboard
  MaxRecord, \* bound on the records ever made of a name
  MaxRuns,   \* bound on the runs
  MaxHand    \* bound on the changes at the dashboard


\* Cloudflare keeps no TTL for a proxied record.
Record ==
  {record \in [content: Content, proxied: BOOLEAN, ttl: Ttl \cup {Automatic}] :
     record.proxied => record.ttl = Automatic}

\* What a run asks for.
Want ==
  {want \in [content: Content, proxied: BOOLEAN, ttl: Ttl \cup {Automatic, Unpinned}] :
     want.proxied => want.ttl \in {Automatic, Unpinned}}

\* The records of one name, by id; and those of several names.
IsRecords(f) == DOMAIN f \subseteq 1..MaxRecord /\ f \in [DOMAIN f -> Record]
IsTable(g) == DOMAIN g \subseteq Name /\ \A n \in DOMAIN g : IsRecords(g[n])

ASSUME PlaceAssumption ==
  /\ Place \in [Name -> Nat]
  /\ \A n, m \in Name : Place[n] = Place[m] => n = m

ASSUME RecordAssumption ==
  /\ Unpinned \notin Ttl \cup {Automatic}
  /\ \A table \in Initial :
       /\ IsTable(table) /\ DOMAIN table = Name
       /\ \A n \in Name : \A i, j \in DOMAIN table[n] :
            table[n][i].content = table[n][j].content => i = j
  /\ Typed \subseteq Record

ASSUME JobsAssumption ==
  Jobs \subseteq [names: SUBSET Name, target: Content, proxied: BOOLEAN, snapshot: BOOLEAN]

ASSUME BoundAssumption == MaxRecord \in Nat /\ MaxRuns \in Nat /\ MaxHand \in Nat

VARIABLES
  zone,      \* the records of each name
  made,      \* how many each name ever had: the last id
  snapshots, \* the snapshot files
  pc,        \* where each run is
  file,      \* the snapshot it puts back; 0: it syncs
  safe,      \* whether it takes a snapshot first
  wanted,    \* the records its names are to have
  todo,      \* the names it has not done with
  taken,     \* the snapshot it has taken so far
  found,     \* the id of the record to change; 0: it creates one
  failed,    \* whether a name failed or was left to a human
  runs,      \* runs begun
  byHand,    \* changes at the dashboard
  began,     \* history: the records when a run with a snapshot began
  touched,   \* history: the names others changed since
  late,      \* history: runs whose lookup is no longer true
  raced,     \* history: names written on such a lookup, or filled by hand
  origins    \* history: began and touched of each snapshot

local == <<pc, file, safe, wanted, todo, taken, found, failed, began>>
remote == <<zone, made, raced>>
vars == <<remote, snapshots, local, runs, byHand, touched, late, origins>>

-----------------------------------------------------------------------------

Empty == [n \in {} |-> n]

\* With(f, x, y) adds the pair (x, y) to a function.
With(f, x, y) == [z \in DOMAIN f \cup {x} |-> IF z = x THEN y ELSE f[z]]

\* Lists of names are worked off in the catalog's order.
First(names) == CHOOSE n \in names : \A m \in names : Place[n] <= Place[m]

Now(r) == First(todo[r])
Scope(r) == DOMAIN wanted[r]

Goto(r, label) == pc' = [pc EXCEPT ![r] = label]

\* The process ends.
Exit(r) ==
  /\ Goto(r, "idle")
  /\ file' = [file EXCEPT ![r] = 0]
  /\ safe' = [safe EXCEPT ![r] = FALSE]
  /\ wanted' = [wanted EXCEPT ![r] = Empty]
  /\ todo' = [todo EXCEPT ![r] = {}]
  /\ taken' = [taken EXCEPT ![r] = Empty]
  /\ found' = [found EXCEPT ![r] = 0]
  /\ failed' = [failed EXCEPT ![r] = FALSE]
  /\ began' = [began EXCEPT ![r] = Empty]

Ends(r) ==
  /\ Exit(r)
  /\ touched' = [touched EXCEPT ![r] = {}]
  /\ late' = late \ {r}

\* The records of n changed under every run but those of doers.
Disturbs(n, doers) ==
  /\ touched' = [q \in Runner |->
       IF q \in doers \/ pc[q] = "idle" THEN touched[q] ELSE touched[q] \cup {n}]
  /\ late' = late \cup {q \in Runner \ doers : pc[q] = "write" /\ Now(q) = n}

\* A SyncResult; the loop goes on with the next name.
Report(r, bad) ==
  /\ failed' = [failed EXCEPT ![r] = @ \/ bad]
  /\ todo' = [todo EXCEPT ![r] = @ \ {Now(r)}]
  /\ found' = [found EXCEPT ![r] = 0]
  /\ Goto(r, "lookup")
  /\ UNCHANGED <<file, safe, wanted, taken, began>>

-----------------------------------------------------------------------------
(* Up to the first write.                                                   *)

Starts(r, names) ==
  /\ pc[r] = "idle"
  /\ runs < MaxRuns
  /\ runs' = runs + 1
  /\ todo' = [todo EXCEPT ![r] = names]
  /\ UNCHANGED <<remote, snapshots, taken, found, failed, byHand, touched, late, origins>>

\* main, and the callers that sync one name without a snapshot.
BeginSync(r) ==
  \E job \in Jobs :
    LET want == [content |-> job.target, proxied |-> job.proxied, ttl |-> Unpinned] IN
    /\ Starts(r, job.names)
    /\ wanted' = [wanted EXCEPT ![r] = [n \in job.names |-> [i \in {1} |-> want]]]
    /\ safe' = [safe EXCEPT ![r] = job.snapshot]
    /\ began' = [began EXCEPT ![r] =
         IF job.snapshot THEN [n \in job.names |-> zone[n]] ELSE Empty]
    /\ Goto(r, IF job.snapshot THEN "snapshot" ELSE "lookup")
    /\ UNCHANGED file

\* _restore.
BeginRestore(r) ==
  \E k \in DOMAIN snapshots :
    /\ Starts(r, DOMAIN snapshots[k])
    /\ wanted' = [wanted EXCEPT ![r] = snapshots[k]]
    /\ file' = [file EXCEPT ![r] = k]
    /\ Goto(r, "lookup")
    /\ UNCHANGED <<safe, began>>

\* take_snapshot: one name's records, or an error that ends the run.
TakeRecords(r) ==
  /\ pc[r] = "snapshot" /\ DOMAIN taken[r] # Scope(r)
  /\ LET n == First(Scope(r) \ DOMAIN taken[r]) IN
     \/ /\ taken' = [taken EXCEPT ![r] = With(@, n, zone[n])]
        /\ UNCHANGED <<pc, file, safe, wanted, todo, found, failed, began, touched, late>>
     \/ Ends(r)
  /\ UNCHANGED <<remote, snapshots, runs, byHand, origins>>

\* Mutant of SaveSnapshot: the run goes on when no file could be written.
SaveSnapshotIfPossible(r) ==
  /\ pc[r] = "snapshot" /\ DOMAIN taken[r] = Scope(r)
  /\ \/ /\ snapshots' = Append(snapshots, taken[r])
        /\ origins' = Append(origins, [before |-> began[r], blurred |-> touched[r]])
     \/ UNCHANGED <<snapshots, origins>>
  /\ taken' = [taken EXCEPT ![r] = Empty]
  /\ Goto(r, "lookup")
  /\ UNCHANGED <<remote, file, safe, wanted, todo, found, failed, began, touched, late, runs, byHand>>

\* write_snapshot: the whole file appears, under a name of its own; or the
\* run ends.
SaveSnapshot(r) ==
  /\ pc[r] = "snapshot" /\ DOMAIN taken[r] = Scope(r)
  /\ \/ /\ snapshots' = Append(snapshots, taken[r])
        /\ origins' = Append(origins, [before |-> began[r], blurred |-> touched[r]])
        /\ taken' = [taken EXCEPT ![r] = Empty]
        /\ Goto(r, "lookup")
        /\ UNCHANGED <<file, safe, wanted, todo, found, failed, began, touched, late>>
     \/ Ends(r) /\ UNCHANGED <<snapshots, origins>>
  /\ UNCHANGED <<remote, runs, byHand>>

-----------------------------------------------------------------------------
(* One name.                                                                *)

\* The ids of a name's records of a type.
OfKind(records, kind) == {i \in DOMAIN records : Kind[records[i].content] = kind}

\* Mutant of Settled: the proxied flag and the TTL are not compared.
SettledByContent(record, want) == record.content = want.content

\* The record needs no change.
Settled(record, want) ==
  /\ record.content = want.content /\ record.proxied = want.proxied
  /\ want.ttl = Unpinned \/ record.ttl = want.ttl

\* Mutant of Conflict: several records of the type are no conflict.
ConflictOfKinds(records, want) == OfKind(records, Kind[want.content]) # DOMAIN records

\* A record of another type, or several of this one: left to a human.
Conflict(records, want) ==
  \/ OfKind(records, Kind[want.content]) # DOMAIN records
  \/ \E i, j \in DOMAIN records : i # j

\* _restore_absent: a name that had no record and has one now is left to a
\* human.
RestoreAbsent(r) ==
  /\ DOMAIN wanted[r][Now(r)] = {}
  /\ Report(r, DOMAIN zone[Now(r)] # {})

\* sync_dns_record up to its write, or what restore_snapshot does instead:
\* a name that had several records fails.  Every failed call fails the name.
Lookup(r) ==
  /\ pc[r] = "lookup" /\ todo[r] # {}
  /\ LET records == zone[Now(r)]
         entry == wanted[r][Now(r)] IN
     \/ Report(r, TRUE)
     \/ RestoreAbsent(r)
     \/ \E i \in DOMAIN entry :
          /\ DOMAIN entry = {i}
          /\ ~Conflict(records, entry[i])
          /\ IF \E j \in DOMAIN records : Settled(records[j], entry[i])
             THEN Report(r, FALSE)
             ELSE /\ found' = [found EXCEPT ![r] =
                       IF DOMAIN records = {} THEN 0 ELSE CHOOSE j \in DOMAIN records : TRUE]
                  /\ Goto(r, "write")
                  /\ UNCHANGED <<file, safe, wanted, todo, taken, failed, began>>
  /\ late' = late \ {r}
  /\ UNCHANGED <<remote, snapshots, runs, byHand, touched, origins>>

\* The one record wanted.
Wanted(r) == LET entry == wanted[r][Now(r)] IN entry[CHOOSE i \in DOMAIN entry : TRUE]

\* Mutant of Sent: a TTL that nobody asked for is sent too.
SentAlways(want, ttl) ==
  [content |-> want.content, proxied |-> want.proxied,
   ttl |-> IF want.proxied THEN Automatic ELSE want.ttl]

\* What Cloudflare makes of the fields it is sent.
Sent(want, ttl) ==
  [content |-> want.content, proxied |-> want.proxied,
   ttl |-> IF want.proxied THEN Automatic ELSE IF want.ttl = Unpinned THEN ttl ELSE want.ttl]

\* Mutant of Retries: a POST is retried like a PATCH.
RetriesAll(r) == TRUE

\* _cf_request: what is sent again when an answer is lost.
Retries(r) == found[r] # 0

\* The PATCH or POST is carried out.
Applied(r) ==
  LET n == Now(r) IN
  /\ IF found[r] # 0
     THEN /\ found[r] \in OfKind(zone[n], Kind[Wanted(r).content])
          /\ zone' = [zone EXCEPT ![n][found[r]] = Sent(Wanted(r), @.ttl)]
          /\ UNCHANGED made
     ELSE /\ made[n] < MaxRecord
          /\ zone' = [zone EXCEPT ![n] = With(@, made[n] + 1, Sent(Wanted(r), Automatic))]
          /\ made' = [made EXCEPT ![n] = @ + 1]
  /\ raced' = IF r \in late THEN raced \cup {n} ELSE raced
  /\ Disturbs(n, {r})

\* The write: carried out or not, answered or not, and sent again or not.
Write(r) ==
  /\ pc[r] = "write"
  /\ \/ /\ Applied(r)
        /\ \/ /\ Goto(r, "confirm")
              /\ UNCHANGED <<file, safe, wanted, todo, taken, found, failed, began>>
           \/ Report(r, TRUE)
           \/ Retries(r) /\ UNCHANGED local
     \/ /\ Report(r, TRUE)
        /\ UNCHANGED <<remote, touched, late>>
  /\ UNCHANGED <<snapshots, runs, byHand, origins>>

\* The read-back, and dig against the zone's own name server: either may
\* fail the name, and a record that does not show does.
Confirm(r) ==
  /\ pc[r] = "confirm"
  /\ \/ Report(r, TRUE)
     \/ /\ \E i \in DOMAIN zone[Now(r)] : zone[Now(r)][i].content = Wanted(r).content
        /\ Report(r, FALSE)
  /\ UNCHANGED <<remote, snapshots, runs, byHand, touched, late, origins>>

\* The end of the list: exit status 0, or 1 when a name failed.
Finish(r) ==
  /\ pc[r] = "lookup" /\ todo[r] = {}
  /\ Ends(r)
  /\ UNCHANGED <<remote, snapshots, runs, byHand, origins>>

-----------------------------------------------------------------------------

Kill(r) ==
  /\ pc[r] # "idle"
  /\ Ends(r)
  /\ UNCHANGED <<remote, snapshots, runs, byHand, origins>>

\* An operator creates or deletes a record at the dashboard.
ByHand ==
  /\ byHand < MaxHand
  /\ byHand' = byHand + 1
  /\ \E n \in Name :
       /\ \/ \E record \in Typed :
               /\ made[n] < MaxRecord
               /\ zone' = [zone EXCEPT ![n] = With(@, made[n] + 1, record)]
               /\ made' = [made EXCEPT ![n] = @ + 1]
               /\ raced' = raced \cup {n}
          \/ \E i \in DOMAIN zone[n] :
               /\ zone' = [zone EXCEPT ![n] = [j \in DOMAIN @ \ {i} |-> @[j]]]
               /\ UNCHANGED <<made, raced>>
       /\ Disturbs(n, {})
  /\ UNCHANGED <<snapshots, local, runs, origins>>

Init ==
  /\ zone \in Initial
  /\ made \in [Name -> 0..MaxRecord]
  /\ \A n \in Name : DOMAIN zone[n] = 1..made[n]
  /\ snapshots = << >>
  /\ pc = [r \in Runner |-> "idle"]
  /\ file = [r \in Runner |-> 0]
  /\ safe = [r \in Runner |-> FALSE]
  /\ wanted = [r \in Runner |-> Empty]
  /\ todo = [r \in Runner |-> {}]
  /\ taken = [r \in Runner |-> Empty]
  /\ found = [r \in Runner |-> 0]
  /\ failed = [r \in Runner |-> FALSE]
  /\ runs = 0
  /\ byHand = 0
  /\ began = [r \in Runner |-> Empty]
  /\ touched = [r \in Runner |-> {}]
  /\ late = {}
  /\ raced = {}
  /\ origins = << >>

Next ==
  \/ \E r \in Runner :
       \/ BeginSync(r)
       \/ BeginRestore(r)
       \/ TakeRecords(r)
       \/ SaveSnapshot(r)
       \/ Lookup(r)
       \/ Write(r)
       \/ Confirm(r)
       \/ Finish(r)
       \/ Kill(r)
  \/ ByHand

Spec == Init /\ [][Next]_vars

-----------------------------------------------------------------------------
(* Properties.                                                              *)

(* Every variable keeps its type: a name's records are well formed, in the  *)
(* zones and in every snapshot.                                             *)
TypeOK ==
  /\ IsTable(zone) /\ DOMAIN zone = Name
  /\ made \in [Name -> 0..MaxRecord]
  /\ \A k \in DOMAIN snapshots : IsTable(snapshots[k])
  /\ pc \in [Runner -> {"idle", "snapshot", "lookup", "write", "confirm"}]
  /\ file \in [Runner -> 0..Len(snapshots)]
  /\ safe \in [Runner -> BOOLEAN]
  /\ DOMAIN wanted = Runner /\ DOMAIN taken = Runner /\ DOMAIN began = Runner
  /\ todo \in [Runner -> SUBSET Name]
  /\ \A r \in Runner :
       /\ Scope(r) \subseteq Name
       /\ \A n \in Scope(r) : \A i \in DOMAIN wanted[r][n] : wanted[r][n][i] \in Want
       /\ todo[r] \subseteq Scope(r)
       /\ IsTable(taken[r]) /\ IsTable(began[r])
  /\ found \in [Runner -> 0..MaxRecord]
  /\ failed \in [Runner -> BOOLEAN]
  /\ runs \in 0..MaxRuns
  /\ byHand \in 0..MaxHand
  /\ touched \in [Runner -> SUBSET Name]
  /\ late \subseteq Runner
  /\ raced \subseteq Name
  /\ Len(origins) = Len(snapshots)

\* The run is about to exit with status 0.
Succeeds(r) == pc[r] = "lookup" /\ todo[r] = {} /\ ~failed[r]

Same(f, g) ==
  /\ Cardinality(DOMAIN f) = Cardinality(DOMAIN g)
  /\ {f[i] : i \in DOMAIN f} = {g[i] : i \in DOMAIN g}

(* A POST is not idempotent, so a lost answer must not be retried, and the  *)
(* next run must find the record that did land: no name gets two records of *)
(* one content, through any number of failures and reruns, unless it was    *)
(* changed between a run's lookup and its write, or filled by hand.         *)
NoRecordTwice ==
  \A n \in Name \ raced : \A i, j \in DOMAIN zone[n] :
    zone[n][i].content = zone[n][j].content => i = j

(* A sync that exits with 0 has moved every name: each has one record, with *)
(* the target and the proxied flag asked for.  Names that somebody else     *)
(* changed while the run lasted are excused.                                *)
SyncMovedAll ==
  \A r \in Runner : Succeeds(r) /\ file[r] = 0 =>
    \A n \in Scope(r) \ touched[r] :
      \E i \in DOMAIN zone[n] :
        /\ DOMAIN zone[n] = {i}
        /\ Settled(zone[n][i], wanted[r][n][1])

(* A restore that exits with 0 is a complete rollback: every name has the   *)
(* records it had when the run that took the snapshot began, whatever was   *)
(* done to them in between (more syncs, killed ones, changes by hand).      *)
(* Excused are names changed by somebody else while the snapshot was being  *)
(* taken or put back.                                                       *)
RollbackIsComplete ==
  \A r \in Runner : Succeeds(r) /\ file[r] # 0 =>
    \A n \in Scope(r) \ (touched[r] \cup origins[file[r]].blurred) :
      Same(zone[n], origins[file[r]].before[n])

(* A sync refuses to write what it could not put back: once it is past its  *)
(* snapshot there is a file with what each of its names had, unless they    *)
(* were changed by somebody else meanwhile.                                 *)
EverySyncCanBeUndone ==
  \A r \in Runner : safe[r] /\ pc[r] \in {"lookup", "write", "confirm"} =>
    \A n \in Scope(r) \ touched[r] :
      \E k \in DOMAIN snapshots :
        n \in DOMAIN snapshots[k] /\ snapshots[k][n] = began[r][n]

=============================================================================
