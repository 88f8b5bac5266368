-------------------------- MODULE DnsCutover_proofs --------------------------
(***************************************************************************)
(* Proofs about DnsCutover.  The argument follows one run: until somebody  *)
(* else touches a name, the run knows what its records are (RunInv), and   *)
(* whoever touches it leaves a mark in touched, and in late when the run   *)
(* is between its lookup of the name and its write.                        *)
(***************************************************************************)
EXTENDS DnsCutover, FiniteSetTheorems, WellFoundedInduction, TLAPS

(* A name is as the run wants it.                                           *)
Achieved(r, n) ==
  IF DOMAIN wanted[r][n] = {}
  THEN DOMAIN zone[n] = {}
  ELSE \E i \in DOMAIN zone[n], j \in DOMAIN wanted[r][n] :
         /\ DOMAIN zone[n] = {i} /\ DOMAIN wanted[r][n] = {j}
         /\ Settled(zone[n][i], wanted[r][n][j])

Working(r) == pc[r] \in {"lookup", "write", "confirm"}

IdleInv(r) ==
  pc[r] = "idle" =>
    /\ file[r] = 0 /\ ~safe[r] /\ ~failed[r] /\ touched[r] = {} /\ todo[r] = {}
    /\ DOMAIN taken[r] = {}

\* What a run wants: one record for each name, or what a snapshot says.
WantInv(r) ==
  /\ file[r] = 0 => \A n \in Scope(r) : DOMAIN wanted[r][n] = {1}
  /\ file[r] # 0 =>
       /\ ~safe[r] /\ Working(r)
       /\ file[r] \in DOMAIN snapshots /\ wanted[r] = snapshots[file[r]]

\* Until a snapshot is saved its run has written nothing.
TakingInv(r) ==
  pc[r] = "snapshot" =>
    /\ todo[r] = Scope(r) /\ safe[r] /\ file[r] = 0
    /\ DOMAIN taken[r] \subseteq Scope(r) /\ DOMAIN began[r] = Scope(r)
    /\ \A n \in Scope(r) \ touched[r] : zone[n] = began[r][n]
    /\ \A n \in DOMAIN taken[r] \ touched[r] : taken[r][n] = began[r][n]

\* The names done with are as they should be.
DoneInv(r) ==
  Working(r) /\ ~failed[r] => \A n \in Scope(r) \ (todo[r] \cup touched[r]) : Achieved(r, n)

\* What the run's lookup found still holds.
WriteInv(r) ==
  /\ pc[r] \in {"write", "confirm"} =>
       todo[r] # {} /\ \E j \in DOMAIN wanted[r][Now(r)] : DOMAIN wanted[r][Now(r)] = {j}
  /\ pc[r] = "write" /\ (r \notin late \/ Now(r) \notin touched[r]) =>
       DOMAIN zone[Now(r)] = IF found[r] = 0 THEN {} ELSE {found[r]}
  /\ pc[r] = "confirm" /\ Now(r) \notin touched[r] => Achieved(r, Now(r))

\* A file holds what the run may have changed.
UndoInv(r) ==
  safe[r] /\ Working(r) =>
    \E k \in DOMAIN snapshots : \A n \in Scope(r) \ touched[r] :
      n \in DOMAIN snapshots[k] /\ snapshots[k][n] = began[r][n]

RunInv(r) ==
  /\ IdleInv(r) /\ WantInv(r) /\ TakingInv(r)
  /\ DoneInv(r) /\ WriteInv(r) /\ UndoInv(r)

\* Snapshots hold what there was, but for names that changed meanwhile.
FileInv ==
  \A k \in DOMAIN snapshots : \A n \in DOMAIN snapshots[k] \ origins[k].blurred :
    origins[k].before[n] = snapshots[k][n]

IsList(s) == s \in Seq({s[k] : k \in DOMAIN s})

IInv ==
  /\ IsList(snapshots) /\ IsList(origins)
  /\ \A r \in Runner : RunInv(r)
  /\ FileInv
  /\ NoRecordTwice

-----------------------------------------------------------------------------
(* Helpers.                                                                 *)

Less == {p \in Nat \X Nat : p[1] < p[2]}

\* The order of the natural numbers is well founded.
LEMMA LessIsWellFounded == IsWellFoundedOn(Less, Nat)
<1>1. Less = OpToRel(<, Nat)
  BY DEF Less, OpToRel
<1> QED
  BY <1>1, NatLessThanWellFounded

\* The first of some names is one of them.
LEMMA FirstIn ==
  ASSUME NEW names \in SUBSET Name, names # {}
  PROVE  First(names) \in names
<1> DEFINE T == {Place[n] : n \in names}
<1>1. T \subseteq Nat /\ T # {}
  BY PlaceAssumption
<1>2. \E x \in T : \A y \in T : ~ (<<y, x>> \in Less)
  <2> HIDE DEF T
  <2> QED
    BY <1>1, LessIsWellFounded, WFMin
<1>3. PICK n \in names : \A m \in names : ~ (<<Place[m], Place[n]>> \in Less)
  BY <1>2
<1>4. \A m \in names : Place[n] <= Place[m]
  <2> SUFFICES ASSUME NEW m \in names
               PROVE  Place[n] <= Place[m]
    OBVIOUS
  <2>1. Place[n] \in Nat /\ Place[m] \in Nat
    BY PlaceAssumption
  <2>2. ~ (<<Place[m], Place[n]>> \in Less)
    BY <1>3
  <2>3. ~ (Place[m] < Place[n])
    BY <2>1, <2>2 DEF Less
  <2> QED
    BY <2>1, <2>3
<1> QED
  BY <1>4 DEF First

\* The name a run is at is one of those it has not done with.
LEMMA NowInTodo ==
  ASSUME TypeOK, NEW r \in Runner, todo[r] # {}
  PROVE  Now(r) \in todo[r] /\ Now(r) \in Scope(r) /\ Now(r) \in Name
<1>1. todo[r] \in SUBSET Name /\ todo[r] \subseteq Scope(r)
  BY DEF TypeOK
<1> QED
  BY <1>1, FirstIn DEF Now

\* A list with one more element.
LEMMA AppendList ==
  ASSUME NEW s, NEW e, IsList(s)
  PROVE  /\ IsList(Append(s, e))
         /\ Len(s) \in Nat /\ Len(Append(s, e)) = Len(s) + 1
         /\ DOMAIN s = 1..Len(s)
         /\ DOMAIN Append(s, e) = DOMAIN s \cup {Len(s) + 1}
         /\ Append(s, e)[Len(s) + 1] = e
         /\ \A k \in DOMAIN s : Append(s, e)[k] = s[k]
<1> DEFINE S == {s[k] : k \in DOMAIN s} \cup {e}
<1>1. s \in Seq(S)
  BY DEF IsList
<1>2. e \in S
  OBVIOUS
<1>3. /\ Append(s, e) \in Seq(S)
      /\ Len(s) \in Nat /\ Len(Append(s, e)) = Len(s) + 1
      /\ DOMAIN s = 1..Len(s)
      /\ DOMAIN Append(s, e) = 1..(Len(s) + 1)
      /\ Append(s, e)[Len(s) + 1] = e
      /\ \A k \in 1..Len(s) : Append(s, e)[k] = s[k]
  <2> HIDE DEF S
  <2> QED
    BY <1>1, <1>2
<1>4. DOMAIN Append(s, e) = DOMAIN s \cup {Len(s) + 1}
  BY <1>3
<1>5. IsList(Append(s, e))
  BY <1>3 DEF IsList
<1> QED
  BY <1>3, <1>4, <1>5

\* What Cloudflare keeps of a write is a record, and the one asked for.
LEMMA SentIsRecord ==
  ASSUME NEW want \in Want, NEW ttl \in Ttl \cup {Automatic}
  PROVE  Sent(want, ttl) \in Record /\ Settled(Sent(want, ttl), want)
<1>1. CASE want.proxied
  BY <1>1 DEF Want, Record, Sent, Settled
<1>2. CASE ~want.proxied /\ want.ttl # Unpinned
  BY <1>2 DEF Want, Record, Sent, Settled
<1>3. CASE ~want.proxied /\ want.ttl = Unpinned
  <2>1. Sent(want, ttl) = [content |-> want.content, proxied |-> want.proxied, ttl |-> ttl]
    BY <1>3 DEF Sent
  <2>2. /\ want \in [content: Content, proxied: BOOLEAN, ttl: Ttl \cup {Automatic, Unpinned}]
        /\ ~want.proxied
    BY <1>3 DEF Want
  <2>3. Sent(want, ttl) \in Record
    BY <2>1, <2>2 DEF Record
  <2> QED
    BY <2>1, <2>3, <1>3 DEF Settled
<1> QED
  BY <1>1, <1>2, <1>3

\* A record that a snapshot asks for is what Cloudflare has when nothing is
\* to be changed.
LEMMA SettledIsEqual ==
  ASSUME NEW record \in Record, NEW want \in Record, Settled(record, want)
  PROVE  record = want
<1>1. want.ttl # Unpinned
  BY RecordAssumption DEF Record
<1> QED
  BY <1>1 DEF Record, Settled

\* A record is added, changed or removed.
LEMMA RecordsEdited ==
  ASSUME NEW f, IsRecords(f)
  PROVE  /\ \A i \in 1..MaxRecord, record \in Record : IsRecords(With(f, i, record))
         /\ \A i \in DOMAIN f, record \in Record : IsRecords([f EXCEPT ![i] = record])
         /\ \A i \in DOMAIN f : IsRecords([j \in DOMAIN f \ {i} |-> f[j]])
BY DEF IsRecords, With

-----------------------------------------------------------------------------
(* The runs that do not take a step.                                        *)

SameRun(q) ==
  /\ pc'[q] = pc[q] /\ file'[q] = file[q] /\ safe'[q] = safe[q] /\ wanted'[q] = wanted[q]
  /\ todo'[q] = todo[q] /\ taken'[q] = taken[q] /\ found'[q] = found[q]
  /\ failed'[q] = failed[q] /\ began'[q] = began[q]

\* Snapshots are only added.
Grows ==
  \A k \in DOMAIN snapshots : k \in DOMAIN snapshots' /\ snapshots'[k] = snapshots[k]

\* Whoever changed a name left a mark.
Marked(q) ==
  /\ touched[q] \subseteq touched'[q]
  /\ pc[q] = "idle" => touched'[q] = touched[q]
  /\ q \in late => q \in late'
  /\ \A n \in Name : zone'[n] # zone[n] /\ pc[q] # "idle" =>
       n \in touched'[q] /\ (pc[q] = "write" /\ Now(q) = n => q \in late')

\* What a run knows stays true while others take steps.
LEMMA OtherRun ==
  ASSUME TypeOK, NEW q \in Runner, RunInv(q), SameRun(q), Grows, Marked(q)
  PROVE  RunInv(q)'
<1>0. /\ Scope(q)' = Scope(q) /\ Now(q)' = Now(q)
      /\ Working(q)' <=> Working(q)
  BY DEF SameRun, Scope, Now, First, Working
<1>1. /\ Scope(q) \subseteq Name
      /\ todo[q] # {} => Now(q) \in Name /\ Now(q) \in Scope(q)
  BY NowInTodo DEF TypeOK
<1>2. \A n \in Name : pc[q] # "idle" /\ n \notin touched'[q] =>
        zone'[n] = zone[n] /\ n \notin touched[q] /\ (Achieved(q, n)' <=> Achieved(q, n))
  BY DEF Marked, Achieved, SameRun
<1>3. IdleInv(q)'
  BY DEF RunInv, IdleInv, SameRun, Marked
<1>4. WantInv(q)'
  <2>1. WantInv(q)
    BY DEF RunInv
  <2> QED
    BY <2>1, <1>0 DEF WantInv, SameRun, Grows
<1>5. TakingInv(q)'
  <2>1. TakingInv(q)
    BY DEF RunInv
  <2>2. pc[q] = "snapshot" => \A n \in DOMAIN taken[q] : n \in Name
    BY <2>1, <1>1 DEF TakingInv
  <2> QED
    BY <2>1, <2>2, <1>0, <1>1, <1>2 DEF TakingInv, SameRun
<1>6. DoneInv(q)'
  <2>1. DoneInv(q)
    BY DEF RunInv
  <2>2. Working(q) => pc[q] # "idle"
    BY DEF Working
  <2> QED
    BY <2>1, <2>2, <1>0, <1>1, <1>2 DEF DoneInv, SameRun
<1>7. WriteInv(q)'
  <2>1. WriteInv(q)
    BY DEF RunInv
  <2>2. /\ pc'[q] = pc[q] /\ todo'[q] = todo[q] /\ found'[q] = found[q]
        /\ wanted'[q] = wanted[q]
    BY DEF SameRun
  <2>3. pc[q] \in {"write", "confirm"} => todo[q] # {} /\ Now(q) \in Name
    BY <2>1, <1>1 DEF WriteInv
  <2>4. ASSUME pc[q] = "write", q \notin late' \/ Now(q) \notin touched'[q]
        PROVE  DOMAIN zone'[Now(q)] = IF found[q] = 0 THEN {} ELSE {found[q]}
    <3>1. zone'[Now(q)] = zone[Now(q)] /\ (q \notin late \/ Now(q) \notin touched[q])
      BY <2>3, <2>4 DEF Marked
    <3> QED
      BY <3>1, <2>1, <2>4 DEF WriteInv
  <2>5. ASSUME pc[q] = "confirm", Now(q) \notin touched'[q]
        PROVE  Achieved(q, Now(q))'
    <3>1. Achieved(q, Now(q))
      BY <2>1, <2>3, <2>5, <1>2 DEF WriteInv
    <3>2. zone'[Now(q)] = zone[Now(q)]
      BY <2>3, <2>5, <1>2
    <3> QED
      BY <3>1, <3>2, <2>2, <1>0 DEF Achieved
  <2> QED
    BY <2>1, <2>2, <2>4, <2>5, <1>0 DEF WriteInv
<1>8. UndoInv(q)'
  <2>1. UndoInv(q)
    BY DEF RunInv
  <2>2. CASE ~ (safe[q] /\ Working(q))
    BY <2>2, <1>0 DEF UndoInv, SameRun
  <2>3. CASE safe[q] /\ Working(q)
    <3>1. PICK k \in DOMAIN snapshots : \A n \in Scope(q) \ touched[q] :
            n \in DOMAIN snapshots[k] /\ snapshots[k][n] = began[q][n]
      BY <2>1, <2>3 DEF UndoInv
    <3>2. k \in DOMAIN snapshots' /\ snapshots'[k] = snapshots[k]
      BY DEF Grows
    <3>3. \A n \in Scope(q) \ touched'[q] :
            n \in DOMAIN snapshots'[k] /\ snapshots'[k][n] = began'[q][n]
      BY <3>1, <3>2 DEF Marked, SameRun
    <3> QED
      BY <3>2, <3>3, <1>0 DEF UndoInv
  <2> QED
    BY <2>2, <2>3
<1> QED
  BY <1>3, <1>4, <1>5, <1>6, <1>7, <1>8 DEF RunInv

-----------------------------------------------------------------------------
(* The run that takes a step.                                               *)

\* A run that ends knows nothing.
LEMMA EndsRun ==
  ASSUME TypeOK, NEW r \in Runner, Ends(r)
  PROVE  RunInv(r)'
<1>1. /\ pc'[r] = "idle" /\ file'[r] = 0 /\ safe'[r] = FALSE /\ todo'[r] = {}
      /\ failed'[r] = FALSE /\ touched'[r] = {}
      /\ wanted'[r] = Empty /\ taken'[r] = Empty
  BY DEF Ends, Exit, Goto, TypeOK
<1>2. DOMAIN Empty = {}
  BY DEF Empty
<1> QED
  BY <1>1, <1>2 DEF RunInv, IdleInv, WantInv, TakingInv, DoneInv, WriteInv, UndoInv, Working, Scope

\* A run that reports one name and goes on with the next.
LEMMA ReportRun ==
  ASSUME TypeOK, NEW r \in Runner, RunInv(r), Working(r), todo[r] # {}, Grows,
         touched'[r] = touched[r], NEW bad \in BOOLEAN, Report(r, bad),
         \A n \in Name \ {Now(r)} : zone'[n] = zone[n],
         \/ bad
         \/ Now(r) \in touched[r]
         \/ zone'[Now(r)] = zone[Now(r)] /\ Achieved(r, Now(r))
  PROVE  RunInv(r)'
<1>1. /\ pc'[r] = "lookup" /\ file'[r] = file[r] /\ safe'[r] = safe[r]
      /\ wanted'[r] = wanted[r] /\ began'[r] = began[r]
      /\ todo'[r] = todo[r] \ {Now(r)}
      /\ failed'[r] = (failed[r] \/ bad)
  BY DEF Report, Goto, TypeOK
<1>2. Scope(r)' = Scope(r) /\ Scope(r) \subseteq Name
  BY <1>1 DEF Scope, TypeOK
<1>3. IdleInv(r)' /\ TakingInv(r)' /\ WriteInv(r)'
  BY <1>1 DEF IdleInv, TakingInv, WriteInv
<1>4. WantInv(r)'
  <2>1. WantInv(r)
    BY DEF RunInv
  <2> QED
    BY <2>1, <1>1, <1>2 DEF WantInv, Working, Grows
<1>5. DoneInv(r)'
  <2>1. DoneInv(r)
    BY DEF RunInv
  <2> SUFFICES ASSUME ~failed[r], ~bad, NEW n \in Scope(r), n \notin todo'[r], n \notin touched[r]
               PROVE  Achieved(r, n)'
    BY <1>1, <1>2 DEF DoneInv
  <2>2. zone'[n] = zone[n] /\ Achieved(r, n)
    BY <2>1, <1>1, <1>2 DEF DoneInv
  <2> QED
    BY <2>2, <1>1 DEF Achieved
<1>6. UndoInv(r)'
  <2>1. UndoInv(r)
    BY DEF RunInv
  <2>2. CASE ~safe[r]
    BY <2>2, <1>1 DEF UndoInv
  <2>3. CASE safe[r]
    <3>1. PICK k \in DOMAIN snapshots : \A n \in Scope(r) \ touched[r] :
            n \in DOMAIN snapshots[k] /\ snapshots[k][n] = began[r][n]
      BY <2>1, <2>3 DEF UndoInv
    <3>2. k \in DOMAIN snapshots' /\ snapshots'[k] = snapshots[k]
      BY DEF Grows
    <3> QED
      BY <3>1, <3>2, <1>1, <1>2 DEF UndoInv
  <2> QED
    BY <2>2, <2>3
<1> QED
  BY <1>3, <1>4, <1>5, <1>6 DEF RunInv

\* A step that leaves records and files alone preserves what it does not
\* concern.
LEMMA QuietStep ==
  ASSUME TypeOK, IInv, NEW r \in Runner, RunInv(r)',
         zone' = zone, snapshots' = snapshots, origins' = origins, raced' = raced,
         \A q \in Runner \ {r} :
           SameRun(q) /\ touched'[q] = touched[q] /\ (q \in late => q \in late')
  PROVE  IInv'
<1>1. ASSUME NEW q \in Runner, q # r
      PROVE  RunInv(q)'
  BY <1>1, OtherRun DEF IInv, Grows, Marked
<1>2. FileInv' /\ NoRecordTwice' /\ IsList(snapshots)' /\ IsList(origins)'
  BY DEF IInv, FileInv, NoRecordTwice, IsList
<1> QED
  BY <1>1, <1>2 DEF IInv

-----------------------------------------------------------------------------
(* One lemma per action.                                                    *)

\* The end of a run, wherever it comes.
LEMMA EndsStep ==
  ASSUME TypeOK, IInv, NEW r \in Runner, Ends(r),
         UNCHANGED <<remote, snapshots, runs, byHand, origins>>
  PROVE  TypeOK' /\ IInv'
<1>1. TypeOK'
  <2>1. IsTable(Empty) /\ DOMAIN Empty = {}
    BY DEF Empty, IsTable
  <2>2. 0 \in 0..MaxRecord /\ 0 \in 0..Len(snapshots)
    BY BoundAssumption DEF TypeOK
  <2>3. \A q \in Runner :
          /\ Scope(q)' \subseteq Name
          /\ \A n \in Scope(q)' : \A i \in DOMAIN wanted'[q][n] : wanted'[q][n][i] \in Want
          /\ todo'[q] \subseteq Scope(q)'
          /\ IsTable(taken'[q]) /\ IsTable(began'[q])
    BY <2>1 DEF TypeOK, Ends, Exit, Scope
  <2>4. /\ pc' \in [Runner -> {"idle", "snapshot", "lookup", "write", "confirm"}]
        /\ file' \in [Runner -> 0..Len(snapshots)]
        /\ safe' \in [Runner -> BOOLEAN] /\ failed' \in [Runner -> BOOLEAN]
        /\ found' \in [Runner -> 0..MaxRecord]
        /\ todo' \in [Runner -> SUBSET Name] /\ touched' \in [Runner -> SUBSET Name]
        /\ DOMAIN wanted' = Runner /\ DOMAIN taken' = Runner /\ DOMAIN began' = Runner
        /\ late' \subseteq Runner
    BY <2>2 DEF TypeOK, Ends, Exit, Goto
  <2> QED
    BY <2>3, <2>4 DEF TypeOK, remote, IsTable, IsRecords
<1>2. RunInv(r)'
  BY EndsRun
<1>3. \A q \in Runner \ {r} :
        SameRun(q) /\ touched'[q] = touched[q] /\ (q \in late => q \in late')
  BY DEF Ends, Exit, Goto, SameRun, TypeOK
<1> QED
  BY <1>1, <1>2, <1>3, QuietStep DEF remote

\* A report that changes no record.
LEMMA ReportStep ==
  ASSUME TypeOK, IInv, NEW r \in Runner, Working(r), todo[r] # {},
         NEW bad \in BOOLEAN, Report(r, bad),
         bad \/ Now(r) \in touched[r] \/ Achieved(r, Now(r)),
         UNCHANGED <<remote, snapshots, runs, byHand, touched, origins>>,
         late' = late \/ late' = late \ {r}
  PROVE  TypeOK' /\ IInv'
<1>1. TypeOK'
  <2>1. \A q \in Runner :
          /\ Scope(q)' \subseteq Name
          /\ \A n \in Scope(q)' : \A i \in DOMAIN wanted'[q][n] : wanted'[q][n][i] \in Want
          /\ todo'[q] \subseteq Scope(q)'
          /\ IsTable(taken'[q]) /\ IsTable(began'[q])
    BY DEF TypeOK, Report, Scope
  <2>2. /\ pc' \in [Runner -> {"idle", "snapshot", "lookup", "write", "confirm"}]
        /\ failed' \in [Runner -> BOOLEAN]
        /\ found' \in [Runner -> 0..MaxRecord]
        /\ todo' \in [Runner -> SUBSET Name]
        /\ late' \subseteq Runner
    BY BoundAssumption DEF TypeOK, Report, Goto
  <2> QED
    BY <2>1, <2>2 DEF TypeOK, remote, Report, IsTable, IsRecords
<1>2. RunInv(r)'
  BY ReportRun DEF IInv, remote, Grows
<1>3. \A q \in Runner \ {r} :
        SameRun(q) /\ touched'[q] = touched[q] /\ (q \in late => q \in late')
  BY DEF Report, Goto, SameRun, TypeOK
<1> QED
  BY <1>1, <1>2, <1>3, QuietStep DEF remote

\* The read-back.
LEMMA ConfirmStep ==
  ASSUME TypeOK, IInv, NEW r \in Runner, Confirm(r)
  PROVE  TypeOK' /\ IInv'
<1>1. Working(r) /\ WriteInv(r) /\ pc[r] = "confirm"
  BY DEF Confirm, Working, IInv, RunInv
<1>2. todo[r] # {} /\ (Now(r) \notin touched[r] => Achieved(r, Now(r)))
  BY <1>1 DEF WriteInv
<1>3. CASE Report(r, TRUE)
  BY <1>1, <1>2, <1>3, ReportStep DEF Confirm
<1>4. CASE Report(r, FALSE)
  BY <1>1, <1>2, <1>4, ReportStep DEF Confirm
<1> QED
  BY <1>3, <1>4 DEF Confirm

\* A sync begins.
LEMMA BeginSyncStep ==
  ASSUME TypeOK, IInv, NEW r \in Runner, BeginSync(r)
  PROVE  TypeOK' /\ IInv'
<1> DEFINE want(job) == [content |-> job.target, proxied |-> job.proxied, ttl |-> Unpinned]
           entries(job) == [n \in job.names |-> [i \in {1} |-> want(job)]]
           before(job) == IF job.snapshot THEN [n \in job.names |-> zone[n]] ELSE Empty
<1>1. PICK job \in Jobs :
        /\ Starts(r, job.names)
        /\ wanted' = [wanted EXCEPT ![r] = entries(job)]
        /\ safe' = [safe EXCEPT ![r] = job.snapshot]
        /\ began' = [began EXCEPT ![r] = before(job)]
        /\ Goto(r, IF job.snapshot THEN "snapshot" ELSE "lookup")
        /\ UNCHANGED file
  BY DEF BeginSync
<1>2. /\ job.names \subseteq Name /\ job.target \in Content
      /\ job.proxied \in BOOLEAN /\ job.snapshot \in BOOLEAN
  BY JobsAssumption
<1>3. want(job) \in Want
  BY <1>2 DEF Want
<1>4. /\ DOMAIN entries(job) = job.names
      /\ \A n \in job.names : entries(job)[n] = [i \in {1} |-> want(job)]
      /\ \A n \in job.names : DOMAIN entries(job)[n] = {1} /\ entries(job)[n][1] = want(job)
  OBVIOUS
<1>5. IsTable(before(job)) /\ (job.snapshot => before(job) = [n \in job.names |-> zone[n]])
  <2>1. CASE job.snapshot
    BY <2>1, <1>2 DEF TypeOK, IsTable
  <2>2. CASE ~job.snapshot
    BY <2>2 DEF IsTable, Empty
  <2> QED
    BY <2>1, <2>2, <1>2
<1> HIDE DEF want, entries, before
<1>6. /\ pc[r] = "idle" /\ pc' = [pc EXCEPT ![r] = IF job.snapshot THEN "snapshot" ELSE "lookup"]
      /\ runs < MaxRuns /\ runs' = runs + 1
      /\ todo' = [todo EXCEPT ![r] = job.names]
      /\ UNCHANGED <<remote, snapshots, taken, found, failed, byHand, touched, late, origins>>
  BY <1>1 DEF Starts, Goto
<1>7. TypeOK'
  <2>1. \A q \in Runner :
          /\ Scope(q)' \subseteq Name
          /\ \A n \in Scope(q)' : \A i \in DOMAIN wanted'[q][n] : wanted'[q][n][i] \in Want
          /\ todo'[q] \subseteq Scope(q)'
          /\ IsTable(taken'[q]) /\ IsTable(began'[q])
    BY <1>1, <1>2, <1>3, <1>4, <1>5, <1>6 DEF TypeOK, Scope
  <2>2. /\ pc' \in [Runner -> {"idle", "snapshot", "lookup", "write", "confirm"}]
        /\ safe' \in [Runner -> BOOLEAN]
        /\ todo' \in [Runner -> SUBSET Name]
        /\ runs' \in 0..MaxRuns
    BY <1>1, <1>2, <1>6, BoundAssumption DEF TypeOK
  <2> QED
    BY <2>1, <2>2, <1>1, <1>6 DEF TypeOK, remote, IsTable, IsRecords
<1>8. RunInv(r)'
  <2>1. IdleInv(r)
    BY DEF IInv, RunInv
  <2>2. /\ file'[r] = 0 /\ failed'[r] = FALSE /\ touched'[r] = {} /\ DOMAIN taken'[r] = {}
        /\ pc'[r] = (IF job.snapshot THEN "snapshot" ELSE "lookup")
        /\ safe'[r] = job.snapshot /\ todo'[r] = job.names /\ wanted'[r] = entries(job)
        /\ began'[r] = before(job) /\ Scope(r)' = job.names
    BY <2>1, <1>1, <1>4, <1>6 DEF IdleInv, TypeOK, Scope
  <2>3. IdleInv(r)' /\ WantInv(r)' /\ DoneInv(r)' /\ WriteInv(r)' /\ UndoInv(r)'
    BY <2>2, <1>2, <1>4 DEF IdleInv, WantInv, DoneInv, WriteInv, UndoInv, Working
  <2>4. TakingInv(r)'
    BY <2>2, <1>2, <1>5, <1>6 DEF TakingInv, remote
  <2> QED
    BY <2>3, <2>4 DEF RunInv
<1>9. \A q \in Runner \ {r} :
        SameRun(q) /\ touched'[q] = touched[q] /\ (q \in late => q \in late')
  BY <1>1, <1>6 DEF SameRun, TypeOK
<1> QED
  BY <1>6, <1>7, <1>8, <1>9, QuietStep DEF remote

\* A restore begins.
LEMMA BeginRestoreStep ==
  ASSUME TypeOK, IInv, NEW r \in Runner, BeginRestore(r)
  PROVE  TypeOK' /\ IInv'
<1>1. PICK k \in DOMAIN snapshots :
        /\ Starts(r, DOMAIN snapshots[k])
        /\ wanted' = [wanted EXCEPT ![r] = snapshots[k]]
        /\ file' = [file EXCEPT ![r] = k]
        /\ Goto(r, "lookup")
        /\ UNCHANGED <<safe, began>>
  BY DEF BeginRestore
<1>2. /\ pc[r] = "idle" /\ pc' = [pc EXCEPT ![r] = "lookup"]
      /\ runs < MaxRuns /\ runs' = runs + 1
      /\ todo' = [todo EXCEPT ![r] = DOMAIN snapshots[k]]
      /\ UNCHANGED <<remote, snapshots, taken, found, failed, byHand, touched, late, origins>>
  BY <1>1 DEF Starts, Goto
<1>3. k \in 1..Len(snapshots) /\ Len(snapshots) \in Nat
  BY AppendList DEF IInv
<1>4. /\ DOMAIN snapshots[k] \subseteq Name
      /\ \A n \in DOMAIN snapshots[k] : \A i \in DOMAIN snapshots[k][n] :
           snapshots[k][n][i] \in Want
  <2>1. IsTable(snapshots[k])
    BY DEF TypeOK
  <2>2. Record \subseteq Want
    BY DEF Record, Want
  <2> QED
    BY <2>1, <2>2 DEF IsTable, IsRecords
<1>5. TypeOK'
  <2>1. \A q \in Runner :
          /\ Scope(q)' \subseteq Name
          /\ \A n \in Scope(q)' : \A i \in DOMAIN wanted'[q][n] : wanted'[q][n][i] \in Want
          /\ todo'[q] \subseteq Scope(q)'
          /\ IsTable(taken'[q]) /\ IsTable(began'[q])
    BY <1>1, <1>2, <1>4 DEF TypeOK, Scope
  <2>2. /\ pc' \in [Runner -> {"idle", "snapshot", "lookup", "write", "confirm"}]
        /\ file' \in [Runner -> 0..Len(snapshots)]
        /\ todo' \in [Runner -> SUBSET Name]
        /\ runs' \in 0..MaxRuns
    BY <1>1, <1>2, <1>3, <1>4, BoundAssumption DEF TypeOK
  <2> QED
    BY <2>1, <2>2, <1>1, <1>2 DEF TypeOK, remote, IsTable, IsRecords
<1>6. RunInv(r)'
  <2>1. IdleInv(r)
    BY DEF IInv, RunInv
  <2>2. /\ file'[r] = k /\ failed'[r] = FALSE /\ safe'[r] = FALSE
        /\ pc'[r] = "lookup" /\ todo'[r] = DOMAIN snapshots[k]
        /\ wanted'[r] = snapshots[k] /\ Scope(r)' = DOMAIN snapshots[k]
    BY <2>1, <1>1, <1>2 DEF IdleInv, TypeOK, Scope
  <2> QED
    BY <2>2, <1>2, <1>3
    DEF RunInv, IdleInv, WantInv, TakingInv, DoneInv, WriteInv, UndoInv, Working
<1>7. \A q \in Runner \ {r} :
        SameRun(q) /\ touched'[q] = touched[q] /\ (q \in late => q \in late')
  BY <1>1, <1>2 DEF SameRun, TypeOK
<1> QED
  BY <1>2, <1>5, <1>6, <1>7, QuietStep DEF remote

\* One name is added to the snapshot.
LEMMA TakeRecordsStep ==
  ASSUME TypeOK, IInv, NEW r \in Runner, TakeRecords(r)
  PROVE  TypeOK' /\ IInv'
<1> DEFINE n == First(Scope(r) \ DOMAIN taken[r])
<1>1. pc[r] = "snapshot" /\ TakingInv(r) /\ IdleInv(r) /\ WantInv(r)
  BY DEF TakeRecords, IInv, RunInv
<1>2. n \in Scope(r) /\ n \in Name
  <2>1. Scope(r) \ DOMAIN taken[r] \in SUBSET Name /\ Scope(r) \ DOMAIN taken[r] # {}
    BY <1>1 DEF TakingInv, TypeOK, TakeRecords
  <2> QED
    BY <2>1, FirstIn
<1>3. CASE Ends(r)
  BY <1>3, EndsStep DEF TakeRecords
<1>4. CASE ~Ends(r)
  <2>1. /\ taken' = [taken EXCEPT ![r] = With(taken[r], n, zone[n])]
        /\ UNCHANGED <<pc, file, safe, wanted, todo, found, failed, began, touched, late>>
        /\ UNCHANGED <<remote, snapshots, runs, byHand, origins>>
    BY <1>4 DEF TakeRecords
  <2> HIDE DEF n
  <2>2. /\ DOMAIN taken'[r] = DOMAIN taken[r] \cup {n}
        /\ taken'[r][n] = zone[n]
        /\ \A m \in DOMAIN taken[r] \ {n} : taken'[r][m] = taken[r][m]
    BY <2>1 DEF With, TypeOK
  <2>3. TypeOK'
    <3>1. IsTable(taken'[r])
      BY <2>2, <1>2 DEF TypeOK, IsTable
    <3>2. \A q \in Runner : IsTable(taken'[q])
      BY <3>1, <2>1 DEF TypeOK
    <3> QED
      BY <3>2, <2>1 DEF TypeOK, remote, Scope, IsTable, IsRecords
  <2>4. RunInv(r)'
    BY <1>1, <1>2, <2>1, <2>2
    DEF remote, RunInv, IdleInv, WantInv, TakingInv, DoneInv, WriteInv, UndoInv, Working, Scope
  <2>5. \A q \in Runner \ {r} :
          SameRun(q) /\ touched'[q] = touched[q] /\ (q \in late => q \in late')
    BY <2>1 DEF SameRun, TypeOK
  <2> QED
    BY <2>1, <2>3, <2>4, <2>5, QuietStep DEF remote
<1> QED
  BY <1>3, <1>4

\* The snapshot becomes a file.
LEMMA SaveSnapshotStep ==
  ASSUME TypeOK, IInv, NEW r \in Runner, SaveSnapshot(r)
  PROVE  TypeOK' /\ IInv'
<1> DEFINE k == Len(snapshots) + 1
           origin == [before |-> began[r], blurred |-> touched[r]]
<1>1. /\ pc[r] = "snapshot" /\ DOMAIN taken[r] = Scope(r)
      /\ TakingInv(r) /\ WantInv(r)
  BY DEF SaveSnapshot, IInv, RunInv
<1>2. CASE Ends(r) /\ UNCHANGED <<snapshots, origins>>
  BY <1>2, EndsStep DEF SaveSnapshot
<1>3. CASE /\ snapshots' = Append(snapshots, taken[r])
           /\ origins' = Append(origins, origin)
           /\ taken' = [taken EXCEPT ![r] = Empty]
           /\ Goto(r, "lookup")
           /\ UNCHANGED <<file, safe, wanted, todo, found, failed, began, touched, late>>
  <2>0. UNCHANGED <<remote, runs, byHand>>
    BY DEF SaveSnapshot
  <2>1. /\ IsList(snapshots)' /\ IsList(origins)'
        /\ Len(origins) = Len(snapshots) /\ Len(snapshots) \in Nat
        /\ Len(snapshots') = k /\ Len(origins') = k
        /\ DOMAIN snapshots = 1..Len(snapshots) /\ DOMAIN origins = 1..Len(snapshots)
        /\ DOMAIN snapshots' = DOMAIN snapshots \cup {k} /\ k \notin DOMAIN snapshots
        /\ snapshots'[k] = taken[r] /\ origins'[k] = origin
        /\ \A j \in DOMAIN snapshots :
             snapshots'[j] = snapshots[j] /\ origins'[j] = origins[j]
    <3>1. IsList(snapshots) /\ IsList(origins) /\ Len(origins) = Len(snapshots)
      BY DEF IInv, TypeOK
    <3>2. /\ IsList(Append(snapshots, taken[r]))
          /\ Len(snapshots) \in Nat /\ Len(Append(snapshots, taken[r])) = Len(snapshots) + 1
          /\ DOMAIN snapshots = 1..Len(snapshots)
          /\ DOMAIN Append(snapshots, taken[r]) = DOMAIN snapshots \cup {Len(snapshots) + 1}
          /\ Append(snapshots, taken[r])[Len(snapshots) + 1] = taken[r]
          /\ \A j \in DOMAIN snapshots : Append(snapshots, taken[r])[j] = snapshots[j]
      BY <3>1, AppendList
    <3>3. /\ IsList(Append(origins, origin))
          /\ Len(Append(origins, origin)) = Len(origins) + 1
          /\ DOMAIN origins = 1..Len(origins)
          /\ Append(origins, origin)[Len(origins) + 1] = origin
          /\ \A j \in DOMAIN origins : Append(origins, origin)[j] = origins[j]
      <4> HIDE DEF origin
      <4> QED
        BY <3>1, AppendList
    <3>4. snapshots' = Append(snapshots, taken[r]) /\ origins' = Append(origins, origin)
      BY <1>3
    <3> HIDE DEF origin
    <3>5. IsList(snapshots)' /\ IsList(origins)'
      BY <3>2, <3>3, <3>4 DEF IsList
    <3>6. k \notin 1..Len(snapshots)
      BY <3>2
    <3> HIDE DEF k
    <3>7. k = Len(snapshots) + 1
      BY DEF k
    <3> QED
      BY <3>1, <3>2, <3>3, <3>4, <3>5, <3>6, <3>7
  <2>2. origin.before = began[r] /\ origin.blurred = touched[r]
    OBVIOUS
  <2> HIDE DEF origin, k
  <2>3. /\ pc' = [pc EXCEPT ![r] = "lookup"] /\ taken' = [taken EXCEPT ![r] = Empty]
        /\ UNCHANGED <<file, safe, wanted, todo, found, failed, began, touched, late>>
    BY <1>3 DEF Goto
  <2>4. TypeOK'
    <3>1. IsTable(Empty) /\ \A q \in Runner : IsTable(taken'[q])
      BY <2>3 DEF Empty, IsTable, TypeOK
    <3>2. \A j \in DOMAIN snapshots' : IsTable(snapshots'[j])
      BY <2>1 DEF TypeOK
    <3>3. file' \in [Runner -> 0..Len(snapshots')]
      BY <2>1, <2>3 DEF TypeOK, k
    <3>4. /\ pc' \in [Runner -> {"idle", "snapshot", "lookup", "write", "confirm"}]
          /\ DOMAIN taken' = Runner
      BY <2>3 DEF TypeOK
    <3> QED
      BY <3>1, <3>2, <3>3, <3>4, <2>0, <2>1, <2>3 DEF TypeOK, remote, Scope, IsTable, IsRecords
  <2>5. Grows
    BY <2>1 DEF Grows
  <2>6. RunInv(r)'
    <3>1. /\ pc'[r] = "lookup" /\ file'[r] = 0 /\ todo'[r] = Scope(r)
          /\ Scope(r)' = Scope(r) /\ wanted'[r] = wanted[r] /\ touched'[r] = touched[r]
          /\ began'[r] = began[r]
      BY <1>1, <2>3 DEF TakingInv, TypeOK, Scope
    <3>2. IdleInv(r)' /\ WantInv(r)' /\ TakingInv(r)' /\ DoneInv(r)' /\ WriteInv(r)'
      BY <3>1, <1>1 DEF IdleInv, WantInv, TakingInv, DoneInv, WriteInv, Working
    <3>3. UndoInv(r)'
      <4>1. \A n \in Scope(r) \ touched[r] :
              n \in DOMAIN snapshots'[k] /\ snapshots'[k][n] = began[r][n]
        BY <1>1, <2>1 DEF TakingInv
      <4> QED
        BY <4>1, <3>1, <2>1 DEF UndoInv
    <3> QED
      BY <3>2, <3>3 DEF RunInv
  <2>7. ASSUME NEW q \in Runner, q # r
        PROVE  RunInv(q)'
    <3>1. SameRun(q) /\ Marked(q)
      BY <2>0, <2>3, <2>7 DEF SameRun, Marked, TypeOK, remote
    <3> QED
      BY <3>1, <2>5, OtherRun DEF IInv
  <2>8. FileInv'
    <3>1. \A n \in DOMAIN taken[r] \ touched[r] : began[r][n] = taken[r][n]
      BY <1>1 DEF TakingInv
    <3>2. ASSUME NEW j \in DOMAIN snapshots', NEW n \in DOMAIN snapshots'[j] \ origins'[j].blurred
          PROVE  origins'[j].before[n] = snapshots'[j][n]
      <4>1. CASE j = k
        BY <4>1, <3>1, <3>2, <2>1, <2>2
      <4>2. CASE j # k
        BY <4>2, <3>2, <2>1 DEF IInv, FileInv
      <4> QED
        BY <4>1, <4>2
    <3> QED
      BY <3>2 DEF FileInv
  <2>9. NoRecordTwice'
    BY <2>0 DEF IInv, NoRecordTwice, remote
  <2> QED
    BY <2>1, <2>4, <2>6, <2>7, <2>8, <2>9 DEF IInv
<1> QED
  BY <1>2, <1>3 DEF SaveSnapshot

\* The lookup of one name.
LEMMA LookupStep ==
  ASSUME TypeOK, IInv, NEW r \in Runner, Lookup(r)
  PROVE  TypeOK' /\ IInv'
<1> DEFINE records == zone[Now(r)]
           entry == wanted[r][Now(r)]
<1>1. /\ pc[r] = "lookup" /\ todo[r] # {} /\ Working(r)
      /\ late' = late \ {r}
      /\ UNCHANGED <<remote, snapshots, runs, byHand, touched, origins>>
  BY DEF Lookup, Working
<1>2. /\ Now(r) \in Name /\ Now(r) \in Scope(r) /\ IsRecords(records)
      /\ DOMAIN records \subseteq 1..MaxRecord
  BY <1>1, NowInTodo DEF TypeOK, IsTable, IsRecords
<1>3. CASE Report(r, TRUE)
  BY <1>1, <1>3, ReportStep
<1>4. CASE RestoreAbsent(r)
  <2>1. DOMAIN records # {} \/ Achieved(r, Now(r))
    BY <1>4 DEF Achieved, RestoreAbsent
  <2> DEFINE bad == DOMAIN records # {}
  <2>2. bad \in BOOLEAN /\ Report(r, bad) /\ (bad \/ Achieved(r, Now(r)))
    BY <2>1, <1>4 DEF RestoreAbsent
  <2> HIDE DEF bad
  <2> QED
    BY <1>1, <2>2, ReportStep
<1>5. ASSUME NEW i \in DOMAIN entry, DOMAIN entry = {i}, ~Conflict(records, entry[i]),
             NEW j \in DOMAIN records, Settled(records[j], entry[i]), Report(r, FALSE)
      PROVE  TypeOK' /\ IInv'
  <2>1. DOMAIN records = {j}
    BY <1>5 DEF Conflict
  <2>2. Achieved(r, Now(r))
    BY <2>1, <1>5 DEF Achieved
  <2> QED
    BY <1>1, <1>5, <2>2, ReportStep
<1>6. ASSUME NEW i \in DOMAIN entry, DOMAIN entry = {i}, ~Conflict(records, entry[i]),
             found' = [found EXCEPT ![r] =
               IF DOMAIN records = {} THEN 0 ELSE CHOOSE j \in DOMAIN records : TRUE],
             Goto(r, "write"),
             UNCHANGED <<file, safe, wanted, todo, taken, failed, began>>
      PROVE  TypeOK' /\ IInv'
  <2>1. /\ found'[r] \in 0..MaxRecord
        /\ DOMAIN records = IF found'[r] = 0 THEN {} ELSE {found'[r]}
    <3>1. CASE DOMAIN records = {}
      BY <3>1, <1>6, BoundAssumption DEF TypeOK
    <3>2. CASE DOMAIN records # {}
      <4>1. found'[r] \in DOMAIN records
        BY <3>2, <1>6 DEF TypeOK
      <4>2. DOMAIN records = {found'[r]}
        BY <4>1, <1>6 DEF Conflict
      <4> QED
        BY <4>1, <4>2, <1>2, BoundAssumption
    <3> QED
      BY <3>1, <3>2
  <2>2. TypeOK'
    <3>1. /\ pc' \in [Runner -> {"idle", "snapshot", "lookup", "write", "confirm"}]
          /\ found' \in [Runner -> 0..MaxRecord]
          /\ late' \subseteq Runner
      BY <1>1, <1>6, <2>1 DEF TypeOK, Goto
    <3> QED
      BY <3>1, <1>1, <1>6 DEF TypeOK, remote, Scope, IsTable, IsRecords
  <2>3. RunInv(r)'
    <3>1. /\ pc'[r] = "write" /\ pc[r] = "lookup" /\ Now(r)' = Now(r) /\ Scope(r)' = Scope(r)
          /\ wanted'[r] = wanted[r] /\ zone' = zone /\ todo'[r] = todo[r]
      BY <1>1, <1>6 DEF TypeOK, Goto, Now, First, Scope, remote
    <3>2. WriteInv(r)'
      BY <3>1, <2>1, <1>1, <1>6 DEF WriteInv
    <3>3. \A n \in Scope(r) : Achieved(r, n)' <=> Achieved(r, n)
      BY <3>1 DEF Achieved
    <3>4. IdleInv(r)' /\ WantInv(r)' /\ TakingInv(r)' /\ DoneInv(r)' /\ UndoInv(r)'
      BY <3>1, <3>3, <1>1, <1>6
      DEF IInv, RunInv, IdleInv, WantInv, TakingInv, DoneInv, UndoInv, Working
    <3> QED
      BY <3>2, <3>4 DEF RunInv
  <2>4. \A q \in Runner \ {r} :
          SameRun(q) /\ touched'[q] = touched[q] /\ (q \in late => q \in late')
    BY <1>1, <1>6 DEF SameRun, Goto, TypeOK
  <2> QED
    BY <1>1, <2>2, <2>3, <2>4, QuietStep DEF remote
<1> QED
  BY <1>3, <1>4, <1>5, <1>6 DEF Lookup

\* What a write does to the records, and the marks it leaves.
LEMMA AppliedWrite ==
  ASSUME TypeOK, IInv, NEW r \in Runner, pc[r] = "write", Applied(r)
  PROVE  /\ IsTable(zone') /\ DOMAIN zone' = Name /\ made' \in [Name -> 0..MaxRecord]
         /\ raced' \subseteq Name /\ late' \subseteq Runner
         /\ touched' \in [Runner -> SUBSET Name]
         /\ touched'[r] = touched[r] /\ (r \in late' <=> r \in late)
         /\ \A n \in Name \ {Now(r)} : zone'[n] = zone[n]
         /\ r \notin late \/ Now(r) \notin touched[r] =>
              \E i \in DOMAIN zone'[Now(r)] :
                /\ DOMAIN zone'[Now(r)] = {i} /\ (found[r] # 0 => i = found[r])
                /\ Settled(zone'[Now(r)][i], Wanted(r))
         /\ NoRecordTwice'
         /\ \A q \in Runner \ {r} : Marked(q)
<1> DEFINE n == Now(r)
           want == Wanted(r)
<1>1. WriteInv(r)
  BY DEF IInv, RunInv
<1>2. n \in Name /\ n \in Scope(r) /\ todo[r] # {}
  BY <1>1, NowInTodo DEF WriteInv
<1>3. want \in Want
  <2>1. PICK j \in DOMAIN wanted[r][n] : DOMAIN wanted[r][n] = {j}
    BY <1>1 DEF WriteInv
  <2>2. want = wanted[r][n][j]
    BY <2>1 DEF Wanted
  <2> QED
    BY <2>1, <2>2, <1>2 DEF TypeOK
<1>4. /\ raced' = IF r \in late THEN raced \cup {n} ELSE raced
      /\ Disturbs(n, {r})
  BY DEF Applied
<1>5. /\ raced' \subseteq Name /\ late' \subseteq Runner
      /\ touched' \in [Runner -> SUBSET Name]
      /\ touched'[r] = touched[r] /\ (r \in late' <=> r \in late)
  BY <1>2, <1>4 DEF TypeOK, Disturbs
<1>6. \E i \in 1..MaxRecord : \E new \in [DOMAIN zone[n] \cup {i} -> Record] :
        /\ zone' = [zone EXCEPT ![n] = new]
        /\ made' \in [Name -> 0..MaxRecord]
        /\ Settled(new[i], want)
        /\ found[r] # 0 => i = found[r] /\ i \in DOMAIN zone[n]
  <2>1. IsRecords(zone[n]) /\ made[n] \in 0..MaxRecord
    BY <1>2 DEF TypeOK, IsTable
  <2>2. CASE found[r] # 0
    <3> DEFINE f == found[r]
               record == Sent(want, zone[n][f].ttl)
    <3>1. f \in DOMAIN zone[n] /\ f \in 1..MaxRecord
      BY <2>1, <2>2 DEF Applied, OfKind, IsRecords
    <3>2. zone' = [zone EXCEPT ![n] = [zone[n] EXCEPT ![f] = record]] /\ made' = made
      BY <2>2 DEF Applied
    <3>3. record \in Record /\ Settled(record, want)
      <4>1. zone[n][f].ttl \in Ttl \cup {Automatic}
        BY <2>1, <3>1 DEF IsRecords, Record
      <4> QED
        BY <4>1, <1>3, SentIsRecord
    <3> DEFINE g == [zone[n] EXCEPT ![f] = record]
    <3>4. g \in [DOMAIN zone[n] \cup {f} -> Record] /\ g[f] = record
      <4> HIDE DEF record, f
      <4> QED
        BY <2>1, <3>1, <3>3 DEF IsRecords
    <3> HIDE DEF record, g
    <3>5. zone' = [zone EXCEPT ![n] = g]
      BY <3>2 DEF g
    <3> HIDE DEF n, want
    <3> QED
      BY <3>1, <3>2, <3>3, <3>4, <3>5 DEF TypeOK
  <2>3. CASE found[r] = 0
    <3> DEFINE f == made[n] + 1
               record == Sent(want, Automatic)
    <3>1. f \in 1..MaxRecord /\ f \in 0..MaxRecord
      BY <2>1, <2>3, BoundAssumption DEF Applied
    <3>2. zone' = [zone EXCEPT ![n] = With(zone[n], f, record)] /\ made' = [made EXCEPT ![n] = f]
      BY <2>3 DEF Applied
    <3>3. record \in Record /\ Settled(record, want)
      BY <1>3, SentIsRecord
    <3> DEFINE g == With(zone[n], f, record)
    <3>4. g \in [DOMAIN zone[n] \cup {f} -> Record] /\ g[f] = record
      <4> HIDE DEF record, f
      <4> QED
        BY <2>1, <3>1, <3>3 DEF IsRecords, With
    <3>5. made' \in [Name -> 0..MaxRecord]
      <4> HIDE DEF f
      <4> QED
        BY <3>1, <3>2, <1>2 DEF TypeOK
    <3> HIDE DEF record, g, f
    <3>6. zone' = [zone EXCEPT ![n] = g]
      BY <3>2 DEF g
    <3> HIDE DEF n, want
    <3> QED
      BY <3>1, <3>3, <3>4, <3>5, <3>6, <2>3
  <2> QED
    BY <2>2, <2>3
<1>6a. PICK i \in 1..MaxRecord : \E new \in [DOMAIN zone[n] \cup {i} -> Record] :
         /\ zone' = [zone EXCEPT ![n] = new]
         /\ made' \in [Name -> 0..MaxRecord]
         /\ Settled(new[i], want)
         /\ found[r] # 0 => i = found[r] /\ i \in DOMAIN zone[n]
  BY <1>6
<1>6b. PICK new \in [DOMAIN zone[n] \cup {i} -> Record] :
         /\ zone' = [zone EXCEPT ![n] = new]
         /\ made' \in [Name -> 0..MaxRecord]
         /\ Settled(new[i], want)
         /\ found[r] # 0 => i = found[r] /\ i \in DOMAIN zone[n]
  BY <1>6a
<1>7. zone'[n] = new /\ DOMAIN zone' = Name /\ \A m \in Name \ {n} : zone'[m] = zone[m]
  BY <1>2, <1>6b DEF TypeOK
<1>8. IsTable(zone')
  <2>1. IsRecords(new)
    BY <1>2, <1>6b DEF TypeOK, IsTable, IsRecords
  <2> QED
    BY <2>1, <1>7 DEF TypeOK, IsTable
<1>9. r \notin late \/ n \notin touched[r] => DOMAIN new = {i}
  <2>1. r \notin late \/ n \notin touched[r] =>
          DOMAIN zone[n] = IF found[r] = 0 THEN {} ELSE {found[r]}
    BY <1>1 DEF WriteInv
  <2> QED
    BY <2>1, <1>6b
<1>10. NoRecordTwice'
  <2> SUFFICES ASSUME NEW m \in Name \ raced', NEW a \in DOMAIN zone'[m], NEW b \in DOMAIN zone'[m],
                      zone'[m][a].content = zone'[m][b].content
               PROVE  a = b
    BY DEF NoRecordTwice
  <2>1. CASE m = n
    BY <2>1, <1>4, <1>7, <1>9
  <2>2. CASE m # n
    BY <2>2, <1>4, <1>7 DEF IInv, NoRecordTwice
  <2> QED
    BY <2>1, <2>2
<1>11. \A q \in Runner \ {r} : Marked(q)
  BY <1>2, <1>4, <1>7 DEF Marked, Disturbs, TypeOK
<1>12. r \notin late \/ n \notin touched[r] =>
         \E j \in DOMAIN zone'[n] :
           /\ DOMAIN zone'[n] = {j} /\ (found[r] # 0 => j = found[r])
           /\ Settled(zone'[n][j], want)
  BY <1>6b, <1>7, <1>9
<1> QED
  BY <1>5, <1>6b, <1>7, <1>8, <1>10, <1>11, <1>12

\* The write.
LEMMA WriteStep ==
  ASSUME TypeOK, IInv, NEW r \in Runner, Write(r)
  PROVE  TypeOK' /\ IInv'
<1> DEFINE n == Now(r)
<1>1. /\ pc[r] = "write" /\ Working(r) /\ RunInv(r) /\ WriteInv(r)
      /\ UNCHANGED <<snapshots, runs, byHand, origins>>
  BY DEF Write, Working, IInv, RunInv
<1>2. n \in Name /\ n \in Scope(r) /\ n \in todo[r] /\ todo[r] # {}
  BY <1>1, NowInTodo DEF WriteInv
<1>3. CASE Report(r, TRUE) /\ UNCHANGED <<remote, touched, late>>
  BY <1>1, <1>2, <1>3, ReportStep
<1>4. ASSUME Applied(r),
             \/ /\ Goto(r, "confirm")
                /\ UNCHANGED <<file, safe, wanted, todo, taken, found, failed, began>>
             \/ Report(r, TRUE)
             \/ Retries(r) /\ UNCHANGED local
      PROVE  TypeOK' /\ IInv'
  <2>1. /\ IsTable(zone') /\ DOMAIN zone' = Name /\ made' \in [Name -> 0..MaxRecord]
        /\ raced' \subseteq Name /\ late' \subseteq Runner
        /\ touched' \in [Runner -> SUBSET Name]
        /\ touched'[r] = touched[r] /\ (r \in late' <=> r \in late)
        /\ \A m \in Name \ {n} : zone'[m] = zone[m]
        /\ NoRecordTwice'
        /\ \A q \in Runner \ {r} : Marked(q)
    BY <1>1, <1>4, AppliedWrite
  <2>2. r \notin late \/ n \notin touched[r] =>
          \E i \in DOMAIN zone'[n] :
            /\ DOMAIN zone'[n] = {i} /\ (found[r] # 0 => i = found[r])
            /\ Settled(zone'[n][i], Wanted(r))
    BY <1>1, <1>4, AppliedWrite
  <2>3. /\ file' = file /\ safe' = safe /\ wanted' = wanted /\ taken' = taken /\ began' = began
        /\ DOMAIN pc' = Runner /\ DOMAIN failed' = Runner
        /\ \A q \in Runner \ {r} : SameRun(q)
    BY <1>4 DEF Report, Goto, local, SameRun, TypeOK
  <2>4. TypeOK'
    <3>1. /\ pc' \in [Runner -> {"idle", "snapshot", "lookup", "write", "confirm"}]
          /\ failed' \in [Runner -> BOOLEAN]
          /\ found' \in [Runner -> 0..MaxRecord]
          /\ todo' \in [Runner -> SUBSET Name]
          /\ \A q \in Runner : todo'[q] \subseteq todo[q]
      <4>1. CASE Report(r, TRUE)
        BY <4>1, BoundAssumption DEF TypeOK, Report, Goto
      <4>2. CASE Goto(r, "confirm") /\ UNCHANGED <<todo, found, failed>>
        BY <4>2 DEF TypeOK, Goto
      <4>3. CASE UNCHANGED local
        BY <4>3 DEF TypeOK, local
      <4> QED
        BY <4>1, <4>2, <4>3, <1>4
    <3>2. \A q \in Runner : Scope(q)' = Scope(q)
      BY <2>3 DEF Scope
    <3> QED
      BY <3>1, <3>2, <2>1, <2>3, <1>1 DEF TypeOK, IsTable, IsRecords
  <2>5. Grows
    BY <1>1 DEF Grows
  <2>6. ASSUME NEW q \in Runner, q # r
        PROVE  RunInv(q)'
    BY <2>1, <2>3, <2>5, <2>6, OtherRun DEF IInv
  <2>7. RunInv(r)'
    <3>1. CASE Report(r, TRUE)
      BY <3>1, <1>1, <1>2, <2>1, <2>5, ReportRun
    <3>2. ASSUME pc'[r] \in {"write", "confirm"}, pc'[r] = "write" => found[r] # 0,
                 UNCHANGED <<file, safe, wanted, todo, taken, found, failed, began>>
          PROVE  RunInv(r)'
      <4>1. Now(r)' = n /\ Scope(r)' = Scope(r) /\ Wanted(r)' = Wanted(r)
        BY <3>2 DEF Now, First, Scope, Wanted
      <4>2. PICK j \in DOMAIN wanted[r][n] : DOMAIN wanted[r][n] = {j} /\ Wanted(r) = wanted[r][n][j]
        BY <1>1 DEF WriteInv, Wanted
      <4>3. \A m \in Scope(r) \ {n} : Achieved(r, m)' <=> Achieved(r, m)
        BY <2>1, <3>2 DEF Achieved, TypeOK
      <4>4. WriteInv(r)'
        <5>1. r \notin late \/ n \notin touched[r] => Achieved(r, Now(r))'
          <6>1. wanted'[r] = wanted[r] /\ n' = n
            BY <3>2, <4>1
          <6> HIDE DEF n
          <6>2. r \notin late \/ n \notin touched[r] =>
                  \E i \in DOMAIN zone'[n] :
                    DOMAIN zone'[n] = {i} /\ Settled(zone'[n][i], wanted[r][n][j])
            BY <2>2, <4>2
          <6> QED
            BY <6>1, <6>2, <4>1, <4>2 DEF Achieved
        <5>2. (r \notin late \/ n \notin touched[r]) /\ found[r] # 0 => DOMAIN zone'[n] = {found[r]}
          BY <2>2
        <5> HIDE DEF n
        <5> QED
          BY <5>1, <5>2, <4>1, <4>2, <3>2, <2>1, <1>2 DEF WriteInv
      <4>5. DoneInv(r)'
        BY <4>1, <4>3, <1>1, <1>2, <2>1, <3>2 DEF RunInv, DoneInv
      <4>6. IdleInv(r)' /\ WantInv(r)' /\ TakingInv(r)' /\ UndoInv(r)'
        BY <4>1, <3>2, <2>1, <1>1
        DEF RunInv, IdleInv, WantInv, TakingInv, UndoInv, Working
      <4> QED
        BY <4>4, <4>5, <4>6 DEF RunInv
    <3>3. CASE /\ Goto(r, "confirm")
               /\ UNCHANGED <<file, safe, wanted, todo, taken, found, failed, began>>
      BY <3>2, <3>3 DEF Goto, TypeOK
    <3>4. CASE Retries(r) /\ UNCHANGED local
      BY <3>2, <3>4, <1>1 DEF Retries, local
    <3> QED
      BY <3>1, <3>3, <3>4, <1>4
  <2>8. FileInv' /\ IsList(snapshots)' /\ IsList(origins)'
    BY <1>1 DEF IInv, FileInv, IsList
  <2> QED
    BY <2>1, <2>4, <2>6, <2>7, <2>8 DEF IInv
<1> QED
  BY <1>3, <1>4 DEF Write

\* A change at the dashboard.
LEMMA ByHandStep ==
  ASSUME TypeOK, IInv, ByHand
  PROVE  TypeOK' /\ IInv'
<1>1. PICK n \in Name :
        /\ \/ \E record \in Typed :
                /\ made[n] < MaxRecord
                /\ zone' = [zone EXCEPT ![n] = With(zone[n], made[n] + 1, record)]
                /\ made' = [made EXCEPT ![n] = made[n] + 1]
                /\ raced' = raced \cup {n}
           \/ \E i \in DOMAIN zone[n] :
                /\ zone' = [zone EXCEPT ![n] = [j \in DOMAIN zone[n] \ {i} |-> zone[n][j]]]
                /\ UNCHANGED <<made, raced>>
        /\ Disturbs(n, {})
  BY DEF ByHand
<1>2. UNCHANGED <<snapshots, local, runs, origins>> /\ byHand < MaxHand /\ byHand' = byHand + 1
  BY DEF ByHand
<1>3. IsRecords(zone[n]) /\ made[n] \in 0..MaxRecord
  BY DEF TypeOK, IsTable
<1> DEFINE Edited ==
      /\ IsTable(zone') /\ DOMAIN zone' = Name /\ made' \in [Name -> 0..MaxRecord]
      /\ raced \subseteq raced' /\ raced' \subseteq Name
      /\ \A m \in Name \ {n} : zone'[m] = zone[m]
      /\ NoRecordTwice'
<1>4. Edited
  <2>1. ASSUME NEW record \in Typed,
               made[n] < MaxRecord,
               zone' = [zone EXCEPT ![n] = With(zone[n], made[n] + 1, record)],
               made' = [made EXCEPT ![n] = made[n] + 1],
               raced' = raced \cup {n}
        PROVE  Edited
    <3>1. made[n] + 1 \in 1..MaxRecord /\ made[n] + 1 \in 0..MaxRecord /\ record \in Record
      BY <1>3, <2>1, BoundAssumption, RecordAssumption
    <3>2. IsRecords(With(zone[n], made[n] + 1, record))
      BY <1>3, <3>1, RecordsEdited
    <3>3. IsTable(zone') /\ \A m \in Name \ {n} : zone'[m] = zone[m]
      BY <2>1, <3>2 DEF TypeOK, IsTable
    <3>4. NoRecordTwice'
      BY <2>1, <3>3 DEF IInv, NoRecordTwice
    <3> QED
      BY <2>1, <3>1, <3>3, <3>4 DEF TypeOK
  <2>2. ASSUME NEW i \in DOMAIN zone[n],
               zone' = [zone EXCEPT ![n] = [j \in DOMAIN zone[n] \ {i} |-> zone[n][j]]],
               UNCHANGED <<made, raced>>
        PROVE  Edited
    <3>1. IsRecords([j \in DOMAIN zone[n] \ {i} |-> zone[n][j]])
      BY <1>3, RecordsEdited
    <3>2. IsTable(zone') /\ \A m \in Name \ {n} : zone'[m] = zone[m]
      BY <2>2, <3>1 DEF TypeOK, IsTable
    <3>3. NoRecordTwice'
      BY <2>2, <3>2 DEF IInv, NoRecordTwice, TypeOK
    <3> QED
      BY <2>2, <3>2, <3>3 DEF TypeOK
  <2> HIDE DEF Edited
  <2> QED
    BY <1>1, <2>1, <2>2
<1>5. /\ touched' \in [Runner -> SUBSET Name] /\ late' \subseteq Runner
      /\ \A q \in Runner : Marked(q)
  BY <1>1, <1>4 DEF TypeOK, Disturbs, Marked
<1>6. TypeOK'
  <2>1. byHand' \in 0..MaxHand
    BY <1>2, BoundAssumption DEF TypeOK
  <2> QED
    BY <1>2, <1>4, <1>5, <2>1 DEF TypeOK, local, Scope, IsTable, IsRecords
<1>7. ASSUME NEW q \in Runner
      PROVE  RunInv(q)'
  BY <1>2, <1>5, OtherRun DEF IInv, SameRun, Grows, local
<1> QED
  BY <1>2, <1>4, <1>6, <1>7 DEF IInv, FileInv, IsList

\* Every step preserves the invariant.
LEMMA NextStep ==
  ASSUME TypeOK, IInv, [Next]_vars
  PROVE  TypeOK' /\ IInv'
<1>1. ASSUME NEW r \in Runner, BeginSync(r)
      PROVE  TypeOK' /\ IInv'
  BY <1>1, BeginSyncStep
<1>2. ASSUME NEW r \in Runner, BeginRestore(r)
      PROVE  TypeOK' /\ IInv'
  BY <1>2, BeginRestoreStep
<1>3. ASSUME NEW r \in Runner, TakeRecords(r)
      PROVE  TypeOK' /\ IInv'
  BY <1>3, TakeRecordsStep
<1>4. ASSUME NEW r \in Runner, SaveSnapshot(r)
      PROVE  TypeOK' /\ IInv'
  BY <1>4, SaveSnapshotStep
<1>5. ASSUME NEW r \in Runner, Lookup(r)
      PROVE  TypeOK' /\ IInv'
  BY <1>5, LookupStep
<1>6. ASSUME NEW r \in Runner, Write(r)
      PROVE  TypeOK' /\ IInv'
  BY <1>6, WriteStep
<1>7. ASSUME NEW r \in Runner, Confirm(r)
      PROVE  TypeOK' /\ IInv'
  BY <1>7, ConfirmStep
<1>8. ASSUME NEW r \in Runner, Finish(r) \/ Kill(r)
      PROVE  TypeOK' /\ IInv'
  BY <1>8, EndsStep DEF Finish, Kill
<1>9. CASE ByHand
  BY <1>9, ByHandStep
<1>10. CASE UNCHANGED vars
  <2>1. TypeOK'
    BY <1>10 DEF TypeOK, vars, remote, local, Scope, IsTable, IsRecords
  <2>2. ASSUME NEW q \in Runner
        PROVE  RunInv(q)'
    BY <1>10, OtherRun DEF IInv, SameRun, Grows, Marked, vars, remote, local
  <2> QED
    BY <1>10, <2>1, <2>2 DEF IInv, FileInv, IsList, NoRecordTwice, vars, remote
<1> QED
  BY <1>1, <1>2, <1>3, <1>4, <1>5, <1>6, <1>7, <1>8, <1>9, <1>10 DEF Next

\* The initial states satisfy it.
LEMMA InitStep ==
  ASSUME Init
  PROVE  TypeOK /\ IInv
<1>1. /\ IsTable(zone) /\ DOMAIN zone = Name
      /\ \A n \in Name : \A i, j \in DOMAIN zone[n] :
           zone[n][i].content = zone[n][j].content => i = j
  BY RecordAssumption DEF Init
<1>2. DOMAIN Empty = {} /\ IsTable(Empty)
  BY DEF Empty, IsTable
<1>3. /\ snapshots = << >> /\ origins = << >>
      /\ DOMAIN snapshots = {} /\ Len(snapshots) = 0 /\ Len(origins) = 0
      /\ IsList(snapshots) /\ IsList(origins)
  BY DEF Init, IsList
<1>4. TypeOK
  BY <1>1, <1>2, <1>3, BoundAssumption DEF Init, TypeOK, Scope
<1>5. ASSUME NEW r \in Runner
      PROVE  RunInv(r)
  BY <1>2
  DEF Init, RunInv, IdleInv, WantInv, TakingInv, DoneInv, WriteInv, UndoInv, Working, Scope
<1> QED
  BY <1>1, <1>3, <1>4, <1>5 DEF IInv, FileInv, NoRecordTwice

\* The invariant, and every variable's type, hold throughout.
LEMMA Invariance == Spec => [](TypeOK /\ IInv)
<1>1. Init => TypeOK /\ IInv
  BY InitStep
<1>2. (TypeOK /\ IInv) /\ [Next]_vars => (TypeOK /\ IInv)'
  BY NextStep
<1> QED
  BY <1>1, <1>2, PTL DEF Spec

-----------------------------------------------------------------------------
(* The theorems.                                                            *)

\* A name's records are well formed, in the zones, the snapshots and the
\* runs.
THEOREM TypeCorrectness == Spec => []TypeOK
BY Invariance, PTL

\* No lost answer, rerun or killed run makes a second record of one content.
THEOREM RecordsAreMadeOnce == Spec => []NoRecordTwice
<1>1. IInv => NoRecordTwice
  BY DEF IInv
<1> QED
  BY <1>1, Invariance, PTL

\* A sync that exits with 0 has moved every name.
THEOREM SyncIsComplete == Spec => []SyncMovedAll
<1>1. TypeOK /\ IInv => SyncMovedAll
  <2> SUFFICES ASSUME TypeOK, IInv, NEW r \in Runner, Succeeds(r), file[r] = 0,
                      NEW n \in Scope(r) \ touched[r]
               PROVE  \E i \in DOMAIN zone[n] :
                        /\ DOMAIN zone[n] = {i}
                        /\ Settled(zone[n][i], wanted[r][n][1])
    BY DEF SyncMovedAll
  <2>1. DoneInv(r) /\ WantInv(r)
    BY DEF IInv, RunInv
  <2>2. Achieved(r, n) /\ DOMAIN wanted[r][n] = {1}
    BY <2>1 DEF DoneInv, WantInv, Succeeds, Working
  <2> QED
    BY <2>2 DEF Achieved
<1> QED
  BY <1>1, Invariance, PTL

\* A restore that exits with 0 has undone the run that took its snapshot.
THEOREM RestoreIsComplete == Spec => []RollbackIsComplete
<1>1. TypeOK /\ IInv => RollbackIsComplete
  <2> SUFFICES ASSUME TypeOK, IInv, NEW r \in Runner, Succeeds(r), file[r] # 0,
                      NEW n \in Scope(r) \ (touched[r] \cup origins[file[r]].blurred)
               PROVE  Same(zone[n], origins[file[r]].before[n])
    BY DEF RollbackIsComplete
  <2> DEFINE before == snapshots[file[r]][n]
  <2>1. DoneInv(r) /\ WantInv(r) /\ FileInv
    BY DEF IInv, RunInv
  <2>2. /\ file[r] \in DOMAIN snapshots /\ wanted[r] = snapshots[file[r]]
        /\ Achieved(r, n) /\ n \in DOMAIN snapshots[file[r]] /\ n \in Name
    BY <2>1 DEF DoneInv, WantInv, Succeeds, Working, Scope, TypeOK
  <2>3. origins[file[r]].before[n] = before
    BY <2>1, <2>2 DEF FileInv
  <2>4. IsRecords(zone[n]) /\ IsRecords(before)
    BY <2>2 DEF TypeOK, IsTable
  <2>5. IF DOMAIN before = {}
        THEN DOMAIN zone[n] = {}
        ELSE \E i \in DOMAIN zone[n], j \in DOMAIN before :
               /\ DOMAIN zone[n] = {i} /\ DOMAIN before = {j}
               /\ Settled(zone[n][i], before[j])
    BY <2>2 DEF Achieved
  <2> HIDE DEF before
  <2>6. CASE DOMAIN before = {}
    BY <2>3, <2>5, <2>6 DEF Same
  <2>7. CASE DOMAIN before # {}
    <3>1. PICK i \in DOMAIN zone[n], j \in DOMAIN before :
            /\ DOMAIN zone[n] = {i} /\ DOMAIN before = {j}
            /\ Settled(zone[n][i], before[j])
      BY <2>5, <2>7
    <3>2. zone[n][i] = before[j]
      BY <2>4, <3>1, SettledIsEqual DEF IsRecords
    <3>3. {zone[n][x] : x \in DOMAIN zone[n]} = {before[x] : x \in DOMAIN before}
      BY <3>1, <3>2
    <3>4. Cardinality(DOMAIN zone[n]) = 1 /\ Cardinality(DOMAIN before) = 1
      BY <3>1, FS_Singleton
    <3> QED
      BY <2>3, <3>3, <3>4 DEF Same
  <2> QED
    BY <2>6, <2>7
<1> QED
  BY <1>1, Invariance, PTL

\* A sync past its snapshot has a file that would undo it.
THEOREM SyncsAreUndoable == Spec => []EverySyncCanBeUndone
<1>1. IInv => EverySyncCanBeUndone
  <2> SUFFICES ASSUME IInv, NEW r \in Runner,
                      safe[r] /\ pc[r] \in {"lookup", "write", "confirm"},
                      NEW n \in Scope(r) \ touched[r]
               PROVE  \E k \in DOMAIN snapshots :
                        n \in DOMAIN snapshots[k] /\ snapshots[k][n] = began[r][n]
    BY DEF EverySyncCanBeUndone
  <2>1. UndoInv(r)
    BY DEF IInv, RunInv
  <2> QED
    BY <2>1 DEF UndoInv, Working
<1> QED
  BY <1>1, Invariance, PTL

=============================================================================
