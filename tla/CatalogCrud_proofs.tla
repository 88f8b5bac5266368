------------------------- MODULE CatalogCrud_proofs -------------------------
(***************************************************************************)
(* The safety properties of CatalogCrud, for any number of requests, any   *)
(* edits and any catalogs.  One inductive invariant carries them all: what *)
(* a request holds at each stage, and that whoever is in the preview       *)
(* directory finds its own text there.                                     *)
(***************************************************************************)
EXTENDS CatalogCrud, TLAPS

-----------------------------------------------------------------------------
(* What one edit of app/catalog_crud.py preserves, for catalogs of any      *)
(* length: an accepted edit of a well-formed catalog without clashes gives  *)
(* a well-formed catalog without clashes.                                   *)

\* Where the elements of a concatenation come from.
LEMMA ConcatElements ==
  ASSUME NEW S, NEW a \in Seq(S), NEW b \in Seq(S)
  PROVE  /\ a \o b \in Seq(S)
         /\ Len(a \o b) = Len(a) + Len(b)
         /\ \A i \in 1..Len(a) : (a \o b)[i] = a[i]
         /\ \A i \in 1..Len(b) : (a \o b)[Len(a) + i] = b[i]
OBVIOUS

\* Removing an entry keeps the others in their order.
LEMMA RemoveAtElements ==
  ASSUME NEW S, NEW s \in Seq(S), NEW k \in DOMAIN s
  PROVE  /\ RemoveAt(s, k) \in Seq(S)
         /\ DOMAIN RemoveAt(s, k) = 1..(Len(s) - 1)
         /\ \A i \in 1..(Len(s) - 1) :
              RemoveAt(s, k)[i] = IF i < k THEN s[i] ELSE s[i + 1]
<1>1. k \in 1..Len(s) /\ Len(s) \in Nat
  OBVIOUS
<1>2. PICK a : a = SubSeq(s, 1, k - 1)
  OBVIOUS
<1>3. /\ a \in Seq(S) /\ Len(a) = k - 1
      /\ \A i \in 1..(k - 1) : a[i] = s[i]
  BY <1>1, <1>2
<1>4. PICK b : b = SubSeq(s, k + 1, Len(s))
  OBVIOUS
<1>5. /\ b \in Seq(S) /\ Len(b) = Len(s) - k
      /\ \A i \in 1..(Len(s) - k) : b[i] = s[i + k]
  BY <1>1, <1>4
<1>6. PICK t : t = a \o b
  OBVIOUS
<1>7. /\ t \in Seq(S) /\ Len(t) = Len(s) - 1
      /\ \A i \in 1..(k - 1) : t[i] = a[i]
      /\ \A i \in 1..(Len(s) - k) : t[k - 1 + i] = b[i]
  <2>1. /\ t \in Seq(S) /\ Len(t) = Len(a) + Len(b)
        /\ \A i \in 1..Len(a) : t[i] = a[i]
        /\ \A i \in 1..Len(b) : t[Len(a) + i] = b[i]
    <3>1. a \in Seq(S) /\ b \in Seq(S)
      BY <1>3, <1>5
    <3>2. /\ a \o b \in Seq(S) /\ Len(a \o b) = Len(a) + Len(b)
          /\ \A i \in 1..Len(a) : (a \o b)[i] = a[i]
          /\ \A i \in 1..Len(b) : (a \o b)[Len(a) + i] = b[i]
      BY <3>1, ConcatElements
    <3> QED
      BY <3>2, <1>6
  <2>2. /\ Len(a) = k - 1 /\ Len(b) = Len(s) - k
        /\ k \in Nat /\ Len(s) \in Nat
    BY <1>1, <1>3, <1>5
  <2>3. Len(t) = Len(s) - 1
    BY <2>1, <2>2
  <2> QED
    BY <2>1, <2>2, <2>3
<1>8. ASSUME NEW i \in 1..(Len(s) - 1)
      PROVE  t[i] = IF i < k THEN s[i] ELSE s[i + 1]
  <2>1. CASE i < k
    BY <2>1, <1>1, <1>3, <1>7
  <2>2. CASE i >= k
    <3>1. PICK j \in 1..(Len(s) - k) : i = k - 1 + j
      <4>1. i - (k - 1) \in 1..(Len(s) - k) /\ i = k - 1 + (i - (k - 1))
        BY <2>2, <1>1
      <4> QED
        BY <4>1
    <3>2. t[i] = s[j + k]
      BY <3>1, <1>5, <1>7
    <3> QED
      BY <3>1, <3>2, <2>2, <1>1
  <2> QED
    BY <2>1, <2>2, <1>1
<1>9. t = RemoveAt(s, k)
  BY <1>2, <1>4, <1>6 DEF RemoveAt
<1>10. DOMAIN t = 1..(Len(s) - 1)
  BY <1>7
<1> QED
  BY <1>7, <1>8, <1>9, <1>10

\* The entry found by name is an entry of that name.
LEMMA IndexOfFound ==
  ASSUME NEW S, NEW s \in Seq(S), NEW name, Unique(s), Indices(s, name) # {}
  PROVE  IndexOf(s, name) \in DOMAIN s
<1>1. Indices(s, name) \subseteq Nat
  BY DEF Indices
<1>2. \A i, j \in Indices(s, name) : i = j
  BY DEF Indices, Unique
<1>3. IndexOf(s, name) \in Indices(s, name)
  BY <1>1, <1>2 DEF IndexOf
<1> QED
  BY <1>3 DEF Indices

-----------------------------------------------------------------------------

(* A delete leaves identifiers unique.                                      *)
LEMMA RemovePreservesUnique ==
  ASSUME NEW s \in Seq(Entry), Unique(s), NEW k \in DOMAIN s
  PROVE  RemoveAt(s, k) \in Seq(Entry) /\ Unique(RemoveAt(s, k))
<1>1. PICK t : t = RemoveAt(s, k)
  OBVIOUS
<1>2. /\ t \in Seq(Entry) /\ DOMAIN t = 1..(Len(s) - 1)
      /\ \A i \in 1..(Len(s) - 1) : t[i] = IF i < k THEN s[i] ELSE s[i + 1]
  BY <1>1, RemoveAtElements
<1>3. ASSUME NEW i \in DOMAIN t, NEW j \in DOMAIN t, i # j
      PROVE  t[i].name # t[j].name /\ t[i].key # t[j].key
  <2>1. PICK m \in DOMAIN s : t[i] = s[m] /\ m = IF i < k THEN i ELSE i + 1
    BY <1>2
  <2>2. PICK n \in DOMAIN s : t[j] = s[n] /\ n = IF j < k THEN j ELSE j + 1
    BY <1>2
  <2>3. m # n
    BY <1>2, <1>3, <2>1, <2>2
  <2> QED
    BY <2>1, <2>2, <2>3 DEF Unique
<1> QED
  BY <1>1, <1>2, <1>3 DEF Unique

(* A create that clashes with no entry leaves identifiers unique.           *)
LEMMA AppendPreservesUnique ==
  ASSUME NEW s \in Seq(Entry), Unique(s), NEW e \in Entry,
         \A i \in DOMAIN s : ~Clash(s[i], e)
  PROVE  Append(s, e) \in Seq(Entry) /\ Unique(Append(s, e))
<1>1. /\ Append(s, e) \in Seq(Entry) /\ DOMAIN Append(s, e) = 1..(Len(s) + 1)
      /\ \A i \in DOMAIN s : Append(s, e)[i] = s[i]
      /\ Append(s, e)[Len(s) + 1] = e
      /\ DOMAIN s = 1..Len(s) /\ Len(s) \in Nat
  OBVIOUS
<1>2. \A i \in DOMAIN Append(s, e) : i \in DOMAIN s \/ i = Len(s) + 1
  BY <1>1
<1> QED
  BY <1>1, <1>2 DEF Unique, Clash

(* An update that clashes with no other entry leaves identifiers unique.    *)
LEMMA ReplacePreservesUnique ==
  ASSUME NEW s \in Seq(Entry), Unique(s), NEW k \in DOMAIN s, NEW e \in Entry,
         \A i \in DOMAIN s \ {k} : ~Clash(s[i], e)
  PROVE  [s EXCEPT ![k] = e] \in Seq(Entry) /\ Unique([s EXCEPT ![k] = e])
<1>1. [s EXCEPT ![k] = e] \in Seq(Entry)
  OBVIOUS
<1> QED
  BY <1>1 DEF Unique, Clash

(* An accepted new entry is a complete one.                                 *)
LEMMA NewEntryIsEntry ==
  ASSUME NEW s, NEW m, Valid(NewEntry(s, m))
  PROVE  NewEntry(s, m) \in Entry
<1>1. PICK base : NewEntry(s, m) = Merge(base, m.payload)
  BY DEF NewEntry
<1>2. PICK e : e = Merge(base, m.payload)
  OBVIOUS
<1>3. e = [f \in {"name", "key", "body"} |-> e[f]]
  BY <1>2 DEF Merge
<1>4. e.name \in Name /\ e.key \in Key /\ e.body \in Body
  BY <1>1, <1>2, FieldAssumption DEF Valid
<1> QED
  BY <1>1, <1>2, <1>3, <1>4 DEF Entry

(* An accepted create, update or delete of one section keeps its entries    *)
(* well formed and its identifiers unique, whatever the length of it.       *)
THEOREM EditedSectionUnique ==
  ASSUME NEW s \in Seq(Entry), Unique(s), NEW m \in Edit, Accepts(s, m)
  PROVE  EditedSection(s, m) \in Seq(Entry) /\ Unique(EditedSection(s, m))
<1>1. m.action \in {"create", "update", "delete"}
  BY DEF Edit
<1>2. CASE m.action = "create"
  <2>1. NewEntry(s, m) \in Entry /\ \A i \in DOMAIN s : ~Clash(s[i], NewEntry(s, m))
    BY <1>2, NewEntryIsEntry DEF Accepts, Others
  <2>2. EditedSection(s, m) = Append(s, NewEntry(s, m))
    BY <1>2 DEF EditedSection
  <2> QED
    BY <2>1, <2>2, AppendPreservesUnique
<1>3. CASE m.action = "update"
  <2>1. IndexOf(s, m.name) \in DOMAIN s
    BY <1>3, IndexOfFound DEF Accepts
  <2>2. /\ NewEntry(s, m) \in Entry
        /\ \A i \in DOMAIN s \ {IndexOf(s, m.name)} : ~Clash(s[i], NewEntry(s, m))
    BY <1>3, NewEntryIsEntry DEF Accepts, Others
  <2>3. EditedSection(s, m) = [s EXCEPT ![IndexOf(s, m.name)] = NewEntry(s, m)]
    BY <1>3 DEF EditedSection
  <2> QED
    BY <2>1, <2>2, <2>3, ReplacePreservesUnique
<1>4. CASE m.action = "delete"
  <2>1. IndexOf(s, m.name) \in DOMAIN s
    BY <1>4, IndexOfFound DEF Accepts
  <2>2. EditedSection(s, m) = RemoveAt(s, IndexOf(s, m.name))
    BY <1>4 DEF EditedSection
  <2> QED
    BY <2>1, <2>2, RemovePreservesUnique
<1> QED
  BY <1>1, <1>2, <1>3, <1>4

\* The entries an edit does not name, and where it leaves them.
Kept(s, m) == {i \in DOMAIN s : m.action = "create" \/ s[i].name # m.name}

Place(s, m, i) == IF m.action = "delete" /\ i > IndexOf(s, m.name) THEN i - 1 ELSE i

\* Without clashes, an edit that finds its entry leaves out no other.
LEMMA KeptAreOthers ==
  ASSUME NEW s \in Seq(Entry), Unique(s), NEW m \in Edit, Accepts(s, m), m.action # "create"
  PROVE  /\ IndexOf(s, m.name) \in DOMAIN s
         /\ Kept(s, m) = DOMAIN s \ {IndexOf(s, m.name)}
<1>1. Indices(s, m.name) # {}
  BY DEF Accepts
<1>2. Indices(s, m.name) \subseteq Nat /\ \A i, j \in Indices(s, m.name) : i = j
  BY DEF Indices, Unique
<1>3. IndexOf(s, m.name) \in Indices(s, m.name)
  BY <1>1, <1>2 DEF IndexOf
<1> QED
  BY <1>2, <1>3 DEF Indices, Kept

(* An accepted edit touches one entry: the others stay as they were and in  *)
(* their order, and besides them the section holds only the new entry (none *)
(* after a delete).                                                         *)
THEOREM EditTouchesOneEntry ==
  ASSUME NEW s \in Seq(Entry), Unique(s), NEW m \in Edit, Accepts(s, m)
  PROVE  LET t == EditedSection(s, m) IN
         /\ \A i \in Kept(s, m) : Place(s, m, i) \in DOMAIN t /\ t[Place(s, m, i)] = s[i]
         /\ \A i, j \in Kept(s, m) : i < j => Place(s, m, i) < Place(s, m, j)
         /\ \A j \in DOMAIN t :
              \/ \E i \in Kept(s, m) : Place(s, m, i) = j
              \/ m.action # "delete" /\ t[j] = NewEntry(s, m)
<1> DEFINE e == NewEntry(s, m)
           at == IndexOf(s, m.name)
<1>0. DOMAIN s = 1..Len(s) /\ Len(s) \in Nat
  OBVIOUS
<1>1. m.action \in {"create", "update", "delete"}
  BY DEF Edit
<1>2. CASE m.action = "create"
  <2>1. e \in Entry
    BY <1>2, NewEntryIsEntry DEF Accepts
  <2>2. EditedSection(s, m) = Append(s, e)
    BY <1>2 DEF EditedSection
  <2>3. Kept(s, m) = DOMAIN s /\ \A i : Place(s, m, i) = i
    BY <1>2 DEF Kept, Place
  <2> HIDE DEF e
  <2>4. /\ DOMAIN Append(s, e) = 1..(Len(s) + 1)
        /\ \A i \in DOMAIN s : Append(s, e)[i] = s[i]
        /\ Append(s, e)[Len(s) + 1] = e
    BY <2>1
  <2> QED
    BY <1>0, <1>2, <2>2, <2>3, <2>4 DEF e
<1>3. CASE m.action = "update"
  <2>1. at \in DOMAIN s /\ Kept(s, m) = DOMAIN s \ {at}
    BY <1>3, KeptAreOthers
  <2>2. EditedSection(s, m) = [s EXCEPT ![at] = e]
    BY <1>3 DEF EditedSection
  <2>3. \A i : Place(s, m, i) = i
    BY <1>3 DEF Place
  <2> HIDE DEF e, at
  <2> QED
    BY <1>0, <1>3, <2>1, <2>2, <2>3 DEF e
<1>4. CASE m.action = "delete"
  <2>1. at \in DOMAIN s /\ Kept(s, m) = DOMAIN s \ {at}
    BY <1>4, KeptAreOthers
  <2>2. EditedSection(s, m) = RemoveAt(s, at)
    BY <1>4 DEF EditedSection
  <2>3. \A i : Place(s, m, i) = IF i > at THEN i - 1 ELSE i
    BY <1>4 DEF Place
  <2> HIDE DEF e, at
  <2>4. /\ DOMAIN RemoveAt(s, at) = 1..(Len(s) - 1)
        /\ \A i \in 1..(Len(s) - 1) :
             RemoveAt(s, at)[i] = IF i < at THEN s[i] ELSE s[i + 1]
    BY <2>1, RemoveAtElements
  <2>5. ASSUME NEW i \in Kept(s, m)
        PROVE  LET k == IF i > at THEN i - 1 ELSE i IN
               k \in 1..(Len(s) - 1) /\ RemoveAt(s, at)[k] = s[i]
    <3>1. CASE i > at
      BY <1>0, <2>1, <2>4, <3>1
    <3>2. CASE i < at
      BY <1>0, <2>1, <2>4, <3>2
    <3> QED
      BY <1>0, <2>1, <3>1, <3>2
  <2>6. ASSUME NEW j \in 1..(Len(s) - 1)
        PROVE  \E i \in Kept(s, m) : (IF i > at THEN i - 1 ELSE i) = j
    <3> DEFINE i == IF j < at THEN j ELSE j + 1
    <3>1. i \in Kept(s, m) /\ (IF i > at THEN i - 1 ELSE i) = j
      BY <1>0, <2>1
    <3> QED
      BY <3>1
  <2>7. \A i, j \in Kept(s, m) :
          i < j => (IF i > at THEN i - 1 ELSE i) < (IF j > at THEN j - 1 ELSE j)
    BY <1>0, <2>1
  <2> QED
    BY <2>2, <2>3, <2>4, <2>5, <2>6, <2>7
<1> QED
  BY <1>1, <1>2, <1>3, <1>4

(* The same for the whole catalog.                                          *)
THEOREM EditedCatalogUnique ==
  ASSUME NEW c \in Catalog, UniqueCatalog(c), NEW m \in Edit,
         Accepts(c[m.section], m)
  PROVE  Edited(c, m) \in Catalog /\ UniqueCatalog(Edited(c, m))
<1>1. m.section \in Section
  BY DEF Edit
<1>2. c[m.section] \in Seq(Entry) /\ Unique(c[m.section])
  BY <1>1 DEF Catalog, UniqueCatalog
<1>3. /\ EditedSection(c[m.section], m) \in Seq(Entry)
      /\ Unique(EditedSection(c[m.section], m))
  BY <1>2, EditedSectionUnique
<1> QED
  BY <1>1, <1>3 DEF Edited, Catalog, UniqueCatalog

-----------------------------------------------------------------------------
(* The requests.                                                            *)

Workspace == {"write", "test", "lint"}
Rendered == {"lock", "persist"} \cup Workspace
Accepted == {"render"} \cup Rendered

\* What a request knows at its stage.
Stage(r) ==
  /\ InFlight(r) => edit[r] \in Edits /\ loaded[r] \in Catalog /\ UniqueCatalog(loaded[r])
  /\ pc[r] \in Accepted => Accepts(loaded[r][edit[r].section], edit[r])
  /\ pc[r] \in Rendered =>
       /\ text[r] \in Text
       /\ text[r].catalog = Candidate(r)
       /\ Renderable(Candidate(r), text[r].fqdn)
  /\ pc[r] \in {"test", "lint"} => conf = text[r]
  /\ pc[r] \in Workspace => lock = r
  /\ pc[r] = "lint" => passed[r] \in {None, text[r]}
  /\ pc[r] = "persist" => passed[r] = text[r]
  /\ InFlight(r) /\ r \notin late => loaded[r] = catalog

IInv ==
  /\ TypeOK
  /\ UniqueIdentifiers
  /\ NeverWedged
  /\ \A r \in Request : Stage(r)

-----------------------------------------------------------------------------

(* The invariant holds before any request.                                  *)
LEMMA InitIInv == Init => IInv
<1> SUFFICES ASSUME Init PROVE IInv
  OBVIOUS
<1>1. catalog \in Catalog /\ UniqueCatalog(catalog)
  BY HandWrittenAssumption DEF Init
<1>2. TypeOK
  BY <1>1, BoundAssumption DEF Init, TypeOK, Optional
<1>3. NeverWedged
  BY DEF Init, NeverWedged
<1>4. \A r \in Request : Stage(r)
  BY DEF Init, Stage, InFlight, Accepted, Rendered, Workspace
<1> QED
  BY <1>1, <1>2, <1>3, <1>4 DEF IInv, UniqueIdentifiers

\* The candidate of a request whose edit was accepted is a catalog without clashes.
LEMMA CandidateSound ==
  ASSUME NEW r \in Request, Stage(r), pc[r] \in Accepted
  PROVE  Candidate(r) \in Catalog /\ UniqueCatalog(Candidate(r))
<1>1. InFlight(r)
  BY DEF Accepted, Rendered, Workspace, InFlight
<1>2. edit[r] \in Edit
  BY <1>1, EditsAssumption DEF Stage
<1> QED
  BY <1>1, <1>2, EditedCatalogUnique DEF Stage, Candidate

\* What a step leaves alone of a request.
Same(q) ==
  /\ pc'[q] = pc[q] /\ edit'[q] = edit[q] /\ loaded'[q] = loaded[q]
  /\ text'[q] = text[q] /\ passed'[q] = passed[q]

\* A request keeps its stage while another moves, if the shared variables
\* it relies on stay, or its snapshot is known to be late.
LEMMA StageFrame ==
  ASSUME NEW q \in Request, Stage(q), Same(q),
         pc[q] \in Workspace => lock' = lock,
         pc[q] \in {"test", "lint"} => conf' = conf,
         InFlight(q) /\ q \notin late' => catalog' = catalog /\ q \notin late
  PROVE  Stage(q)'
BY DEF Stage, Same, InFlight, Candidate, Accepted, Rendered, Workspace

\* A request that is answered has nothing left to know.
LEMMA IdleStage ==
  ASSUME NEW r \in Request, pc'[r] = "idle"
  PROVE  Stage(r)'
BY DEF Stage, InFlight, Accepted, Rendered, Workspace

\* Only one request is in the preview directory.
LEMMA OneInWorkspace ==
  ASSUME NEW q \in Request, NEW r \in Request, Stage(q), Stage(r),
         pc[q] \in Workspace, pc[r] \in Workspace
  PROVE  q = r
BY DEF Stage

-----------------------------------------------------------------------------

(* A new request knows the catalog it loaded.                               *)
LEMMA LoadIInv == ASSUME NEW r \in Request, IInv, Load(r) PROVE IInv'
<1>1. TypeOK'
  BY BoundAssumption DEF Load, Goto, files, IInv, TypeOK, Optional
<1>2. (UniqueIdentifiers /\ NeverWedged)'
  BY DEF Load, files, IInv, UniqueIdentifiers, NeverWedged
<1>3. Stage(r)'
  BY DEF Load, Goto, files, IInv, TypeOK, Stage, InFlight, Accepted, Rendered, Workspace,
         UniqueIdentifiers
<1>4. ASSUME NEW q \in Request \ {r} PROVE Stage(q)'
  <2>1. Same(q)
    BY DEF Load, Goto, IInv, TypeOK, Same
  <2> QED
    BY <2>1, StageFrame DEF Load, files, IInv
<1> QED
  BY <1>1, <1>2, <1>3, <1>4 DEF IInv

\* An early return: the request is answered and nothing else changes.
LEMMA RespondIInv ==
  ASSUME NEW r \in Request, IInv, Respond(r),
         catalog' = catalog, catalogFqdn' = catalogFqdn, fqdn' = fqdn,
         conf' = conf, served' = served, moves' = moves, overlaps' = overlaps,
         lock' = lock \/ (pc[r] \in Workspace /\ lock' = None)
  PROVE  IInv'
<1>1. TypeOK'
  BY DEF Respond, Free, IInv, TypeOK, Optional
<1>2. (UniqueIdentifiers /\ NeverWedged)'
  BY DEF IInv, UniqueIdentifiers, NeverWedged
<1>3. Stage(r)'
  BY IdleStage DEF Respond, Free, IInv, TypeOK
<1>4. ASSUME NEW q \in Request \ {r} PROVE Stage(q)'
  <2>1. Same(q)
    BY DEF Respond, Free, IInv, TypeOK, Same
  <2>2. pc[q] \in Workspace => lock' = lock
    BY OneInWorkspace DEF IInv
  <2> QED
    BY <2>1, <2>2, StageFrame DEF Respond, IInv
<1> QED
  BY <1>1, <1>2, <1>3, <1>4 DEF IInv

(* A request goes on from Build only with an accepted edit.                 *)
LEMMA BuildIInv == ASSUME NEW r \in Request, IInv, Build(r) PROVE IInv'
<1>1. CASE Respond(r)
  BY <1>1, RespondIInv DEF Build, files, counters
<1>2. CASE ~Respond(r)
  <2>1. /\ pc[r] = "build"
        /\ Accepts(loaded[r][edit[r].section], edit[r])
        /\ Goto(r, "render")
        /\ UNCHANGED <<files, edit, preview, loaded, text, passed, late, counters>>
    BY <1>2 DEF Build
  <2>2. TypeOK'
    BY <2>1 DEF Goto, files, counters, IInv, TypeOK, Optional
  <2>3. (UniqueIdentifiers /\ NeverWedged)'
    BY <2>1 DEF files, counters, IInv, UniqueIdentifiers, NeverWedged
  <2>4. Stage(r)'
    BY <2>1 DEF Goto, files, IInv, TypeOK, Stage, InFlight, Accepted, Rendered, Workspace
  <2>5. ASSUME NEW q \in Request \ {r} PROVE Stage(q)'
    <3>1. Same(q)
      BY <2>1 DEF Goto, IInv, TypeOK, Same
    <3> QED
      BY <2>1, <3>1, StageFrame DEF files, IInv
  <2> QED
    BY <2>2, <2>3, <2>4, <2>5 DEF IInv
<1> QED
  BY <1>1, <1>2

(* A request goes on from Render only with a candidate that renders.        *)
LEMMA RenderIInv == ASSUME NEW r \in Request, IInv, Render(r) PROVE IInv'
<1>1. CASE Respond(r)
  BY <1>1, RespondIInv DEF Render, files, counters
<1>2. CASE ~Respond(r)
  <2>1. /\ pc[r] = "render"
        /\ Renderable(Candidate(r), fqdn)
        /\ text' = [text EXCEPT ![r] = [catalog |-> Candidate(r), fqdn |-> fqdn]]
        /\ Goto(r, "lock")
        /\ UNCHANGED <<files, edit, preview, loaded, passed, late, counters>>
    BY <1>2 DEF Render
  <2>2. [catalog |-> Candidate(r), fqdn |-> fqdn] \in Text
    BY <2>1, CandidateSound DEF IInv, TypeOK, Text, Accepted
  <2>3. TypeOK'
    BY <2>1, <2>2 DEF Goto, files, counters, IInv, TypeOK, Optional
  <2>4. (UniqueIdentifiers /\ NeverWedged)'
    BY <2>1 DEF files, counters, IInv, UniqueIdentifiers, NeverWedged
  <2>5. Stage(r)'
    <3>1. pc'[r] = "lock" /\ Stage(r)
      BY <2>1 DEF Goto, IInv, TypeOK
    <3>2. text'[r] = [catalog |-> Candidate(r), fqdn |-> fqdn]
      BY <2>1 DEF IInv, TypeOK
    <3>3. Candidate(r)' = Candidate(r)
      BY <2>1 DEF Candidate
    <3>4. (InFlight(r) => edit[r] \in Edits /\ loaded[r] \in Catalog /\ UniqueCatalog(loaded[r]))'
      BY <2>1, <3>1 DEF Stage, InFlight
    <3>5. (pc[r] \in Accepted => Accepts(loaded[r][edit[r].section], edit[r]))'
      BY <2>1, <3>1 DEF Stage, Accepted
    <3> QED
      BY <2>1, <2>2, <3>1, <3>2, <3>3, <3>4, <3>5
      DEF files, Stage, InFlight, Rendered, Workspace
  <2>6. ASSUME NEW q \in Request \ {r} PROVE Stage(q)'
    <3>1. Same(q)
      BY <2>1 DEF Goto, IInv, TypeOK, Same
    <3> QED
      BY <2>1, <3>1, StageFrame DEF files, IInv
  <2> QED
    BY <2>3, <2>4, <2>5, <2>6 DEF IInv
<1> QED
  BY <1>1, <1>2

(* The flock lets one request into the preview directory.                   *)
LEMMA AcquireIInv == ASSUME NEW r \in Request, IInv, Acquire(r) PROVE IInv'
<1>1. TypeOK'
  BY DEF Acquire, Goto, counters, IInv, TypeOK, Optional
<1>2. (UniqueIdentifiers /\ NeverWedged)'
  BY DEF Acquire, counters, IInv, UniqueIdentifiers, NeverWedged
<1>3. Stage(r)'
  BY DEF Acquire, Goto, IInv, TypeOK, Stage, InFlight, Candidate, Accepted, Rendered, Workspace
<1>4. ASSUME NEW q \in Request \ {r} PROVE Stage(q)'
  <2>1. Same(q)
    BY DEF Acquire, Goto, IInv, TypeOK, Same
  <2>2. pc[q] \notin Workspace
    BY NoneAssumption DEF Acquire, IInv, Stage
  <2> QED
    BY <2>1, <2>2, StageFrame DEF Acquire, IInv, Workspace
<1> QED
  BY <1>1, <1>2, <1>3, <1>4 DEF IInv

(* The directory then holds the request's own text.                         *)
LEMMA WriteConfIInv == ASSUME NEW r \in Request, IInv, WriteConf(r) PROVE IInv'
<1>1. CASE Respond(r) /\ conf' = conf
  BY <1>1, RespondIInv DEF WriteConf, Release, Workspace, counters
<1>2. CASE ~(Respond(r) /\ conf' = conf)
  <2>1. /\ pc[r] = "write"
        /\ conf' = text[r]
        /\ Goto(r, "test")
        /\ UNCHANGED <<catalog, fqdn, lock, edit, preview, loaded, text, passed, late, counters>>
    BY <1>2 DEF WriteConf
  <2>2. TypeOK'
    BY <2>1 DEF Goto, counters, IInv, TypeOK, Optional
  <2>3. (UniqueIdentifiers /\ NeverWedged)'
    BY <2>1 DEF counters, IInv, UniqueIdentifiers, NeverWedged
  <2>4. Stage(r)'
    BY <2>1 DEF Goto, IInv, TypeOK, Stage, InFlight, Candidate, Accepted, Rendered, Workspace
  <2>5. ASSUME NEW q \in Request \ {r} PROVE Stage(q)'
    <3>1. Same(q)
      BY <2>1 DEF Goto, IInv, TypeOK, Same
    <3>2. pc[q] \notin Workspace
      BY <2>1, OneInWorkspace DEF IInv, Workspace
    <3> QED
      BY <2>1, <3>1, <3>2, StageFrame DEF IInv, Workspace
  <2> QED
    BY <2>2, <2>3, <2>4, <2>5 DEF IInv
<1> QED
  BY <1>1, <1>2

(* nginx -t tests the request's own text.                                   *)
LEMMA NginxTestIInv == ASSUME NEW r \in Request, IInv, NginxTest(r) PROVE IInv'
<1>1. TypeOK'
  BY DEF NginxTest, Goto, files, counters, IInv, TypeOK, Optional
<1>2. (UniqueIdentifiers /\ NeverWedged)'
  BY DEF NginxTest, files, counters, IInv, UniqueIdentifiers, NeverWedged
<1>3. Stage(r)'
  BY DEF NginxTest, Goto, files, IInv, TypeOK, Stage, InFlight, Candidate, Accepted, Rendered,
         Workspace
<1>4. ASSUME NEW q \in Request \ {r} PROVE Stage(q)'
  <2>1. Same(q)
    BY DEF NginxTest, Goto, IInv, TypeOK, Same
  <2> QED
    BY <2>1, StageFrame DEF NginxTest, files, IInv
<1> QED
  BY <1>1, <1>2, <1>3, <1>4 DEF IInv

(* A request leaves the directory with the verdict on its own text.         *)
LEMMA LintIInv == ASSUME NEW r \in Request, IInv, Lint(r) PROVE IInv'
<1>1. CASE Respond(r)
  BY <1>1, RespondIInv DEF Lint, Release, Workspace, counters
<1>2. CASE ~Respond(r)
  <2>1. /\ pc[r] = "lint" /\ passed[r] # None
        /\ lock' = None
        /\ Goto(r, "persist")
        /\ UNCHANGED <<catalog, fqdn, conf, edit, preview, loaded, text, passed, late, counters>>
    BY <1>2 DEF Lint, Release
  <2>2. TypeOK'
    BY <2>1 DEF Goto, counters, IInv, TypeOK, Optional
  <2>3. (UniqueIdentifiers /\ NeverWedged)'
    BY <2>1 DEF counters, IInv, UniqueIdentifiers, NeverWedged
  <2>4. Stage(r)'
    BY <2>1 DEF Goto, IInv, TypeOK, Stage, InFlight, Candidate, Accepted, Rendered, Workspace
  <2>5. ASSUME NEW q \in Request \ {r} PROVE Stage(q)'
    <3>1. Same(q)
      BY <2>1 DEF Goto, IInv, TypeOK, Same
    <3>2. pc[q] \notin Workspace
      BY <2>1, OneInWorkspace DEF IInv, Workspace
    <3> QED
      BY <2>1, <3>1, <3>2, StageFrame DEF IInv, Workspace
  <2> QED
    BY <2>2, <2>3, <2>4, <2>5 DEF IInv
<1> QED
  BY <1>1, <1>2

(* What is persisted was accepted, rendered and tested.                     *)
LEMMA PersistIInv == ASSUME NEW r \in Request, IInv, Persist(r) PROVE IInv'
<1>1. CASE Respond(r) /\ UNCHANGED <<catalog, catalogFqdn, overlaps>>
  BY <1>1, RespondIInv DEF Persist
<1>2. CASE ~(Respond(r) /\ UNCHANGED <<catalog, catalogFqdn, overlaps>>)
  <2>1. /\ pc[r] = "persist"
        /\ catalog' = Candidate(r)
        /\ catalogFqdn' = text[r].fqdn
        /\ overlaps' = overlaps + (IF r \in late THEN 1 ELSE 0)
        /\ Free(r)
        /\ late' = {q \in Request \ {r} : InFlight(q)}
        /\ UNCHANGED <<fqdn, lock, conf, served, moves>>
    BY <1>2 DEF Persist
  <2>2. Stage(r) /\ text[r] \in Text /\ Renderable(Candidate(r), text[r].fqdn)
    BY <2>1 DEF IInv, Stage, Rendered
  <2>3. Candidate(r) \in Catalog /\ UniqueCatalog(Candidate(r))
    BY <2>1, <2>2, CandidateSound DEF Accepted, Rendered
  <2>4. TypeOK'
    <3>1. text[r].fqdn \in Fqdn
      BY <2>2 DEF Text
    <3>2. overlaps' \in Nat
      BY <2>1 DEF IInv, TypeOK
    <3>3. late' \subseteq Request
      BY <2>1
    <3> QED
      BY <2>1, <2>3, <3>1, <3>2, <3>3 DEF Free, IInv, TypeOK, Optional
  <2>5. (UniqueIdentifiers /\ NeverWedged)'
    BY <2>1, <2>2, <2>3 DEF UniqueIdentifiers, NeverWedged
  <2>6. Stage(r)'
    BY <2>1, IdleStage DEF Free, IInv, TypeOK
  <2>7. ASSUME NEW q \in Request \ {r} PROVE Stage(q)'
    <3>1. Same(q)
      BY <2>1 DEF Free, IInv, TypeOK, Same
    <3>2. InFlight(q) => q \in late'
      BY <2>1
    <3> QED
      BY <2>1, <3>1, <3>2, StageFrame DEF IInv
  <2> QED
    BY <2>4, <2>5, <2>6, <2>7 DEF IInv
<1> QED
  BY <1>1, <1>2

(* A crash leaves the files and no request.                                 *)
LEMMA CrashIInv == ASSUME IInv, Crash PROVE IInv'
<1>1. TypeOK'
  BY DEF Crash, counters, IInv, TypeOK, Optional
<1>2. (UniqueIdentifiers /\ NeverWedged)'
  BY DEF Crash, counters, IInv, UniqueIdentifiers, NeverWedged
<1>3. \A q \in Request : Stage(q)'
  BY IdleStage DEF Crash
<1> QED
  BY <1>1, <1>2, <1>3 DEF IInv

(* A new server name touches no request.                                    *)
LEMMA SetFqdnIInv == ASSUME IInv, SetFqdn PROVE IInv'
<1>1. TypeOK'
  BY BoundAssumption DEF SetFqdn, request, IInv, TypeOK, Optional
<1>2. (UniqueIdentifiers /\ NeverWedged)'
  BY DEF SetFqdn, IInv, UniqueIdentifiers, NeverWedged
<1>3. ASSUME NEW q \in Request PROVE Stage(q)'
  <2>1. Same(q)
    BY DEF SetFqdn, request, Same
  <2> QED
    BY <2>1, StageFrame DEF SetFqdn, IInv
<1> QED
  BY <1>1, <1>2, <1>3 DEF IInv

(* Every step keeps the invariant.                                          *)
LEMMA NextIInv == IInv /\ [Next]_vars => IInv'
<1> SUFFICES ASSUME IInv, [Next]_vars PROVE IInv'
  OBVIOUS
<1>1. ASSUME NEW r \in Request, Load(r) PROVE IInv'
  BY <1>1, LoadIInv
<1>2. ASSUME NEW r \in Request, Serve(r) PROVE IInv'
  BY <1>2, BuildIInv, RenderIInv, AcquireIInv, WriteConfIInv, NginxTestIInv, LintIInv,
     PersistIInv DEF Serve
<1>3. CASE Crash
  BY <1>3, CrashIInv
<1>4. CASE SetFqdn
  BY <1>4, SetFqdnIInv
<1>5. CASE UNCHANGED vars
  BY <1>5 DEF vars, request, IInv, TypeOK, UniqueIdentifiers, NeverWedged, Stage, InFlight,
              Candidate
<1> QED
  BY <1>1, <1>2, <1>3, <1>4, <1>5 DEF Next

-----------------------------------------------------------------------------

(* Every variable keeps its type (TypeOK), for any number of requests.      *)
THEOREM TypeCorrect == Spec => []TypeOK
<1>1. IInv => TypeOK
  BY DEF IInv
<1> QED
  BY InitIInv, NextIInv, <1>1, PTL DEF Spec

(* However many requests edit services.json at once, no two of its entries  *)
(* ever share an identifier.                                                *)
THEOREM UniqueIdentifiersTheorem == Spec => []UniqueIdentifiers
<1>1. IInv => UniqueIdentifiers
  BY DEF IInv
<1> QED
  BY InitIInv, NextIInv, <1>1, PTL DEF Spec

(* The catalog in place renders under the name it was rendered with.        *)
THEOREM NeverWedgedTheorem == Spec => []NeverWedged
<1>1. IInv => NeverWedged
  BY DEF IInv
<1> QED
  BY InitIInv, NextIInv, <1>1, PTL DEF Spec

\* Only the success of a persist replaces the catalog.
LEMMA CatalogChanges ==
  ASSUME [Next]_vars, catalog' # catalog
  PROVE  \E r \in Request :
           /\ pc[r] = "persist"
           /\ catalog' = Candidate(r)
           /\ overlaps' = overlaps + (IF r \in late THEN 1 ELSE 0)
BY DEF Next, vars, request, files, counters, Load, Serve, Build, Render, Acquire, WriteConf,
       NginxTest, Lint, Persist, Crash, SetFqdn

(* Only what nginx -t accepted for a request becomes the catalog.           *)
THEOREM OnlyTestedTheorem == Spec => OnlyTestedIsPersisted
<1>1. ASSUME IInv, [Next]_vars, catalog' # catalog
      PROVE  \E r \in Request : passed[r] # None /\ passed[r].catalog = catalog'
  <2>1. PICK r \in Request : pc[r] = "persist" /\ catalog' = Candidate(r)
    BY <1>1, CatalogChanges
  <2>2. passed[r] = text[r] /\ text[r] \in Text /\ text[r].catalog = Candidate(r)
    BY <1>1, <2>1 DEF IInv, Stage, Rendered
  <2> QED
    BY <2>1, <2>2, NoneAssumption
<1>2. IInv /\ [Next]_vars =>
        [catalog' # catalog =>
           \E r \in Request : passed[r] # None /\ passed[r].catalog = catalog']_vars
  BY <1>1
<1> QED
  BY InitIInv, NextIInv, <1>2, PTL DEF Spec, OnlyTestedIsPersisted

\* AtomicCatalog's own copy of CatalogEdits says the same.
LEMMA SameEdits ==
  /\ \A s, m : Abstract!Accepts(s, m) <=> Accepts(s, m)
  /\ \A c, m : Abstract!Edited(c, m) = Edited(c, m)
  /\ \A c : Abstract!UniqueCatalog(c) <=> UniqueCatalog(c)
<1>1. \A s, name : Abstract!IndexOf(s, name) = IndexOf(s, name)
  BY DEF Abstract!IndexOf, IndexOf, Abstract!Indices, Indices
<1>2. \A s, m : Abstract!NewEntry(s, m) = NewEntry(s, m)
  BY <1>1 DEF Abstract!NewEntry, NewEntry, Abstract!Merge, Merge, Abstract!Blank, Blank
<1>3. \A s, m : Abstract!Accepts(s, m) <=> Accepts(s, m)
  BY <1>1, <1>2 DEF Abstract!Accepts, Accepts, Abstract!Indices, Indices, Abstract!Valid, Valid,
                    Abstract!Others, Others, Abstract!Clash, Clash
<1>4. \A s, m : Abstract!EditedSection(s, m) = EditedSection(s, m)
  BY <1>1, <1>2 DEF Abstract!EditedSection, EditedSection, Abstract!RemoveAt, RemoveAt
<1>5. \A c, m : Abstract!Edited(c, m) = Edited(c, m)
  BY <1>4 DEF Abstract!Edited, Edited
<1>6. \A c : Abstract!UniqueCatalog(c) <=> UniqueCatalog(c)
  BY DEF Abstract!UniqueCatalog, UniqueCatalog, Abstract!Unique, Unique, Abstract!Section, Section
<1> QED
  BY <1>3, <1>5, <1>6

(* The requests implement AtomicCatalog: every change of the catalog is one *)
(* accepted edit of the catalog before it, unless it overlapped another.    *)
THEOREM AtomicTheorem == Spec => ImplementsAtomicCatalog
<1>1. Init => Abstract!Start
  BY DEF Init, Abstract!Start
<1>2. ASSUME IInv, IInv', [Next]_vars
      PROVE  [Abstract!Step]_<<catalog, overlaps>>
  <2>1. CASE catalog' = catalog
    <3>1. overlaps' = overlaps \/ overlaps' = overlaps + 1
      BY <1>2 DEF Next, vars, request, files, counters, Load, Serve, Build, Render, Acquire,
                  WriteConf, NginxTest, Lint, Persist, Crash, SetFqdn, IInv, TypeOK
    <3> QED
      BY <1>2, <2>1, <3>1, SameEdits
      DEF Abstract!Step, Abstract!Overlap, IInv, UniqueIdentifiers
  <2>2. CASE catalog' # catalog
    <3>1. PICK r \in Request :
            /\ pc[r] = "persist"
            /\ catalog' = Candidate(r)
            /\ overlaps' = overlaps + (IF r \in late THEN 1 ELSE 0)
      BY <1>2, <2>2, CatalogChanges
    <3>2. CASE r \in late
      BY <1>2, <3>1, <3>2, SameEdits DEF Abstract!Step, Abstract!Overlap, IInv, UniqueIdentifiers
    <3>3. CASE r \notin late
      <4>1. /\ edit[r] \in Edits /\ loaded[r] = catalog
            /\ Accepts(catalog[edit[r].section], edit[r])
        BY <1>2, <3>1, <3>3 DEF IInv, Stage, InFlight, Accepted, Rendered
      <4>2. catalog' = Edited(catalog, edit[r]) /\ overlaps' = overlaps
        BY <1>2, <3>1, <3>3, <4>1 DEF Candidate, IInv, TypeOK
      <4> QED
        BY <4>1, <4>2, SameEdits DEF Abstract!Step, Abstract!Apply
    <3> QED
      BY <3>2, <3>3
  <2> QED
    BY <2>1, <2>2
<1> QED
  BY InitIInv, NextIInv, <1>1, <1>2, PTL DEF Spec, ImplementsAtomicCatalog, Abstract!AtomicSpec

\* A persist that overlaps no other changes only what its edit names: every
\* other entry of the file is still there, as it was.
OthersAreKept ==
  [][catalog' # catalog /\ overlaps' = overlaps =>
       \E r \in Request :
         /\ pc[r] = "persist"
         /\ \A section \in Section \ {edit[r].section} : catalog'[section] = catalog[section]
         /\ \A i \in Kept(catalog[edit[r].section], edit[r]) :
              catalog[edit[r].section][i] \in ToSet(catalog'[edit[r].section])]_vars

(* No update is lost but by an overlap: requests that load, test and persist*)
(* at the same time keep the entries the other's edit does not name.        *)
THEOREM OthersAreKeptTheorem == Spec => OthersAreKept
<1>1. ASSUME IInv, [Next]_vars, catalog' # catalog, overlaps' = overlaps
      PROVE  \E r \in Request :
               /\ pc[r] = "persist"
               /\ \A section \in Section \ {edit[r].section} :
                    catalog'[section] = catalog[section]
               /\ \A i \in Kept(catalog[edit[r].section], edit[r]) :
                    catalog[edit[r].section][i] \in ToSet(catalog'[edit[r].section])
  <2>1. PICK r \in Request :
          /\ pc[r] = "persist"
          /\ catalog' = Candidate(r)
          /\ overlaps' = overlaps + (IF r \in late THEN 1 ELSE 0)
    BY <1>1, CatalogChanges
  <2>2. r \notin late
    BY <1>1, <2>1 DEF IInv, TypeOK
  <2> DEFINE m == edit[r]
             s == catalog[m.section]
             t == EditedSection(s, m)
  <2>3. m \in Edit /\ catalog \in Catalog /\ loaded[r] = catalog /\ Accepts(s, m)
    BY <1>1, <2>1, <2>2, EditsAssumption
    DEF IInv, TypeOK, Stage, InFlight, Accepted, Rendered
  <2>4. m.section \in Section /\ s \in Seq(Entry) /\ Unique(s)
    BY <1>1, <2>3 DEF Edit, Catalog, IInv, UniqueIdentifiers, UniqueCatalog
  <2>5. /\ catalog'[m.section] = t
        /\ \A section \in Section \ {m.section} : catalog'[section] = catalog[section]
    BY <2>1, <2>3, <2>4 DEF Candidate, Edited, Catalog
  <2>6. \A i \in Kept(s, m) : Place(s, m, i) \in DOMAIN t /\ t[Place(s, m, i)] = s[i]
    BY <2>3, <2>4, EditTouchesOneEntry
  <2> HIDE DEF m, t
  <2>7. \A i \in Kept(s, m) : s[i] \in ToSet(t)
    BY <2>6 DEF ToSet
  <2> QED
    BY <2>1, <2>5, <2>7 DEF m
<1>2. IInv /\ [Next]_vars =>
        [catalog' # catalog /\ overlaps' = overlaps =>
           \E r \in Request :
             /\ pc[r] = "persist"
             /\ \A section \in Section \ {edit[r].section} : catalog'[section] = catalog[section]
             /\ \A i \in Kept(catalog[edit[r].section], edit[r]) :
                  catalog[edit[r].section][i] \in ToSet(catalog'[edit[r].section])]_vars
  BY <1>1
<1> QED
  BY InitIInv, NextIInv, <1>2, PTL DEF Spec, OthersAreKept

\* The flock of the preview directory is held by a request that writes,
\* tests or lints, none of which waits for another request.
HolderIsAtWork == lock # None => lock \in Request /\ pc[lock] \in Workspace

(* The flock is never left behind: whatever ends a request in the preview   *)
(* directory unlocks it, so that whoever waits for it waits for a request   *)
(* that can go on.  (That this is enough is what EveryRequestEnds checks.)  *)
THEOREM LockIsReleased == Spec => []HolderIsAtWork
<1>1. Init => HolderIsAtWork
  BY DEF Init, HolderIsAtWork
<1>2. ASSUME IInv, HolderIsAtWork, [Next]_vars PROVE HolderIsAtWork'
  <2>1. pc \in [Request -> {"idle", "build", "render", "lock", "write", "test", "lint", "persist"}]
    BY <1>2 DEF IInv, TypeOK
  <2>2. CASE UNCHANGED vars
    BY <1>2, <2>2 DEF vars, request, HolderIsAtWork
  <2>3. ASSUME NEW r \in Request, Load(r) \/ Build(r) \/ Render(r) \/ Persist(r)
        PROVE  HolderIsAtWork'
    <3>1. pc[r] \notin Workspace /\ lock' = lock
      BY <2>3 DEF Load, Build, Render, Persist, files, Workspace
    <3>2. \A q \in Request \ {r} : pc'[q] = pc[q]
      BY <2>1, <2>3 DEF Load, Build, Render, Persist, Goto, Respond, Free
    <3> QED
      BY <1>2, <3>1, <3>2, NoneAssumption DEF HolderIsAtWork
  <2>4. ASSUME NEW r \in Request, Acquire(r) PROVE HolderIsAtWork'
    BY <2>1, <2>4 DEF Acquire, Goto, HolderIsAtWork, Workspace
  <2>5. ASSUME NEW r \in Request, WriteConf(r) \/ NginxTest(r) \/ Lint(r)
        PROVE  HolderIsAtWork'
    <3>1. lock = r
      BY <1>2, <2>5 DEF IInv, Stage, Workspace, WriteConf, NginxTest, Lint
    <3>2. lock' = None \/ (lock' = r /\ pc'[r] \in Workspace)
      BY <2>1, <2>5, <3>1 DEF WriteConf, NginxTest, Lint, Release, Goto, files, Workspace
    <3> QED
      BY <3>2 DEF HolderIsAtWork
  <2>6. CASE Crash
    BY <2>6 DEF Crash, HolderIsAtWork
  <2>7. CASE SetFqdn
    BY <1>2, <2>7 DEF SetFqdn, request, HolderIsAtWork
  <2> QED
    BY <1>2, <2>2, <2>3, <2>4, <2>5, <2>6, <2>7 DEF Next, Serve
<1> QED
  BY InitIInv, NextIInv, <1>1, <1>2, PTL DEF Spec

=============================================================================
