---------------------------- MODULE CatalogCrud -----------------------------
(***************************************************************************)
(* app/api/catalog_crud_routes.py over app/catalog_crud.py: the web UI's   *)
(* edits of services.json.  The routes are plain functions, so FastAPI     *)
(* runs requests in threads, several at a time.  A request loads the       *)
(* catalog, makes its candidate, renders it, has nginx -t test it in a     *)
(* preview directory that all requests share under one flock, and then     *)
(* replaces the file.  No lock is held from the load to the replacement.   *)
(***************************************************************************)
EXTENDS CatalogEdits, FiniteSets

CONSTANTS
  Request,        \* the threads that serve requests
  Edits,          \* the edits requested
  HandWritten,    \* the catalogs the operator may have started from
  RenderableBody, \* bodies that catalog_render does not refuse
  WebUiName,      \* "home-warden-web-ui"
  NoFqdn,         \* config.toml names no fqdn
  None,
  MaxRequests,    \* bound on the requests served
  MaxMoves        \* bound on the changes of config.toml

Fqdn == Key \cup {NoFqdn}

\* A rendered configuration stands for what it was rendered from.
Text == [catalog: Catalog, fqdn: Fqdn]

ASSUME EditsAssumption == Edits \subseteq Edit

ASSUME HandWrittenAssumption ==
  HandWritten \subseteq {c \in Catalog : UniqueCatalog(c)}

ASSUME NoneAssumption == None \notin Request /\ None \notin Text

ASSUME BoundAssumption == MaxRequests \in Nat /\ MaxMoves \in Nat

VARIABLES
  catalog,    \* services.json
  fqdn,       \* the web UI's own server name, in config.toml
  lock,       \* holder of the preview directory's flock
  conf,       \* the text in the preview directory
  pc,         \* where each request is
  edit,       \* what it was asked
  preview,    \* whether it is POST /preview, which persists nothing
  loaded,     \* the catalog it loaded
  text,       \* the text it rendered
  served,     \* requests served so far
  moves,      \* changes of config.toml so far
  passed,     \* history: the text nginx -t accepted for a request
  late,       \* history: requests whose loaded catalog was replaced since
  overlaps,   \* history: edits persisted over another's
  catalogFqdn \* history: the web UI's name when the catalog was rendered

request == <<pc, edit, preview, loaded, text, passed>>
vars == <<catalog, fqdn, lock, conf, request, served, moves, late, overlaps, catalogFqdn>>

-----------------------------------------------------------------------------

\* catalog_with_web_ui_service and render_catalog raise on these.
Reserved(c, name) ==
  /\ name # NoFqdn
  /\ \E i \in DOMAIN c.services :
       c.services[i].name = WebUiName \/ c.services[i].key = name

Renderable(c, name) ==
  /\ ~Reserved(c, name)
  /\ \A section \in Section : \A i \in DOMAIN c[section] :
       c[section][i].body \in RenderableBody

Candidate(r) == Edited(loaded[r], edit[r])

\* The response is sent and the request's memory freed.
Free(r) ==
  /\ pc' = [pc EXCEPT ![r] = "idle"]
  /\ edit' = [edit EXCEPT ![r] = None]
  /\ preview' = [preview EXCEPT ![r] = FALSE]
  /\ loaded' = [loaded EXCEPT ![r] = None]
  /\ text' = [text EXCEPT ![r] = None]
  /\ passed' = [passed EXCEPT ![r] = None]

\* ... when it changed no catalog.
Respond(r) == Free(r) /\ late' = late \ {r}

Goto(r, label) == pc' = [pc EXCEPT ![r] = label]

files == <<catalog, fqdn, lock, conf>>
counters == <<served, moves, overlaps, catalogFqdn>>

-----------------------------------------------------------------------------
(* One request.                                                             *)

\* A request arrives and load_catalog_file reads the catalog.
Load(r) ==
  /\ pc[r] = "idle"
  /\ served < MaxRequests
  /\ served' = served + 1
  /\ \E m \in Edits : edit' = [edit EXCEPT ![r] = m]
  /\ \E p \in BOOLEAN : preview' = [preview EXCEPT ![r] = p]
  /\ loaded' = [loaded EXCEPT ![r] = catalog]
  /\ Goto(r, "build")
  /\ UNCHANGED <<files, text, passed, late, moves, overlaps, catalogFqdn>>

\* Mutant of Build: identifiers are not compared.
BuildUnchecked(r) ==
  /\ pc[r] = "build"
  /\ LET s == loaded[r][edit[r].section] IN
     IF /\ edit[r].action # "create" => Indices(s, edit[r].name) # {}
        /\ edit[r].action # "delete" => Valid(NewEntry(s, edit[r]))
     THEN Goto(r, "render") /\ UNCHANGED <<edit, preview, loaded, text, passed, late>>
     ELSE Respond(r)
  /\ UNCHANGED <<files, counters>>

\* build_candidate_catalog, or its refusal (400, 404 or 409), and the first
\* half of render_preview: the current catalog is rendered too, for the diff.
Build(r) ==
  /\ pc[r] = "build"
  /\ IF /\ Accepts(loaded[r][edit[r].section], edit[r])
        /\ Renderable(loaded[r], fqdn)
     THEN Goto(r, "render") /\ UNCHANGED <<edit, preview, loaded, text, passed, late>>
     ELSE Respond(r)
  /\ UNCHANGED <<files, counters>>

\* Mutant of Render: the reserved identifiers are not looked at.
RenderUnchecked(r) ==
  /\ pc[r] = "render"
  /\ text' = [text EXCEPT ![r] = [catalog |-> Candidate(r), fqdn |-> fqdn]]
  /\ Goto(r, "lock")
  /\ UNCHANGED <<files, edit, preview, loaded, passed, late, counters>>

\* The candidate is rendered; config.toml is read again for it.
Render(r) ==
  /\ pc[r] = "render"
  /\ IF Renderable(Candidate(r), fqdn)
     THEN /\ text' = [text EXCEPT ![r] = [catalog |-> Candidate(r), fqdn |-> fqdn]]
          /\ Goto(r, "lock")
          /\ UNCHANGED <<edit, preview, loaded, passed, late>>
     ELSE Respond(r)
  /\ UNCHANGED <<files, counters>>

\* Mutant of Acquire: the flock is shared.
AcquireShared(r) ==
  /\ pc[r] = "lock"
  /\ lock' = r
  /\ Goto(r, "write")
  /\ UNCHANGED <<catalog, fqdn, conf, edit, preview, loaded, text, passed, late, counters>>

Acquire(r) ==
  /\ pc[r] = "lock" /\ lock = None
  /\ lock' = r
  /\ Goto(r, "write")
  /\ UNCHANGED <<catalog, fqdn, conf, edit, preview, loaded, text, passed, late, counters>>

\* Mutant of Release: the flock outlives the request's workspace.
ReleaseForgotten(r) == UNCHANGED lock

Release(r) == lock' = None

\* _write_full_nginx_conf; a failed write (disk full) ends the request, and
\* the finally of _preview_workspace unlocks.
WriteConf(r) ==
  /\ pc[r] = "write"
  /\ \/ /\ conf' = text[r]
        /\ Goto(r, "test")
        /\ UNCHANGED <<lock, edit, preview, loaded, text, passed, late>>
     \/ /\ Release(r)
        /\ Respond(r)
        /\ UNCHANGED conf
  /\ UNCHANGED <<catalog, fqdn, counters>>

\* _run_nginx_test on whatever is in the directory.  The verdict is nginx's,
\* and certificates, includes and the helper come and go: any verdict.
NginxTest(r) ==
  /\ pc[r] = "test"
  /\ \E accepted \in {conf, None} : passed' = [passed EXCEPT ![r] = accepted]
  /\ Goto(r, "lint")
  /\ UNCHANGED <<files, edit, preview, loaded, text, late, counters>>

\* _run_gixy, whose findings decide nothing; the workspace is unlocked.  A
\* preview ends here, and so does an apply that nginx -t refused (409).
Lint(r) ==
  /\ pc[r] = "lint"
  /\ Release(r)
  /\ IF preview[r] \/ passed[r] = None
     THEN Respond(r)
     ELSE Goto(r, "persist") /\ UNCHANGED <<edit, preview, loaded, text, passed, late>>
  /\ UNCHANGED <<catalog, fqdn, conf, counters>>

InFlight(r) == pc[r] # "idle"

\* persist_catalog: a temporary file, fsync and os.replace; a failed write
\* removes the temporary and changes nothing (500).
Persist(r) ==
  /\ pc[r] = "persist"
  /\ \/ /\ catalog' = Candidate(r)
        /\ catalogFqdn' = text[r].fqdn
        /\ overlaps' = overlaps + (IF r \in late THEN 1 ELSE 0)
        /\ Free(r)
        /\ late' = {q \in Request \ {r} : InFlight(q)}
     \/ /\ Respond(r)
        /\ UNCHANGED <<catalog, catalogFqdn, overlaps>>
  /\ UNCHANGED <<fqdn, lock, conf, served, moves>>

-----------------------------------------------------------------------------

\* The server is restarted: every request is gone, and the kernel drops the
\* flock.  The files stay.
Crash ==
  /\ pc' = [r \in Request |-> "idle"]
  /\ edit' = [r \in Request |-> None]
  /\ preview' = [r \in Request |-> FALSE]
  /\ loaded' = [r \in Request |-> None]
  /\ text' = [r \in Request |-> None]
  /\ passed' = [r \in Request |-> None]
  /\ late' = {}
  /\ lock' = None
  /\ UNCHANGED <<catalog, fqdn, conf, counters>>

\* The operator edits config.toml.
SetFqdn ==
  /\ moves < MaxMoves
  /\ moves' = moves + 1
  /\ \E name \in Fqdn \ {fqdn} : fqdn' = name
  /\ UNCHANGED <<catalog, lock, conf, request, served, late, overlaps, catalogFqdn>>

Init ==
  /\ catalog \in HandWritten
  /\ fqdn \in {name \in Fqdn : Renderable(catalog, name)}
  /\ lock = None
  /\ conf = None
  /\ pc = [r \in Request |-> "idle"]
  /\ edit = [r \in Request |-> None]
  /\ preview = [r \in Request |-> FALSE]
  /\ loaded = [r \in Request |-> None]
  /\ text = [r \in Request |-> None]
  /\ served = 0
  /\ moves = 0
  /\ passed = [r \in Request |-> None]
  /\ late = {}
  /\ overlaps = 0
  /\ catalogFqdn = fqdn

\* What a request does once it has arrived.
Serve(r) ==
  \/ Build(r)
  \/ Render(r)
  \/ Acquire(r)
  \/ WriteConf(r)
  \/ NginxTest(r)
  \/ Lint(r)
  \/ Persist(r)

Next ==
  \/ \E r \in Request : Load(r) \/ Serve(r)
  \/ Crash
  \/ SetFqdn

\* A thread that can run does, nginx -t and gixy have timeouts, and the
\* kernel wakes the waiters of a flock in turn.
Fairness == \A r \in Request : WF_vars(Serve(r)) /\ SF_vars(Acquire(r))

Spec == Init /\ [][Next]_vars
FairSpec == Spec /\ Fairness

-----------------------------------------------------------------------------
(* Properties.                                                              *)

Optional(S) == S \cup {None}

(* Every variable keeps its type; in particular every catalog a request     *)
(* loads, builds or persists is a list of complete entries.                 *)
TypeOK ==
  /\ catalog \in Catalog
  /\ fqdn \in Fqdn
  /\ lock \in Optional(Request)
  /\ conf \in Optional(Text)
  /\ pc \in [Request ->
       {"idle", "build", "render", "lock", "write", "test", "lint", "persist"}]
  /\ edit \in [Request -> Optional(Edits)]
  /\ preview \in [Request -> BOOLEAN]
  /\ loaded \in [Request -> Optional(Catalog)]
  /\ text \in [Request -> Optional(Text)]
  /\ served \in 0..MaxRequests
  /\ moves \in 0..MaxMoves
  /\ passed \in [Request -> Optional(Text)]
  /\ late \subseteq Request
  /\ overlaps \in Nat
  /\ catalogFqdn \in Fqdn

(* services.json never holds two entries with one name, server name or      *)
(* listen port, however many requests edit it at once: each candidate is    *)
(* checked against the one catalog it was made from.                        *)
UniqueIdentifiers == UniqueCatalog(catalog)

(* The catalog changes only to one whose rendered text nginx -t accepted:   *)
(* not to another request's, though all share one preview directory.        *)
OnlyTestedIsPersisted ==
  [][catalog' # catalog =>
       \E r \in Request : passed[r] # None /\ passed[r].catalog = catalog']_vars

(* The catalog in place always renders under the web UI name it was         *)
(* rendered with.  One that does not render blocks every route: even the    *)
(* edit that would repair it is refused, for the diff renders it first.     *)
NeverWedged == Renderable(catalog, catalogFqdn)

Abstract == INSTANCE AtomicCatalog

(* Requests are atomic edits of the catalog (AtomicCatalog), except when    *)
(* one persists over a catalog that was replaced after it had loaded it.    *)
ImplementsAtomicCatalog == Abstract!AtomicSpec

(* Every request is answered: no path leaves the flock of the preview       *)
(* directory locked, and none waits for itself.                             *)
EveryRequestEnds == \A r \in Request : InFlight(r) ~> ~InFlight(r)

=============================================================================
