------------------------------- MODULE WebUi --------------------------------
(***************************************************************************)
(* Processes of the web UI (config/serve.py, app/api/app.py): each makes   *)
(* sure of the session secret (app/home_warden_auth.py), one step for each *)
(* system call, takes the port if it is free, and serves logins            *)
(* (app/api/auth_routes.py) in threads until it dies.  A cookie counts as  *)
(* long as the server's secret is the one it was signed with.              *)
(***************************************************************************)
EXTENDS LoginRateLimit, FiniteSets

CONSTANTS
  Proc,         \* the processes, each of which starts at most once
  Request,      \* the threads of a server
  Old,          \* whoever made the file before
  Blank,        \* a file without text
  MaxAttempts,  \* of ensure_session_secret: 3
  MaxClock,     \* bound on the clock
  MaxLogins     \* bound on the logins tried

ASSUME WebUiAssumption ==
  /\ Old \notin Proc /\ None \notin Proc /\ MaxAttempts \in Nat \ {0}
  /\ IsFiniteSet(Request)
  /\ MaxClock \in Nat /\ MaxLogins \in Nat

\* token_urlsafe: no two draws agree.  Secrets[p, i] is p's i-th draw.
Secrets == (Proc \cup {Old}) \X (0 .. MaxAttempts)

ASSUME SecretAssumption == Blank \notin Secrets /\ None \notin Secrets

\* A file, told from later ones of the same name by its maker.
Files == [maker: Proc \cup {Old}, text: Secrets \cup {Blank}]

ASSUME FileAssumption == None \notin Files

VARIABLES
  clock,
  file,       \* session-secret
  pc,         \* where each process is
  tries,      \* its rounds of the loop
  secret,     \* the secret it draws, then the one it uses
  server,     \* the process that holds the port
  table,      \* its limiter's entries
  busy,       \* for each thread, the source whose login is with PAM
  cookies,    \* the secrets that browsers have signed cookies of
  logins,     \* how many logins were tried
  memory,     \* history: what each source did, not swept
  burst,      \* history: failures of each source since the clock moved
  disturbed   \* history: two starts overlapped, or an I/O call failed

starting == <<file, pc, tries, secret, server>>
serving == <<table, busy, cookies, logins>>
history == <<memory, burst>>
vars == <<clock, starting, serving, history, disturbed>>

\* The stages of ensure_session_secret.
Ensuring == {"read", "clear", "open", "write"}
Stages == Ensuring \cup {"idle", "up", "serving", "dead"}

Goto(p, stage) == pc' = [pc EXCEPT ![p] = stage]

TypeOK ==
  /\ clock \in Nat
  /\ file \in Files \cup {None}
  /\ pc \in [Proc -> Stages]
  /\ tries \in [Proc -> 0 .. MaxAttempts]
  /\ secret \in [Proc -> Secrets \cup {Blank}]
  /\ server \in Proc \cup {None}
  /\ table \in Tables
  /\ busy \in [Request -> Source \cup {None}]
  /\ cookies \subseteq Secrets \cup {Blank}
  /\ logins \in Nat
  /\ memory \in [Source -> Entry]
  /\ burst \in [Source -> Nat]
  /\ disturbed \in BOOLEAN

Init ==
  /\ clock = 0
  /\ file \in {None, [maker |-> Old, text |-> Blank],
               [maker |-> Old, text |-> <<Old, 0>>]}
  /\ pc = [p \in Proc |-> "idle"]
  /\ tries = [p \in Proc |-> 0]
  /\ secret = [p \in Proc |-> Blank]
  /\ server = None
  /\ table = [s \in Source |-> None]
  /\ busy = [r \in Request |-> None]
  /\ cookies = {}
  /\ logins = 0
  /\ memory = [s \in Source |-> NewEntry]
  /\ burst = [s \in Source |-> 0]
  /\ disturbed = FALSE

-----------------------------------------------------------------------------
(* ensure_session_secret.                                                   *)

\* A start beside another one is where secrets may part.
Start(p) ==
  /\ pc[p] = "idle"
  /\ Goto(p, "read")
  /\ disturbed' = (disturbed \/ \E q \in Proc : pc[q] \in Ensuring)
  /\ UNCHANGED <<clock, file, tries, secret, server, serving, history>>

\* _read_session_secret.
ReadText == IF file = None THEN Blank ELSE file.text

\* The secret in the file is used; without one the process goes on to make it.
Read(p) ==
  /\ pc[p] = "read"
  /\ \E text \in {ReadText, Blank} :
       /\ disturbed' = (disturbed \/ text # ReadText)
       /\ secret' = [secret EXCEPT ![p] = IF text = Blank THEN <<p, tries[p]>> ELSE text]
       /\ Goto(p, IF text = Blank THEN "clear" ELSE "up")
  /\ UNCHANGED <<clock, file, tries, server, serving, history>>

\* Mutant of Clear: the empty file of a crashed start stays.
ClearNothing(p) ==
  /\ pc[p] = "clear"
  /\ Goto(p, "open")
  /\ UNCHANGED <<clock, file, tries, secret, server, serving, history, disturbed>>

\* Whatever has that name by now is removed, or cannot be.
Clear(p) ==
  /\ pc[p] = "clear"
  /\ Goto(p, "open")
  /\ \/ file' = None /\ UNCHANGED disturbed
     \/ file # None /\ file' = file /\ disturbed' = TRUE
  /\ UNCHANGED <<clock, tries, secret, server, serving, history>>

\* O_CREAT | O_EXCL.
Open(p) ==
  /\ pc[p] = "open" /\ file = None
  /\ file' = [maker |-> p, text |-> Blank]
  /\ Goto(p, "write")
  /\ UNCHANGED <<clock, tries, secret, server, serving, history, disturbed>>

\* FileExistsError: another round, or a secret that only this process knows.
OpenLoses(p) ==
  /\ pc[p] = "open" /\ file # None
  /\ tries' = [tries EXCEPT ![p] = @ + 1]
  /\ IF tries[p] + 1 < MaxAttempts
     THEN Goto(p, "read") /\ UNCHANGED secret
     ELSE Goto(p, "up") /\ secret' = [secret EXCEPT ![p] = <<p, MaxAttempts>>]
  /\ UNCHANGED <<clock, file, server, serving, history, disturbed>>

\* Any other OSError, of mkdir as well: the secret stays in memory.
OpenFails(p) ==
  /\ pc[p] = "open"
  /\ Goto(p, "up")
  /\ disturbed' = TRUE
  /\ UNCHANGED <<clock, file, tries, secret, server, serving, history>>

\* The text goes to the file that was opened, whatever has its name by now.
Write(p) ==
  /\ pc[p] = "write"
  /\ Goto(p, "up")
  /\ file' = IF file # None /\ file.maker = p
             THEN [file EXCEPT !.text = secret[p]] ELSE file
  /\ UNCHANGED <<clock, tries, secret, server, serving, history, disturbed>>

\* A write that fails, and the attempt to remove the empty file.
WriteFails(p) ==
  /\ pc[p] = "write"
  /\ Goto(p, "up")
  /\ file' \in {file, None}
  /\ disturbed' = TRUE
  /\ UNCHANGED <<clock, tries, secret, server, serving, history>>

\* create_app and uvicorn: one process holds the port.
Bind(p) ==
  /\ pc[p] = "up"
  /\ IF server = None
     THEN server' = p /\ Goto(p, "serving")
     ELSE UNCHANGED server /\ Goto(p, "dead")
  /\ UNCHANGED <<clock, file, tries, secret, serving, history, disturbed>>

\* What a server forgets: its limiter is in memory only.
Die(p) ==
  /\ pc[p] \notin {"idle", "dead"}
  /\ Goto(p, "dead")
  /\ IF server = p
     THEN /\ server' = None
          /\ table' = [s \in Source |-> None]
          /\ busy' = [r \in Request |-> None]
          /\ memory' = [s \in Source |-> NewEntry]
          /\ burst' = [s \in Source |-> 0]
     ELSE UNCHANGED <<server, table, busy, history>>
  /\ UNCHANGED <<clock, file, tries, secret, cookies, logins, disturbed>>

-----------------------------------------------------------------------------
(* POST /auth/login.                                                        *)

Admitted(s) == SecondsUntilAllowed(table, s, clock) = 0

\* The limiter is asked, and the login is with PAM or refused (429).
Ask(r, s) ==
  /\ server # None /\ busy[r] = None
  /\ logins < MaxLogins
  /\ logins' = logins + 1
  /\ table' = AfterAsking(table, s, clock)
  /\ busy' = IF Admitted(s) THEN [busy EXCEPT ![r] = s] ELSE busy
  /\ UNCHANGED <<clock, starting, cookies, history, disturbed>>

\* PAM is not available: 503.
Unavailable(r) ==
  /\ busy[r] # None
  /\ busy' = [busy EXCEPT ![r] = None]
  /\ UNCHANGED <<clock, starting, table, cookies, logins, history, disturbed>>

\* What a limiter without a sweep would know.
Remembered(s) ==
  LET old == memory[s]
      entry == IF Stale(old, clock) THEN NewEntry ELSE old
  IN  Counted(entry, clock)

\* 401.
Reject(r) ==
  /\ busy[r] # None
  /\ table' = WithFailure(table, busy[r], clock)
  /\ memory' = [memory EXCEPT ![busy[r]] = Remembered(busy[r])]
  /\ burst' = [burst EXCEPT ![busy[r]] = @ + 1]
  /\ busy' = [busy EXCEPT ![r] = None]
  /\ UNCHANGED <<clock, starting, cookies, logins, disturbed>>

\* The cookie is signed with this process's secret.
Accept(r) ==
  /\ busy[r] # None
  /\ table' = WithSuccess(table, busy[r])
  /\ memory' = [memory EXCEPT ![busy[r]] = NewEntry]
  /\ burst' = [burst EXCEPT ![busy[r]] = 0]
  /\ cookies' = cookies \cup {secret[server]}
  /\ busy' = [busy EXCEPT ![r] = None]
  /\ UNCHANGED <<clock, starting, logins, disturbed>>

Tick ==
  /\ clock < MaxClock
  /\ clock' = clock + 1
  /\ burst' = [s \in Source |-> 0]
  /\ UNCHANGED <<starting, serving, memory, disturbed>>

Next ==
  \/ \E p \in Proc :
       \/ Start(p) \/ Read(p) \/ Clear(p) \/ Open(p) \/ OpenLoses(p) \/ OpenFails(p)
       \/ Write(p) \/ WriteFails(p) \/ Bind(p) \/ Die(p)
  \/ \E r \in Request :
       \/ \E s \in Source : Ask(r, s)
       \/ Unavailable(r) \/ Reject(r) \/ Accept(r)
  \/ Tick

Spec == Init /\ [][Next]_vars

-----------------------------------------------------------------------------
(* Properties.                                                              *)

\* A restart logs nobody out: the server's secret is the one every cookie
\* was signed with, also after a start that died between creating the file
\* and writing it, unless two starts overlapped or an I/O call failed
\* (ensure_session_secret).
SessionsSurvive ==
  (server # None /\ ~disturbed) => cookies \subseteq {secret[server]}

\* Forgetting is not forgiving: no login reaches PAM before the backoff that
\* the failures of its source brought has passed, whatever was swept from
\* the table, and by whose failure, in the meantime.  Only a success of that
\* source or a new process ends a backoff early.
BackoffIsServed ==
  [][\A r \in Request :
       (busy[r] = None /\ busy'[r] # None) => memory[busy'[r]].until <= clock]_vars

\* The limiter is asked before PAM and told after it, so logins that are
\* with PAM together all get through.  That is all that gets through: while
\* the clock stands, a source that does not succeed fails no more often than
\* the threshold and the threads allow.
BurstIsBounded ==
  \A s \in Source : burst[s] <= Threshold + Cardinality(Request)

=============================================================================
