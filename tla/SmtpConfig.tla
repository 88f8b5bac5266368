----------------------------- MODULE SmtpConfig -----------------------------
(***************************************************************************)
(* app/api/smtp_routes.py over app/smtp_config.py: the [smtp] table of     *)
(* config.toml, which also holds the web UI's fqdn.  Requests run in       *)
(* threads.  A save decides about the password from one read of the file,  *)
(* edits what a second read returns, truncates the file in place and then  *)
(* writes it; no lock covers any of it, and the server may die anywhere.   *)
(***************************************************************************)
EXTENDS Integers, FiniteSets

CONSTANTS
  Request,     \* the threads that serve requests
  Relay,       \* (host, port, username): where a password is used
  Password,    \* the passwords operators type
  Blank,       \* ""
  Missing,     \* no password in the request: keep the stored one
  Fqdn,        \* the values of the fqdn key
  None,        \* no [smtp] table, no fqdn key, nothing
  Malformed,   \* a file that is not TOML
  MaxRequests  \* bound on the requests served

ASSUME ValueAssumption ==
  /\ Blank \notin Password /\ Missing \notin Password \cup {Blank}
  /\ MaxRequests \in Nat

Table == [relay: Relay, password: Password \cup {Blank}]
Config == [fqdn: Fqdn \cup {None}, smtp: Table \cup {None}]

\* What the reads make of a missing file, and of one cut down to no bytes:
\* tomllib finds no key in it, and no error.
NoConfig == [fqdn |-> None, smtp |-> None]

ASSUME MarkAssumption == Malformed \notin Config /\ None \notin Table

VARIABLES
  file,      \* config.toml
  pc,        \* where each request is
  body,      \* what it asks
  password,  \* what _resolve_save_password answered
  next,      \* the contents it is about to write
  served,    \* requests served so far
  original,  \* history: the file the model began with
  given,     \* history: the passwords operators gave, with their relay
  sent,      \* history: the passwords used in test mails, with the relay
  stale,     \* history: requests whose last read is not the file any more
  disturbed, \* history: a stale request has gone on
  cut        \* history: a write ended between truncation and text

request == <<pc, body, password, next>>
history == <<original, given, sent, disturbed, cut>>
vars == <<file, request, served, stale, history>>

Body == [kind: {"put", "delete", "test"}, relay: Relay,
         password: Password \cup {Blank, Missing}]

-----------------------------------------------------------------------------

\* _read_toml_dict: the lenient read.
Lenient == IF file = Malformed THEN NoConfig ELSE file

\* Mutant of SameRelay: any stored table will do.
AnyRelay(table, relay) == table # None

\* _connection_target_matches, with load_smtp_config's None.
SameRelay(table, relay) == table # None /\ table.relay = relay

\* A read of r is stale from the start while another request has the file cut down.
ReadBy(r) ==
  stale' = IF \E q \in Request \ {r} : pc[q] = "write" THEN stale \cup {r} ELSE stale \ {r}

\* The file changed under every request that is under way.
ChangedBy(r) == stale' = {q \in Request \ {r} : pc[q] # "idle"}

End(r) ==
  /\ pc' = [pc EXCEPT ![r] = "idle"]
  /\ body' = [body EXCEPT ![r] = None]
  /\ password' = [password EXCEPT ![r] = Blank]
  /\ next' = [next EXCEPT ![r] = None]

Respond(r) == End(r) /\ stale' = stale \ {r}

Goto(r, label) == pc' = [pc EXCEPT ![r] = label]

GoesOn(r) == disturbed' = (disturbed \/ r \in stale)

-----------------------------------------------------------------------------
(* One request.                                                             *)

\* A request that passed _validate_smtp_body and the host guard.
Arrive(r) ==
  /\ pc[r] = "idle"
  /\ served < MaxRequests
  /\ served' = served + 1
  /\ \E b \in Body :
       /\ body' = [body EXCEPT ![r] = b]
       /\ Goto(r, IF b.kind = "delete" THEN "read" ELSE "resolve")
       /\ given' = IF b.kind # "delete" /\ b.password \in Password
                   THEN given \cup {<<b.relay, b.password>>} ELSE given
  /\ UNCHANGED <<file, password, next, stale, original, sent, disturbed, cut>>

\* _resolve_save_password: Missing means save_smtp_config's own "keep".
ResolveSave(r) ==
  /\ pc[r] = "resolve" /\ body[r].kind = "put"
  /\ password' = [password EXCEPT ![r] =
       IF body[r].password # Missing \/ SameRelay(Lenient.smtp, body[r].relay)
       THEN body[r].password ELSE Blank]
  /\ ReadBy(r)
  /\ Goto(r, "read")
  /\ UNCHANGED <<file, body, next, served, history>>

\* _resolve_test_password and send_email: a password is used only if it was
\* typed, or stored for the same relay.  Whatever the relay answers, the
\* request is over.
SendTest(r) ==
  /\ pc[r] = "resolve" /\ body[r].kind = "test"
  /\ LET b == body[r] IN
     sent' = CASE b.password \in Password -> sent \cup {<<b.relay, b.password>>}
               [] b.password \notin Password /\ SameRelay(Lenient.smtp, b.relay) ->
                    sent \cup {<<b.relay, Lenient.smtp.password>>}
               [] OTHER -> sent
  /\ Respond(r)
  /\ UNCHANGED <<file, served, original, given, disturbed, cut>>

\* Mutant of Saved: only the table is written back.
SavedAlone(r, config) ==
  [fqdn |-> None,
   smtp |-> [relay |-> body[r].relay,
             password |-> IF password[r] = Missing THEN Blank ELSE password[r]]]

\* The [smtp] table a save leaves: an omitted password is the stored one.
Saved(r, config) ==
  [config EXCEPT !.smtp =
     [relay |-> body[r].relay,
      password |-> CASE password[r] # Missing -> password[r]
                     [] password[r] = Missing /\ config.smtp # None -> config.smtp.password
                     [] OTHER -> Blank]]

\* Mutant of Refused: a file that does not parse is taken for an empty one.
NeverRefused(r) == FALSE

\* _read_toml_dict_for_write: 409.  A delete without a table has nothing to do.
Refused(r) == file = Malformed \/ (body[r].kind = "delete" /\ file.smtp = None)

\* save_smtp_config and delete_smtp_config up to the write.
Read(r) ==
  /\ pc[r] = "read"
  /\ IF Refused(r)
     THEN Respond(r) /\ UNCHANGED disturbed
     ELSE /\ next' = [next EXCEPT ![r] =
               IF body[r].kind = "put" THEN Saved(r, Lenient)
               ELSE [Lenient EXCEPT !.smtp = None]]
          /\ GoesOn(r)
          /\ ReadBy(r)
          /\ Goto(r, "open")
          /\ UNCHANGED <<body, password>>
  /\ UNCHANGED <<file, served, original, given, sent, cut>>

\* os.open with O_TRUNC.  A value that _dump_toml cannot write, or a failure
\* to open, ends the request before anything changed.
Open(r) ==
  /\ pc[r] = "open"
  /\ \/ /\ file' = NoConfig
        /\ GoesOn(r)
        /\ ChangedBy(r)
        /\ Goto(r, "write")
        /\ UNCHANGED <<body, password, next>>
     \/ Respond(r) /\ UNCHANGED <<file, disturbed>>
  /\ UNCHANGED <<served, original, given, sent, cut>>

\* os.write at the start of the file.  Over a text another request wrote
\* since the truncation, the shorter of the two leaves the other's tail;
\* a write that fails or comes up short leaves no text, or a part that does
\* not parse.
Overlay(r) == IF file = NoConfig THEN {next[r]} ELSE {next[r], Malformed}

Write(r) ==
  /\ pc[r] = "write"
  /\ \/ /\ file' \in Overlay(r)
        /\ UNCHANGED cut
     \/ /\ cut' = TRUE
        /\ file' \in {file, Malformed}
  /\ GoesOn(r)
  /\ End(r)
  /\ ChangedBy(r)
  /\ UNCHANGED <<served, original, given, sent>>

-----------------------------------------------------------------------------

\* The server dies; what is on disk stays as it is.
Crash ==
  /\ pc' = [r \in Request |-> "idle"]
  /\ body' = [r \in Request |-> None]
  /\ password' = [r \in Request |-> Blank]
  /\ next' = [r \in Request |-> None]
  /\ stale' = {}
  /\ cut' = (cut \/ \E r \in Request : pc[r] = "write")
  /\ UNCHANGED <<file, served, original, given, sent, disturbed>>

Init ==
  /\ file \in {[fqdn |-> name, smtp |-> None] : name \in Fqdn} \cup {NoConfig, Malformed}
  /\ pc = [r \in Request |-> "idle"]
  /\ body = [r \in Request |-> None]
  /\ password = [r \in Request |-> Blank]
  /\ next = [r \in Request |-> None]
  /\ served = 0
  /\ original = file
  /\ given = {}
  /\ sent = {}
  /\ stale = {}
  /\ disturbed = FALSE
  /\ cut = FALSE

Next ==
  \/ \E r \in Request :
       \/ Arrive(r)
       \/ ResolveSave(r)
       \/ SendTest(r)
       \/ Read(r)
       \/ Open(r)
       \/ Write(r)
  \/ Crash

Spec == Init /\ [][Next]_vars

-----------------------------------------------------------------------------
(* Properties.                                                              *)

(* Every variable keeps its type: the file is always a configuration or     *)
(* known not to parse.                                                      *)
TypeOK ==
  /\ file \in Config \cup {Malformed}
  /\ pc \in [Request -> {"idle", "resolve", "read", "open", "write"}]
  /\ body \in [Request -> Body \cup {None}]
  /\ password \in [Request -> Password \cup {Blank, Missing}]
  /\ next \in [Request -> Config \cup {None}]
  /\ served \in 0..MaxRequests
  /\ original \in Config \cup {Malformed}
  /\ given \subseteq Relay \X Password
  /\ sent \subseteq Relay \X (Password \cup {Blank})
  /\ stale \subseteq Request
  /\ disturbed \in BOOLEAN
  /\ cut \in BOOLEAN

Writing == \E r \in Request : pc[r] = "write"

(* save_smtp_config and delete_smtp_config preserve the other keys of       *)
(* config.toml: the web UI's fqdn is what it was, unless a write was cut    *)
(* short or a request went on with a read that had become stale.            *)
OtherKeysKept ==
  original # Malformed /\ ~disturbed /\ ~cut /\ ~Writing =>
    file # Malformed /\ file.fqdn = original.fqdn

(* A stored password is one an operator gave for the stored relay, and a    *)
(* test mail uses no password but one given for the relay it goes to: a     *)
(* save with the field left blank never carries the old relay's password    *)
(* over.  Saves that went on with a stale read are excused.                 *)
PasswordOfItsRelay ==
  ~disturbed =>
    /\ file # Malformed /\ file.smtp # None /\ file.smtp.password # Blank =>
         <<file.smtp.relay, file.smtp.password>> \in given
    /\ \A pair \in sent : pair[2] # Blank => pair \in given

(* A file that the operator left malformed is never overwritten, by any     *)
(* number of requests.                                                      *)
MalformedIsKept == original = Malformed => file = Malformed

(* What _resolve_save_password says of a blank password: switching the      *)
(* relay must clear the old secret, "not silently carry it over to a relay  *)
(* it was never issued for".  Nothing is excused.                           *)
NeverCarriedOver ==
  file # Malformed /\ file.smtp # None /\ file.smtp.password # Blank =>
    <<file.smtp.relay, file.smtp.password>> \in given

=============================================================================
