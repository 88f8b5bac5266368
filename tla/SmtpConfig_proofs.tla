-------------------------- MODULE SmtpConfig_proofs -------------------------
(***************************************************************************)
(* Theorems about SmtpConfig, for any number of requests, relays and       *)
(* passwords: the three safety properties of config.toml.                  *)
(*                                                                         *)
(* The invariant follows one idea: while no request has gone on with a     *)
(* stale read, what a request is about to write was made from the file as  *)
(* it still is, and the only writer is the one that has it cut down.       *)
(***************************************************************************)
EXTENDS SmtpConfig, TLAPS

\* A table's password was given for the table's relay.
Given(table) ==
  table # None /\ table.password # Blank => <<table.relay, table.password>> \in given

\* The request of r is one that can be where r is.
BodyInv(r) ==
  /\ pc[r] # "idle" => body[r] \in Body
  /\ pc[r] = "resolve" => body[r].kind # "delete"
  /\ pc[r] \in {"read", "open", "write"} => body[r].kind # "test"
  /\ pc[r] \in {"open", "write"} => next[r] \in Config
  /\ pc[r] = "resolve" /\ body[r].password \in Password =>
       <<body[r].relay, body[r].password>> \in given
  /\ pc[r] = "read" /\ body[r].kind = "put" /\ password[r] \in Password =>
       <<body[r].relay, password[r]>> \in given

MalformedInv ==
  original = Malformed =>
    file = Malformed /\ \A r \in Request : pc[r] \notin {"open", "write"}

PasswordInv ==
  ~disturbed =>
    /\ file # Malformed => Given(file.smtp)
    /\ \A pair \in sent : pair[2] # Blank => pair \in given
    /\ \A r \in Request :
         /\ pc[r] \in {"open", "write"} => Given(next[r].smtp)
         /\ pc[r] = "read" /\ body[r].kind = "put" /\ password[r] = Missing /\ r \notin stale =>
              SameRelay(Lenient.smtp, body[r].relay)

KeysInv ==
  original # Malformed /\ ~disturbed /\ ~cut =>
    /\ ~Writing => file # Malformed /\ file.fqdn = original.fqdn
    /\ \A r \in Request : pc[r] = "write" =>
         /\ file = NoConfig
         /\ next[r].fqdn = original.fqdn
         /\ \A q \in Request \ {r} : pc[q] \in {"open", "write"} => q \in stale /\ pc[q] = "open"
    /\ \A r \in Request :
         pc[r] = "open" /\ r \notin stale => next[r].fqdn = original.fqdn

IInv ==
  TypeOK /\ (\A r \in Request : BodyInv(r)) /\ MalformedInv /\ PasswordInv /\ KeysInv

-----------------------------------------------------------------------------
(* Helpers.                                                                 *)

(* The tables and configurations a request makes are well-formed.           *)
LEMMA Shapes ==
  /\ NoConfig \in Config
  /\ NoConfig # Malformed
  /\ TypeOK => Lenient \in Config
  /\ \A config \in Config : [config EXCEPT !.smtp = None] \in Config
  /\ \A config \in Config : config # Malformed
BY MarkAssumption DEF NoConfig, Config, Lenient, TypeOK

(* What Saved makes of a configuration, field by field.                     *)
LEMMA SavedShape ==
  ASSUME NEW r \in Request, body[r] \in Body, password[r] \in Password \cup {Blank, Missing},
         NEW config \in Config
  PROVE  /\ Saved(r, config) \in Config
         /\ Saved(r, config).fqdn = config.fqdn
         /\ Saved(r, config).smtp # None
         /\ Saved(r, config).smtp.relay = body[r].relay
         /\ password[r] # Missing => Saved(r, config).smtp.password = password[r]
         /\ password[r] = Missing /\ config.smtp # None =>
              Saved(r, config).smtp.password = config.smtp.password
         /\ password[r] = Missing /\ config.smtp = None =>
              Saved(r, config).smtp.password = Blank
<1>1. PICK pw : pw = CASE password[r] # Missing -> password[r]
                       [] password[r] = Missing /\ config.smtp # None -> config.smtp.password
                       [] OTHER -> Blank
  OBVIOUS
<1>2. /\ password[r] # Missing => pw = password[r]
      /\ password[r] = Missing /\ config.smtp # None => pw = config.smtp.password
      /\ password[r] = Missing /\ config.smtp = None => pw = Blank
  BY <1>1
<1>3. pw \in Password \cup {Blank}
  BY <1>2 DEF Config, Table
<1>4. [relay |-> body[r].relay, password |-> pw] \in Table
  BY <1>3 DEF Table, Body
<1>5. Saved(r, config) = [config EXCEPT !.smtp = [relay |-> body[r].relay, password |-> pw]]
  BY <1>1 DEF Saved
<1>6. None # [relay |-> body[r].relay, password |-> pw]
  BY <1>4, MarkAssumption
<1> QED
  BY <1>2, <1>4, <1>5, <1>6 DEF Config

(* What is left of a file by a write is the text or not TOML at all.        *)
LEMMA Overlays ==
  ASSUME NEW r \in Request, NEW f \in Overlay(r)
  PROVE  f = next[r] \/ (f = Malformed /\ file # NoConfig)
BY DEF Overlay

-----------------------------------------------------------------------------
(* The start.                                                               *)

(* The invariant holds at the start.                                        *)
LEMMA InitInv == Init => IInv
<1> SUFFICES ASSUME Init PROVE IInv
  OBVIOUS
<1> USE DEF Init
<1>1. \A name \in Fqdn : [fqdn |-> name, smtp |-> None] \in Config
  BY DEF Config
<1>2. file \in Config \cup {Malformed} /\ (file # Malformed => file.smtp = None)
  BY <1>1, Shapes DEF NoConfig
<1>3. TypeOK
  <2>1. served \in 0..MaxRequests
    BY ValueAssumption
  <2> QED
    BY <1>2, <2>1 DEF TypeOK
<1>4. \A r \in Request : BodyInv(r)
  BY DEF BodyInv
<1>5. MalformedInv /\ PasswordInv
  BY <1>2 DEF MalformedInv, PasswordInv, Given
<1>6. KeysInv
  BY DEF KeysInv, Writing
<1> QED
  BY <1>3, <1>4, <1>5, <1>6 DEF IInv

-----------------------------------------------------------------------------
(* The types.                                                               *)

(* The fields of a request.                                                 *)
LEMMA BodyShape == ASSUME NEW b \in Body
                   PROVE  /\ b.kind \in {"put", "delete", "test"}
                          /\ b.relay \in Relay
                          /\ b.password \in Password \cup {Blank, Missing}
BY DEF Body

(* Every step keeps the types.                                              *)
LEMMA TypeStep == IInv /\ [Next]_vars => TypeOK'
<1> SUFFICES ASSUME IInv, [Next]_vars PROVE TypeOK'
  OBVIOUS
<1>t. TypeOK
  BY DEF IInv
<1> USE <1>t DEF TypeOK
<1>1. ASSUME NEW r \in Request, Arrive(r) PROVE TypeOK'
  <2> PICK b \in Body :
        /\ body' = [body EXCEPT ![r] = b]
        /\ Goto(r, IF b.kind = "delete" THEN "read" ELSE "resolve")
        /\ given' = IF b.kind # "delete" /\ b.password \in Password
                    THEN given \cup {<<b.relay, b.password>>} ELSE given
    BY <1>1 DEF Arrive
  <2>1. given' \subseteq Relay \X Password
    BY BodyShape
  <2>2. served' \in 0..MaxRequests
    BY <1>1, ValueAssumption DEF Arrive
  <2>3. pc' \in [Request -> {"idle", "resolve", "read", "open", "write"}]
    BY DEF Goto
  <2> QED
    BY <1>1, <2>1, <2>2, <2>3 DEF Arrive
<1>2. ASSUME NEW r \in Request, ResolveSave(r) PROVE TypeOK'
  <2>1. body[r].password \in Password \cup {Blank, Missing}
    BY <1>2, BodyShape DEF ResolveSave, IInv, BodyInv
  <2> QED
    BY <1>2, <2>1 DEF ResolveSave, ReadBy, Goto, history
<1>3. ASSUME NEW r \in Request, SendTest(r) PROVE TypeOK'
  <2>1. body[r] \in Body
    BY <1>3 DEF SendTest, IInv, BodyInv
  <2>2. Lenient.smtp # None => Lenient.smtp.password \in Password \cup {Blank}
    BY Shapes DEF Config, Table
  <2>3. sent' \subseteq Relay \X (Password \cup {Blank})
    BY <1>3, <2>1, <2>2, BodyShape DEF SendTest, SameRelay
  <2> QED
    BY <1>3, <2>3 DEF SendTest, Respond, End
<1>4. ASSUME NEW r \in Request, Read(r) PROVE TypeOK'
  <2>1. CASE Refused(r)
    BY <1>4, <2>1 DEF Read, Respond, End
  <2>2. CASE ~Refused(r)
    <3>1. Saved(r, Lenient) \in Config /\ [Lenient EXCEPT !.smtp = None] \in Config
      BY <1>4, Shapes, SavedShape DEF Read, IInv, BodyInv
    <3>2. next' \in [Request -> Config \cup {None}]
      BY <1>4, <2>2, <3>1 DEF Read
    <3> QED
      BY <1>4, <2>2, <3>2 DEF Read, GoesOn, ReadBy, Goto
  <2> QED
    BY <2>1, <2>2
<1>5. ASSUME NEW r \in Request, Open(r) PROVE TypeOK'
  BY <1>5, Shapes DEF Open, Respond, End, GoesOn, ChangedBy, Goto
<1>6. ASSUME NEW r \in Request, Write(r) PROVE TypeOK'
  <2>1. file' \in Config \cup {Malformed}
    BY <1>6, Overlays DEF Write, IInv, BodyInv
  <2> QED
    BY <1>6, <2>1 DEF Write, End, GoesOn, ChangedBy
<1>7. CASE Crash
  BY <1>7 DEF Crash
<1>8. CASE UNCHANGED vars
  BY <1>8 DEF vars, request, history
<1> QED
  BY <1>1, <1>2, <1>3, <1>4, <1>5, <1>6, <1>7, <1>8 DEF Next

-----------------------------------------------------------------------------
(* The requests.                                                            *)

(* Every step keeps each request one that can be where it is.               *)
LEMMA BodyStep == IInv /\ [Next]_vars => \A q \in Request : BodyInv(q)'
<1> SUFFICES ASSUME IInv, [Next]_vars, NEW q \in Request PROVE BodyInv(q)'
  OBVIOUS
<1>t. TypeOK /\ BodyInv(q)
  BY DEF IInv
<1> USE <1>t DEF TypeOK, BodyInv
<1>1. ASSUME NEW r \in Request, Arrive(r) PROVE BodyInv(q)'
  <2> PICK b \in Body :
        /\ body' = [body EXCEPT ![r] = b]
        /\ Goto(r, IF b.kind = "delete" THEN "read" ELSE "resolve")
        /\ given' = IF b.kind # "delete" /\ b.password \in Password
                    THEN given \cup {<<b.relay, b.password>>} ELSE given
    BY <1>1 DEF Arrive
  <2>1. given \subseteq given'
    OBVIOUS
  <2>2. CASE q = r
    BY <1>1, <2>2 DEF Arrive, Goto
  <2>3. CASE q # r
    BY <1>1, <2>1, <2>3 DEF Arrive, Goto
  <2> QED
    BY <2>2, <2>3
<1>2. ASSUME NEW r \in Request, ResolveSave(r) PROVE BodyInv(q)'
  BY <1>2, ValueAssumption DEF ResolveSave, Goto, history
<1>3. ASSUME NEW r \in Request, SendTest(r) PROVE BodyInv(q)'
  BY <1>3 DEF SendTest, Respond, End
<1>4. ASSUME NEW r \in Request, Read(r) PROVE BodyInv(q)'
  <2>1. CASE Refused(r)
    BY <1>4, <2>1 DEF Read, Respond, End
  <2>2. CASE ~Refused(r)
    <3>1. Saved(r, Lenient) \in Config /\ [Lenient EXCEPT !.smtp = None] \in Config
      BY <1>4, Shapes, SavedShape DEF Read, IInv
    <3>2. next' = [next EXCEPT ![r] = next'[r]] /\ next'[r] \in Config
      BY <1>4, <2>2, <3>1 DEF Read
    <3> QED
      BY <1>4, <2>2, <3>2 DEF Read, Goto
  <2> QED
    BY <2>1, <2>2
<1>5. ASSUME NEW r \in Request, Open(r) PROVE BodyInv(q)'
  BY <1>5 DEF Open, Respond, End, Goto
<1>6. ASSUME NEW r \in Request, Write(r) PROVE BodyInv(q)'
  BY <1>6 DEF Write, End
<1>7. CASE Crash
  BY <1>7 DEF Crash
<1>8. CASE UNCHANGED vars
  BY <1>8 DEF vars, request, history
<1> QED
  BY <1>1, <1>2, <1>3, <1>4, <1>5, <1>6, <1>7, <1>8 DEF Next

(* A file that was malformed at the start is never written.                 *)
LEMMA MalformedStep == IInv /\ [Next]_vars => MalformedInv'
<1> SUFFICES ASSUME IInv, [Next]_vars PROVE MalformedInv'
  OBVIOUS
<1> USE DEF IInv, TypeOK, MalformedInv
<1>1. ASSUME NEW r \in Request, Arrive(r) PROVE MalformedInv'
  BY <1>1 DEF Arrive, Goto
<1>2. ASSUME NEW r \in Request, ResolveSave(r) PROVE MalformedInv'
  BY <1>2 DEF ResolveSave, Goto, history
<1>3. ASSUME NEW r \in Request, SendTest(r) PROVE MalformedInv'
  BY <1>3 DEF SendTest, Respond, End
<1>4. ASSUME NEW r \in Request, Read(r) PROVE MalformedInv'
  BY <1>4 DEF Read, Refused, Respond, End, Goto
<1>5. ASSUME NEW r \in Request, Open(r) PROVE MalformedInv'
  BY <1>5 DEF Open
<1>6. ASSUME NEW r \in Request, Write(r) PROVE MalformedInv'
  BY <1>6 DEF Write
<1>7. CASE Crash
  BY <1>7 DEF Crash
<1>8. CASE UNCHANGED vars
  BY <1>8 DEF vars, request, history
<1> QED
  BY <1>1, <1>2, <1>3, <1>4, <1>5, <1>6, <1>7, <1>8 DEF Next

-----------------------------------------------------------------------------
(* The password.                                                            *)

(* Every step of undisturbed requests keeps passwords with their relays.    *)
LEMMA PasswordStep == IInv /\ [Next]_vars => PasswordInv'
<1> SUFFICES ASSUME IInv, [Next]_vars, ~disturbed' PROVE PasswordInv'
  BY DEF PasswordInv
<1>t. TypeOK /\ PasswordInv /\ \A r \in Request : BodyInv(r)
  BY DEF IInv
<1> USE <1>t DEF TypeOK, PasswordInv
<1>1. ASSUME NEW r \in Request, Arrive(r) PROVE PasswordInv'
  <2>1. PICK b \in Body :
        /\ body' = [body EXCEPT ![r] = b]
        /\ Goto(r, IF b.kind = "delete" THEN "read" ELSE "resolve")
        /\ given' = IF b.kind # "delete" /\ b.password \in Password
                    THEN given \cup {<<b.relay, b.password>>} ELSE given
    BY <1>1 DEF Arrive
  <2>2. given \subseteq given'
    BY <2>1
  <2>3. UNCHANGED <<file, next, sent, stale, password, disturbed>>
    BY <1>1 DEF Arrive
  <2>4. (file # Malformed => Given(file.smtp))'
    BY <2>2, <2>3 DEF Given
  <2>5. \A q \in Request : (pc[q] \in {"open", "write"} => Given(next[q].smtp))'
    BY <2>1, <2>2, <2>3 DEF Given, Goto
  <2>6. \A pair \in sent' : pair[2] # Blank => pair \in given'
    BY <2>2, <2>3
  <2>7. ASSUME NEW q \in Request,
               (pc[q] = "read" /\ body[q].kind = "put" /\ password[q] = Missing /\ q \notin stale)'
        PROVE  SameRelay(Lenient.smtp, body[q].relay)'
    <3>1. q # r
      BY <2>1, <2>7 DEF Goto
    <3> QED
      BY <2>1, <2>3, <2>7, <3>1 DEF Goto, SameRelay, Lenient
  <2> QED
    BY <2>4, <2>5, <2>6, <2>7
<1>2. ASSUME NEW r \in Request, ResolveSave(r) PROVE PasswordInv'
  <2>1. UNCHANGED <<file, body, next, given, sent, disturbed>>
    BY <1>2 DEF ResolveSave, history
  <2>2. \A q \in Request : (pc[q] \in {"open", "write"} => Given(next[q].smtp))'
    BY <1>2, <2>1 DEF ResolveSave, Goto, Given
  <2>3. ASSUME NEW q \in Request,
               (pc[q] = "read" /\ body[q].kind = "put" /\ password[q] = Missing /\ q \notin stale)'
        PROVE  SameRelay(Lenient.smtp, body[q].relay)'
    <3>1. CASE q = r
      <4>1. body[r].password # Missing \/ SameRelay(Lenient.smtp, body[r].relay)
        BY <1>2, <2>3, <3>1, ValueAssumption DEF ResolveSave
      <4>2. SameRelay(Lenient.smtp, body[r].relay)
        BY <1>2, <2>3, <3>1, <4>1 DEF ResolveSave
      <4> QED
        BY <2>1, <3>1, <4>2 DEF SameRelay, Lenient
    <3>2. CASE q # r
      BY <1>2, <2>1, <2>3, <3>2 DEF ResolveSave, ReadBy, Goto, SameRelay, Lenient
    <3> QED
      BY <3>1, <3>2
  <2> QED
    BY <2>1, <2>2, <2>3 DEF Given
<1>3. ASSUME NEW r \in Request, SendTest(r) PROVE PasswordInv'
  <2>1. UNCHANGED <<file, given, disturbed>>
    BY <1>3 DEF SendTest
  <2>2. \A q \in Request : pc'[q] # "idle" =>
           q # r /\ pc'[q] = pc[q] /\ body'[q] = body[q] /\ password'[q] = password[q]
           /\ next'[q] = next[q] /\ (q \notin stale' => q \notin stale)
    BY <1>3 DEF SendTest, Respond, End
  <2>3. \A pair \in sent' : pair[2] # Blank => pair \in given
    <3>1. body[r].password \in Password => <<body[r].relay, body[r].password>> \in given
      BY <1>3 DEF SendTest, BodyInv
    <3>2. SameRelay(Lenient.smtp, body[r].relay) /\ Lenient.smtp.password # Blank =>
            <<body[r].relay, Lenient.smtp.password>> \in given
      BY <1>3 DEF SendTest, SameRelay, Lenient, Given, NoConfig
    <3> QED
      BY <1>3, <3>1, <3>2 DEF SendTest
  <2> QED
    BY <2>1, <2>2, <2>3 DEF Given, SameRelay, Lenient
<1>4. ASSUME NEW r \in Request, Read(r) PROVE PasswordInv'
  <2>1. UNCHANGED <<file, given, sent>>
    BY <1>4 DEF Read
  <2>2. CASE Refused(r)
    <3>1. \A q \in Request : pc'[q] # "idle" =>
             q # r /\ pc'[q] = pc[q] /\ body'[q] = body[q] /\ password'[q] = password[q]
             /\ next'[q] = next[q] /\ (q \notin stale' => q \notin stale)
      BY <1>4, <2>2 DEF Read, Respond, End
    <3>2. UNCHANGED disturbed
      BY <1>4, <2>2 DEF Read
    <3> QED
      BY <2>1, <3>1, <3>2 DEF Given, SameRelay, Lenient
  <2>3. CASE ~Refused(r)
    <3>1. ~disturbed /\ r \notin stale
      BY <1>4, <2>3 DEF Read, GoesOn
    <3>2. /\ \A q \in Request : q # r =>
               pc'[q] = pc[q] /\ body'[q] = body[q] /\ password'[q] = password[q]
               /\ next'[q] = next[q] /\ (q \notin stale' => q \notin stale)
          /\ pc'[r] = "open"
      BY <1>4, <2>3 DEF Read, ReadBy, Goto
    <3>3. Given(next'[r].smtp)
      <4>1. /\ file # Malformed /\ Lenient = file /\ file \in Config
            /\ body[r] \in Body /\ password[r] \in Password \cup {Blank, Missing}
            /\ pc[r] = "read"
        BY <1>4, <2>3 DEF Read, Refused, Lenient, BodyInv
      <4>2. CASE body[r].kind = "put"
        <5>1. next'[r] = Saved(r, file)
          BY <1>4, <2>3, <4>1, <4>2 DEF Read
        <5>2. CASE password[r] # Missing
          <6>1. password[r] \in Password => <<body[r].relay, password[r]>> \in given
            BY <4>1, <4>2 DEF BodyInv
          <6>2. next'[r].smtp.relay = body[r].relay /\ next'[r].smtp.password = password[r]
            BY <4>1, <5>1, <5>2, SavedShape
          <6> QED
            BY <4>1, <5>2, <6>1, <6>2 DEF Given
        <5>3. CASE password[r] = Missing
          <6>1. SameRelay(file.smtp, body[r].relay)
            BY <3>1, <4>1, <4>2, <5>3
          <6>2. Given(file.smtp)
            BY <3>1, <4>1
          <6> QED
            BY <4>1, <5>1, <5>3, <6>1, <6>2, SavedShape DEF Given, SameRelay
        <5> QED
          BY <5>2, <5>3
      <4>3. CASE body[r].kind # "put"
        BY <1>4, <2>3, <4>1, <4>3 DEF Read, Given, Config
      <4> QED
        BY <4>2, <4>3
    <3> QED
      BY <2>1, <3>1, <3>2, <3>3 DEF Given, SameRelay, Lenient
  <2> QED
    BY <2>2, <2>3
<1>5. ASSUME NEW r \in Request, Open(r) PROVE PasswordInv'
  <2>1. UNCHANGED <<given, sent>>
    BY <1>5 DEF Open
  <2>2. CASE file' = NoConfig /\ GoesOn(r) /\ ChangedBy(r) /\ Goto(r, "write")
             /\ UNCHANGED <<body, password, next>>
    <3>1. ~disturbed
      BY <2>2 DEF GoesOn
    <3>2. \A q \in Request : pc'[q] # "read" \/ q \in stale'
      BY <2>2 DEF ChangedBy, Goto
    <3>3. \A q \in Request : (pc[q] \in {"open", "write"} => Given(next[q].smtp))'
      BY <1>5, <2>1, <2>2, <3>1 DEF Open, Goto, Given
    <3> QED
      BY <2>1, <2>2, <3>1, <3>2, <3>3 DEF Given, NoConfig
  <2>3. CASE Respond(r) /\ UNCHANGED <<file, disturbed>>
    <3>1. \A q \in Request : pc'[q] # "idle" =>
             q # r /\ pc'[q] = pc[q] /\ body'[q] = body[q] /\ password'[q] = password[q]
             /\ next'[q] = next[q] /\ (q \notin stale' => q \notin stale)
      BY <2>3 DEF Respond, End
    <3> QED
      BY <2>1, <2>3, <3>1 DEF Given, SameRelay, Lenient
  <2> QED
    BY <1>5, <2>2, <2>3 DEF Open
<1>6. ASSUME NEW r \in Request, Write(r) PROVE PasswordInv'
  <2>1. UNCHANGED <<given, sent>> /\ ~disturbed /\ pc[r] = "write"
    BY <1>6 DEF Write, GoesOn
  <2>2. file' # Malformed => Given(file'.smtp)
    BY <1>6, <2>1, Overlays DEF Write
  <2>3. \A q \in Request : pc'[q] # "idle" => q # r /\ pc'[q] = pc[q] /\ next'[q] = next[q] /\ q \in stale'
    BY <1>6 DEF Write, End, ChangedBy
  <2> QED
    BY <2>1, <2>2, <2>3 DEF Given
<1>7. CASE Crash
  BY <1>7 DEF Crash, Given
<1>8. CASE UNCHANGED vars
  BY <1>8 DEF vars, request, history, Given, SameRelay, Lenient
<1> QED
  BY <1>1, <1>2, <1>3, <1>4, <1>5, <1>6, <1>7, <1>8 DEF Next

-----------------------------------------------------------------------------
(* The other keys.                                                          *)

(* The one writer has the other keys in hand while the file is cut down.    *)
LEMMA KeysStep == IInv /\ [Next]_vars => KeysInv'
<1> SUFFICES ASSUME IInv, [Next]_vars, original' # Malformed, ~disturbed', ~cut'
             PROVE  KeysInv'
  BY DEF KeysInv
<1>t. TypeOK /\ KeysInv
  BY DEF IInv
<1> USE <1>t DEF TypeOK, KeysInv, Writing
<1>1. ASSUME NEW r \in Request, Arrive(r) PROVE KeysInv'
  BY <1>1 DEF Arrive, Goto
<1>2. ASSUME NEW r \in Request, ResolveSave(r) PROVE KeysInv'
  BY <1>2 DEF ResolveSave, ReadBy, Goto, history
<1>3. ASSUME NEW r \in Request, SendTest(r) PROVE KeysInv'
  BY <1>3 DEF SendTest, Respond, End
<1>4. ASSUME NEW r \in Request, Read(r) PROVE KeysInv'
  <2>1. UNCHANGED <<file, original, cut>> /\ pc[r] = "read"
    BY <1>4 DEF Read
  <2>2. CASE Refused(r)
    BY <1>4, <2>1, <2>2 DEF Read, Respond, End
  <2>3. CASE ~Refused(r)
    <3>1. ~disturbed
      BY <1>4, <2>3 DEF Read, GoesOn
    <3>2. /\ pc' = [pc EXCEPT ![r] = "open"]
          /\ \A q \in Request \ {r} : next'[q] = next[q] /\ (q \in stale' <=> q \in stale)
          /\ (\E q \in Request \ {r} : pc[q] = "write") => r \in stale'
      BY <1>4, <2>3 DEF Read, ReadBy, Goto
    <3>3. ~Writing => next'[r].fqdn = original.fqdn
      <4>1. ASSUME ~Writing PROVE Lenient = file /\ file.fqdn = original.fqdn
        BY <2>1, <3>1, <4>1 DEF Lenient
      <4>2. /\ Lenient \in Config /\ body[r] \in Body
            /\ password[r] \in Password \cup {Blank, Missing}
        BY <2>1, Shapes DEF IInv, BodyInv
      <4>3. next'[r].fqdn = Lenient.fqdn
        BY <1>4, <2>3, <4>2, SavedShape DEF Read, Config
      <4> QED
        BY <4>1, <4>3
    <3> QED
      BY <2>1, <3>1, <3>2, <3>3
  <2> QED
    BY <2>2, <2>3
<1>5. ASSUME NEW r \in Request, Open(r) PROVE KeysInv'
  <2>1. UNCHANGED <<original, cut>> /\ pc[r] = "open"
    BY <1>5 DEF Open
  <2>2. CASE file' = NoConfig /\ GoesOn(r) /\ ChangedBy(r) /\ Goto(r, "write")
             /\ UNCHANGED <<body, password, next>>
    <3>1. ~disturbed /\ r \notin stale
      BY <2>2 DEF GoesOn
    <3>2. \A q \in Request : pc[q] # "write"
      BY <2>1, <3>1
    <3>3. stale' = {q \in Request \ {r} : pc[q] # "idle"} /\ pc' = [pc EXCEPT ![r] = "write"]
      BY <2>2 DEF ChangedBy, Goto
    <3> QED
      BY <2>1, <2>2, <3>1, <3>2, <3>3
  <2>3. CASE Respond(r) /\ UNCHANGED <<file, disturbed>>
    BY <2>1, <2>3 DEF Respond, End
  <2> QED
    BY <1>5, <2>2, <2>3 DEF Open
<1>6. ASSUME NEW r \in Request, Write(r) PROVE KeysInv'
  <2>1. ~disturbed /\ r \notin stale /\ pc[r] = "write" /\ UNCHANGED <<original, cut>>
        /\ file' \in Overlay(r)
    BY <1>6 DEF Write, GoesOn
  <2>2. file = NoConfig /\ next[r].fqdn = original.fqdn
        /\ \A q \in Request \ {r} : pc[q] # "write"
    BY <2>1
  <2>3. file' = next[r] /\ file' \in Config
    BY <2>1, <2>2 DEF Overlay, IInv, BodyInv
  <2>4. /\ \A q \in Request : pc'[q] # "write"
        /\ \A q \in Request : pc'[q] = "open" => q \in stale'
    BY <1>6, <2>2 DEF Write, End, ChangedBy
  <2> QED
    BY <2>1, <2>2, <2>3, <2>4, Shapes
<1>7. CASE Crash
  <2>1. \A q \in Request : pc'[q] = "idle"
    BY <1>7 DEF Crash
  <2>2. ~Writing /\ ~disturbed /\ ~cut /\ UNCHANGED <<file, original>>
    BY <1>7 DEF Crash
  <2> QED
    BY <2>1, <2>2
<1>8. CASE UNCHANGED vars
  BY <1>8 DEF vars, request, history
<1> QED
  BY <1>1, <1>2, <1>3, <1>4, <1>5, <1>6, <1>7, <1>8 DEF Next

-----------------------------------------------------------------------------
(* The theorems.                                                            *)

(* Every reachable state satisfies the inductive invariant.                 *)
THEOREM Invariance == Spec => []IInv
<1>1. IInv /\ [Next]_vars => IInv'
  BY TypeStep, BodyStep, MalformedStep, PasswordStep, KeysStep DEF IInv
<1> QED
  BY InitInv, <1>1, PTL DEF Spec

(* Every variable keeps its type, whatever requests overlap or die.         *)
THEOREM TypeCorrect == Spec => []TypeOK
<1>1. IInv => TypeOK
  BY DEF IInv
<1> QED
  BY Invariance, <1>1, PTL

(* Without stale reads and cut writes, the fqdn key survives any number of  *)
(* saves and deletes of the [smtp] table.                                   *)
THEOREM OtherKeysTheorem == Spec => []OtherKeysKept
<1>1. IInv => OtherKeysKept
  BY DEF IInv, KeysInv, OtherKeysKept
<1> QED
  BY Invariance, <1>1, PTL

(* Without stale reads, a password is stored for, and used with, no relay   *)
(* but the one it was given for.                                            *)
THEOREM PasswordTheorem == Spec => []PasswordOfItsRelay
<1>1. IInv => PasswordOfItsRelay
  BY DEF IInv, PasswordInv, PasswordOfItsRelay, Given
<1> QED
  BY Invariance, <1>1, PTL

(* A file that does not parse is never overwritten.                         *)
THEOREM MalformedTheorem == Spec => []MalformedIsKept
<1>1. IInv => MalformedIsKept
  BY DEF IInv, MalformedInv, MalformedIsKept
<1> QED
  BY Invariance, <1>1, PTL

=============================================================================
