---------------------------- MODULE WebUi_proofs ----------------------------
(***************************************************************************)
(* Proofs about WebUi.  Sessions: while no two starts overlap and no I/O   *)
(* call fails, the file is what all who are up agree on (SecretInv).       *)
(* Limiter: what the table forgets is stale, and a block ends before the   *)
(* entry that holds it is (LimiterInv); a source is admitted only while    *)
(* its failures of this moment are within the threshold (BurstInv).        *)
(***************************************************************************)
EXTENDS WebUi, FiniteSetTheorems, TLAPS

(* A process that makes a secret has rounds left.                           *)
TriesInv == \A p \in Proc : pc[p] \in Ensuring \cup {"idle"} => tries[p] < MaxAttempts

ServerInv ==
  /\ server # None => pc[server] = "serving"
  /\ \A r \in Request : busy[r] # None => server # None

\* Nobody has signed anything while a secret is being made.
SecretInv ==
  ~disturbed =>
    /\ \A p, q \in Proc : pc[p] \in Ensuring /\ pc[q] \in Ensuring => p = q
    /\ \A p \in Proc :
         /\ pc[p] \in {"clear", "open", "write"} => secret[p] \in Secrets
         /\ pc[p] = "clear" => file = None \/ file.text = Blank
         /\ pc[p] = "open" => file = None
         /\ pc[p] = "write" => file # None /\ file.maker = p /\ file.text = Blank
         /\ pc[p] \in {"up", "serving"} =>
              file # None /\ file.text = secret[p] /\ secret[p] # Blank
    /\ cookies # {} => file # None /\ cookies = {file.text} /\ file.text # Blank

\* The table holds what memory does, but for stale entries.
LimiterInv ==
  \A s \in Source :
    /\ memory[s].seen <= clock
    /\ memory[s].until <= memory[s].seen + MaxBackoff
    /\ memory[s].failures = 0 => memory[s] = NewEntry
    /\ table[s] # None => table[s] = memory[s]
    /\ table[s] = None => memory[s] = NewEntry \/ Stale(memory[s], clock)

\* The logins of a source that are with PAM.
Asking(s) == {r \in Request : busy[r] = s}

BurstOf(s) ==
  /\ burst[s] + Cardinality(Asking(s)) <= Threshold + Cardinality(Request)
  /\ burst[s] > 0 =>
       /\ memory[s].seen = clock /\ memory[s].failures >= burst[s]
       /\ memory[s].failures > Threshold => memory[s].until > clock

BurstInv == \A s \in Source : BurstOf(s)

IInv == TypeOK /\ TriesInv /\ ServerInv /\ SecretInv /\ LimiterInv /\ BurstInv

-----------------------------------------------------------------------------
(* The limiter's operators.                                                 *)

\* A block lasts, and not for longer than the bound.
LEMMA BackoffRange ==
  ASSUME NEW n \in Nat, n > Threshold
  PROVE  Backoff(n) \in Nat /\ 0 < Backoff(n) /\ Backoff(n) <= MaxBackoff
<1> DEFINE e == Lesser(n - Threshold - 1, MaxExponent)
<1>1. e \in 0 .. MaxExponent
  BY LimitAssumption DEF Lesser
<1>2. Power[e] \in Nat \ {0}
  BY <1>1, PowerAssumption
<1>3. Base * Power[e] \in Nat /\ 0 < Base * Power[e]
  <2> HIDE DEF e
  <2>1. \A x, y \in Nat \ {0} : x * y \in Nat /\ 0 < x * y
    OBVIOUS
  <2> QED
    BY <1>2, <2>1, LimitAssumption
<1>4. Backoff(n) = Lesser(Base * Power[e], MaxBackoff)
  BY DEF Backoff
<1> HIDE DEF e
<1> QED
  BY <1>3, <1>4, LimitAssumption DEF Lesser

\* The backoff of the failure whose exponent is e.
LEMMA BackoffOf ==
  ASSUME NEW n, NEW e, n - Threshold - 1 = e
  PROVE  Backoff(n) = Lesser(Base * Power[Lesser(e, MaxExponent)], MaxBackoff)
BY Zenon DEF Backoff

(* The backoff begins with Base, doubles with every further failure and     *)
(* never gets shorter, up to the bounds on the exponent and on the delay.   *)
THEOREM BackoffDoubles ==
  /\ Backoff(Threshold + 1) = Lesser(Base, MaxBackoff)
  /\ \A n \in Nat : n > Threshold =>
       /\ Backoff(n) <= Backoff(n + 1)
       /\ n - Threshold <= MaxExponent => Backoff(n + 1) = Lesser(2 * Backoff(n), MaxBackoff)
<1>1. Backoff(Threshold + 1) = Lesser(Base, MaxBackoff)
  <2>1. Backoff(Threshold + 1) = Lesser(Base * Power[Lesser(0, MaxExponent)], MaxBackoff)
    <3>1. (Threshold + 1) - Threshold - 1 = 0
      BY LimitAssumption
    <3> QED
      BY <3>1, BackoffOf, Zenon
  <2>2. Lesser(0, MaxExponent) = 0
    BY LimitAssumption DEF Lesser
  <2>3. Base * Power[0] = Base
    BY LimitAssumption, PowerAssumption
  <2> QED
    BY <2>1, <2>2, <2>3, Zenon
<1>2. ASSUME NEW n \in Nat, n > Threshold
      PROVE  /\ Backoff(n) <= Backoff(n + 1)
             /\ n - Threshold <= MaxExponent => Backoff(n + 1) = Lesser(2 * Backoff(n), MaxBackoff)
  <2> DEFINE e == n - Threshold - 1
  <2>0. e \in Nat /\ (n + 1) - Threshold - 1 = e + 1 /\ n - Threshold = e + 1
    BY <1>2, LimitAssumption
  <2>1. /\ Backoff(n) = Lesser(Base * Power[Lesser(e, MaxExponent)], MaxBackoff)
        /\ Backoff(n + 1) = Lesser(Base * Power[Lesser(e + 1, MaxExponent)], MaxBackoff)
    BY <2>0, BackoffOf, Zenon
  <2> HIDE DEF e
  <2>2. CASE n - Threshold <= MaxExponent
    <3>1. e \in 0 .. MaxExponent - 1
      BY <2>0, <2>2, LimitAssumption
    <3>2. Lesser(e, MaxExponent) = e /\ Lesser(e + 1, MaxExponent) = e + 1
      BY <3>1, LimitAssumption DEF Lesser
    <3>3. Power[e] \in Nat /\ Power[e + 1] = 2 * Power[e]
      BY <3>1, LimitAssumption, PowerAssumption
    <3> DEFINE delay == Base * Power[e]
    <3>4. Base * Power[e + 1] = 2 * delay
      <4>1. \A x, y \in Nat : x * (2 * y) = 2 * (x * y)
        OBVIOUS
      <4> QED
        BY <3>3, <4>1, LimitAssumption
    <3>5. delay \in Nat
      <4>1. \A x, y \in Nat : x * y \in Nat
        OBVIOUS
      <4> QED
        BY <3>3, <4>1, LimitAssumption
    <3>6. Backoff(n) = Lesser(delay, MaxBackoff) /\ Backoff(n + 1) = Lesser(2 * delay, MaxBackoff)
      BY <2>1, <3>2, <3>4
    <3> HIDE DEF delay
    <3> QED
      BY <3>5, <3>6, LimitAssumption DEF Lesser
  <2>3. CASE n - Threshold > MaxExponent
    <3>1. Lesser(e, MaxExponent) = MaxExponent /\ Lesser(e + 1, MaxExponent) = MaxExponent
      BY <2>0, <2>3, LimitAssumption DEF Lesser
    <3>2. Backoff(n) = Backoff(n + 1)
      BY <2>1, <3>1
    <3>3. Backoff(n) \in Nat
      BY <1>2, BackoffRange
    <3>4. ~(n - Threshold <= MaxExponent)
      BY <2>0, <2>3, LimitAssumption
    <3> QED
      BY <3>2, <3>3, <3>4
  <2> QED
    BY <1>2, <2>2, <2>3, LimitAssumption
<1> QED
  BY <1>1, <1>2

\* What a failure makes of an entry.
LEMMA CountedFacts ==
  ASSUME NEW entry \in Entry, NEW now \in Nat,
         entry.seen <= now, entry.until <= entry.seen + MaxBackoff
  PROVE  /\ Counted(entry, now) \in Entry
         /\ Counted(entry, now).failures = entry.failures + 1
         /\ Counted(entry, now).seen = now
         /\ Counted(entry, now).until <= now + MaxBackoff
         /\ Counted(entry, now).failures > Threshold => Counted(entry, now).until > now
<1> DEFINE n == entry.failures + 1
<1>1. /\ n \in Nat /\ entry.seen \in Nat /\ entry.until \in Nat /\ entry.failures \in Nat
      /\ MaxBackoff \in Nat /\ Threshold \in Nat
  BY LimitAssumption DEF Entry
<1>2. CASE n > Threshold
  <2>1. Counted(entry, now) = [failures |-> n, seen |-> now, until |-> now + Backoff(n)]
    BY <1>2 DEF Counted
  <2> HIDE DEF n
  <2>2. Backoff(n) \in Nat /\ 0 < Backoff(n) /\ Backoff(n) <= MaxBackoff
    BY <1>1, <1>2, BackoffRange
  <2>3. [failures |-> n, seen |-> now, until |-> now + Backoff(n)] \in Entry
    BY <1>1, <2>2 DEF Entry
  <2> QED
    BY <1>1, <2>1, <2>2, <2>3 DEF n
<1>3. CASE ~ (n > Threshold)
  <2>1. Counted(entry, now) = [failures |-> n, seen |-> now, until |-> entry.until]
    BY <1>3 DEF Counted
  <2>2. [failures |-> n, seen |-> now, until |-> entry.until] \in Entry
    BY <1>1 DEF Entry
  <2> QED
    BY <1>1, <1>3, <2>1, <2>2
<1> QED
  BY <1>2, <1>3

LEMMA NewEntryFacts ==
  NewEntry \in Entry /\ NewEntry.failures = 0 /\ NewEntry.seen = 0 /\ NewEntry.until = 0
BY DEF NewEntry, Entry

\* The table stays a table.
LEMMA SweptTable ==
  ASSUME NEW t \in Tables, NEW now \in Nat
  PROVE  Swept(t, now) \in Tables
BY DEF Swept, Tables

\* Where the table and a memory without sweeps agree but for what is stale,
\* a failure makes the same entry in both.
LEMMA SameFailure ==
  ASSUME TypeOK, LimiterInv, NEW s \in Source
  PROVE  /\ Remembered(s) \in Entry
         /\ Remembered(s).seen = clock
         /\ Remembered(s).until <= clock + MaxBackoff
         /\ Remembered(s).failures > 0
         /\ ~ Stale(memory[s], clock) => Remembered(s).failures = memory[s].failures + 1
         /\ Remembered(s).failures > Threshold => Remembered(s).until > clock
         /\ WithFailure(table, s, clock)
              = Swept([table EXCEPT ![s] = Remembered(s)], clock)
<1> DEFINE entry == IF Stale(memory[s], clock) THEN NewEntry ELSE memory[s]
<1>1. memory[s] \in Entry /\ clock \in Nat /\ MaxBackoff \in Nat
  BY LimitAssumption DEF TypeOK
<1>2. entry \in Entry /\ entry.seen <= clock /\ entry.until <= entry.seen + MaxBackoff
  BY <1>1, NewEntryFacts DEF LimiterInv
<1>3. Remembered(s) = Counted(entry, clock)
  BY DEF Remembered
<1>4. (IF table[s] = None \/ Stale(table[s], clock) THEN NewEntry ELSE table[s]) = entry
  BY DEF LimiterInv
<1>5. WithFailure(table, s, clock) = Swept([table EXCEPT ![s] = Counted(entry, clock)], clock)
  <2> HIDE DEF entry
  <2> QED
    BY <1>4 DEF WithFailure
<1>6. ~ Stale(memory[s], clock) => entry = memory[s]
  OBVIOUS
<1>7. entry.failures \in Nat
  <2> HIDE DEF entry
  <2> QED
    BY <1>2 DEF Entry
<1> HIDE DEF entry
<1>8. /\ Counted(entry, clock) \in Entry
      /\ Counted(entry, clock).failures = entry.failures + 1
      /\ Counted(entry, clock).seen = clock
      /\ Counted(entry, clock).until <= clock + MaxBackoff
      /\ Counted(entry, clock).failures > Threshold => Counted(entry, clock).until > clock
  BY <1>1, <1>2, CountedFacts
<1> QED
  BY <1>3, <1>5, <1>6, <1>7, <1>8

-----------------------------------------------------------------------------
(* Type correctness.                                                        *)

\* For the actions of a process.
LEMMA ProcessTypes ==
  ASSUME TypeOK, TriesInv, NEW p \in Proc,
         \/ Start(p) \/ Read(p) \/ Clear(p) \/ Open(p) \/ OpenLoses(p) \/ OpenFails(p)
         \/ Write(p) \/ WriteFails(p) \/ Bind(p) \/ Die(p)
  PROVE  TypeOK'
<1> USE DEF TypeOK, serving, history, Goto, Stages, Ensuring
<1>1. CASE Start(p)
  BY <1>1 DEF Start
<1>2. CASE Read(p)
  <2>1. PICK text \in {ReadText, Blank} :
          /\ disturbed' = (disturbed \/ text # ReadText)
          /\ secret' = [secret EXCEPT ![p] = IF text = Blank THEN <<p, tries[p]>> ELSE text]
          /\ Goto(p, IF text = Blank THEN "clear" ELSE "up")
    BY <1>2 DEF Read
  <2>2. text \in Secrets \cup {Blank}
    BY <2>1 DEF ReadText, Files
  <2>3. <<p, tries[p]>> \in Secrets
    BY DEF Secrets
  <2> QED
    BY <1>2, <2>1, <2>2, <2>3 DEF Read
<1>3. CASE Clear(p)
  BY <1>3 DEF Clear
<1>4. CASE Open(p)
  BY <1>4 DEF Open, Files
<1>5. CASE OpenLoses(p)
  <2>1. tries[p] \in 0 .. MaxAttempts /\ tries[p] < MaxAttempts /\ MaxAttempts \in Nat
    BY <1>5, WebUiAssumption DEF OpenLoses, TriesInv
  <2>2. tries[p] + 1 \in 0 .. MaxAttempts
    BY <2>1
  <2>3. <<p, MaxAttempts>> \in Secrets
    BY <2>1 DEF Secrets
  <2> QED
    BY <1>5, <2>2, <2>3 DEF OpenLoses
<1>6. CASE OpenFails(p)
  BY <1>6 DEF OpenFails
<1>7. CASE Write(p)
  BY <1>7 DEF Write, Files
<1>8. CASE WriteFails(p)
  BY <1>8 DEF WriteFails
<1>9. CASE Bind(p)
  BY <1>9 DEF Bind
<1>10. CASE Die(p)
  BY <1>10, NewEntryFacts DEF Die, Tables
<1> QED
  BY <1>1, <1>2, <1>3, <1>4, <1>5, <1>6, <1>7, <1>8, <1>9, <1>10

\* For the actions of a login, and for the clock.
LEMMA LoginTypes ==
  ASSUME TypeOK, ServerInv, LimiterInv,
         \/ \E r \in Request, s \in Source : Ask(r, s)
         \/ \E r \in Request : Unavailable(r) \/ Reject(r) \/ Accept(r)
         \/ Tick
  PROVE  TypeOK'
<1> USE DEF TypeOK, starting, serving, history
<1>1. CASE \E r \in Request, s \in Source : Ask(r, s)
  <2>1. PICK r \in Request, s \in Source : Ask(r, s)
    BY <1>1
  <2>2. AfterAsking(table, s, clock) \in Tables
    BY DEF AfterAsking, Tables
  <2> QED
    BY <2>1, <2>2 DEF Ask
<1>2. CASE \E r \in Request : Unavailable(r) \/ Reject(r) \/ Accept(r)
  <2>1. PICK r \in Request : Unavailable(r) \/ Reject(r) \/ Accept(r)
    BY <1>2
  <2>2. busy[r] \in Source /\ server \in Proc
    BY <2>1 DEF Unavailable, Reject, Accept, ServerInv
  <2>3. CASE Unavailable(r)
    BY <2>3 DEF Unavailable
  <2>4. CASE Reject(r)
    <3>1. Remembered(busy[r]) \in Entry
      BY <2>2, SameFailure
    <3>2. table' \in Tables
      <4>1. [table EXCEPT ![busy[r]] = Remembered(busy[r])] \in Tables
        BY <3>1 DEF Tables
      <4> QED
        BY <2>2, <2>4, <4>1, SameFailure, SweptTable DEF Reject
    <3>3. memory' \in [Source -> Entry]
      BY <2>4, <3>1 DEF Reject
    <3>4. burst' \in [Source -> Nat]
      BY <2>4 DEF Reject
    <3> QED
      BY <2>4, <3>2, <3>3, <3>4 DEF Reject
  <2>5. CASE Accept(r)
    <3>1. table' \in Tables
      BY <2>5 DEF Accept, WithSuccess, Tables
    <3>2. cookies' \subseteq Secrets \cup {Blank}
      BY <2>2, <2>5 DEF Accept
    <3> QED
      BY <2>5, <3>1, <3>2, NewEntryFacts DEF Accept
  <2> QED
    BY <2>1, <2>3, <2>4, <2>5
<1>3. CASE Tick
  BY <1>3 DEF Tick
<1> QED
  BY <1>1, <1>2, <1>3

\* For a step that changes nothing.
LEMMA StutterTypes ==
  ASSUME TypeOK, UNCHANGED vars
  PROVE  TypeOK'
BY DEF TypeOK, vars, starting, serving, history

-----------------------------------------------------------------------------
(* Processes.                                                               *)

LEMMA TriesStep ==
  ASSUME TypeOK, TriesInv, [Next]_vars
  PROVE  TriesInv'
<1> USE DEF TypeOK, TriesInv, Goto, Ensuring, Stages
<1>1. ASSUME NEW p \in Proc, Start(p)
      PROVE  TriesInv'
  BY <1>1 DEF Start
<1>2. ASSUME NEW p \in Proc, Read(p)
      PROVE  TriesInv'
  BY <1>2 DEF Read
<1>3. ASSUME NEW p \in Proc, Clear(p)
      PROVE  TriesInv'
  BY <1>3 DEF Clear
<1>4. ASSUME NEW p \in Proc, Open(p)
      PROVE  TriesInv'
  BY <1>4 DEF Open
<1>5. ASSUME NEW p \in Proc, OpenLoses(p)
      PROVE  TriesInv'
  BY <1>5 DEF OpenLoses
<1>6. ASSUME NEW p \in Proc, OpenFails(p)
      PROVE  TriesInv'
  BY <1>6 DEF OpenFails
<1>7. ASSUME NEW p \in Proc, Write(p) \/ WriteFails(p)
      PROVE  TriesInv'
  BY <1>7 DEF Write, WriteFails
<1>8. ASSUME NEW p \in Proc, Bind(p)
      PROVE  TriesInv'
  BY <1>8 DEF Bind
<1>9. ASSUME NEW p \in Proc, Die(p)
      PROVE  TriesInv'
  BY <1>9 DEF Die
<1>10. CASE UNCHANGED starting
  BY <1>10 DEF starting
<1> QED
  BY <1>1, <1>2, <1>3, <1>4, <1>5, <1>6, <1>7, <1>8, <1>9, <1>10
     DEF Next, vars, Ask, Unavailable, Reject, Accept, Tick

LEMMA ServerStep ==
  ASSUME TypeOK, ServerInv, [Next]_vars
  PROVE  ServerInv'
<1> USE WebUiAssumption DEF TypeOK, ServerInv, Goto, Ensuring, Stages
<1>1. ASSUME NEW p \in Proc,
             \/ Start(p) \/ Read(p) \/ Clear(p) \/ Open(p) \/ OpenLoses(p)
             \/ OpenFails(p) \/ Write(p) \/ WriteFails(p)
      PROVE  ServerInv'
  <2>1. pc[p] # "serving" /\ UNCHANGED <<server, busy>>
    BY <1>1 DEF Start, Read, Clear, Open, OpenLoses, OpenFails, Write, WriteFails, serving
  <2>2. \A q \in Proc \ {p} : pc'[q] = pc[q]
    BY <1>1 DEF Start, Read, Clear, Open, OpenLoses, OpenFails, Write, WriteFails
  <2> QED
    BY <2>1, <2>2
<1>2. ASSUME NEW p \in Proc, Bind(p)
      PROVE  ServerInv'
  BY <1>2 DEF Bind, serving
<1>3. ASSUME NEW p \in Proc, Die(p)
      PROVE  ServerInv'
  BY <1>3 DEF Die
<1>4. ASSUME NEW r \in Request, NEW s \in Source, Ask(r, s)
      PROVE  ServerInv'
  BY <1>4 DEF Ask, starting
<1>5. ASSUME NEW r \in Request, Unavailable(r) \/ Reject(r) \/ Accept(r)
      PROVE  ServerInv'
  BY <1>5 DEF Unavailable, Reject, Accept, starting
<1>6. CASE Tick \/ UNCHANGED vars
  BY <1>6 DEF Tick, vars, starting, serving
<1> QED
  BY <1>1, <1>2, <1>3, <1>4, <1>5, <1>6 DEF Next

-----------------------------------------------------------------------------
(* Sessions.                                                                *)

LEMMA SecretStep ==
  ASSUME TypeOK, ServerInv, SecretInv, [Next]_vars
  PROVE  SecretInv'
<1> USE WebUiAssumption, SecretAssumption, FileAssumption
    DEF TypeOK, Goto, Ensuring, Stages, SecretInv
<1>1. ASSUME NEW p \in Proc, Start(p)
      PROVE  SecretInv'
  <2>1. /\ pc[p] = "idle" /\ pc' = [pc EXCEPT ![p] = "read"]
        /\ disturbed' = (disturbed \/ \E q \in Proc : pc[q] \in Ensuring)
        /\ UNCHANGED <<file, secret, cookies>>
    BY <1>1 DEF Start, serving
  <2> QED
    BY <2>1
<1>2. ASSUME NEW p \in Proc, Read(p)
      PROVE  SecretInv'
  <2>1. PICK text \in {ReadText, Blank} :
          /\ disturbed' = (disturbed \/ text # ReadText)
          /\ secret' = [secret EXCEPT ![p] = IF text = Blank THEN <<p, tries[p]>> ELSE text]
          /\ pc' = [pc EXCEPT ![p] = IF text = Blank THEN "clear" ELSE "up"]
    BY <1>2 DEF Read
  <2>2. <<p, tries[p]>> \in Secrets /\ <<p, tries[p]>> # Blank
    BY DEF Secrets
  <2>3. pc[p] = "read" /\ UNCHANGED <<file, cookies>>
    BY <1>2 DEF Read, serving
  <2>4. CASE disturbed'
    BY <2>4
  <2>5. CASE ~ disturbed' /\ text = Blank
    <3>1. file = None \/ file.text = Blank
      BY <2>1, <2>5 DEF ReadText
    <3> QED
      BY <2>1, <2>2, <2>3, <2>5, <3>1
  <2>6. CASE ~ disturbed' /\ text # Blank
    <3>1. file # None /\ text = file.text
      BY <2>1, <2>6 DEF ReadText
    <3> QED
      BY <2>1, <2>3, <2>6, <3>1
  <2> QED
    BY <2>4, <2>5, <2>6
<1>3. ASSUME NEW p \in Proc, Clear(p)
      PROVE  SecretInv'
  BY <1>3 DEF Clear, serving
<1>4. ASSUME NEW p \in Proc, Open(p)
      PROVE  SecretInv'
  <2>1. /\ pc[p] = "open" /\ file = None /\ file' = [maker |-> p, text |-> Blank]
        /\ pc' = [pc EXCEPT ![p] = "write"]
        /\ UNCHANGED <<secret, cookies, disturbed>>
    BY <1>4 DEF Open, serving
  <2>2. file' # None
    BY <2>1 DEF Files
  <2> QED
    BY <2>1, <2>2
<1>5. ASSUME NEW p \in Proc, OpenLoses(p)
      PROVE  SecretInv'
  <2>1. pc[p] = "open" /\ file # None /\ disturbed' = disturbed
    BY <1>5 DEF OpenLoses
  <2> QED
    BY <2>1
<1>6. ASSUME NEW p \in Proc, OpenFails(p) \/ WriteFails(p)
      PROVE  SecretInv'
  BY <1>6 DEF OpenFails, WriteFails
<1>7. ASSUME NEW p \in Proc, Write(p)
      PROVE  SecretInv'
  <2>1. /\ pc[p] = "write" /\ pc' = [pc EXCEPT ![p] = "up"]
        /\ file' = IF file # None /\ file.maker = p
                   THEN [file EXCEPT !.text = secret[p]] ELSE file
        /\ UNCHANGED <<secret, cookies, disturbed>>
    BY <1>7 DEF Write, serving
  <2>2. CASE disturbed
    BY <2>1, <2>2
  <2>3. CASE ~ disturbed
    <3>1. file \in Files /\ file.maker = p /\ file.text = Blank /\ secret[p] \in Secrets
      BY <2>1, <2>3
    <3>2. file' = [file EXCEPT !.text = secret[p]]
      BY <2>1, <2>3
    <3>3. file' \in Files /\ file'.text = secret[p] /\ secret[p] # Blank
      BY <3>1, <3>2 DEF Files
    <3>4. cookies = {} /\ \A q \in Proc : pc[q] \notin {"up", "serving"}
      BY <2>3, <3>1
    <3>5. \A q \in Proc : pc[q] \in Ensuring => q = p
      BY <2>1, <2>3
    <3>6. pc'[p] = "up" /\ \A q \in Proc \ {p} : pc'[q] = pc[q]
      BY <2>1
    <3>7. \A q \in Proc : pc'[q] \notin Ensuring
      BY <3>5, <3>6
    <3>8. \A q \in Proc : pc'[q] \in {"up", "serving"} => q = p
      BY <3>4, <3>6
    <3> QED
      BY <2>1, <3>3, <3>4, <3>7, <3>8
  <2> QED
    BY <2>2, <2>3
<1>8. ASSUME NEW p \in Proc, Bind(p)
      PROVE  SecretInv'
  BY <1>8 DEF Bind, serving
<1>9. ASSUME NEW p \in Proc, Die(p)
      PROVE  SecretInv'
  BY <1>9 DEF Die
<1>10. ASSUME NEW r \in Request, Accept(r)
       PROVE  SecretInv'
  <2>1. server \in Proc /\ pc[server] = "serving"
    BY <1>10 DEF Accept, ServerInv
  <2> QED
    BY <1>10, <2>1 DEF Accept, starting
<1>11. CASE UNCHANGED <<starting, cookies, disturbed>>
  BY <1>11 DEF starting
<1> QED
  BY <1>1, <1>2, <1>3, <1>4, <1>5, <1>6, <1>7, <1>8, <1>9, <1>10, <1>11
     DEF Next, vars, serving, Ask, Unavailable, Reject, Tick

-----------------------------------------------------------------------------
(* The limiter.                                                             *)

\* What is stale is rid of its block.
LEMMA StaleIsFree ==
  ASSUME TypeOK, LimiterInv, NEW s \in Source, Stale(memory[s], clock)
  PROVE  memory[s].until <= clock
<1>1. /\ memory[s].seen \in Nat /\ memory[s].until \in Nat /\ clock \in Nat
      /\ MaxBackoff \in Nat /\ EntryTTL \in Nat
  BY LimitAssumption DEF TypeOK, Entry
<1>2. memory[s].until <= memory[s].seen + MaxBackoff
  BY DEF LimiterInv
<1> QED
  BY <1>1, <1>2, BlockEndsBeforeEntry DEF Stale

\* Who is admitted has served the backoff that memory knows of.
LEMMA AdmittedIsFree ==
  ASSUME TypeOK, LimiterInv, NEW s \in Source, Admitted(s)
  PROVE  memory[s].until <= clock
<1>1. memory[s].until \in Nat /\ clock \in Nat
  BY DEF TypeOK, Entry
<1>2. CASE table[s] = None
  <2>1. memory[s] = NewEntry \/ Stale(memory[s], clock)
    BY <1>2 DEF LimiterInv
  <2> QED
    BY <1>1, <2>1, NewEntryFacts, StaleIsFree
<1>3. CASE table[s] # None
  <2>1. table[s] = memory[s]
    BY <1>3 DEF LimiterInv
  <2> QED
    BY <1>1, <1>3, <2>1, StaleIsFree DEF Admitted, SecondsUntilAllowed
<1> QED
  BY <1>2, <1>3

\* What a rejected login changes.
LEMMA RejectFacts ==
  ASSUME TypeOK, LimiterInv, NEW r \in Request, Reject(r)
  PROVE  /\ busy[r] \in Source
         /\ \A s \in Source \ {busy[r]} :
              /\ memory'[s] = memory[s] /\ burst'[s] = burst[s]
              /\ table'[s] = IF table[s] # None /\ Stale(table[s], clock) THEN None ELSE table[s]
         /\ memory'[busy[r]] = Remembered(busy[r])
         /\ table'[busy[r]] = Remembered(busy[r])
         /\ burst'[busy[r]] = burst[busy[r]] + 1
         /\ busy' = [busy EXCEPT ![r] = None] /\ clock' = clock
<1> DEFINE s == busy[r]
           t == [table EXCEPT ![s] = Remembered(s)]
<1>1. s \in Source
  BY DEF TypeOK, Reject
<1>2. Remembered(s).seen = clock /\ table' = Swept(t, clock)
  BY <1>1, SameFailure DEF Reject
<1>3. ~ Stale(Remembered(s), clock)
  BY <1>2, LimitAssumption DEF Stale, TypeOK
<1>4. t[s] = Remembered(s) /\ \A x \in Source \ {s} : t[x] = table[x]
  BY <1>1 DEF TypeOK, Tables
<1>5. \A x \in Source : table'[x] = IF t[x] # None /\ Stale(t[x], clock) THEN None ELSE t[x]
  <2> HIDE DEF t
  <2> QED
    BY <1>2 DEF Swept
<1> QED
  BY <1>1, <1>3, <1>4, <1>5 DEF Reject, TypeOK

LEMMA LimiterStep ==
  ASSUME TypeOK, ServerInv, LimiterInv, [Next]_vars
  PROVE  LimiterInv'
<1>1. \A s \in Source : memory[s] \in Entry
  BY DEF TypeOK
<1>2. \A s \in Source : memory[s].seen \in Nat /\ memory[s].until \in Nat
  BY <1>1 DEF Entry
<1>3. CASE UNCHANGED <<memory, table, clock>>
  BY <1>3 DEF LimiterInv
<1>4. ASSUME NEW p \in Proc, Die(p), server = p
      PROVE  LimiterInv'
  BY <1>4, NewEntryFacts, LimitAssumption DEF Die, LimiterInv, TypeOK
<1>5. ASSUME NEW r \in Request, NEW s \in Source, Ask(r, s)
      PROVE  LimiterInv'
  <2>1. UNCHANGED <<memory, clock>> /\ table' = AfterAsking(table, s, clock)
    BY <1>5 DEF Ask, history
  <2>2. \A x \in Source :
          table'[x] = table[x] \/ (table'[x] = None /\ table[x] # None /\ Stale(table[x], clock))
    BY <2>1 DEF AfterAsking, TypeOK, Tables
  <2> QED
    BY <2>1, <2>2 DEF LimiterInv
<1>6. ASSUME NEW r \in Request, Reject(r)
      PROVE  LimiterInv'
  <2>1. /\ Remembered(busy[r]).seen = clock
        /\ Remembered(busy[r]).until <= clock + MaxBackoff
        /\ Remembered(busy[r]).failures > 0
        /\ Remembered(busy[r]) \in Entry
    BY <1>6, RejectFacts, SameFailure
  <2>2. Remembered(busy[r]) # None
    BY <2>1, NoneAssumption
  <2>3. Remembered(busy[r]).failures # 0 /\ clock \in Nat
    BY <2>1 DEF TypeOK
  <2> QED
    BY <1>6, <2>1, <2>2, <2>3, RejectFacts DEF LimiterInv
<1>7. ASSUME NEW r \in Request, Accept(r)
      PROVE  LimiterInv'
  <2>1. /\ busy[r] \in Source /\ clock' = clock
        /\ memory' = [memory EXCEPT ![busy[r]] = NewEntry]
        /\ table' = [table EXCEPT ![busy[r]] = None]
    BY <1>7 DEF Accept, WithSuccess, TypeOK
  <2> QED
    BY <2>1, NewEntryFacts, LimitAssumption DEF LimiterInv, TypeOK, Tables
<1>8. CASE Tick
  <2>1. UNCHANGED <<memory, table>> /\ clock' = clock + 1
    BY <1>8 DEF Tick, serving
  <2>2. \A s \in Source : Stale(memory[s], clock) => Stale(memory[s], clock')
    BY <1>2, <2>1, LimitAssumption DEF Stale, TypeOK
  <2>3. \A s \in Source : memory[s].seen <= clock => memory[s].seen <= clock'
    BY <1>2, <2>1 DEF TypeOK
  <2> QED
    BY <2>1, <2>2, <2>3 DEF LimiterInv
<1> QED
  BY <1>3, <1>4, <1>5, <1>6, <1>7, <1>8
     DEF Next, vars, serving, history, Start, Read, Clear, Open, OpenLoses, OpenFails, Write,
         WriteFails, Bind, Die, Unavailable

-----------------------------------------------------------------------------
(* Bursts.                                                                  *)

LEMMA AskingIsFinite ==
  ASSUME NEW s \in Source
  PROVE  /\ IsFiniteSet(Asking(s))
         /\ Cardinality(Asking(s)) \in Nat /\ Cardinality(Request) \in Nat
         /\ Cardinality(Asking(s)) <= Cardinality(Request)
<1>1. Asking(s) \subseteq Request /\ IsFiniteSet(Request)
  BY WebUiAssumption DEF Asking
<1> QED
  BY <1>1, FS_Subset, FS_CardinalityType

\* Who is admitted has failed at most as often as the threshold says.
LEMMA AdmittedBurst ==
  ASSUME TypeOK, LimiterInv, BurstInv, NEW s \in Source, Admitted(s)
  PROVE  burst[s] <= Threshold
<1>1. memory[s].until <= clock
  BY AdmittedIsFree
<1>2. /\ memory[s].failures \in Nat /\ memory[s].until \in Nat /\ clock \in Nat
      /\ burst[s] \in Nat /\ Threshold \in Nat
  BY LimitAssumption DEF TypeOK, Entry
<1> QED
  BY <1>1, <1>2 DEF BurstInv, BurstOf

LEMMA BurstStep ==
  ASSUME TypeOK, ServerInv, LimiterInv, BurstInv, TypeOK', [Next]_vars
  PROVE  BurstInv'
<1>1. \A s \in Source :
        /\ burst[s] \in Nat /\ memory[s].failures \in Nat /\ memory[s].until \in Nat
        /\ Cardinality(Asking(s)) \in Nat /\ Cardinality(Request) \in Nat
        /\ Cardinality(Asking(s)) <= Cardinality(Request)
  BY AskingIsFinite DEF TypeOK, Entry
<1>2. \A s \in Source : Cardinality(Asking(s)') \in Nat
                       /\ Cardinality(Asking(s)') <= Cardinality(Request)
  <2>1. \A s \in Source : Asking(s)' \subseteq Request
    BY DEF Asking
  <2> QED
    BY <2>1, WebUiAssumption, FS_Subset, FS_CardinalityType
<1>3. Threshold \in Nat /\ clock \in Nat
  BY LimitAssumption DEF TypeOK
<1>4. CASE UNCHANGED <<memory, burst, busy, clock>>
  BY <1>4 DEF BurstInv, BurstOf, Asking
<1>5. ASSUME NEW p \in Proc, Die(p), server = p
      PROVE  BurstInv'
  <2>1. \A s \in Source : burst'[s] = 0
    BY <1>5 DEF Die
  <2> QED
    BY <1>2, <1>3, <1>1, <2>1 DEF BurstInv, BurstOf
<1>6. CASE Tick
  <2>1. \A s \in Source : burst'[s] = 0
    BY <1>6 DEF Tick
  <2> QED
    BY <1>2, <1>3, <1>1, <2>1 DEF BurstInv, BurstOf
<1>7. ASSUME NEW r \in Request, NEW s \in Source, Ask(r, s)
      PROVE  BurstInv'
  <2>1. UNCHANGED <<memory, burst, clock>>
    BY <1>7 DEF Ask, history
  <2>2. CASE Admitted(s)
    <3>1. busy' = [busy EXCEPT ![r] = s] /\ busy[r] = None
      BY <1>7, <2>2 DEF Ask
    <3>2. \A x \in Source \ {s} : Asking(x)' = Asking(x)
      BY <3>1, NoneAssumption DEF Asking, TypeOK
    <3>3. burst[s] <= Threshold
      BY <2>2, AdmittedBurst
    <3>4. burst[s] + Cardinality(Asking(s)') <= Threshold + Cardinality(Request)
      BY <1>1, <1>2, <1>3, <3>3
    <3> QED
      BY <2>1, <3>2, <3>4 DEF BurstInv, BurstOf
  <2>3. CASE ~ Admitted(s)
    <3>1. busy' = busy
      BY <1>7, <2>3 DEF Ask
    <3> QED
      BY <2>1, <3>1 DEF BurstInv, BurstOf, Asking
  <2> QED
    BY <2>2, <2>3
<1>8. ASSUME NEW r \in Request, NEW s \in Source, busy[r] = s,
             busy' = [busy EXCEPT ![r] = None]
      PROVE  /\ Cardinality(Asking(s)') = Cardinality(Asking(s)) - 1
             /\ \A x \in Source \ {s} : Asking(x)' = Asking(x)
  <2>1. s # None
    BY NoneAssumption
  <2>2. Asking(s)' = Asking(s) \ {r} /\ r \in Asking(s)
    BY <1>8, <2>1 DEF Asking, TypeOK
  <2>3. \A x \in Source \ {s} : Asking(x)' = Asking(x)
    BY <1>8, NoneAssumption DEF Asking, TypeOK
  <2>4. Cardinality(Asking(s) \ {r}) = Cardinality(Asking(s)) - 1
    BY <2>2, AskingIsFinite, FS_RemoveElement
  <2> QED
    BY <2>2, <2>3, <2>4
<1>9. ASSUME NEW r \in Request, NEW s \in Source, busy[r] = s, Unavailable(r)
      PROVE  BurstInv'
  <2>1. busy' = [busy EXCEPT ![r] = None] /\ UNCHANGED <<memory, burst, clock>>
    BY <1>9 DEF Unavailable, history
  <2>2. Cardinality(Asking(s)') = Cardinality(Asking(s)) - 1
    BY <1>8, <1>9, <2>1
  <2>3. BurstOf(s)'
    BY <1>1, <1>2, <1>3, <2>1, <2>2 DEF BurstInv, BurstOf
  <2>4. ASSUME NEW x \in Source \ {s}
        PROVE  BurstOf(x)'
    <3>1. Asking(x)' = Asking(x)
      BY <1>8, <1>9, <2>1
    <3> QED
      BY <2>1, <3>1 DEF BurstInv, BurstOf
  <2> QED
    BY <2>3, <2>4 DEF BurstInv
<1>10. ASSUME NEW r \in Request, NEW s \in Source, busy[r] = s, Accept(r)
       PROVE  BurstInv'
  <2>1. /\ busy' = [busy EXCEPT ![r] = None]
        /\ memory' = [memory EXCEPT ![s] = NewEntry]
        /\ burst' = [burst EXCEPT ![s] = 0]
        /\ clock' = clock
    BY <1>10 DEF Accept
  <2>2. BurstOf(s)'
    <3>1. burst'[s] = 0
      BY <2>1 DEF TypeOK
    <3> QED
      BY <1>1, <1>2, <1>3, <3>1 DEF BurstOf
  <2>3. ASSUME NEW x \in Source \ {s}
        PROVE  BurstOf(x)'
    <3>1. Asking(x)' = Asking(x)
      BY <1>8, <1>10, <2>1
    <3>2. burst'[x] = burst[x] /\ memory'[x] = memory[x]
      BY <2>1 DEF TypeOK
    <3> QED
      BY <2>1, <3>1, <3>2 DEF BurstInv, BurstOf
  <2> QED
    BY <2>2, <2>3 DEF BurstInv
<1>11. ASSUME NEW r \in Request, NEW s \in Source, busy[r] = s, Reject(r)
       PROVE  BurstInv'
  <2>1. /\ busy' = [busy EXCEPT ![r] = None] /\ clock' = clock
        /\ memory'[s] = Remembered(s)
        /\ burst'[s] = burst[s] + 1
        /\ \A x \in Source \ {s} : memory'[x] = memory[x] /\ burst'[x] = burst[x]
    BY <1>11, RejectFacts
  <2>2. ASSUME NEW x \in Source \ {s}
        PROVE  BurstOf(x)'
    <3>1. Asking(x)' = Asking(x)
      BY <1>8, <1>11, <2>1
    <3> QED
      BY <2>1, <3>1 DEF BurstInv, BurstOf
  <2>3. burst'[s] + Cardinality(Asking(s)') <= Threshold + Cardinality(Request)
    <3>1. Cardinality(Asking(s)') = Cardinality(Asking(s)) - 1
      BY <1>8, <1>11, <2>1
    <3> QED
      BY <1>1, <1>3, <2>1, <3>1 DEF BurstInv, BurstOf
  <2>4. /\ Remembered(s) \in Entry /\ Remembered(s).seen = clock
        /\ Remembered(s).failures > 0
        /\ ~ Stale(memory[s], clock) => Remembered(s).failures = memory[s].failures + 1
        /\ Remembered(s).failures > Threshold => Remembered(s).until > clock
    BY SameFailure
  <2>5. Remembered(s).failures \in Nat
    BY <2>4 DEF Entry
  <2>6. Remembered(s).failures >= burst[s] + 1
    <3>1. CASE burst[s] = 0
      BY <2>4, <2>5, <3>1
    <3>2. CASE burst[s] > 0
      <4>1. memory[s].seen = clock /\ memory[s].failures >= burst[s]
        BY <3>2 DEF BurstInv, BurstOf
      <4>2. ~ Stale(memory[s], clock)
        BY <1>3, <4>1, LimitAssumption DEF Stale
      <4> QED
        BY <1>1, <2>4, <4>1, <4>2
    <3> QED
      BY <1>1, <3>1, <3>2
  <2>7. BurstOf(s)'
    BY <2>1, <2>3, <2>4, <2>6 DEF BurstOf
  <2> QED
    BY <2>2, <2>7 DEF BurstInv
<1>12. ASSUME NEW r \in Request, Unavailable(r) \/ Reject(r) \/ Accept(r)
       PROVE  busy[r] \in Source
  BY <1>12 DEF Unavailable, Reject, Accept, TypeOK
<1> QED
  BY <1>4, <1>5, <1>6, <1>7, <1>9, <1>10, <1>11, <1>12
     DEF Next, vars, serving, history, Start, Read, Clear, Open, OpenLoses, OpenFails, Write,
         WriteFails, Bind, Die

-----------------------------------------------------------------------------
(* The theorems.                                                            *)

LEMMA InitIInv == Init => IInv
<1> SUFFICES ASSUME Init PROVE IInv
  OBVIOUS
<1>0. /\ clock = 0 /\ table = [s \in Source |-> None]
      /\ memory = [s \in Source |-> NewEntry] /\ burst = [s \in Source |-> 0]
      /\ busy = [r \in Request |-> None]
  BY Zenon DEF Init
<1>1. TypeOK
  <2>1. [maker |-> Old, text |-> Blank] \in Files /\ [maker |-> Old, text |-> <<Old, 0>>] \in Files
    BY WebUiAssumption DEF Files, Secrets
  <2>2. file \in Files \cup {None}
    BY <2>1 DEF Init
  <2>3. /\ pc = [p \in Proc |-> "idle"] /\ tries = [p \in Proc |-> 0]
        /\ secret = [p \in Proc |-> Blank] /\ server = None /\ cookies = {}
        /\ logins = 0 /\ disturbed = FALSE
    BY Zenon DEF Init
  <2>4. 0 \in 0 .. MaxAttempts
    BY WebUiAssumption
  <2>5. table \in Tables /\ memory \in [Source -> Entry]
    BY <1>0, NewEntryFacts DEF Tables
  <2>6. pc \in [Proc -> Stages] /\ tries \in [Proc -> 0 .. MaxAttempts]
    BY <2>3, <2>4 DEF Stages
  <2> QED
    BY <1>0, <2>2, <2>3, <2>4, <2>5, <2>6 DEF TypeOK
<1>2. TriesInv /\ ServerInv
  BY WebUiAssumption DEF Init, TriesInv, ServerInv
<1>3. SecretInv
  BY DEF Init, SecretInv, Ensuring
<1>4. LimiterInv
  <2> SUFFICES ASSUME NEW s \in Source
               PROVE  /\ memory[s].seen <= clock
                      /\ memory[s].until <= memory[s].seen + MaxBackoff
                      /\ memory[s] = NewEntry /\ table[s] = None
    BY DEF LimiterInv
  <2>1. memory[s] = NewEntry /\ table[s] = None
    BY <1>0
  <2>2. 0 <= MaxBackoff
    BY LimitAssumption
  <2>3. NewEntry.seen <= clock
    BY <1>0, NewEntryFacts
  <2>4. NewEntry.until <= NewEntry.seen + MaxBackoff
    BY <2>2, NewEntryFacts, LimitAssumption
  <2> QED
    BY <2>1, <2>3, <2>4
<1>5. BurstInv
  <2>1. \A s \in Source : Asking(s) = {}
    BY <1>0, NoneAssumption DEF Asking
  <2>2. Cardinality(Request) \in Nat
    BY WebUiAssumption, FS_CardinalityType
  <2>3. Cardinality({}) = 0 /\ \A s \in Source : burst[s] = 0
    BY <1>0, FS_EmptySet
  <2>4. ASSUME NEW s \in Source
        PROVE  burst[s] + Cardinality(Asking(s)) = 0
    <3>1. Cardinality(Asking(s)) = 0 /\ burst[s] = 0
      BY <2>1, <2>3
    <3> QED
      BY <3>1
  <2>5. 0 <= Threshold + Cardinality(Request)
    BY <2>2, LimitAssumption
  <2> SUFFICES ASSUME NEW s \in Source
               PROVE  BurstOf(s)
    BY DEF BurstInv
  <2>6. ~ (burst[s] > 0)
    BY <2>3
  <2>7. burst[s] + Cardinality(Asking(s)) <= Threshold + Cardinality(Request)
    BY <2>4, <2>5
  <2> QED
    BY <2>6, <2>7 DEF BurstOf
<1> QED
  BY <1>1, <1>2, <1>3, <1>4, <1>5 DEF IInv

LEMMA IInvStep == IInv /\ [Next]_vars => IInv'
<1> SUFFICES ASSUME IInv, [Next]_vars PROVE IInv'
  OBVIOUS
<1>1. TypeOK'
  BY ProcessTypes, LoginTypes, StutterTypes DEF IInv, Next
<1> QED
  BY <1>1, TriesStep, ServerStep, SecretStep, LimiterStep, BurstStep DEF IInv

LEMMA Invariance == Spec => []IInv
BY InitIInv, IInvStep, PTL DEF Spec

\* What the variables hold, whatever dies or fails.
THEOREM TypeCorrect == Spec => []TypeOK
<1>1. IInv => TypeOK
  BY DEF IInv
<1> QED
  BY <1>1, Invariance, PTL

\* A restart logs nobody out: SecretInv says that the file is what all who
\* are up agree on, and the cookies too.
THEOREM Sessions == Spec => []SessionsSurvive
<1>1. IInv => SessionsSurvive
  BY WebUiAssumption DEF IInv, TypeOK, ServerInv, SecretInv, SessionsSurvive
<1> QED
  BY <1>1, Invariance, PTL

\* However many sources and threads there are, what fails in one moment is
\* bounded by the threshold and the threads.
THEOREM Bursts == Spec => []BurstIsBounded
<1>1. IInv => BurstIsBounded
  <2> SUFFICES ASSUME IInv, NEW s \in Source
               PROVE  burst[s] <= Threshold + Cardinality(Request)
    BY DEF BurstIsBounded
  <2>1. burst[s] \in Nat /\ Threshold \in Nat
    BY LimitAssumption DEF IInv, TypeOK
  <2>2. burst[s] + Cardinality(Asking(s)) <= Threshold + Cardinality(Request)
    BY DEF IInv, BurstInv, BurstOf
  <2> QED
    BY <2>1, <2>2, AskingIsFinite
<1> QED
  BY <1>1, Invariance, PTL

\* No login reaches PAM before its source's backoff is over: what the table
\* forgot is older than any backoff lasts.
THEOREM Backoffs == Spec => BackoffIsServed
<1>1. IInv /\ [Next]_vars =>
        [\A r \in Request :
           (busy[r] = None /\ busy'[r] # None) => memory[busy'[r]].until <= clock]_vars
  <2> SUFFICES ASSUME IInv, Next, NEW r \in Request, busy[r] = None, busy'[r] # None
               PROVE  memory[busy'[r]].until <= clock
    OBVIOUS
  <2>1. PICK s \in Source : busy' = [busy EXCEPT ![r] = s] /\ Admitted(s)
    <3>1. \A q \in Request, s \in Source :
            Ask(q, s) => q = r /\ busy' = [busy EXCEPT ![r] = s] /\ Admitted(s)
      BY DEF Ask, IInv, TypeOK
    <3>2. \A q \in Request : ~ Unavailable(q) /\ ~ Reject(q) /\ ~ Accept(q)
      BY DEF Unavailable, Reject, Accept, IInv, TypeOK
    <3>3. \A p \in Proc : ~ Die(p)
      BY DEF Die, IInv, TypeOK
    <3> QED
      BY <3>1, <3>2, <3>3 DEF Next, Start, Read, Clear, Open, OpenLoses, OpenFails, Write,
         WriteFails, Bind, Tick, serving
  <2>2. busy'[r] = s
    BY <2>1 DEF IInv, TypeOK
  <2> QED
    BY <2>1, <2>2, AdmittedIsFree DEF IInv
<1> QED
  BY <1>1, Invariance, PTL DEF BackoffIsServed, Spec

=============================================================================
