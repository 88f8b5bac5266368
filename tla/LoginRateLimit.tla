--------------------------- MODULE LoginRateLimit ---------------------------
(***************************************************************************)
(* app/login_rate_limit.py: the backoff of a source after failed logins.   *)
(* The table of a process as a value; each method, which runs under the    *)
(* limiter's lock, is an operator from tables to tables.                   *)
(***************************************************************************)
EXTENDS Integers

CONSTANTS
  Source,       \* the addresses logins come from
  None,         \* no entry
  Threshold,    \* failures before any backoff
  Base,         \* the first backoff
  MaxBackoff,   \* and the longest
  EntryTTL,     \* silence after which a source is as good as new
  MaxExponent,  \* 63
  Power         \* Power[e] is 2^e

ASSUME LimitAssumption ==
  /\ Threshold \in Nat /\ Base \in Nat \ {0} /\ MaxBackoff \in Nat \ {0}
  /\ EntryTTL \in Nat /\ MaxExponent \in Nat

\* The defaults are 60 s and 15 min.
ASSUME BlockEndsBeforeEntry == MaxBackoff <= EntryTTL

ASSUME PowerAssumption ==
  /\ Power \in [0 .. MaxExponent -> Nat \ {0}]
  /\ Power[0] = 1
  /\ \A e \in 0 .. MaxExponent - 1 : Power[e + 1] = 2 * Power[e]

Entry == [failures: Nat, seen: Nat, until: Nat]

ASSUME NoneAssumption == None \notin Entry \cup Source

Tables == [Source -> Entry \cup {None}]

\* _Entry().
NewEntry == [failures |-> 0, seen |-> 0, until |-> 0]

-----------------------------------------------------------------------------

Lesser(a, b) == IF a < b THEN a ELSE b

Stale(entry, now) == now - entry.seen > EntryTTL

\* Mutant of Backoff: linear, and the first block is over when it begins.
LinearBackoff(n) == Lesser(Base * (n - Threshold - 1), MaxBackoff)

\* The delay the n-th failure brings: doubled from one to the next, with a
\* bound on the exponent and one on the delay.
Backoff(n) ==
  Lesser(Base * Power[Lesser(n - Threshold - 1, MaxExponent)], MaxBackoff)

\* One more failure.
Counted(entry, now) ==
  LET n == entry.failures + 1 IN
  [failures |-> n, seen |-> now,
   until |-> IF n > Threshold THEN now + Backoff(n) ELSE entry.until]

\* Mutant of Swept: an entry without a block has served its purpose.
SweptUnblocked(table, now) ==
  [s \in Source |-> IF table[s] # None /\ table[s].until <= now THEN None ELSE table[s]]

\* _evict_stale.
Swept(table, now) ==
  [s \in Source |-> IF table[s] # None /\ Stale(table[s], now) THEN None ELSE table[s]]

\* record_failure.
WithFailure(table, s, now) ==
  LET entry == IF table[s] = None \/ Stale(table[s], now) THEN NewEntry ELSE table[s] IN
  Swept([table EXCEPT ![s] = Counted(entry, now)], now)

\* record_success.
WithSuccess(table, s) == [table EXCEPT ![s] = None]

\* seconds_until_allowed: what it answers, and the table it leaves.
SecondsUntilAllowed(table, s, now) ==
  IF table[s] = None \/ Stale(table[s], now) \/ table[s].until <= now
  THEN 0 ELSE table[s].until - now

AfterAsking(table, s, now) ==
  IF table[s] # None /\ Stale(table[s], now) THEN [table EXCEPT ![s] = None] ELSE table

=============================================================================
