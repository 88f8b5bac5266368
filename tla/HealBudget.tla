----------------------------- MODULE HealBudget -----------------------------
(***************************************************************************)
(* What app/catalog_heal.py promises about repair attempts, without files, *)
(* passes or processes: every attempt on a key is charged to that key's    *)
(* ledger, and an attempt is made only when the ledger allows it, that is  *)
(* a cooldown after the previous one and at most MaxAttempts in a window.  *)
(* A key whose record was lost (see CatalogHeal) is excused from the       *)
(* promise from then on: the promise says nothing else can break it.       *)
(***************************************************************************)
EXTENDS Integers

CONSTANTS
  Key,          \* what is repaired: a (service, dimension) pair
  Epoch,        \* the times an attempt can be stamped with
  Cooldown,     \* least distance of two attempts on a key
  Window,       \* length of a counting window
  MaxAttempts   \* attempts a window allows

VARIABLES
  ledger,       \* per key: start and count of its window, stamp of the last attempt
  excused       \* keys whose record was lost

budgetVars == <<ledger, excused>>

Account == [start: Epoch, count: Nat, last: Epoch]

\* The window an attempt stamped t belongs to: a new one once t is more than
\* Window past the start of the old one.
Charge(a, t) ==
  [start |-> IF t - a.start > Window THEN t ELSE a.start,
   count |-> IF t - a.start > Window THEN 1 ELSE a.count + 1,
   last  |-> t]

\* A last stamp of 0 means that the key was never attempted.
Allowed(a, t) ==
  /\ a.last = 0 \/ t - a.last >= Cooldown
  /\ Charge(a, t).count <= MaxAttempts

Attempt(k, t) ==
  /\ k \in excused' \/ Allowed(ledger[k], t)
  /\ ledger' = [ledger EXCEPT ![k] = Charge(@, t)]
  /\ excused \subseteq excused'

\* Records get lost, attempts do not happen.
Excuse ==
  /\ excused \subseteq excused'
  /\ UNCHANGED ledger

Init ==
  /\ ledger = [k \in Key |-> [start |-> 0, count |-> 0, last |-> 0]]
  /\ excused = {}

Next ==
  \/ \E k \in Key, t \in Epoch : Attempt(k, t)
  \/ Excuse

Spec == Init /\ [][Next]_budgetVars

=============================================================================
