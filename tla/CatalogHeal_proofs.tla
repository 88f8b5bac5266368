------------------------- MODULE CatalogHeal_proofs -------------------------
(***************************************************************************)
(* Proofs about CatalogHeal, for any set of runners, any list of checks    *)
(* and any intervals: the budget of repair attempts, its refinement of     *)
(* HealBudget, and the alert guarantees.                                   *)
(***************************************************************************)
EXTENDS CatalogHeal, SequenceTheorems, TLAPS

-----------------------------------------------------------------------------
(* Lemmas about the operators.                                              *)

(* The check a pass is at is one of the checks.                             *)
LEMMA CurrentIsCheck ==
  ASSUME TypeOK, NEW r \in Runner, idx[r] <= Len(Order)
  PROVE  Current(r) \in Check
<1>1. idx[r] \in 1..Len(Order)
  BY OrderAssumption DEF TypeOK
<1>2. DOMAIN Order = 1..Len(Order)
  BY OrderAssumption
<1>3. QED
  BY <1>1, <1>2 DEF Current, Check

(* Charging an attempt keeps an entry well-formed.                          *)
LEMMA AttemptedType ==
  ASSUME NEW e \in Entry, NEW t \in Epoch
  PROVE  Attempted(e, t) \in Entry
BY TimeAssumption DEF Attempted, AttemptsIn, WindowOver, Entry, Epoch

(* An attempt that is not blocked leaves its window within the cap and      *)
(* within its length.                                                       *)
LEMMA AttemptedInBudget ==
  ASSUME NEW e \in Entry, NEW t \in Epoch, ~Blocked(e, t)
  PROVE  /\ Attempted(e, t).attempts <= MaxAttempts
         /\ Attempted(e, t).last_attempt_epoch - Attempted(e, t).window_start_epoch <= Window
<1>1. AttemptsIn(e, t) < MaxAttempts /\ AttemptsIn(e, t) \in Nat
  BY TimeAssumption DEF Blocked, AttemptsIn, Entry
<1>2. Attempted(e, t).attempts <= MaxAttempts
  BY <1>1, TimeAssumption DEF Attempted
<1>3. Attempted(e, t).last_attempt_epoch - Attempted(e, t).window_start_epoch <= Window
  BY TimeAssumption DEF Attempted, WindowOver, Entry, Epoch
<1>4. QED
  BY <1>2, <1>3

(* The empty file and the entry a new check has are well-formed.            *)
LEMMA EmptyStateType == EmptyState \in State /\ NoEntry \in Entry
BY TimeAssumption DEF EmptyState, State, Entry, AlertEntry, NoEntry, NoAlert, Epoch

-----------------------------------------------------------------------------
(* Type correctness.                                                        *)

(* Exit leaves every pass variable well-typed.                              *)
LEMMA ExitType ==
  ASSUME TypeOK, NEW r \in Runner, Exit(r)
  PROVE  /\ pc' \in [Runner -> {"idle", "heal", "attempt", "alert"}]
         /\ flags' \in [Runner -> Flags]
         /\ now' \in [Runner -> Epoch]
         /\ state' \in [Runner -> State]
         /\ base' \in [Runner -> State]
         /\ idx' \in [Runner -> 1..(Len(Order) + 1)]
         /\ results' \in [Runner -> [Check -> {"good", "bad"}]]
<1>1. 0 \in Epoch
  BY TimeAssumption DEF Epoch
<1>2. 1 \in 1..(Len(Order) + 1)
  BY OrderAssumption
<1>3. NoFlags \in Flags /\ NoResults \in [Check -> {"good", "bad"}]
  BY DEF NoFlags, Flags, NoResults
<1>4. QED
  BY <1>1, <1>2, <1>3, EmptyStateType DEF Exit, TypeOK

(* Recording a result keeps the loop's variables well-typed.                *)
LEMMA RecordType ==
  ASSUME TypeOK, NEW r \in Runner, idx[r] <= Len(Order),
         NEW action \in {"good", "bad"}, Record(r, action)
  PROVE  /\ idx' \in [Runner -> 1..(Len(Order) + 1)]
         /\ results' \in [Runner -> [Check -> {"good", "bad"}]]
<1>1. Current(r) \in Check
  BY CurrentIsCheck
<1>2. idx[r] + 1 \in 1..(Len(Order) + 1)
  BY OrderAssumption DEF TypeOK
<1>3. QED
  BY <1>1, <1>2 DEF Record, TypeOK

(* Sending a mail, or none, keeps the mails a sequence of mails.            *)
LEMMA MailsType ==
  ASSUME TypeOK, NEW r \in Runner, NEW c \in Check,
         IF MailFor(r, c) = "none" THEN UNCHANGED mails ELSE SendAlert(r, c)
  PROVE  mails' \in [Check -> Seq(Mail)]
<1>1. CASE MailFor(r, c) = "none"
  BY <1>1 DEF TypeOK
<1>2. CASE MailFor(r, c) # "none"
  <2>1. PICK arrived \in BOOLEAN :
          mails' = [mails EXCEPT ![c] =
            Append(@, [kind |-> MailFor(r, c), at |-> now[r], arrived |-> arrived])]
    BY <1>2 DEF SendAlert
  <2>2. MailFor(r, c) \in {"attention", "recovered"}
    BY <1>2 DEF MailFor
  <2> DEFINE m == [kind |-> MailFor(r, c), at |-> now[r], arrived |-> arrived]
  <2>3. m \in Mail
    BY <2>2, Zenon DEF Mail, TypeOK
  <2>4. Append(mails[c], m) \in Seq(Mail)
    BY <2>3, AppendProperties DEF TypeOK
  <2>5. QED
    BY <2>1, <2>4 DEF TypeOK
<1>3. QED
  BY <1>1, <1>2

\* TypeOK alone is not inductive: FinishAttempt needs to know that a pass in
\* an attempt is at a check.  Only real runs get as far as alerting.
PassOK ==
  \A r \in Runner :
    /\ pc[r] = "attempt" => idx[r] <= Len(Order)
    /\ pc[r] = "alert" => RealRun(r)

TypeInv == TypeOK /\ PassOK

(* The passes start well-typed.                                             *)
LEMMA InitTypeInv == Init => TypeInv
<1>1. StartClock \in Epoch /\ 0 \in Epoch
  BY TimeAssumption DEF Epoch
<1>2. 1 \in 1..(Len(Order) + 1)
  BY OrderAssumption
<1>3. 0 \in 0..MaxPasses
  BY TimeAssumption
<1>4. QED
  BY <1>1, <1>2, <1>3, EmptyStateType
  DEF Init, TypeInv, TypeOK, PassOK, RealRun, NoFlags, Flags, NoResults

(* Every step of a pass keeps the types and the cursor in range.            *)
LEMMA NextTypeInv == TypeInv /\ [Next]_vars => TypeInv'
<1> SUFFICES ASSUME TypeInv, [Next]_vars
             PROVE  TypeInv'
  OBVIOUS
<1> USE DEF TypeInv
<1>1. CASE Tick
  BY <1>1, TimeAssumption DEF Tick, passVars, histVars, TypeOK, PassOK, RealRun, Epoch
<1>2. ASSUME NEW r \in Runner, Begin(r)
      PROVE  TypeInv'
  <2>1. begun' \in 0..MaxPasses
    BY <1>2, TimeAssumption DEF Begin, TypeOK
  <2>2. PICK f \in FlagsOf(r) :
          /\ flags' = [flags EXCEPT ![r] = f]
          /\ state' = [state EXCEPT ![r] = IF f.cert \/ f.dns THEN stateFile ELSE EmptyState]
          /\ base' = [base EXCEPT ![r] = IF f.cert \/ f.dns THEN stateFile ELSE EmptyState]
    BY <1>2 DEF Begin
  <2>3. f \in Flags
    <3>1. [cert |-> TRUE, dns |-> FALSE] \in Flags
      BY Zenon DEF Flags
    <3>2. QED
      BY <3>1 DEF FlagsOf
  <2>4. flags' \in [Runner -> Flags] /\ state' \in [Runner -> State] /\ base' \in [Runner -> State]
    BY <2>2, <2>3, EmptyStateType DEF TypeOK
  <2>5. now' \in [Runner -> Epoch] /\ pc' \in [Runner -> {"idle", "heal", "attempt", "alert"}]
    BY <1>2 DEF Begin, TypeOK
  <2>6. QED
    BY <1>2, <2>1, <2>4, <2>5 DEF Begin, TypeOK, PassOK, RealRun
<1>3. ASSUME NEW r \in Runner, Report(r)
      PROVE  TypeInv'
  <2>1. PICK action \in {"good", "bad"} : Record(r, action)
    BY <1>3 DEF Report, Result
  <2>2. idx[r] <= Len(Order) /\ pc[r] = "heal"
    BY <1>3 DEF Report, AtCheck
  <2>3. /\ idx' \in [Runner -> 1..(Len(Order) + 1)]
        /\ results' \in [Runner -> [Check -> {"good", "bad"}]]
    BY <2>1, <2>2, RecordType
  <2>4. QED
    BY <1>3, <2>1, <2>2, <2>3 DEF Report, Record, TypeOK, PassOK, RealRun, histVars
<1>4. ASSUME NEW r \in Runner, BeginAttempt(r)
      PROVE  TypeInv'
  <2>1. idx[r] <= Len(Order) /\ Current(r) \in Check
    BY <1>4, CurrentIsCheck DEF BeginAttempt, AtCheck
  <2> DEFINE c == Current(r)
             e == Attempted(state[r].heal[c], now[r])
  <2>2. e \in Entry
    BY <2>1, AttemptedType DEF TypeOK, State
  <2>3. Attempted(ledger[c], now[r]) \in Entry
    BY <2>1, AttemptedType DEF TypeOK
  <2>4. state' = [state EXCEPT ![r].heal[c] = e]
    BY <1>4 DEF BeginAttempt
  <2>5. state' \in [Runner -> State]
    <3> HIDE DEF e
    <3>1. [state[r] EXCEPT !.heal[c] = e] \in State
      BY <2>1, <2>2 DEF TypeOK, State
    <3>2. QED
      BY <2>4, <3>1 DEF TypeOK
  <2>6. ledger' \in [Check -> Entry]
    BY <1>4, <2>1, <2>3 DEF BeginAttempt, TypeOK
  <2>7. lost' \subseteq Check
    BY <1>4, <2>1 DEF BeginAttempt, TypeOK
  <2>8. QED
    BY <1>4, <2>1, <2>5, <2>6, <2>7 DEF BeginAttempt, TypeOK, PassOK, RealRun
<1>5. ASSUME NEW r \in Runner, FinishAttempt(r)
      PROVE  TypeInv'
  <2>1. PICK action \in {"good", "bad"} : Record(r, action)
    BY <1>5 DEF FinishAttempt, Result
  <2>2. idx[r] <= Len(Order)
    BY <1>5 DEF FinishAttempt, PassOK, RealRun
  <2>3. /\ idx' \in [Runner -> 1..(Len(Order) + 1)]
        /\ results' \in [Runner -> [Check -> {"good", "bad"}]]
    BY <2>1, <2>2, RecordType
  <2>4. PassOK'
    BY <1>5, <2>1 DEF FinishAttempt, Record, PassOK, RealRun, TypeOK
  <2>5. QED
    BY <1>5, <2>3, <2>4 DEF FinishAttempt, TypeOK, histVars
<1>6. ASSUME NEW r \in Runner, EndHealing(r)
      PROVE  TypeInv'
  <2>1. CASE Exit(r)
    BY <1>6, <2>1, ExitType DEF EndHealing, Exit, TypeOK, PassOK, RealRun, histVars
  <2>2. CASE ~Exit(r)
    <3>1. 1 \in 1..(Len(Order) + 1)
      BY OrderAssumption
    <3>2. QED
      BY <1>6, <2>2, <3>1 DEF EndHealing, TypeOK, PassOK, RealRun, histVars
  <2>3. QED
    BY <2>1, <2>2
<1>7. ASSUME NEW r \in Runner, MaybeAlert(r)
      PROVE  TypeInv'
  <2>1. idx[r] <= Len(Order) /\ Current(r) \in Check
    BY <1>7, CurrentIsCheck DEF MaybeAlert
  <2> DEFINE c == Current(r)
             e == Stamped(r, c)
  <2>2. e \in AlertEntry
    BY <2>1 DEF Stamped, TypeOK, State, AlertEntry
  <2>3. state' \in [Runner -> State]
    <3> HIDE DEF e
    <3>1. state' = [state EXCEPT ![r].alert[c] = e]
      BY <1>7 DEF MaybeAlert, e
    <3>2. [state[r] EXCEPT !.alert[c] = e] \in State
      BY <2>1, <2>2 DEF TypeOK, State
    <3>3. QED
      BY <3>1, <3>2 DEF TypeOK
  <2>4. mails' \in [Check -> Seq(Mail)]
    BY <1>7, <2>1, MailsType DEF MaybeAlert, TypeOK
  <2>5. lostAlert' \subseteq Check
    BY <1>7, <2>1 DEF MaybeAlert, TypeOK
  <2>6. idx' \in [Runner -> 1..(Len(Order) + 1)]
    BY <1>7, <2>1, OrderAssumption DEF MaybeAlert, TypeOK
  <2>7. QED
    BY <1>7, <2>3, <2>4, <2>5, <2>6 DEF MaybeAlert, TypeOK, PassOK, RealRun
<1>8. ASSUME NEW r \in Runner, Save(r)
      PROVE  TypeInv'
  BY <1>8, ExitType DEF Save, Exit, TypeOK, PassOK, RealRun
<1>9. ASSUME NEW r \in Runner, Kill(r)
      PROVE  TypeInv'
  BY <1>9, ExitType DEF Kill, Exit, TypeOK, PassOK, RealRun
<1>10. CASE UNCHANGED vars
  BY <1>10 DEF vars, passVars, histVars, TypeOK, PassOK, RealRun
<1>11. QED
  BY <1>1, <1>2, <1>3, <1>4, <1>5, <1>6, <1>7, <1>8, <1>9, <1>10 DEF Next

(* Every reachable state is well-typed.                                     *)
THEOREM TypeCorrect == Spec => []TypeOK
<1>1. Spec => []TypeInv
  BY InitTypeInv, NextTypeInv, PTL DEF Spec
<1>2. TypeInv => TypeOK
  BY DEF TypeInv
<1>3. QED
  BY <1>1, <1>2, PTL

-----------------------------------------------------------------------------
(* The budget of attempts.                                                  *)

\* A pass that has attempted c and not saved.
Unsaved(r, c) == Holding(r) /\ state[r].heal[c] # base[r].heal[c]

\* Unless c's record was lost, one place has it: the memory of the one pass
\* that changed it, or the file when no pass did.
HealRecord(c) ==
  /\ \A r \in Runner :
       Unsaved(r, c) => /\ state[r].heal[c] = ledger[c]
                       /\ base[r].heal[c] = stateFile.heal[c]
  /\ \A r, q \in Runner : Unsaved(r, c) /\ Unsaved(q, c) => r = q
  /\ (\A r \in Runner : ~Unsaved(r, c)) => stateFile.heal[c] = ledger[c]

\* BudgetKept alone is not inductive: an attempt is decided on a copy of the
\* entry, which HealRecord ties to the ledger.
BudgetInv ==
  /\ TypeInv
  /\ \A c \in Check \ lost : HealRecord(c)
  /\ BudgetKept

(* The budget invariant holds at the start.                                 *)
LEMMA InitBudgetInv == Init => BudgetInv
<1> SUFFICES ASSUME Init
             PROVE  BudgetInv
  OBVIOUS
<1>1. TypeInv
  BY InitTypeInv
<1>2. \A c \in Check : \A r \in Runner : ~Unsaved(r, c)
  BY DEF Init, Unsaved, Holding, Active
<1>3. \A c \in Check : stateFile.heal[c] = ledger[c]
  BY DEF Init, EmptyState
<1>4. BudgetKept
  BY TimeAssumption DEF Init, BudgetKept, NoEntry
<1>5. QED
  BY <1>1, <1>2, <1>3, <1>4 DEF BudgetInv, HealRecord

(* A step that moves no record and changes no pass's view of c keeps c's    *)
(* record where it was.                                                     *)
LEMMA HealRecordUnmoved ==
  ASSUME NEW c \in Check, HealRecord(c),
         stateFile'.heal[c] = stateFile.heal[c], ledger'[c] = ledger[c],
         \A q \in Runner : /\ Unsaved(q, c)' <=> Unsaved(q, c)
                           /\ Unsaved(q, c) => /\ state'[q].heal[c] = state[q].heal[c]
                                               /\ base'[q].heal[c] = base[q].heal[c]
  PROVE  HealRecord(c)'
BY DEF HealRecord

(* The same when pass r goes away with nothing unsaved about c.             *)
LEMMA HealRecordExit ==
  ASSUME TypeInv, NEW c \in Check, NEW r \in Runner, HealRecord(c),
         ~Unsaved(r, c), Exit(r),
         stateFile'.heal[c] = stateFile.heal[c], ledger' = ledger
  PROVE  HealRecord(c)'
<1>1. ~Unsaved(r, c)'
  BY DEF Exit, Unsaved, Holding, Active, TypeInv, TypeOK
<1>2. \A q \in Runner \ {r} : /\ Unsaved(q, c)' <=> Unsaved(q, c)
                             /\ state'[q].heal[c] = state[q].heal[c]
                             /\ base'[q].heal[c] = base[q].heal[c]
  BY DEF Exit, Unsaved, Holding, Active, RealRun, TypeInv, TypeOK
<1>3. QED
  BY <1>1, <1>2, HealRecordUnmoved

(* The heart of the argument: a pass that attempts c without losing its     *)
(* record has decided on c's true ledger.                                   *)
LEMMA AttemptSeesLedger ==
  ASSUME BudgetInv, NEW r \in Runner, BeginAttempt(r), Current(r) \notin lost'
  PROVE  /\ Current(r) \in Check \ lost
         /\ state[r].heal[Current(r)] = ledger[Current(r)]
         /\ stateFile.heal[Current(r)] = base[r].heal[Current(r)]
         /\ \A q \in Runner \ {r} : ~Unsaved(q, Current(r))
<1> DEFINE c == Current(r)
<1>1. c \in Check
  BY CurrentIsCheck DEF BeginAttempt, AtCheck, BudgetInv, TypeInv
<1>2. ~StaleHeal(r, c) /\ c \notin lost
  BY DEF BeginAttempt
<1>3. stateFile.heal[c] = base[r].heal[c]
  BY <1>2 DEF StaleHeal
<1>4. \A q \in Runner \ {r} : ~Unsaved(q, c)
  BY <1>2 DEF StaleHeal, Unsaved
<1>5. HealRecord(c)
  BY <1>1, <1>2 DEF BudgetInv
<1>6. Holding(r)
  BY DEF BeginAttempt, AtCheck, Authorised, Holding, Active
<1>7. state[r].heal[c] = ledger[c]
  <2>1. CASE Unsaved(r, c)
    BY <2>1, <1>5 DEF HealRecord
  <2>2. CASE ~Unsaved(r, c)
    <3>1. state[r].heal[c] = base[r].heal[c]
      BY <2>2, <1>6 DEF Unsaved
    <3>2. stateFile.heal[c] = ledger[c]
      BY <2>2, <1>4, <1>5 DEF HealRecord
    <3>3. QED
      BY <3>1, <3>2, <1>3
  <2>3. QED
    BY <2>1, <2>2
<1>8. QED
  BY <1>1, <1>2, <1>3, <1>4, <1>7

(* Every step keeps the ledger, the file and the copies in agreement.       *)
LEMMA NextBudgetInv == BudgetInv /\ [Next]_vars => BudgetInv'
<1> SUFFICES ASSUME BudgetInv, [Next]_vars
             PROVE  BudgetInv'
  OBVIOUS
<1>0. TypeInv' /\ TypeInv
  BY NextTypeInv DEF BudgetInv
<1> DEFINE Kept == (\A c \in Check \ lost : HealRecord(c))' /\ BudgetKept'
<1>1. CASE Tick \/ UNCHANGED vars
  <2>1. UNCHANGED <<stateFile, passVars, histVars>>
    BY <1>1 DEF Tick, vars
  <2>2. QED
    BY <2>1, <1>0 DEF BudgetInv, BudgetKept, HealRecord, Unsaved, Holding, Active, RealRun,
       passVars, histVars
<1>2. ASSUME NEW r \in Runner, Begin(r)
      PROVE  Kept
  <2>1. \A c \in Check : ~Unsaved(r, c) /\ ~Unsaved(r, c)'
    <3>1. PICK f \in FlagsOf(r) :
            /\ state' = [state EXCEPT ![r] = IF f.cert \/ f.dns THEN stateFile ELSE EmptyState]
            /\ base' = [base EXCEPT ![r] = IF f.cert \/ f.dns THEN stateFile ELSE EmptyState]
      BY <1>2 DEF Begin
    <3>2. state'[r] = base'[r]
      BY <3>1, <1>0 DEF TypeInv, TypeOK
    <3>3. pc[r] = "idle"
      BY <1>2 DEF Begin
    <3>4. QED
      BY <3>2, <3>3 DEF Unsaved, Holding, Active
  <2>2. \A c \in Check : \A q \in Runner \ {r} :
          /\ Unsaved(q, c)' <=> Unsaved(q, c)
          /\ state'[q].heal[c] = state[q].heal[c]
          /\ base'[q].heal[c] = base[q].heal[c]
    BY <1>2, <1>0 DEF Begin, Unsaved, Holding, Active, RealRun, TypeInv, TypeOK
  <2>3. UNCHANGED <<stateFile, ledger, lost>>
    BY <1>2 DEF Begin
  <2>4. ASSUME NEW c \in Check \ lost
        PROVE  HealRecord(c)'
    BY <2>1, <2>2, <2>3, HealRecordUnmoved DEF BudgetInv
  <2>5. QED
    BY <2>3, <2>4 DEF BudgetInv, BudgetKept
<1>3. ASSUME NEW r \in Runner, Report(r) \/ FinishAttempt(r)
      PROVE  Kept
  <2>1. UNCHANGED <<stateFile, state, base, flags, ledger, lost>>
    BY <1>3 DEF Report, FinishAttempt, histVars
  <2>2. \A q \in Runner : Active(q)' <=> Active(q)
    BY <1>3, <1>0 DEF Report, FinishAttempt, Active, TypeInv, TypeOK
  <2>3. QED
    BY <2>1, <2>2 DEF BudgetInv, BudgetKept, HealRecord, Unsaved, Holding, RealRun
<1>4. ASSUME NEW r \in Runner, BeginAttempt(r)
      PROVE  Kept
  <2>1. PICK d \in Check : d = Current(r)
    BY <1>4, <1>0, CurrentIsCheck DEF BeginAttempt, AtCheck, TypeInv
  <2>2. /\ state' = [state EXCEPT ![r].heal[d] = Attempted(state[r].heal[d], now[r])]
        /\ ledger' = [ledger EXCEPT ![d] = Attempted(@, now[r])]
        /\ UNCHANGED <<stateFile, base, flags>>
        /\ lost \subseteq lost'
    BY <1>4, <2>1 DEF BeginAttempt
  <2>3. \A q \in Runner : Active(q)' <=> Active(q)
    BY <1>4, <1>0 DEF BeginAttempt, AtCheck, Active, TypeInv, TypeOK
  <2>4. \A c \in Check, q \in Runner :
          c # d \/ q # r => state'[q].heal[c] = state[q].heal[c]
    BY <2>1, <2>2, <1>0 DEF TypeInv, TypeOK, State
  <2>5. \A c \in Check, q \in Runner : c # d \/ q # r => (Unsaved(q, c)' <=> Unsaved(q, c))
    BY <2>2, <2>3, <2>4 DEF Unsaved, Holding, RealRun
  <2>6. \A c \in Check : c # d => ledger'[c] = ledger[c]
    BY <2>1, <2>2, <1>0 DEF TypeInv, TypeOK
  <2>7. ASSUME NEW c \in Check \ lost', c # d
        PROVE  HealRecord(c)'
    <3>1. HealRecord(c)
      BY <2>2 DEF BudgetInv
    <3>2. QED
      BY <2>2, <2>4, <2>5, <2>6, <2>7, <3>1, HealRecordUnmoved
  <2>8. ASSUME d \notin lost'
        PROVE  HealRecord(d)'
    <3>1. /\ state[r].heal[d] = ledger[d]
          /\ stateFile.heal[d] = base[r].heal[d]
          /\ \A q \in Runner \ {r} : ~Unsaved(q, d)
      BY <1>4, <2>1, <2>8, AttemptSeesLedger
    <3>2. state'[r].heal[d] = ledger'[d]
      BY <2>1, <2>2, <3>1, <1>0 DEF TypeInv, TypeOK, State
    <3>3. base'[r].heal[d] = stateFile'.heal[d]
      BY <2>2, <3>1
    <3>4. \A q \in Runner \ {r} : ~Unsaved(q, d)'
      BY <2>1, <2>5, <3>1
    <3>5. Holding(r)'
      BY <1>4, <2>2, <2>3 DEF BeginAttempt, AtCheck, Authorised, Holding, RealRun, Active
    <3>6. ~Unsaved(r, d)' => stateFile'.heal[d] = ledger'[d]
      BY <3>2, <3>3, <3>5 DEF Unsaved
    <3>7. QED
      BY <3>2, <3>3, <3>4, <3>6 DEF HealRecord
  <2>9. ASSUME NEW c \in Check \ lost'
        PROVE  /\ ledger'[c].attempts <= MaxAttempts
               /\ ledger'[c].last_attempt_epoch - ledger'[c].window_start_epoch <= Window
    <3>1. CASE c # d
      BY <2>2, <2>6, <3>1 DEF BudgetInv, BudgetKept
    <3>2. CASE c = d
      <4>1. state[r].heal[d] = ledger[d]
        BY <1>4, <2>1, <2>9, <3>2, AttemptSeesLedger
      <4>2. ~Blocked(ledger[d], now[r])
        BY <4>1, <1>4, <2>1 DEF BeginAttempt
      <4>3. ledger[d] \in Entry /\ now[r] \in Epoch
        BY <2>1, <1>0 DEF TypeInv, TypeOK
      <4>4. ledger'[d] = Attempted(ledger[d], now[r])
        BY <2>1, <2>2, <1>0 DEF TypeInv, TypeOK
      <4>5. QED
        BY <3>2, <4>2, <4>3, <4>4, AttemptedInBudget
    <3>3. QED
      BY <3>1, <3>2
  <2>10. QED
    BY <2>7, <2>8, <2>9 DEF BudgetKept
<1>5. ASSUME NEW r \in Runner, EndHealing(r)
      PROVE  Kept
  <2>1. UNCHANGED <<stateFile, ledger, lost>>
    BY <1>5 DEF EndHealing, histVars
  <2>2. CASE Exit(r) /\ ~RealRun(r)
    <3>1. \A c \in Check : ~Unsaved(r, c)
      BY <2>2 DEF Unsaved, Holding
    <3>2. QED
      BY <2>1, <2>2, <3>1, <1>0, HealRecordExit DEF BudgetInv, BudgetKept
  <2>3. CASE pc' = [pc EXCEPT ![r] = "alert"] /\ UNCHANGED <<flags, now, state, results, base>>
    <3>1. \A q \in Runner : Active(q)' <=> Active(q)
      BY <1>5, <2>3, <1>0 DEF EndHealing, Active, TypeInv, TypeOK
    <3>2. QED
      BY <2>1, <2>3, <3>1 DEF BudgetInv, BudgetKept, HealRecord, Unsaved, Holding, RealRun
  <2>4. QED
    BY <1>5, <2>2, <2>3 DEF EndHealing
<1>6. ASSUME NEW r \in Runner, MaybeAlert(r)
      PROVE  Kept
  <2>1. \A q \in Runner : state'[q].heal = state[q].heal
    BY <1>6, <1>0 DEF MaybeAlert, TypeInv, TypeOK, State
  <2>2. UNCHANGED <<stateFile, base, flags, ledger, lost>>
    BY <1>6 DEF MaybeAlert
  <2>3. \A q \in Runner : Active(q)' <=> Active(q)
    BY <1>6, <1>0 DEF MaybeAlert, Active, TypeInv, TypeOK
  <2>4. QED
    BY <2>1, <2>2, <2>3 DEF BudgetInv, BudgetKept, HealRecord, Unsaved, Holding, RealRun
<1>7. ASSUME NEW r \in Runner, Save(r)
      PROVE  Kept
  <2>1. UNCHANGED ledger /\ stateFile' = state[r] /\ Exit(r)
    BY <1>7 DEF Save
  <2>2. \A c \in Check \ lost' : c \in Check \ lost /\ stateFile.heal[c] = base[r].heal[c]
    BY <1>7 DEF Save
  <2>3. ASSUME NEW c \in Check \ lost'
        PROVE  HealRecord(c)'
    <3>1. HealRecord(c)
      BY <2>2 DEF BudgetInv
    <3>2. CASE ~Unsaved(r, c) /\ Holding(r)
      <4>1. stateFile'.heal[c] = stateFile.heal[c]
        BY <3>2, <2>1, <2>2 DEF Unsaved
      <4>2. QED
        BY <4>1, <3>1, <3>2, <2>1, <1>0, HealRecordExit
    <3>3. CASE Unsaved(r, c)
      <4>1. stateFile'.heal[c] = ledger'[c]
        BY <3>1, <3>3, <2>1 DEF HealRecord
      <4>2. \A q \in Runner : ~Unsaved(q, c)'
        <5>1. ~Unsaved(r, c)'
          BY <2>1, <1>0 DEF Exit, Unsaved, Holding, Active, TypeInv, TypeOK
        <5>2. \A q \in Runner \ {r} : Unsaved(q, c)' <=> Unsaved(q, c)
          BY <2>1, <1>0 DEF Exit, Unsaved, Holding, Active, RealRun, TypeInv, TypeOK
        <5>3. QED
          BY <5>1, <5>2, <3>1, <3>3 DEF HealRecord
      <4>3. QED
        BY <4>1, <4>2 DEF HealRecord
    <3>4. Holding(r)
      BY <1>7, <1>0 DEF Save, AlertsDone, Holding, Active, TypeInv, PassOK
    <3>5. QED
      BY <3>2, <3>3, <3>4
  <2>4. QED
    BY <2>1, <2>2, <2>3 DEF BudgetInv, BudgetKept
<1>8. ASSUME NEW r \in Runner, Kill(r)
      PROVE  Kept
  <2>1. UNCHANGED <<ledger, stateFile>> /\ Exit(r) /\ lost \subseteq lost'
    BY <1>8 DEF Kill
  <2>2. \A c \in Check \ lost' : ~Unsaved(r, c)
    BY <1>8 DEF Kill, Unsaved, Holding
  <2>3. QED
    BY <2>1, <2>2, <1>0, HealRecordExit DEF BudgetInv, BudgetKept
<1>9. QED
  BY <1>0, <1>1, <1>2, <1>3, <1>4, <1>5, <1>6, <1>7, <1>8 DEF Next, BudgetInv

(* The budget invariant holds in every reachable state.                     *)
LEMMA SpecBudgetInv == Spec => []BudgetInv
BY InitBudgetInv, NextBudgetInv, PTL DEF Spec

(* No window of any check whose record survived holds more attempts than    *)
(* the cap, whatever passes overlapped or were killed.                      *)
THEOREM BudgetTheorem == Spec => []BudgetKept
<1>1. BudgetInv => BudgetKept
  BY DEF BudgetInv
<1>2. QED
  BY <1>1, SpecBudgetInv, PTL

-----------------------------------------------------------------------------
(* Refinement of HealBudget.                                                *)

\* The two modules compute the same charge.
LEMMA ChargeIsAttempted ==
  ASSUME NEW e \in Entry, NEW t \in Epoch
  PROVE  Budget!Charge(AsAccount(e), t) = AsAccount(Attempted(e, t))
BY TimeAssumption
DEF Budget!Charge, AsAccount, Attempted, AttemptsIn, WindowOver, Entry, Epoch

\* What is not blocked is allowed.
LEMMA UnblockedIsAllowed ==
  ASSUME NEW e \in Entry, NEW t \in Epoch, ~Blocked(e, t)
  PROVE  Budget!Allowed(AsAccount(e), t)
<1>1. Attempted(e, t).attempts <= MaxAttempts
  BY AttemptedInBudget
<1>2. Budget!Charge(AsAccount(e), t).count <= MaxAttempts
  <2>1. Budget!Charge(AsAccount(e), t) = AsAccount(Attempted(e, t))
    BY ChargeIsAttempted
  <2>2. AsAccount(Attempted(e, t)).count = Attempted(e, t).attempts
    BY DEF AsAccount
  <2>3. QED
    BY <1>1, <2>1, <2>2
<1>3. e.last_attempt_epoch = 0 \/ t - e.last_attempt_epoch >= Cooldown
  BY TimeAssumption DEF Blocked, CoolingDown, Entry, Epoch
<1>4. QED
  BY <1>2, <1>3 DEF Budget!Allowed, AsAccount

(* The passes start where the budget does.                                  *)
LEMMA InitRefines == Init => Budget!Init
BY DEF Init, Budget!Init, NoEntry, AsAccount

(* An attempt is an attempt of the budget; every other step excuses or stutters. *)
LEMMA NextRefines == BudgetInv /\ [Next]_vars => [Budget!Next]_(Budget!budgetVars)
<1> SUFFICES ASSUME BudgetInv, [Next]_vars
             PROVE  [Budget!Next]_(Budget!budgetVars)
  OBVIOUS
<1> USE DEF Budget!budgetVars
<1>1. CASE Tick \/ UNCHANGED vars
  BY <1>1 DEF Tick, vars, histVars
<1>2. ASSUME NEW r \in Runner,
             Begin(r) \/ Report(r) \/ FinishAttempt(r) \/ EndHealing(r) \/ MaybeAlert(r)
      PROVE  UNCHANGED <<ledger, lost>>
  BY <1>2 DEF Begin, Report, FinishAttempt, EndHealing, MaybeAlert, histVars
<1>3. ASSUME NEW r \in Runner, Save(r) \/ Kill(r)
      PROVE  Budget!Excuse
  BY <1>3 DEF Save, Kill, Budget!Excuse
<1>4. ASSUME NEW r \in Runner, BeginAttempt(r)
      PROVE  \E c \in Check, t \in Epoch : Budget!Attempt(c, t)
  <2>1. PICK c \in Check : c = Current(r)
    BY <1>4, CurrentIsCheck DEF BeginAttempt, AtCheck, BudgetInv, TypeInv
  <2>2. now[r] \in Epoch /\ ledger[c] \in Entry /\ ledger \in [Check -> Entry]
    BY DEF BudgetInv, TypeInv, TypeOK
  <2>3. /\ ledger' = [ledger EXCEPT ![c] = Attempted(ledger[c], now[r])]
        /\ lost \subseteq lost'
    BY <1>4, <2>1 DEF BeginAttempt
  <2>4. c \in lost' \/ Budget!Allowed(AsAccount(ledger[c]), now[r])
    <3>1. SUFFICES ASSUME c \notin lost'
                   PROVE  Budget!Allowed(AsAccount(ledger[c]), now[r])
      OBVIOUS
    <3>2. state[r].heal[c] = ledger[c]
      BY <1>4, <2>1, <3>1, AttemptSeesLedger
    <3>3. ~Blocked(ledger[c], now[r])
      BY <1>4, <2>1, <3>2 DEF BeginAttempt
    <3>4. QED
      BY <2>2, <3>3, UnblockedIsAllowed
  <2>5. AsAccount(ledger'[c]) = Budget!Charge(AsAccount(ledger[c]), now[r])
    BY <2>2, <2>3, ChargeIsAttempted
  <2>6. [d \in Check |-> AsAccount(ledger'[d])]
          = [[d \in Check |-> AsAccount(ledger[d])]
               EXCEPT ![c] = Budget!Charge(AsAccount(ledger[c]), now[r])]
    BY <2>2, <2>3, <2>5
  <2>7. Budget!Attempt(c, now[r])
    BY <2>3, <2>4, <2>6 DEF Budget!Attempt
  <2>8. QED
    BY <2>2, <2>7
<1>5. QED
  BY <1>1, <1>2, <1>3, <1>4 DEF Next, Budget!Next

(* The passes implement the abstract budget of attempts.                    *)
THEOREM Refinement == Spec => ImplementsHealBudget
<1>1. Spec => []BudgetInv
  BY SpecBudgetInv
<1>2. QED
  BY <1>1, InitRefines, NextRefines, PTL DEF Spec, Budget!Spec, ImplementsHealBudget

-----------------------------------------------------------------------------
(* Alerts.                                                                  *)

\* A check the loop has passed and marks bad was stamped by this pass, or
\* recently enough by an earlier one.
StampedInTime ==
  \A r \in Runner : pc[r] = "alert" =>
    \A i \in DOMAIN Order :
      i < idx[r] /\ state[r].alert[Order[i]].last_status = "bad" =>
        now[r] - state[r].alert[Order[i]].last_alert_epoch < Resend

(* What _maybe_alert leaves marked bad was stamped less than Resend ago.    *)
LEMMA StampInTime ==
  ASSUME TypeInv, NEW r \in Runner, NEW c \in Check,
         Stamped(r, c).last_status = "bad"
  PROVE  now[r] - Stamped(r, c).last_alert_epoch < Resend
<1>1. IsBad(r, c)
  BY DEF Stamped
<1>2. now[r] \in Int /\ state[r].alert[c].last_alert_epoch \in Int
  BY TimeAssumption DEF TypeInv, TypeOK, State, AlertEntry, Epoch
<1>3. CASE WasBad(state[r].alert[c]) /\ ~DueForResend(state[r].alert[c], now[r])
  <2>1. MailFor(r, c) # "attention"
    BY <1>1, <1>3 DEF MailFor
  <2>2. QED
    BY <1>2, <1>3, <2>1, TimeAssumption DEF DueForResend, Stamped
<1>4. CASE ~(WasBad(state[r].alert[c]) /\ ~DueForResend(state[r].alert[c], now[r]))
  <2>1. MailFor(r, c) = "attention"
    BY <1>1, <1>4 DEF MailFor
  <2>2. QED
    BY <1>2, <2>1, TimeAssumption DEF Stamped
<1>5. QED
  BY <1>3, <1>4

(* What one turn of the loop of _maybe_alert changes, and what it leaves.   *)
LEMMA OneAlert ==
  ASSUME TypeInv, NEW r \in Runner, MaybeAlert(r)
  PROVE  /\ idx[r] \in DOMAIN Order /\ Current(r) \in Check
         /\ state'[r].alert[Current(r)] = Stamped(r, Current(r))
         /\ \A c \in Check, q \in Runner : c # Current(r) \/ q # r =>
               state'[q].alert[c] = state[q].alert[c]
         /\ idx' = [idx EXCEPT ![r] = @ + 1]
         /\ UNCHANGED <<stateFile, pc, flags, now, base>>
<1>1. idx[r] \in DOMAIN Order
  BY OrderAssumption DEF MaybeAlert, TypeInv, TypeOK
<1>2. Current(r) \in Check
  BY CurrentIsCheck DEF MaybeAlert, TypeInv
<1>3. PICK d \in Check : d = Current(r)
  BY <1>2
<1>4. PICK e : e = Stamped(r, d)
  OBVIOUS
<1>5. state' = [state EXCEPT ![r].alert[d] = e]
  BY <1>3, <1>4 DEF MaybeAlert
<1>6. state'[r].alert[d] = e
  BY <1>5 DEF TypeInv, TypeOK, State
<1>7. \A c \in Check, q \in Runner : c # d \/ q # r => state'[q].alert[c] = state[q].alert[c]
  BY <1>5 DEF TypeInv, TypeOK, State
<1>8. QED
  BY <1>1, <1>2, <1>3, <1>4, <1>6, <1>7 DEF MaybeAlert

(* No pass is alerting at the start.                                        *)
LEMMA InitStamped == Init => StampedInTime
BY DEF Init, StampedInTime

(* Every step keeps what the passes' loops have stamped in time.            *)
LEMMA NextStamped == TypeInv /\ StampedInTime /\ [Next]_vars => StampedInTime'
<1> SUFFICES ASSUME TypeInv, StampedInTime, [Next]_vars
             PROVE  StampedInTime'
  OBVIOUS
<1>1. CASE Tick \/ UNCHANGED vars
  BY <1>1 DEF Tick, vars, passVars, StampedInTime
<1>2. ASSUME NEW r \in Runner, MaybeAlert(r)
      PROVE  StampedInTime'
  <2>1. /\ idx[r] \in DOMAIN Order /\ Current(r) \in Check
        /\ state'[r].alert[Current(r)] = Stamped(r, Current(r))
        /\ \A c \in Check, q \in Runner : c # Current(r) \/ q # r =>
              state'[q].alert[c] = state[q].alert[c]
        /\ idx' = [idx EXCEPT ![r] = @ + 1]
        /\ UNCHANGED <<stateFile, pc, flags, now, base>>
    BY <1>2, OneAlert
  <2>2. SUFFICES ASSUME NEW q \in Runner, pc'[q] = "alert", NEW i \in DOMAIN Order,
                        i < idx'[q], state'[q].alert[Order[i]].last_status = "bad"
                 PROVE  now'[q] - state'[q].alert[Order[i]].last_alert_epoch < Resend
    BY DEF StampedInTime
  <2>3. Order[i] \in Check
    BY DEF Check
  <2>4. CASE q = r /\ i = idx[r]
    <3>1. Order[i] = Current(r)
      BY <2>4 DEF Current
    <3>2. QED
      BY <2>1, <2>2, <2>4, <3>1, StampInTime
  <2>5. CASE q = r /\ i # idx[r]
    <3>1. Order[i] # Current(r)
      BY <2>1, <2>5, OrderAssumption DEF Current
    <3>2. i < idx[r]
      BY <2>1, <2>2, <2>5, OrderAssumption DEF TypeInv, TypeOK
    <3>3. QED
      BY <2>1, <2>2, <2>3, <2>5, <3>1, <3>2 DEF StampedInTime
  <2>6. CASE q # r
    <3>1. idx'[q] = idx[q]
      BY <2>1, <2>6 DEF TypeInv, TypeOK
    <3>2. QED
      BY <2>1, <2>2, <2>3, <2>6, <3>1 DEF StampedInTime
  <2>7. QED
    BY <2>4, <2>5, <2>6
<1>3. ASSUME NEW r \in Runner, Begin(r) \/ Save(r) \/ Kill(r)
      PROVE  StampedInTime'
  BY <1>3 DEF Begin, Save, Kill, Exit, StampedInTime, TypeInv, TypeOK
<1>4. ASSUME NEW r \in Runner, Report(r) \/ FinishAttempt(r)
      PROVE  StampedInTime'
  <2>1. pc[r] \in {"heal", "attempt"} /\ pc'[r] = "heal" /\ UNCHANGED <<state, now>>
    BY <1>4 DEF Report, FinishAttempt, AtCheck, TypeInv, TypeOK
  <2>2. \A q \in Runner \ {r} : pc'[q] = pc[q] /\ idx'[q] = idx[q]
    BY <1>4 DEF Report, FinishAttempt, Record, TypeInv, TypeOK
  <2>3. QED
    BY <2>1, <2>2 DEF StampedInTime
<1>5. ASSUME NEW r \in Runner, BeginAttempt(r)
      PROVE  StampedInTime'
  BY <1>5 DEF BeginAttempt, AtCheck, StampedInTime, TypeInv, TypeOK
<1>6. ASSUME NEW r \in Runner, EndHealing(r)
      PROVE  StampedInTime'
  <2>1. \A q \in Runner \ {r} : /\ pc'[q] = pc[q] /\ idx'[q] = idx[q]
                                /\ now'[q] = now[q] /\ state'[q] = state[q]
    BY <1>6 DEF EndHealing, Exit, TypeInv, TypeOK
  <2>2. idx'[r] = 1
    BY <1>6 DEF EndHealing, Exit, TypeInv, TypeOK
  <2>3. QED
    BY <2>1, <2>2, OrderAssumption DEF StampedInTime
<1>7. QED
  BY <1>1, <1>2, <1>3, <1>4, <1>5, <1>6 DEF Next

\* A pass that changed c's alert entry and has not saved.
UnsavedMail(r, c) == Holding(r) /\ state[r].alert[c] # base[r].alert[c]

\* The entry says what the last mail about c said, and when.
Agrees(e, c) ==
  /\ e.last_status = "bad" <=> LastMail(c).kind = "attention"
  /\ e.last_status = "bad" => e.last_alert_epoch = LastMail(c).at

\* As HealRecord, for alert entries and the mails.
AlertRecord(c) ==
  /\ \A r \in Runner :
       UnsavedMail(r, c) => /\ Agrees(state[r].alert[c], c)
                           /\ base[r].alert[c] = stateFile.alert[c]
  /\ \A r, q \in Runner : UnsavedMail(r, c) /\ UnsavedMail(q, c) => r = q
  /\ (\A r \in Runner : ~UnsavedMail(r, c)) => Agrees(stateFile.alert[c], c)

\* A pass has changed no alert entry its last loop is not past.
AlertsComeLast ==
  \A r \in Runner :
    /\ pc[r] \in {"heal", "attempt"} => state[r].alert = base[r].alert
    /\ pc[r] = "alert" => \A i \in DOMAIN Order : i >= idx[r] =>
         state[r].alert[Order[i]] = base[r].alert[Order[i]]

InboxInv ==
  /\ TypeInv
  /\ AlertsComeLast
  /\ \A c \in Check \ lostAlert : AlertRecord(c)
  /\ RemindersNotEarly

(* The inbox invariant holds at the start.                                  *)
LEMMA InitInboxInv == Init => InboxInv
<1> SUFFICES ASSUME Init
             PROVE  InboxInv
  OBVIOUS
<1>1. TypeInv
  BY InitTypeInv
<1>2. \A c \in Check : \A r \in Runner : ~UnsavedMail(r, c)
  BY DEF Init, UnsavedMail, Holding, Active
<1>3. \A c \in Check : Agrees(stateFile.alert[c], c)
  BY DEF Init, EmptyState, NoAlert, Agrees, LastMail, NoMail
<1>4. AlertsComeLast
  BY DEF Init, AlertsComeLast
<1>5. RemindersNotEarly
  BY DEF Init, RemindersNotEarly
<1>6. QED
  BY <1>1, <1>2, <1>3, <1>4, <1>5 DEF InboxInv, AlertRecord

(* A step that moves no alert entry of c and mails nothing about it.        *)
LEMMA AlertRecordUnmoved ==
  ASSUME NEW c \in Check, AlertRecord(c),
         stateFile'.alert[c] = stateFile.alert[c], mails'[c] = mails[c],
         \A q \in Runner : /\ UnsavedMail(q, c)' <=> UnsavedMail(q, c)
                           /\ UnsavedMail(q, c) => /\ state'[q].alert[c] = state[q].alert[c]
                                                   /\ base'[q].alert[c] = base[q].alert[c]
  PROVE  AlertRecord(c)'
<1>1. LastMail(c)' = LastMail(c)
  BY DEF LastMail
<1>2. QED
  BY <1>1 DEF AlertRecord, Agrees

(* The same when pass r goes away with nothing unsaved about c.             *)
LEMMA AlertRecordExit ==
  ASSUME TypeInv, NEW c \in Check, NEW r \in Runner, AlertRecord(c),
         ~UnsavedMail(r, c), Exit(r),
         stateFile'.alert[c] = stateFile.alert[c], mails' = mails
  PROVE  AlertRecord(c)'
<1>1. ~UnsavedMail(r, c)'
  BY DEF Exit, UnsavedMail, Holding, Active, TypeInv, TypeOK
<1>2. \A q \in Runner \ {r} : /\ UnsavedMail(q, c)' <=> UnsavedMail(q, c)
                             /\ state'[q].alert[c] = state[q].alert[c]
                             /\ base'[q].alert[c] = base[q].alert[c]
  BY DEF Exit, UnsavedMail, Holding, Active, RealRun, TypeInv, TypeOK
<1>3. QED
  BY <1>1, <1>2, AlertRecordUnmoved

(* The last mail after one is sent, and the mails before it.                *)
LEMMA MailAppended ==
  ASSUME TypeInv, NEW c \in Check, NEW m, mails' = [mails EXCEPT ![c] = Append(@, m)]
  PROVE  /\ LastMail(c)' = m
         /\ DOMAIN mails'[c] = 1..(Len(mails[c]) + 1)
         /\ \A i \in DOMAIN mails[c] : mails'[c][i] = mails[c][i]
         /\ mails'[c][Len(mails[c]) + 1] = m
         /\ \A d \in Check : d # c => mails'[d] = mails[d]
<1> DEFINE s == mails[c]
           t == mails'[c]
<1>1. s \in Seq(Mail) /\ mails \in [Check -> Seq(Mail)]
  BY DEF TypeInv, TypeOK
<1>2. t = Append(s, m)
  BY <1>1
<1>3. /\ Len(t) = Len(s) + 1
      /\ DOMAIN t = 1..(Len(s) + 1)
      /\ \A i \in 1..Len(s) : t[i] = s[i]
      /\ t[Len(s) + 1] = m
      /\ t # <<>>
      /\ DOMAIN s = 1..Len(s)
  <2> HIDE DEF s, t
  <2>1. s \in Seq(Mail \cup {m}) /\ m \in Mail \cup {m}
    BY <1>1
  <2>2. QED
    BY <1>2, <2>1, AppendProperties
<1>4. LastMail(c)' = m
  BY <1>3 DEF LastMail
<1>5. \A d \in Check : d # c => mails'[d] = mails[d]
  BY <1>1
<1>6. QED
  BY <1>3, <1>4, <1>5

(* A pass that mails about c without losing c's record acts on an entry     *)
(* that agrees with the last mail.                                          *)
LEMMA AlertSeesRecord ==
  ASSUME InboxInv, NEW r \in Runner, MaybeAlert(r), Current(r) \notin lostAlert'
  PROVE  /\ Current(r) \in Check \ lostAlert
         /\ stateFile.alert[Current(r)] = base[r].alert[Current(r)]
         /\ \A q \in Runner \ {r} : ~UnsavedMail(q, Current(r))
         /\ Agrees(state[r].alert[Current(r)], Current(r))
<1> DEFINE c == Current(r)
<1>1. c \in Check /\ idx[r] \in DOMAIN Order
  BY OneAlert DEF InboxInv
<1>2. c \notin lostAlert /\ ~StaleAlert(r, c)
  BY DEF MaybeAlert
<1>3. stateFile.alert[c] = base[r].alert[c]
  BY <1>2 DEF StaleAlert
<1>4. \A q \in Runner \ {r} : ~UnsavedMail(q, c)
  BY <1>2 DEF StaleAlert, UnsavedMail
<1>5. state[r].alert[c] = base[r].alert[c]
  BY <1>1, OrderAssumption DEF MaybeAlert, InboxInv, AlertsComeLast, TypeInv, TypeOK, Current
<1>6. Agrees(state[r].alert[c], c)
  BY <1>1, <1>2, <1>3, <1>4, <1>5 DEF InboxInv, AlertRecord, UnsavedMail
<1>7. QED
  BY <1>1, <1>2, <1>3, <1>4, <1>6

(* What it stamps agrees with what it sent, and what it sent was in turn.   *)
LEMMA AlertAgrees ==
  ASSUME InboxInv, NEW r \in Runner, MaybeAlert(r), NEW c \in Check,
         c = Current(r), c \notin lostAlert'
  PROVE  /\ Agrees(state[r].alert[c], c)'
         /\ \A i \in DOMAIN mails'[c] :
              InTurn(IF i = 1 THEN NoMail ELSE mails'[c][i - 1], mails'[c][i])
<1> DEFINE e == state[r].alert[c]
<1>1. Agrees(e, c) /\ c \notin lostAlert
  BY AlertSeesRecord
<1>2. state'[r].alert[c] = Stamped(r, c)
  BY OneAlert DEF InboxInv
<1>3. \A i \in DOMAIN mails[c] :
        InTurn(IF i = 1 THEN NoMail ELSE mails[c][i - 1], mails[c][i])
  BY <1>1 DEF InboxInv, RemindersNotEarly
<1>4. CASE MailFor(r, c) = "none"
  <2>1. UNCHANGED mails
    BY <1>4 DEF MaybeAlert
  <2>2. LastMail(c)' = LastMail(c)
    BY <2>1 DEF LastMail
  <2>3. Agrees(Stamped(r, c), c)
    BY <1>1, <1>4 DEF Agrees, MailFor, WasBad, Stamped
  <2>4. Agrees(state[r].alert[c], c)'
    BY <1>2, <2>2, <2>3 DEF Agrees
  <2>5. QED
    BY <1>3, <2>1, <2>4
<1>5. CASE MailFor(r, c) # "none"
  <2>1. PICK arrived \in BOOLEAN :
          mails' = [mails EXCEPT ![c] =
            Append(@, [kind |-> MailFor(r, c), at |-> now[r], arrived |-> arrived])]
    BY <1>5 DEF MaybeAlert, SendAlert
  <2> DEFINE n == Len(mails[c])
  <2>2. PICK m : m.kind = MailFor(r, c) /\ m.at = now[r]
                 /\ mails' = [mails EXCEPT ![c] = Append(@, m)]
    BY <2>1
  <2>3. /\ LastMail(c)' = m
        /\ DOMAIN mails'[c] = 1..(n + 1)
        /\ \A i \in DOMAIN mails[c] : mails'[c][i] = mails[c][i]
        /\ mails'[c][n + 1] = m
    <3>1. TypeInv
      BY DEF InboxInv
    <3>2. mails' = [mails EXCEPT ![c] = Append(@, m)]
      BY <2>2
    <3>3. LastMail(c)' = m
      BY <3>1, <3>2, MailAppended
    <3>4. DOMAIN mails'[c] = 1..(Len(mails[c]) + 1)
      BY <3>1, <3>2, MailAppended
    <3>5. \A i \in DOMAIN mails[c] : mails'[c][i] = mails[c][i]
      BY <3>1, <3>2, MailAppended
    <3>6. QED
      BY <3>1, <3>2, <3>3, <3>4, <3>5, MailAppended
  <2>4. Agrees(state[r].alert[c], c)'
    <3>1. /\ Stamped(r, c).last_status = "bad" <=> m.kind = "attention"
          /\ Stamped(r, c).last_status = "bad" => Stamped(r, c).last_alert_epoch = m.at
      BY <1>5, <2>2 DEF MailFor, Stamped
    <3>2. QED
      BY <1>2, <2>3, <3>1 DEF Agrees
  <2>5. InTurn(LastMail(c), m)
    BY <1>1, <1>5, <2>2 DEF InTurn, Agrees, MailFor, WasBad, DueForResend
  <2>6. /\ DOMAIN mails[c] = 1..n /\ n \in Nat /\ (n = 0 <=> mails[c] = <<>>)
    BY EmptySeq, LenProperties DEF InboxInv, TypeInv, TypeOK
  <2>7. ASSUME NEW i \in DOMAIN mails'[c]
        PROVE  InTurn(IF i = 1 THEN NoMail ELSE mails'[c][i - 1], mails'[c][i])
    <3>1. CASE i = n + 1
      <4>1. LastMail(c) = IF i = 1 THEN NoMail ELSE mails'[c][i - 1]
        BY <2>3, <2>6, <3>1 DEF LastMail
      <4>2. QED
        BY <2>3, <2>5, <3>1, <4>1
    <3>2. CASE i # n + 1
      <4>1. i \in DOMAIN mails[c]
        BY <2>3, <2>6, <3>2
      <4>2. i # 1 => i - 1 \in DOMAIN mails[c]
        BY <2>6, <4>1
      <4>3. QED
        BY <1>3, <2>3, <4>1, <4>2
    <3>3. QED
      BY <3>1, <3>2
  <2>8. QED
    BY <2>4, <2>7
<1>6. QED
  BY <1>4, <1>5

(* Alert entries change only after the last check of a pass.                *)
LEMMA NextAlertsComeLast == InboxInv /\ [Next]_vars => AlertsComeLast'
<1> SUFFICES ASSUME InboxInv, [Next]_vars
             PROVE  AlertsComeLast'
  OBVIOUS
<1> USE DEF InboxInv, TypeInv, TypeOK, AlertsComeLast
<1>1. CASE Tick \/ UNCHANGED vars
  BY <1>1 DEF Tick, vars, passVars
<1>2. ASSUME NEW r \in Runner, Begin(r)
      PROVE  AlertsComeLast'
  <2>1. PICK f \in FlagsOf(r) :
          /\ state' = [state EXCEPT ![r] = IF f.cert \/ f.dns THEN stateFile ELSE EmptyState]
          /\ base' = [base EXCEPT ![r] = IF f.cert \/ f.dns THEN stateFile ELSE EmptyState]
    BY <1>2 DEF Begin
  <2>2. QED
    BY <1>2, <2>1 DEF Begin
<1>3. ASSUME NEW r \in Runner, Report(r) \/ FinishAttempt(r)
      PROVE  AlertsComeLast'
  <2>1. pc[r] \in {"heal", "attempt"} /\ pc'[r] = "heal" /\ UNCHANGED <<state, base>>
    BY <1>3 DEF Report, FinishAttempt, AtCheck
  <2>2. \A q \in Runner \ {r} : pc'[q] = pc[q] /\ idx'[q] = idx[q]
    BY <1>3 DEF Report, FinishAttempt, Record
  <2>3. QED
    BY <2>1, <2>2
<1>4. ASSUME NEW r \in Runner, BeginAttempt(r)
      PROVE  AlertsComeLast'
  <2>1. \A q \in Runner : state'[q].alert = state[q].alert
    BY <1>4 DEF BeginAttempt, State
  <2>2. QED
    BY <1>4, <2>1 DEF BeginAttempt, AtCheck
<1>5. ASSUME NEW r \in Runner, EndHealing(r) \/ Save(r) \/ Kill(r)
      PROVE  AlertsComeLast'
  <2>1. CASE Exit(r)
    BY <2>1 DEF Exit
  <2>2. CASE ~Exit(r)
    BY <1>5, <2>2 DEF EndHealing, Save, Kill
  <2>3. QED
    BY <2>1, <2>2
<1>6. ASSUME NEW r \in Runner, MaybeAlert(r)
      PROVE  AlertsComeLast'
  <2>1. /\ idx[r] \in DOMAIN Order /\ Current(r) \in Check
        /\ \A c \in Check, q \in Runner : c # Current(r) \/ q # r =>
              state'[q].alert[c] = state[q].alert[c]
        /\ idx' = [idx EXCEPT ![r] = @ + 1]
        /\ UNCHANGED <<pc, base>>
    BY <1>6, OneAlert
  <2>2. \A q \in Runner \ {r} : state'[q] = state[q]
    BY <1>6 DEF MaybeAlert
  <2>3. pc[r] = "alert"
    BY <1>6 DEF MaybeAlert
  <2>4. ASSUME NEW i \in DOMAIN Order, i >= idx'[r]
        PROVE  state'[r].alert[Order[i]] = base'[r].alert[Order[i]]
    <3>1. i # idx[r] /\ i >= idx[r]
      BY <2>1, <2>4, OrderAssumption
    <3>2. Order[i] \in Check /\ Order[i] # Current(r)
      BY <2>1, <3>1, OrderAssumption DEF Check, Current
    <3>3. QED
      BY <2>1, <2>3, <3>1, <3>2
  <2>5. QED
    BY <2>1, <2>2, <2>3, <2>4
<1>7. QED
  BY <1>1, <1>2, <1>3, <1>4, <1>5, <1>6 DEF Next

(* Every step keeps the inbox, the file and the copies in agreement.        *)
LEMMA NextInboxInv == InboxInv /\ [Next]_vars => InboxInv'
<1> SUFFICES ASSUME InboxInv, [Next]_vars
             PROVE  InboxInv'
  OBVIOUS
<1>0. TypeInv' /\ TypeInv /\ AlertsComeLast'
  BY NextTypeInv, NextAlertsComeLast DEF InboxInv
<1> DEFINE Kept == (\A c \in Check \ lostAlert : AlertRecord(c))' /\ RemindersNotEarly'
<1>a. ASSUME UNCHANGED mails, lostAlert \subseteq lostAlert'
      PROVE  /\ RemindersNotEarly'
             /\ \A c \in Check : LastMail(c)' = LastMail(c)
  BY <1>a DEF InboxInv, RemindersNotEarly, LastMail
<1>1. CASE Tick \/ UNCHANGED vars
  <2>1. UNCHANGED <<stateFile, passVars, histVars>>
    BY <1>1 DEF Tick, vars
  <2>2. QED
    BY <2>1, <1>0, <1>a DEF InboxInv, AlertRecord, Agrees, UnsavedMail, Holding, Active, RealRun,
       passVars, histVars
<1>2. ASSUME NEW r \in Runner, Begin(r)
      PROVE  Kept
  <2>1. \A c \in Check : ~UnsavedMail(r, c) /\ ~UnsavedMail(r, c)'
    <3>1. PICK f \in FlagsOf(r) :
            /\ state' = [state EXCEPT ![r] = IF f.cert \/ f.dns THEN stateFile ELSE EmptyState]
            /\ base' = [base EXCEPT ![r] = IF f.cert \/ f.dns THEN stateFile ELSE EmptyState]
      BY <1>2 DEF Begin
    <3>2. state'[r] = base'[r] /\ pc[r] = "idle"
      BY <3>1, <1>2, <1>0 DEF Begin, TypeInv, TypeOK
    <3>3. QED
      BY <3>2 DEF UnsavedMail, Holding, Active
  <2>2. \A c \in Check : \A q \in Runner \ {r} :
          /\ UnsavedMail(q, c)' <=> UnsavedMail(q, c)
          /\ state'[q].alert[c] = state[q].alert[c]
          /\ base'[q].alert[c] = base[q].alert[c]
    BY <1>2, <1>0 DEF Begin, UnsavedMail, Holding, Active, RealRun, TypeInv, TypeOK
  <2>3. UNCHANGED <<stateFile, mails, lostAlert>>
    BY <1>2 DEF Begin
  <2>4. QED
    BY <2>1, <2>2, <2>3, <1>a, AlertRecordUnmoved DEF InboxInv
<1>3. ASSUME NEW r \in Runner, Report(r) \/ FinishAttempt(r) \/ BeginAttempt(r)
      PROVE  Kept
  <2>1. UNCHANGED <<stateFile, base, flags, mails, lostAlert>>
    BY <1>3 DEF Report, FinishAttempt, BeginAttempt, histVars
  <2>2. \A q \in Runner : state'[q].alert = state[q].alert
    <3>1. CASE Report(r) \/ FinishAttempt(r)
      BY <3>1 DEF Report, FinishAttempt
    <3>2. CASE BeginAttempt(r)
      <4>1. PICK d, e : state' = [state EXCEPT ![r].heal[d] = e]
        BY <3>2 DEF BeginAttempt
      <4>2. QED
        BY <4>1, <1>0 DEF TypeInv, TypeOK, State
    <3>3. QED
      BY <1>3, <3>1, <3>2
  <2>3. \A q \in Runner : Active(q)' <=> Active(q)
    BY <1>3, <1>0 DEF Report, FinishAttempt, BeginAttempt, AtCheck, Active, TypeInv, TypeOK
  <2>4. QED
    BY <2>1, <2>2, <2>3, <1>a DEF InboxInv, AlertRecord, Agrees, UnsavedMail, Holding, RealRun
<1>4. ASSUME NEW r \in Runner, EndHealing(r)
      PROVE  Kept
  <2>1. UNCHANGED <<stateFile, mails, lostAlert>>
    BY <1>4 DEF EndHealing, histVars
  <2>2. CASE Exit(r) /\ ~RealRun(r)
    <3>1. \A c \in Check : ~UnsavedMail(r, c)
      BY <2>2 DEF UnsavedMail, Holding
    <3>2. QED
      BY <2>1, <2>2, <3>1, <1>0, <1>a, AlertRecordExit DEF InboxInv
  <2>3. CASE pc' = [pc EXCEPT ![r] = "alert"] /\ UNCHANGED <<flags, now, state, results, base>>
    <3>1. \A q \in Runner : Active(q)' <=> Active(q)
      BY <1>4, <2>3, <1>0 DEF EndHealing, Active, TypeInv, TypeOK
    <3>2. QED
      BY <2>1, <2>3, <3>1, <1>a DEF InboxInv, AlertRecord, Agrees, UnsavedMail, Holding, RealRun
  <2>4. QED
    BY <1>4, <2>2, <2>3 DEF EndHealing
<1>5. ASSUME NEW r \in Runner, MaybeAlert(r)
      PROVE  Kept
  <2>1. PICK d \in Check : d = Current(r)
    BY <1>5, <1>0, OneAlert
  <2>2. /\ UNCHANGED <<stateFile, base, flags>>
        /\ \A c \in Check, q \in Runner : c # d \/ q # r =>
              state'[q].alert[c] = state[q].alert[c]
    BY <1>5, <1>0, <2>1, OneAlert
  <2>3. \A q \in Runner : Active(q)' <=> Active(q)
    BY <1>5, <1>0 DEF MaybeAlert, Active
  <2>4. \A c \in Check, q \in Runner : c # d \/ q # r => (UnsavedMail(q, c)' <=> UnsavedMail(q, c))
    BY <2>2, <2>3 DEF UnsavedMail, Holding, RealRun
  <2>5. lostAlert \subseteq lostAlert' /\ \A c \in Check : c # d => mails'[c] = mails[c]
    BY <1>5, <1>0, <2>1 DEF MaybeAlert, SendAlert, TypeInv, TypeOK
  <2>6. ASSUME NEW c \in Check \ lostAlert', c # d
        PROVE  AlertRecord(c)'
    <3>1. AlertRecord(c)
      BY <2>5 DEF InboxInv
    <3>2. QED
      BY <2>2, <2>4, <2>5, <2>6, <3>1, AlertRecordUnmoved
  <2>7. ASSUME d \notin lostAlert'
        PROVE  AlertRecord(d)'
    <3>1. /\ stateFile.alert[d] = base[r].alert[d]
          /\ \A q \in Runner \ {r} : ~UnsavedMail(q, d)
      BY <1>5, <2>1, <2>7, AlertSeesRecord
    <3>2. Agrees(state[r].alert[d], d)'
      BY <1>5, <2>1, <2>7, AlertAgrees
    <3>3. \A q \in Runner \ {r} : ~UnsavedMail(q, d)'
      BY <2>4, <3>1
    <3>4. Holding(r)'
      BY <1>5, <2>2, <2>3, <1>0 DEF MaybeAlert, Holding, Active, RealRun, TypeInv, PassOK
    <3>5. ~UnsavedMail(r, d)' => Agrees(stateFile.alert[d], d)'
      BY <2>2, <3>1, <3>2, <3>4 DEF UnsavedMail, Agrees
    <3>6. QED
      BY <2>2, <3>1, <3>2, <3>3, <3>5 DEF AlertRecord
  <2>8. RemindersNotEarly'
    <3>1. SUFFICES ASSUME NEW c \in Check \ lostAlert', NEW i \in DOMAIN mails'[c]
                   PROVE  InTurn(IF i = 1 THEN NoMail ELSE mails'[c][i - 1], mails'[c][i])
      BY DEF RemindersNotEarly, InTurn, NoMail
    <3>2. CASE c = d
      BY <1>5, <2>1, <3>1, <3>2, AlertAgrees
    <3>3. CASE c # d
      BY <2>5, <3>1, <3>3 DEF InboxInv, RemindersNotEarly
    <3>4. QED
      BY <3>2, <3>3
  <2>9. QED
    BY <2>6, <2>7, <2>8
<1>6. ASSUME NEW r \in Runner, Save(r), NEW c \in Check \ lostAlert'
      PROVE  AlertRecord(c)' /\ RemindersNotEarly'
  <2>0. RemindersNotEarly' /\ LastMail(c)' = LastMail(c)
    BY <1>6, <1>a DEF Save
  <2>1. /\ UNCHANGED mails /\ stateFile' = state[r] /\ Exit(r)
        /\ c \notin lostAlert /\ stateFile.alert[c] = base[r].alert[c]
    BY <1>6 DEF Save
  <2>2. AlertRecord(c)
    BY <2>1 DEF InboxInv
  <2>3. Holding(r)
    BY <1>6, <1>0 DEF Save, AlertsDone, Holding, Active, TypeInv, PassOK
  <2>4. CASE ~UnsavedMail(r, c)
    <3>1. stateFile'.alert[c] = stateFile.alert[c]
      BY <2>1, <2>3, <2>4 DEF UnsavedMail
    <3>2. QED
      BY <3>1, <2>0, <2>1, <2>2, <2>4, <1>0, AlertRecordExit
  <2>5. CASE UnsavedMail(r, c)
    <3>1. Agrees(stateFile.alert[c], c)'
      BY <2>0, <2>1, <2>2, <2>5 DEF AlertRecord, Agrees
    <3>2. ~UnsavedMail(r, c)'
      BY <2>1, <1>0 DEF Exit, UnsavedMail, Holding, Active, TypeInv, TypeOK
    <3>3. \A q \in Runner \ {r} : UnsavedMail(q, c)' <=> UnsavedMail(q, c)
      BY <2>1, <1>0 DEF Exit, UnsavedMail, Holding, Active, RealRun, TypeInv, TypeOK
    <3>4. \A q \in Runner : ~UnsavedMail(q, c)'
      BY <3>2, <3>3, <2>2, <2>5 DEF AlertRecord
    <3>5. QED
      BY <2>0, <3>1, <3>4 DEF AlertRecord
  <2>6. QED
    BY <2>4, <2>5
<1>7. ASSUME NEW r \in Runner, Kill(r)
      PROVE  Kept
  <2>1. UNCHANGED <<mails, stateFile>> /\ Exit(r) /\ lostAlert \subseteq lostAlert'
    BY <1>7 DEF Kill
  <2>2. \A c \in Check \ lostAlert' : ~UnsavedMail(r, c)
    BY <1>7 DEF Kill, UnsavedMail, Holding
  <2>3. QED
    BY <2>1, <2>2, <1>0, <1>a, AlertRecordExit DEF InboxInv
<1>8. ASSUME NEW r \in Runner, Save(r)
       PROVE  Kept
  BY <1>6, <1>8, <1>a DEF Save
<1>9. QED
  BY <1>0, <1>1, <1>2, <1>3, <1>4, <1>5, <1>7, <1>8 DEF Next, InboxInv

(* Unless its entry was lost or the last mail about it swallowed, the file  *)
(* calls a check bad exactly when the last mail about it asked for attention. *)
THEOREM InboxTheorem == Spec => []InboxMatchesFile
<1>1. Spec => []InboxInv
  BY InitInboxInv, NextInboxInv, PTL DEF Spec
<1>2. InboxInv => InboxMatchesFile
  BY DEF InboxInv, AlertRecord, Agrees, UnsavedMail, InboxMatchesFile, UnsavedAlert
<1>3. QED
  BY <1>1, <1>2, PTL

(* What a pass saves as bad and no pass has an unsaved copy of was asked    *)
(* attention for, less than Resend before that pass began.                  *)
LEMMA SavedInTime ==
  ASSUME InboxInv, InboxInv', StampedInTime
  PROVE  RemindersNotLate
<1>1. SUFFICES ASSUME NEW r \in Runner, AlertsDone(r), stateFile' = state[r],
                      NEW c \in Check \ lostAlert',
                      stateFile'.alert[c].last_status = "bad", ~UnsavedAlert(c)'
               PROVE  /\ LastMail(c)'.kind = "attention"
                      /\ now[r] - LastMail(c)'.at < Resend
  BY DEF RemindersNotLate
<1>2. Agrees(stateFile.alert[c], c)'
  BY <1>1 DEF InboxInv, AlertRecord, UnsavedMail, UnsavedAlert
<1>3. PICK i \in DOMAIN Order : c = Order[i]
  BY <1>1 DEF Check
<1>4. i < idx[r]
  BY <1>1, <1>3, OrderAssumption DEF AlertsDone, InboxInv, TypeInv, TypeOK
<1>5. now[r] - state[r].alert[c].last_alert_epoch < Resend
  BY <1>1, <1>3, <1>4 DEF StampedInTime, AlertsDone
<1>6. QED
  BY <1>1, <1>2, <1>5 DEF Agrees

(* Over all the mails about a check whose alert entry was not lost: none    *)
(* comes early, and no pass saves a check as bad that was not asked         *)
(* attention for in time.                                                   *)
THEOREM RemindersTheorem == Spec => RemindersOnTime
<1>1. Spec => [](InboxInv /\ StampedInTime)
  <2>1. InboxInv => TypeInv
    BY DEF InboxInv
  <2>2. QED
    BY <2>1, InitInboxInv, NextInboxInv, InitStamped, NextStamped, PTL DEF Spec
<1>2. InboxInv => RemindersNotEarly
  BY DEF InboxInv
<1>3. InboxInv /\ InboxInv' /\ StampedInTime => [RemindersNotLate]_vars
  BY SavedInTime
<1>4. QED
  BY <1>1, <1>2, <1>3, PTL DEF RemindersOnTime

=============================================================================
