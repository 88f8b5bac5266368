---------------------------- MODULE CatalogHeal ----------------------------
(***************************************************************************)
(* app/catalog_heal.py: passes that check a catalog, repair what drifted   *)
(* and mail an operator.  The flap protection and alert state lives in one *)
(* JSON file that a pass loads once, edits in memory and saves once, at    *)
(* its end.  Passes are run by the quarter-hourly systemd timer            *)
(* (catalog-heal --apply-cert, one at a time, killed after TimeoutStartSec)*)
(* and by operators at a terminal with any flags, concurrently, with no    *)
(* lock; any pass can be killed at any point (timeout, ^C, reboot).        *)
(*                                                                         *)
(* The clock counts abstract seconds and starts at an epoch later than any *)
(* interval, as time.time() does, so the zeros that stand for absent state *)
(* fields are far in the past.                                             *)
(***************************************************************************)
EXTENDS Integers, Sequences, FiniteSets

CONSTANTS
  Runner,       \* who can run a pass
  Timers,       \* the runners that are the systemd timer's unit
  Order,        \* the checks run_all returns, in catalog order: [service, dimension] records
  Cooldown,     \* --cooldown-sec
  Window,       \* --attempt-window-sec
  MaxAttempts,  \* --max-attempts
  Resend,       \* --resend-sec
  RunLimit,     \* TimeoutStartSec of the timer's unit
  StartClock,   \* the epoch time at which the model begins
  MaxClock,     \* bound on the clock
  MaxPasses     \* bound on the passes begun

Check == {Order[i] : i \in DOMAIN Order}

ASSUME RunnerAssumption == Timers \subseteq Runner

ASSUME OrderAssumption ==
  /\ Order \in Seq([service: STRING, dimension: STRING])
  /\ \A i, j \in DOMAIN Order : Order[i] = Order[j] => i = j

ASSUME TimeAssumption ==
  /\ Cooldown \in Nat \ {0} /\ Window \in Nat \ {0} /\ MaxAttempts \in Nat \ {0}
  /\ Resend \in Nat \ {0} /\ RunLimit \in Nat \ {0}
  /\ StartClock \in Nat /\ StartClock > Window /\ StartClock >= Resend
  /\ MaxClock \in Nat /\ MaxClock >= StartClock
  /\ MaxPasses \in Nat

VARIABLES
  clock,      \* time.time()
  stateFile,  \* the JSON state file
  pc,         \* where each runner's pass is
  flags,      \* apply_cert and apply_dns of the pass
  now,        \* the pass's one reading of the clock
  state,      \* the pass's working copy of the state file
  idx,        \* the check its loop is at
  results,    \* whether the action each check ended in is alert-worthy
  begun,      \* passes begun so far
  base,       \* history: the file as the pass loaded it
  ledger,     \* history: what a durable record of the attempts would hold
  lost,       \* history: checks with an attempt no record kept or no decision saw
  lostAlert,  \* history: the same for alert entries
  mails       \* history: every mail _send_alert was asked for, by check

passVars == <<pc, flags, now, state, idx, results, base>>
histVars == <<begun, ledger, lost, lostAlert, mails>>
vars == <<clock, stateFile, passVars, histVars>>

-----------------------------------------------------------------------------
(* The state file and the passes.                                           *)

Epoch == 0..MaxClock
Actionable == {"cert", "dns"}

\* HealStepResult.action, as far as _maybe_alert tells the values apart:
\* _ALERT_WORTHY_ACTIONS are bad.
Result ==
  [ok |-> "good", skip |-> "good", would_heal |-> "good", healed |-> "good",
   alert_only |-> "bad", cooldown |-> "bad", failed |-> "bad"]

Entry == [window_start_epoch: Epoch, attempts: Nat, last_attempt_epoch: Epoch]
AlertEntry == [last_status: {"none", "good", "bad"}, last_alert_epoch: Epoch]
State == [heal: [Check -> Entry], alert: [Check -> AlertEntry]]

\* at is the start of the pass that sent it; what has not arrived never will.
Mail == [kind: {"attention", "recovered"}, at: Epoch, arrived: BOOLEAN]

NoEntry == [window_start_epoch |-> 0, attempts |-> 0, last_attempt_epoch |-> 0]
NoAlert == [last_status |-> "none", last_alert_epoch |-> 0]

\* _load_state of a missing file: every .get falls back to its default.
EmptyState ==
  [heal |-> [c \in Check |-> NoEntry], alert |-> [c \in Check |-> NoAlert]]

Flags == [cert: BOOLEAN, dns: BOOLEAN]

\* The unit's ExecStart passes --apply-cert and nothing else.
FlagsOf(r) == IF r \in Timers THEN {[cert |-> TRUE, dns |-> FALSE]} ELSE Flags

RealRun(r) == flags[r].cert \/ flags[r].dns
DimensionApply(r, c) == IF c.dimension = "cert" THEN flags[r].cert ELSE flags[r].dns
Authorised(r, c) == c.dimension \in Actionable /\ RealRun(r) /\ DimensionApply(r, c)

NoFlags == [cert |-> FALSE, dns |-> FALSE]
NoResults == [c \in Check |-> "good"]

Active(r) == pc[r] # "idle"
\* A pass that has loaded the file and will save it.
Holding(r) == Active(r) /\ RealRun(r)

\* The process ends, and its memory with it.
Exit(r) ==
  /\ pc' = [pc EXCEPT ![r] = "idle"]
  /\ flags' = [flags EXCEPT ![r] = NoFlags]
  /\ now' = [now EXCEPT ![r] = 0]
  /\ state' = [state EXCEPT ![r] = EmptyState]
  /\ base' = [base EXCEPT ![r] = EmptyState]
  /\ idx' = [idx EXCEPT ![r] = 1]
  /\ results' = [results EXCEPT ![r] = NoResults]

-----------------------------------------------------------------------------
(* Flap protection: lines 185-209.                                          *)

WindowOver(e, t) == t - e.window_start_epoch > Window
AttemptsIn(e, t) == IF WindowOver(e, t) THEN 0 ELSE e.attempts

\* Mutant of CoolingDown: the cooldown ends a second early.
CoolingDownShort(e, t) ==
  e.last_attempt_epoch # 0 /\ t - e.last_attempt_epoch < Cooldown - 1

CoolingDown(e, t) ==
  e.last_attempt_epoch # 0 /\ t - e.last_attempt_epoch < Cooldown

\* Mutant of Blocked: the cap on attempts is forgotten.
BlockedWithoutCap(e, t) == CoolingDown(e, t)

Blocked(e, t) == CoolingDown(e, t) \/ AttemptsIn(e, t) >= MaxAttempts

Attempted(e, t) ==
  [window_start_epoch |-> IF WindowOver(e, t) THEN t ELSE e.window_start_epoch,
   attempts           |-> AttemptsIn(e, t) + 1,
   last_attempt_epoch |-> t]

-----------------------------------------------------------------------------
(* One pass.                                                                *)

\* heal_catalog up to its loop: run_all's findings are arbitrary and are
\* drawn where each is used; the file is loaded by a real run only.
Begin(r) ==
  /\ pc[r] = "idle"
  /\ begun < MaxPasses
  /\ begun' = begun + 1
  /\ \E f \in FlagsOf(r) :
       LET loaded == IF f.cert \/ f.dns THEN stateFile ELSE EmptyState IN
       /\ flags' = [flags EXCEPT ![r] = f]
       /\ state' = [state EXCEPT ![r] = loaded]
       /\ base' = [base EXCEPT ![r] = loaded]
  /\ now' = [now EXCEPT ![r] = clock]
  /\ pc' = [pc EXCEPT ![r] = "heal"]
  /\ UNCHANGED <<clock, stateFile, idx, results, ledger, lost, lostAlert, mails>>

Current(r) == Order[idx[r]]

\* The result of the current check is known; the loop goes on.
Record(r, action) ==
  /\ results' = [results EXCEPT ![r][Current(r)] = action]
  /\ idx' = [idx EXCEPT ![r] = @ + 1]

AtCheck(r) == pc[r] = "heal" /\ idx[r] <= Len(Order)

\* _heal_one's returns that attempt nothing.
Report(r) ==
  /\ AtCheck(r)
  /\ LET c == Current(r) IN
     \/ Record(r, Result.ok)
     \/ Record(r, Result.skip)
     \/ /\ c.dimension \notin Actionable \/ (RealRun(r) /\ ~DimensionApply(r, c))
        /\ Record(r, Result.alert_only)
     \/ /\ c.dimension \in Actionable /\ ~RealRun(r)
        /\ Record(r, Result.would_heal)
     \/ /\ Authorised(r, c)
        /\ Blocked(state[r].heal[c], now[r])
        /\ Record(r, Result.cooldown)
  /\ UNCHANGED <<clock, stateFile, pc, flags, now, state, base, histVars>>

\* Another pass holds a change to c's entry that it has not saved, or saved
\* one after r loaded the file: r decides on a stale copy.
StaleHeal(r, c) ==
  \/ stateFile.heal[c] # base[r].heal[c]
  \/ \E q \in Runner \ {r} : Holding(q) /\ state[q].heal[c] # base[q].heal[c]

\* The attempt is charged in memory and the slow part of it (certbot, the
\* Cloudflare API) begins.
BeginAttempt(r) ==
  /\ AtCheck(r)
  /\ LET c == Current(r)
         e == state[r].heal[c] IN
     /\ Authorised(r, c)
     /\ ~Blocked(e, now[r])
     /\ state' = [state EXCEPT ![r].heal[c] = Attempted(e, now[r])]
     /\ ledger' = [ledger EXCEPT ![c] = Attempted(@, now[r])]
     /\ lost' = IF StaleHeal(r, c) THEN lost \cup {c} ELSE lost
  /\ pc' = [pc EXCEPT ![r] = "attempt"]
  /\ UNCHANGED <<clock, stateFile, flags, now, idx, results, base, begun, lostAlert, mails>>

\* _heal_cert and _heal_dns: what ensure_cert or sync_dns_record reported.
FinishAttempt(r) ==
  /\ pc[r] = "attempt"
  /\ \E action \in {Result.healed, Result.skip, Result.failed} : Record(r, action)
  /\ pc' = [pc EXCEPT ![r] = "heal"]
  /\ UNCHANGED <<clock, stateFile, flags, now, state, base, histVars>>

\* A dry run ends here; a real run goes over its results again.
EndHealing(r) ==
  /\ pc[r] = "heal" /\ idx[r] > Len(Order)
  /\ \/ /\ ~RealRun(r)
        /\ Exit(r)
     \/ /\ RealRun(r)
        /\ pc' = [pc EXCEPT ![r] = "alert"]
        /\ idx' = [idx EXCEPT ![r] = 1]
        /\ UNCHANGED <<flags, now, state, results, base>>
  /\ UNCHANGED <<clock, stateFile, histVars>>

-----------------------------------------------------------------------------
(* _maybe_alert and _save_state.                                            *)

IsBad(r, c) == results[r][c] = "bad"
WasBad(e) == e.last_status = "bad"

\* Mutant of DueForResend: a reminder is due a second late.
DueForResendLate(e, t) == t - e.last_alert_epoch > Resend

DueForResend(e, t) == t - e.last_alert_epoch >= Resend

\* Mutant of MailFor: a recovery is not reported.
MailForWithoutRecovery(r, c) ==
  IF IsBad(r, c) /\ (~WasBad(state[r].alert[c]) \/ DueForResend(state[r].alert[c], now[r]))
  THEN "attention" ELSE "none"

\* "none": no mail for this result.
MailFor(r, c) ==
  LET e == state[r].alert[c] IN
  IF IsBad(r, c)
  THEN IF WasBad(e) /\ ~DueForResend(e, now[r]) THEN "none" ELSE "attention"
  ELSE IF WasBad(e) THEN "recovered" ELSE "none"

StaleAlert(r, c) ==
  \/ stateFile.alert[c] # base[r].alert[c]
  \/ \E q \in Runner \ {r} : Holding(q) /\ state[q].alert[c] # base[q].alert[c]

\* What the pass leaves of c's entry, whether or not its mail went.
Stamped(r, c) ==
  [last_status      |-> IF IsBad(r, c) THEN "bad" ELSE "good",
   last_alert_epoch |-> IF MailFor(r, c) = "attention"
                        THEN now[r] ELSE state[r].alert[c].last_alert_epoch]

\* _send_alert: nothing is sent without a recipient or a ready relay, and a
\* send that raises is swallowed.  The caller is not told.
SendAlert(r, c) ==
  \E arrived \in BOOLEAN :
    mails' = [mails EXCEPT ![c] =
                Append(@, [kind |-> MailFor(r, c), at |-> now[r], arrived |-> arrived])]

\* The loop over the results, one of them: a send can take as long as the
\* relay lets it, and other passes run meanwhile.
MaybeAlert(r) ==
  /\ pc[r] = "alert" /\ idx[r] <= Len(Order)
  /\ LET c == Current(r) IN
     /\ state' = [state EXCEPT ![r].alert[c] = Stamped(r, c)]
     /\ IF MailFor(r, c) = "none" THEN UNCHANGED mails ELSE SendAlert(r, c)
     /\ lostAlert' = IF StaleAlert(r, c) THEN lostAlert \cup {c} ELSE lostAlert
  /\ idx' = [idx EXCEPT ![r] = @ + 1]
  /\ UNCHANGED <<clock, stateFile, pc, flags, now, results, base, begun, ledger, lost>>

AlertsDone(r) == pc[r] = "alert" /\ idx[r] > Len(Order)

\* The whole file is replaced by the pass's copy (a rename: readers see the
\* old content or the new).  What another pass saved since is overwritten.
Save(r) ==
  /\ AlertsDone(r)
  /\ stateFile' = state[r]
  /\ Exit(r)
  /\ lost' = lost \cup {c \in Check : stateFile.heal[c] # base[r].heal[c]}
  /\ lostAlert' = lostAlert \cup {c \in Check : stateFile.alert[c] # base[r].alert[c]}
  /\ UNCHANGED <<clock, begun, ledger, mails>>

\* systemd's timeout, ^C, a reboot: the copy in memory is gone.
Kill(r) ==
  /\ Active(r)
  /\ Exit(r)
  /\ lost' = lost \cup {c \in Check : RealRun(r) /\ state[r].heal[c] # base[r].heal[c]}
  /\ lostAlert' =
       lostAlert \cup {c \in Check : RealRun(r) /\ state[r].alert[c] # base[r].alert[c]}
  /\ UNCHANGED <<clock, stateFile, begun, ledger, mails>>

\* The timer's unit is killed no later than TimeoutStartSec after its start.
Tick ==
  /\ clock < MaxClock
  /\ \A r \in Timers : Active(r) => clock - now[r] < RunLimit
  /\ clock' = clock + 1
  /\ UNCHANGED <<stateFile, passVars, histVars>>

-----------------------------------------------------------------------------

Init ==
  /\ clock = StartClock
  /\ stateFile = EmptyState
  /\ pc = [r \in Runner |-> "idle"]
  /\ flags = [r \in Runner |-> NoFlags]
  /\ now = [r \in Runner |-> 0]
  /\ state = [r \in Runner |-> EmptyState]
  /\ base = [r \in Runner |-> EmptyState]
  /\ idx = [r \in Runner |-> 1]
  /\ results = [r \in Runner |-> NoResults]
  /\ begun = 0
  /\ ledger = [c \in Check |-> NoEntry]
  /\ lost = {}
  /\ lostAlert = {}
  /\ mails = [c \in Check |-> <<>>]

Next ==
  \/ Tick
  \/ \E r \in Runner :
       \/ Begin(r)
       \/ Report(r)
       \/ BeginAttempt(r)
       \/ FinishAttempt(r)
       \/ EndHealing(r)
       \/ MaybeAlert(r)
       \/ Save(r)
       \/ Kill(r)

Spec == Init /\ [][Next]_vars

-----------------------------------------------------------------------------
(* Properties.                                                              *)

(* Every variable keeps its type: the JSON file and the passes' copies of   *)
(* it always hold well-formed entries, whatever overwrote or lost them.     *)
TypeOK ==
  /\ clock \in Epoch
  /\ stateFile \in State
  /\ pc \in [Runner -> {"idle", "heal", "attempt", "alert"}]
  /\ flags \in [Runner -> Flags]
  /\ now \in [Runner -> Epoch]
  /\ state \in [Runner -> State]
  /\ base \in [Runner -> State]
  /\ idx \in [Runner -> 1..(Len(Order) + 1)]
  /\ results \in [Runner -> [Check -> {"good", "bad"}]]
  /\ begun \in 0..MaxPasses
  /\ ledger \in [Check -> Entry]
  /\ lost \subseteq Check
  /\ lostAlert \subseteq Check
  /\ mails \in [Check -> Seq(Mail)]

(* heal_max_attempts_per_window as the code keeps it: a window never counts *)
(* more attempts than the cap, unless an attempt of that check was lost     *)
(* with a killed pass, overwritten by a pass that loaded before it, or made *)
(* by a pass that had not seen the others'.  The ledger is what was really  *)
(* attempted, not what the file says.                                       *)
BudgetKept ==
  \A c \in Check \ lost :
    /\ ledger[c].attempts <= MaxAttempts
    /\ ledger[c].last_attempt_epoch - ledger[c].window_start_epoch <= Window

UnsavedAlert(c) == \E r \in Runner : Holding(r) /\ state[r].alert[c] # base[r].alert[c]

NoMail == [kind |-> "none", at |-> 0, arrived |-> TRUE]
LastMail(c) == IF mails[c] = <<>> THEN NoMail ELSE mails[c][Len(mails[c])]

(* The operator's inbox and the file agree: unless an alert entry was lost, *)
(* or the last mail about the check was swallowed, a check the file calls   *)
(* bad is one whose last mail asked for attention, and a check it calls     *)
(* good is one never mailed about or reported back.                         *)
InboxMatchesFile ==
  \A c \in Check \ lostAlert :
    ~UnsavedAlert(c) /\ LastMail(c).arrived =>
      (stateFile.alert[c].last_status = "bad" <=> LastMail(c).kind = "attention")

\* Two mails about one check with none between them: a reminder keeps its
\* distance, a recovery answers a call for attention.
InTurn(first, second) ==
  IF second.kind = "attention"
  THEN first.kind = "attention" => second.at - first.at >= Resend
  ELSE first.kind = "attention"

RemindersNotEarly ==
  \A c \in Check \ lostAlert : \A i \in DOMAIN mails[c] :
    InTurn(IF i = 1 THEN NoMail ELSE mails[c][i - 1], mails[c][i])

RemindersNotLate ==
  \A r \in Runner : AlertsDone(r) /\ stateFile' = state[r] /\ ~Active(r)' =>
    \A c \in Check \ lostAlert' :
      stateFile'.alert[c].last_status = "bad" /\ ~UnsavedAlert(c)' =>
        /\ LastMail(c)'.kind = "attention"
        /\ now[r] - LastMail(c)'.at < Resend

(* Over every mail the passes ever sent, one pass after the other or        *)
(* overlapping, about a check whose alert entry was not lost: no reminder   *)
(* comes within Resend of the call before it and no recovery of what was    *)
(* not reported failing; and a pass that saves a check as bad leaves a call *)
(* for attention, its own or an earlier pass's, less than Resend older than *)
(* itself.  A call that was swallowed is so tried again after Resend.       *)
RemindersOnTime == []RemindersNotEarly /\ [][RemindersNotLate]_vars

\* The ledger as HealBudget names it.
AsAccount(e) ==
  [start |-> e.window_start_epoch, count |-> e.attempts, last |-> e.last_attempt_epoch]

Budget == INSTANCE HealBudget WITH
  Key <- Check,
  ledger <- [c \in Check |-> AsAccount(ledger[c])],
  excused <- lost

(* The passes implement the abstract budget: each attempt respects the      *)
(* cooldown and the cap counted over every attempt ever made, except for    *)
(* the checks whose record was lost.                                        *)
ImplementsHealBudget == Budget!Spec

(* What catalog_health_settings.py says of heal_max_attempts_per_window: a  *)
(* hard cap on real heal attempts per service+dimension per window, "so a   *)
(* persistently broken check can't burn Let's Encrypt's issuance rate       *)
(* limit".  Nothing is excused.                                             *)
HardCap == \A c \in Check : ledger[c].attempts <= MaxAttempts

=============================================================================
