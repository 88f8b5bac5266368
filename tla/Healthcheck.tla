----------------------------- MODULE Healthcheck ----------------------------
(***************************************************************************)
(* scripts/healthcheck: one run probes the service, reads the state file,  *)
(* mails when that says so, and replaces the state file.  The minute timer *)
(* runs it, one run at a time and killed after TimeoutStartSec; operators  *)
(* run it by hand, beside the timer.  There is no lock, and under set -e a *)
(* mail that cannot be sent ends the run before the state is written.      *)
(*                                                                         *)
(* HEALTHCHECK_EMAIL_TO is set and the host is the designated one: without *)
(* the first no mail is sent, without the second nothing is done.  Runs    *)
(* with --check-only change nothing and are left out.                      *)
(***************************************************************************)
EXTENDS Integers

CONSTANTS
  Runner,    \* who can run the script
  Timer,     \* the runner that is the timer's unit
  Resend,    \* HEALTHCHECK_RESEND_SEC, in timer periods
  RunLimit,  \* TimeoutStartSec, in timer periods
  MaxClock,  \* bound on the clock
  MaxRuns,   \* bound on the runs by hand
  MaxFlips   \* bound on the changes of the service

ASSUME TimerAssumption == Timer \in Runner

ASSUME TimeAssumption ==
  /\ Resend \in Nat \ {0} /\ RunLimit \in Nat \ {0}
  /\ MaxClock \in Nat /\ MaxRuns \in Nat /\ MaxFlips \in Nat

VARIABLES
  clock,     \* date +%s, in timer periods
  up,        \* whether the service answers
  state_file,
  pc,        \* where each run is
  now_epoch, \* when it began
  healthy,   \* what its probe found
  prev,      \* the state it read
  fired,     \* the timer fired in this period
  byHand,    \* runs by hand so far
  flips,     \* changes of the service so far
  inbox,     \* history: the last mail
  alarms,    \* history: the stamps of the UNHEALTHY mails
  stale,     \* history: runs whose state was replaced since they read it
  calmSince, \* history: since when nothing disturbed the reports
  lost       \* history: a mail or a state was lost

run == <<pc, now_epoch, healthy, prev>>
counters == <<byHand, flips>>
vars == <<clock, up, state_file, run, fired, counters, inbox, alarms, stale, calmSince, lost>>

Epoch == 0..MaxClock
State == [status: {"ok", "fail", "unknown"}, last_alert_epoch: Epoch]

\* read_state of a missing file.
NoState == [status |-> "unknown", last_alert_epoch |-> 0]

Goto(r, label) == pc' = [pc EXCEPT ![r] = label]

\* The process and its variables are gone.
Exit(r) ==
  /\ Goto(r, "idle")
  /\ now_epoch' = [now_epoch EXCEPT ![r] = 0]
  /\ healthy' = [healthy EXCEPT ![r] = FALSE]
  /\ prev' = [prev EXCEPT ![r] = NoState]

-----------------------------------------------------------------------------
(* One run.                                                                 *)

\* The timer fires once in each period, unless a run is still under way.
Begin(r) ==
  /\ pc[r] = "idle"
  /\ IF r = Timer
     THEN ~fired /\ fired' = TRUE /\ UNCHANGED byHand
     ELSE byHand < MaxRuns /\ byHand' = byHand + 1 /\ UNCHANGED fired
  /\ now_epoch' = [now_epoch EXCEPT ![r] = clock]
  /\ Goto(r, "probe")
  /\ UNCHANGED <<clock, up, state_file, healthy, prev, flips, inbox, alarms, stale, calmSince, lost>>

\* probe: systemctl, then curl.
Probe(r) ==
  /\ pc[r] = "probe"
  /\ healthy' = [healthy EXCEPT ![r] = up]
  /\ Goto(r, "read")
  /\ UNCHANGED <<counters, clock, up, state_file, now_epoch, prev, fired, inbox, alarms, stale, calmSince, lost>>

\* Mutant of Due: only a change of status is mailed.
DueOnChange(s, t) == s.status # "fail"

\* should_alert.
Due(s, t) == s.status # "fail" \/ t - s.last_alert_epoch >= Resend

\* Mutant of Subject: a recovery is not mailed.
SubjectWithoutRecovery(ok, s, t) == IF ~ok /\ Due(s, t) THEN "UNHEALTHY" ELSE "none"

\* The mail this run is to send, if any.
Subject(ok, s, t) ==
  IF ok THEN IF s.status = "fail" THEN "RECOVERED" ELSE "none"
  ELSE IF Due(s, t) THEN "UNHEALTHY" ELSE "none"

ReadState(r) ==
  /\ pc[r] = "read"
  /\ prev' = [prev EXCEPT ![r] = state_file]
  /\ Goto(r, IF Subject(healthy[r], state_file, now_epoch[r]) = "none" THEN "write" ELSE "mail")
  /\ stale' = stale \ {r}
  /\ UNCHANGED <<counters, clock, up, state_file, now_epoch, healthy, fired, inbox, alarms, calmSince, lost>>

\* send_mail.
SendMail(r) ==
  /\ pc[r] = "mail"
  /\ LET subject == Subject(healthy[r], prev[r], now_epoch[r]) IN
     /\ inbox' = subject
     /\ alarms' = IF subject = "UNHEALTHY" THEN alarms \cup {now_epoch[r]} ELSE alarms
  /\ calmSince' = IF healthy[r] = up THEN calmSince ELSE clock
  /\ Goto(r, "write")
  /\ UNCHANGED <<counters, clock, up, state_file, now_epoch, healthy, prev, fired, stale, lost>>

\* Mutant of NextState: the stamp is renewed without a mail.
NextStateRestamped(r) ==
  [status |-> IF healthy[r] THEN "ok" ELSE "fail", last_alert_epoch |-> now_epoch[r]]

\* The fields write_state is called with.
NextState(r) ==
  [status |-> IF healthy[r] THEN "ok" ELSE "fail",
   last_alert_epoch |->
     IF Subject(healthy[r], prev[r], now_epoch[r]) = "none"
     THEN prev[r].last_alert_epoch ELSE now_epoch[r]]

\* write_state: a temporary file and mv.  Another run's state is overwritten.
WriteState(r) ==
  /\ pc[r] = "write"
  /\ state_file' = NextState(r)
  /\ lost' = (lost \/ r \in stale)
  /\ stale' = {q \in Runner \ {r} : pc[q] \in {"mail", "write"}}
  /\ calmSince' = IF healthy[r] = up THEN calmSince ELSE clock
  /\ Exit(r)
  /\ UNCHANGED <<counters, clock, up, fired, inbox, alarms>>

\* A mail that was sent, and no state that says so.
MailUnrecorded(r) ==
  pc[r] = "write" /\ Subject(healthy[r], prev[r], now_epoch[r]) # "none"

\* set -e: sendmail failed, there is no mailer, or the disk is full.
Fail(r) ==
  /\ pc[r] \in {"mail", "write"}
  /\ lost' = (lost \/ MailUnrecorded(r))
  /\ stale' = stale \ {r}
  /\ calmSince' = clock
  /\ Exit(r)
  /\ UNCHANGED <<counters, clock, up, state_file, fired, inbox, alarms>>

-----------------------------------------------------------------------------

\* systemd's timeout, ^C or a reboot.
Kill(r) ==
  /\ pc[r] # "idle"
  /\ lost' = (lost \/ MailUnrecorded(r))
  /\ stale' = stale \ {r}
  /\ calmSince' = clock
  /\ Exit(r)
  /\ UNCHANGED <<counters, clock, up, state_file, fired, inbox, alarms>>

\* The service stops or comes back.
Flip ==
  /\ flips < MaxFlips
  /\ flips' = flips + 1
  /\ up' = ~up
  /\ calmSince' = clock
  /\ UNCHANGED <<byHand, clock, state_file, run, fired, inbox, alarms, stale, lost>>

\* A period ends.  systemd fires the timer in each and bounds its run.
Tick ==
  /\ clock < MaxClock
  /\ IF pc[Timer] = "idle" THEN fired ELSE clock - now_epoch[Timer] < RunLimit
  /\ clock' = clock + 1
  /\ fired' = FALSE
  /\ UNCHANGED <<counters, up, state_file, run, inbox, alarms, stale, calmSince, lost>>

Init ==
  /\ clock = 0
  /\ up \in BOOLEAN
  /\ state_file = NoState
  /\ pc = [r \in Runner |-> "idle"]
  /\ now_epoch = [r \in Runner |-> 0]
  /\ healthy = [r \in Runner |-> FALSE]
  /\ prev = [r \in Runner |-> NoState]
  /\ fired = FALSE
  /\ byHand = 0
  /\ flips = 0
  /\ inbox = "none"
  /\ alarms = {}
  /\ stale = {}
  /\ calmSince = 0
  /\ lost = FALSE

Next ==
  \/ \E r \in Runner :
       \/ Begin(r)
       \/ Probe(r)
       \/ ReadState(r)
       \/ SendMail(r)
       \/ WriteState(r)
       \/ Fail(r)
       \/ Kill(r)
  \/ Flip
  \/ Tick

Spec == Init /\ [][Next]_vars

-----------------------------------------------------------------------------
(* Properties.                                                              *)

(* Every variable keeps its type: the state file always parses.             *)
TypeOK ==
  /\ clock \in Epoch
  /\ up \in BOOLEAN
  /\ state_file \in State
  /\ pc \in [Runner -> {"idle", "probe", "read", "mail", "write"}]
  /\ now_epoch \in [Runner -> Epoch]
  /\ healthy \in [Runner -> BOOLEAN]
  /\ prev \in [Runner -> State]
  /\ fired \in BOOLEAN
  /\ byHand \in 0..MaxRuns
  /\ flips \in 0..MaxFlips
  /\ inbox \in {"none", "UNHEALTHY", "RECOVERED"}
  /\ alarms \subseteq Epoch
  /\ stale \subseteq Runner
  /\ calmSince \in Epoch
  /\ lost \in BOOLEAN

(* A state file that says "fail", which is what silences the next runs,     *)
(* carries the stamp of an UNHEALTHY mail that was really sent, whatever    *)
(* runs overlapped, failed or were killed.                                  *)
SilenceHasItsMail ==
  state_file.status = "fail" => state_file.last_alert_epoch \in alarms

Calm(n) == clock - calmSince > n

(* A service that stays down is reported, and reported again within every   *)
(* Resend: even after a killed run left a file that calls it reported, the  *)
(* last mail says UNHEALTHY once Resend and two runs have passed.           *)
FailureIsReported ==
  ~up /\ Calm(Resend + 2 * RunLimit) =>
    /\ inbox = "UNHEALTHY"
    /\ \E t \in alarms : clock - t <= Resend + 2 * RunLimit

(* A service that is back is reported back within two runs, unless a mail   *)
(* or a state was lost, or a run has yet to write down its mail: nothing    *)
(* ever repeats a recovery.                                                 *)
RecoveryIsReported ==
  up /\ ~lost /\ Calm(2 * RunLimit) /\ (\A r \in Runner : ~MailUnrecorded(r)) =>
    inbox # "UNHEALTHY"

=============================================================================
