------------------------- MODULE HostScripts_proofs -------------------------
(***************************************************************************)
(* Theorems about the two programs that run on the host beside the web     *)
(* application, for any processes, intervals and bounds.                   *)
(*                                                                         *)
(* Healthcheck: the types, that a silencing state file always has its      *)
(* mail, and the times within which a failure and a recovery are reported. *)
(*                                                                         *)
(* ClientPki: that no device is cut off, that hints and backups are        *)
(* complete, and that the store forgets nothing.                           *)
(***************************************************************************)
EXTENDS Healthcheck, ClientPki, TLAPS

\* What a run has read and done so far agrees with the mails sent.
RunAgrees(r) ==
  /\ prev[r].status = "fail" => prev[r].last_alert_epoch \in alarms
  /\ pc[r] = "mail" => Subject(healthy[r], prev[r], now_epoch[r]) # "none"
  /\ MailUnrecorded(r) /\ ~healthy[r] => now_epoch[r] \in alarms

IInv == TypeOK /\ SilenceHasItsMail /\ \A r \in Runner : RunAgrees(r)

(* The subject is one of three words.                                       *)
LEMMA Subjects ==
  ASSUME NEW ok, NEW s, NEW t
  PROVE  /\ Subject(ok, s, t) \in {"none", "UNHEALTHY", "RECOVERED"}
         /\ ~ok /\ Subject(ok, s, t) # "none" => Subject(ok, s, t) = "UNHEALTHY"
         /\ ~ok /\ Subject(ok, s, t) = "none" => s.status = "fail"
BY DEF Subject, Due

(* The state begins well-typed.                                             *)
LEMMA InitInv == Init => IInv
<1> SUFFICES ASSUME Init PROVE IInv
  OBVIOUS
<1>1. 0 \in Epoch /\ 0 \in 0..MaxRuns /\ 0 \in 0..MaxFlips
  BY TimeAssumption DEF Epoch
<1>2. NoState \in State
  BY <1>1 DEF NoState, State
<1>3. TypeOK
  BY <1>1, <1>2 DEF Init, TypeOK
<1>4. SilenceHasItsMail /\ \A r \in Runner : RunAgrees(r)
  BY DEF Init, SilenceHasItsMail, RunAgrees, MailUnrecorded, NoState
<1> QED
  BY <1>3, <1>4 DEF IInv

(* Every step keeps the types.                                              *)
LEMMA TypeStep == TypeOK /\ [Next]_vars => TypeOK'
<1> SUFFICES ASSUME TypeOK, [Next]_vars PROVE TypeOK'
  OBVIOUS
<1> USE TimerAssumption, TimeAssumption DEF TypeOK, Epoch
<1> NoState \in State
  BY DEF NoState, State
<1>1. ASSUME NEW r \in Runner, Begin(r) PROVE TypeOK'
  <2>1. byHand' \in 0..MaxRuns
    BY <1>1 DEF Begin
  <2>2. fired' \in BOOLEAN
    BY <1>1 DEF Begin
  <2> QED
    BY <1>1, <2>1, <2>2 DEF Begin, Goto
<1>2. ASSUME NEW r \in Runner, Probe(r) PROVE TypeOK'
  BY <1>2 DEF Probe, Goto, counters
<1>3. ASSUME NEW r \in Runner, ReadState(r) PROVE TypeOK'
  BY <1>3 DEF ReadState, Goto, counters
<1>4. ASSUME NEW r \in Runner, SendMail(r) PROVE TypeOK'
  <2>1. inbox' \in {"none", "UNHEALTHY", "RECOVERED"}
    BY <1>4, Subjects DEF SendMail
  <2>2. alarms' \subseteq Epoch
    BY <1>4 DEF SendMail
  <2> QED
    BY <1>4, <2>1, <2>2 DEF SendMail, Goto, counters
<1>5. ASSUME NEW r \in Runner, WriteState(r) PROVE TypeOK'
  <2>1. NextState(r) \in State
    BY DEF NextState, State
  <2> QED
    BY <1>5, <2>1 DEF WriteState, Exit, Goto, counters
<1>6. ASSUME NEW r \in Runner, Fail(r) PROVE TypeOK'
  BY <1>6 DEF Fail, Exit, Goto, MailUnrecorded, counters
<1>7. ASSUME NEW r \in Runner, Kill(r) PROVE TypeOK'
  BY <1>7 DEF Kill, Exit, Goto, MailUnrecorded, counters
<1>8. CASE Flip
  BY <1>8 DEF Flip, run
<1>9. CASE Tick
  <2>1. clock' \in 0..MaxClock
    BY <1>9 DEF Tick
  <2> QED
    BY <1>9, <2>1 DEF Tick, run, counters
<1>10. CASE UNCHANGED vars
  BY <1>10 DEF vars, run, counters
<1> QED
  BY <1>1, <1>2, <1>3, <1>4, <1>5, <1>6, <1>7, <1>8, <1>9, <1>10 DEF Next

(* Every step keeps the file and the runs in agreement with the mails.      *)
LEMMA AgreementStep ==
  IInv /\ [Next]_vars => SilenceHasItsMail' /\ \A q \in Runner : RunAgrees(q)'
<1> SUFFICES ASSUME IInv, [Next]_vars
             PROVE  SilenceHasItsMail' /\ \A q \in Runner : RunAgrees(q)'
  OBVIOUS
<1> USE DEF IInv, TypeOK, SilenceHasItsMail, RunAgrees, MailUnrecorded
<1>1. ASSUME NEW r \in Runner, Begin(r)
      PROVE  SilenceHasItsMail' /\ \A q \in Runner : RunAgrees(q)'
  BY <1>1 DEF Begin, Goto
<1>2. ASSUME NEW r \in Runner, Probe(r)
      PROVE  SilenceHasItsMail' /\ \A q \in Runner : RunAgrees(q)'
  BY <1>2 DEF Probe, Goto
<1>3. ASSUME NEW r \in Runner, ReadState(r)
      PROVE  SilenceHasItsMail' /\ \A q \in Runner : RunAgrees(q)'
  BY <1>3 DEF ReadState, Goto
<1>4. ASSUME NEW r \in Runner, SendMail(r)
      PROVE  SilenceHasItsMail' /\ \A q \in Runner : RunAgrees(q)'
  <2>1. alarms \subseteq alarms'
    BY <1>4 DEF SendMail
  <2>2. ~healthy[r] => now_epoch[r] \in alarms'
    <3>1. PICK subject : /\ subject = Subject(healthy[r], prev[r], now_epoch[r])
                         /\ alarms' = IF subject = "UNHEALTHY"
                                      THEN alarms \cup {now_epoch[r]} ELSE alarms
      BY <1>4 DEF SendMail
    <3>2. subject # "none"
      BY <1>4, <3>1 DEF SendMail
    <3> QED
      BY <3>1, <3>2, Subjects
  <2> QED
    BY <1>4, <2>1, <2>2 DEF SendMail, Goto
<1>5. ASSUME NEW r \in Runner, WriteState(r)
      PROVE  SilenceHasItsMail' /\ \A q \in Runner : RunAgrees(q)'
  <2>1. SilenceHasItsMail'
    BY <1>5, Subjects DEF WriteState, NextState
  <2>2. \A q \in Runner : RunAgrees(q)'
    BY <1>5 DEF WriteState, Exit, Goto, NoState
  <2> QED
    BY <2>1, <2>2
<1>6. ASSUME NEW r \in Runner, Fail(r) \/ Kill(r)
      PROVE  SilenceHasItsMail' /\ \A q \in Runner : RunAgrees(q)'
  BY <1>6 DEF Fail, Kill, Exit, Goto, NoState
<1>7. CASE Flip \/ Tick \/ UNCHANGED vars
  BY <1>7 DEF Flip, Tick, vars, run
<1> QED
  BY <1>1, <1>2, <1>3, <1>4, <1>5, <1>6, <1>7 DEF Next

(* Every reachable state satisfies the inductive invariant.                 *)
THEOREM Invariance == Spec => []IInv
<1>1. IInv /\ [Next]_vars => IInv'
  BY TypeStep, AgreementStep DEF IInv
<1> QED
  BY InitInv, <1>1, PTL DEF Spec

(* The state file always parses, and every variable keeps its type.         *)
THEOREM TypeCorrect == Spec => []TypeOK
<1>1. IInv => TypeOK
  BY DEF IInv
<1> QED
  BY Invariance, <1>1, PTL

(* No run, however it ends or overlaps others, leaves a file that silences  *)
(* the next ones without the mail that justifies it.                        *)
THEOREM SilenceTheorem == Spec => []SilenceHasItsMail
<1>1. IInv => SilenceHasItsMail
  BY DEF IInv
<1> QED
  BY Invariance, <1>1, PTL

-----------------------------------------------------------------------------
(* The reporting times.  What a disturbance leaves behind, the next run of  *)
(* the timer that begins after it puts right; so the invariant says since   *)
(* when such a run must have come to its end.                               *)

Running == pc[Timer] # "idle"

\* A run of the timer has ended that did not begin before.
Covered == IF Running THEN now_epoch[Timer] - RunLimit
           ELSE IF fired THEN clock ELSE clock - RunLimit

\* No stamp is in the future, and the timer's run is within its limit.
ClockInv ==
  /\ calmSince <= clock
  /\ state_file.last_alert_epoch <= clock
  /\ \A r \in Runner : now_epoch[r] <= clock /\ prev[r].last_alert_epoch <= clock
  /\ Running => clock - now_epoch[Timer] <= RunLimit
  /\ Running /\ fired => now_epoch[Timer] = clock

\* While the service is down every mail says so; as long as there was none,
\* the stamps are older than the last disturbance.
OldStamps ==
  ~up /\ inbox # "UNHEALTHY" =>
    /\ state_file.last_alert_epoch <= calmSince
    /\ \A r \in Runner : /\ prev[r].last_alert_epoch <= calmSince
                         /\ MailUnrecorded(r) => now_epoch[r] <= calmSince

\* What the timer's run knows, if it began after the last disturbance.
TimerInv ==
  Running /\ now_epoch[Timer] > calmSince =>
    /\ pc[Timer] # "probe" => healthy[Timer] = up
    /\ ~up /\ pc[Timer] = "write" =>
         /\ \E t \in alarms : now_epoch[Timer] - t < Resend
         /\ now_epoch[Timer] >= calmSince + Resend => inbox = "UNHEALTHY"

\* What it leaves behind, and nothing but a disturbance changes.
CoveredInv ==
  Covered > calmSince =>
    IF up THEN state_file.status # "fail"
    ELSE /\ \E t \in alarms : Covered - t < Resend
         /\ Covered >= calmSince + Resend => inbox = "UNHEALTHY"

Unrecorded == {r \in Runner : MailUnrecorded(r)}

\* As long as nothing is lost, the inbox agrees with the file, or with the
\* one run that has mailed and is about to write.
MailInv ==
  ~lost =>
    /\ Unrecorded = {} => (inbox = "UNHEALTHY" <=> state_file.status = "fail")
    /\ \A r \in Runner \ stale :
         Unrecorded = {r} => inbox = Subject(healthy[r], prev[r], now_epoch[r])

StaleInv ==
  \A r \in Runner \ stale : pc[r] \in {"mail", "write"} => prev[r] = state_file

ReportInv ==
  ClockInv /\ OldStamps /\ TimerInv /\ CoveredInv /\ StaleInv /\ MailInv

(* The invariant holds before the first run.                                *)
LEMMA ReportInit == Init => ReportInv
<1> SUFFICES ASSUME Init PROVE ReportInv
  OBVIOUS
<1> USE TimeAssumption, TimerAssumption DEF Init, NoState
<1>1. ClockInv /\ OldStamps /\ TimerInv
  BY DEF ClockInv, OldStamps, TimerInv, Running, MailUnrecorded
<1>2. CoveredInv
  BY DEF CoveredInv, Covered, Running
<1>3. StaleInv
  BY DEF StaleInv
<1>4. MailInv
  <2>1. inbox # "UNHEALTHY" /\ state_file.status # "fail"
    OBVIOUS
  <2>2. Unrecorded = {}
    BY DEF Unrecorded, MailUnrecorded
  <2> QED
    BY <2>1, <2>2 DEF MailInv
<1> QED
  BY <1>1, <1>2, <1>3, <1>4 DEF ReportInv

(* Every step keeps stamps out of the future.                               *)
LEMMA ClockStep == IInv /\ ReportInv /\ [Next]_vars => ClockInv'
<1> SUFFICES ASSUME IInv, ReportInv, [Next]_vars PROVE ClockInv'
  OBVIOUS
<1> USE TimerAssumption, TimeAssumption DEF ReportInv, ClockInv, IInv, TypeOK, Epoch, State, Running
<1>1. ASSUME NEW r \in Runner, Begin(r) PROVE ClockInv'
  BY <1>1 DEF Begin, Goto
<1>2. ASSUME NEW r \in Runner, Probe(r) PROVE ClockInv'
  BY <1>2 DEF Probe, Goto
<1>3. ASSUME NEW r \in Runner, ReadState(r) PROVE ClockInv'
  BY <1>3 DEF ReadState, Goto
<1>4. ASSUME NEW r \in Runner, SendMail(r) PROVE ClockInv'
  BY <1>4 DEF SendMail, Goto
<1>5. ASSUME NEW r \in Runner, WriteState(r) PROVE ClockInv'
  BY <1>5 DEF WriteState, NextState, Exit, Goto, NoState
<1>6. ASSUME NEW r \in Runner, Fail(r) \/ Kill(r) PROVE ClockInv'
  BY <1>6 DEF Fail, Kill, Exit, Goto, NoState
<1>7. CASE Flip
  BY <1>7 DEF Flip, run
<1>8. CASE Tick
  BY <1>8 DEF Tick, run
<1>9. CASE UNCHANGED vars
  BY <1>9 DEF vars, run
<1> QED
  BY <1>1, <1>2, <1>3, <1>4, <1>5, <1>6, <1>7, <1>8, <1>9 DEF Next

(* Every step keeps the stamps old until a mail says that the service is    *)
(* down.                                                                    *)
LEMMA OldStampsStep == IInv /\ ReportInv /\ [Next]_vars => OldStamps'
<1> SUFFICES ASSUME IInv, ReportInv, [Next]_vars PROVE OldStamps'
  OBVIOUS
<1> USE TimeAssumption DEF ReportInv, OldStamps, ClockInv, IInv, TypeOK, Epoch, State, MailUnrecorded
<1>1. ASSUME NEW r \in Runner, Begin(r) PROVE OldStamps'
  BY <1>1 DEF Begin, Goto
<1>2. ASSUME NEW r \in Runner, Probe(r) PROVE OldStamps'
  BY <1>2 DEF Probe, Goto
<1>3. ASSUME NEW r \in Runner, ReadState(r) PROVE OldStamps'
  BY <1>3 DEF ReadState, Goto
<1>4. ASSUME NEW r \in Runner, SendMail(r) PROVE OldStamps'
  <2>1. Subject(healthy[r], prev[r], now_epoch[r]) # "none"
    BY <1>4 DEF SendMail, RunAgrees
  <2>2. ~healthy[r] => inbox' = "UNHEALTHY"
    BY <1>4, <2>1, Subjects DEF SendMail
  <2> QED
    BY <1>4, <2>2 DEF SendMail, Goto
<1>5. ASSUME NEW r \in Runner, WriteState(r) PROVE OldStamps'
  <2> SUFFICES ASSUME ~up, inbox # "UNHEALTHY" PROVE OldStamps'
    BY <1>5 DEF WriteState
  <2>1. calmSince' \in 0..MaxClock /\ calmSince <= calmSince'
    BY <1>5 DEF WriteState
  <2>2. /\ state_file'.last_alert_epoch = IF MailUnrecorded(r) THEN now_epoch[r]
                                          ELSE prev[r].last_alert_epoch
    BY <1>5 DEF WriteState, NextState
  <2>3. state_file'.last_alert_epoch <= calmSince'
    BY <2>1, <2>2
  <2>4. ASSUME NEW q \in Runner
        PROVE  /\ prev'[q].last_alert_epoch <= calmSince'
               /\ MailUnrecorded(q)' => now_epoch'[q] <= calmSince'
    <3>1. CASE q = r
      BY <1>5, <2>1, <3>1 DEF WriteState, Exit, Goto, NoState
    <3>2. CASE q # r
      BY <1>5, <2>1, <3>2 DEF WriteState, Exit, Goto
    <3> QED
      BY <3>1, <3>2
  <2> QED
    BY <2>3, <2>4
<1>6. ASSUME NEW r \in Runner, Fail(r) \/ Kill(r) PROVE OldStamps'
  BY <1>6 DEF Fail, Kill, Exit, Goto, NoState
<1>7. CASE Flip
  BY <1>7 DEF Flip, run
<1>8. CASE Tick \/ UNCHANGED vars
  BY <1>8 DEF Tick, vars, run
<1> QED
  BY <1>1, <1>2, <1>3, <1>4, <1>5, <1>6, <1>7, <1>8 DEF Next

(* A run of the timer that begins after the last disturbance finds the      *)
(* service as it is, and mails when that is due.                            *)
LEMMA TimerStep == IInv /\ ReportInv /\ [Next]_vars => TimerInv'
<1> SUFFICES ASSUME IInv, ReportInv, [Next]_vars PROVE TimerInv'
  OBVIOUS
<1> USE TimeAssumption, TimerAssumption
    DEF ReportInv, TimerInv, ClockInv, IInv, TypeOK, Epoch, State, Running
<1>1. ASSUME NEW r \in Runner, Begin(r) PROVE TimerInv'
  BY <1>1 DEF Begin, Goto
<1>2. ASSUME NEW r \in Runner, Probe(r) PROVE TimerInv'
  BY <1>2 DEF Probe, Goto
<1>3. ASSUME NEW r \in Runner, ReadState(r) PROVE TimerInv'
  <2>1. CASE r # Timer
    BY <1>3, <2>1 DEF ReadState, Goto
  <2>2. CASE r = Timer
    <3> SUFFICES ASSUME now_epoch[Timer] > calmSince, ~up, pc'[Timer] = "write"
                 PROVE  /\ \E t \in alarms : now_epoch[Timer] - t < Resend
                        /\ now_epoch[Timer] >= calmSince + Resend => inbox = "UNHEALTHY"
      BY <1>3, <2>2 DEF ReadState, Goto
    <3>1. ~healthy[Timer]
      BY <1>3, <2>2 DEF ReadState
    <3>2. Subject(healthy[Timer], state_file, now_epoch[Timer]) = "none"
      BY <1>3, <2>2 DEF ReadState, Goto
    <3>3. /\ state_file.status = "fail"
          /\ ~(now_epoch[Timer] - state_file.last_alert_epoch >= Resend)
      BY <3>1, <3>2 DEF Subject, Due
    <3>4. state_file.last_alert_epoch \in alarms
      BY <3>3 DEF SilenceHasItsMail
    <3>5. state_file.last_alert_epoch \in 0..MaxClock /\ now_epoch[Timer] \in 0..MaxClock
      OBVIOUS
    <3>6. ASSUME now_epoch[Timer] >= calmSince + Resend PROVE inbox = "UNHEALTHY"
      BY <3>3, <3>5, <3>6 DEF OldStamps
    <3> QED
      BY <3>3, <3>4, <3>5, <3>6
  <2> QED
    BY <2>1, <2>2
<1>4. ASSUME NEW r \in Runner, SendMail(r) PROVE TimerInv'
  <2>1. Subject(healthy[r], prev[r], now_epoch[r]) # "none"
    BY <1>4 DEF SendMail, RunAgrees
  <2>2. /\ alarms \subseteq alarms'
        /\ ~healthy[r] => inbox' = "UNHEALTHY" /\ now_epoch[r] \in alarms'
    BY <1>4, <2>1, Subjects DEF SendMail
  <2>3. CASE r = Timer
    BY <1>4, <2>2, <2>3 DEF SendMail, Goto
  <2>4. CASE r # Timer
    BY <1>4, <2>2, <2>4 DEF SendMail, Goto
  <2> QED
    BY <2>3, <2>4
<1>5. ASSUME NEW r \in Runner, WriteState(r) PROVE TimerInv'
  <2>1. calmSince' \in 0..MaxClock /\ calmSince <= calmSince'
    BY <1>5 DEF WriteState
  <2>2. CASE r = Timer
    BY <1>5, <2>2 DEF WriteState, Exit, Goto
  <2>3. CASE r # Timer
    <3>1. /\ pc'[Timer] = pc[Timer] /\ now_epoch'[Timer] = now_epoch[Timer]
          /\ healthy'[Timer] = healthy[Timer]
          /\ up' = up /\ alarms' = alarms /\ inbox' = inbox
      BY <1>5, <2>3 DEF WriteState, Exit, Goto
    <3>2. /\ now_epoch[Timer] > calmSince' => now_epoch[Timer] > calmSince
          /\ now_epoch[Timer] >= calmSince' + Resend => now_epoch[Timer] >= calmSince + Resend
      BY <2>1
    <3> QED
      BY <3>1, <3>2
  <2> QED
    BY <2>2, <2>3
<1>6. ASSUME NEW r \in Runner, Fail(r) \/ Kill(r) PROVE TimerInv'
  BY <1>6 DEF Fail, Kill, Exit, Goto
<1>7. CASE Flip
  BY <1>7 DEF Flip, run
<1>8. CASE Tick \/ UNCHANGED vars
  BY <1>8 DEF Tick, vars, run
<1> QED
  BY <1>1, <1>2, <1>3, <1>4, <1>5, <1>6, <1>7, <1>8 DEF Next

(* Undisturbed, what the timer's run leaves behind stays.                   *)
LEMMA CoveredStep == IInv /\ ReportInv /\ [Next]_vars => CoveredInv'
<1> SUFFICES ASSUME IInv, ReportInv, [Next]_vars PROVE CoveredInv'
  OBVIOUS
<1> USE TimeAssumption, TimerAssumption
    DEF ReportInv, CoveredInv, Covered, ClockInv, IInv, TypeOK, Epoch, State, Running
<1>1. ASSUME NEW r \in Runner, Begin(r) PROVE CoveredInv'
  <2>1. Covered' = Covered
    BY <1>1 DEF Begin, Goto
  <2> QED
    BY <1>1, <2>1 DEF Begin
<1>2. ASSUME NEW r \in Runner, Probe(r) \/ ReadState(r) PROVE CoveredInv'
  <2>1. Covered' = Covered
    BY <1>2 DEF Probe, ReadState, Goto
  <2> QED
    BY <1>2, <2>1 DEF Probe, ReadState
<1>3. ASSUME NEW r \in Runner, SendMail(r) PROVE CoveredInv'
  <2>1. Covered' = Covered /\ Covered \in Int
    BY <1>3 DEF SendMail, Goto
  <2>2. Subject(healthy[r], prev[r], now_epoch[r]) # "none"
    BY <1>3 DEF SendMail, RunAgrees
  <2>3. alarms \subseteq alarms' /\ (~healthy[r] => inbox' = "UNHEALTHY")
    BY <1>3, <2>2, Subjects DEF SendMail
  <2>4. calmSince' = IF healthy[r] = up THEN calmSince ELSE clock
    BY <1>3 DEF SendMail
  <2>5. CASE healthy[r] = up
    BY <1>3, <2>1, <2>3, <2>4, <2>5 DEF SendMail
  <2>6. CASE healthy[r] # up
    BY <2>1, <2>4, <2>6
  <2> QED
    BY <2>5, <2>6
<1>4. ASSUME NEW r \in Runner, WriteState(r) PROVE CoveredInv'
  <2>1. calmSince' = IF healthy[r] = up THEN calmSince ELSE clock
    BY <1>4 DEF WriteState
  <2>2. Covered' \in Int /\ Covered' <= clock
    BY <1>4 DEF WriteState, Exit, Goto
  <2>3. CASE healthy[r] # up
    BY <2>1, <2>2, <2>3
  <2>4. CASE healthy[r] = up /\ r # Timer
    <3>1. Covered' = Covered
      BY <1>4, <2>4 DEF WriteState, Exit, Goto
    <3>2. up => state_file'.status # "fail"
      BY <1>4, <2>4 DEF WriteState, NextState
    <3> QED
      BY <1>4, <2>1, <2>4, <3>1, <3>2 DEF WriteState
  <2>5. CASE healthy[r] = up /\ r = Timer
    <3>1. Covered' <= now_epoch[Timer]
      BY <1>4, <2>5 DEF WriteState, Exit, Goto
    <3>2. up => state_file'.status # "fail"
      BY <1>4, <2>5 DEF WriteState, NextState
    <3>3. ASSUME ~up, Covered' > calmSince'
          PROVE  /\ \E t \in alarms' : Covered' - t < Resend
                 /\ Covered' >= calmSince' + Resend => inbox' = "UNHEALTHY"
      <4>1. now_epoch[Timer] > calmSince /\ pc[Timer] = "write"
        BY <1>4, <2>1, <2>2, <2>5, <3>1, <3>3 DEF WriteState
      <4>2. PICK t \in alarms : now_epoch[Timer] - t < Resend
        BY <3>3, <4>1 DEF TimerInv
      <4>3. Covered' >= calmSince + Resend => inbox = "UNHEALTHY"
        BY <2>2, <3>1, <3>3, <4>1 DEF TimerInv
      <4> QED
        BY <1>4, <2>1, <2>2, <2>5, <3>1, <4>2, <4>3 DEF WriteState
    <3> QED
      BY <1>4, <3>2, <3>3 DEF WriteState
  <2> QED
    BY <2>3, <2>4, <2>5
<1>5. ASSUME NEW r \in Runner, Fail(r) \/ Kill(r) PROVE CoveredInv'
  <2>1. calmSince' = clock /\ Covered' <= clock /\ Covered' \in Int
    BY <1>5 DEF Fail, Kill, Exit, Goto
  <2> QED
    BY <2>1
<1>6. CASE Flip
  <2>1. calmSince' = clock /\ Covered' <= clock /\ Covered' \in Int
    BY <1>6 DEF Flip, run
  <2> QED
    BY <2>1
<1>7. CASE Tick
  <2>1. Covered' <= Covered /\ Covered \in Int /\ Covered' \in Int
    BY <1>7 DEF Tick, run
  <2> QED
    BY <1>7, <2>1 DEF Tick
<1>8. CASE UNCHANGED vars
  BY <1>8 DEF vars, run
<1> QED
  BY <1>1, <1>2, <1>3, <1>4, <1>5, <1>6, <1>7, <1>8 DEF Next

(* A run whose state was not replaced since it read it knows the file.      *)
LEMMA StaleStep == IInv /\ ReportInv /\ [Next]_vars => StaleInv'
<1> SUFFICES ASSUME IInv, ReportInv, [Next]_vars PROVE StaleInv'
  OBVIOUS
<1> USE DEF ReportInv, StaleInv, IInv, TypeOK
<1>1. ASSUME NEW r \in Runner, Begin(r) \/ Probe(r) PROVE StaleInv'
  BY <1>1 DEF Begin, Probe, Goto
<1>2. ASSUME NEW r \in Runner, ReadState(r) PROVE StaleInv'
  BY <1>2 DEF ReadState, Goto
<1>3. ASSUME NEW r \in Runner, SendMail(r) PROVE StaleInv'
  BY <1>3 DEF SendMail, Goto
<1>4. ASSUME NEW r \in Runner, WriteState(r) PROVE StaleInv'
  BY <1>4 DEF WriteState, Exit, Goto
<1>5. ASSUME NEW r \in Runner, Fail(r) \/ Kill(r) PROVE StaleInv'
  BY <1>5 DEF Fail, Kill, Exit, Goto
<1>6. CASE Flip \/ Tick \/ UNCHANGED vars
  BY <1>6 DEF Flip, Tick, vars, run
<1> QED
  BY <1>1, <1>2, <1>3, <1>4, <1>5, <1>6 DEF Next

(* What a run writes says what it mailed.                                   *)
LEMMA StateSaysWhatWasMailed ==
  ASSUME NEW r \in Runner
  PROVE  /\ NextState(r).status = "fail" <=> ~healthy[r]
         /\ Subject(healthy[r], prev[r], now_epoch[r]) = "none" =>
              (healthy[r] <=> prev[r].status # "fail")
         /\ Subject(healthy[r], prev[r], now_epoch[r]) # "none" =>
              (Subject(healthy[r], prev[r], now_epoch[r]) = "UNHEALTHY" <=> ~healthy[r])
BY DEF NextState, Subject, Due

(* Inbox and file go on agreeing, unless something is lost.                 *)
LEMMA MailStep == IInv /\ ReportInv /\ [Next]_vars => MailInv'
<1> SUFFICES ASSUME IInv, ReportInv, [Next]_vars, ~lost' PROVE MailInv'
  BY DEF MailInv
<1> USE DEF ReportInv, IInv, TypeOK
<1>1. ASSUME NEW r \in Runner, Begin(r) \/ Probe(r) PROVE MailInv'
  <2>1. \A q \in Runner : MailUnrecorded(q)' <=> MailUnrecorded(q)
    BY <1>1 DEF Begin, Probe, Goto, MailUnrecorded
  <2>2. Unrecorded' = Unrecorded
    BY <2>1 DEF Unrecorded
  <2>3. \A q \in Unrecorded : q # r
    BY <1>1 DEF Unrecorded, MailUnrecorded, Begin, Probe
  <2> QED
    BY <1>1, <2>2, <2>3 DEF MailInv, Begin, Probe
<1>2. ASSUME NEW r \in Runner, ReadState(r) PROVE MailInv'
  <2>1. \A q \in Runner : MailUnrecorded(q)' <=> MailUnrecorded(q)
    BY <1>2 DEF ReadState, Goto, MailUnrecorded
  <2>2. Unrecorded' = Unrecorded
    BY <2>1 DEF Unrecorded
  <2>3. \A q \in Unrecorded : q # r
    BY <1>2 DEF Unrecorded, MailUnrecorded, ReadState
  <2> QED
    BY <1>2, <2>2, <2>3 DEF MailInv, ReadState
<1>3. ASSUME NEW r \in Runner, SendMail(r) PROVE MailInv'
  <2>1. r \in Unrecorded'
    BY <1>3 DEF SendMail, Goto, Unrecorded, MailUnrecorded, RunAgrees
  <2>2. inbox' = Subject(healthy[r], prev[r], now_epoch[r])'
    BY <1>3 DEF SendMail
  <2> QED
    BY <2>1, <2>2 DEF MailInv
<1>4. ASSUME NEW r \in Runner, WriteState(r) PROVE MailInv'
  <2>1. ~lost /\ r \notin stale /\ prev[r] = state_file /\ inbox' = inbox
    BY <1>4 DEF WriteState, StaleInv
  <2>2. Unrecorded' = Unrecorded \ {r}
    BY <1>4 DEF WriteState, Exit, Goto, Unrecorded, MailUnrecorded
  <2>3. Unrecorded' \subseteq stale'
    BY <1>4, <2>2 DEF WriteState, Unrecorded, MailUnrecorded
  <2>4. ASSUME Unrecorded' = {}
        PROVE  inbox' = "UNHEALTHY" <=> state_file'.status = "fail"
    <3>1. state_file'.status = "fail" <=> ~healthy[r]
      BY <1>4, StateSaysWhatWasMailed DEF WriteState
    <3>2. CASE MailUnrecorded(r)
      <4>1. Unrecorded = {r}
        BY <2>2, <2>4, <3>2 DEF Unrecorded
      <4>2. inbox = Subject(healthy[r], prev[r], now_epoch[r])
        BY <2>1, <4>1 DEF MailInv
      <4> QED
        BY <2>1, <3>1, <3>2, <4>2, StateSaysWhatWasMailed DEF MailUnrecorded
    <3>3. CASE ~MailUnrecorded(r)
      <4>1. Unrecorded = {}
        BY <2>2, <2>4, <3>3 DEF Unrecorded
      <4>2. Subject(healthy[r], prev[r], now_epoch[r]) = "none"
        BY <1>4, <3>3 DEF MailUnrecorded, WriteState
      <4> QED
        BY <2>1, <3>1, <4>1, <4>2, StateSaysWhatWasMailed DEF MailInv
    <3> QED
      BY <3>2, <3>3
  <2> QED
    BY <2>3, <2>4 DEF MailInv
<1>5. ASSUME NEW r \in Runner, Fail(r) \/ Kill(r) PROVE MailInv'
  <2>1. ~lost /\ ~MailUnrecorded(r)
    BY <1>5 DEF Fail, Kill
  <2>2. Unrecorded' = Unrecorded
    BY <1>5, <2>1 DEF Fail, Kill, Exit, Goto, Unrecorded, MailUnrecorded
  <2>3. \A q \in Unrecorded : q # r
    BY <2>1 DEF Unrecorded
  <2> QED
    BY <1>5, <2>1, <2>2, <2>3 DEF MailInv, Fail, Kill, Exit
<1>6. CASE Flip \/ Tick \/ UNCHANGED vars
  <2>1. Unrecorded' = Unrecorded
    BY <1>6 DEF Flip, Tick, vars, run, Unrecorded, MailUnrecorded
  <2> QED
    BY <1>6, <2>1 DEF Flip, Tick, vars, run, MailInv
<1> QED
  BY <1>1, <1>2, <1>3, <1>4, <1>5, <1>6 DEF Next

LEMMA ReportInvariance == Spec => []ReportInv
<1>1. IInv /\ ReportInv /\ [Next]_vars => ReportInv'
  BY ClockStep, OldStampsStep, TimerStep, CoveredStep, StaleStep, MailStep DEF ReportInv
<1> QED
  BY Invariance, ReportInit, <1>1, PTL DEF Spec

(* Two runs of the timer are enough for one that began in between to end.   *)
LEMMA CoveredSoon ==
  ASSUME IInv, ReportInv
  PROVE  Covered \in Int /\ clock - Covered <= 2 * RunLimit
BY TimeAssumption, TimerAssumption
   DEF IInv, TypeOK, Epoch, ReportInv, ClockInv, Covered, Running

(* A service that stays down is reported within Resend and two runs of the  *)
(* last disturbance, and again within each such time.                       *)
THEOREM FailureTheorem == Spec => []FailureIsReported
<1>1. IInv /\ ReportInv => FailureIsReported
  <2> SUFFICES ASSUME IInv, ReportInv, ~up, Calm(Resend + 2 * RunLimit)
               PROVE  /\ inbox = "UNHEALTHY"
                      /\ \E t \in alarms : clock - t <= Resend + 2 * RunLimit
    BY DEF FailureIsReported
  <2> USE TimeAssumption DEF IInv, TypeOK, Epoch
  <2>1. Covered \in Int /\ clock - Covered <= 2 * RunLimit
    BY CoveredSoon
  <2>2. Covered > calmSince + Resend
    BY <2>1 DEF Calm
  <2>3. inbox = "UNHEALTHY" /\ \E t \in alarms : Covered - t < Resend
    BY <2>1, <2>2 DEF ReportInv, CoveredInv
  <2> QED
    BY <2>1, <2>3
<1> QED
  BY Invariance, ReportInvariance, <1>1, PTL

(* A recovery is reported within two runs, unless a mail or a state was     *)
(* lost or is about to be written.                                          *)
THEOREM RecoveryTheorem == Spec => []RecoveryIsReported
<1>1. IInv /\ ReportInv => RecoveryIsReported
  <2> SUFFICES ASSUME IInv, ReportInv, up, ~lost, Calm(2 * RunLimit),
                      \A r \in Runner : ~MailUnrecorded(r)
               PROVE  inbox # "UNHEALTHY"
    BY DEF RecoveryIsReported
  <2> USE TimeAssumption DEF IInv, TypeOK, Epoch
  <2>1. Covered \in Int /\ clock - Covered <= 2 * RunLimit
    BY CoveredSoon
  <2>2. Covered > calmSince
    BY <2>1 DEF Calm
  <2>3. state_file.status # "fail"
    BY <2>2 DEF ReportInv, CoveredInv
  <2>4. Unrecorded = {}
    BY DEF Unrecorded
  <2> QED
    BY <2>3, <2>4 DEF ReportInv, MailInv
<1> QED
  BY Invariance, ReportInvariance, <1>1, PTL

-----------------------------------------------------------------------------
(* The client PKI.  No lock covers a whole command, so the invariant says   *)
(* what each stage of one may rely on, and what the store, wherever it is,  *)
(* and the devices know of each other.                                      *)

\* The stores there can be.
CaStore == {s \in Store : Len(s.issued) <= MaxSerial /\ s.revoked \subseteq DOMAIN s.issued}

PkiStage == {"idle", "lock", "list", "issue", "publish", "deliver", "revoke",
             "open", "tar", "look", "clear", "move", "init"}

Verb == {"enroll", "rotate", "create", "backup", "restore", "init", "revoke"}

Job == [verb: Verb \cup {None}, device: Device \cup {None}, previous: SUBSET Serial,
        serial: 0..MaxSerial, copy: CaStore \cup {None}]

PkiTypeOK ==
  /\ store \in CaStore \cup {Missing, Empty}
  /\ archive \in CaStore \cup {None}
  /\ flock \in Proc \cup {None} /\ writer \in Proc \cup {None} /\ readers \subseteq Proc
  /\ stage \in [Proc -> PkiStage]
  /\ job \in [Proc -> Job]
  /\ \A p \in Proc : stage[p] # "idle" => job[p].verb \in Verb /\ job[p].device \in Device
  /\ installed \in [Device -> SUBSET Serial]
  /\ hints \subseteq [device: Device, old: SUBSET Serial, new: 0..MaxSerial]
  /\ aside \in CaStore \cup {None}
  /\ created \subseteq Device /\ retired \subseteq Device
  /\ rewound \in BOOLEAN
  /\ commands \in 0..MaxCommands /\ moves \in 0..MaxMoves

Enrolling(p) == job[p].verb \in {"enroll", "rotate"}

\* A command that has seen the store, which then stays.
Working(p) ==
  \/ stage[p] \in {"list", "publish", "deliver", "revoke", "tar"}
  \/ (stage[p] = "issue" /\ Enrolling(p))

\* Where a command is, what it is, and the locks it has.
StageOf(p) ==
  /\ Working(p) => HasCa(store)
  /\ stage[p] = "publish" <=> writer = p
  /\ stage[p] \in {"lock", "list"} => Enrolling(p)
  /\ stage[p] \in {"issue", "deliver"} => Enrolling(p) \/ job[p].verb = "create"
  /\ stage[p] \in {"list", "issue", "publish", "deliver"} /\ Enrolling(p) => flock = p
  /\ stage[p] = "revoke" => job[p].verb = "revoke"
  /\ stage[p] = "publish" => job[p].verb \in {"enroll", "create", "revoke"}
  /\ stage[p] \in {"issue", "publish", "deliver"} /\ job[p].verb = "create" =>
       job[p].device \in created

StageInv == \A p \in Proc : StageOf(p)

\* The CRL lists what is revoked, but for a command that was killed halfway.
Whole(s) == ~s.torn => s.listed = s.revoked

WholeInv ==
  /\ HasCa(store) /\ writer = None => Whole(store)
  /\ archive # None => Whole(archive)
  /\ aside # None => Whole(aside)
  /\ \A p \in Proc :
       /\ stage[p] = "tar" => p \in readers /\ writer = None /\ job[p].copy = store
       /\ stage[p] \in {"clear", "move"} => job[p].copy # None /\ Whole(job[p].copy)

\* What enroll and rotate have listed is all there is until they issue, and
\* all there is besides what they issued.
IssueOf(p) ==
  /\ stage[p] \in {"lock", "list", "issue"} /\ Enrolling(p) => job[p].serial = 0
  /\ stage[p] = "issue" /\ Enrolling(p) =>
       /\ job[p].previous \subseteq DOMAIN store.issued
       /\ job[p].verb = "enroll" => job[p].previous = {}
       /\ job[p].device \notin created => Active(store, job[p].device) \subseteq job[p].previous
  /\ stage[p] \in {"publish", "deliver"} => job[p].serial \in DOMAIN store.issued
  /\ stage[p] = "deliver" /\ job[p].verb = "rotate" =>
       /\ \A s \in job[p].previous : s < job[p].serial
       /\ job[p].device \notin created =>
            \A s \in Active(store, job[p].device) : s < job[p].serial => s \in job[p].previous

IssueInv == \A p \in Proc : IssueOf(p)

\* Whoever is about to be revoked has a newer certificate in its device.
RevokeOf(p) ==
  stage[p] = "revoke" =>
    /\ job[p].serial \in DOMAIN store.issued
    /\ store.issued[job[p].serial] = job[p].device
    /\ job[p].device \notin retired => \E n \in installed[job[p].device] : job[p].serial < n

RevokeInv == \A p \in Proc : RevokeOf(p)

\* The hints of a rotation are about older certificates, if it issued one.
HintInv == \A h \in hints : h.new # 0 => \A s \in h.old : s < h.new

\* One of a device's certificates is its newest.
NewestInv ==
  \A d \in Device : installed[d] # {} =>
    \E m \in installed[d] : \A n \in installed[d] : n <= m

\* The store, in its place or moved aside.
Ca == IF HasCa(store) THEN store ELSE aside

Issued(s, n, d) == n \in DOMAIN s.issued /\ s.issued[n] = d

\* What devices and hints know of it.
CaInv ==
  ~rewound =>
    IF Ca = None
    THEN hints = {} /\ \A d \in Device : installed[d] = {}
    ELSE /\ \A d \in Device : \A n \in installed[d] : Issued(Ca, n, d)
         /\ \A d \in Device \ (created \cup retired) : \A s \in Ca.revoked :
              Ca.issued[s] = d => \E n \in installed[d] : s < n
         /\ \A h \in hints : h.new <= Len(Ca.issued)
         /\ \A h \in hints : h.device \notin created =>
              \A s \in Active(Ca, h.device) : s < h.new => s \in h.old

PkiInv ==
  /\ PkiTypeOK /\ StageInv /\ WholeInv /\ IssueInv
  /\ RevokeInv /\ HintInv /\ NewestInv /\ CaInv

(* A store is a CA, and nothing else is.                                    *)
LEMMA StoresAreCas ==
  /\ \A s \in CaStore : HasCa(s) /\ s # None /\ s # Missing /\ s # Empty
  /\ \A s \in CaStore \cup {Missing, Empty} : HasCa(s) => s \in CaStore
BY PkiAssumption DEF CaStore, HasCa

(* What is in a store.                                                      *)
LEMMA StoreFields ==
  ASSUME NEW s \in CaStore
  PROVE  /\ s.issued \in Seq(Device) /\ Len(s.issued) \in 0..MaxSerial
         /\ DOMAIN s.issued = 1..Len(s.issued) /\ DOMAIN s.issued \subseteq Serial
         /\ s.revoked \subseteq DOMAIN s.issued /\ s.revoked \subseteq Serial
         /\ s.listed \subseteq Serial
         /\ s.torn \in BOOLEAN
         /\ \A d : Active(s, d) \subseteq DOMAIN s.issued
BY PkiAssumption DEF CaStore, Store, Serial, Active

(* The empty store is one.                                                  *)
LEMMA NewStoreIsCa == NewStore \in CaStore
<1>1. <<>> \in Seq(Device) /\ Len(<<>>) = 0
  OBVIOUS
<1> QED
  BY <1>1, PkiAssumption DEF NewStore, CaStore, Store

(* What commands do to a store.                                             *)
Publishing(s) == [s EXCEPT !.listed = s.revoked, !.torn = FALSE]
Tearing(s) == [s EXCEPT !.torn = TRUE]
Revoking(s, gone) == [s EXCEPT !.revoked = @ \cup gone]
Issuing(s, d, gone) == [s EXCEPT !.issued = Append(@, d), !.revoked = @ \cup gone]

(* Publishing, tearing and revoking keep a store a store.                   *)
LEMMA ChangedStore ==
  ASSUME NEW s \in CaStore
  PROVE  /\ Publishing(s) \in CaStore /\ Publishing(s).issued = s.issued
         /\ Publishing(s).revoked = s.revoked /\ Whole(Publishing(s))
         /\ Tearing(s) \in CaStore /\ Tearing(s).issued = s.issued
         /\ Tearing(s).revoked = s.revoked /\ Whole(Tearing(s))
         /\ \A gone \in SUBSET DOMAIN s.issued :
              /\ Revoking(s, gone) \in CaStore /\ Revoking(s, gone).issued = s.issued
              /\ Revoking(s, gone).revoked = s.revoked \cup gone
BY StoreFields DEF CaStore, Store, Publishing, Tearing, Revoking, Whole

(* Issuing does, too.                                                       *)
LEMMA IssuedStore ==
  ASSUME NEW s \in CaStore, NEW d \in Device, NEW gone \in SUBSET DOMAIN s.issued,
         Len(s.issued) < MaxSerial
  PROVE  /\ Issuing(s, d, gone) \in CaStore
         /\ Len(Issuing(s, d, gone).issued) = Len(s.issued) + 1
         /\ Issuing(s, d, gone).issued[Len(s.issued) + 1] = d
         /\ \A n \in DOMAIN s.issued :
              /\ n \in DOMAIN Issuing(s, d, gone).issued
              /\ Issuing(s, d, gone).issued[n] = s.issued[n]
         /\ Issuing(s, d, gone).revoked = s.revoked \cup gone
         /\ Issuing(s, d, gone).listed = s.listed /\ Issuing(s, d, gone).torn = s.torn
<1> DEFINE t == Issuing(s, d, gone)
<1>1. /\ s.issued \in Seq(Device) /\ Len(s.issued) \in Nat
      /\ DOMAIN s.issued = 1..Len(s.issued)
  BY StoreFields, PkiAssumption
<1>2. /\ Append(s.issued, d) \in Seq(Device)
      /\ Len(Append(s.issued, d)) = Len(s.issued) + 1
      /\ DOMAIN Append(s.issued, d) = 1..(Len(s.issued) + 1)
      /\ Append(s.issued, d)[Len(s.issued) + 1] = d
      /\ \A n \in 1..Len(s.issued) : Append(s.issued, d)[n] = s.issued[n]
  BY <1>1
<1>3. /\ t.issued = Append(s.issued, d) /\ t.revoked = s.revoked \cup gone
      /\ t.listed = s.listed /\ t.torn = s.torn
  BY DEF CaStore, Store, Issuing
<1>4. t \in Store
  BY <1>2, StoreFields DEF CaStore, Store, Issuing
<1>5. t.revoked \subseteq DOMAIN t.issued
  BY <1>1, <1>2, <1>3, StoreFields
<1>6. Len(t.issued) <= MaxSerial
  BY <1>1, <1>2, <1>3, PkiAssumption
<1>7. t \in CaStore
  BY <1>4, <1>5, <1>6 DEF CaStore
<1>8. \A n \in DOMAIN s.issued : n \in DOMAIN t.issued /\ t.issued[n] = s.issued[n]
  BY <1>1, <1>2, <1>3
<1>9. Len(t.issued) = Len(s.issued) + 1 /\ t.issued[Len(s.issued) + 1] = d
  BY <1>2, <1>3
<1> QED
  BY <1>3, <1>7, <1>8, <1>9

(* The invariant holds before the first command.                            *)
LEMMA PkiInitInv == PkiInit => PkiInv
<1> SUFFICES ASSUME PkiInit PROVE PkiInv
  OBVIOUS
<1>0. /\ store \in {Missing, Empty, NewStore} /\ archive = None /\ aside = None
      /\ flock = None /\ writer = None /\ readers = {} /\ hints = {}
      /\ stage = [p \in Proc |-> "idle"] /\ job = [p \in Proc |-> NoJob]
      /\ installed = [d \in Device |-> {}] /\ created = {} /\ retired = {}
      /\ rewound = FALSE /\ commands = 0 /\ moves = 0
  BY DEF PkiInit
<1>1. NoJob \in Job
  BY PkiAssumption DEF NoJob, Job
<1>2. PkiTypeOK
  <2>1. store \in CaStore \cup {Missing, Empty}
    BY <1>0, NewStoreIsCa
  <2>2. job \in [Proc -> Job]
    BY <1>0, <1>1
  <2>4. stage \in [Proc -> PkiStage] /\ \A p \in Proc : stage[p] = "idle"
    BY <1>0 DEF PkiStage
  <2>3. commands \in 0..MaxCommands /\ moves \in 0..MaxMoves
    BY <1>0, PkiAssumption
  <2> QED
    BY <1>0, <2>1, <2>2, <2>3, <2>4 DEF PkiTypeOK
<1>3. StageInv /\ IssueInv /\ RevokeInv /\ HintInv /\ NewestInv
  BY <1>0, PkiAssumption DEF StageInv, StageOf, Working, IssueInv, RevokeInv, IssueOf, RevokeOf, HintInv, NewestInv
<1>4. WholeInv
  <2>1. HasCa(store) => store = NewStore
    BY <1>0 DEF HasCa
  <2>3. Whole(NewStore)
    BY DEF Whole, NewStore
  <2>2. \A p \in Proc : stage[p] = "idle"
    BY <1>0
  <2> QED
    BY <1>0, <2>1, <2>2, <2>3 DEF WholeInv
<1>5. CaInv
  <2>1. Ca = None \/ Ca = NewStore
    BY <1>0 DEF Ca, HasCa
  <2>2. ASSUME Ca = NewStore
        PROVE  /\ \A d \in Device : \A n \in installed[d] : Issued(Ca, n, d)
               /\ \A d \in Device \ (created \cup retired) : \A s \in Ca.revoked :
                    Ca.issued[s] = d => \E n \in installed[d] : s < n
               /\ hints = {}
    BY <1>0, <2>2 DEF NewStore
  <2> QED
    BY <1>0, <2>1, <2>2 DEF CaInv
<1> QED
  BY <1>2, <1>3, <1>4, <1>5 DEF PkiInv

(* Types: no command leaves them.                                           *)
LEMMA PkiTypeStep == PkiTypeOK /\ StageInv /\ WholeInv /\ RevokeInv /\ [PkiNext]_pkiVars => PkiTypeOK'
<1> SUFFICES ASSUME PkiTypeOK, StageInv, WholeInv, RevokeInv, [PkiNext]_pkiVars PROVE PkiTypeOK'
  OBVIOUS
<1> USE PkiAssumption DEF PkiStage
<1>0. NoJob \in Job
  BY DEF NoJob, Job
<1>1. \A p \in Proc : job[p] \in Job
  BY DEF PkiTypeOK
<1>2. HasCa(store) => store \in CaStore
  BY StoresAreCas DEF PkiTypeOK
<1>3. ASSUME NEW p \in Proc, Leave(p)
      PROVE  /\ stage' \in [Proc -> PkiStage]
             /\ job' \in [Proc -> Job]
             /\ \A q \in Proc : stage'[q] # "idle" => job'[q].verb \in Verb /\ job'[q].device \in Device
             /\ flock' \in Proc \cup {None}
  BY <1>0, <1>3 DEF Leave, Proceed, PkiTypeOK
<1>4. ASSUME NEW p \in Proc, NEW verb \in DOMAIN FirstStage, NEW d \in Device, Start(p, verb, d)
      PROVE  PkiTypeOK'
  <2>1. [NoJob EXCEPT !.verb = verb, !.device = d] \in Job
    BY <1>0 DEF Job, NoJob, FirstStage, Verb
  <2>2. verb \in Verb /\ FirstStage[verb] \in {"lock", "issue", "open", "look", "init"}
    BY DEF FirstStage, Verb
  <2>3. [NoJob EXCEPT !.verb = verb, !.device = d].verb = verb
        /\ [NoJob EXCEPT !.verb = verb, !.device = d].device = d
    BY DEF NoJob
  <2>4. job' \in [Proc -> Job] /\ job'[p] = [NoJob EXCEPT !.verb = verb, !.device = d]
        /\ \A q \in Proc \ {p} : job'[q] = job[q] /\ stage'[q] = stage[q]
    BY <1>4, <2>1 DEF Start, Proceed, PkiTypeOK
  <2>5. \A q \in Proc : stage'[q] # "idle" => job'[q].verb \in Verb /\ job'[q].device \in Device
    BY <2>2, <2>3, <2>4 DEF PkiTypeOK
  <2>6. commands' \in 0..MaxCommands /\ created' \subseteq Device
    BY <1>4 DEF Start, PkiTypeOK
  <2>7. stage' \in [Proc -> PkiStage]
    BY <1>4, <2>2 DEF Start, Proceed, PkiTypeOK
  <2> QED
    BY <1>4, <2>4, <2>5, <2>6, <2>7 DEF Start, PkiTypeOK, locks, devices
<1>5. ASSUME NEW p \in Proc, Abort(p) PROVE PkiTypeOK'
  <2>1. store' \in CaStore \cup {Missing, Empty}
    <3>1. writer = p => store \in CaStore
      BY <1>2, <1>5 DEF StageInv, StageOf, Working
    <3>2. store' = IF writer = p THEN Tearing(store) ELSE store
      BY <1>5 DEF Abort, Tearing
    <3> QED
      BY <3>1, <3>2, ChangedStore DEF PkiTypeOK, Tearing
  <2>2. hints' \subseteq [device: Device, old: SUBSET Serial, new: 0..MaxSerial]
    <3>1. Hint(job[p]) \in [device: Device, old: SUBSET Serial, new: 0..MaxSerial]
      BY <1>1, <1>5 DEF Hint, Job, PkiTypeOK, Abort
    <3> QED
      BY <1>5, <3>1 DEF Abort, PkiTypeOK
  <2>3. writer' \in Proc \cup {None} /\ readers' \subseteq Proc
    BY <1>5 DEF Abort, PkiTypeOK
  <2> QED
    BY <1>3, <1>5, <2>1, <2>2, <2>3 DEF Abort, PkiTypeOK, history
<1>6. ASSUME NEW p \in Proc, Lock(p) PROVE PkiTypeOK'
  BY <1>6 DEF Lock, Proceed, PkiTypeOK, devices, history
<1>7. ASSUME NEW p \in Proc, List(p) PROVE PkiTypeOK'
  <2>1. Active(store, job[p].device) \in SUBSET Serial
    BY <1>2, <1>7, StoreFields DEF List
  <2>2. [job[p] EXCEPT !.previous = Active(store, job[p].device)] \in Job
    BY <1>1, <2>1 DEF Job
  <2>3. job' = [job EXCEPT ![p] = [job[p] EXCEPT !.previous = Active(store, job[p].device)]]
    BY <1>7 DEF List
  <2>4. \A q \in Proc : job'[q].verb = job[q].verb /\ job'[q].device = job[q].device
    BY <1>1, <2>3 DEF PkiTypeOK, Job
  <2> QED
    BY <1>7, <2>2, <2>3, <2>4 DEF List, Proceed, PkiTypeOK, locks, devices, history
<1>8. ASSUME NEW p \in Proc, Issue(p) PROVE PkiTypeOK'
  <2> DEFINE d == job[p].device
             gone == IF job[p].verb = "rotate" THEN {} ELSE Active(store, d)
  <2>1. store \in CaStore /\ d \in Device /\ Len(store.issued) < MaxSerial
    BY <1>2, <1>8 DEF Issue, PkiTypeOK
  <2>2. gone \in SUBSET DOMAIN store.issued
    BY <2>1, StoreFields
  <2>3. store' = Issuing(store, d, gone)
    BY <1>8 DEF Issue, Issuing
  <2>4. store' \in CaStore
    BY <2>1, <2>2, <2>3, IssuedStore
  <2>5. Len(store'.issued) \in 0..MaxSerial
    BY <2>4, StoreFields
  <2>6. job' = [job EXCEPT ![p] = [job[p] EXCEPT !.serial = Len(store'.issued)]]
    BY <1>8 DEF Issue
  <2>7. [job[p] EXCEPT !.serial = Len(store'.issued)] \in Job
    BY <1>1, <2>5 DEF Job
  <2>8. job' \in [Proc -> Job]
        /\ \A q \in Proc : job'[q].verb = job[q].verb /\ job'[q].device = job[q].device
    BY <1>1, <2>6, <2>7 DEF PkiTypeOK, Job
  <2>9. stage' = [stage EXCEPT ![p] = "deliver"] \/ stage' = [stage EXCEPT ![p] = "publish"]
    BY <1>8 DEF Issue, Proceed
  <2>10. writer' \in Proc \cup {None}
    BY <1>8 DEF Issue, PkiTypeOK
  <2> QED
    BY <1>8, <2>4, <2>8, <2>9, <2>10 DEF Issue, Proceed, PkiTypeOK, devices, history
<1>9. ASSUME NEW p \in Proc, Publish(p) PROVE PkiTypeOK'
  <2>1. store \in CaStore
    BY <1>2, <1>9 DEF StageInv, StageOf, Working, Publish
  <2>2. store' \in CaStore
    BY <1>9, <2>1, ChangedStore DEF Publish, Publishing
  <2>3. CASE Leave(p)
    BY <1>3, <1>9, <2>2, <2>3 DEF Publish, PkiTypeOK, devices, history
  <2>4. CASE Proceed(p, "deliver") /\ UNCHANGED <<job, flock>>
    BY <1>9, <2>2, <2>4 DEF Publish, Proceed, PkiTypeOK, devices, history
  <2> QED
    BY <1>9, <2>3, <2>4 DEF Publish
<1>10. ASSUME NEW p \in Proc, Deliver(p) PROVE PkiTypeOK'
  <2>1. Hint(job[p]) \in [device: Device, old: SUBSET Serial, new: 0..MaxSerial]
    BY <1>1, <1>10 DEF Hint, Job, PkiTypeOK, Deliver
  <2> QED
    BY <1>3, <1>10, <2>1 DEF Deliver, PkiTypeOK, history
<1>11. ASSUME NEW p \in Proc, NEW d \in Device, NEW s \in Serial, ToRevoke(p, d, s)
       PROVE  /\ stage' \in [Proc -> PkiStage]
              /\ job' \in [Proc -> Job]
              /\ \A q \in Proc : stage'[q] # "idle" => job'[q].verb \in Verb /\ job'[q].device \in Device
  <2> DEFINE j == [NoJob EXCEPT !.verb = "revoke", !.device = d, !.serial = s]
  <2>1. /\ j.verb = "revoke" /\ j.device = d /\ j.previous = {} /\ j.serial = s
        /\ j.copy = None
    BY DEF NoJob
  <2>2. ASSUME NEW k \in Job PROVE [k EXCEPT !.serial = s] \in Job
    BY DEF Job, Serial
  <2>3. [NoJob EXCEPT !.verb = "revoke", !.device = d] \in Job
    BY <1>0 DEF Job, Verb
  <2>4. j = [[NoJob EXCEPT !.verb = "revoke", !.device = d] EXCEPT !.serial = s]
    OBVIOUS
  <2>5. j \in Job /\ j.verb \in Verb /\ j.device \in Device
    BY <2>1, <2>2, <2>3, <2>4 DEF Verb
  <2>6. stage' = [stage EXCEPT ![p] = "revoke"] /\ job' = [job EXCEPT ![p] = j]
    BY <1>11 DEF ToRevoke, Proceed
  <2> HIDE DEF j
  <2> QED
    BY <2>5, <2>6 DEF PkiTypeOK
<1>12. ASSUME NEW p \in Proc, NEW h \in hints, NEW s \in h.old, Obey(p, h, s) PROVE PkiTypeOK'
  <2>1. h.device \in Device /\ s \in Serial
    BY DEF PkiTypeOK
  <2> QED
    BY <1>11, <1>12, <2>1 DEF Obey, PkiTypeOK, locks, devices, history
<1>13. ASSUME NEW p \in Proc, NEW d \in Device, NEW s \in Serial, Retire(p, d, s) PROVE PkiTypeOK'
  BY <1>11, <1>13 DEF Retire, PkiTypeOK, locks, devices
<1>14. ASSUME NEW p \in Proc, Revoke(p) PROVE PkiTypeOK'
  <2>1. store \in CaStore
    BY <1>2, <1>14 DEF Revoke
  <2>2. {job[p].serial} \subseteq DOMAIN store.issued
    BY <1>14 DEF Revoke, RevokeInv, RevokeOf
  <2>3. store' \in CaStore
    BY <1>14, <2>1, <2>2, ChangedStore DEF Revoke, Revoking
  <2> QED
    BY <1>14, <2>3 DEF Revoke, Proceed, PkiTypeOK, devices, history
<1>15. ASSUME NEW p \in Proc, Open(p) \/ Look(p) PROVE PkiTypeOK'
  <2>1. PICK c \in CaStore : job' = [job EXCEPT ![p] = [job[p] EXCEPT !.copy = c]]
    BY <1>2, <1>15 DEF Open, Look, PkiTypeOK
  <2>2. [job[p] EXCEPT !.copy = c] \in Job
    BY <1>1 DEF Job
  <2>3. job' \in [Proc -> Job]
        /\ \A q \in Proc : job'[q].verb = job[q].verb /\ job'[q].device = job[q].device
    BY <1>1, <2>1, <2>2 DEF PkiTypeOK, Job
  <2> QED
    BY <1>15, <2>3 DEF Open, Look, Proceed, PkiTypeOK, locks, devices, history
<1>16. ASSUME NEW p \in Proc, Tar(p) PROVE PkiTypeOK'
  <2>1. store \in CaStore /\ job[p].copy = store
    BY <1>2, <1>16 DEF Tar, StageInv, StageOf, Working, WholeInv
  <2>2. archive' = [store EXCEPT !.listed = store.listed]
    BY <1>16, <2>1 DEF Tar
  <2>3. archive' = store
    BY <2>1, <2>2 DEF CaStore, Store
  <2> QED
    BY <1>3, <1>16, <2>1, <2>3 DEF Tar, PkiTypeOK, devices, history
<1>17. ASSUME NEW p \in Proc, Clear(p) PROVE PkiTypeOK'
  BY <1>17 DEF Clear, Proceed, PkiTypeOK, locks, devices, history
<1>18. ASSUME NEW p \in Proc, Move(p) PROVE PkiTypeOK'
  <2>1. job[p].copy \in CaStore
    BY <1>1, <1>18 DEF Move, WholeInv, Job
  <2>2. store' \in CaStore \cup {Missing, Empty} /\ rewound' \in BOOLEAN
    BY <1>18, <2>1 DEF Move, PkiTypeOK
  <2> QED
    BY <1>3, <1>18, <2>2 DEF Move, PkiTypeOK, devices
<1>19. ASSUME NEW p \in Proc, InitCa(p) PROVE PkiTypeOK'
  BY <1>3, <1>19, NewStoreIsCa DEF InitCa, PkiTypeOK, devices
<1>20. ASSUME NEW s \in Serial, Install(s) PROVE PkiTypeOK'
  BY <1>20 DEF Install, PkiTypeOK, locks, command, history
<1>21. CASE RefreshCrl
  BY <1>2, <1>21, ChangedStore DEF RefreshCrl, Publishing, PkiTypeOK, locks, command, devices, history
<1>22. CASE MoveAside
  BY <1>2, <1>22 DEF MoveAside, PkiTypeOK, locks, command, devices
<1>23. CASE UNCHANGED pkiVars
  BY <1>23 DEF pkiVars, PkiTypeOK, locks, command, devices, history
<1> QED
  BY <1>4, <1>5, <1>6, <1>7, <1>8, <1>9, <1>10, <1>12, <1>13, <1>14, <1>15, <1>16, <1>17,
     <1>18, <1>19, <1>20, <1>21, <1>22, <1>23 DEF PkiNext

\* t is s after further commands: it has all that s has.
Later(s, t) ==
  /\ t \in CaStore
  /\ Len(s.issued) <= Len(t.issued)
  /\ \A n \in DOMAIN s.issued : n \in DOMAIN t.issued /\ t.issued[n] = s.issued[n]
  /\ s.revoked \subseteq t.revoked

(* What commands make of a store is a later one.                            *)
LEMMA LaterStores ==
  ASSUME NEW s \in CaStore
  PROVE  /\ Later(s, s) /\ Later(s, Publishing(s)) /\ Later(s, Tearing(s))
         /\ \A gone \in SUBSET DOMAIN s.issued : Later(s, Revoking(s, gone))
         /\ \A gone \in SUBSET DOMAIN s.issued, d \in Device :
              Len(s.issued) < MaxSerial => Later(s, Issuing(s, d, gone))
<1>1. Len(s.issued) \in Nat
  BY StoreFields, PkiAssumption
<1>2. ASSUME NEW t \in CaStore, t.issued = s.issued, s.revoked \subseteq t.revoked
      PROVE  Later(s, t)
  BY <1>1, <1>2 DEF Later
<1>3. ASSUME NEW gone \in SUBSET DOMAIN s.issued, NEW d \in Device, Len(s.issued) < MaxSerial
      PROVE  Later(s, Issuing(s, d, gone))
  BY <1>1, <1>3, IssuedStore DEF Later
<1> QED
  BY <1>2, <1>3, ChangedStore

(* Once there is a store it stays, with all it has, unless it is moved      *)
(* aside, when nobody works with it.                                        *)
LEMMA StoreGrows ==
  ASSUME PkiTypeOK, StageInv, RevokeInv, [PkiNext]_pkiVars, HasCa(store)
  PROVE  \/ MoveAside
         \/ HasCa(store') /\ store' \in CaStore /\ Later(store, store')
<1>1. store \in CaStore
  BY StoresAreCas DEF PkiTypeOK
<1>2. store' = store => Later(store, store')
  BY <1>1, LaterStores
<1>3. ASSUME NEW p \in Proc, Abort(p) PROVE Later(store, store')
  <2>1. store' = store \/ store' = Tearing(store)
    BY <1>3 DEF Abort, Tearing
  <2> QED
    BY <1>1, <2>1, LaterStores
<1>4. ASSUME NEW p \in Proc, Issue(p) PROVE Later(store, store')
  <2> DEFINE gone == IF job[p].verb = "rotate" THEN {} ELSE Active(store, job[p].device)
  <2>1. gone \in SUBSET DOMAIN store.issued
    BY <1>1, StoreFields
  <2>2. job[p].device \in Device /\ Len(store.issued) < MaxSerial
    BY <1>4 DEF Issue, PkiTypeOK
  <2>3. store' = Issuing(store, job[p].device, gone)
    BY <1>4 DEF Issue, Issuing
  <2> HIDE DEF gone
  <2> QED
    BY <1>1, <2>1, <2>2, <2>3, LaterStores
<1>5. ASSUME NEW p \in Proc, Revoke(p) PROVE Later(store, store')
  <2>1. {job[p].serial} \in SUBSET DOMAIN store.issued
    BY <1>5 DEF Revoke, RevokeInv, RevokeOf
  <2>2. store' = Revoking(store, {job[p].serial})
    BY <1>5 DEF Revoke, Revoking
  <2> QED
    BY <1>1, <2>1, <2>2, LaterStores
<1>6. ASSUME (\E p \in Proc : Publish(p)) \/ RefreshCrl PROVE Later(store, store')
  <2>1. store' = Publishing(store)
    BY <1>6 DEF Publish, RefreshCrl, Publishing
  <2> QED
    BY <1>1, <2>1, LaterStores
<1>8. ASSUME NEW p \in Proc, Clear(p) \/ InitCa(p) PROVE FALSE
  BY <1>8 DEF Clear, InitCa
<1>9. ASSUME NEW p \in Proc, Move(p) PROVE store' = store
  BY <1>9 DEF Move, HasCa
<1>10. \/ MoveAside
       \/ store' = store
       \/ \E p \in Proc : Abort(p) \/ Issue(p) \/ Revoke(p) \/ Publish(p)
       \/ RefreshCrl
  BY <1>8, <1>9 DEF PkiNext, Start, Lock, List, Deliver, Obey, Retire, Open, Tar, Look, Install,
                  pkiVars
<1>11. MoveAside \/ Later(store, store')
  BY <1>2, <1>3, <1>4, <1>5, <1>6, <1>10
<1> QED
  BY <1>11, StoresAreCas DEF Later

(* The other commands stay where they are.                                  *)
LEMMA OthersStay ==
  ASSUME PkiTypeOK, NEW p \in Proc, NEW q \in Proc, q # p,
         \/ \E verb \in DOMAIN FirstStage, d \in Device : Start(p, verb, d)
         \/ Abort(p) \/ Lock(p) \/ List(p) \/ Issue(p) \/ Publish(p) \/ Deliver(p)
         \/ \E h \in hints : \E s \in h.old : Obey(p, h, s)
         \/ \E d \in Device, s \in Serial : Retire(p, d, s)
         \/ Revoke(p) \/ Open(p) \/ Tar(p) \/ Look(p) \/ Clear(p) \/ Move(p) \/ InitCa(p)
  PROVE  /\ stage'[q] = stage[q] /\ job'[q] = job[q]
         /\ flock = q => flock' = q
         /\ q \in readers => q \in readers'
         /\ created \subseteq created'
<1>1. ASSUME Leave(p)
      PROVE  stage'[q] = stage[q] /\ job'[q] = job[q] /\ (flock = q => flock' = q)
  BY <1>1 DEF Leave, Proceed, PkiTypeOK
<1>2. ASSUME NEW verb \in DOMAIN FirstStage, NEW d \in Device, Start(p, verb, d)
      PROVE  /\ stage'[q] = stage[q] /\ job'[q] = job[q] /\ flock' = flock
             /\ readers' = readers /\ created \subseteq created'
  BY <1>2 DEF Start, Proceed, PkiTypeOK, locks
<1>3. ASSUME NEW d, NEW s, ToRevoke(p, d, s)
      PROVE  stage'[q] = stage[q] /\ job'[q] = job[q]
  BY <1>3 DEF Proceed, ToRevoke, PkiTypeOK
<1>4. CASE Abort(p) \/ Deliver(p) \/ Tar(p) \/ Move(p) \/ InitCa(p)
  BY <1>1, <1>4 DEF Abort, Deliver, Tar, Move, InitCa, Leave, history
<1>5. CASE Lock(p) \/ List(p) \/ Revoke(p) \/ Open(p) \/ Look(p) \/ Clear(p)
  BY <1>5, PkiAssumption DEF Lock, List, Revoke, Open, Look, Clear, Proceed, PkiTypeOK, locks, history
<1>6. CASE Issue(p)
  BY <1>6 DEF Issue, Proceed, PkiTypeOK, history
<1>7. CASE Publish(p)
  BY <1>1, <1>7 DEF Publish, Proceed, PkiTypeOK, history, Leave
<1>8. ASSUME NEW h \in hints, NEW s \in h.old, Obey(p, h, s)
      PROVE  /\ stage'[q] = stage[q] /\ job'[q] = job[q] /\ flock' = flock
             /\ readers' = readers /\ created \subseteq created'
  BY <1>3, <1>8 DEF Obey, locks, history
<1>9. ASSUME NEW d \in Device, NEW s \in Serial, Retire(p, d, s)
      PROVE  /\ stage'[q] = stage[q] /\ job'[q] = job[q] /\ flock' = flock
             /\ readers' = readers /\ created \subseteq created'
  BY <1>3, <1>9 DEF Retire, locks
<1> QED
  BY <1>2, <1>4, <1>5, <1>6, <1>7, <1>8, <1>9

(* Who leaves is idle and knows nothing.                                    *)
LEMMA Left ==
  ASSUME PkiTypeOK, NEW p \in Proc, Leave(p)
  PROVE  stage'[p] = "idle" /\ job'[p] = NoJob
BY DEF Leave, Proceed, PkiTypeOK

(* What a command of p's leaves of the stages of the others.                *)
LEMMA OtherStages ==
  ASSUME PkiTypeOK, StageInv, NEW p \in Proc, NEW q \in Proc, q # p,
         HasCa(store) => HasCa(store'),
         stage'[q] = stage[q] /\ job'[q] = job[q], flock = q => flock' = q,
         writer' = q <=> writer = q, created \subseteq created'
  PROVE  StageOf(q)'
BY DEF StageInv, StageOf, Working, Enrolling

(* Stages: each command takes its own way through them.                     *)
LEMMA StageStep ==
  PkiTypeOK /\ StageInv /\ RevokeInv /\ [PkiNext]_pkiVars => StageInv'
<1> SUFFICES ASSUME PkiTypeOK, StageInv, RevokeInv, [PkiNext]_pkiVars PROVE StageInv'
  OBVIOUS
<1> USE PkiAssumption
<1>1. ASSUME HasCa(store), ~MoveAside PROVE HasCa(store')
  BY <1>1, StoreGrows
<1>2. ASSUME NEW p \in Proc, ~MoveAside, StageOf(p)',
             \A q \in Proc \ {p} :
               /\ stage'[q] = stage[q] /\ job'[q] = job[q]
               /\ flock = q => flock' = q
               /\ writer' = q <=> writer = q,
             created \subseteq created'
      PROVE  StageInv'
  BY <1>1, <1>2, OtherStages DEF StageInv
<1>3. ASSUME MoveAside PROVE StageInv'
  BY <1>3 DEF MoveAside, StageInv, StageOf, Working, Enrolling, locks, command
<1>4. ASSUME UNCHANGED <<command, locks, created>>, ~MoveAside PROVE StageInv'
  BY <1>1, <1>4 DEF StageInv, StageOf, Working, Enrolling, locks, command
<1>5. ASSUME NEW p \in Proc, Leave(p), writer' # p PROVE StageOf(p)'
  BY <1>5, Left DEF StageOf, Working
<1>6. ASSUME NEW p \in Proc, NEW verb \in DOMAIN FirstStage, NEW d \in Device,
             Start(p, verb, d), ~MoveAside
      PROVE  StageInv'
  <2>1. stage'[p] = FirstStage[verb] /\ job'[p].verb = verb /\ job'[p].device = d
    BY <1>6 DEF Start, Proceed, PkiTypeOK, NoJob
  <2>2. StageOf(p)'
    BY <1>6, <2>1 DEF Start, StageInv, StageOf, Working, Enrolling, FirstStage, locks
  <2> QED
    BY <1>2, <1>6, <2>2, OthersStay DEF Start, locks
<1>7. ASSUME NEW p \in Proc, Abort(p), ~MoveAside PROVE StageInv'
  <2>1. Leave(p) /\ writer' = (IF writer = p THEN None ELSE writer) /\ created' = created
    BY <1>7 DEF Abort, history
  <2> QED
    BY <1>2, <1>5, <1>7, <2>1, OthersStay
<1>8. ASSUME NEW p \in Proc, Lock(p), ~MoveAside PROVE StageInv'
  <2>1. StageOf(p)'
    BY <1>1, <1>8 DEF Lock, Proceed, StageInv, StageOf, Working, Enrolling, PkiTypeOK
  <2>2. writer' = writer /\ created' = created
    BY <1>8 DEF Lock, history
  <2> QED
    BY <1>2, <1>8, <2>1, <2>2, OthersStay
<1>9. ASSUME NEW p \in Proc, List(p), ~MoveAside PROVE StageInv'
  <2>1. job'[p].verb = job[p].verb /\ stage'[p] = "issue" /\ writer' = writer /\ flock' = flock
        /\ store' = store /\ created' = created
    BY <1>9 DEF List, Proceed, PkiTypeOK, Job, locks, history
  <2>2. StageOf(p)'
    BY <1>9, <2>1 DEF List, StageInv, StageOf, Working, Enrolling
  <2> QED
    BY <1>2, <1>9, <2>1, <2>2, OthersStay
<1>10. ASSUME NEW p \in Proc, Issue(p), ~MoveAside PROVE StageInv'
  <2>1. /\ job'[p].verb = job[p].verb /\ job'[p].device = job[p].device
        /\ flock' = flock /\ created' = created
        /\ \/ stage'[p] = "deliver" /\ writer' = writer
           \/ stage'[p] = "publish" /\ writer' = p /\ job[p].verb # "rotate"
    BY <1>10 DEF Issue, Proceed, PkiTypeOK, Job, history
  <2>2. HasCa(store') /\ writer = None
    BY <1>1, <1>10 DEF Issue, Unlocked
  <2>3. StageOf(p)'
    BY <1>10, <2>1, <2>2 DEF Issue, StageInv, StageOf, Working, Enrolling
  <2> QED
    BY <1>2, <1>10, <2>1, <2>2, <2>3, OthersStay
<1>11. ASSUME NEW p \in Proc, Publish(p), ~MoveAside PROVE StageInv'
  <2>1. HasCa(store') /\ writer = p /\ writer' = None /\ created' = created
    BY <1>1, <1>11 DEF Publish, StageInv, StageOf, Working, history
  <2>2. CASE Leave(p)
    BY <1>2, <1>5, <1>11, <2>1, <2>2, OthersStay
  <2>3. CASE Proceed(p, "deliver") /\ UNCHANGED <<job, flock>> /\ job[p].verb # "revoke"
    <3>1. StageOf(p)'
      BY <1>11, <2>1, <2>3 DEF Publish, Proceed, StageInv, StageOf, Working, Enrolling, PkiTypeOK
    <3> QED
      BY <1>2, <1>11, <2>1, <3>1, OthersStay
  <2> QED
    BY <1>11, <2>2, <2>3 DEF Publish
<1>12. ASSUME NEW p \in Proc, Deliver(p) \/ Tar(p) \/ Move(p) \/ InitCa(p), ~MoveAside
       PROVE  StageInv'
  <2>1. Leave(p) /\ writer' = writer /\ created' = created /\ writer # p
    BY <1>12 DEF Deliver, Tar, Move, InitCa, StageInv, StageOf, history
  <2> QED
    BY <1>2, <1>5, <1>12, <2>1, OthersStay
<1>13. ASSUME NEW p \in Proc, NEW d, NEW s, ToRevoke(p, d, s),
              UNCHANGED <<store, locks, created>>, ~MoveAside
       PROVE  StageOf(p)'
  BY <1>13 DEF ToRevoke, Proceed, StageInv, StageOf, Working, Enrolling, NoJob, PkiTypeOK, locks
<1>14. ASSUME NEW p \in Proc, NEW h \in hints, NEW s \in h.old, Obey(p, h, s), ~MoveAside
       PROVE  StageInv'
  BY <1>2, <1>13, <1>14, OthersStay DEF Obey, locks, history
<1>15. ASSUME NEW p \in Proc, NEW d \in Device, NEW s \in Serial, Retire(p, d, s), ~MoveAside
       PROVE  StageInv'
  BY <1>2, <1>13, <1>15, OthersStay DEF Retire, locks
<1>16. ASSUME NEW p \in Proc, Revoke(p), ~MoveAside PROVE StageInv'
  <2>1. stage'[p] = "publish" /\ job'[p] = job[p] /\ HasCa(store') /\ writer = None /\ writer' = p
        /\ job[p].verb = "revoke" /\ created' = created
    BY <1>1, <1>16 DEF Revoke, Proceed, Unlocked, PkiTypeOK, StageInv, StageOf, history
  <2>2. StageOf(p)'
    BY <2>1 DEF StageOf, Working, Enrolling
  <2> QED
    BY <1>2, <1>16, <2>1, <2>2, OthersStay
<1>17. ASSUME NEW p \in Proc, Open(p) \/ Look(p) \/ Clear(p), ~MoveAside PROVE StageInv'
  <2>1. writer' = writer /\ created' = created /\ writer # p
        /\ ((stage'[p] = "tar" /\ HasCa(store')) \/ stage'[p] \in {"clear", "move"})
    BY <1>1, <1>17 DEF Open, Look, Clear, Proceed, PkiTypeOK, StageInv, StageOf, locks, history
  <2>2. StageOf(p)'
    BY <2>1 DEF StageOf, Working, Enrolling
  <2> QED
    BY <1>2, <1>17, <2>1, <2>2, OthersStay
<1>18. CASE UNCHANGED <<command, locks, created>>
  BY <1>3, <1>4, <1>18
<1>19. CASE PkiNext
  BY <1>3, <1>6, <1>7, <1>8, <1>9, <1>10, <1>11, <1>12, <1>14, <1>15, <1>16, <1>17, <1>18, <1>19
     DEF PkiNext, Install, RefreshCrl, history
<1> QED
  BY <1>18, <1>19 DEF pkiVars, history

(* A later store forgets nothing.                                           *)
LEMMA LaterIsPrefix ==
  ASSUME NEW s \in CaStore, NEW t, Later(s, t)
  PROVE  IsPrefix(s.issued, t.issued)
<1>1. /\ s.issued \in Seq(Device) /\ Len(s.issued) \in Nat
      /\ t.issued \in Seq(Device) /\ Len(t.issued) \in Nat
      /\ Len(s.issued) <= Len(t.issued)
      /\ \A n \in 1..Len(s.issued) : t.issued[n] = s.issued[n]
  BY StoreFields, PkiAssumption DEF Later
<1>2. SubSeq(t.issued, 1, Len(s.issued)) = s.issued
  BY <1>1
<1> QED
  BY <1>1, <1>2 DEF IsPrefix

(* Neither does a command.                                                  *)
LEMMA NothingIsForgottenStep ==
  PkiTypeOK /\ StageInv /\ RevokeInv /\ [PkiNext]_pkiVars =>
    (HasCa(store) =>
       \/ aside' = store
       \/ /\ HasCa(store')
          /\ IsPrefix(store.issued, store'.issued)
          /\ store.revoked \subseteq store'.revoked)
<1> SUFFICES ASSUME PkiTypeOK, StageInv, RevokeInv, [PkiNext]_pkiVars, HasCa(store), ~MoveAside
             PROVE  /\ HasCa(store')
                    /\ IsPrefix(store.issued, store'.issued)
                    /\ store.revoked \subseteq store'.revoked
  BY DEF MoveAside
<1>1. HasCa(store') /\ Later(store, store') /\ store \in CaStore
  BY StoreGrows, StoresAreCas DEF PkiTypeOK
<1> QED
  BY <1>1, LaterIsPrefix DEF Later

(* The CRLs: who publishes one ends with a whole store, whoever is killed   *)
(* before leaves a torn one, and no backup begins in between.               *)
LEMMA WholeStep ==
  PkiTypeOK /\ StageInv /\ WholeInv /\ RevokeInv /\ [PkiNext]_pkiVars => WholeInv'
<1> SUFFICES ASSUME PkiTypeOK, StageInv, WholeInv, RevokeInv, [PkiNext]_pkiVars PROVE WholeInv'
  OBVIOUS
<1> USE PkiAssumption
<1>1. HasCa(store) => store \in CaStore
  BY StoresAreCas DEF PkiTypeOK
<1>2. \A p \in Proc : stage[p] = "tar" => HasCa(store) /\ writer = None
  BY DEF StageInv, StageOf, Working, WholeInv
(* A command that is not a backup, and leaves the store, the archive and    *)
(* what the others have alone.                                              *)
<1>3. ASSUME NEW p \in Proc,
             \A q \in Proc \ {p} :
               stage'[q] = stage[q] /\ job'[q] = job[q] /\ (q \in readers => q \in readers'),
             UNCHANGED <<archive, aside>>,
             HasCa(store') /\ writer' = None => Whole(store'),
             (\E q \in Proc \ {p} : stage[q] = "tar") => UNCHANGED <<store, writer>>,
             stage'[p] = "tar" => p \in readers' /\ writer' = None /\ job'[p].copy = store',
             stage'[p] \in {"clear", "move"} => job'[p].copy # None /\ Whole(job'[p].copy)
      PROVE  WholeInv'
  BY <1>3 DEF WholeInv
<1>4. ASSUME UNCHANGED <<store, writer>>
      PROVE  HasCa(store') /\ writer' = None => Whole(store')
  BY <1>4 DEF WholeInv
<1>5. ASSUME UNCHANGED <<command, locks, archive, aside, store>> PROVE WholeInv'
  BY <1>4, <1>5 DEF WholeInv, command, locks
<1>6. ASSUME NEW p \in Proc, NEW verb \in DOMAIN FirstStage, NEW d \in Device, Start(p, verb, d)
      PROVE  WholeInv'
  <2>1. UNCHANGED <<store, writer, archive, aside>>
        /\ stage'[p] \in {"lock", "issue", "open", "look", "init"}
    BY <1>6 DEF Start, Proceed, FirstStage, PkiTypeOK, locks
  <2> QED
    BY <1>3, <1>4, <1>6, <2>1, OthersStay
<1>7. ASSUME NEW p \in Proc, Abort(p) PROVE WholeInv'
  <2>1. /\ UNCHANGED <<archive, aside>> /\ stage'[p] = "idle"
        /\ store' = IF writer = p THEN Tearing(store) ELSE store
        /\ writer' = IF writer = p THEN None ELSE writer
    BY <1>7, Left DEF Abort, history, Tearing
  <2>2. CASE writer = p
    <3>1. store \in CaStore
      BY <1>1, <2>2 DEF StageInv, StageOf, Working
    <3>2. Whole(store')
      BY <2>1, <2>2, <3>1, ChangedStore
    <3>3. ~\E q \in Proc : stage[q] = "tar"
      BY <1>2, <2>2
    <3> QED
      BY <1>3, <1>7, <2>1, <3>2, <3>3, OthersStay
  <2>3. CASE writer # p
    BY <1>3, <1>4, <1>7, <2>1, <2>3, OthersStay
  <2> QED
    BY <2>2, <2>3
<1>8. ASSUME NEW p \in Proc, Lock(p) \/ List(p) PROVE WholeInv'
  <2>1. UNCHANGED <<store, writer, archive, aside>> /\ stage'[p] \in {"list", "issue"}
    BY <1>8 DEF Lock, List, Proceed, PkiTypeOK, locks, history
  <2> QED
    BY <1>3, <1>4, <1>8, <2>1, OthersStay
<1>9. ASSUME Unlocked PROVE ~\E q \in Proc : stage[q] = "tar"
  BY <1>9 DEF Unlocked, WholeInv
<1>10. ASSUME NEW p \in Proc, Issue(p) PROVE WholeInv'
  <2> DEFINE gone == IF job[p].verb = "rotate" THEN {} ELSE Active(store, job[p].device)
  <2>1. /\ UNCHANGED <<archive, aside>> /\ Unlocked /\ HasCa(store) /\ writer = None
        /\ store' = Issuing(store, job[p].device, gone)
        /\ Len(store.issued) < MaxSerial /\ job[p].device \in Device
        /\ stage'[p] \in {"publish", "deliver"}
        /\ (writer' = p \/ gone = {})
    BY <1>10 DEF Issue, Proceed, Unlocked, Issuing, PkiTypeOK, history
  <2>2. gone \in SUBSET DOMAIN store.issued /\ store \in CaStore
    BY <1>1, <2>1, StoreFields
  <2> HIDE DEF gone
  <2>3. writer' = None => Whole(store')
    <3>1. Whole(store)
      BY <2>1 DEF WholeInv
    <3>2. /\ store'.revoked = store.revoked \cup gone /\ store'.listed = store.listed
          /\ store'.torn = store.torn
      BY <2>1, <2>2, IssuedStore
    <3> QED
      BY <2>1, <3>1, <3>2 DEF Whole
  <2> QED
    BY <1>3, <1>9, <1>10, <2>1, <2>3, OthersStay
<1>11. ASSUME NEW p \in Proc, Publish(p) PROVE WholeInv'
  <2>1. /\ UNCHANGED <<archive, aside>> /\ writer = p /\ store' = Publishing(store)
        /\ store \in CaStore
    BY <1>1, <1>11 DEF Publish, Publishing, StageInv, StageOf, Working, history
  <2>2. Whole(store') /\ ~\E q \in Proc : stage[q] = "tar"
    BY <1>2, <2>1, ChangedStore
  <2>3. stage'[p] \in {"idle", "deliver"}
    BY <1>11, Left DEF Publish, Proceed, PkiTypeOK
  <2> QED
    BY <1>3, <1>11, <2>1, <2>2, <2>3, OthersStay
<1>12. ASSUME NEW p \in Proc, Deliver(p) PROVE WholeInv'
  <2>1. UNCHANGED <<store, writer, archive, aside>> /\ stage'[p] = "idle"
    BY <1>12, Left DEF Deliver, history
  <2> QED
    BY <1>3, <1>4, <1>12, <2>1, OthersStay
<1>13. ASSUME NEW p \in Proc, NEW h \in hints, NEW s \in h.old, Obey(p, h, s) PROVE WholeInv'
  <2>1. UNCHANGED <<store, writer, archive, aside>> /\ stage'[p] = "revoke"
    BY <1>13 DEF Obey, ToRevoke, Proceed, PkiTypeOK, locks, history
  <2> QED
    BY <1>3, <1>4, <1>13, <2>1, OthersStay
<1>14. ASSUME NEW p \in Proc, NEW d \in Device, NEW s \in Serial, Retire(p, d, s) PROVE WholeInv'
  <2>1. UNCHANGED <<store, writer, archive, aside>> /\ stage'[p] = "revoke"
    BY <1>14 DEF Retire, ToRevoke, Proceed, PkiTypeOK, locks
  <2> QED
    BY <1>3, <1>4, <1>14, <2>1, OthersStay
<1>15. ASSUME NEW p \in Proc, Revoke(p) PROVE WholeInv'
  <2>1. UNCHANGED <<archive, aside>> /\ Unlocked /\ writer' = p /\ stage'[p] = "publish"
    BY <1>15 DEF Revoke, Proceed, PkiTypeOK, history
  <2> QED
    BY <1>3, <1>9, <1>15, <2>1, OthersStay
<1>16. CASE RefreshCrl
  <2>1. UNCHANGED <<command, locks, archive, aside>> /\ Unlocked /\ store' = Publishing(store)
        /\ store \in CaStore
    BY <1>1, <1>16 DEF RefreshCrl, Publishing, history
  <2>2. Whole(store')
    BY <2>1, ChangedStore
  <2> QED
    BY <1>9, <2>1, <2>2 DEF WholeInv, command, locks
<1>17. ASSUME NEW p \in Proc, Open(p) PROVE WholeInv'
  <2>1. /\ UNCHANGED <<store, writer, archive, aside>> /\ writer = None
        /\ p \in readers' /\ job'[p].copy = store /\ stage'[p] = "tar"
    BY <1>17 DEF Open, Proceed, PkiTypeOK, Job, history
  <2> QED
    BY <1>3, <1>4, <1>17, <2>1, OthersStay
<1>18. ASSUME NEW p \in Proc, Tar(p) PROVE WholeInv'
  <2>1. /\ UNCHANGED <<store, writer, aside>> /\ stage'[p] = "idle"
        /\ HasCa(store) /\ writer = None /\ job[p].copy = store
    BY <1>2, <1>18, Left DEF Tar, WholeInv, history
  <2>2. archive' = store
    BY <1>1, <1>18, <2>1 DEF Tar, CaStore, Store
  <2>3. Whole(archive')
    BY <2>1, <2>2 DEF WholeInv
  <2>4. \A q \in Proc \ {p} :
          stage'[q] = stage[q] /\ job'[q] = job[q] /\ (q \in readers => q \in readers')
    BY <1>18, OthersStay
  <2> QED
    BY <1>4, <2>1, <2>3, <2>4 DEF WholeInv
<1>19. ASSUME NEW p \in Proc, Look(p) \/ Clear(p) PROVE WholeInv'
  <2>1. UNCHANGED <<writer, archive, aside>> /\ ~HasCa(store) /\ ~HasCa(store')
        /\ stage'[p] \in {"clear", "move"} /\ job'[p].copy # None /\ Whole(job'[p].copy)
    BY <1>19 DEF Look, Clear, Proceed, PkiTypeOK, Job, locks, history, WholeInv, HasCa
  <2> QED
    BY <1>2, <1>3, <1>19, <2>1, OthersStay
<1>20. ASSUME NEW p \in Proc, Move(p) PROVE WholeInv'
  <2>1. UNCHANGED <<writer, archive, aside>> /\ stage'[p] = "idle"
        /\ (store' = store \/ (store = Missing /\ store' = job[p].copy))
    BY <1>20, Left DEF Move
  <2>2. Whole(job[p].copy)
    BY <1>20 DEF Move, WholeInv
  <2>3. store = Missing => ~HasCa(store)
    BY DEF HasCa
  <2> QED
    BY <1>2, <1>3, <1>4, <1>20, <2>1, <2>2, <2>3, OthersStay
<1>21. ASSUME NEW p \in Proc, InitCa(p) PROVE WholeInv'
  <2>1. UNCHANGED <<writer, archive, aside>> /\ stage'[p] = "idle" /\ ~HasCa(store)
        /\ store' = NewStore
    BY <1>21, Left DEF InitCa
  <2>2. Whole(NewStore)
    BY DEF Whole, NewStore
  <2> QED
    BY <1>2, <1>3, <1>21, <2>1, <2>2, OthersStay
<1>22. CASE MoveAside
  <2>1. /\ UNCHANGED <<command, locks, archive>> /\ aside' = store /\ HasCa(store)
        /\ ~HasCa(store') /\ \A p \in Proc : stage[p] # "tar" /\ stage[p] # "publish"
    BY <1>22 DEF MoveAside, HasCa
  <2>2. writer = None
    BY <2>1 DEF StageInv, StageOf, PkiTypeOK
  <2> QED
    BY <2>1, <2>2 DEF WholeInv, command, locks
<1>23. CASE UNCHANGED pkiVars
  BY <1>5, <1>23 DEF pkiVars, history
<1>24. ASSUME NEW s \in Serial, Install(s) PROVE WholeInv'
  BY <1>5, <1>24 DEF Install, history
<1> QED
  BY <1>6, <1>7, <1>8, <1>10, <1>11, <1>12, <1>13, <1>14, <1>15, <1>16, <1>17, <1>18, <1>19,
     <1>20, <1>21, <1>22, <1>23, <1>24 DEF PkiNext

(* Only a new certificate changes the index, and then only its end.         *)
LEMMA IndexStays ==
  ASSUME PkiTypeOK, StageInv, RevokeInv, [PkiNext]_pkiVars, HasCa(store), ~MoveAside,
         ~\E p \in Proc : Issue(p)
  PROVE  store'.issued = store.issued
<1>1. store \in CaStore
  BY StoresAreCas DEF PkiTypeOK
<1>2. ASSUME NEW p \in Proc, Abort(p) PROVE store'.issued = store.issued
  BY <1>1, <1>2, ChangedStore DEF Abort, Tearing
<1>3. ASSUME NEW p \in Proc, Revoke(p) PROVE store'.issued = store.issued
  BY <1>1, <1>3, ChangedStore DEF Revoke, Revoking, RevokeInv, RevokeOf
<1>4. ASSUME (\E p \in Proc : Publish(p)) \/ RefreshCrl PROVE store'.issued = store.issued
  BY <1>1, <1>4, ChangedStore DEF Publish, RefreshCrl, Publishing
<1>5. ASSUME NEW p \in Proc, Clear(p) \/ InitCa(p) PROVE FALSE
  BY <1>5 DEF Clear, InitCa
<1>6. ASSUME NEW p \in Proc, Move(p) PROVE store' = store
  BY <1>6 DEF Move, HasCa
<1> QED
  BY <1>2, <1>3, <1>4, <1>5, <1>6
     DEF PkiNext, Start, Lock, List, Deliver, Obey, Retire, Open, Tar, Look, Install, pkiVars

(* What is active later was so before, but for the newly issued.            *)
LEMMA ActiveBefore ==
  ASSUME NEW s \in CaStore, NEW t, Later(s, t), NEW d,
         NEW n \in Active(t, d), n \in DOMAIN s.issued
  PROVE  n \in Active(s, d)
BY DEF Later, Active

(* Serials are positive.                                                    *)
LEMMA NumberedFromOne ==
  ASSUME NEW s \in CaStore, NEW d, NEW n \in Active(s, d)
  PROVE  n \in 1..Len(s.issued) /\ n \in Nat /\ Len(s.issued) \in Nat
BY StoreFields, PkiAssumption DEF Active

(* History only grows.                                                      *)
LEMMA HistoryGrows ==
  PkiTypeOK /\ [PkiNext]_pkiVars =>
    created \subseteq created' /\ retired \subseteq retired' /\ (rewound => rewound')
<1> SUFFICES ASSUME PkiTypeOK, [PkiNext]_pkiVars
             PROVE  created \subseteq created' /\ retired \subseteq retired' /\ (rewound => rewound')
  OBVIOUS
<1>1. ASSUME NEW p \in Proc, Move(p) \/ InitCa(p)
      PROVE  created' = created /\ retired' = retired /\ (rewound => rewound')
  BY <1>1 DEF Move, InitCa
<1>2. ASSUME UNCHANGED <<created, retired, rewound>>
      PROVE  created \subseteq created' /\ retired \subseteq retired' /\ (rewound => rewound')
  BY <1>2
<1>3. CASE UNCHANGED pkiVars
  BY <1>2, <1>3 DEF pkiVars, history
<1>4. ASSUME NEW p \in Proc, NEW verb \in DOMAIN FirstStage, NEW d \in Device, Start(p, verb, d)
      PROVE  created \subseteq created' /\ retired \subseteq retired' /\ (rewound => rewound')
  BY <1>4 DEF Start
<1>5. ASSUME NEW p \in Proc, NEW d \in Device, NEW s \in Serial, Retire(p, d, s)
      PROVE  created \subseteq created' /\ retired \subseteq retired' /\ (rewound => rewound')
  BY <1>5 DEF Retire
<1>6. ASSUME PkiNext,
             \A p \in Proc :
               /\ \A verb \in DOMAIN FirstStage, d \in Device : ~Start(p, verb, d)
               /\ \A d \in Device, s \in Serial : ~Retire(p, d, s)
               /\ ~Move(p) /\ ~InitCa(p)
      PROVE  UNCHANGED <<created, retired, rewound>>
  BY <1>6 DEF PkiNext, history, Abort, Lock, List, Issue, Publish, Deliver, Obey, Revoke, Open, Tar,
              Look, Clear, Install, RefreshCrl, MoveAside
<1> QED
  BY <1>1, <1>2, <1>3, <1>4, <1>5, <1>6

(* What a command of p's leaves of what the others have listed and issued.  *)
LEMMA OtherIssues ==
  ASSUME PkiTypeOK, StageInv, RevokeInv, IssueInv, PkiNext, ~MoveAside,
         NEW p \in Proc, NEW q \in Proc, q # p,
         stage'[q] = stage[q], job'[q] = job[q], created \subseteq created',
         \A r \in Proc : Issue(r) => r = p
  PROVE  IssueOf(q)'
<1>1. CASE ~Working(q)
  BY <1>1 DEF Working, IssueInv, IssueOf, Enrolling
<1>2. CASE Working(q)
  <2>1. HasCa(store) /\ store \in CaStore /\ Later(store, store') /\ store' \in CaStore
    BY <1>2, StoreGrows, StoresAreCas DEF StageInv, StageOf, PkiTypeOK
  <2>2. DOMAIN store.issued \subseteq DOMAIN store'.issued
    BY <2>1 DEF Later
  <2>3. ASSUME NEW s \in Active(store', job[q].device), s < job[q].serial,
               stage[q] = "deliver"
        PROVE  s \in Active(store, job[q].device)
    <3>1. job[q].serial \in 1..Len(store.issued) /\ Len(store.issued) \in Nat
      BY <2>1, <2>3, StoreFields, PkiAssumption DEF IssueInv, IssueOf
    <3>2. s \in DOMAIN store.issued
      BY <2>1, <2>3, <3>1, NumberedFromOne, StoreFields
    <3> QED
      BY <2>1, <2>3, <3>2, ActiveBefore
  <2>4. ASSUME NEW s \in Active(store', job[q].device), stage[q] = "issue", Enrolling(q),
               job[q].device \notin created
        PROVE  s \in Active(store, job[q].device)
    <3>1. CASE Issue(p)
      <4>1. job[p].device \in created
        BY <2>4, <3>1 DEF StageInv, StageOf, Issue
      <4> DEFINE gone == IF job[p].verb = "rotate" THEN {} ELSE Active(store, job[p].device)
      <4>2. /\ store' = Issuing(store, job[p].device, gone) /\ Len(store.issued) < MaxSerial
            /\ gone \in SUBSET DOMAIN store.issued /\ job[p].device \in Device
        BY <2>1, <3>1, StoreFields DEF Issue, Issuing, PkiTypeOK
      <4> HIDE DEF gone
      <4>3. /\ Len(store'.issued) = Len(store.issued) + 1
            /\ store'.issued[Len(store.issued) + 1] = job[p].device
        BY <2>1, <4>2, IssuedStore
      <4>4. s # Len(store.issued) + 1
        BY <2>4, <4>1, <4>3 DEF Active
      <4>5. s \in 1..(Len(store.issued) + 1) /\ Len(store.issued) \in Nat
        BY <2>1, <2>4, <4>3, NumberedFromOne, StoreFields, PkiAssumption
      <4>6. s \in DOMAIN store.issued
        BY <2>1, <4>4, <4>5, StoreFields
      <4> QED
        BY <2>1, <2>4, <4>6, ActiveBefore
    <3>2. CASE ~Issue(p)
      <4>1. store'.issued = store.issued
        BY <2>1, <3>2, IndexStays
      <4>2. s \in DOMAIN store.issued
        BY <2>4, <4>1 DEF Active
      <4> QED
        BY <2>1, <2>4, <4>2, ActiveBefore
    <3> QED
      BY <3>1, <3>2
  <2> QED
    BY <2>2, <2>3, <2>4 DEF IssueInv, IssueOf, Enrolling
<1> QED
  BY <1>1, <1>2

(* What is listed under the flock stays true until the command is over.     *)
LEMMA IssueStep ==
  PkiTypeOK /\ StageInv /\ RevokeInv /\ IssueInv /\ [PkiNext]_pkiVars => IssueInv'
<1> SUFFICES ASSUME PkiTypeOK, StageInv, RevokeInv, IssueInv, [PkiNext]_pkiVars PROVE IssueInv'
  OBVIOUS
<1> USE PkiAssumption
<1>1. \A p \in Proc : Working(p) =>
        HasCa(store) /\ store \in CaStore /\ (MoveAside \/ Later(store, store'))
  BY StoreGrows, StoresAreCas DEF StageInv, StageOf, PkiTypeOK
<1>2. ASSUME NEW q \in Proc, stage'[q] = stage[q], Issue(q) PROVE FALSE
  BY <1>2 DEF Issue, Proceed, PkiTypeOK
<1>3. ASSUME NEW p \in Proc, PkiNext, ~MoveAside, IssueOf(p)',
             \A q \in Proc \ {p} : stage'[q] = stage[q] /\ job'[q] = job[q]
      PROVE  IssueInv'
  <2>1. \A r \in Proc : Issue(r) => r = p
    BY <1>3, <1>2
  <2> QED
    BY <1>3, <2>1, OtherIssues, HistoryGrows DEF IssueInv
<1>4. ASSUME UNCHANGED <<command, store, created>> PROVE IssueInv'
  BY <1>4 DEF IssueInv, IssueOf, Enrolling, command, Active
<1>5. CASE MoveAside
  BY <1>5 DEF MoveAside, IssueInv, IssueOf, Enrolling, command
<1>6. ASSUME NEW p \in Proc, stage'[p] \notin {"lock", "list", "issue", "publish", "deliver"}
      PROVE  IssueOf(p)'
  BY <1>6 DEF IssueOf
<1>7. ASSUME NEW p \in Proc, NEW verb \in DOMAIN FirstStage, NEW d \in Device, Start(p, verb, d),
             PkiNext, ~MoveAside
      PROVE  IssueInv'
  <2>1. stage'[p] = FirstStage[verb] /\ job'[p].verb = verb /\ job'[p].serial = 0
    BY <1>7 DEF Start, Proceed, PkiTypeOK, NoJob
  <2>2. IssueOf(p)'
    BY <2>1 DEF IssueOf, Enrolling, FirstStage
  <2> QED
    BY <1>3, <1>7, <2>2, OthersStay
<1>8. ASSUME NEW p \in Proc, PkiNext, ~MoveAside,
             Abort(p) \/ Deliver(p) \/ Tar(p) \/ Move(p) \/ InitCa(p)
      PROVE  IssueInv'
  <2>1. stage'[p] = "idle"
    BY <1>8, Left DEF Abort, Deliver, Tar, Move, InitCa
  <2> QED
    BY <1>3, <1>6, <1>8, <2>1, OthersStay
<1>9. ASSUME NEW p \in Proc, Lock(p), PkiNext, ~MoveAside PROVE IssueInv'
  <2>1. stage'[p] = "list" /\ stage[p] = "lock" /\ job' = job
    BY <1>9 DEF Lock, Proceed, PkiTypeOK
  <2>2. IssueOf(p)'
    BY <2>1 DEF IssueOf, Enrolling, IssueInv
  <2> QED
    BY <1>3, <1>9, <2>2, OthersStay
<1>10. ASSUME NEW p \in Proc, List(p), PkiNext, ~MoveAside PROVE IssueInv'
  <2> DEFINE previous == Active(store, job[p].device)
  <2>1. /\ stage'[p] = "issue" /\ stage[p] = "list" /\ store' = store
        /\ job'[p].verb = job[p].verb /\ job'[p].device = job[p].device
        /\ job'[p].serial = job[p].serial /\ job'[p].previous = previous
        /\ (previous = {}) <=> (job[p].verb = "enroll")
    BY <1>10 DEF List, Proceed, PkiTypeOK, Job
  <2>2. previous \subseteq DOMAIN store.issued
    BY DEF Active
  <2>3. previous = Active(store', job'[p].device)
    BY <2>1
  <2> HIDE DEF previous
  <2>4. IssueOf(p)'
    BY <2>1, <2>2, <2>3 DEF IssueOf, Enrolling, IssueInv
  <2> QED
    BY <1>3, <1>10, <2>4, OthersStay
<1>11. ASSUME NEW p \in Proc, Issue(p), PkiNext, ~MoveAside PROVE IssueInv'
  <2> DEFINE d == job[p].device
             gone == IF job[p].verb = "rotate" THEN {} ELSE Active(store, d)
  <2>1. /\ HasCa(store) /\ store \in CaStore /\ d \in Device /\ Len(store.issued) < MaxSerial
        /\ store' = Issuing(store, d, gone) /\ stage[p] = "issue"
        /\ stage'[p] \in {"publish", "deliver"}
        /\ job'[p].verb = job[p].verb /\ job'[p].device = d
        /\ job'[p].previous = job[p].previous /\ job'[p].serial = Len(store'.issued)
        /\ created' = created
    BY <1>11, StoresAreCas DEF Issue, Issuing, Proceed, PkiTypeOK, Job, history
  <2>2. gone \in SUBSET DOMAIN store.issued
    BY <2>1, StoreFields
  <2> HIDE DEF gone
  <2>3. /\ store' \in CaStore /\ Len(store'.issued) = Len(store.issued) + 1
        /\ Later(store, store')
    BY <2>1, <2>2, IssuedStore, LaterStores
  <2>4. /\ Len(store.issued) \in Nat /\ DOMAIN store.issued = 1..Len(store.issued)
        /\ DOMAIN store'.issued = 1..(Len(store.issued) + 1)
        /\ job'[p].serial = Len(store.issued) + 1
    BY <2>1, <2>3, StoreFields
  <2>5. job'[p].serial \in DOMAIN store'.issued
    BY <2>4
  <2>6. ASSUME job[p].verb = "rotate" PROVE \A s \in job[p].previous : s < job'[p].serial
    BY <2>1, <2>4, <2>6 DEF IssueInv, IssueOf, Enrolling
  <2>7. ASSUME job[p].verb = "rotate", d \notin created,
               NEW s \in Active(store', d), s < job'[p].serial
        PROVE  s \in job[p].previous
    <3>1. s \in DOMAIN store.issued
      BY <2>3, <2>4, <2>7, NumberedFromOne
    <3>2. s \in Active(store, d)
      BY <2>1, <2>3, <2>7, <3>1, ActiveBefore
    <3> QED
      BY <2>1, <2>7, <3>2 DEF IssueInv, IssueOf, Enrolling
  <2>8. IssueOf(p)'
    BY <2>1, <2>5, <2>6, <2>7 DEF IssueOf
  <2> QED
    BY <1>3, <1>11, <2>1, <2>8, OthersStay
<1>12. ASSUME NEW p \in Proc, Publish(p), PkiNext, ~MoveAside PROVE IssueInv'
  <2>1. CASE Leave(p)
    BY <1>3, <1>6, <1>12, <2>1, Left, OthersStay
  <2>2. CASE stage'[p] = "deliver" /\ job' = job
    <3>1. /\ job[p].verb # "rotate" /\ job[p].serial \in DOMAIN store.issued
          /\ Later(store, store')
      BY <1>1, <1>12 DEF Publish, StageInv, StageOf, Working, IssueInv, IssueOf
    <3>2. IssueOf(p)'
      BY <2>2, <3>1 DEF IssueOf, Enrolling, Later
    <3> QED
      BY <1>3, <1>12, <3>2, OthersStay
  <2> QED
    BY <1>12, <2>1, <2>2 DEF Publish, Proceed, PkiTypeOK
<1>13. ASSUME NEW p \in Proc, NEW h \in hints, NEW s \in h.old, Obey(p, h, s), PkiNext, ~MoveAside
       PROVE  IssueInv'
  <2>1. stage'[p] = "revoke"
    BY <1>13 DEF Obey, ToRevoke, Proceed, PkiTypeOK
  <2> QED
    BY <1>3, <1>6, <1>13, <2>1, OthersStay
<1>14. ASSUME NEW p \in Proc, NEW d \in Device, NEW s \in Serial, Retire(p, d, s), PkiNext, ~MoveAside
       PROVE  IssueInv'
  <2>1. stage'[p] = "revoke"
    BY <1>14 DEF Retire, ToRevoke, Proceed, PkiTypeOK
  <2> QED
    BY <1>3, <1>6, <1>14, <2>1, OthersStay
<1>15. ASSUME NEW p \in Proc, Revoke(p), PkiNext, ~MoveAside PROVE IssueInv'
  <2>1. /\ stage'[p] = "publish" /\ job' = job /\ store \in CaStore /\ Later(store, store')
        /\ job[p].serial \in DOMAIN store.issued
    BY <1>1, <1>15 DEF Revoke, Proceed, PkiTypeOK, Working, RevokeInv, RevokeOf
  <2>2. IssueOf(p)'
    BY <2>1 DEF IssueOf, Later
  <2> QED
    BY <1>3, <1>15, <2>2, OthersStay
<1>16. ASSUME NEW p \in Proc, Open(p) \/ Look(p) \/ Clear(p), PkiNext, ~MoveAside PROVE IssueInv'
  <2>1. stage'[p] \in {"tar", "clear", "move"}
    BY <1>16 DEF Open, Look, Clear, Proceed, PkiTypeOK
  <2> QED
    BY <1>3, <1>6, <1>16, <2>1, OthersStay
<1>17. CASE RefreshCrl
  <2>1. store \in CaStore /\ store' = Publishing(store) /\ UNCHANGED <<command, created>>
    BY <1>17, StoresAreCas DEF RefreshCrl, Publishing, PkiTypeOK, history
  <2>2. \A d : Active(store', d) = Active(store, d) /\ store'.issued = store.issued
    BY <2>1, ChangedStore DEF Active
  <2> QED
    BY <2>1, <2>2 DEF IssueInv, IssueOf, Enrolling, command
<1>18. ASSUME NEW s \in Serial, Install(s) PROVE IssueInv'
  BY <1>4, <1>18 DEF Install, history
<1>19. CASE UNCHANGED pkiVars
  BY <1>4, <1>19 DEF pkiVars, history
<1> QED
  BY <1>5, <1>7, <1>8, <1>9, <1>10, <1>11, <1>12, <1>13, <1>14, <1>15, <1>16, <1>17, <1>18, <1>19
     DEF PkiNext

(* Who prints hints has issued, or failed to.                               *)
LEMMA NewHints ==
  ASSUME [PkiNext]_pkiVars, NEW h \in hints', h \notin hints
  PROVE  \E p \in Proc :
           /\ stage[p] \in {"issue", "deliver"} /\ job[p].verb = "rotate" /\ h = Hint(job[p])
           /\ Deliver(p) \/ Abort(p)
<1>1. \/ hints' = hints
      \/ \E p \in Proc : Deliver(p) \/ Abort(p)
  BY DEF PkiNext, Start, Lock, List, Issue, Publish, Obey, Retire, Revoke, Open, Tar,
         Look, Clear, Move, InitCa, Install, RefreshCrl, MoveAside, pkiVars, devices
<1>2. ASSUME NEW p \in Proc, Deliver(p)
      PROVE  stage[p] \in {"issue", "deliver"} /\ job[p].verb = "rotate" /\ h = Hint(job[p])
  BY <1>2 DEF Deliver
<1>3. ASSUME NEW p \in Proc, Abort(p)
      PROVE  stage[p] \in {"issue", "deliver"} /\ job[p].verb = "rotate" /\ h = Hint(job[p])
  BY <1>3 DEF Abort
<1> QED
  BY <1>1, <1>2, <1>3

(* A device loses no certificate.                                           *)
LEMMA InstalledGrows ==
  ASSUME PkiTypeOK, [PkiNext]_pkiVars, NEW d \in Device
  PROVE  installed[d] \subseteq installed'[d]
<1>1. ASSUME NEW s \in Serial, Install(s) PROVE installed[d] \subseteq installed'[d]
  BY <1>1 DEF Install, PkiTypeOK
<1>2. installed' = installed \/ \E s \in Serial : Install(s)
  BY DEF PkiNext, Start, Abort, Lock, List, Issue, Publish, Deliver, Obey, Retire, Revoke, Open, Tar,
         Look, Clear, Move, InitCa, RefreshCrl, MoveAside, pkiVars, devices
<1> QED
  BY <1>1, <1>2

(* The hints of failed rotations are about their own older certificates,    *)
(* and those who got no certificate are not followed.                       *)
LEMMA HintStep ==
  PkiTypeOK /\ StageInv /\ IssueInv /\ HintInv /\ [PkiNext]_pkiVars => HintInv'
<1> SUFFICES ASSUME PkiTypeOK, StageInv, IssueInv, HintInv, [PkiNext]_pkiVars PROVE HintInv'
  OBVIOUS
<1>1. ASSUME NEW p \in Proc, stage[p] \in {"issue", "deliver"}, job[p].verb = "rotate"
      PROVE  Hint(job[p]).new # 0 => \A s \in Hint(job[p]).old : s < Hint(job[p]).new
  BY <1>1 DEF IssueInv, IssueOf, Enrolling, Hint
<1>2. ASSUME NEW h \in hints' PROVE h \in hints \/ \E p \in Proc :
        stage[p] \in {"issue", "deliver"} /\ job[p].verb = "rotate" /\ h = Hint(job[p])
  BY <1>2, NewHints
<1> QED
  BY <1>1, <1>2 DEF HintInv

(* One of a device's certificates stays the newest.                         *)
LEMMA NewestStep == PkiTypeOK /\ NewestInv /\ [PkiNext]_pkiVars => NewestInv'
<1> SUFFICES ASSUME PkiTypeOK, NewestInv, [PkiNext]_pkiVars, NEW d \in Device, installed'[d] # {}
             PROVE  \E m \in installed'[d] : \A n \in installed'[d] : n <= m
  BY DEF NewestInv
<1>1. installed[d] \subseteq Serial
  BY DEF PkiTypeOK
<1>2. CASE installed'[d] = installed[d]
  BY <1>2 DEF NewestInv
<1>3. ASSUME NEW s \in Serial, installed'[d] = installed[d] \cup {s}
      PROVE  \E m \in installed'[d] : \A n \in installed'[d] : n <= m
  <2>1. CASE installed[d] = {}
    BY <1>3, <2>1, PkiAssumption DEF Serial
  <2>2. CASE installed[d] # {}
    <3>1. PICK m \in installed[d] : \A n \in installed[d] : n <= m
      BY <2>2 DEF NewestInv
    <3>2. CASE s <= m
      BY <1>3, <3>1, <3>2
    <3>3. CASE ~(s <= m)
      <4>1. \A n \in installed'[d] : n <= s
        BY <1>1, <1>3, <3>1, <3>3, PkiAssumption DEF Serial
      <4> QED
        BY <1>3, <4>1
    <3> QED
      BY <3>2, <3>3
  <2> QED
    BY <2>1, <2>2
<1>4. installed' = installed \/ \E s \in Serial : Install(s)
  BY DEF PkiNext, Start, Abort, Lock, List, Issue, Publish, Deliver, Obey, Retire, Revoke, Open, Tar,
         Look, Clear, Move, InitCa, RefreshCrl, MoveAside, pkiVars, devices
<1>5. ASSUME NEW s \in Serial, Install(s)
      PROVE  installed'[d] = installed[d] \/ installed'[d] = installed[d] \cup {s}
  BY <1>5 DEF Install, PkiTypeOK
<1> QED
  BY <1>2, <1>3, <1>4, <1>5

(* The device keeps its newer certificate while an older one is revoked.    *)
LEMMA RevokeStep ==
  PkiTypeOK /\ StageInv /\ RevokeInv /\ HintInv /\ [PkiNext]_pkiVars => RevokeInv'
<1> SUFFICES ASSUME PkiTypeOK, StageInv, RevokeInv, HintInv, [PkiNext]_pkiVars,
                    NEW q \in Proc, stage'[q] = "revoke"
             PROVE  /\ job'[q].serial \in DOMAIN store'.issued
                    /\ store'.issued[job'[q].serial] = job'[q].device
                    /\ job'[q].device \notin retired' =>
                         \E n \in installed'[job'[q].device] : job'[q].serial < n
  BY DEF RevokeInv, RevokeOf
<1> USE PkiAssumption
<1>1. CASE stage[q] = "revoke" /\ job'[q] = job[q]
  <2>1. HasCa(store) /\ store \in CaStore /\ Later(store, store')
    <3>1. HasCa(store) /\ store \in CaStore /\ ~MoveAside
      BY <1>1, StoresAreCas DEF StageInv, StageOf, Working, PkiTypeOK, MoveAside
    <3> QED
      BY <3>1, StoreGrows
  <2>2. \A d \in Device : installed[d] \subseteq installed'[d]
    BY InstalledGrows
  <2>3. job[q].device \in Device
    BY <1>1 DEF PkiTypeOK
  <2> QED
    BY <1>1, <2>1, <2>2, <2>3, HistoryGrows DEF RevokeInv, RevokeOf, Later
<1>2. ASSUME NEW h \in hints, NEW s \in h.old, Obey(q, h, s)
      PROVE  /\ job'[q].serial \in DOMAIN store'.issued
             /\ store'.issued[job'[q].serial] = job'[q].device
             /\ \E n \in installed'[job'[q].device] : job'[q].serial < n
  <2>1. /\ job'[q].serial = s /\ job'[q].device = h.device /\ UNCHANGED <<store, installed>>
        /\ s \in Active(store, h.device) /\ h.new \in installed[h.device]
    BY <1>2 DEF Obey, ToRevoke, PkiTypeOK, NoJob, devices
  <2>2. h.new # 0
    BY <2>1 DEF PkiTypeOK, Serial
  <2>3. s < h.new
    BY <2>2 DEF HintInv
  <2> QED
    BY <2>1, <2>3 DEF Active
<1>3. ASSUME NEW d \in Device, NEW s \in Serial, Retire(q, d, s)
      PROVE  /\ job'[q].serial \in DOMAIN store'.issued
             /\ store'.issued[job'[q].serial] = job'[q].device
             /\ job'[q].device \in retired'
  BY <1>3 DEF Retire, ToRevoke, PkiTypeOK, NoJob, Active
<1>4. ASSUME NEW p \in Proc, p # q,
             \/ \E verb \in DOMAIN FirstStage, d \in Device : Start(p, verb, d)
             \/ Abort(p) \/ Lock(p) \/ List(p) \/ Issue(p) \/ Publish(p) \/ Deliver(p)
             \/ \E h \in hints : \E s \in h.old : Obey(p, h, s)
             \/ \E d \in Device, s \in Serial : Retire(p, d, s)
             \/ Revoke(p) \/ Open(p) \/ Tar(p) \/ Look(p) \/ Clear(p) \/ Move(p) \/ InitCa(p)
      PROVE  stage[q] = "revoke" /\ job'[q] = job[q]
  BY <1>4, OthersStay
<1>5. ASSUME NEW verb \in DOMAIN FirstStage, NEW d \in Device, Start(q, verb, d) PROVE FALSE
  BY <1>5 DEF Start, Proceed, FirstStage, PkiTypeOK
<1>6. ASSUME Abort(q) \/ Deliver(q) \/ Tar(q) \/ Move(q) \/ InitCa(q) PROVE FALSE
  BY <1>6, Left DEF Abort, Deliver, Tar, Move, InitCa
<1>7. ASSUME Lock(q) \/ List(q) \/ Issue(q) \/ Revoke(q) \/ Open(q) \/ Look(q) \/ Clear(q) PROVE FALSE
  BY <1>7 DEF Lock, List, Issue, Revoke, Open, Look, Clear, Proceed, PkiTypeOK
<1>8. ASSUME Publish(q) PROVE FALSE
  BY <1>8, Left DEF Publish, Proceed, PkiTypeOK
<1>9. ASSUME RefreshCrl \/ MoveAside \/ (\E s \in Serial : Install(s)) \/ UNCHANGED pkiVars
      PROVE  stage[q] = "revoke" /\ job'[q] = job[q]
  BY <1>9 DEF RefreshCrl, MoveAside, Install, pkiVars, command
<1> QED
  BY <1>1, <1>2, <1>3, <1>4, <1>5, <1>6, <1>7, <1>8, <1>9 DEF PkiNext

(* While there is no store nobody issues or delivers, and the last one      *)
(* comes back or the history says that it did not.                          *)
LEMMA LostStore ==
  ASSUME PkiTypeOK, StageInv, WholeInv, [PkiNext]_pkiVars, ~HasCa(store), ~rewound'
  PROVE  /\ hints' = hints /\ installed' = installed /\ aside' = aside
         /\ HasCa(store') => store' = aside \/ (aside = None /\ store' = NewStore)
         /\ Ca' = Ca \/ (aside = None /\ Ca' = NewStore)
<1>1. \A p \in Proc : ~Working(p)
  BY DEF StageInv, StageOf
<1>2. ASSUME NEW p \in Proc
      PROVE  /\ ~Lock(p) /\ ~List(p) /\ ~Issue(p) /\ ~Publish(p) /\ ~Deliver(p) /\ ~Revoke(p)
             /\ ~Open(p) /\ ~Tar(p)
             /\ \A d, s : ~ToRevoke(p, d, s)
  BY <1>1 DEF Working, Lock, List, Issue, Publish, Deliver, Revoke, Open, Tar, ToRevoke
<1>3. ~RefreshCrl /\ ~MoveAside /\ \A s \in Serial : ~Install(s)
  BY DEF RefreshCrl, MoveAside, Install
<1>4. ASSUME NEW p \in Proc, Abort(p)
      PROVE  hints' = hints /\ store' = store /\ installed' = installed /\ aside' = aside
  <2>1. writer # p /\ ~(stage[p] \in {"issue", "deliver"} /\ job[p].verb = "rotate")
    BY <1>1 DEF Working, Enrolling, StageInv, StageOf
  <2> QED
    BY <1>4, <2>1 DEF Abort, history
<1>5. ASSUME NEW p \in Proc, NEW verb \in DOMAIN FirstStage, NEW d \in Device, Start(p, verb, d)
      PROVE  hints' = hints /\ store' = store /\ installed' = installed /\ aside' = aside
  BY <1>5 DEF Start, devices
<1>6. ASSUME NEW p \in Proc, Look(p) \/ Clear(p)
      PROVE  hints' = hints /\ ~HasCa(store') /\ installed' = installed /\ aside' = aside
  BY <1>6 DEF Look, Clear, devices, history, HasCa
<1>7. ASSUME NEW p \in Proc, Move(p)
      PROVE  /\ hints' = hints /\ installed' = installed /\ aside' = aside
             /\ store' = store \/ store' = aside
  BY <1>7 DEF Move, devices
<1>8. ASSUME NEW p \in Proc, InitCa(p)
      PROVE  /\ hints' = hints /\ installed' = installed /\ aside' = aside
             /\ store' = NewStore /\ aside = None
  BY <1>8 DEF InitCa, devices
<1>9. CASE UNCHANGED pkiVars
  BY <1>9 DEF pkiVars, devices, history, Ca, HasCa
<1>10. CASE PkiNext
  <2>1. /\ hints' = hints /\ installed' = installed /\ aside' = aside
        /\ HasCa(store') => store' = aside \/ (aside = None /\ store' = NewStore)
    BY <1>2, <1>3, <1>4, <1>5, <1>6, <1>7, <1>8, <1>10 DEF PkiNext, Obey, Retire
  <2> QED
    BY <2>1 DEF Ca
<1> QED
  BY <1>9, <1>10

(* What a device has got is in the store.                                   *)
LEMMA NewInstalled ==
  ASSUME PkiTypeOK, [PkiNext]_pkiVars, NEW d \in Device, NEW n \in installed'[d],
         n \notin installed[d]
  PROVE  Issued(store, n, d) /\ HasCa(store) /\ store' = store
<1>1. PICK s \in Serial : Install(s)
  BY DEF PkiNext, Start, Abort, Lock, List, Issue, Publish, Deliver, Obey, Retire, Revoke, Open, Tar,
         Look, Clear, Move, InitCa, RefreshCrl, MoveAside, pkiVars, devices
<1> QED
  BY <1>1 DEF Install, PkiTypeOK, Issued

(* Only a revoke and a certificate that supersedes another revoke one.      *)
LEMMA NewlyRevoked ==
  ASSUME PkiTypeOK, StageInv, RevokeInv, [PkiNext]_pkiVars, HasCa(store), ~MoveAside,
         NEW s \in store'.revoked, s \notin store.revoked
  PROVE  \E p \in Proc :
           \/ Issue(p) /\ job[p].verb # "rotate" /\ s \in Active(store, job[p].device)
           \/ Revoke(p) /\ s = job[p].serial
<1>1. store \in CaStore
  BY StoresAreCas DEF PkiTypeOK
<1>2. ASSUME NEW p \in Proc, Abort(p) PROVE store'.revoked = store.revoked
  BY <1>1, <1>2, ChangedStore DEF Abort, Tearing
<1>3. ASSUME NEW p \in Proc, Revoke(p) PROVE s = job[p].serial
  BY <1>1, <1>3, ChangedStore DEF Revoke, Revoking, RevokeInv, RevokeOf
<1>4. ASSUME (\E p \in Proc : Publish(p)) \/ RefreshCrl PROVE store'.revoked = store.revoked
  BY <1>1, <1>4, ChangedStore DEF Publish, RefreshCrl, Publishing
<1>5. ASSUME NEW p \in Proc, Clear(p) \/ InitCa(p) PROVE FALSE
  BY <1>5 DEF Clear, InitCa
<1>6. ASSUME NEW p \in Proc, Move(p) PROVE store' = store
  BY <1>6 DEF Move, HasCa
<1>7. ASSUME NEW p \in Proc, Issue(p)
      PROVE  job[p].verb # "rotate" /\ s \in Active(store, job[p].device)
  <2> DEFINE gone == IF job[p].verb = "rotate" THEN {} ELSE Active(store, job[p].device)
  <2>1. store'.revoked = store.revoked \cup gone
    BY <1>1, <1>7 DEF Issue, CaStore, Store
  <2> QED
    BY <2>1
<1> QED
  BY <1>2, <1>3, <1>4, <1>5, <1>6, <1>7
     DEF PkiNext, Start, Lock, List, Deliver, Obey, Retire, Open, Tar, Look, Install, pkiVars

(* Of the store that is there or was moved aside: it only grows, unless one *)
(* that was not the last takes over.                                        *)
LEMMA CaGrows ==
  ASSUME PkiTypeOK, StageInv, WholeInv, RevokeInv, [PkiNext]_pkiVars, ~rewound', Ca # None
  PROVE  /\ Ca \in CaStore /\ Ca' \in CaStore /\ Later(Ca, Ca')
         /\ Ca' = Ca \/ (HasCa(store) /\ ~MoveAside /\ Ca = store /\ Ca' = store')
<1>1. Ca \in CaStore
  BY StoresAreCas DEF Ca, PkiTypeOK
<1>2. Ca' = Ca => Ca' \in CaStore /\ Later(Ca, Ca')
  BY <1>1, LaterStores
<1>3. CASE HasCa(store) /\ ~MoveAside
  <2>1. HasCa(store') /\ Later(store, store') /\ store' \in CaStore
    BY <1>3, StoreGrows
  <2> QED
    BY <1>1, <1>3, <2>1 DEF Ca
<1>4. CASE MoveAside
  <2>1. Ca' = Ca
    BY <1>4 DEF MoveAside, Ca, HasCa
  <2> QED
    BY <1>1, <1>2, <2>1
<1>5. CASE ~HasCa(store)
  <2>1. Ca = aside
    BY <1>5 DEF Ca
  <2>2. Ca' = Ca
    BY <1>5, <2>1, LostStore
  <2> QED
    BY <1>1, <1>2, <2>2
<1> QED
  BY <1>3, <1>4, <1>5

(* What devices and hints know stays true of the store.                     *)
LEMMA CaStep == PkiInv /\ PkiTypeOK' /\ [PkiNext]_pkiVars => CaInv'
<1> SUFFICES ASSUME PkiInv, PkiTypeOK', [PkiNext]_pkiVars, ~rewound' PROVE CaInv'
  BY DEF CaInv
<1>0. PkiTypeOK /\ StageInv /\ WholeInv /\ IssueInv /\ RevokeInv /\ CaInv /\ ~rewound
  BY HistoryGrows DEF PkiInv
<1>1. \A d \in Device : installed[d] \subseteq installed'[d]
  BY <1>0, InstalledGrows
<1>2. created \subseteq created' /\ retired \subseteq retired'
  BY <1>0, HistoryGrows
<1>3. CASE Ca = None
  <2>1. ~HasCa(store) /\ aside = None
    BY <1>0, <1>3, StoresAreCas DEF Ca, PkiTypeOK
  <2>2. hints' = {} /\ \A d \in Device : installed'[d] = {}
    BY <1>0, <1>3, <2>1, LostStore DEF CaInv
  <2>3. Ca' = None \/ Ca' = NewStore
    BY <1>0, <1>3, <2>1, LostStore
  <2>4. NewStore.revoked = {}
    BY DEF NewStore
  <2> QED
    BY <2>2, <2>3, <2>4 DEF CaInv
<1>4. CASE Ca # None
  <2>1. /\ Ca \in CaStore /\ Ca' \in CaStore /\ Later(Ca, Ca')
        /\ Ca' = Ca \/ (HasCa(store) /\ ~MoveAside /\ Ca = store /\ Ca' = store')
    BY <1>0, <1>4, CaGrows
  <2>2. Ca' # None
    BY <2>1, StoresAreCas
  <2>3. /\ DOMAIN Ca.issued = 1..Len(Ca.issued) /\ Len(Ca.issued) \in Nat
        /\ Ca.revoked \subseteq DOMAIN Ca.issued
        /\ Len(Ca'.issued) \in Nat /\ Len(Ca.issued) <= Len(Ca'.issued)
    BY <2>1, StoreFields, PkiAssumption DEF Later
  <2>4. ASSUME NEW d \in Device, NEW n \in installed'[d] PROVE Issued(Ca', n, d)
    <3>1. CASE n \in installed[d]
      <4>1. Issued(Ca, n, d)
        BY <1>0, <1>4, <3>1 DEF CaInv
      <4> QED
        BY <2>1, <4>1 DEF Issued, Later
    <3>2. CASE n \notin installed[d]
      <4>1. Issued(store, n, d) /\ HasCa(store) /\ store' = store
        BY <1>0, <2>4, <3>2, NewInstalled
      <4> QED
        BY <4>1 DEF Ca, HasCa
    <3> QED
      BY <3>1, <3>2
  <2>5. ASSUME NEW d \in Device \ (created' \cup retired'), NEW s \in Ca'.revoked, Ca'.issued[s] = d
        PROVE  \E n \in installed'[d] : s < n
    <3>1. d \in Device \ (created \cup retired)
      BY <1>2
    <3>2. CASE s \in Ca.revoked
      <4>1. Ca.issued[s] = d
        BY <2>1, <2>3, <2>5, <3>2 DEF Later
      <4>2. \E n \in installed[d] : s < n
        BY <1>0, <1>4, <3>1, <3>2, <4>1 DEF CaInv
      <4> QED
        BY <1>1, <4>2
    <3>3. CASE s \notin Ca.revoked
      <4>1. HasCa(store) /\ ~MoveAside /\ Ca = store /\ Ca' = store'
        BY <2>1, <2>5, <3>3
      <4>2. PICK p \in Proc :
              \/ Issue(p) /\ job[p].verb # "rotate" /\ s \in Active(store, job[p].device)
              \/ Revoke(p) /\ s = job[p].serial
        BY <1>0, <2>5, <3>3, <4>1, NewlyRevoked
      <4>3. CASE Issue(p)
        <5>1. s \in Active(store, job[p].device) /\ job[p].verb # "rotate" /\ stage[p] = "issue"
          BY <4>2, <4>3 DEF Issue, Revoke
        <5>2. job[p].device = d
          BY <2>1, <2>5, <4>1, <5>1 DEF Active, Later
        <5>3. Enrolling(p) /\ job[p].verb = "enroll"
          BY <1>0, <3>1, <5>1, <5>2 DEF StageInv, StageOf, Enrolling
        <5>4. Active(store, job[p].device) \subseteq job[p].previous /\ job[p].previous = {}
          BY <1>0, <3>1, <5>1, <5>2, <5>3 DEF IssueInv, IssueOf
        <5> QED
          BY <5>1, <5>4
      <4>4. CASE Revoke(p)
        <5>1. s = job[p].serial /\ stage[p] = "revoke"
          BY <4>2, <4>4 DEF Issue, Revoke
        <5>2. s \in DOMAIN store.issued /\ store.issued[s] = job[p].device
          BY <1>0, <5>1 DEF RevokeInv, RevokeOf
        <5>3. job[p].device = d
          BY <2>1, <2>5, <4>1, <5>2 DEF Later
        <5>4. \E n \in installed[d] : s < n
          BY <1>0, <3>1, <5>1, <5>3 DEF RevokeInv, RevokeOf
        <5> QED
          BY <1>1, <5>4
      <4> QED
        BY <4>2, <4>3, <4>4
    <3> QED
      BY <3>2, <3>3
  <2>6. ASSUME NEW h \in hints'
        PROVE  /\ h.new <= Len(Ca'.issued)
               /\ h.device \notin created' =>
                    \A s \in Active(Ca', h.device) : s < h.new => s \in h.old
    <3>1. CASE h \in hints
      <4>1. h.new <= Len(Ca.issued) /\ h.new \in Nat
        BY <1>0, <1>4, <3>1, PkiAssumption DEF CaInv, PkiTypeOK
      <4>2. h.new <= Len(Ca'.issued)
        BY <2>3, <4>1
      <4>3. ASSUME h.device \notin created', NEW s \in Active(Ca', h.device), s < h.new
            PROVE  s \in h.old
        <5>1. s \in DOMAIN Ca.issued
          BY <2>1, <2>3, <4>1, <4>3, NumberedFromOne
        <5>2. s \in Active(Ca, h.device)
          BY <2>1, <4>3, <5>1, ActiveBefore
        <5> QED
          BY <1>0, <1>2, <1>4, <3>1, <4>3, <5>2 DEF CaInv
      <4> QED
        BY <4>2, <4>3
    <3>2. CASE h \notin hints
      <4>1. PICK p \in Proc :
              /\ stage[p] \in {"issue", "deliver"} /\ job[p].verb = "rotate" /\ h = Hint(job[p])
              /\ Deliver(p) \/ Abort(p)
        BY <3>2, NewHints
      <4>2. HasCa(store) /\ store' = store /\ created' = created
        <5>1. HasCa(store) /\ writer # p
          BY <1>0, <4>1 DEF StageInv, StageOf, Working, Enrolling
        <5> QED
          BY <4>1, <5>1 DEF Deliver, Abort, history
      <4>3. Ca' = store /\ Ca = store
        BY <4>2 DEF Ca, HasCa
      <4>4. h.device = job[p].device /\ h.old = job[p].previous /\ h.new = job[p].serial
        BY <4>1 DEF Hint
      <4>5. CASE stage[p] = "issue"
        <5>1. h.new = 0
          BY <1>0, <4>1, <4>4, <4>5 DEF IssueInv, IssueOf, Enrolling
        <5>2. \A s \in Active(Ca', h.device) : ~(s < h.new)
          BY <2>1, <5>1, NumberedFromOne
        <5> QED
          BY <2>3, <5>1, <5>2
      <4>6. CASE stage[p] = "deliver"
        <5>1. job[p].serial \in DOMAIN store.issued
          BY <1>0, <4>6 DEF IssueInv, IssueOf
        <5>2. h.new <= Len(Ca'.issued)
          BY <2>3, <4>3, <4>4, <5>1
        <5> QED
          BY <1>0, <4>1, <4>2, <4>3, <4>4, <4>6, <5>2 DEF IssueInv, IssueOf
      <4> QED
        BY <4>1, <4>5, <4>6
    <3> QED
      BY <3>1, <3>2
  <2> QED
    BY <2>2, <2>4, <2>5, <2>6 DEF CaInv
<1> QED
  BY <1>3, <1>4

(* Together they are inductive.                                             *)
LEMMA PkiInvariance == PkiSpec => []PkiInv
<1>1. PkiInv /\ [PkiNext]_pkiVars => PkiInv'
  <2> SUFFICES ASSUME PkiInv, [PkiNext]_pkiVars PROVE PkiInv'
    OBVIOUS
  <2>1. /\ PkiTypeOK /\ StageInv /\ WholeInv /\ IssueInv
        /\ RevokeInv /\ HintInv /\ NewestInv /\ CaInv
    BY DEF PkiInv
  <2>2. PkiTypeOK'
    BY <2>1, PkiTypeStep
  <2>3. StageInv' /\ WholeInv' /\ IssueInv'
    BY <2>1, StageStep, WholeStep, IssueStep
  <2>4. RevokeInv' /\ HintInv' /\ NewestInv' /\ CaInv'
    BY <2>1, <2>2, RevokeStep, HintStep, NewestStep, CaStep
  <2> QED
    BY <2>2, <2>3, <2>4 DEF PkiInv
<1> QED
  BY <1>1, PkiInitInv, PTL DEF PkiSpec

(* The store, its backups and what each command knows stay well-formed.     *)
THEOREM PkiTypeCorrect == PkiSpec => []PkiTypeOK
<1>1. PkiInv => PkiTypeOK
  BY DEF PkiInv
<1> QED
  BY <1>1, PkiInvariance, PTL

(* No device is cut off by enrolling, rotating and obeying the hints: of    *)
(* its certificates the newest is not revoked, as whoever revokes one does  *)
(* so for a newer one in the device.                                        *)
THEOREM CutOffTheorem == PkiSpec => []NoDeviceIsCutOff
<1>1. PkiInv => NoDeviceIsCutOff
  <2> SUFFICES ASSUME PkiInv, HasCa(store), ~rewound,
                      NEW d \in Device \ (created \cup retired), installed[d] # {}
               PROVE  installed[d] \ store.revoked # {}
    BY DEF NoDeviceIsCutOff
  <2>1. Ca = store /\ store # None
    BY StoresAreCas DEF Ca, PkiInv, PkiTypeOK
  <2>2. PICK m \in installed[d] : \A n \in installed[d] : n <= m
    BY DEF PkiInv, NewestInv
  <2>3. installed[d] \subseteq Serial
    BY DEF PkiInv, PkiTypeOK
  <2>4. Issued(store, m, d)
    BY <2>1 DEF PkiInv, CaInv
  <2>5. m \in store.revoked => \E n \in installed[d] : m < n
    BY <2>1, <2>4 DEF PkiInv, CaInv, Issued
  <2>6. m \notin store.revoked
    BY <2>2, <2>3, <2>5, PkiAssumption DEF Serial
  <2> QED
    BY <2>6
<1> QED
  BY <1>1, PkiInvariance, PTL

(* No rotation leaves an older certificate valid that its hints do not name.*)
THEOREM HintsTheorem == PkiSpec => []HintsAreComplete
<1>1. PkiInv => HintsAreComplete
  <2> SUFFICES ASSUME PkiInv, HasCa(store), ~rewound, NEW h \in hints, h.device \notin created,
                      NEW s \in Active(store, h.device), s < h.new
               PROVE  s \in h.old
    BY DEF HintsAreComplete
  <2>1. Ca = store /\ store # None
    BY StoresAreCas DEF Ca, PkiInv, PkiTypeOK
  <2> QED
    BY <2>1 DEF PkiInv, CaInv
<1> QED
  BY <1>1, PkiInvariance, PTL

(* No backup has a half-finished revoke.                                    *)
THEOREM BackupTheorem == PkiSpec => []BackupIsWhole
<1>1. PkiInv => BackupIsWhole
  BY DEF PkiInv, WholeInv, Whole, BackupIsWhole
<1> QED
  BY <1>1, PkiInvariance, PTL

(* No command makes the store forget a certificate or a revocation.         *)
THEOREM ForgottenTheorem == PkiSpec => NothingIsForgotten
<1>1. PkiInv /\ [PkiNext]_pkiVars =>
        [HasCa(store) =>
           \/ aside' = store
           \/ /\ HasCa(store')
              /\ IsPrefix(store.issued, store'.issued)
              /\ store.revoked \subseteq store'.revoked]_pkiVars
  BY NothingIsForgottenStep DEF PkiInv
<1> QED
  BY <1>1, PkiInvariance, PTL DEF PkiSpec, NothingIsForgotten

\* Both locks are held by commands at work, and whoever holds ca/.lock, alone
\* or with other readers, waits for no lock any more: the commands that hold
\* the flock on ca/ and wait for ca/.lock cannot wait in a circle.
LocksAreOrdered ==
  /\ flock # None => stage[flock] \in {"list", "issue", "publish", "deliver"}
  /\ writer # None => stage[writer] = "publish" /\ readers = {}
  /\ \A p \in readers : stage[p] = "tar"

(* No command of the client CA's store leaves a lock behind or waits in a   *)
(* circle, whichever of the two locks it takes, and wherever it fails.      *)
THEOREM LocksAreReleased == PkiSpec => []LocksAreOrdered
<1>1. PkiInit => LocksAreOrdered
  BY DEF PkiInit, LocksAreOrdered
<1>2. ASSUME PkiInv, LocksAreOrdered, [PkiNext]_pkiVars PROVE LocksAreOrdered'
  <2>0. /\ stage \in [Proc -> PkiStage] /\ None \notin Proc
        /\ flock \in Proc \cup {None} /\ writer \in Proc \cup {None} /\ readers \subseteq Proc
        /\ \A p \in Proc : stage[p] = "publish" <=> writer = p
    BY <1>2, PkiAssumption DEF PkiInv, PkiTypeOK, StageInv, StageOf
  <2>1. CASE UNCHANGED pkiVars
    BY <1>2, <2>1 DEF pkiVars, locks, command, LocksAreOrdered
  <2>2. ASSUME UNCHANGED <<locks, stage>> PROVE LocksAreOrdered'
    BY <1>2, <2>2 DEF locks, LocksAreOrdered
  <2>3. ASSUME NEW p \in Proc, NEW verb \in DOMAIN FirstStage, NEW d \in Device, Start(p, verb, d)
        PROVE  LocksAreOrdered'
    BY <1>2, <2>0, <2>3 DEF Start, Proceed, locks, LocksAreOrdered
  <2>4. ASSUME NEW p \in Proc, Abort(p) PROVE LocksAreOrdered'
    BY <1>2, <2>0, <2>4 DEF Abort, Leave, Proceed, LocksAreOrdered
  <2>5. ASSUME NEW p \in Proc, Lock(p) \/ List(p) \/ Issue(p) \/ Publish(p) \/ Deliver(p)
        PROVE  LocksAreOrdered'
    BY <1>2, <2>0, <2>5 DEF Lock, List, Issue, Publish, Deliver, Leave, Proceed, Unlocked, locks,
                            LocksAreOrdered
  <2>6. ASSUME NEW p \in Proc, NEW d, NEW n, ToRevoke(p, d, n), UNCHANGED locks
        PROVE  LocksAreOrdered'
    BY <1>2, <2>0, <2>6 DEF ToRevoke, Proceed, locks, LocksAreOrdered
  <2>7. ASSUME NEW p \in Proc, Revoke(p) \/ Open(p) \/ Tar(p) PROVE LocksAreOrdered'
    BY <1>2, <2>0, <2>7 DEF Revoke, Open, Tar, Leave, Proceed, Unlocked, LocksAreOrdered
  <2>8. ASSUME NEW p \in Proc, Look(p) \/ Clear(p) \/ Move(p) \/ InitCa(p)
        PROVE  LocksAreOrdered'
    BY <1>2, <2>0, <2>8 DEF Look, Clear, Move, InitCa, Leave, Proceed, locks, LocksAreOrdered
  <2>9. ASSUME (\E s \in Serial : Install(s)) \/ RefreshCrl \/ MoveAside PROVE LocksAreOrdered'
    BY <2>2, <2>9 DEF Install, RefreshCrl, MoveAside, command
  <2> QED
    BY <1>2, <2>1, <2>3, <2>4, <2>5, <2>6, <2>7, <2>8, <2>9 DEF PkiNext, Obey, Retire
<1> QED
  BY PkiInvariance, <1>1, <1>2, PTL DEF PkiSpec

=============================================================================
