-------------------------- MODULE CertRenewer_proofs ------------------------
(***************************************************************************)
(* Proofs about CertRenewer.  StateInv says what the loop and certbot know *)
(* of each other; beside it ListInv, ClearInv and AloneInv say what the    *)
(* history variables record, and each gives one action property.           *)
(***************************************************************************)
EXTENDS CertRenewer, TLAPS

AfterLoad == Trapped \cup {"reload", "verify"}

\* The loop has a domain in hand, and whoever runs ensure_cert has one too.
RunInv ==
  \A r \in Runner :
    /\ pc[r] \in Clearing \cup {"wait"} => todo[r] # <<>>
    /\ pc[r] \in {"append", "verify"} => want[r] # Nobody
    /\ r = Heal /\ pc[r] \in {"load", "loop", "wait"} \cup Clearing => want[r] # Nobody
    /\ pc[r] \in {"reload", "verify"} => todo[r] = <<>>
    /\ pc[r] \notin AfterLoad => tended[r] = {}

\* certbot works on its owner's domain, on a conf it has yet to fill.
CertbotInv ==
  \A b \in certbot :
    /\ b.owner \in Runner => pc[b.owner] = "wait" /\ Head(todo[b.owner]) = b.domain
    /\ b.stage = "claimed" => renewal_conf[b.domain] # "full"

\* A domain that was listed when the list was read is ahead or was tended.
Accounted(r) ==
  \/ r \in late
  \/ want[r] \in tended[r] \cup Elements(todo[r])
  \/ /\ want[r] \notin Elements(certbot_domains)
     /\ InWorktree(r) => want[r] \notin Elements(worktree)

ListInv == \A r \in Runner : pc[r] \in AfterLoad => Accounted(r)

\* What is moved aside is no lineage, unless it became one.
ClearInv ==
  \A r \in Runner :
    /\ pc[r] \in Clearing /\ r \notin overtaken => ~Intact(Head(todo[r]))
    /\ r \in overtaken => pc[r] \in Clearing \cup {"fail"}

\* A run that is alone keeps what it tended, and shares it.
KeepsTended(r) ==
  /\ pc[r] \in AfterLoad
  /\ \A q \in Runner \ {r} : pc[q] \notin Trapped
  /\ \A b \in certbot : b.owner = r
  /\ pc[r] \in Clearing => r \notin overtaken
  /\ \A d \in tended[r] : Intact(d)
  /\ pc[r] \in {"reload", "verify"} => live \subseteq shared

AloneInv == \A r \in alone : KeepsTended(r)

-----------------------------------------------------------------------------
(* Lists.                                                                   *)

LEMMA ElementsOfAppend ==
  ASSUME NEW S, NEW s \in Seq(S), NEW x \in S
  PROVE  /\ Append(s, x) \in Seq(S)
         /\ Elements(Append(s, x)) = Elements(s) \cup {x}
<1>1. /\ Append(s, x) \in Seq(S) /\ Len(s) \in Nat /\ Len(Append(s, x)) = Len(s) + 1
      /\ \A i \in 1..Len(s) : Append(s, x)[i] = s[i]
      /\ Append(s, x)[Len(s) + 1] = x
  OBVIOUS
<1>2. \A i \in 1..Len(s) + 1 : i \in 1..Len(s) \/ i = Len(s) + 1
  BY <1>1
<1>3. \A i \in 1..Len(s) : i \in 1..Len(s) + 1
  BY <1>1
<1>4. Len(s) + 1 \in 1..Len(s) + 1
  BY <1>1
<1> QED BY <1>1, <1>2, <1>3, <1>4 DEF Elements

LEMMA ElementsOfTail ==
  ASSUME NEW S, NEW s \in Seq(S), s # <<>>
  PROVE  /\ Head(s) \in S /\ Tail(s) \in Seq(S)
         /\ Elements(s) \subseteq Elements(Tail(s)) \cup {Head(s)}
<1>1. /\ Head(s) \in S /\ Tail(s) \in Seq(S) /\ Len(s) \in Nat \ {0}
      /\ Len(Tail(s)) = Len(s) - 1 /\ Head(s) = s[1]
      /\ \A i \in 1..Len(s) - 1 : Tail(s)[i] = s[i + 1]
  OBVIOUS
<1>2. \A i \in 1..Len(s) : i = 1 \/ (i - 1 \in 1..Len(s) - 1 /\ (i - 1) + 1 = i)
  BY <1>1
<1>3. \A i \in 1..Len(s) : s[i] \in Elements(Tail(s)) \cup {Head(s)}
  <2> SUFFICES ASSUME NEW i \in 1..Len(s), i # 1 PROVE s[i] \in Elements(Tail(s))
    BY <1>1
  <2>1. i - 1 \in 1..Len(Tail(s)) /\ Tail(s)[i - 1] = s[i]
    BY <1>1, <1>2
  <2> QED BY <2>1 DEF Elements
<1> QED BY <1>1, <1>3 DEF Elements

LEMMA ElementsInSet ==
  ASSUME NEW S, NEW s \in Seq(S)
  PROVE  Elements(s) \subseteq S
BY DEF Elements

LEMMA ElementsOfEmpty == Elements(<<>>) = {}
BY DEF Elements

-----------------------------------------------------------------------------
(* Types, and what the loop and certbot know of each other.                 *)

StateInv == TypeOK /\ RunInv /\ CertbotInv

LEMMA InitState == Init => StateInv
<1> SUFFICES ASSUME Init PROVE StateInv
  OBVIOUS
<1>1. TypeOK
  <2>0. <<>> \in Seq(Domain)
    OBVIOUS
  <2>1. certbot_domains \in Seq(Domain) /\ worktree \in Seq(Domain) /\ linked \in BOOLEAN
    BY <2>0, NamesAssumption DEF Init
  <2>2. /\ pc \in [Runner -> {"idle", "pass", "stopped", "append", "load", "reload", "verify"} \cup Trapped]
        /\ todo \in [Runner -> Seq(Domain)]
        /\ want \in [Runner -> Domain \cup {Nobody}]
        /\ tended \in [Runner -> SUBSET Domain]
    BY <2>0 DEF Init
  <2> QED BY <2>1, <2>2 DEF Init, TypeOK
<1>2. RunInv /\ CertbotInv
  BY DEF Init, RunInv, CertbotInv, Trapped, Clearing, AfterLoad
<1> QED BY <1>1, <1>2 DEF StateInv

LEMMA TimerFiresState == StateInv /\ TimerFires => StateInv'
<1> SUFFICES ASSUME StateInv, TimerFires PROVE StateInv'
  OBVIOUS
<1>1. TypeOK'
  BY NamesAssumption DEF StateInv, TypeOK, TimerFires, Goto, lists, certs, run, counters, overlaps
<1>2. RunInv'
  BY NamesAssumption DEF StateInv, TypeOK, RunInv, TimerFires, Goto, run, AfterLoad, Trapped, Clearing
<1>3. CertbotInv'
  BY DEF StateInv, TypeOK, CertbotInv, TimerFires, Goto, run, certs
<1> QED BY <1>1, <1>2, <1>3 DEF StateInv

LEMMA ByHandState ==
  ASSUME StateInv, NEW r \in Runner, ByHand(r)
  PROVE  StateInv'
<1>1. TypeOK'
  BY DEF StateInv, TypeOK, ByHand, Goto, lists, certs, run, overlaps
<1>2. RunInv'
  BY DEF StateInv, TypeOK, RunInv, ByHand, Goto, run, AfterLoad, Trapped, Clearing
<1>3. CertbotInv'
  BY DEF StateInv, TypeOK, CertbotInv, ByHand, Goto, run, certs
<1> QED BY <1>1, <1>2, <1>3 DEF StateInv

LEMMA EnsureCertState ==
  ASSUME StateInv, NEW r \in Runner, NEW d \in Domain, EnsureCert(r, d)
  PROVE  StateInv'
<1>1. TypeOK'
  BY DEF StateInv, TypeOK, EnsureCert, Goto, lists, certs, overlaps
<1>2. RunInv'
  BY NamesAssumption DEF StateInv, TypeOK, RunInv, EnsureCert, Goto, AfterLoad, Trapped, Clearing
<1>3. CertbotInv'
  BY DEF StateInv, TypeOK, CertbotInv, EnsureCert, Goto, certs
<1> QED BY <1>1, <1>2, <1>3 DEF StateInv

LEMMA AppendDomainState ==
  ASSUME StateInv, NEW r \in Runner, AppendDomain(r)
  PROVE  StateInv'
<1>0. want[r] \in Domain
  BY DEF StateInv, TypeOK, RunInv, AppendDomain
<1>1. TypeOK'
  <2>1. certbot_domains' \in Seq(Domain) /\ worktree' \in Seq(Domain)
    <3>1. /\ Append(certbot_domains, want[r]) \in Seq(Domain)
          /\ Append(worktree, want[r]) \in Seq(Domain)
      BY <1>0, ElementsOfAppend DEF StateInv, TypeOK
    <3> QED BY <3>1 DEF StateInv, TypeOK, AppendDomain
  <2> QED BY <2>1 DEF StateInv, TypeOK, AppendDomain, Goto, certs, run, counters
<1>2. RunInv'
  BY DEF StateInv, TypeOK, RunInv, AppendDomain, Goto, run, AfterLoad, Trapped, Clearing
<1>3. CertbotInv'
  BY DEF StateInv, TypeOK, CertbotInv, AppendDomain, Goto, run, certs
<1> QED BY <1>1, <1>2, <1>3 DEF StateInv

(* What Quit and Return do to a run.                                        *)
LEMMA QuitTypes ==
  ASSUME TypeOK, NEW r \in Runner, Quit(r)
  PROVE  /\ pc' \in [Runner -> {"idle", "pass", "stopped", "append", "load", "reload", "verify"} \cup Trapped]
         /\ todo' \in [Runner -> Seq(Domain)]
         /\ want' \in [Runner -> Domain \cup {Nobody}]
         /\ tended' \in [Runner -> SUBSET Domain]
         /\ alone' \subseteq Runner /\ late' \subseteq Runner /\ overtaken' \subseteq Runner
         /\ pc'[r] \in {"idle", "pass", "stopped"} /\ tended'[r] = {}
         /\ \A q \in Runner \ {r} :
              pc'[q] = pc[q] /\ todo'[q] = todo[q] /\ want'[q] = want[q] /\ tended'[q] = tended[q]
BY DEF TypeOK, Quit, Goto, Rest

LEMMA QuitState ==
  ASSUME StateInv, NEW r \in Runner, Quit(r), renewal_conf' = renewal_conf,
         \A b \in certbot' : \E c \in certbot :
            /\ b.stage = c.stage /\ b.domain = c.domain
            /\ b.owner \in Runner => b.owner = c.owner /\ b.owner # r
  PROVE  RunInv' /\ CertbotInv'
<1>0. TypeOK /\ RunInv /\ CertbotInv
  BY DEF StateInv
<1>1. /\ pc'[r] \in {"idle", "pass", "stopped"} /\ tended'[r] = {}
      /\ \A q \in Runner \ {r} :
           pc'[q] = pc[q] /\ todo'[q] = todo[q] /\ want'[q] = want[q] /\ tended'[q] = tended[q]
  BY <1>0, QuitTypes
<1>2. RunInv'
  BY <1>0, <1>1 DEF RunInv, AfterLoad, Trapped, Clearing
<1>3. CertbotInv'
  BY <1>0, <1>1 DEF CertbotInv
<1> QED BY <1>2, <1>3

LEMMA VerifyState ==
  ASSUME StateInv, NEW r \in Runner, Verify(r)
  PROVE  StateInv'
<1>1. Quit(r)
  BY DEF Verify, Return
<1>2. TypeOK'
  <2>1. TypeOK
    BY DEF StateInv
  <2> QED BY <1>1, <2>1, QuitTypes DEF TypeOK, Verify, Return, Status, lists, certs, counters
<1>3. \A b \in certbot : b.owner # r
  BY DEF StateInv, CertbotInv, Verify
<1>4. RunInv' /\ CertbotInv'
  BY <1>1, <1>3, QuitState DEF Verify, certs
<1> QED BY <1>2, <1>4 DEF StateInv

LEMMA LoadDomainsState ==
  ASSUME StateInv, NEW r \in Runner, LoadDomains(r)
  PROVE  StateInv'
<1> DEFINE domains == IF Relinks(r) THEN certbot_domains ELSE DomainsFile(r)
<1>0. /\ TypeOK /\ RunInv /\ CertbotInv /\ pc[r] = "load"
      /\ domains \in Seq(Domain)
      /\ \A b \in certbot : b.owner # r
  BY DEF StateInv, TypeOK, CertbotInv, LoadDomains, DomainsFile
<1>1. CASE domains = <<>>
  <2>1. Return(r, FALSE) /\ Quit(r)
    BY <1>1 DEF LoadDomains, Return
  <2>2. TypeOK'
    BY <1>0, <2>1, QuitTypes DEF TypeOK, LoadDomains, Return, Status, certs, counters
  <2>3. RunInv' /\ CertbotInv'
    BY <1>0, <2>1, QuitState DEF LoadDomains, certs
  <2> QED BY <2>2, <2>3 DEF StateInv
<1>2. CASE domains # <<>>
  <2>1. /\ Goto(r, "loop") /\ todo' = [todo EXCEPT ![r] = domains]
        /\ alone' = IF certbot = {} /\ \A q \in Runner \ {r} : pc[q] \notin Trapped
                    THEN {r} ELSE {}
        /\ late' = late \ {r}
        /\ UNCHANGED <<want, tended, result, overtaken>>
    BY <1>2 DEF LoadDomains
  <2> HIDE DEF domains
  <2>2. TypeOK'
    <3>1. alone' \subseteq Runner /\ linked' \in BOOLEAN
      BY <1>0, <2>1 DEF TypeOK, LoadDomains, Relinks, InWorktree
    <3> QED BY <1>0, <2>1, <3>1 DEF TypeOK, LoadDomains, Goto, Trapped, certs, counters
  <2>3. RunInv'
    BY <1>0, <2>1 DEF TypeOK, RunInv, Goto, AfterLoad, Trapped, Clearing
  <2>4. CertbotInv'
    BY <1>0, <2>1 DEF TypeOK, CertbotInv, LoadDomains, Goto, certs
  <2> QED BY <2>2, <2>3, <2>4 DEF StateInv
<1> QED BY <1>1, <1>2

LEMMA RunCertbotState ==
  ASSUME StateInv, NEW r \in Runner, NEW verb \in {"renew", "certonly"},
         RunCertbot(r, verb), pc[r] \in {"loop", "clear_conf"}, todo[r] # <<>>,
         UNCHANGED run,
         \A d \in Domain : renewal_conf'[d] \in {renewal_conf[d], "none"}
  PROVE  /\ certbot' \subseteq [domain: Domain, verb: {"renew", "certonly"},
                        stage: {"asks", "claimed", "stored"}, owner: Runner \cup {Nobody}]
         /\ \A b, c \in certbot' : b = c
         /\ pc' \in [Runner -> {"idle", "pass", "stopped", "append", "load", "reload", "verify"} \cup Trapped]
         /\ RunInv' /\ CertbotInv'
<1>0. /\ TypeOK /\ RunInv /\ CertbotInv
      /\ Head(todo[r]) \in Domain
  BY ElementsOfTail DEF StateInv, TypeOK
<1>1. pc' \in [Runner -> {"idle", "pass", "stopped", "append", "load", "reload", "verify"} \cup Trapped]
  BY <1>0 DEF TypeOK, RunCertbot, Goto, Trapped
<1>2. RunInv'
  <2>1. pc'[r] \in {"wait", "fail"} /\ \A q \in Runner \ {r} : pc'[q] = pc[q]
    BY <1>0 DEF TypeOK, RunCertbot, Goto
  <2> QED BY <1>0, <2>1 DEF RunInv, run, AfterLoad, Trapped, Clearing
<1>3. CASE certbot = {}
  <2>1. /\ certbot' = {[domain |-> Head(todo[r]), verb |-> verb, stage |-> "asks", owner |-> r]}
        /\ Goto(r, "wait")
    BY <1>3 DEF RunCertbot
  <2>2. CertbotInv'
    BY <1>0, <2>1 DEF TypeOK, CertbotInv, Goto, run
  <2>3. /\ certbot' \subseteq [domain: Domain, verb: {"renew", "certonly"},
                        stage: {"asks", "claimed", "stored"}, owner: Runner \cup {Nobody}]
        /\ \A b, c \in certbot' : b = c
    BY <1>0, <2>1
  <2> QED BY <1>1, <1>2, <2>2, <2>3
<1>4. CASE certbot # {}
  <2>1. Goto(r, "fail") /\ certbot' = certbot
    BY <1>4 DEF RunCertbot
  <2>2. CertbotInv'
    BY <1>0, <2>1 DEF TypeOK, CertbotInv, Goto, run
  <2> QED BY <1>0, <1>1, <1>2, <2>1, <2>2 DEF TypeOK
<1> QED BY <1>3, <1>4

LEMMA NextDomainState ==
  ASSUME StateInv, NEW r \in Runner, NextDomain(r)
  PROVE  StateInv'
<1>0. TypeOK /\ RunInv /\ CertbotInv /\ pc[r] = "loop" /\ todo[r] # <<>>
  BY DEF StateInv, NextDomain
<1>1. ASSUME NEW verb \in {"renew", "certonly"}, RunCertbot(r, verb)
      PROVE  StateInv'
  <2>1. UNCHANGED run /\ \A d \in Domain : renewal_conf'[d] \in {renewal_conf[d], "none"}
    BY DEF NextDomain, certs
  <2>2. /\ certbot' \subseteq [domain: Domain, verb: {"renew", "certonly"},
                        stage: {"asks", "claimed", "stored"}, owner: Runner \cup {Nobody}]
        /\ \A b, c \in certbot' : b = c
        /\ pc' \in [Runner -> {"idle", "pass", "stopped", "append", "load", "reload", "verify"} \cup Trapped]
        /\ RunInv' /\ CertbotInv'
    BY <1>0, <1>1, <2>1, RunCertbotState
  <2>3. TypeOK'
    BY <1>0, <2>2 DEF TypeOK, NextDomain, lists, certs, run, counters, overlaps
  <2> QED BY <2>2, <2>3 DEF StateInv
<1>2. CASE Goto(r, "clear_live") /\ UNCHANGED certbot
  <2>1. TypeOK'
    BY <1>0, <1>2 DEF TypeOK, NextDomain, Goto, Trapped, Clearing, lists, certs, run, counters, overlaps
  <2>2. RunInv'
    BY <1>0, <1>2 DEF TypeOK, RunInv, NextDomain, Goto, run, AfterLoad, Trapped, Clearing
  <2>3. CertbotInv'
    BY <1>0, <1>2 DEF TypeOK, CertbotInv, NextDomain, Goto, run, certs
  <2> QED BY <2>1, <2>2, <2>3 DEF StateInv
<1>3. \/ RunCertbot(r, "renew") \/ RunCertbot(r, "certonly")
      \/ Goto(r, "clear_live") /\ UNCHANGED certbot
  BY DEF NextDomain
<1>4. CASE RunCertbot(r, "renew")
  BY <1>1, <1>4
<1>5. CASE RunCertbot(r, "certonly")
  BY <1>1, <1>5
<1> QED BY <1>2, <1>3, <1>4, <1>5

LEMMA MoveAsideState ==
  ASSUME StateInv, NEW r \in Runner, MoveAside(r)
  PROVE  StateInv'
<1> DEFINE d == Head(todo[r])
<1>0. /\ TypeOK /\ RunInv /\ CertbotInv /\ pc[r] \in Clearing /\ todo[r] # <<>>
      /\ d \in Domain
      /\ UNCHANGED <<lists, shared, run, result, counters, alone, late, abandoned>>
  BY ElementsOfTail DEF StateInv, TypeOK, RunInv, MoveAside, Clearing
<1>1. CASE /\ pc[r] = "clear_conf" /\ RunCertbot(r, "certonly")
           /\ renewal_conf' = [renewal_conf EXCEPT ![d] = "none"]
           /\ overtaken' = overtaken \ {r}
           /\ UNCHANGED <<live, archive, due, current>>
  <2>1. \A e \in Domain : renewal_conf'[e] \in {renewal_conf[e], "none"}
    BY <1>0, <1>1 DEF TypeOK
  <2>2. /\ certbot' \subseteq [domain: Domain, verb: {"renew", "certonly"},
                        stage: {"asks", "claimed", "stored"}, owner: Runner \cup {Nobody}]
        /\ \A b, c \in certbot' : b = c
        /\ pc' \in [Runner -> {"idle", "pass", "stopped", "append", "load", "reload", "verify"} \cup Trapped]
        /\ RunInv' /\ CertbotInv'
    BY <1>0, <1>1, <2>1, RunCertbotState
  <2>3. renewal_conf' \in [Domain -> {"none", "empty", "full"}]
    BY <1>0, <1>1 DEF TypeOK
  <2>4. TypeOK'
    BY <1>0, <1>1, <2>2, <2>3 DEF TypeOK, lists, run, counters
  <2> QED BY <2>2, <2>4 DEF StateInv
<1>2. CASE /\ pc[r] \in {"clear_live", "clear_archive"}
           /\ \E label \in Clearing : Goto(r, label)
           /\ live' \subseteq live /\ archive' \subseteq archive
           /\ due' \subseteq Domain /\ current' \subseteq current
           /\ UNCHANGED <<renewal_conf, certbot, overtaken>>
  <2>1. TypeOK'
    BY <1>0, <1>2 DEF TypeOK, Goto, Trapped, Clearing, lists, run, counters
  <2>2. RunInv'
    BY <1>0, <1>2 DEF TypeOK, RunInv, Goto, run, AfterLoad, Trapped, Clearing
  <2>3. CertbotInv'
    BY <1>0, <1>2 DEF TypeOK, CertbotInv, Goto, run, Clearing
  <2> QED BY <2>1, <2>2, <2>3 DEF StateInv
<1>3. due \cup {d} \subseteq Domain
  BY <1>0 DEF TypeOK
<1> QED BY <1>1, <1>2, <1>3, <1>0 DEF MoveAside, Clearing, TypeOK

(* Whatever status certbot returns, its owner's loop goes on or fails.      *)
LEMMA CertbotExitsTypes ==
  ASSUME StateInv, NEW b \in certbot, NEW ok \in BOOLEAN, CertbotExits(b, ok)
  PROVE  /\ pc' \in [Runner -> {"idle", "pass", "stopped", "append", "load", "reload", "verify"} \cup Trapped]
         /\ todo' \in [Runner -> Seq(Domain)]
         /\ tended' \in [Runner -> SUBSET Domain]
         /\ RunInv' /\ CertbotInv'
<1>0. /\ TypeOK /\ RunInv /\ CertbotInv /\ b.domain \in Domain
      /\ b.owner \in Runner => pc[b.owner] = "wait" /\ todo[b.owner] # <<>>
  BY DEF StateInv, TypeOK, CertbotInv, RunInv
<1>1. \A r \in Runner : todo[r] \in Seq(Domain) /\ (todo[r] # <<>> => Tail(todo[r]) \in Seq(Domain))
  BY <1>0, ElementsOfTail DEF TypeOK
<1>2. /\ \A r \in Runner : r # b.owner =>
           pc'[r] = pc[r] /\ todo'[r] = todo[r] /\ tended'[r] = tended[r]
      /\ \A r \in Runner : r = b.owner =>
           /\ pc'[r] \in {"loop", "fail"} /\ todo'[r] \in {todo[r], Tail(todo[r])}
           /\ tended'[r] \in {tended[r], tended[r] \cup {b.domain}}
      /\ want' = want /\ certbot' = {}
  BY DEF CertbotExits
<1>3. pc' \in [Runner -> {"idle", "pass", "stopped", "append", "load", "reload", "verify"} \cup Trapped]
  BY <1>0 DEF TypeOK, CertbotExits, Trapped
<1>4. todo' \in [Runner -> Seq(Domain)]
  BY <1>0, <1>1 DEF CertbotExits
<1>5. tended' \in [Runner -> SUBSET Domain]
  BY <1>0 DEF CertbotExits, TypeOK
<1>6. RunInv'
  BY <1>0, <1>2 DEF TypeOK, RunInv, AfterLoad, Trapped, Clearing
<1>7. CertbotInv'
  BY <1>2 DEF CertbotInv
<1> QED BY <1>3, <1>4, <1>5, <1>6, <1>7

LEMMA IssueTypes ==
  ASSUME TypeOK, NEW b \in certbot, NEW keys \in SUBSET shared, Issue(b, keys)
  PROVE  /\ live' \subseteq Domain /\ archive' \subseteq Domain /\ shared' \subseteq Domain
         /\ due' \subseteq Domain /\ current' \subseteq Configured /\ abandoned' \subseteq Domain
BY DEF TypeOK, Issue

LEMMA CertbotStepState ==
  ASSUME StateInv, NEW b \in certbot,
         \/ CertbotFails(b)
         \/ CertbotRenews(b)
         \/ CertbotRefuses(b)
         \/ CertbotClaims(b)
         \/ CertbotStores(b)
         \/ CertbotWritesConf(b)
  PROVE  StateInv'
<1>0. /\ TypeOK /\ RunInv /\ CertbotInv
      /\ b \in [domain: Domain, verb: {"renew", "certonly"},
                stage: {"asks", "claimed", "stored"}, owner: Runner \cup {Nobody}]
  BY DEF StateInv, TypeOK
<1>1. CASE \E ok \in BOOLEAN : CertbotExits(b, ok)
  <2>1. /\ pc' \in [Runner -> {"idle", "pass", "stopped", "append", "load", "reload", "verify"} \cup Trapped]
        /\ todo' \in [Runner -> Seq(Domain)]
        /\ tended' \in [Runner -> SUBSET Domain]
        /\ RunInv' /\ CertbotInv'
    BY <1>1, CertbotExitsTypes
  <2>2. /\ certbot' = {}
        /\ UNCHANGED <<lists, want, result, runs, expiries, alone, late>>
    BY <1>1 DEF CertbotExits
  <2>3. /\ live' \subseteq Domain /\ archive' \subseteq Domain /\ shared' \subseteq Domain
        /\ due' \subseteq Domain /\ current' \subseteq Configured /\ abandoned' \subseteq Domain
    <3>1. CASE CertbotRenews(b)
      <4>1. CASE UNCHANGED <<live, archive, due, shared, current, abandoned>>
        BY <1>0, <4>1 DEF TypeOK
      <4>2. CASE \E keys \in {shared, shared \ {b.domain}} : Issue(b, keys)
        BY <1>0, <4>2, IssueTypes
      <4> QED BY <3>1, <4>1, <4>2 DEF CertbotRenews
    <3>2. CASE UNCHANGED <<live, archive, shared, due, current, abandoned>>
      BY <1>0, <3>2 DEF TypeOK
    <3>3. CASE CertbotClaims(b) \/ CertbotStores(b)
      BY <2>2, <3>3 DEF CertbotClaims, CertbotStores
    <3> QED BY <3>1, <3>2, <3>3 DEF CertbotFails, CertbotRefuses, CertbotWritesConf, certs
  <2>4. /\ renewal_conf' \in [Domain -> {"none", "empty", "full"}]
        /\ overtaken' \subseteq Runner
    BY <1>0, <2>2 DEF TypeOK, CertbotFails, CertbotRenews, CertbotRefuses, CertbotClaims,
         CertbotStores, CertbotWritesConf, certs, overlaps
  <2>5. runs' \in Nat /\ faults' \in Nat /\ expiries' \in Nat
    <3>1. faults' = faults \/ faults' = faults + 1
      BY DEF CertbotFails, CertbotRenews, CertbotRefuses, CertbotClaims,
         CertbotStores, CertbotWritesConf, counters
    <3> QED BY <1>0, <2>2, <3>1 DEF TypeOK
  <2> QED BY <1>0, <2>1, <2>2, <2>3, <2>4, <2>5 DEF StateInv, TypeOK, lists
<1>2. CASE CertbotClaims(b)
  <2>1. /\ TypeOK' /\ CertbotInv'
    BY <1>0, <1>2 DEF TypeOK, CertbotInv, CertbotClaims, lists, run, counters, overlaps
  <2>2. RunInv'
    BY <1>0, <1>2 DEF RunInv, CertbotClaims, run
  <2> QED BY <2>1, <2>2 DEF StateInv
<1>3. CASE CertbotStores(b)
  <2>1. /\ live' \subseteq Domain /\ archive' \subseteq Domain /\ shared' \subseteq Domain
        /\ due' \subseteq Domain /\ current' \subseteq Configured /\ abandoned' \subseteq Domain
    BY <1>0, <1>3, IssueTypes DEF CertbotStores
  <2>2. TypeOK'
    BY <1>0, <1>3, <2>1 DEF TypeOK, CertbotStores, lists, run, counters, overlaps
  <2>3. RunInv' /\ CertbotInv'
    BY <1>0, <1>3 DEF RunInv, CertbotInv, CertbotStores, run
  <2> QED BY <2>2, <2>3 DEF StateInv
<1>4. TRUE \in BOOLEAN /\ FALSE \in BOOLEAN /\ (b.domain \in live) \in BOOLEAN
  OBVIOUS
<1> QED BY <1>1, <1>2, <1>3, <1>4 DEF CertbotFails, CertbotRenews, CertbotRefuses, CertbotWritesConf

LEMMA FailState ==
  ASSUME StateInv, NEW r \in Runner, Fail(r)
  PROVE  StateInv'
<1>0. /\ TypeOK /\ RunInv /\ CertbotInv /\ Quit(r)
      /\ \A b \in certbot : b.owner # r
  BY DEF StateInv, CertbotInv, Fail, Return
<1>1. TypeOK'
  <2>1. shared' \subseteq Domain /\ abandoned' \subseteq Domain
    BY <1>0 DEF TypeOK, Fail, ShareKeys
  <2> QED BY <1>0, <2>1, QuitTypes DEF TypeOK, Fail, Return, Status, lists, counters
<1>2. RunInv' /\ CertbotInv'
  BY <1>0, QuitState DEF Fail
<1> QED BY <1>1, <1>2 DEF StateInv

LEMMA FinishState ==
  ASSUME StateInv, NEW r \in Runner, Finish(r)
  PROVE  StateInv'
<1>0. TypeOK /\ RunInv /\ CertbotInv
  BY DEF StateInv
<1>1. TypeOK'
  BY <1>0 DEF TypeOK, Finish, ShareKeys, Goto, lists, run, counters, overlaps
<1>2. RunInv'
  BY <1>0 DEF TypeOK, RunInv, Finish, Goto, run, AfterLoad, Trapped, Clearing
<1>3. CertbotInv'
  BY <1>0 DEF TypeOK, CertbotInv, Finish, Goto, run
<1> QED BY <1>1, <1>2, <1>3 DEF StateInv

LEMMA ReloadState ==
  ASSUME StateInv, NEW r \in Runner, Reload(r)
  PROVE  StateInv'
<1>0. /\ TypeOK /\ RunInv /\ CertbotInv /\ pc[r] = "reload"
      /\ \A b \in certbot : b.owner # r
      /\ current' \subseteq Configured
  BY DEF StateInv, TypeOK, CertbotInv, Reload, Hup
<1>1. CASE Quit(r)
  <2>1. TypeOK'
    BY <1>0, <1>1, QuitTypes DEF TypeOK, Reload, lists, certs, counters
  <2>2. RunInv' /\ CertbotInv'
    BY <1>0, <1>1, QuitState DEF Reload, certs
  <2> QED BY <2>1, <2>2 DEF StateInv
<1>2. CASE want[r] # Nobody /\ Goto(r, "verify") /\ UNCHANGED <<run, overlaps>>
  <2>1. TypeOK'
    BY <1>0, <1>2 DEF TypeOK, Reload, Goto, lists, certs, run, counters, overlaps
  <2>2. RunInv'
    BY <1>0, <1>2 DEF TypeOK, RunInv, Goto, run, AfterLoad, Trapped, Clearing
  <2>3. CertbotInv'
    BY <1>0, <1>2 DEF TypeOK, CertbotInv, Reload, Goto, run, certs
  <2> QED BY <2>1, <2>2, <2>3 DEF StateInv
<1> QED BY <1>1, <1>2 DEF Reload

LEMMA ReloadFailsState ==
  ASSUME StateInv, NEW r \in Runner, ReloadFails(r)
  PROVE  StateInv'
<1>0. /\ TypeOK /\ RunInv /\ CertbotInv /\ Quit(r)
      /\ \A b \in certbot : b.owner # r
  BY DEF StateInv, CertbotInv, ReloadFails, Return
<1>1. TypeOK'
  BY <1>0, QuitTypes DEF TypeOK, ReloadFails, Return, Status, lists, certs
<1>2. RunInv' /\ CertbotInv'
  BY <1>0, QuitState DEF ReloadFails, certs
<1> QED BY <1>1, <1>2 DEF StateInv

LEMMA HealEndsState == StateInv /\ HealEnds => StateInv'
<1> SUFFICES ASSUME StateInv, HealEnds PROVE StateInv'
  OBVIOUS
<1>0. TypeOK /\ RunInv /\ CertbotInv /\ current' \subseteq Configured
  BY DEF StateInv, TypeOK, HealEnds, Hup
<1>1. TypeOK'
  BY <1>0, NamesAssumption DEF TypeOK, HealEnds, Goto, lists, certs, run, counters, overlaps
<1>2. RunInv'
  BY <1>0, NamesAssumption DEF TypeOK, RunInv, HealEnds, Goto, run, AfterLoad, Trapped, Clearing
<1>3. CertbotInv'
  BY <1>0 DEF TypeOK, CertbotInv, HealEnds, Goto, run, certs
<1> QED BY <1>1, <1>2, <1>3 DEF StateInv

LEMMA CertbotTimesOutState == StateInv /\ CertbotTimesOut => StateInv'
<1> SUFFICES ASSUME StateInv, CertbotTimesOut PROVE StateInv'
  OBVIOUS
<1>0. TypeOK /\ RunInv /\ CertbotInv
  BY DEF StateInv
<1>1. /\ certbot' = {}
      /\ \A r \in Runner : pc'[r] = "fail" \/ pc'[r] = pc[r]
      /\ \A r \in Runner : pc'[r] # pc[r] => pc[r] = "wait"
  BY <1>0 DEF CertbotInv, CertbotTimesOut
<1>2. TypeOK'
  <2>1. pc' \in [Runner -> {"idle", "pass", "stopped", "append", "load", "reload", "verify"} \cup Trapped]
    BY <1>0 DEF TypeOK, CertbotTimesOut, Trapped
  <2> QED BY <1>0, <1>1, <2>1 DEF TypeOK, CertbotTimesOut, lists, certs, run, overlaps
<1>3. RunInv'
  BY <1>0, <1>1 DEF RunInv, CertbotTimesOut, run, AfterLoad, Trapped, Clearing
<1>4. CertbotInv'
  BY <1>1 DEF CertbotInv
<1> QED BY <1>2, <1>3, <1>4 DEF StateInv

LEMMA StopState ==
  ASSUME StateInv, NEW r \in Runner, Stop(r)
  PROVE  StateInv'
<1>0. TypeOK /\ RunInv /\ CertbotInv
  BY DEF StateInv
<1>1. TypeOK'
  BY <1>0 DEF TypeOK, Stop, Goto, Trapped, lists, certs, overlaps
<1>2. RunInv'
  BY <1>0 DEF TypeOK, RunInv, Stop, Goto, AfterLoad, Trapped, Clearing
<1>3. CertbotInv'
  BY <1>0 DEF TypeOK, CertbotInv, Stop, Goto, certs
<1> QED BY <1>1, <1>2, <1>3 DEF StateInv

LEMMA KillState ==
  ASSUME StateInv, NEW r \in Runner, Kill(r)
  PROVE  StateInv'
<1>0. TypeOK /\ RunInv /\ CertbotInv /\ Quit(r)
  BY DEF StateInv, Kill, Return
<1> DEFINE Certbots == [domain: Domain, verb: {"renew", "certonly"},
                       stage: {"asks", "claimed", "stored"}, owner: Runner \cup {Nobody}]
           orphan(c) == [c EXCEPT !.owner = Nobody]
<1>1. \A c \in Certbots : /\ orphan(c) \in Certbots /\ orphan(c).owner = Nobody
                          /\ orphan(c).stage = c.stage /\ orphan(c).domain = c.domain
  OBVIOUS
<1>2. \A b \in certbot' : \E c \in certbot :
        (b = c /\ c.owner # r) \/ (b = orphan(c) /\ c.owner = r)
  BY DEF Kill
<1>3. certbot \subseteq Certbots
  BY <1>0 DEF TypeOK
<1> HIDE DEF Certbots, orphan
<1>4. \A b \in certbot' : \E c \in certbot :
        /\ b.stage = c.stage /\ b.domain = c.domain
        /\ b.owner \in Runner => b.owner = c.owner /\ b.owner # r
  BY <1>1, <1>2, <1>3, NamesAssumption
<1>5. TypeOK'
  <2>0. certbot' \subseteq Certbots /\ \A b, c \in certbot' : b = c
    BY <1>0, <1>1, <1>2, <1>3 DEF TypeOK
  <2>1. /\ certbot' \subseteq [domain: Domain, verb: {"renew", "certonly"},
                               stage: {"asks", "claimed", "stored"}, owner: Runner \cup {Nobody}]
        /\ \A b, c \in certbot' : b = c
    BY <2>0 DEF Certbots
  <2>2. abandoned' \subseteq Domain
    BY <1>0 DEF TypeOK, Kill
  <2>3. runs' \in Nat /\ faults' \in Nat /\ expiries' \in Nat
    BY <1>0 DEF TypeOK, Kill
  <2>4. result' \in {"none", "applied", "failed"}
    BY <1>0 DEF TypeOK, Kill, Return, Status
  <2> QED BY <1>0, <2>1, <2>2, <2>3, <2>4, QuitTypes DEF TypeOK, Kill, lists, certs
<1>6. RunInv' /\ CertbotInv'
  BY <1>0, <1>4, QuitState DEF Kill, certs
<1> QED BY <1>5, <1>6 DEF StateInv

LEMMA ExpireState ==
  ASSUME StateInv, NEW d \in Domain, Expire(d)
  PROVE  StateInv'
<1>0. TypeOK /\ RunInv /\ CertbotInv
  BY DEF StateInv
<1>1. TypeOK'
  BY <1>0 DEF TypeOK, Expire, lists, run, overlaps
<1>2. RunInv' /\ CertbotInv'
  BY <1>0 DEF RunInv, CertbotInv, Expire, run
<1> QED BY <1>1, <1>2 DEF StateInv

LEMMA StutterState == StateInv /\ UNCHANGED vars => StateInv'
<1> SUFFICES ASSUME StateInv, UNCHANGED vars PROVE StateInv'
  OBVIOUS
<1>0. TypeOK /\ RunInv /\ CertbotInv
  BY DEF StateInv
<1>1. TypeOK'
  BY <1>0 DEF TypeOK, vars, lists, certs, run, counters, overlaps
<1>2. RunInv' /\ CertbotInv'
  BY <1>0 DEF RunInv, CertbotInv, vars, run, certs
<1> QED BY <1>1, <1>2 DEF StateInv

LEMMA NextState == StateInv /\ [Next]_vars => StateInv'
<1> SUFFICES ASSUME StateInv, [Next]_vars PROVE StateInv'
  OBVIOUS
<1>1. ASSUME NEW r \in Runner, Step(r) PROVE StateInv'
  BY <1>1, AppendDomainState, LoadDomainsState, NextDomainState, MoveAsideState,
     FailState, FinishState, ReloadState, VerifyState DEF Step
<1>2. ASSUME NEW r \in Runner,
             ByHand(r) \/ (\E d \in Domain : EnsureCert(r, d)) \/ ReloadFails(r) \/ Stop(r) \/ Kill(r)
      PROVE  StateInv'
  BY <1>2, ByHandState, EnsureCertState, ReloadFailsState, StopState, KillState
<1>3. CASE CertbotStep
  BY <1>3, CertbotStepState DEF CertbotStep
<1>4. CASE \E d \in Domain : Expire(d)
  BY <1>4, ExpireState
<1> QED BY <1>1, <1>2, <1>3, <1>4, TimerFiresState, HealEndsState, CertbotTimesOutState,
           StutterState DEF Next

LEMMA StateAlways == Spec => []StateInv
BY InitState, NextState, PTL DEF Spec

(* Every variable keeps its type, for every set of domains, runners and     *)
(* bounds; ensure_cert's callers know the statuses it returns.              *)
THEOREM TypeCorrect == Spec => []TypeOK
<1>1. StateInv => TypeOK
  BY DEF StateInv
<1> QED BY <1>1, StateAlways, PTL

-----------------------------------------------------------------------------
(* Keys: the runner that certbot works for is in the trap's reach, and      *)
(* every way out of it shares the keys or leaves them to another runner.    *)

LEMMA KeysKept ==
  ASSUME KeysGetShared,
         \A d \in (live' \cup archive') \ shared' : d \in (live \cup archive) \ shared,
         abandoned \subseteq abandoned',
         \A r \in Runner : pc[r] \in Trapped => pc'[r] \in Trapped
  PROVE  KeysGetShared'
BY DEF KeysGetShared

LEMMA KeysOfRunners ==
  ASSUME StateInv, KeysGetShared, NEW r \in Runner, Step(r) \/ ReloadFails(r) \/ Stop(r) \/ Kill(r)
  PROVE  KeysGetShared'
<1>0. TypeOK
  BY DEF StateInv
<1>1. CASE Fail(r) \/ Finish(r)
  <2>1. shared' = shared \cup live \cup archive /\ live' = live /\ archive' = archive
    BY <1>1 DEF Fail, Finish, ShareKeys
  <2> QED BY <2>1 DEF KeysGetShared
<1>2. CASE Kill(r)
  <2>1. live' = live /\ archive' = archive /\ shared' = shared
    BY <1>2 DEF Kill, certs
  <2>2. \A q \in Runner \ {r} : pc'[q] = pc[q]
    BY <1>0, <1>2, QuitTypes DEF Kill, Return
  <2>3. CASE \E q \in Runner \ {r} : pc[q] \in Trapped
    <3>1. abandoned' = abandoned
      BY <1>2, <2>3 DEF Kill
    <3> QED BY <2>1, <2>2, <2>3, <3>1 DEF KeysGetShared
  <2>4. CASE ~\E q \in Runner \ {r} : pc[q] \in Trapped
    <3>1. abandoned' = abandoned \cup ((live \cup archive) \ shared)
      BY <1>2, <2>4 DEF Kill
    <3> QED BY <2>1, <3>1 DEF KeysGetShared
  <2> QED BY <2>3, <2>4
<1>3. CASE AppendDomain(r) \/ NextDomain(r) \/ MoveAside(r) \/ Stop(r)
  <2>1. /\ live' \subseteq live /\ archive' \subseteq archive /\ shared' = shared
        /\ abandoned' = abandoned
    BY <1>3 DEF AppendDomain, NextDomain, MoveAside, Stop, certs
  <2>2. \A q \in Runner : pc[q] \in Trapped => pc'[q] \in Trapped
    BY <1>0, <1>3 DEF TypeOK, AppendDomain, NextDomain, MoveAside, Stop, RunCertbot, Goto,
      Trapped, Clearing
  <2> QED BY <2>1, <2>2, KeysKept
<1>4. CASE LoadDomains(r) \/ Reload(r) \/ Verify(r) \/ ReloadFails(r)
  <2>1. /\ live' = live /\ archive' = archive /\ shared' = shared
        /\ abandoned' = abandoned
    BY <1>4 DEF LoadDomains, Reload, Verify, ReloadFails, certs
  <2>2. pc[r] \notin Trapped /\ \A q \in Runner \ {r} : pc'[q] = pc[q]
    BY <1>0, <1>4 DEF TypeOK, LoadDomains, Reload, Verify, ReloadFails, Return, Quit, Goto,
      Trapped, Clearing
  <2> QED BY <2>1, <2>2, KeysKept
<1> QED BY <1>1, <1>2, <1>3, <1>4 DEF Step

LEMMA KeysOfCertbot ==
  ASSUME StateInv, KeysGetShared, CertbotStep
  PROVE  KeysGetShared'
<1>0. TypeOK /\ CertbotInv
  BY DEF StateInv
<1> PICK b \in certbot :
      \/ CertbotFails(b)
      \/ CertbotRenews(b)
      \/ CertbotRefuses(b)
      \/ CertbotClaims(b)
      \/ CertbotStores(b)
      \/ CertbotWritesConf(b)
  BY DEF CertbotStep
<1>1. \A r \in Runner : pc[r] \in Trapped => pc'[r] \in Trapped
  BY <1>0 DEF TypeOK, CertbotFails, CertbotRenews, CertbotRefuses, CertbotClaims,
     CertbotStores, CertbotWritesConf, CertbotExits, Trapped
<1>2. CASE \E keys \in {shared, shared \ {b.domain}} : Issue(b, keys)
  <2>1. PICK keys \in {shared, shared \ {b.domain}} : Issue(b, keys)
    BY <1>2
  <2>2. CASE b.owner \in Runner
    <3>1. pc[b.owner] \in Trapped
      BY <1>0, <2>2 DEF CertbotInv, Trapped
    <3> QED BY <1>1, <2>2, <3>1 DEF KeysGetShared
  <2>3. CASE b.owner = Nobody
    <3>1. \A d \in (live' \cup archive') \ shared' :
            d \in (live \cup archive) \ shared \/ d \in abandoned'
      BY <2>1, <2>3 DEF Issue
    <3>2. abandoned \subseteq abandoned'
      BY <2>1 DEF Issue
    <3> QED BY <1>1, <3>1, <3>2 DEF KeysGetShared
  <2> QED BY <1>0, <2>2, <2>3 DEF TypeOK
<1>3. CASE UNCHANGED <<live, archive, shared, abandoned>>
  BY <1>1, <1>3, KeysKept
<1> QED BY <1>2, <1>3 DEF CertbotFails, CertbotRenews, CertbotRefuses, CertbotClaims,
      CertbotStores, CertbotWritesConf, certs

LEMMA KeysNext == StateInv /\ KeysGetShared /\ [Next]_vars => KeysGetShared'
<1> SUFFICES ASSUME StateInv, KeysGetShared, [Next]_vars PROVE KeysGetShared'
  OBVIOUS
<1>0. TypeOK /\ CertbotInv
  BY DEF StateInv
<1>1. CASE TimerFires \/ HealEnds \/ CertbotTimesOut \/ UNCHANGED vars
           \/ (\E r \in Runner : ByHand(r) \/ \E d \in Domain : EnsureCert(r, d))
           \/ \E d \in Domain : Expire(d)
  <2>1. UNCHANGED <<live, archive, shared, abandoned>>
    BY <1>1 DEF TimerFires, HealEnds, CertbotTimesOut, vars, ByHand, EnsureCert, Expire, certs
  <2>2. \A r \in Runner : pc[r] \in Trapped => pc'[r] \in Trapped
    BY <1>0, <1>1 DEF TypeOK, TimerFires, HealEnds, CertbotTimesOut, vars, ByHand, EnsureCert,
      Expire, Goto, Trapped, Clearing
  <2> QED BY <2>1, <2>2, KeysKept
<1> QED BY <1>1, KeysOfRunners, KeysOfCertbot DEF Next

(* For every set of domains and runners: a key that nginx's group cannot    *)
(* read belongs to a run that will share it, unless a killed run left it.   *)
THEOREM KeysAreShared == Spec => []KeysGetShared
<1>1. Init => KeysGetShared
  BY DEF Init, KeysGetShared
<1> QED BY <1>1, StateAlways, KeysNext, PTL DEF Spec

-----------------------------------------------------------------------------
(* The list: what ensure_cert is asked for stays accounted for from the     *)
(* moment its run reads the list.                                           *)

LEMMA AccountedKept ==
  ASSUME NEW r \in Runner, Accounted(r),
         UNCHANGED <<certbot_domains, worktree>>, linked => linked',
         want'[r] = want[r],
         tended[r] \cup Elements(todo[r]) \subseteq tended'[r] \cup Elements(todo'[r]),
         r \in late => r \in late'
  PROVE  Accounted(r)'
<1>1. InWorktree(r)' => InWorktree(r)
  BY DEF InWorktree
<1>2. Elements(certbot_domains)' = Elements(certbot_domains) /\ Elements(worktree)' = Elements(worktree)
  BY DEF Elements
<1>3. Elements(todo[r])' = Elements(todo'[r])
  BY DEF Elements
<1> QED BY <1>1, <1>2, <1>3 DEF Accounted

LEMMA AppendDomainList ==
  ASSUME StateInv, ListInv, NEW r \in Runner, AppendDomain(r)
  PROVE  ListInv'
<1>0. /\ TypeOK /\ want[r] \in Domain /\ pc[r] = "append"
      /\ UNCHANGED <<linked, want, todo, tended>>
  BY DEF StateInv, TypeOK, RunInv, AppendDomain, run
<1> SUFFICES ASSUME NEW q \in Runner, pc'[q] \in AfterLoad PROVE Accounted(q)'
  BY DEF ListInv
<1>1. q # r /\ pc[q] = pc'[q] /\ Accounted(q)
  BY <1>0 DEF TypeOK, AppendDomain, Goto, ListInv, AfterLoad, Trapped, Clearing
<1>2. q \in late => q \in late'
  BY DEF AppendDomain
<1>3. CASE want[q] = want[r]
  <2>1. q \in late'
    BY <1>1, <1>3 DEF AppendDomain, AfterLoad, Trapped, Clearing
  <2> QED BY <2>1 DEF Accounted
<1>4. CASE want[q] # want[r]
  <2>1. /\ want[q] \in Elements(certbot_domains') => want[q] \in Elements(certbot_domains)
        /\ want[q] \in Elements(worktree') => want[q] \in Elements(worktree)
    <3>1. /\ Elements(Append(certbot_domains, want[r])) = Elements(certbot_domains) \cup {want[r]}
          /\ Elements(Append(worktree, want[r])) = Elements(worktree) \cup {want[r]}
      BY <1>0, ElementsOfAppend DEF TypeOK
    <3>2. /\ certbot_domains' \in {certbot_domains, Append(certbot_domains, want[r])}
          /\ worktree' \in {worktree, Append(worktree, want[r])}
      BY DEF AppendDomain
    <3>3. /\ Elements(certbot_domains') \subseteq Elements(certbot_domains) \cup {want[r]}
          /\ Elements(worktree') \subseteq Elements(worktree) \cup {want[r]}
      BY <3>1, <3>2
    <3> QED BY <1>4, <3>3
  <2>2. /\ Elements(certbot_domains)' = Elements(certbot_domains')
        /\ Elements(worktree)' = Elements(worktree')
        /\ Elements(todo[q])' = Elements(todo[q])
    BY <1>0 DEF Elements
  <2>3. InWorktree(q)' <=> InWorktree(q)
    BY <1>0 DEF InWorktree
  <2> QED BY <1>0, <1>1, <1>2, <2>1, <2>2, <2>3 DEF Accounted
<1> QED BY <1>3, <1>4

LEMMA LoadDomainsList ==
  ASSUME StateInv, ListInv, NEW r \in Runner, LoadDomains(r)
  PROVE  ListInv'
<1> DEFINE domains == IF Relinks(r) THEN certbot_domains ELSE DomainsFile(r)
<1>0. /\ TypeOK /\ pc[r] = "load"
      /\ UNCHANGED <<certbot_domains, worktree>> /\ linked' = (linked \/ Relinks(r))
  BY DEF StateInv, LoadDomains
<1>1. ASSUME NEW q \in Runner \ {r}, pc'[q] \in AfterLoad PROVE Accounted(q)'
  <2>1. /\ pc[q] = pc'[q] /\ want'[q] = want[q] /\ tended'[q] = tended[q] /\ todo'[q] = todo[q]
        /\ q \in late => q \in late'
    BY <1>0, QuitTypes DEF TypeOK, LoadDomains, Return, Quit, Goto
  <2>2. Accounted(q)
    BY <1>1, <2>1 DEF ListInv
  <2> QED BY <1>0, <2>1, <2>2, AccountedKept
<1>2. ASSUME pc'[r] \in AfterLoad PROVE Accounted(r)'
  <2>1. domains # <<>>
    <3> SUFFICES ASSUME domains = <<>> PROVE FALSE
      OBVIOUS
    <3>1. Quit(r)
      BY DEF LoadDomains, Return
    <3> QED BY <1>0, <1>2, <3>1, QuitTypes DEF AfterLoad, Trapped, Clearing
  <2>2. todo'[r] = domains /\ want'[r] = want[r]
    BY <1>0, <2>1 DEF LoadDomains, TypeOK
  <2>3. Elements(todo[r])' = Elements(domains)
    BY <2>2 DEF Elements
  <2>4. /\ Elements(certbot_domains)' = Elements(certbot_domains)
        /\ Elements(worktree)' = Elements(worktree)
    BY <1>0 DEF Elements
  <2>5. CASE ~InWorktree(r) \/ Relinks(r)
    <3>1. domains = certbot_domains /\ ~InWorktree(r)'
      BY <1>0, <2>5 DEF DomainsFile, InWorktree, Relinks
    <3> QED BY <2>2, <2>3, <2>4, <3>1 DEF Accounted
  <2>6. CASE InWorktree(r) /\ ~Relinks(r)
    <3>1. domains = worktree /\ certbot_domains = <<>>
      BY <2>6 DEF DomainsFile, Relinks
    <3>2. Elements(certbot_domains) = {}
      BY <3>1, ElementsOfEmpty
    <3> QED BY <2>2, <2>3, <2>4, <3>1, <3>2 DEF Accounted
  <2> QED BY <2>5, <2>6
<1> QED BY <1>1, <1>2 DEF ListInv

LEMMA StopList ==
  ASSUME StateInv, ListInv, NEW r \in Runner, Stop(r)
  PROVE  ListInv'
<1>0. TypeOK /\ UNCHANGED <<certbot_domains, worktree, linked, todo, tended, late>>
  BY DEF StateInv, Stop, lists, overlaps
<1>1. ASSUME NEW q \in Runner \ {r}, pc'[q] \in AfterLoad PROVE Accounted(q)'
  <2>1. pc[q] = pc'[q] /\ want'[q] = want[q]
    BY <1>0 DEF TypeOK, Stop, Goto
  <2> QED BY <1>0, <1>1, <2>1, AccountedKept DEF ListInv
<1>2. Accounted(r)'
  <2>1. want'[r] = Nobody
    BY <1>0 DEF TypeOK, Stop
  <2>2. Elements(certbot_domains') \subseteq Domain /\ Elements(worktree') \subseteq Domain
    BY <1>0, ElementsInSet DEF TypeOK
  <2>3. Elements(certbot_domains)' = Elements(certbot_domains') /\ Elements(worktree)' = Elements(worktree')
    BY DEF Elements
  <2> QED BY <2>1, <2>2, <2>3, NamesAssumption DEF Accounted
<1> QED BY <1>1, <1>2 DEF ListInv

LEMMA CertbotStepList ==
  ASSUME StateInv, ListInv, CertbotStep
  PROVE  ListInv'
<1>0. TypeOK /\ RunInv /\ CertbotInv
  BY DEF StateInv
<1> PICK b \in certbot :
      \/ CertbotFails(b)
      \/ CertbotRenews(b)
      \/ CertbotRefuses(b)
      \/ CertbotClaims(b)
      \/ CertbotStores(b)
      \/ CertbotWritesConf(b)
  BY DEF CertbotStep
<1>1. UNCHANGED <<certbot_domains, worktree, linked, want, late>>
  BY DEF CertbotFails, CertbotRenews, CertbotRefuses, CertbotClaims, CertbotStores,
     CertbotWritesConf, CertbotExits, lists, run, overlaps
<1> SUFFICES ASSUME NEW q \in Runner, pc'[q] \in AfterLoad PROVE Accounted(q)'
  BY DEF ListInv
<1>2. CASE pc'[q] = pc[q] /\ todo'[q] = todo[q] /\ tended'[q] = tended[q]
  BY <1>1, <1>2, AccountedKept DEF ListInv
<1>3. CASE q = b.owner
  <2>1. pc[q] = "wait" /\ todo[q] # <<>> /\ Head(todo[q]) = b.domain /\ todo[q] \in Seq(Domain)
    BY <1>0, <1>3 DEF CertbotInv, RunInv, TypeOK
  <2>2. Elements(todo[q]) \subseteq Elements(Tail(todo[q])) \cup {b.domain}
    BY <2>1, ElementsOfTail
  <2>3. \/ todo'[q] = todo[q] /\ tended'[q] = tended[q]
        \/ todo'[q] = Tail(todo[q]) /\ tended'[q] = tended[q] \cup {b.domain}
    BY <1>3 DEF CertbotFails, CertbotRenews, CertbotRefuses, CertbotClaims, CertbotStores,
       CertbotWritesConf, CertbotExits, run
  <2>4. Accounted(q)
    BY <2>1 DEF ListInv, AfterLoad, Trapped
  <2> QED BY <1>1, <2>2, <2>3, <2>4, AccountedKept
<1>4. q # b.owner => pc'[q] = pc[q] /\ todo'[q] = todo[q] /\ tended'[q] = tended[q]
  BY DEF CertbotFails, CertbotRenews, CertbotRefuses, CertbotClaims, CertbotStores,
     CertbotWritesConf, CertbotExits, run
<1> QED BY <1>2, <1>3, <1>4

LEMMA ListNext == StateInv /\ ListInv /\ [Next]_vars => ListInv'
<1> SUFFICES ASSUME StateInv, ListInv, [Next]_vars PROVE ListInv'
  OBVIOUS
<1>0. TypeOK /\ CertbotInv
  BY DEF StateInv
<1>1. ASSUME NEW r \in Runner, Fail(r) \/ Verify(r) \/ ReloadFails(r) \/ Kill(r) \/ (Reload(r) /\ Quit(r))
      PROVE  ListInv'
  <2>1. Quit(r) /\ UNCHANGED <<certbot_domains, worktree, linked>>
    BY <1>1 DEF Fail, Verify, ReloadFails, Kill, Reload, Return, lists
  <2>2. /\ pc'[r] \in {"idle", "pass", "stopped"}
        /\ \A q \in Runner \ {r} :
             /\ pc'[q] = pc[q] /\ todo'[q] = todo[q] /\ want'[q] = want[q] /\ tended'[q] = tended[q]
             /\ q \in late => q \in late'
    BY <1>0, <2>1, QuitTypes DEF Quit
  <2>3. \A q \in Runner : pc'[q] \in AfterLoad => q # r
    BY <2>2 DEF AfterLoad, Trapped, Clearing
  <2> QED BY <2>1, <2>2, <2>3, AccountedKept DEF ListInv
<1>2. ASSUME UNCHANGED <<certbot_domains, worktree, linked, todo, tended, late>>,
             \A q \in Runner : pc'[q] \in AfterLoad => pc[q] \in AfterLoad /\ want'[q] = want[q]
      PROVE  ListInv'
  BY <1>2, AccountedKept DEF ListInv
<1>3. ASSUME NEW r \in Runner, Finish(r) \/ NextDomain(r) \/ MoveAside(r) \/ ByHand(r)
                               \/ (Reload(r) /\ ~Quit(r)) \/ \E d \in Domain : EnsureCert(r, d)
      PROVE  ListInv'
  <2>1. UNCHANGED <<certbot_domains, worktree, linked, todo, tended, late>>
    BY <1>3 DEF Finish, NextDomain, MoveAside, Reload, ByHand, EnsureCert, lists, run, overlaps
  <2>2. \A q \in Runner : pc'[q] \in AfterLoad => pc[q] \in AfterLoad /\ want'[q] = want[q]
    <3>1. \A q \in Runner \ {r} : pc'[q] = pc[q] /\ want'[q] = want[q]
      BY <1>0, <1>3 DEF TypeOK, Finish, NextDomain, MoveAside, RunCertbot, Reload, ByHand, EnsureCert,
         Goto, run
    <3>2. CASE Finish(r) \/ NextDomain(r) \/ MoveAside(r) \/ (Reload(r) /\ ~Quit(r))
      BY <3>1, <3>2 DEF Finish, NextDomain, MoveAside, Reload, run, AfterLoad, Trapped, Clearing
    <3>3. CASE ByHand(r) \/ \E d \in Domain : EnsureCert(r, d)
      <4>1. pc'[r] \in {"load", "append"}
        BY <1>0, <3>3 DEF TypeOK, ByHand, EnsureCert, Goto
      <4> QED BY <3>1, <4>1 DEF AfterLoad, Trapped, Clearing
    <3> QED BY <1>3, <3>2, <3>3
  <2> QED BY <1>2, <2>1, <2>2
<1>4. CASE TimerFires \/ HealEnds \/ CertbotTimesOut \/ UNCHANGED vars \/ \E d \in Domain : Expire(d)
  <2>1. UNCHANGED <<certbot_domains, worktree, linked, todo, tended, late, want>>
    BY <1>4 DEF TimerFires, HealEnds, CertbotTimesOut, vars, Expire, lists, run, overlaps
  <2>2. \A q \in Runner : pc'[q] \in AfterLoad => pc[q] \in AfterLoad
    <3>1. CASE TimerFires \/ HealEnds
      BY <1>0, <3>1 DEF TypeOK, TimerFires, HealEnds, Goto, AfterLoad, Trapped, Clearing
    <3>2. CASE CertbotTimesOut
      BY <1>0, <3>2 DEF TypeOK, CertbotInv, CertbotTimesOut, AfterLoad, Trapped
    <3>3. CASE UNCHANGED vars \/ \E d \in Domain : Expire(d)
      BY <3>3 DEF vars, Expire
    <3> QED BY <1>4, <3>1, <3>2, <3>3
  <2> QED BY <1>2, <2>1, <2>2
<1>5. ASSUME NEW r \in Runner, Step(r) PROVE ListInv'
  BY <1>1, <1>3, <1>5, AppendDomainList, LoadDomainsList DEF Step
<1> QED BY <1>1, <1>3, <1>4, <1>5, StopList, CertbotStepList DEF Next

LEMMA ListAlways == Spec => []ListInv
<1>1. Init => ListInv
  BY DEF Init, ListInv, AfterLoad, Trapped, Clearing
<1> QED BY <1>1, StateAlways, ListNext, PTL DEF Spec

\* The script's reload and the check of line 190 are nobody else's to end.
LEMMA OnlyItsOwnSteps ==
  ASSUME StateInv, [Next]_vars, NEW r \in Runner, pc[r] \in {"reload", "verify"}, pc'[r] # pc[r]
  PROVE  Verify(r) \/ Reload(r) \/ ReloadFails(r)
<1>0. TypeOK /\ CertbotInv
  BY DEF StateInv
<1>1. ASSUME NEW q \in Runner,
             Step(q) \/ ByHand(q) \/ (\E d \in Domain : EnsureCert(q, d)) \/ ReloadFails(q)
             \/ Stop(q) \/ Kill(q)
      PROVE  Verify(r) \/ Reload(r) \/ ReloadFails(r)
  <2>1. CASE q # r
    <3>1. pc'[r] = pc[r]
      BY <1>0, <1>1, <2>1 DEF TypeOK, Step, AppendDomain, LoadDomains, NextDomain, MoveAside,
         RunCertbot, Fail, Finish, Reload, Verify, ByHand, EnsureCert, ReloadFails, Stop, Kill,
         Return, Quit, Goto
    <3> QED BY <3>1
  <2>2. CASE q = r
    BY <1>1, <2>2 DEF Step, AppendDomain, LoadDomains, NextDomain, MoveAside, Fail, Finish,
       ByHand, EnsureCert, Stop, Kill, Trapped, Clearing
  <2> QED BY <2>1, <2>2
<1>2. ~CertbotStep
  <2> SUFFICES ASSUME CertbotStep PROVE FALSE
    OBVIOUS
  <2>1. PICK b \in certbot : pc'[r] # pc[r] => r = b.owner
    BY DEF CertbotStep, CertbotFails, CertbotRenews, CertbotRefuses, CertbotClaims,
       CertbotStores, CertbotWritesConf, CertbotExits
  <2> QED BY <1>0, <2>1 DEF CertbotInv
<1>3. ~(TimerFires \/ HealEnds \/ CertbotTimesOut \/ UNCHANGED vars \/ \E d \in Domain : Expire(d))
  <2>1. ~(TimerFires \/ HealEnds)
    BY <1>0 DEF TypeOK, TimerFires, HealEnds, Goto
  <2>2. ~CertbotTimesOut
    BY <1>0 DEF CertbotInv, CertbotTimesOut
  <2>3. ~(UNCHANGED vars \/ \E d \in Domain : Expire(d))
    BY DEF vars, Expire
  <2> QED BY <2>1, <2>2, <2>3
<1> QED BY <1>1, <1>2, <1>3 DEF Next

(* For every set of domains and runners: ensure_cert says "applied" only of *)
(* a domain certbot returned 0 for in its run, unless somebody else listed  *)
(* it meanwhile.                                                            *)
THEOREM AppliedWasTended == Spec => AppliedMeansTended
<1>1. ASSUME StateInv, ListInv, [Next]_vars, NEW r \in Runner, pc[r] = "verify", pc'[r] # "verify",
             result' = "applied", r \notin late
      PROVE  want[r] \in tended[r]
  <2>1. Verify(r)
    BY <1>1, OnlyItsOwnSteps DEF Reload, ReloadFails
  <2>2. RunInv /\ want[r] # Nobody /\ todo[r] = <<>>
    BY <1>1 DEF StateInv, RunInv
  <2>3. Survived(r)
    BY <1>1, <2>1, <2>2 DEF Verify, Return, Status
  <2>4. Accounted(r)
    BY <1>1 DEF ListInv, AfterLoad
  <2>5. Elements(todo[r]) = {}
    BY <2>2, ElementsOfEmpty
  <2> QED BY <1>1, <2>3, <2>4, <2>5 DEF Accounted, Survived, DomainsFile
<1>2. StateInv /\ ListInv /\ [Next]_vars =>
        [\A r \in Runner : pc[r] = "verify" /\ pc'[r] # "verify" /\ result' = "applied" =>
           want[r] \in tended[r] \/ r \in late]_vars
  BY <1>1
<1> QED BY <1>2, StateAlways, ListAlways, PTL DEF Spec, AppliedMeansTended

-----------------------------------------------------------------------------
(* Lineages: what a run moves aside certbot could not use when it tested it,*)
(* and can use now only if another run completed it.                        *)

LEMMA ClearKept ==
  ASSUME ClearInv,
         \A d \in Domain : Intact(d)' => Intact(d),
         \A r \in Runner : pc'[r] \in Clearing =>
            /\ pc[r] \in Clearing /\ todo'[r] = todo[r] /\ Head(todo[r]) \in Domain
            /\ r \in overtaken => r \in overtaken',
         \A r \in Runner : r \in overtaken' => r \in overtaken /\ pc'[r] \in Clearing \cup {"fail"}
  PROVE  ClearInv'
<1>1. ASSUME NEW r \in Runner, pc'[r] \in Clearing, r \notin overtaken'
      PROVE  ~Intact(Head(todo[r]))'
  <2>1. ~Intact(Head(todo[r])) /\ Head(todo[r]) \in Domain /\ todo'[r] = todo[r]
    BY <1>1 DEF ClearInv
  <2> QED BY <2>1 DEF Intact
<1> QED BY <1>1 DEF ClearInv

LEMMA HeadInDomain ==
  ASSUME StateInv, NEW r \in Runner, pc[r] \in Clearing
  PROVE  Head(todo[r]) \in Domain
BY ElementsOfTail DEF StateInv, TypeOK, RunInv

LEMMA NextDomainClear ==
  ASSUME StateInv, ClearInv, NEW r \in Runner, NextDomain(r)
  PROVE  ClearInv'
<1>0. /\ TypeOK /\ UNCHANGED <<renewal_conf, live, todo, overtaken>>
      /\ \A q \in Runner \ {r} : pc'[q] = pc[q]
      /\ pc'[r] \in {"wait", "fail", "clear_live"} /\ pc[r] = "loop"
      /\ pc'[r] = "clear_live" => ~Intact(Head(todo[r]))
  BY DEF StateInv, TypeOK, NextDomain, RunCertbot, Known, Intact, Goto, certs, run, overlaps
<1>1. r \notin overtaken
  BY <1>0 DEF ClearInv, Clearing
<1> QED BY <1>0, <1>1 DEF ClearInv, Clearing, Intact

LEMMA MoveAsideClear ==
  ASSUME StateInv, ClearInv, NEW r \in Runner, MoveAside(r)
  PROVE  ClearInv'
<1>0. /\ TypeOK /\ pc[r] \in Clearing /\ UNCHANGED todo
      /\ \A q \in Runner \ {r} : pc'[q] = pc[q]
  BY DEF StateInv, TypeOK, MoveAside, RunCertbot, Goto, Clearing, run
<1>1. \A d \in Domain : Intact(d)' => Intact(d)
  BY <1>0 DEF TypeOK, MoveAside, Intact
<1>2. CASE pc[r] = "clear_conf"
  <2>1. overtaken' = overtaken \ {r} /\ pc'[r] \in {"wait", "fail"}
    BY <1>0, <1>2 DEF TypeOK, MoveAside, RunCertbot, Goto
  <2>2. \A q \in Runner : pc'[q] \in Clearing => q # r
    BY <2>1 DEF Clearing
  <2> QED BY <1>0, <1>1, <2>1, <2>2, ClearKept, HeadInDomain DEF ClearInv
<1>3. CASE pc[r] # "clear_conf"
  <2>1. overtaken' = overtaken /\ pc'[r] \in Clearing
    BY <1>0, <1>3 DEF TypeOK, MoveAside, Goto, Clearing
  <2> QED BY <1>0, <1>1, <2>1, ClearKept, HeadInDomain DEF ClearInv
<1> QED BY <1>2, <1>3

LEMMA CertbotStepClear ==
  ASSUME StateInv, ClearInv, CertbotStep
  PROVE  ClearInv'
<1>0. TypeOK /\ CertbotInv
  BY DEF StateInv
<1> PICK b \in certbot :
      \/ CertbotFails(b)
      \/ CertbotRenews(b)
      \/ CertbotRefuses(b)
      \/ CertbotClaims(b)
      \/ CertbotStores(b)
      \/ CertbotWritesConf(b)
  BY DEF CertbotStep
<1>1. /\ \A r \in Runner : pc'[r] = pc[r] \/ (pc[r] = "wait" /\ pc'[r] \in {"loop", "fail"})
      /\ \A r \in Runner : pc[r] # "wait" => todo'[r] = todo[r]
  BY <1>0 DEF CertbotInv, CertbotFails, CertbotRenews, CertbotRefuses, CertbotClaims,
     CertbotStores, CertbotWritesConf, CertbotExits, run
<1>2. \A r \in Runner : pc'[r] \in Clearing =>
        pc[r] \in Clearing /\ todo'[r] = todo[r] /\ Head(todo[r]) \in Domain
  BY <1>1, HeadInDomain DEF Clearing
<1>3. \A r \in overtaken : r \in Runner => pc'[r] \in Clearing \cup {"fail"}
  BY <1>1 DEF ClearInv, Clearing
<1>4. CASE ~CertbotWritesConf(b)
  <2>1. overtaken' = overtaken
    BY <1>4 DEF CertbotFails, CertbotRenews, CertbotRefuses, CertbotClaims, CertbotStores, overlaps
  <2>2. \A d \in Domain : Intact(d)' => Intact(d)
    BY <1>0, <1>4 DEF TypeOK, CertbotInv, CertbotFails, CertbotRenews, CertbotRefuses, CertbotClaims,
       CertbotStores, Issue, Intact, certs
  <2> QED BY <1>2, <1>3, <2>1, <2>2, ClearKept
<1>5. CASE CertbotWritesConf(b)
  <2>1. /\ overtaken' = overtaken \cup {q \in Runner : pc[q] \in Clearing /\ Head(todo[q]) = b.domain}
        /\ live' = live
        /\ \A d \in Domain \ {b.domain} : renewal_conf'[d] = renewal_conf[d]
    BY <1>0, <1>5 DEF CertbotWritesConf, TypeOK
  <2>2. ASSUME NEW r \in Runner, pc'[r] \in Clearing, r \notin overtaken'
        PROVE  ~Intact(Head(todo[r]))'
    <3>1. /\ pc[r] \in Clearing /\ todo'[r] = todo[r] /\ Head(todo[r]) \in Domain \ {b.domain}
          /\ ~Intact(Head(todo[r]))
      BY <1>2, <2>1, <2>2 DEF ClearInv
    <3> QED BY <2>1, <3>1 DEF Intact
  <2>3. \A r \in Runner : r \in overtaken' => pc'[r] \in Clearing \cup {"fail"}
    BY <1>1, <1>3, <2>1 DEF Clearing
  <2> QED BY <2>2, <2>3 DEF ClearInv
<1> QED BY <1>4, <1>5

LEMMA ClearNext == StateInv /\ ClearInv /\ [Next]_vars => ClearInv'
<1> SUFFICES ASSUME StateInv, ClearInv, [Next]_vars PROVE ClearInv'
  OBVIOUS
<1>0. TypeOK /\ CertbotInv
  BY DEF StateInv
<1>1. ASSUME NEW r \in Runner,
             \/ ByHand(r) \/ (\E d \in Domain : EnsureCert(r, d)) \/ AppendDomain(r) \/ LoadDomains(r)
             \/ Fail(r) \/ Finish(r) \/ Reload(r) \/ ReloadFails(r) \/ Verify(r) \/ Stop(r) \/ Kill(r)
      PROVE  ClearInv'
  <2>1. \A d \in Domain : Intact(d)' => Intact(d)
    <3>1. renewal_conf' = renewal_conf /\ live' = live
      BY <1>1 DEF ByHand, EnsureCert, AppendDomain, LoadDomains, Fail, Finish, Reload, ReloadFails,
         Verify, Stop, Kill, certs
    <3> QED BY <3>1 DEF Intact
  <2>2. \A q \in Runner \ {r} : pc'[q] = pc[q] /\ todo'[q] = todo[q]
    <3>1. CASE Quit(r)
      BY <1>0, <3>1, QuitTypes
    <3>2. CASE LoadDomains(r) /\ ~Quit(r)
      BY <1>0, <3>2 DEF TypeOK, LoadDomains, Return, Goto
    <3>3. CASE ByHand(r) \/ (\E d \in Domain : EnsureCert(r, d)) \/ AppendDomain(r) \/ Finish(r)
               \/ Stop(r) \/ (Reload(r) /\ ~Quit(r))
      BY <1>0, <3>3 DEF TypeOK, ByHand, EnsureCert, AppendDomain, Finish, Reload, Stop, Goto, run
    <3> QED BY <1>1, <3>1, <3>2, <3>3 DEF Fail, ReloadFails, Verify, Kill, Return
  <2>3. /\ overtaken' \subseteq overtaken /\ \A q \in overtaken : q # r => q \in overtaken'
        /\ pc'[r] \notin Clearing
        /\ r \in overtaken' => pc'[r] = "fail"
    <3>1. CASE Stop(r)
      BY <1>0, <3>1 DEF TypeOK, Stop, Goto, Clearing, overlaps
    <3>2. CASE Quit(r)
      BY <1>0, <3>2, QuitTypes DEF Quit, Clearing
    <3>3. CASE /\ pc[r] \in {"idle", "pass", "append", "load", "loop", "reload"}
               /\ pc'[r] \in {"load", "append", "loop", "reload", "verify"}
               /\ overtaken' = overtaken
      BY <3>3 DEF ClearInv, Clearing
    <3>4. CASE ByHand(r) \/ (\E d \in Domain : EnsureCert(r, d)) \/ AppendDomain(r) \/ Finish(r)
               \/ (Reload(r) /\ ~Quit(r)) \/ (LoadDomains(r) /\ ~Quit(r))
      <4>1. /\ pc[r] \in {"idle", "pass", "append", "load", "loop", "reload"}
            /\ overtaken' = overtaken
        BY <3>4 DEF ByHand, EnsureCert, AppendDomain, Finish, Reload, LoadDomains, Return, overlaps
      <4>2. pc'[r] \in {"load", "append", "loop", "reload", "verify"}
        BY <1>0, <3>4 DEF TypeOK, ByHand, EnsureCert, AppendDomain, Finish, Reload, LoadDomains,
           Return, Goto
      <4> QED BY <3>3, <4>1, <4>2
    <3> QED BY <1>1, <3>1, <3>2, <3>4 DEF Fail, ReloadFails, Verify, Kill, Return
  <2>4. \A q \in Runner : pc'[q] \in Clearing => q # r
    BY <2>3
  <2>5. \A q \in Runner : q \in overtaken' => q \in overtaken /\ pc'[q] \in Clearing \cup {"fail"}
    BY <2>2, <2>3 DEF ClearInv
  <2> QED BY <2>1, <2>2, <2>3, <2>4, <2>5, ClearKept, HeadInDomain
<1>2. CASE TimerFires \/ HealEnds \/ CertbotTimesOut \/ UNCHANGED vars \/ \E d \in Domain : Expire(d)
  <2>1. UNCHANGED <<renewal_conf, live, todo, overtaken>>
    BY <1>2 DEF TimerFires, HealEnds, CertbotTimesOut, vars, Expire, certs, run, overlaps
  <2>2. \A q \in Runner : \/ pc'[q] = pc[q]
                          \/ pc[q] \in {"idle", "pass", "stopped"} /\ pc'[q] \notin Clearing
                          \/ pc'[q] = "fail"
    BY <1>0, <1>2 DEF TypeOK, TimerFires, HealEnds, CertbotTimesOut, vars, Expire, Goto, Clearing
  <2>3. \A d \in Domain : Intact(d)' => Intact(d)
    BY <2>1 DEF Intact
  <2>4. \A q \in Runner : pc'[q] \in Clearing => pc[q] \in Clearing /\ Head(todo[q]) \in Domain
    BY <2>2, HeadInDomain DEF Clearing
  <2>5. \A q \in Runner : q \in overtaken => pc'[q] \in Clearing \cup {"fail"}
    BY <2>2 DEF ClearInv, Clearing
  <2> QED BY <2>1, <2>3, <2>4, <2>5, ClearKept
<1>3. ASSUME NEW r \in Runner, Step(r) PROVE ClearInv'
  BY <1>1, <1>3, NextDomainClear, MoveAsideClear DEF Step
<1> QED BY <1>1, <1>2, <1>3, CertbotStepClear DEF Next

LEMMA ClearAlways == Spec => []ClearInv
<1>1. Init => ClearInv
  BY DEF Init, ClearInv, Clearing
<1> QED BY <1>1, StateAlways, ClearNext, PTL DEF Spec

(* For every set of domains and runners: a lineage in use is never moved    *)
(* aside, unless another run completed it between the test and the mv.      *)
THEOREM IntactIsNotMoved == Spec => IntactStaysInPlace
<1>1. ASSUME StateInv, ClearInv, [Next]_vars, NEW d \in Domain, Intact(d), ~Intact(d)'
      PROVE  \E r \in overtaken : pc[r] \in Clearing /\ Head(todo[r]) = d
  <2>0. TypeOK
    BY <1>1 DEF StateInv
  <2>1. ~(renewal_conf' = renewal_conf /\ live \subseteq live')
    BY <1>1 DEF Intact
  <2>2. ~CertbotStep
    <3> SUFFICES ASSUME CertbotStep PROVE FALSE
      OBVIOUS
    <3>1. PICK b \in certbot :
            \/ CertbotFails(b)
            \/ CertbotRenews(b)
            \/ CertbotRefuses(b)
            \/ CertbotClaims(b)
            \/ CertbotStores(b)
            \/ CertbotWritesConf(b)
      BY DEF CertbotStep
    <3>2. CertbotClaims(b) \/ CertbotWritesConf(b)
      BY <2>1, <3>1 DEF CertbotFails, CertbotRenews, CertbotRefuses, CertbotStores, Issue, certs
    <3> QED BY <1>1, <2>0, <3>2 DEF TypeOK, CertbotClaims, CertbotWritesConf, Incomplete, Intact
  <2>3. \E r \in Runner : MoveAside(r)
    <3>1. \A r \in Runner : Step(r) => MoveAside(r)
      BY <2>1 DEF Step, AppendDomain, LoadDomains, NextDomain, Fail, Finish, Reload, Verify, certs
    <3>2. \A r \in Runner : ~(ByHand(r) \/ (\E e \in Domain : EnsureCert(r, e)) \/ ReloadFails(r)
                              \/ Stop(r) \/ Kill(r))
      BY <2>1 DEF ByHand, EnsureCert, ReloadFails, Stop, Kill, certs
    <3>3. ~(TimerFires \/ HealEnds \/ CertbotTimesOut \/ UNCHANGED vars
            \/ \E e \in Domain : Expire(e))
      BY <2>1 DEF TimerFires, HealEnds, CertbotTimesOut, Expire, vars, certs
    <3> QED BY <1>1, <2>2, <3>1, <3>2, <3>3 DEF Next
  <2>4. PICK r \in Runner : MoveAside(r)
    BY <2>3
  <2>5. pc[r] \in Clearing /\ d = Head(todo[r])
    BY <1>1, <2>0, <2>4 DEF MoveAside, TypeOK, Clearing, Intact
  <2> QED BY <1>1, <2>5 DEF ClearInv
<1>2. StateInv /\ ClearInv /\ [Next]_vars =>
        [\A d \in Domain : Intact(d) /\ ~Intact(d)' =>
           \E r \in overtaken : pc[r] \in Clearing /\ Head(todo[r]) = d]_vars
  BY <1>1
<1> QED BY <1>2, StateAlways, ClearAlways, PTL DEF Spec, IntactStaysInPlace

-----------------------------------------------------------------------------
(* A run that nobody overlaps: the lineages it tended stay as certbot left  *)
(* them, and the trap's keys are the last to be shared.                     *)

LEMMA AloneKept ==
  ASSUME AloneInv, TypeOK,
         alone' \subseteq alone, overtaken' \subseteq overtaken,
         UNCHANGED <<renewal_conf, live>>, shared \subseteq shared',
         \A b \in certbot' : \E c \in certbot : b.owner = c.owner,
         \A q \in Runner : pc'[q] \in Trapped => pc[q] \in Trapped,
         \A r \in alone' : /\ tended'[r] = tended[r] /\ pc'[r] \in AfterLoad
                           /\ pc'[r] \in Clearing => pc[r] \in Clearing
                           /\ pc'[r] \in {"reload", "verify"} => pc[r] \in {"reload", "verify"}
  PROVE  AloneInv'
<1>1. \A d : Intact(d)' <=> Intact(d)
  BY DEF Intact
<1>2. ASSUME NEW r \in alone' PROVE KeepsTended(r)'
  <2>1. KeepsTended(r)
    BY DEF AloneInv
  <2> QED BY <1>1, <2>1 DEF KeepsTended
<1> QED BY <1>2 DEF AloneInv

LEMMA LoadDomainsAlone ==
  ASSUME StateInv, AloneInv, NEW r \in Runner, LoadDomains(r), ~Quit(r)
  PROVE  AloneInv'
<1>0. TypeOK /\ pc[r] = "load" /\ tended[r] = {}
  BY DEF StateInv, RunInv, LoadDomains, AfterLoad, Trapped, Clearing
<1>1. /\ pc' = [pc EXCEPT ![r] = "loop"] /\ tended' = tended /\ certbot' = certbot
      /\ alone' = IF certbot = {} /\ \A q \in Runner \ {r} : pc[q] \notin Trapped
                  THEN {r} ELSE {}
  BY DEF LoadDomains, Return, Goto
<1>2. pc'[r] = "loop" /\ \A q \in Runner \ {r} : pc'[q] = pc[q]
  BY <1>0, <1>1 DEF TypeOK
<1>3. CASE r \in alone'
  <2>1. KeepsTended(r)'
    BY <1>0, <1>1, <1>2, <1>3 DEF KeepsTended, AfterLoad, Trapped, Clearing
  <2>2. alone' = {r}
    BY <1>1, <1>3
  <2> QED BY <2>1, <2>2 DEF AloneInv
<1>4. CASE r \notin alone'
  BY <1>1, <1>4 DEF AloneInv
<1> QED BY <1>3, <1>4

LEMMA NextDomainAlone ==
  ASSUME StateInv, ClearInv, AloneInv, NEW r \in Runner, NextDomain(r)
  PROVE  AloneInv'
<1>0. TypeOK /\ pc[r] = "loop" /\ UNCHANGED <<renewal_conf, live, shared, tended, alone, overtaken>>
  BY DEF StateInv, NextDomain, certs, run, overlaps
<1>1. /\ pc'[r] \in {"wait", "fail", "clear_live"} /\ \A q \in Runner \ {r} : pc'[q] = pc[q]
      /\ \A b \in certbot' : b.owner = r \/ b \in certbot
  BY <1>0 DEF TypeOK, NextDomain, RunCertbot, Goto
<1>2. r \notin overtaken
  BY <1>0 DEF ClearInv, Clearing
<1>3. alone \subseteq {r}
  BY <1>0 DEF AloneInv, KeepsTended, TypeOK, Trapped
<1>4. ASSUME r \in alone PROVE KeepsTended(r)'
  <2>1. KeepsTended(r)
    BY <1>4 DEF AloneInv
  <2>2. \A d : Intact(d)' <=> Intact(d)
    BY <1>0 DEF Intact
  <2> QED BY <1>0, <1>1, <1>2, <2>1, <2>2 DEF KeepsTended, AfterLoad, Trapped, Clearing
<1> QED BY <1>0, <1>3, <1>4 DEF AloneInv

LEMMA MoveAsideAlone ==
  ASSUME StateInv, ClearInv, AloneInv, NEW r \in Runner, MoveAside(r)
  PROVE  AloneInv'
<1>0. /\ TypeOK /\ pc[r] \in Clearing /\ UNCHANGED <<shared, tended, alone>>
      /\ overtaken' \subseteq overtaken
  BY DEF StateInv, MoveAside, run, Clearing
<1>1. /\ pc'[r] \in {"wait", "fail"} \cup Clearing /\ \A q \in Runner \ {r} : pc'[q] = pc[q]
      /\ \A b \in certbot' : b.owner = r \/ b \in certbot
  BY <1>0 DEF TypeOK, MoveAside, RunCertbot, Goto, Clearing
<1>2. alone \subseteq {r}
  BY <1>0 DEF AloneInv, KeepsTended, TypeOK, Trapped
<1>3. ASSUME r \in alone PROVE KeepsTended(r)'
  <2>1. KeepsTended(r) /\ ~Intact(Head(todo[r]))
    BY <1>0, <1>3 DEF AloneInv, KeepsTended, ClearInv
  <2>2. \A d \in Domain \ {Head(todo[r])} : Intact(d) => Intact(d)'
    BY <1>0 DEF TypeOK, MoveAside, Intact
  <2>3. \A d \in tended[r] : Intact(d)'
    BY <1>0, <2>1, <2>2 DEF TypeOK, KeepsTended
  <2> QED BY <1>0, <1>1, <2>1, <2>3 DEF KeepsTended, AfterLoad, Trapped, Clearing
<1> QED BY <1>0, <1>2, <1>3 DEF AloneInv

LEMMA FinishAlone ==
  ASSUME StateInv, AloneInv, NEW r \in Runner, Finish(r)
  PROVE  AloneInv'
<1>0. /\ TypeOK /\ pc[r] = "loop" /\ UNCHANGED <<renewal_conf, live, certbot, tended, alone, overtaken>>
      /\ live' \subseteq shared'
  BY DEF StateInv, Finish, ShareKeys, run, overlaps
<1>1. /\ pc'[r] \in {"reload", "verify"} /\ \A q \in Runner \ {r} : pc'[q] = pc[q]
  BY <1>0 DEF TypeOK, Finish, Goto
<1>2. alone \subseteq {r}
  BY <1>0 DEF AloneInv, KeepsTended, TypeOK, Trapped
<1>3. ASSUME r \in alone PROVE KeepsTended(r)'
  <2>1. KeepsTended(r)
    BY <1>3 DEF AloneInv
  <2>2. \A d : Intact(d)' <=> Intact(d)
    BY <1>0 DEF Intact
  <2> QED BY <1>0, <1>1, <2>1, <2>2 DEF KeepsTended, AfterLoad, Trapped, Clearing
<1> QED BY <1>0, <1>2, <1>3 DEF AloneInv

LEMMA CertbotStepAlone ==
  ASSUME StateInv, AloneInv, CertbotStep
  PROVE  AloneInv'
<1>0. TypeOK /\ CertbotInv
  BY DEF StateInv
<1> PICK b \in certbot :
      \/ CertbotFails(b)
      \/ CertbotRenews(b)
      \/ CertbotRefuses(b)
      \/ CertbotClaims(b)
      \/ CertbotStores(b)
      \/ CertbotWritesConf(b)
  BY DEF CertbotStep
<1>1. UNCHANGED alone /\ \A c \in certbot' : c.owner = b.owner
  BY <1>0 DEF TypeOK, CertbotFails, CertbotRenews, CertbotRefuses, CertbotClaims,
     CertbotStores, CertbotWritesConf, CertbotExits, overlaps
<1> SUFFICES ASSUME NEW r \in alone PROVE KeepsTended(r)'
  BY <1>1 DEF AloneInv
<1>2. KeepsTended(r) /\ r \in Runner /\ b.owner = r /\ pc[r] = "wait"
  BY <1>0 DEF AloneInv, KeepsTended, TypeOK, CertbotInv
<1>3. pc'[r] \in {"wait", "loop", "fail"} /\ \A q \in Runner \ {r} : pc'[q] = pc[q]
  BY <1>2 DEF CertbotFails, CertbotRenews, CertbotRefuses, CertbotClaims,
     CertbotStores, CertbotWritesConf, CertbotExits
<1>4. \A d \in Domain : Intact(d) => Intact(d)'
  BY <1>0 DEF TypeOK, CertbotFails, CertbotRenews, CertbotRefuses, CertbotClaims, CertbotStores,
     CertbotWritesConf, Issue, Intact, Incomplete, certs
<1>5. \/ tended'[r] = tended[r]
      \/ tended'[r] = tended[r] \cup {b.domain} /\ Intact(b.domain)'
  <2>1. CASE CertbotRenews(b)
    <3>1. b.domain \in Domain /\ Intact(b.domain)
      BY <1>0, <2>1 DEF TypeOK, CertbotRenews
    <3>2. tended'[r] = tended[r] \cup {b.domain}
      BY <1>2, <2>1 DEF CertbotRenews, CertbotExits, ExitStatus
    <3> QED BY <1>4, <3>1, <3>2
  <2>2. CASE CertbotWritesConf(b)
    <3>1. b.domain \in Domain
      BY <1>0 DEF TypeOK
    <3>2. renewal_conf'[b.domain] = "full" /\ live' = live
      BY <1>0, <2>2, <3>1 DEF TypeOK, CertbotWritesConf
    <3>3. tended'[r] = IF b.domain \in live THEN tended[r] \cup {b.domain} ELSE tended[r]
      BY <1>2, <2>2 DEF CertbotWritesConf, CertbotExits, ExitStatus
    <3>4. b.domain \in live => Intact(b.domain)'
      BY <3>2 DEF Intact
    <3> QED BY <3>3, <3>4
  <2>3. CASE ~CertbotRenews(b) /\ ~CertbotWritesConf(b)
    BY <1>2, <2>3 DEF CertbotFails, CertbotRefuses, CertbotClaims, CertbotStores, CertbotExits,
       ExitStatus, run
  <2> QED BY <2>1, <2>2, <2>3
<1>6. \A d \in tended'[r] : Intact(d)'
  BY <1>0, <1>2, <1>4, <1>5 DEF KeepsTended, TypeOK
<1> QED BY <1>1, <1>2, <1>3, <1>6 DEF KeepsTended, AfterLoad, Trapped, Clearing

LEMMA AloneNext == StateInv /\ ClearInv /\ AloneInv /\ [Next]_vars => AloneInv'
<1> SUFFICES ASSUME StateInv, ClearInv, AloneInv, [Next]_vars PROVE AloneInv'
  OBVIOUS
<1>0. TypeOK /\ RunInv /\ CertbotInv /\ \A r \in alone : r \in Runner /\ pc[r] \in AfterLoad
  BY DEF StateInv, TypeOK, AloneInv, KeepsTended
<1>1. ASSUME NEW r \in Runner, Kill(r) PROVE AloneInv'
  <2>1. alone' = alone \ {r} /\ pc[r] \in Trapped
    BY <1>1 DEF Kill, Return, Quit
  <2>2. alone' = {}
    BY <2>1 DEF AloneInv, KeepsTended
  <2> QED BY <2>2 DEF AloneInv
<1>2. ASSUME NEW r \in Runner, Quit(r), ~Kill(r),
             Fail(r) \/ Verify(r) \/ ReloadFails(r) \/ Reload(r) \/ LoadDomains(r)
      PROVE  AloneInv'
  <2>1. /\ alone' \subseteq alone \ {r} /\ overtaken' \subseteq overtaken
        /\ UNCHANGED <<renewal_conf, live, certbot>> /\ shared \subseteq shared'
    BY <1>2 DEF Quit, Fail, Verify, ReloadFails, Reload, LoadDomains, ShareKeys, certs
  <2>2. /\ pc'[r] \notin Trapped
        /\ \A q \in Runner \ {r} : pc'[q] = pc[q] /\ tended'[q] = tended[q]
    BY <1>0, <1>2, QuitTypes DEF Trapped, Clearing
  <2>3. \A q \in Runner : pc'[q] \in Trapped => pc[q] \in Trapped
    BY <2>2
  <2>4. \A q \in alone' : tended'[q] = tended[q] /\ pc'[q] = pc[q] /\ pc[q] \in AfterLoad
    BY <1>0, <2>1, <2>2
  <2> QED BY <1>0, <2>1, <2>3, <2>4, AloneKept
<1>3. ASSUME NEW r \in Runner,
             \/ ByHand(r) \/ (\E d \in Domain : EnsureCert(r, d)) \/ AppendDomain(r)
             \/ (Reload(r) /\ ~Quit(r)) \/ Stop(r)
      PROVE  AloneInv'
  <2>1. /\ alone' = alone /\ overtaken' = overtaken /\ UNCHANGED tended
        /\ UNCHANGED <<renewal_conf, live, shared>> /\ certbot' \subseteq certbot
    BY <1>3 DEF ByHand, EnsureCert, AppendDomain, Reload, Stop, certs, run, overlaps
  <2>2. \A q \in Runner \ {r} : pc'[q] = pc[q]
    BY <1>0, <1>3 DEF TypeOK, ByHand, EnsureCert, AppendDomain, Reload, Stop, Goto
  <2>3. \/ pc[r] \notin AfterLoad /\ pc'[r] \notin Trapped
        \/ pc[r] = "reload" /\ pc'[r] = "verify"
        \/ pc[r] \in Trapped /\ pc'[r] = "fail"
    <3>1. CASE ByHand(r) \/ \E d \in Domain : EnsureCert(r, d)
      BY <1>0, <3>1 DEF TypeOK, ByHand, EnsureCert, Goto, AfterLoad, Trapped, Clearing
    <3>2. CASE AppendDomain(r)
      BY <1>0, <3>2 DEF TypeOK, AppendDomain, Goto, AfterLoad, Trapped, Clearing
    <3>3. CASE (Reload(r) /\ ~Quit(r)) \/ Stop(r)
      BY <1>0, <3>3 DEF TypeOK, Reload, Stop, Goto
    <3> QED BY <1>3, <3>1, <3>2, <3>3
  <2>4. \A q \in Runner : pc'[q] \in Trapped => pc[q] \in Trapped
    BY <2>2, <2>3 DEF Trapped, Clearing
  <2>5. \A q \in alone' : /\ tended'[q] = tended[q] /\ pc'[q] \in AfterLoad
                          /\ pc'[q] \in Clearing => pc[q] \in Clearing
                          /\ pc'[q] \in {"reload", "verify"} => pc[q] \in {"reload", "verify"}
    BY <1>0, <2>1, <2>2, <2>3 DEF AfterLoad, Trapped, Clearing
  <2> QED BY <1>0, <2>1, <2>4, <2>5, AloneKept
<1>4. CASE TimerFires \/ HealEnds \/ CertbotTimesOut \/ UNCHANGED vars \/ \E d \in Domain : Expire(d)
  <2>1. /\ UNCHANGED <<alone, overtaken, tended, renewal_conf, live, shared>>
        /\ certbot' \subseteq certbot
    BY <1>4 DEF TimerFires, HealEnds, CertbotTimesOut, vars, Expire, certs, run, overlaps
  <2>2. \A q \in Runner : \/ pc'[q] = pc[q]
                          \/ pc[q] \in {"idle", "pass", "stopped"} /\ pc'[q] \in {"idle", "load"}
                          \/ pc[q] = "wait" /\ pc'[q] = "fail"
    <3>1. CASE TimerFires \/ HealEnds
      BY <1>0, <3>1 DEF TypeOK, TimerFires, HealEnds, Goto
    <3>2. CASE CertbotTimesOut
      BY <1>0, <3>2 DEF CertbotInv, CertbotTimesOut
    <3>3. CASE UNCHANGED vars \/ \E d \in Domain : Expire(d)
      BY <3>3 DEF vars, Expire
    <3> QED BY <1>4, <3>1, <3>2, <3>3
  <2>3. \A q \in Runner : pc'[q] \in Trapped => pc[q] \in Trapped
    BY <2>2 DEF Trapped, Clearing
  <2>4. \A q \in alone' : /\ tended'[q] = tended[q] /\ pc'[q] \in AfterLoad
                          /\ pc'[q] \in Clearing => pc[q] \in Clearing
                          /\ pc'[q] \in {"reload", "verify"} => pc[q] \in {"reload", "verify"}
    BY <1>0, <2>1, <2>2 DEF AfterLoad, Trapped, Clearing
  <2> QED BY <1>0, <2>1, <2>3, <2>4, AloneKept
<1>5. ASSUME NEW r \in Runner, Step(r) \/ ReloadFails(r) PROVE AloneInv'
  <2>1. CASE Fail(r) \/ Verify(r) \/ ReloadFails(r)
    <3>1. Quit(r) /\ (~Kill(r) \/ Kill(r))
      BY <2>1 DEF Fail, Verify, ReloadFails, Return
    <3> QED BY <1>1, <1>2, <2>1, <3>1
  <2>2. CASE Reload(r) \/ LoadDomains(r)
    BY <1>1, <1>2, <1>3, <2>2, LoadDomainsAlone
  <2> QED BY <1>3, <1>5, <2>1, <2>2, NextDomainAlone, MoveAsideAlone, FinishAlone DEF Step
<1> QED BY <1>1, <1>3, <1>4, <1>5, CertbotStepAlone DEF Next

LEMMA AloneAlways == Spec => []AloneInv
<1>1. Init => AloneInv
  BY DEF Init, AloneInv
<1> QED BY <1>1, StateAlways, ClearAlways, AloneNext, PTL DEF Spec

(* For every set of domains and runners: after a run that nobody overlapped *)
(* and that tended every configured domain, nginx has loaded the            *)
(* certificates in place.                                                   *)
THEOREM SuccessIsServed == Spec => ServedAfterSuccess
<1>1. ASSUME StateInv, AloneInv, [Next]_vars, NEW r \in alone, pc[r] = "reload", pc'[r] # "reload",
             faults' = faults, Configured \subseteq tended[r]
      PROVE  current' = Configured
  <2>1. r \in Runner /\ faults \in Nat /\ KeepsTended(r)
    BY <1>1 DEF StateInv, TypeOK, AloneInv
  <2>2. Reload(r)
    <3>1. ReloadFails(r) => faults' = faults + 1
      BY DEF ReloadFails
    <3>2. faults + 1 # faults
      BY <2>1
    <3> QED BY <1>1, <2>1, <3>1, <3>2, OnlyItsOwnSteps DEF Verify
  <2>3. Configured \subseteq live \cap shared
    BY <1>1, <2>1 DEF KeepsTended, Intact
  <2> QED BY <2>2, <2>3 DEF Reload, Hup
<1>2. StateInv /\ AloneInv /\ [Next]_vars =>
        [\A r \in alone : pc[r] = "reload" /\ pc'[r] # "reload" /\ faults' = faults
                          /\ Configured \subseteq tended[r] =>
           current' = Configured]_vars
  BY <1>1
<1> QED BY <1>2, StateAlways, AloneAlways, PTL DEF Spec, ServedAfterSuccess

=============================================================================
