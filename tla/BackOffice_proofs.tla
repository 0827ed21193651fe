-------------------------- MODULE BackOffice_proofs --------------------------
(***************************************************************************)
(* TLAPS proofs about the back office: Withdrawal, Payouts, Onboarding and *)
(* Settlement, for any requests, keys, rates, applications, people and     *)
(* amounts, any number of reviews and troubles.                            *)
(***************************************************************************)
EXTENDS MCBackOffice, Sequences, TLAPS

------------------------------------------------------------------------------
(* Withdrawals                                                             *)

\* What the steps that decide need: a request whose handler has not begun is
\* not there yet, so that its creation decides nothing.
RequestsOK ==
    /\ requests \in [Request -> [status : Status, recorded : BOOLEAN]]
    /\ withdrawn \in [Request -> Nat]
    /\ form \in [Request -> {"new", "send", "record", "done"}]
    /\ presses \subseteq [request : Request, action : Action]
    /\ \A r \in Request : form[r] = "new" <=> requests[r].status = "none"

\* Every step keeps it.
LEMMA RequestsKept == RequestsOK /\ [Next]_vars => RequestsOK'
<1> SUFFICES ASSUME RequestsOK, [Next]_vars PROVE RequestsOK'
  OBVIOUS
<1> USE DEF RequestsOK
<1>1. ASSUME NEW r \in Request, CreateWithdrawalRequest(r) PROVE RequestsOK'
  BY <1>1 DEF CreateWithdrawalRequest, Status
<1>2. ASSUME NEW r \in Request, SendApproval(r) \/ SetTelegramMessage(r)
      PROVE  RequestsOK'
  BY <1>2 DEF SendApproval, SetTelegramMessage
<1>3. ASSUME NEW r \in Request, TimeOut(r) PROVE RequestsOK'
  BY <1>3 DEF TimeOut
<1>4. ASSUME NEW r \in Request, NEW a \in Action, Press(r, a)
      PROVE  RequestsOK'
  BY <1>4 DEF Press
<1>5. ASSUME NEW p \in presses, HandleTelegramDecision(p) PROVE RequestsOK'
  <2>1. p.request \in Request /\ p.action \in Action
    OBVIOUS
  <2>2. Outcome[p.action] \in {"approved", "rejected"}
    BY <2>1 DEF Outcome, Action
  <2>3. requests' = [requests EXCEPT ![p.request].status = Outcome[p.action]]
        /\ UNCHANGED form /\ Pending(p.request)
    BY <1>5 DEF HandleTelegramDecision, MayDecide
  <2>4. requests' \in [Request -> [status : Status, recorded : BOOLEAN]]
    BY <2>1, <2>2, <2>3 DEF Status
  <2>5. withdrawn' \in [Request -> Nat]
    BY <1>5, <2>1 DEF HandleTelegramDecision
  <2>6. presses' \subseteq presses
    BY <1>5 DEF HandleTelegramDecision, Acknowledge
  <2>7. \A r \in Request : form'[r] = "new" <=> requests'[r].status = "none"
    BY <2>1, <2>2, <2>3 DEF Pending
  <2>8. QED
    BY <2>3, <2>4, <2>5, <2>6, <2>7
<1>6. ASSUME NEW p \in presses, AlreadyDecided(p) \/ DecisionFails(p)
      PROVE  RequestsOK'
  BY <1>6 DEF AlreadyDecided, DecisionFails, Acknowledge
<1>7. ASSUME NEW a \in answers, EditMessageText(a) PROVE RequestsOK'
  BY <1>7 DEF EditMessageText
<1>8. CASE SweepFinds \/ SweepEdits
  BY <1>8 DEF SweepFinds, SweepEdits
<1>9. CASE SweepExpires
  BY <1>9 DEF SweepExpires, StillPending, Pending, Status
<1>10. CASE Crash
  BY <1>10 DEF Crash
<1>11. CASE UNCHANGED vars
  BY <1>11 DEF vars
<1>12. QED
  BY <1>1, <1>2, <1>3, <1>4, <1>5, <1>6, <1>7, <1>8, <1>9, <1>10, <1>11
  DEF Next, SweepStep

\* Every step is one of DecidedOnce for each request, or leaves it alone.
LEMMA LedgerSteps ==
    ASSUME RequestsOK, [Next]_vars, NEW r \in Request PROVE LedgerStep(r)
<1> USE DEF RequestsOK
<1>0. ASSUME UNCHANGED <<requests, withdrawn>> PROVE LedgerStep(r)
  BY <1>0 DEF LedgerStep, Verdict, Pending
<1>1. ASSUME NEW q \in Request, CreateWithdrawalRequest(q)
      PROVE  LedgerStep(r)
  BY <1>1 DEF CreateWithdrawalRequest, LedgerStep, Verdict, Pending
<1>2. ASSUME NEW q \in Request, SetTelegramMessage(q) PROVE LedgerStep(r)
  BY <1>2 DEF SetTelegramMessage, LedgerStep, Verdict, Pending
<1>3. ASSUME NEW p \in presses, HandleTelegramDecision(p)
      PROVE  LedgerStep(r)
  <2> DEFINE v == IF p.action = "approve" THEN "accepted" ELSE "rejected"
             before == [d \in {r} |-> Verdict(d)]
             after == [d \in {r} |-> Verdict(d)']
  <2>1. p.request \in Request /\ p.action \in Action
    OBVIOUS
  <2>2. CASE p.request # r
    BY <1>3, <2>1, <2>2
    DEF HandleTelegramDecision, LedgerStep, Verdict, Pending
  <2>3. CASE p.request = r
    <3>1. Verdict(r) = "pending"
      BY <1>3, <2>3 DEF HandleTelegramDecision, MayDecide, Verdict, Pending
    <3>2. Verdict(r)' = v
      BY <1>3, <2>1, <2>3
      DEF HandleTelegramDecision, Verdict, Pending, Outcome, Action
    <3>3. withdrawn'[r] = IF v = "accepted" THEN withdrawn[r] + 1
                                            ELSE withdrawn[r]
      BY <1>3, <2>1, <2>3 DEF HandleTelegramDecision, Outcome, Action
    <3>4. before[r] = "pending" /\ after = [before EXCEPT ![r] = v]
      BY <3>1, <3>2
    <3>5. Ledger(r)!Decide(r, v)
      BY <3>3, <3>4 DEF Ledger!Decide
    <3>6. QED
      BY <3>5 DEF LedgerStep, Ledger!Next, Ledger!Verdict
  <2>4. QED
    BY <2>2, <2>3
<1>4. CASE SweepExpires
  <2> DEFINE before == [d \in {r} |-> Verdict(d)]
             after == [d \in {r} |-> Verdict(d)']
  <2>1. UNCHANGED withdrawn
    BY <1>4 DEF SweepExpires
  <2>2. CASE requests'[r] = requests[r]
    BY <2>1, <2>2 DEF LedgerStep, Verdict, Pending
  <2>3. CASE requests'[r] # requests[r]
    <3>1. Pending(r) /\ requests'[r].status = "expired"
      BY <1>4, <2>3 DEF SweepExpires, StillPending
    <3>2. Verdict(r) = "pending" /\ Verdict(r)' = "rejected"
      BY <3>1 DEF Verdict, Pending
    <3>3. before[r] = "pending" /\ after = [before EXCEPT ![r] = "rejected"]
      BY <3>2
    <3>4. Ledger(r)!Decide(r, "rejected")
      BY <2>1, <3>3 DEF Ledger!Decide
    <3>5. QED
      BY <3>4 DEF LedgerStep, Ledger!Next, Ledger!Verdict
  <2>4. QED
    BY <2>2, <2>3
<1>5. QED
  <2>1. \A q \in Request : SendApproval(q) \/ TimeOut(q)
            \/ (\E a \in Action : Press(q, a))
          => UNCHANGED <<requests, withdrawn>>
    BY DEF SendApproval, TimeOut, Press
  <2>2. \A p \in presses : AlreadyDecided(p) \/ DecisionFails(p)
          => UNCHANGED <<requests, withdrawn>>
    BY DEF AlreadyDecided, DecisionFails
  <2>3. (\E a \in answers : EditMessageText(a)) \/ SweepFinds \/ SweepEdits
          \/ Crash \/ UNCHANGED vars
          => UNCHANGED <<requests, withdrawn>>
    BY DEF EditMessageText, SweepFinds, SweepEdits, Crash, vars
  <2>4. QED
    BY <1>0, <1>1, <1>2, <1>3, <1>4, <2>1, <2>2, <2>3 DEF Next, SweepStep

\* A request for a withdrawal implements DecidedOnce: whoever presses which
\* button, however often a press is delivered, whichever calls fail, whatever
\* the sweep found and wherever the server stops, it is approved, rejected or
\* expires once, and its money leaves the ledger once if it was approved.
THEOREM WithdrawalsDecidedOnce == Spec => WithdrawnOnce
<1>1. Init => RequestsOK
  BY DEF Init, RequestsOK, Status
<1>2. Init => \A r \in Request : Ledger(r)!Init
  <2> SUFFICES ASSUME Init, NEW r \in Request PROVE Ledger(r)!Init
    OBVIOUS
  <2>1. Verdict(r) = "pending" /\ withdrawn[r] = 0
    BY DEF Init, Verdict
  <2>2. [d \in {r} |-> Verdict(d)] = [d \in {r} |-> "pending"]
    BY <2>1
  <2>3. QED
    BY <2>1, <2>2 DEF Ledger!Init
<1>3. RequestsOK /\ [Next]_vars => \A r \in Request : LedgerStep(r)
  BY LedgerSteps
<1>4. QED
  BY <1>1, <1>2, <1>3, RequestsKept, PTL DEF Spec, WithdrawnOnce

------------------------------------------------------------------------------
(* Payouts                                                                 *)

\* OncePerKey for the sequence that the ledger is.
LedgerOK == OncePerKey /\ \E S : ledger \in Seq(S)

\* A row that is no payment of the lead, or has a new key, keeps it.
LEMMA RowAdded ==
    ASSUME LedgerOK, NEW row, ledger' = Append(ledger, row),
           row.kind = "payout" /\ row.payer = "lead" => Pay!KeyIsNew(row.key)
    PROVE  LedgerOK'
<1>1. PICK S : ledger \in Seq(S)
  BY DEF LedgerOK
<1>2. ledger' \in Seq(S \cup {row})
  <2>1. ledger \in Seq(S \cup {row})
    BY <1>1
  <2>2. QED
    BY <2>1
<1>3. /\ DOMAIN ledger' = DOMAIN ledger \cup {Len(ledger) + 1}
      /\ \A i \in DOMAIN ledger : ledger'[i] = ledger[i]
      /\ ledger'[Len(ledger) + 1] = row
      /\ Len(ledger) + 1 \notin DOMAIN ledger
  BY <1>1
<1>4. OncePerKey'
  BY <1>3 DEF LedgerOK, OncePerKey, Pay!OncePerKey, Pay!Paid, Pay!Positions,
     Pay!KeyIsNew
<1>5. QED
  BY <1>2, <1>4 DEF LedgerOK

\* Voiding changes neither who paid nor under which key.
LEMMA RowVoided ==
    ASSUME LedgerOK, NEW i \in Pay!Positions, Pay!VoidPayout(i)
    PROVE  LedgerOK'
<1>1. PICK S : ledger \in Seq(S)
  BY DEF LedgerOK
<1>2. ledger' = [ledger EXCEPT ![i].voided = TRUE]
  BY DEF Pay!VoidPayout
<1> DEFINE row == [ledger[i] EXCEPT !.voided = TRUE]
<1>3. /\ DOMAIN ledger' = DOMAIN ledger
      /\ ledger'[i] = row
      /\ \A j \in DOMAIN ledger : j # i => ledger'[j] = ledger[j]
  BY <1>1, <1>2 DEF Pay!Positions
<1>4. /\ row.kind = ledger[i].kind /\ row.payer = ledger[i].payer
      /\ row.key = ledger[i].key
  OBVIOUS
<1>5. ledger' \in Seq(S \cup {row})
  <2>1. ledger \in Seq(S \cup {row})
    BY <1>1
  <2>2. QED
    BY <1>2, <2>1 DEF Pay!Positions
<1>6. OncePerKey'
  <2>1. \A j \in DOMAIN ledger :
            /\ ledger'[j].kind = ledger[j].kind
            /\ ledger'[j].payer = ledger[j].payer
            /\ ledger'[j].key = ledger[j].key
    BY <1>3, <1>4
  <2>2. QED
    BY <1>3, <2>1 DEF LedgerOK, OncePerKey, Pay!OncePerKey, Pay!Paid,
       Pay!Positions
<1>7. QED
  BY <1>5, <1>6 DEF LedgerOK

\* A key pays once: of all the requests that found no batch of their key only
\* one inserts it, whatever they read before, and what is voided keeps its key.
THEOREM KeysPayOnce == Pay!Spec => []OncePerKey
<1>1. Pay!Init => LedgerOK
  <2> SUFFICES ASSUME Pay!Init PROVE LedgerOK
    OBVIOUS
  <2>1. ledger = <<>> /\ ledger \in Seq({})
    BY DEF Pay!Init
  <2>2. QED
    BY <2>1 DEF LedgerOK, OncePerKey, Pay!OncePerKey, Pay!Paid, Pay!Positions
<1>2. LedgerOK /\ [Pay!Next]_(Pay!vars) => LedgerOK'
  <2> SUFFICES ASSUME LedgerOK, [Pay!Next]_(Pay!vars) PROVE LedgerOK'
    OBVIOUS
  <2>0. UNCHANGED ledger => LedgerOK'
    BY DEF LedgerOK, OncePerKey, Pay!OncePerKey, Pay!Paid, Pay!Positions
  <2>1. ASSUME NEW r, Pay!Deliver(r) PROVE LedgerOK'
    BY <2>1, RowAdded DEF Pay!Deliver
  <2>2. ASSUME NEW s \in Sheet, Pay!CreateBatchIdempotent(s) PROVE LedgerOK'
    <3>1. CASE Pay!KeyIsNew(payroll[s].key)
      <4> DEFINE row == Pay!Payout("lead", payroll[s].key, payroll[s].amount)
      <4>1. ledger' = Append(ledger, row)
        BY <2>2, <3>1 DEF Pay!CreateBatchIdempotent
      <4>2. row.key = payroll[s].key
        BY DEF Pay!Payout
      <4>3. QED
        BY <3>1, <4>1, <4>2, RowAdded
    <3>2. CASE ~Pay!KeyIsNew(payroll[s].key)
      BY <2>0, <2>2, <3>2 DEF Pay!CreateBatchIdempotent
    <3>3. QED
      BY <3>1, <3>2
  <2>3. ASSUME NEW amount, Pay!OwnerPays(amount) PROVE LedgerOK'
    <3> DEFINE row == Pay!Payout("owner", None, amount)
    <3>1. ledger' = Append(ledger, row)
      BY <2>3 DEF Pay!OwnerPays
    <3>2. row.payer = "owner"
      BY DEF Pay!Payout
    <3>3. QED
      BY <3>1, <3>2, RowAdded
  <2>4. ASSUME NEW i \in Pay!Positions, Pay!VoidPayout(i) PROVE LedgerOK'
    BY <2>4, RowVoided
  <2>5. ASSUME NEW r, Pay!ChangeRate(r) PROVE LedgerOK'
    BY <2>0, <2>5 DEF Pay!ChangeRate
  <2>6. ASSUME NEW s \in Sheet,
               \/ \E key \in Key, amount \in 1 .. Pay!Remaining :
                      Pay!Pay(s, key, amount)
               \/ Pay!ReadCutoff(s) \/ Pay!ReadIncome(s) \/ Pay!ReadPaid(s)
        PROVE  LedgerOK'
    BY <2>0, <2>6
    DEF Pay!Pay, Pay!ReadCutoff, Pay!ReadIncome, Pay!ReadPaid
  <2>7. QED
    BY <2>0, <2>1, <2>2, <2>3, <2>4, <2>5, <2>6 DEF Pay!Next, Pay!vars
<1>3. LedgerOK => OncePerKey
  BY DEF LedgerOK
<1>4. QED
  BY <1>1, <1>2, <1>3, PTL DEF Pay!Spec

------------------------------------------------------------------------------
(* Onboarding                                                              *)

Hearing ==
    [app : Application, verb : {"approve", "reject"}, by : Owner,
     step : {"list", "account", "mark", "attach", "file", "delete", "release"},
     listed : BOOLEAN]
Files(v) == Hire!At(v, "attach") \/ Hire!At(v, "file")

HireTypeOK ==
    /\ applications \in
        [Application -> {"none", "pending", "approved", "deleted"}]
    /\ documented \subseteq Application
    /\ asset \in
        [Application -> {"none", "loose", "attached", "filed", "quarantined"}]
    /\ submission \in
        [Application -> {"new", "checked", "stored", "inserted", "over"}]
    /\ hearing \in [Review -> Hearing \cup {None}]

\* An application is there once its submission has inserted it, and its
\* document is on file only after the submission is over.
Submitted ==
    \A a \in Application :
        /\ applications[a] # "none" => submission[a] \in {"inserted", "over"}
        /\ a \in documented => submission[a] = "over"
        /\ asset[a] \in {"attached", "filed"} =>
            applications[a] = "approved" /\ submission[a] = "over"

\* Only the review that approved an application files its document, and none
\* releases it: the one that lost found it decided.
Proper(v) ==
    LET a == hearing[v].app IN
    /\ applications[a] # "none"
    /\ hearing[v].listed => submission[a] = "over"
    /\ Files(v) => applications[a] = "approved" /\ hearing[v].listed
    /\ Hire!At(v, "file") => asset[a] = "attached"
    /\ Hire!At(v, "release") => applications[a] = "deleted"
Heard == \A v \in Review : hearing[v] # None => Proper(v)

OneFiles ==
    \A v, w \in Review :
        Files(v) /\ Files(w) /\ hearing[v].app = hearing[w].app => v = w

HireInv == HireTypeOK /\ Submitted /\ Heard /\ OneFiles

\* A review that is under way is a record with a step.
LEMMA HearingFields ==
    ASSUME HireTypeOK, NEW v \in Review, hearing[v] # None
    PROVE  /\ hearing[v] \in Hearing
           /\ hearing[v].app \in Application
BY DEF HireTypeOK, Hearing

\* The submission's steps.
LEMMA SubmissionKeeps ==
    ASSUME HireInv, NEW a \in Application,
           Hire!CheckPhone(a) \/ Hire!UploadDocuments(a)
           \/ Hire!InsertApplication(a) \/ Hire!InsertDocument(a)
    PROVE  HireInv'
<1> USE DEF HireInv
<1>1. UNCHANGED hearing
  BY DEF Hire!CheckPhone, Hire!UploadDocuments, Hire!InsertApplication,
     Hire!InsertDocument
<1>2. HireTypeOK'
  BY DEF HireTypeOK, Hire!CheckPhone, Hire!UploadDocuments,
     Hire!InsertApplication, Hire!InsertDocument, Hire!Released
<1>3. Submitted'
  <2>1. CASE Hire!CheckPhone(a) \/ Hire!UploadDocuments(a)
    BY <2>1 DEF HireTypeOK, Submitted, Hire!CheckPhone, Hire!UploadDocuments
  <2>2. CASE Hire!InsertApplication(a)
    BY <2>2 DEF HireTypeOK, Submitted, Hire!InsertApplication, Hire!Released
  <2>3. CASE Hire!InsertDocument(a)
    BY <2>3 DEF HireTypeOK, Submitted, Hire!InsertDocument, Hire!Released
  <2>4. QED
    BY <2>1, <2>2, <2>3
<1>4. Heard'
  <2> SUFFICES ASSUME NEW v \in Review, hearing[v] # None PROVE Proper(v)'
    BY <1>1 DEF Heard
  <2> DEFINE b == hearing[v].app
  <2>1. b \in Application /\ applications[b] # "none"
        /\ submission[b] \in {"inserted", "over"}
    BY HearingFields DEF Heard, Proper, Submitted
  <2>2. applications'[b] = applications[b]
    BY <2>1 DEF HireTypeOK, Hire!CheckPhone, Hire!UploadDocuments,
       Hire!InsertApplication, Hire!InsertDocument
  <2>3. submission[b] = "over"
          => submission'[b] = "over" /\ asset'[b] = asset[b]
    BY <2>1 DEF HireTypeOK, Hire!CheckPhone, Hire!UploadDocuments,
       Hire!InsertApplication, Hire!InsertDocument, Hire!Released
  <2>4. Proper(v) /\ (Files(v) <=> Files(v)')
        /\ (Hire!At(v, "file") <=> Hire!At(v, "file")')
        /\ (Hire!At(v, "release") <=> Hire!At(v, "release")')
    BY <1>1 DEF Heard, Files, Hire!At
  <2>5. Hire!At(v, "file") => Files(v)
    BY DEF Files
  <2>6. QED
    BY <1>1, <2>1, <2>2, <2>3, <2>4, <2>5 DEF Proper
<1>5. OneFiles'
  BY <1>1 DEF OneFiles, Files, Hire!At
<1>6. QED
  BY <1>2, <1>3, <1>4, <1>5

\* What a review does to itself keeps HireInv if it is proper afterwards and
\* alone in filing, as long as nothing else changes.
LEMMA ReviewMoves ==
    ASSUME HireInv, NEW v \in Review, NEW h \in Hearing \cup {None},
           hearing' = [hearing EXCEPT ![v] = h],
           UNCHANGED <<applications, documented, asset, submission>>,
           h # None => Proper(v)',
           h # None /\ h.step \in {"attach", "file"}
             => Files(v) /\ h.app = hearing[v].app
    PROVE  HireInv'
<1> USE DEF HireInv
<1>1. HireTypeOK' /\ Submitted'
  BY DEF HireTypeOK, Submitted
<1>2. hearing'[v] = h /\ \A w \in Review \ {v} : hearing'[w] = hearing[w]
  BY DEF HireTypeOK
<1>3. \A w \in Review \ {v} : (Files(w)' <=> Files(w))
                                 /\ (Proper(w)' <=> Proper(w))
  BY <1>2 DEF Proper, Files, Hire!At
<1>4. Heard'
  BY <1>2, <1>3 DEF Heard
<1>5. Files(v)' => Files(v) /\ h.app = hearing[v].app
  BY <1>2 DEF Files, Hire!At
<1>6. OneFiles'
  BY <1>2, <1>3, <1>5 DEF OneFiles
<1>7. QED
  BY <1>1, <1>4, <1>6

\* The steps that only look, or create the account.
LEMMA LooksKeep ==
    ASSUME HireInv, NEW v \in Review,
           \/ \E a \in Application, verb \in {"approve", "reject"},
                 owner \in Owner : Hire!LookAt(v, a, verb, owner)
           \/ Hire!ListDocuments(v) \/ Hire!CreateWithPasswordHash(v)
    PROVE  HireInv'
<1> USE DEF HireInv
<1>1. ASSUME NEW a \in Application, NEW verb \in {"approve", "reject"},
             NEW owner \in Owner, Hire!LookAt(v, a, verb, owner)
      PROVE  HireInv'
  <2> DEFINE h == [app |-> a, verb |-> verb, by |-> owner, step |-> "list",
                   listed |-> FALSE]
  <2>1. h \in Hearing
    BY DEF Hearing
  <2>2. /\ hearing' = [hearing EXCEPT ![v] = h] /\ applications[a] = "pending"
        /\ UNCHANGED <<applications, documented, asset, submission>>
    BY <1>1 DEF Hire!LookAt
  <2>3. hearing'[v] = h
    BY <2>2 DEF HireTypeOK
  <2>4. Proper(v)'
    BY <2>2, <2>3 DEF Proper, Files, Hire!At
  <2>5. QED
    BY <2>1, <2>2, <2>4, ReviewMoves
<1>2. CASE Hire!ListDocuments(v)
  <2> DEFINE a == hearing[v].app
             found == a \in documented
             next == IF hearing[v].verb = "approve" THEN "account"
                     ELSE "delete"
             h == [hearing[v] EXCEPT !.listed = found, !.step = next]
  <2>1. hearing[v] \in Hearing /\ Proper(v) /\ a \in Application
    BY <1>2, HearingFields DEF Hire!ListDocuments, Hire!At, Heard
  <2>2. h \in Hearing
    <3>1. ASSUME NEW l \in BOOLEAN, NEW to \in {"account", "delete"}
          PROVE  [hearing[v] EXCEPT !.listed = l, !.step = to] \in Hearing
      BY <2>1 DEF Hearing
    <3>2. found \in BOOLEAN /\ next \in {"account", "delete"}
      OBVIOUS
    <3> HIDE DEF found, next
    <3>3. QED
      BY <3>1, <3>2
  <2>3. /\ hearing' = [hearing EXCEPT ![v] = h]
        /\ UNCHANGED <<applications, documented, asset, submission>>
    BY <1>2 DEF Hire!ListDocuments
  <2>4. hearing'[v] = h
    BY <2>3 DEF HireTypeOK
  <2>5. /\ h.app = a /\ h.step \in {"account", "delete"}
        /\ h.listed => a \in documented
    BY <2>1 DEF Hearing
  <2>6. Proper(v)'
    BY <2>1, <2>3, <2>4, <2>5 DEF Proper, Files, Hire!At, Submitted
  <2>7. QED
    BY <2>2, <2>3, <2>5, <2>6, ReviewMoves
<1>3. CASE Hire!CreateWithPasswordHash(v)
  <2> DEFINE h == [hearing[v] EXCEPT !.step = "mark"]
  <2>1. hearing[v] \in Hearing /\ Proper(v)
    BY <1>3, HearingFields DEF Hire!CreateWithPasswordHash, Hire!At, Heard
  <2>2. h \in Hearing /\ h.app = hearing[v].app /\ h.step = "mark"
        /\ h.listed = hearing[v].listed
    BY <2>1 DEF Hearing
  <2>3. /\ \/ hearing' = [hearing EXCEPT ![v] = h]
           \/ hearing' = [hearing EXCEPT ![v] = None]
        /\ UNCHANGED <<applications, documented, asset, submission>>
    BY <1>3 DEF Hire!CreateWithPasswordHash, Hire!Goes, Hire!Ends
  <2>4. hearing'[v] = h => Proper(v)'
    BY <2>1, <2>2, <2>3 DEF Proper, Files, Hire!At
  <2>5. CASE hearing' = [hearing EXCEPT ![v] = h]
    <3>1. hearing'[v] = h
      BY <2>5 DEF HireTypeOK
    <3>2. QED
      BY <2>2, <2>3, <2>4, <2>5, <3>1, ReviewMoves
  <2>6. CASE hearing' = [hearing EXCEPT ![v] = None]
    BY <2>3, <2>6, ReviewMoves
  <2>7. QED
    BY <2>3, <2>5, <2>6
<1>4. QED
  BY <1>1, <1>2, <1>3

\* The two steps that decide an application.
LEMMA DecisionKeeps ==
    ASSUME HireInv, NEW v \in Review, Hire!MarkApproved(v) \/ Hire!Delete(v)
    PROVE  HireInv'
<1> USE DEF HireInv
<1> DEFINE a == hearing[v].app
           next == IF Hire!At(v, "mark") THEN "attach" ELSE "release"
           h == [hearing[v] EXCEPT !.step = next]
<1>1. hearing[v] # None /\ ~Files(v)
      /\ hearing[v].step \in {"mark", "delete"}
  BY DEF Hire!MarkApproved, Hire!Delete, Hire!At, Files
<1>2. hearing[v] \in Hearing /\ a \in Application /\ Proper(v)
  BY <1>1, HearingFields DEF Heard
<1>3. /\ h \in Hearing /\ h.app = a /\ h.listed = hearing[v].listed
      /\ h.step = next
  BY <1>2 DEF Hearing
<1>4. CASE ~Hire!StillPending(a)
  <2>1. hearing' = [hearing EXCEPT ![v] = None]
        /\ UNCHANGED <<applications, documented, asset, submission>>
    BY <1>4 DEF Hire!MarkApproved, Hire!Delete, Hire!Ends
  <2>2. QED
    BY <2>1, ReviewMoves
<1>5. CASE Hire!StillPending(a)
  <2> DEFINE to == IF Hire!At(v, "mark") THEN "approved" ELSE "deleted"
  <2>1. /\ applications[a] = "pending"
        /\ applications' = [applications EXCEPT ![a] = to]
        /\ documented' \subseteq documented
        /\ hearing' = [hearing EXCEPT
                          ![v] = IF hearing[v].listed THEN h ELSE None]
        /\ UNCHANGED <<asset, submission>>
    BY <1>1, <1>5 DEF Hire!MarkApproved, Hire!Delete, Hire!StillPending,
       Hire!Goes, Hire!Ends, Hire!At
  <2>2. HireTypeOK'
    BY <1>2, <1>3, <2>1 DEF HireTypeOK
  <2>3. Submitted'
    BY <1>2, <2>1 DEF HireTypeOK, Submitted
  <2>4. \A w \in Review \ {v} : hearing'[w] = hearing[w]
    BY <2>1 DEF HireTypeOK
  <2>5. hearing'[v] = IF hearing[v].listed THEN h ELSE None
    BY <2>1 DEF HireTypeOK
  <2>6. ASSUME NEW w \in Review \ {v}, hearing[w] # None
        PROVE  Proper(w)'
    <3>1. Proper(w) /\ hearing[w].app \in Application
      BY <2>6, HearingFields DEF Heard
    <3>2. CASE hearing[w].app = a
      BY <1>2, <2>1, <2>4, <3>1, <3>2
      DEF HireTypeOK, Proper, Files, Hire!At
    <3>3. CASE hearing[w].app # a
      BY <1>2, <2>1, <2>4, <3>1, <3>3
      DEF HireTypeOK, Proper, Files, Hire!At
    <3>4. QED
      BY <3>2, <3>3
  <2>7. hearing'[v] # None => Proper(v)'
    BY <1>1, <1>2, <1>3, <2>1, <2>5
    DEF HireTypeOK, Proper, Files, Hire!At
  <2>8. Heard'
    BY <2>4, <2>6, <2>7 DEF Heard
  <2>9. OneFiles'
    <3>1. ASSUME NEW w \in Review \ {v}, Files(w)'
          PROVE  Files(w) /\ hearing[w].app # a
                 /\ hearing'[w].app = hearing[w].app
      BY <2>1, <2>4, <3>1 DEF Heard, Proper, Files, Hire!At
    <3>2. Files(v)' => hearing'[v].app = a
      BY <1>3, <2>5 DEF Files, Hire!At
    <3>3. QED
      BY <3>1, <3>2 DEF OneFiles
  <2>10. QED
    BY <2>2, <2>3, <2>8, <2>9
<1>6. QED
  BY <1>4, <1>5

\* The steps that attach, file and release the document.
LEMMA FilingKeeps ==
    ASSUME HireInv, NEW v \in Review,
           Hire!AttachUserDocument(v) \/ Hire!CreateDocument(v)
           \/ Hire!ReleaseMedia(v)
    PROVE  HireInv'
<1> USE DEF HireInv
<1> DEFINE a == hearing[v].app
           h == [hearing[v] EXCEPT !.step = "file"]
<1>1. hearing[v] # None /\ hearing[v] \in Hearing /\ a \in Application
      /\ Proper(v)
  BY HearingFields
  DEF Heard, Hire!AttachUserDocument, Hire!CreateDocument, Hire!ReleaseMedia,
      Hire!At
<1>2. /\ h \in Hearing /\ h.app = a /\ h.listed = hearing[v].listed
      /\ h.step = "file"
  BY <1>1 DEF Hearing
<1>3. UNCHANGED <<applications, documented, submission>>
  BY DEF Hire!AttachUserDocument, Hire!CreateDocument, Hire!ReleaseMedia
<1>4. \/ /\ Hire!At(v, "attach") /\ asset[a] = "loose"
         /\ asset' = [asset EXCEPT ![a] = "attached"]
         /\ hearing' = [hearing EXCEPT ![v] = h]
      \/ /\ Hire!At(v, "attach") /\ UNCHANGED asset
         /\ hearing' = [hearing EXCEPT ![v] = None]
      \/ /\ Hire!At(v, "file") \/ Hire!At(v, "release")
         /\ \E state \in {"filed", "quarantined", asset[a]} :
                /\ state = "filed" => Hire!At(v, "file") \/ asset[a] = "filed"
                /\ asset' = [asset EXCEPT ![a] = state]
         /\ hearing' = [hearing EXCEPT ![v] = None]
  <2>1. CASE Hire!AttachUserDocument(v)
    BY <2>1 DEF Hire!AttachUserDocument, Hire!Goes, Hire!Ends
  <2>2. CASE Hire!CreateDocument(v)
    <3>1. Hire!At(v, "file") /\ asset[a] = "attached"
      BY <1>1, <2>2 DEF Hire!CreateDocument, Proper
    <3>2. QED
      BY <2>2, <3>1 DEF Hire!CreateDocument, Hire!Released, Hire!Ends
  <2>3. CASE Hire!ReleaseMedia(v)
    BY <2>3 DEF Hire!ReleaseMedia, Hire!Released, Hire!Ends
  <2>4. QED
    BY <2>1, <2>2, <2>3
<1>5. HireTypeOK'
  BY <1>1, <1>2, <1>3, <1>4 DEF HireTypeOK
<1>6. \A w \in Review \ {v} : hearing'[w] = hearing[w]
  BY <1>4 DEF HireTypeOK
<1>7. hearing'[v] \in {h, None}
  BY <1>4 DEF HireTypeOK
<1>8. Submitted'
  BY <1>1, <1>3, <1>4
  DEF HireTypeOK, Submitted, Proper, Files, Hire!At
<1>9. ASSUME NEW w \in Review \ {v}, hearing[w] # None PROVE Proper(w)'
  <2>1. Proper(w) /\ hearing[w].app \in Application
    BY <1>9, HearingFields DEF Heard
  <2>2. CASE hearing[w].app # a
    BY <1>1, <1>3, <1>4, <1>6, <2>1, <2>2
    DEF HireTypeOK, Proper, Files, Hire!At
  <2>3. CASE hearing[w].app = a
    <3>1. Files(v) => ~Files(w)
      BY <2>3 DEF OneFiles
    <3>2. Hire!At(v, "release") => ~Files(w)
      BY <1>1, <2>1, <2>3 DEF Proper
    <3>3. ~Files(w)
      BY <1>4, <3>1, <3>2 DEF Files
    <3>4. QED
      BY <1>3, <1>6, <2>1, <3>3 DEF Proper, Files, Hire!At
  <2>4. QED
    BY <2>2, <2>3
<1>10. hearing'[v] # None => Proper(v)'
  <2> SUFFICES ASSUME hearing'[v] # None PROVE Proper(v)'
    OBVIOUS
  <2>1. /\ Hire!At(v, "attach") /\ asset' = [asset EXCEPT ![a] = "attached"]
        /\ hearing'[v] = h
    BY <1>4 DEF HireTypeOK
  <2>2. applications[a] = "approved" /\ hearing[v].listed
        /\ submission[a] = "over"
    BY <1>1, <2>1 DEF Proper, Files
  <2>3. asset'[a] = "attached"
    BY <1>1, <2>1 DEF HireTypeOK
  <2>4. QED
    BY <1>2, <1>3, <2>1, <2>2, <2>3 DEF Proper, Files, Hire!At
<1>11. Heard'
  BY <1>6, <1>9, <1>10 DEF Heard
<1>12. OneFiles'
  <2>1. Files(v)' => Files(v) /\ hearing'[v].app = a
    BY <1>2, <1>4, <1>7 DEF HireTypeOK, Files, Hire!At
  <2>2. \A w \in Review \ {v} : Files(w)' <=> Files(w)
    BY <1>6 DEF Files, Hire!At
  <2>3. QED
    BY <1>6, <2>1, <2>2 DEF OneFiles
<1>13. QED
  BY <1>5, <1>8, <1>11, <1>12

\* Every step keeps HireInv.
LEMMA HireKept == HireInv /\ [Hire!Next]_(Hire!vars) => HireInv'
<1> SUFFICES ASSUME HireInv, [Hire!Next]_(Hire!vars) PROVE HireInv'
  OBVIOUS
<1>1. CASE UNCHANGED Hire!vars \/ Hire!Dismiss
  BY <1>1 DEF Hire!vars, Hire!Dismiss, HireInv, HireTypeOK, Submitted, Heard,
     Proper, OneFiles, Files, Hire!At
<1>2. QED
  BY <1>1, SubmissionKeeps, LooksKeep, DecisionKeeps, FilingKeeps
  DEF Hire!Next

\* The document of an employee stays with him: no review that lost, and no
\* submission that was still under way, quarantines what was filed; and what
\* an approved application has uploaded is quarantined only by the submission
\* that could not file it.
THEOREM FiledDocumentsStay == Hire!Spec => FiledDocumentStays
<1> DEFINE Stays ==
        \A a \in Application :
            /\ asset[a] = "filed" => asset'[a] = "filed"
            /\ applications[a] = "approved" /\ asset[a] = "loose"
               /\ asset'[a] = "quarantined" => submission[a] = "inserted"
<1>1. Hire!Init => HireInv
  BY DEF Hire!Init, HireInv, HireTypeOK, Submitted, Heard, OneFiles, Files,
     Hire!At
<1>2. HireInv /\ [Hire!Next]_(Hire!vars) => Stays
  <2> SUFFICES ASSUME HireInv, [Hire!Next]_(Hire!vars), NEW a \in Application
               PROVE  /\ asset[a] = "filed" => asset'[a] = "filed"
                      /\ applications[a] = "approved" /\ asset[a] = "loose"
                         /\ asset'[a] = "quarantined"
                         => submission[a] = "inserted"
    OBVIOUS
  <2> USE DEF HireInv
  <2>0. /\ asset[a] = "filed"
            => applications[a] = "approved" /\ submission[a] = "over"
        /\ applications[a] = "approved"
            => submission[a] \in {"inserted", "over"}
    BY DEF Submitted
  <2>1. ASSUME NEW b \in Application,
               Hire!UploadDocuments(b) \/ Hire!InsertApplication(b)
               \/ Hire!InsertDocument(b)
        PROVE  \/ asset'[a] = asset[a]
               \/ submission[a] \in {"checked", "stored", "inserted"}
    BY <2>1 DEF HireTypeOK, Hire!UploadDocuments, Hire!InsertApplication,
       Hire!InsertDocument, Hire!Released
  <2>2. ASSUME NEW v \in Review,
               Hire!AttachUserDocument(v) \/ Hire!CreateDocument(v)
               \/ Hire!ReleaseMedia(v)
        PROVE  \/ asset'[a] = asset[a]
               \/ asset[a] = "loose" /\ asset'[a] = "attached"
               \/ asset[a] = "attached"
               \/ applications[a] = "deleted"
    <3>1. Proper(v) /\ hearing[v].app \in Application
      BY <2>2, HearingFields
      DEF Heard, Hire!AttachUserDocument, Hire!CreateDocument,
          Hire!ReleaseMedia, Hire!At
    <3>2. QED
      BY <2>2, <3>1 DEF HireTypeOK, Proper, Hire!AttachUserDocument,
         Hire!CreateDocument, Hire!ReleaseMedia, Hire!Released
  <2>3. Hire!Dismiss \/ UNCHANGED Hire!vars => UNCHANGED asset
    BY DEF Hire!Dismiss, Hire!vars
  <2>4. \/ asset'[a] = asset[a]
        \/ submission[a] \in {"checked", "stored", "inserted"}
        \/ asset[a] = "loose" /\ asset'[a] = "attached"
        \/ asset[a] = "attached"
        \/ applications[a] = "deleted"
    <3>1. UNCHANGED asset => asset'[a] = asset[a]
      OBVIOUS
    <3>2. CASE UNCHANGED Hire!vars \/ Hire!Dismiss
      BY <2>3, <3>1, <3>2
    <3>3. CASE \E b \in Application :
                  \/ Hire!CheckPhone(b)
                  \/ \E v \in Review, verb \in {"approve", "reject"},
                        owner \in Owner : Hire!LookAt(v, b, verb, owner)
      BY <3>1, <3>3 DEF Hire!CheckPhone, Hire!LookAt
    <3>4. CASE \E v \in Review :
                  \/ Hire!ListDocuments(v) \/ Hire!MarkApproved(v)
                  \/ Hire!CreateWithPasswordHash(v) \/ Hire!Delete(v)
      BY <3>1, <3>4 DEF Hire!ListDocuments, Hire!Delete,
         Hire!CreateWithPasswordHash, Hire!MarkApproved
    <3>5. CASE \E b \in Application :
                  \/ Hire!UploadDocuments(b) \/ Hire!InsertApplication(b)
                  \/ Hire!InsertDocument(b)
      BY <2>1, <3>5
    <3>6. CASE \E v \in Review :
                  \/ Hire!AttachUserDocument(v) \/ Hire!CreateDocument(v)
                  \/ Hire!ReleaseMedia(v)
      BY <2>2, <3>6
    <3>7. QED
      BY <3>2, <3>3, <3>4, <3>5, <3>6 DEF Hire!Next
  <2>5. QED
    BY <2>0, <2>4
<1>3. QED
  BY <1>1, <1>2, HireKept, PTL
  DEF Hire!Spec, FiledDocumentStays, Hire!FiledDocumentStays

------------------------------------------------------------------------------
(* Settlements                                                             *)

\* Rows, and the work of a review, over any values of their fields.
BookRow(A) ==
    [amount : A, status : Books!Final \cup {"pending"}, actual : A]
BookJob(A) ==
    [id : Nat, action : {"confirm", "reject"}, actual : A, row : A]
    \cup [id : Nat, action : {"edit"}, row : A, status : A, actual : A]

BooksTyped ==
    /\ \E A : settlements \in Seq(BookRow(A))
    /\ \E A : history \in Seq(A)
    /\ DOMAIN history = Books!Ids
    /\ \A i \in Books!Ids : \E A : history[i] \in Seq(A)
    /\ \E A : decision \in [Review -> BookJob(A) \cup {None}]

Waits(i) == settlements[i].status = "pending"

\* A row that a decision read is still the settlement while that waits, and
\* only a settlement that no longer waits is corrected.
ReadRight(job) ==
    /\ job.id \in Books!Ids
    /\ job.action = "edit" =>
        ~Waits(job.id) /\ job.status \in Books!Final \cup {None}
    /\ job.action # "edit" /\ job.row # None /\ Waits(job.id)
        => job.row = settlements[job.id]

BooksInv ==
    /\ BooksTyped
    /\ \A v \in Review : decision[v] # None => ReadRight(decision[v])
    /\ HistoryOpensWithVerdict

\* A sequence over a set is one over every larger set.
LEMMA SeqWider ==
    ASSUME NEW A, NEW B, A \subseteq B, NEW s \in Seq(A) PROVE s \in Seq(B)
OBVIOUS

\* Two ranges from one that are equal end alike.
LEMMA SameLength ==
    ASSUME NEW m \in Nat, NEW n \in Nat, 1 .. m = 1 .. n PROVE m = n
<1>1. CASE m < n
  BY <1>1, n \in 1 .. n
<1>2. CASE n < m
  BY <1>2, m \in 1 .. m
<1>3. QED
  BY <1>1, <1>2

\* What is added to a history leaves its first row, unless it is the first.
LEMMA HistoryGrows ==
    ASSUME NEW A, NEW s \in Seq(A), NEW row
    PROVE  /\ Append(s, row) \in Seq(A \cup {row})
           /\ Append(s, row) # <<>>
           /\ s = <<>> => Head(Append(s, row)) = row
           /\ s # <<>> => Head(Append(s, row)) = Head(s)
           /\ \A n \in DOMAIN s :
                n \in DOMAIN Append(s, row) /\ Append(s, row)[n] = s[n]
           /\ \E n \in DOMAIN Append(s, row) : Append(s, row)[n] = row
<1>1. s \in Seq(A \cup {row}) /\ Len(s) \in Nat /\ DOMAIN s = 1 .. Len(s)
  OBVIOUS
<1> DEFINE t == Append(s, row)
<1>2. /\ t \in Seq(A \cup {row}) /\ Len(t) = Len(s) + 1
      /\ DOMAIN t = 1 .. Len(s) + 1
      /\ t[Len(s) + 1] = row
      /\ \A n \in 1 .. Len(s) : t[n] = s[n]
  BY <1>1
<1>3. Head(t) = t[1] /\ (s # <<>> => Head(s) = s[1] /\ Len(s) >= 1)
  BY <1>1, <1>2
<1>4. s = <<>> => Len(s) = 0
  OBVIOUS
<1>5. t # <<>>
  BY <1>2, <1>1
<1>6. QED
  BY <1>1, <1>2, <1>3, <1>4, <1>5

\* A decision or a correction writes its row and perhaps the settlement.
LEMMA RowIsWritten ==
    ASSUME BooksInv, NEW v \in Review, decision[v] # None,
           NEW row, NEW A, NEW s \in BookRow(A),
           decision' = [decision EXCEPT ![v] = None],
           settlements' = [settlements EXCEPT ![decision[v].id] = s],
           history' = [history EXCEPT ![decision[v].id] = Append(@, row)],
           s.status # "pending",
           Waits(decision[v].id) => row.new = s,
           row.action # "edit" /\ ~Waits(decision[v].id)
             => s = settlements[decision[v].id]
    PROVE  BooksInv'
<1>0. PICK k : k = decision[v].id
  OBVIOUS
<1>1. k \in Books!Ids
  BY <1>0 DEF BooksInv, ReadRight
<1>2. PICK B : settlements \in Seq(BookRow(B))
  BY DEF BooksInv, BooksTyped
<1>3. PICK H : history \in Seq(H)
  BY DEF BooksInv, BooksTyped
<1>4. PICK T : history[k] \in Seq(T)
  BY <1>1 DEF BooksInv, BooksTyped
<1>5. DOMAIN history = Books!Ids /\ DOMAIN settlements = Books!Ids
  BY DEF BooksInv, BooksTyped, Books!Ids
<1>6. /\ DOMAIN settlements' = Books!Ids /\ DOMAIN history' = Books!Ids
      /\ settlements'[k] = s /\ history'[k] = Append(history[k], row)
      /\ \A i \in Books!Ids \ {k} :
            settlements'[i] = settlements[i] /\ history'[i] = history[i]
  BY <1>0, <1>1, <1>2, <1>3, <1>5
<1>7. Books!Ids' = Books!Ids
  BY <1>6 DEF Books!Ids
<1>8. BooksTyped'
  <2>1. settlements' \in Seq(BookRow(A \cup B))
    <3>1. s \in BookRow(A \cup B)
      BY DEF BookRow
    <3>2. settlements \in Seq(BookRow(A \cup B))
      <4>1. BookRow(B) \subseteq BookRow(A \cup B)
        BY DEF BookRow
      <4>2. QED
        BY <1>2, <4>1, SeqWider
    <3>3. QED
      BY <1>0, <1>1, <3>1, <3>2 DEF Books!Ids
  <2>2. history' \in Seq(H \cup {Append(history[k], row)})
    <3>1. history \in Seq(H \cup {Append(history[k], row)})
      BY <1>3
    <3>2. QED
      BY <1>0, <1>1, <1>5, <3>1
  <2>3. \A i \in Books!Ids : \E C : history'[i] \in Seq(C)
    <3>1. history'[k] \in Seq(T \cup {row})
      BY <1>4, <1>6, HistoryGrows
    <3>2. QED
      BY <1>6, <3>1 DEF BooksInv, BooksTyped
  <2>4. \E C : decision' \in [Review -> BookJob(C) \cup {None}]
    BY DEF BooksInv, BooksTyped
  <2>5. QED
    BY <1>6, <1>7, <2>1, <2>2, <2>3, <2>4 DEF BooksTyped
<1>9. \A i \in Books!Ids : Waits(i)'
           => Waits(i) /\ settlements'[i] = settlements[i]
  BY <1>6 DEF Waits
<1>10. ASSUME NEW w \in Review, decision'[w] # None
       PROVE ReadRight(decision[w])'
  <2>1. decision'[w] = decision[w]
    BY <1>10 DEF BooksInv, BooksTyped
  <2>2. ReadRight(decision[w])
    BY <1>10, <2>1 DEF BooksInv
  <2>3. QED
    BY <1>7, <1>9, <2>1, <2>2 DEF ReadRight
<1>11. ASSUME NEW i \in Books!Ids
       PROVE  /\ Waits(i)' <=> history'[i] = <<>>
              /\ history'[i] # <<>> /\ Books!Uncorrected(i)'
                   => settlements'[i] = Head(history'[i]).new
  <2>1. /\ Waits(i) <=> history[i] = <<>>
        /\ history[i] # <<>> /\ Books!Uncorrected(i)
             => settlements[i] = Head(history[i]).new
    BY DEF BooksInv, HistoryOpensWithVerdict, Books!HistoryOpensWithVerdict,
       Waits
  <2>2. CASE i # k
    BY <1>6, <2>1, <2>2 DEF Waits, Books!Uncorrected
  <2>3. CASE i = k
    <3>1. ~Waits(k)' /\ history'[k] # <<>>
      BY <1>4, <1>6, HistoryGrows DEF Waits
    <3>2. CASE Waits(k)
      <4>1. Head(history'[k]) = row
        BY <1>4, <1>6, <2>1, <2>3, <3>2, HistoryGrows
      <4>2. QED
        BY <1>0, <1>6, <2>3, <3>1, <3>2, <4>1
    <3>3. ASSUME ~Waits(k), Books!Uncorrected(k)'
          PROVE  settlements'[k] = Head(history'[k]).new
      <4>1. /\ Head(history'[k]) = Head(history[k])
            /\ \A n \in DOMAIN history[k] :
                 n \in DOMAIN history'[k] /\ history'[k][n] = history[k][n]
            /\ \E n \in DOMAIN history'[k] : history'[k][n] = row
        BY <1>4, <1>6, <2>1, <2>3, <3>3, HistoryGrows
      <4>2. Books!Uncorrected(k) /\ row.action # "edit"
        BY <3>3, <4>1 DEF Books!Uncorrected
      <4>3. settlements'[k] = settlements[k]
        BY <1>0, <1>6, <3>3, <4>2
      <4>4. QED
        BY <2>1, <2>3, <3>3, <4>1, <4>2, <4>3
    <3>4. QED
      BY <2>3, <3>1, <3>2, <3>3
  <2>4. QED
    BY <2>2, <2>3
<1>12. HistoryOpensWithVerdict'
  BY <1>7, <1>11
  DEF HistoryOpensWithVerdict, Books!HistoryOpensWithVerdict, Waits
<1>13. QED
  BY <1>8, <1>10, <1>12 DEF BooksInv

\* Work begun on a settlement, or its row read, changes nothing else.
LEMMA ReviewGoesOn ==
    ASSUME BooksInv, NEW v \in Review, NEW A, NEW job \in BookJob(A),
           decision' = [decision EXCEPT ![v] = job],
           UNCHANGED <<settlements, history>>,
           ReadRight(job)
    PROVE  BooksInv'
<1>1. PICK B : decision \in [Review -> BookJob(B) \cup {None}]
  BY DEF BooksInv, BooksTyped
<1>2. BookJob(A) \subseteq BookJob(A \cup B)
      /\ BookJob(B) \subseteq BookJob(A \cup B)
  BY DEF BookJob
<1>3. decision' \in [Review -> BookJob(A \cup B) \cup {None}]
  BY <1>1, <1>2
<1>4. BooksTyped'
  BY <1>3 DEF BooksInv, BooksTyped, Books!Ids
<1>5. ASSUME NEW w \in Review, decision'[w] # None
      PROVE  ReadRight(decision[w])'
  <2>1. w # v => decision'[w] = decision[w]
    BY <1>1
  <2>2. decision'[v] = job
    BY <1>1
  <2>3. ReadRight(decision'[w])
    BY <1>5, <2>1, <2>2 DEF BooksInv
  <2>4. QED
    BY <2>3 DEF ReadRight, Waits, Books!Ids
<1>6. HistoryOpensWithVerdict'
  BY DEF BooksInv, HistoryOpensWithVerdict, Books!HistoryOpensWithVerdict,
     Books!Uncorrected, Books!Ids
<1>7. QED
  BY <1>4, <1>5, <1>6 DEF BooksInv

\* A new settlement waits, and nobody has read it.
LEMMA SettlementIsNew ==
    ASSUME BooksInv, NEW n, UNCHANGED decision,
           settlements' = Append(settlements, [amount |-> n,
                               status |-> "pending", actual |-> None]),
           history' = Append(history, <<>>)
    PROVE  BooksInv'
<1> DEFINE k == Len(settlements) + 1
           s == [amount |-> n, status |-> "pending", actual |-> None]
<1>1. PICK B : settlements \in Seq(BookRow(B))
  BY DEF BooksInv, BooksTyped
<1>2. PICK H : history \in Seq(H)
  BY DEF BooksInv, BooksTyped
<1>3. DOMAIN settlements = 1 .. Len(settlements)
      /\ DOMAIN history = 1 .. Len(history)
      /\ DOMAIN history = DOMAIN settlements
      /\ Len(settlements) \in Nat /\ Len(history) \in Nat
  BY <1>1, <1>2 DEF BooksInv, BooksTyped, Books!Ids
<1>4. Len(history) = Len(settlements)
  BY <1>3, SameLength
<1>5. /\ DOMAIN settlements' = DOMAIN settlements \cup {k}
      /\ DOMAIN history' = DOMAIN settlements \cup {k}
      /\ k \notin DOMAIN settlements
      /\ settlements'[k] = s
      /\ history'[k] = <<>>
  <2>1. settlements' = Append(settlements, s)
    OBVIOUS
  <2> HIDE DEF s
  <2>2. /\ DOMAIN settlements' = 1 .. Len(settlements) + 1
        /\ settlements'[Len(settlements) + 1] = s
    BY <1>1, <1>3, <2>1
  <2>3. /\ DOMAIN history' = 1 .. Len(history) + 1
        /\ history'[Len(history) + 1] = <<>>
    BY <1>2, <1>3
  <2>4. QED
    BY <1>3, <1>4, <2>2, <2>3
<1>6. \A i \in DOMAIN settlements :
         settlements'[i] = settlements[i] /\ history'[i] = history[i]
  <2>1. settlements' = Append(settlements, s)
    OBVIOUS
  <2> HIDE DEF s
  <2>2. \A i \in DOMAIN settlements : settlements'[i] = settlements[i]
    BY <1>1, <1>3, <2>1
  <2>3. \A i \in DOMAIN history : history'[i] = history[i]
    BY <1>2, <1>3
  <2>4. QED
    BY <1>3, <2>2, <2>3
<1>7. Books!Ids' = Books!Ids \cup {k} /\ DOMAIN settlements = Books!Ids
  BY <1>5 DEF Books!Ids
<1>8. BooksTyped'
  <2>1. settlements' \in Seq(BookRow(B \cup {n, None}))
    <3>1. s \in BookRow(B \cup {n, None})
      BY DEF BookRow
    <3>2. settlements \in Seq(BookRow(B \cup {n, None}))
      <4>1. BookRow(B) \subseteq BookRow(B \cup {n, None})
        BY DEF BookRow
      <4>2. QED
        BY <1>1, <4>1, SeqWider
    <3>3. settlements' = Append(settlements, s)
      OBVIOUS
    <3> HIDE DEF s
    <3>4. QED
      BY <3>1, <3>2, <3>3
  <2>2. history' \in Seq(H \cup {<<>>})
    <3>1. history \in Seq(H \cup {<<>>})
      BY <1>2
    <3>2. QED
      BY <3>1
  <2>3. <<>> \in Seq({})
    OBVIOUS
  <2>4. QED
    BY <1>5, <1>6, <1>7, <2>1, <2>2, <2>3 DEF BooksInv, BooksTyped
<1>9. \A i \in Books!Ids : (Waits(i)' <=> Waits(i))
           /\ settlements'[i] = settlements[i]
  BY <1>6, <1>7 DEF Waits
<1>10. ASSUME NEW w \in Review, decision[w] # None
       PROVE ReadRight(decision[w])'
  BY <1>7, <1>9, <1>10 DEF BooksInv, ReadRight
<1>11. HistoryOpensWithVerdict'
  BY <1>5, <1>6, <1>7, <1>9 DEF BooksInv, HistoryOpensWithVerdict,
     Books!HistoryOpensWithVerdict, Books!Uncorrected
<1>12. QED
  BY <1>8, <1>10, <1>11 DEF BooksInv

\* A settlement waits exactly while its history is empty, and what the first
\* row of the history says is what it became until somebody corrects it: of
\* the owners that decide at once only one finds it pending, and the row he
\* read is the row he changes.
THEOREM FirstVerdictStands == Books!Spec => []HistoryOpensWithVerdict
<1>1. Books!Init => BooksInv
  <2> SUFFICES ASSUME Books!Init PROVE BooksInv
    OBVIOUS
  <2>1. /\ settlements = <<>> /\ history = <<>> /\ Books!Ids = {}
        /\ decision = [v \in Review |-> None]
    BY DEF Books!Init, Books!Ids
  <2>2. settlements \in Seq(BookRow({})) /\ history \in Seq({})
    BY <2>1
  <2>3. decision \in [Review -> BookJob({}) \cup {None}]
    BY <2>1
  <2>4. DOMAIN history = {}
    BY <2>1
  <2>5. QED
    BY <2>1, <2>2, <2>3, <2>4 DEF BooksInv, BooksTyped,
       HistoryOpensWithVerdict, Books!HistoryOpensWithVerdict
<1>2. BooksInv /\ [Books!Next]_(Books!vars) => BooksInv'
  <2> SUFFICES ASSUME BooksInv, [Books!Next]_(Books!vars) PROVE BooksInv'
    OBVIOUS
  <2>0. UNCHANGED <<settlements, history, decision>> => BooksInv'
    BY DEF BooksInv, BooksTyped, ReadRight, Waits, HistoryOpensWithVerdict,
       Books!HistoryOpensWithVerdict, Books!Uncorrected, Books!Ids
  <2>1. PICK J : decision \in [Review -> BookJob(J) \cup {None}]
    BY DEF BooksInv, BooksTyped
  <2>2. PICK R : settlements \in Seq(BookRow(R))
    BY DEF BooksInv, BooksTyped
  <2>3. \A i \in Books!Ids : i \in Nat /\ settlements[i] \in BookRow(R)
    BY <2>2 DEF Books!Ids
  <2>4. CASE Books!Collect
    BY <2>0, <2>4 DEF Books!Collect
  <2>5. ASSUME NEW f \in Filing,
               Books!OutstandingBalance(f) \/ Books!Submit(f)
        PROVE  BooksInv'
    BY <2>0, <2>5, SettlementIsNew
    DEF Books!OutstandingBalance, Books!Submit
  <2>6. ASSUME NEW v \in Review, NEW i \in Books!Ids, NEW n,
               NEW action \in {"confirm", "reject"},
               Books!Look(v, i, action, n)
        PROVE  BooksInv'
    <3> DEFINE job == [id |-> i, action |-> action, actual |-> n, row |-> None]
    <3>1. job \in BookJob({n, None}) /\ job.row = None
          /\ job.id = i /\ job.action # "edit"
      BY <2>3 DEF BookJob
    <3>2. ReadRight(job)
      BY <3>1 DEF ReadRight
    <3>3. decision' = [decision EXCEPT ![v] = job]
          /\ UNCHANGED <<settlements, history>>
      BY <2>6 DEF Books!Look
    <3> HIDE DEF job
    <3>4. QED
      BY <3>1, <3>2, <3>3, ReviewGoesOn
  <2>7. ASSUME NEW v \in Review, Books!Reread(v) PROVE BooksInv'
    <3>1. decision[v] # None /\ decision[v] \in BookJob(J)
      BY <2>1, <2>7 DEF Books!Reread
    <3>2. ReadRight(decision[v])
      BY <3>1 DEF BooksInv
    <3> DEFINE now == settlements[decision[v].id]
               job == [decision[v] EXCEPT !.row = now]
    <3>3. job \in BookJob(J \cup {now})
      BY <3>1 DEF BookJob
    <3>4. job.row = now /\ job.id = decision[v].id
          /\ job.action = decision[v].action
          /\ (job.action = "edit" => job.status = decision[v].status)
      BY <3>1 DEF BookJob
    <3>5. decision' = [decision EXCEPT ![v] = job]
          /\ UNCHANGED <<settlements, history>>
      BY <2>7 DEF Books!Reread
    <3> HIDE DEF job
    <3>6. ReadRight(job)
      BY <3>2, <3>4 DEF ReadRight
    <3>7. QED
      BY <3>3, <3>5, <3>6, ReviewGoesOn
  <2>8. ASSUME NEW v \in Review, Books!Decide(v) PROVE BooksInv'
    <3> DEFINE job == decision[v]
               k == job.id
               s == IF Waits(k) THEN Books!Decided(settlements[k], job)
                    ELSE settlements[k]
               row == [action |-> job.action, old |-> job.row,
                       new |-> Books!Decided(job.row, job)]
    <3>1. job # None /\ job \in BookJob(J) /\ job.row # None
          /\ job.action # "edit"
      BY <2>1, <2>8 DEF Books!Decide
    <3>2. ReadRight(job)
      BY <3>1 DEF BooksInv
    <3>3. k \in Books!Ids /\ settlements[k] \in BookRow(R)
          /\ (Waits(k) => job.row = settlements[k])
      BY <2>3, <3>1, <3>2 DEF ReadRight
    <3>4. job.action \in {"confirm", "reject"}
      BY <3>1 DEF BookJob
    <3>5. Books!Outcome[job.action] \in Books!Final
      BY <3>4 DEF Books!Outcome, Books!Final
    <3>6. Books!Decided(settlements[k], job) \in BookRow(R \cup {job.actual})
      BY <3>3, <3>5 DEF Books!Decided, BookRow
    <3>7. Books!Decided(settlements[k], job).status = Books!Outcome[job.action]
      BY <3>3 DEF Books!Decided, BookRow
    <3>8. s \in BookRow(R \cup {job.actual}) /\ s.status # "pending"
      <4>1. BookRow(R) \subseteq BookRow(R \cup {job.actual})
        BY DEF BookRow
      <4>2. QED
        BY <3>3, <3>5, <3>6, <3>7, <4>1 DEF Books!Final, Waits
    <3>9. settlements' = [settlements EXCEPT ![k] = s]
      <4>1. settlements' = IF Waits(k) THEN [settlements EXCEPT ![k] = s]
                                       ELSE settlements
        BY <2>8 DEF Books!Decide, Books!StillPending, Waits
      <4>2. CASE Waits(k)
        BY <4>1, <4>2
      <4>3. CASE ~Waits(k)
        <5>1. settlements' = settlements /\ s = settlements[k]
          BY <4>1, <4>3
        <5> HIDE DEF s
        <5>2. settlements = [settlements EXCEPT ![k] = settlements[k]]
          BY <2>2
        <5>3. QED
          BY <5>1, <5>2
      <4>4. QED
        BY <4>2, <4>3
    <3>10. history' = [history EXCEPT ![k] = Append(@, row)]
           /\ decision' = [decision EXCEPT ![v] = None]
      BY <2>8 DEF Books!Decide
    <3>11. (Waits(k) => row.new = s) /\ (~Waits(k) => s = settlements[k])
      BY <3>3
    <3> HIDE DEF s, row
    <3>12. QED
      BY <3>1, <3>8, <3>9, <3>10, <3>11, RowIsWritten
  <2>9. ASSUME NEW v \in Review, Books!Edit(v) PROVE BooksInv'
    <3> DEFINE job == decision[v]
               k == job.id
               s == Books!Corrected(settlements[k], job)
               row == [action |-> "edit", old |-> job.row,
                       new |-> Books!Corrected(job.row, job)]
    <3>1. job # None /\ job \in BookJob(J) /\ job.action = "edit"
      BY <2>1, <2>9 DEF Books!Edit
    <3>2. ReadRight(job)
      BY <3>1 DEF BooksInv
    <3>3. k \in Books!Ids /\ settlements[k] \in BookRow(R) /\ ~Waits(k)
          /\ job.status \in Books!Final \cup {None}
      BY <2>3, <3>1, <3>2 DEF ReadRight
    <3>4. s \in BookRow(R \cup {job.actual})
      BY <3>3 DEF Books!Corrected, BookRow
    <3>5. s.status # "pending"
      BY <3>3 DEF Books!Corrected, BookRow, Waits, Books!Final
    <3>6. settlements' = [settlements EXCEPT ![k] = s]
          /\ history' = [history EXCEPT ![k] = Append(@, row)]
          /\ decision' = [decision EXCEPT ![v] = None]
      BY <2>9 DEF Books!Edit
    <3>7. row.action = "edit"
      OBVIOUS
    <3> HIDE DEF s, row
    <3>8. QED
      BY <3>1, <3>3, <3>4, <3>5, <3>6, <3>7, RowIsWritten
  <2>10. ASSUME NEW v \in Review, NEW i \in Books!Ids, NEW n,
                NEW status \in Books!Final \cup {None},
                Books!ReadForEdit(v, i, status, n)
         PROVE  BooksInv'
    <3> DEFINE row == settlements[i]
               newStatus == IF status = row.status THEN None ELSE status
               newActual == IF n = row.actual THEN None ELSE n
               job == [id |-> i, action |-> "edit", row |-> row,
                       status |-> newStatus, actual |-> newActual]
    <3>1. row.status \in Books!Final
          /\ decision' = [decision EXCEPT ![v] = job]
          /\ UNCHANGED <<settlements, history>>
      BY <2>10 DEF Books!ReadForEdit
    <3>2. job \in BookJob({row, newStatus, newActual})
      BY <2>3 DEF BookJob
    <3>3. job.id = i /\ job.action = "edit"
          /\ job.status \in Books!Final \cup {None}
      OBVIOUS
    <3> HIDE DEF job
    <3>4. ReadRight(job)
      BY <3>1, <3>3 DEF ReadRight, Waits, Books!Final
    <3>5. QED
      BY <3>1, <3>2, <3>4, ReviewGoesOn
  <2>11. CASE UNCHANGED Books!vars
    BY <2>0, <2>11 DEF Books!vars
  <2>12. QED
    BY <2>4, <2>5, <2>6, <2>7, <2>8, <2>9, <2>10, <2>11 DEF Books!Next
<1>3. BooksInv => HistoryOpensWithVerdict
  BY DEF BooksInv
<1>4. QED
  BY <1>1, <1>2, <1>3, PTL DEF Books!Spec
==============================================================================
