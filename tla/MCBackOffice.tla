---------------------------- MODULE MCBackOffice -----------------------------
(* The company's money and people for TLC: withdrawals that wait for a       *)
(* button (Withdrawal), what dispatchers remit (Settlement), what team leads *)
(* pay (Payouts) and how applicants become employees (Onboarding).  None of  *)
(* the four reads what another writes, so a behaviour moves one of them.     *)
EXTENDS Withdrawal

CONSTANTS
    r1, r2, v1, v2, f1, s1, s2, k1, a1, a2, w1, w2,
    Filing, Review, Amount, MaxReceived, MaxSettlements, MaxChanges,
    Rate, Sheet, Key, MaxEvents, MaxPayouts,
    Application, Owner, OldestOwner

VARIABLES
    part,       \* what this behaviour moves
    received, settlements, history, filing, decision,
    rate, ledger, payroll,
    applications, documented, asset, account, submission, hearing

booksVars == <<received, settlements, history, filing, decision>>
payVars == <<rate, ledger, payroll>>
hireVars == <<applications, documented, asset, account, submission, hearing>>
officeVars == <<part, vars, booksVars, payVars, hireVars>>

Books == INSTANCE Settlement WITH review <- decision
Pay == INSTANCE Payouts WITH Unset <- None
Hire == INSTANCE Onboarding WITH review <- hearing

OfficeInit ==
    /\ part \in {"withdrawals", "settlements", "payouts", "applications"}
    /\ Init
    /\ Books!Init
    /\ Pay!Init
    /\ part # "payouts" => rate = CHOOSE r \in Rate : TRUE
    /\ Hire!Init

WithdrawalStep(A) ==
    /\ part = "withdrawals"
    /\ A
    /\ UNCHANGED <<part, booksVars, payVars, hireVars>>
SettlementNext ==
    /\ part = "settlements"
    /\ Books!Next
    /\ UNCHANGED <<part, vars, payVars, hireVars>>
PayoutsNext ==
    /\ part = "payouts"
    /\ Pay!Next
    /\ UNCHANGED <<part, vars, booksVars, hireVars>>
OnboardingNext ==
    /\ part = "applications"
    /\ Hire!Next
    /\ UNCHANGED <<part, vars, booksVars, payVars>>

OfficeNext ==
    \/ WithdrawalStep(Next)
    \/ SettlementNext
    \/ PayoutsNext
    \/ OnboardingNext

\* Withdrawal's fairness.
OfficeFairness ==
    /\ WF_officeVars(WithdrawalStep(SweepStep))
    /\ \A r \in Request : WF_officeVars(WithdrawalStep(TimeOut(r)))

OfficeSpec == OfficeInit /\ [][OfficeNext]_officeVars /\ OfficeFairness

------------------------------------------------------------------------------
\* The properties of Settlement, Payouts and Onboarding.
HistoryOpensWithVerdict == Books!HistoryOpensWithVerdict
OncePerKey == Pay!OncePerKey
FiledDocumentStays == Hire!FiledDocumentStays

------------------------------------------------------------------------------
\* The sentences that TLC refutes.
SubmittedWithinDebt == Books!SubmittedWithinDebt
EveryRowIsAChange == Books!EveryRowIsAChange
ConfirmedIsCounted == Books!ConfirmedIsCounted
PaidUpIsPaidUp == Pay!PaidUpIsPaidUp
NeverOverpaid == Pay!NeverOverpaid
RetryIsReplayed == Pay!RetryIsReplayed
NoAccountOfTheRejected == Hire!NoAccountOfTheRejected
DocumentsShowUp == Hire!DocumentsShowUp
TypesOK == TypeOK /\ Books!TypeOK /\ Pay!TypeOK /\ Hire!TypeOK
==============================================================================
