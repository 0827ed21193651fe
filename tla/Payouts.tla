------------------------------ MODULE Payouts ------------------------------
(***************************************************************************)
(* What a team lead pays a member of his team (internal/payouts), and what *)
(* is left to pay (GetTeamIncomeLive of internal/compensation): an event   *)
(* later than the member's last payout counts at the rate of today, an     *)
(* earlier one at the amount it was written with.                          *)
(*                                                                         *)
(* One member, one period that holds every order and payout.  Events and   *)
(* payouts are one sequence in the order of created_at.  A payout reads    *)
(* three times and then inserts its batch: four steps, nothing locked but  *)
(* the key of the batch, which is unique.                                  *)
(***************************************************************************)
EXTENDS Integers, SequencesExt

CONSTANTS
    Rate,         \* bound: what an order brings the member, numbers
    Unset,        \* no rate is configured, no request under way
    Sheet,        \* bound: requests at once
    Key,          \* idempotency keys the lead's pages make
    MaxEvents,    \* bound: orders delivered
    MaxPayouts    \* bound: payouts made

VARIABLES
    rate,      \* the commission rate of today, or Unset
    ledger,    \* financial_events and payouts of the member
    payroll    \* requests to pay: what they have read so far

vars == <<rate, ledger, payroll>>

Payer == {"lead", "owner"}
Step == {"cutoff", "income", "paid", "create"}
PayRequest ==
    [step : Step, key : Key, amount : Nat \ {0}, cutoff : Nat, earned : Nat]

Positions == DOMAIN ledger
Events == {i \in Positions : ledger[i].kind = "event"}
Paid == {i \in Positions : ledger[i].kind = "payout"}
Standing == {i \in Paid : ~ledger[i].voided}

TypeOK ==
    /\ rate \in Rate \cup {Unset}
    /\ \A i \in Events : ledger[i].amount \in Rate
    /\ \A i \in Paid :
        /\ ledger[i].amount \in Nat \ {0}
        /\ ledger[i].payer \in Payer
        /\ ledger[i].key \in Key \cup {Unset}
        /\ ledger[i].voided \in BOOLEAN
    /\ payroll \in [Sheet -> PayRequest \cup {Unset}]

Init ==
    /\ rate \in Rate
    /\ ledger = <<>>
    /\ payroll = [s \in Sheet |-> Unset]

------------------------------------------------------------------------------
(* What is owed                                                             *)

SumOf(S, amount(_)) ==
    FoldSeq(LAMBDA i, n : n + amount(i), 0, SetToSeq(S))

Latest(S) == IF S = {} THEN 0 ELSE CHOOSE i \in S : \A j \in S : j <= i

\* GetLatestPayoutTimes: whoever paid.
GetLatestPayoutTimes == Latest(Standing)

\* The rate of today; the frozen amount where none is configured.
RecomputeLive(i) == IF rate = Unset THEN ledger[i].amount ELSE rate

IncomeLive(cutoff) ==
    SumOf(Events, LAMBDA i : IF i > cutoff THEN RecomputeLive(i)
                             ELSE ledger[i].amount)

\* SumPaidGroupedByPayee: what this payer paid.
PaidBy(payer) == SumOf({i \in Standing : ledger[i].payer = payer},
                       LAMBDA i : ledger[i].amount)

AtLeastZero(n) == IF n < 0 THEN 0 ELSE n

\* buildPayablesResponse, as the lead's page shows it.
Remaining == AtLeastZero(IncomeLive(GetLatestPayoutTimes) - PaidBy("lead"))

------------------------------------------------------------------------------
(* Orders and rates                                                         *)

\* An order is delivered: its event is written at the rate of its creation.
Deliver(agreed) ==
    /\ Cardinality(Events) < MaxEvents
    /\ ledger' = Append(ledger, [kind |-> "event", amount |-> agreed])
    /\ UNCHANGED <<rate, payroll>>

ChangeRate(r) ==
    /\ r # rate
    /\ rate' = r
    /\ UNCHANGED <<ledger, payroll>>

------------------------------------------------------------------------------
(* CreatePayouts by the team lead                                           *)

Stage(s, step) == payroll[s] # Unset /\ payroll[s].step = step
Free(s) == [payroll EXCEPT ![s] = Unset]

\* The page sends what it shows, or less, with a key of its own; a key is sent
\* again when the answer was lost.
Pay(s, key, amount) ==
    /\ payroll[s] = Unset
    /\ payroll' = [payroll EXCEPT ![s] =
            [step |-> "cutoff", key |-> key, amount |-> amount,
             cutoff |-> 0, earned |-> 0]]
    /\ UNCHANGED <<rate, ledger>>

ReadCutoff(s) ==
    /\ Stage(s, "cutoff")
    /\ payroll' = [payroll EXCEPT ![s].step = "income",
                                  ![s].cutoff = GetLatestPayoutTimes]
    /\ UNCHANGED <<rate, ledger>>

ReadIncome(s) ==
    /\ Stage(s, "income")
    /\ payroll' = [payroll EXCEPT ![s].step = "paid",
                                  ![s].earned = IncomeLive(payroll[s].cutoff)]
    /\ UNCHANGED <<rate, ledger>>

\* validatePayoutItems.
WithinRemaining(s) ==
    payroll[s].amount <= AtLeastZero(payroll[s].earned - PaidBy("lead"))

ReadPaid(s) ==
    /\ Stage(s, "paid")
    /\ payroll' = IF WithinRemaining(s)
                  THEN [payroll EXCEPT ![s].step = "create"]
                  ELSE Free(s)
    /\ UNCHANGED <<rate, ledger>>

\* mutant: the key is not unique.
NewBatch(key) == key \in Key

\* UNIQUE (payer_id, idempotency_key) of payout_batches, which voiding leaves.
KeyIsNew(key) == \A i \in Paid : ledger[i].key # key

Payout(payer, key, amount) ==
    [kind |-> "payout", amount |-> amount, payer |-> payer, key |-> key,
     voided |-> FALSE]

\* The batch and its rows, or the replay of the batch that has the key.
CreateBatchIdempotent(s) ==
    /\ Stage(s, "create")
    /\ KeyIsNew(payroll[s].key) => Cardinality(Paid) < MaxPayouts
    /\ ledger' = IF KeyIsNew(payroll[s].key)
                 THEN Append(ledger, Payout("lead", payroll[s].key,
                                            payroll[s].amount))
                 ELSE ledger
    /\ payroll' = Free(s)
    /\ UNCHANGED rate

------------------------------------------------------------------------------

\* The owner pays without a ceiling, under keys of his own.
OwnerPays(amount) ==
    /\ Cardinality(Paid) < MaxPayouts
    /\ ledger' = Append(ledger, Payout("owner", Unset, amount))
    /\ UNCHANGED <<rate, payroll>>

VoidPayout(i) ==
    /\ i \in Standing
    /\ ledger' = [ledger EXCEPT ![i].voided = TRUE]
    /\ UNCHANGED <<rate, payroll>>

Next ==
    \/ \E r \in Rate : Deliver(r)
    \/ \E r \in Rate \cup {Unset} : ChangeRate(r)
    \/ \E s \in Sheet :
        \/ \E key \in Key, amount \in 1 .. Remaining : Pay(s, key, amount)
        \/ ReadCutoff(s) \/ ReadIncome(s) \/ ReadPaid(s)
        \/ CreateBatchIdempotent(s)
    \/ \E amount \in Rate : OwnerPays(amount)
    \/ \E i \in Positions : VoidPayout(i)

Spec == Init /\ [][Next]_vars

------------------------------------------------------------------------------
(* Properties                                                               *)

\* However often a submission is sent again, and whatever was voided since, a
\* key pays once.
OncePerKey ==
    \A i, j \in Paid :
        i # j /\ ledger[i].payer = "lead" /\ ledger[j].payer = "lead"
            => ledger[i].key # ledger[j].key

------------------------------------------------------------------------------
(* Sentences of the code that TLC refutes; README.md gives the instances.   *)

Pays(s) == Stage(s, "create") /\ Len(ledger') > Len(ledger)
            /\ payroll'[s] = Unset

\* "Events already covered by a payout are left completely untouched (that
\* money was already handed over at whatever amount was calculated at the
\* time)": who is paid all that is owed is owed nothing.
PaidUpIsPaidUp ==
    [][\A s \in Sheet : Pays(s) /\ payroll[s].amount = Remaining
            => Remaining' = 0]_vars

\* "no item's amount may exceed what's actually owed".
NeverOverpaid ==
    [][\A s \in Sheet : Pays(s) => payroll[s].amount <= Remaining]_vars

\* A retried request "with the same key replays the original batch's result":
\* it is not refused.
RetryIsReplayed ==
    [][\A s \in Sheet : Stage(s, "paid") /\ ~KeyIsNew(payroll[s].key)
            => payroll'[s] # Unset]_vars
==============================================================================
