------------------------- MODULE CourierPhone_proofs -------------------------
(***************************************************************************)
(* TLAPS proofs about the courier's phone: CourierTill, for any transfers, *)
(* amounts and numbers of handovers, presses and troubles; and             *)
(* CourierSession, for any number of pairs issued.                         *)
(***************************************************************************)
EXTENDS MCCourierPhone, FiniteSetTheorems, TLAPS

------------------------------------------------------------------------------
(* The till and the depot                                                  *)

Press == [transfer: Transfer, verdict: {"accepted", "rejected"}, number: Nat,
          done: BOOLEAN]

\* What the depot's steps need of their variables.
DepotOK ==
    /\ transfers \in [Transfer -> {"pending", "accepted", "rejected"}]
    /\ listed \subseteq Transfer
    /\ presses \subseteq Press
    /\ spent \in [tries: Nat, trouble: Nat]

\* The steps of the till leave the depot alone.
LEMMA TillLeavesDepot == TillStep => UNCHANGED depot
BY DEF TillStep, FetchData, Handover, Deliver, ShowSummary, FetchDataFails,
   Decide, OpenSheet, RemoveAttachment, CloseHandoverSheet, HandleHandover,
   SecurePrivateUpload, SubmitHandover, HandoverTaken, HandoverFails,
   TypeAmount, AddAssets, Edit

\* Every step spends a try, a trouble, or nothing.
LEMMA Spending ==
    ASSUME [Next]_vars, spent \in [tries: Nat, trouble: Nat]
    PROVE  spent' \in [tries: Nat, trouble: Nat]
<1>1. CASE Handover
  BY <1>1 DEF Handover, OpenSheet, RemoveAttachment, CloseHandoverSheet,
     HandleHandover, SecurePrivateUpload, SubmitHandover, HandoverTaken,
     HandoverFails, TypeAmount, AddAssets, Edit, Spend
<1>2. CASE TillStep
  BY <1>1, <1>2 DEF TillStep, FetchData, Deliver, ShowSummary, FetchDataFails,
     Decide, Spend
<1>3. CASE DepotStep
  BY <1>3 DEF DepotStep, Load, HandleDecision, DecideTransfer,
     DecisionAnswered, Spend
<1>4. QED
  BY <1>2, <1>3 DEF Next, vars

\* Every step keeps the depot's types.
LEMMA DepotKept == DepotOK /\ [Next]_vars => DepotOK'
<1> SUFFICES ASSUME DepotOK, [Next]_vars PROVE DepotOK'
  OBVIOUS
<1>s. spent' \in [tries: Nat, trouble: Nat]
  BY Spending DEF DepotOK
<1>1. CASE UNCHANGED depot
  BY <1>1, <1>s DEF depot, DepotOK
<1>2. CASE Load
  BY <1>2, <1>s DEF Load, DepotOK
<1>3. ASSUME NEW t \in Transfer, NEW v \in {"accepted", "rejected"},
             HandleDecision(t, v)
      PROVE  DepotOK'
  <2>1. presses' \subseteq Press
    <3>1. [transfer |-> t, verdict |-> v, number |-> spent.tries,
           done |-> FALSE] \in Press
      BY DEF DepotOK, Press
    <3>2. QED
      BY <1>3, <3>1 DEF HandleDecision, DepotOK
  <2>2. QED
    BY <1>3, <1>s, <2>1 DEF HandleDecision, DepotOK
<1>4. ASSUME NEW p \in presses, DecideTransfer(p) PROVE DepotOK'
  BY <1>4, <1>s DEF DecideTransfer, DepotOK, Press
<1>5. ASSUME NEW p \in presses, DecisionAnswered(p) PROVE DepotOK'
  BY <1>5, <1>s DEF DecisionAnswered, DepotOK
<1>6. QED
  BY TillLeavesDepot, <1>1, <1>2, <1>3, <1>4, <1>5
  DEF Next, DepotStep, vars, depot

\* Whatever step is taken, the abstract document is decided or left as it is:
\* a decision of a press is one of DecidedOnce exactly when it found the
\* transfer pending.
LEMMA StepDecidesOnce ==
    DepotOK /\ [Next]_vars => [Documents!Next]_<<transfers, goods>>
<1> SUFFICES ASSUME DepotOK, [Next]_vars
             PROVE  [Documents!Next]_<<transfers, goods>>
  OBVIOUS
<1>1. CASE UNCHANGED depot
  BY <1>1 DEF depot
<1>2. ASSUME NEW p \in presses, DecideTransfer(p)
      PROVE  [Documents!Next]_<<transfers, goods>>
  <2>1. p.transfer \in Transfer /\ p.verdict \in {"accepted", "rejected"}
    BY DEF DepotOK, Press
  <2>2. CASE transfers[p.transfer] = "pending"
    BY <1>2, <2>1, <2>2
    DEF DecideTransfer, Documents!Next, Documents!Decide, Documents!Verdict
  <2>3. CASE transfers[p.transfer] # "pending"
    BY <1>2, <2>3 DEF DecideTransfer
  <2>4. QED
    BY <2>2, <2>3
<1>3. QED
  BY TillLeavesDepot, <1>1, <1>2
  DEF Next, DepotStep, vars, depot, Load, HandleDecision, DecisionAnswered

\* The warehouse screen and the server implement DecidedOnce: from however old
\* a list a button is pressed, and however often, a transfer is decided once
\* and its goods come on the courier's stock once.
THEOREM TransfersDecidedOnce == Spec => DecidesOnce
<1>1. Init => DepotOK
  BY DEF Init, DepotOK
<1>2. Init => Documents!Init
  BY DEF Init, Documents!Init
<1>3. QED
  BY <1>1, <1>2, DepotKept, StepDecidesOnce, PTL
  DEF Spec, DecidesOnce, Documents!Spec

\* The handovers under review that were made of one filling-in of the sheet.
MadeOf(n) == {h \in handovers : h.sheet = n}

\* What is on the sheet was taken once more than it has cost troubles only while
\* the answer is on its way; what was on it before, once more at most.
TillOK ==
    /\ spent \in [tries: Nat, trouble: Nat]
    /\ form \in Sheet /\ form.sheet <= spent.tries
    /\ job \in Submission \cup {Idle}
    /\ job # Idle => /\ job.sheet = form.sheet /\ form.sheet < spent.tries
                     /\ job.step = "upload" => job.left > 0
    /\ IsFiniteSet(handovers)
    /\ \A h \in handovers : h.sheet \in Nat /\ h.sheet < spent.tries
    /\ \A n \in Nat : Cardinality(MadeOf(n)) <= 1 + spent.trouble
    /\ ~(job # Idle /\ job.step = "taken")
            => Cardinality(MadeOf(form.sheet)) <= spent.trouble

\* A step that takes no handover keeps the bounds of all sheets: what the
\* dispatcher decides is one less, and troubles are not taken back.
LEMMA NoneMore ==
    ASSUME TillOK, handovers' \subseteq handovers, spent'.trouble \in Nat,
           spent'.trouble >= spent.trouble
    PROVE  /\ IsFiniteSet(handovers')
           /\ \A n \in Nat :
                /\ Cardinality(MadeOf(n)') <= 1 + spent'.trouble
                /\ \A m \in Nat : Cardinality(MadeOf(n)) <= m
                                    => Cardinality(MadeOf(n)') <= m
<1>1. IsFiniteSet(handovers')
  BY FS_Subset DEF TillOK
<1>2. ASSUME NEW n \in Nat
      PROVE  /\ Cardinality(MadeOf(n)') <= Cardinality(MadeOf(n))
             /\ Cardinality(MadeOf(n)') \in Nat
             /\ Cardinality(MadeOf(n)) \in Nat
  <2>1. MadeOf(n)' \subseteq MadeOf(n) /\ IsFiniteSet(MadeOf(n))
    BY FS_Subset DEF MadeOf, TillOK
  <2>2. QED
    BY <2>1, FS_Subset, FS_CardinalityType
<1>3. QED
  BY <1>1, <1>2 DEF TillOK

\* The sheet and what becomes of it, where no handover is taken.
LEMMA SheetKept ==
    ASSUME TillOK, spent' \in [tries: Nat, trouble: Nat],
           handovers' \subseteq handovers,
           spent'.trouble >= spent.trouble, spent'.tries >= spent.tries,
           form' \in Sheet, form'.sheet = form.sheet,
           job' \in Submission \cup {Idle},
           job' # Idle => /\ job'.sheet = form.sheet
                          /\ form.sheet < spent'.tries
                          /\ job'.step = "upload" => job'.left > 0,
           ~(job' # Idle /\ job'.step = "taken")
                => Cardinality(MadeOf(form.sheet)) <= spent'.trouble
    PROVE  TillOK'
<1>1. form.sheet \in Nat /\ spent'.trouble \in Nat
      /\ \A h \in handovers : h.sheet \in Nat
      /\ spent.tries \in Nat /\ spent'.tries \in Nat
  BY DEF TillOK, Sheet
<1>2. IsFiniteSet(handovers')
  BY <1>1, NoneMore
<1>3. \A n \in Nat : Cardinality(MadeOf(n)') <= 1 + spent'.trouble
  BY <1>1, NoneMore
<1>4. \A n \in Nat : Cardinality(MadeOf(n)) <= spent'.trouble
        => Cardinality(MadeOf(n)') <= spent'.trouble
  BY <1>1, NoneMore
<1>5. \A h \in handovers' : h.sheet \in Nat /\ h.sheet < spent'.tries
  BY <1>1 DEF TillOK
<1>6. Cardinality(MadeOf(form.sheet)) <= spent'.trouble
        => Cardinality(MadeOf(form.sheet)') <= spent'.trouble
  <2>1. PICK n \in Nat : n = form.sheet
    BY <1>1
  <2>2. MadeOf(form.sheet) = MadeOf(n) /\ MadeOf(form.sheet)' = MadeOf(n)'
    BY <2>1 DEF MadeOf
  <2>3. QED
    BY <1>4, <2>2
<1>7. form'.sheet <= spent'.tries
  BY <1>1 DEF TillOK
<1>8. QED
  BY <1>2, <1>3, <1>4, <1>5, <1>6, <1>7 DEF TillOK

\* A step that moves neither the sheet nor the submission.
LEMMA SheetLeft ==
    ASSUME TillOK, UNCHANGED <<form, job>>, handovers' \subseteq handovers,
           spent' \in [tries: Nat, trouble: Nat],
           spent'.trouble >= spent.trouble, spent'.tries >= spent.tries
    PROVE  TillOK'
<1>1. /\ form.sheet \in Nat /\ Cardinality(MadeOf(form.sheet)) \in Nat
      /\ spent \in [tries: Nat, trouble: Nat]
  <2>1. form.sheet \in Nat /\ IsFiniteSet(MadeOf(form.sheet))
    BY FS_Subset DEF TillOK, Sheet, MadeOf
  <2>2. QED
    BY <2>1, FS_CardinalityType DEF TillOK
<1>2. /\ job' # Idle => /\ job'.sheet = form.sheet
                        /\ form.sheet < spent'.tries
                        /\ job'.step = "upload" => job'.left > 0
      /\ ~(job' # Idle /\ job'.step = "taken")
            => Cardinality(MadeOf(form.sheet)) <= spent'.trouble
  BY <1>1 DEF TillOK
<1>3. form' \in Sheet /\ job' \in Submission \cup {Idle}
      /\ form'.sheet = form.sheet
  BY DEF TillOK
<1>4. QED
  BY <1>2, <1>3, SheetKept

\* A sheet emptied after its last submission is a new one.
LEMMA SheetEmptied ==
    ASSUME TillOK, UNCHANGED <<handovers, spent>>, job' = Idle,
           form' = Blank(spent.tries)
    PROVE  TillOK'
<1>1. spent.tries \in Nat /\ spent.trouble \in Nat
  BY DEF TillOK
<1>2. form' \in Sheet /\ form'.sheet = spent.tries
  BY <1>1, CashIsNat, FilesPositive DEF Blank, Sheet, Amount
<1>3. Cardinality({h \in handovers : h.sheet = spent.tries}) = 0
  <2>1. {h \in handovers : h.sheet = spent.tries} = {}
    BY <1>1 DEF TillOK
  <2>2. QED
    BY <2>1, FS_EmptySet
<1>4. Cardinality(MadeOf(form.sheet)') <= spent'.trouble
  BY <1>1, <1>2, <1>3 DEF MadeOf
<1>5. \A n \in Nat : Cardinality(MadeOf(n)') <= 1 + spent'.trouble
  BY DEF TillOK, MadeOf
<1>6. QED
  BY <1>1, <1>2, <1>4, <1>5 DEF TillOK

\* The sheet is opened, filled in or put away again.
LEMMA EditKeeps ==
    ASSUME TillOK,
           \/ OpenSheet \/ RemoveAttachment
           \/ \E a \in Amount : TypeAmount(a)
           \/ \E n \in 1..MaxFiles : AddAssets(n)
    PROVE  TillOK'
<1>1. UNCHANGED <<handovers, job, spent>>
  BY DEF OpenSheet, RemoveAttachment, TypeAmount, AddAssets, Edit
<1>2. form \in Sheet /\ spent.tries \in Nat /\ spent.trouble \in Nat
      /\ spent' \in [tries: Nat, trouble: Nat]
  BY <1>1 DEF TillOK
<1>3. form' \in Sheet /\ form'.sheet = form.sheet
  <2>1. CASE OpenSheet \/ \E a \in Amount : TypeAmount(a)
    BY <1>2, <2>1 DEF OpenSheet, TypeAmount, Edit, Sheet
  <2>2. ASSUME NEW n \in 1..MaxFiles, AddAssets(n)
        PROVE  form' \in Sheet /\ form'.sheet = form.sheet
    <3>1. (IF form.files + n > MaxFiles THEN MaxFiles ELSE form.files + n)
            \in 0..MaxFiles
      BY <1>2, FilesPositive DEF Sheet
    <3>2. QED
      BY <1>2, <2>2, <3>1 DEF AddAssets, Edit, Sheet
  <2>3. CASE RemoveAttachment
    <3>1. form.files - 1 \in 0..MaxFiles
      BY <1>2, <2>3, FilesPositive DEF RemoveAttachment, Sheet
    <3>2. QED
      BY <1>2, <2>3, <3>1 DEF RemoveAttachment, Edit, Sheet
  <2>4. QED
    BY <2>1, <2>2, <2>3
<1>4. /\ job' # Idle => /\ job'.sheet = form.sheet
                        /\ form.sheet < spent'.tries
                        /\ job'.step = "upload" => job'.left > 0
      /\ ~(job' # Idle /\ job'.step = "taken")
            => Cardinality(MadeOf(form.sheet)) <= spent'.trouble
  BY <1>1 DEF TillOK
<1>5. job' \in Submission \cup {Idle} /\ handovers' \subseteq handovers
      /\ spent'.trouble >= spent.trouble /\ spent'.tries >= spent.tries
  BY <1>1, <1>2 DEF TillOK
<1>6. QED
  BY <1>2, <1>3, <1>4, <1>5, SheetKept

\* The button, and the photos that go up one after the other.
LEMMA PressKeeps ==
    ASSUME TillOK, HandleHandover \/ SecurePrivateUpload
    PROVE  TillOK'
<1>1. UNCHANGED <<handovers, form>>
  BY DEF HandleHandover, SecurePrivateUpload
<1>2. form \in Sheet /\ form.sheet \in Nat /\ form.sheet <= spent.tries
      /\ spent \in [tries: Nat, trouble: Nat]
  BY DEF TillOK, Sheet
<1>3. ~(job # Idle /\ job.step = "taken")
        => Cardinality(MadeOf(form.sheet)) <= spent.trouble
  BY DEF TillOK
<1>4. CASE HandleHandover
  <2>1. job = Idle /\ form.files \in Nat /\ form.files > 0
    BY <1>2, <1>4, FilesPositive DEF HandleHandover, Checks, Sheet
  <2>2. job' = [step |-> "upload", amount |-> form.amount,
                left |-> form.files, sheet |-> form.sheet]
    BY <1>4 DEF HandleHandover
  <2>3. job' \in Submission
    BY <1>2, <2>2 DEF Submission, Sheet
  <2>4. /\ spent' \in [tries: Nat, trouble: Nat]
        /\ spent'.tries = spent.tries + 1 /\ spent'.trouble = spent.trouble
    BY <1>2, <1>4 DEF HandleHandover, Spend
  <2>5. form.sheet < spent'.tries /\ spent'.tries >= spent.tries
        /\ spent'.trouble >= spent.trouble
    BY <1>2, <2>4
  <2>6. Cardinality(MadeOf(form.sheet)) <= spent'.trouble
    BY <1>3, <2>1, <2>4
  <2>7. job'.sheet = form.sheet /\ job'.left > 0
    BY <2>1, <2>2
  <2>8. QED
    BY <1>1, <1>2, <2>3, <2>4, <2>5, <2>6, <2>7, SheetKept
<1>5. CASE SecurePrivateUpload
  <2>1. job # Idle /\ job \in Submission /\ job.step = "upload"
        /\ job.sheet = form.sheet /\ form.sheet < spent.tries /\ job.left > 0
    BY <1>5 DEF SecurePrivateUpload, TillOK
  <2>2. job.left \in 0..MaxFiles
    BY <2>1 DEF Submission
  <2>3. /\ job' = IF job.left = 1 THEN [job EXCEPT !.step = "send", !.left = 0]
                                  ELSE [job EXCEPT !.left = job.left - 1]
        /\ UNCHANGED spent
    BY <1>5 DEF SecurePrivateUpload
  <2>4. job' \in Submission /\ job'.sheet = form.sheet /\ job'.step # "taken"
        /\ (job'.step = "upload" => job'.left > 0)
    <3>1. CASE job.left = 1
      <4>1. job' = [job EXCEPT !.step = "send", !.left = 0]
        BY <2>3, <3>1
      <4>2. 0 \in 0..MaxFiles
        BY FilesPositive
      <4>3. QED
        BY <2>1, <4>1, <4>2 DEF Submission
    <3>2. CASE job.left # 1
      <4>1. job.left - 1 \in 0..MaxFiles /\ job.left - 1 > 0
        BY <2>1, <2>2, <3>2, FilesPositive
      <4>2. job' = [job EXCEPT !.left = job.left - 1]
        BY <2>3, <3>2
      <4>3. QED
        BY <2>1, <4>1, <4>2 DEF Submission
    <3>3. QED
      BY <3>1, <3>2
  <2>5. Cardinality(MadeOf(form.sheet)) <= spent'.trouble
    BY <1>3, <2>1, <2>3
  <2>6. spent' \in [tries: Nat, trouble: Nat] /\ form.sheet < spent'.tries
        /\ spent'.tries >= spent.tries /\ spent'.trouble >= spent.trouble
    BY <1>2, <2>1, <2>3
  <2>7. QED
    BY <1>1, <1>2, <2>4, <2>5, <2>6, SheetKept
<1>6. QED
  BY <1>4, <1>5

\* The server takes the handover, one more of this sheet, or refuses it.
LEMMA SubmitKeeps ==
    ASSUME TillOK, SubmitHandover
    PROVE  TillOK'
<1>1. UNCHANGED <<form, spent>> /\ form \in Sheet /\ form.sheet \in Nat
      /\ form.sheet <= spent.tries /\ spent \in [tries: Nat, trouble: Nat]
  BY DEF TillOK, SubmitHandover, Sheet
<1>2. job # Idle /\ job \in Submission /\ job.step = "send"
      /\ job.sheet = form.sheet /\ form.sheet < spent.tries
  BY DEF SubmitHandover, TillOK
<1>3. Cardinality(MadeOf(form.sheet)) <= spent.trouble
  BY <1>2 DEF TillOK
<1>4. CASE job' = [job EXCEPT !.step = "refused"] /\ UNCHANGED handovers
  <2>1. job' \in Submission /\ job'.sheet = form.sheet
        /\ job'.step = "refused"
    BY <1>2, <1>4 DEF Submission
  <2>2. spent' \in [tries: Nat, trouble: Nat] /\ form.sheet < spent'.tries
        /\ spent'.tries >= spent.tries /\ spent'.trouble >= spent.trouble
    BY <1>1, <1>2
  <2>3. QED
    BY <1>1, <1>3, <1>4, <2>1, <2>2, SheetKept
<1>5. ASSUME NEW x, x.sheet = form.sheet, handovers' = handovers \cup {x},
             job' = [job EXCEPT !.step = "taken"]
      PROVE  TillOK'
  <2>1. job' \in Submission /\ job'.sheet = form.sheet /\ job'.step = "taken"
    BY <1>2, <1>5 DEF Submission
  <2>2. IsFiniteSet(handovers')
    BY <1>5, FS_AddElement DEF TillOK
  <2>3. \A h \in handovers' : h.sheet \in Nat /\ h.sheet < spent'.tries
    BY <1>1, <1>2, <1>5 DEF TillOK
  <2>4. ASSUME NEW n \in Nat
        PROVE  Cardinality(MadeOf(n)') <= 1 + spent'.trouble
    <3>1. Cardinality(MadeOf(n)) <= 1 + spent.trouble
      BY DEF TillOK
    <3>2. CASE n # form.sheet
      <4>1. MadeOf(n)' = MadeOf(n)
        BY <1>5, <3>2 DEF MadeOf
      <4>2. QED
        BY <1>1, <3>1, <4>1
    <3>3. CASE n = form.sheet
      <4>1. MadeOf(n)' = MadeOf(n) \cup {x} /\ IsFiniteSet(MadeOf(n))
        BY <1>5, <3>3, FS_Subset DEF MadeOf, TillOK
      <4>2. Cardinality(MadeOf(n)) <= spent.trouble
        BY <1>3, <3>3
      <4>3. /\ Cardinality(MadeOf(n)) \in Nat
            /\ \/ Cardinality(MadeOf(n)') = Cardinality(MadeOf(n))
               \/ Cardinality(MadeOf(n)') = Cardinality(MadeOf(n)) + 1
        BY <4>1, FS_AddElement, FS_CardinalityType
      <4>4. QED
        BY <1>1, <4>2, <4>3
    <3>4. QED
      BY <3>2, <3>3
  <2>5. job' # Idle
    BY <2>1, IdleIsNull
  <2>6. form' \in Sheet /\ form'.sheet = form.sheet
        /\ form'.sheet <= spent'.tries /\ form'.sheet < spent'.tries
        /\ spent' \in [tries: Nat, trouble: Nat]
    BY <1>1, <1>2
  <2>7. QED
    BY <2>1, <2>2, <2>3, <2>4, <2>5, <2>6 DEF TillOK
<1>6. QED
  <2>1. CASE job.amount <= Available(Truth)
    <3> DEFINE x == [id |-> spent.tries, amount |-> job.amount,
                     sheet |-> job.sheet]
    <3>1. x.sheet = form.sheet /\ handovers' = handovers \cup {x}
          /\ job' = [job EXCEPT !.step = "taken"]
      BY <1>2, <2>1 DEF SubmitHandover
    <3>2. QED
      BY <1>5, <3>1
  <2>2. CASE ~(job.amount <= Available(Truth))
    BY <1>4, <2>2 DEF SubmitHandover
  <2>3. QED
    BY <2>1, <2>2

\* A failure ends the submission; it costs a trouble if the server had it.
LEMMA FailureKeeps ==
    ASSUME TillOK, HandoverFails
    PROVE  TillOK'
<1>1. UNCHANGED <<handovers, form>> /\ job' = Idle /\ job # Idle
      /\ form \in Sheet /\ form.sheet \in Nat
      /\ spent \in [tries: Nat, trouble: Nat]
      /\ Cardinality(MadeOf(form.sheet)) <= 1 + spent.trouble
  BY DEF HandoverFails, TillOK, Sheet
<1>2. /\ spent' \in [tries: Nat, trouble: Nat]
      /\ spent'.tries >= spent.tries /\ spent'.trouble >= spent.trouble
      /\ Cardinality(MadeOf(form.sheet)) <= spent'.trouble
  <2>1. CASE job.step = "refused" /\ UNCHANGED spent
    BY <1>1, <2>1 DEF TillOK
  <2>2. CASE Spend("trouble")
    <3>1. spent' \in [tries: Nat, trouble: Nat] /\ spent'.tries = spent.tries
          /\ spent'.trouble = spent.trouble + 1
      BY <1>1, <2>2 DEF Spend
    <3>2. Cardinality(MadeOf(form.sheet)) \in Nat
      <4>1. IsFiniteSet(MadeOf(form.sheet))
        BY FS_Subset DEF TillOK, MadeOf
      <4>2. QED
        BY <4>1, FS_CardinalityType
    <3>3. QED
      BY <1>1, <3>1, <3>2
  <2>3. QED
    BY <2>1, <2>2 DEF HandoverFails
<1>3. QED
  BY <1>1, <1>2, SheetKept

\* Every step keeps the bounds.
LEMMA TillKept == TillOK /\ [Next]_vars => TillOK'
<1> SUFFICES ASSUME TillOK, [Next]_vars PROVE TillOK'
  OBVIOUS
<1>s. spent \in [tries: Nat, trouble: Nat]
      /\ spent' \in [tries: Nat, trouble: Nat]
  BY Spending DEF TillOK
<1>1. CASE CloseHandoverSheet \/ HandoverTaken
  BY <1>1, SheetEmptied DEF CloseHandoverSheet, HandoverTaken, Edit, Empty
<1>2. CASE Handover /\ ~(CloseHandoverSheet \/ HandoverTaken)
  BY <1>2, EditKeeps, PressKeeps, SubmitKeeps, FailureKeeps DEF Handover
<1>3. CASE \/ FetchData \/ Deliver \/ DepotStep \/ UNCHANGED vars
           \/ \E a \in answers : ShowSummary(a) \/ FetchDataFails(a)
           \/ \E h \in handovers : Decide(h)
  <2>1. UNCHANGED <<form, job>> /\ handovers' \subseteq handovers
    BY <1>3 DEF FetchData, Deliver, DepotStep, ShowSummary, FetchDataFails,
       Decide, Load, HandleDecision, DecideTransfer, DecisionAnswered, vars,
       till
  <2>2. spent'.trouble >= spent.trouble /\ spent'.tries >= spent.tries
    <3>1. \/ UNCHANGED spent \/ Spend("trouble") \/ Spend("tries")
      BY <1>3 DEF FetchData, Deliver, DepotStep, ShowSummary, FetchDataFails,
         Decide, Load, HandleDecision, DecideTransfer, DecisionAnswered, vars
    <3>2. QED
      BY <1>s, <3>1 DEF Spend
  <2>3. QED
    BY <1>s, <2>1, <2>2, SheetLeft
<1>4. QED
  BY <1>1, <1>2, <1>3 DEF Next, TillStep

\* What the courier fills in is under review once, and once more for every
\* answer that gets lost, for any number of presses, photos, decisions of the
\* desk and summaries on their way.
THEOREM SheetHandedInOnce == Spec => []SheetHandedIn
<1>1. Init => TillOK
  <2> SUFFICES ASSUME Init PROVE TillOK
    OBVIOUS
  <2>1. form \in Sheet /\ form.sheet = 0 /\ job = Idle
        /\ spent = [tries |-> 0, trouble |-> 0] /\ handovers = {}
    BY CashIsNat, FilesPositive DEF Init, Blank, Sheet, Amount
  <2>2. \A n \in Nat : Cardinality(MadeOf(n)) = 0
    <3>1. \A n \in Nat : MadeOf(n) = {}
      BY <2>1 DEF MadeOf
    <3>2. QED
      BY <3>1, FS_EmptySet
  <2>3. IsFiniteSet(handovers)
    BY <2>1, FS_EmptySet
  <2>4. QED
    BY <2>1, <2>2, <2>3 DEF TillOK
<1>2. TillOK /\ [Next]_vars => TillOK'
  BY TillKept
<1>3. TillOK => SheetHandedIn
  <2>1. 0..MaxTries \subseteq Nat
    OBVIOUS
  <2>2. QED
    BY <2>1 DEF TillOK, SheetHandedIn, MadeOf
<1>4. QED
  BY <1>1, <1>2, <1>3, PTL DEF Spec

------------------------------------------------------------------------------
(* The session                                                             *)

\* The pairs 1 .. n were issued, to an account as it was at the first login.
Level(n) ==
    /\ n \in Session!Token
    /\ token \in [Session!Token -> Session!TokenRow]
    /\ \A m \in Session!Token : token[m].state = "unissued" <=> m > n
    /\ \A m \in Session!Token : token[m].role = 0
    /\ account = "active" /\ role = 0

\* Both items are the last pair, which is live until the refresh presents it;
\* while the pair that a refresh has fetched is written they lag behind.
Pair(n) ==
    \/ /\ refreshJob.pc \in {"none", "reading", "asked", "found"}
       /\ kept = [acc |-> n, ref |-> n]
       /\ token[n].state = "live"
       /\ refreshJob.pc \in {"asked", "found"} => refreshJob.tok = n
    \/ /\ refreshJob = [pc |-> "spent", tok |-> n]
       /\ kept = [acc |-> n, ref |-> n]
    \/ /\ refreshJob \in [pc : {"granted", "half"}, tok : {n}]
       /\ n - 1 \in Session!Token
       /\ kept = [acc |-> IF refreshJob.pc = "half" THEN n ELSE n - 1,
                  ref |-> n - 1]
       /\ token[n].state = "live" /\ token[n].good

\* The courier is signed in, except before rehydrate; nothing signs him out.
SignedIn ==
    /\ screen \in {"splash", "home"}
    /\ chore.at \in {"none", "me", "told"}
    /\ ~store => /\ screen = "splash" /\ chore.at = "none"
                 /\ refreshJob = Session!NoJob /\ queue = {}
                 /\ req = [q \in Session!Call |-> Session!NoRequest]

\* A request is sent again with a token that the server takes.
RetriesServed ==
    \A q \in Session!Call : Session!Retrying(q) =>
        /\ token[kept.acc].good
        /\ req[q].pc = "sent" =>
            req[q].acc \in Session!Token /\ token[req[q].acc].good

PhoneTyped ==
    /\ refreshJob \in Session!Job
    /\ refreshing = (refreshJob.pc # "none")
    /\ req \in [Session!Call -> Session!Request]

PhoneInv(n) == PhoneTyped /\ Level(n) /\ Pair(n) /\ SignedIn /\ RetriesServed

\* The pair that is issued next is the one after the last.
LEMMA NewestIsLast ==
    ASSUME MaxToken \in Nat, NEW n \in Session!Token,
           \A m \in Session!Token : token[m].state = "unissued" <=> m > n
    PROVE  /\ Session!Newest = n
           /\ Session!Unissued # {} =>
                Session!NextId = n + 1 /\ n + 1 \in Session!Token
<1>1. Session!Unissued = {m \in Session!Token : m > n}
  BY DEF Session!Unissued
<1>2. n \in Nat /\ n >= 1 /\ n <= MaxToken
  BY DEF Session!Token
<1>3. CASE Session!Unissued = {}
  <2>1. ~(n + 1 <= MaxToken)
    BY <1>1, <1>2, <1>3 DEF Session!Token
  <2>2. QED
    BY <1>2, <1>3, <2>1 DEF Session!Newest
<1>4. CASE Session!Unissued # {}
  <2>1. n + 1 \in Session!Unissued
    BY <1>1, <1>2, <1>4 DEF Session!Token
  <2>2. \A m \in Session!Unissued : n + 1 <= m /\ m \in Nat
    BY <1>1, <1>2 DEF Session!Token
  <2>3. Session!NextId \in Session!Unissued
        /\ \A m \in Session!Unissued : Session!NextId <= m
    BY <2>1, <2>2 DEF Session!NextId
  <2>4. Session!NextId = n + 1
    BY <1>2, <2>1, <2>2, <2>3
  <2>5. n + 1 \in Session!Token
    BY <1>1, <2>1
  <2>6. QED
    BY <1>2, <1>4, <2>4, <2>5 DEF Session!Newest
<1>5. QED
  BY <1>3, <1>4

\* The property follows.
LEMMA InvKeepsSession ==
    ASSUME MaxToken \in Nat, NEW n, PhoneInv(n)
    PROVE  /\ kept.ref # 0 /\ screen # "login"
           /\ refreshJob.pc \notin {"granted", "half"}
                => kept = [acc |-> Session!Newest, ref |-> Session!Newest]
<1>1. n \in Session!Token /\ n # 0
  BY DEF PhoneInv, Level, Session!Token
<1>2. Session!Newest = n
  BY <1>1, NewestIsLast DEF PhoneInv, Level
<1>3. kept.ref # 0
  BY <1>1 DEF PhoneInv, Pair, Session!Token
<1>4. QED
  BY <1>2, <1>3 DEF PhoneInv, Pair, SignedIn

\* Requests: what is kept and the tokens are not touched.
LEMMA RequestKeeps ==
    ASSUME MaxToken \in Nat, NEW n, PhoneInv(n), NEW q \in Session!Call,
           Session!SendRequest(q) \/ Session!AttachToken(q)
           \/ Session!AnswerPlain(q) \/ Session!AnswerQueued(q)
           \/ Session!AnswerLeads(q)
    PROVE  PhoneInv(n)'
<1> USE DEF PhoneInv
<1>0. n \in Session!Token /\ n \in Nat /\ n # 0
  BY DEF Level, Session!Token
<1>1. UNCHANGED <<token, account, role, kept, store, screen>>
  BY DEF Session!SendRequest, Session!AttachToken, Session!AnswerPlain,
     Session!AnswerQueued, Session!AnswerLeads, Session!serverVars,
     Session!clientVars
<1>2. Level(n)'
  BY <1>1 DEF Level
<1>3. kept.acc \in Session!TokenOrNone
  BY <1>0 DEF Pair, Session!TokenOrNone, Session!Token
<1>4. PhoneTyped' /\ Pair(n)'
  <2>1. CASE Session!AnswerLeads(q)
    <3>1. refreshJob.pc = "none"
      BY <2>1 DEF PhoneTyped, Session!AnswerLeads
    <3>2. kept = [acc |-> n, ref |-> n] /\ token[n].state = "live"
      BY <3>1 DEF Pair
    <3>3. refreshJob' = [pc |-> "reading", tok |-> 0] /\ refreshing' = TRUE
      BY <1>0, <2>1, <3>2 DEF Session!AnswerLeads
    <3>4. refreshJob' \in Session!Job
      BY <1>0, <3>3 DEF Session!Job, Session!TokenOrNone, Session!Token
    <3>5. req' \in [Session!Call -> Session!Request]
      <4>1. [pc |-> "leading", acc |-> 0, retry |-> TRUE] \in Session!Request
        BY DEF Session!Request, Session!TokenOrNone
      <4>2. QED
        BY <2>1, <4>1 DEF PhoneTyped, Session!AnswerLeads
    <3>6. QED
      BY <1>1, <3>2, <3>3, <3>4, <3>5 DEF PhoneTyped, Pair
  <2>2. CASE ~Session!AnswerLeads(q)
    <3>1. UNCHANGED <<refreshJob, refreshing>>
      BY <2>2 DEF Session!SendRequest, Session!AttachToken,
         Session!AnswerPlain, Session!AnswerQueued
    <3>2. req' \in [Session!Call -> Session!Request]
      <4>1. Session!NoRequest \in Session!Request
            /\ Session!Starting(FALSE) \in Session!Request
        BY DEF Session!NoRequest, Session!Starting, Session!Request,
           Session!TokenOrNone
      <4>2. [req[q] EXCEPT !.pc = "sent", !.acc = kept.acc] \in Session!Request
        BY <1>3 DEF PhoneTyped, Session!Request
      <4>3. [req[q] EXCEPT !.pc = "queued", !.acc = 0] \in Session!Request
        <5>1. 0 \in Session!TokenOrNone
          BY DEF Session!TokenOrNone
        <5>2. QED
          BY <5>1 DEF PhoneTyped, Session!Request
      <4>4. QED
        BY <2>2, <4>1, <4>2, <4>3 DEF PhoneTyped, Session!SendRequest,
           Session!AttachToken, Session!AnswerPlain, Session!AnswerQueued
    <3>3. QED
      BY <1>1, <3>1, <3>2 DEF PhoneTyped, Pair
  <2>3. QED
    BY <2>1, <2>2
<1>5. \A r \in Session!Call \ {q} : req'[r] = req[r]
  BY DEF PhoneTyped, Session!SendRequest, Session!AttachToken,
     Session!AnswerPlain, Session!AnswerQueued, Session!AnswerLeads
<1>6. RetriesServed'
  <2>0. req[q] \in Session!Request
    BY DEF PhoneTyped
  <2> DEFINE Again == Session!Retrying(q) /\ req'[q].pc = "sent"
                        /\ req'[q].acc = kept.acc
  <2>1. ASSUME Session!AttachToken(q)
        PROVE  Session!Retrying(q)' => Again
    <3>1. req'[q] = [req[q] EXCEPT !.pc = "sent", !.acc = kept.acc]
          /\ req[q].pc = "starting"
      BY <2>1 DEF PhoneTyped, Session!AttachToken
    <3>2. req'[q].retry = req[q].retry /\ req'[q].acc = kept.acc
          /\ req'[q].pc = "sent"
      BY <2>0, <3>1 DEF Session!Request
    <3>3. QED
      BY <3>1, <3>2 DEF Session!Retrying
  <2>2. ASSUME ~Session!AttachToken(q)
        PROVE  ~Session!Retrying(q)'
    <3> DEFINE held == [req[q] EXCEPT !.pc = "queued", !.acc = 0]
               leader == [pc |-> "leading", acc |-> 0, retry |-> TRUE]
    <3>1. req'[q] \in {Session!Starting(FALSE), Session!NoRequest, held,
                       leader}
      BY <2>2 DEF PhoneTyped, Session!SendRequest, Session!AnswerPlain,
         Session!AnswerQueued, Session!AnswerLeads
    <3>2. held.pc = "queued" /\ leader.pc = "leading"
          /\ Session!NoRequest.pc = "idle"
      BY <2>0 DEF Session!Request, Session!NoRequest
    <3> HIDE DEF held, leader
    <3>3. \/ req'[q] = Session!Starting(FALSE)
          \/ req'[q].pc \in {"idle", "queued", "leading"}
      BY <3>1, <3>2
    <3>4. ~Session!Starting(FALSE).retry
      BY DEF Session!Starting
    <3>5. QED
      BY <3>3, <3>4 DEF Session!Retrying
  <2>3. Session!Retrying(q)' => Again
    BY <2>1, <2>2
  <2>4. kept.acc \in Session!Token
    BY <1>0 DEF Pair
  <2>5. \A r \in Session!Call \ {q} :
            Session!Retrying(r)' => Session!Retrying(r)
    BY <1>5 DEF Session!Retrying
  <2>6. QED
    BY <1>1, <1>5, <2>3, <2>4, <2>5 DEF RetriesServed
<1>7. SignedIn'
  <2>1. chore'.at = chore.at \/ chore'.at = "told"
    <3>1. CASE Session!AnswerPlain(q)
      <4>1. req[q].pc = "sent" /\ req[q].acc \in Session!TokenOrNone
        BY <3>1 DEF Session!AnswerPlain, PhoneTyped, Session!Request
      <4>2. Session!Verdict(req[q].acc) # "403"
        BY <4>1 DEF Level, Session!Verdict, Session!TokenOrNone, Session!Token
      <4>3. req[q].retry => Session!Verdict(req[q].acc) # "401"
        <5>1. req[q].retry => req[q].acc \in Session!Token
                              /\ token[req[q].acc].good
          BY <4>1 DEF RetriesServed, Session!Retrying
        <5>2. QED
          BY <5>1 DEF Level, Session!Verdict, Session!Token
      <4>4. QED
        BY <3>1, <4>2, <4>3 DEF Session!AnswerPlain, Session!Told, Session!At
    <3>2. QED
      BY <3>1 DEF Session!SendRequest, Session!AttachToken,
         Session!AnswerQueued, Session!AnswerLeads
  <2>2. store
    <3>1. ~store => req[q].pc = "idle" /\ screen # "home"
      BY DEF SignedIn, Session!NoRequest
    <3>2. QED
      BY <3>1 DEF Session!SendRequest, Session!AttachToken,
         Session!AnswerPlain, Session!AnswerQueued, Session!AnswerLeads
  <2>3. QED
    BY <1>1, <2>1, <2>2 DEF SignedIn
<1>8. QED
  BY <1>2, <1>4, <1>6, <1>7

\* The refresh as far as its own variables and the tokens: no request moves.
LEMMA RefreshKeeps ==
    ASSUME MaxToken \in Nat, NEW n, PhoneInv(n), trouble' = {},
           Session!ReadToken \/ Session!RefreshLookup
           \/ Session!RefreshConsume \/ Session!RefreshIssue
           \/ Session!SaveAccess
    PROVE  PhoneInv(n)' \/ PhoneInv(n + 1)'
<1> USE DEF PhoneInv
<1>0. n \in Session!Token /\ n \in Nat /\ n # 0
  BY DEF Level, Session!Token
<1>1. /\ UNCHANGED <<store, screen, refreshing, queue, req, chore>>
      /\ refreshJob.pc # "none"
  BY DEF Session!ReadToken, Session!RefreshLookup, Session!RefreshConsume,
     Session!RefreshIssue, Session!SaveAccess, Session!clientVars
<1>2. SignedIn'
  BY <1>1 DEF SignedIn, Session!NoJob
<1>3. CASE Session!ReadToken
  <2>1. refreshJob.pc = "reading" /\ token[n].state = "live"
        /\ kept = [acc |-> n, ref |-> n]
    BY <1>3 DEF Session!ReadToken, Pair
  <2>2. UNCHANGED <<token, account, role, kept>>
        /\ refreshJob' = [pc |-> "asked", tok |-> n]
    BY <1>0, <1>3, <2>1 DEF Session!ReadToken, Session!serverVars,
       Session!clientVars
  <2>3. PhoneTyped'
    BY <1>0, <1>1, <2>2 DEF PhoneTyped, Session!Job, Session!TokenOrNone,
       Session!Token
  <2>4. Pair(n)'
    BY <2>1, <2>2 DEF Pair
  <2>5. QED
    BY <1>1, <1>2, <2>2, <2>3, <2>4 DEF Level, RetriesServed, Session!Retrying
<1>4. CASE Session!RefreshLookup
  <2>1. refreshJob.pc = "asked" /\ refreshJob.tok = n
        /\ token[n].state = "live" /\ kept = [acc |-> n, ref |-> n]
    BY <1>4 DEF Session!RefreshLookup, Pair
  <2>2. UNCHANGED <<token, account, role, kept>>
        /\ refreshJob' = [refreshJob EXCEPT !.pc = "found"]
    BY <1>4, <2>1 DEF Session!RefreshLookup, Session!RefuseReuse,
       Session!Reused, Session!Meets, Session!serverVars, Session!clientVars,
       Session!JobAt
  <2>3. PhoneTyped'
    BY <1>1, <2>2 DEF PhoneTyped, Session!Job
  <2>4. Pair(n)'
    BY <2>1, <2>2, <2>3 DEF Pair, PhoneTyped, Session!Job
  <2>5. QED
    BY <1>1, <1>2, <2>2, <2>3, <2>4 DEF Level, RetriesServed, Session!Retrying
<1>5. CASE Session!RefreshConsume
  <2>1. refreshJob.pc = "found" /\ refreshJob.tok = n
        /\ token[n].state = "live" /\ kept = [acc |-> n, ref |-> n]
    BY <1>5 DEF Session!RefreshConsume, Pair
  <2>2. UNCHANGED <<account, role, kept>>
        /\ refreshJob' = [refreshJob EXCEPT !.pc = "spent"]
        /\ token' = [token EXCEPT ![n].state = "revoked"]
    BY <1>5, <2>1 DEF Session!RefreshConsume, Session!Consume,
       Session!clientVars, Session!JobAt
  <2>3. PhoneTyped' /\ refreshJob' = [pc |-> "spent", tok |-> n]
    BY <1>1, <2>1, <2>2 DEF PhoneTyped, Session!Job
  <2>4. Pair(n)'
    BY <2>1, <2>2, <2>3 DEF Pair
  <2>5. token' \in [Session!Token -> Session!TokenRow]
        /\ \A m \in Session!Token :
             /\ token'[m].good = token[m].good
             /\ token'[m].role = token[m].role
             /\ token'[m].state = "unissued" <=> token[m].state = "unissued"
    BY <1>0, <2>1, <2>2 DEF Level, Session!TokenRow
  <2>6. Level(n)'
    BY <2>2, <2>5 DEF Level
  <2>7. RetriesServed'
    BY <1>0, <1>1, <2>1, <2>2, <2>5 DEF RetriesServed, Session!Retrying
  <2>8. QED
    BY <1>2, <2>3, <2>4, <2>6, <2>7
<1>6. CASE Session!RefreshIssue
  <2>1. refreshJob = [pc |-> "spent", tok |-> n]
        /\ kept = [acc |-> n, ref |-> n]
    BY <1>6 DEF Session!RefreshIssue, Pair
  <2>2. Session!Rotate(n) /\ refreshJob' = [pc |-> "granted",
                                             tok |-> Session!NextId]
    <3>1. trouble' # trouble \cup {"failed"}
      OBVIOUS
    <3>2. ~Session!RefuseInactive(n)
      BY DEF Session!RefuseInactive, Level
    <3>3. QED
      BY <1>6, <2>1, <3>1, <3>2 DEF Session!RefreshIssue
  <2>3. Session!NextId = n + 1 /\ n + 1 \in Session!Token
    BY <1>0, <2>2, NewestIsLast DEF Session!Rotate, Level
  <2>4. UNCHANGED <<account, role, kept>>
        /\ refreshJob' = [pc |-> "granted", tok |-> n + 1]
        /\ token' = [token EXCEPT ![n + 1] =
                        Session!Issued(n + 1, token[n].family)]
    BY <1>6, <2>2, <2>3 DEF Session!Rotate, Session!RefreshIssue,
       Session!clientVars
  <2>5. PhoneTyped'
    BY <1>1, <2>3, <2>4 DEF PhoneTyped, Session!Job, Session!TokenOrNone,
       Session!Token
  <2>6. Session!Issued(n + 1, token[n].family) \in Session!TokenRow
    BY <1>0 DEF Level, Session!Issued, Session!TokenRow
  <2>7. token' \in [Session!Token -> Session!TokenRow]
        /\ token'[n + 1] = Session!Issued(n + 1, token[n].family)
        /\ \A m \in Session!Token \ {n + 1} : token'[m] = token[m]
    BY <2>3, <2>4, <2>6 DEF Level
  <2>8. Level(n + 1)'
    <3>1. \A m \in Session!Token : m # n + 1 => (m > n <=> m > n + 1)
      BY <1>0 DEF Session!Token
    <3>2. ~(n + 1 > n + 1) /\ token'[n + 1].state = "live"
          /\ token'[n + 1].role = 0
      BY <1>0, <2>7 DEF Session!Issued, Level
    <3>3. QED
      BY <2>3, <2>4, <2>7, <3>1, <3>2 DEF Level
  <2>9. token'[n + 1].state = "live" /\ token'[n + 1].good
        /\ \A m \in Session!Token : token[m].good => token'[m].good
    BY <2>7 DEF Session!Issued
  <2>10. Pair(n + 1)'
    <3>1. n + 1 - 1 = n
      BY <1>0
    <3>2. QED
      BY <1>0, <2>1, <2>4, <2>9, <3>1 DEF Pair
  <2>11. RetriesServed'
    BY <1>0, <1>1, <2>1, <2>4, <2>9 DEF RetriesServed, Session!Retrying
  <2>12. QED
    BY <1>2, <2>5, <2>8, <2>10, <2>11
<1>7. CASE Session!SaveAccess
  <2>1. /\ refreshJob = [pc |-> "granted", tok |-> n]
        /\ n - 1 \in Session!Token
        /\ kept = [acc |-> n - 1, ref |-> n - 1]
        /\ token[n].state = "live" /\ token[n].good
    BY <1>7 DEF Session!SaveAccess, Pair
  <2>2. UNCHANGED <<token, account, role>>
        /\ kept' = [acc |-> n, ref |-> n - 1]
        /\ refreshJob' = [pc |-> "half", tok |-> n]
    BY <1>7, <2>1 DEF Session!SaveAccess, Session!serverVars, Session!JobAt
  <2>3. PhoneTyped'
    BY <1>0, <1>1, <2>2 DEF PhoneTyped, Session!Job, Session!TokenOrNone,
       Session!Token
  <2>4. Pair(n)' /\ Level(n)'
    BY <2>1, <2>2 DEF Pair, Level
  <2>5. RetriesServed'
    BY <1>1, <2>1, <2>2 DEF RetriesServed, Session!Retrying
  <2>6. QED
    BY <1>2, <2>3, <2>4, <2>5
<1>8. QED
  BY <1>3, <1>4, <1>5, <1>6, <1>7

\* The pair is complete and the requests go on.
LEMMA SaveRefreshKeeps ==
    ASSUME MaxToken \in Nat, NEW n, PhoneInv(n), Session!SaveRefresh
    PROVE  PhoneInv(n)'
<1> USE DEF PhoneInv
<1>0. n \in Session!Token /\ n \in Nat
  BY DEF Level, Session!Token
<1>1. /\ refreshJob.pc = "half" /\ refreshJob.tok = n
      /\ kept = [acc |-> n, ref |-> n - 1]
      /\ token[n].state = "live" /\ token[n].good
  BY DEF Session!SaveRefresh, Pair
<1>2. /\ kept' = [acc |-> n, ref |-> n]
      /\ queue' = {} /\ refreshing' = FALSE /\ refreshJob' = Session!NoJob
      /\ UNCHANGED <<token, account, role, store, screen, chore>>
  BY <1>1 DEF Session!SaveRefresh, Session!serverVars
<1>3. \A q \in Session!Call :
        req'[q] \in {req[q], Session!Starting(TRUE), Session!Starting(FALSE)}
  BY DEF Session!SaveRefresh
<1>4. PhoneTyped'
  <2>1. Session!Starting(TRUE) \in Session!Request
        /\ Session!Starting(FALSE) \in Session!Request
    BY DEF Session!Starting, Session!Request, Session!TokenOrNone
  <2>2. \A q \in Session!Call : req'[q] \in Session!Request
    BY <1>3, <2>1 DEF PhoneTyped
  <2>3. \E f : req' = [q \in Session!Call |-> f[q]]
    <3>1. req' = [q \in Session!Call |-> req'[q]]
      BY DEF Session!SaveRefresh
    <3>2. QED
      BY <3>1
  <2>4. req' \in [Session!Call -> Session!Request]
    BY <2>2, <2>3
  <2>5. Session!NoJob \in Session!Job /\ Session!NoJob.pc = "none"
    BY DEF Session!NoJob, Session!Job, Session!TokenOrNone
  <2>6. QED
    BY <1>2, <2>4, <2>5 DEF PhoneTyped
<1>5. Level(n)' /\ Pair(n)'
  BY <1>1, <1>2 DEF Level, Pair, Session!NoJob
<1>6. SignedIn'
  BY <1>1, <1>2 DEF SignedIn, Session!NoJob
<1>7. RetriesServed'
  <2> SUFFICES ASSUME NEW q \in Session!Call, Session!Retrying(q)',
                      req'[q].pc = "sent"
               PROVE  req'[q].acc \in Session!Token /\ token'[req'[q].acc].good
    BY <1>1, <1>2 DEF RetriesServed
  <2>1. req'[q] = req[q]
    BY <1>3 DEF Session!Starting
  <2>2. QED
    BY <1>2, <2>1 DEF RetriesServed, Session!Retrying
<1>8. QED
  BY <1>4, <1>5, <1>6, <1>7

\* The app is killed while nothing is under way, started and entered.
LEMMA StartKeeps ==
    ASSUME MaxToken \in Nat, NEW n, PhoneInv(n), trouble' = {},
           Session!Kill \/ Session!Rehydrate \/ Session!EnterApp
    PROVE  PhoneInv(n)'
<1> USE DEF PhoneInv
<1>0. n \in Session!Token /\ n \in Nat /\ n # 0
  BY DEF Level, Session!Token
<1>1. UNCHANGED <<token, account, role, kept>>
  BY DEF Session!Kill, Session!Rehydrate, Session!EnterApp,
     Session!serverVars
<1>2. Level(n)'
  BY <1>1 DEF Level
<1>3. CASE Session!Kill
  <2>1. refreshJob.pc = "none" /\ chore.at = "none"
    BY <1>3 DEF Session!Kill, Session!Meets
  <2>2. /\ refreshing' = FALSE /\ refreshJob' = Session!NoJob
        /\ req' = [q \in Session!Call |-> Session!NoRequest]
        /\ screen' = "splash" /\ queue' = {} /\ chore' = Session!NoChore
    BY <1>3 DEF Session!Kill
  <2>3. PhoneTyped'
    <3>1. Session!NoJob \in Session!Job /\ Session!NoJob.pc = "none"
          /\ Session!NoRequest \in Session!Request
      BY DEF Session!NoJob, Session!Job, Session!TokenOrNone,
         Session!NoRequest, Session!Request
    <3>2. QED
      BY <2>2, <3>1 DEF PhoneTyped
  <2>4. Pair(n)'
    BY <1>1, <2>1, <2>2 DEF Pair, Session!NoJob
  <2>5. SignedIn'
    BY <2>2 DEF SignedIn, Session!NoChore
  <2>6. RetriesServed'
    BY <2>2 DEF RetriesServed, Session!Retrying, Session!NoRequest
  <2>7. QED
    BY <1>2, <2>3, <2>4, <2>5, <2>6
<1>4. CASE Session!Rehydrate
  <2>1. kept.acc # 0 /\ kept.ref # 0
    BY <1>0 DEF Pair, Session!Token
  <2>a. /\ store' = TRUE /\ screen' = screen /\ screen = "splash"
        /\ req' = [req EXCEPT ![Me] = Session!Starting(FALSE)]
        /\ Session!At("me", 0)
        /\ UNCHANGED <<refreshing, queue, refreshJob>>
    BY <1>4, <2>1 DEF Session!Rehydrate
  <2>b. chore'.at = "me"
    BY <2>a DEF Session!At
  <2>2. /\ store' = TRUE /\ screen' = screen /\ screen = "splash"
        /\ req' = [req EXCEPT ![Me] = Session!Starting(FALSE)]
        /\ chore'.at = "me"
        /\ UNCHANGED <<refreshing, queue, refreshJob>>
    BY <2>a, <2>b
  <2>3. Session!Starting(FALSE) \in Session!Request
        /\ Session!Starting(FALSE).retry = FALSE
    BY DEF Session!Starting, Session!Request, Session!TokenOrNone
  <2>4. PhoneTyped'
    BY <2>2, <2>3 DEF PhoneTyped
  <2>5. Pair(n)' /\ SignedIn'
    BY <1>1, <2>2 DEF Pair, SignedIn
  <2>6. \A q \in Session!Call : Session!Retrying(q)' =>
            req'[q] = req[q] /\ Session!Retrying(q)
    BY <2>2, <2>3 DEF Session!Retrying, PhoneTyped
  <2>7. RetriesServed'
    BY <1>1, <2>6 DEF RetriesServed
  <2>8. QED
    BY <1>2, <2>4, <2>5, <2>7
<1>5. CASE Session!EnterApp
  <2>1. store
    BY <1>5 DEF Session!EnterApp, SignedIn
  <2>2. /\ screen' = "home" /\ chore' = Session!NoChore
        /\ UNCHANGED <<store, refreshing, queue, refreshJob, req>>
    BY <1>5, <2>1 DEF Session!EnterApp
  <2>3. PhoneTyped' /\ Pair(n)' /\ SignedIn' /\ RetriesServed'
    BY <1>1, <2>1, <2>2 DEF PhoneTyped, Pair, SignedIn, RetriesServed,
       Session!Retrying, Session!NoChore
  <2>4. QED
    BY <1>2, <2>3
<1>6. QED
  BY <1>3, <1>4, <1>5

\* Access tokens expire, but not the one that a request is sent again with.
LEMMA ServerKeeps ==
    ASSUME NEW n, PhoneInv(n), trouble' = {}, Session!ServerSide
    PROVE  PhoneInv(n)'
<1> USE DEF PhoneInv
<1>1. /\ refreshJob.pc \notin {"granted", "half"}
      /\ \A q \in Session!Call : ~Session!Retrying(q)
      /\ token' = [m \in Session!Token |-> [token[m] EXCEPT !.good = FALSE]]
      /\ UNCHANGED <<account, role>>
  BY DEF Session!ServerSide, Session!Meets, Session!AccessExpires
<1>2. UNCHANGED <<kept, store, screen, refreshing, queue, refreshJob, req,
                  chore>>
  BY DEF Session!ServerSide, Session!clientVars
<1>3. token' \in [Session!Token -> Session!TokenRow]
      /\ \A m \in Session!Token : token'[m].state = token[m].state
                                  /\ token'[m].role = token[m].role
  BY <1>1 DEF Level, Session!TokenRow
<1>4. Level(n)' /\ PhoneTyped' /\ SignedIn'
  BY <1>1, <1>2, <1>3 DEF Level, PhoneTyped, SignedIn
<1>5. Pair(n)'
  BY <1>1, <1>2, <1>3 DEF Pair, Level
<1>6. RetriesServed'
  BY <1>1, <1>2 DEF RetriesServed, Session!Retrying
<1>7. QED
  BY <1>4, <1>5, <1>6

\* An undisturbed app keeps its session: whatever requests expire together, in
\* whatever order their answers come and whenever the app is killed between
\* two refreshes, the courier is not thrown out, and both items of SecureStore
\* are the pair that was issued last.
THEOREM SessionStays ==
    ASSUME MaxToken \in Nat \ {0} PROVE Session!Spec => []SessionKept
<1> DEFINE Inv == trouble = {} => \E n : PhoneInv(n)
<1>1. Session!Init => Inv
  <2> SUFFICES ASSUME Session!Init PROVE PhoneInv(1)
    OBVIOUS
  <2>1. 1 \in Session!Token /\ 0 \in Session!TokenOrNone
        /\ 1 \in Session!TokenOrNone
    BY DEF Session!Token, Session!TokenOrNone
  <2>2. Level(1)
    <3>1. Session!NoRow \in Session!TokenRow
          /\ [state |-> "live", family |-> 1, good |-> TRUE, role |-> 0]
               \in Session!TokenRow
      BY <2>1 DEF Session!NoRow, Session!TokenRow
    <3>2. token \in [Session!Token -> Session!TokenRow]
      BY <3>1 DEF Session!Init, Session!TokensInit
    <3>3. \A m \in Session!Token : token[m].state = "unissued" <=> m > 1
      BY DEF Session!Init, Session!TokensInit, Session!Token, Session!NoRow
    <3>4. QED
      BY <2>1, <3>2, <3>3 DEF Level, Session!Init, Session!TokensInit,
         Session!NoRow
  <2>3. PhoneTyped
    BY <2>1 DEF PhoneTyped, Session!Init, Session!NoJob, Session!Job,
       Session!NoRequest, Session!Request
  <2>4. Pair(1) /\ SignedIn /\ RetriesServed
    BY <2>1 DEF Pair, SignedIn, RetriesServed, Session!Init,
       Session!TokensInit, Session!NoJob, Session!NoChore,
       Session!NoRequest, Session!Retrying
  <2>5. QED
    BY <2>2, <2>3, <2>4 DEF PhoneInv
<1>2. Inv /\ [Session!Next]_(Session!vars) => Inv'
  <2> SUFFICES ASSUME Inv, [Session!Next]_(Session!vars), trouble' = {}
               PROVE  \E n : PhoneInv(n)'
    OBVIOUS
  <2>1. trouble = {}
    BY DEF Session!Next, Session!SendRequest, Session!AttachToken,
       Session!Answer, Session!AnswerPlain, Session!AnswerQueued,
       Session!AnswerLeads, Session!JobStep, Session!ReadToken,
       Session!RefreshLookup, Session!Refused, Session!LossNoticed,
       Session!RefreshConsume, Session!RefreshIssue, Session!RefreshLost,
       Session!SaveAccess, Session!SaveRefresh, Session!RejectQueue,
       Session!DropAccess, Session!DropRefresh, Session!Kill,
       Session!ChoreStep, Session!Rehydrate, Session!EnterApp,
       Session!WipeAccess, Session!WipeRefresh, Session!AskLogout,
       Session!LogoutAnswer, Session!AskLogin, Session!LoginSaveAccess,
       Session!LoginSaveRefresh, Session!LoginCheck, Session!ServerSide,
       Session!Meets, Session!vars
  <2>2. PICK n : PhoneInv(n)
    BY <2>1
  <2>3. refreshJob.pc \notin {"lost", "failed", "drop", "dropped"}
        /\ chore.at \notin {"expel", "expelled", "wipe", "wiped", "logout",
                            "save", "saved", "check"}
        /\ screen # "login"
    BY <2>2 DEF PhoneInv, Pair, SignedIn
  <2>4. ASSUME NEW q \in Session!Call,
               Session!SendRequest(q) \/ Session!AttachToken(q)
               \/ Session!Answer(q)
        PROVE  PhoneInv(n)'
    BY <2>2, <2>4, RequestKeeps DEF Session!Answer
  <2>5. CASE Session!JobStep
    <3>1. ~(Session!RejectQueue \/ Session!DropAccess \/ Session!DropRefresh)
      BY <2>3 DEF Session!RejectQueue, Session!DropAccess,
         Session!DropRefresh
    <3>2. QED
      BY <2>2, <2>5, <3>1, RefreshKeeps, SaveRefreshKeeps
      DEF Session!JobStep
  <2>6. CASE Session!ChoreStep
    <3>1. ~(Session!WipeAccess \/ Session!WipeRefresh \/ Session!LogoutAnswer
            \/ Session!LoginSaveAccess \/ Session!LoginSaveRefresh
            \/ Session!LoginCheck)
      BY <2>3 DEF Session!WipeAccess, Session!WipeRefresh,
         Session!LogoutAnswer, Session!LoginSaveAccess,
         Session!LoginSaveRefresh, Session!LoginCheck
    <3>2. QED
      BY <2>2, <2>6, <3>1, StartKeeps DEF Session!ChoreStep
  <2>7. ~(Session!RefreshLost \/ Session!LossNoticed \/ Session!AskLogin
          \/ Session!AskLogout)
    BY <2>3 DEF Session!RefreshLost, Session!LossNoticed, Session!AskLogin,
       Session!AskLogout, Session!Meets
  <2>8. CASE Session!Kill
    BY <2>2, <2>8, StartKeeps
  <2>9. CASE Session!ServerSide
    BY <2>2, <2>9, ServerKeeps
  <2>10. CASE UNCHANGED Session!vars
    <3>1. PhoneInv(n)'
      BY <2>2, <2>10 DEF PhoneInv, PhoneTyped, Level, Pair, SignedIn,
         RetriesServed, Session!Retrying, Session!vars, Session!serverVars,
         Session!clientVars
    <3>2. QED
      BY <3>1
  <2>11. QED
    BY <2>4, <2>5, <2>6, <2>7, <2>8, <2>9, <2>10
    DEF Session!Next, Session!Call
<1>3. Inv => SessionKept
  BY InvKeepsSession
  DEF SessionKept, Session!SessionKept, Session!Undisturbed
<1>4. QED
  BY <1>1, <1>2, <1>3, PTL DEF Session!Spec
==============================================================================
