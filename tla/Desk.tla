-------------------------------- MODULE Desk ---------------------------------
(* A dialog of the web admin and a list that its requests may concern: one   *)
(* person types, submits, closes, opens it for another row and leaves the    *)
(* page, while requests and answers are on their way (TanStack Query 5, as   *)
(* shared/queryClient.js configures it).                                     *)
(*                                                                           *)
(* Bounds: MaxOpenings openings of the dialog, MaxDrafts things typed,       *)
(* MaxCalls submissions (one with a list), MaxLost lost answers.             *)
EXTENDS DeskForms, Integers, SequencesExt

CONSTANTS
    Cases,      \* the pairs of a dialog and a list (or NoQuery) to look at
    Fills,      \* those where the list's data fill the dialog's fields
    NoQuery,
    MaxOpenings, MaxDrafts, MaxCalls, MaxLost

ASSUME DeskAssumption ==
    /\ MaxOpenings \in Nat /\ MaxDrafts \in Nat /\ MaxCalls \in Nat
    /\ MaxLost \in Nat

VARIABLES
    deskForm, query,\* the case
    dialog,         \* open; opening: which one; text: what is in the fields,
                    \* 0 for nothing typed; typed: how many things were
    calls,          \* the submissions, oldest first
    made, lost,     \* per thing typed: how often it was done, answers lost
    server, own,    \* version of what the list reads; the newest of them that
                    \* an answer told this client of
    list            \* shown, what is cached, the fetch that is out

deskVars == <<deskForm, query, dialog, calls, made, lost, server, own, list>>
desk == <<deskForm, query>>

Has(trait) == trait \in deskForm.traits
Alone == query = NoQuery

Drafts == IF Alone \/ <<deskForm, query>> \in Fills THEN MaxDrafts ELSE 1
Submissions == IF Alone THEN MaxCalls ELSE 1

Blank == [open |-> FALSE, opening |-> 0, text |-> 0, typed |-> 0]
Fresh == [shown |-> TRUE, ver |-> 0, invalid |-> FALSE, aged |-> FALSE,
          fetch |-> "none", read |-> 0, overtaken |-> FALSE]

DeskInit ==
    /\ \E c \in Cases : deskForm = c[1] /\ query = c[2]
    /\ dialog = Blank
    /\ calls = <<>>
    /\ made = [d \in 1..MaxDrafts |-> 0]
    /\ lost = [d \in 1..MaxDrafts |-> 0]
    /\ server = 0 /\ own = 0
    /\ list = Fresh

Out(c) == c.pc # "over"
\* What the dialog takes for a request of its own that is out.
Pending == \E i \in DOMAIN calls : Out(calls[i]) /\ calls[i].seen
Unseen(cs) == [i \in DOMAIN cs |-> [cs[i] EXCEPT !.seen = FALSE]]

------------------------------------------------------------------------------
(* The person.                                                               *)

Open ==
    /\ ~dialog.open /\ dialog.opening < MaxOpenings
    /\ LET choice == IF Has("plain") /\ dialog.typed < Drafts
                     THEN dialog.typed + 1 ELSE 0
       IN  dialog' = [open |-> TRUE, opening |-> dialog.opening + 1,
                      text |-> IF choice # 0 THEN choice ELSE dialog.text,
                      typed |-> IF choice # 0 THEN choice ELSE dialog.typed]
    /\ UNCHANGED <<desk, calls, made, lost, server, own, list>>

Type ==
    /\ dialog.open /\ ~Has("plain") /\ dialog.typed < Drafts
    /\ dialog' = [dialog EXCEPT !.typed = @ + 1, !.text = dialog.typed + 1]
    /\ UNCHANGED <<desk, calls, made, lost, server, own, list>>

Submit ==
    /\ dialog.open /\ dialog.text # 0
    /\ Has("guarded") => ~Pending
    /\ Len(calls) < Submissions
    /\ calls' = Append(Unseen(calls),
                       [draft |-> dialog.text, opening |-> dialog.opening,
                        step |-> 1, pc |-> "out", seen |-> TRUE, at |-> 0])
    /\ dialog' = IF Has("hasty")
                 THEN [dialog EXCEPT !.open = FALSE, !.text = 0] ELSE dialog
    /\ UNCHANGED <<desk, made, lost, server, own, list>>

Shut == [dialog EXCEPT !.open = FALSE,
                       !.text = IF Has("keeps") THEN @ ELSE 0]

Close ==
    /\ dialog.open
    /\ Has("held") => ~Pending
    /\ dialog' = Shut
    /\ calls' = IF Has("forgets") THEN Unseen(calls) ELSE calls
    /\ UNCHANGED <<desk, made, lost, server, own, list>>

\* Another page: dialog and list are unmounted, the requests go on.
Leave ==
    /\ ~Alone /\ list.shown
    /\ dialog' = [dialog EXCEPT !.open = FALSE, !.text = 0]
    /\ calls' = Unseen(calls)
    /\ list' = [list EXCEPT !.shown = FALSE]
    /\ UNCHANGED <<desk, made, lost, server, own>>

\* Back again: what is invalid or past its staleTime is fetched.
Return ==
    /\ ~Alone /\ ~list.shown
    /\ list' = [list EXCEPT !.shown = TRUE,
                            !.fetch = IF @ = "none" /\ (list.invalid \/ list.aged)
                                      THEN "asked" ELSE @]
    /\ UNCHANGED <<desk, dialog, calls, made, lost, server, own>>

------------------------------------------------------------------------------
(* The requests.                                                             *)

StepOf(c) == deskForm.steps[c.step]
Touches(s) == ~Alone /\ s.on \cap query.reads # {}
Change(i, pc) == calls' = [calls EXCEPT ![i].pc = pc]

Serve(i) ==
    /\ calls[i].pc = "out"
    /\ made' = IF StepOf(calls[i]).does = "add"
               THEN [made EXCEPT ![calls[i].draft] = @ + 1] ELSE made
    /\ server' = IF Touches(StepOf(calls[i])) THEN server + 1 ELSE server
    /\ calls' = [calls EXCEPT ![i].pc = "served", ![i].at = server']
    /\ UNCHANGED <<desk, dialog, lost, own, list>>

\* An invalid input, a state that moved on, an account without the right.
Refuse(i) ==
    /\ calls[i].pc = "out"
    /\ Change(i, "refused")
    /\ UNCHANGED <<desk, dialog, made, lost, server, own, list>>

\* The request took effect, its answer never comes.
LoseAnswer(i) ==
    /\ calls[i].pc = "served"
    /\ \A d \in 1..MaxDrafts : lost[d] < MaxLost
    /\ Change(i, "refused")
    /\ lost' = [lost EXCEPT ![calls[i].draft] = @ + 1]
    /\ UNCHANGED <<desk, dialog, made, server, own, list>>

\* invalidateQueries: a list that is shown is fetched anew, and a fetch that
\* is out is dropped for it; one that is not shown is marked, and a fetch that
\* is still out for it will clear the mark.
Invalidated ==
    IF list.shown THEN [list EXCEPT !.fetch = "asked"]
    ELSE [list EXCEPT !.invalid = TRUE,
                      !.overtaken = @ \/ list.fetch # "none"]

Renews(c) ==
    /\ \E k \in StepOf(c).renews : IsPrefix(k, query.key)
    /\ Has("renews on call") => c.seen
    /\ query.byId /\ Has("shared") =>
        dialog.open /\ c.opening = dialog.opening

Finishes(c) ==
    /\ Has("on call") => c.seen
    /\ Has("bound") => dialog.open /\ c.opening = dialog.opening

Finished ==
    [dialog EXCEPT
        !.open = @ /\ ~Has("closes"),
        !.text = IF \/ Has("clears")
                    \/ Has("closes") /\ ~Has("keeps") /\ ~Has("leaves")
                 THEN 0 ELSE @]

Succeed(i) ==
    /\ calls[i].pc = "served"
    /\ IF calls[i].step < Len(deskForm.steps)
       THEN /\ calls' = [calls EXCEPT ![i].pc = "out", ![i].step = @ + 1]
            /\ UNCHANGED dialog
       ELSE /\ Change(i, "over")
            /\ dialog' = IF Finishes(calls[i]) THEN Finished ELSE dialog
    /\ own' = IF Touches(StepOf(calls[i])) THEN calls[i].at ELSE own
    /\ list' = IF ~Alone /\ Renews(calls[i]) THEN Invalidated ELSE list
    /\ UNCHANGED <<desk, made, lost, server>>

Fail(i) ==
    /\ calls[i].pc = "refused"
    /\ Change(i, "over")
    /\ UNCHANGED <<desk, dialog, made, lost, server, own, list>>

------------------------------------------------------------------------------
(* The list.                                                                 *)

Age ==
    /\ ~Alone /\ ~list.aged /\ list.fetch = "none"
    /\ list' = [list EXCEPT !.aged = TRUE]
    /\ UNCHANGED <<desk, dialog, calls, made, lost, server, own>>

\* The server reads for a fetch.
Read ==
    /\ list.fetch = "asked"
    /\ list' = [list EXCEPT !.fetch = "answered", !.read = server]
    /\ UNCHANGED <<desk, dialog, calls, made, lost, server, own>>

\* New data are a new object: an effect that fills the fields from it runs.
Arrive ==
    /\ list.fetch = "answered"
    /\ list' = [list EXCEPT !.fetch = "none", !.ver = list.read, !.read = 0,
                            !.invalid = FALSE, !.aged = FALSE]
    /\ dialog' = IF <<deskForm, query>> \in Fills /\ list.read # list.ver
                 THEN [dialog EXCEPT !.text = 0] ELSE dialog
    /\ UNCHANGED <<desk, calls, made, lost, server, own>>

Person == Open \/ Type \/ Submit \/ Close \/ Leave \/ Return
Network ==
    \E i \in DOMAIN calls :
        Serve(i) \/ Refuse(i) \/ LoseAnswer(i) \/ Succeed(i) \/ Fail(i)
DeskNext == Person \/ Network \/ Age \/ Read \/ Arrive
DeskSpec == DeskInit /\ [][DeskNext]_deskVars

------------------------------------------------------------------------------
(* What the properties say of a case.                                        *)

\* What was typed is done once, and once more for every answer that was lost.
DoneOnce == \A d \in 1..MaxDrafts : made[d] <= 1 + lost[d]

\* Only the person closes the dialog or empties it, and the answer of a
\* submission that was done; AnswersStayHome asks for an answer to what is in it.
Vanishes ==
    (dialog.open /\ ~dialog'.open) \/ (dialog.text # 0 /\ dialog'.text = 0)
Done(i) == calls[i].pc = "served" /\ calls'[i].pc = "over"
StaysTyped ==
    Vanishes /\ ~Has("plain") =>
        Close \/ Leave \/ \E i \in DOMAIN calls : Done(i)
AnswersStayHome ==
    Vanishes => \/ Close \/ Leave
                \/ \E i \in DOMAIN calls :
                       Done(i) /\ calls[i].draft = dialog.text

\* A list at rest shows what this client was told it had changed, unless an
\* invalidation met a fetch of a page that was left.
AtRest ==
    /\ list.shown /\ list.fetch = "none" /\ ~list.overtaken
    /\ \A i \in DOMAIN calls : ~Out(calls[i])
ShowsOwn == AtRest => list.ver >= own

\* A dialog that was submitted, with every variable in its place.
DeskTypeOK ==
    /\ dialog \in [open: BOOLEAN, opening: 0..MaxOpenings,
                   text: 0..MaxDrafts, typed: 0..MaxDrafts]
    /\ calls \in Seq([draft: 1..MaxDrafts, opening: 1..MaxOpenings, step: 1..3,
                      pc: {"out", "served", "refused", "over"},
                      seen: BOOLEAN, at: 0..3])
    /\ own <= server
==============================================================================
