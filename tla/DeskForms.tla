------------------------------ MODULE DeskForms ------------------------------
(* What a dialog of the web admin is made of: the requests its button sends, *)
(* one after another, and the traits of its code that decide what happens    *)
(* when an answer is late, lost or a refusal.  The modules DeskDispatch,     *)
(* DeskStock, DeskPeople and DeskMoney hold one definition per dialog and    *)
(* per list; Desk says how they behave.                                      *)
EXTENDS Sequences

\* A request.  "add" makes something new each time it is served, "set" only
\* overwrites.  `on' is what it changes at the server, `renews' the query keys
\* (prefixes) that are invalidated when its answer comes.
Send(does, on, renews) == [does |-> does, on |-> on, renews |-> renews]

\* A dialog.  Its traits:
\*   "guarded"   the button is off while a request that the dialog knows of
\*               is out
\*   "plain"     nothing is typed: opening it chooses what to send
\*   "keeps"     what was typed is still there when it is opened again
\*   "closes"    an answered submission closes it
\*   "leaves"    an answered submission that closes it leaves what was typed
\*   "clears"    an answered submission empties it and leaves it open
\*   "on call"   closing and clearing are handlers of the call (mutate's
\*               second argument), which the library drops with its observer;
\*               without it they belong to the hook, or follow an await, and
\*               always run
\*   "bound"     a component for each opening: closing and emptying die with it
\*   "renews on call"  the same of the invalidations
\*   "forgets"   closing it unmounts it or resets its mutation
\*   "held"      it cannot be closed while a request is out
\*   "hasty"     it closes and forgets what was typed when it submits
\*   "shared"    one instance serves every row: its handlers are those of the
\*               row that is open when the answer comes
Form(name, steps, traits) == [name |-> name, steps |-> steps, traits |-> traits]

\* A list or a card: the key it is cached under, what it reads at the server.
\* Its data may also fill the fields of forms.
Query(name, key, reads) ==
    [name |-> name, key |-> key, reads |-> reads, byId |-> FALSE]
QueryById(name, key, reads) ==
    [name |-> name, key |-> key, reads |-> reads, byId |-> TRUE]

\* A page: the dialogs it opens and the lists it keeps mounted.
Page(forms, lists) == [forms |-> forms, lists |-> lists]
FormsOf(pages) == UNION {p.forms : p \in pages}
ListsOf(pages) == UNION {p.lists : p \in pages}

\* A form may make a list out of date.
Concerns(f, q) ==
    \E i \in DOMAIN f.steps : f.steps[i].on \cap q.reads # {}

\* What one person's pages bring together: they share one cache, so that a
\* dialog of one page reaches the list of another.
Together(pages) ==
    {c \in FormsOf(pages) \X ListsOf(pages) : Concerns(c[1], c[2])}
==============================================================================
