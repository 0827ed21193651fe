----------------------------- MODULE WebSession ------------------------------
(* One browser with several tabs of the web client: shared/api/client.js and *)
(* shared/store/authStore.js.  The tabs share localStorage (the stored pair  *)
(* and the refresh lock); each has its own store, its own authExpired flag   *)
(* and at most one refresh promise.  JavaScript between two awaits is one    *)
(* step, except where it meets other tabs in localStorage: every access of   *)
(* the refresh lock, and of the stored pair beside it, is a step.  What      *)
(* happens at the server is RefreshTokens.                                   *)
EXTENDS RefreshTokens, FiniteSets

CONSTANTS
    Tab,        \* the tabs of the browser
    Req,        \* what a tab may have under way at once
    NoTab,      \* nobody holds the lock
    Gone,       \* the lock's holder is a page that was reloaded or closed
    MaxTrouble  \* bound: how many things go wrong in a behaviour

ASSUME LockAssumption == Gone \notin Tab /\ NoTab \notin Tab \cup {Gone}

VARIABLES
    stored,     \* localStorage: the pair under megamall-crm-auth
    lock,       \* localStorage: who refreshes, and whether its 10 s are over
    open,       \* open[t]: the tab's store has a session; else /login shows
    shut,       \* shut[t]: authExpired
    refresh,    \* refresh[t]: the tab's refreshPromise
    req,        \* req[t][q]: a request of the tab
    trouble     \* what went wrong so far: {} in an undisturbed behaviour

tabVars == <<open, shut>>
vars == <<serverVars, stored, lock, tabVars, refresh, req, trouble>>

\* asked, found, spent: the call is at the server before its lookup, after it
\* and after the token was revoked; granted, failed: the answer is on its way;
\* lost: the call or its answer will not arrive.
Calling == {"asked", "found", "spent", "granted", "failed", "lost"}

\* Within one turn of the tab's event loop: before each access of localStorage
\* by tryRefresh and waitForOtherRefresh, and when the promise is settled.
Turn == {"locking", "writing", "reading", "checking", "watching", "leaving",
         "unlocking", "done"}
Refresh ==
    [pc : {"none", "waiting"} \cup Turn \cup Calling, old : TokenOrNone,
     new : TokenOrNone]
NoRefresh == [pc |-> "none", old |-> 0, new |-> 0]

\* parked: the request awaits the refresh promise; "parked" and "resent" have
\* _retry set.
Request == [pc : {"idle", "sent", "parked", "resent"}, acc : TokenOrNone,
            why : {"-", "401", "403"}]
NoRequest == [pc |-> "idle", acc |-> 0, why |-> "-"]

\* lost: a refresh call or its answer; late: a refresh outlives its lock or
\* somebody's patience; reload: of a tab in the middle of a refresh; failed: a
\* statement of the refresh at the server; left: the session ended on purpose
\* or by its age; crossed: two tabs met between two accesses of localStorage.
Troubles == {"lost", "late", "reload", "failed", "left", "crossed"}
MayMeet(x) == x \in trouble \/ Cardinality(trouble) < MaxTrouble
Meets(x) == MayMeet(x) /\ trouble' = trouble \cup {x}

\* What no bound holds back is remembered when it is the first to go wrong.
Notes(x, happens) ==
    trouble' = IF happens /\ trouble = {} THEN {x} ELSE trouble

TypeOK ==
    /\ TokensTypeOK
    /\ stored \in TokenOrNone
    /\ lock \in [owner : Tab \cup {NoTab, Gone}, over : BOOLEAN]
    /\ open \in [Tab -> BOOLEAN]
    /\ shut \in [Tab -> BOOLEAN]
    /\ refresh \in [Tab -> Refresh]
    /\ req \in [Tab -> [Req -> Request]]
    /\ trouble \subseteq Troubles

NoLock == [owner |-> NoTab, over |-> FALSE]

Init ==
    /\ TokensInit
    /\ stored = 1
    /\ lock = NoLock
    /\ open = [t \in Tab |-> TRUE]
    /\ shut = [t \in Tab |-> FALSE]
    /\ refresh = [t \in Tab |-> NoRefresh]
    /\ req = [t \in Tab |-> [q \in Req |-> NoRequest]]
    /\ trouble = {}

------------------------------------------------------------------------------
(* Requests and their interceptors.                                          *)

\* Nothing else of a tab happens within a turn of its event loop.
Between(t) == refresh[t].pc \notin Turn

\* The request interceptor: a stored pair lifts authExpired, and the stored
\* access token goes out with the request.
Mute(t) == shut[t] /\ stored = 0
Carries(t, fallback) == IF stored # 0 THEN stored ELSE fallback

SendRequest(t, q) ==
    /\ open[t] /\ Between(t)
    /\ req[t][q].pc = "idle"
    /\ shut' = [shut EXCEPT ![t] = Mute(t)]
    /\ req' = [req EXCEPT ![t][q] = [pc |-> "sent", acc |-> stored,
                                     why |-> "-"]]
    /\ UNCHANGED <<serverVars, stored, lock, open, refresh, trouble>>

\* The request is over, with an answer or an error for its caller.
Settled(t, q) == req' = [req EXCEPT ![t][q] = NoRequest]

\* clearAuthAndRedirect: the stored pair and the lock go, whoever holds it,
\* the tab's store is cleared and the tab shows the login page.
ClearAndRedirect(t) ==
    /\ stored' = 0
    /\ lock' = NoLock
    /\ open' = [open EXCEPT ![t] = FALSE]
    /\ shut' = [shut EXCEPT ![t] = TRUE]

\* The user's own record is gone (404 on /users/me): the request passed the
\* middleware before the account was closed and was answered after.
AnswerGone(t, q) ==
    /\ req[t][q].pc \in {"sent", "resent"} /\ Between(t)
    /\ account = "inactive" /\ req[t][q].acc # 0
    /\ token[req[t][q].acc].good
    /\ open[t]
    /\ Settled(t, q)
    /\ ClearAndRedirect(t)
    /\ UNCHANGED <<serverVars, refresh, trouble>>

\* An answer that ends the request: success, a network error or twelve seconds
\* without an answer, a second 401 or 403, or one for a tab that gave up.
AnswerPlain(t, q) ==
    /\ req[t][q].pc \in {"sent", "resent"} /\ Between(t)
    /\ Settled(t, q)
    /\ UNCHANGED <<serverVars, stored, lock, tabVars, refresh, trouble>>

\* A first 401 or 403: the request parks behind the tab's refresh promise and
\* starts one if there is none: tryRefresh, which reads the stored pair and
\* gives up if there is none.
Started(t) ==
    [NoRefresh EXCEPT !.pc = IF stored = 0 THEN "done" ELSE "locking",
                      !.old = stored]

AnswerRefused(t, q) ==
    /\ req[t][q].pc = "sent" /\ Between(t)
    /\ Verdict(req[t][q].acc) \in {"401", "403"}
    /\ ~shut[t]
    /\ req' = [req EXCEPT ![t][q] = [pc |-> "parked", acc |-> 0,
                                     why |-> Verdict(req[t][q].acc)]]
    /\ refresh' = IF refresh[t].pc # "none" THEN refresh
                  ELSE [refresh EXCEPT ![t] = Started(t)]
    /\ UNCHANGED <<serverVars, stored, lock, tabVars, trouble>>

\* The promise is settled: with a token the parked requests go out again (the
\* request interceptor puts the stored token in), without one a 401 ends the
\* session of the browser and a 403 is an error like another.
Parked(t) == {q \in Req : req[t][q].pc = "parked"}

\* mutant: only the requests that met a 401 are taken up again.
ResumeOnly401(t) ==
    /\ refresh[t].pc = "done"
    /\ refresh' = [refresh EXCEPT ![t] = NoRefresh]
    /\ req' = [req EXCEPT ![t] = [q \in Req |->
            IF q \in Parked(t) /\ req[t][q].why = "401"
            THEN NoRequest ELSE req[t][q]]]
    /\ IF refresh[t].new = 0 THEN ClearAndRedirect(t)
                             ELSE UNCHANGED <<stored, lock, tabVars>>
    /\ UNCHANGED <<serverVars, trouble>>

Resume(t) ==
    /\ refresh[t].pc = "done"
    /\ refresh' = [refresh EXCEPT ![t] = NoRefresh]
    /\ \/ /\ refresh[t].new # 0
          /\ req' = [req EXCEPT ![t] = [q \in Req |->
                IF q \in Parked(t)
                THEN [req[t][q] EXCEPT !.pc = "resent",
                                       !.acc = Carries(t, refresh[t].new)]
                ELSE req[t][q]]]
          /\ shut' = [shut EXCEPT ![t] = Mute(t)]
          /\ UNCHANGED <<stored, lock, open>>
       \/ /\ refresh[t].new = 0
          /\ req' = [req EXCEPT ![t] = [q \in Req |->
                IF q \in Parked(t) THEN NoRequest ELSE req[t][q]]]
          /\ IF \E q \in Parked(t) : req[t][q].why = "401"
             THEN ClearAndRedirect(t)
             ELSE UNCHANGED <<stored, lock, tabVars>>
    /\ UNCHANGED <<serverVars, trouble>>

------------------------------------------------------------------------------
(* The lock: acquireRefreshLock looks, writes and reads back what it wrote.  *)

Step(t, pc) == refresh' = [refresh EXCEPT ![t].pc = pc]

FreeLock == lock.owner = NoTab \/ lock.over

\* The tab that has the lock is renewing the pair this one wants renewed, so
\* there is something to wait for.
SameRenewal(t) ==
    /\ lock.owner \in Tab
    /\ refresh[lock.owner].pc \in {"reading", "checking"} \cup Calling
    /\ refresh[lock.owner].old = refresh[t].old

\* Wait for the other tab.  It may be about to give the lock back, with this
\* very pair written already or with one of before.
Wait(t) ==
    /\ Step(t, "waiting")
    /\ Notes("crossed", refresh[t].old = stored /\ ~SameRenewal(t))

LookAtLock(t) ==
    /\ refresh[t].pc = "locking"
    /\ \/ FreeLock /\ Step(t, "writing") /\ UNCHANGED trouble
       \/ ~FreeLock /\ Wait(t)
    /\ UNCHANGED <<serverVars, stored, lock, tabVars, req>>

\* The lock may have been taken since it was found free, and by a tab that
\* renews another pair.
WriteLock(t) ==
    /\ refresh[t].pc = "writing"
    /\ lock' = [owner |-> t, over |-> FALSE]
    /\ Step(t, "reading")
    /\ Notes("crossed", /\ lock.owner \in Tab
                        /\ refresh[lock.owner].old # refresh[t].old)
    /\ UNCHANGED <<serverVars, stored, tabVars, req>>

\* mutant: what was written is not read back.
NoReadBack(t) ==
    /\ refresh[t].pc = "reading"
    /\ Step(t, "checking")
    /\ UNCHANGED <<serverVars, stored, lock, tabVars, req, trouble>>

\* Reading back makes the last of two writers the only holder, unless it writes
\* when the other is through already.
ReadBack(t) ==
    /\ refresh[t].pc = "reading"
    /\ \/ /\ lock.owner = t
          /\ Step(t, "checking")
          /\ Notes("crossed", \E u \in Tab : refresh[u].pc = "writing")
       \/ lock.owner # t /\ Wait(t)
    /\ UNCHANGED <<serverVars, stored, lock, tabVars, req>>

\* With the lock the stored pair is looked at again, and the server is asked
\* for a new one unless another tab has fetched it meanwhile.
CheckStored(t) ==
    /\ refresh[t].pc = "checking"
    /\ refresh' = [refresh EXCEPT ![t] =
            IF stored \in {0, refresh[t].old} THEN [@ EXCEPT !.pc = "asked"]
            ELSE [pc |-> "leaving", old |-> 0, new |-> stored]]
    /\ UNCHANGED <<serverVars, stored, lock, tabVars, req, trouble>>

------------------------------------------------------------------------------
(* The refresh call and its answer.                                          *)

Ends(t, pc) == refresh' = [refresh EXCEPT ![t] = [NoRefresh EXCEPT !.pc = pc]]
Fails(t) == Ends(t, "failed")

\* The server's side of the call, one database statement after the other.
RefreshLookup(t) ==
    /\ refresh[t].pc = "asked"
    /\ \/ /\ token[refresh[t].old].state = "live"
          /\ Step(t, "found")
          /\ UNCHANGED <<serverVars, trouble>>
       \/ RefuseReuse(refresh[t].old) /\ Fails(t) /\ UNCHANGED trouble
       \/ RefuseExpired(refresh[t].old) /\ Fails(t) /\ Meets("left")
    /\ UNCHANGED <<stored, lock, tabVars, req>>

RefreshConsume(t) ==
    /\ refresh[t].pc = "found"
    /\ Consume(refresh[t].old)
    /\ Step(t, "spent")
    /\ UNCHANGED <<stored, lock, tabVars, req, trouble>>

RefreshIssue(t) ==
    /\ refresh[t].pc = "spent"
    /\ \/ /\ Rotate(refresh[t].old)
          /\ refresh' = [refresh EXCEPT ![t].pc = "granted", ![t].new = NextId]
          /\ UNCHANGED trouble
       \/ /\ RefuseInactive(refresh[t].old)
          /\ Fails(t)
          /\ UNCHANGED trouble
       \/ /\ MayMeet("failed") \/ Unissued = {}
          /\ Fails(t)
          /\ trouble' = trouble \cup {"failed"}
          /\ UNCHANGED serverVars
    /\ UNCHANGED <<stored, lock, tabVars, req>>

\* The new pair is written over what is stored and into the tab's store.
RefreshGranted(t) ==
    /\ refresh[t].pc = "granted"
    /\ stored' = refresh[t].new
    /\ open' = [open EXCEPT ![t] = TRUE]
    /\ shut' = [shut EXCEPT ![t] = FALSE]
    /\ refresh' = [refresh EXCEPT ![t].pc = "leaving", ![t].old = 0]
    /\ UNCHANGED <<serverVars, lock, req, trouble>>

\* The call or its answer is lost on the way.  It is a bare axios.post, which
\* has no timeout: the tab may notice, as an error, or wait for ever.
RefreshLost(t) ==
    /\ refresh[t].pc \in {"asked", "granted", "failed"}
    /\ Ends(t, "lost")
    /\ Meets("lost")
    /\ UNCHANGED <<serverVars, stored, lock, tabVars, req>>

LossNoticed(t) ==
    /\ refresh[t].pc = "lost"
    /\ Ends(t, "leaving")
    /\ UNCHANGED <<serverVars, stored, lock, tabVars, req, trouble>>

\* releaseRefreshLock looks whether the lock is still this call's,
CheckOwner(t) ==
    /\ refresh[t].pc \in {"failed", "leaving"}
    /\ Step(t, IF lock.owner = t THEN "unlocking" ELSE "done")
    /\ UNCHANGED <<serverVars, stored, lock, tabVars, req, trouble>>

\* and removes it, whoever has it by then.  A waiting tab that saw the old pair
\* and not yet the lock will take it for abandoned.
Unlock(t) ==
    /\ refresh[t].pc = "unlocking"
    /\ lock' = NoLock
    /\ Step(t, "done")
    /\ Notes("crossed", \E u \in Tab : /\ refresh[u].pc = "watching"
                                       /\ refresh[u].old # stored)
    /\ UNCHANGED <<serverVars, stored, tabVars, req>>

------------------------------------------------------------------------------
(* waitForOtherRefresh looks at the pair, then at the lock, and sleeps.      *)

Waited(t, n) ==
    refresh' = [refresh EXCEPT ![t] = [pc |-> "done", old |-> 0, new |-> n]]

\* mutant: only the lock is looked at.
WatchLockOnly(t) ==
    /\ refresh[t].pc = "waiting"
    /\ Step(t, "watching")
    /\ UNCHANGED <<serverVars, stored, lock, tabVars, req, trouble>>

WatchStored(t) ==
    /\ refresh[t].pc = "waiting"
    /\ IF stored = refresh[t].old THEN Step(t, "watching")
                                  ELSE Waited(t, stored)
    /\ UNCHANGED <<serverVars, stored, lock, tabVars, req, trouble>>

WatchLock(t) ==
    /\ refresh[t].pc = "watching"
    /\ IF FreeLock THEN Waited(t, 0) ELSE Step(t, "waiting")
    /\ UNCHANGED <<serverVars, stored, lock, tabVars, req, trouble>>

\* Twelve seconds of waiting are over, whatever the last look at the lock says.
WaitTimesOut(t) ==
    /\ refresh[t].pc \in {"waiting", "watching"}
    /\ Waited(t, 0)
    /\ Notes("late", TRUE)
    /\ UNCHANGED <<serverVars, stored, lock, tabVars, req>>

\* The lock's ten seconds are over: ordinarily its holder is gone by then.
Abandoned ==
    \/ lock.owner = Gone
    \/ lock.owner \in Tab /\ refresh[lock.owner].pc = "lost"

LockRunsOut ==
    /\ lock.owner # NoTab /\ ~lock.over
    /\ lock' = [lock EXCEPT !.over = TRUE]
    /\ IF Abandoned THEN UNCHANGED trouble ELSE Meets("late")
    /\ UNCHANGED <<serverVars, stored, tabVars, refresh, req>>

------------------------------------------------------------------------------
(* The user and the office.                                                  *)

\* Logout: the store is cleared and, through persist, so is what is stored.
\* The server is not told.
Logout(t) ==
    /\ open[t] /\ Between(t)
    /\ stored' = 0
    /\ open' = [open EXCEPT ![t] = FALSE]
    /\ Meets("left")
    /\ UNCHANGED <<serverVars, lock, shut, refresh, req>>

\* Login; the page sends a tab whose store has a session home instead.
Login(t) ==
    /\ ~open[t] /\ Between(t)
    /\ LoginIssue
    /\ stored' = NextId
    /\ open' = [open EXCEPT ![t] = TRUE]
    /\ UNCHANGED <<lock, shut, refresh, req, trouble>>

\* A reload: the store comes back from localStorage, everything else of the
\* tab is lost, its lock stays until it runs out.
Reload(t) ==
    /\ Between(t)
    /\ open' = [open EXCEPT ![t] = stored # 0]
    /\ shut' = [shut EXCEPT ![t] = FALSE]
    /\ refresh' = [refresh EXCEPT ![t] = NoRefresh]
    /\ req' = [req EXCEPT ![t] = [q \in Req |-> NoRequest]]
    /\ lock' = IF lock.owner = t THEN [lock EXCEPT !.owner = Gone] ELSE lock
    /\ IF refresh[t].pc \in Calling THEN Meets("reload")
                                    ELSE UNCHANGED trouble
    /\ UNCHANGED <<serverVars, stored>>

\* The office's changes and the clock.
ServerSide ==
    /\ \/ AccessExpires /\ UNCHANGED trouble
       \/ ChangeRole /\ UNCHANGED trouble
       \/ Deactivate /\ Meets("left")
    /\ UNCHANGED <<stored, lock, tabVars, refresh, req>>

Answer(t, q) == AnswerPlain(t, q) \/ AnswerRefused(t, q) \/ AnswerGone(t, q)
RefreshStep(t) ==
    \/ LookAtLock(t) \/ WriteLock(t) \/ ReadBack(t) \/ CheckStored(t)
    \/ RefreshLookup(t) \/ RefreshConsume(t) \/ RefreshIssue(t)
    \/ RefreshGranted(t) \/ CheckOwner(t) \/ Unlock(t)
    \/ WaitTimesOut(t) \/ Resume(t)
UserStep(t) == Logout(t) \/ Login(t) \/ Reload(t)

Next ==
    \/ \E t \in Tab, q \in Req : SendRequest(t, q) \/ Answer(t, q)
    \/ \E t \in Tab :
            \/ RefreshStep(t) \/ WatchStored(t) \/ WatchLock(t)
            \/ RefreshLost(t) \/ LossNoticed(t)
            \/ UserStep(t)
    \/ LockRunsOut
    \/ ServerSide

\* What goes on by itself: the requests are answered, for their client gives
\* up after 12 s; a tab's turn goes on, the server finishes the refresh it
\* began and the promise is settled; a wait is over after 12 s at the latest.
\* The refresh call has no timeout: nothing makes a lost one end.  Nobody has
\* to send, log in, reload or fail.
Fairness ==
    /\ \A t \in Tab : WF_vars(RefreshStep(t))
    /\ \A t \in Tab, q \in Req : WF_vars(Answer(t, q))

Spec == Init /\ [][Next]_vars
FairSpec == Spec /\ Fairness

------------------------------------------------------------------------------
(* Properties.                                                               *)

Undisturbed == trouble = {}

\* The lock does what client.js says it is for, as far as it can: while no
\* answer is lost or late, no page is reloaded in the middle of a refresh and
\* no two tabs cross at localStorage, two tabs never present the same refresh
\* token, so the server never sees a revoked one.  Tabs that look at the lock
\* together are no exception as long as both have written before one reads.
RotationIsNotReuse ==
    Undisturbed => \A t \in Tab :
        /\ refresh[t].pc = "asked"
            => token[refresh[t].old].state = "live"
        /\ refresh[t].pc \in {"asked", "found", "spent", "granted"}
            => \A u \in Tab \ {t} : refresh[u].pc \notin Calling

\* An undisturbed browser keeps its session: a tab never throws away the pair
\* that another tab is renewing or has just renewed.  What is stored is the
\* newest pair of the session, whichever tab wrote last, unless a refresh has
\* been granted and not yet written.
SessionKept ==
    Undisturbed =>
        /\ stored # 0
        /\ (\A t \in Tab : refresh[t].pc # "granted") => stored = Newest

\* Every request is answered or fails, whatever is lost, late or reloaded, in
\* this tab or in another that has the lock: no request waits for ever behind
\* a refresh, unless its own tab's refresh call is lost for good.
RequestsSettle ==
    \A t \in Tab, q \in Req :
        []<>(refresh[t].pc # "lost")
            => ((req[t][q].pc # "idle") ~> (req[t][q].pc = "idle"))
==============================================================================
