--------------------------- MODULE CourierSession ----------------------------
(* The courier app's session: src/api/client.js, src/store/authStore.js and  *)
(* the screens that log in, log out and start the app.  SecureStore keeps    *)
(* the two tokens as two items, each read and written by an await of its     *)
(* own; JavaScript between two awaits is one step.  The server is            *)
(* RefreshTokens.                                                            *)
EXTENDS RefreshTokens, FiniteSets

CONSTANTS
    Req,        \* the requests the screens may have under way
    Me,         \* the request of rehydrate for the courier's own record
    MaxTrouble  \* bound: how many things go wrong in a behaviour

VARIABLES
    kept,       \* SecureStore: the access token and the refresh token
    store,      \* zustand: isAuthenticated
    screen,     \* "splash", "login", "home"
    refreshing, \* isRefreshing
    queue,      \* the requests in queue, awaiting the refresh
    job,        \* the interceptor call that refreshes
    req,        \* req[q]: a request
    chore,      \* what rehydrate, login or logout awaits
    trouble

clientVars == <<kept, store, screen>>
vars == <<serverVars, clientVars, refreshing, queue, job, req, chore, trouble>>

\* starting: the request interceptor awaits the stored token.
Request == [pc : {"idle", "starting", "sent", "queued", "leading"},
            acc : TokenOrNone, retry : BOOLEAN]
NoRequest == [pc |-> "idle", acc |-> 0, retry |-> FALSE]
Starting(retry) == [pc |-> "starting", acc |-> 0, retry |-> retry]

Call == Req \cup {Me}

\* reading: the stored refresh token is awaited; lost: the call or its answer
\* will not arrive; half: the access token is written, the refresh token not.
Job == [pc : {"none", "reading", "asked", "found", "spent", "granted", "lost",
              "half", "failed", "drop", "dropped"}, tok : TokenOrNone]
NoJob == [pc |-> "none", tok |-> 0]

Chores == {"none", "me", "told", "expel", "expelled", "save", "saved",
           "check", "logout", "wipe", "wiped"}

\* lost: a refresh call or its answer; killed: the app, while tokens are
\* renewed or written; failed: a statement of the refresh at the server; left:
\* the session ended on purpose.
Troubles == {"lost", "killed", "failed", "left"}
MayMeet(x) == x \in trouble \/ Cardinality(trouble) < MaxTrouble
Meets(x) == MayMeet(x) /\ trouble' = trouble \cup {x}

TypeOK ==
    /\ TokensTypeOK
    /\ kept \in [acc : TokenOrNone, ref : TokenOrNone]
    /\ store \in BOOLEAN
    /\ screen \in {"splash", "login", "home"}
    /\ refreshing \in BOOLEAN
    /\ queue \subseteq Call
    /\ job \in Job
    /\ req \in [Call -> Request]
    /\ chore \in [at : Chores, tok : TokenOrNone]
    /\ trouble \subseteq Troubles

NoChore == [at |-> "none", tok |-> 0]
At(c, n) == chore' = [at |-> c, tok |-> n]

Init ==
    /\ TokensInit
    /\ kept = [acc |-> 1, ref |-> 1]
    /\ store = TRUE
    /\ screen = "home"
    /\ refreshing = FALSE
    /\ queue = {}
    /\ job = NoJob
    /\ req = [q \in Call |-> NoRequest]
    /\ chore = NoChore
    /\ trouble = {}

------------------------------------------------------------------------------
(* Requests.                                                                 *)

SendRequest(q) ==
    /\ screen = "home" /\ req[q].pc = "idle"
    /\ req' = [req EXCEPT ![q] = Starting(FALSE)]
    /\ UNCHANGED <<serverVars, clientVars, refreshing, queue, job, chore,
                   trouble>>

\* The request interceptor has the stored access token, if there is one.
AttachToken(q) ==
    /\ req[q].pc = "starting"
    /\ req' = [req EXCEPT ![q].pc = "sent", ![q].acc = kept.acc]
    /\ UNCHANGED <<serverVars, clientVars, refreshing, queue, job, chore,
                   trouble>>

\* What the end of a request means to rehydrate when it is the one it awaits.
Told(S, refusals) ==
    IF Me \in S
    THEN \/ At("told", 0)
         \/ refusals /\ At("expel", 0)
    ELSE UNCHANGED chore

\* Success, a network error, an error that is no 401, or a 401 of a retry.
AnswerPlain(q) ==
    /\ req[q].pc = "sent"
    /\ req' = [req EXCEPT ![q] = NoRequest]
    /\ Told({q}, \/ Verdict(req[q].acc) = "403"
                 \/ Verdict(req[q].acc) = "401" /\ req[q].retry)
    /\ UNCHANGED <<serverVars, clientVars, refreshing, queue, job, trouble>>

\* A first 401 while another request refreshes: queue behind it.  The request
\* does not get _retry.
AnswerQueued(q) ==
    /\ req[q].pc = "sent" /\ ~req[q].retry
    /\ Verdict(req[q].acc) = "401"
    /\ refreshing
    /\ queue' = queue \cup {q}
    /\ req' = [req EXCEPT ![q].pc = "queued", ![q].acc = 0]
    /\ UNCHANGED <<serverVars, clientVars, refreshing, job, chore, trouble>>

\* mutant: a second 401 starts a refresh of its own.
AnswerAlwaysLeads(q) ==
    /\ req[q].pc = "sent" /\ ~req[q].retry
    /\ Verdict(req[q].acc) = "401"
    /\ refreshing' = TRUE
    /\ req' = [req EXCEPT ![q] = [pc |-> "leading", acc |-> 0,
                                  retry |-> TRUE]]
    /\ job' = [pc |-> "reading", tok |-> 0]
    /\ UNCHANGED <<serverVars, clientVars, queue, chore, trouble>>

\* A first 401 otherwise: this request refreshes.  It awaits the stored refresh
\* token.
AnswerLeads(q) ==
    /\ req[q].pc = "sent" /\ ~req[q].retry
    /\ Verdict(req[q].acc) = "401"
    /\ ~refreshing
    /\ refreshing' = TRUE
    /\ req' = [req EXCEPT ![q] = [pc |-> "leading", acc |-> 0,
                                  retry |-> TRUE]]
    /\ job' = [pc |-> "reading", tok |-> 0]
    /\ UNCHANGED <<serverVars, clientVars, queue, chore, trouble>>

------------------------------------------------------------------------------
(* The refresh: the server's statements, then the app's awaits.              *)

JobAt(pc) == job' = [job EXCEPT !.pc = pc]
JobEnds(pc) == job' = [pc |-> pc, tok |-> 0]
JobFails == JobEnds("failed")

\* The refresh token as it is stored by now; without one it fails at once.
ReadToken ==
    /\ job.pc = "reading"
    /\ \/ kept.ref = 0 /\ JobFails
       \/ kept.ref # 0 /\ job' = [pc |-> "asked", tok |-> kept.ref]
    /\ UNCHANGED <<serverVars, clientVars, refreshing, queue, req, chore,
                   trouble>>

\* The server refuses; the refusal may be lost on its way like any answer.
Refused ==
    \/ JobFails /\ UNCHANGED trouble
    \/ JobEnds("lost") /\ Meets("lost")

RefreshLookup ==
    /\ job.pc = "asked"
    /\ \/ /\ token[job.tok].state = "live"
          /\ JobAt("found")
          /\ UNCHANGED <<serverVars, trouble>>
       \/ RefuseReuse(job.tok) /\ Refused
       \/ RefuseExpired(job.tok) /\ JobFails /\ Meets("left")
    /\ UNCHANGED <<clientVars, refreshing, queue, req, chore>>

RefreshConsume ==
    /\ job.pc = "found"
    /\ Consume(job.tok)
    /\ JobAt("spent")
    /\ UNCHANGED <<clientVars, refreshing, queue, req, chore, trouble>>

RefreshIssue ==
    /\ job.pc = "spent"
    /\ \/ /\ Rotate(job.tok)
          /\ job' = [pc |-> "granted", tok |-> NextId]
          /\ UNCHANGED trouble
       \/ RefuseInactive(job.tok) /\ Refused
       \/ /\ MayMeet("failed") \/ Unissued = {}
          /\ trouble' = trouble \cup {"failed"}
          /\ JobFails
          /\ UNCHANGED serverVars
    /\ UNCHANGED <<clientVars, refreshing, queue, req, chore>>

\* The call or its answer is lost on the way.  It is a bare axios.post without
\* the client's timeout: the app may notice, as an error, or wait for ever.
RefreshLost ==
    /\ job.pc \in {"asked", "granted"}
    /\ JobEnds("lost")
    /\ Meets("lost")
    /\ UNCHANGED <<serverVars, clientVars, refreshing, queue, req, chore>>

LossNoticed ==
    /\ job.pc = "lost"
    /\ JobFails
    /\ UNCHANGED <<serverVars, clientVars, refreshing, queue, req, chore,
                   trouble>>

\* The access token is written, then the refresh token.
SaveAccess ==
    /\ job.pc = "granted"
    /\ kept' = [kept EXCEPT !.acc = job.tok]
    /\ JobAt("half")
    /\ UNCHANGED <<serverVars, store, screen, refreshing, queue, req, chore,
                   trouble>>

\* With both written the queue is resolved, the leader is sent again and the
\* flag is lowered, all before the next await.
Leading == {q \in Call : req[q].pc = "leading"}

SaveRefresh ==
    /\ job.pc = "half"
    /\ kept' = [kept EXCEPT !.ref = job.tok]
    /\ req' = [q \in Call |->
                 IF q \in Leading THEN Starting(TRUE)
                 ELSE IF q \in queue THEN Starting(FALSE) ELSE req[q]]
    /\ queue' = {}
    /\ refreshing' = FALSE
    /\ job' = NoJob
    /\ UNCHANGED <<serverVars, store, screen, chore, trouble>>

\* mutant: the queue is left to itself.
QueueForgotten ==
    /\ job.pc = "failed"
    /\ JobAt("drop")
    /\ UNCHANGED <<serverVars, clientVars, refreshing, queue, req, chore,
                   trouble>>

\* The refresh failed: the queue is rejected first, then each token is
\* deleted by an await of its own, and only then the flag is lowered.
RejectQueue ==
    /\ job.pc = "failed"
    /\ req' = [q \in Call |-> IF q \in queue THEN NoRequest ELSE req[q]]
    /\ queue' = {}
    /\ JobAt("drop")
    /\ UNCHANGED <<serverVars, clientVars, refreshing, chore, trouble>>

DropAccess ==
    /\ job.pc = "drop"
    /\ kept' = [kept EXCEPT !.acc = 0]
    /\ JobAt("dropped")
    /\ UNCHANGED <<serverVars, store, screen, refreshing, queue, req, chore,
                   trouble>>

DropRefresh ==
    /\ job.pc = "dropped"
    /\ kept' = [kept EXCEPT !.ref = 0]
    /\ store' = FALSE
    /\ screen' = "login"
    /\ req' = [q \in Call |-> IF q \in Leading THEN NoRequest ELSE req[q]]
    /\ Told(Leading, TRUE)
    /\ refreshing' = FALSE
    /\ job' = NoJob
    /\ UNCHANGED <<serverVars, queue, trouble>>

------------------------------------------------------------------------------
(* Starting the app, logging in, logging out.                                *)

\* The app is killed: SecureStore is all that stays.
Kill ==
    /\ screen' = "splash"
    /\ store' = FALSE
    /\ refreshing' = FALSE
    /\ queue' = {}
    /\ job' = NoJob
    /\ req' = [q \in Call |-> NoRequest]
    /\ chore' = NoChore
    /\ IF job.pc # "none" \/ chore.at # "none" THEN Meets("killed")
                                              ELSE UNCHANGED trouble
    /\ UNCHANGED <<serverVars, kept>>

\* rehydrate: with both tokens the courier is taken for signed in while the
\* own record is fetched; otherwise the login screen shows.
Rehydrate ==
    /\ screen = "splash" /\ chore.at = "none"
    /\ IF kept.acc # 0 /\ kept.ref # 0
       THEN /\ store' = TRUE
            /\ req' = [req EXCEPT ![Me] = Starting(FALSE)]
            /\ At("me", 0)
            /\ UNCHANGED screen
       ELSE screen' = "login" /\ UNCHANGED <<store, req, chore>>
    /\ UNCHANGED <<serverVars, kept, refreshing, queue, job, trouble>>

\* The record came, or the error was neither 401 nor 403: the app opens unless
\* the interceptor has signed the courier out meanwhile.
EnterApp ==
    /\ chore.at = "told"
    /\ screen' = IF store THEN "home" ELSE "login"
    /\ chore' = NoChore
    /\ UNCHANGED <<serverVars, kept, store, refreshing, queue, job, req,
                   trouble>>

\* logout of the store, and the same steps after a refused rehydrate: delete,
\* delete, sign out, show the login screen.
WipeAccess ==
    /\ chore.at \in {"expel", "wipe"}
    /\ kept' = [kept EXCEPT !.acc = 0]
    /\ At(IF chore.at = "wipe" THEN "wiped" ELSE "expelled", 0)
    /\ UNCHANGED <<serverVars, store, screen, refreshing, queue, job, req,
                   trouble>>

WipeRefresh ==
    /\ chore.at \in {"expelled", "wiped"}
    /\ kept' = [kept EXCEPT !.ref = 0]
    /\ store' = FALSE
    /\ screen' = "login"
    /\ chore' = NoChore
    /\ UNCHANGED <<serverVars, refreshing, queue, job, req, trouble>>

\* The profile screen: the server is told and answers or not, then the store
\* logs out.  A 401 of an /auth/ endpoint is not refreshed.
AskLogout ==
    /\ screen = "home" /\ chore.at = "none"
    /\ Meets("left")
    /\ At("logout", 0)
    /\ UNCHANGED <<serverVars, clientVars, refreshing, queue, job, req>>

LogoutAnswer ==
    /\ chore.at = "logout"
    /\ \/ Verdict(kept.acc) \in {"200", "403"} /\ RevokeAll
       \/ UNCHANGED serverVars
    /\ At("wipe", 0)
    /\ UNCHANGED <<clientVars, refreshing, queue, job, req, trouble>>

\* The login screen: the pair is written item by item, then the courier is
\* signed in and the own record is fetched.
AskLogin ==
    /\ screen = "login" /\ chore.at = "none"
    /\ LoginIssue
    /\ At("save", NextId)
    /\ UNCHANGED <<clientVars, refreshing, queue, job, req, trouble>>

LoginSaveAccess ==
    /\ chore.at = "save"
    /\ kept' = [kept EXCEPT !.acc = chore.tok]
    /\ At("saved", chore.tok)
    /\ UNCHANGED <<serverVars, store, screen, refreshing, queue, job, req,
                   trouble>>

LoginSaveRefresh ==
    /\ chore.at = "saved"
    /\ kept' = [kept EXCEPT !.ref = chore.tok]
    /\ store' = TRUE
    /\ At("check", 0)
    /\ UNCHANGED <<serverVars, screen, refreshing, queue, job, req, trouble>>

\* The record is a courier's and the app opens; or it is not, or it did not
\* come, and the login screen stays, with the tokens kept.
LoginCheck ==
    /\ chore.at = "check"
    /\ screen' \in {"home", "login"}
    /\ chore' = NoChore
    /\ UNCHANGED <<serverVars, kept, store, refreshing, queue, job, req,
                   trouble>>

\* An access token lives fifteen minutes, a request ten seconds at most: the
\* token a refresh has fetched does not expire under the retry it is for.
Retrying(q) == req[q].retry /\ req[q].pc \in {"starting", "sent"}

ServerSide ==
    /\ \/ /\ job.pc \notin {"granted", "half"}
          /\ ~\E q \in Call : Retrying(q)
          /\ AccessExpires /\ UNCHANGED trouble
       \/ Deactivate /\ Meets("left")
       \/ ChangeRole /\ Meets("left")
    /\ UNCHANGED <<clientVars, refreshing, queue, job, req, chore>>

Answer(q) == AnswerPlain(q) \/ AnswerQueued(q) \/ AnswerLeads(q)
JobStep ==
    \/ ReadToken \/ RefreshLookup \/ RefreshConsume \/ RefreshIssue
    \/ SaveAccess \/ SaveRefresh \/ RejectQueue \/ DropAccess \/ DropRefresh
ChoreStep ==
    \/ Rehydrate \/ EnterApp \/ WipeAccess \/ WipeRefresh
    \/ LogoutAnswer \/ LoginSaveAccess \/ LoginSaveRefresh \/ LoginCheck

Next ==
    \/ \E q \in Req : SendRequest(q)
    \/ \E q \in Call : AttachToken(q) \/ Answer(q)
    \/ JobStep \/ RefreshLost \/ LossNoticed
    \/ ChoreStep \/ AskLogin \/ AskLogout
    \/ Kill \/ ServerSide

\* What goes on by itself: awaits of SecureStore end, requests are answered or
\* given up after their 10 s, the server finishes the refresh it began.  The
\* refresh call has no timeout: nothing makes a lost one end.  Nobody has to
\* open the app, log in, log out or kill it.
Fairness ==
    /\ WF_vars(JobStep)
    /\ WF_vars(ChoreStep)
    /\ \A q \in Call : WF_vars(AttachToken(q)) /\ WF_vars(Answer(q))

Spec == Init /\ [][Next]_vars
FairSpec == Spec /\ Fairness

------------------------------------------------------------------------------
(* Properties.                                                               *)

Undisturbed == trouble = {}

\* An undisturbed app keeps its session: whatever requests expire together and
\* in whatever order their 401s come, the courier is not thrown out.  The two
\* items of SecureStore belong to one rotation, the newest, unless a refresh
\* is being written: a refresh token that was spent is never left behind for
\* the next refresh to present.
SessionKept ==
    Undisturbed =>
        /\ kept.ref # 0 /\ screen # "login"
        /\ job.pc \notin {"granted", "half"}
            => kept = [acc |-> Newest, ref |-> Newest]

\* A request that queues while the refresh is still being made is resumed or
\* rejected when it ends: nothing but a refresh call lost for good, which has
\* no timeout, keeps it waiting.
QueuedIsServed ==
    []<>(job.pc # "lost") =>
        \A q \in Call :
            (q \in queue /\ job.pc \notin {"none", "drop", "dropped"})
                ~> (req[q].pc # "queued")
==============================================================================
