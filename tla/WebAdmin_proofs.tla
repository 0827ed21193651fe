--------------------------- MODULE WebAdmin_proofs ---------------------------
(***************************************************************************)
(* TLAPS proofs about the web admin: WebSession, for any number of tabs, of*)
(* requests in them and of pairs issued, as long as no answer is lost or   *)
(* late, no tab is reloaded in the middle of a refresh, no two tabs cross  *)
(* at localStorage and nobody ends the session; ListPage, for any filters  *)
(* and any number of pages; Period, for any days and any month; the order  *)
(* forms (MCOrderForms), for any number of orders, uploads, customers and  *)
(* edits; and the dialogs with the lists behind them (MCWebDesk), for every*)
(* dialog and list of the code and any number of openings, of things typed *)
(* and of submissions.                                                     *)
(***************************************************************************)
EXTENDS WebSession, ListPage, Period, MCOrderForms, MCWebDesk,
        FiniteSetTheorems, TLAPS

------------------------------------------------------------------------------
(* The session                                                             *)

\* The pairs 1 .. k were issued.
Upto(k) == \A n \in Token : token[n].state = "unissued" <=> n > k

SessionTyped ==
    /\ TokensTypeOK
    /\ refresh \in [Tab -> Refresh]
    /\ lock.owner \in Tab \cup {NoTab} /\ lock.over = FALSE

\* The session is open everywhere, with a stored pair and an active account.
OpenHere ==
    /\ stored \in Token /\ account = "active"
    /\ open = [t \in Tab |-> TRUE]

\* From having read the lock back to giving it back; waiting for another tab;
\* having a pair renewed; having one that the stored pair is not yet.
Through == {"checking", "asked", "found", "spent", "granted", "leaving",
            "unlocking"}
Awaits == {"waiting", "watching"}
RenewPlaces == {"reading", "checking"} \cup Calling
Amid == {"spent", "granted"}

\* Who is through holds the lock and nobody is about to write over it; who has
\* the lock is through or reads it back; who waits for a pair to be replaced
\* waits for a tab that is about to replace that very pair; who looks at the
\* lock between two sleeps finds it taken.
Locked ==
    /\ \A t \in Tab : refresh[t].pc \in Through => lock.owner = t
    /\ \A t \in Tab : lock.owner = t
            => refresh[t].pc \in Through \cup {"reading"}
    /\ \A t, u \in Tab : refresh[t].pc \in Through
            => refresh[u].pc # "writing"
    /\ \A t \in Tab : refresh[t].pc \in Awaits /\ refresh[t].old = stored
            => /\ lock.owner \in Tab
               /\ refresh[lock.owner].pc \in RenewPlaces
               /\ refresh[lock.owner].old = stored
    /\ \A t \in Tab : refresh[t].pc = "watching" => lock.owner # NoTab

\* Where a tab's refresh is: what it presents is the stored pair, and the last
\* one until it is renewed; who is done has a pair.
TabOK(t, k) ==
    LET r == refresh[t]
    IN  /\ r.old <= stored
        /\ r.pc \in {"asked", "found"} \cup Amid => r.old = stored
        /\ r.pc = "spent" => stored = k
        /\ r.pc = "granted"
            => r.new = k /\ stored < k /\ token[k].state = "live"
        /\ r.pc \in {"leaving", "unlocking", "done"} => r.new # 0
        /\ r.pc \notin {"failed", "lost"}

\* Unless a refresh is amid its work the stored pair is the last and live.
Settles(k) ==
    (\A t \in Tab : refresh[t].pc \notin Amid)
        => stored = k /\ token[k].state = "live"

U(k) == SessionTyped /\ Upto(k) /\ OpenHere /\ Locked /\ Settles(k)
    /\ \A t \in Tab : TabOK(t, k)

IInv == Undisturbed => \E k \in Token : U(k)

------------------------------------------------------------------------------
\* The next pair to be issued is the one after the last, which is Newest.
LEMMA NextAfter ==
    ASSUME NEW k \in Token, Upto(k)
    PROVE  /\ Newest = k
           /\ Unissued # {} => NextId = k + 1 /\ k + 1 \in Token
<1> USE MaxTokenAssumption DEF Token
<1>1. Unissued = {n \in Token : n > k}
  BY DEF Upto, Unissued
<1>2. CASE k = MaxToken
  <2>1. Unissued = {}
    BY <1>1, <1>2
  <2>2. QED
    BY <1>2, <2>1 DEF Newest
<1>3. CASE k # MaxToken
  <2>1. k + 1 \in Unissued /\ \A n \in Unissued : k + 1 <= n
    BY <1>1, <1>3
  <2>2. NextId \in Unissued /\ \A n \in Unissued : NextId <= n
    BY <2>1 DEF NextId
  <2>3. NextId \in Nat
    BY <1>1, <2>2
  <2>4. NextId = k + 1
    BY <2>1, <2>2, <2>3, <1>1
  <2>5. Unissued # {}
    BY <2>1
  <2>6. QED
    BY <2>1, <2>4, <2>5, <1>3, <1>1 DEF Newest
<1>4. QED
  BY <1>2, <1>3

\* A tab without a refresh.
LEMMA NoRefreshTyped ==
    /\ NoRefresh \in Refresh /\ NoRefresh.pc = "none"
    /\ NoRefresh.old = 0 /\ NoRefresh.new = 0
BY MaxTokenAssumption DEF NoRefresh, Refresh, TokenOrNone

\* One tab is through at most; while it has not consumed what it presents, or
\* has written what it was granted, the stored pair is the last and live.
LEMMA OneThrough ==
    ASSUME NEW k \in Token, U(k), NEW t \in Tab, refresh[t].pc \in Through
    PROVE  /\ \A u \in Tab : u # t => refresh[u].pc \notin Through
           /\ lock.owner = t
           /\ refresh[t].pc \notin Amid
                => stored = k /\ token[k].state = "live"
<1>1. lock.owner = t /\ \A u \in Tab : u # t => refresh[u].pc \notin Through
  BY DEF U, Locked
<1>2. \A u \in Tab : u # t => refresh[u].pc \notin Amid
  BY <1>1 DEF Through, Amid
<1>3. QED
  BY <1>1, <1>2 DEF U, Settles

\* The invariant is stronger than both properties.
LEMMA InvImplies == IInv => RotationIsNotReuse /\ SessionKept
<1> SUFFICES ASSUME IInv, Undisturbed PROVE RotationIsNotReuse /\ SessionKept
  BY DEF RotationIsNotReuse, SessionKept
<1>1. PICK k \in Token : U(k)
  BY DEF IInv
<1>2. Newest = k
  BY <1>1, NextAfter DEF U
<1>3. RotationIsNotReuse
  <2>1. ASSUME NEW t \in Tab, refresh[t].pc = "asked"
        PROVE  token[refresh[t].old].state = "live"
    <3>1. refresh[t].pc \in Through /\ refresh[t].pc \notin Amid
      BY <2>1 DEF Through, Amid
    <3>2. stored = k /\ token[k].state = "live" /\ refresh[t].old = stored
      BY <1>1, <2>1, <3>1, OneThrough DEF U, TabOK
    <3>3. QED
      BY <3>2
  <2>2. ASSUME NEW t \in Tab, NEW u \in Tab \ {t},
               refresh[t].pc \in {"asked", "found", "spent", "granted"}
        PROVE  refresh[u].pc \notin Calling
    <3>1. refresh[t].pc \in Through
      BY <2>2 DEF Through
    <3>2. refresh[u].pc \notin Through
      BY <1>1, <3>1, OneThrough
    <3>3. refresh[u].pc \notin {"failed", "lost"}
      BY <1>1 DEF U, TabOK
    <3>4. QED
      BY <3>2, <3>3 DEF Through, Calling
  <2>3. QED
    BY <2>1, <2>2 DEF RotationIsNotReuse
<1>4. stored # 0
  BY <1>1 DEF U, OpenHere, Token
<1>5. ASSUME \A t \in Tab : refresh[t].pc # "granted" PROVE stored = k
  <2>1. CASE \A t \in Tab : refresh[t].pc \notin Amid
    BY <1>1, <2>1 DEF U, Settles
  <2>2. CASE \E t \in Tab : refresh[t].pc = "spent"
    BY <1>1, <2>2 DEF U, TabOK
  <2>3. QED
    BY <1>5, <2>1, <2>2 DEF Amid
<1>6. QED
  BY <1>2, <1>3, <1>4, <1>5 DEF SessionKept

------------------------------------------------------------------------------
\* Where a tab's refresh may get to, as r, while the lock, the stored pair and
\* the tokens stay as they are.
May(t, r) ==
    /\ r.pc \notin Amid
    /\ r.pc \in Through => lock.owner = t
    /\ lock.owner = t => r.pc \in Through \cup {"reading"}
    /\ r.pc \in Through => \A u \in Tab : u # t => refresh[u].pc # "writing"
    /\ r.pc = "writing" => lock.owner = NoTab
    \* who waits for this tab may go on waiting for it
    /\ \A u \in Tab : /\ u # t /\ lock.owner = t
                      /\ refresh[u].pc \in Awaits
                      /\ refresh[u].old = stored
            => r.pc \in RenewPlaces /\ r.old = refresh[t].old
    /\ r.pc \in Awaits /\ r.old = stored
            => /\ lock.owner \in Tab /\ lock.owner # t
               /\ refresh[lock.owner].pc \in RenewPlaces
               /\ refresh[lock.owner].old = stored
    /\ r.pc = "watching" => lock.owner # NoTab
    /\ r.old <= stored
    /\ r.pc \in {"asked", "found"} => r.old = stored
    /\ r.pc \in {"leaving", "unlocking", "done"} => r.new # 0
    /\ r.pc \notin {"failed", "lost"}

\* Then everything goes on as it should.
LEMMA TabStep ==
    ASSUME NEW k \in Token, U(k), NEW t \in Tab, NEW r \in Refresh,
           refresh[t].pc \notin Amid, May(t, r),
           refresh' = [refresh EXCEPT ![t] = r],
           UNCHANGED <<token, account, role, stored, lock>>,
           open' = [u \in Tab |-> TRUE]
    PROVE  U(k)'
<1>1. refresh' \in [Tab -> Refresh]
      /\ \A u \in Tab : refresh'[u] = IF u = t THEN r ELSE refresh[u]
  BY DEF U, SessionTyped
<1>2. SessionTyped' /\ OpenHere' /\ Upto(k)'
  BY <1>1 DEF U, SessionTyped, OpenHere, Upto, TokensTypeOK
<1>3. \A u \in Tab : TabOK(u, k)'
  <2>1. TabOK(t, k)'
    BY <1>1 DEF May, TabOK, Amid
  <2>2. ASSUME NEW u \in Tab, u # t PROVE TabOK(u, k)'
    <3>1. TabOK(u, k) /\ refresh'[u] = refresh[u]
      BY <1>1, <2>2 DEF U
    <3>2. QED
      BY <3>1 DEF TabOK
  <2>3. QED
    BY <2>1, <2>2
<1>4. Settles(k)'
  BY <1>1 DEF May, U, Settles
<1>5. Locked'
  <2>1. \A u \in Tab : refresh'[u].pc \in Through => lock'.owner = u
    BY <1>1 DEF May, U, Locked
  <2>2. \A u \in Tab : lock'.owner = u
            => refresh'[u].pc \in Through \cup {"reading"}
    BY <1>1 DEF May, U, Locked
  <2>3. ASSUME NEW u \in Tab, NEW v \in Tab, refresh'[u].pc \in Through
        PROVE  refresh'[v].pc # "writing"
    <3>1. CASE v = t
      <4>1. SUFFICES ASSUME r.pc = "writing" PROVE FALSE
        BY <1>1, <3>1
      <4>2. lock.owner = NoTab /\ r.pc \notin Through
        BY <4>1 DEF May, Through
      <4>3. u # t /\ refresh[u].pc \in Through
        BY <1>1, <2>3, <4>2
      <4>4. QED
        BY <4>2, <4>3, LockAssumption DEF U, Locked
    <3>2. CASE v # t /\ u = t
      BY <1>1, <2>3, <3>2 DEF May
    <3>3. CASE v # t /\ u # t
      BY <1>1, <2>3, <3>3 DEF U, Locked
    <3>4. QED
      BY <3>1, <3>2, <3>3
  <2>4. ASSUME NEW u \in Tab, refresh'[u].pc \in Awaits,
               refresh'[u].old = stored'
        PROVE  /\ lock'.owner \in Tab
               /\ refresh'[lock'.owner].pc \in RenewPlaces
               /\ refresh'[lock'.owner].old = stored'
    <3>1. CASE u = t
      BY <1>1, <2>4, <3>1 DEF May
    <3>2. CASE u # t /\ lock.owner = t
      <4>1. refresh[u].pc \in Awaits /\ refresh[u].old = stored
        BY <1>1, <2>4, <3>2
      <4>2. refresh[lock.owner].old = stored
        BY <4>1 DEF U, Locked
      <4>3. r.pc \in RenewPlaces /\ r.old = refresh[t].old
        BY <3>2, <4>1 DEF May
      <4>4. QED
        BY <1>1, <3>2, <4>2, <4>3
    <3>3. CASE u # t /\ lock.owner # t
      BY <1>1, <2>4, <3>3 DEF U, Locked
    <3>4. QED
      BY <3>1, <3>2, <3>3
  <2>5. \A u \in Tab : refresh'[u].pc = "watching" => lock'.owner # NoTab
    BY <1>1 DEF May, U, Locked
  <2>6. QED
    BY <2>1, <2>2, <2>3, <2>4, <2>5 DEF Locked
<1>6. QED
  BY <1>2, <1>3, <1>4, <1>5 DEF U

\* What leaves the tokens, the lock, the stored pair and the refreshes alone.
LEMMA Rest ==
    ASSUME NEW k \in Token, U(k),
           UNCHANGED <<token, account, role, stored, lock, refresh>>,
           open' = [t \in Tab |-> TRUE]
    PROVE  U(k)'
<1>1. SessionTyped' /\ Upto(k)' /\ OpenHere'
  BY DEF U, SessionTyped, TokensTypeOK, Upto, OpenHere
<1>2. Locked' /\ Settles(k)' /\ \A t \in Tab : TabOK(t, k)'
  BY DEF U, Locked, Settles, TabOK
<1>3. QED
  BY <1>1, <1>2 DEF U

\* What is known of a tab and of what it may look at.
Facts(t) ==
    /\ refresh[t] \in Refresh /\ stored \in Token /\ stored # 0
    /\ stored \in TokenOrNone /\ 0 \in TokenOrNone
    /\ stored \in Nat /\ refresh[t].old \in Nat
    /\ refresh[t].old <= stored
    /\ open = [u \in Tab |-> TRUE] /\ NoTab \notin Tab
    /\ lock.owner \in Tab \cup {NoTab} /\ lock.over = FALSE
    /\ refresh \in [Tab -> Refresh]

LEMMA TabFacts ==
    ASSUME NEW k \in Token, U(k), NEW t \in Tab PROVE Facts(t)
<1>1. refresh[t] \in Refresh /\ stored \in Token
  BY DEF U, SessionTyped, OpenHere
<1>2. stored \in Nat /\ stored # 0 /\ refresh[t].old \in Nat
  BY <1>1, MaxTokenAssumption DEF Token, TokenOrNone, Refresh
<1>3. stored \in TokenOrNone /\ 0 \in TokenOrNone
  BY <1>1, MaxTokenAssumption DEF Token, TokenOrNone
<1>4. QED
  BY <1>1, <1>2, <1>3, LockAssumption DEF Facts, U, SessionTyped, OpenHere, TabOK

\* A step that only takes a tab's refresh to another place.
LEMMA PlaceStep ==
    ASSUME NEW t \in Tab, NEW p, refresh[t] \in Refresh,
           refresh' = [refresh EXCEPT ![t].pc = p],
           p \in {"none", "waiting"} \cup Turn \cup Calling
    PROVE  LET r == [refresh[t] EXCEPT !.pc = p]
           IN  /\ refresh' = [refresh EXCEPT ![t] = r] /\ r \in Refresh
               /\ r.pc = p /\ r.old = refresh[t].old /\ r.new = refresh[t].new
BY DEF Refresh

\* A tab that met a 401 or 403 and has no refresh starts one.
LEMMA StartStep ==
    ASSUME NEW k \in Token, U(k), NEW t \in Tab, refresh[t].pc = "none",
           refresh' = [refresh EXCEPT ![t] = Started(t)],
           UNCHANGED <<token, account, role, stored, lock, open>>
    PROVE  U(k)'
<1>0. Facts(t)
  BY TabFacts
<1> DEFINE r == Started(t)
<1>1. r = [pc |-> "locking", old |-> stored, new |-> 0]
  <2>1. stored # 0
    BY <1>0 DEF Facts
  <2>2. r = [NoRefresh EXCEPT !.pc = "locking", !.old = stored]
    BY <2>1, Zenon DEF Started
  <2>3. QED
    BY <2>2 DEF NoRefresh
<1>2. r \in Refresh
  BY <1>1, <1>0 DEF Facts, Refresh, Turn
<1>3. lock.owner # t
  BY DEF U, Locked, Through
<1>4. open' = [u \in Tab |-> TRUE] /\ stored <= stored
  BY <1>0 DEF Facts
<1>5. /\ r.pc = "locking" /\ r.old = stored
      /\ refresh' = [refresh EXCEPT ![t] = r]
  BY <1>1
<1> HIDE DEF r
<1>6. May(t, r)
  BY <1>2, <1>3, <1>4, <1>5
  DEF May, Amid, Through, Awaits
<1>7. QED
  BY <1>2, <1>3, <1>4, <1>5, <1>6, TabStep DEF Amid

\* It finds the lock free, or waits for the tab that has it.
LEMMA LookStep ==
    ASSUME NEW k \in Token, U(k), NEW t \in Tab, LookAtLock(t), trouble = {},
           trouble' = {}
    PROVE  U(k)'
<1>0. Facts(t)
  BY TabFacts
<1>1. /\ refresh[t].pc = "locking"
      /\ UNCHANGED <<token, account, role, stored, lock>>
      /\ open' = [u \in Tab |-> TRUE]
  BY <1>0 DEF Facts, LookAtLock, serverVars, tabVars
<1>2. lock.owner # t
  BY <1>1 DEF U, Locked, Through
<1>3. CASE FreeLock /\ Step(t, "writing")
  <2> DEFINE r == [refresh[t] EXCEPT !.pc = "writing"]
  <2>1. /\ refresh' = [refresh EXCEPT ![t] = r] /\ r \in Refresh
        /\ r.pc = "writing" /\ r.old = refresh[t].old
    BY <1>3, <1>0, PlaceStep DEF Facts, Step, Turn
  <2>2. lock.owner = NoTab
    BY <1>3, <1>0 DEF Facts, FreeLock
  <2> HIDE DEF r
  <2>3. May(t, r)
    BY <1>1, <1>2, <2>1, <2>2, <1>0
    DEF May, Facts, Amid, Through, Awaits
  <2>4. QED
    BY <1>1, <1>2, <2>1, <2>2, <1>0, <2>3, TabStep DEF Facts, Amid
<1>4. CASE Wait(t) /\ ~FreeLock
  <2> DEFINE r == [refresh[t] EXCEPT !.pc = "waiting"]
  <2>1. /\ refresh' = [refresh EXCEPT ![t] = r] /\ r \in Refresh
        /\ r.pc = "waiting" /\ r.old = refresh[t].old
    BY <1>4, <1>0, PlaceStep DEF Facts, Wait, Step
  <2>2. refresh[t].old = stored => SameRenewal(t)
    BY <1>4 DEF Wait, Notes
  <2> HIDE DEF r
  <2>3. May(t, r)
    BY <1>1, <1>2, <2>1, <2>2, <1>0
    DEF May, Facts, Amid, Through, Awaits, SameRenewal, RenewPlaces
  <2>4. QED
    BY <1>1, <1>2, <2>1, <2>2, <1>0, <2>3, TabStep DEF Facts, Amid
<1>5. QED
  BY <1>3, <1>4 DEF LookAtLock

\* It writes the lock, maybe over another that renews the same pair.
LEMMA WriteStep ==
    ASSUME NEW k \in Token, U(k), NEW t \in Tab, WriteLock(t), trouble = {},
           trouble' = {}
    PROVE  U(k)'
<1>0. Facts(t)
  BY TabFacts
<1> DEFINE r == [refresh[t] EXCEPT !.pc = "reading"]
<1>1. /\ refresh[t].pc = "writing"
      /\ UNCHANGED <<token, account, role, stored, open>>
      /\ lock' = [owner |-> t, over |-> FALSE]
      /\ lock'.owner = t /\ lock'.over = FALSE
  BY DEF WriteLock, serverVars, tabVars
<1>2. /\ refresh' = [refresh EXCEPT ![t] = r] /\ r \in Refresh
      /\ r.pc = "reading" /\ r.old = refresh[t].old
  BY <1>0, PlaceStep DEF Facts, WriteLock, Step, Turn
<1> HIDE DEF r
<1>3. /\ refresh' \in [Tab -> Refresh]
      /\ \A u \in Tab : refresh'[u] = IF u = t THEN r ELSE refresh[u]
  BY <1>2, <1>0 DEF Facts
<1>4. SessionTyped' /\ OpenHere' /\ Upto(k)'
  BY <1>1, <1>3 DEF U, SessionTyped, OpenHere, Upto, TokensTypeOK
<1>5. Settles(k)' /\ \A u \in Tab : TabOK(u, k)'
  <2>1. Settles(k)'
    BY <1>1, <1>2, <1>3 DEF U, Settles, Amid
  <2>2. TabOK(t, k)'
    BY <1>1, <1>2, <1>3 DEF U, TabOK, Amid
  <2>3. ASSUME NEW u \in Tab, u # t PROVE TabOK(u, k)'
    BY <1>1, <1>3, <2>3 DEF U, TabOK
  <2>4. QED
    BY <2>1, <2>2, <2>3
<1>6. \A u \in Tab : refresh[u].pc \notin Through
  BY <1>1 DEF U, Locked
<1>7. Locked'
  <2>1. \A u \in Tab : refresh'[u].pc \notin Through
    BY <1>2, <1>3, <1>6 DEF Through
  <2>2. \A u \in Tab : lock'.owner = u
            => refresh'[u].pc \in Through \cup {"reading"}
    BY <1>1, <1>2, <1>3
  <2>3. ASSUME NEW u \in Tab, refresh'[u].pc \in Awaits,
               refresh'[u].old = stored'
        PROVE  /\ lock'.owner \in Tab
               /\ refresh'[lock'.owner].pc \in RenewPlaces
               /\ refresh'[lock'.owner].old = stored'
    <3>1. u # t
      BY <1>2, <1>3, <2>3 DEF Awaits
    <3>2. lock.owner \in Tab /\ refresh[lock.owner].old = stored
      BY <1>1, <1>3, <2>3, <3>1 DEF U, Locked
    <3>3. refresh[t].old = stored
      BY <3>2 DEF WriteLock, Notes
    <3>4. QED
      BY <1>1, <1>2, <1>3, <3>3 DEF RenewPlaces
  <2>4. lock'.owner # NoTab
    BY <1>1, LockAssumption
  <2>5. QED
    BY <2>1, <2>2, <2>3, <2>4 DEF Locked
<1>8. QED
  BY <1>4, <1>5, <1>7 DEF U

\* It reads the lock back: it has it, or waits for the tab that wrote last.
LEMMA ReadBackStep ==
    ASSUME NEW k \in Token, U(k), NEW t \in Tab, ReadBack(t), trouble = {},
           trouble' = {}
    PROVE  U(k)'
<1>0. Facts(t)
  BY TabFacts
<1>1. /\ refresh[t].pc = "reading"
      /\ UNCHANGED <<token, account, role, stored, lock>>
      /\ open' = [u \in Tab |-> TRUE]
  BY <1>0 DEF Facts, ReadBack, serverVars, tabVars
<1>2. CASE lock.owner = t /\ Step(t, "checking")
  <2> DEFINE r == [refresh[t] EXCEPT !.pc = "checking"]
  <2>1. /\ refresh' = [refresh EXCEPT ![t] = r] /\ r \in Refresh
        /\ r.pc = "checking" /\ r.old = refresh[t].old
    BY <1>2, <1>0, PlaceStep DEF Facts, Step, Turn
  <2>2. \A u \in Tab : refresh[u].pc # "writing"
    BY <1>2 DEF ReadBack, Notes
  <2> HIDE DEF r
  <2>3. May(t, r)
    BY <1>1, <1>2, <2>1, <2>2, <1>0
    DEF May, Facts, Amid, Through, Awaits, RenewPlaces
  <2>4. QED
    BY <1>1, <1>2, <2>1, <2>2, <1>0, <2>3, TabStep DEF Facts, Amid
<1>3. CASE Wait(t) /\ lock.owner # t
  <2> DEFINE r == [refresh[t] EXCEPT !.pc = "waiting"]
  <2>1. /\ refresh' = [refresh EXCEPT ![t] = r] /\ r \in Refresh
        /\ r.pc = "waiting" /\ r.old = refresh[t].old
    BY <1>3, <1>0, PlaceStep DEF Facts, Wait, Step
  <2>2. refresh[t].old = stored => SameRenewal(t)
    BY <1>3 DEF Wait, Notes
  <2> HIDE DEF r
  <2>3. May(t, r)
    BY <1>1, <1>3, <2>1, <2>2, <1>0
    DEF May, Facts, Amid, Through, Awaits, SameRenewal, RenewPlaces
  <2>4. QED
    BY <1>1, <1>3, <2>1, <2>2, <1>0, <2>3, TabStep DEF Facts, Amid
<1>4. QED
  BY <1>2, <1>3 DEF ReadBack

\* With the lock it asks for the pair after the stored one, or has that.
LEMMA CheckStep ==
    ASSUME NEW k \in Token, U(k), NEW t \in Tab, CheckStored(t)
    PROVE  U(k)'
<1>0. Facts(t)
  BY TabFacts
<1>1. /\ refresh[t].pc = "checking"
      /\ UNCHANGED <<token, account, role, stored, lock>>
      /\ open' = [u \in Tab |-> TRUE]
  BY <1>0 DEF Facts, CheckStored, serverVars, tabVars
<1>2. lock.owner = t /\ refresh[t].pc \in Through
      /\ \A u \in Tab : refresh[u].pc # "writing"
  BY <1>1 DEF U, Locked, Through
<1>3. CASE stored = refresh[t].old
  <2> DEFINE r == [refresh[t] EXCEPT !.pc = "asked"]
  <2>1. refresh' = [refresh EXCEPT ![t].pc = "asked"]
    BY <1>3, <1>0 DEF Facts, CheckStored
  <2>2. /\ refresh' = [refresh EXCEPT ![t] = r] /\ r \in Refresh
        /\ r.pc = "asked" /\ r.old = refresh[t].old
    BY <2>1, <1>0, PlaceStep DEF Facts, Calling
  <2> HIDE DEF r
  <2>3. May(t, r)
    BY <1>1, <1>2, <1>3, <2>2, <1>0
    DEF May, Facts, Amid, Through, Awaits, RenewPlaces, Calling
  <2>4. QED
    BY <1>1, <1>2, <1>3, <2>2, <1>0, <2>3, TabStep DEF Facts, Amid
<1>4. CASE stored # refresh[t].old
  <2> DEFINE r == [pc |-> "leaving", old |-> 0, new |-> stored]
  <2>1. refresh' = [refresh EXCEPT ![t] = r]
    BY <1>4, <1>0 DEF Facts, CheckStored
  <2>2. r \in Refresh /\ r.pc = "leaving" /\ r.old = 0 /\ r.new = stored
    BY <1>0 DEF Facts, Refresh, Turn
  \* Nobody waits for the stored pair to be renewed by it.
  <2>3. \A u \in Tab : ~(refresh[u].pc \in Awaits /\ refresh[u].old = stored)
    BY <1>2, <1>4 DEF U, Locked
  <2>4. 0 <= stored
    BY <1>0 DEF Facts
  <2> HIDE DEF r
  <2>5. May(t, r)
    BY <1>1, <1>2, <2>1, <2>2, <2>3, <2>4, <1>0
    DEF May, Facts, Amid, Through, Awaits
  <2>6. QED
    BY <1>1, <1>2, <2>1, <2>2, <2>3, <2>4, <1>0, <2>5, TabStep DEF Facts, Amid
<1>5. QED
  BY <1>3, <1>4

\* The server finds the pair that is presented live.
LEMMA LookupStep ==
    ASSUME NEW k \in Token, U(k), NEW t \in Tab, RefreshLookup(t),
           trouble' = {}
    PROVE  U(k)'
<1>0. Facts(t)
  BY TabFacts
<1>1. /\ refresh[t].pc = "asked" /\ refresh[t].old = stored
      /\ refresh[t].pc \in Through /\ refresh[t].pc \notin Amid
  BY DEF RefreshLookup, U, TabOK, Through, Amid
<1>2. stored = k /\ token[k].state = "live" /\ lock.owner = t
  BY <1>1, OneThrough
<1>3. ~RefuseReuse(refresh[t].old)
  BY <1>1, <1>2 DEF RefuseReuse, Reused
<1>4. /\ Step(t, "found") /\ UNCHANGED serverVars
      /\ UNCHANGED <<stored, lock, tabVars>>
  BY <1>3, Zenon DEF RefreshLookup, Meets
<1>5. UNCHANGED <<token, account, role, stored, lock>>
      /\ open' = [u \in Tab |-> TRUE]
  BY <1>4, <1>0 DEF Facts, serverVars, tabVars
<1> DEFINE r == [refresh[t] EXCEPT !.pc = "found"]
<1>6. /\ refresh' = [refresh EXCEPT ![t] = r] /\ r \in Refresh
      /\ r.pc = "found" /\ r.old = refresh[t].old
  BY <1>4, <1>0, PlaceStep DEF Facts, Step, Calling
<1>7. \A u \in Tab : refresh[u].pc # "writing"
  BY <1>1 DEF U, Locked
<1> HIDE DEF r
<1>8. May(t, r)
  BY <1>1, <1>2, <1>5, <1>6, <1>7, <1>0
  DEF May, Facts, Amid, Through, Awaits, RenewPlaces, Calling
<1>9. QED
  BY <1>1, <1>2, <1>5, <1>6, <1>7, <1>0, <1>8, TabStep DEF Facts, Amid

\* The refresh or a wait is over, or its page is loaded anew.
LEMMA EndStep ==
    ASSUME NEW k \in Token, U(k), NEW t \in Tab, NEW r \in Refresh,
           refresh[t].pc \notin Through \cup {"reading"},
           refresh' = [refresh EXCEPT ![t] = r],
           r.pc \in {"none", "done"}, r.old = 0, r.pc = "done" => r.new # 0,
           UNCHANGED <<token, account, role, stored, lock>>,
           open' = [u \in Tab |-> TRUE]
    PROVE  U(k)'
<1>0. Facts(t)
  BY TabFacts
<1>1. lock.owner # t
  BY DEF U, Locked
<1>2. refresh[t].pc \notin Amid
  BY DEF Through, Amid
<1>3. 0 <= stored
  BY <1>0 DEF Facts
<1>4. May(t, r)
  BY <1>1, <1>3 DEF May, Amid, Through, Awaits
<1>5. QED
  BY <1>2, <1>4, TabStep

\* The pair that was presented is consumed: no other tab presents it.
LEMMA ConsumeStep ==
    ASSUME NEW k \in Token, U(k), NEW t \in Tab, RefreshConsume(t)
    PROVE  U(k)'
<1>0. Facts(t)
  BY TabFacts
<1> DEFINE r == [refresh[t] EXCEPT !.pc = "spent"]
<1>1. /\ refresh[t].pc = "found" /\ refresh[t].old = stored
      /\ refresh[t].pc \in Through /\ refresh[t].pc \notin Amid
  BY DEF RefreshConsume, U, TabOK, Through, Amid
<1>2. /\ stored = k /\ lock.owner = t
      /\ \A u \in Tab : u # t => refresh[u].pc \notin Through
  BY <1>1, OneThrough
<1>3. /\ UNCHANGED <<account, role, stored, lock, open>>
      /\ token' = [token EXCEPT ![k].state = "revoked"]
      /\ Step(t, "spent")
  BY <1>1, <1>2 DEF RefreshConsume, Consume, tabVars
<1>4. token[k].state = "live"
  BY <1>1, OneThrough
<1>5. /\ refresh' = [refresh EXCEPT ![t] = r] /\ r \in Refresh
      /\ r.pc = "spent" /\ r.old = refresh[t].old
  BY <1>0, <1>3, PlaceStep DEF Facts, Step, Calling
<1> HIDE DEF r
<1>6. /\ refresh' \in [Tab -> Refresh]
      /\ \A u \in Tab : refresh'[u] = IF u = t THEN r ELSE refresh[u]
  BY <1>0, <1>5 DEF Facts
<1>7. token' \in [Token -> TokenRow]
      /\ \A n \in Token : token'[n].state = "unissued"
                            <=> token[n].state = "unissued"
  BY <1>3, <1>4 DEF U, SessionTyped, TokensTypeOK, TokenRow
<1>8. SessionTyped' /\ Upto(k)' /\ OpenHere'
  BY <1>3, <1>6, <1>7 DEF U, SessionTyped, TokensTypeOK, Upto, OpenHere
<1>9. Settles(k)'
  BY <1>5, <1>6 DEF Settles, Amid
<1>10. \A u \in Tab : TabOK(u, k)'
  <2>1. TabOK(t, k)'
    BY <1>0, <1>1, <1>2, <1>3, <1>5, <1>6 DEF Facts, TabOK
  <2>2. ASSUME NEW u \in Tab, u # t PROVE TabOK(u, k)'
    BY <1>2, <1>3, <1>6, <2>2 DEF U, TabOK, Amid, Through
  <2>3. QED
    BY <2>1, <2>2
<1>11. Locked'
  BY <1>1, <1>2, <1>3, <1>5, <1>6
  DEF U, Locked, Through, RenewPlaces, Calling, Awaits
<1>12. QED
  BY <1>8, <1>9, <1>10, <1>11 DEF U

\* The next pair is issued; it is not stored yet.
LEMMA IssueStep ==
    ASSUME NEW k \in Token, U(k), NEW t \in Tab, RefreshIssue(t), trouble' = {}
    PROVE  k + 1 \in Token /\ U(k + 1)'
<1>0. Facts(t)
  BY TabFacts
<1> DEFINE j == k + 1
           r == [refresh[t] EXCEPT !.pc = "granted", !.new = j]
<1>1. /\ refresh[t].pc = "spent" /\ refresh[t].old = stored /\ stored = k
      /\ refresh[t].pc \in Through
  BY DEF RefreshIssue, U, TabOK, Through, Amid
<1>2. /\ lock.owner = t
      /\ \A u \in Tab : u # t => refresh[u].pc \notin Through
  BY <1>1, OneThrough
<1>3. account = "active"
  BY DEF U, OpenHere
<1>4. /\ Rotate(refresh[t].old)
      /\ refresh' = [refresh EXCEPT ![t].pc = "granted", ![t].new = NextId]
      /\ UNCHANGED <<stored, lock, open>>
  BY <1>3 DEF RefreshIssue, RefuseInactive, tabVars
<1>5. j \in Token /\ NextId = j
  BY <1>4, NextAfter DEF U, Rotate
<1>6. /\ token' = [token EXCEPT ![j] = Issued(j, token[k].family)]
      /\ UNCHANGED <<account, role>>
  BY <1>1, <1>4, <1>5 DEF Rotate
<1>7. Issued(j, token[k].family) \in TokenRow
      /\ Issued(j, token[k].family).state = "live"
  BY <1>5 DEF U, SessionTyped, TokensTypeOK, TokenRow, Issued,
       TokenOrNone, Token
<1>8. /\ token' \in [Token -> TokenRow] /\ token'[j].state = "live"
      /\ \A n \in Token : n # j => token'[n] = token[n]
  BY <1>5, <1>6, <1>7 DEF U, SessionTyped, TokensTypeOK
<1>9. TokensTypeOK' /\ Upto(j)'
  BY <1>5, <1>6, <1>8 DEF U, SessionTyped, TokensTypeOK, Upto, Token
<1>10. /\ refresh' = [refresh EXCEPT ![t] = r]
       /\ r.pc = "granted" /\ r.old = refresh[t].old /\ r.new = j
       /\ r \in Refresh
  <2>1. j \in TokenOrNone
    BY <1>5, MaxTokenAssumption DEF TokenOrNone, Token
  <2>2. QED
    BY <1>0, <1>4, <1>5, <2>1 DEF Facts, Refresh, Calling
<1>11. k \in Nat /\ k < j
  BY DEF Token
<1> HIDE DEF r
<1>12. /\ refresh' \in [Tab -> Refresh]
       /\ \A u \in Tab : refresh'[u] = IF u = t THEN r ELSE refresh[u]
  BY <1>0, <1>10 DEF Facts
<1>13. SessionTyped' /\ OpenHere'
  BY <1>4, <1>6, <1>9, <1>12 DEF U, SessionTyped, OpenHere
<1>14. Settles(j)'
  BY <1>10, <1>12 DEF Settles, Amid
<1>15. \A u \in Tab : TabOK(u, j)'
  <2>1. TabOK(t, j)'
    BY <1>0, <1>1, <1>4, <1>8, <1>10, <1>11, <1>12 DEF Facts, TabOK
  <2>2. ASSUME NEW u \in Tab, u # t PROVE TabOK(u, j)'
    BY <1>2, <1>4, <1>12, <2>2 DEF U, TabOK, Amid, Through
  <2>3. QED
    BY <2>1, <2>2
<1>16. Locked'
  BY <1>1, <1>2, <1>4, <1>10, <1>12
  DEF U, Locked, Through, RenewPlaces, Calling, Awaits
<1>17. QED
  BY <1>5, <1>9, <1>13, <1>14, <1>15, <1>16 DEF U

\* The new pair is stored: whoever waited for it waited with an older one.
LEMMA GrantedStep ==
    ASSUME NEW k \in Token, U(k), NEW t \in Tab, RefreshGranted(t)
    PROVE  U(k)'
<1>0. Facts(t)
  BY TabFacts
<1> DEFINE r == [refresh[t] EXCEPT !.pc = "leaving", !.old = 0]
<1>1. /\ refresh[t].pc = "granted" /\ refresh[t].new = k /\ stored < k
      /\ token[k].state = "live" /\ refresh[t].pc \in Through
  BY DEF RefreshGranted, U, TabOK, Through
<1>2. /\ lock.owner = t
      /\ \A u \in Tab : u # t => refresh[u].pc \notin Through
  BY <1>1, OneThrough
<1>3. /\ UNCHANGED <<token, account, role, lock>> /\ stored' = k
      /\ open' = [open EXCEPT ![t] = TRUE]
      /\ refresh' = [refresh EXCEPT ![t].pc = "leaving", ![t].old = 0]
  BY <1>1 DEF RefreshGranted, serverVars
<1>4. open' = [u \in Tab |-> TRUE]
  BY <1>0, <1>3 DEF Facts
<1>5. k \in Nat /\ k # 0 /\ 0 <= k
  BY MaxTokenAssumption DEF Token
<1>6. /\ refresh' = [refresh EXCEPT ![t] = r] /\ r \in Refresh
      /\ r.pc = "leaving" /\ r.old = 0 /\ r.new = k
  BY <1>0, <1>1, <1>3 DEF Facts, Refresh, Turn
<1> HIDE DEF r
<1>7. /\ refresh' \in [Tab -> Refresh]
      /\ \A u \in Tab : refresh'[u] = IF u = t THEN r ELSE refresh[u]
  BY <1>0, <1>6 DEF Facts
<1>8. SessionTyped' /\ Upto(k)' /\ OpenHere'
  BY <1>3, <1>4, <1>7 DEF U, SessionTyped, TokensTypeOK, Upto, OpenHere
<1>9. Settles(k)'
  BY <1>1, <1>3 DEF Settles
<1>10. \A u \in Tab : refresh[u].old \in Nat /\ refresh[u].old < k
  <2>1. ASSUME NEW u \in Tab PROVE refresh[u].old \in Nat
                                   /\ refresh[u].old <= stored
    BY TabFacts DEF Facts
  <2>2. QED
    BY <1>0, <1>1, <1>5, <2>1 DEF Facts
<1>11. \A u \in Tab : TabOK(u, k)'
  <2>1. TabOK(t, k)'
    <3>1. /\ refresh'[t].pc = "leaving" /\ refresh'[t].old = 0
          /\ refresh'[t].new # 0 /\ stored' = k
      BY <1>3, <1>5, <1>6, <1>7
    <3>2. QED
      BY <1>5, <3>1 DEF TabOK, Amid
  <2>2. ASSUME NEW u \in Tab, u # t PROVE TabOK(u, k)'
    <3>1. refresh'[u] = refresh[u] /\ TabOK(u, k)
          /\ refresh[u].pc \notin Through
      BY <1>2, <1>7, <2>2 DEF U
    <3>2. refresh[u].old <= k
      BY <1>10, <1>5
    <3>3. QED
      BY <1>3, <3>1, <3>2 DEF TabOK, Amid, Through
  <2>3. QED
    BY <2>1, <2>2
<1>12. Locked'
  <2>1. \A u \in Tab : refresh'[u].old # stored'
    BY <1>3, <1>6, <1>7, <1>10, <1>5
  <2>2. QED
    BY <1>1, <1>2, <1>3, <1>6, <1>7, <2>1 DEF U, Locked, Through, Awaits
<1>13. QED
  BY <1>8, <1>9, <1>11, <1>12 DEF U

\* It looks whether the lock is still its own: it is.
LEMMA CheckOwnerStep ==
    ASSUME NEW k \in Token, U(k), NEW t \in Tab, CheckOwner(t)
    PROVE  U(k)'
<1>0. Facts(t)
  BY TabFacts
<1>1. refresh[t].pc = "leaving" /\ refresh[t].new # 0
  BY DEF CheckOwner, U, TabOK
<1>2. /\ lock.owner = t /\ refresh[t].pc \in Through
      /\ \A u \in Tab : refresh[u].pc # "writing"
  BY <1>1 DEF U, Locked, Through
<1>3. /\ Step(t, "unlocking")
      /\ UNCHANGED <<token, account, role, stored, lock>>
      /\ open' = [u \in Tab |-> TRUE]
  BY <1>0, <1>2 DEF Facts, CheckOwner, serverVars, tabVars
<1> DEFINE r == [refresh[t] EXCEPT !.pc = "unlocking"]
<1>4. /\ refresh' = [refresh EXCEPT ![t] = r] /\ r \in Refresh
      /\ r.pc = "unlocking" /\ r.old = refresh[t].old /\ r.new # 0
  BY <1>0, <1>1, <1>3, PlaceStep DEF Facts, Step, Turn
<1> HIDE DEF r
\* Nobody waits for it to replace the stored pair.
<1>5. \A u \in Tab : ~(refresh[u].pc \in Awaits /\ refresh[u].old = stored)
  BY <1>1, <1>2 DEF U, Locked, RenewPlaces, Calling
<1>6. May(t, r)
  BY <1>0, <1>2, <1>4, <1>5 DEF May, Facts, Amid, Through, Awaits
<1>7. QED
  BY <1>1, <1>3, <1>4, <1>6, TabStep DEF Amid

\* It gives the lock back, when nobody is between two looks.
LEMMA UnlockStep ==
    ASSUME NEW k \in Token, U(k), NEW t \in Tab, Unlock(t), trouble = {},
           trouble' = {}
    PROVE  U(k)'
<1>0. Facts(t)
  BY TabFacts
<1> DEFINE r == [refresh[t] EXCEPT !.pc = "done"]
<1>1. /\ refresh[t].pc = "unlocking" /\ refresh[t].new # 0
      /\ refresh[t].pc \in Through
  BY DEF Unlock, U, TabOK, Through
<1>2. /\ lock.owner = t
      /\ \A u \in Tab : u # t => refresh[u].pc \notin Through
  BY <1>1, OneThrough
<1>3. /\ UNCHANGED <<token, account, role, stored, open>>
      /\ lock'.owner = NoTab /\ lock'.over = FALSE
      /\ Step(t, "done")
  BY DEF Unlock, NoLock, serverVars, tabVars
<1>4. /\ refresh' = [refresh EXCEPT ![t] = r] /\ r \in Refresh
      /\ r.pc = "done" /\ r.old = refresh[t].old /\ r.new # 0
  BY <1>0, <1>1, <1>3, PlaceStep DEF Facts, Step, Turn
<1> HIDE DEF r
<1>5. /\ refresh' \in [Tab -> Refresh]
      /\ \A u \in Tab : refresh'[u] = IF u = t THEN r ELSE refresh[u]
  BY <1>0, <1>4 DEF Facts
<1>6. SessionTyped' /\ Upto(k)' /\ OpenHere'
  BY <1>3, <1>5 DEF U, SessionTyped, TokensTypeOK, Upto, OpenHere
<1>7. stored = k /\ token[k].state = "live"
  BY <1>1, OneThrough DEF Amid
<1>8. Settles(k)'
  BY <1>3, <1>7 DEF Settles
<1>9. \A u \in Tab : TabOK(u, k)'
  <2>1. TabOK(t, k)'
    BY <1>0, <1>3, <1>4, <1>5 DEF Facts, TabOK, Amid
  <2>2. ASSUME NEW u \in Tab, u # t PROVE TabOK(u, k)'
    BY <1>3, <1>5, <2>2 DEF U, TabOK
  <2>3. QED
    BY <2>1, <2>2
<1>10. \A u \in Tab : ~(refresh[u].pc \in Awaits /\ refresh[u].old = stored)
  BY <1>1, <1>2 DEF U, Locked, RenewPlaces, Calling
<1>11. \A u \in Tab : refresh[u].pc # "watching"
  BY <1>10 DEF Unlock, Notes, Awaits
<1>12. Locked'
  BY <1>0, <1>2, <1>3, <1>4, <1>5, <1>10, <1>11
  DEF Facts, Locked, Through, Awaits
<1>13. QED
  BY <1>6, <1>8, <1>9, <1>12 DEF U

\* It finds another pair stored than it saw, or goes on to look at the lock.
LEMMA WatchStoredStep ==
    ASSUME NEW k \in Token, U(k), NEW t \in Tab, WatchStored(t)
    PROVE  U(k)'
<1>0. Facts(t)
  BY TabFacts
<1>1. /\ refresh[t].pc = "waiting"
      /\ UNCHANGED <<token, account, role, stored, lock>>
      /\ open' = [u \in Tab |-> TRUE]
  BY <1>0 DEF Facts, WatchStored, serverVars, tabVars
<1>2. CASE stored = refresh[t].old
  <2> DEFINE r == [refresh[t] EXCEPT !.pc = "watching"]
  <2>1. Step(t, "watching")
    BY <1>2 DEF WatchStored
  <2>2. /\ refresh' = [refresh EXCEPT ![t] = r] /\ r \in Refresh
        /\ r.pc = "watching" /\ r.old = refresh[t].old
    BY <1>0, <2>1, PlaceStep DEF Facts, Step, Turn
  <2> HIDE DEF r
  <2>3. /\ lock.owner \in Tab /\ refresh[lock.owner].pc \in RenewPlaces
        /\ refresh[lock.owner].old = stored /\ lock.owner # t
    BY <1>1, <1>2 DEF U, Locked, Awaits, Through
  <2>4. May(t, r)
    BY <1>0, <1>1, <1>2, <2>2, <2>3 DEF May, Facts, Amid, Through, Awaits
  <2>5. QED
    BY <1>1, <2>2, <2>4, TabStep DEF Amid
<1>3. CASE stored # refresh[t].old
  <2> DEFINE r == [pc |-> "done", old |-> 0, new |-> stored]
  <2>1. refresh' = [refresh EXCEPT ![t] = r]
    BY <1>3 DEF WatchStored, Waited
  <2>2. r \in Refresh /\ r.pc = "done" /\ r.old = 0 /\ r.new # 0
    BY <1>0 DEF Facts, Refresh, Turn
  <2> HIDE DEF r
  <2>3. refresh[t].pc \notin Through \cup {"reading"}
    BY <1>1 DEF Through
  <2>4. QED
    BY <1>1, <2>1, <2>2, <2>3, EndStep
<1>4. QED
  BY <1>2, <1>3

\* The lock is still taken, so it goes on waiting.
LEMMA WatchLockStep ==
    ASSUME NEW k \in Token, U(k), NEW t \in Tab, WatchLock(t)
    PROVE  U(k)'
<1>0. Facts(t)
  BY TabFacts
<1>1. /\ refresh[t].pc = "watching"
      /\ UNCHANGED <<token, account, role, stored, lock>>
      /\ open' = [u \in Tab |-> TRUE]
  BY <1>0 DEF Facts, WatchLock, serverVars, tabVars
<1>2. ~FreeLock
  BY <1>0, <1>1 DEF Facts, FreeLock, U, Locked
<1>3. Step(t, "waiting")
  BY <1>2 DEF WatchLock
<1> DEFINE r == [refresh[t] EXCEPT !.pc = "waiting"]
<1>4. /\ refresh' = [refresh EXCEPT ![t] = r] /\ r \in Refresh
      /\ r.pc = "waiting" /\ r.old = refresh[t].old
  BY <1>0, <1>3, PlaceStep DEF Facts, Step
<1> HIDE DEF r
<1>5. lock.owner # t
  BY <1>1 DEF U, Locked, Through
<1>6. refresh[t].old = stored
        => /\ lock.owner \in Tab /\ refresh[lock.owner].pc \in RenewPlaces
           /\ refresh[lock.owner].old = stored
  BY <1>1 DEF U, Locked, Awaits
<1>7. May(t, r)
  BY <1>0, <1>4, <1>5, <1>6 DEF May, Facts, Amid, Through, Awaits
<1>8. QED
  BY <1>1, <1>4, <1>7, TabStep DEF Amid

------------------------------------------------------------------------------
\* A step of a tab's refresh, when nothing goes wrong.
LEMMA RefreshStepOK ==
    ASSUME NEW k \in Token, U(k), NEW t \in Tab, trouble = {}, trouble' = {},
           RefreshStep(t) \/ WatchStored(t) \/ WatchLock(t)
    PROVE  \E j \in Token : U(j)'
<1>1. CASE LookAtLock(t) \/ WriteLock(t) \/ ReadBack(t) \/ CheckStored(t)
  BY <1>1, LookStep, WriteStep, ReadBackStep, CheckStep
<1>2. CASE RefreshLookup(t) \/ RefreshConsume(t) \/ RefreshGranted(t)
  BY <1>2, LookupStep, ConsumeStep, GrantedStep
<1>3. CASE RefreshIssue(t)
  BY <1>3, IssueStep
<1>4. CASE CheckOwner(t) \/ Unlock(t) \/ WatchStored(t) \/ WatchLock(t)
  BY <1>4, CheckOwnerStep, UnlockStep, WatchStoredStep, WatchLockStep
<1>5. CASE WaitTimesOut(t)
  BY <1>5 DEF WaitTimesOut, Notes
<1>6. CASE Resume(t)
  <2>1. refresh[t].pc = "done" /\ refresh[t].new # 0
    BY <1>6, Zenon DEF Resume, U, TabOK
  <2>2. /\ refresh' = [refresh EXCEPT ![t] = NoRefresh]
        /\ UNCHANGED <<token, account, role, stored, lock, open>>
    BY <1>6, <2>1, Zenon DEF Resume, serverVars
  <2>3. open' = [u \in Tab |-> TRUE]
    BY <2>2, TabFacts DEF Facts
  <2>4. refresh[t].pc \notin Through \cup {"reading"}
    BY <2>1 DEF Through
  <2>5. U(k)'
    BY <2>2, <2>3, <2>4, NoRefreshTyped, EndStep
  <2>6. QED
    BY <2>5
<1>7. QED
  BY <1>1, <1>2, <1>3, <1>4, <1>5, <1>6 DEF RefreshStep

\* A request goes out or is answered.
LEMMA RequestStepOK ==
    ASSUME NEW k \in Token, U(k), NEW t \in Tab, NEW q \in Req,
           SendRequest(t, q) \/ Answer(t, q)
    PROVE  U(k)'
<1>1. CASE SendRequest(t, q) \/ AnswerPlain(t, q)
  BY <1>1, Rest DEF SendRequest, AnswerPlain, serverVars, tabVars, U, OpenHere
<1>2. CASE AnswerRefused(t, q)
  <2>1. UNCHANGED <<token, account, role, stored, lock, open>>
    BY <1>2 DEF AnswerRefused, serverVars, tabVars
  <2>2. CASE refresh[t].pc = "none"
    BY <1>2, <2>1, <2>2, StartStep DEF AnswerRefused
  <2>3. CASE refresh[t].pc # "none"
    BY <1>2, <2>1, <2>3, Rest DEF AnswerRefused, U, OpenHere
  <2>4. QED
    BY <2>2, <2>3
<1>3. CASE AnswerGone(t, q)
  BY <1>3 DEF AnswerGone, U, OpenHere
<1>4. QED
  BY <1>1, <1>2, <1>3 DEF Answer

\* A tab is reloaded between refreshes: it comes back with the session.
LEMMA ReloadStep ==
    ASSUME NEW k \in Token, U(k), NEW t \in Tab, Reload(t), trouble = {},
           trouble' = {}
    PROVE  U(k)'
<1>1. refresh[t].pc \notin Calling /\ refresh[t].pc \notin Turn
  BY DEF Reload, Meets, Between
<1>2. refresh[t].pc \notin Through \cup {"reading"}
  BY <1>1 DEF Calling, Turn, Through
<1>3. lock.owner # t
  BY <1>2 DEF U, Locked
<1>4. /\ refresh' = [refresh EXCEPT ![t] = NoRefresh]
      /\ UNCHANGED <<token, account, role, stored, lock>>
      /\ open' = [open EXCEPT ![t] = stored # 0]
  BY <1>3 DEF Reload, serverVars
<1>5. (stored # 0) = TRUE
  BY DEF U, OpenHere, Token
<1>6. open' = [u \in Tab |-> TRUE]
  <2>1. open' = [open EXCEPT ![t] = TRUE]
    BY <1>4, <1>5
  <2>2. QED
    BY <2>1 DEF U, OpenHere
<1>7. QED
  BY <1>2, <1>4, <1>6, NoRefreshTyped, EndStep

\* The office's changes that do not end the session.
LEMMA ServerSideStep ==
    ASSUME NEW k \in Token, U(k), ServerSide, trouble' = {} PROVE U(k)'
<1>1. UNCHANGED <<stored, lock, open, refresh>>
  BY DEF ServerSide, tabVars
<1>2. /\ UNCHANGED account /\ TokensTypeOK'
      /\ \A n \in Token : token'[n].state = token[n].state
  <2> USE DEF U, SessionTyped, TokensTypeOK
  <2>1. CASE AccessExpires
    <3>1. \A n \in Token : LET r == [token[n] EXCEPT !.good = FALSE]
                           IN  r \in TokenRow /\ r.state = token[n].state
      BY DEF TokenRow
    <3>2. token' = [n \in Token |-> [token[n] EXCEPT !.good = FALSE]]
          /\ UNCHANGED <<account, role>>
      BY <2>1 DEF AccessExpires
    <3>3. QED
      BY <3>1, <3>2
  <2>2. CASE ChangeRole
    BY <2>2 DEF ChangeRole
  <2>3. CASE Meets("left")
    BY <2>3 DEF Meets
  <2>4. QED
    BY <2>1, <2>2, <2>3 DEF ServerSide
<1>3. SessionTyped' /\ Upto(k)' /\ OpenHere'
  BY <1>1, <1>2 DEF U, SessionTyped, Upto, OpenHere
<1>4. Locked' /\ Settles(k)' /\ \A t \in Tab : TabOK(t, k)'
  BY <1>1, <1>2 DEF U, Locked, Settles, TabOK
<1>5. QED
  BY <1>3, <1>4 DEF U

\* What went wrong stays on record.
LEMMA TroubleStays == [Next]_vars => trouble \subseteq trouble'
<1> SUFFICES ASSUME [Next]_vars PROVE trouble \subseteq trouble'
  OBVIOUS
<1>1. ASSUME NEW t \in Tab, NEW q \in Req, SendRequest(t, q) \/ Answer(t, q)
      PROVE  UNCHANGED trouble
  BY <1>1 DEF SendRequest, Answer, AnswerPlain, AnswerRefused, AnswerGone
<1>2. ASSUME NEW t \in Tab,
             RefreshStep(t) \/ WatchStored(t) \/ WatchLock(t)
      PROVE  trouble \subseteq trouble'
  <2>1. CASE RefreshIssue(t) \/ RefreshLookup(t)
    BY <2>1 DEF RefreshIssue, RefreshLookup, Meets
  <2>2. CASE LookAtLock(t) \/ WriteLock(t) \/ ReadBack(t) \/ Unlock(t)
             \/ WaitTimesOut(t)
    BY <2>2 DEF LookAtLock, WriteLock, ReadBack, Unlock, WaitTimesOut, Wait,
         Notes
  <2>3. CASE \/ CheckStored(t) \/ RefreshConsume(t) \/ RefreshGranted(t)
             \/ CheckOwner(t) \/ Resume(t) \/ WatchStored(t) \/ WatchLock(t)
    BY <2>3, Zenon
    DEF CheckStored, RefreshConsume, RefreshGranted, CheckOwner, Resume,
        WatchStored, WatchLock
  <2>4. QED
    BY <1>2, <2>1, <2>2, <2>3 DEF RefreshStep
<1>3. ASSUME NEW t \in Tab, RefreshLost(t) \/ LossNoticed(t) \/ UserStep(t)
      PROVE  trouble \subseteq trouble'
  BY <1>3 DEF RefreshLost, LossNoticed, UserStep, Logout, Login, Reload, Meets
<1>4. CASE LockRunsOut \/ ServerSide \/ UNCHANGED vars
  BY <1>4 DEF LockRunsOut, ServerSide, Meets, vars
<1>5. QED
  BY <1>1, <1>2, <1>3, <1>4 DEF Next

------------------------------------------------------------------------------
\* The invariant holds in every reachable state.
LEMMA Invariance == Spec => []IInv
<1>1. Init => IInv
  <2> SUFFICES ASSUME Init PROVE \E k \in Token : U(k)
    BY DEF IInv
  <2>1. 1 \in Token
    BY MaxTokenAssumption DEF Token
  <2>2. TokensTypeOK
    BY <2>1, MaxTokenAssumption
    DEF Init, TokensInit, TokensTypeOK, TokenRow, NoRow, Token, TokenOrNone
  <2>3. /\ \A t \in Tab : refresh[t] = NoRefresh
        /\ lock.owner = NoTab /\ lock.over = FALSE
    BY DEF Init, NoLock
  <2>4. SessionTyped
    BY <2>2, <2>3, NoRefreshTyped DEF Init, SessionTyped
  <2>5. Upto(1) /\ OpenHere
    BY <2>1 DEF Init, TokensInit, Upto, OpenHere, NoRow, Token
  <2>6. Locked
    BY <2>3, NoRefreshTyped, LockAssumption DEF Locked, Through, Awaits
  <2>7. Settles(1)
    BY <2>1 DEF Init, TokensInit, Settles
  <2>8. \A t \in Tab : TabOK(t, 1)
    BY <2>3, NoRefreshTyped DEF Init, TabOK, Amid
  <2>9. QED
    BY <2>1, <2>4, <2>5, <2>6, <2>7, <2>8 DEF U
<1>2. IInv /\ [Next]_vars => IInv'
  <2> SUFFICES ASSUME IInv, [Next]_vars, trouble' = {}
               PROVE  \E k \in Token : U(k)'
    BY DEF IInv, Undisturbed
  <2>1. trouble = {}
    BY TroubleStays
  <2>2. PICK k \in Token : U(k)
    BY <2>1 DEF IInv, Undisturbed
  <2>3. CASE UNCHANGED vars
    BY <2>2, <2>3, Rest DEF vars, serverVars, tabVars, U, OpenHere
  <2>4. CASE Next
    <3>1. ASSUME NEW t \in Tab, NEW q \in Req,
                 SendRequest(t, q) \/ Answer(t, q)
          PROVE  \E j \in Token : U(j)'
      BY <2>2, <3>1, RequestStepOK
    <3>2. ASSUME NEW t \in Tab,
                 RefreshStep(t) \/ WatchStored(t) \/ WatchLock(t)
          PROVE  \E j \in Token : U(j)'
      BY <2>1, <2>2, <3>2, RefreshStepOK
    <3>3. ASSUME NEW t \in Tab, Reload(t) PROVE \E j \in Token : U(j)'
      BY <2>1, <2>2, <3>3, ReloadStep
    <3>4. CASE ServerSide
      BY <2>2, <3>4, ServerSideStep
    <3>5. ASSUME NEW t \in Tab, Login(t) PROVE FALSE
      BY <2>2, <3>5 DEF Login, U, OpenHere
    <3>6. ASSUME NEW t \in Tab, RefreshLost(t) \/ Logout(t) PROVE FALSE
      BY <3>6 DEF RefreshLost, Logout, Meets
    <3>7. ASSUME NEW t \in Tab, LossNoticed(t) PROVE FALSE
      BY <2>2, <3>7 DEF LossNoticed, U, TabOK
    <3>8. CASE LockRunsOut
      <4>1. lock.owner \in Tab /\ ~Abandoned
        BY <2>2, <3>8, LockAssumption
        DEF LockRunsOut, Abandoned, U, SessionTyped, TabOK
      <4>2. QED
        BY <3>8, <4>1 DEF LockRunsOut, Meets
    <3>9. QED
      BY <2>4, <3>1, <3>2, <3>3, <3>4, <3>5, <3>6, <3>7, <3>8
      DEF Next, UserStep
  <2>5. QED
    BY <2>3, <2>4
<1>3. QED
  BY <1>1, <1>2, PTL DEF Spec

\* While nothing goes wrong and no two tabs cross, no pair is presented twice,
\* whichever tabs refresh and wait for each other in whatever order.
THEOREM LockStopsReuse == Spec => []RotationIsNotReuse
BY Invariance, InvImplies, PTL

\* While nothing goes wrong and no two tabs cross, the browser keeps a session
\* and its newest pair, whichever tab wrote last.
THEOREM LockKeepsTheSession == Spec => []SessionKept
BY Invariance, InvImplies, PTL

------------------------------------------------------------------------------
(* Lists                                                                   *)

ListTypeOK ==
    /\ listing \in Listings
    /\ filter \in Filters /\ page \in 1..MaxPages
    /\ total \in [Filters -> [1..MaxPages -> 0..MaxPages]]
    /\ previous \in 0..MaxPages
    /\ wanted \subseteq Filters \X (1..MaxPages)
    /\ pages \in [Filters -> 1..MaxPages]
    /\ removed \in Nat

\* While no rows left, what an answer told is still true.
TotalsCurrent ==
    removed = 0 => \A f \in Filters, p \in 1..MaxPages :
                        total[f][p] \in {0, pages[f]}

\* PageInRange, whether or not answers are there.
WithinRange ==
    removed = 0 /\ ~hurried /\ listing # EventsTable => page <= pages[filter]

ListInv == ListTypeOK /\ TotalsCurrent /\ WithinRange

\* Every filter resets the page, and only the finance ledger has a range that
\* does not.
LEMMA FiltersReset ==
    \A l \in Listings : /\ "unreset" \notin l.traits
                        /\ "ranged" \in l.traits => l = EventsTable
<1> TAKE l \in Listings
<1> USE DEF Listing
<1>1. CASE l \in {HandoversList, CourierOrdersTable}
  BY <1>1 DEF HandoversList, CourierOrdersTable
<1>2. CASE l \in {ManagerOrdersPage, ManagerMyOrdersPage, TeamLeadOrdersPage}
  BY <1>2 DEF ManagerOrdersPage, ManagerMyOrdersPage, TeamLeadOrdersPage
<1>3. CASE l \in {OrdersTable, BudgetList}
  BY <1>3 DEF OrdersTable, BudgetList
<1>4. CASE l = EventsTable
  BY <1>4 DEF EventsTable
<1>5. CASE l = HistoryList
  BY <1>5, Zenon DEF HistoryList
<1>6. QED
  BY <1>1, <1>2, <1>3, <1>4, <1>5 DEF Listings

\* The number on the screen is one of pages.
LEMMA ShownTyped == ListTypeOK => Shown \in 0..MaxPages
BY ListAssumption DEF ListTypeOK, Shown

\* Going to another page or filter keeps the types.
LEMMA ShowTyped ==
    ASSUME ListTypeOK, NEW f \in Filters, NEW p \in 1..MaxPages, Show(f, p),
           UNCHANGED <<listing, total, pages, removed>>
    PROVE  ListTypeOK'
<1>1. wanted' = wanted \/ wanted' = wanted \cup {<<f, p>>}
  BY DEF Show
<1>2. <<f, p>> \in Filters \X (1..MaxPages)
  OBVIOUS
<1>3. wanted' \subseteq Filters \X (1..MaxPages)
  BY <1>1, <1>2 DEF ListTypeOK
<1>4. previous' \in 0..MaxPages
  BY ShownTyped DEF Show
<1>5. QED
  BY <1>3, <1>4 DEF ListTypeOK, Show

\* Stepping on from a number that is the filter's own stays within its pages.
LEMMA StepOnOK == ASSUME ListInv, StepOn PROVE ListInv'
<1>1. /\ page < Shown /\ Show(filter, page + 1)
      /\ hurried' = (hurried \/ Shown # total[filter][page])
      /\ UNCHANGED <<listing, total, pages, removed>>
  BY DEF StepOn
<1>2. page + 1 \in 1..MaxPages /\ filter \in Filters
  BY <1>1, ShownTyped, ListAssumption DEF ListInv, ListTypeOK
<1>3. ListTypeOK'
  BY <1>1, <1>2, ShowTyped DEF ListInv
<1>4. TotalsCurrent'
  BY <1>1 DEF ListInv, TotalsCurrent
<1>5. filter' = filter /\ page' = page + 1
  BY <1>1 DEF Show
<1>6. ~hurried' => Shown = total[filter][page]
  BY <1>1
<1>7. removed = 0 => total[filter][page] \in {0, pages[filter]}
  BY DEF ListInv, ListTypeOK, TotalsCurrent
<1>8. page \in Nat /\ pages[filter] \in Nat
  BY DEF ListInv, ListTypeOK
<1>9. WithinRange'
  BY <1>1, <1>5, <1>6, <1>7, <1>8 DEF WithinRange
<1>10. QED
  BY <1>3, <1>4, <1>9 DEF ListInv

\* A new filter begins with its first page.
LEMMA ChooseOK == ASSUME ListInv, Choose PROVE ListInv'
<1>1. PICK f \in Filters : Show(f, 1)
  <2>1. ~Is("unreset")
    BY FiltersReset DEF Is, ListInv, ListTypeOK
  <2>2. QED
    BY <2>1 DEF Choose
<1>2. UNCHANGED <<listing, total, pages, removed, hurried>>
  BY DEF Choose
<1>3. 1 \in 1..MaxPages
  BY ListAssumption
<1>4. ListTypeOK'
  BY <1>1, <1>2, <1>3, ShowTyped DEF ListInv, ListTypeOK
<1>5. TotalsCurrent'
  BY <1>2 DEF ListInv, TotalsCurrent
<1>6. filter' = f /\ page' = 1
  BY <1>1 DEF Show
<1>7. WithinRange'
  BY <1>2, <1>6 DEF WithinRange, ListInv, ListTypeOK
<1>8. QED
  BY <1>4, <1>5, <1>7 DEF ListInv

\* The steps that add no page, and those of the finance ledger.
LEMMA OtherListSteps ==
    ASSUME ListInv, ChooseRange \/ StepBack \/ Answered \/ LoseRows
    PROVE  ListInv'
<1>1. CASE ChooseRange
  <2>1. PICK f \in Filters : Show(f, page)
    BY <1>1 DEF ChooseRange
  <2>2. UNCHANGED <<listing, total, pages, removed, hurried>>
    BY <1>1 DEF ChooseRange
  <2>3. listing = EventsTable
    BY <1>1, FiltersReset DEF ChooseRange, Is, ListInv, ListTypeOK
  <2>4. ListTypeOK'
    BY <2>1, <2>2, ShowTyped DEF ListInv, ListTypeOK
  <2>5. QED
    BY <2>2, <2>3, <2>4 DEF ListInv, TotalsCurrent, WithinRange
<1>2. CASE StepBack
  <2>1. /\ page > 1 /\ Show(filter, page - 1)
        /\ UNCHANGED <<listing, total, pages, removed, hurried>>
    BY <1>2, Zenon DEF StepBack
  <2>2. page - 1 \in 1..MaxPages
    BY <2>1, ListAssumption DEF ListInv, ListTypeOK
  <2>3. ListTypeOK'
    BY <2>1, <2>2, ShowTyped DEF ListInv, ListTypeOK
  <2>4. filter' = filter /\ page' = page - 1
    BY <2>1 DEF Show
  <2>5. page \in Nat /\ pages[filter] \in Nat
    BY DEF ListInv, ListTypeOK
  <2>6. WithinRange'
    BY <2>1, <2>4, <2>5 DEF ListInv, WithinRange
  <2>7. QED
    BY <2>1, <2>3, <2>6 DEF ListInv, TotalsCurrent
<1>3. CASE Answered
  <2>1. PICK k \in wanted :
            /\ wanted' = wanted \ {k}
            /\ total' = [total EXCEPT ![k[1]][k[2]] = pages[k[1]]]
    BY <1>3 DEF Answered
  <2>2. UNCHANGED <<listing, filter, page, previous, pages, removed, hurried>>
    BY <1>3 DEF Answered
  <2>3. /\ k[1] \in Filters /\ k[2] \in 1..MaxPages
        /\ pages[k[1]] \in 0..MaxPages
    BY DEF ListInv, ListTypeOK
  <2>4. \A f \in Filters, p \in 1..MaxPages :
            total'[f][p] = IF f = k[1] /\ p = k[2] THEN pages[f]
                                                   ELSE total[f][p]
    BY <2>1, <2>3 DEF ListInv, ListTypeOK
  <2>5. total' \in [Filters -> [1..MaxPages -> 0..MaxPages]]
    BY <2>1, <2>3 DEF ListInv, ListTypeOK
  <2>6. ListTypeOK'
    BY <2>1, <2>2, <2>5 DEF ListInv, ListTypeOK
  <2>7. TotalsCurrent'
    BY <2>2, <2>4 DEF ListInv, TotalsCurrent
  <2>8. QED
    BY <2>2, <2>6, <2>7 DEF ListInv, WithinRange
<1>4. CASE LoseRows
  <2>1. PICK f \in Filters :
            pages[f] > 1 /\ pages' = [pages EXCEPT ![f] = @ - 1]
    BY <1>4 DEF LoseRows
  <2>2. /\ removed' = removed + 1
        /\ UNCHANGED <<listing, filter, page, total, previous, wanted,
                       hurried>>
    BY <1>4 DEF LoseRows
  <2>3. pages[f] - 1 \in 1..MaxPages
    BY <2>1, ListAssumption DEF ListInv, ListTypeOK
  <2>4. pages' \in [Filters -> 1..MaxPages]
    BY <2>1, <2>3 DEF ListInv, ListTypeOK
  <2>5. removed' \in Nat /\ removed' # 0
    BY <2>2 DEF ListInv, ListTypeOK
  <2>6. ListTypeOK'
    BY <2>2, <2>4, <2>5 DEF ListInv, ListTypeOK
  <2>7. QED
    BY <2>5, <2>6 DEF ListInv, TotalsCurrent, WithinRange
<1>5. QED
  BY <1>1, <1>2, <1>3, <1>4

\* However a person filters and steps through a list other than the finance
\* ledger, and in whatever order the answers come, they are not past its last
\* page, unless they stepped by another filter's number or rows left.
THEOREM ListsStayInRange == ListSpec => []PageInRange
<1>1. listing \in Listings /\ ListInit => ListInv
  <2> SUFFICES ASSUME listing \in Listings, ListInit PROVE ListInv
    OBVIOUS
  <2>1. 1 \in 1..MaxPages /\ 0 \in 0..MaxPages /\ 0 \in Nat
    BY ListAssumption
  <2>2. total \in [Filters -> [1..MaxPages -> 0..MaxPages]]
    BY <2>1 DEF ListInit
  <2>3. wanted \subseteq Filters \X (1..MaxPages)
    BY <2>1 DEF ListInit
  <2>4. ListTypeOK
    BY <2>1, <2>2, <2>3 DEF ListInit, ListTypeOK
  <2>5. QED
    BY <2>4 DEF ListInit, ListInv, ListTypeOK, TotalsCurrent, WithinRange
<1>2. ListInv /\ [ListNext]_listVars => ListInv'
  <2> SUFFICES ASSUME ListInv, [ListNext]_listVars PROVE ListInv'
    OBVIOUS
  <2>1. CASE UNCHANGED listVars
    BY <2>1
    DEF listVars, ListInv, ListTypeOK, TotalsCurrent, WithinRange
  <2>2. QED
    BY <2>1, StepOnOK, ChooseOK, OtherListSteps DEF ListNext
<1>3. ListInv => PageInRange
  BY DEF ListInv, ListTypeOK, WithinRange, PageInRange, InRange
<1>4. QED
  BY <1>1, <1>2, <1>3, PTL DEF ListSpec

------------------------------------------------------------------------------
(* The ledger's filters                                                    *)

\* The inductive invariant: beside FiltersAgree, what is drafted in the sheet
\* of types of a phone belongs to the direction, since the chips of the
\* direction are under that sheet; a wide page applies no draft of a type.
Agreement ==
    /\ direction \in {"", "income", "expense"}
    /\ FiltersAgree
    /\ DOMAIN draft = {"sheet", "from", "to", "value", "category"}
    /\ device = "mobile" /\ draft.sheet = "type"
         => draft.value \in Group(direction) \cup {""}

\* A closed sheet drafts nothing.
LEMMA NothingDrafted ==
    /\ DOMAIN Closed = {"sheet", "from", "to", "value", "category"}
    /\ Closed.sheet = "" /\ Closed.value = ""
BY DEF Closed

\* What the sheet of types offers fits the direction, and has a category only
\* for a business expense.
LEMMA PickableFits ==
    \A p \in Pickable : /\ p[1] \in Group(direction) \cup {""}
                        /\ p[2] # "" => p[1] = "business_expense"
<1> TAKE p \in Pickable
<1>1. CASE p = <<"", "">>
  BY <1>1, Zenon
<1>2. CASE /\ p \in Group(direction) \X Categories
           /\ p[2] = "" \/ p[1] = "business_expense"
  BY <1>2, Zenon
<1>3. QED
  BY <1>1, <1>2, Zenon DEF Pickable

\* A step that leaves the chips alone and drafts no type keeps it.
LEMMA OtherSteps ==
    ASSUME Agreement, UNCHANGED <<device, chips>>,
           DOMAIN draft' = {"sheet", "from", "to", "value", "category"},
           draft'.value \in {draft.value, ""},
           draft'.value = draft.value => draft'.sheet = draft.sheet
                                         \/ draft'.value = ""
    PROVE  Agreement'
BY Zenon DEF Agreement, FiltersAgree, chips, Group, Types

\* A period's draft changes its dates.
LEMMA DraftStep ==
    ASSUME Agreement, NEW range, Draft(range) PROVE Agreement'
<1>1. DOMAIN draft' = DOMAIN draft
  BY DEF Draft
<1>2. draft'.value = draft.value /\ draft'.sheet = draft.sheet
  BY Zenon DEF Draft, Agreement
<1>3. QED
  BY <1>1, <1>2, OtherSteps, Zenon DEF Draft, Agreement

\* The steps of a period control keep the invariant.
LEMMA ControlStep ==
    ASSUME Agreement, NEW c,
           \/ OpenSheet(c) \/ PickDay(c) \/ ApplyPreset(c) \/ TypeDate(c)
           \/ ResetDraft(c) \/ Apply(c) \/ AtOnce(c) \/ ClearPeriod(c)
    PROVE  Agreement'
<1>1. CASE OpenSheet(c)
  <2>1. /\ DOMAIN draft' = {"sheet", "from", "to", "value", "category"}
        /\ draft'.value = ""
    BY <1>1, Zenon DEF OpenSheet, Closed
  <2>2. QED
    BY <1>1, <2>1, OtherSteps, Zenon DEF OpenSheet
<1>2. CASE PickDay(c) \/ ApplyPreset(c) \/ TypeDate(c) \/ ResetDraft(c)
  BY <1>2, DraftStep DEF PickDay, ApplyPreset, TypeDate, ResetDraft
<1>3. CASE Apply(c)
  BY <1>3, OtherSteps, Zenon DEF Apply, Closed
<1>4. CASE AtOnce(c) \/ ClearPeriod(c)
  BY <1>4, OtherSteps, Zenon DEF AtOnce, ClearPeriod, Agreement
<1>5. QED
  BY <1>1, <1>2, <1>3, <1>4

\* The steps of the ledger's chips keep it.
LEMMA LedgerStep == Agreement /\ Ledger => Agreement'
<1> SUFFICES ASSUME Agreement, Ledger PROVE Agreement'
  OBVIOUS
<1> USE DEF Agreement, FiltersAgree, Group, Types
<1>1. CASE ChooseDirection
  <2>1. PICK d \in {"", "income", "expense"} : updateDirection(d)
    BY <1>1, Zenon DEF ChooseDirection
  <2>2. UNCHANGED <<device, draft>>
    BY <1>1, Zenon DEF ChooseDirection
  <2>3. direction' \in {"", "income", "expense"} /\ FiltersAgree'
    BY <2>1, Zenon DEF updateDirection
  <2>4. device = "desktop" \/ draft.sheet = ""
    BY <1>1, NothingDrafted, Zenon DEF ChooseDirection
  <2>5. QED
    BY <2>2, <2>3, <2>4, Zenon
<1>2. CASE OpenTypes
  <2>1. /\ DOMAIN draft' = {"sheet", "from", "to", "value", "category"}
        /\ draft'.value = eventType
    BY <1>2, Zenon DEF OpenTypes, Closed
  <2>2. QED
    BY <1>2, <2>1, Zenon DEF OpenTypes, chips
<1>3. CASE PickType
  <2>1. PICK p \in Pickable :
            \/ /\ device = "desktop"
               /\ eventType' = p[1] /\ expenseCategory' = p[2]
               /\ draft' = Closed
            \/ /\ device = "mobile"
               /\ draft' = [draft EXCEPT !.value = p[1], !.category = p[2]]
               /\ UNCHANGED <<eventType, expenseCategory>>
    BY <1>3, Zenon DEF PickType
  <2>2. /\ p[1] \in Group(direction) \cup {""}
        /\ p[2] # "" => p[1] = "business_expense"
    BY PickableFits, Zenon
  <2>3. UNCHANGED <<device, direction>>
    BY <1>3, Zenon DEF PickType
  <2>4. CASE device = "desktop"
    BY <2>1, <2>2, <2>3, <2>4, Zenon DEF Closed
  <2>5. CASE device = "mobile"
    <3>1. draft' = [draft EXCEPT !.value = p[1], !.category = p[2]]
      BY <2>1, <2>5, Zenon
    <3>2. DOMAIN draft' = DOMAIN draft /\ draft'.value = p[1]
      BY <3>1, Zenon
    <3>3. QED
      BY <2>1, <2>2, <2>3, <2>5, <3>2, Zenon
  <2>6. QED
    BY <2>1, <2>4, <2>5, Zenon
<1>4. CASE ApplyType
  BY <1>4, Zenon DEF ApplyType, Closed
<1>5. CASE ClearType
  BY <1>5, Zenon DEF ClearType
<1>6. CASE ResetAll
  BY <1>6, Zenon DEF ResetAll
<1>7. QED
  BY <1>1, <1>2, <1>3, <1>4, <1>5, <1>6, Zenon DEF Ledger

\* Whatever is chosen, drafted, applied, cleared or reset in which order, the
\* filters of the ledger can all hold of one event.
THEOREM LedgerFiltersAgree == PeriodSpec => []FiltersAgree
<1>1. PeriodInit => Agreement
  BY NothingDrafted, Zenon DEF PeriodInit, Agreement, FiltersAgree, Group
<1>2. Agreement /\ [PeriodNext]_periodVars => Agreement'
  <2> SUFFICES ASSUME Agreement, [PeriodNext]_periodVars PROVE Agreement'
    OBVIOUS
  <2>1. CASE CloseSheet
    BY <2>1, OtherSteps, Zenon DEF CloseSheet, Closed
  <2>2. CASE Midnight
    BY <2>2, OtherSteps, Zenon DEF Midnight, Agreement
  <2>3. CASE Reopen
    BY <2>3, Zenon DEF Reopen, Agreement, FiltersAgree, Closed, Group
  <2>4. CASE UNCHANGED periodVars
    BY <2>4, OtherSteps, Zenon DEF periodVars, chips, Agreement
  <2>5. QED
    BY <2>1, <2>2, <2>3, <2>4, ControlStep, LedgerStep DEF PeriodNext
<1>3. Agreement => FiltersAgree
  BY Zenon DEF Agreement
<1>4. QED
  BY <1>1, <1>2, <1>3, PTL DEF PeriodSpec

------------------------------------------------------------------------------
(* The period controls                                                     *)

\* The controls that are told apart: each has a name of its own.
PeriodControls ==
    {DesktopDateRangePicker, DateRangeBottomSheet, FinanceFilterBar,
     MobileDateRangeCalendar, CashRangePicker, MobileFilterChip, JournalChip}
\* Those that hand on a first day alone as one day, and those without a draft.
OneDay == {DateRangeBottomSheet, FinanceFilterBar, MobileFilterChip,
           JournalChip}
Immediate == {MobileDateRangeCalendar, CashRangePicker}
Sketched == {"DateRangeBottomSheet", "FinanceFilterBar", "MobileFilterChip",
             "JournalChip"}
Sheets == Sketched \cup {"DesktopDateRangePicker", "type", ""}

\* What the traits of each control come to.
LEMMA ControlTraits ==
    /\ \A c \in OneDay :
        /\ c.name \in Sketched /\ c.presets \subseteq Usual
        /\ With(c, "one day") /\ ~With(c, "at once")
    /\ \A c \in Immediate :
        /\ With(c, "at once")
        /\ c.name \notin Sheets
        /\ c.presets \subseteq Usual \cup {"all"}
        /\ ~With(c, "cleared")
    /\ DesktopDateRangePicker.name = "DesktopDateRangePicker"
    /\ DesktopDateRangePicker.presets = Usual
    /\ DesktopDateRangePicker.traits = {"resets"}
    /\ MobileDateRangeCalendar.presets = {}
BY DEF OneDay, Immediate, Sketched, Sheets, With, Usual, Control,
       DesktopDateRangePicker, DateRangeBottomSheet, FinanceFilterBar,
       MobileDateRangeCalendar, CashRangePicker, MobileFilterChip, JournalChip

\* The name of each control.
LEMMA NamesApart ==
    /\ DesktopDateRangePicker.name = "DesktopDateRangePicker"
    /\ DateRangeBottomSheet.name = "DateRangeBottomSheet"
    /\ FinanceFilterBar.name = "FinanceFilterBar"
    /\ MobileDateRangeCalendar.name = "MobileDateRangeCalendar"
    /\ CashRangePicker.name = "CashRangePicker"
    /\ MobileFilterChip.name = "MobileFilterChip"
    /\ JournalChip.name = "JournalChip"
BY DEF Control, DesktopDateRangePicker, DateRangeBottomSheet,
       FinanceFilterBar, MobileDateRangeCalendar, CashRangePicker,
       MobileFilterChip, JournalChip

\* Which controls a page has on which device, and how its server reads.
LEMMA ScreenControls ==
    ASSUME NEW s \in Screens
    PROVE  /\ DesktopDateRangePicker \in s.controls.desktop
           /\ s.controls.desktop
                \subseteq {DesktopDateRangePicker, FinanceFilterBar}
           /\ s.controls["mobile"] \subseteq OneDay \cup Immediate
           /\ s.controls["mobile"] \subseteq OneDay
                \/ s.controls["mobile"] \subseteq Immediate
           /\ s.readings \subseteq {"month", "open"}
           /\ s.first \in Usual \cup {"all"}
           /\ "month" \in s.readings => s.first # "all"
           /\ FinanceFilterBar \in s.controls.desktop => "month" \in s.readings
           /\ CashRangePicker \in s.controls["mobile"] => s.first = "all"
           /\ MobileFilterChip \in s.controls["mobile"] => s.first # "all"
           /\ JournalChip \in s.controls["mobile"] => s = JournalScreen
<1> USE NamesApart DEF Screens, Screen, FinanceScreen, DashboardScreen,
    TeamProfileScreen, BudgetScreen, CashLedgerScreen, OrdersScreen,
    TeamOrdersScreen, TeamLeadScreen, IncomeScreens, ReportsScreen,
    DispatcherScreen, JournalScreen, PeriodRangeFilter, IncomePeriodFilter,
    OneDay, Immediate, Usual
<1>1. /\ DesktopDateRangePicker \in s.controls.desktop
      /\ s.controls.desktop
            \subseteq {DesktopDateRangePicker, FinanceFilterBar}
  OBVIOUS
<1>2. s.controls["mobile"] \subseteq OneDay
                \/ s.controls["mobile"] \subseteq Immediate
  OBVIOUS
<1>3. /\ s.readings \subseteq {"month", "open"}
      /\ s.first \in Usual \cup {"all"}
      /\ "month" \in s.readings => s.first # "all"
  OBVIOUS
<1>4. FinanceFilterBar \in s.controls.desktop => "month" \in s.readings
  OBVIOUS
<1>5. CashRangePicker \in s.controls["mobile"] => s.first = "all"
  OBVIOUS
<1>6. MobileFilterChip \in s.controls["mobile"] => s.first # "all"
  OBVIOUS
<1>7. JournalChip \in s.controls["mobile"] => s = JournalScreen
  OBVIOUS
<1>8. QED
  BY <1>1, <1>2, <1>3, <1>4, <1>5, <1>6, <1>7

\* The inductive invariant: the dates are days and never an end without a
\* beginning, applied or drafted in the wide picker; a narrow page's controls
\* hand on a range with both ends, and one with a beginning wherever the page
\* starts with one, whose drafts have a beginning too.
Narrow == device = "mobile" /\ screen.controls["mobile"] \subseteq OneDay
Begun == device = "mobile" /\ screen.first # "all"
DraftOK ==
    /\ DOMAIN draft = {"sheet", "from", "to", "value", "category"}
    /\ draft.sheet \in Sheets
    /\ draft.from \in Nat /\ draft.to \in Nat
    /\ draft.sheet = "DesktopDateRangePicker" /\ draft.from = 0 => draft.to = 0
    /\ Begun /\ draft.sheet \in Sketched => draft.from # 0
RangeOK ==
    /\ from \in Nat /\ to \in Nat
    /\ from = 0 => to = 0
    /\ Narrow /\ from # 0 => to # 0
    /\ Begun => from # 0
ClockOK ==
    /\ screen \in Screens /\ device \in {"desktop", "mobile"}
    /\ today \in {MonthStart + 1, MonthStart + 2}
    /\ mounted \in {MonthStart + 1, MonthStart + 2}
PeriodOK == ClockOK /\ RangeOK /\ DraftOK

\* What a preset stands for: both dates or, for "all", none.
LEMMA PresetDates ==
    ASSUME NEW p \in Usual \cup {"all"},
           NEW day \in {MonthStart + 1, MonthStart + 2}
    PROVE  /\ Preset(p, day)[1] \in Nat /\ Preset(p, day)[2] \in Nat
           /\ Preset(p, day) = <<Preset(p, day)[1], Preset(p, day)[2]>>
           /\ p = "all" => Preset(p, day) = <<0, 0>>
           /\ p # "all" => Preset(p, day)[1] # 0 /\ Preset(p, day)[2] # 0
BY PeriodAssumption DEF Preset, Usual, NoRange, Oldest

\* A tapped day gives a range that has begun.
LEMMA PickedDates ==
    ASSUME NEW a \in Nat, NEW b \in Nat, NEW day \in Days
    PROVE  /\ Picked(a, b, day)[1] \in Nat \ {0}
           /\ Picked(a, b, day)[2] \in Nat
BY PeriodAssumption DEF Picked, Days

\* A page that takes a range keeps the invariant if the range is one of its.
LEMMA TakeStep ==
    ASSUME PeriodOK, NEW range, Take(range),
           UNCHANGED <<screen, device, mounted, today>>, DraftOK',
           range[1] \in Nat, range[2] \in Nat,
           range[1] = 0 => range[2] = 0,
           Narrow /\ range[1] # 0 => range[2] # 0,
           Begun => range[1] # 0
    PROVE  PeriodOK'
BY DEF PeriodOK, ClockOK, RangeOK, Take, Narrow, Begun

\* So does a step that drafts other dates.
LEMMA DatesDrafted ==
    ASSUME PeriodOK, NEW range, Draft(range), range[1] \in Nat,
           range[2] \in Nat,
           draft.sheet = "DesktopDateRangePicker" /\ range[1] = 0
             => range[2] = 0,
           Begun /\ draft.sheet \in Sketched => range[1] # 0
    PROVE  PeriodOK'
BY DEF PeriodOK, ClockOK, RangeOK, DraftOK, Draft, Narrow, Begun

\* A closed sheet drafts no dates.
LEMMA ClosedOK ==
    ASSUME PeriodOK, draft' = Closed, UNCHANGED <<screen, device>>
    PROVE  DraftOK'
BY Zenon DEF Closed, DraftOK, Sketched, Sheets, Begun

\* The control of a page, by its device.
LEMMA OfThePage ==
    ASSUME PeriodOK, NEW c \in Controls
    PROVE  /\ c \in {DesktopDateRangePicker} \cup OneDay \cup Immediate
           /\ device = "desktop" => c \in {DesktopDateRangePicker,
                                           FinanceFilterBar}
           /\ device = "mobile" => c \in OneDay \cup Immediate
           /\ device = "mobile" /\ c \in Immediate =>
                screen.controls["mobile"] \subseteq Immediate
<1>1. /\ device \in {"desktop", "mobile"} /\ screen \in Screens
      /\ c \in screen.controls[device]
  BY DEF PeriodOK, ClockOK, Controls
<1>2. \A d \in OneDay, e \in Immediate : d # e
  BY ControlTraits, Zenon
<1>3. QED
  BY <1>1, <1>2, ScreenControls DEF OneDay

\* The steps of a control keep the invariant.
LEMMA ControlKeepsRange ==
    ASSUME PeriodOK, NEW c \in Controls,
           \/ OpenSheet(c) \/ PickDay(c) \/ ApplyPreset(c) \/ TypeDate(c)
           \/ ResetDraft(c) \/ Apply(c) \/ AtOnce(c) \/ ClearPeriod(c)
    PROVE  PeriodOK'
<1> DEFINE DDP == DesktopDateRangePicker
<1>1. /\ from \in Nat /\ to \in Nat /\ draft.from \in Nat /\ draft.to \in Nat
      /\ today \in {MonthStart + 1, MonthStart + 2}
      /\ mounted \in {MonthStart + 1, MonthStart + 2}
  BY DEF PeriodOK, RangeOK, DraftOK, ClockOK
<1>2. \/ c = DDP /\ device = "desktop"
      \/ c \in OneDay
      \/ c \in Immediate /\ device = "mobile"
         /\ screen.controls["mobile"] \subseteq Immediate
  BY OfThePage DEF PeriodOK, ClockOK, OneDay
<1>3. screen \in Screens /\ device \in {"desktop", "mobile"}
  BY DEF PeriodOK, ClockOK
<1>4. /\ DDP.name = "DesktopDateRangePicker" /\ DDP.presets = Usual
      /\ ~With(DDP, "typed") /\ ~With(DDP, "one day") /\ ~With(DDP, "kept")
      /\ ~With(DDP, "at once") /\ ~With(DDP, "cleared")
      /\ "DesktopDateRangePicker" \notin Sketched
  BY ControlTraits, Zenon DEF With, Sketched
<1>a. ~With(c, "at once") => c \notin Immediate /\ c.name \in Sheets
  BY <1>2, <1>4, ControlTraits, Zenon DEF Sheets
<1> HIDE DEF DDP
<1>5. CASE OpenSheet(c)
  <2>1. /\ DOMAIN draft' = {"sheet", "from", "to", "value", "category"}
        /\ draft'.sheet = c.name /\ draft'.from = from /\ draft'.to = to
        /\ UNCHANGED <<screen, device, from, to, mounted, today>>
    BY <1>5, Zenon DEF OpenSheet, Closed
  <2>2. QED
    BY <1>1, <1>5, <1>a, <2>1, Zenon
    DEF OpenSheet, PeriodOK, ClockOK, RangeOK, DraftOK, Narrow, Begun
<1>6. CASE PickDay(c)
  <2>1. PICK day \in Days : Draft(Picked(draft.from, draft.to, day))
    BY <1>6 DEF PickDay
  <2>2. QED
    BY <1>1, <2>1, PickedDates, DatesDrafted
<1>7. CASE ApplyPreset(c)
  <2>1. PICK p \in c.presets : Draft(Preset(p, today))
    BY <1>7 DEF ApplyPreset
  <2>2. c \notin Immediate
    BY <1>7, ControlTraits, Zenon DEF ApplyPreset, PeriodOK, DraftOK
  <2>3. p \in Usual /\ "all" \notin Usual
    BY <1>2, <1>4, <2>2, ControlTraits, Zenon DEF Usual
  <2>4. QED
    BY <1>1, <2>1, <2>3, PresetDates, DatesDrafted
<1>8. CASE TypeDate(c)
  <2>1. c \in OneDay /\ draft.sheet # "DesktopDateRangePicker"
    <3>1. c \notin Immediate
      BY <1>8, ControlTraits, Zenon DEF TypeDate, PeriodOK, DraftOK
    <3>2. c \in OneDay
      BY <1>2, <1>4, <1>8, <3>1, Zenon DEF TypeDate
    <3>3. QED
      BY <1>4, <1>8, <3>2, ControlTraits, Zenon DEF TypeDate
  <2>2. PICK day \in Days : \/ Draft(<<day, draft.to>>)
                            \/ Draft(<<draft.from, day>>)
    BY <1>8 DEF TypeDate
  <2>3. day \in Nat \ {0}
    BY PeriodAssumption DEF Days
  <2>4. Begun /\ draft.sheet \in Sketched => draft.from # 0
    BY DEF PeriodOK, DraftOK
  <2>5. CASE Draft(<<day, draft.to>>)
    BY <1>1, <2>1, <2>3, <2>5, DatesDrafted
  <2>6. CASE Draft(<<draft.from, day>>)
    BY <1>1, <2>1, <2>3, <2>4, <2>6, DatesDrafted
  <2>7. QED
    BY <2>2, <2>5, <2>6
<1>9. CASE ResetDraft(c)
  <2>1. Draft(NoRange) /\ ~Begun
    BY <1>9 DEF ResetDraft, Begun
  <2>2. QED
    BY <2>1, DatesDrafted DEF NoRange
<1>10. CASE Apply(c)
  <2>1. DraftOK' /\ UNCHANGED <<screen, device, mounted, today>>
    BY <1>10, ClosedOK DEF Apply
  <2>2. CASE UNCHANGED <<from, to>>
    BY <2>1, <2>2 DEF PeriodOK, ClockOK, RangeOK, Narrow, Begun
  <2>3. CASE Take(Applied(c))
    <3>1. CASE c \in OneDay
      <4>1. With(c, "one day") /\ draft.sheet \in Sketched
        BY <1>10, <3>1, ControlTraits, Zenon DEF Apply
      <4>2. Begun => draft.from # 0
        BY <4>1, Zenon DEF PeriodOK, DraftOK
      <4>3. QED
        BY <1>1, <2>1, <2>3, <4>1, <4>2, TakeStep, Zenon DEF Applied
    <3>2. CASE c = DDP /\ device = "desktop"
      <4>1. draft.sheet = "DesktopDateRangePicker"
        BY <1>4, <1>10, <3>2, Zenon DEF Apply
      <4>2. draft.from = 0 => draft.to = 0
        BY <4>1 DEF PeriodOK, DraftOK
      <4>3. ~Narrow /\ ~Begun
        BY <3>2 DEF Narrow, Begun
      <4>4. Applied(c) = <<draft.from, draft.to>>
        BY <1>4, <3>2, Zenon DEF Applied
      <4>5. QED
        BY <1>1, <2>1, <2>3, <4>2, <4>3, <4>4, TakeStep
    <3>3. CASE c \in Immediate
      BY <1>10, <3>3, ControlTraits, Zenon DEF Apply, PeriodOK, DraftOK
    <3>4. QED
      BY <1>2, <3>1, <3>2, <3>3
  <2>4. QED
    BY <1>10, <2>2, <2>3 DEF Apply
<1>11. CASE AtOnce(c)
  <2>1. c \in Immediate /\ ~Narrow
    <3>1. c \in Immediate /\ c \in screen.controls["mobile"]
      BY <1>2, <1>4, <1>11, ControlTraits, Zenon DEF AtOnce, Controls
    <3>2. c \notin OneDay
      BY <1>11, ControlTraits, Zenon DEF AtOnce
    <3>3. QED
      BY <3>1, <3>2 DEF Narrow
  <2>2. UNCHANGED <<screen, device, mounted, today>> /\ DraftOK'
    BY <1>11, Zenon DEF AtOnce, PeriodOK, DraftOK, Begun
  <2>3. ASSUME NEW day \in Days, Take(Picked(from, to, day)) PROVE PeriodOK'
    BY <1>1, <2>1, <2>2, <2>3, PickedDates, TakeStep
  <2>4. ASSUME NEW p \in c.presets, Take(Preset(p, today)) PROVE PeriodOK'
    <3>1. p \in Usual \cup {"all"}
      BY <2>1, ControlTraits, Zenon
    <3>2. c # CashRangePicker => c.presets = {}
      BY <2>1, ControlTraits, Zenon DEF Immediate
    <3>3. ~Begun
      BY <2>4, <3>2, <1>3, ScreenControls DEF Begun, Controls
    <3>4. QED
      BY <1>1, <2>1, <2>2, <2>4, <3>1, <3>3, PresetDates, TakeStep
  <2>5. QED
    BY <1>11, <2>3, <2>4, Zenon DEF AtOnce
<1>12. CASE ClearPeriod(c)
  <2>1. UNCHANGED <<screen, device, mounted, today>> /\ DraftOK'
        /\ Take(FirstRange)
    BY <1>12 DEF ClearPeriod, PeriodOK, DraftOK, Begun
  <2>2. CASE screen = JournalScreen
    <3>1. FirstRange = <<0, 0>> /\ ~Begun
      BY <1>1, <2>2, PresetDates
      DEF FirstRange, Begun, JournalScreen, Screen
    <3>2. QED
      BY <2>1, <3>1, TakeStep
  <2>3. CASE screen # JournalScreen
    <3>1. FirstRange = Preset("month", mounted) /\ "month" \in Usual
      BY <2>3 DEF FirstRange, Usual
    <3>2. QED
      BY <1>1, <2>1, <3>1, PresetDates, TakeStep
  <2>4. QED
    BY <2>2, <2>3
<1>13. QED
  BY <1>5, <1>6, <1>7, <1>8, <1>9, <1>10, <1>11, <1>12

\* The chips of the ledger leave the dates alone, but for the reset of all.
LEMMA LedgerKeepsRange == PeriodOK /\ Ledger => PeriodOK'
<1> SUFFICES ASSUME PeriodOK, Ledger PROVE PeriodOK'
  OBVIOUS
<1>1. CASE ResetAll
  <2>1. DraftOK' /\ UNCHANGED <<screen, device, mounted, today>>
    BY <1>1, Zenon DEF ResetAll, PeriodOK, DraftOK, Begun
  <2>2. Take(Preset("month", mounted)) /\ "month" \in Usual
    BY <1>1, Zenon DEF ResetAll, Usual
  <2>3. mounted \in {MonthStart + 1, MonthStart + 2}
    BY DEF PeriodOK, ClockOK
  <2>4. QED
    BY <2>1, <2>2, <2>3, PresetDates, TakeStep
<1>2. CASE ChooseDirection \/ OpenTypes \/ PickType \/ ApplyType \/ ClearType
  <2>1. UNCHANGED <<screen, device, from, to, mounted, today>>
    BY <1>2, Zenon
    DEF ChooseDirection, OpenTypes, PickType, ApplyType, ClearType
  <2>2. \/ draft' = draft \/ draft' = Closed
        \/ draft' = [Closed EXCEPT !.sheet = "type", !.value = eventType,
                                   !.category = expenseCategory]
        \/ \E p \in Pickable :
              draft' = [draft EXCEPT !.value = p[1], !.category = p[2]]
    BY <1>2, Zenon
    DEF ChooseDirection, OpenTypes, PickType, ApplyType, ClearType
  <2>3. CASE draft' = draft
    BY <2>1, <2>3 DEF PeriodOK, ClockOK, RangeOK, DraftOK, Narrow, Begun
  <2>4. DraftOK'
    <3>1. CASE draft' = Closed
      BY <2>1, <3>1, ClosedOK
    <3>2. CASE draft' = [Closed EXCEPT !.sheet = "type", !.value = eventType,
                                       !.category = expenseCategory]
      BY <3>2 DEF Closed, DraftOK, Sheets, Sketched
    <3>3. CASE \E p \in Pickable :
              draft' = [draft EXCEPT !.value = p[1], !.category = p[2]]
      BY <2>1, <3>3 DEF PeriodOK, DraftOK, Begun
    <3>4. QED
      BY <2>1, <2>2, <3>1, <3>2, <3>3, Zenon DEF PeriodOK, DraftOK, Begun
  <2>5. QED
    BY <2>1, <2>4 DEF PeriodOK, ClockOK, RangeOK, Narrow, Begun
<1>3. QED
  BY <1>1, <1>2 DEF Ledger

\* A page that is opened starts with its first range.
LEMMA OpenedOK ==
    ASSUME ClockOK, draft = Closed,
           from = Preset(screen.first, today)[1],
           to = Preset(screen.first, today)[2]
    PROVE  PeriodOK
<1>1. screen.first \in Usual \cup {"all"}
  BY ScreenControls DEF ClockOK
<1>2. RangeOK
  BY <1>1, PresetDates DEF ClockOK, RangeOK, Begun
<1>3. DraftOK
  BY Zenon DEF Closed, DraftOK, Sheets, Sketched
<1>4. QED
  BY <1>2, <1>3 DEF PeriodOK

\* Words made today of a range, or of a preset that it is, name its days.
LEMMA WordsName ==
    ASSUME since = today, NEW presets, NEW a, NEW b
    PROVE  Words(presets, a, b) = Until(a, b)
<1> DEFINE same == {p \in presets : Preset(p, since) = <<a, b>>}
<1>1. CASE same = {}
  BY <1>1 DEF Words
<1>2. CASE same # {}
  <2>1. (CHOOSE p \in same : TRUE) \in same
    BY <1>2
  <2>2. Preset(CHOOSE p \in same : TRUE, today) = <<a, b>>
    BY <2>1
  <2>3. Means(CHOOSE p \in same : TRUE) = Until(a, b)
    BY <2>2 DEF Means
  <2>4. QED
    BY <1>2, <2>3 DEF Words
<1>3. QED
  BY <1>1, <1>2

\* What each control names.
LEMMA NamedBy ==
    /\ Named(DesktopDateRangePicker) =
            IF from = 0 \/ to = 0 THEN Means("maximum")
            ELSE Words(DesktopDateRangePicker.presets, from, to)
    /\ Named(DateRangeBottomSheet) =
            IF from = 0 THEN Means("maximum")
            ELSE Words(DateRangeBottomSheet.presets, from, End)
    /\ Named(FinanceFilterBar) =
            IF from = 0 THEN Anything
            ELSE IF OfThatMonth THEN Means("month")
            ELSE Words(FinanceFilterBar.presets, from, End)
    /\ Named(MobileFilterChip) =
            IF OfThatMonth THEN Means("month")
            ELSE Words({"today", "yesterday"}, from, to)
    /\ Named(CashRangePicker) =
            IF from = 0 THEN Means("maximum")
            ELSE IF to = 0 THEN Anything
            ELSE Words(CashRangePicker.presets, from, to)
    /\ \A c \in {MobileDateRangeCalendar, JournalChip} :
            Named(c) = IF from = 0 \/ to = 0 THEN Anything ELSE Until(from, to)
BY NamesApart DEF Named

\* Under that invariant a control names what the server reads.
LEMMA NamesRead ==
    ASSUME PeriodOK, ~HalfByDesktop, NEW c \in Controls, ~Stale(c),
           ~NamesNone(c), NEW reading \in screen.readings
    PROVE  Named(c) = ServerReads(reading)
<1> DEFINE first == IF reading = "month" THEN MonthStart ELSE Oldest
           DDP == DesktopDateRangePicker
<1>1. ServerReads(reading) =
            Until(IF from = 0 THEN first ELSE from,
                  IF to = 0 THEN today ELSE to)
  BY DEF ServerReads
<1>2. /\ screen \in Screens /\ device \in {"desktop", "mobile"}
      /\ from = 0 => to = 0
      /\ since = today
  BY DEF PeriodOK, ClockOK, RangeOK, Stale
<1>3. /\ Means("maximum") = Until(Oldest, today)
      /\ Means("month") = Until(MonthStart, today)
  BY DEF Means, Preset
<1>4. /\ c \in {DDP} \cup OneDay \cup Immediate
      /\ device = "desktop" => c \in {DDP, FinanceFilterBar}
      /\ device = "mobile" => c \in screen.controls["mobile"]
      /\ device = "mobile" => c \in OneDay \cup Immediate
  BY OfThePage DEF Controls
<1>5. device = "desktop" => DDP \in Controls
  BY <1>2, ScreenControls DEF Controls
<1>6. "month" \notin screen.readings => first = Oldest
  OBVIOUS
<1> HIDE DEF first, DDP
<1>7. CASE from # 0 /\ to # 0
  <2>1. ServerReads(reading) = Until(from, to) /\ End = to
    BY <1>1, <1>7 DEF End
  <2>2. \A presets : Words(presets, from, to) = Until(from, to)
    BY <1>2, WordsName
  <2>3. OfThatMonth /\ mounted = today => Means("month") = Until(from, to)
    BY <1>3 DEF OfThatMonth, Preset
  <2>4. c \in {FinanceFilterBar, MobileFilterChip} => mounted = today
    BY DEF Stale
  <2>5. QED
    BY <1>4, <1>7, <2>1, <2>2, <2>3, <2>4, NamedBy DEF OneDay, Immediate, DDP
<1>8. CASE from = 0
  <2>1. to = 0 /\ ServerReads(reading) = Until(first, today)
    BY <1>1, <1>2, <1>8
  <2>2. "month" \notin screen.readings
    <3>1. CASE device = "desktop"
      BY <1>5, <2>1, <3>1 DEF HalfByDesktop, DDP
    <3>2. CASE device = "mobile"
      BY <1>2, <1>8, <3>2, ScreenControls DEF PeriodOK, RangeOK, Begun
    <3>3. QED
      BY <1>2, <3>1, <3>2
  <2>3. c # MobileFilterChip
    <3>1. CASE device = "desktop"
      <4>1. MobileFilterChip \notin {DDP, FinanceFilterBar}
        BY NamesApart DEF DDP
      <4>2. QED
        BY <1>4, <3>1, <4>1
    <3>2. CASE device = "mobile"
      BY <1>2, <1>4, <1>8, <3>2, ScreenControls DEF PeriodOK, RangeOK, Begun
    <3>3. QED
      BY <1>2, <3>1, <3>2
  <2>4. c \in {DDP, DateRangeBottomSheet, CashRangePicker}
    BY <1>4, <1>8, <2>3 DEF NamesNone, OneDay, Immediate
  <2>5. Named(c) = Until(Oldest, today)
    BY <1>3, <1>8, <2>4, NamedBy DEF DDP
  <2>6. QED
    BY <1>6, <2>1, <2>2, <2>5
<1>9. CASE from # 0 /\ to = 0
  <2>1. device = "mobile"
    BY <1>2, <1>5, <1>9 DEF HalfByDesktop, DDP
  <2>2. c \notin OneDay
    <3>1. screen.controls["mobile"] \subseteq OneDay
            \/ screen.controls["mobile"] \subseteq Immediate
      BY <1>2, ScreenControls
    <3>2. \A d \in OneDay : d \notin Immediate
      BY ControlTraits, Zenon
    <3>3. QED
      BY <1>4, <1>9, <2>1, <3>1, <3>2 DEF PeriodOK, RangeOK, Narrow
  <2>3. c \in Immediate
    BY <1>4, <2>1, <2>2
  <2>4. QED
    BY <1>9, <2>3 DEF NamesNone, Immediate
<1>10. QED
  BY <1>7, <1>8, <1>9

\* Through drafts, presets, single taps, typed dates, the cross, midnight and
\* leaving the page, a period control names the days that the server reads.
THEOREM ReadIsNamed == PeriodSpec => []NamesWhatIsRead
<1>1. PeriodInit => PeriodOK
  <2> SUFFICES ASSUME PeriodInit PROVE PeriodOK
    OBVIOUS
  <2>1. ClockOK
    BY Zenon DEF PeriodInit, ClockOK
  <2>2. QED
    BY <2>1, OpenedOK, Zenon DEF PeriodInit
<1>2. PeriodOK /\ [PeriodNext]_periodVars => PeriodOK'
  <2> SUFFICES ASSUME PeriodOK, [PeriodNext]_periodVars PROVE PeriodOK'
    OBVIOUS
  <2>1. CASE CloseSheet
    <3>1. DraftOK' /\ UNCHANGED <<screen, device, from, to, mounted, today>>
      BY <2>1, ClosedOK DEF CloseSheet
    <3>2. QED
      BY <3>1 DEF PeriodOK, ClockOK, RangeOK, Narrow, Begun
  <2>2. CASE Midnight
    BY <2>2, PeriodAssumption
    DEF Midnight, PeriodOK, ClockOK, RangeOK, DraftOK, Narrow, Begun
  <2>3. CASE Reopen
    <3>1. ClockOK' /\ DraftOK' /\ UNCHANGED <<screen, device>>
      BY <2>3, ClosedOK, Zenon DEF Reopen, PeriodOK, ClockOK
    <3>2. screen.first \in Usual \cup {"all"}
      BY ScreenControls DEF PeriodOK, ClockOK
    <3>3. RangeOK'
      <4> DEFINE first == Preset(screen.first, today)
      <4>1. today \in {MonthStart + 1, MonthStart + 2}
        BY DEF PeriodOK, ClockOK
      <4>2. /\ first[1] \in Nat /\ first[2] \in Nat
            /\ screen.first = "all" => first = <<0, 0>>
            /\ screen.first # "all" => first[1] # 0 /\ first[2] # 0
        BY <3>2, <4>1, PresetDates
      <4>3. from' = first[1] /\ to' = first[2]
        BY <2>3, Zenon DEF Reopen
      <4> HIDE DEF first
      <4>4. QED
        BY <3>1, <4>2, <4>3 DEF RangeOK, Begun
    <3>4. QED
      BY <3>1, <3>3 DEF PeriodOK
  <2>4. CASE UNCHANGED periodVars
    BY <2>4
    DEF periodVars, PeriodOK, ClockOK, RangeOK, DraftOK, Narrow, Begun
  <2>5. QED
    BY <2>1, <2>2, <2>3, <2>4, ControlKeepsRange, LedgerKeepsRange
    DEF PeriodNext
<1>3. PeriodOK => NamesWhatIsRead
  BY NamesRead DEF NamesWhatIsRead
<1>4. QED
  BY <1>1, <1>2, <1>3, PTL DEF PeriodSpec

------------------------------------------------------------------------------
(* Office orders                                                           *)

\* Why OrderedPerAnswer holds: a fill that is in the form or on its way was
\* ordered only by submissions whose answers were lost, and one that is not
\* typed yet was not ordered at all.
Counted(f) ==
    /\ f = 0 \/ f > typed => Ordered(f) = 0
    /\ f = entered.fill \/ (asked # NoJob /\ f = asked.fill)
         => Ordered(f) <= unheard[f]
    /\ Ordered(f) <= 1 + unheard[f]

Tally ==
    /\ entered.fill <= typed
    /\ asked # NoJob => asked.fill \in 1..typed
    /\ \A f \in Fill : Counted(f)

\* The orders of a fill are counted by a natural number.
LEMMA OrderedIsNat ==
    ASSUME placed \in Seq(Fill), NEW f \in Fill PROVE Ordered(f) \in Nat
<1>1. IsFiniteSet(1..Len(placed))
  BY FS_Interval
<1>2. IsFiniteSet({i \in DOMAIN placed : placed[i] = f})
  BY <1>1, FS_Subset
<1>3. QED
  BY <1>2, FS_CardinalityType DEF Ordered

\* An order that comes in counts for its fill, and for no other.
LEMMA PlacedOnce ==
    ASSUME placed \in Seq(Fill), NEW g \in Fill, placed' = Append(placed, g),
           NEW f \in Fill
    PROVE  Ordered(f)' = IF f = g THEN Ordered(f) + 1 ELSE Ordered(f)
<1> DEFINE Before == {i \in DOMAIN placed : placed[i] = f}
           After == {i \in DOMAIN placed' : placed'[i] = f}
           next == Len(placed) + 1
<1>1. DOMAIN placed' = DOMAIN placed \cup {next} /\ next \notin DOMAIN placed
  OBVIOUS
<1>2. /\ \A i \in DOMAIN placed : placed'[i] = placed[i]
      /\ placed'[next] = g
  OBVIOUS
<1>3. IsFiniteSet(Before) /\ next \notin Before
  BY <1>1, FS_Interval, FS_Subset
<1>4. CASE f = g
  <2>1. After = Before \cup {next}
    BY <1>1, <1>2, <1>4
  <2>2. Cardinality(After) = Cardinality(Before) + 1
    BY <1>3, <2>1, FS_AddElement
  <2>3. QED
    BY <1>4, <2>2 DEF Ordered
<1>5. CASE f # g
  <2>1. After = Before
    BY <1>1, <1>2, <1>5
  <2>2. QED
    BY <1>5, <2>1 DEF Ordered
<1>6. QED
  BY <1>4, <1>5

\* What is asked for, where something is.
LEMMA AskedTyped ==
    OfficeTypeOK /\ asked # NoJob => asked \in [fill: Fill, created: BOOLEAN]
BY DEF OfficeTypeOK

\* Every step keeps the types.
LEMMA OfficeTypes ==
    ASSUME MaxFills \in Nat, OfficeTypeOK, [OfficeNext]_officeVars
    PROVE OfficeTypeOK'
<1>1. CASE Toggle \/ Refused \/ UNCHANGED officeVars
  BY <1>1 DEF OfficeTypeOK, Toggle, Refused, officeVars
<1>2. CASE Enter
  <2>1. typed + 1 \in Fill
    BY <1>2 DEF OfficeTypeOK, Enter, Fill
  <2>2. entered' \in [fill: Fill, known: BOOLEAN]
    BY <1>2, <2>1 DEF OfficeTypeOK, Enter
  <2>3. QED
    BY <1>2, <2>1, <2>2 DEF OfficeTypeOK, Enter
<1>3. CASE SelectCustomer
  <2>1. entered' \in [fill: Fill, known: BOOLEAN]
    BY <1>3 DEF OfficeTypeOK, SelectCustomer
  <2>2. QED
    BY <1>3, <2>1 DEF OfficeTypeOK, SelectCustomer
<1>4. CASE SubmitOrder
  <2>1. entered.fill \in Fill /\ entered.known \in BOOLEAN
    BY DEF OfficeTypeOK
  <2>2. asked' \in [fill: Fill, created: BOOLEAN]
    BY <1>4, <2>1 DEF SubmitOrder
  <2>3. QED
    BY <1>4, <2>2 DEF OfficeTypeOK, SubmitOrder
<1>5. CASE CreateCustomer
  <2>1. asked' \in [fill: Fill, created: BOOLEAN]
    BY <1>5, AskedTyped DEF CreateCustomer
  <2>2. customers' \in [Fill -> Nat]
    BY <1>5 DEF CreateCustomer, OfficeTypeOK
  <2>3. QED
    BY <1>5, <2>1, <2>2 DEF OfficeTypeOK, CreateCustomer
<1>6. CASE OrderTaken \/ AnswerLost
  <2>1. placed' \in Seq(Fill)
    <3>1. asked.fill \in Fill
      BY <1>6, AskedTyped DEF OrderTaken, AnswerLost, Place
    <3>2. QED
      <4>1. placed' = Append(placed, asked.fill)
        BY <1>6 DEF OrderTaken, AnswerLost, Place
      <4>2. placed \in Seq(Fill)
        BY DEF OfficeTypeOK
      <4>3. QED
        BY <3>1, <4>1, <4>2
  <2>2. unheard' \in [Fill -> Nat]
    BY <1>6 DEF OrderTaken, AnswerLost, OfficeTypeOK
  <2>3. entered' \in [fill: Fill, known: BOOLEAN]
    <3>1. EMPTY \in [fill: Fill, known: BOOLEAN]
      BY DEF EMPTY, Fill
    <3>2. QED
      BY <1>6, <3>1 DEF OrderTaken, AnswerLost, OfficeTypeOK
  <2>4. QED
    BY <1>6, <2>1, <2>2, <2>3 DEF OrderTaken, AnswerLost, OfficeTypeOK
<1>7. QED
  BY <1>1, <1>2, <1>3, <1>4, <1>5, <1>6 DEF OfficeNext

\* A step that takes no order keeps Tally where what is entered and asked was.
LEMMA OfficeQuiet ==
    ASSUME OfficeTypeOK, Tally, UNCHANGED <<placed, unheard, typed>>,
           entered'.fill = entered.fill,
           asked' # NoJob => \/ asked'.fill = entered.fill /\ entered.fill # 0
                             \/ asked # NoJob /\ asked'.fill = asked.fill
    PROVE  Tally'
<1>1. entered.fill \in Nat /\ typed \in Nat
  BY DEF OfficeTypeOK, Fill
<1>2. entered'.fill <= typed'
  BY DEF Tally
<1>3. asked' # NoJob => asked'.fill \in 1..typed'
  BY <1>1 DEF Tally
<1>4. ASSUME NEW f \in Fill PROVE Counted(f)'
  <2>1. Ordered(f)' = Ordered(f)
    BY DEF Ordered
  <2>2. Counted(f)
    BY DEF Tally
  <2>3. QED
    BY <2>1, <2>2 DEF Counted
<1>5. QED
  BY <1>2, <1>3, <1>4 DEF Tally

\* Every step keeps Tally.
LEMMA TallyStep ==
    ASSUME MaxFills \in Nat, OfficeTypeOK, Tally, [OfficeNext]_officeVars
    PROVE Tally'
<1>n. \A f \in Fill : Ordered(f) \in Nat /\ unheard[f] \in Nat
  BY OrderedIsNat DEF OfficeTypeOK
<1>t. typed \in Nat /\ \A f \in Fill : f \in Nat
  BY DEF OfficeTypeOK, Fill
<1>1. CASE Toggle \/ SelectCustomer \/ SubmitOrder \/ CreateCustomer \/ Refused
  <2>1. UNCHANGED <<placed, unheard, typed>>
    BY <1>1 DEF Toggle, SelectCustomer, SubmitOrder, CreateCustomer, Refused
  <2>2. entered'.fill = entered.fill
    BY <1>1 DEF OfficeTypeOK, Toggle, SelectCustomer, SubmitOrder,
        CreateCustomer, Refused
  <2>3. asked' # NoJob => \/ asked'.fill = entered.fill /\ entered.fill # 0
                          \/ asked # NoJob /\ asked'.fill = asked.fill
    <3>1. CASE CreateCustomer
      BY <3>1, AskedTyped DEF CreateCustomer
    <3>2. QED
      BY <1>1, <3>1 DEF Toggle, SelectCustomer, SubmitOrder, Refused
  <2>4. QED
    BY <2>1, <2>2, <2>3, OfficeQuiet
<1>2. CASE Enter
  <2>1. /\ UNCHANGED <<placed, unheard, asked>> /\ typed' = typed + 1
        /\ entered'.fill = typed + 1
    BY <1>2 DEF OfficeTypeOK, Enter
  <2>2. ASSUME NEW f \in Fill PROVE Counted(f)'
    <3>1. Ordered(f)' = Ordered(f)
      BY <2>1 DEF Ordered
    <3>2. Counted(f)
      BY DEF Tally
    <3>3. QED
      BY <1>n, <1>t, <2>1, <3>1, <3>2 DEF Counted
  <2>3. asked' # NoJob => asked'.fill \in 1..typed'
    BY <1>t, <2>1 DEF Tally
  <2>4. QED
    BY <1>t, <2>1, <2>2, <2>3 DEF Tally
<1>3. CASE OrderTaken \/ AnswerLost
  <2> DEFINE g == asked.fill
  <2>1. asked # NoJob /\ g \in 1..typed /\ g \in Fill
    BY <1>3, AskedTyped DEF OrderTaken, AnswerLost, Place, Tally
  <2>2. placed' = Append(placed, g) /\ asked' = NoJob /\ UNCHANGED typed
    BY <1>3 DEF OrderTaken, AnswerLost, Place
  <2>3. ASSUME NEW f \in Fill
        PROVE  Ordered(f)' = IF f = g THEN Ordered(f) + 1 ELSE Ordered(f)
    BY <2>1, <2>2, PlacedOnce DEF OfficeTypeOK
  <2>4. \/ entered'.fill = 0 /\ UNCHANGED unheard
        \/ entered' = entered /\ unheard' = [unheard EXCEPT ![g] = @ + 1]
    BY <1>3 DEF OrderTaken, AnswerLost, EMPTY
  <2>5. ASSUME NEW f \in Fill PROVE Counted(f)'
    <3>c. Counted(f)
      BY DEF Tally
    <3>1. Counted(f) /\ (f = g => Ordered(f) <= unheard[f])
      BY <2>1, <3>c DEF Counted
    <3>2. unheard'[f] = unheard[f] \/ unheard'[f] = unheard[f] + 1
      <4>1. unheard \in [Fill -> Nat]
        BY DEF OfficeTypeOK
      <4>2. CASE UNCHANGED unheard
        BY <4>2
      <4>3. CASE unheard' = [unheard EXCEPT ![g] = @ + 1]
        BY <2>1, <4>1, <4>3
      <4>4. QED
        BY <2>4, <4>2, <4>3
    <3>3. f = g => Ordered(f)' <= 1 + unheard[f] /\ f \in 1..typed
      BY <1>n, <2>1, <2>3, <3>1
    <3>4. CASE entered'.fill = 0 /\ UNCHANGED unheard
      BY <1>n, <1>t, <2>2, <2>3, <3>1, <3>3, <3>4 DEF Counted
    <3>5. CASE entered' = entered /\ unheard' = [unheard EXCEPT ![g] = @ + 1]
      <4>1. f = g => unheard'[f] = unheard[f] + 1
        BY <2>1, <3>5 DEF OfficeTypeOK
      <4>2. QED
        BY <1>n, <1>t, <2>2, <2>3, <3>1, <3>2, <3>3, <3>5, <4>1 DEF Counted
    <3>6. QED
      BY <2>4, <3>4, <3>5
  <2>6. entered'.fill <= typed'
    BY <1>t, <2>2, <2>4 DEF Tally
  <2>7. QED
    BY <2>2, <2>5, <2>6 DEF Tally
<1>4. CASE UNCHANGED officeVars
  BY <1>4, OfficeQuiet DEF officeVars
<1>5. QED
  BY <1>1, <1>2, <1>3, <1>4 DEF OfficeNext

\* The dialog's order is taken once for everything that is entered, and once
\* more for every answer that was lost, though it can be closed, opened, typed
\* in and refused at any moment of a submission.
THEOREM OfficeOrdersOnce ==
    ASSUME MaxFills \in Nat PROVE OfficeSpec => []OrderedPerAnswer
<1>1. OfficeInit => OfficeTypeOK /\ Tally
  <2> SUFFICES ASSUME OfficeInit PROVE OfficeTypeOK /\ Tally
    OBVIOUS
  <2>1. OfficeTypeOK
    <3>1. 0 \in Fill
      BY DEF Fill
    <3>2. EMPTY \in [fill: Fill, known: BOOLEAN]
      BY <3>1 DEF EMPTY
    <3>3. placed \in Seq(Fill)
      BY DEF OfficeInit
    <3>4. customers \in [Fill -> Nat] /\ unheard \in [Fill -> Nat]
      BY DEF OfficeInit
    <3>5. QED
      BY <3>1, <3>2, <3>3, <3>4 DEF OfficeInit, OfficeTypeOK
  <2>2. \A f \in Fill : Ordered(f) = 0
    <3> TAKE f \in Fill
    <3>1. {i \in DOMAIN placed : placed[i] = f} = {}
      BY DEF OfficeInit
    <3>2. QED
      BY <3>1, FS_EmptySet DEF Ordered
  <2>3. QED
    BY <2>1, <2>2 DEF OfficeInit, Tally, Counted, EMPTY, Fill
<1>2. OfficeTypeOK /\ Tally /\ [OfficeNext]_officeVars
        => (OfficeTypeOK /\ Tally)'
  BY OfficeTypes, TallyStep
<1>3. Tally => OrderedPerAnswer
  BY DEF Tally, Counted, OrderedPerAnswer
<1>4. QED
  BY <1>1, <1>2, <1>3, PTL DEF OfficeSpec

------------------------------------------------------------------------------
(* The seller's new order (OrderForm)                                      *)

\* What the page keeps, whatever files and uploads there are.
SellerForm == [fill: Nat, known: BOOLEAN, prepaid: BOOLEAN, bare: BOOLEAN]
FormJob(F, A) ==
    [stage: {"customer", "upload", "order"}, form: SellerForm, file: F,
     asset: A]
FormsTyped ==
    /\ fills \in Nat
    /\ form \in SellerForm
    /\ formDraft \in SellerForm \cup {NoForm}
    /\ formScreen \in {"form", "success", "away"}
    /\ \E F, A : jobs \in [Create!Place -> FormJob(F, A) \cup {NoJob}]
    /\ \E B : orders \in Seq(B)

\* An order is one of what was typed; a page that was left is in doubt, and
\* only a page with its form on the screen submits.
FillsKnown ==
    /\ form.fill <= fills
    /\ formDraft # NoForm => formDraft.fill <= fills
    /\ \A m \in Create!Place : jobs[m] # NoJob
          => jobs[m].form.fill \in 1..fills
    /\ \A i \in DOMAIN orders : orders[i].fill \in 1..fills
    /\ jobs["left"] # NoJob => jobs["left"].form.fill \in doubt
    /\ formScreen # "form" => jobs["here"] = NoJob

\* What was ordered and is not in doubt is nowhere to be sent again.
IsOrdered(f) == \E i \in DOMAIN orders : orders[i].fill = f
IsGone(f) ==
    /\ formScreen = "form" => form.fill # f
    /\ formDraft # NoForm => formDraft.fill # f
    /\ \A m \in Create!Place : jobs[m] # NoJob => jobs[m].form.fill # f
OrderedIsGone == \A f : IsOrdered(f) => f \in doubt \/ IsGone(f)

OnceInv == FormsTyped /\ FillsKnown /\ OrderedIsGone /\ NoSilentDuplicate

\* A step that takes no order.
LEMMA NoOrderStep ==
    ASSUME OnceInv, UNCHANGED orders, FormsTyped', FillsKnown',
           doubt \subseteq doubt',
           \A f : IsOrdered(f) /\ f \notin doubt' /\ IsGone(f) => IsGone(f)'
    PROVE  OnceInv'
BY DEF OnceInv, OrderedIsGone, IsOrdered, NoSilentDuplicate,
   Create!NoSilentDuplicate

\* A submission that goes on or fails leaves what is typed as it is.
LEMMA JobStep ==
    ASSUME OnceInv, UNCHANGED <<orders, fills, form, formDraft, formScreen>>,
           UNCHANGED doubt, NEW m \in Create!Place, NEW job,
           jobs' = [jobs EXCEPT ![m] = job],
           \/ job = NoJob
           \/ /\ \E F, A : job \in FormJob(F, A)
              /\ jobs[m] # NoJob /\ job.form = jobs[m].form
           \/ /\ \E F, A : job \in FormJob(F, A)
              /\ m = "here" /\ formScreen = "form" /\ job.form = form
              /\ form.fill # 0
    PROVE  OnceInv'
<1> USE DEF OnceInv
<1>1. PICK F, A : jobs \in [Create!Place -> FormJob(F, A) \cup {NoJob}]
  BY DEF FormsTyped
<1>2. /\ jobs'[m] = job
      /\ \A n \in Create!Place : n # m => jobs'[n] = jobs[n]
  BY <1>1
<1>3. FormsTyped'
  <2>1. PICK G, B : job \in FormJob(G, B) \cup {NoJob}
    OBVIOUS
  <2>2. jobs' \in [Create!Place -> FormJob(F \cup G, A \cup B) \cup {NoJob}]
    BY <1>1, <2>1 DEF FormJob
  <2>3. QED
    BY <2>2 DEF FormsTyped
<1>4. form.fill \in Nat /\ fills \in Nat
  BY DEF FormsTyped, SellerForm
<1>5. m \in {"here", "left"} /\ "here" \in Create!Place
      /\ "left" \in Create!Place
  BY DEF Create!Place
<1>6. FillsKnown'
  BY <1>2, <1>4, <1>5 DEF FillsKnown
<1>7. ASSUME NEW f, IsGone(f) PROVE IsGone(f)'
  BY <1>2, <1>7 DEF IsGone
<1>8. QED
  BY <1>3, <1>6, <1>7, NoOrderStep

\* What comes after the customer is the same submission.
LEMMA AfterIsSame ==
    ASSUME NEW F, NEW A, NEW job \in FormJob(F, A), NEW r
    PROVE  /\ Create!AfterCustomer(job, r) \in FormJob(F, A \cup {r})
           /\ Create!AfterCustomer(job, r).form = job.form
BY DEF Create!AfterCustomer, FormJob

\* The requests of a submission that is not answered with an order.
LEMMA RequestStep ==
    ASSUME OnceInv, NEW m \in Create!Place,
           \/ Create!CreateCustomer(m) \/ Create!UploadToMedia(m)
           \/ Create!FailsBeforeOrder(m) \/ Create!OrderRefused(m)
           \/ Create!OrderRejected(m)
    PROVE  OnceInv'
<1>1. UNCHANGED <<orders, fills, form, formDraft, formScreen, doubt>>
  BY DEF Create!CreateCustomer, Create!UploadToMedia, Create!FailsBeforeOrder,
         Create!OrderRefused, Create!OrderRejected, Create!history
<1>2. PICK F, A : jobs \in [Create!Place -> FormJob(F, A) \cup {NoJob}]
  BY DEF OnceInv, FormsTyped
<1>3. CASE Create!CreateCustomer(m)
  <2>1. /\ jobs[m] # NoJob
        /\ jobs' = [jobs EXCEPT ![m] =
                        Create!AfterCustomer(jobs[m], cached[m])]
    BY <1>3 DEF Create!CreateCustomer, Create!Sent
  <2>2. jobs[m] \in FormJob(F, A)
    BY <1>2, <2>1
  <2> DEFINE job == Create!AfterCustomer(jobs[m], cached[m])
  <2>3. job \in FormJob(F, A \cup {cached[m]}) /\ job.form = jobs[m].form
    BY <2>2, AfterIsSame
  <2>4. jobs' = [jobs EXCEPT ![m] = job]
    BY <2>1
  <2> HIDE DEF job
  <2>5. QED
    BY <1>1, <2>1, <2>3, <2>4, JobStep
<1>4. CASE Create!UploadToMedia(m)
  <2> DEFINE new == Len(assets')
             job == [jobs[m] EXCEPT !.stage = "order", !.asset = new]
  <2>1. /\ jobs[m] # NoJob
        /\ jobs' = [jobs EXCEPT ![m].stage = "order", ![m].asset = new]
    BY <1>4 DEF Create!UploadToMedia, Create!Sent
  <2>2. jobs[m] \in FormJob(F, A)
    BY <1>2, <2>1
  <2> HIDE DEF new
  <2>3. job \in FormJob(F, A \cup {new}) /\ job.form = jobs[m].form
    BY <2>2 DEF FormJob
  <2>4. jobs' = [jobs EXCEPT ![m] = job]
    BY <1>2, <2>1
  <2> HIDE DEF job
  <2>5. QED
    BY <1>1, <2>1, <2>3, <2>4, JobStep
<1>5. CASE \/ Create!FailsBeforeOrder(m) \/ Create!OrderRefused(m)
           \/ Create!OrderRejected(m)
  <2>1. jobs' = [jobs EXCEPT ![m] = NoJob]
    BY <1>5 DEF Create!FailsBeforeOrder, Create!OrderRefused,
         Create!OrderRejected, Create!OnError
  <2>2. QED
    BY <1>1, <2>1, JobStep
<1>6. QED
  BY <1>3, <1>4, <1>5

\* The button.
LEMMA SubmitStep == ASSUME OnceInv, Create!Submit PROVE OnceInv'
<1> DEFINE job == [stage |-> "customer", form |-> form, file |-> proof,
                   asset |-> NoAsset]
           next == IF form.known THEN Create!AfterCustomer(job, cached["here"])
                                 ELSE job
<1>1. /\ UNCHANGED <<orders, fills, form, formDraft, formScreen, doubt>>
      /\ formScreen = "form" /\ form.fill # 0
      /\ jobs' = [jobs EXCEPT !["here"] = next]
  BY DEF Create!Submit, Create!CanSubmit, Create!history
<1>2. job \in FormJob({proof}, {NoAsset}) /\ job.form = form
  BY DEF FormJob, OnceInv, FormsTyped
<1> HIDE DEF job
<1>3. /\ next \in FormJob({proof}, {NoAsset} \cup {cached["here"]})
                    \cup FormJob({proof}, {NoAsset})
      /\ next.form = form
  BY <1>2, AfterIsSame
<1> HIDE DEF next
<1>4. "here" \in Create!Place
  BY DEF Create!Place
<1>5. QED
  BY <1>1, <1>3, <1>4, JobStep

\* A form that is set holds something new, nothing at all, what is typed on
\* the screen or saved as the draft, or what is in doubt.
LEMMA FormStep ==
    ASSUME OnceInv, UNCHANGED <<orders, jobs>>, doubt \subseteq doubt',
           fills' \in Nat, fills' >= fills, form' \in SellerForm,
           formDraft' = form', form'.fill <= fills',
           formScreen' = "form" \/ formScreen' = formScreen,
           \/ form'.fill \in {0, fills + 1} \/ form'.fill \in doubt'
           \/ formScreen = "form" /\ form'.fill = form.fill
           \/ formDraft # NoForm /\ form'.fill = formDraft.fill
    PROVE  OnceInv'
<1> USE DEF OnceInv
<1>1. fills \in Nat /\ \A f : IsOrdered(f) => f \in 1..fills
  BY DEF FormsTyped, FillsKnown, IsOrdered
<1>2. FormsTyped'
  BY DEF FormsTyped
<1>3. FillsKnown'
  <2>1. \A m \in Create!Place : jobs'[m] # NoJob
            => jobs'[m].form.fill \in 1..fills'
    BY <1>1 DEF FillsKnown
  <2>2. \A i \in DOMAIN orders' : orders'[i].fill \in 1..fills'
    BY <1>1 DEF FillsKnown
  <2>3. QED
    BY <2>1, <2>2 DEF FillsKnown
<1>4. ASSUME NEW f, IsOrdered(f), f \notin doubt', IsGone(f) PROVE IsGone(f)'
  <2>1. form'.fill # f
    BY <1>1, <1>4 DEF IsGone
  <2>2. QED
    BY <1>4, <2>1 DEF IsGone
<1>5. QED
  BY <1>2, <1>3, <1>4, NoOrderStep

\* Typing, the list of customers, the mode of paying, a picture that comes
\* late; and the page that is opened again, or emptied after a success.
LEMMA TypingStep ==
    ASSUME OnceInv,
           \/ \E bare \in BOOLEAN : Create!Type(bare)
           \/ Create!SelectCustomer \/ Create!ClearSelection
           \/ Create!SetPayMode \/ Create!BackfillImages
           \/ Create!HandleCreateAnother \/ Create!Return
    PROVE  OnceInv'
<1>1. /\ fills \in Nat /\ form \in SellerForm /\ form.fill <= fills
      /\ formDraft # NoForm
            => formDraft \in SellerForm /\ formDraft.fill <= fills
  BY DEF OnceInv, FormsTyped, FillsKnown
<1>2. ASSUME NEW bare \in BOOLEAN, Create!Type(bare) PROVE OnceInv'
  <2>1. /\ UNCHANGED <<orders, jobs, doubt, formScreen>> /\ fills' = fills + 1
        /\ form' = [form EXCEPT !.fill = fills + 1, !.bare = bare]
        /\ formDraft' = form'
    BY <1>2, Zenon DEF Create!Type, Create!SetForm
  <2> DEFINE n == fills + 1
  <2>2. n \in Nat /\ form' = [form EXCEPT !.fill = n, !.bare = bare]
    BY <1>1, <2>1
  <2> HIDE DEF n
  <2>3. form' \in SellerForm /\ form'.fill = n
    BY <1>1, <2>2 DEF SellerForm
  <2>4. QED
    BY <1>1, <2>1, <2>2, <2>3, FormStep DEF n
<1>3. CASE \/ Create!SelectCustomer \/ Create!ClearSelection
           \/ Create!SetPayMode
  <2>1. /\ UNCHANGED <<orders, jobs, doubt, fills, formScreen>>
        /\ formScreen = "form" /\ formDraft' = form'
        /\ \/ \E k \in BOOLEAN : form' = [form EXCEPT !.known = k]
           \/ form' = [form EXCEPT !.prepaid = ~@]
    BY <1>3 DEF Create!SelectCustomer, Create!ClearSelection,
         Create!SetPayMode, Create!SetForm, Create!history
  <2>2. form' \in SellerForm /\ form'.fill = form.fill
    BY <1>1, <2>1 DEF SellerForm
  <2>3. QED
    BY <1>1, <2>1, <2>2, FormStep
<1>4. CASE Create!BackfillImages
  <2>1. /\ UNCHANGED <<orders, jobs, fills, formScreen>>
        /\ doubt \subseteq doubt'
        /\ formScreen = "form" \/ form.fill \in doubt'
        /\ formDraft' = form' /\ form' = [form EXCEPT !.bare = FALSE]
    <3>1. formScreen # "away" /\ formScreen \in {"form", "success", "away"}
      BY <1>4 DEF Create!BackfillImages, OnceInv, FormsTyped
    <3>2. QED
      BY <1>4, <3>1 DEF Create!BackfillImages, Create!SetForm
  <2>2. form' \in SellerForm /\ form'.fill = form.fill
    BY <1>1, <2>1 DEF SellerForm
  <2>3. QED
    BY <1>1, <2>1, <2>2, FormStep
<1>5. Create!EMPTY_FORM \in SellerForm /\ Create!EMPTY_FORM.fill = 0
  BY DEF Create!EMPTY_FORM, SellerForm
<1>6. CASE Create!HandleCreateAnother
  <2>1. /\ UNCHANGED <<orders, jobs, doubt, fills>> /\ formScreen' = "form"
        /\ formDraft' = form' /\ form' = Create!EMPTY_FORM
    BY <1>6 DEF Create!HandleCreateAnother, Create!SetForm, Create!history
  <2>2. QED
    BY <1>1, <1>5, <2>1, FormStep
<1>7. CASE Create!Return
  <2>1. /\ UNCHANGED <<orders, jobs, doubt, fills>> /\ formScreen' = "form"
        /\ formDraft' = form'
        /\ form' = IF formDraft = NoForm THEN Create!EMPTY_FORM ELSE formDraft
    BY <1>7 DEF Create!Return, Create!SetForm, Create!history
  <2>2. QED
    BY <1>1, <1>5, <2>1, FormStep
<1>8. QED
  BY <1>2, <1>3, <1>4, <1>6, <1>7

\* A page that goes takes its submission along, and what that may order is in
\* doubt.
LEMMA LeaveStep ==
    ASSUME OnceInv, Create!Leave \/ Create!HandleClear PROVE OnceInv'
<1> USE DEF OnceInv
<1>1. /\ UNCHANGED <<orders, fills>>
      /\ formScreen' = "away"
      /\ jobs' = [m \in Create!Place |->
                    IF m = "left" THEN jobs["here"] ELSE NoJob]
      /\ doubt' = IF jobs["here"] = NoJob THEN doubt
                  ELSE doubt \cup {jobs["here"].form.fill}
      /\ \/ UNCHANGED <<form, formDraft>>
         \/ form' = Create!EMPTY_FORM /\ formDraft' = Create!EMPTY_FORM
  BY DEF Create!Leave, Create!HandleClear, Create!Unmount, Create!SetForm
<1>2. /\ "here" \in Create!Place /\ "left" \in Create!Place
      /\ jobs'["here"] = NoJob /\ jobs'["left"] = jobs["here"]
      /\ \A m \in Create!Place : m = "here" \/ m = "left"
  BY <1>1 DEF Create!Place
<1>3. PICK F, A : jobs \in [Create!Place -> FormJob(F, A) \cup {NoJob}]
  BY DEF FormsTyped
<1>4. Create!EMPTY_FORM \in SellerForm /\ Create!EMPTY_FORM.fill = 0
  BY DEF Create!EMPTY_FORM, SellerForm
<1>5. FormsTyped'
  <2>1. jobs' \in [Create!Place -> FormJob(F, A) \cup {NoJob}]
    BY <1>1, <1>2, <1>3
  <2>2. QED
    BY <1>1, <1>4, <2>1 DEF FormsTyped
<1>6. fills \in Nat
  BY DEF FormsTyped
<1>7. FillsKnown'
  BY <1>1, <1>2, <1>4, <1>6 DEF FillsKnown
<1>8. ASSUME NEW f, IsOrdered(f), IsGone(f) PROVE IsGone(f)'
  <2>1. f # 0
    BY <1>8 DEF IsOrdered, FillsKnown
  <2>2. QED
    BY <1>1, <1>2, <1>4, <1>8, <2>1 DEF IsGone
<1>9. QED
  BY <1>1, <1>5, <1>7, <1>8, NoOrderStep

\* An order that is taken: it was not ordered before, or is in doubt; answered
\* it leaves no draft and no form on the screen, unanswered it is in doubt.
LEMMA TakenStep ==
    ASSUME OnceInv, NEW m \in Create!Place,
           Create!OrderTaken(m) \/ Create!AnswerLost(m)
    PROVE  OnceInv'
<1> USE DEF OnceInv
<1> DEFINE g == jobs[m].form.fill
<1>1. PICK F, A : jobs \in [Create!Place -> FormJob(F, A) \cup {NoJob}]
  BY DEF FormsTyped
<1>2. PICK B : orders \in Seq(B)
  BY DEF FormsTyped
<1>3. PICK new : new.fill = g /\ orders' = Append(orders, new)
  BY DEF Create!OrderTaken, Create!AnswerLost, Create!Create
<1>4. /\ jobs[m] # NoJob
      /\ jobs' = [jobs EXCEPT ![m] = NoJob]
      /\ UNCHANGED <<form, fills>>
      /\ \/ /\ formDraft' = NoForm /\ doubt' = doubt
            /\ formScreen' = IF m = "here" THEN "success" ELSE formScreen
         \/ /\ UNCHANGED <<formDraft, formScreen>>
            /\ doubt' = doubt \cup {g}
  BY DEF Create!OrderTaken, Create!AnswerLost, Create!Create, Create!Sent,
         Create!OnSuccess, Create!OnError, Create!history
<1>5. /\ jobs'[m] = NoJob
      /\ \A n \in Create!Place : n # m => jobs'[n] = jobs[n]
      /\ "here" \in Create!Place /\ "left" \in Create!Place
      /\ \A n \in Create!Place : n = "here" \/ n = "left"
  BY <1>1, <1>4 DEF Create!Place
<1>6. fills \in Nat /\ g \in 1..fills
  BY <1>4 DEF FormsTyped, FillsKnown
<1>7. /\ orders' \in Seq(B \cup {new})
      /\ DOMAIN orders' = DOMAIN orders \cup {Len(orders) + 1}
      /\ Len(orders) + 1 \notin DOMAIN orders
      /\ \A i \in DOMAIN orders : orders'[i] = orders[i]
      /\ orders'[Len(orders) + 1] = new
  <2>1. orders \in Seq(B \cup {new})
    <3>1. orders \in [1..Len(orders) -> B \cup {new}]
      BY <1>2
    <3>2. Len(orders) \in Nat
      BY <1>2
    <3>3. QED
      BY <3>1, <3>2
  <2>2. QED
    BY <1>3, <2>1
<1> DEFINE last == Len(orders) + 1
<1> HIDE DEF g, last
<1>8. FormsTyped'
  <2>1. jobs' \in [Create!Place -> FormJob(F, A) \cup {NoJob}]
    BY <1>1, <1>4
  <2>2. orders' \in Seq(B \cup {new})
    BY <1>7
  <2>3. QED
    BY <1>4, <2>1, <2>2 DEF FormsTyped
<1>9. FillsKnown'
  <2>1. \A i \in DOMAIN orders' : orders'[i].fill \in 1..fills
    BY <1>3, <1>6, <1>7 DEF FillsKnown
  <2>2. QED
    BY <1>4, <1>5, <2>1 DEF FillsKnown
<1>10. \A f : IsOrdered(f)' <=> IsOrdered(f) \/ f = g
  BY <1>3, <1>7 DEF IsOrdered
<1>11. ~IsOrdered(g) \/ g \in doubt'
  BY <1>4 DEF OrderedIsGone, IsGone, g
<1>12. ASSUME NEW f, IsOrdered(f)', f \notin doubt' PROVE IsGone(f)'
  <2>1. CASE f = g
    <3>1. /\ formDraft' = NoForm
          /\ formScreen' = IF m = "here" THEN "success" ELSE formScreen
          /\ g \notin doubt
      BY <1>4, <1>12, <2>1
    <3>2. m = "here"
      BY <1>4, <1>5, <3>1 DEF FillsKnown, g
    <3>3. jobs["left"] # NoJob => jobs["left"].form.fill # g
      BY <3>1 DEF FillsKnown
    <3>4. QED
      BY <1>5, <2>1, <3>1, <3>2, <3>3 DEF IsGone
  <2>2. CASE f # g
    <3>1. IsGone(f)
      BY <1>4, <1>10, <1>12, <2>2 DEF OrderedIsGone
    <3>2. formScreen' = "form" => formScreen = "form"
      BY <1>4
    <3>3. QED
      BY <1>4, <1>5, <3>1, <3>2 DEF IsGone
  <2>3. QED
    BY <2>1, <2>2
<1>13. NoSilentDuplicate'
  <2> SUFFICES ASSUME NEW i \in DOMAIN orders', NEW j \in DOMAIN orders',
                      i # j, orders'[i].fill = orders'[j].fill
               PROVE  orders'[i].fill \in doubt'
    BY DEF NoSilentDuplicate, Create!NoSilentDuplicate
  <2>1. CASE i \in DOMAIN orders /\ j \in DOMAIN orders
    BY <1>4, <1>7, <2>1 DEF NoSilentDuplicate, Create!NoSilentDuplicate
  <2>2. CASE i \notin DOMAIN orders \/ j \notin DOMAIN orders
    <3>1. orders'[i].fill = g /\ IsOrdered(g)
      BY <1>3, <1>7, <2>2 DEF IsOrdered
    <3>2. QED
      BY <1>11, <3>1
  <2>3. QED
    BY <2>1, <2>2
<1>14. QED
  BY <1>8, <1>9, <1>12, <1>13 DEF OrderedIsGone

\* What was typed once is not ordered again unnoticed, whatever is lost, left,
\* refused, cleared or reopened in between.
THEOREM NothingOrderedTwice == Create!Spec => []NoSilentDuplicate
<1>1. Create!Init => OnceInv
  <2> SUFFICES ASSUME Create!Init PROVE OnceInv
    OBVIOUS
  <2>1. /\ form = Create!EMPTY_FORM /\ formDraft = form /\ fills = 0
        /\ formScreen = "form" /\ orders = <<>>
        /\ jobs = [m \in Create!Place |-> NoJob]
    BY DEF Create!Init
  <2>2. Create!EMPTY_FORM \in SellerForm /\ Create!EMPTY_FORM.fill = 0
    BY DEF Create!EMPTY_FORM, SellerForm
  <2>3. FormsTyped
    <3>1. orders \in Seq({})
      BY <2>1
    <3>2. jobs \in [Create!Place -> FormJob({}, {}) \cup {NoJob}]
      BY <2>1
    <3>3. QED
      BY <2>1, <2>2, <3>1, <3>2 DEF FormsTyped
  <2>4. QED
    BY <2>1, <2>2, <2>3 DEF OnceInv, FillsKnown, OrderedIsGone, IsOrdered,
       NoSilentDuplicate, Create!NoSilentDuplicate, Create!Place
<1>2. OnceInv /\ [Create!Next]_(Create!vars) => OnceInv'
  <2> SUFFICES ASSUME OnceInv, [Create!Next]_(Create!vars) PROVE OnceInv'
    OBVIOUS
  <2>1. CASE \/ \E f \in File \cup {NoFile} : Create!HandleProofFileChange(f)
             \/ UNCHANGED Create!vars
    <3>1. UNCHANGED <<form, formDraft, formScreen, jobs, orders, fills, doubt>>
      BY <2>1 DEF Create!HandleProofFileChange, Create!vars, Create!history
    <3>2. QED
      BY <3>1 DEF OnceInv, FormsTyped, FillsKnown, OrderedIsGone, IsOrdered,
         IsGone, NoSilentDuplicate, Create!NoSilentDuplicate
  <2>2. QED
    BY <2>1, RequestStep, SubmitStep, TypingStep, LeaveStep, TakenStep
    DEF Create!Next
<1>3. OnceInv => NoSilentDuplicate
  BY DEF OnceInv
<1>4. QED
  BY <1>1, <1>2, <1>3, PTL DEF Create!Spec

------------------------------------------------------------------------------
(* The edit page (OrderEdit)                                               *)

IsSeq(s) == \E L : s \in Seq(L)

\* An order as the server keeps it: the unit prices are those of the totals,
\* the fee is that of the first line.
OrderRow(I, P) ==
    [items: I, mode: Edit!Mode, fee: P, delivered: BOOLEAN, prepaid: P,
     rows: P]
IsStored(o) ==
    /\ \E I, P : o \in OrderRow(I, P)
    /\ IsSeq(o.items)
    /\ o.items = Edit!StoredItems(Edit!Wire(o.items))
    /\ o.fee = Edit!ServerFee(Edit!Wire(o.items), o.mode)

\* The same rows with the same keys.
LEMMA WireKeeps ==
    ASSUME NEW s, IsSeq(s)
    PROVE  /\ IsSeq(Edit!Wire(s)) /\ IsSeq(Edit!StoredItems(s))
           /\ DOMAIN Edit!Wire(s) = DOMAIN s
           /\ DOMAIN Edit!StoredItems(s) = DOMAIN s
           /\ \A i \in DOMAIN s :
                /\ Edit!Wire(s)[i].product = s[i].product
                /\ Edit!Wire(s)[i].total = s[i].total
                /\ Edit!StoredItems(s)[i].product = s[i].product
                /\ Edit!StoredItems(s)[i].total = s[i].total
           /\ s = <<>> <=> DOMAIN s = {}
<1>1. PICK L : s \in Seq(L)
  BY DEF IsSeq
<1>2. DOMAIN s = 1..Len(s) /\ Len(s) \in Nat
  BY <1>1
<1>3. Edit!Wire(s) \in Seq({Edit!Wire(s)[i] : i \in DOMAIN s})
  BY <1>2 DEF Edit!Wire
<1>4. Edit!StoredItems(s) \in Seq({Edit!StoredItems(s)[i] : i \in DOMAIN s})
  BY <1>2 DEF Edit!StoredItems
<1>5. s = <<>> <=> DOMAIN s = {}
  <2>1. s = <<>> => DOMAIN s = {}
    OBVIOUS
  <2>2. ASSUME DOMAIN s = {} PROVE s = <<>>
    <3>1. 1..Len(s) = {}
      BY <1>2, <2>2
    <3>2. Len(s) = 0
      <4>1. 1 \notin 1..Len(s)
        BY <3>1
      <4>2. QED
        BY <1>2, <4>1
    <3>3. QED
      BY <1>1, <3>2
  <2>3. QED
    BY <2>1, <2>2
<1>6. QED
  BY <1>3, <1>4, <1>5
  DEF IsSeq, Edit!Wire, Edit!StoredItems, Edit!StoredItem, Edit!Line

\* What is stored is stored again as it is, with the same fee.
LEMMA StoredAgain ==
    ASSUME NEW wire, IsSeq(wire), NEW mode
    PROVE  /\ Edit!StoredItems(Edit!Wire(Edit!StoredItems(wire)))
                = Edit!StoredItems(wire)
           /\ Edit!ServerFee(Edit!Wire(Edit!StoredItems(wire)), mode)
                = Edit!ServerFee(wire, mode)
<1>1. Edit!StoredItems(Edit!Wire(Edit!StoredItems(wire)))
        = Edit!StoredItems(wire)
  BY Zenon
  DEF Edit!StoredItems, Edit!Wire, Edit!StoredItem, Edit!StoredUnit, Edit!Line
<1> DEFINE again == Edit!Wire(Edit!StoredItems(wire))
<1>2. /\ DOMAIN again = DOMAIN wire
      /\ \A i \in DOMAIN wire : again[i].product = wire[i].product
      /\ wire = <<>> <=> DOMAIN wire = {}
      /\ again = <<>> <=> DOMAIN again = {}
  BY WireKeeps
<1>3. wire # <<>> => 1 \in DOMAIN wire
  <2>1. PICK L : wire \in Seq(L)
    BY DEF IsSeq
  <2>2. QED
    BY <2>1
<1> HIDE DEF again
<1>4. Edit!ServerFee(again, mode) = Edit!ServerFee(wire, mode)
  BY <1>2, <1>3 DEF Edit!ServerFee, Edit!Fee
<1>5. QED
  BY <1>1, <1>4 DEF again

\* What an edit makes of a stored order is stored.
LEMMA UpdatedIsStored ==
    ASSUME IsStored(order), NEW wire, IsSeq(wire), NEW mode \in Edit!Mode
    PROVE  IsStored(Edit!Updated(wire, mode))
<1> DEFINE items == Edit!StoredItems(wire)
           fee == Edit!ServerFee(wire, mode)
           next == Edit!Updated(wire, mode)
<1>1. PICK I, P : order \in OrderRow(I, P)
  BY DEF IsStored
<1>2. next = [order EXCEPT !.items = items, !.mode = mode, !.fee = fee]
  BY DEF Edit!Updated
<1>3. IsSeq(items)
  BY WireKeeps
<1>4. /\ Edit!StoredItems(Edit!Wire(items)) = items
      /\ Edit!ServerFee(Edit!Wire(items), mode) = fee
  BY StoredAgain
<1> HIDE DEF items, fee, next
<1>5. /\ next \in OrderRow(I \cup {items}, P \cup {fee})
      /\ next.items = items /\ next.mode = mode /\ next.fee = fee
  BY <1>1, <1>2 DEF OrderRow
<1>6. IsStored(next)
  BY <1>3, <1>4, <1>5 DEF IsStored
<1>7. QED
  BY <1>6 DEF next

------------------------------------------------------------------------------
\* The form: a cart and a mode, as the order was while nothing is changed.
IsForm(e) == IsSeq(e.cart) /\ e.mode \in Edit!Mode
    /\ \E C : e \in [cart: C, mode: Edit!Mode]
FormsOK ==
    /\ changes \in Nat
    /\ editor # NoCart => IsForm(editor)
    /\ editor # NoCart /\ changes = 0 => editor = Edit!orderToForm(base)
OrdersOK ==
    /\ IsStored(order) /\ IsStored(listed)
    /\ fetched # NoOrder => IsStored(fetched)
    /\ saving # NoOrder => IsSeq(saving.wire) /\ saving.mode \in Edit!Mode
EditInv == FormsOK /\ OrdersOK

\* A cart that is changed is a cart.
LEMMA CartChanges ==
    ASSUME NEW cart, IsSeq(cart), NEW i, NEW x
    PROVE  /\ IsSeq(Edit!AddToCart(cart, x))
           /\ IsSeq(Edit!SetQty(cart, i, x))
           /\ IsSeq(Edit!SetTotalPrice(cart, i, x))
           /\ i \in DOMAIN cart => IsSeq(Edit!RemoveCartItem(cart, i))
<1>1. PICK L : cart \in Seq(L)
  BY DEF IsSeq
<1>2. DOMAIN cart = 1..Len(cart) /\ Len(cart) \in Nat
  BY <1>1
<1>3. ASSUME NEW f, DOMAIN f = DOMAIN cart, f = [j \in DOMAIN cart |-> f[j]]
      PROVE  IsSeq(f)
  <2>1. f \in Seq({f[j] : j \in DOMAIN cart})
    BY <1>2, <1>3
  <2>2. QED
    BY <2>1 DEF IsSeq
<1>4. IsSeq(Edit!SetQty(cart, i, x)) /\ IsSeq(Edit!SetTotalPrice(cart, i, x))
  BY <1>2, <1>3 DEF Edit!SetQty, Edit!SetTotalPrice
<1>5. IsSeq(Edit!AddToCart(cart, x))
  <2> DEFINE new == Edit!Line(x, 1, Price[x], Price[x])
             f == [j \in DOMAIN cart |->
                    IF j \in {k \in DOMAIN cart : cart[k].product = x}
                    THEN Edit!Repriced(cart[j], cart[j].qty + 1)
                    ELSE cart[j]]
  <2>1. Edit!AddToCart(cart, x) = Append(cart, new)
        \/ Edit!AddToCart(cart, x) = f
    BY DEF Edit!AddToCart
  <2>2. IsSeq(f)
    BY <1>2, <1>3
  <2> HIDE DEF new
  <2>3. cart \in Seq(L \cup {new})
    BY <1>1, <1>2
  <2>4. IsSeq(Append(cart, new))
    <3>1. Append(cart, new) \in Seq(L \cup {new})
      BY <2>3
    <3>2. QED
      BY <3>1 DEF IsSeq
  <2>5. QED
    BY <2>1, <2>2, <2>4
<1>6. ASSUME i \in DOMAIN cart PROVE IsSeq(Edit!RemoveCartItem(cart, i))
  <2>1. SubSeq(cart, 1, i - 1) \in Seq(L)
        /\ SubSeq(cart, i + 1, Len(cart)) \in Seq(L)
    BY <1>1, <1>2, <1>6
  <2>2. Edit!RemoveCartItem(cart, i) \in Seq(L)
    BY <2>1 DEF Edit!RemoveCartItem, Edit!RemoveAt
  <2>3. QED
    BY <2>2 DEF IsSeq
<1>7. QED
  BY <1>4, <1>5, <1>6

\* The step relation of the page alone, one conjunct of the invariant at a
\* time: first the form.
LEMMA FormsStep ==
    ASSUME EditInv, Edit!Next
    PROVE  FormsOK'
<1> USE DEF EditInv, FormsOK
<1>1. ASSUME editor' = editor, base' = base, changes' = changes
      PROVE  FormsOK'
  BY <1>1 DEF Edit!orderToForm, IsForm
<1>2. ASSUME editor' = NoCart, changes' = 0
      PROVE  FormsOK'
  BY <1>2
<1>3. CASE Edit!Open
  <2>1. IsStored(Edit!Known)
    BY DEF Edit!Known, OrdersOK
  <2>2. PICK I, P : Edit!Known \in OrderRow(I, P)
    BY <2>1 DEF IsStored
  <2>3. editor' = Edit!orderToForm(Edit!Known) /\ base' = Edit!Known
        /\ changes' = 0
    BY <1>3 DEF Edit!Open
  <2>4. /\ editor' = [cart |-> Edit!Known.items, mode |-> Edit!Known.mode]
        /\ Edit!Known.mode \in Edit!Mode /\ Edit!Known.items \in I
        /\ IsSeq(Edit!Known.items)
    BY <2>1, <2>2, <2>3 DEF Edit!orderToForm, IsStored, OrderRow
  <2> HIDE DEF Edit!Known
  <2>5. IsForm(editor)'
    <3>1. editor' \in [cart: I, mode: Edit!Mode]
      BY <2>4
    <3>2. editor'.cart = Edit!Known.items /\ editor'.mode = Edit!Known.mode
      BY <2>4
    <3>3. \E C : editor' \in [cart: C, mode: Edit!Mode]
      BY <3>1
    <3>4. QED
      BY <2>4, <3>2, <3>3 DEF IsForm, Edit!Mode
  <2>6. editor' = Edit!orderToForm(base)'
    BY <2>3 DEF Edit!orderToForm
  <2>7. QED
    BY <2>3, <2>5, <2>6
<1>4. ASSUME NEW e, Edit!Editing(e), IsForm(e)
      PROVE  FormsOK'
  BY <1>4 DEF Edit!Editing, IsForm, Edit!Mode
<1>5. CASE editor # NoCart /\ Edit!EditCart
  <2>1. IsForm(editor)
    BY <1>5
  <2>2. PICK C : editor \in [cart: C, mode: Edit!Mode]
    BY <2>1 DEF IsForm
  <2>3. ASSUME NEW cart, IsSeq(cart),
               Edit!Editing([editor EXCEPT !.cart = cart])
        PROVE  FormsOK'
    <3> DEFINE e == [editor EXCEPT !.cart = cart]
    <3>1. /\ e \in [cart: C \cup {cart}, mode: Edit!Mode]
          /\ e.cart = cart /\ e.mode = editor.mode
      BY <2>2
    <3>2. IsForm(e)
      BY <2>1, <2>3, <3>1 DEF IsForm
    <3>3. QED
      BY <1>4, <2>3, <3>2
  <2>4. IsSeq(editor.cart)
    BY <2>1 DEF IsForm
  <2>5. ASSUME NEW p,
               Edit!Editing([editor EXCEPT !.cart = Edit!AddToCart(@, p)])
        PROVE  FormsOK'
    BY <2>3, <2>4, <2>5, CartChanges
  <2>6. ASSUME NEW i \in DOMAIN editor.cart, NEW q,
               \/ Edit!Editing([editor EXCEPT !.cart = Edit!SetQty(@, i, q)])
               \/ Edit!Editing(
                    [editor EXCEPT !.cart = Edit!SetTotalPrice(@, i, q)])
               \/ Edit!Editing(
                    [editor EXCEPT !.cart = Edit!RemoveCartItem(@, i)])
        PROVE  FormsOK'
    BY <2>3, <2>4, <2>6, CartChanges
  <2>7. QED
    BY <1>5, <2>5, <2>6 DEF Edit!EditCart
<1>6. CASE editor # NoCart /\ Edit!SetDeliveryMode
  <2>1. PICK m \in Edit!Mode : Edit!Editing([editor EXCEPT !.mode = m])
    BY <1>6 DEF Edit!SetDeliveryMode
  <2>2. IsForm([editor EXCEPT !.mode = m])
    BY <1>6 DEF IsForm
  <2>3. QED
    BY <1>4, <2>1, <2>2
<1>7. QED
  BY <1>1, <1>2, <1>3, <1>5, <1>6, Zenon
  DEF Edit!Next, Edit!FetchOrder, Edit!SubmitEdit, Edit!Leave,
      Edit!UpdateOrder, Edit!UpdateFails, Edit!OthersEdit, Edit!Deliver,
      Edit!AddPrepayment, Edit!RefreshList

\* Then the copies of the order.
LEMMA OrdersStep ==
    ASSUME \A cart \in Starts : IsSeq(cart), EditInv, Edit!Next
    PROVE  OrdersOK'
<1> USE DEF EditInv, OrdersOK
<1>1. ASSUME order' = order, listed' \in {listed, order},
             fetched' \in {fetched, order},
             \/ saving' \in {saving, NoOrder}
             \/ IsSeq(saving'.wire) /\ saving'.mode \in Edit!Mode
      PROVE  OrdersOK'
  <2>1. IsStored(order)' /\ IsStored(listed)'
        /\ (fetched' # NoOrder => IsStored(fetched)')
    BY <1>1 DEF IsStored
  <2>2. saving' # NoOrder => IsSeq(saving'.wire) /\ saving'.mode \in Edit!Mode
    BY <1>1
  <2>3. QED
    BY <2>1, <2>2 DEF Edit!Mode
<1>2. ASSUME IsStored(order'), listed' = listed, fetched' = fetched,
             saving' \in {saving, NoOrder}
      PROVE  OrdersOK'
  BY <1>2 DEF IsStored, Edit!Mode
<1>3. CASE Edit!SubmitEdit
  <2>1. IsForm(editor)
    BY <1>3 DEF FormsOK, Edit!SubmitEdit, Edit!CanSubmit
  <2>2. IsSeq(Edit!Wire(editor.cart))
    BY <2>1, WireKeeps DEF IsForm
  <2>3. saving' = [wire |-> Edit!Wire(editor.cart), mode |-> editor.mode]
    BY <1>3 DEF Edit!SubmitEdit
  <2>4. IsSeq(saving'.wire) /\ saving'.mode \in Edit!Mode
    BY <2>1, <2>2, <2>3 DEF IsForm
  <2>5. QED
    BY <1>1, <1>3, <2>4 DEF Edit!SubmitEdit
<1>4. CASE Edit!UpdateOrder
  <2>1. IsStored(Edit!Updated(saving.wire, saving.mode))
    BY <1>4, UpdatedIsStored DEF Edit!UpdateOrder
  <2>2. QED
    BY <1>2, <1>4, <2>1 DEF Edit!UpdateOrder
<1>5. CASE Edit!OthersEdit
  <2>1. PICK cart \in Starts, m \in Edit!Mode :
            order' = Edit!Updated(Edit!Wire(cart), m)
    BY <1>5 DEF Edit!OthersEdit
  <2>2. IsSeq(Edit!Wire(cart))
    BY WireKeeps
  <2>3. IsStored(order')
    BY <2>1, <2>2, UpdatedIsStored
  <2>4. QED
    BY <1>2, <1>5, <2>3 DEF Edit!OthersEdit
<1>6. CASE Edit!Deliver
  <2>1. IsStored(order')
    <3>1. PICK I, P : order \in OrderRow(I, P)
      BY DEF IsStored
    <3>2. /\ order' \in OrderRow(I, P)
          /\ order'.items = order.items /\ order'.fee = order.fee
          /\ order'.mode = order.mode
      BY <1>6, <3>1 DEF Edit!Deliver, OrderRow
    <3>3. QED
      BY <3>2 DEF IsStored
  <2>2. QED
    BY <1>2, <1>6, <2>1 DEF Edit!Deliver
<1>7. ASSUME NEW amount, Edit!AddPrepayment(amount)
      PROVE  OrdersOK'
  <2>1. IsStored(order')
    <3>1. PICK I, P : order \in OrderRow(I, P)
      BY DEF IsStored
    <3> DEFINE Q == P \cup {order.rows + amount, order.prepaid + amount}
    <3>2. order' = [order EXCEPT !.rows = @ + amount, !.prepaid = @ + amount]
      BY <1>7 DEF Edit!AddPrepayment
    <3>3. /\ order' \in OrderRow(I, Q)
          /\ order'.items = order.items /\ order'.fee = order.fee
          /\ order'.mode = order.mode
      BY <3>1, <3>2 DEF OrderRow
    <3> HIDE DEF Q
    <3>4. QED
      BY <3>3 DEF IsStored
  <2>2. QED
    BY <1>2, <1>7, <2>1 DEF Edit!AddPrepayment
<1>8. CASE Edit!Open \/ Edit!FetchOrder \/ Edit!Leave \/ Edit!UpdateFails
           \/ Edit!RefreshList
  BY <1>1, <1>8
  DEF Edit!Open, Edit!FetchOrder, Edit!Leave, Edit!UpdateFails,
      Edit!RefreshList
<1>9. CASE Edit!EditCart \/ Edit!SetDeliveryMode
  BY <1>1, <1>9 DEF Edit!EditCart, Edit!SetDeliveryMode, Edit!Editing
<1>10. QED
  BY <1>3, <1>4, <1>5, <1>6, <1>7, <1>8, <1>9 DEF Edit!Next

\* A new order is stored.
LEMMA NewOrderIsStored ==
    ASSUME NEW cart, IsSeq(cart), NEW mode \in Edit!Mode, NEW prepaid
    PROVE  IsStored(Edit!NewOrder(cart, mode, prepaid))
<1> DEFINE wire == Edit!Wire(cart)
           items == Edit!StoredItems(wire)
           fee == Edit!ServerFee(wire, mode)
           new == Edit!NewOrder(cart, mode, prepaid)
<1>1. new = [items |-> items, mode |-> mode, fee |-> fee,
             delivered |-> FALSE, prepaid |-> prepaid, rows |-> 0]
  BY DEF Edit!NewOrder
<1>2. IsSeq(wire)
  BY WireKeeps
<1>3. IsSeq(items)
  <2> HIDE DEF wire
  <2>1. QED
    BY <1>2, WireKeeps
<1>4. /\ Edit!StoredItems(Edit!Wire(items)) = items
      /\ Edit!ServerFee(Edit!Wire(items), mode) = fee
  <2> HIDE DEF wire
  <2>1. QED
    BY <1>2, StoredAgain
<1> HIDE DEF items, fee, new, wire
<1>5. new \in OrderRow({items}, {fee, prepaid, 0})
  BY <1>1 DEF OrderRow
<1>6. new.items = items /\ new.mode = mode /\ new.fee = fee
  BY <1>1
<1>7. IsStored(new)
  BY <1>3, <1>4, <1>5, <1>6 DEF IsStored
<1>8. QED
  BY <1>7 DEF new

\* Both hold in every state, if the orders start with carts.
LEMMA EditInvHolds ==
    ASSUME \A cart \in Starts : IsSeq(cart)
    PROVE  Edit!Spec => []EditInv
<1>1. ASSUME Edit!Init PROVE EditInv
  <2>1. PICK cart \in Starts, mode \in Edit!Mode :
          \E prepaid : order = Edit!NewOrder(cart, mode, prepaid)
    BY <1>1 DEF Edit!Init
  <2>2. IsStored(order)
    BY <2>1, NewOrderIsStored
  <2>3. OrdersOK
    BY <1>1, <2>2 DEF Edit!Init, OrdersOK
  <2>4. FormsOK
    BY <1>1 DEF Edit!Init, FormsOK
  <2>5. QED
    BY <2>3, <2>4 DEF EditInv
<1>2. ASSUME EditInv, [Edit!Next]_(Edit!vars) PROVE EditInv'
  <2>1. CASE Edit!Next
    BY <1>2, <2>1, FormsStep, OrdersStep DEF EditInv
  <2>2. CASE UNCHANGED Edit!vars
    BY <1>2, <2>2
    DEF Edit!vars, EditInv, FormsOK, OrdersOK, IsStored, IsForm,
        Edit!orderToForm
  <2>3. QED
    BY <1>2, <2>1, <2>2
<1>3. QED
  BY <1>1, <1>2, PTL DEF Edit!Spec

\* Saving the form without a change gives back the order it was filled in
\* from, for every cart, price and rounding: what is stored is stored again
\* as it is, while the fees of products and deliveries stay what they are.
THEOREM UntouchedEditIsIdentity ==
    ASSUME \A cart \in Starts : IsSeq(cart)
    PROVE  Edit!Spec => []UntouchedEditKeepsOrder
<1>1. ASSUME EditInv PROVE UntouchedEditKeepsOrder
  <2> SUFFICES ASSUME editor # NoCart, changes = 0, base = order
               PROVE  Edit!Updated(Edit!Wire(editor.cart), editor.mode)
                        = order
    BY DEF UntouchedEditKeepsOrder, Edit!UntouchedEditKeepsOrder
  <2>1. IsStored(order)
    BY <1>1 DEF EditInv, OrdersOK
  <2>2. PICK I, P : order \in OrderRow(I, P)
    BY <2>1 DEF IsStored
  <2>3. editor.cart = order.items /\ editor.mode = order.mode
    BY <1>1 DEF EditInv, FormsOK, Edit!orderToForm
  <2>4. /\ Edit!StoredItems(Edit!Wire(order.items)) = order.items
        /\ Edit!ServerFee(Edit!Wire(order.items), order.mode) = order.fee
    BY <2>1 DEF IsStored
  <2>5. Edit!Updated(Edit!Wire(editor.cart), editor.mode)
          = [order EXCEPT !.items = order.items, !.mode = order.mode,
                          !.fee = order.fee]
    BY <2>3, <2>4 DEF Edit!Updated
  <2>6. QED
    BY <2>2, <2>5 DEF OrderRow
<1>2. QED
  BY <1>1, EditInvHolds, PTL

\* The total on the page is the one the server will store, if the product of
\* the first line is in the list and the fees stay what they are.
THEOREM ShownTotalIsStored ==
    ASSUME \A cart \in Starts : IsSeq(cart)
    PROVE  Edit!Spec => []ShownIsStored
<1>1. ASSUME EditInv PROVE ShownIsStored
  <2> DEFINE cart == editor.cart
             wire == Edit!Wire(cart)
             next == Edit!Updated(wire, editor.mode)
  <2> SUFFICES ASSUME editor # NoCart, cart # <<>>,
                      cart[1].product \in Listed
               PROVE  Edit!ShownTotal(cart, editor.mode) = Edit!Total(next)
    BY DEF ShownIsStored, Edit!ShownIsStored
  <2>1. IsSeq(cart) /\ IsStored(order)
    BY <1>1 DEF EditInv, FormsOK, OrdersOK, IsForm
  <2>2. PICK I, P : order \in OrderRow(I, P)
    BY <2>1 DEF IsStored
  <2>3. /\ next.items = Edit!StoredItems(wire)
        /\ next.fee = Edit!ServerFee(wire, editor.mode)
    BY <2>2 DEF Edit!Updated, OrderRow
  <2> HIDE DEF next, cart
  <2>4. /\ IsSeq(wire) /\ DOMAIN wire = DOMAIN cart
        /\ \A i \in DOMAIN cart : /\ wire[i].total = cart[i].total
                                  /\ wire[i].product = cart[i].product
        /\ cart = <<>> <=> DOMAIN cart = {}
    BY <2>1, WireKeeps
  <2> HIDE DEF wire
  <2>5. /\ DOMAIN Edit!StoredItems(wire) = DOMAIN wire
        /\ \A i \in DOMAIN wire :
             Edit!StoredItems(wire)[i].total = wire[i].total
        /\ wire = <<>> <=> DOMAIN wire = {}
    BY <2>4, WireKeeps
  <2>6. Edit!ProductTotal(Edit!StoredItems(wire)) = Edit!ProductTotal(cart)
    <3>1. [i \in DOMAIN Edit!StoredItems(wire)
             |-> Edit!StoredItems(wire)[i].total]
            = [i \in DOMAIN cart |-> cart[i].total]
      BY <2>4, <2>5
    <3>2. QED
      BY <3>1 DEF Edit!ProductTotal
  <2>7. 1 \in DOMAIN cart
    <3>1. PICK L : cart \in Seq(L)
      BY <2>1 DEF IsSeq
    <3>2. QED
      BY <3>1
  <2>8. Edit!ServerFee(wire, editor.mode) = Edit!ShownFee(cart, editor.mode)
    <3>1. Listed \subseteq Product
      BY CartAssumption
    <3>2. cart[1].product \in Listed /\ cart # <<>>
      OBVIOUS
    <3>3. wire[1].product = cart[1].product /\ wire # <<>>
      BY <2>4, <2>5, <2>7
    <3>4. QED
      BY <3>1, <3>2, <3>3 DEF Edit!ServerFee, Edit!ShownFee, Edit!Fee
  <2>9. QED
    BY <2>3, <2>6, <2>8 DEF Edit!Total, Edit!ShownTotal
<1>2. QED
  BY <1>1, EditInvHolds, PTL

------------------------------------------------------------------------------
(* The dialogs                                                             *)

\* The rules that the code of a dialog has to follow, as its traits and its
\* requests show them.
\* A list that one of its requests changes is renewed by the answer of that
\* request, whatever was closed, opened or left meanwhile.
Renewing(f, q) ==
    \A i \in DOMAIN f.steps :
        f.steps[i].on \cap q.reads # {} =>
            /\ \E k \in f.steps[i].renews : IsPrefix(k, q.key)
            /\ "renews on call" \notin f.traits
            /\ ~(q.byId /\ "shared" \in f.traits)

\* What is added is added by one request, the last one if what was typed can
\* still be there when it is refused; there is no second submission while one
\* is out that the dialog knows of, it does not forget one whose text it
\* keeps, and an answer that it hears empties it.
Careful(f) ==
    LET adds == {i \in DOMAIN f.steps : f.steps[i].does = "add"}
    IN  adds # {} =>
            /\ \A i, j \in adds : i = j
            /\ "guarded" \in f.traits
            /\ "keeps" \in f.traits =>
                    "forgets" \notin f.traits /\ "bound" \notin f.traits
            /\ \/ "hasty" \in f.traits
               \/ /\ adds = {Len(f.steps)}
                  /\ \/ "clears" \in f.traits
                     \/ /\ "closes" \in f.traits
                        /\ "keeps" \notin f.traits
                        /\ "leaves" \notin f.traits

\* It sends at least one request.
Sends(f) == (\E S : f.steps \in Seq(S)) /\ Len(f.steps) > 0

------------------------------------------------------------------------------
\* The state of a dialog, of its submissions and of a list, for every dialog.
Pc == {"out", "served", "refused", "over"}
Submission ==
    [draft: Nat \ {0}, opening: Nat, step: Nat, pc: Pc, seen: BOOLEAN, at: Nat]

Dialog == [open: BOOLEAN, opening: Nat, text: Nat, typed: Nat]
DialogOK ==
    /\ dialog \in Dialog
    /\ dialog.text <= dialog.typed
List ==
    [shown: BOOLEAN, ver: Nat, invalid: BOOLEAN, aged: BOOLEAN,
     fetch: {"none", "asked", "answered"}, read: Nat, overtaken: BOOLEAN]
ListOK ==
    /\ server \in Nat /\ own \in Nat /\ own <= server
    /\ list \in List
CallsOK ==
    /\ calls \in Seq(Submission)
    /\ \A i \in DOMAIN calls :
        /\ calls[i].draft <= dialog.typed
        /\ calls[i].step \in 1..Len(deskForm.steps)
        /\ calls[i].at <= server
TalliesOK ==
    /\ made \in [1..MaxDrafts -> Nat] /\ lost \in [1..MaxDrafts -> Nat]
Typed == Sends(deskForm) /\ DialogOK /\ ListOK /\ CallsOK /\ TalliesOK

\* Its numbers.
LEMMA Counted1 ==
    ASSUME Typed
    PROVE  /\ dialog.text \in Nat /\ dialog.typed \in Nat
           /\ dialog.opening \in Nat /\ dialog.text <= dialog.typed
           /\ server \in Nat /\ own \in Nat /\ own <= server
           /\ \A i \in DOMAIN calls :
                /\ calls[i] \in Submission
                /\ calls[i].draft \in Nat /\ calls[i].draft <= dialog.typed
                /\ calls[i].opening \in Nat /\ calls[i].pc \in Pc
                /\ calls[i].step \in Nat
                /\ calls[i].at \in Nat /\ calls[i].at <= server
<1>1. /\ dialog.text \in Nat /\ dialog.typed \in Nat
      /\ dialog.opening \in Nat /\ dialog.text <= dialog.typed
      /\ server \in Nat /\ own \in Nat /\ own <= server
  BY DEF Typed, DialogOK, Dialog, ListOK
<1>2. \A i \in DOMAIN calls :
        /\ calls[i] \in Submission /\ calls[i].draft <= dialog.typed
        /\ calls[i].at <= server
  BY DEF Typed, CallsOK
<1>3. \A c \in Submission :
        /\ c.draft \in Nat /\ c.opening \in Nat /\ c.pc \in Pc
        /\ c.step \in Nat /\ c.at \in Nat
  BY DEF Submission
<1>4. QED
  BY <1>1, <1>2, <1>3

\* A dialog that is closed, emptied or left as it is.
LEMMA DialogChanges ==
    ASSUME Typed,
           \/ UNCHANGED dialog
           \/ dialog' = [dialog EXCEPT !.open = FALSE, !.text = 0]
           \/ dialog' = [dialog EXCEPT !.text = 0]
           \/ dialog' = Shut \/ dialog' = Finished
    PROVE  DialogOK' /\ dialog'.typed = dialog.typed
           /\ dialog'.opening = dialog.opening
           /\ dialog'.text \in {0, dialog.text}
<1>1. ASSUME NEW up \in BOOLEAN, NEW text \in {0, dialog.text},
             dialog' = [dialog EXCEPT !.open = up, !.text = text]
      PROVE  DialogOK' /\ dialog'.typed = dialog.typed
             /\ dialog'.opening = dialog.opening /\ dialog'.text = text
  <2>1. dialog \in Dialog /\ dialog.text <= dialog.typed
    BY DEF Typed, DialogOK
  <2>2. text \in Nat /\ text <= dialog.typed
    BY <2>1 DEF Dialog
  <2>3. /\ dialog' \in Dialog /\ dialog'.typed = dialog.typed
        /\ dialog'.opening = dialog.opening /\ dialog'.text = text
    BY <1>1, <2>1, <2>2 DEF Dialog
  <2>4. QED
    BY <2>2, <2>3 DEF DialogOK
<1>2. CASE dialog' = Finished
  <2>1. (dialog.open /\ ~Has("closes")) \in BOOLEAN
    BY DEF Typed, DialogOK, Dialog
  <2>2. QED
    BY <1>1, <1>2, <2>1, Zenon DEF Finished
<1>3. CASE dialog' = Shut
  BY <1>1, <1>3, Zenon DEF Shut
<1>4. CASE dialog' = [dialog EXCEPT !.open = FALSE, !.text = 0]
  BY <1>1, <1>4, Zenon
<1>5. CASE UNCHANGED dialog \/ dialog' = [dialog EXCEPT !.text = 0]
  <2>1. dialog \in Dialog
    BY DEF Typed, DialogOK
  <2>2. dialog' = [dialog EXCEPT !.open = dialog.open, !.text = dialog'.text]
        /\ dialog'.text \in {0, dialog.text} /\ dialog.open \in BOOLEAN
    BY <1>5, <2>1 DEF Dialog
  <2>3. QED
    BY <1>1, <2>2, Zenon
<1>6. QED
  BY <1>2, <1>3, <1>4, <1>5

\* Submissions that are forgotten are otherwise what they were.
LEMMA UnseenCalls ==
    ASSUME calls \in Seq(Submission)
    PROVE  /\ Unseen(calls) \in Seq(Submission)
           /\ DOMAIN Unseen(calls) = DOMAIN calls
           /\ Len(Unseen(calls)) = Len(calls)
           /\ \A i \in DOMAIN calls :
                Unseen(calls)[i] = [calls[i] EXCEPT !.seen = FALSE]
<1> DEFINE u == [i \in DOMAIN calls |-> [calls[i] EXCEPT !.seen = FALSE]]
<1>1. DOMAIN calls = 1..Len(calls) /\ Len(calls) \in Nat
  OBVIOUS
<1>2. \A i \in DOMAIN calls : [calls[i] EXCEPT !.seen = FALSE] \in Submission
  <2> TAKE i \in DOMAIN calls
  <2>1. calls[i] \in Submission
    BY <1>1
  <2>2. QED
    BY <2>1 DEF Submission
<1>3. u \in Seq(Submission) /\ Len(u) = Len(calls)
  BY <1>1, <1>2
<1>4. QED
  BY <1>3 DEF Unseen

\* How the submissions change in a step: another one, or one of them moves.
LEMMA Appended ==
    ASSUME Typed, Submit
    PROVE  /\ calls' \in Seq(Submission) /\ Len(calls') = Len(calls) + 1
           /\ \A i \in DOMAIN calls :
                calls'[i] = [calls[i] EXCEPT !.seen = FALSE]
           /\ calls'[Len(calls) + 1] =
                [draft |-> dialog.text, opening |-> dialog.opening,
                 step |-> 1, pc |-> "out", seen |-> TRUE, at |-> 0]
           /\ DOMAIN calls' = DOMAIN calls \cup {Len(calls) + 1}
           /\ Len(calls) + 1 \notin DOMAIN calls
<1> DEFINE new == [draft |-> dialog.text, opening |-> dialog.opening,
                   step |-> 1, pc |-> "out", seen |-> TRUE, at |-> 0]
           u == Unseen(calls)
<1>1. new \in Submission
  BY DEF Typed, DialogOK, Dialog, Submit, Submission, Pc
<1>2. /\ u \in Seq(Submission) /\ DOMAIN u = DOMAIN calls
      /\ Len(u) = Len(calls)
      /\ \A i \in DOMAIN calls : u[i] = [calls[i] EXCEPT !.seen = FALSE]
  BY UnseenCalls DEF Typed, CallsOK
<1>3. calls' = Append(u, new)
  BY DEF Submit
<1> HIDE DEF u, new
<1>4. /\ calls' \in Seq(Submission) /\ Len(calls') = Len(u) + 1
      /\ \A i \in 1..Len(u) : calls'[i] = u[i]
      /\ calls'[Len(u) + 1] = new
      /\ DOMAIN calls' = 1..(Len(u) + 1)
  BY <1>1, <1>2, <1>3
<1>5. DOMAIN calls = 1..Len(calls) /\ Len(calls) \in Nat
  BY DEF Typed, CallsOK
<1>6. /\ \A i \in DOMAIN calls : calls'[i] = [calls[i] EXCEPT !.seen = FALSE]
      /\ calls' \in Seq(Submission) /\ Len(calls') = Len(calls) + 1
      /\ calls'[Len(calls) + 1] = new
  BY <1>2, <1>4, <1>5
<1>7. /\ DOMAIN calls' = DOMAIN calls \cup {Len(calls) + 1}
      /\ Len(calls) + 1 \notin DOMAIN calls
  BY <1>2, <1>4, <1>5
<1>8. QED
  BY <1>6, <1>7 DEF new

\* One submission moves.
Moved(i, c) ==
    /\ i \in DOMAIN calls /\ c \in Submission
    /\ calls' = [calls EXCEPT ![i] = c]
    /\ c.draft = calls[i].draft /\ c.opening = calls[i].opening
    /\ c.seen = calls[i].seen
    /\ c.step \in 1..Len(deskForm.steps)

\* The others stay where they are.
LEMMA OneMoves ==
    ASSUME Typed, NEW i, NEW c, Moved(i, c)
    PROVE  /\ calls' \in Seq(Submission) /\ DOMAIN calls' = DOMAIN calls
           /\ calls'[i] = c
           /\ \A k \in DOMAIN calls : k # i => calls'[k] = calls[k]
BY DEF Typed, CallsOK, Moved

\* A submission moves by each step of the network.
LEMMA NetworkMoves ==
    ASSUME Typed, NEW i \in DOMAIN calls,
           Serve(i) \/ Refuse(i) \/ LoseAnswer(i) \/ Succeed(i) \/ Fail(i)
    PROVE  \E c : Moved(i, c) /\ (c.at = calls[i].at \/ c.at = server')
<1>1. calls[i] \in Submission /\ calls[i].step \in 1..Len(deskForm.steps)
      /\ server \in Nat /\ Len(deskForm.steps) \in Nat
  BY DEF Typed, CallsOK, ListOK, Sends
<1> DEFINE Now(pc) == [calls[i] EXCEPT !.pc = pc]
<1>2. \A pc \in Pc : /\ Now(pc) \in Submission
                    /\ Now(pc).draft = calls[i].draft
                    /\ Now(pc).opening = calls[i].opening
                    /\ Now(pc).seen = calls[i].seen
                    /\ Now(pc).step = calls[i].step
                    /\ Now(pc).at = calls[i].at
  BY <1>1 DEF Submission
<1>3. ASSUME NEW pc \in Pc, Change(i, pc) PROVE Moved(i, Now(pc))
  BY <1>1, <1>2, <1>3 DEF Moved, Change
<1>4. CASE Serve(i)
  <2> DEFINE c == [calls[i] EXCEPT !.pc = "served", !.at = server']
  <2>1. server' \in Nat
    BY <1>1, <1>4 DEF Serve
  <2>2. /\ c \in Submission /\ c.draft = calls[i].draft
        /\ c.opening = calls[i].opening /\ c.seen = calls[i].seen
        /\ c.step = calls[i].step /\ c.at = server'
    BY <1>1, <2>1 DEF Submission, Pc
  <2>3. calls' = [calls EXCEPT ![i] = c]
    BY <1>4 DEF Serve
  <2> HIDE DEF c
  <2>4. QED
    BY <1>1, <2>2, <2>3 DEF Moved
<1>5. CASE Refuse(i) \/ LoseAnswer(i)
  BY <1>2, <1>3, <1>5 DEF Refuse, LoseAnswer, Pc
<1>6. CASE Fail(i)
  BY <1>2, <1>3, <1>6 DEF Fail, Pc
<1>7. CASE Succeed(i)
  <2>1. CASE calls[i].step < Len(deskForm.steps)
    <3> DEFINE c == [calls[i] EXCEPT !.pc = "out", !.step = @ + 1]
    <3>0. calls[i].step + 1 \in Nat
      BY <1>1
    <3>1. /\ c \in Submission /\ c.draft = calls[i].draft
          /\ c.opening = calls[i].opening /\ c.seen = calls[i].seen
          /\ c.step = calls[i].step + 1 /\ c.at = calls[i].at
      BY <1>1, <3>0 DEF Submission, Pc
    <3>2. calls' = [calls EXCEPT ![i] = c]
      BY <1>7, <2>1 DEF Succeed
    <3> HIDE DEF c
    <3>3. c.step \in 1..Len(deskForm.steps)
      BY <1>1, <2>1, <3>1
    <3>4. QED
      BY <3>1, <3>2, <3>3 DEF Moved
  <2>2. CASE ~(calls[i].step < Len(deskForm.steps))
    BY <1>2, <1>3, <1>7, <2>2 DEF Succeed, Pc
  <2>3. QED
    BY <2>1, <2>2
<1>8. QED
  BY <1>4, <1>5, <1>6, <1>7

\* The person's steps and the list's leave the submissions as they are, but
\* for being forgotten or one more.
LEMMA TypedByPerson == ASSUME Typed, Person PROVE Typed'
<1>1. /\ UNCHANGED <<deskForm, made, lost, server, own>>
      /\ Sends(deskForm)' /\ TalliesOK'
  BY DEF Person, Open, Type, Submit, Close, Leave, Return, desk, Sends,
         TalliesOK, Typed
<1>2. /\ dialog.text \in Nat /\ dialog.typed \in Nat /\ dialog.opening \in Nat
      /\ dialog.text <= dialog.typed
  BY Counted1
<1>3. DialogOK' /\ dialog'.typed >= dialog.typed /\ dialog'.typed \in Nat
  <2>1. CASE Open
    <3> DEFINE choice == IF Has("plain") /\ dialog.typed < Drafts
                         THEN dialog.typed + 1 ELSE 0
               text == IF choice # 0 THEN choice ELSE dialog.text
               now == IF choice # 0 THEN choice ELSE dialog.typed
    <3>1. dialog' = [open |-> TRUE, opening |-> dialog.opening + 1,
                     text |-> text, typed |-> now]
      BY <2>1 DEF Open
    <3>2. text \in Nat /\ now \in Nat /\ text <= now
          /\ now >= dialog.typed /\ dialog.opening + 1 \in Nat
      BY <1>2
    <3> HIDE DEF text, now
    <3>3. QED
      BY <3>1, <3>2 DEF DialogOK, Dialog
  <2>2. CASE Type
    <3>1. dialog' = [dialog EXCEPT !.typed = dialog.typed + 1,
                                   !.text = dialog.typed + 1]
          /\ dialog.typed + 1 \in Nat
      BY <1>2, <2>2 DEF Type
    <3>2. dialog \in Dialog
      BY DEF Typed, DialogOK
    <3>3. /\ dialog' \in Dialog /\ dialog'.typed = dialog.typed + 1
          /\ dialog'.text = dialog.typed + 1
      BY <3>1, <3>2 DEF Dialog
    <3>4. QED
      BY <1>2, <3>3 DEF DialogOK
  <2>3. CASE Submit \/ Close \/ Leave \/ Return
    <3>1. \/ UNCHANGED dialog
          \/ dialog' = [dialog EXCEPT !.open = FALSE, !.text = 0]
          \/ dialog' = Shut
      BY <2>3 DEF Submit, Close, Leave, Return
    <3>2. QED
      BY <1>2, <3>1, DialogChanges
  <2>4. QED
    BY <2>1, <2>2, <2>3 DEF Person
<1>4. ListOK'
  <2>1. UNCHANGED list \/ Leave \/ Return
    BY DEF Person, Open, Type, Submit, Close
  <2>2. list' \in List
    BY <2>1 DEF Typed, ListOK, List, Leave, Return
  <2>3. QED
    BY <1>1, <2>2 DEF Typed, ListOK
<1>5. CallsOK'
  <2>1. ASSUME NEW c \in Submission, NEW k \in DOMAIN calls,
               \/ c = calls[k]
               \/ c = [calls[k] EXCEPT !.seen = FALSE]
        PROVE  /\ c.draft <= dialog'.typed
               /\ c.step \in 1..Len(deskForm'.steps)
               /\ c.at <= server'
    <3>1. /\ c.draft = calls[k].draft /\ c.step = calls[k].step
          /\ c.at = calls[k].at
      BY <2>1, Counted1 DEF Submission
    <3>2. calls[k].draft \in Nat /\ calls[k].draft <= dialog.typed
          /\ calls[k].at <= server
      BY Counted1
    <3>3. calls[k].step \in 1..Len(deskForm.steps)
      BY DEF Typed, CallsOK
    <3>4. calls[k].draft <= dialog'.typed
      BY <1>2, <1>3, <3>2
    <3>5. QED
      BY <1>1, <3>1, <3>2, <3>3, <3>4
  <2>2. CASE UNCHANGED calls
    <3>1. \A k \in DOMAIN calls : calls[k] \in Submission
      BY Counted1
    <3>2. QED
      BY <2>1, <2>2, <3>1 DEF Typed, CallsOK
  <2>3. CASE calls' = Unseen(calls)
    <3>1. /\ calls' \in Seq(Submission) /\ DOMAIN calls' = DOMAIN calls
          /\ \A k \in DOMAIN calls :
                calls'[k] = [calls[k] EXCEPT !.seen = FALSE]
      BY <2>3, UnseenCalls DEF Typed, CallsOK
    <3>2. \A k \in DOMAIN calls : calls'[k] \in Submission
      <4>1. calls' \in Seq(Submission)
        BY <3>1
      <4>2. \A k \in DOMAIN calls' : calls'[k] \in Submission
        BY ONLY <4>1
      <4>3. \A k \in DOMAIN calls : k \in DOMAIN calls'
        BY ONLY <3>1
      <4>4. QED
        BY ONLY <4>2, <4>3
    <3>3. QED
      BY <2>1, <3>1, <3>2 DEF CallsOK
  <2>4. CASE Submit
    <3>1. /\ calls' \in Seq(Submission)
          /\ DOMAIN calls' = DOMAIN calls \cup {Len(calls) + 1}
          /\ \A k \in DOMAIN calls :
                calls'[k] = [calls[k] EXCEPT !.seen = FALSE]
          /\ calls'[Len(calls) + 1] =
                [draft |-> dialog.text, opening |-> dialog.opening,
                 step |-> 1, pc |-> "out", seen |-> TRUE, at |-> 0]
      BY <2>4, Appended
    <3>2. \A k \in DOMAIN calls : calls'[k] \in Submission
      <4>1. calls' \in Seq(Submission)
        BY <3>1
      <4>2. \A k \in DOMAIN calls' : calls'[k] \in Submission
        BY ONLY <4>1
      <4>3. \A k \in DOMAIN calls : k \in DOMAIN calls'
        BY ONLY <3>1
      <4>4. QED
        BY ONLY <4>2, <4>3
    <3>3. /\ calls'[Len(calls) + 1].draft = dialog.text
          /\ calls'[Len(calls) + 1].step = 1
          /\ calls'[Len(calls) + 1].at = 0
      BY <3>1
    <3>4. dialog.text <= dialog'.typed /\ 1 \in 1..Len(deskForm'.steps)
          /\ 0 <= server'
      BY <1>1, <1>2, <1>3, Counted1 DEF Typed, Sends
    <3>5. QED
      BY <2>1, <3>1, <3>2, <3>3, <3>4 DEF CallsOK
  <2>5. QED
    BY <2>2, <2>3, <2>4 DEF Person, Open, Type, Close, Leave, Return
<1>6. QED
  BY <1>1, <1>3, <1>4, <1>5 DEF Typed

\* The list's steps keep it.
LEMMA TypedByList == ASSUME Typed, Age \/ Read \/ Arrive PROVE Typed'
<1>1. UNCHANGED <<deskForm, calls, made, lost, server, own>>
  BY DEF Age, Read, Arrive, desk
<1>2. DialogOK' /\ dialog'.typed = dialog.typed
  <2>1. UNCHANGED dialog \/ dialog' = [dialog EXCEPT !.text = 0]
    BY DEF Age, Read, Arrive
  <2>2. QED
    BY <2>1, DialogChanges
<1>3. ListOK'
  <2>1. list \in List /\ server \in Nat
    BY DEF Typed, ListOK
  <2>2. ASSUME Age PROVE list' \in List
    BY <2>1, <2>2 DEF Age, List
  <2>3. ASSUME Read PROVE list' \in List
    BY <2>1, <2>3 DEF Read, List
  <2>4. ASSUME Arrive PROVE list' \in List
    BY <2>1, <2>4 DEF Arrive, List
  <2>5. QED
    BY <1>1, <2>2, <2>3, <2>4 DEF Typed, ListOK
<1>4. QED
  BY <1>1, <1>2, <1>3 DEF Typed, CallsOK, Sends, TalliesOK

\* The network's steps keep it.
LEMMA TypedByNetwork == ASSUME Typed, Network PROVE Typed'
<1>1. PICK i \in DOMAIN calls :
        Serve(i) \/ Refuse(i) \/ LoseAnswer(i) \/ Succeed(i) \/ Fail(i)
  BY DEF Network
<1>2. PICK c : Moved(i, c) /\ (c.at = calls[i].at \/ c.at = server')
  BY <1>1, NetworkMoves
<1>3. UNCHANGED deskForm
  BY <1>1 DEF Serve, Refuse, LoseAnswer, Succeed, Fail, desk
<1>4. DialogOK' /\ dialog'.typed = dialog.typed
  <2>1. UNCHANGED dialog \/ dialog' = Finished
    BY <1>1 DEF Serve, Refuse, LoseAnswer, Succeed, Fail
  <2>2. QED
    BY <2>1, DialogChanges
<1>5. /\ calls[i].at \in Nat /\ calls[i].at <= server
      /\ server \in Nat /\ own \in Nat /\ own <= server
      /\ calls[i].draft <= dialog.typed
  BY Counted1
<1>6. server' \in Nat /\ server' >= server
  BY <1>1, <1>5 DEF Serve, Refuse, LoseAnswer, Succeed, Fail
<1>7. ListOK'
  <2>1. own' \in {own, calls[i].at}
    BY <1>1 DEF Serve, Refuse, LoseAnswer, Succeed, Fail
  <2>2. own' \in Nat /\ own' <= server'
    BY <1>5, <1>6, <2>1
  <2>3. list' = list \/ list' = Invalidated
    BY <1>1 DEF Serve, Refuse, LoseAnswer, Succeed, Fail
  <2>4. QED
    BY <1>6, <2>2, <2>3 DEF Typed, ListOK, List, Invalidated
<1>8. CallsOK'
  <2>1. /\ calls' \in Seq(Submission) /\ DOMAIN calls' = DOMAIN calls
        /\ calls'[i] = c
        /\ \A k \in DOMAIN calls : k # i => calls'[k] = calls[k]
    BY <1>2, OneMoves
  <2>2. /\ c.draft <= dialog'.typed /\ c.step \in 1..Len(deskForm'.steps)
        /\ c.at <= server'
    BY <1>2, <1>3, <1>4, <1>5, <1>6 DEF Moved
  <2>3. \A k \in DOMAIN calls : calls[k].at <= server'
    BY <1>5, <1>6, Counted1
  <2>4. \A k \in DOMAIN calls : /\ calls[k].draft <= dialog.typed
                               /\ calls[k].step \in 1..Len(deskForm.steps)
    BY DEF Typed, CallsOK
  <2>5. QED
    BY <1>3, <1>4, <2>1, <2>2, <2>3, <2>4 DEF CallsOK
<1>9. TalliesOK'
  <2>1. made' \in [1..MaxDrafts -> Nat]
    BY <1>1 DEF Typed, TalliesOK, Serve, Refuse, LoseAnswer, Succeed, Fail
  <2>2. lost' \in [1..MaxDrafts -> Nat]
    BY <1>1 DEF Typed, TalliesOK, Serve, Refuse, LoseAnswer, Succeed, Fail
  <2>3. QED
    BY <2>1, <2>2 DEF TalliesOK
<1>10. QED
  BY <1>3, <1>4, <1>7, <1>8, <1>9 DEF Typed, Sends

\* Every step keeps it.
LEMMA TypedStep == ASSUME Typed, [DeskNext]_deskVars PROVE Typed'
<1>1. CASE UNCHANGED deskVars
  BY <1>1 DEF deskVars, Typed, Sends, DialogOK, ListOK, CallsOK, TalliesOK
<1>2. QED
  BY <1>1, TypedByPerson, TypedByList, TypedByNetwork DEF DeskNext

------------------------------------------------------------------------------
(* What a list shows                                                       *)

\* Unless an invalidation met a fetch of a page that was left, a list that is
\* not being fetched has what this client was told, or is marked and not shown;
\* and what a fetch brings is no older than that.
Current ==
    ~list.overtaken =>
        /\ list.fetch = "none" =>
            list.ver >= own \/ (list.invalid /\ ~list.shown)
        /\ list.fetch = "answered" => list.read >= own

\* An answer that changes what this client was told renews the list.
LEMMA AnswersRenew ==
    ASSUME Typed, Alone \/ Renewing(deskForm, query),
           NEW i \in DOMAIN calls, Succeed(i)
    PROVE  UNCHANGED own \/ list' = Invalidated
<1>1. calls[i].step \in DOMAIN deskForm.steps
  BY DEF Typed, CallsOK, Sends
<1>2. CASE Touches(StepOf(calls[i]))
  <2>1. StepOf(calls[i]).on \cap query.reads # {} /\ ~Alone
    BY <1>2 DEF Touches
  <2>2. Renews(calls[i])
    BY <1>1, <2>1, Zenon DEF Renewing, Renews, StepOf, Has
  <2>3. QED
    BY <2>1, <2>2 DEF Succeed
<1>3. CASE ~Touches(StepOf(calls[i]))
  BY <1>3 DEF Succeed
<1>4. QED
  BY <1>2, <1>3

\* A step keeps it, for a dialog whose answers renew the list.
LEMMA StaysCurrent ==
    ASSUME Typed, Current, Alone \/ Renewing(deskForm, query), DeskNext
    PROVE  Current'
<1>1. /\ list \in List /\ own \in Nat /\ server \in Nat /\ own <= server
      /\ list.shown \in BOOLEAN /\ list.invalid \in BOOLEAN
      /\ list.overtaken \in BOOLEAN /\ list.ver \in Nat /\ list.read \in Nat
      /\ list.fetch \in {"none", "asked", "answered"}
  BY DEF Typed, ListOK, List
<1>2. CASE UNCHANGED <<list, own>>
  BY <1>2 DEF Current
<1>3. CASE UNCHANGED own /\ list' = [list EXCEPT !.shown = FALSE]
  BY <1>1, <1>3 DEF Current, List
<1>4. ASSUME UNCHANGED own,
             list' = [list EXCEPT !.shown = TRUE,
                            !.fetch = IF @ = "none"
                                         /\ (list.invalid \/ list.aged)
                                      THEN "asked" ELSE @]
      PROVE  Current'
  BY <1>1, <1>4 DEF Current, List
<1>5. CASE list' = Invalidated
  BY <1>1, <1>5 DEF Current, Invalidated, List
<1>6. CASE UNCHANGED own /\ list' = [list EXCEPT !.aged = TRUE]
  BY <1>1, <1>6 DEF Current, List
<1>7. ASSUME UNCHANGED own,
             list' = [list EXCEPT !.fetch = "answered", !.read = server]
      PROVE  Current'
  BY <1>1, <1>7 DEF Current, List
<1>8. ASSUME UNCHANGED own, Arrive PROVE Current'
  <2>1. /\ list'.fetch = "none" /\ list'.ver = list.read
        /\ list'.overtaken = list.overtaken /\ list.fetch = "answered"
    BY <1>1, <1>8 DEF Arrive, List
  <2>2. QED
    BY <1>1, <1>8, <2>1 DEF Current
<1>9. CASE Person
  BY <1>2, <1>3, <1>4, <1>9
  DEF Person, Open, Type, Submit, Close, Leave, Return
<1>10. CASE Network
  <2>1. PICK i \in DOMAIN calls :
          Serve(i) \/ Refuse(i) \/ LoseAnswer(i) \/ Succeed(i) \/ Fail(i)
    BY <1>10 DEF Network
  <2>2. CASE Succeed(i)
    BY <1>2, <1>5, <2>2, AnswersRenew, Zenon DEF Succeed
  <2>3. QED
    BY <1>2, <2>1, <2>2 DEF Serve, Refuse, LoseAnswer, Fail
<1>11. CASE Age \/ Read \/ Arrive
  BY <1>6, <1>7, <1>8, <1>11 DEF Age, Read, Arrive
<1>12. QED
  BY <1>9, <1>10, <1>11 DEF DeskNext

\* It is what the property says of a list at rest.
LEMMA CurrentShows ==
    ASSUME Typed, Current PROVE ShowsOwn
BY DEF Typed, ListOK, List, Current, ShowsOwn, AtRest

------------------------------------------------------------------------------
(* What is typed                                                           *)

\* A dialog that closes at once, or is filled from a list, is one of those
\* that the property names.
Keeping(f, q) ==
    /\ "hasty" \in f.traits /\ "plain" \notin f.traits => f.name \in Hasty
    /\ <<f, q>> \in Fills => f.name \in Refilled

\* Of every other dialog, what is typed stays until the person or an answer
\* takes it away.
LEMMA OthersStayTyped ==
    ASSUME Typed, Keeping(deskForm, query), DeskNext
    PROVE  deskForm.name \in Hasty \cup Refilled \/ StaysTyped
<1>1. dialog \in Dialog /\ dialog.text \in Nat /\ dialog.typed \in Nat
      /\ dialog.open \in BOOLEAN
  BY DEF Typed, DialogOK, Dialog
<1>2. CASE UNCHANGED dialog
  BY <1>2 DEF StaysTyped, Vanishes
<1>3. CASE Open
  <2>1. dialog'.open /\ (dialog.text # 0 => dialog'.text # 0)
    BY <1>1, <1>3 DEF Open
  <2>2. QED
    BY <2>1 DEF StaysTyped, Vanishes
<1>4. CASE Type
  <2>0. dialog' = [dialog EXCEPT !.typed = dialog.typed + 1,
                                 !.text = dialog.typed + 1]
    BY <1>4 DEF Type
  <2>1. dialog'.open = dialog.open /\ dialog'.text = dialog.typed + 1
    BY <1>1, <2>0 DEF Dialog
  <2>2. QED
    BY <1>1, <2>1 DEF StaysTyped, Vanishes
<1>5. CASE Submit
  BY <1>2, <1>5 DEF Submit, Keeping, Has, StaysTyped
<1>6. CASE Close \/ Leave
  BY <1>6 DEF StaysTyped
<1>7. CASE Network
  <2>1. PICK i \in DOMAIN calls :
          Serve(i) \/ Refuse(i) \/ LoseAnswer(i) \/ Succeed(i) \/ Fail(i)
    BY <1>7 DEF Network
  <2>2. ASSUME Succeed(i), ~UNCHANGED dialog PROVE Done(i)
    <3>1. Change(i, "over") /\ calls[i].pc = "served"
      BY <2>2 DEF Succeed
    <3>2. calls \in Seq(Submission) /\ calls[i] \in Submission
      BY DEF Typed, CallsOK
    <3>3. calls'[i].pc = "over"
      BY <3>1, <3>2 DEF Change, Submission
    <3>4. QED
      BY <3>1, <3>3 DEF Done
  <2>3. QED
    BY <1>2, <2>1, <2>2 DEF Serve, Refuse, LoseAnswer, Fail, StaysTyped
<1>8. CASE Age \/ Read \/ Arrive \/ Return
  BY <1>2, <1>8 DEF Age, Read, Return, Arrive, Keeping
<1>9. QED
  BY <1>2, <1>3, <1>4, <1>5, <1>6, <1>7, <1>8 DEF DeskNext, Person

------------------------------------------------------------------------------
(* What is done                                                            *)

\* The requests of a form that add.
Adds(f) == {i \in DOMAIN f.steps : f.steps[i].does = "add"}

\* No request of the submission has added something yet, or will.
Before(c, a) == c.step < a \/ (c.step = a /\ c.pc = "out")

\* Of a dialog that forgets at once what it submits: one submission of each
\* thing typed, which adds it once.
HastyOnce(d, a) ==
    /\ d > dialog.typed => made[d] = 0
    /\ made[d] <= 1
    /\ dialog.text = d =>
        made[d] = 0 /\ \A i \in DOMAIN calls : calls[i].draft # d
    /\ \A i, j \in DOMAIN calls :
        calls[i].draft = d /\ calls[j].draft = d => i = j
    /\ \A i \in DOMAIN calls :
        calls[i].draft = d /\ Before(calls[i], a) => made[d] = 0

\* Of one that keeps it until an answer: no two submissions of it are out, and
\* what is still in the fields was made no more often than answers were lost.
\* For it, the dialog listens to a submission of what is in its fields.
Hears(c) ==
    /\ c.seen
    /\ Has("bound") => dialog.open /\ c.opening = dialog.opening
Undone(c, a) == Out(c) /\ ~(c.step = a /\ c.pc = "served")
PatientOnce(d, a) ==
    /\ d > dialog.typed => made[d] = 0
    /\ made[d] <= 1 + lost[d]
    /\ \A i \in DOMAIN calls :
        calls[i].draft = d /\ Undone(calls[i], a) => made[d] <= lost[d]
    /\ dialog.text = d /\ (\A i \in DOMAIN calls :
                               ~(calls[i].draft = d /\ Out(calls[i])))
        => made[d] <= lost[d]
    /\ \A i, j \in DOMAIN calls :
        /\ calls[i].draft = d /\ calls[j].draft = d
        /\ Out(calls[i]) /\ Out(calls[j])
        => i = j
    /\ dialog.text = d =>
        \A i \in DOMAIN calls :
            calls[i].draft = d /\ Out(calls[i]) => Hears(calls[i])

\* A draft is added by the a-th request.
AddedBy(a) ==
    /\ a \in 1..Len(deskForm.steps)
    /\ \A i \in DOMAIN deskForm.steps :
        deskForm.steps[i].does = "add" <=> i = a
Once ==
    \/ /\ Adds(deskForm) = {}
       /\ made = [d \in 1..MaxDrafts |-> 0]
    \/ \E a : /\ AddedBy(a)
              /\ IF Has("hasty") THEN \A d \in 1..MaxDrafts : HastyOnce(d, a)
                 ELSE a = Len(deskForm.steps)
                      /\ \A d \in 1..MaxDrafts : PatientOnce(d, a)

\* The text of the dialog after a step: as before, nothing or something new.
LEMMA TextChanges ==
    ASSUME Typed, DeskNext
    PROVE  /\ dialog'.typed \in Nat /\ dialog'.typed >= dialog.typed
           /\ \/ dialog'.text \in {0, dialog.text}
              \/ dialog'.text = dialog.typed + 1
<1>1. /\ dialog \in Dialog /\ dialog.text \in Nat /\ dialog.typed \in Nat
  BY DEF Typed, DialogOK, Dialog
<1>2. CASE Open
  BY <1>1, <1>2 DEF Open
<1>3. CASE Type
  <2>1. dialog' = [dialog EXCEPT !.typed = dialog.typed + 1,
                                 !.text = dialog.typed + 1]
    BY <1>3 DEF Type
  <2>2. dialog'.typed = dialog.typed + 1 /\ dialog'.text = dialog.typed + 1
    BY <1>1, <2>1 DEF Dialog
  <2>3. QED
    BY <1>1, <2>2
<1>4. CASE ~Open /\ ~Type
  <2>1. \/ UNCHANGED dialog
        \/ dialog' = [dialog EXCEPT !.open = FALSE, !.text = 0]
        \/ dialog' = [dialog EXCEPT !.text = 0]
        \/ dialog' = Shut \/ dialog' = Finished
    BY <1>4, Zenon
    DEF DeskNext, Person, Submit, Close, Leave, Return, Network, Serve, Refuse,
        LoseAnswer, Succeed, Fail, Age, Read, Arrive
  <2>2. QED
    BY <1>1, <2>1, DialogChanges
<1>5. QED
  BY <1>2, <1>3, <1>4

\* Forgetting submissions changes nothing else about them.
Alike(c, b) ==
    /\ c.draft = b.draft /\ c.opening = b.opening
    /\ c.step = b.step /\ c.pc = b.pc

\* What such a step leaves of the submissions.
LEMMA Forgotten1 ==
    ASSUME Typed, UNCHANGED calls \/ calls' = Unseen(calls)
    PROVE  /\ DOMAIN calls' = DOMAIN calls
           /\ \A i \in DOMAIN calls : Alike(calls'[i], calls[i])
           /\ UNCHANGED calls => \A i \in DOMAIN calls :
                                    calls'[i].seen <=> calls[i].seen
<1>1. \A i \in DOMAIN calls : calls[i] \in Submission
  BY DEF Typed, CallsOK
<1>2. CASE UNCHANGED calls
  BY <1>2 DEF Alike
<1>3. CASE calls' = Unseen(calls)
  <2>1. /\ DOMAIN calls' = DOMAIN calls
        /\ \A i \in DOMAIN calls : calls'[i] = [calls[i] EXCEPT !.seen = FALSE]
    BY <1>3, UnseenCalls DEF Typed, CallsOK
  <2>2. \A i \in DOMAIN calls : Alike(calls'[i], calls[i])
    BY <1>1, <2>1 DEF Submission, Alike
  <2>3. UNCHANGED calls => \A i \in DOMAIN calls :
                              calls'[i].seen <=> calls[i].seen
    OBVIOUS
  <2>4. QED
    BY <2>1, <2>2, <2>3
<1>4. QED
  BY <1>2, <1>3

\* What each step of the network makes of a submission.
LEMMA NetworkSteps ==
    ASSUME Typed, NEW i \in DOMAIN calls,
           Serve(i) \/ Refuse(i) \/ LoseAnswer(i) \/ Succeed(i) \/ Fail(i)
    PROVE  /\ DOMAIN calls' = DOMAIN calls
           /\ \A k \in DOMAIN calls : k # i => calls'[k] = calls[k]
           /\ calls'[i].draft = calls[i].draft
           /\ calls'[i].opening = calls[i].opening
           /\ calls'[i].seen <=> calls[i].seen
           /\ Serve(i) => /\ calls[i].pc = "out" /\ calls'[i].pc = "served"
                          /\ calls'[i].step = calls[i].step
           /\ Refuse(i) => /\ calls[i].pc = "out" /\ calls'[i].pc = "refused"
                           /\ calls'[i].step = calls[i].step
           /\ LoseAnswer(i) =>
                /\ calls[i].pc = "served" /\ calls'[i].pc = "refused"
                /\ calls'[i].step = calls[i].step
           /\ Fail(i) => /\ calls[i].pc = "refused" /\ calls'[i].pc = "over"
                         /\ calls'[i].step = calls[i].step
           /\ Succeed(i) =>
                /\ calls[i].pc = "served"
                /\ \/ /\ calls[i].step < Len(deskForm.steps)
                      /\ calls'[i].pc = "out"
                      /\ calls'[i].step = calls[i].step + 1
                   \/ /\ calls[i].step = Len(deskForm.steps)
                      /\ calls'[i].pc = "over"
                      /\ calls'[i].step = calls[i].step
<1>1. /\ calls \in Seq(Submission) /\ calls[i] \in Submission
      /\ calls[i].step \in 1..Len(deskForm.steps)
      /\ Len(deskForm.steps) \in Nat
  BY DEF Typed, CallsOK, Sends
<1>2. PICK c : Moved(i, c)
  BY NetworkMoves
<1>3. /\ DOMAIN calls' = DOMAIN calls /\ calls'[i] = c
      /\ \A k \in DOMAIN calls : k # i => calls'[k] = calls[k]
  BY <1>2, OneMoves
<1>4. /\ calls'[i].draft = calls[i].draft
      /\ calls'[i].opening = calls[i].opening
      /\ calls'[i].seen = calls[i].seen
  BY <1>2, <1>3 DEF Moved
<1>5. ASSUME NEW pc, Change(i, pc)
      PROVE  calls'[i].pc = pc /\ calls'[i].step = calls[i].step
  BY <1>1, <1>5 DEF Change, Submission
<1>6. ASSUME Serve(i)
      PROVE  /\ calls[i].pc = "out" /\ calls'[i].pc = "served"
             /\ calls'[i].step = calls[i].step
  BY <1>1, <1>6 DEF Serve, Submission
<1>7. ASSUME Refuse(i)
      PROVE  /\ calls[i].pc = "out" /\ calls'[i].pc = "refused"
             /\ calls'[i].step = calls[i].step
  BY <1>5, <1>7 DEF Refuse
<1>8. ASSUME LoseAnswer(i)
      PROVE  /\ calls[i].pc = "served" /\ calls'[i].pc = "refused"
             /\ calls'[i].step = calls[i].step
  BY <1>5, <1>8 DEF LoseAnswer
<1>9. ASSUME Fail(i)
      PROVE  /\ calls[i].pc = "refused" /\ calls'[i].pc = "over"
             /\ calls'[i].step = calls[i].step
  BY <1>5, <1>9 DEF Fail
<1>10. ASSUME Succeed(i)
       PROVE  /\ calls[i].pc = "served"
              /\ \/ /\ calls[i].step < Len(deskForm.steps)
                    /\ calls'[i].pc = "out"
                    /\ calls'[i].step = calls[i].step + 1
                 \/ /\ calls[i].step = Len(deskForm.steps)
                    /\ calls'[i].pc = "over"
                    /\ calls'[i].step = calls[i].step
  <2>1. CASE calls[i].step < Len(deskForm.steps)
    BY <1>1, <1>10, <2>1 DEF Succeed, Submission
  <2>2. CASE ~(calls[i].step < Len(deskForm.steps))
    <3>1. Change(i, "over") /\ calls[i].pc = "served"
      BY <1>10, <2>2 DEF Succeed
    <3>2. calls[i].step = Len(deskForm.steps)
      BY <1>1, <2>2
    <3>3. QED
      BY <1>5, <3>1, <3>2
  <2>3. QED
    BY <2>1, <2>2
<1>11. QED
  BY <1>3, <1>4, <1>6, <1>7, <1>8, <1>9, <1>10

\* What they make of the tallies.
LEMMA NetworkTallies ==
    ASSUME Typed, NEW i \in DOMAIN calls, NEW a, AddedBy(a),
           Serve(i) \/ Refuse(i) \/ LoseAnswer(i) \/ Succeed(i) \/ Fail(i)
    PROVE  \A d \in 1..MaxDrafts :
            /\ made[d] \in Nat /\ lost[d] \in Nat
            /\ made'[d] = IF Serve(i) /\ calls[i].step = a
                             /\ calls[i].draft = d
                          THEN made[d] + 1 ELSE made[d]
            /\ lost'[d] = IF LoseAnswer(i) /\ calls[i].draft = d
                          THEN lost[d] + 1 ELSE lost[d]
<1>1. /\ calls[i].step \in DOMAIN deskForm.steps
      /\ made \in [1..MaxDrafts -> Nat] /\ lost \in [1..MaxDrafts -> Nat]
  BY DEF Typed, CallsOK, TalliesOK, Sends
<1>2. StepOf(calls[i]).does = "add" <=> calls[i].step = a
  BY <1>1 DEF AddedBy, StepOf
<1>3. /\ Serve(i) => ~Refuse(i) /\ ~LoseAnswer(i) /\ ~Succeed(i) /\ ~Fail(i)
      /\ LoseAnswer(i) => ~Serve(i) /\ ~Refuse(i) /\ ~Succeed(i) /\ ~Fail(i)
  <2>1. ASSUME LoseAnswer(i), Succeed(i) PROVE FALSE
    BY <2>1, NetworkSteps
  <2>2. QED
    BY <2>1, NetworkSteps
<1>4. TAKE d \in 1..MaxDrafts
<1>5. made[d] \in Nat /\ lost[d] \in Nat
  BY <1>1
<1>6. CASE Serve(i)
  BY <1>1, <1>2, <1>3, <1>5, <1>6 DEF Serve
<1>7. CASE LoseAnswer(i)
  BY <1>1, <1>3, <1>5, <1>7 DEF LoseAnswer
<1>8. CASE Refuse(i) \/ Succeed(i) \/ Fail(i)
  BY <1>3, <1>5, <1>8 DEF Refuse, Succeed, Fail
<1>9. QED
  BY <1>6, <1>7, <1>8

\* The person's other steps and the list's.
Quiet ==
    /\ UNCHANGED <<made, lost>>
    /\ DOMAIN calls' = DOMAIN calls
    /\ \A i \in DOMAIN calls : Alike(calls'[i], calls[i])

\* They keep what holds of a dialog that forgets at once.
LEMMA HastyQuiet ==
    ASSUME Typed, DeskNext, Quiet, NEW a, NEW d \in 1..MaxDrafts,
           HastyOnce(d, a)
    PROVE  HastyOnce(d, a)'
<1>1. /\ dialog'.typed \in Nat /\ dialog'.typed >= dialog.typed
      /\ \/ dialog'.text \in {0, dialog.text}
         \/ dialog'.text = dialog.typed + 1
      /\ dialog.typed \in Nat /\ d \in Nat /\ d # 0
  BY TextChanges, Counted1, DeskAssumption
<1>2. \A i \in DOMAIN calls :
        /\ calls'[i].draft = calls[i].draft
        /\ Before(calls'[i], a) <=> Before(calls[i], a)
        /\ calls[i].draft \in Nat /\ calls[i].draft <= dialog.typed
  BY Counted1 DEF Quiet, Alike, Before
<1>3. dialog'.text = d => \/ dialog.text = d
                         \/ d > dialog.typed
  BY <1>1
<1>4. d > dialog'.typed => d > dialog.typed
  BY <1>1
<1>5. d > dialog.typed => \A i \in DOMAIN calls : calls[i].draft # d
  BY <1>1, <1>2
<1>6. QED
  BY <1>2, <1>3, <1>4, <1>5 DEF HastyOnce, Quiet

\* So does a submission: the thing typed is in the fields no more.
LEMMA HastySubmit ==
    ASSUME Typed, Submit, Has("hasty"), NEW a, AddedBy(a),
           NEW d \in 1..MaxDrafts, HastyOnce(d, a)
    PROVE  HastyOnce(d, a)'
<1> DEFINE n == Len(calls) + 1
<1>1. /\ \A i \in DOMAIN calls :
            calls'[i] = [calls[i] EXCEPT !.seen = FALSE]
      /\ calls'[n] = [draft |-> dialog.text, opening |-> dialog.opening,
                      step |-> 1, pc |-> "out", seen |-> TRUE, at |-> 0]
      /\ DOMAIN calls' = DOMAIN calls \cup {n}
      /\ n \notin DOMAIN calls
  BY Appended
<1>2. \A i \in DOMAIN calls : Alike(calls'[i], calls[i])
  BY <1>1, Counted1 DEF Alike, Submission
<1>3. calls'[n].draft = dialog.text
  BY <1>1
<1>4. dialog'.text = 0 /\ dialog'.typed = dialog.typed
  BY DEF Submit, Typed, DialogOK, Dialog
<1>5. d # 0 /\ UNCHANGED made
  BY DeskAssumption DEF Submit
<1> HIDE DEF n
<1>6. \A i \in DOMAIN calls :
        /\ calls'[i].draft = calls[i].draft
        /\ Before(calls'[i], a) <=> Before(calls[i], a)
  BY <1>2 DEF Alike, Before
<1>7. \A i, j \in DOMAIN calls' :
        calls'[i].draft = d /\ calls'[j].draft = d => i = j
  BY <1>1, <1>3, <1>6 DEF HastyOnce
<1>8. \A i \in DOMAIN calls' :
        calls'[i].draft = d /\ Before(calls'[i], a) => made[d] = 0
  BY <1>1, <1>3, <1>6 DEF HastyOnce
<1>9. QED
  BY <1>4, <1>5, <1>7, <1>8 DEF HastyOnce, Before

\* So do the network's steps: only one submission can add it.
LEMMA HastyNetwork ==
    ASSUME Typed, DeskNext, NEW a, AddedBy(a), NEW i \in DOMAIN calls,
           Serve(i) \/ Refuse(i) \/ LoseAnswer(i) \/ Succeed(i) \/ Fail(i),
           NEW d \in 1..MaxDrafts, HastyOnce(d, a)
    PROVE  HastyOnce(d, a)'
<1>1. /\ dialog'.typed \in Nat /\ dialog'.typed >= dialog.typed
      /\ dialog'.text \in {0, dialog.text}
      /\ dialog.typed \in Nat /\ d \in Nat /\ d # 0
  <2>1. UNCHANGED dialog \/ dialog' = Finished
    BY DEF Serve, Refuse, LoseAnswer, Succeed, Fail
  <2>2. QED
    BY <2>1, DialogChanges, TextChanges, Counted1, DeskAssumption
<1>2. /\ made[d] \in Nat
      /\ made'[d] = IF Serve(i) /\ calls[i].step = a /\ calls[i].draft = d
                    THEN made[d] + 1 ELSE made[d]
  BY NetworkTallies
<1>3. /\ DOMAIN calls' = DOMAIN calls
      /\ \A k \in DOMAIN calls : k # i => calls'[k] = calls[k]
      /\ calls'[i].draft = calls[i].draft
  BY NetworkSteps
<1>4. \A k \in DOMAIN calls : calls'[k].draft = calls[k].draft
  BY <1>3
<1>5. calls[i].step \in Nat /\ a \in Nat
  BY Counted1 DEF AddedBy, Typed, Sends
<1>6. Before(calls'[i], a) => Before(calls[i], a)
  BY <1>5, NetworkSteps DEF Before
<1>7. CASE Serve(i) /\ calls[i].step = a /\ calls[i].draft = d
  <2>1. calls[i].pc = "out" /\ calls'[i].pc = "served" /\ calls'[i].step = a
    BY <1>7, NetworkSteps
  <2>2. Before(calls[i], a) /\ ~Before(calls'[i], a)
    BY <1>5, <2>1, <1>7 DEF Before
  <2>3. made[d] = 0 /\ made'[d] = 1
    BY <1>2, <1>7, <2>2 DEF HastyOnce
  <2>4. dialog.text # d
    BY <1>7 DEF HastyOnce
  <2>5. d <= dialog.typed
    BY <1>1, <1>7, Counted1
  <2>6. \A k \in DOMAIN calls : calls[k].draft = d => k = i
    BY <1>7 DEF HastyOnce
  <2>7. QED
    BY <1>1, <1>3, <1>4, <2>2, <2>3, <2>4, <2>5, <2>6 DEF HastyOnce
<1>8. CASE ~(Serve(i) /\ calls[i].step = a /\ calls[i].draft = d)
  <2>1. made'[d] = made[d]
    BY <1>2, <1>8
  <2>2. \A k \in DOMAIN calls :
          Before(calls'[k], a) => Before(calls[k], a)
    BY <1>3, <1>6
  <2>3. d > dialog'.typed => d > dialog.typed
    BY <1>1
  <2>4. QED
    BY <1>1, <1>3, <1>4, <2>1, <2>2, <2>3 DEF HastyOnce
<1>9. QED
  BY <1>7, <1>8

\* A dialog that keeps its text until an answer is a careful one.
Patient ==
    /\ Has("guarded") /\ ~Has("hasty")
    /\ Has("keeps") => ~Has("forgets") /\ ~Has("bound")
    /\ \/ Has("clears")
       \/ Has("closes") /\ ~Has("keeps") /\ ~Has("leaves")

\* Text that stays is text the dialog still listens for.
LEMMA StillHeard ==
    ASSUME Typed, Patient, DeskNext, Quiet,
           NEW i \in DOMAIN calls, Hears(calls[i]), Out(calls[i]),
           dialog.text # 0, dialog'.text = dialog.text,
           Person \/ Age \/ Read \/ Arrive
    PROVE  Hears(calls[i])'
<1>1. dialog \in Dialog /\ calls[i] \in Submission
  BY Counted1 DEF Typed, DialogOK
<1>2. Alike(calls'[i], calls[i])
  BY DEF Quiet
<1>3. UNCHANGED deskForm
  BY DEF Person, Open, Type, Submit, Close, Leave, Return, Age, Read, Arrive,
         desk
<1>4. CASE UNCHANGED <<calls, dialog>>
  BY <1>3, <1>4 DEF Hears, Has
<1>5. CASE Open
  <2>1. UNCHANGED calls /\ ~dialog.open
    BY <1>5 DEF Open
  <2>2. QED
    BY <1>3, <2>1 DEF Hears, Has
<1>6. CASE Type
  <2>1. UNCHANGED calls
        /\ dialog' = [dialog EXCEPT !.typed = @ + 1, !.text = dialog.typed + 1]
    BY <1>6 DEF Type
  <2>2. dialog'.open = dialog.open /\ dialog'.opening = dialog.opening
    BY <1>1, <2>1 DEF Dialog
  <2>3. QED
    BY <1>3, <2>1, <2>2 DEF Hears, Has
<1>7. CASE Close
  <2>1. dialog' = Shut
    BY <1>7 DEF Close
  <2>2. Has("keeps")
    BY <1>1, <2>1 DEF Shut, Dialog
  <2>3. UNCHANGED calls /\ ~Has("bound")
    BY <1>7, <2>2 DEF Close, Patient
  <2>4. QED
    BY <1>3, <2>3 DEF Hears, Has
<1>8. CASE Leave
  <2>1. dialog'.text = 0
    BY <1>1, <1>8 DEF Leave, Dialog
  <2>2. QED
    BY <2>1
<1>9. CASE Submit
  BY <1>9, Appended DEF Quiet
<1>10. CASE Arrive
  <2>1. UNCHANGED calls /\ (UNCHANGED dialog
                            \/ dialog' = [dialog EXCEPT !.text = 0])
    BY <1>10 DEF Arrive
  <2>2. dialog'.open = dialog.open /\ dialog'.opening = dialog.opening
    BY <1>1, <2>1 DEF Dialog
  <2>3. QED
    BY <1>3, <2>1, <2>2 DEF Hears, Has
<1>11. CASE Return \/ Age \/ Read
  BY <1>4, <1>11 DEF Return, Age, Read
<1>12. QED
  BY <1>5, <1>6, <1>7, <1>8, <1>9, <1>10, <1>11 DEF Person

\* The quiet steps keep what holds of a dialog that waits for the answer.
LEMMA PatientQuiet ==
    ASSUME Typed, Patient, DeskNext, Quiet, Person \/ Age \/ Read \/ Arrive,
           NEW a, NEW d \in 1..MaxDrafts, PatientOnce(d, a)
    PROVE  PatientOnce(d, a)'
<1>1. /\ dialog'.typed \in Nat /\ dialog'.typed >= dialog.typed
      /\ \/ dialog'.text \in {0, dialog.text}
         \/ dialog'.text = dialog.typed + 1
      /\ dialog.typed \in Nat /\ d \in Nat /\ d # 0
  BY TextChanges, Counted1, DeskAssumption
<1>2. \A i \in DOMAIN calls :
        /\ calls'[i].draft = calls[i].draft
        /\ Out(calls'[i]) <=> Out(calls[i])
        /\ Undone(calls'[i], a) <=> Undone(calls[i], a)
        /\ calls[i].draft \in Nat /\ calls[i].draft <= dialog.typed
  BY Counted1 DEF Quiet, Alike, Out, Undone
<1>3. dialog'.text = d => \/ dialog.text = d
                         \/ d > dialog.typed
  BY <1>1
<1>4. d > dialog'.typed => d > dialog.typed
  BY <1>1
<1>5. d > dialog.typed => /\ \A i \in DOMAIN calls : calls[i].draft # d
                          /\ made[d] = 0
  BY <1>1, <1>2 DEF PatientOnce
<1>6. made[d] = 0 => made[d] <= lost[d]
  BY DEF Typed, TalliesOK
<1>7. ASSUME dialog'.text = d, NEW i \in DOMAIN calls,
             calls[i].draft = d, Out(calls[i])
      PROVE  Hears(calls[i])'
  <2>1. dialog.text = d
    BY <1>3, <1>5, <1>7
  <2>2. QED
    BY <1>1, <1>7, <2>1, StillHeard DEF PatientOnce
<1>8. DOMAIN calls' = DOMAIN calls /\ UNCHANGED <<made, lost>>
  BY DEF Quiet
<1>9. /\ d > dialog'.typed => made'[d] = 0
      /\ made'[d] <= 1 + lost'[d]
  BY <1>4, <1>8 DEF PatientOnce
<1>10. \A i \in DOMAIN calls' :
         calls'[i].draft = d /\ Undone(calls'[i], a) => made'[d] <= lost'[d]
  BY <1>2, <1>8 DEF PatientOnce
<1>11. ASSUME dialog'.text = d,
              \A i \in DOMAIN calls' : ~(calls'[i].draft = d /\ Out(calls'[i]))
       PROVE  made'[d] <= lost'[d]
  BY <1>2, <1>3, <1>5, <1>6, <1>8, <1>11 DEF PatientOnce
<1>12. \A i, j \in DOMAIN calls' :
         /\ calls'[i].draft = d /\ calls'[j].draft = d
         /\ Out(calls'[i]) /\ Out(calls'[j])
         => i = j
  BY <1>2, <1>8 DEF PatientOnce
<1>13. dialog'.text = d => \A i \in DOMAIN calls' :
         calls'[i].draft = d /\ Out(calls'[i]) => Hears(calls[i])'
  BY <1>2, <1>7, <1>8 DEF Hears
<1>14. QED
  BY <1>9, <1>10, <1>11, <1>12, <1>13 DEF PatientOnce, Out, Undone, Hears

\* So does a submission: none of the thing typed is out when the dialog, that
\* looks whether one is, sends it again.
LEMMA PatientSubmit ==
    ASSUME Typed, Patient, Submit, NEW a, AddedBy(a),
           NEW d \in 1..MaxDrafts, PatientOnce(d, a)
    PROVE  PatientOnce(d, a)'
<1> DEFINE n == Len(calls) + 1
<1>1. /\ \A i \in DOMAIN calls :
            calls'[i] = [calls[i] EXCEPT !.seen = FALSE]
      /\ calls'[n] = [draft |-> dialog.text, opening |-> dialog.opening,
                      step |-> 1, pc |-> "out", seen |-> TRUE, at |-> 0]
      /\ DOMAIN calls' = DOMAIN calls \cup {n}
      /\ n \notin DOMAIN calls
  BY Appended
<1> HIDE DEF n
<1>2. \A i \in DOMAIN calls : Alike(calls'[i], calls[i])
  BY <1>1, Counted1 DEF Alike, Submission
<1>3. /\ calls'[n].draft = dialog.text /\ calls'[n].seen = TRUE
      /\ calls'[n].opening = dialog.opening
  BY <1>1
<1>4. /\ UNCHANGED <<dialog, made, lost, deskForm>> /\ dialog.open
      /\ ~Pending
  BY DEF Submit, Patient, desk
<1>5. \A i \in DOMAIN calls :
        /\ calls'[i].draft = calls[i].draft
        /\ Out(calls'[i]) <=> Out(calls[i])
        /\ Undone(calls'[i], a) <=> Undone(calls[i], a)
  BY <1>2 DEF Alike, Out, Undone
<1>6. \A i \in DOMAIN calls :
        calls[i].draft = d /\ dialog.text = d => ~Out(calls[i])
  BY <1>4 DEF PatientOnce, Hears, Pending
<1>7. dialog.text = d => made[d] <= lost[d]
  BY <1>6 DEF PatientOnce
<1>8. \A i \in DOMAIN calls' :
        calls'[i].draft = d /\ Undone(calls'[i], a) => made[d] <= lost[d]
  BY <1>1, <1>3, <1>5, <1>7 DEF PatientOnce
<1>9. \A i, j \in DOMAIN calls' :
        /\ calls'[i].draft = d /\ calls'[j].draft = d
        /\ Out(calls'[i]) /\ Out(calls'[j])
        => i = j
  BY <1>1, <1>3, <1>5, <1>6 DEF PatientOnce
<1>10. \A i \in DOMAIN calls' :
         calls'[i].draft = d /\ dialog.text = d /\ Out(calls'[i]) => i = n
  BY <1>1, <1>5, <1>6
<1>11. ASSUME NEW i \in DOMAIN calls', i = n PROVE Hears(calls[i])'
  BY <1>3, <1>4, <1>11 DEF Hears, Has
<1>12. ASSUME NEW i \in DOMAIN calls', calls'[i].draft = d,
              dialog.text = d, Out(calls'[i])
       PROVE  Hears(calls[i])'
  BY <1>10, <1>11, <1>12
<1>13. QED
  BY <1>4, <1>7, <1>8, <1>9, <1>12 DEF PatientOnce, Out, Undone, Hears

\* The answer that adds empties the dialog if it is still about its text.
LEMMA AnswerEmpties ==
    ASSUME Typed, Patient, NEW i \in DOMAIN calls, Succeed(i),
           calls[i].step = Len(deskForm.steps), Hears(calls[i])
    PROVE  dialog'.text = 0
<1>1. dialog' = Finished
  <2>1. Finishes(calls[i])
    BY DEF Finishes, Hears
  <2>2. ~(calls[i].step < Len(deskForm.steps))
    BY DEF Typed, Sends
  <2>3. QED
    BY <2>1, <2>2 DEF Succeed
<1>2. dialog \in Dialog
  BY DEF Typed, DialogOK
<1>3. QED
  BY <1>1, <1>2 DEF Finished, Patient, Dialog

\* A step of the network leaves the dialog as it is or finishes it.
LEMMA NetworkDialog ==
    ASSUME Typed, NEW i \in DOMAIN calls,
           Serve(i) \/ Refuse(i) \/ LoseAnswer(i) \/ Succeed(i) \/ Fail(i)
    PROVE  /\ dialog'.typed = dialog.typed
           /\ dialog'.opening = dialog.opening
           /\ dialog'.text \in {0, dialog.text}
           /\ UNCHANGED deskForm
           /\ Patient /\ dialog'.text # 0 => UNCHANGED dialog
<1>1. UNCHANGED dialog \/ dialog' = Finished
  BY DEF Serve, Refuse, LoseAnswer, Succeed, Fail
<1>2. dialog \in Dialog
  BY DEF Typed, DialogOK
<1>3. ASSUME Patient, dialog' = Finished PROVE dialog'.text = 0
  BY <1>2, <1>3 DEF Finished, Patient, Dialog
<1>4. UNCHANGED deskForm
  BY DEF Serve, Refuse, LoseAnswer, Succeed, Fail, desk
<1>5. QED
  BY <1>1, <1>3, <1>4, DialogChanges

\* So do the network's steps: an answer that is heard empties the fields, and
\* one that is lost is counted.
LEMMA PatientNetwork ==
    ASSUME Typed, Patient, NEW i \in DOMAIN calls,
           Serve(i) \/ Refuse(i) \/ LoseAnswer(i) \/ Succeed(i) \/ Fail(i),
           NEW a, AddedBy(a), a = Len(deskForm.steps),
           NEW d \in 1..MaxDrafts, PatientOnce(d, a)
    PROVE  PatientOnce(d, a)'
<1>1. /\ dialog'.typed = dialog.typed /\ dialog.typed \in Nat
      /\ dialog'.text \in {0, dialog.text} /\ UNCHANGED deskForm
      /\ d \in Nat /\ d # 0
      /\ dialog'.text = d => UNCHANGED dialog
  BY NetworkDialog, Counted1, DeskAssumption
<1>2. /\ made[d] \in Nat /\ lost[d] \in Nat
      /\ made'[d] = IF Serve(i) /\ calls[i].step = a /\ calls[i].draft = d
                    THEN made[d] + 1 ELSE made[d]
      /\ lost'[d] = IF LoseAnswer(i) /\ calls[i].draft = d
                    THEN lost[d] + 1 ELSE lost[d]
  BY NetworkTallies
<1>3. /\ DOMAIN calls' = DOMAIN calls
      /\ \A k \in DOMAIN calls : k # i => calls'[k] = calls[k]
      /\ calls'[i].draft = calls[i].draft
      /\ calls'[i].opening = calls[i].opening
      /\ calls'[i].seen <=> calls[i].seen
  BY NetworkSteps
<1>4. \A k \in DOMAIN calls : calls'[k].draft = calls[k].draft
  BY <1>3
<1>5. /\ calls[i].step \in Nat /\ a \in Nat /\ calls[i].step <= a
      /\ calls[i].draft <= dialog.typed /\ calls[i].draft \in Nat
  BY Counted1 DEF Typed, Sends, CallsOK
<1>6. Out(calls[i])
  BY NetworkSteps DEF Out
<1>7. \A k \in DOMAIN calls : Out(calls'[k]) => Out(calls[k])
  BY <1>3, <1>6
\* Two of one draft are never out.
<1>8. \A k, j \in DOMAIN calls' :
        /\ calls'[k].draft = d /\ calls'[j].draft = d
        /\ Out(calls'[k]) /\ Out(calls'[j])
        => k = j
  BY <1>3, <1>4, <1>7 DEF PatientOnce
\* What is still in the fields is still listened for.
<1>9. ASSUME dialog'.text = d, NEW k \in DOMAIN calls,
             calls'[k].draft = d, Out(calls'[k])
      PROVE  Hears(calls[k])'
  <2>1. UNCHANGED dialog /\ Hears(calls[k])
    BY <1>1, <1>4, <1>7, <1>9 DEF PatientOnce
  <2>2. /\ calls'[k].opening = calls[k].opening
        /\ calls'[k].seen <=> calls[k].seen
    BY <1>3
  <2>3. QED
    BY <1>1, <2>1, <2>2 DEF Hears, Has
\* The tallies.
<1>10. CASE calls[i].draft = d
  <2>1. d <= dialog.typed
    BY <1>5, <1>10
  <2>2. \A k \in DOMAIN calls :
          calls[k].draft = d /\ Out(calls[k]) => k = i
    BY <1>6, <1>10 DEF PatientOnce
  <2>3. Undone(calls[i], a) => made[d] <= lost[d]
    BY <1>10 DEF PatientOnce
  <2>4. made[d] <= 1 + lost[d]
    BY DEF PatientOnce
  <2>5. made'[d] <= 1 + lost'[d]
    <3>1. CASE Serve(i)
      <4>1. Undone(calls[i], a)
        BY <1>6, <3>1, NetworkSteps DEF Undone
      <4>2. QED
        BY <1>2, <2>3, <4>1
    <3>2. CASE ~Serve(i)
      BY <1>2, <2>4, <3>2
    <3>3. QED
      BY <3>1, <3>2
  <2>6. Undone(calls'[i], a) => made'[d] <= lost'[d]
    <3>1. CASE Serve(i)
      <4>1. Undone(calls[i], a) /\ calls'[i].pc = "served"
            /\ calls'[i].step = calls[i].step
        BY <1>6, <3>1, NetworkSteps DEF Undone
      <4>2. QED
        BY <1>2, <2>3, <4>1 DEF Undone
    <3>2. CASE LoseAnswer(i)
      <4>1. ~Serve(i)
        BY <3>2, NetworkSteps
      <4>2. QED
        BY <1>2, <1>10, <2>4, <3>2, <4>1
    <3>3. CASE /\ Refuse(i) \/ Fail(i) \/ Succeed(i)
               /\ ~Serve(i) /\ ~LoseAnswer(i)
      <4>1. Undone(calls'[i], a) => Undone(calls[i], a)
        BY <1>5, <1>6, <3>3, NetworkSteps DEF Undone, Out
      <4>2. QED
        BY <1>2, <2>3, <3>3, <4>1
    <3>4. QED
      BY <3>1, <3>2, <3>3
  <2>7. ASSUME dialog'.text = d, ~Out(calls'[i])
        PROVE  made'[d] <= lost'[d]
    <3>1. CASE Fail(i)
      <4>1. Undone(calls[i], a) /\ ~Serve(i)
        BY <1>6, <3>1, NetworkSteps DEF Undone
      <4>2. QED
        BY <1>2, <2>3, <4>1
    <3>2. CASE Succeed(i)
      <4>1. calls[i].step = Len(deskForm.steps)
        BY <2>7, <3>2, NetworkSteps DEF Out
      <4>2. Hears(calls[i])
        BY <1>1, <1>6, <1>10, <2>7 DEF PatientOnce
      <4>3. QED
        BY <1>1, <2>7, <3>2, <4>1, <4>2, AnswerEmpties
    <3>3. CASE Serve(i) \/ Refuse(i) \/ LoseAnswer(i)
      BY <2>7, <3>3, NetworkSteps DEF Out
    <3>4. QED
      BY <3>1, <3>2, <3>3
  <2>8. \A k \in DOMAIN calls' :
          calls'[k].draft = d /\ Undone(calls'[k], a) => made'[d] <= lost'[d]
    BY <1>3, <1>4, <1>7, <2>2, <2>6 DEF Undone
  <2>9. dialog'.text = d /\ (\A k \in DOMAIN calls' :
                               ~(calls'[k].draft = d /\ Out(calls'[k])))
        => made'[d] <= lost'[d]
    BY <1>3, <1>10, <2>7
  <2>10. ~(d > dialog'.typed)
    BY <1>1, <2>1
  <2>11. QED
    BY <1>3, <1>8, <1>9, <2>5, <2>8, <2>9, <2>10
    DEF PatientOnce, Out, Undone, Hears
<1>11. CASE calls[i].draft # d
  <2>1. made'[d] = made[d] /\ lost'[d] = lost[d]
    BY <1>2, <1>11
  <2>2. \A k \in DOMAIN calls :
          calls[k].draft = d => calls'[k] = calls[k]
    BY <1>3, <1>11
  <2>3. \A k \in DOMAIN calls' :
          calls'[k].draft = d /\ Undone(calls'[k], a) => made'[d] <= lost'[d]
    BY <1>3, <1>4, <2>1, <2>2 DEF PatientOnce
  <2>4. ASSUME dialog'.text = d,
               \A k \in DOMAIN calls' :
                   ~(calls'[k].draft = d /\ Out(calls'[k]))
        PROVE  made'[d] <= lost'[d]
    <3>1. dialog.text = d
      BY <1>1, <2>4
    <3>2. \A k \in DOMAIN calls : ~(calls[k].draft = d /\ Out(calls[k]))
      BY <1>3, <1>4, <2>2, <2>4
    <3>3. QED
      BY <2>1, <3>1, <3>2 DEF PatientOnce
  <2>5. /\ d > dialog'.typed => made'[d] = 0
        /\ made'[d] <= 1 + lost'[d]
    BY <1>1, <2>1 DEF PatientOnce
  <2>6. QED
    BY <1>3, <1>8, <1>9, <2>3, <2>4, <2>5 DEF PatientOnce, Out, Undone, Hears
<1>12. QED
  BY <1>10, <1>11

\* The rule of Careful, for a form that adds by its a-th request.
LEMMA CarefulForm ==
    ASSUME Typed, Careful(deskForm), Adds(deskForm) # {}
    PROVE  \E a : /\ AddedBy(a)
                  /\ Has("guarded")
                  /\ Has("hasty") \/ (Patient /\ a = Len(deskForm.steps))
<1>1. PICK a \in Adds(deskForm) : TRUE
  OBVIOUS
<1>2. AddedBy(a)
  BY <1>1 DEF AddedBy, Adds, Careful, Typed, Sends
<1>3. Has("guarded") /\ (Has("hasty") \/ (Patient /\ a = Len(deskForm.steps)))
  BY <1>1 DEF Adds, Careful, Patient, Has
<1>4. QED
  BY <1>2, <1>3

\* It holds before anything is typed.
LEMMA OnceAtFirst ==
    ASSUME DeskInit, Typed, Careful(deskForm) PROVE Once
<1>1. /\ calls = <<>> /\ made = [d \in 1..MaxDrafts |-> 0]
      /\ lost = [d \in 1..MaxDrafts |-> 0] /\ dialog.text = 0
  BY DEF DeskInit, Blank
<1>2. ASSUME NEW a, NEW d \in 1..MaxDrafts
      PROVE  HastyOnce(d, a) /\ PatientOnce(d, a)
  BY <1>1, DeskAssumption DEF HastyOnce, PatientOnce
<1>3. CASE Adds(deskForm) = {}
  BY <1>1, <1>3 DEF Once
<1>4. CASE Adds(deskForm) # {}
  BY <1>2, <1>4, CarefulForm DEF Once
<1>5. QED
  BY <1>3, <1>4

\* Every step but a submission and those of the network is quiet.
LEMMA OthersAreQuiet ==
    ASSUME Typed, ~Submit, Person \/ Age \/ Read \/ Arrive
    PROVE  Quiet
<1>1. UNCHANGED <<made, lost>> /\ (UNCHANGED calls \/ calls' = Unseen(calls))
  BY DEF Person, Open, Type, Close, Leave, Return, Age, Read, Arrive
<1>2. QED
  BY <1>1, Forgotten1 DEF Quiet

\* Every step keeps it, of a dialog that is careful.
LEMMA OnceStep ==
    ASSUME Typed, Once, Careful(deskForm), [DeskNext]_deskVars PROVE Once'
<1>1. UNCHANGED deskForm
  BY Zenon
  DEF deskVars, DeskNext, Person, Open, Type, Submit, Close, Leave, Return,
      Network, Serve, Refuse, LoseAnswer, Succeed, Fail, Age, Read, Arrive,
      desk
<1>2. CASE UNCHANGED deskVars
  BY <1>2 DEF deskVars, Once, HastyOnce, PatientOnce, AddedBy, Has, Hears
<1>3. CASE DeskNext /\ Adds(deskForm) = {}
  <2>1. ASSUME NEW a, AddedBy(a) PROVE FALSE
    BY <1>3, <2>1 DEF AddedBy, Adds, Typed, Sends
  <2>2. made = [d \in 1..MaxDrafts |-> 0]
    BY <2>1 DEF Once
  <2>3. ASSUME NEW i \in DOMAIN calls, Serve(i) PROVE UNCHANGED made
    <3>1. calls[i].step \in DOMAIN deskForm.steps
      BY DEF Typed, CallsOK, Sends
    <3>2. StepOf(calls[i]).does # "add"
      BY <1>3, <3>1 DEF Adds, StepOf
    <3>3. QED
      BY <2>3, <3>2 DEF Serve
  <2>4. UNCHANGED made
    BY <1>3, <2>3, Zenon
    DEF DeskNext, Person, Open, Type, Submit, Close, Leave, Return, Network,
        Refuse, LoseAnswer, Succeed, Fail, Age, Read, Arrive
  <2>5. QED
    BY <1>1, <1>3, <2>2, <2>4 DEF Once, Adds
<1>4. CASE DeskNext /\ Adds(deskForm) # {}
  <2>1. PICK a : /\ AddedBy(a)
                 /\ IF Has("hasty")
                    THEN \A d \in 1..MaxDrafts : HastyOnce(d, a)
                    ELSE a = Len(deskForm.steps)
                         /\ \A d \in 1..MaxDrafts : PatientOnce(d, a)
    BY <1>4 DEF Once
  <2>2. AddedBy(a)'
    BY <1>1, <2>1 DEF AddedBy
  <2>3. PICK i \in DOMAIN calls \cup {0} :
          \/ Submit
          \/ Quiet /\ (Person \/ Age \/ Read \/ Arrive)
          \/ i # 0 /\ (Serve(i) \/ Refuse(i) \/ LoseAnswer(i) \/ Succeed(i)
                       \/ Fail(i))
    <3>1. CASE Network
      <4>1. 0 \notin DOMAIN calls
        BY DEF Typed, CallsOK
      <4>2. QED
        BY <3>1, <4>1 DEF Network
    <3>2. CASE Person \/ Age \/ Read \/ Arrive
      BY <3>2, OthersAreQuiet
    <3>3. QED
      BY <1>4, <3>1, <3>2 DEF DeskNext
  <2>4. CASE Has("hasty")
    <3>1. \A d \in 1..MaxDrafts : HastyOnce(d, a)'
      BY <1>4, <2>1, <2>3, <2>4, HastyQuiet, HastySubmit, HastyNetwork
    <3>2. Has("hasty")'
      BY <1>1, <2>4 DEF Has
    <3>3. QED
      BY <2>2, <3>1, <3>2 DEF Once
  <2>5. CASE ~Has("hasty")
    <3>1. Patient
      BY <1>4, <2>5, CarefulForm
    <3>2. \A d \in 1..MaxDrafts : PatientOnce(d, a)'
      BY <1>4, <2>1, <2>3, <2>5, <3>1, PatientQuiet, PatientSubmit,
         PatientNetwork
    <3>3. ~Has("hasty")' /\ (a = Len(deskForm.steps))'
      BY <1>1, <2>1, <2>5 DEF Has
    <3>4. QED
      BY <2>2, <3>2, <3>3 DEF Once
  <2>6. QED
    BY <2>4, <2>5
<1>5. QED
  BY <1>2, <1>3, <1>4

\* It is what the property says of what was done.
LEMMA OnceIsEnough ==
    ASSUME Typed, Once PROVE DoneOnce
<1>1. \A d \in 1..MaxDrafts : made[d] \in Nat /\ lost[d] \in Nat
  BY DEF Typed, TalliesOK
<1>2. ASSUME NEW d \in 1..MaxDrafts PROVE made[d] <= 1 + lost[d]
  <2>1. CASE made = [e \in 1..MaxDrafts |-> 0]
    BY <1>1, <2>1
  <2>2. ASSUME NEW a, HastyOnce(d, a) PROVE made[d] <= 1 + lost[d]
    <3>1. made[d] <= 1
      BY <2>2 DEF HastyOnce
    <3>2. QED
      BY <1>1, <3>1
  <2>3. ASSUME NEW a, PatientOnce(d, a) PROVE made[d] <= 1 + lost[d]
    BY <2>3 DEF PatientOnce
  <2>4. QED
    BY <2>1, <2>2, <2>3 DEF Once
<1>3. QED
  BY <1>2 DEF DoneOnce

------------------------------------------------------------------------------
(* The dialogs of the web admin                                            *)

\* The rule that each of them keeps, or is named as an exception for.
Rule(f) ==
    /\ Sends(f)
    /\ Careful(f) \/ f.name \in Repeats
    /\ "hasty" \in f.traits /\ "plain" \notin f.traits => f.name \in Hasty

\* A form whose traits are no excuse for being hasty.
Patiently(name, traits) ==
    "hasty" \in traits => "plain" \in traits \/ name \in Hasty

\* What a form of one request or of two is.
LEMMA OneRequest ==
    ASSUME NEW name, NEW r, NEW traits
    PROVE  /\ Form(name, <<r>>, traits).name = name
           /\ Form(name, <<r>>, traits).traits = traits
           /\ Form(name, <<r>>, traits).steps[1] = r
           /\ DOMAIN Form(name, <<r>>, traits).steps = {1}
           /\ Len(Form(name, <<r>>, traits).steps) = 1
           /\ Sends(Form(name, <<r>>, traits))
<1>1. <<r>> \in Seq({r}) /\ Len(<<r>>) = 1 /\ DOMAIN <<r>> = {1}
  OBVIOUS
<1>2. Form(name, <<r>>, traits).steps = <<r>>
  BY DEF Form
<1>3. \E S : Form(name, <<r>>, traits).steps \in Seq(S)
  <2>1. Form(name, <<r>>, traits).steps \in Seq({r})
    BY <1>1, <1>2
  <2>2. QED
    BY <2>1, Zenon
<1>4. Sends(Form(name, <<r>>, traits))
  <2>1. Len(Form(name, <<r>>, traits).steps) > 0
    BY <1>1, <1>2
  <2>2. QED
    BY <1>3, <2>1, Zenon DEF Sends
<1>5. QED
  BY <1>1, <1>2, <1>4 DEF Form

\* The same of two requests.
LEMMA TwoRequests ==
    ASSUME NEW name, NEW r, NEW s, NEW traits
    PROVE  /\ Form(name, <<r, s>>, traits).name = name
           /\ Form(name, <<r, s>>, traits).traits = traits
           /\ Form(name, <<r, s>>, traits).steps[1] = r
           /\ Form(name, <<r, s>>, traits).steps[2] = s
           /\ DOMAIN Form(name, <<r, s>>, traits).steps = {1, 2}
           /\ Len(Form(name, <<r, s>>, traits).steps) = 2
           /\ Sends(Form(name, <<r, s>>, traits))
<1>1. <<r, s>> \in Seq({r, s}) /\ Len(<<r, s>>) = 2 /\ DOMAIN <<r, s>> = {1, 2}
  OBVIOUS
<1>2. Form(name, <<r, s>>, traits).steps = <<r, s>>
  BY DEF Form
<1>3. \E S : Form(name, <<r, s>>, traits).steps \in Seq(S)
  <2>1. Form(name, <<r, s>>, traits).steps \in Seq({r, s})
    BY <1>1, <1>2
  <2>2. QED
    BY <2>1, Zenon
<1>4. Sends(Form(name, <<r, s>>, traits))
  <2>1. Len(Form(name, <<r, s>>, traits).steps) > 0
    BY <1>1, <1>2
  <2>2. QED
    BY <1>3, <2>1, Zenon DEF Sends
<1>5. QED
  BY <1>1, <1>2, <1>4 DEF Form

\* A form of one request that overwrites keeps the rule.
LEMMA SetRule ==
    ASSUME NEW name, NEW on, NEW renews, NEW traits, Patiently(name, traits)
    PROVE  Rule(Form(name, <<Send("set", on, renews)>>, traits))
<1> DEFINE r == Send("set", on, renews)
           f == Form(name, <<r>>, traits)
<1>1. r.does = "set"
  BY DEF Send
<1> HIDE DEF r
<1>2. /\ f.name = name /\ f.traits = traits /\ f.steps[1] = r
      /\ DOMAIN f.steps = {1} /\ Sends(f)
  BY OneRequest
<1> HIDE DEF f
<1>3. Adds(f) = {}
  BY <1>1, <1>2 DEF Adds
<1>4. Rule(f)
  BY <1>2, <1>3 DEF Rule, Careful, Adds, Patiently
<1>5. QED
  BY <1>4 DEF f, r

\* So does one of two such requests.
LEMMA SetSetRule ==
    ASSUME NEW name, NEW on, NEW renews, NEW also, NEW then, NEW traits,
           Patiently(name, traits)
    PROVE  Rule(Form(name, <<Send("set", on, renews),
                             Send("set", also, then)>>, traits))
<1> DEFINE r == Send("set", on, renews)
           s == Send("set", also, then)
           f == Form(name, <<r, s>>, traits)
<1>1. r.does = "set" /\ s.does = "set"
  BY DEF Send
<1> HIDE DEF r, s
<1>2. /\ f.name = name /\ f.traits = traits /\ f.steps[1] = r
      /\ f.steps[2] = s /\ DOMAIN f.steps = {1, 2} /\ Sends(f)
  BY TwoRequests
<1> HIDE DEF f
<1>3. Adds(f) = {}
  BY <1>1, <1>2 DEF Adds
<1>4. Rule(f)
  BY <1>2, <1>3 DEF Rule, Careful, Adds, Patiently
<1>5. QED
  BY <1>4 DEF f, r, s

\* The one that adds looks whether it is on its way, and is emptied when it is
\* answered or submitted.
Guarded(traits) ==
    /\ "guarded" \in traits
    /\ "keeps" \in traits => "forgets" \notin traits /\ "bound" \notin traits
Emptied(traits) ==
    \/ "clears" \in traits
    \/ "closes" \in traits /\ "keeps" \notin traits /\ "leaves" \notin traits

\* So does one that adds, if it is guarded and emptied.
LEMMA AddRule ==
    ASSUME NEW name, NEW on, NEW renews, NEW traits, Patiently(name, traits),
           \/ name \in Repeats
           \/ Guarded(traits) /\ ("hasty" \in traits \/ Emptied(traits))
    PROVE  Rule(Form(name, <<Send("add", on, renews)>>, traits))
<1> DEFINE r == Send("add", on, renews)
           f == Form(name, <<r>>, traits)
<1>1. r.does = "add"
  BY DEF Send
<1> HIDE DEF r
<1>2. /\ f.name = name /\ f.traits = traits /\ f.steps[1] = r
      /\ DOMAIN f.steps = {1} /\ Sends(f) /\ Len(f.steps) = 1
  BY OneRequest
<1> HIDE DEF f
<1>3. Adds(f) = {1}
  BY <1>1, <1>2 DEF Adds
<1>4. Careful(f) \/ name \in Repeats
  BY <1>2, <1>3 DEF Careful, Adds, Guarded, Emptied
<1>5. Rule(f)
  BY <1>2, <1>4 DEF Rule, Patiently
<1>6. QED
  BY <1>5 DEF f, r

\* So does one that overwrites and then adds.
LEMMA SetAddRule ==
    ASSUME NEW name, NEW on, NEW renews, NEW also, NEW then, NEW traits,
           Patiently(name, traits), Guarded(traits), Emptied(traits)
    PROVE  Rule(Form(name, <<Send("set", on, renews),
                             Send("add", also, then)>>, traits))
<1> DEFINE r == Send("set", on, renews)
           s == Send("add", also, then)
           f == Form(name, <<r, s>>, traits)
<1>1. r.does = "set" /\ s.does = "add"
  BY DEF Send
<1> HIDE DEF r, s
<1>2. /\ f.name = name /\ f.traits = traits /\ f.steps[1] = r
      /\ f.steps[2] = s /\ DOMAIN f.steps = {1, 2} /\ Sends(f)
      /\ Len(f.steps) = 2
  BY TwoRequests
<1> HIDE DEF f
<1>3. Adds(f) = {2}
  BY <1>1, <1>2 DEF Adds
<1>4. Careful(f)
  BY <1>2, <1>3 DEF Careful, Adds, Guarded, Emptied
<1>5. Rule(f)
  BY <1>2, <1>4 DEF Rule, Patiently
<1>6. QED
  BY <1>5 DEF f, r, s

\* One that adds first has to close at once: a refusal of its second request
\* leaves what was typed, which was added.
LEMMA AddSetRule ==
    ASSUME NEW name, NEW on, NEW renews, NEW also, NEW then, NEW traits,
           Patiently(name, traits),
           name \in Repeats \/ (Guarded(traits) /\ "hasty" \in traits)
    PROVE  Rule(Form(name, <<Send("add", on, renews),
                             Send("set", also, then)>>, traits))
<1> DEFINE r == Send("add", on, renews)
           s == Send("set", also, then)
           f == Form(name, <<r, s>>, traits)
<1>1. r.does = "add" /\ s.does = "set"
  BY DEF Send
<1> HIDE DEF r, s
<1>2. /\ f.name = name /\ f.traits = traits /\ f.steps[1] = r
      /\ f.steps[2] = s /\ DOMAIN f.steps = {1, 2} /\ Sends(f)
  BY TwoRequests
<1> HIDE DEF f
<1>3. Adds(f) = {1}
  BY <1>1, <1>2 DEF Adds
<1>4. Careful(f) \/ name \in Repeats
  BY <1>2, <1>3 DEF Careful, Adds, Guarded
<1>5. Rule(f)
  BY <1>2, <1>4 DEF Rule, Patiently
<1>6. QED
  BY <1>5 DEF f, r, s

\* The dialogs of dispatching and of cash.
LEMMA DispatchRules ==
    /\ \A f \in FormsOf(PhonePages) : Rule(f)
    /\ \A f \in FormsOf(DesktopPages) : Rule(f)
    /\ \A f \in FormsOf(OwnerCashPages) : Rule(f)
\* They only overwrite.
<1>1. /\ Rule(AssignSheet) /\ Rule(UnassignSheet) /\ Rule(CancelSheet)
      /\ Rule(ForceStatusSheet) /\ Rule(ScheduleSheet) /\ Rule(QuickConfirm)
      /\ Rule(QuickReturn) /\ Rule(PrepaymentButtons) /\ Rule(IntakeButton)
      /\ Rule(CourierSwitches) /\ Rule(RemoveTariff) /\ Rule(PhoneHandover)
      /\ Rule(PhoneTransaction) /\ Rule(RejectBox) /\ Rule(ProfilePassword)
      /\ Rule(SettleConfirmHandover)
  BY SetRule
  DEF Patiently, Hasty, Sheet, Modal, AssignSheet, UnassignSheet, CancelSheet,
      ForceStatusSheet, ScheduleSheet, QuickConfirm, QuickReturn,
      PrepaymentButtons, IntakeButton, CourierSwitches, RemoveTariff,
      PhoneHandover, PhoneTransaction, RejectBox, ProfilePassword,
      SettleConfirmHandover
<1>2. /\ Rule(SettleRejectHandover) /\ Rule(ScheduleModal)
      /\ Rule(RejectPrepaymentModal) /\ Rule(ForceStatusModal)
      /\ Rule(UnassignModal) /\ Rule(EditCourierModal)
      /\ Rule(ConfirmHandoverModal) /\ Rule(RejectHandoverModal)
      /\ Rule(TransactionConfirm) /\ Rule(TransactionReject)
      /\ Rule(VerifyHandover) /\ Rule(EditHandover) /\ Rule(QuickDecision)
      /\ Rule(DeleteHandover) /\ Rule(LedgerHandover) /\ Rule(LedgerSettlement)
  BY SetRule, Zenon
  DEF Patiently, Modal, SettleRejectHandover, ScheduleModal,
      RejectPrepaymentModal, ForceStatusModal, UnassignModal, EditCourierModal,
      ConfirmHandoverModal, RejectHandoverModal, TransactionConfirm,
      TransactionReject, VerifyHandover, EditHandover, QuickDecision,
      DeleteHandover, LedgerHandover, LedgerSettlement
<1>3. /\ Rule(LedgerEdit)
  BY SetRule
  DEF Patiently, LedgerEdit
\* Two requests that overwrite.
<1>4. /\ Rule(SubmitSettlement) /\ Rule(ToggleOrderIntakeModal)
  BY SetSetRule, Zenon DEF Patiently, SubmitSettlement, ToggleOrderIntakeModal
\* They add something, once.
<1>5. /\ Rule(CommentsSection) /\ Rule(AddTariff) /\ Rule(CommentsDrawer)
      /\ Rule(TariffsModal) /\ Rule(DrawerComments) /\ Rule(AddAttachment)
  BY AddRule
  DEF Patiently, Hasty, Repeats, Guarded, Emptied, CommentsSection, AddTariff,
      CommentsDrawer, TariffsModal, DrawerComments, AddAttachment
<1>6. QED
  BY <1>1, <1>2, <1>3, <1>4, <1>5
  DEF FormsOf, Page, PhonePages, DesktopPages, OwnerCashPages,
      DispatcherMobileApp, OrderDetailSheet, HistoryTab, CouriersTab,
      CourierDetailSheet, CashTab, ProfileSheet, CompanySettlementTab,
      DispatcherDesktop, OrderDrawer, CashSettlementTab, CashHandovers,
      CashTransactionsTab, CashHandoversPage, CashLedgerPanel

\* The dialogs of the warehouse.
LEMMA StockRules ==
    \A f \in FormsOf(StockPages) : Rule(f)
\* They only overwrite.
<1>1. /\ Rule(ArchiveProductModal) /\ Rule(AcceptReturn) /\ Rule(RejectReturn)
      /\ Rule(DecideLoss) /\ Rule(RenameWarehouseModal) /\ Rule(RestoreButton)
  BY SetRule, Zenon
  DEF Patiently, ArchiveProductModal, AcceptReturn, RejectReturn, DecideLoss,
      RenameWarehouseModal, RestoreButton
\* Two requests that overwrite.
<1>2. /\ Rule(EditProductModal) /\ Rule(ReceivingEditModal)
  BY SetSetRule, Zenon DEF Patiently, EditProductModal, ReceivingEditModal
\* They add something, once.
<1>3. /\ Rule(ReceivingModal) /\ Rule(WriteoffModal) /\ Rule(NewTransferModal)
      /\ Rule(NewWarehouseModal)
  BY AddRule
  DEF Patiently, Repeats, Guarded, Emptied, ReceivingModal, WriteoffModal,
      NewTransferModal, NewWarehouseModal
\* The first request adds.
<1>4. /\ Rule(CreateProductModal)
  BY AddSetRule
  DEF Patiently, Repeats, Guarded, Emptied, CreateProductModal
<1>5. QED
  BY <1>1, <1>2, <1>3, <1>4
  DEF FormsOf, Page, StockPages, WarehouseInventoryPage, WarehouseDashboard,
      WarehouseReceivingPage, WarehouseMovementsPage, WarehouseArchivePage,
      OwnerWarehousePage, OwnerWarehouseMobile

\* The dialogs of people and teams.
LEMMA PeopleRules ==
    \A f \in FormsOf(PeoplePages) : Rule(f)
\* They only overwrite.
<1>1. /\ Rule(EditEmployeeModal) /\ Rule(SaveStatus) /\ Rule(DeleteDocument)
      /\ Rule(DocumentStatus) /\ Rule(RemoveRule) /\ Rule(EditTeamModal)
      /\ Rule(DeactivateTeamModal)
  BY SetRule
  DEF Patiently, Hasty, EditEmployeeModal, SaveStatus, DeleteDocument,
      DocumentStatus, RemoveRule, EditTeamModal, DeactivateTeamModal
\* Two requests that overwrite.
<1>2. /\ Rule(AvatarUpload) /\ Rule(AssignTeamModal)
  BY SetSetRule
  DEF Patiently, Hasty, AvatarUpload, AssignTeamModal
\* They add something, once.
<1>3. /\ Rule(CreateEmployeeModal) /\ Rule(CreateTeamModal)
      /\ Rule(WorkerApplicationDetailModal) /\ Rule(SetSalaryModal)
      /\ Rule(CourierTariffsModal)
  BY AddRule
  DEF Patiently, Repeats, Guarded, Emptied, CreateEmployeeModal,
      CreateTeamModal, WorkerApplicationDetailModal, SetSalaryModal,
      CourierTariffsModal
\* The first request adds.
<1>4. /\ Rule(UploadDocuments)
  BY AddSetRule
  DEF Patiently, Hasty, Repeats, Guarded, Emptied, UploadDocuments
\* The second request adds.
<1>5. /\ Rule(PersonalRateModal)
  BY SetAddRule
  DEF Patiently, Guarded, Emptied, PersonalRateModal
<1>6. QED
  BY <1>1, <1>2, <1>3, <1>4, <1>5
  DEF FormsOf, Page, PeoplePages, TeamDirectoryPage, DetailPanel,
      DocumentsField, PayPanel, TeamProfilePage

\* The dialogs of the budget, payouts, pharmacies and accounts.
LEMMA MoneyRules ==
    /\ \A f \in FormsOf(OwnerMoneyPages) : Rule(f)
    /\ \A f \in FormsOf(TeamLeadPages) : Rule(f)
    /\ \A f \in FormsOf(SellerPages) : Rule(f)
    /\ \A f \in FormsOf(NewcomerPages) : Rule(f)
    /\ \A f \in FormsOf({PharmaciesPage, WarehousePassword}) : Rule(f)
\* They only overwrite.
<1>1. /\ Rule(EditBudgetTransaction) /\ Rule(EditFinanceExpense)
      /\ Rule(VoidPayoutModal) /\ Rule(TransferForm) /\ Rule(InvoiceVerdict)
      /\ Rule(PaymentVerdict) /\ Rule(ReturnVerdict) /\ Rule(ArchivePharmacy)
      /\ Rule(OrderStatusModal) /\ Rule(DeliverySettingsTab)
      /\ Rule(ProfileName) /\ Rule(MyAvatar) /\ Rule(ProfileView)
      /\ Rule(PasswordView) /\ Rule(TeamPayout) /\ Rule(ChangePasswordPage)
  BY SetRule, Zenon
  DEF Patiently, EditBudgetTransaction, EditFinanceExpense, VoidPayoutModal,
      TransferForm, InvoiceVerdict, PaymentVerdict, ReturnVerdict,
      ArchivePharmacy, OrderStatusModal, DeliverySettingsTab, ProfileName,
      MyAvatar, ProfileView, PasswordView, TeamPayout, ChangePasswordPage
<1>2. /\ Rule(WarehouseChangePasswordPage)
  BY SetRule
  DEF Patiently, WarehouseChangePasswordPage
\* They add something, once.
<1>3. /\ Rule(BudgetIncome) /\ Rule(BudgetWithdrawal) /\ Rule(AddExpenseModal)
      /\ Rule(PharmacyForm) /\ Rule(InvoiceForm) /\ Rule(PaymentForm)
      /\ Rule(ReturnForm) /\ Rule(OrderCommentsPanel) /\ Rule(SellerPayout)
      /\ Rule(SellerComment) /\ Rule(WorkerApplicationPage)
  BY AddRule, Zenon
  DEF Patiently, Repeats, Guarded, Emptied, BudgetIncome, BudgetWithdrawal,
      AddExpenseModal, PharmacyForm, InvoiceForm, PaymentForm, ReturnForm,
      OrderCommentsPanel, SellerPayout, SellerComment, WorkerApplicationPage
<1>4. QED
  BY <1>1, <1>2, <1>3
  DEF FormsOf, Page, OwnerMoneyPages, TeamLeadPages, SellerPages,
      NewcomerPages, BudgetCompanyPage, OwnerFinancePage, FinanceEventsTable,
      PharmaciesPage, OwnerOrdersPage, LogisticsPage, SellerProfileInfoPage,
      AccountMenu, TeamLeadFinancePage, TeamLeadSellerFinanceDetailPage,
      SellerOrders, PasswordPages, WarehousePassword, Application

\* Every dialog of the web admin keeps the rule.
LEMMA EveryRule == \A c \in AllCases : Rule(c[1])
<1>1. \A a \in Apps : \A f \in FormsOf(a) : Rule(f)
  <2>1. \A f \in FormsOf(StockPages \cup {PharmaciesPage, WarehousePassword}) :
            Rule(f)
    BY StockRules, MoneyRules DEF FormsOf
  <2>2. QED
    BY <2>1, DispatchRules, PeopleRules, MoneyRules DEF Apps
<1>2. QED
  BY <1>1 DEF AllCases, Together

------------------------------------------------------------------------------
(* The properties of the dialogs                                           *)

\* The dialog is one of those to look at.
LEMMA CaseStays ==
    ASSUME <<deskForm, query>> \in Cases, [DeskNext]_deskVars
    PROVE  <<deskForm, query>>' \in Cases /\ UNCHANGED <<deskForm, query>>
<1>1. UNCHANGED <<deskForm, query>>
  BY Zenon
  DEF DeskNext, deskVars, desk, Person, Network, Open, Type, Submit, Close,
      Leave, Return, Serve, Refuse, LoseAnswer, Succeed, Fail, Age, Read,
      Arrive
<1>2. QED
  BY <1>1

\* So does the one that is looked at.
LEMMA CaseRule ==
    ASSUME Cases \subseteq AllCases, <<deskForm, query>> \in Cases
    PROVE  Rule(deskForm)
<1>1. \A c \in AllCases : Rule(c[1])
  BY EveryRule
<1>2. Rule(<<deskForm, query>>[1])
  BY <1>1
<1>3. QED
  BY <1>2

\* What holds at first.
LEMMA TypedAtFirst ==
    ASSUME Cases \subseteq AllCases, DeskInit
    PROVE  <<deskForm, query>> \in Cases /\ Typed
<1>1. <<deskForm, query>> \in Cases
  <2>1. PICK c \in Cases : deskForm = c[1] /\ query = c[2]
    BY DEF DeskInit
  <2>2. PICK a \in Apps : c \in (FormsOf(a) \X {NoList}) \cup Together(a)
    BY DEF AllCases
  <2>3. c = <<c[1], c[2]>>
    BY <2>2 DEF Together
  <2>4. QED
    BY <2>1, <2>3
<1>2. Sends(deskForm)
  BY <1>1, CaseRule DEF Rule
<1>3. dialog = Blank /\ list = Fresh /\ calls = <<>> /\ server = 0 /\ own = 0
  BY DEF DeskInit
<1>4. DialogOK
  BY <1>3 DEF DialogOK, Dialog, Blank
<1>5. ListOK
  BY <1>3 DEF ListOK, List, Fresh
<1>6. CallsOK
  BY <1>3 DEF CallsOK
<1>7. TalliesOK
  BY DEF DeskInit, TalliesOK
<1>8. QED
  BY <1>1, <1>2, <1>4, <1>5, <1>6, <1>7 DEF Typed

\* The inductive invariant of the dialogs.
DeskIInv ==
    /\ <<deskForm, query>> \in Cases
    /\ Typed
    /\ deskForm.name \in Repeats \/ Once

\* Every step keeps it.
LEMMA DeskIInvStep ==
    ASSUME Cases \subseteq AllCases, DeskIInv, [DeskNext]_deskVars
    PROVE  DeskIInv'
<1>1. <<deskForm, query>>' \in Cases /\ UNCHANGED deskForm
  BY CaseStays DEF DeskIInv
<1>2. Typed'
  BY TypedStep DEF DeskIInv
<1>3. CASE deskForm.name \in Repeats
  BY <1>1, <1>2, <1>3 DEF DeskIInv
<1>4. CASE deskForm.name \notin Repeats
  <2>1. Careful(deskForm)
    BY <1>4, CaseRule DEF DeskIInv, Rule
  <2>2. Once'
    BY <1>4, <2>1, OnceStep DEF DeskIInv
  <2>3. QED
    BY <1>1, <1>2, <2>2 DEF DeskIInv
<1>5. QED
  BY <1>3, <1>4

\* It holds in every reachable state.
LEMMA DeskInvariant ==
    ASSUME Cases \subseteq AllCases
    PROVE  DeskSpec => []DeskIInv
<1>1. DeskInit => DeskIInv
  BY TypedAtFirst, CaseRule, OnceAtFirst DEF DeskIInv, Rule
<1>2. DeskIInv /\ [DeskNext]_deskVars => DeskIInv'
  BY DeskIInvStep
<1>3. QED
  BY <1>1, <1>2, PTL DEF DeskSpec

\* What is typed into a dialog once is done by the server at most once, and
\* once more for every answer that was lost, for every dialog of the code but
\* the Repeats: the submit button is off while the dialog knows of a mutation
\* that is pending, and onSuccess closes the dialog or empties its fields
\* before it can be pressed again. For any number of things typed, of
\* submissions and of lost answers, and for any set of the dialogs and lists of
\* the code.
THEOREM TypedOnceMadeOnce ==
    ASSUME Cases \subseteq AllCases
    PROVE  DeskSpec => []OncePerDraft
<1>1. DeskIInv => OncePerDraft
  BY OnceIsEnough DEF DeskIInv, OncePerDraft
<1>2. QED
  BY <1>1, DeskInvariant, PTL

\* The name of a form is the one it is given.
LEMMA RefilledName ==
    ASSUME NEW name \in Refilled, NEW steps, NEW traits
    PROVE  Form(name, steps, traits).name \in Refilled
BY DEF Form

\* Every dialog that a list of the code fills is named by the property.
LEMMA EveryFill == \A c \in Filled : c[1].name \in Refilled
<1>1. /\ "ReceivingEditModal" \in Refilled
      /\ "EditEmployeeModal" \in Refilled /\ "EditTeamModal" \in Refilled
      /\ "PersonalRateModal" \in Refilled
      /\ "DeliverySettingsTab" \in Refilled /\ "ProfileName" \in Refilled
  BY DEF Refilled
<1>2. /\ ReceivingEditModal.name \in Refilled
      /\ EditEmployeeModal.name \in Refilled
      /\ PersonalRateModal.name \in Refilled
  BY <1>1, RefilledName, Zenon
  DEF ReceivingEditModal, EditEmployeeModal, PersonalRateModal
<1>3. /\ EditTeamModal.name \in Refilled
      /\ DeliverySettingsTab.name \in Refilled
      /\ ProfileName.name \in Refilled
  BY <1>1, RefilledName DEF EditTeamModal, DeliverySettingsTab, ProfileName
<1>4. QED
  BY <1>2, <1>3 DEF Filled, StockFills, PeopleFills, MoneyFills

\* What is typed into an open dialog goes only when the person closes the
\* dialog or leaves the page, or when a request of the dialog was done: never
\* by pressing submit, by a refusal, by an answer that is lost or by a list
\* that is fetched. For every dialog of the code but those that are Hasty (they
\* empty the fields as they send the request) or Refilled (an effect sets the
\* fields again when the list it reads is fetched).
THEOREM TypedTextStays ==
    ASSUME Cases \subseteq AllCases, Fills \subseteq Filled
    PROVE  DeskSpec => TypingSurvives
<1>1. DeskIInv /\ [DeskNext]_deskVars
        => [deskForm.name \in Hasty \cup Refilled \/ StaysTyped]_deskVars
  <2> SUFFICES ASSUME DeskIInv, DeskNext
               PROVE  deskForm.name \in Hasty \cup Refilled \/ StaysTyped
    OBVIOUS
  <2>1. <<deskForm, query>> \in Fills => deskForm.name \in Refilled
    <3>1. ASSUME <<deskForm, query>> \in Fills
          PROVE  <<deskForm, query>>[1].name \in Refilled
      BY <3>1, EveryFill
    <3>2. QED
      BY <3>1
  <2>2. Keeping(deskForm, query)
    BY <2>1, CaseRule DEF DeskIInv, Rule, Keeping
  <2>3. QED
    BY <2>2, OthersStayTyped DEF DeskIInv
<1>2. QED
  BY <1>1, DeskInvariant, PTL DEF DeskSpec, TypingSurvives

------------------------------------------------------------------------------
(* What the dialogs renew                                                  *)

\* A list that the dialog renews, or is named as forgetting.
ShownBy(f, q) == Renewing(f, q) \/ <<f.name, q.name>> \in Forgotten

\* A key begins with another one of the same parts.
LEMMA PrefixIf ==
    ASSUME NEW S, NEW s \in Seq(S), NEW t \in Seq(S), Len(s) <= Len(t),
           \A i \in 1..Len(s) : s[i] = t[i]
    PROVE  IsPrefix(s, t)
<1> DEFINE n == Len(s)
           u == SubSeq(s, 1, n)
           v == SubSeq(t, 1, n)
<1>1. n \in Nat /\ Len(t) \in Nat
  OBVIOUS
<1>2. \A i \in 1..n : s[i] \in S /\ t[i] \in S
  BY <1>1
<1>3. u \in Seq(S) /\ Len(u) = n /\ \A i \in 1..n : u[i] = s[i]
  <2>1. \A i \in 1..n : s[i] \in S
    BY <1>2
  <2>2. QED
    BY <1>1
<1>4. v \in Seq(S) /\ Len(v) = n /\ \A i \in 1..n : v[i] = t[i]
  BY <1>1
<1>5. u = v
  BY <1>1, <1>3, <1>4
<1>6. QED
  BY <1>5 DEF IsPrefix

\* Keys of one, two and three parts.
LEMMA ShortPrefix ==
    ASSUME NEW S, NEW one \in Seq(S), NEW two \in Seq(S), NEW three \in Seq(S),
           Len(one) = 1, Len(two) = 2, Len(three) = 3,
           one[1] = two[1], two[1] = three[1], two[2] = three[2]
    PROVE  /\ IsPrefix(one, one) /\ IsPrefix(one, two) /\ IsPrefix(one, three)
           /\ IsPrefix(two, two) /\ IsPrefix(two, three)
           /\ IsPrefix(three, three)
<1>1. IsPrefix(one, one) /\ IsPrefix(one, two) /\ IsPrefix(one, three)
  BY PrefixIf
<1>2. IsPrefix(two, two) /\ IsPrefix(two, three)
  BY PrefixIf
<1>3. IsPrefix(three, three)
  BY PrefixIf
<1>4. QED
  BY <1>1, <1>2, <1>3

\* The same of the keys as the code writes them.
LEMMA KeyPrefixes ==
    ASSUME NEW a, NEW b, NEW c
    PROVE  /\ IsPrefix(<<a>>, <<a>>) /\ IsPrefix(<<a>>, <<a, b>>)
           /\ IsPrefix(<<a>>, <<a, b, c>>)
           /\ IsPrefix(<<a, b>>, <<a, b>>) /\ IsPrefix(<<a, b>>, <<a, b, c>>)
           /\ IsPrefix(<<a, b, c>>, <<a, b, c>>)
<1> DEFINE S == {a, b, c}
           one == <<a>>
           two == <<a, b>>
           three == <<a, b, c>>
<1>1. one \in Seq(S) /\ two \in Seq(S) /\ three \in Seq(S)
  OBVIOUS
<1>2. Len(one) = 1 /\ Len(two) = 2 /\ Len(three) = 3
  OBVIOUS
<1>3. one[1] = two[1] /\ two[1] = three[1] /\ two[2] = three[2]
  OBVIOUS
<1> HIDE DEF S, one, two, three
<1>4. /\ IsPrefix(one, one) /\ IsPrefix(one, two) /\ IsPrefix(one, three)
      /\ IsPrefix(two, two) /\ IsPrefix(two, three) /\ IsPrefix(three, three)
  BY <1>1, <1>2, <1>3, ShortPrefix
<1>5. QED
  BY <1>4 DEF one, two, three

\* What a request changed is shown: the list is not about it, or is renewed.
RenewedFor(on, renews, q) ==
    on \cap q.reads # {} => \E k \in renews : IsPrefix(k, q.key)
\* The invalidations are those of the hook and name the row of the request.
Steady(traits, q) ==
    "renews on call" \notin traits /\ ~(q.byId /\ "shared" \in traits)

\* The rule, for a form of one request.
LEMMA ShownByOne ==
    ASSUME NEW name, NEW does, NEW on, NEW renews, NEW traits, NEW q
    PROVE  \/ on \cap q.reads = {}
           \/ <<name, q.name>> \in Forgotten
           \/ RenewedFor(on, renews, q) /\ Steady(traits, q)
           => ShownBy(Form(name, <<Send(does, on, renews)>>, traits), q)
<1> DEFINE r == Send(does, on, renews)
           f == Form(name, <<r>>, traits)
<1>1. r.on = on /\ r.renews = renews
  BY DEF Send
<1> HIDE DEF r
<1>2. /\ f.name = name /\ f.traits = traits /\ f.steps[1] = r
      /\ DOMAIN f.steps = {1}
  BY OneRequest
<1> HIDE DEF f
<1>3. \/ on \cap q.reads = {}
      \/ <<name, q.name>> \in Forgotten
      \/ RenewedFor(on, renews, q) /\ Steady(traits, q)
      => ShownBy(f, q)
  BY <1>1, <1>2, Zenon DEF ShownBy, Renewing, RenewedFor, Steady
<1>4. QED
  BY <1>3 DEF f, r

\* The rule, for a form of two requests.
LEMMA ShownByTwo ==
    ASSUME NEW name, NEW does, NEW on, NEW renews, NEW adds, NEW also,
           NEW then, NEW traits, NEW q
    PROVE  \/ on \cap q.reads = {} /\ also \cap q.reads = {}
           \/ <<name, q.name>> \in Forgotten
           \/ /\ RenewedFor(on, renews, q) /\ RenewedFor(also, then, q)
              /\ Steady(traits, q)
           => ShownBy(Form(name, <<Send(does, on, renews),
                                   Send(adds, also, then)>>, traits), q)
<1> DEFINE r == Send(does, on, renews)
           s == Send(adds, also, then)
           f == Form(name, <<r, s>>, traits)
<1>1. r.on = on /\ r.renews = renews /\ s.on = also /\ s.renews = then
  BY DEF Send
<1> HIDE DEF r, s
<1>2. /\ f.name = name /\ f.traits = traits /\ f.steps[1] = r
      /\ f.steps[2] = s /\ DOMAIN f.steps = {1, 2}
  BY TwoRequests
<1> HIDE DEF f
<1>3. \/ on \cap q.reads = {} /\ also \cap q.reads = {}
      \/ <<name, q.name>> \in Forgotten
      \/ /\ RenewedFor(on, renews, q) /\ RenewedFor(also, then, q)
         /\ Steady(traits, q)
      => ShownBy(f, q)
  BY <1>1, <1>2, Zenon DEF ShownBy, Renewing, RenewedFor, Steady
<1>4. QED
  BY <1>3 DEF f, r, s

\* A request tells: it changes nothing that the list reads, or renews it, or
\* the dialog is named as one that forgets it.
Told(name, on, renews, traits, q) ==
    (\E x \in on : x \in q.reads) =>
        \/ <<name, q.name>> \in Forgotten
        \/ (\E k \in renews : IsPrefix(k, q.key)) /\ Steady(traits, q)

\* Of one request.
LEMMA OneTold ==
    ASSUME NEW name, NEW does, NEW on, NEW renews, NEW traits, NEW q,
           Told(name, on, renews, traits, q)
    PROVE  ShownBy(Form(name, <<Send(does, on, renews)>>, traits), q)
<1>1. \/ on \cap q.reads = {}
      \/ <<name, q.name>> \in Forgotten
      \/ RenewedFor(on, renews, q) /\ Steady(traits, q)
  BY DEF Told, RenewedFor
<1>2. QED
  BY <1>1, ShownByOne

\* Of two requests.
LEMMA TwoTold ==
    ASSUME NEW name, NEW does, NEW on, NEW renews, NEW adds, NEW also,
           NEW then, NEW traits, NEW q,
           Told(name, on, renews, traits, q), Told(name, also, then, traits, q)
    PROVE  ShownBy(Form(name, <<Send(does, on, renews),
                                Send(adds, also, then)>>, traits), q)
<1>1. \/ on \cap q.reads = {}
      \/ <<name, q.name>> \in Forgotten
      \/ RenewedFor(on, renews, q) /\ Steady(traits, q)
  BY DEF Told, RenewedFor
<1>2. \/ also \cap q.reads = {}
      \/ <<name, q.name>> \in Forgotten
      \/ RenewedFor(also, then, q) /\ Steady(traits, q)
  BY DEF Told, RenewedFor
<1>3. \/ on \cap q.reads = {} /\ also \cap q.reads = {}
      \/ <<name, q.name>> \in Forgotten
      \/ /\ RenewedFor(on, renews, q) /\ RenewedFor(also, then, q)
         /\ Steady(traits, q)
  BY <1>1, <1>2 DEF RenewedFor
<1>4. QED
  BY <1>3, ShownByTwo

\* All of some lists; and those of the pages that the offices share.
Shows(f, lists) == \A q \in lists : ShownBy(f, q)
OfficeLists ==
    ListsOf(StockPages \cup {PharmaciesPage, WarehousePassword})
    \cup ListsOf(OwnerMoneyPages) \cup ListsOf(TeamLeadPages)
    \cup ListsOf(SellerPages)

------------------------------------------------------------------------------
(* What is renewed on the dispatcher's phone                               *)

\* The lists there, and which of them read what a dialog changes.
LEMMA PhoneMounts ==
    ListsOf(PhonePages) = {OrderDetail, Timeline, Comments, OrderHistory,
     CashSettlement, CourierTariffs, DHandovers, CashTransactions, LHandovers,
     MySettlementsSummary, MySettlements}
BY DEF ListsOf, Page, PhonePages, DispatcherMobileApp, OrderDetailSheet,
   HistoryTab, CouriersTab, CourierDetailSheet, CashTab, ProfileSheet,
   CompanySettlementTab

\* Which of them read each thing that is changed there.
PhoneReading(q) ==
    /\ "order" \in q.reads => q \in {OrderDetail, Timeline, OrderHistory}
    /\ "prepayment" \in q.reads => q = OrderDetail
    /\ "comment" \in q.reads => q = Comments
    /\ "courier" \notin q.reads
    /\ "tariff" \in q.reads => q = CourierTariffs
    /\ "handover" \in q.reads => q \in {CashSettlement, DHandovers,
         CashTransactions, LHandovers, MySettlementsSummary}
    /\ "settlement" \in q.reads => q \in {MySettlementsSummary, MySettlements}

\* The lists there are such.
LEMMA PhoneReads == \A q \in ListsOf(PhonePages) : PhoneReading(q)
<1>1. /\ OrderDetail.reads = {"order", "prepayment", "attachment"}
      /\ Timeline.reads = {"order"} /\ Comments.reads = {"comment"}
  BY DEF OrderDetail, Timeline, Comments, QueryById
<1>2. /\ PhoneReading(OrderDetail) /\ PhoneReading(Timeline)
      /\ PhoneReading(Comments)
  BY <1>1 DEF PhoneReading
<1>3. /\ OrderHistory.reads = {"order"} /\ CashSettlement.reads = {"handover"}
      /\ CourierTariffs.reads = {"tariff"}
  BY DEF OrderHistory, CashSettlement, CourierTariffs, Query, QueryById
<1>4. /\ PhoneReading(OrderHistory) /\ PhoneReading(CashSettlement)
      /\ PhoneReading(CourierTariffs)
  BY <1>3 DEF PhoneReading
<1>5. /\ DHandovers.reads = {"handover"}
      /\ CashTransactions.reads = {"handover"}
      /\ LHandovers.reads = {"handover"}
  BY DEF DHandovers, CashTransactions, LHandovers, Query
<1>6. /\ PhoneReading(DHandovers) /\ PhoneReading(CashTransactions)
      /\ PhoneReading(LHandovers)
  BY <1>5 DEF PhoneReading
<1>7. /\ MySettlementsSummary.reads = {"handover", "settlement"}
      /\ MySettlements.reads = {"settlement"}
  BY DEF MySettlementsSummary, MySettlements, Query
<1>8. /\ PhoneReading(MySettlementsSummary) /\ PhoneReading(MySettlements)
  BY <1>7 DEF PhoneReading
<1>9. QED
  BY PhoneMounts, <1>2, <1>4, <1>6, <1>8

\* What the exceptions call them.
LEMMA PhoneNames ==
    /\ OrderDetail.name = "order" /\ Timeline.name = "timeline"
    /\ OrderHistory.name = "order history" /\ CourierTariffs.name = "tariffs"
    /\ CashSettlement.name = "settlement of couriers"
    /\ CashTransactions.name = "transactions"
    /\ LHandovers.name = "owner's handovers"
    /\ MySettlementsSummary.name = "my balance"
<1>1. /\ OrderDetail.name = "order" /\ Timeline.name = "timeline"
      /\ OrderHistory.name = "order history" /\ CourierTariffs.name = "tariffs"
  BY DEF OrderDetail, Timeline, OrderHistory, CourierTariffs, QueryById, Query
<1>2. /\ CashSettlement.name = "settlement of couriers"
      /\ CashTransactions.name = "transactions"
      /\ LHandovers.name = "owner's handovers"
      /\ MySettlementsSummary.name = "my balance"
  BY DEF CashSettlement, CashTransactions, LHandovers, MySettlementsSummary,
     Query
<1>3. QED
  BY <1>1, <1>2, Zenon

\* The keys that an answer invalidates begin theirs.
LEMMA PhoneKeys ==
    /\ IsPrefix(<<"dispatcher">>, OrderDetail.key)
    /\ IsPrefix(<<"dispatcher">>, Timeline.key)
    /\ IsPrefix(<<"dispatcher">>, OrderHistory.key)
    /\ IsPrefix(Comments.key, Comments.key)
    /\ IsPrefix(DHandovers.key, DHandovers.key)
    /\ IsPrefix(<<"dispatcher">>, CashSettlement.key)
    /\ IsPrefix(<<"dispatcher">>, DHandovers.key)
    /\ IsPrefix(<<"dispatcher">>, CashTransactions.key)
    /\ IsPrefix(<<"dispatcher">>, MySettlementsSummary.key)
    /\ IsPrefix(LHandovers.key, LHandovers.key)
    /\ IsPrefix(<<"dispatcher", "settlements">>, MySettlementsSummary.key)
    /\ IsPrefix(<<"dispatcher", "settlements">>, MySettlements.key)
<1>1. /\ IsPrefix(<<"dispatcher">>, OrderDetail.key)
      /\ IsPrefix(<<"dispatcher">>, Timeline.key)
      /\ IsPrefix(<<"dispatcher">>, OrderHistory.key)
  BY KeyPrefixes
  DEF OrderDetail, Timeline, OrderHistory, QueryById, Query
<1>2. /\ IsPrefix(Comments.key, Comments.key)
      /\ IsPrefix(DHandovers.key, DHandovers.key)
      /\ IsPrefix(<<"dispatcher">>, CashSettlement.key)
  BY KeyPrefixes
  DEF Comments, DHandovers, CashSettlement, QueryById, Query
<1>3. /\ IsPrefix(<<"dispatcher">>, DHandovers.key)
      /\ IsPrefix(<<"dispatcher">>, CashTransactions.key)
      /\ IsPrefix(<<"dispatcher">>, MySettlementsSummary.key)
  BY KeyPrefixes
  DEF DHandovers, CashTransactions, MySettlementsSummary, Query
<1>4. /\ IsPrefix(LHandovers.key, LHandovers.key)
      /\ IsPrefix(<<"dispatcher", "settlements">>, MySettlementsSummary.key)
      /\ IsPrefix(<<"dispatcher", "settlements">>, MySettlements.key)
  BY KeyPrefixes
  DEF LHandovers, MySettlementsSummary, MySettlements, Query
<1>5. QED
  BY <1>1, <1>2, <1>3, <1>4

\* Each dialog renews the lists that it changes, or is named as an exception.
LEMMA PhoneRenew ==
    /\ Shows(AssignSheet, ListsOf(PhonePages))
    /\ Shows(UnassignSheet, ListsOf(PhonePages))
    /\ Shows(CancelSheet, ListsOf(PhonePages))
    /\ Shows(ForceStatusSheet, ListsOf(PhonePages))
    /\ Shows(ScheduleSheet, ListsOf(PhonePages))
    /\ Shows(QuickConfirm, ListsOf(PhonePages))
    /\ Shows(QuickReturn, ListsOf(PhonePages))
    /\ Shows(PrepaymentButtons, ListsOf(PhonePages))
    /\ Shows(CommentsSection, ListsOf(PhonePages))
    /\ Shows(IntakeButton, ListsOf(PhonePages))
    /\ Shows(CourierSwitches, ListsOf(PhonePages))
    /\ Shows(AddTariff, ListsOf(PhonePages))
    /\ Shows(RemoveTariff, ListsOf(PhonePages))
    /\ Shows(PhoneHandover, ListsOf(PhonePages))
    /\ Shows(PhoneTransaction, ListsOf(PhonePages))
    /\ Shows(RejectBox, ListsOf(PhonePages))
    /\ Shows(ProfilePassword, ListsOf(PhonePages))
    /\ Shows(SettleConfirmHandover, ListsOf(PhonePages))
    /\ Shows(SettleRejectHandover, ListsOf(PhonePages))
    /\ Shows(SubmitSettlement, ListsOf(PhonePages))
<1>1. Shows(AssignSheet, ListsOf(PhonePages))
  <2> SUFFICES ASSUME NEW q \in ListsOf(PhonePages)
               PROVE  ShownBy(AssignSheet, q)
    BY DEF Shows
  <2>1. /\ <<"AssignSheet", "order">> \in Forgotten
        /\ <<"AssignSheet", "timeline">> \in Forgotten
    BY Zenon DEF Forgotten
  <2>2. /\ <<"AssignSheet", "order history">> \in Forgotten
    BY Zenon DEF Forgotten
  <2>3. Told("AssignSheet", {"order"}, invalidateBoard, {"guarded", "closes"},
             q)
    BY PhoneReads, <2>1, <2>2, PhoneNames, Zenon DEF PhoneReading, Told
  <2>4. QED
    BY <2>3, OneTold DEF AssignSheet, Sheet
<1>2. Shows(UnassignSheet, ListsOf(PhonePages))
  <2> SUFFICES ASSUME NEW q \in ListsOf(PhonePages)
               PROVE  ShownBy(UnassignSheet, q)
    BY DEF Shows
  <2>1. /\ <<"UnassignSheet", "order">> \in Forgotten
        /\ <<"UnassignSheet", "timeline">> \in Forgotten
    BY Zenon DEF Forgotten
  <2>2. /\ <<"UnassignSheet", "order history">> \in Forgotten
    BY Zenon DEF Forgotten
  <2>3. Told("UnassignSheet", {"order"}, invalidateBoard, {"guarded",
             "closes"}, q)
    BY PhoneReads, <2>1, <2>2, PhoneNames, Zenon DEF PhoneReading, Told
  <2>4. QED
    BY <2>3, OneTold DEF UnassignSheet, Sheet
<1>3. Shows(CancelSheet, ListsOf(PhonePages))
  <2> SUFFICES ASSUME NEW q \in ListsOf(PhonePages)
               PROVE  ShownBy(CancelSheet, q)
    BY DEF Shows
  <2>1. /\ <<"CancelSheet", "order">> \in Forgotten
        /\ <<"CancelSheet", "timeline">> \in Forgotten
    BY Zenon DEF Forgotten
  <2>2. /\ <<"CancelSheet", "order history">> \in Forgotten
    BY Zenon DEF Forgotten
  <2>3. Told("CancelSheet", {"order"}, invalidateBoard, {"guarded", "closes"},
             q)
    BY PhoneReads, <2>1, <2>2, PhoneNames, Zenon DEF PhoneReading, Told
  <2>4. QED
    BY <2>3, OneTold DEF CancelSheet, Sheet
<1>4. Shows(ForceStatusSheet, ListsOf(PhonePages))
  <2> SUFFICES ASSUME NEW q \in ListsOf(PhonePages)
               PROVE  ShownBy(ForceStatusSheet, q)
    BY DEF Shows
  <2>1. Told("ForceStatusSheet", {"order"}, All, {"guarded", "closes"}, q)
    BY PhoneReads, PhoneKeys DEF PhoneReading, Told, Steady, All
  <2>2. QED
    BY <2>1, OneTold DEF ForceStatusSheet, Sheet
<1>5. Shows(ScheduleSheet, ListsOf(PhonePages))
  <2> SUFFICES ASSUME NEW q \in ListsOf(PhonePages)
               PROVE  ShownBy(ScheduleSheet, q)
    BY DEF Shows
  <2>1. /\ <<"ScheduleSheet", "order">> \in Forgotten
        /\ <<"ScheduleSheet", "timeline">> \in Forgotten
    BY Zenon DEF Forgotten
  <2>2. /\ <<"ScheduleSheet", "order history">> \in Forgotten
    BY Zenon DEF Forgotten
  <2>3. Told("ScheduleSheet", {"order"}, invalidateBoard, {"guarded",
             "closes"}, q)
    BY PhoneReads, <2>1, <2>2, PhoneNames, Zenon DEF PhoneReading, Told
  <2>4. QED
    BY <2>3, OneTold DEF ScheduleSheet, Sheet
<1>6. Shows(QuickConfirm, ListsOf(PhonePages))
  <2> SUFFICES ASSUME NEW q \in ListsOf(PhonePages)
               PROVE  ShownBy(QuickConfirm, q)
    BY DEF Shows
  <2>1. /\ <<"QuickConfirm", "order">> \in Forgotten
        /\ <<"QuickConfirm", "timeline">> \in Forgotten
    BY Zenon DEF Forgotten
  <2>2. /\ <<"QuickConfirm", "order history">> \in Forgotten
    BY Zenon DEF Forgotten
  <2>3. Told("QuickConfirm", {"order"}, invalidateBoard, {"plain", "guarded"},
             q)
    BY PhoneReads, <2>1, <2>2, PhoneNames, Zenon DEF PhoneReading, Told
  <2>4. QED
    BY <2>3, OneTold DEF QuickConfirm
<1>7. Shows(QuickReturn, ListsOf(PhonePages))
  <2> SUFFICES ASSUME NEW q \in ListsOf(PhonePages)
               PROVE  ShownBy(QuickReturn, q)
    BY DEF Shows
  <2>1. /\ <<"QuickReturn", "order">> \in Forgotten
        /\ <<"QuickReturn", "timeline">> \in Forgotten
    BY Zenon DEF Forgotten
  <2>2. /\ <<"QuickReturn", "order history">> \in Forgotten
    BY Zenon DEF Forgotten
  <2>3. Told("QuickReturn", {"order"}, invalidateBoard, {"plain"}, q)
    BY PhoneReads, <2>1, <2>2, PhoneNames, Zenon DEF PhoneReading, Told
  <2>4. QED
    BY <2>3, OneTold DEF QuickReturn
<1>8. Shows(PrepaymentButtons, ListsOf(PhonePages))
  <2> SUFFICES ASSUME NEW q \in ListsOf(PhonePages)
               PROVE  ShownBy(PrepaymentButtons, q)
    BY DEF Shows
  <2>1. /\ <<"PrepaymentButtons", "order">> \in Forgotten
        /\ <<"PrepaymentButtons", "timeline">> \in Forgotten
    BY Zenon DEF Forgotten
  <2>2. /\ <<"PrepaymentButtons", "order history">> \in Forgotten
    BY Zenon DEF Forgotten
  <2>3. Told("PrepaymentButtons", {"order", "prepayment"}, {OrderDetail.key,
             Board}, {"plain", "guarded", "shared"}, q)
    BY PhoneReads, <2>1, <2>2, PhoneNames, Zenon DEF PhoneReading, Told
  <2>4. QED
    BY <2>3, OneTold DEF PrepaymentButtons
<1>9. Shows(CommentsSection, ListsOf(PhonePages))
  <2> SUFFICES ASSUME NEW q \in ListsOf(PhonePages)
               PROVE  ShownBy(CommentsSection, q)
    BY DEF Shows
  <2>1. Told("CommentsSection", {"comment"}, {Comments.key}, {"clears",
             "bound", "forgets"}, q)
    BY PhoneReads, PhoneKeys DEF PhoneReading, Told, Steady
  <2>2. QED
    BY <2>1, OneTold DEF CommentsSection
<1>10. Shows(IntakeButton, ListsOf(PhonePages))
  <2> SUFFICES ASSUME NEW q \in ListsOf(PhonePages)
               PROVE  ShownBy(IntakeButton, q)
    BY DEF Shows
  <2>1. Told("IntakeButton", {"courier"}, {Couriers}, {"plain", "guarded"}, q)
    BY PhoneReads DEF PhoneReading, Told
  <2>2. QED
    BY <2>1, OneTold DEF IntakeButton
<1>11. Shows(CourierSwitches, ListsOf(PhonePages))
  <2> SUFFICES ASSUME NEW q \in ListsOf(PhonePages)
               PROVE  ShownBy(CourierSwitches, q)
    BY DEF Shows
  <2>1. Told("CourierSwitches", {"courier"}, {Couriers}, {"plain"}, q)
    BY PhoneReads DEF PhoneReading, Told
  <2>2. QED
    BY <2>1, OneTold DEF CourierSwitches
<1>12. Shows(AddTariff, ListsOf(PhonePages))
  <2> SUFFICES ASSUME NEW q \in ListsOf(PhonePages) PROVE ShownBy(AddTariff, q)
    BY DEF Shows
  <2>1. /\ <<"AddTariff", "tariffs">> \in Forgotten
    BY Zenon DEF Forgotten
  <2>2. Told("AddTariff", {"tariff"}, {CourierTariffs.key}, {"guarded",
             "clears", "shared"}, q)
    BY PhoneReads, <2>1, PhoneNames, Zenon DEF PhoneReading, Told
  <2>3. QED
    BY <2>2, OneTold DEF AddTariff
<1>13. Shows(RemoveTariff, ListsOf(PhonePages))
  <2> SUFFICES ASSUME NEW q \in ListsOf(PhonePages)
               PROVE  ShownBy(RemoveTariff, q)
    BY DEF Shows
  <2>1. /\ <<"RemoveTariff", "tariffs">> \in Forgotten
    BY Zenon DEF Forgotten
  <2>2. Told("RemoveTariff", {"tariff"}, {CourierTariffs.key}, {"plain",
             "shared"}, q)
    BY PhoneReads, <2>1, PhoneNames, Zenon DEF PhoneReading, Told
  <2>3. QED
    BY <2>2, OneTold DEF RemoveTariff
<1>14. Shows(PhoneHandover, ListsOf(PhonePages))
  <2> SUFFICES ASSUME NEW q \in ListsOf(PhonePages)
               PROVE  ShownBy(PhoneHandover, q)
    BY DEF Shows
  <2>1. /\ <<"PhoneHandover", "settlement of couriers">> \in Forgotten
        /\ <<"PhoneHandover", "transactions">> \in Forgotten
    BY Zenon DEF Forgotten, CashLists
  <2>2. /\ <<"PhoneHandover", "owner's handovers">> \in Forgotten
        /\ <<"PhoneHandover", "my balance">> \in Forgotten
    BY Zenon DEF Forgotten, CashLists
  <2>3. Told("PhoneHandover", {"handover"}, {DHandovers.key, Couriers},
             {"plain"}, q)
    BY PhoneReads, <2>1, <2>2, PhoneNames, PhoneKeys, Zenon
    DEF PhoneReading, Told, Steady, Couriers
  <2>4. QED
    BY <2>3, OneTold DEF PhoneHandover
<1>15. Shows(PhoneTransaction, ListsOf(PhonePages))
  <2> SUFFICES ASSUME NEW q \in ListsOf(PhonePages)
               PROVE  ShownBy(PhoneTransaction, q)
    BY DEF Shows
  <2>1. /\ <<"PhoneTransaction", "owner's handovers">> \in Forgotten
    BY Zenon DEF Forgotten
  <2>2. Told("PhoneTransaction", {"handover"}, All, {"plain", "guarded"}, q)
    BY PhoneReads, <2>1, PhoneNames, PhoneKeys, Zenon
    DEF PhoneReading, Told, Steady, All
  <2>3. QED
    BY <2>2, OneTold DEF PhoneTransaction
<1>16. Shows(RejectBox, ListsOf(PhonePages))
  <2> SUFFICES ASSUME NEW q \in ListsOf(PhonePages) PROVE ShownBy(RejectBox, q)
    BY DEF Shows
  <2>1. /\ <<"RejectBox", "owner's handovers">> \in Forgotten
    BY Zenon DEF Forgotten
  <2>2. Told("RejectBox", {"handover"}, All, {"guarded", "hasty"}, q)
    BY PhoneReads, <2>1, PhoneNames, PhoneKeys, Zenon
    DEF PhoneReading, Told, Steady, All
  <2>3. QED
    BY <2>2, OneTold DEF RejectBox
<1>17. Shows(ProfilePassword, ListsOf(PhonePages))
  <2> SUFFICES ASSUME NEW q \in ListsOf(PhonePages)
               PROVE  ShownBy(ProfilePassword, q)
    BY DEF Shows
  <2>1. Told("ProfilePassword", {}, {}, {"guarded", "clears"}, q)
    BY PhoneReads DEF PhoneReading, Told
  <2>2. QED
    BY <2>1, OneTold DEF ProfilePassword
<1>18. Shows(SettleConfirmHandover, ListsOf(PhonePages))
  <2> SUFFICES ASSUME NEW q \in ListsOf(PhonePages)
               PROVE  ShownBy(SettleConfirmHandover, q)
    BY DEF Shows
  <2>1. /\ <<"SettleConfirmHandover", "settlement of couriers">> \in Forgotten
        /\ <<"SettleConfirmHandover", "transactions">> \in Forgotten
    BY Zenon DEF Forgotten, CashLists
  <2>2. /\ <<"SettleConfirmHandover", "my balance">> \in Forgotten
    BY Zenon DEF Forgotten, CashLists
  <2>3. Told("SettleConfirmHandover", {"handover"}, {LHandovers.key,
             DHandovers.key}, {"guarded", "closes", "forgets"}, q)
    BY PhoneReads, <2>1, <2>2, PhoneNames, PhoneKeys, Zenon
    DEF PhoneReading, Told, Steady
  <2>4. QED
    BY <2>3, OneTold DEF SettleConfirmHandover, Modal
<1>19. Shows(SettleRejectHandover, ListsOf(PhonePages))
  <2> SUFFICES ASSUME NEW q \in ListsOf(PhonePages)
               PROVE  ShownBy(SettleRejectHandover, q)
    BY DEF Shows
  <2>1. /\ <<"SettleRejectHandover", "settlement of couriers">> \in Forgotten
        /\ <<"SettleRejectHandover", "transactions">> \in Forgotten
    BY Zenon DEF Forgotten, CashLists
  <2>2. /\ <<"SettleRejectHandover", "my balance">> \in Forgotten
    BY Zenon DEF Forgotten, CashLists
  <2>3. Told("SettleRejectHandover", {"handover"}, {LHandovers.key,
             DHandovers.key}, {"guarded", "closes", "forgets"}, q)
    BY PhoneReads, <2>1, <2>2, PhoneNames, PhoneKeys, Zenon
    DEF PhoneReading, Told, Steady
  <2>4. QED
    BY <2>3, OneTold DEF SettleRejectHandover, Modal
<1>20. Shows(SubmitSettlement, ListsOf(PhonePages))
  <2> SUFFICES ASSUME NEW q \in ListsOf(PhonePages)
               PROVE  ShownBy(SubmitSettlement, q)
    BY DEF Shows
  <2>1. /\ Told("SubmitSettlement", {}, {}, {"plain", "guarded", "closes",
                "on call"}, q)
        /\ Told("SubmitSettlement", {"settlement"}, {<<"dispatcher",
                "settlements">>}, {"plain", "guarded", "closes", "on call"}, q)
    BY PhoneReads, PhoneKeys DEF PhoneReading, Told, Steady
  <2>2. QED
    BY <2>1, TwoTold, Zenon DEF SubmitSettlement
<1>21. QED
  BY <1>1, <1>2, <1>3, <1>4, <1>5, <1>6, <1>7, <1>8, <1>9, <1>10, <1>11, <1>12,
     <1>13, <1>14, <1>15, <1>16, <1>17, <1>18, <1>19, <1>20

------------------------------------------------------------------------------
(* What is renewed on the dispatcher's desktop                             *)

\* The lists there, and which of them read what a dialog changes.
LEMMA DesktopMounts ==
    ListsOf(DesktopPages) = {Comments, OrderDetail, Timeline, Prepayments,
     CashSettlement, DHandovers, CashTransactions, LHandovers,
     MySettlementsSummary, MySettlements}
BY DEF ListsOf, Page, DesktopPages, DispatcherDesktop, OrderDrawer,
   CashSettlementTab, CashHandovers, CashTransactionsTab, CompanySettlementTab

\* Which of them read each thing that is changed there.
DesktopReading(q) ==
    /\ "order" \in q.reads => q \in {OrderDetail, Timeline}
    /\ "prepayment" \in q.reads => q \in {OrderDetail, Prepayments}
    /\ "comment" \in q.reads => q = Comments
    /\ "courier" \notin q.reads
    /\ "tariff" \notin q.reads
    /\ "attachment" \in q.reads => q = OrderDetail
    /\ "handover" \in q.reads => q \in {CashSettlement, DHandovers,
         CashTransactions, LHandovers, MySettlementsSummary}
    /\ "settlement" \in q.reads => q \in {MySettlementsSummary, MySettlements}

\* The lists there are such.
LEMMA DesktopReads == \A q \in ListsOf(DesktopPages) : DesktopReading(q)
<1>1. /\ Comments.reads = {"comment"}
      /\ OrderDetail.reads = {"order", "prepayment", "attachment"}
      /\ Timeline.reads = {"order"}
  BY DEF Comments, OrderDetail, Timeline, QueryById
<1>2. /\ DesktopReading(Comments) /\ DesktopReading(OrderDetail)
      /\ DesktopReading(Timeline)
  BY <1>1 DEF DesktopReading
<1>3. /\ Prepayments.reads = {"prepayment"}
      /\ CashSettlement.reads = {"handover"} /\ DHandovers.reads = {"handover"}
  BY DEF Prepayments, CashSettlement, DHandovers, QueryById, Query
<1>4. /\ DesktopReading(Prepayments) /\ DesktopReading(CashSettlement)
      /\ DesktopReading(DHandovers)
  BY <1>3 DEF DesktopReading
<1>5. /\ CashTransactions.reads = {"handover"}
      /\ LHandovers.reads = {"handover"}
      /\ MySettlementsSummary.reads = {"handover", "settlement"}
  BY DEF CashTransactions, LHandovers, MySettlementsSummary, Query
<1>6. /\ DesktopReading(CashTransactions) /\ DesktopReading(LHandovers)
      /\ DesktopReading(MySettlementsSummary)
  BY <1>5 DEF DesktopReading
<1>7. /\ MySettlements.reads = {"settlement"}
  BY DEF MySettlements, Query
<1>8. /\ DesktopReading(MySettlements)
  BY <1>7 DEF DesktopReading
<1>9. QED
  BY DesktopMounts, <1>2, <1>4, <1>6, <1>8

\* What the exceptions call them.
LEMMA DesktopNames ==
    /\ Comments.name = "comments" /\ OrderDetail.name = "order"
    /\ CashSettlement.name = "settlement of couriers"
    /\ CashTransactions.name = "transactions"
    /\ LHandovers.name = "owner's handovers"
    /\ MySettlementsSummary.name = "my balance"
    /\ DHandovers.name = "handovers"
<1>1. /\ Comments.name = "comments" /\ OrderDetail.name = "order"
      /\ CashSettlement.name = "settlement of couriers"
      /\ CashTransactions.name = "transactions"
  BY DEF Comments, OrderDetail, CashSettlement, CashTransactions, QueryById,
     Query
<1>2. /\ LHandovers.name = "owner's handovers"
      /\ MySettlementsSummary.name = "my balance"
      /\ DHandovers.name = "handovers"
  BY DEF LHandovers, MySettlementsSummary, DHandovers, Query
<1>3. QED
  BY <1>1, <1>2, Zenon

\* The keys that an answer invalidates begin theirs.
LEMMA DesktopKeys ==
    /\ IsPrefix(OrderDetail.key, OrderDetail.key)
    /\ IsPrefix(Timeline.key, Timeline.key)
    /\ IsPrefix(Prepayments.key, Prepayments.key)
    /\ IsPrefix(<<"dispatcher">>, OrderDetail.key)
    /\ IsPrefix(<<"dispatcher">>, Timeline.key)
    /\ IsPrefix(DHandovers.key, DHandovers.key)
    /\ IsPrefix(CashTransactions.key, CashTransactions.key)
    /\ IsPrefix(LHandovers.key, LHandovers.key)
    /\ IsPrefix(<<"dispatcher", "settlements">>, MySettlementsSummary.key)
    /\ IsPrefix(<<"dispatcher", "settlements">>, MySettlements.key)
<1>1. /\ IsPrefix(OrderDetail.key, OrderDetail.key)
      /\ IsPrefix(Timeline.key, Timeline.key)
      /\ IsPrefix(Prepayments.key, Prepayments.key)
  BY KeyPrefixes
  DEF OrderDetail, Timeline, Prepayments, QueryById
<1>2. /\ IsPrefix(<<"dispatcher">>, OrderDetail.key)
      /\ IsPrefix(<<"dispatcher">>, Timeline.key)
      /\ IsPrefix(DHandovers.key, DHandovers.key)
  BY KeyPrefixes
  DEF OrderDetail, Timeline, DHandovers, QueryById, Query
<1>3. /\ IsPrefix(CashTransactions.key, CashTransactions.key)
      /\ IsPrefix(LHandovers.key, LHandovers.key)
      /\ IsPrefix(<<"dispatcher", "settlements">>, MySettlementsSummary.key)
  BY KeyPrefixes
  DEF CashTransactions, LHandovers, MySettlementsSummary, Query
<1>4. /\ IsPrefix(<<"dispatcher", "settlements">>, MySettlements.key)
  BY KeyPrefixes
  DEF MySettlements, Query
<1>5. QED
  BY <1>1, <1>2, <1>3, <1>4

\* Each dialog renews the lists that it changes, or is named as an exception.
LEMMA DesktopRenew ==
    /\ Shows(ScheduleModal, ListsOf(DesktopPages))
    /\ Shows(RejectPrepaymentModal, ListsOf(DesktopPages))
    /\ Shows(ForceStatusModal, ListsOf(DesktopPages))
    /\ Shows(UnassignModal, ListsOf(DesktopPages))
    /\ Shows(CommentsDrawer, ListsOf(DesktopPages))
    /\ Shows(EditCourierModal, ListsOf(DesktopPages))
    /\ Shows(TariffsModal, ListsOf(DesktopPages))
    /\ Shows(ToggleOrderIntakeModal, ListsOf(DesktopPages))
    /\ Shows(DrawerComments, ListsOf(DesktopPages))
    /\ Shows(AddAttachment, ListsOf(DesktopPages))
    /\ Shows(ConfirmHandoverModal, ListsOf(DesktopPages))
    /\ Shows(RejectHandoverModal, ListsOf(DesktopPages))
    /\ Shows(TransactionConfirm, ListsOf(DesktopPages))
    /\ Shows(TransactionReject, ListsOf(DesktopPages))
    /\ Shows(SettleConfirmHandover, ListsOf(DesktopPages))
    /\ Shows(SettleRejectHandover, ListsOf(DesktopPages))
    /\ Shows(SubmitSettlement, ListsOf(DesktopPages))
<1>1. Shows(ScheduleModal, ListsOf(DesktopPages))
  <2> SUFFICES ASSUME NEW q \in ListsOf(DesktopPages)
               PROVE  ShownBy(ScheduleModal, q)
    BY DEF Shows
  <2>1. Told("ScheduleModal", {"order"}, {Board, NewOrders, OrderDetail.key,
             Timeline.key}, {"guarded", "closes", "forgets"}, q)
    BY DesktopReads, DesktopKeys
    DEF DesktopReading, Told, Steady, Board, NewOrders
  <2>2. QED
    BY <2>1, OneTold DEF ScheduleModal, Modal
<1>2. Shows(RejectPrepaymentModal, ListsOf(DesktopPages))
  <2> SUFFICES ASSUME NEW q \in ListsOf(DesktopPages)
               PROVE  ShownBy(RejectPrepaymentModal, q)
    BY DEF Shows
  <2>1. Told("RejectPrepaymentModal", {"prepayment"}, {Board, NewOrders,
             OrderDetail.key, Prepayments.key}, {"guarded", "closes",
             "forgets"}, q)
    BY DesktopReads, DesktopKeys
    DEF DesktopReading, Told, Steady, Board, NewOrders
  <2>2. QED
    BY <2>1, OneTold DEF RejectPrepaymentModal, Modal
<1>3. Shows(ForceStatusModal, ListsOf(DesktopPages))
  <2> SUFFICES ASSUME NEW q \in ListsOf(DesktopPages)
               PROVE  ShownBy(ForceStatusModal, q)
    BY DEF Shows
  <2>1. Told("ForceStatusModal", {"order"}, All, {"guarded", "closes",
             "forgets"}, q)
    BY DesktopReads, DesktopKeys DEF DesktopReading, Told, Steady, All
  <2>2. QED
    BY <2>1, OneTold DEF ForceStatusModal, Modal
<1>4. Shows(UnassignModal, ListsOf(DesktopPages))
  <2> SUFFICES ASSUME NEW q \in ListsOf(DesktopPages)
               PROVE  ShownBy(UnassignModal, q)
    BY DEF Shows
  <2>1. Told("UnassignModal", {"order"}, {Board, Couriers, OrderDetail.key,
             Timeline.key}, {"guarded", "closes", "forgets"}, q)
    BY DesktopReads, DesktopKeys
    DEF DesktopReading, Told, Steady, Board, Couriers
  <2>2. QED
    BY <2>1, OneTold DEF UnassignModal, Modal
<1>5. Shows(CommentsDrawer, ListsOf(DesktopPages))
  <2> SUFFICES ASSUME NEW q \in ListsOf(DesktopPages)
               PROVE  ShownBy(CommentsDrawer, q)
    BY DEF Shows
  <2>1. /\ <<"CommentsDrawer", "comments">> \in Forgotten
    BY Zenon DEF Forgotten
  <2>2. Told("CommentsDrawer", {"comment"}, {Comments.key}, {"keeps", "clears",
             "shared"}, q)
    BY DesktopReads, <2>1, DesktopNames, Zenon DEF DesktopReading, Told
  <2>3. QED
    BY <2>2, OneTold DEF CommentsDrawer
<1>6. Shows(EditCourierModal, ListsOf(DesktopPages))
  <2> SUFFICES ASSUME NEW q \in ListsOf(DesktopPages)
               PROVE  ShownBy(EditCourierModal, q)
    BY DEF Shows
  <2>1. Told("EditCourierModal", {"courier"}, {Couriers}, {"guarded", "closes",
             "forgets"}, q)
    BY DesktopReads DEF DesktopReading, Told
  <2>2. QED
    BY <2>1, OneTold DEF EditCourierModal
<1>7. Shows(TariffsModal, ListsOf(DesktopPages))
  <2> SUFFICES ASSUME NEW q \in ListsOf(DesktopPages)
               PROVE  ShownBy(TariffsModal, q)
    BY DEF Shows
  <2>1. Told("TariffsModal", {"tariff"}, {}, {"guarded", "clears", "bound",
             "forgets"}, q)
    BY DesktopReads DEF DesktopReading, Told
  <2>2. QED
    BY <2>1, OneTold DEF TariffsModal
<1>8. Shows(ToggleOrderIntakeModal, ListsOf(DesktopPages))
  <2> SUFFICES ASSUME NEW q \in ListsOf(DesktopPages)
               PROVE  ShownBy(ToggleOrderIntakeModal, q)
    BY DEF Shows
  <2>1. /\ Told("ToggleOrderIntakeModal", {"courier"}, {}, {"guarded",
                "closes", "forgets"}, q)
        /\ Told("ToggleOrderIntakeModal", {"courier"}, {Couriers}, {"guarded",
                "closes", "forgets"}, q)
    BY DesktopReads DEF DesktopReading, Told
  <2>2. QED
    BY <2>1, TwoTold DEF ToggleOrderIntakeModal
<1>9. Shows(DrawerComments, ListsOf(DesktopPages))
  <2> SUFFICES ASSUME NEW q \in ListsOf(DesktopPages)
               PROVE  ShownBy(DrawerComments, q)
    BY DEF Shows
  <2>1. /\ <<"DrawerComments", "comments">> \in Forgotten
    BY Zenon DEF Forgotten
  <2>2. Told("DrawerComments", {"comment"}, {Comments.key}, {"clears", "keeps",
             "shared"}, q)
    BY DesktopReads, <2>1, DesktopNames, Zenon DEF DesktopReading, Told
  <2>3. QED
    BY <2>2, OneTold DEF DrawerComments
<1>10. Shows(AddAttachment, ListsOf(DesktopPages))
  <2> SUFFICES ASSUME NEW q \in ListsOf(DesktopPages)
               PROVE  ShownBy(AddAttachment, q)
    BY DEF Shows
  <2>1. /\ <<"AddAttachment", "order">> \in Forgotten
    BY Zenon DEF Forgotten
  <2>2. Told("AddAttachment", {"attachment"}, {OrderDetail.key}, {"plain",
             "guarded", "hasty", "shared"}, q)
    BY DesktopReads, <2>1, DesktopNames, Zenon DEF DesktopReading, Told
  <2>3. QED
    BY <2>2, OneTold DEF AddAttachment
<1>11. Shows(ConfirmHandoverModal, ListsOf(DesktopPages))
  <2> SUFFICES ASSUME NEW q \in ListsOf(DesktopPages)
               PROVE  ShownBy(ConfirmHandoverModal, q)
    BY DEF Shows
  <2>1. /\ <<"ConfirmHandoverModal", "settlement of couriers">> \in Forgotten
        /\ <<"ConfirmHandoverModal", "transactions">> \in Forgotten
    BY Zenon DEF Forgotten, CashLists
  <2>2. /\ <<"ConfirmHandoverModal", "owner's handovers">> \in Forgotten
        /\ <<"ConfirmHandoverModal", "my balance">> \in Forgotten
    BY Zenon DEF Forgotten, CashLists
  <2>3. Told("ConfirmHandoverModal", {"handover"}, {DHandovers.key, Couriers},
             {"guarded", "closes", "forgets"}, q)
    BY DesktopReads, <2>1, <2>2, DesktopNames, DesktopKeys, Zenon
    DEF DesktopReading, Told, Steady, Couriers
  <2>4. QED
    BY <2>3, OneTold DEF ConfirmHandoverModal, Modal
<1>12. Shows(RejectHandoverModal, ListsOf(DesktopPages))
  <2> SUFFICES ASSUME NEW q \in ListsOf(DesktopPages)
               PROVE  ShownBy(RejectHandoverModal, q)
    BY DEF Shows
  <2>1. /\ <<"RejectHandoverModal", "settlement of couriers">> \in Forgotten
        /\ <<"RejectHandoverModal", "transactions">> \in Forgotten
    BY Zenon DEF Forgotten, CashLists
  <2>2. /\ <<"RejectHandoverModal", "owner's handovers">> \in Forgotten
        /\ <<"RejectHandoverModal", "my balance">> \in Forgotten
    BY Zenon DEF Forgotten, CashLists
  <2>3. Told("RejectHandoverModal", {"handover"}, {DHandovers.key}, {"guarded",
             "closes", "forgets"}, q)
    BY DesktopReads, <2>1, <2>2, DesktopNames, DesktopKeys, Zenon
    DEF DesktopReading, Told, Steady
  <2>4. QED
    BY <2>3, OneTold DEF RejectHandoverModal, Modal
<1>13. Shows(TransactionConfirm, ListsOf(DesktopPages))
  <2> SUFFICES ASSUME NEW q \in ListsOf(DesktopPages)
               PROVE  ShownBy(TransactionConfirm, q)
    BY DEF Shows
  <2>1. /\ <<"TransactionConfirm", "settlement of couriers">> \in Forgotten
        /\ <<"TransactionConfirm", "handovers">> \in Forgotten
    BY Zenon DEF Forgotten, CashLists
  <2>2. /\ <<"TransactionConfirm", "owner's handovers">> \in Forgotten
        /\ <<"TransactionConfirm", "my balance">> \in Forgotten
    BY Zenon DEF Forgotten, CashLists
  <2>3. Told("TransactionConfirm", {"handover"}, {CashTransactions.key},
             {"plain", "guarded"}, q)
    BY DesktopReads, <2>1, <2>2, DesktopNames, DesktopKeys, Zenon
    DEF DesktopReading, Told, Steady
  <2>4. QED
    BY <2>3, OneTold DEF TransactionConfirm
<1>14. Shows(TransactionReject, ListsOf(DesktopPages))
  <2> SUFFICES ASSUME NEW q \in ListsOf(DesktopPages)
               PROVE  ShownBy(TransactionReject, q)
    BY DEF Shows
  <2>1. /\ <<"TransactionReject", "settlement of couriers">> \in Forgotten
        /\ <<"TransactionReject", "handovers">> \in Forgotten
    BY Zenon DEF Forgotten, CashLists
  <2>2. /\ <<"TransactionReject", "owner's handovers">> \in Forgotten
        /\ <<"TransactionReject", "my balance">> \in Forgotten
    BY Zenon DEF Forgotten, CashLists
  <2>3. Told("TransactionReject", {"handover"}, {CashTransactions.key},
             {"guarded", "closes"}, q)
    BY DesktopReads, <2>1, <2>2, DesktopNames, DesktopKeys, Zenon
    DEF DesktopReading, Told, Steady
  <2>4. QED
    BY <2>3, OneTold DEF TransactionReject
<1>15. Shows(SettleConfirmHandover, ListsOf(DesktopPages))
  <2> SUFFICES ASSUME NEW q \in ListsOf(DesktopPages)
               PROVE  ShownBy(SettleConfirmHandover, q)
    BY DEF Shows
  <2>1. /\ <<"SettleConfirmHandover", "settlement of couriers">> \in Forgotten
        /\ <<"SettleConfirmHandover", "transactions">> \in Forgotten
    BY Zenon DEF Forgotten, CashLists
  <2>2. /\ <<"SettleConfirmHandover", "my balance">> \in Forgotten
    BY Zenon DEF Forgotten, CashLists
  <2>3. Told("SettleConfirmHandover", {"handover"}, {LHandovers.key,
             DHandovers.key}, {"guarded", "closes", "forgets"}, q)
    BY DesktopReads, <2>1, <2>2, DesktopNames, DesktopKeys, Zenon
    DEF DesktopReading, Told, Steady
  <2>4. QED
    BY <2>3, OneTold DEF SettleConfirmHandover, Modal
<1>16. Shows(SettleRejectHandover, ListsOf(DesktopPages))
  <2> SUFFICES ASSUME NEW q \in ListsOf(DesktopPages)
               PROVE  ShownBy(SettleRejectHandover, q)
    BY DEF Shows
  <2>1. /\ <<"SettleRejectHandover", "settlement of couriers">> \in Forgotten
        /\ <<"SettleRejectHandover", "transactions">> \in Forgotten
    BY Zenon DEF Forgotten, CashLists
  <2>2. /\ <<"SettleRejectHandover", "my balance">> \in Forgotten
    BY Zenon DEF Forgotten, CashLists
  <2>3. Told("SettleRejectHandover", {"handover"}, {LHandovers.key,
             DHandovers.key}, {"guarded", "closes", "forgets"}, q)
    BY DesktopReads, <2>1, <2>2, DesktopNames, DesktopKeys, Zenon
    DEF DesktopReading, Told, Steady
  <2>4. QED
    BY <2>3, OneTold DEF SettleRejectHandover, Modal
<1>17. Shows(SubmitSettlement, ListsOf(DesktopPages))
  <2> SUFFICES ASSUME NEW q \in ListsOf(DesktopPages)
               PROVE  ShownBy(SubmitSettlement, q)
    BY DEF Shows
  <2>1. /\ Told("SubmitSettlement", {}, {}, {"plain", "guarded", "closes",
                "on call"}, q)
        /\ Told("SubmitSettlement", {"settlement"}, {<<"dispatcher",
                "settlements">>}, {"plain", "guarded", "closes", "on call"}, q)
    BY DesktopReads, DesktopKeys DEF DesktopReading, Told, Steady
  <2>2. QED
    BY <2>1, TwoTold, Zenon DEF SubmitSettlement
<1>18. QED
  BY <1>1, <1>2, <1>3, <1>4, <1>5, <1>6, <1>7, <1>8, <1>9, <1>10, <1>11, <1>12,
     <1>13, <1>14, <1>15, <1>16, <1>17

------------------------------------------------------------------------------
(* What is renewed on the owner's pages of cash                            *)

\* The lists there, and which of them read what a dialog changes.
LEMMA OwnerCashMounts ==
    ListsOf(OwnerCashPages) = {LHandovers, HandoverHistory, LogisticsCouriers,
     SettlementsSummary, Settlements}
BY DEF ListsOf, Page, OwnerCashPages, CashHandoversPage, CashLedgerPanel

\* Which of them read each thing that is changed there.
OwnerCashReading(q) ==
    /\ "handover" \in q.reads => q \in {LHandovers, HandoverHistory,
         LogisticsCouriers, SettlementsSummary}
    /\ "settlement" \in q.reads => q \in {SettlementsSummary, Settlements}

\* The lists there are such.
LEMMA OwnerCashReads == \A q \in ListsOf(OwnerCashPages) : OwnerCashReading(q)
<1>1. /\ LHandovers.reads = {"handover"}
      /\ HandoverHistory.reads = {"handover"}
      /\ LogisticsCouriers.reads = {"handover", "courier"}
  BY DEF LHandovers, HandoverHistory, LogisticsCouriers, Query, QueryById
<1>2. /\ OwnerCashReading(LHandovers) /\ OwnerCashReading(HandoverHistory)
      /\ OwnerCashReading(LogisticsCouriers)
  BY <1>1 DEF OwnerCashReading
<1>3. /\ SettlementsSummary.reads = {"handover", "settlement"}
      /\ Settlements.reads = {"settlement"}
  BY DEF SettlementsSummary, Settlements, Query
<1>4. /\ OwnerCashReading(SettlementsSummary) /\ OwnerCashReading(Settlements)
  BY <1>3 DEF OwnerCashReading
<1>5. QED
  BY OwnerCashMounts, <1>2, <1>4

\* What the exceptions call them.
LEMMA OwnerCashNames ==
    /\ LogisticsCouriers.name = "couriers"
    /\ SettlementsSummary.name = "balances"
BY DEF LogisticsCouriers, SettlementsSummary, Query

\* The keys that an answer invalidates begin theirs.
LEMMA OwnerCashKeys ==
    /\ IsPrefix(LHandovers.key, LHandovers.key)
    /\ IsPrefix(LHandovers.key, HandoverHistory.key)
    /\ IsPrefix(LogisticsCouriers.key, LogisticsCouriers.key)
    /\ IsPrefix(<<"logistics", "settlements">>, SettlementsSummary.key)
    /\ IsPrefix(<<"logistics", "settlements">>, Settlements.key)
<1>1. /\ IsPrefix(LHandovers.key, LHandovers.key)
      /\ IsPrefix(LHandovers.key, HandoverHistory.key)
      /\ IsPrefix(LogisticsCouriers.key, LogisticsCouriers.key)
  BY KeyPrefixes
  DEF LHandovers, HandoverHistory, LogisticsCouriers, Query, QueryById
<1>2. /\ IsPrefix(<<"logistics", "settlements">>, SettlementsSummary.key)
      /\ IsPrefix(<<"logistics", "settlements">>, Settlements.key)
  BY KeyPrefixes
  DEF SettlementsSummary, Settlements, Query
<1>3. QED
  BY <1>1, <1>2

\* Each dialog renews the lists that it changes, or is named as an exception.
LEMMA OwnerCashRenew ==
    /\ Shows(VerifyHandover, ListsOf(OwnerCashPages))
    /\ Shows(EditHandover, ListsOf(OwnerCashPages))
    /\ Shows(QuickDecision, ListsOf(OwnerCashPages))
    /\ Shows(DeleteHandover, ListsOf(OwnerCashPages))
    /\ Shows(LedgerHandover, ListsOf(OwnerCashPages))
    /\ Shows(LedgerSettlement, ListsOf(OwnerCashPages))
    /\ Shows(LedgerEdit, ListsOf(OwnerCashPages))
<1>1. Shows(VerifyHandover, ListsOf(OwnerCashPages))
  <2> SUFFICES ASSUME NEW q \in ListsOf(OwnerCashPages)
               PROVE  ShownBy(VerifyHandover, q)
    BY DEF Shows
  <2>1. /\ <<"VerifyHandover", "couriers">> \in Forgotten
        /\ <<"VerifyHandover", "balances">> \in Forgotten
    BY Zenon DEF Forgotten
  <2>2. Told("VerifyHandover", {"handover"}, OwnerHandoverKeys, {"guarded",
             "closes", "on call"}, q)
    BY OwnerCashReads, <2>1, OwnerCashNames, OwnerCashKeys
    DEF OwnerCashReading, Told, Steady, OwnerHandoverKeys
  <2>3. QED
    BY <2>2, OneTold, Zenon DEF VerifyHandover
<1>2. Shows(EditHandover, ListsOf(OwnerCashPages))
  <2> SUFFICES ASSUME NEW q \in ListsOf(OwnerCashPages)
               PROVE  ShownBy(EditHandover, q)
    BY DEF Shows
  <2>1. /\ <<"EditHandover", "balances">> \in Forgotten
    BY Zenon DEF Forgotten
  <2>2. Told("EditHandover", {"handover"}, OwnerHandoverKeys \cup
             {LogisticsCouriers.key}, {"guarded"}, q)
    BY OwnerCashReads, <2>1, OwnerCashNames, OwnerCashKeys
    DEF OwnerCashReading, Told, Steady, OwnerHandoverKeys
  <2>3. QED
    BY <2>2, OneTold DEF EditHandover
<1>3. Shows(QuickDecision, ListsOf(OwnerCashPages))
  <2> SUFFICES ASSUME NEW q \in ListsOf(OwnerCashPages)
               PROVE  ShownBy(QuickDecision, q)
    BY DEF Shows
  <2>1. /\ <<"QuickDecision", "couriers">> \in Forgotten
        /\ <<"QuickDecision", "balances">> \in Forgotten
    BY Zenon DEF Forgotten
  <2>2. Told("QuickDecision", {"handover"}, OwnerHandoverKeys, {"plain"}, q)
    BY OwnerCashReads, <2>1, OwnerCashNames, OwnerCashKeys
    DEF OwnerCashReading, Told, Steady, OwnerHandoverKeys
  <2>3. QED
    BY <2>2, OneTold DEF QuickDecision
<1>4. Shows(DeleteHandover, ListsOf(OwnerCashPages))
  <2> SUFFICES ASSUME NEW q \in ListsOf(OwnerCashPages)
               PROVE  ShownBy(DeleteHandover, q)
    BY DEF Shows
  <2>1. /\ <<"DeleteHandover", "couriers">> \in Forgotten
        /\ <<"DeleteHandover", "balances">> \in Forgotten
    BY Zenon DEF Forgotten
  <2>2. Told("DeleteHandover", {"handover"}, {LHandovers.key}, {"plain",
             "guarded", "closes", "on call"}, q)
    BY OwnerCashReads, <2>1, OwnerCashNames, OwnerCashKeys
    DEF OwnerCashReading, Told, Steady
  <2>3. QED
    BY <2>2, OneTold, Zenon DEF DeleteHandover
<1>5. Shows(LedgerHandover, ListsOf(OwnerCashPages))
  <2> SUFFICES ASSUME NEW q \in ListsOf(OwnerCashPages)
               PROVE  ShownBy(LedgerHandover, q)
    BY DEF Shows
  <2>1. /\ <<"LedgerHandover", "couriers">> \in Forgotten
        /\ <<"LedgerHandover", "balances">> \in Forgotten
    BY Zenon DEF Forgotten
  <2>2. Told("LedgerHandover", {"handover"}, OwnerHandoverKeys, {"guarded",
             "closes", "on call"}, q)
    BY OwnerCashReads, <2>1, OwnerCashNames, OwnerCashKeys
    DEF OwnerCashReading, Told, Steady, OwnerHandoverKeys
  <2>3. QED
    BY <2>2, OneTold, Zenon DEF LedgerHandover
<1>6. Shows(LedgerSettlement, ListsOf(OwnerCashPages))
  <2> SUFFICES ASSUME NEW q \in ListsOf(OwnerCashPages)
               PROVE  ShownBy(LedgerSettlement, q)
    BY DEF Shows
  <2>1. Told("LedgerSettlement", {"settlement"}, {<<"logistics",
             "settlements">>}, {"guarded", "closes", "on call"}, q)
    BY OwnerCashReads, OwnerCashKeys DEF OwnerCashReading, Told, Steady
  <2>2. QED
    BY <2>1, OneTold, Zenon DEF LedgerSettlement
<1>7. Shows(LedgerEdit, ListsOf(OwnerCashPages))
  <2> SUFFICES ASSUME NEW q \in ListsOf(OwnerCashPages)
               PROVE  ShownBy(LedgerEdit, q)
    BY DEF Shows
  <2>1. Told("LedgerEdit", {"settlement"}, {<<"logistics", "settlements">>},
             {"guarded"}, q)
    BY OwnerCashReads, OwnerCashKeys DEF OwnerCashReading, Told, Steady
  <2>2. QED
    BY <2>1, OneTold DEF LedgerEdit
<1>8. QED
  BY <1>1, <1>2, <1>3, <1>4, <1>5, <1>6, <1>7

------------------------------------------------------------------------------
(* What is renewed on the directory of people                              *)

\* The lists there, and which of them read what a dialog changes.
LEMMA PeopleMounts ==
    ListsOf(PeoplePages) = {People, Teams, Membership, UsersHistory,
     Applications, Compensation, CompensationHistory, Configs, ConfigHistory,
     UserHistory, Documents, CourierRules, ProfileTeams, TeamMembers}
BY DEF ListsOf, Page, PeoplePages, TeamDirectoryPage, DetailPanel,
   DocumentsField, PayPanel, TeamProfilePage

\* Which of them read each thing that is changed there.
PeopleReading(q) ==
    /\ "person" \in q.reads => q = People
    /\ "team" \in q.reads => q \in {Teams, ProfileTeams}
    /\ "application" \in q.reads => q = Applications
    /\ "audit" \in q.reads => q \in {UsersHistory, UserHistory}
    /\ "document" \in q.reads => q = Documents
    /\ "member" \in q.reads => q \in {Membership, TeamMembers}
    /\ "salary" \in q.reads => q \in {Compensation, CompensationHistory}
    /\ "tariff" \in q.reads => q = CourierRules
    /\ "rate" \in q.reads => q \in {Configs, ConfigHistory}

\* The lists there are such.
LEMMA PeopleReads == \A q \in ListsOf(PeoplePages) : PeopleReading(q)
<1>1. /\ People.reads = {"person"} /\ Teams.reads = {"team"}
      /\ Membership.reads = {"member"}
  BY DEF People, Teams, Membership, Query
<1>2. /\ PeopleReading(People) /\ PeopleReading(Teams)
      /\ PeopleReading(Membership)
  BY <1>1 DEF PeopleReading
<1>3. /\ UsersHistory.reads = {"audit"} /\ Applications.reads = {"application"}
      /\ Compensation.reads = {"salary"}
  BY DEF UsersHistory, Applications, Compensation, Query, QueryById
<1>4. /\ PeopleReading(UsersHistory) /\ PeopleReading(Applications)
      /\ PeopleReading(Compensation)
  BY <1>3 DEF PeopleReading
<1>5. /\ CompensationHistory.reads = {"salary"} /\ Configs.reads = {"rate"}
      /\ ConfigHistory.reads = {"rate"}
  BY DEF CompensationHistory, Configs, ConfigHistory, QueryById
<1>6. /\ PeopleReading(CompensationHistory) /\ PeopleReading(Configs)
      /\ PeopleReading(ConfigHistory)
  BY <1>5 DEF PeopleReading
<1>7. /\ UserHistory.reads = {"audit"} /\ Documents.reads = {"document"}
      /\ CourierRules.reads = {"tariff"}
  BY DEF UserHistory, Documents, CourierRules, QueryById
<1>8. /\ PeopleReading(UserHistory) /\ PeopleReading(Documents)
      /\ PeopleReading(CourierRules)
  BY <1>7 DEF PeopleReading
<1>9. /\ ProfileTeams.reads = {"team"} /\ TeamMembers.reads = {"member"}
  BY DEF ProfileTeams, TeamMembers, Query, QueryById
<1>10. /\ PeopleReading(ProfileTeams) /\ PeopleReading(TeamMembers)
  BY <1>9 DEF PeopleReading
<1>11. QED
  BY PeopleMounts, <1>2, <1>4, <1>6, <1>8, <1>10

\* What the exceptions call them.
LEMMA PeopleNames ==
    /\ UsersHistory.name = "journal" /\ UserHistory.name = "history"
    /\ Documents.name = "documents" /\ Teams.name = "teams"
    /\ Membership.name = "who is in which team" /\ TeamMembers.name = "members"
    /\ Configs.name = "rates" /\ ConfigHistory.name = "rate history"
<1>1. /\ UsersHistory.name = "journal" /\ UserHistory.name = "history"
      /\ Documents.name = "documents" /\ Teams.name = "teams"
  BY DEF UsersHistory, UserHistory, Documents, Teams, Query, QueryById
<1>2. /\ Membership.name = "who is in which team"
      /\ TeamMembers.name = "members" /\ Configs.name = "rates"
      /\ ConfigHistory.name = "rate history"
  BY DEF Membership, TeamMembers, Configs, ConfigHistory, Query, QueryById
<1>3. QED
  BY <1>1, <1>2, Zenon

\* The keys that an answer invalidates begin theirs.
LEMMA PeopleKeys ==
    /\ IsPrefix(People.key, People.key) /\ IsPrefix(Teams.key, Teams.key)
    /\ IsPrefix(People.key, ProfileTeams.key)
    /\ IsPrefix(People.key, Applications.key)
    /\ IsPrefix(UsersHistory.key, UsersHistory.key)
    /\ IsPrefix(UserHistory.key, UserHistory.key)
    /\ IsPrefix(Documents.key, Documents.key)
    /\ IsPrefix(<<"people", "teams">>, ProfileTeams.key)
    /\ IsPrefix(Compensation.key, Compensation.key)
    /\ IsPrefix(CompensationHistory.key, CompensationHistory.key)
    /\ IsPrefix(CourierRules.key, CourierRules.key)
    /\ IsPrefix(People.key, TeamMembers.key)
<1>1. /\ IsPrefix(People.key, People.key) /\ IsPrefix(Teams.key, Teams.key)
      /\ IsPrefix(People.key, ProfileTeams.key)
  BY KeyPrefixes
  DEF People, Teams, ProfileTeams, Query
<1>2. /\ IsPrefix(People.key, Applications.key)
      /\ IsPrefix(UsersHistory.key, UsersHistory.key)
      /\ IsPrefix(UserHistory.key, UserHistory.key)
  BY KeyPrefixes
  DEF People, Applications, UsersHistory, UserHistory, Query, QueryById
<1>3. /\ IsPrefix(Documents.key, Documents.key)
      /\ IsPrefix(<<"people", "teams">>, ProfileTeams.key)
      /\ IsPrefix(Compensation.key, Compensation.key)
  BY KeyPrefixes
  DEF Documents, ProfileTeams, Compensation, QueryById, Query
<1>4. /\ IsPrefix(CompensationHistory.key, CompensationHistory.key)
      /\ IsPrefix(CourierRules.key, CourierRules.key)
      /\ IsPrefix(People.key, TeamMembers.key)
  BY KeyPrefixes
  DEF CompensationHistory, CourierRules, People, TeamMembers, QueryById, Query
<1>5. QED
  BY <1>1, <1>2, <1>3, <1>4

\* Each dialog renews the lists that it changes, or is named as an exception.
LEMMA PeopleRenew ==
    /\ Shows(CreateEmployeeModal, ListsOf(PeoplePages))
    /\ Shows(CreateTeamModal, ListsOf(PeoplePages))
    /\ Shows(WorkerApplicationDetailModal, ListsOf(PeoplePages))
    /\ Shows(EditEmployeeModal, ListsOf(PeoplePages))
    /\ Shows(SaveStatus, ListsOf(PeoplePages))
    /\ Shows(AvatarUpload, ListsOf(PeoplePages))
    /\ Shows(UploadDocuments, ListsOf(PeoplePages))
    /\ Shows(DeleteDocument, ListsOf(PeoplePages))
    /\ Shows(DocumentStatus, ListsOf(PeoplePages))
    /\ Shows(AssignTeamModal, ListsOf(PeoplePages))
    /\ Shows(SetSalaryModal, ListsOf(PeoplePages))
    /\ Shows(CourierTariffsModal, ListsOf(PeoplePages))
    /\ Shows(RemoveRule, ListsOf(PeoplePages))
    /\ Shows(PersonalRateModal, ListsOf(PeoplePages))
    /\ Shows(EditTeamModal, ListsOf(PeoplePages))
    /\ Shows(DeactivateTeamModal, ListsOf(PeoplePages))
<1>1. Shows(CreateEmployeeModal, ListsOf(PeoplePages))
  <2> SUFFICES ASSUME NEW q \in ListsOf(PeoplePages)
               PROVE  ShownBy(CreateEmployeeModal, q)
    BY DEF Shows
  <2>1. Told("CreateEmployeeModal", {"person"}, {People.key}, {"guarded",
             "closes", "forgets"}, q)
    BY PeopleReads, PeopleKeys DEF PeopleReading, Told, Steady
  <2>2. QED
    BY <2>1, OneTold DEF CreateEmployeeModal
<1>2. Shows(CreateTeamModal, ListsOf(PeoplePages))
  <2> SUFFICES ASSUME NEW q \in ListsOf(PeoplePages)
               PROVE  ShownBy(CreateTeamModal, q)
    BY DEF Shows
  <2>1. Told("CreateTeamModal", {"team"}, {People.key, Teams.key}, {"guarded",
             "closes", "forgets"}, q)
    BY PeopleReads, PeopleKeys DEF PeopleReading, Told, Steady
  <2>2. QED
    BY <2>1, OneTold DEF CreateTeamModal
<1>3. Shows(WorkerApplicationDetailModal, ListsOf(PeoplePages))
  <2> SUFFICES ASSUME NEW q \in ListsOf(PeoplePages)
               PROVE  ShownBy(WorkerApplicationDetailModal, q)
    BY DEF Shows
  <2>1. Told("WorkerApplicationDetailModal", {"person", "application"},
             {People.key}, {"plain", "guarded", "closes", "forgets"}, q)
    BY PeopleReads, PeopleKeys DEF PeopleReading, Told, Steady
  <2>2. QED
    BY <2>1, OneTold DEF WorkerApplicationDetailModal
<1>4. Shows(EditEmployeeModal, ListsOf(PeoplePages))
  <2> SUFFICES ASSUME NEW q \in ListsOf(PeoplePages)
               PROVE  ShownBy(EditEmployeeModal, q)
    BY DEF Shows
  <2>1. Told("EditEmployeeModal", {"person", "audit"}, {People.key} \cup
             Histories, {"guarded", "closes", "forgets"}, q)
    BY PeopleReads, PeopleKeys DEF PeopleReading, Told, Steady, Histories
  <2>2. QED
    BY <2>1, OneTold DEF EditEmployeeModal
<1>5. Shows(SaveStatus, ListsOf(PeoplePages))
  <2> SUFFICES ASSUME NEW q \in ListsOf(PeoplePages)
               PROVE  ShownBy(SaveStatus, q)
    BY DEF Shows
  <2>1. Told("SaveStatus", {"person", "audit"}, {People.key} \cup Histories,
             {"guarded", "hasty"}, q)
    BY PeopleReads, PeopleKeys DEF PeopleReading, Told, Steady, Histories
  <2>2. QED
    BY <2>1, OneTold DEF SaveStatus
<1>6. Shows(AvatarUpload, ListsOf(PeoplePages))
  <2> SUFFICES ASSUME NEW q \in ListsOf(PeoplePages)
               PROVE  ShownBy(AvatarUpload, q)
    BY DEF Shows
  <2>1. /\ Told("AvatarUpload", {}, {}, {"plain", "hasty"}, q)
        /\ Told("AvatarUpload", {"person", "audit"}, {People.key} \cup
                Histories, {"plain", "hasty"}, q)
    BY PeopleReads, PeopleKeys DEF PeopleReading, Told, Steady, Histories
  <2>2. QED
    BY <2>1, TwoTold DEF AvatarUpload
<1>7. Shows(UploadDocuments, ListsOf(PeoplePages))
  <2> SUFFICES ASSUME NEW q \in ListsOf(PeoplePages)
               PROVE  ShownBy(UploadDocuments, q)
    BY DEF Shows
  <2>1. /\ <<"UploadDocuments", "journal">> \in Forgotten
        /\ <<"UploadDocuments", "history">> \in Forgotten
    BY Zenon DEF Forgotten
  <2>2. /\ <<"UploadDocuments", "documents">> \in Forgotten
    BY Zenon DEF Forgotten
  <2>3. /\ Told("UploadDocuments", {"document", "audit"}, {}, {"plain",
                "guarded", "hasty"}, q)
        /\ Told("UploadDocuments", {"document", "audit"}, DocumentKeys,
                {"plain", "guarded", "hasty"}, q)
    BY PeopleReads, <2>1, <2>2, PeopleNames, Zenon DEF PeopleReading, Told
  <2>4. QED
    BY <2>3, TwoTold DEF UploadDocuments
<1>8. Shows(DeleteDocument, ListsOf(PeoplePages))
  <2> SUFFICES ASSUME NEW q \in ListsOf(PeoplePages)
               PROVE  ShownBy(DeleteDocument, q)
    BY DEF Shows
  <2>1. Told("DeleteDocument", {"document", "audit"}, DocumentKeys, {"plain",
             "guarded"}, q)
    BY PeopleReads, PeopleKeys
    DEF PeopleReading, Told, Steady, DocumentKeys, Histories
  <2>2. QED
    BY <2>1, OneTold DEF DeleteDocument
<1>9. Shows(DocumentStatus, ListsOf(PeoplePages))
  <2> SUFFICES ASSUME NEW q \in ListsOf(PeoplePages)
               PROVE  ShownBy(DocumentStatus, q)
    BY DEF Shows
  <2>1. Told("DocumentStatus", {"document", "audit"}, DocumentKeys, {"plain",
             "guarded"}, q)
    BY PeopleReads, PeopleKeys
    DEF PeopleReading, Told, Steady, DocumentKeys, Histories
  <2>2. QED
    BY <2>1, OneTold DEF DocumentStatus
<1>10. Shows(AssignTeamModal, ListsOf(PeoplePages))
  <2> SUFFICES ASSUME NEW q \in ListsOf(PeoplePages)
               PROVE  ShownBy(AssignTeamModal, q)
    BY DEF Shows
  <2>1. /\ <<"AssignTeamModal", "teams">> \in Forgotten
        /\ <<"AssignTeamModal", "who is in which team">> \in Forgotten
    BY Zenon DEF Forgotten
  <2>2. /\ <<"AssignTeamModal", "members">> \in Forgotten
    BY Zenon DEF Forgotten
  <2>3. /\ Told("AssignTeamModal", {"member"}, {}, {"guarded", "closes"}, q)
        /\ Told("AssignTeamModal", {"team", "member"}, {<<"people",
                "hierarchy">>, <<"people", "teams">>, <<"people",
                "employees">>}, {"guarded", "closes"}, q)
    BY PeopleReads, <2>1, <2>2, PeopleNames, PeopleKeys, Zenon
    DEF PeopleReading, Told, Steady
  <2>4. QED
    BY <2>3, TwoTold DEF AssignTeamModal
<1>11. Shows(SetSalaryModal, ListsOf(PeoplePages))
  <2> SUFFICES ASSUME NEW q \in ListsOf(PeoplePages)
               PROVE  ShownBy(SetSalaryModal, q)
    BY DEF Shows
  <2>1. Told("SetSalaryModal", {"salary"}, {Compensation.key,
             CompensationHistory.key, UsersHistory.key}, {"guarded", "closes"},
             q)
    BY PeopleReads, PeopleKeys DEF PeopleReading, Told, Steady
  <2>2. QED
    BY <2>1, OneTold DEF SetSalaryModal
<1>12. Shows(CourierTariffsModal, ListsOf(PeoplePages))
  <2> SUFFICES ASSUME NEW q \in ListsOf(PeoplePages)
               PROVE  ShownBy(CourierTariffsModal, q)
    BY DEF Shows
  <2>1. Told("CourierTariffsModal", {"tariff"}, {CourierRules.key}, {"guarded",
             "clears"}, q)
    BY PeopleReads, PeopleKeys DEF PeopleReading, Told, Steady
  <2>2. QED
    BY <2>1, OneTold DEF CourierTariffsModal
<1>13. Shows(RemoveRule, ListsOf(PeoplePages))
  <2> SUFFICES ASSUME NEW q \in ListsOf(PeoplePages)
               PROVE  ShownBy(RemoveRule, q)
    BY DEF Shows
  <2>1. Told("RemoveRule", {"tariff"}, {CourierRules.key}, {"plain"}, q)
    BY PeopleReads, PeopleKeys DEF PeopleReading, Told, Steady
  <2>2. QED
    BY <2>1, OneTold DEF RemoveRule
<1>14. Shows(PersonalRateModal, ListsOf(PeoplePages))
  <2> SUFFICES ASSUME NEW q \in ListsOf(PeoplePages)
               PROVE  ShownBy(PersonalRateModal, q)
    BY DEF Shows
  <2>1. /\ <<"PersonalRateModal", "rates">> \in Forgotten
        /\ <<"PersonalRateModal", "rate history">> \in Forgotten
    BY Zenon DEF Forgotten
  <2>2. /\ Told("PersonalRateModal", {"rate"}, {}, {"guarded", "closes"}, q)
        /\ Told("PersonalRateModal", {"rate"}, {Configs.key, ConfigHistory.key,
                UsersHistory.key}, {"guarded", "closes"}, q)
    BY PeopleReads, <2>1, PeopleNames, Zenon DEF PeopleReading, Told
  <2>3. QED
    BY <2>2, TwoTold DEF PersonalRateModal
<1>15. Shows(EditTeamModal, ListsOf(PeoplePages))
  <2> SUFFICES ASSUME NEW q \in ListsOf(PeoplePages)
               PROVE  ShownBy(EditTeamModal, q)
    BY DEF Shows
  <2>1. /\ <<"EditTeamModal", "teams">> \in Forgotten
        /\ <<"EditTeamModal", "who is in which team">> \in Forgotten
    BY Zenon DEF Forgotten
  <2>2. Told("EditTeamModal", {"team", "member"}, {People.key}, {"guarded",
             "closes", "forgets", "keeps"}, q)
    BY PeopleReads, <2>1, PeopleNames, PeopleKeys, Zenon
    DEF PeopleReading, Told, Steady
  <2>3. QED
    BY <2>2, OneTold DEF EditTeamModal
<1>16. Shows(DeactivateTeamModal, ListsOf(PeoplePages))
  <2> SUFFICES ASSUME NEW q \in ListsOf(PeoplePages)
               PROVE  ShownBy(DeactivateTeamModal, q)
    BY DEF Shows
  <2>1. /\ <<"DeactivateTeamModal", "teams">> \in Forgotten
    BY Zenon DEF Forgotten
  <2>2. Told("DeactivateTeamModal", {"team"}, {People.key}, {"plain",
             "guarded", "closes", "forgets"}, q)
    BY PeopleReads, <2>1, PeopleNames, PeopleKeys, Zenon
    DEF PeopleReading, Told, Steady
  <2>3. QED
    BY <2>2, OneTold DEF DeactivateTeamModal
<1>17. QED
  BY <1>1, <1>2, <1>3, <1>4, <1>5, <1>6, <1>7, <1>8, <1>9, <1>10, <1>11, <1>12,
     <1>13, <1>14, <1>15, <1>16

------------------------------------------------------------------------------
(* What is renewed on a team lead's pages                                  *)

\* The lists there, and which of them read what a dialog changes.
LEMMA PayeeMounts ==
    ListsOf(TeamLeadPages) = {Payables, PayeePayouts, OrderComments, Me,
     Pharmacies, PharmacyCard}
BY DEF ListsOf, Page, TeamLeadPages, TeamLeadFinancePage,
   TeamLeadSellerFinanceDetailPage, SellerOrders, SellerProfileInfoPage,
   PharmaciesPage

\* Which of them read each thing that is changed there.
PayeeReading(q) ==
    /\ "payout" \in q.reads => q \in {Payables, PayeePayouts}

\* The lists there are such.
LEMMA PayeeReads == \A q \in ListsOf(TeamLeadPages) : PayeeReading(q)
<1>1. /\ Payables.reads = {"payout"} /\ PayeePayouts.reads = {"payout"}
      /\ OrderComments.reads = {"comment"}
  BY DEF Payables, PayeePayouts, OrderComments, Query, QueryById
<1>2. /\ PayeeReading(Payables) /\ PayeeReading(PayeePayouts)
      /\ PayeeReading(OrderComments)
  BY <1>1 DEF PayeeReading
<1>3. /\ Me.reads = {"me"}
      /\ Pharmacies.reads = {"pharmacy", "invoice", "pharmacy payment",
              "pharmacy return"}
      /\ PharmacyCard.reads = {"pharmacy", "invoice", "pharmacy payment",
              "pharmacy return"}
  BY DEF Me, Pharmacies, PharmacyCard, Query, QueryById
<1>4. /\ PayeeReading(Me) /\ PayeeReading(Pharmacies)
      /\ PayeeReading(PharmacyCard)
  BY <1>3, Zenon DEF PayeeReading
<1>5. QED
  BY PayeeMounts, <1>2, <1>4

\* What the exceptions call them.
LEMMA PayeeNames ==
    /\ PayeePayouts.name = "payouts of one"
BY DEF PayeePayouts, QueryById

\* The keys that an answer invalidates begin theirs.
LEMMA PayeeKeys ==
    /\ IsPrefix(Payables.key, Payables.key)
<1>1. /\ IsPrefix(Payables.key, Payables.key)
  BY KeyPrefixes
  DEF Payables, Query
<1>2. QED
  BY <1>1

\* Each dialog renews the lists that it changes, or is named as an exception.
LEMMA PayeeRenew ==
    /\ Shows(TeamPayout, ListsOf(TeamLeadPages))
    /\ Shows(SellerPayout, ListsOf(TeamLeadPages))
<1>1. Shows(TeamPayout, ListsOf(TeamLeadPages))
  <2> SUFFICES ASSUME NEW q \in ListsOf(TeamLeadPages)
               PROVE  ShownBy(TeamPayout, q)
    BY DEF Shows
  <2>1. /\ <<"TeamPayout", "payouts of one">> \in Forgotten
    BY Zenon DEF Forgotten
  <2>2. Told("TeamPayout", {"payout"}, {Payables.key}, {"guarded", "closes",
             "clears", "keeps"}, q)
    BY PayeeReads, <2>1, PayeeNames, PayeeKeys, Zenon
    DEF PayeeReading, Told, Steady
  <2>3. QED
    BY <2>2, OneTold DEF TeamPayout
<1>2. Shows(SellerPayout, ListsOf(TeamLeadPages))
  <2> SUFFICES ASSUME NEW q \in ListsOf(TeamLeadPages)
               PROVE  ShownBy(SellerPayout, q)
    BY DEF Shows
  <2>1. /\ <<"SellerPayout", "payouts of one">> \in Forgotten
    BY Zenon DEF Forgotten
  <2>2. Told("SellerPayout", {"payout"}, {Payables.key}, {"plain", "guarded",
             "closes"}, q)
    BY PayeeReads, <2>1, PayeeNames, PayeeKeys, Zenon
    DEF PayeeReading, Told, Steady
  <2>3. QED
    BY <2>2, OneTold DEF SellerPayout
<1>3. QED
  BY <1>1, <1>2

------------------------------------------------------------------------------
(* What is renewed on the warehouse, the budget and the orders             *)

\* The lists there, and which of them read what a dialog changes.
LEMMA OfficeMounts ==
    OfficeLists = {Products, Inventory, Movements, Batches, InventorySummary,
     InventoryDistribution, Returns, LostReports, ReceivingHistory, Transfers,
     Warehouses, Pharmacies, PharmacyCard, BudgetSummary, BudgetTransactions,
     WithdrawalRequests, TransactionHistory, FinanceSummary, FinanceEvents,
     ExpenseHistory, OwnerOrders, OwnerOrder, OrderComments, DeliverySettings,
     Me, Payables, PayeePayouts}
<1>1. ListsOf(StockPages \cup {PharmaciesPage, WarehousePassword}) = {Products,
          Inventory, Movements, Batches, InventorySummary,
          InventoryDistribution, Returns, LostReports, ReceivingHistory,
          Transfers, Warehouses, Pharmacies, PharmacyCard}
  BY DEF ListsOf, Page, StockPages, WarehouseInventoryPage, WarehouseDashboard,
     WarehouseReceivingPage, WarehouseMovementsPage, WarehouseArchivePage,
     OwnerWarehousePage, OwnerWarehouseMobile, PharmaciesPage,
     WarehousePassword, WarehouseData
<1>2. ListsOf(OwnerMoneyPages) = {BudgetSummary, BudgetTransactions,
          WithdrawalRequests, TransactionHistory, FinanceSummary,
          FinanceEvents, ExpenseHistory, Pharmacies, PharmacyCard, OwnerOrders,
          OwnerOrder, OrderComments, DeliverySettings, Me}
  BY DEF ListsOf, Page, OwnerMoneyPages, BudgetCompanyPage, OwnerFinancePage,
     FinanceEventsTable, PharmaciesPage, OwnerOrdersPage, LogisticsPage,
     SellerProfileInfoPage, AccountMenu
<1>3. ListsOf(TeamLeadPages) = {Payables, PayeePayouts, OrderComments, Me,
          Pharmacies, PharmacyCard}
  BY DEF ListsOf, Page, TeamLeadPages, TeamLeadFinancePage,
     TeamLeadSellerFinanceDetailPage, SellerOrders, SellerProfileInfoPage,
     PharmaciesPage
<1>4. ListsOf(SellerPages) = {OrderComments, Me, Pharmacies, PharmacyCard}
  BY DEF ListsOf, Page, SellerPages, SellerOrders, SellerProfileInfoPage,
     PasswordPages, PharmaciesPage
<1>5. QED
  BY <1>1, <1>2, <1>3, <1>4 DEF OfficeLists

\* Which of them read each thing that is changed there.
OfficeReading(q) ==
    /\ "product" \in q.reads => q = Products
    /\ "stock" \in q.reads => q \in {Inventory, InventorySummary,
         InventoryDistribution}
    /\ "movement" \in q.reads => q = Movements
    /\ "batch" \in q.reads => q = Batches
    /\ "transfer" \in q.reads => q \in {InventorySummary, Transfers}
    /\ "courier stock" \in q.reads => q \in {InventorySummary,
         InventoryDistribution}
    /\ "return" \in q.reads => q \in {InventorySummary, Returns}
    /\ "loss" \in q.reads => q \in {InventorySummary, LostReports}
    /\ "receiving edit" \in q.reads => q = ReceivingHistory
    /\ "warehouse" \in q.reads => q \in {InventoryDistribution, Warehouses}
    /\ "pharmacy" \in q.reads => q \in {Pharmacies, PharmacyCard}
    /\ "invoice" \in q.reads => q \in {Pharmacies, PharmacyCard}
    /\ "pharmacy payment" \in q.reads => q \in {Pharmacies, PharmacyCard,
         BudgetSummary, FinanceSummary, FinanceEvents}
    /\ "pharmacy return" \in q.reads => q \in {Pharmacies, PharmacyCard}
    /\ "password" \notin q.reads
    /\ "budget" \in q.reads => q \in {BudgetSummary, BudgetTransactions}
    /\ "withdrawal request" \in q.reads => q = WithdrawalRequests
    /\ "budget edit" \in q.reads => q = TransactionHistory
    /\ "expense" \in q.reads => q \in {BudgetSummary, FinanceSummary,
         FinanceEvents}
    /\ "expense edit" \in q.reads => q = ExpenseHistory
    /\ "payout" \in q.reads => q \in {FinanceEvents, Payables, PayeePayouts}
    /\ "order" \in q.reads => q \in {OwnerOrders, OwnerOrder}
    /\ "comment" \in q.reads => q = OrderComments
    /\ "fee" \in q.reads => q = DeliverySettings
    /\ "me" \in q.reads => q = Me

\* The lists there are such.
LEMMA OfficeReads == \A q \in OfficeLists : OfficeReading(q)
<1>1. /\ Products.reads = {"product"} /\ Inventory.reads = {"stock"}
      /\ Movements.reads = {"movement"}
  BY DEF Products, Inventory, Movements, Query
<1>2. /\ OfficeReading(Products) /\ OfficeReading(Inventory)
      /\ OfficeReading(Movements)
  BY <1>1 DEF OfficeReading
<1>3. /\ Batches.reads = {"batch"}
      /\ InventorySummary.reads = {"stock", "courier stock", "transfer",
              "return", "loss"}
      /\ InventoryDistribution.reads = {"stock", "courier stock", "warehouse"}
  BY DEF Batches, InventorySummary, InventoryDistribution, Query
<1>4. /\ OfficeReading(Batches) /\ OfficeReading(InventorySummary)
      /\ OfficeReading(InventoryDistribution)
  BY <1>3, Zenon DEF OfficeReading
<1>5. /\ Returns.reads = {"return"} /\ LostReports.reads = {"loss"}
      /\ ReceivingHistory.reads = {"receiving edit"}
  BY DEF Returns, LostReports, ReceivingHistory, Query, QueryById
<1>6. /\ OfficeReading(Returns) /\ OfficeReading(LostReports)
      /\ OfficeReading(ReceivingHistory)
  BY <1>5, Zenon DEF OfficeReading
<1>7. /\ Transfers.reads = {"transfer"} /\ Warehouses.reads = {"warehouse"}
      /\ Pharmacies.reads = {"pharmacy", "invoice", "pharmacy payment",
              "pharmacy return"}
  BY DEF Transfers, Warehouses, Pharmacies, Query
<1>8. /\ OfficeReading(Transfers) /\ OfficeReading(Warehouses)
      /\ OfficeReading(Pharmacies)
  BY <1>7, Zenon DEF OfficeReading
<1>9. /\ PharmacyCard.reads = {"pharmacy", "invoice", "pharmacy payment",
              "pharmacy return"}
      /\ BudgetSummary.reads = {"budget", "expense", "pharmacy payment"}
      /\ BudgetTransactions.reads = {"budget"}
  BY DEF PharmacyCard, BudgetSummary, BudgetTransactions, QueryById, Query
<1>10. /\ OfficeReading(PharmacyCard) /\ OfficeReading(BudgetSummary)
       /\ OfficeReading(BudgetTransactions)
  BY <1>9, Zenon DEF OfficeReading
<1>11. /\ WithdrawalRequests.reads = {"withdrawal request"}
       /\ TransactionHistory.reads = {"budget edit"}
       /\ FinanceSummary.reads = {"expense", "pharmacy payment"}
  BY DEF WithdrawalRequests, TransactionHistory, FinanceSummary, Query,
     QueryById
<1>12. /\ OfficeReading(WithdrawalRequests)
       /\ OfficeReading(TransactionHistory) /\ OfficeReading(FinanceSummary)
  BY <1>11, Zenon DEF OfficeReading
<1>13. /\ FinanceEvents.reads = {"expense", "payout", "pharmacy payment"}
       /\ ExpenseHistory.reads = {"expense edit"}
       /\ OwnerOrders.reads = {"order"}
  BY DEF FinanceEvents, ExpenseHistory, OwnerOrders, Query, QueryById
<1>14. /\ OfficeReading(FinanceEvents) /\ OfficeReading(ExpenseHistory)
       /\ OfficeReading(OwnerOrders)
  BY <1>13, Zenon DEF OfficeReading
<1>15. /\ OwnerOrder.reads = {"order"} /\ OrderComments.reads = {"comment"}
       /\ DeliverySettings.reads = {"fee"}
  BY DEF OwnerOrder, OrderComments, DeliverySettings, QueryById, Query
<1>16. /\ OfficeReading(OwnerOrder) /\ OfficeReading(OrderComments)
       /\ OfficeReading(DeliverySettings)
  BY <1>15 DEF OfficeReading
<1>17. /\ Me.reads = {"me"} /\ Payables.reads = {"payout"}
       /\ PayeePayouts.reads = {"payout"}
  BY DEF Me, Payables, PayeePayouts, Query, QueryById
<1>18. /\ OfficeReading(Me) /\ OfficeReading(Payables)
       /\ OfficeReading(PayeePayouts)
  BY <1>17 DEF OfficeReading
<1>19. QED
  BY OfficeMounts, <1>2, <1>4, <1>6, <1>8, <1>10, <1>12, <1>14, <1>16, <1>18

\* What the exceptions call them.
LEMMA OfficeNames ==
    /\ Products.name = "products" /\ InventorySummary.name = "stock summary"
    /\ InventoryDistribution.name = "stock by warehouse"
    /\ Batches.name = "batches" /\ Inventory.name = "inventory"
    /\ Movements.name = "movements"
    /\ ReceivingHistory.name = "receiving history"
    /\ BudgetSummary.name = "budget" /\ FinanceSummary.name = "finance summary"
    /\ FinanceEvents.name = "finance events"
    /\ OrderComments.name = "order comments"
<1>1. /\ Products.name = "products" /\ InventorySummary.name = "stock summary"
      /\ InventoryDistribution.name = "stock by warehouse"
      /\ Batches.name = "batches"
  BY DEF Products, InventorySummary, InventoryDistribution, Batches, Query
<1>2. /\ Inventory.name = "inventory" /\ Movements.name = "movements"
      /\ ReceivingHistory.name = "receiving history"
      /\ BudgetSummary.name = "budget"
  BY DEF Inventory, Movements, ReceivingHistory, BudgetSummary, Query,
     QueryById
<1>3. /\ FinanceSummary.name = "finance summary"
      /\ FinanceEvents.name = "finance events"
      /\ OrderComments.name = "order comments"
  BY DEF FinanceSummary, FinanceEvents, OrderComments, Query, QueryById
<1>4. QED
  BY <1>1, <1>2, <1>3, Zenon

\* The keys that an answer invalidates begin theirs.
LEMMA OfficeKeys ==
    /\ IsPrefix(Products.key, Products.key)
    /\ IsPrefix(Inventory.key, Inventory.key)
    /\ IsPrefix(Movements.key, Movements.key)
    /\ IsPrefix(Batches.key, Batches.key)
    /\ IsPrefix(InventorySummary.key, InventorySummary.key)
    /\ IsPrefix(InventoryDistribution.key, InventoryDistribution.key)
    /\ IsPrefix(Transfers.key, Transfers.key)
    /\ IsPrefix(Returns.key, Returns.key)
    /\ IsPrefix(LostReports.key, LostReports.key)
    /\ IsPrefix(Warehouses.key, Warehouses.key)
    /\ IsPrefix(<<"pharmacies">>, Pharmacies.key)
    /\ IsPrefix(<<"pharmacies">>, PharmacyCard.key)
    /\ IsPrefix(<<"warehouse", "inventory">>, Inventory.key)
    /\ IsPrefix(<<"budget">>, BudgetSummary.key)
    /\ IsPrefix(<<"budget">>, BudgetTransactions.key)
    /\ IsPrefix(<<"budget">>, WithdrawalRequests.key)
    /\ IsPrefix(TransactionHistory.key, TransactionHistory.key)
    /\ IsPrefix(<<"finance">>, FinanceSummary.key)
    /\ IsPrefix(<<"finance">>, FinanceEvents.key)
    /\ IsPrefix(ExpenseHistory.key, ExpenseHistory.key)
    /\ IsPrefix(FinanceEvents.key, FinanceEvents.key)
    /\ IsPrefix(<<"payouts">>, Payables.key)
    /\ IsPrefix(<<"payouts">>, PayeePayouts.key)
    /\ IsPrefix(<<"orders">>, OwnerOrders.key)
    /\ IsPrefix(<<"orders">>, OwnerOrder.key)
    /\ IsPrefix(OrderComments.key, OrderComments.key)
    /\ IsPrefix(DeliverySettings.key, DeliverySettings.key)
    /\ IsPrefix(Me.key, Me.key)
<1>1. /\ IsPrefix(Products.key, Products.key)
      /\ IsPrefix(Inventory.key, Inventory.key)
      /\ IsPrefix(Movements.key, Movements.key)
  BY KeyPrefixes
  DEF Products, Inventory, Movements, Query
<1>2. /\ IsPrefix(Batches.key, Batches.key)
      /\ IsPrefix(InventorySummary.key, InventorySummary.key)
      /\ IsPrefix(InventoryDistribution.key, InventoryDistribution.key)
  BY KeyPrefixes
  DEF Batches, InventorySummary, InventoryDistribution, Query
<1>3. /\ IsPrefix(Transfers.key, Transfers.key)
      /\ IsPrefix(Returns.key, Returns.key)
      /\ IsPrefix(LostReports.key, LostReports.key)
  BY KeyPrefixes
  DEF Transfers, Returns, LostReports, Query
<1>4. /\ IsPrefix(Warehouses.key, Warehouses.key)
      /\ IsPrefix(<<"pharmacies">>, Pharmacies.key)
      /\ IsPrefix(<<"pharmacies">>, PharmacyCard.key)
  BY KeyPrefixes
  DEF Warehouses, Pharmacies, PharmacyCard, Query, QueryById
<1>5. /\ IsPrefix(<<"warehouse", "inventory">>, Inventory.key)
      /\ IsPrefix(<<"budget">>, BudgetSummary.key)
      /\ IsPrefix(<<"budget">>, BudgetTransactions.key)
  BY KeyPrefixes
  DEF Inventory, BudgetSummary, BudgetTransactions, Query
<1>6. /\ IsPrefix(<<"budget">>, WithdrawalRequests.key)
      /\ IsPrefix(TransactionHistory.key, TransactionHistory.key)
      /\ IsPrefix(<<"finance">>, FinanceSummary.key)
  BY KeyPrefixes
  DEF WithdrawalRequests, TransactionHistory, FinanceSummary, Query, QueryById
<1>7. /\ IsPrefix(<<"finance">>, FinanceEvents.key)
      /\ IsPrefix(ExpenseHistory.key, ExpenseHistory.key)
      /\ IsPrefix(FinanceEvents.key, FinanceEvents.key)
  BY KeyPrefixes
  DEF FinanceEvents, ExpenseHistory, Query, QueryById
<1>8. /\ IsPrefix(<<"payouts">>, Payables.key)
      /\ IsPrefix(<<"payouts">>, PayeePayouts.key)
      /\ IsPrefix(<<"orders">>, OwnerOrders.key)
  BY KeyPrefixes
  DEF Payables, PayeePayouts, OwnerOrders, Query, QueryById
<1>9. /\ IsPrefix(<<"orders">>, OwnerOrder.key)
      /\ IsPrefix(OrderComments.key, OrderComments.key)
      /\ IsPrefix(DeliverySettings.key, DeliverySettings.key)
  BY KeyPrefixes
  DEF OwnerOrder, OrderComments, DeliverySettings, QueryById, Query
<1>10. /\ IsPrefix(Me.key, Me.key)
  BY KeyPrefixes
  DEF Me, Query
<1>11. QED
  BY <1>1, <1>2, <1>3, <1>4, <1>5, <1>6, <1>7, <1>8, <1>9, <1>10

\* Each dialog renews the lists that it changes, or is named as an exception.
LEMMA OfficeRenew ==
    /\ Shows(CreateProductModal, OfficeLists)
    /\ Shows(EditProductModal, OfficeLists)
    /\ Shows(ArchiveProductModal, OfficeLists)
    /\ Shows(ReceivingModal, OfficeLists) /\ Shows(WriteoffModal, OfficeLists)
    /\ Shows(NewTransferModal, OfficeLists) /\ Shows(AcceptReturn, OfficeLists)
    /\ Shows(RejectReturn, OfficeLists) /\ Shows(DecideLoss, OfficeLists)
    /\ Shows(ReceivingEditModal, OfficeLists)
    /\ Shows(NewWarehouseModal, OfficeLists)
    /\ Shows(RenameWarehouseModal, OfficeLists)
    /\ Shows(RestoreButton, OfficeLists) /\ Shows(PharmacyForm, OfficeLists)
    /\ Shows(InvoiceForm, OfficeLists) /\ Shows(PaymentForm, OfficeLists)
    /\ Shows(ReturnForm, OfficeLists) /\ Shows(TransferForm, OfficeLists)
    /\ Shows(InvoiceVerdict, OfficeLists) /\ Shows(PaymentVerdict, OfficeLists)
    /\ Shows(ReturnVerdict, OfficeLists) /\ Shows(ArchivePharmacy, OfficeLists)
    /\ Shows(WarehouseChangePasswordPage, OfficeLists)
    /\ Shows(BudgetIncome, OfficeLists) /\ Shows(BudgetWithdrawal, OfficeLists)
    /\ Shows(EditBudgetTransaction, OfficeLists)
    /\ Shows(AddExpenseModal, OfficeLists)
    /\ Shows(EditFinanceExpense, OfficeLists)
    /\ Shows(VoidPayoutModal, OfficeLists)
    /\ Shows(OrderStatusModal, OfficeLists)
    /\ Shows(OrderCommentsPanel, OfficeLists)
    /\ Shows(DeliverySettingsTab, OfficeLists)
    /\ Shows(ProfileName, OfficeLists) /\ Shows(MyAvatar, OfficeLists)
    /\ Shows(ProfileView, OfficeLists) /\ Shows(PasswordView, OfficeLists)
    /\ Shows(SellerComment, OfficeLists)
    /\ Shows(ChangePasswordPage, OfficeLists)
<1>1. Shows(CreateProductModal, OfficeLists)
  <2> SUFFICES ASSUME NEW q \in OfficeLists
               PROVE  ShownBy(CreateProductModal, q)
    BY DEF Shows
  <2>1. /\ <<"CreateProductModal", "products">> \in Forgotten
    BY Zenon DEF Forgotten
  <2>2. /\ Told("CreateProductModal", {"product"}, {}, {"guarded", "closes"},
                q)
        /\ Told("CreateProductModal", {"product"}, {Products.key}, {"guarded",
                "closes"}, q)
    BY OfficeReads, <2>1, OfficeNames, Zenon DEF OfficeReading, Told
  <2>3. QED
    BY <2>2, TwoTold DEF CreateProductModal
<1>2. Shows(EditProductModal, OfficeLists)
  <2> SUFFICES ASSUME NEW q \in OfficeLists PROVE ShownBy(EditProductModal, q)
    BY DEF Shows
  <2>1. /\ <<"EditProductModal", "products">> \in Forgotten
    BY Zenon DEF Forgotten
  <2>2. /\ Told("EditProductModal", {"product"}, {}, {"guarded", "closes"}, q)
        /\ Told("EditProductModal", {"product"}, {Products.key}, {"guarded",
                "closes"}, q)
    BY OfficeReads, <2>1, OfficeNames, Zenon DEF OfficeReading, Told
  <2>3. QED
    BY <2>2, TwoTold DEF EditProductModal
<1>3. Shows(ArchiveProductModal, OfficeLists)
  <2> SUFFICES ASSUME NEW q \in OfficeLists
               PROVE  ShownBy(ArchiveProductModal, q)
    BY DEF Shows
  <2>1. Told("ArchiveProductModal", {"product"}, {Products.key}, {"plain",
             "guarded", "closes"}, q)
    BY OfficeReads, OfficeKeys, Zenon DEF OfficeReading, Told, Steady
  <2>2. QED
    BY <2>1, OneTold DEF ArchiveProductModal
<1>4. Shows(ReceivingModal, OfficeLists)
  <2> SUFFICES ASSUME NEW q \in OfficeLists PROVE ShownBy(ReceivingModal, q)
    BY DEF Shows
  <2>1. /\ <<"ReceivingModal", "stock summary">> \in Forgotten
        /\ <<"ReceivingModal", "stock by warehouse">> \in Forgotten
    BY Zenon DEF Forgotten, StockTotals
  <2>2. Told("ReceivingModal", {"stock", "movement", "batch", "product"},
             {Inventory.key, Movements.key, Batches.key, Products.key},
             {"guarded", "closes", "forgets"}, q)
    BY OfficeReads, <2>1, OfficeNames, OfficeKeys, Zenon
    DEF OfficeReading, Told, Steady
  <2>3. QED
    BY <2>2, OneTold DEF ReceivingModal
<1>5. Shows(WriteoffModal, OfficeLists)
  <2> SUFFICES ASSUME NEW q \in OfficeLists PROVE ShownBy(WriteoffModal, q)
    BY DEF Shows
  <2>1. /\ <<"WriteoffModal", "stock summary">> \in Forgotten
        /\ <<"WriteoffModal", "stock by warehouse">> \in Forgotten
    BY Zenon DEF Forgotten, StockTotals
  <2>2. Told("WriteoffModal", {"stock", "movement", "batch"}, {Inventory.key,
             Movements.key, Batches.key}, {"guarded", "closes", "forgets"}, q)
    BY OfficeReads, <2>1, OfficeNames, OfficeKeys, Zenon
    DEF OfficeReading, Told, Steady
  <2>3. QED
    BY <2>2, OneTold DEF WriteoffModal
<1>6. Shows(NewTransferModal, OfficeLists)
  <2> SUFFICES ASSUME NEW q \in OfficeLists PROVE ShownBy(NewTransferModal, q)
    BY DEF Shows
  <2>1. Told("NewTransferModal", {"stock", "transfer"}, {Transfers.key,
             Inventory.key, Movements.key} \cup Both, {"guarded", "closes"}, q)
    BY OfficeReads, OfficeKeys, Zenon DEF OfficeReading, Told, Steady, Both
  <2>2. QED
    BY <2>1, OneTold DEF NewTransferModal
<1>7. Shows(AcceptReturn, OfficeLists)
  <2> SUFFICES ASSUME NEW q \in OfficeLists PROVE ShownBy(AcceptReturn, q)
    BY DEF Shows
  <2>1. /\ <<"AcceptReturn", "batches">> \in Forgotten
    BY Zenon DEF Forgotten
  <2>2. Told("AcceptReturn", {"stock", "courier stock", "movement", "batch",
             "return"}, {Returns.key, Inventory.key, Movements.key} \cup Both,
             {"plain"}, q)
    BY OfficeReads, <2>1, OfficeNames, OfficeKeys, Zenon
    DEF OfficeReading, Told, Steady, Both
  <2>3. QED
    BY <2>2, OneTold, Zenon DEF AcceptReturn
<1>8. Shows(RejectReturn, OfficeLists)
  <2> SUFFICES ASSUME NEW q \in OfficeLists PROVE ShownBy(RejectReturn, q)
    BY DEF Shows
  <2>1. /\ <<"RejectReturn", "stock summary">> \in Forgotten
        /\ <<"RejectReturn", "stock by warehouse">> \in Forgotten
    BY Zenon DEF Forgotten, StockTotals
  <2>2. Told("RejectReturn", {"courier stock", "return"}, {Returns.key},
             {"plain"}, q)
    BY OfficeReads, <2>1, OfficeNames, OfficeKeys, Zenon
    DEF OfficeReading, Told, Steady
  <2>3. QED
    BY <2>2, OneTold, Zenon DEF RejectReturn
<1>9. Shows(DecideLoss, OfficeLists)
  <2> SUFFICES ASSUME NEW q \in OfficeLists PROVE ShownBy(DecideLoss, q)
    BY DEF Shows
  <2>1. Told("DecideLoss", {"courier stock", "loss"}, {LostReports.key} \cup
             Both, {"plain"}, q)
    BY OfficeReads, OfficeKeys, Zenon DEF OfficeReading, Told, Steady, Both
  <2>2. QED
    BY <2>1, OneTold, Zenon DEF DecideLoss
<1>10. Shows(ReceivingEditModal, OfficeLists)
  <2> SUFFICES ASSUME NEW q \in OfficeLists
               PROVE  ShownBy(ReceivingEditModal, q)
    BY DEF Shows
  <2>1. /\ <<"ReceivingEditModal", "inventory">> \in Forgotten
        /\ <<"ReceivingEditModal", "movements">> \in Forgotten
    BY Zenon DEF Forgotten
  <2>2. /\ <<"ReceivingEditModal", "batches">> \in Forgotten
        /\ <<"ReceivingEditModal", "stock summary">> \in Forgotten
    BY Zenon DEF Forgotten, StockTotals
  <2>3. /\ <<"ReceivingEditModal", "stock by warehouse">> \in Forgotten
        /\ <<"ReceivingEditModal", "receiving history">> \in Forgotten
    BY Zenon DEF Forgotten, StockTotals
  <2>4. /\ Told("ReceivingEditModal", {"stock", "movement", "batch",
                "receiving edit"}, {}, {"guarded", "closes", "forgets"}, q)
        /\ Told("ReceivingEditModal", {"product"}, {Inventory.key,
                Movements.key, Batches.key, ReceivingHistory.key,
                Products.key}, {"guarded", "closes", "forgets"}, q)
    BY OfficeReads, <2>1, <2>2, <2>3, OfficeNames, OfficeKeys, Zenon
    DEF OfficeReading, Told, Steady
  <2>5. QED
    BY <2>4, TwoTold, Zenon DEF ReceivingEditModal
<1>11. Shows(NewWarehouseModal, OfficeLists)
  <2> SUFFICES ASSUME NEW q \in OfficeLists PROVE ShownBy(NewWarehouseModal, q)
    BY DEF Shows
  <2>1. /\ <<"NewWarehouseModal", "stock by warehouse">> \in Forgotten
    BY Zenon DEF Forgotten, StockTotals
  <2>2. Told("NewWarehouseModal", {"warehouse"}, {Warehouses.key}, {"guarded",
             "closes"}, q)
    BY OfficeReads, <2>1, OfficeNames, OfficeKeys, Zenon
    DEF OfficeReading, Told, Steady
  <2>3. QED
    BY <2>2, OneTold DEF NewWarehouseModal
<1>12. Shows(RenameWarehouseModal, OfficeLists)
  <2> SUFFICES ASSUME NEW q \in OfficeLists
               PROVE  ShownBy(RenameWarehouseModal, q)
    BY DEF Shows
  <2>1. /\ <<"RenameWarehouseModal", "stock by warehouse">> \in Forgotten
    BY Zenon DEF Forgotten, StockTotals
  <2>2. Told("RenameWarehouseModal", {"warehouse"}, {Warehouses.key},
             {"guarded", "closes"}, q)
    BY OfficeReads, <2>1, OfficeNames, OfficeKeys, Zenon
    DEF OfficeReading, Told, Steady
  <2>3. QED
    BY <2>2, OneTold DEF RenameWarehouseModal
<1>13. Shows(RestoreButton, OfficeLists)
  <2> SUFFICES ASSUME NEW q \in OfficeLists PROVE ShownBy(RestoreButton, q)
    BY DEF Shows
  <2>1. Told("RestoreButton", {"product"}, {Products.key}, {"plain"}, q)
    BY OfficeReads, OfficeKeys, Zenon DEF OfficeReading, Told, Steady
  <2>2. QED
    BY <2>1, OneTold DEF RestoreButton
<1>14. Shows(PharmacyForm, OfficeLists)
  <2> SUFFICES ASSUME NEW q \in OfficeLists PROVE ShownBy(PharmacyForm, q)
    BY DEF Shows
  <2>1. Told("PharmacyForm", {"pharmacy"}, OfPharmacies, {"guarded", "closes",
             "clears", "keeps"}, q)
    BY OfficeReads, OfficeKeys, Zenon
    DEF OfficeReading, Told, Steady, OfPharmacies
  <2>2. QED
    BY <2>1, OneTold DEF PharmacyForm
<1>15. Shows(InvoiceForm, OfficeLists)
  <2> SUFFICES ASSUME NEW q \in OfficeLists PROVE ShownBy(InvoiceForm, q)
    BY DEF Shows
  <2>1. /\ <<"InvoiceForm", "movements">> \in Forgotten
        /\ <<"InvoiceForm", "batches">> \in Forgotten
    BY Zenon DEF Forgotten
  <2>2. /\ <<"InvoiceForm", "stock summary">> \in Forgotten
        /\ <<"InvoiceForm", "stock by warehouse">> \in Forgotten
    BY Zenon DEF Forgotten, StockTotals
  <2>3. Told("InvoiceForm", {"invoice", "stock", "movement", "batch"},
             OfPharmacies, {"guarded", "closes", "clears", "keeps"}, q)
    BY OfficeReads, <2>1, <2>2, OfficeNames, OfficeKeys, Zenon
    DEF OfficeReading, Told, Steady, OfPharmacies
  <2>4. QED
    BY <2>3, OneTold DEF InvoiceForm
<1>16. Shows(PaymentForm, OfficeLists)
  <2> SUFFICES ASSUME NEW q \in OfficeLists PROVE ShownBy(PaymentForm, q)
    BY DEF Shows
  <2>1. /\ <<"PaymentForm", "budget">> \in Forgotten
        /\ <<"PaymentForm", "finance summary">> \in Forgotten
    BY Zenon DEF Forgotten
  <2>2. /\ <<"PaymentForm", "finance events">> \in Forgotten
    BY Zenon DEF Forgotten
  <2>3. Told("PaymentForm", {"pharmacy payment"}, OfPharmacies, {"closes",
             "clears", "keeps"}, q)
    BY OfficeReads, <2>1, <2>2, OfficeNames, OfficeKeys, Zenon
    DEF OfficeReading, Told, Steady, OfPharmacies
  <2>4. QED
    BY <2>3, OneTold, Zenon DEF PaymentForm
<1>17. Shows(ReturnForm, OfficeLists)
  <2> SUFFICES ASSUME NEW q \in OfficeLists PROVE ShownBy(ReturnForm, q)
    BY DEF Shows
  <2>1. Told("ReturnForm", {"pharmacy return"}, OfPharmacies, {"closes",
             "clears", "keeps"}, q)
    BY OfficeReads, OfficeKeys, Zenon
    DEF OfficeReading, Told, Steady, OfPharmacies
  <2>2. QED
    BY <2>1, OneTold, Zenon DEF ReturnForm
<1>18. Shows(TransferForm, OfficeLists)
  <2> SUFFICES ASSUME NEW q \in OfficeLists PROVE ShownBy(TransferForm, q)
    BY DEF Shows
  <2>1. Told("TransferForm", {"pharmacy"}, OfPharmacies, {"closes", "clears",
             "keeps"}, q)
    BY OfficeReads, OfficeKeys, Zenon
    DEF OfficeReading, Told, Steady, OfPharmacies
  <2>2. QED
    BY <2>1, OneTold DEF TransferForm
<1>19. Shows(InvoiceVerdict, OfficeLists)
  <2> SUFFICES ASSUME NEW q \in OfficeLists PROVE ShownBy(InvoiceVerdict, q)
    BY DEF Shows
  <2>1. /\ <<"InvoiceVerdict", "movements">> \in Forgotten
        /\ <<"InvoiceVerdict", "batches">> \in Forgotten
    BY Zenon DEF Forgotten
  <2>2. /\ <<"InvoiceVerdict", "stock summary">> \in Forgotten
        /\ <<"InvoiceVerdict", "stock by warehouse">> \in Forgotten
    BY Zenon DEF Forgotten, StockTotals
  <2>3. Told("InvoiceVerdict", {"invoice", "stock", "movement", "batch"},
             OfPharmacies, {"plain"}, q)
    BY OfficeReads, <2>1, <2>2, OfficeNames, OfficeKeys, Zenon
    DEF OfficeReading, Told, Steady, OfPharmacies
  <2>4. QED
    BY <2>3, OneTold DEF InvoiceVerdict
<1>20. Shows(PaymentVerdict, OfficeLists)
  <2> SUFFICES ASSUME NEW q \in OfficeLists PROVE ShownBy(PaymentVerdict, q)
    BY DEF Shows
  <2>1. /\ <<"PaymentVerdict", "budget">> \in Forgotten
        /\ <<"PaymentVerdict", "finance summary">> \in Forgotten
    BY Zenon DEF Forgotten
  <2>2. /\ <<"PaymentVerdict", "finance events">> \in Forgotten
    BY Zenon DEF Forgotten
  <2>3. Told("PaymentVerdict", {"pharmacy payment"}, OfPharmacies, {"plain"},
             q)
    BY OfficeReads, <2>1, <2>2, OfficeNames, OfficeKeys, Zenon
    DEF OfficeReading, Told, Steady, OfPharmacies
  <2>4. QED
    BY <2>3, OneTold, Zenon DEF PaymentVerdict
<1>21. Shows(ReturnVerdict, OfficeLists)
  <2> SUFFICES ASSUME NEW q \in OfficeLists PROVE ShownBy(ReturnVerdict, q)
    BY DEF Shows
  <2>1. /\ <<"ReturnVerdict", "movements">> \in Forgotten
        /\ <<"ReturnVerdict", "batches">> \in Forgotten
    BY Zenon DEF Forgotten
  <2>2. /\ <<"ReturnVerdict", "stock summary">> \in Forgotten
        /\ <<"ReturnVerdict", "stock by warehouse">> \in Forgotten
    BY Zenon DEF Forgotten, StockTotals
  <2>3. Told("ReturnVerdict", {"pharmacy return", "stock", "movement",
             "batch"}, OfPharmacies, {"plain"}, q)
    BY OfficeReads, <2>1, <2>2, OfficeNames, OfficeKeys, Zenon
    DEF OfficeReading, Told, Steady, OfPharmacies
  <2>4. QED
    BY <2>3, OneTold, Zenon DEF ReturnVerdict
<1>22. Shows(ArchivePharmacy, OfficeLists)
  <2> SUFFICES ASSUME NEW q \in OfficeLists PROVE ShownBy(ArchivePharmacy, q)
    BY DEF Shows
  <2>1. Told("ArchivePharmacy", {"pharmacy"}, OfPharmacies, {"plain"}, q)
    BY OfficeReads, OfficeKeys, Zenon
    DEF OfficeReading, Told, Steady, OfPharmacies
  <2>2. QED
    BY <2>1, OneTold DEF ArchivePharmacy
<1>23. Shows(WarehouseChangePasswordPage, OfficeLists)
  <2> SUFFICES ASSUME NEW q \in OfficeLists
               PROVE  ShownBy(WarehouseChangePasswordPage, q)
    BY DEF Shows
  <2>1. Told("WarehouseChangePasswordPage", {"password"}, {}, {"guarded",
             "closes", "forgets"}, q)
    BY OfficeReads, Zenon DEF OfficeReading, Told
  <2>2. QED
    BY <2>1, OneTold DEF WarehouseChangePasswordPage
<1>24. Shows(BudgetIncome, OfficeLists)
  <2> SUFFICES ASSUME NEW q \in OfficeLists PROVE ShownBy(BudgetIncome, q)
    BY DEF Shows
  <2>1. Told("BudgetIncome", {"budget"}, {<<"budget">>}, {"guarded", "closes",
             "leaves"}, q)
    BY OfficeReads, OfficeKeys, Zenon DEF OfficeReading, Told, Steady
  <2>2. QED
    BY <2>1, OneTold DEF BudgetIncome
<1>25. Shows(BudgetWithdrawal, OfficeLists)
  <2> SUFFICES ASSUME NEW q \in OfficeLists PROVE ShownBy(BudgetWithdrawal, q)
    BY DEF Shows
  <2>1. Told("BudgetWithdrawal", {"budget", "withdrawal request"},
             {<<"budget">>}, {"guarded", "closes", "leaves"}, q)
    BY OfficeReads, OfficeKeys, Zenon DEF OfficeReading, Told, Steady
  <2>2. QED
    BY <2>1, OneTold, Zenon DEF BudgetWithdrawal
<1>26. Shows(EditBudgetTransaction, OfficeLists)
  <2> SUFFICES ASSUME NEW q \in OfficeLists
               PROVE  ShownBy(EditBudgetTransaction, q)
    BY DEF Shows
  <2>1. Told("EditBudgetTransaction", {"budget", "budget edit"}, {<<"budget">>,
             TransactionHistory.key}, {"guarded", "closes", "forgets"}, q)
    BY OfficeReads, OfficeKeys, Zenon DEF OfficeReading, Told, Steady
  <2>2. QED
    BY <2>1, OneTold, Zenon DEF EditBudgetTransaction
<1>27. Shows(AddExpenseModal, OfficeLists)
  <2> SUFFICES ASSUME NEW q \in OfficeLists PROVE ShownBy(AddExpenseModal, q)
    BY DEF Shows
  <2>1. Told("AddExpenseModal", {"expense"}, {<<"finance">>, <<"budget">>},
             {"guarded", "closes", "leaves"}, q)
    BY OfficeReads, OfficeKeys, Zenon DEF OfficeReading, Told, Steady
  <2>2. QED
    BY <2>1, OneTold DEF AddExpenseModal
<1>28. Shows(EditFinanceExpense, OfficeLists)
  <2> SUFFICES ASSUME NEW q \in OfficeLists
               PROVE  ShownBy(EditFinanceExpense, q)
    BY DEF Shows
  <2>1. Told("EditFinanceExpense", {"expense", "expense edit"}, {<<"finance">>,
             <<"budget">>, ExpenseHistory.key}, {"guarded", "closes",
             "forgets"}, q)
    BY OfficeReads, OfficeKeys, Zenon DEF OfficeReading, Told, Steady
  <2>2. QED
    BY <2>1, OneTold, Zenon DEF EditFinanceExpense
<1>29. Shows(VoidPayoutModal, OfficeLists)
  <2> SUFFICES ASSUME NEW q \in OfficeLists PROVE ShownBy(VoidPayoutModal, q)
    BY DEF Shows
  <2>1. Told("VoidPayoutModal", {"payout"}, {FinanceEvents.key, <<"payouts">>},
             {"guarded", "closes", "on call", "forgets"}, q)
    BY OfficeReads, OfficeKeys, Zenon DEF OfficeReading, Told, Steady
  <2>2. QED
    BY <2>1, OneTold, Zenon DEF VoidPayoutModal
<1>30. Shows(OrderStatusModal, OfficeLists)
  <2> SUFFICES ASSUME NEW q \in OfficeLists PROVE ShownBy(OrderStatusModal, q)
    BY DEF Shows
  <2>1. Told("OrderStatusModal", {"order"}, {<<"orders">>}, {"guarded",
             "closes", "forgets"}, q)
    BY OfficeReads, OfficeKeys, Zenon DEF OfficeReading, Told, Steady
  <2>2. QED
    BY <2>1, OneTold DEF OrderStatusModal
<1>31. Shows(OrderCommentsPanel, OfficeLists)
  <2> SUFFICES ASSUME NEW q \in OfficeLists
               PROVE  ShownBy(OrderCommentsPanel, q)
    BY DEF Shows
  <2>1. Told("OrderCommentsPanel", {"comment"}, {OrderComments.key},
             {"guarded", "clears", "on call", "forgets"}, q)
    BY OfficeReads, OfficeKeys, Zenon DEF OfficeReading, Told, Steady
  <2>2. QED
    BY <2>1, OneTold, Zenon DEF OrderCommentsPanel
<1>32. Shows(DeliverySettingsTab, OfficeLists)
  <2> SUFFICES ASSUME NEW q \in OfficeLists
               PROVE  ShownBy(DeliverySettingsTab, q)
    BY DEF Shows
  <2>1. Told("DeliverySettingsTab", {"fee"}, {DeliverySettings.key},
             {"guarded", "keeps"}, q)
    BY OfficeReads, OfficeKeys, Zenon DEF OfficeReading, Told, Steady
  <2>2. QED
    BY <2>1, OneTold DEF DeliverySettingsTab
<1>33. Shows(ProfileName, OfficeLists)
  <2> SUFFICES ASSUME NEW q \in OfficeLists PROVE ShownBy(ProfileName, q)
    BY DEF Shows
  <2>1. Told("ProfileName", {"me"}, {Me.key}, {"guarded"}, q)
    BY OfficeReads, OfficeKeys, Zenon DEF OfficeReading, Told, Steady
  <2>2. QED
    BY <2>1, OneTold DEF ProfileName
<1>34. Shows(MyAvatar, OfficeLists)
  <2> SUFFICES ASSUME NEW q \in OfficeLists PROVE ShownBy(MyAvatar, q)
    BY DEF Shows
  <2>1. Told("MyAvatar", {"me"}, {Me.key}, {"plain"}, q)
    BY OfficeReads, OfficeKeys, Zenon DEF OfficeReading, Told, Steady
  <2>2. QED
    BY <2>1, OneTold DEF MyAvatar
<1>35. Shows(ProfileView, OfficeLists)
  <2> SUFFICES ASSUME NEW q \in OfficeLists PROVE ShownBy(ProfileView, q)
    BY DEF Shows
  <2>1. Told("ProfileView", {"password"}, {}, {"closes", "bound", "forgets"},
             q)
    BY OfficeReads, Zenon DEF OfficeReading, Told
  <2>2. QED
    BY <2>1, OneTold DEF ProfileView
<1>36. Shows(PasswordView, OfficeLists)
  <2> SUFFICES ASSUME NEW q \in OfficeLists PROVE ShownBy(PasswordView, q)
    BY DEF Shows
  <2>1. Told("PasswordView", {"password"}, {}, {"clears", "bound", "forgets"},
             q)
    BY OfficeReads, Zenon DEF OfficeReading, Told
  <2>2. QED
    BY <2>1, OneTold DEF PasswordView
<1>37. Shows(SellerComment, OfficeLists)
  <2> SUFFICES ASSUME NEW q \in OfficeLists PROVE ShownBy(SellerComment, q)
    BY DEF Shows
  <2>1. /\ <<"SellerComment", "order comments">> \in Forgotten
    BY Zenon DEF Forgotten
  <2>2. Told("SellerComment", {"comment"}, {OrderComments.key}, {"guarded",
             "clears", "on call", "keeps", "shared"}, q)
    BY OfficeReads, <2>1, OfficeNames, Zenon DEF OfficeReading, Told
  <2>3. QED
    BY <2>2, OneTold, Zenon DEF SellerComment
<1>38. Shows(ChangePasswordPage, OfficeLists)
  <2> SUFFICES ASSUME NEW q \in OfficeLists
               PROVE  ShownBy(ChangePasswordPage, q)
    BY DEF Shows
  <2>1. Told("ChangePasswordPage", {"password"}, {}, {"guarded", "closes",
             "on call", "forgets"}, q)
    BY OfficeReads, Zenon DEF OfficeReading, Told
  <2>2. QED
    BY <2>1, OneTold, Zenon DEF ChangePasswordPage
<1>39. QED
  BY <1>1, <1>2, <1>3, <1>4, <1>5, <1>6, <1>7, <1>8, <1>9, <1>10, <1>11, <1>12,
     <1>13, <1>14, <1>15, <1>16, <1>17, <1>18, <1>19, <1>20, <1>21, <1>22,
     <1>23, <1>24, <1>25, <1>26, <1>27, <1>28, <1>29, <1>30, <1>31, <1>32,
     <1>33, <1>34, <1>35, <1>36, <1>37, <1>38

\* What is shown by many lists is shown by fewer.
LEMMA ShowsFewer ==
    ASSUME NEW f, NEW S, NEW T, S \subseteq T, Shows(f, T)
    PROVE  Shows(f, S)
BY DEF Shows

\* Each dialog renews the lists that its app mounts.
LEMMA EveryApp ==
    \A a \in Apps : \A f \in FormsOf(a) : Shows(f, ListsOf(a))
<1>1. \A f \in FormsOf(PhonePages) : Shows(f, ListsOf(PhonePages))
  BY PhoneRenew DEF FormsOf, Page, PhonePages, DispatcherMobileApp,
      OrderDetailSheet, HistoryTab, CouriersTab, CourierDetailSheet, CashTab,
      ProfileSheet, CompanySettlementTab
<1>2. \A f \in FormsOf(DesktopPages) : Shows(f, ListsOf(DesktopPages))
  BY DesktopRenew DEF FormsOf, Page, DesktopPages, DispatcherDesktop,
      OrderDrawer, CashSettlementTab, CashHandovers, CashTransactionsTab,
      CompanySettlementTab
<1>3. \A f \in FormsOf(OwnerCashPages) : Shows(f, ListsOf(OwnerCashPages))
  BY OwnerCashRenew DEF FormsOf, Page, OwnerCashPages, CashHandoversPage,
      CashLedgerPanel
<1>4. \A f \in FormsOf(PeoplePages) : Shows(f, ListsOf(PeoplePages))
  BY PeopleRenew DEF FormsOf, Page, PeoplePages, TeamDirectoryPage,
      DetailPanel, DocumentsField, PayPanel, TeamProfilePage
<1>5. /\ ListsOf(StockPages \cup {PharmaciesPage, WarehousePassword})
         \subseteq OfficeLists
      /\ ListsOf(OwnerMoneyPages) \subseteq OfficeLists
      /\ ListsOf(TeamLeadPages) \subseteq OfficeLists
      /\ ListsOf(SellerPages) \subseteq OfficeLists
  BY DEF OfficeLists
<1>6. \A f \in FormsOf(StockPages \cup {PharmaciesPage, WarehousePassword}) :
          Shows(f, ListsOf(StockPages
                           \cup {PharmaciesPage, WarehousePassword}))
  <2>1. \A f \in FormsOf(StockPages \cup {PharmaciesPage, WarehousePassword}) :
            Shows(f, OfficeLists)
    BY OfficeRenew DEF FormsOf, Page, StockPages, WarehouseInventoryPage,
       WarehouseDashboard, WarehouseReceivingPage, WarehouseMovementsPage,
       WarehouseArchivePage, OwnerWarehousePage, OwnerWarehouseMobile,
       PharmaciesPage, WarehousePassword
  <2>2. QED
    BY <1>5, <2>1, ShowsFewer
<1>7. \A f \in FormsOf(OwnerMoneyPages) :
          Shows(f, ListsOf(OwnerMoneyPages))
  <2>1. \A f \in FormsOf(OwnerMoneyPages) :
            Shows(f, OfficeLists)
    BY OfficeRenew DEF FormsOf, Page, OwnerMoneyPages, BudgetCompanyPage,
       OwnerFinancePage, FinanceEventsTable, PharmaciesPage, OwnerOrdersPage,
       LogisticsPage, SellerProfileInfoPage, AccountMenu
  <2>2. QED
    BY <1>5, <2>1, ShowsFewer
<1>8. \A f \in FormsOf(SellerPages) :
          Shows(f, ListsOf(SellerPages))
  <2>1. \A f \in FormsOf(SellerPages) :
            Shows(f, OfficeLists)
    BY OfficeRenew DEF FormsOf, Page, SellerPages, SellerOrders,
       SellerProfileInfoPage, PasswordPages, PharmaciesPage
  <2>2. QED
    BY <1>5, <2>1, ShowsFewer
<1>9. \A f \in FormsOf(TeamLeadPages) : Shows(f, ListsOf(TeamLeadPages))
  <2>1. \A f \in FormsOf(TeamLeadPages) :
            f \in {TeamPayout, SellerPayout} \/ Shows(f, OfficeLists)
    BY OfficeRenew DEF FormsOf, Page, TeamLeadPages, TeamLeadFinancePage,
       TeamLeadSellerFinanceDetailPage, SellerOrders, SellerProfileInfoPage,
       PharmaciesPage
  <2>2. QED
    BY <1>5, <2>1, PayeeRenew, ShowsFewer
<1>10. \A f \in FormsOf(NewcomerPages) : Shows(f, ListsOf(NewcomerPages))
  <2>1. ListsOf(NewcomerPages) = {}
    BY DEF ListsOf, Page, NewcomerPages, Application
  <2>2. QED
    BY <2>1 DEF Shows
<1>11. QED
  BY <1>1, <1>2, <1>3, <1>4, <1>6, <1>7, <1>8, <1>9, <1>10 DEF Apps

\* So does the dialog that is looked at.
LEMMA EveryCaseShows ==
    \A c \in AllCases : c[2] = NoList \/ ShownBy(c[1], c[2])
<1> SUFFICES ASSUME NEW c \in AllCases, c[2] # NoList
             PROVE  ShownBy(c[1], c[2])
  OBVIOUS
<1>1. PICK a \in Apps : c \in (FormsOf(a) \X {NoList}) \cup Together(a)
  BY DEF AllCases
<1>2. c \in FormsOf(a) \X ListsOf(a)
  BY <1>1 DEF Together
<1>3. Shows(c[1], ListsOf(a))
  BY <1>2, EveryApp
<1>4. QED
  BY <1>2, <1>3 DEF Shows

------------------------------------------------------------------------------
\* With it, the invariant of the lists: the dialog that is named as
\* forgetting the list leaves it as it is, any other keeps it Current.
ListIInv ==
    /\ DeskIInv
    /\ <<deskForm.name, query.name>> \in Forgotten \/ Current

\* A list that is at rest on the screen shows every change whose answer this
\* client has seen, for every dialog and list of the code but the Forgotten
\* ones: whatever is left, reopened, refused or fetched around a submission of
\* the dialog, the keys that its onSuccess passes to invalidateQueries reach
\* the list.
THEOREM OwnChangesAreShown ==
    ASSUME Cases \subseteq AllCases, NoQuery = NoList
    PROVE  DeskSpec => []OwnChangesShow
<1>1. DeskInit => ListIInv
  <2> SUFFICES ASSUME DeskInit PROVE ListIInv
    OBVIOUS
  <2>1. DeskIInv
    BY TypedAtFirst, CaseRule, OnceAtFirst DEF DeskIInv, Rule
  <2>2. Current
    BY DEF DeskInit, Current, Fresh
  <2>3. QED
    BY <2>1, <2>2 DEF ListIInv
<1>2. ListIInv /\ [DeskNext]_deskVars => ListIInv'
  <2> SUFFICES ASSUME ListIInv, [DeskNext]_deskVars PROVE ListIInv'
    OBVIOUS
  <2>1. DeskIInv'
    BY DeskIInvStep DEF ListIInv
  <2>2. UNCHANGED <<deskForm, query>>
    BY CaseStays DEF ListIInv, DeskIInv
  <2>3. CASE <<deskForm.name, query.name>> \in Forgotten
    BY <2>1, <2>2, <2>3 DEF ListIInv
  <2>4. CASE <<deskForm.name, query.name>> \notin Forgotten
    <3>1. <<deskForm, query>> \in AllCases
      BY DEF ListIInv, DeskIInv
    <3>2. <<deskForm, query>>[2] = NoList
          \/ ShownBy(<<deskForm, query>>[1], <<deskForm, query>>[2])
      BY <3>1, EveryCaseShows
    <3>3. Alone \/ Renewing(deskForm, query)
      BY <2>4, <3>2 DEF Alone, ShownBy
    <3>4. CASE DeskNext
      <4>1. Current'
        BY <2>4, <3>3, <3>4, StaysCurrent DEF ListIInv, DeskIInv
      <4>2. QED
        BY <2>1, <4>1 DEF ListIInv
    <3>5. CASE UNCHANGED deskVars
      BY <2>1, <2>4, <3>5 DEF ListIInv, Current, deskVars
    <3>6. QED
      BY <3>4, <3>5
  <2>5. QED
    BY <2>3, <2>4
<1>3. ListIInv => OwnChangesShow
  BY CurrentShows DEF ListIInv, DeskIInv, OwnChangesShow
<1>4. QED
  BY <1>1, <1>2, <1>3, PTL DEF DeskSpec
==============================================================================
