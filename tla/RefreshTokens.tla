---------------------------- MODULE RefreshTokens ----------------------------
(* The backend's refresh tokens (internal/auth), as the two clients see      *)
(* them: a login starts a family, every refresh revokes the token that was   *)
(* presented and issues the next of its family, and a revoked token that is  *)
(* presented again revokes the family.                                       *)
(*                                                                           *)
(* A token stands for the pair the server hands out: the access token, which *)
(* stays good until it expires, and the refresh token.  Numbers are given in *)
(* the order of issue; 0 is "no token".                                      *)
EXTENDS Naturals

CONSTANT MaxToken       \* bound: how many pairs are issued in a behaviour

ASSUME MaxTokenAssumption == MaxToken \in Nat \ {0}

VARIABLES
    token,      \* token[n]: state, family, whether the access part is good
    account,    \* the account behind the tokens: active or not
    role        \* the role the account has now (a version number)

serverVars == <<token, account, role>>

Token == 1 .. MaxToken
TokenOrNone == 0 .. MaxToken

TokenRow == [state : {"unissued", "live", "revoked"}, family : TokenOrNone,
             good : BOOLEAN, role : {0, 1}]

TokensTypeOK ==
    /\ token \in [Token -> TokenRow]
    /\ account \in {"active", "inactive"}
    /\ role \in {0, 1}

NoRow == [state |-> "unissued", family |-> 0, good |-> FALSE, role |-> 0]

TokensInit ==
    /\ token = [n \in Token |->
                    IF n = 1 THEN [state |-> "live", family |-> 1,
                                   good |-> TRUE, role |-> 0]
                             ELSE NoRow]
    /\ account = "active"
    /\ role = 0

Unissued == {n \in Token : token[n].state = "unissued"}
NextId == CHOOSE n \in Unissued : \A m \in Unissued : n <= m

Issued(n, family) ==
    [state |-> "live", family |-> family, good |-> TRUE, role |-> role]

WithoutFamily(f) ==
    [n \in Token |-> IF token[n].family = f /\ token[n].state = "live"
                     THEN [token[n] EXCEPT !.state = "revoked"]
                     ELSE token[n]]

\* Login: a pair of a family of its own; an inactive account is refused.
LoginIssue ==
    /\ account = "active"
    /\ Unissued # {}
    /\ token' = [token EXCEPT ![NextId] = Issued(NextId, NextId)]
    /\ UNCHANGED <<account, role>>

\* The lookup of a refresh: a revoked token takes its family with it.
Reused(n) == n \in Token /\ token[n].state = "revoked"

RefuseReuse(n) ==
    /\ Reused(n)
    /\ token' = WithoutFamily(token[n].family)
    /\ UNCHANGED <<account, role>>

\* A refresh token whose days are over is refused and stays as it is.
RefuseExpired(n) ==
    /\ token[n].state = "live"
    /\ UNCHANGED serverVars

\* After the lookup the token that was presented is revoked.  Nothing holds
\* the row since the lookup, so this happens whatever became of it since.
Consume(n) ==
    /\ token' = [token EXCEPT ![n].state = "revoked"]
    /\ UNCHANGED <<account, role>>

\* Then the account is checked and the next pair of the family is issued,
\* with the role of now.  These are statements of their own: the family may
\* have been revoked meanwhile, and the new pair is live all the same.
Rotate(n) ==
    /\ account = "active"
    /\ Unissued # {}
    /\ token' = [token EXCEPT ![NextId] = Issued(NextId, token[n].family)]
    /\ UNCHANGED <<account, role>>

RefuseInactive(n) ==
    /\ account = "inactive"
    /\ token' = WithoutFamily(token[n].family)
    /\ UNCHANGED <<account, role>>

\* Logout at the server: every live token of the user is revoked, on whatever
\* device.  Deactivating an account does the same.
AllRevoked ==
    [n \in Token |-> IF token[n].state = "live"
                     THEN [token[n] EXCEPT !.state = "revoked"]
                     ELSE token[n]]

RevokeAll == token' = AllRevoked /\ UNCHANGED <<account, role>>

\* What the middleware makes of the access token a request carries: 401 when
\* it is missing, expired or of an inactive account, 403 when the role in it
\* is not the one the endpoint asks for.
Verdict(n) ==
    IF n = 0 \/ account = "inactive" THEN "401"
    ELSE IF ~token[n].good THEN "401"
    ELSE IF token[n].role # role THEN "403" ELSE "200"

\* Time passes: every access token handed out so far expires.
AccessExpires ==
    /\ \E n \in Token : token[n].good
    /\ token' = [n \in Token |-> [token[n] EXCEPT !.good = FALSE]]
    /\ UNCHANGED <<account, role>>

\* The office changes the account: another role,
ChangeRole == role = 0 /\ role' = 1 /\ UNCHANGED <<token, account>>

\* or deactivation, which revokes its tokens.
Deactivate ==
    /\ account = "active"
    /\ account' = "inactive"
    /\ token' = AllRevoked
    /\ UNCHANGED role

\* The pair a session should hold: the newest that was issued to it.
Newest == IF Unissued = {} THEN MaxToken
          ELSE IF NextId = 1 THEN 0 ELSE NextId - 1
==============================================================================
