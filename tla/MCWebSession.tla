---------------------------- MODULE MCWebSession -----------------------------
(* A small instance of WebSession for TLC.                                   *)
EXTENDS WebSession

CONSTANTS t1, t2, q1

------------------------------------------------------------------------------
(* A sentence of the code that TLC refutes, in the run WebSession_crossed.   *)

\* The lock covers other tabs, so that rotation does not look like reuse
\* (client.js, above refreshPromise): no refresh presents a token that was
\* revoked.
LockCoversTabs ==
    \A t \in Tab : refresh[t].pc = "asked"
        => token[refresh[t].old].state = "live"
==============================================================================
