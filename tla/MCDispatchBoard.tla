--------------------------- MODULE MCDispatchBoard ---------------------------
(* The dispatcher's board for TLC, and sentences about it that TLC refutes. *)
EXTENDS DispatchBoard

\* DispatcherBoardV3.jsx:368-369: a cancel is flushed, never silently dropped.
\* Refuted by signing out within the six seconds.
NeverDropped == \A b \in DOMAIN batches : batches[b].phase # "dropped"
==============================================================================
