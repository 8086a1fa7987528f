------------------------------ MODULE MCLogin ------------------------------
(* Instance of Login for TLC. *)
EXTENDS Login

\* The initiator's values are below, at and above the target's; the default of
\* the receive limit is below the target's.
MCTargetParams == [k \in Keys |-> 2]
MCDefaults     == [MCTargetParams EXCEPT ![RecvKey] = 1]
=============================================================================
