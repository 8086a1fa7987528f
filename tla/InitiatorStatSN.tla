-------------------------- MODULE InitiatorStatSN --------------------------
(***************************************************************************)
(* An initiator that counts StatSN beside Connection.  RFC 7143 has the    *)
(* StatSN of a connection advance with every response; an R2T carries the  *)
(* next number without using it up.  server_test.go counts so: from a      *)
(* WRITE to the next command its ExpStatSN grows by one, whether or not an *)
(* R2T came in between.                                                    *)
(***************************************************************************)
EXTENDS Connection

VARIABLE expStatSN   \* the number each initiator expects the next response to carry

After(sn) == (sn + 1) % 2^SNBits

\* The PDU the target sends in this step is an R2T.
R2TSent(c) == \E t \in Tags : task[c][t].st = "idle" /\ task'[c][t].st = "data"

\* The initiator of c after this step.
Expects(c) ==
  CASE phase'[c] # "up"                        -> 0
    [] phase'[c] = "up" /\ phase[c] # "up"     -> After(seen'[c])
    [] phase'[c] = "up" /\ phase[c] = "up"     ->
         IF seen'[c] # seen[c] /\ ~ R2TSent(c) THEN After(expStatSN[c]) ELSE expStatSN[c]

Observe == expStatSN' = [c \in Conns |-> Expects(c)]

ISpec ==
  /\ Init /\ expStatSN = [c \in Conns |-> 0]
  /\ [][Next /\ Observe]_<<vars, expStatSN>>

\* server_test.go on ExpStatSN: on a connection that is up, the target numbers
\* its next response as the initiator expects.
StatusInStep == \A c \in Conns : phase[c] = "up" => nextStatSN(c) = expStatSN[c]
=============================================================================
