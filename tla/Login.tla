------------------------------- MODULE Login -------------------------------
(***************************************************************************)
(* The login phase of one connection: internal/iscsi/login.go, chap.go and *)
(* params.go, up to the point where server.go's handleConnection creates   *)
(* the session (Connection starts there), and data_in.go, which splits     *)
(* read data by a negotiated limit.                                        *)
(*                                                                         *)
(* The initiator is external and keeps to the protocol: it has one request *)
(* outstanding, begins with security or with operational negotiation (the  *)
(* target takes either, with authentication configured or not), follows    *)
(* the stage the target announces, offers a key at most once, and closes   *)
(* the connection when it is refused.  Requests and responses are in       *)
(* flight for a while, and the connection can break at any time.           *)
(*                                                                         *)
(* Every operational key is negotiated to the smaller or the larger of the *)
(* two sides' values; with No below Yes, AND is the smaller and OR the     *)
(* larger.  Keys without a choice (names, digests) are left out.  A CHAP   *)
(* response is right or wrong.                                             *)
(*                                                                         *)
(* For a key it does not offer an initiator assumes the protocol's default *)
(* value.  The target assumes its own, which params.go says are the same;  *)
(* MaxRecvDataSegmentLength is not (65536 there, 8192 in RFC 7143), so the *)
(* properties speak of it only where it was offered.                       *)
(***************************************************************************)
EXTENDS Integers, FiniteSets

CONSTANTS
  MinKeys,       \* MaxRecvDataSegmentLength, MaxBurstLength, ImmediateData, ...
  MaxKeys,       \* DefaultTime2Wait, InitialR2T, DataPDUInOrder, ...
  RecvKey,       \* MaxRecvDataSegmentLength itself
  Values,        \* what an initiator may offer
  TargetParams,  \* DefaultTargetParams
  Defaults,      \* what an initiator takes for agreed without asking
  MaxRead,       \* longest READ
  SNBits         \* width of StatSN, 32 in the code

Keys == MinKeys \union MaxKeys

ASSUME LoginAssumption ==
  /\ MinKeys \intersect MaxKeys = {}
  /\ RecvKey \in MinKeys
  /\ Values \subseteq Nat \ {0}
  /\ {TargetParams, Defaults} \subseteq [Keys -> Nat \ {0}]
  /\ \A k \in Keys \ {RecvKey} : Defaults[k] = TargetParams[k]
  /\ MaxRead \in Nat
  /\ SNBits \in Nat \ {0}

VARIABLES
  auth,      \* cfg.Target.Auth.Enabled
  knows,     \* whether the initiator has the right secret
  wants,     \* the value the initiator would offer for each key
  h,         \* the target's loginHandler
  ini,       \* the initiator's state
  wire       \* the PDU in flight

vars == <<auth, knows, wants, h, ini, wire>>

Security    == 0
Operational == 1
FullFeature == 3

Nothing == [pdu |-> "none"]
NoKV    == << >>        \* no key=value pairs

-----------------------------------------------------------------------------
(* params.go *)

\* A mutant of Negotiate: the initiator's value is taken for every key.
NegotiateTheirs(kv, target) ==
  [k \in Keys |-> IF k \in DOMAIN kv THEN kv[k] ELSE target[k]]

Smaller(a, b) == IF a < b THEN a ELSE b
Larger(a, b)  == IF a > b THEN a ELSE b

\* The parameters after the initiator's pairs kv met the target's.
Negotiate(kv, target) ==
  [k \in Keys |->
     IF k \notin DOMAIN kv THEN target[k]
     ELSE IF k \in MinKeys THEN Smaller(kv[k], target[k]) ELSE Larger(kv[k], target[k])]

\* The pairs of the response: every key that was offered, with its result.
Answers(kv, negotiated) == [k \in DOMAIN kv |-> negotiated[k]]

-----------------------------------------------------------------------------
(* login.go *)

\* A mutant of EntersStage: security negotiation always leads to operational.
EntersStageOneByOne(stage, csg, nsg, T) ==
  IF T /\ csg = Security THEN Operational
  ELSE IF T /\ nsg = FullFeature THEN FullFeature ELSE stage

\* h.currentStage after a response with these stages.
EntersStage(stage, csg, nsg, T) ==
  IF T /\ nsg = FullFeature THEN FullFeature
  ELSE IF T /\ csg = Security /\ nsg = Operational THEN Operational
  ELSE stage

nextStatSN == (h.statSN + 1) % 2^SNBits

\* sendLoginResponse, g being the handler with what its caller has set.
sendLoginResponse(g, ok, csg, nsg, T, kv, challenge) ==
  /\ h' = [g EXCEPT !.stage = EntersStage(g.stage, csg, nsg, T), !.statSN = nextStatSN]
  /\ wire' = [pdu |-> "response", ok |-> ok, csg |-> csg, nsg |-> nsg, T |-> T,
              kv |-> kv, challenge |-> challenge, statSN |-> nextStatSN]
  /\ UNCHANGED <<auth, knows, wants, ini>>

\* The loop of Run goes on after an error response.
sendLoginError == sendLoginResponse(h, FALSE, h.stage, h.stage, FALSE, NoKV, FALSE)

\* Run reads a Login Request whose CSG is csg.
Reads(csg) == h.running /\ wire.pdu = "request" /\ wire.csg = csg

\* No authentication: accept, and move on if asked to.
AcceptWithoutAuth ==
  /\ Reads(Security) /\ ~auth
  /\ sendLoginResponse(h, TRUE, Security,
       IF wire.T /\ wire.nsg = FullFeature THEN FullFeature ELSE Operational,
       wire.T, NoKV, FALSE)

\* The first request gets the challenge, whatever it contains.
SendChallenge ==
  /\ Reads(Security) /\ auth /\ ~h.challenged
  /\ sendLoginResponse([h EXCEPT !.challenged = TRUE], TRUE, Security, Security, FALSE,
                       NoKV, TRUE)

\* A mutant of VerifyResponse: a wrong answer is dropped in silence.
VerifyResponseSilent ==
  /\ Reads(Security) /\ auth /\ h.challenged
  /\ wire.chap = "right"
  /\ sendLoginResponse(h, TRUE, Security, Operational, TRUE, NoKV, FALSE)

\* The second must answer it.  The target moves on to operational negotiation.
VerifyResponse ==
  /\ Reads(Security) /\ auth /\ h.challenged
  /\ IF wire.chap = "right"
     THEN sendLoginResponse(h, TRUE, Security, Operational, TRUE, NoKV, FALSE)
     ELSE sendLoginError

\* Negotiation goes on from what earlier requests have settled.
handleOperationalStage ==
  /\ Reads(Operational)
  /\ LET n == Negotiate(wire.kv, h.negotiated)
     IN sendLoginResponse([h EXCEPT !.negotiated = n], TRUE, Operational,
          IF wire.T THEN wire.nsg ELSE Operational, wire.T, Answers(wire.kv, n), FALSE)

\* Run returns: the login is over.
RunReturns ==
  /\ h.running /\ h.stage = FullFeature
  /\ h' = [h EXCEPT !.running = FALSE]
  /\ UNCHANGED <<auth, knows, wants, ini, wire>>

\* ReadPDU fails, and the connection is closed on this side too.
RunFails ==
  /\ h.running /\ h.stage # FullFeature /\ wire.pdu = "closed"
  /\ h' = [h EXCEPT !.running = FALSE, !.failed = TRUE]
  /\ UNCHANGED <<auth, knows, wants, ini, wire>>

-----------------------------------------------------------------------------
(* The initiator *)

Send(csg, T, nsg, kv, chap) ==
  /\ wire' = [pdu |-> "request", csg |-> csg, T |-> T, nsg |-> nsg, kv |-> kv, chap |-> chap]
  /\ ini' = [ini EXCEPT !.st = "waiting", !.offered = @ \union DOMAIN kv,
                        !.hello = TRUE]
  /\ UNCHANGED <<auth, knows, wants, h>>

Ready(stage) == ini.st = "ready" /\ ini.stage = stage

\* Its first request, or, without authentication, the one that leaves the stage:
\* T is clear on at most one request that offers nothing.
SendSecurity ==
  /\ Ready(Security) /\ ~ini.challenged
  /\ \E T \in BOOLEAN, nsg \in {Operational, FullFeature} :
       /\ T \/ ~ini.hello
       /\ ~T => nsg = Operational
       /\ Send(Security, T, nsg, NoKV, "none")

SendCHAP ==
  /\ Ready(Security) /\ ini.challenged
  /\ \E nsg \in {Operational, FullFeature} :
       Send(Security, TRUE, nsg, NoKV, IF knows THEN "right" ELSE "wrong")

\* Some of the keys it has not offered yet; the last request asks to move on.
SendOperational ==
  /\ Ready(Operational) \/ (Ready(Security) /\ ~ini.hello)
  /\ \E offer \in SUBSET (Keys \ ini.offered), T \in BOOLEAN :
       /\ T \/ offer # {}
       /\ Send(Operational, T, IF T THEN FullFeature ELSE Operational,
               [k \in offer |-> wants[k]], "none")

\* A response: the initiator takes over the results and the stage.
Receive ==
  /\ wire.pdu = "response"
  /\ ini' = [ini EXCEPT
       !.st = IF ~wire.ok THEN "closed"
              ELSE IF wire.T /\ wire.nsg = FullFeature THEN "full" ELSE "ready",
       !.stage = IF wire.ok /\ wire.T THEN wire.nsg ELSE wire.csg,
       !.params = [k \in Keys |-> IF k \in DOMAIN wire.kv THEN wire.kv[k] ELSE @[k]],
       !.challenged = @ \/ wire.challenge,
       !.seen = wire.statSN]
  /\ wire' = IF wire.ok THEN Nothing ELSE [pdu |-> "closed"]
  /\ UNCHANGED <<auth, knows, wants, h>>

\* The connection breaks during login.
Break ==
  /\ ini.st \in {"ready", "waiting"}
  /\ ini' = [ini EXCEPT !.st = "closed"]
  /\ wire' = [pdu |-> "closed"]
  /\ UNCHANGED <<auth, knows, wants, h>>

-----------------------------------------------------------------------------
(* data_in.go: the Data-In PDUs of a READ of n blocks.                     *)

\* A mutant of DataEnd: a PDU holds one block more.
DataEndLong(off, n, m) == IF off + m + 1 > n THEN n ELSE off + m + 1

\* Where the PDU that starts at block off ends.
DataEnd(off, n, m) == IF off + m > n THEN n ELSE off + m

\* The offsets PDUs start at, in order, and the PDU at each; even an empty READ
\* gets one.
sendDataIn(n, m) ==
  {[dataSN |-> i, off |-> i * m, end |-> DataEnd(i * m, n, m),
    F |-> DataEnd(i * m, n, m) = n] :
     i \in {j \in 0 .. n : j * m < n \/ j = 0}}

-----------------------------------------------------------------------------
Init ==
  /\ auth \in BOOLEAN
  /\ knows \in BOOLEAN
  /\ wants \in [Keys -> Values]
  /\ h = [stage |-> Security, negotiated |-> TargetParams, challenged |-> FALSE,
          statSN |-> 0, running |-> TRUE, failed |-> FALSE]
  /\ ini = [st |-> "ready", stage |-> Security, params |-> Defaults, offered |-> {},
            challenged |-> FALSE, hello |-> FALSE, seen |-> 0]
  /\ wire = Nothing

Target    == \/ AcceptWithoutAuth \/ SendChallenge \/ VerifyResponse
             \/ handleOperationalStage \/ RunReturns \/ RunFails
Initiator == SendSecurity \/ SendCHAP \/ SendOperational \/ Receive

Next == Target \/ Initiator \/ Break

\* The goroutine of the connection runs, and an initiator that has begun a login
\* goes on with it.  Nothing makes the connection break.
Spec == Init /\ [][Next]_vars /\ WF_vars(Target) /\ WF_vars(Initiator)

-----------------------------------------------------------------------------
(* Properties *)

Established == ini.st = "full" /\ ~h.running

\* The two sides' values of a key.
Sides(k) == {TargetParams[k]} \union (IF k \in ini.offered THEN {wants[k]} ELSE {})

\* The smallest or the largest of them, as the key's kind has it.
Outcome(k) ==
  CHOOSE v \in Sides(k) : \A u \in Sides(k) : IF k \in MinKeys THEN v <= u ELSE v >= u

\* REQ-ISCSI-05: once the login is over both sides use the same parameters, and
\* they are what the rules make of the two sides' values, however the keys were
\* spread over requests.
ParamsAgree ==
  Established =>
    \A k \in ini.offered \union (Keys \ {RecvKey}) :
      h.negotiated[k] = ini.params[k] /\ ini.params[k] = Outcome(k)

\* The target is in the full feature phase when the initiator is, and when a
\* request of the login is still to come it is not; and the StatSN it goes on
\* from is the last one the initiator has seen.
StagesAgree ==
  /\ ini.st = "full" => h.stage = FullFeature /\ h.statSN = ini.seen
  /\ ini.st = "ready" => h.stage # FullFeature /\ h.statSN = ini.seen

\* A READ's data comes in PDUs that follow one another without gap or overlap,
\* numbered in that order, the last and only the last with F; and none is longer
\* than the initiator said it can take.
DataInFits ==
  Established =>
    \A n \in 0 .. MaxRead :
      LET pdus == sendDataIn(n, h.negotiated[RecvKey])
      IN /\ UNION {p.off + 1 .. p.end : p \in pdus} = 1 .. n
         /\ \A p, q \in pdus : p.dataSN < q.dataSN => p.end <= q.off /\ ~p.F
         /\ \E p \in pdus : p.F
         /\ RecvKey \in ini.offered => \A p \in pdus : p.end - p.off <= wants[RecvKey]

\* Neither side waits for the other for ever: the login succeeds, is refused, or
\* the connection is closed, on both sides.
LoginEnds == <>(ini.st \in {"full", "closed"} /\ ~h.running)
=============================================================================
