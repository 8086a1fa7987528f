---------------------------- MODULE LoginProofs ----------------------------
(***************************************************************************)
(* The login phase, proved for any keys, any values of the two sides, any  *)
(* way of spreading the keys over requests, and reads of any length.       *)
(***************************************************************************)
EXTENDS Login, WellFoundedInduction, TLAPS

-----------------------------------------------------------------------------
(* The invariant                                                           *)

\* What a key has come to when the keys in S have been negotiated.
Settled(k, S) ==
  IF k \notin S THEN TargetParams[k]
  ELSE IF k \in MinKeys THEN Smaller(wants[k], TargetParams[k])
  ELSE Larger(wants[k], TargetParams[k])

Underway == wire.pdu \in {"request", "response"}

\* The keys of the PDU in flight.
InFlight == IF Underway THEN DOMAIN wire.kv ELSE {}

\* The fields of the two sides.
Shapes ==
  /\ h = [stage |-> h.stage, negotiated |-> h.negotiated, challenged |-> h.challenged,
          statSN |-> h.statSN, running |-> h.running, failed |-> h.failed]
  /\ ini = [st |-> ini.st, stage |-> ini.stage, params |-> ini.params, offered |-> ini.offered,
            challenged |-> ini.challenged, hello |-> ini.hello, seen |-> ini.seen]
  /\ wants \in [Keys -> Values]

\* Where the PDU is when the initiator is in a state, and where the target is then.
Phase ==
  /\ \/ ini.st \in {"ready", "full"} /\ wire.pdu = "none"
     \/ ini.st = "waiting" /\ Underway
     \/ ini.st = "closed" /\ wire.pdu = "closed"
  /\ ini.st = "ready" => h.stage # FullFeature /\ h.statSN = ini.seen
  /\ ini.st = "full" => h.stage = FullFeature /\ h.statSN = ini.seen
  /\ wire.pdu = "request" => h.stage # FullFeature
  /\ wire.pdu = "response" =>
       /\ wire.statSN = h.statSN
       /\ h.stage = FullFeature <=> wire.ok /\ wire.T /\ wire.nsg = FullFeature

\* The keys in flight have been offered and were not before; the rest of what was
\* offered is settled on both sides.
Params ==
  /\ ini.offered \subseteq Keys /\ InFlight \subseteq ini.offered
  /\ wire.pdu = "request" =>
       /\ \A k \in DOMAIN wire.kv : wire.kv[k] = wants[k]
       /\ wire.csg = Security => DOMAIN wire.kv = {}
       /\ \A k \in Keys : h.negotiated[k] = Settled(k, ini.offered \ InFlight)
  /\ wire.pdu = "response" => \A k \in DOMAIN wire.kv : wire.kv[k] = h.negotiated[k]
  /\ wire.pdu \in {"response", "none"} =>
       \A k \in Keys : h.negotiated[k] = Settled(k, ini.offered)
  /\ wire.pdu # "closed" => \A k \in Keys :
       ini.params[k] = IF k \in ini.offered \ InFlight THEN h.negotiated[k] ELSE Defaults[k]

LoginInv == Shapes /\ Phase /\ Params

-----------------------------------------------------------------------------
(* The target                                                              *)

\* A response that settles what was in flight, or answers a request without keys.
LEMMA Responds ==
  ASSUME LoginInv, wire.pdu = "request",
         NEW g, NEW ok, NEW csg, NEW nsg, NEW T, NEW kv, NEW challenge,
         sendLoginResponse(g, ok, csg, nsg, T, kv, challenge),
         g = [stage |-> g.stage, negotiated |-> g.negotiated, challenged |-> g.challenged,
              statSN |-> g.statSN, running |-> g.running, failed |-> g.failed],
         g.stage = h.stage,
         ok \/ ~ (T /\ nsg = FullFeature),
         DOMAIN kv = DOMAIN wire.kv, \A k \in DOMAIN kv : kv[k] = g.negotiated[k],
         \A k \in Keys : g.negotiated[k] = Settled(k, ini.offered),
         \A k \in Keys \ DOMAIN kv : g.negotiated[k] = h.negotiated[k]
  PROVE  LoginInv'
<1>1. /\ h' = [g EXCEPT !.stage = EntersStage(g.stage, csg, nsg, T), !.statSN = nextStatSN]
      /\ wire' = [pdu |-> "response", ok |-> ok, csg |-> csg, nsg |-> nsg, T |-> T,
                  kv |-> kv, challenge |-> challenge, statSN |-> nextStatSN]
      /\ UNCHANGED <<auth, knows, wants, ini>>
  BY DEF sendLoginResponse
<1>2. /\ h' = [stage |-> EntersStage(g.stage, csg, nsg, T), negotiated |-> g.negotiated,
               challenged |-> g.challenged, statSN |-> nextStatSN, running |-> g.running,
               failed |-> g.failed]
  BY <1>1
<1>3. /\ h'.stage = EntersStage(g.stage, csg, nsg, T) /\ h'.negotiated = g.negotiated
      /\ h'.statSN = nextStatSN
  BY <1>2
<1>4. /\ wire'.pdu = "response" /\ wire'.ok = ok /\ wire'.nsg = nsg /\ wire'.T = T
      /\ wire'.kv = kv /\ wire'.statSN = nextStatSN
  BY <1>1
<1>5. Shapes'
  <2>1. h' = [stage |-> h'.stage, negotiated |-> h'.negotiated, challenged |-> h'.challenged,
              statSN |-> h'.statSN, running |-> h'.running, failed |-> h'.failed]
    BY <1>2
  <2>2. QED
    BY <1>1, <2>1 DEF LoginInv, Shapes
<1>6. Phase'
  <2>1. ini.st = "waiting" /\ h.stage # FullFeature
    BY DEF LoginInv, Phase, Underway
  <2>2. h'.stage = FullFeature <=> T /\ nsg = FullFeature
    BY <1>3, <2>1 DEF EntersStage, FullFeature, Operational, Security
  <2>3. h'.stage = FullFeature <=> wire'.ok /\ wire'.T /\ wire'.nsg = FullFeature
    BY <1>4, <2>2
  <2>4. /\ wire'.pdu = "response" /\ ini'.st = "waiting" /\ Underway'
        /\ wire'.statSN = h'.statSN
        /\ ini'.st \notin {"ready", "full"} /\ wire'.pdu # "request"
    BY <1>1, <1>3, <1>4, <2>1 DEF Underway
  <2>5. QED
    BY <2>3, <2>4 DEF Phase
<1>7. Params'
  <2>1. InFlight' = InFlight /\ InFlight = DOMAIN kv /\ ini' = ini
    BY <1>1, <1>4 DEF InFlight, Underway
  <2>2. \A k \in Keys : Settled(k, ini.offered)' = Settled(k, ini.offered)
    BY <1>1 DEF Settled
  <2>3. \A k \in Keys : h'.negotiated[k] = Settled(k, ini.offered)'
    BY <1>3, <2>2
  <2>4. \A k \in Keys :
          ini.params[k] = IF k \in ini.offered \ InFlight THEN h'.negotiated[k] ELSE Defaults[k]
    BY <1>3, <2>1 DEF LoginInv, Params
  <2>5. ini.offered \subseteq Keys /\ InFlight \subseteq ini.offered
    BY DEF LoginInv, Params
  <2>6. \A k \in DOMAIN wire'.kv : wire'.kv[k] = h'.negotiated[k]
    BY <1>3, <1>4
  <2>7. QED
    BY <1>4, <2>1, <2>3, <2>4, <2>5, <2>6 DEF Params
<1>8. QED
  BY <1>5, <1>6, <1>7 DEF LoginInv

LEMMA ChallengedShape ==
  ASSUME NEW b, h = [stage |-> h.stage, negotiated |-> h.negotiated, challenged |-> h.challenged,
                     statSN |-> h.statSN, running |-> h.running, failed |-> h.failed]
  PROVE  LET g == [h EXCEPT !.challenged = b]
         IN /\ g.stage = h.stage /\ g.negotiated = h.negotiated
            /\ g = [stage |-> g.stage, negotiated |-> g.negotiated, challenged |-> g.challenged,
                    statSN |-> g.statSN, running |-> g.running, failed |-> g.failed]
  OBVIOUS

\* Nothing is negotiated in the security stage.
LEMMA SecuritySettles ==
  ASSUME LoginInv, wire.pdu = "request", wire.csg = Security
  PROVE  DOMAIN wire.kv = {} /\ \A k \in Keys : h.negotiated[k] = Settled(k, ini.offered)
<1>1. DOMAIN wire.kv = {} /\ InFlight = {}
  BY DEF LoginInv, Params, InFlight, Underway
<1>2. ini.offered \ InFlight = ini.offered
  BY <1>1
<1>3. QED
  BY <1>1, <1>2 DEF LoginInv, Params

LEMMA SecurityResponds ==
  ASSUME LoginInv, AcceptWithoutAuth \/ SendChallenge \/ VerifyResponse
  PROVE  LoginInv'
<1>1. wire.pdu = "request" /\ wire.csg = Security
  BY DEF AcceptWithoutAuth, SendChallenge, VerifyResponse, Reads
<1>2. DOMAIN wire.kv = {} /\ \A k \in Keys : h.negotiated[k] = Settled(k, ini.offered)
  BY <1>1, SecuritySettles
<1>3. DOMAIN NoKV = {}
  BY DEF NoKV
<1>4. h = [stage |-> h.stage, negotiated |-> h.negotiated, challenged |-> h.challenged,
           statSN |-> h.statSN, running |-> h.running, failed |-> h.failed]
  BY DEF LoginInv, Shapes
<1>5. CASE AcceptWithoutAuth
  <2> DEFINE nsg == IF wire.T /\ wire.nsg = FullFeature THEN FullFeature ELSE Operational
  <2>1. sendLoginResponse(h, TRUE, Security, nsg, wire.T, NoKV, FALSE)
    BY <1>5 DEF AcceptWithoutAuth
  <2> HIDE DEF nsg
  <2>2. QED
    BY <1>1, <1>2, <1>3, <1>4, <2>1, Responds
<1>6. CASE SendChallenge
  <2> DEFINE g == [h EXCEPT !.challenged = TRUE]
  <2>1. sendLoginResponse(g, TRUE, Security, Security, FALSE, NoKV, TRUE)
    BY <1>6 DEF SendChallenge
  <2>2. /\ g.stage = h.stage /\ g.negotiated = h.negotiated
        /\ g = [stage |-> g.stage, negotiated |-> g.negotiated, challenged |-> g.challenged,
                statSN |-> g.statSN, running |-> g.running, failed |-> g.failed]
    BY <1>4, ChallengedShape
  <2> HIDE DEF g
  <2>3. QED
    BY <1>1, <1>2, <1>3, <2>1, <2>2, Responds
<1>7. CASE VerifyResponse
  <2>1. CASE wire.chap = "right"
    <3>1. sendLoginResponse(h, TRUE, Security, Operational, TRUE, NoKV, FALSE)
      BY <1>7, <2>1 DEF VerifyResponse
    <3>2. QED
      BY <1>1, <1>2, <1>3, <1>4, <3>1, Responds
  <2>2. CASE wire.chap # "right"
    <3>1. sendLoginResponse(h, FALSE, h.stage, h.stage, FALSE, NoKV, FALSE)
      BY <1>7, <2>2 DEF VerifyResponse, sendLoginError
    <3>2. QED
      BY <1>1, <1>2, <1>3, <1>4, <3>1, Responds
  <2>3. QED
    BY <2>1, <2>2
<1>8. QED
  BY <1>5, <1>6, <1>7

\* Taking the smaller or the larger once for each key settles the keys in flight.
LEMMA NegotiateSettles ==
  ASSUME LoginInv, wire.pdu = "request"
  PROVE  LET n == Negotiate(wire.kv, h.negotiated)
         IN /\ \A k \in Keys : n[k] = Settled(k, ini.offered)
            /\ \A k \in Keys \ DOMAIN wire.kv : n[k] = h.negotiated[k]
            /\ DOMAIN n = Keys /\ DOMAIN wire.kv \subseteq Keys
<1> DEFINE n == Negotiate(wire.kv, h.negotiated)
<1>1. /\ DOMAIN wire.kv = InFlight /\ InFlight \subseteq ini.offered /\ ini.offered \subseteq Keys
      /\ \A k \in InFlight : wire.kv[k] = wants[k]
      /\ \A k \in Keys : h.negotiated[k] = Settled(k, ini.offered \ InFlight)
  BY DEF LoginInv, Params, InFlight, Underway
<1>2. ASSUME NEW k \in Keys PROVE n[k] = Settled(k, ini.offered)
  <2>1. CASE k \notin InFlight
    <3>1. n[k] = h.negotiated[k] /\ (k \in ini.offered \ InFlight <=> k \in ini.offered)
      BY <1>1, <2>1 DEF Negotiate
    <3>2. QED
      BY <1>1, <3>1 DEF Settled
  <2>2. CASE k \in InFlight
    <3>1. h.negotiated[k] = TargetParams[k]
      BY <1>1, <2>2 DEF Settled
    <3>2. QED
      BY <1>1, <2>2, <3>1 DEF Negotiate, Settled
  <2>3. QED
    BY <2>1, <2>2
<1>3. \A k \in Keys \ DOMAIN wire.kv : n[k] = h.negotiated[k]
  BY DEF Negotiate
<1>4. DOMAIN n = Keys
  BY DEF Negotiate
<1>5. QED
  BY <1>1, <1>2, <1>3, <1>4

LEMMA OperationalResponds ==
  ASSUME LoginInv, handleOperationalStage
  PROVE  LoginInv'
<1> DEFINE n == Negotiate(wire.kv, h.negotiated)
           g == [h EXCEPT !.negotiated = n]
           kv == Answers(wire.kv, n)
           nsg == IF wire.T THEN wire.nsg ELSE Operational
<1>1. /\ wire.pdu = "request"
      /\ sendLoginResponse(g, TRUE, Operational, nsg, wire.T, kv, FALSE)
  BY DEF handleOperationalStage, Reads
<1>2. /\ \A k \in Keys : n[k] = Settled(k, ini.offered)
      /\ \A k \in Keys \ DOMAIN wire.kv : n[k] = h.negotiated[k]
      /\ DOMAIN wire.kv \subseteq Keys
  BY <1>1, NegotiateSettles
<1>3. DOMAIN kv = DOMAIN wire.kv /\ \A k \in DOMAIN kv : kv[k] = n[k]
  BY DEF Answers
<1>4. h = [stage |-> h.stage, negotiated |-> h.negotiated, challenged |-> h.challenged,
           statSN |-> h.statSN, running |-> h.running, failed |-> h.failed]
  BY DEF LoginInv, Shapes
<1> HIDE DEF n, kv, nsg
<1>5. /\ g.stage = h.stage /\ g.negotiated = n
      /\ g = [stage |-> g.stage, negotiated |-> g.negotiated, challenged |-> g.challenged,
              statSN |-> g.statSN, running |-> g.running, failed |-> g.failed]
  BY <1>4
<1> HIDE DEF g
<1>6. /\ \A k \in DOMAIN kv : kv[k] = g.negotiated[k]
      /\ \A k \in Keys : g.negotiated[k] = Settled(k, ini.offered)
      /\ \A k \in Keys \ DOMAIN kv : g.negotiated[k] = h.negotiated[k]
  BY <1>2, <1>3, <1>5
<1>7. QED
  BY <1>1, <1>3, <1>5, <1>6, Responds

LEMMA RunEnds ==
  ASSUME LoginInv, RunReturns \/ RunFails
  PROVE  LoginInv'
<1>1. UNCHANGED <<wants, ini, wire>>
  BY DEF RunReturns, RunFails
<1>2. h = [stage |-> h.stage, negotiated |-> h.negotiated, challenged |-> h.challenged,
           statSN |-> h.statSN, running |-> h.running, failed |-> h.failed]
  BY DEF LoginInv, Shapes
<1>3. h' = [h EXCEPT !.running = FALSE] \/ h' = [h EXCEPT !.running = FALSE, !.failed = TRUE]
  BY DEF RunReturns, RunFails
<1>4. /\ h'.stage = h.stage /\ h'.negotiated = h.negotiated /\ h'.statSN = h.statSN
      /\ h' = [stage |-> h'.stage, negotiated |-> h'.negotiated, challenged |-> h'.challenged,
               statSN |-> h'.statSN, running |-> h'.running, failed |-> h'.failed]
  BY <1>2, <1>3
<1>5. Shapes'
  BY <1>1, <1>4 DEF LoginInv, Shapes
<1>6. Phase'
  BY <1>1, <1>4 DEF LoginInv, Phase, Underway
<1>7. Params'
  BY <1>1, <1>4 DEF LoginInv, Params, InFlight, Underway, Settled
<1>8. QED
  BY <1>5, <1>6, <1>7 DEF LoginInv

-----------------------------------------------------------------------------
(* The initiator                                                           *)

\* A request offers keys that were not offered before.
LEMMA SendKeeps ==
  ASSUME LoginInv, ini.st = "ready", NEW csg, NEW T, NEW nsg, NEW kv, NEW chap,
         Send(csg, T, nsg, kv, chap),
         DOMAIN kv \subseteq Keys \ ini.offered, \A k \in DOMAIN kv : kv[k] = wants[k],
         csg = Security => DOMAIN kv = {}
  PROVE  LoginInv'
<1>1. /\ wire' = [pdu |-> "request", csg |-> csg, T |-> T, nsg |-> nsg, kv |-> kv, chap |-> chap]
      /\ ini' = [ini EXCEPT !.st = "waiting", !.offered = ini.offered \union DOMAIN kv,
                            !.hello = TRUE]
      /\ UNCHANGED <<wants, h>>
  BY DEF Send
<1>2. wire'.pdu = "request" /\ wire'.csg = csg /\ wire'.kv = kv
  BY <1>1
<1>3. /\ ini'.st = "waiting" /\ ini'.offered = ini.offered \union DOMAIN kv
      /\ ini'.params = ini.params
      /\ ini' = [st |-> ini'.st, stage |-> ini'.stage, params |-> ini'.params,
                 offered |-> ini'.offered, challenged |-> ini'.challenged, hello |-> ini'.hello,
                 seen |-> ini'.seen]
  BY <1>1 DEF LoginInv, Shapes
<1>4. Shapes'
  BY <1>1, <1>3 DEF LoginInv, Shapes
<1>5. wire.pdu = "none" /\ h.stage # FullFeature
  BY DEF LoginInv, Phase
<1>6. Phase'
  BY <1>1, <1>2, <1>3, <1>5 DEF Phase, Underway
<1>7. Params'
  <2>1. InFlight = {} /\ InFlight' = DOMAIN kv
    BY <1>2, <1>5 DEF InFlight, Underway
  <2>2. ini'.offered \ InFlight' = ini.offered /\ ini.offered \ InFlight = ini.offered
    BY <1>3, <2>1
  <2>3. ini.offered \subseteq Keys /\ ini'.offered \subseteq Keys /\ InFlight' \subseteq ini'.offered
    BY <1>3, <2>1 DEF LoginInv, Params
  <2>4. \A k \in Keys : Settled(k, ini.offered \ InFlight)' = Settled(k, ini.offered)
    BY <1>1, <2>2 DEF Settled
  <2>5. \A k \in Keys : h.negotiated[k] = Settled(k, ini.offered)
    BY <1>5 DEF LoginInv, Params
  <2>6. \A k \in Keys : ini.params[k] = IF k \in ini.offered THEN h.negotiated[k] ELSE Defaults[k]
    BY <1>5, <2>2 DEF LoginInv, Params
  <2>7. \A k \in DOMAIN wire'.kv : wire'.kv[k] = wants'[k]
    BY <1>1, <1>2
  <2>8. \A k \in Keys : h'.negotiated[k] = Settled(k, ini.offered \ InFlight)'
    BY <1>1, <2>4, <2>5
  <2>9. \A k \in Keys :
          ini'.params[k] = IF k \in ini'.offered \ InFlight' THEN h'.negotiated[k] ELSE Defaults[k]
    BY <1>1, <1>3, <2>2, <2>6
  <2>10. wire'.csg = Security => DOMAIN wire'.kv = {}
    BY <1>2
  <2>11. QED
    BY <1>2, <2>3, <2>7, <2>8, <2>9, <2>10 DEF Params
<1>8. QED
  BY <1>4, <1>6, <1>7 DEF LoginInv

LEMMA InitiatorSends ==
  ASSUME LoginInv, SendSecurity \/ SendCHAP \/ SendOperational
  PROVE  LoginInv'
<1>1. DOMAIN NoKV = {}
  BY DEF NoKV
<1>2. CASE SendSecurity
  <2>1. PICK T \in BOOLEAN, nsg \in {Operational, FullFeature} :
          Send(Security, T, nsg, NoKV, "none")
    BY <1>2 DEF SendSecurity
  <2>2. QED
    BY <1>1, <1>2, <2>1, SendKeeps DEF SendSecurity, Ready
<1>3. CASE SendCHAP
  <2>1. PICK nsg \in {Operational, FullFeature} :
          Send(Security, TRUE, nsg, NoKV, IF knows THEN "right" ELSE "wrong")
    BY <1>3 DEF SendCHAP
  <2>2. QED
    BY <1>1, <1>3, <2>1, SendKeeps DEF SendCHAP, Ready
<1>4. CASE SendOperational
  <2>1. PICK offer \in SUBSET (Keys \ ini.offered), T \in BOOLEAN :
          Send(Operational, T, IF T THEN FullFeature ELSE Operational,
               [k \in offer |-> wants[k]], "none")
    BY <1>4 DEF SendOperational
  <2>2. Operational # Security /\ ini.st = "ready"
    BY <1>4 DEF Operational, Security, SendOperational, Ready
  <2> DEFINE kv == [k \in offer |-> wants[k]]
  <2>3. DOMAIN kv \subseteq Keys \ ini.offered /\ \A k \in DOMAIN kv : kv[k] = wants[k]
    OBVIOUS
  <2> HIDE DEF kv
  <2>4. Send(Operational, T, IF T THEN FullFeature ELSE Operational, kv, "none")
    BY <2>1 DEF kv
  <2>5. QED
    BY <2>2, <2>3, <2>4, SendKeeps
<1>5. QED
  BY <1>2, <1>3, <1>4

LEMMA ReceiveKeeps ==
  ASSUME LoginInv, Receive
  PROVE  LoginInv'
<1> DEFINE st == IF ~ wire.ok THEN "closed"
                 ELSE IF wire.T /\ wire.nsg = FullFeature THEN "full" ELSE "ready"
           stage == IF wire.ok /\ wire.T THEN wire.nsg ELSE wire.csg
           params == [k \in Keys |-> IF k \in DOMAIN wire.kv THEN wire.kv[k] ELSE ini.params[k]]
           challenged == ini.challenged \/ wire.challenge
<1>1. /\ wire.pdu = "response"
      /\ ini' = [ini EXCEPT !.st = st, !.stage = stage, !.params = params,
                            !.challenged = challenged, !.seen = wire.statSN]
      /\ wire' = IF wire.ok THEN Nothing ELSE [pdu |-> "closed"]
      /\ UNCHANGED <<wants, h>>
  BY DEF Receive
<1>2. \A k \in Keys : params[k] = IF k \in DOMAIN wire.kv THEN wire.kv[k] ELSE ini.params[k]
  OBVIOUS
<1>3. /\ ~ wire.ok => st = "closed"
      /\ wire.ok => st \in {"full", "ready"} /\ (st = "full" <=> wire.T /\ wire.nsg = FullFeature)
  OBVIOUS
<1> HIDE DEF st, stage, params, challenged
<1>4. /\ ini'.st = st /\ ini'.offered = ini.offered /\ ini'.params = params
      /\ ini'.seen = wire.statSN
      /\ ini' = [st |-> ini'.st, stage |-> ini'.stage, params |-> ini'.params,
                 offered |-> ini'.offered, challenged |-> ini'.challenged, hello |-> ini'.hello,
                 seen |-> ini'.seen]
  BY <1>1 DEF LoginInv, Shapes
<1>5. (wire.ok => wire'.pdu = "none") /\ (~ wire.ok => wire'.pdu = "closed")
  BY <1>1 DEF Nothing
<1>6. Shapes'
  BY <1>1, <1>4 DEF LoginInv, Shapes
<1>7. /\ wire.statSN = h.statSN
      /\ h.stage = FullFeature <=> wire.ok /\ wire.T /\ wire.nsg = FullFeature
  BY <1>1 DEF LoginInv, Phase
<1>8. Phase'
  <2>1. CASE wire.ok
    BY <1>1, <1>3, <1>4, <1>5, <1>7, <2>1 DEF Phase, Underway
  <2>2. CASE ~ wire.ok
    BY <1>1, <1>3, <1>4, <1>5, <2>2 DEF Phase, Underway
  <2>3. QED
    BY <2>1, <2>2
<1>9. Params'
  <2>1. InFlight = DOMAIN wire.kv /\ InFlight' = {}
    BY <1>1, <1>5 DEF InFlight, Underway
  <2>2. /\ ini.offered \subseteq Keys /\ InFlight \subseteq ini.offered
        /\ \A k \in Keys : h.negotiated[k] = Settled(k, ini.offered)
        /\ \A k \in DOMAIN wire.kv : wire.kv[k] = h.negotiated[k]
        /\ \A k \in Keys :
             ini.params[k] = IF k \in ini.offered \ InFlight THEN h.negotiated[k] ELSE Defaults[k]
    BY <1>1 DEF LoginInv, Params
  <2>3. \A k \in Keys : params[k] = IF k \in ini.offered THEN h.negotiated[k] ELSE Defaults[k]
    BY <1>2, <2>1, <2>2
  <2>4. \A k \in Keys : Settled(k, ini.offered)' = Settled(k, ini.offered)
    BY <1>1, <1>4 DEF Settled
  <2>5. wire'.pdu \in {"none", "closed"} /\ ini'.offered \ InFlight' = ini.offered
    BY <1>4, <1>5, <2>1
  <2>6. QED
    BY <1>1, <1>4, <2>1, <2>2, <2>3, <2>4, <2>5 DEF Params
<1>10. QED
  BY <1>6, <1>8, <1>9 DEF LoginInv

LEMMA BreakKeeps ==
  ASSUME LoginInv, Break
  PROVE  LoginInv'
<1>1. ini' = [ini EXCEPT !.st = "closed"] /\ wire' = [pdu |-> "closed"] /\ UNCHANGED <<wants, h>>
  BY DEF Break
<1>2. wire'.pdu = "closed"
  BY <1>1
<1>3. /\ ini'.st = "closed" /\ ini'.offered = ini.offered
      /\ ini' = [st |-> ini'.st, stage |-> ini'.stage, params |-> ini'.params,
                 offered |-> ini'.offered, challenged |-> ini'.challenged, hello |-> ini'.hello,
                 seen |-> ini'.seen]
  BY <1>1 DEF LoginInv, Shapes
<1>4. Shapes'
  BY <1>1, <1>3 DEF LoginInv, Shapes
<1>5. Phase'
  BY <1>2, <1>3 DEF Phase, Underway
<1>6. Params'
  BY <1>2, <1>3 DEF LoginInv, Params, InFlight, Underway
<1>7. QED
  BY <1>4, <1>5, <1>6 DEF LoginInv

LEMMA LoginInitially ==
  ASSUME Init
  PROVE  LoginInv
<1>1. /\ h.stage = Security /\ h.negotiated = TargetParams /\ h.statSN = 0
      /\ ini.st = "ready" /\ ini.params = Defaults /\ ini.offered = {} /\ ini.seen = 0
      /\ wire.pdu = "none"
  BY DEF Init, Nothing
<1>2. Shapes
  BY DEF Init, Shapes
<1>3. Phase
  BY <1>1 DEF Phase, Underway, Security, FullFeature
<1>4. Params
  BY <1>1 DEF Params, InFlight, Underway, Settled
<1>5. QED
  BY <1>2, <1>3, <1>4 DEF LoginInv

\* Every step of either side keeps the invariant.
LEMMA LoginSteps ==
  ASSUME LoginInv, [Next]_vars
  PROVE  LoginInv'
<1>1. CASE UNCHANGED vars
  <2>1. UNCHANGED <<wants, h, ini, wire>>
    BY <1>1 DEF vars
  <2>2. Shapes' /\ Phase'
    BY <2>1 DEF LoginInv, Shapes, Phase, Underway
  <2>3. Params'
    BY <2>1 DEF LoginInv, Params, InFlight, Underway, Settled
  <2>4. QED
    BY <2>2, <2>3 DEF LoginInv
<1>2. CASE Target
  BY <1>2, SecurityResponds, OperationalResponds, RunEnds DEF Target
<1>3. CASE Initiator
  BY <1>3, InitiatorSends, ReceiveKeeps DEF Initiator
<1>4. CASE Break
  BY <1>4, BreakKeeps
<1>5. QED
  BY <1>1, <1>2, <1>3, <1>4 DEF Next

\* The invariant the theorems rest on.
LEMMA LoginInvariant == Spec => []LoginInv
<1>1. Init => LoginInv
  BY LoginInitially
<1>2. LoginInv /\ [Next]_vars => LoginInv'
  BY LoginSteps
<1>3. QED
  BY <1>1, <1>2, PTL DEF Spec

\* The two sides change stage together, and the StatSN of the target is the last
\* one the initiator has seen, however they got there: through CHAP, straight from
\* security negotiation, or over any number of operational requests.
THEOREM StagesStayTogether == Spec => []StagesAgree
<1>1. LoginInv => StagesAgree
  BY DEF LoginInv, Phase, StagesAgree
<1>2. QED
  BY <1>1, LoginInvariant, PTL

-----------------------------------------------------------------------------
(* The parameters                                                          *)

LEMMA OutcomeIs ==
  ASSUME LoginInv, NEW k \in Keys
  PROVE  Outcome(k) = Settled(k, ini.offered)
<1>1. TargetParams[k] \in Nat /\ wants[k] \in Nat
  BY LoginAssumption DEF LoginInv, Shapes
<1>2. Settled(k, ini.offered) \in Sides(k) /\ \A u \in Sides(k) : u \in Nat
  BY <1>1 DEF Settled, Sides, Smaller, Larger
<1>3. CASE k \in MinKeys
  <2>1. Outcome(k) = CHOOSE v \in Sides(k) : \A u \in Sides(k) : v <= u
    BY <1>3 DEF Outcome
  <2>2. \A u \in Sides(k) : Settled(k, ini.offered) <= u
    BY <1>1, <1>3 DEF Settled, Sides, Smaller
  <2>3. Outcome(k) \in Sides(k) /\ \A u \in Sides(k) : Outcome(k) <= u
    BY <1>2, <2>1, <2>2
  <2>4. QED
    BY <1>2, <2>2, <2>3
<1>4. CASE k \notin MinKeys
  <2>1. Outcome(k) = CHOOSE v \in Sides(k) : \A u \in Sides(k) : v >= u
    BY <1>4 DEF Outcome
  <2>2. \A u \in Sides(k) : Settled(k, ini.offered) >= u
    BY <1>1, <1>4 DEF Settled, Sides, Larger
  <2>3. Outcome(k) \in Sides(k) /\ \A u \in Sides(k) : Outcome(k) >= u
    BY <1>2, <2>1, <2>2
  <2>4. QED
    BY <1>2, <2>2, <2>3
<1>5. QED
  BY <1>3, <1>4

\* Both sides end with the same parameters, and these are what the rules make of
\* the two sides' values: however the keys were spread over requests, each was
\* negotiated once.
THEOREM ParametersAgree == Spec => []ParamsAgree
<1>1. LoginInv => ParamsAgree
  <2> SUFFICES ASSUME LoginInv, Established, NEW k \in ini.offered \union (Keys \ {RecvKey})
               PROVE  h.negotiated[k] = ini.params[k] /\ ini.params[k] = Outcome(k)
    BY DEF ParamsAgree
  <2>1. ini.st = "full" /\ wire.pdu = "none" /\ InFlight = {}
    BY DEF LoginInv, Phase, Established, InFlight, Underway
  <2>2. k \in Keys
    BY DEF LoginInv, Params
  <2>3. /\ h.negotiated[k] = Settled(k, ini.offered)
        /\ ini.params[k] = IF k \in ini.offered THEN h.negotiated[k] ELSE Defaults[k]
    BY <2>1, <2>2 DEF LoginInv, Params
  <2>4. k \notin ini.offered => Defaults[k] = TargetParams[k]
    BY LoginAssumption
  <2>5. h.negotiated[k] = ini.params[k]
    BY <2>3, <2>4 DEF Settled
  <2>6. QED
    BY <2>2, <2>3, <2>5, OutcomeIs
<1>2. QED
  BY <1>1, LoginInvariant, PTL

-----------------------------------------------------------------------------
(* Data-In                                                                 *)

LEMMA Multiples ==
  ASSUME NEW i \in Nat, NEW j \in Nat, NEW m \in Nat \ {0}
  PROVE  /\ i * m \in Nat /\ i <= i * m
         /\ (i + 1) * m = i * m + m
         /\ i < j => i * m + m <= j * m
<1>1. i * m \in Nat /\ j * m \in Nat /\ (i + 1) * m = i * m + m
  OBVIOUS
<1>2. i <= i * m
  <2>1. i * m = i + i * (m - 1) /\ i * (m - 1) \in Nat
    OBVIOUS
  <2>2. QED
    BY <1>1, <2>1
<1>3. ASSUME i < j PROVE i * m + m <= j * m
  <2>1. j - (i + 1) \in Nat /\ (j - (i + 1)) * m \in Nat
    BY <1>3
  <2>2. j * m = (i + 1) * m + (j - (i + 1)) * m
    OBVIOUS
  <2>3. QED
    BY <1>1, <2>1, <2>2
<1>4. QED
  BY <1>1, <1>2, <1>3

\* Among the multiples of m there is the last one below x.
LEMMA Chunk ==
  ASSUME NEW x \in Nat \ {0}, NEW m \in Nat \ {0}
  PROVE  \E i \in Nat : i * m < x /\ x <= i * m + m
<1> DEFINE S == {i \in Nat : x <= i * m + m}
<1>1. x \in S
  BY Multiples
<1>2. S \in SUBSET Nat /\ S # {}
  BY <1>1
<1>3. IsWellFoundedOn(OpToRel(<, Nat), Nat)
  BY NatLessThanWellFounded
<1>4. PICK i \in S : \A y \in S : ~ (<<y, i>> \in OpToRel(<, Nat))
  BY <1>2, <1>3, WFMin
<1>5. i \in Nat /\ x <= i * m + m /\ \A y \in S : ~ (y < i)
  BY <1>4 DEF OpToRel
<1>6. i * m < x
  <2>1. CASE i = 0
    BY <2>1
  <2>2. CASE i # 0
    <3> DEFINE p == i - 1
    <3>1. p \in Nat /\ i = p + 1 /\ p < i
      BY <1>5, <2>2
    <3>2. ~ (x <= p * m + m)
      BY <1>5, <3>1
    <3> HIDE DEF p
    <3>3. i * m = p * m + m /\ i * m \in Nat
      BY <3>1, Multiples
    <3>4. QED
      BY <3>2, <3>3
  <2>3. QED
    BY <2>1, <2>2
<1>7. QED
  BY <1>5, <1>6

\* The PDUs of a READ of n blocks, m at most in each.
LEMMA DataInPDUs ==
  ASSUME NEW n \in Nat, NEW m \in Nat \ {0}
  PROVE  LET pdus == sendDataIn(n, m)
         IN /\ UNION {p.off + 1 .. p.end : p \in pdus} = 1 .. n
            /\ \A p, q \in pdus : p.dataSN < q.dataSN => p.end <= q.off /\ ~p.F
            /\ \E p \in pdus : p.F
            /\ \A p \in pdus : p.end - p.off <= m
<1> DEFINE Nth(i) == [dataSN |-> i, off |-> i * m, end |-> DataEnd(i * m, n, m),
                      F |-> DataEnd(i * m, n, m) = n]
           I == {j \in 0 .. n : j * m < n \/ j = 0}
           pdus == sendDataIn(n, m)
<1>1. pdus = {Nth(i) : i \in I}
  BY DEF sendDataIn
<1>2. \A i \in I : /\ i \in Nat /\ i * m \in Nat /\ i * m <= n
                   /\ DataEnd(i * m, n, m) \in Nat /\ DataEnd(i * m, n, m) <= n
                   /\ DataEnd(i * m, n, m) <= i * m + m /\ i * m <= DataEnd(i * m, n, m)
  <2> SUFFICES ASSUME NEW i \in I
               PROVE  /\ i \in Nat /\ i * m \in Nat /\ i * m <= n
                      /\ DataEnd(i * m, n, m) \in Nat /\ DataEnd(i * m, n, m) <= n
                      /\ DataEnd(i * m, n, m) <= i * m + m /\ i * m <= DataEnd(i * m, n, m)
    OBVIOUS
  <2>1. i \in Nat /\ i * m \in Nat /\ i * m <= n
    BY Multiples
  <2> DEFINE o == i * m
  <2>2. o \in Nat /\ o <= n
    BY <2>1
  <2> HIDE DEF o
  <2>3. DataEnd(o, n, m) \in Nat /\ DataEnd(o, n, m) <= n
        /\ DataEnd(o, n, m) <= o + m /\ o <= DataEnd(o, n, m)
    BY <2>2 DEF DataEnd
  <2>4. QED
    BY <2>1, <2>3 DEF o
<1>3. \A x \in 1 .. n : \E i \in I : i * m + 1 <= x /\ x <= DataEnd(i * m, n, m)
  <2> SUFFICES ASSUME NEW x \in 1 .. n
               PROVE  \E i \in I : i * m + 1 <= x /\ x <= DataEnd(i * m, n, m)
    OBVIOUS
  <2>0. x \in Nat \ {0}
    OBVIOUS
  <2>1. PICK i \in Nat : i * m < x /\ x <= i * m + m
    BY <2>0, Chunk
  <2>2. i * m \in Nat /\ i <= i * m
    BY Multiples
  <2>3. i \in I
    BY <2>1, <2>2
  <2>4. x <= DataEnd(i * m, n, m) /\ i * m + 1 <= x
    <3> DEFINE o == i * m
    <3>1. o \in Nat /\ o < x /\ x <= o + m
      BY <2>1, <2>2
    <3> HIDE DEF o
    <3>2. x <= DataEnd(o, n, m) /\ o + 1 <= x
      BY <3>1 DEF DataEnd
    <3>3. QED
      BY <3>2 DEF o
  <2>5. QED
    BY <2>3, <2>4
<1>4. \A i, j \in I : i < j => DataEnd(i * m, n, m) <= j * m /\ DataEnd(i * m, n, m) # n
  <2> SUFFICES ASSUME NEW i \in I, NEW j \in I, i < j
               PROVE  DataEnd(i * m, n, m) <= j * m /\ DataEnd(i * m, n, m) # n
    OBVIOUS
  <2>1. i * m + m <= j * m /\ j * m < n /\ i * m \in Nat /\ j * m \in Nat
    BY Multiples
  <2>2. QED
    BY <1>2, <2>1
<1>5. \E i \in I : DataEnd(i * m, n, m) = n
  <2>1. CASE n = 0
    <3>1. 0 \in I /\ 0 * m = 0
      BY <2>1
    <3>2. DataEnd(0, n, m) = n
      BY <2>1 DEF DataEnd
    <3>3. QED
      BY <3>1, <3>2
  <2>2. CASE n # 0
    <3>1. PICK i \in I : n <= DataEnd(i * m, n, m)
      BY <1>3, <2>2
    <3>2. DataEnd(i * m, n, m) \in Nat /\ DataEnd(i * m, n, m) <= n
      BY <1>2
    <3>3. DataEnd(i * m, n, m) = n
      BY <3>1, <3>2
    <3>4. QED
      BY <3>3
  <2>3. QED
    BY <2>1, <2>2
<1> HIDE DEF I
<1>6. UNION {p.off + 1 .. p.end : p \in pdus} = 1 .. n
  <2>1. ASSUME NEW p \in pdus, NEW x \in p.off + 1 .. p.end PROVE x \in 1 .. n
    <3>1. PICK i \in I : p.off = i * m /\ p.end = DataEnd(i * m, n, m)
      BY <1>1
    <3>2. QED
      BY <1>2, <3>1
  <2>2. ASSUME NEW x \in 1 .. n PROVE \E p \in pdus : x \in p.off + 1 .. p.end
    <3>1. PICK i \in I : i * m + 1 <= x /\ x <= DataEnd(i * m, n, m)
      BY <1>3
    <3>2. Nth(i) \in pdus /\ Nth(i).off = i * m /\ Nth(i).end = DataEnd(i * m, n, m)
      BY <1>1
    <3>3. x \in i * m + 1 .. DataEnd(i * m, n, m)
      BY <1>2, <3>1
    <3>4. QED
      BY <3>2, <3>3
  <2> HIDE DEF pdus
  <2>3. QED
    BY <2>1, <2>2
<1>7. ASSUME NEW p \in pdus, NEW q \in pdus, p.dataSN < q.dataSN
      PROVE  p.end <= q.off /\ ~ p.F
  <2>1. PICK i \in I : p = Nth(i)
    BY <1>1
  <2>2. PICK j \in I : q.dataSN = j /\ q.off = j * m
    BY <1>1
  <2>3. p.dataSN = i /\ p.end = DataEnd(i * m, n, m) /\ (p.F <=> DataEnd(i * m, n, m) = n)
    BY <2>1
  <2>4. QED
    BY <1>4, <1>7, <2>2, <2>3
<1>8. \E p \in pdus : p.F
  <2>1. PICK i \in I : DataEnd(i * m, n, m) = n
    BY <1>5
  <2>2. Nth(i) \in pdus /\ Nth(i).F
    BY <1>1, <2>1
  <2>3. QED
    BY <2>2
<1>9. \A p \in pdus : p.end - p.off <= m
  BY <1>1, <1>2
<1>10. QED
  BY <1>6, <1>7, <1>8, <1>9

\* However long the READ and whatever was negotiated, the Data-In PDUs follow one
\* another without gap or overlap, the last alone with F, and fit what the
\* initiator said it can take.
THEOREM DataInCorrect == Spec => []DataInFits
<1>1. LoginInv => DataInFits
  <2> SUFFICES ASSUME LoginInv, Established, NEW n \in 0 .. MaxRead
               PROVE  LET pdus == sendDataIn(n, h.negotiated[RecvKey])
                      IN /\ UNION {p.off + 1 .. p.end : p \in pdus} = 1 .. n
                         /\ \A p, q \in pdus : p.dataSN < q.dataSN => p.end <= q.off /\ ~p.F
                         /\ \E p \in pdus : p.F
                         /\ RecvKey \in ini.offered =>
                              \A p \in pdus : p.end - p.off <= wants[RecvKey]
    BY DEF DataInFits
  <2> DEFINE m == h.negotiated[RecvKey]
             pdus == sendDataIn(n, m)
  <2>1. RecvKey \in Keys /\ RecvKey \in MinKeys /\ n \in Nat
    BY LoginAssumption DEF Keys
  <2>2. /\ TargetParams[RecvKey] \in Nat \ {0} /\ wants[RecvKey] \in Nat \ {0}
        /\ m = Settled(RecvKey, ini.offered)
    BY <2>1, LoginAssumption DEF LoginInv, Shapes, Phase, Params, Established
  <2>3. m \in Nat \ {0} /\ (RecvKey \in ini.offered => m <= wants[RecvKey])
    BY <2>1, <2>2 DEF Settled, Smaller
  <2> HIDE DEF m
  <2>4. /\ UNION {p.off + 1 .. p.end : p \in pdus} = 1 .. n
        /\ \A p, q \in pdus : p.dataSN < q.dataSN => p.end <= q.off /\ ~p.F
        /\ \E p \in pdus : p.F
        /\ \A p \in pdus : p.end - p.off <= m
    BY <2>1, <2>3, DataInPDUs
  <2>5. RecvKey \in ini.offered => \A p \in pdus : p.end - p.off <= wants[RecvKey]
    <3>1. \A p \in pdus : p.end \in Int /\ p.off \in Int
      <4>1. \A i \in Nat : i * m \in Int /\ DataEnd(i * m, n, m) \in Int
        BY <2>1, <2>3 DEF DataEnd
      <4>2. QED
        BY <4>1 DEF sendDataIn
    <3> HIDE DEF pdus
    <3>2. QED
      BY <2>2, <2>3, <2>4, <3>1
  <2>6. QED
    BY <2>4, <2>5 DEF m
<1>2. QED
  BY <1>1, LoginInvariant, PTL
=============================================================================
