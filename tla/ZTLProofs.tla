----------------------------- MODULE ZTLProofs -----------------------------
(***************************************************************************)
(* What holds of the translation layer for any device, any number of       *)
(* clients, age loops and collectors, and any requests.                    *)
(*                                                                         *)
(* First, two promises of the write-ahead log:                             *)
(*   REQ-WAL-01  LoggedBeforeApplied                                       *)
(*   REQ-GC-05   ResetJournaled                                            *)
(* Both are action properties, so what has to be invariant is what a       *)
(* thread knows of the log at the step before the action: Own(t).  It says *)
(* that the record of the L2P update t is about to apply is in the log,    *)
(* and the durable reset record of the zone it is about to reset.  Other   *)
(* threads cannot take that away, because the log only grows.  Shapes says *)
(* that the variables are the functions and records they are meant to be,  *)
(* and that a Flush or a collection returns only to its caller.            *)
(*                                                                         *)
(* Second, the device.  EmulatorProofs shows that every call keeps it in   *)
(* order, provided that what is written are sectors.  Here those calls are *)
(* made by flushes, migrations, resets and allocations in any              *)
(* interleaving, and what has to be shown (DataInv) is that data stays     *)
(* data on its way: from a command into the buffer, from there into the    *)
(* hands of a flush, or from the device through a collector back to the    *)
(* device.                                                                 *)
(***************************************************************************)
EXTENDS ZTL, EmulatorProofs, TLAPS

-----------------------------------------------------------------------------
(* Shapes *)

\* w is a sequence, of whatever elements.
IsSeq(w) == w \in Seq({w[i] : i \in DOMAIN w})

\* Where Flush and collectZone return to.
Back == {"idle", "check", "fail", "relock", "fnext"}

DevRec(d) == /\ d = [st |-> d.st, wp |-> d.wp, data |-> d.data, open |-> d.open]
             /\ d.st = [z \in Zones |-> d.st[z]]
FlRec(f)  == f = [zone |-> f.zone, wp |-> f.wp, data |-> f.data, todo |-> f.todo,
                  err |-> f.err, ret |-> f.ret]
GCRec(g)  == g = [victim |-> g.victim, live |-> g.live, item |-> g.item,
                  data |-> g.data, zone |-> g.zone, new |-> g.new,
                  ret |-> g.ret, err |-> g.err]
CmdRec(c) == c = [kind |-> c.kind, lba |-> c.lba, end |-> c.end, id |-> c.id,
                  seg |-> c.seg, zone |-> c.zone, wp |-> c.wp, old |-> c.old,
                  new |-> c.new, before |-> c.before]

LogShape == IsSeq(wal) /\ durable \in Nat /\ durable <= Len(wal)
L2PShape == l2p = [s \in SegIDs |-> l2p[s]]
PCShape  == pc = [t \in Threads |-> pc[t]]
FlShape  == /\ fl = [t \in Threads |-> fl[t]]
            /\ \A t \in Threads : FlRec(fl[t]) /\ fl[t].ret \in Back
GCShape  == /\ gc = [t \in Threads |-> gc[t]]
            /\ \A t \in Threads : GCRec(gc[t]) /\ gc[t].ret \in Back /\ gc[t].err \in Back
CmdShape == /\ cmd = [t \in Clients |-> cmd[t]]
            /\ \A t \in Clients : CmdRec(cmd[t])

Shapes == DevRec(dev) /\ LogShape /\ L2PShape /\ PCShape /\ FlShape /\ GCShape /\ CmdShape

-----------------------------------------------------------------------------
(* What a thread knows of the log *)

\* The record of t's last migration is among the first n records.
MoveLogged(t, n) ==
  \E j \in 1 .. n :
    wal[j].kind = "L2P" /\ wal[j].seg = gc[t].item[2] /\ wal[j].new = gc[t].new

\* The reset of t's victim is durable, after the last migration.
ResetLogged(t) ==
  \E i \in 1 .. durable :
    /\ wal[i] = ZoneResetRecord(gc[t].victim)
    /\ gc[t].new # Unmapped => MoveLogged(t, i - 1)

Collecting == {"freeze", "read", "galloc", "gwrite", "cas", "gmaps", "reset", "mark"}

Own(t) ==
  /\ t \in Clients /\ pc[t] = "set" => InLog(wal, cmd[t].seg, cmd[t].new)
  /\ pc[t] = "freeze" => gc[t].new = Unmapped
  /\ pc[t] \in {"gwrite", "cas", "gmaps"} => MoveLogged(t, Len(wal))
  /\ pc[t] = "read" => (gc[t].new # Unmapped => MoveLogged(t, Len(wal)))
  /\ pc[t] = "reset" => ResetLogged(t)
  /\ pc[t] \in Collecting => gc[t].victim \in Zones

\* The inductive invariant.
LogInv == Shapes /\ \A t \in Threads : Own(t)

\* Appending keeps what is there.
LEMMA AppendGrows ==
  ASSUME NEW w, IsSeq(w), NEW x
  PROVE  /\ IsSeq(Append(w, x))
         /\ Len(w) \in Nat
         /\ Len(Append(w, x)) = Len(w) + 1
         /\ \A i \in 1 .. Len(w) : Append(w, x)[i] = w[i]
         /\ Append(w, x)[Len(w) + 1] = x
<1> DEFINE S == {w[i] : i \in DOMAIN w} \union {x}
           v == Append(w, x)
<1>1. w \in Seq(S) /\ x \in S
  BY DEF IsSeq
<1> HIDE DEF S
<1>2. /\ v \in Seq(S) /\ Len(w) \in Nat /\ Len(v) = Len(w) + 1
      /\ \A i \in 1 .. Len(w) : v[i] = w[i]
      /\ v[Len(w) + 1] = x
  BY <1>1
<1> HIDE DEF v
<1>3. IsSeq(v)
  BY <1>2 DEF IsSeq
<1> QED
  BY <1>2, <1>3 DEF v

-----------------------------------------------------------------------------
(* What a step of thread t may do *)

\* The threads other than t are where they were.
Others(t) ==
  /\ \A u \in Threads \ {t} : pc'[u] = pc[u] /\ gc'[u] = gc[u]
  /\ \A u \in Clients \ {t} : cmd'[u] = cmd[u]

\* The log grows by at most a record, and no durable record is forgotten.
Grows ==
  /\ wal' = wal \/ \E x : wal' = Append(wal, x)
  /\ durable' >= durable

\* An L2P entry changes only to an address the log has for it.
Applies ==
  \A seg \in SegIDs : l2p'[seg] # l2p[seg] => InLog(wal, seg, l2p'[seg])

\* A zone becomes EMPTY only when t resets it.
Erases(t) ==
  \A z \in Zones : dev.st[z] # "EMPTY" /\ dev'.st[z] = "EMPTY" =>
    pc[t] = "reset" /\ gc[t].victim = z

Fine(t) == Shapes' /\ Others(t) /\ Grows /\ Applies /\ Erases(t) /\ Own(t)'

-----------------------------------------------------------------------------
(* Device calls other than ResetZone empty no zone. *)

Fills(d, e) ==
  DevRec(e) /\ \A z \in Zones : e.st[z] = "EMPTY" => d.st[z] = "EMPTY"

\* Two device calls in a row that empty no zone empty none together.
LEMMA FillsTrans ==
  ASSUME NEW d, NEW e, NEW f, Fills(d, e), Fills(e, f)
  PROVE  Fills(d, f)
  BY DEF Fills

\* A call that fails at once leaves the device alone.
LEMMA FillsSame ==
  ASSUME NEW d, DevRec(d)
  PROVE  Fills(d, d)
  BY DEF Fills

\* A record with a zone in a state other than EMPTY.
LEMMA FillsSet ==
  ASSUME NEW d, DevRec(d), NEW idx, NEW x, x # "EMPTY", NEW e,
         e = [st |-> e.st, wp |-> e.wp, data |-> e.data, open |-> e.open],
         e.st = [d.st EXCEPT ![idx] = x]
  PROVE  Fills(d, e)
  BY DEF Fills, DevRec

\* openZoneLocked empties no zone.
LEMMA FillsOpenLocked ==
  ASSUME NEW d, DevRec(d), NEW idx, NEW explicit \in BOOLEAN
  PROVE  Fills(d, openZoneLocked(d, idx, explicit).dev)
<1> DEFINE e == openZoneLocked(d, idx, explicit).dev
<1>1. CASE e = d
  BY <1>1, FillsSame
<1>2. CASE e = [d EXCEPT !.st[idx] = "EXPLICIT_OPEN"]
  <2> HIDE DEF e
  <2>1. /\ e = [st |-> e.st, wp |-> e.wp, data |-> e.data, open |-> e.open]
        /\ e.st = [d.st EXCEPT ![idx] = "EXPLICIT_OPEN"]
    BY <1>2 DEF DevRec
  <2>2. Fills(d, e)
    BY <2>1, FillsSet
  <2> QED
    BY <2>2 DEF e
<1>3. CASE e = [d EXCEPT !.st[idx] = OpenAs(explicit), !.open = @ + 1]
  <2> HIDE DEF e
  <2>1. /\ e = [st |-> e.st, wp |-> e.wp, data |-> e.data, open |-> e.open]
        /\ e.st = [d.st EXCEPT ![idx] = OpenAs(explicit)]
    BY <1>3 DEF DevRec
  <2>2. OpenAs(explicit) # "EMPTY"
    BY DEF OpenAs
  <2>3. Fills(d, e)
    BY <2>1, <2>2, FillsSet
  <2> QED
    BY <2>3 DEF e
<1> QED
  BY <1>1, <1>2, <1>3 DEF openZoneLocked, Ok, Err

\* OpenZone empties no zone.
LEMMA FillsOpen ==
  ASSUME NEW d, DevRec(d), NEW lba
  PROVE  Fills(d, OpenZone(d, lba).dev)
  BY FillsOpenLocked, FillsSame DEF OpenZone, Err

\* CloseZone empties no zone.
LEMMA FillsClose ==
  ASSUME NEW d, DevRec(d), NEW lba
  PROVE  Fills(d, CloseZone(d, lba).dev)
<1> DEFINE idx == zoneIndex(lba)
           e   == CloseZone(d, lba).dev
<1>1. CASE e = d
  BY <1>1, FillsSame
<1>2. CASE e = [d EXCEPT !.st[idx] = "CLOSED", !.open = @ - 1]
  <2> HIDE DEF e, idx
  <2>1. /\ e = [st |-> e.st, wp |-> e.wp, data |-> e.data, open |-> e.open]
        /\ e.st = [d.st EXCEPT ![idx] = "CLOSED"]
    BY <1>2 DEF DevRec
  <2>2. Fills(d, e)
    BY <2>1, FillsSet
  <2> QED
    BY <2>2 DEF e
<1> QED
  BY <1>1, <1>2 DEF CloseZone, Ok, Err

\* Storing data empties no zone.
LEMMA FillsStore ==
  ASSUME NEW d, DevRec(d), NEW idx, NEW lba, NEW data
  PROVE  Fills(d, Store(d, idx, lba, data).dev)
<1> DEFINE b   == Stored(d, idx, lba, data)
           end == lba + Len(data)
           e   == Store(d, idx, lba, data).dev
<1>1. CASE e = d
  BY <1>1, FillsSame
<1>2. CASE e = Advance([d EXCEPT !.data[idx] = b], idx, end)
  <2> HIDE DEF e, b, end
  <2>1. CASE end = zoneEndLBA(idx)
    <3>1. /\ e = [st |-> e.st, wp |-> e.wp, data |-> e.data, open |-> e.open]
          /\ e.st = [d.st EXCEPT ![idx] = "FULL"]
      BY <1>2, <2>1 DEF DevRec, Advance
    <3>2. Fills(d, e)
      BY <3>1, FillsSet
    <3> QED
      BY <3>2 DEF e
  <2>2. CASE end # zoneEndLBA(idx)
    <3>1. /\ e = [st |-> e.st, wp |-> e.wp, data |-> e.data, open |-> e.open]
          /\ e.st = d.st
      BY <1>2, <2>2 DEF DevRec, Advance
    <3>2. Fills(d, e)
      BY <3>1 DEF Fills, DevRec
    <3> QED
      BY <3>2 DEF e
  <2> QED
    BY <2>1, <2>2
<1> QED
  BY <1>1, <1>2 DEF Store, Ok, Err

\* WriteSectors, its implicit open included, empties no zone.
LEMMA FillsWrite ==
  ASSUME NEW d, DevRec(d), NEW lba, NEW data
  PROVE  Fills(d, WriteSectors(d, lba, data).dev)
<1> DEFINE idx == zoneIndex(lba)
           o   == openZoneLocked(d, idx, FALSE)
<1>1. Fills(d, o.dev)
  BY FillsOpenLocked
<1> HIDE DEF o, idx
<1>2. Fills(d, Store(o.dev, idx, lba, data).dev)
  <2>1. DevRec(o.dev)
    BY <1>1 DEF Fills
  <2>2. Fills(o.dev, Store(o.dev, idx, lba, data).dev)
    BY <2>1, FillsStore
  <2> QED
    BY <1>1, <2>2, FillsTrans
<1>3. Fills(d, d)
  BY FillsSame
<1> QED
  BY <1>1, <1>2, <1>3 DEF WriteSectors, Ok, Err, o, idx

\* Evicting the least recently used zone empties none.
LEMMA FillsRoom ==
  ASSUME NEW m, NEW d, DevRec(d)
  PROVE  Fills(d, MakeRoom(m, d).dev)
<1> DEFINE r == CloseZone(d, zoneStartLBA(Head(m.lru)))
<1>1. Fills(d, d) /\ Fills(d, r.dev)
  BY FillsSame, FillsClose
<1> HIDE DEF r
<1>2. Fills(d, Evict(m, Head(m.lru), r).dev)
  BY <1>1 DEF Evict, ZMOk, ZMErr
<1> QED
  BY <1>1, <1>2 DEF MakeRoom, evictOldestLocked, ZMOk, r

\* AllocateFree empties no zone, whether or not it succeeds.
LEMMA FillsAllocate ==
  ASSUME NEW m, NEW d, DevRec(d)
  PROVE  Fills(d, AllocateFree(m, d).dev)
<1> DEFINE room == MakeRoom(m, d)
           r == OpenZone(room.dev, zoneStartLBA(Last(m.free)))
<1>1. Fills(d, d) /\ Fills(d, room.dev)
  BY FillsSame, FillsRoom
<1>2. Fills(d, r.dev)
  BY <1>1, FillsOpen, FillsTrans DEF Fills
<1> HIDE DEF room, r
<1> QED
  BY <1>1, <1>2 DEF AllocateFree, ZMOk, ZMErr, room, r

\* GetOrOpen empties no zone, whether or not it succeeds.
LEMMA FillsGetOrOpen ==
  ASSUME NEW m, NEW d, DevRec(d), NEW z
  PROVE  Fills(d, GetOrOpen(m, d, z).dev)
<1> DEFINE room == MakeRoom(m, d)
           r == OpenZone(room.dev, zoneStartLBA(z))
<1>1. Fills(d, d) /\ Fills(d, room.dev)
  BY FillsSame, FillsRoom
<1>2. Fills(d, r.dev)
  BY <1>1, FillsOpen, FillsTrans DEF Fills
<1> HIDE DEF room, r
<1> QED
  BY <1>1, <1>2 DEF GetOrOpen, ZMOk, ZMErr, room, r

-----------------------------------------------------------------------------
(* Steps that have nothing to do with the log *)

Special == Collecting \union {"set"}

\* Only thread t moves, and every variable keeps its shape.
Moves(t) == PCShape' /\ FlShape' /\ GCShape' /\ CmdShape' /\ Others(t)

\* A step that touches neither log nor L2P, empties no zone and leaves its thread
\* outside the steps Own speaks of is fine.
LEMMA Aside ==
  ASSUME LogInv, NEW t \in Threads, UNCHANGED <<wal, durable, l2p>>, Fills(dev, dev'),
         Moves(t), pc'[t] \notin Special
  PROVE  Fine(t)
<1>1. Shapes
  BY DEF LogInv
<1>2. Shapes'
  BY <1>1 DEF Shapes, LogShape, L2PShape, Moves, Fills
<1>3. Own(t)'
  BY DEF Own, Special, Collecting
<1>4. Grows /\ Applies
  BY <1>1 DEF Grows, Applies, Shapes, LogShape
<1>5. Erases(t)
  BY DEF Erases, Fills
<1> QED
  BY <1>2, <1>3, <1>4, <1>5 DEF Fine, Moves

\* A thread goes to another step.
LEMMA GotoMoves ==
  ASSUME PCShape, NEW t \in Threads, NEW x, Goto(t, x)
  PROVE  PCShape' /\ pc'[t] = x /\ \A u \in Threads \ {t} : pc'[u] = pc[u]
  BY DEF PCShape, Goto

\* A thread gets new Flush locals.
LEMMA SetFl ==
  ASSUME FlShape, NEW t \in Threads, NEW f, FlRec(f), f.ret \in Back,
         fl' = [fl EXCEPT ![t] = f]
  PROVE  FlShape'
  BY DEF FlShape

\* The locals Flush starts from.
LEMMA FreshFl ==
  /\ FlRec(NoFlush) /\ NoFlush.ret \in Back
  /\ \A x : LET f == [NoFlush EXCEPT !.todo = x] IN FlRec(f) /\ f.ret \in Back
  /\ \A z : LET f == [NoFlush EXCEPT !.zone = z, !.ret = "relock"]
            IN FlRec(f) /\ f.ret \in Back
<1>1. FlRec(NoFlush) /\ NoFlush.ret \in Back
  BY DEF NoFlush, FlRec, Back
<1>2. ASSUME NEW x, NEW f, f = [NoFlush EXCEPT !.todo = x]
      PROVE  FlRec(f) /\ f.ret = NoFlush.ret
  BY <1>1, <1>2 DEF FlRec
<1>3. ASSUME NEW z, NEW f, f = [NoFlush EXCEPT !.zone = z, !.ret = "relock"]
      PROVE  FlRec(f) /\ f.ret = "relock"
  BY <1>1, <1>3 DEF FlRec
<1>4. "relock" \in Back
  BY DEF Back
<1> QED
  BY <1>1, <1>2, <1>3, <1>4

\* Flush returns.
LEMMA ReturnShape ==
  ASSUME FlShape, NEW t \in Threads, NEW failed, FlushReturn(t, failed)
  PROVE  FlShape'
<1> DEFINE f == [fl[t] EXCEPT !.err = @ \/ failed, !.wp = 0, !.data = << >>]
<1>1. fl' = [fl EXCEPT ![t] = f]
  BY DEF FlushReturn
<1>2. FlRec(fl[t]) /\ fl[t].ret \in Back
  BY DEF FlShape
<1>3. ASSUME NEW g, FlRec(g), NEW h,
             h = [g EXCEPT !.err = @ \/ failed, !.wp = 0, !.data = << >>]
      PROVE  FlRec(h) /\ h.ret = g.ret
  BY <1>3 DEF FlRec
<1>4. FlRec(f) /\ f.ret = fl[t].ret
  BY <1>2, <1>3
<1> HIDE DEF f
<1> QED
  BY <1>1, <1>2, <1>4, SetFl

\* Taking the buffer out of the map.
LEMMA FlushTakeFine ==
  ASSUME LogInv, NEW t \in Threads, FlushTake(t), UNCHANGED <<gcVars, cmdVars>>
  PROVE  Fine(t)
<1>1. UNCHANGED <<dev, wal, durable, l2p, gc, cmd>>
  BY DEF FlushTake, mapVars, gcVars, cmdVars
<1>2. Shapes
  BY DEF LogInv
<1>3. pc'[t] \in Back \union {"fopen"} /\ PCShape' /\ \A u \in Threads \ {t} : pc'[u] = pc[u]
  BY <1>2, GotoMoves DEF FlushTake, FlushReturn, Shapes, FlShape
<1>4. FlShape'
  BY <1>2, ReturnShape DEF FlushTake, Shapes, FlShape, FlRec
<1>5. Moves(t) /\ Fills(dev, dev')
  BY <1>1, <1>2, <1>3, <1>4, FillsSame DEF Moves, Others, Shapes, GCShape, CmdShape
<1> QED
  BY <1>1, <1>3, <1>5, Aside DEF Special, Collecting, Back

\* Opening the zone to flush.
LEMMA FlushOpenFine ==
  ASSUME LogInv, NEW t \in Threads, FlushOpen(t), UNCHANGED <<gcVars, cmdVars>>
  PROVE  Fine(t)
<1>1. UNCHANGED <<wal, durable, l2p, gc, cmd>>
  BY DEF FlushOpen, mapVars, gcVars, cmdVars
<1>2. Shapes
  BY DEF LogInv
<1>3. pc'[t] \in Back \union {"fwrite"} /\ PCShape' /\ \A u \in Threads \ {t} : pc'[u] = pc[u]
  BY <1>2, GotoMoves DEF FlushOpen, FlushReturn, Shapes, FlShape
<1>4. FlShape'
  BY <1>2, ReturnShape DEF FlushOpen, Shapes, FlShape, FlRec
<1>5. Fills(dev, dev')
  BY <1>2, FillsGetOrOpen DEF FlushOpen, Shapes
<1>6. Moves(t)
  BY <1>1, <1>2, <1>3, <1>4 DEF Moves, Others, Shapes, GCShape, CmdShape
<1> QED
  BY <1>1, <1>3, <1>5, <1>6, Aside DEF Special, Collecting, Back

\* Writing the flushed data.
LEMMA FlushWriteFine ==
  ASSUME LogInv, NEW t \in Threads, FlushWrite(t), UNCHANGED <<gcVars, cmdVars>>
  PROVE  Fine(t)
<1>1. UNCHANGED <<wal, durable, l2p, gc, cmd>>
  BY DEF FlushWrite, mapVars, gcVars, cmdVars
<1>2. Shapes
  BY DEF LogInv
<1>3. pc'[t] \in Back \union {"fpoint"} /\ PCShape' /\ \A u \in Threads \ {t} : pc'[u] = pc[u]
  BY <1>2, GotoMoves DEF FlushWrite, FlushReturn, Shapes, FlShape
<1>4. FlShape'
  BY <1>2, ReturnShape DEF FlushWrite, Shapes, FlShape, FlRec
<1>5. Fills(dev, dev')
  BY <1>2, FillsWrite DEF FlushWrite, Shapes
<1>6. Moves(t)
  BY <1>1, <1>2, <1>3, <1>4 DEF Moves, Others, Shapes, GCShape, CmdShape
<1> QED
  BY <1>1, <1>3, <1>5, <1>6, Aside DEF Special, Collecting, Back

\* Correcting the write pointer after a flush.
LEMMA FlushPointFine ==
  ASSUME LogInv, NEW t \in Threads, FlushPoint(t), UNCHANGED <<gcVars, cmdVars>>
  PROVE  Fine(t)
<1>1. UNCHANGED <<dev, wal, durable, l2p, gc, cmd>>
  BY DEF FlushPoint, mapVars, gcVars, cmdVars
<1>2. Shapes
  BY DEF LogInv
<1>3. pc'[t] \in Back /\ PCShape' /\ \A u \in Threads \ {t} : pc'[u] = pc[u]
  BY <1>2, GotoMoves DEF FlushPoint, FlushReturn, Shapes, FlShape
<1>4. FlShape'
  BY <1>2, ReturnShape DEF FlushPoint, Shapes
<1>5. Moves(t) /\ Fills(dev, dev')
  BY <1>1, <1>2, <1>3, <1>4, FillsSame DEF Moves, Others, Shapes, GCShape, CmdShape
<1> QED
  BY <1>1, <1>3, <1>5, Aside DEF Special, Collecting, Back

\* Every step of Flush.
LEMMA FlushStepFine ==
  ASSUME LogInv, NEW t \in Threads, FlushStep(t), UNCHANGED <<gcVars, cmdVars>>
  PROVE  Fine(t)
  BY FlushTakeFine, FlushOpenFine, FlushWriteFine, FlushPointFine DEF FlushStep

\* A turn of the loop of FlushAll or flushAged.
LEMMA FlushNextFine ==
  ASSUME LogInv, NEW t \in Threads, FlushNext(t), UNCHANGED <<gcVars, cmdVars>>
  PROVE  Fine(t)
<1>1. UNCHANGED <<dev, wal, durable, l2p, gc, cmd>>
  BY DEF FlushNext, mapVars, gcVars, cmdVars
<1>2. Shapes
  BY DEF LogInv
<1>3. pc'[t] = "ftake" /\ PCShape' /\ \A u \in Threads \ {t} : pc'[u] = pc[u]
  BY <1>2, GotoMoves DEF FlushNext, Shapes
<1>4. FlShape'
  BY <1>2 DEF FlushNext, Shapes, FlShape, FlRec, Back
<1>5. Moves(t) /\ Fills(dev, dev')
  BY <1>1, <1>2, <1>3, <1>4, FillsSame DEF Moves, Others, Shapes, GCShape, CmdShape
<1> QED
  BY <1>1, <1>3, <1>5, Aside DEF Special, Collecting

\* The age loop starts and ends a round.
LEMMA flushAgedFine ==
  ASSUME LogInv, NEW t \in Threads, flushAged(t) \/ flushAgedDone(t),
         UNCHANGED <<gcVars, cmdVars>>
  PROVE  Fine(t)
<1>1. UNCHANGED <<dev, wal, durable, l2p, gc, cmd>>
  BY DEF flushAged, flushAgedDone, mapVars, gcVars, cmdVars
<1>2. Shapes
  BY DEF LogInv
<1>3. pc'[t] \in {"fnext", "idle"} /\ PCShape' /\ \A u \in Threads \ {t} : pc'[u] = pc[u]
  BY <1>2, GotoMoves DEF flushAged, flushAgedDone, Shapes
<1>4. FlShape'
  BY <1>2, FreshFl, SetFl DEF flushAged, flushAgedDone, Shapes
<1>5. Moves(t) /\ Fills(dev, dev')
  BY <1>1, <1>2, <1>3, <1>4, FillsSame DEF Moves, Others, Shapes, GCShape, CmdShape
<1> QED
  BY <1>1, <1>3, <1>5, Aside DEF Special, Collecting

-----------------------------------------------------------------------------
(* Steps of a collection *)

\* The log and the table are left alone.
LEMMA Plain ==
  ASSUME LogInv, NEW t \in Threads, UNCHANGED <<wal, durable, l2p>>,
         DevRec(dev'), Erases(t), Moves(t), Own(t)'
  PROVE  Fine(t)
<1>1. Shapes
  BY DEF LogInv
<1>2. Shapes'
  BY <1>1 DEF Shapes, LogShape, L2PShape, Moves
<1>3. Grows /\ Applies
  BY <1>1 DEF Grows, Applies, Shapes, LogShape
<1> QED
  BY <1>2, <1>3 DEF Fine, Moves

\* A thread gets new collection locals.
LEMMA SetGC ==
  ASSUME GCShape, NEW t \in Threads, NEW g, GCRec(g), g.ret \in Back, g.err \in Back,
         gc' = [gc EXCEPT ![t] = g]
  PROVE  GCShape' /\ gc'[t] = g /\ \A u \in Threads \ {t} : gc'[u] = gc[u]
  BY DEF GCShape

\* The locals of a collection that has not begun are well formed.
LEMMA FreshGC ==
  GCRec(NoGC) /\ NoGC.ret \in Back /\ NoGC.err \in Back /\ NoGC.new = Unmapped
  BY DEF NoGC, GCRec, Back

\* The locals a collection changes, and the ones it keeps.
Same(h, g) == GCRec(h) /\ h.ret = g.ret /\ h.err = g.err /\ h.victim = g.victim

\* They stay so when the list of live segments changes.
LEMMA LiveGC ==
  ASSUME NEW g, GCRec(g), NEW a, NEW h, h = [g EXCEPT !.live = a]
  PROVE  Same(h, g) /\ h.new = g.new /\ h.item = g.item
  BY DEF GCRec, Same

\* They stay so when the next segment has been read.
LEMMA ItemGC ==
  ASSUME NEW g, GCRec(g), NEW a, NEW b, NEW c, NEW h,
         h = [g EXCEPT !.live = a, !.item = b, !.data = c]
  PROVE  Same(h, g)
  BY DEF GCRec, Same

\* A collection begins, in the background or for a writer short of zones: it has
\* moved nothing yet, so Own asks nothing of the log.
LEMMA SelectVictimFine ==
  ASSUME LogInv, NEW t \in Threads, NEW z \in Zones, NEW ret \in Back, NEW err \in Back,
         SelectVictim(t, z, ret, err), UNCHANGED cmdVars
  PROVE  Fine(t)
<1>0. PICK g : g = [NoGC EXCEPT !.victim = z, !.ret = ret, !.err = err]
  OBVIOUS
<1>1. UNCHANGED <<dev, wal, durable, l2p, fl, cmd>> /\ gc' = [gc EXCEPT ![t] = g]
  BY <1>0 DEF SelectVictim, mapVars, bufVars, cmdVars
<1>2. Shapes
  BY DEF LogInv
<1>3. pc'[t] = "freeze" /\ PCShape' /\ \A u \in Threads \ {t} : pc'[u] = pc[u]
  BY <1>2, GotoMoves DEF SelectVictim, Shapes
<1>4. GCRec(g) /\ g.victim = z /\ g.ret = ret /\ g.err = err /\ g.new = Unmapped
  BY <1>0, FreshGC DEF GCRec
<1>5. GCShape' /\ gc'[t] = g /\ \A u \in Threads \ {t} : gc'[u] = gc[u]
  BY <1>1, <1>2, <1>4, SetGC DEF Shapes
<1>6. Moves(t) /\ DevRec(dev') /\ Erases(t)
  BY <1>1, <1>2, <1>3, <1>5 DEF Moves, Others, Shapes, FlShape, CmdShape, Erases
<1>7. Own(t)'
  BY <1>3, <1>4, <1>5 DEF Own
<1> QED
  BY <1>1, <1>6, <1>7, Plain

\* Freezing the victim and listing its segments.
LEMMA FreezeVictimFine ==
  ASSUME LogInv, NEW t \in Threads, FreezeVictim(t), UNCHANGED cmdVars
  PROVE  Fine(t)
<1> DEFINE g == [gc[t] EXCEPT !.live = LiveSegs(gc[t].victim)]
<1>1. UNCHANGED <<dev, wal, durable, l2p, fl, cmd>> /\ gc' = [gc EXCEPT ![t] = g]
  BY DEF FreezeVictim, mapVars, bufVars, cmdVars
<1>2. Shapes /\ Own(t)
  BY DEF LogInv
<1>3. /\ pc[t] = "freeze" /\ pc'[t] = "read"
      /\ PCShape' /\ \A u \in Threads \ {t} : pc'[u] = pc[u]
  BY <1>2, GotoMoves DEF FreezeVictim, Shapes
<1>4. GCRec(gc[t]) /\ gc[t].ret \in Back /\ gc[t].err \in Back
  BY <1>2 DEF Shapes, GCShape
<1>5. /\ GCRec(g) /\ g.victim = gc[t].victim /\ g.ret \in Back /\ g.err \in Back
      /\ g.new = gc[t].new
  <2>1. Same(g, gc[t]) /\ g.new = gc[t].new
    BY <1>4, LiveGC
  <2> QED
    BY <1>4, <2>1 DEF Same
<1> HIDE DEF g
<1>6. GCShape' /\ gc'[t] = g /\ \A u \in Threads \ {t} : gc'[u] = gc[u]
  BY <1>1, <1>2, <1>5, SetGC DEF Shapes
<1>7. Moves(t) /\ DevRec(dev') /\ Erases(t)
  BY <1>1, <1>2, <1>3, <1>6 DEF Moves, Others, Shapes, FlShape, CmdShape, Erases
<1>8. Own(t)'
  BY <1>2, <1>3, <1>5, <1>6 DEF Own, Collecting
<1> QED
  BY <1>1, <1>7, <1>8, Plain

\* collectZone returns, with an error or without.
LEMMA LeaveCollection ==
  ASSUME LogInv, NEW t \in Threads, NEW x \in Back, Goto(t, x),
         gc' = [gc EXCEPT ![t] = NoGC], UNCHANGED <<wal, durable, l2p, fl, cmd>>,
         Fills(dev, dev')
  PROVE  Fine(t)
<1>1. Shapes
  BY DEF LogInv
<1>2. pc'[t] \in Back /\ PCShape' /\ \A u \in Threads \ {t} : pc'[u] = pc[u]
  BY <1>1, GotoMoves DEF Shapes
<1>3. GCShape' /\ \A u \in Threads \ {t} : gc'[u] = gc[u]
  BY <1>1, FreshGC, SetGC DEF Shapes
<1>4. Moves(t)
  BY <1>1, <1>2, <1>3 DEF Moves, Others, Shapes, FlShape, CmdShape
<1> QED
  BY <1>2, <1>4, Aside DEF Special, Collecting, Back

\* The end of a collection.
LEMMA MarkVictimFine ==
  ASSUME LogInv, NEW t \in Threads, MarkVictim(t), UNCHANGED cmdVars
  PROVE  Fine(t)
<1>1. gc[t].ret \in Back /\ DevRec(dev)
  BY DEF LogInv, Shapes, GCShape
<1>2. Fills(dev, dev')
  BY <1>1, FillsSame DEF MarkVictim
<1> QED
  BY <1>1, <1>2, LeaveCollection DEF MarkVictim, mapVars, bufVars, cmdVars

\* The next segment is skipped, read or given up; the record of the last one
\* moved is still in the log.
LEMMA MigrateReadFine ==
  ASSUME LogInv, NEW t \in Threads, MigrateRead(t), UNCHANGED cmdVars
  PROVE  Fine(t)
<1>1. UNCHANGED <<dev, wal, durable, l2p, fl, cmd>> /\ pc[t] = "read"
  BY DEF MigrateRead, bufVars, cmdVars
<1>2. Shapes /\ Own(t)
  BY DEF LogInv
<1>3. GCRec(gc[t]) /\ gc[t].ret \in Back /\ gc[t].err \in Back
  BY <1>2 DEF Shapes, GCShape
<1>4. ASSUME NEW e, gc' = [gc EXCEPT ![t] = [gc[t] EXCEPT !.live = @ \ {e}]],
             UNCHANGED pc
      PROVE  Fine(t)
  <2> DEFINE g == [gc[t] EXCEPT !.live = @ \ {e}]
  <2>1. /\ GCRec(g) /\ g.victim = gc[t].victim /\ g.ret \in Back /\ g.err \in Back
        /\ g.new = gc[t].new /\ g.item = gc[t].item
    <3>1. Same(g, gc[t]) /\ g.new = gc[t].new /\ g.item = gc[t].item
      BY <1>3, LiveGC
    <3> QED
      BY <1>3, <3>1 DEF Same
  <2> HIDE DEF g
  <2>2. GCShape' /\ gc'[t] = g /\ \A u \in Threads \ {t} : gc'[u] = gc[u]
    BY <1>2, <1>4, <2>1, SetGC DEF Shapes, g
  <2>3. Moves(t) /\ DevRec(dev') /\ Erases(t)
    BY <1>1, <1>2, <1>4, <2>2 DEF Moves, Others, Shapes, PCShape, FlShape, CmdShape, Erases
  <2>4. Own(t)'
    BY <1>1, <1>2, <1>4, <2>1, <2>2 DEF Own, Collecting, MoveLogged
  <2> QED
    BY <1>1, <2>3, <2>4, Plain
<1>5. ASSUME NEW e, NEW data, Goto(t, "galloc"),
             gc' = [gc EXCEPT ![t] = [gc[t] EXCEPT !.live = @ \ {e}, !.item = e,
                                                   !.data = data]]
      PROVE  Fine(t)
  <2> DEFINE g == [gc[t] EXCEPT !.live = @ \ {e}, !.item = e, !.data = data]
  <2>1. /\ GCRec(g) /\ g.victim = gc[t].victim /\ g.ret \in Back /\ g.err \in Back
    <3>1. Same(g, gc[t])
      BY <1>3, ItemGC
    <3> QED
      BY <1>3, <3>1 DEF Same
  <2> HIDE DEF g
  <2>2. GCShape' /\ gc'[t] = g /\ \A u \in Threads \ {t} : gc'[u] = gc[u]
    BY <1>2, <1>5, <2>1, SetGC DEF Shapes, g
  <2>3. pc'[t] = "galloc" /\ PCShape' /\ \A u \in Threads \ {t} : pc'[u] = pc[u]
    BY <1>2, <1>5, GotoMoves DEF Shapes
  <2>4. Moves(t) /\ DevRec(dev') /\ Erases(t)
    BY <1>1, <1>2, <2>2, <2>3 DEF Moves, Others, Shapes, FlShape, CmdShape, Erases
  <2>5. Own(t)'
    BY <1>1, <1>2, <2>1, <2>2, <2>3 DEF Own, Collecting
  <2> QED
    BY <1>1, <2>4, <2>5, Plain
<1>6. ASSUME Abandon(t, zm)
      PROVE  Fine(t)
  <2>1. Fills(dev, dev')
    BY <1>1, <1>2, FillsSame DEF Shapes
  <2> QED
    BY <1>1, <1>3, <1>6, <2>1, LeaveCollection DEF Abandon
<1> QED
  BY <1>4, <1>5, <1>6 DEF MigrateRead

\* Records stay where they are when the log grows.
LEMMA LogKeeps ==
  ASSUME LogShape, NEW x, wal' = Append(wal, x)
  PROVE  /\ IsSeq(wal') /\ Len(wal) \in Nat /\ Len(wal') = Len(wal) + 1
         /\ \A i \in 1 .. Len(wal) : wal'[i] = wal[i]
         /\ wal'[Len(wal')] = x
  BY AppendGrows DEF LogShape

\* A migration is logged before it is made: here MoveLogged becomes true.
LEMMA MigrateAllocFine ==
  ASSUME LogInv, NEW t \in Threads, MigrateAlloc(t), UNCHANGED cmdVars
  PROVE  Fine(t)
<1> DEFINE r   == AllocateFree(zm, dev)
           new == EncodePhysAddr(r.zone, r.zm.wp[r.zone] - zoneStartLBA(r.zone))
<1>1. UNCHANGED <<durable, l2p, fl, cmd>> /\ pc[t] = "galloc" /\ dev' = r.dev
  BY DEF MigrateAlloc, bufVars, cmdVars
<1>2. Shapes /\ Own(t)
  BY DEF LogInv
<1>3. GCRec(gc[t]) /\ gc[t].ret \in Back /\ gc[t].err \in Back
  BY <1>2 DEF Shapes, GCShape
<1>4. Fills(dev, dev')
  BY <1>1, <1>2, FillsAllocate DEF Shapes
<1>5. \/ /\ wal' = MigrationLogged(wal, gc[t].item, new) /\ Goto(t, "gwrite")
         /\ gc' = [gc EXCEPT ![t].zone = r.zone, ![t].new = new]
      \/ Abandon(t, r.zm) /\ UNCHANGED wal
  BY DEF MigrateAlloc
<1> HIDE DEF r, new
<1>6. ASSUME wal' = MigrationLogged(wal, gc[t].item, new), Goto(t, "gwrite"),
             gc' = [gc EXCEPT ![t].zone = r.zone, ![t].new = new]
      PROVE  Fine(t)
  <2>0. PICK g : g = [gc[t] EXCEPT !.zone = r.zone, !.new = new]
    OBVIOUS
  <2>1. Same(g, gc[t]) /\ g.new = new /\ g.item = gc[t].item
    BY <1>3, <2>0 DEF GCRec, Same
  <2>2. gc' = [gc EXCEPT ![t] = g]
    BY <1>6, <2>0
  <2>3. GCShape' /\ gc'[t] = g /\ \A u \in Threads \ {t} : gc'[u] = gc[u]
    BY <1>2, <1>3, <2>1, <2>2, SetGC DEF Shapes, Same
  <2>4. pc'[t] = "gwrite" /\ PCShape' /\ \A u \in Threads \ {t} : pc'[u] = pc[u]
    BY <1>2, <1>6, GotoMoves DEF Shapes
  <2>5. PICK x : /\ wal' = Append(wal, x)
                 /\ x.kind = "L2P" /\ x.seg = gc[t].item[2] /\ x.new = new
    BY <1>6 DEF MigrationLogged, LogL2PUpdate, L2PRecord
  <2>6. /\ IsSeq(wal') /\ Len(wal) \in Nat /\ Len(wal') = Len(wal) + 1
        /\ wal'[Len(wal')] = x
    BY <1>2, <2>5, LogKeeps DEF Shapes
  <2>7. MoveLogged(t, Len(wal))'
    BY <2>1, <2>3, <2>5, <2>6 DEF MoveLogged
  <2>8. Own(t)'
    BY <1>1, <1>2, <2>1, <2>3, <2>4, <2>7 DEF Own, Collecting, Same
  <2>9. LogShape' /\ Grows /\ Applies
    BY <1>1, <1>2, <2>5, <2>6 DEF Shapes, LogShape, Grows, Applies
  <2>10. Shapes' /\ Others(t)
    BY <1>1, <1>2, <1>4, <2>3, <2>4, <2>9
      DEF Shapes, Others, L2PShape, FlShape, CmdShape, Fills
  <2> QED
    BY <1>4, <2>8, <2>9, <2>10 DEF Fine, Erases, Fills
<1>7. ASSUME Abandon(t, r.zm), UNCHANGED wal
      PROVE  Fine(t)
  BY <1>1, <1>3, <1>4, <1>7, LeaveCollection DEF Abandon
<1> QED
  BY <1>5, <1>6, <1>7

\* Writing the copy keeps the record of the move in the log.
LEMMA MigrateWriteFine ==
  ASSUME LogInv, NEW t \in Threads, MigrateWrite(t), UNCHANGED cmdVars
  PROVE  Fine(t)
<1>1. UNCHANGED <<wal, durable, l2p, fl, cmd>> /\ pc[t] = "gwrite"
  BY DEF MigrateWrite, mapVars, bufVars, cmdVars
<1>2. Shapes /\ Own(t)
  BY DEF LogInv
<1>3. gc[t].err \in Back
  BY <1>2 DEF Shapes, GCShape
<1>4. Fills(dev, dev')
  BY <1>2, FillsWrite DEF MigrateWrite, Shapes
<1>5. ASSUME Goto(t, "cas"), UNCHANGED gc
      PROVE  Fine(t)
  <2>1. pc'[t] = "cas" /\ PCShape' /\ \A u \in Threads \ {t} : pc'[u] = pc[u]
    BY <1>2, <1>5, GotoMoves DEF Shapes
  <2>2. Moves(t) /\ DevRec(dev') /\ Erases(t)
    BY <1>1, <1>2, <1>4, <1>5, <2>1
      DEF Moves, Others, Shapes, FlShape, GCShape, CmdShape, Erases, Fills
  <2>3. Own(t)'
    BY <1>1, <1>2, <1>5, <2>1 DEF Own, Collecting, MoveLogged
  <2> QED
    BY <1>1, <2>2, <2>3, Plain
<1>6. ASSUME Abandon(t, zm)
      PROVE  Fine(t)
  BY <1>1, <1>3, <1>4, <1>6, LeaveCollection DEF Abandon
<1> QED
  BY <1>5, <1>6 DEF MigrateWrite

\* The compare-and-swap stores the address MigrateAlloc has logged.
LEMMA MigrateCASFine ==
  ASSUME LogInv, NEW t \in Threads, MigrateCAS(t), UNCHANGED cmdVars
  PROVE  Fine(t)
<1> DEFINE e == gc[t].item
<1>1. UNCHANGED <<dev, wal, durable, fl, gc, cmd>> /\ pc[t] = "cas"
  BY DEF MigrateCAS, bufVars, gcVars, cmdVars
<1>2. Shapes /\ Own(t)
  BY DEF LogInv
<1>3. pc'[t] \in {"gmaps", "read"} /\ PCShape' /\ \A u \in Threads \ {t} : pc'[u] = pc[u]
  BY <1>2, GotoMoves DEF MigrateCAS, Shapes
<1>4. l2p' = l2p \/ l2p' = [l2p EXCEPT ![e[2]] = gc[t].new]
  BY DEF MigrateCAS, L2PSet
<1>5. InLog(wal, e[2], gc[t].new)
  BY <1>1, <1>2 DEF Own, MoveLogged, InLog
<1>6. L2PShape' /\ Applies
  BY <1>2, <1>4, <1>5 DEF Shapes, L2PShape, Applies
<1>7. Own(t)'
  BY <1>1, <1>2, <1>3 DEF Own, Collecting, MoveLogged
<1>8. Shapes' /\ Others(t) /\ Grows /\ Erases(t)
  BY <1>1, <1>2, <1>3, <1>6
    DEF Shapes, LogShape, Others, Grows, Erases, FlShape, GCShape, CmdShape
<1> QED
  BY <1>6, <1>7, <1>8 DEF Fine

\* P2L and the counts follow the move.
LEMMA MigrateMapsFine ==
  ASSUME LogInv, NEW t \in Threads, MigrateMaps(t), UNCHANGED cmdVars
  PROVE  Fine(t)
<1>1. UNCHANGED <<dev, wal, durable, l2p, fl, gc, cmd>> /\ pc[t] = "gmaps"
  BY DEF MigrateMaps, bufVars, gcVars, cmdVars
<1>2. Shapes /\ Own(t)
  BY DEF LogInv
<1>3. pc'[t] = "read" /\ PCShape' /\ \A u \in Threads \ {t} : pc'[u] = pc[u]
  BY <1>2, GotoMoves DEF MigrateMaps, Shapes
<1>4. Moves(t) /\ DevRec(dev') /\ Erases(t)
  BY <1>1, <1>2, <1>3 DEF Moves, Others, Shapes, FlShape, GCShape, CmdShape, Erases
<1>5. Own(t)'
  BY <1>1, <1>2, <1>3 DEF Own, Collecting, MoveLogged
<1> QED
  BY <1>1, <1>4, <1>5, Plain

\* The reset record goes after every migration and is committed: here ResetLogged
\* becomes true.
LEMMA JournalResetFine ==
  ASSUME LogInv, NEW t \in Threads, JournalReset(t), UNCHANGED cmdVars
  PROVE  Fine(t)
<1>1. /\ UNCHANGED <<dev, l2p, fl, gc, cmd>> /\ pc[t] = "read"
      /\ wal' = Append(wal, ZoneResetRecord(gc[t].victim)) /\ durable' = Len(wal')
  BY DEF JournalReset, LogZoneReset, bufVars, gcVars, cmdVars
<1>2. Shapes /\ Own(t)
  BY DEF LogInv
<1>3. pc'[t] = "reset" /\ PCShape' /\ \A u \in Threads \ {t} : pc'[u] = pc[u]
  BY <1>2, GotoMoves DEF JournalReset, Shapes
<1>4. /\ IsSeq(wal') /\ Len(wal) \in Nat /\ Len(wal') = Len(wal) + 1
      /\ \A i \in 1 .. Len(wal) : wal'[i] = wal[i]
      /\ wal'[Len(wal')] = ZoneResetRecord(gc[t].victim)
  BY <1>1, <1>2, LogKeeps DEF Shapes
<1>5. gc[t].new # Unmapped => MoveLogged(t, Len(wal) - 1)'
  BY <1>1, <1>2, <1>4 DEF Own, MoveLogged
<1>6. ResetLogged(t)'
  BY <1>1, <1>4, <1>5 DEF ResetLogged, ZoneResetRecord
<1>7. Own(t)'
  BY <1>1, <1>2, <1>3, <1>6 DEF Own, Collecting
<1>8. LogShape' /\ Grows /\ Applies
  BY <1>1, <1>2, <1>4 DEF Shapes, LogShape, Grows, Applies
<1>9. Shapes' /\ Others(t) /\ Erases(t)
  BY <1>1, <1>2, <1>3, <1>8 DEF Shapes, L2PShape, FlShape, GCShape, CmdShape, Others, Erases
<1> QED
  BY <1>7, <1>8, <1>9 DEF Fine

\* A zone's first LBA lies in that zone.
LEMMA StartIndex ==
  ASSUME NEW z \in Zones
  PROVE  zoneIndex(zoneStartLBA(z)) = z
<1>1. z \in Nat /\ ZoneSectors \in Nat \ {0}
  BY DeviceAssumption DEF Zones
<1>2. z * ZoneSectors \in Nat
  BY <1>1
<1>3. (z * ZoneSectors) \div ZoneSectors = z
  BY <1>1, <1>2
<1> QED
  BY <1>3 DEF zoneIndex, zoneStartLBA

\* The device reset empties the victim and no other zone.
LEMMA ResetVictimFine ==
  ASSUME LogInv, NEW t \in Threads, ResetVictim(t), UNCHANGED cmdVars
  PROVE  Fine(t)
<1> DEFINE z == gc[t].victim
<1>1. UNCHANGED <<wal, durable, l2p, fl, gc, cmd>> /\ pc[t] = "reset"
  BY DEF ResetVictim, mapVars, bufVars, gcVars, cmdVars
<1>2. Shapes /\ Own(t)
  BY DEF LogInv
<1>3. z \in Zones
  BY <1>1, <1>2 DEF Own, Collecting
<1>4. pc'[t] = "mark" /\ PCShape' /\ \A u \in Threads \ {t} : pc'[u] = pc[u]
  BY <1>2, GotoMoves DEF ResetVictim, Shapes
<1>5. dev' = ResetZone(dev, zoneStartLBA(z)).dev /\ zoneIndex(zoneStartLBA(z)) = z
  BY <1>3, StartIndex DEF ResetVictim
<1> HIDE DEF z
<1>6. /\ dev' = [st |-> dev'.st, wp |-> dev'.wp, data |-> dev'.data, open |-> dev'.open]
      /\ dev'.st = [dev.st EXCEPT ![z] = "EMPTY"]
  BY <1>2, <1>3, <1>5 DEF ResetZone, Ok, Shapes, DevRec
<1>7. DevRec(dev') /\ Erases(t)
  BY <1>1, <1>2, <1>6 DEF Shapes, DevRec, Erases, z
<1>8. Moves(t)
  BY <1>1, <1>2, <1>4 DEF Moves, Others, Shapes, FlShape, GCShape, CmdShape
<1>9. Own(t)'
  BY <1>1, <1>2, <1>4 DEF Own, Collecting
<1> QED
  BY <1>1, <1>7, <1>8, <1>9, Plain

\* Every step of a collection.
LEMMA GCStepFine ==
  ASSUME LogInv, NEW t \in Threads, GCStep(t), UNCHANGED cmdVars
  PROVE  Fine(t)
  BY FreezeVictimFine, MigrateReadFine, MigrateAllocFine, MigrateWriteFine, MigrateCASFine,
     MigrateMapsFine, JournalResetFine, ResetVictimFine, MarkVictimFine DEF GCStep

-----------------------------------------------------------------------------
(* Steps of a command *)

\* Clients are threads.
LEMMA ClientsAreThreads == Clients \subseteq Threads
  BY DEF Threads

\* Replacing one client's locals by well-formed ones leaves the others'.
LEMMA SetCmd ==
  ASSUME CmdShape, NEW t \in Clients, NEW c, CmdRec(c), cmd' = [cmd EXCEPT ![t] = c]
  PROVE  CmdShape' /\ cmd'[t] = c /\ \A u \in Clients \ {t} : cmd'[u] = cmd[u]
  BY DEF CmdShape

\* The part of a client's step that a command's locals and its next step make.
LEMMA ClientMoves ==
  ASSUME LogInv, NEW t \in Clients, PCShape', \A u \in Threads \ {t} : pc'[u] = pc[u],
         CmdShape', \A u \in Clients \ {t} : cmd'[u] = cmd[u], FlShape', UNCHANGED gc
  PROVE  Moves(t)
  BY DEF LogInv, Shapes, GCShape, Moves, Others

\* The locals of no command are well formed.
LEMMA FreshCmd == CmdRec(NoCmd)
  BY DEF NoCmd, CmdRec

\* A command begins, its number and range in c.
LEMMA BeginMoves ==
  ASSUME LogInv, NEW t \in Clients, NEW c, CmdRec(c), NEW step, Begin(t, c, step)
  PROVE  /\ PCShape' /\ pc'[t] = step /\ \A u \in Threads \ {t} : pc'[u] = pc[u]
         /\ CmdShape' /\ \A u \in Clients \ {t} : cmd'[u] = cmd[u]
<1>1. PCShape /\ CmdShape /\ t \in Threads
  BY ClientsAreThreads DEF LogInv, Shapes
<1>2. PICK b : cmd' = [cmd EXCEPT ![t] = [c EXCEPT !.before = b]]
  BY DEF Begin
<1>3. PICK d : d = [c EXCEPT !.before = b]
  OBVIOUS
<1>4. CmdRec(d)
  BY <1>3 DEF CmdRec
<1>5. CmdShape' /\ \A u \in Clients \ {t} : cmd'[u] = cmd[u]
  BY <1>1, <1>2, <1>3, <1>4, SetCmd
<1> QED
  BY <1>1, <1>5, GotoMoves DEF Begin

\* A command ends.
LEMMA EndMoves ==
  ASSUME LogInv, NEW t \in Clients, End(t)
  PROVE  /\ PCShape' /\ pc'[t] = "idle" /\ \A u \in Threads \ {t} : pc'[u] = pc[u]
         /\ CmdShape' /\ \A u \in Clients \ {t} : cmd'[u] = cmd[u]
<1>1. PCShape /\ CmdShape /\ t \in Threads
  BY ClientsAreThreads DEF LogInv, Shapes
<1> QED
  BY <1>1, FreshCmd, SetCmd, GotoMoves DEF End

\* Write, Unmap and Flush begin.
LEMMA IssueFine ==
  ASSUME LogInv, NEW t \in Clients, Issue(t)
  PROVE  Fine(t)
<1>0. t \in Threads /\ Shapes /\ Fills(dev, dev)
  BY ClientsAreThreads, FillsSame DEF LogInv, Shapes
<1>1. ASSUME NEW c, CmdRec(c), NEW step, step \notin Special, Begin(t, c, step), FlShape',
             UNCHANGED <<dev, wal, durable, l2p, gc>>
      PROVE  Fine(t)
  BY <1>0, <1>1, BeginMoves, ClientMoves, Aside
<1>2. ASSUME NEW req, Write(t, req)
      PROVE  Fine(t)
  <2>1. PICK c : c = [NoCmd EXCEPT !.kind = "write", !.lba = req[1],
                        !.end = req[1] + req[2], !.id = cmds + 1,
                        !.seg = LBAToSegmentID(req[1])]
    OBVIOUS
  <2>2. CmdRec(c)
    BY <2>1, FreshCmd DEF CmdRec
  <2>3. Begin(t, c, "check") /\ UNCHANGED <<dev, wal, durable, l2p, gc, fl>>
    BY <1>2, <2>1 DEF Write, mapVars, bufVars, gcVars
  <2>4. FlShape' /\ "check" \notin Special
    BY <1>0, <2>3 DEF Shapes, FlShape, Special, Collecting
  <2> QED
    BY <1>1, <2>2, <2>3, <2>4
<1>3. ASSUME NEW req, Unmap(t, req)
      PROVE  Fine(t)
  <2>1. PICK c : c = [NoCmd EXCEPT !.kind = "unmap", !.lba = req[1],
                        !.end = req[1] + req[2], !.id = cmds + 1,
                        !.seg = LBAToSegmentID(req[1])]
    OBVIOUS
  <2>2. CmdRec(c)
    BY <2>1, FreshCmd DEF CmdRec
  <2>3. Begin(t, c, "ulock") /\ UNCHANGED <<dev, wal, durable, l2p, gc, fl>>
    BY <1>3, <2>1 DEF Unmap, mapVars, bufVars, gcVars
  <2>4. FlShape' /\ "ulock" \notin Special
    BY <1>0, <2>3 DEF Shapes, FlShape, Special, Collecting
  <2> QED
    BY <1>1, <2>2, <2>3, <2>4
<1>4. ASSUME Flush(t)
      PROVE  Fine(t)
  <2>1. PICK c : c = [NoCmd EXCEPT !.kind = "flush", !.id = cmds + 1]
    OBVIOUS
  <2>2. CmdRec(c)
    BY <2>1, FreshCmd DEF CmdRec
  <2>3. Begin(t, c, "fnext") /\ UNCHANGED <<dev, wal, durable, l2p, gc>>
    BY <1>4, <2>1 DEF Flush, mapVars, gcVars
  <2>4. FlShape'
    BY <1>0, <1>4, FreshFl, SetFl DEF Flush, Shapes
  <2>5. "fnext" \notin Special
    BY DEF Special, Collecting
  <2> QED
    BY <1>1, <2>2, <2>3, <2>4, <2>5
<1> QED
  BY <1>2, <1>3, <1>4 DEF Issue

\* What a client's step has to work with.
LEMMA ClientStart ==
  ASSUME LogInv, NEW t \in Clients
  PROVE  /\ t \in Threads /\ Shapes /\ Own(t) /\ Fills(dev, dev)
         /\ DevRec(dev) /\ LogShape /\ L2PShape /\ PCShape /\ FlShape /\ GCShape
         /\ CmdShape /\ CmdRec(cmd[t])
  BY ClientsAreThreads, FillsSame DEF LogInv, Shapes, CmdShape

\* A step of a command that neither logs nor applies anything.
LEMMA ClientAside ==
  ASSUME LogInv, NEW t \in Clients, NEW x, x \notin Special, Goto(t, x),
         CmdShape', \A u \in Clients \ {t} : cmd'[u] = cmd[u], FlShape',
         UNCHANGED <<wal, durable, l2p, gc>>, Fills(dev, dev')
  PROVE  Fine(t)
<1>1. t \in Threads /\ PCShape
  BY ClientStart
<1>2. PCShape' /\ pc'[t] = x /\ \A u \in Threads \ {t} : pc'[u] = pc[u]
  BY <1>1, GotoMoves
<1>3. Moves(t)
  BY <1>2, ClientMoves
<1> QED
  BY <1>1, <1>2, <1>3, Aside

\* The check for free zones before a write, and what it starts.
LEMMA RunEmergencyGCFine ==
  ASSUME LogInv, NEW t \in Clients, RunEmergencyGC(t)
  PROVE  Fine(t)
<1>1. t \in Threads /\ Fills(dev, dev) /\ CmdShape /\ FlShape
  BY ClientStart
<1>2. ASSUME NEW x \in {"lock", "fail"}, Goto(t, x),
             UNCHANGED <<dev, mapVars, bufVars, gcVars, cmdVars>>
      PROVE  Fine(t)
  <2>1. UNCHANGED <<dev, wal, durable, l2p, gc, fl, cmd>> /\ x \notin Special
    BY <1>2 DEF mapVars, bufVars, gcVars, cmdVars, Special, Collecting
  <2>2. CmdShape' /\ FlShape' /\ (\A u \in Clients \ {t} : cmd'[u] = cmd[u])
    BY <1>1, <2>1 DEF CmdShape, FlShape
  <2> QED
    BY <1>1, <1>2, <2>1, <2>2, ClientAside
<1>3. ASSUME NEW z \in Zones, SelectVictim(t, z, "check", "fail"), UNCHANGED cmdVars
      PROVE  Fine(t)
  <2>1. "check" \in Back /\ "fail" \in Back
    BY DEF Back
  <2> QED
    BY <1>1, <1>3, <2>1, SelectVictimFine
<1> QED
  BY <1>2, <1>3 DEF RunEmergencyGC

\* The log grows by x while t takes a step of its command.
LEMMA ClientLogs ==
  ASSUME LogInv, NEW t \in Clients, NEW x, wal' = Append(wal, x), NEW step, Goto(t, step),
         CmdShape', \A u \in Clients \ {t} : cmd'[u] = cmd[u],
         UNCHANGED <<durable, l2p, gc, fl>>, Fills(dev, dev'),
         \/ step \notin Special
         \/ step = "set" /\ x.kind = "L2P" /\ x.seg = cmd'[t].seg /\ x.new = cmd'[t].new
  PROVE  Fine(t)
<1>1. t \in Threads /\ PCShape /\ LogShape /\ L2PShape /\ FlShape /\ GCShape
  BY ClientStart
<1>2. PCShape' /\ pc'[t] = step /\ \A u \in Threads \ {t} : pc'[u] = pc[u]
  BY <1>1, GotoMoves
<1>3. /\ IsSeq(wal') /\ Len(wal) \in Nat /\ Len(wal') = Len(wal) + 1
      /\ wal'[Len(wal')] = x
  BY <1>1, LogKeeps
<1>4. step = "set" => InLog(wal', cmd'[t].seg, cmd'[t].new)
  BY <1>3 DEF InLog, Special
<1>5. Own(t)'
  BY <1>2, <1>4 DEF Own, Special, Collecting
<1>6. LogShape' /\ Grows /\ Applies
  BY <1>1, <1>3 DEF LogShape, Grows, Applies
<1>7. FlShape' /\ GCShape' /\ L2PShape'
  BY <1>1 DEF FlShape, GCShape, L2PShape
<1>8. Shapes' /\ Others(t) /\ Erases(t)
  BY <1>2, <1>6, <1>7 DEF Shapes, Others, Erases, Fills
<1> QED
  BY <1>5, <1>6, <1>8 DEF Fine

\* A command's zone is set.
LEMMA ZoneCmd ==
  ASSUME CmdShape, NEW t \in Clients, NEW z, cmd' = [cmd EXCEPT ![t].zone = z]
  PROVE  CmdShape' /\ \A u \in Clients \ {t} : cmd'[u] = cmd[u]
<1>1. PICK c : c = [cmd[t] EXCEPT !.zone = z]
  OBVIOUS
<1>2. CmdRec(cmd[t])
  BY DEF CmdShape
<1>3. CmdRec(c)
  BY <1>1, <1>2 DEF CmdRec
<1> QED
  BY <1>1, <1>3, SetCmd

\* getWriteZone: a ZONE_OPEN record may be appended.
LEMMA WriteLockFine ==
  ASSUME LogInv, NEW t \in Clients, WriteLock(t)
  PROVE  Fine(t)
<1>1. t \in Threads /\ DevRec(dev) /\ Fills(dev, dev) /\ CmdShape /\ FlShape
  BY ClientStart
<1>2. UNCHANGED <<durable, l2p, gc, fl>> /\ FlShape'
  BY <1>1 DEF WriteLock, bufVars, gcVars, FlShape
<1>3. "log" \notin Special /\ "fail" \notin Special
  BY DEF Special, Collecting
<1>4. Fills(dev, AllocateFree(zm, dev).dev)
  BY <1>1, FillsAllocate
<1>5. CASE cur.open /\ HasRoom(cur.zone)
  <2>1. /\ cmd' = [cmd EXCEPT ![t].zone = cur.zone] /\ Goto(t, "log")
        /\ UNCHANGED <<dev, wal>>
    BY <1>5 DEF WriteLock
  <2>2. CmdShape' /\ \A u \in Clients \ {t} : cmd'[u] = cmd[u]
    BY <1>1, <2>1, ZoneCmd
  <2> QED
    BY <1>1, <1>2, <1>3, <2>1, <2>2, ClientAside
<1>6. CASE ~(cur.open /\ HasRoom(cur.zone))
  <2> DEFINE r == AllocateFree(zm, dev)
  <2>1. /\ dev' = r.dev
        /\ \/ /\ wal' = LogZoneOpen(wal, r.zone) /\ Goto(t, "log")
              /\ cmd' = [cmd EXCEPT ![t].zone = r.zone]
           \/ Goto(t, "fail") /\ UNCHANGED <<wal, cmd>>
    BY <1>6 DEF WriteLock
  <2> HIDE DEF r
  <2>2. Fills(dev, dev')
    BY <1>4, <2>1 DEF r
  <2>3. ASSUME wal' = LogZoneOpen(wal, r.zone), Goto(t, "log"),
               cmd' = [cmd EXCEPT ![t].zone = r.zone]
        PROVE  Fine(t)
    <3>1. CmdShape' /\ \A u \in Clients \ {t} : cmd'[u] = cmd[u]
      BY <1>1, <2>3, ZoneCmd
    <3>2. wal' = Append(wal, ZoneOpenRecord(r.zone))
      BY <2>3 DEF LogZoneOpen
    <3> QED
      BY <1>2, <1>3, <2>2, <2>3, <3>1, <3>2, ClientLogs
  <2>4. ASSUME Goto(t, "fail"), UNCHANGED <<wal, cmd>>
        PROVE  Fine(t)
    <3>1. CmdShape' /\ \A u \in Clients \ {t} : cmd'[u] = cmd[u]
      BY <1>1, <2>4 DEF CmdShape
    <3> QED
      BY <1>2, <1>3, <2>2, <2>4, <3>1, ClientAside
  <2> QED
    BY <2>1, <2>3, <2>4
<1> QED
  BY <1>5, <1>6

\* Write logs its update: here Own's first conjunct becomes true.
LEMMA WriteLogFine ==
  ASSUME LogInv, NEW t \in Clients, WriteLog(t)
  PROVE  Fine(t)
<1> DEFINE wp  == zm.wp[cmd[t].zone]
           old == L2PGet(l2p, cmd[t].seg)
           new == EncodePhysAddr(cmd[t].zone, wp - zoneStartLBA(cmd[t].zone))
<1>1. /\ UNCHANGED <<dev, durable, l2p, gc, fl>> /\ Goto(t, "set")
      /\ wal' = Append(wal, L2PRecord(cmd[t].seg, old, new))
      /\ cmd' = [cmd EXCEPT ![t].wp = wp, ![t].old = old, ![t].new = new]
  BY DEF WriteLog, LogL2PUpdate, bufVars, gcVars
<1> HIDE DEF wp, old, new
<1>2. Fills(dev, dev') /\ CmdShape /\ CmdRec(cmd[t])
  BY <1>1, ClientStart
<1>3. PICK c : c = [cmd[t] EXCEPT !.wp = wp, !.old = old, !.new = new]
  OBVIOUS
<1>4. CmdRec(c) /\ c.seg = cmd[t].seg /\ c.new = new
  BY <1>2, <1>3 DEF CmdRec
<1>5. CmdShape' /\ cmd'[t] = c /\ \A u \in Clients \ {t} : cmd'[u] = cmd[u]
  <2>1. cmd' = [cmd EXCEPT ![t] = c]
    BY <1>1, <1>3
  <2> QED
    BY <1>2, <1>4, <2>1, SetCmd
<1>6. PICK x : /\ wal' = Append(wal, x)
               /\ x.kind = "L2P" /\ x.seg = cmd[t].seg /\ x.new = new
  BY <1>1 DEF L2PRecord
<1> QED
  BY <1>1, <1>2, <1>4, <1>5, <1>6, ClientLogs

\* l2p.Set stores the address that WriteLog or UnmapLog has logged.
LEMMA SetL2PFine ==
  ASSUME LogInv, NEW t \in Clients, SetL2P(t)
  PROVE  Fine(t)
<1>1. UNCHANGED <<dev, wal, durable, fl, gc, cmd>> /\ pc[t] = "set"
  BY DEF SetL2P, bufVars, gcVars, cmdVars
<1>2. /\ t \in Threads /\ DevRec(dev) /\ LogShape /\ L2PShape /\ PCShape /\ FlShape
      /\ GCShape /\ CmdShape /\ Own(t)
  BY ClientStart
<1>3. pc'[t] \in {"maps", "umaps"} /\ PCShape' /\ \A u \in Threads \ {t} : pc'[u] = pc[u]
  BY <1>2, GotoMoves DEF SetL2P
<1>4. InLog(wal, cmd[t].seg, cmd[t].new)
  BY <1>1, <1>2 DEF Own
<1>5. l2p' = [l2p EXCEPT ![cmd[t].seg] = cmd[t].new]
  BY DEF SetL2P, L2PSet
<1>6. L2PShape' /\ Applies
  BY <1>2, <1>4, <1>5 DEF L2PShape, Applies
<1>7. Own(t)'
  BY <1>3 DEF Own, Collecting
<1>8. LogShape' /\ Grows /\ FlShape' /\ GCShape' /\ CmdShape' /\ DevRec(dev') /\ Erases(t)
  BY <1>1, <1>2 DEF LogShape, Grows, FlShape, GCShape, CmdShape, Erases
<1>9. Shapes' /\ Others(t)
  BY <1>1, <1>3, <1>6, <1>8 DEF Shapes, Others
<1> QED
  BY <1>6, <1>7, <1>8, <1>9 DEF Fine

\* P2L, the counts and the write pointer after a segment's write.
LEMMA WriteMapsFine ==
  ASSUME LogInv, NEW t \in Clients, WriteMaps(t)
  PROVE  Fine(t)
<1>1. UNCHANGED <<dev, wal, durable, l2p, gc, fl, cmd>> /\ Goto(t, "add")
  BY DEF WriteMaps, bufVars, gcVars, cmdVars
<1>2. Fills(dev, dev') /\ CmdShape /\ FlShape
  BY <1>1, ClientStart
<1>3. CmdShape' /\ FlShape' /\ (\A u \in Clients \ {t} : cmd'[u] = cmd[u])
  BY <1>1, <1>2 DEF CmdShape, FlShape
<1>4. "add" \notin Special
  BY DEF Special, Collecting
<1> QED
  BY <1>1, <1>2, <1>3, <1>4, ClientAside

\* The loop of Write or of Unmap advances.
LEMMA SegCmd ==
  ASSUME CmdShape, NEW t \in Clients, cmd' = [cmd EXCEPT ![t].seg = @ + 1]
  PROVE  CmdShape' /\ \A u \in Clients \ {t} : cmd'[u] = cmd[u]
<1>1. PICK c : c = [cmd[t] EXCEPT !.seg = @ + 1]
  OBVIOUS
<1>2. CmdRec(cmd[t])
  BY DEF CmdShape
<1>3. CmdRec(c)
  BY <1>1, <1>2 DEF CmdRec
<1> QED
  BY <1>1, <1>3, SetCmd

\* The loop of Write moves only its own thread.
LEMMA NextSegmentMoves ==
  ASSUME CmdShape, NEW t \in Clients, NextSegment(t)
  PROVE  /\ CmdShape' /\ \A u \in Clients \ {t} : cmd'[u] = cmd[u]
         /\ \E x \in {"commit", "lock"} : Goto(t, x)
<1>1. CASE cmd[t].seg = LBAToSegmentID(cmd[t].end - 1)
  BY <1>1 DEF NextSegment, CmdShape
<1>2. CASE cmd[t].seg # LBAToSegmentID(cmd[t].end - 1)
  BY <1>2, SegCmd DEF NextSegment
<1> QED
  BY <1>1, <1>2

\* Buffering the segment, and leaving ztl.mu.
LEMMA WriteAddFine ==
  ASSUME LogInv, NEW t \in Clients, WriteAdd(t)
  PROVE  Fine(t)
<1>1. UNCHANGED <<dev, wal, durable, l2p, gc>>
  BY DEF WriteAdd, mapVars, gcVars
<1>2. Fills(dev, dev') /\ CmdShape /\ FlShape /\ t \in Threads
  BY <1>1, ClientStart
<1>3. \A x \in {"ftake", "commit", "lock"} : x \notin Special
  BY DEF Special, Collecting
<1>4. CASE NewWP(cmd[t]) >= zoneEndLBA(cmd[t].zone)
  <2>1. /\ fl' = [fl EXCEPT ![t] = [NoFlush EXCEPT !.zone = cmd[t].zone, !.ret = "relock"]]
        /\ Goto(t, "ftake") /\ UNCHANGED cmd
    BY <1>4 DEF WriteAdd
  <2>2. FlShape'
    BY <1>2, <2>1, FreshFl, SetFl
  <2>3. CmdShape' /\ \A u \in Clients \ {t} : cmd'[u] = cmd[u]
    BY <1>2, <2>1 DEF CmdShape
  <2> QED
    BY <1>1, <1>2, <1>3, <2>1, <2>2, <2>3, ClientAside
<1>5. CASE ~(NewWP(cmd[t]) >= zoneEndLBA(cmd[t].zone))
  <2>1. NextSegment(t) /\ UNCHANGED fl
    BY <1>5 DEF WriteAdd
  <2>2. FlShape'
    BY <1>2, <2>1 DEF FlShape
  <2> QED
    BY <1>1, <1>2, <1>3, <2>1, <2>2, NextSegmentMoves, ClientAside
<1> QED
  BY <1>4, <1>5

\* Taking ztl.mu again after the flush of a full zone.
LEMMA WriteRelockFine ==
  ASSUME LogInv, NEW t \in Clients, WriteRelock(t)
  PROVE  Fine(t)
<1>1. UNCHANGED <<dev, wal, durable, l2p, gc>>
  BY DEF WriteRelock, mapVars, gcVars
<1>2. Fills(dev, dev') /\ CmdShape /\ FlShape /\ t \in Threads
  BY <1>1, ClientStart
<1>3. \A x \in {"fail", "commit", "lock"} : x \notin Special
  BY DEF Special, Collecting
<1>4. FlShape'
  BY <1>2, FreshFl, SetFl DEF WriteRelock
<1>5. ASSUME Goto(t, "fail"), UNCHANGED cmd
      PROVE  Fine(t)
  <2>1. CmdShape' /\ \A u \in Clients \ {t} : cmd'[u] = cmd[u]
    BY <1>2, <1>5 DEF CmdShape
  <2> QED
    BY <1>1, <1>2, <1>3, <1>4, <1>5, <2>1, ClientAside
<1>6. ASSUME NextSegment(t)
      PROVE  Fine(t)
  BY <1>1, <1>2, <1>3, <1>4, <1>6, NextSegmentMoves, ClientAside
<1> QED
  BY <1>5, <1>6 DEF WriteRelock

\* Unmap takes ztl.mu.
LEMMA UnmapLockFine ==
  ASSUME LogInv, NEW t \in Clients, UnmapLock(t)
  PROVE  Fine(t)
<1>1. UNCHANGED <<dev, wal, durable, l2p, gc, fl, cmd>> /\ Goto(t, "ulog")
  BY DEF UnmapLock, mapVars, bufVars, gcVars
<1>2. Fills(dev, dev') /\ CmdShape /\ FlShape
  BY <1>1, ClientStart
<1>3. CmdShape' /\ FlShape' /\ (\A u \in Clients \ {t} : cmd'[u] = cmd[u])
  BY <1>1, <1>2 DEF CmdShape, FlShape
<1>4. "ulog" \notin Special
  BY DEF Special, Collecting
<1> QED
  BY <1>1, <1>2, <1>3, <1>4, ClientAside

\* The loop of Unmap moves only its own thread.
LEMMA NextUnmapMoves ==
  ASSUME CmdShape, NEW t \in Clients, NextUnmap(t)
  PROVE  /\ CmdShape' /\ \A u \in Clients \ {t} : cmd'[u] = cmd[u]
         /\ \E x \in {"idle", "ulog"} : Goto(t, x)
<1>1. CASE cmd[t].seg = LBAToSegmentID(cmd[t].end - 1)
  BY <1>1, FreshCmd, SetCmd DEF NextUnmap, End
<1>2. CASE cmd[t].seg # LBAToSegmentID(cmd[t].end - 1)
  BY <1>2, SegCmd DEF NextUnmap
<1> QED
  BY <1>1, <1>2

\* Unmap logs its update, or skips a segment that is not mapped.
LEMMA UnmapLogFine ==
  ASSUME LogInv, NEW t \in Clients, UnmapLog(t)
  PROVE  Fine(t)
<1> DEFINE old == L2PGet(l2p, cmd[t].seg)
<1>1. UNCHANGED <<dev, durable, l2p, gc, fl>>
  BY DEF UnmapLog, bufVars, gcVars
<1>2. Fills(dev, dev') /\ CmdShape /\ FlShape /\ CmdRec(cmd[t])
  BY <1>1, ClientStart
<1>3. \A x \in {"idle", "ulog"} : x \notin Special
  BY DEF Special, Collecting
<1>4. FlShape'
  BY <1>1, <1>2 DEF FlShape
<1>5. ASSUME NextUnmap(t), UNCHANGED wal
      PROVE  Fine(t)
  BY <1>1, <1>2, <1>3, <1>4, <1>5, NextUnmapMoves, ClientAside
<1>6. ASSUME wal' = LogL2PUpdate(wal, cmd[t].seg, old, Unmapped), Goto(t, "set"),
             cmd' = [cmd EXCEPT ![t].old = old, ![t].new = Unmapped]
      PROVE  Fine(t)
  <2> HIDE DEF old
  <2>1. PICK c : c = [cmd[t] EXCEPT !.old = old, !.new = Unmapped]
    OBVIOUS
  <2>2. CmdRec(c) /\ c.seg = cmd[t].seg /\ c.new = Unmapped
    BY <1>2, <2>1 DEF CmdRec
  <2>3. CmdShape' /\ cmd'[t] = c /\ \A u \in Clients \ {t} : cmd'[u] = cmd[u]
    <3>1. cmd' = [cmd EXCEPT ![t] = c]
      BY <1>6, <2>1
    <3> QED
      BY <1>2, <2>2, <3>1, SetCmd
  <2>4. PICK x : /\ wal' = Append(wal, x)
                 /\ x.kind = "L2P" /\ x.seg = cmd[t].seg /\ x.new = Unmapped
    BY <1>6 DEF LogL2PUpdate, L2PRecord
  <2> QED
    BY <1>1, <1>2, <1>6, <2>2, <2>3, <2>4, ClientLogs
<1> QED
  BY <1>5, <1>6 DEF UnmapLog

\* P2L and the counts after a segment's unmap.
LEMMA UnmapMapsFine ==
  ASSUME LogInv, NEW t \in Clients, UnmapMaps(t)
  PROVE  Fine(t)
<1>1. UNCHANGED <<dev, wal, durable, l2p, gc, fl>> /\ NextUnmap(t)
  BY DEF UnmapMaps, bufVars, gcVars
<1>2. Fills(dev, dev') /\ CmdShape /\ FlShape
  BY <1>1, ClientStart
<1>3. \A x \in {"idle", "ulog"} : x \notin Special
  BY DEF Special, Collecting
<1>4. FlShape'
  BY <1>1, <1>2 DEF FlShape
<1> QED
  BY <1>1, <1>2, <1>3, <1>4, NextUnmapMoves, ClientAside

\* The end of FlushAll.
LEMMA FlushDoneFine ==
  ASSUME LogInv, NEW t \in Clients, FlushDone(t)
  PROVE  Fine(t)
<1>1. /\ UNCHANGED <<dev, wal, durable, l2p, gc, cmd>>
      /\ Goto(t, IF fl[t].err THEN "fail" ELSE "commit")
  BY DEF FlushDone, mapVars, gcVars, cmdVars
<1>2. Fills(dev, dev') /\ CmdShape /\ FlShape /\ t \in Threads
  BY <1>1, ClientStart
<1>3. (IF fl[t].err THEN "fail" ELSE "commit") \notin Special
  BY DEF Special, Collecting
<1>4. FlShape'
  BY <1>2, FreshFl, SetFl DEF FlushDone
<1>5. CmdShape' /\ \A u \in Clients \ {t} : cmd'[u] = cmd[u]
  BY <1>1, <1>2 DEF CmdShape
<1> QED
  BY <1>1, <1>2, <1>3, <1>4, <1>5, ClientAside

\* l2p.Set refuses the segment: what was logged stays logged.
LEMMA SetL2PFailsFine ==
  ASSUME LogInv, NEW t \in Clients, SetL2PFails(t)
  PROVE  Fine(t)
<1>1. UNCHANGED <<dev, wal, durable, l2p, gc, fl, cmd>> /\ Goto(t, "fail")
  BY DEF SetL2PFails, mapVars, bufVars, gcVars
<1>2. Fills(dev, dev') /\ CmdShape /\ FlShape
  BY <1>1, ClientStart
<1>3. FlShape' /\ "fail" \notin Special
  BY <1>1, <1>2 DEF FlShape, Special, Collecting
<1>4. CmdShape' /\ \A u \in Clients \ {t} : cmd'[u] = cmd[u]
  BY <1>1, <1>2 DEF CmdShape
<1> QED
  BY <1>1, <1>2, <1>3, <1>4, ClientAside

\* A command ends with an error.
LEMMA FailFine ==
  ASSUME LogInv, NEW t \in Clients, Fail(t)
  PROVE  Fine(t)
<1>1. UNCHANGED <<dev, wal, durable, l2p, gc, fl>> /\ End(t) /\ Goto(t, "idle")
  BY DEF Fail, End, mapVars, bufVars, gcVars
<1>2. Fills(dev, dev') /\ FlShape
  BY <1>1, ClientStart
<1>3. FlShape' /\ "idle" \notin Special
  BY <1>1, <1>2 DEF FlShape, Special, Collecting
<1> QED
  BY <1>1, <1>2, <1>3, EndMoves, ClientAside

\* The commit makes the whole log durable.
LEMMA CommitFine ==
  ASSUME LogInv, NEW t \in Clients, Commit(t)
  PROVE  Fine(t)
<1>1. UNCHANGED <<dev, wal, l2p, gc, fl>> /\ End(t) /\ durable' = Len(wal)
  BY DEF Commit, GroupCommit, bufVars, gcVars
<1>2. /\ t \in Threads /\ DevRec(dev) /\ LogShape /\ L2PShape /\ FlShape /\ GCShape
  BY ClientStart
<1>3. /\ PCShape' /\ pc'[t] = "idle" /\ \A u \in Threads \ {t} : pc'[u] = pc[u]
      /\ CmdShape' /\ \A u \in Clients \ {t} : cmd'[u] = cmd[u]
  BY <1>1, EndMoves
<1>4. LogShape' /\ Grows /\ Applies /\ Erases(t)
  BY <1>1, <1>2 DEF LogShape, Grows, Applies, Erases, IsSeq
<1>5. L2PShape' /\ FlShape' /\ GCShape' /\ DevRec(dev')
  BY <1>1, <1>2 DEF L2PShape, FlShape, GCShape
<1>6. Own(t)'
  BY <1>3 DEF Own, Collecting
<1> QED
  BY <1>1, <1>3, <1>4, <1>5, <1>6 DEF Fine, Shapes, Others

\* Every step of a command.
LEMMA ClientStepFine ==
  ASSUME LogInv, NEW t \in Clients, ClientStep(t)
  PROVE  Fine(t)
  BY RunEmergencyGCFine, WriteLockFine, WriteLogFine, SetL2PFine, WriteMapsFine, WriteAddFine,
     WriteRelockFine, UnmapLockFine, UnmapLogFine, UnmapMapsFine, FlushDoneFine, CommitFine,
     FailFine, SetL2PFailsFine DEF ClientStep

-----------------------------------------------------------------------------
(* The theorems *)

\* What another thread knows of the log it goes on knowing.
LEMMA OthersOwn ==
  ASSUME LogInv, NEW t \in Threads, Fine(t), NEW u \in Threads \ {t}
  PROVE  Own(u)'
<1>1. Own(u) /\ LogShape /\ LogShape'
  BY DEF LogInv, Shapes, Fine
<1>2. pc'[u] = pc[u] /\ gc'[u] = gc[u] /\ (u \in Clients => cmd'[u] = cmd[u])
  BY DEF Fine, Others
<1>3. /\ Len(wal) \in Nat /\ Len(wal') \in Nat /\ Len(wal') >= Len(wal)
      /\ \A i \in 1 .. Len(wal) : wal'[i] = wal[i]
  <2>1. CASE wal' = wal
    BY <1>1, <2>1 DEF LogShape, IsSeq
  <2>2. ASSUME NEW x, wal' = Append(wal, x)
        PROVE  /\ Len(wal) \in Nat /\ Len(wal') \in Nat /\ Len(wal') >= Len(wal)
               /\ \A i \in 1 .. Len(wal) : wal'[i] = wal[i]
    BY <1>1, <2>2, LogKeeps
  <2> QED
    BY <2>1, <2>2 DEF Fine, Grows
<1>4. durable \in Nat /\ durable' \in Nat /\ durable' >= durable /\ durable <= Len(wal)
  BY <1>1 DEF LogShape, Fine, Grows
<1>5. \A seg, p : InLog(wal, seg, p) => InLog(wal', seg, p)
  BY <1>3 DEF InLog
<1>6. \A n \in 0 .. Len(wal) : MoveLogged(u, n) => MoveLogged(u, n)'
  BY <1>2, <1>3 DEF MoveLogged
<1>7. MoveLogged(u, Len(wal)) => MoveLogged(u, Len(wal))'
  BY <1>2, <1>3 DEF MoveLogged
<1>8. ResetLogged(u) => ResetLogged(u)'
  <2> SUFFICES ASSUME ResetLogged(u)
               PROVE  ResetLogged(u)'
    OBVIOUS
  <2>1. PICK i \in 1 .. durable :
          /\ wal[i] = ZoneResetRecord(gc[u].victim)
          /\ gc[u].new # Unmapped => MoveLogged(u, i - 1)
    BY DEF ResetLogged
  <2>2. i \in 1 .. durable' /\ i \in 1 .. Len(wal) /\ i - 1 \in 0 .. Len(wal)
    BY <1>3, <1>4
  <2>3. wal'[i] = ZoneResetRecord(gc[u].victim)
    BY <1>3, <2>1, <2>2
  <2>4. gc[u].new # Unmapped => MoveLogged(u, i - 1)'
    BY <1>2, <1>3, <2>1, <2>2 DEF MoveLogged
  <2> QED
    BY <1>2, <2>2, <2>3, <2>4 DEF ResetLogged, ZoneResetRecord
<1> QED
  BY <1>1, <1>2, <1>5, <1>7, <1>8 DEF Own

\* Whatever the system does is a fine step of some thread, or changes nothing.
LEMMA NextFine ==
  ASSUME LogInv, Next
  PROVE  \E t \in Threads : Fine(t)
<1>1. ASSUME NEW t \in Clients, Issue(t) \/ ClientWork(t)
      PROVE  t \in Threads /\ Fine(t)
  BY <1>1, ClientsAreThreads, IssueFine, ClientStepFine, FlushStepFine, FlushNextFine,
     GCStepFine DEF ClientWork
<1>2. ASSUME NEW t \in Flushers, FlusherWork(t)
      PROVE  t \in Threads /\ Fine(t)
  <2>1. t \in Threads
    BY DEF Threads
  <2> QED
    BY <1>2, <2>1, flushAgedFine, FlushStepFine, FlushNextFine DEF FlusherWork
<1>3. ASSUME NEW t \in Collectors, CollectorWork(t)
      PROVE  t \in Threads /\ Fine(t)
  <2>1. t \in Threads
    BY DEF Threads
  <2>2. ASSUME runCycle(t), UNCHANGED cmdVars
        PROVE  Fine(t)
    <3>1. "idle" \in Back
      BY DEF Back
    <3> QED
      BY <2>1, <2>2, <3>1, SelectVictimFine DEF runCycle
  <2> QED
    BY <1>3, <2>1, <2>2, GCStepFine DEF CollectorWork
<1> QED
  BY <1>1, <1>2, <1>3 DEF Next

\* The initial state: nothing runs and the log is empty.
LEMMA InitLogInv == Init => LogInv
<1> SUFFICES ASSUME Init
             PROVE  LogInv
  OBVIOUS
<1>1. DevRec(dev)
  BY DEF Init, DevInit, New, DevRec
<1>2. LogShape /\ L2PShape
  BY DEF Init, MapInit, LogShape, L2PShape, IsSeq
<1>3. PCShape /\ \A t \in Threads : pc[t] = "idle"
  BY DEF Init, BufInit, PCShape
<1>4. FlShape
  BY FreshFl DEF Init, BufInit, FlShape
<1>5. GCShape
  BY FreshGC DEF Init, GCInit, GCShape
<1>6. CmdShape
  BY FreshCmd DEF Init, CmdShape
<1>7. \A t \in Threads : Own(t)
  BY <1>3 DEF Own, Collecting
<1> QED
  BY <1>1, <1>2, <1>3, <1>4, <1>5, <1>6, <1>7 DEF LogInv, Shapes

\* Nothing changes.
LEMMA StutterLogInv ==
  ASSUME LogInv, UNCHANGED vars
  PROVE  LogInv'
<1>1. UNCHANGED <<dev, wal, durable, l2p, pc, fl, gc, cmd>>
  BY DEF vars, mapVars, gcVars, cmdVars
<1>2. Shapes'
  BY <1>1 DEF LogInv, Shapes, LogShape, L2PShape, PCShape, FlShape, GCShape, CmdShape
<1>3. \A t \in Threads : Own(t)'
  BY <1>1 DEF LogInv, Own, MoveLogged, ResetLogged
<1> QED
  BY <1>2, <1>3 DEF LogInv

LEMMA LogSteps ==
  ASSUME LogInv, [Next]_vars
  PROVE  LogInv'
<1>1. ASSUME NEW t \in Threads, Fine(t)
      PROVE  LogInv'
  <2>1. Own(t)' /\ Shapes'
    BY <1>1 DEF Fine
  <2>2. \A u \in Threads : Own(u)'
    BY <1>1, <2>1, OthersOwn
  <2> QED
    BY <2>1, <2>2 DEF LogInv
<1> QED
  BY <1>1, NextFine, StutterLogInv

\* At every step each thread's update or reset is in the log, as LogInv says.
THEOREM LogInvariant == Spec => []LogInv
<1>1. LogInv /\ [Next]_vars => LogInv'
  BY LogSteps
<1> QED
  BY <1>1, InitLogInv, PTL DEF Spec

\* REQ-WAL-01: no thread, by Write, Unmap or the collector's compare-and-swap,
\* gives a segment an address the log does not already have for it.
THEOREM LoggedFirst == Spec => LoggedBeforeApplied
<1>1. LogInv /\ [Next]_vars =>
        [\A seg \in SegIDs : l2p'[seg] # l2p[seg] => InLog(wal, seg, l2p'[seg])]_mapVars
  <2>1. CASE UNCHANGED vars
    BY <2>1 DEF vars, mapVars
  <2>2. ASSUME LogInv, Next
        PROVE  Applies
    BY <2>2, NextFine DEF Fine
  <2> QED
    BY <2>1, <2>2 DEF Applies
<1> QED
  BY <1>1, LogInvariant, PTL DEF Spec, LoggedBeforeApplied

\* The zones that the step empties are journaled ones.
EmptiesJournaled ==
  \A z \in Zones : dev.st[z] # "EMPTY" /\ dev'.st[z] = "EMPTY" =>
    \E t \in Threads : Journaled(t, z)

LEMMA EmptyingSteps ==
  ASSUME LogInv, [Next]_vars
  PROVE  EmptiesJournaled
<1>1. CASE UNCHANGED vars
  BY <1>1 DEF vars, EmptiesJournaled
<1>2. CASE Next
  <2> SUFFICES ASSUME NEW z \in Zones, dev.st[z] # "EMPTY", dev'.st[z] = "EMPTY"
               PROVE  \E t \in Threads : Journaled(t, z)
    BY DEF EmptiesJournaled
  <2>1. PICK t \in Threads : Fine(t)
    BY <1>2, NextFine
  <2>2. pc[t] = "reset" /\ gc[t].victim = z
    BY <2>1 DEF Fine, Erases
  <2>3. ResetLogged(t)
    BY <2>2 DEF LogInv, Own
  <2>4. Journaled(t, z)
    BY <2>2, <2>3 DEF ResetLogged, MoveLogged, Journaled
  <2> QED
    BY <2>4
<1> QED
  BY <1>1, <1>2

\* REQ-GC-05: a zone is emptied only by the thread that collects it, after a
\* durable reset record which follows the record of its last migration.
THEOREM ResetAfterJournal == Spec => ResetJournaled
<1>1. LogInv /\ [Next]_vars => [EmptiesJournaled]_dev
  BY EmptyingSteps
<1>2. Spec => [][EmptiesJournaled]_dev
  BY <1>1, LogInvariant, PTL DEF Spec
<1> QED
  BY <1>2 DEF ResetJournaled, EmptiesJournaled

-----------------------------------------------------------------------------
(* Data stays data: the invariant *)

ZMData(m) ==
  /\ m = [st |-> m.st, wp |-> m.wp, valid |-> m.valid, total |-> m.total,
          free |-> m.free, lru |-> m.lru, open |-> m.open, frozen |-> m.frozen]
  /\ m.wp \in [Zones -> Int]
  /\ m.free \in Seq(Zones)

FlData(f) ==
  f.zone \in Zones /\ f.wp \in Int /\ f.data \in Seq(Sectors) /\ f.todo \subseteq Zones

GCData(g) ==
  /\ g.live \subseteq Nat \X Nat /\ g.item \in Nat \X Nat
  /\ g.data \in Seq(Sectors) /\ g.zone \in Zones /\ g.new \in Nat

CmdData(c) ==
  /\ c.lba \in Nat /\ c.end \in Nat /\ c.seg \in Nat
  /\ c.zone \in Zones /\ c.wp \in Int /\ c.new \in Nat
  /\ c.kind = "write" => /\ c.id \in 1 .. MaxCmds
                         /\ \E req \in Requests : c.lba = req[1] /\ c.end = req[1] + req[2]

Buffers == [wp : Int, data : Seq(Sectors)]

MapData == l2p \in [SegIDs -> Nat] /\ p2l \subseteq Nat \X Nat

FlsData  == \A t \in Threads : FlData(fl[t])
GCsData  == \A t \in Threads : GCData(gc[t])
CmdsData == /\ \A t \in Clients : CmdData(cmd[t])
            /\ cmds \in Nat
CurData  == cur = [zone |-> cur.zone, open |-> cur.open] /\ cur.zone \in Zones

DataInv ==
  /\ Good(dev) /\ ZMData(zm) /\ MapData /\ buf \in [Zones -> Buffers]
  /\ FlsData /\ GCsData /\ CmdsData /\ CurData

-----------------------------------------------------------------------------
(* Zones and addresses *)

LEMMA SeqOfFunction ==
  ASSUME NEW S, NEW n \in Nat, NEW f \in [1 .. n -> S]
  PROVE  f \in Seq(S) /\ Len(f) = n
  OBVIOUS

LEMMA ZoneZero == 0 \in Zones /\ Zones \subseteq Nat
  BY DeviceAssumption DEF Zones

LEMMA Encoded ==
  ASSUME NEW z \in Zones, NEW off \in Int
  PROVE  EncodePhysAddr(z, off) \in Nat
<1> DEFINE b == 2^OffsetBits
<1>1. b \in Nat /\ b > 0
  BY MappingAssumption
<1>2. z \in Nat
  BY ZoneZero
<1> HIDE DEF b
<1>3. off % b \in Nat
  BY <1>1
<1>4. z * b \in Nat
  BY <1>1, <1>2
<1>5. z * b + (off % b) \in Nat
  BY <1>3, <1>4
<1> QED
  BY <1>5 DEF EncodePhysAddr, b

LEMMA PhysNat ==
  ASSUME NEW p \in Nat
  PROVE  PhysLBA(p) \in Nat
<1> DEFINE b == 2^OffsetBits
           c == 2^ZoneIDBits
<1>1. b \in Nat /\ b > 0 /\ c \in Nat /\ c > 0 /\ ZoneSectors \in Nat
  BY MappingAssumption, DeviceAssumption
<1> HIDE DEF b, c
<1>2. p \div b \in Nat /\ p % b \in Nat
  BY <1>1
<1>3. (p \div b) % c \in Nat
  BY <1>1, <1>2
<1>4. ((p \div b) % c) * ZoneSectors \in Nat
  BY <1>1, <1>3
<1>5. ((p \div b) % c) * ZoneSectors + (p % b) \in Nat
  BY <1>2, <1>4
<1> QED
  BY <1>5 DEF PhysLBA, zoneStartLBA, ZoneID, OffsetSectors, b, c

-----------------------------------------------------------------------------
(* The zone manager's operators *)

LEMMA ZMUpdates ==
  ASSUME NEW m, ZMData(m), NEW z
  PROVE  /\ ZMData(Freeze(m, z)) /\ ZMData(Unfreeze(m, z))
         /\ ZMData(IncrementValidSegs(m, z)) /\ ZMData(DecrementValidSegs(m, z))
         /\ \A w \in Int : ZMData(UpdateWritePointer(m, z, w))
<1>1. ASSUME NEW a, NEW e, e = [m EXCEPT !.frozen = a] PROVE ZMData(e)
  BY <1>1 DEF ZMData
<1>2. ASSUME NEW a, NEW b, NEW e, e = [m EXCEPT !.valid = a, !.total = b] PROVE ZMData(e)
  BY <1>2 DEF ZMData
<1>3. ASSUME NEW a, NEW e, e = [m EXCEPT !.valid = a] PROVE ZMData(e)
  BY <1>3 DEF ZMData
<1>4. ASSUME NEW w \in Int, NEW e, e = [m EXCEPT !.wp[z] = w] PROVE ZMData(e)
  BY <1>4 DEF ZMData
<1>5. ZMData(Freeze(m, z)) /\ ZMData(Unfreeze(m, z))
  BY <1>1 DEF Freeze, Unfreeze
<1>6. ZMData(IncrementValidSegs(m, z)) /\ ZMData(DecrementValidSegs(m, z))
  BY <1>2, <1>3 DEF IncrementValidSegs, DecrementValidSegs
<1>7. \A w \in Int : ZMData(UpdateWritePointer(m, z, w))
  BY <1>4 DEF UpdateWritePointer
<1> QED
  BY <1>5, <1>6, <1>7

LEMMA ZMOpens ==
  ASSUME NEW m, ZMData(m), NEW z
  PROVE  ZMData(PushOpen(m, z)) /\ PushOpen(m, z).wp = m.wp
<1>1. ASSUME NEW e, e = PushOpen(m, z)
      PROVE  ZMData(e) /\ e.wp = m.wp
  BY <1>1 DEF ZMData, PushOpen
<1> QED
  BY <1>1

LEMMA ZMDrops ==
  ASSUME NEW m, ZMData(m), NEW z
  PROVE  ZMData(DropOpen(m, z)) /\ DropOpen(m, z).wp = m.wp /\ DropOpen(m, z).free = m.free
<1>1. CASE z \notin m.open
  BY <1>1 DEF DropOpen
<1>2. ASSUME NEW a, NEW b, NEW e, e = [m EXCEPT !.lru = a, !.open = b]
      PROVE  ZMData(e) /\ e.wp = m.wp /\ e.free = m.free
  BY <1>2 DEF ZMData
<1>3. CASE z \in m.open
  BY <1>2, <1>3 DEF DropOpen
<1> QED
  BY <1>1, <1>3

LEMMA ZMRoom ==
  ASSUME NEW m, ZMData(m), NEW d
  PROVE  LET r == MakeRoom(m, d)
         IN ZMData(r.zm) /\ r.zm.wp = m.wp /\ r.zm.free = m.free
<1>1. ASSUME NEW z, NEW x, x = [m EXCEPT !.st[z] = "CLOSED", !.lru = Tail(@), !.open = @ \ {z}]
      PROVE  ZMData(x) /\ x.wp = m.wp /\ x.free = m.free
  BY <1>1 DEF ZMData
<1>2. ASSUME NEW z, NEW r, NEW x, x = Evict(m, z, r).zm
      PROVE  ZMData(x) /\ x.wp = m.wp /\ x.free = m.free
  BY <1>1, <1>2 DEF Evict, ZMOk, ZMErr
<1> QED
  BY <1>2 DEF MakeRoom, evictOldestLocked, ZMOk

LEMMA ZMAllocates ==
  ASSUME NEW m, ZMData(m), NEW d
  PROVE  LET r == AllocateFree(m, d)
         IN /\ ZMData(r.zm) /\ r.zm.wp = m.wp
            /\ r.ok => r.zone \in Zones
<1> DEFINE room == MakeRoom(m, d)
           z == Last(m.free)
           o == OpenZone(room.dev, zoneStartLBA(z))
           k == [room.zm EXCEPT !.free = Front(@)]
<1>1. ZMData(room.zm) /\ room.zm.wp = m.wp /\ room.zm.free = m.free
  BY ZMRoom
<1>2. ASSUME m.free # << >>
      PROVE  z \in Zones /\ Front(m.free) \in Seq(Zones)
  <2>1. m.free \in Seq(Zones) /\ Len(m.free) \in Nat \ {0}
    BY <1>2 DEF ZMData
  <2> QED
    BY <2>1 DEF Last, Front
<1> HIDE DEF room
<1>3. ASSUME m.free # << >>
      PROVE  ZMData(k) /\ k.wp = m.wp
  <2>1. ASSUME NEW n, ZMData(n), NEW a \in Seq(Zones), NEW e, e = [n EXCEPT !.free = a]
        PROVE  ZMData(e) /\ e.wp = n.wp
    BY <2>1 DEF ZMData
  <2> QED
    BY <1>1, <1>2, <1>3, <2>1
<1> HIDE DEF k, o, z
<1>4. ASSUME m.free # << >>
      PROVE  ZMData(PushOpen(k, z)) /\ PushOpen(k, z).wp = m.wp
  BY <1>3, <1>4, ZMOpens
<1> QED
  BY <1>1, <1>2, <1>4 DEF AllocateFree, ZMOk, ZMErr, room, o, z, k

LEMMA ZMGets ==
  ASSUME NEW m, ZMData(m), NEW d, NEW z
  PROVE  ZMData(GetOrOpen(m, d, z).zm)
<1> DEFINE room == MakeRoom(m, d)
           o == OpenZone(room.dev, zoneStartLBA(z))
<1>1. ZMData(room.zm) /\ room.zm.wp = m.wp
  BY ZMRoom
<1> HIDE DEF room
<1>2. ZMData(PushOpen(room.zm, z))
  BY <1>1, ZMOpens
<1>3. ASSUME NEW a PROVE ZMData([m EXCEPT !.lru = a])
  BY DEF ZMData
<1> HIDE DEF o
<1> QED
  BY <1>1, <1>2, <1>3 DEF GetOrOpen, ZMOk, ZMErr, room, o

LEMMA ZMMarks ==
  ASSUME NEW m, ZMData(m), NEW z \in Zones
  PROVE  ZMData(MarkEmpty(m, z))
<1> DEFINE k == DropOpen(m, z)
<1>1. ZMData(k)
  BY ZMDrops
<1> HIDE DEF k
<1>2. zoneStartLBA(z) \in Int
  BY ZoneBounds
<1>3. ASSUME NEW a, NEW w \in Int, NEW b, NEW c, NEW f, NEW e,
             e = [k EXCEPT !.st = a, !.wp[z] = w, !.valid = b, !.total = c,
                           !.frozen = f, !.free = Append(@, z)]
      PROVE  ZMData(e)
  <2>1. k.free \in Seq(Zones)
    BY <1>1 DEF ZMData
  <2>2. Append(k.free, z) \in Seq(Zones)
    BY <2>1
  <2> QED
    BY <1>1, <1>3, <2>2 DEF ZMData
<1> QED
  BY <1>2, <1>3 DEF MarkEmpty, k
-----------------------------------------------------------------------------
(* The device calls a zone manager method makes *)

LEMMA GoodOpen ==
  ASSUME NEW d, Good(d), NEW lba
  PROVE  Good(OpenZone(d, lba).dev)
<1>1. CASE zoneIndex(lba) \notin Zones
  BY <1>1 DEF OpenZone, Err
<1>2. CASE zoneIndex(lba) \in Zones
  <2> DEFINE r == openZoneLocked(d, zoneIndex(lba), TRUE)
  <2>1. StepAt(d, r.dev, zoneIndex(lba))
    BY <1>2, OpenLockedSteps
  <2>2. OpenZone(d, lba) = r
    BY <1>2 DEF OpenZone
  <2> HIDE DEF r
  <2>3. Steps(d, r.dev)
    BY <1>2, <2>1 DEF StepAt, Steps
  <2> QED
    BY <2>2, <2>3, StepsKeepGood
<1> QED
  BY <1>1, <1>2

LEMMA GoodRoom ==
  ASSUME NEW m, NEW d, Good(d)
  PROVE  Good(MakeRoom(m, d).dev)
<1> DEFINE r == CloseZone(d, zoneStartLBA(Head(m.lru)))
<1>1. Good(r.dev)
  BY CloseSteps, StepsKeepGood
<1> HIDE DEF r
<1>2. Good(Evict(m, Head(m.lru), r).dev)
  BY <1>1 DEF Evict, ZMOk, ZMErr
<1> QED
  BY <1>2 DEF MakeRoom, evictOldestLocked, ZMOk, r

LEMMA GoodAllocate ==
  ASSUME NEW m, NEW d, Good(d)
  PROVE  Good(AllocateFree(m, d).dev)
<1> DEFINE room == MakeRoom(m, d)
           r == OpenZone(room.dev, zoneStartLBA(Last(m.free)))
<1>1. Good(room.dev)
  BY GoodRoom
<1>2. Good(r.dev)
  BY <1>1, GoodOpen
<1> HIDE DEF room, r
<1> QED
  BY <1>1, <1>2 DEF AllocateFree, ZMOk, ZMErr, room, r

LEMMA GoodGet ==
  ASSUME NEW m, NEW d, Good(d), NEW z
  PROVE  Good(GetOrOpen(m, d, z).dev)
<1> DEFINE room == MakeRoom(m, d)
           r == OpenZone(room.dev, zoneStartLBA(z))
<1>1. Good(room.dev)
  BY GoodRoom
<1>2. Good(r.dev)
  BY <1>1, GoodOpen
<1> HIDE DEF room, r
<1> QED
  BY <1>1, <1>2 DEF GetOrOpen, ZMOk, ZMErr, room, r

LEMMA GoodWrite ==
  ASSUME NEW d, Good(d), NEW lba, NEW data \in Seq(Sectors)
  PROVE  Good(WriteSectors(d, lba, data).dev)
<1>1. data = << >> \/ Payload(data)
  BY DEF Payload
<1> QED
  BY <1>1, WriteSteps, StepsKeepGood

\* What is read from the device is data.
LEMMA ReadsSectors ==
  ASSUME NEW d, Good(d), NEW lba \in Nat, NEW count \in Nat
  PROVE  ReadSectors(d, lba, count).data \in Seq(Sectors)
<1>1. CASE lba + count > Capacity
  BY <1>1 DEF ReadSectors
<1>2. CASE ~ (lba + count > Capacity)
  <2>1. /\ ZoneSectors \in Nat \ {0} /\ ZoneCount \in Nat \ {0} /\ Capacity = ZoneCount * ZoneSectors
        /\ Capacity \in Nat
    BY DeviceAssumption DEF Capacity
  <2>2. ASSUME NEW i \in 1 .. count
        PROVE  SectorAt(d, lba + i - 1) \in Sectors
    <3> DEFINE a == lba + i - 1
    <3>1. a \in Nat /\ a < ZoneCount * ZoneSectors
      BY <1>2, <2>1
    <3> HIDE DEF a
    <3>2. zoneIndex(a) \in Zones
      <4> DEFINE q == a \div ZoneSectors
      <4>1. q \in Nat /\ ZoneSectors * q <= a
        BY <2>1, <3>1
      <4> HIDE DEF q
      <4>2. q < ZoneCount
        <5>1. ASSUME q >= ZoneCount PROVE FALSE
          <6>1. ZoneSectors * q >= ZoneSectors * ZoneCount
            BY <2>1, <4>1, <5>1
          <6> QED
            BY <2>1, <3>1, <4>1, <6>1
        <5> QED
          BY <2>1, <4>1, <5>1
      <4> QED
        BY <2>1, <4>1, <4>2 DEF zoneIndex, Zones, q
    <3>3. a % ZoneSectors \in Offsets
      BY <2>1, <3>1 DEF Offsets
    <3>4. d.data \in [Zones -> [Offsets -> Sectors]]
      BY DEF Good, Records
    <3> QED
      BY <3>2, <3>3, <3>4 DEF SectorAt, a
  <2>3. ReadSectors(d, lba, count).data = [i \in 1 .. count |-> SectorAt(d, lba + i - 1)]
    BY <1>2 DEF ReadSectors
  <2> QED
    BY <2>2, <2>3
<1> QED
  BY <1>1, <1>2
-----------------------------------------------------------------------------
(* Locals *)

LEMMA SetFlData ==
  ASSUME FlShape, FlsData, NEW t \in Threads, NEW f, FlData(f), fl' = [fl EXCEPT ![t] = f]
  PROVE  FlsData'
  BY DEF FlShape, FlsData

LEMMA FreshFlData ==
  /\ FlData(NoFlush)
  /\ \A x \in SUBSET Zones : FlData([NoFlush EXCEPT !.todo = x])
  /\ \A z \in Zones : FlData([NoFlush EXCEPT !.zone = z, !.ret = "relock"])
<1>1. FlData(NoFlush)
  BY ZoneZero DEF FlData, NoFlush
<1>2. ASSUME NEW x \in SUBSET Zones PROVE FlData([NoFlush EXCEPT !.todo = x])
  BY ZoneZero DEF FlData, NoFlush
<1>3. ASSUME NEW z \in Zones PROVE FlData([NoFlush EXCEPT !.zone = z, !.ret = "relock"])
  BY DEF FlData, NoFlush
<1> QED
  BY <1>1, <1>2, <1>3

LEMMA ReturnData ==
  ASSUME FlShape, FlsData, NEW t \in Threads, NEW failed, FlushReturn(t, failed)
  PROVE  FlsData'
<1>1. ASSUME NEW g, FlRec(g), FlData(g), NEW h,
             h = [g EXCEPT !.err = @ \/ failed, !.wp = 0, !.data = << >>]
      PROVE  FlData(h)
  BY <1>1 DEF FlRec, FlData
<1>2. fl' = [fl EXCEPT ![t] = [fl[t] EXCEPT !.err = @ \/ failed, !.wp = 0, !.data = << >>]]
  BY DEF FlushReturn
<1>3. FlRec(fl[t]) /\ FlData(fl[t])
  BY DEF FlShape, FlsData
<1>4. FlData([fl[t] EXCEPT !.err = @ \/ failed, !.wp = 0, !.data = << >>])
  BY <1>1, <1>3
<1> QED
  BY <1>2, <1>4, SetFlData

LEMMA SetGCData ==
  ASSUME GCShape, GCsData, NEW t \in Threads, NEW g, GCData(g), gc' = [gc EXCEPT ![t] = g]
  PROVE  GCsData'
  BY DEF GCShape, GCsData

LEMMA FreshGCData == GCData(NoGC)
<1>1. Unmapped \in Nat
  BY DEF Unmapped
<1>2. << >> \in Seq(Sectors)
  OBVIOUS
<1> QED
  BY <1>1, <1>2, ZoneZero DEF GCData, NoGC, NoItem

LEMMA SetCmdData ==
  ASSUME CmdShape, CmdsData, NEW t \in Clients, NEW c, CmdData(c), cmd' = [cmd EXCEPT ![t] = c],
         cmds' \in Nat
  PROVE  CmdsData'
  BY DEF CmdShape, CmdsData

LEMMA FreshCmdData == CmdData(NoCmd)
  BY ZoneZero DEF CmdData, NoCmd, Unmapped

-----------------------------------------------------------------------------
(* Steps of Flush *)

LEMMA FlushTakeData ==
  ASSUME LogInv, DataInv, NEW t \in Threads, FlushTake(t), UNCHANGED <<gcVars, cmdVars>>
  PROVE  DataInv'
<1>1. UNCHANGED <<dev, zm, l2p, p2l, gc, cmd, cmds, cur>>
  BY DEF FlushTake, mapVars, gcVars, cmdVars
<1>2. FlShape /\ FlRec(fl[t]) /\ FlData(fl[t]) /\ FlsData /\ buf \in [Zones -> Buffers]
  BY DEF LogInv, Shapes, FlShape, DataInv, FlsData
<1>3. buf' \in [Zones -> Buffers] /\ FlsData'
  <2> DEFINE z == fl[t].zone
  <2>1. CASE FlushReturn(t, FALSE) /\ UNCHANGED buf
    BY <1>2, <2>1, ReturnData
  <2>2. CASE /\ fl' = [fl EXCEPT ![t].wp = buf[z].wp, ![t].data = buf[z].data]
             /\ buf' = [buf EXCEPT ![z] = NoBuffer]
    <3>1. z \in Zones /\ buf[z] \in Buffers
      BY <1>2 DEF FlData
    <3>2. NoBuffer \in Buffers
      BY DEF NoBuffer, Buffers
    <3>3. buf' \in [Zones -> Buffers]
      BY <1>2, <2>2, <3>2
    <3>4. ASSUME NEW g, FlRec(g), FlData(g), NEW b \in Buffers, NEW h,
                 h = [g EXCEPT !.wp = b.wp, !.data = b.data]
          PROVE  FlData(h)
      BY <3>4 DEF FlRec, FlData, Buffers
    <3>5. FlData([fl[t] EXCEPT !.wp = buf[z].wp, !.data = buf[z].data])
      BY <1>2, <3>1, <3>4
    <3>6. fl' = [fl EXCEPT ![t] = [fl[t] EXCEPT !.wp = buf[z].wp, !.data = buf[z].data]]
      BY <2>2
    <3>7. FlsData'
      BY <1>2, <3>5, <3>6, SetFlData
    <3> QED
      BY <3>3, <3>7
  <2> QED
    BY <2>1, <2>2 DEF FlushTake
<1> QED
  BY <1>1, <1>3 DEF DataInv, MapData, GCsData, CmdsData, CurData

LEMMA FlushOpenData ==
  ASSUME LogInv, DataInv, NEW t \in Threads, FlushOpen(t), UNCHANGED <<gcVars, cmdVars>>
  PROVE  DataInv'
<1>1. UNCHANGED <<buf, l2p, p2l, gc, cmd, cmds, cur>>
  BY DEF FlushOpen, mapVars, gcVars, cmdVars
<1>2. FlShape /\ FlsData /\ Good(dev) /\ ZMData(zm)
  BY DEF LogInv, Shapes, DataInv
<1>3. Good(dev') /\ ZMData(zm')
  BY <1>2, GoodGet, ZMGets DEF FlushOpen
<1>4. FlsData'
  BY <1>2, ReturnData DEF FlushOpen, FlsData
<1> QED
  BY <1>1, <1>3, <1>4 DEF DataInv, MapData, GCsData, CmdsData, CurData

LEMMA FlushWriteData ==
  ASSUME LogInv, DataInv, NEW t \in Threads, FlushWrite(t), UNCHANGED <<gcVars, cmdVars>>
  PROVE  DataInv'
<1>1. UNCHANGED <<zm, buf, l2p, p2l, gc, cmd, cmds, cur>>
  BY DEF FlushWrite, mapVars, gcVars, cmdVars
<1>2. FlShape /\ FlsData /\ Good(dev) /\ fl[t].data \in Seq(Sectors)
  BY DEF LogInv, Shapes, DataInv, FlsData, FlData
<1>3. Good(dev')
  BY <1>2, GoodWrite DEF FlushWrite
<1>4. FlsData'
  BY <1>2, ReturnData DEF FlushWrite, FlsData
<1> QED
  BY <1>1, <1>3, <1>4 DEF DataInv, MapData, GCsData, CmdsData, CurData

LEMMA FlushPointData ==
  ASSUME LogInv, DataInv, NEW t \in Threads, FlushPoint(t), UNCHANGED <<gcVars, cmdVars>>
  PROVE  DataInv'
<1>1. UNCHANGED <<dev, buf, l2p, p2l, gc, cmd, cmds, cur>>
  BY DEF FlushPoint, mapVars, gcVars, cmdVars
<1>2. FlShape /\ FlsData /\ ZMData(zm) /\ FlData(fl[t])
  BY DEF LogInv, Shapes, DataInv, FlsData
<1>3. FlushedWP(fl[t]) \in Int
  BY <1>2 DEF FlushedWP, FlData
<1>4. ZMData(zm')
  BY <1>2, <1>3, ZMUpdates DEF FlushPoint
<1>5. FlsData'
  BY <1>2, ReturnData DEF FlushPoint
<1> QED
  BY <1>1, <1>4, <1>5 DEF DataInv, MapData, GCsData, CmdsData, CurData

\* The loops of FlushAll and flushAged.
LEMMA FlushLoopData ==
  ASSUME LogInv, DataInv, NEW t \in Threads, FlushNext(t) \/ flushAged(t) \/ flushAgedDone(t),
         UNCHANGED <<gcVars, cmdVars>>
  PROVE  DataInv'
<1>1. UNCHANGED <<dev, zm, buf, l2p, p2l, gc, cmd, cmds, cur>>
  BY DEF FlushNext, flushAged, flushAgedDone, mapVars, gcVars, cmdVars
<1>2. FlShape /\ FlsData /\ FlRec(fl[t]) /\ FlData(fl[t])
  BY DEF LogInv, Shapes, FlShape, DataInv, FlsData
<1>3. CASE FlushNext(t)
  <2>1. PICK z \in fl[t].todo :
          fl' = [fl EXCEPT ![t].zone = z, ![t].todo = @ \ {z}, ![t].ret = "fnext"]
    BY <1>3 DEF FlushNext
  <2>2. z \in Zones
    BY <1>2, <2>1 DEF FlData
  <2>3. ASSUME NEW g, FlRec(g), FlData(g), NEW h,
               h = [g EXCEPT !.zone = z, !.todo = @ \ {z}, !.ret = "fnext"]
        PROVE  FlData(h)
    BY <2>2, <2>3 DEF FlRec, FlData
  <2>4. FlData([fl[t] EXCEPT !.zone = z, !.todo = @ \ {z}, !.ret = "fnext"])
    BY <1>2, <2>3
  <2>5. fl' = [fl EXCEPT ![t] = [fl[t] EXCEPT !.zone = z, !.todo = @ \ {z}, !.ret = "fnext"]]
    BY <2>1
  <2>6. FlsData'
    BY <1>2, <2>4, <2>5, SetFlData
  <2> QED
    BY <1>1, <2>6 DEF DataInv, MapData, GCsData, CmdsData, CurData
<1>4. CASE flushAged(t)
  <2>1. PICK aged \in SUBSET Buffered : fl' = [fl EXCEPT ![t] = [NoFlush EXCEPT !.todo = aged]]
    BY <1>4 DEF flushAged
  <2>2. FlData([NoFlush EXCEPT !.todo = aged])
    BY FreshFlData, <2>1 DEF Buffered
  <2>3. FlsData'
    BY <1>2, <2>1, <2>2, SetFlData
  <2> QED
    BY <1>1, <2>3 DEF DataInv, MapData, GCsData, CmdsData, CurData
<1>5. CASE flushAgedDone(t)
  <2>1. FlsData'
    BY <1>2, <1>5, FreshFlData, SetFlData DEF flushAgedDone
  <2> QED
    BY <1>1, <2>1 DEF DataInv, MapData, GCsData, CmdsData, CurData
<1> QED
  BY <1>3, <1>4, <1>5
-----------------------------------------------------------------------------
(* Steps of a collection *)

\* collectZone returns.
LEMMA AbandonData ==
  ASSUME LogInv, DataInv, NEW t \in Threads, NEW m, ZMData(m), Abandon(t, m)
  PROVE  ZMData(zm') /\ GCsData'
  BY ZMUpdates, FreshGCData, SetGCData DEF Abandon, LogInv, Shapes, DataInv

LEMMA SelectVictimData ==
  ASSUME LogInv, DataInv, NEW t \in Threads, NEW z \in Zones, NEW ret, NEW err,
         SelectVictim(t, z, ret, err), UNCHANGED cmdVars
  PROVE  DataInv'
<1>1. UNCHANGED <<dev, zm, buf, fl, l2p, p2l, cmd, cmds, cur>>
  BY DEF SelectVictim, mapVars, bufVars, cmdVars
<1>2. GCShape /\ GCsData
  BY DEF LogInv, Shapes, DataInv
<1>3. ASSUME NEW h, h = [NoGC EXCEPT !.victim = z, !.ret = ret, !.err = err]
      PROVE  GCData(h)
  <2>1. GCRec(NoGC)
    BY FreshGC
  <2>2. /\ h.live = NoGC.live /\ h.item = NoGC.item /\ h.data = NoGC.data
        /\ h.zone = NoGC.zone /\ h.new = NoGC.new
    BY <1>3, <2>1 DEF GCRec
  <2> QED
    BY <2>2, FreshGCData DEF GCData
<1>4. GCsData'
  BY <1>2, <1>3, SetGCData DEF SelectVictim
<1> QED
  BY <1>1, <1>4 DEF DataInv, MapData, FlsData, CmdsData, CurData

LEMMA FreezeVictimData ==
  ASSUME LogInv, DataInv, NEW t \in Threads, FreezeVictim(t), UNCHANGED cmdVars
  PROVE  DataInv'
<1>1. UNCHANGED <<dev, buf, fl, l2p, p2l, cmd, cmds, cur>>
  BY DEF FreezeVictim, mapVars, bufVars, cmdVars
<1>2. GCShape /\ GCsData /\ GCRec(gc[t]) /\ GCData(gc[t]) /\ ZMData(zm) /\ MapData
  BY DEF LogInv, Shapes, GCShape, DataInv, GCsData
<1>3. ZMData(zm')
  BY <1>2, ZMUpdates DEF FreezeVictim
<1>4. LiveSegs(gc[t].victim) \subseteq Nat \X Nat
  BY <1>2 DEF LiveSegs, P2LZone, MapData
<1>5. ASSUME NEW g, GCRec(g), GCData(g), NEW a \in SUBSET (Nat \X Nat), NEW h,
             h = [g EXCEPT !.live = a]
      PROVE  GCData(h)
  BY <1>5 DEF GCRec, GCData
<1>6. GCData([gc[t] EXCEPT !.live = LiveSegs(gc[t].victim)])
  BY <1>2, <1>4, <1>5
<1>7. gc' = [gc EXCEPT ![t] = [gc[t] EXCEPT !.live = LiveSegs(gc[t].victim)]]
  BY DEF FreezeVictim
<1>8. GCsData'
  BY <1>2, <1>6, <1>7, SetGCData
<1> QED
  BY <1>1, <1>3, <1>8 DEF DataInv, MapData, FlsData, CmdsData, CurData

\* What a migration reads is data, because a live address is a number.
LEMMA MigrateReadData ==
  ASSUME LogInv, DataInv, NEW t \in Threads, MigrateRead(t), UNCHANGED cmdVars
  PROVE  DataInv'
<1>1. UNCHANGED <<dev, buf, fl, l2p, cmd, cmds, cur>>
  BY DEF MigrateRead, bufVars, cmdVars
<1>2. /\ GCShape /\ GCsData /\ GCRec(gc[t]) /\ GCData(gc[t]) /\ ZMData(zm) /\ MapData
      /\ Good(dev)
  BY DEF LogInv, Shapes, GCShape, DataInv, GCsData
<1>3. PICK e \in gc[t].live :
        LET current == l2p[e[2]]
            rest == [gc[t] EXCEPT !.live = @ \ {e}]
            r    == ReadSectors(dev, PhysLBA(e[1]), SectorsPerSeg)
        IN \/ /\ p2l' = IF IsUnmapped(current) THEN P2LDelete(p2l, current) ELSE p2l
              /\ gc' = [gc EXCEPT ![t] = rest]
              /\ UNCHANGED zm
           \/ /\ gc' = [gc EXCEPT ![t] = [rest EXCEPT !.item = e, !.data = r.data]]
              /\ UNCHANGED <<p2l, zm>>
           \/ Abandon(t, zm) /\ UNCHANGED p2l
  BY DEF MigrateRead
<1>4. e \in Nat \X Nat /\ e[1] \in Nat /\ SectorsPerSeg \in Nat
  BY <1>2, MappingAssumption DEF GCData
<1> DEFINE r == ReadSectors(dev, PhysLBA(e[1]), SectorsPerSeg)
<1>5. r.data \in Seq(Sectors)
  BY <1>2, <1>4, PhysNat, ReadsSectors
<1> HIDE DEF r
<1>6. p2l' \subseteq p2l
  BY <1>3 DEF P2LDelete
<1>7. ASSUME NEW g, GCRec(g), GCData(g), NEW h, h = [g EXCEPT !.live = @ \ {e}]
      PROVE  GCRec(h) /\ GCData(h)
  BY <1>7 DEF GCRec, GCData
<1>8. ASSUME NEW g, GCRec(g), GCData(g), NEW d \in Seq(Sectors), NEW h,
             h = [g EXCEPT !.item = e, !.data = d]
      PROVE  GCData(h)
  BY <1>4, <1>8 DEF GCRec, GCData
<1> DEFINE rest == [gc[t] EXCEPT !.live = @ \ {e}]
<1>9. GCRec(rest) /\ GCData(rest)
  BY <1>2, <1>7
<1> HIDE DEF rest
<1>10. GCData([rest EXCEPT !.item = e, !.data = r.data])
  BY <1>5, <1>8, <1>9
<1>11. ZMData(zm') /\ GCsData'
  <2>1. CASE gc' = [gc EXCEPT ![t] = rest] /\ UNCHANGED zm
    BY <1>2, <1>9, <2>1, SetGCData
  <2>2. CASE gc' = [gc EXCEPT ![t] = [rest EXCEPT !.item = e, !.data = r.data]] /\ UNCHANGED zm
    BY <1>2, <1>10, <2>2, SetGCData
  <2>3. CASE Abandon(t, zm)
    BY <1>2, <2>3, AbandonData
  <2> QED
    BY <1>3, <2>1, <2>2, <2>3 DEF rest, r
<1> QED
  BY <1>1, <1>6, <1>11 DEF DataInv, MapData, FlsData, CmdsData, CurData

LEMMA MigrateAllocData ==
  ASSUME LogInv, DataInv, NEW t \in Threads, MigrateAlloc(t), UNCHANGED cmdVars
  PROVE  DataInv'
<1> DEFINE r   == AllocateFree(zm, dev)
           new == EncodePhysAddr(r.zone, r.zm.wp[r.zone] - zoneStartLBA(r.zone))
<1>1. UNCHANGED <<buf, fl, l2p, p2l, cmd, cmds, cur>> /\ dev' = r.dev
  BY DEF MigrateAlloc, bufVars, cmdVars
<1>2. GCShape /\ GCsData /\ GCRec(gc[t]) /\ GCData(gc[t]) /\ ZMData(zm) /\ Good(dev)
  BY DEF LogInv, Shapes, GCShape, DataInv, GCsData
<1>3. Good(dev')
  BY <1>1, <1>2, GoodAllocate
<1>4. ZMData(r.zm) /\ (r.ok => r.zone \in Zones)
  BY <1>2, ZMAllocates
<1>5. \/ r.ok /\ zm' = r.zm /\ gc' = [gc EXCEPT ![t].zone = r.zone, ![t].new = new]
      \/ Abandon(t, r.zm)
  BY DEF MigrateAlloc
<1> HIDE DEF r
<1>6. ASSUME r.ok PROVE new \in Nat
  <2>1. r.zone \in Zones /\ r.zm.wp[r.zone] \in Int /\ zoneStartLBA(r.zone) \in Nat
    BY <1>4, <1>6, ZoneBounds DEF ZMData
  <2>2. r.zm.wp[r.zone] - zoneStartLBA(r.zone) \in Int
    BY <2>1
  <2> QED
    BY <2>1, <2>2, Encoded
<1> HIDE DEF new
<1>7. ZMData(zm') /\ GCsData'
  <2>1. ASSUME NEW g, GCRec(g), GCData(g), NEW z \in Zones, NEW n \in Nat, NEW h,
               h = [g EXCEPT !.zone = z, !.new = n]
        PROVE  GCData(h)
    BY <2>1 DEF GCRec, GCData
  <2>2. CASE r.ok /\ zm' = r.zm /\ gc' = [gc EXCEPT ![t].zone = r.zone, ![t].new = new]
    <3>1. GCData([gc[t] EXCEPT !.zone = r.zone, !.new = new])
      BY <1>2, <1>4, <1>6, <2>1, <2>2
    <3>2. gc' = [gc EXCEPT ![t] = [gc[t] EXCEPT !.zone = r.zone, !.new = new]]
      BY <2>2
    <3>3. GCsData'
      BY <1>2, <3>1, <3>2, SetGCData
    <3> QED
      BY <1>4, <2>2, <3>3
  <2>3. CASE Abandon(t, r.zm)
    BY <1>4, <2>3, AbandonData
  <2> QED
    BY <1>5, <2>2, <2>3
<1> QED
  BY <1>1, <1>3, <1>7 DEF DataInv, MapData, FlsData, CmdsData, CurData

LEMMA MigrateWriteData ==
  ASSUME LogInv, DataInv, NEW t \in Threads, MigrateWrite(t), UNCHANGED cmdVars
  PROVE  DataInv'
<1> DEFINE lba == PhysLBA(gc[t].new)
<1>1. UNCHANGED <<buf, fl, l2p, p2l, cmd, cmds, cur>>
  BY DEF MigrateWrite, mapVars, bufVars, cmdVars
<1>2. GCData(gc[t]) /\ ZMData(zm) /\ Good(dev) /\ GCsData
  BY DEF DataInv, GCsData
<1>3. lba + SectorsPerSeg \in Int
  <2>1. lba \in Nat
    BY <1>2, PhysNat DEF GCData
  <2> QED
    BY <2>1, MappingAssumption
<1>4. Good(dev')
  BY <1>2, GoodWrite DEF MigrateWrite, GCData
<1>5. \/ zm' = UpdateWritePointer(zm, gc[t].zone, lba + SectorsPerSeg) /\ UNCHANGED gc
      \/ Abandon(t, zm)
  BY DEF MigrateWrite
<1> HIDE DEF lba
<1>6. ZMData(zm') /\ GCsData'
  <2>1. CASE zm' = UpdateWritePointer(zm, gc[t].zone, lba + SectorsPerSeg) /\ UNCHANGED gc
    BY <1>2, <1>3, <2>1, ZMUpdates DEF GCsData
  <2>2. CASE Abandon(t, zm)
    BY <1>2, <2>2, AbandonData
  <2> QED
    BY <1>5, <2>1, <2>2
<1> QED
  BY <1>1, <1>4, <1>6 DEF DataInv, MapData, FlsData, CmdsData, CurData

LEMMA MigrateCASData ==
  ASSUME LogInv, DataInv, NEW t \in Threads, MigrateCAS(t), UNCHANGED cmdVars
  PROVE  DataInv'
<1>1. UNCHANGED <<dev, buf, fl, gc, p2l, cmd, cmds, cur>>
  BY DEF MigrateCAS, bufVars, gcVars, cmdVars
<1>2. GCData(gc[t]) /\ ZMData(zm) /\ MapData
  BY DEF DataInv, GCsData
<1>3. ZMData(zm')
  BY <1>2, ZMUpdates DEF MigrateCAS
<1>4. l2p' \in [SegIDs -> Nat]
  BY <1>2 DEF MigrateCAS, L2PSet, MapData, GCData
<1> QED
  BY <1>1, <1>3, <1>4 DEF DataInv, MapData, FlsData, GCsData, CmdsData, CurData

LEMMA MigrateMapsData ==
  ASSUME LogInv, DataInv, NEW t \in Threads, MigrateMaps(t), UNCHANGED cmdVars
  PROVE  DataInv'
<1>1. UNCHANGED <<dev, buf, fl, gc, l2p, cmd, cmds, cur>>
  BY DEF MigrateMaps, bufVars, gcVars, cmdVars
<1>2. GCData(gc[t]) /\ ZMData(zm) /\ MapData
  BY DEF DataInv, GCsData
<1>3. ZMData(zm')
  BY <1>2, ZMUpdates DEF MigrateMaps
<1>4. p2l' \subseteq Nat \X Nat
  BY <1>2 DEF MigrateMaps, P2LSet, P2LDelete, MapData, GCData
<1> QED
  BY <1>1, <1>3, <1>4 DEF DataInv, MapData, FlsData, GCsData, CmdsData, CurData

LEMMA ResetData ==
  ASSUME LogInv, DataInv, NEW t \in Threads,
         JournalReset(t) \/ ResetVictim(t) \/ MarkVictim(t), UNCHANGED cmdVars
  PROVE  DataInv'
<1>1. UNCHANGED <<buf, fl, l2p, p2l, cmd, cmds, cur>>
  BY DEF JournalReset, ResetVictim, MarkVictim, mapVars, bufVars, gcVars, cmdVars
<1>2. GCShape /\ GCsData /\ ZMData(zm) /\ Good(dev) /\ Own(t)
  BY DEF DataInv, LogInv, Shapes
<1>3. CASE JournalReset(t)
  BY <1>1, <1>3 DEF JournalReset, gcVars, DataInv, MapData, FlsData, GCsData, CmdsData, CurData
<1>4. CASE ResetVictim(t)
  <2>1. Good(dev')
    BY <1>2, <1>4, ResetSteps, StepsKeepGood DEF ResetVictim
  <2> QED
    BY <1>1, <1>4, <2>1
      DEF ResetVictim, gcVars, DataInv, MapData, FlsData, GCsData, CmdsData, CurData
<1>5. CASE MarkVictim(t)
  <2>1. gc[t].victim \in Zones
    BY <1>2, <1>5 DEF MarkVictim, Own, Collecting
  <2>2. ZMData(zm')
    BY <1>2, <1>5, <2>1, ZMMarks, ZMUpdates DEF MarkVictim
  <2>3. GCsData'
    BY <1>2, <1>5, FreshGCData, SetGCData DEF MarkVictim
  <2> QED
    BY <1>1, <1>5, <2>2, <2>3 DEF MarkVictim, DataInv, MapData, FlsData, CmdsData, CurData
<1> QED
  BY <1>3, <1>4, <1>5
-----------------------------------------------------------------------------
(* Steps of a command *)

\* A command that is issued has its number and one of the requests.
LEMMA IssueData ==
  ASSUME LogInv, DataInv, NEW t \in Clients, Issue(t)
  PROVE  DataInv'
<1>1. t \in Threads
  BY DEF Threads
<1>2. /\ FlShape /\ FlsData /\ CmdShape /\ CmdsData /\ cmds \in Nat
  BY DEF LogInv, Shapes, DataInv, CmdsData
<1>3. ASSUME NEW c, NEW step, Begin(t, c, step), CmdRec(c), CmdData(c)
      PROVE  CmdsData'
  <2>1. PICK h : h = [c EXCEPT !.before = [a \in LBAs |-> Before(a)]]
    OBVIOUS
  <2>2. CmdData(h)
    <3>1. /\ h.lba = c.lba /\ h.end = c.end /\ h.seg = c.seg /\ h.zone = c.zone /\ h.wp = c.wp
          /\ h.new = c.new /\ h.kind = c.kind /\ h.id = c.id
      BY <1>3, <2>1 DEF CmdRec
    <3> QED
      BY <1>3, <3>1 DEF CmdData
  <2>3. cmd' = [cmd EXCEPT ![t] = h] /\ cmds' = cmds + 1
    BY <1>3, <2>1 DEF Begin
  <2>4. cmds' \in Nat
    BY <1>2, <2>3
  <2> QED
    BY <1>2, <2>2, <2>3, <2>4, SetCmdData
<1>4. ASSUME NEW req \in Requests, NEW k \in {"write", "unmap"}, cmds < MaxCmds, NEW c,
             c = [NoCmd EXCEPT !.kind = k, !.lba = req[1], !.end = req[1] + req[2],
                               !.id = cmds + 1, !.seg = LBAToSegmentID(req[1])]
      PROVE  CmdRec(c) /\ CmdData(c)
  <2>1. req[1] \in Nat /\ req[2] \in Nat /\ SectorsPerSeg \in Nat \ {0} /\ MaxCmds \in Nat
    BY ZTLAssumption, MappingAssumption
  <2>2. LBAToSegmentID(req[1]) \in Nat /\ req[1] + req[2] \in Nat /\ cmds + 1 \in 1 .. MaxCmds
    BY <1>2, <1>4, <2>1 DEF LBAToSegmentID
  <2>3. CmdRec(NoCmd)
    BY DEF NoCmd, CmdRec
  <2>4. /\ CmdRec(c) /\ c.lba = req[1] /\ c.end = req[1] + req[2] /\ c.id = cmds + 1
        /\ c.seg = LBAToSegmentID(req[1]) /\ c.zone = NoCmd.zone /\ c.wp = NoCmd.wp
        /\ c.new = NoCmd.new
    BY <1>4, <2>3 DEF CmdRec
  <2> QED
    BY <2>1, <2>2, <2>4, FreshCmdData DEF CmdData
<1>5. ASSUME NEW req \in Requests, Write(t, req) \/ Unmap(t, req)
      PROVE  DataInv'
  <2>1. UNCHANGED <<dev, zm, buf, fl, l2p, p2l, gc, cur>>
    BY <1>5 DEF Write, Unmap, mapVars, bufVars, gcVars
  <2>2. cmds < MaxCmds
    BY <1>5 DEF Write, Unmap, Begin
  <2>3. CmdsData'
    BY <1>3, <1>4, <1>5, <2>2 DEF Write, Unmap
  <2> QED
    BY <2>1, <2>3 DEF DataInv, MapData, FlsData, GCsData, CurData
<1>6. ASSUME Flush(t)
      PROVE  DataInv'
  <2>1. UNCHANGED <<dev, zm, buf, l2p, p2l, gc, cur>>
    BY <1>6 DEF Flush, mapVars, gcVars
  <2>2. FlsData'
    <3>1. FlData([NoFlush EXCEPT !.todo = Buffered])
      BY FreshFlData DEF Buffered
    <3> QED
      BY <1>1, <1>2, <1>6, <3>1, SetFlData DEF Flush
  <2>3. ASSUME NEW c, c = [NoCmd EXCEPT !.kind = "flush", !.id = cmds + 1]
        PROVE  CmdRec(c) /\ CmdData(c)
    <3>1. CmdRec(NoCmd)
      BY DEF NoCmd, CmdRec
    <3>2. /\ CmdRec(c) /\ c.kind = "flush" /\ c.lba = NoCmd.lba /\ c.end = NoCmd.end
          /\ c.seg = NoCmd.seg /\ c.zone = NoCmd.zone /\ c.wp = NoCmd.wp /\ c.new = NoCmd.new
      BY <2>3, <3>1 DEF CmdRec
    <3> QED
      BY <3>2, FreshCmdData DEF CmdData
  <2>4. CmdsData'
    BY <1>3, <1>6, <2>3 DEF Flush
  <2> QED
    BY <2>1, <2>2, <2>4 DEF DataInv, MapData, GCsData, CurData
<1> QED
  BY <1>5, <1>6 DEF Issue

\* A command ends, in success or not.
LEMMA EndData ==
  ASSUME LogInv, DataInv, NEW t \in Clients, End(t), cmds' = cmds
  PROVE  CmdsData'
  BY FreshCmdData, SetCmdData DEF End, LogInv, Shapes, DataInv, CmdsData

\* The loop over segments goes on.
LEMMA StepData ==
  ASSUME LogInv, DataInv, NEW t \in Clients, cmd' = [cmd EXCEPT ![t].seg = @ + 1], cmds' = cmds
  PROVE  CmdsData'
<1>1. CmdShape /\ CmdsData /\ CmdRec(cmd[t]) /\ CmdData(cmd[t]) /\ cmds' \in Nat
  BY DEF LogInv, Shapes, CmdShape, DataInv, CmdsData
<1>2. ASSUME NEW c, CmdRec(c), CmdData(c), NEW h, h = [c EXCEPT !.seg = @ + 1]
      PROVE  CmdData(h)
  <2>1. /\ h.lba = c.lba /\ h.end = c.end /\ h.seg = c.seg + 1 /\ h.zone = c.zone /\ h.wp = c.wp
        /\ h.new = c.new /\ h.kind = c.kind /\ h.id = c.id
    BY <1>2 DEF CmdRec
  <2> QED
    BY <1>2, <2>1 DEF CmdData
<1>3. cmd' = [cmd EXCEPT ![t] = [cmd[t] EXCEPT !.seg = @ + 1]]
  OBVIOUS
<1>4. CmdData([cmd[t] EXCEPT !.seg = @ + 1])
  BY <1>1, <1>2
<1> QED
  BY <1>1, <1>3, <1>4, SetCmdData

LEMMA RunEmergencyGCData ==
  ASSUME LogInv, DataInv, NEW t \in Clients, RunEmergencyGC(t)
  PROVE  DataInv'
<1>1. t \in Threads
  BY DEF Threads
<1>2. ASSUME NEW z \in Zones, SelectVictim(t, z, "check", "fail"), UNCHANGED cmdVars
      PROVE  DataInv'
  BY <1>1, <1>2, SelectVictimData
<1>3. ASSUME UNCHANGED <<dev, zm, mapVars, bufVars, gcVars>>, UNCHANGED cmdVars
      PROVE  DataInv'
  BY <1>3 DEF mapVars, bufVars, gcVars, cmdVars, DataInv, MapData, FlsData, GCsData, CmdsData,
              CurData
<1> QED
  BY <1>2, <1>3 DEF RunEmergencyGC

LEMMA WriteLockData ==
  ASSUME LogInv, DataInv, NEW t \in Clients, WriteLock(t)
  PROVE  DataInv'
<1> DEFINE r == AllocateFree(zm, dev)
<1>1. UNCHANGED <<buf, fl, l2p, p2l, gc, cmds>>
  BY DEF WriteLock, bufVars, gcVars
<1>2. /\ CmdShape /\ CmdsData /\ CmdRec(cmd[t]) /\ CmdData(cmd[t]) /\ cmds' \in Nat
      /\ Good(dev) /\ ZMData(zm) /\ CurData
  BY <1>1 DEF LogInv, Shapes, CmdShape, DataInv, CmdsData
<1>3. ZMData(r.zm) /\ (r.ok => r.zone \in Zones) /\ Good(r.dev)
  BY <1>2, ZMAllocates, GoodAllocate
<1>4. \/ cmd' = [cmd EXCEPT ![t].zone = cur.zone] /\ UNCHANGED <<dev, zm, cur>>
      \/ /\ r.ok /\ zm' = r.zm /\ dev' = r.dev
         /\ cur' = [zone |-> r.zone, open |-> TRUE] /\ cmd' = [cmd EXCEPT ![t].zone = r.zone]
      \/ zm' = r.zm /\ dev' = r.dev /\ cur' = [cur EXCEPT !.open = FALSE] /\ UNCHANGED cmd
  BY DEF WriteLock
<1> HIDE DEF r
<1>5. ASSUME NEW z \in Zones, cmd' = [cmd EXCEPT ![t].zone = z]
      PROVE  CmdsData'
  <2>1. ASSUME NEW c, CmdRec(c), CmdData(c), NEW h, h = [c EXCEPT !.zone = z]
        PROVE  CmdData(h)
    <3>1. /\ h.lba = c.lba /\ h.end = c.end /\ h.seg = c.seg /\ h.zone = z /\ h.wp = c.wp
          /\ h.new = c.new /\ h.kind = c.kind /\ h.id = c.id
      BY <2>1 DEF CmdRec
    <3> QED
      BY <2>1, <3>1 DEF CmdData
  <2>2. cmd' = [cmd EXCEPT ![t] = [cmd[t] EXCEPT !.zone = z]]
    BY <1>5
  <2>3. CmdData([cmd[t] EXCEPT !.zone = z])
    BY <1>2, <2>1
  <2> QED
    BY <1>2, <2>2, <2>3, SetCmdData
<1>6. Good(dev') /\ ZMData(zm') /\ CurData'
  BY <1>2, <1>3, <1>4 DEF CurData
<1>7. CmdsData'
  <2>1. CASE UNCHANGED cmd
    BY <1>2, <2>1 DEF CmdsData
  <2>2. CASE cmd' = [cmd EXCEPT ![t].zone = cur.zone]
    BY <1>2, <1>5, <2>2 DEF CurData
  <2>3. CASE r.ok /\ cmd' = [cmd EXCEPT ![t].zone = r.zone]
    BY <1>3, <1>5, <2>3
  <2> QED
    BY <1>4, <2>1, <2>2, <2>3
<1> QED
  BY <1>1, <1>6, <1>7 DEF DataInv, MapData, FlsData, GCsData

\* The new address is a number whatever the zone manager's pointer says.
LEMMA WriteLogData ==
  ASSUME LogInv, DataInv, NEW t \in Clients, WriteLog(t)
  PROVE  DataInv'
<1> DEFINE wp  == zm.wp[cmd[t].zone]
           new == EncodePhysAddr(cmd[t].zone, wp - zoneStartLBA(cmd[t].zone))
           old == L2PGet(l2p, cmd[t].seg)
<1>1. UNCHANGED <<dev, zm, buf, fl, l2p, p2l, gc, cmds, cur>>
  BY DEF WriteLog, bufVars, gcVars
<1>2. /\ CmdShape /\ CmdsData /\ CmdRec(cmd[t]) /\ CmdData(cmd[t]) /\ cmds' \in Nat
      /\ ZMData(zm)
  BY <1>1 DEF LogInv, Shapes, CmdShape, DataInv, CmdsData
<1>3. cmd' = [cmd EXCEPT ![t] = [cmd[t] EXCEPT !.wp = wp, !.old = old, !.new = new]]
  BY DEF WriteLog
<1>4. cmd[t].zone \in Zones /\ wp \in Int /\ zoneStartLBA(cmd[t].zone) \in Nat
  BY <1>2, ZoneBounds DEF CmdData, ZMData
<1> HIDE DEF wp
<1>5. wp - zoneStartLBA(cmd[t].zone) \in Int
  BY <1>4
<1>6. new \in Nat
  BY <1>4, <1>5, Encoded
<1> HIDE DEF new, old
<1>7. ASSUME NEW c, CmdRec(c), CmdData(c), NEW h, h = [c EXCEPT !.wp = wp, !.old = old, !.new = new]
      PROVE  CmdData(h)
  <2>1. /\ h.lba = c.lba /\ h.end = c.end /\ h.seg = c.seg /\ h.zone = c.zone /\ h.wp = wp
        /\ h.new = new /\ h.kind = c.kind /\ h.id = c.id
    BY <1>7 DEF CmdRec
  <2> QED
    BY <1>4, <1>6, <1>7, <2>1 DEF CmdData
<1>8. CmdData([cmd[t] EXCEPT !.wp = wp, !.old = old, !.new = new])
  BY <1>2, <1>7
<1>9. CmdsData'
  BY <1>2, <1>3, <1>8, SetCmdData
<1> QED
  BY <1>1, <1>9 DEF DataInv, MapData, FlsData, GCsData, CurData

LEMMA SetL2PData ==
  ASSUME LogInv, DataInv, NEW t \in Clients, SetL2P(t)
  PROVE  DataInv'
<1>1. UNCHANGED <<dev, zm, buf, fl, p2l, gc, cmd, cmds, cur>>
  BY DEF SetL2P, bufVars, gcVars, cmdVars
<1>2. CmdData(cmd[t]) /\ MapData
  BY DEF DataInv, CmdsData
<1>3. l2p' \in [SegIDs -> Nat]
  BY <1>2 DEF SetL2P, L2PSet, MapData, CmdData
<1> QED
  BY <1>1, <1>3 DEF DataInv, MapData, FlsData, GCsData, CmdsData, CurData

LEMMA SetL2PFailsData ==
  ASSUME DataInv, NEW t \in Clients, SetL2PFails(t)
  PROVE  DataInv'
<1>1. UNCHANGED <<dev, zm, buf, fl, l2p, p2l, gc, cmd, cmds, cur>>
  BY DEF SetL2PFails, mapVars, bufVars, gcVars
<1> QED
  BY <1>1 DEF DataInv, MapData, FlsData, GCsData, CmdsData, CurData

\* The data of a segment are stamps of the command, which are data, or zeros.
LEMMA SegDataSectors ==
  ASSUME NEW c, CmdData(c)
  PROVE  SegData(c) \in Seq(Sectors)
<1> DEFINE first == PartFirst(c.lba, c.seg)
           last  == PartLast(c.end, c.seg)
           n     == last - first
<1>1. /\ c.lba \in Nat /\ c.end \in Nat /\ c.seg \in Nat /\ SectorsPerSeg \in Nat
      /\ c.seg * SectorsPerSeg \in Nat
  BY MappingAssumption DEF CmdData
<1>2. first \in Nat /\ last \in Nat /\ first >= c.lba /\ last <= c.end
  BY <1>1 DEF PartFirst, PartLast, SegmentStart, SegmentEnd
<1> HIDE DEF first, last
<1>3. ASSUME NEW i \in 1 .. n
      PROVE  Stamp(c, first + i - 1) \in Sectors
  <2>1. first + i - 1 \in c.lba .. c.end - 1
    BY <1>1, <1>2
  <2>2. CASE c.kind = "write"
    <3>1. PICK req \in Requests : c.lba = req[1] /\ c.end = req[1] + req[2]
      BY <2>2 DEF CmdData
    <3>2. c.id \in 1 .. MaxCmds
      BY <2>2 DEF CmdData
    <3>3. <<c.id, first + i - 1>> \in Data
      BY <2>1, <3>1, <3>2, ZTLAssumption
    <3> QED
      BY <2>2, <3>3 DEF Stamp, Sectors
  <2>3. CASE c.kind # "write"
    BY <2>3 DEF Stamp, Sectors
  <2> QED
    BY <2>2, <2>3
<1>4. SegData(c) = [i \in 1 .. n |-> Stamp(c, first + i - 1)]
  BY DEF SegData, first, last
<1>5. PICK m \in Nat : 1 .. n = 1 .. m
  <2>1. CASE n >= 0
    BY <1>2, <2>1
  <2>2. CASE ~ (n >= 0)
    <3>1. 1 .. n = 1 .. 0
      BY <1>2, <2>2
    <3> QED
      BY <3>1
  <2> QED
    BY <2>1, <2>2
<1> HIDE DEF n
<1>6. [i \in 1 .. m |-> Stamp(c, first + i - 1)] \in Seq(Sectors)
  <2>1. \A i \in 1 .. m : Stamp(c, first + i - 1) \in Sectors
    BY <1>3, <1>5
  <2>2. [i \in 1 .. m |-> Stamp(c, first + i - 1)] \in [1 .. m -> Sectors]
    BY <2>1
  <2> HIDE DEF SegData
  <2> QED
    BY <2>2, SeqOfFunction
<1> QED
  BY <1>4, <1>5, <1>6

LEMMA WriteMapsData ==
  ASSUME LogInv, DataInv, NEW t \in Clients, WriteMaps(t)
  PROVE  DataInv'
<1> DEFINE c == cmd[t]
<1>1. UNCHANGED <<dev, buf, fl, l2p, gc, cmd, cmds, cur>>
  BY DEF WriteMaps, bufVars, gcVars, cmdVars
<1>2. CmdData(c) /\ MapData /\ ZMData(zm)
  BY DEF DataInv, CmdsData
<1>3. NewWP(c) \in Int
  <2>1. SegData(c) \in Seq(Sectors)
    BY <1>2, SegDataSectors
  <2> QED
    BY <1>2, <2>1 DEF NewWP, CmdData
<1>4. ZMData(CountWithout(c.old))
  BY <1>2, ZMUpdates DEF CountWithout
<1>5. ZMData(zm')
  BY <1>3, <1>4, ZMUpdates DEF WriteMaps
<1>6. p2l' \subseteq Nat \X Nat
  <2>1. <<c.new, c.seg>> \in Nat \X Nat
    BY <1>2 DEF CmdData
  <2>2. P2LWithout(c.old) \subseteq Nat \X Nat
    BY <1>2 DEF P2LWithout, P2LDelete, MapData
  <2> QED
    BY <2>1, <2>2 DEF WriteMaps, P2LSet, P2LDelete
<1> QED
  BY <1>1, <1>5, <1>6 DEF DataInv, MapData, FlsData, GCsData, CmdsData, CurData

LEMMA NextSegmentData ==
  ASSUME LogInv, DataInv, NEW t \in Clients, NextSegment(t), cmds' = cmds
  PROVE  CmdsData'
<1>1. CASE UNCHANGED cmd
  BY <1>1 DEF DataInv, CmdsData
<1>2. CASE cmd' = [cmd EXCEPT ![t].seg = @ + 1]
  BY <1>2, StepData
<1> QED
  BY <1>1, <1>2 DEF NextSegment

LEMMA WriteAddData ==
  ASSUME LogInv, DataInv, NEW t \in Clients, WriteAdd(t)
  PROVE  DataInv'
<1> DEFINE c == cmd[t]
<1>1. UNCHANGED <<dev, zm, l2p, p2l, gc, cmds, cur>> /\ t \in Threads
  BY DEF WriteAdd, mapVars, gcVars, Threads
<1>2. CmdData(c) /\ buf \in [Zones -> Buffers] /\ FlsData /\ FlShape
  BY DEF DataInv, CmdsData, LogInv, Shapes
<1>3. buf' \in [Zones -> Buffers]
  <2>1. SegData(c) \in Seq(Sectors) /\ c.wp \in Int /\ c.zone \in Zones
    BY <1>2, SegDataSectors DEF CmdData
  <2>2. ASSUME NEW b \in Buffers, NEW s \in Seq(Sectors), NEW w \in Int
        PROVE  /\ [wp |-> w, data |-> s] \in Buffers
               /\ [wp |-> b.wp, data |-> b.data \o s] \in Buffers
    BY DEF Buffers
  <2>3. buf[c.zone] \in Buffers
    BY <1>2, <2>1
  <2> QED
    BY <1>2, <2>1, <2>2, <2>3 DEF WriteAdd, Add
<1>4. CASE /\ fl' = [fl EXCEPT ![t] = [NoFlush EXCEPT !.zone = c.zone, !.ret = "relock"]]
           /\ UNCHANGED cmd
  <2>1. FlsData'
    BY <1>1, <1>2, <1>4, FreshFlData, SetFlData DEF CmdData
  <2> QED
    BY <1>1, <1>3, <1>4, <2>1 DEF DataInv, MapData, GCsData, CmdsData, CurData
<1>5. CASE NextSegment(t) /\ UNCHANGED fl
  <2>1. CmdsData'
    BY <1>1, <1>5, NextSegmentData
  <2> QED
    BY <1>1, <1>3, <1>5, <2>1 DEF DataInv, MapData, GCsData, FlsData, CurData
<1> QED
  BY <1>4, <1>5 DEF WriteAdd

LEMMA WriteRelockData ==
  ASSUME LogInv, DataInv, NEW t \in Clients, WriteRelock(t)
  PROVE  DataInv'
<1>1. UNCHANGED <<dev, zm, buf, l2p, p2l, gc, cmds>> /\ t \in Threads
  BY DEF WriteRelock, mapVars, gcVars, Threads
<1>2. FlsData'
  BY <1>1, FreshFlData, SetFlData DEF WriteRelock, LogInv, Shapes, DataInv
<1>3. CmdsData' /\ CurData'
  <2>1. CASE UNCHANGED <<cur, cmd>>
    BY <1>1, <2>1 DEF DataInv, CmdsData, CurData
  <2>2. CASE cur' = [cur EXCEPT !.open = FALSE] /\ NextSegment(t)
    <3>1. CurData'
      BY <2>2 DEF DataInv, CurData
    <3> QED
      BY <1>1, <2>2, <3>1, NextSegmentData
  <2> QED
    BY <2>1, <2>2 DEF WriteRelock
<1> QED
  BY <1>1, <1>2, <1>3 DEF DataInv, MapData, GCsData

LEMMA NextUnmapData ==
  ASSUME LogInv, DataInv, NEW t \in Clients, NextUnmap(t), cmds' = cmds
  PROVE  CmdsData'
  BY EndData, StepData DEF NextUnmap

LEMMA UnmapData ==
  ASSUME LogInv, DataInv, NEW t \in Clients, UnmapLock(t) \/ UnmapLog(t) \/ UnmapMaps(t)
  PROVE  DataInv'
<1>1. CASE UnmapLock(t)
  BY <1>1 DEF UnmapLock, mapVars, bufVars, gcVars, DataInv, MapData, FlsData, GCsData, CmdsData,
              CurData
<1>2. CASE UnmapLog(t)
  <2>1. UNCHANGED <<dev, zm, buf, fl, l2p, p2l, gc, cmds, cur>>
    BY <1>2 DEF UnmapLog, bufVars, gcVars
  <2>2. CASE NextUnmap(t)
    BY <2>1, <2>2, NextUnmapData DEF DataInv, MapData, FlsData, GCsData, CurData
  <2>3. ASSUME NEW old, cmd' = [cmd EXCEPT ![t].old = old, ![t].new = Unmapped]
        PROVE  CmdsData'
    <3>1. CmdShape /\ CmdsData /\ CmdRec(cmd[t]) /\ CmdData(cmd[t]) /\ cmds' \in Nat
      BY <2>1 DEF LogInv, Shapes, CmdShape, DataInv, CmdsData
    <3>2. ASSUME NEW c, CmdRec(c), CmdData(c), NEW h,
                 h = [c EXCEPT !.old = old, !.new = Unmapped]
          PROVE  CmdData(h)
      <4>1. /\ h.lba = c.lba /\ h.end = c.end /\ h.seg = c.seg /\ h.zone = c.zone /\ h.wp = c.wp
            /\ h.new = Unmapped /\ h.kind = c.kind /\ h.id = c.id
        BY <3>2 DEF CmdRec
      <4> QED
        BY <3>2, <4>1 DEF CmdData, Unmapped
    <3>3. cmd' = [cmd EXCEPT ![t] = [cmd[t] EXCEPT !.old = old, !.new = Unmapped]]
      BY <2>3
    <3>4. CmdData([cmd[t] EXCEPT !.old = old, !.new = Unmapped])
      BY <3>1, <3>2
    <3> QED
      BY <3>1, <3>3, <3>4, SetCmdData
  <2> QED
    BY <1>2, <2>1, <2>2, <2>3 DEF UnmapLog, DataInv, MapData, FlsData, GCsData, CurData
<1>3. CASE UnmapMaps(t)
  <2>1. UNCHANGED <<dev, buf, fl, l2p, gc, cmds, cur>>
    BY <1>3 DEF UnmapMaps, bufVars, gcVars
  <2>2. ZMData(zm') /\ p2l' \subseteq Nat \X Nat
    BY <1>3, ZMUpdates DEF UnmapMaps, P2LDelete, DataInv, MapData
  <2>3. CmdsData'
    BY <1>3, <2>1, NextUnmapData DEF UnmapMaps
  <2> QED
    BY <2>1, <2>2, <2>3 DEF DataInv, MapData, FlsData, GCsData, CurData
<1> QED
  BY <1>1, <1>2, <1>3

LEMMA EndingsData ==
  ASSUME LogInv, DataInv, NEW t \in Clients, FlushDone(t) \/ Commit(t) \/ Fail(t)
  PROVE  DataInv'
<1>1. CASE FlushDone(t)
  <2>1. UNCHANGED <<dev, zm, buf, l2p, p2l, gc, cmd, cmds, cur>> /\ t \in Threads
    BY <1>1 DEF FlushDone, mapVars, gcVars, cmdVars, Threads
  <2>2. FlsData'
    BY <1>1, <2>1, FreshFlData, SetFlData DEF FlushDone, LogInv, Shapes, DataInv
  <2> QED
    BY <2>1, <2>2 DEF DataInv, MapData, GCsData, CmdsData, CurData
<1>2. CASE Commit(t) \/ Fail(t)
  <2>1. UNCHANGED <<dev, zm, buf, fl, l2p, p2l, gc, cmds, cur>>
    BY <1>2 DEF Commit, Fail, mapVars, bufVars, gcVars
  <2>2. CmdsData'
    BY <1>2, <2>1, EndData DEF Commit, Fail
  <2> QED
    BY <2>1, <2>2 DEF DataInv, MapData, FlsData, GCsData, CurData
<1> QED
  BY <1>1, <1>2

-----------------------------------------------------------------------------
(* The theorem *)

LEMMA DataSteps ==
  ASSUME LogInv, DataInv, [Next]_vars
  PROVE  DataInv'
<1>1. CASE UNCHANGED vars
  BY <1>1 DEF vars, mapVars, gcVars, cmdVars, DataInv, MapData, FlsData, GCsData, CmdsData, CurData
<1>2. ASSUME NEW t \in Threads, UNCHANGED <<gcVars, cmdVars>>,
             FlushStep(t) \/ FlushNext(t) \/ flushAged(t) \/ flushAgedDone(t)
      PROVE  DataInv'
  BY <1>2, FlushTakeData, FlushOpenData, FlushWriteData, FlushPointData, FlushLoopData
    DEF FlushStep
<1>3. ASSUME NEW t \in Threads, GCStep(t), UNCHANGED cmdVars
      PROVE  DataInv'
  BY <1>3, FreezeVictimData, MigrateReadData, MigrateAllocData, MigrateWriteData,
     MigrateCASData, MigrateMapsData, ResetData
    DEF GCStep
<1>4. ASSUME NEW t \in Clients, ClientStep(t)
      PROVE  DataInv'
  BY <1>4, RunEmergencyGCData, WriteLockData, WriteLogData, SetL2PData, WriteMapsData,
     WriteAddData, WriteRelockData, UnmapData, EndingsData, SetL2PFailsData
    DEF ClientStep
<1>5. ASSUME NEW t \in Clients, Issue(t) \/ ClientWork(t)
      PROVE  DataInv'
  BY <1>2, <1>3, <1>4, <1>5, IssueData DEF ClientWork, Threads
<1>6. ASSUME NEW t \in Flushers, FlusherWork(t)
      PROVE  DataInv'
  BY <1>2, <1>6 DEF FlusherWork, Threads
<1>7. ASSUME NEW t \in Collectors, CollectorWork(t)
      PROVE  DataInv'
  BY <1>3, <1>7, SelectVictimData DEF CollectorWork, runCycle, Threads
<1> QED
  BY <1>1, <1>5, <1>6, <1>7 DEF Next

\* Ascending lists the zones of a set, each once.
LEMMA AscendingLists ==
  ASSUME NEW S, S \subseteq Zones
  PROVE  LET s == Ascending(S)
         IN /\ s \in Seq(Zones) /\ Len(s) = Cardinality(S)
            /\ \A i, j \in 1 .. Len(s) : s[i] = s[j] => i = j
            /\ \A z : z \in S <=> \E i \in 1 .. Len(s) : s[i] = z
<1> DEFINE n == Cardinality(S)
           s == Ascending(S)
           below(z) == {y \in S : y < z}
           rank == [z \in S |-> Cardinality(below(z))]
<1>1. S \subseteq Nat /\ IsFiniteSet(S) /\ n \in Nat
  <2>1. IsFiniteSet(Zones) /\ S \in SUBSET Zones
    BY FS_Interval, DeviceAssumption DEF Zones
  <2> QED
    BY <2>1, ZoneZero, FS_Subset, FS_CardinalityType
<1>2. \A z \in S : IsFiniteSet(below(z)) /\ Cardinality(below(z)) \in Nat
  <2> SUFFICES ASSUME NEW z \in S
               PROVE  IsFiniteSet(below(z)) /\ Cardinality(below(z)) \in Nat
    OBVIOUS
  <2>1. below(z) \in SUBSET S
    OBVIOUS
  <2> HIDE DEF below
  <2> QED
    BY <1>1, <2>1, FS_Subset, FS_CardinalityType
<1>3. ASSUME NEW y \in S, NEW z \in S, y < z
      PROVE  Cardinality(below(y)) < Cardinality(below(z))
  <2>1. y \notin below(y) /\ below(y) \union {y} \in SUBSET below(z)
    <3>1. \A x \in S : x < y => x < z
      BY <1>1, <1>3
    <3>2. ~(y < y)
      BY <1>1
    <3> QED
      BY <1>3, <3>1, <3>2
  <2> HIDE DEF below
  <2>2. Cardinality(below(y) \union {y}) = Cardinality(below(y)) + 1
    BY <1>2, <2>1, FS_AddElement
  <2>3. Cardinality(below(y) \union {y}) <= Cardinality(below(z))
    BY <1>2, <2>1, FS_Subset
  <2> QED
    BY <1>2, <2>2, <2>3
<1>4. ASSUME NEW z \in S
      PROVE  Cardinality(below(z)) \in 0 .. n - 1
  <2>1. z \notin below(z) /\ below(z) \union {z} \in SUBSET S
    BY <1>1
  <2> HIDE DEF below
  <2>2. Cardinality(below(z) \union {z}) = Cardinality(below(z)) + 1
    BY <1>2, <2>1, FS_AddElement
  <2>3. Cardinality(below(z) \union {z}) <= n
    BY <1>1, <2>1, FS_Subset
  <2> QED
    BY <1>1, <1>2, <2>2, <2>3
<1>5. rank \in Injection(S, 0 .. n - 1)
  <2>1. rank \in [S -> 0 .. n - 1]
    <3> HIDE DEF below
    <3> QED
      BY <1>4
  <2>2. ASSUME NEW y \in S, NEW z \in S, rank[y] = rank[z]
        PROVE  y = z
    <3>1. y \in Nat /\ z \in Nat
      BY <1>1
    <3>2. rank[y] = Cardinality(below(y)) /\ rank[z] = Cardinality(below(z))
      OBVIOUS
    <3> HIDE DEF below, rank
    <3>3. Cardinality(below(y)) \in Nat /\ Cardinality(below(z)) \in Nat
      BY <1>2
    <3>4. y < z => Cardinality(below(y)) < Cardinality(below(z))
      BY <1>3
    <3>5. z < y => Cardinality(below(z)) < Cardinality(below(y))
      BY <1>3
    <3>6. Cardinality(below(y)) = Cardinality(below(z))
      BY <2>2, <3>2
    <3>7. ~(y < z) /\ ~(z < y)
      BY <3>3, <3>4, <3>5, <3>6
    <3> QED
      BY <3>1, <3>7
  <2> HIDE DEF rank
  <2> QED
    BY <2>1, <2>2 DEF Injection, IsInjective
<1>6. \A i \in 0 .. n - 1 : \E z \in S : rank[z] = i
  <2>1. IsFiniteSet(0 .. n - 1) /\ Cardinality(0 .. n - 1) = n
    <3>1. 0 \in Int /\ n - 1 \in Int
      BY <1>1
    <3> HIDE DEF n
    <3> QED
      BY <1>1, <3>1, FS_Interval
  <2> HIDE DEF rank
  <2>2. rank \in Surjection(S, 0 .. n - 1)
    BY <1>5, <2>1, FS_Injection DEF n
  <2> QED
    BY <2>2 DEF Surjection
<1>7. ASSUME NEW i \in 1 .. n
      PROVE  s[i] \in S /\ rank[s[i]] = i - 1
  <2>1. i - 1 \in 0 .. n - 1
    BY <1>1
  <2>2. \E z \in S : rank[z] = i - 1
    BY <1>6, <2>1
  <2>3. s[i] = CHOOSE z \in S : Cardinality(below(z)) = i - 1
    BY DEF Ascending
  <2>4. \E z \in S : Cardinality(below(z)) = i - 1
    BY <2>2
  <2>5. s[i] \in S /\ Cardinality(below(s[i])) = i - 1
    <3> HIDE DEF below, s, n
    <3> QED
      BY <2>3, <2>4
  <2> HIDE DEF s, n, below
  <2> QED
    BY <2>5
<1>8. s = [i \in 1 .. n |-> s[i]]
  BY DEF Ascending
<1>9. \A y, z \in S : rank[y] = rank[z] => y = z
  BY <1>5 DEF Injection, IsInjective
<1>10. \A z \in S : rank[z] \in 0 .. n - 1
  BY <1>5 DEF Injection
<1> HIDE DEF n, s, rank
<1>11. s \in [1 .. n -> Zones]
  BY <1>7, <1>8
<1>12. s \in Seq(Zones) /\ Len(s) = n
  BY <1>1, <1>11, SeqOfFunction
<1>13. \A i, j \in 1 .. n : s[i] = s[j] => i = j
  <2> SUFFICES ASSUME NEW i \in 1 .. n, NEW j \in 1 .. n, s[i] = s[j]
               PROVE  i = j
    OBVIOUS
  <2>1. i - 1 = j - 1
    BY <1>7
  <2> QED
    BY <1>1, <2>1
<1>14. ASSUME NEW z \in S
       PROVE  \E i \in 1 .. n : s[i] = z
  <2>1. rank[z] + 1 \in 1 .. n /\ (rank[z] + 1) - 1 = rank[z]
    BY <1>1, <1>10
  <2>2. s[rank[z] + 1] = z
    BY <1>7, <1>9, <2>1
  <2> QED
    BY <2>1, <2>2
<1>15. \A z : z \in S <=> \E i \in 1 .. n : s[i] = z
  BY <1>7, <1>14
<1> QED
  BY <1>12, <1>13, <1>15 DEF n, s

\* Initialize takes over what ReportZones says of the device.
LEMMA Initialized ==
  ASSUME NEW d
  PROVE  Initialize(d) =
           [st |-> [z \in Zones |-> d.st[z]], wp |-> [z \in Zones |-> d.wp[z]],
            valid |-> [z \in Zones |-> 0], total |-> [z \in Zones |-> 0],
            free |-> Ascending({z \in Zones : d.st[z] = "EMPTY"}),
            lru |-> Ascending({z \in Zones : isOpen(d.st[z])}),
            open |-> {z \in Zones : isOpen(d.st[z])}, frozen |-> {}]
<1> DEFINE desc == ReportZones(d, 0, 0)
           In(S) == {z \in Zones : desc[z].state \in S}
<1>1. ReportedZones(0, 0) = Zones
  BY DeviceAssumption DEF ReportedZones, zoneIndex, Zones
<1>2. desc = [z \in Zones |-> [state |-> d.st[z], start |-> zoneStartLBA(z), wp |-> d.wp[z]]]
  BY <1>1 DEF ReportZones
<1>3. \A z \in Zones : desc[z].state = d.st[z] /\ desc[z].wp = d.wp[z]
  BY <1>2
<1> HIDE DEF desc
<1>4. /\ [z \in Zones |-> desc[z].state] = [z \in Zones |-> d.st[z]]
      /\ [z \in Zones |-> desc[z].wp] = [z \in Zones |-> d.wp[z]]
  BY <1>3
<1>5. /\ In({"EMPTY"}) = {z \in Zones : d.st[z] = "EMPTY"}
      /\ In(OpenStates) = {z \in Zones : isOpen(d.st[z])}
  BY <1>3 DEF isOpen
<1> HIDE DEF In
<1>6. Initialize(d) =
        [st |-> [z \in Zones |-> desc[z].state], wp |-> [z \in Zones |-> desc[z].wp],
         valid |-> [z \in Zones |-> 0], total |-> [z \in Zones |-> 0],
         free |-> Ascending(In({"EMPTY"})), lru |-> Ascending(In(OpenStates)),
         open |-> In(OpenStates), frozen |-> {}]
  BY DEF Initialize, desc, In
<1> QED
  BY <1>4, <1>5, <1>6, Zenon

\* The process has just started, on whatever device and with whatever table:
\* nothing runs, nothing is buffered, and the zone manager has been initialised.
Fresh ==
  /\ Good(dev) /\ zm = Initialize(dev) /\ p2l = {}
  /\ buf = [z \in Zones |-> NoBuffer]
  /\ pc = [t \in Threads |-> "idle"]
  /\ fl = [t \in Threads |-> NoFlush]
  /\ gc = [t \in Threads |-> NoGC]
  /\ mu = NoOne
  /\ cur = [zone |-> 0, open |-> FALSE]
  /\ cmd = [t \in Clients |-> NoCmd]

LEMMA InitFresh == Init => Fresh
  BY NewGood DEF Init, DevInit, BufInit, MapInit, GCInit, Fresh

LEMMA FreshZM ==
  ASSUME NEW d, Good(d)
  PROVE  ZMData(Initialize(d))
<1>1. \A z \in Zones : d.wp[z] \in Int
  BY DEF Good, Records
<1>2. Ascending({z \in Zones : d.st[z] = "EMPTY"}) \in Seq(Zones)
  BY AscendingLists
<1> QED
  BY <1>1, <1>2, Initialized DEF ZMData

Numbers == l2p \in [SegIDs -> Nat] /\ cmds \in Nat

LEMMA FreshData == Fresh /\ Numbers => DataInv
<1> SUFFICES ASSUME Fresh, l2p \in [SegIDs -> Nat], cmds \in Nat
             PROVE  DataInv
  BY DEF Numbers
<1>1. Good(dev) /\ ZMData(zm) /\ MapData
  BY FreshZM DEF Fresh, MapData
<1>2. buf \in [Zones -> Buffers]
  BY DEF Fresh, NoBuffer, Buffers
<1>3. FlsData /\ GCsData
  BY FreshFlData, FreshGCData DEF Fresh, FlsData, GCsData
<1>4. CmdsData
  BY FreshCmdData DEF Fresh, CmdsData
<1>5. CurData
  BY ZoneZero DEF Fresh, CurData
<1> QED
  BY <1>1, <1>2, <1>3, <1>4, <1>5 DEF DataInv

LEMMA DataInitially == Init => DataInv
  BY InitFresh, FreshData DEF Init, MapInit, Unmapped, Numbers

LEMMA DataInvariant == Spec => []DataInv
<1>1. DataInv /\ LogInv /\ [Next]_vars => DataInv'
  BY DataSteps
<1> QED
  BY <1>1, DataInitially, LogInvariant, PTL DEF Spec

\* However writers, flushes and collections interleave, the device's count of
\* open zones is exact and within MaxOpenZones.
THEOREM OpenLimitKept == Spec => []OpenCountExact
  BY DataInvariant, GoodImplies, PTL DEF DataInv

\* And no write pointer leaves its zone, a zone is FULL exactly when its pointer
\* is at its end, and nothing above a pointer is ever anything but zeros.
THEOREM DeviceSound ==
  Spec => [](DevTypeOK /\ ConditionMatchesPointer /\ ZeroAbovePointer)
  BY DataInvariant, GoodImplies, PTL DEF DataInv
=============================================================================
