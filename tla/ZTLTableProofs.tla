--------------------------- MODULE ZTLTableProofs ---------------------------
(***************************************************************************)
(* The tables and the log, until the first collection, for any number of   *)
(* clients and any requests.  The collector's compare-and-swap is not      *)
(* under ztl.mu, and once it runs beside a writer the order of the log     *)
(* need not be the order of the updates; so the theorems stop there.       *)
(*                                                                         *)
(* LogRebuildsTable (REQ-NFR-03, "No L2P data loss"): replaying the log    *)
(* rebuilds the L2P table, with any age loops too, if no request reaches   *)
(* beyond the table (InRange): such a segment is logged and then refused,  *)
(* and its record stops the replay.  The argument is the one the code      *)
(* makes with its lock.  Every logged update is made under ztl.mu          *)
(* (LockInv), so at most one of them is logged and not yet applied: the    *)
(* one the holder of the lock is about to make.  The replayed log is the   *)
(* table with that one update made (Published).                            *)
(*                                                                         *)
(* TablesStayExact: P2L is the inverse of L2P, no two segments share an    *)
(* address, and each zone's count is right.  P2L follows the table the     *)
(* holder of ztl.mu found (Followed).  Nothing but the zone manager's      *)
(* write pointers keeps addresses apart, so the invariant (PlaceInv) is    *)
(* about them: every address in the table is below its zone's pointer, a   *)
(* writer's new address is at the pointer, a zone on the free list is      *)
(* empty, and Flush, which sets the pointer from the buffer it took, sets  *)
(* it to where it is.  That last part needs FlushesAlone: it is what a     *)
(* flush beside a writer breaks.                                           *)
(***************************************************************************)
EXTENDS ZTLProofs, SequenceTheorems, WellFoundedInduction, FiniteSetTheorems

-----------------------------------------------------------------------------
(* ztl.mu *)

\* The steps taken with ztl.mu held.
Locked == {"log", "set", "maps", "add", "ulog", "umaps"}

\* The thread between those steps is the one that holds the lock.
LockInv ==
  /\ mu = NoOne \/ (mu \in Clients /\ pc[mu] \in Locked)
  /\ \A t \in Clients : pc[t] \in Locked => mu = t

\* No collection has begun, or one has been counted.
Quiet == cycles \in Nat /\ (cycles = 0 => \A t \in Threads : pc[t] \notin Collecting)

\* The table as it will be once the update that is logged has been applied.
Published ==
  IF mu \in Clients /\ pc[mu] = "set"
  THEN L2PSet(l2p, cmd[mu].seg, cmd[mu].new)
  ELSE l2p

ReplayInv == cycles = 0 => Replay(wal) = Published

\* The inductive invariant.
TableInv == LockInv /\ Quiet /\ ReplayInv

-----------------------------------------------------------------------------
(* What replaying makes of one more record *)

\* A set of positions in the log has a last one.
LEMMA LastPosition ==
  ASSUME NEW n \in Nat, NEW S \in SUBSET (1 .. n), S # {}
  PROVE  Max(S) \in S /\ \A y \in S : y <= Max(S)
<1> DEFINE T == {n - x : x \in S}
<1>0. \A x \in S : n - x \in Nat
  OBVIOUS
<1>1. T \in SUBSET Nat /\ T # {}
  BY <1>0
<1>2. PICK d \in T : \A e \in T : ~(<<e, d>> \in OpToRel(<, Nat))
  BY <1>1, NatLessThanWellFounded, WFMin
<1>3. \A e \in T : d <= e
  <2>1. ASSUME NEW e \in T
        PROVE  d <= e
    <3>1. d \in Nat /\ e \in Nat
      BY <1>1
    <3>2. ~(e < d)
      BY <1>2, <3>1 DEF OpToRel
    <3> QED
      BY <3>1, <3>2
  <2> QED
    BY <2>1
<1>4. PICK x \in S : d = n - x
  OBVIOUS
<1>5. ASSUME NEW y \in S
      PROVE  x >= y
  <2>1. n - x <= n - y
    BY <1>3, <1>4
  <2>2. x \in Nat /\ y \in Nat
    OBVIOUS
  <2> HIDE DEF T
  <2> QED
    BY <2>1, <2>2
<1>6. \E m \in S : \A y \in S : m >= y
  BY <1>5
<1>7. Max(S) \in S /\ \A y \in S : Max(S) >= y
  BY <1>6 DEF Max
<1> QED
  BY <1>7

\* Where the log leaves segment seg.
Final(w, seg) ==
  IF Updates(w, seg) = {} THEN Unmapped ELSE w[Max(Updates(w, seg))].new

\* Every segment is left there by the replay.
LEMMA ReplayIs ==
  ASSUME NEW w
  PROVE  Replay(w) = [s \in SegIDs |-> Final(w, s)]
  BY DEF Replay, Final

\* A record for seg is its last update; a record of another kind, or for
\* another segment, is none.
LEMMA UpdatesAppend ==
  ASSUME NEW w, IsSeq(w), NEW x, NEW seg
  PROVE  Final(Append(w, x), seg) =
           IF x.kind = "L2P" /\ x.seg = seg THEN x.new ELSE Final(w, seg)
<1> DEFINE v == Append(w, x)
           n == Len(w)
<1>1. /\ n \in Nat /\ Len(v) = n + 1
      /\ \A i \in 1 .. n : v[i] = w[i]
      /\ v[n + 1] = x
  BY AppendGrows
<1> HIDE DEF v, n
<1>2. Updates(w, seg) \subseteq 1 .. n
  BY DEF Updates, n
<1>3. CASE x.kind = "L2P" /\ x.seg = seg
  <2>1. n + 1 \in Updates(v, seg) /\ Updates(v, seg) \subseteq 1 .. n + 1
    BY <1>1, <1>3 DEF Updates
  <2>2. Max(Updates(v, seg)) \in 1 .. n + 1 /\ n + 1 <= Max(Updates(v, seg))
    <3>1. n + 1 \in Nat /\ Updates(v, seg) # {}
      BY <1>1, <2>1
    <3>2. Updates(v, seg) \in SUBSET (1 .. n + 1)
      BY <2>1
    <3> QED
      BY <2>1, <3>1, <3>2, LastPosition
  <2>3. Max(Updates(v, seg)) = n + 1
    BY <1>1, <2>2
  <2> QED
    BY <1>1, <1>3, <2>1, <2>3 DEF v, Final
<1>4. CASE ~(x.kind = "L2P" /\ x.seg = seg)
  <2>1. Updates(v, seg) = Updates(w, seg)
    BY <1>1, <1>4 DEF Updates, n
  <2>2. Updates(w, seg) # {} => Max(Updates(w, seg)) \in 1 .. n
    BY <1>1, <1>2, LastPosition
  <2> QED
    BY <1>1, <1>4, <2>1, <2>2 DEF v, Final
<1> QED
  BY <1>3, <1>4

\* The record of an update makes it.
LEMMA ReplayUpdate ==
  ASSUME NEW w, IsSeq(w), NEW seg, NEW old, NEW new
  PROVE  Replay(Append(w, L2PRecord(seg, old, new))) = L2PSet(Replay(w), seg, new)
<1> DEFINE x == L2PRecord(seg, old, new)
<1>1. x.kind = "L2P" /\ x.seg = seg /\ x.new = new
  BY DEF L2PRecord
<1> HIDE DEF x
<1>2. \A s \in SegIDs : Final(Append(w, x), s) = IF s = seg THEN new ELSE Final(w, s)
  BY <1>1, UpdatesAppend
<1>3. Replay(Append(w, x)) = [s \in SegIDs |-> IF s = seg THEN new ELSE Final(w, s)]
  BY <1>2, ReplayIs
<1>4. Replay(w) = [s \in SegIDs |-> Final(w, s)]
  BY ReplayIs
<1> QED
  BY <1>3, <1>4 DEF L2PSet, x

\* Any other record changes nothing.
LEMMA ReplayOther ==
  ASSUME NEW w, IsSeq(w), NEW x, x.kind # "L2P"
  PROVE  Replay(Append(w, x)) = Replay(w)
<1>1. \A s \in SegIDs : Final(Append(w, x), s) = Final(w, s)
  BY UpdatesAppend
<1> QED
  BY <1>1, ReplayIs
-----------------------------------------------------------------------------
(* What a step of thread t does with the lock *)

\* t neither holds the lock nor takes it.
Outside(t) == pc[t] \notin Locked /\ pc'[t] \notin Locked /\ UNCHANGED mu

\* The lock is free, or a client holds it.
LEMMA NoOneIsNone == NoOne \notin Clients /\ NoOne \notin Threads
  BY ZTLAssumption, ClientsAreThreads

\* Whoever holds the lock goes on holding it.
LEMMA OutsideLock ==
  ASSUME LockInv, NEW t \in Threads, Others(t), Outside(t)
  PROVE  LockInv' /\ mu # t
  BY NoOneIsNone, ClientsAreThreads DEF LockInv, Others, Outside

\* t takes the lock.
LEMMA TakesLock ==
  ASSUME LockInv, NEW t \in Clients, Others(t), mu = NoOne, mu' = t, pc'[t] \in Locked
  PROVE  LockInv'
  BY NoOneIsNone, ClientsAreThreads DEF LockInv, Others

\* t goes on with the lock.
LEMMA InsideLock ==
  ASSUME LockInv, NEW t \in Clients, Others(t), pc[t] \in Locked, pc'[t] \in Locked,
         UNCHANGED mu
  PROVE  LockInv' /\ mu = t
  BY ClientsAreThreads DEF LockInv, Others

\* t gives the lock back.
LEMMA GivesLock ==
  ASSUME LockInv, NEW t \in Clients, Others(t), pc[t] \in Locked, pc'[t] \notin Locked,
         mu' = NoOne
  PROVE  LockInv' /\ mu = t
  BY NoOneIsNone, ClientsAreThreads DEF LockInv, Others

\* No collection begins.
LEMMA StillQuiet ==
  ASSUME Quiet, NEW t \in Threads, Others(t), UNCHANGED cycles, pc'[t] \notin Collecting
  PROVE  Quiet'
  BY DEF Quiet, Others

\* A step outside the lock that leaves log and table alone.
LEMMA AsideKeeps ==
  ASSUME TableInv, NEW t \in Threads, Others(t), Outside(t), UNCHANGED <<wal, l2p, cycles>>,
         pc'[t] \notin Collecting
  PROVE  TableInv'
<1>1. LockInv' /\ mu # t /\ Quiet'
  BY OutsideLock, StillQuiet DEF TableInv
<1>2. mu \in Clients => pc'[mu] = pc[mu] /\ cmd'[mu] = cmd[mu]
  BY <1>1, ClientsAreThreads DEF Others
<1>3. Published' = Published
  BY <1>2 DEF Published, Outside
<1> QED
  BY <1>1, <1>3 DEF TableInv, ReplayInv

\* A step of a collection: the claim about the log is over.
LEMMA CollectionKeeps ==
  ASSUME TableInv, NEW t \in Threads, Others(t), Outside(t), cycles' \in Nat \ {0}
  PROVE  TableInv'
  BY OutsideLock DEF TableInv, Quiet, ReplayInv

\* Taking the lock, with a ZONE_OPEN record or none.
LEMMA TakingKeeps ==
  ASSUME TableInv, IsSeq(wal), NEW t \in Clients, Others(t), mu = NoOne, mu' = t,
         pc'[t] \in {"log", "ulog"}, UNCHANGED <<l2p, cycles>>,
         wal' = wal \/ \E z : wal' = Append(wal, ZoneOpenRecord(z))
  PROVE  TableInv'
<1>1. LockInv' /\ Quiet'
  BY TakesLock, StillQuiet, ClientsAreThreads DEF TableInv, Locked, Collecting
<1>2. Published' = Published
  BY NoOneIsNone DEF Published
<1>3. \A z : ZoneOpenRecord(z).kind # "L2P"
  BY DEF ZoneOpenRecord
<1>4. Replay(wal') = Replay(wal)
  BY <1>3, ReplayOther
<1> QED
  BY <1>1, <1>2, <1>4 DEF TableInv, ReplayInv

\* A step under the lock, or out of it, that leaves log and table alone.
LEMMA HoldingKeeps ==
  ASSUME TableInv, NEW t \in Clients, Others(t), pc[t] \in Locked \ {"set"},
         \/ pc'[t] \in Locked \ {"set"} /\ UNCHANGED mu
         \/ pc'[t] \notin Locked \union Collecting /\ mu' = NoOne,
         UNCHANGED <<wal, l2p, cycles>>
  PROVE  TableInv'
<1>1. LockInv' /\ mu = t
  BY InsideLock, GivesLock DEF TableInv
<1>2. Quiet'
  BY StillQuiet, ClientsAreThreads DEF TableInv, Locked, Collecting
<1>3. Published' = Published
  BY <1>1, NoOneIsNone DEF Published
<1> QED
  BY <1>1, <1>2, <1>3 DEF TableInv, ReplayInv

\* The update is logged.
LEMMA LoggingKeeps ==
  ASSUME TableInv, IsSeq(wal), NEW t \in Clients, Others(t), pc[t] \in {"log", "ulog"},
         pc'[t] = "set", UNCHANGED <<mu, l2p, cycles>>, NEW seg, NEW old, NEW new,
         wal' = Append(wal, L2PRecord(seg, old, new)),
         cmd'[t].seg = seg, cmd'[t].new = new
  PROVE  TableInv'
<1>1. LockInv' /\ mu = t
  BY InsideLock DEF TableInv, Locked
<1>2. Quiet'
  BY StillQuiet, ClientsAreThreads DEF TableInv, Collecting
<1>3. Published = l2p /\ Published' = L2PSet(l2p, seg, new)
  BY <1>1 DEF Published
<1>4. Replay(wal') = L2PSet(Replay(wal), seg, new)
  BY ReplayUpdate
<1> QED
  BY <1>1, <1>2, <1>3, <1>4 DEF TableInv, ReplayInv

\* The update is applied.
LEMMA ApplyingKeeps ==
  ASSUME TableInv, NEW t \in Clients, Others(t), pc[t] = "set", pc'[t] \in {"maps", "umaps"},
         l2p' = L2PSet(l2p, cmd[t].seg, cmd[t].new), UNCHANGED <<mu, wal, cycles>>
  PROVE  TableInv'
<1>1. LockInv' /\ mu = t
  BY InsideLock DEF TableInv, Locked
<1>2. Quiet'
  BY StillQuiet, ClientsAreThreads DEF TableInv, Collecting
<1>3. Published' = Published
  BY <1>1 DEF Published
<1> QED
  BY <1>1, <1>2, <1>3 DEF TableInv, ReplayInv
-----------------------------------------------------------------------------
(* The actions *)

\* Where a call returns to is neither under the lock nor in a collection.
LEMMA BackOutside == Back \intersect (Locked \union Collecting) = {}
  BY DEF Back, Locked, Collecting

\* Flush of a zone, by whichever thread, and the loop around it.
LEMMA FlushKeeps ==
  ASSUME TableInv, LogInv, NEW t \in Threads, Others(t),
         FlushStep(t) \/ FlushNext(t) \/ flushAged(t) \/ flushAgedDone(t),
         UNCHANGED <<gcVars, cmdVars>>
  PROVE  TableInv'
<1>1. PCShape /\ fl[t].ret \in Back
  BY DEF LogInv, Shapes, FlShape
<1>2. UNCHANGED <<wal, l2p, cycles, mu>>
  BY DEF FlushStep, FlushTake, FlushOpen, FlushWrite, FlushPoint, FlushNext, flushAged,
         flushAgedDone, mapVars, gcVars, cmdVars
<1>3. PICK x \in Back \union {"ftake", "fopen", "fwrite", "fpoint"} : Goto(t, x)
  BY <1>1 DEF FlushStep, FlushTake, FlushOpen, FlushWrite, FlushPoint, FlushNext, flushAged,
         flushAgedDone, FlushReturn, Back
<1>4. pc'[t] = x
  BY <1>1, <1>3, GotoMoves
<1>5. x \notin Locked \union Collecting
  BY BackOutside DEF Locked, Collecting
<1>6. pc[t] \notin Locked
  BY DEF FlushStep, FlushTake, FlushOpen, FlushWrite, FlushPoint, FlushNext, flushAged,
         flushAgedDone, Locked
<1>7. Outside(t)
  BY <1>2, <1>4, <1>5, <1>6 DEF Outside
<1> QED
  BY <1>2, <1>4, <1>5, <1>7, AsideKeeps

\* A collection begins.
LEMMA SelectVictimKeeps ==
  ASSUME TableInv, LogInv, NEW t \in Threads, Others(t), pc[t] \notin Locked,
         NEW z, NEW ret, NEW err, SelectVictim(t, z, ret, err), UNCHANGED cmdVars
  PROVE  TableInv'
<1>1. PCShape
  BY DEF LogInv, Shapes
<1>2. pc'[t] = "freeze" /\ UNCHANGED mu
  BY <1>1, GotoMoves DEF SelectVictim, cmdVars
<1>3. cycles' \in Nat \ {0}
  BY DEF TableInv, Quiet, SelectVictim
<1>4. Outside(t)
  BY <1>2 DEF Outside, Locked
<1> QED
  BY <1>3, <1>4, CollectionKeeps

\* A collection goes on, or ends.
LEMMA GCKeeps ==
  ASSUME TableInv, LogInv, NEW t \in Threads, Others(t), GCStep(t), UNCHANGED cmdVars
  PROVE  TableInv'
<1>1. PCShape /\ gc[t].ret \in Back /\ gc[t].err \in Back
  BY DEF LogInv, Shapes, GCShape
<1>2. UNCHANGED <<cycles, mu>> /\ pc[t] \in Collecting
  BY DEF GCStep, FreezeVictim, MigrateRead, MigrateAlloc, MigrateWrite, MigrateCAS,
         MigrateMaps, JournalReset, ResetVictim, MarkVictim, gcVars, cmdVars, Collecting
<1>3. pc' = pc \/ \E x \in Back \union Collecting : Goto(t, x)
  BY <1>1 DEF GCStep, FreezeVictim, MigrateRead, MigrateAlloc, MigrateWrite, MigrateCAS,
         MigrateMaps, JournalReset, ResetVictim, MarkVictim, Abandon, Collecting
<1>4. pc'[t] \in Back \union Collecting
  BY <1>1, <1>2, <1>3, GotoMoves
<1>5. Collecting \intersect Locked = {}
  BY DEF Collecting, Locked
<1>6. Outside(t)
  BY <1>2, <1>4, <1>5, BackOutside DEF Outside
<1>7. cycles' \in Nat \ {0}
  BY <1>2 DEF TableInv, Quiet
<1> QED
  BY <1>6, <1>7, CollectionKeeps

\* A command begins, ends, or does something outside the lock.
LEMMA ClientOutside ==
  ASSUME TableInv, LogInv, NEW t \in Clients, Others(t), pc[t] \notin Locked,
         NEW x, x \notin Locked \union Collecting, Goto(t, x),
         UNCHANGED <<wal, l2p, cycles, mu>>
  PROVE  TableInv'
<1>1. t \in Threads /\ PCShape
  BY ClientStart
<1>2. pc'[t] = x
  BY <1>1, GotoMoves
<1>3. Outside(t)
  BY <1>2 DEF Outside
<1> QED
  BY <1>1, <1>2, <1>3, AsideKeeps

\* The commands begin.
LEMMA IssueKeeps ==
  ASSUME TableInv, LogInv, NEW t \in Clients, Others(t), Issue(t)
  PROVE  TableInv'
<1>1. UNCHANGED <<wal, l2p, cycles, mu>>
  BY DEF Issue, Write, Unmap, Flush, mapVars, gcVars
<1>2. PICK x \in {"check", "ulock", "fnext"} : Goto(t, x) /\ pc[t] = "idle"
  BY DEF Issue, Write, Unmap, Flush, Begin
<1>3. x \notin Locked \union Collecting /\ "idle" \notin Locked
  BY DEF Locked, Collecting
<1> QED
  BY <1>1, <1>2, <1>3, ClientOutside

\* The steps of a command outside the lock.
LEMMA OutsideStepsKeep ==
  ASSUME TableInv, LogInv, NEW t \in Clients, Others(t),
         RunEmergencyGC(t) \/ WriteRelock(t) \/ FlushDone(t) \/ Commit(t) \/ Fail(t)
  PROVE  TableInv'
<1>0. t \in Threads
  BY ClientStart
<1>1. ASSUME NEW z \in Zones, pc[t] = "check", SelectVictim(t, z, "check", "fail"),
             UNCHANGED cmdVars
      PROVE  TableInv'
  <2>1. pc[t] \notin Locked
    BY <1>1 DEF Locked
  <2> QED
    BY <1>0, <1>1, <2>1, SelectVictimKeeps
<1>2. ASSUME ~\E z \in Zones : SelectVictim(t, z, "check", "fail")
      PROVE  TableInv'
  <2>1. UNCHANGED <<wal, l2p, cycles, mu>>
    BY <1>2 DEF RunEmergencyGC, WriteRelock, FlushDone, Commit, Fail, mapVars, gcVars, cmdVars
  <2>2. PICK x \in {"lock", "fail", "commit", "idle"} : Goto(t, x)
    BY <1>2 DEF RunEmergencyGC, WriteRelock, FlushDone, Commit, Fail, NextSegment, End
  <2>3. pc[t] \notin Locked
    BY DEF RunEmergencyGC, WriteRelock, FlushDone, Commit, Fail, Locked
  <2>4. x \notin Locked \union Collecting
    BY DEF Locked, Collecting
  <2> QED
    BY <2>1, <2>2, <2>3, <2>4, ClientOutside
<1>3. ASSUME RunEmergencyGC(t), NEW z \in Zones, SelectVictim(t, z, "check", "fail")
      PROVE  TableInv'
  BY <1>1, <1>3 DEF RunEmergencyGC
<1>4. ASSUME ~RunEmergencyGC(t)
      PROVE  ~\E z \in Zones : SelectVictim(t, z, "check", "fail")
  <2>1. UNCHANGED cycles
    BY <1>4 DEF WriteRelock, FlushDone, Commit, Fail, gcVars
  <2>2. cycles \in Nat
    BY DEF TableInv, Quiet
  <2>3. \A z \in Zones : SelectVictim(t, z, "check", "fail") => cycles' = cycles + 1
    BY DEF SelectVictim
  <2> QED
    BY <2>1, <2>2, <2>3
<1> QED
  BY <1>2, <1>3, <1>4

\* writeSegment takes ztl.mu, or finds no zone.
LEMMA WriteLockKeeps ==
  ASSUME TableInv, LogInv, NEW t \in Clients, Others(t), WriteLock(t)
  PROVE  TableInv'
<1>1. t \in Threads /\ PCShape /\ IsSeq(wal)
  BY ClientStart DEF LogShape
<1>2. UNCHANGED <<l2p, cycles>> /\ mu = NoOne /\ pc[t] = "lock"
  BY DEF WriteLock, MuFree, gcVars
<1>3. ASSUME Goto(t, "fail"), UNCHANGED <<wal, mu>>
      PROVE  TableInv'
  BY <1>2, <1>3, ClientOutside DEF Locked, Collecting
<1>4. ASSUME Goto(t, "log"), mu' = t,
             wal' = wal \/ \E z : wal' = Append(wal, ZoneOpenRecord(z))
      PROVE  TableInv'
  <2>1. pc'[t] = "log"
    BY <1>1, <1>4, GotoMoves
  <2> QED
    BY <1>1, <1>2, <1>4, <2>1, TakingKeeps
<1> QED
  BY <1>3, <1>4 DEF WriteLock, LogZoneOpen

\* Write logs its update.
LEMMA WriteLogKeeps ==
  ASSUME TableInv, LogInv, NEW t \in Clients, Others(t), WriteLog(t)
  PROVE  TableInv'
<1> DEFINE wp  == zm.wp[cmd[t].zone]
           old == L2PGet(l2p, cmd[t].seg)
           new == EncodePhysAddr(cmd[t].zone, wp - zoneStartLBA(cmd[t].zone))
<1>1. /\ UNCHANGED <<mu, l2p, cycles>> /\ Goto(t, "set") /\ pc[t] = "log"
      /\ wal' = Append(wal, L2PRecord(cmd[t].seg, old, new))
      /\ cmd' = [cmd EXCEPT ![t].wp = wp, ![t].old = old, ![t].new = new]
  BY DEF WriteLog, LogL2PUpdate, gcVars
<1> HIDE DEF wp, old, new
<1>2. t \in Threads /\ PCShape /\ IsSeq(wal) /\ CmdShape /\ CmdRec(cmd[t])
  BY ClientStart DEF LogShape
<1>3. pc'[t] = "set"
  BY <1>1, <1>2, GotoMoves
<1>4. PICK c : c = [cmd[t] EXCEPT !.wp = wp, !.old = old, !.new = new]
  OBVIOUS
<1>5. c.seg = cmd[t].seg /\ c.new = new
  BY <1>2, <1>4 DEF CmdRec
<1>6. cmd'[t] = c
  BY <1>1, <1>2, <1>4 DEF CmdShape
<1> QED
  BY <1>1, <1>2, <1>3, <1>5, <1>6, LoggingKeeps

\* l2p.Set.
LEMMA SetL2PKeeps ==
  ASSUME TableInv, LogInv, NEW t \in Clients, Others(t), SetL2P(t)
  PROVE  TableInv'
<1>1. t \in Threads /\ PCShape
  BY ClientStart
<1>2. /\ pc[t] = "set" /\ l2p' = L2PSet(l2p, cmd[t].seg, cmd[t].new)
      /\ UNCHANGED <<mu, wal, cycles>>
  BY DEF SetL2P, gcVars, cmdVars
<1>3. pc'[t] \in {"maps", "umaps"}
  BY <1>1, GotoMoves DEF SetL2P
<1> QED
  BY <1>2, <1>3, ApplyingKeeps

\* l2p.Set refuses: the record names no entry of the table, and changes none.
LEMMA SetL2PFailsKeeps ==
  ASSUME TableInv, LogInv, NEW t \in Clients, Others(t), SetL2PFails(t)
  PROVE  TableInv'
<1>1. t \in Threads /\ PCShape /\ L2PShape
  BY ClientStart
<1>2. /\ pc[t] = "set" /\ cmd[t].seg \notin SegIDs /\ mu' = NoOne
      /\ UNCHANGED <<wal, l2p, cycles>>
  BY DEF SetL2PFails, mapVars, gcVars
<1>3. pc'[t] = "fail"
  BY <1>1, GotoMoves DEF SetL2PFails
<1>4. LockInv' /\ mu = t
  BY <1>2, <1>3, GivesLock DEF TableInv, Locked
<1>5. Quiet'
  BY <1>1, <1>2, <1>3, StillQuiet DEF TableInv, Collecting
<1>6. Published' = l2p
  BY <1>2, NoOneIsNone DEF Published
<1>7. Published = l2p
  <2>1. L2PSet(l2p, cmd[t].seg, cmd[t].new) = l2p
    BY <1>1, <1>2 DEF L2PSet, L2PShape
  <2> QED
    BY <1>2, <1>4, <2>1 DEF Published
<1> QED
  BY <1>2, <1>4, <1>5, <1>6, <1>7 DEF TableInv, ReplayInv

\* The steps of Write after the table.
LEMMA WriteEndKeeps ==
  ASSUME TableInv, LogInv, NEW t \in Clients, Others(t), WriteMaps(t) \/ WriteAdd(t)
  PROVE  TableInv'
<1>1. t \in Threads /\ PCShape
  BY ClientStart
<1>2. UNCHANGED <<wal, l2p, cycles>>
  BY DEF WriteMaps, WriteAdd, mapVars, gcVars
<1>3. CASE WriteMaps(t)
  <2>1. pc'[t] = "add" /\ pc[t] = "maps" /\ UNCHANGED mu
    BY <1>1, <1>3, GotoMoves DEF WriteMaps, cmdVars
  <2> QED
    BY <1>2, <2>1, HoldingKeeps DEF Locked
<1>4. CASE WriteAdd(t)
  <2>1. pc'[t] \in {"ftake", "commit", "lock"} /\ pc[t] = "add" /\ mu' = NoOne
    BY <1>1, <1>4, GotoMoves DEF WriteAdd, NextSegment
  <2> QED
    BY <1>2, <2>1, HoldingKeeps DEF Locked, Collecting
<1> QED
  BY <1>3, <1>4

\* Unmap.
LEMMA UnmapKeeps ==
  ASSUME TableInv, LogInv, NEW t \in Clients, Others(t),
         UnmapLock(t) \/ UnmapLog(t) \/ UnmapMaps(t)
  PROVE  TableInv'
<1>1. t \in Threads /\ PCShape /\ IsSeq(wal) /\ CmdShape /\ CmdRec(cmd[t])
  BY ClientStart DEF LogShape
<1>2. UNCHANGED <<l2p, cycles>>
  BY DEF UnmapLock, UnmapLog, UnmapMaps, mapVars, gcVars
<1>3. CASE UnmapLock(t)
  <2>1. pc'[t] = "ulog" /\ mu = NoOne /\ mu' = t /\ UNCHANGED wal
    BY <1>1, <1>3, GotoMoves DEF UnmapLock, MuFree, mapVars
  <2> QED
    BY <1>1, <1>2, <2>1, TakingKeeps
<1>4. ASSUME NextUnmap(t), pc[t] \in {"ulog", "umaps"}, UNCHANGED wal
      PROVE  TableInv'
  <2>1. \/ pc'[t] = "idle" /\ mu' = NoOne
        \/ pc'[t] = "ulog" /\ UNCHANGED mu
    BY <1>1, <1>4, GotoMoves DEF NextUnmap, End
  <2> QED
    BY <1>2, <1>4, <2>1, HoldingKeeps DEF Locked, Collecting
<1>5. ASSUME UnmapLog(t), ~IsUnmapped(L2PGet(l2p, cmd[t].seg))
      PROVE  TableInv'
  <2> DEFINE old == L2PGet(l2p, cmd[t].seg)
  <2>1. /\ wal' = Append(wal, L2PRecord(cmd[t].seg, old, Unmapped))
        /\ cmd' = [cmd EXCEPT ![t].old = old, ![t].new = Unmapped]
        /\ Goto(t, "set") /\ UNCHANGED mu /\ pc[t] = "ulog"
    BY <1>5 DEF UnmapLog, LogL2PUpdate
  <2> HIDE DEF old
  <2>2. PICK c : c = [cmd[t] EXCEPT !.old = old, !.new = Unmapped]
    OBVIOUS
  <2>3. c.seg = cmd[t].seg /\ c.new = Unmapped
    BY <1>1, <2>2 DEF CmdRec
  <2>4. cmd'[t] = c /\ pc'[t] = "set"
    BY <1>1, <2>1, <2>2, GotoMoves DEF CmdShape
  <2> QED
    BY <1>1, <1>2, <2>1, <2>3, <2>4, LoggingKeeps
<1>6. ASSUME UnmapLog(t), IsUnmapped(L2PGet(l2p, cmd[t].seg))
      PROVE  TableInv'
  BY <1>4, <1>6 DEF UnmapLog
<1>7. ASSUME UnmapMaps(t)
      PROVE  TableInv'
  BY <1>4, <1>7 DEF UnmapMaps
<1> QED
  BY <1>3, <1>5, <1>6, <1>7

-----------------------------------------------------------------------------
(* The invariant of the log *)

\* Every step of the system.
LEMMA TableSteps ==
  ASSUME TableInv, LogInv, [Next]_vars
  PROVE  TableInv'
<1>0. CASE UNCHANGED vars
  <2>1. UNCHANGED <<mu, pc, cycles, wal, l2p, cmd>>
    BY <1>0 DEF vars, mapVars, gcVars, cmdVars
  <2> QED
    BY <2>1 DEF TableInv, LockInv, Quiet, ReplayInv, Published
<1>1. ASSUME NEW t \in Clients, Issue(t) \/ ClientWork(t)
      PROVE  TableInv'
  <2>1. t \in Threads
    BY ClientStart
  <2>2. Fine(t)
    BY <1>1, <2>1, IssueFine, ClientStepFine, FlushStepFine, FlushNextFine, GCStepFine
       DEF ClientWork
  <2>3. Others(t)
    BY <2>2 DEF Fine
  <2>4. ASSUME ClientStep(t)
        PROVE  TableInv'
    BY <2>3, <2>4, OutsideStepsKeep, WriteLockKeeps, WriteLogKeeps, SetL2PKeeps,
       SetL2PFailsKeeps, WriteEndKeeps, UnmapKeeps DEF ClientStep
  <2> QED
    BY <1>1, <2>1, <2>3, <2>4, IssueKeeps, FlushKeeps, GCKeeps DEF ClientWork
<1>2. ASSUME NEW t \in Flushers, FlusherWork(t)
      PROVE  TableInv'
  <2>1. t \in Threads
    BY DEF Threads
  <2>2. Others(t)
    BY <1>2, <2>1, flushAgedFine, FlushStepFine, FlushNextFine DEF FlusherWork, Fine
  <2> QED
    BY <1>2, <2>1, <2>2, FlushKeeps DEF FlusherWork
<1>3. ASSUME NEW t \in Collectors, CollectorWork(t)
      PROVE  TableInv'
  <2>1. t \in Threads /\ UNCHANGED cmdVars
    BY <1>3 DEF Threads, CollectorWork
  <2>2. ASSUME GCStep(t)
        PROVE  TableInv'
    BY <2>1, <2>2, GCStepFine, GCKeeps DEF Fine
  <2>3. ASSUME runCycle(t)
        PROVE  TableInv'
    <3>1. "idle" \in Back /\ pc[t] \notin Locked
      BY <2>3 DEF Back, Locked, runCycle
    <3>2. PICK z \in Zones : SelectVictim(t, z, "idle", "idle")
      BY <2>3 DEF runCycle
    <3> QED
      BY <2>1, <3>1, <3>2, SelectVictimFine, SelectVictimKeeps DEF Fine
  <2> QED
    BY <1>3, <2>2, <2>3 DEF CollectorWork
<1> QED
  BY <1>0, <1>1, <1>2, <1>3 DEF Next

\* The initial state: no one holds the lock, and log and table are empty.
LEMMA TableInitially == Init => TableInv
<1> SUFFICES ASSUME Init
             PROVE  TableInv
  OBVIOUS
<1>1. /\ \A t \in Threads : pc[t] = "idle"
      /\ mu = NoOne /\ cycles = 0 /\ wal = << >> /\ l2p = [s \in SegIDs |-> Unmapped]
  BY DEF Init, BufInit, GCInit, MapInit
<1>2. LockInv /\ Quiet
  BY <1>1, ClientsAreThreads DEF LockInv, Quiet, Locked, Collecting
<1>3. Replay(wal) = l2p
  BY <1>1 DEF Replay, Updates
<1>4. Published = l2p
  BY <1>1, NoOneIsNone DEF Published
<1> QED
  BY <1>2, <1>3, <1>4 DEF TableInv, ReplayInv

\* Updates are serialised by ztl.mu, and the log is ahead of the table by at
\* most the one its holder is about to make.
LEMMA TableInvariant == Spec => []TableInv
<1>1. TableInv /\ LogInv /\ [Next]_vars => TableInv'
  BY TableSteps
<1> QED
  BY <1>1, TableInitially, LogInvariant, PTL DEF Spec

\* At rest there is no such update.
LEMMA ReplayedAtRest == TableInv => (cycles = 0 /\ Idle => Replay(wal) = l2p)
<1> SUFFICES ASSUME TableInv, cycles = 0, Idle
             PROVE  Replay(wal) = l2p
  OBVIOUS
<1>1. mu \in Clients => pc[mu] # "set"
  BY ClientsAreThreads DEF Idle
<1> QED
  BY <1>1 DEF TableInv, ReplayInv, Published
-----------------------------------------------------------------------------
(* Addresses *)

\* The geometry fits the packed address, and a segment fits a zone.
AddressesFit ==
  /\ ZoneSectors <= 2^OffsetBits /\ ZoneCount <= 2^ZoneIDBits
  /\ SectorsPerSeg <= ZoneSectors

\* Packing a number above an offset below its base, and taking it apart again.
LEMMA Unpack ==
  ASSUME NEW k \in Nat, k > 0, NEW z \in Nat, NEW o \in 0 .. k - 1
  PROVE  (z * k + o) \div k = z /\ (z * k + o) % k = o
<1> DEFINE n == z * k + o
           q == n \div k
<1>1. z * k \in Nat /\ n \in Nat
  OBVIOUS
<1>2. q \in Nat /\ n % k \in 0 .. k - 1 /\ n = k * q + (n % k)
  BY <1>1
<1>3. q = z
  <2>1. ASSUME q < z PROVE FALSE
    <3>1. q + 1 <= z
      BY <1>2, <2>1
    <3>2. k * (q + 1) <= k * z
      BY <1>2, <3>1
    <3>3. k * (q + 1) = k * q + k /\ k * z = z * k
      BY <1>2
    <3> QED
      BY <1>1, <1>2, <3>2, <3>3
  <2>2. ASSUME z < q PROVE FALSE
    <3>1. z + 1 <= q
      BY <1>2, <2>2
    <3>2. k * (z + 1) <= k * q
      BY <1>2, <3>1
    <3>3. k * (z + 1) = k * z + k /\ k * z = z * k
      BY <1>2
    <3> QED
      BY <1>1, <1>2, <3>2, <3>3
  <2> QED
    BY <1>2, <2>1, <2>2
<1>4. n % k = o
  <2>1. k * q = z * k
    BY <1>3
  <2> QED
    BY <1>1, <1>2, <2>1
<1> QED
  BY <1>3, <1>4

\* An address inside a zone names the zone and the offset; only the first one
\* of zone 0 means "unmapped".
LEMMA Packed ==
  ASSUME AddressesFit, NEW z \in Zones, NEW o \in 0 .. ZoneSectors - 1
  PROVE  LET p == EncodePhysAddr(z, o)
         IN /\ p \in Nat /\ ZoneID(p) = z /\ OffsetSectors(p) = o
            /\ z # 0 => p # Unmapped
<1> DEFINE k == 2^OffsetBits
           c == 2^ZoneIDBits
           p == EncodePhysAddr(z, o)
<1>1. /\ k \in Nat /\ k > 0 /\ c \in Nat /\ c > 0 /\ ZoneSectors \in Nat /\ ZoneSectors <= k
      /\ ZoneCount \in Nat /\ ZoneCount <= c /\ z \in 0 .. ZoneCount - 1
  BY MappingAssumption, DeviceAssumption DEF AddressesFit, Zones
<1> HIDE DEF k, c
<1>2. o \in 0 .. k - 1 /\ o % k = o
  BY <1>1
<1>3. p = z * k + o
  BY <1>2 DEF EncodePhysAddr, k
<1>4. p \div k = z /\ p % k = o
  BY <1>1, <1>2, <1>3, Unpack
<1>5. z % c = z
  BY <1>1
<1>6. z * k \in Nat
  BY <1>1
<1>7. z # 0 => z * k >= k
  BY <1>1
<1>8. p \in Nat /\ (z # 0 => p # 0)
  BY <1>1, <1>2, <1>3, <1>6, <1>7
<1> QED
  BY <1>4, <1>5, <1>8 DEF ZoneID, OffsetSectors, Unmapped, k, c

\* p is an address some zone has handed out: below its write pointer.
Placed(p, wp) ==
  \E z \in Zones : \E o \in 0 .. wp[z] - zoneStartLBA(z) - 1 : p = EncodePhysAddr(z, o)

\* Write pointers lie in their zones.
Within(wp) == \A z \in Zones : wp[z] \in zoneStartLBA(z) .. zoneEndLBA(z)

\* The address at a write pointer has not been handed out.
LEMMA FreshAddress ==
  ASSUME AddressesFit, NEW wp \in [Zones -> Int], Within(wp), NEW z \in Zones,
         wp[z] < zoneEndLBA(z)
  PROVE  ~Placed(EncodePhysAddr(z, wp[z] - zoneStartLBA(z)), wp)
<1> DEFINE off(y) == wp[y] - zoneStartLBA(y)
<1>1. \A y \in Zones : zoneStartLBA(y) \in Int /\ zoneEndLBA(y) = zoneStartLBA(y) + ZoneSectors
  BY ZoneBounds, DeviceAssumption DEF zoneStartLBA, zoneEndLBA
<1>2. ZoneSectors \in Nat
  BY DeviceAssumption
<1>3. off(z) \in 0 .. ZoneSectors - 1
  BY <1>1, <1>2 DEF Within
<1>4. ASSUME NEW y \in Zones, NEW o \in 0 .. off(y) - 1,
             EncodePhysAddr(z, off(z)) = EncodePhysAddr(y, o)
      PROVE  FALSE
  <2>1. o \in 0 .. ZoneSectors - 1
    BY <1>1, <1>2 DEF Within
  <2>2. y = z /\ o = off(z)
    BY <1>3, <1>4, <2>1, Packed
  <2> QED
    BY <1>3, <2>2
<1> QED
  BY <1>4 DEF Placed
-----------------------------------------------------------------------------
(* What the zone manager's methods leave of the pointers, counts and the    *)
(* free list                                                                *)

Leaves(m, n) == n.wp = m.wp /\ n.valid = m.valid /\ n.free = m.free

\* An eviction changes none of them.
LEMMA RoomLeaves ==
  ASSUME NEW m, ZMData(m), NEW d
  PROVE  Leaves(m, MakeRoom(m, d).zm)
<1>1. ASSUME NEW z, NEW x, x = [m EXCEPT !.st[z] = "CLOSED", !.lru = Tail(@), !.open = @ \ {z}]
      PROVE  Leaves(m, x)
  BY <1>1 DEF ZMData, Leaves
<1>2. ASSUME NEW z, NEW r, NEW x, x = Evict(m, z, r).zm
      PROVE  Leaves(m, x)
  BY <1>1, <1>2 DEF Evict, ZMOk, ZMErr, Leaves
<1> QED
  BY <1>2 DEF MakeRoom, evictOldestLocked, ZMOk, Leaves

\* Neither does opening a zone for a flush.
LEMMA GetLeaves ==
  ASSUME NEW m, ZMData(m), NEW d, NEW z
  PROVE  Leaves(m, GetOrOpen(m, d, z).zm)
<1> DEFINE room == MakeRoom(m, d)
           o == OpenZone(room.dev, zoneStartLBA(z))
<1>1. ZMData(room.zm) /\ Leaves(m, room.zm)
  BY ZMRoom, RoomLeaves
<1> HIDE DEF room
<1>2. ASSUME NEW n, ZMData(n), NEW e, e = PushOpen(n, z)
      PROVE  Leaves(n, e)
  BY <1>2 DEF ZMData, PushOpen, Leaves
<1>3. Leaves(m, PushOpen(room.zm, z))
  BY <1>1, <1>2 DEF Leaves
<1>4. ASSUME NEW a, NEW e, e = [m EXCEPT !.lru = a]
      PROVE  Leaves(m, e)
  BY <1>4 DEF ZMData, Leaves
<1> HIDE DEF o
<1> QED
  BY <1>1, <1>3, <1>4 DEF GetOrOpen, ZMOk, ZMErr, room, o

\* An allocation takes the zone on top of the free list, or nothing.
LEMMA AllocateLeaves ==
  ASSUME NEW m, ZMData(m), NEW d
  PROVE  LET r == AllocateFree(m, d)
         IN /\ r.zm.wp = m.wp /\ r.zm.valid = m.valid
            /\ IF r.ok THEN m.free # << >> /\ r.zone = Last(m.free) /\ r.zm.free = Front(m.free)
               ELSE r.zm.free = m.free
<1> DEFINE room == MakeRoom(m, d)
           z == Last(m.free)
           o == OpenZone(room.dev, zoneStartLBA(z))
           k == [room.zm EXCEPT !.free = Front(@)]
<1>1. ZMData(room.zm) /\ Leaves(m, room.zm)
  BY ZMRoom, RoomLeaves
<1> HIDE DEF room
<1>2. ASSUME NEW n, ZMData(n), NEW e, e = PushOpen([n EXCEPT !.free = Front(@)], z)
      PROVE  e.wp = n.wp /\ e.valid = n.valid /\ e.free = Front(n.free)
  BY <1>2 DEF ZMData, PushOpen
<1>3. LET e == PushOpen(k, z)
      IN e.wp = m.wp /\ e.valid = m.valid /\ e.free = Front(m.free)
  BY <1>1, <1>2 DEF Leaves
<1> HIDE DEF k, o, z
<1> QED
  BY <1>1, <1>3 DEF AllocateFree, ZMOk, ZMErr, room, o, z, k, Leaves

\* The counters' updates.
LEMMA CountLeaves ==
  ASSUME NEW m, ZMData(m), NEW z
  PROVE  /\ LET n == DecrementValidSegs(m, z)
            IN /\ ZMData(n) /\ n.wp = m.wp /\ n.free = m.free
               /\ n.valid = [m.valid EXCEPT ![z] = IF @ > 0 THEN @ - 1 ELSE @]
         /\ LET n == IncrementValidSegs(m, z)
            IN /\ ZMData(n) /\ n.wp = m.wp /\ n.free = m.free
               /\ n.valid = [m.valid EXCEPT ![z] = @ + 1]
<1>1. ASSUME NEW n, n = DecrementValidSegs(m, z)
      PROVE  /\ n.wp = m.wp /\ n.free = m.free
             /\ n.valid = [m.valid EXCEPT ![z] = IF @ > 0 THEN @ - 1 ELSE @]
  BY <1>1 DEF ZMData, DecrementValidSegs
<1>2. ASSUME NEW n, n = IncrementValidSegs(m, z)
      PROVE  n.wp = m.wp /\ n.free = m.free /\ n.valid = [m.valid EXCEPT ![z] = @ + 1]
  BY <1>2 DEF ZMData, IncrementValidSegs
<1> QED
  BY <1>1, <1>2, ZMUpdates

\* The pointer's update.
LEMMA PointerLeaves ==
  ASSUME NEW m, ZMData(m), NEW z \in Zones, NEW w \in Int
  PROVE  LET n == UpdateWritePointer(m, z, w)
         IN /\ ZMData(n) /\ n.valid = m.valid /\ n.free = m.free
            /\ n.wp = [m.wp EXCEPT ![z] = w]
<1>1. ASSUME NEW n, n = UpdateWritePointer(m, z, w)
      PROVE  n.valid = m.valid /\ n.free = m.free /\ n.wp = [m.wp EXCEPT ![z] = w]
  BY <1>1 DEF ZMData, UpdateWritePointer
<1> QED
  BY <1>1, ZMUpdates
-----------------------------------------------------------------------------
(* P2L and the counts as the inverse of a table                             *)

\* What P2L is for table m.
InverseOf(m) == {<<m[s], s>> : s \in {x \in SegIDs : m[x] # Unmapped}}

\* No address has two segments.
Injective(m) == \A r, s \in SegIDs : r # s /\ m[r] = m[s] => m[r] = Unmapped

\* Every segment is at an address that was handed out.
AllPlaced(m, wp) == \A s \in SegIDs : m[s] # Unmapped => Placed(m[s], wp)

\* How many entries each zone has.
CountsOf(inv) == [z \in Zones |-> Cardinality(P2LZone(inv, z))]

Exact(m, inv, n) ==
  inv = InverseOf(m) /\ Injective(m) /\ AllPlaced(m, n.wp) /\ n.valid = CountsOf(inv)

\* P2L is finite, and so is the part of it in any zone.
LEMMA InverseFinite ==
  ASSUME NEW m
  PROVE  /\ IsFiniteSet(InverseOf(m))
         /\ \A z : /\ IsFiniteSet(P2LZone(InverseOf(m), z))
                   /\ Cardinality(P2LZone(InverseOf(m), z)) \in Nat
<1> DEFINE S == {x \in SegIDs : m[x] # Unmapped}
<1>1. Capacity \div SectorsPerSeg \in Int
  <2>1. Capacity \in Nat
    BY DeviceAssumption DEF Capacity
  <2> QED
    BY <2>1, MappingAssumption
<1>2. IsFiniteSet(SegIDs)
  <2>1. (Capacity \div SectorsPerSeg) - 1 \in Int
    BY <1>1
  <2> QED
    BY <2>1, FS_Interval DEF SegIDs
<1>3. IsFiniteSet(S)
  BY <1>2, FS_Subset
<1>4. [s \in S |-> <<m[s], s>>] \in Surjection(S, InverseOf(m))
  BY DEF Surjection, InverseOf
<1>5. IsFiniteSet(InverseOf(m))
  BY <1>3, <1>4, FS_Surjection
<1>6. ASSUME NEW z
      PROVE  /\ IsFiniteSet(P2LZone(InverseOf(m), z))
             /\ Cardinality(P2LZone(InverseOf(m), z)) \in Nat
  <2>1. P2LZone(InverseOf(m), z) \subseteq InverseOf(m)
    BY DEF P2LZone
  <2>2. IsFiniteSet(P2LZone(InverseOf(m), z))
    BY <1>5, <2>1, FS_Subset
  <2> QED
    BY <2>2, FS_CardinalityType
<1> QED
  BY <1>5, <1>6

\* A segment loses its address: P2L its entry, and the zone's count one.
LEMMA ExactWithout ==
  ASSUME NEW m \in [SegIDs -> Nat], NEW inv, NEW n, ZMData(n), Exact(m, inv, n),
         NEW seg \in SegIDs, m[seg] # Unmapped, NEW z \in Zones, z = ZoneID(m[seg])
  PROVE  Exact(L2PSet(m, seg, Unmapped), P2LDelete(inv, m[seg]), DecrementValidSegs(n, z))
<1> DEFINE k  == L2PSet(m, seg, Unmapped)
           e  == <<m[seg], seg>>
           jn == P2LDelete(inv, m[seg])
           o  == DecrementValidSegs(n, z)
<1>1. k \in [SegIDs -> Nat] /\ \A s \in SegIDs : k[s] = IF s = seg THEN Unmapped ELSE m[s]
  BY DEF L2PSet, Unmapped
<1>2. inv = InverseOf(m) /\ Injective(m) /\ AllPlaced(m, n.wp) /\ n.valid = CountsOf(inv)
  BY DEF Exact
<1>3. jn = inv \ {e} /\ e \in inv
  BY <1>2 DEF P2LDelete, InverseOf, Injective
<1>4. jn = InverseOf(k)
  BY <1>1, <1>2, <1>3 DEF InverseOf, Injective
<1>5. Injective(k) /\ AllPlaced(k, n.wp)
  BY <1>1, <1>2 DEF Injective, AllPlaced
<1>6. /\ o.wp = n.wp
      /\ o.valid = [n.valid EXCEPT ![z] = IF @ > 0 THEN @ - 1 ELSE @]
  BY CountLeaves
<1> HIDE DEF k, jn, o
<1>7. ASSUME NEW y \in Zones, y # z
      PROVE  P2LZone(jn, y) = P2LZone(inv, y)
  BY <1>3, <1>7 DEF P2LZone
<1>8. /\ P2LZone(jn, z) = P2LZone(inv, z) \ {e}
      /\ e \in P2LZone(inv, z)
  BY <1>3 DEF P2LZone
<1>9. /\ Cardinality(P2LZone(inv, z)) \in Nat \ {0}
      /\ Cardinality(P2LZone(jn, z)) = Cardinality(P2LZone(inv, z)) - 1
  <2>1. IsFiniteSet(P2LZone(inv, z)) /\ Cardinality(P2LZone(inv, z)) \in Nat
    BY <1>2, InverseFinite
  <2>2. Cardinality(P2LZone(inv, z) \ {e}) = Cardinality(P2LZone(inv, z)) - 1
    BY <1>8, <2>1, FS_RemoveElement
  <2>3. Cardinality(P2LZone(inv, z)) # 0
    BY <1>8, <2>1, FS_EmptySet
  <2> QED
    BY <1>8, <2>1, <2>2, <2>3
<1>10. o.valid = CountsOf(jn)
  BY <1>2, <1>6, <1>7, <1>9 DEF CountsOf
<1> QED
  BY <1>4, <1>5, <1>6, <1>10 DEF Exact, k, jn, o

\* A segment without an address gets the one at a zone's write pointer, which
\* moves on.
LEMMA ExactWith ==
  ASSUME AddressesFit, NEW m \in [SegIDs -> Nat], NEW inv, NEW n, ZMData(n), Within(n.wp),
         Exact(m, inv, n), NEW seg \in SegIDs, m[seg] = Unmapped,
         NEW z \in Zones, z # 0, n.wp[z] < zoneEndLBA(z),
         NEW w \in Int, w > n.wp[z],
         NEW new, new = EncodePhysAddr(z, n.wp[z] - zoneStartLBA(z))
  PROVE  Exact(L2PSet(m, seg, new), P2LSet(inv, new, seg),
               UpdateWritePointer(IncrementValidSegs(n, z), z, w))
<1> DEFINE k  == L2PSet(m, seg, new)
           e  == <<new, seg>>
           jn == P2LSet(inv, new, seg)
           o  == UpdateWritePointer(IncrementValidSegs(n, z), z, w)
<1>0. zoneStartLBA(z) \in Nat /\ zoneEndLBA(z) = zoneStartLBA(z) + ZoneSectors
      /\ ZoneSectors \in Nat /\ n.wp \in [Zones -> Int]
  BY ZoneBounds, DeviceAssumption DEF ZMData
<1>1. /\ n.wp[z] - zoneStartLBA(z) \in 0 .. ZoneSectors - 1
      /\ new \in Nat /\ new # Unmapped /\ ZoneID(new) = z
  <2>1. n.wp[z] - zoneStartLBA(z) \in 0 .. ZoneSectors - 1
    BY <1>0 DEF Within
  <2> QED
    BY <2>1, Packed
<1>2. inv = InverseOf(m) /\ Injective(m) /\ AllPlaced(m, n.wp) /\ n.valid = CountsOf(inv)
  BY DEF Exact
<1>3. ~Placed(new, n.wp)
  BY <1>0, FreshAddress
<1>4. k \in [SegIDs -> Nat] /\ \A s \in SegIDs : k[s] = IF s = seg THEN new ELSE m[s]
  BY <1>1 DEF L2PSet
<1>5. \A s \in SegIDs : m[s] # new
  BY <1>1, <1>2, <1>3 DEF AllPlaced
<1>6. jn = inv \union {e} /\ e \notin inv
  BY <1>2, <1>5 DEF P2LSet, P2LDelete, InverseOf
<1>7. jn = InverseOf(k)
  BY <1>1, <1>2, <1>4, <1>6 DEF InverseOf
<1>8. Injective(k)
  BY <1>1, <1>2, <1>4, <1>5 DEF Injective
<1>9. o.wp = [n.wp EXCEPT ![z] = w] /\ o.valid = [n.valid EXCEPT ![z] = @ + 1]
  <2> DEFINE i == IncrementValidSegs(n, z)
  <2>1. ZMData(i) /\ i.wp = n.wp /\ i.valid = [n.valid EXCEPT ![z] = @ + 1]
    BY CountLeaves
  <2> HIDE DEF i
  <2>2. LET u == UpdateWritePointer(i, z, w)
        IN u.valid = i.valid /\ u.wp = [i.wp EXCEPT ![z] = w]
    BY <2>1, PointerLeaves
  <2> QED
    BY <2>1, <2>2 DEF i
<1> HIDE DEF k, jn, o
<1>10. AllPlaced(k, o.wp)
  <2>1. o.wp[z] = w /\ \A y \in Zones \ {z} : o.wp[y] = n.wp[y]
    BY <1>0, <1>9
  <2>2. ASSUME NEW p, Placed(p, n.wp)
        PROVE  Placed(p, o.wp)
    <3>1. PICK y \in Zones : \E i \in 0 .. n.wp[y] - zoneStartLBA(y) - 1 :
                               p = EncodePhysAddr(y, i)
      BY <2>2 DEF Placed
    <3>2. PICK i \in 0 .. n.wp[y] - zoneStartLBA(y) - 1 : p = EncodePhysAddr(y, i)
      BY <3>1
    <3>3. i \in 0 .. o.wp[y] - zoneStartLBA(y) - 1
      BY <1>0, <2>1, <3>2, ZoneBounds
    <3> QED
      BY <3>2, <3>3 DEF Placed
  <2>3. Placed(new, o.wp)
    <3>1. n.wp[z] - zoneStartLBA(z) \in 0 .. o.wp[z] - zoneStartLBA(z) - 1
      BY <1>0, <1>1, <2>1
    <3> QED
      BY <3>1 DEF Placed
  <2> QED
    BY <1>2, <1>4, <2>2, <2>3 DEF AllPlaced
<1>11. ASSUME NEW y \in Zones, y # z
       PROVE  P2LZone(jn, y) = P2LZone(inv, y)
  BY <1>1, <1>6, <1>11 DEF P2LZone
<1>12. P2LZone(jn, z) = P2LZone(inv, z) \union {e} /\ e \notin P2LZone(inv, z)
  BY <1>1, <1>6 DEF P2LZone
<1>13. /\ Cardinality(P2LZone(inv, z)) \in Nat
       /\ Cardinality(P2LZone(jn, z)) = Cardinality(P2LZone(inv, z)) + 1
  <2>1. IsFiniteSet(P2LZone(inv, z)) /\ Cardinality(P2LZone(inv, z)) \in Nat
    BY <1>2, InverseFinite
  <2>2. Cardinality(P2LZone(inv, z) \union {e}) = Cardinality(P2LZone(inv, z)) + 1
    BY <1>12, <2>1, FS_AddElement
  <2> QED
    BY <1>12, <2>1, <2>2
<1>14. o.valid = CountsOf(jn)
  BY <1>2, <1>9, <1>11, <1>13 DEF CountsOf
<1> QED
  BY <1>7, <1>8, <1>10, <1>14 DEF Exact, k, jn, o
-----------------------------------------------------------------------------
(* TablesAgree until the first collection: what each thread knows           *)

Flushing == {"ftake", "fopen", "fwrite", "fpoint"}

\* A flush that is not of a full zone has the translation layer to itself.  An
\* age loop, or SYNCHRONIZE CACHE beside a writer, can set a zone's write
\* pointer back to where its buffer ended, and an address is handed out twice.
FlushesAlone == Flushers = {} /\ ("flush" \in Kinds => \A t, u \in Clients : t = u)

\* The loop of a command is at a segment of its request.
Ranged(c) ==
  c.kind \in {"write", "unmap"} =>
    /\ \E req \in Requests : c.lba = req[1] /\ c.end = req[1] + req[2]
    /\ c.seg \in LBAToSegmentID(c.lba) .. LBAToSegmentID(c.end - 1)

\* Which command takes which steps.
Stage(t) ==
  /\ pc[t] \in {"check", "lock", "log", "maps", "add", "relock"} => cmd[t].kind = "write"
  /\ pc[t] \in {"ulock", "ulog", "umaps"} => cmd[t].kind = "unmap"
  /\ pc[t] = "set" => cmd[t].kind \in {"write", "unmap"}
  /\ pc[t] \in Flushing => \/ fl[t].ret = "relock" /\ cmd[t].kind = "write"
                           \/ fl[t].ret = "fnext" /\ "flush" \in Kinds
  /\ pc[t] = "fnext" => "flush" \in Kinds
  /\ Ranged(cmd[t])

\* A write has room in its zone, and its address is the zone's write pointer.
Writes(t) ==
  LET c == cmd[t] IN
  pc[t] \in {"log", "set", "maps", "add"} /\ c.kind = "write" =>
    /\ ~Contains(zm.free, c.zone)
    /\ pc[t] # "add" => zm.wp[c.zone] + SectorsPerSeg <= zoneEndLBA(c.zone)
    /\ pc[t] \in {"set", "maps"} =>
         c.wp = zm.wp[c.zone] /\ c.new = EncodePhysAddr(c.zone, c.wp - zoneStartLBA(c.zone))
    /\ pc[t] = "add" => NewWP(c) = zm.wp[c.zone]

\* An update in progress: what the entry was, and what it is.
Updating(t) ==
  LET c == cmd[t] IN
  /\ pc[t] = "set" => c.old = L2PGet(l2p, c.seg)
  /\ pc[t] \in {"maps", "umaps"} =>
       c.seg \in SegIDs /\ c.new = l2p[c.seg] /\ c.old \in Nat
  /\ pc[t] = "umaps" \/ (pc[t] = "set" /\ c.kind = "unmap") =>
       c.new = Unmapped /\ c.old # Unmapped

\* A flush will set the pointer to where it is; a writer flushes a full zone.
Flushes(t) ==
  /\ pc[t] \in {"fopen", "fwrite", "fpoint"} => FlushedWP(fl[t]) = zm.wp[fl[t].zone]
  /\ pc[t] \in Flushing /\ fl[t].ret = "relock" =>
       zm.wp[fl[t].zone] = zoneEndLBA(fl[t].zone)

Mine(t) == Stage(t) /\ Writes(t) /\ Updating(t) /\ Flushes(t)

-----------------------------------------------------------------------------
(* ... and what they share *)

Adding(u, z) == pc[u] = "add" /\ cmd[u].zone = z

\* The flush of a zone does not meet a writer that is about to buffer for it.
Apart == \A t, u \in Clients : pc[t] \in Flushing => ~Adding(u, fl[t].zone)

\* A buffer ends at the write pointer, or where the data to be added begins.
BufferEnd(z) == buf[z].wp + Len(buf[z].data)
BufferEnds ==
  \A z \in Zones : buf[z] # NoBuffer =>
    /\ \A u \in Clients : Adding(u, z) => BufferEnd(z) = cmd[u].wp
    /\ (\A u \in Clients : ~Adding(u, z)) => BufferEnd(z) = zm.wp[z]

NoDup(s) == \A i, j \in 1 .. Len(s) : s[i] = s[j] => i = j

\* Pointers stay in their zones, and a zone on the free list is empty.
FreeZones ==
  /\ Within(zm.wp)
  /\ NoDup(zm.free)
  /\ \A z \in Zones : Contains(zm.free, z) => zm.wp[z] = zoneStartLBA(z)
  /\ cur.open => ~Contains(zm.free, cur.zone)

\* The table that P2L and the counts follow: the one before the update that
\* ztl.mu's holder has made to L2P only.
Followed ==
  IF mu \in Clients /\ pc[mu] \in {"maps", "umaps"}
  THEN L2PSet(l2p, cmd[mu].seg, cmd[mu].old)
  ELSE l2p

PlaceInv ==
  /\ \A t \in Clients : Mine(t)
  /\ Apart /\ BufferEnds /\ FreeZones

Inverted == Contains(zm.free, 0) => Exact(Followed, p2l, zm)

\* What is left of it when P2L and the counts begin anew, as they do when the
\* process restarts: whatever P2L has, the table has.
Backed ==
  Contains(zm.free, 0) =>
    \A e \in p2l : e[1] # Unmapped /\ e[2] \in SegIDs /\ Followed[e[2]] = e[1]

TablesFollow == (Inverted => Inverted') /\ (Backed => Backed')
PlacesKept   == PlaceInv' /\ TablesFollow

-----------------------------------------------------------------------------
(* Segments of a request *)

\* A quotient and its divisor.
LEMMA Quotient ==
  ASSUME NEW a \in Nat, NEW k \in Nat, k > 0
  PROVE  /\ a \div k \in Nat /\ k * (a \div k) <= a /\ a < k * (a \div k) + k
         /\ \A q \in Nat : a < q * k => a \div k < q
         /\ \A q \in Nat : q <= a \div k => q * k <= a
         /\ \A q \in Nat : q >= a \div k => a < q * k + k
<1> DEFINE d == a \div k
<1>1. d \in Nat /\ a % k \in 0 .. k - 1 /\ a = k * d + (a % k)
  OBVIOUS
<1> HIDE DEF d
<1>2. k * d \in Nat /\ k * d <= a /\ a < k * d + k
  BY <1>1
<1>3. ASSUME NEW p \in Nat, NEW q \in Nat, p <= q
      PROVE  k * p <= k * q /\ k * q = q * k /\ k * p = p * k
  BY <1>3
<1>4. k * (d + 1) = k * d + k
  BY <1>1
<1>5. ASSUME NEW q \in Nat, a < q * k
      PROVE  d < q
  <2>1. ASSUME q <= d PROVE FALSE
    <3>1. k * q <= k * d /\ k * q = q * k
      BY <1>1, <1>3, <2>1
    <3> QED
      BY <1>2, <1>5, <3>1
  <2> QED
    BY <1>1, <2>1
<1>6. ASSUME NEW q \in Nat, q <= d
      PROVE  q * k <= a
  <2>1. k * q <= k * d /\ k * q = q * k
    BY <1>1, <1>3, <1>6
  <2> QED
    BY <1>2, <2>1
<1>7. ASSUME NEW q \in Nat, q >= d
      PROVE  a < q * k + k
  <2>1. k * d <= k * q /\ k * q = q * k
    BY <1>1, <1>3, <1>7
  <2>2. q * k \in Nat
    OBVIOUS
  <2> QED
    BY <1>2, <2>1, <2>2
<1> QED
  BY <1>1, <1>2, <1>5, <1>6, <1>7 DEF d

\* Where a command's request and its current segment lie.
LEMMA RangedParts ==
  ASSUME NEW c, Ranged(c), c.kind \in {"write", "unmap"}, NEW k, k = SectorsPerSeg
  PROVE  /\ k \in Nat /\ k > 0 /\ c.lba \in Nat /\ c.end \in Nat /\ c.lba < c.end
         /\ c.seg \in Nat /\ c.end - 1 \in Nat
         /\ c.seg >= c.lba \div k /\ c.seg <= (c.end - 1) \div k
<1>1. PICK req \in Requests : c.lba = req[1] /\ c.end = req[1] + req[2]
  BY DEF Ranged
<1>2. req[1] \in Nat /\ req[2] \in Nat \ {0} /\ k \in Nat /\ k > 0
  BY ZTLAssumption, MappingAssumption
<1>3. c.lba \in Nat /\ c.end \in Nat /\ c.lba < c.end /\ c.end - 1 \in Nat
  BY <1>1, <1>2
<1>4. (c.lba \div k) \in Nat /\ ((c.end - 1) \div k) \in Nat
  BY <1>2, <1>3
<1>5. c.seg \in (c.lba \div k) .. ((c.end - 1) \div k)
  BY DEF Ranged, LBAToSegmentID
<1>6. c.seg \in Nat /\ c.seg >= c.lba \div k /\ c.seg <= (c.end - 1) \div k
  BY <1>4, <1>5
<1> QED
  BY <1>2, <1>3, <1>6

\* If no request reaches beyond the table, its segments are the table's.
LEMMA SegmentInTable ==
  ASSUME InRange, NEW c, Ranged(c), c.kind \in {"write", "unmap"}
  PROVE  c.seg \in SegIDs
<1> DEFINE k == SectorsPerSeg
           n == Capacity \div k
<1>1. /\ k \in Nat /\ k > 0 /\ c.end \in Nat /\ c.seg \in Nat
      /\ c.end - 1 \in Nat /\ c.seg <= (c.end - 1) \div k
  BY RangedParts
<1>2. c.end <= n * k
  BY DEF Ranged, InRange
<1>3. n \in Nat
  <2>1. Capacity \in Nat
    BY DeviceAssumption DEF Capacity
  <2> QED
    BY <1>1, <2>1, Quotient
<1> HIDE DEF n
<1>4. (c.end - 1) \div k < n /\ (c.end - 1) \div k \in Nat
  <2>1. n * k \in Nat /\ c.end - 1 < n * k
    BY <1>1, <1>2, <1>3
  <2> QED
    BY <1>1, <1>3, <2>1, Quotient
<1> QED
  BY <1>1, <1>3, <1>4 DEF SegIDs, n

\* The part of a request in one of its segments is neither empty nor longer
\* than a segment.
LEMMA SegmentPart ==
  ASSUME NEW c, Ranged(c), c.kind \in {"write", "unmap"}
  PROVE  Len(SegData(c)) \in 1 .. SectorsPerSeg
<1> DEFINE k == SectorsPerSeg
           first == PartFirst(c.lba, c.seg)
           last  == PartLast(c.end, c.seg)
<1>2. /\ k \in Nat /\ k > 0 /\ c.lba \in Nat /\ c.end \in Nat /\ c.lba < c.end
      /\ c.seg \in Nat /\ c.end - 1 \in Nat
      /\ c.seg >= c.lba \div k /\ c.seg <= (c.end - 1) \div k
  BY RangedParts
<1>6. c.seg * k <= c.end - 1 /\ c.lba < c.seg * k + k /\ c.seg * k \in Nat
  BY <1>2, Quotient
<1>7. first \in Nat /\ last \in Nat /\ last - first \in 1 .. k
  <2>1. PICK b : b = c.seg * k
    OBVIOUS
  <2>2. /\ first = IF c.lba > b THEN c.lba ELSE b
        /\ last = IF c.end < b + k THEN c.end ELSE b + k
    BY <2>1 DEF PartFirst, PartLast, SegmentStart, SegmentEnd
  <2>3. b \in Nat /\ b <= c.end - 1 /\ c.lba < b + k
    BY <1>6, <2>1
  <2> HIDE DEF first, last, k
  <2> QED
    BY <1>2, <2>2, <2>3
<1> HIDE DEF first, last
<1>8. SegData(c) = [i \in 1 .. last - first |-> Stamp(c, first + i - 1)]
  BY DEF SegData, first, last
<1>9. Len(SegData(c)) = last - first
  BY <1>7, <1>8
<1> QED
  BY <1>7, <1>9
-----------------------------------------------------------------------------
(* Frames *)

\* Only t moves.
OnlyMoves(t) == Others(t) /\ \A u \in Clients \ {t} : fl'[u] = fl[u]

\* No zone comes back to the free list, and no pointer changes.
Calm == /\ zm'.wp = zm.wp
        /\ \A z : Contains(zm'.free, z) => Contains(zm.free, z)

\* What the other threads know.
LEMMA OthersMine ==
  ASSUME NEW t \in Clients, OnlyMoves(t), Calm, l2p' = l2p,
         NEW u \in Clients \ {t}, Mine(u)
  PROVE  Mine(u)'
<1>1. pc'[u] = pc[u] /\ cmd'[u] = cmd[u] /\ fl'[u] = fl[u]
  BY ClientsAreThreads DEF OnlyMoves, Others
<1>2. Stage(u)'
  BY <1>1 DEF Mine, Stage
<1>3. Writes(u)'
  BY <1>1 DEF Mine, Writes, Calm
<1>4. Updating(u)' /\ Flushes(u)'
  BY <1>1 DEF Mine, Updating, Flushes, Calm
<1> QED
  BY <1>2, <1>3, <1>4 DEF Mine

\* A thread that neither buffers nor begins a flush keeps flushes apart.
LEMMA ApartFrame ==
  ASSUME Apart, NEW t \in Clients, OnlyMoves(t), pc'[t] # "add",
         pc'[t] \in Flushing => \/ pc[t] \in Flushing /\ fl'[t].zone = fl[t].zone
                                \/ \A u \in Clients : u = t
  PROVE  Apart'
<1>1. \A u \in Clients \ {t} : pc'[u] = pc[u] /\ cmd'[u] = cmd[u] /\ fl'[u] = fl[u]
  BY ClientsAreThreads DEF OnlyMoves, Others
<1> QED
  BY <1>1 DEF Apart, Adding

\* Nothing is added to a buffer.
LEMMA BufferFrame ==
  ASSUME BufferEnds, NEW t \in Clients, OnlyMoves(t), pc[t] # "add", pc'[t] # "add",
         buf' = buf, zm'.wp = zm.wp
  PROVE  BufferEnds'
<1>1. \A u \in Clients \ {t} : pc'[u] = pc[u] /\ cmd'[u] = cmd[u]
  BY ClientsAreThreads DEF OnlyMoves, Others
<1>2. \A u \in Clients, z \in Zones : Adding(u, z)' = Adding(u, z)
  BY <1>1 DEF Adding
<1>3. \A u \in Clients, z \in Zones : Adding(u, z) => cmd'[u] = cmd[u]
  BY <1>1 DEF Adding
<1> QED
  BY <1>2, <1>3 DEF BufferEnds, BufferEnd

\* The table that P2L follows is the same.
LEMMA FollowedFrame ==
  ASSUME LockInv, LockInv', NEW t \in Clients, Others(t), pc[t] \notin {"maps", "umaps"},
         pc'[t] \notin {"maps", "umaps"}, l2p' = l2p
  PROVE  Followed' = Followed
<1>1. \A u \in Clients \ {t} : pc'[u] = pc[u] /\ cmd'[u] = cmd[u]
  BY ClientsAreThreads DEF Others
<1>2. ASSUME mu \in Clients, pc[mu] \in {"maps", "umaps"}
      PROVE  mu' = mu /\ pc'[mu] = pc[mu] /\ cmd'[mu] = cmd[mu]
  BY <1>1, <1>2 DEF LockInv, Locked
<1>3. ASSUME mu' \in Clients, pc'[mu'] \in {"maps", "umaps"}
      PROVE  mu' = mu /\ pc'[mu] = pc[mu]
  BY <1>1, <1>3 DEF LockInv, Locked
<1> QED
  BY <1>2, <1>3 DEF Followed

\* P2L, pointers and counts are the same.
LEMMA InvertedFrame ==
  ASSUME Followed' = Followed, p2l' = p2l, Calm, zm'.valid = zm.valid
  PROVE  TablesFollow
<1>1. Inverted => Inverted'
  BY DEF Inverted, Exact, Calm
<1>2. Backed => Backed'
  BY DEF Backed, Calm
<1> QED
  BY <1>1, <1>2 DEF TablesFollow

\* The free list, pointers and current zone are the same, or no zone is current.
LEMMA FreeFrame ==
  ASSUME FreeZones, Leaves(zm, zm'), cur' = cur \/ ~cur'.open
  PROVE  FreeZones'
  BY DEF FreeZones, Leaves, Within

\* A step that leaves everything shared alone.
LEMMA CalmStep ==
  ASSUME PlaceInv, LockInv, LockInv', NEW t \in Clients, OnlyMoves(t), Leaves(zm, zm'),
         UNCHANGED <<l2p, p2l, buf>>, cur' = cur \/ ~cur'.open,
         pc[t] \notin {"add", "maps", "umaps"}, pc'[t] \notin {"add", "maps", "umaps"},
         pc'[t] \in Flushing => \/ pc[t] \in Flushing /\ fl'[t].zone = fl[t].zone
                                \/ \A u \in Clients : u = t,
         Mine(t)'
  PROVE  PlacesKept
<1>1. Calm
  BY DEF Calm, Leaves
<1>2. \A u \in Clients : Mine(u)'
  BY <1>1, OthersMine DEF PlaceInv
<1>3. Apart' /\ BufferEnds' /\ FreeZones'
  BY <1>1, ApartFrame, BufferFrame, FreeFrame DEF PlaceInv, Calm
<1>4. TablesFollow
  BY <1>1, FollowedFrame, InvertedFrame DEF PlaceInv, OnlyMoves, Leaves
<1> QED
  BY <1>2, <1>3, <1>4 DEF PlaceInv, PlacesKept

\* Outside the steps of an update and of a flush there is little to know.
LEMMA PlainMine ==
  ASSUME NEW t, pc'[t] \notin Flushing \union {"log", "set", "maps", "add", "umaps"}, Stage(t)'
  PROVE  Mine(t)'
  BY DEF Mine, Writes, Updating, Flushes, Flushing
-----------------------------------------------------------------------------
(* Steps that are calm *)

\* Everything that is known when t takes a step before the first collection.
Start(t) ==
  PlaceInv /\ LogInv /\ DataInv /\ LockInv /\ LockInv' /\ OnlyMoves(t) /\ FlushesAlone

\* What Start gives of t itself.
LEMMA StartMine ==
  ASSUME NEW t \in Clients, Start(t)
  PROVE  /\ Mine(t) /\ Stage(t) /\ Writes(t) /\ Updating(t) /\ Flushes(t)
         /\ t \in Threads /\ PCShape /\ CmdShape /\ CmdRec(cmd[t]) /\ CmdData(cmd[t])
         /\ FlShape /\ FlRec(fl[t]) /\ FlData(fl[t]) /\ ZMData(zm)
         /\ Ranged(cmd[t])
<1>1. Mine(t) /\ CmdData(cmd[t]) /\ ZMData(zm)
  BY DEF Start, PlaceInv, DataInv, CmdsData
<1>2. t \in Threads /\ PCShape /\ CmdShape /\ CmdRec(cmd[t]) /\ FlShape
  BY ClientStart DEF Start
<1>3. FlRec(fl[t]) /\ FlData(fl[t])
  BY <1>2 DEF FlShape, Start, DataInv, FlsData
<1> QED
  BY <1>1, <1>2, <1>3 DEF Mine, Stage

\* No command has no range, and a command's other locals do not matter to it.
LEMMA RangedKeeps ==
  /\ Ranged(NoCmd)
  /\ \A c, d : Ranged(c) /\ d.kind = c.kind /\ d.lba = c.lba /\ d.end = c.end /\ d.seg = c.seg
                 => Ranged(d)
  BY DEF Ranged, NoCmd

\* A request begins with its first segment.
LEMMA RangedStart ==
  ASSUME NEW req \in Requests, NEW c, c.lba = req[1], c.end = req[1] + req[2],
         c.seg = LBAToSegmentID(req[1])
  PROVE  Ranged(c)
<1>1. req[1] \in Nat /\ req[2] \in Nat \ {0} /\ SectorsPerSeg \in Nat /\ SectorsPerSeg > 0
  BY ZTLAssumption, MappingAssumption
<1>2. req[1] + req[2] - 1 \in Nat /\ req[1] <= req[1] + req[2] - 1
  BY <1>1
<1>3. PICK a \in Nat, b \in Nat, k \in Nat :
        a = c.lba /\ b = c.end - 1 /\ k = SectorsPerSeg /\ k > 0 /\ a <= b
  BY <1>1, <1>2
<1>4. a \div k \in Nat /\ b \div k \in Nat /\ b < k * (b \div k) + k
  BY <1>3, Quotient
<1>5. a \div k <= b \div k
  <2>1. PICK q \in Nat : q = b \div k
    BY <1>4
  <2>2. k * q + k = (q + 1) * k /\ k * q \in Nat
    BY <2>1
  <2>3. a < (q + 1) * k
    BY <1>3, <1>4, <2>1, <2>2
  <2>4. a \div k < q + 1
    BY <1>3, <2>3, Quotient
  <2> QED
    BY <1>4, <2>1, <2>4
<1>6. LBAToSegmentID(c.lba) = a \div k /\ LBAToSegmentID(c.end - 1) = b \div k
  BY <1>3 DEF LBAToSegmentID
<1>7. c.seg \in LBAToSegmentID(c.lba) .. LBAToSegmentID(c.end - 1)
  BY <1>4, <1>5, <1>6
<1> QED
  BY <1>7 DEF Ranged

\* Its loop goes on to the next one.
LEMMA RangedNext ==
  ASSUME NEW c, Ranged(c), NEW d, c.kind \in {"write", "unmap"},
         c.seg # LBAToSegmentID(c.end - 1),
         d.kind = c.kind, d.lba = c.lba, d.end = c.end, d.seg = c.seg + 1
  PROVE  Ranged(d)
<1>1. /\ c.seg \in Nat /\ c.lba \in Nat /\ c.end - 1 \in Nat
      /\ SectorsPerSeg \in Nat /\ SectorsPerSeg > 0
  BY RangedParts
<1>2. /\ \E req \in Requests : c.lba = req[1] /\ c.end = req[1] + req[2]
      /\ c.seg \in LBAToSegmentID(c.lba) .. LBAToSegmentID(c.end - 1)
  BY DEF Ranged
<1>3. LBAToSegmentID(c.lba) \in Int /\ LBAToSegmentID(c.end - 1) \in Int
  BY <1>1 DEF LBAToSegmentID
<1>4. c.seg + 1 \in LBAToSegmentID(c.lba) .. LBAToSegmentID(c.end - 1)
  BY <1>1, <1>2, <1>3
<1> QED
  BY <1>2, <1>4 DEF Ranged

\* A command begins with the locals of c.
LEMMA BeginSets ==
  ASSUME LogInv, NEW t \in Clients, NEW c, CmdRec(c), NEW step, Begin(t, c, step)
  PROVE  /\ pc[t] = "idle" /\ pc'[t] = step
         /\ cmd'[t].kind = c.kind /\ cmd'[t].lba = c.lba /\ cmd'[t].end = c.end
         /\ cmd'[t].seg = c.seg
<1>1. t \in Threads /\ PCShape /\ CmdShape
  BY ClientStart
<1>2. PICK b : cmd' = [cmd EXCEPT ![t] = [c EXCEPT !.before = b]]
  BY DEF Begin
<1>3. PICK d : d = [c EXCEPT !.before = b]
  OBVIOUS
<1>4. cmd'[t] = d
  BY <1>1, <1>2, <1>3 DEF CmdShape
<1>5. d.kind = c.kind /\ d.lba = c.lba /\ d.end = c.end /\ d.seg = c.seg
  BY <1>3 DEF CmdRec
<1>6. pc[t] = "idle" /\ pc'[t] = step
  BY <1>1, GotoMoves DEF Begin
<1> QED
  BY <1>4, <1>5, <1>6

\* Write, Unmap and Flush begin.
LEMMA IssuePlaces ==
  ASSUME NEW t \in Clients, Start(t), Issue(t)
  PROVE  PlacesKept
<1>1. /\ Leaves(zm, zm') /\ UNCHANGED <<l2p, p2l, buf, cur>>
  BY DEF Issue, Write, Unmap, Flush, mapVars, bufVars, Leaves
<1>2. ASSUME NEW c, CmdRec(c), NEW step, Begin(t, c, step), Ranged(c),
             \/ step = "check" /\ c.kind = "write"
             \/ step = "ulock" /\ c.kind = "unmap"
             \/ step = "fnext" /\ "flush" \in Kinds
      PROVE  PlacesKept
  <2>1. /\ pc[t] = "idle" /\ pc'[t] = step
        /\ cmd'[t].kind = c.kind /\ cmd'[t].lba = c.lba /\ cmd'[t].end = c.end
        /\ cmd'[t].seg = c.seg
    BY <1>2, BeginSets DEF Start
  <2>2. Ranged(cmd'[t])
    BY <1>2, <2>1, RangedKeeps
  <2>3. Stage(t)'
    BY <1>2, <2>1, <2>2 DEF Stage, Flushing
  <2>4. Mine(t)'
    BY <1>2, <2>1, <2>3, PlainMine DEF Flushing
  <2> QED
    BY <1>1, <1>2, <2>1, <2>4, CalmStep DEF Start, Flushing
<1>3. ASSUME NEW req \in Requests, Write(t, req)
      PROVE  PlacesKept
  <2>1. PICK c : c = [NoCmd EXCEPT !.kind = "write", !.lba = req[1],
                        !.end = req[1] + req[2], !.id = cmds + 1,
                        !.seg = LBAToSegmentID(req[1])]
    OBVIOUS
  <2>2. /\ CmdRec(c) /\ c.kind = "write" /\ c.lba = req[1] /\ c.end = req[1] + req[2]
        /\ c.seg = LBAToSegmentID(req[1])
    BY <2>1, FreshCmd DEF CmdRec
  <2>3. Ranged(c)
    BY <2>2, RangedStart
  <2>4. Begin(t, c, "check")
    BY <1>3, <2>1 DEF Write
  <2> QED
    BY <1>2, <2>2, <2>3, <2>4
<1>4. ASSUME NEW req \in Requests, Unmap(t, req)
      PROVE  PlacesKept
  <2>1. PICK c : c = [NoCmd EXCEPT !.kind = "unmap", !.lba = req[1],
                        !.end = req[1] + req[2], !.id = cmds + 1,
                        !.seg = LBAToSegmentID(req[1])]
    OBVIOUS
  <2>2. /\ CmdRec(c) /\ c.kind = "unmap" /\ c.lba = req[1] /\ c.end = req[1] + req[2]
        /\ c.seg = LBAToSegmentID(req[1])
    BY <2>1, FreshCmd DEF CmdRec
  <2>3. Ranged(c)
    BY <2>2, RangedStart
  <2>4. Begin(t, c, "ulock")
    BY <1>4, <2>1 DEF Unmap
  <2> QED
    BY <1>2, <2>2, <2>3, <2>4
<1>5. ASSUME Flush(t), "flush" \in Kinds
      PROVE  PlacesKept
  <2>1. PICK c : c = [NoCmd EXCEPT !.kind = "flush", !.id = cmds + 1]
    OBVIOUS
  <2>2. CmdRec(c) /\ c.kind = "flush"
    BY <2>1, FreshCmd DEF CmdRec
  <2>3. Ranged(c)
    BY <2>2 DEF Ranged
  <2>4. Begin(t, c, "fnext")
    BY <1>5, <2>1 DEF Flush
  <2> QED
    BY <1>2, <1>5, <2>2, <2>3, <2>4
<1> QED
  BY <1>3, <1>4, <1>5 DEF Issue

\* The loop of Write goes on or ends.
LEMMA NextSegmentStage ==
  ASSUME LogInv, NEW t \in Clients, Ranged(cmd[t]), NextSegment(t), cmd[t].kind = "write"
  PROVE  Stage(t)' /\ pc'[t] \in {"commit", "lock"}
<1> DEFINE c == cmd[t]
<1>1. t \in Threads /\ PCShape /\ CmdShape /\ CmdRec(c) /\ Ranged(c)
  BY ClientStart
<1>2. pc'[t] \in {"commit", "lock"}
  BY <1>1, GotoMoves DEF NextSegment
<1>3. cmd'[t].kind = "write" /\ Ranged(cmd'[t])
  <2>1. CASE c.seg = LBAToSegmentID(c.end - 1)
    BY <1>1, <2>1 DEF NextSegment
  <2>2. CASE c.seg # LBAToSegmentID(c.end - 1)
    <3>1. PICK d : d = [c EXCEPT !.seg = @ + 1]
      OBVIOUS
    <3>2. cmd'[t] = d
      BY <1>1, <2>2, <3>1 DEF NextSegment, CmdShape
    <3>3. d.kind = c.kind /\ d.lba = c.lba /\ d.end = c.end /\ d.seg = c.seg + 1
      BY <1>1, <3>1 DEF CmdRec
    <3> QED
      BY <1>1, <2>2, <3>2, <3>3, RangedNext
  <2> QED
    BY <2>1, <2>2
<1> QED
  BY <1>2, <1>3 DEF Stage, Flushing

\* The loop of Unmap goes on or ends.
LEMMA NextUnmapStage ==
  ASSUME LogInv, NEW t \in Clients, Ranged(cmd[t]), NextUnmap(t), cmd[t].kind = "unmap"
  PROVE  Stage(t)' /\ pc'[t] \in {"idle", "ulog"}
<1> DEFINE c == cmd[t]
<1>1. t \in Threads /\ PCShape /\ CmdShape /\ CmdRec(c) /\ Ranged(c)
  BY ClientStart
<1>2. CASE c.seg = LBAToSegmentID(c.end - 1)
  <2>1. pc'[t] = "idle" /\ cmd'[t] = NoCmd
    BY <1>1, <1>2, GotoMoves DEF NextUnmap, End, CmdShape
  <2> QED
    BY <2>1, RangedKeeps DEF Stage, Flushing
<1>3. CASE c.seg # LBAToSegmentID(c.end - 1)
  <2>1. PICK d : d = [c EXCEPT !.seg = @ + 1]
    OBVIOUS
  <2>2. cmd'[t] = d /\ pc'[t] = "ulog"
    BY <1>1, <1>3, <2>1, GotoMoves DEF NextUnmap, CmdShape
  <2>3. d.kind = c.kind /\ d.lba = c.lba /\ d.end = c.end /\ d.seg = c.seg + 1
    BY <1>1, <2>1 DEF CmdRec
  <2>4. Ranged(d)
    BY <1>1, <1>3, <2>3, RangedNext
  <2> QED
    BY <2>2, <2>3, <2>4 DEF Stage, Flushing
<1> QED
  BY <1>2, <1>3

\* The steps of a command outside the lock.
LEMMA OutsidePlaces ==
  ASSUME NEW t \in Clients, Start(t), cycles' = cycles, cycles \in Nat,
         \/ RunEmergencyGC(t) \/ WriteRelock(t) \/ FlushDone(t) \/ Commit(t) \/ Fail(t)
         \/ UnmapLock(t) \/ SetL2PFails(t)
  PROVE  PlacesKept
<1>1. t \in Threads /\ PCShape /\ CmdShape /\ Stage(t) /\ Ranged(cmd[t])
  BY StartMine
<1>2. ASSUME pc[t] \notin {"add", "maps", "umaps"}, Stage(t)', Leaves(zm, zm'),
             UNCHANGED <<l2p, p2l, buf>>, cur' = cur \/ ~cur'.open,
             pc'[t] \in {"idle", "lock", "fail", "commit", "ulog"}
      PROVE  PlacesKept
  <2>1. Mine(t)'
    BY <1>2, PlainMine DEF Flushing
  <2> QED
    BY <1>2, <2>1, CalmStep DEF Start, Flushing
<1>3. CASE RunEmergencyGC(t)
  <2>1. ~\E z \in Zones : SelectVictim(t, z, "check", "fail")
    <3>1. \A z \in Zones : SelectVictim(t, z, "check", "fail") => cycles' = cycles + 1
      BY DEF SelectVictim
    <3> QED
      BY <3>1
  <2>2. /\ pc[t] = "check" /\ Leaves(zm, zm') /\ UNCHANGED <<l2p, p2l, buf, cur, cmd>>
        /\ \E x \in {"lock", "fail"} : Goto(t, x)
    BY <1>3, <2>1 DEF RunEmergencyGC, mapVars, bufVars, cmdVars, Leaves
  <2>3. pc'[t] \in {"lock", "fail"}
    BY <1>1, <2>2, GotoMoves
  <2>4. Stage(t)'
    BY <1>1, <2>2, <2>3 DEF Stage, Flushing
  <2> QED
    BY <1>2, <2>2, <2>3, <2>4
<1>4. CASE WriteRelock(t)
  <2>1. /\ pc[t] = "relock" /\ Leaves(zm, zm') /\ UNCHANGED <<l2p, p2l, buf>>
        /\ \/ UNCHANGED <<cur, cmd>> /\ Goto(t, "fail")
           \/ NextSegment(t) /\ cur' = [cur EXCEPT !.open = FALSE]
    BY <1>4 DEF WriteRelock, mapVars, Leaves
  <2>2. cur = [zone |-> cur.zone, open |-> cur.open]
    BY DEF Start, DataInv, CurData
  <2>3. cur' = cur \/ ~cur'.open
    BY <2>1, <2>2
  <2>4. cmd[t].kind = "write"
    BY <1>1, <2>1 DEF Stage
  <2>5. Stage(t)' /\ pc'[t] \in {"fail", "commit", "lock"}
    <3>1. ASSUME UNCHANGED cmd, Goto(t, "fail")
          PROVE  Stage(t)' /\ pc'[t] = "fail"
      <4>1. pc'[t] = "fail"
        BY <1>1, <3>1, GotoMoves
      <4> QED
        BY <1>1, <3>1, <4>1 DEF Stage, Flushing
    <3> QED
      BY <1>1, <2>1, <2>4, <3>1, NextSegmentStage DEF Start
  <2> QED
    BY <1>2, <2>1, <2>3, <2>5
<1>5. CASE FlushDone(t)
  <2>1. /\ pc[t] = "fnext" /\ Leaves(zm, zm') /\ UNCHANGED <<l2p, p2l, buf, cur, cmd>>
        /\ \E x \in {"fail", "commit"} : Goto(t, x)
    BY <1>5 DEF FlushDone, mapVars, cmdVars, Leaves
  <2>2. pc'[t] \in {"fail", "commit"}
    BY <1>1, <2>1, GotoMoves
  <2>3. Stage(t)'
    BY <1>1, <2>1, <2>2 DEF Stage, Flushing
  <2> QED
    BY <1>2, <2>1, <2>2, <2>3
<1>6. CASE Commit(t) \/ Fail(t)
  <2>1. /\ pc[t] \in {"commit", "fail"} /\ Leaves(zm, zm') /\ UNCHANGED <<l2p, p2l, buf, cur>>
        /\ End(t)
    BY <1>6 DEF Commit, Fail, mapVars, bufVars, Leaves
  <2>2. pc'[t] = "idle" /\ cmd'[t] = NoCmd
    BY <1>1, <2>1, GotoMoves DEF End, CmdShape
  <2>3. Stage(t)'
    BY <2>2, RangedKeeps DEF Stage, Flushing
  <2> QED
    BY <1>2, <2>1, <2>2, <2>3
<1>7. CASE UnmapLock(t)
  <2>1. /\ pc[t] = "ulock" /\ Leaves(zm, zm') /\ UNCHANGED <<l2p, p2l, buf, cur, cmd>>
        /\ Goto(t, "ulog")
    BY <1>7 DEF UnmapLock, mapVars, bufVars, Leaves
  <2>2. pc'[t] = "ulog"
    BY <1>1, <2>1, GotoMoves
  <2>3. Stage(t)'
    BY <1>1, <2>1, <2>2 DEF Stage, Flushing
  <2> QED
    BY <1>2, <2>1, <2>2, <2>3
<1>8. CASE SetL2PFails(t)
  <2>1. /\ pc[t] = "set" /\ Leaves(zm, zm') /\ UNCHANGED <<l2p, p2l, buf, cur, cmd>>
        /\ Goto(t, "fail")
    BY <1>8 DEF SetL2PFails, mapVars, bufVars, Leaves
  <2>2. pc'[t] = "fail"
    BY <1>1, <2>1, GotoMoves
  <2>3. Stage(t)'
    BY <1>1, <2>1, <2>2 DEF Stage, Flushing
  <2> QED
    BY <1>2, <2>1, <2>2, <2>3
<1> QED
  BY <1>3, <1>4, <1>5, <1>6, <1>7, <1>8

\* Write logs its update.
LEMMA WriteLogPlaces ==
  ASSUME NEW t \in Clients, Start(t), WriteLog(t)
  PROVE  PlacesKept
<1> DEFINE wp  == zm.wp[cmd[t].zone]
           old == L2PGet(l2p, cmd[t].seg)
           new == EncodePhysAddr(cmd[t].zone, wp - zoneStartLBA(cmd[t].zone))
<1>1. /\ UNCHANGED <<zm, l2p, p2l, buf, fl, cur>> /\ Goto(t, "set") /\ pc[t] = "log"
      /\ cmd' = [cmd EXCEPT ![t].wp = wp, ![t].old = old, ![t].new = new]
  BY DEF WriteLog, bufVars
<1> HIDE DEF wp, old, new
<1>2. /\ t \in Threads /\ PCShape /\ CmdShape /\ CmdRec(cmd[t])
      /\ Stage(t) /\ Writes(t) /\ Ranged(cmd[t])
  BY StartMine
<1>3. pc'[t] = "set"
  BY <1>1, <1>2, GotoMoves
<1>4. PICK c : c = [cmd[t] EXCEPT !.wp = wp, !.old = old, !.new = new]
  OBVIOUS
<1>5. /\ c.seg = cmd[t].seg /\ c.zone = cmd[t].zone /\ c.kind = cmd[t].kind
      /\ c.lba = cmd[t].lba /\ c.end = cmd[t].end
      /\ c.wp = wp /\ c.old = old /\ c.new = new
  BY <1>2, <1>4 DEF CmdRec
<1>6. cmd'[t] = c
  BY <1>1, <1>2, <1>4 DEF CmdShape
<1>7. cmd[t].kind = "write"
  BY <1>1, <1>2 DEF Stage
<1>8. Stage(t)'
  <2>1. Ranged(c)
    BY <1>2, <1>5, RangedKeeps
  <2> QED
    BY <1>3, <1>5, <1>6, <1>7, <2>1 DEF Stage, Flushing
<1>9. Writes(t)'
  <2>1. /\ ~Contains(zm.free, cmd[t].zone)
        /\ zm.wp[cmd[t].zone] + SectorsPerSeg <= zoneEndLBA(cmd[t].zone)
    BY <1>1, <1>2, <1>7 DEF Writes
  <2> QED
    BY <1>1, <1>3, <1>5, <1>6, <2>1 DEF Writes, wp, new
<1>10. Updating(t)' /\ Flushes(t)'
  BY <1>1, <1>3, <1>5, <1>6, <1>7 DEF Updating, Flushes, Flushing, old
<1>11. Mine(t)'
  BY <1>8, <1>9, <1>10 DEF Mine
<1> QED
  BY <1>1, <1>3, <1>11, CalmStep DEF Start, Flushing, Leaves

\* Unmap logs its update, or passes over a segment that is not mapped.
LEMMA UnmapLogPlaces ==
  ASSUME NEW t \in Clients, Start(t), UnmapLog(t)
  PROVE  PlacesKept
<1> DEFINE old == L2PGet(l2p, cmd[t].seg)
<1>1. UNCHANGED <<zm, l2p, p2l, buf, fl, cur>> /\ pc[t] = "ulog"
  BY DEF UnmapLog, bufVars
<1>2. /\ t \in Threads /\ PCShape /\ CmdShape /\ CmdRec(cmd[t])
      /\ Stage(t) /\ Ranged(cmd[t])
  BY StartMine
<1>3. cmd[t].kind = "unmap"
  BY <1>1, <1>2 DEF Stage
<1>4. CASE IsUnmapped(old)
  <2>1. NextUnmap(t)
    BY <1>4 DEF UnmapLog
  <2>2. Stage(t)' /\ pc'[t] \in {"idle", "ulog"}
    BY <1>2, <1>3, <2>1, NextUnmapStage DEF Start
  <2>3. Mine(t)'
    BY <2>2, PlainMine DEF Flushing
  <2> QED
    BY <1>1, <2>2, <2>3, CalmStep DEF Start, Flushing, Leaves
<1>5. CASE ~IsUnmapped(old)
  <2>1. /\ cmd' = [cmd EXCEPT ![t].old = old, ![t].new = Unmapped]
        /\ Goto(t, "set") /\ old # Unmapped
    BY <1>5 DEF UnmapLog, IsUnmapped
  <2> HIDE DEF old
  <2>2. PICK c : c = [cmd[t] EXCEPT !.old = old, !.new = Unmapped]
    OBVIOUS
  <2>3. /\ c.seg = cmd[t].seg /\ c.kind = cmd[t].kind
        /\ c.lba = cmd[t].lba /\ c.end = cmd[t].end
        /\ c.old = old /\ c.new = Unmapped
    BY <1>2, <2>2 DEF CmdRec
  <2>4. cmd'[t] = c
    BY <1>2, <2>1, <2>2 DEF CmdShape
  <2>5. pc'[t] = "set"
    BY <1>2, <2>1, GotoMoves
  <2>6. Stage(t)'
    <3>1. Ranged(c)
      BY <1>2, <2>3, RangedKeeps
    <3> QED
      BY <1>3, <2>3, <2>4, <2>5, <3>1 DEF Stage, Flushing
  <2>7. Writes(t)' /\ Updating(t)' /\ Flushes(t)'
    BY <1>1, <1>3, <2>1, <2>3, <2>4, <2>5 DEF Writes, Updating, Flushes, Flushing, old
  <2>8. Mine(t)'
    BY <2>6, <2>7 DEF Mine
  <2> QED
    BY <1>1, <2>5, <2>8, CalmStep DEF Start, Flushing, Leaves
<1> QED
  BY <1>4, <1>5

\* Flush returns to its caller.
LEMMA ReturnMine ==
  ASSUME NEW t \in Clients, Start(t), pc[t] \in Flushing, UNCHANGED cmd,
         NEW failed, FlushReturn(t, failed)
  PROVE  Mine(t)' /\ pc'[t] \in {"relock", "fnext"}
<1>1. t \in Threads /\ PCShape /\ Stage(t) /\ Ranged(cmd[t])
  BY StartMine
<1>2. pc'[t] = fl[t].ret
  BY <1>1, GotoMoves DEF FlushReturn
<1>3. \/ fl[t].ret = "relock" /\ cmd[t].kind = "write"
      \/ fl[t].ret = "fnext" /\ "flush" \in Kinds
  BY <1>1 DEF Stage
<1>4. Stage(t)'
  BY <1>1, <1>2, <1>3 DEF Stage, Flushing
<1> QED
  BY <1>2, <1>3, <1>4, PlainMine DEF Flushing

\* The steps of a flush that have its data in hand.
LEMMA FlushingPlaces ==
  ASSUME NEW t \in Clients, Start(t), UNCHANGED cmdVars,
         FlushOpen(t) \/ FlushWrite(t) \/ FlushPoint(t)
  PROVE  PlacesKept
<1>1. /\ t \in Threads /\ PCShape /\ FlData(fl[t]) /\ ZMData(zm)
      /\ Stage(t) /\ Flushes(t) /\ Ranged(cmd[t])
  BY StartMine
<1>2. /\ UNCHANGED <<l2p, p2l, buf, cur, cmd>> /\ pc[t] \in {"fopen", "fwrite", "fpoint"}
  BY DEF FlushOpen, FlushWrite, FlushPoint, mapVars, cmdVars
<1>3. Leaves(zm, zm')
  <2>1. CASE FlushOpen(t)
    BY <1>1, <2>1, GetLeaves DEF FlushOpen
  <2>2. CASE FlushWrite(t)
    BY <2>2 DEF FlushWrite, Leaves
  <2>3. CASE FlushPoint(t)
    <3> DEFINE z == fl[t].zone
               w == FlushedWP(fl[t])
    <3>1. pc[t] = "fpoint" /\ zm' = UpdateWritePointer(zm, z, w)
      BY <2>3 DEF FlushPoint
    <3>2. w = zm.wp[z]
      BY <1>1, <3>1 DEF Flushes
    <3>3. z \in Zones /\ zm.wp \in [Zones -> Int]
      BY <1>1 DEF FlData, ZMData
    <3> HIDE DEF z, w
    <3>4. w \in Int /\ [zm.wp EXCEPT ![z] = w] = zm.wp
      BY <3>2, <3>3
    <3>5. /\ zm'.valid = zm.valid /\ zm'.free = zm.free
          /\ zm'.wp = [zm.wp EXCEPT ![z] = w]
      BY <1>1, <3>1, <3>3, <3>4, PointerLeaves
    <3> QED
      BY <3>4, <3>5 DEF Leaves
  <2> QED
    BY <2>1, <2>2, <2>3
<1>4. \/ \E x \in {"fwrite", "fpoint"} : Goto(t, x) /\ UNCHANGED fl
      \/ \E failed : FlushReturn(t, failed)
  BY DEF FlushOpen, FlushWrite, FlushPoint
<1>5. CASE \E x \in {"fwrite", "fpoint"} : Goto(t, x) /\ UNCHANGED fl
  <2>1. pc'[t] \in {"fwrite", "fpoint"} /\ fl' = fl
    BY <1>1, <1>5, GotoMoves
  <2>2. Stage(t)'
    BY <1>1, <1>2, <2>1 DEF Stage, Flushing
  <2>3. Writes(t)' /\ Updating(t)'
    BY <2>1 DEF Writes, Updating
  <2>4. Flushes(t)'
    BY <1>1, <1>2, <1>3, <2>1 DEF Flushes, Leaves, Flushing
  <2>5. Mine(t)'
    BY <2>2, <2>3, <2>4 DEF Mine
  <2> QED
    BY <1>2, <1>3, <2>1, <2>5, CalmStep DEF Start, Flushing
<1>6. CASE \E failed : FlushReturn(t, failed)
  <2>1. Mine(t)' /\ pc'[t] \in {"relock", "fnext"}
    BY <1>2, <1>6, ReturnMine DEF Flushing
  <2> QED
    BY <1>2, <1>3, <2>1, CalmStep DEF Start, Flushing
<1> QED
  BY <1>4, <1>5, <1>6

\* FlushAll goes on to its next zone; no other client is there.
LEMMA FlushNextPlaces ==
  ASSUME NEW t \in Clients, Start(t), UNCHANGED cmdVars, FlushNext(t)
  PROVE  PlacesKept
<1>1. /\ t \in Threads /\ PCShape /\ FlShape /\ FlRec(fl[t]) /\ Stage(t) /\ Ranged(cmd[t])
  BY StartMine
<1>2. UNCHANGED <<zm, l2p, p2l, buf, cur, cmd>> /\ pc[t] = "fnext" /\ Goto(t, "ftake")
  BY DEF FlushNext, mapVars, cmdVars
<1>3. "flush" \in Kinds /\ \A u \in Clients : u = t
  BY <1>1, <1>2 DEF Stage, Start, FlushesAlone
<1>4. PICK z \in fl[t].todo :
        fl' = [fl EXCEPT ![t].zone = z, ![t].todo = @ \ {z}, ![t].ret = "fnext"]
  BY DEF FlushNext
<1>5. PICK f : f = [fl[t] EXCEPT !.zone = z, !.todo = @ \ {z}, !.ret = "fnext"]
  OBVIOUS
<1>6. fl'[t] = f
  BY <1>1, <1>4, <1>5 DEF FlShape
<1>7. f.ret = "fnext"
  BY <1>1, <1>5 DEF FlRec
<1>8. pc'[t] = "ftake"
  BY <1>1, <1>2, GotoMoves
<1>9. Stage(t)'
  BY <1>1, <1>2, <1>3, <1>6, <1>7, <1>8 DEF Stage, Flushing
<1>10. Writes(t)' /\ Updating(t)' /\ Flushes(t)'
  BY <1>6, <1>7, <1>8 DEF Writes, Updating, Flushes
<1>11. Mine(t)'
  BY <1>9, <1>10 DEF Mine
<1> QED
  BY <1>2, <1>3, <1>8, <1>11, CalmStep DEF Start, Leaves
-----------------------------------------------------------------------------
(* Steps that are not *)

\* Flush takes a buffer, which ends at the write pointer, or finds none.
LEMMA FlushTakePlaces ==
  ASSUME NEW t \in Clients, Start(t), UNCHANGED cmdVars, FlushTake(t)
  PROVE  PlacesKept
<1> DEFINE z == fl[t].zone
<1>1. /\ t \in Threads /\ PCShape /\ FlShape /\ FlRec(fl[t]) /\ FlData(fl[t])
      /\ Stage(t) /\ Flushes(t) /\ Ranged(cmd[t])
  BY StartMine
<1>2. UNCHANGED <<zm, l2p, p2l, cur, cmd>> /\ pc[t] = "ftake"
  BY DEF FlushTake, mapVars, cmdVars
<1>3. Leaves(zm, zm') /\ Calm
  BY <1>2 DEF Leaves, Calm
<1>4. CASE buf[z] = NoBuffer
  <2>1. FlushReturn(t, FALSE) /\ UNCHANGED buf
    BY <1>4 DEF FlushTake
  <2>2. Mine(t)' /\ pc'[t] \in {"relock", "fnext"}
    BY <1>2, <2>1, ReturnMine DEF Flushing
  <2> QED
    BY <1>2, <1>3, <2>1, <2>2, CalmStep DEF Start, Flushing
<1>5. CASE buf[z] # NoBuffer
  <2>1. /\ fl' = [fl EXCEPT ![t].wp = buf[z].wp, ![t].data = buf[z].data]
        /\ buf' = [buf EXCEPT ![z] = NoBuffer]
        /\ Goto(t, "fopen")
    BY <1>5 DEF FlushTake
  <2>2. PICK f : f = [fl[t] EXCEPT !.wp = buf[z].wp, !.data = buf[z].data]
    OBVIOUS
  <2>3. f.zone = z /\ f.ret = fl[t].ret /\ f.wp = buf[z].wp /\ f.data = buf[z].data
    BY <1>1, <2>2 DEF FlRec
  <2>4. fl'[t] = f
    BY <1>1, <2>1, <2>2 DEF FlShape
  <2>5. pc'[t] = "fopen"
    BY <1>1, <2>1, GotoMoves
  <2>6. z \in Zones /\ buf \in [Zones -> Buffers]
    BY <1>1 DEF FlData, Start, DataInv
  <2>7. FlushedWP(f) = zm.wp[z]
    <3>1. \A u \in Clients : ~Adding(u, z)
      BY <1>2 DEF Start, PlaceInv, Apart, Flushing
    <3>2. BufferEnd(z) = zm.wp[z]
      BY <1>5, <2>6, <3>1 DEF Start, PlaceInv, BufferEnds
    <3> QED
      BY <2>3, <3>2 DEF BufferEnd, FlushedWP
  <2>8. Stage(t)'
    BY <1>1, <1>2, <2>3, <2>4, <2>5 DEF Stage, Flushing
  <2>9. Writes(t)' /\ Updating(t)'
    BY <2>5 DEF Writes, Updating
  <2>10. Flushes(t)'
    BY <1>1, <1>2, <2>3, <2>4, <2>5, <2>7 DEF Flushes, Flushing
  <2>11. Mine(t)'
    BY <2>8, <2>9, <2>10 DEF Mine
  <2>12. \A u \in Clients : Mine(u)'
    BY <1>2, <1>3, <2>11, OthersMine DEF Start, PlaceInv
  <2>13. Apart'
    BY <1>2, <2>3, <2>4, <2>5, ApartFrame DEF Start, PlaceInv, Flushing
  <2>14. BufferEnds'
    <3>1. \A u \in Clients \ {t} : pc'[u] = pc[u] /\ cmd'[u] = cmd[u]
      BY ClientsAreThreads DEF Start, OnlyMoves, Others
    <3>2. \A u \in Clients, y \in Zones : Adding(u, y)' <=> Adding(u, y)
      BY <1>2, <2>5, <3>1 DEF Adding
    <3>3. ASSUME NEW y \in Zones, buf'[y] # NoBuffer
          PROVE  y # z /\ buf'[y] = buf[y]
      BY <2>1, <2>6, <3>3
    <3> QED
      BY <1>2, <3>2, <3>3 DEF Start, PlaceInv, BufferEnds, BufferEnd
  <2>15. FreeZones'
    BY <1>2, <1>3, FreeFrame DEF Start, PlaceInv
  <2>16. TablesFollow
    BY <1>2, <1>3, <2>5, FollowedFrame, InvertedFrame DEF Start, PlaceInv, OnlyMoves
  <2> QED
    BY <2>12, <2>13, <2>14, <2>15, <2>16 DEF PlaceInv, PlacesKept
<1> QED
  BY <1>4, <1>5

\* l2p.Set: P2L and the counts go on following the table as it was.
LEMMA SetL2PPlaces ==
  ASSUME NEW t \in Clients, Start(t), SetL2P(t)
  PROVE  PlacesKept
<1> DEFINE c == cmd[t]
<1>1. /\ t \in Threads /\ PCShape /\ CmdRec(c) /\ CmdData(c)
      /\ Stage(t) /\ Writes(t) /\ Updating(t) /\ Ranged(c)
  BY StartMine
<1>2. /\ UNCHANGED <<zm, p2l, buf, fl, cur, cmd, mu>> /\ pc[t] = "set"
      /\ l2p' = L2PSet(l2p, c.seg, c.new) /\ c.seg \in SegIDs
  BY DEF SetL2P, bufVars, cmdVars
<1>3. c.kind \in {"write", "unmap"}
  BY <1>1, <1>2 DEF Stage
<1>4. pc'[t] = IF c.kind = "write" THEN "maps" ELSE "umaps"
  BY <1>1, GotoMoves DEF SetL2P
<1>5. c.seg \in SegIDs /\ l2p \in [SegIDs -> Nat]
  BY <1>2 DEF Start, DataInv, MapData
<1>6. mu = t /\ \A u \in Clients \ {t} : pc[u] \notin Locked
  BY <1>2 DEF Start, LockInv, Locked
<1>7. c.old = l2p[c.seg] /\ l2p'[c.seg] = c.new /\ c.old \in Nat
  BY <1>1, <1>2, <1>5 DEF Updating, L2PSet, L2PGet
<1>8. Stage(t)'
  BY <1>1, <1>2, <1>3, <1>4 DEF Stage, Flushing
<1>9. Writes(t)'
  BY <1>1, <1>2, <1>3, <1>4 DEF Writes
<1>10. Updating(t)'
  <2>1. c.kind = "unmap" => c.new = Unmapped /\ c.old # Unmapped
    BY <1>1, <1>2 DEF Updating
  <2> QED
    BY <1>2, <1>3, <1>4, <1>5, <1>7, <2>1 DEF Updating
<1>11. Flushes(t)'
  BY <1>4 DEF Flushes, Flushing
<1>12. Mine(t)'
  BY <1>8, <1>9, <1>10, <1>11 DEF Mine
<1>13. ASSUME NEW u \in Clients \ {t}
       PROVE  Mine(u)'
  <2>1. pc'[u] = pc[u] /\ cmd'[u] = cmd[u] /\ fl'[u] = fl[u] /\ Mine(u)
    BY ClientsAreThreads DEF Start, PlaceInv, OnlyMoves, Others
  <2>2. Stage(u)' /\ Writes(u)' /\ Flushes(u)'
    BY <1>2, <2>1 DEF Mine, Stage, Writes, Flushes
  <2>3. Updating(u)'
    BY <1>6, <2>1 DEF Updating, Locked
  <2> QED
    BY <2>2, <2>3 DEF Mine
<1>14. Apart' /\ BufferEnds'
  BY <1>2, <1>4, ApartFrame, BufferFrame DEF Start, PlaceInv, Flushing
<1>15. FreeZones'
  BY <1>2, FreeFrame DEF Start, PlaceInv, Leaves
<1>16. Followed' = Followed
  <2>1. Followed = l2p
    BY <1>2, <1>6 DEF Followed
  <2>2. Followed' = L2PSet(l2p', c.seg, c.old)
    BY <1>2, <1>4, <1>6 DEF Followed
  <2>3. L2PSet(l2p', c.seg, c.old) = l2p
    BY <1>2, <1>5, <1>7 DEF L2PSet
  <2> QED
    BY <2>1, <2>2, <2>3
<1>17. TablesFollow
  BY <1>2, <1>16, InvertedFrame DEF Start, PlaceInv, Calm
<1> QED
  BY <1>12, <1>13, <1>14, <1>15, <1>17 DEF PlaceInv, PlacesKept
\* An address that was handed out names a zone.
LEMMA PlacedZone ==
  ASSUME AddressesFit, NEW wp \in [Zones -> Int], Within(wp), NEW p, Placed(p, wp)
  PROVE  ZoneID(p) \in Zones
<1>1. PICK z \in Zones : \E o \in 0 .. wp[z] - zoneStartLBA(z) - 1 : p = EncodePhysAddr(z, o)
  BY DEF Placed
<1>2. PICK o \in 0 .. wp[z] - zoneStartLBA(z) - 1 : p = EncodePhysAddr(z, o)
  BY <1>1
<1>3. /\ zoneStartLBA(z) \in Int /\ zoneEndLBA(z) = zoneStartLBA(z) + ZoneSectors
      /\ ZoneSectors \in Nat
  BY ZoneBounds, DeviceAssumption DEF zoneStartLBA, zoneEndLBA
<1>4. wp[z] \in zoneStartLBA(z) .. zoneEndLBA(z)
  BY DEF Within
<1>5. o \in 0 .. ZoneSectors - 1
  BY <1>2, <1>3, <1>4
<1> QED
  BY <1>2, <1>5, Packed

\* Write and Unmap take the old address of a segment out of P2L and its count.
LEMMA OldLeaves ==
  ASSUME AddressesFit, Within(zm.wp), ZMData(zm), NEW m \in [SegIDs -> Nat], NEW seg \in SegIDs,
         Exact(m, p2l, zm)
  PROVE  Exact(L2PSet(m, seg, Unmapped), P2LWithout(m[seg]), CountWithout(m[seg]))
<1>1. CASE m[seg] = Unmapped
  <2>1. L2PSet(m, seg, Unmapped) = m
    BY <1>1 DEF L2PSet
  <2> QED
    BY <1>1, <2>1 DEF P2LWithout, CountWithout, IsUnmapped
<1>2. CASE m[seg] # Unmapped
  <2>1. zm.wp \in [Zones -> Int] /\ Placed(m[seg], zm.wp)
    BY <1>2 DEF ZMData, Exact, AllPlaced
  <2>2. ZoneID(m[seg]) \in Zones
    BY <2>1, PlacedZone
  <2>3. Exact(L2PSet(m, seg, Unmapped), P2LDelete(p2l, m[seg]),
              DecrementValidSegs(zm, ZoneID(m[seg])))
    BY <1>2, <2>2, ExactWithout
  <2> QED
    BY <1>2, <2>3 DEF P2LWithout, CountWithout, IsUnmapped
<1> QED
  BY <1>1, <1>2

\* Taking an address out of the counts moves no pointer and frees no zone.
LEMMA CountWithoutLeaves ==
  ASSUME ZMData(zm), NEW old
  PROVE  /\ ZMData(CountWithout(old)) /\ CountWithout(old).wp = zm.wp
         /\ CountWithout(old).free = zm.free
  BY CountLeaves DEF CountWithout

\* Unmap takes the segment out of P2L and its zone's count.
LEMMA UnmapMapsPlaces ==
  ASSUME AddressesFit, NEW t \in Clients, Start(t), UnmapMaps(t)
  PROVE  PlacesKept
<1> DEFINE c == cmd[t]
<1>1. /\ t \in Threads /\ PCShape /\ CmdData(c) /\ ZMData(zm)
      /\ Stage(t) /\ Updating(t) /\ Ranged(c)
  BY StartMine
<1>2. /\ UNCHANGED <<l2p, buf, fl, cur>> /\ pc[t] = "umaps"
      /\ p2l' = P2LDelete(p2l, c.old) /\ zm' = DecrementValidSegs(zm, ZoneID(c.old))
      /\ NextUnmap(t)
  BY DEF UnmapMaps, bufVars
<1>3. c.kind = "unmap"
  BY <1>1, <1>2 DEF Stage
<1>4. Stage(t)' /\ pc'[t] \in {"idle", "ulog"}
  BY <1>1, <1>2, <1>3, NextUnmapStage DEF Start
<1>5. zm'.wp = zm.wp /\ zm'.free = zm.free
  BY <1>1, <1>2, CountLeaves
<1>6. Calm
  BY <1>5 DEF Calm
<1>7. Mine(t)'
  BY <1>4, PlainMine DEF Flushing
<1>8. \A u \in Clients : Mine(u)'
  BY <1>2, <1>6, <1>7, OthersMine DEF Start, PlaceInv
<1>9. Apart' /\ BufferEnds'
  BY <1>2, <1>4, <1>5, ApartFrame, BufferFrame DEF Start, PlaceInv, Flushing
<1>10. FreeZones'
  BY <1>2, <1>5 DEF FreeZones, Start, PlaceInv, Within
<1>11. c.seg \in SegIDs /\ l2p \in [SegIDs -> Nat]
  BY <1>1, <1>2 DEF Updating, Start, DataInv, MapData
<1>12. c.new = Unmapped /\ l2p[c.seg] = Unmapped /\ c.old \in Nat /\ c.old # Unmapped
  BY <1>1, <1>2 DEF Updating
<1>13. mu = t
  BY <1>2 DEF Start, LockInv, Locked
<1>14. Followed = L2PSet(l2p, c.seg, c.old)
  BY <1>2, <1>13 DEF Followed
<1>15. Followed' = l2p
  <2>1. mu' \in Clients => pc'[mu'] \notin {"maps", "umaps"}
    <3>1. mu' \in Clients => mu' = t
      BY <1>13, NoOneIsNone DEF UnmapMaps, NextUnmap
    <3> QED
      BY <1>4, <3>1
  <2> QED
    BY <1>2, <2>1 DEF Followed
<1>16. ASSUME Contains(zm.free, 0), Inverted
       PROVE  Exact(l2p, p2l', zm')
  <2> DEFINE m == L2PSet(l2p, c.seg, c.old)
  <2>1. m \in [SegIDs -> Nat] /\ m[c.seg] = c.old
    BY <1>11, <1>12 DEF L2PSet
  <2>2. L2PSet(m, c.seg, Unmapped) = l2p
    BY <1>11, <1>12 DEF L2PSet
  <2>3. Exact(m, p2l, zm) /\ Within(zm.wp)
    BY <1>14, <1>16 DEF Start, PlaceInv, Inverted, FreeZones
  <2> HIDE DEF m
  <2>4. Exact(L2PSet(m, c.seg, Unmapped), P2LWithout(m[c.seg]), CountWithout(m[c.seg]))
    BY <1>1, <1>11, <2>1, <2>3, OldLeaves
  <2> QED
    BY <1>2, <1>12, <2>1, <2>2, <2>4 DEF P2LWithout, CountWithout, IsUnmapped
<1>17. Backed => Backed'
  <2> SUFFICES ASSUME Contains(zm.free, 0), Backed, NEW e \in p2l, e[1] # c.old
               PROVE  e[1] # Unmapped /\ e[2] \in SegIDs /\ l2p[e[2]] = e[1]
    BY <1>2, <1>5, <1>15 DEF Backed, P2LDelete
  <2>1. e[1] # Unmapped /\ e[2] \in SegIDs /\ Followed[e[2]] = e[1]
    BY DEF Backed
  <2> QED
    BY <1>11, <1>14, <2>1 DEF L2PSet
<1>18. TablesFollow
  BY <1>5, <1>15, <1>16, <1>17 DEF TablesFollow, Inverted
<1> QED
  BY <1>8, <1>9, <1>10, <1>18 DEF PlaceInv, PlacesKept
\* Where the segment of a write ends: past its first sector, and in the zone.
LEMMA NewPointer ==
  ASSUME NEW t \in Clients, Start(t), pc[t] \in {"maps", "add"}
  PROVE  /\ cmd[t].kind = "write" /\ cmd[t].zone \in Zones /\ cmd[t].wp \in Int
         /\ NewWP(cmd[t]) \in Int /\ cmd[t].wp < NewWP(cmd[t])
         /\ NewWP(cmd[t]) <= cmd[t].wp + SectorsPerSeg
         /\ NewWP(cmd[t]) = cmd[t].wp + Len(SegData(cmd[t]))
         /\ Len(SegData(cmd[t])) \in Nat
         /\ SectorsPerSeg \in Nat
<1> DEFINE c == cmd[t]
           n == Len(SegData(c))
<1>1. CmdData(c) /\ Ranged(c) /\ Stage(t)
  BY StartMine
<1>2. c.kind = "write" /\ c.zone \in Zones /\ c.wp \in Int /\ SectorsPerSeg \in Nat
  BY <1>1, MappingAssumption DEF Stage, CmdData
<1>3. n \in 1 .. SectorsPerSeg
  BY <1>1, <1>2, SegmentPart
<1>4. NewWP(c) = c.wp + n
  BY DEF NewWP
<1> HIDE DEF n
<1>5. n \in Nat /\ n >= 1 /\ n <= SectorsPerSeg
  BY <1>2, <1>3
<1>6. NewWP(c) \in Int /\ c.wp < NewWP(c) /\ NewWP(c) <= c.wp + SectorsPerSeg
  BY <1>2, <1>4, <1>5
<1> QED
  BY <1>2, <1>3, <1>4, <1>5, <1>6 DEF n

\* What WriteMaps makes of the zone manager.
LEMMA WriteMapsMoves ==
  ASSUME NEW t \in Clients, Start(t), WriteMaps(t)
  PROVE  /\ zm'.wp = [zm.wp EXCEPT ![cmd[t].zone] = NewWP(cmd[t])]
         /\ zm'.free = zm.free
<1> DEFINE c == cmd[t]
           n == CountWithout(c.old)
           i == IncrementValidSegs(n, c.zone)
<1>1. ZMData(zm) /\ pc[t] = "maps"
  BY StartMine DEF WriteMaps
<1>2. c.zone \in Zones /\ NewWP(c) \in Int
  BY <1>1, NewPointer
<1>3. ZMData(n) /\ n.wp = zm.wp /\ n.free = zm.free
  BY <1>1, CountWithoutLeaves
<1> HIDE DEF n
<1>4. ZMData(i) /\ i.wp = zm.wp /\ i.free = zm.free
  BY <1>3, CountLeaves
<1>5. zm' = UpdateWritePointer(i, c.zone, NewWP(c))
  BY DEF WriteMaps, i, n
<1> HIDE DEF i
<1> QED
  BY <1>2, <1>4, <1>5, PointerLeaves

\* P2L and the counts catch up with the table: the old address leaves, and the
\* new one, at the write pointer, is one that no segment has.
LEMMA WriteMapsExact ==
  ASSUME AddressesFit, NEW t \in Clients, Start(t), WriteMaps(t), Contains(zm.free, 0),
         Inverted
  PROVE  Exact(l2p, p2l', zm')
<1> DEFINE c == cmd[t]
           m == L2PSet(l2p, c.seg, c.old)
           k == L2PSet(m, c.seg, Unmapped)
           n == CountWithout(c.old)
<1>1. /\ ZMData(zm) /\ Writes(t) /\ Updating(t) /\ pc[t] = "maps"
  BY StartMine DEF WriteMaps
<1>2. /\ c.kind = "write" /\ c.zone \in Zones /\ c.wp \in Int /\ NewWP(c) \in Int
      /\ c.wp < NewWP(c) /\ c.seg \in SegIDs
  BY <1>1, NewPointer DEF Updating
<1>3. /\ ~Contains(zm.free, c.zone) /\ c.wp = zm.wp[c.zone]
      /\ zm.wp[c.zone] + SectorsPerSeg <= zoneEndLBA(c.zone)
      /\ c.new = EncodePhysAddr(c.zone, zm.wp[c.zone] - zoneStartLBA(c.zone))
  BY <1>1, <1>2 DEF Writes
<1>4. c.new = l2p[c.seg] /\ c.old \in Nat /\ l2p \in [SegIDs -> Nat]
  BY <1>1 DEF Updating, Start, DataInv, MapData
<1>5. m \in [SegIDs -> Nat] /\ m[c.seg] = c.old
  BY <1>2, <1>4 DEF L2PSet
<1>6. k \in [SegIDs -> Nat] /\ k[c.seg] = Unmapped
  BY <1>2, <1>5 DEF L2PSet, Unmapped
<1>7. L2PSet(k, c.seg, c.new) = l2p
  BY <1>2, <1>4 DEF L2PSet
<1>8. Exact(m, p2l, zm) /\ Within(zm.wp)
  <2>1. mu = t
    BY <1>1 DEF Start, LockInv, Locked
  <2>2. Followed = m
    BY <1>1, <2>1 DEF Followed
  <2> QED
    BY <2>2 DEF Start, PlaceInv, Inverted, FreeZones
<1>9. Exact(k, P2LWithout(c.old), n)
  <2> HIDE DEF m
  <2>1. Exact(L2PSet(m, c.seg, Unmapped), P2LWithout(m[c.seg]), CountWithout(m[c.seg]))
    BY <1>1, <1>2, <1>5, <1>8, OldLeaves
  <2> QED
    BY <1>5, <2>1
<1>10. ZMData(n) /\ n.wp = zm.wp
  BY <1>1, CountWithoutLeaves
<1>11. c.zone # 0 /\ n.wp[c.zone] < zoneEndLBA(c.zone)
  <2>1. zoneEndLBA(c.zone) \in Int /\ SectorsPerSeg \in Nat /\ SectorsPerSeg > 0
    BY <1>2, ZoneBounds, DeviceAssumption, MappingAssumption DEF zoneStartLBA, zoneEndLBA
  <2> QED
    BY <1>2, <1>3, <1>10, <2>1
<1> HIDE DEF k, n, m
<1>12. Exact(L2PSet(k, c.seg, c.new), P2LSet(P2LWithout(c.old), c.new, c.seg),
             UpdateWritePointer(IncrementValidSegs(n, c.zone), c.zone, NewWP(c)))
  BY <1>2, <1>3, <1>6, <1>8, <1>9, <1>10, <1>11, ExactWith
<1> QED
  BY <1>7, <1>12 DEF WriteMaps, n

\* Whatever P2L had before, it has only what the table has.
LEMMA WriteMapsBacked ==
  ASSUME AddressesFit, NEW t \in Clients, Start(t), WriteMaps(t), Contains(zm.free, 0), Backed
  PROVE  \A e \in p2l' : e[1] # Unmapped /\ e[2] \in SegIDs /\ l2p[e[2]] = e[1]
<1> DEFINE c == cmd[t]
<1>1. /\ ZMData(zm) /\ Writes(t) /\ Updating(t) /\ pc[t] = "maps"
      /\ p2l' = P2LSet(P2LWithout(c.old), c.new, c.seg)
  BY StartMine DEF WriteMaps
<1>2. c.kind = "write" /\ c.zone \in Zones /\ c.wp \in Int /\ c.seg \in SegIDs
  BY <1>1, NewPointer DEF Updating
<1>3. /\ ~Contains(zm.free, c.zone)
      /\ zm.wp[c.zone] + SectorsPerSeg <= zoneEndLBA(c.zone)
      /\ c.new = EncodePhysAddr(c.zone, zm.wp[c.zone] - zoneStartLBA(c.zone))
  BY <1>1, <1>2 DEF Writes
<1>4. c.new = l2p[c.seg] /\ l2p \in [SegIDs -> Nat]
  BY <1>1 DEF Updating, Start, DataInv, MapData
<1>5. c.new # Unmapped
  <2>1. /\ zoneStartLBA(c.zone) \in Int /\ zoneEndLBA(c.zone) = zoneStartLBA(c.zone) + ZoneSectors
        /\ ZoneSectors \in Nat /\ SectorsPerSeg \in Nat /\ SectorsPerSeg > 0
    BY <1>2, ZoneBounds, DeviceAssumption, MappingAssumption DEF zoneStartLBA, zoneEndLBA
  <2>2. zm.wp[c.zone] \in zoneStartLBA(c.zone) .. zoneEndLBA(c.zone)
    BY <1>2 DEF Start, PlaceInv, FreeZones, Within
  <2>3. zm.wp[c.zone] - zoneStartLBA(c.zone) \in 0 .. ZoneSectors - 1
    BY <1>3, <2>1, <2>2
  <2>4. c.zone # 0
    BY <1>3
  <2> QED
    BY <1>2, <1>3, <2>3, <2>4, Packed
<1>6. Followed = L2PSet(l2p, c.seg, c.old)
  BY <1>1 DEF Followed, Start, LockInv, Locked
<1>7. ASSUME NEW e \in P2LWithout(c.old)
      PROVE  e[1] # Unmapped /\ e[2] \in SegIDs /\ l2p[e[2]] = e[1]
  <2>1. e[1] # Unmapped /\ e[2] \in SegIDs /\ Followed[e[2]] = e[1]
    BY DEF Backed, P2LWithout, P2LDelete
  <2>2. e[1] # c.old
    BY <2>1 DEF P2LWithout, P2LDelete, IsUnmapped
  <2> QED
    BY <1>4, <1>6, <2>1, <2>2 DEF L2PSet
<1> QED
  BY <1>1, <1>2, <1>4, <1>5, <1>7 DEF P2LSet, P2LDelete

\* No flush is of the zone that is being written to: a writer flushes a full
\* zone, and any other flush is alone.
LEMMA FlushesElsewhere ==
  ASSUME NEW t \in Clients, Start(t), pc[t] \in {"log", "set", "maps"}, cmd[t].kind = "write",
         NEW u \in Clients \ {t}, pc[u] \in Flushing
  PROVE  fl[u].zone # cmd[t].zone /\ fl[u].ret = "relock"
<1>1. Writes(t) /\ CmdData(cmd[t]) /\ ZMData(zm)
  BY StartMine
<1>2. fl[u].ret = "relock"
  BY DEF Start, PlaceInv, Mine, Stage, FlushesAlone
<1>3. zm.wp[fl[u].zone] = zoneEndLBA(fl[u].zone)
  BY <1>2 DEF Start, PlaceInv, Mine, Flushes
<1>4. zm.wp[cmd[t].zone] + SectorsPerSeg <= zoneEndLBA(cmd[t].zone)
  BY <1>1 DEF Writes
<1>5. cmd[t].zone \in Zones /\ zm.wp[cmd[t].zone] \in Int
  BY <1>1 DEF CmdData, ZMData
<1>6. SectorsPerSeg \in Nat /\ SectorsPerSeg > 0
  BY MappingAssumption
<1>7. zm.wp[cmd[t].zone] # zoneEndLBA(cmd[t].zone)
  BY <1>4, <1>5, <1>6
<1> QED
  BY <1>2, <1>3, <1>7

\* Write's step from the table to P2L, the counts and the write pointer.
LEMMA WriteMapsPlaces ==
  ASSUME AddressesFit, NEW t \in Clients, Start(t), WriteMaps(t)
  PROVE  PlacesKept
<1> DEFINE c == cmd[t]
<1>1. /\ t \in Threads /\ PCShape /\ ZMData(zm) /\ Stage(t) /\ Writes(t) /\ Ranged(c)
  BY StartMine
<1>2. UNCHANGED <<l2p, buf, fl, cur, cmd, mu>> /\ pc[t] = "maps"
  BY DEF WriteMaps, bufVars, cmdVars
<1>3. pc'[t] = "add"
  BY <1>1, GotoMoves DEF WriteMaps
<1>4. /\ c.kind = "write" /\ c.zone \in Zones /\ c.wp \in Int /\ NewWP(c) \in Int
      /\ c.wp < NewWP(c) /\ NewWP(c) <= c.wp + SectorsPerSeg /\ SectorsPerSeg \in Nat
  BY <1>2, NewPointer
<1>5. /\ ~Contains(zm.free, c.zone) /\ c.wp = zm.wp[c.zone]
      /\ zm.wp[c.zone] + SectorsPerSeg <= zoneEndLBA(c.zone)
  BY <1>1, <1>2, <1>4 DEF Writes
<1>6. zm'.wp = [zm.wp EXCEPT ![c.zone] = NewWP(c)] /\ zm'.free = zm.free
  BY WriteMapsMoves
<1>7. zm'.wp[c.zone] = NewWP(c) /\ \A y \in Zones \ {c.zone} : zm'.wp[y] = zm.wp[y]
  BY <1>1, <1>4, <1>6 DEF ZMData
<1>8. mu = t /\ \A u \in Clients \ {t} : pc[u] \notin Locked
  BY <1>2 DEF Start, LockInv, Locked
<1>9. \A u \in Clients \ {t} : pc'[u] = pc[u] /\ cmd'[u] = cmd[u] /\ fl'[u] = fl[u]
  BY ClientsAreThreads DEF Start, OnlyMoves, Others
<1>10. Mine(t)'
  <2>1. Stage(t)'
    BY <1>1, <1>2, <1>3, <1>4 DEF Stage, Flushing
  <2>2. Writes(t)'
    BY <1>2, <1>3, <1>5, <1>6, <1>7 DEF Writes, NewWP, SegData, Stamp
  <2>3. Updating(t)' /\ Flushes(t)'
    BY <1>3 DEF Updating, Flushes, Flushing
  <2> QED
    BY <2>1, <2>2, <2>3 DEF Mine
<1>11. ASSUME NEW u \in Clients \ {t}, pc[u] \in Flushing
       PROVE  fl[u].zone # c.zone /\ fl[u].zone \in Zones
  BY <1>2, <1>4, <1>11, FlushesElsewhere, ClientsAreThreads DEF Start, DataInv, FlsData, FlData
<1>12. ASSUME NEW u \in Clients \ {t}
       PROVE  Mine(u)'
  <2>1. Mine(u)
    BY DEF Start, PlaceInv
  <2>2. Stage(u)'
    BY <1>9, <2>1 DEF Mine, Stage
  <2>3. Writes(u)' /\ Updating(u)'
    BY <1>8, <1>9 DEF Writes, Updating, Locked
  <2>4. pc[u] \in Flushing => zm'.wp[fl[u].zone] = zm.wp[fl[u].zone]
    BY <1>7, <1>11
  <2>5. Flushes(u)'
    BY <1>9, <2>1, <2>4 DEF Mine, Flushes, Flushing
  <2> QED
    BY <2>2, <2>3, <2>5 DEF Mine
<1>13. \A u \in Clients, z \in Zones : Adding(u, z)' <=> u = t /\ z = c.zone
  BY <1>2, <1>3, <1>8, <1>9 DEF Adding, Locked
<1>14. Apart'
  <2>1. \A u \in Clients : pc'[u] \in Flushing => u # t
    BY <1>3 DEF Flushing
  <2> QED
    BY <1>9, <1>11, <1>13, <2>1 DEF Apart
<1>15. BufferEnds'
  <2>1. \A u \in Clients, z \in Zones : ~Adding(u, z)
    BY <1>2, <1>8 DEF Adding, Locked
  <2>2. \A z \in Zones : buf[z] # NoBuffer => BufferEnd(z) = zm.wp[z]
    BY <2>1 DEF Start, PlaceInv, BufferEnds
  <2>3. \A z \in Zones : BufferEnd(z)' = BufferEnd(z)
    BY <1>2 DEF BufferEnd
  <2> QED
    BY <1>2, <1>5, <1>7, <1>13, <2>2, <2>3 DEF BufferEnds
<1>16. FreeZones'
  <2>1. FreeZones
    BY DEF Start, PlaceInv
  <2>2. Within(zm'.wp)
    <3>1. /\ zoneStartLBA(c.zone) \in Int /\ zoneEndLBA(c.zone) \in Int
          /\ zm.wp[c.zone] \in zoneStartLBA(c.zone) .. zoneEndLBA(c.zone)
      BY <1>4, <2>1, ZoneBounds, DeviceAssumption DEF FreeZones, Within, zoneStartLBA, zoneEndLBA
    <3>2. NewWP(c) \in zoneStartLBA(c.zone) .. zoneEndLBA(c.zone)
      BY <1>4, <1>5, <3>1
    <3> QED
      BY <1>7, <2>1, <3>2 DEF FreeZones, Within
  <2> QED
    BY <1>2, <1>5, <1>6, <1>7, <2>1, <2>2 DEF FreeZones
<1>17. Followed' = l2p
  BY <1>2, <1>3, <1>8 DEF Followed
<1>18. TablesFollow
  <2>1. Inverted => Inverted'
    BY <1>6, <1>17, WriteMapsExact DEF Inverted
  <2>2. Backed => Backed'
    <3> SUFFICES ASSUME Backed, Contains(zm.free, 0)
                 PROVE  \A e \in p2l' : e[1] # Unmapped /\ e[2] \in SegIDs /\ l2p[e[2]] = e[1]
      BY <1>6, <1>17 DEF Backed
    <3> QED
      BY WriteMapsBacked
  <2> QED
    BY <2>1, <2>2 DEF TablesFollow
<1> QED
  BY <1>10, <1>12, <1>14, <1>15, <1>16, <1>18 DEF PlaceInv, PlacesKept
\* buf.Add: the buffer ends at the write pointer again.
LEMMA AddEnds ==
  ASSUME NEW t \in Clients, Start(t), WriteAdd(t), \A u \in Clients : pc'[u] # "add"
  PROVE  BufferEnds'
<1> DEFINE c == cmd[t]
           b == buf[c.zone]
<1>1. /\ Writes(t) /\ pc[t] = "add" /\ UNCHANGED zm
      /\ buf' = Add(buf, c.zone, SegData(c), c.wp)
  BY StartMine DEF WriteAdd
<1>2. /\ c.kind = "write" /\ c.zone \in Zones /\ c.wp \in Int
      /\ NewWP(c) = c.wp + Len(SegData(c)) /\ Len(SegData(c)) \in Nat
  BY <1>1, NewPointer
<1>3. NewWP(c) = zm.wp[c.zone]
  BY <1>1, <1>2 DEF Writes
<1>4. buf \in [Zones -> Buffers] /\ BufferEnds
  BY DEF Start, DataInv, PlaceInv
<1>5. b \in Buffers /\ SegData(c) \in Seq(Sectors)
  BY <1>2, <1>4, SegDataSectors DEF Start, DataInv, CmdsData
<1>6. \A u \in Clients, z \in Zones : Adding(u, z) => u = t /\ z = c.zone
  BY <1>1 DEF Adding, Start, LockInv, Locked
<1>7. buf'[c.zone].wp + Len(buf'[c.zone].data) = zm.wp[c.zone]
  <2>1. CASE b = NoBuffer
    <3>1. buf'[c.zone] = [wp |-> c.wp, data |-> SegData(c)]
      BY <1>1, <1>2, <1>4, <2>1 DEF Add
    <3> QED
      BY <1>2, <1>3, <3>1
  <2>2. CASE b # NoBuffer
    <3>1. buf'[c.zone] = [wp |-> b.wp, data |-> b.data \o SegData(c)]
      BY <1>1, <1>2, <1>4, <2>2 DEF Add
    <3>2. Adding(t, c.zone)
      BY <1>1 DEF Adding
    <3>3. b.wp + Len(b.data) = c.wp
      BY <1>2, <1>4, <2>2, <3>2 DEF BufferEnds, BufferEnd
    <3>4. b.wp \in Int /\ b.data \in Seq(Sectors)
      BY <1>5 DEF Buffers
    <3> HIDE DEF b, c
    <3>5. Len(b.data \o SegData(c)) = Len(b.data) + Len(SegData(c)) /\ Len(b.data) \in Nat
      BY <1>5, <3>4
    <3> QED
      BY <1>2, <1>3, <3>1, <3>3, <3>4, <3>5
  <2> QED
    BY <2>1, <2>2
<1>8. ASSUME NEW y \in Zones, y # c.zone
      PROVE  buf'[y] = buf[y] /\ (buf[y] # NoBuffer => BufferEnd(y) = zm.wp[y])
  <2>1. buf'[y] = buf[y]
    BY <1>1, <1>2, <1>4, <1>8 DEF Add
  <2> QED
    BY <1>4, <1>6, <1>8, <2>1 DEF BufferEnds
<1>9. \A u \in Clients, z \in Zones : ~Adding(u, z)'
  BY DEF Adding
<1>10. \A z \in Zones : buf'[z] # NoBuffer => BufferEnd(z)' = zm'.wp[z]
  BY <1>1, <1>7, <1>8 DEF BufferEnd
<1> QED
  BY <1>9, <1>10 DEF BufferEnds

\* Write buffers its data and gives the lock up: for its next segment, at its
\* end, or to flush the zone it has filled.
LEMMA WriteAddPlaces ==
  ASSUME NEW t \in Clients, Start(t), WriteAdd(t)
  PROVE  PlacesKept
<1> DEFINE c == cmd[t]
<1>1. /\ t \in Threads /\ PCShape /\ FlShape /\ ZMData(zm) /\ Stage(t) /\ Writes(t) /\ Ranged(c)
  BY StartMine
<1>2. UNCHANGED <<zm, l2p, p2l, cur>> /\ pc[t] = "add" /\ mu' = NoOne
  BY DEF WriteAdd, mapVars
<1>3. /\ c.kind = "write" /\ c.zone \in Zones /\ NewWP(c) \in Int
  BY <1>2, NewPointer
<1>4. NewWP(c) = zm.wp[c.zone]
  BY <1>1, <1>2, <1>3 DEF Writes
<1>5. Calm /\ Leaves(zm, zm')
  BY <1>2 DEF Calm, Leaves
<1>6. mu = t /\ \A u \in Clients \ {t} : pc[u] \notin Locked
  BY <1>2 DEF Start, LockInv, Locked
<1>7. Mine(t)' /\ pc'[t] # "add"
  <2>1. CASE NewWP(c) >= zoneEndLBA(c.zone)
    <3>1. /\ fl' = [fl EXCEPT ![t] = [NoFlush EXCEPT !.zone = c.zone, !.ret = "relock"]]
          /\ Goto(t, "ftake") /\ UNCHANGED cmd
      BY <2>1 DEF WriteAdd
    <3>2. pc'[t] = "ftake"
      BY <1>1, <3>1, GotoMoves
    <3>3. fl'[t].zone = c.zone /\ fl'[t].ret = "relock"
      BY <1>1, <3>1 DEF FlShape, NoFlush
    <3>4. zm.wp[c.zone] = zoneEndLBA(c.zone)
      <4>1. zm.wp[c.zone] \in zoneStartLBA(c.zone) .. zoneEndLBA(c.zone)
        BY <1>3 DEF Start, PlaceInv, FreeZones, Within
      <4>2. zoneStartLBA(c.zone) \in Int /\ zoneEndLBA(c.zone) \in Int
        BY <1>3, ZoneBounds, DeviceAssumption DEF zoneStartLBA, zoneEndLBA
      <4> QED
        BY <1>3, <1>4, <2>1, <4>1, <4>2
    <3>5. Stage(t)'
      BY <1>1, <1>3, <3>1, <3>2, <3>3 DEF Stage, Flushing
    <3>6. Writes(t)' /\ Updating(t)'
      BY <3>2 DEF Writes, Updating
    <3>7. Flushes(t)'
      BY <1>2, <3>2, <3>3, <3>4 DEF Flushes
    <3> QED
      BY <3>2, <3>5, <3>6, <3>7 DEF Mine
  <2>2. CASE ~(NewWP(c) >= zoneEndLBA(c.zone))
    <3>1. NextSegment(t)
      BY <2>2 DEF WriteAdd
    <3>2. Stage(t)' /\ pc'[t] \in {"commit", "lock"}
      BY <1>1, <1>3, <3>1, NextSegmentStage DEF Start
    <3> QED
      BY <3>2, PlainMine DEF Flushing
  <2> QED
    BY <2>1, <2>2
<1>8. \A u \in Clients : Mine(u)'
  BY <1>2, <1>5, <1>7, OthersMine DEF Start, PlaceInv
<1>9. \A u \in Clients : pc'[u] # "add"
  <2>1. \A u \in Clients \ {t} : pc'[u] = pc[u]
    BY ClientsAreThreads DEF Start, OnlyMoves, Others
  <2> QED
    BY <1>6, <1>7, <2>1 DEF Locked
<1>10. Apart' /\ BufferEnds'
  BY <1>9, AddEnds DEF Apart, Adding
<1>11. FreeZones'
  BY <1>2, <1>5, FreeFrame DEF Start, PlaceInv
<1>12. Followed' = Followed
  BY <1>2, <1>6, NoOneIsNone DEF Followed
<1>13. TablesFollow
  BY <1>2, <1>5, <1>12, InvertedFrame DEF Start, PlaceInv
<1> QED
  BY <1>8, <1>10, <1>11, <1>13 DEF PlaceInv, PlacesKept
\* Taking the top zone off a list of distinct zones.
LEMMA TakeTop ==
  ASSUME NEW s \in Seq(Zones), s # << >>, NoDup(s)
  PROVE  /\ Last(s) \in Zones /\ Contains(s, Last(s))
         /\ NoDup(Front(s)) /\ ~Contains(Front(s), Last(s))
         /\ \A z : Contains(Front(s), z) => Contains(s, z)
<1> DEFINE n == Len(s)
           f == Front(s)
<1>1. n \in Nat /\ n >= 1 /\ s[n] \in Zones
  BY EmptySeq
<1>2. Len(f) = n - 1 /\ \A i \in 1 .. n - 1 : f[i] = s[i]
  <2>1. f = SubSeq(s, 1, n - 1) /\ \A i \in 1 .. n - 1 : s[i] \in Zones
    BY DEF Front
  <2> HIDE DEF f, n
  <2>2. /\ Len(f) = IF 1 <= n - 1 THEN (n - 1) - 1 + 1 ELSE 0
        /\ \A i \in 1 .. (n - 1) - 1 + 1 : f[i] = s[1 + i - 1]
    BY <1>1, <2>1, SubSeqProperties
  <2> QED
    BY <1>1, <2>2
<1> HIDE DEF f
<1>3. \A i \in 1 .. n - 1 : s[i] # s[n]
  BY <1>1 DEF NoDup
<1>4. NoDup(f)
  BY <1>1, <1>2 DEF NoDup
<1>5. Contains(s, s[n]) /\ ~Contains(f, s[n])
  BY <1>1, <1>2, <1>3 DEF Contains
<1>6. \A z : Contains(f, z) => Contains(s, z)
  BY <1>1, <1>2 DEF Contains
<1> QED
  BY <1>1, <1>4, <1>5, <1>6 DEF Last, f

\* writeSegment has ztl.mu and a zone with room for a segment.
LEMMA LockedPlaces ==
  ASSUME NEW t \in Clients, Start(t), pc[t] = "lock", Goto(t, "log"), Calm, FreeZones',
         zm'.valid = zm.valid, UNCHANGED <<l2p, p2l, buf, fl>>, NEW z,
         cmd' = [cmd EXCEPT ![t].zone = z], ~Contains(zm'.free, z),
         zm.wp[z] + SectorsPerSeg <= zoneEndLBA(z)
  PROVE  PlacesKept
<1>1. t \in Threads /\ PCShape /\ CmdShape /\ CmdRec(cmd[t]) /\ Stage(t) /\ Ranged(cmd[t])
  BY StartMine
<1>2. pc'[t] = "log"
  BY <1>1, GotoMoves
<1>3. PICK c : c = [cmd[t] EXCEPT !.zone = z]
  OBVIOUS
<1>4. /\ c.zone = z /\ c.kind = cmd[t].kind /\ c.seg = cmd[t].seg
      /\ c.lba = cmd[t].lba /\ c.end = cmd[t].end
  BY <1>1, <1>3 DEF CmdRec
<1>5. cmd'[t] = c
  BY <1>1, <1>3 DEF CmdShape
<1>6. Stage(t)'
  <2>1. Ranged(c)
    BY <1>1, <1>4, RangedKeeps
  <2> QED
    BY <1>1, <1>2, <1>4, <1>5, <2>1 DEF Stage, Flushing
<1>7. Writes(t)'
  BY <1>2, <1>4, <1>5 DEF Writes, Calm
<1>8. Updating(t)' /\ Flushes(t)'
  BY <1>2 DEF Updating, Flushes, Flushing
<1>9. Mine(t)'
  BY <1>6, <1>7, <1>8 DEF Mine
<1>10. \A u \in Clients : Mine(u)'
  BY <1>9, OthersMine DEF Start, PlaceInv
<1>11. Apart' /\ BufferEnds'
  BY <1>2, ApartFrame, BufferFrame DEF Start, PlaceInv, Flushing, Calm
<1>12. TablesFollow
  BY <1>2, FollowedFrame, InvertedFrame DEF Start, PlaceInv, OnlyMoves
<1> QED
  BY <1>10, <1>11, <1>12 DEF PlaceInv, PlacesKept

\* writeSegment takes ztl.mu and gets its zone: the current one, or a free one.
LEMMA WriteLockPlaces ==
  ASSUME AddressesFit, NEW t \in Clients, Start(t), WriteLock(t)
  PROVE  PlacesKept
<1>1. t \in Threads /\ PCShape /\ ZMData(zm) /\ Stage(t) /\ Ranged(cmd[t]) /\ FreeZones
  BY StartMine DEF Start, PlaceInv
<1>2. pc[t] = "lock" /\ UNCHANGED <<l2p, p2l, buf, fl>>
  BY DEF WriteLock, bufVars
<1>3. \A z \in Zones : /\ zoneStartLBA(z) \in Int /\ ZoneSectors \in Nat
                       /\ zoneEndLBA(z) = zoneStartLBA(z) + ZoneSectors
                       /\ SectorsPerSeg \in Nat /\ SectorsPerSeg <= ZoneSectors
  BY ZoneBounds, DeviceAssumption, MappingAssumption DEF zoneStartLBA, zoneEndLBA, AddressesFit
<1>4. CASE cur.open /\ HasRoom(cur.zone)
  <2>1. UNCHANGED <<zm, cur>> /\ Goto(t, "log") /\ cmd' = [cmd EXCEPT ![t].zone = cur.zone]
    BY <1>4 DEF WriteLock
  <2>2. Calm /\ FreeZones'
    BY <1>1, <2>1, FreeFrame DEF Calm, Leaves
  <2>3. ~Contains(zm'.free, cur.zone)
    BY <1>1, <1>4, <2>1 DEF FreeZones
  <2>4. zm.wp[cur.zone] + SectorsPerSeg <= zoneEndLBA(cur.zone)
    <3>1. cur.zone \in Zones
      BY DEF Start, DataInv, CurData
    <3>2. zm.wp[cur.zone] \in zoneStartLBA(cur.zone) .. zoneEndLBA(cur.zone)
      BY <1>1, <3>1 DEF FreeZones, Within
    <3> QED
      BY <1>3, <1>4, <3>1, <3>2 DEF HasRoom
  <2> QED
    BY <1>2, <2>1, <2>2, <2>3, <2>4, LockedPlaces
<1>5. CASE ~(cur.open /\ HasRoom(cur.zone))
  <2> DEFINE r == AllocateFree(zm, dev)
  <2>1. zm' = r.zm
    BY <1>5 DEF WriteLock
  <2>2. /\ zm'.wp = zm.wp /\ zm'.valid = zm.valid
        /\ IF r.ok THEN zm.free # << >> /\ r.zone = Last(zm.free) /\ zm'.free = Front(zm.free)
           ELSE zm'.free = zm.free
    BY <1>1, <2>1, AllocateLeaves
  <2>3. CASE r.ok
    <3>1. /\ cur' = [zone |-> r.zone, open |-> TRUE] /\ Goto(t, "log")
          /\ cmd' = [cmd EXCEPT ![t].zone = r.zone]
      BY <1>5, <2>3 DEF WriteLock
    <3> HIDE DEF r
    <3>2. zm.free # << >> /\ r.zone = Last(zm.free) /\ zm'.free = Front(zm.free)
      BY <2>2, <2>3
    <3>3. zm.free \in Seq(Zones) /\ NoDup(zm.free)
      BY <1>1 DEF ZMData, FreeZones
    <3>4. /\ r.zone \in Zones /\ Contains(zm.free, r.zone)
          /\ NoDup(zm'.free) /\ ~Contains(zm'.free, r.zone)
          /\ \A z : Contains(zm'.free, z) => Contains(zm.free, z)
      BY <3>2, <3>3, TakeTop
    <3>5. zm.wp[r.zone] + SectorsPerSeg <= zoneEndLBA(r.zone)
      <4>1. zm.wp[r.zone] = zoneStartLBA(r.zone)
        BY <1>1, <3>4 DEF FreeZones
      <4> QED
        BY <1>3, <3>4, <4>1
    <3>6. FreeZones'
      BY <1>1, <2>2, <3>1, <3>4 DEF FreeZones, Within
    <3>7. Calm
      BY <2>2, <3>4 DEF Calm
    <3> QED
      BY <1>2, <2>2, <3>1, <3>4, <3>5, <3>6, <3>7, LockedPlaces
  <2>4. CASE ~r.ok
    <3>1. cur' = [cur EXCEPT !.open = FALSE] /\ Goto(t, "fail") /\ UNCHANGED cmd
      BY <1>5, <2>4 DEF WriteLock
    <3>2. Leaves(zm, zm')
      BY <2>2, <2>4 DEF Leaves
    <3> HIDE DEF r
    <3>3. ~cur'.open
      <4>1. cur = [zone |-> cur.zone, open |-> cur.open]
        BY DEF Start, DataInv, CurData
      <4> QED
        BY <3>1, <4>1
    <3>4. pc'[t] = "fail"
      BY <1>1, <3>1, GotoMoves
    <3>5. Stage(t)'
      BY <1>1, <3>1, <3>4 DEF Stage, Flushing
    <3>6. Mine(t)'
      BY <3>4, <3>5, PlainMine DEF Flushing
    <3> QED
      BY <1>2, <3>2, <3>3, <3>4, <3>6, CalmStep DEF Start, Flushing
  <2> QED
    BY <2>3, <2>4
<1> QED
  BY <1>4, <1>5
-----------------------------------------------------------------------------
(* Steps before the first collection *)

\* A client's step leaves the Flush locals of the other threads alone.
LEMMA OthersFl ==
  ASSUME LogInv, NEW t \in Clients,
         Issue(t) \/ ClientStep(t) \/ FlushStep(t) \/ FlushNext(t)
  PROVE  \A u \in Clients \ {t} : fl'[u] = fl[u]
<1>1. FlShape
  BY ClientStart
<1>2. ASSUME NEW f, fl' = [fl EXCEPT ![t] = f]
      PROVE  \A u \in Clients \ {t} : fl'[u] = fl[u]
  BY <1>1, <1>2, ClientsAreThreads DEF FlShape
<1>3. ASSUME NEW failed, FlushReturn(t, failed)
      PROVE  \A u \in Clients \ {t} : fl'[u] = fl[u]
  BY <1>2, <1>3 DEF FlushReturn
<1>4. CASE Issue(t)
  BY <1>2, <1>4 DEF Issue, Write, Unmap, Flush, bufVars
<1>5. CASE ClientStep(t)
  <2>1. UNCHANGED fl \/ \E f : fl' = [fl EXCEPT ![t] = f]
    BY <1>5 DEF ClientStep, RunEmergencyGC, SelectVictim, WriteLock, WriteLog, SetL2P, SetL2PFails, WriteMaps,
       WriteAdd, WriteRelock, UnmapLock, UnmapLog, UnmapMaps, FlushDone, Commit, Fail, bufVars
  <2> QED
    BY <1>2, <2>1
<1>6. CASE FlushTake(t)
  BY <1>2, <1>3, <1>6 DEF FlushTake
<1>7. CASE FlushOpen(t)
  BY <1>3, <1>7 DEF FlushOpen
<1>8. CASE FlushWrite(t)
  BY <1>3, <1>8 DEF FlushWrite
<1>9. CASE FlushPoint(t)
  BY <1>3, <1>9 DEF FlushPoint
<1>10. CASE FlushNext(t)
  BY <1>2, <1>10 DEF FlushNext
<1> QED
  BY <1>4, <1>5, <1>6, <1>7, <1>8, <1>9, <1>10 DEF FlushStep

\* A step after which no collection has begun is not one of a collection.
LEMMA NotCollecting ==
  ASSUME Quiet, cycles' = 0, Next
  PROVE  /\ cycles = 0
         /\ \/ \E t \in Clients : /\ UNCHANGED cycles
                                  /\ \/ Issue(t) \/ ClientStep(t)
                                     \/ (FlushStep(t) \/ FlushNext(t)) /\ UNCHANGED <<gcVars, cmdVars>>
            \/ \E t \in Flushers : FlusherWork(t)
<1>1. cycles \in Nat
  BY DEF Quiet
<1>2. ASSUME NEW t, NEW z, NEW ret, NEW err
      PROVE  ~SelectVictim(t, z, ret, err)
  <2>1. SelectVictim(t, z, ret, err) => cycles' = cycles + 1
    BY DEF SelectVictim
  <2> QED
    BY <1>1, <2>1
<1>3. ASSUME NEW t \in Threads
      PROVE  ~GCStep(t)
  <2>1. GCStep(t) => pc[t] \in Collecting /\ UNCHANGED cycles
    BY DEF GCStep, FreezeVictim, MigrateRead, MigrateAlloc, MigrateWrite, MigrateCAS,
           MigrateMaps, JournalReset, ResetVictim, MarkVictim, gcVars, Collecting
  <2> QED
    BY <2>1 DEF Quiet
<1>4. ASSUME NEW t \in Clients, Issue(t) \/ ClientWork(t)
      PROVE  /\ UNCHANGED cycles
             /\ \/ Issue(t) \/ ClientStep(t)
                \/ (FlushStep(t) \/ FlushNext(t)) /\ UNCHANGED <<gcVars, cmdVars>>
  <2>1. t \in Threads
    BY ClientsAreThreads
  <2>2. Issue(t) => UNCHANGED cycles
    BY DEF Issue, Write, Unmap, Flush, gcVars
  <2>3. ClientStep(t) => UNCHANGED cycles
    <3>1. RunEmergencyGC(t) => UNCHANGED cycles
      BY <1>2 DEF RunEmergencyGC, gcVars
    <3> QED
      BY <3>1 DEF ClientStep, WriteLock, WriteLog, SetL2P, SetL2PFails, WriteMaps, WriteAdd, WriteRelock,
         UnmapLock, UnmapLog, UnmapMaps, FlushDone, Commit, Fail, gcVars
  <2> QED
    BY <1>3, <1>4, <2>1, <2>2, <2>3 DEF ClientWork, gcVars
<1>5. ASSUME NEW t \in Flushers, FlusherWork(t)
      PROVE  UNCHANGED cycles
  BY <1>5 DEF FlusherWork, gcVars
<1>6. ASSUME NEW t \in Collectors
      PROVE  ~CollectorWork(t)
  BY <1>2, <1>3 DEF CollectorWork, runCycle, Threads
<1> QED
  BY <1>4, <1>5, <1>6 DEF Next

-----------------------------------------------------------------------------
(* The theorem about the log *)

\* A client's command, or its flush, takes a step before the first collection.
ActsAlone(t) ==
  /\ LogInv /\ cycles \in Nat /\ UNCHANGED cycles
  /\ \/ Issue(t) \/ ClientStep(t)
     \/ (FlushStep(t) \/ FlushNext(t)) /\ UNCHANGED <<gcVars, cmdVars>>

\* The steps that change no local of the command.
LEMMA SameCommandStage ==
  ASSUME LogInv, NEW t \in Clients, Stage(t), UNCHANGED <<cmd, fl>>, NEW x, Goto(t, x),
         \/ x \in {"fail", "commit"}
         \/ pc[t] = "check" /\ x = "lock"
         \/ pc[t] = "maps" /\ x = "add"
         \/ pc[t] = "ulock" /\ x = "ulog"
         \/ pc[t] = "set" /\ x = IF cmd[t].kind = "write" THEN "maps" ELSE "umaps"
         \/ pc[t] \in Flushing /\ x \in Flushing
  PROVE  Stage(t)'
<1>1. pc'[t] = x
  BY ClientStart, GotoMoves
<1> QED
  BY <1>1 DEF Stage, Flushing

\* The step changes locals that Stage says nothing of.
LEMMA OtherLocalsStage ==
  ASSUME LogInv, NEW t \in Clients, Stage(t), UNCHANGED fl, NEW d, cmd'[t] = d,
         d.kind = cmd[t].kind, d.lba = cmd[t].lba, d.end = cmd[t].end, d.seg = cmd[t].seg,
         NEW x, Goto(t, x),
         \/ pc[t] = "lock" /\ x = "log"
         \/ pc[t] \in {"log", "ulog"} /\ x = "set"
  PROVE  Stage(t)'
<1>1. pc'[t] = x
  BY ClientStart, GotoMoves
<1>2. Ranged(d)
  BY RangedKeeps DEF Stage
<1> QED
  BY <1>1, <1>2 DEF Stage, Flushing

\* Write, Unmap and Flush begin.
LEMMA IssueStage ==
  ASSUME LogInv, NEW t \in Clients, Issue(t)
  PROVE  Stage(t)'
<1>1. ASSUME NEW c, CmdRec(c), NEW step, Begin(t, c, step), Ranged(c),
             \/ step = "check" /\ c.kind = "write"
             \/ step = "ulock" /\ c.kind = "unmap"
             \/ step = "fnext" /\ "flush" \in Kinds
      PROVE  Stage(t)'
  <2>1. /\ pc'[t] = step
        /\ cmd'[t].kind = c.kind /\ cmd'[t].lba = c.lba /\ cmd'[t].end = c.end
        /\ cmd'[t].seg = c.seg
    BY <1>1, BeginSets
  <2>2. Ranged(cmd'[t])
    BY <1>1, <2>1, RangedKeeps
  <2> QED
    BY <1>1, <2>1, <2>2 DEF Stage, Flushing
<1>2. ASSUME NEW req \in Requests, NEW k \in {"write", "unmap"}, NEW c,
             c = [NoCmd EXCEPT !.kind = k, !.lba = req[1], !.end = req[1] + req[2],
                               !.id = cmds + 1, !.seg = LBAToSegmentID(req[1])]
      PROVE  CmdRec(c) /\ c.kind = k /\ Ranged(c)
  <2>1. /\ CmdRec(c) /\ c.kind = k /\ c.lba = req[1] /\ c.end = req[1] + req[2]
        /\ c.seg = LBAToSegmentID(req[1])
    BY <1>2, FreshCmd DEF CmdRec
  <2> QED
    BY <2>1, RangedStart
<1>3. ASSUME NEW req \in Requests, Write(t, req)
      PROVE  Stage(t)'
  BY <1>1, <1>2, <1>3 DEF Write
<1>4. ASSUME NEW req \in Requests, Unmap(t, req)
      PROVE  Stage(t)'
  BY <1>1, <1>2, <1>4 DEF Unmap
<1>5. ASSUME Flush(t), "flush" \in Kinds
      PROVE  Stage(t)'
  <2>1. PICK c : c = [NoCmd EXCEPT !.kind = "flush", !.id = cmds + 1]
    OBVIOUS
  <2>2. CmdRec(c) /\ c.kind = "flush"
    BY <2>1, FreshCmd DEF CmdRec
  <2>3. Ranged(c)
    BY <2>2 DEF Ranged
  <2>4. Begin(t, c, "fnext")
    BY <1>5, <2>1 DEF Flush
  <2> QED
    BY <1>1, <1>5, <2>2, <2>3, <2>4
<1> QED
  BY <1>3, <1>4, <1>5 DEF Issue

\* Which command is where, whatever the other threads do.
LEMMA ClientStage ==
  ASSUME NEW t \in Clients, ActsAlone(t), Stage(t), ClientStep(t)
  PROVE  Stage(t)'
<1>0. /\ LogInv /\ t \in Threads /\ PCShape /\ CmdShape /\ CmdRec(cmd[t]) /\ FlShape
      /\ Ranged(cmd[t])
  BY ClientStart DEF ActsAlone, Stage
<1>1. CASE RunEmergencyGC(t)
  <2>1. \A z \in Zones : ~SelectVictim(t, z, "check", "fail")
    <3>1. \A z \in Zones : SelectVictim(t, z, "check", "fail") => cycles' = cycles + 1
      BY DEF SelectVictim
    <3> QED
      BY <3>1 DEF ActsAlone
  <2>2. UNCHANGED <<cmd, fl>> /\ pc[t] = "check" /\ \E x \in {"lock", "fail"} : Goto(t, x)
    BY <1>1, <2>1 DEF RunEmergencyGC, bufVars, cmdVars
  <2> QED
    BY <1>0, <2>2, SameCommandStage
<1>2. CASE WriteLock(t)
  <2>1. /\ pc[t] = "lock" /\ UNCHANGED fl
        /\ \/ Goto(t, "log") /\ \E z : cmd' = [cmd EXCEPT ![t].zone = z]
           \/ Goto(t, "fail") /\ UNCHANGED cmd
    BY <1>2 DEF WriteLock, bufVars
  <2>2. ASSUME NEW z, cmd' = [cmd EXCEPT ![t].zone = z], Goto(t, "log")
        PROVE  Stage(t)'
    <3>1. PICK d : d = [cmd[t] EXCEPT !.zone = z]
      OBVIOUS
    <3>2. cmd'[t] = d
      BY <1>0, <2>2, <3>1 DEF CmdShape
    <3>3. d.kind = cmd[t].kind /\ d.lba = cmd[t].lba /\ d.end = cmd[t].end /\ d.seg = cmd[t].seg
      BY <1>0, <3>1 DEF CmdRec
    <3> QED
      BY <1>0, <2>1, <2>2, <3>2, <3>3, OtherLocalsStage
  <2> QED
    BY <1>0, <2>1, <2>2, SameCommandStage
<1>3. CASE WriteLog(t) \/ (UnmapLog(t) /\ ~IsUnmapped(L2PGet(l2p, cmd[t].seg)))
  <2>1. pc[t] \in {"log", "ulog"} /\ UNCHANGED fl /\ Goto(t, "set")
    BY <1>3 DEF WriteLog, UnmapLog, bufVars
  <2> DEFINE Sets(w, o, n) == \/ cmd' = [cmd EXCEPT ![t].wp = w, ![t].old = o, ![t].new = n]
                              \/ cmd' = [cmd EXCEPT ![t].old = o, ![t].new = n]
  <2>2. PICK wp, old, new : Sets(wp, old, new)
    <3> DEFINE w == zm.wp[cmd[t].zone]
               o == L2PGet(l2p, cmd[t].seg)
               n == EncodePhysAddr(cmd[t].zone, w - zoneStartLBA(cmd[t].zone))
    <3>1. WriteLog(t) => Sets(w, o, n)
      BY DEF WriteLog
    <3>2. UnmapLog(t) /\ ~IsUnmapped(o) => Sets(w, o, Unmapped)
      BY DEF UnmapLog
    <3>3. CASE WriteLog(t)
      <4> HIDE DEF Sets, w, o, n
      <4> QED
        BY <3>1, <3>3
    <3>4. CASE UnmapLog(t) /\ ~IsUnmapped(o)
      <4> HIDE DEF Sets, w, o, n
      <4> QED
        BY <3>2, <3>4
    <3> QED
      BY <1>3, <3>3, <3>4
  <2>3. PICK d : \/ d = [cmd[t] EXCEPT !.wp = wp, !.old = old, !.new = new]
                    /\ cmd' = [cmd EXCEPT ![t].wp = wp, ![t].old = old, ![t].new = new]
                 \/ d = [cmd[t] EXCEPT !.old = old, !.new = new]
                    /\ cmd' = [cmd EXCEPT ![t].old = old, ![t].new = new]
    BY <2>2
  <2>4. cmd'[t] = d
    BY <1>0, <2>3 DEF CmdShape
  <2>5. d.kind = cmd[t].kind /\ d.lba = cmd[t].lba /\ d.end = cmd[t].end /\ d.seg = cmd[t].seg
    BY <1>0, <2>3 DEF CmdRec
  <2> QED
    BY <1>0, <2>1, <2>4, <2>5, OtherLocalsStage
<1>4. CASE SetL2P(t) \/ SetL2PFails(t) \/ WriteMaps(t) \/ UnmapLock(t)
  <2>1. /\ UNCHANGED <<cmd, fl>>
        /\ \/ Goto(t, "fail")
           \/ pc[t] = "set" /\ Goto(t, IF cmd[t].kind = "write" THEN "maps" ELSE "umaps")
           \/ pc[t] = "maps" /\ Goto(t, "add")
           \/ pc[t] = "ulock" /\ Goto(t, "ulog")
    BY <1>4 DEF SetL2P, SetL2PFails, WriteMaps, UnmapLock, bufVars, cmdVars
  <2> QED
    BY <1>0, <2>1, SameCommandStage
<1>5. CASE WriteAdd(t)
  <2>1. cmd[t].kind = "write"
    BY <1>5 DEF WriteAdd, Stage
  <2>2. CASE NextSegment(t)
    BY <1>0, <2>1, <2>2, NextSegmentStage
  <2>3. CASE ~NextSegment(t)
    <3>1. PICK z : /\ fl' = [fl EXCEPT ![t] = [NoFlush EXCEPT !.zone = z, !.ret = "relock"]]
                   /\ Goto(t, "ftake") /\ UNCHANGED cmd
      BY <1>5, <2>3 DEF WriteAdd
    <3>2. pc'[t] = "ftake" /\ fl'[t] = [NoFlush EXCEPT !.zone = z, !.ret = "relock"]
      BY <1>0, <3>1, GotoMoves DEF FlShape
    <3>3. fl'[t].ret = "relock"
      BY <3>2 DEF NoFlush
    <3> QED
      BY <1>0, <2>1, <3>1, <3>2, <3>3 DEF Stage, Flushing
  <2> QED
    BY <2>2, <2>3
<1>6. CASE WriteRelock(t)
  <2>1. cmd[t].kind = "write"
    BY <1>6 DEF WriteRelock, Stage
  <2>2. CASE NextSegment(t)
    BY <1>0, <2>1, <2>2, NextSegmentStage
  <2>3. CASE ~NextSegment(t)
    <3>1. UNCHANGED cmd /\ pc'[t] = "fail"
      BY <1>0, <1>6, <2>3, GotoMoves DEF WriteRelock
    <3> QED
      BY <1>0, <3>1 DEF Stage, Flushing
  <2> QED
    BY <2>2, <2>3
<1>7. CASE UnmapMaps(t) \/ (UnmapLog(t) /\ IsUnmapped(L2PGet(l2p, cmd[t].seg)))
  <2>1. cmd[t].kind = "unmap" /\ NextUnmap(t)
    BY <1>7 DEF UnmapMaps, UnmapLog, Stage
  <2> QED
    BY <1>0, <2>1, NextUnmapStage
<1>8. CASE FlushDone(t)
  <2>1. UNCHANGED cmd /\ pc'[t] \in {"fail", "commit"}
    BY <1>0, <1>8, GotoMoves DEF FlushDone, cmdVars
  <2> QED
    BY <1>0, <2>1 DEF Stage, Flushing
<1>9. CASE Commit(t) \/ Fail(t)
  <2>1. pc'[t] = "idle" /\ cmd'[t] = NoCmd
    BY <1>0, <1>9, GotoMoves DEF Commit, Fail, End, CmdShape
  <2> QED
    BY <2>1, RangedKeeps DEF Stage, Flushing
<1> QED
  BY <1>1, <1>2, <1>3, <1>4, <1>5, <1>6, <1>7, <1>8, <1>9 DEF ClientStep

\* The same of a flush.
LEMMA FlushStage ==
  ASSUME LogInv, NEW t \in Clients, Stage(t), FlushStep(t) \/ FlushNext(t), UNCHANGED cmd
  PROVE  Stage(t)'
<1>1. t \in Threads /\ PCShape /\ FlShape /\ FlRec(fl[t])
  BY ClientStart DEF FlShape
<1>2. ASSUME NEW failed, FlushReturn(t, failed), pc[t] \in Flushing
      PROVE  Stage(t)'
  <2>1. pc'[t] = fl[t].ret
    BY <1>1, <1>2, GotoMoves DEF FlushReturn
  <2> QED
    BY <1>2, <2>1 DEF Stage, Flushing
<1>3. CASE FlushTake(t)
  <2>1. CASE buf[fl[t].zone] = NoBuffer
    BY <1>2, <1>3, <2>1 DEF FlushTake, Flushing
  <2>2. CASE buf[fl[t].zone] # NoBuffer
    <3>1. PICK w, x : fl' = [fl EXCEPT ![t].wp = w, ![t].data = x]
      BY <1>3, <2>2 DEF FlushTake
    <3>2. PICK f : f = [fl[t] EXCEPT !.wp = w, !.data = x]
      OBVIOUS
    <3>3. fl'[t] = f
      BY <1>1, <3>1, <3>2 DEF FlShape
    <3>4. f.ret = fl[t].ret
      BY <1>1, <3>2 DEF FlRec
    <3>5. pc[t] = "ftake" /\ pc'[t] = "fopen"
      BY <1>1, <1>3, <2>2, GotoMoves DEF FlushTake
    <3> QED
      BY <3>3, <3>4, <3>5 DEF Stage, Flushing
  <2> QED
    BY <2>1, <2>2
<1>4. CASE FlushOpen(t) \/ FlushWrite(t) \/ FlushPoint(t)
  <2>1. /\ pc[t] \in Flushing
        /\ \/ \E x \in {"fwrite", "fpoint"} : Goto(t, x) /\ UNCHANGED fl
           \/ \E failed : FlushReturn(t, failed)
    BY <1>4 DEF FlushOpen, FlushWrite, FlushPoint, Flushing
  <2>2. ASSUME NEW x \in {"fwrite", "fpoint"}, Goto(t, x), UNCHANGED fl
        PROVE  Stage(t)'
    BY <2>1, <2>2, SameCommandStage DEF Flushing
  <2> QED
    BY <1>2, <2>1, <2>2
<1>5. CASE FlushNext(t)
  <2>1. pc[t] = "fnext" /\ pc'[t] = "ftake"
    BY <1>1, <1>5, GotoMoves DEF FlushNext
  <2>2. PICK z : fl' = [fl EXCEPT ![t].zone = z, ![t].todo = @ \ {z}, ![t].ret = "fnext"]
    BY <1>5 DEF FlushNext
  <2>3. PICK f : f = [fl[t] EXCEPT !.zone = z, !.todo = @ \ {z}, !.ret = "fnext"]
    OBVIOUS
  <2>4. fl'[t] = f
    BY <1>1, <2>2, <2>3 DEF FlShape
  <2>5. f.ret = "fnext"
    BY <1>1, <2>3 DEF FlRec
  <2> QED
    BY <2>1, <2>4, <2>5 DEF Stage, Flushing
<1> QED
  BY <1>3, <1>4, <1>5 DEF FlushStep

\* One record more, of a segment of the table or of none.
LEMMA ReplayableGrows ==
  ASSUME IsSeq(wal), Replayable(wal), NEW x, wal' = Append(wal, x),
         x.kind = "L2P" => x.seg \in SegIDs
  PROVE  Replayable(wal')
<1>1. /\ Len(wal) \in Nat /\ Len(wal') = Len(wal) + 1 /\ wal'[Len(wal) + 1] = x
      /\ \A i \in 1 .. Len(wal) : wal'[i] = wal[i]
  BY AppendGrows
<1> QED
  BY <1>1 DEF Replayable

\* Every record names a segment the table has, before the first collection and
\* whatever flushes run beside the clients.
RangeInv == cycles = 0 => (\A t \in Clients : Stage(t)) /\ Replayable(wal)

\* What a client logs.
LEMMA ClientRecords ==
  ASSUME InRange, NEW t \in Clients, ActsAlone(t), Stage(t), Replayable(wal)
  PROVE  Replayable(wal')
<1>0. IsSeq(wal) /\ LogInv
  BY ClientStart DEF ActsAlone, LogShape
<1>1. CASE WriteLock(t)
  <2>1. wal' = wal \/ \E z : wal' = Append(wal, ZoneOpenRecord(z))
    BY <1>1 DEF WriteLock, LogZoneOpen
  <2>2. \A z : ZoneOpenRecord(z).kind # "L2P"
    BY DEF ZoneOpenRecord
  <2> QED
    BY <1>0, <2>1, <2>2, ReplayableGrows
<1>2. CASE WriteLog(t) \/ UnmapLog(t)
  <2>1. cmd[t].seg \in SegIDs
    BY <1>2, SegmentInTable DEF WriteLog, UnmapLog, Stage
  <2>2. wal' = wal \/ \E old, new : wal' = Append(wal, L2PRecord(cmd[t].seg, old, new))
    BY <1>2 DEF WriteLog, UnmapLog, LogL2PUpdate
  <2>3. \A old, new : L2PRecord(cmd[t].seg, old, new).seg = cmd[t].seg
    BY DEF L2PRecord
  <2> QED
    BY <1>0, <2>1, <2>2, <2>3, ReplayableGrows
<1>3. CASE ~WriteLock(t) /\ ~WriteLog(t) /\ ~UnmapLog(t)
  <2>1. RunEmergencyGC(t) => UNCHANGED wal
    BY DEF RunEmergencyGC, SelectVictim, mapVars
  <2>2. UNCHANGED wal
    BY <1>3, <2>1 DEF ActsAlone, ClientStep, SetL2P, SetL2PFails, WriteMaps, WriteAdd, WriteRelock,
       UnmapLock, UnmapMaps, FlushDone, Commit, Fail, Issue, Write, Unmap, Flush, FlushStep,
       FlushTake, FlushOpen, FlushWrite, FlushPoint, FlushNext, mapVars
  <2> QED
    BY <2>2
<1> QED
  BY <1>1, <1>2, <1>3

LEMMA RangeSteps ==
  ASSUME InRange, TableInv, LogInv, RangeInv, [Next]_vars
  PROVE  RangeInv'
<1> SUFFICES ASSUME cycles' = 0
             PROVE  (\A t \in Clients : Stage(t)') /\ Replayable(wal')
  BY DEF RangeInv
<1>1. CASE UNCHANGED vars
  <2>1. UNCHANGED <<pc, cycles, wal, cmd, fl>>
    BY <1>1 DEF vars, mapVars, gcVars, cmdVars
  <2> QED
    BY <2>1 DEF RangeInv, Stage
<1>2. CASE Next
  <2>1. /\ cycles = 0
        /\ \/ \E t \in Clients : ActsAlone(t)
           \/ \E t \in Flushers : FlusherWork(t)
    BY <1>2, NotCollecting DEF TableInv, Quiet, ActsAlone
  <2>2. (\A t \in Clients : Stage(t)) /\ Replayable(wal)
    BY <2>1 DEF RangeInv
  <2>3. ASSUME NEW t \in Clients, ActsAlone(t)
        PROVE  (\A u \in Clients : Stage(u)') /\ Replayable(wal')
    <3>1. t \in Threads
      BY ClientsAreThreads
    <3>2. Fine(t)
      BY <2>3, <3>1, IssueFine, ClientStepFine, FlushStepFine, FlushNextFine DEF ActsAlone
    <3>3. Stage(t)'
      BY <2>2, <2>3, IssueStage, ClientStage, FlushStage DEF ActsAlone, cmdVars
    <3>4. ASSUME NEW u \in Clients \ {t}
          PROVE  Stage(u)'
      <4>1. pc'[u] = pc[u] /\ cmd'[u] = cmd[u] /\ fl'[u] = fl[u]
        BY <2>3, <3>2, OthersFl, ClientsAreThreads DEF ActsAlone, Fine, Others
      <4>2. Stage(u)
        BY <2>2
      <4> QED
        BY <4>1, <4>2 DEF Stage
    <3> QED
      BY <2>2, <2>3, <3>3, <3>4, ClientRecords
  <2>4. ASSUME NEW f \in Flushers, FlusherWork(f)
        PROVE  (\A u \in Clients : Stage(u)') /\ Replayable(wal')
    <3>1. f \in Threads /\ f \notin Clients
      BY ThreadAssumption DEF Threads
    <3>2. UNCHANGED <<wal, cmd>>
      BY <2>4 DEF FlusherWork, flushAged, flushAgedDone, FlushStep, FlushTake, FlushOpen,
         FlushWrite, FlushPoint, FlushNext, mapVars, cmdVars
    <3>3. Others(f)
      BY <2>4, <3>1, flushAgedFine, FlushStepFine, FlushNextFine DEF FlusherWork, Fine
    <3>4. FlShape
      BY DEF LogInv, Shapes
    <3>5. fl' = fl \/ \E x : fl' = [fl EXCEPT ![f] = x]
      BY <2>4 DEF FlusherWork, flushAged, flushAgedDone, FlushStep, FlushTake, FlushOpen,
         FlushWrite, FlushPoint, FlushNext, FlushReturn
    <3>6. ASSUME NEW u \in Clients
          PROVE  Stage(u)'
      <4>1. u \in Threads /\ u # f
        BY <3>1, ClientsAreThreads
      <4>2. pc'[u] = pc[u] /\ cmd'[u] = cmd[u] /\ fl'[u] = fl[u]
        BY <3>2, <3>3, <3>4, <3>5, <4>1 DEF Others, FlShape
      <4>3. Stage(u)
        BY <2>2
      <4> QED
        BY <4>2, <4>3 DEF Stage
    <3> QED
      BY <2>2, <3>2, <3>6
  <2> QED
    BY <2>1, <2>3, <2>4
<1> QED
  BY <1>1, <1>2

LEMMA RangeInitially == Init => RangeInv
<1> SUFFICES ASSUME Init
             PROVE  (\A t \in Clients : Stage(t)) /\ Replayable(wal)
  BY DEF RangeInv
<1>1. /\ \A t \in Clients : pc[t] = "idle" /\ cmd[t] = NoCmd
      /\ wal = << >>
  BY ClientsAreThreads DEF Init, BufInit, MapInit
<1>2. \A t \in Clients : Stage(t)
  BY <1>1, RangedKeeps DEF Stage, Flushing
<1> QED
  BY <1>1, <1>2 DEF Replayable

LEMMA RangeInvariant ==
  ASSUME InRange
  PROVE  Spec => []RangeInv
<1>1. RangeInv /\ TableInv /\ LogInv /\ [Next]_vars => RangeInv'
  BY RangeSteps
<1> QED
  BY <1>1, RangeInitially, TableInvariant, LogInvariant, PTL DEF Spec

\* REQ-NFR-03: however writes, unmaps and flushes interleave, until the first
\* collection Recover gets through the log and rebuilds the L2P table from it
\* once nothing is running, if no request reaches beyond the table (which
\* nothing in the code checks: see ZTL's InRange).
THEOREM LogRebuildsTable ==
  ASSUME InRange
  PROVE  Spec => [](cycles = 0 => ReplayMatches)
<1>1. TableInv /\ RangeInv => (cycles = 0 => ReplayMatches)
  BY ReplayedAtRest DEF RangeInv, ReplayMatches, Settled
<1> QED
  BY <1>1, RangeInvariant, TableInvariant, PTL

-----------------------------------------------------------------------------
(* The theorem about the tables *)

\* Every step before the first collection.
LEMMA PlaceSteps ==
  ASSUME AddressesFit, FlushesAlone, TableInv, TableInv', LogInv, DataInv, Next,
         cycles = 0 => PlaceInv
  PROVE  cycles' = 0 => cycles = 0 /\ PlacesKept
<1> SUFFICES ASSUME cycles' = 0
             PROVE  cycles = 0 /\ PlacesKept
  OBVIOUS
<1>1. PICK t \in Clients : /\ UNCHANGED cycles
                           /\ \/ Issue(t) \/ ClientStep(t)
                              \/ (FlushStep(t) \/ FlushNext(t)) /\ UNCHANGED <<gcVars, cmdVars>>
  BY NotCollecting DEF TableInv, FlushesAlone
<1>2. cycles \in Nat /\ cycles = 0 /\ PlaceInv
  BY NotCollecting DEF TableInv, Quiet
<1>3. t \in Threads
  BY ClientsAreThreads
<1>4. Fine(t)
  BY <1>1, <1>3, IssueFine, ClientStepFine, FlushStepFine, FlushNextFine
<1>5. Start(t)
  BY <1>1, <1>2, <1>4, OthersFl DEF Start, OnlyMoves, Fine, TableInv
<1>6. CASE Issue(t)
  BY <1>2, <1>5, <1>6, IssuePlaces
<1>7. CASE ClientStep(t)
  BY <1>1, <1>2, <1>5, <1>7, OutsidePlaces, WriteLockPlaces, WriteLogPlaces, SetL2PPlaces,
     WriteMapsPlaces, WriteAddPlaces, UnmapLogPlaces, UnmapMapsPlaces DEF ClientStep
<1>8. CASE (FlushStep(t) \/ FlushNext(t)) /\ UNCHANGED <<gcVars, cmdVars>>
  BY <1>2, <1>5, <1>8, FlushTakePlaces, FlushingPlaces, FlushNextPlaces DEF FlushStep
<1> QED
  BY <1>1, <1>2, <1>6, <1>7, <1>8

\* Nothing changes.
LEMMA PlaceStutter ==
  ASSUME UNCHANGED vars
  PROVE  (PlaceInv => PlaceInv') /\ TablesFollow
<1>1. UNCHANGED <<zm, l2p, p2l, buf, pc, fl, mu, cur, cmd>>
  BY DEF vars, mapVars, gcVars, cmdVars
<1>2. (\A t \in Clients : Mine(t)) => \A t \in Clients : Mine(t)'
  BY <1>1 DEF Mine, Stage, Writes, Updating, Flushes
<1>3. (Apart => Apart') /\ (BufferEnds => BufferEnds') /\ (FreeZones => FreeZones')
  BY <1>1 DEF Apart, Adding, BufferEnds, BufferEnd, FreeZones, Within
<1>4. TablesFollow
  BY <1>1, InvertedFrame DEF Calm, Followed
<1> QED
  BY <1>2, <1>3, <1>4 DEF PlaceInv

\* The process has just started.
LEMMA FreshPlaces == Fresh => PlaceInv /\ Backed
<1> SUFFICES ASSUME Fresh
             PROVE  PlaceInv /\ Backed
  OBVIOUS
<1>1. /\ \A t \in Clients : pc[t] = "idle" /\ cmd[t] = NoCmd
      /\ \A z \in Zones : buf[z] = NoBuffer
      /\ p2l = {} /\ ~cur.open
  BY ClientsAreThreads DEF Fresh
<1>2. \A t \in Clients : Mine(t)
  <2>1. ASSUME NEW t \in Clients
        PROVE  Mine(t)
    <3>1. Stage(t)
      BY <1>1, RangedKeeps DEF Stage, Flushing
    <3> QED
      BY <1>1, <3>1 DEF Mine, Writes, Updating, Flushes, Flushing
  <2> QED
    BY <2>1
<1>3. Apart /\ BufferEnds
  BY <1>1 DEF Apart, BufferEnds, Flushing
<1>4. FreeZones
  <2>1. zm.wp = [z \in Zones |-> dev.wp[z]] /\ zm.free = Ascending({z \in Zones : dev.st[z] = "EMPTY"})
    BY Initialized DEF Fresh
  <2>2. \A z \in Zones : ZoneOK(dev, z)
    BY DEF Fresh, Good
  <2>3. Within(zm.wp)
    BY <2>1, <2>2 DEF Within, ZoneOK
  <2>4. /\ NoDup(zm.free)
        /\ \A z \in Zones : Contains(zm.free, z) => dev.st[z] = "EMPTY"
    <3> DEFINE E == {z \in Zones : dev.st[z] = "EMPTY"}
    <3>1. zm.free = Ascending(E) /\ E \subseteq Zones
      BY <2>1
    <3>2. \A z \in E : dev.st[z] = "EMPTY"
      OBVIOUS
    <3> HIDE DEF E
    <3> QED
      BY <3>1, <3>2, AscendingLists DEF NoDup, Contains
  <2> QED
    BY <1>1, <2>1, <2>2, <2>3, <2>4 DEF FreeZones, ZoneOK
<1> QED
  BY <1>1, <1>2, <1>3, <1>4 DEF PlaceInv, Backed

\* The initial state: no segment is mapped.
LEMMA PlaceInitially == Init => PlaceInv /\ Inverted
<1> SUFFICES ASSUME Init
             PROVE  Inverted
  BY InitFresh, FreshPlaces
<1>1. l2p = [s \in SegIDs |-> Unmapped] /\ p2l = {}
  BY DEF Init, MapInit
<1>2. zm.valid = [z \in Zones |-> 0]
  BY Initialized DEF Init
<1>3. Followed = l2p
  BY NoOneIsNone DEF Followed, Init
<1>4. p2l = InverseOf(l2p) /\ Injective(l2p) /\ AllPlaced(l2p, zm.wp)
  BY <1>1 DEF InverseOf, Injective, AllPlaced
<1>5. \A z \in Zones : Cardinality(P2LZone(p2l, z)) = 0
  BY <1>1, FS_EmptySet DEF P2LZone
<1>6. zm.valid = CountsOf(p2l)
  BY <1>2, <1>5 DEF CountsOf
<1> QED
  BY <1>3, <1>4, <1>6 DEF Inverted, Exact

\* Until the first collection, every address that is given to a segment is a
\* fresh one, and P2L and the counts follow the table.
LEMMA InvertedInvariant ==
  ASSUME AddressesFit, FlushesAlone
  PROVE  Spec => [](cycles = 0 => PlaceInv /\ Inverted)
<1> DEFINE Inv == cycles = 0 => PlaceInv /\ Inverted
<1>1. Init => Inv
  BY PlaceInitially
<1>2. Inv /\ TableInv /\ TableInv' /\ LogInv /\ DataInv /\ [Next]_vars => Inv'
  <2>1. ASSUME Inv, UNCHANGED vars
        PROVE  Inv'
    <3>1. cycles' = cycles
      BY <2>1 DEF vars, gcVars
    <3> QED
      BY <2>1, <3>1, PlaceStutter DEF TablesFollow
  <2> QED
    BY <2>1, PlaceSteps DEF PlacesKept, TablesFollow
<1> HIDE DEF Inv
<1>3. Spec => []Inv
  BY <1>1, <1>2, TableInvariant, LogInvariant, DataInvariant, PTL DEF Spec
<1> QED
  BY <1>3 DEF Inv

LEMMA PlaceInvariant ==
  ASSUME AddressesFit, FlushesAlone
  PROVE  Spec => [](cycles = 0 => PlaceInv)
  BY InvertedInvariant, PTL

\* P2L is the exact inverse of L2P, no two segments share an address and every
\* zone's ValidSegs is right, for any geometry the packed address can hold and
\* any clients and requests: until the first collection, without an age loop,
\* and with SYNCHRONIZE CACHE only where no second client writes beside it.
THEOREM TablesStayExact ==
  ASSUME AddressesFit, FlushesAlone
  PROVE  Spec => [](cycles = 0 => TablesAgree)
<1>1. TableInv /\ (cycles = 0 => PlaceInv /\ Inverted) => (cycles = 0 => TablesAgree)
  <2> SUFFICES ASSUME TableInv, PlaceInv, Inverted, Idle, Contains(zm.free, 0)
               PROVE  /\ p2l = {<<l2p[s], s>> : s \in {x \in SegIDs : ~IsUnmapped(l2p[x])}}
                      /\ \A r, s \in SegIDs : r # s /\ l2p[r] = l2p[s] => IsUnmapped(l2p[r])
                      /\ \A z \in Zones : zm.valid[z] = Cardinality(P2LZone(p2l, z))
    BY DEF TablesAgree, Settled
  <2>1. Followed = l2p
    BY ClientsAreThreads DEF Followed, Idle
  <2>2. Exact(l2p, p2l, zm)
    BY <2>1 DEF PlaceInv, Inverted
  <2>3. p2l = {<<l2p[s], s>> : s \in {x \in SegIDs : l2p[x] # Unmapped}}
    BY <2>2 DEF Exact, InverseOf
  <2>4. \A z \in Zones : zm.valid[z] = Cardinality(P2LZone(p2l, z))
    BY <2>2 DEF Exact, CountsOf
  <2> QED
    BY <2>2, <2>3, <2>4 DEF Exact, Injective, IsUnmapped
<1> QED
  BY <1>1, TableInvariant, InvertedInvariant, PTL
=============================================================================
