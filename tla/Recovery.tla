------------------------------ MODULE Recovery ------------------------------
(***************************************************************************)
(* Crash and restart of the stack.  cmd/zns-iscsi/main.go opens the        *)
(* journal, builds the translation layer on the device, runs               *)
(* journal.Recover and only then serves initiators.  The collector and the *)
(* age loop already run by then, but find no victim (every TotalSegs is 0) *)
(* and no buffer, and Recover writes neither log nor device, so a restart  *)
(* is one step.                                                            *)
(*                                                                         *)
(* It is the process that crashes: the drive keeps what was written to it  *)
(* and the conditions of its zones, the journal's file every record that   *)
(* was committed and any number of those appended since (the group commit  *)
(* loop, or the operating system, may have written them).  A clean         *)
(* shutdown (main.go's z.Flush before it exits) is a flush and a crash.    *)
(*                                                                         *)
(* Recover may fail: it returns an error at a record whose segment the     *)
(* table does not have, main exits, and so does every later start.  `up'   *)
(* is FALSE from then on.                                                  *)
(*                                                                         *)
(* Ghosts, for a single client:                                            *)
(*   dirty      LBAs written or unmapped since the last SYNCHRONIZE CACHE  *)
(*              that succeeded                                             *)
(*   lost       LBAs that were dirty at a crash and no command has written *)
(*              or unmapped since: nothing is promised of them             *)
(*   unsettled  LBAs whose segment the collector was moving at a crash     *)
(***************************************************************************)
EXTENDS ZTL

CONSTANT MaxRestarts   \* bound on the crashes of one behaviour

ASSUME RecoveryAssumption ==
  /\ MaxRestarts \in Nat
  /\ \E t \in Clients : Clients = {t}

VARIABLES
  up,                     \* the process serves, or may start again
  restarts,
  dirty, lost, unsettled

ghosts == <<dirty, lost, unsettled>>
rvars  == <<vars, up, restarts, ghosts>>

-----------------------------------------------------------------------------
(* journal.Recover *)

\* The zones of the ZONE_RESET records, in the order of the log.
ResetZones(log) ==
  LET at == Ascending({i \in 1 .. Len(log) : log[i].kind = "RESET"})
  IN [n \in DOMAIN at |-> log[at[n]].zone]

\* Conditions and pointers are the device's again; the free list, the list of
\* open zones and the counts stay as they are.
ReconcileFromDevice(m, d) ==
  LET desc == ReportZones(d, 0, 0)
  IN [m EXCEPT !.st = [z \in Zones |-> desc[z].state], !.wp = [z \in Zones |-> desc[z].wp]]

\* A mutant of RecoveredZM: the zone manager is not reconciled.
RecoveredZMStale(log, d) == FoldLeft(MarkEmpty, Initialize(d), ResetZones(log))

\* The zone manager that New has initialised, after Recover: MarkEmpty for every
\* reset record, whatever has become of the zone since.
RecoveredZM(log, d) ==
  ReconcileFromDevice(FoldLeft(MarkEmpty, Initialize(d), ResetZones(log)), d)

\* A mutant of RecoveredL2P: the last record is left out.
RecoveredL2PShort(log) == Replay(IF log = << >> THEN log ELSE Front(log))

\* The L2P table after a Recover that gets through the log (Replayable).  P2L
\* and the counts of segments are not rebuilt.
RecoveredL2P(log) == Replay(log)

\* The process starts with what is left of the log, and serves if Recover does
\* not fail.
Restart(log) ==
  /\ up' = Replayable(log)
  /\ wal' = log
  /\ durable' = Len(log)
  /\ l2p' = RecoveredL2P(log)
  /\ p2l' = {}
  /\ zm' = RecoveredZM(log, dev)
  /\ buf' = [z \in Zones |-> NoBuffer]
  /\ pc' = [t \in Threads |-> "idle"]
  /\ fl' = [t \in Threads |-> NoFlush]
  /\ gc' = [t \in Threads |-> NoGC]
  /\ mu' = NoOne
  /\ cur' = [zone |-> 0, open |-> FALSE]
  /\ cmd' = [t \in Clients |-> NoCmd]
  /\ UNCHANGED <<dev, cycles, cmds, promised>>

\* The LBAs for which the log that is left ends with a migration that had not
\* been applied to the table: the copy may not have been written, or a
\* foreground write may have overtaken it.
Moving(log) ==
  {a \in LBAs \ dirty :
     LET seg == LBAToSegmentID(a)
     IN /\ seg \in SegIDs
        /\ Replay(wal)[seg] # l2p[seg]
        /\ Replay(log)[seg] = Replay(wal)[seg]}

Crash ==
  /\ up
  /\ restarts < MaxRestarts
  /\ restarts' = restarts + 1
  /\ \E k \in durable .. Len(wal) :
       LET left == SubSeq(wal, 1, k)
       IN Restart(left) /\ unsettled' = unsettled \union Moving(left)
  /\ lost' = lost \union dirty
  /\ dirty' = {}

-----------------------------------------------------------------------------
(* The ghosts *)

Ended(t)   == pc[t] # "idle" /\ pc'[t] = "idle" /\ pc[t] # "fail"
Touched(c) == {a \in LBAs : Touches(c, a)}

\* A flush that succeeds cleans everything; a command that begins makes its
\* range dirty; one that succeeds settles it.
Track ==
  \E t \in Clients :
    /\ dirty' = IF Ended(t) /\ cmd[t].kind = "flush" THEN {}
                ELSE dirty \union Touched(cmd'[t])
    /\ lost' = IF Ended(t) THEN lost \ Touched(cmd[t]) ELSE lost
    /\ unsettled' = IF Ended(t) THEN unsettled \ Touched(cmd[t]) ELSE unsettled

RInit ==
  /\ Init
  /\ up = TRUE
  /\ restarts = 0
  /\ dirty = {}
  /\ lost = {}
  /\ unsettled = {}

RNext ==
  \/ up /\ Next /\ Track /\ UNCHANGED <<up, restarts>>
  \/ Crash

RSpec == RInit /\ [][RNext]_rvars

-----------------------------------------------------------------------------
(* Properties *)

\* Reading LBA a gives what a command promised of it.
ReadsBack(a) ==
  /\ Read(a, a + 1, a) # {}
  /\ Read(a, a + 1, a) \subseteq {m[2] : m \in promised[a]}

\* REQ-GC-06: "a crash mid-GC can be recovered without data loss".  However
\* often the process has crashed, in the middle of whatever step, it starts, and
\* an LBA that was flushed before the crash or written after it reads back.
FlushedSurvives == up /\ (Settled => \A a \in LBAs \ lost : ReadsBack(a))

\* The same for all LBAs but those whose segment was being moved at a crash.
SettledSurvives ==
  up /\ (Settled => \A a \in LBAs \ (lost \union unsettled) : ReadsBack(a))

\* Recover rebuilds neither P2L nor the counts, and an L2P entry whose data
\* died in the buffer may point at an address that is written again.  Still,
\* what the collector finds in P2L the table has at that very address, and no
\* two segments of which something is promised share one.
TablesAfterCrash ==
  Settled =>
    /\ \A e \in p2l : l2p[e[2]] = e[1]
    /\ \A a, b \in LBAs \ lost :
         LET r == LBAToSegmentID(a)
             s == LBAToSegmentID(b)
         IN r # s /\ L2PGet(l2p, r) = L2PGet(l2p, s) => IsUnmapped(L2PGet(l2p, r))
=============================================================================
