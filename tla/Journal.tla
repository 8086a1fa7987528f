------------------------------ MODULE Journal ------------------------------
(***************************************************************************)
(* internal/journal: the write-ahead log, and what a restart rebuilds from *)
(* it.  ZTL.tla takes an append and a commit as one step each; here the    *)
(* log has its parts:                                                      *)
(*   pending   records appended in memory, in j.pending                    *)
(*   file      what write(2) has put into the file, in order               *)
(*   synced    how long a prefix of the file fsync has made stable         *)
(* and GroupCommit gives up j.mu between writing the file and fsync.       *)
(*                                                                         *)
(* Writers are the goroutines of ZTL.Write: under ztl.mu one takes an LSN, *)
(* appends an L2P record and stores the L2P entry; after ztl.mu it calls   *)
(* GroupCommit, and acknowledges the command when that returns.  Loggers   *)
(* append zone records and commit, without ztl.mu, as the collector does,  *)
(* or write a checkpoint.  Committers are the periodic group-commit loop.  *)
(*                                                                         *)
(* WriteCheckpoint has no caller in the program yet, and takes no lock     *)
(* while it copies the table.  Its callers in the tests run it while       *)
(* nothing is being written: that is QuietCheckpoints.                     *)
(*                                                                         *)
(* Updates are numbered in the order ztl.mu admits them; the number stands *)
(* for the new address and table[s] is the update segment s shows.         *)
(*                                                                         *)
(* A process crash loses pending and the tables and keeps the file.  When  *)
(* PowerLoss is TRUE a crash also loses any part of the file beyond the    *)
(* synced prefix, and may leave a torn record at the cut.                  *)
(***************************************************************************)
EXTENDS Integers, FiniteSets, SequencesExt

CONSTANTS
  Writers, Loggers, Committers,   \* goroutines
  Segs,                           \* logical segments
  MaxUpdates,                     \* bound on the L2P updates of a behaviour
  MaxZoneRecords,                 \* bound on the zone records and checkpoints
  MaxCrashes,                     \* bound on the crashes
  PowerLoss,                      \* a crash loses what fsync has not covered
  QuietCheckpoints,               \* no update is under way during Snapshot
  NoOne                           \* ztl.mu is free

ASSUME JournalAssumption ==
  /\ Writers \intersect Loggers = {}
  /\ Writers \intersect Committers = {}
  /\ Loggers \intersect Committers = {}
  /\ {MaxUpdates, MaxZoneRecords, MaxCrashes} \subseteq Nat
  /\ {PowerLoss, QuietCheckpoints} \subseteq BOOLEAN
  /\ NoOne \notin Writers \union Loggers
  /\ Segs # {}

VARIABLES
  lsn, pending, file, synced,   \* the journal
  table,                        \* the L2P table
  mu,                           \* the holder of ztl.mu, or the quiet checkpoint
  pc, rec,                      \* each thread's step, and its record
  issued,                       \* issued[u]: the segment of update u
  zoned, crashes,               \* counters for the bounds
  acked                         \* ghost: the updates acknowledged

logVars == <<lsn, pending, file, synced>>
vars    == <<logVars, table, mu, pc, rec, issued, zoned, crashes, acked>>

Threads == Writers \union Loggers \union Committers

NoSnap    == << >>   \* a function with no entry copied
NoRec     == [kind |-> "none", lsn |-> 0, id |-> 0, snap |-> NoSnap]
TornEntry == [NoRec EXCEPT !.kind = "torn"]

Goto(t, step) == pc' = [pc EXCEPT ![t] = step]

-----------------------------------------------------------------------------
(* Reading the file back *)

\* readRecords stops at the first entry that does not check: what follows a torn
\* record is never replayed.
Readable(f) ==
  LET torn == {i \in DOMAIN f : f[i].kind = "torn"}
  IN IF torn = {} THEN f ELSE SubSeq(f, 1, Min(torn) - 1)

\* scanMaxLSN goes on behind an entry whose checksum is wrong, so it may or may
\* not count records there, depending on where the tear leaves the framing: the
\* LSNs it may return.
scanMaxLSN(f) ==
  {n \in {0} \union {f[i].lsn : i \in DOMAIN f} :
     \A i \in DOMAIN Readable(f) : Readable(f)[i].lsn <= n}

Checkpoints(f) == {f[i] : i \in {j \in DOMAIN f : f[j].kind = "checkpoint"}}

\* The checkpoint with the largest LSN, wherever it is in the file.
ReadLatestCheckpoint(f) ==
  CHOOSE c \in Checkpoints(f) : \A d \in Checkpoints(f) : d.lsn <= c.lsn

\* What replay starts from: the latest checkpoint, or an empty table.
LoadSnapshot(f) ==
  IF Checkpoints(f) = {} THEN [NoRec EXCEPT !.snap = [s \in Segs |-> 0]]
  ELSE ReadLatestCheckpoint(f)

\* A mutant of Last2P: replay starts behind the checkpoint's place in the file.
Last2PBehind(f, s, c) ==
  {i \in DOMAIN f : /\ f[i].kind = "L2P" /\ issued[f[i].id] = s
                    /\ \A j \in DOMAIN f : f[j] = c => j < i}

\* The L2P records of segment s that are replayed on top of checkpoint c.
Last2P(f, s, c) ==
  {i \in DOMAIN f : f[i].kind = "L2P" /\ f[i].lsn > c.lsn /\ issued[f[i].id] = s}

\* Recover's replay, in file order: the last such record, or the checkpoint's entry.
Replay(f) ==
  LET c == LoadSnapshot(f)
  IN [s \in Segs |-> IF Last2P(f, s, c) = {} THEN c.snap[s] ELSE f[Max(Last2P(f, s, c))].id]

-----------------------------------------------------------------------------
(* LogL2PUpdate, logZoneAction, WriteCheckpoint: the LSN is taken before j.mu *)

TakeLSN(t, kind, id, step) ==
  /\ lsn' = lsn + 1
  /\ rec' = [rec EXCEPT ![t] = [NoRec EXCEPT !.kind = kind, !.lsn = lsn + 1, !.id = id]]
  /\ Goto(t, step)
  /\ UNCHANGED <<pending, file, synced, table, crashes, acked>>

LogL2PUpdate(t, s) ==
  /\ pc[t] = "idle"
  /\ mu = NoOne
  /\ Len(issued) < MaxUpdates
  /\ mu' = t
  /\ issued' = Append(issued, s)
  /\ TakeLSN(t, "L2P", Len(issued) + 1, "append")
  /\ UNCHANGED zoned

LogZoneAction(t) ==
  /\ pc[t] = "idle"
  /\ zoned < MaxZoneRecords
  /\ zoned' = zoned + 1
  /\ TakeLSN(t, "zone", 0, "append")
  /\ UNCHANGED <<mu, issued>>

WriteCheckpoint(t) ==
  /\ pc[t] = "idle"
  /\ zoned < MaxZoneRecords
  /\ zoned' = zoned + 1
  /\ mu = NoOne \/ ~QuietCheckpoints
  /\ mu' = IF QuietCheckpoints THEN t ELSE mu
  /\ TakeLSN(t, "checkpoint", 0, "snap")
  /\ UNCHANGED issued

\* The entries are loaded one by one, always in the same order.
Snapshot(t) ==
  /\ pc[t] = "snap"
  /\ LET s    == CHOOSE s \in Segs : s \notin DOMAIN rec[t].snap
         snap == [r \in DOMAIN rec[t].snap \union {s} |->
                    IF r = s THEN table[s] ELSE rec[t].snap[r]]
     IN /\ rec' = [rec EXCEPT ![t].snap = snap]
        /\ Goto(t, IF DOMAIN snap = Segs THEN "append" ELSE "snap")
        /\ mu' = IF DOMAIN snap = Segs /\ mu = t THEN NoOne ELSE mu
  /\ UNCHANGED <<logVars, table, issued, zoned, crashes, acked>>

\* Under j.mu.  Only a writer's record changes the table.
appendRecord(t) ==
  /\ pc[t] = "append"
  /\ pending' = Append(pending, rec[t])
  /\ Goto(t, IF t \in Writers THEN "apply" ELSE "drain")
  /\ UNCHANGED <<lsn, file, synced, table, mu, rec, issued, zoned, crashes, acked>>

\* l2p.Set by the writer that logged the update; it then leaves ztl.mu.
Apply(t) ==
  /\ pc[t] = "apply"
  /\ table' = [table EXCEPT ![issued[rec[t].id]] = rec[t].id]
  /\ mu' = NoOne
  /\ Goto(t, "drain")
  /\ UNCHANGED <<logVars, rec, issued, zoned, crashes, acked>>

-----------------------------------------------------------------------------
(* GroupCommit *)

\* The caller returns; a writer acknowledges its command.
Return(t) ==
  /\ acked' = IF t \in Writers THEN acked \union {rec[t].id} ELSE acked
  /\ rec' = [rec EXCEPT ![t] = NoRec]
  /\ Goto(t, "idle")

\* The file once every pending record has been written and flushed.
DrainTo(f, p) == f \o p

\* The part under j.mu.  With nothing pending there is nothing to wait for.
Drain(t) ==
  /\ pc[t] = "drain"
  /\ \/ /\ pending = << >>
        /\ Return(t)
        /\ UNCHANGED <<pending, file>>
     \/ /\ pending # << >>
        /\ file' = DrainTo(file, pending)
        /\ pending' = << >>
        /\ Goto(t, "sync")
        /\ UNCHANGED <<acked, rec>>
  /\ UNCHANGED <<lsn, synced, table, mu, issued, zoned, crashes>>

\* A mutant of Sync: the records appended since the drain are taken for synced.
SyncPending(t) ==
  /\ pc[t] = "sync"
  /\ synced' = Len(file) + Len(pending)
  /\ Return(t)
  /\ UNCHANGED <<lsn, pending, file, table, mu, issued, zoned, crashes>>

\* A mutant of Sync: the file is written and never synced.
SyncSkipped(t) ==
  /\ pc[t] = "sync"
  /\ Return(t)
  /\ UNCHANGED <<lsn, pending, file, synced, table, mu, issued, zoned, crashes>>

\* fsync, outside j.mu: everything written so far is stable when it returns.
Sync(t) ==
  /\ pc[t] = "sync"
  /\ synced' = Len(file)
  /\ Return(t)
  /\ UNCHANGED <<lsn, pending, file, table, mu, issued, zoned, crashes>>

\* StartGroupCommitLoop's tick.
Tick(t) ==
  /\ pc[t] = "idle"
  /\ pending # << >>
  /\ Goto(t, "drain")
  /\ UNCHANGED <<logVars, table, mu, rec, issued, zoned, crashes, acked>>

-----------------------------------------------------------------------------
(* Crash, and the restart that follows: Open, then Recover *)

\* What a power loss may leave of the file.
Surviving(f) ==
  {SubSeq(f, 1, k) : k \in synced .. Len(f)}
    \union {Append(SubSeq(f, 1, k), TornEntry) : k \in synced .. Len(f) - 1}

\* A mutant of Restored: the table is rebuilt from the LSN order backwards,
\* so that the first record of a segment wins.
RestoredFirstWins(f) ==
  LET r == Readable(f)
      c == LoadSnapshot(r)
  IN [s \in Segs |-> IF Last2P(r, s, c) = {} THEN c.snap[s] ELSE r[Min(Last2P(r, s, c))].id]

Restored(f) == Replay(Readable(f))

\* A mutant of RestoredLSN: the counter restarts at zero.
RestoredLSNZero(f) == {0}

\* The LSNs the journal may continue from: one, unless a record is torn.
RestoredLSN(f) == scanMaxLSN(f)

Crash ==
  /\ crashes < MaxCrashes
  /\ crashes' = crashes + 1
  /\ \E f \in (IF PowerLoss THEN Surviving(file) ELSE {file}) :
       /\ file' = f
       /\ synced' = IF PowerLoss THEN Len(f) ELSE synced
       /\ table' = Restored(f)
       /\ lsn' \in RestoredLSN(f)
  /\ pending' = << >>
  /\ mu' = NoOne
  /\ pc' = [t \in Threads |-> "idle"]
  /\ rec' = [t \in Threads |-> NoRec]
  /\ UNCHANGED <<issued, zoned, acked>>

-----------------------------------------------------------------------------
Init ==
  /\ lsn = 0 /\ pending = << >> /\ file = << >> /\ synced = 0
  /\ table = [s \in Segs |-> 0]
  /\ mu = NoOne
  /\ pc = [t \in Threads |-> "idle"]
  /\ rec = [t \in Threads |-> NoRec]
  /\ issued = << >> /\ zoned = 0 /\ crashes = 0
  /\ acked = {}

Work(t) == Snapshot(t) \/ appendRecord(t) \/ Apply(t) \/ Drain(t) \/ Sync(t)

Next ==
  \/ \E t \in Writers : (\E s \in Segs : LogL2PUpdate(t, s)) \/ Work(t)
  \/ \E t \in Loggers : LogZoneAction(t) \/ WriteCheckpoint(t) \/ Work(t)
  \/ \E t \in Committers : Tick(t) \/ Work(t)
  \/ Crash

Spec == Init /\ [][Next]_vars

\* Goroutines are scheduled, and the loop's ticker goes on ticking.
FairSpec ==
  /\ Spec
  /\ \A t \in Writers \union Loggers : WF_vars(Work(t))
  /\ \A t \in Committers : WF_vars(Tick(t) \/ Work(t))

-----------------------------------------------------------------------------
(* Properties *)

\* What a checkpoint has copied of the table so far.
Snaps   == UNION {[S -> 0 .. MaxUpdates] : S \in SUBSET Segs}
Records == [kind : {"none", "L2P", "zone", "checkpoint", "torn"}, lsn : Nat, id : Nat,
            snap : Snaps]

\* The state is well formed.
TypeOK ==
  /\ lsn \in Nat
  /\ pending \in Seq(Records)
  /\ file \in Seq(Records)
  /\ synced \in 0 .. Len(file)
  /\ table \in [Segs -> Nat]
  /\ mu \in Writers \union Loggers \union {NoOne}
  /\ pc \in [Threads -> {"idle", "snap", "append", "apply", "drain", "sync"}]
  /\ rec \in [Threads -> Records]
  /\ issued \in Seq(Segs)
  /\ zoned \in Nat
  /\ crashes \in Nat
  /\ acked \subseteq 1 .. Len(issued)

\* REQ-NFR-03: "No L2P data loss for writes acknowledged to the iSCSI
\* initiator".  Every update acknowledged is in the table, or a later one of
\* the same segment is, before and after every crash.
AckedRecovered == \A u \in acked : table[issued[u]] >= u

\* No two records that a restart can read have the same LSN, nor does a record
\* still to be written share one with them: an LSN names one update.
LSNsUnique ==
  LET all == Readable(file) \o pending
  IN /\ \A i, j \in DOMAIN all : all[i].lsn = all[j].lsn => i = j
     /\ \A t \in Threads, i \in DOMAIN all :
          pc[t] \in {"snap", "append"} => all[i].lsn # rec[t].lsn

\* When no update is between its record and its table entry, the log, what is
\* still pending included, replays to the table: from the latest checkpoint on,
\* wherever its record stands among those of the updates around it.
LogReplaysTable ==
  (\A t \in Writers : pc[t] # "apply") => Replay(Readable(file) \o pending) = table

\* REQ-WAL-03, group commit: once the last crash is over, whatever is appended
\* reaches stable storage, by its writer's own commit or the loop's.
PendingSettles ==
  (pending # << >> /\ crashes = MaxCrashes) ~> (pending = << >> /\ synced = Len(file))
=============================================================================
