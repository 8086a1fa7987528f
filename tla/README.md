# A TLA+ model of zns-iscsi-target

`zns-iscsi-target` exports a host-managed zoned drive (SMR/ZNS, or an in-memory emulator
of one) as an ordinary random-write iSCSI disk.  Its core is a zone translation layer
(ZTL) with a logical-to-physical table, a write buffer, a garbage collector and a
write-ahead journal; in front of it an iSCSI target reassembles the data of writes.  This
directory models both, from login to the device and across a crash, checks them with TLC
on small instances, shows that the ZTL implements an abstract disk, and proves with TLAPS,
for every size and under hypotheses that are named: the log's discipline and what its
replay rebuilds, the device's integrity under any use the ZTL makes of it, the journal's
recovery of acknowledged updates, the login's agreement and the reassembly of writes.

## The system

| part | source | state | operations |
|---|---|---|---|
| device emulator | `internal/backend/emulator` | per zone: state, write pointer, data; count of open zones | open, close, finish, reset, read, write, report |
| zone manager | `internal/ztl/zone_manager.go` | its own state, pointer and counters per zone; free list (a stack), LRU list and map of open zones, frozen set | initialise, allocate, get-or-open, evict, mark empty, count, freeze, select victim |
| tables | `internal/ztl/{segment,l2p,p2l}.go` | L2P array of packed addresses, P2L map | get, set, compare-and-swap, delete, iterate |
| write buffer | `internal/ztl/buffer.go` | per zone: start LBA and data | add, look up, flush one, all, aged |
| collector | `internal/ztl/gc.go` | its goroutine's locals | background cycle, emergency collection |
| ZTL | `internal/ztl/ztl.go` | `mu`, the current write zone | read, write, unmap, flush |
| journal | `internal/journal` | LSN counter, pending records, file, how much is synced | log, group commit, commit loop, read back, recover |
| SCSI handler | `internal/scsi` | none between commands | READ, WRITE, UNMAP, SYNCHRONIZE CACHE, inquiries |
| iSCSI | `internal/iscsi` | sessions, connections, sequence numbers, Data-Out reassembly | login, command, R2T and Data-Out, NOP, TMF, text, logout |
| API, config, web | `internal/api`, `internal/config`, `web` | statistics | read statistics, trigger a collection |

A connection goroutine executes SCSI commands on the ZTL; two more goroutines, the
buffer's age loop and the collector, work on the same tables, zone manager and device;
a fourth commits the journal every few milliseconds.  `ztl.mu` serialises the writers
with each other, but neither with the two loops nor with readers, and it is given up
around the flush of a full zone.  The zone manager, the tables, the buffer and the
device each lock single calls only.  What is hard is what happens between those calls:
a buffer taken out of the map and not yet on the device, an address read before the
collector moves it, a record in the log whose compare-and-swap then fails, a write
pointer kept in two places, a group commit that finds its records gone because another
goroutine is syncing them.  `PROJECT.json` lists these hazards at their lines.

## Modules

    Emulator <- ZoneManager <- Mapping <- WriteBuffer <- GCEngine <- ZTL
    ZTL <- ZTLDisk <- MCZTL               ZTLDisk implements BlockDevice
    ZTL <- Recovery <- MCRecovery
    Emulator <- EmulatorProofs            ZTL, EmulatorProofs <- ZTLProofs
    ZTLProofs <- ZTLTableProofs           ZTLTableProofs, ZTLDisk <- ZTLZoneProofs
    ZTLZoneProofs, Recovery <- RecoveryProofs
    Journal <- JournalProofs
    Login <- MCLogin                      Login <- LoginProofs
    Session <- Connection <- ConnectionProofs      Connection <- InitiatorStatSN

Each module EXTENDS the one it is built on, so that ZTL is the composition of all of
them with the threads that share them.  A session begins in Login and goes on in
Connection; what Login ends with (stage, parameters, StatSN) is what Connection starts
from.

**Emulator** models `emulator.go`.  Every method holds `e.mu` throughout, so each is an
operator from a device record and its arguments to `[ok, dev]`; a failed call returns
what it has changed.  `DevSpec` lets any caller make any call, with LBAs beyond the
device and writes that cross a zone boundary.  A sector is one element of `Data`, or
`Zero`.  `READ_ONLY` and `OFFLINE` are never entered by the emulator and are left out.
`CloseFullFails` says whether closing a FULL zone is an error, as in the emulator, or
changes nothing, as on a ZBC drive behind `internal/backend/smr`.

**ZoneManager** models `zone_manager.go`.  Its methods hold `zm.mu` across the device
calls they make; each is an operator on the pair of the manager's record and the
device's.  The free list is a stack, as in the code, so zones are handed out from the
highest number down.  `MarkFull` is not called by the program and is not modelled.

**Mapping** models the tables and what the ZTL sees of the journal: `wal`, the records
appended, and `durable`, how many of them a GroupCommit has covered.  Addresses are
packed as in `segment.go` (`OffsetBits`, `ZoneIDBits`), so that zone 0, offset 0 is the
value that means "unmapped".  `GroupCommit` here covers everything appended so far, which
is right for a crash of the process; what a loss of power can take is Journal's subject.

**WriteBuffer** models `buffer.go`.  `Flush` is four steps, because its lock covers only
the first: take the buffer (`FlushTake`), open the zone (`FlushOpen`), write
(`FlushWrite`), correct the zone manager's pointer (`FlushPoint`).  `pc[t]` is where
goroutine `t` is, `fl[t]` are Flush's locals.

**GCEngine** models `gc.go`.  A collection is: select a victim, freeze it and list its
live segments, then per segment read, allocate a zone and log, write, compare-and-swap,
update P2L and counts; at the end log and commit the reset, reset the zone, mark it
empty.  Error returns go through `Abandon`, which includes the deferred Unfreeze.  A
cycle may begin whenever the goroutine is idle: a manual trigger can arrive at any time.

**ZTL** models `ztl.go`.  A write checks for free zones (and may collect), then for each
segment takes `ztl.mu` and a zone (`WriteLock`), logs (`WriteLog`), stores the L2P entry
(`SetL2P`), updates P2L, counts and pointer (`WriteMaps`), buffers the data and releases
the lock (`WriteAdd`); if the zone is full it flushes it and takes the lock again
(`WriteRelock`).  It ends with a group commit (`Commit`) or an error (`Fail`).  A segment
beyond the table is refused by `l2p.Set`, after its record has been logged
(`SetL2PFails`).  Nothing in front of it checks the range: the SCSI handler passes LBA and
length on, `Write` and `Unmap` do not look, and the capacity the target reports is the
device's, which may exceed the table by part of a segment.  `InRange` says that requests
keep to the table; it is a named hypothesis of the theorems that need it, not an
assumption of the model, and `ztl_clients` and `recovery_range` have requests that do not.
`Read` is a state function.  The ghost `promised` holds, per LBA, what a read may return:
data of the last command that succeeded, and of commands that failed or still run.

**BlockDevice** is what `internal/scsi/block_device.go` promises the SCSI handler, as a
specification of its own: a disk of sectors, commands that are applied one segment after
the other, each segment at one instant between call and return, whole if the command
succeeds.  There are no zones, buffers or collectors in it.  **ZTLDisk** says how ZTL
implements it.  The disk at an LBA is the sector at the address the table has for it,
wherever that sector is: in the hands of the writer that has just set the entry, in the
write buffer, in the hands of a flush, or on the device.  A segment is applied when its
L2P entry is set.  `ImplementsBlockDevice` is the abstract specification under this
mapping; it is what makes "flush, eviction, collection and reset are invisible" precise.

**Recovery** adds crash and restart to ZTL.  A crash may come at any step; the drive keeps
its data, the journal's file every committed record and any number of later ones.
`Restart` is `main.go`'s start-up: `New` initialises the zone manager from the device,
`Recover` replays L2P records into the table and MarkEmpty for every ZONE_RESET record,
and `ReconcileFromDevice` takes states and pointers, but not the lists, from the device.
P2L and the segment counts start empty, as in the code.  `Recover` fails at a record whose
segment the table does not have (`Replayable`), and `main` then exits: `up` is FALSE from
then on, since the next start meets the same record.  Ghosts tell apart what a crash
may take: `dirty` LBAs were touched since the last successful SYNCHRONIZE CACHE; at a
crash they become `lost`, until a command writes them again; `unsettled` LBAs are those
whose segment a collection was moving.

**Journal** models `journal.go`, `checkpoint.go` and the L2P part of `recovery.go` with
the journal's own steps: the LSN is taken before `j.mu`; GroupCommit writes pending
records under `j.mu` and syncs after it; a crash loses what is in memory and, with
`PowerLoss`, what fsync has not covered, perhaps leaving a torn record.  `readRecords`
stops at the first entry that does not check; `scanMaxLSN` goes on behind one with a wrong
checksum, so what it finds there is a choice.  Restart is `Open` and `Recover`.  A
checkpoint takes its LSN, copies the table entry by entry and appends the copy; replay
starts from the checkpoint with the largest LSN and takes the records with larger LSNs,
wherever they stand in the file.  Nothing in the program calls `WriteCheckpoint` yet; its
callers in the tests run it while nothing is being written (`QuietCheckpoints`).

**Login** models `login.go`, `params.go`, the CHAP exchange of `chap.go` and the splitting
of Data-In.  Requests and responses are in flight one at a time; the initiator is external
and keeps to the protocol, but may spread the keys it offers over any number of requests,
ask for the full feature phase straight from security negotiation, begin with operational
negotiation, which the target takes with authentication configured too (`login.go:122`; the
login then ends without CHAP, and no property here says otherwise), answer the challenge
wrongly, or lose the connection.  Boolean keys negotiate like numbers (AND is the smaller,
OR the larger).  Left out: keys with no choice (names, digests, NotUnderstood), a request
with CSG 2 or 3, and the TSIH of the response, which is always 1.

**Session** models `session.go`: the table of sessions, its limit and the TSIH counter,
which wraps and does not look whether a number is in use.

**Connection** models the full feature phase: `connection.go`, `scsi_cmd.go`,
`data_out.go`, `tmf.go`, `nop.go`, text and logout, and the SCSI handler as far as it
looks at the data of a command.  A connection's goroutine handles one PDU to the end
before it reads the next, so a PDU is one action; what interleaves are the tasks of a
connection and the connections, which meet in the session table.  The initiator is
external and part of the same actions: it picks the PDU, aborts tasks, reuses tags, closes
the connection.  It keeps to the protocol, and both ways of setting the F bit that
initiators use are allowed.  Lengths count blocks, and block `i` of command `n` is
`<<n, i>>`, so that data of another task or in the wrong place shows.  `pending` and
`buffers` are the connection's maps; a command executed at once leaves its `pending`
entry behind, as in the code.  `exec` is a ghost: the last call of `Handler.Execute`.  A
login is one step, and so is the return of `Run`; `RemoveSession` comes later, as the
deferred call does.  `DataIgnored` and a completed buffer without a pending command are
in the code and in the model, but an initiator that keeps to the protocol does not reach
them: `NoNumberDropped` rests on that.  CmdSN, ExpCmdSN and MaxCmdSN are left out,
since the target only echoes them.

**InitiatorStatSN** puts beside Connection an initiator that counts responses, as RFC 7143
and `server_test.go` do.  The target takes a StatSN for the R2T too; `NumbersSent` in
Connection says no more than that every number taken is sent, and `StatusInStep` here is
what an initiator expects.

Steps that are merged: two calls become one action only when no other thread can tell.
`Freeze` and `IterateZone` (only victim selection looks at the frozen set), the calls on
a zone that only the collecting thread knows of, and the P2L, counter and pointer calls
of one segment, which are made under `ztl.mu`; a collector may in the code see the
counters half updated, which affects only which victim it prefers.

## Runs

| run | instance | what it shows |
|---|---|---|
| `emulator` | 3 zones x 2 sectors, 2 may be open | any sequence of calls: open count exact, FULL iff the pointer is at the end, zeros above the pointer, append-only |
| `ztl_serial` | 6 zones x 2 segments, 2 open, emergency collection below 4 free zones, two collections, 6 commands on four segments | one client, collections that move live data: the ZTL implements the disk; reads return what was promised; P2L is the inverse of L2P and the counts are right; lists match the device; a free zone can be allocated; the log replays to the table |
| `ztl_clients` | 5 zones, 2 clients, 3 commands on overlapping ranges and on a segment behind the table | two writers interleaving at every call: the ZTL implements the disk, pointers match, flushes reach the device in order, every command ends, the refused ones too |
| `ztl_background` | 4 zones, 1 open; client, age loop and collector, 3 commands | in every interleaving: log before apply, journal before reset (the device's limit under any caller is `emulator`'s) |
| `recovery` | as `ztl_serial`, 5 commands, one crash | requests within the table; after a crash at any step: the process starts, what was flushed before or written since reads back, except segments that were being moved; the log replays to the table; pointers match the device; P2L holds nothing the table does not, and no two promised segments share an address |
| `journal` | 2 writers, a thread that logs a zone record or writes a checkpoint (two of these), the commit loop, 2 updates, a process crash | acknowledged updates survive; LSNs unique; the log replays to the table from the latest checkpoint on; what is pending settles |
| `login` | 2 keys that take the smaller value, 1 that takes the larger, three values, reads of up to 5 blocks | both sides agree on parameters, stage and StatSN; Data-In PDUs cover the data once and fit the limit; every login ends on both sides |
| `connection` | 2 connections for 1 session, 2 tags, 2 commands of up to 2 blocks, 3 logins | solicited data reaches the SCSI handler whole; GOOD only for stored blocks; no StatSN is used up without being sent; the session table is exact at its limit; a task that was sent an R2T is answered |

Violations, each of which shows that the code does not do what a comment or a requirement
says (quoted in `PROJECT.json` under `findings`):

| run | property | what happens |
|---|---|---|
| `recovery_gc` | `FlushedSurvives` | the migration's record is on disk, the copy is not: recovery sets the entry to an address that was never written |
| `connection_final` | `WholeData` | a command with the F bit and data still to come is executed at once with its immediate data only, and no R2T is sent: an UNMAP then succeeds without its descriptors, a WRITE fails |
| `recovery_range` | `SettledSurvives` | a write beyond the table is logged and then refused; after a crash `Recover` stops at the record and the process does not start any more |
| `connection_statsn` | `StatusInStep` | an R2T uses up a StatSN, so that after a solicited write the target is one number ahead of the initiator |

Further deviations have a configuration of their own, which is not among the runs, or are
one constant away from a run's:

| configuration | fails | what happens |
|---|---|---|
| `ZTLGCBuffered.cfg` | `MigratesLiveData` | every migration allocates a zone, which evicts the writer's current zone from the open list; the next cycle collects it, from the device, while its data is in the write buffer: zeros replace acknowledged data (`gc.go:214`; requirements, line 127: "Read all valid segments from victim zone") |
| `ZTLPartial.cfg` | `SettledReads` | a write of half a segment maps the whole segment to that half: the rest is lost and the half reads back at another LBA (`ztl.go:234`; `block_device.go:10`: "Write writes data to the device starting at lba.") |
| `ZTLZoneZero.cfg` | `AckedReads` | a segment at zone 0, offset 0 has the address that means "unmapped" and reads as zeros (`segment.go:33`; design, line 153: "Zone 0 sector 0 is always reserved or a conventional zone") |
| `ZTLGCReplay.cfg` | `ReplayMatches` | a migration is logged after a foreground write or unmap and then loses its compare-and-swap: replay restores the migrated address (`gc.go:231`; `gc.go:245`: "if CAS fails, foreground write won - discard our copy") |
| `ZTLAge.cfg` | `FlushInOrder` | the age loop takes a buffer, a writer fills and flushes the rest of the zone first: the device refuses what comes second and the data is gone (`buffer.go:123`; requirements, line 105: "no out-of-order writes within a zone") |
| `ZTLCloseFull.cfg` | `FreeZoneAllocatable` | FULL zones are never dropped from the open list and the emulator refuses to close them: after `MaxOpenZones` full zones no zone can be allocated again (`zone_manager.go:102`; REQ-ZTL-08) |
| `JournalPower.cfg` | `AckedRecovered` | GroupCommit returns while another goroutine has yet to sync this caller's record: a power loss loses an acknowledged update (`journal.go:189`; REQ-NFR-03) |
| `SessionsWrap.cfg` | `SessionsExact` | the TSIH counter wraps onto a live session, whose entry is overwritten (`session.go:70`; `session.go:59`: "a unique TSIH") |
| `ZTLSerial.cfg` with `MaxCycles = 3` | `ImplementsBlockDevice` | the trace of `ZTLGCBuffered.cfg` with a single client and its own emergency collections |
| `ZTLClients.cfg` with `Kinds = {"write", "unmap", "flush"}` | `TablesAgree` | SYNCHRONIZE CACHE takes a zone's buffer, a writer moves the zone's pointer on, and the flush sets it back to where the buffer ended: two segments get the same address |
| `ZTLClients.cfg` with `MaxOpenZones = 1` | `PointersAgree` | another writer's allocation evicts the zone between a flush's open and its write; the write then opens it implicitly, past the limit, fails, and the flush's data is gone |
| `ZTLConcurrent.cfg` with `ZonesAgree` | `ZonesAgree` | victim selection and freezing are two calls: a flush reopens the victim in between and fills the zone just reset while MarkEmpty puts it on the free list |
| `Journal.cfg` with `QuietCheckpoints = FALSE` | `LogReplaysTable` | an update logged before the checkpoint's LSN and applied after the copy is in neither |
| `Recovery.cfg` with `FreeZoneAllocatable` | `FreeZoneAllocatable` | a crash between the durable reset record and the reset leaves a full zone on top of the free list, where every allocation meets it |
| `Recovery.cfg` with `TablesAgree` | `TablesAgree` | P2L and the counts are not rebuilt, so the collector sees segments from before the crash neither as live nor as garbage |

Outside the runs for other reasons: `Settled` and the `ok` of `BlockDevice` exclude the
time after zone 0, the last of the free stack, is allocated (`ZTLZoneZero.cfg`); a partial
Unmap unmaps the whole segment; `Read` takes no lock, so a read between `SetL2P` and
`Add`, or between `FlushTake` and `FlushWrite`, returns zeros for data that is safe; an
initiator that does not offer MaxRecvDataSegmentLength is taken to accept 65536 bytes
where the protocol's default is 8192 (`DataInFits` speaks of the ones that do).

These known behaviours limit what the passing runs claim.  The ZTL runs use
`CloseFullFails = FALSE`, a drive that accepts CLOSE ZONE on a FULL zone, where allocation
has to go on past the open limit.  No passing run claims data integrity for the background
collector or the age loop beside a writer, because flush order breaks it, and so does the
collection of the current write zone; `ztl_background` checks what does hold there, and
`ztl_serial` and `recovery` stop at two collections, before one can meet the current zone.
`SettledSurvives` leaves out the segments of `recovery_gc`.  `SolicitedWhole` leaves out
the commands with the F bit, of which `connection_final` speaks.  `SessionsExact` holds
while the TSIH counter has not wrapped onto a session that is still there: with
`MaxSessions = 1`, as in `connection`, it cannot.  Two sessions beside each other, with a
third connection that is refused or takes the place of one that has gone, are in
`Sessions.cfg`, where `SessionsExact` holds too, and for any number in
`SessionTableExact`.  `recovery` has requests within the table, where `recovery_range` has
not.

Bounds.  A segment is one sector in the ZTL runs: nothing in the control depends on its
size as long as requests are whole segments; `ZTLPartial.cfg`, with two sectors per segment,
is about those that are not.  Two segments fill a zone, so that a zone is half
full, full and refilled within three writes; 5 or 6 zones against a limit of 2 open ones
make evictions, reopenings and collections happen.  `MaxCmds`, `MaxCycles`, `MaxUpdates`,
`MaxZoneRecords` and `MaxCrashes` bound the behaviours and are guards.  In the connection
runs a
transfer of two blocks can come as none, one or two immediate blocks and one or two
Data-Out PDUs; two connections compete for one session, so that a login meets the session
of a connection that is closing; `StatSN` has one bit and wraps, and the TSIH counter
reaches its end with three logins.  In `recovery` the crash comes at any of the steps of
five commands and two collections, with every length of the log that may be left, and
commands go on after it; a second crash multiplies the states beyond reach.  In `login`
three keys are enough for a request that offers none, some or all of what is left.  The
bounded runs stop when
the bounds are reached, hence `CHECK_DEADLOCK FALSE`.

Fairness.  `CommandsEnd` assumes that a client that can again and again take its next
step takes it: goroutines are scheduled, and Go's mutex hands itself over to a waiter that
has starved for a millisecond.  The loops finish a round they have begun; nothing forces
clients to issue commands or loops to begin a round.  `PendingSettles` assumes weak
fairness of each goroutine and of the commit loop's ticker, and speaks of the time after
the last crash.  `Answered` assumes that an initiator that was sent an R2T sends the data
and that the goroutine reads it; nothing forces commands, aborts or logins.  `LoginEnds`
assumes that the connection's goroutine runs and that an initiator goes on with a login it
has begun; a break of the connection may happen and need not.

## Proofs

**EmulatorProofs** proves, for every number of zones, zone size and open limit, that
`DevSpec` implies `[]DevTypeOK`, `[]OpenCountExact`, `[]ConditionMatchesPointer`,
`[]ZeroAbovePointer` and `AppendOnly`.  None of them is inductive alone: that a write
decrements a positive count needs the count to be exact, that it stays in the zone needs
the conditions to match the pointers.  The inductive invariant is their conjunction
`Good`; one lemma per device operation shows that it is preserved.  The assumptions are
`DeviceAssumption`: positive sizes.

**ZTLProofs** proves, for any sets of clients, age loops and collectors, any device and
any requests, the two promises of the log: `LoggedBeforeApplied` (REQ-WAL-01) and
`ResetJournaled` (REQ-GC-05).  They are action properties, so the invariant has to say
what a thread knows one step before: `Own(t)` says that the record of the update `t` is
about to apply, or of the reset it is about to perform, is in the log.  `LogInv` adds the
shapes of the variables and that Flush and collectZone return only to their callers.
Every action is shown `Fine`: it only appends to the log, changes L2P only to logged
addresses, empties only the zone its thread is at the reset of, and re-establishes
`Own` for its own thread; `OthersOwn` then gives it for the other threads, since the log
never shrinks.

Its second part lifts the device's invariants from `DevSpec`, where a caller is any
caller, to the ZTL's own `Spec`: `OpenLimitKept` (`OpenCountExact`) and `DeviceSound`, for
any threads, geometry and requests.  The device lemmas of EmulatorProofs ask only that
what is written are sectors and that a zone is a zone.  So `DataInv` follows data and zone
numbers through everything they pass: command, buffer, a flush's and a collection's
locals, the free and open lists, the tables.  What is proved is that no interleaving makes
the ZTL hand the device anything the device could be damaged by; not that what it hands
over is the right data, which is `SettledReadsHold` below.

**ZTLTableProofs** proves `ReplayMatches` for any clients and age loops, for requests within
the table (`InRange`), as long as no collection has begun (`LogRebuildsTable`).  That
`Recover` gets through the log is `RangeInv`: every command, and so every record, names a
segment of the table.  Without `InRange` it is false (`recovery_range`), and nothing in the
code establishes it.  `TableInv` states what the code's lock is
for: a thread between the steps of a segment's update holds `ztl.mu` (`LockInv`), hence at
most one update is logged and not yet applied, and the replayed log is the table with that
update made (`Published`).  The collector applies its updates without the lock, and the
configuration `ZTLGCReplay.cfg` shows the claim fail then, hence `cycles = 0`.

It also proves `TablesAgree` until the first collection (`TablesStayExact`), for any
clients and requests, under two hypotheses.  `AddressesFit`: a zone's sectors fit the
offset and the zones the zone number of the packed address, and a segment fits a zone (the
code has 40 and 24 bits).  `FlushesAlone`: no age loop, and SYNCHRONIZE CACHE only where
no second client writes beside it; the row above shows what happens otherwise, and
`ztl_clients` is an instance that satisfies both.  Nothing but the zone manager's write
pointers keeps two segments from one address, so the inductive invariant `PlaceInv` is about
them: every mapped address is below its zone's pointer, a writer between `WriteLock` and
`WriteMaps` has room and its new address is the pointer (`Writes`), zones on the free list
are distinct and empty (`FreeZones`), a buffer ends at the pointer or where its adder is
(`BufferEnds`), a flush sets the pointer to where it is, and a writer flushes a full zone
only, which no one writes to any more (`Flushes`, `Apart`).  P2L and the counts are those of
the table before the update the holder of `ztl.mu` has half made (`Followed`): `WriteMaps`
takes the old address out (`OldLeaves`) and puts one in that no segment has (`ExactWith`,
`FreshAddress`).

**ZTLZoneProofs** puts zone manager, buffer and device beside each other, again until the
first collection.  For any number of clients under `AddressesFit` and `FlushesAlone`, on a
drive that accepts CLOSE ZONE on a FULL zone, it proves `ZonesAgree` (`ZonesStayAgreed`),
`FreeZoneAllocatable` (`FreeZonesAllocatable`) and `FlushInOrder` (`FlushesInOrder`).
None of the three can be proved alone: an eviction succeeds because the lists describe the
device, the lists do so because a flush writes what its zone expects, and a flush can open
its zone because an eviction succeeds.  `ZoneInv` is their conjunction: the lists are
those of the device (`Lists`), a buffer begins at the device's pointer (`Begins`), a
flush's data too, and no new buffer has been begun behind it (`InOrder`), no two threads
flush the same zone (`OneFlush`), and the device's pointer is the zone manager's unless a
buffer, a flush or a writer has the difference, or a flush that met other commands has
lost the end of a full zone (`Caught`).  The hypotheses are needed, though the program
meets neither of the first two as it stands: `New` always starts an age loop (`ztl.go:90`)
and the emulator refuses to close a FULL zone.  `ZTLAge.cfg`, `ZTLCloseFull.cfg` and the
row above with "flush" among the `Kinds` show what happens without each, and `ZonesAgree`
fails in `ZTLSerial.cfg` with three collections.

With one client (`Serial`), and still until the first collection, without an age loop and
on such a drive, nothing is lost, and `PointersAgree` holds (`PointersStayAgreed`); the
row with `MaxOpenZones = 1` shows another client's allocation evict a zone between a
flush's open and its write.

With one client whose requests consist of whole segments of the table (`WholeRequests`,
which includes `InRange`; `ZTLPartial.cfg` shows what a part of a segment does to the rest),
under the same hypotheses, it proves that what succeeded reads back (`SettledReadsHold`)
and the refinement `ImplementsBlockDevice` (`ZTLImplementsBlockDevice`).  The argument has
three parts.  (1) A lemma for each action shows that it leaves every `Sector(a)` of the
disk as it is (`DiskKept`), though it moves the sector from the writer's hands to the
buffer, from there to a flush's hands and on to the device; only `SetL2P`, a write's or an
unmap's, changes the disk, at exactly the LBAs of the command's segment (`SegmentSet`).
What is needed for this, `AtRest`, says that a mapped segment its writer has handed over
is below the zone manager's pointer and wholly on one side of the device's, so that no
step tears it.  (2) Each action is then one of the things `BlockDevice` can see (`Seen`):
a call, a segment applied, a return, giving up, an error returned, or nothing (`Silent`);
each of these is shown to be the step of `BlockDevice` of that name (`CalledStep`,
`AppliedStep`, ...).  (3) `Shown` and `Kept` relate the disk to what was promised
(`DiskInv(S)`, stated of a set `S` of LBAs so that RecoveryProofs can use it for those
that no crash has lost; here `S` is `LBAs`), and `ReadsDisk` shows that with nothing
running the code's read path returns the disk.  Where the run of the refinement has
collections and two clients, the theorem has one client, no collection, and any geometry,
requests and number of commands.

**RecoveryProofs** takes these invariants across any number of crashes, each at any step
and with any part of the uncommitted log left.  For any threads and collections it proves
`ResetJournaled` (`ResetAfterJournalAcrossCrashes`) and, under `InRange` and until the
first collection, that every start succeeds and `ReplayMatches`
(`LogRebuildsTableAcrossCrashes`). `RRange` is `RangeInv` with `up`: what a crash leaves
of a log whose records all name segments of the table is such a log, so `Recover` gets
through it.  A crash cuts the log and the restart replays what is left, so `LogInv` and
`TableInv` begin anew.  Under `Quieted` (`AddressesFit`, no age loop, a drive that accepts
CLOSE ZONE on a FULL zone; Recovery has one client anyway) and until the first collection
it proves `ZonesAgree`, `FreeZoneAllocatable` and `FlushInOrder`
(`ZonesAgreeAcrossCrashes`) and `PointersAgree` (`PointersAgreeAcrossCrashes`).  The step
that matters is the restart: without ZONE_RESET records in the log (`LogData`) `Recover`
leaves exactly the zone manager that `Initialize` builds from the device
(`RecoveredFresh`), and `Fresh`, a process that has just started on whatever device and
table it found, satisfies `DataInv`, `PlaceInv` and `ZoneInv`; the initial state is one
such state.  What a restart does not satisfy is that P2L is the inverse of L2P: P2L begins
empty, and `Backed` is what is left of that.

For the data it proves, with whole segments written (`WholeRequests`) and until the first
collection, `FlushedSurvives` and with it `SettledSurvives` (`FlushedSurvivesCrashes`), and
`TablesAfterCrash` (`TablesSurviveCrashes`).  The inductive invariant is `RDisk`.  Its first
half is the disk invariant of ZTLZoneProofs for a set `S` of LBAs that contains all that is
not lost, no two segments of which share an address (`Survives`); a set and not exactly the
LBAs that are not lost, because a segment a command has set after a crash is on the disk
before the command ends and its LBAs are found again.  Its second half, `CleanSafe`, is
what makes the restart work.  An LBA is clean when it was flushed and not touched since:
what a running command touches is dirty (`TouchedDirty`), the uncommitted part of the log
updates no clean segment, so whatever is cut off the table keeps its entry (`CleanLogged`),
and a clean segment lies below the device's write pointer, so the death of the buffer does
not touch it (`CleanWritten`).  That SYNCHRONIZE CACHE makes everything clean is
`Draining`: until it ends, every zone with a buffer is one it has yet to flush.  A crash
then leaves `LBAs \ lost` as the new `S`.  As in `SettledReadsHold`, the claim is made
while zone 0 is unused (`Settled`).  The run `recovery_gc` shows `FlushedSurvives` fail
after a collection.

**JournalProofs** proves, for any goroutines, segments, updates and crashes, with and
without power loss, the journal's `TypeOK` and `LSNsUnique`.  The second needs `LSNInv`:
every LSN in the log (the readable part of the file, then what is pending) or in a
goroutine's hands is at or below the counter, and no two of these are the same one; a
crash keeps it because the counter restarts at or above all that can be read, which is the
file up to its first torn record.  It also proves `AckedRecovered` and `LogReplaysTable`
under two hypotheses: `~PowerLoss`, a crash of the process and not of the machine, and
`QuietCheckpoints`.  Both are needed: `JournalPower.cfg` and the row above without quiet
checkpoints are the counterexamples.  `ztl.mu` makes the order of the L2P records, of
their LSNs and of the updates the same (`OrderInv`), and a checkpoint stands behind every
update with a smaller LSN and holds what these wrote (`Covers`).  Every beginning of the
log has these properties too, which is what a crash leaves, and replaying such a log finds
the last update of each segment.

**LoginProofs** proves, for any keys, values and requests, `StagesAgree`, `ParamsAgree` and
`DataInFits`.  `LoginInv` has the shapes of requests and responses, the phases in which
initiator and target can be while a message is in flight, and the parameters: what a side
has taken so far is what the rules make of the keys exchanged so far.  Data-In is a lemma
about splitting: the chunks of a read are numbered, all but the last have the limit's
length, and their lengths add up.

**ConnectionProofs** proves, for any connections, tags, transfer lengths and sequence
number width, `SolicitedWhole` (`ReassemblyCorrect`), `NumbersSent`
(`NoNumberDropped`), `GoodMeansStored` (`GoodAnswersTrue`) and `TypeOK`.  The invariant
`ConnInv` adds to them what a task in progress has: `Held` says that while the initiator
answers an R2T, the tag's buffer holds exactly the blocks sent so far and the pending
command is the one the R2T was for.  That is what a tag's next use could break, since
aborts and commands executed at once leave entries behind; it holds because `initBuffer`
replaces the old buffer and every solicited command is remembered anew.
`SessionTableExact` proves `SessionsExact` under `NoWrap`: there is one session only, or
fewer logins than TSIHs.  Without it the counter may hand out a number in use
(`SessionsWrap.cfg`).

Assumptions on the constants are those of the modules, which TLC evaluates on every run:
sizes are positive; a field of some bits has at least one value (`2^OffsetBits`,
`2^ZoneIDBits`, `2^SNBits`; two for `2^TSIHBits`, because 0 is not a TSIH); requests
are not empty; the stamps of the data written are
in `Data`; there is a segment.  `Max` and `Min` over log positions, and the last chunk of a
read, are handled by the least element of a set of naturals; no induction over data is
used.

Only model-checked: liveness (`CommandsEnd`, `PendingSettles`, `Answered`, `LoginEnds`),
which needs ENABLED; recovery of a log with ZONE_RESET records, where what MarkEmpty leaves
of the lists is a fold over the log, and what a fold computes needs induction over the log;
and whatever the invariants of the ZTL say beyond the hypotheses named above: after a
collection, before or after a crash, and for `PointersAgree`,
`SettledReads` and `ImplementsBlockDevice` also with a second client.  The collector
updates the tables without `ztl.mu`, and an invariant that covers it has to describe a
migration half done beside every step of a writer; the runs `ztl_serial` and
`ztl_clients` cover the instances.

## Not modelled, and the plan

Not modelled: byte layouts (PDUs, CDBs, records, sense data), CHAP arithmetic, logging,
metrics and the rest of the API (its one command, the manual collection, is why a
collector may begin at any time), the web client, configuration parsing, write and fsync
errors of the journal file, `Server.Shutdown` (stop accepting, wait for the connections up
to a timeout; the flush that follows is Recovery's flush before a crash).  The SMR backend
forwards each call to a drive by ioctl: the drive is not in the repository, and the one
difference the ZTL observes is `CloseFullFails`.

Next, in this order:

1. A second client in `PointersStayAgreed`, `SettledReadsHold` and
   `ZTLImplementsBlockDevice`, with a hypothesis on `MaxOpenZones` that keeps a zone being
   flushed from eviction, as `ztl_clients` has it.
2. Collections by the writer itself (`MigrateCAS` under `ztl.mu`), first for `TablesAgree`.
3. `SettledSurvives` and `TablesAfterCrash` after a collection: `RDisk` with the segments
   that were being moved left out of `S`.
