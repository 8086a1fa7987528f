--------------------------- MODULE JournalProofs ---------------------------
(***************************************************************************)
(* The write-ahead log, proved for any goroutines, segments, updates and   *)
(* crashes: types and LSNs first; then what a restart rebuilds, for        *)
(* crashes of the process and with checkpoints taken while no update is    *)
(* under way.                                                              *)
(*                                                                         *)
(* The argument of the second part: ztl.mu makes the order of the L2P      *)
(* records in the log, the order of their LSNs and the order of the        *)
(* updates one and the same, and a checkpoint stands behind every update   *)
(* whose LSN is smaller and holds what those updates wrote.  All of that   *)
(* holds of every beginning of the log too, which is what a crash leaves,  *)
(* and replaying such a log finds the last update of every segment.        *)
(***************************************************************************)
EXTENDS Journal, SequenceTheorems, WellFoundedInduction, TLAPS

-----------------------------------------------------------------------------
(* The largest and the smallest of a set of numbers                        *)

LEMMA SmallestExists ==
  ASSUME NEW T \in SUBSET Nat, T # {}
  PROVE  \E x \in T : \A y \in T : x <= y
<1>1. IsWellFoundedOn(OpToRel(<, Nat), Nat)
  BY NatLessThanWellFounded
<1>2. PICK x \in T : \A y \in T : ~ (<<y, x>> \in OpToRel(<, Nat))
  BY <1>1, WFMin
<1>3. \A y \in T : ~ (y < x)
  BY <1>2 DEF OpToRel
<1>4. QED
  BY <1>3

LEMMA LargestExists ==
  ASSUME NEW S \in SUBSET Nat, S # {}, NEW n \in Nat, \A x \in S : x <= n
  PROVE  \E x \in S : \A y \in S : y <= x
<1> DEFINE T == {n - x : x \in S}
<1>1. T \in SUBSET Nat /\ T # {}
  <2>1. \A x \in S : n - x \in Nat
    OBVIOUS
  <2>2. QED
    BY <2>1
<1>2. PICK d \in T : \A e \in T : d <= e
  BY <1>1, SmallestExists
<1>3. PICK x \in S : d = n - x
  OBVIOUS
<1>4. ASSUME NEW y \in S PROVE y <= x
  <2>1. n - x <= n - y
    BY <1>2, <1>3
  <2>2. QED
    BY <2>1
<1>5. QED
  BY <1>4

LEMMA MaxIs ==
  ASSUME NEW S \in SUBSET Nat, S # {}, NEW n \in Nat, \A x \in S : x <= n
  PROVE  Max(S) \in S /\ \A y \in S : y <= Max(S)
<1>1. \E x \in S : \A y \in S : x >= y
  <2>1. PICK x \in S : \A y \in S : y <= x
    BY LargestExists
  <2>2. QED
    BY <2>1
<1>2. Max(S) \in S /\ \A y \in S : Max(S) >= y
  BY <1>1 DEF Max
<1>3. QED
  BY <1>2

LEMMA MinIs ==
  ASSUME NEW S \in SUBSET Nat, S # {}
  PROVE  Min(S) \in S /\ \A y \in S : Min(S) <= y
  BY SmallestExists DEF Min

-----------------------------------------------------------------------------
(* What a restart can read                                                 *)

\* a is the beginning of b.
Begins(a, b) == Len(a) <= Len(b) /\ \A i \in 1 .. Len(a) : a[i] = b[i]

NoTorn(f) == \A i \in 1 .. Len(f) : f[i].kind # "torn"

\* The readable part is the longest beginning without a torn record.
LEMMA ReadableIs ==
  ASSUME NEW f \in Seq(Records)
  PROVE  /\ Readable(f) \in Seq(Records)
         /\ Begins(Readable(f), f)
         /\ NoTorn(Readable(f))
         /\ Len(Readable(f)) < Len(f) => f[Len(Readable(f)) + 1].kind = "torn"
         /\ NoTorn(f) => Readable(f) = f
<1> DEFINE torn == {i \in DOMAIN f : f[i].kind = "torn"}
<1>1. torn \in SUBSET Nat /\ DOMAIN f = 1 .. Len(f) /\ Len(f) \in Nat
  OBVIOUS
<1>2. CASE torn = {}
  <2>1. Readable(f) = f
    BY <1>2 DEF Readable
  <2>2. QED
    BY <1>1, <1>2, <2>1 DEF Begins, NoTorn
<1>3. CASE torn # {}
  <2> DEFINE m == Min(torn)
  <2>1. m \in torn /\ \A y \in torn : m <= y
    BY <1>1, <1>3, MinIs
  <2>2. Readable(f) = SubSeq(f, 1, m - 1)
    BY <1>3 DEF Readable
  <2>3. m \in 1 .. Len(f) /\ m \in Nat
    BY <1>1, <2>1
  <2> HIDE DEF m
  <2>4. /\ SubSeq(f, 1, m - 1) \in Seq(Records)
        /\ Len(SubSeq(f, 1, m - 1)) = m - 1
        /\ \A i \in 1 .. m - 1 : SubSeq(f, 1, m - 1)[i] = f[i]
    BY <1>1, <2>3
  <2>5. QED
    BY <1>1, <2>1, <2>2, <2>3, <2>4 DEF Begins, NoTorn
<1>4. QED
  BY <1>2, <1>3

\* A log that keeps its first k records, and behind them at most a torn one,
\* does not become more readable.
LEMMA ReadableCut ==
  ASSUME NEW f \in Seq(Records), NEW g \in Seq(Records), NEW k \in 0 .. Len(f),
         \A i \in 1 .. k : g[i] = f[i],
         Len(g) = k \/ (Len(g) = k + 1 /\ g[k + 1].kind = "torn")
  PROVE  Begins(Readable(g), Readable(f))
<1> DEFINE rf == Readable(f)
           rg == Readable(g)
<1>1. /\ rf \in Seq(Records) /\ Begins(rf, f) /\ NoTorn(rf)
      /\ Len(rf) < Len(f) => f[Len(rf) + 1].kind = "torn"
  BY ReadableIs
<1>2. rg \in Seq(Records) /\ Begins(rg, g) /\ NoTorn(rg)
  BY ReadableIs
<1> HIDE DEF rf, rg
<1>3. /\ Len(f) \in Nat /\ Len(g) \in Nat /\ Len(rf) \in Nat /\ Len(rg) \in Nat
      /\ Len(rf) <= Len(f) /\ Len(rg) <= Len(g)
  BY <1>1, <1>2 DEF Begins
<1>4. Len(rg) <= k
  BY <1>2, <1>3 DEF Begins, NoTorn
<1>5. Len(rg) <= Len(rf)
  <2> SUFFICES ASSUME Len(rf) < Len(rg) PROVE FALSE
    BY <1>3
  <2>1. Len(rf) + 1 \in 1 .. Len(rg) /\ Len(rf) + 1 \in 1 .. k /\ Len(rf) < Len(f)
    BY <1>3, <1>4
  <2>2. rg[Len(rf) + 1] = f[Len(rf) + 1]
    BY <1>2, <2>1 DEF Begins
  <2>3. QED
    BY <1>1, <1>2, <2>1, <2>2 DEF NoTorn
<1>6. \A i \in 1 .. Len(rg) : rg[i] = rf[i]
  BY <1>1, <1>2, <1>3, <1>4, <1>5 DEF Begins
<1>7. QED
  BY <1>5, <1>6 DEF Begins, rf, rg

\* Records written behind a torn one cannot be read; others can.
LEMMA ReadableDrained ==
  ASSUME NEW f \in Seq(Records), NEW p \in Seq(Records), NoTorn(p)
  PROVE  Begins(Readable(f \o p), Readable(f) \o p)
<1> DEFINE g == f \o p
           rf == Readable(f)
           rg == Readable(g)
<1>1. g \in Seq(Records) /\ Len(g) = Len(f) + Len(p) /\ Len(f) \in Nat /\ Len(p) \in Nat
  OBVIOUS
<1>1a. \A i \in 1 .. Len(f) : g[i] = f[i]
  OBVIOUS
<1>1b. \A i \in 1 .. Len(p) : g[Len(f) + i] = p[i]
  OBVIOUS
<1> HIDE DEF g
<1>2. /\ rf \in Seq(Records) /\ Begins(rf, f) /\ NoTorn(rf)
      /\ Len(rf) < Len(f) => f[Len(rf) + 1].kind = "torn"
      /\ NoTorn(f) => rf = f
  BY ReadableIs
<1>3. /\ rg \in Seq(Records) /\ Begins(rg, g) /\ NoTorn(rg)
      /\ NoTorn(g) => rg = g
  BY <1>1, ReadableIs
<1> HIDE DEF rf, rg
<1>4. Len(rf) \in Nat /\ Len(rg) \in Nat /\ Len(rf) <= Len(f) /\ Len(rg) <= Len(g)
  BY <1>2, <1>3 DEF Begins
<1>5. CASE NoTorn(f)
  <2>1. NoTorn(g)
    <3> SUFFICES ASSUME NEW i \in 1 .. Len(g) PROVE g[i].kind # "torn"
      BY DEF NoTorn
    <3>1. CASE i <= Len(f)
      BY <1>1, <1>1a, <1>5, <3>1 DEF NoTorn
    <3>2. CASE i > Len(f)
      <4>1. i - Len(f) \in 1 .. Len(p) /\ i = Len(f) + (i - Len(f))
        BY <1>1, <3>2
      <4>2. QED
        BY <1>1b, <4>1 DEF NoTorn
    <3>3. QED
      BY <1>1, <3>1, <3>2
  <2>2. rg = rf \o p
    BY <1>2, <1>3, <1>5, <2>1 DEF g
  <2>3. QED
    BY <1>3, <2>2 DEF Begins, rf, rg, g
<1>6. CASE ~ NoTorn(f)
  <2>1. Len(rf) < Len(f)
    <3> SUFFICES ASSUME Len(rf) = Len(f) PROVE FALSE
      BY <1>1, <1>4
    <3>1. QED
      BY <1>2, <1>6 DEF Begins, NoTorn
  <2>2. Len(rg) <= Len(rf)
    <3> SUFFICES ASSUME Len(rf) < Len(rg) PROVE FALSE
      BY <1>4
    <3>1. Len(rf) + 1 \in 1 .. Len(rg) /\ Len(rf) + 1 \in 1 .. Len(f)
      BY <1>1, <1>4, <2>1
    <3>2. rg[Len(rf) + 1] = f[Len(rf) + 1]
      BY <1>1a, <1>3, <3>1 DEF Begins
    <3>3. QED
      BY <1>2, <1>3, <2>1, <3>1, <3>2 DEF NoTorn
  <2>3. \A i \in 1 .. Len(rg) : rg[i] = rf[i]
    BY <1>1, <1>1a, <1>2, <1>3, <1>4, <2>2 DEF Begins
  <2>4. Len(rf \o p) = Len(rf) + Len(p) /\ \A i \in 1 .. Len(rf) : (rf \o p)[i] = rf[i]
    BY <1>2
  <2>5. Begins(rg, rf \o p)
    BY <1>1, <1>4, <2>2, <2>3, <2>4 DEF Begins
  <2>6. QED
    BY <2>5 DEF rf, rg, g
<1>7. QED
  BY <1>5, <1>6

-----------------------------------------------------------------------------
(* The records in the log                                                  *)

\* A record that may be in the log when n updates have been issued.
Proper(r, n) ==
  /\ r \in Records
  /\ r.kind \in {"L2P", "zone", "checkpoint"}
  /\ r.kind = "L2P" => r.id \in 1 .. n
  /\ r.kind = "checkpoint" => r.snap \in [Segs -> 0 .. n]

AllProper(f, n) == \A i \in 1 .. Len(f) : Proper(f[i], n)

\* What each goroutine has in hand at its step.
Local(t) ==
  /\ pc[t] = "snap" =>
       /\ t \in Loggers /\ rec[t].kind = "checkpoint"
       /\ DOMAIN rec[t].snap \subseteq Segs /\ DOMAIN rec[t].snap # Segs
       /\ \A s \in DOMAIN rec[t].snap : rec[t].snap[s] \in 0 .. Len(issued)
  /\ pc[t] = "append" =>
       /\ t \in Writers \union Loggers
       /\ Proper(rec[t], Len(issued))
       /\ t \in Writers <=> rec[t].kind = "L2P"
  /\ pc[t] = "apply" => t \in Writers
  /\ t \in Writers /\ pc[t] \in {"apply", "drain", "sync"} =>
       Proper(rec[t], Len(issued)) /\ rec[t].kind = "L2P"

TypeInv ==
  /\ TypeOK
  /\ Len(issued) <= MaxUpdates
  /\ table \in [Segs -> 0 .. Len(issued)]
  /\ \A i \in 1 .. Len(file) : Proper(file[i], Len(issued)) \/ file[i].kind = "torn"
  /\ AllProper(pending, Len(issued))
  /\ \A t \in Threads : Local(t)

\* What a restart could read, and what is still to be written behind it.
Log == Readable(file) \o pending

Unique(f)     == \A i, j \in 1 .. Len(f) : f[i].lsn = f[j].lsn => i = j
Below(f, n)   == \A i \in 1 .. Len(f) : f[i].lsn <= n
Without(f, n) == \A i \in 1 .. Len(f) : f[i].lsn # n

\* The goroutines that have taken an LSN and not yet appended its record.
Took(t) == pc[t] \in {"snap", "append"}

LSNInv ==
  /\ Unique(Log) /\ Below(Log, lsn)
  /\ \A t \in Threads : Took(t) => rec[t].lsn <= lsn /\ Without(Log, rec[t].lsn)
  /\ \A t, u \in Threads : Took(t) /\ Took(u) /\ t # u => rec[t].lsn # rec[u].lsn

JournalInv == TypeInv /\ LSNInv

LEMMA LSNTyped ==
  ASSUME NEW f \in Seq(Records), NEW i \in 1 .. Len(f)
  PROVE  f[i].lsn \in Nat
<1>1. f[i] \in Records
  OBVIOUS
<1>2. QED
  BY <1>1 DEF Records

LEMMA NoRecTyped == NoRec \in Records
<1>1. << >> \in [{} -> 0 .. MaxUpdates]
  OBVIOUS
<1>2. {} \in SUBSET Segs
  OBVIOUS
<1>3. << >> \in Snaps
  BY <1>1, <1>2 DEF Snaps
<1>4. QED
  BY <1>3 DEF NoRec, NoSnap, Records

LEMMA ProperGrows ==
  ASSUME NEW n \in Nat, NEW m \in Nat, n <= m, NEW r, Proper(r, n)
  PROVE  Proper(r, m)
<1>1. 1 .. n \subseteq 1 .. m /\ 0 .. n \subseteq 0 .. m
  OBVIOUS
<1>2. r.snap \in [Segs -> 0 .. n] => r.snap \in [Segs -> 0 .. m]
  BY <1>1
<1>3. QED
  BY <1>1, <1>2 DEF Proper

\* The readable part of a log of proper and torn records is proper.
LEMMA ReadableProper ==
  ASSUME NEW f \in Seq(Records), NEW n \in Nat,
         \A i \in 1 .. Len(f) : Proper(f[i], n) \/ f[i].kind = "torn"
  PROVE  AllProper(Readable(f), n)
<1>1. /\ Readable(f) \in Seq(Records) /\ Begins(Readable(f), f) /\ NoTorn(Readable(f))
  BY ReadableIs
<1>2. QED
  BY <1>1 DEF AllProper, NoTorn, Begins

LEMMA LogTyped ==
  ASSUME TypeInv
  PROVE  /\ Readable(file) \in Seq(Records) /\ Log \in Seq(Records)
         /\ AllProper(Readable(file), Len(issued)) /\ AllProper(Log, Len(issued))
         /\ Len(Log) = Len(Readable(file)) + Len(pending)
         /\ Begins(Readable(file), Log)
<1>1. /\ file \in Seq(Records) /\ pending \in Seq(Records) /\ Len(issued) \in Nat
      /\ AllProper(pending, Len(issued))
  BY DEF TypeInv, TypeOK
<1>2. Readable(file) \in Seq(Records) /\ AllProper(Readable(file), Len(issued))
  BY <1>1, ReadableIs, ReadableProper DEF TypeInv
<1>3. /\ Log \in Seq(Records) /\ Len(Log) = Len(Readable(file)) + Len(pending)
      /\ \A i \in 1 .. Len(Readable(file)) : Log[i] = Readable(file)[i]
      /\ \A i \in 1 .. Len(pending) : Log[Len(Readable(file)) + i] = pending[i]
  BY <1>1, <1>2 DEF Log
<1>4. Len(Readable(file)) \in Nat /\ Len(pending) \in Nat
  BY <1>1, <1>2
<1>5. AllProper(Log, Len(issued))
  <2> SUFFICES ASSUME NEW i \in 1 .. Len(Log) PROVE Proper(Log[i], Len(issued))
    BY DEF AllProper
  <2>1. CASE i <= Len(Readable(file))
    BY <1>2, <1>3, <1>4, <2>1 DEF AllProper
  <2>2. CASE i > Len(Readable(file))
    <3>1. i - Len(Readable(file)) \in 1 .. Len(pending)
          /\ i = Len(Readable(file)) + (i - Len(Readable(file)))
      BY <1>3, <1>4, <2>2
    <3>2. QED
      BY <1>1, <1>3, <3>1 DEF AllProper
  <2>3. QED
    BY <1>3, <1>4, <2>1, <2>2
<1>6. QED
  BY <1>2, <1>3, <1>4, <1>5 DEF Begins

\* The latest checkpoint is one, and the latest.
LEMMA LatestIs ==
  ASSUME NEW f \in Seq(Records), NEW b \in Nat, Below(f, b), Checkpoints(f) # {}
  PROVE  /\ ReadLatestCheckpoint(f) \in Checkpoints(f)
         /\ \A d \in Checkpoints(f) : d.lsn <= ReadLatestCheckpoint(f).lsn
<1> DEFINE S == {c.lsn : c \in Checkpoints(f)}
<1>1. \A c \in Checkpoints(f) : c.lsn \in Nat /\ c.lsn <= b
  BY LSNTyped DEF Checkpoints, Below
<1>2. S \in SUBSET Nat /\ S # {} /\ \A x \in S : x <= b
  BY <1>1
<1>3. PICK x \in S : \A y \in S : y <= x
  BY <1>2, LargestExists
<1>4. \E c \in Checkpoints(f) : \A d \in Checkpoints(f) : d.lsn <= c.lsn
  BY <1>3
<1>5. QED
  BY <1>4 DEF ReadLatestCheckpoint

\* What replay starts from has an entry for every segment.
LEMMA SnapshotTyped ==
  ASSUME NEW f \in Seq(Records), NEW b \in Nat, Below(f, b), NEW n \in Nat, AllProper(f, n)
  PROVE  LoadSnapshot(f).snap \in [Segs -> 0 .. n] /\ LoadSnapshot(f).lsn \in Nat
<1>1. CASE Checkpoints(f) = {}
  <2>1. LoadSnapshot(f) = [NoRec EXCEPT !.snap = [s \in Segs |-> 0]]
    BY <1>1 DEF LoadSnapshot
  <2>2. LoadSnapshot(f).snap = [s \in Segs |-> 0] /\ LoadSnapshot(f).lsn = 0
    BY <2>1 DEF NoRec
  <2>3. QED
    BY <2>2
<1>2. CASE Checkpoints(f) # {}
  <2>1. LoadSnapshot(f) \in Checkpoints(f)
    BY <1>2, LatestIs DEF LoadSnapshot
  <2>2. PICK i \in 1 .. Len(f) : LoadSnapshot(f) = f[i] /\ f[i].kind = "checkpoint"
    BY <2>1 DEF Checkpoints
  <2>3. QED
    BY <2>2 DEF AllProper, Proper, Records
<1>3. QED
  BY <1>1, <1>2

\* The records replayed for a segment are positions, and the last of them is one.
LEMMA LastOf ==
  ASSUME NEW f \in Seq(Records), NEW s \in Segs, NEW c, Last2P(f, s, c) # {}
  PROVE  /\ Max(Last2P(f, s, c)) \in Last2P(f, s, c)
         /\ \A i \in Last2P(f, s, c) : i <= Max(Last2P(f, s, c))
<1>1. Last2P(f, s, c) \in SUBSET Nat /\ Len(f) \in Nat
  BY DEF Last2P
<1>2. \A i \in Last2P(f, s, c) : i <= Len(f)
  BY DEF Last2P
<1>3. QED
  BY <1>1, <1>2, MaxIs

LEMMA ReplayTyped ==
  ASSUME NEW f \in Seq(Records), NEW b \in Nat, Below(f, b), NEW n \in Nat, AllProper(f, n)
  PROVE  Replay(f) \in [Segs -> 0 .. n]
<1> DEFINE c == LoadSnapshot(f)
<1>1. c.snap \in [Segs -> 0 .. n]
  BY SnapshotTyped
<1> HIDE DEF c
<1>2. ASSUME NEW s \in Segs, Last2P(f, s, c) # {}
      PROVE  f[Max(Last2P(f, s, c))].id \in 0 .. n
  <2>1. Max(Last2P(f, s, c)) \in Last2P(f, s, c)
    BY <1>2, LastOf
  <2>2. QED
    BY <2>1 DEF Last2P, AllProper, Proper
<1>3. QED
  BY <1>1, <1>2 DEF Replay, c

\* The counter a restart continues from is above everything it can read.
LEMMA ScanIsAbove ==
  ASSUME NEW f \in Seq(Records), NEW n \in RestoredLSN(f)
  PROVE  n \in Nat /\ Below(Readable(f), n)
<1> DEFINE r == Readable(f)
<1>1. r \in Seq(Records)
  BY ReadableIs
<1>2. \A i \in 1 .. Len(f) : f[i].lsn \in Nat
  BY LSNTyped
<1>3. /\ n \in {0} \union {f[i].lsn : i \in DOMAIN f}
      /\ \A i \in DOMAIN r : r[i].lsn <= n
  BY DEF RestoredLSN, scanMaxLSN
<1>4. DOMAIN f = 1 .. Len(f) /\ DOMAIN r = 1 .. Len(r)
  BY <1>1
<1>5. n \in Nat
  BY <1>2, <1>3, <1>4
<1>6. QED
  BY <1>3, <1>4, <1>5 DEF Below

-----------------------------------------------------------------------------
(* LSNs: what a step may do to the log, the counter and the records in hand *)

\* A goroutine takes the next LSN.
LEMMA TakeKeepsLSNs ==
  ASSUME TypeInv, LSNInv, NEW t \in Threads, Log' = Log, lsn' = lsn + 1,
         rec'[t].lsn = lsn + 1,
         \A u \in Threads \ {t} : pc'[u] = pc[u] /\ rec'[u] = rec[u]
  PROVE  LSNInv'
<1>1. /\ lsn \in Nat /\ Log \in Seq(Records)
      /\ \A u \in Threads : rec[u].lsn \in Nat
  BY LogTyped DEF TypeInv, TypeOK, Records
<1>2. \A i \in 1 .. Len(Log) : Log[i].lsn \in Nat /\ Log[i].lsn <= lsn
  BY <1>1, LSNTyped DEF LSNInv, Below
<1>3. Unique(Log)' /\ Below(Log, lsn)'
  BY <1>1, <1>2 DEF LSNInv, Unique, Below
<1>4. ASSUME NEW u \in Threads, Took(u)'
      PROVE  rec'[u].lsn <= lsn' /\ Without(Log, rec[u].lsn)'
  <2>1. CASE u = t
    BY <1>1, <1>2, <2>1 DEF Without
  <2>2. CASE u # t
    BY <1>1, <1>4, <2>2 DEF LSNInv, Without, Took
  <2>3. QED
    BY <2>1, <2>2
<1>5. ASSUME NEW u \in Threads, NEW v \in Threads, Took(u)', Took(v)', u # v
      PROVE  rec'[u].lsn # rec'[v].lsn
  <2>1. \A w \in Threads \ {t} : Took(w)' => rec'[w].lsn \in Nat /\ rec'[w].lsn <= lsn
    BY <1>1 DEF LSNInv, Took
  <2>2. QED
    BY <1>1, <1>5, <2>1 DEF LSNInv, Took
<1>6. QED
  BY <1>3, <1>4, <1>5 DEF LSNInv

\* Records leave the end of the log, or none does.
LEMMA CutKeepsLSNs ==
  ASSUME TypeInv, LSNInv, Log' \in Seq(Records), Begins(Log', Log), lsn' = lsn,
         \A u \in Threads : Took(u)' => Took(u) /\ rec'[u].lsn = rec[u].lsn
  PROVE  LSNInv'
<1>1. Log \in Seq(Records)
  BY LogTyped
<1>2. /\ Len(Log') \in Nat /\ Len(Log) \in Nat /\ Len(Log') <= Len(Log)
      /\ \A i \in 1 .. Len(Log') : i \in 1 .. Len(Log) /\ Log'[i] = Log[i]
  BY <1>1 DEF Begins
<1>3. Unique(Log)' /\ Below(Log, lsn)'
  BY <1>2 DEF LSNInv, Unique, Below
<1>4. \A n : Without(Log, n) => Without(Log', n)
  BY <1>2 DEF Without
<1>5. ASSUME NEW u \in Threads, Took(u)'
      PROVE  rec'[u].lsn <= lsn' /\ Without(Log', rec'[u].lsn)
  <2>1. rec'[u].lsn = rec[u].lsn /\ rec[u].lsn <= lsn /\ Without(Log, rec[u].lsn)
    BY <1>5 DEF LSNInv
  <2>2. QED
    BY <1>4, <2>1
<1>6. ASSUME NEW u \in Threads, NEW v \in Threads, Took(u)', Took(v)', u # v
      PROVE  rec'[u].lsn # rec'[v].lsn
  BY <1>6 DEF LSNInv
<1>7. QED
  BY <1>3, <1>5, <1>6 DEF LSNInv

\* A goroutine appends its record.
LEMMA AppendKeepsLSNs ==
  ASSUME TypeInv, LSNInv, NEW t \in Threads, Took(t), ~ Took(t)',
         Log' = Append(Log, rec[t]), lsn' = lsn, rec' = rec,
         \A u \in Threads \ {t} : pc'[u] = pc[u]
  PROVE  LSNInv'
<1>1. Log \in Seq(Records) /\ rec[t] \in Records
  BY LogTyped DEF TypeInv, TypeOK
<1>2. /\ Len(Log') = Len(Log) + 1 /\ Len(Log) \in Nat
      /\ \A i \in 1 .. Len(Log) : Log'[i] = Log[i]
      /\ Log'[Len(Log) + 1] = rec[t]
      /\ \A i \in 1 .. Len(Log') : i \in 1 .. Len(Log) \/ i = Len(Log) + 1
  BY <1>1
<1>3. Unique(Log) /\ Below(Log, lsn) /\ rec[t].lsn <= lsn /\ Without(Log, rec[t].lsn)
  BY DEF LSNInv
<1>4. Unique(Log)' /\ Below(Log, lsn)'
  BY <1>2, <1>3 DEF Unique, Below, Without
<1>5. ASSUME NEW u \in Threads, Took(u)'
      PROVE  rec'[u].lsn <= lsn' /\ Without(Log, rec[u].lsn)'
  <2>1. u # t /\ Took(u)
    BY <1>5 DEF Took
  <2>2. rec[u].lsn <= lsn /\ Without(Log, rec[u].lsn) /\ rec[u].lsn # rec[t].lsn
    BY <2>1 DEF LSNInv
  <2>3. QED
    BY <1>2, <2>2 DEF Without
<1>6. \A u, v \in Threads : Took(u)' /\ Took(v)' /\ u # v => rec'[u].lsn # rec'[v].lsn
  BY DEF LSNInv, Took
<1>7. QED
  BY <1>4, <1>5, <1>6 DEF LSNInv

-----------------------------------------------------------------------------
(* Types: one goroutine's step                                             *)

Steps == {"idle", "snap", "append", "apply", "drain", "sync"}

\* The other goroutines keep what they have in hand.
LEMMA OthersLocal ==
  ASSUME TypeInv, NEW t \in Threads, NEW step, NEW r,
         pc' = [pc EXCEPT ![t] = step], rec' = [rec EXCEPT ![t] = r],
         Len(issued') \in Nat, Len(issued) <= Len(issued'),
         NEW u \in Threads, u # t
  PROVE  Local(u)'
<1>1. pc'[u] = pc[u] /\ rec'[u] = rec[u]
  BY DEF TypeInv, TypeOK
<1>2. Len(issued) \in Nat /\ Local(u)
  BY DEF TypeInv, TypeOK
<1>3. Proper(rec[u], Len(issued)) => Proper(rec[u], Len(issued'))
  BY <1>2, ProperGrows
<1>4. 0 .. Len(issued) \subseteq 0 .. Len(issued')
  BY <1>2
<1>5. QED
  BY <1>1, <1>2, <1>3, <1>4 DEF Local

\* A record freshly made by TakeLSN.
Fresh(kind, n, id) == [NoRec EXCEPT !.kind = kind, !.lsn = n, !.id = id]

LEMMA FreshIs ==
  ASSUME NEW kind \in {"L2P", "zone", "checkpoint"}, NEW n \in Nat, NEW id \in Nat
  PROVE  LET r == Fresh(kind, n, id)
         IN r \in Records /\ r.kind = kind /\ r.lsn = n /\ r.id = id /\ r.snap = << >>
<1>1. << >> \in Snaps
  BY NoRecTyped DEF NoRec, NoSnap, Records
<1>2. QED
  BY <1>1 DEF Fresh, NoRec, NoSnap, Records

\* The parts a step of goroutine t leaves to show.
LEMMA TypeKept ==
  ASSUME TypeInv, NEW t \in Threads, NEW step \in Steps, NEW r \in Records,
         pc' = [pc EXCEPT ![t] = step], rec' = [rec EXCEPT ![t] = r],
         issued' = issued, lsn' \in Nat, zoned' \in Nat, crashes' \in Nat,
         mu' \in Writers \union Loggers \union {NoOne},
         acked' \subseteq 1 .. Len(issued),
         pending' \in Seq(Records), AllProper(pending', Len(issued)),
         file' \in Seq(Records), synced' \in 0 .. Len(file'),
         \A i \in 1 .. Len(file') : Proper(file'[i], Len(issued)) \/ file'[i].kind = "torn",
         table' \in [Segs -> 0 .. Len(issued)],
         Local(t)'
  PROVE  TypeInv'
<1>1. Len(issued) \in Nat
  BY DEF TypeInv, TypeOK
<1>2. ASSUME NEW u \in Threads PROVE Local(u)'
  <2>1. Len(issued') \in Nat /\ Len(issued) <= Len(issued')
    BY <1>1
  <2>2. CASE u # t
    BY <2>1, <2>2, OthersLocal
  <2>3. QED
    BY <2>2
<1>3. pc' \in [Threads -> Steps] /\ rec' \in [Threads -> Records]
  BY DEF TypeInv, TypeOK, Steps
<1>4. table' \in [Segs -> Nat]
  BY <1>1
<1>5. TypeOK'
  BY <1>3, <1>4 DEF TypeInv, TypeOK, Steps
<1>6. QED
  BY <1>2, <1>5 DEF TypeInv, AllProper

-----------------------------------------------------------------------------
(* The actions                                                             *)

\* The log only depends on the file and on what is pending.
LEMMA SameLog ==
  ASSUME UNCHANGED <<file, pending>>
  PROVE  Log' = Log
  BY DEF Log

LEMMA LogL2PUpdateKeeps ==
  ASSUME JournalInv, NEW t \in Writers, NEW s \in Segs, LogL2PUpdate(t, s)
  PROVE  JournalInv'
<1> DEFINE n == Len(issued)
           r == Fresh("L2P", lsn + 1, n + 1)
<1>1. t \in Threads /\ n \in Nat /\ lsn \in Nat
  BY DEF Threads, JournalInv, TypeInv, TypeOK
<1>2. /\ issued' = Append(issued, s) /\ mu' = t /\ lsn' = lsn + 1 /\ n < MaxUpdates
      /\ rec' = [rec EXCEPT ![t] = r] /\ pc' = [pc EXCEPT ![t] = "append"]
      /\ UNCHANGED <<pending, file, synced, table, zoned, crashes, acked>>
  BY DEF LogL2PUpdate, TakeLSN, Goto, Fresh
<1>3. r \in Records /\ r.kind = "L2P" /\ r.lsn = lsn + 1 /\ r.id = n + 1
  BY <1>1, FreshIs
<1> HIDE DEF r
<1>4. issued' \in Seq(Segs) /\ Len(issued') = n + 1
  BY <1>2 DEF JournalInv, TypeInv, TypeOK
<1>5. pc' \in [Threads -> Steps] /\ rec' \in [Threads -> Records]
      /\ pc'[t] = "append" /\ rec'[t] = r
  BY <1>1, <1>2, <1>3 DEF JournalInv, TypeInv, TypeOK, Steps
<1>6. \A q : Proper(q, n) => Proper(q, n + 1)
  BY <1>1, ProperGrows
<1>7. Proper(r, n + 1)
  BY <1>1, <1>3 DEF Proper
<1>8. ASSUME NEW u \in Threads PROVE Local(u)'
  <2>1. CASE u = t
    BY <1>3, <1>4, <1>5, <1>7, <2>1 DEF Local
  <2>2. CASE u # t
    <3>1. Len(issued') \in Nat /\ Len(issued) <= Len(issued')
      BY <1>1, <1>4
    <3>2. TypeInv
      BY DEF JournalInv
    <3>3. QED
      BY <1>1, <1>2, <2>2, <3>1, <3>2, OthersLocal
  <2>3. QED
    BY <2>1, <2>2
<1>9. table' \in [Segs -> 0 .. n + 1]
  <2>1. 0 .. n \subseteq 0 .. n + 1
    BY <1>1
  <2>2. QED
    BY <1>2, <2>1 DEF JournalInv, TypeInv
<1>10. TypeOK'
  <2>1. acked' \subseteq 1 .. Len(issued')
    BY <1>1, <1>2, <1>4 DEF JournalInv, TypeInv, TypeOK
  <2>2. QED
    BY <1>1, <1>2, <1>4, <1>5, <2>1 DEF JournalInv, TypeInv, TypeOK, Steps
<1>11. TypeInv'
  <2>1. Len(issued') <= MaxUpdates
    BY <1>1, <1>2, <1>4, JournalAssumption
  <2>2. AllProper(pending, n + 1)
    BY <1>6 DEF JournalInv, TypeInv, AllProper
  <2>3. \A i \in 1 .. Len(file) : Proper(file[i], n + 1) \/ file[i].kind = "torn"
    BY <1>6 DEF JournalInv, TypeInv
  <2>4. QED
    BY <1>2, <1>4, <1>8, <1>9, <1>10, <2>1, <2>2, <2>3 DEF TypeInv
<1>12. LSNInv'
  <2>1. Log' = Log
    BY <1>2, SameLog
  <2>2. \A u \in Threads \ {t} : pc'[u] = pc[u] /\ rec'[u] = rec[u]
    BY <1>2 DEF JournalInv, TypeInv, TypeOK
  <2>3. QED
    BY <1>1, <1>2, <1>3, <1>5, <2>1, <2>2, TakeKeepsLSNs DEF JournalInv
<1>13. QED
  BY <1>11, <1>12 DEF JournalInv

\* LogZoneAction and WriteCheckpoint.
LEMMA LoggerTakesLSN ==
  ASSUME JournalInv, NEW t \in Loggers, LogZoneAction(t) \/ WriteCheckpoint(t)
  PROVE  JournalInv'
<1> DEFINE kind == IF LogZoneAction(t) THEN "zone" ELSE "checkpoint"
           step == IF LogZoneAction(t) THEN "append" ELSE "snap"
           r == Fresh(kind, lsn + 1, 0)
<1>1. t \in Threads /\ lsn \in Nat /\ t \notin Writers
  BY JournalAssumption DEF Threads, JournalInv, TypeInv, TypeOK
<1>2. /\ lsn' = lsn + 1 /\ zoned' = zoned + 1
      /\ rec' = [rec EXCEPT ![t] = r] /\ pc' = [pc EXCEPT ![t] = step]
      /\ UNCHANGED <<pending, file, synced, table, crashes, acked, issued>>
  BY DEF LogZoneAction, WriteCheckpoint, TakeLSN, Goto, Fresh
<1>2a. mu' \in {mu, t}
  BY DEF LogZoneAction, WriteCheckpoint
<1>3. r \in Records /\ r.kind = kind /\ r.lsn = lsn + 1 /\ r.id = 0 /\ r.snap = << >>
  BY <1>1, FreshIs
<1>4. /\ step \in {"append", "snap"} /\ kind \in {"zone", "checkpoint"}
      /\ step = "append" <=> kind = "zone"
  OBVIOUS
<1> HIDE DEF r, kind, step
<1>5. pc'[t] = step /\ rec'[t] = r
  BY <1>1, <1>2 DEF JournalInv, TypeInv, TypeOK
<1>6. Local(t)'
  <2>1. CASE step = "append"
    <3>1. Proper(r, Len(issued))
      BY <1>3, <1>4, <2>1 DEF Proper
    <3>2. QED
      BY <1>1, <1>2, <1>3, <1>4, <1>5, <2>1, <3>1 DEF Local
  <2>2. CASE step = "snap"
    <3>1. DOMAIN r.snap = {} /\ Segs # {}
      BY <1>3, JournalAssumption
    <3>2. QED
      BY <1>1, <1>3, <1>4, <1>5, <2>2, <3>1 DEF Local
  <2>3. QED
    BY <1>4, <2>1, <2>2
<1>7. TypeInv'
  <2>1. step \in Steps
    BY <1>4 DEF Steps
  <2>2. lsn' \in Nat /\ zoned' \in Nat /\ crashes' \in Nat
    BY <1>2 DEF JournalInv, TypeInv, TypeOK
  <2>3. mu' \in Writers \union Loggers \union {NoOne}
    BY <1>2a DEF JournalInv, TypeInv, TypeOK
  <2>4. /\ acked' \subseteq 1 .. Len(issued) /\ pending' \in Seq(Records)
        /\ file' \in Seq(Records) /\ synced' \in 0 .. Len(file')
        /\ AllProper(pending', Len(issued)) /\ table' \in [Segs -> 0 .. Len(issued)]
        /\ \A i \in 1 .. Len(file') : Proper(file'[i], Len(issued)) \/ file'[i].kind = "torn"
    BY <1>2 DEF JournalInv, TypeInv, TypeOK
  <2>5. QED
    BY <1>1, <1>2, <1>3, <1>6, <2>1, <2>2, <2>3, <2>4, TypeKept DEF JournalInv
<1>8. LSNInv'
  <2>1. Log' = Log
    BY <1>2, SameLog
  <2>2. \A u \in Threads \ {t} : pc'[u] = pc[u] /\ rec'[u] = rec[u]
    BY <1>2 DEF JournalInv, TypeInv, TypeOK
  <2>3. QED
    BY <1>1, <1>2, <1>3, <1>5, <2>1, <2>2, TakeKeepsLSNs DEF JournalInv
<1>9. QED
  BY <1>7, <1>8 DEF JournalInv

LEMMA SnapshotKeeps ==
  ASSUME JournalInv, NEW t \in Threads, Snapshot(t)
  PROVE  JournalInv'
<1> DEFINE D == DOMAIN rec[t].snap
           n == Len(issued)
           s == CHOOSE s \in Segs : s \notin D
           snap == [q \in D \union {s} |-> IF q = s THEN table[s] ELSE rec[t].snap[q]]
           r == [rec[t] EXCEPT !.snap = snap]
           step == IF DOMAIN snap = Segs THEN "append" ELSE "snap"
<1>1. /\ pc[t] = "snap" /\ t \in Loggers /\ rec[t] \in Records /\ rec[t].kind = "checkpoint"
      /\ D \subseteq Segs /\ D # Segs /\ \A q \in D : rec[t].snap[q] \in 0 .. n
  BY DEF Snapshot, JournalInv, TypeInv, TypeOK, Local
<1>2. /\ n \in Nat /\ n <= MaxUpdates /\ MaxUpdates \in Nat /\ table \in [Segs -> 0 .. n]
      /\ rec \in [Threads -> Records] /\ t \notin Writers
  BY <1>1, JournalAssumption DEF JournalInv, TypeInv, TypeOK
<1>3. s \in Segs /\ s \notin D
  BY <1>1
<1>4. /\ rec' = [rec EXCEPT ![t].snap = snap]
      /\ pc' = [pc EXCEPT ![t] = step] /\ mu' \in {mu, NoOne}
      /\ UNCHANGED <<lsn, pending, file, synced, table, issued, zoned, crashes, acked>>
  BY DEF Snapshot, Goto, logVars
<1> HIDE DEF s
<1>5. /\ DOMAIN snap = D \union {s} /\ D \union {s} \subseteq Segs
      /\ snap \in [D \union {s} -> 0 .. n]
  BY <1>1, <1>2, <1>3
<1> HIDE DEF snap, D
<1>6. snap \in Snaps
  <2>1. 0 .. n \subseteq 0 .. MaxUpdates
    BY <1>2
  <2>2. snap \in [D \union {s} -> 0 .. MaxUpdates]
    BY <1>5, <2>1
  <2>3. QED
    BY <1>5, <2>2 DEF Snaps
<1>7. r \in Records /\ r.kind = "checkpoint" /\ r.lsn = rec[t].lsn /\ r.snap = snap
  BY <1>1, <1>6 DEF Records
<1>8. rec' = [rec EXCEPT ![t] = r]
  BY <1>2, <1>4
<1> HIDE DEF r
<1>9. pc'[t] = step /\ rec'[t] = r /\ step \in Steps /\ step \in {"append", "snap"}
  BY <1>4, <1>8, <1>2 DEF JournalInv, TypeInv, TypeOK, Steps
<1>10. Local(t)'
  <2>1. CASE DOMAIN snap = Segs
    <3>1. Proper(r, n)
      BY <1>5, <1>7, <2>1 DEF Proper
    <3>2. QED
      BY <1>1, <1>2, <1>4, <1>7, <1>9, <2>1, <3>1 DEF Local
  <2>2. CASE DOMAIN snap # Segs
    BY <1>1, <1>4, <1>5, <1>7, <1>9, <2>2 DEF Local
  <2>3. QED
    BY <2>1, <2>2
<1> HIDE DEF step
<1>11. TypeInv'
  <2>1. /\ lsn' \in Nat /\ zoned' \in Nat /\ crashes' \in Nat
        /\ mu' \in Writers \union Loggers \union {NoOne}
    BY <1>4 DEF JournalInv, TypeInv, TypeOK
  <2>2. /\ acked' \subseteq 1 .. Len(issued) /\ pending' \in Seq(Records)
        /\ file' \in Seq(Records) /\ synced' \in 0 .. Len(file')
        /\ AllProper(pending', Len(issued)) /\ table' \in [Segs -> 0 .. Len(issued)]
        /\ \A i \in 1 .. Len(file') : Proper(file'[i], Len(issued)) \/ file'[i].kind = "torn"
    BY <1>4 DEF JournalInv, TypeInv, TypeOK
  <2>3. QED
    BY <1>4, <1>7, <1>8, <1>9, <1>10, <2>1, <2>2, TypeKept DEF JournalInv
<1>12. LSNInv'
  <2>1. Log' = Log
    BY <1>4, SameLog
  <2>2. Log' \in Seq(Records) /\ Begins(Log', Log)
    BY <2>1, LogTyped DEF JournalInv, Begins
  <2>3. \A u \in Threads : Took(u)' => Took(u) /\ rec'[u].lsn = rec[u].lsn
    BY <1>1, <1>2, <1>4, <1>7, <1>8 DEF Took, JournalInv, TypeInv, TypeOK
  <2>4. QED
    BY <1>4, <2>2, <2>3, CutKeepsLSNs DEF JournalInv
<1>13. QED
  BY <1>11, <1>12 DEF JournalInv

LEMMA AppendProper ==
  ASSUME NEW f \in Seq(Records), NEW r \in Records, NEW n, AllProper(f, n), Proper(r, n)
  PROVE  Append(f, r) \in Seq(Records) /\ AllProper(Append(f, r), n)
<1>1. /\ Append(f, r) \in Seq(Records) /\ Len(Append(f, r)) = Len(f) + 1 /\ Len(f) \in Nat
      /\ \A i \in 1 .. Len(f) : Append(f, r)[i] = f[i]
      /\ Append(f, r)[Len(f) + 1] = r
      /\ \A i \in 1 .. Len(f) + 1 : i \in 1 .. Len(f) \/ i = Len(f) + 1
  OBVIOUS
<1>2. QED
  BY <1>1 DEF AllProper

LEMMA appendRecordKeeps ==
  ASSUME JournalInv, NEW t \in Threads, appendRecord(t)
  PROVE  JournalInv'
<1> DEFINE step == IF t \in Writers THEN "apply" ELSE "drain"
           n == Len(issued)
<1>1. /\ pc[t] = "append" /\ Proper(rec[t], n) /\ rec[t] \in Records
      /\ t \in Writers <=> rec[t].kind = "L2P"
  BY DEF appendRecord, JournalInv, TypeInv, TypeOK, Local
<1>2. /\ pending' = Append(pending, rec[t])
      /\ pc' = [pc EXCEPT ![t] = step]
      /\ UNCHANGED <<lsn, file, synced, table, mu, rec, issued, zoned, crashes, acked>>
  BY DEF appendRecord, Goto
<1>3. pc'[t] = step /\ rec' = [rec EXCEPT ![t] = rec[t]] /\ step \in Steps
  BY <1>2 DEF JournalInv, TypeInv, TypeOK, Steps
<1>4. Local(t)'
  BY <1>1, <1>2, <1>3 DEF Local
<1>5. pending' \in Seq(Records) /\ AllProper(pending', n)
  BY <1>1, <1>2, AppendProper DEF JournalInv, TypeInv, TypeOK
<1>6. TypeInv'
  <2>1. /\ lsn' \in Nat /\ zoned' \in Nat /\ crashes' \in Nat
        /\ mu' \in Writers \union Loggers \union {NoOne}
        /\ acked' \subseteq 1 .. Len(issued)
        /\ file' \in Seq(Records) /\ synced' \in 0 .. Len(file')
        /\ table' \in [Segs -> 0 .. Len(issued)]
        /\ \A i \in 1 .. Len(file') : Proper(file'[i], Len(issued)) \/ file'[i].kind = "torn"
    BY <1>2 DEF JournalInv, TypeInv, TypeOK
  <2>2. QED
    BY <1>1, <1>2, <1>3, <1>4, <1>5, <2>1, TypeKept DEF JournalInv
<1>7. LSNInv'
  <2>1. Log' = Append(Log, rec[t])
    <3>1. Readable(file) \in Seq(Records) /\ pending \in Seq(Records)
      BY LogTyped DEF JournalInv, TypeInv, TypeOK
    <3>2. Readable(file) \o Append(pending, rec[t]) = Append(Readable(file) \o pending, rec[t])
      BY <1>1, <3>1
    <3>3. QED
      BY <1>2, <3>2 DEF Log
  <2>2. Took(t) /\ ~ Took(t)' /\ \A u \in Threads \ {t} : pc'[u] = pc[u]
    BY <1>1, <1>2, <1>3 DEF Took, JournalInv, TypeInv, TypeOK
  <2>3. QED
    BY <1>2, <2>1, <2>2, AppendKeepsLSNs DEF JournalInv
<1>8. QED
  BY <1>6, <1>7 DEF JournalInv

LEMMA ApplyKeeps ==
  ASSUME JournalInv, NEW t \in Threads, Apply(t)
  PROVE  JournalInv'
<1> DEFINE n == Len(issued)
<1>1. /\ pc[t] = "apply" /\ t \in Writers /\ Proper(rec[t], n) /\ rec[t] \in Records
      /\ rec[t].kind = "L2P" /\ rec[t].id \in 1 .. n
  BY DEF Apply, JournalInv, TypeInv, TypeOK, Local, Proper
<1>2. /\ table' = [table EXCEPT ![issued[rec[t].id]] = rec[t].id]
      /\ mu' = NoOne /\ pc' = [pc EXCEPT ![t] = "drain"]
      /\ UNCHANGED <<lsn, pending, file, synced, rec, issued, zoned, crashes, acked>>
  BY DEF Apply, Goto, logVars
<1>3. pc'[t] = "drain" /\ rec' = [rec EXCEPT ![t] = rec[t]] /\ "drain" \in Steps
  BY <1>2 DEF JournalInv, TypeInv, TypeOK, Steps
<1>4. Local(t)'
  BY <1>1, <1>2, <1>3 DEF Local
<1>5. table' \in [Segs -> 0 .. n]
  <2>1. issued[rec[t].id] \in Segs /\ rec[t].id \in 0 .. n
    BY <1>1 DEF JournalInv, TypeInv, TypeOK
  <2>2. QED
    BY <1>2, <2>1 DEF JournalInv, TypeInv
<1>6. TypeInv'
  <2>1. /\ lsn' \in Nat /\ zoned' \in Nat /\ crashes' \in Nat
        /\ mu' \in Writers \union Loggers \union {NoOne}
        /\ acked' \subseteq 1 .. Len(issued)
        /\ pending' \in Seq(Records) /\ AllProper(pending', Len(issued))
        /\ file' \in Seq(Records) /\ synced' \in 0 .. Len(file')
        /\ \A i \in 1 .. Len(file') : Proper(file'[i], Len(issued)) \/ file'[i].kind = "torn"
    BY <1>2 DEF JournalInv, TypeInv, TypeOK
  <2>2. QED
    BY <1>1, <1>2, <1>3, <1>4, <1>5, <2>1, TypeKept DEF JournalInv
<1>7. LSNInv'
  <2>1. Log' = Log
    BY <1>2, SameLog
  <2>2. Log' \in Seq(Records) /\ Begins(Log', Log)
    BY <2>1, LogTyped DEF JournalInv, Begins
  <2>3. \A u \in Threads : Took(u)' => Took(u) /\ rec'[u].lsn = rec[u].lsn
    BY <1>2 DEF Took, JournalInv, TypeInv, TypeOK
  <2>4. QED
    BY <1>2, <2>2, <2>3, CutKeepsLSNs DEF JournalInv
<1>8. QED
  BY <1>6, <1>7 DEF JournalInv

\* The readable log when what is pending reaches the file.
LEMMA DrainedLog ==
  ASSUME TypeInv, file' = file \o pending, pending' = << >>
  PROVE  /\ file' \in Seq(Records) /\ Len(file') >= Len(file)
         /\ \A i \in 1 .. Len(file') : Proper(file'[i], Len(issued)) \/ file'[i].kind = "torn"
         /\ Log' \in Seq(Records) /\ Begins(Log', Log)
<1>1. /\ file \in Seq(Records) /\ pending \in Seq(Records) /\ AllProper(pending, Len(issued))
      /\ \A i \in 1 .. Len(file) : Proper(file[i], Len(issued)) \/ file[i].kind = "torn"
  BY DEF TypeInv, TypeOK
<1>2. /\ file' \in Seq(Records) /\ Len(file') = Len(file) + Len(pending)
      /\ Len(file) \in Nat /\ Len(pending) \in Nat
  BY <1>1
<1>3. \A i \in 1 .. Len(file) : file'[i] = file[i]
  BY <1>1
<1>4. \A i \in 1 .. Len(pending) : file'[Len(file) + i] = pending[i]
  BY <1>1
<1>5. ASSUME NEW i \in 1 .. Len(file')
      PROVE  Proper(file'[i], Len(issued)) \/ file'[i].kind = "torn"
  <2>1. CASE i <= Len(file)
    BY <1>1, <1>2, <1>3, <2>1
  <2>2. CASE i > Len(file)
    <3>1. i - Len(file) \in 1 .. Len(pending) /\ i = Len(file) + (i - Len(file))
      BY <1>2, <2>2
    <3>2. QED
      BY <1>1, <1>4, <3>1 DEF AllProper
  <2>3. QED
    BY <1>2, <2>1, <2>2
<1>6. NoTorn(pending)
  BY <1>1 DEF AllProper, Proper, NoTorn
<1>7. Begins(Readable(file'), Log)
  BY <1>1, <1>6, ReadableDrained DEF Log
<1>8. Readable(file') \in Seq(Records) /\ Readable(file') \o << >> = Readable(file')
  BY <1>2, ReadableIs, ConcatEmptySeq
<1>9. Log' = Readable(file')
  BY <1>8 DEF Log
<1>10. QED
  BY <1>2, <1>5, <1>7, <1>8, <1>9

\* The caller of GroupCommit returns.
LEMMA ReturnKeeps ==
  ASSUME JournalInv, NEW t \in Threads, pc[t] \in {"drain", "sync"}, Return(t),
         synced' \in {synced, Len(file)},
         UNCHANGED <<lsn, pending, file, table, mu, issued, zoned, crashes>>
  PROVE  JournalInv'
<1> DEFINE n == Len(issued)
<1>1. /\ rec' = [rec EXCEPT ![t] = NoRec] /\ pc' = [pc EXCEPT ![t] = "idle"]
      /\ acked' = IF t \in Writers THEN acked \union {rec[t].id} ELSE acked
  BY DEF Return, Goto
<1>2. NoRec \in Records /\ "idle" \in Steps
  BY NoRecTyped DEF Steps
<1>3. pc'[t] = "idle"
  BY <1>1 DEF JournalInv, TypeInv, TypeOK
<1>4. Local(t)'
  BY <1>3 DEF Local
<1>5. acked' \subseteq 1 .. n
  <2>1. t \in Writers => rec[t].id \in 1 .. n
    BY DEF JournalInv, TypeInv, Local, Proper
  <2>2. QED
    BY <1>1, <2>1 DEF JournalInv, TypeInv, TypeOK
<1>6. TypeInv'
  <2>1. /\ lsn' \in Nat /\ zoned' \in Nat /\ crashes' \in Nat
        /\ mu' \in Writers \union Loggers \union {NoOne}
        /\ pending' \in Seq(Records) /\ AllProper(pending', Len(issued))
        /\ file' \in Seq(Records)
        /\ table' \in [Segs -> 0 .. Len(issued)]
        /\ \A i \in 1 .. Len(file') : Proper(file'[i], Len(issued)) \/ file'[i].kind = "torn"
    BY DEF JournalInv, TypeInv, TypeOK
  <2>2. synced' \in 0 .. Len(file')
    BY DEF JournalInv, TypeInv, TypeOK
  <2>3. QED
    BY <1>1, <1>2, <1>4, <1>5, <2>1, <2>2, TypeKept DEF JournalInv
<1>7. LSNInv'
  <2>1. Log' = Log
    BY SameLog
  <2>2. Log' \in Seq(Records) /\ Begins(Log', Log)
    BY <2>1, LogTyped DEF JournalInv, Begins
  <2>3. \A u \in Threads : Took(u)' => Took(u) /\ rec'[u].lsn = rec[u].lsn
    BY <1>1, <1>3 DEF Took, JournalInv, TypeInv, TypeOK
  <2>4. QED
    BY <2>2, <2>3, CutKeepsLSNs DEF JournalInv
<1>8. QED
  BY <1>6, <1>7 DEF JournalInv

LEMMA SyncKeeps ==
  ASSUME JournalInv, NEW t \in Threads, Sync(t)
  PROVE  JournalInv'
  BY ReturnKeeps DEF Sync

LEMMA DrainKeeps ==
  ASSUME JournalInv, NEW t \in Threads, Drain(t)
  PROVE  JournalInv'
<1>1. CASE pending = << >>
  BY <1>1, ReturnKeeps DEF Drain
<1>2. CASE pending # << >>
  <2>1. /\ pc[t] = "drain" /\ file' = file \o pending /\ pending' = << >>
        /\ pc' = [pc EXCEPT ![t] = "sync"]
        /\ UNCHANGED <<lsn, synced, table, mu, issued, zoned, crashes, acked, rec>>
    BY <1>2 DEF Drain, DrainTo, Goto
  <2>2. pc'[t] = "sync" /\ rec' = [rec EXCEPT ![t] = rec[t]] /\ "sync" \in Steps
        /\ rec[t] \in Records
    BY <2>1 DEF JournalInv, TypeInv, TypeOK, Steps
  <2>3. Local(t)'
    BY <2>1, <2>2 DEF Local, JournalInv, TypeInv
  <2>4. /\ file' \in Seq(Records) /\ Len(file') >= Len(file)
        /\ \A i \in 1 .. Len(file') : Proper(file'[i], Len(issued)) \/ file'[i].kind = "torn"
        /\ Log' \in Seq(Records) /\ Begins(Log', Log)
    BY <2>1, DrainedLog DEF JournalInv
  <2>5. TypeInv'
    <3>1. /\ lsn' \in Nat /\ zoned' \in Nat /\ crashes' \in Nat
          /\ mu' \in Writers \union Loggers \union {NoOne}
          /\ acked' \subseteq 1 .. Len(issued)
          /\ table' \in [Segs -> 0 .. Len(issued)]
      BY <2>1 DEF JournalInv, TypeInv, TypeOK
    <3>2. pending' \in Seq(Records) /\ AllProper(pending', Len(issued))
      BY <2>1 DEF AllProper
    <3>3. synced' \in 0 .. Len(file')
      BY <2>1, <2>4 DEF JournalInv, TypeInv, TypeOK
    <3>4. QED
      BY <2>1, <2>2, <2>3, <2>4, <3>1, <3>2, <3>3, TypeKept DEF JournalInv
  <2>6. \A u \in Threads : Took(u)' => Took(u) /\ rec'[u].lsn = rec[u].lsn
    BY <2>1, <2>2 DEF Took, JournalInv, TypeInv, TypeOK
  <2>7. LSNInv'
    BY <2>1, <2>4, <2>6, CutKeepsLSNs DEF JournalInv
  <2>8. QED
    BY <2>5, <2>7 DEF JournalInv
<1>3. QED
  BY <1>1, <1>2

LEMMA TickKeeps ==
  ASSUME JournalInv, NEW t \in Committers, Tick(t)
  PROVE  JournalInv'
<1>1. /\ t \in Threads /\ t \notin Writers /\ pc' = [pc EXCEPT ![t] = "drain"]
      /\ UNCHANGED <<lsn, pending, file, synced, table, mu, rec, issued, zoned, crashes, acked>>
  BY JournalAssumption DEF Tick, Goto, logVars, Threads
<1>2. pc'[t] = "drain" /\ rec' = [rec EXCEPT ![t] = rec[t]] /\ "drain" \in Steps
      /\ rec[t] \in Records
  BY <1>1 DEF JournalInv, TypeInv, TypeOK, Steps
<1>3. Local(t)'
  BY <1>1, <1>2 DEF Local
<1>4. TypeInv'
  <2>1. /\ lsn' \in Nat /\ zoned' \in Nat /\ crashes' \in Nat
        /\ mu' \in Writers \union Loggers \union {NoOne}
        /\ acked' \subseteq 1 .. Len(issued)
        /\ pending' \in Seq(Records) /\ AllProper(pending', Len(issued))
        /\ file' \in Seq(Records) /\ synced' \in 0 .. Len(file')
        /\ table' \in [Segs -> 0 .. Len(issued)]
        /\ \A i \in 1 .. Len(file') : Proper(file'[i], Len(issued)) \/ file'[i].kind = "torn"
    BY <1>1 DEF JournalInv, TypeInv, TypeOK
  <2>2. QED
    BY <1>1, <1>2, <1>3, <2>1, TypeKept DEF JournalInv
<1>5. LSNInv'
  <2>1. Log' = Log
    BY <1>1, SameLog
  <2>2. Log' \in Seq(Records) /\ Begins(Log', Log)
    BY <2>1, LogTyped DEF JournalInv, Begins
  <2>3. \A u \in Threads : Took(u)' => Took(u) /\ rec'[u].lsn = rec[u].lsn
    BY <1>1, <1>2 DEF Took, JournalInv, TypeInv, TypeOK
  <2>4. QED
    BY <1>1, <2>2, <2>3, CutKeepsLSNs DEF JournalInv
<1>6. QED
  BY <1>4, <1>5 DEF JournalInv

\* What a power loss leaves is a beginning of the file and at most a torn record.
LEMMA SurvivingIs ==
  ASSUME TypeInv, NEW f \in Surviving(file) \union {file}
  PROVE  /\ f \in Seq(Records)
         /\ \A i \in 1 .. Len(f) : Proper(f[i], Len(issued)) \/ f[i].kind = "torn"
         /\ Begins(Readable(f), Readable(file))
<1>1. /\ file \in Seq(Records) /\ synced \in 0 .. Len(file) /\ Len(file) \in Nat
      /\ \A i \in 1 .. Len(file) : Proper(file[i], Len(issued)) \/ file[i].kind = "torn"
  BY DEF TypeInv, TypeOK
<1>2. TornEntry \in Records /\ TornEntry.kind = "torn"
  BY NoRecTyped DEF TornEntry, NoRec, Records
<1>3. PICK k \in 0 .. Len(file) :
        \/ f = SubSeq(file, 1, k)
        \/ f = Append(SubSeq(file, 1, k), TornEntry)
        \/ f = file /\ k = Len(file)
  <2>1. CASE f = file
    BY <1>1, <2>1
  <2>2. CASE f \in {SubSeq(file, 1, k) : k \in synced .. Len(file)}
    <3>1. PICK k \in synced .. Len(file) : f = SubSeq(file, 1, k)
      BY <2>2
    <3>2. k \in 0 .. Len(file)
      BY <1>1
    <3>3. QED
      BY <3>1, <3>2
  <2>3. CASE f \in {Append(SubSeq(file, 1, k), TornEntry) : k \in synced .. Len(file) - 1}
    <3>1. PICK k \in synced .. Len(file) - 1 : f = Append(SubSeq(file, 1, k), TornEntry)
      BY <2>3
    <3>2. k \in 0 .. Len(file)
      BY <1>1
    <3>3. QED
      BY <3>1, <3>2
  <2>4. QED
    BY <2>1, <2>2, <2>3 DEF Surviving
<1> DEFINE h == SubSeq(file, 1, k)
<1>4. /\ h \in Seq(Records) /\ Len(h) = k
      /\ \A i \in 1 .. k : h[i] = file[i]
  BY <1>1
<1> HIDE DEF h
<1>5. /\ f \in Seq(Records)
      /\ \A i \in 1 .. k : f[i] = file[i]
      /\ Len(f) = k \/ (Len(f) = k + 1 /\ f[k + 1].kind = "torn")
  <2>1. CASE f = h
    BY <1>4, <2>1
  <2>2. CASE f = Append(h, TornEntry)
    <3>1. /\ f \in Seq(Records) /\ Len(f) = k + 1 /\ f[k + 1] = TornEntry
          /\ \A i \in 1 .. k : f[i] = h[i]
      BY <1>2, <1>4, <2>2
    <3>2. QED
      BY <1>2, <1>4, <3>1
  <2>3. CASE f = file /\ k = Len(file)
    BY <1>1, <2>3
  <2>4. QED
    BY <1>3, <2>1, <2>2, <2>3 DEF h
<1>6. \A i \in 1 .. Len(f) : Proper(f[i], Len(issued)) \/ f[i].kind = "torn"
  BY <1>1, <1>5
<1>7. QED
  BY <1>1, <1>5, <1>6, ReadableCut

LEMMA CrashKeeps ==
  ASSUME JournalInv, Crash
  PROVE  JournalInv'
<1>1. PICK f \in (IF PowerLoss THEN Surviving(file) ELSE {file}) :
         /\ file' = f
         /\ synced' = IF PowerLoss THEN Len(f) ELSE synced
         /\ table' = Restored(f)
         /\ lsn' \in RestoredLSN(f)
  BY DEF Crash
<1>2. /\ f \in Seq(Records)
      /\ \A i \in 1 .. Len(f) : Proper(f[i], Len(issued)) \/ f[i].kind = "torn"
      /\ Begins(Readable(f), Readable(file))
  BY SurvivingIs DEF JournalInv
<1>3. /\ Readable(f) \in Seq(Records) /\ AllProper(Readable(f), Len(issued))
      /\ Len(issued) \in Nat
  BY <1>2, ReadableIs, ReadableProper DEF JournalInv, TypeInv, TypeOK
<1>4. Begins(Readable(f), Log)
  <2>1. Begins(Readable(file), Log) /\ Readable(file) \in Seq(Records) /\ Log \in Seq(Records)
    BY LogTyped DEF JournalInv
  <2>2. QED
    BY <1>2, <1>3, <2>1 DEF Begins
<1>5. /\ pending' = << >> /\ crashes' = crashes + 1 /\ mu' = NoOne
      /\ pc' = [t \in Threads |-> "idle"] /\ rec' = [t \in Threads |-> NoRec]
      /\ UNCHANGED <<issued, zoned, acked>>
  BY DEF Crash
<1>6. Log' = Readable(f)
  BY <1>1, <1>3, <1>5, ConcatEmptySeq DEF Log
<1>7. Unique(Readable(f)) /\ Below(Readable(f), lsn) /\ lsn \in Nat
  <2>1. Log \in Seq(Records) /\ Unique(Log) /\ Below(Log, lsn) /\ lsn \in Nat
    BY LogTyped DEF JournalInv, LSNInv, TypeInv, TypeOK
  <2>2. \A i \in 1 .. Len(Readable(f)) : i \in 1 .. Len(Log) /\ Readable(f)[i] = Log[i]
    BY <1>3, <1>4, <2>1 DEF Begins
  <2>3. QED
    BY <2>1, <2>2 DEF Unique, Below
<1>8. table' \in [Segs -> 0 .. Len(issued)]
  BY <1>1, <1>3, <1>7, ReplayTyped DEF Restored
<1>9. lsn' \in Nat /\ Below(Readable(f), lsn')
  BY <1>1, <1>2, ScanIsAbove
<1>10. LSNInv'
  <2>1. \A t \in Threads : ~ Took(t)'
    BY <1>5 DEF Took
  <2>2. Unique(Log)' /\ Below(Log, lsn)'
    BY <1>6, <1>7, <1>9 DEF Unique, Below
  <2>3. QED
    BY <2>1, <2>2 DEF LSNInv
<1>11. TypeInv'
  <2>1. \A t \in Threads : Local(t)'
    BY <1>5 DEF Local
  <2>2. pending' \in Seq(Records) /\ AllProper(pending, Len(issued))'
    BY <1>5 DEF AllProper
  <2>3. rec' \in [Threads -> Records] /\ pc' \in [Threads -> Steps]
    BY <1>5, NoRecTyped DEF Steps
  <2>4. synced' \in 0 .. Len(file')
    <3>1. Len(f) \in Nat
      BY <1>2
    <3>2. CASE PowerLoss
      BY <1>1, <3>1, <3>2
    <3>3. CASE ~ PowerLoss
      BY <1>1, <3>3 DEF JournalInv, TypeInv, TypeOK
    <3>4. QED
      BY <3>2, <3>3
  <2>5. table' \in [Segs -> Nat]
    BY <1>3, <1>8
  <2>6. TypeOK'
    BY <1>1, <1>2, <1>5, <1>9, <2>2, <2>3, <2>4, <2>5 DEF JournalInv, TypeInv, TypeOK, Steps
  <2>7. QED
    BY <1>1, <1>2, <1>5, <1>8, <2>1, <2>2, <2>6 DEF JournalInv, TypeInv
<1>12. QED
  BY <1>10, <1>11 DEF JournalInv

LEMMA JournalInitially ==
  ASSUME Init
  PROVE  JournalInv
<1>1. /\ Readable(file) = << >> /\ Log = << >>
  <2>1. Readable(file) = << >>
    BY DEF Init, Readable
  <2>2. QED
    BY <2>1 DEF Init, Log
<1>2. LSNInv
  BY <1>1 DEF LSNInv, Unique, Below, Took, Init
<1>3. \A t \in Threads : Local(t)
  BY DEF Local, Init
<1>4. TypeOK
  <2>1. rec \in [Threads -> Records]
    BY NoRecTyped DEF Init
  <2>2. table \in [Segs -> Nat] /\ acked \subseteq 1 .. Len(issued)
    BY DEF Init
  <2>3. pending \in Seq(Records) /\ file \in Seq(Records) /\ issued \in Seq(Segs)
    BY DEF Init
  <2>4. synced \in 0 .. Len(file)
    BY DEF Init
  <2>5. QED
    BY <2>1, <2>2, <2>3, <2>4 DEF Init, TypeOK
<1>5. Len(issued) <= MaxUpdates /\ table \in [Segs -> 0 .. Len(issued)]
  BY JournalAssumption DEF Init
<1>6. QED
  BY <1>2, <1>3, <1>4, <1>5 DEF JournalInv, TypeInv, AllProper, Init

\* Every step of the journal keeps the invariant.
LEMMA JournalSteps ==
  ASSUME JournalInv, [Next]_vars
  PROVE  JournalInv'
<1>1. \A t \in Threads : Work(t) => JournalInv'
  BY SnapshotKeeps, appendRecordKeeps, ApplyKeeps, DrainKeeps, SyncKeeps DEF Work
<1>2. CASE UNCHANGED vars
  <2>1. UNCHANGED <<lsn, pending, file, synced, table, mu, pc, rec, issued, zoned, crashes, acked>>
    BY <1>2 DEF vars, logVars
  <2>2. TypeInv'
    BY <2>1 DEF JournalInv, TypeInv, TypeOK, AllProper, Local
  <2>3. LSNInv'
    <3>1. Log' = Log
      BY <2>1, SameLog
    <3>2. QED
      BY <2>1, <3>1 DEF JournalInv, LSNInv, Unique, Below, Without, Took
  <2>4. QED
    BY <2>2, <2>3 DEF JournalInv
<1>3. CASE Next
  BY <1>1, <1>3, LogL2PUpdateKeeps, LoggerTakesLSN, TickKeeps, CrashKeeps DEF Next, Threads
<1>4. QED
  BY <1>2, <1>3

\* The invariant the theorems rest on.
LEMMA JournalInvariant == Spec => []JournalInv
  BY JournalInitially, JournalSteps, PTL DEF Spec

\* The state of the journal, its writers and the table stays well formed through
\* every append, commit, checkpoint, crash and restart.
THEOREM JournalTypeCorrect == Spec => []TypeOK
<1>1. JournalInv => TypeOK
  BY DEF JournalInv, TypeInv
<1>2. QED
  BY <1>1, JournalInvariant, PTL

\* An LSN names one update, whatever a crash leaves of the file, a torn record
\* included: scanMaxLSN continues above everything a restart can read, and a
\* record taken before the crash is gone with the goroutine that held it.
THEOREM LSNsNeverShared == Spec => []LSNsUnique
<1>1. JournalInv => LSNsUnique
  <2> SUFFICES ASSUME JournalInv PROVE LSNsUnique
    OBVIOUS
  <2>1. Log \in Seq(Records) /\ DOMAIN Log = 1 .. Len(Log)
    BY LogTyped DEF JournalInv
  <2>2. \A i, j \in DOMAIN Log : Log[i].lsn = Log[j].lsn => i = j
    BY <2>1 DEF JournalInv, LSNInv, Unique
  <2>3. \A t \in Threads, i \in DOMAIN Log :
          pc[t] \in {"snap", "append"} => Log[i].lsn # rec[t].lsn
    BY <2>1 DEF JournalInv, LSNInv, Took, Without
  <2>4. QED
    BY <2>2, <2>3 DEF LSNsUnique, Log
<1>2. QED
  BY <1>1, JournalInvariant, PTL

-----------------------------------------------------------------------------
(* What a restart rebuilds *)


\* The L2P records of a log.
Updates(f) == {f[i] : i \in {j \in 1 .. Len(f) : f[j].kind = "L2P"}}

Logged(f, u) == \E r \in Updates(f) : r.id = u

\* Of the updates R of segment s, v is the last one, or there is none and v is 0.
Newest(R, s, v) ==
  /\ v = 0 \/ \E r \in R : r.id = v /\ issued[r.id] = s
  /\ \A r \in R : issued[r.id] = s => r.id <= v

\* Checkpoint c, in log f or about to be, holds what the updates with smaller
\* LSNs wrote.
Covers(c, f) == \A s \in Segs : Newest({r \in Updates(f) : r.lsn < c.lsn}, s, c.snap[s])

\* The log is in the order of the updates, and so are their LSNs; a checkpoint
\* stands behind the updates whose LSNs are smaller.
InOrder(f) ==
  /\ \A i \in 1 .. Len(f) : f[i].kind = "L2P" => f[i].lsn > 0
  /\ \A i, j \in 1 .. Len(f) :
       f[i].kind = "L2P" /\ f[j].kind = "L2P" /\ i < j => f[i].id < f[j].id /\ f[i].lsn < f[j].lsn
  /\ \A i, j \in 1 .. Len(f) :
       f[i].kind = "L2P" /\ f[j].kind = "checkpoint" /\ f[i].lsn < f[j].lsn => i < j

Sound(f) ==
  /\ InOrder(f)
  /\ \A i \in 1 .. Len(f) : f[i].kind = "checkpoint" => Covers(f[i], f)

\* The update whose record is in the log and whose table entry is not written yet.
InFlight(r) == \E t \in Writers : pc[t] = "apply" /\ rec[t].id = r.id

TableInv == \A s \in Segs : Newest({r \in Updates(Log) : ~ InFlight(r)}, s, table[s])

\* The goroutines that are using the table hold ztl.mu.
Holding(t) == pc[t] = "snap" \/ (t \in Writers /\ pc[t] \in {"append", "apply"})

LockInv == \A t \in Threads : Holding(t) => mu = t

\* A checkpoint being copied, and one that has been.
Copying(t) ==
  /\ pc[t] = "snap" =>
       /\ \A r \in Updates(Log) : r.lsn < rec[t].lsn
       /\ \A s \in DOMAIN rec[t].snap : rec[t].snap[s] = table[s]
  /\ pc[t] = "append" /\ rec[t].kind = "checkpoint" => Covers(rec[t], Log)

\* The update that is next in the log is the last one issued.
Latest(w) ==
  /\ pc[w] = "append" =>
       /\ rec[w].lsn > 0
       /\ \A i \in 1 .. Len(Log) : Log[i].kind = "L2P" => Log[i].id < rec[w].id
       /\ \A i \in 1 .. Len(Log) :
            Log[i].kind \in {"L2P", "checkpoint"} => Log[i].lsn < rec[w].lsn
       /\ \A t \in Threads :
            pc[t] = "append" /\ rec[t].kind = "checkpoint" => rec[t].lsn < rec[w].lsn
  /\ pc[w] \in {"append", "apply"} =>
       /\ rec[w].id = Len(issued) /\ Len(issued) \notin acked
       /\ \A t \in Writers : pc[t] \in {"drain", "sync"} => rec[t].id < Len(issued)

\* Where the record of an update is when its writer goes on.
Reached(w) ==
  /\ pc[w] \in {"apply", "drain"} => Logged(Log, rec[w].id)
  /\ pc[w] = "sync" => Logged(file, rec[w].id)

OrderInv ==
  /\ NoTorn(file)
  /\ Sound(Log)
  /\ TableInv
  /\ LockInv
  /\ \A t \in Threads : Copying(t)
  /\ \A w \in Writers : Latest(w) /\ Reached(w)
  /\ \A u \in acked : Logged(file, u)

-----------------------------------------------------------------------------
(* What a log replays to                                                   *)

LEMMA UpdatesTyped ==
  ASSUME NEW f \in Seq(Records), NEW n \in Nat, AllProper(f, n), NEW r \in Updates(f)
  PROVE  /\ r \in Records /\ r.kind = "L2P" /\ r.id \in 1 .. n /\ r.lsn \in Nat
         /\ \E i \in 1 .. Len(f) : r = f[i]
<1>1. PICK i \in 1 .. Len(f) : r = f[i] /\ f[i].kind = "L2P"
  BY DEF Updates
<1>2. QED
  BY <1>1 DEF AllProper, Proper, Records

LEMMA UpdateIn ==
  ASSUME NEW f, NEW i \in 1 .. Len(f), f[i].kind = "L2P"
  PROVE  f[i] \in Updates(f)
  BY DEF Updates

\* There is only one last update.
LEMMA NewestOnce ==
  ASSUME NEW R, \A r \in R : r.id \in Nat \ {0}, NEW s, NEW v \in Nat, NEW w \in Nat,
         Newest(R, s, v), Newest(R, s, w)
  PROVE  v = w
<1>1. v <= w /\ w <= v
  BY DEF Newest
<1>2. QED
  BY <1>1

\* Replay finds the last update of every segment.
LEMMA ReplayIsNewest ==
  ASSUME NEW f \in Seq(Records), NEW n \in Nat, AllProper(f, n), NEW b \in Nat, Below(f, b),
         Unique(f), Sound(f), NEW s \in Segs
  PROVE  Newest(Updates(f), s, Replay(f)[s])
<1> DEFINE c == LoadSnapshot(f)
           P == Last2P(f, s, c)
<1>1. c.snap \in [Segs -> 0 .. n] /\ c.lsn \in Nat
  BY SnapshotTyped
<1>2. \A i \in 1 .. Len(f) : f[i].kind = "L2P" => f[i].lsn # c.lsn /\ f[i].lsn \in Nat
  <2>1. CASE Checkpoints(f) = {}
    <3>1. c.lsn = 0
      BY <2>1 DEF LoadSnapshot, NoRec
    <3>2. QED
      BY <3>1, LSNTyped DEF Sound, InOrder
  <2>2. CASE Checkpoints(f) # {}
    <3>1. c \in Checkpoints(f)
      BY <2>2, LatestIs DEF LoadSnapshot
    <3>2. PICK j \in 1 .. Len(f) : c = f[j] /\ f[j].kind = "checkpoint"
      BY <3>1 DEF Checkpoints
    <3>3. QED
      BY <3>2, LSNTyped DEF Unique
  <2>3. QED
    BY <2>1, <2>2
<1>3. Newest({r \in Updates(f) : r.lsn < c.lsn}, s, c.snap[s])
  <2>1. CASE Checkpoints(f) = {}
    <3>1. c = [NoRec EXCEPT !.snap = [q \in Segs |-> 0]]
      BY <2>1 DEF LoadSnapshot
    <3>2. c.lsn = 0 /\ c.snap[s] = 0
      BY <3>1 DEF NoRec
    <3>3. \A r \in Updates(f) : r.lsn \in Nat
      BY UpdatesTyped
    <3>4. QED
      BY <3>2, <3>3 DEF Newest
  <2>2. CASE Checkpoints(f) # {}
    <3>1. c \in Checkpoints(f)
      BY <2>2, LatestIs DEF LoadSnapshot
    <3>2. PICK j \in 1 .. Len(f) : c = f[j] /\ f[j].kind = "checkpoint"
      BY <3>1 DEF Checkpoints
    <3>3. QED
      BY <3>2 DEF Sound, Covers
  <2>3. QED
    BY <2>1, <2>2
<1>4. Replay(f)[s] = IF P = {} THEN c.snap[s] ELSE f[Max(P)].id
  BY DEF Replay
<1> HIDE DEF c
<1>5. CASE P = {}
  <2>1. \A i \in 1 .. Len(f) : f[i].kind = "L2P" /\ issued[f[i].id] = s => f[i].lsn < c.lsn
    BY <1>1, <1>2, <1>5 DEF Last2P
  <2>2. \A r \in Updates(f) : issued[r.id] = s => r.lsn < c.lsn
    BY <2>1 DEF Updates
  <2>3. QED
    BY <1>3, <1>4, <1>5, <2>2 DEF Newest
<1>6. CASE P # {}
  <2> DEFINE m == Max(P)
  <2>1. m \in P /\ \A i \in P : i <= m
    BY <1>6, LastOf
  <2> HIDE DEF m
  <2>2. /\ m \in 1 .. Len(f) /\ f[m].kind = "L2P" /\ f[m].lsn > c.lsn
        /\ issued[f[m].id] = s /\ f[m] \in Updates(f)
    BY <2>1, UpdateIn DEF Last2P
  <2>3. ASSUME NEW i \in 1 .. Len(f), f[i].kind = "L2P", issued[f[i].id] = s
        PROVE  f[i].id <= f[m].id
    <3>1. i <= m
      <4>1. CASE f[i].lsn > c.lsn
        BY <2>1, <2>3, <4>1 DEF Last2P
      <4>2. CASE f[i].lsn < c.lsn
        <5>1. f[i].lsn < f[m].lsn
          BY <1>1, <1>2, <2>2, <2>3, <4>2
        <5>2. ~ (m < i)
          BY <1>2, <2>2, <2>3, <5>1 DEF Sound, InOrder
        <5>3. QED
          BY <2>2, <5>2
      <4>3. QED
        BY <1>1, <1>2, <2>3, <4>1, <4>2
    <3>2. f[i].id \in Nat /\ f[m].id \in Nat
      BY <2>2, <2>3 DEF AllProper, Proper
    <3>3. QED
      BY <2>2, <2>3, <3>1, <3>2 DEF Sound, InOrder
  <2>4. \A r \in Updates(f) : issued[r.id] = s => r.id <= f[m].id
    BY <2>3 DEF Updates
  <2>5. QED
    BY <1>4, <1>6, <2>2, <2>4 DEF Newest, m
<1>7. QED
  BY <1>5, <1>6

\* What holds of a log holds of its beginnings.
LEMMA SoundBeginning ==
  ASSUME NEW f \in Seq(Records), NEW g \in Seq(Records), Begins(g, f), Sound(f)
  PROVE  Sound(g)
<1>1. \A i \in 1 .. Len(g) : i \in 1 .. Len(f) /\ g[i] = f[i]
  BY DEF Begins
<1>2. InOrder(g)
  BY <1>1 DEF InOrder, Sound
<1>3. ASSUME NEW k \in 1 .. Len(g), g[k].kind = "checkpoint"
      PROVE  Covers(g[k], g)
  <2>1. Covers(f[k], f) /\ k \in 1 .. Len(f) /\ g[k] = f[k] /\ f[k].kind = "checkpoint"
    BY <1>1, <1>3 DEF Sound
  <2>2. {r \in Updates(g) : r.lsn < f[k].lsn} = {r \in Updates(f) : r.lsn < f[k].lsn}
    <3>1. ASSUME NEW r \in Updates(f), r.lsn < f[k].lsn PROVE r \in Updates(g)
      <4>1. PICK i \in 1 .. Len(f) : r = f[i] /\ f[i].kind = "L2P"
        BY DEF Updates
      <4>2. i < k
        BY <2>1, <3>1, <4>1 DEF Sound, InOrder
      <4>3. i \in 1 .. Len(g)
        BY <4>2
      <4>4. QED
        BY <1>1, <4>1, <4>3 DEF Updates
    <3>2. Updates(g) \subseteq Updates(f)
      BY <1>1 DEF Updates
    <3>3. QED
      BY <3>1, <3>2
  <2>3. QED
    BY <2>1, <2>2 DEF Covers
<1>4. QED
  BY <1>2, <1>3 DEF Sound

-----------------------------------------------------------------------------
(* Appending to a log                                                      *)

LEMMA AppendedUpdates ==
  ASSUME NEW f \in Seq(Records), NEW r \in Records
  PROVE  Updates(Append(f, r)) = Updates(f) \union (IF r.kind = "L2P" THEN {r} ELSE {})
<1> DEFINE g == Append(f, r)
<1>1. /\ Len(g) = Len(f) + 1 /\ Len(f) \in Nat /\ g[Len(f) + 1] = r
      /\ \A i \in 1 .. Len(f) : g[i] = f[i]
      /\ \A i \in 1 .. Len(g) : i \in 1 .. Len(f) \/ i = Len(f) + 1
      /\ \A i \in 1 .. Len(f) : i \in 1 .. Len(g)
      /\ Len(f) + 1 \in 1 .. Len(g)
  OBVIOUS
<1> HIDE DEF g
<1>2. ASSUME NEW q \in Updates(g) PROVE q \in Updates(f) \/ (q = r /\ r.kind = "L2P")
  BY <1>1 DEF Updates
<1>3. ASSUME NEW q \in Updates(f) PROVE q \in Updates(g)
  BY <1>1 DEF Updates
<1>4. r.kind = "L2P" => r \in Updates(g)
  BY <1>1 DEF Updates
<1>5. QED
  BY <1>2, <1>3, <1>4 DEF g

\* A zone record or a checkpoint is appended.
LEMMA SoundThenOther ==
  ASSUME NEW f \in Seq(Records), NEW r \in Records, Sound(f), r.kind # "L2P",
         r.kind = "checkpoint" => Covers(r, f)
  PROVE  Sound(Append(f, r))
<1> DEFINE g == Append(f, r)
<1>1. /\ Len(g) = Len(f) + 1 /\ Len(f) \in Nat /\ g[Len(f) + 1] = r
      /\ \A i \in 1 .. Len(f) : g[i] = f[i]
      /\ \A i \in 1 .. Len(g) : i \in 1 .. Len(f) \/ i = Len(f) + 1
  OBVIOUS
<1>2. Updates(g) = Updates(f)
  BY AppendedUpdates
<1> HIDE DEF g
<1>3. InOrder(g)
  <2>1. \A i \in 1 .. Len(g) : g[i].kind = "L2P" => i \in 1 .. Len(f) /\ g[i] = f[i]
    BY <1>1
  <2>2. \A i, j \in 1 .. Len(g) :
          g[i].kind = "L2P" /\ g[j].kind = "checkpoint" /\ g[i].lsn < g[j].lsn => i < j
    BY <1>1, <2>1 DEF Sound, InOrder
  <2>3. QED
    BY <2>1, <2>2 DEF Sound, InOrder
<1>4. \A i \in 1 .. Len(g) : g[i].kind = "checkpoint" => Covers(g[i], g)
  BY <1>1, <1>2 DEF Sound, Covers
<1>5. QED
  BY <1>3, <1>4 DEF Sound, g

\* An update later than everything in the log is appended.
LEMMA SoundThenUpdate ==
  ASSUME NEW f \in Seq(Records), NEW r \in Records, Sound(f), r.kind = "L2P", r.lsn > 0,
         \A i \in 1 .. Len(f) : f[i].kind = "L2P" => f[i].id < r.id,
         \A i \in 1 .. Len(f) : f[i].kind \in {"L2P", "checkpoint"} => f[i].lsn < r.lsn
  PROVE  Sound(Append(f, r))
<1> DEFINE g == Append(f, r)
<1>1. /\ Len(g) = Len(f) + 1 /\ Len(f) \in Nat /\ g[Len(f) + 1] = r
      /\ \A i \in 1 .. Len(f) : g[i] = f[i]
      /\ \A i \in 1 .. Len(g) : i \in 1 .. Len(f) \/ i = Len(f) + 1
  OBVIOUS
<1>2. Updates(g) = Updates(f) \union {r}
  BY AppendedUpdates
<1>2a. r.lsn \in Nat /\ \A i \in 1 .. Len(f) : f[i].lsn \in Nat
  BY LSNTyped DEF Records
<1> HIDE DEF g
<1>3. InOrder(g)
  <2>1. \A i \in 1 .. Len(g) : g[i].kind = "L2P" => g[i].lsn > 0
    BY <1>1 DEF Sound, InOrder
  <2>2. \A i, j \in 1 .. Len(g) :
          g[i].kind = "L2P" /\ g[j].kind = "L2P" /\ i < j => g[i].id < g[j].id /\ g[i].lsn < g[j].lsn
    BY <1>1 DEF Sound, InOrder
  <2>3. \A i, j \in 1 .. Len(g) :
          g[i].kind = "L2P" /\ g[j].kind = "checkpoint" /\ g[i].lsn < g[j].lsn => i < j
    BY <1>1, <1>2a DEF Sound, InOrder
  <2>4. QED
    BY <2>1, <2>2, <2>3 DEF InOrder
<1>4. ASSUME NEW i \in 1 .. Len(g), g[i].kind = "checkpoint" PROVE Covers(g[i], g)
  <2>1. i \in 1 .. Len(f) /\ g[i] = f[i] /\ Covers(f[i], f) /\ f[i].lsn < r.lsn
    BY <1>1, <1>4 DEF Sound
  <2>2. {q \in Updates(g) : q.lsn < f[i].lsn} = {q \in Updates(f) : q.lsn < f[i].lsn}
    <3>1. ~ (r.lsn < f[i].lsn)
      BY <1>2a, <2>1
    <3>2. QED
      BY <1>2, <3>1
  <2>3. QED
    BY <2>1, <2>2 DEF Covers
<1>5. QED
  BY <1>3, <1>4 DEF Sound, g

-----------------------------------------------------------------------------
(* Steps that leave the log and the table as they are                      *)

\* With no torn record in the file, the log is the file and what is pending.
LEMMA WholeLog ==
  ASSUME TypeInv, NoTorn(file)
  PROVE  /\ Readable(file) = file /\ Log = file \o pending
         /\ Log \in Seq(Records) /\ AllProper(Log, Len(issued))
         /\ Len(issued) \in Nat /\ issued \in Seq(Segs)
         /\ Begins(file, Log)
<1>1. file \in Seq(Records) /\ Len(issued) \in Nat /\ issued \in Seq(Segs)
  BY DEF TypeInv, TypeOK
<1>2. Readable(file) = file
  BY <1>1, ReadableIs
<1>3. QED
  BY <1>1, <1>2, LogTyped DEF Log

LEMMA SoundSame ==
  ASSUME Sound(Log), Log' = Log, issued' = issued
  PROVE  Sound(Log)'
<1>1. InOrder(Log)'
  BY DEF Sound, InOrder
<1>2. Updates(Log)' = Updates(Log)
  BY DEF Updates
<1>3. \A i \in 1 .. Len(Log') : Log'[i].kind = "checkpoint" => Covers(Log[i], Log)'
  BY <1>2 DEF Sound, Covers, Newest
<1>4. QED
  BY <1>1, <1>3 DEF Sound

LEMMA CopyingSame ==
  ASSUME NEW u \in Threads, Copying(u), Log' = Log, issued' = issued, table' = table,
         pc'[u] = pc[u], rec'[u] = rec[u]
  PROVE  Copying(u)'
<1>1. Updates(Log)' = Updates(Log)
  BY DEF Updates
<1>2. QED
  BY <1>1 DEF Copying, Covers, Newest

LEMMA LoggedGrows ==
  ASSUME NEW f \in Seq(Records), NEW g \in Seq(Records), Begins(f, g), NEW u, Logged(f, u)
  PROVE  Logged(g, u)
<1>1. \A i \in 1 .. Len(f) : i \in 1 .. Len(g) /\ f[i] = g[i]
  BY DEF Begins
<1>2. QED
  BY <1>1 DEF Logged, Updates

\* Zone records, commits and the caller's return.
LEMMA QuietStep ==
  ASSUME JournalInv, OrderInv, NEW t \in Threads, NEW step, NEW r,
         pc' = [pc EXCEPT ![t] = step], rec' = [rec EXCEPT ![t] = r],
         pc[t] \in {"idle", "drain", "sync"},
         \/ step \in {"idle", "drain", "sync"}
         \/ step = "append" /\ t \notin Writers /\ r.kind = "zone",
         t \in Writers /\ step # "idle" => pc[t] # "idle" /\ r = rec[t],
         UNCHANGED <<table, mu, issued>>, Log' = Log, NoTorn(file'),
         \A u : Logged(file, u) => Logged(file', u),
         t \in Writers => Reached(t)',
         \A u \in acked' :
           \/ u \in acked
           \/ t \in Writers /\ pc[t] \in {"drain", "sync"} /\ u = rec[t].id /\ Logged(file', u)
  PROVE  OrderInv'
<1>1. pc'[t] = step /\ rec'[t] = r
  BY DEF JournalInv, TypeInv, TypeOK
<1>2. \A u \in Threads \ {t} : pc'[u] = pc[u] /\ rec'[u] = rec[u]
  BY DEF JournalInv, TypeInv, TypeOK
<1>3. Updates(Log)' = Updates(Log) /\ Writers \subseteq Threads
  BY DEF Updates, Threads
<1>4. Sound(Log)'
  BY SoundSame DEF OrderInv
<1>5. TableInv'
  <2>1. \A q : InFlight(q)' <=> InFlight(q)
    BY <1>1, <1>2, <1>3 DEF InFlight
  <2>2. QED
    BY <1>3, <2>1 DEF OrderInv, TableInv, Newest
<1>6. LockInv'
  BY <1>1, <1>2 DEF OrderInv, LockInv, Holding
<1>7. ASSUME NEW u \in Threads PROVE Copying(u)'
  <2>1. CASE u = t
    BY <1>1, <2>1 DEF Copying
  <2>2. CASE u # t
    BY <1>2, <2>2, CopyingSame DEF OrderInv
  <2>3. QED
    BY <2>1, <2>2
<1>8. ASSUME NEW w \in Writers PROVE Latest(w)' /\ Reached(w)'
  <2>1. CASE w = t
    <3>1. Latest(w)'
      BY <1>1, <2>1 DEF Latest
    <3>2. QED
      BY <2>1, <3>1
  <2>2. CASE w # t
    <3>1. pc'[w] = pc[w] /\ rec'[w] = rec[w] /\ Latest(w) /\ Reached(w)
      BY <1>2, <1>3, <2>2 DEF OrderInv
    <3>2. pc[w] = "append" => \A u \in Threads :
            pc'[u] = "append" /\ rec'[u].kind = "checkpoint" => rec'[u].lsn < rec[w].lsn
      BY <1>1, <1>2, <3>1 DEF Latest
    <3>3. pc[w] \in {"append", "apply"} =>
            /\ Len(issued) \notin acked'
            /\ \A u \in Writers : pc'[u] \in {"drain", "sync"} => rec'[u].id < Len(issued)
      <4>1. Len(issued) \in Nat
        BY DEF JournalInv, TypeInv, TypeOK
      <4>2. t \in Writers /\ pc[t] \in {"drain", "sync"} => rec[t].id \in Nat
        BY DEF JournalInv, TypeInv, Local, Proper
      <4>3. QED
        BY <1>1, <1>2, <1>3, <3>1, <4>1, <4>2 DEF Latest
    <3>4. Latest(w)'
      BY <3>1, <3>2, <3>3 DEF Latest
    <3>5. Reached(w)'
      BY <1>3, <3>1 DEF Reached, Logged
    <3>6. QED
      BY <3>4, <3>5
  <2>3. QED
    BY <2>1, <2>2
<1>9. \A u \in acked' : Logged(file', u)
  BY DEF OrderInv
<1>10. QED
  BY <1>4, <1>5, <1>6, <1>7, <1>8, <1>9 DEF OrderInv, NoTorn, Logged, Updates

-----------------------------------------------------------------------------
(* The actions                                                             *)

LEMMA ZoneActionOrder ==
  ASSUME JournalInv, OrderInv, NEW t \in Loggers, LogZoneAction(t)
  PROVE  OrderInv'
<1> DEFINE r == Fresh("zone", lsn + 1, 0)
<1>1. t \in Threads /\ t \notin Writers /\ lsn + 1 \in Nat
  BY JournalAssumption DEF Threads, JournalInv, TypeInv, TypeOK
<1>2. /\ pc[t] = "idle" /\ pc' = [pc EXCEPT ![t] = "append"] /\ rec' = [rec EXCEPT ![t] = r]
      /\ UNCHANGED <<table, mu, issued, file, pending, acked>>
  BY DEF LogZoneAction, TakeLSN, Goto, Fresh
<1>3. r.kind = "zone"
  BY <1>1, FreshIs
<1> HIDE DEF r
<1>4. Log' = Log /\ NoTorn(file') /\ \A u : Logged(file, u) => Logged(file', u)
  BY <1>2, SameLog DEF OrderInv, NoTorn
<1>5. QED
  BY <1>1, <1>2, <1>3, <1>4, QuietStep

LEMMA TickOrder ==
  ASSUME JournalInv, OrderInv, NEW t \in Committers, Tick(t)
  PROVE  OrderInv'
<1>1. t \in Threads /\ t \notin Writers
  BY JournalAssumption DEF Threads
<1>2. /\ pc[t] = "idle" /\ pc' = [pc EXCEPT ![t] = "drain"]
      /\ UNCHANGED <<table, mu, issued, file, pending, acked, rec>>
  BY DEF Tick, Goto, logVars
<1>3. rec' = [rec EXCEPT ![t] = rec[t]]
  BY <1>1, <1>2 DEF JournalInv, TypeInv, TypeOK
<1>4. Log' = Log /\ NoTorn(file') /\ \A u : Logged(file, u) => Logged(file', u)
  BY <1>2, SameLog DEF OrderInv, NoTorn
<1>5. QED
  BY <1>1, <1>2, <1>3, <1>4, QuietStep

\* The caller of GroupCommit returns when its record is in the file.
LEMMA ReturnOrder ==
  ASSUME JournalInv, OrderInv, NEW t \in Threads, pc[t] \in {"drain", "sync"}, Return(t),
         t \in Writers => Logged(file, rec[t].id),
         UNCHANGED <<table, mu, issued, file, pending>>
  PROVE  OrderInv'
<1>1. /\ rec' = [rec EXCEPT ![t] = NoRec] /\ pc' = [pc EXCEPT ![t] = "idle"]
      /\ acked' = IF t \in Writers THEN acked \union {rec[t].id} ELSE acked
  BY DEF Return, Goto
<1>2. Log' = Log /\ NoTorn(file') /\ \A u : Logged(file, u) => Logged(file', u)
  BY SameLog DEF OrderInv, NoTorn
<1>3. Reached(t)'
  BY <1>1 DEF Reached, JournalInv, TypeInv, TypeOK
<1>4. \A u \in acked' :
        \/ u \in acked
        \/ t \in Writers /\ pc[t] \in {"drain", "sync"} /\ u = rec[t].id /\ Logged(file', u)
  BY <1>1, <1>2
<1>5. QED
  BY <1>1, <1>2, <1>3, <1>4, QuietStep

LEMMA SyncOrder ==
  ASSUME JournalInv, OrderInv, NEW t \in Threads, Sync(t)
  PROVE  OrderInv'
<1>1. t \in Writers => Logged(file, rec[t].id)
  BY DEF Sync, OrderInv, Reached
<1>2. QED
  BY <1>1, ReturnOrder DEF Sync

LEMMA DrainOrder ==
  ASSUME JournalInv, OrderInv, NEW t \in Threads, Drain(t)
  PROVE  OrderInv'
<1>0. /\ TypeInv /\ NoTorn(file) /\ file \in Seq(Records) /\ pending \in Seq(Records)
      /\ t \in Writers => Logged(Log, rec[t].id)
  BY DEF JournalInv, TypeInv, TypeOK, OrderInv, Reached, Drain
<1>1. Log = file \o pending /\ Begins(file, Log) /\ Log \in Seq(Records)
  BY <1>0, WholeLog
<1>2. CASE pending = << >>
  <2>1. Log = file
    BY <1>0, <1>1, <1>2, ConcatEmptySeq
  <2>2. QED
    BY <1>0, <1>2, <2>1, ReturnOrder DEF Drain
<1>3. CASE pending # << >>
  <2>1. /\ pc[t] = "drain" /\ file' = Log /\ pending' = << >>
        /\ pc' = [pc EXCEPT ![t] = "sync"]
        /\ UNCHANGED <<table, mu, issued, acked, rec>>
    BY <1>1, <1>3 DEF Drain, DrainTo, Goto
  <2>2. rec' = [rec EXCEPT ![t] = rec[t]] /\ pc'[t] = "sync"
    BY <2>1 DEF JournalInv, TypeInv, TypeOK
  <2>3. NoTorn(file')
    BY <1>0, <2>1, WholeLog DEF AllProper, Proper, NoTorn
  <2>4. Log' = Log
    <3>1. file' \in Seq(Records)
      BY <1>1, <2>1
    <3>2. Readable(file') = file'
      BY <2>3, <3>1, ReadableIs
    <3>3. file' \o << >> = file'
      BY <3>1, ConcatEmptySeq
    <3>4. QED
      BY <2>1, <3>2, <3>3 DEF Log
  <2>5. \A u : Logged(file, u) => Logged(file', u)
    BY <1>0, <1>1, <2>1, LoggedGrows
  <2>6. t \in Writers => Reached(t)'
    <3>1. Logged(Log, rec[t].id) => Logged(file', rec'[t].id)
      BY <2>1
    <3>2. t \in Writers => Logged(file, rec[t].id)'
      BY <1>0, <3>1 DEF Logged, Updates
    <3>3. QED
      BY <2>2, <3>2 DEF Reached
  <2>7. QED
    BY <2>1, <2>2, <2>3, <2>4, <2>5, <2>6, QuietStep
<1>4. QED
  BY <1>2, <1>3

LEMMA LogL2PUpdateOrder ==
  ASSUME JournalInv, OrderInv, NEW t \in Writers, NEW s \in Segs, LogL2PUpdate(t, s)
  PROVE  OrderInv'
<1> DEFINE n == Len(issued)
           r == Fresh("L2P", lsn + 1, n + 1)
<1>1. t \in Threads /\ n \in Nat /\ lsn \in Nat /\ issued \in Seq(Segs) /\ NoOne # t
      /\ Writers \subseteq Threads /\ NoOne \notin Threads \ Committers
  BY JournalAssumption DEF Threads, JournalInv, TypeInv, TypeOK
<1>2. /\ issued' = Append(issued, s) /\ mu = NoOne /\ mu' = t /\ lsn' = lsn + 1 /\ pc[t] = "idle"
      /\ rec' = [rec EXCEPT ![t] = r] /\ pc' = [pc EXCEPT ![t] = "append"]
      /\ UNCHANGED <<pending, file, synced, table, zoned, crashes, acked>>
  BY DEF LogL2PUpdate, TakeLSN, Goto, Fresh
<1>3. r \in Records /\ r.kind = "L2P" /\ r.lsn = lsn + 1 /\ r.id = n + 1
  BY <1>1, FreshIs
<1> HIDE DEF r
<1>4. Len(issued') = n + 1 /\ \A i \in 1 .. n : issued'[i] = issued[i]
  BY <1>1, <1>2
<1>5. pc'[t] = "append" /\ rec'[t] = r /\
      \A u \in Threads \ {t} : pc'[u] = pc[u] /\ rec'[u] = rec[u]
  BY <1>1, <1>2 DEF JournalInv, TypeInv, TypeOK
<1>6. Log' = Log /\ Log \in Seq(Records) /\ AllProper(Log, n) /\ file' = file
  BY <1>2, SameLog, LogTyped DEF JournalInv
<1>7. Updates(Log)' = Updates(Log) /\ \A q \in Updates(Log) : q.id \in 1 .. n /\ q.lsn \in Nat
  <2>1. Updates(Log)' = Updates(Log)
    BY <1>6 DEF Updates
  <2>2. QED
    BY <1>1, <1>6, <2>1, UpdatesTyped
<1>8. \A q \in Updates(Log) : issued'[q.id] = issued[q.id]
  BY <1>4, <1>7
<1>9. \A u \in Threads : ~ Holding(u)
  <2>1. \A u \in Threads : Holding(u) => u \in Writers \union Loggers
    BY DEF Holding, JournalInv, TypeInv, Local
  <2>2. QED
    BY <1>2, <2>1, JournalAssumption DEF OrderInv, LockInv
<1>11. Sound(Log)'
  <2>1. InOrder(Log)'
    BY <1>6 DEF OrderInv, Sound, InOrder
  <2>2. \A i \in 1 .. Len(Log) : Log[i].kind = "checkpoint" => Covers(Log[i], Log)
    BY DEF OrderInv, Sound
  <2>3. \A i \in 1 .. Len(Log') : Log'[i].kind = "checkpoint" => Covers(Log[i], Log)'
    BY <1>6, <1>7, <1>8, <2>2 DEF Covers, Newest
  <2>4. QED
    BY <2>1, <2>3 DEF Sound
<1>12. TableInv'
  <2>1. \A q : ~ InFlight(q) /\ ~ InFlight(q)'
    BY <1>1, <1>5, <1>9 DEF InFlight, Holding
  <2>2. QED
    BY <1>2, <1>7, <1>8, <2>1 DEF OrderInv, TableInv, Newest
<1>13. LockInv'
  BY <1>2, <1>5, <1>9 DEF LockInv, Holding
<1>14. ASSUME NEW u \in Threads PROVE Copying(u)'
  <2>1. CASE u = t
    BY <1>3, <1>5, <2>1 DEF Copying
  <2>2. CASE u # t
    <3>1. pc'[u] = pc[u] /\ rec'[u] = rec[u] /\ pc[u] # "snap" /\ Copying(u)
      BY <1>5, <1>9, <2>2 DEF Holding, OrderInv
    <3>2. pc[u] = "append" /\ rec[u].kind = "checkpoint" => Covers(rec[u], Log)
      BY <3>1 DEF Copying
    <3>3. pc[u] = "append" /\ rec[u].kind = "checkpoint" => Covers(rec[u], Log)'
      BY <1>7, <1>8, <3>1, <3>2 DEF Covers, Newest
    <3>4. QED
      BY <3>1, <3>3 DEF Copying
  <2>3. QED
    BY <2>1, <2>2
<1>15. Latest(t)'
  <2>1. \A i \in 1 .. Len(Log) : Log[i].lsn <= lsn /\ Log[i].lsn \in Nat
                                /\ (Log[i].kind = "L2P" => Log[i].id \in 1 .. n)
    BY <1>6, LSNTyped DEF JournalInv, LSNInv, Below, AllProper, Proper
  <2>2. \A u \in Threads \ {t} : pc[u] = "append" => rec[u].lsn <= lsn /\ rec[u].lsn \in Nat
    BY DEF JournalInv, LSNInv, Took, TypeInv, TypeOK, Records
  <2>3. /\ \A i \in 1 .. Len(Log') : Log'[i].kind = "L2P" => Log'[i].id < rec'[t].id
        /\ \A i \in 1 .. Len(Log') :
             Log'[i].kind \in {"L2P", "checkpoint"} => Log'[i].lsn < rec'[t].lsn
    BY <1>1, <1>3, <1>5, <1>6, <2>1
  <2>4. \A u \in Threads :
          pc'[u] = "append" /\ rec'[u].kind = "checkpoint" => rec'[u].lsn < rec'[t].lsn
    BY <1>1, <1>3, <1>5, <2>2
  <2>5. Len(issued') \notin acked'
    BY <1>1, <1>2, <1>4 DEF JournalInv, TypeInv, TypeOK
  <2>6. \A u \in Writers : pc'[u] \in {"drain", "sync"} => rec'[u].id < Len(issued')
    <3>1. \A u \in Writers : pc[u] \in {"drain", "sync"} => rec[u].id \in 1 .. n
      BY <1>1 DEF JournalInv, TypeInv, Local, Proper
    <3>2. QED
      BY <1>1, <1>4, <1>5, <3>1
  <2>7. rec'[t].lsn > 0 /\ rec'[t].id = Len(issued')
    BY <1>1, <1>3, <1>4, <1>5
  <2>8. QED
    BY <2>3, <2>4, <2>5, <2>6, <2>7 DEF Latest
<1>16. ASSUME NEW w \in Writers PROVE Latest(w)' /\ Reached(w)'
  <2>1. CASE w = t
    BY <1>5, <1>15, <2>1 DEF Reached
  <2>2. CASE w # t
    <3>1. pc'[w] = pc[w] /\ rec'[w] = rec[w] /\ pc[w] \notin {"append", "apply"} /\ Reached(w)
      BY <1>1, <1>5, <1>9, <2>2 DEF Holding, OrderInv
    <3>2. Latest(w)'
      BY <3>1 DEF Latest
    <3>3. Reached(w)'
      BY <1>6, <1>7, <3>1 DEF Reached, Logged, Updates
    <3>4. QED
      BY <3>2, <3>3
  <2>3. QED
    BY <2>1, <2>2
<1>17. NoTorn(file)' /\ \A u \in acked' : Logged(file, u)'
  BY <1>2 DEF OrderInv, NoTorn, Logged, Updates
<1>18. QED
  BY <1>11, <1>12, <1>13, <1>14, <1>16, <1>17 DEF OrderInv

LEMMA WriteCheckpointOrder ==
  ASSUME QuietCheckpoints, JournalInv, OrderInv, NEW t \in Loggers, WriteCheckpoint(t)
  PROVE  OrderInv'
<1> DEFINE r == Fresh("checkpoint", lsn + 1, 0)
<1>1. t \in Threads /\ t \notin Writers /\ lsn \in Nat /\ Writers \subseteq Threads
  BY JournalAssumption DEF Threads, JournalInv, TypeInv, TypeOK
<1>2. /\ mu = NoOne /\ mu' = t /\ pc[t] = "idle"
      /\ rec' = [rec EXCEPT ![t] = r] /\ pc' = [pc EXCEPT ![t] = "snap"]
      /\ UNCHANGED <<pending, file, table, issued, acked>>
  BY DEF WriteCheckpoint, TakeLSN, Goto, Fresh
<1>3. r.kind = "checkpoint" /\ r.lsn = lsn + 1 /\ r.snap = << >>
  BY <1>1, FreshIs
<1> HIDE DEF r
<1>4. pc'[t] = "snap" /\ rec'[t] = r /\
      \A u \in Threads \ {t} : pc'[u] = pc[u] /\ rec'[u] = rec[u]
  BY <1>1, <1>2 DEF JournalInv, TypeInv, TypeOK
<1>5. Log' = Log /\ Log \in Seq(Records) /\ Updates(Log)' = Updates(Log)
  <2>1. Log' = Log /\ Log \in Seq(Records)
    BY <1>2, SameLog, LogTyped DEF JournalInv
  <2>2. QED
    BY <2>1 DEF Updates
<1>6. \A u \in Threads : ~ Holding(u)
  <2>1. \A u \in Threads : Holding(u) => u \in Writers \union Loggers
    BY DEF Holding, JournalInv, TypeInv, Local
  <2>2. QED
    BY <1>2, <2>1, JournalAssumption DEF OrderInv, LockInv
<1>7. Sound(Log)'
  BY <1>2, <1>5, SoundSame DEF OrderInv
<1>8. TableInv'
  <2>1. \A q : ~ InFlight(q) /\ ~ InFlight(q)'
    BY <1>1, <1>4, <1>6 DEF InFlight, Holding
  <2>2. QED
    BY <1>2, <1>5, <2>1 DEF OrderInv, TableInv, Newest
<1>9. LockInv'
  BY <1>2, <1>4, <1>6 DEF LockInv, Holding
<1>10. ASSUME NEW u \in Threads PROVE Copying(u)'
  <2>1. CASE u = t
    <3>1. \A q \in Updates(Log) : q.lsn < lsn + 1
      <4>1. \A i \in 1 .. Len(Log) : Log[i].lsn <= lsn /\ Log[i].lsn \in Nat
        BY <1>5, LSNTyped DEF JournalInv, LSNInv, Below
      <4>2. QED
        BY <1>1, <4>1 DEF Updates
    <3>2. DOMAIN r.snap = {}
      BY <1>3
    <3>3. QED
      BY <1>3, <1>4, <1>5, <2>1, <3>1, <3>2 DEF Copying
  <2>2. CASE u # t
    BY <1>2, <1>4, <1>5, <2>2, CopyingSame DEF OrderInv
  <2>3. QED
    BY <2>1, <2>2
<1>11. ASSUME NEW w \in Writers PROVE Latest(w)' /\ Reached(w)'
  <2>1. pc'[w] = pc[w] /\ rec'[w] = rec[w] /\ pc[w] \notin {"append", "apply"} /\ Reached(w)
    BY <1>1, <1>4, <1>6 DEF Holding, OrderInv
  <2>2. QED
    BY <1>2, <1>5, <2>1 DEF Latest, Reached, Logged, Updates
<1>12. NoTorn(file)' /\ \A u \in acked' : Logged(file, u)'
  BY <1>2 DEF OrderInv, NoTorn, Logged, Updates
<1>13. QED
  BY <1>7, <1>8, <1>9, <1>10, <1>11, <1>12 DEF OrderInv

LEMMA SnapshotOrder ==
  ASSUME JournalInv, OrderInv, NEW t \in Threads, Snapshot(t)
  PROVE  OrderInv'
<1> DEFINE D == DOMAIN rec[t].snap
           s == CHOOSE s \in Segs : s \notin D
           snap == [q \in D \union {s} |-> IF q = s THEN table[s] ELSE rec[t].snap[q]]
           step == IF DOMAIN snap = Segs THEN "append" ELSE "snap"
<1>1. /\ pc[t] = "snap" /\ t \in Loggers /\ t \notin Writers /\ rec[t] \in Records
      /\ rec[t].kind = "checkpoint" /\ D \subseteq Segs /\ D # Segs /\ Writers \subseteq Threads
  BY JournalAssumption DEF Snapshot, JournalInv, TypeInv, TypeOK, Local, Threads
<1>2. s \in Segs /\ s \notin D
  BY <1>1
<1>3. /\ rec' = [rec EXCEPT ![t].snap = snap] /\ pc' = [pc EXCEPT ![t] = step]
      /\ mu' = IF DOMAIN snap = Segs /\ mu = t THEN NoOne ELSE mu
      /\ UNCHANGED <<pending, file, table, issued, acked>>
  BY DEF Snapshot, Goto, logVars
<1> HIDE DEF s
<1>4. DOMAIN snap = D \union {s} /\ \A q \in D \union {s} : snap[q] = table[q]
  <2>1. \A q \in D : rec[t].snap[q] = table[q]
    BY <1>1 DEF OrderInv, Copying
  <2>2. QED
    BY <2>1
<1> HIDE DEF snap, D
<1>5. /\ rec'[t] = [rec[t] EXCEPT !.snap = snap] /\ pc'[t] = step
      /\ \A u \in Threads \ {t} : pc'[u] = pc[u] /\ rec'[u] = rec[u]
  BY <1>3 DEF JournalInv, TypeInv, TypeOK
<1>6. rec'[t].lsn = rec[t].lsn /\ rec'[t].kind = "checkpoint" /\ rec'[t].snap = snap
  BY <1>1, <1>5 DEF Records
<1>7. Log' = Log /\ Updates(Log)' = Updates(Log)
  <2>1. Log' = Log
    BY <1>3, SameLog
  <2>2. QED
    BY <2>1 DEF Updates
<1>8. mu = t /\ \A u \in Threads \ {t} : ~ Holding(u)
  BY <1>1 DEF OrderInv, LockInv, Holding
<1>9. \A q : ~ InFlight(q) /\ ~ InFlight(q)'
  BY <1>1, <1>5, <1>8 DEF InFlight, Holding
<1>10. Sound(Log)'
  BY <1>3, <1>7, SoundSame DEF OrderInv
<1>11. TableInv'
  BY <1>3, <1>7, <1>9 DEF OrderInv, TableInv, Newest
<1>12. LockInv'
  BY <1>1, <1>3, <1>5, <1>8 DEF LockInv, Holding
<1>13. \A q \in Updates(Log) : q.lsn < rec[t].lsn
  BY <1>1 DEF OrderInv, Copying
<1>14. ASSUME NEW u \in Threads PROVE Copying(u)'
  <2>1. CASE u = t /\ DOMAIN snap = Segs
    <3>1. \A q \in Segs : Newest({x \in Updates(Log) : x.lsn < rec[t].lsn}, q, snap[q])
      BY <1>4, <1>9, <1>13, <2>1 DEF OrderInv, TableInv, Newest
    <3>2. Covers(rec[t], Log)'
      BY <1>3, <1>6, <1>7, <3>1 DEF Covers, Newest
    <3>3. QED
      BY <1>5, <2>1, <3>2 DEF Copying
  <2>2. CASE u = t /\ DOMAIN snap # Segs
    BY <1>3, <1>4, <1>5, <1>6, <1>7, <1>13, <2>2 DEF Copying
  <2>3. CASE u # t
    BY <1>3, <1>5, <1>7, <2>3, CopyingSame DEF OrderInv
  <2>4. QED
    BY <2>1, <2>2, <2>3
<1>15. ASSUME NEW w \in Writers PROVE Latest(w)' /\ Reached(w)'
  <2>1. pc'[w] = pc[w] /\ rec'[w] = rec[w] /\ pc[w] \notin {"append", "apply"} /\ Reached(w)
    BY <1>1, <1>5, <1>8 DEF Holding, OrderInv
  <2>2. QED
    BY <1>3, <1>7, <2>1 DEF Latest, Reached, Logged, Updates
<1>16. NoTorn(file)' /\ \A u \in acked' : Logged(file, u)'
  BY <1>3 DEF OrderInv, NoTorn, Logged, Updates
<1>17. QED
  BY <1>10, <1>11, <1>12, <1>14, <1>15, <1>16 DEF OrderInv

LEMMA ApplyOrder ==
  ASSUME JournalInv, OrderInv, NEW t \in Threads, Apply(t)
  PROVE  OrderInv'
<1> DEFINE v == rec[t].id
           z == issued[v]
           n == Len(issued)
<1>1. /\ pc[t] = "apply" /\ t \in Writers /\ v \in 1 .. n /\ n \in Nat /\ z \in Segs
      /\ Writers \subseteq Threads
  BY DEF Apply, JournalInv, TypeInv, TypeOK, Local, Proper, Threads
<1>2. /\ table' = [table EXCEPT ![z] = v]
      /\ mu' = NoOne /\ pc' = [pc EXCEPT ![t] = "drain"]
      /\ UNCHANGED <<pending, file, rec, issued, acked>>
  BY DEF Apply, Goto, logVars
<1>3. /\ table'[z] = v /\ \A q \in Segs : q # z => table'[q] = table[q]
      /\ pc'[t] = "drain" /\ \A u \in Threads \ {t} : pc'[u] = pc[u]
  BY <1>1, <1>2 DEF JournalInv, TypeInv, TypeOK
<1>4. Log' = Log /\ Updates(Log)' = Updates(Log)
      /\ \A r \in Updates(Log) : r.id \in 1 .. n
  <2>1. Log' = Log /\ Log \in Seq(Records) /\ AllProper(Log, n)
    BY <1>2, SameLog, LogTyped DEF JournalInv
  <2>2. QED
    BY <1>1, <2>1, UpdatesTyped DEF Updates
<1>5. mu = t /\ \A u \in Threads \ {t} : ~ Holding(u)
  BY <1>1 DEF OrderInv, LockInv, Holding
<1>6. v = n /\ n \notin acked /\ Logged(Log, v)
      /\ \A u \in Writers : pc[u] \in {"drain", "sync"} => rec[u].id < n
  BY <1>1 DEF OrderInv, Latest, Reached
<1>7. \A q : (InFlight(q) <=> q.id = v) /\ ~ InFlight(q)'
  BY <1>1, <1>3, <1>5 DEF InFlight, Holding
<1>8. Sound(Log)'
  BY <1>2, <1>4, SoundSame DEF OrderInv
<1>9. TableInv'
  <2> SUFFICES ASSUME NEW q \in Segs PROVE Newest(Updates(Log), q, table'[q])
    BY <1>2, <1>4, <1>7 DEF TableInv, Newest
  <2>1. CASE q = z
    BY <1>1, <1>3, <1>4, <1>6, <2>1 DEF Newest, Logged
  <2>2. CASE q # z
    <3>1. Newest({r \in Updates(Log) : r.id # v}, q, table[q])
      BY <1>7 DEF OrderInv, TableInv, Newest
    <3>2. QED
      BY <1>3, <2>2, <3>1 DEF Newest
  <2>3. QED
    BY <2>1, <2>2
<1>10. LockInv'
  BY <1>3, <1>5 DEF LockInv, Holding
<1>11. ASSUME NEW u \in Threads PROVE Copying(u)'
  <2>1. CASE u = t
    BY <1>3, <2>1 DEF Copying
  <2>2. CASE u # t
    <3>1. pc'[u] = pc[u] /\ rec'[u] = rec[u] /\ pc[u] # "snap" /\ Copying(u)
      BY <1>2, <1>3, <1>5, <2>2 DEF Holding, OrderInv
    <3>2. QED
      BY <1>2, <1>4, <3>1 DEF Copying, Covers, Newest
  <2>3. QED
    BY <2>1, <2>2
<1>12. ASSUME NEW w \in Writers PROVE Latest(w)' /\ Reached(w)'
  <2>1. CASE w = t
    BY <1>2, <1>3, <1>4, <1>6, <2>1 DEF Latest, Reached, Logged
  <2>2. CASE w # t
    <3>1. pc'[w] = pc[w] /\ rec'[w] = rec[w] /\ pc[w] \notin {"append", "apply"} /\ Reached(w)
      BY <1>1, <1>2, <1>3, <1>5, <2>2 DEF Holding, OrderInv
    <3>2. QED
      BY <1>2, <1>4, <3>1 DEF Latest, Reached, Logged, Updates
  <2>3. QED
    BY <2>1, <2>2
<1>13. NoTorn(file)' /\ \A u \in acked' : Logged(file, u)'
  BY <1>2 DEF OrderInv, NoTorn, Logged, Updates
<1>14. QED
  BY <1>8, <1>9, <1>10, <1>11, <1>12, <1>13 DEF OrderInv

\* Of the checkpoints on their way to the log, an appended record disturbs none.
LEMMA CoversThen ==
  ASSUME NEW f \in Seq(Records), NEW r \in Records, NEW c \in Records, Covers(c, f),
         r.kind = "L2P" => c.lsn < r.lsn
  PROVE  Covers(c, Append(f, r))
<1>1. Updates(Append(f, r)) = Updates(f) \union (IF r.kind = "L2P" THEN {r} ELSE {})
  BY AppendedUpdates
<1>2. r.kind = "L2P" => ~ (r.lsn < c.lsn)
  BY DEF Records
<1>3. {q \in Updates(Append(f, r)) : q.lsn < c.lsn} = {q \in Updates(f) : q.lsn < c.lsn}
  BY <1>1, <1>2
<1>4. QED
  BY <1>3 DEF Covers

LEMMA appendRecordOrder ==
  ASSUME JournalInv, OrderInv, NEW t \in Threads, appendRecord(t)
  PROVE  OrderInv'
<1> DEFINE r == rec[t]
           g == Append(Log, r)
           n == Len(issued)
<1>1. /\ pc[t] = "append" /\ Proper(r, n) /\ r \in Records /\ (t \in Writers <=> r.kind = "L2P")
      /\ Log \in Seq(Records) /\ Writers \subseteq Threads /\ n \in Nat
      /\ t \in Writers \union Loggers
  BY LogTyped DEF appendRecord, JournalInv, TypeInv, TypeOK, Local, Threads
<1>2. /\ pending' = Append(pending, r)
      /\ pc' = [pc EXCEPT ![t] = IF t \in Writers THEN "apply" ELSE "drain"]
      /\ UNCHANGED <<file, table, mu, rec, issued, acked>>
  BY DEF appendRecord, Goto
<1>3. /\ pc'[t] = IF t \in Writers THEN "apply" ELSE "drain"
      /\ \A u \in Threads \ {t} : pc'[u] = pc[u]
  BY <1>2 DEF JournalInv, TypeInv, TypeOK
<1>4. Log' = g
  <2>1. Readable(file) \in Seq(Records) /\ pending \in Seq(Records)
    BY LogTyped DEF JournalInv, TypeInv, TypeOK
  <2>2. Readable(file) \o Append(pending, r) = Append(Readable(file) \o pending, r)
    BY <1>1, <2>1
  <2>3. QED
    BY <1>2, <2>2 DEF Log
<1>5. /\ Len(g) = Len(Log) + 1 /\ Len(Log) \in Nat /\ g[Len(Log) + 1] = r
      /\ \A i \in 1 .. Len(Log) : g[i] = Log[i]
      /\ \A i \in 1 .. Len(g) : i \in 1 .. Len(Log) \/ i = Len(Log) + 1
      /\ g \in Seq(Records)
  BY <1>1
<1>6. Updates(g) = Updates(Log) \union (IF r.kind = "L2P" THEN {r} ELSE {})
  BY <1>1, AppendedUpdates
<1>7. \A u : Logged(Log, u) => Logged(g, u)
  BY <1>6 DEF Logged
<1> HIDE DEF g
<1>7a. Updates(Log)' = Updates(g)
  BY <1>4 DEF Updates
<1>8. t \in Writers => \A u \in Threads \ {t} : ~ Holding(u)
  BY <1>1 DEF OrderInv, LockInv, Holding
<1>9. t \in Writers =>
        /\ r.lsn > 0
        /\ \A i \in 1 .. Len(Log) : Log[i].kind = "L2P" => Log[i].id < r.id
        /\ \A i \in 1 .. Len(Log) : Log[i].kind \in {"L2P", "checkpoint"} => Log[i].lsn < r.lsn
        /\ \A u \in Threads : pc[u] = "append" /\ rec[u].kind = "checkpoint" => rec[u].lsn < r.lsn
        /\ r.id = n /\ n \notin acked
        /\ \A u \in Writers : pc[u] \in {"drain", "sync"} => rec[u].id < n
  BY <1>1 DEF OrderInv, Latest
<1>10. Sound(g)
  <2>1. CASE t \in Writers
    <3>1. Sound(Log) /\ r.kind = "L2P"
      BY <1>1, <2>1 DEF OrderInv
    <3>2. QED
      BY <1>1, <1>9, <2>1, <3>1, SoundThenUpdate DEF g
  <2>2. CASE t \notin Writers
    <3>1. r.kind = "checkpoint" => Covers(r, Log)
      BY <1>1 DEF OrderInv, Copying
    <3>2. Sound(Log)
      BY DEF OrderInv
    <3>3. QED
      BY <1>1, <2>2, <3>1, <3>2, SoundThenOther DEF g
  <2>3. QED
    BY <2>1, <2>2
<1>11. Sound(Log)'
  <2>1. InOrder(Log)'
    BY <1>4, <1>10 DEF Sound, InOrder
  <2>2. \A i \in 1 .. Len(g) : g[i].kind = "checkpoint" => Covers(g[i], g)
    BY <1>10 DEF Sound
  <2>3. \A i \in 1 .. Len(Log') : Log'[i].kind = "checkpoint" => Covers(Log[i], Log)'
    BY <1>2, <1>4, <1>7a, <2>2 DEF Covers, Newest
  <2>4. QED
    BY <2>1, <2>3 DEF Sound
<1>12. TableInv'
  <2>1. {q \in Updates(Log)' : ~ InFlight(q)'} = {q \in Updates(Log) : ~ InFlight(q)}
    <3>1. CASE t \in Writers
      <4>1. \A q : ~ InFlight(q) /\ (InFlight(q)' <=> q.id = r.id)
        BY <1>1, <1>2, <1>3, <1>8, <3>1 DEF InFlight, Holding
      <4>2. \A q \in Updates(Log) : q.id # r.id
        <5>1. \A i \in 1 .. Len(Log) : Log[i].kind = "L2P" => Log[i].id \in Nat
          BY LogTyped DEF JournalInv, AllProper, Proper
        <5>2. \A i \in 1 .. Len(Log) : Log[i].kind = "L2P" => Log[i].id # r.id
          BY <1>1, <1>9, <3>1, <5>1
        <5>3. QED
          BY <5>2 DEF Updates
      <4>3. QED
        BY <1>1, <1>6, <1>7a, <3>1, <4>1, <4>2
    <3>2. CASE t \notin Writers
      <4>1. \A q : InFlight(q)' <=> InFlight(q)
        BY <1>1, <1>2, <1>3, <3>2 DEF InFlight
      <4>2. QED
        BY <1>1, <1>6, <1>7a, <3>2, <4>1
    <3>3. QED
      BY <3>1, <3>2
  <2>2. QED
    BY <1>2, <2>1 DEF OrderInv, TableInv, Newest
<1>13. LockInv'
  BY <1>1, <1>2, <1>3 DEF OrderInv, LockInv, Holding
<1>14. ASSUME NEW u \in Threads PROVE Copying(u)'
  <2>1. CASE u = t
    BY <1>3, <2>1 DEF Copying
  <2>2. CASE u # t
    <3>1. /\ pc'[u] = pc[u] /\ rec'[u] = rec[u] /\ Copying(u) /\ rec[u] \in Records
          /\ t \in Writers => pc[u] # "snap"
      BY <1>2, <1>3, <1>8, <2>2 DEF OrderInv, Holding, JournalInv, TypeInv, TypeOK
    <3>2. CASE pc[u] = "snap"
      BY <1>1, <1>2, <1>6, <1>7a, <3>1, <3>2 DEF Copying
    <3>3. CASE pc[u] = "append" /\ rec[u].kind = "checkpoint"
      <4>1. Covers(rec[u], Log) /\ (r.kind = "L2P" => rec[u].lsn < r.lsn)
        BY <1>1, <1>9, <3>1, <3>3 DEF Copying
      <4>2. Covers(rec[u], g)
        BY <1>1, <3>1, <4>1, CoversThen DEF g
      <4>3. Covers(rec[u], Log)'
        BY <1>2, <1>4, <1>7a, <3>1, <4>2 DEF Covers, Newest
      <4>4. QED
        BY <3>1, <3>3, <4>3 DEF Copying
    <3>4. QED
      BY <3>1, <3>2, <3>3 DEF Copying
  <2>3. QED
    BY <2>1, <2>2
<1>15. ASSUME NEW w \in Writers PROVE Latest(w)' /\ Reached(w)'
  <2>1. CASE w = t
    <3>1. Logged(Log, rec[w].id)'
      BY <1>1, <1>2, <1>6, <1>7a, <2>1 DEF Logged
    <3>2. Reached(w)'
      BY <1>3, <2>1, <3>1 DEF Reached
    <3>3. Latest(w)'
      BY <1>1, <1>2, <1>3, <1>9, <2>1 DEF Latest
    <3>4. QED
      BY <3>2, <3>3
  <2>2. CASE w # t
    <3>1. pc'[w] = pc[w] /\ rec'[w] = rec[w] /\ Latest(w) /\ Reached(w)
      BY <1>1, <1>2, <1>3, <2>2 DEF OrderInv
    <3>2. Reached(w)'
      BY <1>2, <1>7, <1>7a, <3>1 DEF Reached, Logged, Updates
    <3>3. CASE pc[w] \in {"append", "apply"}
      <4>1. t \notin Writers /\ r.kind # "L2P"
        BY <1>1, <1>8, <2>2, <3>3 DEF Holding
      <4>2. \A u \in Threads : pc'[u] = "append" => pc[u] = "append"
        BY <1>1, <1>3, <4>1
      <4>3. pc[w] = "append" /\ r.kind = "checkpoint" => r.lsn < rec[w].lsn
        BY <1>1, <3>1 DEF Latest
      <4>4. pc[w] = "append" =>
              /\ \A i \in 1 .. Len(g) : g[i].kind = "L2P" => g[i].id < rec[w].id
              /\ \A i \in 1 .. Len(g) : g[i].kind \in {"L2P", "checkpoint"} => g[i].lsn < rec[w].lsn
        BY <1>5, <3>1, <4>1, <4>3 DEF Latest
      <4>5. \A u \in Writers : pc'[u] = pc[u]
        BY <1>1, <1>3, <4>1
      <4>6. QED
        BY <1>2, <1>4, <3>1, <3>2, <4>2, <4>4, <4>5 DEF Latest
    <3>4. CASE pc[w] \notin {"append", "apply"}
      BY <3>1, <3>2, <3>4 DEF Latest
    <3>5. QED
      BY <3>3, <3>4
  <2>3. QED
    BY <2>1, <2>2
<1>16. NoTorn(file)' /\ \A u \in acked' : Logged(file, u)'
  BY <1>2 DEF OrderInv, NoTorn, Logged, Updates
<1>17. QED
  BY <1>11, <1>12, <1>13, <1>14, <1>15, <1>16 DEF OrderInv

\* A crash leaves the file, a beginning of the log, and the table is its replay.
LEMMA CrashOrder ==
  ASSUME ~ PowerLoss, JournalInv, OrderInv, Crash
  PROVE  OrderInv'
<1>1. /\ file' = file /\ table' = Restored(file) /\ pending' = << >> /\ mu' = NoOne
      /\ pc' = [t \in Threads |-> "idle"] /\ UNCHANGED <<issued, acked>>
  BY DEF Crash
<1>2. /\ Readable(file) = file /\ Begins(file, Log) /\ Log \in Seq(Records)
      /\ file \in Seq(Records) /\ Len(issued) \in Nat /\ AllProper(file, Len(issued))
  BY WholeLog, LogTyped DEF JournalInv, OrderInv, TypeInv, TypeOK
<1>3. Log' = file
  BY <1>1, <1>2, ConcatEmptySeq DEF Log
<1>4. Sound(file)
  BY <1>2, SoundBeginning DEF OrderInv
<1>5. Unique(file) /\ Below(file, lsn) /\ lsn \in Nat
  <2>1. \A i \in 1 .. Len(file) : i \in 1 .. Len(Log) /\ file[i] = Log[i]
    BY <1>2 DEF Begins
  <2>2. QED
    BY <2>1 DEF JournalInv, LSNInv, Unique, Below, TypeInv, TypeOK
<1>6. \A s \in Segs : Newest(Updates(file), s, table'[s])
  BY <1>1, <1>2, <1>4, <1>5, ReplayIsNewest DEF Restored
<1>7. Updates(Log)' = Updates(file)
  BY <1>3 DEF Updates
<1>8. TableInv'
  <2>1. \A q : ~ InFlight(q)'
    BY <1>1 DEF InFlight, Threads
  <2>2. QED
    BY <1>1, <1>6, <1>7, <2>1 DEF TableInv, Newest
<1>9. Sound(Log)'
  <2>1. InOrder(Log)'
    BY <1>3, <1>4 DEF Sound, InOrder
  <2>2. \A i \in 1 .. Len(file) : file[i].kind = "checkpoint" => Covers(file[i], file)
    BY <1>4 DEF Sound
  <2>3. \A i \in 1 .. Len(Log') : Log'[i].kind = "checkpoint" => Covers(Log[i], Log)'
    BY <1>1, <1>3, <1>7, <2>2 DEF Covers, Newest
  <2>4. QED
    BY <2>1, <2>3 DEF Sound
<1>10. LockInv' /\ (\A t \in Threads : Copying(t)') /\ \A w \in Writers : Latest(w)' /\ Reached(w)'
  <2>1. \A t \in Threads : pc'[t] = "idle"
    BY <1>1
  <2>2. \A w \in Writers : pc'[w] = "idle"
    BY <2>1 DEF Threads
  <2>3. QED
    BY <2>1, <2>2 DEF LockInv, Holding, Copying, Latest, Reached
<1>11. NoTorn(file)' /\ \A u \in acked' : Logged(file, u)'
  BY <1>1 DEF OrderInv, NoTorn, Logged, Updates
<1>12. QED
  BY <1>8, <1>9, <1>10, <1>11 DEF OrderInv

LEMMA OrderInitially ==
  ASSUME Init
  PROVE  OrderInv
<1>1. file = << >> /\ Log = << >>
  BY DEF Init, Readable, Log
<1>2. Updates(Log) = {} /\ NoTorn(file) /\ Sound(Log)
  BY <1>1 DEF Updates, NoTorn, Sound, InOrder
<1>3. TableInv
  BY <1>2 DEF TableInv, Newest, Init
<1>4. LockInv /\ (\A t \in Threads : Copying(t)) /\ \A w \in Writers : Latest(w) /\ Reached(w)
  <2>1. (\A t \in Threads : pc[t] = "idle") /\ \A w \in Writers : pc[w] = "idle"
    BY DEF Init, Threads
  <2>2. QED
    BY <2>1 DEF LockInv, Holding, Copying, Latest, Reached
<1>5. QED
  BY <1>2, <1>3, <1>4 DEF OrderInv, Init

\* Every step keeps the order of the log.
LEMMA OrderSteps ==
  ASSUME ~ PowerLoss, QuietCheckpoints, JournalInv, OrderInv, [Next]_vars
  PROVE  OrderInv'
<1>1. \A t \in Threads : Work(t) => OrderInv'
  BY SnapshotOrder, appendRecordOrder, ApplyOrder, DrainOrder, SyncOrder DEF Work
<1>2. CASE UNCHANGED vars
  <2>1. UNCHANGED <<pending, file, table, mu, pc, rec, issued, acked>>
    BY <1>2 DEF vars, logVars
  <2>2. Log' = Log /\ Updates(Log)' = Updates(Log)
    BY <2>1 DEF Log, Updates
  <2>3. Sound(Log)'
    BY <2>1, <2>2, SoundSame DEF OrderInv
  <2>4. TableInv' /\ LockInv'
    BY <2>1, <2>2 DEF OrderInv, TableInv, Newest, InFlight, LockInv, Holding
  <2>5. \A t \in Threads : Copying(t)'
    BY <2>1, <2>2, CopyingSame DEF OrderInv
  <2>6. \A w \in Writers : Latest(w)' /\ Reached(w)'
    BY <2>1, <2>2 DEF OrderInv, Latest, Reached, Logged, Updates
  <2>7. NoTorn(file)' /\ \A u \in acked' : Logged(file, u)'
    BY <2>1 DEF OrderInv, NoTorn, Logged, Updates
  <2>8. QED
    BY <2>3, <2>4, <2>5, <2>6, <2>7 DEF OrderInv
<1>3. CASE Next
  BY <1>1, <1>3, LogL2PUpdateOrder, ZoneActionOrder, WriteCheckpointOrder, TickOrder, CrashOrder
     DEF Next, Threads
<1>4. QED
  BY <1>2, <1>3

LEMMA OrderInvariant ==
  ASSUME ~ PowerLoss, QuietCheckpoints
  PROVE  Spec => []OrderInv
<1>1. JournalInv /\ OrderInv /\ [Next]_vars => OrderInv'
  BY OrderSteps
<1>2. Init => OrderInv
  BY OrderInitially
<1>3. QED
  BY <1>1, <1>2, JournalInvariant, PTL DEF Spec

\* What an update's writer has been told is kept survives every crash of the
\* process: its segment shows it, or a later update of the same segment.
THEOREM AcknowledgedSurvives ==
  ASSUME ~ PowerLoss, QuietCheckpoints
  PROVE  Spec => []AckedRecovered
<1>1. JournalInv /\ OrderInv => AckedRecovered
  <2> SUFFICES ASSUME JournalInv, OrderInv, NEW u \in acked PROVE table[issued[u]] >= u
    BY DEF AckedRecovered
  <2>1. u \in Nat /\ issued[u] \in Segs /\ table[issued[u]] \in Nat /\ Writers \subseteq Threads
    BY DEF JournalInv, TypeInv, TypeOK, Threads
  <2>2. file \in Seq(Records) /\ Log \in Seq(Records) /\ Begins(file, Log) /\ Logged(file, u)
    BY WholeLog DEF JournalInv, TypeInv, TypeOK, OrderInv
  <2>3. PICK r \in Updates(Log) : r.id = u
    BY <2>2, LoggedGrows DEF Logged
  <2>4. ~ InFlight(r)
    BY <2>3 DEF InFlight, OrderInv, Latest
  <2>5. QED
    BY <2>1, <2>3, <2>4 DEF OrderInv, TableInv, Newest
<1>2. QED
  BY <1>1, JournalInvariant, OrderInvariant, PTL

\* The log, what is pending included, replays to the table whenever no update is
\* between its record and its table entry.
THEOREM ReplayRebuildsTable ==
  ASSUME ~ PowerLoss, QuietCheckpoints
  PROVE  Spec => []LogReplaysTable
<1>1. JournalInv /\ OrderInv => LogReplaysTable
  <2> SUFFICES ASSUME JournalInv, OrderInv, \A t \in Writers : pc[t] # "apply"
               PROVE  Replay(Log) = table
    BY DEF LogReplaysTable, Log
  <2>1. /\ Log \in Seq(Records) /\ AllProper(Log, Len(issued)) /\ Len(issued) \in Nat
        /\ Unique(Log) /\ Below(Log, lsn) /\ lsn \in Nat /\ Sound(Log)
        /\ table \in [Segs -> 0 .. Len(issued)]
    BY LogTyped DEF JournalInv, LSNInv, TypeInv, TypeOK, OrderInv
  <2>2. Replay(Log) \in [Segs -> 0 .. Len(issued)]
    BY <2>1, ReplayTyped
  <2>3. \A r \in Updates(Log) : r.id \in Nat \ {0}
    BY <2>1, UpdatesTyped
  <2>4. ASSUME NEW s \in Segs PROVE Replay(Log)[s] = table[s]
    <3>1. Newest(Updates(Log), s, Replay(Log)[s])
      BY <2>1, ReplayIsNewest
    <3>2. Newest(Updates(Log), s, table[s])
      BY DEF OrderInv, TableInv, InFlight, Newest
    <3>3. Replay(Log)[s] \in Nat /\ table[s] \in Nat
      BY <2>1, <2>2
    <3>4. QED
      BY <2>3, <3>1, <3>2, <3>3, NewestOnce
  <2>5. QED
    BY <2>1, <2>2, <2>4
<1>2. QED
  BY <1>1, JournalInvariant, OrderInvariant, PTL
=============================================================================
