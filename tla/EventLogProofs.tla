--------------------------- MODULE EventLogProofs ---------------------------
(***************************************************************************)
(* Proofs about EventLog, for any number of events, of mishaps and any     *)
(* size of the queue, the file and the flush: seqs increase, what was      *)
(* announced is in the file, a loss is kept until it is reported, and what *)
(* a purge removed stays removed. They hold for every mix of the mishaps   *)
(* but two, which break them (Tame).                                       *)
(*                                                                         *)
(* Two invariants. EntryInv is about the entries in memory: who works, who *)
(* waits for a write, what a purge has settled. FileInv is about the file: *)
(* the index in memory, and every index that was saved, says what is true  *)
(* of the lines up to its offset.                                          *)
(***************************************************************************)
EXTENDS EventLog, Integers, SequenceTheorems, WellFoundedInduction, TLAPS

\* No caller offers an event while close() has yet to end (a race that makes
\* two entries of one conversation write at once), and no process dies, and
\* no append fails, between a rotation and the first line of the new file.
Tame == \A w \in Worlds : "close race" \notin w /\ "rotation" \notin w

-----------------------------------------------------------------------------
(* Entries                                                                  *)

IndexRecords == [last : Nat, off : Nat, cut : Nat, first : Nat]
EntryRecords ==
  [at : {"none", "resident", "evicting"}, idx : IndexRecords, queue : Nat,
   job : {"none", "event", "report"},
   step : {"idle", "append", "landed", "cut", "cutlanded", "rotate", "flush", "flushing"},
   drop : BOOLEAN, dirty : BOOLEAN, since : Nat, timer : BOOLEAN, size : Nat, want : SUBSET Requests]
Kinds == {"event", "gap", "rotated", "torn"}
Lines == [seq : Nat, kind : Kinds]
WriteRecords == [by : Requests, e : Entries, idx : IndexRecords]

Types ==
  /\ entry \in [Entries -> EntryRecords]
  /\ writing = NoWrite \/ writing \in WriteRecords
  /\ snap = NoSnap \/ snap \in IndexRecords
  /\ opening = NoSnap \/ opening \in IndexRecords
  /\ purge \in {"no", "loads", "chains", "removing", "gone"}
  /\ owed \in BOOLEAN /\ offered \in Nat /\ faults \in Nat
  /\ world \in Worlds
  /\ lines \in Seq(Lines) /\ cuts \in Seq(Nat) /\ frag \in BOOLEAN
  /\ persisted \in SUBSET Nat

\* The file is cut where it has lines, and some number no seq in it exceeds.
FileShape ==
  /\ \A k \in 1 .. Len(cuts) : cuts[k] \in 0 .. Len(lines)
  /\ \E b \in Nat : \A i \in 1 .. Len(lines) : lines[i].seq <= b

\* The write under way is one for this entry.
WritingFor(e, by) == writing # NoWrite /\ writing.e = e /\ writing.by = by

\* Only an entry in memory has work, and one that is leaving has none.
WorkInMemory ==
  \A e \in Entries :
    /\ entry[e].at # "resident" => Idle(e)
    /\ entry[e].at = "none" => ~entry[e].timer
\* A conversation has one entry in memory, and none while it is being opened.
OneInMemory ==
  /\ \A e, f \in Entries : InMemory(e) /\ InMemory(f) => e = f
  /\ opening # NoSnap => \A e \in Entries : ~InMemory(e)
\* What is not in memory, and was not purged, left nothing behind.
NothingBehind ==
  purge \in {"no", "loads"} =>
    \A e \in Entries : entry[e].at = "none" =>
      entry[e] = NotInUse /\ (writing # NoWrite => writing.e # e)
\* close() waits for the chain, the chain for the snapshot it asked for.
CloseIsIdle == \A e \in Entries : Closing(e) => Idle(e)
DrainWaits ==
  \A e \in Entries :
    /\ "drain" \in entry[e].want \/ WritingFor(e, "drain") => entry[e].step = "flushing"
    /\ "drain" \in entry[e].want => ~WritingFor(e, "drain")
\* An entry that is leaving waits for a write of its snapshot.
LeavingWrites ==
  \A e \in Entries : entry[e].at = "evicting" =>
    entry[e].want # {} \/ (writing # NoWrite /\ writing.e = e)
\* A purge lets nothing be loaded, and what it removes nobody writes again.
PurgeShuts ==
  /\ purge \notin {"no", "loads"} => opening = NoSnap
  /\ purge \in {"removing", "gone"} =>
       writing = NoWrite /\ \A e \in Entries : entry[e].at = "none" /\ entry[e].want = {}

EntryInv ==
  /\ Types /\ WorkInMemory /\ OneInMemory /\ NothingBehind
  /\ CloseIsIdle /\ DrainWaits /\ LeavingWrites /\ PurgeShuts

\* A loss to be reported is in a tally or in a report that is not yet written.
LossOwed ==
  owed => \E e \in Entries :
    entry[e].drop \/ (entry[e].job = "report" /\ entry[e].step \in {"append", "landed"})

\* What a purge removed stays removed.
Empty == purge = "gone" => lines = <<>> /\ ~frag /\ cuts = <<>> /\ snap = NoSnap /\ persisted = {}

-----------------------------------------------------------------------------
(* The file                                                                 *)

\* Where the file begins that followed the k-th rotation.
Begin(k) == IF k = 0 THEN 0 ELSE cuts[k]

\* What an index says is true of the lines up to its offset in its file.
Covers(idx) ==
  /\ idx.cut \in 0 .. Len(cuts) /\ Begin(idx.cut) + idx.off <= Len(lines)
  /\ \A i \in 1 .. Begin(idx.cut) + idx.off : Readable(lines[i]) => lines[i].seq <= idx.last
  /\ idx.first # 0 => \A i \in 1 .. Begin(idx.cut) : Readable(lines[i]) => lines[i].seq < idx.first
SavedCovers ==
  /\ snap # NoSnap => Covers(snap)
  /\ opening # NoSnap => Covers(opening)
  /\ writing # NoWrite => Covers(writing.idx)

HasLanded(e) == entry[e].step \in {"landed", "cutlanded"}
\* The index in memory covers the file, but for the line just appended,
\* which has the next seq.
Fits(idx, landed) ==
  /\ Covers(idx) /\ idx.cut = Len(cuts)
  /\ landed =>
       /\ FileFrom + idx.off + 1 = Len(lines) /\ lines[Len(lines)].seq = idx.last + 1
       /\ Readable(lines[Len(lines)]) \/ "partial" \in world
  /\ ~landed => FileFrom + idx.off = Len(lines)
MemoryCovers == \A e \in Entries : InMemory(e) => Fits(entry[e].idx, HasLanded(e))

\* A new file begins with a line that can be read.
HeadReadable ==
  cuts # <<>> =>
    \/ \E e \in Entries : entry[e].step = "cut"
    \/ Size > 0 /\ Readable(lines[FileFrom + 1])
CutIsClean == \A e \in Entries : entry[e].step = "cut" => ~frag /\ Size = 0
\* What was appended to an unfinished line was in a world of such failures.
UnfinishedAtOpen == frag /\ "partial" \notin world => \A e \in Entries : ~InMemory(e)
\* What was announced is a line of some file.
PersistedIsALine ==
  \A s \in persisted : \E i \in 1 .. Len(lines) :
    lines[i].seq = s /\ (Readable(lines[i]) \/ "partial" \in world)

FileInv ==
  /\ SeqsIncrease /\ SavedCovers /\ MemoryCovers
  /\ HeadReadable /\ CutIsClean /\ UnfinishedAtOpen /\ PersistedIsALine

-----------------------------------------------------------------------------
(* One entry changes                                                        *)

\* Put changes one entry.
LEMMA PutFacts ==
  ASSUME Types, NEW e \in Entries, NEW r \in EntryRecords, Put(e, r)
  PROVE  /\ entry' \in [Entries -> EntryRecords]
         /\ entry'[e] = r
         /\ \A f \in Entries : f # e => entry'[f] = entry[f]
BY DEF Types, Put

\* An entry in memory works: it takes events, appends, asks for its snapshot.
LEMMA WorkStep ==
  ASSUME EntryInv, NEW e \in Entries, NEW r \in EntryRecords, Put(e, r),
         entry[e].at = "resident", r.at = "resident", ~Closing(e),
         "close" \in r.want => "close" \in entry[e].want,
         "drain" \in r.want \/ WritingFor(e, "drain") => r.step = "flushing",
         "drain" \in r.want => ~WritingFor(e, "drain"),
         UNCHANGED <<snap, opening, writing, purge, world>>,
         lines' \in Seq(Lines), cuts' \in Seq(Nat), frag' \in BOOLEAN, persisted' \in SUBSET Nat,
         owed' \in BOOLEAN, offered' \in Nat, faults' \in Nat
  PROVE  EntryInv'
<1>1. /\ entry' \in [Entries -> EntryRecords] /\ entry'[e] = r
      /\ \A f \in Entries : f # e => entry'[f] = entry[f]
  BY PutFacts DEF EntryInv
<1>2. Types'
  BY <1>1 DEF EntryInv, Types
<1>3. WorkInMemory' /\ OneInMemory'
  BY <1>1 DEF EntryInv, WorkInMemory, OneInMemory, Idle, InMemory
<1>4. NothingBehind' /\ LeavingWrites'
  BY <1>1 DEF EntryInv, NothingBehind, LeavingWrites
<1>5. CloseIsIdle'
  BY <1>1 DEF EntryInv, CloseIsIdle, Closing, Idle
<1>6. DrainWaits'
  BY <1>1 DEF EntryInv, DrainWaits, WritingFor
<1>7. PurgeShuts'
  BY <1>1 DEF EntryInv, PurgeShuts
<1> QED BY <1>2, <1>3, <1>4, <1>5, <1>6, <1>7 DEF EntryInv

\* The types of the parts, and of one entry.
LEMMA Typed ==
  ASSUME EntryInv, NEW e \in Entries
  PROVE  /\ entry[e] \in EntryRecords
         /\ entry[e].queue \in Nat /\ entry[e].size \in Nat /\ entry[e].since \in Nat
         /\ entry[e].idx \in IndexRecords
         /\ owed \in BOOLEAN /\ offered \in Nat /\ faults \in Nat
         /\ lines \in Seq(Lines) /\ cuts \in Seq(Nat) /\ frag \in BOOLEAN /\ persisted \in SUBSET Nat
         /\ \A k : Fault(k) \/ NoFault => faults' \in Nat
<1>1. /\ entry[e] \in EntryRecords /\ owed \in BOOLEAN /\ offered \in Nat /\ faults \in Nat
      /\ lines \in Seq(Lines) /\ cuts \in Seq(Nat) /\ frag \in BOOLEAN /\ persisted \in SUBSET Nat
  BY DEF EntryInv, Types
<1>2. /\ entry[e].queue \in Nat /\ entry[e].size \in Nat /\ entry[e].since \in Nat
      /\ entry[e].idx \in IndexRecords
  BY <1>1 DEF EntryRecords
<1>3. \A k : Fault(k) \/ NoFault => faults' \in Nat
  BY <1>1 DEF Fault, NoFault
<1> QED BY <1>1, <1>2, <1>3

\* What has work is in memory and not closing.
LEMMA Working ==
  ASSUME EntryInv, NEW e \in Entries, ~Idle(e)
  PROVE  entry[e].at = "resident" /\ ~Closing(e)
BY DEF EntryInv, WorkInMemory, CloseIsIdle

\* An index moved on by one line is one.
LEMMA AdvanceType ==
  ASSUME NEW idx \in IndexRecords
  PROVE  /\ Advance(idx) \in IndexRecords
         /\ Advance(idx).last = idx.last + 1 /\ Advance(idx).off = idx.off + 1
         /\ Advance(idx).cut = idx.cut
         /\ Advance(idx).first = IF idx.first = 0 THEN idx.last + 1 ELSE idx.first
<1>1. /\ idx.last + 1 \in Nat /\ idx.off + 1 \in Nat /\ idx.cut \in Nat
      /\ (IF idx.first = 0 THEN idx.last + 1 ELSE idx.first) \in Nat
  BY DEF IndexRecords
<1> QED BY <1>1 DEF Advance, Index, IndexRecords

\* A line without its end has the same seq.
LEMMA TornLine ==
  ASSUME NEW n, NEW k
  PROVE  [Line(n, k) EXCEPT !.kind = "torn"] = Line(n, "torn")
BY DEF Line

\* An event is offered (enqueue).
LEMMA OfferEntry ==
  ASSUME Tame, EntryInv, NEW e \in Entries, Offer(e)
  PROVE  EntryInv'
<1>1. /\ entry[e] \in EntryRecords /\ owed \in BOOLEAN /\ offered \in Nat /\ faults \in Nat
      /\ entry[e].queue \in Nat /\ entry[e].size \in Nat /\ entry[e].since \in Nat
      /\ entry[e].idx \in IndexRecords
      /\ lines \in Seq(Lines) /\ cuts \in Seq(Nat) /\ frag \in BOOLEAN /\ persisted \in SUBSET Nat
  BY Typed
<1>f. \A k : Fault(k) \/ NoFault => faults' \in Nat
  BY Typed
<1>2. Taken(e) /\ UNCHANGED <<snap, opening, writing, purge, world>>
  BY DEF Offer, Enqueue, Overflow, EnqueueGap
<1>3. /\ entry[e].at = "resident" /\ ~Closing(e) /\ offered' \in Nat
  <2>1. "close race" \notin world
    BY DEF Tame, EntryInv, Types
  <2>2. offered' = offered + 1 /\ entry[e].at = "resident" /\ ~Closing(e)
    BY <1>2, <2>1 DEF Taken, In
  <2> QED BY <1>1, <2>2
<1>4. faults' \in Nat /\ owed' \in BOOLEAN
  BY <1>1, <1>f DEF Offer, Enqueue, Overflow, EnqueueGap, NoFault
<1>5. PICK r : /\ Put(e, r)
               /\ \/ r = [entry[e] EXCEPT !.queue = @ + 1]
                  \/ r = [entry[e] EXCEPT !.drop = TRUE]
  BY DEF Offer, Enqueue, Overflow, EnqueueGap, NoteDrop
<1>6. r \in EntryRecords /\ r.at = entry[e].at /\ r.want = entry[e].want /\ r.step = entry[e].step
  <2>1. entry[e].queue + 1 \in Nat
    BY <1>1
  <2>2. CASE r = [entry[e] EXCEPT !.queue = entry[e].queue + 1]
    BY <1>1, <2>1, <2>2 DEF EntryRecords
  <2>3. CASE r = [entry[e] EXCEPT !.drop = TRUE]
    BY <1>1, <2>3 DEF EntryRecords
  <2> QED BY <1>5, <2>2, <2>3
<1>7. /\ "drain" \in r.want \/ WritingFor(e, "drain") => r.step = "flushing"
      /\ "drain" \in r.want => ~WritingFor(e, "drain")
  BY <1>6 DEF EntryInv, DrainWaits
<1>8. lines' = lines /\ cuts' = cuts /\ frag' = frag /\ persisted' = persisted
  BY DEF Offer, Enqueue, Overflow, EnqueueGap, disk
<1> QED BY <1>1, <1>8, <1>2, <1>3, <1>4, <1>5, <1>6, <1>7, WorkStep

\* The steps of the chain; only the last of them asks for the snapshot.
LEMMA DrainEntry ==
  ASSUME EntryInv, NEW e \in Entries, Drain(e)
  PROVE  EntryInv'
<1>1. /\ entry[e] \in EntryRecords /\ owed \in BOOLEAN /\ offered \in Nat /\ faults \in Nat
      /\ entry[e].queue \in Nat /\ entry[e].size \in Nat /\ entry[e].since \in Nat
      /\ entry[e].idx \in IndexRecords
      /\ lines \in Seq(Lines) /\ cuts \in Seq(Nat) /\ frag \in BOOLEAN /\ persisted \in SUBSET Nat
  BY Typed
<1>f. \A k : Fault(k) \/ NoFault => faults' \in Nat
  BY Typed
<1>2. UNCHANGED <<snap, opening, writing, purge, world>> /\ offered' = offered
  BY DEF Drain, DrainNext, AfterReport, Append1, AppendLands, AppendFails, AppendReturns, Rotate, FlushOrArm
<1>3. ~Idle(e)
  <2>1. entry[e].queue > 0 \/ entry[e].step # "idle" \/ entry[e].job = "report"
    BY DEF Drain, DrainNext, AfterReport, Append1, AppendLands, AppendFails, AppendReturns, Rotate, FlushOrArm
  <2> QED BY <2>1 DEF Idle
<1>4. entry[e].at = "resident" /\ ~Closing(e)
  BY <1>3, Working
<1>5. entry[e].step # "flushing"
  BY DEF Drain, DrainNext, AfterReport, Append1, AppendLands, AppendFails, AppendReturns, Rotate, FlushOrArm
<1>6. "drain" \notin entry[e].want /\ ~WritingFor(e, "drain")
  BY <1>5 DEF EntryInv, DrainWaits
<1>7. faults' \in Nat
  BY <1>1, <1>f DEF Drain, DrainNext, AfterReport, Append1, AppendLands, AppendFails, AppendReturns, Rotate,
    FlushOrArm, NoFault
<1>8. owed' \in BOOLEAN
  BY <1>1 DEF Drain, DrainNext, AfterReport, Append1, AppendLands, AppendFails, AppendReturns, Rotate, FlushOrArm
<1>l. lines' \in Seq(Lines) /\ frag' \in BOOLEAN
  <2>1. CASE AppendLands(e)
    <3>1. NextSeq(e) \in Nat
      BY <1>1, SMTT(30) DEF NextSeq, IndexRecords
    <3>2. KindOf(e) \in Kinds
      BY DEF KindOf, Kinds
    <3>3. PICK k \in Kinds : lines' = Append(lines, Line(NextSeq(e), k)) /\ frag' = FALSE
      <4>1. CASE frag
        <5>1. lines' = Append(lines, Line(NextSeq(e), "torn")) /\ frag' = FALSE
          BY <2>1, <4>1, TornLine DEF AppendLands, Lands
        <5> QED BY <5>1 DEF Kinds
      <4>2. CASE ~frag
        <5>1. lines' = Append(lines, Line(NextSeq(e), KindOf(e))) /\ frag' = FALSE
          BY <2>1, <4>2 DEF AppendLands, Lands
        <5> QED BY <3>2, <5>1
      <4> QED BY <4>1, <4>2
    <3>4. Line(NextSeq(e), k) \in Lines
      BY <3>1, <3>3 DEF Line, Lines
    <3> QED BY <1>1, <3>3, <3>4, AppendProperties
  <2>2. CASE ~AppendLands(e)
    BY <1>1, <2>2 DEF Drain, DrainNext, AfterReport, Append1, AppendFails, AppendReturns, Rotate, FlushOrArm, disk
  <2> QED BY <2>1, <2>2
<1>c. cuts' \in Seq(Nat)
  <2>1. CASE Rotate(e)
    <3>1. Len(lines) \in Nat
      BY <1>1
    <3>2. cuts' = Append(cuts, Len(lines)) \/ cuts' = cuts
      BY <2>1 DEF Rotate, disk
    <3>3. cuts \in Seq(Nat)
      BY <1>1
    <3>4. CASE cuts' = Append(cuts, Len(lines))
      <4> DEFINE n == Len(lines)
      <4>1. n \in Nat /\ cuts' = Append(cuts, n)
        BY <3>1, <3>4
      <4> HIDE DEF n
      <4> QED BY <3>3, <4>1
    <3> QED BY <3>2, <3>3, <3>4
  <2>2. CASE ~Rotate(e)
    BY <1>1, <2>2 DEF Drain, DrainNext, AfterReport, Append1, AppendLands, Lands, AppendFails, AppendReturns,
      FlushOrArm, disk
  <2> QED BY <2>1, <2>2
<1>p. persisted' \in SUBSET Nat
  <2>1. NextSeq(e) \in Nat
    BY <1>1, SMTT(30) DEF NextSeq, IndexRecords
  <2> QED BY <1>1, <2>1 DEF Drain, DrainNext, AfterReport, Append1, AppendLands, AppendFails, AppendReturns,
        Rotate, FlushOrArm
<1>9. ASSUME NEW r \in EntryRecords, Put(e, r), r.at = entry[e].at, r.want = entry[e].want
      PROVE  EntryInv'
  BY <1>l, <1>c, <1>p, <1>1, <1>2, <1>4, <1>6, <1>7, <1>8, <1>9, WorkStep
<1>10. CASE DrainNext(e)
  <2>1. PICK r : /\ Put(e, r)
                 /\ \/ r = [entry[e] EXCEPT !.drop = FALSE, !.job = "report", !.step = "append"]
                    \/ r = [entry[e] EXCEPT !.queue = entry[e].queue - 1, !.job = "event", !.step = "append"]
    BY <1>10 DEF DrainNext
  <2>2. entry[e].queue - 1 \in Nat
    BY <1>1, <1>10 DEF DrainNext
  <2>3. CASE r = [entry[e] EXCEPT !.drop = FALSE, !.job = "report", !.step = "append"]
    <3>1. r \in EntryRecords /\ r.at = entry[e].at /\ r.want = entry[e].want
      BY <1>1, <2>3 DEF EntryRecords
    <3> QED BY <1>9, <2>1, <3>1
  <2>4. CASE r = [entry[e] EXCEPT !.queue = entry[e].queue - 1, !.job = "event", !.step = "append"]
    <3>1. r \in EntryRecords /\ r.at = entry[e].at /\ r.want = entry[e].want
      BY <1>1, <2>2, <2>4 DEF EntryRecords
    <3> QED BY <1>9, <2>1, <3>1
  <2> QED BY <2>1, <2>3, <2>4
<1>11. CASE AfterReport(e)
  <2>1. PICK r : /\ Put(e, r)
                 /\ \/ r = [entry[e] EXCEPT !.job = "none"]
                    \/ /\ entry[e].queue # 0
                       /\ r = [entry[e] EXCEPT !.queue = entry[e].queue - 1, !.job = "event", !.step = "append"]
    BY <1>11 DEF AfterReport
  <2>2. entry[e].queue # 0 => entry[e].queue - 1 \in Nat
    BY <1>1
  <2>3. CASE r = [entry[e] EXCEPT !.job = "none"]
    <3>1. r \in EntryRecords /\ r.at = entry[e].at /\ r.want = entry[e].want
      BY <1>1, <2>3 DEF EntryRecords
    <3> QED BY <1>9, <2>1, <3>1
  <2>4. CASE /\ entry[e].queue # 0
             /\ r = [entry[e] EXCEPT !.queue = entry[e].queue - 1, !.job = "event", !.step = "append"]
    <3>1. r \in EntryRecords /\ r.at = entry[e].at /\ r.want = entry[e].want
      BY <1>1, <2>2, <2>4 DEF EntryRecords
    <3> QED BY <1>9, <2>1, <3>1
  <2> QED BY <2>1, <2>3, <2>4
<1>12. CASE AppendLands(e)
  <2>1. PICK s \in {"cutlanded", "landed"} : Put(e, [entry[e] EXCEPT !.step = s])
    BY <1>12 DEF AppendLands
  <2>2. [entry[e] EXCEPT !.step = s] \in EntryRecords
    BY <1>1, <2>1 DEF EntryRecords
  <2> QED BY <1>1, <1>9, <2>1, <2>2 DEF EntryRecords
<1>13. CASE AppendFails(e)
  <2>1. PICK r : /\ Put(e, r)
                 /\ \E s \in {"flush", "idle"}, j \in {"none", entry[e].job} :
                      r = [entry[e] EXCEPT !.drop = TRUE, !.step = s, !.job = j]
    BY <1>13 DEF AppendFails, DropAgain
  <2>2. r \in EntryRecords /\ r.at = entry[e].at /\ r.want = entry[e].want
    BY <1>1, <2>1 DEF EntryRecords
  <2> QED BY <1>9, <2>1, <2>2
<1>14. CASE AppendReturns(e)
  <2>1. PICK r : /\ Put(e, r)
                 /\ \E s \in {"rotate", "flush"} :
                      r = [entry[e] EXCEPT !.idx = Advance(entry[e].idx), !.size = entry[e].size + 1,
                             !.since = entry[e].since + 1, !.dirty = TRUE, !.step = s]
    BY <1>14 DEF AppendReturns
  <2>2. Advance(entry[e].idx) \in IndexRecords
    <3>1. entry[e].idx \in IndexRecords
      BY <1>1 DEF EntryRecords
    <3> QED BY <3>1, AdvanceType
  <2>3. entry[e].size + 1 \in Nat /\ entry[e].since + 1 \in Nat
    BY <1>1
  <2>4. r \in EntryRecords /\ r.at = entry[e].at /\ r.want = entry[e].want
    <3>1. PICK s \in {"rotate", "flush"} :
            r = [entry[e] EXCEPT !.idx = Advance(entry[e].idx), !.size = entry[e].size + 1,
                   !.since = entry[e].since + 1, !.dirty = TRUE, !.step = s]
      BY <2>1
    <3> DEFINE i == Advance(entry[e].idx)  m == entry[e].size + 1  n == entry[e].since + 1
    <3>2. i \in IndexRecords /\ m \in Nat /\ n \in Nat
      BY <2>2, <2>3
    <3>3. r = [entry[e] EXCEPT !.idx = i, !.size = m, !.since = n, !.dirty = TRUE, !.step = s]
      BY <3>1
    <3>4. entry[e] \in EntryRecords /\ s \in {"rotate", "flush"}
      BY <1>1, <3>1
    <3> HIDE DEF i, m, n
    <3>5. /\ r \in EntryRecords /\ r.at = entry[e].at /\ r.want = entry[e].want /\ r.idx = i
          /\ r.step = s /\ r.drop = entry[e].drop /\ r.job = entry[e].job
      BY <3>2, <3>3, <3>4 DEF EntryRecords
    <3> QED BY <3>5
  <2> QED BY <1>9, <2>1, <2>4
<1>15. CASE Rotate(e)
  <2>1. PICK r : /\ Put(e, r)
                 /\ \/ r = [entry[e] EXCEPT !.step = "cut", !.size = 0,
                              !.idx = Index(entry[e].idx.last, 0, Len(cuts'), 0)]
                    \/ r = [entry[e] EXCEPT !.step = "flush"]
    BY <1>15 DEF Rotate
  <2>2. r \in EntryRecords /\ r.at = entry[e].at /\ r.want = entry[e].want
    <3>1. CASE r = [entry[e] EXCEPT !.step = "flush"]
      BY <1>1, <3>1 DEF EntryRecords
    <3>2. CASE r # [entry[e] EXCEPT !.step = "flush"]
      <4>1. Len(cuts') \in Nat
        BY <1>c
      <4> DEFINE i == Index(entry[e].idx.last, 0, Len(cuts'), 0)
      <4>2. i \in IndexRecords
        BY <1>1, <4>1 DEF Index, IndexRecords
      <4>3. r = [entry[e] EXCEPT !.step = "cut", !.size = 0, !.idx = i]
        BY <2>1, <3>2
      <4>4. entry[e] \in EntryRecords
        BY <1>1
      <4> HIDE DEF i
      <4>5. /\ r \in EntryRecords /\ r.at = entry[e].at /\ r.want = entry[e].want /\ r.idx = i
            /\ r.step = "cut" /\ r.drop = entry[e].drop /\ r.job = entry[e].job
        BY <4>2, <4>3, <4>4 DEF EntryRecords
      <4> QED BY <4>5
    <3> QED BY <3>1, <3>2
  <2> QED BY <1>9, <2>1, <2>2
<1>16. CASE FlushOrArm(e)
  <2>1. CASE Put(e, [entry[e] EXCEPT !.step = "flushing", !.want = @ \cup {"drain"}])
    <3> DEFINE r == [entry[e] EXCEPT !.step = "flushing", !.want = @ \cup {"drain"}]
    <3>1. r \in EntryRecords /\ r.at = entry[e].at /\ r.want = entry[e].want \cup {"drain"} /\ r.step = "flushing"
      BY <1>1 DEF EntryRecords, Requests
    <3> HIDE DEF r
    <3> QED BY <1>1, <1>2, <1>4, <1>6, <1>7, <1>8, <1>l, <1>c, <1>p, <2>1, <3>1, WorkStep DEF r
  <2>2. CASE Put(e, EndJob([entry[e] EXCEPT !.timer = TRUE]))
    <3>1. PICK r : /\ Put(e, r)
                   /\ \E j \in {"none", entry[e].job} :
                        r = [entry[e] EXCEPT !.timer = TRUE, !.step = "idle", !.job = j]
      BY <1>1, <2>2 DEF EndJob, EntryRecords
    <3>2. r \in EntryRecords /\ r.at = entry[e].at /\ r.want = entry[e].want
      BY <1>1, <3>1 DEF EntryRecords
    <3> QED BY <1>9, <3>1, <3>2
  <2> QED BY <1>16, <2>1, <2>2 DEF FlushOrArm
<1> QED BY <1>10, <1>11, <1>12, <1>13, <1>14, <1>15, <1>16 DEF Drain, Append1

-----------------------------------------------------------------------------
(* Entries come and go                                                      *)

\* One entry is written for, waits, leaves or comes back.
LEMMA OneEntry ==
  ASSUME EntryInv, NEW e \in Entries, NEW r \in EntryRecords, Put(e, r),
         purge \notin {"removing", "gone"}, entry[e].at = "none" => r.at = "none",
         r.at # "resident" => r.queue = 0 /\ r.step = "idle" /\ r.job = "none",
         r.at = "none" => ~r.timer,
         purge \in {"no", "loads"} /\ r.at = "none" => r = NotInUse /\ (writing' # NoWrite => writing'.e # e),
         Closing(e)' => r.queue = 0 /\ r.step = "idle" /\ r.job = "none",
         "drain" \in r.want \/ WritingFor(e, "drain")' => r.step = "flushing",
         "drain" \in r.want => ~WritingFor(e, "drain")',
         r.at = "evicting" => r.want # {} \/ (writing' # NoWrite /\ writing'.e = e),
         writing' # writing => (writing = NoWrite \/ writing.e = e) /\ (writing' = NoWrite \/ writing'.e = e),
         writing' = NoWrite \/ writing' \in WriteRecords,
         snap' = NoSnap \/ snap' \in IndexRecords,
         UNCHANGED <<disk, persisted, opening, purge, world>>,
         owed' \in BOOLEAN, offered' \in Nat, faults' \in Nat
  PROVE  EntryInv'
<1>1. /\ entry' \in [Entries -> EntryRecords] /\ entry'[e] = r
      /\ \A f \in Entries : f # e => entry'[f] = entry[f]
  BY PutFacts DEF EntryInv
<1>2. Types'
  BY <1>1 DEF EntryInv, Types, disk
<1>3. WorkInMemory' /\ OneInMemory'
  <2>1. entry[e].at # "none" => InMemory(e)
    BY DEF EntryInv, Types, EntryRecords, InMemory
  <2>2. \A f \in Entries : InMemory(f)' => InMemory(f)
    BY <1>1, <2>1 DEF InMemory
  <2>3. OneInMemory'
    BY <2>2 DEF EntryInv, OneInMemory
  <2>4. WorkInMemory'
    BY <1>1 DEF EntryInv, WorkInMemory, Idle
  <2> QED BY <2>3, <2>4
<1>4. \A f \in Entries : f # e /\ writing' # NoWrite /\ writing'.e = f => writing' = writing
  OBVIOUS
<1>5. \A f \in Entries : f # e /\ writing # NoWrite /\ writing.e = f => writing' = writing
  OBVIOUS
<1>6. NothingBehind'
  BY <1>1, <1>4 DEF EntryInv, NothingBehind
<1>7. LeavingWrites'
  BY <1>1, <1>5 DEF EntryInv, LeavingWrites
<1>8. CloseIsIdle'
  <2>1. ASSUME NEW f \in Entries, f # e, Closing(f)'
        PROVE  Closing(f)
    <3>1. NoWrite.by # "close"
      BY DEF NoWrite
    <3> QED BY <1>1, <1>4, <2>1, <3>1 DEF Closing
  <2> QED BY <1>1, <2>1 DEF EntryInv, CloseIsIdle, Idle
<1>9. DrainWaits'
  <2>1. ASSUME NEW f \in Entries, f # e, WritingFor(f, "drain")'
        PROVE  WritingFor(f, "drain")
    BY <1>4, <2>1 DEF WritingFor
  <2> QED BY <1>1, <2>1 DEF EntryInv, DrainWaits
<1>10. PurgeShuts'
  BY DEF EntryInv, PurgeShuts
<1> QED BY <1>2, <1>3, <1>6, <1>7, <1>8, <1>9, <1>10 DEF EntryInv

\* Entries come into memory and leave it (evictIfNeeded, open, close).
LEMMA MemoryEntry ==
  ASSUME EntryInv, NEW e \in Entries, Evict(e) \/ Adopt(e) \/ Close(e) \/ PurgeChain(e)
  PROVE  EntryInv'
<1>1. /\ entry[e] \in EntryRecords /\ owed \in BOOLEAN /\ offered \in Nat /\ faults \in Nat
      /\ writing = NoWrite \/ writing \in WriteRecords
      /\ snap = NoSnap \/ snap \in IndexRecords
  BY DEF EntryInv, Types
<1>2. UNCHANGED <<disk, persisted, opening, purge, world, snap, writing, owed, offered, faults>>
  BY DEF Evict, Adopt, Close, PurgeChain
<1>3. /\ entry[e].at \in {"resident", "evicting"}
      /\ entry[e].queue = 0 /\ entry[e].step = "idle" /\ entry[e].job = "none"
  BY DEF Evict, Adopt, Close, PurgeChain, In, Idle, EntryInv, WorkInMemory
<1>4. purge \notin {"removing", "gone"}
  BY <1>3 DEF EntryInv, PurgeShuts
<1>5. "drain" \notin entry[e].want /\ ~WritingFor(e, "drain")
  BY <1>3 DEF EntryInv, DrainWaits
<1>6. PICK r : /\ Put(e, r)
               /\ \/ r = [entry[e] EXCEPT !.at = "evicting", !.want = entry[e].want \cup {"evict"}]
                  \/ r = [entry[e] EXCEPT !.at = "resident"]
                  \/ entry[e].at = "resident" /\ r = [entry[e] EXCEPT !.want = entry[e].want \cup {"close"}]
                  \/ purge = "chains" /\ r = [entry[e] EXCEPT !.dirty = FALSE, !.timer = FALSE, !.at = "none"]
  <2>1. CASE PurgeChain(e)
    BY <1>1, <2>1 DEF PurgeChain, Disarmed, EntryRecords
  <2> QED BY <2>1 DEF Evict, Adopt, Close, In
<1>7. /\ r \in EntryRecords
      /\ r.queue = entry[e].queue /\ r.step = entry[e].step /\ r.job = entry[e].job
      /\ r.at = "none" => ~r.timer /\ purge = "chains"
      /\ r.at = "evicting" => r.want # {}
      /\ "drain" \notin r.want
  <2>1. entry[e].want \cup {"evict"} \in SUBSET Requests /\ entry[e].want \cup {"close"} \in SUBSET Requests
    BY <1>1 DEF EntryRecords, Requests
  <2>2. CASE r = [entry[e] EXCEPT !.at = "evicting", !.want = entry[e].want \cup {"evict"}]
    BY <1>1, <1>5, <2>1, <2>2 DEF EntryRecords
  <2>3. CASE r = [entry[e] EXCEPT !.at = "resident"]
    BY <1>1, <1>5, <2>3 DEF EntryRecords
  <2>4. CASE entry[e].at = "resident" /\ r = [entry[e] EXCEPT !.want = entry[e].want \cup {"close"}]
    BY <1>1, <1>5, <2>1, <2>4 DEF EntryRecords
  <2>5. CASE purge = "chains" /\ r = [entry[e] EXCEPT !.dirty = FALSE, !.timer = FALSE, !.at = "none"]
    BY <1>1, <1>5, <2>5 DEF EntryRecords
  <2> QED BY <1>6, <2>2, <2>3, <2>4, <2>5
<1>8. ~WritingFor(e, "drain")'
  BY <1>2, <1>5 DEF WritingFor
<1> QED BY <1>1, <1>2, <1>3, <1>4, <1>6, <1>7, <1>8, OneEntry

\* An entry that was served leaves memory, or stays what it was: only a
\* drain that waited goes on.
Outcome(e, r) ==
  /\ Put(e, r)
  /\ r = NotInUse => entry[e].step = "idle" /\ entry[e].job = "none"
  /\ r # NotInUse =>
       /\ r.idx = entry[e].idx /\ r.at = entry[e].at /\ r.drop = entry[e].drop
       /\ \/ r.step = entry[e].step /\ r.job = entry[e].job
          \/ r.step = "idle" /\ entry[e].step = "flushing"

\* What a wait that is over makes of the entry.
LEMMA ServedFacts ==
  ASSUME NEW e \in Entries, NEW by \in Requests, NEW x \in EntryRecords,
         x.queue \in Nat,
         by = "drain" => x.at = "resident" /\ "drain" \notin x.want,
         by # "drain" => ("drain" \in x.want => x.step = "flushing"),
         by = "close" /\ x.at = "resident" => x.queue = 0 /\ x.step = "idle" /\ x.job = "none",
         x.at # "resident" => x.queue = 0 /\ x.step = "idle" /\ x.job = "none"
  PROVE  LET r == Served(e, by, x) IN
         /\ r \in EntryRecords
         /\ r = NotInUse \/ (r.at = x.at /\ r.want = x.want /\ r.timer = x.timer /\ r.queue = x.queue)
         /\ r # NotInUse => (r.at = "evicting" => r.want # {})
         /\ "drain" \in r.want => r.step = "flushing"
         /\ r.at # "resident" => r.queue = 0 /\ r.step = "idle" /\ r.job = "none"
         /\ x.queue = 0 /\ x.step = "idle" /\ x.job = "none" => r.queue = 0 /\ r.step = "idle" /\ r.job = "none"
         /\ r # NotInUse => r.drop = x.drop /\ r.idx = x.idx
         /\ r = NotInUse => x.step = "idle" /\ x.job = "none"
         /\ r # NotInUse => r = x \/ (r.step = "idle" /\ by = "drain")
<1> DEFINE r == Served(e, by, x)
<1>1. NotInUse \in EntryRecords /\ NotInUse.want = {} /\ NotInUse.at = "none" /\ ~NotInUse.timer
      /\ NotInUse.queue = 0 /\ NotInUse.step = "idle" /\ NotInUse.job = "none"
  BY DEF NotInUse, EntryRecords, IndexRecords, Fresh, Index
<1>2. CASE by = "drain"
  <2>1. PICK j \in {"none", x.job} : r = [x EXCEPT !.step = "idle", !.job = j]
    BY <1>2 DEF Served, EndJob
  <2>2. r \in EntryRecords /\ r.at = x.at /\ r.want = x.want /\ r.timer = x.timer /\ r.queue = x.queue
        /\ r.step = "idle" /\ r.job = j /\ r.drop = x.drop /\ r.idx = x.idx
    BY <2>1 DEF EntryRecords
  <2> HIDE DEF r
  <2>3. "drain" \notin r.want /\ r.at = "resident"
    BY <1>2, <2>2
  <2> QED BY <1>1, <1>2, <2>1, <2>2, <2>3 DEF r
<1>3. CASE by = "close" /\ x.at = "resident"
  <2>1. r = NotInUse
    <3>1. /\ [x EXCEPT !.timer = FALSE].queue = x.queue /\ [x EXCEPT !.timer = FALSE].step = x.step
      BY DEF EntryRecords
    <3> QED BY <1>3, <3>1 DEF Served, Leaves
  <2> QED BY <1>1, <1>3, <2>1
<1>4. CASE by # "drain" /\ x.at = "evicting" /\ x.want = {}
  <2>1. r = NotInUse
    BY <1>4 DEF Served
  <2> QED BY <1>1, <1>4, <2>1
<1>5. CASE ~(by = "drain") /\ ~(by = "close" /\ x.at = "resident") /\ ~(by # "drain" /\ x.at = "evicting" /\ x.want = {})
  <2>1. r = x
    BY <1>5 DEF Served
  <2>2. x.at = "evicting" => x.want # {}
    BY <1>5
  <2> QED BY <1>1, <1>5, <2>1, <2>2
<1> QED BY <1>2, <1>3, <1>4, <1>5

\* What the request leaves of the entry.
Left(e, by) == {Taking(e, by), Disarmed(Taking(e, by)), [Disarmed(Taking(e, by)) EXCEPT !.since = 0]}

\* What a snapshot that is about to be written leaves of its entry.
LEMMA TakingFacts ==
  ASSUME NEW e \in Entries, NEW by \in Requests, entry[e] \in EntryRecords, NEW y \in Left(e, by)
  PROVE  /\ y \in EntryRecords /\ y.at = entry[e].at /\ y.queue = entry[e].queue
         /\ y.step = entry[e].step /\ y.job = entry[e].job
         /\ y.idx = entry[e].idx /\ y.drop = entry[e].drop /\ y.want = entry[e].want \ {by}
         /\ y.timer => entry[e].timer
<1> DEFINE x == entry[e]  b == x.timer /\ by # "timer"  w == x.want \ {by}
<1>1. x \in EntryRecords /\ b \in BOOLEAN /\ (b => x.timer) /\ w \in SUBSET Requests
  BY DEF EntryRecords
<1>2. Taking(e, by) = [x EXCEPT !.want = w, !.timer = b]
  BY DEF Taking
<1> HIDE DEF x, b, w
<1>3. \/ y = [x EXCEPT !.want = w, !.timer = b]
      \/ y = [[x EXCEPT !.want = w, !.timer = b] EXCEPT !.dirty = FALSE, !.timer = FALSE]
      \/ y = [[[x EXCEPT !.want = w, !.timer = b] EXCEPT !.dirty = FALSE, !.timer = FALSE] EXCEPT !.since = 0]
  BY <1>2 DEF Left, Disarmed
<1>4. /\ y \in EntryRecords /\ y.at = x.at /\ y.queue = x.queue /\ y.step = x.step /\ y.job = x.job
      /\ y.idx = x.idx /\ y.drop = x.drop /\ y.want = w
      /\ y.timer => x.timer
  <2>1. CASE y = [x EXCEPT !.want = w, !.timer = b]
    <3>1. /\ y \in EntryRecords /\ y.at = x.at /\ y.queue = x.queue /\ y.step = x.step /\ y.job = x.job
          /\ y.idx = x.idx /\ y.drop = x.drop /\ y.want = w /\ y.timer = b
      BY <1>1, <2>1 DEF EntryRecords
    <3> QED BY <1>1, <3>1
  <2>2. CASE y = [[x EXCEPT !.want = w, !.timer = b] EXCEPT !.dirty = FALSE, !.timer = FALSE]
    BY <1>1, <2>2 DEF EntryRecords
  <2>3. CASE y = [[[x EXCEPT !.want = w, !.timer = b] EXCEPT !.dirty = FALSE, !.timer = FALSE] EXCEPT !.since = 0]
    BY <1>1, <2>3 DEF EntryRecords
  <2> QED BY <1>3, <2>1, <2>2, <2>3
<1> QED BY <1>4 DEF x, w

\* What is asked for is asked by an entry in memory.
LEMMA AskedBy ==
  ASSUME EntryInv, NEW e \in Entries, NEW by \in Requests, Asked(e, by), writing = NoWrite
  PROVE  /\ purge \notin {"removing", "gone"}
         /\ purge \in {"no", "loads"} => entry[e].at # "none"
         /\ by \in entry[e].want \/ entry[e].timer
<1>1. by \in entry[e].want \/ entry[e].timer
  BY DEF Asked
<1>2. purge \notin {"removing", "gone"}
  BY <1>1 DEF EntryInv, PurgeShuts, WorkInMemory
<1>3. NotInUse.want = {} /\ NotInUse.timer = FALSE
  BY DEF NotInUse
<1>4. purge \in {"no", "loads"} => entry[e].at # "none"
  BY <1>1, <1>3 DEF EntryInv, NothingBehind
<1> QED BY <1>1, <1>2, <1>4

\* Nothing to write (writeIndexNow).
LEMMA SkipEntry ==
  ASSUME EntryInv, NEW e \in Entries, NEW by \in Requests, SkipWrite(e, by)
  PROVE  EntryInv' /\ \E r \in EntryRecords : Outcome(e, r)
<1>1. /\ entry[e] \in EntryRecords /\ entry[e].queue \in Nat /\ owed \in BOOLEAN /\ offered \in Nat /\ faults \in Nat
      /\ writing = NoWrite /\ (snap = NoSnap \/ snap \in IndexRecords)
  BY Typed DEF EntryInv, Types, SkipWrite
<1>2. /\ UNCHANGED <<disk, persisted, opening, purge, world, snap, writing, offered, faults>>
      /\ owed' \in BOOLEAN
  BY <1>1 DEF SkipWrite, Forgets
<1>3. /\ purge \notin {"removing", "gone"}
      /\ purge \in {"no", "loads"} => entry[e].at # "none"
  BY <1>1, AskedBy DEF SkipWrite
<1>4. PICK y \in Left(e, by) : Put(e, Served(e, by, y))
  BY DEF SkipWrite, Left
<1>5. /\ y \in EntryRecords /\ y.at = entry[e].at /\ y.queue = entry[e].queue
      /\ y.step = entry[e].step /\ y.job = entry[e].job
      /\ y.idx = entry[e].idx /\ y.drop = entry[e].drop
      /\ y.want = entry[e].want \ {by} /\ (y.timer => entry[e].timer)
  BY <1>1, <1>4, TakingFacts
<1>6. by \in entry[e].want \/ by = "timer"
  BY DEF SkipWrite, Asked
<1>7. by \in {"drain", "close"} => Closing(e) \/ by = "drain"
  BY <1>6 DEF Closing
<1>8. Closing(e) => entry[e].queue = 0 /\ entry[e].step = "idle" /\ entry[e].job = "none"
  BY DEF EntryInv, CloseIsIdle, Idle
<1>9. "drain" \in entry[e].want => entry[e].step = "flushing"
  BY DEF EntryInv, DrainWaits
<1>10. entry[e].at # "resident" => entry[e].queue = 0 /\ entry[e].step = "idle" /\ entry[e].job = "none"
  BY DEF EntryInv, WorkInMemory, Idle
<1>11. entry[e].at = "none" => ~entry[e].timer
  BY DEF EntryInv, WorkInMemory
<1> DEFINE r == Served(e, by, y)
<1>12. /\ r \in EntryRecords
       /\ r = NotInUse \/ (r.at = y.at /\ r.want = y.want /\ r.timer = y.timer /\ r.queue = y.queue)
       /\ r # NotInUse => (r.at = "evicting" => r.want # {})
       /\ "drain" \in r.want => r.step = "flushing"
       /\ r.at # "resident" => r.queue = 0 /\ r.step = "idle" /\ r.job = "none"
       /\ y.queue = 0 /\ y.step = "idle" /\ y.job = "none" => r.queue = 0 /\ r.step = "idle" /\ r.job = "none"
       /\ r # NotInUse => r.drop = y.drop /\ r.idx = y.idx
       /\ r = NotInUse => y.step = "idle" /\ y.job = "none"
       /\ r # NotInUse => r = y \/ (r.step = "idle" /\ by = "drain")
  BY <1>1, <1>5, <1>6, <1>7, <1>8, <1>9, <1>10, ServedFacts
<1> HIDE DEF r
<1>13. NotInUse.at = "none" /\ ~NotInUse.timer /\ NotInUse.want = {}
  BY DEF NotInUse
<1>14. r.at = "none" => ~r.timer
  BY <1>5, <1>11, <1>12, <1>13
<1>15. Closing(e)' => r.queue = 0 /\ r.step = "idle" /\ r.job = "none"
  <2>1. Put(e, r)
    BY <1>4 DEF r
  <2>2. entry'[e] = r
    BY <1>12, <2>1, PutFacts DEF EntryInv
  <2>3. writing' = NoWrite /\ NoWrite.by # "close"
    BY <1>1, <1>2 DEF NoWrite
  <2>4. Closing(e)' => "close" \in r.want
    BY <2>2, <2>3 DEF Closing
  <2>5. "close" \in r.want => Closing(e)
    BY <1>5, <1>12, <1>13 DEF Closing
  <2> QED BY <1>5, <1>8, <1>12, <2>4, <2>5
<1>16. ~WritingFor(e, "drain")'
  BY <1>1, <1>2 DEF WritingFor
<1>17. Put(e, r)
  BY <1>4 DEF r
<1>18. purge \in {"no", "loads"} /\ r.at = "none" => r = NotInUse
  BY <1>3, <1>5, <1>12
<1>19. entry[e].at = "none" => r.at = "none"
  BY <1>5, <1>12, <1>13
<1>20. r.at = "evicting" => r.want # {}
  BY <1>12, <1>13
<1>21. EntryInv'
  BY <1>1, <1>2, <1>3, <1>12, <1>14, <1>15, <1>16, <1>17, <1>18, <1>19, <1>20, OneEntry
<1>22. by = "drain" => entry[e].step = "flushing"
  BY <1>6, <1>9
<1>23. Outcome(e, r)
  BY <1>5, <1>12, <1>17, <1>22 DEF Outcome
<1> QED BY <1>12, <1>21, <1>23

\* A snapshot begins to be written.
LEMMA StartEntry ==
  ASSUME EntryInv, NEW e \in Entries, NEW by \in Requests, StartWrite(e, by)
  PROVE  EntryInv'
<1>1. /\ entry[e] \in EntryRecords /\ entry[e].idx \in IndexRecords
      /\ owed \in BOOLEAN /\ offered \in Nat /\ faults \in Nat
      /\ writing = NoWrite /\ (snap = NoSnap \/ snap \in IndexRecords)
  BY Typed DEF EntryInv, Types, StartWrite
<1>2. UNCHANGED <<disk, persisted, opening, purge, world, snap, owed, offered, faults>>
  BY DEF StartWrite
<1>3. writing' = [by |-> by, e |-> e, idx |-> entry[e].idx]
  BY DEF StartWrite
<1>4. writing' \in WriteRecords /\ writing'.e = e /\ writing'.by = by
  BY <1>1, <1>3 DEF WriteRecords
<1>5. purge = "no" /\ entry[e].at # "none"
  <2>1. purge \in {"no", "gone"}
    BY DEF StartWrite, Purging
  <2> QED BY <1>1, <2>1, AskedBy DEF StartWrite
<1>6. PICK r \in Left(e, by) : Put(e, r)
  BY DEF StartWrite, Left
<1>7. /\ r \in EntryRecords /\ r.at = entry[e].at /\ r.queue = entry[e].queue
      /\ r.step = entry[e].step /\ r.job = entry[e].job
      /\ r.want = entry[e].want \ {by}
  BY <1>1, <1>6, TakingFacts
<1>8. by \in entry[e].want \/ by = "timer"
  BY DEF StartWrite, Asked
<1>9. entry'[e] = r
  BY <1>6, <1>7, PutFacts DEF EntryInv
<1>10. Closing(e)' => Closing(e)
  BY <1>4, <1>7, <1>8, <1>9 DEF Closing
<1>11. Closing(e)' => r.queue = 0 /\ r.step = "idle" /\ r.job = "none"
  BY <1>7, <1>10 DEF EntryInv, CloseIsIdle, Idle
<1>12. /\ "drain" \in r.want \/ WritingFor(e, "drain")' => r.step = "flushing"
       /\ "drain" \in r.want => ~WritingFor(e, "drain")'
  <2>1. "drain" \in r.want \/ WritingFor(e, "drain")' => "drain" \in entry[e].want
    BY <1>4, <1>7, <1>8 DEF WritingFor
  <2>2. "drain" \in r.want => by # "drain"
    BY <1>7
  <2> QED BY <1>4, <1>7, <2>1, <2>2 DEF EntryInv, DrainWaits, WritingFor
<1>13. entry[e].at # "resident" => r.queue = 0 /\ r.step = "idle" /\ r.job = "none"
  BY <1>7 DEF EntryInv, WorkInMemory, Idle
<1>14. writing' # NoWrite
  BY <1>4 DEF NoWrite, Entries
<1> QED BY <1>1, <1>2, <1>4, <1>5, <1>6, <1>7, <1>11, <1>12, <1>13, <1>14, OneEntry

\* It is written, or not.
LEMMA EndEntry ==
  ASSUME EntryInv, EndWrite
  PROVE  EntryInv' /\ \E r \in EntryRecords : Outcome(writing.e, r)
<1>1. /\ writing \in WriteRecords /\ writing # NoWrite /\ writing' = NoWrite
      /\ snap = NoSnap \/ snap \in IndexRecords
  BY DEF EntryInv, Types, EndWrite
<1>2. writing.idx \in IndexRecords
  BY <1>1 DEF WriteRecords
<1>e. PICK e \in Entries, by \in Requests : e = writing.e /\ by = writing.by
  BY <1>1 DEF WriteRecords
<1>3. /\ entry[e] \in EntryRecords /\ entry[e].queue \in Nat /\ owed \in BOOLEAN /\ offered \in Nat /\ faults \in Nat
      /\ \A k : Fault(k) \/ NoFault => faults' \in Nat
  BY Typed
<1>4. PICK y \in {entry[e], [entry[e] EXCEPT !.dirty = TRUE]} : Put(e, Served(e, by, y))
  BY <1>e DEF EndWrite
<1>5. /\ UNCHANGED <<disk, opening, purge, persisted, world, offered>>
      /\ snap' = snap \/ snap' = writing.idx
      /\ NoFault \/ Fault("snapshot")
      /\ Forgets(e)
  BY <1>e DEF EndWrite
<1>6. owed' \in BOOLEAN /\ faults' \in Nat /\ (snap' = NoSnap \/ snap' \in IndexRecords)
  BY <1>1, <1>2, <1>3, <1>5 DEF Forgets
<1>7. /\ y \in EntryRecords /\ y.at = entry[e].at /\ y.queue = entry[e].queue
      /\ y.step = entry[e].step /\ y.job = entry[e].job
      /\ y.idx = entry[e].idx /\ y.drop = entry[e].drop
      /\ y.want = entry[e].want /\ y.timer = entry[e].timer
  BY <1>3, <1>4 DEF EntryRecords
<1>8. Closing(e) => entry[e].queue = 0 /\ entry[e].step = "idle" /\ entry[e].job = "none"
  BY DEF EntryInv, CloseIsIdle, Idle
<1>9. by = "close" => Closing(e)
  BY <1>e DEF Closing
<1>10. /\ "drain" \in entry[e].want \/ by = "drain" => entry[e].step = "flushing"
       /\ by = "drain" => "drain" \notin entry[e].want
  BY <1>1, <1>e DEF EntryInv, DrainWaits, WritingFor
<1>11. entry[e].at # "resident" => entry[e].queue = 0 /\ entry[e].step = "idle" /\ entry[e].job = "none"
  BY DEF EntryInv, WorkInMemory, Idle
<1>12. entry[e].at = "none" => ~entry[e].timer
  BY DEF EntryInv, WorkInMemory
<1>13. /\ purge \notin {"removing", "gone"}
       /\ purge \in {"no", "loads"} => entry[e].at # "none"
  BY <1>1, <1>e DEF EntryInv, PurgeShuts, NothingBehind
<1> DEFINE r == Served(e, by, y)
<1>14. /\ r \in EntryRecords
       /\ r = NotInUse \/ (r.at = y.at /\ r.want = y.want /\ r.timer = y.timer /\ r.queue = y.queue)
       /\ r # NotInUse => (r.at = "evicting" => r.want # {})
       /\ "drain" \in r.want => r.step = "flushing"
       /\ r.at # "resident" => r.queue = 0 /\ r.step = "idle" /\ r.job = "none"
       /\ y.queue = 0 /\ y.step = "idle" /\ y.job = "none" => r.queue = 0 /\ r.step = "idle" /\ r.job = "none"
       /\ r # NotInUse => r.drop = y.drop /\ r.idx = y.idx
       /\ r = NotInUse => y.step = "idle" /\ y.job = "none"
       /\ r # NotInUse => r = y \/ (r.step = "idle" /\ by = "drain")
  BY <1>3, <1>7, <1>8, <1>9, <1>10, <1>11, ServedFacts
<1>15. Put(e, r)
  BY <1>4
<1> HIDE DEF r
<1>16. NotInUse.at = "none" /\ ~NotInUse.timer /\ NotInUse.want = {}
  BY DEF NotInUse
<1>17. r.at = "none" => ~r.timer
  BY <1>7, <1>12, <1>14, <1>16
<1>18. Closing(e)' => r.queue = 0 /\ r.step = "idle" /\ r.job = "none"
  <2>1. entry'[e] = r
    BY <1>14, <1>15, PutFacts DEF EntryInv
  <2>2. NoWrite.by # "close"
    BY DEF NoWrite
  <2>3. Closing(e)' => "close" \in r.want
    BY <1>1, <2>1, <2>2 DEF Closing
  <2>4. "close" \in r.want => Closing(e)
    BY <1>7, <1>14, <1>16 DEF Closing
  <2> QED BY <1>7, <1>8, <1>14, <2>3, <2>4
<1>19. r.at = "evicting" => r.want # {}
  BY <1>14, <1>16
<1>20. entry[e].at = "none" => r.at = "none"
  BY <1>7, <1>14, <1>16
<1>21. purge \in {"no", "loads"} /\ r.at = "none" => r = NotInUse
  BY <1>7, <1>13, <1>14
<1>22. ~WritingFor(e, "drain")'
  BY <1>1 DEF WritingFor
<1>23. EntryInv'
  BY <1>1, <1>3, <1>e, <1>5, <1>6, <1>13, <1>14, <1>15, <1>17, <1>18, <1>19, <1>20, <1>21, <1>22, OneEntry
<1>24. Outcome(e, r)
  BY <1>7, <1>10, <1>14, <1>15 DEF Outcome
<1> QED BY <1>e, <1>14, <1>23, <1>24

-----------------------------------------------------------------------------
(* The file is opened                                                       *)

Below == {p \in Nat \X Nat : p[1] < p[2]}

\* The order of the naturals is well founded.
LEMMA BelowWellFounded == IsWellFoundedOn(Below, Nat)
BY NatLessThanWellFounded, Zenon DEF OpToRel, Below

\* A set of naturals has a least one.
LEMMA NatMin ==
  ASSUME NEW S \in SUBSET Nat, S # {}
  PROVE  \E x \in S : \A y \in S : x <= y
<1>1. \A x, y \in Nat : y < x => <<y, x>> \in Below
  BY DEF Below
<1>2. PICK x \in S : \A y \in S : ~ (<<y, x>> \in Below)
  BY BelowWellFounded, WFMin
<1>3. ASSUME NEW y \in S
      PROVE  x <= y
  <2>1. x \in Nat /\ y \in Nat /\ ~ (<<y, x>> \in Below)
    BY <1>2
  <2> QED BY <1>1, <2>1
<1> QED BY <1>3

\* One with a bound has a greatest one.
LEMMA NatMax ==
  ASSUME NEW b \in Nat, NEW S \in SUBSET (0 .. b), S # {}
  PROVE  \E x \in S : \A y \in S : y <= x
<1> DEFINE T == {t \in Nat : b - t \in S}
<1>1. T # {}
  <2>1. PICK s \in S : TRUE
    OBVIOUS
  <2>2. b - s \in Nat /\ b - (b - s) = s
    BY <2>1
  <2>3. b - s \in T
    BY <2>1, <2>2
  <2> QED BY <2>3
<1>2. PICK t \in T : \A u \in T : t <= u
  BY <1>1, NatMin
<1>3. ASSUME NEW y \in S
      PROVE  y <= b - t
  <2>1. y \in Nat /\ b - y \in Nat /\ b - (b - y) = y
    OBVIOUS
  <2>2. b - y \in T
    BY <2>1
  <2>3. t <= b - y /\ t \in Nat
    BY <1>2, <2>2
  <2> HIDE DEF T
  <2> QED BY <2>1, <2>3
<1>4. b - t \in S
  BY <1>2
<1> QED BY <1>3, <1>4

\* SetMax returns it.
LEMMA SetMaxFacts ==
  ASSUME NEW b \in Nat, NEW S \in SUBSET (0 .. b), S # {}
  PROVE  SetMax(S) \in S /\ \A y \in S : y <= SetMax(S)
<1>1. PICK x \in S : \A y \in S : y <= x
  BY NatMax
<1>2. \A y \in S : x >= y
  BY <1>1
<1>3. SetMax(S) \in S /\ \A y \in S : SetMax(S) >= y
  BY <1>2 DEF SetMax
<1> QED BY <1>3

\* SetMin returns the least one.
LEMMA SetMinFacts ==
  ASSUME NEW S \in SUBSET Nat, S # {}
  PROVE  SetMin(S) \in S /\ \A y \in S : SetMin(S) <= y
<1>1. PICK x \in S : \A y \in S : x <= y
  BY NatMin
<1> QED BY <1>1 DEF SetMin

\* An index sent back to the beginning of a file.
LEMMA IndexExcept ==
  ASSUME NEW idx \in IndexRecords, NEW c \in Nat
  PROVE  LET i == [idx EXCEPT !.off = 0, !.cut = c] IN
         i \in IndexRecords /\ i.last = idx.last /\ i.cut = c /\ i.off = 0 /\ i.first = idx.first
BY DEF IndexRecords

\* Where the current file begins and how long it is.
LEMMA ShapeFacts ==
  ASSUME lines \in Seq(Lines), cuts \in Seq(Nat), FileShape
  PROVE  /\ FileFrom \in Nat /\ Size \in Nat /\ Len(lines) \in Nat /\ Len(cuts) \in Nat
         /\ FileFrom + Size = Len(lines) /\ FileFrom = Begin(Len(cuts))
<1>1. Len(lines) \in Nat /\ Len(cuts) \in Nat
  OBVIOUS
<1>2. FileFrom \in 0 .. Len(lines)
  <2>1. CASE cuts = <<>>
    BY <1>1, <2>1 DEF FileFrom
  <2>2. CASE cuts # <<>>
    <3>1. Len(cuts) \in 1 .. Len(cuts)
      BY <2>2
    <3> QED BY <2>2, <3>1 DEF FileFrom, Last, FileShape
  <2> QED BY <2>1, <2>2
<1>3. Len(cuts) = 0 <=> cuts = <<>>
  OBVIOUS
<1> QED BY <1>1, <1>2, <1>3 DEF Size, FileFrom, Begin, Last

\* The seqs of the current file from a line on, and back.
LEMMA SeqsOfFile ==
  ASSUME lines \in Seq(Lines), cuts \in Seq(Nat), FileShape, NEW k \in Nat \ {0}
  PROVE  /\ \E b \in Nat : SeqsFrom(k) \in SUBSET (0 .. b)
         /\ \A i \in 1 .. Len(lines) : i >= FileFrom + k /\ Readable(lines[i]) => lines[i].seq \in SeqsFrom(k)
         /\ \A s \in SeqsFrom(k) : \E i \in 1 .. Len(lines) :
              i >= FileFrom + k /\ Readable(lines[i]) /\ s = lines[i].seq
<1>1. FileFrom \in Nat /\ Len(lines) \in Nat
  BY ShapeFacts
<1>2. PICK b \in Nat : \A i \in 1 .. Len(lines) : lines[i].seq <= b
  BY DEF FileShape
<1>3. \A i \in 1 .. Len(lines) : lines[i].seq \in Nat
  <2>1. \A i \in 1 .. Len(lines) : lines[i] \in Lines
    OBVIOUS
  <2> QED BY <2>1 DEF Lines
<1>4. ASSUME NEW s \in SeqsFrom(k)
      PROVE  \E i \in 1 .. Len(lines) : i >= FileFrom + k /\ Readable(lines[i]) /\ s = lines[i].seq
  <2>1. PICK i \in (FileFrom + k) .. Len(lines) : Readable(lines[i]) /\ s = lines[i].seq
    BY <1>4 DEF SeqsFrom
  <2>2. i \in 1 .. Len(lines) /\ i >= FileFrom + k
    BY <1>1, <2>1
  <2> QED BY <2>1, <2>2
<1>5. ASSUME NEW i \in 1 .. Len(lines), i >= FileFrom + k, Readable(lines[i])
      PROVE  lines[i].seq \in SeqsFrom(k)
  <2>1. i \in (FileFrom + k) .. Len(lines)
    BY <1>1, <1>5
  <2> QED BY <1>5, <2>1 DEF SeqsFrom
<1>6. SeqsFrom(k) \in SUBSET (0 .. b)
  <2>1. \A i \in 1 .. Len(lines) : lines[i].seq \in 0 .. b
    BY <1>2, <1>3
  <2> QED BY <1>4, <2>1
<1> QED BY <1>4, <1>5, <1>6

\* What the scan makes of an index: it keeps an offset of this file, takes
\* the highest seq and, unless it knows it, the first.
LEMMA Scanned ==
  ASSUME lines \in Seq(Lines), cuts \in Seq(Nat), FileShape, NEW idx \in IndexRecords, ~Missing
  PROVE  \E off, last, first \in Nat :
           /\ Recover(idx) = Index(last, Size, Len(cuts), first)
           /\ off = IF idx.cut = Len(cuts) /\ idx.off <= Size THEN idx.off ELSE 0
           /\ last >= idx.last
           /\ \A i \in 1 .. Len(lines) : i > FileFrom + off /\ Readable(lines[i]) => lines[i].seq <= last
           /\ \/ off # 0 /\ first = idx.first /\ first # 0
              \/ /\ off = 0 \/ idx.first = 0
                 /\ \E i \in 1 .. Len(lines) : i > FileFrom + off /\ Readable(lines[i]) /\ first = lines[i].seq
              \/ /\ off = 0 \/ idx.first = 0
                 /\ first = idx.last + 1
                 /\ \A i \in 1 .. Len(lines) : i > FileFrom + off => ~Readable(lines[i])
<1>1. FileFrom \in Nat /\ Size \in Nat /\ Len(lines) \in Nat /\ Len(cuts) \in Nat
  BY ShapeFacts
<1>2. idx.last \in Nat /\ idx.off \in Nat /\ idx.cut \in Nat /\ idx.first \in Nat
  BY DEF IndexRecords
<1>3. PICK off \in Nat : /\ off = IF idx.cut # Len(cuts) \/ idx.off > Size THEN 0 ELSE idx.off
                         /\ off = IF idx.cut = Len(cuts) /\ idx.off <= Size THEN idx.off ELSE 0
  BY <1>1, <1>2
<1> DEFINE seen == SeqsFrom(off + 1)  all == {idx.last} \cup seen
           known == IF off = 0 THEN 0 ELSE idx.first
           first == IF known # 0 THEN known ELSE IF seen # {} THEN SetMin(seen) ELSE idx.last + 1
<1>4. Recover(idx) = Index(SetMax(all), Size, Len(cuts), first)
  BY <1>3 DEF Recover, Recovered, LastSeq
<1>5. /\ \E b \in Nat : seen \in SUBSET (0 .. b)
      /\ \A i \in 1 .. Len(lines) : i >= FileFrom + (off + 1) /\ Readable(lines[i]) => lines[i].seq \in seen
      /\ \A s \in seen : \E i \in 1 .. Len(lines) :
           i >= FileFrom + (off + 1) /\ Readable(lines[i]) /\ s = lines[i].seq
  <2>1. off + 1 \in Nat \ {0}
    BY <1>3
  <2> QED BY <2>1, SeqsOfFile
<1> HIDE DEF seen
<1>6. SetMax(all) \in all /\ \A y \in all : y <= SetMax(all)
  <2>1. PICK b \in Nat : seen \in SUBSET (0 .. b)
    BY <1>5
  <2>2. PICK c \in Nat : c >= b /\ c >= idx.last
    BY <1>2
  <2>3. all \in SUBSET (0 .. c) /\ all # {}
    <3>1. \A s \in seen : s \in 0 .. c
      <4>1. \A s \in 0 .. b : s \in 0 .. c
        BY <2>2
      <4> QED BY <2>1, <4>1
    <3>2. idx.last \in 0 .. c
      BY <1>2, <2>2
    <3> QED BY <3>1, <3>2
  <2> QED BY <2>3, SetMaxFacts
<1>7. all \in SUBSET Nat /\ seen \in SUBSET Nat
  <2>1. PICK b \in Nat : seen \in SUBSET (0 .. b)
    BY <1>5
  <2>2. \A s \in 0 .. b : s \in Nat
    BY <2>1
  <2>3. seen \in SUBSET Nat
    BY <2>1, <2>2
  <2> QED BY <1>2, <2>3
<1>8. seen # {} => SetMin(seen) \in seen /\ SetMin(seen) \in Nat
  BY <1>7, SetMinFacts
<1>9. first \in Nat
  BY <1>2, <1>8
<1>10. \A i \in 1 .. Len(lines) : i > FileFrom + off <=> i >= FileFrom + (off + 1)
  BY <1>1, <1>3
<1>11. \A i \in 1 .. Len(lines) : i > FileFrom + off /\ Readable(lines[i]) => lines[i].seq <= SetMax(all)
  BY <1>5, <1>6, <1>10
<1>12. SetMax(all) \in Nat /\ SetMax(all) >= idx.last
  BY <1>2, <1>6, <1>7
<1>13. CASE known # 0
  <2>1. off # 0 /\ first = idx.first /\ first # 0
    BY <1>13
  <2> HIDE DEF all, first
  <2> QED BY <1>3, <1>4, <1>9, <1>11, <1>12, <2>1
<1>14. CASE known = 0 /\ seen # {}
  <2>1. first = SetMin(seen) /\ (off = 0 \/ idx.first = 0)
    BY <1>14
  <2>2. \E i \in 1 .. Len(lines) : i > FileFrom + off /\ Readable(lines[i]) /\ first = lines[i].seq
    BY <1>5, <1>8, <1>10, <1>14, <2>1
  <2> HIDE DEF all, first
  <2> QED BY <1>3, <1>4, <1>9, <1>11, <1>12, <2>1, <2>2
<1>15. CASE known = 0 /\ seen = {}
  <2>1. first = idx.last + 1 /\ (off = 0 \/ idx.first = 0)
    BY <1>15
  <2>2. \A i \in 1 .. Len(lines) : i > FileFrom + off => ~Readable(lines[i])
    BY <1>5, <1>10, <1>15
  <2> HIDE DEF all, first
  <2> QED BY <1>3, <1>4, <1>9, <1>11, <1>12, <2>1, <2>2
<1> QED BY <1>13, <1>14, <1>15

RecoveryKeepsType ==
  lines \in Seq(Lines) /\ cuts \in Seq(Nat) /\ FileShape =>
    \A idx \in IndexRecords :
      /\ Recover(idx) \in IndexRecords
      /\ Recover(idx).cut = Len(cuts) /\ FileFrom + Recover(idx).off = Len(lines)

\* What a reopening recovers is an index.
LEMMA RecoveryTyped == RecoveryKeepsType
<1> SUFFICES ASSUME lines \in Seq(Lines), cuts \in Seq(Nat), FileShape, NEW idx \in IndexRecords
             PROVE  /\ Recover(idx) \in IndexRecords
                    /\ Recover(idx).cut = Len(cuts) /\ FileFrom + Recover(idx).off = Len(lines)
  BY DEF RecoveryKeepsType
<1>1. FileFrom \in Nat /\ Size \in Nat /\ Len(lines) \in Nat /\ Len(cuts) \in Nat /\ FileFrom + Size = Len(lines)
  BY ShapeFacts
<1>2. CASE Missing
  <2>1. Recover(idx) = [idx EXCEPT !.off = 0, !.cut = Len(cuts)] /\ Size = 0
    BY <1>2 DEF Recover, Missing
  <2>2. Recover(idx) \in IndexRecords /\ Recover(idx).cut = Len(cuts) /\ Recover(idx).off = 0
    <3>1. Len(cuts) \in Nat /\ Recover(idx) = [idx EXCEPT !.off = 0, !.cut = Len(cuts)]
      BY <1>1, <2>1
    <3>2. ASSUME NEW c \in Nat, NEW i, i = [idx EXCEPT !.off = 0, !.cut = c]
          PROVE  i \in IndexRecords /\ i.cut = c /\ i.off = 0
      BY <3>2, IndexExcept
    <3> QED BY <3>1, <3>2
  <2>3. FileFrom + 0 = Len(lines)
    BY <1>1, <2>1
  <2> QED BY <2>2, <2>3
<1>3. CASE ~Missing
  <2>1. PICK last, first \in Nat : Recover(idx) = Index(last, Size, Len(cuts), first)
    BY <1>3, Scanned
  <2>2. Recover(idx) \in IndexRecords /\ Recover(idx).cut = Len(cuts) /\ Recover(idx).off = Size
    BY <1>1, <2>1 DEF Index, IndexRecords
  <2> QED BY <1>1, <2>2
<1> QED BY <1>2, <1>3

\* Every rotation is followed by a line that can be read.
HeadKept == cuts # <<>> => Size > 0 /\ Readable(lines[FileFrom + 1])

RecoveryCovers ==
  lines \in Seq(Lines) /\ cuts \in Seq(Nat) /\ FileShape /\ SeqsIncrease /\ HeadKept =>
    \A idx \in IndexRecords : Covers(idx) => Covers(Recover(idx))

\* An index that was right before a reopening is right after it.
LEMMA RecoveryIsRight == RecoveryCovers
<1> SUFFICES ASSUME lines \in Seq(Lines), cuts \in Seq(Nat), FileShape, SeqsIncrease, HeadKept,
                    NEW idx \in IndexRecords, Covers(idx)
             PROVE  Covers(Recover(idx))
  BY DEF RecoveryCovers
<1>1. /\ FileFrom \in Nat /\ Size \in Nat /\ Len(lines) \in Nat /\ Len(cuts) \in Nat
      /\ FileFrom + Size = Len(lines) /\ FileFrom = Begin(Len(cuts))
  BY ShapeFacts
<1>2. idx.last \in Nat /\ idx.off \in Nat /\ idx.cut \in Nat /\ idx.first \in Nat
  BY DEF IndexRecords
<1>3. \A i \in 1 .. Len(lines) : lines[i].seq \in Nat
  <2>1. \A i \in 1 .. Len(lines) : lines[i] \in Lines
    OBVIOUS
  <2> QED BY <2>1 DEF Lines
<1>4. CASE Missing
  <2>1. Recover(idx) = [idx EXCEPT !.off = 0, !.cut = Len(cuts)] /\ Size = 0
    BY <1>4 DEF Recover, Missing
  <2>2. cuts = <<>>
    BY <2>1 DEF HeadKept
  <2>3. Len(cuts) = 0 /\ FileFrom = 0 /\ Len(lines) = 0 /\ Begin(0) = 0
    BY <1>1, <2>1, <2>2 DEF FileFrom, Begin
  <2>4. Recover(idx).off = 0 /\ Recover(idx).cut = 0
    <3>1. /\ Recover(idx) \in IndexRecords /\ Recover(idx).cut = Len(cuts)
          /\ FileFrom + Recover(idx).off = Len(lines)
      BY RecoveryTyped DEF RecoveryKeepsType
    <3> QED BY <2>3, <3>1 DEF IndexRecords
  <2> QED BY <2>3, <2>4 DEF Covers
<1>5. CASE ~Missing
  <2>1. PICK off, last, first \in Nat :
           /\ Recover(idx) = Index(last, Size, Len(cuts), first)
           /\ off = IF idx.cut = Len(cuts) /\ idx.off <= Size THEN idx.off ELSE 0
           /\ last >= idx.last
           /\ \A i \in 1 .. Len(lines) : i > FileFrom + off /\ Readable(lines[i]) => lines[i].seq <= last
           /\ \/ off # 0 /\ first = idx.first /\ first # 0
              \/ /\ off = 0 \/ idx.first = 0
                 /\ \E i \in 1 .. Len(lines) : i > FileFrom + off /\ Readable(lines[i]) /\ first = lines[i].seq
              \/ /\ off = 0 \/ idx.first = 0
                 /\ first = idx.last + 1
                 /\ \A i \in 1 .. Len(lines) : i > FileFrom + off => ~Readable(lines[i])
    BY <1>5, Scanned
  <2>2. /\ idx.cut \in 0 .. Len(cuts) /\ Begin(idx.cut) + idx.off <= Len(lines)
        /\ \A i \in 1 .. Begin(idx.cut) + idx.off : Readable(lines[i]) => lines[i].seq <= idx.last
        /\ idx.first # 0 => \A i \in 1 .. Begin(idx.cut) : Readable(lines[i]) => lines[i].seq < idx.first
    BY DEF Covers
  <2>3. CASE idx.cut = Len(cuts)
    <3>1. Begin(idx.cut) = FileFrom /\ off = idx.off
      BY <1>1, <1>2, <2>1, <2>2, <2>3
    <3>2. \A i \in 1 .. Len(lines) : Readable(lines[i]) => lines[i].seq <= last
      <4> SUFFICES ASSUME NEW i \in 1 .. Len(lines), Readable(lines[i])
                   PROVE  lines[i].seq <= last
        OBVIOUS
      <4>1. CASE i <= FileFrom + off
        <5>1. i \in 1 .. FileFrom + idx.off
          BY <1>1, <1>2, <3>1, <4>1
        <5>2. lines[i].seq <= idx.last
          BY <2>2, <3>1, <5>1
        <5> QED BY <1>2, <1>3, <2>1, <5>2
      <4>2. CASE i > FileFrom + off
        BY <2>1, <4>2
      <4> QED BY <1>1, <2>1, <4>1, <4>2
    <3>3. first # 0 => \A i \in 1 .. FileFrom : Readable(lines[i]) => lines[i].seq < first
      <4> SUFFICES ASSUME NEW i \in 1 .. FileFrom, Readable(lines[i]), first # 0
                   PROVE  lines[i].seq < first
        OBVIOUS
      <4>0. i \in 1 .. Len(lines) /\ lines[i].seq \in Nat /\ i <= FileFrom + off
        BY <1>1, <1>3, <2>1
      <4>1. CASE off # 0 /\ first = idx.first /\ first # 0
        BY <2>2, <3>1, <4>1
      <4>2. CASE \E j \in 1 .. Len(lines) : j > FileFrom + off /\ Readable(lines[j]) /\ first = lines[j].seq
        <5>1. PICK j \in 1 .. Len(lines) : j > FileFrom + off /\ Readable(lines[j]) /\ first = lines[j].seq
          BY <4>2
        <5>2. i < j
          BY <1>1, <2>1, <4>0, <5>1, SMTT(30)
        <5> QED BY <4>0, <5>1, <5>2 DEF SeqsIncrease
      <4>3. CASE first = idx.last + 1 /\ \A j \in 1 .. Len(lines) : j > FileFrom + off => ~Readable(lines[j])
        <5>1. i \in 1 .. FileFrom + idx.off
          BY <1>1, <1>2
        <5>2. lines[i].seq <= idx.last
          BY <2>2, <3>1, <5>1
        <5> QED BY <1>2, <4>0, <4>3, <5>2
      <4> QED BY <2>1, <4>1, <4>2, <4>3
    <3> QED BY <1>1, <2>1, <3>2, <3>3 DEF Covers, Index
  <2>4. CASE idx.cut # Len(cuts)
    <3>1. off = 0 /\ cuts # <<>>
      BY <1>1, <1>2, <2>1, <2>2, <2>4
    <3> DEFINE h == FileFrom + 1
    <3>2. h \in 1 .. Len(lines) /\ Readable(lines[h]) /\ h > FileFrom + off
      BY <1>1, <3>1 DEF HeadKept
    <3> HIDE DEF h
    <3>3. lines[h].seq <= last /\ lines[h].seq \in Nat
      BY <1>3, <2>1, <3>2
    <3>4. \A i \in 1 .. FileFrom : i \in 1 .. Len(lines) /\ i < h /\ lines[i].seq \in Nat
      BY <1>1, <1>3 DEF h
    <3>5. \A i \in 1 .. FileFrom : Readable(lines[i]) => lines[i].seq < lines[h].seq
      BY <3>2, <3>4 DEF SeqsIncrease
    <3>6. \A i \in 1 .. Len(lines) : Readable(lines[i]) => lines[i].seq <= last
      <4> SUFFICES ASSUME NEW i \in 1 .. Len(lines), Readable(lines[i])
                   PROVE  lines[i].seq <= last
        OBVIOUS
      <4>1. CASE i <= FileFrom
        <5>1. i \in 1 .. FileFrom
          BY <1>1, <4>1
        <5>2. lines[i].seq < lines[h].seq
          BY <3>5, <5>1
        <5> QED BY <1>3, <2>1, <3>3, <5>2
      <4>2. CASE i > FileFrom
        BY <1>1, <2>1, <3>1, <4>2
      <4> QED BY <1>1, <4>1, <4>2
    <3>7. PICK j \in 1 .. Len(lines) : j > FileFrom /\ Readable(lines[j]) /\ first = lines[j].seq
      BY <1>1, <2>1, <3>1, <3>2
    <3>8. \A i \in 1 .. FileFrom : Readable(lines[i]) => lines[i].seq < first
      <4>1. \A i \in 1 .. FileFrom : i < j
        BY <1>1, <3>7
      <4> QED BY <3>4, <3>7, <4>1 DEF SeqsIncrease
    <3> QED BY <1>1, <2>1, <3>6, <3>8 DEF Covers, Index
  <2> QED BY <2>3, <2>4
<1> QED BY <1>4, <1>5

-----------------------------------------------------------------------------
(* Opening, purging and dying                                               *)

ShapeOK == lines \in Seq(Lines) /\ cuts \in Seq(Nat) /\ FileShape

\* The size of the file is a natural.
LEMMA SizeTyped == ShapeOK => Size \in Nat
BY ShapeFacts DEF ShapeOK

\* A fragment is a line nobody can read.
LEMMA TornType == Torn \in Lines /\ ~Readable(Torn)
BY DEF Torn, Line, Lines, Kinds, Readable

\* The file stays or gets a line.
LEMMA GrownShape ==
  ASSUME ShapeOK, NEW x \in Lines, lines' = lines \/ lines' = Append(lines, x), cuts' = cuts
  PROVE  ShapeOK'
<1>1. CASE lines' = lines
  BY <1>1 DEF ShapeOK, FileShape
<1>2. CASE lines' = Append(lines, x)
  <2>1. /\ lines' \in Seq(Lines) /\ Len(lines') = Len(lines) + 1 /\ Len(lines) \in Nat
        /\ \A i \in 1 .. Len(lines) : lines'[i] = lines[i]
        /\ lines'[Len(lines) + 1] = x
    BY <1>2, AppendProperties DEF ShapeOK
  <2>2. PICK b \in Nat : \A i \in 1 .. Len(lines) : lines[i].seq <= b
    BY DEF ShapeOK, FileShape
  <2>3. \A i \in 1 .. Len(lines) : lines[i].seq \in Nat
    <3>1. \A i \in 1 .. Len(lines) : lines[i] \in Lines
      BY DEF ShapeOK
    <3> QED BY <3>1 DEF Lines
  <2>4. x.seq \in Nat
    BY DEF Lines
  <2>5. PICK c \in Nat : c >= b /\ c >= x.seq
    BY <2>4
  <2>6. \A i \in 1 .. Len(lines') : lines'[i].seq <= c
    <3>1. ASSUME NEW i \in 1 .. Len(lines')
          PROVE  i \in 1 .. Len(lines) \/ i = Len(lines) + 1
      BY <2>1
    <3> QED BY <2>1, <2>2, <2>3, <2>4, <2>5, <3>1
  <2>7. \A k \in 1 .. Len(cuts') : cuts'[k] \in 0 .. Len(lines')
    BY <2>1 DEF ShapeOK, FileShape
  <2> QED BY <2>1, <2>6, <2>7 DEF ShapeOK, FileShape
<1> QED BY <1>1, <1>2

\* A conversation has been opened (loadAndRegister).
LEMMA OpenEntry ==
  ASSUME EntryInv, FileShape, NEW e \in Entries, OpenFinish(e)
  PROVE  EntryInv'
<1>1. /\ entry[e] \in EntryRecords /\ owed \in BOOLEAN /\ offered \in Nat /\ faults \in Nat
      /\ lines \in Seq(Lines) /\ cuts \in Seq(Nat) /\ frag \in BOOLEAN
      /\ opening \in IndexRecords
      /\ \A k : Fault(k) \/ NoFault => faults' \in Nat
  <2>1. opening \in IndexRecords
    BY DEF EntryInv, Types, OpenFinish
  <2> QED BY <2>1, Typed
<1>2. /\ UNCHANGED <<snap, writing, purge, persisted, owed, world, offered>>
      /\ opening' = NoSnap /\ opening # NoSnap /\ entry[e].at = "none"
      /\ faults' \in Nat
  BY <1>1 DEF OpenFinish, In
<1>3. /\ lines' = lines \/ lines' = Append(lines, Torn)
      /\ cuts' = cuts /\ (frag' = frag \/ frag' = FALSE)
  BY DEF OpenFinish, Terminate, disk
<1>4. ShapeOK'
  BY <1>1, <1>3, GrownShape, TornType DEF ShapeOK
<1>5. purge \in {"no", "loads"} /\ \A f \in Entries : ~InMemory(f)
  BY <1>2 DEF EntryInv, Types, PurgeShuts, OneInMemory
<1>6. \A f \in Entries : entry[f].at = "none" /\ entry[f] = NotInUse /\ (writing # NoWrite => writing.e # f)
  <2>1. \A f \in Entries : entry[f].at = "none"
    BY <1>5 DEF EntryInv, Types, EntryRecords, InMemory
  <2> QED BY <1>5, <2>1 DEF EntryInv, NothingBehind
<1>7. lines' \in Seq(Lines) /\ cuts' \in Seq(Nat) /\ frag' \in BOOLEAN /\ persisted' \in SUBSET Nat
  BY <1>1, <1>2, <1>3, <1>4 DEF ShapeOK, EntryInv, Types
<1>8. CASE Purging
  <2>1. entry' = entry
    BY <1>8 DEF OpenFinish
  <2>2. Types'
    BY <1>2, <1>7, <2>1 DEF EntryInv, Types
  <2>3. WorkInMemory' /\ OneInMemory' /\ NothingBehind' /\ LeavingWrites'
    BY <1>2, <2>1 DEF EntryInv, WorkInMemory, OneInMemory, NothingBehind, LeavingWrites, Idle, InMemory
  <2>4. CloseIsIdle' /\ DrainWaits' /\ PurgeShuts'
    BY <1>2, <2>1 DEF EntryInv, CloseIsIdle, Closing, Idle, DrainWaits, WritingFor, PurgeShuts
  <2> QED BY <2>2, <2>3, <2>4 DEF EntryInv
<1>9. CASE ~Purging
  <2>1. PICK idx \in IndexRecords :
          /\ idx = opening
          /\ Put(e, [NotInUse EXCEPT !.at = "resident", !.idx = Recover(idx)', !.size = Size'])
    BY <1>1, <1>9 DEF OpenFinish
  <2>2. Recover(idx)' \in IndexRecords /\ Size' \in Nat
    <3>1. RecoveryKeepsType'
      BY RecoveryTyped, PTL
    <3>2. (ShapeOK => Size \in Nat)'
      BY SizeTyped, PTL
    <3> QED BY <1>4, <3>1, <3>2 DEF RecoveryKeepsType, ShapeOK
  <2>3. PICK n \in Nat, i \in IndexRecords : Put(e, [NotInUse EXCEPT !.at = "resident", !.idx = i, !.size = n])
    BY <2>1, <2>2
  <2> DEFINE r == [NotInUse EXCEPT !.at = "resident", !.idx = i, !.size = n]
  <2>4. /\ r \in EntryRecords /\ r.at = "resident" /\ r.queue = 0 /\ r.step = "idle" /\ r.job = "none"
        /\ r.want = {} /\ ~r.timer
    BY <2>3 DEF NotInUse, EntryRecords
  <2> HIDE DEF r
  <2>5. /\ entry' \in [Entries -> EntryRecords] /\ entry'[e] = r
        /\ \A f \in Entries : f # e => entry'[f] = entry[f]
    BY <2>3, <2>4, PutFacts DEF EntryInv, r
  <2>6. Types'
    BY <1>2, <1>7, <2>5 DEF EntryInv, Types
  <2>7. WorkInMemory' /\ OneInMemory'
    BY <1>2, <1>5, <2>4, <2>5 DEF EntryInv, WorkInMemory, OneInMemory, Idle, InMemory
  <2>8. NothingBehind' /\ LeavingWrites'
    BY <1>2, <1>6, <2>4, <2>5 DEF NothingBehind, LeavingWrites
  <2>9. CloseIsIdle' /\ PurgeShuts'
    BY <1>2, <1>5, <2>4, <2>5 DEF EntryInv, CloseIsIdle, Closing, Idle, PurgeShuts
  <2>10. DrainWaits'
    <3>1. ~WritingFor(e, "drain")'
      BY <1>2, <1>6 DEF WritingFor
    <3> QED BY <1>2, <2>4, <2>5, <3>1 DEF EntryInv, DrainWaits, WritingFor
  <2> QED BY <2>6, <2>7, <2>8, <2>9, <2>10 DEF EntryInv
<1> QED BY <1>8, <1>9

\* It begins to be.
LEMMA OpenStarts ==
  ASSUME EntryInv, OpenStart
  PROVE  EntryInv'
<1>1. UNCHANGED <<disk, snap, entry, writing, purge, persisted, owed, world, offered, faults>> /\ purge = "no"
  BY DEF OpenStart
<1>2. opening' \in IndexRecords
  BY DEF OpenStart, EntryInv, Types, IndexRecords, Fresh, Index
<1>3. Types'
  BY <1>1, <1>2 DEF EntryInv, Types, disk
<1>4. OneInMemory'
  BY <1>1 DEF EntryInv, OneInMemory, InMemory, OpenStart
<1>5. WorkInMemory' /\ NothingBehind' /\ LeavingWrites' /\ PurgeShuts'
  BY <1>1 DEF EntryInv, WorkInMemory, NothingBehind, LeavingWrites, Idle, PurgeShuts
<1>6. CloseIsIdle' /\ DrainWaits'
  BY <1>1 DEF EntryInv, CloseIsIdle, Closing, Idle, DrainWaits, WritingFor
<1> QED BY <1>3, <1>4, <1>5, <1>6 DEF EntryInv

\* A purge waits for what is under way, then removes (purgeSession).
LEMMA PurgeEntry ==
  ASSUME EntryInv, PurgeBegin \/ PurgeLoads \/ PurgeWrites \/ PurgeRemoves
  PROVE  EntryInv'
<1>1. UNCHANGED <<opening, writing, owed, world, offered, faults>>
  BY DEF PurgeBegin, PurgeLoads, PurgeWrites, PurgeRemoves
<1>2. \/ UNCHANGED <<snap, persisted, disk>>
      \/ snap' = NoSnap /\ persisted' = {} /\ lines' = <<>> /\ cuts' = <<>> /\ frag' = FALSE
  BY DEF PurgeBegin, PurgeLoads, PurgeWrites, PurgeRemoves
<1>3. /\ lines' \in Seq(Lines) /\ cuts' \in Seq(Nat) /\ frag' \in BOOLEAN /\ persisted' \in SUBSET Nat
      /\ snap' = NoSnap \/ snap' \in IndexRecords
  <2>1. CASE UNCHANGED <<snap, persisted, disk>>
    BY <2>1 DEF EntryInv, Types, disk
  <2>2. CASE snap' = NoSnap /\ persisted' = {} /\ lines' = <<>> /\ cuts' = <<>> /\ frag' = FALSE
    <3>1. <<>> \in Seq(Lines) /\ <<>> \in Seq(Nat)
      OBVIOUS
    <3> QED BY <2>2, <3>1
  <2> QED BY <1>2, <2>1, <2>2
<1>4. /\ entry' \in [Entries -> EntryRecords]
      /\ \A e \in Entries :
           /\ entry'[e].at = entry[e].at /\ entry'[e].step = entry[e].step /\ entry'[e].job = entry[e].job
           /\ entry'[e].want = entry[e].want /\ entry'[e].timer = entry[e].timer
           /\ entry'[e].queue = entry[e].queue \/ entry'[e].queue = 0
           /\ purge' = "loads" => entry'[e] = entry[e]
  <2>1. entry \in [Entries -> EntryRecords]
    BY DEF EntryInv, Types
  <2>2. CASE PurgeBegin \/ PurgeRemoves
    BY <2>1, <2>2 DEF PurgeBegin, PurgeRemoves
  <2>3. CASE PurgeLoads
    <3>1. \A e \in Entries : [entry[e] EXCEPT !.queue = 0] \in EntryRecords
      BY <2>1 DEF EntryRecords
    <3>2. /\ entry' = [e \in Entries |-> IF In(e, "resident") THEN [entry[e] EXCEPT !.queue = 0] ELSE entry[e]]
          /\ purge' = "chains"
      BY <2>3 DEF PurgeLoads
    <3>3. \A e \in Entries : LET r == [entry[e] EXCEPT !.queue = 0] IN
            /\ r.at = entry[e].at /\ r.step = entry[e].step /\ r.job = entry[e].job
            /\ r.want = entry[e].want /\ r.timer = entry[e].timer /\ r.queue = 0
      BY <2>1 DEF EntryRecords
    <3> QED BY <2>1, <3>1, <3>2, <3>3
  <2>4. CASE PurgeWrites
    <3>1. \A e \in Entries : ~In(e, "evicting")
      BY <2>4 DEF PurgeWrites, WritesSettled, EntryInv, LeavingWrites, In
    <3>2. entry' = entry
      <4>1. entry' = [e \in Entries |-> entry[e]]
        BY <2>4, <3>1 DEF PurgeWrites
      <4> QED BY <2>1, <4>1
    <3> QED BY <2>1, <3>2
  <2> QED BY <2>2, <2>3, <2>4
<1>5. /\ purge' \in {"loads", "chains", "removing", "gone"}
      /\ purge' # "loads" => opening = NoSnap
      /\ purge' = "loads" => purge = "no"
      /\ purge' \in {"removing", "gone"} =>
           writing = NoWrite /\ \A e \in Entries : entry[e].at = "none" /\ entry[e].want = {}
  <2>1. PurgeWrites => \A e \in Entries : entry[e].at = "none"
    BY DEF PurgeWrites, WritesSettled, EntryInv, LeavingWrites, In, Types, EntryRecords
  <2>2. CASE PurgeBegin \/ PurgeLoads
    BY <2>2 DEF PurgeBegin, PurgeLoads
  <2>3. CASE PurgeWrites
    BY <2>1, <2>3 DEF PurgeWrites, WritesSettled, EntryInv, PurgeShuts
  <2>4. CASE PurgeRemoves
    BY <2>4 DEF PurgeRemoves, EntryInv, PurgeShuts
  <2> QED BY <2>2, <2>3, <2>4
<1>6. Types'
  BY <1>1, <1>3, <1>4, <1>5 DEF EntryInv, Types
<1>7. WorkInMemory' /\ OneInMemory'
  BY <1>1, <1>4 DEF EntryInv, WorkInMemory, OneInMemory, Idle, InMemory
<1>8. NothingBehind' /\ LeavingWrites' /\ PurgeShuts'
  BY <1>1, <1>4, <1>5 DEF EntryInv, NothingBehind, LeavingWrites, PurgeShuts
<1>9. CloseIsIdle'
  BY <1>1, <1>4 DEF EntryInv, CloseIsIdle, Closing, Idle
<1>10. DrainWaits'
  BY <1>1, <1>4 DEF EntryInv, DrainWaits, WritingFor
<1> QED BY <1>6, <1>7, <1>8, <1>9, <1>10 DEF EntryInv

\* The process dies.
LEMMA CrashEntry ==
  ASSUME EntryInv, Crash
  PROVE  EntryInv'
<1>1. /\ \A e \in Entries : entry'[e] = NotInUse
      /\ entry' \in [Entries -> EntryRecords]
  BY DEF Crash, NotInUse, EntryRecords, IndexRecords, Fresh, Index
<1>2. /\ opening' = NoSnap /\ writing' = NoWrite /\ purge' \in {"no", "gone"} /\ owed' = FALSE
      /\ lines' = lines /\ cuts' = cuts /\ snap' = snap /\ persisted' = persisted /\ world' = world
      /\ offered' = offered /\ frag' \in BOOLEAN /\ faults' \in Nat
  <2>1. faults' \in Nat
    BY DEF Crash, Fault, EntryInv, Types
  <2>2. frag' \in BOOLEAN
    <3>1. frag \in BOOLEAN /\ (\E e \in Entries : entry[e].step \in {"append", "cut"}) \in BOOLEAN
      BY DEF EntryInv, Types
    <3>2. frag' \in {frag} \cup {\E e \in Entries : entry[e].step \in {"append", "cut"}}
      BY DEF Crash
    <3> DEFINE b == \E e \in Entries : entry[e].step \in {"append", "cut"}
    <3> HIDE DEF b
    <3>3. frag' = frag \/ frag' = b
      BY <3>2 DEF b
    <3>4. b \in BOOLEAN
      BY <3>1 DEF b
    <3> QED BY <3>1, <3>3, <3>4
  <2> QED BY <2>1, <2>2 DEF Crash
<1>3. /\ NotInUse.at = "none" /\ NotInUse.want = {} /\ ~NotInUse.timer /\ NotInUse.queue = 0
      /\ NotInUse.step = "idle" /\ NotInUse.job = "none" /\ NoWrite.by \notin {"close", "drain"}
  BY DEF NotInUse, NoWrite
<1>4. Types'
  BY <1>1, <1>2 DEF EntryInv, Types
<1>5. WorkInMemory' /\ OneInMemory' /\ NothingBehind' /\ LeavingWrites' /\ PurgeShuts'
  BY <1>1, <1>2, <1>3 DEF WorkInMemory, OneInMemory, NothingBehind, LeavingWrites, Idle, InMemory, PurgeShuts
<1>6. CloseIsIdle' /\ DrainWaits'
  BY <1>1, <1>2, <1>3 DEF CloseIsIdle, Closing, Idle, DrainWaits, WritingFor
<1> QED BY <1>4, <1>5, <1>6 DEF EntryInv

-----------------------------------------------------------------------------
(* The file, step by step                                                   *)

\* A step that changes neither the file nor what the entries say of it.
LEMMA FileStill ==
  ASSUME EntryInv', FileInv, UNCHANGED <<lines, frag, cuts, persisted, world>>, SavedCovers',
         \A e \in Entries : InMemory(e)' => InMemory(e) /\ entry'[e].idx = entry[e].idx
                                             /\ (HasLanded(e)' <=> HasLanded(e)),
         \A e \in Entries : entry'[e].step = "cut" <=> entry[e].step = "cut"
  PROVE  FileInv'
<1>1. FileFrom' = FileFrom /\ Size' = Size
  BY DEF FileFrom, Size
<1>2. \A idx \in IndexRecords : Covers(idx)' <=> Covers(idx)
  BY DEF Covers, Begin
<1>3. MemoryCovers'
  <2> SUFFICES ASSUME NEW e \in Entries, InMemory(e)'
               PROVE  Fits(entry[e].idx, HasLanded(e))'
    BY DEF MemoryCovers
  <2>1. PICK idx \in IndexRecords : idx = entry'[e].idx
    BY DEF EntryInv, Types, EntryRecords
  <2>2. idx = entry[e].idx /\ InMemory(e) /\ (HasLanded(e)' <=> HasLanded(e))
    BY <2>1
  <2>3. Fits(idx, HasLanded(e))
    BY <2>2 DEF FileInv, MemoryCovers
  <2>4. Fits(idx, HasLanded(e))'
    BY <1>1, <1>2, <2>2, <2>3 DEF Fits
  <2> QED BY <2>1, <2>4 DEF Fits, Covers
<1>4. SeqsIncrease' /\ PersistedIsALine'
  BY DEF FileInv, SeqsIncrease, PersistedIsALine
<1>5. HeadReadable' /\ CutIsClean'
  BY <1>1 DEF FileInv, HeadReadable, CutIsClean
<1>6. UnfinishedAtOpen'
  BY DEF FileInv, UnfinishedAtOpen
<1> QED BY <1>3, <1>4, <1>5, <1>6 DEF FileInv

\* Nothing is saved but what was.
LEMMA SavedStill ==
  ASSUME EntryInv, FileInv, UNCHANGED <<lines, cuts, snap, opening, writing>>
  PROVE  SavedCovers'
BY DEF FileInv, SavedCovers, Covers, Begin

\* Offering an event touches no file.
LEMMA OfferFile ==
  ASSUME EntryInv, EntryInv', FileInv, NEW e \in Entries, Offer(e)
  PROVE  FileInv'
<1>1. UNCHANGED <<lines, frag, cuts, persisted, world, snap, opening, writing>>
  BY DEF Offer, Enqueue, Overflow, EnqueueGap, disk
<1>2. PICK r : /\ Put(e, r)
               /\ \/ r = [entry[e] EXCEPT !.queue = entry[e].queue + 1]
                  \/ r = [entry[e] EXCEPT !.drop = TRUE]
  BY DEF Offer, Enqueue, Overflow, EnqueueGap, NoteDrop
<1>3. entry \in [Entries -> EntryRecords]
  BY DEF EntryInv, Types
<1>4. r.idx = entry[e].idx /\ r.step = entry[e].step /\ r.at = entry[e].at
  <2>1. CASE r = [entry[e] EXCEPT !.queue = entry[e].queue + 1]
    BY <1>3, <2>1 DEF EntryRecords
  <2>2. CASE r = [entry[e] EXCEPT !.drop = TRUE]
    BY <1>3, <2>2 DEF EntryRecords
  <2> QED BY <1>2, <2>1, <2>2
<1>5. entry' = [entry EXCEPT ![e] = r]
  BY <1>2 DEF Put
<1>6. \A f \in Entries : entry'[f].idx = entry[f].idx /\ entry'[f].step = entry[f].step /\ entry'[f].at = entry[f].at
  BY <1>3, <1>4, <1>5
<1> QED BY <1>1, <1>6, FileStill, SavedStill DEF InMemory, HasLanded

\* One entry moves on without touching the file.
LEMMA QuietEntry ==
  ASSUME EntryInv, EntryInv', FileInv, NEW e \in Entries, NEW r \in EntryRecords, Put(e, r),
         r.at \in {"none", entry[e].at}, r.at # "none" => r.idx = entry[e].idx,
         r.step = "cut" <=> entry[e].step = "cut",
         r.step \in {"landed", "cutlanded"} <=> entry[e].step \in {"landed", "cutlanded"},
         UNCHANGED <<lines, frag, cuts, persisted, world>>, SavedCovers'
  PROVE  FileInv'
<1>1. /\ entry'[e] = r
      /\ \A f \in Entries : f # e => entry'[f] = entry[f]
  BY PutFacts DEF EntryInv
<1>2. \A f \in Entries : InMemory(f)' => InMemory(f) /\ entry'[f].idx = entry[f].idx
                                             /\ (HasLanded(f)' <=> HasLanded(f))
  BY <1>1 DEF InMemory, HasLanded
<1>3. \A f \in Entries : entry'[f].step = "cut" <=> entry[f].step = "cut"
  BY <1>1
<1> QED BY <1>2, <1>3, FileStill

\* Nor do the steps of the chain between two appends.
LEMMA QuietDrain ==
  ASSUME EntryInv, EntryInv', FileInv, NEW e \in Entries, DrainNext(e) \/ AfterReport(e) \/ FlushOrArm(e)
  PROVE  FileInv'
<1>1. UNCHANGED <<lines, frag, cuts, persisted, world, snap, opening, writing>>
  BY DEF DrainNext, AfterReport, FlushOrArm, disk
<1>2. entry[e] \in EntryRecords
  BY DEF EntryInv, Types
<1>3. entry[e].step \in {"idle", "flush"}
  BY DEF DrainNext, AfterReport, FlushOrArm
<1>4. PICK r : /\ Put(e, r)
               /\ \/ r = [entry[e] EXCEPT !.drop = FALSE, !.job = "report", !.step = "append"]
                  \/ r = [entry[e] EXCEPT !.queue = entry[e].queue - 1, !.job = "event", !.step = "append"]
                  \/ r = [entry[e] EXCEPT !.job = "none"]
                  \/ r = [entry[e] EXCEPT !.step = "flushing", !.want = entry[e].want \cup {"drain"}]
                  \/ \E j : r = [entry[e] EXCEPT !.timer = TRUE, !.step = "idle", !.job = j]
  <2>1. CASE DrainNext(e) \/ AfterReport(e)
    BY <2>1 DEF DrainNext, AfterReport
  <2>2. CASE FlushOrArm(e)
    <3>1. \E j : EndJob([entry[e] EXCEPT !.timer = TRUE]) = [entry[e] EXCEPT !.timer = TRUE, !.step = "idle", !.job = j]
      BY <1>2 DEF EndJob, EntryRecords
    <3> QED BY <2>2, <3>1 DEF FlushOrArm
  <2> QED BY <2>1, <2>2
<1>5. r.at = entry[e].at /\ r.idx = entry[e].idx /\ r.step \in {"idle", "append", "flushing"} \cup {entry[e].step}
  <2>1. CASE r = [entry[e] EXCEPT !.drop = FALSE, !.job = "report", !.step = "append"]
    BY <1>2, <2>1 DEF EntryRecords
  <2>2. CASE r = [entry[e] EXCEPT !.queue = entry[e].queue - 1, !.job = "event", !.step = "append"]
    BY <1>2, <2>2 DEF EntryRecords
  <2>3. CASE r = [entry[e] EXCEPT !.job = "none"]
    BY <1>2, <2>3 DEF EntryRecords
  <2>4. CASE r = [entry[e] EXCEPT !.step = "flushing", !.want = entry[e].want \cup {"drain"}]
    BY <1>2, <2>4 DEF EntryRecords
  <2>5. CASE \E j : r = [entry[e] EXCEPT !.timer = TRUE, !.step = "idle", !.job = j]
    BY <1>2, <2>5 DEF EntryRecords
  <2> QED BY <1>4, <2>1, <2>2, <2>3, <2>4, <2>5
<1>6. r \in EntryRecords
  <2>1. entry' = [entry EXCEPT ![e] = r]
    BY <1>4 DEF Put
  <2> QED BY <2>1 DEF EntryInv, Types
<1> QED BY <1>1, <1>3, <1>4, <1>5, <1>6, QuietEntry, SavedStill

\* A snapshot is saved as its entry's index was when it was taken.
LEMMA WriteFile ==
  ASSUME EntryInv, EntryInv', FileInv, Write
  PROVE  FileInv'
<1>1. CASE \E e \in Entries, by \in Requests : SkipWrite(e, by)
  <2>1. PICK e \in Entries, by \in Requests : SkipWrite(e, by)
    BY <1>1
  <2>2. PICK r \in EntryRecords : Outcome(e, r)
    BY <2>1, SkipEntry
  <2>3. UNCHANGED <<lines, frag, cuts, persisted, world, snap, opening, writing>>
    BY <2>1 DEF SkipWrite, disk
  <2> QED BY <2>2, <2>3, QuietEntry, SavedStill DEF Outcome, NotInUse
<1>2. CASE EndWrite
  <2>1. writing \in WriteRecords /\ writing # NoWrite /\ writing.e \in Entries
    BY <1>2 DEF EntryInv, Types, EndWrite, WriteRecords
  <2>2. PICK r \in EntryRecords : Outcome(writing.e, r)
    BY <1>2, EndEntry
  <2>3. UNCHANGED <<lines, frag, cuts, persisted, world, opening>> /\ snap' \in {snap, writing.idx} /\ writing' = NoWrite
    BY <1>2 DEF EndWrite, disk
  <2>4. SavedCovers'
    BY <2>1, <2>3 DEF FileInv, SavedCovers, Covers, Begin
  <2>5. PICK e \in Entries : e = writing.e
    BY <2>1
  <2> QED BY <2>2, <2>3, <2>4, <2>5, QuietEntry DEF Outcome, NotInUse
<1>3. CASE \E e \in Entries, by \in Requests : StartWrite(e, by)
  <2>1. PICK e \in Entries, by \in Requests : StartWrite(e, by)
    BY <1>3
  <2>2. UNCHANGED <<lines, frag, cuts, persisted, world, snap, opening>>
        /\ writing' = [by |-> by, e |-> e, idx |-> entry[e].idx]
    BY <2>1 DEF StartWrite, disk
  <2>3. entry[e] \in EntryRecords
    BY DEF EntryInv, Types
  <2>4. PICK r \in Left(e, by) : Put(e, r)
    BY <2>1 DEF StartWrite, Left
  <2>5. r \in EntryRecords /\ r.at = entry[e].at /\ r.idx = entry[e].idx /\ r.step = entry[e].step
    BY <2>3, <2>4, TakingFacts
  <2>6. Covers(entry[e].idx)
    <3>1. InMemory(e)
      <4>1. purge \in {"no", "gone"} /\ writing = NoWrite /\ Asked(e, by)
        BY <2>1 DEF StartWrite, Purging
      <4> QED BY <2>3, <4>1, AskedBy DEF InMemory, EntryRecords
    <3> QED BY <3>1 DEF FileInv, MemoryCovers, Fits
  <2>7. SavedCovers'
    <3>1. PICK idx : idx = entry[e].idx
      OBVIOUS
    <3>2. writing'.idx = idx /\ Covers(idx)
      BY <2>2, <2>6, <3>1
    <3> QED BY <2>2, <3>2 DEF FileInv, SavedCovers, Covers, Begin
  <2> QED BY <2>2, <2>4, <2>5, <2>7, QuietEntry
<1> QED BY <1>1, <1>2, <1>3 DEF Write

\* What comes into memory was right on disk.
LEMMA MemoryFile ==
  ASSUME EntryInv, EntryInv', FileInv, NEW e \in Entries, Evict(e) \/ Adopt(e) \/ Close(e) \/ PurgeChain(e)
  PROVE  FileInv'
<1>1. UNCHANGED <<lines, frag, cuts, persisted, world, snap, opening, writing>>
  BY DEF Evict, Adopt, Close, PurgeChain, disk
<1>2. entry \in [Entries -> EntryRecords]
  BY DEF EntryInv, Types
<1>3. PICK r : /\ Put(e, r)
               /\ \/ r = [entry[e] EXCEPT !.at = "evicting", !.want = entry[e].want \cup {"evict"}]
                  \/ r = [entry[e] EXCEPT !.at = "resident"]
                  \/ r = [entry[e] EXCEPT !.want = entry[e].want \cup {"close"}]
                  \/ r = [Disarmed(entry[e]) EXCEPT !.at = "none"]
  BY DEF Evict, Adopt, Close, PurgeChain
<1>4. r.idx = entry[e].idx /\ r.step = entry[e].step
  <2>1. CASE r = [entry[e] EXCEPT !.at = "evicting", !.want = entry[e].want \cup {"evict"}]
    BY <1>2, <2>1 DEF EntryRecords
  <2>2. CASE r = [entry[e] EXCEPT !.at = "resident"]
    BY <1>2, <2>2 DEF EntryRecords
  <2>3. CASE r = [entry[e] EXCEPT !.want = entry[e].want \cup {"close"}]
    BY <1>2, <2>3 DEF EntryRecords
  <2>4. CASE r = [Disarmed(entry[e]) EXCEPT !.at = "none"]
    BY <1>2, <2>4 DEF EntryRecords, Disarmed
  <2> QED BY <1>3, <2>1, <2>2, <2>3, <2>4
<1>5. InMemory(e)
  BY DEF Evict, Adopt, Close, PurgeChain, In, InMemory
<1>6. entry' = [entry EXCEPT ![e] = r]
  BY <1>3 DEF Put
<1>7. \A f \in Entries : /\ InMemory(f)' => InMemory(f)
                         /\ entry'[f].idx = entry[f].idx /\ entry'[f].step = entry[f].step
  BY <1>2, <1>4, <1>5, <1>6 DEF InMemory
<1> QED BY <1>1, <1>7, FileStill, SavedStill DEF HasLanded

\* What an opening reads was right on disk.
LEMMA OpenStartFile ==
  ASSUME EntryInv, EntryInv', FileInv, OpenStart
  PROVE  FileInv'
<1>1. UNCHANGED <<lines, frag, cuts, persisted, world, snap, entry, writing>>
  BY DEF OpenStart, disk
<1>2. Covers(Fresh)
  BY DEF Covers, Fresh, Index, Begin, EntryInv, Types
<1>3. PICK idx : opening' = idx /\ Covers(idx)
  BY <1>2 DEF OpenStart, FileInv, SavedCovers
<1>4. SavedCovers'
  BY <1>1, <1>3 DEF FileInv, SavedCovers, Covers, Begin
<1> QED BY <1>1, <1>4, FileStill DEF InMemory, HasLanded

\* After a purge there is nothing to be right about.
LEMMA PurgeFile ==
  ASSUME EntryInv, EntryInv', FileInv, PurgeBegin \/ PurgeLoads \/ PurgeWrites \/ PurgeRemoves
  PROVE  FileInv'
<1>1. CASE ~PurgeRemoves
  <2>1. UNCHANGED <<lines, frag, cuts, persisted, world, snap, opening, writing>>
    BY <1>1 DEF PurgeBegin, PurgeLoads, PurgeWrites, disk
  <2>2. entry \in [Entries -> EntryRecords]
    BY DEF EntryInv, Types
  <2>3. \A e \in Entries : /\ entry'[e].idx = entry[e].idx /\ entry'[e].step = entry[e].step
                           /\ entry'[e].at \in {"none", entry[e].at}
    <3>1. \A e \in Entries :
            /\ [entry[e] EXCEPT !.queue = 0].idx = entry[e].idx /\ [entry[e] EXCEPT !.queue = 0].step = entry[e].step
            /\ [entry[e] EXCEPT !.queue = 0].at = entry[e].at
            /\ [entry[e] EXCEPT !.at = "none"].idx = entry[e].idx /\ [entry[e] EXCEPT !.at = "none"].step = entry[e].step
            /\ [entry[e] EXCEPT !.at = "none"].at = "none"
      BY <2>2 DEF EntryRecords
    <3> QED BY <1>1, <2>2, <3>1 DEF PurgeBegin, PurgeLoads, PurgeWrites
  <2>4. \A e \in Entries : InMemory(e)' => InMemory(e)
    BY <2>3 DEF InMemory
  <2> QED BY <2>1, <2>3, <2>4, FileStill, SavedStill DEF HasLanded
<1>2. CASE PurgeRemoves
  <2>1. /\ lines' = <<>> /\ cuts' = <<>> /\ frag' = FALSE /\ snap' = NoSnap /\ persisted' = {}
        /\ entry' = entry /\ opening' = opening /\ writing' = writing
    BY <1>2 DEF PurgeRemoves
  <2>2. opening = NoSnap /\ writing = NoWrite /\ \A e \in Entries : ~InMemory(e) /\ Idle(e)
    BY <1>2 DEF PurgeRemoves, EntryInv, PurgeShuts, WorkInMemory, InMemory
  <2>3. Len(lines') = 0
    BY <2>1
  <2>4. SeqsIncrease' /\ SavedCovers' /\ MemoryCovers'
    BY <2>1, <2>2, <2>3 DEF SeqsIncrease, SavedCovers, MemoryCovers, InMemory
  <2>5. HeadReadable' /\ CutIsClean' /\ UnfinishedAtOpen' /\ PersistedIsALine'
    BY <2>1, <2>2 DEF HeadReadable, CutIsClean, UnfinishedAtOpen, PersistedIsALine, Idle
  <2> QED BY <2>4, <2>5 DEF FileInv
<1> QED BY <1>1, <1>2

\* Who appends is alone.
LEMMA Alone ==
  ASSUME EntryInv, NEW e \in Entries, entry[e].step # "idle"
  PROVE  /\ InMemory(e)
         /\ \A f \in Entries : f # e => ~InMemory(f) /\ entry[f].step = "idle"
<1>1. entry[e].at = "resident"
  BY DEF EntryInv, WorkInMemory, Idle
<1>2. InMemory(e)
  BY <1>1 DEF InMemory
<1>3. \A f \in Entries : f # e => ~InMemory(f)
  BY <1>2 DEF EntryInv, OneInMemory
<1>4. \A f \in Entries : ~InMemory(f) => entry[f].step = "idle"
  BY DEF EntryInv, WorkInMemory, Idle, InMemory
<1> QED BY <1>2, <1>3, <1>4

\* A line more in the file: what was true of the lines before it stays so.
LEMMA Grown ==
  ASSUME ShapeOK, NEW x \in Lines, lines' = Append(lines, x), cuts' = cuts
  PROVE  /\ Len(lines') = Len(lines) + 1 /\ Len(lines) \in Nat /\ lines'[Len(lines')] = x
         /\ \A i \in 1 .. Len(lines) : lines'[i] = lines[i] /\ lines[i].seq \in Nat /\ i \in 1 .. Len(lines')
         /\ x.seq \in Nat /\ FileFrom' = FileFrom /\ Size' = Size + 1
         /\ \A idx \in IndexRecords : Covers(idx) => Covers(idx)'
<1>1. /\ lines' \in Seq(Lines) /\ Len(lines') = Len(lines) + 1 /\ Len(lines) \in Nat
      /\ \A i \in 1 .. Len(lines) : lines'[i] = lines[i] /\ i \in 1 .. Len(lines')
      /\ lines'[Len(lines')] = x
  <2>1. /\ lines' \in Seq(Lines) /\ Len(lines') = Len(lines) + 1 /\ Len(lines) \in Nat
        /\ \A i \in 1 .. Len(lines) : lines'[i] = lines[i]
        /\ lines'[Len(lines) + 1] = x
    BY AppendProperties DEF ShapeOK
  <2> QED BY <2>1
<1>2. x.seq \in Nat /\ \A i \in 1 .. Len(lines) : lines[i].seq \in Nat
  <2>1. \A i \in 1 .. Len(lines) : lines[i] \in Lines
    BY DEF ShapeOK
  <2> QED BY <2>1 DEF Lines
<1>3. FileFrom' = FileFrom /\ FileFrom \in Nat /\ Size' = Size + 1
  <2>1. FileFrom' = FileFrom
    BY DEF FileFrom
  <2>2. FileFrom \in Nat
    BY ShapeFacts DEF ShapeOK
  <2> QED BY <1>1, <2>1, <2>2 DEF Size
<1>4. ASSUME NEW idx \in IndexRecords, Covers(idx)
      PROVE  Covers(idx)'
  <2>1. idx.cut \in Nat /\ idx.off \in Nat
    BY DEF IndexRecords
  <2>2. \A k : Begin(k)' = Begin(k)
    BY DEF Begin
  <2>3. Begin(idx.cut) \in Nat /\ Begin(idx.cut) <= Len(lines) /\ Begin(idx.cut) + idx.off <= Len(lines)
    BY <2>1, <1>4 DEF Covers, Begin, ShapeOK, FileShape
  <2>4. \A i \in 1 .. Begin(idx.cut) + idx.off : i \in 1 .. Len(lines)
    BY <1>1, <2>1, <2>3
  <2>5. \A i \in 1 .. Begin(idx.cut) : i \in 1 .. Len(lines)
    BY <1>1, <2>1, <2>3
  <2>6. Begin(idx.cut) + idx.off <= Len(lines')
    BY <1>1, <2>1, <2>3
  <2> HIDE DEF Begin
  <2> QED BY <1>1, <1>4, <2>2, <2>4, <2>5, <2>6 DEF Covers
<1> QED BY <1>1, <1>2, <1>3, <1>4

\* A line at the end leaves every saved index right.
LEMMA GrownSaved ==
  ASSUME EntryInv, ShapeOK, FileInv, NEW x \in Lines, lines' = Append(lines, x), cuts' = cuts,
         UNCHANGED <<snap, writing>>, opening' \in {opening, NoSnap}
  PROVE  SavedCovers'
<1>1. \A idx \in IndexRecords : Covers(idx) => Covers(idx)'
  BY Grown
<1>2. snap # NoSnap => Covers(snap) /\ snap \in IndexRecords
  BY DEF FileInv, SavedCovers, EntryInv, Types
<1>3. opening # NoSnap => Covers(opening) /\ opening \in IndexRecords
  BY DEF FileInv, SavedCovers, EntryInv, Types
<1>4. writing # NoWrite => Covers(writing.idx) /\ writing.idx \in IndexRecords
  BY DEF FileInv, SavedCovers, EntryInv, Types, WriteRecords
<1>5. ASSUME NEW idx \in IndexRecords, Covers(idx)'
      PROVE  /\ snap = idx => Covers(snap)'
             /\ opening = idx => (opening' # NoSnap => Covers(opening)')
             /\ writing.idx = idx => Covers(writing.idx)'
  BY <1>5 DEF Covers
<1> QED BY <1>1, <1>2, <1>3, <1>4, <1>5 DEF SavedCovers

\* An unreadable line changes nothing, a readable one must have a higher seq.
LEMMA GrownSeqs ==
  ASSUME ShapeOK, FileInv, NEW x \in Lines, lines' = Append(lines, x), cuts' = cuts, persisted' = persisted,
         world' = world,
         Readable(x) => \A i \in 1 .. Len(lines) : Readable(lines[i]) => lines[i].seq < x.seq
  PROVE  SeqsIncrease' /\ PersistedIsALine'
<1>1. /\ Len(lines') = Len(lines) + 1 /\ Len(lines) \in Nat /\ lines'[Len(lines')] = x
      /\ \A i \in 1 .. Len(lines) : lines'[i] = lines[i] /\ lines[i].seq \in Nat /\ i \in 1 .. Len(lines')
  BY Grown
<1>2. SeqsIncrease'
  <2> SUFFICES ASSUME NEW i \in 1 .. Len(lines'), NEW j \in 1 .. Len(lines'), i < j,
                      Readable(lines'[i]), Readable(lines'[j])
               PROVE  lines'[i].seq < lines'[j].seq
    BY DEF SeqsIncrease, Readable
  <2>1. i \in 1 .. Len(lines)
    BY <1>1
  <2>2. CASE j = Len(lines')
    BY <1>1, <2>1, <2>2
  <2>3. CASE j # Len(lines')
    <3>1. j \in 1 .. Len(lines)
      BY <1>1, <2>3
    <3> QED BY <1>1, <2>1, <3>1 DEF FileInv, SeqsIncrease
  <2> QED BY <2>2, <2>3
<1>3. PersistedIsALine'
  BY <1>1 DEF FileInv, PersistedIsALine, Readable
<1> QED BY <1>2, <1>3

\* A line reaches the file (appendOne).
LEMMA LandsFile ==
  ASSUME EntryInv, EntryInv', ShapeOK, FileInv, NEW e \in Entries, AppendLands(e)
  PROVE  FileInv'
<1>1. /\ entry[e] \in EntryRecords /\ entry[e].idx \in IndexRecords
      /\ entry[e].step \in {"append", "cut"}
  BY Typed DEF AppendLands
<1>2. /\ InMemory(e)
      /\ \A f \in Entries : f # e => ~InMemory(f) /\ entry[f].step = "idle"
  BY <1>1, Alone
<1>3. /\ UNCHANGED <<snap, opening, writing, purge, persisted, owed, world>> /\ cuts' = cuts /\ frag' = FALSE
  BY DEF AppendLands, Lands
<1>4. PICK x : /\ lines' = Append(lines, x) /\ x.seq = entry[e].idx.last + 1
               /\ ~frag => Readable(x)
  <2>1. KindOf(e) # "torn"
    BY DEF KindOf
  <2>2. CASE frag
    BY <2>2, TornLine DEF AppendLands, Lands, Line, NextSeq
  <2>3. CASE ~frag
    <3>1. lines' = Append(lines, Line(NextSeq(e), KindOf(e)))
      BY <2>3 DEF AppendLands, Lands
    <3>2. Line(NextSeq(e), KindOf(e)).seq = entry[e].idx.last + 1 /\ Line(NextSeq(e), KindOf(e)).kind # "torn"
      BY <2>1 DEF Line, NextSeq
    <3> QED BY <3>1, <3>2 DEF Readable
  <2> QED BY <2>2, <2>3
<1>5. x \in Lines
  <2>1. lines' \in Seq(Lines) /\ lines \in Seq(Lines)
    BY DEF EntryInv, Types
  <2>2. lines'[Len(lines) + 1] = x /\ Len(lines') = Len(lines) + 1 /\ Len(lines) \in Nat
    BY <1>4, <2>1
  <2>3. Len(lines) + 1 \in 1 .. Len(lines')
    BY <2>2
  <2> QED BY <2>1, <2>2, <2>3
<1>6. /\ Len(lines') = Len(lines) + 1 /\ Len(lines) \in Nat /\ lines'[Len(lines')] = x
      /\ \A i \in 1 .. Len(lines) : lines'[i] = lines[i] /\ lines[i].seq \in Nat /\ i \in 1 .. Len(lines')
      /\ x.seq \in Nat /\ FileFrom' = FileFrom /\ Size' = Size + 1
      /\ \A idx \in IndexRecords : Covers(idx) => Covers(idx)'
  BY <1>3, <1>4, <1>5, Grown
<1>7. /\ Covers(entry[e].idx) /\ entry[e].idx.cut = Len(cuts)
      /\ FileFrom + entry[e].idx.off = Len(lines)
  BY <1>1, <1>2 DEF FileInv, MemoryCovers, Fits, HasLanded
<1>8. FileFrom = Begin(Len(cuts)) /\ FileFrom \in Nat /\ Size \in Nat /\ FileFrom + Size = Len(lines)
  BY ShapeFacts DEF ShapeOK
<1>z. /\ Size > 0 => FileFrom + 1 \in 1 .. Len(lines) /\ FileFrom' + 1 = FileFrom + 1
      /\ Size = 0 => FileFrom' + 1 = Len(lines')
      /\ Size' > 0
  BY <1>6, <1>8
<1>9. \A i \in 1 .. Len(lines) : Readable(lines[i]) => lines[i].seq <= entry[e].idx.last
  BY <1>7, <1>8 DEF Covers
<1>10. SeqsIncrease' /\ PersistedIsALine'
  <2>1. \A i \in 1 .. Len(lines) : Readable(lines[i]) => lines[i].seq < x.seq
    <3>1. entry[e].idx.last \in Nat
      BY <1>1 DEF IndexRecords
    <3> QED BY <1>4, <1>6, <1>9, <3>1
  <2> QED BY <1>3, <1>4, <1>5, <2>1, GrownSeqs
<1>11. SavedCovers'
  BY <1>3, <1>4, <1>5, GrownSaved
<1>12. Readable(x) \/ "partial" \in world
  BY <1>2, <1>4 DEF FileInv, UnfinishedAtOpen
<1>13. PICK s \in {"landed", "cutlanded"} : Put(e, [entry[e] EXCEPT !.step = s])
  BY DEF AppendLands
<1>14. /\ entry'[e].idx = entry[e].idx /\ entry'[e].step = s /\ entry'[e].at = entry[e].at
       /\ \A f \in Entries : f # e => entry'[f] = entry[f]
  <2>1. entry \in [Entries -> EntryRecords]
    BY DEF EntryInv, Types
  <2>2. entry' = [entry EXCEPT ![e] = [entry[e] EXCEPT !.step = s]]
    BY <1>13 DEF Put
  <2> QED BY <1>1, <2>1, <2>2 DEF EntryRecords
<1>15. MemoryCovers'
  <2> SUFFICES ASSUME NEW f \in Entries, InMemory(f)'
               PROVE  Fits(entry[f].idx, HasLanded(f))'
    BY DEF MemoryCovers
  <2>1. f = e
    BY <1>2, <1>14 DEF InMemory
  <2>2. PICK idx \in IndexRecords : idx = entry[e].idx
    BY <1>1
  <2>3. Covers(idx)' /\ HasLanded(e)'
    BY <1>6, <1>7, <1>13, <1>14, <2>2 DEF HasLanded
  <2>4. /\ FileFrom' + idx.off + 1 = Len(lines') /\ lines'[Len(lines')].seq = idx.last + 1
        /\ Readable(lines'[Len(lines')]) \/ "partial" \in world
    BY <1>4, <1>6, <1>7, <1>8, <1>12, <2>2 DEF IndexRecords
  <2>5. idx.cut = Len(cuts')
    BY <1>3, <1>7, <2>2
  <2> QED BY <1>3, <1>14, <2>1, <2>2, <2>3, <2>4, <2>5 DEF Fits, Covers, Readable
<1>16. \A f \in Entries : entry'[f].step # "cut"
  BY <1>2, <1>13, <1>14
<1>17. HeadReadable'
  <2> SUFFICES ASSUME cuts # <<>>
               PROVE  Size' > 0 /\ Readable(lines'[FileFrom' + 1])
    BY <1>3 DEF HeadReadable, Readable
  <2>1. CASE entry[e].step = "cut"
    <3>1. ~frag /\ Size = 0
      BY <2>1 DEF FileInv, CutIsClean
    <3> QED BY <1>4, <1>6, <1>z, <3>1
  <2>2. CASE entry[e].step # "cut"
    <3>1. Size > 0 /\ Readable(lines[FileFrom + 1])
      BY <1>2, <2>2 DEF FileInv, HeadReadable
    <3>2. FileFrom + 1 \in 1 .. Len(lines)
      BY <1>z, <3>1
    <3>3. lines'[FileFrom + 1] = lines[FileFrom + 1]
      BY <1>6, <3>2
    <3> QED BY <1>z, <3>1, <3>3
  <2> QED BY <2>1, <2>2
<1>18. CutIsClean' /\ UnfinishedAtOpen'
  BY <1>3, <1>16 DEF CutIsClean, UnfinishedAtOpen
<1> QED BY <1>10, <1>11, <1>15, <1>17, <1>18 DEF FileInv

\* An append fails, and may leave the beginning of its line.
LEMMA FailsFile ==
  ASSUME Tame, EntryInv, EntryInv', FileInv, NEW e \in Entries, AppendFails(e)
  PROVE  FileInv'
<1>1. "rotation" \notin world
  BY DEF Tame, EntryInv, Types
<1>2. entry[e].step = "append" /\ (frag' = frag \/ "partial" \in world)
  BY <1>1 DEF AppendFails, Fault, disk
<1>3. UNCHANGED <<lines, cuts, snap, opening, writing, persisted, world>>
  BY DEF AppendFails, disk
<1>4. /\ InMemory(e) /\ ~HasLanded(e)
      /\ \A f \in Entries : f # e => ~InMemory(f) /\ entry[f].step = "idle"
  BY <1>2, Alone DEF HasLanded
<1>5. entry \in [Entries -> EntryRecords]
  BY DEF EntryInv, Types
<1>6. PICK j : Put(e, [entry[e] EXCEPT !.drop = TRUE, !.step = "idle", !.job = j])
  <2>1. \E d, j : Put(e, [entry[e] EXCEPT !.drop = d, !.step = "idle", !.job = j]) /\ d = TRUE
    BY <1>2 DEF AppendFails, DropAgain
  <2> QED BY <2>1
<1>7. /\ entry'[e].idx = entry[e].idx /\ entry'[e].step = "idle" /\ entry'[e].at = entry[e].at
      /\ \A f \in Entries : f # e => entry'[f] = entry[f]
  <2>1. entry' = [entry EXCEPT ![e] = [entry[e] EXCEPT !.drop = TRUE, !.step = "idle", !.job = j]]
    BY <1>6 DEF Put
  <2> QED BY <1>5, <2>1 DEF EntryRecords
<1>8. FileFrom' = FileFrom /\ Size' = Size
  BY <1>3 DEF FileFrom, Size
<1>9. SavedCovers'
  BY <1>3, SavedStill
<1>10. MemoryCovers'
  <2> SUFFICES ASSUME NEW f \in Entries, InMemory(f)'
               PROVE  Fits(entry[f].idx, HasLanded(f))'
    BY DEF MemoryCovers
  <2>1. f = e
    BY <1>4, <1>7 DEF InMemory
  <2>2. PICK idx : idx = entry[e].idx
    OBVIOUS
  <2>3. Fits(idx, FALSE)
    <3>1. Fits(idx, HasLanded(e))
      BY <1>4, <2>2 DEF FileInv, MemoryCovers
    <3>2. HasLanded(e) = FALSE
      BY <1>2 DEF HasLanded
    <3> QED BY <3>1, <3>2
  <2>4. Fits(idx, FALSE)'
    BY <1>3, <1>8, <2>3 DEF Fits, Covers, Begin
  <2> QED BY <1>7, <2>1, <2>2, <2>4 DEF Fits, Covers, HasLanded
<1>11. SeqsIncrease' /\ PersistedIsALine'
  BY <1>3 DEF FileInv, SeqsIncrease, PersistedIsALine
<1>12. HeadReadable' /\ CutIsClean'
  BY <1>2, <1>3, <1>4, <1>7, <1>8 DEF FileInv, HeadReadable, CutIsClean
<1>13. UnfinishedAtOpen'
  BY <1>2, <1>3, <1>4 DEF FileInv, UnfinishedAtOpen
<1> QED BY <1>9, <1>10, <1>11, <1>12, <1>13 DEF FileInv

\* The index learns of the line that landed.
LEMMA FitsAdvance ==
  ASSUME ShapeOK, NEW idx \in IndexRecords, Fits(idx, TRUE)
  PROVE  Fits(Advance(idx), FALSE)
<1>1. /\ FileFrom \in Nat /\ Len(lines) \in Nat /\ FileFrom = Begin(Len(cuts))
  BY ShapeFacts DEF ShapeOK
<1>2. idx.last \in Nat /\ idx.off \in Nat /\ idx.first \in Nat
  BY DEF IndexRecords
<1>3. /\ Covers(idx) /\ idx.cut = Len(cuts)
      /\ FileFrom + idx.off + 1 = Len(lines) /\ lines[Len(lines)].seq = idx.last + 1
  BY DEF Fits
<1>4. \A i \in 1 .. Len(lines) : lines[i].seq \in Nat
  <2>1. \A i \in 1 .. Len(lines) : lines[i] \in Lines
    BY DEF ShapeOK
  <2> QED BY <2>1 DEF Lines
<1> DEFINE a == Advance(idx)
<1>5. /\ a.last = idx.last + 1 /\ a.off = idx.off + 1 /\ a.cut = idx.cut
      /\ a.first = IF idx.first = 0 THEN idx.last + 1 ELSE idx.first
  BY AdvanceType
<1> HIDE DEF a
<1>6. FileFrom + a.off = Len(lines)
  <2>1. a.off = idx.off + 1
    BY <1>5
  <2>2. FileFrom + (idx.off + 1) = Len(lines)
    BY <1>1, <1>2, <1>3
  <2> QED BY <2>1, <2>2
<1>7. \A i \in 1 .. Len(lines) : Readable(lines[i]) => lines[i].seq <= a.last
  <2> SUFFICES ASSUME NEW i \in 1 .. Len(lines), Readable(lines[i])
               PROVE  lines[i].seq <= a.last
    OBVIOUS
  <2>1. CASE i = Len(lines)
    BY <1>2, <1>3, <1>5, <2>1
  <2>2. CASE i # Len(lines)
    <3>1. i \in 1 .. FileFrom + idx.off
      BY <1>1, <1>2, <1>3, <2>2
    <3>2. lines[i].seq <= idx.last
      BY <1>1, <1>3, <3>1 DEF Covers
    <3> QED BY <1>2, <1>4, <1>5, <3>2
  <2> QED BY <2>1, <2>2
<1>8. \A i \in 1 .. FileFrom : Readable(lines[i]) => lines[i].seq < a.first
  <2> SUFFICES ASSUME NEW i \in 1 .. FileFrom, Readable(lines[i])
               PROVE  lines[i].seq < a.first
    OBVIOUS
  <2>1. i \in 1 .. FileFrom + idx.off /\ i \in 1 .. Len(lines)
    BY <1>1, <1>2, <1>3
  <2>2. lines[i].seq <= idx.last /\ lines[i].seq \in Nat
    BY <1>1, <1>3, <1>4, <2>1 DEF Covers
  <2>3. idx.first # 0 => lines[i].seq < idx.first
    BY <1>1, <1>3 DEF Covers
  <2> QED BY <1>2, <1>5, <2>2, <2>3
<1>9. Len(cuts) \in Nat
  BY DEF ShapeOK
<1>10. Covers(a)
  BY <1>1, <1>3, <1>5, <1>6, <1>7, <1>8, <1>9 DEF Covers
<1> QED BY <1>3, <1>5, <1>6, <1>10 DEF Fits, a

\* The index moves over the line that landed.
LEMMA ReturnsFile ==
  ASSUME EntryInv, EntryInv', ShapeOK, FileInv, NEW e \in Entries, AppendReturns(e)
  PROVE  FileInv'
<1>1. /\ entry \in [Entries -> EntryRecords] /\ entry[e].idx \in IndexRecords
      /\ HasLanded(e) /\ entry[e].step # "idle" /\ entry[e].step # "cut"
  BY Typed DEF AppendReturns, HasLanded, EntryInv, Types
<1>2. /\ InMemory(e)
      /\ \A f \in Entries : f # e => ~InMemory(f) /\ entry[f].step = "idle"
  BY <1>1, Alone
<1>3. /\ UNCHANGED <<lines, frag, cuts, snap, opening, writing, world>>
      /\ persisted' = persisted \cup {NextSeq(e)}
  BY DEF AppendReturns, disk
<1>4. PICK idx \in IndexRecords : idx = entry[e].idx
  BY <1>1
<1>5. /\ entry'[e].idx = Advance(idx) /\ entry'[e].at = entry[e].at
      /\ ~HasLanded(e)' /\ entry'[e].step # "cut"
      /\ \A f \in Entries : f # e => entry'[f] = entry[f]
  <2>1. PICK s \in {"rotate", "flush"} :
          entry' = [entry EXCEPT ![e] =
            [entry[e] EXCEPT !.idx = Advance(entry[e].idx), !.size = entry[e].size + 1,
               !.since = entry[e].since + 1, !.dirty = TRUE, !.step = s]]
    BY DEF AppendReturns, Put
  <2> DEFINE i == Advance(entry[e].idx)  m == entry[e].size + 1  n == entry[e].since + 1
             r == [entry[e] EXCEPT !.idx = i, !.size = m, !.since = n, !.dirty = TRUE, !.step = s]
  <2>2. entry' = [entry EXCEPT ![e] = r]
    BY <2>1
  <2>3. i = Advance(idx)
    BY <1>4
  <2> HIDE DEF i, m, n
  <2>4. r.idx = i /\ r.at = entry[e].at /\ r.step = s
    BY <1>1 DEF EntryRecords
  <2> HIDE DEF r
  <2>5. entry'[e] = r /\ \A f \in Entries : f # e => entry'[f] = entry[f]
    BY <1>1, <2>2
  <2> QED BY <2>1, <2>3, <2>4, <2>5 DEF HasLanded
<1>6. Fits(idx, TRUE)
  BY <1>1, <1>2, <1>4 DEF FileInv, MemoryCovers
<1>7. Fits(Advance(idx), FALSE)
  BY <1>6, FitsAdvance
<1>8. FileFrom' = FileFrom /\ Size' = Size
  BY <1>3 DEF FileFrom, Size
<1>9. MemoryCovers'
  <2> SUFFICES ASSUME NEW f \in Entries, InMemory(f)'
               PROVE  Fits(entry[f].idx, HasLanded(f))'
    BY DEF MemoryCovers
  <2>1. f = e
    BY <1>2, <1>5 DEF InMemory
  <2>2. PICK a : a = Advance(idx)
    OBVIOUS
  <2>3. Fits(a, FALSE)
    BY <1>7, <2>2
  <2>4. Fits(a, FALSE)'
    BY <1>3, <1>8, <2>3 DEF Fits, Covers, Begin
  <2> QED BY <1>5, <2>1, <2>2, <2>4 DEF Fits, Covers
<1>10. SavedCovers'
  BY <1>3, SavedStill
<1>11. SeqsIncrease'
  BY <1>3 DEF FileInv, SeqsIncrease
<1>12. PersistedIsALine'
  <2>1. /\ lines[Len(lines)].seq = NextSeq(e)
        /\ Readable(lines[Len(lines)]) \/ "partial" \in world
    BY <1>4, <1>6 DEF Fits, NextSeq
  <2>2. Len(lines) \in 1 .. Len(lines)
    <3>1. FileFrom \in Nat /\ Len(lines) \in Nat /\ idx.off \in Nat
      BY <1>4, ShapeFacts DEF ShapeOK, IndexRecords
    <3> QED BY <1>6, <3>1 DEF Fits
  <2> QED BY <1>3, <2>1, <2>2 DEF FileInv, PersistedIsALine
<1>13. HeadReadable' /\ CutIsClean'
  BY <1>1, <1>2, <1>3, <1>5, <1>8 DEF FileInv, HeadReadable, CutIsClean
<1>14. UnfinishedAtOpen'
  BY <1>2, <1>3 DEF FileInv, UnfinishedAtOpen
<1> QED BY <1>9, <1>10, <1>11, <1>12, <1>13, <1>14 DEF FileInv

\* The file is cut where it ends: a new, empty file.
LEMMA CutThere ==
  ASSUME ShapeOK, lines' = lines, cuts' = Append(cuts, Len(lines))
  PROVE  /\ ShapeOK' /\ FileFrom' = Len(lines) /\ Size' = 0 /\ Len(cuts') = Len(cuts) + 1
         /\ \A k \in 0 .. Len(cuts) : Begin(k)' = Begin(k)
         /\ \A k : k = Len(cuts) + 1 => Begin(k)' = Len(lines)
         /\ \A idx \in IndexRecords : Covers(idx) => Covers(idx)'
<1>1. Len(lines) \in Nat /\ Len(cuts) \in Nat
  BY DEF ShapeOK
<1>2. /\ cuts' \in Seq(Nat) /\ Len(cuts') = Len(cuts) + 1
      /\ \A k \in 1 .. Len(cuts) : cuts'[k] = cuts[k]
      /\ cuts'[Len(cuts) + 1] = Len(lines)
  BY <1>1, AppendProperties DEF ShapeOK
<1>3. cuts' # <<>>
  BY <1>1, <1>2
<1>4. FileFrom' = Len(lines)
  BY <1>2, <1>3 DEF FileFrom, Last
<1>5. Size' = 0
  BY <1>1, <1>4 DEF Size
<1>6. \A k \in 0 .. Len(cuts) : Begin(k)' = Begin(k)
  BY <1>1, <1>2 DEF Begin
<1>7. \A k : k = Len(cuts) + 1 => Begin(k)' = Len(lines)
  BY <1>1, <1>2 DEF Begin
<1>8. ShapeOK'
  <2>1. \A k \in 1 .. Len(cuts') : k \in 1 .. Len(cuts) \/ k = Len(cuts) + 1
    BY <1>1, <1>2
  <2>2. \A k \in 1 .. Len(cuts') : cuts'[k] \in 0 .. Len(lines')
    BY <1>1, <1>2, <2>1 DEF ShapeOK, FileShape
  <2> QED BY <1>2, <2>2 DEF ShapeOK, FileShape
<1>9. ASSUME NEW idx \in IndexRecords, Covers(idx)
      PROVE  Covers(idx)'
  <2>1. idx.cut \in 0 .. Len(cuts) /\ idx.cut \in 0 .. Len(cuts')
    BY <1>1, <1>2, <1>9 DEF Covers
  <2>2. Begin(idx.cut)' = Begin(idx.cut)
    BY <1>6, <2>1
  <2> QED BY <1>9, <2>1, <2>2 DEF Covers
<1> QED BY <1>2, <1>4, <1>5, <1>6, <1>7, <1>8, <1>9

\* The index of the new file.
LEMMA FitsCut ==
  ASSUME ShapeOK, lines' = lines, cuts' = Append(cuts, Len(lines)), NEW idx \in IndexRecords, Fits(idx, FALSE),
         NEW i, i.last = idx.last, i.off = 0, i.cut = Len(cuts'), i.first = 0
  PROVE  Fits(i, FALSE)'
<1>1. /\ FileFrom' = Len(lines) /\ Len(cuts') = Len(cuts) + 1
      /\ \A k : k = Len(cuts) + 1 => Begin(k)' = Len(lines)
  BY CutThere
<1>2. Len(lines) \in Nat /\ Len(cuts) \in Nat /\ FileFrom = Begin(Len(cuts)) /\ FileFrom + idx.off = Len(lines)
  BY ShapeFacts DEF ShapeOK, Fits
<1>3. \A k \in 1 .. Len(lines) : Readable(lines[k]) => lines[k].seq <= idx.last
  BY <1>2 DEF Fits, Covers
<1>4. Begin(i.cut)' = Len(lines)
  BY <1>1
<1>5. Begin(i.cut)' + i.off = Len(lines') /\ i.cut \in 0 .. Len(cuts')
  BY <1>1, <1>2, <1>4
<1>6. FileFrom' + i.off = Len(lines')
  BY <1>1, <1>2
<1>7. Covers(i)'
  BY <1>2, <1>3, <1>5 DEF Covers
<1> QED BY <1>6, <1>7 DEF Fits

\* The file is rotated away and the index starts over.
LEMMA RotateFile ==
  ASSUME EntryInv, EntryInv', ShapeOK, FileInv, NEW e \in Entries, Rotate(e)
  PROVE  FileInv'
<1>1. /\ entry \in [Entries -> EntryRecords] /\ entry[e].idx \in IndexRecords
      /\ entry[e].step = "rotate"
  BY Typed DEF Rotate, EntryInv, Types
<1>2. /\ InMemory(e)
      /\ \A f \in Entries : f # e => ~InMemory(f) /\ entry[f].step = "idle"
  BY <1>1, Alone
<1>3. UNCHANGED <<snap, opening, writing, persisted, world, lines>>
  BY DEF Rotate, disk
<1>4. CASE UNCHANGED disk /\ Put(e, [entry[e] EXCEPT !.step = "flush"])
  <2> DEFINE r == [entry[e] EXCEPT !.step = "flush"]
  <2>1. r \in EntryRecords /\ r.at = entry[e].at /\ r.idx = entry[e].idx /\ r.step = "flush"
    BY <1>1 DEF EntryRecords
  <2>2. Put(e, r)
    BY <1>4
  <2> HIDE DEF r
  <2> QED BY <1>1, <1>3, <1>4, <2>1, <2>2, QuietEntry, SavedStill DEF disk
<1>5. CASE cuts' = Append(cuts, Len(lines)) /\ frag' = FALSE
           /\ Put(e, [entry[e] EXCEPT !.step = "cut", !.size = 0, !.idx = Index(entry[e].idx.last, 0, Len(cuts'), 0)])
  <2>1. PICK idx \in IndexRecords : idx = entry[e].idx
    BY <1>1
  <2>2. PICK i : i = Index(idx.last, 0, Len(cuts'), 0)
    OBVIOUS
  <2>3. i.last = idx.last /\ i.off = 0 /\ i.cut = Len(cuts') /\ i.first = 0
    BY <2>2 DEF Index
  <2>4. /\ entry'[e].idx = i /\ entry'[e].step = "cut" /\ entry'[e].at = entry[e].at
        /\ \A f \in Entries : f # e => entry'[f] = entry[f]
    <3>1. entry' = [entry EXCEPT ![e] = [entry[e] EXCEPT !.step = "cut", !.size = 0, !.idx = i]]
      BY <1>5, <2>1, <2>2 DEF Put
    <3> QED BY <1>1, <3>1 DEF EntryRecords
  <2>5. /\ FileFrom' = Len(lines) /\ Size' = 0
        /\ \A k \in IndexRecords : Covers(k) => Covers(k)'
    BY <1>3, <1>5, CutThere
  <2>6. Fits(idx, FALSE)
    <3>1. Fits(idx, HasLanded(e))
      BY <1>2, <2>1 DEF FileInv, MemoryCovers
    <3>2. HasLanded(e) = FALSE
      BY <1>1 DEF HasLanded
    <3> QED BY <3>1, <3>2
  <2>7. Fits(i, FALSE)'
    BY <1>3, <1>5, <2>3, <2>6, FitsCut
  <2>8. MemoryCovers'
    <3> SUFFICES ASSUME NEW f \in Entries, InMemory(f)'
                 PROVE  Fits(entry[f].idx, HasLanded(f))'
      BY DEF MemoryCovers
    <3>1. f = e
      BY <1>2, <2>4 DEF InMemory
    <3> QED BY <2>4, <2>7, <3>1 DEF Fits, Covers, HasLanded
  <2>9. SavedCovers'
    <3>1. \A k \in IndexRecords : Covers(k) => Covers(k)'
      BY <2>5
    <3>2. snap # NoSnap => Covers(snap) /\ snap \in IndexRecords
      BY DEF FileInv, SavedCovers, EntryInv, Types
    <3>3. opening # NoSnap => Covers(opening) /\ opening \in IndexRecords
      BY DEF FileInv, SavedCovers, EntryInv, Types
    <3>4. writing # NoWrite => Covers(writing.idx) /\ writing.idx \in IndexRecords
      BY DEF FileInv, SavedCovers, EntryInv, Types, WriteRecords
    <3>5. ASSUME NEW k \in IndexRecords, Covers(k)'
          PROVE  /\ snap = k => Covers(snap)'
                 /\ opening = k => Covers(opening)'
                 /\ writing.idx = k => Covers(writing.idx)'
      BY <1>3, <3>5 DEF Covers
    <3> QED BY <1>3, <3>1, <3>2, <3>3, <3>4, <3>5 DEF SavedCovers
  <2>10. SeqsIncrease' /\ PersistedIsALine'
    BY <1>3 DEF FileInv, SeqsIncrease, PersistedIsALine
  <2>11. HeadReadable' /\ CutIsClean' /\ UnfinishedAtOpen'
    BY <1>2, <1>5, <2>4, <2>5 DEF HeadReadable, CutIsClean, UnfinishedAtOpen
  <2> QED BY <2>8, <2>9, <2>10, <2>11 DEF FileInv
<1> QED BY <1>4, <1>5 DEF Rotate

\* A crash leaves the file and the last snapshot.
LEMMA CrashFile ==
  ASSUME Tame, EntryInv, EntryInv', FileInv, Crash
  PROVE  FileInv'
<1>1. "rotation" \notin world
  BY DEF Tame, EntryInv, Types
<1>2. /\ UNCHANGED <<lines, cuts, snap, persisted, world>> /\ opening' = NoSnap /\ writing' = NoWrite
      /\ ~Rotating
  BY <1>1 DEF Crash
<1>3. \A e \in Entries : entry'[e].at = "none" /\ entry'[e].step = "idle"
  BY DEF Crash, NotInUse
<1>4. SavedCovers'
  BY <1>2 DEF FileInv, SavedCovers, Covers, Begin
<1>5. MemoryCovers' /\ UnfinishedAtOpen' /\ CutIsClean'
  BY <1>3 DEF MemoryCovers, UnfinishedAtOpen, CutIsClean, InMemory
<1>6. SeqsIncrease' /\ PersistedIsALine'
  BY <1>2 DEF FileInv, SeqsIncrease, PersistedIsALine
<1>7. FileFrom' = FileFrom /\ Size' = Size
  BY <1>2 DEF FileFrom, Size
<1>8. HeadReadable'
  BY <1>2, <1>7 DEF FileInv, HeadReadable, CutIsClean, Rotating
<1> QED BY <1>4, <1>5, <1>6, <1>8 DEF FileInv

\* A reopening recovers a right index from a right snapshot.
LEMMA OpenFile ==
  ASSUME EntryInv, EntryInv', ShapeOK, FileInv, NEW e \in Entries, OpenFinish(e)
  PROVE  FileInv'
<1>1. /\ UNCHANGED <<snap, writing, purge, persisted, owed, world, offered, cuts>>
      /\ opening' = NoSnap /\ opening # NoSnap
      /\ (lines' = lines /\ frag' = frag) \/ (lines' = Append(lines, Torn) /\ frag' = FALSE)
  BY DEF OpenFinish, Terminate, disk
<1>2. \A f \in Entries : ~InMemory(f) /\ entry[f].step = "idle"
  BY <1>1 DEF EntryInv, OneInMemory, WorkInMemory, Idle, InMemory
<1>3. HeadKept
  BY <1>2 DEF FileInv, HeadReadable, HeadKept
<1>4. PICK idx \in IndexRecords : idx = opening /\ Covers(idx)
  BY <1>1 DEF EntryInv, Types, FileInv, SavedCovers
<1>5. ShapeOK' /\ SeqsIncrease' /\ PersistedIsALine' /\ SavedCovers' /\ HeadKept' /\ Covers(idx)'
  <2>1. CASE lines' = lines
    <3>1. ShapeOK'
      BY <1>1, <2>1 DEF ShapeOK, FileShape
    <3>2. SeqsIncrease' /\ PersistedIsALine'
      BY <1>1, <2>1 DEF FileInv, SeqsIncrease, PersistedIsALine
    <3>3. SavedCovers'
      BY <1>1, <2>1 DEF FileInv, SavedCovers, Covers, Begin
    <3>4. HeadKept' /\ Covers(idx)'
      BY <1>1, <1>3, <1>4, <2>1 DEF HeadKept, Covers, Begin, Size, FileFrom
    <3> QED BY <3>1, <3>2, <3>3, <3>4
  <2>2. CASE lines' = Append(lines, Torn)
    <3>1. Torn \in Lines /\ ~Readable(Torn)
      BY TornType
    <3>2. ShapeOK'
      BY <1>1, <2>2, <3>1, GrownShape
    <3>3. SeqsIncrease' /\ PersistedIsALine'
      BY <1>1, <2>2, <3>1, GrownSeqs
    <3>4. SavedCovers'
      BY <1>1, <2>2, <3>1, GrownSaved
    <3>5. /\ Len(lines) \in Nat /\ FileFrom' = FileFrom /\ Size' = Size + 1
          /\ \A i \in 1 .. Len(lines) : lines'[i] = lines[i]
          /\ \A k \in IndexRecords : Covers(k) => Covers(k)'
      BY <1>1, <2>2, <3>1, Grown
    <3>6. FileFrom \in Nat /\ Size \in Nat /\ FileFrom + Size = Len(lines)
      BY ShapeFacts DEF ShapeOK
    <3>7. Size > 0 => FileFrom + 1 \in 1 .. Len(lines) /\ Size' > 0
      BY <3>5, <3>6
    <3>8. HeadKept'
      BY <1>1, <1>3, <3>5, <3>7 DEF HeadKept
    <3> QED BY <1>4, <3>2, <3>3, <3>4, <3>5, <3>8
  <2> QED BY <1>1, <2>1, <2>2
<1>6. UnfinishedAtOpen'
  BY <1>1 DEF OpenFinish, Terminate, Fault, UnfinishedAtOpen, disk
<1>7. HeadReadable'
  BY <1>5 DEF HeadKept, HeadReadable
<1>8. CASE Purging
  <2>1. entry' = entry
    BY <1>8 DEF OpenFinish
  <2>2. MemoryCovers' /\ CutIsClean'
    BY <1>2, <2>1 DEF MemoryCovers, CutIsClean, InMemory
  <2> QED BY <1>5, <1>6, <1>7, <2>2 DEF FileInv
<1>9. CASE ~Purging
  <2>1. Put(e, [NotInUse EXCEPT !.at = "resident", !.idx = Recover(idx)', !.size = Size'])
    BY <1>4, <1>9 DEF OpenFinish
  <2>2. PICK i, n : /\ Put(e, [NotInUse EXCEPT !.at = "resident", !.idx = i, !.size = n])
                    /\ i = Recover(idx)'
    BY <2>1
  <2>3. /\ entry'[e].idx = i /\ entry'[e].step = "idle"
        /\ \A f \in Entries : f # e => entry'[f] = entry[f]
    <3>1. entry' = [entry EXCEPT ![e] = [NotInUse EXCEPT !.at = "resident", !.idx = i, !.size = n]]
      BY <2>2 DEF Put
    <3> QED BY <3>1 DEF NotInUse, EntryInv, Types
  <2>4. Fits(i, FALSE)'
    <3>1. RecoveryCovers' /\ RecoveryKeepsType'
      BY RecoveryIsRight, RecoveryTyped, PTL
    <3>2. Covers(Recover(idx))'
      BY <1>5, <3>1 DEF RecoveryCovers, ShapeOK
    <3>3. Recover(idx)'.cut = Len(cuts') /\ FileFrom' + Recover(idx)'.off = Len(lines')
      BY <1>5, <3>1 DEF RecoveryKeepsType, ShapeOK
    <3>4. Covers(i)'
      BY <2>2, <3>2 DEF Covers
    <3> QED BY <2>2, <3>3, <3>4 DEF Fits
  <2>5. MemoryCovers'
    <3> SUFFICES ASSUME NEW f \in Entries, InMemory(f)'
                 PROVE  Fits(entry[f].idx, HasLanded(f))'
      BY DEF MemoryCovers
    <3>1. f = e
      BY <1>2, <2>3 DEF InMemory
    <3>2. HasLanded(e)' = FALSE
      BY <2>3 DEF HasLanded
    <3> QED BY <2>3, <2>4, <3>1, <3>2 DEF Fits, Covers
  <2>6. CutIsClean'
    BY <1>2, <2>3 DEF CutIsClean
  <2> QED BY <1>5, <1>6, <1>7, <2>5, <2>6 DEF FileInv
<1> QED BY <1>8, <1>9

-----------------------------------------------------------------------------
(* Losses, and what a purge leaves                                          *)

Owes(r) == r.drop \/ (r.job = "report" /\ r.step \in {"append", "landed"})

\* A step that changes one entry keeps its loss if it owes it afterwards.
LEMMA LossStep ==
  ASSUME EntryInv, LossOwed, NEW e \in Entries, NEW r, Put(e, r),
         owed' => owed \/ Owes(r), owed' /\ Owes(entry[e]) => Owes(r)
  PROVE  LossOwed'
<1>1. entry'[e] = r /\ \A f \in Entries : f # e => entry'[f] = entry[f]
  BY DEF EntryInv, Types, Put
<1> QED BY <1>1 DEF LossOwed, Owes

\* Offering an event: an overflow is tallied.
LEMMA OfferLoss ==
  ASSUME EntryInv, LossOwed, NEW e \in Entries, Offer(e)
  PROVE  LossOwed'
<1>1. entry[e] \in EntryRecords
  BY DEF EntryInv, Types
<1>2. CASE Overflow(e)
  <2>1. PICK r : Put(e, r) /\ r = [entry[e] EXCEPT !.drop = TRUE]
    BY <1>2 DEF Overflow, NoteDrop
  <2>2. r.drop
    BY <1>1, <2>1 DEF EntryRecords
  <2> QED BY <2>1, <2>2, LossStep DEF Owes
<1>3. CASE Enqueue(e) \/ EnqueueGap(e)
  <2>1. PICK r : Put(e, r) /\ r = [entry[e] EXCEPT !.queue = entry[e].queue + 1]
    BY <1>3 DEF Enqueue, EnqueueGap
  <2>2. r.drop = entry[e].drop /\ r.job = entry[e].job /\ r.step = entry[e].step /\ owed' = owed
    BY <1>1, <1>3, <2>1 DEF EntryRecords, Enqueue, EnqueueGap
  <2> QED BY <2>1, <2>2, LossStep DEF Owes
<1> QED BY <1>2, <1>3 DEF Offer

\* The chain: the tally goes into a report, and back if that fails.
LEMMA DrainLoss ==
  ASSUME EntryInv, LossOwed, NEW e \in Entries, Drain(e)
  PROVE  LossOwed'
<1>1. entry[e] \in EntryRecords
  BY DEF EntryInv, Types
<1>2. CASE DrainNext(e)
  <2>0. owed' = owed /\ entry[e].step = "idle"
    BY <1>2 DEF DrainNext
  <2>1. PICK r : /\ Put(e, r)
                 /\ \/ r = [entry[e] EXCEPT !.drop = FALSE, !.job = "report", !.step = "append"]
                    \/ ~entry[e].drop /\ r = [entry[e] EXCEPT !.queue = entry[e].queue - 1, !.job = "event", !.step = "append"]
    BY <1>2 DEF DrainNext
  <2>2. CASE r = [entry[e] EXCEPT !.drop = FALSE, !.job = "report", !.step = "append"]
    <3>1. r.job = "report" /\ r.step = "append"
      BY <1>1, <2>2 DEF EntryRecords
    <3> QED BY <2>0, <2>1, <3>1, LossStep DEF Owes
  <2>3. CASE ~entry[e].drop
    BY <2>0, <2>1, <2>3, LossStep DEF Owes
  <2> QED BY <2>1, <2>2, <2>3
<1>3. CASE AfterReport(e)
  <2>0. owed' = owed /\ entry[e].step = "idle"
    BY <1>3 DEF AfterReport
  <2>1. PICK r : /\ Put(e, r)
                 /\ \/ r = [entry[e] EXCEPT !.job = "none"]
                    \/ r = [entry[e] EXCEPT !.queue = entry[e].queue - 1, !.job = "event", !.step = "append"]
    BY <1>3 DEF AfterReport
  <2>2. r.drop = entry[e].drop
    <3>1. CASE r = [entry[e] EXCEPT !.job = "none"]
      BY <1>1, <3>1 DEF EntryRecords
    <3>2. CASE r = [entry[e] EXCEPT !.queue = entry[e].queue - 1, !.job = "event", !.step = "append"]
      BY <1>1, <3>2 DEF EntryRecords
    <3> QED BY <2>1, <3>1, <3>2
  <2> QED BY <2>0, <2>1, <2>2, LossStep DEF Owes
<1>4. CASE AppendLands(e)
  <2>0. owed' = owed /\ entry[e].step \in {"append", "cut"}
    BY <1>4 DEF AppendLands
  <2>1. PICK s : Put(e, [entry[e] EXCEPT !.step = s]) /\ (entry[e].step = "append" => s = "landed")
    BY <1>4 DEF AppendLands
  <2> DEFINE r == [entry[e] EXCEPT !.step = s]
  <2>2. r.drop = entry[e].drop /\ r.job = entry[e].job /\ r.step = s
    BY <1>1 DEF EntryRecords
  <2> HIDE DEF r
  <2> QED BY <2>0, <2>1, <2>2, LossStep DEF Owes, r
<1>5. CASE AppendFails(e)
  <2>1. PICK r : /\ Put(e, r)
                 /\ \E s, j : r = [entry[e] EXCEPT !.drop = TRUE, !.step = s, !.job = j]
    BY <1>5 DEF AppendFails, DropAgain
  <2>2. r.drop
    BY <1>1, <2>1 DEF EntryRecords
  <2> QED BY <2>1, <2>2, LossStep DEF Owes
<1>6. CASE AppendReturns(e)
  <2>0. /\ owed' = (owed /\ (entry[e].step # "landed" \/ entry[e].job # "report" \/ entry[e].drop))
        /\ entry[e].step \in {"landed", "cutlanded"}
    BY <1>6 DEF AppendReturns
  <2>1. PICK s : Put(e, [entry[e] EXCEPT !.idx = Advance(entry[e].idx), !.size = entry[e].size + 1,
                           !.since = entry[e].since + 1, !.dirty = TRUE, !.step = s])
    BY <1>6 DEF AppendReturns
  <2> DEFINE i == Advance(entry[e].idx)  m == entry[e].size + 1  n == entry[e].since + 1
             r == [entry[e] EXCEPT !.idx = i, !.size = m, !.since = n, !.dirty = TRUE, !.step = s]
  <2>2. Put(e, r)
    BY <2>1
  <2> HIDE DEF i, m, n
  <2>3. r.drop = entry[e].drop
    BY <1>1 DEF EntryRecords
  <2> HIDE DEF r
  <2> QED BY <2>0, <2>2, <2>3, LossStep DEF Owes
<1>7. CASE Rotate(e)
  <2>0. owed' = owed /\ entry[e].step = "rotate"
    BY <1>7 DEF Rotate
  <2>1. PICK r : /\ Put(e, r)
                 /\ \/ \E i : r = [entry[e] EXCEPT !.step = "cut", !.size = 0, !.idx = i]
                    \/ r = [entry[e] EXCEPT !.step = "flush"]
    BY <1>7 DEF Rotate
  <2>2. r.drop = entry[e].drop
    <3>1. CASE \E i : r = [entry[e] EXCEPT !.step = "cut", !.size = 0, !.idx = i]
      BY <1>1, <3>1 DEF EntryRecords
    <3>2. CASE r = [entry[e] EXCEPT !.step = "flush"]
      BY <1>1, <3>2 DEF EntryRecords
    <3> QED BY <2>1, <3>1, <3>2
  <2> QED BY <2>0, <2>1, <2>2, LossStep DEF Owes
<1>8. CASE FlushOrArm(e)
  <2>0. owed' = owed /\ entry[e].step = "flush"
    BY <1>8 DEF FlushOrArm
  <2>1. PICK r : /\ Put(e, r)
                 /\ \/ r = [entry[e] EXCEPT !.step = "flushing", !.want = entry[e].want \cup {"drain"}]
                    \/ \E j : r = [entry[e] EXCEPT !.timer = TRUE, !.step = "idle", !.job = j]
    <3>1. \E j : EndJob([entry[e] EXCEPT !.timer = TRUE]) = [entry[e] EXCEPT !.timer = TRUE, !.step = "idle", !.job = j]
      BY <1>1 DEF EndJob, EntryRecords
    <3> QED BY <1>8, <3>1 DEF FlushOrArm
  <2>2. r.drop = entry[e].drop
    <3>1. CASE r = [entry[e] EXCEPT !.step = "flushing", !.want = entry[e].want \cup {"drain"}]
      BY <1>1, <3>1 DEF EntryRecords
    <3>2. CASE \E j : r = [entry[e] EXCEPT !.timer = TRUE, !.step = "idle", !.job = j]
      BY <1>1, <3>2 DEF EntryRecords
    <3> QED BY <2>1, <3>1, <3>2
  <2> QED BY <2>0, <2>1, <2>2, LossStep DEF Owes
<1> QED BY <1>2, <1>3, <1>4, <1>5, <1>6, <1>7, <1>8 DEF Drain, Append1

\* A snapshot that was written does not touch the tally.
LEMMA OutcomeLoss ==
  ASSUME EntryInv, LossOwed, NEW e \in Entries, NEW r, Outcome(e, r), Forgets(e)
  PROVE  LossOwed'
<1>1. Put(e, r) /\ entry'[e] = r
  BY DEF Outcome, Put, EntryInv, Types
<1>2. CASE r = NotInUse
  <2>1. entry[e].job = "none"
    BY <1>2 DEF Outcome
  <2>2. owed' => owed /\ ~entry[e].drop
    BY <1>1, <1>2 DEF Forgets
  <2> QED BY <1>1, <2>1, <2>2, LossStep DEF Owes
<1>3. CASE r # NotInUse
  <2>1. owed' => owed
    BY DEF Forgets
  <2>2. Owes(entry[e]) => Owes(r)
    BY <1>3 DEF Outcome, Owes
  <2> QED BY <1>1, <2>1, <2>2, LossStep
<1> QED BY <1>2, <1>3

\* Nor does one that is not.
LEMMA WriteLoss ==
  ASSUME EntryInv, LossOwed, Write
  PROVE  LossOwed'
<1>1. CASE \E e \in Entries, by \in Requests : SkipWrite(e, by)
  <2>1. PICK e \in Entries, by \in Requests : SkipWrite(e, by)
    BY <1>1
  <2>2. PICK r \in EntryRecords : Outcome(e, r)
    BY <2>1, SkipEntry
  <2> QED BY <2>1, <2>2, OutcomeLoss DEF SkipWrite
<1>2. CASE EndWrite
  <2>1. PICK e \in Entries : e = writing.e
    BY <1>2 DEF EntryInv, Types, EndWrite, WriteRecords
  <2>2. PICK r \in EntryRecords : Outcome(e, r)
    BY <1>2, <2>1, EndEntry
  <2>3. Forgets(e)
    BY <1>2, <2>1 DEF EndWrite
  <2> QED BY <2>2, <2>3, OutcomeLoss
<1>3. CASE \E e \in Entries, by \in Requests : StartWrite(e, by)
  <2>1. PICK e \in Entries, by \in Requests : StartWrite(e, by)
    BY <1>3
  <2>2. PICK r \in Left(e, by) : Put(e, r)
    BY <2>1 DEF StartWrite, Left
  <2>3. entry[e] \in EntryRecords
    BY DEF EntryInv, Types
  <2>4. r.drop = entry[e].drop /\ r.job = entry[e].job /\ r.step = entry[e].step
    BY <2>2, <2>3, TakingFacts
  <2>5. owed' = owed
    BY <2>1 DEF StartWrite
  <2> QED BY <2>2, <2>4, <2>5, LossStep DEF Owes
<1> QED BY <1>1, <1>2, <1>3 DEF Write

\* Entries that leave memory.
LEMMA MemoryLoss ==
  ASSUME EntryInv, LossOwed, NEW e \in Entries, Memory(e)
  PROVE  LossOwed'
<1>1. entry \in [Entries -> EntryRecords]
  BY DEF EntryInv, Types
<1>2. owed' = owed
  BY DEF Memory, Evict, Adopt, OpenFinish, Close, PurgeChain
<1>3. CASE ~OpenFinish(e)
  <2>1. PICK r : /\ Put(e, r)
                 /\ \/ r = [entry[e] EXCEPT !.at = "evicting", !.want = entry[e].want \cup {"evict"}]
                    \/ r = [entry[e] EXCEPT !.at = "resident"]
                    \/ r = [entry[e] EXCEPT !.want = entry[e].want \cup {"close"}]
                    \/ r = [Disarmed(entry[e]) EXCEPT !.at = "none"]
    BY <1>3 DEF Memory, Evict, Adopt, Close, PurgeChain
  <2>2. r.drop = entry[e].drop /\ r.job = entry[e].job /\ r.step = entry[e].step
    <3>1. CASE r = [entry[e] EXCEPT !.at = "evicting", !.want = entry[e].want \cup {"evict"}]
      BY <1>1, <3>1 DEF EntryRecords
    <3>2. CASE r = [entry[e] EXCEPT !.at = "resident"]
      BY <1>1, <3>2 DEF EntryRecords
    <3>3. CASE r = [entry[e] EXCEPT !.want = entry[e].want \cup {"close"}]
      BY <1>1, <3>3 DEF EntryRecords
    <3>4. CASE r = [Disarmed(entry[e]) EXCEPT !.at = "none"]
      BY <1>1, <3>4 DEF EntryRecords, Disarmed
    <3> QED BY <2>1, <3>1, <3>2, <3>3, <3>4
  <2> QED BY <1>2, <2>1, <2>2, LossStep DEF Owes
<1>4. CASE OpenFinish(e)
  <2>1. CASE Purging
    BY <1>2, <1>4, <2>1 DEF OpenFinish, LossOwed
  <2>2. CASE ~Purging
    <3>1. PICK r : Put(e, r)
      BY <1>4, <2>2 DEF OpenFinish
    <3>2. entry[e] = NotInUse
      BY <1>4 DEF OpenFinish, In, EntryInv, PurgeShuts, NothingBehind, Types
    <3>3. ~Owes(entry[e])
      BY <3>2 DEF NotInUse, Owes
    <3> QED BY <1>2, <3>1, <3>3, LossStep
  <2> QED BY <2>1, <2>2
<1> QED BY <1>3, <1>4

\* Openings, purges and crashes.
LEMMA OtherLoss ==
  ASSUME EntryInv, LossOwed, OpenStart \/ PurgeBegin \/ PurgeLoads \/ PurgeWrites \/ PurgeRemoves \/ Crash
  PROVE  LossOwed'
<1>1. entry \in [Entries -> EntryRecords]
  BY DEF EntryInv, Types
<1>2. CASE Crash
  BY <1>2 DEF Crash, LossOwed
<1>3. CASE ~Crash
  <2>1. owed' = owed
    BY <1>3 DEF OpenStart, PurgeBegin, PurgeLoads, PurgeWrites, PurgeRemoves
  <2>2. \A e \in Entries :
          /\ [entry[e] EXCEPT !.queue = 0].drop = entry[e].drop /\ [entry[e] EXCEPT !.queue = 0].job = entry[e].job
          /\ [entry[e] EXCEPT !.queue = 0].step = entry[e].step
          /\ [entry[e] EXCEPT !.at = "none"].drop = entry[e].drop /\ [entry[e] EXCEPT !.at = "none"].job = entry[e].job
          /\ [entry[e] EXCEPT !.at = "none"].step = entry[e].step
    BY <1>1 DEF EntryRecords
  <2>3. \A e \in Entries :
          entry'[e].drop = entry[e].drop /\ entry'[e].job = entry[e].job /\ entry'[e].step = entry[e].step
    BY <1>1, <1>3, <2>2 DEF OpenStart, PurgeBegin, PurgeLoads, PurgeWrites, PurgeRemoves
  <2> QED BY <2>1, <2>3 DEF LossOwed
<1> QED BY <1>2, <1>3

\* After the removal nothing writes (purgeSession).
LEMMA EmptyStep ==
  ASSUME EntryInv, Empty, LogNext
  PROVE  Empty'
<1>1. CASE purge = "gone"
  <2>1. /\ writing = NoWrite /\ opening = NoSnap
        /\ \A e \in Entries : entry[e].at = "none" /\ Idle(e) /\ entry[e].step = "idle"
    BY <1>1 DEF EntryInv, PurgeShuts, WorkInMemory, Idle
  <2>2. \A e \in Entries : ~Offer(e) /\ ~Drain(e)
    <3>1. \A e \in Entries : ~Offer(e)
      BY <1>1 DEF Offer, Enqueue, Overflow, EnqueueGap, Taken
    <3>2. ASSUME NEW e \in Entries, Drain(e)
          PROVE  ~Idle(e)
      <4>1. entry[e].queue > 0 \/ entry[e].step # "idle" \/ entry[e].job = "report"
        BY <3>2 DEF Drain, DrainNext, AfterReport, Append1, AppendLands, AppendFails, AppendReturns, Rotate, FlushOrArm
      <4> QED BY <4>1 DEF Idle
    <3> QED BY <2>1, <3>1, <3>2
  <2>3. ~Write
    <3>1. ASSUME NEW e \in Entries, NEW by \in Requests
          PROVE  ~Asked(e, by)
      BY <1>1, <2>1, AskedBy
    <3> QED BY <2>1, <3>1 DEF Write, SkipWrite, StartWrite, EndWrite
  <2>4. \A e \in Entries : ~Memory(e)
    BY <1>1, <2>1 DEF Memory, Evict, Adopt, OpenFinish, Close, PurgeChain, In
  <2>5. Crash
    BY <1>1, <2>2, <2>3, <2>4 DEF LogNext, OpenStart, PurgeBegin, PurgeLoads, PurgeWrites, PurgeRemoves
  <2>6. /\ UNCHANGED <<lines, cuts, snap, persisted>>
        /\ frag' \in {frag} \cup {\E e \in Entries : entry[e].step \in {"append", "cut"}}
    BY <2>5 DEF Crash
  <2>7. (\E e \in Entries : entry[e].step \in {"append", "cut"}) = FALSE
    BY <2>1
  <2> QED BY <1>1, <2>6, <2>7 DEF Empty, EntryInv, Types
<1>2. CASE purge # "gone"
  <2>1. purge' = "gone" => PurgeRemoves
    BY <1>2 DEF LogNext, Offer, Enqueue, Overflow, EnqueueGap, Drain, DrainNext, AfterReport, Append1, AppendLands,
      AppendFails, AppendReturns, Rotate, FlushOrArm, Write, SkipWrite, StartWrite, EndWrite, Memory, Evict, Adopt,
      OpenFinish, Close, PurgeChain, OpenStart, PurgeBegin, PurgeLoads, PurgeWrites, Crash
  <2> QED BY <2>1 DEF PurgeRemoves, Empty
<1> QED BY <1>1, <1>2

-----------------------------------------------------------------------------
(* The theorems                                                             *)

LogInv == EntryInv /\ FileShape /\ FileInv /\ LossOwed /\ Empty

\* Every step keeps the shape of the file.
LEMMA ShapeStep ==
  ASSUME EntryInv, EntryInv', FileShape, LogNext
  PROVE  FileShape'
<1>1. ShapeOK
  BY DEF ShapeOK, EntryInv, Types
<1>2. \/ UNCHANGED <<lines, cuts>>
      \/ cuts' = cuts /\ \E x : lines' = Append(lines, x)
      \/ lines' = lines /\ cuts' = Append(cuts, Len(lines))
      \/ lines' = <<>> /\ cuts' = <<>>
  <2>1. CASE \E e \in Entries : Offer(e)
    BY <2>1 DEF Offer, Enqueue, Overflow, EnqueueGap, disk
  <2>2. CASE \E e \in Entries : Drain(e)
    BY <2>2 DEF Drain, DrainNext, AfterReport, Append1, AppendLands, Lands, AppendFails, AppendReturns, Rotate,
      FlushOrArm, disk
  <2>3. CASE \E e \in Entries : Memory(e)
    BY <2>3 DEF Memory, Evict, Adopt, OpenFinish, Terminate, Close, PurgeChain, disk
  <2>4. CASE Write
    BY <2>4 DEF Write, SkipWrite, StartWrite, EndWrite, disk
  <2>5. CASE OpenStart \/ PurgeBegin \/ PurgeLoads \/ PurgeWrites \/ PurgeRemoves \/ Crash
    BY <2>5 DEF OpenStart, PurgeBegin, PurgeLoads, PurgeWrites, PurgeRemoves, Crash, disk
  <2> QED BY <2>1, <2>2, <2>3, <2>4, <2>5 DEF LogNext
<1>3. CASE UNCHANGED <<lines, cuts>>
  BY <1>3 DEF FileShape
<1>4. CASE cuts' = cuts /\ \E x : lines' = Append(lines, x)
  <2>1. PICK x : lines' = Append(lines, x)
    BY <1>4
  <2>2. x \in Lines
    <3>1. lines' \in Seq(Lines) /\ lines \in Seq(Lines)
      BY DEF EntryInv, Types
    <3>2. lines'[Len(lines) + 1] = x /\ Len(lines') = Len(lines) + 1 /\ Len(lines) \in Nat
      BY <2>1, <3>1
    <3>3. Len(lines) + 1 \in 1 .. Len(lines')
      BY <3>2
    <3> QED BY <3>1, <3>2, <3>3
  <2> QED BY <1>1, <1>4, <2>1, <2>2, GrownShape DEF ShapeOK
<1>5. CASE lines' = lines /\ cuts' = Append(cuts, Len(lines))
  BY <1>1, <1>5, CutThere DEF ShapeOK
<1>6. CASE lines' = <<>> /\ cuts' = <<>>
  <2>1. Len(lines') = 0 /\ Len(cuts') = 0
    BY <1>6
  <2> QED BY <2>1 DEF FileShape
<1> QED BY <1>2, <1>3, <1>4, <1>5, <1>6

\* Every step keeps EntryInv.
LEMMA EntryStep ==
  ASSUME Tame, EntryInv, FileShape, LogNext
  PROVE  EntryInv'
<1>1. CASE \E e \in Entries : Offer(e)
  BY <1>1, OfferEntry
<1>2. CASE \E e \in Entries : Drain(e)
  BY <1>2, DrainEntry
<1>3. CASE \E e \in Entries : Memory(e)
  BY <1>3, MemoryEntry, OpenEntry DEF Memory
<1>4. CASE Write
  BY <1>4, SkipEntry, StartEntry, EndEntry DEF Write
<1>5. CASE OpenStart \/ PurgeBegin \/ PurgeLoads \/ PurgeWrites \/ PurgeRemoves \/ Crash
  BY <1>5, OpenStarts, PurgeEntry, CrashEntry
<1> QED BY <1>1, <1>2, <1>3, <1>4, <1>5 DEF LogNext

\* Every step keeps FileInv.
LEMMA FileStep ==
  ASSUME Tame, EntryInv, EntryInv', FileShape, FileInv, LogNext
  PROVE  FileInv'
<1>0. ShapeOK
  BY DEF ShapeOK, EntryInv, Types
<1>1. CASE \E e \in Entries : Offer(e)
  BY <1>1, OfferFile
<1>2. CASE \E e \in Entries : Drain(e)
  BY <1>0, <1>2, QuietDrain, LandsFile, FailsFile, ReturnsFile, RotateFile DEF Drain, Append1
<1>3. CASE \E e \in Entries : Memory(e)
  BY <1>0, <1>3, MemoryFile, OpenFile DEF Memory
<1>4. CASE Write
  BY <1>4, WriteFile
<1>5. CASE OpenStart \/ PurgeBegin \/ PurgeLoads \/ PurgeWrites \/ PurgeRemoves \/ Crash
  BY <1>5, OpenStartFile, PurgeFile, CrashFile
<1> QED BY <1>1, <1>2, <1>3, <1>4, <1>5 DEF LogNext

\* The invariant holds at first.
LEMMA LogInit == Init => LogInv
<1> SUFFICES ASSUME Init
             PROVE  LogInv
  OBVIOUS
<1>1. NotInUse \in EntryRecords /\ Fresh \in IndexRecords
  BY DEF NotInUse, EntryRecords, IndexRecords, Fresh, Index
<1>2. /\ NotInUse.at = "none" /\ NotInUse.want = {} /\ ~NotInUse.timer /\ NotInUse.queue = 0
      /\ NotInUse.step = "idle" /\ NotInUse.job = "none" /\ NoWrite.by \notin {"close", "drain"}
  BY DEF NotInUse, NoWrite
<1>3. \A e \in Entries : entry[e] = NotInUse
  BY DEF Init
<1>4. Types
  <2>1. <<>> \in Seq(Lines) /\ <<>> \in Seq(Nat)
    OBVIOUS
  <2> QED BY <1>1, <2>1 DEF Init, Types
<1>5. WorkInMemory /\ OneInMemory /\ NothingBehind /\ LeavingWrites /\ PurgeShuts
  BY <1>2, <1>3 DEF Init, WorkInMemory, OneInMemory, NothingBehind, LeavingWrites, Idle, InMemory, PurgeShuts
<1>6. CloseIsIdle /\ DrainWaits
  BY <1>2, <1>3 DEF Init, CloseIsIdle, Closing, Idle, DrainWaits, WritingFor
<1>7. Len(lines) = 0 /\ Len(cuts) = 0
  BY DEF Init
<1>8. FileShape
  BY <1>7 DEF FileShape
<1>9. FileInv
  <2>1. SeqsIncrease /\ SavedCovers /\ MemoryCovers
    BY <1>2, <1>3, <1>7 DEF Init, SeqsIncrease, SavedCovers, MemoryCovers, InMemory
  <2>2. HeadReadable /\ CutIsClean /\ UnfinishedAtOpen /\ PersistedIsALine
    BY <1>2, <1>3 DEF Init, HeadReadable, CutIsClean, UnfinishedAtOpen, PersistedIsALine
  <2> QED BY <2>1, <2>2 DEF FileInv
<1>10. LossOwed /\ Empty
  BY DEF Init, LossOwed, Empty
<1> QED BY <1>4, <1>5, <1>6, <1>8, <1>9, <1>10 DEF LogInv, EntryInv

\* And while nothing happens.
LEMMA LogStays == LogInv /\ UNCHANGED lvars => LogInv'
<1> SUFFICES ASSUME LogInv, UNCHANGED lvars
             PROVE  LogInv'
  OBVIOUS
<1>1. EntryInv'
  BY DEF LogInv, lvars, EntryInv, Types, WorkInMemory, OneInMemory, NothingBehind, CloseIsIdle, DrainWaits,
    LeavingWrites, PurgeShuts, Idle, InMemory, Closing, WritingFor
<1>2. SavedCovers'
  BY SavedStill DEF LogInv, lvars
<1>3. FileInv'
  BY <1>1, <1>2, FileStill DEF LogInv, lvars, InMemory, HasLanded
<1>4. FileShape' /\ LossOwed' /\ Empty'
  BY DEF LogInv, lvars, FileShape, LossOwed, Empty
<1> QED BY <1>1, <1>3, <1>4 DEF LogInv

\* And after every step.
LEMMA LogStep ==
  ASSUME Tame
  PROVE  LogInv /\ [LogNext]_lvars => LogInv'
<1> SUFFICES ASSUME LogInv, LogNext
             PROVE  LogInv'
  BY LogStays
<1>1. EntryInv'
  BY EntryStep DEF LogInv
<1>2. FileShape'
  BY <1>1, ShapeStep DEF LogInv
<1>3. FileInv'
  BY <1>1, FileStep DEF LogInv
<1>4. LossOwed'
  BY OfferLoss, DrainLoss, MemoryLoss, WriteLoss, OtherLoss DEF LogInv, LogNext
<1>5. Empty'
  BY EmptyStep DEF LogInv
<1> QED BY <1>1, <1>2, <1>3, <1>4, <1>5 DEF LogInv

\* So it always holds.
LEMMA LogAlways ==
  ASSUME Tame
  PROVE  LogSpec => []LogInv
BY LogInit, LogStep, PTL DEF LogSpec

\* What was announced, from the first seq the index knows, is in the file.
LEMMA AnnouncedIsThere == LogInv => PersistedIsInFile
<1> SUFFICES ASSUME LogInv, NEW e \in Entries, InMemory(e), entry[e].idx.first # 0,
                    NEW s \in persisted \ Glued, s >= entry[e].idx.first
             PROVE  s \in SeqsFrom(1)
  BY DEF PersistedIsInFile
<1>1. ShapeOK
  BY DEF LogInv, ShapeOK, EntryInv, Types
<1>2. FileFrom \in Nat /\ Len(lines) \in Nat /\ FileFrom = Begin(Len(cuts))
  BY <1>1, ShapeFacts DEF ShapeOK
<1>3. PICK i \in 1 .. Len(lines) : lines[i].seq = s /\ (Readable(lines[i]) \/ "partial" \in world)
  BY DEF LogInv, FileInv, PersistedIsALine
<1>4. Readable(lines[i])
  BY <1>3 DEF Glued
<1>5. Covers(entry[e].idx) /\ entry[e].idx.cut = Len(cuts)
  BY DEF LogInv, FileInv, MemoryCovers, Fits
<1>6. i \in 1 .. FileFrom => lines[i].seq < entry[e].idx.first
  BY <1>2, <1>4, <1>5 DEF Covers
<1>7. entry[e].idx.first \in Nat /\ s \in Nat
  BY Typed DEF LogInv, IndexRecords, EntryInv, Types
<1>8. i >= FileFrom + 1
  BY <1>2, <1>3, <1>6, <1>7
<1> QED BY <1>1, <1>3, <1>4, <1>8, SeqsOfFile DEF ShapeOK

\* seq is strictly increasing in a conversation, whatever is evicted, closed,
\* reopened, torn or lost in between (store.ts: nextSeq, recoverFromFile,
\* rotate).
THEOREM SeqsAlwaysIncrease == Tame /\ LogSpec => []SeqsIncrease
<1>1. LogInv => SeqsIncrease
  BY DEF LogInv, FileInv
<1>2. ASSUME Tame PROVE LogSpec => []SeqsIncrease
  BY <1>1, <1>2, LogAlways, PTL
<1> QED BY <1>2

\* No append and no end of an unfinished line fails half way.
NothingTorn == \A w \in Worlds : "partial" \notin w
\* PersistedIsInFile without its exception.
AllPersistedInFile ==
  \A e \in Entries : InMemory(e) /\ entry[e].idx.first # 0 =>
    {s \in persisted : s >= entry[e].idx.first} \subseteq SeqsFrom(1)

\* While a conversation is in memory and its index knows the first seq it
\* retains, every seq from there on that the listeners were told is persisted
\* can be read from the current file, but for one whose line is glued to a line
\* a failed append left unfinished; and where no append fails half way, for
\* none: a crash in the middle of a line costs nothing that was announced
\* (store.ts: appendOne announces after appendFile returned).
THEOREM PersistedReadableUnlessGlued ==
  Tame /\ LogSpec => []PersistedIsInFile /\ (NothingTorn => []AllPersistedInFile)
<1>1. ASSUME Tame PROVE LogSpec => []PersistedIsInFile
  BY <1>1, AnnouncedIsThere, LogAlways, PTL
<1>2. ASSUME NothingTorn PROVE LogInv => AllPersistedInFile
  <2> SUFFICES ASSUME LogInv PROVE AllPersistedInFile
    OBVIOUS
  <2>1. Glued = {}
    BY <1>2 DEF Glued, NothingTorn, LogInv, EntryInv, Types
  <2>2. PersistedIsInFile
    BY AnnouncedIsThere
  <2>3. persisted \ Glued = persisted
    BY <2>1
  <2> QED BY <2>2, <2>3 DEF PersistedIsInFile, AllPersistedInFile
<1>3. ASSUME Tame, NothingTorn PROVE LogSpec => []AllPersistedInFile
  BY <1>2, <1>3, LogAlways, PTL
<1> QED BY <1>1, <1>3

\* How a loss may stop being owed: the report was written with nothing dropped
\* since, or the tally went with an entry evicted or closed before reporting it,
\* or the process died.
ReportWritten ==
  \E e \in Entries : entry[e].job = "report" /\ entry[e].step = "landed" /\ ~entry[e].drop
TallyLeaves == \E e \in Entries : entry[e].drop /\ entry'[e] = NotInUse

\* What a step that ends a loss is.
LEMMA LossEnds ==
  ASSUME EntryInv, LogNext, owed, ~owed'
  PROVE  ReportWritten \/ TallyLeaves \/ Crash
<1> USE DEF ReportWritten, TallyLeaves
<1>1. CASE \E e \in Entries : Offer(e) \/ Drain(e)
  BY <1>1 DEF Offer, Enqueue, Overflow, EnqueueGap, Drain, DrainNext, AfterReport, Append1,
     AppendLands, AppendFails, AppendReturns, Rotate, FlushOrArm
<1>2. CASE \E e \in Entries : Memory(e)
  BY <1>2 DEF Memory, Evict, Adopt, OpenFinish, Close, PurgeChain
<1>3. CASE Write
  <2>1. ASSUME NEW e \in Entries, Forgets(e) PROVE TallyLeaves
    BY <2>1 DEF Forgets
  <2>2. ASSUME NEW e \in Entries, NEW by \in Requests, SkipWrite(e, by) \/ StartWrite(e, by)
        PROVE  TallyLeaves
    BY <2>1, <2>2 DEF SkipWrite, StartWrite
  <2>3. ASSUME EndWrite PROVE TallyLeaves
    <3>1. Forgets(writing.e) /\ writing # NoWrite
      BY <2>3 DEF EndWrite
    <3>2. writing.e \in Entries
      BY <3>1 DEF EntryInv, Types, WriteRecords
    <3> QED BY <2>1, <3>1, <3>2
  <2> QED BY <1>3, <2>2, <2>3 DEF Write
<1>4. CASE OpenStart \/ PurgeBegin \/ PurgeLoads \/ PurgeWrites \/ PurgeRemoves
  BY <1>4 DEF OpenStart, PurgeBegin, PurgeLoads, PurgeWrites, PurgeRemoves
<1> QED BY <1>1, <1>2, <1>3, <1>4 DEF LogNext

\* While the process lives and no entry leaves memory with a tally, a loss is in
\* a tally, or in the report being written, until a report was written: however
\* often that write fails, and whatever is dropped meanwhile. A tally whose
\* entry is evicted or closed first is not reported (store.ts: noteDrop,
\* drainQueue, evictIfNeeded).
THEOREM LossKeptUntilReportedOrEvicted ==
  Tame /\ LogSpec => []LossKept /\ [][owed /\ ~owed' => ReportWritten \/ TallyLeaves \/ Crash]_lvars
<1>1. LogInv => LossKept
  BY DEF LogInv, LossOwed, LossKept
<1>2. LogInv /\ [LogNext]_lvars => [owed /\ ~owed' => ReportWritten \/ TallyLeaves \/ Crash]_lvars
  BY LossEnds DEF lvars, LogInv
<1>3. ASSUME Tame
      PROVE  LogSpec => []LossKept /\ [][owed /\ ~owed' => ReportWritten \/ TallyLeaves \/ Crash]_lvars
  BY <1>1, <1>2, <1>3, LogAlways, PTL DEF LogSpec
<1> QED BY <1>3

\* A purge leaves nothing on disk, and no late append, snapshot or load
\* brings anything back (store.ts: purgeSession).
THEOREM PurgedAlwaysEmpty == Tame /\ LogSpec => []PurgedStaysEmpty
<1>1. LogInv => PurgedStaysEmpty
  BY DEF LogInv, Empty, PurgedStaysEmpty
<1>2. ASSUME Tame PROVE LogSpec => []PurgedStaysEmpty
  BY <1>1, <1>2, LogAlways, PTL
<1> QED BY <1>2
=============================================================================
