---------------------- MODULE ConversationStreamProofs ----------------------
(***************************************************************************)
(* What the stream promises one browser, for any budgets, any number of    *)
(* lines, rotations, lost connections and reopenings.                      *)
(*                                                                         *)
(* FileInv: one entry is at work and nothing is lost, so a line's seq is   *)
(* its place in the file, and the listeners were told of all but the last. *)
(* StreamInv: what the wire carries is in order, and the subscription in   *)
(* the map has sent its events up to its `last`; it gives WireInOrder.     *)
(* FairInv: whatever frame comes next, the view has what precedes it, or   *)
(* is told of it by a frame before it, or it was rotated away; it gives    *)
(* NoSilentHole where the view opens from the page it just read.           *)
(* BudgetInv: what is held and what is buffered stay within the budgets.   *)
(***************************************************************************)
EXTENDS ConversationStream, Integers, SequenceTheorems, FiniteSetTheorems, TLAPS

-----------------------------------------------------------------------------
(* The file.                                                                *)

IndexRecords == [last : Nat, off : Nat, cut : Nat, first : Nat]
EntryRecords ==
  [at : {"none", "resident"}, idx : IndexRecords, queue : Nat, job : {"none", "event"},
   step : {"idle", "append", "landed", "cut", "cutlanded", "rotate", "flush", "flushing"},
   drop : BOOLEAN, dirty : BOOLEAN, since : Nat, timer : BOOLEAN, size : Nat, want : SUBSET Requests]
Lines == [seq : Nat, kind : {"event", "rotated"}]

\* What the listeners were told of ends here; a line more may have landed.
Announced == entry[1].idx.last
HasLanded == entry[1].step \in {"landed", "cutlanded"}

\* A file begins after its cut and ends at the next one.
Begin(cs, k) == IF k = 0 THEN 0 ELSE cs[k]
End(cs, n, k) == IF k < Len(cs) THEN cs[k + 1] ELSE n

LogTypes ==
  /\ entry \in [Entries -> EntryRecords] /\ entry[1].at = "resident" /\ entry[1].drop = FALSE
  /\ entry[2] = NotInUse
  /\ lines \in Seq(Lines) /\ cuts \in Seq(Nat) /\ frag = FALSE

\* One entry and nothing lost: the seqs are the places in the file.
Numbered == \A i \in 1..Len(lines) : lines[i].seq = i
Heads ==
  \A k \in 1..Len(cuts) :
    /\ cuts[k] <= FileFrom
    /\ cuts[k] < Len(lines) => lines[cuts[k] + 1].kind = "rotated"
IndexFollows ==
  /\ Len(lines) = Announced + (IF HasLanded THEN 1 ELSE 0)
  /\ persisted = 1..Announced
  /\ FileFrom <= Len(lines)
  /\ entry[1].step = "cut" <=> FileFrom = Len(lines)
  /\ entry[1].step = "cutlanded" => FileFrom = Announced
  /\ entry[1].idx.first = IF entry[1].step \in {"cut", "cutlanded"} THEN 0 ELSE FileFrom + 1

FileInv == LogTypes /\ Numbered /\ Heads /\ IndexFollows

\* What the log only adds to.
Grows ==
  /\ Len(lines) <= Len(lines') /\ \A i \in 1..Len(lines) : lines'[i] = lines[i]
  /\ Len(cuts) <= Len(cuts') /\ \A k \in 1..Len(cuts) : cuts'[k] = cuts[k]
  /\ FileFrom <= FileFrom'
  /\ \A k \in 0..Len(cuts) : End(cuts, Len(lines), k) <= End(cuts', Len(lines'), k)

LEMMA FromFacts ==
  ASSUME cuts \in Seq(Nat)
  PROVE  FileFrom = Begin(cuts, Len(cuts)) /\ FileFrom \in Nat
BY DEF FileFrom, Begin, Last

LEMMA PutFirst ==
  ASSUME LogTypes, NEW r \in EntryRecords, Put(1, r)
  PROVE  entry'[1] = r /\ entry'[2] = NotInUse /\ entry' \in [Entries -> EntryRecords]
<1>1. 1 \in Entries /\ 2 \in Entries
  BY DEF Entries
<1>2. entry \in [Entries -> EntryRecords] /\ entry[2] = NotInUse /\ entry' = [entry EXCEPT ![1] = r]
  BY DEF LogTypes, Put
<1>3. entry' \in [Entries -> EntryRecords] /\ entry'[1] = r /\ entry'[2] = entry[2]
  BY <1>1, <1>2
<1> QED
  BY <1>2, <1>3

\* The types of the entry at work.
LEMMA FirstEntry ==
  ASSUME FileInv
  PROVE  /\ entry[1] \in EntryRecords /\ entry[1].at = "resident" /\ entry[2] = NotInUse
         /\ entry[1].idx \in IndexRecords /\ entry[1].queue \in Nat /\ entry[1].size \in Nat
         /\ entry[1].since \in Nat /\ entry[1].drop = FALSE /\ entry[1].job \in {"none", "event"}
         /\ entry[1].want \in SUBSET Requests
         /\ Announced \in Nat /\ Len(lines) \in Nat /\ FileFrom \in Nat
<1>1. entry[1] \in EntryRecords
  BY DEF FileInv, LogTypes, Entries
<1>2. entry[1].idx \in IndexRecords
  BY <1>1 DEF EntryRecords
<1>3. Announced \in Nat
  BY <1>2 DEF IndexRecords, Announced
<1>4. entry[1].queue \in Nat /\ entry[1].size \in Nat /\ entry[1].since \in Nat
  BY <1>1 DEF EntryRecords
<1>5. entry[1].job \in {"none", "event"} /\ entry[1].want \in SUBSET Requests
  BY <1>1 DEF EntryRecords
<1>7. entry[1].drop = FALSE
  BY DEF FileInv, LogTypes
<1>6. Len(lines) \in Nat /\ FileFrom \in Nat /\ entry[1].at = "resident" /\ entry[2] = NotInUse
  BY FromFacts DEF FileInv, LogTypes
<1> QED
  BY <1>1, <1>2, <1>3, <1>4, <1>5, <1>6, <1>7

\* A step that only changes the entry, and not what the file says of it.
LEMMA EntryMoves ==
  ASSUME FileInv, NEW r \in EntryRecords, Put(1, r), UNCHANGED <<disk, persisted>>,
         r.at = "resident", r.drop = FALSE, r.idx = entry[1].idx,
         r.step \in {"landed", "cutlanded"} <=> HasLanded,
         r.step = "cut" <=> entry[1].step = "cut",
         r.step = "cutlanded" <=> entry[1].step = "cutlanded"
  PROVE  FileInv' /\ Announced' = Announced
<1>1. entry'[1] = r /\ entry'[2] = NotInUse /\ entry' \in [Entries -> EntryRecords]
  BY PutFirst DEF FileInv
<1>2. FileFrom' = FileFrom
  BY DEF FileFrom, disk
<1>3. LogTypes'
  BY <1>1 DEF FileInv, LogTypes, disk
<1>4. Numbered' /\ Heads'
  BY <1>2 DEF FileInv, Numbered, Heads, disk
<1>5. IndexFollows'
  BY <1>1, <1>2 DEF FileInv, IndexFollows, Announced, HasLanded, disk
<1> QED
  BY <1>1, <1>3, <1>4, <1>5 DEF FileInv, Announced

LEMMA StillGrows == FileInv /\ UNCHANGED disk => Grows
<1> SUFFICES ASSUME FileInv, UNCHANGED disk PROVE Grows
  OBVIOUS
<1>1. lines' = lines /\ cuts' = cuts
  BY DEF disk
<1>2. FileFrom' = FileFrom /\ FileFrom \in Nat
  BY <1>1, FromFacts DEF FileFrom, FileInv, LogTypes
<1>3. \A k \in 0..Len(cuts) : End(cuts, Len(lines), k) \in Nat
  BY DEF End, FileInv, LogTypes
<1> QED
  BY <1>1, <1>2, <1>3 DEF Grows, FileInv, LogTypes

\* The only entry that is at work is the first.
LEMMA OnlyOne ==
  ASSUME FileInv, NEW e \in Entries, entry[e].step # "idle" \/ entry[e].queue > 0 \/ In(e, "resident")
  PROVE  e = 1
BY DEF FileInv, LogTypes, Entries, NotInUse, In

LEMMA EnqueueFile ==
  ASSUME FileInv, NEW e \in Entries, Enqueue(e)
  PROVE  FileInv' /\ Grows /\ Announced' = Announced
<1>1. e = 1
  BY OnlyOne DEF Enqueue, Taken
<1> DEFINE r == [entry[1] EXCEPT !.queue = @ + 1]
<1>2. entry[1] \in EntryRecords /\ entry[1].at = "resident" /\ entry[1].drop = FALSE
  BY FirstEntry
<1>3. r \in EntryRecords
  BY <1>2 DEF EntryRecords
<1>4. r.at = "resident" /\ r.drop = FALSE /\ r.idx = entry[1].idx /\ r.step = entry[1].step
  BY <1>2 DEF EntryRecords
<1>5. Put(1, r) /\ UNCHANGED <<disk, persisted>>
  BY <1>1 DEF Enqueue
<1> HIDE DEF r
<1>6. FileInv' /\ Announced' = Announced
  BY <1>3, <1>4, <1>5, EntryMoves DEF HasLanded
<1> QED
  BY <1>5, <1>6, StillGrows

LEMMA DrainFile ==
  ASSUME FileInv, NEW e \in Entries, DrainNext(e)
  PROVE  FileInv' /\ Grows /\ Announced' = Announced
<1>1. e = 1
  BY OnlyOne DEF DrainNext
<1> DEFINE r == [entry[1] EXCEPT !.queue = @ - 1, !.job = "event", !.step = "append"]
<1>2. entry[1] \in EntryRecords /\ entry[1].at = "resident"
      /\ entry[1].drop = FALSE
      /\ entry[1].step = "idle" /\ entry[1].queue > 0 /\ entry[1].queue - 1 \in Nat
  <2>1. entry[1].queue \in Nat /\ entry[1].queue > 0 /\ entry[1].step = "idle"
    BY <1>1, FirstEntry DEF DrainNext
  <2>2. entry[1].queue - 1 \in Nat
    BY <2>1
  <2> QED
    BY <2>1, <2>2, FirstEntry
<1>3. r \in EntryRecords /\ r.at = "resident" /\ r.drop = FALSE /\ r.idx = entry[1].idx /\ r.step = "append"
  BY <1>2 DEF EntryRecords
<1>4. Put(1, r) /\ UNCHANGED <<disk, persisted>>
  BY <1>1, <1>2 DEF DrainNext
<1> HIDE DEF r
<1>5. FileInv' /\ Announced' = Announced
  BY <1>2, <1>3, <1>4, EntryMoves DEF HasLanded
<1> QED
  BY <1>4, <1>5, StillGrows

LEMMA FlushFile ==
  ASSUME FileInv, NEW e \in Entries, FlushOrArm(e)
  PROVE  FileInv' /\ Grows /\ Announced' = Announced
<1>1. e = 1
  BY OnlyOne DEF FlushOrArm
<1> DEFINE r == IF entry[1].since >= FlushEvery
                THEN [entry[1] EXCEPT !.step = "flushing", !.want = @ \cup {"drain"}]
                ELSE EndJob([entry[1] EXCEPT !.timer = TRUE])
<1>2. entry[1] \in EntryRecords /\ entry[1].at = "resident" /\ entry[1].drop = FALSE /\ entry[1].step = "flush"
  BY <1>1, FirstEntry DEF FlushOrArm
<1>3. r \in EntryRecords /\ r.at = "resident" /\ r.drop = FALSE /\ r.idx = entry[1].idx /\ r.step \in {"idle", "flushing"}
  BY <1>2 DEF EntryRecords, EndJob, Requests
<1>4. Put(1, r) /\ UNCHANGED <<disk, persisted>>
  BY <1>1 DEF FlushOrArm
<1> HIDE DEF r
<1>5. FileInv' /\ Announced' = Announced
  BY <1>2, <1>3, <1>4, EntryMoves DEF HasLanded
<1> QED
  BY <1>4, <1>5, StillGrows

LEMMA LandsInFile ==
  ASSUME FileInv, NEW e \in Entries, AppendLands(e)
  PROVE  FileInv' /\ Grows /\ Announced' = Announced
<1>1. e = 1
  BY OnlyOne DEF AppendLands
<1> DEFINE r == [entry[1] EXCEPT !.step = IF @ = "cut" THEN "cutlanded" ELSE "landed"]
           l == Line(Announced + 1, KindOf(1))
<1>2. entry[1] \in EntryRecords /\ entry[1].at = "resident" /\ entry[1].drop = FALSE /\ entry[1].step \in {"append", "cut"}
      /\ Announced \in Nat /\ entry[2] = NotInUse
  BY <1>1, FirstEntry DEF AppendLands
<1>3. /\ r \in EntryRecords /\ r.at = "resident" /\ r.drop = FALSE /\ r.idx = entry[1].idx
      /\ r.step = IF entry[1].step = "cut" THEN "cutlanded" ELSE "landed"
  BY <1>2 DEF EntryRecords
<1>4. l \in Lines /\ l.seq = Announced + 1 /\ (entry[1].step = "cut" => l.kind = "rotated")
  BY <1>2, FirstEntry DEF Lines, Line, KindOf
<1>5. /\ lines' = Append(lines, l) /\ cuts' = cuts /\ frag' = FALSE /\ persisted' = persisted
      /\ Put(1, r)
  BY <1>1 DEF AppendLands, Lands, FileInv, LogTypes, NextSeq, Announced
<1>6. /\ entry'[1] = r /\ entry'[2] = NotInUse /\ entry' \in [Entries -> EntryRecords]
  BY <1>3, <1>5, PutFirst DEF FileInv
<1> HIDE DEF r, l
<1>7. /\ Len(lines') = Len(lines) + 1 /\ lines' \in Seq(Lines) /\ lines'[Len(lines) + 1] = l
      /\ \A i \in 1..Len(lines) : lines'[i] = lines[i]
  BY <1>4, <1>5, AppendProperties DEF FileInv, LogTypes
<1>8. FileFrom' = FileFrom /\ FileFrom \in Nat
  BY <1>5, FromFacts DEF FileFrom, FileInv, LogTypes
<1>9. Len(lines) \in Nat /\ Len(lines) = Announced /\ Announced' = Announced
  BY <1>2, <1>3, <1>6 DEF FileInv, LogTypes, IndexFollows, HasLanded, Announced
<1>10. LogTypes'
  BY <1>3, <1>5, <1>6, <1>7 DEF FileInv, LogTypes
<1>11. Numbered'
  BY <1>4, <1>7, <1>9 DEF FileInv, Numbered
<1>12. Heads'
  <2> SUFFICES ASSUME NEW k \in 1..Len(cuts)
               PROVE  cuts[k] <= FileFrom /\ (cuts[k] < Len(lines) + 1 => lines'[cuts[k] + 1].kind = "rotated")
    BY <1>5, <1>7, <1>8 DEF Heads
  <2>1. cuts[k] \in Nat /\ cuts[k] <= FileFrom /\ (cuts[k] < Len(lines) => lines[cuts[k] + 1].kind = "rotated")
    BY DEF FileInv, LogTypes, Heads
  <2>2. CASE cuts[k] < Len(lines)
    <3>1. lines'[cuts[k] + 1] = lines[cuts[k] + 1]
      BY <1>7, <1>9, <2>1, <2>2
    <3> QED
      BY <2>1, <2>2, <3>1
  <2>3. CASE cuts[k] = Len(lines)
    <3>1. FileFrom = Len(lines)
      BY <1>8, <1>9, <2>1, <2>3 DEF FileInv, IndexFollows
    <3>2. entry[1].step = "cut"
      BY <3>1 DEF FileInv, IndexFollows
    <3> QED
      BY <1>4, <1>7, <2>1, <2>3, <3>2
  <2> QED
    BY <1>8, <1>9, <2>1, <2>2, <2>3
<1>13. IndexFollows'
  BY <1>2, <1>3, <1>5, <1>6, <1>7, <1>8, <1>9 DEF FileInv, IndexFollows, HasLanded, Announced
<1>14. Grows
  <2>1. \A k \in 0..Len(cuts) : End(cuts, Len(lines), k) <= End(cuts', Len(lines'), k)
    BY <1>5, <1>7, <1>9 DEF End, FileInv, LogTypes
  <2> QED
    BY <1>5, <1>7, <1>8, <1>9, <2>1 DEF Grows, FileInv, LogTypes
<1> QED
  BY <1>9, <1>10, <1>11, <1>12, <1>13, <1>14 DEF FileInv

LEMMA RotateInFile ==
  ASSUME FileInv, NEW e \in Entries, Rotate(e)
  PROVE  FileInv' /\ Grows /\ Announced' = Announced
<1>1. e = 1
  BY OnlyOne DEF Rotate
<1>2. entry[1] \in EntryRecords /\ entry[1].at = "resident" /\ entry[1].drop = FALSE /\ entry[1].step = "rotate"
      /\ Announced \in Nat /\ entry[2] = NotInUse
  BY <1>1, FirstEntry DEF Rotate
<1>3. CASE UNCHANGED disk /\ Put(1, [entry[1] EXCEPT !.step = "flush"])
  <2> DEFINE r == [entry[1] EXCEPT !.step = "flush"]
  <2>1. r \in EntryRecords /\ r.at = "resident" /\ r.drop = FALSE /\ r.idx = entry[1].idx /\ r.step = "flush"
    BY <1>2 DEF EntryRecords
  <2>2. persisted' = persisted
    BY DEF Rotate
  <2> HIDE DEF r
  <2>3. FileInv' /\ Announced' = Announced
    BY <1>2, <1>3, <2>1, <2>2, EntryMoves DEF HasLanded, r
  <2> QED
    BY <1>3, <2>3, StillGrows
<1>4. CASE /\ cuts' = Append(cuts, Len(lines)) /\ frag' = FALSE /\ UNCHANGED lines
           /\ Put(1, [entry[1] EXCEPT !.step = "cut", !.size = 0, !.idx = Index(@.last, 0, Len(cuts'), 0)])
  <2> DEFINE r == [entry[1] EXCEPT !.step = "cut", !.size = 0, !.idx = Index(@.last, 0, Len(cuts'), 0)]
  <2>1. cuts \in Seq(Nat) /\ Len(lines) \in Nat /\ lines \in Seq(Lines)
    BY DEF FileInv, LogTypes
  <2>2. /\ cuts' \in Seq(Nat) /\ Len(cuts') = Len(cuts) + 1 /\ cuts'[Len(cuts) + 1] = Len(lines)
        /\ \A k \in 1..Len(cuts) : cuts'[k] = cuts[k]
    BY <1>4, <2>1, AppendProperties
  <2> DEFINE x == Index(entry[1].idx.last, 0, Len(cuts'), 0)
  <2>a. x \in IndexRecords /\ x.last = Announced /\ x.first = 0
    BY <1>2, <2>2 DEF IndexRecords, Index, Announced
  <2>b. r = [entry[1] EXCEPT !.step = "cut", !.size = 0, !.idx = x]
    OBVIOUS
  <2> HIDE DEF x, r
  <2>3. r \in EntryRecords /\ r.at = "resident" /\ r.drop = FALSE /\ r.idx.last = Announced /\ r.idx.first = 0 /\ r.step = "cut"
    BY <1>2, <2>a, <2>b DEF EntryRecords
  <2>4. entry'[1] = r /\ entry'[2] = NotInUse /\ entry' \in [Entries -> EntryRecords]
    BY <1>4, <2>3, PutFirst DEF FileInv, r
  <2>5. persisted' = persisted /\ lines' = lines /\ frag' = FALSE
    BY <1>4 DEF Rotate
  <2>6. FileFrom' = Len(lines) /\ FileFrom <= Len(lines) /\ FileFrom \in Nat
    BY <2>1, <2>2, FromFacts DEF FileFrom, Last, FileInv, IndexFollows
  <2>7. Announced' = Announced /\ Len(lines) = Announced
    BY <1>2, <2>3, <2>4 DEF FileInv, IndexFollows, HasLanded, Announced
  <2>8. LogTypes'
    BY <2>1, <2>2, <2>3, <2>4, <2>5 DEF LogTypes
  <2>9. Numbered'
    BY <2>5 DEF FileInv, Numbered
  <2>10. Heads'
    BY <2>1, <2>2, <2>5, <2>6, SMTT(30) DEF FileInv, Heads
  <2>11. IndexFollows'
    BY <1>2, <2>3, <2>4, <2>5, <2>6, <2>7 DEF FileInv, IndexFollows, HasLanded, Announced
  <2>12. \A k \in 0..Len(cuts) : End(cuts, Len(lines), k) <= End(cuts', Len(lines'), k)
    <3> TAKE k \in 0..Len(cuts)
    <3>1. CASE k < Len(cuts)
      <4>1. k + 1 \in 1..Len(cuts) /\ k < Len(cuts')
        BY <2>1, <2>2, <3>1
      <4>2. cuts'[k + 1] = cuts[k + 1] /\ cuts[k + 1] \in Nat
        BY <2>1, <2>2, <4>1, SMTT(30)
      <4> QED BY <3>1, <4>1, <4>2 DEF End
    <3>2. CASE ~(k < Len(cuts))
      <4>1. k = Len(cuts) /\ k < Len(cuts') /\ cuts'[k + 1] = Len(lines)
        BY <2>1, <2>2, <3>2
      <4> QED BY <2>1, <3>2, <4>1 DEF End
    <3> QED BY <3>1, <3>2
  <2>13. Grows
    BY <2>1, <2>2, <2>5, <2>6, <2>12 DEF Grows
  <2> QED
    BY <2>7, <2>8, <2>9, <2>10, <2>11, <2>13 DEF FileInv
<1> QED
  BY <1>1, <1>3, <1>4 DEF Rotate

\* What the listeners hear of is the next line, and it is there.
LEMMA ReturnsInFile ==
  ASSUME FileInv, NEW e \in Entries, AppendReturns(e)
  PROVE  /\ FileInv' /\ UNCHANGED disk /\ Announced' = Announced + 1
         /\ Last(lines) = lines[Announced + 1] /\ Announced + 1 = Len(lines)
<1>1. e = 1
  BY OnlyOne DEF AppendReturns
<1> DEFINE x == entry[1]
           r == [x EXCEPT !.idx = Advance(@), !.size = @ + 1, !.since = @ + 1, !.dirty = TRUE,
                          !.step = IF x.size + 1 >= FileLines THEN "rotate" ELSE "flush"]
<1>2. entry[1] \in EntryRecords /\ entry[1].at = "resident" /\ entry[1].drop = FALSE /\ HasLanded
      /\ Announced \in Nat /\ entry[2] = NotInUse /\ Len(lines) \in Nat
  BY <1>1, FirstEntry DEF AppendReturns, HasLanded
<1>3. Len(lines) = Announced + 1
  BY <1>2 DEF FileInv, IndexFollows
<1>4. FileFrom \in Nat
  BY FromFacts DEF FileInv, LogTypes
<1>5. /\ entry[1].idx.first = IF entry[1].step = "cutlanded" THEN 0 ELSE FileFrom + 1
      /\ FileFrom < Len(lines) /\ entry[1].step # "cut"
  BY <1>2, <1>4 DEF FileInv, IndexFollows, HasLanded
<1>6. entry[1].idx \in IndexRecords /\ entry[1].size \in Nat /\ entry[1].since \in Nat
  BY FirstEntry
<1>7. entry[1].step = "cutlanded" => FileFrom = Announced
  BY DEF FileInv, IndexFollows
<1>8. /\ r \in EntryRecords /\ r.at = "resident" /\ r.drop = FALSE /\ r.step \in {"rotate", "flush"}
      /\ r.idx = Advance(entry[1].idx)
  <2> DEFINE y == Advance(entry[1].idx)
             s == IF x.size + 1 >= FileLines THEN "rotate" ELSE "flush"
             z == x.size + 1
             n == x.since + 1
  <2>1. y \in IndexRecords /\ s \in {"rotate", "flush"} /\ z \in Nat /\ n \in Nat
    BY <1>6 DEF IndexRecords, Advance, Index
  <2>2. r = [x EXCEPT !.idx = y, !.size = z, !.since = n, !.dirty = TRUE, !.step = s]
    OBVIOUS
  <2>3. x \in EntryRecords /\ x.at = "resident" /\ x.drop = FALSE
    BY <1>2
  <2> HIDE DEF x, y, s, z, n, r
  <2>4. r \in EntryRecords /\ r.at = "resident" /\ r.drop = x.drop /\ r.step = s /\ r.idx = y
    BY <2>1, <2>2, <2>3 DEF EntryRecords
  <2> QED
    BY <2>1, <2>3, <2>4 DEF x, y
<1>9. r.idx.last = Announced + 1 /\ r.idx.first = FileFrom + 1
  BY <1>4, <1>5, <1>6, <1>7, <1>8 DEF Advance, Index, IndexRecords, Announced
<1>10. Put(1, r) /\ UNCHANGED disk /\ persisted' = persisted \cup {Announced + 1}
  BY <1>1 DEF AppendReturns, NextSeq, Announced
<1> HIDE DEF r
<1>11. entry'[1] = r /\ entry'[2] = NotInUse /\ entry' \in [Entries -> EntryRecords]
  BY <1>8, <1>10, PutFirst DEF FileInv
<1>12. FileFrom' = FileFrom /\ lines' = lines /\ cuts' = cuts /\ frag' = frag
  BY <1>10 DEF FileFrom, disk
<1>13. LogTypes' /\ Numbered' /\ Heads'
  BY <1>8, <1>11, <1>12 DEF FileInv, LogTypes, Numbered, Heads
<1>14. Announced' = Announced + 1 /\ ~HasLanded'
  BY <1>8, <1>9, <1>11 DEF Announced, HasLanded
<1>15. persisted' = 1..(Announced + 1)
  BY <1>2, <1>10 DEF FileInv, IndexFollows
<1>16. IndexFollows'
  BY <1>2, <1>3, <1>4, <1>5, <1>8, <1>9, <1>11, <1>12, <1>14, <1>15 DEF IndexFollows
<1> QED
  BY <1>2, <1>3, <1>10, <1>13, <1>14, <1>16 DEF FileInv, Last

-----------------------------------------------------------------------------
(* The subscription and the frames on the wire.                             *)

SubRecords ==
  [mode : {"off", "replay", "live", "paused"},
   at : {"index", "gap", "open", "read", "end", "poll", "done"},
   last : Nat, queue : Seq(Lines), first : Nat, cut : Nat, pos : Nat, epoch : Nat]
Frames ==
  [type : {"event", "gap", "resync"}, seq : Nat, kind : {"event", "rotated", "-"},
   epoch : Nat, first : Nat]

\* What is held is what was announced last, up to m.
InLine(q, m) == Len(q) <= m /\ \A i \in 1..Len(q) : q[i] = lines[m - Len(q) + i]

\* The seq before the first one held that the file did not give.
Sent(r, m) == m - Len(r.queue) + Given(r)

LEMMA SubTypes ==
  ASSUME NEW r \in SubRecords
  PROVE  /\ r.queue \in Seq(Lines) /\ Len(r.queue) \in Nat
         /\ r.last \in Nat /\ r.first \in Nat /\ r.cut \in Nat /\ r.pos \in Nat /\ r.epoch \in Nat
<1>1. r.queue \in Seq(Lines)
  BY DEF SubRecords
<1> QED
  BY <1>1 DEF SubRecords

LEMMA GivenFacts ==
  ASSUME lines \in Seq(Lines), Numbered, NEW m \in Nat, m <= Len(lines),
         NEW r \in SubRecords, InLine(r.queue, m)
  PROVE  /\ Given(r) \in 0..Len(r.queue)
         /\ \/ Given(r) = 0 /\ r.last <= m - Len(r.queue)
            \/ r.last = Sent(r, m)
            \/ Given(r) = Len(r.queue) /\ r.last >= m
<1> DEFINE n == Len(r.queue)
           S == {i \in 1..n : r.queue[i].seq <= r.last}
<1>1. n \in Nat /\ r.last \in Nat /\ n <= m
  BY SubTypes DEF InLine
<1>2. \A i \in 1..n : r.queue[i].seq = m - n + i
  <2> SUFFICES ASSUME NEW i \in 1..n PROVE r.queue[i].seq = m - n + i
    OBVIOUS
  <2>1. m - n + i \in 1..Len(lines)
    BY <1>1
  <2> QED
    BY <2>1 DEF InLine, Numbered
<1>3. S = {i \in 1..n : m - n + i <= r.last}
  BY <1>2
<1> HIDE DEF n
<1>4. Given(r) = Cardinality(S)
  BY DEF Given, n
<1>5. \A k \in Nat : Cardinality(1..k) = k
  <2> TAKE k \in Nat
  <2>1. Cardinality(1..k) = IF 1 > k THEN 0 ELSE k - 1 + 1
    BY FS_Interval
  <2> QED
    BY <2>1
<1>6. CASE r.last <= m - n
  <2>1. S = 1..0
    BY <1>1, <1>3, <1>6
  <2>2. Given(r) = 0
    BY <1>4, <1>5, <2>1
  <2> QED
    BY <1>1, <1>6, <2>2 DEF n
<1>7. CASE m - n < r.last /\ r.last < m
  <2> DEFINE k == r.last - (m - n)
  <2>1. k \in Nat /\ k <= n /\ S = 1..k
    BY <1>1, <1>3, <1>7
  <2>2. Given(r) = k
    BY <1>4, <1>5, <2>1
  <2> QED
    BY <1>1, <2>1, <2>2 DEF n, Sent
<1>8. CASE m <= r.last
  <2>1. S = 1..n
    BY <1>1, <1>3, <1>8
  <2>2. Given(r) = n
    BY <1>1, <1>4, <1>5, <2>1
  <2> QED
    BY <1>1, <1>8, <2>2 DEF n
<1> QED
  BY <1>1, <1>6, <1>7, <1>8

\* What it has still to send is what follows, up to the last announced.
LEMMA UnsentFacts ==
  ASSUME lines \in Seq(Lines), Numbered, NEW m \in Nat, m <= Len(lines),
         NEW r \in SubRecords, InLine(r.queue, m)
  PROVE  /\ Sent(r, m) \in Nat /\ Sent(r, m) <= m
         /\ Unsent(r) \in Seq(Lines) /\ Len(Unsent(r)) = m - Sent(r, m)
         /\ \A i \in 1..(m - Sent(r, m)) : Unsent(r)[i] = lines[Sent(r, m) + i]
<1> DEFINE n == Len(r.queue)
           g == Given(r)
<1>1. n \in Nat /\ n <= m /\ r.queue \in Seq(Lines)
  BY SubTypes DEF InLine
<1>2. g \in 0..n
  BY GivenFacts
<1>3. Sent(r, m) = m - n + g
  BY DEF Sent
<1>4. \A i \in 1..n : r.queue[i] = lines[m - n + i]
  BY DEF InLine
<1>5. Unsent(r) = SubSeq(r.queue, g + 1, n)
  BY DEF Unsent
<1>6. \A i \in (g + 1)..n : r.queue[i] \in Lines
  BY <1>1, <1>2, ElementOfSeq
<1> HIDE DEF g, n
<1>7. /\ Unsent(r) \in Seq(Lines)
      /\ Len(Unsent(r)) = IF g + 1 <= n THEN n - (g + 1) + 1 ELSE 0
      /\ \A i \in 1..(n - (g + 1) + 1) : Unsent(r)[i] = r.queue[g + 1 + i - 1]
  <2>1. g + 1 \in Int /\ n \in Int
    BY <1>1, <1>2
  <2> QED
    BY <1>5, <1>6, <2>1, SubSeqProperties
<1>8. Len(Unsent(r)) = n - g
  BY <1>1, <1>2, <1>7
<1>9. \A i \in 1..(n - g) : Unsent(r)[i] = lines[m - n + g + i]
  <2> TAKE i \in 1..(n - g)
  <2>1. i \in 1..(n - (g + 1) + 1) /\ g + i \in 1..n /\ g + 1 + i - 1 = g + i
    BY <1>1, <1>2
  <2>2. Unsent(r)[i] = r.queue[g + i]
    BY <1>7, <2>1
  <2>3. r.queue[g + i] = lines[m - n + (g + i)]
    BY <1>4, <2>1
  <2>4. m - n + (g + i) = m - n + g + i
    BY <1>1, <1>2
  <2> QED
    BY <2>2, <2>3, <2>4
<1>10. m - Sent(r, m) = n - g
  BY <1>1, <1>2, <1>3
<1> QED
  BY <1>1, <1>2, <1>3, <1>7, <1>8, <1>9, <1>10

\* sendLive(): the next k are sent; if that is not all, it is paused.
SentTo(r, m, k, F, r2) ==
  /\ wire' = wire \o F /\ sub' = [sub EXCEPT ![cur] = r2]
  /\ Len(F) = k
  /\ \A i \in 1..k : F[i] = Frame("event", Sent(r, m) + i, lines[Sent(r, m) + i].kind, r)
  /\ r2.queue = <<>> /\ r2.epoch = r.epoch /\ r2.first = r.first
  /\ r2.last = IF k = 0 THEN r.last ELSE Sent(r, m) + k
  /\ \/ k = m - Sent(r, m) /\ r2.mode = r.mode /\ r2.at = r.at
     \/ k < m - Sent(r, m) /\ r2.mode = "paused" /\ r2.at = "poll"
  /\ k = 0 \/ Len(wire) + k <= LiveBudget

LEMMA SendAllEffect ==
  ASSUME lines \in Seq(Lines), Numbered, NEW m \in Nat, m <= Len(lines),
         NEW r \in SubRecords, InLine(r.queue, m), wire \in Seq(Frames), SendAll(r)
  PROVE  \E k \in 0..(m - Sent(r, m)), F \in Seq(Frames), r2 \in SubRecords : SentTo(r, m, k, F, r2)
<1> DEFINE todo == Unsent(r)
           s == Sent(r, m)
           k == IF Len(todo) < Room THEN Len(todo) ELSE Room
           now == SubSeq(todo, 1, k)
           sent == [r EXCEPT !.last = IF now = <<>> THEN @ ELSE Last(now).seq, !.queue = <<>>]
           F == [i \in 1..Len(now) |-> Frame("event", now[i].seq, now[i].kind, r)]
           r2 == IF Len(todo) > Len(now) THEN Paused(sent) ELSE sent
<1>1. /\ s \in Nat /\ s <= m /\ todo \in Seq(Lines) /\ Len(todo) = m - s
      /\ \A i \in 1..(m - s) : todo[i] = lines[s + i]
  BY UnsentFacts
<1>2. Room \in Nat /\ (Room = 0 \/ Len(wire) + Room <= LiveBudget)
  BY StreamAssumption DEF Room
<1>3. wire' = wire \o F /\ sub' = [sub EXCEPT ![cur] = r2]
  BY DEF SendAll
<1> HIDE DEF todo, s
<1>4. k \in Nat /\ k <= m - s /\ (k = 0 \/ Len(wire) + k <= LiveBudget)
  <2>1. Len(todo) \in Nat /\ Len(wire) \in Nat /\ LiveBudget \in Nat
    BY <1>1, StreamAssumption
  <2>2. k \in Nat /\ k <= Len(todo) /\ k <= Room
    BY <1>2, <2>1
  <2> HIDE DEF k
  <2> QED
    BY <1>1, <1>2, <2>1, <2>2
<1>5. now \in Seq(Lines) /\ Len(now) = k /\ \A i \in 1..k : now[i] = lines[s + i]
  <2>1. \A i \in 1..k : i \in 1..(m - s) /\ todo[i] \in Lines /\ todo[i] = lines[s + i]
    BY <1>1, <1>4, ElementOfSeq
  <2> HIDE DEF k
  <2>2. /\ SubSeq(todo, 1, k) \in Seq(Lines)
        /\ Len(SubSeq(todo, 1, k)) = IF 1 <= k THEN k - 1 + 1 ELSE 0
        /\ \A i \in 1..(k - 1 + 1) : SubSeq(todo, 1, k)[i] = todo[1 + i - 1]
    BY <1>4, <2>1, SubSeqProperties
  <2>3. \A i \in 1..k : now[i] = todo[i]
    BY <1>4, <2>2
  <2> QED
    BY <1>4, <2>1, <2>2, <2>3
<1> HIDE DEF k, now
<1>6. \A i \in 1..k : lines[s + i] \in Lines /\ lines[s + i].seq = s + i
  BY <1>1, <1>4 DEF Numbered
<1>7. \A i \in 1..k : Frame("event", s + i, lines[s + i].kind, r) \in Frames
  BY <1>1, <1>4, <1>6, SubTypes DEF Frame, Frames, Lines
<1>8. F \in Seq(Frames) /\ Len(F) = k /\ \A i \in 1..k : F[i] = Frame("event", s + i, lines[s + i].kind, r)
  <2>1. \A i \in 1..k : F[i] = Frame("event", s + i, lines[s + i].kind, r)
    BY <1>5, <1>6
  <2>2. F = [i \in 1..k |-> F[i]]
    BY <1>5
  <2>3. F \in Seq(Frames) /\ Len(F) = k
    BY <1>4, <1>5, <1>7, <2>1, IsASeq
  <2> QED
    BY <2>1, <2>3
<1> HIDE DEF F
<1>9. sent.last = (IF k = 0 THEN r.last ELSE s + k) /\ sent.last \in Nat
  <2>1. CASE k = 0
    <3>1. now = <<>>
      BY <1>5, <2>1, EmptySeq
    <3> QED
      BY <2>1, <3>1, SubTypes DEF SubRecords
  <2>2. CASE k # 0
    <3>1. now # <<>> /\ Last(now) = lines[s + k]
      BY <1>4, <1>5, <2>2, EmptySeq DEF Last
    <3> QED
      <4>1. sent.last = Last(now).seq
        BY <3>1 DEF SubRecords
      <4>2. lines[s + k].seq = s + k
        BY <1>4, <1>6, <2>2
      <4> QED
        BY <1>1, <1>4, <2>2, <3>1, <4>1, <4>2
  <2> QED
    BY <2>1, <2>2
<1>10. /\ sent \in SubRecords /\ sent.queue = <<>> /\ sent.epoch = r.epoch /\ sent.first = r.first
       /\ sent.mode = r.mode /\ sent.at = r.at
  <2> DEFINE x == IF now = <<>> THEN r.last ELSE Last(now).seq
  <2>1. x \in Nat /\ sent = [r EXCEPT !.last = x, !.queue = <<>>] /\ <<>> \in Seq(Lines)
    BY <1>9 DEF SubRecords
  <2> HIDE DEF x, sent
  <2> QED
    BY <2>1 DEF SubRecords
<1> HIDE DEF sent
<1>11. /\ Paused(sent) \in SubRecords /\ Paused(sent).queue = <<>> /\ Paused(sent).epoch = r.epoch
       /\ Paused(sent).first = r.first /\ Paused(sent).last = sent.last
       /\ Paused(sent).mode = "paused" /\ Paused(sent).at = "poll"
  BY <1>10 DEF Paused, SubRecords
<1>12. CASE k = m - s
  <2>1. r2 = sent
    BY <1>1, <1>4, <1>5, <1>12
  <2>2. SentTo(r, m, k, F, sent)
    BY <1>3, <1>4, <1>8, <1>9, <1>10, <1>12, <2>1 DEF SentTo, s
  <2> QED
    BY <1>4, <1>8, <1>10, <2>2 DEF s
<1>13. CASE k < m - s
  <2>1. r2 = Paused(sent)
    BY <1>1, <1>4, <1>5, <1>13
  <2>2. SentTo(r, m, k, F, Paused(sent))
    BY <1>3, <1>4, <1>8, <1>9, <1>11, <1>13, <2>1 DEF SentTo, s
  <2> QED
    BY <1>4, <1>8, <1>11, <2>2 DEF s
<1> QED
  BY <1>1, <1>4, <1>12, <1>13

-----------------------------------------------------------------------------
(* The order on the wire.                                                   *)

SocketTypes ==
  /\ sub \in [Slots -> SubRecords] /\ cur \in {0, 1, 2} /\ epoch \in Nat
  /\ conn \in BOOLEAN /\ wire \in Seq(Frames) /\ up \in Seq(Nat)
  /\ after \in Nat /\ told \in Nat /\ skipped \in SUBSET Nat

InOrder(w) ==
  \A i, j \in 1..Len(w) : i < j =>
    /\ w[i].epoch <= w[j].epoch
    /\ w[i].epoch = w[j].epoch /\ w[i].type = "event" /\ w[j].type = "event" => w[i].seq < w[j].seq
UpTo(w, e) == \A i \in 1..Len(w) : w[i].epoch <= e
\* The events of subscription e are sent up to a seq.
Below(w, e, last) == \A i \in 1..Len(w) : w[i].epoch = e /\ w[i].type = "event" => w[i].seq <= last
\* An event on the wire is a line of the file.
FramesOK(w) ==
  \A i \in 1..Len(w) :
    /\ w[i].seq <= Len(lines)
    /\ w[i].type = "event" => w[i].seq >= 1 /\ w[i].kind = lines[w[i].seq].kind

\* A cursor is within the file, which is never empty.
Within ==
  /\ 1 <= Len(lines) /\ after <= Len(lines)
  /\ \A i \in 1..Len(up) : up[i] <= Len(lines)

OrderInv == InOrder(wire) /\ UpTo(wire, epoch) /\ FramesOK(wire) /\ Within

\* The subscription in the map, where the listeners were told up to m.
Phase(r) ==
  \/ r.mode = "replay" /\ r.at \in {"index", "gap", "open", "read", "end"}
  \/ r.mode = "live" /\ r.at = "done" /\ r.queue = <<>>
  \/ r.mode = "paused" /\ r.at \in {"poll", "done"} /\ r.queue = <<>>
\* A replay is within the file it opened.
InFile(r) == r.at = "read" => r.cut <= Len(cuts) /\ r.pos <= End(cuts, Len(lines), r.cut)
CurOK(r, m) ==
  /\ r.epoch = epoch /\ Below(wire, epoch, r.last) /\ r.last <= Len(lines)
  /\ Phase(r) /\ InLine(r.queue, m) /\ InFile(r)
  /\ r.at \in {"gap", "open", "read", "end"} => r.first >= 1 /\ r.first <= Len(lines) + 1
CurInv == cur # 0 => CurOK(sub[cur], Announced)

StreamInv == FileInv /\ SocketTypes /\ OrderInv /\ CurInv

LEMMA CurType == ASSUME SocketTypes, cur # 0 PROVE cur \in Slots /\ sub[cur] \in SubRecords
BY DEF SocketTypes, Slots

LEMMA FrameTypes ==
  ASSUME NEW w \in Seq(Frames), NEW i \in 1..Len(w)
  PROVE  /\ w[i] \in Frames /\ w[i].seq \in Nat /\ w[i].epoch \in Nat /\ w[i].first \in Nat
         /\ w[i].type \in {"event", "gap", "resync"}
<1>1. w[i] \in Frames
  BY ElementOfSeq
<1> QED
  BY <1>1 DEF Frames

\* What follows on the wire.
LEMMA Joined ==
  ASSUME NEW w \in Seq(Frames), NEW F \in Seq(Frames)
  PROVE  /\ w \o F \in Seq(Frames) /\ Len(w \o F) = Len(w) + Len(F) /\ Len(w) \in Nat /\ Len(F) \in Nat
         /\ \A i \in 1..Len(w) : i \in 1..Len(w \o F) /\ (w \o F)[i] = w[i]
         /\ \A i \in 1..Len(F) : Len(w) + i \in 1..Len(w \o F) /\ (w \o F)[Len(w) + i] = F[i]
         /\ \A i \in 1..Len(w \o F) : i \in 1..Len(w) \/ (i - Len(w) \in 1..Len(F) /\ (w \o F)[i] = F[i - Len(w)])
<1>1. /\ w \o F \in Seq(Frames) /\ Len(w \o F) = Len(w) + Len(F) /\ Len(w) \in Nat /\ Len(F) \in Nat
      /\ \A i \in 1..Len(w) + Len(F) : (w \o F)[i] = IF i <= Len(w) THEN w[i] ELSE F[i - Len(w)]
  BY ConcatProperties
<1> QED
  BY <1>1

\* One frame sent.
LEMMA OneFrame ==
  ASSUME NEW w \in Seq(Frames), NEW f \in Frames
  PROVE  Append(w, f) = w \o <<f>> /\ <<f>> \in Seq(Frames) /\ Len(<<f>>) = 1 /\ <<f>>[1] = f
<1>1. Append(w, f) = w \o <<f>>
  BY AppendIsConcat
<1>2. <<f>> \in Seq(Frames) /\ Len(<<f>>) = 1 /\ <<f>>[1] = f
  OBVIOUS
<1> QED
  BY <1>1, <1>2

LEMMA NoFrame ==
  ASSUME NEW w \in Seq(Frames)
  PROVE  w = w \o <<>> /\ <<>> \in Seq(Frames) /\ Len(<<>>) = 0
BY ConcatEmptySeq

\* The current subscription sends F, its events above the last it sent.
LEMMA OrderExtends ==
  ASSUME NEW w \in Seq(Frames), NEW F \in Seq(Frames), NEW e \in Nat, NEW last \in Nat, NEW new \in Nat,
         InOrder(w), UpTo(w, e), Below(w, e, last), last <= new,
         \A i \in 1..Len(F) : F[i].epoch = e /\ (F[i].type = "event" => last < F[i].seq /\ F[i].seq <= new),
         \A i, j \in 1..Len(F) : i < j => F[i].seq < F[j].seq
  PROVE  InOrder(w \o F) /\ UpTo(w \o F, e) /\ Below(w \o F, e, new)
<1> DEFINE v == w \o F
           p == Len(w)
<1>1. /\ v \in Seq(Frames) /\ p \in Nat
      /\ \A i \in 1..p : v[i] = w[i]
      /\ \A i \in 1..Len(v) : i \in 1..p \/ (i - p \in 1..Len(F) /\ v[i] = F[i - p])
  BY Joined
<1>2. \A i \in 1..p : w[i].epoch <= e /\ w[i].epoch \in Nat /\ w[i].seq \in Nat
                      /\ (w[i].epoch = e /\ w[i].type = "event" => w[i].seq <= last)
  BY FrameTypes DEF UpTo, Below
<1>3. \A i \in 1..Len(F) : F[i].epoch = e /\ F[i].seq \in Nat
                      /\ (F[i].type = "event" => last < F[i].seq /\ F[i].seq <= new)
  BY FrameTypes
<1> HIDE DEF v, p
<1>4. UpTo(v, e)
  <2> SUFFICES ASSUME NEW i \in 1..Len(v) PROVE v[i].epoch <= e
    BY DEF UpTo
  <2>1. CASE i \in 1..p
    BY <1>1, <1>2, <2>1
  <2>2. CASE i - p \in 1..Len(F) /\ v[i] = F[i - p]
    <3>1. v[i].epoch = e
      BY <1>3, <2>2
    <3> QED
      BY <3>1
  <2> QED
    BY <1>1, <2>1, <2>2
<1>5. Below(v, e, new)
  <2> SUFFICES ASSUME NEW i \in 1..Len(v), v[i].epoch = e, v[i].type = "event" PROVE v[i].seq <= new
    BY DEF Below
  <2>1. CASE i \in 1..p
    BY <1>1, <1>2, <2>1, SMTT(30)
  <2>2. CASE i - p \in 1..Len(F) /\ v[i] = F[i - p]
    BY <1>3, <2>2
  <2> QED
    BY <1>1, <2>1, <2>2
<1>6. InOrder(v)
  <2> SUFFICES ASSUME NEW i \in 1..Len(v), NEW j \in 1..Len(v), i < j
               PROVE  /\ v[i].epoch <= v[j].epoch
                      /\ v[i].epoch = v[j].epoch /\ v[i].type = "event" /\ v[j].type = "event"
                           => v[i].seq < v[j].seq
    BY DEF InOrder
  <2>1. CASE i \in 1..p /\ j \in 1..p
    BY <1>1, <2>1 DEF InOrder, p
  <2>2. CASE i \in 1..p /\ j - p \in 1..Len(F) /\ v[j] = F[j - p]
    <3>1. /\ v[i] = w[i] /\ w[i].epoch <= e /\ w[i].seq \in Nat
          /\ (w[i].epoch = e /\ w[i].type = "event" => w[i].seq <= last)
      BY <1>1, <1>2, <2>2
    <3>2. v[j].epoch = e /\ v[j].seq \in Nat /\ (v[j].type = "event" => last < v[j].seq)
      BY <1>3, <2>2
    <3> QED
      BY <3>1, <3>2
  <2>3. CASE i - p \in 1..Len(F) /\ v[i] = F[i - p] /\ j - p \in 1..Len(F) /\ v[j] = F[j - p]
    <3>1. i - p < j - p
      BY <1>1
    <3> QED
      BY <1>3, <2>3, <3>1
  <2>4. ~(i - p \in 1..Len(F) /\ j \in 1..p)
    BY <1>1
  <2> QED
    BY <1>1, <2>1, <2>2, <2>3, <2>4
<1> QED
  BY <1>4, <1>5, <1>6 DEF v

LEMMA FramesExtend ==
  ASSUME NEW w \in Seq(Frames), NEW F \in Seq(Frames), FramesOK(w), FramesOK(F)
  PROVE  FramesOK(w \o F)
<1> DEFINE v == w \o F
           p == Len(w)
<1>1. /\ \A i \in 1..p : v[i] = w[i]
      /\ \A i \in 1..Len(v) : i \in 1..p \/ (i - p \in 1..Len(F) /\ v[i] = F[i - p])
  BY Joined
<1> HIDE DEF v
<1>2. ASSUME NEW i \in 1..Len(v)
      PROVE  v[i].seq <= Len(lines) /\ (v[i].type = "event" => v[i].seq >= 1 /\ v[i].kind = lines[v[i].seq].kind)
  <2>1. CASE i \in 1..p
    BY <1>1, <2>1 DEF FramesOK
  <2>2. CASE i - p \in 1..Len(F) /\ v[i] = F[i - p]
    BY <2>2 DEF FramesOK
  <2> QED BY <1>1, <2>1, <2>2
<1>3. FramesOK(v)
  BY <1>2 DEF FramesOK
<1> QED
  BY <1>3 DEF v

\* A turn of the current subscription: it sends F and becomes r2.
LEMMA TurnOrder ==
  ASSUME StreamInv, cur # 0, NEW r2 \in SubRecords, NEW F \in Seq(Frames), NEW m,
         wire' = wire \o F, sub' = [sub EXCEPT ![cur] = r2],
         UNCHANGED <<disk, cur, epoch, conn, up, client>>, Announced' = m,
         \A i \in 1..Len(F) : F[i].epoch = epoch
              /\ (F[i].type = "event" => sub[cur].last < F[i].seq /\ F[i].seq <= r2.last),
         \A i, j \in 1..Len(F) : i < j => F[i].seq < F[j].seq,
         FramesOK(F), sub[cur].last <= r2.last, r2.last <= Len(lines), r2.epoch = epoch, Phase(r2),
         InLine(r2.queue, m), InFile(r2),
         r2.at \in {"gap", "open", "read", "end"} => r2.first >= 1 /\ r2.first <= Len(lines) + 1
  PROVE  SocketTypes' /\ OrderInv' /\ CurInv'
<1>1. cur \in Slots /\ sub[cur] \in SubRecords /\ sub \in [Slots -> SubRecords] /\ wire \in Seq(Frames) /\ epoch \in Nat
  BY CurType DEF StreamInv, SocketTypes
<1>2. sub[cur].last \in Nat /\ r2.last \in Nat
  BY <1>1, SubTypes
<1>3. Below(wire, epoch, sub[cur].last) /\ InOrder(wire) /\ UpTo(wire, epoch) /\ FramesOK(wire)
  BY DEF StreamInv, OrderInv, CurInv, CurOK
<1>4. InOrder(wire \o F) /\ UpTo(wire \o F, epoch) /\ Below(wire \o F, epoch, r2.last)
  BY <1>1, <1>2, <1>3, OrderExtends
<1>5. FramesOK(wire \o F)
  BY <1>1, <1>3, FramesExtend
<1>6. sub' \in [Slots -> SubRecords] /\ sub'[cur] = r2
  BY <1>1
<1>7. wire' \in Seq(Frames)
  BY <1>1, Joined
<1>8. SocketTypes'
  BY <1>6, <1>7 DEF StreamInv, SocketTypes, client
<1>9. OrderInv'
  <2>1. Within'
    BY DEF StreamInv, OrderInv, Within, disk, client
  <2> QED
    BY <1>4, <1>5, <2>1 DEF OrderInv, FramesOK, disk
<1>10. CurInv'
  BY <1>4, <1>6 DEF CurInv, CurOK, InLine, InFile, disk
<1> QED
  BY <1>8, <1>9, <1>10

-----------------------------------------------------------------------------
(* What the client has, and what is on its way.                             *)

\* When frame i comes the view has everything before k, or was told of it.
Counted(w, t, k, i) ==
  k <= t + 1 \/ \E j \in 1..(i - 1) : w[j].type \in {"event", "gap"} /\ k <= w[j].seq + 1

\* Nothing is missing before an event, or what is was rotated away: the event
\* was too, or it is the head of a file opened after what it follows was read.
FrameFair(w, t, i) ==
  /\ w[i].type = "event" =>
       \/ Counted(w, t, w[i].seq, i)
       \/ w[i].seq <= FileFrom
       \/ w[i].kind = "rotated" /\ Counted(w, t, w[i].first, i)
  /\ w[i].type = "resync" => Counted(w, t, w[i].seq + 1, i)
Fair(w, t) == \A i \in 1..Len(w) : FrameFair(w, t, i)

\* What was announced before the first it holds.
Missed(r, m) == m - Len(r.queue)

SubFair(r, w, t, m) ==
  LET counted(k) == Counted(w, t, k, Len(w) + 1) IN
  /\ counted(r.last + 1)
  /\ r.at \in {"open", "read", "end"} \/ r.mode = "live" => counted(r.first)
  /\ r.at = "read" =>
       /\ Begin(cuts, r.cut) <= r.pos
       /\ Missed(r, m) <= End(cuts, Len(lines), r.cut)
       /\ r.pos = Begin(cuts, r.cut) \/ counted(r.pos + 1)
  /\ r.at = "end" \/ r.mode = "live" => counted(Missed(r, m) + 1) \/ Missed(r, m) <= FileFrom

ClientInv == after <= told /\ told <= Len(lines) /\ \A i \in 1..Len(up) : up[i] <= told
HoleInv == \A s \in skipped : 1 <= s /\ s <= FileFrom /\ told <= FileFrom
FairInv ==
  /\ ClientInv /\ HoleInv /\ Fair(wire, told)
  /\ cur # 0 => SubFair(sub[cur], wire, told, Announced)

LEMMA CountedLess ==
  ASSUME NEW w \in Seq(Frames), NEW t \in Nat, NEW k \in Nat, NEW l \in Nat, l <= k,
         NEW i \in Nat, i <= Len(w) + 1, Counted(w, t, k, i)
  PROVE  Counted(w, t, l, i)
<1>1. CASE k <= t + 1
  BY <1>1 DEF Counted
<1>2. CASE \E j \in 1..(i - 1) : w[j].type \in {"event", "gap"} /\ k <= w[j].seq + 1
  <2>1. PICK j \in 1..(i - 1) : w[j].type \in {"event", "gap"} /\ k <= w[j].seq + 1
    BY <1>2
  <2>2. j \in 1..Len(w)
    OBVIOUS
  <2>3. w[j].seq \in Nat
    BY <2>2, FrameTypes
  <2>4. l <= w[j].seq + 1
    BY <2>1, <2>3
  <2> QED
    BY <2>1, <2>4 DEF Counted
<1> QED
  BY <1>1, <1>2 DEF Counted

LEMMA CountedMore ==
  ASSUME NEW w \in Seq(Frames), NEW F \in Seq(Frames), NEW t \in Nat, NEW k \in Nat,
         NEW i \in Nat, i <= Len(w) + 1, NEW j \in Nat, i <= j, Counted(w, t, k, i)
  PROVE  Counted(w \o F, t, k, j)
<1>1. \A n \in 1..Len(w) : (w \o F)[n] = w[n]
  BY Joined
<1>2. CASE k <= t + 1
  BY <1>2 DEF Counted
<1>3. CASE \E n \in 1..(i - 1) : w[n].type \in {"event", "gap"} /\ k <= w[n].seq + 1
  <2>1. PICK n \in 1..(i - 1) : w[n].type \in {"event", "gap"} /\ k <= w[n].seq + 1
    BY <1>3
  <2>2. n \in 1..Len(w) /\ n \in 1..(j - 1)
    OBVIOUS
  <2>3. (w \o F)[n] = w[n]
    BY <1>1, <2>2
  <2> QED
    BY <2>1, <2>2, <2>3 DEF Counted
<1> QED
  BY <1>2, <1>3 DEF Counted

\* What is sent counts for what follows.
LEMMA CountedSent ==
  ASSUME NEW w \in Seq(Frames), NEW F \in Seq(Frames), NEW t \in Nat, NEW k \in Nat,
         NEW j \in 1..Len(F), F[j].type \in {"event", "gap"}, k <= F[j].seq + 1,
         NEW i \in Nat, Len(w) + j < i
  PROVE  Counted(w \o F, t, k, i)
<1>1. (w \o F)[Len(w) + j] = F[j] /\ Len(w) \in Nat
  BY Joined
<1>2. Len(w) + j \in 1..(i - 1)
  BY <1>1
<1> QED
  BY <1>1, <1>2 DEF Counted

LEMMA FairExtends ==
  ASSUME SocketTypes, NEW w \in Seq(Frames), NEW F \in Seq(Frames), NEW t \in Nat, Fair(w, t),
         \A i \in 1..Len(F) : FrameFair(w \o F, t, Len(w) + i)
  PROVE  Fair(w \o F, t)
<1> SUFFICES ASSUME NEW i \in 1..Len(w \o F) PROVE FrameFair(w \o F, t, i)
  BY DEF Fair
<1>1. CASE i \in 1..Len(w)
  <2>1. (w \o F)[i] = w[i] /\ FrameFair(w, t, i)
    BY <1>1, Joined DEF Fair
  <2>2. w[i].seq \in Nat /\ w[i].first \in Nat /\ Len(w) \in Nat
    BY <1>1, FrameTypes
  <2>3. \A k \in Nat : Counted(w, t, k, i) => Counted(w \o F, t, k, i)
    BY <1>1, <2>2, CountedMore
  <2> QED
    BY <2>1, <2>2, <2>3 DEF FrameFair
<1>2. CASE i - Len(w) \in 1..Len(F)
  <2>1. Len(w) \in Nat /\ i = Len(w) + (i - Len(w))
    BY <1>2
  <2> QED
    BY <1>2, <2>1
<1> QED
  BY <1>1, <1>2, Joined

\* A turn of the current subscription.
LEMMA TurnFair ==
  ASSUME StreamInv, FairInv, cur # 0, NEW r2 \in SubRecords, NEW F \in Seq(Frames), NEW m,
         wire' = wire \o F, sub' = [sub EXCEPT ![cur] = r2],
         UNCHANGED <<disk, cur, up, client>>, Announced' = m,
         \A i \in 1..Len(F) : FrameFair(wire \o F, told, Len(wire) + i),
         SubFair(r2, wire \o F, told, m)
  PROVE  FairInv'
<1>1. cur \in Slots /\ sub \in [Slots -> SubRecords] /\ wire \in Seq(Frames) /\ told \in Nat /\ SocketTypes
  BY CurType DEF StreamInv, SocketTypes
<1>2. Fair(wire \o F, told)
  BY <1>1, FairExtends DEF FairInv
<1>3. sub'[cur] = r2 /\ lines' = lines /\ cuts' = cuts /\ told' = told /\ cur' = cur
  BY <1>1 DEF disk, client
<1>4. FileFrom' = FileFrom
  BY <1>3 DEF FileFrom
<1>5. ClientInv' /\ HoleInv'
  BY <1>3, <1>4 DEF FairInv, ClientInv, HoleInv, client
<1>6. Fair(wire, told)'
  BY <1>2, <1>3, <1>4 DEF Fair, FrameFair
<1>7. SubFair(sub[cur], wire, told, Announced)'
  BY <1>3, <1>4 DEF SubFair
<1> QED
  BY <1>5, <1>6, <1>7 DEF FairInv

-----------------------------------------------------------------------------
(* replay(), one step at a time.                                            *)

LEMMA FileStill == FileInv /\ UNCHANGED lvars => FileInv' /\ Announced' = Announced
<1> SUFFICES ASSUME FileInv, UNCHANGED lvars PROVE FileInv' /\ Announced' = Announced
  OBVIOUS
<1>1. UNCHANGED <<lines, cuts, frag, entry, persisted>>
  BY DEF lvars
<1>2. FileFrom' = FileFrom
  BY <1>1 DEF FileFrom
<1>3. LogTypes'
  BY <1>1 DEF FileInv, LogTypes
<1>4. Numbered' /\ Heads'
  BY <1>1, <1>2 DEF FileInv, Numbered, Heads
<1>5. IndexFollows'
  BY <1>1, <1>2 DEF FileInv, IndexFollows, Announced, HasLanded
<1> QED
  BY <1>1, <1>3, <1>4, <1>5 DEF FileInv, Announced

\* The state of a subscription that replays.
LEMMA Replaying ==
  ASSUME StreamInv, NEW n \in Slots, cur = n
  PROVE  /\ cur # 0 /\ sub[n] \in SubRecords /\ sub \in [Slots -> SubRecords] /\ wire \in Seq(Frames)
         /\ CurOK(sub[n], Announced) /\ told \in Nat /\ epoch \in Nat
         /\ lines \in Seq(Lines) /\ Numbered /\ Announced <= Len(lines)
         /\ Announced \in Nat /\ Len(lines) \in Nat /\ FileFrom \in Nat
<1>1. cur # 0 /\ sub[n] \in SubRecords /\ sub \in [Slots -> SubRecords] /\ wire \in Seq(Frames)
      /\ told \in Nat /\ epoch \in Nat
  BY DEF StreamInv, SocketTypes, Slots
<1>2. CurOK(sub[n], Announced)
  BY <1>1 DEF StreamInv, CurInv
<1>3. lines \in Seq(Lines) /\ Numbered
  BY DEF StreamInv, FileInv, LogTypes
<1>4. Announced \in Nat /\ Len(lines) \in Nat /\ FileFrom \in Nat
  BY FirstEntry DEF StreamInv
<1>5. Announced <= Len(lines)
  BY <1>4 DEF StreamInv, FileInv, IndexFollows
<1> QED
  BY <1>1, <1>2, <1>3, <1>4, <1>5

\* A turn that sends nothing.
LEMMA HoldTurn ==
  ASSUME StreamInv, cur # 0, NEW r \in SubRecords, NEW m,
         UNCHANGED wire, sub' = [sub EXCEPT ![cur] = r],
         UNCHANGED <<disk, cur, epoch, conn, up, client>>, Announced' = m, FileInv',
         r.last = sub[cur].last, r.epoch = epoch, Phase(r), InLine(r.queue, m), InFile(r),
         r.at \in {"gap", "open", "read", "end"} => r.first >= 1 /\ r.first <= Len(lines) + 1
  PROVE  StreamInv' /\ (FairInv /\ SubFair(r, wire, told, m) => FairInv')
<1>1. CurOK(sub[cur], Announced) /\ wire \in Seq(Frames) /\ sub[cur] \in SubRecords
  BY CurType DEF StreamInv, SocketTypes, CurInv
<1>2. wire' = wire \o <<>> /\ wire = wire \o <<>> /\ <<>> \in Seq(Frames) /\ Len(<<>>) = 0
  BY <1>1, NoFrame
<1>3. r.last <= Len(lines) /\ sub[cur].last <= r.last
  BY <1>1, SubTypes DEF CurOK
<1>4. FramesOK(<<>>)
  BY <1>2 DEF FramesOK
<1>5. /\ \A i \in 1..Len(<<>>) : <<>>[i].epoch = epoch
              /\ (<<>>[i].type = "event" => sub[cur].last < <<>>[i].seq /\ <<>>[i].seq <= r.last)
      /\ \A i, j \in 1..Len(<<>>) : i < j => <<>>[i].seq < <<>>[j].seq
      /\ \A i \in 1..Len(<<>>) : FrameFair(wire \o <<>>, told, Len(wire) + i)
  BY <1>2
<1>6. SocketTypes' /\ OrderInv' /\ CurInv'
  BY <1>2, <1>3, <1>4, <1>5, TurnOrder
<1>7. FairInv /\ SubFair(r, wire \o <<>>, told, m) => FairInv'
  BY <1>2, <1>5, TurnFair
<1> QED
  BY <1>2, <1>6, <1>7 DEF StreamInv

\* A step of a replay that sends nothing.
LEMMA SilentTurn ==
  ASSUME StreamInv, NEW n \in Slots, cur = n, NEW r \in SubRecords, UNCHANGED wire, Advances(n, r),
         r.last = sub[n].last, r.queue = sub[n].queue, r.epoch = sub[n].epoch, Phase(r), InFile(r),
         r.at \in {"gap", "open", "read", "end"} => r.first >= 1 /\ r.first <= Len(lines) + 1
  PROVE  /\ StreamInv'
         /\ FairInv /\ SubFair(r, wire, told, Announced) => FairInv'
<1>1. CurOK(sub[n], Announced) /\ cur # 0
  BY Replaying
<1>2. sub' = [sub EXCEPT ![cur] = r] /\ UNCHANGED <<lvars, cur, epoch, conn, up, client>>
  BY DEF Advances
<1>3. FileInv' /\ Announced' = Announced /\ UNCHANGED disk
  BY <1>2, FileStill DEF StreamInv, lvars, disk
<1>4. r.epoch = epoch /\ InLine(r.queue, Announced)
  BY <1>1 DEF CurOK
<1> QED
  BY <1>1, <1>2, <1>3, <1>4, HoldTurn

\* One that sends a frame.
LEMMA OneTurn ==
  ASSUME StreamInv, NEW n \in Slots, cur = n, NEW r \in SubRecords, NEW f \in Frames,
         wire' = Append(wire, f), Advances(n, r),
         r.last >= sub[n].last, r.last <= Len(lines), r.queue = sub[n].queue, r.epoch = sub[n].epoch,
         Phase(r), InFile(r),
         r.at \in {"gap", "open", "read", "end"} => r.first >= 1 /\ r.first <= Len(lines) + 1,
         f.epoch = epoch, f.type = "event" => sub[n].last < f.seq /\ f.seq <= r.last,
         f.seq <= Len(lines), f.type = "event" => f.seq >= 1 /\ f.kind = lines[f.seq].kind
  PROVE  /\ StreamInv'
         /\ /\ FairInv
            /\ FrameFair(wire \o <<f>>, told, Len(wire) + 1)
            /\ SubFair(r, wire \o <<f>>, told, Announced)
            => FairInv'
<1>1. CurOK(sub[n], Announced) /\ cur # 0 /\ wire \in Seq(Frames) /\ sub[n] \in SubRecords
  BY Replaying
<1> DEFINE F == <<f>>
<1>2. wire' = wire \o F /\ F \in Seq(Frames) /\ Len(F) = 1 /\ F[1] = f
  BY <1>1, OneFrame
<1> HIDE DEF F
<1>3. sub' = [sub EXCEPT ![cur] = r] /\ UNCHANGED <<lvars, cur, epoch, conn, up, client>>
  BY DEF Advances
<1>4. FileInv' /\ Announced' = Announced /\ UNCHANGED <<lines, disk>>
  BY <1>3, FileStill DEF StreamInv, lvars, disk
<1>5. r.epoch = epoch /\ InLine(r.queue, Announced)
  BY <1>1 DEF CurOK
<1>6. FramesOK(F)
  BY <1>2 DEF FramesOK
<1>7. \A i \in 1..Len(F) : F[i].epoch = epoch
              /\ (F[i].type = "event" => sub[cur].last < F[i].seq /\ F[i].seq <= r.last)
  BY <1>2
<1>8. \A i, j \in 1..Len(F) : i < j => F[i].seq < F[j].seq
  BY <1>2
<1>9. sub[cur].last <= r.last
  BY <1>1, SubTypes
<1>10. SocketTypes' /\ OrderInv' /\ CurInv'
  BY <1>1, <1>2, <1>3, <1>4, <1>5, <1>6, <1>7, <1>8, <1>9, TurnOrder
<1>11. ASSUME FairInv, FrameFair(wire \o F, told, Len(wire) + 1), SubFair(r, wire \o F, told, Announced)
       PROVE  FairInv'
  <2>1. \A i \in 1..Len(F) : FrameFair(wire \o F, told, Len(wire) + i)
    BY <1>2, <1>11
  <2> QED
    BY <1>1, <1>2, <1>3, <1>4, <1>11, <2>1, TurnFair
<1> QED
  BY <1>4, <1>10, <1>11 DEF StreamInv, F

LEMMA RetainedFacts ==
  ASSUME FileInv
  PROVE  Retained \in Nat /\ Retained >= 1 /\ Retained <= Len(lines) + 1
<1>1. entry[1].at = "resident" /\ entry[2].at = "none"
  BY DEF FileInv, LogTypes, NotInUse
<1>2. \A e \in Entries : InMemory(e) <=> e = 1
  BY <1>1 DEF Entries, InMemory
<1>3. 1 \in Entries /\ InMemory(1) /\ (CHOOSE e \in Entries : InMemory(e)) = 1
  BY <1>2 DEF Entries
<1>4. Retained = IF entry[1].idx.first = 0 THEN 1 ELSE entry[1].idx.first
  BY <1>3 DEF Retained
<1>5. FileFrom \in Nat /\ Len(lines) \in Nat /\ FileFrom <= Len(lines)
      /\ (entry[1].idx.first = 0 \/ entry[1].idx.first = FileFrom + 1)
  BY FirstEntry DEF FileInv, IndexFollows
<1> QED
  BY <1>4, <1>5

LEMMA ReadIndexTurn ==
  ASSUME StreamInv, NEW n \in Slots, ReadIndex(n)
  PROVE  StreamInv' /\ (FairInv => FairInv')
<1> DEFINE a == IF sub[n].last < Retained - 1 THEN "gap" ELSE "open"
           r == [sub[n] EXCEPT !.first = Retained, !.at = a]
<1>1. cur = n /\ sub[n].mode = "replay" /\ UNCHANGED wire /\ Advances(n, r)
  BY DEF ReadIndex, At, Current
<1>2. sub[n] \in SubRecords /\ wire \in Seq(Frames) /\ told \in Nat /\ cur # 0
  BY <1>1, Replaying
<1>3. Retained \in Nat /\ Retained >= 1 /\ Retained <= Len(lines) + 1
  BY RetainedFacts DEF StreamInv
<1>4. a \in {"gap", "open"} /\ (a = "open" => Retained <= sub[n].last + 1) /\ sub[n].last \in Nat
  BY <1>2, <1>3, SubTypes
<1> HIDE DEF a
<1>5. /\ r \in SubRecords /\ r.last = sub[n].last /\ r.queue = sub[n].queue /\ r.epoch = sub[n].epoch
      /\ r.mode = "replay" /\ r.at = a /\ r.first = Retained
  BY <1>1, <1>2, <1>3, <1>4 DEF SubRecords
<1> HIDE DEF r
<1>6. Phase(r) /\ InFile(r)
  BY <1>4, <1>5 DEF Phase, InFile
<1>7. StreamInv' /\ (FairInv /\ SubFair(r, wire, told, Announced) => FairInv')
  BY <1>1, <1>3, <1>5, <1>6, SilentTurn
<1>8. ASSUME FairInv PROVE SubFair(r, wire, told, Announced)
  <2>1. Counted(wire, told, sub[n].last + 1, Len(wire) + 1)
    BY <1>1, <1>2, <1>8 DEF FairInv, SubFair
  <2>2. a = "open" => Counted(wire, told, Retained, Len(wire) + 1)
    <3> SUFFICES ASSUME a = "open" PROVE Counted(wire, told, Retained, Len(wire) + 1)
      OBVIOUS
    <3>1. Len(wire) + 1 \in Nat /\ Retained <= sub[n].last + 1 /\ sub[n].last + 1 \in Nat
      BY <1>2, <1>4
    <3> QED
      BY <1>2, <1>3, <2>1, <3>1, CountedLess
  <2> QED
    BY <1>4, <1>5, <2>1, <2>2 DEF SubFair
<1> QED
  BY <1>7, <1>8

LEMMA SendGapTurn ==
  ASSUME StreamInv, NEW n \in Slots, SendGap(n)
  PROVE  StreamInv' /\ (FairInv => FairInv')
<1> DEFINE f == Frame("gap", sub[n].first - 1, "-", sub[n])
           r == [sub[n] EXCEPT !.at = "open"]
<1>1. cur = n /\ sub[n].mode = "replay" /\ sub[n].at = "gap" /\ wire' = Append(wire, f) /\ Advances(n, r)
  BY DEF SendGap, At, Current, GapFrame
<1>2. sub[n] \in SubRecords /\ wire \in Seq(Frames) /\ told \in Nat /\ cur # 0 /\ CurOK(sub[n], Announced)
      /\ Len(lines) \in Nat
  BY <1>1, Replaying
<1>3. /\ sub[n].first \in Nat /\ sub[n].first >= 1 /\ sub[n].first <= Len(lines) + 1
      /\ sub[n].last \in Nat /\ sub[n].last <= Len(lines) /\ sub[n].epoch = epoch /\ sub[n].epoch \in Nat
  BY <1>1, <1>2, SubTypes DEF CurOK
<1>4. f \in Frames /\ f.epoch = epoch /\ f.type = "gap" /\ f.seq = sub[n].first - 1
  BY <1>3 DEF Frame, Frames
<1>5. /\ r \in SubRecords /\ r.last = sub[n].last /\ r.queue = sub[n].queue /\ r.epoch = sub[n].epoch
      /\ r.mode = "replay" /\ r.at = "open" /\ r.first = sub[n].first
  BY <1>1, <1>2 DEF SubRecords
<1> HIDE DEF r, f
<1>6. Phase(r) /\ InFile(r)
  BY <1>5 DEF Phase, InFile
<1>7. /\ StreamInv'
      /\ /\ FairInv
         /\ FrameFair(wire \o <<f>>, told, Len(wire) + 1)
         /\ SubFair(r, wire \o <<f>>, told, Announced)
         => FairInv'
  <2>1. /\ r.last >= sub[n].last /\ r.last <= Len(lines) /\ f.seq <= Len(lines) /\ f.type # "event"
    BY <1>2, <1>3, <1>4, <1>5
  <2> QED
    BY <1>1, <1>3, <1>4, <1>5, <1>6, <2>1, OneTurn
<1>8. ASSUME FairInv PROVE SubFair(r, wire \o <<f>>, told, Announced) /\ FrameFair(wire \o <<f>>, told, Len(wire) + 1)
  <2> DEFINE F == <<f>>
             v == wire \o F
  <2>1. F \in Seq(Frames) /\ Len(F) = 1 /\ F[1] = f
    BY <1>2, <1>4, OneFrame
  <2>2. v \in Seq(Frames) /\ Len(v) = Len(wire) + 1 /\ v[Len(wire) + 1] = f /\ Len(wire) \in Nat
    BY <1>2, <2>1, Joined
  <2>3. Counted(wire, told, sub[n].last + 1, Len(wire) + 1)
    BY <1>1, <1>2, <1>8 DEF FairInv, SubFair
  <2> HIDE DEF F
  <2>4. Counted(v, told, sub[n].last + 1, Len(v) + 1)
    <3>1. Len(wire) + 1 \in Nat /\ Len(wire) + 1 <= Len(wire) + 1 /\ Len(v) + 1 \in Nat
          /\ Len(wire) + 1 <= Len(v) + 1 /\ sub[n].last + 1 \in Nat
      BY <1>3, <2>2
    <3> QED
      BY <1>2, <2>1, <2>3, <3>1, CountedMore
  <2>5. Counted(v, told, sub[n].first, Len(v) + 1)
    <3>1. 1 \in 1..Len(F) /\ F[1].type \in {"event", "gap"} /\ sub[n].first <= F[1].seq + 1
          /\ Len(wire) + 1 < Len(v) + 1 /\ Len(v) + 1 \in Nat
      BY <1>3, <1>4, <2>1, <2>2
    <3> QED
      BY <1>2, <1>3, <2>1, <3>1, CountedSent
  <2> HIDE DEF v
  <2>6. SubFair(r, v, told, Announced)
    BY <1>5, <2>4, <2>5 DEF SubFair
  <2>7. FrameFair(v, told, Len(wire) + 1)
    BY <1>4, <2>2 DEF FrameFair
  <2> QED
    BY <2>6, <2>7 DEF v, F
<1> QED
  BY <1>7, <1>8

\* What was counted stays so.
LEMMA StillCounted ==
  ASSUME NEW w \in Seq(Frames), NEW F \in Seq(Frames), NEW t \in Nat, NEW k \in Nat,
         Counted(w, t, k, Len(w) + 1)
  PROVE  Counted(w \o F, t, k, Len(w \o F) + 1)
<1>1. Len(w) + 1 \in Nat /\ Len(w) + 1 <= Len(w) + 1 /\ Len(w \o F) + 1 \in Nat
      /\ Len(w) + 1 <= Len(w \o F) + 1
  BY Joined
<1> QED
  BY <1>1, CountedMore

\* The files are there.
LEMMA EndFacts ==
  ASSUME FileInv, NEW c \in Nat, c <= Len(cuts)
  PROVE  /\ Begin(cuts, c) \in Nat /\ End(cuts, Len(lines), c) \in Nat
         /\ End(cuts, Len(lines), c) <= Len(lines) /\ EndOf(c) = End(cuts, Len(lines), c)
         /\ c > 0 /\ Begin(cuts, c) < Len(lines) => lines[Begin(cuts, c) + 1].kind = "rotated"
<1>1. cuts \in Seq(Nat) /\ Len(lines) \in Nat /\ FileFrom \in Nat /\ FileFrom <= Len(lines)
  BY FirstEntry DEF FileInv, LogTypes, IndexFollows
<1>2. \A k \in 1..Len(cuts) : cuts[k] \in Nat /\ cuts[k] <= FileFrom
                               /\ (cuts[k] < Len(lines) => lines[cuts[k] + 1].kind = "rotated")
  BY <1>1 DEF FileInv, Heads
<1>3. EndOf(c) = End(cuts, Len(lines), c)
  BY DEF EndOf, End
<1>4. End(cuts, Len(lines), c) \in Nat /\ End(cuts, Len(lines), c) <= Len(lines)
  <2>1. CASE c < Len(cuts)
    <3>1. c + 1 \in 1..Len(cuts)
      BY <1>1, <2>1
    <3> QED
      BY <1>1, <1>2, <2>1, <3>1 DEF End
  <2>2. CASE ~(c < Len(cuts))
    BY <1>1, <2>2 DEF End
  <2> QED
    BY <2>1, <2>2
<1>5. Begin(cuts, c) \in Nat /\ (c > 0 /\ Begin(cuts, c) < Len(lines) => lines[Begin(cuts, c) + 1].kind = "rotated")
  <2>1. CASE c = 0
    BY <2>1 DEF Begin
  <2>2. CASE c # 0
    <3>1. c \in 1..Len(cuts)
      BY <2>2
    <3> QED
      BY <1>2, <2>2, <3>1 DEF Begin
  <2> QED
    BY <2>1, <2>2
<1> QED
  BY <1>3, <1>4, <1>5

LEMMA OpenFileTurn ==
  ASSUME StreamInv, NEW n \in Slots, OpenFile(n)
  PROVE  StreamInv' /\ (FairInv => FairInv')
<1> DEFINE a == IF Missing THEN "end" ELSE "read"
           r == [sub[n] EXCEPT !.at = a, !.cut = Len(cuts), !.pos = FileFrom]
<1>1. cur = n /\ sub[n].mode = "replay" /\ sub[n].at = "open" /\ UNCHANGED wire /\ Advances(n, r)
  BY DEF OpenFile, At, Current
<1>2. sub[n] \in SubRecords /\ wire \in Seq(Frames) /\ told \in Nat /\ cur # 0 /\ CurOK(sub[n], Announced)
      /\ Announced \in Nat /\ Len(lines) \in Nat /\ FileFrom \in Nat /\ Announced <= Len(lines)
  BY <1>1, Replaying
<1>3. sub[n].first >= 1 /\ sub[n].first <= Len(lines) + 1
  BY <1>1, <1>2 DEF CurOK
<1>4. Len(cuts) \in Nat /\ cuts \in Seq(Nat) /\ FileFrom = Begin(cuts, Len(cuts)) /\ FileFrom <= Len(lines)
      /\ End(cuts, Len(lines), Len(cuts)) = Len(lines)
  BY FromFacts DEF StreamInv, FileInv, LogTypes, IndexFollows, End
<1>5. a \in {"end", "read"} /\ (a = "end" => FileFrom = Len(lines))
  BY <1>2, <1>4 DEF Missing, Size
<1> HIDE DEF a
<1>6. /\ r \in SubRecords /\ r.last = sub[n].last /\ r.queue = sub[n].queue /\ r.epoch = sub[n].epoch
      /\ r.mode = "replay" /\ r.at = a /\ r.first = sub[n].first /\ r.cut = Len(cuts) /\ r.pos = FileFrom
  BY <1>1, <1>2, <1>4, <1>5 DEF SubRecords
<1> HIDE DEF r
<1>7. Phase(r) /\ InFile(r)
  BY <1>4, <1>5, <1>6 DEF Phase, InFile
<1>8. StreamInv' /\ (FairInv /\ SubFair(r, wire, told, Announced) => FairInv')
  BY <1>1, <1>3, <1>6, <1>7, SilentTurn
<1>9. ASSUME FairInv PROVE SubFair(r, wire, told, Announced)
  <2>1. Counted(wire, told, sub[n].last + 1, Len(wire) + 1) /\ Counted(wire, told, sub[n].first, Len(wire) + 1)
    BY <1>1, <1>2, <1>9 DEF FairInv, SubFair
  <2>2. Missed(r, Announced) <= Len(lines)
    BY <1>2, <1>6, SubTypes DEF Missed
  <2>3. a = "end" => Missed(r, Announced) <= FileFrom
    BY <1>5, <2>2
  <2>4. /\ Begin(cuts, r.cut) <= r.pos /\ Missed(r, Announced) <= End(cuts, Len(lines), r.cut)
        /\ r.pos = Begin(cuts, r.cut)
    <3>1. Begin(cuts, r.cut) = FileFrom /\ End(cuts, Len(lines), r.cut) = Len(lines) /\ r.pos = FileFrom
      BY <1>4, <1>6, Zenon
    <3>2. FileFrom <= FileFrom
      BY <1>2
    <3> QED
      BY <2>2, <3>1, <3>2, Zenon
  <2> QED
    BY <1>5, <1>6, <2>1, <2>3, <2>4 DEF SubFair
<1> QED
  BY <1>8, <1>9

LEMMA EndOfFileTurn ==
  ASSUME StreamInv, NEW n \in Slots, EndOfFile(n)
  PROVE  StreamInv' /\ (FairInv => FairInv')
<1> DEFINE r == [sub[n] EXCEPT !.at = "end"]
           B == Begin(cuts, sub[n].cut)
           E == End(cuts, Len(lines), sub[n].cut)
           Q == Missed(sub[n], Announced)
<1>1. cur = n /\ sub[n].mode = "replay" /\ sub[n].at = "read" /\ UNCHANGED wire /\ Advances(n, r)
      /\ sub[n].pos = EndOf(sub[n].cut)
  BY DEF EndOfFile, At, Current
<1>2. sub[n] \in SubRecords /\ wire \in Seq(Frames) /\ told \in Nat /\ cur # 0 /\ CurOK(sub[n], Announced)
      /\ Announced \in Nat /\ Len(lines) \in Nat /\ FileFrom \in Nat
  BY <1>1, Replaying
<1>3. sub[n].first >= 1 /\ sub[n].first <= Len(lines) + 1 /\ sub[n].cut <= Len(cuts) /\ sub[n].cut \in Nat
      /\ sub[n].pos \in Nat
  BY <1>1, <1>2, SubTypes DEF CurOK, InFile
<1>4. B \in Nat /\ E \in Nat /\ sub[n].pos = E
  BY <1>1, <1>3, EndFacts DEF StreamInv
<1>5. /\ r \in SubRecords /\ r.last = sub[n].last /\ r.queue = sub[n].queue /\ r.epoch = sub[n].epoch
      /\ r.mode = "replay" /\ r.at = "end" /\ r.first = sub[n].first
  BY <1>1, <1>2 DEF SubRecords
<1> HIDE DEF r
<1>6. Phase(r) /\ InFile(r)
  BY <1>5 DEF Phase, InFile
<1>7. StreamInv' /\ (FairInv /\ SubFair(r, wire, told, Announced) => FairInv')
  BY <1>1, <1>3, <1>5, <1>6, SilentTurn
<1>8. ASSUME FairInv PROVE SubFair(r, wire, told, Announced)
  <2>1. /\ Counted(wire, told, sub[n].last + 1, Len(wire) + 1)
        /\ Counted(wire, told, sub[n].first, Len(wire) + 1)
        /\ Q <= E /\ (sub[n].pos = B \/ Counted(wire, told, sub[n].pos + 1, Len(wire) + 1))
    BY <1>1, <1>2, <1>8 DEF FairInv, SubFair
  <2>2. Q \in Nat /\ Missed(r, Announced) = Q
    BY <1>2, <1>5, SubTypes DEF Missed, CurOK, InLine
  <2>3. CASE Counted(wire, told, sub[n].pos + 1, Len(wire) + 1)
    <3>1. Q + 1 \in Nat /\ E + 1 \in Nat /\ Q + 1 <= E + 1 /\ Len(wire) + 1 \in Nat
      BY <1>2, <1>4, <2>1, <2>2
    <3>2. Counted(wire, told, Q + 1, Len(wire) + 1)
      BY <1>2, <1>4, <2>3, <3>1, CountedLess
    <3> QED
      BY <1>5, <2>1, <2>2, <3>2 DEF SubFair
  <2>4. CASE sub[n].pos = B /\ sub[n].cut # 0
    <3>1. sub[n].cut \in 1..Len(cuts) /\ B = cuts[sub[n].cut]
      BY <1>3, <2>4 DEF Begin
    <3>2. B <= FileFrom
      BY <3>1 DEF StreamInv, FileInv, Heads
    <3>3. Q <= FileFrom
      BY <1>2, <1>4, <2>1, <2>2, <2>4, <3>2
    <3> QED
      BY <1>5, <2>1, <2>2, <3>3 DEF SubFair
  <2>5. CASE sub[n].pos = B /\ sub[n].cut = 0
    <3>1. B = 0
      BY <2>5 DEF Begin
    <3>2. Q <= FileFrom
      BY <1>2, <1>4, <2>1, <2>2, <2>5, <3>1
    <3> QED
      BY <1>5, <2>1, <2>2, <3>2 DEF SubFair
  <2> QED
    BY <2>1, <2>3, <2>4, <2>5
<1> QED
  BY <1>7, <1>8

LEMMA ReadLineTurn ==
  ASSUME StreamInv, NEW n \in Slots, ReadLine(n)
  PROVE  StreamInv' /\ (FairInv => FairInv')
<1> DEFINE p == sub[n].pos + 1
           l == lines[p]
           s == [sub[n] EXCEPT !.pos = p]
           B == Begin(cuts, sub[n].cut)
           E == End(cuts, Len(lines), sub[n].cut)
           Q == Missed(sub[n], Announced)
<1>1. cur = n /\ sub[n].mode = "replay" /\ sub[n].at = "read" /\ sub[n].pos < EndOf(sub[n].cut)
  BY DEF ReadLine, At, Current
<1>2. sub[n] \in SubRecords /\ wire \in Seq(Frames) /\ told \in Nat /\ cur # 0 /\ CurOK(sub[n], Announced)
      /\ Announced \in Nat /\ Len(lines) \in Nat /\ FileFrom \in Nat /\ lines \in Seq(Lines) /\ Numbered
  BY <1>1, Replaying
<1>3. sub[n].first >= 1 /\ sub[n].first <= Len(lines) + 1 /\ sub[n].cut <= Len(cuts) /\ sub[n].cut \in Nat
      /\ sub[n].pos \in Nat /\ sub[n].last \in Nat /\ sub[n].first \in Nat /\ sub[n].last <= Len(lines)
      /\ sub[n].epoch = epoch /\ sub[n].epoch \in Nat
  BY <1>1, <1>2, SubTypes DEF CurOK, InFile
<1>4. /\ B \in Nat /\ E \in Nat /\ sub[n].pos < E /\ E <= Len(lines)
      /\ sub[n].cut > 0 /\ B < Len(lines) => lines[B + 1].kind = "rotated"
  BY <1>1, <1>3, EndFacts DEF StreamInv
<1>5. p \in 1..Len(lines) /\ p <= E /\ l \in Lines /\ l.seq = p /\ l.kind \in {"event", "rotated"}
  <2>1. p \in 1..Len(lines) /\ p <= E
    <3> HIDE DEF E
    <3>1. p \in Nat /\ 1 <= p /\ p <= E
      BY <1>3, <1>4, SMTT(30)
    <3> QED BY <1>2, <1>4, <3>1
  <2>2. l \in Lines
    BY <1>2, <2>1, ElementOfSeq
  <2> QED
    BY <1>2, <2>1, <2>2 DEF Numbered, Lines
<1>6. /\ s \in SubRecords /\ s.last = sub[n].last /\ s.queue = sub[n].queue /\ s.epoch = sub[n].epoch
      /\ s.mode = "replay" /\ s.at = "read" /\ s.first = sub[n].first /\ s.cut = sub[n].cut /\ s.pos = p
  <2>1. p \in Nat
    BY <1>3
  <2> HIDE DEF p
  <2> QED
    BY <1>1, <1>2, <2>1 DEF SubRecords
<1>7. ASSUME FairInv
      PROVE  /\ Counted(wire, told, sub[n].last + 1, Len(wire) + 1)
             /\ Counted(wire, told, sub[n].first, Len(wire) + 1)
             /\ B <= sub[n].pos /\ Q <= E
             /\ sub[n].pos = B \/ Counted(wire, told, p, Len(wire) + 1)
  BY <1>1, <1>2, <1>7 DEF FairInv, SubFair
<1>8. CASE ~Wanted(sub[n], l)
  <2>1. UNCHANGED wire /\ Advances(n, s)
    BY <1>8 DEF ReadLine
  <2>2. p <= sub[n].last \/ p < sub[n].first
    BY <1>3, <1>5, <1>8 DEF Wanted, Readable
  <2> HIDE DEF s, p, l
  <2>3. Phase(s) /\ InFile(s)
    BY <1>3, <1>5, <1>6 DEF Phase, InFile
  <2>4. StreamInv' /\ (FairInv /\ SubFair(s, wire, told, Announced) => FairInv')
    BY <1>1, <1>3, <1>6, <2>1, <2>3, SilentTurn
  <2>5. ASSUME FairInv PROVE SubFair(s, wire, told, Announced)
    <3>1. p + 1 \in Nat /\ Len(wire) + 1 \in Nat /\ sub[n].last + 1 \in Nat
      BY <1>2, <1>3, <1>5, SMTT(30)
    <3>2. Counted(wire, told, p + 1, Len(wire) + 1)
      <4>1. CASE p <= sub[n].last
        <5>1. p + 1 <= sub[n].last + 1
          BY <1>3, <1>5, <4>1
        <5> QED
          BY <1>2, <1>7, <2>5, <3>1, <5>1, CountedLess
      <4>2. CASE p < sub[n].first
        <5>1. p + 1 <= sub[n].first
          BY <1>3, <1>5, <4>2
        <5> QED
          BY <1>2, <1>3, <1>7, <2>5, <3>1, <5>1, CountedLess, SMTT(30)
      <4> QED
        BY <2>2, <4>1, <4>2
    <3>3. B <= p /\ Missed(s, Announced) = Q
      <4>1. B <= sub[n].pos
        BY <1>7, <2>5
      <4> QED
        BY <1>3, <1>4, <1>6, <4>1 DEF Missed, p
    <3> QED
      BY <1>6, <1>7, <2>5, <3>2, <3>3 DEF SubFair
  <2> QED
    BY <2>4, <2>5
<1>9. CASE Wanted(sub[n], l)
  <2> DEFINE f == Frame("event", l.seq, l.kind, s)
             r == [s EXCEPT !.last = l.seq]
  <2>1. wire' = Append(wire, f) /\ Advances(n, r)
    BY <1>9 DEF ReadLine
  <2>2. p > sub[n].last /\ p >= sub[n].first
    BY <1>5, <1>9 DEF Wanted
  <2> HIDE DEF s, p, l
  <2>3. f \in Frames /\ f.epoch = epoch /\ f.type = "event" /\ f.seq = p /\ f.kind = l.kind /\ f.first = sub[n].first
    BY <1>3, <1>5, <1>6 DEF Frame, Frames
  <2>4. /\ r \in SubRecords /\ r.last = p /\ r.queue = sub[n].queue /\ r.epoch = sub[n].epoch
        /\ r.mode = "replay" /\ r.at = "read" /\ r.first = sub[n].first /\ r.cut = sub[n].cut /\ r.pos = p
    BY <1>5, <1>6 DEF SubRecords
  <2> HIDE DEF r, f
  <2>5. Phase(r) /\ InFile(r)
    BY <1>3, <1>5, <2>4 DEF Phase, InFile
  <2>6. /\ StreamInv'
        /\ /\ FairInv
           /\ FrameFair(wire \o <<f>>, told, Len(wire) + 1)
           /\ SubFair(r, wire \o <<f>>, told, Announced)
           => FairInv'
    <3>1. /\ r.last >= sub[n].last /\ r.last <= Len(lines) /\ f.seq <= Len(lines)
          /\ sub[n].last < f.seq /\ f.seq <= r.last /\ f.seq >= 1 /\ f.kind = lines[f.seq].kind
      BY <1>3, <1>5, <2>2, <2>3, <2>4 DEF l
    <3> QED
      BY <1>1, <1>3, <2>1, <2>3, <2>4, <2>5, <3>1, OneTurn
  <2>7. ASSUME FairInv
        PROVE  SubFair(r, wire \o <<f>>, told, Announced) /\ FrameFair(wire \o <<f>>, told, Len(wire) + 1)
    <3> DEFINE F == <<f>>
               v == wire \o F
    <3>1. F \in Seq(Frames) /\ Len(F) = 1 /\ F[1] = f
      BY <1>2, <2>3, OneFrame
    <3>2. v \in Seq(Frames) /\ Len(v) = Len(wire) + 1 /\ v[Len(wire) + 1] = f /\ Len(wire) \in Nat
      BY <1>2, <3>1, Joined
    <3> HIDE DEF F
    <3>3. Counted(v, told, p + 1, Len(v) + 1)
      <4>1. 1 \in 1..Len(F) /\ F[1].type \in {"event", "gap"} /\ p + 1 <= F[1].seq + 1 /\ p + 1 \in Nat
            /\ Len(wire) + 1 < Len(v) + 1 /\ Len(v) + 1 \in Nat
        BY <1>5, <2>3, <3>1, <3>2
      <4> QED
        BY <1>2, <3>1, <4>1, CountedSent
    <3>4. Counted(v, told, sub[n].first, Len(v) + 1)
      BY <1>2, <1>3, <1>7, <2>7, <3>1, StillCounted
    <3>5. \A k \in Nat : Counted(wire, told, k, Len(wire) + 1) => Counted(v, told, k, Len(wire) + 1)
      BY <1>2, <3>1, <3>2, CountedMore
    <3> HIDE DEF v
    <3>6. B <= p /\ Missed(r, Announced) = Q /\ Q <= E
      <4>1. B <= sub[n].pos /\ Q <= E
        BY <1>7, <2>7
      <4> QED
        BY <1>3, <1>4, <2>4, <4>1 DEF Missed, p
    <3>7. SubFair(r, v, told, Announced)
      BY <2>4, <3>3, <3>4, <3>6 DEF SubFair
    <3>8. \/ Counted(v, told, p, Len(wire) + 1)
          \/ l.kind = "rotated" /\ Counted(v, told, sub[n].first, Len(wire) + 1)
      <4>1. CASE Counted(wire, told, p, Len(wire) + 1)
        BY <1>5, <3>5, <4>1
      <4>2. CASE sub[n].pos = B /\ sub[n].cut = 0
        <5>1. p = 1
          BY <4>2 DEF p, Begin
        <5> QED
          BY <1>2, <5>1 DEF Counted
      <4>3. CASE sub[n].pos = B /\ sub[n].cut # 0
        <5>1. p = B + 1 /\ B < Len(lines)
          BY <1>2, <1>4, <1>5, <4>3 DEF p
        <5>2. l.kind = "rotated"
          BY <1>3, <1>4, <4>3, <5>1 DEF l
        <5> QED
          BY <1>3, <1>7, <2>7, <3>5, <5>2
      <4> QED
        BY <1>7, <2>7, <4>1, <4>2, <4>3
    <3>9. FrameFair(v, told, Len(wire) + 1)
      BY <2>3, <3>2, <3>8 DEF FrameFair
    <3> QED
      BY <3>7, <3>9 DEF v, F
  <2> QED
    BY <2>6, <2>7
<1> QED
  BY <1>8, <1>9

-----------------------------------------------------------------------------
(* sendLive().                                                              *)

\* The first line of a file is its `gap rotated`, unless nothing was rotated.
LEMMA HeadFacts ==
  ASSUME FileInv, NEW k \in Nat, k = FileFrom + 1, k <= Len(lines)
  PROVE  k = 1 \/ lines[k].kind = "rotated"
<1>1. cuts \in Seq(Nat) /\ FileFrom \in Nat /\ Len(cuts) \in Nat /\ Len(lines) \in Nat
  <2>1. cuts \in Seq(Nat)
    BY DEF FileInv, LogTypes
  <2>2. Len(cuts) \in Nat
    BY <2>1
  <2> QED
    BY <2>1, <2>2, FirstEntry
<1>2. CASE Len(cuts) = 0
  BY <1>1, <1>2, FromFacts DEF Begin
<1>3. CASE Len(cuts) # 0
  <2>1. Len(cuts) \in 1..Len(cuts) /\ FileFrom = cuts[Len(cuts)]
    BY <1>1, <1>3, FromFacts DEF Begin
  <2>2. cuts[Len(cuts)] < Len(lines)
    BY <1>1, <2>1
  <2> QED
    BY <2>1, <2>2 DEF FileInv, Heads
<1> QED
  BY <1>2, <1>3

\* Where sending resumes: what the file gave ends there, or nothing held was
\* given, or all of it was.
LEMMA SentFacts ==
  ASSUME lines \in Seq(Lines), Numbered, NEW m \in Nat, m <= Len(lines), NEW r \in SubRecords, InLine(r.queue, m)
  PROVE  /\ Sent(r, m) \in Nat /\ Sent(r, m) <= m /\ Missed(r, m) \in Nat
         /\ \/ Sent(r, m) = Missed(r, m) /\ r.last <= Sent(r, m)
            \/ r.last = Sent(r, m)
            \/ Sent(r, m) = m /\ r.last >= m
<1> DEFINE g == Given(r)
<1>1. Len(r.queue) \in Nat /\ Len(r.queue) <= m /\ r.last \in Nat
  BY SubTypes DEF InLine
<1>2. /\ g \in 0..Len(r.queue)
      /\ \/ g = 0 /\ r.last <= m - Len(r.queue)
         \/ r.last = Sent(r, m)
         \/ g = Len(r.queue) /\ r.last >= m
  BY GivenFacts
<1>3. Sent(r, m) = m - Len(r.queue) + g /\ Missed(r, m) = m - Len(r.queue)
  BY DEF Sent, Missed
<1> DEFINE d == Len(r.queue)
           s == Sent(r, m)
           q == Missed(r, m)
<1>3a. s = m - d + g /\ q = m - d /\ d \in Nat /\ d <= m
  BY <1>1, <1>3
<1>3b. g \in 0..d /\ ((g = 0 /\ r.last <= m - d) \/ r.last = s \/ (g = d /\ r.last >= m))
  BY <1>2
<1> HIDE DEF g, d, s, q
<1>4. /\ d \in Nat /\ d <= m /\ g \in Nat /\ g <= d /\ s = m - d + g /\ q = m - d
      /\ \/ g = 0 /\ r.last <= m - d
         \/ r.last = s
         \/ g = d /\ r.last >= m
  BY <1>3a, <1>3b
<1>5. s \in Nat /\ s <= m /\ q \in Nat /\ (g = 0 => s = q) /\ (g = d => s = m)
  BY <1>4
<1> QED
  BY <1>1, <1>4, <1>5 DEF s, q

LEMMA LiveTurn ==
  ASSUME StreamInv, cur # 0, NEW r \in SubRecords, NEW m \in Nat, m <= Len(lines),
         SendAll(r), UNCHANGED <<disk, cur, epoch, conn, up, client>>, Announced' = m, FileInv',
         r.last = sub[cur].last, r.epoch = epoch, r.mode = "live", r.at = "done", InLine(r.queue, m)
  PROVE  StreamInv' /\ (FairInv /\ SubFair(r, wire, told, m) => FairInv')
<1>1. /\ lines \in Seq(Lines) /\ Numbered /\ wire \in Seq(Frames) /\ told \in Nat /\ FileInv
      /\ FileFrom \in Nat /\ Len(lines) \in Nat /\ r.last \in Nat /\ r.first \in Nat /\ r.epoch \in Nat
      /\ sub[cur].last <= Len(lines) /\ SocketTypes
  <2>1. CurOK(sub[cur], Announced)
    BY DEF StreamInv, CurInv
  <2> QED
    BY <2>1, FirstEntry, SubTypes DEF StreamInv, SocketTypes, FileInv, LogTypes, CurOK
<1> DEFINE s == Sent(r, m)
           q == Missed(r, m)
<1>2. /\ s \in Nat /\ s <= m /\ q \in Nat
      /\ (s = q /\ r.last <= s) \/ r.last = s \/ (s = m /\ r.last >= m)
  BY <1>1, SentFacts
<1>3. PICK k \in 0..(m - s), F \in Seq(Frames), r2 \in SubRecords : SentTo(r, m, k, F, r2)
  BY <1>1, SendAllEffect
<1>4. /\ wire' = wire \o F /\ sub' = [sub EXCEPT ![cur] = r2] /\ Len(F) = k
      /\ \A i \in 1..k : F[i] = Frame("event", s + i, lines[s + i].kind, r)
      /\ r2.queue = <<>> /\ r2.epoch = r.epoch /\ r2.first = r.first
      /\ r2.last = IF k = 0 THEN r.last ELSE s + k
      /\ \/ k = m - s /\ r2.mode = "live" /\ r2.at = "done"
         \/ k < m - s /\ r2.mode = "paused" /\ r2.at = "poll"
  BY <1>3 DEF SentTo
<1> HIDE DEF s
<1>5. \A i \in 1..k : /\ F[i].type = "event" /\ F[i].seq = s + i /\ F[i].kind = lines[s + i].kind
                      /\ F[i].epoch = epoch /\ F[i].first = r.first
  BY <1>4 DEF Frame
<1>6. k \in Nat /\ k <= m - s /\ (k > 0 => r.last <= s) /\ r2.last \in Nat /\ r.last <= r2.last /\ r2.last <= Len(lines)
  <2>1. k \in Nat /\ k <= m - s
    BY <1>2
  <2>2. k > 0 => r.last <= s
    BY <1>1, <1>2, <2>1
  <2>3. r.last <= Len(lines)
    BY <1>1
  <2>4. CASE k = 0
    BY <1>1, <1>4, <2>1, <2>3, <2>4
  <2>5. CASE k > 0
    <3>1. r2.last = s + k /\ r.last <= s
      BY <1>4, <2>2, <2>5
    <3> QED BY <1>1, <1>2, <2>1, <2>5, <3>1
  <2> QED BY <2>1, <2>4, <2>5
<1>7. Phase(r2) /\ InFile(r2) /\ r2.at \notin {"gap", "open", "read", "end"} /\ InLine(r2.queue, m)
  BY <1>4 DEF Phase, InFile, InLine
<1>8. FramesOK(F)
  <2> SUFFICES ASSUME NEW i \in 1..k
               PROVE  F[i].seq <= Len(lines) /\ F[i].seq >= 1 /\ F[i].kind = lines[F[i].seq].kind
    BY <1>4 DEF FramesOK
  <2>1. s + i <= Len(lines) /\ s + i >= 1
    BY <1>1, <1>2, <1>6
  <2> QED
    BY <1>5, <2>1
<1>9. /\ \A i \in 1..Len(F) : F[i].epoch = epoch
           /\ (F[i].type = "event" => sub[cur].last < F[i].seq /\ F[i].seq <= r2.last)
      /\ \A i, j \in 1..Len(F) : i < j => F[i].seq < F[j].seq
  <2>1. \A i \in 1..k : r.last < s + i /\ s + i <= r2.last
    BY <1>1, <1>2, <1>4, <1>6
  <2>2. \A i, j \in 1..k : i < j => s + i < s + j
    BY <1>2
  <2> QED
    BY <1>4, <1>5, <2>1, <2>2
<1>10. SocketTypes' /\ OrderInv' /\ CurInv'
  BY <1>4, <1>6, <1>7, <1>8, <1>9, TurnOrder
<1>11. ASSUME FairInv, SubFair(r, wire, told, m) PROVE FairInv'
  <2> DEFINE v == wire \o F
             n == Len(wire)
  <2>1. v \in Seq(Frames) /\ Len(v) = n + k /\ n \in Nat
        /\ \A i \in 1..k : v[n + i] = F[i]
    BY <1>1, <1>4, Joined
  <2>2. /\ Counted(wire, told, r.last + 1, n + 1) /\ Counted(wire, told, r.first, n + 1)
        /\ Counted(wire, told, q + 1, n + 1) \/ q <= FileFrom
    BY <1>11 DEF SubFair
  <2>3. \A j \in Nat : Counted(wire, told, j, n + 1) => Counted(v, told, j, n + 1) /\ Counted(v, told, j, Len(v) + 1)
    <3> TAKE j \in Nat
    <3>1. n + 1 \in Nat /\ n + 1 <= n + 1
      BY <2>1
    <3>2. Counted(wire, told, j, n + 1) => Counted(v, told, j, n + 1)
      BY <1>1, <3>1, CountedMore
    <3> QED
      BY <1>1, <3>2, StillCounted
  <2>4. \A j \in 1..k, i \in Nat : n + j < i => Counted(v, told, s + j + 1, i)
    <3> SUFFICES ASSUME NEW j \in 1..k, NEW i \in Nat, n + j < i PROVE Counted(v, told, s + j + 1, i)
      OBVIOUS
    <3>1. j \in 1..Len(F) /\ F[j].type \in {"event", "gap"} /\ s + j + 1 <= F[j].seq + 1 /\ s + j + 1 \in Nat
      BY <1>2, <1>4, <1>5
    <3> QED
      BY <1>1, <3>1, CountedSent
  <2> HIDE DEF v, n, q
  <2>5. ASSUME NEW i \in 1..k PROVE FrameFair(v, told, n + i)
    <3>1. /\ v[n + i].type = "event" /\ v[n + i].seq = s + i /\ v[n + i].kind = lines[s + i].kind
          /\ v[n + i].first = r.first
      BY <1>5, <2>1
    <3>2. CASE i = 1
      <4>1. s < m
        BY <1>2, <1>6, <3>2
      <4>2. CASE r.last = s
        <5>1. Counted(v, told, s + 1, n + 1)
          BY <1>2, <2>2, <2>3, <4>2
        <5> QED
          BY <3>1, <3>2, <5>1 DEF FrameFair
      <4>3. CASE s = q
        <5>1. CASE Counted(wire, told, q + 1, n + 1)
          <6>1. Counted(v, told, s + 1, n + 1)
            BY <1>2, <2>3, <4>3, <5>1
          <6> QED
            BY <3>1, <3>2, <6>1 DEF FrameFair
        <5>2. CASE s + 1 <= FileFrom
          BY <3>1, <3>2, <5>2 DEF FrameFair
        <5>3. CASE s = FileFrom
          <6>1. s + 1 = 1 \/ lines[s + 1].kind = "rotated"
            <7>1. s + 1 \in Nat /\ s + 1 = FileFrom + 1 /\ s + 1 <= Len(lines)
              BY <1>1, <1>2, <4>1, <5>3
            <7> QED
              BY <1>1, <7>1, HeadFacts
          <6>2. CASE s + 1 = 1
            <7>1. Counted(v, told, s + 1, n + 1)
              BY <1>1, <6>2 DEF Counted
            <7> QED
              BY <3>1, <3>2, <7>1 DEF FrameFair
          <6>3. CASE lines[s + 1].kind = "rotated"
            <7>1. Counted(v, told, r.first, n + 1)
              BY <1>1, <2>2, <2>3
            <7> QED
              BY <3>1, <3>2, <6>3, <7>1 DEF FrameFair
          <6> QED
            BY <6>1, <6>2, <6>3
        <5> QED
          BY <1>1, <1>2, <2>2, <4>3, <5>1, <5>2, <5>3
      <4> QED
        BY <1>2, <4>1, <4>2, <4>3
    <3>3. CASE i # 1
      <4>1. i - 1 \in 1..k /\ n + (i - 1) < n + i /\ n + i \in Nat /\ s + (i - 1) + 1 = s + i
        BY <1>2, <1>6, <2>1, <3>3
      <4>2. Counted(v, told, s + (i - 1) + 1, n + i)
        BY <2>4, <4>1
      <4> QED
        BY <3>1, <4>1, <4>2 DEF FrameFair
    <3> QED
      BY <3>2, <3>3
  <2>6. Counted(v, told, r2.last + 1, Len(v) + 1)
    <3>1. CASE k = 0
      BY <1>1, <1>4, <2>2, <2>3, <3>1
    <3>2. CASE k # 0
      <4>1. k \in 1..k /\ n + k < Len(v) + 1 /\ Len(v) + 1 \in Nat /\ r2.last = s + k
        BY <1>4, <1>6, <2>1, <3>2
      <4> QED
        BY <2>4, <4>1
    <3> QED
      BY <3>1, <3>2
  <2>7. r2.mode = "live" => Counted(v, told, m + 1, Len(v) + 1) \/ m <= FileFrom
    <3> SUFFICES ASSUME r2.mode = "live" PROVE Counted(v, told, m + 1, Len(v) + 1) \/ m <= FileFrom
      OBVIOUS
    <3>1. k = m - s
      BY <1>4
    <3>2. CASE m <= r2.last
      <4>1. Len(v) + 1 \in Nat /\ m + 1 <= r2.last + 1 /\ m + 1 \in Nat /\ r2.last + 1 \in Nat
        BY <1>6, <2>1, <3>2, SMTT(30)
      <4> QED
        BY <1>1, <2>1, <2>6, <4>1, CountedLess
    <3>3. CASE ~(m <= r2.last)
      <4>1. k = 0 /\ s = m
        BY <1>2, <1>4, <1>6, <3>1, <3>3
      <4>2. s = q
        BY <1>2, <1>4, <3>3, <4>1
      <4> QED
        BY <1>2, <2>2, <2>3, <4>1, <4>2
    <3> QED
      BY <3>2, <3>3
  <2>8. Missed(r2, m) = m
    BY <1>4 DEF Missed
  <2>9. Counted(v, told, r2.first, Len(v) + 1)
    BY <1>1, <1>4, <2>2, <2>3
  <2>10. SubFair(r2, v, told, m)
    <3>1. r2.at \notin {"open", "read", "end"}
      BY <1>4
    <3> QED
      BY <2>6, <2>7, <2>8, <2>9, <3>1 DEF SubFair
  <2>11. \A i \in 1..Len(F) : FrameFair(v, told, n + i)
    BY <1>4, <2>5
  <2> QED
    BY <1>4, <1>11, <2>10, <2>11, TurnFair DEF v, n
<1> QED
  BY <1>10, <1>11 DEF StreamInv

LEMMA GoLiveTurn ==
  ASSUME StreamInv, NEW n \in Slots, GoLive(n)
  PROVE  StreamInv' /\ (FairInv => FairInv')
<1> DEFINE r == [sub[n] EXCEPT !.mode = "live", !.at = "done"]
<1>1. cur = n /\ sub[n].at = "end" /\ SendAll(r) /\ UNCHANGED <<lvars, cur, epoch, conn, up, client>>
  BY DEF GoLive, At, Current
<1>2. /\ cur # 0 /\ sub[n] \in SubRecords /\ CurOK(sub[n], Announced)
      /\ Announced \in Nat /\ Announced <= Len(lines)
  BY <1>1, Replaying
<1>3. /\ r \in SubRecords /\ r.last = sub[n].last /\ r.queue = sub[n].queue /\ r.epoch = sub[n].epoch
      /\ r.mode = "live" /\ r.at = "done" /\ r.first = sub[n].first
  BY <1>2 DEF SubRecords
<1> HIDE DEF r
<1>4. FileInv' /\ Announced' = Announced /\ UNCHANGED disk
  BY <1>1, FileStill DEF StreamInv, lvars, disk
<1>5. StreamInv' /\ (FairInv /\ SubFair(r, wire, told, Announced) => FairInv')
  BY <1>1, <1>2, <1>3, <1>4, LiveTurn DEF CurOK
<1>6. FairInv => SubFair(r, wire, told, Announced)
  BY <1>1, <1>2, <1>3 DEF FairInv, SubFair, Missed
<1> QED
  BY <1>5, <1>6

-----------------------------------------------------------------------------
(* The log's steps, as the socket sees them.                                *)

\* The log moves on and the socket does not hear of it.
LEMMA LogOnly ==
  ASSUME StreamInv, FileInv', Grows, UNCHANGED svars, cur = 0 \/ Announced' = Announced
  PROVE  StreamInv' /\ (FairInv => FairInv')
<1>1. UNCHANGED <<sub, cur, epoch, conn, wire, up, after, told, skipped>>
  BY DEF svars, client
<1>2. /\ Len(lines) \in Nat /\ Len(lines') \in Nat /\ FileFrom \in Nat /\ FileFrom' \in Nat /\ Announced \in Nat
      /\ Len(cuts) \in Nat /\ Len(cuts') \in Nat /\ Announced <= Len(lines) /\ told \in Nat /\ after \in Nat
      /\ wire \in Seq(Frames) /\ up \in Seq(Nat)
  <2>1. cuts \in Seq(Nat) /\ cuts' \in Seq(Nat) /\ lines \in Seq(Lines) /\ lines' \in Seq(Lines)
    BY DEF StreamInv, FileInv, LogTypes
  <2>2. FileFrom \in Nat /\ FileFrom' \in Nat
    BY <2>1, FromFacts DEF FileFrom, Last
  <2>3. Announced \in Nat /\ Len(lines) \in Nat
    BY FirstEntry DEF StreamInv
  <2>4. Announced <= Len(lines)
    BY <2>3 DEF StreamInv, FileInv, IndexFollows
  <2>5. Len(cuts) \in Nat /\ Len(cuts') \in Nat /\ Len(lines') \in Nat
    BY <2>1
  <2> QED
    BY <2>2, <2>3, <2>4, <2>5 DEF StreamInv, SocketTypes
<1>3. /\ Len(lines) <= Len(lines') /\ \A i \in 1..Len(lines) : lines'[i] = lines[i]
      /\ Len(cuts) <= Len(cuts') /\ \A k \in 1..Len(cuts) : cuts'[k] = cuts[k]
      /\ FileFrom <= FileFrom'
      /\ \A k \in 0..Len(cuts) : End(cuts, Len(lines), k) <= End(cuts', Len(lines'), k)
  BY DEF Grows
<1>4. SocketTypes'
  BY <1>1 DEF StreamInv, SocketTypes
<1>5. FramesOK(wire)'
  <2> SUFFICES ASSUME NEW i \in 1..Len(wire)
               PROVE  /\ wire[i].seq <= Len(lines')
                      /\ wire[i].type = "event" => wire[i].seq >= 1 /\ wire[i].kind = lines'[wire[i].seq].kind
    BY <1>1 DEF FramesOK
  <2>1. /\ wire[i].seq <= Len(lines) /\ wire[i].seq \in Nat
        /\ wire[i].type = "event" => wire[i].seq >= 1 /\ wire[i].kind = lines[wire[i].seq].kind
    BY <1>2, FrameTypes DEF StreamInv, OrderInv, FramesOK
  <2>2. wire[i].type = "event" => lines'[wire[i].seq] = lines[wire[i].seq]
    BY <1>2, <1>3, <2>1
  <2> QED
    BY <1>2, <1>3, <2>1, <2>2
<1>6. Within'
  <2>1. \A i \in 1..Len(up) : up[i] \in Nat
    BY <1>2, ElementOfSeq
  <2> QED
    BY <1>1, <1>2, <1>3, <2>1 DEF StreamInv, OrderInv, Within
<1>7. OrderInv'
  BY <1>1, <1>5, <1>6 DEF StreamInv, OrderInv
<1>8. ASSUME cur # 0
      PROVE  /\ CurOK(sub[cur], Announced) /\ sub[cur] \in SubRecords /\ sub[cur].cut \in Nat /\ sub[cur].pos \in Nat
             /\ sub[cur].last \in Nat /\ sub[cur].first \in Nat /\ Announced' = Announced
             /\ InFile(sub[cur]) /\ InLine(sub[cur].queue, Announced) /\ Len(sub[cur].queue) \in Nat
  BY <1>8, CurType, SubTypes DEF StreamInv, CurInv, CurOK
<1>9. ASSUME NEW c \in Nat, c <= Len(cuts)
      PROVE  /\ End(cuts, Len(lines), c) \in Nat /\ End(cuts', Len(lines'), c) \in Nat
             /\ End(cuts, Len(lines), c) <= End(cuts', Len(lines'), c) /\ Begin(cuts', c) = Begin(cuts, c)
  <2>1. cuts \in Seq(Nat) /\ cuts' \in Seq(Nat)
    BY DEF StreamInv, FileInv, LogTypes
  <2>2. End(cuts, Len(lines), c) \in Nat /\ End(cuts', Len(lines'), c) \in Nat
    BY <1>2, <1>3, <1>9, <2>1, SMTT(30) DEF End
  <2>3. Begin(cuts', c) = Begin(cuts, c)
    BY <1>2, <1>3, <1>9 DEF Begin
  <2>4. c \in 0..Len(cuts)
    BY <1>2, <1>9
  <2> QED
    BY <1>3, <2>2, <2>3, <2>4
<1>10. CurInv'
  <2> SUFFICES ASSUME cur # 0 PROVE CurOK(sub[cur], Announced)'
    BY <1>1 DEF CurInv
  <2> DEFINE r == sub[cur]
  <2>1. InFile(r)'
    <3> SUFFICES ASSUME r.at = "read" PROVE r.cut <= Len(cuts') /\ r.pos <= End(cuts', Len(lines'), r.cut)
      BY <1>1 DEF InFile
    <3>1. r.cut <= Len(cuts) /\ r.pos <= End(cuts, Len(lines), r.cut) /\ r.cut \in Nat /\ r.pos \in Nat
      BY <1>8 DEF InFile
    <3>2. End(cuts, Len(lines), r.cut) <= End(cuts', Len(lines'), r.cut)
          /\ End(cuts, Len(lines), r.cut) \in Nat /\ End(cuts', Len(lines'), r.cut) \in Nat
      BY <1>9, <3>1
    <3> HIDE DEF r
    <3> QED
      BY <1>2, <1>3, <3>1, <3>2
  <2>2. InLine(r.queue, Announced)'
    <3>1. Len(r.queue) <= Announced /\ \A i \in 1..Len(r.queue) : r.queue[i] = lines[Announced - Len(r.queue) + i]
      BY <1>8 DEF InLine
    <3>2. Len(r.queue) \in Nat
      BY <1>8
    <3> HIDE DEF r
    <3>3. \A i \in 1..Len(r.queue) : Announced - Len(r.queue) + i \in 1..Len(lines)
      BY <1>2, <3>1, <3>2, SMTT(30)
    <3>4. \A i \in 1..Len(r.queue) : r.queue[i] = lines'[Announced - Len(r.queue) + i]
      BY <1>3, <3>1, <3>3
    <3>5. InLine(r.queue, Announced') <=> Len(r.queue) <= Announced'
             /\ \A i \in 1..Len(r.queue) : r.queue[i] = lines[Announced' - Len(r.queue) + i]
      BY DEF InLine
    <3>6. r' = r
      BY <1>1 DEF r
    <3> QED
      BY <1>8, <3>1, <3>4, <3>6 DEF InLine
  <2>3. r.last <= Len(lines') /\ (r.first <= Len(lines) + 1 => r.first <= Len(lines') + 1)
    <3>1. r.last <= Len(lines) /\ r.last \in Nat /\ r.first \in Nat
      BY <1>8 DEF CurOK
    <3>2. Len(lines) \in Nat /\ Len(lines') \in Nat /\ Len(lines) <= Len(lines')
      BY <1>2, <1>3
    <3> HIDE DEF r
    <3> QED BY <3>1, <3>2
  <2> QED
    BY <1>1, <1>8, <2>1, <2>2, <2>3 DEF CurOK
<1>11. ASSUME FairInv PROVE FairInv'
  <2>1. ClientInv'
    BY <1>1, <1>2, <1>3, <1>11 DEF FairInv, ClientInv
  <2>2. HoleInv'
    <3> SUFFICES ASSUME NEW s \in skipped PROVE 1 <= s /\ s <= FileFrom' /\ told <= FileFrom'
      BY <1>1 DEF HoleInv
    <3>1. 1 <= s /\ s <= FileFrom /\ told <= FileFrom /\ s \in Nat
      BY <1>11 DEF FairInv, HoleInv, StreamInv, SocketTypes
    <3> QED
      BY <1>2, <1>3, <3>1
  <2>3. Fair(wire, told)'
    <3> SUFFICES ASSUME NEW i \in 1..Len(wire) PROVE FrameFair(wire, told, i)'
      BY <1>1 DEF Fair
    <3>1. FrameFair(wire, told, i) /\ wire[i].seq \in Nat
      BY <1>2, <1>11, FrameTypes DEF FairInv, Fair
    <3>2. wire[i].seq <= FileFrom => wire[i].seq <= FileFrom'
      BY <1>2, <1>3, <3>1
    <3> QED
      BY <1>1, <3>1, <3>2 DEF FrameFair
  <2>4. cur # 0 => SubFair(sub[cur], wire, told, Announced)'
    <3> SUFFICES ASSUME cur # 0 PROVE SubFair(sub[cur], wire, told, Announced)'
      OBVIOUS
    <3> DEFINE r == sub[cur]
               M == Missed(r, Announced)
    <3>1. SubFair(r, wire, told, Announced)
      BY <1>11 DEF FairInv
    <3>2. Missed(r, Announced)' = M /\ M \in Int
      <4>1. r' = r /\ Announced' = Announced /\ Len(r.queue) \in Nat /\ Announced \in Nat
        BY <1>1, <1>2, <1>8
      <4> HIDE DEF r
      <4> QED BY <4>1 DEF Missed
    <3>3. M <= FileFrom => M <= FileFrom'
      BY <1>2, <1>3, <3>2
    <3>4. r.at = "read" => /\ Begin(cuts', r.cut) = Begin(cuts, r.cut)
                           /\ M <= End(cuts, Len(lines), r.cut) => M <= End(cuts', Len(lines'), r.cut)
      <4> SUFFICES ASSUME r.at = "read"
                   PROVE  /\ Begin(cuts', r.cut) = Begin(cuts, r.cut)
                          /\ M <= End(cuts, Len(lines), r.cut) => M <= End(cuts', Len(lines'), r.cut)
        OBVIOUS
      <4>1. r.cut \in Nat /\ r.cut <= Len(cuts)
        BY <1>8 DEF InFile
      <4>2. /\ End(cuts, Len(lines), r.cut) \in Nat /\ End(cuts', Len(lines'), r.cut) \in Nat
            /\ End(cuts, Len(lines), r.cut) <= End(cuts', Len(lines'), r.cut)
            /\ Begin(cuts', r.cut) = Begin(cuts, r.cut)
        BY <1>9, <4>1
      <4> HIDE DEF M, r
      <4> QED
        BY <3>2, <4>2
    <3> QED
      BY <1>1, <3>1, <3>2, <3>3, <3>4 DEF SubFair
  <2> QED
    BY <1>1, <2>1, <2>2, <2>3, <2>4 DEF FairInv
<1> QED
  BY <1>4, <1>7, <1>10, <1>11 DEF StreamInv

\* What is held grows by the line announced.
LEMMA HeldInLine ==
  ASSUME NEW q \in Seq(Lines), NEW m \in Nat, InLine(q, m), m + 1 = Len(lines), lines \in Seq(Lines)
  PROVE  /\ Append(q, lines[m + 1]) \in Seq(Lines) /\ Len(Append(q, lines[m + 1])) = Len(q) + 1
         /\ InLine(Append(q, lines[m + 1]), m + 1)
<1> DEFINE l == lines[m + 1]
           p == Append(q, l)
<1>1. l \in Lines
  BY ElementOfSeq
<1>2. p \in Seq(Lines) /\ Len(p) = Len(q) + 1 /\ p[Len(q) + 1] = l /\ \A i \in 1..Len(q) : p[i] = q[i]
  BY <1>1, AppendProperties
<1>3. Len(q) \in Nat /\ Len(q) <= m /\ \A i \in 1..Len(q) : q[i] = lines[m - Len(q) + i]
  BY DEF InLine
<1> HIDE DEF p
<1>4. ASSUME NEW i \in 1..Len(p) PROVE p[i] = lines[m + 1 - Len(p) + i]
  <2>1. CASE i \in 1..Len(q)
    <3>1. m - Len(q) + i = m + 1 - Len(p) + i
      BY <1>2, <1>3
    <3> QED
      BY <1>2, <1>3, <2>1, <3>1
  <2>2. CASE i = Len(q) + 1
    <3>1. m + 1 - Len(p) + i = m + 1
      BY <1>2, <1>3, <2>2
    <3> QED
      BY <1>2, <2>2, <3>1
  <2> QED
    BY <1>2, <1>3, <2>1, <2>2
<1>5. Len(p) <= m + 1
  BY <1>2, <1>3
<1>6. p = Append(q, lines[m + 1])
  BY DEF p
<1> HIDE DEF l
<1>7. InLine(p, m + 1)
  BY <1>4, <1>5, SMTT(30) DEF InLine
<1> QED
  BY <1>2, <1>6, <1>7

LEMMA AnnounceTurn ==
  ASSUME StreamInv, NEW e \in Entries, Announce(e)
  PROVE  StreamInv' /\ (FairInv => FairInv')
<1> DEFINE m == Announced + 1
           r == sub[cur]
<1>1. /\ FileInv' /\ UNCHANGED disk /\ Announced' = m /\ Last(lines) = lines[m] /\ m = Len(lines)
      /\ UNCHANGED <<cur, epoch, conn, up, client, drops, follows>>
  BY ReturnsInFile DEF Announce, StreamInv
<1>2. Announced \in Nat /\ m \in Nat /\ Len(lines) \in Nat /\ lines \in Seq(Lines) /\ wire \in Seq(Frames) /\ told \in Nat
  <2>1. Announced \in Nat /\ Len(lines) \in Nat
    BY FirstEntry DEF StreamInv
  <2>2. lines \in Seq(Lines) /\ wire \in Seq(Frames) /\ told \in Nat
    BY DEF StreamInv, FileInv, LogTypes, SocketTypes
  <2> QED
    BY <2>1, <2>2
<1>3. CASE cur = 0
  <2>1. UNCHANGED svars
    BY <1>1, <1>3 DEF Announce, svars
  <2>2. Grows
    BY <1>1, StillGrows DEF StreamInv
  <2> QED
    BY <1>1, <1>3, <2>1, <2>2, LogOnly
<1>4. CASE cur # 0
  <2>1. /\ cur \in Slots /\ r \in SubRecords /\ CurOK(r, Announced) /\ sub \in [Slots -> SubRecords]
        /\ r.queue \in Seq(Lines) /\ Len(r.queue) \in Nat /\ Hear(lines[m])
    BY <1>1, <1>4, CurType, SubTypes DEF StreamInv, CurInv, SocketTypes, Announce
  <2>2. /\ r.epoch = epoch /\ Phase(r) /\ InFile(r) /\ InLine(r.queue, Announced)
        /\ r.at \in {"gap", "open", "read", "end"} => r.first >= 1 /\ r.first <= Len(lines) + 1
    BY <2>1 DEF CurOK
  <2> DEFINE q == Append(r.queue, lines[m])
             held == [r EXCEPT !.queue = q]
  <2>3. q \in Seq(Lines) /\ Len(q) = Len(r.queue) + 1 /\ InLine(q, m)
    BY <1>1, <1>2, <2>1, <2>2, HeldInLine
  <2>h. /\ r.mode = "replay" /\ Len(r.queue) >= QueueBudget => sub' = [sub EXCEPT ![cur] = Paused(r)] /\ UNCHANGED wire
        /\ r.mode = "replay" /\ Len(r.queue) < QueueBudget => sub' = [sub EXCEPT ![cur] = held] /\ UNCHANGED wire
        /\ r.mode = "live" => SendAll(held)
        /\ r.mode \in {"off", "paused"} => UNCHANGED <<sub, wire>>
    <3>1. Len(r.queue) \in Nat /\ QueueBudget \in Nat /\ r.mode \in {"replay", "live", "off", "paused"}
      BY <2>1, StreamAssumption DEF SubRecords
    <3>2. CASE r.mode = "replay" /\ Len(r.queue) >= QueueBudget
      <4>1. ~(Len(r.queue) < QueueBudget)
        BY <3>1, <3>2
      <4> QED
        BY <2>1, <3>2, <4>1 DEF Hear
    <3>3. CASE r.mode = "replay" /\ Len(r.queue) < QueueBudget
      <4>1. ~(Len(r.queue) >= QueueBudget)
        BY <3>1, <3>3
      <4> QED
        BY <2>1, <3>3, <4>1 DEF Hear
    <3>4. CASE r.mode = "live"
      BY <2>1, <3>4 DEF Hear
    <3>5. CASE r.mode \in {"off", "paused"}
      BY <2>1, <3>5 DEF Hear
    <3> QED
      BY <3>1, <3>2, <3>3, <3>4, <3>5
  <2> HIDE DEF q
  <2>4. /\ held \in SubRecords /\ held.last = r.last /\ held.epoch = r.epoch /\ held.first = r.first
        /\ held.mode = r.mode /\ held.at = r.at /\ held.cut = r.cut /\ held.pos = r.pos /\ held.queue = q
    BY <2>1, <2>3 DEF SubRecords
  <2>5. Missed(held, m) = Missed(r, Announced)
    <3>1. Len(held.queue) = Len(r.queue) + 1
      BY <2>3, <2>4
    <3>2. Missed(held, m) = m - Len(held.queue) /\ Missed(r, Announced) = Announced - Len(r.queue)
      BY DEF Missed
    <3>3. Len(r.queue) \in Nat /\ Announced \in Nat /\ Len(held.queue) \in Nat
      BY <1>2, <2>1, <2>3, <2>4
    <3> HIDE DEF held, r
    <3>4. \A a, b, c \in Nat : c = b + 1 => (a + 1) - c = a - b
      OBVIOUS
    <3>5. (Announced + 1) - Len(held.queue) = Announced - Len(r.queue)
      BY <3>1, <3>3, <3>4, Zenon
    <3> QED
      BY <3>2, <3>5
  <2>6. FairInv => SubFair(held, wire, told, m)
    BY <1>4, <2>4, <2>5 DEF FairInv, SubFair
  <2> HIDE DEF held
  <2>7. CASE r.mode = "replay" /\ Len(r.queue) >= QueueBudget
    <3> DEFINE x == Paused(r)
    <3>1. /\ x \in SubRecords /\ x.last = r.last /\ x.epoch = r.epoch /\ x.mode = "paused" /\ x.at = "poll"
          /\ x.queue = <<>>
      <4>1. r \in SubRecords
        BY <2>1
      <4> HIDE DEF r
      <4>2. <<>> \in Seq(Lines)
        OBVIOUS
      <4> QED
        BY <4>1, <4>2 DEF SubRecords, Paused
    <3>2. sub' = [sub EXCEPT ![cur] = x] /\ UNCHANGED wire
      BY <2>h, <2>7
    <3> HIDE DEF x
    <3>3. Phase(x) /\ InFile(x) /\ InLine(x.queue, m)
      BY <1>2, <3>1 DEF Phase, InFile, InLine
    <3>4. FairInv => SubFair(x, wire, told, m)
      BY <1>4, <3>1 DEF FairInv, SubFair
    <3>5. StreamInv' /\ (FairInv /\ SubFair(x, wire, told, m) => FairInv')
      BY <1>1, <1>4, <2>2, <3>1, <3>2, <3>3, HoldTurn
    <3> QED
      BY <3>4, <3>5
  <2>8. CASE r.mode = "replay" /\ Len(r.queue) < QueueBudget
    <3>1. sub' = [sub EXCEPT ![cur] = held] /\ UNCHANGED wire
      BY <2>h, <2>8
    <3>2. Phase(held) /\ InFile(held) /\ InLine(held.queue, m)
      BY <2>2, <2>3, <2>4, <2>8 DEF Phase, InFile
    <3>3. StreamInv' /\ (FairInv /\ SubFair(held, wire, told, m) => FairInv')
      BY <1>1, <1>4, <2>2, <2>4, <3>1, <3>2, HoldTurn
    <3> QED
      BY <2>6, <3>3
  <2>9. CASE r.mode = "live"
    <3>1. SendAll(held)
      BY <2>h, <2>9
    <3>2. held.at = "done"
      BY <2>2, <2>4, <2>9 DEF Phase
    <3>3. StreamInv' /\ (FairInv /\ SubFair(held, wire, told, m) => FairInv')
      BY <1>1, <1>2, <1>4, <2>2, <2>3, <2>4, <2>9, <3>1, <3>2, LiveTurn
    <3> QED
      BY <2>6, <3>3
  <2>10. CASE r.mode \in {"off", "paused"}
    <3>1. UNCHANGED wire /\ sub' = [sub EXCEPT ![cur] = r]
      BY <2>1, <2>h, <2>10
    <3>2. r.queue = <<>> /\ r.at \in {"poll", "done"}
      BY <2>2, <2>10 DEF Phase
    <3>3. InLine(r.queue, m)
      BY <1>2, <3>2 DEF InLine
    <3>4. FairInv => SubFair(r, wire, told, m)
      BY <1>4, <2>10, <3>2 DEF FairInv, SubFair
    <3> HIDE DEF r
    <3>5. StreamInv' /\ (FairInv /\ SubFair(r, wire, told, m) => FairInv')
      BY <1>1, <1>4, <2>1, <2>2, <3>1, <3>3, HoldTurn DEF r
    <3> QED
      BY <3>4, <3>5
  <2>11. /\ Len(r.queue) >= QueueBudget \/ Len(r.queue) < QueueBudget
         /\ r.mode \in {"replay", "live", "off", "paused"}
    BY <2>1, StreamAssumption DEF SubRecords
  <2> QED
    BY <2>7, <2>8, <2>9, <2>10, <2>11
<1> QED
  BY <1>3, <1>4

LEMMA LogTurn ==
  ASSUME StreamInv, NEW e \in Entries, LogStep(e) \/ (Enqueue(e) /\ UNCHANGED svars)
  PROVE  StreamInv' /\ (FairInv => FairInv')
<1>1. CASE Announce(e)
  BY <1>1, AnnounceTurn
<1>2. CASE (Drains(e) \/ Enqueue(e)) /\ UNCHANGED svars
  <2>1. FileInv' /\ Grows /\ Announced' = Announced
    BY <1>2, EnqueueFile, DrainFile, LandsInFile, RotateInFile, FlushFile DEF Drains, StreamInv
  <2> QED
    BY <1>2, <2>1, LogOnly
<1> QED
  BY <1>1, <1>2 DEF LogStep

-----------------------------------------------------------------------------
(* The socket and the client.                                               *)

LEMMA ResyncTurn ==
  ASSUME StreamInv, NEW n \in Slots, Resync(n)
  PROVE  StreamInv' /\ (FairInv => FairInv')
<1> DEFINE f == Frame("resync", sub[n].last, "-", sub[n])
           r == [sub[n] EXCEPT !.at = "done"]
<1>1. cur = n /\ sub[n].mode = "paused" /\ sub[n].at = "poll" /\ wire' = Append(wire, f)
  BY DEF Resync
<1>2. sub[n] \in SubRecords /\ wire \in Seq(Frames) /\ told \in Nat /\ cur # 0 /\ CurOK(sub[n], Announced)
      /\ Len(lines) \in Nat
  BY <1>1, Replaying
<1>3. Advances(n, r)
  BY DEF Resync, Advances
<1>4. /\ sub[n].last \in Nat /\ sub[n].last <= Len(lines) /\ sub[n].epoch = epoch /\ sub[n].epoch \in Nat
      /\ sub[n].queue = <<>> /\ sub[n].first \in Nat
  BY <1>1, <1>2, SubTypes DEF CurOK, Phase
<1>5. f \in Frames /\ f.epoch = epoch /\ f.type = "resync" /\ f.seq = sub[n].last
  BY <1>4 DEF Frame, Frames
<1>6. /\ r \in SubRecords /\ r.last = sub[n].last /\ r.queue = <<>> /\ r.epoch = sub[n].epoch
      /\ r.mode = "paused" /\ r.at = "done"
  BY <1>1, <1>2, <1>4 DEF SubRecords
<1> HIDE DEF r, f
<1>7. Phase(r) /\ InFile(r)
  BY <1>6 DEF Phase, InFile
<1>8. /\ StreamInv'
      /\ /\ FairInv
         /\ FrameFair(wire \o <<f>>, told, Len(wire) + 1)
         /\ SubFair(r, wire \o <<f>>, told, Announced)
         => FairInv'
  <2>1. r.last >= sub[n].last /\ r.last <= Len(lines) /\ f.seq <= Len(lines)
    BY <1>4, <1>5, <1>6
  <2> QED
    BY <1>1, <1>3, <1>4, <1>5, <1>6, <1>7, <2>1, OneTurn
<1>9. ASSUME FairInv PROVE SubFair(r, wire \o <<f>>, told, Announced) /\ FrameFair(wire \o <<f>>, told, Len(wire) + 1)
  <2> DEFINE F == <<f>>
             v == wire \o F
  <2>1. F \in Seq(Frames) /\ Len(F) = 1 /\ F[1] = f
    BY <1>2, <1>5, OneFrame
  <2>2. v \in Seq(Frames) /\ v[Len(wire) + 1] = f /\ Len(wire) \in Nat
    BY <1>2, <2>1, Joined
  <2>3. Counted(wire, told, sub[n].last + 1, Len(wire) + 1)
    BY <1>1, <1>2, <1>9 DEF FairInv, SubFair
  <2> HIDE DEF F
  <2>4. Counted(v, told, sub[n].last + 1, Len(v) + 1)
    BY <1>2, <1>4, <2>1, <2>3, StillCounted
  <2>5. Counted(v, told, sub[n].last + 1, Len(wire) + 1)
    <3>1. Len(wire) + 1 \in Nat /\ Len(wire) + 1 <= Len(wire) + 1 /\ sub[n].last + 1 \in Nat
      BY <1>4, <2>2
    <3> QED
      BY <1>2, <2>1, <2>3, <3>1, CountedMore
  <2> HIDE DEF v
  <2>6. SubFair(r, v, told, Announced)
    BY <1>6, <2>4 DEF SubFair
  <2>7. FrameFair(v, told, Len(wire) + 1)
    BY <1>5, <2>2, <2>5 DEF FrameFair
  <2> QED
    BY <2>6, <2>7 DEF v, F
<1> QED
  BY <1>8, <1>9

\* A larger view only helps.
LEMMA CountedOn ==
  ASSUME NEW w, NEW t \in Nat, NEW t2 \in Nat, t <= t2, NEW k \in Nat, NEW i, Counted(w, t, k, i)
  PROVE  Counted(w, t2, k, i)
BY DEF Counted

\* A step beside the current subscription and the wire.
LEMMA Aside ==
  ASSUME StreamInv, SocketTypes', Within', UNCHANGED <<lvars, cur, epoch, wire>>, cur # 0 => sub'[cur] = sub[cur]
  PROVE  StreamInv' /\ (FairInv /\ ClientInv' /\ HoleInv' /\ told <= told' => FairInv')
<1>1. FileInv' /\ Announced' = Announced /\ UNCHANGED <<lines, cuts>>
  BY FileStill DEF StreamInv, lvars
<1>2. FileFrom' = FileFrom
  BY <1>1 DEF FileFrom
<1>3. OrderInv'
  BY <1>1 DEF StreamInv, OrderInv, FramesOK
<1>4. CurInv'
  BY <1>1 DEF StreamInv, CurInv, CurOK, InLine, InFile
<1>5. ASSUME FairInv, ClientInv', HoleInv', told <= told' PROVE FairInv'
  <2>1. told \in Nat /\ told' \in Nat /\ wire \in Seq(Frames) /\ SocketTypes
    BY DEF StreamInv, SocketTypes
  <2>2. \A k \in Nat : \A i : Counted(wire, told, k, i) => Counted(wire, told', k, i)
    BY <1>5, <2>1, CountedOn
  <2>3. Fair(wire, told)'
    <3> SUFFICES ASSUME NEW i \in 1..Len(wire) PROVE FrameFair(wire, told, i)'
      BY DEF Fair
    <3>1. FrameFair(wire, told, i) /\ wire[i].seq \in Nat /\ wire[i].first \in Nat /\ wire[i].seq + 1 \in Nat
      BY <1>5, <2>1, FrameTypes DEF FairInv, Fair
    <3> QED
      BY <1>2, <2>2, <3>1 DEF FrameFair
  <2>4. cur # 0 => SubFair(sub[cur], wire, told, Announced)'
    <3> SUFFICES ASSUME cur # 0 PROVE SubFair(sub[cur], wire, told, Announced)'
      OBVIOUS
    <3>1. sub[cur] \in SubRecords /\ CurOK(sub[cur], Announced)
      BY CurType DEF StreamInv, CurInv
    <3>2. sub[cur].last + 1 \in Nat /\ sub[cur].first \in Nat /\ sub[cur].pos + 1 \in Nat
      BY <3>1, SubTypes
    <3>3. Missed(sub[cur], Announced) + 1 \in Nat
      <4>1. Len(sub[cur].queue) \in Nat /\ Len(sub[cur].queue) <= Announced /\ Announced \in Nat
        BY <3>1, SubTypes, FirstEntry DEF CurOK, InLine, StreamInv
      <4> QED
        BY <4>1 DEF Missed
    <3>4. SubFair(sub[cur], wire, told, Announced)
      BY <1>5 DEF FairInv
    <3>5. Missed(sub[cur], Announced)' = Missed(sub[cur], Announced)
      BY <1>1 DEF Missed
    <3> QED
      BY <1>1, <1>2, <2>2, <3>2, <3>3, <3>4, <3>5 DEF SubFair
  <2> QED
    BY <1>1, <1>5, <2>3, <2>4 DEF FairInv
<1> QED
  BY <1>1, <1>3, <1>4, <1>5 DEF StreamInv

LEMMA AbandonedTurn ==
  ASSUME StreamInv, NEW n \in Slots, Abandoned(n)
  PROVE  StreamInv' /\ (FairInv => FairInv')
<1> DEFINE r == [sub[n] EXCEPT !.at = "done"]
<1>1. sub[n] \in SubRecords /\ sub \in [Slots -> SubRecords] /\ cur \in {0, 1, 2}
  BY DEF StreamInv, SocketTypes
<1>2. cur # n
  <2> SUFFICES ASSUME cur = n PROVE FALSE
    OBVIOUS
  <2>1. Phase(sub[n])
    BY Replaying DEF CurOK
  <2> QED
    BY <2>1 DEF Abandoned, Current, Phase
<1>3. sub' = [sub EXCEPT ![n] = r] /\ UNCHANGED <<lvars, cur, epoch, wire, conn, up, client>>
  BY DEF Abandoned, Advances
<1>4. r \in SubRecords
  BY <1>1 DEF SubRecords
<1> HIDE DEF r
<1>5. sub' \in [Slots -> SubRecords] /\ (cur # 0 => sub'[cur] = sub[cur])
  BY <1>1, <1>2, <1>3, <1>4, CurType DEF StreamInv
<1>6. SocketTypes' /\ Within'
  <2>1. lines' = lines
    BY <1>3 DEF lvars
  <2> QED
    BY <1>3, <1>5, <2>1 DEF StreamInv, SocketTypes, OrderInv, Within, client
<1>7. FairInv => ClientInv' /\ HoleInv' /\ told <= told'
  <2>1. lines' = lines /\ cuts' = cuts /\ told \in Nat
    BY <1>3 DEF lvars, StreamInv, SocketTypes
  <2>2. FileFrom' = FileFrom
    BY <2>1 DEF FileFrom
  <2> QED
    BY <1>3, <2>1, <2>2 DEF FairInv, ClientInv, HoleInv, client
<1> QED
  BY <1>3, <1>5, <1>6, <1>7, Aside

LEMMA ConnectTurn ==
  ASSUME StreamInv, Connect
  PROVE  StreamInv' /\ (FairInv => FairInv')
<1>1. /\ conn' = TRUE /\ up' = <<after>> /\ UNCHANGED <<lvars, sub, cur, epoch, wire, after, told, skipped>>
      /\ after \in Nat /\ told \in Nat
  BY DEF Connect, client, StreamInv, SocketTypes
<1>2. up' \in Seq(Nat) /\ Len(up') = 1 /\ up'[1] = after
  BY <1>1
<1>3. lines' = lines /\ cuts' = cuts /\ FileFrom' = FileFrom
  BY <1>1 DEF lvars, FileFrom
<1>4. SocketTypes' /\ Within'
  BY <1>1, <1>2, <1>3 DEF StreamInv, SocketTypes, OrderInv, Within
<1>5. FairInv => ClientInv' /\ HoleInv' /\ told <= told'
  BY <1>1, <1>2, <1>3 DEF FairInv, ClientInv, HoleInv
<1> QED
  BY <1>1, <1>4, <1>5, Aside

\* What a page ends at is the last line, unless it is an older one.
LEMMA FollowTurn ==
  ASSUME StreamInv, Follow
  PROVE  StreamInv' /\ (~StalePages /\ FairInv => FairInv')
<1>1. PICK s \in {0} \cup persisted \cup {Last(lines).seq} :
         /\ s # Last(lines).seq => StalePages
         /\ after' = s /\ told' = s /\ skipped' = {} /\ up' = Append(up, s)
  BY DEF Follow
<1>2. UNCHANGED <<lvars, sub, cur, epoch, conn, wire>>
  BY DEF Follow
<1>3. /\ lines \in Seq(Lines) /\ Len(lines) \in Nat /\ 1 <= Len(lines) /\ Numbered
      /\ persisted = 1..Announced /\ Announced \in Nat /\ Announced <= Len(lines)
  <2>1. lines \in Seq(Lines) /\ Numbered /\ 1 <= Len(lines) /\ persisted = 1..Announced
    BY DEF StreamInv, FileInv, LogTypes, OrderInv, Within, IndexFollows
  <2>2. Announced \in Nat /\ Len(lines) \in Nat
    BY FirstEntry DEF StreamInv
  <2>3. Announced <= Len(lines)
    BY <2>2 DEF StreamInv, FileInv, IndexFollows
  <2> QED
    BY <2>1, <2>2, <2>3
<1>4. Last(lines).seq = Len(lines)
  BY <1>3 DEF Last, Numbered
<1>5. s \in Nat /\ s <= Len(lines) /\ (~StalePages => s = Len(lines))
  BY <1>1, <1>3, <1>4
<1>6. up \in Seq(Nat) /\ up' \in Seq(Nat) /\ Len(up) \in Nat /\ Len(up') = Len(up) + 1 /\ up'[Len(up) + 1] = s
      /\ \A i \in 1..Len(up) : up'[i] = up[i]
  <2>1. up \in Seq(Nat)
    BY DEF StreamInv, SocketTypes
  <2> QED
    BY <1>1, <1>5, <2>1, AppendProperties
<1>7. lines' = lines /\ cuts' = cuts /\ FileFrom' = FileFrom
  BY <1>2 DEF lvars, FileFrom
<1>8. \A i \in 1..Len(up') : i \in 1..Len(up) \/ i = Len(up) + 1
  BY <1>6
<1>9. SocketTypes'
  BY <1>1, <1>2, <1>5, <1>6 DEF StreamInv, SocketTypes
<1>10. Within'
  <2>1. \A i \in 1..Len(up) : up[i] <= Len(lines)
    BY DEF StreamInv, OrderInv, Within
  <2>2. \A i \in 1..Len(up') : up'[i] <= Len(lines)
    BY <1>5, <1>6, <1>8, <2>1
  <2> QED
    BY <1>1, <1>3, <1>5, <1>7, <2>2 DEF Within
<1>11. ~StalePages /\ FairInv => ClientInv' /\ HoleInv' /\ told <= told'
  <2> SUFFICES ASSUME ~StalePages, FairInv PROVE ClientInv' /\ HoleInv' /\ told <= told'
    OBVIOUS
  <2>1. told <= Len(lines) /\ \A i \in 1..Len(up) : up[i] <= Len(lines)
    BY DEF FairInv, ClientInv, StreamInv, OrderInv, Within
  <2>2. \A i \in 1..Len(up') : up'[i] <= Len(lines)
    BY <1>5, <1>6, <1>8, <2>1
  <2>3. told' = Len(lines) /\ after' = Len(lines) /\ skipped' = {}
    BY <1>1, <1>5
  <2> QED
    BY <1>3, <1>7, <2>1, <2>2, <2>3 DEF ClientInv, HoleInv
<1> QED
  BY <1>2, <1>9, <1>10, <1>11, Aside

LEMMA DisconnectTurn ==
  ASSUME StreamInv, Disconnect
  PROVE  StreamInv' /\ (FairInv => FairInv')
<1>1. /\ conn' = FALSE /\ cur' = 0 /\ wire' = <<>> /\ up' = <<>>
      /\ UNCHANGED <<lvars, sub, epoch, after, told, skipped>>
  BY DEF Disconnect, client
<1>2. lines' = lines /\ cuts' = cuts /\ FileFrom' = FileFrom /\ FileInv'
  BY <1>1, FileStill DEF lvars, FileFrom, StreamInv
<1>3. wire' \in Seq(Frames) /\ Len(wire') = 0 /\ up' \in Seq(Nat) /\ Len(up') = 0
  BY <1>1
<1>4. SocketTypes'
  BY <1>1, <1>3 DEF StreamInv, SocketTypes
<1>5. OrderInv'
  BY <1>1, <1>2, <1>3 DEF StreamInv, OrderInv, InOrder, UpTo, FramesOK, Within
<1>6. CurInv'
  BY <1>1 DEF CurInv
<1>7. FairInv => FairInv'
  BY <1>1, <1>2, <1>3 DEF FairInv, ClientInv, HoleInv, Fair
<1> QED
  BY <1>2, <1>4, <1>5, <1>6, <1>7 DEF StreamInv

LEMMA TailFacts ==
  ASSUME NEW S, NEW q \in Seq(S), q # <<>>
  PROVE  /\ Tail(q) \in Seq(S) /\ Len(q) \in Nat /\ Len(q) >= 1 /\ Len(Tail(q)) = Len(q) - 1
         /\ Head(q) = q[1] /\ 1 \in 1..Len(q) /\ q[1] \in S
         /\ \A i \in 1..Len(Tail(q)) : Tail(q)[i] = q[i + 1] /\ i + 1 \in 1..Len(q)
<1>1. Len(q) \in Nat /\ Len(q) >= 1
  BY EmptySeq
<1>2. Head(q) \in S /\ Tail(q) \in Seq(S) /\ Head(q) = q[1] /\ Len(Tail(q)) = Len(q) - 1
      /\ \A i \in 1..(Len(q) - 1) : Tail(q)[i] = q[i + 1]
  BY HeadTailProperties
<1> QED
  BY <1>1, <1>2

LEMMA SubscribeTurn ==
  ASSUME StreamInv, NEW n \in Slots, Subscribe(n)
  PROVE  StreamInv' /\ (FairInv => FairInv')
<1> DEFINE r == [NoSub EXCEPT !.mode = "replay", !.at = "index", !.last = Head(up), !.epoch = epoch']
<1>1. /\ up # <<>> /\ up' = Tail(up) /\ epoch' = epoch + 1 /\ cur' = n /\ sub' = [sub EXCEPT ![n] = r]
      /\ UNCHANGED <<lvars, conn, wire, after, told, skipped>>
  BY DEF Subscribe, client
<1>2. /\ epoch \in Nat /\ up \in Seq(Nat) /\ sub \in [Slots -> SubRecords] /\ n # 0 /\ n \in {0, 1, 2}
      /\ wire \in Seq(Frames) /\ told \in Nat
  BY DEF StreamInv, SocketTypes, Slots
<1>3. /\ Tail(up) \in Seq(Nat) /\ Head(up) = up[1] /\ up[1] \in Nat /\ 1 \in 1..Len(up)
      /\ \A i \in 1..Len(Tail(up)) : Tail(up)[i] = up[i + 1] /\ i + 1 \in 1..Len(up)
  BY <1>1, <1>2, TailFacts
<1>4. /\ r \in SubRecords /\ r.last = up[1] /\ r.epoch = epoch + 1 /\ r.queue = <<>>
      /\ r.mode = "replay" /\ r.at = "index"
  <2> DEFINE h == Head(up)
             p == epoch'
  <2>1. h \in Nat /\ p \in Nat /\ h = up[1] /\ p = epoch + 1 /\ <<>> \in Seq(Lines)
    BY <1>1, <1>2, <1>3
  <2>2. r = [NoSub EXCEPT !.mode = "replay", !.at = "index", !.last = h, !.epoch = p]
    OBVIOUS
  <2> HIDE DEF h, p, r
  <2> QED
    BY <2>1, <2>2 DEF SubRecords, NoSub
<1> HIDE DEF r
<1>5. sub' \in [Slots -> SubRecords] /\ sub'[n] = r
  BY <1>1, <1>2, <1>4
<1>6. lines' = lines /\ cuts' = cuts /\ FileFrom' = FileFrom /\ FileInv' /\ Announced' = Announced
  BY <1>1, FileStill DEF lvars, FileFrom, StreamInv
<1>7. SocketTypes'
  BY <1>1, <1>2, <1>3, <1>5 DEF StreamInv, SocketTypes
<1>8. \A i \in 1..Len(wire) : wire[i].epoch \in Nat /\ wire[i].epoch <= epoch
  BY <1>2, FrameTypes DEF StreamInv, OrderInv, UpTo
<1>9. OrderInv'
  <2>1. UpTo(wire, epoch + 1)
    BY <1>2, <1>8 DEF UpTo
  <2>2. Within'
    BY <1>1, <1>3, <1>6 DEF StreamInv, OrderInv, Within
  <2> QED
    BY <1>1, <1>6, <2>1, <2>2 DEF StreamInv, OrderInv, FramesOK
<1>10. CurOK(sub[cur], Announced)'
  <2>1. Below(wire, epoch + 1, up[1])
    BY <1>2, <1>8 DEF Below
  <2>2. up[1] <= Len(lines)
    BY <1>3 DEF StreamInv, OrderInv, Within
  <2>3. Announced \in Nat /\ InLine(<<>>, Announced)
    BY FirstEntry DEF StreamInv, InLine
  <2>4. Phase(sub[cur])'
    BY <1>1, <1>4, <1>5 DEF Phase
  <2> QED
    BY <1>1, <1>4, <1>5, <1>6, <2>1, <2>2, <2>3, <2>4, ZenonT(40) DEF CurOK, InFile, InLine
<1>11. CurInv'
  BY <1>10 DEF CurInv
<1>12. ASSUME FairInv PROVE FairInv'
  <2>1. ClientInv' /\ HoleInv'
    BY <1>1, <1>3, <1>6, <1>12 DEF FairInv, ClientInv, HoleInv
  <2>2. Fair(wire, told)'
    BY <1>1, <1>6, <1>12 DEF FairInv, Fair, FrameFair
  <2>3. Counted(wire, told, up[1] + 1, Len(wire) + 1)
    <3>1. up[1] <= told
      BY <1>3, <1>12 DEF FairInv, ClientInv
    <3>2. up[1] + 1 <= told + 1
      BY <1>2, <1>3, <3>1
    <3> QED
      BY <3>2 DEF Counted
  <2>4. SubFair(sub[cur], wire, told, Announced)'
    BY <1>1, <1>4, <1>5, <2>3 DEF SubFair
  <2> QED
    BY <2>1, <2>2, <2>4 DEF FairInv
<1> QED
  BY <1>6, <1>7, <1>9, <1>11, <1>12 DEF StreamInv

\* What the client does with the first frame.
ToClient(f) ==
  \/ /\ f.type = "event" /\ f.seq > after
     /\ after' = f.seq /\ told' = Later(told, f.seq) /\ UNCHANGED up
     /\ skipped' = Jumped(f) \cup (IF f.kind = "rotated" THEN Above(skipped, f.seq) ELSE skipped)
  \/ /\ f.type = "gap"
     /\ told' = Later(told, f.seq) /\ skipped' = Above(skipped, f.seq) /\ UNCHANGED <<after, up>>
  \/ /\ f.type = "resync" /\ after' = f.seq /\ up' = Append(up, f.seq) /\ UNCHANGED <<told, skipped>>
  \/ /\ f.type = "event" /\ f.seq <= after /\ UNCHANGED <<after, told, skipped, up>>

LEMMA ReceiveCases ==
  ASSUME StreamInv, Receive
  PROVE  /\ wire # <<>> /\ wire \in Seq(Frames) /\ wire' = Tail(wire) /\ ToClient(wire[1])
         /\ UNCHANGED <<lvars, sub, cur, epoch, conn>>
         /\ after \in Nat /\ told \in Nat /\ skipped \in SUBSET Nat /\ up \in Seq(Nat)
<1> DEFINE f == Head(wire)
<1>1. wire # <<>> /\ wire' = Tail(wire) /\ UNCHANGED <<lvars, sub, cur, epoch, conn>>
  BY DEF Receive
<1>2. wire \in Seq(Frames) /\ after \in Nat /\ told \in Nat /\ skipped \in SUBSET Nat /\ up \in Seq(Nat)
  BY DEF StreamInv, SocketTypes
<1>3. f = wire[1] /\ f \in Frames
  BY <1>1, <1>2, TailFacts
<1>4. f.type \in {"event", "gap", "resync"} /\ f.seq \in Nat
  BY <1>3 DEF Frames
<1>5. ToClient(f)
  <2>1. CASE f.type = "event" /\ f.seq > after
    BY <2>1 DEF Receive, ToClient
  <2>2. CASE f.type = "gap"
    BY <2>2 DEF Receive, ToClient
  <2>3. CASE f.type = "resync"
    BY <2>3 DEF Receive, ToClient
  <2>4. CASE f.type = "event" /\ ~(f.seq > after)
    <3>1. f.seq <= after
      BY <1>2, <1>4, <2>4
    <3>2. UNCHANGED <<client, up>>
      BY <2>4 DEF Receive
    <3> QED
      BY <2>4, <3>1, <3>2 DEF ToClient, client
  <2> QED
    BY <1>4, <2>1, <2>2, <2>3, <2>4
<1> QED
  BY <1>1, <1>2, <1>3, <1>5

\* The order of what is left.
LEMMA ReceiveOrder ==
  ASSUME StreamInv, Receive
  PROVE  StreamInv'
<1> DEFINE f == wire[1]
           w == Tail(wire)
<1>1. /\ wire # <<>> /\ wire \in Seq(Frames) /\ wire' = w /\ ToClient(f)
      /\ UNCHANGED <<lvars, sub, cur, epoch, conn>>
      /\ after \in Nat /\ told \in Nat /\ skipped \in SUBSET Nat /\ up \in Seq(Nat)
  BY ReceiveCases
<1>2. /\ w \in Seq(Frames) /\ Len(wire) \in Nat /\ Len(w) = Len(wire) - 1 /\ 1 \in 1..Len(wire) /\ f \in Frames
      /\ \A i \in 1..Len(w) : w[i] = wire[i + 1] /\ i + 1 \in 1..Len(wire)
  BY <1>1, TailFacts
<1>3. f.seq \in Nat /\ f.seq <= Len(lines)
  BY <1>2 DEF Frames, StreamInv, OrderInv, FramesOK
<1>4. FileInv' /\ Announced' = Announced /\ lines' = lines /\ cuts' = cuts
  BY <1>1, FileStill DEF StreamInv, lvars
<1> HIDE DEF w, f
<1>5. InOrder(w)
  <2> SUFFICES ASSUME NEW i \in 1..Len(w), NEW j \in 1..Len(w), i < j
               PROVE  /\ w[i].epoch <= w[j].epoch
                      /\ w[i].epoch = w[j].epoch /\ w[i].type = "event" /\ w[j].type = "event"
                           => w[i].seq < w[j].seq
    BY DEF InOrder
  <2>1. /\ w[i] = wire[i + 1] /\ i + 1 \in 1..Len(wire) /\ w[j] = wire[j + 1] /\ j + 1 \in 1..Len(wire)
        /\ i + 1 < j + 1
    BY <1>2
  <2> QED
    BY <2>1 DEF StreamInv, OrderInv, InOrder
<1>6. UpTo(w, epoch)
  BY <1>2 DEF StreamInv, OrderInv, UpTo
<1>7. FramesOK(w)
  BY <1>2 DEF StreamInv, OrderInv, FramesOK
<1>8. cur # 0 => Below(w, epoch, sub[cur].last)
  BY <1>2 DEF StreamInv, CurInv, CurOK, Below
<1>9. /\ after' \in Nat /\ told' \in Nat /\ after' <= Len(lines) /\ up' \in Seq(Nat)
      /\ \A i \in 1..Len(up') : up'[i] <= Len(lines)
  <2>1. after <= Len(lines) /\ \A i \in 1..Len(up) : up[i] <= Len(lines)
    BY DEF StreamInv, OrderInv, Within
  <2>2. Later(told, f.seq) \in Nat
    BY <1>1, <1>3 DEF Later
  <2>3. CASE up' = up
    BY <1>1, <1>3, <2>1, <2>2, <2>3 DEF ToClient
  <2>4. CASE f.type = "resync"
    <3>1. up' = Append(up, f.seq) /\ after' = f.seq /\ told' = told
      BY <1>1, <2>4 DEF ToClient
    <3>2. /\ up' \in Seq(Nat) /\ Len(up') = Len(up) + 1 /\ up'[Len(up) + 1] = f.seq /\ Len(up) \in Nat
          /\ \A i \in 1..Len(up) : up'[i] = up[i]
      BY <1>1, <1>3, <3>1, AppendProperties
    <3>3. \A i \in 1..Len(up') : i \in 1..Len(up) \/ i = Len(up) + 1
      BY <3>2
    <3> QED
      BY <1>1, <1>3, <2>1, <3>1, <3>2, <3>3
  <2> QED
    BY <1>1, <2>3, <2>4 DEF ToClient
<1>10. skipped' \in SUBSET Nat
  <2>1. persisted \in SUBSET Nat
    <3>1. Announced \in Nat /\ persisted = 1..Announced
      BY FirstEntry DEF StreamInv, FileInv, IndexFollows
    <3> QED
      BY <3>1
  <2> QED
    BY <1>1, <2>1 DEF ToClient, Jumped, Above
<1>11. SocketTypes'
  BY <1>1, <1>2, <1>9, <1>10 DEF StreamInv, SocketTypes
<1>12. OrderInv'
  <2>1. Within'
    BY <1>4, <1>9 DEF StreamInv, OrderInv, Within
  <2> QED
    BY <1>1, <1>4, <1>5, <1>6, <1>7, <2>1 DEF OrderInv, FramesOK
<1>13. CurInv'
  BY <1>1, <1>4, <1>8 DEF StreamInv, CurInv, CurOK, InLine, InFile
<1> QED
  BY <1>4, <1>11, <1>12, <1>13 DEF StreamInv

\* What the frame counted for, the view now has.
LEMMA CountedTail ==
  ASSUME NEW w \in Seq(Frames), w # <<>>, NEW t \in Nat, NEW t2 \in Nat, t <= t2, NEW k \in Nat, NEW i \in Nat,
         i <= Len(w), w[1].type \in {"event", "gap"} => w[1].seq <= t2, Counted(w, t, k, i + 1)
  PROVE  Counted(Tail(w), t2, k, i)
<1>1. /\ Len(w) \in Nat /\ Len(Tail(w)) = Len(w) - 1 /\ 1 \in 1..Len(w)
      /\ \A n \in 1..Len(Tail(w)) : Tail(w)[n] = w[n + 1]
  BY TailFacts
<1>2. CASE k <= t + 1
  BY <1>2 DEF Counted
<1>3. CASE \E j \in 1..(i + 1 - 1) : w[j].type \in {"event", "gap"} /\ k <= w[j].seq + 1
  <2>1. PICK j \in 1..(i + 1 - 1) : w[j].type \in {"event", "gap"} /\ k <= w[j].seq + 1
    BY <1>3
  <2>2. j \in 1..i /\ j \in 1..Len(w)
    BY <1>1
  <2>3. w[j].seq \in Nat
    BY <2>2, FrameTypes
  <2>4. CASE j = 1
    <3>1. k <= t2 + 1
      BY <2>1, <2>3, <2>4
    <3> QED
      BY <3>1 DEF Counted
  <2>5. CASE j # 1
    <3>1. j - 1 \in 1..(i - 1) /\ j - 1 \in 1..Len(Tail(w)) /\ j - 1 + 1 = j
      BY <1>1, <2>2, <2>5
    <3>2. Tail(w)[j - 1] = w[j]
      BY <1>1, <3>1
    <3> QED
      BY <2>1, <3>1, <3>2 DEF Counted
  <2> QED
    BY <2>4, <2>5
<1> QED
  BY <1>2, <1>3 DEF Counted

LEMMA ReceiveFair ==
  ASSUME StreamInv, FairInv, Receive
  PROVE  FairInv'
<1> DEFINE f == wire[1]
           w == Tail(wire)
<1>1. /\ wire # <<>> /\ wire \in Seq(Frames) /\ wire' = w /\ ToClient(f)
      /\ UNCHANGED <<lvars, sub, cur, epoch, conn>>
      /\ after \in Nat /\ told \in Nat /\ skipped \in SUBSET Nat /\ up \in Seq(Nat)
  BY ReceiveCases
<1>2. /\ w \in Seq(Frames) /\ Len(wire) \in Nat /\ Len(w) = Len(wire) - 1 /\ 1 \in 1..Len(wire) /\ f \in Frames
      /\ \A i \in 1..Len(w) : w[i] = wire[i + 1] /\ i + 1 \in 1..Len(wire)
  BY <1>1, TailFacts
<1>3. /\ f.seq \in Nat /\ f.seq <= Len(lines) /\ f.first \in Nat
      /\ f.type = "event" => f.seq >= 1 /\ f.kind = lines[f.seq].kind
  BY <1>2 DEF Frames, StreamInv, OrderInv, FramesOK
<1>4. /\ Announced' = Announced /\ lines' = lines /\ cuts' = cuts /\ FileFrom' = FileFrom /\ FileInv
      /\ FileFrom \in Nat /\ Len(lines) \in Nat
  BY <1>1, FileStill, FirstEntry DEF StreamInv, lvars, FileFrom
<1>5. FrameFair(wire, told, 1)
  BY <1>2 DEF FairInv, Fair
<1>6. \A k : Counted(wire, told, k, 1) <=> k <= told + 1
  BY DEF Counted
<1>7. /\ f.type = "event" => f.seq <= told + 1 \/ f.seq <= FileFrom \/ (f.kind = "rotated" /\ f.first <= told + 1)
      /\ f.type = "resync" => f.seq <= told
  <2>1. f.type = "resync" => f.seq + 1 <= told + 1
    BY <1>5, <1>6 DEF FrameFair
  <2>2. f.type = "event" => f.seq <= told + 1 \/ f.seq <= FileFrom \/ (f.kind = "rotated" /\ f.first <= told + 1)
    BY <1>5, <1>6 DEF FrameFair
  <2> QED
    BY <1>1, <1>3, <2>1, <2>2
<1>8. after <= told /\ told <= Len(lines) /\ \A i \in 1..Len(up) : up[i] <= told
  BY DEF FairInv, ClientInv
<1>9. \A s \in skipped : s \in Nat /\ 1 <= s /\ s <= FileFrom /\ told <= FileFrom
  BY <1>1 DEF FairInv, HoleInv
<1> HIDE DEF w, f
<1>10. /\ told' \in Nat /\ told <= told' /\ (f.type \in {"event", "gap"} => f.seq <= told')
       /\ f.type = "resync" => told' = told
       /\ told' = told \/ (told' = f.seq /\ told < f.seq)
  <2>1. Later(told, f.seq) \in Nat /\ told <= Later(told, f.seq) /\ f.seq <= Later(told, f.seq)
        /\ (Later(told, f.seq) = told \/ (Later(told, f.seq) = f.seq /\ told < f.seq))
    BY <1>1, <1>3 DEF Later
  <2> QED
    BY <1>1, <1>3, <1>8, <2>1 DEF ToClient
<1>11. ClientInv'
  <2>1. told' <= Len(lines)
    BY <1>3, <1>8, <1>10
  <2>2. after' <= told' /\ \A i \in 1..Len(up') : up'[i] <= told'
    <3>0. \A i \in 1..Len(up) : up[i] <= told'
      <4>1. \A i \in 1..Len(up) : up[i] \in Nat
        BY <1>1, ElementOfSeq
      <4> QED
        BY <1>1, <1>8, <1>10, <4>1
    <3>1. CASE f.type # "resync"
      BY <1>1, <1>8, <1>10, <3>0, <3>1 DEF ToClient
    <3>2. CASE f.type = "resync"
      <4>1. up' = Append(up, f.seq) /\ after' = f.seq /\ told' = told
        BY <1>1, <3>2 DEF ToClient
      <4>2. /\ Len(up') = Len(up) + 1 /\ up'[Len(up) + 1] = f.seq /\ Len(up) \in Nat
            /\ \A i \in 1..Len(up) : up'[i] = up[i]
        BY <1>1, <1>3, <4>1, AppendProperties
      <4>3. \A i \in 1..Len(up') : i \in 1..Len(up) \/ i = Len(up) + 1
        BY <4>2
      <4> QED
        BY <1>7, <1>8, <3>0, <3>2, <4>1, <4>2, <4>3
    <3> QED
      BY <3>1, <3>2
  <2> QED
    BY <1>4, <2>1, <2>2 DEF ClientInv
<1>12. HoleInv'
  <2> SUFFICES ASSUME NEW s \in skipped' PROVE 1 <= s /\ s <= FileFrom /\ told' <= FileFrom
    BY <1>4 DEF HoleInv
  <2>1. CASE f.type = "gap"
    <3>1. s \in skipped /\ s > f.seq
      BY <1>1, <2>1 DEF ToClient, Above
    <3> QED
      BY <1>3, <1>4, <1>9, <1>10, <3>1
  <2>2. CASE f.type # "gap" /\ ~(f.type = "event" /\ f.seq > after)
    <3>1. s \in skipped
      BY <1>1, <2>2 DEF ToClient
    <3>2. told' = told
      BY <1>1, <2>2 DEF ToClient
    <3> QED
      BY <1>9, <3>1, <3>2
  <2>3. CASE f.type = "event" /\ f.seq > after
    <3>0. skipped' = Jumped(f) \cup (IF f.kind = "rotated" THEN Above(skipped, f.seq) ELSE skipped)
      BY <1>1, <1>3, <2>3 DEF ToClient
    <3>1. CASE s \in Jumped(f)
      <4>1. s \in persisted /\ s < f.seq /\ told < s /\ ~(f.kind = "rotated" /\ f.first <= s)
        BY <3>1 DEF Jumped
      <4>2. s \in Nat
        <5>1. Announced \in Nat /\ persisted = 1..Announced
          BY <1>4, FirstEntry DEF FileInv, IndexFollows
        <5> QED
          BY <4>1, <5>1
      <4>3. f.seq <= FileFrom
        BY <1>1, <1>3, <1>7, <2>3, <4>1, <4>2
      <4> QED
        BY <1>1, <1>3, <1>4, <1>10, <4>1, <4>2, <4>3
    <3>2. CASE s \in skipped /\ f.kind = "rotated" /\ s > f.seq
      BY <1>1, <1>3, <1>4, <1>9, <1>10, <3>2
    <3>3. CASE s \in skipped /\ f.kind # "rotated"
      <4>1. s \in Nat /\ 1 <= s /\ s <= FileFrom /\ told <= FileFrom
        BY <1>9, <3>3
      <4>2. f.seq <= FileFrom
        <5>1. f.seq <= FileFrom + 1
          BY <1>1, <1>3, <1>4, <1>7, <2>3, <3>3, <4>1
        <5>2. f.seq # FileFrom + 1
          <6> SUFFICES ASSUME f.seq = FileFrom + 1 PROVE FALSE
            OBVIOUS
          <6>1. f.seq = 1 \/ lines[f.seq].kind = "rotated"
            BY <1>3, <1>4, HeadFacts
          <6>2. f.seq # 1
            BY <1>4, <4>1
          <6> QED
            BY <1>3, <2>3, <3>3, <6>1, <6>2
        <5> QED
          BY <1>3, <1>4, <5>1, <5>2
      <4> QED
        BY <1>1, <1>3, <1>4, <1>10, <4>1, <4>2
    <3> QED
      BY <3>0, <3>1, <3>2, <3>3 DEF Above
  <2> QED
    BY <2>1, <2>2, <2>3
<1>13. \A k \in Nat, i \in Nat : i <= Len(wire) /\ Counted(wire, told, k, i + 1) => Counted(w, told', k, i)
  BY <1>1, <1>10, CountedTail DEF w, f
<1>14. Fair(w, told')
  <2> SUFFICES ASSUME NEW i \in 1..Len(w) PROVE FrameFair(w, told', i)
    BY DEF Fair
  <2>1. w[i] = wire[i + 1] /\ i + 1 \in 1..Len(wire) /\ i \in Nat /\ i <= Len(wire)
    BY <1>2
  <2>2. FrameFair(wire, told, i + 1)
    BY <2>1 DEF FairInv, Fair
  <2>3. w[i].seq \in Nat /\ w[i].first \in Nat /\ w[i].seq + 1 \in Nat
    BY <1>2, FrameTypes
  <2>4. \A k \in Nat : Counted(wire, told, k, i + 1) => Counted(w, told', k, i)
    BY <1>13, <2>1
  <2> QED
    BY <2>1, <2>2, <2>3, <2>4 DEF FrameFair
<1>15. Fair(wire, told)'
  BY <1>1, <1>4, <1>14 DEF Fair, FrameFair
<1>16. cur # 0 => SubFair(sub[cur], wire, told, Announced)'
  <2> SUFFICES ASSUME cur # 0 PROVE SubFair(sub[cur], wire, told, Announced)'
    OBVIOUS
  <2>1. sub[cur] \in SubRecords /\ CurOK(sub[cur], Announced)
    BY CurType DEF StreamInv, CurInv
  <2>2. sub[cur].last + 1 \in Nat /\ sub[cur].first \in Nat /\ sub[cur].pos + 1 \in Nat
    BY <2>1, SubTypes
  <2>3. Missed(sub[cur], Announced) + 1 \in Nat
    <3>1. Len(sub[cur].queue) \in Nat /\ Len(sub[cur].queue) <= Announced /\ Announced \in Nat
      BY <1>4, <2>1, SubTypes, FirstEntry DEF CurOK, InLine
    <3> QED
      BY <3>1 DEF Missed
  <2>4. SubFair(sub[cur], wire, told, Announced)
    BY DEF FairInv
  <2>5. Missed(sub[cur], Announced)' = Missed(sub[cur], Announced)
    BY <1>1, <1>4 DEF Missed
  <2>6. \A k \in Nat : Counted(wire, told, k, Len(wire) + 1) => Counted(w, told', k, Len(w) + 1)
    <3>1. Len(w) + 1 = Len(wire) /\ Len(wire) \in Nat /\ Len(wire) <= Len(wire)
      BY <1>2
    <3> QED
      BY <1>13, <3>1
  <2> QED
    BY <1>1, <1>4, <2>2, <2>3, <2>4, <2>5, <2>6 DEF SubFair
<1> QED
  BY <1>1, <1>11, <1>12, <1>15, <1>16 DEF FairInv

-----------------------------------------------------------------------------
(* The steps together.                                                      *)

LEMMA StreamInitInv == StreamInit => StreamInv /\ FairInv
<1> SUFFICES ASSUME StreamInit PROVE StreamInv /\ FairInv
  OBVIOUS
<1> DEFINE x == Index(2, 2, 0, 1)
           z == [NotInUse EXCEPT !.at = "resident", !.idx = x, !.size = 2]
<1>1. /\ lines = <<Line(1, "event"), Line(2, "event")>> /\ frag = FALSE /\ cuts = <<>> /\ snap = x
      /\ entry = [e \in Entries |-> IF e = 1 THEN [NotInUse EXCEPT !.at = "resident", !.idx = snap, !.size = 2]
                                    ELSE NotInUse]
      /\ persisted = {1, 2}
  BY DEF StreamInit
<1>2. 1 \in Entries /\ 2 \in Entries
  BY DEF Entries
<1>3. x \in IndexRecords /\ x.last = 2 /\ x.first = 1
  BY DEF Index, IndexRecords
<1>4. entry[1] = z /\ entry[2] = NotInUse
  BY <1>1, <1>2
<1> HIDE DEF x
<1>5. NotInUse \in EntryRecords
  BY DEF NotInUse, EntryRecords, Fresh, Index, IndexRecords
<1>6. z \in EntryRecords /\ z.at = "resident" /\ z.drop = FALSE /\ z.idx = x /\ z.step = "idle"
  <2>1. NotInUse.drop = FALSE /\ NotInUse.step = "idle"
    BY DEF NotInUse
  <2>2. z \in EntryRecords /\ z.at = "resident" /\ z.drop = NotInUse.drop /\ z.idx = x /\ z.step = NotInUse.step
    BY <1>3, <1>5 DEF EntryRecords
  <2> QED
    BY <2>1, <2>2
<1> HIDE DEF z
<1>7. entry \in [Entries -> EntryRecords]
  <2>1. \A e \in Entries : entry[e] \in EntryRecords
    BY <1>4, <1>5, <1>6 DEF Entries
  <2>2. entry = [e \in Entries |-> entry[e]]
    BY <1>1
  <2> QED
    BY <2>1, <2>2
<1>8. /\ lines \in Seq(Lines) /\ Len(lines) = 2 /\ lines[1].seq = 1 /\ lines[2].seq = 2
      /\ cuts \in Seq(Nat) /\ Len(cuts) = 0
  <2>1. Line(1, "event") \in Lines /\ Line(1, "event").seq = 1 /\ Line(2, "event") \in Lines /\ Line(2, "event").seq = 2
    BY DEF Line, Lines
  <2> QED
    BY <1>1, <2>1
<1>9. LogTypes
  BY <1>1, <1>4, <1>6, <1>7, <1>8 DEF LogTypes
<1>10. FileFrom = 0
  BY <1>8, FromFacts DEF Begin
<1>11. Announced = 2 /\ ~HasLanded
  BY <1>3, <1>4, <1>6 DEF Announced, HasLanded
<1>12. FileInv
  <2>1. Numbered
    <3>1. \A i \in 1..Len(lines) : i = 1 \/ i = 2
      BY <1>8
    <3> QED
      BY <1>8, <3>1 DEF Numbered
  <2>2. Heads
    BY <1>8 DEF Heads
  <2>3. IndexFollows
    <3>1. persisted = 1..2
      BY <1>1
    <3> QED
      BY <1>3, <1>4, <1>6, <1>8, <1>10, <1>11, <3>1 DEF IndexFollows
  <2> QED
    BY <1>9, <2>1, <2>2, <2>3 DEF FileInv
<1>13. /\ sub = [n \in Slots |-> NoSub] /\ cur = 0 /\ epoch = 0 /\ conn = FALSE /\ wire = <<>> /\ up = <<>>
       /\ after = 0 /\ told = 0 /\ skipped = {}
  BY DEF StreamInit
<1>14. wire \in Seq(Frames) /\ Len(wire) = 0 /\ up \in Seq(Nat) /\ Len(up) = 0
  BY <1>13
<1>15. NoSub \in SubRecords
  <2>1. <<>> \in Seq(Lines)
    OBVIOUS
  <2> QED
    BY <2>1 DEF NoSub, SubRecords
<1>16. SocketTypes
  BY <1>13, <1>14, <1>15 DEF SocketTypes
<1>17. OrderInv
  BY <1>8, <1>13, <1>14 DEF OrderInv, InOrder, UpTo, FramesOK, Within
<1>18. CurInv
  BY <1>13 DEF CurInv
<1>19. FairInv
  BY <1>8, <1>13, <1>14 DEF FairInv, ClientInv, HoleInv, Fair
<1> QED
  BY <1>12, <1>16, <1>17, <1>18, <1>19 DEF StreamInv

LEMMA StreamStutter ==
  ASSUME StreamInv, UNCHANGED vars
  PROVE  StreamInv' /\ (FairInv => FairInv')
<1>1. UNCHANGED lvars /\ UNCHANGED svars
  BY DEF vars
<1>2. FileInv' /\ Announced' = Announced
  BY <1>1, FileStill DEF StreamInv
<1>3. Grows
  <2>1. UNCHANGED disk
    BY <1>1 DEF lvars, disk
  <2> QED
    BY <2>1, StillGrows DEF StreamInv
<1> QED
  BY <1>1, <1>2, <1>3, LogOnly

LEMMA StreamStep ==
  ASSUME StreamInv, [StreamNext]_vars
  PROVE  StreamInv' /\ (~StalePages /\ FairInv => FairInv')
<1>1. CASE UNCHANGED vars
  BY <1>1, StreamStutter
<1>2. CASE \E e \in Entries : LogStep(e) \/ (Enqueue(e) /\ UNCHANGED svars)
  BY <1>2, LogTurn
<1>3. ASSUME NEW n \in Slots, Subscribe(n) \/ Replay(n) \/ Resync(n)
      PROVE  StreamInv' /\ (FairInv => FairInv')
  <2>1. CASE Subscribe(n)
    BY <2>1, SubscribeTurn
  <2>2. CASE Resync(n)
    BY <2>2, ResyncTurn
  <2>3. CASE ReadIndex(n)
    BY <2>3, ReadIndexTurn
  <2>4. CASE SendGap(n)
    BY <2>4, SendGapTurn
  <2>5. CASE OpenFile(n)
    BY <2>5, OpenFileTurn
  <2>6. CASE ReadLine(n)
    BY <2>6, ReadLineTurn
  <2>7. CASE EndOfFile(n)
    BY <2>7, EndOfFileTurn
  <2>8. CASE GoLive(n)
    BY <2>8, GoLiveTurn
  <2>9. CASE Abandoned(n)
    BY <2>9, AbandonedTurn
  <2> QED
    BY <1>3, <2>1, <2>2, <2>3, <2>4, <2>5, <2>6, <2>7, <2>8, <2>9 DEF Replay
<1>4. CASE Connect
  BY <1>4, ConnectTurn
<1>5. CASE Disconnect
  BY <1>5, DisconnectTurn
<1>6. CASE Follow
  BY <1>6, FollowTurn
<1>7. CASE Receive
  BY <1>7, ReceiveOrder, ReceiveFair
<1> QED
  BY <1>1, <1>2, <1>3, <1>4, <1>5, <1>6, <1>7 DEF StreamNext

LEMMA StreamHolds == StreamSpec => []StreamInv
<1>1. StreamInit => StreamInv
  BY StreamInitInv
<1>2. StreamInv /\ [StreamNext]_vars => StreamInv'
  BY StreamStep
<1> QED
  BY <1>1, <1>2, PTL DEF StreamSpec

\* On the wire a subscription's events are in increasing seq, and no frame of
\* an older one follows: whatever the budgets, the drops, and the pages the
\* view opens from.
THEOREM StreamWireInOrder == StreamSpec => []WireInOrder
<1>1. StreamInv => WireInOrder
  BY DEF StreamInv, OrderInv, InOrder, WireInOrder
<1> QED
  BY <1>1, StreamHolds, PTL

LEMMA NothingSilent == StreamInv /\ FairInv => NoSilentHole
<1> SUFFICES ASSUME StreamInv, FairInv, NEW s \in skipped
             PROVE  /\ s \notin SeqsFrom(1)
                    /\ \/ \E e \in Entries : entry[e].step = "cut"
                       \/ \E i \in 1..Len(lines) : lines[i].kind = "rotated" /\ lines[i].seq > s /\ lines[i].seq > told
  BY DEF NoSilentHole
<1>1. /\ s \in Nat /\ 1 <= s /\ s <= FileFrom /\ told <= FileFrom /\ told \in Nat
      /\ FileInv /\ Numbered /\ FileFrom \in Nat /\ Len(lines) \in Nat /\ FileFrom <= Len(lines)
  BY FirstEntry DEF FairInv, HoleInv, StreamInv, SocketTypes, FileInv, IndexFollows
<1>2. s \notin SeqsFrom(1)
  <2> SUFFICES ASSUME NEW i \in (FileFrom + 1)..Len(lines), lines[i].seq = s PROVE FALSE
    BY DEF SeqsFrom
  <2>1. i \in 1..Len(lines) /\ i > FileFrom
    BY <1>1
  <2> QED
    BY <1>1, <2>1 DEF Numbered
<1>3. CASE FileFrom = Len(lines)
  <2>1. entry[1].step = "cut" /\ 1 \in Entries
    BY <1>1, <1>3 DEF FileInv, IndexFollows, Entries
  <2> QED
    BY <1>2, <2>1
<1>4. CASE FileFrom < Len(lines)
  <2> DEFINE k == FileFrom + 1
  <2>1. k \in 1..Len(lines) /\ k \in Nat /\ k # 1 /\ k > s /\ k > told /\ k <= Len(lines)
    BY <1>1, <1>4
  <2>2. lines[k].kind = "rotated"
    BY <1>1, <2>1, HeadFacts
  <2>3. lines[k].seq = k
    BY <1>1, <2>1 DEF Numbered
  <2> HIDE DEF k
  <2> QED
    BY <1>2, <2>1, <2>2, <2>3
<1> QED
  BY <1>1, <1>3, <1>4

\* A view that opens from the page it just read never jumps over a persisted
\* event in silence: what it jumps over was rotated away, and the `gap
\* rotated` of that rotation is still to come.
THEOREM StreamNoSilentHole == ~StalePages => (StreamSpec => []NoSilentHole)
<1> SUFFICES ASSUME ~StalePages PROVE StreamSpec => []NoSilentHole
  OBVIOUS
<1>1. StreamInit => FairInv
  BY StreamInitInv
<1>2. StreamInv /\ FairInv /\ [StreamNext]_vars => FairInv'
  BY StreamStep
<1>3. StreamSpec => []FairInv
  BY <1>1, <1>2, StreamHolds, PTL DEF StreamSpec
<1>4. StreamInv /\ FairInv => NoSilentHole
  BY NothingSilent
<1> QED
  BY <1>3, <1>4, StreamHolds, PTL

-----------------------------------------------------------------------------
(* The budgets.                                                             *)

Short(r) == Len(r.queue) <= QueueBudget
WireFits(w) == Len(w) <= LiveBudget \/ Len(w) <= ReplayBudget
BudgetInv == (\A n \in Slots : Short(sub[n])) /\ WireFits(wire)

\* An empty queue, and one that is kept, are short.
LEMMA KeptShort ==
  ASSUME SocketTypes, BudgetInv, NEW n \in Slots, NEW r,
         sub' = [sub EXCEPT ![n] = r], r.queue = <<>> \/ r.queue = sub[n].queue, WireFits(wire')
  PROVE  BudgetInv'
<1>1. QueueBudget \in Nat /\ Len(<<>>) = 0
  BY StreamAssumption
<1>2. Short(r)
  BY <1>1 DEF BudgetInv, Short
<1>3. \A i \in Slots : sub'[i] = r \/ sub'[i] = sub[i]
  BY DEF SocketTypes
<1> QED
  BY <1>2, <1>3 DEF BudgetInv, Short, WireFits

LEMMA FrameFits ==
  ASSUME SocketTypes, NEW f, Fits, wire' = Append(wire, f)
  PROVE  WireFits(wire')
<1>1. wire \in Seq(Frames) /\ ReplayBudget \in Nat \ {0}
  BY StreamAssumption DEF SocketTypes
<1>2. Len(wire') = Len(wire) + 1 /\ Len(wire) \in Nat
  BY <1>1
<1>3. wire = <<>> => Len(wire) = 0
  BY <1>1
<1>4. Len(wire) + 1 <= ReplayBudget
  BY <1>1, <1>2, <1>3 DEF Fits
<1> QED
  BY <1>2, <1>4 DEF WireFits

\* sendLive() sends no more than there is room for.
LEMMA LiveFits ==
  ASSUME StreamInv, BudgetInv, cur # 0, NEW r \in SubRecords, NEW m \in Nat, m <= Len(lines),
         InLine(r.queue, m), SendAll(r)
  PROVE  BudgetInv'
<1>1. lines \in Seq(Lines) /\ Numbered /\ wire \in Seq(Frames) /\ cur \in Slots /\ SocketTypes
  BY CurType DEF StreamInv, FileInv, LogTypes, SocketTypes
<1>2. PICK k \in 0..(m - Sent(r, m)), F \in Seq(Frames), r2 \in SubRecords : SentTo(r, m, k, F, r2)
  BY <1>1, SendAllEffect
<1>3. /\ wire' = wire \o F /\ sub' = [sub EXCEPT ![cur] = r2] /\ Len(F) = k /\ r2.queue = <<>>
      /\ k = 0 \/ Len(wire) + k <= LiveBudget
  BY <1>2 DEF SentTo
<1>4. Len(wire') = Len(wire) + k
  BY <1>1, <1>3, Joined
<1>5. WireFits(wire')
  <2>1. CASE k = 0
    <3>1. Len(wire') = Len(wire)
      BY <1>1, <1>4, <2>1
    <3> QED
      BY <3>1 DEF BudgetInv, WireFits
  <2>2. CASE Len(wire) + k <= LiveBudget
    BY <1>4, <2>2 DEF WireFits
  <2> QED
    BY <1>3, <2>1, <2>2
<1> QED
  BY <1>1, <1>3, <1>5, KeptShort

LEMMA HearFits ==
  ASSUME StreamInv, BudgetInv, NEW e \in Entries, Announce(e)
  PROVE  BudgetInv'
<1> DEFINE m == Announced + 1
           r == sub[cur]
<1>1. Last(lines) = lines[m] /\ m = Len(lines) /\ FileInv /\ SocketTypes /\ lines \in Seq(Lines) /\ QueueBudget \in Nat
  BY ReturnsInFile, StreamAssumption DEF Announce, StreamInv, FileInv, LogTypes
<1>2. Announced \in Nat /\ m \in Nat /\ m <= Len(lines)
  BY <1>1, FirstEntry
<1>3. CASE UNCHANGED <<sub, wire>>
  BY <1>3 DEF BudgetInv, Short, WireFits
<1>4. CASE cur # 0
  <2>1. /\ cur \in Slots /\ r \in SubRecords /\ CurOK(r, Announced) /\ r.queue \in Seq(Lines)
        /\ Len(r.queue) \in Nat /\ Hear(lines[m])
    BY <1>1, <1>4, CurType, SubTypes DEF StreamInv, CurInv, Announce
  <2> DEFINE q == Append(r.queue, lines[m])
             held == [r EXCEPT !.queue = q]
  <2>2. q \in Seq(Lines) /\ Len(q) = Len(r.queue) + 1 /\ InLine(q, m)
    BY <1>1, <1>2, <2>1, HeldInLine DEF CurOK
  <2>3. \/ sub' = [sub EXCEPT ![cur] = Paused(r)] /\ UNCHANGED wire
        \/ Len(r.queue) < QueueBudget /\ sub' = [sub EXCEPT ![cur] = held] /\ UNCHANGED wire
        \/ SendAll(held)
        \/ UNCHANGED <<sub, wire>>
    <3>1. r.mode \in {"replay", "live", "off", "paused"}
      BY <2>1 DEF SubRecords
    <3>2. CASE r.mode = "replay" /\ Len(r.queue) >= QueueBudget
      <4>1. ~(Len(r.queue) < QueueBudget)
        BY <1>1, <2>1, <3>2
      <4> QED
        BY <2>1, <3>2, <4>1 DEF Hear
    <3>3. CASE r.mode = "replay" /\ Len(r.queue) < QueueBudget
      <4>1. ~(Len(r.queue) >= QueueBudget)
        BY <1>1, <2>1, <3>3
      <4> QED
        BY <2>1, <3>3, <4>1 DEF Hear
    <3>4. CASE r.mode = "live"
      BY <2>1, <3>4 DEF Hear
    <3>5. CASE r.mode \in {"off", "paused"}
      BY <2>1, <3>5 DEF Hear
    <3>6. Len(r.queue) >= QueueBudget \/ Len(r.queue) < QueueBudget
      BY <1>1, <2>1
    <3> QED
      BY <3>1, <3>2, <3>3, <3>4, <3>5, <3>6
  <2>4. Paused(r).queue = <<>>
    BY <2>1 DEF Paused, SubRecords
  <2> HIDE DEF q
  <2>5. held \in SubRecords /\ held.queue = q
    BY <2>1, <2>2 DEF SubRecords
  <2> HIDE DEF held, r
  <2>6. WireFits(wire)
    BY DEF BudgetInv
  <2>7. CASE sub' = [sub EXCEPT ![cur] = Paused(r)] /\ UNCHANGED wire
    <3>1. WireFits(wire')
      BY <2>6, <2>7 DEF WireFits
    <3> QED
      BY <1>1, <2>1, <2>4, <2>7, <3>1, KeptShort
  <2>8. CASE Len(r.queue) < QueueBudget /\ sub' = [sub EXCEPT ![cur] = held] /\ UNCHANGED wire
    <3>1. Len(q) <= QueueBudget
      BY <1>1, <2>1, <2>2, <2>8
    <3>2. Short(held)
      BY <2>5, <3>1 DEF Short
    <3>3. \A i \in Slots : sub'[i] = held \/ sub'[i] = sub[i]
      BY <1>1, <2>8 DEF SocketTypes
    <3> QED
      BY <2>8, <3>2, <3>3 DEF BudgetInv, Short, WireFits
  <2>9. CASE SendAll(held)
    BY <1>2, <1>4, <2>2, <2>5, <2>9, LiveFits
  <2> QED
    BY <1>3, <2>3, <2>7, <2>8, <2>9
<1> QED
  BY <1>3, <1>4 DEF Announce

LEMMA BudgetStep ==
  ASSUME StreamInv, BudgetInv, [StreamNext]_vars
  PROVE  BudgetInv'
<1>1. SocketTypes /\ wire \in Seq(Frames) /\ \A n \in Slots : sub[n] \in SubRecords
  BY DEF StreamInv, SocketTypes
<1>2. CASE UNCHANGED <<sub, wire>>
  BY <1>2 DEF BudgetInv, Short, WireFits
<1>3. ASSUME wire' = wire PROVE WireFits(wire')
  BY <1>3 DEF BudgetInv, WireFits
<1>4. ASSUME NEW e \in Entries, LogStep(e) \/ (Enqueue(e) /\ UNCHANGED svars) PROVE BudgetInv'
  <2>1. CASE Announce(e)
    BY <2>1, HearFits
  <2> QED
    BY <1>2, <1>4, <2>1 DEF LogStep, svars
<1>5. ASSUME NEW n \in Slots, Subscribe(n) \/ Replay(n) \/ Resync(n) PROVE BudgetInv'
  <2>a. sub[n] \in SubRecords
    BY <1>1
  <2>1. CASE Subscribe(n)
    <3> DEFINE r == [NoSub EXCEPT !.mode = "replay", !.at = "index", !.last = Head(up), !.epoch = epoch']
    <3>1. sub' = [sub EXCEPT ![n] = r] /\ wire' = wire /\ r.queue = <<>>
      BY <2>1 DEF Subscribe, NoSub
    <3> HIDE DEF r
    <3> QED
      BY <1>1, <1>3, <3>1, KeptShort
  <2>2. CASE Resync(n)
    <3> DEFINE r == [sub[n] EXCEPT !.at = "done"]
               f == Frame("resync", sub[n].last, "-", sub[n])
    <3>1. sub' = [sub EXCEPT ![n] = r] /\ wire' = Append(wire, f) /\ Fits /\ r.queue = sub[n].queue
      BY <2>2, <2>a DEF Resync, Fits, SubRecords
    <3> HIDE DEF r, f
    <3> QED
      BY <1>1, <3>1, FrameFits, KeptShort
  <2>3. CASE ReadIndex(n)
    <3> DEFINE r == [sub[n] EXCEPT !.first = Retained, !.at = IF sub[n].last < Retained - 1 THEN "gap" ELSE "open"]
    <3>1. sub' = [sub EXCEPT ![n] = r] /\ wire' = wire /\ r.queue = sub[n].queue
      BY <2>3, <2>a DEF ReadIndex, Advances, SubRecords
    <3> HIDE DEF r
    <3> QED
      BY <1>1, <1>3, <3>1, KeptShort
  <2>4. CASE SendGap(n)
    <3> DEFINE r == [sub[n] EXCEPT !.at = "open"]
               f == Frame("gap", sub[n].first - 1, "-", sub[n])
    <3>1. sub' = [sub EXCEPT ![n] = r] /\ wire' = Append(wire, f) /\ Fits /\ r.queue = sub[n].queue
      BY <2>4, <2>a DEF SendGap, GapFrame, Advances, SubRecords
    <3> HIDE DEF r, f
    <3> QED
      BY <1>1, <3>1, FrameFits, KeptShort
  <2>5. CASE OpenFile(n)
    <3> DEFINE r == [sub[n] EXCEPT !.at = IF Missing THEN "end" ELSE "read", !.cut = Len(cuts), !.pos = FileFrom]
    <3>1. sub' = [sub EXCEPT ![n] = r] /\ wire' = wire /\ r.queue = sub[n].queue
      BY <2>5, <2>a DEF OpenFile, Advances, SubRecords
    <3> HIDE DEF r
    <3> QED
      BY <1>1, <1>3, <3>1, KeptShort
  <2>6. CASE ReadLine(n)
    <3> DEFINE l == lines[sub[n].pos + 1]
               r == [sub[n] EXCEPT !.pos = @ + 1]
               x == [r EXCEPT !.last = l.seq]
               f == Frame("event", l.seq, l.kind, r)
    <3>1. \/ sub' = [sub EXCEPT ![n] = x] /\ wire' = Append(wire, f) /\ Fits
          \/ sub' = [sub EXCEPT ![n] = r] /\ wire' = wire
      BY <2>6 DEF ReadLine, Advances
    <3>2. r.queue = sub[n].queue /\ x.queue = sub[n].queue
      BY <2>a DEF SubRecords
    <3> HIDE DEF r, x, f, l
    <3>3. CASE sub' = [sub EXCEPT ![n] = x] /\ wire' = Append(wire, f) /\ Fits
      BY <1>1, <3>2, <3>3, FrameFits, KeptShort
    <3>4. CASE sub' = [sub EXCEPT ![n] = r] /\ wire' = wire
      BY <1>1, <1>3, <3>2, <3>4, KeptShort
    <3> QED
      BY <3>1, <3>3, <3>4
  <2>7. CASE EndOfFile(n)
    <3> DEFINE r == [sub[n] EXCEPT !.at = "end"]
    <3>1. sub' = [sub EXCEPT ![n] = r] /\ wire' = wire /\ r.queue = sub[n].queue
      BY <2>7, <2>a DEF EndOfFile, Advances, SubRecords
    <3> HIDE DEF r
    <3> QED
      BY <1>1, <1>3, <3>1, KeptShort
  <2>8. CASE GoLive(n)
    <3> DEFINE r == [sub[n] EXCEPT !.mode = "live", !.at = "done"]
    <3>1. cur = n /\ SendAll(r)
      BY <2>8 DEF GoLive, At, Current
    <3>2. cur # 0 /\ CurOK(sub[n], Announced) /\ Announced \in Nat /\ Announced <= Len(lines)
      BY <3>1, Replaying
    <3>3. r \in SubRecords /\ r.queue = sub[n].queue
      BY <2>a DEF SubRecords
    <3> HIDE DEF r
    <3> QED
      BY <3>1, <3>2, <3>3, LiveFits DEF CurOK
  <2>9. CASE Abandoned(n)
    <3> DEFINE r == [sub[n] EXCEPT !.at = "done"]
    <3>1. sub' = [sub EXCEPT ![n] = r] /\ wire' = wire /\ r.queue = sub[n].queue
      BY <2>9, <2>a DEF Abandoned, Advances, SubRecords
    <3> HIDE DEF r
    <3> QED
      BY <1>1, <1>3, <3>1, KeptShort
  <2> QED
    BY <1>5, <2>1, <2>2, <2>3, <2>4, <2>5, <2>6, <2>7, <2>8, <2>9 DEF Replay
<1>6. CASE Connect \/ Follow
  BY <1>2, <1>6 DEF Connect, Follow
<1>7. CASE Disconnect
  <2>1. sub' = sub /\ wire' = <<>> /\ Len(<<>>) = 0 /\ LiveBudget \in Nat
    BY <1>7, StreamAssumption DEF Disconnect
  <2>2. WireFits(wire')
    BY <2>1 DEF WireFits
  <2> QED
    BY <2>1, <2>2 DEF BudgetInv, Short, WireFits
<1>8. CASE Receive
  <2>1. sub' = sub /\ wire # <<>> /\ wire' = Tail(wire) /\ ReplayBudget \in Nat /\ LiveBudget \in Nat
    BY <1>8, StreamAssumption DEF Receive
  <2>2. Len(wire') = Len(wire) - 1 /\ Len(wire) \in Nat
    BY <1>1, <2>1, TailFacts
  <2>3. WireFits(wire')
    BY <2>1, <2>2 DEF BudgetInv, WireFits
  <2> QED
    BY <2>1, <2>3 DEF BudgetInv, Short, WireFits
<1>9. CASE UNCHANGED vars
  BY <1>2, <1>9 DEF vars, svars
<1> QED
  BY <1>4, <1>5, <1>6, <1>7, <1>8, <1>9 DEF StreamNext

\* The types, and what one client keeps in memory: never more held than its
\* queue's budget, nor more buffered than the larger of the other two.
THEOREM StreamWithinBudgets == StreamSpec => []StreamTypeOK
<1>1. StreamInit => BudgetInv
  <2> SUFFICES ASSUME StreamInit PROVE BudgetInv
    OBVIOUS
  <2>1. sub = [n \in Slots |-> NoSub] /\ wire = <<>>
    BY DEF StreamInit
  <2>2. NoSub.queue = <<>> /\ Len(<<>>) = 0 /\ QueueBudget \in Nat /\ LiveBudget \in Nat
    BY StreamAssumption DEF NoSub
  <2> QED
    BY <2>1, <2>2 DEF BudgetInv, Short, WireFits
<1>2. StreamSpec => []BudgetInv
  BY <1>1, BudgetStep, StreamHolds, PTL DEF StreamSpec
<1>3. StreamInv /\ BudgetInv => StreamTypeOK
  <2> SUFFICES ASSUME StreamInv, BudgetInv PROVE StreamTypeOK
    OBVIOUS
  <2>1. cur \in 0..2 /\ conn \in BOOLEAN /\ told \in Nat /\ after \in Nat
    BY DEF StreamInv, SocketTypes
  <2>2. \A n \in Slots : Len(sub[n].queue) <= QueueBudget /\ sub[n].mode \in {"off", "replay", "live", "paused"}
    <3>1. \A n \in Slots : sub[n] \in SubRecords
      BY DEF StreamInv, SocketTypes
    <3> QED
      BY <3>1 DEF BudgetInv, Short, SubRecords
  <2> QED
    BY <2>1, <2>2 DEF StreamTypeOK, BudgetInv, WireFits
<1> QED
  BY <1>2, <1>3, StreamHolds, PTL
=============================================================================
