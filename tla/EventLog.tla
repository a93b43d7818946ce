------------------------------ MODULE EventLog ------------------------------
(***************************************************************************)
(* backend/src/conversation/store.ts: the event log of one conversation.   *)
(* An entry (`Resident`) holds the index in memory, a queue of accepted    *)
(* events and the chain that appends them; an evicted entry stays in       *)
(* `evicting` until its snapshot landed. Everything in memory goes with    *)
(* the process; the events file and the snapshot stay.                     *)
(*                                                                         *)
(* The events file is written as one sequence `lines` of every line ever   *)
(* appended, cut where it was rotated: the current file is what follows    *)
(* the last cut (`.1` is never read back for a seq). Sizes and offsets     *)
(* count lines. Left out: what an event says, the agents, messages and     *)
(* composer tallies of the index, the size caps of the snapshot, and the   *)
(* count and scope a drop report carries.                                  *)
(***************************************************************************)
EXTENDS Naturals, Sequences, FiniteSets

CONSTANTS
  QueueEvents,  \* L6: events waiting in one conversation's queue
  FileLines,    \* L7: the file is rotated at this size
  FlushEvery,   \* the snapshot is written after this many appends
  MaxEvents,    \* bound: events offered
  MaxFaults,    \* bound: failing writes, full global budgets, crashes
  Worlds        \* sets of mishaps; a behaviour meets those of one of them

Mishaps == {"append", "partial", "snapshot", "rename", "global", "crash",
            "rotation", "close race"}

ASSUME EventLogAssumption ==
  /\ QueueEvents \in Nat \ {0} /\ FlushEvery \in Nat \ {0}
  /\ FileLines \in Nat \ {0, 1}
  /\ MaxEvents \in Nat /\ MaxFaults \in Nat
  /\ Worlds \subseteq SUBSET Mishaps

VARIABLES
  lines, frag, cuts,   \* the file's lines, whether an unfinished line ends
                       \* it, and where it was rotated
  snap,                \* the snapshot (index.json)
  entry,               \* the entries: in `resident`, in `evicting`, closed
                       \* while a chain still ran, or not in use
  opening,             \* the load in flight: nothing or the index it read
  writing,             \* the snapshot write in flight
  purge,               \* purgeSession: not called, its stages, done
  persisted, owed,     \* history: seqs announced to the listeners; losses
                       \* since the last report
  world, offered, faults  \* the mishaps of this behaviour; bounds used up

disk  == <<lines, frag, cuts>>
lvars == <<lines, frag, cuts, snap, entry, opening, writing, purge,
           persisted, owed, world, offered, faults>>

Entries == {1, 2}
Last(s) == s[Len(s)]

Line(seq, kind) == [seq |-> seq, kind |-> kind]
Torn == Line(0, "torn")
FileFrom == IF cuts = <<>> THEN 0 ELSE Last(cuts)
Size == Len(lines) - FileFrom
Readable(l) == l.kind # "torn"
\* The readable seqs of the current file, from its line k on.
SeqsFrom(k) == {lines[i].seq : i \in {j \in (FileFrom + k)..Len(lines) : Readable(lines[j])}}

\* An index: last seq given out, lines it is valid up to (of the file after
\* `cut` rotations), first seq of the current file (0: not known yet).
Index(last, off, cut, first) == [last |-> last, off |-> off, cut |-> cut, first |-> first]
Fresh == Index(0, 0, 0, 1)
NoSnap == [none |-> TRUE]

NoWrite == [by |-> "none", e |-> 0, idx |-> Fresh]
NotInUse == [at |-> "none", idx |-> Fresh, queue |-> 0, job |-> "none", step |-> "idle",
             drop |-> FALSE, dirty |-> FALSE, since |-> 0, timer |-> FALSE,
             size |-> 0, want |-> {}]

In(e, where) == entry[e].at = where
Idle(e) == entry[e].queue = 0 /\ entry[e].step = "idle" /\ entry[e].job = "none"
Put(e, r) == entry' = [entry EXCEPT ![e] = r]
Fault(kind) == kind \in world /\ faults < MaxFaults /\ faults' = faults + 1
NoFault == UNCHANGED faults
Purging == purge \notin {"no", "gone"}

Init ==
  /\ lines = <<>> /\ frag = FALSE /\ cuts = <<>> /\ snap = NoSnap
  /\ entry = [e \in Entries |-> NotInUse]
  /\ opening = NoSnap /\ writing = NoWrite /\ purge = "no"
  /\ persisted = {} /\ owed = FALSE
  /\ world \in Worlds /\ offered = 0 /\ faults = 0

-----------------------------------------------------------------------------
(* enqueue()                                                                *)

NoteDrop(r) == [r EXCEPT !.drop = TRUE]

Closing(e) == "close" \in entry[e].want \/ (writing.by = "close" /\ writing.e = e)

\* Between close()'s wait and its end nothing is offered, unless the
\* behaviour is one where a caller does.
Taken(e) ==
  /\ In(e, "resident") /\ purge = "no" /\ offered < MaxEvents
  /\ Closing(e) => "close race" \in world /\ writing # NoWrite
  /\ offered' = offered + 1

Enqueue(e) ==
  /\ Taken(e) /\ entry[e].queue < QueueEvents
  /\ Put(e, [entry[e] EXCEPT !.queue = @ + 1])
  /\ UNCHANGED <<disk, snap, opening, writing, purge, persisted, owed, world, faults>>

\* L6, or G1: the other conversations hold the whole global budget.
Overflow(e) ==
  /\ Taken(e)
  /\ \/ entry[e].queue >= QueueEvents /\ NoFault
     \/ entry[e].queue < QueueEvents /\ Fault("global")
  /\ Put(e, NoteDrop(entry[e])) /\ owed' = TRUE
  /\ UNCHANGED <<disk, snap, opening, writing, purge, persisted, world>>

\* A `gap` bypasses the budgets.
EnqueueGap(e) ==
  /\ Taken(e) /\ entry[e].queue >= QueueEvents
  /\ Put(e, [entry[e] EXCEPT !.queue = @ + 1])
  /\ UNCHANGED <<disk, snap, opening, writing, purge, persisted, owed, world, faults>>

-----------------------------------------------------------------------------
(* drainQueue() and appendOne(): a tally is reported before the next event. *)

DrainNext(e) ==
  /\ entry[e].queue > 0 /\ entry[e].step = "idle" /\ entry[e].job = "none"
  /\ Put(e, IF entry[e].drop
            THEN [entry[e] EXCEPT !.drop = FALSE, !.job = "report", !.step = "append"]
            ELSE [entry[e] EXCEPT !.queue = @ - 1, !.job = "event", !.step = "append"])
  /\ UNCHANGED <<disk, snap, opening, writing, purge, persisted, owed, world, offered, faults>>

\* Mutation: the queue is not looked at again.
PopsAnyway(e) ==
  /\ entry[e].job = "report" /\ entry[e].step = "idle"
  /\ Put(e, [entry[e] EXCEPT !.queue = @ - 1, !.job = "event", !.step = "append"])
  /\ UNCHANGED <<disk, snap, opening, writing, purge, persisted, owed, world, offered, faults>>

\* After a report the next event goes out whatever was dropped meanwhile; a
\* purge may have emptied the queue (the shift then throws, and is caught).
AfterReport(e) ==
  /\ entry[e].job = "report" /\ entry[e].step = "idle"
  /\ Put(e, IF entry[e].queue = 0
            THEN [entry[e] EXCEPT !.job = "none"]
            ELSE [entry[e] EXCEPT !.queue = @ - 1, !.job = "event", !.step = "append"])
  /\ UNCHANGED <<disk, snap, opening, writing, purge, persisted, owed, world, offered, faults>>

NextSeq(e) == entry[e].idx.last + 1
KindOf(e) == IF entry[e].step = "cut" THEN "rotated"
             ELSE IF entry[e].job = "report" THEN "gap" ELSE "event"

\* A line appended behind an unfinished one is glued to it and unreadable.
Lands(l) == lines' = Append(lines, IF frag THEN [l EXCEPT !.kind = "torn"] ELSE l) /\ frag' = FALSE /\ UNCHANGED cuts

\* The write reaches the file; "cut" is the `gap rotated` of a new file.
AppendLands(e) ==
  /\ entry[e].step \in {"append", "cut"}
  /\ Lands(Line(NextSeq(e), KindOf(e)))
  /\ Put(e, [entry[e] EXCEPT !.step = IF @ = "cut" THEN "cutlanded" ELSE "landed"])
  /\ UNCHANGED <<snap, opening, writing, purge, persisted, owed, world, offered, faults>>

\* Mutation: a report that could not be written is counted as reported.
DropAlways(e) == entry[e].job = "event"
DropAgain(e) == TRUE

\* The write fails, with part of the line in the file or nothing: the event
\* is lost, or the tally goes back.
AppendFails(e) ==
  /\ entry[e].step \in {"append", "cut"}
  /\ entry[e].step = "cut" => "rotation" \in world
  /\ \/ Fault("append") /\ UNCHANGED disk
     \/ Fault("partial") /\ frag' = TRUE /\ UNCHANGED <<lines, cuts>>
  /\ Put(e, [entry[e] EXCEPT !.drop = @ \/ DropAgain(e),
               !.step = IF @ = "cut" THEN "flush" ELSE "idle",
               !.job = IF entry[e].step = "append" /\ @ = "event" THEN "none" ELSE @])
  /\ owed' = (owed \/ KindOf(e) = "event")
  /\ UNCHANGED <<snap, opening, writing, purge, persisted, world, offered>>

Advance(idx) ==
  Index(idx.last + 1, idx.off + 1, idx.cut, IF idx.first = 0 THEN idx.last + 1 ELSE idx.first)

\* appendFile() returned: the index and the listeners learn of it.
AppendReturns(e) ==
  LET r == entry[e] IN
  /\ r.step \in {"landed", "cutlanded"}
  /\ persisted' = persisted \cup {NextSeq(e)}
  /\ owed' = (owed /\ (r.step # "landed" \/ r.job # "report" \/ r.drop))
  /\ Put(e, [r EXCEPT !.idx = Advance(@), !.size = @ + 1, !.since = @ + 1, !.dirty = TRUE,
               !.step = IF r.size + 1 >= FileLines THEN "rotate" ELSE "flush"])
  /\ UNCHANGED <<disk, snap, opening, writing, purge, world, offered, faults>>

\* rotate(): `.1` goes, the file becomes `.1`.
Rotate(e) ==
  /\ entry[e].step = "rotate"
  /\ \/ /\ NoFault
        /\ cuts' = Append(cuts, Len(lines)) /\ frag' = FALSE /\ UNCHANGED lines
        /\ Put(e, [entry[e] EXCEPT !.step = "cut", !.size = 0,
             !.idx = Index(@.last, 0, Len(cuts'), 0)])
     \/ Fault("rename") /\ UNCHANGED disk /\ Put(e, [entry[e] EXCEPT !.step = "flush"])
  /\ UNCHANGED <<snap, opening, writing, purge, persisted, owed, world, offered>>

EndJob(r) == [r EXCEPT !.step = "idle", !.job = IF @ = "report" THEN @ ELSE "none"]

\* The snapshot: written now after FlushEvery appends, else by the timer.
FlushOrArm(e) ==
  /\ entry[e].step = "flush"
  /\ Put(e, IF entry[e].since >= FlushEvery
            THEN [entry[e] EXCEPT !.step = "flushing", !.want = @ \cup {"drain"}]
            ELSE EndJob([entry[e] EXCEPT !.timer = TRUE]))
  /\ UNCHANGED <<disk, snap, opening, writing, purge, persisted, owed, world, offered, faults>>

-----------------------------------------------------------------------------
(* writeIndex(): one write of the snapshot at a time; eviction, close() and *)
(* the drain wait for theirs, the flush timer's is waited for by nobody.    *)

Requests == {"evict", "close", "drain", "timer"}

\* The wait is over: the drain goes on, close() drops the entry (a chain it
\* did not wait for keeps running on it), and an entry being evicted leaves
\* with the last write asked for it.
Leaves(r) ==
  IF r.queue = 0 /\ r.step = "idle" THEN NotInUse ELSE [r EXCEPT !.at = "closed"]
Served(e, by, r) ==
  CASE by = "drain" -> EndJob(r)
    [] by = "close" /\ r.at = "resident" -> Leaves([r EXCEPT !.timer = FALSE])
    [] by # "drain" /\ r.at = "evicting" /\ r.want = {} -> NotInUse
    [] OTHER -> r

\* A tally goes with the entry that leaves, and is not reported.
Forgets(e) == owed' = (owed /\ ~(entry[e].drop /\ entry'[e] = NotInUse))

Asked(e, by) == by \in entry[e].want \/ (by = "timer" /\ entry[e].timer)
Taking(e, by) == [entry[e] EXCEPT !.want = @ \ {by}, !.timer = @ /\ by # "timer"]
Disarmed(r) == [r EXCEPT !.dirty = FALSE, !.timer = FALSE]

\* writeIndexNow(): nothing to do if clean; refused during a purge.
SkipWrite(e, by) ==
  /\ Asked(e, by) /\ writing = NoWrite
  /\ ~entry[e].dirty \/ Purging
  /\ Put(e, Served(e, by, IF entry[e].dirty THEN Disarmed(Taking(e, by)) ELSE Taking(e, by)))
  /\ Forgets(e)
  /\ UNCHANGED <<disk, snap, opening, writing, purge, persisted, world, offered, faults>>

StartWrite(e, by) ==
  /\ Asked(e, by) /\ writing = NoWrite
  /\ entry[e].dirty /\ ~Purging
  /\ writing' = [by |-> by, e |-> e, idx |-> entry[e].idx]
  /\ Put(e, [Disarmed(Taking(e, by)) EXCEPT !.since = 0])
  /\ UNCHANGED <<disk, snap, opening, purge, persisted, owed, world, offered, faults>>

EndWrite ==
  /\ writing # NoWrite
  /\ LET e == writing.e IN
     /\ \/ snap' = writing.idx /\ NoFault /\ Put(e, Served(e, writing.by, entry[e]))
        \/ /\ Fault("snapshot") /\ UNCHANGED snap
           /\ Put(e, Served(e, writing.by, [entry[e] EXCEPT !.dirty = TRUE]))
     /\ Forgets(e)
  /\ writing' = NoWrite
  /\ UNCHANGED <<disk, opening, purge, persisted, world, offered>>

-----------------------------------------------------------------------------
(* open(), eviction, close()                                                *)

\* Another conversation was opened and this one is the least recently used.
Evict(e) ==
  /\ In(e, "resident") /\ Idle(e)
  /\ Put(e, [entry[e] EXCEPT !.at = "evicting", !.want = @ \cup {"evict"}])
  /\ UNCHANGED <<disk, snap, opening, writing, purge, persisted, owed, world, offered, faults>>

\* Reopened while its eviction write runs: the entry is taken back.
Adopt(e) ==
  /\ In(e, "evicting") /\ purge = "no"
  /\ Put(e, [entry[e] EXCEPT !.at = "resident"])
  /\ UNCHANGED <<disk, snap, opening, writing, purge, persisted, owed, world, offered, faults>>

InMemory(e) == entry[e].at \in {"resident", "evicting"}
OpenStart ==
  /\ purge = "no" /\ opening = NoSnap /\ \A e \in Entries : ~InMemory(e)
  /\ opening' = IF snap = NoSnap THEN Fresh ELSE snap
  /\ UNCHANGED <<disk, snap, entry, writing, purge, persisted, owed, world, offered, faults>>

SetMin(S) == CHOOSE x \in S : \A y \in S : x <= y
SetMax(S) == CHOOSE x \in S : \A y \in S : x >= y

\* Mutation: the snapshot's last seq is believed.
LastOfSnap(idx, seen) == idx.last
LastSeq(idx, seen) == SetMax({idx.last} \cup seen)

\* recoverFromFile(): the snapshot is trusted up to its offset and the rest
\* of the file is scanned; without a file the last seq stays. An offset of
\* the file before a rotation is past the end of the new one.
Recovered(idx) ==
  LET off   == IF idx.cut # Len(cuts) \/ idx.off > Size THEN 0 ELSE idx.off
      seen  == SeqsFrom(off + 1)
      known == IF off = 0 THEN 0 ELSE idx.first
  IN Index(LastSeq(idx, seen), Size, Len(cuts),
           IF known # 0 THEN known ELSE IF seen # {} THEN SetMin(seen) ELSE idx.last + 1)
Missing == Size = 0 /\ ~frag
Recover(idx) == IF Missing THEN [idx EXCEPT !.off = 0, !.cut = Len(cuts)] ELSE Recovered(idx)

\* An unfinished line is terminated before the file is scanned. (Mutation:
\* it is left as it is.)
LeaveUnfinished == UNCHANGED disk
Terminate ==
  IF frag THEN lines' = Append(lines, Torn) /\ frag' = FALSE /\ UNCHANGED cuts ELSE UNCHANGED disk
OpenFinish(e) ==
  /\ opening # NoSnap /\ In(e, "none") /\ ~entry[e].timer
  /\ \/ Terminate /\ NoFault
     \/ frag /\ Fault("partial") /\ UNCHANGED disk
  /\ opening' = NoSnap
  /\ IF Purging THEN UNCHANGED entry
     ELSE \E idx \in {opening} :
            Put(e, [NotInUse EXCEPT !.at = "resident", !.idx = Recover(idx)', !.size = Size'])
  /\ UNCHANGED <<snap, writing, purge, persisted, owed, world, offered>>

\* close(): after the chain, the snapshot is written and the entry dropped.
Close(e) ==
  /\ In(e, "resident") /\ Idle(e) /\ ~Closing(e)
  /\ Put(e, [entry[e] EXCEPT !.want = @ \cup {"close"}])
  /\ UNCHANGED <<disk, snap, opening, writing, purge, persisted, owed, world, offered, faults>>

-----------------------------------------------------------------------------
(* purgeSession(), after the service closed the admission for good.         *)

PurgeBegin ==
  /\ purge = "no" /\ purge' = "loads"
  /\ UNCHANGED <<disk, snap, entry, opening, writing, persisted, owed, world, offered, faults>>

PurgeLoads ==
  /\ purge = "loads" /\ opening = NoSnap /\ purge' = "chains"
  /\ entry' = [e \in Entries |-> IF In(e, "resident") THEN [entry[e] EXCEPT !.queue = 0] ELSE entry[e]]
  /\ UNCHANGED <<disk, snap, opening, writing, persisted, owed, world, offered, faults>>

PurgeChain(e) ==
  /\ purge = "chains" /\ In(e, "resident") /\ Idle(e)
  /\ Put(e, [Disarmed(entry[e]) EXCEPT !.at = "none"])
  /\ UNCHANGED <<disk, snap, opening, writing, purge, persisted, owed, world, offered, faults>>

\* Mutation: the writes are not waited for.
WritesOut == TRUE
WritesSettled == writing = NoWrite /\ \A e \in Entries : entry[e].want = {}

PurgeWrites ==
  /\ purge = "chains" /\ \A e \in Entries : ~In(e, "resident")
  /\ WritesSettled
  /\ purge' = "removing"
  /\ entry' = [e \in Entries |-> IF In(e, "evicting") THEN [entry[e] EXCEPT !.at = "none"] ELSE entry[e]]
  /\ UNCHANGED <<disk, snap, opening, writing, persisted, owed, world, offered, faults>>

PurgeRemoves ==
  /\ purge = "removing" /\ purge' = "gone"
  /\ lines' = <<>> /\ frag' = FALSE /\ cuts' = <<>> /\ snap' = NoSnap /\ persisted' = {}
  /\ UNCHANGED <<entry, opening, writing, owed, world, offered, faults>>

-----------------------------------------------------------------------------
\* The process dies and comes back: an append under way may be in the file
\* in part. Between a rotation and its first line only where said so.
Rotating == Size = 0 /\ cuts # <<>>
Crash ==
  /\ Fault("crash") /\ (Rotating => "rotation" \in world)
  /\ frag' \in {frag} \cup {\E e \in Entries : entry[e].step \in {"append", "cut"}}
  /\ entry' = [e \in Entries |-> NotInUse] /\ opening' = NoSnap /\ writing' = NoWrite
  /\ purge' = IF purge = "gone" THEN purge ELSE "no"
  /\ owed' = FALSE
  /\ UNCHANGED <<lines, cuts, snap, persisted, world, offered>>

Append1(e) == AppendLands(e) \/ AppendFails(e) \/ AppendReturns(e)
Drain(e) == DrainNext(e) \/ AfterReport(e) \/ Append1(e) \/ Rotate(e) \/ FlushOrArm(e)
Offer(e) == Enqueue(e) \/ Overflow(e) \/ EnqueueGap(e)
Write == EndWrite \/ \E e \in Entries, by \in Requests : SkipWrite(e, by) \/ StartWrite(e, by)
Memory(e) == Evict(e) \/ Adopt(e) \/ OpenFinish(e) \/ Close(e) \/ PurgeChain(e)
LogNext ==
  \/ \E e \in Entries : Offer(e) \/ Drain(e) \/ Memory(e)
  \/ Write \/ OpenStart
  \/ PurgeBegin \/ PurgeLoads \/ PurgeWrites \/ PurgeRemoves \/ Crash

LogSpec == Init /\ [][LogNext]_lvars

-----------------------------------------------------------------------------
TypeOK ==
  /\ \A i \in 1..Len(lines) : lines[i].kind \in {"event", "gap", "rotated", "torn"} /\ lines[i].seq \in Nat
  /\ frag \in BOOLEAN /\ \A i \in 1..Len(cuts) : cuts[i] \in 1..Len(lines)
  /\ \A e \in Entries : entry[e].at \in {"none", "resident", "evicting", "closed"} /\ entry[e].queue \in Nat
  /\ owed \in BOOLEAN
  /\ purge \in {"no", "loads", "chains", "removing", "gone"}

\* seq is strictly increasing per conversation, whatever is evicted, closed,
\* reopened or lost in between (store.ts header).
SeqsIncrease ==
  \A i, j \in 1..Len(lines) :
    i < j /\ Readable(lines[i]) /\ Readable(lines[j]) => lines[i].seq < lines[j].seq

\* "Persisted" means in the file: what the listeners were told of, from the
\* first seq the index says is retained, can be read from the current file;
\* but for a line glued to one that a failed append left unfinished.
Glued == {lines[i].seq : i \in {j \in 1..Len(lines) : ~Readable(lines[j]) /\ "partial" \in world}}
PersistedIsInFile ==
  \A e \in Entries : InMemory(e) /\ entry[e].idx.first # 0 =>
    {s \in persisted \ Glued : s >= entry[e].idx.first} \subseteq SeqsFrom(1)

\* A loss not yet reported is in the tally of an entry or in the report it
\* is writing: a failed report gives it back (but an entry that leaves memory
\* takes its tally along).
LossKept ==
  owed => \E e \in Entries : entry[e].drop \/ entry[e].job = "report"

\* After a purge nothing of the conversation is on disk again.
PurgedStaysEmpty == purge = "gone" => lines = <<>> /\ ~frag /\ snap = NoSnap
=============================================================================
