-------------------------- MODULE BootstrapProofs --------------------------
(***************************************************************************)
(* Proofs about Bootstrap, for any clients and any number of verbs,        *)
(* faults, stages and chunks and any size of the buffer: every client gets *)
(* the whole log and one end; and, unless users both stop and start the    *)
(* session or a shutdown finds a create under way, no session is left      *)
(* running, never bootstrapped and with nobody to finish it.               *)
(***************************************************************************)
EXTENDS Bootstrap, SequenceTheorems, TLAPS

-----------------------------------------------------------------------------
(* Chunks                                                                   *)

\* The chunks from one to the last but none later than n.
Upto(from, n) == [i \in 1 .. Bound(n - from + 1, 0) |-> from + i - 1]

\* The chunks from one number to another, as a sequence.
LEMMA UptoIsSeq ==
  ASSUME NEW n \in Nat, NEW from \in 1 .. n + 1
  PROVE  /\ Upto(from, n) \in Seq(Nat)
         /\ Len(Upto(from, n)) = n - from + 1
         /\ \A i \in 1 .. n - from + 1 : Upto(from, n)[i] = from + i - 1
<1> DEFINE m == n - from + 1
<1>1. m \in Nat /\ Bound(m, 0) = m
  BY DEF Bound
<1>2. Upto(from, n) = [i \in 1 .. m |-> from + i - 1]
  BY <1>1 DEF Upto
<1>3. [i \in 1 .. m |-> from + i - 1] \in [1 .. m -> Nat]
  OBVIOUS
<1> HIDE DEF m
<1>4. Upto(from, n) \in Seq(Nat) /\ Len(Upto(from, n)) = m
  BY <1>1, <1>2, <1>3
<1>5. \A i \in 1 .. m : Upto(from, n)[i] = from + i - 1
  BY <1>2
<1> QED BY <1>4, <1>5 DEF m

\* One more chunk at the end.
LEMMA UptoAppend ==
  ASSUME NEW n \in Nat, NEW from \in 1 .. n + 1
  PROVE  Append(Upto(from, n), n + 1) = Upto(from, n + 1)
<1> DEFINE s == Upto(from, n)
           t == Upto(from, n + 1)
<1>1. /\ s \in Seq(Nat) /\ Len(s) = n - from + 1
      /\ \A i \in 1 .. n - from + 1 : s[i] = from + i - 1
  BY UptoIsSeq
<1>2. n + 1 \in Nat /\ from \in 1 .. (n + 1) + 1
  OBVIOUS
<1>3. /\ t \in Seq(Nat) /\ Len(t) = (n + 1) - from + 1
      /\ \A i \in 1 .. (n + 1) - from + 1 : t[i] = from + i - 1
  BY <1>2, UptoIsSeq
<1> HIDE DEF s, t
<1>4. /\ Append(s, n + 1) \in Seq(Nat) /\ Len(Append(s, n + 1)) = Len(s) + 1
      /\ \A i \in 1 .. Len(s) : Append(s, n + 1)[i] = s[i]
      /\ Append(s, n + 1)[Len(s) + 1] = n + 1
  BY <1>1, <1>2, AppendProperties
<1>5. Len(Append(s, n + 1)) = Len(t)
  BY <1>1, <1>3, <1>4
<1>6. \A i \in 1 .. Len(Append(s, n + 1)) : Append(s, n + 1)[i] = t[i]
  BY <1>1, <1>3, <1>4, SMTT(30)
<1>7. Append(s, n + 1) = t
  BY <1>3, <1>4, <1>5, <1>6, SeqEqual
<1> QED BY <1>7 DEF s, t

\* The oldest chunk dropped.
LEMMA UptoTail ==
  ASSUME NEW n \in Nat, NEW from \in 1 .. n
  PROVE  Tail(Upto(from, n)) = Upto(from + 1, n)
<1> DEFINE s == Upto(from, n)
           t == Upto(from + 1, n)
<1>1. /\ s \in Seq(Nat) /\ Len(s) = n - from + 1
      /\ \A i \in 1 .. n - from + 1 : s[i] = from + i - 1
  BY UptoIsSeq
<1>2. from + 1 \in 1 .. n + 1
  OBVIOUS
<1>3. /\ t \in Seq(Nat) /\ Len(t) = n - (from + 1) + 1
      /\ \A i \in 1 .. n - (from + 1) + 1 : t[i] = (from + 1) + i - 1
  BY <1>2, UptoIsSeq
<1> HIDE DEF s, t
<1>4. s # <<>>
  BY <1>1
<1>5. /\ Tail(s) \in Seq(Nat) /\ Len(Tail(s)) = Len(s) - 1
      /\ \A i \in 1 .. Len(Tail(s)) : Tail(s)[i] = s[i + 1]
  BY <1>1, <1>4, HeadTailProperties
<1>6. Len(Tail(s)) = Len(t)
  BY <1>1, <1>3, <1>5
<1>7. \A i \in 1 .. Len(Tail(s)) : Tail(s)[i] = t[i]
  BY <1>1, <1>3, <1>5
<1>8. Tail(s) = t
  BY <1>3, <1>5, <1>6, <1>7, SeqEqual
<1> QED BY <1>8 DEF s, t

\* Nothing is left of a buffer that starts after the last chunk.
LEMMA UptoEmpty ==
  ASSUME NEW n \in Nat
  PROVE  Upto(n + 1, n) = <<>>
<1>1. Upto(n + 1, n) \in Seq(Nat) /\ Len(Upto(n + 1, n)) = 0
  BY UptoIsSeq
<1> QED BY <1>1

\* Where the buffer begins once it has seen n chunks since the entry was made.
Begins(base, n) == Bound(base, n - BufferChunks) + 1

\* A buffer never starts beyond the next chunk.
LEMMA BeginsInside ==
  ASSUME NEW n \in Nat, NEW base \in 0 .. n
  PROVE  Begins(base, n) \in 1 .. n + 1
BY BootstrapAssumption DEF Begins, Bound

\* A chunk appended and the head trimmed: the buffer of one chunk more.
LEMMA TrimKeeps ==
  ASSUME NEW n \in Nat, NEW base \in 0 .. n
  PROVE  Trim(Append(Upto(Begins(base, n), n), n + 1)) = Upto(Begins(base, n + 1), n + 1)
<1> DEFINE from == Begins(base, n)
<1>1. from \in 1 .. n + 1 /\ BufferChunks \in Nat \ {0}
  BY BeginsInside, BootstrapAssumption
<1>2. Append(Upto(from, n), n + 1) = Upto(from, n + 1)
  BY <1>1, UptoAppend
<1>3. Len(Upto(from, n + 1)) = (n + 1) - from + 1
  <2>1. from \in 1 .. (n + 1) + 1 /\ n + 1 \in Nat
    BY <1>1
  <2> QED BY <2>1, UptoIsSeq
<1>4. CASE (n + 1) - from + 1 > BufferChunks
  <2>1. Begins(base, n + 1) = from + 1
    BY <1>1, <1>4 DEF Begins, Bound
  <2>2. Tail(Upto(from, n + 1)) = Upto(from + 1, n + 1)
    <3>1. from \in 1 .. n + 1 /\ n + 1 \in Nat
      BY <1>1
    <3> QED BY <3>1, UptoTail
  <2> QED BY <1>2, <1>3, <1>4, <2>1, <2>2 DEF Trim
<1>5. CASE ~((n + 1) - from + 1 > BufferChunks)
  <2>1. Begins(base, n + 1) = from
    BY <1>1, <1>5 DEF Begins, Bound
  <2> QED BY <1>2, <1>3, <1>5, <2>1 DEF Trim
<1> QED BY <1>4, <1>5
-----------------------------------------------------------------------------
(* The course of the run                                                    *)

Statuses   == {"none", "running", "stopped", "failed", "terminated"}
RunRecords ==
  [pc : {"none", "over", "dead"} \cup Starting \cup Tearing \cup Finishing, stage : Int,
   abort : {"no", "cap", "drain"}, verdict : {"none", "done", "fail"}]
RowRecords == [status : Statuses, id : BOOLEAN, boot : BOOLEAN]

\* The create comes before the run, and what the run tells is how it ended.
Course ==
  /\ run \in RunRecords /\ op.kind \in {"none", "create", "kill"} \cup Verbs
  /\ op = [kind |-> op.kind, pc |-> op.pc, seen |-> op.seen]
  /\ op.kind = "create" => run.pc = "none"
  /\ run.pc \in Finishing \ {"mark"} => run.verdict = "done"
  /\ run.pc \in Tearing => run.verdict = "fail"

-----------------------------------------------------------------------------
(* The log                                                                  *)

EntryRecords ==
  [on : BOOLEAN, buf : Seq(Nat), terminal : {"none", "done", "fail"}, gc : BOOLEAN, to : SUBSET Clients, base : Nat]
SubRecords == [st : {"out", "auth", "left", "in", "told", "gone"}, got : Seq(Nat), ends : Seq({"done", "fail"}), from : Nat]

LogTypes ==
  /\ entry \in EntryRecords /\ subs \in [Clients -> SubRecords] /\ sent \in Nat
  /\ ~entry.on => entry = NoEntry
\* The buffer is the last chunks since the entry was made.
BufferHolds ==
  /\ entry.base <= sent
  /\ entry.on => entry.buf = Upto(Begins(entry.base, sent), sent)
\* The entry says how the run ended, and is kept until then.
EndIsVerdict ==
  /\ entry.terminal # "none" => run.pc = "over" /\ entry.terminal = run.verdict
  /\ entry.gc => entry.terminal # "none"
\* Who is served is on the list of an entry that has no end yet.
Listening ==
  \A c \in Clients : subs[c].st = "in" => entry.on /\ entry.terminal = "none" /\ c \in entry.to
\* Nobody has been told before the run was over.
ToldAtEnd == \A c \in Clients : subs[c].st = "told" => run.pc = "over"
GotAll ==
  \A c \in Clients : subs[c].st \in {"in", "told"} =>
    /\ subs[c].from \in 1 .. sent + 1 /\ subs[c].got = Upto(subs[c].from, sent)
    /\ subs[c].ends = IF subs[c].st = "in" THEN <<>> ELSE <<run.verdict>>

LogInv ==
  LogTypes /\ BufferHolds /\ EndIsVerdict /\ Listening /\ ToldAtEnd /\ GotAll

-----------------------------------------------------------------------------
(* Nothing is stranded                                                      *)

\* Where a run has yet to come to the row.
BeforeRow == Starting \cup {"mark", "persist", "flip"}
\* A start that wrote over the failure: the container is to be killed, or is
\* not up any more, and nobody starts it again.
Revived == op.kind # "start" /\ verbs > 0 /\ (run.pc \in {"wait", "kill"} \/ box # "up")
\* A session that is neither bootstrapped nor given up is being created, or
\* has a run that has not yet come to the row, or was revived.
Attended ==
  row.status = "running" /\ ~row.boot /\ ~loose =>
    op.kind = "create" \/ run.pc \in BeforeRow \/ Revived
\* A start meets a run that has yet to kill the container.
StartMeets ==
  op.kind = "start" =>
    row.status # "none" /\ (~row.boot /\ ~loose => run.pc \in BeforeRow \cup {"wait"})
\* Before any verb the row says what the run made of it.
Untouched ==
  /\ verbs \in Nat /\ (op.kind \in Verbs => verbs > 0)
  /\ verbs = 0 /\ ~row.boot /\ ~loose => row.status \in {"running", "failed"}
\* A process that is down does nothing.
DownIsOver == server.proc = "down" => ~InFlight /\ op = IdleOp
\* A shutdown that did not find a run finds none later.
DrainSawAll ==
  server.proc = "closing" => op.kind # "create" /\ (~server.awaits => ~InFlight)

\* What no step does: leave the end of the run, put a run in flight that was
\* not created, or create again.
Onward ==
  /\ Course'
  /\ run.pc = "over" => run' = run
  /\ InFlight' => InFlight \/ op.kind = "create"
  /\ op'.kind = "create" => op.kind = "create"

\* Where a stage that is over leaves the run: at the next one or at its end.
LEMMA StageOverRun ==
  ASSUME Course, StageOver
  PROVE  run' \in RunRecords /\ run'.pc \in {"mark", "stage"}
<1> DEFINE p == IF run.stage = Stages THEN "mark" ELSE "stage"
<1>1. run \in RunRecords /\ p \in {"mark", "stage"}
  BY DEF Course
<1>2. run' = [run EXCEPT !.stage = run.stage + 1, !.pc = p]
  BY DEF StageOver
<1> HIDE DEF p
<1>3. run'.pc = p /\ run'.stage = run.stage + 1 /\ run'.abort = run.abort /\ run'.verdict = run.verdict
  BY <1>1, <1>2 DEF RunRecords
<1>4. run' = [pc |-> p, stage |-> run.stage + 1, abort |-> run.abort, verdict |-> run.verdict]
  BY <1>1, <1>2 DEF RunRecords
<1> QED BY <1>1, <1>4 DEF RunRecords, Starting, Finishing

\* The run goes forward only (runAsyncBootstrap).
LEMMA RunStepOnward == Course /\ RunStep => Onward
<1> SUFFICES ASSUME Course, RunStep PROVE Onward
  OBVIOUS
<1> USE DEF Onward, To, IdleOp, Course, RunRecords, Starting, Tearing, Finishing, InFlight
<1>1. CASE RuntimeReady
  BY <1>1 DEF RuntimeReady
<1>2. CASE BeginStage
  <2>1. run.pc = "stage" /\ op' = op
    BY <1>2 DEF BeginStage
  <2>2. CASE StageOver
    <3>1. run' \in RunRecords /\ run'.pc \in {"mark", "stage"}
      BY <2>2, StageOverRun
    <3> QED BY <2>1, <3>1
  <2>4. CASE StageFails
    BY <2>1, <2>4 DEF StageFails
  <2>5. CASE To("asking")
    BY <2>1, <2>5
  <2> QED BY <1>2, <2>2, <2>4, <2>5 DEF BeginStage, AbortSurfaces
<1>3. CASE ExecStarts
  BY <1>3, ZenonT(40) DEF ExecStarts, StageFails
<1>4. CASE StreamCut
  BY <1>4 DEF StreamCut, AbortSurfaces, StageFails
<1>5. CASE CapFires
  BY <1>5 DEF CapFires, Aborted
<1>6. CASE Mark
  BY <1>6 DEF Mark
<1>7. CASE Launched
  BY <1>7 DEF Launched
<1>8. CASE KeepLog
  BY <1>8 DEF KeepLog
<1>9. CASE TellDone
  BY <1>9 DEF TellDone
<1>10. CASE PersistLog
  BY <1>10 DEF PersistLog
<1>11. CASE Flip
  BY <1>11 DEF Flip
<1>12. CASE TakeKill
  BY <1>12 DEF TakeKill
<1>13. CASE KillAnswers
  BY <1>13 DEF KillAnswers, KillEnds
<1>14. CASE TellFail
  BY <1>14 DEF TellFail
<1> QED BY <1>1, <1>2, <1>3, <1>4, <1>5, <1>6, <1>7, <1>8, <1>9, <1>10, <1>11, <1>12, <1>13, <1>14 DEF RunStep

\* So does what is inside the session's lock.
LEMMA BodyStepOnward == Course /\ BodyStep => Onward
<1> SUFFICES ASSUME Course, BodyStep PROVE Onward
  OBVIOUS
<1> USE DEF Onward, To, IdleOp, Course, RunRecords, Starting, Tearing, Finishing, InFlight
<1>0. "create" \notin Verbs
  BY BootstrapAssumption
<1>1. CASE CreateSpawns
  BY <1>0, <1>1 DEF CreateSpawns
<1>2. CASE CreateReturns
  BY <1>0, <1>2 DEF CreateReturns
<1>3. CASE VerbActs
  BY <1>0, <1>3 DEF VerbActs
<1>4. CASE VerbWrites
  BY <1>0, <1>4 DEF VerbWrites
<1>5. CASE VerbPurges \/ VerbDropsRow
  BY <1>0, <1>5 DEF VerbPurges, VerbDropsRow
<1> QED BY <1>1, <1>2, <1>3, <1>4, <1>5 DEF BodyStep

\* Clients, the hook and the server's end do not take it back.
LEMMA OtherStepOnward ==
  ASSUME Course, [Next]_vars, ~RunStep, ~BodyStep
  PROVE  Onward
<1> USE DEF Onward, To, IdleOp, Course, RunRecords, Starting, Tearing, Finishing, InFlight
<1>0. "create" \notin Verbs
  BY BootstrapAssumption
<1>1. CASE Emit
  BY <1>0, <1>1 DEF Emit
<1>2. CASE HookEnds
  <2>1. run.pc = "hook" /\ op' = op
    BY <1>2 DEF HookEnds
  <2>2. CASE StageOver
    <3>1. run' \in RunRecords /\ run'.pc \in {"mark", "stage"}
      BY <2>2, StageOverRun
    <3> QED BY <2>1, <3>1
  <2>4. CASE StageFails
    BY <2>1, <2>4 DEF StageFails
  <2> QED BY <1>2, <2>2, <2>4 DEF HookEnds, AbortSurfaces
<1>3. CASE WaitExpires
  BY <1>0, <1>3 DEF WaitExpires
<1>4. CASE \E c \in Clients : Connect(c) \/ Subscribe(c) \/ Leave(c) \/ Unsubscribe(c)
  BY <1>0, <1>4 DEF Connect, Subscribe, Leave, Unsubscribe
<1>5. CASE Collect
  BY <1>0, <1>5 DEF Collect
<1>6. CASE BoxExits
  BY <1>0, <1>6 DEF BoxExits
<1>7. CASE Shutdown
  BY <1>0, <1>7, ZenonT(40) DEF Shutdown, Aborted
<1>8. CASE Exit
  BY <1>0, <1>8 DEF Exit, Dies
<1>9. CASE Killed
  BY <1>0, <1>9 DEF Killed, Dies
<1>10. CASE Boot
  BY <1>0, <1>10 DEF Boot
<1>11. CASE \E kind \in Verbs : TakeVerb(kind)
  BY <1>0, <1>11 DEF TakeVerb
<1>12. CASE UNCHANGED vars
  BY <1>0, <1>12 DEF vars
<1> QED BY <1>1, <1>2, <1>3, <1>4, <1>5, <1>6, <1>7, <1>8, <1>9, <1>10, <1>11, <1>12 DEF Next

\* No step takes the run back.
LEMMA StepOnward == Course /\ [Next]_vars => Onward
BY RunStepOnward, BodyStepOnward, OtherStepOnward

\* The course of the run holds at first.
LEMMA CourseInitially == Init => Course
<1> SUFFICES ASSUME Init PROVE Course
  OBVIOUS
<1>1. run = [pc |-> "none", stage |-> 1, abort |-> "no", verdict |-> "none"]
  BY DEF Init
<1>2. op = [kind |-> "create", pc |-> "act", seen |-> "none"]
  BY DEF Init, IdleOp
<1> QED BY <1>1, <1>2 DEF Course, RunRecords, Starting, Tearing, Finishing

-----------------------------------------------------------------------------
(* Every client gets the whole log                                          *)

\* ensureEntry returns an entry whose buffer ends with the last chunk.
LEMMA EnsureHolds ==
  ASSUME LogTypes, BufferHolds
  PROVE  /\ Ensure \in EntryRecords /\ Ensure.on /\ Ensure.base <= sent
         /\ Ensure.buf = Upto(Begins(Ensure.base, sent), sent)
         /\ Ensure.terminal = entry.terminal /\ Ensure.gc = entry.gc /\ Ensure.to = entry.to
<1>1. CASE entry.on
  BY <1>1 DEF Ensure, LogTypes, BufferHolds
<1>2. CASE ~entry.on
  <2>1. entry = NoEntry /\ sent \in Nat
    BY <1>2 DEF LogTypes
  <2>2. Ensure = [on |-> TRUE, buf |-> <<>>, terminal |-> "none", gc |-> FALSE, to |-> {}, base |-> sent]
    BY <1>2 DEF Ensure, NoEntry
  <2>3. Begins(sent, sent) = sent + 1
    BY <2>1, BootstrapAssumption DEF Begins, Bound
  <2>4. Upto(Begins(sent, sent), sent) = <<>>
    BY <2>1, <2>3, UptoEmpty
  <2>5. Ensure \in EntryRecords
    BY <2>1, <2>2 DEF EntryRecords
  <2> QED BY <2>1, <2>2, <2>4, <2>5 DEF NoEntry
<1> QED BY <1>1, <1>2

\* A step that sends nobody anything, and leaves the end of the run.
LEMMA LogStill ==
  ASSUME LogInv, UNCHANGED <<entry, subs, sent>>, run.pc = "over" => run' = run
  PROVE  LogInv'
BY DEF LogInv, LogTypes, BufferHolds, EndIsVerdict, Listening, ToldAtEnd, GotAll

\* A chunk goes into the buffer and to everybody who is served.
LEMMA LogBroadcast ==
  ASSUME LogInv, Broadcast, run.pc # "over"
  PROVE  LogInv'
<1> DEFINE e == Ensure
<1>1. /\ e \in EntryRecords /\ e.on /\ e.base <= sent
      /\ e.buf = Upto(Begins(e.base, sent), sent)
      /\ e.terminal = entry.terminal /\ e.gc = entry.gc /\ e.to = entry.to
  BY EnsureHolds DEF LogInv
<1>2. entry.terminal = "none" /\ ~entry.gc /\ sent \in Nat
  BY DEF LogInv, EndIsVerdict, LogTypes
<1> HIDE DEF e
<1>3. /\ sent' = sent + 1
      /\ entry' = [e EXCEPT !.buf = Trim(Append(@, sent + 1))]
      /\ Output(e.to, sent + 1)
  BY <1>1, <1>2 DEF Broadcast, e
<1>4. e.base \in 0 .. sent
  BY <1>1, <1>2 DEF EntryRecords
<1>5. Trim(Append(e.buf, sent + 1)) = Upto(Begins(e.base, sent + 1), sent + 1)
  BY <1>1, <1>2, <1>4, TrimKeeps
<1>6. entry' = [on |-> TRUE, buf |-> Upto(Begins(e.base, sent + 1), sent + 1),
                terminal |-> "none", gc |-> FALSE, to |-> entry.to, base |-> e.base]
  BY <1>1, <1>2, <1>3, <1>5 DEF EntryRecords
<1>7. Upto(Begins(e.base, sent + 1), sent + 1) \in Seq(Nat)
  <2>1. sent + 1 \in Nat /\ e.base \in 0 .. sent + 1
    BY <1>2, <1>4
  <2>2. Begins(e.base, sent + 1) \in 1 .. (sent + 1) + 1
    BY <2>1, BeginsInside
  <2> QED BY <2>1, <2>2, UptoIsSeq
<1>8. entry' \in EntryRecords
  BY <1>1, <1>4, <1>6, <1>7 DEF EntryRecords
<1>9. \A c \in Clients :
        /\ subs[c].st = "in" => subs'[c] = [subs[c] EXCEPT !.got = Append(@, sent + 1)]
        /\ subs[c].st # "in" => subs'[c] = subs[c]
  BY <1>1, <1>3 DEF Output, Open, LogInv, Listening
<1>10. \A c \in Clients : subs[c] \in SubRecords
  BY DEF LogInv, LogTypes
<1>11. ASSUME NEW c \in Clients, subs[c].st = "in"
       PROVE  /\ subs'[c].st = "in" /\ subs'[c].ends = <<>> /\ subs'[c].from = subs[c].from
              /\ subs[c].from \in 1 .. sent + 1
              /\ subs'[c].got = Upto(subs[c].from, sent + 1)
              /\ subs'[c] \in SubRecords
  <2>1. subs[c].from \in 1 .. sent + 1 /\ subs[c].got = Upto(subs[c].from, sent) /\ subs[c].ends = <<>>
    BY <1>11 DEF LogInv, GotAll
  <2>2. subs'[c] = [subs[c] EXCEPT !.got = Append(subs[c].got, sent + 1)]
    BY <1>9, <1>11
  <2>3. Append(subs[c].got, sent + 1) = Upto(subs[c].from, sent + 1)
    BY <1>2, <2>1, UptoAppend
  <2>4. Upto(subs[c].from, sent + 1) \in Seq(Nat)
    <3>1. sent + 1 \in Nat /\ subs[c].from \in 1 .. (sent + 1) + 1
      BY <1>2, <2>1
    <3> QED BY <3>1, UptoIsSeq
  <2>5. subs'[c] = [subs[c] EXCEPT !.got = Upto(subs[c].from, sent + 1)]
    BY <2>2, <2>3
  <2> QED BY <1>10, <1>11, <2>1, <2>4, <2>5 DEF SubRecords
<1>12. subs' = [c \in Clients |-> subs'[c]]
  BY <1>3 DEF Output
<1>13. \A c \in Clients : subs'[c] \in SubRecords
  BY <1>9, <1>10, <1>11
<1>14. subs' \in [Clients -> SubRecords]
  BY <1>12, <1>13
<1>15. LogTypes'
  BY <1>2, <1>3, <1>6, <1>8, <1>14 DEF LogTypes
<1>16. BufferHolds' /\ EndIsVerdict'
  BY <1>1, <1>2, <1>3, <1>4, <1>6 DEF BufferHolds, EndIsVerdict
<1>17. Listening'
  BY <1>6, <1>9, <1>11 DEF LogInv, Listening
<1>18. \A c \in Clients : subs'[c].st # "told"
  BY <1>9, <1>11 DEF LogInv, ToldAtEnd
<1>19. ToldAtEnd'
  BY <1>18 DEF ToldAtEnd
<1>20. GotAll'
  <2> SUFFICES ASSUME NEW c \in Clients, subs'[c].st = "in"
               PROVE  /\ subs'[c].from \in 1 .. sent' + 1 /\ subs'[c].got = Upto(subs'[c].from, sent')
                      /\ subs'[c].ends = <<>>
    BY <1>18 DEF GotAll, Upto
  <2>1. subs[c].st = "in"
    BY <1>9
  <2> QED BY <1>2, <1>3, <1>11, <2>1
<1> QED BY <1>15, <1>16, <1>17, <1>19, <1>20 DEF LogInv

\* The end goes to everybody who is served.
LEMMA LogFinish ==
  ASSUME LogInv, NEW msg \in {"done", "fail"}, Finish(msg), sent' = sent,
         run.pc # "over", run'.pc = "over", run'.verdict = msg
  PROVE  LogInv'
<1> DEFINE e == Ensure
<1>1. /\ e \in EntryRecords /\ e.on /\ e.base <= sent
      /\ e.buf = Upto(Begins(e.base, sent), sent)
      /\ e.terminal = entry.terminal /\ e.gc = entry.gc /\ e.to = entry.to
  BY EnsureHolds DEF LogInv
<1>2. entry.terminal = "none" /\ sent \in Nat
  BY DEF LogInv, EndIsVerdict, LogTypes
<1> HIDE DEF e
<1>3. entry' = [e EXCEPT !.terminal = msg, !.gc = TRUE] /\ Terminal(e.to, msg)
  BY <1>1, <1>2 DEF Finish, e
<1>4. entry' = [on |-> TRUE, buf |-> e.buf, terminal |-> msg, gc |-> TRUE, to |-> entry.to, base |-> e.base]
  BY <1>1, <1>3 DEF EntryRecords
<1>5. entry' \in EntryRecords
  BY <1>1, <1>4 DEF EntryRecords
<1>6. \A c \in Clients :
        /\ subs[c].st = "in" => subs'[c] = [subs[c] EXCEPT !.ends = Append(@, msg), !.st = "told"]
        /\ subs[c].st # "in" => subs'[c] = subs[c]
  BY <1>1, <1>3 DEF Terminal, Open, LogInv, Listening
<1>7. \A c \in Clients : subs[c] \in SubRecords
  BY DEF LogInv, LogTypes
<1>8. ASSUME NEW c \in Clients, subs[c].st = "in"
      PROVE  /\ subs'[c].st = "told" /\ subs'[c].ends = <<msg>> /\ subs'[c].from = subs[c].from
             /\ subs'[c].from \in 1 .. sent + 1
             /\ subs'[c].got = Upto(subs'[c].from, sent)
             /\ subs'[c] \in SubRecords
  <2>1. subs[c].from \in 1 .. sent + 1 /\ subs[c].got = Upto(subs[c].from, sent) /\ subs[c].ends = <<>>
    BY <1>8 DEF LogInv, GotAll
  <2>2. Append(subs[c].ends, msg) = <<msg>>
    BY <2>1
  <2>3. subs'[c] = [subs[c] EXCEPT !.ends = Append(subs[c].ends, msg), !.st = "told"]
    BY <1>6, <1>8
  <2>4. subs'[c] = [st |-> "told", got |-> subs[c].got, ends |-> <<msg>>, from |-> subs[c].from]
    BY <1>7, <2>2, <2>3 DEF SubRecords
  <2>5. subs'[c] \in SubRecords
    BY <1>7, <2>4 DEF SubRecords
  <2> QED BY <2>1, <2>4, <2>5
<1>9. subs' = [c \in Clients |-> subs'[c]]
  BY <1>3 DEF Terminal
<1>10. \A c \in Clients : subs'[c] \in SubRecords
  BY <1>6, <1>7, <1>8
<1>11. subs' \in [Clients -> SubRecords]
  BY <1>9, <1>10
<1>12. LogTypes'
  BY <1>2, <1>4, <1>5, <1>11 DEF LogTypes
<1>13. BufferHolds' /\ EndIsVerdict'
  BY <1>1, <1>4 DEF BufferHolds, EndIsVerdict
<1>14. \A c \in Clients : subs'[c].st # "in" /\ (subs'[c].st = "told" => subs[c].st = "in")
  BY <1>6, <1>8 DEF LogInv, ToldAtEnd
<1>15. Listening' /\ ToldAtEnd'
  BY <1>14 DEF Listening, ToldAtEnd
<1>16. GotAll'
  BY <1>8, <1>14 DEF GotAll
<1> QED BY <1>12, <1>13, <1>15, <1>16 DEF LogInv

\* A client that joins is sent the buffer, which is all since it began.
LEMMA LogSubscribe ==
  ASSUME LogInv, NEW c \in Clients, Subscribe(c)
  PROVE  LogInv'
<1> DEFINE e == Ensure
           from == Begins(e.base, sent)
<1>1. /\ e \in EntryRecords /\ e.on /\ e.base <= sent /\ e.buf = Upto(from, sent)
      /\ e.terminal = entry.terminal /\ e.gc = entry.gc /\ e.to = entry.to
  BY EnsureHolds DEF LogInv
<1>2. sent \in Nat /\ e.base \in 0 .. sent
  BY <1>1 DEF LogInv, LogTypes, EntryRecords
<1>3. from \in 1 .. sent + 1
  BY <1>2, BeginsInside
<1>4. /\ run' = run /\ sent' = sent
      /\ entry' = [e EXCEPT !.to = @ \cup {c}, !.gc = FALSE]
      /\ subs' = IF subs[c].st = "left" THEN [subs EXCEPT ![c].st = "gone"]
                 ELSE [subs EXCEPT ![c] = Replay(e, from)]
  BY DEF Subscribe, Begins
<1>4a. run' = run /\ sent' = sent
  BY <1>4
<1> HIDE DEF e, from
<1>5. entry' = [on |-> TRUE, buf |-> e.buf, terminal |-> entry.terminal, gc |-> FALSE,
                to |-> entry.to \cup {c}, base |-> e.base]
  BY <1>1, <1>4 DEF EntryRecords
<1>6. entry' \in EntryRecords
  BY <1>1, <1>5 DEF EntryRecords
<1>6a. entry'.on /\ entry'.terminal = entry.terminal /\ entry'.to = entry.to \cup {c}
  BY <1>5
<1>7. subs \in [Clients -> SubRecords] /\ Upto(from, sent) \in Seq(Nat)
  BY <1>2, <1>3, UptoIsSeq DEF LogInv, LogTypes
<1>8. entry.terminal \in {"none", "done", "fail"}
      /\ (entry.terminal # "none" => run.pc = "over" /\ entry.terminal = run.verdict)
  BY DEF LogInv, LogTypes, EntryRecords, EndIsVerdict
<1>9. \A d \in Clients \ {c} : subs'[d] = subs[d]
  BY <1>4, <1>7
<1>10. BufferHolds' /\ EndIsVerdict'
  BY <1>1, <1>4, <1>5, <1>8 DEF BufferHolds, EndIsVerdict, from
<1>11. CASE subs[c].st = "left"
  <2>1. subs' = [subs EXCEPT ![c].st = "gone"]
    BY <1>4, <1>11
  <2>2. subs'[c].st = "gone" /\ subs' \in [Clients -> SubRecords]
    BY <1>7, <2>1 DEF SubRecords
  <2>3. LogTypes'
    BY <1>2, <1>4a, <1>6, <1>6a, <2>2 DEF LogTypes
  <2>4. \A d \in Clients : subs'[d].st \in {"in", "told"} => d # c /\ subs'[d] = subs[d]
    BY <1>9, <2>2
  <2>5. Listening' /\ ToldAtEnd'
    BY <1>4a, <1>6a, <2>4 DEF LogInv, Listening, ToldAtEnd
  <2>6. GotAll'
    BY <1>4a, <2>4 DEF LogInv, GotAll
  <2> QED BY <1>10, <2>3, <2>5, <2>6 DEF LogInv
<1>12. CASE subs[c].st # "left"
  <2>1. subs' = [subs EXCEPT ![c] = Replay(e, from)]
    BY <1>4, <1>12
  <2>2. subs'[c] = Replay(e, from)
    BY <1>7, <2>1
  <2>3. /\ subs'[c].st = (IF entry.terminal = "none" THEN "in" ELSE "told")
        /\ subs'[c].got = Upto(from, sent) /\ subs'[c].from = from
        /\ subs'[c].ends = (IF entry.terminal = "none" THEN <<>> ELSE <<entry.terminal>>)
    BY <1>1, <2>2 DEF Replay
  <2>4. Replay(e, from) \in SubRecords
    <3>1. CASE entry.terminal = "none"
      BY <1>1, <1>3, <1>7, <3>1 DEF Replay, SubRecords
    <3>2. CASE entry.terminal # "none"
      <4>1. <<entry.terminal>> \in Seq({"done", "fail"})
        BY <1>8, <3>2
      <4> QED BY <1>1, <1>3, <1>7, <3>2, <4>1 DEF Replay, SubRecords
    <3> QED BY <3>1, <3>2
  <2>5. subs' \in [Clients -> SubRecords]
    BY <1>7, <2>1, <2>4
  <2>6. LogTypes'
    BY <1>2, <1>4a, <1>6, <1>6a, <2>5 DEF LogTypes
  <2>7. Listening'
    BY <1>5, <1>9, <2>3 DEF LogInv, Listening
  <2>8. ToldAtEnd'
    BY <1>4, <1>8, <1>9, <2>3 DEF LogInv, ToldAtEnd
  <2>9. GotAll'
    BY <1>3, <1>4, <1>8, <1>9, <2>3 DEF LogInv, GotAll
  <2> QED BY <1>10, <2>6, <2>7, <2>8, <2>9 DEF LogInv
<1> QED BY <1>11, <1>12

\* A socket comes, leaves before it is served, or closes.
LEMMA LogConnect ==
  ASSUME LogInv, NEW c \in Clients, Connect(c) \/ Leave(c)
  PROVE  LogInv'
<1>1. /\ UNCHANGED <<entry, run, sent>> /\ subs[c].st \notin {"in", "told"}
      /\ \E s \in {"auth", "left"} : subs' = [subs EXCEPT ![c].st = s]
  BY DEF Connect, Leave
<1>2. subs \in [Clients -> SubRecords]
  BY DEF LogInv, LogTypes
<1>3. subs' \in [Clients -> SubRecords] /\ subs'[c].st \notin {"in", "told"}
  <2>1. PICK s \in {"auth", "left"} : subs' = [subs EXCEPT ![c].st = s]
    BY <1>1
  <2>2. [subs[c] EXCEPT !.st = s] \in SubRecords /\ [subs[c] EXCEPT !.st = s].st = s
    BY <1>2 DEF SubRecords
  <2> QED BY <1>2, <2>1, <2>2
<1>4. \A d \in Clients \ {c} : subs'[d] = subs[d]
  BY <1>1, <1>2
<1> QED BY <1>1, <1>3, <1>4 DEF LogInv, LogTypes, BufferHolds, EndIsVerdict, Listening, ToldAtEnd, GotAll

\* A client that leaves may take the entry with it, never the others' chunks.
LEMMA LogUnsubscribe ==
  ASSUME LogInv, NEW c \in Clients, Unsubscribe(c)
  PROVE  LogInv'
<1> DEFINE g == entry.gc \/ (entry.terminal # "none" /\ entry.to \ {c} = {})
<1>1. /\ run' = run /\ sent' = sent /\ subs[c].st \in {"in", "told"} /\ c \in entry.to
      /\ entry' = [entry EXCEPT !.to = entry.to \ {c}, !.gc = g]
      /\ subs' = [subs EXCEPT ![c].st = IF @ = "in" THEN "gone" ELSE @]
  BY DEF Unsubscribe
<1>2. subs \in [Clients -> SubRecords] /\ entry \in EntryRecords /\ sent \in Nat
  BY DEF LogInv, LogTypes
<1>3. /\ entry'.on = entry.on /\ entry'.buf = entry.buf /\ entry'.terminal = entry.terminal
      /\ entry'.to = entry.to \ {c} /\ entry'.base = entry.base
  BY <1>1, <1>2 DEF EntryRecords
<1>4. entry' \in EntryRecords
  <2>1. g \in BOOLEAN
    OBVIOUS
  <2> QED BY <1>1, <1>2, <2>1 DEF EntryRecords
<1>5. entry'.gc => entry.terminal # "none"
  BY <1>1, <1>2 DEF EntryRecords, LogInv, EndIsVerdict
<1>6. entry.on
  BY <1>1 DEF LogInv, LogTypes, NoEntry
<1>7. \A d \in Clients \ {c} : subs'[d] = subs[d]
  BY <1>1, <1>2
<1>8. CASE subs[c].st = "in"
  <2>1. subs'[c].st = "gone" /\ subs' \in [Clients -> SubRecords]
    BY <1>1, <1>2, <1>8 DEF SubRecords
  <2>2. LogTypes'
    BY <1>1, <1>2, <1>3, <1>4, <1>6, <2>1 DEF LogTypes
  <2>3. BufferHolds' /\ EndIsVerdict'
    BY <1>1, <1>3, <1>5 DEF LogInv, BufferHolds, EndIsVerdict
  <2>4. Listening' /\ ToldAtEnd' /\ GotAll'
    BY <1>1, <1>3, <1>7, <2>1 DEF LogInv, Listening, ToldAtEnd, GotAll
  <2> QED BY <2>2, <2>3, <2>4 DEF LogInv
<1>9. CASE subs[c].st = "told"
  <2>1. subs'[c] = subs[c] /\ subs' \in [Clients -> SubRecords]
    BY <1>1, <1>2, <1>9 DEF SubRecords
  <2>2. LogTypes'
    BY <1>1, <1>2, <1>3, <1>4, <1>6, <2>1 DEF LogTypes
  <2>3. BufferHolds' /\ EndIsVerdict'
    BY <1>1, <1>3, <1>5 DEF LogInv, BufferHolds, EndIsVerdict
  <2>4. Listening' /\ ToldAtEnd' /\ GotAll'
    BY <1>1, <1>3, <1>7, <1>9, <2>1 DEF LogInv, Listening, ToldAtEnd, GotAll
  <2> QED BY <2>2, <2>3, <2>4 DEF LogInv
<1> QED BY <1>1, <1>8, <1>9

\* What there is before any entry.
LEMMA NoEntryHolds == NoEntry \in EntryRecords /\ ~NoEntry.on /\ NoEntry.terminal = "none" /\ ~NoEntry.gc /\ NoEntry.base = 0
BY DEF NoEntry, EntryRecords

\* The entry is collected only when it has an end: nobody is served from it.
LEMMA LogCollect ==
  ASSUME LogInv, Collect
  PROVE  LogInv'
<1>1. UNCHANGED <<run, subs, sent>> /\ entry' = NoEntry /\ entry.terminal # "none"
  BY DEF Collect, LogInv, EndIsVerdict
<1> QED BY <1>1, NoEntryHolds DEF LogInv, LogTypes, BufferHolds, EndIsVerdict, Listening, ToldAtEnd, GotAll

\* The process closes its sockets, or dies with them.
LEMMA LogCloses ==
  ASSUME LogInv, Onward, Shutdown \/ Dies
  PROVE  LogInv'
<1>1. subs \in [Clients -> SubRecords] /\ entry \in EntryRecords /\ sent \in Nat
  BY DEF LogInv, LogTypes
<1>2. sent' = sent /\ (run.pc = "over" => run' = run)
  BY DEF Shutdown, Dies, Onward
<1>3. \A c \in Clients : \E s \in {"gone", "left"} :
        \/ subs'[c] = subs[c] /\ subs[c].st # "in"
        \/ subs'[c] = [subs[c] EXCEPT !.st = s]
  BY DEF Shutdown, Dies
<1>4. subs' = [c \in Clients |-> subs'[c]]
  BY DEF Shutdown, Dies
<1>5. \A c \in Clients :
        /\ subs'[c] \in SubRecords /\ subs'[c].st # "in"
        /\ subs'[c].st = "told" => subs'[c] = subs[c]
  <2> TAKE c \in Clients
  <2>1. PICK s \in {"gone", "left"} :
          (subs'[c] = subs[c] /\ subs[c].st # "in") \/ subs'[c] = [subs[c] EXCEPT !.st = s]
    BY <1>3
  <2>2. subs[c] \in SubRecords
    BY <1>1
  <2>3. [subs[c] EXCEPT !.st = s] \in SubRecords /\ [subs[c] EXCEPT !.st = s].st = s
    BY <2>2 DEF SubRecords
  <2> QED BY <2>1, <2>2, <2>3
<1>6. subs' \in [Clients -> SubRecords]
  BY <1>4, <1>5
<1>7. Listening' /\ ToldAtEnd' /\ GotAll'
  BY <1>2, <1>5 DEF LogInv, Listening, ToldAtEnd, GotAll
<1>8. CASE Shutdown
  <2>1. entry' = [entry EXCEPT !.to = {}]
    BY <1>8 DEF Shutdown
  <2>2. entry' \in EntryRecords
    BY <1>1, <2>1 DEF EntryRecords
  <2>2a. ASSUME ~entry.on PROVE entry' = NoEntry
    <3>1. entry = NoEntry
      BY <2>2a DEF LogInv, LogTypes
    <3> QED BY <2>1, <3>1 DEF NoEntry
  <2>3. /\ entry'.on = entry.on /\ entry'.buf = entry.buf /\ entry'.terminal = entry.terminal
        /\ entry'.gc = entry.gc /\ entry'.base = entry.base
    BY <1>1, <2>1 DEF EntryRecords
  <2>4. LogTypes' /\ BufferHolds' /\ EndIsVerdict'
    BY <1>1, <1>2, <1>6, <2>2, <2>2a, <2>3 DEF LogInv, LogTypes, BufferHolds, EndIsVerdict
  <2> QED BY <1>7, <2>4 DEF LogInv
<1>9. CASE Dies
  <2>1. entry' = NoEntry
    BY <1>9 DEF Dies
  <2>2. LogTypes' /\ BufferHolds' /\ EndIsVerdict'
    BY <1>1, <1>2, <1>6, <2>1, NoEntryHolds DEF LogTypes, BufferHolds, EndIsVerdict
  <2> QED BY <1>7, <2>2 DEF LogInv
<1> QED BY <1>8, <1>9

\* The entry's invariant holds at first.
LEMMA LogInitially == Init => LogInv
<1> SUFFICES ASSUME Init PROVE LogInv
  OBVIOUS
<1>1. entry = NoEntry /\ sent = 0 /\ subs = [c \in Clients |-> Outside]
  BY DEF Init
<1>2. Outside \in SubRecords /\ Outside.st = "out"
  BY DEF Outside, SubRecords
<1>3. subs \in [Clients -> SubRecords] /\ \A c \in Clients : subs[c].st = "out"
  BY <1>1, <1>2
<1> QED BY <1>1, <1>3, NoEntryHolds DEF LogInv, LogTypes, BufferHolds, EndIsVerdict, Listening, ToldAtEnd, GotAll

\* The steps that send nobody anything.
LEMMA RunStepLog ==
  ASSUME Course, LogInv, RunStep, Onward
  PROVE  LogInv'
<1>0. run.pc = "over" => run' = run
  BY DEF Onward
<1>1. CASE UNCHANGED <<entry, subs, sent>>
  BY <1>0, <1>1, LogStill
<1>2. CASE Broadcast /\ run.pc # "over"
  BY <1>2, LogBroadcast
<1>3. CASE TellDone
  <2>1. /\ run.pc = "done" /\ run' = [run EXCEPT !.pc = "over"] /\ Finish("done") /\ sent' = sent
    BY <1>3 DEF TellDone, To
  <2>2. run.verdict = "done" /\ run'.pc = "over" /\ run'.verdict = "done"
    BY <2>1 DEF Course, RunRecords, Finishing
  <2> QED BY <2>1, <2>2, LogFinish
<1>4. CASE TellFail
  <2>1. /\ run.pc = "tell" /\ run' = [run EXCEPT !.pc = "over"] /\ Finish("fail") /\ sent' = sent
    BY <1>4 DEF TellFail, To
  <2>2. run.verdict = "fail" /\ run'.pc = "over" /\ run'.verdict = "fail"
    BY <2>1 DEF Course, RunRecords, Tearing
  <2> QED BY <2>1, <2>2, LogFinish
<1>5. CASE RuntimeReady \/ ExecStarts \/ CapFires \/ Mark \/ Launched \/ KeepLog
           \/ PersistLog \/ Flip \/ TakeKill \/ KillAnswers
  BY <1>1, <1>5 DEF RuntimeReady, ExecStarts, CapFires, Mark, Launched, KeepLog,
    PersistLog, Flip, TakeKill, KillAnswers
<1>6. CASE BeginStage \/ StreamCut
  BY <1>1, <1>2, <1>6 DEF BeginStage, StreamCut, AbortSurfaces
<1> QED BY <1>3, <1>4, <1>5, <1>6 DEF RunStep

\* The steps of nobody but clients and the world keep the entry's invariant.
LEMMA OtherStepLog ==
  ASSUME Course, LogInv, [Next]_vars, Onward, ~RunStep
  PROVE  LogInv'
<1>0. run.pc = "over" => run' = run
  BY DEF Onward
<1>1. CASE UNCHANGED <<entry, subs, sent>>
  BY <1>0, <1>1, LogStill
<1>2. CASE Broadcast /\ run.pc # "over"
  BY <1>2, LogBroadcast
<1>3. CASE BodyStep \/ WaitExpires \/ BoxExits \/ Boot \/ UNCHANGED vars
           \/ \E kind \in Verbs : TakeVerb(kind)
  BY <1>1, <1>3 DEF BodyStep, CreateSpawns, CreateReturns, VerbActs, VerbWrites, VerbPurges,
    VerbDropsRow, WaitExpires, BoxExits, Boot, TakeVerb, vars
<1>4. CASE Emit \/ HookEnds
  BY <1>1, <1>2, <1>4 DEF Emit, HookEnds, AbortSurfaces
<1>5. CASE \E c \in Clients : Connect(c) \/ Subscribe(c) \/ Leave(c) \/ Unsubscribe(c)
  BY <1>5, LogConnect, LogSubscribe, LogUnsubscribe
<1>6. CASE Collect \/ Shutdown \/ Exit \/ Killed
  BY <1>6, LogCollect, LogCloses DEF Exit, Killed
<1> QED BY <1>3, <1>4, <1>5, <1>6 DEF Next

\* A client gets, whenever it joins, what the buffer held and all that comes
\* after, in order and once, and then how the run ended, once
\* (bootstrap.ts:153-300).
THEOREM WholeLogAlways == Spec => []WholeLog
<1>1. Init => Course /\ LogInv
  BY CourseInitially, LogInitially
<1>2. Course /\ LogInv /\ [Next]_vars => (Course /\ LogInv)'
  BY StepOnward, RunStepLog, OtherStepLog DEF Onward
<1>3. LogInv => WholeLog
  BY DEF LogInv, GotAll, WholeLog, Chunks, Upto
<1> QED BY <1>1, <1>2, <1>3, PTL DEF Spec

-----------------------------------------------------------------------------
(* Nothing is stranded                                                      *)

RowInv ==
  /\ row \in RowRecords /\ Attended /\ DrainSawAll
  /\ StartMeets /\ Untouched /\ DownIsOver

\* Users do not start the session, or they make one request in all. A start
\* that follows a stop finds what the teardown left, and runs a container that
\* nobody bootstrapped.
FewStarts == "start" \notin Verbs \/ MaxVerbs <= 1

\* What the drain has seen stays seen while the server stays as it is.
LEMMA DrainStill ==
  ASSUME DrainSawAll, Onward, server' = server
  PROVE  DrainSawAll'
BY DEF DrainSawAll, Onward

\* Before the row the run is in flight.
LEMMA RunPlaces ==
  /\ BeforeRow \cup {"wait", "kill"} \subseteq Starting \cup Tearing \cup Finishing
  /\ {"wait", "kill"} \cap BeforeRow = {}
  /\ run.pc \in BeforeRow \cup {"wait", "kill"} => InFlight
BY DEF BeforeRow, InFlight, Starting, Tearing, Finishing

\* A step that leaves row, container, lock and requests alone.
LEMMA QuietRow ==
  ASSUME RowInv, Onward, UNCHANGED <<row, loose, verbs, op, server>>, box' = box \/ box' = "down",
         server.proc = "down" => run' = run,
         run.pc \in BeforeRow => run'.pc \in BeforeRow,
         run.pc \in {"wait", "kill"} => run'.pc = run.pc
  PROVE  RowInv'
<1>1. DrainSawAll'
  BY DrainStill DEF RowInv
<1>2. Attended'
  BY DEF RowInv, Attended, Revived
<1>3. StartMeets' /\ Untouched'
  BY DEF RowInv, StartMeets, Untouched
<1>4. DownIsOver'
  BY DEF RowInv, DownIsOver, InFlight
<1> QED BY <1>1, <1>2, <1>3, <1>4 DEF RowInv

\* A step after which the failure is one the code only logs.
LEMMA LooseRow ==
  ASSUME RowInv, Onward, row' = row, loose', verbs' = verbs, server' = server, server.proc # "down",
         op' = op \/ op' = IdleOp
  PROVE  RowInv'
<1>1. DrainSawAll'
  BY DrainStill DEF RowInv
<1>2. "none" \notin Verbs
  BY BootstrapAssumption
<1>3. Attended' /\ StartMeets' /\ Untouched' /\ DownIsOver'
  BY <1>2 DEF RowInv, Attended, StartMeets, Untouched, DownIsOver, IdleOp
<1> QED BY <1>1, <1>3 DEF RowInv

\* The run's own steps keep the row's invariant.
LEMMA RunStepRow ==
  ASSUME Course, RowInv, RunStep, Onward
  PROVE  RowInv'
<1>1. server' = server /\ server.proc # "down" /\ verbs' = verbs
  BY DEF RunStep, RuntimeReady, BeginStage, ExecStarts, StreamCut, CapFires, Mark, Launched, KeepLog,
    TellDone, PersistLog, Flip, TakeKill, KillAnswers, TellFail, Alive
<1>2. DrainSawAll' /\ DownIsOver'
  BY <1>1, DrainStill DEF RowInv, DownIsOver
<1>3. row \in RowRecords /\ Attended /\ StartMeets /\ Untouched
  BY DEF RowInv
<1>4. CASE RuntimeReady \/ BeginStage \/ ExecStarts \/ StreamCut \/ CapFires \/ PersistLog
  <2>1. UNCHANGED <<row, loose, box>> /\ op' = op /\ run.pc \in Starting \cup {"persist"}
    BY <1>4 DEF RuntimeReady, BeginStage, ExecStarts, StreamCut, CapFires, PersistLog, Starting
  <2>2. run'.pc \in BeforeRow
    <3>1. CASE StageOver
      BY <3>1, StageOverRun DEF BeforeRow, Starting
    <3>2. CASE StageFails
      BY <3>2 DEF StageFails, Course, RunRecords, BeforeRow
    <3>3. CASE To("stage") \/ To("asking") \/ To("hook") \/ To("flip")
      BY <3>3 DEF To, Course, RunRecords, BeforeRow, Starting
    <3>4. CASE CapFires
      BY <3>4 DEF CapFires, Aborted, Course, RunRecords, BeforeRow, Starting
    <3> QED BY <1>4, <3>1, <3>2, <3>3, <3>4 DEF RuntimeReady, BeginStage, ExecStarts, StreamCut, PersistLog,
          AbortSurfaces, StageFails
  <2>3. run.pc \notin {"wait", "kill"}
    BY <2>1 DEF Starting
  <2> QED BY <1>1, <2>1, <2>2, <2>3, QuietRow
<1>5. CASE Mark
  <2>1. run.pc = "mark" /\ op' = op
    BY <1>5 DEF Mark
  <2>2. CASE row' = row /\ loose'
    BY <1>1, <2>1, <2>2, LooseRow
  <2>3. CASE ~(row' = row /\ loose')
    <3>1. row' = [row EXCEPT !.boot = row.boot \/ row.status # "none"] /\ loose' = loose
      BY <1>5, <2>3 DEF Mark
    <3>2. /\ row' \in RowRecords /\ row'.status = row.status
          /\ (row.status # "none" => row'.boot) /\ (row.boot => row'.boot)
      BY <1>3, <3>1 DEF RowRecords
    <3>3. Attended' /\ StartMeets'
      BY <1>3, <2>1, <3>2 DEF Attended, StartMeets
    <3>4. Untouched'
      BY <1>1, <1>3, <2>1, <3>1, <3>2 DEF Untouched
    <3> QED BY <1>2, <3>2, <3>3, <3>4 DEF RowInv
  <2> QED BY <2>2, <2>3
<1>6. CASE Flip
  <2>1. run'.pc = "wait" /\ op' = op
    BY <1>6 DEF Flip, To, Course, RunRecords
  <2>2. CASE row' = row /\ loose'
    BY <1>1, <2>1, <2>2, LooseRow
  <2>3. CASE ~(row' = row /\ loose')
    <3>1. /\ loose' = loose
          /\ IF row.status = "none" THEN row' = row ELSE row' = [row EXCEPT !.status = "failed"]
      BY <1>6, <2>3 DEF Flip
    <3>2. /\ row' \in RowRecords /\ row'.boot = row.boot
          /\ row'.status = IF row.status = "none" THEN "none" ELSE "failed"
      BY <1>3, <3>1 DEF RowRecords, Statuses
    <3>3. Attended' /\ StartMeets'
      BY <1>3, <2>1, <3>2 DEF Attended, StartMeets
    <3>4. Untouched'
      BY <1>1, <1>3, <2>1, <3>1, <3>2 DEF Untouched
    <3> QED BY <1>2, <3>2, <3>3, <3>4 DEF RowInv
  <2> QED BY <2>2, <2>3
<1>7. CASE Launched \/ KeepLog \/ TellDone \/ TellFail
  <2>1. run.pc \in {"launch", "keep", "done", "tell"} /\ UNCHANGED <<row, loose, op, box>>
    BY <1>7 DEF Launched, KeepLog, TellDone, TellFail
  <2>2. run.pc \notin BeforeRow \cup {"wait", "kill"}
    BY <2>1 DEF BeforeRow, Starting
  <2> QED BY <1>1, <2>1, <2>2, QuietRow
<1>8. CASE TakeKill
  <2>1. UNCHANGED <<row, box, loose>> /\ op = IdleOp /\ op'.kind = "kill" /\ run.pc = "wait"
        /\ run'.pc = "kill"
    BY <1>8 DEF TakeKill, IdleOp, To, Course, RunRecords
  <2>2. "kill" \notin Verbs /\ run.pc \notin BeforeRow /\ op.kind # "create"
    BY <2>1, BootstrapAssumption DEF BeforeRow, Starting, IdleOp
  <2>3. Attended' /\ StartMeets'
    BY <1>1, <1>3, <2>1, <2>2 DEF Attended, StartMeets, Revived
  <2>4. Untouched'
    BY <1>1, <1>3, <2>1, <2>2 DEF Untouched
  <2> QED BY <1>2, <1>3, <2>1, <2>3, <2>4 DEF RowInv
<1>9. CASE KillAnswers
  <2>1. run.pc = "kill" /\ op' = IdleOp /\ run.pc \notin BeforeRow
    BY <1>9 DEF KillAnswers, BeforeRow, Starting
  <2>2. CASE row' = row /\ loose'
    BY <1>1, <2>1, <2>2, LooseRow
  <2>3. CASE ~(row' = row /\ loose')
    <3>1. loose' = loose /\ \/ row.status = "none" /\ row' = row
                            \/ box' = "none" /\ row' = [row EXCEPT !.id = FALSE]
      BY <1>9, <2>3 DEF KillAnswers
    <3>2. row' \in RowRecords /\ row'.boot = row.boot /\ row'.status = row.status
      BY <1>3, <3>1 DEF RowRecords
    <3>3. op'.kind = "none" /\ "none" \notin Verbs
      BY <2>1, BootstrapAssumption DEF IdleOp
    <3>4. op.kind # "create"
      BY <2>1 DEF Course
    <3>5. Attended'
      BY <1>1, <1>3, <2>1, <3>1, <3>2, <3>3, <3>4 DEF Attended, Revived
    <3>6. StartMeets' /\ Untouched'
      BY <1>1, <1>3, <3>1, <3>2, <3>3 DEF StartMeets, Untouched
    <3> QED BY <1>2, <3>2, <3>5, <3>6 DEF RowInv
  <2> QED BY <2>2, <2>3
<1> QED BY <1>4, <1>5, <1>6, <1>7, <1>8, <1>9 DEF RunStep

\* No verb but a start writes `running`, and a start that does finds the run
\* before its kill.
LEMMA BodyStepRow ==
  ASSUME Course, RowInv, BodyStep, Onward
  PROVE  RowInv'
<1>1. server' = server /\ loose' = loose /\ verbs' = verbs /\ server.proc # "down"
  BY DEF BodyStep, CreateSpawns, CreateReturns, VerbActs, VerbWrites, VerbPurges,
       VerbDropsRow, Alive
<1>2. DrainSawAll' /\ DownIsOver'
  BY <1>1, DrainStill DEF RowInv, DownIsOver
<1>3. row \in RowRecords /\ Attended /\ StartMeets /\ Untouched
  BY DEF RowInv
<1>v. "create" \notin Verbs /\ "none" \notin Verbs
  BY BootstrapAssumption
<1>4. CASE CreateSpawns
  <2>1. op.kind = "create" /\ op' = [op EXCEPT !.pc = "write"] /\ row' = [row EXCEPT !.id = TRUE]
    BY <1>4 DEF CreateSpawns
  <2>2. op'.kind = "create"
    BY <2>1 DEF Course
  <2>3. row' \in RowRecords /\ row'.boot = row.boot /\ row'.status = row.status
    BY <1>3, <2>1 DEF RowRecords
  <2>4. Attended' /\ StartMeets'
    BY <2>2 DEF Attended, StartMeets
  <2>5. Untouched'
    BY <1>1, <1>3, <1>v, <2>2, <2>3 DEF Untouched
  <2> QED BY <1>2, <2>3, <2>4, <2>5 DEF RowInv
<1>5. CASE CreateReturns
  <2>1. row' = row /\ run'.pc = "ready" /\ op' = IdleOp
    BY <1>5 DEF CreateReturns, To, Course, RunRecords
  <2>2. Attended' /\ StartMeets'
    BY <2>1 DEF Attended, StartMeets, IdleOp, BeforeRow, Starting
  <2>3. Untouched'
    BY <1>1, <1>3, <1>v, <2>1 DEF Untouched, IdleOp
  <2> QED BY <1>2, <1>3, <2>1, <2>2, <2>3 DEF RowInv
<1>6. CASE VerbActs
  <2>1. op.kind \in Verbs /\ run' = run /\ op.kind # "create"
    BY <1>6, <1>v DEF VerbActs
  <2>2. CASE op' = IdleOp /\ row' = row /\ box' = box
    <3>1. op'.kind = "none"
      BY <2>2 DEF IdleOp
    <3>2. verbs > 0
      BY <1>3, <2>1 DEF Untouched
    <3>3. CASE op.kind # "start"
      BY <1>1, <1>2, <1>3, <1>v, <2>1, <2>2, <3>1, <3>3 DEF RowInv, Attended, Revived, StartMeets, Untouched
    <3>4. CASE op.kind = "start"
      <4>1. run.pc = "wait" => Revived'
        BY <1>1, <2>1, <3>1, <3>2 DEF Revived
      <4>2. Attended'
        BY <1>1, <1>3, <2>1, <2>2, <3>4, <4>1 DEF Attended, StartMeets
      <4> QED BY <1>1, <1>2, <1>3, <1>v, <2>2, <3>1, <4>2 DEF RowInv, StartMeets, Untouched
    <3> QED BY <3>3, <3>4
  <2>3. CASE ~(op' = IdleOp /\ row' = row /\ box' = box)
    <3>1. op' = [op EXCEPT !.pc = "write"] /\ (op.kind = "start" \/ box' # "up" \/ box' = box)
      BY <1>6, <2>3, BootstrapAssumption DEF VerbActs
    <3>2. op'.kind = op.kind
      BY <3>1 DEF Course
    <3>3. row' \in RowRecords /\ row'.status = row.status /\ row'.boot = row.boot
      BY <1>3, <1>6, <2>1, <2>3, BootstrapAssumption DEF VerbActs, RowRecords
    <3>4. Attended'
      BY <1>1, <1>3, <2>1, <3>1, <3>2, <3>3 DEF Attended, Revived
    <3>5. StartMeets' /\ Untouched'
      BY <1>1, <1>3, <2>1, <3>2, <3>3 DEF StartMeets, Untouched
    <3> QED BY <1>2, <3>3, <3>4, <3>5 DEF RowInv
  <2> QED BY <2>2, <2>3
<1>w. ASSUME op.kind \in Verbs, op'.kind \in {op.kind, "none"}, run' = run, box' = box,
             row' = row \/ (row' \in RowRecords /\ row'.status # "running"),
             op.kind = "start" => op'.kind = "none"
      PROVE  RowInv'
  <2>1. op.kind # "create" /\ verbs > 0 /\ row' \in RowRecords
    BY <1>3, <1>v, <1>w DEF Untouched
  <2>2. StartMeets' /\ Untouched'
    BY <1>1, <1>3, <1>v, <1>w, <2>1 DEF StartMeets, Untouched
  <2>3. Attended'
    <3>1. CASE op.kind = "start"
      <4>1. run.pc = "wait" => Revived'
        BY <1>1, <1>w, <2>1, <3>1 DEF Revived
      <4> QED BY <1>1, <1>3, <1>w, <2>1, <3>1, <4>1 DEF Attended, StartMeets
    <3>2. CASE op.kind # "start"
      BY <1>1, <1>3, <1>v, <1>w, <2>1, <3>2 DEF Attended, Revived
    <3> QED BY <3>1, <3>2
  <2> QED BY <1>2, <2>1, <2>2, <2>3 DEF RowInv
<1>7. CASE VerbWrites
  <2>1. op.kind \in Verbs /\ run' = run /\ box' = box
    BY <1>7 DEF VerbWrites
  <2>2. op'.kind \in {op.kind, "none"} /\ (op.kind = "start" => op'.kind = "none")
    <3>1. op' = IdleOp \/ (op.kind = "purge" /\ op' = [op EXCEPT !.pc = "purge"])
      BY <1>7 DEF VerbWrites
    <3>2. CASE op' = IdleOp
      BY <3>2 DEF IdleOp
    <3>3. CASE op.kind = "purge" /\ op' = [op EXCEPT !.pc = "purge"]
      BY <3>3 DEF Course
    <3> QED BY <3>1, <3>2, <3>3
  <2>3. CASE op.kind = "start" /\ row' # row
    <3>1. row' = [row EXCEPT !.status = "running"]
      BY <1>7, <2>3 DEF VerbWrites
    <3>2. row' \in RowRecords /\ row'.boot = row.boot
      BY <1>3, <3>1 DEF RowRecords, Statuses
    <3>3. verbs > 0 /\ op'.kind = "none"
      BY <1>3, <2>1, <2>2, <2>3 DEF Untouched
    <3>4. run.pc = "wait" => Revived'
      BY <1>1, <2>1, <2>3, <3>3 DEF Revived
    <3>5. Attended'
      BY <1>1, <1>3, <2>1, <2>3, <3>2, <3>3, <3>4 DEF Attended, StartMeets
    <3>6. StartMeets' /\ Untouched'
      BY <1>1, <1>3, <1>v, <2>1, <2>3, <3>2, <3>3 DEF StartMeets, Untouched
    <3> QED BY <1>2, <3>2, <3>5, <3>6 DEF RowInv
  <2>4. CASE op.kind # "start" /\ row' # row
    <3>1. \/ row' = [row EXCEPT !.status = "stopped", !.id = @ /\ box # "none"]
          \/ row' = [row EXCEPT !.status = "terminated"]
      BY <1>7, <2>1, <2>4, BootstrapAssumption DEF VerbWrites
    <3>2. row' \in RowRecords /\ row'.status # "running"
      BY <1>3, <3>1 DEF RowRecords, Statuses
    <3> QED BY <1>w, <2>1, <2>2, <3>2
  <2>5. CASE row' = row
    BY <1>w, <2>1, <2>2, <2>5
  <2> QED BY <2>3, <2>4, <2>5
<1>8. CASE VerbPurges
  <2>1. /\ op.kind \in Verbs /\ op.kind # "start" /\ run' = run /\ box' = box /\ row' = row
        /\ op' = IdleOp \/ op' = [op EXCEPT !.pc = "drop"]
    BY <1>8 DEF VerbPurges, Course
  <2>2. op'.kind \in {op.kind, "none"}
    BY <2>1 DEF IdleOp, Course
  <2> QED BY <1>w, <2>1, <2>2
<1>9. CASE VerbDropsRow
  <2>1. /\ op.kind \in Verbs /\ run' = run /\ box' = box /\ op' = IdleOp
        /\ row' = row \/ row' = [status |-> "none", id |-> FALSE, boot |-> FALSE]
    BY <1>9 DEF VerbDropsRow, Course
  <2>2. op'.kind = "none"
    BY <2>1 DEF IdleOp
  <2>3. row' = row \/ (row' \in RowRecords /\ row'.status # "running")
    <3>1. CASE row' = row
      BY <3>1
    <3>2. CASE row' = [status |-> "none", id |-> FALSE, boot |-> FALSE]
      BY <3>2 DEF RowRecords, Statuses
    <3> QED BY <2>1, <3>1, <3>2
  <2> QED BY <1>w, <2>1, <2>2, <2>3
<1> QED BY <1>4, <1>5, <1>6, <1>7, <1>8, <1>9 DEF BodyStep

\* A verb that is taken: a start, if it is the only one, finds a run that has
\* yet to kill the container, or a session that is bootstrapped.
LEMMA TakeVerbRow ==
  ASSUME FewStarts, Course, RowInv, Onward, NEW kind \in Verbs, TakeVerb(kind)
  PROVE  RowInv'
<1>1. UNCHANGED <<row, run, box, server, loose>> /\ op = IdleOp /\ server.proc = "up" /\ row.status # "none"
      /\ verbs < MaxVerbs /\ verbs' = verbs + 1
  BY DEF TakeVerb
<1>2. row \in RowRecords /\ Attended /\ Untouched
  BY DEF RowInv
<1>3. op.kind = "none" /\ op.kind # "create"
  BY <1>1 DEF IdleOp
<1>4. verbs \in Nat /\ verbs' \in Nat /\ verbs' > 0
  BY <1>1, <1>2 DEF Untouched
<1>5. "start" \in Verbs => verbs = 0
  BY <1>1, <1>4, BootstrapAssumption DEF FewStarts
<1>6. DrainSawAll' /\ DownIsOver' /\ Untouched'
  BY <1>1, <1>2, <1>4, DrainStill DEF RowInv, DownIsOver, Untouched
<1>7. Revived => kind # "start"
  BY <1>4, <1>5 DEF Revived
<1>8. op'.kind \in {"none", kind}
  BY <1>1 DEF TakeVerb, IdleOp
<1>9. Attended'
  BY <1>1, <1>2, <1>3, <1>4, <1>7, <1>8 DEF Attended, Revived
<1>10. StartMeets'
  <2> SUFFICES ASSUME op'.kind = "start" PROVE StartMeets'
    BY DEF StartMeets
  <2>1. kind = "start" /\ row.status # "failed"
    BY <1>3, <1>8 DEF TakeVerb, IdleOp
  <2>2. verbs = 0
    BY <1>5, <2>1
  <2>3. ~row.boot /\ ~loose => row.status = "running"
    BY <1>2, <2>1, <2>2 DEF Untouched
  <2>4. ~Revived
    BY <1>7, <2>1
  <2> QED BY <1>1, <1>2, <1>3, <2>3, <2>4 DEF StartMeets, Attended
<1> QED BY <1>1, <1>2, <1>6, <1>9, <1>10 DEF RowInv

\* So do all others, when no create begins a run after the drain.
LEMMA OtherStepRow ==
  ASSUME FewStarts, ~LateCreate, Course, RowInv, [Next]_vars, Onward, ~RunStep, ~BodyStep
  PROVE  RowInv'
<1>1. row \in RowRecords /\ Attended /\ DrainSawAll /\ StartMeets /\ Untouched /\ DownIsOver
  BY DEF RowInv
<1>2. CASE Emit \/ Collect \/ BoxExits \/ UNCHANGED vars
           \/ \E c \in Clients : Connect(c) \/ Subscribe(c) \/ Leave(c) \/ Unsubscribe(c)
  <2>1. UNCHANGED <<row, run, op, server, loose, verbs>> /\ (box' = box \/ box' = "down")
    BY <1>2 DEF Emit, Collect, BoxExits, vars, Connect, Subscribe, Leave, Unsubscribe
  <2> QED BY <2>1, QuietRow, SMTT(30)
<1>3. CASE HookEnds
  <2>1. UNCHANGED <<row, op, server, loose, box, verbs>> /\ (StageOver \/ StageFails)
        /\ run.pc = "hook" /\ server.proc # "down"
    BY <1>3 DEF HookEnds, AbortSurfaces, Alive
  <2>2. run'.pc \in BeforeRow
    BY <2>1, StageOverRun DEF StageFails, Course, RunRecords, BeforeRow, Starting
  <2> QED BY <2>1, <2>2, QuietRow
<1>4. CASE WaitExpires
  <2>1. UNCHANGED <<row, server, op, verbs>> /\ loose' /\ server.proc # "down"
    BY <1>4 DEF WaitExpires, Alive
  <2> QED BY <2>1, LooseRow
<1>5. CASE \E kind \in Verbs : TakeVerb(kind)
  BY <1>5, TakeVerbRow
<1>6. CASE Shutdown
  <2>1. /\ UNCHANGED <<row, op, loose, verbs, box>> /\ op.kind # "create"
        /\ server' = [proc |-> "closing", awaits |-> InFlight] /\ run' = Aborted("drain")
    BY <1>6 DEF Shutdown
  <2>2. (run.pc \in Starting => run'.pc \in Starting) /\ (run.pc \notin Starting => run' = run)
    BY <2>1 DEF Aborted, Course, RunRecords, Starting
  <2>3. DrainSawAll' /\ DownIsOver'
    BY <2>1 DEF DrainSawAll, DownIsOver, Onward
  <2>4. Attended' /\ StartMeets'
    BY <1>1, <2>1, <2>2 DEF Attended, StartMeets, Revived, BeforeRow, Starting
  <2>5. Untouched'
    BY <1>1, <2>1 DEF Untouched
  <2> QED BY <1>1, <2>1, <2>3, <2>4, <2>5 DEF RowInv
<1>7. CASE Exit
  <2>1. /\ UNCHANGED <<row, loose, box, verbs>> /\ op = IdleOp /\ op' = IdleOp /\ server'.proc = "down"
        /\ server.proc = "closing" /\ (server.awaits => ~InFlight)
    BY <1>7 DEF Exit, Dies, Drained
  <2>2. ~InFlight /\ op.kind # "create"
    BY <1>1, <2>1 DEF DrainSawAll
  <2>3. run' = run
    BY <1>7, <2>2 DEF Exit, Dies, Course, RunRecords
  <2>4. DrainSawAll' /\ DownIsOver'
    BY <2>1, <2>2, <2>3 DEF DrainSawAll, DownIsOver, InFlight
  <2>5. Attended' /\ StartMeets' /\ Untouched'
    BY <1>1, <2>1, <2>3 DEF Attended, StartMeets, Revived, Untouched
  <2> QED BY <1>1, <2>1, <2>4, <2>5 DEF RowInv
<1>8. CASE Killed
  <2>1. row' = row /\ loose' /\ server'.proc = "down" /\ op' = IdleOp /\ verbs' = verbs
    BY <1>8 DEF Killed, Dies
  <2>2. ~InFlight'
    BY <1>8 DEF Killed, Dies, Course, RunRecords, InFlight, Starting, Tearing, Finishing
  <2>3. op'.kind = "none" /\ "none" \notin Verbs
    BY <2>1, BootstrapAssumption DEF IdleOp
  <2> QED BY <1>1, <2>1, <2>2, <2>3 DEF RowInv, Attended, DrainSawAll, StartMeets, Untouched, DownIsOver
<1>9. CASE Boot
  <2>1. UNCHANGED <<run, op, loose, box, verbs>> /\ server' = [server EXCEPT !.proc = "up"]
        /\ server.proc = "down"
        /\ (row' = row \/ row' = [row EXCEPT !.status = "stopped", !.id = @ /\ box # "none"])
        /\ (row.status # "running" => row' = row)
    BY <1>9 DEF Boot
  <2>2. server'.proc # "closing" /\ server'.proc # "down"
    BY <1>9, <2>1 DEF Boot
  <2>3. row' \in RowRecords /\ row'.boot = row.boot /\ (row' = row \/ row'.status = "stopped")
    BY <1>1, <2>1 DEF RowRecords, Statuses
  <2>4. ~InFlight /\ op.kind = "none"
    BY <1>1, <2>1 DEF DownIsOver, IdleOp
  <2>5. verbs = 0 /\ row.status = "running" => row.boot \/ loose
    BY <1>1, <2>4, RunPlaces DEF Attended, Revived, Untouched
  <2>6. DrainSawAll' /\ DownIsOver'
    BY <2>2 DEF DrainSawAll, DownIsOver
  <2>7. Attended' /\ StartMeets'
    BY <1>1, <2>1, <2>3, <2>4 DEF Attended, StartMeets, Revived
  <2>8. Untouched'
    BY <1>1, <2>1, <2>3, <2>5 DEF Untouched
  <2> QED BY <2>3, <2>6, <2>7, <2>8 DEF RowInv
<1> QED BY <1>2, <1>3, <1>4, <1>5, <1>6, <1>7, <1>8, <1>9 DEF Next

\* Unless the process was killed or a step failed that the code can only log,
\* no session is left running, never bootstrapped and with no run that will
\* finish it: not by a verb, not by the cap, and not by a shutdown that ended
\* by itself (bootstrap.ts:440-470, 505-550, 842-900).
THEOREM NeverStranded == FewStarts /\ ~LateCreate /\ Spec => []NotStranded
<1> SUFFICES ASSUME FewStarts, ~LateCreate PROVE Spec => []NotStranded
  OBVIOUS
<1>1. Init => Course /\ RowInv
  <2> SUFFICES ASSUME Init PROVE RowInv
    BY CourseInitially
  <2>1. row = [status |-> "running", id |-> FALSE, boot |-> FALSE] /\ op.kind = "create"
        /\ server.proc = "up" /\ verbs = 0 /\ "create" \notin Verbs
    BY BootstrapAssumption DEF Init, IdleOp
  <2> QED BY <2>1 DEF RowInv, RowRecords, Statuses, Attended, DrainSawAll, StartMeets, Untouched, DownIsOver
<1>2. Course /\ RowInv /\ [Next]_vars => (Course /\ RowInv)'
  BY StepOnward, RunStepRow, BodyStepRow, OtherStepRow DEF Onward
<1>3. RowInv => NotStranded
  <2> SUFFICES ASSUME RowInv, row.status = "running", ~row.boot, box = "up", ~loose, ~InFlight
               PROVE  op # IdleOp
    BY DEF NotStranded
  <2> QED BY RunPlaces DEF RowInv, Attended, Revived, IdleOp
<1> QED BY <1>1, <1>2, <1>3, PTL DEF Spec
=============================================================================
