------------------------------ MODULE Composer ------------------------------
(***************************************************************************)
(* The composer on one tmux pane: conversation/composer.ts (the pane       *)
(* transport), paneRecord.ts and DockerManager.composerPort.               *)
(*                                                                         *)
(* A send types its text through execs in the session's container. The     *)
(* pane record on disk blocks the pane until no exec can act any more; the *)
(* pane lock covers the executor and every later procedure on the record   *)
(* (`job`): recovery, an operator's resolve, a late answer, the conclusion *)
(* of the ack, the release. T_http and a shutdown cancel from outside it.  *)
(*                                                                         *)
(* An operation is named by its request; "adopted" is the object a new     *)
(* process makes of a record it finds. A user message id may be used by    *)
(* several requests (a retry). Left out: what the preconditions read (each *)
(* may refuse), texts of several segments, a prompt that reached another   *)
(* conversation, unreadable records, the background transport.             *)
(***************************************************************************)
EXTENDS Naturals, FiniteSets

CONSTANTS
  Requests,       \* the POSTs
  Ids,            \* clientMessageIds
  Enter,          \* how many execs a delivery takes; the last sends the Enter
  MaxTroubles,    \* bound: deaths of the process, containers replaced, failing
                  \* writes, events and creations, and resolutions, altogether
  LateRejects,    \* may a creation be rejected after its operation was cancelled
  Reopened        \* has a new process opened the conversation before a send

ASSUME ComposerAssumption ==
  /\ IsFiniteSet(Requests) /\ Requests \cap {"adopted", "none", "job"} = {}
  /\ Enter \in Nat \ {0}
  /\ MaxTroubles \in Nat
  /\ LateRejects \in BOOLEAN /\ Reopened \in BOOLEAN

VARIABLES
  disk,                  \* the pane's record file
  mem,                   \* the record each live operation holds
  live,                  \* the pane's entry in `live`
  lock,                  \* who is inside the pane lock
  job,                   \* the procedure that holds it, besides an executor
  pc, step,              \* each operation's continuation, and its step
  canc,                  \* operations whose cancelActive is under way
  heard,                 \* each operation's ack listener
  id, answer, on,        \* each request: message id, answer, container
  x,                     \* each exec in Docker
  typed, prompted,       \* what acted in the pane; prompts in the log
  logged, window,        \* released events; those a send can look up
  cont,                  \* the session's container
  recovered, stopping,
  troubles

ops    == <<mem, live, pc, step, canc, heard>>
world  == <<x, typed, prompted, cont>>
past   == <<logged, window>>
vars   == <<disk, ops, lock, job, id, answer, on, world, past,
            recovered, stopping, troubles>>

Step  == 1..Enter
Obj   == Requests \union {"adopted"}

NoRecord == [req |-> "none", phase |-> "none", state |-> "none",
             result |-> "none", ex |-> [s \in Step |-> "none"]]
Prepared(r) == [req |-> r, phase |-> "active", state |-> "prepared",
                result |-> "pending", ex |-> [s \in Step |-> "none"]]
NoJob == [by |-> "none", op |-> "none", pc |-> "idle", req |-> "none",
          declare |-> FALSE]

OnDisk == disk # NoRecord
Final(rec) == rec.result # "pending"
\* effectsOf
Settled(rec) == \A s \in Step : rec.ex[s] # "pending"
SameId(rec1, rec2) == id[rec1.req] = id[rec2.req]

Trouble == troubles < MaxTroubles /\ troubles' = troubles + 1

\* PaneRecordStore.write: it may fail before its rename or after.
Save(rec, ok) ==
  IF ok THEN disk' = rec /\ UNCHANGED troubles
  ELSE /\ Trouble
       /\ disk' \in {disk, rec}
\* remove: by identity.
Without(rec) == IF OnDisk /\ SameId(disk, rec) THEN NoRecord ELSE disk

\* decideHttp: the first answer stands.
Answered(o, a) == IF o \in Requests /\ answer[o] = "none"
                  THEN [answer EXCEPT ![o] = a] ELSE answer
Unlisten(o) == [heard EXCEPT ![o] = IF @ = "yes" THEN @ ELSE "off"]
\* Mutation: a cancellation also waits for the exec's answer.
LandedAnswered(o) == o \in Requests => pc[o] \notin {"writing", "landed", "waiting"}
\* drainWrites: the write before a start is the one a cancellation can meet;
\* a later procedure can also meet the cancellation's own and the executor's last.
Landed(o) == o \in Requests => pc[o] \notin {"writing", "landed"}
Drained(o) == Landed(o) /\ pc[o] # "close" /\ o \notin canc
\* What a write begun before a cancellation may still carry.
Older(rec) == {rec, [rec EXCEPT !.phase = "active", !.state = "prepared"]}

MayAct(r) == mem[r].phase = "active" /\ ~stopping

-----------------------------------------------------------------------------
\* send: recovery, the records, the window, the lock.

Arrive(r) ==
  /\ pc[r] = "idle" /\ ~stopping
  /\ pc' = [pc EXCEPT ![r] = IF recovered THEN "check" ELSE "recover"]
  /\ UNCHANGED <<disk, mem, live, step, canc, heard, lock, job, id, answer, on,
                 world, past, recovered, stopping, troubles>>

\* recover: once per process; a record that is live, or whose pane is locked,
\* is left alone.
Recover(r) ==
  /\ pc[r] = "recover"
  /\ recovered' = TRUE
  /\ IF OnDisk /\ ~recovered /\ live = "none" /\ lock = "none"
     THEN /\ lock' = "job"
          /\ job' = [NoJob EXCEPT !.by = "recover", !.op = "adopted",
                                  !.pc = "adopt", !.req = r]
          /\ mem' = [mem EXCEPT !["adopted"] = disk]
          /\ heard' = [heard EXCEPT !["adopted"] = "off"]
          /\ pc' = [pc EXCEPT ![r] = "recovering"]
     ELSE /\ pc' = [pc EXCEPT ![r] = "check"]
          /\ UNCHANGED <<lock, job, mem, heard>>
  /\ UNCHANGED <<disk, live, step, canc, id, answer, on, world, past,
                 stopping, troubles>>

\* A final, settled operation whose removal failed is released by the send.
OwnFinal == /\ live # "none" /\ SameId(mem[live], disk)
            /\ mem[live].phase # "active" /\ Final(mem[live]) /\ Settled(mem[live])
Known(r) == {q \in window : id[q] = id[r]}

\* From the records to the lock there is no await.
Check(r) ==
  /\ pc[r] = "check"
  /\ \/ /\ OnDisk /\ id[disk.req] = id[r]
        /\ answer' = Answered(r, "uncertain")
        /\ pc' = [pc EXCEPT ![r] = "done"]
        /\ UNCHANGED <<lock, job>>
     \/ /\ ~(OnDisk /\ id[disk.req] = id[r])
        /\ \E q \in Known(r) : answer' = Answered(r, logged[q])
        /\ pc' = [pc EXCEPT ![r] = "done"]
        /\ UNCHANGED <<lock, job>>
     \/ /\ Known(r) = {} /\ ~(OnDisk /\ id[disk.req] = id[r])
        /\ stopping \/ lock # "none" \/ (OnDisk /\ ~OwnFinal)
        /\ answer' = Answered(r, "refused")
        /\ pc' = [pc EXCEPT ![r] = "done"]
        /\ UNCHANGED <<lock, job>>
     \/ /\ Known(r) = {} /\ ~(OnDisk /\ id[disk.req] = id[r])
        /\ ~stopping /\ lock = "none" /\ (OnDisk => OwnFinal)
        /\ lock' = r
        /\ IF OnDisk
           THEN /\ job' = [NoJob EXCEPT !.by = "resend", !.op = live,
                                        !.pc = "release", !.req = r]
                /\ pc' = [pc EXCEPT ![r] = "resending"]
           ELSE /\ pc' = [pc EXCEPT ![r] = "precond"]
                /\ UNCHANGED job
        /\ UNCHANGED answer
  /\ UNCHANGED <<disk, mem, live, step, canc, heard, id, on, world, past,
                 recovered, stopping, troubles>>

-----------------------------------------------------------------------------
\* activePhase

\* A precondition, a deadline that passed or a shutdown refuses.
Refuse(r) ==
  /\ pc[r] = "precond"
  /\ answer' = Answered(r, "refused")
  /\ lock' = "none"
  /\ pc' = [pc EXCEPT ![r] = "done"]
  /\ UNCHANGED <<disk, mem, live, step, canc, heard, job, id, on, world, past,
                 recovered, stopping, troubles>>

Prepare(r) ==
  /\ pc[r] = "precond"
  /\ answer[r] = "none" /\ ~stopping
  /\ mem' = [mem EXCEPT ![r] = Prepared(r)]
  /\ live' = r
  /\ on' = [on EXCEPT ![r] = cont]
  /\ pc' = [pc EXCEPT ![r] = "prepare"]
  /\ UNCHANGED <<disk, step, canc, heard, lock, job, id, answer, world, past,
                 recovered, stopping, troubles>>

PreparedLands(r, ok) ==
  /\ pc[r] = "prepare"
  /\ \E rec \in Older(mem[r]) : Save(rec, ok)
  /\ pc' = [pc EXCEPT ![r] = IF ok THEN "event" ELSE "withdraw"]
  /\ heard' = [heard EXCEPT ![r] = IF ok THEN "on" ELSE "off"]
  /\ UNCHANGED <<mem, live, step, canc, lock, job, id, answer, on, world, past,
                 recovered, stopping>>

Cancelled(rec) == [rec EXCEPT !.phase = "cancelled",
                     !.state = IF @ = "prepared" THEN "uncertain" ELSE @]

\* The confirmed `prepared` event; a shutdown meanwhile starts nothing.
PreparedConfirmed(r) ==
  /\ pc[r] = "event"
  /\ \/ /\ MayAct(r)
        /\ pc' = [pc EXCEPT ![r] = "create"]
        /\ UNCHANGED <<mem, answer, troubles>>
     \/ /\ ~MayAct(r)
        /\ mem' = [mem EXCEPT ![r] = Cancelled(@)]
        /\ answer' = Answered(r, "uncertain")
        /\ pc' = [pc EXCEPT ![r] = "stop"]
        /\ UNCHANGED troubles
     \/ /\ Trouble
        /\ pc' = [pc EXCEPT ![r] = "withdraw"]
        /\ UNCHANGED <<mem, answer>>
  /\ UNCHANGED <<disk, live, step, canc, heard, lock, job, id, on, world, past,
                 recovered, stopping>>

StoppedAtPrepared(r, ok) ==
  /\ pc[r] = "stop"
  /\ Save(mem[r], ok)
  /\ lock' = "none"
  /\ heard' = Unlisten(r)
  /\ pc' = [pc EXCEPT ![r] = "done"]
  /\ UNCHANGED <<mem, live, step, canc, job, id, answer, on, world, past,
                 recovered, stopping>>

WithdrawPrepared(r, ok) ==
  /\ pc[r] = "withdraw"
  /\ IF ok THEN disk' = Without(mem[r]) /\ UNCHANGED troubles
     ELSE Trouble /\ UNCHANGED disk
  /\ live' = IF live = r THEN "none" ELSE live
  /\ heard' = Unlisten(r)
  /\ answer' = Answered(r, "refused")
  /\ lock' = "none"
  /\ pc' = [pc EXCEPT ![r] = "done"]
  /\ UNCHANGED <<mem, step, canc, job, id, on, world, past, recovered,
                 stopping>>

-----------------------------------------------------------------------------
\* runEffects and effect

\* toFailed, toUncertain and toEntered: decided here, written by Close.
Failed(rec) == [rec EXCEPT !.phase = "completed", !.state = "final",
                           !.result = "failed"]
Uncertain(rec) == [rec EXCEPT !.phase = "cancelled", !.state = "uncertain"]
\* toCancelled
Refused(rec) == IF Settled(rec) THEN Failed(rec) ELSE Uncertain(rec)

\* An operation cancelled meanwhile only reports (afterCancelled).
Outcome(r, rec, active) ==
  IF mem[r].phase = "active"
  THEN mem' = [mem EXCEPT ![r] = active] /\ pc' = [pc EXCEPT ![r] = "close"]
  ELSE mem' = [mem EXCEPT ![r] = rec] /\ pc' = [pc EXCEPT ![r] = "late"]

\* The exec is created, or its creation is rejected: then no process exists,
\* and the failure is written whatever became of the operation meanwhile.
CreateExec(r) ==
  /\ pc[r] = "create"
  /\ \/ /\ on[r] = cont /\ MayAct(r)
        /\ x' = [x EXCEPT ![r][step[r]] = "created"]
        /\ mem' = [mem EXCEPT ![r].ex[step[r]] = "pending"]
        /\ pc' = [pc EXCEPT ![r] = "writing"]
        /\ UNCHANGED troubles
     \/ /\ on[r] = cont /\ ~MayAct(r)
        /\ x' = [x EXCEPT ![r][step[r]] = "created"]
        /\ Outcome(r, mem[r], Refused(mem[r]))
        /\ UNCHANGED troubles
     \/ /\ mem[r].phase = "active" \/ LateRejects
        /\ IF on[r] = cont THEN Trouble ELSE UNCHANGED troubles
        /\ mem' = [mem EXCEPT ![r] = Failed(@)]
        /\ pc' = [pc EXCEPT ![r] = "close"]
        /\ UNCHANGED x
  /\ UNCHANGED <<disk, live, step, canc, heard, lock, job, id, answer, on, typed,
                 prompted, cont, past, recovered, stopping>>

\* The id is on disk before the start, or nothing starts.
ExecRecorded(r) ==
  /\ pc[r] = "writing"
  /\ \E rec \in Older(mem[r]) :
       \/ Save(rec, TRUE) /\ pc' = [pc EXCEPT ![r] = "landed"] /\ UNCHANGED mem
       \/ Save(rec, FALSE) /\ Outcome(r, mem[r], Uncertain(mem[r]))
  /\ UNCHANGED <<live, step, canc, heard, lock, job, id, answer, on, world, past,
                 recovered, stopping>>

\* mayAct again, and the start; an exec never started is taken back.
StartExec(r) ==
  LET without == [mem[r] EXCEPT !.ex[step[r]] = "none"] IN
  /\ pc[r] = "landed"
  /\ IF MayAct(r)
     THEN /\ x' = [x EXCEPT ![r][step[r]] = IF on[r] = cont THEN "running" ELSE "dead"]
          /\ pc' = [pc EXCEPT ![r] = "waiting"]
          /\ UNCHANGED mem
     ELSE Outcome(r, without, Refused(without)) /\ UNCHANGED x
  /\ UNCHANGED <<disk, live, step, canc, heard, lock, job, id, answer, on, typed,
                 prompted, cont, past, recovered, stopping, troubles>>

\* The exec's own inspect answers a code, or nothing is known of it.
ExecAnswers(r) ==
  LET s == step[r]
      rec(e) == [mem[r] EXCEPT !.ex[s] = e]
      entered == [rec("ok") EXCEPT !.phase = "completed", !.state = "entered"]
  IN
  /\ pc[r] = "waiting"
  /\ \/ Outcome(r, mem[r], Uncertain(mem[r])) /\ UNCHANGED step
     \/ /\ x[r][s] = "err"
        /\ Outcome(r, rec("err"), Failed(rec("err"))) /\ UNCHANGED step
     \/ /\ x[r][s] = "ok" /\ s = Enter
        /\ Outcome(r, rec("ok"), entered) /\ UNCHANGED step
     \/ /\ x[r][s] = "ok" /\ s # Enter
        /\ mem' = [mem EXCEPT ![r] = rec("ok")]
        /\ pc' = [pc EXCEPT ![r] = IF mem[r].phase = "active" THEN "seen" ELSE "late"]
        /\ UNCHANGED step
  /\ UNCHANGED <<disk, live, canc, heard, lock, job, id, answer, on, world, past,
                 recovered, stopping, troubles>>

\* The pane is judged by the precheck, or polled until the paste is consumed.
Proceed(r) ==
  /\ pc[r] = "seen"
  /\ \/ Outcome(r, mem[r], Failed(mem[r])) /\ UNCHANGED step
     \/ /\ mem[r].phase = "active"
        /\ step' = [step EXCEPT ![r] = @ + 1]
        /\ pc' = [pc EXCEPT ![r] = "create"]
        /\ UNCHANGED mem
  /\ UNCHANGED <<disk, live, canc, heard, lock, job, id, answer, on, world, past,
                 recovered, stopping, troubles>>

\* The transition is written, whether or not the write succeeds, and the
\* active phase ends.
Close(r, ok) ==
  /\ pc[r] = "close"
  /\ Save(mem[r], ok)
  /\ lock' = IF lock = r THEN "none" ELSE lock
  /\ \/ /\ mem[r].result = "failed"
        /\ answer' = Answered(r, "failed")
        /\ heard' = Unlisten(r)
        /\ pc' = [pc EXCEPT ![r] = "release"]
     \/ /\ mem[r].state = "uncertain" /\ ~Final(mem[r])
        /\ answer' = Answered(r, "uncertain")
        /\ heard' = Unlisten(r)
        /\ pc' = [pc EXCEPT ![r] = "done"]
     \/ /\ mem[r].state = "entered" /\ ~Final(mem[r])
        /\ pc' = [pc EXCEPT ![r] = "ackwait"]
        /\ UNCHANGED <<answer, heard>>
  /\ UNCHANGED <<mem, live, step, canc, job, id, on, world, past, recovered,
                 stopping>>

-----------------------------------------------------------------------------
\* onTHttp, cancelActive and shutdown: from outside the executor.

Announced == {"create", "writing", "landed", "waiting", "seen"}

\* Mutation: the deadline belongs to the operation, not to the request.
THttpAnswersLate(r) ==
  /\ pc[r] \in {"close", "ackwait", "conclude"}
  /\ answer[r] = "none"
  /\ answer' = Answered(r, "uncertain")
  /\ UNCHANGED <<disk, ops, lock, job, id, on, world, past, recovered,
                 stopping, troubles>>

\* Before the operation is announced the deadline only answers.
THttpAnswers(r) ==
  /\ pc[r] \in {"resending", "precond", "prepare", "event", "withdraw",
                "close", "ackwait", "conclude"}
  /\ answer[r] = "none"
  /\ answer' = Answered(r, "uncertain")
  /\ UNCHANGED <<disk, ops, lock, job, id, on, world, past, recovered,
                 stopping, troubles>>

CancelActive(r) ==
  /\ pc[r] \in Announced \/ (stopping /\ pc[r] \in {"prepare", "event"})
  /\ mem[r].phase = "active"
  /\ answer' = Answered(r, "uncertain")
  /\ mem' = [mem EXCEPT ![r] = Cancelled(@)]
  /\ canc' = canc \union {r}
  /\ UNCHANGED <<disk, live, pc, step, heard, lock, job, id, on, world, past,
                 recovered, stopping, troubles>>

\* Writes under way land first; then the executor's exclusion ends.
\* Mutation: the lock is freed without asking who holds it.
CancelWrittenFrees(r, ok) ==
  /\ r \in canc /\ Landed(r)
  /\ Save(mem[r], ok)
  /\ canc' = canc \ {r}
  /\ heard' = Unlisten(r)
  /\ lock' = "none"
  /\ UNCHANGED <<mem, live, pc, step, job, id, answer, on, world, past,
                 recovered, stopping>>

CancelWritten(r, ok) ==
  /\ r \in canc /\ Landed(r)
  /\ Save(mem[r], ok)
  /\ canc' = canc \ {r}
  /\ heard' = Unlisten(r)
  /\ lock' = IF lock = r /\ pc[r] \notin {"prepare", "event", "stop", "withdraw"}
             THEN "none" ELSE lock
  /\ UNCHANGED <<mem, live, pc, step, job, id, answer, on, world, past,
                 recovered, stopping>>

Shutdown ==
  /\ ~stopping
  /\ stopping' = TRUE
  /\ UNCHANGED <<disk, ops, lock, job, id, answer, on, world, past, recovered,
                 troubles>>

-----------------------------------------------------------------------------
\* The procedures under the pane lock.

StartJob(by, o, p) == /\ lock = "none" /\ lock' = "job"
                      /\ job' = [NoJob EXCEPT !.by = by, !.op = o, !.pc = p]

\* They wait for the lock, and give up when it stays busy.
TakeLock(o) ==
  /\ pc[o] \in {"late", "release", "conclude"}
  /\ \/ /\ StartJob(pc[o], o, pc[o])
        /\ UNCHANGED answer
     \/ /\ lock # "none"
        /\ answer' = IF pc[o] = "conclude" THEN Answered(o, "uncertain") ELSE answer
        /\ UNCHANGED <<lock, job>>
  /\ pc' = [pc EXCEPT ![o] = "done"]
  /\ UNCHANGED <<disk, mem, live, step, canc, heard, id, on, world, past,
                 recovered, stopping, troubles>>

\* resolve: reconcile, or declare a result.
Resolve(declare) ==
  /\ Trouble
  /\ ~stopping /\ OnDisk /\ lock = "none"
  /\ lock' = "job"
  /\ LET o == IF live # "none" THEN live ELSE "adopted" IN
     /\ job' = [NoJob EXCEPT !.by = "resolve", !.op = o, !.pc = "adopt",
                             !.declare = declare]
     /\ IF live # "none" THEN UNCHANGED <<mem, heard>>
        ELSE /\ mem' = [mem EXCEPT !["adopted"] = disk]
             /\ heard' = [heard EXCEPT !["adopted"] = "off"]
  /\ UNCHANGED <<disk, live, pc, step, canc, id, answer, on, world, past,
                 recovered, stopping>>

Goto(p) == job' = [job EXCEPT !.pc = p] /\ UNCHANGED <<lock, pc, answer>>
\* The lock is freed; a send's own release keeps it and goes on.
EndJob(released) ==
  /\ job' = NoJob
  /\ IF job.by = "resend"
     THEN /\ lock' = IF released THEN lock ELSE "none"
          /\ pc' = [pc EXCEPT ![job.req] = IF released THEN "precond" ELSE "done"]
          /\ answer' = IF released THEN answer ELSE Answered(job.req, "refused")
     ELSE /\ lock' = "none"
          /\ pc' = IF job.by = "recover" THEN [pc EXCEPT ![job.req] = "check"] ELSE pc
          /\ UNCHANGED answer
Op == mem[job.op]

\* recoverOne and resolve: an active record's executor died; it is cancelled.
JobAdopts(ok) ==
  LET next == IF job.declare THEN "declare" ELSE "settle" IN
  /\ job.pc = "adopt"
  /\ IF Op.phase = "active"
     THEN /\ mem' = [mem EXCEPT ![job.op] = Cancelled(@)]
          /\ Save(mem'[job.op], ok)
          /\ IF ok THEN Goto(next) ELSE EndJob(FALSE)
     ELSE ok /\ Goto(next) /\ UNCHANGED <<disk, mem, troubles>>
  /\ UNCHANGED <<live, step, canc, heard, id, on, world, past, recovered,
                 stopping>>

JobDeclares(ok) ==
  /\ job.pc = "declare"
  /\ IF Final(Op) THEN ok /\ EndJob(FALSE) /\ UNCHANGED <<disk, mem, troubles>>
     ELSE /\ mem' = [mem EXCEPT ![job.op].result = "resolved", ![job.op].state = "final"]
          /\ Save(mem'[job.op], ok)
          /\ IF ok THEN Goto("settle") ELSE EndJob(FALSE)
  /\ UNCHANGED <<live, step, canc, heard, id, on, world, past, recovered,
                 stopping>>

\* afterCancelled: only the pane's live operation writes.
JobLate(ok) ==
  /\ job.pc = "late"
  /\ IF live # job.op THEN ok /\ EndJob(FALSE) /\ UNCHANGED <<disk, troubles>>
     ELSE Drained(job.op) /\ Save(Op, ok) /\ Goto("settle")
  /\ UNCHANGED <<mem, live, step, canc, heard, id, on, world, past, recovered,
                 stopping>>

\* settleEffects: an exec's inspect, or the end of the container it ran in.
\* Any of these reads may fail.
\* Mutation: an exec Docker says nothing of is taken as gone.
EvidenceMissing(inspected, sees) ==
  [s \in Step |-> IF Op.ex[s] # "pending" THEN Op.ex[s]
                 ELSE IF s \in inspected /\ x[Op.req][s] \in {"ok", "err"}
                      THEN x[Op.req][s] ELSE IF sees THEN "gone" ELSE "pending"]
Evidence(inspected, sees) ==
  LET r == Op.req
      read == [s \in Step |-> IF Op.ex[s] = "pending" /\ s \in inspected
                                 /\ x[r][s] \in {"ok", "err"}
                              THEN x[r][s] ELSE Op.ex[s]]
  IN [s \in Step |-> IF read[s] = "pending" /\ sees /\ on[r] # cont
                     THEN "gone" ELSE read[s]]

JobSettles(ok) ==
  /\ job.pc = "settle" /\ Drained(job.op)
  /\ \E inspected \in SUBSET Step, sees \in BOOLEAN :
       LET ex == Evidence(inspected, sees) IN
       IF ex = Op.ex THEN ok /\ UNCHANGED <<disk, mem, troubles>>
       ELSE /\ mem' = [mem EXCEPT ![job.op].ex = ex]
            /\ Save(mem'[job.op], ok)
  /\ Goto("derive")
  /\ UNCHANGED <<live, step, canc, heard, id, on, world, past, recovered,
                 stopping>>

\* A cancelled operation whose effects ended: entered or failed.
Derived(rec) ==
  IF rec.phase = "cancelled" /\ ~Final(rec) /\ rec.state # "entered" /\ Settled(rec)
  THEN IF rec.ex[Enter] = "ok" THEN [rec EXCEPT !.state = "entered"]
       ELSE [rec EXCEPT !.state = "final", !.result = "failed"]
  ELSE rec

JobDerives(ok) ==
  /\ job.pc = "derive"
  /\ IF Derived(Op) = Op THEN ok /\ UNCHANGED <<disk, mem, troubles>>
     ELSE /\ mem' = [mem EXCEPT ![job.op] = Derived(@)]
          /\ Save(mem'[job.op], ok)
  /\ Goto(IF Derived(Op).state = "entered" /\ ~Final(Op) THEN "ack" ELSE "release")
  /\ UNCHANGED <<live, step, canc, heard, id, on, world, past, recovered,
                 stopping>>

\* decideResult
Decided(rec, ack) == [rec EXCEPT !.state = "final",
                        !.result = IF ack THEN "delivered" ELSE "unconfirmed"]

\* deferredAck: the log, then a wait of at most T_ack of its own.
JobAcks(ok) ==
  LET ack == Op.req \in prompted \/ heard[job.op] = "yes" IN
  /\ job.pc = "ack"
  /\ \/ /\ live \notin {"none", job.op}
        /\ ok /\ EndJob(FALSE)
        /\ UNCHANGED <<disk, mem, troubles, live, heard>>
     \/ /\ live \in {"none", job.op} /\ ~ack
        /\ ok
        /\ IF pc[job.op] \in {"ackwait", "conclude"}
           THEN EndJob(FALSE) /\ UNCHANGED <<live, heard>>
           ELSE /\ live' = job.op
                /\ heard' = [heard EXCEPT ![job.op] = "on"]
                /\ job' = NoJob /\ lock' = "none" /\ UNCHANGED answer
                /\ pc' = [o \in Obj |->
                     CASE o = job.op -> "ackwait"
                       [] o = job.req /\ job.by = "recover" -> "check"
                       [] OTHER -> pc[o]]
        /\ UNCHANGED <<disk, mem, troubles>>
     \/ /\ live \in {"none", job.op}
        /\ mem' = [mem EXCEPT ![job.op] = Decided(@, ack)]
        /\ Save(mem'[job.op], ok)
        /\ Goto("release")
        /\ UNCHANGED <<live, heard>>
  /\ UNCHANGED <<step, canc, id, on, world, past, recovered, stopping>>

\* The ack window ends: a prompt was heard, or T_ack passed.
AckWindowEnds(o) ==
  /\ pc[o] = "ackwait"
  /\ pc' = [pc EXCEPT ![o] = "conclude"]
  /\ heard' = Unlisten(o)
  /\ UNCHANGED <<disk, mem, live, step, canc, lock, job, id, answer, on, world,
                 past, recovered, stopping, troubles>>

\* concludeAck
JobConcludes(ok) ==
  LET d == Decided(Op, heard[job.op] = "yes") IN
  /\ job.pc = "conclude"
  /\ IF live # job.op
     THEN /\ ok /\ UNCHANGED <<disk, mem, troubles>>
          /\ job' = NoJob /\ lock' = "none" /\ UNCHANGED pc
          /\ answer' = Answered(job.op, IF Final(Op) THEN Op.result ELSE "uncertain")
     ELSE /\ IF Final(Op)
             THEN /\ ok /\ UNCHANGED <<disk, mem, troubles>>
                  /\ answer' = Answered(job.op, Op.result)
             ELSE /\ mem' = [mem EXCEPT ![job.op] = d]
                  /\ Save(d, ok)
                  /\ answer' = Answered(job.op, d.result)
          /\ job' = [job EXCEPT !.pc = "release"]
          /\ UNCHANGED <<lock, pc>>
  /\ UNCHANGED <<live, step, canc, heard, id, on, world, past, recovered,
                 stopping>>

\* tryRelease: the confirmed `released` event, then the record's removal.
\* Mutation: a final result frees the pane, whatever its execs may still do.
ReleasableFinal(rec) == rec.phase # "active" /\ Final(rec)
Releasable(rec) == rec.phase # "active" /\ Final(rec) /\ Settled(rec)

JobReleases ==
  /\ job.pc = "release"
  /\ \/ ~Releasable(Op) /\ EndJob(FALSE) /\ UNCHANGED <<mem, live, past, troubles>>
     \/ /\ Releasable(Op) /\ Drained(job.op)
        /\ OnDisk /\ ~SameId(disk, Op)
        /\ live' = IF live = job.op THEN "none" ELSE live
        /\ EndJob(FALSE)
        /\ UNCHANGED <<mem, past, troubles>>
     \/ /\ Releasable(Op) /\ Drained(job.op)
        /\ OnDisk => SameId(disk, Op)
        /\ \/ /\ Goto(IF Op.state = "released" THEN "remove" ELSE "mark")
              /\ mem' = [mem EXCEPT ![job.op].state = "released"]
              /\ IF Op.state = "released" THEN UNCHANGED past
                 ELSE /\ logged' = [logged EXCEPT ![Op.req] = Op.result]
                      /\ window' = window \union {Op.req}
              /\ UNCHANGED <<live, troubles>>
           \/ /\ Op.state # "released" /\ Trouble
              /\ live' = job.op
              /\ EndJob(FALSE)
              /\ UNCHANGED <<mem, past>>
  /\ UNCHANGED <<disk, step, canc, heard, id, on, world, recovered,
                 stopping>>

JobMarks(ok) ==
  /\ job.pc = "mark"
  /\ IF OnDisk THEN Save(Op, ok) ELSE ok /\ UNCHANGED <<disk, troubles>>
  /\ Goto("remove")
  /\ UNCHANGED <<mem, live, step, canc, heard, id, on, world, past, recovered,
                 stopping>>

JobRemoves(ok) ==
  /\ job.pc = "remove"
  /\ IF ok THEN disk' = Without(Op) /\ live' = "none" /\ UNCHANGED troubles
     ELSE OnDisk /\ Trouble /\ live' = job.op /\ UNCHANGED disk
  /\ EndJob(disk' = NoRecord)
  /\ UNCHANGED <<mem, step, canc, heard, id, on, world, past, recovered,
                 stopping>>

-----------------------------------------------------------------------------
\* Docker, the CLI, and the process.

\* A tmux command acts on the pane, then its exit is known to Docker.
ExecActs(r, s) ==
  /\ x[r][s] = "running"
  /\ x' = [x EXCEPT ![r][s] = "acted"]
  /\ typed' = [typed EXCEPT ![r] = @ \union {s}]
  /\ UNCHANGED <<disk, ops, lock, job, id, answer, on, prompted, cont, past,
                 recovered, stopping, troubles>>

ExecEnds(r, s) ==
  /\ x[r][s] \in {"running", "acted"}
  /\ x' = [x EXCEPT ![r][s] = IF @ = "acted" THEN "ok" ELSE "err"]
  /\ UNCHANGED <<disk, ops, lock, job, id, answer, on, typed, prompted, cont,
                 past, recovered, stopping, troubles>>

\* The CLI's UserPromptSubmit reaches the log, and whoever listens.
PromptPersisted(r) ==
  /\ Enter \in typed[r] /\ r \notin prompted
  /\ prompted' = prompted \union {r}
  /\ heard' = [o \in Obj |-> IF heard[o] = "on" /\ mem[o].req = r THEN "yes"
                             ELSE heard[o]]
  /\ UNCHANGED <<disk, mem, live, pc, step, canc, lock, job, id, answer, on, x,
                 typed, cont, past, recovered, stopping, troubles>>

\* Its execs end with the container.
ContainerReplaced ==
  /\ Trouble
  /\ cont' = cont + 1
  /\ x' = [r \in Requests |-> [s \in Step |->
             IF x[r][s] \in {"running", "acted"} THEN "dead" ELSE x[r][s]]]
  /\ UNCHANGED <<disk, ops, lock, job, id, answer, on, typed, prompted, past,
                 recovered, stopping>>

\* Mutation: the index does not carry the released ids.
RecalledNone == {{}}
Recalled == IF Reopened THEN {window} ELSE SUBSET window

\* Memory is lost; a send finds the released ids again once the conversation
\* was opened, else only those its last snapshot had.
Crash ==
  /\ Trouble
  /\ mem' = [o \in Obj |-> NoRecord]
  /\ live' = "none" /\ lock' = "none" /\ job' = NoJob /\ canc' = {}
  /\ heard' = [o \in Obj |-> "off"]
  /\ pc' = [o \in Obj |-> IF pc[o] = "idle" \/ o = "adopted" THEN "idle" ELSE "done"]
  /\ window' \in Recalled
  /\ recovered' = FALSE /\ stopping' = FALSE
  /\ UNCHANGED <<disk, step, id, answer, on, world, logged>>

-----------------------------------------------------------------------------
Init ==
  /\ disk = NoRecord
  /\ mem = [o \in Obj |-> NoRecord]
  /\ live = "none" /\ lock = "none" /\ job = NoJob
  /\ pc = [o \in Obj |-> "idle"] /\ step = [r \in Requests |-> 1]
  /\ canc = {} /\ heard = [o \in Obj |-> "off"]
  /\ id \in [Requests -> Ids]
  /\ answer = [r \in Requests |-> "none"] /\ on = [r \in Requests |-> 1]
  /\ x = [r \in Requests |-> [s \in Step |-> "none"]]
  /\ typed = [r \in Requests |-> {}] /\ prompted = {}
  /\ logged = [r \in Requests |-> "none"] /\ window = {}
  /\ cont = 1
  /\ recovered = FALSE /\ stopping = FALSE
  /\ troubles = 0

Executor(r) ==
  \/ Recover(r) \/ Check(r) \/ Refuse(r) \/ Prepare(r) \/ PreparedConfirmed(r)
  \/ CreateExec(r) \/ ExecRecorded(r) \/ StartExec(r) \/ ExecAnswers(r) \/ Proceed(r)
  \/ \E ok \in BOOLEAN :
       \/ PreparedLands(r, ok) \/ StoppedAtPrepared(r, ok)
       \/ WithdrawPrepared(r, ok) \/ Close(r, ok)

Job ==
  \/ JobReleases
  \/ \E ok \in BOOLEAN :
       \/ JobAdopts(ok) \/ JobDeclares(ok) \/ JobLate(ok) \/ JobSettles(ok)
       \/ JobDerives(ok) \/ JobAcks(ok) \/ JobConcludes(ok) \/ JobMarks(ok)
       \/ JobRemoves(ok)

Next ==
  \/ \E r \in Requests :
       \/ Arrive(r) \/ Executor(r) \/ THttpAnswers(r) \/ CancelActive(r)
       \/ \E ok \in BOOLEAN : CancelWritten(r, ok)
       \/ \E s \in Step : ExecActs(r, s) \/ ExecEnds(r, s)
       \/ PromptPersisted(r)
  \/ \E o \in Obj : AckWindowEnds(o) \/ TakeLock(o)
  \/ Job
  \/ \E declare \in BOOLEAN : Resolve(declare)
  \/ Shutdown \/ ContainerReplaced \/ Crash

Spec == Init /\ [][Next]_vars

\* The file system answers, and the T_http timer fires; Docker may hang.
Internal(r) ==
  \/ PreparedConfirmed(r) \/ ExecRecorded(r) \/ StartExec(r)
  \/ \E ok \in BOOLEAN : PreparedLands(r, ok) \/ StoppedAtPrepared(r, ok)
                          \/ WithdrawPrepared(r, ok) \/ Close(r, ok)
Deadline(r) ==
  THttpAnswers(r) \/ CancelActive(r) \/ \E ok \in BOOLEAN : CancelWritten(r, ok)
FairSpec == Spec /\ \A r \in Requests : WF_vars(Internal(r)) /\ WF_vars(Deadline(r))

-----------------------------------------------------------------------------
\* Properties.

Record ==
  [req : Requests \union {"none"},
   phase : {"none", "active", "completed", "cancelled"},
   state : {"none", "prepared", "uncertain", "entered", "final", "released"},
   result : {"none", "pending", "failed", "delivered", "unconfirmed", "resolved"},
   ex : [Step -> {"none", "pending", "ok", "err", "gone"}]]

\* TypeOK: every variable has its type.
TypeOK ==
  /\ disk \in Record /\ mem \in [Obj -> Record]
  /\ live \in Obj \union {"none"}
  /\ lock \in Requests \union {"none", "job"}
  /\ job.op \in Obj \union {"none"} /\ job.declare \in BOOLEAN
  /\ lock = "job" <=> job.by \notin {"none", "resend"}
  /\ step \in [Requests -> Step] /\ canc \subseteq Requests
  /\ heard \in [Obj -> {"off", "on", "yes"}]
  /\ id \in [Requests -> Ids]
  /\ answer \in [Requests -> {"none", "refused", "uncertain", "failed",
                              "delivered", "unconfirmed", "resolved"}]
  /\ x \in [Requests -> [Step -> {"none", "created", "running", "acted", "ok",
                                  "err", "dead"}]]
  /\ typed \in [Requests -> SUBSET Step] /\ prompted \subseteq Requests
  /\ window \subseteq Requests

\* An exec that was started and may still act, now or after a lost answer.
Unsettled(r, s) == x[r][s] \in {"running", "acted"}

\* BlockerOnDisk: while an exec may still act in the pane, the record on disk
\* is its operation's and names it pending (the exclusion of CONVERSATION.md
\* 8.1.4: whatever dies, times out or is declared by an operator meanwhile, the
\* file keeps the pane blocked).
BlockerOnDisk ==
  \A r \in Requests, s \in Step :
    Unsettled(r, s) => disk.req = r /\ disk.ex[s] = "pending"

\* AtMostOnce: two requests with one clientMessageId never both type, whatever
\* retry, crash, lost answer or late release lies between them.
AtMostOnce ==
  \A r, q \in Requests :
    r # q /\ id[r] = id[q] => typed[r] = {} \/ typed[q] = {}

\* FailedStays: an id once answered `failed` is never answered, nor logged, as
\* handed to the CLI (rule 9: a 502 never turns into a 202).
Reached == {"delivered", "unconfirmed"}
FailedStays ==
  \A r, q \in Requests :
    id[r] = id[q] /\ "failed" \in {answer[r], logged[r]} =>
      answer[q] \notin Reached /\ logged[q] \notin Reached

\* FailedNotEntered: an operation released as failed has not submitted its
\* text, while its container is the session's (rule 6: only evidence settles).
FailedNotEntered ==
  \A r \in Requests :
    logged[r] = "failed" /\ on[r] = cont => Enter \notin typed[r]

\* AckHonoured: CONVERSATION.md 8.1.4, rule 6: a valid ack that arrives while
\* effects are pending decides `delivered`; so no operation whose prompt the CLI
\* reported is released as failed.
AckHonoured == \A r \in prompted : logged[r] # "failed"

\* ExecutorEnds: an exec Docker never answers does not keep the pane lock: T_http
\* ends the active phase, and the record goes on blocking the pane.
ExecutorEnds ==
  \A r \in Requests : pc[r] \in Announced /\ lock = r ~> lock # r

\* RequestAnswered: once past the recovery a request is answered, though its
\* preconditions, its execs and its ack may hang.
RequestAnswered ==
  \A r \in Requests : pc[r] = "precond" ~> answer[r] # "none" \/ pc[r] = "done"
=============================================================================
