----------------------------- MODULE Bootstrap -----------------------------
(***************************************************************************)
(* The bootstrap of one session's first container: runAsyncBootstrap and   *)
(* its teardown, BootstrapBroadcaster and drainInFlightBootstraps of       *)
(* bootstrap.ts, the stage's exec (streamExec), the create, start, stop    *)
(* and delete routes that meet it, the bootstrap WebSocket, the shutdown   *)
(* of index.ts and the boot's reconcile.                                   *)
(*                                                                         *)
(* The run holds no lock until its teardown: verbs, clients, the timer and *)
(* the shutdown interleave with it at every await. The routes hold the     *)
(* session's lifecycle lock: `op` is the body that has it. A subscription  *)
(* and its replay are one step: the replay's microtask runs before any     *)
(* other callback can broadcast. Output chunks are numbered; `sent` is how *)
(* many the run has emitted. Left out: what a stage does, port mappings,   *)
(* a failing spawn's rollback, recreation and the conversation services.   *)
(***************************************************************************)
EXTENDS Integers, Sequences

CONSTANTS
  Clients,       \* clients of /ws/bootstrap
  Verbs,         \* lifecycle requests users may send
  MaxVerbs,      \* bound: how many
  MaxFaults,     \* bound: failing calls, crashes, containers that exit
  Stages,        \* how many blocking stages the pipeline has
  MaxChunks,     \* bound: chunks the stages emit
  BufferChunks,  \* chunks the broadcaster keeps (MAX_BUFFER_BYTES)
  LateCreate     \* whether a shutdown may find a create still running

ASSUME BootstrapAssumption ==
  /\ Verbs \subseteq {"start", "stop", "delete", "purge"}
  /\ {MaxVerbs, MaxFaults, MaxChunks} \subseteq Nat
  /\ {Stages, BufferChunks} \subseteq Nat \ {0}
  /\ LateCreate \in BOOLEAN

VARIABLES
  row,      \* D1: status, whether container_id is set, bootstrapped_at
  box,      \* the container under the session's name
  run,      \* the bootstrap run
  op,       \* the body that holds the lifecycle lock
  entry,    \* the broadcaster's entry of the session
  subs,     \* the clients' sockets and what each was sent
  server,   \* the backend process and what its shutdown awaits
  sent,     \* chunks emitted
  loose,    \* history: a failure the code only logs, or a killed process
  verbs, faults

vars == <<row, box, run, op, entry, subs, server, sent, loose, verbs, faults>>

IdleOp  == [kind |-> "none", pc |-> "idle", seen |-> "none"]
NoEntry == [on |-> FALSE, buf |-> <<>>, terminal |-> "none", gc |-> FALSE, to |-> {}, base |-> 0]
Outside == [st |-> "out", got |-> <<>>, ends |-> <<>>, from |-> 0]

Starting  == {"ready", "stage", "asking", "hook", "cut"}
Tearing   == {"persist", "flip", "wait", "kill", "tell"}
Finishing == {"mark", "launch", "keep", "done"}
InFlight  == run.pc \in Starting \cup Tearing \cup Finishing

TypeOK ==
  /\ row \in [status : {"none", "running", "stopped", "failed", "terminated"}, id : BOOLEAN, boot : BOOLEAN]
  /\ box \in {"none", "up", "down"}
  /\ run.pc \in {"none", "over", "dead"} \cup Starting \cup Tearing \cup Finishing
  /\ run.stage \in 1 .. Stages + 1 /\ run.abort \in {"no", "cap", "drain"}
  /\ run.verdict \in {"none", "done", "fail"}
  /\ op.kind = "kill" <=> run.pc = "kill"
  /\ entry.to \subseteq Clients /\ Len(entry.buf) <= BufferChunks
  /\ \A c \in Clients : subs[c].st \in {"out", "auth", "left", "in", "told", "gone"}
  /\ server.proc \in {"up", "closing", "down"} /\ server.awaits \in BOOLEAN
  /\ sent \in 0 .. MaxChunks + 1 /\ verbs \in 0 .. MaxVerbs /\ faults \in 0 .. MaxFaults

Init ==
  /\ row = [status |-> "running", id |-> FALSE, boot |-> FALSE]
  /\ box = "none"
  /\ run = [pc |-> "none", stage |-> 1, abort |-> "no", verdict |-> "none"]
  /\ op = [IdleOp EXCEPT !.kind = "create", !.pc = "act"]
  /\ entry = NoEntry
  /\ subs = [c \in Clients |-> Outside]
  /\ server = [proc |-> "up", awaits |-> FALSE]
  /\ sent = 0 /\ loose = FALSE /\ verbs = 0 /\ faults = 0

Fault   == faults < MaxFaults /\ faults' = faults + 1
NoFault == UNCHANGED faults
Alive   == server.proc # "down"
To(pc)  == run' = [run EXCEPT !.pc = pc]
Bound(a, b) == IF a > b THEN a ELSE b

-----------------------------------------------------------------------------
(* The broadcaster                                                          *)

Ensure == IF entry.on THEN entry ELSE [NoEntry EXCEPT !.on = TRUE, !.base = sent]

\* What the open sockets of `to` are sent; a terminal closes them.
Open(to) == {c \in to : subs[c].st = "in"}
Output(to, n) ==
  subs' = [c \in Clients |->
    IF c \in Open(to) THEN [subs[c] EXCEPT !.got = Append(@, n)] ELSE subs[c]]
Terminal(to, msg) ==
  subs' = [c \in Clients |->
    IF c \in Open(to) THEN [subs[c] EXCEPT !.ends = Append(@, msg), !.st = "told"] ELSE subs[c]]

Trim(buf) == IF Len(buf) > BufferChunks THEN Tail(buf) ELSE buf

\* broadcast(): buffered, trimmed at the head, and fanned out.
Broadcast ==
  LET e == Ensure IN
  /\ sent' = sent + 1
  /\ IF e.terminal # "none"
     THEN entry' = e /\ UNCHANGED subs
     ELSE /\ entry' = [e EXCEPT !.buf = Trim(Append(@, sent + 1))]
          /\ Output(e.to, sent + 1)

\* finish(): once, to every listener; the entry is kept for a while.
Finish(msg) ==
  LET e == Ensure IN
  IF e.terminal # "none"
  THEN entry' = e /\ UNCHANGED subs
  ELSE entry' = [e EXCEPT !.terminal = msg, !.gc = TRUE] /\ Terminal(e.to, msg)

\* Mutation: a subscriber that comes after the end is told only how it ended.
ReplayEnd(e, from) ==
  [st |-> IF e.terminal = "none" THEN "in" ELSE "told",
   got |-> IF e.terminal = "none" THEN e.buf ELSE <<>>,
   ends |-> IF e.terminal = "none" THEN <<>> ELSE <<e.terminal>>, from |-> from]

\* What a new subscriber is sent at once.
Replay(e, from) ==
  [st |-> IF e.terminal = "none" THEN "in" ELSE "told", got |-> e.buf,
   ends |-> IF e.terminal = "none" THEN <<>> ELSE <<e.terminal>>, from |-> from]

\* handleBootstrapWs: the ownership check, during which the socket may
\* close, then subscribe(). A socket that had closed by then is never
\* unsubscribed: its close event came before the handler.
Connect(c) ==
  /\ server.proc = "up" /\ subs[c].st = "out" /\ row.status # "none" /\ op.kind # "create"
  /\ subs' = [subs EXCEPT ![c].st = "auth"]
  /\ UNCHANGED <<row, box, run, op, entry, server, sent, loose, verbs, faults>>

Subscribe(c) ==
  LET e == Ensure IN
  /\ Alive /\ subs[c].st \in {"auth", "left"}
  /\ entry' = [e EXCEPT !.to = @ \cup {c}, !.gc = FALSE]
  /\ subs' = IF subs[c].st = "left" THEN [subs EXCEPT ![c].st = "gone"]
             ELSE [subs EXCEPT ![c] = Replay(e, Bound(e.base, sent - BufferChunks) + 1)]
  /\ UNCHANGED <<row, box, run, op, server, sent, loose, verbs, faults>>

Leave(c) ==
  /\ subs[c].st = "auth"
  /\ subs' = [subs EXCEPT ![c].st = "left"]
  /\ UNCHANGED <<row, box, run, op, entry, server, sent, loose, verbs, faults>>

\* The close event of a socket, by the client or after the terminal.
Unsubscribe(c) ==
  /\ Alive /\ subs[c].st \in {"in", "told"} /\ c \in entry.to
  /\ LET rest == entry.to \ {c} IN
     entry' = [entry EXCEPT !.to = rest, !.gc = @ \/ (entry.terminal # "none" /\ rest = {})]
  /\ subs' = [subs EXCEPT ![c].st = IF @ = "in" THEN "gone" ELSE @]
  /\ UNCHANGED <<row, box, run, op, server, sent, loose, verbs, faults>>

\* The retention timer fires.
Collect ==
  /\ Alive /\ entry.gc
  /\ entry' = NoEntry
  /\ UNCHANGED <<row, box, run, op, subs, server, sent, loose, verbs, faults>>

-----------------------------------------------------------------------------
(* The pipeline                                                             *)

\* A stage emits output.
Emit ==
  /\ Alive /\ run.pc \in {"ready", "hook", "launch"} /\ sent < MaxChunks
  /\ Broadcast
  /\ UNCHANGED <<row, box, run, op, server, loose, verbs, faults>>

\* waitForRuntimeReady ends, however it does, and the config is loaded.
RuntimeReady ==
  /\ Alive /\ run.pc = "ready"
  /\ \/ NoFault /\ To("stage")
     \/ Fault /\ run' = [run EXCEPT !.pc = "persist", !.verdict = "fail"]
  /\ UNCHANGED <<row, box, op, entry, subs, server, sent, loose, verbs>>

StageOver ==
  run' = [run EXCEPT !.stage = @ + 1, !.pc = IF run.stage = Stages THEN "mark" ELSE "stage"]
StageFails == run' = [run EXCEPT !.pc = "persist", !.verdict = "fail"]

\* An abort surfaces in a stage: its reason is a line of the log.
AbortSurfaces == StageFails /\ Broadcast

\* A stage is not configured, or throws before any request, or asks Docker
\* for its exec unless the signal was aborted by then.
BeginStage ==
  /\ Alive /\ run.pc = "stage"
  /\ \/ NoFault /\ StageOver /\ UNCHANGED <<entry, subs, sent>>
     \/ Fault /\ StageFails /\ UNCHANGED <<entry, subs, sent>>
     \/ NoFault /\ run.abort = "no" /\ To("asking") /\ UNCHANGED <<entry, subs, sent>>
     \/ NoFault /\ run.abort # "no" /\ AbortSurfaces
  /\ UNCHANGED <<row, box, op, server, loose, verbs>>

\* exec.start() answers, and only now the abort is listened to.
ExecStarts ==
  /\ Alive /\ run.pc = "asking"
  /\ IF box = "up" /\ row.id THEN To("hook") ELSE StageFails
  /\ NoFault
  /\ UNCHANGED <<row, box, op, entry, subs, server, sent, loose, verbs>>

\* The stream ends by itself: the exit code, unless an abort came meanwhile.
HookEnds ==
  /\ Alive /\ run.pc = "hook"
  /\ IF run.abort # "no" THEN AbortSurfaces /\ NoFault
     ELSE /\ \/ StageOver /\ NoFault
             \/ StageFails /\ (IF box = "up" THEN Fault ELSE NoFault)
          /\ UNCHANGED <<entry, subs, sent>>
  /\ UNCHANGED <<row, box, op, server, loose, verbs>>

StreamCut ==
  /\ Alive /\ run.pc = "cut" /\ AbortSurfaces
  /\ UNCHANGED <<row, box, op, server, loose, verbs, faults>>

\* The controller is aborted (once): a stream that listens is destroyed.
Aborted(reason) ==
  IF run.pc \in Starting /\ run.abort = "no"
  THEN [run EXCEPT !.abort = reason, !.pc = IF @ = "hook" THEN "cut" ELSE @]
  ELSE run

CapFires ==
  /\ Alive /\ run.pc \in Starting /\ run.abort = "no"
  /\ run' = Aborted("cap")
  /\ UNCHANGED <<row, box, op, entry, subs, server, sent, loose, verbs, faults>>

\* Every stage succeeded: markBootstrapped (a failure is only logged),
\* postStart and the probes, the log, and the terminal message.
Mark ==
  /\ Alive /\ run.pc = "mark" /\ run' = [run EXCEPT !.pc = "launch", !.verdict = "done"]
  /\ \/ NoFault /\ UNCHANGED loose
          /\ row' = [row EXCEPT !.boot = @ \/ row.status # "none"]
     \/ Fault /\ loose' = TRUE /\ UNCHANGED row
  /\ UNCHANGED <<box, op, entry, subs, server, sent, verbs>>

Launched ==
  /\ Alive /\ run.pc = "launch" /\ To("keep")
  /\ UNCHANGED <<row, box, op, entry, subs, server, sent, loose, verbs, faults>>

KeepLog ==
  /\ Alive /\ run.pc = "keep" /\ To("done")
  /\ UNCHANGED <<row, box, op, entry, subs, server, sent, loose, verbs, faults>>

TellDone ==
  /\ Alive /\ run.pc = "done" /\ To("over") /\ Finish("done")
  /\ UNCHANGED <<row, box, op, server, sent, loose, verbs, faults>>

-----------------------------------------------------------------------------
(* The teardown of a failed run                                             *)

\* persistLog, best-effort.
PersistLog ==
  /\ Alive /\ run.pc = "persist" /\ To("flip")
  /\ UNCHANGED <<row, box, op, entry, subs, server, sent, loose, verbs, faults>>

\* The status flip, without the lock and whatever the row says.
Flip ==
  /\ Alive /\ run.pc = "flip" /\ To("wait")
  /\ \/ NoFault /\ UNCHANGED loose
          /\ row' = IF row.status = "none" THEN row ELSE [row EXCEPT !.status = "failed"]
     \/ Fault /\ loose' = TRUE /\ UNCHANGED row
  /\ UNCHANGED <<box, op, entry, subs, server, sent, verbs>>

\* kill() under the lifecycle lock, or the wait for it expires.
TakeKill ==
  /\ Alive /\ run.pc = "wait" /\ op = IdleOp
  /\ To("kill") /\ op' = [IdleOp EXCEPT !.kind = "kill", !.pc = "act"]
  /\ UNCHANGED <<row, box, entry, subs, server, sent, loose, verbs, faults>>

WaitExpires ==
  /\ Alive /\ run.pc = "wait" /\ op # IdleOp /\ Fault
  /\ To("tell") /\ loose' = TRUE
  /\ UNCHANGED <<row, box, op, entry, subs, server, sent, verbs>>

\* Mutation: the rejection of kill() is not caught: nobody is told.
KillEndsSilently(ok) == To(IF ok THEN "tell" ELSE "over")

\* kill() settled: the run goes on to tell its clients either way.
KillEnds(ok) == To("tell")

KillAnswers ==
  /\ Alive /\ run.pc = "kill" /\ op' = IdleOp
  /\ \/ /\ NoFault /\ KillEnds(TRUE) /\ UNCHANGED loose
        /\ IF row.status = "none" THEN UNCHANGED <<row, box>>
           ELSE box' = "none" /\ row' = [row EXCEPT !.id = FALSE]
     \/ Fault /\ KillEnds(FALSE) /\ loose' = TRUE /\ UNCHANGED <<row, box>>
  /\ UNCHANGED <<entry, subs, server, sent, verbs>>

TellFail ==
  /\ Alive /\ run.pc = "tell" /\ To("over") /\ Finish("fail")
  /\ UNCHANGED <<row, box, op, server, sent, loose, verbs, faults>>

-----------------------------------------------------------------------------
(* The routes, under the lifecycle lock                                     *)

\* POST /sessions: the container is spawned, then the run is started and
\* not waited for.
CreateSpawns ==
  /\ Alive /\ op.kind = "create" /\ op.pc = "act"
  /\ box' = "up" /\ row' = [row EXCEPT !.id = TRUE] /\ op' = [op EXCEPT !.pc = "write"]
  /\ UNCHANGED <<run, entry, subs, server, sent, loose, verbs, faults>>

CreateReturns ==
  /\ Alive /\ op.kind = "create" /\ op.pc = "write"
  /\ To("ready") /\ op' = IdleOp
  /\ UNCHANGED <<row, box, entry, subs, server, sent, loose, verbs, faults>>

\* A verb takes the lock; start and delete read the row's status under it.
TakeVerb(kind) ==
  /\ server.proc = "up" /\ op = IdleOp /\ row.status # "none" /\ verbs < MaxVerbs
  /\ verbs' = verbs + 1
  /\ op' = IF kind = "start" /\ row.status = "failed" THEN IdleOp
           ELSE [kind |-> kind, pc |-> "act", seen |-> row.status]
  /\ UNCHANGED <<row, box, run, entry, subs, server, sent, loose, faults>>

\* Docker's part of a verb, or its refusal, which ends the verb.
VerbActs ==
  /\ Alive /\ op.kind \in Verbs /\ op.pc = "act"
  /\ \/ /\ NoFault /\ op' = [op EXCEPT !.pc = "write"]
        /\ CASE op.kind = "start" -> box' = "up" /\ row' = [row EXCEPT !.id = TRUE]
             [] op.kind = "stop"  -> /\ box' = IF box = "up" THEN "down" ELSE box
                                     /\ row' = [row EXCEPT !.id = @ \/ box # "none"]
             [] OTHER             -> box' = "none" /\ row' = [row EXCEPT !.id = FALSE]
     \/ Fault /\ op' = IdleOp /\ UNCHANGED <<row, box>>
  /\ UNCHANGED <<run, entry, subs, server, sent, loose, verbs>>

\* D1's part: the status. A delete of a row seen terminated has nothing to
\* write, and a hard delete goes on to the workspace.
VerbWrites ==
  /\ Alive /\ op.kind \in Verbs /\ op.pc = "write"
  /\ \/ /\ NoFault
        /\ op' = IF op.kind = "purge" THEN [op EXCEPT !.pc = "purge"] ELSE IdleOp
        /\ row' = CASE op.kind = "start" -> [row EXCEPT !.status = "running"]
                    [] op.kind = "stop"  -> [row EXCEPT !.status = "stopped", !.id = @ /\ box # "none"]
                    [] OTHER -> IF op.seen = "terminated" THEN row
                                ELSE [row EXCEPT !.status = "terminated"]
     \/ /\ op.kind \in {"start", "stop"} \/ op.seen # "terminated"
        /\ Fault /\ op' = IdleOp /\ UNCHANGED row
  /\ UNCHANGED <<box, run, entry, subs, server, sent, loose, verbs>>

\* purgeWorkspace of a hard delete: its failure keeps the row for a retry,
VerbPurges ==
  /\ Alive /\ op.kind = "purge" /\ op.pc = "purge"
  /\ \/ NoFault /\ op' = [op EXCEPT !.pc = "drop"]
     \/ Fault /\ op' = IdleOp
  /\ UNCHANGED <<row, box, run, entry, subs, server, sent, loose, verbs>>

\* and deleteRow ends it.
VerbDropsRow ==
  /\ Alive /\ op.kind = "purge" /\ op.pc = "drop" /\ op' = IdleOp
  /\ \/ NoFault /\ row' = [status |-> "none", id |-> FALSE, boot |-> FALSE]
     \/ Fault /\ UNCHANGED row
  /\ UNCHANGED <<box, run, entry, subs, server, sent, loose, verbs>>

\* The container exits by itself.
BoxExits ==
  /\ box = "up" /\ Fault /\ box' = "down"
  /\ UNCHANGED <<row, run, op, entry, subs, server, sent, loose, verbs>>

-----------------------------------------------------------------------------
(* Shutdown, death and boot                                                 *)

\* Every open socket is closed; the runs in flight now are aborted and
\* awaited.
Shutdown ==
  /\ server.proc = "up" /\ (LateCreate \/ op.kind # "create")
  /\ server' = [proc |-> "closing", awaits |-> InFlight]
  /\ run' = Aborted("drain")
  /\ subs' = [c \in Clients |->
       IF subs[c].st = "in" THEN [subs[c] EXCEPT !.st = "gone"]
       ELSE IF subs[c].st = "auth" THEN [subs[c] EXCEPT !.st = "left"] ELSE subs[c]]
  /\ entry' = [entry EXCEPT !.to = {}]
  /\ UNCHANGED <<row, box, op, sent, loose, verbs, faults>>

Dies ==
  /\ server' = [proc |-> "down", awaits |-> FALSE]
  /\ run' = [run EXCEPT !.pc = IF InFlight THEN "dead" ELSE @]
  /\ op' = IdleOp /\ entry' = NoEntry
  /\ subs' = [c \in Clients |->
       IF subs[c].st \in {"in", "auth", "left"} THEN [subs[c] EXCEPT !.st = "gone"] ELSE subs[c]]
  /\ UNCHANGED <<row, box, sent, verbs>>

\* Mutation: the exit does not wait for the drain.
NothingAwaited == TRUE

\* drainInFlightBootstraps() settled.
Drained == server.awaits => ~InFlight

\* Every request was answered and the drain settled.
Exit ==
  /\ server.proc = "closing" /\ op = IdleOp /\ Drained /\ Dies
  /\ UNCHANGED <<loose, faults>>

\* The watchdog, or a kill of the process.
Killed ==
  /\ Alive /\ Fault /\ Dies /\ loose' = TRUE

\* The next boot reconciles the row before it serves anything.
Boot ==
  /\ server.proc = "down" /\ server' = [server EXCEPT !.proc = "up"]
  /\ row' = IF row.status # "running" \/ (row.id /\ box = "up") THEN row
            ELSE [row EXCEPT !.status = "stopped", !.id = @ /\ box # "none"]
  /\ UNCHANGED <<box, run, op, entry, subs, sent, loose, verbs, faults>>

-----------------------------------------------------------------------------
RunStep ==
  \/ RuntimeReady \/ BeginStage \/ ExecStarts \/ StreamCut \/ CapFires
  \/ Mark \/ Launched \/ KeepLog \/ TellDone
  \/ PersistLog \/ Flip \/ TakeKill \/ KillAnswers \/ TellFail
BodyStep ==
  \/ CreateSpawns \/ CreateReturns
  \/ VerbActs \/ VerbWrites \/ VerbPurges \/ VerbDropsRow

Next ==
  \/ RunStep \/ BodyStep \/ Emit \/ HookEnds \/ WaitExpires
  \/ \E c \in Clients : Connect(c) \/ Subscribe(c) \/ Leave(c) \/ Unsubscribe(c)
  \/ Collect \/ BoxExits \/ Shutdown \/ Exit \/ Killed \/ Boot
  \/ \E kind \in Verbs : TakeVerb(kind)

Spec == Init /\ [][Next]_vars

\* Docker and D1 answer what they are asked and the armed timer fires. A
\* hook need not end; nobody need come, leave or shut the server down.
FairSpec == Spec /\ WF_vars(RunStep) /\ WF_vars(BodyStep)

-----------------------------------------------------------------------------
\* Unless the process was killed or a step failed that the code can only log,
\* no session is left running and never bootstrapped with no run that will
\* finish it or take it down; above all not by a shutdown that ended by itself.
NotStranded ==
  row.status = "running" /\ ~row.boot /\ box = "up" => InFlight \/ op # IdleOp \/ loose

Chunks(from) == [i \in 1 .. Bound(sent - from + 1, 0) |-> from + i - 1]

\* A client gets, whenever it joins, what the buffer held and all that comes
\* after, in order and once, and then how the run ended, once.
WholeLog ==
  \A c \in Clients :
    /\ subs[c].st = "in" => subs[c].got = Chunks(subs[c].from) /\ subs[c].ends = <<>>
    /\ subs[c].st = "told" => subs[c].got = Chunks(subs[c].from) /\ subs[c].ends = <<run.verdict>>

\* A run whose stages are over, or that was cut, ends, whatever fails in its
\* teardown and whoever has the lock, and every client still there is told.
RunEndsTold ==
  \A c \in Clients :
    (run.pc \in Tearing \cup Finishing \cup {"cut"} /\ subs[c].st = "in") ~> subs[c].st # "in"

\* A session whose bootstrap failed runs no container again.
FailedNeverRuns == run.pc = "over" /\ run.verdict = "fail" /\ ~loose => box # "up"

\* The wall-clock cap ends every run.
CapEndsRun == InFlight ~> (~InFlight \/ server.proc # "up")
=============================================================================
