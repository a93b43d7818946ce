------------------------------ MODULE Recreate ------------------------------
(***************************************************************************)
(* backend/src/recreate/engine.ts: the recreation of one session's         *)
(* container, with the durable record (AttemptRecord), Docker, the D1 row, *)
(* the session's lifecycle lock and the process that may die.              *)
(*                                                                         *)
(* An attempt is at a point `at[a]`; a point of DockerPoints means the     *)
(* request OpAt(a) is out and unanswered. When the epoch closes (T_rec, a  *)
(* failure, shutdown) the request still out moves to late[a]; when the     *)
(* process dies it becomes a zombie, which Docker may still apply. A D1    *)
(* commit whose answer was lost is in limbo until it applies or dies.      *)
(*                                                                         *)
(* Left out, because no property here tells them apart: the layer, skill   *)
(* and image preconditions (a precondition is a guard that may refuse),    *)
(* execs in N (a step that may fail), port mappings, the status column and *)
(* the capture files other than defer-skill-seed.                          *)
(***************************************************************************)
EXTENDS AttemptRecord

CONSTANTS
  MaxFaults,      \* bound: failing answers, lost answers, failing writes
  MaxCrashes,     \* bound: process deaths
  MaxByHand,      \* bound: `docker start` typed by a person
  SyncFaults,     \* a record write may fail after its rename
  EarlyRecovery   \* the operator may recover while the dead process's
                  \* requests and statements can still apply

ASSUME RecreateAssumption ==
  /\ MaxFaults \in Nat /\ MaxCrashes \in Nat /\ MaxByHand \in Nat
  /\ SyncFaults \in BOOLEAN /\ EarlyRecovery \in BOOLEAN

VARIABLES
  cst, cname,                 \* Docker: state and name of each container
  cid, hash, wanted, gone,    \* D1 row: container_id, whose token hash is
                              \* authorized, conversation_requested, deleted
  rec, hist, marker,          \* disk: record, its history, defer-skill-seed
  up, stopped, own, lock, adm, started,
                              \* process: listening, stop() called, attempts
                              \* owned, lock holder, approve's progress,
                              \* attempts begun
  plan, at, mode, late,       \* engine: one entry per attempt
  limbo, zombies,             \* commits and requests nobody waits for
  faults, crashes, byHand     \* bounds used up

docker == <<cst, cname>>
row    == <<cid, hash, wanted, gone>>
disk   == <<rec, hist, marker>>
proc   == <<up, stopped, started>>
engine == <<own, lock, adm, plan, at, mode, late>>
wire   == <<limbo, zombies>>
spent  == <<faults, crashes, byHand>>
vars   == <<docker, row, disk, proc, engine, wire, spent>>

-----------------------------------------------------------------------------
\* Names: the canonical one, and per attempt the -old-<ts> of the container
\* replaced, the -new-<ts> of the one created, and the -old-<now> a reverse
\* attempt parks the retained container under.
Canonical   == 0
OldName(a)  == a
TempName(a) == MaxAttempts + a
UndoName(a) == 2 * MaxAttempts + a
Names       == 0..(3 * MaxAttempts)

Admin == MaxAttempts + 1   \* the lock while approve() holds it

Kinds == {"create", "rename", "start", "stop", "remove"}
Ops   == [kind : Kinds, c : 0..(MaxAttempts + 1), name : Names, att : 0..MaxAttempts]
NoOp  == [kind |-> "none", c |-> 0, name |-> 0, att |-> 0]
Op(kind, c, name, a) == [kind |-> kind, c |-> c, name |-> name, att |-> a]

\* What an attempt keeps in memory; deaf: its epoch was opened after stop()
\* ran, which therefore never closed it.
NoPlan == [o |-> 0, n |-> 0, carry |-> FALSE, reverse |-> FALSE, deaf |-> FALSE]
PlanOf(o, n, carry, reverse) ==
  [NoPlan EXCEPT !.o = o, !.n = n, !.carry = carry, !.reverse = reverse]

\* The points of an attempt: recreateLocked and complete (main flow), the
\* resolution passes, and the ends.
BeforeCommit == {"prepare", "create", "furnish", "renameO", "renameN", "startN", "ready"}
AfterCommit  == {"unmark", "removeO", "check"}
ToOPoints    == {"stopN", "removeN", "nameO", "unmarkO"}
ToNPoints    == {"dropO", "convergeN", "recheckN"}
ReversePoints == {"parkN", "nameBack", "recheckBack", "parkO", "nameN", "recheckUndo"}
RecordPoints == {"recordO", "recordN", "recordBack", "recordUndo"}
PassPoints   == {"read"} \cup ToOPoints \cup ToNPoints \cup ReversePoints \cup RecordPoints
Points == {"off", "begin", "cas", "settle", "stuck"}
            \cup BeforeCommit \cup AfterCommit \cup PassPoints

\* Who is waiting for the pass: the main flow itself ("main"), rollback()
\* for T_rb ("await"), rollbackToRetained ("sync"), nobody ("live"), or
\* recover() ("recover").
Modes == {"main", "await", "sync", "live", "recover"}

\* The Docker request out at each point.
RequestPoints == {"create", "renameO", "renameN", "startN", "removeO", "stopN",
                  "removeN", "nameO", "dropO", "parkN", "nameBack", "parkO", "nameN"}
OpAt(a) ==
  LET o == plan[a].o  n == plan[a].n  p == at[a] IN
  CASE p = "create"  -> Op("create", n, TempName(a), a)
    [] p \in {"renameO", "parkN"} -> Op("rename", o, OldName(a), a)
    [] p \in {"renameN", "nameBack"} -> Op("rename", n, Canonical, a)
    [] p = "startN"  -> Op("start", n, 0, a)
    [] p \in {"removeO", "dropO"} -> Op("remove", o, 0, a)
    [] p = "stopN"   -> Op("stop", n, 0, a)
    [] p = "removeN" -> Op("remove", n, 0, a)
    [] p \in {"nameO", "nameN"} -> Op("rename", o, Canonical, a)
    [] p = "parkO"   -> Op("rename", n, UndoName(a), a)
    [] OTHER -> NoOp

Exists(c)  == c \in Containers /\ cst[c] # "absent"
Running(c) == c \in Containers /\ cst[c] = "running"

-----------------------------------------------------------------------------
(* Docker, as the engine's port uses it. 304 and 404 count as done for stop *)
(* and remove; remove is not forced, so a running container refuses it.     *)

Accepts(op) ==
  CASE op.kind = "create" -> ~Exists(op.c) /\ \A d \in Containers : Exists(d) => cname[d] # op.name
    [] op.kind = "rename" -> Exists(op.c) /\ \A d \in Containers : Exists(d) => cname[d] # op.name
    [] op.kind = "start"  -> cst[op.c] = "stopped"
    [] op.kind = "stop"   -> TRUE
    [] op.kind = "remove" -> ~Running(op.c)
    [] OTHER -> FALSE

\* The state a request leaves a container in.
After(kind, st) ==
  CASE kind = "create" -> "stopped"
    [] kind = "start"  -> "running"
    [] kind = "stop" /\ st = "running" -> "stopped"
    [] kind = "remove" -> "absent"
    [] OTHER -> st

Effect(op) ==
  /\ cst' = [cst EXCEPT ![op.c] = After(op.kind, @)]
  /\ cname' = IF op.kind \in {"create", "rename"}
              THEN [cname EXCEPT ![op.c] = op.name] ELSE cname

Fault == faults < MaxFaults /\ faults' = faults + 1 /\ UNCHANGED <<crashes, byHand>>
NoFault == UNCHANGED spent

\* An answer: the effect and "ok", or an error, with the effect or without.
Answer(op, ok) ==
  \/ ok /\ Accepts(op) /\ Effect(op) /\ NoFault
  \/ ~ok /\ ~Accepts(op) /\ UNCHANGED docker /\ NoFault
  \/ ~ok /\ Accepts(op) /\ Fault /\ (Effect(op) \/ UNCHANGED docker)

-----------------------------------------------------------------------------
Init ==
  /\ cst = [c \in Containers |-> IF c = 1 THEN "stopped" ELSE "absent"]
  /\ cname = [c \in Containers |-> Canonical]
  /\ cid = 1 /\ hash \in {0, 1} /\ wanted = TRUE /\ gone = FALSE
  /\ rec = NoRecord /\ hist = [a \in Attempts |-> "none"] /\ marker = FALSE
  /\ up = TRUE /\ stopped = FALSE /\ own = {} /\ lock = 0 /\ adm = "none" /\ started = 0
  /\ plan = [a \in Attempts |-> NoPlan] /\ at = [a \in Attempts |-> "off"]
  /\ mode = [a \in Attempts |-> "live"] /\ late = [a \in Attempts |-> NoOp]
  /\ limbo = [a \in Attempts |-> FALSE] /\ zombies = {}
  /\ faults = 0 /\ crashes = 0 /\ byHand = 0

\* Control moves of an attempt.
Go(a, p) == at' = [at EXCEPT ![a] = p] /\ UNCHANGED <<own, lock, adm, plan, mode, late>>
Leave(a, p, m, op, l) ==
  /\ at' = [at EXCEPT ![a] = p]
  /\ mode' = [mode EXCEPT ![a] = m]
  /\ late' = [late EXCEPT ![a] = op]
  /\ lock' = l
  /\ UNCHANGED <<own, adm, plan>>

\* markUncertain(): refused by the store unless the record is this
\* attempt's, open and owned; a refusal is logged and changes nothing.
MarkUncertain(a) ==
  /\ rec' = IF MayMarkUncertain(rec, a, own) THEN UncertainRec(rec) ELSE rec
  /\ UNCHANGED <<hist, marker>>

\* A pass acts under its lease and never once stop() ran; the main flow,
\* while its epoch is open.
MayAct(a) == lock = a /\ ~stopped
EpochOpen(a) == ~stopped \/ plan[a].deaf

\* Mutation: a pass does not wait for the answers, nor for T_d1.
AnsweredOrNot(a) == TRUE
FinalAtOnce(a)   == TRUE

\* No request of the attempt is unanswered; its commit can no longer apply.
Answered(a)    == late[a] = NoOp
FinalCommit(a) == ~limbo[a]

\* A step of the main flow failed or ran out of time, with `op` still out:
\* rollback() keeps the lock and waits for a pass; a reverse attempt marks
\* the record and returns.
Abandon(a, op) ==
  IF plan[a].reverse
  THEN MarkUncertain(a) /\ Leave(a, "settle", "live", op, 0)
  ELSE UNCHANGED disk /\ Leave(a, "settle", "await", op, lock)

\* Mutation: a commit that did not converge is recorded as done.
NotConvergedDone(a, op) ==
  /\ rec' = ResolvedRec(rec, "committed", 0, "-") /\ UNCHANGED <<hist, marker>>
  /\ Leave(a, "settle", "live", op, 0)

\* Committed but not converged: the record goes uncertain, the lock goes.
NotConverged(a, op) == MarkUncertain(a) /\ Leave(a, "settle", "live", op, 0)

\* Mutation: the pass keeps the lock it took.
PassKeepsLock(a, p) == Leave(a, p, "live", NoOp, lock)

\* A pass ended without resolving ("retry", or "stuck" with no next pass).
\* recover() makes up to three passes and then forgets the attempt: how many
\* of them are left is not tracked.
PassGoes(a, p) ==
  CASE mode[a] = "await" -> Leave(a, p, "live", NoOp, 0)
    [] mode[a] = "recover" ->
         \/ p = "settle" /\ ~stopped /\ Leave(a, "read", "recover", NoOp, lock)
         \/ Leave(a, "off", "live", NoOp, 0)
    [] OTHER -> Leave(a, p, "live", NoOp, IF lock = a THEN 0 ELSE lock)
PassEnds(a, p) ==
  /\ IF mode[a] = "await" THEN MarkUncertain(a) ELSE UNCHANGED disk
  /\ PassGoes(a, p)
Retry(a) == PassEnds(a, "settle")
Stuck(a) == PassEnds(a, "stuck")

-----------------------------------------------------------------------------
(* recreate() and rollbackToRetained()                                      *)

Quiet == \A a \in Attempts : ~limbo[a]
Settled == Quiet /\ zombies = {}
OperatorMay == EarlyRecovery \/ Settled

Admit(a) ==
  /\ up /\ ~stopped /\ ~gone /\ lock = 0 /\ a = started + 1 /\ GateOpen(rec)
  /\ lock' = a /\ started' = a /\ at' = [at EXCEPT ![a] = "begin"]
  /\ mode' = [mode EXCEPT ![a] = "main"]
  /\ UNCHANGED <<docker, row, disk, up, stopped, own, adm, late, wire, spent>>

\* Preconditions 2-8 under the lock: O is D1's container, present and
\* stopped, nothing is retained, capture is requested.
Recreate(a, preserve) ==
  /\ Admit(a)
  /\ Exists(cid) /\ ~Running(cid) /\ rec.retained = 0 /\ wanted
  /\ plan' = [plan EXCEPT ![a] = PlanOf(cid, NewOf(a), preserve, FALSE)]

\* Both containers present and stopped, the retained one an O.
RollbackToRetained(a) ==
  /\ Admit(a) /\ OperatorMay
  /\ rec.retained # 0 /\ rec.role = "O"
  /\ cid # rec.retained
  /\ Exists(cid) /\ ~Running(cid) /\ Exists(rec.retained) /\ ~Running(rec.retained)
  /\ plan' = [plan EXCEPT ![a] = PlanOf(cid, rec.retained, FALSE, TRUE)]

\* Shut down, or (recreate only) T_rec over, while waiting for the audit row.
BeginNotNow(a) ==
  /\ at[a] = "begin" /\ (stopped \/ ~plan[a].reverse)
  /\ Leave(a, "off", "live", NoOp, 0)
  /\ UNCHANGED <<docker, row, disk, proc, wire, spent>>

NewRecord(a) == BeginRec(a, plan[a].o, plan[a].n, plan[a].carry, plan[a].reverse)

\* begin(): owned before the write; the previous outcome goes to history.
Begin(a) ==
  /\ at[a] = "begin" /\ MayBegin(rec)
  /\ rec' = NewRecord(a)
  /\ hist' = IF rec.st = "resolved" THEN [hist EXCEPT ![rec.att] = rec.out] ELSE hist
  /\ own' = own \cup {a}
  /\ \* stop() ran while the record was written: a recreation stays open and
     \* issues nothing; a rollback to the retained container does not look.
     IF stopped /\ ~plan[a].reverse
     THEN /\ at' = [at EXCEPT ![a] = "off"] /\ lock' = 0
          /\ UNCHANGED plan
     ELSE /\ at' = [at EXCEPT ![a] = IF plan[a].reverse THEN "renameO" ELSE "prepare"]
          /\ plan' = [plan EXCEPT ![a].deaf = stopped]
          /\ UNCHANGED lock
  /\ UNCHANGED <<docker, row, marker, proc, adm, mode, late, wire, spent>>

\* The write failed: before its rename nothing is on disk; after it the
\* attempt resolves itself as rolled back, having done nothing, unless that
\* write fails too or stop() ran: then the record stays open.
BeginFails(a) ==
  /\ at[a] = "begin" /\ MayBegin(rec) /\ Fault
  /\ \/ UNCHANGED <<rec, hist>> /\ own' = own \cup {a}
     \/ /\ SyncFaults
        /\ hist' = IF rec.st = "resolved" THEN [hist EXCEPT ![rec.att] = rec.out] ELSE hist
        /\ \/ rec' = NewRecord(a) /\ own' = own \cup {a}
           \/ /\ ~stopped \/ plan[a].reverse
              /\ rec' = ResolvedRec(NewRecord(a), "rolled-back", 0, "-") /\ own' = own
  /\ at' = [at EXCEPT ![a] = "off"] /\ lock' = 0
  /\ UNCHANGED <<docker, row, marker, proc, adm, plan, mode, late, wire>>

\* Mutation: the marker is left out.
DeferNothing == marker' = marker
DeferSeed == marker' = TRUE

\* prepare(): the defer marker is written before N exists; whatever else
\* fails in it, before or after the marker, abandons the attempt.
Prepare(a) ==
  /\ at[a] = "prepare" /\ ~stopped
  /\ \/ DeferSeed /\ Go(a, "create") /\ UNCHANGED <<rec, hist>> /\ NoFault
     \/ /\ Fault /\ (DeferSeed \/ UNCHANGED marker) /\ UNCHANGED <<rec, hist>>
        /\ Leave(a, "settle", "await", NoOp, lock)
  /\ UNCHANGED <<docker, row, proc, wire>>

\* What follows an answered request of the main flow. O must still be
\* stopped when N's start goes out; a rename error abandons.
NextMain(a) ==
  CASE at[a] = "create"  -> "furnish"
    [] at[a] = "renameO" -> "renameN"
    [] at[a] = "renameN" -> IF plan[a].reverse THEN "cas" ELSE "startN"
    [] at[a] = "startN"  -> "ready"
    [] OTHER -> "off"

MainRequest(a) ==
  /\ at[a] \in BeforeCommit \cap RequestPoints /\ EpochOpen(a)
  /\ \E ok \in BOOLEAN :
       /\ Answer(OpAt(a), ok)
       /\ IF ok /\ ~(NextMain(a) = "startN" /\ (Running(plan[a].o) \/ ~Exists(plan[a].o)))
          THEN Go(a, NextMain(a)) /\ UNCHANGED disk
          ELSE Abandon(a, NoOp)
  /\ UNCHANGED <<row, proc, wire>>

\* The rest of prepare() (the pin, the skills, the copies of a carry-over)
\* and the readiness poll: reads, copies and execs, which only succeed or
\* fail. N must be there, and for readiness be running.
MainCheck(a) ==
  /\ at[a] \in {"furnish", "ready"} /\ ~stopped
  /\ LET good == IF at[a] = "furnish" THEN Exists(plan[a].n) ELSE Running(plan[a].n) IN
     \/ good /\ NoFault /\ UNCHANGED disk
          /\ Go(a, IF at[a] = "furnish" THEN "renameO" ELSE "cas")
     \/ (IF good THEN Fault ELSE NoFault) /\ Abandon(a, NoOp)
  /\ UNCHANGED <<docker, row, proc, wire>>

\* T_rec, or stop() closing the epoch: the request out is only no longer
\* waited for; the marker may be on disk by then.
Deadline(a) ==
  /\ \/ at[a] \in BeforeCommit /\ Abandon(a, OpAt(a))
     \/ /\ at[a] = "prepare" /\ (DeferSeed \/ UNCHANGED marker) /\ UNCHANGED <<rec, hist>>
        /\ Leave(a, "settle", "await", NoOp, lock)
     \/ at[a] \in AfterCommit /\ NotConverged(a, OpAt(a))
  /\ UNCHANGED <<docker, row, proc, wire, spent>>

\* The late answer of an abandoned request: evidence, and no continuation.
LateAnswer(a) ==
  /\ late[a] # NoOp
  /\ \E ok \in BOOLEAN : Answer(late[a], ok)
  /\ late' = [late EXCEPT ![a] = NoOp]
  /\ UNCHANGED <<row, disk, proc, own, lock, adm, plan, at, mode, wire>>

\* T_rb: rollback() stops waiting, marks the record and lets the lock go;
\* a pass in progress goes on to its next action without a lease.
RollbackTimeout(a) ==
  /\ mode[a] = "await" /\ lock = a
  /\ MarkUncertain(a)
  /\ mode' = [mode EXCEPT ![a] = "live"] /\ lock' = 0
  /\ UNCHANGED <<docker, row, proc, own, adm, plan, at, late, wire, spent>>

-----------------------------------------------------------------------------
(* The commit: one D1 statement, conditional on the row.                    *)

\* Mutation: without conversation_requested.
AppliesDisabled(a) == ~gone /\ cid = plan[a].o
CommitApplies(a) ==
  ~gone /\ cid = plan[a].o /\ (plan[a].reverse \/ wanted)

\* cas(): N and its hash together. casBack(): the retained container has no
\* token, so the hash goes.
CommitEffect(a) ==
  /\ cid' = plan[a].n
  /\ hash' = IF plan[a].reverse THEN 0 ELSE plan[a].n
  /\ UNCHANGED <<wanted, gone>>

CommitApplied(a) ==
  /\ at[a] = "cas" /\ CommitApplies(a) /\ CommitEffect(a)
  /\ IF plan[a].reverse
     THEN Leave(a, "settle", "sync", NoOp, lock) /\ UNCHANGED disk
     ELSE IF stopped THEN NotConverged(a, NoOp)
     ELSE Go(a, "unmark") /\ UNCHANGED disk
  /\ UNCHANGED <<docker, proc, wire, spent>>

\* 0 rows, or an answer that says the statement failed.
CommitNotApplied(a) ==
  /\ at[a] = "cas"
  /\ IF CommitApplies(a) THEN Fault ELSE NoFault
  /\ Leave(a, "settle", IF plan[a].reverse THEN "sync" ELSE "await", NoOp, lock)
  /\ UNCHANGED <<docker, row, disk, proc, wire>>

\* No answer: it applied, or it may still apply until T_d1.
CommitAmbiguous(a) ==
  /\ at[a] = "cas" /\ Fault
  /\ \/ CommitApplies(a) /\ CommitEffect(a) /\ UNCHANGED limbo
     \/ UNCHANGED row /\ limbo' = [limbo EXCEPT ![a] = TRUE]
  /\ NotConverged(a, NoOp)
  /\ UNCHANGED <<docker, proc, zombies>>

LimboEnds(a) ==
  /\ limbo[a] /\ limbo' = [limbo EXCEPT ![a] = FALSE]
  /\ (CommitApplies(a) /\ CommitEffect(a)) \/ UNCHANGED row
  /\ UNCHANGED <<docker, disk, proc, engine, zombies, spent>>

\* complete(): step 6 goes on past a failed item; the check re-observes.
Unmark(a) ==
  /\ at[a] = "unmark" /\ ~stopped
  /\ \/ marker' = FALSE /\ NoFault
     \/ UNCHANGED marker /\ Fault
  /\ Go(a, IF plan[a].carry THEN "check" ELSE "removeO")
  /\ UNCHANGED <<docker, row, rec, hist, proc, wire>>

RemoveO(a) ==
  /\ at[a] = "removeO" /\ ~stopped
  /\ \E ok \in BOOLEAN :
       /\ Answer(OpAt(a), ok)
       /\ IF ok THEN Go(a, "check") /\ UNCHANGED disk ELSE NotConverged(a, NoOp)
  /\ UNCHANGED <<row, proc, wire>>

\* Mutation: the marker is not looked at again.
ConvergedUnmarked(a) ==
  /\ ~gone /\ cid = plan[a].n
  /\ IF plan[a].carry THEN Exists(plan[a].o) /\ ~Running(plan[a].o) ELSE ~Exists(plan[a].o)

\* What convergedOnN and the end of resolveToN see again.
ConvergedOnN(a) ==
  /\ ~gone /\ cid = plan[a].n
  /\ IF plan[a].carry THEN Exists(plan[a].o) /\ ~Running(plan[a].o) ELSE ~Exists(plan[a].o)
  /\ ~marker

Check(a) ==
  /\ at[a] = "check" /\ ~stopped
  /\ IF ConvergedOnN(a) THEN Go(a, "recordN") /\ UNCHANGED disk ELSE NotConverged(a, NoOp)
  /\ UNCHANGED <<docker, row, proc, wire, spent>>

-----------------------------------------------------------------------------
(* Resolution passes                                                        *)

\* settled(), T_d1 after an ambiguous commit, then the lock: the lease of a
\* main flow still waiting, or recreate-resolve.
StartPass(a) ==
  /\ at[a] = "settle" /\ Answered(a) /\ FinalCommit(a) /\ ~stopped
  /\ IF mode[a] \in {"await", "sync"} THEN lock = a ELSE lock = 0
  /\ lock' = a /\ at' = [at EXCEPT ![a] = "read"]
  /\ UNCHANGED <<docker, row, disk, proc, own, adm, plan, mode, late, wire, spent>>

\* Shutting down: no pass; a rollback() still waiting marks and returns.
PassRefused(a) ==
  /\ at[a] = "settle" /\ stopped /\ mode[a] \in {"await", "sync"} /\ Answered(a)
  /\ Retry(a)
  /\ UNCHANGED <<docker, row, proc, wire, spent>>

\* The lease was lost under the pass: it stops before its next action.
LeaseLost(a) ==
  /\ at[a] \in PassPoints \ RequestPoints /\ ~MayAct(a)
  /\ Retry(a)
  /\ UNCHANGED <<docker, row, proc, wire, spent>>

\* Mutation: O keeps its -old- name.
AfterNUnnamed(a) == IF ~Exists(plan[a].o) THEN "stuck" ELSE "unmarkO"

\* Once N is gone: O must be there, and under its name.
AfterN(a) ==
  IF ~Exists(plan[a].o) THEN "stuck"
  ELSE IF cname[plan[a].o] # Canonical THEN "nameO" ELSE "unmarkO"

\* resolveOnce: D1 decides the row of the table, then the first action of it.
FirstAct(a) ==
  LET o == plan[a].o  n == plan[a].n IN
  CASE gone \/ cid \notin {o, n} -> "stuck"
    [] plan[a].reverse /\ cid = n ->
         IF ~Exists(n) THEN "stuck"
         ELSE IF Exists(o) /\ cname[o] # OldName(a) THEN "parkN"
         ELSE IF cname[n] # Canonical THEN "nameBack" ELSE "recheckBack"
    [] plan[a].reverse /\ cid = o ->
         IF Exists(n) /\ cname[n] = Canonical THEN "parkO"
         ELSE IF Exists(o) /\ cname[o] # Canonical THEN "nameN" ELSE "recheckUndo"
    [] ~plan[a].reverse /\ cid = o ->
         IF Running(n) THEN "stopN" ELSE IF Exists(n) THEN "removeN" ELSE AfterN(a)
    [] OTHER ->
         IF Running(o) THEN "retry"
         ELSE IF Exists(o) /\ ~plan[a].carry THEN "dropO"
         ELSE IF Exists(n) THEN "convergeN" ELSE "stuck"

\* A pass moves to its next action, or ends.
MoveOn(a, p) ==
  CASE p = "retry" -> Retry(a)
    [] p = "stuck" -> Stuck(a)
    [] OTHER -> UNCHANGED disk /\ Go(a, p)

ReadRow(a) ==
  /\ at[a] = "read" /\ MayAct(a)
  /\ MoveOn(a, FirstAct(a))
  /\ UNCHANGED <<docker, row, proc, wire, spent>>

\* What a pass does after an answer. The reverse renames ignore errors and
\* let the re-observation judge.
NextPass(a, ok) ==
  LET o == plan[a].o  n == plan[a].n IN
  CASE at[a] = "parkN" -> IF cname[n] # Canonical THEN "nameBack" ELSE "recheckBack"
    [] at[a] = "nameBack" -> "recheckBack"
    [] at[a] = "parkO" -> IF Exists(o) /\ cname[o] # Canonical THEN "nameN" ELSE "recheckUndo"
    [] at[a] = "nameN" -> "recheckUndo"
    [] OTHER -> IF ~ok THEN "retry"
                ELSE CASE at[a] = "stopN" -> "removeN"
                       [] at[a] = "removeN" -> AfterN(a)
                       [] at[a] = "nameO" -> "unmarkO"
                       [] OTHER -> IF Exists(n) THEN "convergeN" ELSE "stuck"

PassRequest(a) ==
  /\ at[a] \in PassPoints \cap RequestPoints
  /\ \E ok \in BOOLEAN :
       /\ Answer(OpAt(a), ok)
       /\ IF MayAct(a) THEN MoveOn(a, NextPass(a, ok)) ELSE Retry(a)
  /\ UNCHANGED <<row, proc, wire>>

\* Only with N confirmed gone: the defer marker goes, O's files converge.
UnmarkO(a) ==
  /\ at[a] = "unmarkO" /\ MayAct(a)
  /\ \/ marker' = FALSE /\ Go(a, "recordO") /\ UNCHANGED <<rec, hist>> /\ NoFault
     \/ Fault /\ Retry(a)
  /\ UNCHANGED <<docker, row, proc, wire>>

ConvergeN(a) ==
  /\ at[a] = "convergeN" /\ MayAct(a)
  /\ \/ marker' = FALSE /\ Go(a, "recheckN") /\ UNCHANGED <<rec, hist>> /\ NoFault
     \/ Fault /\ Retry(a)
  /\ UNCHANGED <<docker, row, proc, wire>>

\* Seen again before resolving.
Recheck(a) ==
  /\ MayAct(a)
  /\ LET o == plan[a].o  n == plan[a].n IN
     \/ at[a] = "recheckN" /\
        MoveOn(a, IF ConvergedOnN(a) /\ Exists(n) THEN "recordN" ELSE "retry")
     \/ at[a] = "recheckBack" /\
        MoveOn(a, IF ~gone /\ cid = n /\ Exists(n) /\ ~Running(n) /\ cname[n] = Canonical
                  THEN "recordBack" ELSE "retry")
     \/ at[a] = "recheckUndo" /\
        MoveOn(a, IF /\ ~gone /\ cid = o /\ Exists(o) /\ cname[o] = Canonical
                     /\ ~(Exists(n) /\ cname[n] = Canonical)
                  THEN "recordUndo" ELSE "retry")
  /\ UNCHANGED <<docker, row, proc, wire, spent>>

OutcomeAt(a) == IF at[a] \in {"recordN", "recordBack"} THEN "committed" ELSE "rolled-back"

\* Mutation: a rollback that was not applied retains nothing.
RetainedIfMoved(a) ==
  CASE at[a] = "recordN" /\ plan[a].carry -> plan[a].o
    [] at[a] = "recordBack" /\ Exists(plan[a].o) -> plan[a].o
    [] OTHER -> 0

\* The container the resolution keeps, stopped, until an operator approves.
RetainedAt(a) ==
  LET o == plan[a].o  n == plan[a].n IN
  CASE at[a] = "recordN" /\ plan[a].carry -> o
    [] at[a] = "recordBack" /\ Exists(o) -> o
    [] at[a] = "recordUndo" /\ Exists(n) -> n
    [] OTHER -> 0
RoleAt(a) == IF at[a] = "recordBack" THEN "N" ELSE "O"

\* resolveRecord: under the lease, not after stop(), through the store.
Resolve(a) ==
  /\ at[a] \in RecordPoints /\ MayAct(a) /\ MayResolve(rec, a, own, OutcomeAt(a))
  /\ rec' = ResolvedRec(rec, OutcomeAt(a), RetainedAt(a), RoleAt(a))
  /\ own' = own \ {a}
  /\ at' = [at EXCEPT ![a] = "off"] /\ lock' = 0
  /\ mode' = [mode EXCEPT ![a] = "live"]
  /\ UNCHANGED <<docker, row, hist, marker, proc, adm, plan, late, wire, spent>>

\* The store refused, or the write failed: before its rename, or after it,
\* the record then saying resolved while the process keeps the attempt.
ResolveFails(a) ==
  /\ at[a] \in RecordPoints /\ MayAct(a)
  /\ \/ ~MayResolve(rec, a, own, OutcomeAt(a)) /\ Retry(a) /\ NoFault
     \/ MayResolve(rec, a, own, OutcomeAt(a)) /\ Fault /\ Retry(a)
     \/ /\ MayResolve(rec, a, own, OutcomeAt(a)) /\ Fault /\ SyncFaults
        /\ rec' = ResolvedRec(rec, OutcomeAt(a), RetainedAt(a), RoleAt(a))
        /\ UNCHANGED <<hist, marker>>
        /\ PassGoes(a, "settle")
  /\ UNCHANGED <<docker, row, proc, wire>>

-----------------------------------------------------------------------------
(* recover(), approve(), the boot, and the rest of the system               *)

\* An orphaned attempt adopted by an operator, every container of it stopped.
Recover(a) ==
  /\ up /\ ~gone /\ lock = 0 /\ OperatorMay
  /\ \A b \in Attempts : at[b] \in {"off"}
  /\ MayAdopt(rec, a)
  /\ \A c \in {rec.old, rec.new, cid} : ~Running(c)
  /\ rec.reverse => Exists(rec.new)
  /\ \/ /\ rec' = AdoptedRec(rec) /\ own' = own \cup {a} /\ lock' = a
        /\ plan' = [plan EXCEPT ![a] = PlanOf(rec.old, rec.new, rec.carry, rec.reverse)]
        /\ at' = [at EXCEPT ![a] = "read"] /\ mode' = [mode EXCEPT ![a] = "recover"]
        /\ NoFault
     \/ /\ SyncFaults /\ Fault /\ rec' = AdoptedRec(rec)
        /\ UNCHANGED <<own, lock, plan, at, mode>>
  /\ UNCHANGED <<docker, row, hist, marker, proc, adm, late, wire>>

\* approve(): the retained container, stopped and not D1's, is removed; the
\* record stops naming it only once it is confirmed gone.
Approve ==
  /\ up /\ ~gone /\ lock = 0 /\ OperatorMay
  /\ GateOpen(rec) /\ rec.retained # 0
  /\ cid # rec.retained /\ ~Running(rec.retained)
  /\ lock' = Admin
  /\ adm' = IF Exists(rec.retained) THEN "remove" ELSE "record"
  /\ UNCHANGED <<docker, row, disk, proc, own, plan, at, mode, late, wire, spent>>

RetainedOp == Op("remove", rec.retained, 0, rec.att)

ApproveRemove ==
  /\ adm = "remove"
  /\ \E ok \in BOOLEAN :
       /\ Answer(RetainedOp, ok)
       /\ IF ok THEN adm' = "record" /\ UNCHANGED lock ELSE adm' = "none" /\ lock' = 0
  /\ UNCHANGED <<row, disk, proc, own, plan, at, mode, late, wire>>

ApproveRecord ==
  /\ adm = "record"
  /\ \/ rec' = ApprovedRec(rec) /\ NoFault
     \/ Fault /\ UNCHANGED rec
  /\ adm' = "none" /\ lock' = 0
  /\ UNCHANGED <<docker, row, hist, marker, proc, own, plan, at, mode, late, wire>>

\* The lifecycle verbs under the lock and the gate (dockerManager.ts), each
\* taken as one step; a start that would respawn is not modelled.
Gate == up /\ ~gone /\ lock = 0 /\ GateOpen(rec)

Start ==
  /\ Gate /\ cid \in Containers /\ cst[cid] = "stopped"
  /\ cst' = [cst EXCEPT ![cid] = "running"]
  /\ UNCHANGED <<cname, row, disk, proc, engine, wire, spent>>

Stop ==
  /\ Gate /\ Running(cid)
  /\ cst' = [cst EXCEPT ![cid] = "stopped"]
  /\ UNCHANGED <<cname, row, disk, proc, engine, wire, spent>>

\* DELETE ?hard=true: D1's container, then the workspace and the control
\* dir (record and marker), then the row.
Purge ==
  /\ Gate /\ DeleteGateOpen(rec)
  /\ cst' = IF Exists(cid) THEN [cst EXCEPT ![cid] = "absent"] ELSE cst
  /\ cid' = 0 /\ hash' = 0 /\ gone' = TRUE
  /\ rec' = NoRecord /\ hist' = [a \in Attempts |-> "none"] /\ marker' = FALSE
  /\ UNCHANGED <<cname, wanted, proc, engine, wire, spent>>

\* PATCH {enabled:false} and the emergency command: no lock, no gate.
Disable ==
  /\ wanted /\ ~gone
  /\ wanted' = FALSE /\ hash' = 0
  /\ UNCHANGED <<docker, cid, gone, disk, proc, engine, wire, spent>>

\* A person at the Docker host, or a container that exits by itself.
StartByHand(c) ==
  /\ cst[c] = "stopped" /\ byHand < MaxByHand
  /\ byHand' = byHand + 1
  /\ cst' = [cst EXCEPT ![c] = "running"]
  /\ UNCHANGED <<cname, row, disk, proc, engine, wire, faults, crashes>>

ExitsByItself(c) ==
  /\ Running(c)
  /\ cst' = [cst EXCEPT ![c] = "stopped"]
  /\ UNCHANGED <<cname, row, disk, proc, engine, wire, spent>>

\* SIGTERM: engine.stop(). The epochs it closes are Deadline steps.
Shutdown ==
  /\ up /\ ~stopped /\ stopped' = TRUE
  /\ UNCHANGED <<docker, row, disk, up, started, engine, wire, spent>>

\* The process dies: memory goes, what was out may still apply.
Crash ==
  /\ up /\ crashes < MaxCrashes /\ crashes' = crashes + 1
  /\ zombies' = zombies \cup {op \in {OpAt(a) : a \in Attempts} \cup {late[a] : a \in Attempts}
                               \cup (IF adm = "remove" THEN {RetainedOp} ELSE {}) : op # NoOp}
  /\ limbo' = [a \in Attempts |-> limbo[a] \/ at[a] = "cas"]
  /\ up' = FALSE /\ stopped' = FALSE
  /\ own' = {} /\ lock' = 0 /\ adm' = "none"
  /\ at' = [a \in Attempts |-> "off"]
  /\ mode' = [a \in Attempts |-> "live"]
  /\ late' = [a \in Attempts |-> NoOp]
  /\ UNCHANGED <<docker, row, disk, started, plan, faults, byHand>>

ZombieEnds ==
  /\ \E op \in zombies :
       /\ zombies' = zombies \ {op}
       /\ (Accepts(op) /\ Effect(op)) \/ UNCHANGED docker
  /\ UNCHANGED <<row, disk, proc, engine, limbo, spent>>

\* The outcome the record or its history gives attempt a.
OutcomeOf(a) == IF rec.att = a /\ rec.st = "resolved" THEN rec.out ELSE hist[a]

\* bootPass: containers labelled with a resolved attempt, stopped, neither
\* D1's nor that attempt's committed N.
Leftovers ==
  {c \in Containers : /\ c > 1 /\ cst[c] = "stopped" /\ cid # c
                      /\ OutcomeOf(c - 1) = "rolled-back"}

\* convergeResidualDeferSeeds: the latest attempt committed, D1 on its N.
SeedDue == ~gone /\ rec.st = "resolved" /\ rec.out = "committed" /\ cid = rec.new

\* recoverOnBoot, then the boot pass (whose failures are logged), before the server listens.
Boot ==
  /\ ~up /\ up' = TRUE
  /\ IF NeedsOrphaning(rec)
     THEN \/ rec' = OrphanedRec(rec) /\ NoFault
          \/ Fault /\ UNCHANGED rec
     ELSE UNCHANGED rec /\ NoFault
  /\ \E swept \in {Leftovers} \cup (IF faults < MaxFaults THEN {{}} ELSE {}) :
       cst' = [c \in Containers |-> IF c \in swept THEN "absent" ELSE cst[c]]
  /\ marker' \in {marker /\ ~SeedDue} \cup (IF faults < MaxFaults THEN {marker} ELSE {})
  /\ UNCHANGED <<cname, row, hist, stopped, started, engine, wire>>

AttemptStep(a) ==
  \/ Recreate(a, FALSE) \/ Recreate(a, TRUE) \/ RollbackToRetained(a)
  \/ BeginNotNow(a) \/ Begin(a) \/ BeginFails(a)
  \/ Prepare(a) \/ MainRequest(a) \/ MainCheck(a) \/ Deadline(a) \/ LateAnswer(a)
  \/ RollbackTimeout(a)
  \/ CommitApplied(a) \/ CommitNotApplied(a) \/ CommitAmbiguous(a) \/ LimboEnds(a)
  \/ Unmark(a) \/ RemoveO(a) \/ Check(a)
  \/ StartPass(a) \/ PassRefused(a) \/ LeaseLost(a) \/ ReadRow(a) \/ PassRequest(a)
  \/ UnmarkO(a) \/ ConvergeN(a) \/ Recheck(a) \/ Resolve(a) \/ ResolveFails(a)
  \/ Recover(a)

Elsewhere ==
  \/ Approve \/ ApproveRemove \/ ApproveRecord
  \/ Start \/ Stop \/ Purge \/ Disable
  \/ Shutdown \/ Crash \/ Boot \/ ZombieEnds
  \/ \E c \in Containers : StartByHand(c) \/ ExitsByItself(c)

Next == (\E a \in Attempts : AttemptStep(a)) \/ Elsewhere

Spec == Init /\ [][Next]_vars

-----------------------------------------------------------------------------
Plans == [o : 0..(MaxAttempts + 1), n : 0..(MaxAttempts + 1), carry : BOOLEAN,
          reverse : BOOLEAN, deaf : BOOLEAN]

DockerOK ==
  /\ cst \in [Containers -> {"absent", "stopped", "running"}]
  /\ cname \in [Containers -> Names]
RowOK ==
  /\ cid \in 0..(MaxAttempts + 1) /\ hash \in 0..(MaxAttempts + 1)
  /\ wanted \in BOOLEAN /\ gone \in BOOLEAN
DiskOK ==
  /\ rec \in Records /\ hist \in [Attempts -> Outcomes] /\ marker \in BOOLEAN
ProcOK ==
  /\ up \in BOOLEAN /\ stopped \in BOOLEAN /\ started \in 0..MaxAttempts
EngineOK ==
  /\ own \subseteq Attempts /\ lock \in 0..Admin /\ adm \in {"none", "remove", "record"}
  /\ plan \in [Attempts -> Plans] /\ at \in [Attempts -> Points]
  /\ mode \in [Attempts -> Modes] /\ late \in [Attempts -> Ops \cup {NoOp}]
WireOK ==
  /\ limbo \in [Attempts -> BOOLEAN] /\ zombies \subseteq Ops
SpentOK ==
  /\ faults \in 0..MaxFaults /\ crashes \in 0..MaxCrashes /\ byHand \in 0..MaxByHand

TypeOK == DockerOK /\ RowOK /\ DiskOK /\ ProcOK /\ EngineOK /\ WireOK /\ SpentOK

\* The container D1 names is never removed, nor D1 moved to one that is gone.
CurrentExists == ~gone => Exists(cid)

\* Two containers of the session never run at once over its workspace,
\* unless a person started one.
OneWriter ==
  byHand = 0 => \A c, d \in Containers : Running(c) /\ Running(d) => c = d

\* While the engine holds an attempt that is not under the lock, the gate is
\* closed: no verb, and no further attempt, can get between its steps.
GateCoversAttempts ==
  \A a \in Attempts : at[a] \notin {"off", "begin"} /\ lock # a => ~GateOpen(rec)

\* Nothing of the session is under way anywhere.
AtRest ==
  /\ lock = 0 /\ GateOpen(rec) /\ Settled
  /\ \A a \in Attempts : at[a] = "off"

\* At rest every container of the session is the one D1 names or the one
\* the record retains: none is left that nothing refers to.
NothingForgotten ==
  AtRest /\ up => \A c \in Containers : Exists(c) => c \in {cid, rec.retained}

\* At rest D1's container has the canonical name, no other has it, and the
\* defer marker is gone.
CleanAtRest ==
  AtRest /\ up =>
    /\ ~marker
    /\ ~gone => \A c \in Containers : Exists(c) => (cname[c] = Canonical <=> c = cid)

\* The authorized token is that of D1's container, or none.
HashFollows == hash \in {0, cid}

\* A disable is never overwritten, by a commit however late.
DisableWins == [][~wanted => hash' \in {0, hash} /\ ~wanted']_vars

\* A record turns resolved only on evidence: nothing of the attempt is out,
\* its commit is final, and what the outcome says is what D1 and Docker show.
ResolvedOnEvidence ==
  [][(~GateOpen(rec) /\ rec'.st = "resolved") =>
       /\ late[rec.att] = NoOp /\ ~limbo[rec.att]
       /\ \A op \in zombies : op.att # rec.att
       /\ rec'.out = "committed" => cid = rec.new /\ Exists(cid)
       /\ rec'.out = "rolled-back" =>
            /\ cid = rec.old /\ cname[cid] = Canonical
            /\ ~rec.reverse => ~Exists(rec.new)]_vars

\* No container but D1's is started by the program without the defer marker
\* in place: N cannot seed the workspace before the commit.
SeedOnlyAfterCommit ==
  [][\A c \in Containers :
       (~Running(c) /\ cst'[c] = "running" /\ byHand' = byHand) => marker \/ c = cid]_vars

\* D8: only a process that owns the attempt resolves it, and what a dead
\* process left, only once an operator adopted it; never the boot.
OrphansWait ==
  [][(~GateOpen(rec) /\ GateOpen(rec')) =>
       rec.att \in own /\ (rec.orphaned => rec.recovered)]_vars

\* "Nothing ever removes the container D1 points at" (the engine's header),
\* but for a hard delete of the session.
NeverRemovesCurrent ==
  [][\A c \in Containers : Exists(c) /\ cst'[c] = "absent" => c # cid \/ gone']_vars

\* "An attempt mid-way does nothing more forward either" (stop()): past
\* stop(), no attempt gets to another point before or at its commit.
NothingForwardAfterStop ==
  [][\A a \in Attempts : stopped /\ at'[a] # at[a] => at'[a] \notin BeforeCommit \cup {"cas"}]_vars

-----------------------------------------------------------------------------
(* Progress. The engine's own steps are taken while they can be (an event   *)
(* loop that is never starved), a retry timer fires, Docker answers every   *)
(* request some day and T_d1 passes. Nothing else is fair: no person, no    *)
(* verb, no shutdown is ever assumed.                                       *)
Moves(a) ==
  \/ BeginNotNow(a) \/ Begin(a) \/ BeginFails(a) \/ Prepare(a) \/ MainRequest(a) \/ MainCheck(a)
  \/ CommitApplied(a) \/ CommitNotApplied(a) \/ CommitAmbiguous(a)
  \/ Unmark(a) \/ RemoveO(a) \/ Check(a)
  \/ StartPass(a) \/ LeaseLost(a) \/ ReadRow(a) \/ PassRequest(a)
  \/ UnmarkO(a) \/ ConvergeN(a) \/ Recheck(a) \/ Resolve(a) \/ ResolveFails(a)

FairSpec ==
  /\ Spec
  /\ \A a \in Attempts : WF_vars(Moves(a)) /\ WF_vars(LateAnswer(a)) /\ WF_vars(LimboEnds(a))
  /\ WF_vars(ApproveRemove \/ ApproveRecord)

\* In a process that keeps running, an attempt it began does not stay
\* unresolved: the session is not gated for ever.
Resolves ==
  \A a \in Attempts :
      (rec.att = a /\ ~GateOpen(rec) /\ a \in own /\ ~rec.orphaned)
      ~> (GateOpen(rec) \/ stopped \/ ~up \/ byHand > 0)

\* The abstract view: the session's current container changes only between
\* the two an open swap names, and only towards the second.
Swap == INSTANCE SessionSwap WITH
  current <- cid,
  pair <- IF GateOpen(rec) THEN <<>> ELSE <<rec.old, rec.new>>
ImplementsSwap == Swap!Spec
=============================================================================
