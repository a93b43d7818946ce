------------------------------ MODULE Capture ------------------------------
(***************************************************************************)
(* Capture authorization of one session: conversation/activation.ts,       *)
(* captureAuth.ts, revocation.ts, the capture columns of registry.ts, and  *)
(* the authorization of a hook in service.ts.                              *)
(*                                                                         *)
(* Enable, spawn, start, stop and kill hold the session's lifecycle lock,  *)
(* so at most one of them runs: it is `op`. Disables, the emergency        *)
(* command (another process), hooks and crashes interleave with it at      *)
(* every await. The files and D1 survive a crash of the backend.           *)
(*                                                                         *)
(* A session revocation is a marker with an identity of its own; LIFTED    *)
(* names the one marker an enable lifted. A token stands for its hash.     *)
(* checkRevocation awaits three reads: REVOKED_ALL, LIFTED, REVOKED. They  *)
(* are three steps of a hook. The holder of the lock takes them in one:    *)
(* nobody else writes LIFTED then, so a marker can only come into effect   *)
(* between the reads, and what they answer is true at the first of them    *)
(* (no revocation, or the global one) or at the last (the session's). Left *)
(* out: mounts, attestations and image labels (one choice, `capable`, at a *)
(* spawn), the feature flag being off, the network-origin check, and the   *)
(* recreation, whose attempts are modelled in Recreate.                    *)
(***************************************************************************)
EXTENDS Naturals, FiniteSets

CONSTANTS
  Disables,     \* the revocations issued: API disables and CLI commands
  KindsOf,      \* what kinds each may be: "api", "cli", "all"
  MaxOps,       \* bound: operations that take the lock
  MaxHooks,     \* bound: hook requests
  MaxFaults     \* bound: failing calls, crashes, killed commands

ASSUME CaptureAssumption ==
  /\ IsFiniteSet(Disables)
  /\ KindsOf \in [Disables -> SUBSET {"api", "cli", "all"}]
  /\ MaxOps \in Nat /\ MaxHooks \in Nat /\ MaxFaults \in Nat

VARIABLES
  revoked, lifted, global,  \* REVOKED, LIFTED and REVOKED_ALL
  row,                      \* the session's row in D1
  enabledFile, hooksFile,   \* relay.enabled and conversation.json
  ctr,                      \* the session's container
  backend,                  \* "boot" until reconcile ended, "up"
  op,                       \* the body that holds the lifecycle lock
  dis,                      \* each disable or emergency command
  hook,                     \* the hook being authorized
  dirty,                    \* a failure or crash since the last reconcile
  stands,                   \* history: what became of each disable
  cut,                      \* history: the revocations in force ever since
                            \* the hook's check began
  ops, hooks, faults, ids   \* bounds used up; identities handed out

files == <<enabledFile, hooksFile>>
marks == <<revoked, lifted, global>>
used  == <<ops, hooks, faults>>
cvars == <<marks, row, files, ctr, backend, op, dis, hook, dirty,
           stands, cut, used, ids>>

NoMarker == [id |-> 0, by |-> "none"]
IdleOp   == [kind |-> "none", pc |-> "idle", seen |-> 0, seq |-> 0,
             allowed |-> FALSE, restore |-> FALSE, stage |-> 0, token |-> 0,
             next |-> "idle", by |-> "none"]
IdleDis  == [kind |-> "none", pc |-> "idle", lift |-> 0]
IdleHook == [pc |-> "idle", lift |-> 0]

\* readSessionRevocation: REVOKED exists and is not the marker LIFTED names.
InEffect(lift) == revoked.id # 0 /\ revoked.id # lift
\* checkRevocation # "none".
Revoked == global \/ InEffect(lifted)
\* The two places a revocation can be in, each with its own file.
Sources == {"global", "session"}
InForce(source) == IF source = "global" THEN global ELSE InEffect(lifted)

-----------------------------------------------------------------------------
\* The statements on the session's row.

\* suspendIngestToken: the live hash is moved aside, never dropped.
Suspended(r) == [requested |-> FALSE, hash |-> 0, seq |-> r.seq + 1,
                 suspended |-> IF r.hash # 0 THEN r.hash ELSE r.suspended]
\* revokeIngestTokens, and revokeAllIngestTokens on this row.
RevokedRow(r) == [requested |-> FALSE, hash |-> 0, suspended |-> 0, seq |-> r.seq + 1]
\* restoreIngestTokenIfUnrevoked and setRequestedIfUnrevoked, both WHERE
\* revocation_seq = seq.
RestoreOrRequest(r, restore) ==
  IF restore
  THEN [r EXCEPT !.requested = TRUE, !.suspended = 0,
                 !.hash = IF r.hash # 0 THEN r.hash ELSE r.suspended]
  ELSE [r EXCEPT !.requested = TRUE]
\* Mutation: the statement without its WHERE revocation_seq.
EnableRowAlways(r, restore, seq) == RestoreOrRequest(r, restore)

EnableRow(r, restore, seq) ==
  IF r.seq = seq THEN RestoreOrRequest(r, restore) ELSE r

\* correspondenceOf: "match" and "suspended".
Match(r) == ctr.exists /\ ctr.token # 0 /\ r.hash = ctr.token
IsSuspended(r) == /\ ctr.exists /\ ctr.token # 0
                  /\ r.hash = 0 /\ r.suspended = ctr.token

-----------------------------------------------------------------------------
\* The write procedure's tail, shared by enable, reconcile and spawn:
\* marker, re-check, identify, hooks file, re-check; a failed re-check
\* removes the hooks file and then the marker.

Goto(pc) == op' = [op EXCEPT !.pc = pc]
Done == op' = IdleOp
Withdraw(next) == op' = [op EXCEPT !.pc = "withdraw", !.next = next]
Lost == IF op.kind = "spawn" THEN Withdraw("plain") ELSE Withdraw("idle")

WriteRelayEnabled ==
  /\ op.pc = "marker"
  /\ enabledFile' = TRUE
  /\ op' = [op EXCEPT !.pc = "row", !.stage = 1]
  /\ UNCHANGED <<marks, row, hooksFile, ctr, backend, dis, hook, dirty,
                 stands, used, ids>>

\* stillAllowed and spawnStillAuthorized: the row, then the markers.
StillRow ==
  /\ op.pc = "row"
  /\ op' = [op EXCEPT !.pc = "rev", !.allowed = row.requested]
  /\ UNCHANGED <<marks, row, files, ctr, backend, dis, hook, dirty,
                 stands, used, ids>>

AfterRecheck == CASE op.stage = 0 -> "marker"
                  [] op.stage = 1 -> IF op.kind = "spawn" THEN "hooks" ELSE "probe"
                  [] op.stage = 2 -> IF op.kind = "spawn" THEN "create" ELSE "idle"

StillRevocation ==
  /\ op.pc = "rev"
  /\ IF ~op.allowed \/ Revoked THEN Lost
     ELSE IF AfterRecheck = "idle" THEN Done ELSE Goto(AfterRecheck)
  /\ UNCHANGED <<marks, row, files, ctr, backend, dis, hook, dirty,
                 stands, used, ids>>

\* The relay identifies itself within its 5 s, or the marker is removed.
Identify ==
  /\ op.pc = "probe"
  /\ \/ Goto("hooks") /\ UNCHANGED enabledFile
     \/ Done /\ enabledFile' = FALSE
  /\ UNCHANGED <<marks, row, hooksFile, ctr, backend, dis, hook, dirty,
                 stands, used, ids>>

\* Mutation: no re-check after the hooks file.
WriteHooksFileLast ==
  /\ op.pc = "hooks"
  /\ hooksFile' = TRUE
  /\ IF op.kind = "spawn" THEN Goto("create") ELSE Done
  /\ UNCHANGED <<marks, row, enabledFile, ctr, backend, dis, hook,
                 dirty, stands, used, ids>>

WriteHooksFile ==
  /\ op.pc = "hooks"
  /\ hooksFile' = TRUE
  /\ op' = [op EXCEPT !.pc = "row", !.stage = 2]
  /\ UNCHANGED <<marks, row, enabledFile, ctr, backend, dis, hook,
                 dirty, stands, used, ids>>

WithdrawHooks ==
  /\ op.pc = "withdraw"
  /\ hooksFile' = FALSE
  /\ Goto("withdraw2")
  /\ UNCHANGED <<marks, row, enabledFile, ctr, backend, dis, hook,
                 dirty, stands, used, ids>>

WithdrawMarker ==
  /\ op.pc = "withdraw2"
  /\ enabledFile' = FALSE
  /\ IF op.next = "idle" THEN Done ELSE Goto(op.next)
  /\ UNCHANGED <<marks, row, hooksFile, ctr, backend, dis, hook, dirty,
                 stands, used, ids>>

-----------------------------------------------------------------------------
\* enableSession

Start(kind, pc) == /\ op = IdleOp /\ backend = "up" /\ ops < MaxOps
                   /\ ops' = ops + 1
                   /\ op' = [IdleOp EXCEPT !.kind = kind, !.pc = pc,
                                !.seen = IF InEffect(lifted) THEN revoked.id ELSE 0]

\* What an enable that begins now means to each disable: those that answered
\* are deliberately lifted, those still at work are overlapped.
Overlap(s, d) == CASE s \in {"stands", "rewritten"} /\ dis[d].pc = "done" -> "lifted"
                   [] s = "stands" /\ dis[d].pc # "done" -> "overlapped"
                   [] OTHER -> s

EnableBegin ==
  /\ Start("enable", "global")
  /\ stands' = [d \in Disables |-> Overlap(stands[d], d)]
  /\ UNCHANGED <<marks, row, files, ctr, backend, dis, hook, dirty,
                 hooks, faults, ids>>

EnableGlobal ==
  /\ op.pc = "global"
  /\ IF global THEN Done ELSE Goto("facts")
  /\ UNCHANGED <<marks, row, files, ctr, backend, dis, hook, dirty,
                 stands, used, ids>>

EnableFacts ==
  /\ op.pc = "facts"
  /\ op' = [op EXCEPT !.pc = "write", !.seq = row.seq, !.restore = IsSuspended(row)]
  /\ UNCHANGED <<marks, row, files, ctr, backend, dis, hook, dirty, stands,
                 used, ids>>

EnableWrite ==
  /\ op.pc = "write"
  /\ row' = EnableRow(row, op.restore, op.seq)
  /\ IF row.seq = op.seq THEN Goto("recheck")
     ELSE Done
  /\ UNCHANGED <<marks, files, ctr, backend, dis, hook, dirty, stands, used, ids>>

EnableRecheckGlobal ==
  /\ op.pc = "recheck"
  /\ Goto(IF global THEN "reapply" ELSE "lift")
  /\ UNCHANGED <<marks, row, files, ctr, backend, dis, hook, dirty,
                 stands, used, ids>>

\* Mutation: the marker in place now is lifted, whichever it is.
EnableLiftNewest ==
  /\ op.pc = "lift"
  /\ lifted' = IF revoked.id # 0 THEN revoked.id ELSE lifted
  /\ Goto("retired")
  /\ UNCHANGED <<revoked, global, row, files, ctr, backend, dis, hook,
                 dirty, stands, used, ids>>

\* retireSessionRevocation: only the marker seen at the start is lifted.
EnableLift ==
  /\ op.pc = "lift"
  /\ lifted' = IF op.seen # 0 THEN op.seen ELSE lifted
  /\ Goto("retired")
  /\ UNCHANGED <<revoked, global, row, files, ctr, backend, dis, hook,
                 dirty, stands, used, ids>>

\* retireSessionRevocation's last reads: "newer" or not.
EnableRetired ==
  /\ op.pc = "retired"
  /\ Goto(IF InEffect(lifted) THEN "reread" ELSE "facts2")
  /\ UNCHANGED <<marks, row, files, ctr, backend, dis, hook, dirty, stands,
                 used, ids>>

\* reapplyRevocation reads the marker again: whose D1 transition it is.
ReapplyReads ==
  /\ op.pc = "reread"
  /\ op' = [op EXCEPT !.pc = "reapply",
               !.by = IF InEffect(lifted) THEN revoked.by ELSE "none"]
  /\ UNCHANGED <<marks, row, files, ctr, backend, dis, hook, dirty, stands,
                 used, ids>>

\* reapplyRevocation (and the revoke of a global marker seen at the re-check).
EnableReapply ==
  /\ op.pc = "reapply"
  /\ row' = IF op.by = "api" THEN Suspended(row) ELSE RevokedRow(row)
  /\ Done
  /\ UNCHANGED <<marks, files, ctr, backend, dis, hook, dirty, stands, used, ids>>

\* facts() of an enable and of converge(): the row, then the markers.
FactsRow ==
  /\ op.pc = "facts2"
  /\ op' = [op EXCEPT !.pc = "facts3", !.allowed = row.requested /\ Match(row)]
  /\ UNCHANGED <<marks, row, files, ctr, backend, dis, hook, dirty,
                 stands, used, ids>>

\* writeAuthorized and retainAuthorized; an enable keeps what a stopped
\* container retains, converge keeps it only as a complete pair.
FactsDecide ==
  /\ op.pc = "facts3"
  /\ LET authorized == op.allowed /\ ~Revoked
         pair == enabledFile /\ hooksFile
         converge == op.kind = "reconcile"
     IN IF authorized /\ ctr.running
        THEN IF converge /\ pair THEN Done ELSE Goto("marker")
        ELSE IF (authorized /\ ctr.exists /\ (pair \/ ~converge))
                \/ (converge /\ ~enabledFile /\ ~hooksFile)
        THEN Done ELSE Withdraw("idle")
  /\ UNCHANGED <<marks, row, files, ctr, backend, dis, hook, dirty,
                 stands, used, ids>>

-----------------------------------------------------------------------------
\* prepareSpawnCapture, then the container of the spawn.

SpawnBegin ==
  /\ ~ctr.exists
  /\ Start("spawn", "spawn")
  /\ UNCHANGED <<marks, row, files, ctr, backend, dis, hook, dirty,
                 stands, hooks, faults, ids>>

SpawnRow ==
  /\ op.pc = "spawn"
  /\ op' = [op EXCEPT !.pc = "spawn2", !.allowed = row.requested,
                      !.restore = row.hash # 0 \/ row.suspended # 0]
  /\ UNCHANGED <<marks, row, files, ctr, backend, dis, hook, dirty,
                 stands, used, ids>>

SpawnDecide(capable) ==
  /\ op.pc = "spawn2"
  /\ IF op.allowed /\ ~Revoked /\ capable
     THEN Goto("hash")
     ELSE Withdraw(IF op.restore THEN "clear" ELSE "plain")
  /\ UNCHANGED <<marks, row, files, ctr, backend, dis, hook, dirty,
                 stands, used, ids>>

\* A fresh token: its hash goes to D1 before the marker and the file.
SpawnHash ==
  /\ op.pc = "hash"
  /\ row' = [row EXCEPT !.hash = ids]
  /\ ids' = ids + 1
  /\ op' = [op EXCEPT !.pc = "row", !.stage = 0, !.token = ids]
  /\ UNCHANGED <<marks, files, ctr, backend, dis, hook, dirty, stands, used>>

\* An unauthorized spawn clears D1; one that failed clears only its hash.
SpawnClear ==
  /\ op.pc \in {"clear", "unhash"}
  /\ row' = IF op.pc = "clear" THEN RevokedRow(row) ELSE [row EXCEPT !.hash = 0]
  /\ Goto("plain")
  /\ UNCHANGED <<marks, files, ctr, backend, dis, hook, dirty, stands,
                 used, ids>>

CreateContainer ==
  /\ op.pc \in {"create", "plain"}
  /\ ctr' = [exists |-> TRUE, running |-> TRUE,
             token |-> IF op.pc = "create" THEN op.token ELSE 0]
  /\ Done
  /\ UNCHANGED <<marks, row, files, backend, dis, hook, dirty, stands, used, ids>>

\* start, stop and kill of the container: stop and kill end its hooks
\* (onSessionDown), none of them touches the capture files or the hash.
Lifecycle ==
  /\ op = IdleOp /\ backend = "up" /\ ops < MaxOps /\ ctr.exists
  /\ ops' = ops + 1
  /\ \/ ~ctr.running /\ ctr' = [ctr EXCEPT !.running = TRUE]
     \/ ctr.running /\ ctr' = [ctr EXCEPT !.running = FALSE]
     \/ ctr' = [exists |-> FALSE, running |-> FALSE, token |-> 0]
  /\ hook' = IdleHook
  /\ UNCHANGED <<marks, row, files, backend, op, dis, dirty, stands, hooks,
                 faults, ids>>

-----------------------------------------------------------------------------
\* disableSession (API or CLI), disableAll and enableAll: no lock.

\* Mutation: --all writes the session's marker, not the global one.
DisableMarkSession(d, kind) ==
  /\ dis[d].pc = "idle" /\ (kind = "api" => backend = "up")
  /\ dis' = [dis EXCEPT ![d] = [kind |-> kind, pc |-> "d1", lift |-> 0]]
  /\ stands' = [stands EXCEPT ![d] = "stands"]
  /\ revoked' = [id |-> ids, by |-> kind]
  /\ ids' = ids + 1
  /\ UNCHANGED <<lifted, global, row, files, ctr, backend, op, hook, dirty, used>>

DisableMark(d, kind) ==
  /\ dis[d].pc = "idle" /\ (kind = "api" => backend = "up")
  /\ dis' = [dis EXCEPT ![d] = [kind |-> kind, pc |-> "d1", lift |-> 0]]
  /\ stands' = [stands EXCEPT ![d] = "stands"]
  /\ IF kind = "all" THEN global' = TRUE /\ UNCHANGED <<revoked, ids>>
     ELSE /\ revoked' = [id |-> ids, by |-> kind]
          /\ ids' = ids + 1
          /\ UNCHANGED global
  /\ UNCHANGED <<lifted, row, files, ctr, backend, op, hook, dirty, used>>

DisableRow(d) ==
  /\ dis[d].pc = "d1"
  /\ row' = IF dis[d].kind = "api" THEN Suspended(row) ELSE RevokedRow(row)
  /\ dis' = [dis EXCEPT ![d].pc = "hooks"]
  /\ UNCHANGED <<marks, files, ctr, backend, op, hook, dirty, stands, used, ids>>

DisableHooks(d) ==
  /\ dis[d].pc = "hooks"
  /\ hooksFile' = FALSE
  /\ dis' = [dis EXCEPT ![d].pc = "relay"]
  /\ UNCHANGED <<marks, row, enabledFile, ctr, backend, op, hook, dirty,
                 stands, used, ids>>

DisableRelay(d) ==
  /\ dis[d].pc = "relay"
  /\ enabledFile' = FALSE
  /\ dis' = [dis EXCEPT ![d].pc = IF dis[d].kind = "all" THEN "done" ELSE "check"]
  /\ UNCHANGED <<marks, row, hooksFile, ctr, backend, op, hook, dirty,
                 stands, used, ids>>

DisableCheckLifted(d) ==
  /\ dis[d].pc = "check"
  /\ dis' = [dis EXCEPT ![d].pc = "check2", ![d].lift = lifted]
  /\ UNCHANGED <<marks, row, files, ctr, backend, op, hook, dirty,
                 stands, used, ids>>

\* The marker is put back if an enable lifted it meanwhile.
DisableCheckRevoked(d) ==
  /\ dis[d].pc = "check2"
  /\ dis' = [dis EXCEPT ![d].pc = IF InEffect(dis[d].lift) THEN "done" ELSE "again"]
  /\ UNCHANGED <<marks, row, files, ctr, backend, op, hook, dirty,
                 stands, used, ids>>

DisableAgain(d) ==
  /\ dis[d].pc = "again"
  /\ revoked' = [id |-> ids, by |-> dis[d].kind]
  /\ ids' = ids + 1
  /\ dis' = [dis EXCEPT ![d].pc = "done"]
  /\ stands' = [stands EXCEPT ![d] = IF @ = "overlapped" THEN "rewritten" ELSE @]
  /\ UNCHANGED <<lifted, global, row, files, ctr, backend, op, hook,
                 dirty, used>>

\* The D1 call fails: the marker stays, the files are not touched. Or the
\* command is killed between two steps.
DisableFails(d) ==
  /\ dis[d].pc \notin {"idle", "done", "failed"} /\ faults < MaxFaults
  /\ dis' = [dis EXCEPT ![d].pc = "failed"]
  /\ faults' = faults + 1
  /\ dirty' = TRUE
  /\ UNCHANGED <<marks, row, files, ctr, backend, op, hook, stands, ops,
                 hooks, ids>>

EnableAll ==
  /\ global
  /\ \A d \in Disables : dis[d].kind = "all" => dis[d].pc \in {"done", "failed"}
  /\ global' = FALSE
  /\ stands' = [d \in Disables |-> IF dis[d].kind = "all" THEN "lifted" ELSE stands[d]]
  /\ UNCHANGED <<revoked, lifted, row, files, ctr, backend, op, dis, hook,
                  dirty, used, ids>>

-----------------------------------------------------------------------------
\* A hook: authorize, then ingest's uncached check.

\* authorize answers from a cached row up to 60 s old, or from a read another
\* step overtook: any hook of a running container with a token may pass it.
HookArrives ==
  /\ backend = "up" /\ ctr.running /\ ctr.token # 0
  /\ hook = IdleHook /\ hooks < MaxHooks
  /\ hooks' = hooks + 1
  /\ hook' = [IdleHook EXCEPT !.pc = "stat"]
  /\ UNCHANGED <<marks, row, files, ctr, backend, op, dis, dirty, stands, ops,
                 faults, ids>>

\* Mutation: only the session's own marker refuses a hook.
HookSkipsGlobal ==
  /\ hook.pc = "stat"
  /\ hook' = [hook EXCEPT !.pc = "lifted"]
  /\ UNCHANGED <<marks, row, files, ctr, backend, op, dis, dirty,
                 stands, used, ids>>

\* checkRevocation, immediately before the event is queued: REVOKED_ALL is
\* looked up, and decides alone if it is there,
HookStats ==
  /\ hook.pc = "stat"
  /\ hook' = [hook EXCEPT !.pc = IF global THEN "revoked" ELSE "lifted"]
  /\ UNCHANGED <<marks, row, files, ctr, backend, op, dis, dirty,
                 stands, used, ids>>

\* then LIFTED is read,
HookReadsLifted ==
  /\ hook.pc = "lifted"
  /\ hook' = [hook EXCEPT !.pc = "read", !.lift = lifted]
  /\ UNCHANGED <<marks, row, files, ctr, backend, op, dis, dirty,
                 stands, used, ids>>

\* then REVOKED, which that lift names or not.
Refused == hook.pc = "revoked" \/ InEffect(hook.lift)

HookAdmitted ==
  /\ hook.pc = "read" /\ ~Refused
  /\ hook' = IdleHook
  /\ UNCHANGED <<marks, row, files, ctr, backend, op, dis, dirty,
                 stands, used, ids>>

\* A refused hook removes the files, should the command have died before it.
HookRefused ==
  /\ hook.pc \in {"read", "revoked"} /\ Refused
  /\ hook' = [hook EXCEPT !.pc = "drop"]
  /\ hooksFile' = FALSE
  /\ UNCHANGED <<marks, row, enabledFile, ctr, backend, op, dis, dirty, stands,
                 used, ids>>

HookDropsMarker ==
  /\ hook.pc = "drop"
  /\ enabledFile' = FALSE
  /\ hook' = IdleHook
  /\ UNCHANGED <<marks, row, hooksFile, ctr, backend, op, dis, dirty,
                 stands, used, ids>>

-----------------------------------------------------------------------------
\* Failures, crashes and the reconcile at boot.

\* One call of the lock's body fails, or its answer is lost.
OpFails ==
  /\ faults < MaxFaults
  /\ faults' = faults + 1
  /\ dirty' = TRUE
  /\ (op.pc # "lift" => UNCHANGED lifted)
  /\ \/ /\ op.pc \in {"facts", "facts2", "marker"} /\ op.kind = "enable"
        /\ Done /\ UNCHANGED row
     \/ /\ op.pc = "write"
        /\ Done /\ row' \in {row, EnableRow(row, op.restore, op.seq)}
     \/ /\ op.pc = "lift"      \* published or not, D1 goes back
        /\ lifted' \in {lifted, IF op.seen # 0 THEN op.seen ELSE lifted}
        /\ Goto("reread") /\ UNCHANGED row
     \/ /\ op.pc = "retired"
        /\ Goto("reread") /\ UNCHANGED row
     \/ /\ op.pc = "reread"    \* an unreadable marker revokes
        /\ Goto("reapply") /\ UNCHANGED row
     \/ /\ op.pc = "reapply"
        /\ Done /\ UNCHANGED row
     \/ /\ op.pc = "row"       \* a re-check that cannot read says no
        /\ Lost /\ UNCHANGED row
     \/ /\ op.pc = "hooks" \/ (op.pc = "marker" /\ op.kind = "spawn")
        /\ Withdraw(IF op.kind = "spawn" THEN "unhash" ELSE "idle")
        /\ UNCHANGED row
     \/ /\ op.pc \in {"spawn", "hash"}
        /\ Goto("plain")
        /\ row' \in {row} \union
             (IF op.pc = "hash" THEN {[row EXCEPT !.hash = ids]} ELSE {})
  /\ ids' = ids + 1
  /\ UNCHANGED <<revoked, global, files, ctr, backend, dis, hook, stands, ops, hooks>>

\* The backend dies with everything it had in flight; the CLI does not.
Crash ==
  /\ faults < MaxFaults
  /\ faults' = faults + 1
  /\ dirty' = TRUE
  /\ backend' = "boot"
  /\ op' = [IdleOp EXCEPT !.kind = "reconcile", !.pc = "reconcile"]
  /\ hook' = IdleHook
  /\ dis' = [d \in Disables |->
               IF dis[d].kind = "api" /\ dis[d].pc # "done"
               THEN [dis[d] EXCEPT !.pc = "failed"] ELSE dis[d]]
  /\ UNCHANGED <<marks, row, files, ctr, stands, ops, hooks, ids>>

\* reconcile: a revocation wins over D1 and the files; otherwise converge.
ReconcileCheck ==
  /\ op.pc = "reconcile"
  /\ IF ~ctr.running /\ ~enabledFile /\ ~hooksFile THEN Done
     ELSE IF Revoked THEN Goto("marked") ELSE Goto("facts2")
  /\ dirty' = (dirty /\ ~ctr.running /\ ~enabledFile /\ ~hooksFile)
  /\ UNCHANGED <<marks, row, files, ctr, backend, dis, hook, stands,
                 used, ids>>

ReconcileRevokes ==
  /\ op.pc = "marked"
  /\ row' = IF row.requested \/ row.hash # 0 THEN RevokedRow(row) ELSE row
  /\ Withdraw("idle")
  /\ UNCHANGED <<marks, files, ctr, backend, dis, hook, dirty, stands,
                 used, ids>>

\* The server listens once reconcile ended.
Listen ==
  /\ backend = "boot" /\ op = IdleOp
  /\ backend' = "up"
  /\ UNCHANGED <<marks, row, files, ctr, op, dis, hook, dirty, stands,
                 used, ids>>

-----------------------------------------------------------------------------
\* A session without a container, or one that captures.
Init ==
  /\ revoked = NoMarker /\ lifted = 0 /\ global = FALSE
  /\ \E captures \in BOOLEAN :
       LET token == IF captures THEN 1 ELSE 0 IN
       /\ row = [requested |-> captures, hash |-> token, suspended |-> 0, seq |-> 0]
       /\ enabledFile = captures /\ hooksFile = captures
       /\ ctr = [exists |-> captures, running |-> captures, token |-> token]
       /\ ids = token + 1
  /\ backend = "up" /\ op = IdleOp
  /\ dis = [d \in Disables |-> IdleDis]
  /\ hook = IdleHook
  /\ dirty = FALSE /\ cut = {}
  /\ stands = [d \in Disables |-> "none"]
  /\ ops = 0 /\ hooks = 0 /\ faults = 0

OpStep ==
  \/ WriteRelayEnabled \/ StillRow \/ StillRevocation \/ Identify
  \/ WriteHooksFile \/ WithdrawHooks \/ WithdrawMarker
  \/ EnableBegin \/ EnableGlobal \/ EnableFacts \/ EnableWrite
  \/ EnableRecheckGlobal \/ EnableLift \/ EnableRetired \/ ReapplyReads
  \/ EnableReapply \/ FactsRow \/ FactsDecide
  \/ SpawnBegin \/ SpawnRow \/ SpawnHash \/ SpawnClear \/ CreateContainer
  \/ \E capable \in BOOLEAN : SpawnDecide(capable)
  \/ Lifecycle \/ OpFails
  \/ ReconcileCheck \/ ReconcileRevokes \/ Listen \/ Crash

DisableStep ==
  \/ EnableAll
  \/ \E d \in Disables :
       \/ \E kind \in KindsOf[d] : DisableMark(d, kind)
       \/ DisableRow(d) \/ DisableHooks(d) \/ DisableRelay(d)
       \/ DisableCheckLifted(d) \/ DisableCheckRevoked(d) \/ DisableAgain(d)
       \/ DisableFails(d)

HookStep ==
  \/ HookArrives \/ HookStats \/ HookReadsLifted \/ HookAdmitted \/ HookRefused
  \/ HookDropsMarker

CheckBegins == hook.pc = "stat" /\ hook'.pc \in {"lifted", "revoked"}

Next ==
  /\ OpStep \/ DisableStep \/ HookStep
  /\ cut' = {source \in Sources : InForce(source)' /\ (source \in cut \/ CheckBegins)}

Spec == Init /\ [][Next]_cvars

-----------------------------------------------------------------------------
\* Properties

\* Every variable has its type; tokens and markers are numbers.
Markers == [id : Nat, by : {"none", "api", "cli"}]
Containers == [exists : BOOLEAN, running : BOOLEAN, token : Nat]
Row == [requested : BOOLEAN, hash : Nat, suspended : Nat, seq : Nat]
OpPcs == {"idle", "global", "facts", "write", "recheck", "lift", "retired", "reread",
          "reapply", "facts2", "facts3", "marker", "row", "rev", "probe", "hooks", "withdraw", "withdraw2",
          "spawn", "spawn2", "hash", "clear", "unhash", "create", "plain", "reconcile", "marked"}
OpRecords ==
  [kind : {"none", "enable", "spawn", "reconcile"}, pc : OpPcs, seen : Nat, seq : Nat,
   allowed : BOOLEAN, restore : BOOLEAN, stage : 0..2, token : Nat,
   next : {"idle", "plain", "clear", "unhash"}, by : {"none", "api", "cli"}]
DisPcs == {"idle", "d1", "hooks", "relay", "check", "check2", "again", "done", "failed"}
DisRecords == [kind : {"none", "api", "cli", "all"}, pc : DisPcs, lift : Nat]
HookRecords == [pc : {"idle", "stat", "lifted", "read", "revoked", "drop"}, lift : Nat]
TypeOK ==
  /\ revoked \in Markers
  /\ lifted \in Nat /\ global \in BOOLEAN
  /\ row \in Row /\ enabledFile \in BOOLEAN /\ hooksFile \in BOOLEAN
  /\ ctr \in Containers
  /\ backend \in {"boot", "up"}
  /\ op \in OpRecords /\ dis \in [Disables -> DisRecords] /\ hook \in HookRecords
  /\ dirty \in BOOLEAN /\ cut \in SUBSET Sources
  /\ stands \in [Disables -> {"none", "stands", "overlapped", "rewritten", "lifted"}]
  /\ ops \in 0..MaxOps /\ hooks \in 0..MaxHooks /\ faults \in 0..MaxFaults
  /\ ids \in Nat

\* Nothing under way, and no failure or crash a reconcile has not seen since.
Quiet == /\ op = IdleOp /\ backend = "up" /\ hook = IdleHook /\ ~dirty
         /\ \A d \in Disables : dis[d].pc \in {"idle", "done", "failed"}

\* From the moment its marker is written, a revocation is in effect until an
\* enable that began after it answered (or enable-all) lifts it: an enable
\* already in flight never lifts it, whatever fails or crashes, and one that
\* began while the disable was at work has its lift undone by the disable
\* (revocation.ts retireSessionRevocation, activation.ts disableSession).
RevocationStands ==
  \A d \in Disables : stands[d] \in {"stands", "rewritten"} => Revoked

\* Once everything settled, a revocation no later enable answered has won in
\* D1 as well: capture is not requested, so the next spawn prepares nothing,
\* and the hash of the container's token is not authorized (the conditional
\* writes on revocation_seq, reapplyRevocation).
RevocationWinsInD1 ==
  Quiet => \A d \in Disables : stands[d] = "stands" /\ dis[d].pc = "done" =>
             ~row.requested /\ ~(ctr.exists /\ ctr.token # 0 /\ row.hash = ctr.token)

\* Once everything settled, relay.enabled and conversation.json exist for a
\* container only under its authorization: requested, no revocation, its
\* token's hash in D1 (the re-check after each write, a disable's removals).
\* Except after a disable that had to put its marker back: it does so after
\* its removals, so what an overlapping enable or spawn wrote stays until
\* the next hook or reconcile (OverlapWinsInD1).
FilesOnlyIfAuthorized ==
  /\ Quiet /\ ctr.exists /\ (enabledFile \/ hooksFile)
  /\ \A d \in Disables : stands[d] # "rewritten"
  => row.requested /\ ~Revoked /\ Match(row)

\* "No authorisation that starts after `rename` returns admits the event": a
\* revocation in force from before a hook's check until its answer, the global
\* one or the session's (each of its markers in turn), never lets the hook in,
\* whatever is written, lifted or put back between the three reads. LIFTED is
\* read before REVOKED, so a lift of an older marker cannot hide a newer one.
\* It is said of each revocation by itself: a check between --all and the lift
\* of the session's marker may miss both, though one of them was in force all
\* the time (revocation.ts checkRevocation, readSessionRevocation).
NoAdmissionAfterCut == [][HookAdmitted => cut = {}]_cvars

\* CONVERSATION.md says a revocation an enable overlapped wins in D1 too: when
\* the disable put its marker back, capture is not requested in D1.
OverlapWinsInD1 ==
  Quiet => \A d \in Disables : stands[d] = "rewritten" => ~row.requested
=============================================================================
