# shared-terminal: a TLA+ model of the backend

`shared-terminal` serves terminals that run in one Docker container per
session. A Node process (the backend) owns the sessions: it keeps their rows in
Cloudflare D1, drives Docker, records what Claude does in a session's panes as
"conversations", and streams both to browsers. Nearly everything hard about it
comes from three facts: D1 and Docker answer late or not at all, the process may
die between any two requests, and several callers (users, sweepers, an operator,
an emergency command) act on one session at once.

This directory models the parts where those facts meet, checks them with TLC
and proves what it can with TLAPS. Paths below are relative to the repository.

## 1. Inventory

All under `backend/src/` unless said otherwise.

| component | state it keeps | operations | what makes it correct |
|---|---|---|---|
| lifecycle lock (`sessionLifecycleLock.ts`) | per session: holder, FIFO queue with timers; one guard | `run` = acquire (wait or fail), guard, body, release | one body at a time; no waiter lost; arrival order; the guard read under the lock |
| attempt record (`recreateAttempt.ts`) | one JSON file per session, replaced atomically; the set of attempts this process owns | begin, markUncertain, resolve, adopt, approve, recoverOnBoot, two gates | resolved only by its owner; after a restart only when adopted; never forgets a retained container |
| recreation engine (`recreate/*`) | attempts in memory, each with its epoch, requests in flight, lease and retry timer | recreate, rollback to the retained container, resolution passes, recover, approve, stop, boot pass | D1's container is never removed; one writer per workspace; resolved only on evidence |
| Docker manager and verbs (`dockerManager.ts`, `sessionManager.ts`, `routes/sessions.ts`) | D1 rows, containers, shared execs, attached clients | create, start, stop, kill, purge, reconcile, attach, detach | no container without a reference; no purge under a running container |
| capture authorization (`conversation/{captureAuth,activation,revocation,registry}.ts`) | D1 hash and `revocation_seq`; files `relay.enabled`, `conversation.json`, `REVOKED`, `LIFTED` | enable, disable, emergency disable, convergence | a revocation always wins; both files or neither; never a hash for another container |
| conversation store (`conversation/{store,reader}.ts`) | per conversation: queue, tally of drops, index in memory; events file, rotated file, index snapshot | enqueue, drain, append, rotate, flush, evict, recover, purge | seqs strictly increase on disk; a loss is reported as a gap where it happened |
| conversation socket (`conversation/ws.ts`) | subscriptions: mode, cursor, queue | subscribe, replay, live, pause and resync, unsubscribe | each persisted event after the cursor once, in order |
| ingest service (`conversation/{service,dedupe,normalize,state}.ts`) | pane bindings, epochs, tombstones, dedupe window | bind, release, probe, silence sweep, session down or purged | an event is attributed to the conversation its pane had |
| composer (`conversation/{composer,composerBg,paneRecord}.ts`) | per pane: durable record, active send, effects in flight | send, effects, ack, cancel, resolve, recover | text is typed at most once; the pane is blocked until no effect remains |
| bootstrap (`bootstrap.ts`) | per session: buffered output, listeners, in-flight runs | broadcast, subscribe, finish, drain | a subscriber sees every chunk once, then the end |
| terminal of a tab (`wsHandler.ts`, `attach`, `detach` of `dockerManager.ts`) | `shared` (one exec per tab), listeners, pids, tmux clients in the container | attach, detach, spawn, sweep, release, teardown | one exec for all sockets; none held for nobody; no client left behind |
| sweepers (`idleSweeper.ts`, `bellSweeper.ts`) | last activity; notified marks | sweep, bump, forget | an active session is not stopped; one push per bell |
| limits (`rateLimit.ts`, `wsUpgradeRateLimit.ts`, `inFlightLimiter.ts`, `userQuotas.ts`, `execRegistry.ts`) | counters and windows | acquire, release, expire | never above the cap; a slot returned once |
| accounts (`auth.ts`, `groups.ts`) | D1 rows | register, invite, login | an invite makes at most one account |
| ports (`portDispatcher.ts`) | proxied sockets | upgrade, close | a request reaches only its session's container |
| image pins (`imagePins.ts`), backup, files, git, config | tags, archives | pin, prune, validate | a pinned image outlives its tag |
| frontend (`frontend/src`), session image (`session-image`) | views, drafts; relay, seed scripts | | client side of the protocols |

**How they interact.** Every verb on a session (start, stop, delete, ports,
enable, recreate, and the resolution of a recreation) runs inside the lifecycle
lock; the lock's guard asks the attempt record, so an unresolved recreation
refuses every verb but its own resolution. The engine calls Docker and D1 through
ports and never aborts a request: a deadline only ends the waiting. Disabling a
conversation takes no lock: it races the engine's commit in D1, where conditional
statements decide. The ingest service offers events to the conversation store,
which numbers and appends them, then calls its listeners; the conversation socket is
one, and reads the same file to replay what a client missed. The composer types into a pane
through execs and learns from the event log whether the CLI took the text. The
bootstrap runs after the create has answered, outside the lock until its
teardown. The bell sweeper reads from the terminal whether anybody is there. At boot (`index.ts`) the records are marked, Docker is
reconciled, the engine's boot pass runs, and only then does the server listen.

**What is hard.** The hazards, each with the line where it bites and the
properties that watch it, are listed in `PROJECT.json`.

## 2. What is modelled

### `LifecycleLock`, against `SessionMutex`

`LifecycleLock` is the lock of one session: `holder` and `queue` are the map's
entry (`NoCaller`: no entry), `pc` says where each call of `run` is. `acquire`
is the three actions `AcquireFree`, `AcquireBusy` and `AcquireWait`; the
waiter's timer is `WaitExpires`; `Release` is a part of every way out. The guard
is awaited inside the lock: `GuardRead` is the read of the record, `GuardPass` and
`GuardRefuse` what `run` does with its answer, and anything may come between. `shut`
is the record on disk being unresolved. It moves: a recreate's body opens an
attempt (`OpenAttempt`), and that body or a resolution pass begins to write it
resolved (`ResolveBegins`), a write that lands whenever it does (`ResolveLands`),
also after T_rb made the body let the lock go. `ticket` is a ghost that numbers
arrivals, `arrival` one that keeps the gate as each call found it. `SessionMutex` is
what callers rely on, with no queue in it; the refinement maps a granted call to
`in` and a queued one to `waiting`.

### `AttemptRecord` and `Recreate`, against `SessionSwap`

`AttemptRecord` holds the record as a value and each transition of the store as
a guard (`MayResolve`, ...) and a function (`ResolvedRec`, ...).

`Recreate` is one session through its recreations:

* Docker: `cst`, `cname` per container. Container 1 is the first; attempt `a`
  creates `a + 1`. Names are the canonical one and the reserved ones.
* D1: `cid` (`container_id`), `hash` (the container whose token is authorized),
  `wanted` (`conversation_requested`), `gone`.
* Disk: `rec`, `hist` (the history, by attempt), `marker` (defer-skill-seed).
* Process: `up`, `stopped`, `lock` (which attempt holds it), `own`.
* An attempt: `plan` (what it remembers), `at` (where it is), `mode` (who waits
  for its pass), `late` (a request nobody waits for any more).
* The wire: `limbo` (a commit whose answer was lost and may still apply),
  `zombies` (requests of a process that died).

An attempt at a point such as `renameN` has that request out; the action that
leaves the point is the answer, together with what the engine does with it. So
between two points everything else may happen: another answer, a deadline, a
crash, a verb. `Deadline` is T_rec or a closed epoch: it moves the request to
`late`. `RollbackTimeout` is T_rb. A pass acts only while it holds the lock and
nobody called `stop()` (`MayAct`). A pass starts only once nothing is
unanswered (`Answered`) and the commit can no longer apply (`FinalCommit`, which
stands for the wait of T_d1).

`SessionSwap` is the promise: D1's container changes only between the two ends
of an open swap, only forward, and the row goes only when no swap is open. An
open or uncertain record is the open swap.

Faults are answers that err with or without the effect, lost commits, and record
writes that fail before the rename, or after it where `SyncFaults` says so.

### `EventLog`

One conversation's `store.ts`. Disk: `lines` (every line ever appended, `cuts`
where the file was rotated, `frag` for an unfinished line at the end) and `snap`
(`index.json`). Memory: two `entry` slots, since the hazard is a second entry for
one conversation, each with its index, its queue, the job its chain is at
(`job`, `step`), the tally (`drop`) and who waits for its snapshot (`want`);
`opening` is a load in flight and `writing` the one snapshot write in flight.
`AppendLands` is the write reaching the file and `AppendReturns` the code after
the `await`, so a crash, a reader or an eviction may come between them.
A behaviour meets the mishaps of one member of `Worlds`: a failing append with
or without part of the line in the file, a failing snapshot or rename, a full
global budget, crashes. `PersistedIsInFile` excepts a line glued to the unfinished
one a failed append left (only in that world): the code announces it although
no reader can parse it.

### `ConversationStream`, on top of `EventLog`

One browser on one conversation: `sub` (a subscription and the one it replaced,
whose replay may still be on its way out), `cur` (the entry of `subs`), `wire`
and `up` (the two directions of the socket), and the client's cursor `after`.
`Announce` is `AppendReturns` with the listener called in the same step, as in
the code. A replay is its awaits: the index, the gap frame, the open of the
file, each line, the end of the file, live. The file descriptor stays on the
file it opened (`cut`), also once that is renamed. `skipped` and `told` are
history: what the cursor jumped over, and how far the view is, that is the last seq it
was given, by a page too, or told of by a gap frame; an older gap does not move it
back. A `gap rotated` accounts for what was rotated away
since the replay began, not for what was gone before: that is the gap frame's part.

### `Capture`

One session's authorization. Disk: `revoked` and `lifted` (a marker has an
identity and `LIFTED` names the one it lifts), `global` (`REVOKED_ALL`),
`enabledFile` (`relay.enabled`) and `hooksFile` (`conversation.json`). D1:
`row` (requested, hash, suspended hash, `revocation_seq`). `ctr` is the
container with the token it was given. `op` is the body that holds the lock:
an enable, a spawn, the boot's reconcile; its points are the awaits of the write
procedure, where the authorization is read again before and after each file.
`dis` are the disables, which take no lock: the API's, the emergency command of
another process for one session or for all, each a sequence of writes to the
marker, the files and D1 and of reads that notice an enable which overlapped.
`hook` is a hook being admitted, whose last check is three reads (`REVOKED_ALL`,
`LIFTED`, `REVOKED`) with anything between them. The body under the lock takes
them in one step: nobody else writes `LIFTED` then. `stands` is history: what
became of each revocation; `cut` says which of the two sources, the global marker
and the session's, has been in force ever since the hook's check began.

### `Composer`

One pane. `disk` is the pane's record, `mem` the record each live operation
holds, `live` the entry of the pane, `lock` and `job` the pane lock and the
procedure that has it (recovery, resolve, release, a late answer). `pc` says
where each request's continuation is, `x` what became of each exec in Docker;
`typed` and `prompted` are what acted in the pane and what the CLI reported,
`logged` the outcome in the log. T_http (`THttpAnswers`, `CancelActive`) and a
shutdown act from outside the lock, as in the code; a crash leaves the record,
the execs and the log.

### `Bootstrap`

One session's first container: `row`, `box`, `run` (where `runAsyncBootstrap`
is, the verdict, the cap's timer), `op` (create, start, stop, delete or the
teardown's kill under the lock; a hard delete terminates the row, purges the
workspace and drops the row, and a purge that fails leaves the row terminated), `entry` (the broadcaster's buffer, listeners
and terminal message), `subs` (the clients' sockets and what each was sent),
`server` (the shutdown and what its drain awaits). Subscribing and the replay of
the buffer are one step because the replay's microtask runs before any other
callback.

### `SharedTerminal`, and `BellSweeper` on top of it

The terminal of one tab. `slot` is the entry of `shared`, `exec` every exec ever
asked for: `st` is its stream (asked for, ready, over), `client` the tmux client
at its other end, and the two end separately. `cut` is a teardown that
found it still being spawned; `sweep` and `release` are the two scripts sent into
the container, which may run at any later moment, also after the backend
died. `sock` is how far each socket's attach is: waiting for the exec, capturing
the snapshot, joining, attached; a socket that closes before it is attached
is only marked. `verb` is a kill or a tab's deletion between its two halves.

`BellSweeper` adds tmux's flag, the owner's mark and a set of sweeps (the run
has one at a time, `MCBellSweeperOverlap` two that overlap); each step of the
terminal is a step of it, so a bell may ring, a socket come and a sweep go on in
any order. `pushed` counts pushes since somebody was last
there.

## 3. Runs

| run | instance | shows |
|---|---|---|
| `lock` | 4 calls: one fail-fast recreate, one exempt resolution; 6 calls made in all | no lost waiter, order, no body under a recreation's attempt, every queued call leaves, refinement |
| `recreate` | 2 attempts, 2 faults, 1 crash, 1 hand-started container | the safety properties below, the refinement, progress |
| `recreate_crashes` | 1 attempt, 2 faults, 2 crashes, record writes that fail late | what a dead process left waits for an operator; D1's container survives |
| `log` | 4 events offered, queue of 2, files of 3 lines, a snapshot every 2, 2 mishaps of one of four worlds | seqs, what is in the file, losses, the purge |
| `stream` | 2 lines to catch up with, 1 event that rotates the file, budgets of 1 and 2 frames, 1 lost connection, 1 reopening | no silent hole, frames in order, bounded memory, the client catches up |
| `capture` | 1 API disable, 1 emergency command (one session or all), 2 operations under the lock, 1 hook, 1 fault | a revocation wins over everything under way |
| `composer` | 2 requests with one message id or two, 2 execs each, 2 troubles | the blocker, at most once, failed means not entered |
| `composer_live` | 1 request, 2 troubles | a hanging exec keeps neither the lock nor the answer |
| `bootstrap` | 2 clients, 1 verb of four, 1 fault, 1 stage, 2 chunks, a buffer of 1 | nothing stranded, the whole log, the end is told |
| `terminal` | 2 sockets, 3 execs, 2 troubles, 3 sweeps of the bell, one at a time | who holds the exec, which clients live, who is pushed to |
| `composer_late`, `bootstrap_stop` | smallest that show it | two disagreements (section 6) |

The other configurations in this directory are run by hand (`tlc -config
<X>.cfg <M>`): those of section 6, and larger or other instances that
pass: `MCRecreateFsync` (record writes that fail after their rename),
`MCSharedTerminal` (three sockets without the sweeper, with the type invariant),
`MCComposerFailed` (an id once answered `failed` is never handed over).

**Properties of `Recreate`.** `CurrentExists`: D1 never names a container that
is gone. `OneWriter`: two containers never run over one workspace unless a
person started one. `GateCoversAttempts`: while the engine holds an attempt
outside the lock, the gate is closed. `NothingForgotten`: at rest no container
exists that neither D1 nor the record names. `CleanAtRest`: at rest the names
are right and the marker is gone. `DisableWins`: the authorized token never
survives a disable.
`ResolvedOnEvidence`: a record is resolved only with nothing out and with D1 and
Docker showing the outcome. `OrphansWait`: the boot resolves nothing.
`SeedOnlyAfterCommit`: no other container starts without the marker.
`Resolves`: an attempt of a process that keeps
running opens the gate again, unless a person started a container by hand.

**Properties of the log and the stream.** `SeqsIncrease`: over every file and
every reopening, seqs strictly increase. `PersistedIsInFile`: what the listeners
were told is in the current file, from the first retained seq on, but for a line
glued to a torn one. `LossKept`: a loss is in a tally or in the report being
written; a tally that left memory with its entry is no longer owed. `PurgedStaysEmpty`: nothing
comes back after a purge. `NoSilentHole`: the client's cursor jumps over a
persisted event only if it was told by a gap frame, or the event was rotated
away under the replay and the `gap rotated` is still to come. `WireInOrder`:
one subscription's frames in order, and none after those of its successor.
`CaughtUp`: again and again everything persisted has reached the client.

**Properties of the capture.** `RevocationStands`: from the moment its marker is
written a revocation is in effect until an enable that began after it. `RevocationWinsInD1`,
`FilesOnlyIfAuthorized`: once everything settled, D1 and the files say the
same. `NoAdmissionAfterCut`: a revocation that was in force from before a hook's check
until its answer refuses the hook, whatever is written or lifted meanwhile. It is
said of the global revocation and of the session's each by itself, since a check
that a hand-over from one to the other overtakes may miss both (section 6).

**Properties of the composer.** `BlockerOnDisk`: while an exec may still act in
the pane, the record names it. `AtMostOnce`: two requests with one id never both
type. `FailedNotEntered`: what is released as failed was not submitted.
`ExecutorEnds`, `RequestAnswered`: progress while Docker hangs.

**Properties of the bootstrap.** `NotStranded`: no session is left running and
never bootstrapped with nobody to finish it. `WholeLog`: a client gets what the
buffer held, all that comes after, in order and once, and then the end, once.
`RunEndsTold`: a run that was cut or is over ends and every client still there
is told.

**Properties of the terminal.** `NoLeakedExec`: the slot's exec has a socket, or
an attach that will look whether its socket is still open. `JoinsLive`: no attach registers on
an exec torn down meanwhile. `LiveClientSurvives`: no script, however
late, ends the client of the exec the sockets listen to. `OncePerAbsence`: one
push per bell while the owner stays away.

**Bounds.** `MaxCalls` 6 with 4 calls lets a queue of three form and a call come
back after it was refused. `MaxAttempts` 2 is the least that has a carry-over
followed by a rollback to the retained container, or a second recreation over a
first one's leavings; with one more attempt nothing new is reachable but a longer
history, which no property reads. Two faults are the least that make a
step fail and its rollback fail as well, or a commit be lost and then the pass
that looks for it; two crashes, a crash during what follows a crash. Both
bounds are constants, and the theorems hold for any value.
In the log, files of 3 lines and 4 events rotate once and go on in the new
file; 2 mishaps are a failed append and a failed report, or a crash during what
followed a crash. In the stream, the one event fills the file, so two lines are announced,
one before the rotation and one after it, and each budget is exceeded by
one frame.
In the capture, one disable of each side suffices for a lift of one marker to meet
the other, and two operations for an enable before and one after it. In the
composer two requests are a send and its retry or its successor, two execs a
text and its Enter; two troubles, a crash or a resolve in what followed one. Two
bootstrap verbs already give the counterexample of `bootstrap_stop`, so that
run has one. In the terminal three execs are one that is left, one that replaces it
and one whose attach began again; an attach begins again twice at most. Three
sweeps are the least in which one clears the mark, one pushes and one could push
again. Sweeps start every 15 s whether or not the last one is over; the
run takes them to be shorter than that, since nothing else keeps two apart
(section 6, 15).

**Deadlock** is not checked in these runs: the bounds end every
behaviour, and a session may be deleted and everything stop.

**Type invariants** are checked in no run: all are proved (`BellTypeOK`, and the
types of the log and the bootstrap, as parts of the inductive invariants).

**Fairness.** For the lock: the record's file is read or written or the call fails, and bodies end (each verb has
bounded waits). No fairness is put on timers, so `QueuedCallsLeave` says that the
queue itself moves. For the engine (`FairSpec`): its own steps are taken while
they can be (timers and continuations of an event loop), Docker answers every
request some day and a lost statement is final some day (T_d1). Nobody is
assumed to start, stop, recover, approve or shut down, and a crash ends what
`Resolves` promises, since a dead process's attempt waits for an operator by design.
For the composer: the file system answers and the T_http timer fires; none on
Docker's answers, on acks or on an operator. For the bootstrap: Docker and D1
answer and the cap's timer fires; hooks need not end, and
nobody need come, leave or shut down.
For the stream: the chain that drains the queue goes on, the event loop serves
the socket, and the client reads and reconnects (its backoff timer). Nobody is
assumed to offer events or to reopen the view; a client that does not read
would be closed with 1013 after 30 s.

## 4. Proofs

Each proof module proves its theorems for any value of the constants: any number
of calls, attempts, faults, crashes, sockets, events. What a run of section 3
shows on a small instance is here a theorem, under the hypotheses named below.
Every safety invariant has the same argument: an inductive invariant that implies it
holds at first and is kept by every step, one lemma per action or family of
actions.

| module | theorems | under |
|---|---|---|
| `LifecycleLockProofs` | `TypeCorrect`, `QueueAgrees`, `Exclusion`, `FirstComeFirstServed`, `GateAlwaysHolds`, `LockImplementsMutex` | |
| `RecreateProofs` | `TypeCorrect`, `HashAlwaysFollows`, `DisableAlwaysWins`, `OrphansAlwaysWait` | |
| the same | `GateAlwaysCovers`, `CurrentAlwaysExists`, `CurrentNeverRemoved`, `RecreationImplementsSwap`, `AlwaysResolvedOnEvidence`, `SeedAlwaysDeferred`, `AlwaysOneWriter`, `NeverForgotten`, `AlwaysCleanAtRest` | `Calm` |
| `CaptureProofs` | `CaptureTypes`, `RevocationAlwaysStands`, `RevocationAlwaysWins`, `FilesAlwaysAuthorized`, `NeverAdmittedAfterCut` | |
| `EventLogProofs` | `SeqsAlwaysIncrease`, `PersistedReadableUnlessGlued`, `LossKeptUntilReportedOrEvicted`, `PurgedAlwaysEmpty` | `Tame` |
| `ConversationStreamProofs` | `StreamWireInOrder`, `StreamWithinBudgets`; `StreamNoSilentHole` | the last: `~StalePages` |
| `ComposerProofs` | `ComposerTypes`; `ComposerBlockerOnDisk`, `ComposerFailedNotEntered`; `ComposerAtMostOnce` | the first: nothing; then `~LateRejects`; the last also `Reopened` |
| `BootstrapProofs` | `WholeLogAlways`; `NeverStranded` | the second: `FewStarts /\ ~LateCreate` |
| `SharedTerminalProofs` | `TerminalTypeCorrect`, `NoExecIsLeaked`, `AttachJoinsLive`, `SlotClientSurvives`; `PushedOnce` | the last: `OneAtATime` |

Every hypothesis holds in the run that checks the property. Each is there because
the property breaks without it, as a run or a configuration run by hand shows:
`Calm` (record writes do not fail after their rename; an operator waits until
what a dead process sent is final) by `MCRecreateFsync`, `MCRecreateFsyncGate` and
`MCRecreateEarly`; `Tame` (nothing is offered to an entry that `close()` is letting go, no
crash and no failed append between a rotation and the new file's first line) by
`MCEventLogRotation` (the race with `close()` is described in section 6); `~LateCreate` by `MCBootstrapDrain`; `OneAtATime` by
`MCBellSweeperOverlap`; `FewStarts` (nobody starts the session, or there is one
request in all) by the configuration of `bootstrap_stop`, where `NotStranded` breaks
as `FailedNeverRuns` does: a start alone is harmless, a stop and then a start
strand the session.
`~LateRejects` (a creation is not rejected after its operation was cancelled) is what
`composer_late` is about. `Reopened` (the index a new process opens kept every
release) fails after the crash listed at the end of section 6. `~StalePages` (a
view opens the stream from the page it just read) is shown needed by
`MCConversationStreamReopen`. The log below the stream needs no hypothesis:
it starts with one entry, and rotates, but is not evicted, closed or purged.

**The lock.** The inductive invariant is `TypeOK /\ QueueMatchesCalls`:
exclusion alone is not inductive, because a release hands the lock to the head
of the queue, which must be a call that is waiting, once, and not one already
inside. `RemoveOne` says what splicing one waiter out of a queue without
repetition leaves. For the refinement a release of a lock with a queue is the
abstract hand-over and one without is a leave. `Fifo` needs besides that no number
in the queue is beyond the calls made so far. `NoBodyUnderAttempt` needs the same
invariant: only a body shuts the gate, a body is past the guard, and the call past
the guard is the only one inside, so what the guard read stays true until that
call itself opens an attempt; a late resolution only opens the gate.

**The recreation, without `Calm`.**

* `HashFollows` and `DisableWins`, from one lemma: only commits, the purge and the
  disable change the row (`RowChanges`). A commit moves hash and container in
  one statement, conditional on `conversation_requested`; so neither needs
  anything of the engine's control, which is why they hold even of a statement
  that applies after a crash.
* `TypeOK`, by one lemma per family of actions and the types of the helpers.
* `OrphansWait`: every step that opens the gate again is a resolution by an
  owner, a purge of an already open one, or leaves the record alone. One lemma
  per family again; `MovesKeepClosed` covers the steps that only mark or keep.

**The recreation, with `Calm`.** The invariant is a stack of layers, each
kept by every step given those below it. `Control`: who holds the lock, whose the
record is, what is on the wire. `Sides`: on which side of the commit
each point of an attempt stands, and so which containers it can name. `Kept`: what
is named was not made by an attempt that was rolled back. `Present`: what an
attempt still needs is there, and no removal on the wire is of D1's container;
with the layers below it gives `CurrentExists` and the refinement, where D1's
commit is the abstract swap and the resolution its end. `Evidence`:
what a pass has seen when it comes to the record is still so, which is
`ResolvedOnEvidence`. `Aims` and `Seeds`: what requests nobody waits for any
more are about, and that one that starts a container finds the marker. On all of these
`Writers`, `Remains` and `NamesKept` give `OneWriter`, `NothingForgotten` and
`CleanAtRest`. The order matters: "no other container runs" is not kept by a start
that lands late unless it is known which container it was aimed at and that its
attempt is still unresolved.

**The capture.** `CaptureInv` says for each point of the body under the lock, and
for each disable under way, what it has still to undo (`D1Wins`, `Files`): D1 may
authorize a token that a standing revocation covers as long as somebody who
will look again has not yet. `SeenOld` and `IdsOld` date what was read, so that a lift never names a
marker younger than its enable. `HookCut` follows the three reads: a hook past the
first is not cut off by the global marker, and what it read in `LIFTED` does not
name the session's marker in place.

**The log.** `EntryInv` is about memory: one entry at most, none while one is
being opened, a write for each that is leaving, nobody left to write when a purge
removes. `FileInv` is about the file: the index in memory covers all lines (but
the one whose `await` is still out, which has the next seq), each index that was
saved, is being saved or was read covers the lines up to its offset, and a reopening
makes a covering index of one that covers (`RecoveryIsRight`). `SeqsIncrease` is
not inductive without this: the next seq comes from the index in memory, which
may come from a snapshot older than the file.

**The stream.** `FileInv`: one entry is at work and nothing is lost, so a line's seq
is its place in the file, and a descriptor that stayed on a rotated file reads
between two cuts. `StreamInv` is about order: the subscription in the map has
sent its events up to its `last`, the frames of an older one are before its own,
and what it holds is the end of what was announced; this is `WireInOrder`.
`FairInv` looks at whatever frame comes next to the client (`FrameFair`):
each persisted seq between how far the view is and that frame is carried by a
frame before it (`Counted`), told of by a gap before it, or was rotated away with
its `gap rotated` to come; and the same of what the subscription has still to send
(`SubFair`). `NoSilentHole` alone says nothing of frames on the way, so it is not
inductive; a cursor that is re-followed while frames of the previous
subscription are still on the wire is what the clause on those is for.
`BudgetInv` is the two budgets.

**The composer.** The core of `IInv` is `Holds`: whoever may still write the pane's
record (`Engaged`: an operation past its announcement, one whose procedure
runs, the live one) has it on disk as its own (`Mine`), or was released and
removed (`Gone`), or a shutdown found nothing unreleased (`Quiet`). Without it no
two operations can be told apart: a late release that returns after the next
prompt was prepared would remove the wrong record. `Seats` ties the
lock, `live` and the cancelled operations to their points, `Task` and `Awaits`
say the same of the procedure under the lock; `Fresh`, `Opened` and `Course` how
far an operation has come. From these, `Truth`: a record, in memory or on disk,
says of each exec nothing that is not so; `Traced`: what acted is on disk or
released; `Released`: what was released has no exec that may act. They give
`BlockerOnDisk` and `FailedNotEntered`. For `AtMostOnce`, `Single`: of one message id
one request has a claim to the lock, the record, the procedure or the index; `Recalls`
needs an index that kept every release.

**The bootstrap.** `Course`: the run goes forward only (`Onward`). `LogInv`: the
buffer is the last chunks (`BufferHolds`), and each client has everything from
where its buffer began (`GotAll`). `RowInv`: a session neither
bootstrapped nor given up has somebody who will come to its row, or was revived by a
start and its container is down or about to be killed (`Revived`); a start only meets a run
that has yet to kill the container (`StartMeets`), and a drain that found no run
finds none later (`DrainSawAll`).

**The terminal.** The inductive invariant has three parts. `SlotInv`: the slot holds
an exec that is asked for or ready, only that one may be ready, and an exec that
is still being spawned elsewhere is to be destroyed when it is there. `UseInv`:
each attach is at an exec of the state it believes, each listener of the slot's
exec is a socket that will detach from it, and the slot's exec has somebody;
this is what a socket that closes in the middle of its attach could break.
`Shots`: a release is for an exec that is over, and the clients older than a
ready exec's, which its sweep detaches, belong to execs that are over; since no
exec comes back from there, a script may run as late as it likes. Each action is
followed through the helper it is made of (`AcquireKeeps`, `DetachKeeps`,
`TornDownKeeps`, `ClientsKeep`, `OverKeeps`). For the two action
properties `OtherSteps` says that all but four steps leave listeners and
scripts alone. `BellInv` adds that an episode pushed for in this absence is
marked while its flag may still be read, and that no answer read before it can
take the mark off.

**Induction.** The library's induction theorems take an operator, which no prover
here can instantiate. Where a proof needs one (the greatest seq of a file that
may be of any length) it takes the least element of a set of naturals instead
(`NatMin`, from the well-foundedness of `<`).

**What the proofs corrected.** Two definitions had overlapping `CASE` arms, whose
choice TLA+ leaves open (`NextPass`, `Hear`): TLC takes the first, a theorem cannot. And
the bell's run had too few sweeps to see that two that overlap push twice. In the
stream the history `told` was the last gap frame, so an older one moved it back
and `NoSilentHole` was false at bounds beyond the run's (TLC shows it there); it
is now how far the view is. And what a subscription has yet to send is a cut of
its queue, which is in order, instead of a selection from it. In the composer the
requests have to be distinct from the names of what else may hold its lock.

**Assumptions:** the named ASSUMEs of the modules (bounds are naturals, switches are
Booleans, `NoCaller` is no caller). TLC evaluates them in every run.

**Only model-checked:** the liveness properties `QueuedCallsLeave`, `Resolves`, `CaughtUp`,
`ExecutorEnds`, `RequestAnswered` and `RunEndsTold`: fairness and ENABLED are out of the
prover's reach. Every safety property of a run that passes is a theorem; of the
configurations run by hand `FailedStays` has no proof. It needs more than `IInv`:
that an operation answered `failed` before any exec began is on disk or logged, also
while a shutdown goes on, where `Quiet` asks this only of those that acted.

## 5. What is left out, and why

* In `Recreate`: preconditions about layers, images, skills and CLI versions (a
  precondition only refuses); execs inside N, including those with an unknown
  exit (a step that may fail); ports, the status column and the other capture
  files; enabling again, the suspended hash; soft delete and the respawning
  start; the order of the lock's queue (`LifecycleLock` has it: here the lock is
  free or taken). Start, stop and the hard delete are one step each. A request that
  was answered with an error never applies later.
* An operator who recovers, approves or rolls back does so when nothing of a
  dead process can still apply, unless `EarlyRecovery`: the code asks for
  stopped containers and no more, so this is an assumption on people, and
  the configuration `MCRecreateEarly` shows what it is worth.
* Recovery's three passes are not counted: each may be followed by another or by
  giving up.
* In `EventLog`: what an event says, the agents, messages and composer tallies of
  the index, the metadata updates, how much was lost and why, more than one
  conversation (the eviction of this one is another's opening). Nobody
  offers an event while `close()` awaits its snapshot (world "close race"), and no
  crash falls between a rotation and its first line (world "rotation"), but in
  the configurations that say so. An offset of a rotated file is past the end of the new
  one. After a purge the session is not offered anything: its row is gone.
* In `ConversationStream`: the log rotates but is not evicted, closed or purged and
  no write fails; status and hello frames, several conversations on a socket, the caps
  on sockets and subscriptions. Frames are counted, not measured.
* In `Capture`: the 60 s cache of tokens (any token of the running container may
  pass the first check), the relay's capability and its attestation. Enables are
  serialized by the lock. A kill leaves the files until the next spawn or
  reconcile; the boot's reconcile skips a stopped session without files. A
  hook refused on a stale reading may remove `relay.enabled` after a later
  enable: it fails closed.
* In `Composer`: the background transport (`composerBg.ts`), texts of several
  segments, a prompt that reached another conversation, unreadable records, why
  a precondition refuses. With the same text twice, acks may be attributed to
  the wrong send. An exec created but never started after a failed record write
  stays pending until its container goes.
* In `Bootstrap`: what the stages do, port mappings and probes, the rollback of a
  failing spawn, a create with only a postStart command.
* In `SharedTerminal`: what is typed and shown and the order of the replay, sizes
  (a resize that fails is not retried, as `appliedSize` is set first), observers,
  clients that started in the same tick, pids used again after the container
  restarted. A sweep detaches what tmux lists when it runs; an unlisted client
  waits for the next sweep. `deleteTab` racing an attach brings the tab back
  (`new-session -A`), since the session is created on the way. In
  `BellSweeper`: other sessions and tabs. A tmux client that outlived
  its exec counts as viewing and mutes the bell.
* The idle sweeper: its stop takes the lock in the mode that fails, so it never waits,
  and a judgement that is stale costs one re-attach.
* An invite is claimed before its account is inserted, and given back when that
  fails (`auth.ts:117`): a crash in between wastes it, and never makes two accounts.
* Limits and quotas are counters changed and read in one synchronous step.
* The ingest service transforms data; its pane bindings and the silence sweep
  are left out. The other components with status `not_modelled` are in
  `PROJECT.json`, with the reasons there.

## 6. Where the code and its comments disagree

Two have a run:

1. `composer_late`: an exec whose creation is rejected after T_http ended its
   operation writes that operation's record, without the pane lock, over the
   record of the send that has the pane now (`composer.ts:1209`, against
   `docs/CONVERSATION.md:2228-2231`).
2. `bootstrap_stop`: a stop under way while the bootstrap fails writes `stopped`
   over `failed`, and the next start runs a container nobody bootstrapped
   (`bootstrap.ts:850`, against `routes/sessions.ts:868-875`).

The others are shown by a configuration run by hand:

3. `MCRecreateEarly`: `recover()` does not wait until the dead process's commit
   statement is final, so the container D1 ends up naming can be removed.
4. `MCRecreateFsyncGate`: a resolving write that fails after its rename leaves the
   gate open over an attempt the engine still works on; with a second attempt
   a pass of the first then removes the second's defer marker.
5. `MCRecreateShutdown`: `stop()` during `begin()` of a rollback to the retained
   container does not stop it.
6. `MCEventLogRotation`: a crash between a rotation's rename and the first line of
   the new file makes the store give out seqs again, if the snapshot is older.
7. `MCConversationStreamReopen`: reopening a conversation from an older page while
   frames of the previous subscription are coming leaves a hole in the view, since
   `target.after` moves forward over events the new replay has yet to send.
8. `MCCaptureOverlap`: a disable that an enable overlapped puts its marker back
   but not what it wrote in D1 (`activation.ts:518-549`, against
   `docs/CONVERSATION.md:321-323`).
9. `MCComposerAck`: a valid ack that arrives while effects are pending does not
   keep the operation from ending as failed (against `docs/CONVERSATION.md:2316-2318`).
10. `MCBootstrapCap`: a wall-clock cap that fires while an exec is being asked for
   does not end the run: `streamExec` listens to the signal only once the exec
   is there, and does not look whether it fired (`dockerManager.ts:1892-1894`,
   against `bootstrap.ts:36-48`). The run then lasts as long as the hook.
11. `MCBootstrapDrain`: a create still in progress at the shutdown starts its
   bootstrap after the drain took its list (`bootstrap.ts:453-469`, `index.ts:658-703`).
12. `MCSharedTerminalOrphan`: after an exec's stream ended and another socket's
   attach made a new one, what an old socket types goes to an exec whose output
   it does not get (`dockerManager.ts:2401-2407`, `:2845-2849`).
13. `MCBellSweeperMissed`: a visit shorter than the sweep's interval leaves the
   mark, and the next bell is never pushed (`bellSweeper.ts:17-20`).
14. `MCBellSweeperViewer`: the owner may come between the check and the push
   (`bellSweeper.ts:14`).
15. `MCBellSweeperOverlap`: `start()` begins a sweep every 15 s whatever became of
   the last (`bellSweeper.ts:86-90`). A slow one that still holds a flag it read
   before the owner came, saw the bell and left again takes the mark off, or
   pushes, for the bell the next one already pushed for: two pushes in one
   absence, against `bellSweeper.ts:16` ("push to the owner ONCE per bell
   episode").

Each is a small instance; the counterexample TLC prints is a handful of steps.

Seen while modelling, with no run of their own:

* a rollback whose `begin()` fails after its rename forgets the retained container
  (`engine.ts:2095`; `NothingForgotten` with `SyncFaults`);
* an entry with a tally not yet reported is idle for `evictIfNeeded` and `close`:
  the loss is never reported (`store.ts:960`, against the header's lines 18-20);
* an event offered while `close()` awaits its snapshot is appended by an entry
  nobody holds, beside the next one's appends (`store.ts:992`);
* a drop of another scope, and a drop while a report fails, replace the count
  (`store.ts:651`, `:703`); the report goes ahead of events accepted before the loss;
* a subscription that reads the index during a rotation sees
  `firstRetainedSeq` 0 and gets no `history_rotated` frame; the `gap rotated`
  event follows (`ws.ts:292`);
* a hook's check that saw no `REVOKED_ALL`, and was then overtaken: `--all`
  wrote it, and an enable that had passed its own check lifted the session's
  marker. The check finds neither and the hook is admitted, although one of the
  two was in force all the time (`revocation.ts:205`, `:153`). Neither by itself
  was in force throughout;
* after a crash, a message id whose release was not in the index snapshot can be
  sent again (`Reopened = FALSE` in `Composer`);
* a client that subscribes after the broadcaster's entry was collected waits for
  ever (`bootstrap.ts:214-221`), and a bootstrap socket that closes during its
  ownership check leaves its listener.

## 7. Plan

In order; each module gets its run, its mutants and, where it can be proved, its
proofs.

1. `LifecycleLock`, `SessionMutex` (done, proved).
2. `AttemptRecord`, `Recreate`, `SessionSwap` (done, proved).
3. Conversation stream: `EventLog`, `ConversationStream` (done, proved). Left: an
   abstract log each client reads once, in order, as a refinement.
4. Capture authorization: `Capture` (done, proved).
5. Composer: `Composer` (done, proved). Left: the background transport.
6. `Bootstrap`, `SharedTerminal`, `BellSweeper` (done, proved). Left: spawn with
   its rollback, adoption by name and port mappings; the ingest service's pane
   bindings and epochs; the idle sweeper and the limits.
