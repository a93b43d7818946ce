--------------------------- MODULE SharedTerminal ---------------------------
(***************************************************************************)
(* The terminal of one tab: attach(), detach(), spawnSharedExec(), the     *)
(* teardowns of kill() and deleteTab() of dockerManager.ts, the two        *)
(* in-container one-shots that end tmux clients (#444), and the socket     *)
(* handler of wsHandler.ts around them.                                    *)
(*                                                                         *)
(* All sockets of a tab share one exec (`slot`, the entry of the map       *)
(* `shared`). An exec has two ends: the stream the backend reads and the   *)
(* tmux client in the container, and ending one does not end the other.    *)
(* A step is what runs between two awaits; callbacks of a promise that is  *)
(* settled run in the step that registers them. Left out: what is typed    *)
(* and shown, viewports and sizes, observers, the capability checks before *)
(* attach(), pids used again after a restart of the container.             *)
(***************************************************************************)
EXTENDS Integers

CONSTANTS
  Clients,      \* sockets; a client that comes back is another one
  MaxExecs,     \* bound: execs spawned
  MaxTroubles   \* bound: failures, crashes, deletions, stops, detached clients

ASSUME TerminalAssumption == MaxExecs \in Nat \ {0} /\ MaxTroubles \in Nat

VARIABLES
  slot,      \* the exec `shared` has for the tab; 0: none
  exec,      \* the execs, numbered as they are asked for
  sock,      \* the sockets and how far their attach is
  box,       \* the container runs or not
  verb,      \* kill(): container gone, teardown to come; deleteTab(): kill-session sent
  boots,     \* deaths of the backend process
  troubles

vars == <<slot, exec, sock, box, verb, boots, troubles>>

Execs   == 1 .. MaxExecs
NoExec  == [st |-> "none", cut |-> FALSE, to |-> {}, client |-> "none",
            older |-> {}, pid |-> FALSE, sweep |-> FALSE, release |-> FALSE]
Socket(pc, on, try, open, keyed) ==
  [pc |-> pc, on |-> on, try |-> try, open |-> open, keyed |-> keyed]
Outside == Socket("out", 0, 0, FALSE, FALSE)
Ended   == Socket("ended", 0, 0, FALSE, FALSE)

ExecRecords ==
  [st : {"none", "asking", "ready", "over"}, cut : BOOLEAN, to : SUBSET Clients,
   client : {"none", "starting", "listed", "gone"}, older : SUBSET Execs,
   pid : BOOLEAN, sweep : BOOLEAN, release : BOOLEAN]
SockRecords ==
  [pc : {"out", "waiting", "capturing", "joining", "attached", "ended"},
   on : 0 .. MaxExecs, try : 0 .. 2, open : BOOLEAN, keyed : BOOLEAN]

TypeOK ==
  /\ slot \in 0 .. MaxExecs
  /\ exec \in [Execs -> ExecRecords]
  /\ sock \in [Clients -> SockRecords]
  /\ box \in {"up", "down"} /\ verb \in {"none", "killing", "killtab"}
  /\ boots \in Nat /\ troubles \in 0 .. MaxTroubles

Init ==
  /\ slot = 0
  /\ exec = [e \in Execs |-> NoExec]
  /\ sock = [c \in Clients |-> Outside]
  /\ box = "up" /\ verb = "none" /\ boots = 0 /\ troubles = 0

Trouble   == troubles < MaxTroubles /\ troubles' = troubles + 1
NoTrouble == UNCHANGED troubles
Fresh(e)  == exec[e].st = "none" /\ \A f \in 1 .. e - 1 : exec[f].st # "none"
Started   == {e \in Execs : exec[e].client # "none"}
InBox(x)  == x.client \in {"starting", "listed"}

-----------------------------------------------------------------------------
(* Attach and detach                                                        *)

\* attach() from its start: the exec of the slot, or a new one for the tab.
Acquire(c, try, open) ==
  LET joins(e, pc) == [sock EXCEPT ![c] = Socket(pc, e, try, open, FALSE)]
  IN \/ /\ slot # 0
        /\ sock' = joins(slot, IF exec[slot].st = "ready" THEN "capturing" ELSE "waiting")
        /\ UNCHANGED <<slot, exec>>
     \/ \E e \in Execs :
        /\ slot = 0 /\ Fresh(e) /\ slot' = e
        /\ exec' = [exec EXCEPT ![e].st = "asking"]
        /\ sock' = joins(e, "waiting")

Leaves(c) == sock' = [sock EXCEPT ![c] = Ended]

\* The backend lets go of an exec: its stream is destroyed or never was.
Over(x) == [x EXCEPT !.st = "over", !.cut = FALSE, !.to = {}, !.pid = FALSE]
\* The last listener gone, the exec is; its client is told to go, by its pid.
Closed(x) == [Over(x) EXCEPT !.release = x.pid]

\* detach(): through the exec the slot has now, which may not be the one the
\* socket listened to. One that is being spawned is destroyed when it is there.
Detach(c) ==
  LET rest == exec[slot].to \ {c} IN
  \/ /\ ~sock[c].keyed \/ slot = 0
     /\ UNCHANGED <<slot, exec>>
  \/ /\ sock[c].keyed /\ slot # 0 /\ exec[slot].st = "asking"
     /\ exec' = [exec EXCEPT ![slot].cut = TRUE] /\ UNCHANGED slot
  \/ /\ sock[c].keyed /\ slot # 0 /\ exec[slot].st = "ready" /\ rest = {}
     /\ exec' = [exec EXCEPT ![slot] = Closed(@)] /\ slot' = 0
  \/ /\ sock[c].keyed /\ slot # 0 /\ exec[slot].st = "ready" /\ rest # {}
     /\ exec' = [exec EXCEPT ![slot].to = rest] /\ UNCHANGED slot

\* A socket came and is allowed to attach.
Connect(c) ==
  /\ sock[c].pc = "out"
  /\ Acquire(c, 0, TRUE)
  /\ UNCHANGED <<box, verb, boots, troubles>>

Registers(c) ==
  sock' = [sock EXCEPT ![c] = Socket("joining", 0, 0, sock[c].open, TRUE)]

\* Mutation: registers on the exec it awaited, whatever became of it.
CapturedUnchecked(c) ==
  /\ sock[c].pc = "capturing"
  /\ exec' = [exec EXCEPT ![sock[c].on].to = @ \cup {c}]
  /\ Registers(c)
  /\ UNCHANGED <<slot, box, verb, boots, troubles>>

\* The snapshot is there, or failed. If the slot has changed since, attach()
\* begins again, twice at most; else the listener is registered.
Captured(c) ==
  /\ sock[c].pc = "capturing"
  /\ \/ /\ sock[c].on = slot
        /\ exec' = [exec EXCEPT ![slot].to = @ \cup {c}]
        /\ Registers(c) /\ UNCHANGED slot
     \/ /\ sock[c].on # slot /\ sock[c].try < 2
        /\ Acquire(c, sock[c].try + 1, sock[c].open)
     \/ /\ sock[c].on # slot /\ sock[c].try = 2
        /\ Leaves(c) /\ UNCHANGED <<slot, exec>>
  /\ UNCHANGED <<box, verb, boots, troubles>>

\* Mutation: nobody looks whether the socket closed meanwhile.
JoinedUnseen(c) ==
  /\ sock[c].pc = "joining"
  /\ sock' = [sock EXCEPT ![c].pc = "attached"]
  /\ UNCHANGED <<slot, exec, box, verb, boots, troubles>>

\* The resize and D1 answered: the socket is served, or was closed during
\* the attach and is detached now.
Joined(c) ==
  /\ sock[c].pc = "joining"
  /\ \/ sock[c].open /\ sock' = [sock EXCEPT ![c].pc = "attached"] /\ UNCHANGED <<slot, exec>>
     \/ ~sock[c].open /\ Detach(c) /\ Leaves(c)
  /\ UNCHANGED <<box, verb, boots, troubles>>

\* D1 refused, here or in the audit log: detached, and closed with 1011.
JoinFails(c) ==
  /\ sock[c].pc = "joining" /\ Trouble
  /\ Detach(c) /\ Leaves(c)
  /\ UNCHANGED <<box, verb, boots>>

\* The socket closes, by its peer or by the heartbeat. During the attach
\* that is only recorded.
SocketCloses(c) ==
  /\ sock[c].open
  /\ \/ sock[c].pc = "attached" /\ Detach(c) /\ Leaves(c)
     \/ sock[c].pc # "attached" /\ sock' = [sock EXCEPT ![c].open = FALSE] /\ UNCHANGED <<slot, exec>>
  /\ UNCHANGED <<box, verb, boots, troubles>>

-----------------------------------------------------------------------------
(* The exec, its stream and its tmux client                                 *)

Waiting(e) == {c \in Clients : sock[c].pc = "waiting" /\ sock[c].on = e}

\* container.exec() and start() answered. An exec somebody left, or that was
\* torn down, is destroyed here and its client stays: its pid is not known.
Spawned(e) ==
  /\ exec[e].st = "asking" /\ box = "up"
  /\ LET x == [exec[e] EXCEPT !.st = "ready", !.client = "starting", !.older = Started]
     IN  exec' = [exec EXCEPT ![e] = IF x.cut THEN Over(x) ELSE x]
  /\ slot' = IF slot = e /\ exec[e].cut THEN 0 ELSE slot
  /\ sock' = [c \in Clients |-> IF c \in Waiting(e) THEN [sock[c] EXCEPT !.pc = "capturing"] ELSE sock[c]]
  /\ UNCHANGED <<box, verb, boots, troubles>>

\* Docker refuses: everyone who waited is closed, the next attach tries again.
SpawnFails(e) ==
  /\ exec[e].st = "asking"
  /\ \/ box = "down" /\ NoTrouble
     \/ box = "up" /\ Trouble
  /\ exec' = [exec EXCEPT ![e] = Over(@)]
  /\ slot' = IF slot = e THEN 0 ELSE slot
  /\ sock' = [c \in Clients |->
       IF c \in Waiting(e) THEN Ended ELSE sock[c]]
  /\ UNCHANGED <<box, verb, boots>>

\* The wrapper's first line arrives: the pid is known and older clients are swept.
LearnPid(e) ==
  /\ exec[e].st = "ready" /\ ~exec[e].pid
  /\ exec' = [exec EXCEPT ![e] = [@ EXCEPT !.pid = TRUE, !.sweep = TRUE]]
  /\ UNCHANGED <<slot, sock, box, verb, boots, troubles>>

\* The wrapper has become a tmux client, and tmux lists it.
ClientListed(e) ==
  /\ exec[e].client = "starting"
  /\ exec' = [exec EXCEPT ![e].client = "listed"]
  /\ UNCHANGED <<slot, sock, box, verb, boots, troubles>>

\* A client is detached from inside, or its tmux session ends.
ClientExits(e) ==
  /\ exec[e].client = "listed" /\ Trouble
  /\ exec' = [exec EXCEPT ![e].client = "gone"]
  /\ UNCHANGED <<slot, sock, box, verb, boots>>

\* The stream ended with its client, or broke and left it: forgetIfCurrent().
\* The listeners stay on the dead exec until their sockets close.
StreamEnds(e) ==
  /\ exec[e].st = "ready"
  /\ IF exec[e].client = "gone" THEN NoTrouble ELSE Trouble
  /\ exec' = [exec EXCEPT ![e] = Over(@)]
  /\ slot' = IF slot = e THEN 0 ELSE slot
  /\ UNCHANGED <<sock, box, verb, boots>>

\* The release script: a wrapper is ended, a listed client is detached, and a
\* client that tmux does not list yet is left alone, as when the script fails.
ReleaseRuns(e) ==
  /\ exec[e].release
  /\ \/ NoTrouble /\ exec' = [exec EXCEPT ![e] = [@ EXCEPT !.release = FALSE, !.client = "gone"]]
     \/ /\ IF exec[e].client = "starting" THEN NoTrouble ELSE Trouble
        /\ exec' = [exec EXCEPT ![e].release = FALSE]
  /\ UNCHANGED <<slot, sock, box, verb, boots>>

\* Mutation: the sweep does not ask who started first.
OlderOrNot(e) == {f \in Execs \ {e} : exec[f].client = "listed"}

\* The clients a sweep for `e` detaches: those that started before it, and
\* none if its own is not there.
Older(e) ==
  {f \in exec[e].older : InBox(exec[e]) /\ exec[f].client = "listed"}

SweepRuns(e) ==
  /\ exec[e].sweep
  /\ \/ NoTrouble /\ exec' = [f \in Execs |->
          [exec[f] EXCEPT !.client = IF f \in Older(e) THEN "gone" ELSE @,
                          !.sweep = @ /\ f # e]]
     \/ Trouble /\ exec' = [exec EXCEPT ![e].sweep = FALSE]
  /\ UNCHANGED <<slot, sock, box, verb, boots>>

-----------------------------------------------------------------------------
(* Stops, deletions and the death of the backend                            *)

\* The container stops: its processes end and what was asked of it fails.
Emptied ==
  [e \in Execs |-> [exec[e] EXCEPT
     !.client = IF @ = "none" THEN @ ELSE "gone", !.sweep = FALSE, !.release = FALSE]]

BoxStops ==
  /\ box = "up" /\ verb = "none" /\ Trouble
  /\ box' = "down" /\ exec' = Emptied
  /\ verb' \in {"none", "killing"}
  /\ UNCHANGED <<slot, sock, boots>>

BoxStarts ==
  /\ box = "down" /\ verb = "none"
  /\ box' = "up"
  /\ UNCHANGED <<slot, exec, sock, verb, boots, troubles>>

\* The slot is emptied, its exec destroyed (once there), and no socket of the
\* tab reaches any exec from now on.
TornDown ==
  /\ slot' = 0
  /\ exec' = [e \in Execs |->
       IF e # slot THEN exec[e]
       ELSE IF exec[e].st = "asking" THEN [exec[e] EXCEPT !.cut = TRUE]
       ELSE Over(exec[e])]
  /\ sock' = [c \in Clients |-> [sock[c] EXCEPT !.keyed = FALSE]]

KillEnds ==
  /\ verb = "killing" /\ TornDown /\ verb' = "none"
  /\ UNCHANGED <<box, boots, troubles>>

DeleteTab ==
  /\ verb = "none" /\ box = "up" /\ Trouble
  /\ TornDown /\ verb' = "killtab"
  /\ UNCHANGED <<box, boots>>

\* kill-session runs, or is refused: the clients tmux lists for the tab exit.
TabKilled ==
  /\ verb = "killtab" /\ verb' = "none"
  /\ \/ NoTrouble /\ exec' = [e \in Execs |->
          [exec[e] EXCEPT !.client = IF @ = "listed" THEN "gone" ELSE @]]
     \/ Trouble /\ UNCHANGED exec
  /\ UNCHANGED <<slot, sock, box, boots>>

\* The process dies: what Docker was asked may still happen, nobody listens.
Orphaned(x, started) ==
  CASE x.st = "none" -> x
    [] x.st = "asking" /\ started -> [Over(x) EXCEPT !.client = "starting", !.older = Started]
    [] OTHER -> Over(x)

Crash ==
  /\ Trouble /\ boots' = boots + 1
  /\ slot' = 0
  /\ \E started \in BOOLEAN :
       /\ started => box = "up"
       /\ exec' = [e \in Execs |-> Orphaned(exec[e], started)]
  /\ sock' = [c \in Clients |->
       IF sock[c].pc = "out" THEN sock[c] ELSE Ended]
  /\ verb' = IF verb = "killing" THEN "none" ELSE verb
  /\ UNCHANGED box

-----------------------------------------------------------------------------
AttachStep(c) == Connect(c) \/ Captured(c) \/ Joined(c) \/ JoinFails(c) \/ SocketCloses(c)
ExecStep(e) ==
  \/ Spawned(e) \/ SpawnFails(e) \/ LearnPid(e) \/ ClientListed(e) \/ ClientExits(e)
  \/ StreamEnds(e) \/ ReleaseRuns(e) \/ SweepRuns(e)

Next ==
  \/ \E c \in Clients : AttachStep(c)
  \/ \E e \in Execs : ExecStep(e)
  \/ BoxStops \/ BoxStarts \/ KillEnds \/ DeleteTab \/ TabKilled \/ Crash

Spec == Init /\ [][Next]_vars

-----------------------------------------------------------------------------
\* The exec of the slot is there for someone: a socket that is open, or an
\* attach under way, which will look whether its socket still is. Otherwise it
\* would be held for ever, and count as somebody watching.
NoLeakedExec ==
  slot # 0 /\ exec[slot].st = "ready" =>
    \E c \in Clients :
      \/ sock[c].pc = "capturing" /\ sock[c].on = slot
      \/ c \in exec[slot].to /\ (sock[c].pc = "joining" \/ (sock[c].pc = "attached" /\ sock[c].open))

\* No attach registers its listener on an exec that was torn down: the
\* terminal would be frozen from the start.
JoinsLive ==
  [][\A e \in Execs :
       \A c \in exec'[e].to \ exec[e].to : slot = e /\ slot' = e /\ exec'[e].st = "ready"]_vars

\* However late a sweep or a release runs, and whoever sent it, also a process
\* that died since, it does not end the client of the exec sockets listen to.
OneShotRuns(e) ==
  \/ exec[e].sweep /\ ~exec'[e].sweep
  \/ exec[e].release /\ ~exec'[e].release
LiveClientSurvives ==
  [][slot # 0 /\ (\E e \in Execs : OneShotRuns(e)) /\ box' = "up"
       => exec'[slot].client = exec[slot].client]_vars

\* Whoever types into an exec sees what it prints.
TypistSees ==
  \A c \in Clients :
    sock[c].pc = "attached" /\ sock[c].keyed /\ slot # 0 /\ exec[slot].st = "ready" => c \in exec[slot].to
=============================================================================
