------------------------ MODULE SharedTerminalProofs ------------------------
(***************************************************************************)
(* Proofs about SharedTerminal, for any set of sockets and any number of   *)
(* execs and of troubles: the type invariant, that no exec is held for     *)
(* nobody, that no attach joins an exec that was torn down, and that no    *)
(* sweep or release ends the tmux client of the exec in the slot. Then,    *)
(* about BellSweeper, that an owner is pushed to once for one bell as long *)
(* as no two sweeps overlap.                                               *)
(***************************************************************************)
EXTENDS BellSweeper, TLAPS

\* The slot holds an exec that was asked for and that is not over.
SlotUsed == slot # 0 => exec[slot].st \in {"asking", "ready"}
\* An exec that can be listened to is the one of the slot.
ReadyIsSlot == \A e \in Execs : exec[e].st = "ready" => slot = e
\* An exec that comes without being destroyed comes into the slot.
Uncut == \A e \in Execs : exec[e].st = "asking" /\ ~exec[e].cut => slot = e
\* Only an exec that is there has listeners.
Heard == \A e \in Execs : exec[e].st # "ready" => exec[e].to = {}
\* An exec that Docker did not answer for has no client, and nobody was sent
\* to sweep or to release for it.
Unstarted ==
  \A e \in Execs : exec[e].st \in {"none", "asking"} =>
    exec[e].client = "none" /\ ~exec[e].sweep /\ ~exec[e].release
\* Who waits, waits for an exec that is asked for; who takes the snapshot has
\* an exec that came.
Places ==
  \A c \in Clients :
    /\ sock[c].pc = "waiting" => sock[c].on \in Execs /\ exec[sock[c].on].st = "asking"
    /\ sock[c].pc = "capturing" => sock[c].on \in Execs /\ exec[sock[c].on].st \in {"ready", "over"}
\* A listener of the slot's exec is a socket that will detach from it.
Listeners ==
  slot # 0 => \A c \in exec[slot].to :
    sock[c].keyed /\ (sock[c].pc = "joining" \/ (sock[c].pc = "attached" /\ sock[c].open))
\* The slot's exec has somebody who waits for it, takes its snapshot or
\* listens to it, or is destroyed as soon as it is there.
AskedFor(e) ==
  exec[e].cut \/ \E c \in Clients : sock[c].pc = "waiting" /\ sock[c].on = e
Watched(e) ==
  exec[e].to # {} \/ \E c \in Clients : sock[c].pc = "capturing" /\ sock[c].on = e
Wanted ==
  slot # 0 =>
    /\ exec[slot].st = "asking" => AskedFor(slot)
    /\ exec[slot].st = "ready" => Watched(slot)
\* A release is for an exec that is over, and what a sweep may detach belongs
\* to execs that are over.
Shots ==
  \A e \in Execs :
    /\ exec[e].release => exec[e].st = "over"
    /\ exec[e].st = "ready" \/ exec[e].sweep =>
         \A f \in exec[e].older : f # e /\ exec[f].st = "over"

SlotInv == SlotUsed /\ ReadyIsSlot /\ Uncut /\ Heard /\ Unstarted
UseInv  == Places /\ Listeners /\ Wanted
IInv    == TypeOK /\ SlotInv /\ UseInv /\ Shots

-----------------------------------------------------------------------------
(* The type invariant                                                       *)

\* The numbers of the execs, and the place without one.
LEMMA ExecNumbers ==
  /\ 0 \in 0..MaxExecs /\ 0 \in 0..2
  /\ \A e \in Execs : e # 0 /\ e \in 0..MaxExecs
  /\ \A n \in 0..MaxExecs : n # 0 => n \in Execs
BY TerminalAssumption DEF Execs

\* What the model makes of a socket is one.
LEMMA SocketTyped ==
  ASSUME NEW pc \in {"out", "waiting", "capturing", "joining", "attached", "ended"},
         NEW on \in 0..MaxExecs, NEW try \in 0..2, NEW open \in BOOLEAN, NEW keyed \in BOOLEAN
  PROVE  Socket(pc, on, try, open, keyed) \in SockRecords
BY DEF Socket, SockRecords

\* A socket that is not there yet or not any more is one.
LEMMA OutsideTyped == Outside \in SockRecords /\ Ended \in SockRecords
BY SocketTyped, ExecNumbers DEF Outside, Ended

\* An exec that is let go of is one.
LEMMA OverTyped == \A x \in ExecRecords : Over(x) \in ExecRecords /\ Closed(x) \in ExecRecords
<1>1. \A x \in ExecRecords : Over(x) \in ExecRecords
  BY DEF Over, ExecRecords
<1>2. \A x \in ExecRecords : Closed(x) \in ExecRecords
  BY <1>1 DEF Closed, ExecRecords
<1> QED BY <1>1, <1>2

\* Starting or restarting an attach,
LEMMA AcquireTyped ==
  ASSUME TypeOK, NEW c \in Clients, NEW try \in 0..2, NEW open \in BOOLEAN, Acquire(c, try, open)
  PROVE  slot' \in 0..MaxExecs /\ exec' \in [Execs -> ExecRecords] /\ sock' \in [Clients -> SockRecords]
<1>1. CASE slot # 0
  <2>1. UNCHANGED <<slot, exec>>
    BY <1>1 DEF Acquire
  <2>2. Socket(IF exec[slot].st = "ready" THEN "capturing" ELSE "waiting", slot, try, open, FALSE) \in SockRecords
    BY SocketTyped DEF TypeOK
  <2> QED BY <1>1, <2>1, <2>2 DEF Acquire, TypeOK
<1>2. CASE slot = 0
  <2>1. PICK e \in Execs :
          /\ slot' = e /\ exec' = [exec EXCEPT ![e].st = "asking"]
          /\ sock' = [sock EXCEPT ![c] = Socket("waiting", e, try, open, FALSE)]
    BY <1>2 DEF Acquire
  <2>2. e \in 0..MaxExecs
    BY ExecNumbers
  <2>3. Socket("waiting", e, try, open, FALSE) \in SockRecords
    BY <2>2, SocketTyped
  <2>4. exec' \in [Execs -> ExecRecords]
    BY <2>1 DEF TypeOK, ExecRecords
  <2> QED BY <2>1, <2>2, <2>3, <2>4 DEF TypeOK
<1> QED BY <1>1, <1>2

\* a detach,
LEMMA DetachTyped ==
  ASSUME TypeOK, NEW c \in Clients, Detach(c)
  PROVE  slot' \in 0..MaxExecs /\ exec' \in [Execs -> ExecRecords]
<1> USE ExecNumbers DEF TypeOK
<1>1. CASE UNCHANGED <<slot, exec>>
  BY <1>1
<1>2. CASE slot # 0 /\ exec' = [exec EXCEPT ![slot].cut = TRUE] /\ UNCHANGED slot
  <2>1. slot \in Execs /\ exec[slot] \in ExecRecords
    BY <1>2
  <2>2. [exec[slot] EXCEPT !.cut = TRUE] \in ExecRecords
    BY <2>1 DEF ExecRecords
  <2> QED BY <1>2, <2>1, <2>2
<1>3. CASE slot # 0 /\ exec' = [exec EXCEPT ![slot] = Closed(@)] /\ slot' = 0
  BY <1>3, OverTyped
<1>4. CASE slot # 0 /\ exec' = [exec EXCEPT ![slot].to = exec[slot].to \ {c}] /\ UNCHANGED slot
  BY <1>4 DEF ExecRecords
<1> QED BY <1>1, <1>2, <1>3, <1>4 DEF Detach

\* the end of a socket,
LEMMA LeavesTyped ==
  ASSUME TypeOK, NEW c \in Clients, Leaves(c)
  PROVE  sock' \in [Clients -> SockRecords]
BY OutsideTyped DEF TypeOK, Leaves

\* and a teardown keep the types.
LEMMA TornDownTyped ==
  ASSUME TypeOK, TornDown
  PROVE  slot' \in 0..MaxExecs /\ exec' \in [Execs -> ExecRecords] /\ sock' \in [Clients -> SockRecords]
<1>1. \A e \in Execs : exec[e] \in ExecRecords /\ Over(exec[e]) \in ExecRecords
  BY OverTyped DEF TypeOK
<1>2. \A e \in Execs : [exec[e] EXCEPT !.cut = TRUE] \in ExecRecords
  BY <1>1 DEF ExecRecords
<1>3. exec' \in [Execs -> ExecRecords]
  BY <1>1, <1>2 DEF TornDown
<1>4. sock' \in [Clients -> SockRecords]
  BY DEF TypeOK, TornDown, SockRecords
<1> QED BY <1>3, <1>4, ExecNumbers DEF TornDown

\* A trouble is counted, and bounded.
LEMMA TroubleTyped ==
  ASSUME TypeOK, Trouble \/ NoTrouble
  PROVE  troubles' \in 0..MaxTroubles
BY TerminalAssumption DEF TypeOK, Trouble, NoTrouble

\* The steps of a socket,
LEMMA AttachTyped ==
  ASSUME TypeOK, NEW c \in Clients, AttachStep(c)
  PROVE  TypeOK'
<1>1. 0 \in 0..2 /\ sock[c].try \in 0..2 /\ sock[c].open \in BOOLEAN /\ (sock[c].try < 2 => sock[c].try + 1 \in 0..2)
  BY DEF TypeOK, SockRecords
<1>2. CASE Connect(c)
  BY <1>1, <1>2, AcquireTyped DEF Connect, TypeOK
<1>3. CASE Captured(c)
  <2>1. CASE sock[c].on = slot /\ sock[c].pc = "capturing" /\ exec' = [exec EXCEPT ![slot].to = @ \cup {c}]
             /\ Registers(c) /\ UNCHANGED slot
    <3>1. exec' \in [Execs -> ExecRecords]
      <4>1. \A x \in ExecRecords : [x EXCEPT !.to = @ \cup {c}] \in ExecRecords
        BY DEF ExecRecords
      <4> QED BY <2>1, <4>1 DEF TypeOK
    <3>2. Socket("joining", 0, 0, sock[c].open, TRUE) \in SockRecords
      <4>1. sock[c].open \in BOOLEAN
        BY <1>1
      <4> QED BY <4>1, ExecNumbers, SocketTyped
    <3> QED BY <1>3, <2>1, <3>1, <3>2 DEF Captured, Registers, TypeOK
  <2>2. CASE sock[c].try < 2 /\ Acquire(c, sock[c].try + 1, sock[c].open)
    BY <1>1, <1>3, <2>2, AcquireTyped DEF Captured, TypeOK
  <2>3. CASE Leaves(c) /\ UNCHANGED <<slot, exec>>
    BY <1>3, <2>3, LeavesTyped DEF Captured, TypeOK
  <2> QED BY <1>3, <2>1, <2>2, <2>3 DEF Captured
<1>4. CASE Joined(c)
  <2>1. CASE sock' = [sock EXCEPT ![c].pc = "attached"] /\ UNCHANGED <<slot, exec>>
    <3>1. sock' \in [Clients -> SockRecords]
      BY <2>1 DEF TypeOK, SockRecords
    <3> QED BY <1>4, <2>1, <3>1 DEF Joined, TypeOK
  <2>2. CASE Detach(c) /\ Leaves(c)
    BY <1>4, <2>2, DetachTyped, LeavesTyped DEF Joined, TypeOK
  <2> QED BY <1>4, <2>1, <2>2 DEF Joined
<1>5. CASE JoinFails(c)
  BY <1>5, DetachTyped, LeavesTyped, TroubleTyped DEF JoinFails, TypeOK
<1>6. CASE SocketCloses(c)
  <2>1. CASE Detach(c) /\ Leaves(c)
    BY <1>6, <2>1, DetachTyped, LeavesTyped DEF SocketCloses, TypeOK
  <2>2. CASE sock' = [sock EXCEPT ![c].open = FALSE] /\ UNCHANGED <<slot, exec>>
    <3>1. sock' \in [Clients -> SockRecords]
      BY <2>2 DEF TypeOK, SockRecords
    <3> QED BY <1>6, <2>2, <3>1 DEF SocketCloses, TypeOK
  <2> QED BY <1>6, <2>1, <2>2 DEF SocketCloses
<1> QED BY <1>2, <1>3, <1>4, <1>5, <1>6 DEF AttachStep

\* the steps of an exec
LEMMA ExecTyped ==
  ASSUME TypeOK, NEW e \in Execs, ExecStep(e)
  PROVE  TypeOK'
<1>0. exec \in [Execs -> ExecRecords] /\ sock \in [Clients -> SockRecords] /\ exec[e] \in ExecRecords
  BY DEF TypeOK
<1>1. CASE Spawned(e)
  <2> DEFINE x == [exec[e] EXCEPT !.st = "ready", !.client = "starting", !.older = Started]
  <2>1. x \in ExecRecords
    BY <1>0 DEF ExecRecords, Started
  <2>2. Over(x) \in ExecRecords
    BY <2>1, OverTyped
  <2>3. exec' = [exec EXCEPT ![e] = IF x.cut THEN Over(x) ELSE x]
    BY <1>1 DEF Spawned
  <2> HIDE DEF x
  <2>4. exec' \in [Execs -> ExecRecords]
    BY <1>0, <2>1, <2>2, <2>3
  <2>5. sock' \in [Clients -> SockRecords]
    BY <1>0, <1>1 DEF Spawned, SockRecords
  <2> QED BY <1>1, <2>4, <2>5, ExecNumbers DEF Spawned, TypeOK
<1>2. CASE SpawnFails(e)
  <2>1. exec' \in [Execs -> ExecRecords]
    BY <1>0, <1>2, OverTyped DEF SpawnFails
  <2>2. sock' \in [Clients -> SockRecords]
    BY <1>0, <1>2, OutsideTyped DEF SpawnFails
  <2> QED BY <1>2, <2>1, <2>2, ExecNumbers, TroubleTyped DEF SpawnFails, TypeOK
<1>3. CASE LearnPid(e)
  <2>1. [exec[e] EXCEPT !.pid = TRUE, !.sweep = TRUE] \in ExecRecords
    BY <1>0 DEF ExecRecords
  <2> QED BY <1>0, <1>3, <2>1 DEF LearnPid, TypeOK
<1>4. CASE ClientListed(e) \/ ClientExits(e)
  <2>1. exec' \in [Execs -> ExecRecords]
    BY <1>0, <1>4 DEF ClientListed, ClientExits, ExecRecords
  <2> QED BY <1>4, <2>1, TroubleTyped DEF ClientListed, ClientExits, NoTrouble, TypeOK
<1>5. CASE StreamEnds(e)
  <2>1. exec' \in [Execs -> ExecRecords]
    BY <1>0, <1>5, OverTyped DEF StreamEnds
  <2> QED BY <1>5, <2>1, ExecNumbers, TroubleTyped DEF StreamEnds, TypeOK
<1>6. CASE ReleaseRuns(e)
  <2>1. /\ [exec[e] EXCEPT !.release = FALSE, !.client = "gone"] \in ExecRecords
        /\ [exec[e] EXCEPT !.release = FALSE] \in ExecRecords
    BY <1>0 DEF ExecRecords
  <2>2. exec' \in [Execs -> ExecRecords]
    BY <1>0, <1>6, <2>1 DEF ReleaseRuns
  <2> QED BY <1>6, <2>2, TroubleTyped DEF ReleaseRuns, TypeOK
<1>7. CASE SweepRuns(e)
  <2>1. \A x \in ExecRecords, gone \in BOOLEAN, sweep \in BOOLEAN :
          [x EXCEPT !.client = IF gone THEN "gone" ELSE @, !.sweep = sweep] \in ExecRecords
    BY DEF ExecRecords
  <2>2. ASSUME NEW f \in Execs
        PROVE  [exec[f] EXCEPT !.client = IF f \in Older(e) THEN "gone" ELSE @, !.sweep = @ /\ f # e] \in ExecRecords
    BY <1>0, <2>1, Zenon
  <2>3. [exec[e] EXCEPT !.sweep = FALSE] \in ExecRecords
    BY <1>0 DEF ExecRecords
  <2>4. exec' \in [Execs -> ExecRecords]
    BY <1>0, <1>7, <2>2, <2>3 DEF SweepRuns
  <2> QED BY <1>7, <2>4, TroubleTyped DEF SweepRuns, TypeOK
<1> QED BY <1>1, <1>2, <1>3, <1>4, <1>5, <1>6, <1>7 DEF ExecStep

\* and the rest keep the types.
LEMMA BoxTyped ==
  ASSUME TypeOK, BoxStops \/ BoxStarts \/ KillEnds \/ DeleteTab \/ TabKilled \/ Crash
  PROVE  TypeOK'
<1>0. exec \in [Execs -> ExecRecords] /\ sock \in [Clients -> SockRecords]
  BY DEF TypeOK
<1>1. CASE BoxStops
  <2>1. \A e \in Execs : [exec[e] EXCEPT !.client = IF @ = "none" THEN @ ELSE "gone",
                                         !.sweep = FALSE, !.release = FALSE] \in ExecRecords
    <3> TAKE e \in Execs
    <3>1. exec[e] \in ExecRecords
      BY <1>0
    <3> QED BY <3>1 DEF ExecRecords
  <2>2. exec' \in [Execs -> ExecRecords]
    BY <1>1, <2>1 DEF BoxStops, Emptied
  <2> QED BY <1>1, <2>2, TroubleTyped DEF BoxStops, TypeOK
<1>2. CASE BoxStarts
  BY <1>2 DEF BoxStarts, TypeOK
<1>3. CASE KillEnds
  BY <1>3, TornDownTyped DEF KillEnds, TypeOK
<1>4. CASE DeleteTab
  BY <1>4, TornDownTyped, TroubleTyped DEF DeleteTab, TypeOK
<1>5. CASE TabKilled
  <2>1. exec' \in [Execs -> ExecRecords]
    BY <1>0, <1>5, SMTT(30) DEF TabKilled, ExecRecords
  <2> QED BY <1>5, <2>1, TroubleTyped DEF TabKilled, TypeOK
<1>6. CASE Crash
  <2>1. \A e \in Execs, started \in BOOLEAN : Orphaned(exec[e], started) \in ExecRecords
    <3> TAKE e \in Execs, started \in BOOLEAN
    <3>1. Over(exec[e]) \in ExecRecords /\ exec[e] \in ExecRecords
      BY <1>0, OverTyped
    <3>2. [Over(exec[e]) EXCEPT !.client = "starting", !.older = Started] \in ExecRecords
      BY <3>1 DEF ExecRecords, Started
    <3> QED BY <3>1, <3>2 DEF Orphaned
  <2>2. exec' \in [Execs -> ExecRecords]
    BY <1>6, <2>1 DEF Crash
  <2>3. sock' \in [Clients -> SockRecords]
    BY <1>0, <1>6, OutsideTyped DEF Crash
  <2>4. boots' \in Nat
    BY <1>6 DEF Crash, TypeOK
  <2> QED BY <1>6, <2>2, <2>3, <2>4, ExecNumbers, TroubleTyped DEF Crash, TypeOK
<1> QED BY <1>1, <1>2, <1>3, <1>4, <1>5, <1>6

\* The types are right to begin with
LEMMA InitTyped == Init => TypeOK
<1>1. NoExec \in ExecRecords
  BY DEF NoExec, ExecRecords
<1> QED BY <1>1, OutsideTyped, ExecNumbers, TerminalAssumption DEF Init, TypeOK

\* and after every step.
LEMMA NextTyped == TypeOK /\ [Next]_vars => TypeOK'
<1> SUFFICES ASSUME TypeOK, [Next]_vars PROVE TypeOK'
  OBVIOUS
<1>1. CASE UNCHANGED vars
  BY <1>1 DEF vars, TypeOK
<1> QED BY <1>1, AttachTyped, ExecTyped, BoxTyped DEF Next

\* Every variable keeps its type.
THEOREM TerminalTypeCorrect == Spec => []TypeOK
BY InitTyped, NextTyped, PTL DEF Spec

-----------------------------------------------------------------------------
(* The slot, the execs and the sockets                                      *)

\* What Over leaves of an exec.
LEMMA OverFields ==
  \A x \in ExecRecords :
    /\ Over(x).st = "over" /\ Over(x).to = {} /\ Over(x).older = x.older /\ Over(x).client = x.client
    /\ Over(x).sweep = x.sweep /\ Over(x).release = x.release
BY DEF Over, ExecRecords

\* Starting or restarting an attach keeps the invariant: the attach waits for
\* the exec of the slot, or takes its snapshot, or asks for a new one.
LEMMA AcquireKeeps ==
  ASSUME IInv, TypeOK', NEW c \in Clients, NEW try, NEW open, Acquire(c, try, open),
         sock[c].pc \in {"out", "capturing"}, sock[c].pc = "capturing" => sock[c].on # slot
  PROVE  SlotInv' /\ UseInv' /\ Shots'
<1> USE DEF IInv, SlotInv, UseInv
<1>0. exec \in [Execs -> ExecRecords] /\ sock \in [Clients -> SockRecords] /\ slot \in 0..MaxExecs
  BY DEF TypeOK
<1>1. CASE slot # 0
  <2>1. UNCHANGED <<slot, exec>> /\ slot \in Execs
    BY <1>0, <1>1, ExecNumbers DEF Acquire
  <2>2. /\ \A d \in Clients \ {c} : sock'[d] = sock[d]
        /\ sock'[c].on = slot /\ sock'[c].pc = IF exec[slot].st = "ready" THEN "capturing" ELSE "waiting"
    BY <1>0, <1>1 DEF Acquire, Socket
  <2>3. SlotInv' /\ Shots'
    BY <2>1 DEF SlotUsed, ReadyIsSlot, Uncut, Heard, Unstarted, Shots
  <2>4. Places'
    BY <1>1, <2>1, <2>2 DEF Places, SlotUsed
  <2>5. Listeners'
    BY <1>0, <2>1, <2>2 DEF Listeners, TypeOK, ExecRecords
  <2>6. Wanted'
    BY <1>1, <2>1, <2>2 DEF Wanted, Watched, AskedFor, SlotUsed
  <2> QED BY <2>3, <2>4, <2>5, <2>6
<1>2. CASE slot = 0
  <2>1. PICK e \in Execs :
          /\ Fresh(e) /\ slot' = e /\ exec' = [exec EXCEPT ![e].st = "asking"]
          /\ sock' = [sock EXCEPT ![c] = Socket("waiting", e, try, open, FALSE)]
    BY <1>2 DEF Acquire
  <2>2. /\ \A d \in Clients \ {c} : sock'[d] = sock[d]
        /\ sock'[c].on = e /\ sock'[c].pc = "waiting"
    BY <1>0, <2>1 DEF Socket
  <2>3. /\ \A f \in Execs \ {e} : exec'[f] = exec[f]
        /\ exec'[e].st = "asking" /\ exec'[e].to = exec[e].to /\ exec'[e].client = exec[e].client
        /\ exec'[e].sweep <=> exec[e].sweep
        /\ exec'[e].release <=> exec[e].release
    BY <1>0, <2>1 DEF ExecRecords
  <2>4. e # 0 /\ exec[e].st = "none" /\ exec[e].to = {}
    BY <2>1, ExecNumbers DEF Fresh, Heard
  <2>5. SlotInv'
    <3>1. \A f \in Execs : exec[f].st # "ready" /\ (exec[f].st = "asking" => exec[f].cut)
      BY <1>2, ExecNumbers DEF ReadyIsSlot, Uncut
    <3>2. ReadyIsSlot' /\ Uncut'
      BY <2>1, <2>3, <3>1 DEF ReadyIsSlot, Uncut
    <3>3. SlotUsed'
      BY <2>1, <2>3 DEF SlotUsed
    <3>4. Heard'
      BY <2>3, <2>4 DEF Heard
    <3>5. Unstarted'
      BY <2>3, <2>4 DEF Unstarted
    <3> QED BY <3>2, <3>3, <3>4, <3>5
  <2>6. Shots'
    <3>1. \A f \in Execs : exec[f].older \subseteq Execs
      BY <1>0 DEF ExecRecords
    <3> QED BY <2>3, <2>4, <3>1 DEF Shots, Unstarted
  <2>7. Places'
    <3>1. ASSUME NEW d \in Clients \ {c} PROVE sock[d].pc \in {"waiting", "capturing"} => sock[d].on # e
      BY <2>4 DEF Places
    <3>2. ASSUME NEW d \in Clients \ {c}
          PROVE  /\ sock'[d].pc = "waiting" => sock'[d].on \in Execs /\ exec'[sock'[d].on].st = "asking"
                 /\ sock'[d].pc = "capturing" => sock'[d].on \in Execs /\ exec'[sock'[d].on].st \in {"ready", "over"}
      BY <2>2, <2>3, <3>1 DEF Places
    <3>3. sock'[c].pc = "waiting" /\ sock'[c].on \in Execs /\ exec'[sock'[c].on].st = "asking"
      BY <2>2, <2>3
    <3> QED BY <3>2, <3>3 DEF Places
  <2>8. Listeners' /\ Wanted'
    BY <2>1, <2>2, <2>3, <2>4 DEF Listeners, Wanted, AskedFor, Watched
  <2> QED BY <2>5, <2>6, <2>7, <2>8
<1> QED BY <1>1, <1>2

\* A place is kept while the exec of who waits is asked for and an exec that
\* came does not go back.
LEMMA PlacesKept ==
  ASSUME Places,
         \A e \in Execs : /\ exec[e].st = "asking" => exec'[e].st = "asking"
                          /\ exec[e].st \in {"ready", "over"} => exec'[e].st \in {"ready", "over"},
         \A d \in Clients : \/ sock'[d].pc \notin {"waiting", "capturing"}
                            \/ sock'[d].pc = sock[d].pc /\ sock'[d].on = sock[d].on
  PROVE  Places'
BY DEF Places

\* A socket that leaves keeps the invariant: with the last listener goes the
\* exec, and one that is being spawned is to be destroyed.
LEMMA DetachKeeps ==
  ASSUME IInv, TypeOK', NEW c \in Clients, Detach(c), Leaves(c), sock[c].pc \in {"joining", "attached"}
  PROVE  SlotInv' /\ UseInv' /\ Shots'
<1> USE DEF IInv, SlotInv, UseInv
<1>0. exec \in [Execs -> ExecRecords] /\ sock \in [Clients -> SockRecords] /\ slot \in 0..MaxExecs
  BY DEF TypeOK
<1>1. /\ \A d \in Clients \ {c} : sock'[d] = sock[d]
      /\ sock'[c].pc = "ended"
  BY <1>0 DEF Leaves, Ended, Socket
<1>2. CASE (~sock[c].keyed \/ slot = 0) /\ UNCHANGED <<slot, exec>>
  <2>1. SlotInv' /\ Shots'
    BY <1>2 DEF SlotUsed, ReadyIsSlot, Uncut, Heard, Unstarted, Shots
  <2>2. Places'
    BY <1>1, <1>2, PlacesKept
  <2>3. Listeners'
    <3>1. slot # 0 => c \notin exec[slot].to /\ exec[slot].to \subseteq Clients
      BY <1>0, <1>2, ExecNumbers DEF Listeners, ExecRecords
    <3> QED BY <1>1, <1>2, <3>1 DEF Listeners
  <2>4. Wanted'
    BY <1>1, <1>2 DEF Wanted, AskedFor, Watched
  <2> QED BY <2>1, <2>2, <2>3, <2>4
<1>3. CASE slot # 0 /\ exec[slot].st = "asking" /\ exec' = [exec EXCEPT ![slot].cut = TRUE] /\ UNCHANGED slot
  <2>1. slot \in Execs
    BY <1>0, <1>3, ExecNumbers
  <2>2. /\ \A f \in Execs \ {slot} : exec'[f] = exec[f]
        /\ exec'[slot].st = "asking" /\ exec'[slot].to = exec[slot].to /\ exec'[slot].client = exec[slot].client
        /\ exec'[slot].cut
        /\ exec'[slot].sweep <=> exec[slot].sweep
        /\ exec'[slot].release <=> exec[slot].release
        /\ exec'[slot].older = exec[slot].older
    BY <1>0, <1>3, <2>1 DEF ExecRecords
  <2>3. exec[slot].to = {}
    BY <1>3, <2>1 DEF Heard
  <2>4. SlotInv'
    BY <1>3, <2>1, <2>2, <2>3 DEF SlotUsed, ReadyIsSlot, Uncut, Heard, Unstarted
  <2>5. Shots'
    <3>1. \A f \in Execs : exec[f].older \subseteq Execs
      BY <1>0 DEF ExecRecords
    <3> QED BY <1>3, <2>1, <2>2, <3>1 DEF Shots, Unstarted
  <2>6. Places'
    BY <1>1, <1>3, <2>2, PlacesKept
  <2>7. Listeners' /\ Wanted'
    BY <1>1, <1>3, <2>2, <2>3 DEF Listeners, Wanted, AskedFor
  <2> QED BY <2>4, <2>5, <2>6, <2>7
<1>4. CASE slot # 0 /\ exec[slot].st = "ready" /\ exec' = [exec EXCEPT ![slot] = Closed(@)] /\ slot' = 0
  <2>1. slot \in Execs
    BY <1>0, <1>4, ExecNumbers
  <2>2. \A f \in Execs \ {slot} : exec'[f] = exec[f]
    BY <1>0, <1>4
  <2>3. /\ exec'[slot].st = "over" /\ exec'[slot].to = {}
        /\ exec'[slot].sweep <=> exec[slot].sweep
        /\ exec'[slot].older = exec[slot].older
    <3>1. exec[slot] \in ExecRecords /\ Over(exec[slot]) \in ExecRecords /\ exec'[slot] = Closed(exec[slot])
      BY <1>0, <1>4, <2>1, OverTyped
    <3>2. \A x \in ExecRecords, v \in BOOLEAN :
            /\ [x EXCEPT !.release = v].st = x.st /\ [x EXCEPT !.release = v].to = x.to
            /\ [x EXCEPT !.release = v].sweep = x.sweep /\ [x EXCEPT !.release = v].older = x.older
      BY DEF ExecRecords
    <3>3. exec[slot].pid \in BOOLEAN
      BY <3>1 DEF ExecRecords
    <3> QED BY <3>1, <3>2, <3>3, OverFields DEF Closed
  <2>4. SlotInv'
    <3>1. \A f \in Execs \ {slot} : exec[f].st # "ready" /\ (exec[f].st = "asking" => exec[f].cut)
      BY DEF ReadyIsSlot, Uncut
    <3>2. ReadyIsSlot' /\ Uncut'
      BY <2>2, <2>3, <3>1 DEF ReadyIsSlot, Uncut
    <3> QED BY <1>4, <2>2, <2>3, <3>2 DEF SlotUsed, Heard, Unstarted
  <2>5. Shots'
    <3>1. \A f \in Execs : exec[f].older \subseteq Execs
      BY <1>0 DEF ExecRecords
    <3> QED BY <1>4, <2>1, <2>2, <2>3, <3>1 DEF Shots
  <2>6. Places'
    BY <1>1, <1>4, <2>2, <2>3, PlacesKept
  <2>7. Listeners' /\ Wanted'
    BY <1>4 DEF Listeners, Wanted
  <2> QED BY <2>4, <2>5, <2>6, <2>7
<1>5. CASE /\ slot # 0 /\ exec[slot].st = "ready" /\ exec[slot].to \ {c} # {}
           /\ exec' = [exec EXCEPT ![slot].to = exec[slot].to \ {c}] /\ UNCHANGED slot
  <2>1. slot \in Execs /\ exec[slot].to \subseteq Clients
    BY <1>0, <1>5, ExecNumbers DEF ExecRecords
  <2>2. /\ \A f \in Execs \ {slot} : exec'[f] = exec[f]
        /\ exec'[slot].st = "ready" /\ exec'[slot].to = exec[slot].to \ {c} /\ exec'[slot].client = exec[slot].client
        /\ exec'[slot].sweep <=> exec[slot].sweep
        /\ exec'[slot].release <=> exec[slot].release
        /\ exec'[slot].older = exec[slot].older
    BY <1>0, <1>5, <2>1 DEF ExecRecords
  <2>4. SlotInv'
    BY <1>5, <2>1, <2>2 DEF SlotUsed, ReadyIsSlot, Uncut, Heard, Unstarted
  <2>5. Shots'
    <3>1. \A f \in Execs : exec[f].older \subseteq Execs
      BY <1>0 DEF ExecRecords
    <3> QED BY <1>5, <2>1, <2>2, <3>1 DEF Shots
  <2>6. Places'
    BY <1>1, <1>5, <2>2, PlacesKept
  <2>7. Listeners'
    BY <1>1, <1>5, <2>1, <2>2 DEF Listeners
  <2>8. Wanted'
    BY <1>5, <2>2 DEF Wanted, Watched
  <2> QED BY <2>4, <2>5, <2>6, <2>7, <2>8
<1> QED BY <1>2, <1>3, <1>4, <1>5 DEF Detach

\* The steps of a socket keep the invariant.
LEMMA AttachKeeps ==
  ASSUME IInv, TypeOK', NEW c \in Clients, AttachStep(c)
  PROVE  SlotInv' /\ UseInv' /\ Shots'
<1> USE DEF IInv, SlotInv, UseInv
<1>0. exec \in [Execs -> ExecRecords] /\ sock \in [Clients -> SockRecords] /\ slot \in 0..MaxExecs
  BY DEF TypeOK
<1>1. CASE Connect(c)
  BY <1>1, AcquireKeeps DEF Connect
<1>2. CASE Captured(c)
  <2>1. CASE /\ sock[c].on = slot /\ exec' = [exec EXCEPT ![slot].to = @ \cup {c}]
             /\ Registers(c) /\ UNCHANGED slot
    <3>1. slot \in Execs /\ slot # 0 /\ exec[slot].st = "ready" /\ exec[slot].to \subseteq Clients
      <4>1. slot \in Execs /\ exec[slot].st \in {"ready", "over"}
        BY <1>2, <2>1 DEF Captured, Places
      <4> QED BY <1>0, <4>1, ExecNumbers DEF SlotUsed, ExecRecords
    <3>2. /\ \A f \in Execs \ {slot} : exec'[f] = exec[f]
          /\ exec'[slot].st = "ready" /\ exec'[slot].to = exec[slot].to \cup {c} /\ exec'[slot].client = exec[slot].client
          /\ exec'[slot].sweep <=> exec[slot].sweep
          /\ exec'[slot].release <=> exec[slot].release
          /\ exec'[slot].older = exec[slot].older
      BY <1>0, <2>1, <3>1 DEF ExecRecords
    <3>3. /\ \A d \in Clients \ {c} : sock'[d] = sock[d]
          /\ sock'[c].pc = "joining" /\ sock'[c].keyed
      BY <1>0, <2>1 DEF Registers, Socket
    <3>4. SlotInv'
      BY <2>1, <3>1, <3>2 DEF SlotUsed, ReadyIsSlot, Uncut, Heard, Unstarted
    <3>5. Shots'
      <4>1. \A f \in Execs : exec[f].older \subseteq Execs
        BY <1>0 DEF ExecRecords
      <4> QED BY <2>1, <3>1, <3>2, <4>1 DEF Shots
    <3>6. Places'
      BY <3>1, <3>2, <3>3, PlacesKept
    <3>7. Listeners'
      BY <2>1, <3>1, <3>2, <3>3 DEF Listeners
    <3>8. Wanted'
      BY <2>1, <3>2 DEF Wanted, Watched
    <3> QED BY <3>4, <3>5, <3>6, <3>7, <3>8
  <2>2. CASE sock[c].on # slot /\ Acquire(c, sock[c].try + 1, sock[c].open)
    BY <1>2, <2>2, AcquireKeeps DEF Captured
  <2>3. CASE sock[c].on # slot /\ Leaves(c) /\ UNCHANGED <<slot, exec>>
    <3>1. /\ \A d \in Clients \ {c} : sock'[d] = sock[d]
          /\ sock'[c].pc = "ended" /\ sock[c].pc = "capturing"
      BY <1>0, <1>2, <2>3 DEF Leaves, Ended, Socket, Captured
    <3>2. SlotInv' /\ Shots'
      BY <2>3 DEF SlotUsed, ReadyIsSlot, Uncut, Heard, Unstarted, Shots
    <3>3. Places'
      BY <2>3, <3>1, PlacesKept
    <3>4. Listeners'
      <4>1. slot # 0 => c \notin exec[slot].to /\ exec[slot].to \subseteq Clients
        BY <1>0, <3>1, ExecNumbers DEF Listeners, ExecRecords
      <4> QED BY <2>3, <3>1, <4>1 DEF Listeners
    <3>5. Wanted'
      BY <2>3, <3>1 DEF Wanted, AskedFor, Watched
    <3> QED BY <3>2, <3>3, <3>4, <3>5
  <2> QED BY <1>2, <2>1, <2>2, <2>3 DEF Captured
<1>3. CASE Joined(c) \/ JoinFails(c) \/ SocketCloses(c)
  <2>1. CASE sock[c].pc \in {"joining", "attached"} /\ Detach(c) /\ Leaves(c)
    BY <2>1, DetachKeeps
  <2>2. CASE /\ UNCHANGED <<slot, exec>>
             /\ \/ sock[c].pc = "joining" /\ sock[c].open /\ sock' = [sock EXCEPT ![c].pc = "attached"]
                \/ sock[c].pc # "attached" /\ sock' = [sock EXCEPT ![c].open = FALSE]
    <3>1. /\ \A d \in Clients \ {c} : sock'[d] = sock[d]
          /\ sock'[c].on = sock[c].on
          /\ sock'[c].keyed <=> sock[c].keyed
          /\ \/ sock[c].pc = "joining" /\ sock'[c].pc = "attached" /\ sock'[c].open
             \/ sock'[c].pc = sock[c].pc /\ sock[c].pc # "attached"
      BY <1>0, <2>2 DEF SockRecords
    <3>2. SlotInv' /\ Shots'
      BY <2>2 DEF SlotUsed, ReadyIsSlot, Uncut, Heard, Unstarted, Shots
    <3>3. Places'
      BY <2>2, <3>1, PlacesKept
    <3>4. Listeners'
      <4>1. slot # 0 => exec[slot].to \subseteq Clients
        BY <1>0, ExecNumbers DEF ExecRecords
      <4> QED BY <2>2, <3>1, <4>1 DEF Listeners
    <3>5. Wanted'
      <4>1. \A d \in Clients : sock[d].pc \in {"waiting", "capturing"} =>
              sock'[d].pc = sock[d].pc /\ sock'[d].on = sock[d].on
        BY <3>1
      <4> QED BY <2>2, <4>1 DEF Wanted, AskedFor, Watched
    <3> QED BY <3>2, <3>3, <3>4, <3>5
  <2> QED BY <1>3, <2>1, <2>2 DEF Joined, JoinFails, SocketCloses
<1> QED BY <1>1, <1>2, <1>3 DEF AttachStep

\* A step that only ends clients, lists them or uses up what was sent to the
\* container keeps the invariant.
LEMMA ClientsKeep ==
  ASSUME IInv, UNCHANGED <<slot, sock>>,
         \A e \in Execs :
           /\ exec'[e].st = exec[e].st /\ exec'[e].to = exec[e].to /\ exec'[e].older = exec[e].older
           /\ exec'[e].cut <=> exec[e].cut
           /\ exec'[e].sweep => exec[e].sweep
           /\ exec'[e].release => exec[e].release
           /\ exec'[e].client = exec[e].client \/ exec[e].st \in {"ready", "over"}
  PROVE  SlotInv' /\ UseInv' /\ Shots'
<1> USE DEF IInv, SlotInv, UseInv
<1>0. slot # 0 => slot \in Execs
  BY ExecNumbers DEF TypeOK
<1>1. SlotInv'
  BY <1>0 DEF SlotUsed, ReadyIsSlot, Uncut, Heard, Unstarted
<1>2. Shots'
  <2>1. \A f \in Execs : exec[f].older \subseteq Execs
    BY DEF TypeOK, ExecRecords
  <2> QED BY <2>1 DEF Shots
<1>3. Places'
  BY PlacesKept
<1>4. Listeners' /\ Wanted'
  BY <1>0 DEF Listeners, Wanted, AskedFor, Watched
<1> QED BY <1>1, <1>2, <1>3, <1>4

\* The exec that Docker answers for was asked for: who waits takes the
\* snapshot now, and the clients older than its own belong to execs that are over.
LEMMA SpawnedKeeps ==
  ASSUME IInv, TypeOK', NEW e \in Execs, Spawned(e)
  PROVE  SlotInv' /\ UseInv' /\ Shots'
<1> USE DEF IInv, SlotInv, UseInv
<1>0. exec \in [Execs -> ExecRecords] /\ sock \in [Clients -> SockRecords] /\ slot \in 0..MaxExecs
  BY DEF TypeOK
<1> DEFINE x == [exec[e] EXCEPT !.st = "ready", !.client = "starting", !.older = Started]
<1>1. /\ x \in ExecRecords /\ x.st = "ready" /\ x.client = "starting" /\ x.older = Started /\ x.to = exec[e].to
      /\ x.cut <=> exec[e].cut
      /\ x.sweep <=> exec[e].sweep
      /\ x.release <=> exec[e].release
  <2>1. \A r \in ExecRecords, older \in SUBSET Execs :
          LET y == [r EXCEPT !.st = "ready", !.client = "starting", !.older = older] IN
            /\ y \in ExecRecords /\ y.st = "ready" /\ y.client = "starting" /\ y.older = older /\ y.to = r.to
            /\ y.cut <=> r.cut
            /\ y.sweep <=> r.sweep
            /\ y.release <=> r.release
    BY DEF ExecRecords
  <2>2. Started \in SUBSET Execs
    BY DEF Started
  <2> QED BY <1>0, <2>1, <2>2
<1>2. /\ exec[e].st = "asking" /\ exec[e].to = {}
      /\ ~exec[e].sweep
      /\ ~exec[e].release
      /\ exec[e].client = "none"
  BY DEF Spawned, Heard, Unstarted
<1>3. /\ \A f \in Execs \ {e} : exec'[f] = exec[f]
      /\ exec'[e] = IF exec[e].cut THEN Over(x) ELSE x
  BY <1>0 DEF Spawned
<1> HIDE DEF x
<1>4. /\ exec'[e].st = IF exec[e].cut THEN "over" ELSE "ready"
      /\ exec'[e].older = Started
      /\ exec'[e].to = {}
      /\ ~exec'[e].sweep
      /\ ~exec'[e].release
  BY <1>1, <1>2, <1>3, OverFields
<1>5. slot' = IF slot = e /\ exec[e].cut THEN 0 ELSE slot
  BY DEF Spawned
<1>6. \A f \in Execs : f # 0
  BY ExecNumbers
<1>7. \A d \in Clients : /\ sock'[d].on = sock[d].on
                         /\ sock'[d].open <=> sock[d].open
                         /\ sock'[d].keyed <=> sock[d].keyed
                         /\ sock'[d].pc = IF d \in Waiting(e) THEN "capturing" ELSE sock[d].pc
  BY <1>0 DEF Spawned, SockRecords
<1>8. SlotInv'
  <2>1. \A f \in Execs \ {e} : exec'[f].st = "ready" \/ (exec'[f].st = "asking" /\ ~exec'[f].cut) => slot = f /\ slot' = f
    BY <1>3, <1>5 DEF ReadyIsSlot, Uncut
  <2>2. exec'[e].st = "ready" => slot = e /\ slot' = e
    BY <1>2, <1>4, <1>5 DEF Uncut
  <2>3. ReadyIsSlot' /\ Uncut'
    BY <2>1, <2>2, <1>4 DEF ReadyIsSlot, Uncut
  <2>4. SlotUsed'
    <3>1. CASE slot' # 0 /\ slot' # e
      BY <1>0, <3>1, <1>3, <1>5, ExecNumbers DEF SlotUsed
    <3>2. CASE slot' = e
      BY <3>2, <1>4, <1>5, <1>6 DEF SlotUsed
    <3> QED BY <3>1, <3>2 DEF SlotUsed
  <2>5. Heard' /\ Unstarted'
    BY <1>3, <1>4 DEF Heard, Unstarted
  <2> QED BY <2>3, <2>4, <2>5
<1>9. Shots'
  <2>1. \A f \in Execs : exec[f].older \subseteq Execs
    BY <1>0 DEF ExecRecords
  <2>2. exec'[e].st = "ready" => \A f \in Started : f # e /\ exec'[f].st = "over"
    <3>1. SUFFICES ASSUME exec'[e].st = "ready", NEW f \in Started PROVE f # e /\ exec'[f].st = "over"
      OBVIOUS
    <3>2. slot = e
      BY <1>2, <1>4, <3>1 DEF Uncut
    <3>3. f \in Execs /\ exec[f].client # "none"
      BY DEF Started
    <3>4. f # e /\ exec[f].st \in {"ready", "over"}
      BY <1>0, <1>2, <3>3 DEF Unstarted, ExecRecords
    <3> QED BY <1>3, <3>2, <3>3, <3>4 DEF ReadyIsSlot
  <2>3. \A f \in Execs \ {e} : (exec[f].st = "ready" \/ exec[f].sweep) => \A g \in exec[f].older : g # f /\ g # e /\ exec'[g].st = "over"
    BY <1>2, <1>3, <2>1 DEF Shots
  <2>4. \A f \in Execs \ {e} : exec'[f].release => exec'[f].st = "over"
    BY <1>3 DEF Shots
  <2> QED BY <1>3, <1>4, <2>2, <2>3, <2>4 DEF Shots
<1>10. Places'
  <2>1. ASSUME NEW d \in Clients
        PROVE  /\ sock'[d].pc = "waiting" => sock'[d].on \in Execs /\ exec'[sock'[d].on].st = "asking"
               /\ sock'[d].pc = "capturing" => sock'[d].on \in Execs /\ exec'[sock'[d].on].st \in {"ready", "over"}
    <3>1. CASE d \in Waiting(e)
      BY <1>4, <1>7, <3>1 DEF Waiting
    <3>2. CASE d \notin Waiting(e)
      <4>1. sock'[d].pc = sock[d].pc /\ sock'[d].on = sock[d].on
        BY <1>7, <3>2
      <4>2. sock[d].pc \in {"waiting", "capturing"} => sock[d].on # e /\ sock[d].on \in Execs
        BY <1>2, <3>2 DEF Places, Waiting
      <4> QED BY <1>3, <4>1, <4>2 DEF Places
    <3> QED BY <3>1, <3>2
  <2> QED BY <2>1 DEF Places
<1>11. Listeners'
  <2>1. \A f \in Execs : exec'[f].to \subseteq Clients /\ (f # e => exec'[f].to = exec[f].to)
    BY <1>3 DEF TypeOK, ExecRecords
  <2>2. \A d \in Clients : sock[d].pc \in {"joining", "attached"} => sock'[d].pc = sock[d].pc
    BY <1>7 DEF Waiting
  <2>3. slot' # 0 => slot' = slot /\ slot \in Execs
    BY <1>0, <1>5, ExecNumbers
  <2>4. CASE slot' = e
    BY <1>4, <2>4 DEF Listeners
  <2>5. CASE slot' # e /\ slot' # 0
    <3>1. \A d \in exec[slot].to : sock[d].keyed /\ (sock[d].pc = "joining" \/ (sock[d].pc = "attached" /\ sock[d].open))
      BY <2>3, <2>5 DEF Listeners
    <3>2. exec'[slot'].to = exec[slot].to /\ exec[slot].to \subseteq Clients
      BY <2>1, <2>3, <2>5
    <3> QED BY <1>7, <2>2, <3>1, <3>2 DEF Listeners
  <2> QED BY <2>4, <2>5 DEF Listeners
<1>12. Wanted'
  <2>1. CASE slot' = e
    <3>1. slot = e /\ slot # 0 /\ ~exec[e].cut
      BY <1>5, <1>6, <2>1
    <3>2. PICK d \in Clients : sock[d].pc = "waiting" /\ sock[d].on = e
      BY <1>2, <3>1 DEF Wanted, AskedFor
    <3>3. sock'[d].pc = "capturing" /\ sock'[d].on = e
      BY <1>7, <3>2 DEF Waiting
    <3> QED BY <1>4, <2>1, <3>1, <3>3 DEF Wanted, Watched
  <2>2. CASE slot' # e /\ slot' # 0
    <3>1. slot' = slot /\ slot \in Execs /\ slot # 0 /\ exec'[slot] = exec[slot]
      BY <1>0, <1>3, <1>5, <2>2, ExecNumbers
    <3>2. \A d \in Clients : sock[d].on = slot /\ sock[d].pc \in {"waiting", "capturing"} => sock'[d].pc = sock[d].pc /\ sock'[d].on = slot
      BY <1>7, <2>2, <3>1 DEF Waiting
    <3> QED BY <3>1, <3>2 DEF Wanted, AskedFor, Watched
  <2> QED BY <2>1, <2>2 DEF Wanted
<1> QED BY <1>8, <1>9, <1>10, <1>11, <1>12

\* An exec that is refused or ends, and is forgotten, keeps the invariant when
\* nobody waits for it any more.
LEMMA OverKeeps ==
  ASSUME IInv, TypeOK', NEW e \in Execs, exec[e].st \in {"asking", "ready"},
         exec' = [exec EXCEPT ![e] = Over(@)], slot' = IF slot = e THEN 0 ELSE slot,
         \A d \in Clients : \/ sock'[d] = sock[d] /\ d \notin Waiting(e)
                            \/ sock'[d].pc = "ended" /\ d \in Waiting(e)
  PROVE  SlotInv' /\ UseInv' /\ Shots'
<1> USE DEF IInv, SlotInv, UseInv
<1>0. exec \in [Execs -> ExecRecords] /\ sock \in [Clients -> SockRecords] /\ slot \in 0..MaxExecs
  BY DEF TypeOK
<1>1. /\ \A f \in Execs \ {e} : exec'[f] = exec[f]
      /\ exec'[e].st = "over" /\ exec'[e].to = {} /\ exec'[e].older = exec[e].older
      /\ exec'[e].sweep <=> exec[e].sweep
      /\ exec'[e].release <=> exec[e].release
  BY <1>0, OverFields
<1>2. slot' # 0 => slot' = slot /\ slot # e /\ slot \in Execs /\ exec'[slot] = exec[slot]
  BY <1>0, <1>1, ExecNumbers
<1>3. SlotInv'
  <2>1. ReadyIsSlot' /\ Uncut'
    BY <1>1 DEF ReadyIsSlot, Uncut
  <2>2. SlotUsed'
    BY <1>2 DEF SlotUsed
  <2>3. Heard' /\ Unstarted'
    BY <1>1 DEF Heard, Unstarted
  <2> QED BY <2>1, <2>2, <2>3
<1>4. Shots'
  <2>1. \A f \in Execs : exec[f].older \subseteq Execs
    BY <1>0 DEF ExecRecords
  <2> QED BY <1>1, <2>1 DEF Shots
<1>5. Places'
  <2>1. ASSUME NEW d \in Clients
        PROVE  /\ sock'[d].pc = "waiting" => sock'[d].on \in Execs /\ exec'[sock'[d].on].st = "asking"
               /\ sock'[d].pc = "capturing" => sock'[d].on \in Execs /\ exec'[sock'[d].on].st \in {"ready", "over"}
    <3>1. CASE sock'[d] = sock[d] /\ d \notin Waiting(e)
      BY <1>1, <3>1 DEF Places, Waiting
    <3>2. CASE sock'[d].pc = "ended"
      BY <3>2
    <3> QED BY <3>1, <3>2
  <2> QED BY <2>1 DEF Places
<1>6. Listeners'
  <2>1. slot' # 0 => exec[slot].to \subseteq Clients
    BY <1>0, <1>2 DEF ExecRecords
  <2>2. \A d \in Clients : sock[d].pc # "waiting" => sock'[d] = sock[d]
    BY DEF Waiting
  <2> QED BY <1>2, <2>1, <2>2 DEF Listeners
<1>7. Wanted'
  <2>1. slot' # 0 => \A d \in Clients : sock[d].on = slot => sock'[d] = sock[d]
    BY <1>2 DEF Waiting
  <2> QED BY <1>2, <2>1 DEF Wanted, AskedFor, Watched
<1> QED BY <1>3, <1>4, <1>5, <1>6, <1>7

\* The steps of an exec keep the invariant.
LEMMA ExecKeeps ==
  ASSUME IInv, TypeOK', NEW e \in Execs, ExecStep(e)
  PROVE  SlotInv' /\ UseInv' /\ Shots'
<1> USE DEF IInv
<1>0. exec \in [Execs -> ExecRecords] /\ sock \in [Clients -> SockRecords] /\ exec[e] \in ExecRecords
  BY DEF TypeOK
<1>1. CASE Spawned(e)
  BY <1>1, SpawnedKeeps
<1>2. CASE SpawnFails(e)
  <2>1. \A d \in Clients : \/ sock'[d] = sock[d] /\ d \notin Waiting(e)
                           \/ sock'[d].pc = "ended" /\ d \in Waiting(e)
    BY <1>0, <1>2 DEF SpawnFails, Ended, Socket
  <2> QED BY <1>2, <2>1, OverKeeps DEF SpawnFails
<1>3. CASE StreamEnds(e)
  <2>1. \A d \in Clients : sock'[d] = sock[d] /\ d \notin Waiting(e)
    BY <1>3 DEF StreamEnds, Waiting, UseInv, Places
  <2> QED BY <1>3, <2>1, OverKeeps DEF StreamEnds
<1>4. CASE LearnPid(e)
  <2>1. /\ UNCHANGED <<slot, sock>> /\ exec[e].st = "ready"
        /\ \A f \in Execs \ {e} : exec'[f] = exec[f]
        /\ exec'[e].st = exec[e].st /\ exec'[e].to = exec[e].to /\ exec'[e].older = exec[e].older
        /\ exec'[e].client = exec[e].client
        /\ exec'[e].release <=> exec[e].release
    BY <1>0, <1>4 DEF LearnPid, ExecRecords
  <2>2. slot = e /\ slot # 0
    BY <2>1, ExecNumbers DEF SlotInv, ReadyIsSlot
  <2>3. SlotInv'
    BY <2>1 DEF SlotInv, SlotUsed, ReadyIsSlot, Uncut, Heard, Unstarted
  <2>4. Shots'
    <3>1. \A f \in Execs : exec[f].older \subseteq Execs
      BY <1>0 DEF ExecRecords
    <3> QED BY <2>1, <3>1 DEF Shots
  <2>5. Places'
    BY <2>1, PlacesKept DEF UseInv
  <2>6. Listeners' /\ Wanted'
    BY <2>1, <2>2 DEF UseInv, Listeners, Wanted, Watched
  <2> QED BY <2>3, <2>4, <2>5, <2>6 DEF UseInv
<1>5. CASE ClientListed(e) \/ ClientExits(e) \/ ReleaseRuns(e)
  <2>1. UNCHANGED <<slot, sock>>
    BY <1>5 DEF ClientListed, ClientExits, ReleaseRuns
  <2>2. \A f \in Execs \ {e} : exec'[f] = exec[f]
    BY <1>0, <1>5 DEF ClientListed, ClientExits, ReleaseRuns
  <2>3. \A x \in ExecRecords, client \in {"listed", "gone"} :
          /\ LET y == [x EXCEPT !.client = client] IN
               /\ y.st = x.st /\ y.to = x.to /\ y.older = x.older
               /\ y.cut <=> x.cut
               /\ y.sweep <=> x.sweep
               /\ y.release <=> x.release
          /\ LET y == [x EXCEPT !.release = FALSE] IN
               /\ y.st = x.st /\ y.to = x.to /\ y.older = x.older
               /\ y.cut <=> x.cut
               /\ y.sweep <=> x.sweep
               /\ ~y.release
          /\ LET y == [x EXCEPT !.release = FALSE, !.client = client] IN
               /\ y.st = x.st /\ y.to = x.to /\ y.older = x.older
               /\ y.cut <=> x.cut
               /\ y.sweep <=> x.sweep
               /\ ~y.release
    BY DEF ExecRecords
  <2>4. /\ exec'[e].st = exec[e].st /\ exec'[e].to = exec[e].to /\ exec'[e].older = exec[e].older
        /\ exec'[e].cut <=> exec[e].cut
        /\ exec'[e].sweep <=> exec[e].sweep
        /\ exec'[e].release => exec[e].release
    <3>1. \/ exec'[e] = [exec[e] EXCEPT !.client = "listed"]
          \/ exec'[e] = [exec[e] EXCEPT !.client = "gone"]
          \/ exec'[e] = [exec[e] EXCEPT !.release = FALSE]
          \/ exec'[e] = [exec[e] EXCEPT !.release = FALSE, !.client = "gone"]
      BY <1>0, <1>5 DEF ClientListed, ClientExits, ReleaseRuns
    <3>2. "listed" \in {"listed", "gone"} /\ "gone" \in {"listed", "gone"}
      OBVIOUS
    <3>3. CASE exec'[e] = [exec[e] EXCEPT !.client = "listed"]
      BY <1>0, <2>3, <3>2, <3>3
    <3>4. CASE exec'[e] = [exec[e] EXCEPT !.client = "gone"]
      BY <1>0, <2>3, <3>2, <3>4
    <3>5. CASE exec'[e] = [exec[e] EXCEPT !.release = FALSE]
      BY <1>0, <2>3, <3>2, <3>5
    <3>6. CASE exec'[e] = [exec[e] EXCEPT !.release = FALSE, !.client = "gone"]
      BY <1>0, <2>3, <3>2, <3>6
    <3> QED BY <3>1, <3>3, <3>4, <3>5, <3>6
  <2>5. exec[e].st \in {"ready", "over"}
    <3>1. CASE ClientListed(e) \/ ClientExits(e)
      BY <1>0, <3>1 DEF ClientListed, ClientExits, SlotInv, Unstarted, ExecRecords
    <3>2. CASE ReleaseRuns(e)
      BY <3>2 DEF ReleaseRuns, Shots
    <3> QED BY <1>5, <3>1, <3>2
  <2> QED BY <2>1, <2>2, <2>4, <2>5, ClientsKeep
<1>6. CASE SweepRuns(e)
  <2>1. UNCHANGED <<slot, sock>>
    BY <1>6 DEF SweepRuns
  <2>2. \A x \in ExecRecords, gone \in BOOLEAN, sweep \in BOOLEAN :
          LET y == [x EXCEPT !.client = IF gone THEN "gone" ELSE @, !.sweep = sweep] IN
            /\ y.st = x.st /\ y.to = x.to /\ y.older = x.older
            /\ y.cut <=> x.cut
            /\ y.sweep <=> sweep
            /\ y.release <=> x.release
            /\ ~gone => y.client = x.client
    BY DEF ExecRecords
  <2>3. \A x \in ExecRecords :
          LET y == [x EXCEPT !.sweep = FALSE] IN
            /\ y.st = x.st /\ y.to = x.to /\ y.older = x.older /\ y.client = x.client
            /\ y.cut <=> x.cut
            /\ ~y.sweep
            /\ y.release <=> x.release
    BY DEF ExecRecords
  <2>4. ASSUME NEW f \in Execs
        PROVE  /\ exec'[f].st = exec[f].st /\ exec'[f].to = exec[f].to /\ exec'[f].older = exec[f].older
               /\ exec'[f].cut <=> exec[f].cut
               /\ exec'[f].sweep => exec[f].sweep
               /\ exec'[f].release <=> exec[f].release
               /\ exec'[f].client = exec[f].client \/ exec[f].st \in {"ready", "over"}
    <3>0. exec[f] \in ExecRecords
      BY <1>0
    <3>1. CASE exec' = [exec EXCEPT ![e].sweep = FALSE]
      BY <1>0, <2>3, <3>1
    <3>2. CASE exec'[f] = [exec[f] EXCEPT !.client = IF f \in Older(e) THEN "gone" ELSE @, !.sweep = @ /\ f # e]
      <4>1. \E gone \in BOOLEAN, sweep \in BOOLEAN :
              /\ exec'[f] = [exec[f] EXCEPT !.client = IF gone THEN "gone" ELSE @, !.sweep = sweep]
              /\ gone <=> f \in Older(e)
              /\ sweep <=> (exec[f].sweep /\ f # e)
        <5>1. (f \in Older(e)) \in BOOLEAN /\ (exec[f].sweep /\ f # e) \in BOOLEAN
          OBVIOUS
        <5> WITNESS (f \in Older(e)) \in BOOLEAN, (exec[f].sweep /\ f # e) \in BOOLEAN
        <5> QED BY <3>2, Zenon
      <4>2. f \in Older(e) => exec[f].st \in {"ready", "over"}
        BY <3>0 DEF Older, SlotInv, Unstarted, ExecRecords
      <4>3. /\ exec'[f].st = exec[f].st /\ exec'[f].to = exec[f].to /\ exec'[f].older = exec[f].older
            /\ exec'[f].cut <=> exec[f].cut
            /\ exec'[f].sweep <=> (exec[f].sweep /\ f # e)
            /\ exec'[f].release <=> exec[f].release
            /\ f \notin Older(e) => exec'[f].client = exec[f].client
        BY <2>2, <3>0, <4>1
      <4> QED BY <4>2, <4>3
    <3> QED BY <1>6, <3>1, <3>2 DEF SweepRuns
  <2> QED BY <2>1, <2>4, ClientsKeep
<1> QED BY <1>1, <1>2, <1>3, <1>4, <1>5, <1>6 DEF ExecStep

\* A teardown keeps the invariant: the slot is empty, and an exec that is still
\* being spawned is to be destroyed.
LEMMA TornDownKeeps ==
  ASSUME IInv, TypeOK', TornDown
  PROVE  SlotInv' /\ UseInv' /\ Shots'
<1> USE DEF IInv, SlotInv, UseInv
<1>0. exec \in [Execs -> ExecRecords] /\ sock \in [Clients -> SockRecords] /\ slot \in 0..MaxExecs
  BY DEF TypeOK
<1>1. slot' = 0
  BY DEF TornDown
<1>2. \A x \in ExecRecords :
        LET y == [x EXCEPT !.cut = TRUE] IN
          /\ y.st = x.st /\ y.to = x.to /\ y.older = x.older /\ y.client = x.client
          /\ y.cut
          /\ y.sweep <=> x.sweep
          /\ y.release <=> x.release
  BY DEF ExecRecords
<1>3. ASSUME NEW f \in Execs
      PROVE  /\ exec'[f].older = exec[f].older /\ exec'[f].client = exec[f].client
             /\ exec'[f].sweep <=> exec[f].sweep
             /\ exec'[f].release <=> exec[f].release
             /\ exec[f].st = "asking" => exec'[f].st = "asking" /\ exec'[f].cut
             /\ exec[f].st \in {"ready", "over"} => exec'[f].st = "over"
             /\ exec[f].st = "none" => exec'[f].st = "none"
             /\ exec'[f].to = {}
  <2>1. CASE f # slot
    <3>1. exec'[f] = exec[f]
      BY <2>1 DEF TornDown
    <3>2. exec[f].st # "ready" /\ (exec[f].st = "asking" => exec[f].cut)
      BY <2>1 DEF ReadyIsSlot, Uncut
    <3> QED BY <3>1, <3>2 DEF Heard
  <2>2. CASE f = slot
    <3>1. exec[f].st \in {"asking", "ready"} /\ exec[f] \in ExecRecords
      BY <1>0, <2>2, ExecNumbers DEF SlotUsed
    <3>2. CASE exec[f].st = "asking"
      <4>1. exec'[f] = [exec[f] EXCEPT !.cut = TRUE]
        BY <2>2, <3>2 DEF TornDown
      <4> QED BY <1>2, <3>1, <3>2, <4>1 DEF Heard
    <3>3. CASE exec[f].st = "ready"
      <4>1. exec'[f] = Over(exec[f])
        BY <2>2, <3>3 DEF TornDown
      <4> QED BY <3>1, <3>3, <4>1, OverFields
    <3> QED BY <3>1, <3>2, <3>3
  <2> QED BY <2>1, <2>2
<1>4. \A f \in Execs : exec[f].st \in {"none", "asking", "ready", "over"} /\ exec[f].older \subseteq Execs
  BY <1>0 DEF ExecRecords
<1>5. SlotInv'
  BY <1>1, <1>3, <1>4 DEF SlotUsed, ReadyIsSlot, Uncut, Heard, Unstarted
<1>6. Shots'
  <2>1. \A f \in Execs : exec'[f].st # "ready"
    BY <1>3, <1>4
  <2> QED BY <2>1, <1>3, <1>4 DEF Shots
<1>7. Places'
  <2>1. \A d \in Clients : sock'[d].pc = sock[d].pc /\ sock'[d].on = sock[d].on
    BY <1>0 DEF TornDown, SockRecords
  <2>2. \A f \in Execs : /\ exec[f].st = "asking" => exec'[f].st = "asking"
                         /\ exec[f].st \in {"ready", "over"} => exec'[f].st \in {"ready", "over"}
    BY <1>3
  <2> QED BY <2>1, <2>2, PlacesKept
<1>8. Listeners' /\ Wanted'
  BY <1>1 DEF Listeners, Wanted
<1> QED BY <1>5, <1>6, <1>7, <1>8

\* The death of the process keeps the invariant: every exec is over, no socket
\* has a place, and what was sent to the container is for execs that were over.
LEMMA CrashKeeps ==
  ASSUME IInv, TypeOK', Crash
  PROVE  SlotInv' /\ UseInv' /\ Shots'
<1> USE DEF IInv, SlotInv, UseInv
<1>0. exec \in [Execs -> ExecRecords] /\ sock \in [Clients -> SockRecords]
  BY DEF TypeOK
<1>1. slot' = 0
  BY DEF Crash
<1>2. PICK started \in BOOLEAN : exec' = [e \in Execs |-> Orphaned(exec[e], started)]
  BY DEF Crash
<1>3. \A x \in ExecRecords, older \in SUBSET Execs :
        LET y == [x EXCEPT !.client = "starting", !.older = older] IN
          /\ y.st = x.st /\ y.to = x.to /\ y.older = older
          /\ y.sweep <=> x.sweep
          /\ y.release <=> x.release
  BY DEF ExecRecords
<1>4. ASSUME NEW f \in Execs
      PROVE  /\ exec[f].st = "none" => exec'[f] = exec[f]
             /\ exec[f].st # "none" => exec'[f].st = "over" /\ exec'[f].to = {}
             /\ exec'[f].sweep <=> exec[f].sweep
             /\ exec'[f].release <=> exec[f].release
             /\ exec[f].sweep => exec'[f].older = exec[f].older
  <2>1. exec'[f] = Orphaned(exec[f], started) /\ exec[f] \in ExecRecords
    BY <1>0, <1>2
  <2>2. CASE exec[f].st = "none"
    BY <2>1, <2>2 DEF Orphaned
  <2>3. CASE exec[f].st = "asking" /\ started
    <3>1. exec'[f] = [Over(exec[f]) EXCEPT !.client = "starting", !.older = Started]
      BY <2>1, <2>3 DEF Orphaned
    <3>2. Over(exec[f]) \in ExecRecords /\ Started \in SUBSET Execs
      BY <2>1, OverTyped DEF Started
    <3>3. ~exec[f].sweep
      BY <2>3 DEF Unstarted
    <3>4. /\ exec'[f].st = Over(exec[f]).st /\ exec'[f].to = Over(exec[f]).to
          /\ exec'[f].sweep <=> Over(exec[f]).sweep
          /\ exec'[f].release <=> Over(exec[f]).release
      BY <1>3, <3>1, <3>2
    <3> QED BY <2>1, <2>3, <3>3, <3>4, OverFields
  <2>4. CASE exec[f].st # "none" /\ ~(exec[f].st = "asking" /\ started)
    <3>1. exec'[f] = Over(exec[f])
      BY <2>1, <2>4 DEF Orphaned
    <3> QED BY <2>1, <2>4, <3>1, OverFields
  <2> QED BY <2>2, <2>3, <2>4
<1>5. SlotInv'
  BY <1>1, <1>4 DEF SlotUsed, ReadyIsSlot, Uncut, Heard, Unstarted
<1>6. Shots'
  <2>1. \A f \in Execs : exec[f].older \subseteq Execs
    BY <1>0 DEF ExecRecords
  <2>2. \A f \in Execs : exec[f].st = "over" => exec'[f].st = "over"
    BY <1>4
  <2>3. \A f \in Execs : exec'[f].st # "ready" /\ (exec'[f].release => exec'[f].st = "over")
    BY <1>4 DEF Shots
  <2> QED BY <2>1, <2>2, <2>3, <1>4 DEF Shots
<1>7. Places'
  <2>1. \A d \in Clients : sock'[d].pc \notin {"waiting", "capturing"}
    BY DEF Crash, Ended, Socket
  <2> QED BY <2>1 DEF Places
<1>8. Listeners' /\ Wanted'
  BY <1>1 DEF Listeners, Wanted
<1> QED BY <1>5, <1>6, <1>7, <1>8

\* Stops, starts, deletions and the death of the process keep the invariant.
LEMMA BoxKeeps ==
  ASSUME IInv, TypeOK', BoxStops \/ BoxStarts \/ KillEnds \/ DeleteTab \/ TabKilled \/ Crash
  PROVE  SlotInv' /\ UseInv' /\ Shots'
<1> USE DEF IInv
<1>0. exec \in [Execs -> ExecRecords]
  BY DEF TypeOK
<1>1. CASE BoxStops
  <2>1. \A x \in ExecRecords, client \in {"none", "starting", "listed", "gone"} :
          LET y == [x EXCEPT !.client = client, !.sweep = FALSE, !.release = FALSE] IN
            /\ y.st = x.st /\ y.to = x.to /\ y.older = x.older /\ y.client = client
            /\ y.cut <=> x.cut
            /\ ~y.sweep
            /\ ~y.release
    BY DEF ExecRecords
  <2>2. ASSUME NEW f \in Execs
        PROVE  /\ exec'[f].st = exec[f].st /\ exec'[f].to = exec[f].to /\ exec'[f].older = exec[f].older
               /\ exec'[f].cut <=> exec[f].cut
               /\ ~exec'[f].sweep
               /\ ~exec'[f].release
               /\ exec'[f].client = exec[f].client \/ exec[f].st \in {"ready", "over"}
    <3> DEFINE client == IF exec[f].client = "none" THEN exec[f].client ELSE "gone"
    <3>1. exec'[f] = [exec[f] EXCEPT !.client = client, !.sweep = FALSE, !.release = FALSE]
      BY <1>1 DEF BoxStops, Emptied
    <3>2. exec[f] \in ExecRecords /\ client \in {"none", "starting", "listed", "gone"}
      BY <1>0
    <3>3. client = exec[f].client \/ exec[f].st \in {"ready", "over"}
      BY <3>2 DEF SlotInv, Unstarted, ExecRecords
    <3> HIDE DEF client
    <3> QED BY <2>1, <3>1, <3>2, <3>3
  <2> QED BY <1>1, <2>2, ClientsKeep DEF BoxStops
<1>2. CASE BoxStarts
  BY <1>2, ClientsKeep DEF BoxStarts
<1>3. CASE KillEnds \/ DeleteTab
  BY <1>3, TornDownKeeps DEF KillEnds, DeleteTab
<1>4. CASE TabKilled
  <2>1. CASE UNCHANGED exec
    BY <1>4, <2>1, ClientsKeep DEF TabKilled
  <2>2. CASE exec' = [e \in Execs |-> [exec[e] EXCEPT !.client = IF @ = "listed" THEN "gone" ELSE @]]
    <3>1. \A x \in ExecRecords, client \in {"none", "starting", "listed", "gone"} :
            LET y == [x EXCEPT !.client = client] IN
              /\ y.st = x.st /\ y.to = x.to /\ y.older = x.older /\ y.client = client
              /\ y.cut <=> x.cut
              /\ y.sweep <=> x.sweep
              /\ y.release <=> x.release
      BY DEF ExecRecords
    <3>2. ASSUME NEW f \in Execs
          PROVE  /\ exec'[f].st = exec[f].st /\ exec'[f].to = exec[f].to /\ exec'[f].older = exec[f].older
                 /\ exec'[f].cut <=> exec[f].cut
                 /\ exec'[f].sweep <=> exec[f].sweep
                 /\ exec'[f].release <=> exec[f].release
                 /\ exec'[f].client = exec[f].client \/ exec[f].st \in {"ready", "over"}
      <4> DEFINE client == IF exec[f].client = "listed" THEN "gone" ELSE exec[f].client
      <4>1. exec'[f] = [exec[f] EXCEPT !.client = client]
        BY <2>2
      <4>2. exec[f] \in ExecRecords /\ exec[f].client \in {"none", "starting", "listed", "gone"}
        BY <1>0 DEF ExecRecords
      <4>3. client \in {"none", "starting", "listed", "gone"}
        BY <4>2
      <4>4. client = exec[f].client \/ exec[f].st \in {"ready", "over"}
        BY <4>2 DEF SlotInv, Unstarted, ExecRecords
      <4> HIDE DEF client
      <4> QED BY <3>1, <4>1, <4>2, <4>3, <4>4
    <3> QED BY <1>4, <3>2, ClientsKeep DEF TabKilled
  <2> QED BY <1>4, <2>1, <2>2 DEF TabKilled
<1>5. CASE Crash
  BY <1>5, CrashKeeps
<1> QED BY <1>1, <1>2, <1>3, <1>4, <1>5

-----------------------------------------------------------------------------
(* The properties                                                           *)

\* The invariant holds at the start
LEMMA InitInv == Init => IInv
<1> SUFFICES ASSUME Init PROVE IInv
  OBVIOUS
<1>1. slot = 0 /\ \A e \in Execs : exec[e] = NoExec
  BY DEF Init
<1>2. \A c \in Clients : sock[c].pc = "out"
  BY DEF Init, Outside, Socket
<1>3. SlotInv /\ Shots
  BY <1>1 DEF NoExec, SlotInv, SlotUsed, ReadyIsSlot, Uncut, Heard, Unstarted, Shots
<1>4. UseInv
  BY <1>1, <1>2 DEF UseInv, Places, Listeners, Wanted
<1> QED BY <1>3, <1>4, InitTyped DEF IInv

\* and is kept by every step.
LEMMA NextInv == IInv /\ [Next]_vars => IInv'
<1> SUFFICES ASSUME IInv, [Next]_vars PROVE IInv'
  OBVIOUS
<1>1. TypeOK'
  BY NextTyped DEF IInv
<1>2. CASE UNCHANGED vars
  <2>1. SlotInv' /\ Shots'
    BY <1>2 DEF vars, IInv, SlotInv, SlotUsed, ReadyIsSlot, Uncut, Heard, Unstarted, Shots
  <2>2. UseInv'
    BY <1>2 DEF vars, IInv, UseInv, Places, Listeners, Wanted, AskedFor, Watched
  <2> QED BY <1>1, <2>1, <2>2 DEF IInv
<1> QED BY <1>1, <1>2, AttachKeeps, ExecKeeps, BoxKeeps DEF Next, IInv

\* The exec of the slot is never held for nobody, whatever order the attaches,
\* the closes, the answers of Docker, the stops and the crashes come in.
THEOREM NoExecIsLeaked == Spec => []NoLeakedExec
<1>1. IInv => NoLeakedExec
  <2> SUFFICES ASSUME IInv, slot # 0, exec[slot].st = "ready"
               PROVE  \E c \in Clients :
                        \/ sock[c].pc = "capturing" /\ sock[c].on = slot
                        \/ c \in exec[slot].to /\ (sock[c].pc = "joining" \/ (sock[c].pc = "attached" /\ sock[c].open))
    BY DEF NoLeakedExec
  <2>1. exec[slot].to \subseteq Clients
    BY ExecNumbers DEF IInv, TypeOK, ExecRecords
  <2>2. Watched(slot) /\ Listeners
    BY DEF IInv, UseInv, Wanted
  <2> QED BY <2>1, <2>2 DEF Watched, Listeners
<1> QED BY <1>1, InitInv, NextInv, PTL DEF Spec

\* In most steps no exec gets a listener and nothing sent to the container
\* is used up: the rest are a listener's registration, a release, a sweep and
\* the stop of the container.
Quiet ==
  \A e \in Execs : /\ exec'[e].to \subseteq exec[e].to
                   /\ exec[e].sweep => exec'[e].sweep
                   /\ exec[e].release => exec'[e].release
Registered(c) ==
  /\ sock[c].pc = "capturing" /\ sock[c].on = slot
  /\ exec' = [exec EXCEPT ![slot].to = @ \cup {c}] /\ UNCHANGED slot

\* A change of one exec is quiet when that exec's is.
LEMMA QuietExec ==
  ASSUME TypeOK, NEW e \in Execs, NEW x, exec' = [exec EXCEPT ![e] = x],
         x.to \subseteq exec[e].to,
         exec[e].sweep => x.sweep,
         exec[e].release => x.release
  PROVE  Quiet
BY DEF TypeOK, Quiet

\* Every step is quiet or one of the four.
LEMMA OtherSteps ==
  ASSUME IInv, Next
  PROVE  \/ Quiet
         \/ \E c \in Clients : Registered(c)
         \/ \E e \in Execs : ReleaseRuns(e) \/ SweepRuns(e)
         \/ BoxStops
<1> USE DEF IInv
<1>0. exec \in [Execs -> ExecRecords] /\ slot \in 0..MaxExecs /\ TypeOK
  BY DEF TypeOK
<1>1. UNCHANGED exec => Quiet
  BY DEF Quiet
<1>2. \A x \in ExecRecords :
        /\ LET y == [x EXCEPT !.st = "asking"] IN
             /\ y.to = x.to
             /\ y.sweep <=> x.sweep
             /\ y.release <=> x.release
        /\ LET y == [x EXCEPT !.cut = TRUE] IN
             /\ y.to = x.to
             /\ y.sweep <=> x.sweep
             /\ y.release <=> x.release
        /\ LET y == [x EXCEPT !.pid = TRUE, !.sweep = TRUE] IN
             /\ y.to = x.to
             /\ y.sweep
             /\ y.release <=> x.release
  BY DEF ExecRecords
<1>3. \A x \in ExecRecords, client \in {"listed", "gone"} :
        LET y == [x EXCEPT !.client = client] IN
          /\ y.to = x.to
          /\ y.sweep <=> x.sweep
          /\ y.release <=> x.release
  BY DEF ExecRecords
<1>4. ASSUME NEW c \in Clients, NEW try, NEW open, Acquire(c, try, open) PROVE Quiet
  <2>1. CASE UNCHANGED exec
    BY <1>1, <2>1
  <2>2. CASE slot = 0
    <3>1. PICK e \in Execs : exec' = [exec EXCEPT ![e] = [exec[e] EXCEPT !.st = "asking"]]
      BY <1>4, <2>2 DEF Acquire
    <3> QED BY <1>0, <1>2, <3>1, QuietExec
  <2> QED BY <1>4, <2>1, <2>2 DEF Acquire
<1>5. ASSUME NEW c \in Clients, Detach(c) PROVE Quiet
  <2>1. slot # 0 => slot \in Execs
    BY <1>0, ExecNumbers
  <2>2. CASE UNCHANGED exec
    BY <1>1, <2>2
  <2>3. CASE slot # 0 /\ exec' = [exec EXCEPT ![slot] = [exec[slot] EXCEPT !.cut = TRUE]]
    BY <1>0, <1>2, <2>1, <2>3, QuietExec
  <2>4. CASE slot # 0 /\ exec[slot].st = "ready" /\ exec' = [exec EXCEPT ![slot] = Closed(exec[slot])]
    <3>1. ~exec[slot].release
      BY <2>1, <2>4 DEF Shots
    <3>2. exec[slot] \in ExecRecords /\ Over(exec[slot]) \in ExecRecords /\ exec[slot].pid \in BOOLEAN
      BY <1>0, <2>1, <2>4, OverTyped DEF ExecRecords
    <3>3. \A x \in ExecRecords, v \in BOOLEAN :
            /\ [x EXCEPT !.release = v].to = x.to
            /\ [x EXCEPT !.release = v].sweep <=> x.sweep
      BY DEF ExecRecords
    <3>4. /\ Closed(exec[slot]).to = {}
          /\ Closed(exec[slot]).sweep <=> exec[slot].sweep
      BY <3>2, <3>3, OverFields DEF Closed
    <3> QED BY <1>0, <2>1, <2>4, <3>1, <3>4, QuietExec
  <2>5. CASE slot # 0 /\ exec' = [exec EXCEPT ![slot] = [exec[slot] EXCEPT !.to = exec[slot].to \ {c}]]
    <3>1. \A x \in ExecRecords, to \in SUBSET Clients :
            LET y == [x EXCEPT !.to = to] IN
              /\ y.to = to
              /\ y.sweep <=> x.sweep
              /\ y.release <=> x.release
      BY DEF ExecRecords
    <3> DEFINE to == exec[slot].to \ {c}
               y  == [exec[slot] EXCEPT !.to = to]
    <3>2. to \in SUBSET Clients /\ to \subseteq exec[slot].to
      BY <1>0, <2>1, <2>5 DEF ExecRecords
    <3>3. exec' = [exec EXCEPT ![slot] = y]
      BY <2>5
    <3> HIDE DEF to
    <3>4. /\ y.to \subseteq exec[slot].to
          /\ y.sweep <=> exec[slot].sweep
          /\ y.release <=> exec[slot].release
      BY <1>0, <2>1, <2>5, <3>1, <3>2
    <3> HIDE DEF y
    <3> QED BY <1>0, <2>1, <2>5, <3>3, <3>4, QuietExec
  <2> QED BY <1>5, <2>2, <2>3, <2>4, <2>5 DEF Detach
<1>6. ASSUME NEW c \in Clients, AttachStep(c) PROVE Quiet \/ Registered(c)
  <2>1. CASE Connect(c)
    BY <1>4, <2>1 DEF Connect
  <2>2. CASE Captured(c)
    BY <1>1, <1>4, <2>2 DEF Captured, Registered
  <2>3. CASE Joined(c) \/ JoinFails(c) \/ SocketCloses(c)
    BY <1>1, <1>5, <2>3 DEF Joined, JoinFails, SocketCloses
  <2> QED BY <1>6, <2>1, <2>2, <2>3 DEF AttachStep
<1>7. ASSUME NEW e \in Execs, exec' = [exec EXCEPT ![e] = Over(exec[e])] PROVE Quiet
  <2>1. exec[e] \in ExecRecords
    BY <1>0
  <2>2. /\ Over(exec[e]).to \subseteq exec[e].to
        /\ Over(exec[e]).sweep <=> exec[e].sweep
        /\ Over(exec[e]).release <=> exec[e].release
    BY <2>1, OverFields
  <2> QED BY <1>0, <1>7, <2>2, QuietExec
<1>8. ASSUME NEW e \in Execs, Spawned(e) PROVE Quiet
  <2>1. exec[e].st = "asking"
    BY <1>8 DEF Spawned
  <2>2. ~exec[e].sweep /\ ~exec[e].release /\ exec[e].to = {}
    BY <2>1 DEF SlotInv, Unstarted, Heard
  <2>3. \A x \in ExecRecords, older \in SUBSET Execs :
          LET y == [x EXCEPT !.st = "ready", !.client = "starting", !.older = older] IN
            y \in ExecRecords /\ y.to = x.to
    BY DEF ExecRecords
  <2> DEFINE x == [exec[e] EXCEPT !.st = "ready", !.client = "starting", !.older = Started]
  <2>4. x \in ExecRecords /\ x.to = {}
    <3>1. Started \in SUBSET Execs
      BY DEF Started
    <3> QED BY <1>0, <2>2, <2>3, <3>1
  <2>5. exec' = [exec EXCEPT ![e] = IF x.cut THEN Over(x) ELSE x]
    BY <1>8 DEF Spawned
  <2> HIDE DEF x
  <2> DEFINE z == IF x.cut THEN Over(x) ELSE x
  <2>6. z.to = {} /\ exec' = [exec EXCEPT ![e] = z]
    BY <2>4, <2>5, OverFields
  <2> HIDE DEF z
  <2> QED BY <1>0, <2>2, <2>6, QuietExec
<1>9. ASSUME NEW e \in Execs, ExecStep(e) PROVE Quiet \/ ReleaseRuns(e) \/ SweepRuns(e)
  <2>1. CASE SpawnFails(e) \/ StreamEnds(e)
    BY <1>7, <2>1 DEF SpawnFails, StreamEnds
  <2>2. CASE LearnPid(e)
    <3>1. exec' = [exec EXCEPT ![e] = [exec[e] EXCEPT !.pid = TRUE, !.sweep = TRUE]]
      BY <2>2 DEF LearnPid
    <3> QED BY <1>0, <1>2, <3>1, QuietExec
  <2>3. CASE ClientListed(e) \/ ClientExits(e)
    <3>1. \/ exec' = [exec EXCEPT ![e] = [exec[e] EXCEPT !.client = "listed"]]
          \/ exec' = [exec EXCEPT ![e] = [exec[e] EXCEPT !.client = "gone"]]
      BY <2>3 DEF ClientListed, ClientExits
    <3>2. "listed" \in {"listed", "gone"} /\ "gone" \in {"listed", "gone"}
      OBVIOUS
    <3> QED BY <1>0, <1>3, <3>1, <3>2, QuietExec
  <2> QED BY <1>8, <1>9, <2>1, <2>2, <2>3 DEF ExecStep
<1>10. TornDown => Quiet
  <2> SUFFICES ASSUME TornDown PROVE Quiet
    OBVIOUS
  <2>1. ASSUME NEW f \in Execs
        PROVE  /\ exec'[f].to \subseteq exec[f].to
               /\ exec[f].sweep => exec'[f].sweep
               /\ exec[f].release => exec'[f].release
    <3>1. exec[f] \in ExecRecords
      BY <1>0
    <3>2. \/ exec'[f] = exec[f]
          \/ exec'[f] = [exec[f] EXCEPT !.cut = TRUE]
          \/ exec'[f] = Over(exec[f])
      BY DEF TornDown
    <3>3. CASE exec'[f] = exec[f]
      BY <3>3
    <3>4. CASE exec'[f] = [exec[f] EXCEPT !.cut = TRUE]
      BY <1>2, <3>1, <3>4
    <3>5. CASE exec'[f] = Over(exec[f])
      BY <3>1, <3>5, OverFields
    <3> QED BY <3>2, <3>3, <3>4, <3>5
  <2> QED BY <2>1 DEF Quiet
<1>11. TabKilled => Quiet
  <2>1. CASE exec' = [e \in Execs |-> [exec[e] EXCEPT !.client = IF @ = "listed" THEN "gone" ELSE @]]
    <3>1. \A x \in ExecRecords, client \in {"none", "starting", "listed", "gone"} :
            LET y == [x EXCEPT !.client = client] IN
              /\ y.to = x.to
              /\ y.sweep <=> x.sweep
              /\ y.release <=> x.release
      BY DEF ExecRecords
    <3>2. ASSUME NEW f \in Execs
          PROVE  /\ exec'[f].to = exec[f].to
                 /\ exec'[f].sweep <=> exec[f].sweep
                 /\ exec'[f].release <=> exec[f].release
      <4> DEFINE client == IF exec[f].client = "listed" THEN "gone" ELSE exec[f].client
      <4>1. exec'[f] = [exec[f] EXCEPT !.client = client]
        BY <2>1
      <4>2. exec[f] \in ExecRecords /\ exec[f].client \in {"none", "starting", "listed", "gone"}
        BY <1>0 DEF ExecRecords
      <4>3. client \in {"none", "starting", "listed", "gone"}
        BY <4>2
      <4> HIDE DEF client
      <4> QED BY <3>1, <4>1, <4>2, <4>3
    <3> QED BY <3>2 DEF Quiet
  <2> QED BY <1>1, <2>1 DEF TabKilled
<1>12. Crash => Quiet
  <2> SUFFICES ASSUME Crash PROVE Quiet
    OBVIOUS
  <2>1. PICK started \in BOOLEAN : exec' = [e \in Execs |-> Orphaned(exec[e], started)]
    BY DEF Crash
  <2>2. \A x \in ExecRecords, older \in SUBSET Execs :
          LET y == [x EXCEPT !.client = "starting", !.older = older] IN
            /\ y.to = x.to
            /\ y.sweep <=> x.sweep
            /\ y.release <=> x.release
    BY DEF ExecRecords
  <2>3. ASSUME NEW f \in Execs
        PROVE  /\ exec'[f].to \subseteq exec[f].to
               /\ exec'[f].sweep <=> exec[f].sweep
               /\ exec'[f].release <=> exec[f].release
    <3>1. exec'[f] = Orphaned(exec[f], started) /\ exec[f] \in ExecRecords
      BY <1>0, <2>1
    <3>2. Over(exec[f]) \in ExecRecords /\ Started \in SUBSET Execs
      BY <3>1, OverTyped DEF Started
    <3>3. CASE exec'[f] = exec[f]
      BY <3>3
    <3>4. CASE exec'[f] = Over(exec[f])
      BY <3>1, <3>4, OverFields
    <3>5. CASE exec'[f] = [Over(exec[f]) EXCEPT !.client = "starting", !.older = Started]
      <4>1. /\ exec'[f].to = Over(exec[f]).to
            /\ exec'[f].sweep <=> Over(exec[f]).sweep
            /\ exec'[f].release <=> Over(exec[f]).release
        BY <2>2, <3>2, <3>5
      <4> QED BY <3>1, <4>1, OverFields
    <3> QED BY <3>1, <3>3, <3>4, <3>5 DEF Orphaned
  <2> QED BY <2>3 DEF Quiet
<1> QED BY <1>1, <1>6, <1>9, <1>10, <1>11, <1>12 DEF Next, BoxStarts, KillEnds, DeleteTab

\* No attach joins an exec that was torn down meanwhile.
THEOREM AttachJoinsLive == Spec => JoinsLive
<1> DEFINE Joins == \A e \in Execs :
      \A c \in exec'[e].to \ exec[e].to : slot = e /\ slot' = e /\ exec'[e].st = "ready"
<1>1. IInv /\ [Next]_vars => [Joins]_vars
  <2> SUFFICES ASSUME IInv, Next PROVE Joins
    OBVIOUS
  <2>0. exec \in [Execs -> ExecRecords]
    BY DEF IInv, TypeOK
  <2>1. CASE Quiet
    BY <2>1 DEF Quiet
  <2>2. ASSUME NEW c \in Clients, Registered(c) PROVE Joins
    <3>1. slot \in Execs /\ exec[slot].st \in {"ready", "over"}
      BY <2>2 DEF Registered, IInv, UseInv, Places
    <3>2. exec[slot].st = "ready"
      BY <3>1, ExecNumbers DEF IInv, SlotInv, SlotUsed
    <3>3. exec'[slot].st = "ready" /\ slot' = slot /\ \A e \in Execs \ {slot} : exec'[e] = exec[e]
      BY <2>0, <2>2, <3>1, <3>2 DEF Registered, ExecRecords
    <3> QED BY <3>3
  <2>3. ASSUME NEW e \in Execs, ReleaseRuns(e) \/ SweepRuns(e) PROVE Joins
    <3>1. \A x \in ExecRecords, client \in {"none", "starting", "listed", "gone"}, shot \in BOOLEAN :
            /\ [x EXCEPT !.release = shot].to = x.to
            /\ [x EXCEPT !.release = shot, !.client = client].to = x.to
            /\ [x EXCEPT !.sweep = shot].to = x.to
            /\ [x EXCEPT !.client = client, !.sweep = shot].to = x.to
      BY DEF ExecRecords
    <3>2. ASSUME NEW f \in Execs PROVE exec'[f].to = exec[f].to
      <4>1. exec[f] \in ExecRecords /\ exec[f].client \in {"none", "starting", "listed", "gone"}
        BY <2>0 DEF ExecRecords
      <4>2. /\ FALSE \in BOOLEAN /\ (exec[f].sweep /\ f # e) \in BOOLEAN
            /\ "gone" \in {"none", "starting", "listed", "gone"}
        OBVIOUS
      <4>3. \/ exec'[f] = exec[f]
            \/ exec'[f] = [exec[f] EXCEPT !.release = FALSE]
            \/ exec'[f] = [exec[f] EXCEPT !.release = FALSE, !.client = "gone"]
            \/ exec'[f] = [exec[f] EXCEPT !.sweep = FALSE]
            \/ exec'[f] = [exec[f] EXCEPT !.client = IF f \in Older(e) THEN "gone" ELSE @, !.sweep = @ /\ f # e]
        BY <2>0, <2>3 DEF ReleaseRuns, SweepRuns
      <4>4. CASE exec'[f] = [exec[f] EXCEPT !.client = IF f \in Older(e) THEN "gone" ELSE @, !.sweep = @ /\ f # e]
        <5> DEFINE client == IF f \in Older(e) THEN "gone" ELSE exec[f].client
                   shot   == exec[f].sweep /\ f # e
        <5>1. client \in {"none", "starting", "listed", "gone"} /\ shot \in BOOLEAN
          BY <4>1
        <5>2. exec'[f] = [exec[f] EXCEPT !.client = client, !.sweep = shot]
          BY <4>4, Zenon
        <5> HIDE DEF client, shot
        <5> QED BY <3>1, <4>1, <5>1, <5>2
      <4>5. CASE exec'[f] = exec[f]
        BY <4>5
      <4>6. CASE exec'[f] = [exec[f] EXCEPT !.release = FALSE]
        BY <3>1, <4>1, <4>2, <4>6
      <4>7. CASE exec'[f] = [exec[f] EXCEPT !.release = FALSE, !.client = "gone"]
        BY <3>1, <4>1, <4>2, <4>7
      <4>8. CASE exec'[f] = [exec[f] EXCEPT !.sweep = FALSE]
        BY <3>1, <4>1, <4>2, <4>8
      <4> QED BY <4>3, <4>4, <4>5, <4>6, <4>7, <4>8
    <3> QED BY <3>2
  <2>4. CASE BoxStops
    <3>1. \A x \in ExecRecords, client \in {"none", "starting", "listed", "gone"} :
            [x EXCEPT !.client = client, !.sweep = FALSE, !.release = FALSE].to = x.to
      BY DEF ExecRecords
    <3>2. ASSUME NEW f \in Execs PROVE exec'[f].to = exec[f].to
      <4> DEFINE client == IF exec[f].client = "none" THEN exec[f].client ELSE "gone"
      <4>1. exec[f] \in ExecRecords /\ client \in {"none", "starting", "listed", "gone"}
        BY <2>0
      <4>2. exec'[f] = [exec[f] EXCEPT !.client = client, !.sweep = FALSE, !.release = FALSE]
        BY <2>4 DEF BoxStops, Emptied
      <4> HIDE DEF client
      <4> QED BY <3>1, <4>1, <4>2
    <3> QED BY <3>2
  <2> QED BY <2>1, <2>2, <2>3, <2>4, OtherSteps
<1> QED BY <1>1, InitInv, NextInv, PTL DEF Spec, JoinsLive

\* No sweep and no release, however late and whoever sent it, ends the tmux
\* client of the exec in the slot.
THEOREM SlotClientSurvives == Spec => LiveClientSurvives
<1> DEFINE Survives == slot # 0 /\ (\E e \in Execs : OneShotRuns(e)) /\ box' = "up"
                         => exec'[slot].client = exec[slot].client
<1>1. IInv /\ [Next]_vars => [Survives]_vars
  <2> SUFFICES ASSUME IInv, Next, slot # 0, NEW e \in Execs, OneShotRuns(e), box' = "up"
               PROVE  exec'[slot].client = exec[slot].client
    OBVIOUS
  <2>0. exec \in [Execs -> ExecRecords] /\ slot \in Execs /\ exec[slot].st \in {"asking", "ready"}
    BY ExecNumbers DEF IInv, TypeOK, SlotInv, SlotUsed
  <2>1. CASE Quiet
    BY <2>1 DEF Quiet, OneShotRuns
  <2>2. ASSUME NEW c \in Clients, Registered(c) PROVE exec'[slot].client = exec[slot].client
    BY <2>0, <2>2 DEF Registered, ExecRecords
  <2>3. ASSUME NEW f \in Execs, ReleaseRuns(f) PROVE exec'[slot].client = exec[slot].client
    <3>1. f # slot
      BY <2>0, <2>3 DEF ReleaseRuns, IInv, Shots
    <3> QED BY <2>0, <2>3, <3>1 DEF ReleaseRuns
  <2>4. ASSUME NEW f \in Execs, SweepRuns(f) PROVE exec'[slot].client = exec[slot].client
    <3>1. slot \notin Older(f)
      BY <2>0, <2>4 DEF SweepRuns, Older, IInv, Shots
    <3>2. \A x \in ExecRecords, shot \in BOOLEAN :
            /\ [x EXCEPT !.sweep = shot].client = x.client
            /\ [x EXCEPT !.client = @, !.sweep = shot].client = x.client
      BY DEF ExecRecords
    <3>3. CASE exec' = [exec EXCEPT ![f].sweep = FALSE]
      BY <2>0, <3>2, <3>3
    <3>4. CASE exec'[slot] = [exec[slot] EXCEPT !.client = IF slot \in Older(f) THEN "gone" ELSE @, !.sweep = @ /\ slot # f]
      <4> DEFINE shot == exec[slot].sweep /\ slot # f
      <4>1. shot \in BOOLEAN /\ exec[slot] \in ExecRecords
        BY <2>0
      <4>2. exec'[slot] = [exec[slot] EXCEPT !.client = @, !.sweep = shot]
        BY <3>1, <3>4
      <4> HIDE DEF shot
      <4> QED BY <3>2, <4>1, <4>2
    <3> QED BY <2>0, <2>4, <3>3, <3>4 DEF SweepRuns
  <2>5. ~BoxStops
    BY DEF BoxStops
  <2> QED BY <2>1, <2>2, <2>3, <2>4, <2>5, OtherSteps
<1> QED BY <1>1, InitInv, NextInv, PTL DEF Spec, LiveClientSurvives

-----------------------------------------------------------------------------
(* The bell                                                                 *)

\* The sweeps do not overlap: what the interval of 15 seconds gives as long
\* as a sweep is shorter. bellSweeper.ts does not ask for it.
OneAtATime == \A s, t \in Sweeps : s = t

\* The episode the flag belongs to was pushed for in this absence.
Told == bell.episode \in Episodes /\ pushed[bell.episode] > 0
\* No flag in a container that is down, no push for a bell still to ring.
FlagLives == box = "down" => ~bell.flag
NothingAhead == \A n \in Episodes : pushed[n] > 0 => n <= bell.episode
\* The bell that was pushed for and can still be seen, by a sweep to come or
\* by the one that has its answer, is marked.
PushIsMarked ==
  Told /\ (bell.flag \/ \E s \in Sweeps : sweeping[s].pc = "read" /\ sweeping[s].saw)
    => notified \/ Present
\* The mark is taken off only when the flag of the bell is down.
ReadsNoOldBell ==
  \A s \in Sweeps : Told /\ sweeping[s].pc = "read" /\ ~sweeping[s].saw => ~bell.flag
\* A sweep that pushes to an owner who came meanwhile is over by then.
NobodyReadsInFront ==
  \A s \in Sweeps : Told /\ Present => sweeping[s].pc = "idle"

BellInv ==
  /\ BellTypeOK /\ FlagLives /\ NothingAhead
  /\ PushIsMarked /\ ReadsNoOldBell /\ NobodyReadsInFront /\ OncePerAbsence

\* The bell's invariant holds at first.
LEMMA BellInitially == BellInit => BellInv
<1> SUFFICES ASSUME BellInit PROVE BellInv
  OBVIOUS
<1>1. /\ box = "up" /\ bell = [flag |-> FALSE, episode |-> 0]
      /\ sweeping = [s \in Sweeps |-> [pc |-> "idle", saw |-> FALSE]]
      /\ notified = FALSE /\ begun = 0 /\ pushed = [n \in Episodes |-> 0]
  BY DEF BellInit, Init, Asleep
<1>2. BellTypeOK
  <2>1. begun \in 0 .. MaxSweeps /\ pushed \in [Episodes -> Nat]
    BY <1>1, BellAssumption
  <2>2. notified \in BOOLEAN
    BY <1>1
  <2>3. bell \in [flag : BOOLEAN, episode : Nat]
        /\ sweeping \in [Sweeps -> [pc : {"idle", "reading", "read"}, saw : BOOLEAN]]
    BY <1>1
  <2> QED BY <2>1, <2>2, <2>3 DEF BellTypeOK
<1>3. ~Told /\ NothingAhead /\ OncePerAbsence /\ FlagLives
  BY <1>1 DEF Told, NothingAhead, OncePerAbsence, FlagLives, Episodes
<1> QED BY <1>2, <1>3 DEF BellInv, PushIsMarked, ReadsNoOldBell, NobodyReadsInFront

\* A step of the terminal either leaves the owner away, and then the flag can
\* only go down, or begins another absence, for which nothing was pushed.
LEMMA BellTerminalStep == BellInv /\ TerminalStep => BellInv'
<1> SUFFICES ASSUME BellInv, TerminalStep PROVE BellInv'
  OBVIOUS
<1>1. bell' = [bell EXCEPT !.flag = @ /\ ~Viewed' /\ box' = "up"]
      /\ bell' \in [flag : BOOLEAN, episode : Nat]
  BY DEF TerminalStep, BellInv, BellTypeOK
<1>2. bell'.episode = bell.episode /\ (bell'.flag => bell.flag /\ box' = "up")
  BY <1>1 DEF BellInv, BellTypeOK
<1>3. FlagLives' /\ begun' = begun
  BY <1>2 DEF FlagLives, TerminalStep
<1>4. BellTypeOK'
  <2>1. sweeping' \in [Sweeps -> [pc : {"idle", "reading", "read"}, saw : BOOLEAN]]
        /\ notified' \in BOOLEAN
    <3>1. CASE boots' = boots
      <4>1. sweeping' = sweeping /\ notified' = notified
        BY <3>1 DEF TerminalStep
      <4> QED BY <4>1 DEF BellInv, BellTypeOK
    <3>2. CASE boots' # boots
      <4>1. sweeping' = [s \in Sweeps |-> [pc |-> "idle", saw |-> FALSE]] /\ notified' = FALSE
        BY <3>2 DEF TerminalStep, Asleep
      <4> QED BY <4>1
    <3> QED BY <3>1, <3>2
  <2>2. pushed' \in [Episodes -> Nat]
    BY DEF TerminalStep, BellInv, BellTypeOK, Episodes
  <2> QED BY <1>1, <1>3, <2>1, <2>2 DEF BellInv, BellTypeOK
<1>5. CASE Present \/ Present' \/ boots' # boots
  <2>1. pushed' = [n \in Episodes |-> 0]
    BY <1>5 DEF TerminalStep
  <2>2. ~Told' /\ NothingAhead' /\ OncePerAbsence'
    BY <2>1, <1>2 DEF Told, NothingAhead, OncePerAbsence, Episodes
  <2> QED BY <1>3, <1>4, <2>2 DEF BellInv, PushIsMarked, ReadsNoOldBell, NobodyReadsInFront
<1>6. CASE ~(Present \/ Present' \/ boots' # boots)
  <2>1. pushed' = pushed /\ sweeping' = sweeping /\ notified' = notified
    BY <1>6 DEF TerminalStep
  <2>2. (Told' <=> Told) /\ NothingAhead' /\ OncePerAbsence'
    BY <2>1, <1>2 DEF BellInv, Told, NothingAhead, OncePerAbsence, Episodes
  <2>3. PushIsMarked' /\ ReadsNoOldBell' /\ NobodyReadsInFront'
    BY <1>2, <1>6, <2>1, <2>2 DEF BellInv, PushIsMarked, ReadsNoOldBell, NobodyReadsInFront
  <2> QED BY <1>3, <1>4, <2>2, <2>3 DEF BellInv
<1> QED BY <1>5, <1>6

\* A bell begins an episode nobody was told of.
LEMMA BellRings == BellInv /\ Ring => BellInv'
<1> SUFFICES ASSUME BellInv, Ring PROVE BellInv'
  OBVIOUS
<1>1. /\ bell' = [flag |-> TRUE, episode |-> bell.episode + 1]
      /\ box' = "up" /\ slot' = slot
      /\ UNCHANGED <<sweeping, notified, begun, pushed>>
  BY DEF Ring
<1>2. bell'.episode = bell.episode + 1 /\ bell.episode \in Nat /\ BellTypeOK'
  BY <1>1 DEF BellInv, BellTypeOK
<1>3. NothingAhead' /\ ~Told' /\ OncePerAbsence' /\ FlagLives'
  BY <1>1, <1>2 DEF BellInv, NothingAhead, Told, OncePerAbsence, FlagLives, BellTypeOK, Episodes
<1> QED BY <1>2, <1>3 DEF BellInv, PushIsMarked, ReadsNoOldBell, NobodyReadsInFront

\* A sweep begins only when no other is under way.
LEMMA BellSweepBegins ==
  ASSUME OneAtATime, BellInv, NEW s \in Sweeps, SweepBegins(s)
  PROVE  BellInv'
<1>1. /\ sweeping[s].pc = "idle" /\ begun' \in 0 .. MaxSweeps
      /\ UNCHANGED <<vars, bell, pushed>> /\ slot' = slot /\ box' = box
  BY BellAssumption DEF SweepBegins, BellInv, BellTypeOK, vars
<1>2. FlagLives' /\ NothingAhead' /\ OncePerAbsence' /\ (Told' <=> Told) /\ (Present' <=> Present)
  BY <1>1 DEF BellInv, FlagLives, NothingAhead, OncePerAbsence, Told, Present, Episodes
<1>3. CASE box = "down" \/ Present
  <2>1. notified' = FALSE /\ sweeping' = sweeping
    BY <1>3 DEF SweepBegins
  <2>2. BellTypeOK' /\ ReadsNoOldBell' /\ NobodyReadsInFront'
    BY <1>1, <1>2, <2>1 DEF BellInv, BellTypeOK, ReadsNoOldBell, NobodyReadsInFront
  <2>3. \A t \in Sweeps : sweeping[t].pc = "idle"
    BY <1>1 DEF OneAtATime
  <2>4. PushIsMarked'
    BY <1>1, <1>2, <1>3, <2>1, <2>3 DEF BellInv, PushIsMarked, FlagLives
  <2> QED BY <1>2, <2>2, <2>4 DEF BellInv
<1>4. CASE ~(box = "down" \/ Present)
  <2>1. sweeping' = [sweeping EXCEPT ![s].pc = "reading"] /\ notified' = notified
    BY <1>4 DEF SweepBegins
  <2>2. BellTypeOK'
    BY <1>1, <2>1 DEF BellInv, BellTypeOK
  <2>3. \A t \in Sweeps : sweeping'[t].pc = "reading"
    BY <2>1 DEF OneAtATime, BellInv, BellTypeOK
  <2>4. PushIsMarked' /\ ReadsNoOldBell' /\ NobodyReadsInFront'
    BY <1>1, <1>2, <1>4, <2>1, <2>3 DEF BellInv, PushIsMarked, ReadsNoOldBell, NobodyReadsInFront
  <2> QED BY <1>2, <2>2, <2>4 DEF BellInv
<1> QED BY <1>3, <1>4

\* The flag's answer is acted on with the mark as it is then (sweepBells).
LEMMA BellFlagIsRead ==
  ASSUME OneAtATime, BellInv, NEW s \in Sweeps, FlagIsRead(s)
  PROVE  BellInv'
<1>1. /\ sweeping[s].pc = "reading"
      /\ UNCHANGED <<bell, notified, begun, pushed>> /\ slot' = slot /\ box' = box
  BY DEF FlagIsRead, vars
<1>2. /\ FlagLives' /\ NothingAhead' /\ OncePerAbsence'
      /\ (Told' <=> Told) /\ (Present' <=> Present)
  BY <1>1 DEF BellInv, FlagLives, NothingAhead, OncePerAbsence, Told, Present, Episodes
<1>3. sweeping' = [sweeping EXCEPT ![s] = [pc |-> "read", saw |-> bell.flag]]
  BY DEF FlagIsRead
<1>4. BellTypeOK'
  BY <1>1, <1>3 DEF BellInv, BellTypeOK
<1>5. \A t \in Sweeps : sweeping[t].pc = "reading" /\ sweeping'[t].saw = bell.flag
  BY <1>1, <1>3 DEF OneAtATime, BellInv, BellTypeOK
<1>6. Told => ~Present
  BY <1>1 DEF BellInv, NobodyReadsInFront
<1>7. PushIsMarked' /\ ReadsNoOldBell' /\ NobodyReadsInFront'
  BY <1>1, <1>2, <1>5, <1>6 DEF BellInv, PushIsMarked, ReadsNoOldBell, NobodyReadsInFront
<1> QED BY <1>2, <1>4, <1>7 DEF BellInv

\* The only push. Had there been one before for this bell, the mark would be
\* there, for the owner has not come.
LEMMA BellSweepEnds ==
  ASSUME OneAtATime, BellInv, NEW s \in Sweeps, SweepEnds(s)
  PROVE  BellInv'
<1>1. /\ sweeping[s].pc = "read"
      /\ sweeping' = [sweeping EXCEPT ![s] = Asleep] /\ notified' = sweeping[s].saw
      /\ UNCHANGED <<bell, begun>> /\ slot' = slot /\ box' = box
  BY DEF SweepEnds, vars
<1>2. \A t \in Sweeps : sweeping'[t].pc = "idle"
  BY <1>1 DEF OneAtATime, BellInv, BellTypeOK, Asleep
<1>3. sweeping' \in [Sweeps -> [pc : {"idle", "reading", "read"}, saw : BOOLEAN]]
      /\ notified' \in BOOLEAN
  BY <1>1 DEF BellInv, BellTypeOK, Asleep
<1>4. FlagLives' /\ (Present' <=> Present)
  BY <1>1 DEF BellInv, FlagLives, Present
<1>5. ReadsNoOldBell' /\ NobodyReadsInFront'
  BY <1>2 DEF ReadsNoOldBell, NobodyReadsInFront
<1>6. Told => ~Present
  BY <1>1 DEF BellInv, NobodyReadsInFront
<1>7. CASE sweeping[s].saw /\ ~notified
  <2>1. pushed' = [pushed EXCEPT ![bell.episode] = @ + 1] /\ notified'
    BY <1>1, <1>7 DEF SweepEnds
  <2>2. ~Told
    BY <1>1, <1>6, <1>7 DEF BellInv, PushIsMarked
  <2>3. BellTypeOK'
    <3>1. pushed \in [Episodes -> Nat]
      BY DEF BellInv, BellTypeOK
    <3>2. pushed' = [n \in Episodes |-> IF n = bell.episode THEN pushed[n] + 1 ELSE pushed[n]]
      BY <2>1, <3>1
    <3>3. pushed' \in [Episodes -> Nat]
      BY <3>1, <3>2
    <3> QED BY <1>1, <1>3, <3>3 DEF BellInv, BellTypeOK
  <2>4. NothingAhead' /\ OncePerAbsence'
    BY <1>1, <2>1, <2>2 DEF BellInv, BellTypeOK, NothingAhead, OncePerAbsence, Told, Episodes
  <2> QED BY <1>4, <1>5, <2>1, <2>3, <2>4 DEF BellInv, PushIsMarked
<1>8. CASE ~(sweeping[s].saw /\ ~notified)
  <2>1. pushed' = pushed
    BY <1>8 DEF SweepEnds
  <2>2. BellTypeOK' /\ NothingAhead' /\ OncePerAbsence' /\ (Told' <=> Told)
    BY <1>1, <1>3, <2>1 DEF BellInv, BellTypeOK, NothingAhead, OncePerAbsence, Told, Episodes
  <2>3. Told /\ ~sweeping[s].saw => ~bell.flag
    BY <1>1 DEF BellInv, ReadsNoOldBell
  <2>4. PushIsMarked'
    BY <1>1, <1>2, <2>2, <2>3 DEF PushIsMarked
  <2> QED BY <1>4, <1>5, <2>2, <2>4 DEF BellInv
<1> QED BY <1>7, <1>8

\* An owner who stays away is pushed to once for one bell, whatever the socket,
\* the container and the process do between, if no sweep begins before the one
\* before it has ended (bellSweeper.ts:118-151).
THEOREM PushedOnce == OneAtATime /\ BellSpec => []OncePerAbsence
<1> SUFFICES ASSUME OneAtATime PROVE BellSpec => []OncePerAbsence
  OBVIOUS
<1>1. BellInit => BellInv
  BY BellInitially
<1>2. BellInv /\ [BellNext]_allVars => BellInv'
  <2> SUFFICES ASSUME BellInv, [BellNext]_allVars PROVE BellInv'
    OBVIOUS
  <2>1. CASE TerminalStep
    BY <2>1, BellTerminalStep
  <2>2. CASE Ring
    BY <2>2, BellRings
  <2>3. CASE \E s \in Sweeps : SweepBegins(s) \/ FlagIsRead(s) \/ SweepEnds(s)
    BY <2>3, BellSweepBegins, BellFlagIsRead, BellSweepEnds
  <2>4. CASE UNCHANGED allVars
    BY <2>4 DEF allVars, vars, bellVars, BellInv, BellTypeOK, FlagLives, NothingAhead, PushIsMarked,
      ReadsNoOldBell, NobodyReadsInFront, OncePerAbsence, Told, Present
  <2> QED BY <2>1, <2>2, <2>3, <2>4 DEF BellNext
<1>3. BellInv => OncePerAbsence
  BY DEF BellInv
<1> QED BY <1>1, <1>2, <1>3, PTL DEF BellSpec
=============================================================================
