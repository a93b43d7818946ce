------------------------- MODULE ConversationStream -------------------------
(***************************************************************************)
(* backend/src/conversation/ws.ts and reader.ts: one browser following one *)
(* conversation over a socket, on top of its event log. A subscription     *)
(* listens from the moment it exists, replays the file, then drains what   *)
(* it queued meanwhile and goes live; over budget it pauses and asks the   *)
(* client to subscribe again. The client is frontend/src/api.ts's          *)
(* openConversationSocket. Budgets count frames; `wire` is what is sent    *)
(* and not yet received (bufferedAmount is its length).                    *)
(*                                                                         *)
(* The conversation is listed: it is open, with a snapshot and two lines.  *)
(* Left out: status frames, the socket and subscription limits, malformed  *)
(* frames, and what the view does with a gap (it starts again at the end). *)
(***************************************************************************)
EXTENDS EventLog

CONSTANTS
  ReplayBudget,  \* frames in flight during a replay
  LiveBudget,    \* frames in flight when live
  QueueBudget,   \* frames held while a replay runs
  MaxDrops,      \* bound: lost connections
  StalePages,    \* whether the view opens it from an older page than it had
  MaxFollows     \* bound: the view follows the conversation again

ASSUME StreamAssumption ==
  /\ ReplayBudget \in Nat \ {0} /\ LiveBudget \in Nat \ {0} /\ QueueBudget \in Nat \ {0}
  /\ MaxDrops \in Nat /\ MaxFollows \in Nat /\ StalePages \in BOOLEAN

VARIABLES
  sub, cur,         \* the subscriptions of two slots; the slot in the map
  epoch,            \* subscriptions made so far
  conn, wire, up,   \* connected, frames on the way down, subscribe on the
                    \* way up (its cursor, or -1)
  after, told,      \* client: its cursor, and how far its view is: the last
                    \* seq it was given, by a page too, or told of by a gap
  skipped,          \* history: persisted seqs the client jumped over
  drops, follows    \* bounds used up

client == <<after, told, skipped>>
svars  == <<sub, cur, epoch, conn, wire, up, client, drops, follows>>
vars   == <<lvars, svars>>

Slots == {1, 2}
NoSub == [mode |-> "off", at |-> "done", last |-> 0, queue |-> <<>>,
          first |-> 0, cut |-> 0, pos |-> 0, epoch |-> 0]
\* A frame; `epoch` and `first` (the retained seq its replay began at) are
\* for the properties.
Frame(type, s, kind, r) ==
  [type |-> type, seq |-> s, kind |-> kind, epoch |-> r.epoch, first |-> r.first]

StreamInit ==
  /\ lines = <<Line(1, "event"), Line(2, "event")>> /\ frag = FALSE /\ cuts = <<>>
  /\ snap = Index(2, 2, 0, 1)
  /\ entry = [e \in Entries |->
       IF e = 1 THEN [NotInUse EXCEPT !.at = "resident", !.idx = snap, !.size = 2] ELSE NotInUse]
  /\ opening = NoSnap /\ writing = NoWrite /\ purge = "no"
  /\ persisted = {1, 2} /\ owed = FALSE
  /\ world \in Worlds /\ offered = 0 /\ faults = 0
  /\ sub = [n \in Slots |-> NoSub] /\ cur = 0 /\ epoch = 0
  /\ conn = FALSE /\ wire = <<>> /\ up = <<>>
  /\ after = 0 /\ told = 0 /\ skipped = {} /\ drops = 0 /\ follows = 0

-----------------------------------------------------------------------------
(* The live rule: sendLive() and pause().                                   *)

\* Mutation: nothing waits to send the resync.
PausedForGood(r) == [r EXCEPT !.mode = "paused", !.at = "done", !.queue = <<>>]
\* Held events are dropped: they come back from the file.
Paused(r) == [r EXCEPT !.mode = "paused", !.at = "poll", !.queue = <<>>]

\* Everything held that the file did not give, as far as the budget goes.
\* What is held is in order: those the file gave come first.
Given(r) == Cardinality({i \in 1..Len(r.queue) : r.queue[i].seq <= r.last})
Unsent(r) == SubSeq(r.queue, Given(r) + 1, Len(r.queue))
Room == IF Len(wire) < LiveBudget THEN LiveBudget - Len(wire) ELSE 0
SendAll(r) ==
  LET todo == Unsent(r)
      now  == SubSeq(todo, 1, IF Len(todo) < Room THEN Len(todo) ELSE Room)
      sent == [r EXCEPT !.last = IF now = <<>> THEN @ ELSE Last(now).seq, !.queue = <<>>]
  IN /\ wire' = wire \o [i \in 1..Len(now) |-> Frame("event", now[i].seq, now[i].kind, r)]
     /\ sub' = [sub EXCEPT ![cur] = IF Len(todo) > Len(now) THEN Paused(sent) ELSE sent]

\* The listener: a persisted event is held during the replay, sent when
\* live, and left to the file when paused.
Hear(l) ==
  LET r == sub[cur]  held == [r EXCEPT !.queue = Append(@, l)] IN
  CASE r.mode = "replay" /\ Len(r.queue) >= QueueBudget ->
         sub' = [sub EXCEPT ![cur] = Paused(r)] /\ UNCHANGED wire
    [] r.mode = "replay" /\ Len(r.queue) < QueueBudget -> sub' = [sub EXCEPT ![cur] = held] /\ UNCHANGED wire
    [] r.mode = "live"   -> SendAll(held)
    [] OTHER -> UNCHANGED <<sub, wire>>

\* appendFile() returned, and the listeners are called.
Announce(e) ==
  /\ AppendReturns(e)
  /\ IF cur = 0 THEN UNCHANGED <<sub, wire>> ELSE Hear(Last(lines))
  /\ UNCHANGED <<cur, epoch, conn, up, client, drops, follows>>

\* The buffer drained: one resync, from the last seq really sent.
Resync(n) ==
  /\ sub[n].at = "poll" /\ sub[n].mode = "paused" /\ cur = n
  /\ Len(wire) < ReplayBudget
  /\ wire' = Append(wire, Frame("resync", sub[n].last, "-", sub[n]))
  /\ sub' = [sub EXCEPT ![n].at = "done"]
  /\ UNCHANGED <<lvars, cur, epoch, conn, up, client, drops, follows>>

-----------------------------------------------------------------------------
(* replay()                                                                 *)

\* Mutation: only the mode is looked at, not whether it was replaced.
ReplayMode(n) == sub[n].mode = "replay"
Current(n) == cur = n /\ sub[n].mode = "replay"

At(n, p) == sub[n].at = p /\ Current(n)
Advances(n, r) == sub' = [sub EXCEPT ![n] = r] /\ UNCHANGED <<lvars, cur, epoch, conn, up, client, drops, follows>>

\* peekIndex(): the entry in memory, else the snapshot.
Retained ==
  LET f == IF \E e \in Entries : InMemory(e)
           THEN entry[CHOOSE e \in Entries : InMemory(e)].idx.first ELSE snap.first
  IN IF f = 0 THEN 1 ELSE f

ReadIndex(n) ==
  /\ At(n, "index") /\ UNCHANGED wire
  /\ Advances(n, [sub[n] EXCEPT !.first = Retained,
                    !.at = IF sub[n].last < Retained - 1 THEN "gap" ELSE "open"])

\* Mutation: a frame is sent whatever is buffered.
Anyway == TRUE
\* The replay rule, for a frame.
Fits == Len(wire) < ReplayBudget \/ wire = <<>>

\* Mutation: the cursor behind the retained history is not told.
NoGap(n) == UNCHANGED wire
GapFrame(n) == wire' = Append(wire, Frame("gap", sub[n].first - 1, "-", sub[n]))
SendGap(n) ==
  /\ At(n, "gap") /\ Fits /\ GapFrame(n)
  /\ Advances(n, [sub[n] EXCEPT !.at = "open"])

\* The stream stays on the file it opened, also once that is rotated away.
OpenFile(n) ==
  /\ At(n, "open") /\ UNCHANGED wire
  /\ Advances(n, [sub[n] EXCEPT !.at = IF Missing THEN "end" ELSE "read",
                    !.cut = Len(cuts), !.pos = FileFrom])

EndOf(c) == IF c < Len(cuts) THEN cuts[c + 1] ELSE Len(lines)
Wanted(r, l) == Readable(l) /\ l.seq > r.last /\ l.seq >= r.first

ReadLine(n) ==
  /\ At(n, "read") /\ sub[n].pos < EndOf(sub[n].cut)
  /\ LET l == lines[sub[n].pos + 1]  r == [sub[n] EXCEPT !.pos = @ + 1] IN
     IF Wanted(sub[n], l)
     THEN /\ Fits /\ wire' = Append(wire, Frame("event", l.seq, l.kind, r))
          /\ Advances(n, [r EXCEPT !.last = l.seq])
     ELSE UNCHANGED wire /\ Advances(n, r)

\* Lines that land after this are among what is held.
EndOfFile(n) ==
  /\ At(n, "read") /\ sub[n].pos = EndOf(sub[n].cut)
  /\ UNCHANGED wire /\ Advances(n, [sub[n] EXCEPT !.at = "end"])

\* From the file to live in one go.
GoLive(n) ==
  /\ At(n, "end")
  /\ SendAll([sub[n] EXCEPT !.mode = "live", !.at = "done"])
  /\ UNCHANGED <<lvars, cur, epoch, conn, up, client, drops, follows>>

\* A replay or a resync that finds it was replaced, or paused, ends.
Abandoned(n) ==
  /\ sub[n].at # "done" /\ ~Current(n) /\ ~(cur = n /\ sub[n].at = "poll")
  /\ UNCHANGED wire /\ Advances(n, [sub[n] EXCEPT !.at = "done"])

Replay(n) == ReadIndex(n) \/ SendGap(n) \/ OpenFile(n) \/ ReadLine(n) \/ EndOfFile(n) \/ GoLive(n) \/ Abandoned(n)

-----------------------------------------------------------------------------
(* The socket and the client.                                               *)

\* A subscribe frame: the previous subscription dies before the new one is.
Subscribe(n) ==
  /\ conn /\ up # <<>> /\ n # cur /\ sub[n].at = "done"
  /\ up' = Tail(up) /\ epoch' = epoch + 1 /\ cur' = n
  /\ sub' = [sub EXCEPT ![n] = [NoSub EXCEPT !.mode = "replay", !.at = "index",
                                  !.last = Head(up), !.epoch = epoch']]
  /\ UNCHANGED <<lvars, conn, wire, client, drops, follows>>

\* Reconnected: it resumes from the last seq it delivered.
Connect ==
  /\ ~conn /\ conn' = TRUE /\ up' = <<after>>
  /\ UNCHANGED <<lvars, sub, cur, epoch, wire, client, drops, follows>>

\* Lost, or closed with 1013 for not draining.
Disconnect ==
  /\ conn /\ drops < MaxDrops /\ drops' = drops + 1
  /\ conn' = FALSE /\ cur' = 0 /\ wire' = <<>> /\ up' = <<>>
  /\ UNCHANGED <<lvars, sub, epoch, client, follows>>

\* The view opens the conversation again, from the page it reads, or one it
\* read before or its cached window; frames of the previous subscription may
\* still be coming.
Follow ==
  /\ conn /\ follows < MaxFollows /\ follows' = follows + 1
  /\ \E s \in {0} \cup persisted \cup {Last(lines).seq} :
       /\ s # Last(lines).seq => StalePages
       /\ after' = s /\ told' = s /\ skipped' = {} /\ up' = Append(up, s)
  /\ UNCHANGED <<lvars, sub, cur, epoch, conn, wire, drops>>

\* Persisted seqs between the cursor and an event which the view was neither
\* given nor told of. The `gap rotated` that starts a file tells of what was
\* rotated away since the replay began.
Jumped(f) ==
  {s \in persisted : after < s /\ s < f.seq /\ told < s /\ ~(f.kind = "rotated" /\ f.first <= s)}
Above(S, n) == {s \in S : s > n}
Later(a, b) == IF a > b THEN a ELSE b

Receive ==
  /\ wire # <<>> /\ wire' = Tail(wire)
  /\ LET f == Head(wire) IN
     CASE f.type = "event" /\ f.seq > after ->
            /\ after' = f.seq /\ told' = Later(told, f.seq) /\ UNCHANGED up
            /\ skipped' = Jumped(f) \cup (IF f.kind = "rotated" THEN Above(skipped, f.seq) ELSE skipped)
       [] f.type = "gap" ->
            told' = Later(told, f.seq) /\ skipped' = Above(skipped, f.seq) /\ UNCHANGED <<after, up>>
       [] f.type = "resync" -> after' = f.seq /\ up' = Append(up, f.seq) /\ UNCHANGED <<told, skipped>>
       [] OTHER -> UNCHANGED <<client, up>>
  /\ UNCHANGED <<lvars, sub, cur, epoch, conn, drops, follows>>

\* The log: the conversation stays in memory; no overflow, crash or purge.
Drains(e) == DrainNext(e) \/ AppendLands(e) \/ Rotate(e) \/ FlushOrArm(e)
LogStep(e) == Announce(e) \/ (Drains(e) /\ UNCHANGED svars)

StreamNext ==
  \/ \E e \in Entries : LogStep(e) \/ (Enqueue(e) /\ UNCHANGED svars)
  \/ \E n \in Slots : Subscribe(n) \/ Replay(n) \/ Resync(n)
  \/ Connect \/ Disconnect \/ Follow \/ Receive

StreamSpec == StreamInit /\ [][StreamNext]_vars

\* The queue is drained, the event loop serves the socket, the client reads
\* and reconnects.
Fairness ==
  /\ \A n \in Slots : WF_vars(Subscribe(n)) /\ WF_vars(Replay(n)) /\ WF_vars(Resync(n))
  /\ \A e \in Entries : WF_vars(LogStep(e))
  /\ WF_vars(Connect) /\ WF_vars(Receive)
FairSpec == StreamSpec /\ Fairness

-----------------------------------------------------------------------------
\* Types, and the budgets: what one client keeps in memory is bounded.
StreamTypeOK ==
  /\ cur \in 0..2 /\ conn \in BOOLEAN /\ told \in Nat /\ after \in Nat
  /\ \A n \in Slots : Len(sub[n].queue) <= QueueBudget /\ sub[n].mode \in {"off", "replay", "live", "paused"}
  /\ Len(wire) <= LiveBudget \/ Len(wire) <= ReplayBudget

\* What the file retains is never passed over, and what was rotated away is
\* passed over only with the `gap rotated` of that rotation still to come.
NoSilentHole ==
  \A s \in skipped :
    /\ s \notin SeqsFrom(1)
    /\ \/ \E e \in Entries : entry[e].step = "cut"
       \/ \E i \in 1..Len(lines) : lines[i].kind = "rotated" /\ lines[i].seq > s /\ lines[i].seq > told

\* On the wire a subscription's events are in increasing seq, and once the
\* frames of one begin no older one sends again (no 5,1,2,3,4,5).
WireInOrder ==
  \A i, j \in 1..Len(wire) : i < j =>
    /\ wire[i].epoch <= wire[j].epoch
    /\ wire[i].epoch = wire[j].epoch /\ wire[i].type = "event" /\ wire[j].type = "event"
         => wire[i].seq < wire[j].seq

\* A client that reads and reconnects gets to every persisted event, or is
\* told that it was rotated away.
CaughtUp == []<>(\A s \in persisted : after >= s \/ told >= s)
=============================================================================
