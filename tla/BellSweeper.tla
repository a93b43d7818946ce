---------------------------- MODULE BellSweeper ----------------------------
(***************************************************************************)
(* bellSweeper.ts over the terminal of one tab: a timer polls tmux's bell  *)
(* flag and pushes to the owner who is away. "Away" is what the terminal   *)
(* says (hasLiveListeners: `shared` has an entry), the flag is tmux's: set *)
(* by a bell while no client views the window, cleared by a view and gone  *)
(* with its server. Left out: other sessions and tabs, and who is told.    *)
(***************************************************************************)
EXTENDS SharedTerminal

CONSTANTS
  Sweeps,      \* sweeps that may be under way together
  MaxSweeps    \* bound: sweeps begun, from the first bell on

ASSUME BellAssumption == MaxSweeps \in Nat

VARIABLES
  bell,     \* tmux: the flag, and the number of the episode it was last set for
  sweeping, \* where each sweep is and what it read
  notified, \* the mark of the session
  begun,    \* sweeps begun
  pushed    \* history: pushes per episode since somebody was last there

bellVars == <<bell, sweeping, notified, begun, pushed>>
allVars  == <<vars, bellVars>>

Asleep  == [pc |-> "idle", saw |-> FALSE]
Viewed  == \E e \in Execs : exec[e].client = "listed"
Present == slot # 0
Episodes == 1 .. MaxTroubles

BellTypeOK ==
  /\ bell \in [flag : BOOLEAN, episode : Nat]
  /\ sweeping \in [Sweeps -> [pc : {"idle", "reading", "read"}, saw : BOOLEAN]]
  /\ notified \in BOOLEAN /\ begun \in 0 .. MaxSweeps
  /\ pushed \in [Episodes -> Nat]

BellInit ==
  /\ Init
  /\ bell = [flag |-> FALSE, episode |-> 0]
  /\ sweeping = [s \in Sweeps |-> Asleep]
  /\ notified = FALSE /\ begun = 0
  /\ pushed = [n \in Episodes |-> 0]

\* A step of the terminal. A client that views the window clears the flag, the
\* server takes it along, and a process that dies forgets its mark and sweeps.
TerminalStep ==
  /\ Next
  /\ bell' = [bell EXCEPT !.flag = @ /\ ~Viewed' /\ box' = "up" ]
  /\ IF boots' = boots
     THEN UNCHANGED <<sweeping, notified>>
     ELSE sweeping' = [s \in Sweeps |-> Asleep] /\ notified' = FALSE
  /\ pushed' = IF Present \/ Present' \/ boots' # boots THEN [n \in Episodes |-> 0] ELSE pushed
  /\ UNCHANGED begun

\* A bell nobody views.
Ring ==
  /\ box = "up" /\ ~Viewed /\ ~bell.flag /\ Trouble
  /\ bell' = [flag |-> TRUE, episode |-> bell.episode + 1]
  /\ UNCHANGED <<slot, exec, sock, box, verb, boots, sweeping, notified, begun, pushed>>

\* A sweep takes up the session: not running or watched, its mark is cleared.
SweepBegins(s) ==
  /\ sweeping[s].pc = "idle" /\ bell.episode > 0 /\ begun < MaxSweeps /\ begun' = begun + 1
  /\ IF box = "down" \/ Present
     THEN notified' = FALSE /\ UNCHANGED sweeping
     ELSE sweeping' = [sweeping EXCEPT ![s].pc = "reading"] /\ UNCHANGED notified
  /\ UNCHANGED <<vars, bell, pushed>>

\* list-windows runs in the container; a failure reads as no bell.
FlagIsRead(s) ==
  /\ sweeping[s].pc = "reading"
  /\ sweeping' = [sweeping EXCEPT ![s] = [pc |-> "read", saw |-> bell.flag]]
  /\ UNCHANGED <<vars, bell, notified, begun, pushed>>

\* Mutation: pushes without leaving the mark.
SweepTells(s) ==
  /\ sweeping[s].pc = "read"
  /\ sweeping' = [sweeping EXCEPT ![s] = Asleep]
  /\ pushed' = IF sweeping[s].saw THEN [pushed EXCEPT ![bell.episode] = @ + 1] ELSE pushed
  /\ UNCHANGED <<vars, bell, notified, begun>>

\* The answer: no bell arms the next one; a bell is pushed if not marked yet.
SweepEnds(s) ==
  /\ sweeping[s].pc = "read"
  /\ sweeping' = [sweeping EXCEPT ![s] = Asleep]
  /\ notified' = sweeping[s].saw
  /\ pushed' = IF sweeping[s].saw /\ ~notified THEN [pushed EXCEPT ![bell.episode] = @ + 1] ELSE pushed
  /\ UNCHANGED <<vars, bell, begun>>

BellNext ==
  \/ TerminalStep \/ Ring
  \/ \E s \in Sweeps : SweepBegins(s) \/ FlagIsRead(s) \/ SweepEnds(s)

BellSpec == BellInit /\ [][BellNext]_allVars

-----------------------------------------------------------------------------
\* An owner who stays away is pushed to once for one bell, by sweeps that do
\* not overlap.
OncePerAbsence == \A n \in Episodes : pushed[n] <= 1

\* A bell that is found marked has been pushed.
SkipsOnlyPushed ==
  [][\A s \in Sweeps :
       sweeping[s].pc = "read" /\ sweeping[s].saw /\ notified /\ sweeping'[s].pc = "idle" /\ boots' = boots
         => pushed[bell.episode] > 0]_allVars

\* Nobody who watches is pushed to.
NoPushToViewer == [][pushed' # pushed => ~Present]_allVars
=============================================================================
