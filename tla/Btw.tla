---------------------------------- MODULE Btw ----------------------------------
(***************************************************************************)
(* rpiv-btw: a side question, asked of the model with the conversation of  *)
(* the session and the earlier side questions, beside the agent at work.   *)
(* What the process keeps of a session outlives it in the process: the     *)
(* messages as of the last complete answer, and the questions.  A call may *)
(* answer after it was dismissed.  A message is its number; texts, keys    *)
(* that scroll and the cross-session hint are left out.                    *)
(***************************************************************************)
EXTENDS Integers, Sequences, SequencesExt, Absence

CONSTANTS
  SessionFile, \* what getSessionFile names
  Question,    \* calls of /btw
  MaxMessage   \* bound: messages

VARIABLES
  branches,    \* Pi: the messages on each session's branches
  open,        \* Pi: the session in front
  messages,    \* Pi: how many there have been
  snapshots, histories,
  call,        \* the calls of /btw: where each is, of which session, and whether its
               \* context is still alive
  screen       \* what is on the screen: the call, and the history it lists

btwVars == <<branches, open, messages, snapshots, histories, call, screen>>

BtwInit ==
  /\ branches = [s \in SessionFile |-> <<>>]
  /\ open \in SessionFile
  /\ messages = 0
  /\ snapshots = [s \in SessionFile |-> None]
  /\ histories = [s \in SessionFile |-> <<>>]
  /\ call = [q \in Question |-> [pc |-> "idle", session |-> None, live |-> FALSE]]
  /\ screen = None

-----------------------------------------------------------------------------
(* registerMessageEndSnapshot: after every message but those of the user   *)
(* and those that call tools.                                              *)
message_end(final) ==
  /\ messages < MaxMessage /\ messages' = messages + 1
  /\ branches' = [branches EXCEPT ![open] = Append(@, messages')]
  /\ snapshots' = IF final THEN [snapshots EXCEPT ![open] = branches'[open]] ELSE snapshots
  /\ UNCHANGED <<open, histories, call, screen>>

(* Mutant: the snapshot outlives the move. *)
invalidateSnapshotKeeps == UNCHANGED snapshots

invalidateSnapshot == snapshots' = [snapshots EXCEPT ![open] = None]

(* Pi goes back along the branch. *)
session_tree ==
  /\ branches[open] # <<>>
  /\ branches' = [branches EXCEPT ![open] = Front(@)]
  /\ invalidateSnapshot
  /\ UNCHANGED <<open, messages, histories, call, screen>>

(* The branch keeps the messages that were compacted, and the summary it   *)
(* gets is no message: what a side question carries stays the same.        *)
session_compact ==
  /\ branches[open] # <<>>
  /\ invalidateSnapshot
  /\ UNCHANGED <<branches, open, messages, histories, call, screen>>

(* Another session comes to the front, and contexts of this one are dead.  *)
Replace(s) ==
  /\ s # open /\ screen = None
  /\ open' = s
  /\ call' = [q \in Question |-> [call[q] EXCEPT !.live = FALSE]]

switchSession(s) ==
  /\ Replace(s)
  /\ UNCHANGED <<branches, messages, snapshots, histories, screen>>

(* A session disposed of while it is compacted: its file can no longer be  *)
(* asked for, which is let pass, and its snapshot stays.                   *)
safeInvalidateSnapshot(s) ==
  /\ branches[open] # <<>>
  /\ Replace(s)
  /\ UNCHANGED <<branches, messages, snapshots, histories, screen>>

-----------------------------------------------------------------------------
(* The overlay lists the history as it is when the question is asked. *)
handleBtwCommand(q) ==
  /\ call[q].pc = "idle" /\ screen = None
  /\ call' = [call EXCEPT ![q] = [pc |-> "auth", session |-> open, live |-> TRUE]]
  /\ screen' = [call |-> q, history |-> histories[open]]
  /\ UNCHANGED <<branches, open, messages, snapshots, histories>>

readBranchMessages(s) == IF snapshots[s] # None THEN snapshots[s] ELSE branches[s]

(* The key is there: what readBranchMessages and the history hold now is   *)
(* sent.  Without a key, and with a dead context, nothing is.              *)
executeBtw(q) ==
  /\ call[q].pc = "auth"
  /\ \/ call[q].live /\ call' = [call EXCEPT ![q].pc = "asking"]
     \/ call' = [call EXCEPT ![q].pc = "failed"]
  /\ UNCHANGED <<branches, open, messages, snapshots, histories, screen>>

(* An answer, also to a call that was aborted a moment ago: it is kept for *)
(* the next question of the session that it was asked in, or lost with it. *)
pushSessionTurn(q) ==
  /\ call[q].pc = "asking"
  /\ call' = [call EXCEPT ![q].pc = "answered"]
  /\ histories' = IF call[q].live
                  THEN [histories EXCEPT ![open] = Append(@, q)] ELSE histories
  /\ UNCHANGED <<branches, open, messages, snapshots, screen>>

setError(q) ==
  /\ call[q].pc = "asking"
  /\ call' = [call EXCEPT ![q].pc = "failed"]
  /\ UNCHANGED <<branches, open, messages, snapshots, histories, screen>>

(* Esc: the overlay goes, whether or not the call has been heard. *)
dismiss ==
  /\ screen # None /\ screen' = None
  /\ UNCHANGED <<branches, open, messages, snapshots, histories, call>>

(* x: what the overlay lists and what the session keeps. *)
clearSessionHistory ==
  /\ screen # None
  /\ histories' = [histories EXCEPT ![call[screen.call].session] = <<>>]
  /\ screen' = [screen EXCEPT !.history = <<>>]
  /\ UNCHANGED <<branches, open, messages, snapshots, call>>

BtwNext ==
  \/ \E final \in BOOLEAN : message_end(final)
  \/ session_tree \/ session_compact
  \/ \E s \in SessionFile : safeInvalidateSnapshot(s) \/ switchSession(s)
  \/ \E q \in Question : handleBtwCommand(q) \/ executeBtw(q) \/ pushSessionTurn(q) \/ setError(q)
  \/ dismiss \/ clearSessionHistory

BtwSpec == BtwInit /\ [][BtwNext]_btwVars

-----------------------------------------------------------------------------
(* A side question is asked about the conversation as it is or was a few   *)
(* messages ago, never about messages that were undone, in every session   *)
(* that is or will be in front again, and the questions on the screen are  *)
(* ones the session still keeps.                                           *)
AsksAboutThisBranch ==
  /\ \A s \in SessionFile : IsPrefix(readBranchMessages(s), branches[s])
  /\ screen # None => IsPrefix(screen.history, histories[call[screen.call].session])
=============================================================================
