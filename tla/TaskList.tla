------------------------------- MODULE TaskList -------------------------------
(***************************************************************************)
(* rpiv-todo: the reducer behind the todo tool, the store it commits to,   *)
(* the branch of the session that a replay rebuilds the store from, and    *)
(* the overlay that hides completed tasks a turn after they were shown.    *)
(* Ids are positions: tasks are only ever appended, or all cleared.        *)
(* Subjects, descriptions, owners and metadata are left out.               *)
(***************************************************************************)
EXTENDS Integers, Sequences, FiniteSets, SequencesExt

CONSTANTS
  MaxTasks, \* bound: tasks of a list
  MaxCalls  \* bound: calls of the todo tool that change something

Status == {"pending", "in_progress", "completed", "deleted"}

VARIABLES
  todos,       \* TaskState.tasks
  nextId,      \* TaskState.nextId
  branch,      \* the details of the todo results on the current branch
  results,     \* results executed whose message has not ended yet
  overlay,     \* TodoOverlay's sets of completed tasks and lastNextId
  calls        \* how many calls changed something: bounded

taskVars == <<todos, nextId, branch, results, overlay, calls>>

Task == [status : Status, blockedBy : SUBSET Nat]

NoOverlay == [pendingHide |-> {}, hidden |-> {}, lastNextId |-> 0]
EmptyState == [todos |-> <<>>, nextId |-> 1]
Live == [todos |-> todos, nextId |-> nextId]

TaskInit ==
  /\ todos = <<>> /\ nextId = 1 /\ branch = <<>>
  /\ results = <<>> /\ overlay = NoOverlay /\ calls = 0

-----------------------------------------------------------------------------
(* The reducer.                                                            *)

isTransitionValid(from, to) ==
  \/ from = to
  \/ from \in {"pending", "in_progress"}
  \/ from = "completed" /\ to = "deleted"

Blockable(deps) == \A d \in deps : d \in DOMAIN todos /\ todos[d].status # "deleted"

(* Some tasks each wait for one of themselves. *)
HasCycle(edges) ==
  \E stuck \in SUBSET DOMAIN edges :
    stuck # {} /\ \A n \in stuck : edges[n] \cap stuck # {}

BlockedBy == [n \in DOMAIN todos |-> todos[n].blockedBy]

(* Mutant: only a blocker that is blocked by the task itself is refused.   *)
detectDirectCycle(id, blockedBy) == \E d \in blockedBy : id \in BlockedBy[d]

(* The task's old blockers count too, also those the update removes. *)
detectCycle(id, blockedBy) == HasCycle([BlockedBy EXCEPT ![id] = @ \cup blockedBy])

create(deps) ==
  IF ~Blockable(deps) THEN Live
  ELSE [todos |-> Append(todos, [status |-> "pending", blockedBy |-> deps]),
        nextId |-> nextId + 1]

update(id, status, add, remove) ==
  IF \/ id \notin DOMAIN todos
     \/ ~isTransitionValid(todos[id].status, status)
     \/ id \in add \/ ~Blockable(add)
     \/ add # {} /\ detectCycle(id, (todos[id].blockedBy \ remove) \cup add)
  THEN Live
  ELSE [Live EXCEPT !.todos[id] = [status |-> status, blockedBy |-> (@.blockedBy \ remove) \cup add]]

delete(id) ==
  IF id \notin DOMAIN todos \/ todos[id].status = "deleted" THEN Live
  ELSE [Live EXCEPT !.todos[id].status = "deleted"]

-----------------------------------------------------------------------------
(* The overlay.  It reads the store when it is updated and when it draws.  *)

CompletedIn(list) == {n \in DOMAIN list : list[n].status = "completed"}

getSnapshot(state) ==
  IF overlay.lastNextId > state.nextId
  THEN [overlay EXCEPT !.pendingHide = {}, !.hidden = {}, !.lastNextId = state.nextId]
  ELSE [overlay EXCEPT !.pendingHide = @ \cap CompletedIn(state.todos),
                       !.hidden = @ \cap CompletedIn(state.todos),
                       !.lastNextId = state.nextId]

renderWidget ==
  LET o == getSnapshot(Live)
      displayed == CompletedIn(todos) \ (o.pendingHide \cup o.hidden)
  IN  /\ overlay' = [o EXCEPT !.pendingHide = @ \cup displayed]
      /\ UNCHANGED <<todos, nextId, branch, results, calls>>

(* agent_start: what the turn before had shown is hidden. *)
hideCompletedTasksFromPreviousTurn ==
  /\ overlay.pendingHide # {}
  /\ overlay' = [overlay EXCEPT !.hidden = @ \cup overlay.pendingHide, !.pendingHide = {}]
  /\ UNCHANGED <<todos, nextId, branch, results, calls>>

ResetDisplay(state) == [NoOverlay EXCEPT !.lastNextId = state.nextId]

-----------------------------------------------------------------------------
(* The tool call commits, and tool_execution_end updates the overlay; the  *)
(* branch has the result only when the message ends.  The result of a call *)
(* that changes nothing repeats the details before it and is left out.     *)

Execute(state) ==
  /\ state # Live
  /\ calls < MaxCalls
  /\ todos' = state.todos /\ nextId' = state.nextId
  /\ calls' = calls + 1
  /\ results' = Append(results, state)
  /\ overlay' = getSnapshot(state)
  /\ UNCHANGED branch

(* An id that no task has is refused, which changes nothing. *)
Ids == DOMAIN todos

TodoTool ==
  \/ \E deps \in SUBSET Ids : Len(todos) < MaxTasks /\ Execute(create(deps))
  \/ \E id \in Ids, status \in Status, add, remove \in SUBSET Ids :
       Execute(update(id, status, add, remove))
  \/ \E id \in Ids : Execute(delete(id))
  \/ Execute(EmptyState)

messageEnd ==
  /\ results # <<>>
  /\ branch' = Append(branch, Head(results)) /\ results' = Tail(results)
  /\ UNCHANGED <<todos, nextId, overlay, calls>>

-----------------------------------------------------------------------------
(* Mutant: the first result of the branch wins. *)
replayFirst(entries) == IF entries = <<>> THEN EmptyState ELSE Head(entries)

(* The last todo result of the branch wins. *)
replayFromBranch(entries) == IF entries = <<>> THEN EmptyState ELSE Last(entries)

Replay(entries) ==
  /\ LET state == replayFromBranch(entries) IN
       /\ todos' = state.todos /\ nextId' = state.nextId
       /\ overlay' = ResetDisplay(state)
  /\ UNCHANGED calls

(* Pi compacts between two turns; a context gone stale by then leaves the  *)
(* store as it is.                                                         *)
sessionCompact(stale) ==
  /\ results = <<>>
  /\ IF stale
     THEN /\ overlay' = ResetDisplay(Live)
          /\ UNCHANGED <<todos, nextId, calls>>
     ELSE Replay(branch)
  /\ UNCHANGED <<branch, results>>

(* The user moves to an earlier place in the session's tree and forks there. *)
sessionTree ==
  /\ results = <<>>
  /\ \E k \in 0..Len(branch) - 1 : branch' = SubSeq(branch, 1, k) /\ Replay(branch')
  /\ UNCHANGED results

(* A resumed or replaced session: results without a message are gone. *)
sessionStart ==
  /\ results' = <<>>
  /\ UNCHANGED branch
  /\ Replay(branch)

TaskNext ==
  \/ TodoTool \/ messageEnd
  \/ renderWidget \/ hideCompletedTasksFromPreviousTurn
  \/ \E stale \in BOOLEAN : sessionCompact(stale)
  \/ sessionTree \/ sessionStart

TaskSpec == TaskInit /\ [][TaskNext]_taskVars

-----------------------------------------------------------------------------
(* Wherever the user goes in the tree, the store is what the branch says,  *)
(* once the results executed have reached it (replay.ts:17-38).            *)
StoreMatchesBranch == results = <<>> => Live = replayFromBranch(branch)

(* No sequence of updates, deletions and moves in the tree makes a task    *)
(* wait for itself, nor for a task that was never there                    *)
(* (state-reducer.ts:100-116).                                             *)
NoDeadlockedTasks ==
  /\ ~HasCycle(BlockedBy)
  /\ \A n \in DOMAIN todos : todos[n].blockedBy \subseteq DOMAIN todos
=============================================================================
