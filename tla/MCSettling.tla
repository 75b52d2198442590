------------------------------ MODULE MCSettling ------------------------------
(***************************************************************************)
(* Components that wait: a dictation, the fetches of a repository, a       *)
(* session of a stage.  They share no state and are explored one at a      *)
(* time; the other two stay in a state in which nothing that is fair can   *)
(* happen.                                                                 *)
(***************************************************************************)
EXTENDS Dictation, CloneCache, StageSession

VARIABLE which

mcVars == <<which, vars, cloneVars, sessionVars>>

NoDictation ==
  /\ device = [at |-> "over", attempt |-> 1, inSpeech |-> FALSE] /\ captured = 0 /\ pending = <<>>
  /\ buffer = <<>> /\ queue = <<>> /\ partial = None /\ epoch = 0
  /\ paused = FALSE /\ transcript = <<>> /\ awaited = None
  /\ config = (CHOOSE c \in SettingsDraft : TRUE) /\ filter = config.hallucination
  /\ ui = initialVoiceState(config)
  /\ command = [at |-> "preflight", intent |-> None, text |-> <<>>, pasted |-> <<>>,
                aborted |-> FALSE]
  /\ settled = <<>> /\ skipped = {}

NoSession ==
  /\ def = [run |-> TRUE, kind |-> "side-effect"] /\ turns = <<>> /\ offset = 0
  /\ step = "spawn" /\ working = FALSE /\ attempts = 0 /\ output = 0 /\ result = "none"

MCInit ==
  /\ which \in {"dictation", "fetches", "session"}
  /\ CloneInit
  /\ IF which = "dictation" THEN Init ELSE NoDictation
  /\ IF which = "session" THEN SessionInit ELSE NoSession

MCNext ==
  \/ which = "dictation" /\ Next /\ UNCHANGED <<which, cloneVars, sessionVars>>
  \/ which = "fetches" /\ CloneNext /\ UNCHANGED <<which, vars, sessionVars>>
  \/ which = "session" /\ SessionNext /\ UNCHANGED <<which, vars, cloneVars>>

MCSpec == MCInit /\ [][MCNext]_mcVars /\ Fairness /\ CloneFairness /\ SessionFairness
=============================================================================
