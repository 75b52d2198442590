------------------------------ MODULE MCPackages ------------------------------
(***************************************************************************)
(* Components that share no state, explored one at a time: the others stay *)
(* in a state in which they do nothing.                                    *)
(***************************************************************************)
EXTENDS AgentSync, TaskList, SessionHooks, Validation, Loader, Questionnaire,
        ModelInstall, Warp, Btw, Leftovers, Advisor

CONSTANTS u, p,   \* the files of the user and of the project
          m1, m2  \* models

MCOrder == <<u, p>>
MCQuestionnaires == {<<"plain", "preview", "multi">>, <<"preview">>, <<"multi">>,
                     <<"plain", "multi", "plain">>}
MCBlocklists == {{}, {<<m1, -1>>}, {<<m1, 0>>, <<m2, 1>>}}

VARIABLE which

mcVars == <<which, agentVars, taskVars, hookVars, validationVars, loaderVars, questionVars,
            installVars, warpVars, btwVars, leftoverVars, advisorVars>>

NoAgents ==
  /\ bundle = NoFile /\ installed = NoFile /\ manifest = NoFile
  /\ v2Marker = FALSE /\ sync = NoSync /\ faults = 0 /\ userEdits = {}

(* The walk of the graph has not begun. *)
NoWorkflow ==
  /\ written = [start |-> Missing, stages |-> [n \in Name |-> Missing], edges |-> [n \in Name |-> Missing]]
  /\ aliases = FALSE /\ frontier = {} /\ reachable = {} /\ at = First /\ step = "validate"

NoQuestionnaire ==
  /\ questions = <<"plain">>
  /\ ui = None /\ answers = <<>> /\ notesByTab = <<>> /\ inputText = Empty /\ result = Empty

NoLeftovers ==
  /\ shared = [e \in Entry |-> None] /\ artifacts = shared /\ latest = shared
  /\ perCwd = [n \in AgentName |-> None] /\ listed = {} /\ bundled = {}
  /\ chore = "none" /\ todo = {} /\ writes = 0

Component == {"agents", "todo", "hooks", "validation", "loader", "questionnaire", "install", "warp",
              "btw", "leftovers", "advisor"}

MCInit ==
  /\ which \in Component
  /\ TaskInit /\ HooksInit /\ LoaderInit
  /\ InstallInit /\ (which # "install" => members = Needed \cup Spare)
  /\ WarpInit /\ (which # "warp" => heartbeats)
  /\ BtwInit /\ (which # "btw" => open = CHOOSE s \in SessionFile : TRUE)
  /\ IF which = "agents" THEN AgentInit ELSE NoAgents
  /\ IF which = "validation" THEN ValidationInit ELSE NoWorkflow
  /\ IF which = "questionnaire" THEN QuestionnaireInit ELSE NoQuestionnaire
  /\ IF which = "leftovers" THEN LeftoverInit ELSE NoLeftovers
  /\ AdvisorInit /\ (which # "advisor" => config = NoConfig /\ executor = [model |-> m1, level |-> 0])

(* The other components stand still. *)
Alone(w) ==
  /\ which = w
  /\ IF w = "agents" THEN TRUE ELSE UNCHANGED agentVars
  /\ IF w = "todo" THEN TRUE ELSE UNCHANGED taskVars
  /\ IF w = "hooks" THEN TRUE ELSE UNCHANGED hookVars
  /\ IF w = "validation" THEN TRUE ELSE UNCHANGED validationVars
  /\ IF w = "loader" THEN TRUE ELSE UNCHANGED loaderVars
  /\ IF w = "questionnaire" THEN TRUE ELSE UNCHANGED questionVars
  /\ IF w = "install" THEN TRUE ELSE UNCHANGED installVars
  /\ IF w = "warp" THEN TRUE ELSE UNCHANGED warpVars
  /\ IF w = "btw" THEN TRUE ELSE UNCHANGED btwVars
  /\ IF w = "leftovers" THEN TRUE ELSE UNCHANGED leftoverVars
  /\ IF w = "advisor" THEN TRUE ELSE UNCHANGED advisorVars

MCNext ==
  /\ UNCHANGED which
  /\ \/ Alone("agents") /\ AgentNext
     \/ Alone("todo") /\ TaskNext
     \/ Alone("hooks") /\ HooksNext
     \/ Alone("validation") /\ ValidationNext
     \/ Alone("loader") /\ LoaderNext
     \/ Alone("questionnaire") /\ QuestionnaireNext
     \/ Alone("install") /\ InstallNext
     \/ Alone("warp") /\ WarpNext
     \/ Alone("btw") /\ BtwNext
     \/ Alone("leftovers") /\ LeftoverNext
     \/ Alone("advisor") /\ AdvisorNext

MCSpec == MCInit /\ [][MCNext]_mcVars
=============================================================================
