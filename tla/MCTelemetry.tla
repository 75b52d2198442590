---------------------------- MODULE MCTelemetry ----------------------------
(* rpiv-telemetry with a queue of two, a tool call and a sub-agent, two     *)
(* requests that may overlap, and two sessions of one process.             *)
EXTENDS Telemetry

AllEvents ==
  LET Sessions == 1..2 IN
    [kind : {"session_start", "agent_start", "agent_end", "turn_end", "message_end",
             "session_shutdown"}, session : Sessions]
    \cup [kind : {"tool_execution_start", "tool_execution_end"}, session : Sessions, call : {"bash"}]
    \cup [kind : {"llm_request_start", "llm_request_end"}, session : Sessions, seq : 1..2]
    \cup [kind : {"subagent_created", "subagent_started", "subagent_completed",
                  "subagent_failed"}, session : Sessions, agent : {"scout"}]
=============================================================================
