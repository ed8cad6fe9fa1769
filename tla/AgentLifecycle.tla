--------------------------- MODULE AgentLifecycle ---------------------------
(***************************************************************************)
(* The transition table of one agent (src/agents/AgentLifecycle.ts).  Each   *)
(* lifecycle action leads to one status, from the statuses listed for it; in *)
(* any other status it changes nothing and reports no transition.            *)
(***************************************************************************)

AgentStatus == {"idle", "running", "paused", "stopped"}

LifecycleActions == {"start", "pause", "resume", "stop"}

\* Fault: a paused agent cannot be stopped.
FromKeepsPaused(action) ==
    CASE action = "start"  -> {"idle"}
      [] action = "pause"  -> {"running"}
      [] action = "resume" -> {"paused"}
      [] action = "stop"   -> {"running", "idle"}

From(action) ==
    CASE action = "start"  -> {"idle"}
      [] action = "pause"  -> {"running"}
      [] action = "resume" -> {"paused"}
      [] action = "stop"   -> {"running", "paused", "idle"}

To(action) ==
    CASE action = "start"  -> "running"
      [] action = "pause"  -> "paused"
      [] action = "resume" -> "running"
      [] action = "stop"   -> "stopped"

\* What transition() answers, and the status it leaves.
Legal(action, status) == status \in From(action)
After(action, status) == IF Legal(action, status) THEN To(action) ELSE status
=============================================================================
