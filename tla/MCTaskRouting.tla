--------------------------- MODULE MCTaskRouting ---------------------------
(* Small instances of TaskRouting for TLC. *)
EXTENDS TaskRouting, TLC

Say(by, to, st) == [by |-> by, to |-> to, status |-> st]
\* Every role may say it.
Anyone(to, st) == {Say(by, to, st) : by \in AgentRoles}
Start(agent, r, then) == [agent |-> agent, role |-> r, then |-> then]

\* Bridge connections are used alike.
BridgeSymmetry == Permutations(BridgeConns)

RelayReplies == {Say("lead", "coder", "done"), Say("coder", "lead", "done")}
RelayLaunches == {Start("codex", "coder", "new"), Start("codex", "lead", "new")}

\* A lead on Claude and a reviewer, or a coder, on Codex.
GateReplies ==
  {Say("lead", to, "done") : to \in {"coder", "reviewer", "user"}} \cup
  {Say("reviewer", to, "done") : to \in {"lead", "coder"}} \cup {Say("coder", "lead", "done")}
GateLaunches == {Start("codex", "reviewer", "new")}

\* Every way to launch.
SessionReplies == Anyone("lead", "in_progress")
SessionLaunches ==
  {Start("claude", "lead", "attach"), Start("claude", "lead", "resume"),
   Start("codex", "coder", "new"), Start("codex", "coder", "thread"),
   Start("codex", "lead", "attach"), Start("codex", "coder", "resume")}

\* Connections that come and go.
LinkReplies == Anyone("lead", "done")
LinkLaunches == {Start("codex", "coder", "new")}
LinkRoles == {[agent |-> "codex", role |-> "lead"]}

\* A lead on Claude and a coder on Codex, both registered with the task.
PairReplies == Anyone("lead", "done") \cup Anyone("coder", "done")
PairLaunches == {Start("claude", "lead", "attach"), Start("codex", "coder", "new")}

\* A reviewer on Codex whom a coder replaces.
ReviewReplies == Anyone("coder", "done")
ReviewLaunches == {Start("codex", "reviewer", "new"), Start("codex", "coder", "new")}
============================================================================
