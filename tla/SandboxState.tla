---------------------------- MODULE SandboxState ----------------------------
(***************************************************************************)
(* The state machine of one sandbox: the enumeration State of models.py,   *)
(* its transition graph, and the set of states the SQL of                  *)
(* SandboxDB.try_claim_for_kill accepts.                                   *)
(***************************************************************************)

State == {"queued", "prewarming", "ready", "creating", "running", "paused",
          "graceful_quit", "timeout", "cleaning", "cleaned",
          "prewarm_fail", "create_fail"}

Terminal == {"cleaned", "prewarm_fail", "create_fail"}

Transitions ==
  [queued        |-> {"prewarming", "ready", "creating"},
   prewarming    |-> {"ready", "prewarm_fail"},
   ready         |-> {"creating", "prewarm_fail"},
   creating      |-> {"running", "create_fail"},
   running       |-> {"paused", "graceful_quit", "timeout", "cleaning"},
   paused        |-> {"running", "cleaning"},
   graceful_quit |-> {"cleaning"},
   timeout       |-> {"cleaning"},
   cleaning      |-> {"cleaned", "cleaning"},
   cleaned       |-> {},
   prewarm_fail  |-> {},
   create_fail   |-> {}]

CanTransitionTo(from, to) == from = to \/ to \in Transitions[from]

\* Mutations: a claim that takes a row back from CLEANED, and one that takes
\* only rows another killer has claimed.
ClaimableAgain == {"running", "cleaning", "cleaned"}
ClaimableLate  == {"cleaning"}

\* The WHERE clause of try_claim_for_kill.
Claimable == {"running", "cleaning"}

=============================================================================
