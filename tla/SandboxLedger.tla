----------------------------- MODULE SandboxLedger -----------------------------
(***************************************************************************)
(* What SandboxLifecycle promises about every sandbox it pays for, without *)
(* threads, heartbeats, lists or retries: a sandbox that was recorded once *)
(* stays on the books until it is settled, it is settled only when E2B no  *)
(* longer bills it, and a settled account is never opened again.  What is  *)
(* created and never recorded is the one gap.                              *)
(***************************************************************************)
CONSTANT Sandbox

VARIABLES
  account,  \* how far the books know each sandbox
  billed    \* the sandboxes E2B bills

Accounts == {"absent",   \* never created
             "pending",  \* created, its creator is about to record it
             "lost",     \* its creator died before that: E2B's timeout is left
             "dropped",  \* its creator gave it up and killed it
             "tracked",  \* recorded: some sweep must still settle it
             "settled"}  \* recorded as CLEANED

Init ==
  /\ account = [s \in Sandbox |-> "absent"]
  /\ billed = {}

Enter(S, from, to) ==
  /\ \A s \in S : account[s] = from
  /\ account' = [s \in Sandbox |-> IF s \in S THEN to ELSE account[s]]

Start(s) == Enter({s}, "absent", "pending") /\ billed' = billed \cup {s}

Track(s) == Enter({s}, "pending", "tracked") /\ UNCHANGED billed

\* The kill that gives the sandbox up belongs to the same step.
Drop(s) == Enter({s}, "pending", "dropped") /\ billed' = billed \ {s}

\* A crash loses all that its process was about to record.
Lose(S) == Enter(S, "pending", "lost") /\ UNCHANGED billed

\* E2B stops billing: a kill, or the sandbox's own timeout.
Stop(s) == s \in billed /\ billed' = billed \ {s} /\ UNCHANGED account

Settle(s) ==
  /\ s \notin billed
  /\ Enter({s}, "tracked", "settled")
  /\ UNCHANGED billed

Next ==
  \/ \E s \in Sandbox : Start(s) \/ Track(s) \/ Drop(s) \/ Stop(s) \/ Settle(s)
  \/ \E S \in SUBSET Sandbox : Lose(S)

Spec == Init /\ [][Next]_<<account, billed>>

\* What is on the books is settled in the end.
EverythingSettles ==
  \A s \in Sandbox : account[s] = "tracked" ~> account[s] = "settled"

=============================================================================
