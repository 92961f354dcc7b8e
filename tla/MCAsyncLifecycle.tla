-------------------------- MODULE MCAsyncLifecycle --------------------------
(***************************************************************************)
(* Instances of AsyncLifecycle for TLC.                                    *)
(***************************************************************************)
EXTENDS AsyncLifecycle, TLC

CONSTANTS s1, s2, o1, j1, j2, p1, p2

\* The janitor j2 has a loop of its own.
OneAndReaper == [t \in Owner \cup Janitor |-> IF t = j2 THEN p2 ELSE p1]

\* An owner, the janitor of its process and that of another one.
Three(own, j1Calls, j2Calls) ==
  [t \in Owner \cup Janitor |-> IF t \in Owner THEN own ELSE IF t = j1 THEN j1Calls ELSE j2Calls]

\* Who cancels, reaps, purges or shuts down whom.
Programs ==
  {Three({"acquire", "fork", "release"}, {}, {"reap"}),
   Three({"acquire", "adopt"}, {}, {"reap"}),
   Three({"acquire"}, {"purge", "reap"}, {}),
   Three({"acquire", "expose"}, {"reconcile"}, {}),
   Three({"acquire"}, {"shutdown"}, {})}

Sids == Permutations(Sid)

=============================================================================
