----------------------------- MODULE ChiselTunnel -----------------------------
(***************************************************************************)
(* expose_local of core.py: a chisel server is started in the sandbox, its *)
(* port is exposed, the cached chisel client is started on this machine,   *)
(* and the sandbox asks its own port until something answers.  Nothing     *)
(* that a failed call has started is stopped.  Each caller has a sandbox   *)
(* of its own; all share the binary cache.  Servers and clients are told   *)
(* apart by their token: of this call ("mine") or of an earlier one.       *)
(***************************************************************************)
EXTENDS BinaryCache

CONSTANT Retries  \* what the application does after a failure

ASSUME TunnelAssumption ==
  /\ Retries \subseteq {"same",   \* call expose_local again
                        "close",  \* close_port(chisel_port), then call again
                        "fresh"}  \* take a new sandbox
  /\ Faults \subseteq {"net", "virus", "rpc", "slow", "drop", "exit", "kill"}

VARIABLES
  step,     \* where each caller is in expose_local
  server,   \* whose token the chisel server on chisel_port accepts
  forward,  \* chisel_port is in table port_forwards
  clients,  \* running client processes the server may let in, or of this call
  link,     \* whose client holds sandbox_port
  died      \* history: the client the server lets in has died since the call

vars == <<cacheVars, faults, step, server, forward, clients, link, died>>

Steps == {"idle", "serve", "expose", "binary", "poll", "probe", "ok", "raised"}

TypeOK ==
  /\ CacheTypeOK
  /\ step \in [Caller -> Steps]
  /\ server \in [Caller -> {"none", "mine", "old"}]
  /\ forward \in [Caller -> BOOLEAN]
  /\ clients \in [Caller -> SUBSET {"mine", "old"}]
  /\ link \in [Caller -> {"none", "mine", "old"}]
  /\ died \in [Caller -> BOOLEAN]
  /\ \A c \in Caller : link[c] # "none" => link[c] \in clients[c] /\ link[c] = server[c]

Init ==
  /\ CacheInit
  /\ step = [c \in Caller |-> "idle"]
  /\ server = [c \in Caller |-> "none"]
  /\ forward = [c \in Caller |-> FALSE]
  /\ clients = [c \in Caller |-> {}]
  /\ link = [c \in Caller |-> "none"]
  /\ died = [c \in Caller |-> FALSE]

At(c, s) == step[c] = s
Goto(c, s) == step' = [step EXCEPT ![c] = s]
Put(f, c, v) == [f EXCEPT ![c] = v]

-----------------------------------------------------------------------------

\* A new token: what an earlier call left running is "old" from now on, and a
\* client the server will never let in does not count any more.
Call(c) ==
  /\ At(c, "idle")
  /\ Goto(c, "serve")
  /\ server' = Put(server, c, IF server[c] = "mine" THEN "old" ELSE server[c])
  /\ clients' = Put(clients, c, IF server[c] \in clients[c] THEN {"old"} ELSE {})
  /\ link' = Put(link, c, IF link[c] = "none" THEN "none" ELSE "old")
  /\ died' = Put(died, c, FALSE)
  /\ UNCHANGED <<cacheVars, faults, forward>>

\* Mutation: the new server takes the port over from an older one.
TakesOver(c) == Put(server, c, "mine")

\* nohup chisel server: on a port that is in use it exits, unnoticed.
Served(c) == Put(server, c, IF server[c] = "none" THEN "mine" ELSE server[c])

Serve(c) ==
  /\ At(c, "serve")
  /\ server' = Served(c)
  /\ Goto(c, "expose")
  /\ UNCHANGED <<cacheVars, faults, forward, clients, link, died>>

\* The installation fails, or the call that started the server times out.
ServeFails(c) ==
  /\ At(c, "serve") /\ Fault("rpc")
  /\ server' \in {server, Served(c)}
  /\ Goto(c, "raised")
  /\ UNCHANGED <<cacheVars, forward, clients, link, died>>

\* expose_port(chisel_port), and on to ensure_local_chisel.
Expose(c) ==
  /\ At(c, "expose")
  /\ forward' = Put(forward, c, TRUE)
  /\ cache' = Put(cache, c, "look")
  /\ Goto(c, "binary")
  /\ UNCHANGED <<binary, archive, faults, server, clients, link, died>>

\* Popen of the client, unless there is no binary or it does not run.
Launch(c) ==
  /\ At(c, "binary")
  /\ \/ /\ cache[c] = "returned" /\ Runs
        /\ clients' = Put(clients, c, clients[c] \cup {"mine"})
        /\ Goto(c, "poll")
     \/ /\ cache[c] = "raised" \/ (cache[c] = "returned" /\ ~ Runs)
        /\ clients' = clients
        /\ Goto(c, "raised")
  /\ cache' = Put(cache, c, "idle")
  /\ UNCHANGED <<binary, archive, faults, server, forward, link, died>>

\* Three seconds later.
Poll(c) ==
  /\ At(c, "poll")
  /\ Goto(c, IF "mine" \in clients[c] THEN "probe" ELSE "raised")
  /\ UNCHANGED <<cacheVars, faults, server, forward, clients, link, died>>

\* Mutation: any output of curl will do (HTTP000 too).
AnyOutput(c) == TRUE

\* curl in the sandbox gets an HTTP status other than 000 and 530 from
\* sandbox_port.
HttpProbeOk(c) == link[c] # "none"

ProbeOk(c) ==
  /\ At(c, "probe") /\ HttpProbeOk(c)
  /\ Goto(c, "ok")
  /\ UNCHANGED <<cacheVars, faults, server, forward, clients, link, died>>

\* Mutation: a probe without a deadline.
DeadlineNever(c) == FALSE

\* The client of this call cannot hold the port in time.
NoTunnel(c) == server[c] # "mine" \/ "mine" \notin clients[c]

\* 20 seconds without an answer: the log is read and RuntimeError raised; the
\* client and the server go on.
ProbeEnds(c) ==
  /\ At(c, "probe") /\ link[c] = "none"
  /\ \/ NoTunnel(c) /\ faults' = faults
     \/ Fault("slow")
  /\ Goto(c, "raised")
  /\ UNCHANGED <<cacheVars, server, forward, clients, link, died>>

-----------------------------------------------------------------------------
(* The application after a failure.                                        *)

Retry(c) ==
  /\ "same" \in Retries /\ At(c, "raised")
  /\ Goto(c, "idle")
  /\ UNCHANGED <<cacheVars, faults, server, forward, clients, link, died>>

\* close_port finds the record, and kills what listens on the port with it.
Close(c) ==
  /\ "close" \in Retries /\ At(c, "raised") /\ forward[c]
  /\ forward' = Put(forward, c, FALSE)
  /\ server' = Put(server, c, "none")
  /\ link' = Put(link, c, "none")
  /\ Goto(c, "idle")
  /\ UNCHANGED <<cacheVars, faults, clients, died>>

\* A new sandbox: nothing of the old one is left but a client that dials it.
Fresh(c) ==
  /\ "fresh" \in Retries /\ At(c, "raised")
  /\ forward' = Put(forward, c, FALSE)
  /\ server' = Put(server, c, "none")
  /\ link' = Put(link, c, "none")
  /\ clients' = Put(clients, c, {})
  /\ Goto(c, "idle")
  /\ UNCHANGED <<cacheVars, faults, died>>

-----------------------------------------------------------------------------
(* chisel, the network and the processes.                                  *)

\* A client with the server's token gets the port, if it is free.
Connect(c) ==
  /\ link[c] = "none" /\ server[c] \in clients[c]
  /\ link' = Put(link, c, server[c])
  /\ UNCHANGED <<cacheVars, faults, step, server, forward, clients, died>>

\* A client that was refused gives up; it may also dial for ever.
Refused(c) ==
  /\ "mine" \in clients[c] /\ server[c] # "mine"
  /\ clients' = Put(clients, c, clients[c] \ {"mine"})
  /\ UNCHANGED <<cacheVars, faults, step, server, forward, link, died>>

Drop(c) ==
  /\ link[c] # "none" /\ Fault("drop")
  /\ link' = Put(link, c, "none")
  /\ UNCHANGED <<cacheVars, step, server, forward, clients, died>>

ClientExit(c, client) ==
  /\ client \in clients[c] /\ Fault("exit")
  /\ clients' = Put(clients, c, clients[c] \ {client})
  /\ link' = Put(link, c, IF link[c] = client THEN "none" ELSE link[c])
  /\ died' = Put(died, c, died[c] \/ server[c] = client)
  /\ UNCHANGED <<cacheVars, step, server, forward>>

\* The caller's process dies in the call, and is started again; files, server
\* and client stay as they are.
Kill(c) ==
  /\ step[c] \notin {"idle", "ok", "raised"} /\ Fault("kill")
  /\ Goto(c, "raised")
  /\ cache' = Put(cache, c, "idle")
  /\ UNCHANGED <<binary, archive, server, forward, clients, link, died>>

CallStep(c) ==
  \/ Serve(c) \/ Expose(c) \/ Launch(c) \/ Poll(c) \/ ProbeOk(c) \/ ProbeEnds(c)

tunnelVars == <<step, server, forward, clients, link, died>>

Next ==
  \/ \E c \in Caller :
       \/ Call(c) \/ CallStep(c) \/ ServeFails(c) \/ Retry(c) \/ Close(c) \/ Fresh(c)
       \/ Connect(c) \/ Refused(c) \/ Drop(c) \/ Kill(c)
       \/ \E client \in {"mine", "old"} : ClientExit(c, client)
       \/ (CacheStep(c) /\ UNCHANGED tunnelVars)
  \/ (Antivirus /\ UNCHANGED tunnelVars) \/ (Whitelist /\ UNCHANGED tunnelVars)

Spec == Init /\ [][Next]_vars

\* Calls on E2B, downloads and chisel answer; the user puts the binary on the
\* white list; the application tries again, and takes a new sandbox at last
\* where it does that at all.
Fairness ==
  /\ \A c \in Caller :
       /\ WF_vars(CallStep(c)) /\ WF_vars(Connect(c))
       /\ WF_vars(CacheStep(c) /\ UNCHANGED tunnelVars)
       /\ WF_vars(Call(c)) /\ WF_vars(Retry(c) \/ Close(c) \/ Fresh(c)) /\ SF_vars(Fresh(c))
  /\ WF_vars(Whitelist /\ UNCHANGED tunnelVars)

FairSpec == Spec /\ Fairness

-----------------------------------------------------------------------------
(* Properties.                                                             *)

\* A tunnel that expose_local has returned comes back after the connection
\* broke: the server on chisel_port lets one of the running clients in, unless
\* just that client has died.  With servers and clients of earlier calls about,
\* "curl of sandbox_port must hit the local service" is what tells them apart.
ReturnedRecovers ==
  \A c \in Caller : step[c] = "ok" => server[c] \in clients[c] \/ died[c]

\* Every call returns or raises: no failure of another caller, of the
\* antivirus or of chisel leaves expose_local hanging.
CallEnds ==
  \A c \in Caller : step[c] \notin {"idle", "ok", "raised"} ~> step[c] \in {"ok", "raised"}

\* No other caller is busy with the cache, and no killed installation has left
\* half a binary there, which the cache takes for a whole one for ever.
Undisturbed(c) ==
  binary # "cut" /\ \A d \in Caller \ {c} : cache[d] \in {"idle", "returned", "raised"}

\* "Put it on the white list and try again": once nothing disturbs it, a
\* caller that tries again gets its tunnel in the end.
RetrySucceeds ==
  \A c \in Caller : <>[] Undisturbed(c) => <>(step[c] = "ok")

=============================================================================
