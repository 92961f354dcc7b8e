-------------------------- MODULE ChiselTunnel_proofs --------------------------
(***************************************************************************)
(* Theorems about ChiselTunnel, for any callers, faults and retries.       *)
(***************************************************************************)
EXTENDS ChiselTunnel, TLAPS

TunnelTypeOK ==
  /\ step \in [Caller -> Steps]
  /\ server \in [Caller -> {"none", "mine", "old"}]
  /\ forward \in [Caller -> BOOLEAN]
  /\ clients \in [Caller -> SUBSET {"mine", "old"}]
  /\ link \in [Caller -> {"none", "mine", "old"}]
  /\ died \in [Caller -> BOOLEAN]

\* Who holds sandbox_port is a running client the server has let in.
Linked == \A c \in Caller : link[c] # "none" => link[c] \in clients[c] /\ link[c] = server[c]

LEMMA FaultsCount ==
  ASSUME faults \in 0 .. MaxFaults, NEW kind, Fault(kind)
  PROVE  faults' \in 0 .. MaxFaults
BY CacheAssumption DEF Fault

-----------------------------------------------------------------------------
(* The cache, beside and under the tunnel.                                 *)

LEMMA CacheTyped ==
  ASSUME CacheTypeOK, [Next]_vars
  PROVE  CacheTypeOK'
<1> USE CacheAssumption DEF CacheTypeOK, Files, CacheSteps
<1>1. ASSUME NEW c \in Caller, CacheStep(c)
      PROVE  CacheTypeOK'
  <2>1. CASE Hit(c) \/ HitRuns(c) \/ Fetched(c)
    BY <2>1 DEF Hit, HitRuns, Fetched, InCache
  <2>2. CASE Miss(c) \/ HitFails(c) \/ StartFetch(c)
    BY <2>2 DEF Miss, HitFails, StartFetch, InCache
  <2>3. CASE FetchFails(c)
    BY <2>3, FaultsCount DEF FetchFails, InCache
  <2>4. CASE Unpack(c) \/ UnpackFails(c)
    BY <2>4 DEF Unpack, UnpackFails, InCache
  <2>5. CASE Written(c) \/ Smoke(c)
    BY <2>5 DEF Written, Smoke, InCache
  <2> QED
    BY <1>1, <2>1, <2>2, <2>3, <2>4, <2>5 DEF CacheStep
<1>2. CASE Antivirus
  BY <1>2, FaultsCount DEF Antivirus
<1>3. CASE Whitelist
  BY <1>3 DEF Whitelist
<1>4. ASSUME NEW c \in Caller,
             \/ Call(c) \/ Serve(c) \/ Expose(c) \/ Launch(c) \/ Poll(c) \/ ProbeOk(c)
             \/ Retry(c) \/ Close(c) \/ Fresh(c) \/ Connect(c) \/ Refused(c)
      PROVE  CacheTypeOK'
  BY <1>4 DEF cacheVars, Call, Serve, Expose, Launch, Poll, ProbeOk, Retry, Close, Fresh,
              Connect, Refused, Put
<1>5. ASSUME NEW c \in Caller, ProbeEnds(c) \/ ServeFails(c) \/ Drop(c) \/ Kill(c)
      PROVE  CacheTypeOK'
  BY <1>5, FaultsCount DEF cacheVars, ProbeEnds, ServeFails, Drop, Kill, Put
<1>6. ASSUME NEW c \in Caller, NEW client, ClientExit(c, client)
      PROVE  CacheTypeOK'
  BY <1>6, FaultsCount DEF cacheVars, ClientExit
<1>7. CASE UNCHANGED vars
  BY <1>7 DEF vars, cacheVars
<1> QED
  BY <1>1, <1>2, <1>3, <1>4, <1>5, <1>6, <1>7 DEF Next, CallStep

-----------------------------------------------------------------------------
(* The tunnel.                                                             *)

Held == TunnelTypeOK /\ Linked /\ ReturnedRecovers

LEMMA HeldStep ==
  ASSUME Held, [Next]_vars
  PROVE  Held'
<1> USE DEF Held, TunnelTypeOK, Linked, ReturnedRecovers, Steps, At, Goto, Put
<1>1. ASSUME NEW c \in Caller, Call(c)
      PROVE  Held'
  BY <1>1 DEF Call
<1>2. ASSUME NEW c \in Caller, Serve(c) \/ ServeFails(c)
      PROVE  Held'
  <2>1. step' \in [Caller -> Steps] /\ step'[c] # "ok"
        /\ \A d \in Caller \ {c} : step'[d] = step[d]
    BY <1>2 DEF Serve, ServeFails
  <2>2. server' \in [Caller -> {"none", "mine", "old"}]
        /\ \A d \in Caller : server[d] # "none" \/ d # c => server'[d] = server[d]
    BY <1>2 DEF Serve, ServeFails, Served
  <2>3. UNCHANGED <<forward, clients, link, died>>
    BY <1>2 DEF Serve, ServeFails
  <2> QED
    BY <2>1, <2>2, <2>3
<1>3. ASSUME NEW c \in Caller, Expose(c) \/ Poll(c) \/ Retry(c)
      PROVE  Held'
  BY <1>3 DEF Expose, Poll, Retry
<1>4. ASSUME NEW c \in Caller, Launch(c)
      PROVE  Held'
  BY <1>4 DEF Launch
<1>5. ASSUME NEW c \in Caller, ProbeOk(c)
      PROVE  Held'
  BY <1>5 DEF ProbeOk, HttpProbeOk
<1>6. ASSUME NEW c \in Caller, ProbeEnds(c) \/ Kill(c)
      PROVE  Held'
  BY <1>6 DEF ProbeEnds, Kill
<1>7. ASSUME NEW c \in Caller, Close(c) \/ Fresh(c)
      PROVE  Held'
  BY <1>7 DEF Close, Fresh
<1>8. ASSUME NEW c \in Caller, Connect(c) \/ Drop(c)
      PROVE  Held'
  BY <1>8 DEF Connect, Drop
<1>9. ASSUME NEW c \in Caller, Refused(c)
      PROVE  Held'
  BY <1>9 DEF Refused
<1>10. ASSUME NEW c \in Caller, NEW client \in {"mine", "old"}, ClientExit(c, client)
       PROVE  Held'
  BY <1>10 DEF ClientExit
<1>11. CASE UNCHANGED tunnelVars
  BY <1>11 DEF tunnelVars
<1> QED
  BY <1>1, <1>2, <1>3, <1>4, <1>5, <1>6, <1>7, <1>8, <1>9, <1>10, <1>11
  DEF Next, CallStep, vars, tunnelVars

LEMMA InvariantHolds == Spec => [](CacheTypeOK /\ Held)
<1>1. Init => CacheTypeOK /\ Held
  BY CacheAssumption
  DEF Init, CacheInit, CacheTypeOK, Files, CacheSteps, Held, TunnelTypeOK, Linked, ReturnedRecovers, Steps
<1>2. (CacheTypeOK /\ Held) /\ [Next]_vars => (CacheTypeOK /\ Held)'
  BY CacheTyped, HeldStep
<1> QED
  BY <1>1, <1>2, PTL DEF Spec

\* Types, and: sandbox_port is held by a running client with the server's token.
THEOREM TypeCorrect == Spec => []TypeOK
<1>1. CacheTypeOK /\ Held => TypeOK
  BY DEF Held, TunnelTypeOK, Linked, TypeOK
<1> QED
  BY <1>1, InvariantHolds, PTL

\* What expose_local has returned comes back after a broken connection, however
\* many calls, retries and clients there were before.
THEOREM ReturnedTunnelsRecover == Spec => []ReturnedRecovers
<1>1. CacheTypeOK /\ Held => ReturnedRecovers
  BY DEF Held
<1> QED
  BY <1>1, InvariantHolds, PTL

=============================================================================
