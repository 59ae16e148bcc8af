-------------------------- MODULE OperationsProofs --------------------------
(***************************************************************************)
(* Theorems about Operations, for any number of queues, jobs and clients.  *)
(***************************************************************************)
EXTENDS Operations, TLAPS

-----------------------------------------------------------------------------
(* Types. *)

LEMMA RunOfTyped == ASSUME NEW j \in Jobs PROVE RunOf(j) \in RunIds
<1>1. (j \in stalled) \in BOOLEAN
  OBVIOUS
<1>2. ASSUME NEW b \in BOOLEAN PROVE <<j, b>> \in RunIds
  BY DEF RunIds
<1>3. QED
  BY <1>1, <1>2 DEF RunOf

LEMMA QueueTyped ==
  ASSUME QueueTypeOK, [Next]_vars
  PROVE  QueueTypeOK'
<1> USE QueueTypes DEF QueueTypeOK, JobStates, Phases
<1>1. ASSUME NEW j \in Jobs, Start(j)
      PROVE  QueueTypeOK'
  BY <1>1 DEF Start, Fetch, Fetchable, letterVars, shutdownVars
<1>2. ASSUME NEW j \in Jobs, Failed(j), UNCHANGED shutdownVars,
             j \in Active \/ jobState[j] = "waiting",
             UNCHANGED letterVars \/ LoseLetter(j)
      PROVE  QueueTypeOK'
  <2>1. letters' \subseteq {IdOf[k] : k \in Jobs} /\ unlettered' \subseteq Jobs
    BY <1>2 DEF LoseLetter, letterVars
  <2>2. jobState' \in [Jobs -> JobStates]
    BY <1>2 DEF Failed
  <2>3. lapsed' \subseteq {k \in Jobs : jobState'[k] = "active"}
    BY <1>2 DEF Failed, Active
  <2>4. QED
    BY <1>2, <2>1, <2>2, <2>3 DEF Failed, shutdownVars
<1>3. ASSUME NEW j \in Jobs, Refuse(j)
      PROVE  QueueTypeOK'
  BY <1>3, <1>2 DEF Refuse, FetchRefused, Fetchable
<1>4. ASSUME NEW j \in Jobs, Settle(j)
      PROVE  QueueTypeOK'
  <2>1. CASE Complete(j)
    BY <2>1 DEF Complete, Completed, Active, letterVars, shutdownVars
  <2>2. CASE GiveUp(j)
    BY <2>2 DEF GiveUp, Completed, Active, AddLetter, shutdownVars
  <2>3. CASE Fail(j)
    BY <2>3, <1>2 DEF Fail
  <2>4. CASE GiveUpInVain(j)
    BY <2>4, <1>2 DEF GiveUpInVain
  <2>5. QED
    BY <1>4, <2>1, <2>2, <2>3, <2>4 DEF Settle
<1>5. ASSUME NEW j \in Jobs, Enqueue(j)
      PROVE  QueueTypeOK'
  BY <1>5 DEF Enqueue, letterVars, shutdownVars
<1>6. ASSUME NEW j \in Jobs, Redeliver(j) \/ StallOut(j)
      PROVE  QueueTypeOK'
  <2>1. RunOf(j) \in RunIds
    BY RunOfTyped
  <2>2. zombies' \subseteq RunIds
    BY <1>6, <2>1 DEF Redeliver, StallOut, Orphan
  <2>3. QED
    BY <1>6, <2>2
    DEF Redeliver, StallOut, Orphan, letterVars, shutdownVars
<1>7. ASSUME NEW r \in RunIds, ZombieEnds(r)
      PROVE  QueueTypeOK'
  <2>1. r[1] \in Jobs
    BY DEF RunIds
  <2>2. letters' \subseteq {IdOf[k] : k \in Jobs} /\ unlettered' \subseteq Jobs
    BY <1>7, <2>1 DEF ZombieEnds, AddLetter, LoseLetter, letterVars
  <2>3. QED
    BY <1>7, <2>2 DEF ZombieEnds, shutdownVars
<1>8. CASE Shutdown
  BY <1>8 DEF Shutdown, BeginShutdown, CloseWorkers, GraceExpires, CloseQueues,
              PauseQueue, PauseFails, CloseFails, jobVars, letterVars
<1>9. CASE UNCHANGED queueVars
  BY <1>9 DEF queueVars, jobVars, letterVars, shutdownVars
<1>10. QED
  BY <1>1, <1>3, <1>4, <1>5, <1>6, <1>7, <1>8, <1>9
  DEF Next, Reap, Silent, Visit, Heartbeat, vars

-----------------------------------------------------------------------------
(* The heartbeat. *)

\* this.heartbeat is set as long as there are sockets, and a timer with it.
HeartbeatInv ==
  /\ heartbeat \in BOOLEAN /\ (heartbeat <=> sockets # {})
  /\ HeartbeatFollowsClients

LEMMA HeartbeatKept == HeartbeatInv /\ [Next]_vars => HeartbeatInv'
<1> SUFFICES ASSUME HeartbeatInv, [Next]_vars
             PROVE  HeartbeatInv'
  OBVIOUS
<1> USE DEF HeartbeatInv, HeartbeatFollowsClients
<1>1. ASSUME NEW c \in Clients, HandleConnection(c)
      PROVE  HeartbeatInv'
  <2>1. heartbeat' /\ sockets' # {}
    BY <1>1 DEF HandleConnection
  <2>2. heartbeat' \in BOOLEAN /\ timers' = 1
    BY <1>1 DEF HandleConnection
  <2>3. QED
    BY <2>1, <2>2
<1>2. ASSUME NEW c \in Clients, HandleDisconnect(c)
      PROVE  HeartbeatInv'
  <2>1. heartbeat /\ timers = 1
    BY <1>2 DEF HandleDisconnect
  <2>2. CASE sockets' = {}
    <3>1. (heartbeat' = FALSE) /\ timers' = timers - 1
      BY <1>2, <2>1, <2>2, Zenon DEF HandleDisconnect
    <3>2. heartbeat' \in BOOLEAN /\ ~heartbeat'
      BY <3>1
    <3>3. timers' = 0
      BY <2>1, <3>1
    <3>4. QED
      BY <2>2, <3>2, <3>3
  <2>3. CASE sockets' # {}
    <3>1. heartbeat' = heartbeat /\ timers' = timers
      BY <1>2, <2>1, <2>3 DEF HandleDisconnect
    <3>2. QED
      BY <2>1, <2>3, <3>1
  <2>4. QED
    BY <2>2, <2>3
<1>3. CASE UNCHANGED dashboardVars \/ Heartbeat
  BY <1>3 DEF dashboardVars, Heartbeat, Tick
<1>4. QED
  BY <1>1, <1>2, <1>3
  DEF Next, Visit, Start, Refuse, Settle, Reap, Silent, Shutdown,
      EmitCompleted, EmitFailed, EmitThrown, vars

LEMMA HeartbeatAlways == Spec => []HeartbeatInv
<1>1. Init => HeartbeatInv
  BY DEF Init, DashboardInit, HeartbeatInv, HeartbeatFollowsClients
<1>2. QED
  BY <1>1, HeartbeatKept, PTL DEF Spec

\* One timer while anybody watches and none otherwise (handleConnection,
\* handleDisconnect), for any number of clients.
THEOREM OneHeartbeat == Spec => []HeartbeatFollowsClients
<1>1. HeartbeatInv => HeartbeatFollowsClients
  BY DEF HeartbeatInv
<1>2. QED
  BY <1>1, HeartbeatAlways, PTL

-----------------------------------------------------------------------------
(* The composition. *)

\* Type correctness of the composition: among others, a job that nobody works
\* on is active, and the counters of timers and outcomes stay natural numbers.
THEOREM OperationsTypeCorrect == Spec => []OperationsTypeOK
<1>1. ASSUME Init PROVE OperationsTypeOK
  <2>1. QueueTypeOK
    <3>1. jobState \in [Jobs -> JobStates]
      BY <1>1, QueueTypes DEF Init, QueueInit, JobStates
    <3>2. expired \in BOOLEAN /\ phase \in Phases
      BY <1>1 DEF Init, QueueInit, Phases
    <3>3. QED
      BY <1>1, <3>1, <3>2 DEF Init, QueueInit, QueueTypeOK
  <2>2. startTimes \in [JobIds -> RunIds \cup {None}]
    <3> HIDE DEF RunIds
    <3>1. QED
      BY <1>1 DEF Init, MetricsInit
  <2>3. QED
    BY <1>1, <2>1, <2>2
    DEF Init, MetricsInit, DashboardInit, OperationsTypeOK
<1>2. OperationsTypeOK /\ HeartbeatInv /\ [Next]_vars => OperationsTypeOK'
  <2> SUFFICES ASSUME OperationsTypeOK, HeartbeatInv, [Next]_vars
               PROVE  OperationsTypeOK'
    OBVIOUS
  <2> USE DEF OperationsTypeOK
  <2>1. QueueTypeOK'
    BY QueueTyped
  <2>2. ASSUME NEW j \in Jobs, Start(j) \/ Refuse(j) \/ Settle(j) \/ Reap(j)
        PROVE  OperationsTypeOK'
    <3>1. /\ IdOf[j] \in JobIds /\ GatewayOf[QueueOf[j]] \in Gateways
      BY QueueTypes, OperationsTypes
    <3>a. RunOf(j) \in RunIds
      BY RunOfTyped
    <3>2. UNCHANGED dashboardVars
      BY <2>2 DEF Start, Refuse, Settle, Reap, EmitCompleted, EmitFailed,
                  EmitThrown
    <3>3. CASE Start(j)
      BY <3>1, <3>a, <3>2, <3>3, <2>1 DEF Start, OnStarted, dashboardVars
    <3>4. CASE EmitCompleted(j)
      BY <3>1, <3>2, <3>4, <2>1
      DEF EmitCompleted, OnCompleted, TakeStart, dashboardVars
    <3>5. CASE EmitFailed(j)
      BY <3>1, <3>2, <3>5, <2>1
      DEF EmitFailed, OnFailed, TakeStart, dashboardVars
    <3>6. CASE UNCHANGED <<metricsVars, dashboardVars>>
      BY <2>1, <3>6 DEF metricsVars, dashboardVars
    <3>7. QED
      BY <2>2, <3>3, <3>4, <3>5, <3>6 DEF Refuse, Settle, Reap, EmitThrown
  <2>3. CASE UNCHANGED <<metricsVars, dashboardVars>>
    BY <2>1, <2>3 DEF metricsVars, dashboardVars
  <2>4. ASSUME NEW c \in Clients, Visit(c)
        PROVE  OperationsTypeOK'
    <3>1. timers' \in Nat
      BY HeartbeatKept DEF HeartbeatInv, HeartbeatFollowsClients
    <3>2. QED
      BY <2>1, <2>4, <3>1
      DEF Visit, HandleConnection, HandleDisconnect, metricsVars
  <2>5. CASE Heartbeat
    BY <2>1, <2>5 DEF Heartbeat, Tick, TotalProcessed, metricsVars
  <2>6. QED
    BY <2>2, <2>3, <2>4, <2>5 DEF Next, Silent, Shutdown, vars
<1>3. QED
  BY <1>1, <1>2, HeartbeatAlways, PTL DEF Spec

-----------------------------------------------------------------------------
(* Shutdown. *)

\* The queue clients close under a run only after the grace period, and a job
\* that could be taken afterwards is not.
ClosingInv == DeadLettersArrive /\ (phase = "closed" => Drained \/ expired)

LEMMA ClosingKept ==
  ClosingInv /\ OperationsTypeOK /\ [Next]_vars => ClosingInv'
<1> SUFFICES ASSUME ClosingInv, OperationsTypeOK, [Next]_vars
             PROVE  ClosingInv'
  OBVIOUS
<1> USE DEF ClosingInv, DeadLettersArrive, Drained, Active
<1>1. ASSUME NEW j \in Jobs, Start(j) \/ Refuse(j)
      PROVE  ClosingInv'
  BY <1>1 DEF Start, Refuse, Fetch, FetchRefused, Failed, Fetchable, WorkersUp,
              letterVars, shutdownVars
<1>2. ASSUME NEW j \in Jobs, Settle(j)
      PROVE  ClosingInv'
  <2>1. CASE Complete(j)
    BY <2>1 DEF Complete, Completed, letterVars, shutdownVars
  <2>2. CASE GiveUp(j)
    BY <2>2 DEF GiveUp, AddLetter, shutdownVars
  <2>3. CASE Fail(j)
    BY <2>3 DEF Fail, Failed, letterVars, shutdownVars
  <2>4. CASE GiveUpInVain(j)
    BY <2>4 DEF GiveUpInVain, LoseLetter, shutdownVars
  <2>5. QED
    BY <1>2, <2>1, <2>2, <2>3, <2>4 DEF Settle
<1>3. ASSUME NEW j \in Jobs, Enqueue(j) \/ Redeliver(j) \/ Reap(j)
      PROVE  ClosingInv'
  <2>1. CASE Enqueue(j)
    <3>1. jobState \in [Jobs -> JobStates]
      BY DEF OperationsTypeOK, QueueTypeOK
    <3>2. Active' \subseteq Active
      BY <2>1, <3>1 DEF Enqueue
    <3>3. QED
      BY <2>1, <3>2 DEF Enqueue, letterVars, shutdownVars
  <2>2. CASE Redeliver(j)
    BY <2>2 DEF Redeliver, Orphan, WorkersUp, letterVars, shutdownVars
  <2>3. CASE StallOut(j)
    BY <2>3 DEF StallOut, Orphan, WorkersUp, letterVars, shutdownVars
  <2>4. QED
    BY <1>3, <2>1, <2>2, <2>3 DEF Reap
<1>4. ASSUME NEW r \in RunIds, ZombieEnds(r)
      PROVE  ClosingInv'
  BY <1>4 DEF ZombieEnds, AddLetter, LoseLetter, letterVars, shutdownVars
<1>5. CASE Shutdown
  BY <1>5 DEF Shutdown, BeginShutdown, CloseWorkers, GraceExpires, CloseQueues,
              PauseQueue, PauseFails, CloseFails, jobVars, letterVars
<1>6. CASE UNCHANGED queueVars
  BY <1>6 DEF queueVars, jobVars, letterVars, shutdownVars
<1>7. QED
  BY <1>1, <1>2, <1>3, <1>4, <1>5, <1>6
  DEF Next, Silent, Visit, Heartbeat, vars

\* A dead letter is lost at shutdown only if the grace period ran out, however
\* many runs there are and wherever shutdown finds them.
THEOREM NoLetterIsLostInGrace == Spec => []DeadLettersArrive
<1>1. Init => ClosingInv
  BY DEF Init, QueueInit, ClosingInv, DeadLettersArrive
<1>2. ClosingInv => DeadLettersArrive
  BY DEF ClosingInv
<1>3. QED
  BY <1>1, <1>2, ClosingKept, OperationsTypeCorrect, PTL DEF Spec

-----------------------------------------------------------------------------
(* Start times. *)

StartsInv == LatencyIsOwn /\ SettledLeavesNoStart

\* The end of a job that is active or waiting.
LEMMA EndKeepsStarts ==
  ASSUME StartsInv, OperationsTypeOK, NEW j \in Jobs,
         EmitCompleted(j) \/ EmitFailed(j),
         NEW done \in {"completed", "failed"},
         jobState' = [jobState EXCEPT ![j] = done],
         UNCHANGED stalled,
         lapsed' \subseteq lapsed, lapsed \subseteq lapsed' \cup {j}
  PROVE  StartsInv'
<1> USE DEF OperationsTypeOK, QueueTypeOK, StartsInv
<1>1. startTimes' = [startTimes EXCEPT ![IdOf[j]] = None]
  BY DEF EmitCompleted, EmitFailed, OnCompleted, OnFailed, TakeStart
<1>2. /\ jobState'[j] # "active"
      /\ \A k \in Jobs \ {j} : /\ jobState'[k] = jobState[k]
                               /\ k \in lapsed' <=> k \in lapsed
                               /\ k \in Active' <=> k \in Active
                               /\ RunOf(k)' = RunOf(k)
  BY DEF Active, RunOf
<1>3. IdOf[j] \in JobIds /\ startTimes'[IdOf[j]] = None
  BY <1>1, OperationsTypes
<1>4. \A i \in JobIds \ {IdOf[j]} : startTimes'[i] = startTimes[i]
  BY <1>1
<1>5. LatencyIsOwn'
  <2> SUFFICES ASSUME NEW k \in Jobs \ Shared
               PROVE  /\ k \in Active' => startTimes'[IdOf[k]] = RunOf(k)'
                      /\ k \notin Active' /\ k \notin stalled'
                           => startTimes'[IdOf[k]] \in
                                (IF k \in lapsed' THEN {RunOf(k)', None}
                                                  ELSE {None})
    BY DEF LatencyIsOwn, Shared
  <2>1. CASE k = j
    BY <1>2, <1>3, <2>1 DEF Active
  <2>2. CASE k # j
    <3>1. IdOf[k] \in JobIds \ {IdOf[j]}
      BY <2>2, OperationsTypes DEF Shared
    <3>2. QED
      BY <1>2, <1>4, <2>2, <3>1 DEF LatencyIsOwn
  <2>3. QED
    BY <2>1, <2>2
<1>6. SettledLeavesNoStart'
  <2> SUFFICES ASSUME NEW i \in JobIds, startTimes'[i] # None
               PROVE  \E k \in Jobs :
                        /\ IdOf[k] = i
                        /\ \/ jobState'[k] = "active"
                           \/ jobState'[k] = "waiting" /\ k \in stalled'
    BY DEF SettledLeavesNoStart
  <2>1. i # IdOf[j] /\ startTimes[i] # None
    BY <1>3, <1>4
  <2>2. PICK k \in Jobs : /\ IdOf[k] = i
                          /\ \/ jobState[k] = "active"
                             \/ jobState[k] = "waiting" /\ k \in stalled
    BY <2>1 DEF SettledLeavesNoStart
  <2>3. QED
    BY <1>2, <2>1, <2>2
<1>7. QED
  BY <1>5, <1>6

\* A throw with attempts left, of a job that is active or waiting, leaves the
\* start of its run, if it has one, where it is.
LEMMA ThrowKeepsStarts ==
  ASSUME StartsInv, OperationsTypeOK, NEW j \in Jobs, j \notin Single,
         j \in Active \/ jobState[j] = "waiting",
         Failed(j), UNCHANGED startTimes
  PROVE  StartsInv'
<1> USE DEF OperationsTypeOK, QueueTypeOK, StartsInv
<1>1. /\ jobState' = [jobState EXCEPT ![j] = "active"]
      /\ lapsed' = lapsed \cup {j} /\ UNCHANGED stalled
  BY DEF Failed
<1>2. \A k \in Jobs : RunOf(k)' = RunOf(k)
  BY <1>1 DEF RunOf
<1>3. LatencyIsOwn'
  <2> SUFFICES ASSUME NEW k \in Jobs \ Shared
               PROVE  /\ k \in Active' => startTimes'[IdOf[k]] = RunOf(k)'
                      /\ k \notin Active' /\ k \notin stalled'
                           => startTimes'[IdOf[k]] \in
                                (IF k \in lapsed' THEN {RunOf(k)', None}
                                                  ELSE {None})
    BY DEF LatencyIsOwn, Shared
  <2>1. CASE k = j
    <3>1. k \notin Active' /\ k \in lapsed'
      BY <1>1, <2>1 DEF Active
    <3>2. CASE j \in Active
      BY <1>2, <2>1, <3>1, <3>2 DEF LatencyIsOwn
    <3>3. CASE jobState[j] = "waiting"
      <4>1. j \notin Active /\ j \notin lapsed
        BY <3>3 DEF Active
      <4>2. j \notin stalled => startTimes[IdOf[j]] = None
        BY <2>1, <4>1 DEF LatencyIsOwn
      <4>3. QED
        BY <1>1, <2>1, <3>1, <4>2
    <3>4. QED
      BY <3>2, <3>3
  <2>2. CASE k # j
    <3>1. (k \in Active' <=> k \in Active) /\ (k \in lapsed' <=> k \in lapsed)
      BY <1>1, <2>2 DEF Active
    <3>2. QED
      BY <1>1, <1>2, <3>1 DEF LatencyIsOwn
  <2>3. QED
    BY <2>1, <2>2
<1>4. SettledLeavesNoStart'
  BY <1>1 DEF SettledLeavesNoStart
<1>5. QED
  BY <1>3, <1>4

LEMMA StartsKept ==
  StartsInv /\ OperationsTypeOK /\ [Next]_vars => StartsInv'
<1> SUFFICES ASSUME StartsInv, OperationsTypeOK, [Next]_vars
             PROVE  StartsInv'
  OBVIOUS
<1>1. ASSUME NEW j \in Jobs, Start(j)
      PROVE  StartsInv'
  <2> USE DEF OperationsTypeOK, QueueTypeOK
  <2>1. /\ startTimes' = [startTimes EXCEPT ![IdOf[j]] = RunOf(j)]
        /\ jobState[j] = "waiting"
        /\ jobState' = [jobState EXCEPT ![j] = "active"]
        /\ UNCHANGED <<lapsed, stalled>>
    BY <1>1 DEF Start, Fetch, Fetchable, OnStarted
  <2>2. \A k \in Jobs : RunOf(k)' = RunOf(k) /\ IdOf[k] \in JobIds
    BY <2>1, OperationsTypes DEF RunOf
  <2>3. \A k \in Jobs \ {j} : k \in Active' <=> k \in Active
    BY <2>1 DEF Active
  <2>4. LatencyIsOwn'
    BY <2>1, <2>2, <2>3 DEF StartsInv, LatencyIsOwn, Shared, Active
  <2>5. SettledLeavesNoStart'
    BY <2>1 DEF StartsInv, SettledLeavesNoStart
  <2>6. QED
    BY <2>4, <2>5 DEF StartsInv
<1>2. ASSUME NEW j \in Jobs, Failed(j), EmitThrown(j),
             j \in Active \/ jobState[j] = "waiting"
      PROVE  StartsInv'
  <2>1. CASE j \in Single
    BY <1>2, <2>1, EndKeepsStarts DEF Failed, EmitThrown
  <2>2. CASE j \notin Single
    BY <1>2, <2>2, ThrowKeepsStarts DEF EmitThrown, metricsVars
  <2>3. QED
    BY <2>1, <2>2
<1>3. ASSUME NEW j \in Jobs, Refuse(j)
      PROVE  StartsInv'
  BY <1>2, <1>3 DEF Refuse, FetchRefused, Fetchable
<1>4. ASSUME NEW j \in Jobs, Settle(j)
      PROVE  StartsInv'
  <2>1. CASE (Complete(j) \/ GiveUp(j)) /\ EmitCompleted(j)
    BY <2>1, EndKeepsStarts DEF Complete, GiveUp, Completed
  <2>2. CASE (Fail(j) \/ GiveUpInVain(j)) /\ EmitThrown(j)
    BY <1>2, <2>2 DEF Fail, GiveUpInVain
  <2>3. QED
    BY <1>4, <2>1, <2>2 DEF Settle
<1>5. ASSUME NEW j \in Jobs, Reap(j)
      PROVE  StartsInv'
  <2>1. /\ jobState' = [jobState EXCEPT ![j] = "failed"]
        /\ lapsed' = lapsed \ {j} /\ UNCHANGED stalled /\ EmitFailed(j)
    BY <1>5 DEF Reap, StallOut, Orphan
  <2>2. QED
    BY <2>1, EndKeepsStarts
<1>6. ASSUME NEW j \in Jobs, Enqueue(j) \/ Redeliver(j), UNCHANGED metricsVars
      PROVE  StartsInv'
  <2> USE DEF OperationsTypeOK, QueueTypeOK, metricsVars
  <2>1. /\ UNCHANGED startTimes
        /\ jobState' = [jobState EXCEPT ![j] = "waiting"]
        /\ \/ jobState[j] = "absent" /\ UNCHANGED <<lapsed, stalled>>
           \/ stalled' = stalled \cup {j} /\ lapsed' = lapsed \ {j}
    BY <1>6 DEF Enqueue, Redeliver, Orphan
  <2>2. \A k \in Jobs \ {j} : /\ RunOf(k)' = RunOf(k)
                              /\ k \in Active' <=> k \in Active
                              /\ k \in lapsed' <=> k \in lapsed
                              /\ k \in stalled' <=> k \in stalled
    BY <2>1 DEF RunOf, Active
  <2>3. LatencyIsOwn'
    <3>1. j \notin Active'
      BY <2>1 DEF Active
    <3>2. ASSUME j \notin Shared, j \notin stalled'
          PROVE  startTimes'[IdOf[j]] = None
      <4>1. jobState[j] = "absent" /\ j \notin Active /\ j \notin lapsed
        BY <2>1, <3>2 DEF Active
      <4>2. QED
        BY <2>1, <3>2, <4>1 DEF StartsInv, LatencyIsOwn
    <3>3. ASSUME NEW k \in Jobs \ Shared, k # j
          PROVE  /\ k \in Active' => startTimes'[IdOf[k]] = RunOf(k)'
                 /\ k \notin Active' /\ k \notin stalled'
                      => startTimes'[IdOf[k]] \in
                           (IF k \in lapsed' THEN {RunOf(k)', None}
                                             ELSE {None})
      BY <2>1, <2>2, <3>3 DEF StartsInv, LatencyIsOwn
    <3>4. QED
      BY <3>1, <3>2, <3>3 DEF LatencyIsOwn, Shared
  <2>4. SettledLeavesNoStart'
    BY <2>1 DEF StartsInv, SettledLeavesNoStart
  <2>5. QED
    BY <2>3, <2>4 DEF StartsInv
<1>7. CASE UNCHANGED <<jobState, lapsed, stalled, startTimes>>
  BY <1>7 DEF StartsInv, LatencyIsOwn, SettledLeavesNoStart, RunOf, Shared,
              Active
<1>8. QED
  <2>1. ASSUME NEW r \in RunIds, ZombieEnds(r), UNCHANGED metricsVars
        PROVE  StartsInv'
    BY <1>7, <2>1 DEF ZombieEnds, metricsVars
  <2>2. CASE Shutdown
    BY <1>7, <2>2 DEF Shutdown, BeginShutdown, CloseWorkers, GraceExpires,
                      CloseQueues, PauseQueue, PauseFails, CloseFails,
                      jobVars, metricsVars
  <2>3. CASE UNCHANGED <<queueVars, metricsVars>>
    BY <1>7, <2>3 DEF queueVars, jobVars, metricsVars
  <2>4. QED
    BY <1>1, <1>3, <1>4, <1>5, <1>6, <2>1, <2>2, <2>3
    DEF Next, Silent, Visit, Heartbeat, vars

LEMMA StartsAlways == Spec => []StartsInv
<1>1. Init => StartsInv
  BY OperationsTypes
  DEF Init, QueueInit, MetricsInit, StartsInv, LatencyIsOwn,
      SettledLeavesNoStart, Active
<1>2. QED
  BY <1>1, StartsKept, OperationsTypeCorrect, PTL DEF Spec

\* Latencies are measured from the run's own start (TakeStart, OnStarted).
THEOREM LatenciesAreOwn == Spec => []LatencyIsOwn
<1>1. StartsInv => LatencyIsOwn
  BY DEF StartsInv
<1>2. QED
  BY <1>1, StartsAlways, PTL

\* No start time is left of a job that is done, whatever ids jobs share.
THEOREM StartsAreTaken == Spec => []SettledLeavesNoStart
<1>1. StartsInv => SettledLeavesNoStart
  BY DEF StartsInv
<1>2. QED
  BY <1>1, StartsAlways, PTL
=============================================================================
