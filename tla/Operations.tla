----------------------------- MODULE Operations -----------------------------
(***************************************************************************)
(* What runs around PaymentProcessorService.process in one pod: the queue  *)
(* manager, the metrics its workers' events feed and the dashboard that    *)
(* shows them.  The emitter calls its listeners in the turn of the emit,   *)
(* so a job's step and the metrics' handler are one action.                *)
(***************************************************************************)
EXTENDS QueueManager, MetricsCollector, DashboardGateway

CONSTANTS
  GatewayOf,   \* the gateway of a work queue
  Hanging      \* work queues of gateways that may never answer

ASSUME OperationsTypes ==
  /\ JobIds = {IdOf[j] : j \in Jobs}
  /\ GatewayOf \in [WorkQueues -> Gateways]
  /\ Hanging \subseteq WorkQueues

vars == <<queueVars, metricsVars, dashboardVars>>

OperationsTypeOK ==
  /\ QueueTypeOK
  /\ startTimes \in [JobIds -> RunIds \cup {None}]
  /\ succeeded \in [Gateways -> Nat] /\ failed \in [Gateways -> Nat]
  /\ sockets \subseteq Clients /\ heartbeat \in BOOLEAN /\ timers \in Nat
  /\ shown \in [Gateways -> Nat]

Init == QueueInit /\ MetricsInit /\ DashboardInit([g \in Gateways |-> 0])

-----------------------------------------------------------------------------
\* payment.started is emitted once the gates are passed.
Start(j) ==
  /\ Fetch(j)
  /\ OnStarted(IdOf[j], RunOf(j))
  /\ UNCHANGED dashboardVars

\* The worker's 'completed' and 'failed', as attachWorker forwards them.
EmitCompleted(j) ==
  /\ OnCompleted(GatewayOf[QueueOf[j]], IdOf[j])
  /\ UNCHANGED dashboardVars

EmitFailed(j) ==
  /\ OnFailed(GatewayOf[QueueOf[j]], IdOf[j])
  /\ UNCHANGED dashboardVars

\* A throw is an event only when it is the job's last.
EmitThrown(j) ==
  \/ j \in Single /\ EmitFailed(j)
  \/ j \notin Single /\ UNCHANGED <<metricsVars, dashboardVars>>

Refuse(j) == FetchRefused(j) /\ EmitThrown(j)

Settle(j) ==
  \/ Complete(j) /\ EmitCompleted(j)
  \/ GiveUp(j) /\ EmitCompleted(j)
  \/ Fail(j) /\ EmitThrown(j)
  \/ GiveUpInVain(j) /\ EmitThrown(j)

\* BullMQ's own failing of a stalled job is a 'failed' of a worker, too.
Reap(j) == StallOut(j) /\ EmitFailed(j)

\* What happens to jobs and runs without an event of this pod's workers.
Silent ==
  /\ \/ \E j \in Jobs : Enqueue(j) \/ Redeliver(j)
     \/ \E r \in RunIds : ZombieEnds(r)
  /\ UNCHANGED <<metricsVars, dashboardVars>>

Shutdown ==
  /\ \/ BeginShutdown \/ CloseWorkers \/ GraceExpires \/ CloseQueues
     \/ PauseFails \/ CloseFails
     \/ \E q \in Registered : PauseQueue(q)
  /\ UNCHANGED <<metricsVars, dashboardVars>>

Visit(c) ==
  /\ HandleConnection(c) \/ HandleDisconnect(c)
  /\ UNCHANGED <<queueVars, metricsVars>>

\* fullDashboardPayload asks every queue; on closed clients it rejects.
Heartbeat ==
  /\ phase # "closed"
  /\ Tick([g \in Gateways |-> TotalProcessed(g)])
  /\ UNCHANGED <<queueVars, metricsVars>>

Next ==
  \/ \E j \in Jobs : Start(j) \/ Refuse(j) \/ Settle(j) \/ Reap(j)
  \/ Silent
  \/ Shutdown
  \/ \E c \in Clients : Visit(c)
  \/ Heartbeat

Spec == Init /\ [][Next]_vars

\* Workers take what they can, runs at answering gateways end, timers fire,
\* and a shutdown that has begun goes on.  Nobody is obliged to begin one.
FairSpec ==
  /\ Spec
  /\ \A j \in Jobs :
       /\ WF_vars(Start(j) \/ Refuse(j))
       /\ QueueOf[j] \notin Hanging => WF_vars(Settle(j))
  /\ \A r \in RunIds :
       QueueOf[r[1]] \notin Hanging
         => WF_vars(ZombieEnds(r) /\ UNCHANGED <<metricsVars, dashboardVars>>)
  /\ WF_vars(Shutdown /\ phase # "up")
  /\ WF_vars(Heartbeat)
-----------------------------------------------------------------------------
\* A payment that is given up reaches payments-dlq, in spite of the closing of
\* the queue clients, unless its run outlasts the grace period.  A queue
\* client is never closed under a run that is still awaited (shutdown).
DeadLettersArrive == unlettered # {} => expired

\* shutdown comes to an end whatever the runs do: a gateway that hangs, or a
\* stalled run, costs the grace period and no more.  Only a pause or a close
\* that rejects keeps the queue clients from being closed (207-217).
ShutdownEnds == phase = "pausing" ~> phase = "closed" \/ aborted

\* The bulkhead (the comment on queue naming): jobs of a gateway that answers
\* are taken although the runs at another never end.
HealthyGatewayServed ==
  \A j \in Jobs : QueueOf[j] \notin Hanging /\ j \notin Delayed =>
    (jobState[j] = "waiting" ~> jobState[j] # "waiting" \/ phase # "up")

\* Jobs whose id another job uses in another queue.
Shared == {j \in Jobs : \E k \in Jobs \ {j} : IdOf[k] = IdOf[j]}

\* A run's latency is measured from its own start, although starts are kept per
\* job id and a throw with attempts left, emitting nothing, leaves its start
\* behind: during a run the start is that of the run, also when the job was
\* redelivered to it while an earlier run goes on, and a job that was never
\* redelivered has none of another run.  Shared ids are the exception.
LatencyIsOwn ==
  \A j \in Jobs \ Shared :
    /\ j \in Active => startTimes[IdOf[j]] = RunOf(j)
    /\ j \notin Active /\ j \notin stalled
         => startTimes[IdOf[j]] \in (IF j \in lapsed THEN {RunOf(j), None}
                                                   ELSE {None})

\* startTimes does not grow for ever: the entry of a job id goes when the job
\* ends, be it that BullMQ fails it for stalling.
SettledLeavesNoStart ==
  \A i \in JobIds : startTimes[i] # None =>
    \E j \in Jobs :
      /\ IdOf[j] = i
      /\ \/ jobState[j] = "active"
         \/ jobState[j] = "waiting" /\ j \in stalled

\* One timer ticks while anybody watches and none when nobody does, over any
\* sequence of connects and disconnects.
HeartbeatFollowsClients == timers = (IF sockets = {} THEN 0 ELSE 1)

\* Every outcome reaches the dashboards, unless the last one leaves or the
\* queue clients close before.
EveryOutcomeIsShown ==
  \A g \in Gateways :
    (sockets # {} /\ shown[g] # TotalProcessed(g))
      ~> (shown[g] = TotalProcessed(g) \/ sockets = {} \/ phase = "closed")

=============================================================================
