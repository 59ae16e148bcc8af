-------------------------- MODULE MetricsCollector --------------------------
(***************************************************************************)
(* MetricsCollectorService: the handlers of payment.started, .completed    *)
(* and .failed, which the event emitter calls synchronously.  A start time *)
(* is represented by the run whose start it is; the samples are not kept.  *)
(***************************************************************************)
EXTENDS Naturals

CONSTANTS JobIds, Gateways, None

VARIABLES
  startTimes,  \* jobId -> the run that was marked last, or None
  succeeded,   \* per gateway
  failed       \* per gateway

metricsVars == <<startTimes, succeeded, failed>>

MetricsInit ==
  /\ startTimes = [i \in JobIds |-> None]
  /\ succeeded = [g \in Gateways |-> 0]
  /\ failed = [g \in Gateways |-> 0]

\* Faulty variant of OnStarted: a start that is already there is kept.
OnStartedOnce(i, run) ==
  /\ startTimes' = IF startTimes[i] = None
                     THEN [startTimes EXCEPT ![i] = run] ELSE startTimes
  /\ UNCHANGED <<succeeded, failed>>

\* onStarted and markStart.
OnStarted(i, run) ==
  /\ startTimes' = [startTimes EXCEPT ![i] = run]
  /\ UNCHANGED <<succeeded, failed>>

\* Faulty variant of TakeStart: a failed run leaves its start behind.
TakeStartOfSuccess(i, success) ==
  startTimes' = IF success THEN [startTimes EXCEPT ![i] = None] ELSE startTimes

\* A start time yields a latency sample and is deleted, whatever the outcome.
TakeStart(i, success) == startTimes' = [startTimes EXCEPT ![i] = None]

\* onCompleted: recordOutcome(gatewayId, jobId, true).
OnCompleted(g, i) ==
  /\ TakeStart(i, TRUE)
  /\ succeeded' = [succeeded EXCEPT ![g] = @ + 1]
  /\ UNCHANGED failed

\* onFailed: recordOutcome(gatewayId, jobId, false).
OnFailed(g, i) ==
  /\ TakeStart(i, FALSE)
  /\ failed' = [failed EXCEPT ![g] = @ + 1]
  /\ UNCHANGED succeeded

\* totalProcessed of a gateway's snapshot.
TotalProcessed(g) == succeeded[g] + failed[g]
=============================================================================
