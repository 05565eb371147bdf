--------------------------- MODULE MetricManager ---------------------------
(* Collection of the metrics of an experiment by the multi-loader            *)
(* (tools/multi_loader/metric).  On every node of the cluster `top` is        *)
(* restarted before an experiment and its output fetched after; logs of two   *)
(* Knative pods are fetched and cut down to the lines after the last Reset;    *)
(* a Prometheus snapshot is asked for until it succeeds.                      *)
(*                                                                           *)
(* Time is the number of runs of the loader that the cluster has seen, and    *)
(* what a file holds is the set of those runs.  The rotated parts of a log    *)
(* are one file here: one of them is dropped only if it is older as a whole.  *)
EXTENDS Integers, FiniteSets

CONSTANTS
  Nodes,         \* nodes of the cluster
  MetricChoices, \* metrics that may be configured; none unless on Knative
  MaxAttempts    \* attempts at a Prometheus snapshot, 10 in the code

Metrics == {"top", "autoscaler", "activator", "prometheus"}

ASSUME MetricAssumption ==
  MaxAttempts \in Nat \ {0} /\ Nodes # {} /\ MetricChoices \subseteq SUBSET Metrics

Running == -1

VARIABLES
  metricsToCollect,
  podNode,     \* AutoScalerNode and ActivatorNode
  outputDir,
  startTime,
  mmPC,        \* where Reset or CollectMetrics is
  nodeStep,    \* where the goroutine for a node is
  attempts,    \* left in fetchPrometheusSnapshot
  runs,        \* the time
  top,         \* the process on a node: when it was started and when it was killed
  collected    \* files in output directories

config == <<metricsToCollect, podNode>>
metricVars == <<config, outputDir, startTime, mmPC, nodeStep, attempts, runs, top, collected>>

MetricInit ==
  /\ metricsToCollect \in MetricChoices
  /\ podNode \in [{"autoscaler", "activator"} -> Nodes]
  /\ outputDir = <<>> /\ startTime = 0 /\ mmPC = "idle" /\ attempts = 0 /\ runs = 0
  /\ nodeStep = [n \in Nodes |-> "done"]
  /\ top = [n \in Nodes |-> [since |-> 0, until |-> 0]]
  /\ collected = {}

shouldCollect(m) == m \in metricsToCollect

\* A goroutine for every node, and wg.Wait.
ForAllNodes(then) == mmPC' = then /\ nodeStep' = [n \in Nodes |-> "kill"]
NodesDone == \A n \in Nodes : nodeStep[n] = "done"

MetricFatal ==
  /\ mmPC' = "fatal"
  /\ UNCHANGED <<config, outputDir, startTime, nodeStep, attempts, runs, top, collected>>

(***************************************************************************)
(* Reset and the processes on the nodes                                    *)
(***************************************************************************)
StartReset ==
  /\ IF shouldCollect("top") THEN ForAllNodes("resetTop") ELSE mmPC' = "resetTop" /\ UNCHANGED nodeStep
  /\ UNCHANGED <<config, outputDir, startTime, attempts, runs, top, collected>>

KillTop(n) ==
  /\ nodeStep[n] = "kill" /\ mmPC # "fatal"
  /\ top' = IF top[n].until = Running THEN [top EXCEPT ![n].until = runs] ELSE top
  /\ nodeStep' = [nodeStep EXCEPT ![n] = IF mmPC = "resetTop" THEN "start" ELSE "copy"]
  /\ UNCHANGED <<config, outputDir, startTime, mmPC, attempts, runs, collected>>

StartTop(n) ==
  /\ nodeStep[n] = "start" /\ mmPC # "fatal"
  /\ top' = [top EXCEPT ![n] = [since |-> runs, until |-> Running]]
  /\ nodeStep' = [nodeStep EXCEPT ![n] = "done"]
  /\ UNCHANGED <<config, outputDir, startTime, mmPC, attempts, runs, collected>>

\* The time is set once only.
resetTime_Once == IF startTime = 0 THEN runs ELSE startTime

resetTime == runs

ResetDone ==
  /\ mmPC = "resetTop" /\ NodesDone
  /\ startTime' = resetTime
  /\ mmPC' = "idle"
  /\ UNCHANGED <<config, outputDir, nodeStep, attempts, runs, top, collected>>

(***************************************************************************)
(* CollectMetrics                                                          *)
(***************************************************************************)
StartCollect ==
  /\ IF shouldCollect("top") THEN ForAllNodes("top") ELSE mmPC' = "top" /\ UNCHANGED nodeStep
  /\ UNCHANGED <<config, outputDir, startTime, attempts, runs, top, collected>>

File(m, from, content) == [dir |-> outputDir, metric |-> m, from |-> from, runs |-> content]

CopyTop(n) ==
  /\ nodeStep[n] = "copy" /\ mmPC # "fatal"
  /\ collected' = collected \cup {File("top", n, top[n].since + 1 .. top[n].until)}
  /\ nodeStep' = [nodeStep EXCEPT ![n] = "done"]
  /\ UNCHANGED <<config, outputDir, startTime, mmPC, attempts, runs, top>>

TopCollected ==
  /\ mmPC = "top" /\ NodesDone
  /\ mmPC' = "autoscaler"
  /\ UNCHANGED <<config, outputDir, startTime, nodeStep, attempts, runs, top, collected>>

(* The lines of a pod's log that are newer than the last Reset.             *)
consolidateLogs == startTime + 1 .. runs

(* The log is looked for on ActivatorNode, whichever pod it is of.  scp may   *)
(* fail, and does if the log is not there.                                   *)
collectPodLogs(pod, then) ==
  /\ mmPC = pod
  /\ \/ ~shouldCollect(pod) /\ mmPC' = then /\ UNCHANGED collected
     \/ /\ shouldCollect(pod) /\ podNode[pod] = podNode["activator"]
        /\ collected' = collected \cup {File(pod, podNode[pod], consolidateLogs)}
        /\ mmPC' = then
     \/ shouldCollect(pod) /\ mmPC' = "fatal" /\ UNCHANGED collected
  /\ UNCHANGED <<config, outputDir, startTime, nodeStep, attempts, runs, top>>

collectPrometheusSnapshot ==
  /\ mmPC = "prometheus"
  /\ mmPC' = IF shouldCollect("prometheus") THEN "fetch" ELSE "idle"
  /\ attempts' = MaxAttempts
  /\ UNCHANGED <<config, outputDir, startTime, nodeStep, runs, top, collected>>

(* An attempt succeeds, has to be repeated, or has an answer that is no JSON. *)
fetchPrometheusSnapshot ==
  /\ mmPC = "fetch" /\ attempts > 0
  /\ \/ /\ mmPC' = "idle"
        /\ collected' = collected \cup {File("prometheus", "master", {})}
        /\ UNCHANGED attempts
     \/ /\ attempts' = attempts - 1
        /\ mmPC' = IF attempts = 1 THEN "fatal" ELSE "fetch"
        /\ UNCHANGED collected
     \/ mmPC' = "fatal" /\ UNCHANGED <<attempts, collected>>
  /\ UNCHANGED <<config, outputDir, startTime, nodeStep, runs, top>>

(* A remote command that fails, in any goroutine, ends the multi-loader.      *)
NodeFails ==
  /\ \E n \in Nodes : nodeStep[n] # "done"
  /\ mmPC # "fatal"
  /\ MetricFatal

ClearCollectedMetrics ==
  {f \in collected : f.dir # outputDir \/ ~shouldCollect(f.metric)}

MetricStep ==
  \/ \E n \in Nodes : KillTop(n) \/ StartTop(n) \/ CopyTop(n)
  \/ ResetDone \/ TopCollected \/ NodeFails
  \/ collectPodLogs("autoscaler", "activator") \/ collectPodLogs("activator", "prometheus")
  \/ collectPrometheusSnapshot \/ fetchPrometheusSnapshot
=============================================================================
