---------------------------- MODULE MCLoadDriver ----------------------------
(***************************************************************************)
(* A small workload in every mode of the loader.                            *)
(***************************************************************************)
EXTENDS LoadDriver, TLC

CONSTANTS f1, f2, l1, l2, b1

Plain == [dag |-> FALSE, async |-> FALSE, test |-> FALSE, scrape |-> FALSE,
          platform |-> "knative", protocol |-> "grpc", dandelion |-> FALSE,
          count |-> (f1 :> 2 @@ f2 :> 1),
          root |-> (f1 :> l1 @@ f2 :> l2),
          nodes |-> (l1 :> <<{}>> @@ l2 :> <<{}>> @@ b1 :> <<>>)]

\* f1 is a DAG of three functions; f2 has nothing to invoke.  Its three records
\* make two batches when they are asynchronous.
Dag == [Plain EXCEPT !.dag = TRUE,
                     !.count = (f1 :> 1 @@ f2 :> 0),
                     !.nodes = (l1 :> <<{b1}, {}>> @@ l2 :> <<{}>> @@ b1 :> <<{}>>)]

\* Asynchronous responses are a mode of Dirigent, and Dandelion one of its backends.
Async(c) == [c EXCEPT !.async = TRUE, !.platform = "dirigent", !.protocol = "http1"]

MCConfigs == {
  Plain,
  [Plain EXCEPT !.scrape = TRUE, !.count = (f1 :> 1 @@ f2 :> 0)],
  [Dag EXCEPT !.platform = "azurefunctions"],
  [Async(Plain) EXCEPT !.count = (f1 :> 1 @@ f2 :> 1)],
  Async(Dag),
  [Async(Dag) EXCEPT !.dandelion = TRUE],
  [Async(Dag) EXCEPT !.protocol = "grpc"],
  [Plain EXCEPT !.test = TRUE, !.scrape = TRUE, !.count = (f1 :> 1 @@ f2 :> 0)],
  [Plain EXCEPT !.count = (f1 :> 0 @@ f2 :> 0), !.scrape = TRUE]}
=============================================================================
