------------------------------ MODULE Clients ------------------------------
(***************************************************************************)
(* The clients of the platforms (pkg/driver/clients): what Invoke returns    *)
(* for every way a request can end.  A result is "fail", "direct" (a success *)
(* whose record is complete) or "async" (a success whose record carries the  *)
(* ID under which Dirigent will give the response).                          *)
(*                                                                          *)
(* The AWS Lambda and OpenWhisk clients make their request with              *)
(* httpInvocation, which also reports to a WaitGroup: module                 *)
(* OpenWhiskInvoker.                                                         *)
(***************************************************************************)

\* How a request ends: not composed, not answered, answered with an error
\* status, cut off, answered with an empty or a malformed body, or answered.
Replies == {"noRequest", "noConnection", "badStatus", "unreadable", "empty", "garbled", "ok"}

(***************************************************************************)
(* httpInvoker.Invoke.  A body that cannot be deserialized only costs a      *)
(* warning.  In asynchronous mode the body, whatever it is, is the response  *)
(* ID; Dandelion answers at once in that mode too.                           *)
(***************************************************************************)
httpInvoke(r, async, dandelion) ==
  IF r \in {"noRequest", "noConnection", "badStatus", "unreadable", "empty"} THEN "fail"
  ELSE IF async /\ ~dandelion THEN "async" ELSE "direct"

\* grpcInvoker.Invoke with ExecutorRPC or SayHelloRPC: an empty message is a reply.
grpcInvoke(r) == IF r \in {"empty", "ok"} THEN "direct" ELSE "fail"

\* azureHttpInvocation and Invoke: the body is unmarshalled twice, and must be right.
azureInvoke(r) == IF r = "ok" THEN "direct" ELSE "fail"

\* httpInvocation: the body must be JSON encoded in base64.
httpInvocation(r) == r = "ok"

\* CreateInvoker: the client of a platform, and what it returns for a reply.
InvokeResult(platform, protocol, dandelion, async, r) ==
  CASE platform = "azurefunctions" -> azureInvoke(r)
    [] platform = "dirigent" /\ (dandelion \/ protocol # "grpc") -> httpInvoke(r, async, dandelion)
    [] platform = "dirigent" /\ ~dandelion /\ protocol = "grpc" -> grpcInvoke(r)
    [] platform = "knative" /\ protocol = "grpc" -> grpcInvoke(r)

\* The contexts of gRPC and the http.Client of httpInvoker end a request that
\* is not answered; azureHttpInvocation uses http.DefaultClient, which never does.
HasTimeout(platform) == platform # "azurefunctions"
=============================================================================
