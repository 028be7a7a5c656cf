------------------------------ MODULE Lifecycle ------------------------------
(***************************************************************************)
(* Start-up and shutdown of the kube-vim process: main and ShutdownHandler *)
(* (cmd/kube-vim/main.go, internal/misc/shutdown.go), kubevimManager.Start *)
(* (internal/kubevim/manager.go) and the goroutines it runs: the cluster   *)
(* cache, NorthboundServer.Start (server/server.go), telemetry's Start     *)
(* (telemetry/manager.go) and the receiver of errCh.                       *)
(*                                                                         *)
(* The goroutines meet in two contexts, main's and the one Start derives   *)
(* from it, and in errCh, a channel of capacity 1 with up to three senders *)
(* and two receivers.                                                      *)
(***************************************************************************)
EXTENDS Naturals

CONSTANTS
    MaxRpcs,       \* bound: RPCs in progress at a time
    MaxFailures    \* bound: servers that fail by themselves

VARIABLES
    signalled,   \* SIGINT or SIGTERM has been delivered
    handler,     \* ShutdownHandler: "wait" or "done"
    mainCtx,     \* main's context is cancelled
    mgr,         \* kubevimManager.Start
    mgrCtx,      \* the context Start derives has been cancelled by itself
    synced,      \* the cache has synced
    cache,       \* cluster.Start
    nb,          \* nbServer.Start: its caller's view
    serve,       \* its goroutine that runs grpc's Serve
    stopper,     \* its goroutine that waits for ctx or for Serve's error
    metrics,     \* telemetryMgr.Start
    receiver,    \* the goroutine that receives from errCh and cancels
    errCh,       \* how many errors are in the channel
    rpcs,        \* RPC handlers in progress
    failures,
    exited

mainVars == <<signalled, handler, mainCtx, exited>>
startVars == <<mgr, mgrCtx, receiver>>
cacheVars == <<synced, cache>>
nbVars == <<nb, serve, stopper, rpcs>>
vars == <<mainVars, startVars, cacheVars, nbVars, metrics, errCh, failures>>

CtxDone == mainCtx \/ mgrCtx

\* make(chan error, 1)
ErrChCap == 1

(* Faulty variant: a channel without a buffer, on which a send succeeds    *)
(* only together with a goroutine that is receiving.                       *)
RoomUnbuffered == errCh = 0 /\ (receiver = "wait" \/ mgr = "select")

\* A send on errCh goes through.
Room == errCh < ErrChCap

ASSUME LifecycleAssumption == MaxRpcs \in Nat /\ MaxFailures \in Nat

TypeOK ==
    /\ signalled \in BOOLEAN /\ mainCtx \in BOOLEAN /\ mgrCtx \in BOOLEAN
    /\ synced \in BOOLEAN /\ exited \in BOOLEAN
    /\ handler \in {"wait", "done"}
    /\ mgr \in {"sync", "ensure", "select", "returned"}
    /\ cache \in {"run", "send", "done"}
    /\ nb \in {"off", "listen", "up", "send", "done"}
    /\ serve \in {"off", "run", "failed", "collected", "stopped"}
    /\ stopper \in {"off", "wait", "stopping", "done"}
    /\ metrics \in {"off", "serve", "send", "done"}
    /\ receiver \in {"off", "wait", "done"}
    /\ errCh \in 0..ErrChCap
    /\ rpcs \in 0..MaxRpcs /\ failures \in 0..MaxFailures

Init ==
    /\ signalled = FALSE /\ mainCtx = FALSE /\ mgrCtx = FALSE
    /\ synced = FALSE /\ exited = FALSE
    /\ handler = "wait" /\ mgr = "sync" /\ cache = "run"
    /\ nb = "off" /\ serve = "off" /\ stopper = "off"
    /\ metrics = "off" /\ receiver = "off"
    /\ errCh = 0 /\ rpcs = 0 /\ failures = 0

-----------------------------------------------------------------------------
(* main and ShutdownHandler *)

Signal ==
    /\ ~exited
    /\ ~signalled
    /\ signalled' = TRUE
    /\ UNCHANGED <<startVars, cacheVars, nbVars, handler, mainCtx, metrics,
                   errCh, failures, exited>>

ShutdownHandler ==
    /\ ~exited
    /\ handler = "wait"
    /\ mainCtx \/ signalled
    /\ handler' = "done"
    /\ mainCtx' = TRUE
    /\ UNCHANGED <<startVars, cacheVars, nbVars, signalled, metrics, errCh,
                   failures, exited>>

\* wg.Wait returns when ShutdownHandler and Start have; then os.Exit(0).
Exit ==
    /\ ~exited
    /\ handler = "done" /\ mgr = "returned"
    /\ exited' = TRUE
    /\ UNCHANGED <<startVars, cacheVars, nbVars, signalled, handler, mainCtx,
                   metrics, errCh, failures>>

-----------------------------------------------------------------------------
(* kubevimManager.Start *)

\* defer cancel()
Return == mgr' = "returned" /\ mgrCtx' = TRUE

\* Faulty variant: the result of the wait is not looked at.
WaitForCacheSyncIgnored ==
    /\ ~exited
    /\ mgr = "sync"
    /\ mgr' = "ensure" /\ mgrCtx' = mgrCtx
    /\ UNCHANGED <<mainVars, cacheVars, nbVars, metrics, receiver, errCh,
                   failures>>

WaitForCacheSync ==
    /\ ~exited
    /\ mgr = "sync"
    /\ \/ synced /\ mgr' = "ensure" /\ mgrCtx' = mgrCtx
       \/ CtxDone /\ Return
    /\ UNCHANGED <<mainVars, cacheVars, nbVars, metrics, receiver, errCh,
                   failures>>

(* EnsureManagementNetwork fails, also when the context is cancelled; when *)
(* it succeeds the servers are started (metrics unless disabled).          *)
EnsureManagementNetwork ==
    /\ ~exited
    /\ mgr = "ensure"
    /\ \/ /\ failures < MaxFailures /\ failures' = failures + 1
          /\ Return
          /\ UNCHANGED <<nb, metrics, receiver>>
       \/ /\ CtxDone
          /\ Return
          /\ UNCHANGED <<nb, metrics, receiver, failures>>
       \/ /\ mgr' = "select"
          /\ nb' = "listen"
          /\ metrics' \in {"serve", "done"}
          /\ receiver' = "wait"
          /\ UNCHANGED <<mgrCtx, failures>>
    /\ UNCHANGED <<mainVars, cacheVars, serve, stopper, errCh, rpcs>>

\* Faulty variant: Start waits for errors only.
SelectIgnoresCtx ==
    /\ ~exited
    /\ mgr = "select"
    /\ errCh > 0 /\ errCh' = errCh - 1
    /\ Return
    /\ UNCHANGED <<mainVars, cacheVars, nbVars, metrics, receiver, failures>>

Select ==
    /\ ~exited
    /\ mgr = "select"
    /\ \/ CtxDone /\ errCh' = errCh
       \/ errCh > 0 /\ errCh' = errCh - 1
    /\ Return
    /\ UNCHANGED <<mainVars, cacheVars, nbVars, metrics, receiver, failures>>

\* Faulty variant: the receiver reports the error and does not cancel.
ReceiverCancelsNot == mgrCtx

\* The receiver cancels the context Start derived.
ReceiverCancels == TRUE

Receive ==
    /\ ~exited
    /\ receiver = "wait" /\ errCh > 0
    /\ errCh' = errCh - 1
    /\ mgrCtx' = ReceiverCancels
    /\ receiver' = "done"
    /\ UNCHANGED <<mainVars, cacheVars, nbVars, mgr, metrics, failures>>

-----------------------------------------------------------------------------
(* The cluster cache *)

CacheSyncs ==
    /\ ~exited
    /\ cache = "run" /\ ~synced
    /\ synced' = TRUE
    /\ UNCHANGED <<mainVars, startVars, nbVars, cache, metrics, errCh,
                   failures>>

\* cluster.Start returns nil when its context is done, or an error.
CacheReturns ==
    /\ ~exited
    /\ cache = "run"
    /\ \/ CtxDone /\ cache' = "done" /\ failures' = failures
       \/ failures < MaxFailures /\ failures' = failures + 1 /\ cache' = "send"
    /\ UNCHANGED <<mainVars, startVars, nbVars, synced, metrics, errCh>>

CacheSend ==
    /\ ~exited
    /\ cache = "send" /\ Room
    /\ errCh' = errCh + 1
    /\ cache' = "done"
    /\ UNCHANGED <<mainVars, startVars, nbVars, synced, metrics, failures>>

-----------------------------------------------------------------------------
(* NorthboundServer.Start *)

Listen ==
    /\ ~exited
    /\ nb = "listen"
    /\ \/ /\ failures < MaxFailures /\ failures' = failures + 1
          /\ nb' = "send"
          /\ UNCHANGED <<serve, stopper>>
       \/ /\ nb' = "up" /\ serve' = "run" /\ stopper' = "wait"
          /\ failures' = failures
    /\ UNCHANGED <<mainVars, startVars, cacheVars, metrics, errCh, rpcs>>

\* Serve gives up and leaves its error in the server's own channel.
ServeFails ==
    /\ ~exited
    /\ serve = "run" /\ stopper # "stopping"
    /\ failures < MaxFailures /\ failures' = failures + 1
    /\ serve' = "failed"
    /\ UNCHANGED <<mainVars, startVars, cacheVars, nb, stopper, metrics,
                   errCh, rpcs>>

\* Either arm of the second goroutine: ctx.Done, or Serve's error.
StopperWakes ==
    /\ ~exited
    /\ stopper = "wait"
    /\ \/ CtxDone /\ stopper' = "stopping" /\ serve' = serve
       \/ serve = "failed" /\ serve' = "collected" /\ stopper' = "done"
    /\ UNCHANGED <<mainVars, startVars, cacheVars, nb, metrics, errCh, rpcs,
                   failures>>

\* GracefulStop returns, and Serve with it, when no RPC is in progress.
GracefulStop ==
    /\ ~exited
    /\ stopper = "stopping" /\ rpcs = 0
    /\ stopper' = "done"
    /\ serve' = IF serve = "run" THEN "stopped" ELSE serve
    /\ UNCHANGED <<mainVars, startVars, cacheVars, nb, metrics, errCh, rpcs,
                   failures>>

\* Faulty variant: Start waits for one of its goroutines, Serve's.
NbReturnsWithServe ==
    /\ ~exited
    /\ nb = "up" /\ serve \in {"failed", "collected", "stopped"}
    /\ nb' = "send"
    /\ UNCHANGED <<mainVars, startVars, cacheVars, serve, stopper, metrics,
                   errCh, rpcs, failures>>

\* wg.Wait; the error is Serve's or the context's, never nil.
NbReturns ==
    /\ ~exited
    /\ nb = "up" /\ stopper = "done" /\ serve \in {"failed", "collected", "stopped"}
    /\ nb' = "send"
    /\ UNCHANGED <<mainVars, startVars, cacheVars, serve, stopper, metrics,
                   errCh, rpcs, failures>>

NbSend ==
    /\ ~exited
    /\ nb = "send" /\ Room
    /\ errCh' = errCh + 1
    /\ nb' = "done"
    /\ UNCHANGED <<mainVars, startVars, cacheVars, serve, stopper, metrics,
                   rpcs, failures>>

(* Open connections are served until GracefulStop, also when Serve has     *)
(* failed: it only stops accepting.                                        *)
RpcStarts ==
    /\ ~exited
    /\ stopper = "wait" \/ serve = "collected"
    /\ rpcs < MaxRpcs
    /\ rpcs' = rpcs + 1
    /\ UNCHANGED <<mainVars, startVars, cacheVars, nb, serve, stopper,
                   metrics, errCh, failures>>

RpcEnds ==
    /\ ~exited
    /\ rpcs > 0
    /\ rpcs' = rpcs - 1
    /\ UNCHANGED <<mainVars, startVars, cacheVars, nb, serve, stopper,
                   metrics, errCh, failures>>

-----------------------------------------------------------------------------
(* telemetry.Manager.Start *)

\* ctx.Done: a shutdown bounded by a timeout, nil; or ListenAndServe's error.
MetricsReturns ==
    /\ ~exited
    /\ metrics = "serve"
    /\ \/ CtxDone /\ metrics' = "done" /\ failures' = failures
       \/ failures < MaxFailures /\ failures' = failures + 1 /\ metrics' = "send"
    /\ UNCHANGED <<mainVars, startVars, cacheVars, nbVars, errCh>>

MetricsSend ==
    /\ ~exited
    /\ metrics = "send" /\ Room
    /\ errCh' = errCh + 1
    /\ metrics' = "done"
    /\ UNCHANGED <<mainVars, startVars, cacheVars, nbVars, failures>>

-----------------------------------------------------------------------------

\* What the process's own goroutines do, without RPC handlers and failures.
Process == \/ ShutdownHandler \/ WaitForCacheSync \/ EnsureManagementNetwork
           \/ Select \/ Receive \/ CacheReturns \/ CacheSend \/ Listen
           \/ StopperWakes \/ GracefulStop \/ NbReturns \/ NbSend
           \/ MetricsReturns \/ MetricsSend

Next == \/ Process \/ Exit \/ Signal \/ CacheSyncs \/ ServeFails
        \/ RpcStarts \/ RpcEnds

Spec == Init /\ [][Next]_vars

(* Every goroutine runs on.  Nothing makes the cache sync, a client send,  *)
(* an RPC handler return or a signal arrive.                               *)
FairSpec ==
    /\ Spec
    /\ WF_vars(ShutdownHandler) /\ WF_vars(Exit)
    /\ WF_vars(WaitForCacheSync)
    /\ WF_vars(EnsureManagementNetwork)
    /\ WF_vars(Select) /\ WF_vars(Receive)
    /\ WF_vars(cache = "run" /\ CtxDone /\ CacheReturns)
    /\ WF_vars(CacheSend)
    /\ WF_vars(Listen) /\ WF_vars(StopperWakes)
    /\ WF_vars(GracefulStop) /\ WF_vars(NbReturns)
    /\ WF_vars(NbSend)
    /\ WF_vars(metrics = "serve" /\ CtxDone /\ MetricsReturns)
    /\ WF_vars(MetricsSend)

\* RPC handlers return, as every handler of KubeOvnNetwork does.
FairSpecRpcs == FairSpec /\ WF_vars(RpcEnds)

-----------------------------------------------------------------------------
(* Properties *)

(* "block until it has synced before serving, so managers never read from  *)
(* a cold cache": an RPC is handled only when the cache has synced and     *)
(* Start has gone past EnsureManagementNetwork, in every order in which    *)
(* failures, signals and returns can happen.                               *)
NoRpcOnColdCache ==
    rpcs > 0 => synced /\ mgr \in {"select", "returned"}

(* When NorthboundServer.Start returns, no RPC handler is running, also    *)
(* when Serve fails while the server is being stopped, or its error is     *)
(* there together with the cancelled context.  Only when the goroutine     *)
(* that calls GracefulStop has taken Serve's error instead, the server is  *)
(* not stopped and serves its open connections on.                         *)
StoppedMeansDrained ==
    nb \in {"send", "done"} /\ serve # "collected" => rpcs = 0

(* A signal ends the process, in whatever state it arrives: during the     *)
(* cache sync, with RPCs in progress, after any server has failed.         *)
SignalEndsProcess == signalled ~> exited

(* When a server has failed, gRPC is not served on as if nothing had       *)
(* happened: whichever goroutine gets the error from errCh, the goroutine  *)
(* that calls GracefulStop is woken in the end, and never waits again.     *)
FailureStopsServing ==
    (metrics = "send" \/ cache = "send") ~> [](stopper # "wait" \/ exited)

(* "Buffered to prevent goroutine leaks": a goroutine that has an error to *)
(* report gets rid of it, although Start may long have returned.  The      *)
(* cache is left out: when it fails too there are three senders, and two   *)
(* places to send to if Start returned because of its context.             *)
SendersFinish ==
    [](cache # "send") => /\ nb = "send" ~> nb = "done" \/ exited
                          /\ metrics = "send" ~> metrics = "done" \/ exited

(* "kube-vim manager will terminate" and "refuses to start": when Start    *)
(* has given up, the process ends.  main also waits for ShutdownHandler,   *)
(* which waits for a context only itself cancels.                          *)
FailureEndsProcess == mgr = "returned" ~> exited

=============================================================================
