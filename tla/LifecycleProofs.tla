-------------------------- MODULE LifecycleProofs --------------------------
(***************************************************************************)
(* Machine-checked proofs about Lifecycle, for any number of concurrent    *)
(* RPCs and any number of failing servers.                                 *)
(***************************************************************************)
EXTENDS Lifecycle, TLAPS

(* Start goes past the wait only with a synced cache, and it alone starts  *)
(* the northbound server, whose goroutines and RPC handlers come after it. *)
StartOrder ==
    /\ mgr \in {"ensure", "select"} => synced
    /\ nb # "off" => synced /\ mgr \in {"select", "returned"}
    /\ serve # "off" \/ stopper # "off" \/ rpcs > 0 => nb # "off"

(* The goroutines of the northbound server: there are none before it       *)
(* listens, the one that stops it has ended when its Start has returned,   *)
(* and handlers run only until GracefulStop has returned, or when it was   *)
(* never called.                                                           *)
StopOrder ==
    /\ nb \in {"off", "listen"} => stopper = "off"
    /\ nb \in {"send", "done"} => stopper \in {"off", "done"}
    /\ rpcs > 0 => stopper \in {"wait", "stopping"} \/ serve = "collected"

LifecycleInv == TypeOK /\ StartOrder /\ StopOrder

\* Before any goroutine has run nothing serves.
LEMMA StartsInOrder == Init => LifecycleInv
<1> SUFFICES ASSUME Init PROVE LifecycleInv
  OBVIOUS
<1>1. errCh \in 0..ErrChCap /\ rpcs \in 0..MaxRpcs /\ failures \in 0..MaxFailures
  BY LifecycleAssumption DEF Init, ErrChCap
<1>2. TypeOK
  BY <1>1, Zenon DEF Init, TypeOK
<1>3. StartOrder
  BY DEF Init, StartOrder
<1>4. StopOrder
  BY DEF Init, StopOrder
<1> QED BY <1>2, <1>3, <1>4 DEF LifecycleInv

-----------------------------------------------------------------------------
(* One lemma per part of the process *)

\* main and ShutdownHandler touch neither Start nor the servers.
LEMMA MainKeeps ==
    ASSUME LifecycleInv, Signal \/ ShutdownHandler \/ Exit
    PROVE  LifecycleInv'
<1>1. TypeOK'
  <2>1. signalled' \in BOOLEAN /\ mainCtx' \in BOOLEAN /\ exited' \in BOOLEAN
    BY Zenon DEF LifecycleInv, TypeOK, Signal, ShutdownHandler, Exit
  <2>2. handler' \in {"wait", "done"}
    BY DEF LifecycleInv, TypeOK, Signal, ShutdownHandler, Exit
  <2> QED BY <2>1, <2>2 DEF LifecycleInv, TypeOK, Signal, ShutdownHandler, Exit,
             startVars, cacheVars, nbVars
<1>2. StartOrder'
  BY DEF LifecycleInv, StartOrder, Signal, ShutdownHandler, Exit, startVars,
     cacheVars, nbVars
<1>3. StopOrder'
  BY DEF LifecycleInv, StopOrder, Signal, ShutdownHandler, Exit, nbVars
<1> QED BY <1>1, <1>2, <1>3 DEF LifecycleInv

\* Start waits for the cache before it starts the servers, and cancels last.
LEMMA StartKeeps ==
    ASSUME LifecycleInv,
           \/ WaitForCacheSync \/ EnsureManagementNetwork
           \/ Select \/ Receive
    PROVE  LifecycleInv'
<1> USE LifecycleAssumption DEF LifecycleInv, TypeOK, StartOrder, StopOrder,
        Return, mainVars, cacheVars, nbVars, Room, ErrChCap
<1>1. CASE WaitForCacheSync
  BY <1>1 DEF WaitForCacheSync
<1>2. CASE EnsureManagementNetwork
  <2>1. mgrCtx' \in BOOLEAN
    BY <1>2, Zenon DEF EnsureManagementNetwork
  <2>2. /\ mgr = "ensure" /\ mgr' \in {"select", "returned"}
        /\ mgr' = "returned" => UNCHANGED <<nb, metrics, receiver>>
        /\ mgr' = "select" => /\ nb' = "listen" /\ receiver' = "wait"
                             /\ metrics' \in {"serve", "done"}
        /\ failures' \in 0..MaxFailures
    BY <1>2 DEF EnsureManagementNetwork
  <2>3. UNCHANGED <<mainVars, cacheVars, serve, stopper, errCh, rpcs>>
    BY <1>2 DEF EnsureManagementNetwork
  <2> QED BY <2>1, <2>2, <2>3
<1>3. CASE Select
  BY <1>3 DEF Select
<1>4. CASE Receive
  <2>1. mgrCtx' \in BOOLEAN
    BY <1>4, Zenon DEF Receive, ReceiverCancels
  <2> QED BY <1>4, <2>1 DEF Receive
<1> QED BY <1>1, <1>2, <1>3, <1>4

\* A cache that has synced stays synced, also when it has failed.
LEMMA CacheKeeps ==
    ASSUME LifecycleInv, CacheSyncs \/ CacheReturns \/ CacheSend
    PROVE  LifecycleInv'
<1>1. CASE CacheSyncs
  <2>1. synced' \in BOOLEAN /\ synced'
    BY <1>1, Zenon DEF CacheSyncs
  <2> QED BY <1>1, <2>1 DEF CacheSyncs, LifecycleInv, TypeOK, StartOrder, StopOrder,
             mainVars, startVars, nbVars
<1>2. CASE CacheReturns \/ CacheSend
  BY <1>2, LifecycleAssumption DEF LifecycleInv, TypeOK, StartOrder, StopOrder,
     CacheReturns, CacheSend, mainVars, startVars, nbVars, Room, ErrChCap
<1> QED BY <1>1, <1>2

\* The northbound server runs its goroutines only once it listens.
LEMMA NorthboundKeeps ==
    ASSUME LifecycleInv,
           \/ Listen \/ ServeFails \/ StopperWakes \/ GracefulStop
           \/ NbReturns \/ NbSend \/ RpcStarts \/ RpcEnds
    PROVE  LifecycleInv'
<1> USE LifecycleAssumption DEF LifecycleInv, TypeOK, StartOrder, StopOrder,
        mainVars, startVars, cacheVars, Room, ErrChCap
<1>1. CASE Listen
  BY <1>1 DEF Listen
<1>2. CASE ServeFails
  BY <1>2 DEF ServeFails
<1>3. CASE StopperWakes
  BY <1>3 DEF StopperWakes
<1>4. CASE GracefulStop
  BY <1>4 DEF GracefulStop
<1>5. CASE NbReturns
  BY <1>5 DEF NbReturns
<1>6. CASE NbSend
  BY <1>6 DEF NbSend
<1>7. CASE RpcStarts
  BY <1>7 DEF RpcStarts
<1>8. CASE RpcEnds
  BY <1>8 DEF RpcEnds
<1> QED BY <1>1, <1>2, <1>3, <1>4, <1>5, <1>6, <1>7, <1>8

\* The metrics server shares only errCh with the others.
LEMMA MetricsKeeps ==
    ASSUME LifecycleInv, MetricsReturns \/ MetricsSend
    PROVE  LifecycleInv'
BY LifecycleAssumption DEF LifecycleInv, TypeOK, StartOrder, StopOrder, MetricsReturns,
   MetricsSend, mainVars, startVars, cacheVars, nbVars, Room, ErrChCap

-----------------------------------------------------------------------------

(* The types of Lifecycle and the order of its start are inductive: errCh  *)
(* never holds more than it can buffer, in whatever order its three        *)
(* senders and two receivers run.                                          *)
LEMMA LifecycleInvariant == Spec => []LifecycleInv
<1>1. LifecycleInv /\ [Next]_vars => LifecycleInv'
  <2> SUFFICES ASSUME LifecycleInv, [Next]_vars PROVE LifecycleInv'
    OBVIOUS
  <2>1. CASE Next
    BY <2>1, MainKeeps, StartKeeps, CacheKeeps, NorthboundKeeps, MetricsKeeps
       DEF Next, Process
  <2>2. CASE UNCHANGED vars
    BY <2>2 DEF vars, mainVars, startVars, cacheVars, nbVars, LifecycleInv,
       TypeOK, StartOrder, StopOrder
  <2> QED BY <2>1, <2>2
<1> QED BY <1>1, StartsInOrder, PTL DEF Spec

\* No goroutine leaves its states and errCh never exceeds its capacity.
THEOREM LifecycleTypes == Spec => []TypeOK
BY LifecycleInvariant, PTL DEF LifecycleInv

(* kubevimManager.Start: no RPC handler ever reads from a cache that has   *)
(* not synced, nor runs before the management network has been ensured,    *)
(* however failures, signals and returns interleave.                       *)
THEOREM ServedFromWarmCache == Spec => []NoRpcOnColdCache
<1>1. StartOrder => NoRpcOnColdCache
  BY DEF StartOrder, NoRpcOnColdCache
<1> QED BY <1>1, LifecycleInvariant, PTL DEF LifecycleInv

(* NorthboundServer.Start: once it has returned, no RPC handler is         *)
(* running, unless it returned because Serve failed by itself, however     *)
(* cancellation, Serve's error and the end of the handlers interleave.     *)
THEOREM ReturnedAfterDraining == Spec => []StoppedMeansDrained
<1>1. TypeOK /\ StopOrder => StoppedMeansDrained
  BY DEF TypeOK, StopOrder, StoppedMeansDrained
<1> QED BY <1>1, LifecycleInvariant, PTL DEF LifecycleInv

=============================================================================
