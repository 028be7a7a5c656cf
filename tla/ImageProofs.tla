---------------------------- MODULE ImageProofs ----------------------------
(***************************************************************************)
(* Machine-checked proofs about Image, for any set of requests, any set of *)
(* names and any number of faults.                                         *)
(***************************************************************************)
EXTENDS Image, TLAPS

-----------------------------------------------------------------------------
(* The inductive invariant *)

\* The request past its first Create, and not past the matching Delete.
HasVis == {"class", "dv", "label", "clean_vis", "clean_both"}
HasDv == {"label", "clean_both", "clean_dv"}

\* A running request knows its name; a request has an answer when it ends.
Phase ==
    \A r \in Requests :
        /\ req[r].pc \notin {"idle", "done"} => req[r].name \in Names
        /\ req[r].res # "none" => req[r].pc = "done"
        /\ req[r].res = "ok" => req[r].name \in Names
        /\ req[r].pc \in HasVis \union HasDv => ~req[r].lazy

\* Objects come from the request that is their UID, under its name.
Origin ==
    \A r \in Requests, n \in Names :
        /\ vis[n] # None /\ vis[n].uid = r
             => req[r].name = n /\ req[r].pc \notin {"idle", "vis"}
        /\ dv[n] = r
             => req[r].name = n /\ req[r].pc \notin {"idle", "vis", "class", "dv"}

\* While a request works on its objects, nobody else has removed them.
Owner ==
    \A r \in Requests :
        /\ req[r].pc \in HasVis =>
             vis[req[r].name] # None /\ vis[req[r].name].uid = r
        /\ req[r].pc \in HasDv => dv[req[r].name] = r

(* What a request that is going to fail has left, if there was no fault:   *)
(* the cleanup of the VolumeImportSource alone may overlook a DataVolume   *)
(* that was created for a client that had gone, and nothing else.          *)
Leftovers ==
    faults = 0 => \A r \in Requests, n \in Names :
        /\ req[r].pc = "clean_vis" /\ dv[n] = r => cut[r] = "dv"
        /\ req[r].pc = "clean_dv" => (vis[n] # None => vis[n].uid # r)

ImageInv == /\ TypeOK /\ Phase /\ Origin /\ Owner /\ Leftovers
            /\ DownloadedStays /\ FailedLeavesNothing

-----------------------------------------------------------------------------
(* What the helpers do to a request and to the count of faults *)

\* Going on changes the pc of one request.
LEMMA GoFacts ==
    ASSUME TypeOK, NEW r \in Requests, NEW pc \in Pcs, Go(r, pc)
    PROVE  /\ req' \in [Requests -> ReqRec]
           /\ \A p \in Requests \ {r} : req'[p] = req[p]
           /\ req'[r].pc = pc /\ req'[r].name = req[r].name
           /\ req'[r].lazy = req[r].lazy /\ req'[r].res = req[r].res
<1>1. req \in [Requests -> ReqRec] /\ req[r] \in ReqRec
  BY DEF TypeOK
<1>2. [req[r] EXCEPT !.pc = pc] \in ReqRec
  BY <1>1, Zenon DEF ReqRec
<1>3. req' = [req EXCEPT ![r] = [req[r] EXCEPT !.pc = pc]]
  BY <1>1 DEF Go
<1> QED BY <1>1, <1>2, <1>3 DEF ReqRec

\* Returning ends one request with an answer.
LEMMA FinishFacts ==
    ASSUME TypeOK, NEW r \in Requests, NEW res \in {"ok", "err"}, Finish(r, res)
    PROVE  /\ req' \in [Requests -> ReqRec]
           /\ \A p \in Requests \ {r} : req'[p] = req[p]
           /\ req'[r].pc = "done" /\ req'[r].name = req[r].name
           /\ req'[r].lazy = req[r].lazy /\ req'[r].res = res
<1>1. req \in [Requests -> ReqRec] /\ req[r] \in ReqRec
  BY DEF TypeOK
<1>2. [req[r] EXCEPT !.pc = "done", !.res = res, !.cancelled = FALSE] \in ReqRec
  BY <1>1, Zenon DEF ReqRec, Pcs
<1>3. req' = [req EXCEPT ![r] =
                [req[r] EXCEPT !.pc = "done", !.res = res, !.cancelled = FALSE]]
  BY <1>1 DEF Finish
<1> QED BY <1>1, <1>2, <1>3 DEF ReqRec

\* Only failures and lost replies are counted.
LEMMA ChargeFacts ==
    ASSUME TypeOK, NEW out, Charge(out)
    PROVE  /\ faults' \in 0..MaxFaults
           /\ faults' = 0 => faults = 0 /\ out \notin {"fail", "lost"}
BY ImageAssumption DEF TypeOK, Charge

\* Only a Create that is applied late is recorded.
LEMMA CutFacts ==
    ASSUME TypeOK, NEW r \in Requests, NEW kind \in {"vis", "dv"}, NEW out,
           Cut(r, kind, out)
    PROVE  /\ cut' \in [Requests -> {"none", "vis", "dv"}]
           /\ \A p \in Requests \ {r} : cut'[p] = cut[p]
           /\ IF out = "late" THEN cut'[r] = kind ELSE cut' = cut
BY DEF TypeOK, Cut

-----------------------------------------------------------------------------
(* Every step keeps the invariant *)

\* The initial state satisfies the invariant.
LEMMA InitInv == Init => ImageInv
<1> SUFFICES ASSUME Init PROVE ImageInv
  OBVIOUS
<1>1. Idle \in ReqRec
  BY DEF Idle, ReqRec, Pcs
<1>2. TypeOK
  BY <1>1, ImageAssumption DEF TypeOK, Init
<1>3. Idle.pc = "idle" /\ Idle.res = "none"
  BY DEF Idle
<1>4. \A r \in Requests : req[r].pc = "idle" /\ req[r].res = "none"
  BY <1>3 DEF Init
<1>5. Phase /\ Owner
  BY <1>4 DEF Phase, Owner, HasVis, HasDv
<1>6. Origin /\ Leftovers
  BY <1>4, ImageAssumption DEF Origin, Leftovers, Init
<1>7. DownloadedStays /\ FailedLeavesNothing
  BY <1>4 DEF DownloadedStays, FailedLeavesNothing
<1> QED BY <1>2, <1>5, <1>6, <1>7 DEF ImageInv

(* The rest of the invariant for a step of one request r that leaves the   *)
(* objects alone: it starts, it ends before it owns anything, or it goes   *)
(* from one step to the next.                                              *)
LEMMA RequestMoves ==
    ASSUME ImageInv, TypeOK', NEW r \in Requests, UNCHANGED <<vis, dv, cut>>,
           faults' = 0 => faults = 0,
           \A p \in Requests \ {r} : req'[p] = req[p],
           \/ /\ req[r].pc = "idle" /\ req'[r].pc = "vis"
              /\ req'[r].name \in Names /\ req'[r].res = "none"
           \/ /\ req[r].pc \in {"idle", "vis"} /\ req'[r].pc = "done"
              /\ req'[r].res = "err"
           \/ /\ <<req[r].pc, req'[r].pc>> \in {<<"class", "dv">>,
                    <<"class", "clean_vis">>, <<"dv", "clean_vis">>,
                    <<"label", "clean_both">>}
              /\ req'[r].name = req[r].name /\ req'[r].res = req[r].res
              /\ req'[r].lazy = req[r].lazy
    PROVE  ImageInv'
<1> USE DEF HasVis, HasDv
<1>1. Phase'
  BY DEF ImageInv, Phase
<1>2. Origin'
  BY DEF ImageInv, Origin
<1>3. Owner'
  BY DEF ImageInv, Owner
<1>4. Leftovers'
  BY DEF ImageInv, Leftovers, Origin
<1>5. DownloadedStays'
  BY DEF ImageInv, DownloadedStays, Phase
<1>6. FailedLeavesNothing'
  BY DEF ImageInv, FailedLeavesNothing, Origin, Phase
<1> QED BY <1>1, <1>2, <1>3, <1>4, <1>5, <1>6 DEF ImageInv

\* A download is called.
LEMMA CallDownloadInv ==
    ASSUME ImageInv, NEW r \in Requests, NEW n \in Names, NEW lazy \in BOOLEAN,
           CallDownload(r, n, lazy)
    PROVE  ImageInv'
<1> DEFINE q == [req[r] EXCEPT !.pc = "vis", !.name = n, !.lazy = lazy]
<1>1. req \in [Requests -> ReqRec] /\ req[r] \in ReqRec /\ req[r].pc = "idle"
  BY DEF ImageInv, TypeOK, CallDownload
<1>2. q \in ReqRec
  BY <1>1, Zenon DEF ReqRec, Pcs
<1>3. req' = [req EXCEPT ![r] = q]
  BY <1>1 DEF CallDownload
<1>4. req'[r].pc = "vis" /\ req'[r].name = n /\ req'[r].res = req[r].res
  BY <1>1, <1>3 DEF ReqRec
<1>5. TypeOK'
  BY <1>1, <1>2, <1>3 DEF ImageInv, TypeOK, CallDownload, objects, caches, history
<1>6. req[r].res = "none"
  BY <1>1 DEF ImageInv, Phase
<1> QED BY <1>1, <1>3, <1>4, <1>5, <1>6, RequestMoves
    DEF CallDownload, objects, history

\* A download is refused at once.
LEMMA RejectInv ==
    ASSUME ImageInv, NEW r \in Requests, Reject(r)
    PROVE  ImageInv'
<1>1. /\ req' \in [Requests -> ReqRec] /\ req'[r].pc = "done"
      /\ req'[r].res = "err" /\ \A p \in Requests \ {r} : req'[p] = req[p]
  BY FinishFacts DEF ImageInv, Reject
<1>2. TypeOK'
  BY <1>1 DEF ImageInv, TypeOK, Reject, objects, caches, history
<1> QED BY <1>1, <1>2, RequestMoves DEF Reject, objects, history

\* The Create of the VolumeImportSource.
LEMMA CreateVisInv ==
    ASSUME ImageInv, NEW r \in Requests, CreateVis(r)
    PROVE  ImageInv'
<1> USE DEF HasVis, HasDv
<1> DEFINE n == req[r].name
<1>0. TypeOK /\ n \in Names /\ req[r].pc = "vis" /\ req[r].res = "none"
  BY DEF ImageInv, TypeOK, CreateVis, Phase
<1>1. CASE /\ UNCHANGED <<vis, cut>> /\ VisRefused(r)
           /\ faults' \in 0..MaxFaults /\ (faults' = 0 => faults = 0)
  <2>1. /\ req' \in [Requests -> ReqRec] /\ req'[r].pc = "done"
        /\ req'[r].res = "err" /\ \A p \in Requests \ {r} : req'[p] = req[p]
    BY <1>0, <1>1, FinishFacts DEF VisRefused
  <2>2. TypeOK'
    BY <1>0, <1>1, <2>1 DEF TypeOK, CreateVis, caches
  <2> QED BY <1>0, <1>1, <2>1, <2>2, RequestMoves DEF CreateVis
<1>2. ASSUME vis[n] = None, NEW out \in {"ok", "lost", "late"}, Charge(out),
             Cut(r, "vis", out),
             vis' = [vis EXCEPT ![n] = [uid |-> r, dv |-> None]],
             IF out # "ok" THEN VisRefused(r)
             ELSE IF req[r].lazy THEN Finish(r, "ok") ELSE Go(r, "class")
      PROVE  ImageInv'
  <2>1. /\ req' \in [Requests -> ReqRec]
        /\ \A p \in Requests \ {r} : req'[p] = req[p]
        /\ req'[r].name = n /\ req'[r].lazy = req[r].lazy
        /\ \/ out # "ok" /\ req'[r].pc = "done" /\ req'[r].res = "err"
           \/ out = "ok" /\ req[r].lazy /\ req'[r].pc = "done" /\ req'[r].res = "ok"
           \/ out = "ok" /\ ~req[r].lazy /\ req'[r].pc = "class" /\ req'[r].res = "none"
    BY <1>0, <1>2, FinishFacts, GoFacts DEF VisRefused, Pcs
  <2>2. faults' \in 0..MaxFaults /\ (faults' = 0 => faults = 0 /\ out # "lost")
    BY <1>0, <1>2, ChargeFacts
  <2>c. /\ cut' \in [Requests -> {"none", "vis", "dv"}]
        /\ \A p \in Requests \ {r} : cut'[p] = cut[p]
        /\ IF out = "late" THEN cut'[r] = "vis" ELSE cut' = cut
    BY <1>0, <1>2, CutFacts
  <2>3. [uid |-> r, dv |-> None] \in VisObj /\ [uid |-> r, dv |-> None] # None
    BY ImageAssumption DEF VisObj
  <2>4. vis'[n] # None /\ vis'[n].uid = r /\ \A m \in Names \ {n} : vis'[m] = vis[m]
    BY <1>0, <1>2, <2>3 DEF TypeOK
  <2>5. TypeOK'
    BY <1>0, <1>2, <2>1, <2>2, <2>3, <2>c DEF TypeOK, CreateVis, caches
  <2>6. dv' = dv
    BY DEF CreateVis
  <2>7. Phase'
    BY <1>0, <2>1 DEF ImageInv, Phase
  <2>8. Origin'
    BY <1>0, <2>1, <2>4, <2>6 DEF ImageInv, Origin
  <2>9. Owner'
    BY <1>0, <1>2, <2>1, <2>4, <2>6 DEF ImageInv, Owner
  <2>10. Leftovers'
    BY <1>0, <2>1, <2>2, <2>4, <2>6, <2>c DEF ImageInv, Leftovers
  <2>11. DownloadedStays'
    BY <1>0, <1>2, <2>1, <2>4, <2>6 DEF ImageInv, DownloadedStays
  <2>12. FailedLeavesNothing'
    BY <1>0, <2>1, <2>2, <2>4, <2>6, <2>c DEF ImageInv, FailedLeavesNothing, Origin
  <2> QED BY <2>5, <2>7, <2>8, <2>9, <2>10, <2>11, <2>12 DEF ImageInv
<1>3. CASE vis[n] # None /\ VisRefused(r) /\ UNCHANGED <<vis, history>>
  BY <1>0, <1>1, <1>3 DEF TypeOK, history
<1>4. ASSUME vis[n] = None, NEW out \in Outcomes(req[r].cancelled), Charge(out),
             Cut(r, "vis", out),
             vis' = IF Applied(out) THEN [vis EXCEPT ![n] = [uid |-> r, dv |-> None]]
                    ELSE vis,
             IF out # "ok" THEN VisRefused(r)
             ELSE IF req[r].lazy THEN Finish(r, "ok") ELSE Go(r, "class")
      PROVE  ImageInv'
  <2>1. CASE out \in {"ok", "lost", "late"}
    BY <1>2, <1>4, <2>1 DEF Applied
  <2>2. CASE out \notin {"ok", "lost", "late"}
    BY <1>0, <1>1, <1>4, <2>2, ChargeFacts, CutFacts DEF Applied
  <2> QED BY <2>1, <2>2
<1> QED BY <1>3, <1>4 DEF CreateVis

\* The lookup of the storage class.
LEMMA GetStorageClassInv ==
    ASSUME ImageInv, NEW r \in Requests, GetStorageClass(r)
    PROVE  ImageInv'
<1>1. PICK pc \in {"dv", "clean_vis"} : Go(r, pc)
  BY DEF GetStorageClass
<1>2. /\ req' \in [Requests -> ReqRec] /\ req'[r].pc = pc
      /\ req'[r].name = req[r].name /\ req'[r].lazy = req[r].lazy
      /\ req'[r].res = req[r].res /\ \A p \in Requests \ {r} : req'[p] = req[p]
  BY <1>1, GoFacts DEF ImageInv, Pcs
<1>3. TypeOK'
  BY <1>2 DEF ImageInv, TypeOK, GetStorageClass, objects, caches, history
<1> QED BY <1>2, <1>3, RequestMoves DEF GetStorageClass, objects, history

\* The Create of the DataVolume.
LEMMA CreateDvInv ==
    ASSUME ImageInv, NEW r \in Requests, CreateDv(r)
    PROVE  ImageInv'
<1> USE DEF HasVis, HasDv
<1> DEFINE n == req[r].name
<1>0. TypeOK /\ n \in Names /\ req[r].pc = "dv" /\ req[r].res = "none" /\ ~req[r].lazy
  BY DEF ImageInv, TypeOK, CreateDv, Phase
<1>1. ASSUME UNCHANGED <<dv, cut>>, Go(r, "clean_vis"), faults' \in 0..MaxFaults,
             faults' = 0 => faults = 0
      PROVE  ImageInv'
  <2>1. /\ req' \in [Requests -> ReqRec] /\ req'[r].pc = "clean_vis"
        /\ req'[r].name = n /\ req'[r].lazy = req[r].lazy
        /\ req'[r].res = req[r].res /\ \A p \in Requests \ {r} : req'[p] = req[p]
    BY <1>0, <1>1, GoFacts DEF Pcs
  <2>2. TypeOK'
    BY <1>0, <1>1, <2>1 DEF TypeOK, CreateDv, caches
  <2> QED BY <1>0, <1>1, <2>1, <2>2, RequestMoves DEF CreateDv
<1>2. ASSUME dv[n] = None, NEW out \in {"ok", "lost", "late"}, Charge(out),
             Cut(r, "dv", out),
             dv' = [dv EXCEPT ![n] = r],
             Go(r, IF out = "ok" THEN "label" ELSE "clean_vis")
      PROVE  ImageInv'
  <2>1. /\ req' \in [Requests -> ReqRec]
        /\ \A p \in Requests \ {r} : req'[p] = req[p]
        /\ req'[r].name = n /\ req'[r].lazy = req[r].lazy
        /\ req'[r].pc = IF out = "ok" THEN "label" ELSE "clean_vis"
        /\ req'[r].res = "none"
    BY <1>0, <1>2, GoFacts DEF Pcs
  <2>2. faults' \in 0..MaxFaults /\ (faults' = 0 => faults = 0 /\ out # "lost")
    BY <1>0, <1>2, ChargeFacts
  <2>c. /\ cut' \in [Requests -> {"none", "vis", "dv"}]
        /\ \A p \in Requests \ {r} : cut'[p] = cut[p]
        /\ IF out = "late" THEN cut'[r] = "dv" ELSE cut' = cut
    BY <1>0, <1>2, CutFacts
  <2>3. dv'[n] = r /\ (\A m \in Names \ {n} : dv'[m] = dv[m]) /\ vis' = vis
    BY <1>0, <1>2 DEF TypeOK, CreateDv
  <2>4. None \notin Requests
    BY ImageAssumption
  <2>5. TypeOK'
    BY <1>0, <1>2, <2>1, <2>2, <2>3, <2>c DEF TypeOK, CreateDv, caches
  <2>6. Phase'
    BY <1>0, <2>1 DEF ImageInv, Phase
  <2>7. Origin'
    BY <1>0, <2>1, <2>3 DEF ImageInv, Origin
  <2>8. Owner'
    BY <1>0, <1>2, <2>1, <2>3, <2>4 DEF ImageInv, Owner
  <2>9. Leftovers'
    BY <1>0, <2>1, <2>2, <2>3, <2>c DEF ImageInv, Leftovers
  <2>10. DownloadedStays'
    BY <1>0, <1>2, <2>1, <2>3, <2>4 DEF ImageInv, DownloadedStays
  <2>11. FailedLeavesNothing'
    BY <1>0, <2>1, <2>2, <2>3, <2>c DEF ImageInv, FailedLeavesNothing
  <2> QED BY <2>5, <2>6, <2>7, <2>8, <2>9, <2>10, <2>11 DEF ImageInv
<1>3. CASE dv[n] # None /\ DvExists(r) /\ UNCHANGED <<dv, history>>
  BY <1>0, <1>1, <1>3 DEF TypeOK, DvExists, history
<1>4. ASSUME dv[n] = None, NEW out \in Outcomes(req[r].cancelled), Charge(out),
             Cut(r, "dv", out),
             dv' = IF Applied(out) THEN [dv EXCEPT ![n] = r] ELSE dv,
             Go(r, IF out = "ok" THEN "label" ELSE "clean_vis")
      PROVE  ImageInv'
  <2>1. CASE out \in {"ok", "lost", "late"}
    BY <1>2, <1>4, <2>1 DEF Applied
  <2>2. CASE out \notin {"ok", "lost", "late"}
    BY <1>0, <1>1, <1>4, <2>2, ChargeFacts, CutFacts DEF Applied
  <2> QED BY <2>1, <2>2
<1> QED BY <1>3, <1>4 DEF CreateDv

\* The label: the VolumeImportSource is still there and still one's own.
LEMMA PatchVisInv ==
    ASSUME ImageInv, NEW r \in Requests, PatchVis(r)
    PROVE  ImageInv'
<1> USE DEF HasVis, HasDv
<1> DEFINE n == req[r].name
<1>0. /\ TypeOK /\ n \in Names /\ req[r].pc = "label" /\ req[r].res = "none"
      /\ ~req[r].lazy /\ vis[n] # None /\ vis[n].uid = r /\ dv[n] = r
  BY DEF ImageInv, TypeOK, PatchVis, Phase, Owner
<1>1. PICK out \in Outcomes(req[r].cancelled) :
          /\ Charge(out)
          /\ vis' = IF Applied(out) THEN [vis EXCEPT ![n].dv = r] ELSE vis
          /\ IF out = "ok" THEN Finish(r, "ok") ELSE Go(r, "clean_both")
  BY <1>0 DEF PatchVis, DvLabel
<1>2. /\ req' \in [Requests -> ReqRec]
      /\ \A p \in Requests \ {r} : req'[p] = req[p]
      /\ req'[r].name = n /\ ~req'[r].lazy
      /\ IF out = "ok" THEN req'[r].pc = "done" /\ req'[r].res = "ok"
         ELSE req'[r].pc = "clean_both" /\ req'[r].res = "none"
  BY <1>0, <1>1, FinishFacts, GoFacts DEF Pcs
<1>3. faults' \in 0..MaxFaults /\ (faults' = 0 => faults = 0)
  BY <1>0, <1>1, ChargeFacts
<1>4. /\ vis' \in [Names -> VisObj \union {None}]
      /\ vis'[n] # None /\ vis'[n].uid = r
      /\ out = "ok" => vis'[n].dv = r
      /\ \A m \in Names \ {n} : vis'[m] = vis[m]
  <2>1. vis[n] \in VisObj
    BY <1>0 DEF TypeOK
  <2> DEFINE new == [vis[n] EXCEPT !.dv = r]
  <2>2. new \in VisObj /\ new.uid = r /\ new.dv = r
    BY <1>0, <2>1 DEF VisObj
  <2>3. new # None
    BY <2>2, ImageAssumption
  <2>4. CASE Applied(out)
    <3>1. vis' = [vis EXCEPT ![n] = new]
      BY <1>0, <1>1, <2>4 DEF TypeOK
    <3> QED BY <1>0, <2>2, <2>3, <3>1 DEF TypeOK
  <2>5. CASE ~Applied(out)
    BY <1>0, <1>1, <2>5 DEF TypeOK, Applied
  <2> QED BY <2>4, <2>5
<1>5. UNCHANGED <<dv, caches, cut>>
  BY DEF PatchVis
<1>6. TypeOK'
  BY <1>0, <1>2, <1>3, <1>4, <1>5 DEF TypeOK, caches
<1>7. Phase'
  BY <1>0, <1>2 DEF ImageInv, Phase
<1>8. Origin'
  BY <1>0, <1>2, <1>4, <1>5 DEF ImageInv, Origin
<1>9. Owner'
  BY <1>0, <1>2, <1>4, <1>5 DEF ImageInv, Owner, Phase
<1>10. Leftovers'
  BY <1>0, <1>2, <1>3, <1>4, <1>5 DEF ImageInv, Leftovers
<1>11. DownloadedStays'
  BY <1>0, <1>2, <1>4, <1>5 DEF ImageInv, DownloadedStays, Phase
<1>12. FailedLeavesNothing'
  BY <1>0, <1>2, <1>3, <1>4, <1>5 DEF ImageInv, FailedLeavesNothing
<1> QED BY <1>6, <1>7, <1>8, <1>9, <1>10, <1>11, <1>12 DEF ImageInv

\* The cleanup deletes a VolumeImportSource that is one's own.
LEMMA CleanupVisInv ==
    ASSUME ImageInv, NEW r \in Requests, CleanupVis(r)
    PROVE  ImageInv'
<1> USE DEF HasVis, HasDv
<1> DEFINE n == req[r].name
<1>0. /\ TypeOK /\ n \in Names /\ req[r].pc \in {"clean_vis", "clean_both"}
      /\ req[r].res = "none" /\ ~req[r].lazy /\ vis[n] # None /\ vis[n].uid = r
      /\ req[r].pc = "clean_both" => dv[n] = r
  BY DEF ImageInv, TypeOK, CleanupVis, Phase, Owner
<1>1. PICK out \in {"ok", "fail", "lost"} :
          /\ Charge(out)
          /\ vis' = IF Applied(out) THEN [vis EXCEPT ![n] = None] ELSE vis
  BY DEF CleanupVis, CleanupCtx, Outcomes
<1>2. /\ req' \in [Requests -> ReqRec]
      /\ \A p \in Requests \ {r} : req'[p] = req[p]
      /\ req'[r].name = n /\ ~req'[r].lazy
      /\ IF req[r].pc = "clean_both" THEN req'[r].pc = "clean_dv" /\ req'[r].res = "none"
         ELSE req'[r].pc = "done" /\ req'[r].res = "err"
  BY <1>0, FinishFacts, GoFacts DEF CleanupVis, Pcs
<1>3. faults' \in 0..MaxFaults /\ (faults' = 0 => faults = 0 /\ out = "ok")
  BY <1>0, <1>1, ChargeFacts
<1>4. /\ vis' \in [Names -> VisObj \union {None}]
      /\ vis'[n] \in {vis[n], None}
      /\ out = "ok" => vis'[n] = None
      /\ \A m \in Names \ {n} : vis'[m] = vis[m]
  BY <1>0, <1>1 DEF TypeOK, Applied
<1>5. UNCHANGED <<dv, caches, cut>>
  BY DEF CleanupVis
<1>6. TypeOK'
  BY <1>0, <1>2, <1>3, <1>4, <1>5 DEF TypeOK, caches
<1>7. Phase'
  BY <1>0, <1>2 DEF ImageInv, Phase
<1>8. Origin'
  BY <1>0, <1>2, <1>4, <1>5 DEF ImageInv, Origin
<1>9. Owner'
  BY <1>0, <1>2, <1>4, <1>5 DEF ImageInv, Owner, Phase
<1>10. Leftovers'
  BY <1>0, <1>2, <1>3, <1>4, <1>5 DEF ImageInv, Leftovers, Origin
<1>11. DownloadedStays'
  BY <1>0, <1>2, <1>4, <1>5 DEF ImageInv, DownloadedStays, Phase
<1>12. FailedLeavesNothing'
  BY <1>0, <1>2, <1>3, <1>4, <1>5 DEF ImageInv, FailedLeavesNothing, Leftovers, Origin
<1> QED BY <1>6, <1>7, <1>8, <1>9, <1>10, <1>11, <1>12 DEF ImageInv

\* The cleanup deletes a DataVolume that is one's own.
LEMMA CleanupDvInv ==
    ASSUME ImageInv, NEW r \in Requests, CleanupDv(r)
    PROVE  ImageInv'
<1> USE DEF HasVis, HasDv
<1> DEFINE n == req[r].name
<1>0. /\ TypeOK /\ n \in Names /\ req[r].pc = "clean_dv"
      /\ req[r].res = "none" /\ ~req[r].lazy /\ dv[n] = r
  BY DEF ImageInv, TypeOK, CleanupDv, Phase, Owner
<1>1. PICK out \in {"ok", "fail", "lost"} :
          /\ Charge(out)
          /\ dv' = IF Applied(out) THEN [dv EXCEPT ![n] = None] ELSE dv
  BY DEF CleanupDv, CleanupCtx, Outcomes
<1>2. /\ req' \in [Requests -> ReqRec]
      /\ \A p \in Requests \ {r} : req'[p] = req[p]
      /\ req'[r].name = n /\ ~req'[r].lazy
      /\ req'[r].pc = "done" /\ req'[r].res = "err"
  BY <1>0, FinishFacts DEF CleanupDv
<1>3. faults' \in 0..MaxFaults /\ (faults' = 0 => faults = 0 /\ out = "ok")
  BY <1>0, <1>1, ChargeFacts
<1>4. /\ dv' \in [Names -> Requests \union {None}]
      /\ dv'[n] \in {dv[n], None}
      /\ out = "ok" => dv'[n] = None
      /\ \A m \in Names \ {n} : dv'[m] = dv[m]
  BY <1>0, <1>1 DEF TypeOK, Applied
<1>5. UNCHANGED <<vis, caches, cut>>
  BY DEF CleanupDv
<1>6. TypeOK'
  BY <1>0, <1>2, <1>3, <1>4, <1>5 DEF TypeOK, caches
<1>7. Phase'
  BY <1>0, <1>2 DEF ImageInv, Phase
<1>8. Origin'
  BY <1>0, <1>2, <1>4, <1>5, ImageAssumption DEF ImageInv, Origin
<1>9. Owner'
  BY <1>0, <1>2, <1>4, <1>5 DEF ImageInv, Owner, Phase
<1>10. Leftovers'
  BY <1>0, <1>2, <1>3, <1>4, <1>5, ImageAssumption DEF ImageInv, Leftovers, Origin
<1>11. DownloadedStays'
  BY <1>0, <1>2, <1>4, <1>5 DEF ImageInv, DownloadedStays, Phase
<1>12. FailedLeavesNothing'
  BY <1>0, <1>2, <1>3, <1>4, <1>5, ImageAssumption
     DEF ImageInv, FailedLeavesNothing, Leftovers, Origin
<1> QED BY <1>6, <1>7, <1>8, <1>9, <1>10, <1>11, <1>12 DEF ImageInv

\* A cancelled context, by itself, changes nothing the invariant is about.
LEMMA CancelInv ==
    ASSUME ImageInv, NEW r \in Requests, Cancel(r)
    PROVE  ImageInv'
<1>1. req \in [Requests -> ReqRec] /\ req[r] \in ReqRec
  BY DEF ImageInv, TypeOK
<1>2. [req[r] EXCEPT !.cancelled = TRUE] \in ReqRec
  BY <1>1, Zenon DEF ReqRec
<1>3. req' = [req EXCEPT ![r] = [req[r] EXCEPT !.cancelled = TRUE]]
  BY <1>1 DEF Cancel
<1>4. /\ req' \in [Requests -> ReqRec]
      /\ \A p \in Requests : /\ req'[p].pc = req[p].pc /\ req'[p].name = req[p].name
                             /\ req'[p].lazy = req[p].lazy /\ req'[p].res = req[p].res
  BY <1>1, <1>2, <1>3 DEF ReqRec
<1>5. UNCHANGED <<objects, caches, history>>
  BY DEF Cancel
<1>6. TypeOK'
  BY <1>4, <1>5 DEF ImageInv, TypeOK, objects, caches, history
<1>7. (Phase /\ Origin /\ Owner /\ Leftovers)'
  BY <1>4, <1>5 DEF ImageInv, Phase, Origin, Owner, Leftovers, objects, history
<1>8. (DownloadedStays /\ FailedLeavesNothing)'
  BY <1>4, <1>5 DEF ImageInv, DownloadedStays, FailedLeavesNothing, objects,
        history
<1> QED BY <1>6, <1>7, <1>8 DEF ImageInv

\* A crash leaves the objects to requests that have ended.
LEMMA CrashInv ==
    ASSUME ImageInv, Crash
    PROVE  ImageInv'
<1> USE DEF HasVis, HasDv
<1> DEFINE dead(r) == [req[r] EXCEPT !.pc = "done", !.res = "crash", !.cancelled = FALSE]
<1>1. \A r \in Requests : req[r] \in ReqRec
  BY DEF ImageInv, TypeOK
<1>2. \A r \in Requests : dead(r) \in ReqRec
  BY <1>1, Zenon DEF ReqRec, Pcs
<1>3. \A r \in Requests : /\ dead(r).pc = "done" /\ dead(r).res = "crash"
                          /\ dead(r).name = req[r].name
  BY <1>1 DEF ReqRec
<1>4. req' = [r \in Requests |-> IF Running(r) THEN dead(r) ELSE req[r]]
  BY DEF Crash
<1> HIDE DEF dead
<1>5. /\ req' \in [Requests -> ReqRec]
      /\ \A r \in Requests :
           \/ req'[r] = req[r] /\ req[r].pc \in {"idle", "done"}
           \/ req'[r].pc = "done" /\ req'[r].res = "crash" /\ req'[r].name = req[r].name
  BY <1>1, <1>2, <1>3, <1>4 DEF Running
<1>6. faults' \in 0..MaxFaults /\ faults' # 0
  BY ChargeFacts DEF Crash, ImageInv
<1>7. UNCHANGED <<vis, dv, cut>> /\ cVis' = vis /\ cDv' \in SUBSET Names
  BY DEF Crash, objects
<1>8. TypeOK'
  BY <1>5, <1>6, <1>7 DEF ImageInv, TypeOK
<1>9. Phase'
  BY <1>5 DEF ImageInv, Phase
<1>10. Origin'
  BY <1>5, <1>7 DEF ImageInv, Origin
<1>11. Owner'
  BY <1>5, <1>7 DEF ImageInv, Owner
<1>12. Leftovers' /\ FailedLeavesNothing'
  BY <1>6 DEF Leftovers, FailedLeavesNothing
<1>13. DownloadedStays'
  BY <1>5, <1>7 DEF ImageInv, DownloadedStays
<1> QED BY <1>8, <1>9, <1>10, <1>11, <1>12, <1>13 DEF ImageInv

\* Every step of the specification keeps the invariant.
LEMMA NextInv == ImageInv /\ [Next]_vars => ImageInv'
<1> SUFFICES ASSUME ImageInv, [Next]_vars PROVE ImageInv'
  OBVIOUS
<1>1. CASE UNCHANGED <<objects, req, history>> /\ cVis' \in {cVis, vis}
           /\ cDv' \in SUBSET Names
  <2>1. TypeOK'
    BY <1>1 DEF ImageInv, TypeOK, objects, history
  <2>2. (Phase /\ Origin /\ Owner /\ Leftovers)'
    BY <1>1 DEF ImageInv, Phase, Origin, Owner, Leftovers, objects, history
  <2>3. (DownloadedStays /\ FailedLeavesNothing)'
    BY <1>1 DEF ImageInv, DownloadedStays, FailedLeavesNothing, objects, history
  <2> QED BY <2>1, <2>2, <2>3 DEF ImageInv
<1>2. CASE UNCHANGED vars
  BY <1>1, <1>2 DEF vars, caches, ImageInv, TypeOK
<1>3. CASE WatchVis \/ WatchDv
  BY <1>1, <1>3 DEF WatchVis, WatchDv, ImageInv, TypeOK
<1>4. CASE Crash
  BY <1>4, CrashInv
<1>5. CASE \E r \in Requests, n \in Names, l \in BOOLEAN : CallDownload(r, n, l)
  BY <1>5, CallDownloadInv
<1>6. ASSUME NEW r \in Requests, Step(r) \/ Reject(r) \/ Cancel(r)
      PROVE  ImageInv'
  BY <1>6, CreateVisInv, GetStorageClassInv, CreateDvInv, PatchVisInv,
     CleanupVisInv, CleanupDvInv, RejectInv, CancelInv DEF Step
<1> QED BY <1>2, <1>3, <1>4, <1>5, <1>6 DEF Next

(* The invariant holds in every reachable state.                           *)
LEMMA InvAlways == Spec => []ImageInv
BY InitInv, NextInv, PTL DEF Spec

-----------------------------------------------------------------------------
(* The theorems *)

(* Every reachable state of the image manager is well typed.               *)
THEOREM ImageTypeCorrect == Spec => []TypeOK
<1>1. ImageInv => TypeOK
  BY DEF ImageInv
<1> QED BY <1>1, InvAlways, PTL

(* A download that has succeeded keeps its VolumeImportSource, label and   *)
(* DataVolume, whatever other downloads of the name do.                    *)
THEOREM DownloadsStay == Spec => []DownloadedStays
<1>1. ImageInv => DownloadedStays
  BY DEF ImageInv
<1> QED BY <1>1, InvAlways, PTL

(* Unless the API server or kube-vim itself failed, a download that fails  *)
(* leaves nothing behind, wherever its client went away, but the object of *)
(* a Create that was applied after that.                                   *)
THEOREM FailuresAreCleanedUp == Spec => []FailedLeavesNothing
<1>1. ImageInv => FailedLeavesNothing
  BY DEF ImageInv
<1> QED BY <1>1, InvAlways, PTL

\* One step of a request removes only objects whose UID is its own.
LEMMA StepDeletesOwn ==
    ASSUME ImageInv, [Next]_vars, NEW r \in Requests, NEW n \in Names,
           req'[r] # req[r]
    PROVE  /\ vis[n] # None /\ vis'[n] = None => vis[n].uid = r
           /\ dv[n] # None /\ dv'[n] = None => dv[n] = r
<1> USE DEF HasVis, HasDv
<1>1. SUFFICES ASSUME NEW p \in Requests, Step(p),
                      \/ vis[n] # None /\ vis'[n] = None
                      \/ dv[n] # None /\ dv'[n] = None
               PROVE  /\ vis[n] # None /\ vis'[n] = None => vis[n].uid = r
                      /\ dv[n] # None /\ dv'[n] = None => dv[n] = r
  BY DEF Next, vars, objects, Reject, Cancel, CallDownload, WatchVis, WatchDv, Crash
<1>2. /\ req \in [Requests -> ReqRec] /\ vis \in [Names -> VisObj \union {None}]
      /\ dv \in [Names -> Requests \union {None}]
  BY DEF ImageInv, TypeOK
<1>3. p = r
  BY <1>1, <1>2 DEF Step, CreateVis, VisRefused, GetStorageClass, CreateDv,
     DvExists, PatchVis, CleanupVis, CleanupDv, Go, Finish
<1>4. None \notin Requests /\ None \notin VisObj
  BY ImageAssumption
<1>5. CASE CleanupVis(r)
  BY <1>2, <1>5 DEF CleanupVis, ImageInv, Owner
<1>6. CASE CleanupDv(r)
  BY <1>2, <1>6 DEF CleanupDv, ImageInv, Owner
<1>7. CASE CreateVis(r) \/ GetStorageClass(r) \/ CreateDv(r)
  <2>1. [uid |-> r, dv |-> None] # None
    BY <1>4 DEF VisObj
  <2> QED BY <1>1, <1>2, <1>3, <1>4, <1>7, <2>1
          DEF CreateVis, GetStorageClass, CreateDv, objects
<1>8. CASE PatchVis(r)
  <2>1. req[r].name \in Names /\ vis[req[r].name] # None
    BY <1>8 DEF PatchVis, ImageInv, Phase, Owner
  <2>2. [vis[req[r].name] EXCEPT !.dv = DvLabel(r)] \in VisObj
    BY <1>2, <2>1 DEF VisObj, DvLabel
  <2>3. vis'[n] = None => vis[n] = None
    BY <1>2, <1>4, <1>8, <2>1, <2>2 DEF PatchVis
  <2> QED BY <1>8, <2>3 DEF PatchVis
<1> QED BY <1>1, <1>3, <1>5, <1>6, <1>7, <1>8 DEF Step

(* No cleanup deletes, by name, an object another download has put there.  *)
THEOREM CleanupsDeleteOwn == Spec => CleanupDeletesOwn
<1>1. ImageInv /\ [Next]_vars =>
        [\A r \in Requests, n \in Names : req'[r] # req[r] =>
           /\ vis[n] # None /\ vis'[n] = None => vis[n].uid = r
           /\ dv[n] # None /\ dv'[n] = None => dv[n] = r]_vars
  BY StepDeletesOwn
<1> QED BY <1>1, InvAlways, PTL DEF Spec, CleanupDeletesOwn

=============================================================================
