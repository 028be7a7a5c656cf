-------------------------------- MODULE Image --------------------------------
(***************************************************************************)
(* The image manager (internal/kubevim/image/cdi/manager.go): DownloadImage *)
(* writes a VolumeImportSource, whose UID is the id of the image, then a   *)
(* DataVolume of the same name, then a label on the former, and takes back *)
(* what it has written when a later step fails.  GetImage and ListImages   *)
(* join the two kinds by name, from caches.                                *)
(***************************************************************************)
EXTENDS Naturals

CONSTANTS
    Requests,    \* RPC handlers; their id is the UID of what they create
    Names,       \* names of images
    MaxFaults,   \* bound: failed calls, lost replies, crashes
    None

VARIABLES
    vis,      \* VolumeImportSources
    dv,       \* DataVolumes
    cVis,     \* the caches of both kinds: UIDs
    cDv,
    req,
    faults,
    cut       \* history: the Create applied after its client had gone

objects == <<vis, dv>>
caches == <<cVis, cDv>>
history == <<faults, cut>>
vars == <<objects, caches, req, history>>

Pcs == {"idle", "vis", "class", "dv", "label", "clean_vis", "clean_both",
        "clean_dv", "done"}

\* dv: the label with the UID of the DataVolume, once it is set.
VisObj == [uid : Requests, dv : Requests \union {None}]

ASSUME ImageAssumption ==
    /\ None \notin Requests \union Names \union VisObj
    /\ MaxFaults \in Nat

ReqRec == [pc : Pcs, name : Names \union {None}, lazy : BOOLEAN,
           cancelled : BOOLEAN, res : {"none", "ok", "err", "crash"}]

Idle == [pc |-> "idle", name |-> None, lazy |-> FALSE, cancelled |-> FALSE,
         res |-> "none"]

TypeOK ==
    /\ vis \in [Names -> VisObj \union {None}]
    /\ dv \in [Names -> Requests \union {None}]
    /\ cVis \in [Names -> VisObj \union {None}]
    /\ cDv \in SUBSET Names
    /\ req \in [Requests -> ReqRec]
    /\ faults \in 0..MaxFaults
    /\ cut \in [Requests -> {"none", "vis", "dv"}]

Init ==
    /\ vis = [n \in Names |-> None] /\ dv = [n \in Names |-> None]
    /\ cVis = [n \in Names |-> None] /\ cDv = {}
    /\ req = [r \in Requests |-> Idle]
    /\ faults = 0
    /\ cut = [r \in Requests |-> "none"]

Running(r) == req[r].pc \notin {"idle", "done"}

(* A call is applied and answered ("ok"), not applied ("fail") or applied  *)
(* with an error as its answer ("lost").  Once the context is cancelled it *)
(* returns an error, which is nobody's fault: either it was not made       *)
(* ("cancelled"), or it was on its way and the API server has applied it   *)
(* ("late").                                                               *)
Outcomes(cancelled) ==
    IF cancelled THEN {"cancelled", "late"} ELSE {"ok", "fail", "lost"}
Applied(out) == out \in {"ok", "lost", "late"}

Charge(out) ==
    LET fault == out \in {"fail", "lost"} IN
    /\ fault => faults < MaxFaults
    /\ faults' = IF fault THEN faults + 1 ELSE faults

\* For the record: the Create of this kind was applied for nobody.
Cut(r, kind, out) == cut' = IF out = "late" THEN [cut EXCEPT ![r] = kind] ELSE cut

Go(r, pc) == req' = [req EXCEPT ![r].pc = pc]

\* What is remembered of a call: its name, its kind and its answer.
Finish(r, res) ==
    req' = [req EXCEPT ![r].pc = "done", ![r].res = res, ![r].cancelled = FALSE]

-----------------------------------------------------------------------------
(* DownloadImage *)

CallDownload(r, n, lazy) ==
    /\ req[r].pc = "idle"
    /\ req' = [req EXCEPT ![r].pc = "vis", ![r].name = n, ![r].lazy = lazy]
    /\ UNCHANGED <<objects, caches, history>>

\* No source, or not HTTP: refused before anything is written.
Reject(r) ==
    /\ req[r].pc = "idle"
    /\ Finish(r, "err")
    /\ UNCHANGED <<objects, caches, history>>

\* Faulty variant: cleaning up starts with the first error.
VisRefusedCleansUp(r) == Go(r, "clean_vis")

\* The VolumeImportSource could not be created: nothing to clean up.
VisRefused(r) == Finish(r, "err")

(* The Create that takes the name.  A lazy download ends here.             *)
CreateVis(r) ==
    /\ req[r].pc = "vis"
    /\ LET n == req[r].name IN
       \/ /\ vis[n] # None                          \* AlreadyExists
          /\ VisRefused(r)
          /\ UNCHANGED <<vis, history>>
       \/ /\ vis[n] = None
          /\ \E out \in Outcomes(req[r].cancelled) :
                /\ Charge(out) /\ Cut(r, "vis", out)
                /\ vis' = IF Applied(out)
                          THEN [vis EXCEPT ![n] = [uid |-> r, dv |-> None]]
                          ELSE vis
                /\ IF out # "ok" THEN VisRefused(r)
                   ELSE IF req[r].lazy THEN Finish(r, "ok") ELSE Go(r, "class")
    /\ UNCHANGED <<dv, caches>>

\* getStorageClass, read at the API server: there may be none of that name.
GetStorageClass(r) ==
    /\ req[r].pc = "class"
    /\ \/ ~req[r].cancelled /\ Go(r, "dv")
       \/ Go(r, "clean_vis")
    /\ UNCHANGED <<objects, caches, history>>

\* Faulty variant: a DataVolume of that name is taken for one's own.
DvExistsIsOk(r) == Go(r, "label")

\* A DataVolume of that name exists already.
DvExists(r) == Go(r, "clean_vis")

CreateDv(r) ==
    /\ req[r].pc = "dv"
    /\ LET n == req[r].name IN
       \/ /\ dv[n] # None
          /\ DvExists(r)
          /\ UNCHANGED <<dv, history>>
       \/ /\ dv[n] = None
          /\ \E out \in Outcomes(req[r].cancelled) :
                /\ Charge(out) /\ Cut(r, "dv", out)
                /\ dv' = IF Applied(out) THEN [dv EXCEPT ![n] = r] ELSE dv
                /\ Go(r, IF out = "ok" THEN "label" ELSE "clean_vis")
    /\ UNCHANGED <<vis, caches>>

\* Faulty variant: the label holds the name of the volume, not its UID.
DvLabelName(r) == req[r].name

\* The UID of the DataVolume this download has created.
DvLabel(r) == r

(* The label, as a merge patch, which fails if the object is not there.    *)
PatchVis(r) ==
    /\ req[r].pc = "label"
    /\ \E out \in Outcomes(req[r].cancelled) :
          /\ Charge(out)
          /\ vis' = IF Applied(out) /\ vis[req[r].name] # None
                    THEN [vis EXCEPT ![req[r].name].dv = DvLabel(r)] ELSE vis
          /\ IF out = "ok" /\ vis[req[r].name] # None
             THEN Finish(r, "ok") ELSE Go(r, "clean_both")
    /\ UNCHANGED <<dv, caches, cut>>

\* Faulty variant: cleaning up with the context of the request.
RequestCtx(r) == Outcomes(req[r].cancelled)

\* context.WithoutCancel: a cancelled request does not stop the cleanup.
CleanupCtx(r) == Outcomes(FALSE)

\* cleanupVolumeImportSource, by name; its error is dropped.
CleanupVis(r) ==
    /\ req[r].pc \in {"clean_vis", "clean_both"}
    /\ \E out \in CleanupCtx(r) :
          /\ Charge(out)
          /\ vis' = IF Applied(out) THEN [vis EXCEPT ![req[r].name] = None] ELSE vis
    /\ IF req[r].pc = "clean_both" THEN Go(r, "clean_dv") ELSE Finish(r, "err")
    /\ UNCHANGED <<dv, caches, cut>>

\* cleanupDataVolume, after the VolumeImportSource.
CleanupDv(r) ==
    /\ req[r].pc = "clean_dv"
    /\ \E out \in CleanupCtx(r) :
          /\ Charge(out)
          /\ dv' = IF Applied(out) THEN [dv EXCEPT ![req[r].name] = None] ELSE dv
    /\ Finish(r, "err")
    /\ UNCHANGED <<vis, caches, cut>>

-----------------------------------------------------------------------------
(* ListImages and GetImage *)

\* Faulty variant: the label says which DataVolume belongs to the image.
ListImagesByLabel ==
    {cVis[n].uid : n \in {m \in cDv : cVis[m] # None /\ cVis[m].dv # None}}

\* A VolumeImportSource without a DataVolume of its name is skipped.
ListImages == {cVis[n].uid : n \in {m \in cDv : cVis[m] # None}}

-----------------------------------------------------------------------------
(* The environment *)

WatchVis ==
    /\ cVis # vis /\ cVis' = vis
    /\ UNCHANGED <<objects, cDv, req, history>>

WatchDv ==
    /\ cDv' = {n \in Names : dv[n] # None}
    /\ cDv' # cDv
    /\ UNCHANGED <<objects, cVis, req, history>>

Cancel(r) ==
    /\ Running(r) /\ ~req[r].cancelled
    /\ req' = [req EXCEPT ![r].cancelled = TRUE]
    /\ UNCHANGED <<objects, caches, history>>

\* kube-vim is killed and lists its caches afresh.
Crash ==
    /\ \E r \in Requests : Running(r)
    /\ Charge("fail")
    /\ req' = [r \in Requests |-> IF Running(r)
                THEN [req[r] EXCEPT !.pc = "done", !.res = "crash",
                                    !.cancelled = FALSE] ELSE req[r]]
    /\ cVis' = vis /\ cDv' = {n \in Names : dv[n] # None}
    /\ UNCHANGED <<objects, cut>>

-----------------------------------------------------------------------------

Step(r) == \/ CreateVis(r) \/ GetStorageClass(r) \/ CreateDv(r) \/ PatchVis(r)
           \/ CleanupVis(r) \/ CleanupDv(r)

Next == \/ \E r \in Requests : Step(r) \/ Reject(r) \/ Cancel(r)
        \/ \E r \in Requests, n \in Names, l \in BOOLEAN : CallDownload(r, n, l)
        \/ WatchVis \/ WatchDv \/ Crash

Spec == Init /\ [][Next]_vars

\* Handlers run on and watches catch up.
FairSpec == Spec /\ \A r \in Requests : WF_vars(Step(r))
                 /\ WF_vars(WatchVis) /\ WF_vars(WatchDv)

-----------------------------------------------------------------------------
(* Properties *)

(* A download that has succeeded stays: no later or concurrent download of *)
(* the name, and no cleanup of one that failed, takes its objects away.    *)
(* Downloads are only kept apart by the Create of the VolumeImportSource,  *)
(* and cleanups go by name.                                                *)
DownloadedStays ==
    \A r \in Requests : req[r].res = "ok" =>
        LET n == req[r].name IN
        /\ vis[n] # None /\ vis[n].uid = r
        /\ ~req[r].lazy => vis[n].dv = r /\ dv[n] = r

(* "Cleanup must run even when the request ctx has been canceled": unless  *)
(* the API server failed or kube-vim crashed, a download that reports an   *)
(* error leaves nothing of its own, whatever it raced with and wherever    *)
(* its client went away.  The exception is a Create that was applied after *)
(* its client had gone: the error reads as if nothing had been written, so *)
(* that one object, and no other of the download, stays.                   *)
FailedLeavesNothing ==
    faults = 0 => \A r \in Requests, n \in Names : req[r].res = "err" =>
        /\ vis[n] # None /\ vis[n].uid = r => cut[r] = "vis"
        /\ dv[n] = r => cut[r] = "dv"

(* A cleanup deletes by name what its own download has created, never what *)
(* another one has put there meanwhile.                                    *)
CleanupDeletesOwn ==
    [][\A r \in Requests, n \in Names : req'[r] # req[r] =>
        /\ vis[n] # None /\ vis'[n] = None => vis[n].uid = r
        /\ dv[n] # None /\ dv'[n] = None => dv[n] = r]_vars

(* Once requests stop, ListImages reports every image that has a volume,   *)
(* also when the download was cut off before it had set the label.         *)
ImagesAppear ==
    <>[](\/ \E r \in Requests : Running(r)
         \/ ListImages = {vis[n].uid : n \in {m \in Names : vis[m] # None
                                                            /\ dv[m] # None}})

=============================================================================
