--------------------------- MODULE FlavourProofs ---------------------------
(***************************************************************************)
(* Machine-checked proofs about Flavour, for any set of requests, any set  *)
(* of flavours and any number of faults.                                   *)
(***************************************************************************)
EXTENDS Flavour, TLAPS

-----------------------------------------------------------------------------
(* The inductive invariant *)

\* The pc says which operation is running, on a flavour id.
Phase ==
    \A r \in Requests :
        /\ req[r].pc = "idle" => req[r].op = "none"
        /\ req[r].pc \in {"inst", "pref"} => req[r].op = "create"
        /\ req[r].pc \in {"del_inst", "del_pref"} => req[r].op = "delete"
        /\ Running(r) \/ req[r].res = "ok" => req[r].id \in Flavours
        /\ req[r].res # "none" => req[r].pc = "done"

\* What had ended before a call can write no more.
BeforeEnded == \A r \in Requests : req[r].before \subseteq Ended

\* A deletion has removed the instance type before it turns to the preference.
HalfDeleted ==
    \A r \in Requests : req[r].pc = "del_pref" =>
        inst[req[r].id] \notin req[r].before

\* A deletion of r's flavour that had not ended before r was called.
DeletionOf(r) == \E p \in Requests \ req[r].before :
                    req[p].op = "delete" /\ req[p].id = req[r].id

\* A creation has its instance type when it turns to the preference.
HalfCreated ==
    \A r \in Requests : req[r].pc = "pref" => inst[req[r].id] = r \/ DeletionOf(r)

FlavourInv == /\ TypeOK /\ Phase /\ BeforeEnded /\ HalfDeleted /\ HalfCreated
              /\ DeletedIsGone /\ CreatedStays

-----------------------------------------------------------------------------
(* What the helpers do to a request and to the count of faults *)

\* One request changes, and keeps what it was called for.
Moves(r, pc, res) ==
    /\ req' \in [Requests -> ReqRec]
    /\ \A p \in Requests \ {r} : req'[p] = req[p]
    /\ req'[r].pc = pc /\ req'[r].res = res /\ req'[r].op = req[r].op
    /\ req'[r].id = req[r].id /\ req'[r].before = req[r].before

\* Going on changes the pc of one request.
LEMMA GoFacts ==
    ASSUME TypeOK, NEW r \in Requests, Go(r, "pref") \/ Go(r, "del_pref")
    PROVE  Moves(r, req'[r].pc, req[r].res) /\ req'[r].pc \in {"pref", "del_pref"}
           /\ (Go(r, "pref") => req'[r].pc = "pref")
           /\ (Go(r, "del_pref") => req'[r].pc = "del_pref")
<1>1. req \in [Requests -> ReqRec] /\ req[r] \in ReqRec
  BY DEF TypeOK
<1>2. PICK pc \in {"pref", "del_pref"} : req' = [req EXCEPT ![r] = [req[r] EXCEPT !.pc = pc]]
  BY <1>1 DEF Go
<1>3. [req[r] EXCEPT !.pc = pc] \in ReqRec
  BY <1>1, <1>2, Zenon DEF ReqRec
<1>4. Moves(r, pc, req[r].res)
  BY <1>1, <1>2, <1>3 DEF ReqRec, Moves
<1>5. ASSUME NEW c, Go(r, c) PROVE req'[r].pc = c
  BY <1>1, <1>5 DEF Go, ReqRec
<1> QED BY <1>4, <1>5 DEF Moves

\* Returning ends one request with an answer.
LEMMA FinishFacts ==
    ASSUME TypeOK, NEW r \in Requests, NEW res \in {"ok", "err"}, Finish(r, res)
    PROVE  Moves(r, "done", res)
<1>1. req \in [Requests -> ReqRec] /\ req[r] \in ReqRec
  BY DEF TypeOK
<1>2. [req[r] EXCEPT !.pc = "done", !.res = res] \in ReqRec
  BY <1>1, Zenon DEF ReqRec
<1>3. req' = [req EXCEPT ![r] = [req[r] EXCEPT !.pc = "done", !.res = res]]
  BY <1>1 DEF Finish
<1> QED BY <1>1, <1>2, <1>3 DEF ReqRec, Moves

\* The count of faults stays within its bound.
LEMMA ChargeFacts ==
    ASSUME TypeOK, NEW out, Charge(out)
    PROVE  faults' \in 0..MaxFaults
BY FlavourAssumption DEF TypeOK, Charge

-----------------------------------------------------------------------------
(* Every step keeps the invariant *)

\* The initial state satisfies the invariant.
LEMMA InitInv == Init => FlavourInv
<1> SUFFICES ASSUME Init PROVE FlavourInv
  OBVIOUS
<1>1. Idle \in ReqRec /\ Idle.pc = "idle" /\ Idle.res = "none" /\ Idle.before = {}
      /\ Idle.op = "none"
  BY DEF Idle, ReqRec
<1>2. TypeOK
  BY <1>1, FlavourAssumption DEF TypeOK, Init, Owners
<1>3. \A r \in Requests : req[r].pc = "idle" /\ req[r].res = "none" /\ req[r].before = {}
                          /\ req[r].op = "none"
  BY <1>1 DEF Init
<1>4. Phase /\ BeforeEnded
  BY <1>3 DEF Phase, BeforeEnded, Running
<1>5. HalfDeleted /\ HalfCreated /\ DeletedIsGone /\ CreatedStays
  BY <1>3 DEF HalfDeleted, HalfCreated, DeletedIsGone, CreatedStays
<1> QED BY <1>2, <1>4, <1>5 DEF FlavourInv

\* A call: q is the new request, of a handler that was idle.
LEMMA CallInv ==
    ASSUME FlavourInv, NEW r \in Requests, NEW q \in ReqRec,
           req[r].pc = "idle", req' = [req EXCEPT ![r] = q],
           UNCHANGED <<inst, pref, cInst, faults>>,
           \/ q.pc = "inst" /\ q.op = "create" /\ q.res = "none"
                /\ q.id \in Flavours /\ q.before = Ended
           \/ q.pc = "del_inst" /\ q.op = "delete" /\ q.res = "none"
                /\ q.id \in Flavours /\ q.before = Ended
           \/ q.pc = "done" /\ q.op = "create" /\ q.res = "err" /\ q.before = {}
    PROVE  FlavourInv'
<1>1. TypeOK'
  BY DEF FlavourInv, TypeOK
<1>2. /\ req'[r] = q /\ \A p \in Requests \ {r} : req'[p] = req[p]
  BY DEF FlavourInv, TypeOK
<1>3. r \notin Ended /\ Ended \subseteq Ended'
  BY <1>2 DEF Ended
<1>4. Phase'
  BY <1>2 DEF FlavourInv, Phase, Running
<1>5. BeforeEnded'
  BY <1>2, <1>3 DEF FlavourInv, BeforeEnded
<1>6. HalfDeleted'
  BY <1>2 DEF FlavourInv, HalfDeleted
<1>7. req[r].op = "none"
  BY DEF FlavourInv, Phase
<1>8. ASSUME NEW p \in Requests, p # r, DeletionOf(p) PROVE DeletionOf(p)'
  BY <1>2, <1>7, <1>8 DEF DeletionOf
<1>9. HalfCreated'
  BY <1>2, <1>8 DEF FlavourInv, HalfCreated
<1>10. DeletedIsGone'
  BY <1>2 DEF FlavourInv, DeletedIsGone
<1>11. CreatedStays'
  BY <1>2, <1>8 DEF FlavourInv, CreatedStays, DeletionOf
<1> QED BY <1>1, <1>4, <1>5, <1>6, <1>9, <1>10, <1>11 DEF FlavourInv

(* A step of a running request r that keeps what it was called for: inst   *)
(* and pref may change only under its own id, to r by a creation and to    *)
(* None by a deletion.                                                     *)
LEMMA StepInv ==
    ASSUME FlavourInv, TypeOK', NEW r \in Requests, Running(r),
           NEW pc, NEW res, Moves(r, pc, res),
           \A f \in Flavours \ {req[r].id} : inst'[f] = inst[f] /\ pref'[f] = pref[f],
           \/ pc = "done" /\ res = "err"
           \/ pc = "pref" /\ res = "none" /\ req[r].pc = "inst" /\ inst'[req[r].id] = r
           \/ /\ pc = "done" /\ res = "ok" /\ req[r].pc = "pref"
              /\ pref'[req[r].id] = r /\ inst' = inst
           \/ /\ pc = "del_pref" /\ res = "none" /\ req[r].pc = "del_inst"
              /\ inst'[req[r].id] \notin Requests
           \/ /\ pc = "done" /\ res = "ok" /\ req[r].pc = "del_pref"
              /\ pref'[req[r].id] \notin Requests /\ inst' = inst,
           \/ /\ req[r].op = "create"
              /\ \/ inst'[req[r].id] = inst[req[r].id]
                 \/ inst[req[r].id] = None /\ inst'[req[r].id] = r
              /\ \/ pref'[req[r].id] = pref[req[r].id]
                 \/ pref[req[r].id] = None /\ pref'[req[r].id] = r
           \/ /\ req[r].op = "delete"
              /\ inst'[req[r].id] = inst[req[r].id] \/ inst'[req[r].id] \notin Requests
              /\ pref'[req[r].id] = pref[req[r].id] \/ pref'[req[r].id] \notin Requests
    PROVE  FlavourInv'
<1> DEFINE f == req[r].id
<1>1. f \in Flavours /\ req[r].res = "none"
  BY DEF FlavourInv, Phase, Running
<1>2. /\ \A p \in Requests \ {r} : req'[p] = req[p]
      /\ req'[r].pc = pc /\ req'[r].res = res /\ req'[r].op = req[r].op
      /\ req'[r].id = f /\ req'[r].before = req[r].before
  BY DEF Moves
<1>3. r \notin Ended /\ Ended \subseteq Ended'
  BY <1>2 DEF Ended, Running
<1>4. \A p \in Requests : req[p].before \subseteq Requests /\ r \notin req[p].before
  BY <1>3 DEF FlavourInv, BeforeEnded, Ended
<1>5. None \notin Requests
  BY FlavourAssumption
<1>6. Phase'
  BY <1>1, <1>2 DEF FlavourInv, Phase, Running
<1>7. BeforeEnded'
  BY <1>2, <1>3 DEF FlavourInv, BeforeEnded
<1>8. \A p \in Requests : /\ req'[p].id = req[p].id /\ req'[p].op = req[p].op
                          /\ req'[p].before = req[p].before
  BY <1>2
<1>9. \A p \in Requests : req[p].id \in Flavours =>
          /\ inst[req[p].id] \notin req[p].before
               => inst'[req[p].id] \notin req[p].before
          /\ pref[req[p].id] \notin req[p].before
               => pref'[req[p].id] \notin req[p].before
  BY <1>1, <1>4
<1>10. HalfDeleted'
  BY <1>1, <1>2, <1>4, <1>8, <1>9 DEF FlavourInv, HalfDeleted, Phase, Running
<1>11. DeletedIsGone'
  <2>1. ASSUME NEW p \in Requests, req[p].op = "delete", req'[p].res = "ok"
        PROVE  /\ inst'[req[p].id] \notin req[p].before
               /\ pref'[req[p].id] \notin req[p].before
    <3>1. CASE p # r
      BY <1>2, <1>9, <2>1, <3>1 DEF FlavourInv, DeletedIsGone, Phase
    <3>2. CASE p = r
      BY <1>1, <1>2, <1>4, <2>1, <3>2 DEF FlavourInv, HalfDeleted, Phase
    <3> QED BY <3>1, <3>2
  <2> QED BY <1>8, <2>1 DEF DeletedIsGone
<1>12. \A p \in Requests : DeletionOf(p) => DeletionOf(p)'
  BY <1>8 DEF DeletionOf
<1>13. ASSUME NEW p \in Requests, p # r, req[p].id \in Flavours
       PROVE  /\ inst[req[p].id] = p => inst'[req[p].id] = p \/ DeletionOf(p)
              /\ pref[req[p].id] = p => pref'[req[p].id] = p \/ DeletionOf(p)
  <2>1. CASE req[p].id # f
    BY <1>13, <2>1
  <2>2. CASE req[p].id = f /\ req[r].op = "create"
    BY <1>5, <1>13, <2>2
  <2>3. CASE req[p].id = f /\ req[r].op = "delete"
    BY <1>4, <1>13, <2>3 DEF DeletionOf
  <2> QED BY <2>1, <2>2, <2>3
<1>14. HalfCreated'
  <2>1. ASSUME NEW p \in Requests, req'[p].pc = "pref"
        PROVE  inst'[req[p].id] = p \/ DeletionOf(p)
    <3>1. CASE p # r
      BY <1>2, <1>13, <2>1, <3>1 DEF FlavourInv, HalfCreated, Phase, Running
    <3>2. CASE p = r
      BY <1>2, <2>1, <3>2
    <3> QED BY <3>1, <3>2
  <2> QED BY <1>8, <1>12, <2>1 DEF HalfCreated
<1>15. CreatedStays'
  <2>1. ASSUME NEW p \in Requests, req[p].op = "create", req'[p].res = "ok"
        PROVE  \/ inst'[req[p].id] = p /\ pref'[req[p].id] = p
               \/ DeletionOf(p)
    <3>1. CASE p # r
      <4>1. req[p].res = "ok" /\ req[p].id \in Flavours
        BY <1>2, <2>1, <3>1 DEF FlavourInv, Phase
      <4>2. (inst[req[p].id] = p /\ pref[req[p].id] = p) \/ DeletionOf(p)
        BY <2>1, <4>1 DEF FlavourInv, CreatedStays, DeletionOf
      <4> QED BY <1>13, <3>1, <4>1, <4>2
    <3>2. CASE p = r
      BY <1>2, <2>1, <3>2 DEF FlavourInv, HalfCreated, Phase
    <3> QED BY <3>1, <3>2
  <2> QED BY <1>8, <1>12, <2>1 DEF CreatedStays, DeletionOf
<1> QED BY <1>6, <1>7, <1>10, <1>11, <1>14, <1>15 DEF FlavourInv

\* A creation or a deletion is called, or a creation refused at once.
LEMMA CallsInv ==
    ASSUME FlavourInv, NEW r \in Requests,
           \/ \E f \in Flavours : CallDelete(r, f) \/ \E opaque \in BOOLEAN : CallCreate(r, f, opaque)
           \/ Reject(r)
    PROVE  FlavourInv'
<1>1. Ended \in SUBSET Requests /\ Idle \in ReqRec
  BY DEF Ended, Idle, ReqRec
<1>2. ASSUME NEW f \in Flavours, NEW opaque \in BOOLEAN, CallCreate(r, f, opaque)
      PROVE  FlavourInv'
  <2> DEFINE q == [Idle EXCEPT !.op = "create", !.id = f, !.opaque = opaque,
                               !.pc = "inst", !.before = Ended]
  <2>1. Idle.res = "none"
    BY DEF Idle
  <2>2. q \in ReqRec
    BY <1>1, Zenon DEF ReqRec
  <2>3. q.pc = "inst" /\ q.op = "create" /\ q.id = f /\ q.before = Ended /\ q.res = "none"
    BY <1>1, <2>1 DEF ReqRec
  <2>4. req[r].pc = "idle" /\ req' = [req EXCEPT ![r] = q] /\ UNCHANGED <<inst, pref, cInst, faults>>
    BY <1>2 DEF CallCreate
  <2> HIDE DEF q
  <2> QED BY <2>2, <2>3, <2>4, CallInv
<1>3. CASE Reject(r)
  <2> DEFINE q == [Idle EXCEPT !.op = "create", !.pc = "done", !.res = "err"]
  <2>1. Idle.before = {}
    BY DEF Idle
  <2>2. q \in ReqRec
    BY <1>1, Zenon DEF ReqRec
  <2>3. q.pc = "done" /\ q.op = "create" /\ q.before = {} /\ q.res = "err"
    BY <1>1, <2>1 DEF ReqRec
  <2>4. req[r].pc = "idle" /\ req' = [req EXCEPT ![r] = q] /\ UNCHANGED <<inst, pref, cInst, faults>>
    BY <1>3 DEF Reject
  <2> HIDE DEF q
  <2> QED BY <2>2, <2>3, <2>4, CallInv
<1>4. ASSUME NEW f \in Flavours, CallDelete(r, f)
      PROVE  FlavourInv'
  <2> DEFINE q == [Idle EXCEPT !.op = "delete", !.id = f, !.pc = "del_inst",
                               !.before = Ended]
  <2>1. Idle.res = "none"
    BY DEF Idle
  <2>2. q \in ReqRec
    BY <1>1, Zenon DEF ReqRec
  <2>3. q.pc = "del_inst" /\ q.op = "delete" /\ q.id = f /\ q.before = Ended /\ q.res = "none"
    BY <1>1, <2>1 DEF ReqRec
  <2>4. req[r].pc = "idle" /\ req' = [req EXCEPT ![r] = q] /\ UNCHANGED <<inst, pref, cInst, faults>>
    BY <1>4 DEF CallDelete
  <2> HIDE DEF q
  <2> QED BY <2>2, <2>3, <2>4, CallInv
<1> QED BY <1>2, <1>3, <1>4

\* The Create of the instance type.
LEMMA CreateInstInv ==
    ASSUME FlavourInv, NEW r \in Requests, CreateInst(r)
    PROVE  FlavourInv'
<1> DEFINE f == req[r].id
<1>0. /\ TypeOK /\ Running(r) /\ f \in Flavours /\ req[r].op = "create"
      /\ req[r].res = "none" /\ req[r].pc = "inst"
  BY DEF FlavourInv, CreateInst, Phase, Running
<1>1. UNCHANGED <<pref, cInst>>
  BY DEF CreateInst
<1>2. CASE CreateFailed(r) /\ faults' \in 0..MaxFaults
  <2>1. Moves(r, "done", "err") /\ inst' = inst
    BY <1>0, <1>2, FinishFacts DEF CreateFailed
  <2>2. TypeOK'
    BY <1>0, <1>1, <1>2, <2>1 DEF TypeOK, Moves
  <2> QED BY <1>0, <1>1, <2>1, <2>2, StepInv
<1>3. ASSUME NEW out \in {"ok", "lost"}, Charge(out), inst[f] = None,
             inst' = [inst EXCEPT ![f] = r],
             IF out = "ok" THEN Go(r, "pref") ELSE Finish(r, "err")
      PROVE  FlavourInv'
  <2>1. inst'[f] = r /\ \A g \in Flavours \ {f} : inst'[g] = inst[g]
    BY <1>0, <1>3 DEF TypeOK
  <2>2. Moves(r, "pref", "none") \/ Moves(r, "done", "err")
    BY <1>0, <1>3, GoFacts, FinishFacts
  <2>3. faults' \in 0..MaxFaults
    BY <1>0, <1>3, ChargeFacts
  <2>4. TypeOK'
    BY <1>0, <1>1, <1>3, <2>2, <2>3 DEF TypeOK, Moves, Owners
  <2> QED BY <1>0, <1>1, <1>3, <2>1, <2>2, <2>4, StepInv
<1>4. ASSUME UNCHANGED faults \/ Charge("fail")
      PROVE  faults' \in 0..MaxFaults
  BY <1>0, <1>4, ChargeFacts DEF TypeOK
<1> QED BY <1>2, <1>3, <1>4 DEF CreateInst

\* The Create of the preference.
LEMMA CreatePrefInv ==
    ASSUME FlavourInv, NEW r \in Requests, CreatePref(r)
    PROVE  FlavourInv'
<1> DEFINE f == req[r].id
<1>0. /\ TypeOK /\ Running(r) /\ f \in Flavours /\ req[r].op = "create"
      /\ req[r].res = "none" /\ req[r].pc = "pref"
  BY DEF FlavourInv, CreatePref, Phase, Running
<1>1. UNCHANGED cInst
  BY DEF CreatePref
<1>2. CASE CreateFailed(r) /\ faults' \in 0..MaxFaults /\ UNCHANGED pref
  <2>1. Moves(r, "done", "err") /\ inst' = inst
    BY <1>0, <1>2, FinishFacts DEF CreateFailed
  <2>2. TypeOK'
    BY <1>0, <1>1, <1>2, <2>1 DEF TypeOK, Moves
  <2> QED BY <1>0, <1>2, <2>1, <2>2, StepInv
<1>3. ASSUME NEW out \in {"ok", "lost"}, Charge(out), pref[f] = None,
             pref' = [pref EXCEPT ![f] = r], UNCHANGED inst,
             Finish(r, IF out = "ok" THEN "ok" ELSE "err")
      PROVE  FlavourInv'
  <2>1. pref'[f] = r /\ \A g \in Flavours \ {f} : pref'[g] = pref[g]
    BY <1>0, <1>3 DEF TypeOK
  <2>2. Moves(r, "done", "ok") \/ Moves(r, "done", "err")
    BY <1>0, <1>3, FinishFacts
  <2>3. faults' \in 0..MaxFaults
    BY <1>0, <1>3, ChargeFacts
  <2>4. TypeOK'
    BY <1>0, <1>1, <1>3, <2>2, <2>3 DEF TypeOK, Moves, Owners
  <2> QED BY <1>0, <1>3, <2>1, <2>2, <2>4, StepInv
<1>4. ASSUME UNCHANGED faults \/ Charge("fail")
      PROVE  faults' \in 0..MaxFaults
  BY <1>0, <1>4, ChargeFacts DEF TypeOK
<1> QED BY <1>2, <1>3, <1>4 DEF CreatePref

\* Deletion by label leaves no object of kube-vim and no new owner.
LEMMA DeleteAllOfFacts ==
    ASSUME NEW o \in Owners
    PROVE  /\ DeleteAllOf(o) \in Owners /\ DeleteAllOf(o) \notin Requests
           /\ o = Foreign => DeleteAllOf(o) = Foreign
BY FlavourAssumption DEF DeleteAllOf, Owners

\* The deletion of the instance type.
LEMMA DeleteInstInv ==
    ASSUME FlavourInv, NEW r \in Requests, DeleteInst(r)
    PROVE  FlavourInv'
<1> DEFINE f == req[r].id
<1>0. /\ TypeOK /\ Running(r) /\ f \in Flavours /\ req[r].op = "delete"
      /\ req[r].res = "none" /\ req[r].pc = "del_inst"
  BY DEF FlavourInv, DeleteInst, Phase, Running
<1>1. PICK out \in Outcomes :
          /\ Charge(out)
          /\ inst' = IF out = "fail" THEN inst ELSE [inst EXCEPT ![f] = DeleteAllOf(inst[f])]
          /\ IF out = "ok" THEN Go(r, "del_pref") ELSE Finish(r, "err")
  BY DEF DeleteInst, AfterInst
<1>2. UNCHANGED <<pref, cInst>> /\ inst[f] \in Owners
  BY <1>0 DEF DeleteInst, TypeOK
<1>3. /\ inst' \in [Flavours -> Owners]
      /\ \A g \in Flavours \ {f} : inst'[g] = inst[g]
      /\ out # "fail" => inst'[f] \notin Requests
      /\ out = "fail" => inst' = inst
  BY <1>0, <1>1, <1>2, DeleteAllOfFacts DEF TypeOK
<1>4. IF out = "ok" THEN Moves(r, "del_pref", "none") ELSE Moves(r, "done", "err")
  BY <1>0, <1>1, GoFacts, FinishFacts
<1>5. faults' \in 0..MaxFaults
  BY <1>0, <1>1, ChargeFacts
<1>6. TypeOK'
  BY <1>0, <1>2, <1>3, <1>4, <1>5 DEF TypeOK, Moves
<1> QED BY <1>0, <1>2, <1>3, <1>4, <1>6, StepInv DEF Outcomes

\* The deletion of the preference.
LEMMA DeletePrefInv ==
    ASSUME FlavourInv, NEW r \in Requests, DeletePref(r)
    PROVE  FlavourInv'
<1> DEFINE f == req[r].id
<1>0. /\ TypeOK /\ Running(r) /\ f \in Flavours /\ req[r].op = "delete"
      /\ req[r].res = "none" /\ req[r].pc = "del_pref"
  BY DEF FlavourInv, DeletePref, Phase, Running
<1>1. PICK out \in Outcomes :
          /\ Charge(out)
          /\ pref' = IF out = "fail" THEN pref ELSE [pref EXCEPT ![f] = DeleteAllOf(pref[f])]
          /\ Finish(r, IF out = "ok" THEN "ok" ELSE "err")
  BY DEF DeletePref
<1>2. UNCHANGED <<inst, cInst>> /\ pref[f] \in Owners
  BY <1>0 DEF DeletePref, TypeOK
<1>3. /\ pref' \in [Flavours -> Owners]
      /\ \A g \in Flavours \ {f} : pref'[g] = pref[g]
      /\ out # "fail" => pref'[f] \notin Requests
      /\ out = "fail" => pref' = pref
  BY <1>0, <1>1, <1>2, DeleteAllOfFacts DEF TypeOK
<1>4. IF out = "ok" THEN Moves(r, "done", "ok") ELSE Moves(r, "done", "err")
  BY <1>0, <1>1, FinishFacts
<1>5. faults' \in 0..MaxFaults
  BY <1>0, <1>1, ChargeFacts
<1>6. TypeOK'
  BY <1>0, <1>2, <1>3, <1>4, <1>5 DEF TypeOK, Moves
<1> QED BY <1>0, <1>2, <1>3, <1>4, <1>6, StepInv DEF Outcomes

\* A crash ends every running request where it stands.
LEMMA CrashInv ==
    ASSUME FlavourInv, Crash
    PROVE  FlavourInv'
<1> DEFINE dead(r) == [req[r] EXCEPT !.pc = "done", !.res = "crash"]
<1>1. \A r \in Requests : req[r] \in ReqRec
  BY DEF FlavourInv, TypeOK
<1>2. ASSUME NEW r \in Requests PROVE dead(r) \in ReqRec
  <2>1. req[r] \in ReqRec
    BY <1>1
  <2> QED BY <2>1, Zenon DEF ReqRec
<1>3. ASSUME NEW r \in Requests
      PROVE  /\ dead(r).pc = "done" /\ dead(r).res = "crash"
             /\ dead(r).op = req[r].op /\ dead(r).id = req[r].id
             /\ dead(r).before = req[r].before
  <2>1. req[r] \in ReqRec
    BY <1>1
  <2> QED BY <2>1 DEF ReqRec
<1>4. req' = [r \in Requests |-> IF Running(r) THEN dead(r) ELSE req[r]]
  BY DEF Crash
<1> HIDE DEF dead
<1>5. /\ req' \in [Requests -> ReqRec]
      /\ \A r \in Requests :
           /\ req'[r].op = req[r].op /\ req'[r].id = req[r].id
           /\ req'[r].before = req[r].before
           /\ \/ req'[r] = req[r] /\ req[r].pc \in {"idle", "done"}
              \/ req'[r].pc = "done" /\ req'[r].res = "crash"
  BY <1>1, <1>2, <1>3, <1>4 DEF Running
<1>6. faults' \in 0..MaxFaults /\ UNCHANGED <<inst, pref>> /\ cInst' \in [Flavours -> Requests \union {None}]
  BY ChargeFacts DEF Crash, FlavourInv, Managed
<1>7. TypeOK'
  BY <1>5, <1>6 DEF FlavourInv, TypeOK
<1>8. Phase'
  BY <1>5 DEF FlavourInv, Phase, Running
<1>9. BeforeEnded'
  BY <1>5 DEF FlavourInv, BeforeEnded, Ended
<1>10. (HalfDeleted /\ HalfCreated)'
  BY <1>5 DEF HalfDeleted, HalfCreated
<1>11. DeletedIsGone'
  BY <1>5, <1>6 DEF FlavourInv, DeletedIsGone
<1>12. CreatedStays'
  BY <1>5, <1>6 DEF FlavourInv, CreatedStays
<1> QED BY <1>7, <1>8, <1>9, <1>10, <1>11, <1>12 DEF FlavourInv

\* Every step of the specification keeps the invariant.
LEMMA NextInv == FlavourInv /\ [Next]_vars => FlavourInv'
<1> SUFFICES ASSUME FlavourInv, [Next]_vars PROVE FlavourInv'
  OBVIOUS
<1>1. CASE UNCHANGED <<inst, pref, req, faults>> /\ cInst' \in [Flavours -> Requests \union {None}]
  <2>1. TypeOK'
    BY <1>1 DEF FlavourInv, TypeOK
  <2>2. (Phase /\ BeforeEnded /\ HalfDeleted /\ HalfCreated)'
    BY <1>1 DEF FlavourInv, Phase, BeforeEnded, HalfDeleted, HalfCreated,
       DeletionOf, Running, Ended
  <2>3. (DeletedIsGone /\ CreatedStays)'
    BY <1>1 DEF FlavourInv, DeletedIsGone, CreatedStays
  <2> QED BY <2>1, <2>2, <2>3 DEF FlavourInv
<1>2. CASE UNCHANGED vars
  BY <1>1, <1>2 DEF vars, FlavourInv, TypeOK
<1>3. CASE WatchInst
  BY <1>1, <1>3 DEF WatchInst, Managed
<1>4. CASE Crash
  BY <1>4, CrashInv
<1>5. ASSUME NEW r \in Requests, Step(r)
      PROVE  FlavourInv'
  BY <1>5, CreateInstInv, CreatePrefInv, DeleteInstInv, DeletePrefInv DEF Step
<1>6. ASSUME NEW r \in Requests,
             \/ Reject(r)
             \/ \E f \in Flavours : CallDelete(r, f) \/ \E opaque \in BOOLEAN : CallCreate(r, f, opaque)
      PROVE  FlavourInv'
  BY <1>6, CallsInv
<1> QED BY <1>2, <1>3, <1>4, <1>5, <1>6 DEF Next

\* The invariant holds in every reachable state.
LEMMA InvAlways == Spec => []FlavourInv
BY InitInv, NextInv, PTL DEF Spec

-----------------------------------------------------------------------------
(* The theorems *)

(* Every reachable state of the flavour manager is well typed.             *)
THEOREM FlavourTypeCorrect == Spec => []TypeOK
<1>1. FlavourInv => TypeOK
  BY DEF FlavourInv
<1> QED BY <1>1, InvAlways, PTL

(* After a successful DeleteFlavour nothing is left of the creations that  *)
(* had ended before it, whole or half.                                     *)
THEOREM DeletionIsComplete == Spec => []DeletedIsGone
<1>1. FlavourInv => DeletedIsGone
  BY DEF FlavourInv
<1> QED BY <1>1, InvAlways, PTL

(* A created flavour stays whole until a DeleteFlavour of its id.          *)
THEOREM CreationsStay == Spec => []CreatedStays
<1>1. FlavourInv => CreatedStays
  BY DEF FlavourInv
<1> QED BY <1>1, InvAlways, PTL

(* No step of CreateFlavour or DeleteFlavour changes an object of others.  *)
THEOREM ForeignObjectsUntouched == Spec => ForeignUntouched
<1>1. ASSUME TypeOK, [Next]_vars, NEW f \in Flavours
      PROVE  /\ inst[f] = Foreign => inst'[f] = Foreign
             /\ pref[f] = Foreign => pref'[f] = Foreign
  <2>1. /\ inst \in [Flavours -> Owners] /\ pref \in [Flavours -> Owners]
        /\ Foreign # None
    BY <1>1, FlavourAssumption DEF TypeOK
  <2>2. ASSUME NEW r \in Requests, CreateInst(r) \/ CreatePref(r)
        PROVE  /\ inst[f] = Foreign => inst'[f] = Foreign
               /\ pref[f] = Foreign => pref'[f] = Foreign
    BY <2>1, <2>2 DEF CreateInst, CreatePref, CreateFailed
  <2>3. ASSUME NEW r \in Requests, DeleteInst(r) \/ DeletePref(r)
        PROVE  /\ inst[f] = Foreign => inst'[f] = Foreign
               /\ pref[f] = Foreign => pref'[f] = Foreign
    BY <2>1, <2>3, DeleteAllOfFacts DEF DeleteInst, DeletePref
  <2>4. CASE \/ UNCHANGED vars \/ WatchInst \/ Crash
             \/ \E r \in Requests : Reject(r)
             \/ \E r \in Requests, g \in Flavours :
                    CallDelete(r, g) \/ \E opaque \in BOOLEAN : CallCreate(r, g, opaque)
    BY <2>4 DEF vars, WatchInst, Crash, Reject, CallCreate, CallDelete
  <2> QED BY <1>1, <2>2, <2>3, <2>4 DEF Next, Step
<1>2. TypeOK /\ [Next]_vars =>
        [\A f \in Flavours : /\ inst[f] = Foreign => inst'[f] = Foreign
                             /\ pref[f] = Foreign => pref'[f] = Foreign]_vars
  BY <1>1
<1> QED BY <1>2, FlavourTypeCorrect, PTL DEF Spec, ForeignUntouched

=============================================================================
