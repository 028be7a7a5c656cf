--------------------------- MODULE ComputeProofs ---------------------------
(***************************************************************************)
(* Machine-checked proofs about Compute, for any set of requests, any set  *)
(* of names and any number of faults.                                      *)
(***************************************************************************)
EXTENDS Compute, TLAPS

-----------------------------------------------------------------------------
(* The inductive invariant *)

AllocatePcs == {"secret", "secret_update", "resolve", "vm", "wait"}
FoundPcs == {"find_vmi", "delete"}
TerminatePcs == FoundPcs \union {"find", "delete_secret"}

\* An allocation that will not create a VM any more.
Past(u) == req[u].op = "allocate" /\ req[u].pc \in {"wait", "done"}

\* The pc says which operation is running, and what it knows.
Phase ==
    \A r \in Requests :
        /\ req[r].pc = "idle" => req[r].op = "none" /\ req[r].name = None
        /\ req[r].pc \in AllocatePcs => req[r].op = "allocate" /\ req[r].name \in Names
        /\ req[r].pc \in TerminatePcs => req[r].op = "terminate"
        /\ req[r].pc \in FoundPcs \union {"delete_secret"} => req[r].name \in Names
        /\ req[r].op = "terminate" => req[r].uid \in Requests /\ Past(req[r].uid)
        /\ req[r].res # "none" => req[r].pc = "done"

\* The VM with UID u can only have name n.
OnlyAt(u, n) == \A m \in Names : vm[m] # None /\ vm[m].uid = u => m = n

\* A UID stands for one VM, created once, under one name.
Origin ==
    /\ \A n \in Names : vm[n] # None => Past(vm[n].uid) /\ OnlyAt(vm[n].uid, n)
    /\ \A n \in Names : cVm[n] # None => Past(cVm[n]) /\ OnlyAt(cVm[n], n)
    /\ \A r \in Requests : req[r].pc \in FoundPcs => OnlyAt(req[r].uid, req[r].name)

\* The VM with UID u is gone or on its way.
Gone(u) == \A n \in Names : vm[n] # None => vm[n].uid # u \/ vm[n].del

\* A termination that has reached the Secret has got rid of its VM.
Deleted ==
    \A r \in Requests :
        \/ req[r].pc = "delete_secret"
        \/ req[r].op = "terminate" /\ req[r].res = "ok"
        => Gone(req[r].uid)

\* On a name that is not shared there is one running call at most.
Alone ==
    \A p, r \in Requests : Running(p) /\ Running(r) /\ p # r /\ req[p].name \in Names
        => req[p].name # req[r].name \/ req[p].name \in shared

\* What the call that is alone on a name knows of its Secret and VM.
SecretKept ==
    \A r \in Requests : req[r].name \in Names \ shared =>
        /\ req[r].pc \in {"resolve", "vm"} /\ req[r].ud # "none"
             => secret[req[r].name] # None
        /\ req[r].pc = "delete_secret" /\ vm[req[r].name] # None
             => vm[req[r].name].del

Live(n, u) == vm[n] # None /\ vm[n].uid = u /\ ~vm[n].del

\* A termination of u may have deleted its VM.
Touched(u) == \E p \in Requests : /\ req[p].op = "terminate" /\ req[p].uid = u
                                  /\ req[p].pc \in {"delete_secret", "done"}

\* Without a second termination only the first one deletes a VM.
OnTarget ==
    ~TerminatedTwice =>
        /\ \A n \in Names : vm[n] # None /\ vm[n].del => Touched(vm[n].uid)
        /\ \A n \in Names : cVm[n] # None => Touched(cVm[n]) \/ Live(n, cVm[n])
        /\ \A r \in Requests : req[r].pc \in FoundPcs => Live(req[r].name, req[r].uid)

ComputeInv == /\ TypeOK /\ Phase /\ Origin /\ Deleted /\ Alone /\ SecretKept
              /\ OnTarget /\ LiveVmHasSecret

-----------------------------------------------------------------------------
(* What the helpers do to a request and to the count of faults *)

\* Request r is replaced by one with these fields.
Upd(r, pc, op, name, ud, uid, res) ==
    /\ req' \in [Requests -> ReqRec]
    /\ \A p \in Requests \ {r} : req'[p] = req[p]
    /\ req'[r].pc = pc /\ req'[r].op = op /\ req'[r].name = name
    /\ req'[r].ud = ud /\ req'[r].uid = uid /\ req'[r].res = res

\* Going on changes the pc of one request.
LEMMA GoFacts ==
    ASSUME TypeOK, NEW r \in Requests, NEW pc \in Pcs, Go(r, pc)
    PROVE  Upd(r, pc, req[r].op, req[r].name, req[r].ud, req[r].uid, req[r].res)
<1>1. req \in [Requests -> ReqRec] /\ req[r] \in ReqRec
  BY DEF TypeOK
<1>2. [req[r] EXCEPT !.pc = pc] \in ReqRec
  BY <1>1, Zenon DEF ReqRec
<1>3. req' = [req EXCEPT ![r] = [req[r] EXCEPT !.pc = pc]]
  BY <1>1 DEF Go
<1> QED BY <1>1, <1>2, <1>3 DEF ReqRec, Upd

\* The idle request.
LEMMA IdleFacts ==
    /\ Idle \in ReqRec /\ Idle.pc = "idle" /\ Idle.op = "none" /\ Idle.name = None
    /\ Idle.ud = "none" /\ Idle.uid = None /\ Idle.res = "none"
BY DEF Idle, ReqRec, Pcs, UserData, Results

\* What is remembered of a request that has ended.
LEMMA EndedFacts ==
    ASSUME NEW q \in ReqRec, NEW res \in {"ok", "err", "crash"}
    PROVE  /\ Ended(q, res) \in ReqRec
           /\ Ended(q, res).pc = "done" /\ Ended(q, res).op = q.op
           /\ Ended(q, res).name = None /\ Ended(q, res).ud = "none"
           /\ Ended(q, res).uid = q.uid /\ Ended(q, res).res = res
<1> DEFINE op == q.op
           uid == q.uid
           e == [Idle EXCEPT !.pc = "done", !.op = op, !.uid = uid, !.res = res]
<1>1. op \in {"none", "allocate", "terminate"} /\ uid \in Requests \union {None}
  BY DEF ReqRec
<1>2. e = Ended(q, res)
  BY DEF Ended
<1> HIDE DEF op, uid
<1>3. e \in ReqRec
  BY <1>1, IdleFacts, Zenon DEF ReqRec, Pcs, Results
<1>4. /\ e.pc = "done" /\ e.op = op /\ e.name = None /\ e.ud = "none"
      /\ e.uid = uid /\ e.res = res
  BY IdleFacts DEF ReqRec
<1> QED BY <1>2, <1>3, <1>4 DEF op, uid

\* Returning ends one request with an answer.
LEMMA FinishFacts ==
    ASSUME TypeOK, NEW r \in Requests, NEW res \in {"ok", "err"}, Finish(r, res)
    PROVE  Upd(r, "done", req[r].op, None, "none", req[r].uid, res)
<1>1. req \in [Requests -> ReqRec] /\ req[r] \in ReqRec
  BY DEF TypeOK
<1>2. req' = [req EXCEPT ![r] = Ended(req[r], res)]
  BY DEF Finish
<1> QED BY <1>1, <1>2, EndedFacts DEF Upd

\* The count of faults stays within its bound.
LEMMA ChargeFacts ==
    ASSUME TypeOK, NEW out, Charge(out)
    PROVE  faults' \in 0..MaxFaults
BY ComputeAssumption DEF TypeOK, Charge

\* Names only become shared, and a name claimed by two calls is.
LEMMA ClaimFacts ==
    ASSUME TypeOK, NEW r \in Requests, NEW n \in Names, Claim(r, n)
    PROVE  /\ shared' \in SUBSET Names /\ shared \subseteq shared'
           /\ \A p \in Requests \ {r} : Running(p) /\ req[p].name = n => n \in shared'
BY DEF TypeOK, Claim

-----------------------------------------------------------------------------
(* Every step keeps the invariant *)

\* The initial state satisfies the invariant.
LEMMA InitInv == Init => ComputeInv
<1> SUFFICES ASSUME Init PROVE ComputeInv
  OBVIOUS
<1>1. TypeOK
  BY IdleFacts, ComputeAssumption DEF TypeOK, Init
<1>2. \A r \in Requests : /\ req[r].pc = "idle" /\ req[r].op = "none"
                          /\ req[r].res = "none" /\ req[r].name = None
  BY IdleFacts DEF Init
<1>3. \A n \in Names : vm[n] = None /\ cVm[n] = None
  BY DEF Init
<1> USE DEF AllocatePcs, FoundPcs, TerminatePcs
<1>4. Phase /\ Deleted /\ Alone /\ SecretKept
  BY <1>2 DEF Phase, Deleted, Alone, SecretKept, Running
<1>5. Origin /\ OnTarget /\ LiveVmHasSecret
  BY <1>2, <1>3 DEF Origin, OnTarget, LiveVmHasSecret
<1> QED BY <1>1, <1>4, <1>5 DEF ComputeInv

\* What a request was called for stays: Past, Touched and TerminatedTwice
\* never become false again.
LEMMA Stable ==
    ASSUME \A p \in Requests :
             /\ req[p].op = "terminate" =>
                  /\ req'[p].op = "terminate" /\ req'[p].uid = req[p].uid
                  /\ req[p].pc \in {"delete_secret", "done"}
                       => req'[p].pc \in {"delete_secret", "done"}
             /\ Past(p) => Past(p)'
    PROVE  /\ TerminatedTwice => TerminatedTwice'
           /\ \A u : Touched(u) => Touched(u)'
<1>1. TerminatedTwice => TerminatedTwice'
  BY DEF TerminatedTwice
<1>2. ASSUME NEW u, Touched(u) PROVE Touched(u)'
  BY <1>2 DEF Touched
<1> QED BY <1>1, <1>2

\* The moves of a request that create or delete no VM.
Moves(r, pc, op, name, ud, uid, res) ==
    \/ /\ req[r].pc = "idle" /\ pc \in {"secret", "resolve"} /\ op = "allocate"
       /\ name \in Names /\ res = "none" /\ (pc = "resolve" => ud = "none")
    \/ /\ req[r].pc = "idle" /\ pc = "find" /\ op = "terminate" /\ res = "none"
       /\ uid \in Requests /\ Past(uid) /\ name = None
    \/ /\ req[r].pc = "idle" /\ pc = "done" /\ op = "allocate" /\ name = None
    \/ /\ Running(r) /\ pc = "done" /\ op = req[r].op /\ uid = req[r].uid
       /\ name = None
       /\ op = "terminate" /\ res = "ok" => req[r].pc = "delete_secret"
    \/ /\ <<req[r].pc, pc>> \in {<<"secret", "secret_update">>,
             <<"resolve", "vm">>, <<"find_vmi", "delete">>, <<"secret", "resolve">>,
             <<"secret_update", "resolve">>}
       /\ op = req[r].op /\ name = req[r].name /\ ud = req[r].ud
       /\ uid = req[r].uid /\ res = "none"
    \/ /\ req[r].pc = "find" /\ pc = "find_vmi" /\ op = req[r].op
       /\ name \in Names /\ cVm[name] = req[r].uid
       /\ uid = req[r].uid /\ res = "none"

(* A step of request r that leaves VMs and their cache alone: a call       *)
(* starts, ends, goes on, or finds the VM with its UID.                    *)
LEMMA RequestMoves ==
    ASSUME ComputeInv, NEW r \in Requests, UNCHANGED <<vm, cVm>>,
           NEW pc, NEW op, NEW name, NEW ud, NEW uid, NEW res,
           Upd(r, pc, op, name, ud, uid, res),
           shared \subseteq shared',
           name \in Names /\ name # req[r].name =>
               \A p \in Requests \ {r} : Running(p) /\ req[p].name = name => name \in shared',
           Moves(r, pc, op, name, ud, uid, res)
    PROVE  (Phase /\ Origin /\ Deleted /\ Alone /\ OnTarget)'
<1> USE DEF Moves, AllocatePcs, FoundPcs, TerminatePcs
<1>0. None \notin Names /\ None \notin Requests
  BY ComputeAssumption
<1>1. /\ \A p \in Requests \ {r} : req'[p] = req[p]
      /\ req'[r].pc = pc /\ req'[r].op = op /\ req'[r].name = name
      /\ req'[r].ud = ud /\ req'[r].uid = uid /\ req'[r].res = res
  BY DEF Upd
<1>2. /\ req[r].pc = "idle" => req[r].op = "none" /\ req[r].name = None
      /\ req[r].pc \in AllocatePcs => req[r].op = "allocate" /\ req[r].name \in Names
      /\ req[r].pc \in TerminatePcs => req[r].op = "terminate"
      /\ req[r].pc \in FoundPcs \union {"delete_secret"} => req[r].name \in Names
      /\ req[r].op = "terminate" => req[r].uid \in Requests /\ Past(req[r].uid)
  BY DEF ComputeInv, Phase
<1>3. \A p \in Requests : Past(p) => Past(p)'
  BY <1>1, <1>2 DEF Past, Running
<1>4. \A p \in Requests : req[p].op = "terminate" =>
         /\ req'[p].op = "terminate" /\ req'[p].uid = req[p].uid
         /\ req[p].pc \in {"delete_secret", "done"}
              => req'[p].pc \in {"delete_secret", "done"}
  BY <1>1, <1>2 DEF Running
<1>5. /\ TerminatedTwice => TerminatedTwice'
      /\ \A u : Touched(u) => Touched(u)'
  BY <1>3, <1>4, Stable
<1>6. \A u, n : /\ OnlyAt(u, n) => OnlyAt(u, n)'
                /\ Gone(u) => Gone(u)'
                /\ Live(n, u) => Live(n, u)'
  BY DEF OnlyAt, Gone, Live
<1>7. Phase'
  BY <1>1, <1>2, <1>3 DEF ComputeInv, Phase, Running
<1>8. Origin'
  <2>1. \A n \in Names : /\ vm[n] # None => vm[n].uid \in Requests
                         /\ cVm[n] # None => cVm[n] \in Requests
    BY DEF ComputeInv, TypeOK, VmObj
  <2>2. \A n \in Names :
          (/\ vm[n] # None => Past(vm[n].uid) /\ OnlyAt(vm[n].uid, n)
           /\ cVm[n] # None => Past(cVm[n]) /\ OnlyAt(cVm[n], n))'
    BY <1>3, <1>6, <2>1 DEF ComputeInv, Origin
  <2>3. ASSUME NEW p \in Requests, p # r, req'[p].pc \in FoundPcs
        PROVE  OnlyAt(req[p].uid, req[p].name)'
    BY <1>1, <1>6, <2>3 DEF ComputeInv, Origin
  <2>4. ASSUME pc \in FoundPcs
        PROVE  OnlyAt(uid, name)
    BY <1>0, <1>2, <2>4 DEF ComputeInv, Origin
  <2> QED BY <1>1, <1>6, <2>2, <2>3, <2>4 DEF Origin
<1>9. Deleted'
  <2>1. /\ pc # "delete_secret"
        /\ op = "terminate" /\ res = "ok" => req[r].pc = "delete_secret" /\ uid = req[r].uid
    BY <1>2 DEF Running
  <2> QED BY <1>1, <1>6, <2>1 DEF ComputeInv, Deleted
<1>10. Alone'
  <2> SUFFICES ASSUME NEW p \in Requests, NEW q \in Requests, p # q,
                      Running(p)', Running(q)', req'[p].name \in Names,
                      req'[p].name = req'[q].name
               PROVE  req'[p].name \in shared'
    BY DEF Alone
  <2>1. \A o \in Requests : Running(o)' /\ o # r => Running(o) /\ req'[o].name = req[o].name
    BY <1>1 DEF Running
  <2>2. CASE p # r /\ q # r
    BY <2>1, <2>2 DEF ComputeInv, Alone
  <2>3. CASE (p = r \/ q = r) /\ name # req[r].name
    BY <1>1, <2>1, <2>3
  <2>4. CASE (p = r \/ q = r) /\ name = req[r].name
    <3>1. Running(r)
      BY <1>0, <1>1, <1>2, <2>4 DEF Running
    <3> QED BY <1>1, <2>1, <2>4, <3>1 DEF ComputeInv, Alone
  <2> QED BY <2>2, <2>3, <2>4
<1>11. OnTarget'
  <2>1. SUFFICES ASSUME ~TerminatedTwice', ~TerminatedTwice
                 PROVE  OnTarget'
    BY <1>5 DEF OnTarget
  <2>2. \A n \in Names : (vm[n] # None /\ vm[n].del => Touched(vm[n].uid))'
    BY <1>5, <2>1 DEF ComputeInv, OnTarget
  <2>3. \A n \in Names : (cVm[n] # None => Touched(cVm[n]) \/ Live(n, cVm[n]))'
    BY <1>5, <1>6, <2>1 DEF ComputeInv, OnTarget
  <2>4. ASSUME NEW p \in Requests, p # r, req'[p].pc \in FoundPcs
        PROVE  Live(req[p].name, req[p].uid)'
    BY <1>1, <1>6, <2>1, <2>4 DEF ComputeInv, OnTarget
  <2>5. ASSUME pc \in FoundPcs
        PROVE  Live(name, uid)
    <3>1. CASE req[r].pc \in FoundPcs
      BY <2>1, <2>5, <3>1 DEF ComputeInv, OnTarget
    <3>2. CASE req[r].pc = "find"
      <4>1. cVm[name] = uid /\ uid \in Requests /\ name \in Names
            /\ uid = req[r].uid /\ req[r].op = "terminate"
        BY <1>2, <2>5, <3>2
      <4>2. ~Touched(uid)
        BY <2>1, <3>2, <4>1 DEF Touched, TerminatedTwice
      <4> QED BY <1>0, <2>1, <4>1, <4>2 DEF ComputeInv, OnTarget
    <3> QED BY <2>5, <3>1, <3>2
  <2> QED BY <1>1, <1>6, <2>1, <2>2, <2>3, <2>4, <2>5 DEF OnTarget
<1> QED BY <1>7, <1>8, <1>9, <1>10, <1>11

\* The same, with Secrets written but none removed.
LEMMA RequestMovesInv ==
    ASSUME ComputeInv, TypeOK', NEW r \in Requests, UNCHANGED <<vm, cVm>>,
           NEW pc, NEW op, NEW name, NEW ud, NEW uid, NEW res,
           Upd(r, pc, op, name, ud, uid, res),
           shared \subseteq shared',
           name \in Names /\ name # req[r].name =>
               \A p \in Requests \ {r} : Running(p) /\ req[p].name = name => name \in shared',
           Moves(r, pc, op, name, ud, uid, res),
           \A n \in Names : secret[n] # None => secret'[n] # None,
           req[r].pc \in {"secret", "secret_update"} /\ pc = "resolve"
               => secret'[name] # None
    PROVE  ComputeInv'
<1>1. (Phase /\ Origin /\ Deleted /\ Alone /\ OnTarget)'
  BY RequestMoves
<1>2. /\ \A p \in Requests \ {r} : req'[p] = req[p]
      /\ req'[r].pc = pc /\ req'[r].name = name /\ req'[r].ud = ud
  BY DEF Upd
<1>3. SecretKept'
  BY <1>2 DEF ComputeInv, SecretKept, Moves
<1>4. LiveVmHasSecret'
  BY DEF ComputeInv, LiveVmHasSecret
<1> QED BY <1>1, <1>3, <1>4 DEF ComputeInv

\* A running request ends; VMs and Secrets are as before.
LEMMA FinishInv ==
    ASSUME ComputeInv, NEW r \in Requests, Running(r), NEW res \in {"ok", "err"},
           Finish(r, res), req[r].op = "terminate" => res = "err",
           UNCHANGED <<vm, secret, cVm, shared>>,
           vmi' \in [Names -> VmiObj \union {None}],
           cVmi' \in SUBSET Names, opaque' \in SUBSET Names, faults' \in 0..MaxFaults
    PROVE  ComputeInv'
<1>1. Upd(r, "done", req[r].op, None, "none", req[r].uid, res)
  BY FinishFacts DEF ComputeInv
<1>2. TypeOK'
  BY <1>1 DEF ComputeInv, TypeOK, Upd
<1>3. Moves(r, "done", req[r].op, None, "none", req[r].uid, res)
  BY DEF Moves
<1>4. None \notin Names
  BY ComputeAssumption
<1> QED BY <1>1, <1>2, <1>3, <1>4, RequestMovesInv

\* A running request goes on; VMs are as before and no Secret is removed.
LEMMA GoInv ==
    ASSUME ComputeInv, NEW r \in Requests, NEW pc \in Pcs, Go(r, pc),
           <<req[r].pc, pc>> \in {<<"secret", "secret_update">>,
             <<"resolve", "vm">>, <<"find_vmi", "delete">>, <<"secret", "resolve">>,
             <<"secret_update", "resolve">>},
           UNCHANGED <<vm, vmi, caches, shared>>,
           secret' \in [Names -> Requests \union {None}],
           \A n \in Names : secret[n] # None => secret'[n] # None,
           pc = "resolve" => secret'[req[r].name] # None,
           faults' \in 0..MaxFaults
    PROVE  ComputeInv'
<1>1. Upd(r, pc, req[r].op, req[r].name, req[r].ud, req[r].uid, req[r].res)
  BY GoFacts DEF ComputeInv
<1>2. TypeOK'
  BY <1>1 DEF ComputeInv, TypeOK, Upd, caches
<1>3. req[r].res = "none"
  BY DEF ComputeInv, Phase
<1>4. Moves(r, pc, req[r].op, req[r].name, req[r].ud, req[r].uid, req[r].res)
  BY <1>3 DEF Moves
<1> QED BY <1>1, <1>2, <1>4, RequestMovesInv DEF caches

\* A call starts: q is the new request.
LEMMA CallInv ==
    ASSUME ComputeInv, NEW r \in Requests, req[r].pc = "idle", NEW q \in ReqRec,
           req' = [req EXCEPT ![r] = q], UNCHANGED <<objects, caches, faults>>,
           shared' \in SUBSET Names, shared \subseteq shared',
           q.name \in Names =>
               \A p \in Requests \ {r} : Running(p) /\ req[p].name = q.name => q.name \in shared',
           Moves(r, q.pc, q.op, q.name, q.ud, q.uid, q.res)
    PROVE  ComputeInv'
<1>1. Upd(r, q.pc, q.op, q.name, q.ud, q.uid, q.res)
  BY DEF ComputeInv, TypeOK, Upd
<1>2. TypeOK'
  BY DEF ComputeInv, TypeOK, objects, caches
<1> QED BY <1>1, <1>2, RequestMovesInv DEF objects, caches

\* AllocateComputeResource is called.
LEMMA CallAllocateInv ==
    ASSUME ComputeInv, NEW r \in Requests, NEW n \in Names, NEW ud \in UserData,
           CallAllocate(r, n, ud)
    PROVE  ComputeInv'
<1> DEFINE pc == IF ud = "none" THEN "resolve" ELSE "secret"
           q == [Idle EXCEPT !.op = "allocate", !.name = n, !.ud = ud, !.pc = pc]
<1>1. pc \in Pcs /\ pc \in {"resolve", "secret"} /\ (pc = "resolve" => ud = "none")
  BY DEF Pcs
<1>2. /\ req[r].pc = "idle" /\ req' = [req EXCEPT ![r] = q]
      /\ Claim(r, n) /\ UNCHANGED <<objects, caches, faults>>
  BY DEF CallAllocate
<1> HIDE DEF pc
<1>3. q \in ReqRec
  BY <1>1, IdleFacts, Zenon DEF ReqRec
<1>4. /\ q.pc = pc /\ q.op = "allocate" /\ q.name = n /\ q.ud = ud
      /\ q.uid = None /\ q.res = "none"
  BY IdleFacts DEF ReqRec
<1> HIDE DEF q
<1>5. Moves(r, q.pc, q.op, q.name, q.ud, q.uid, q.res)
  BY <1>1, <1>2, <1>4 DEF Moves
<1>6. /\ shared' \in SUBSET Names /\ shared \subseteq shared'
      /\ \A p \in Requests \ {r} : Running(p) /\ req[p].name = n => n \in shared'
  BY <1>2, ClaimFacts DEF ComputeInv
<1> QED BY <1>2, <1>3, <1>4, <1>5, <1>6, CallInv

\* AllocateComputeResource refuses a request before it writes anything.
LEMMA RejectInv ==
    ASSUME ComputeInv, NEW r \in Requests, Reject(r)
    PROVE  ComputeInv'
<1> DEFINE q == [Idle EXCEPT !.op = "allocate", !.pc = "done", !.res = "err"]
<1>1. /\ req[r].pc = "idle" /\ req' = [req EXCEPT ![r] = q]
      /\ UNCHANGED <<objects, caches, shared, faults>>
  BY DEF Reject
<1>2. q \in ReqRec
  BY IdleFacts, Zenon DEF ReqRec, Pcs, Results
<1>3. q.pc = "done" /\ q.op = "allocate" /\ q.name = None
  BY IdleFacts DEF ReqRec
<1> HIDE DEF q
<1>4. Moves(r, q.pc, q.op, q.name, q.ud, q.uid, q.res)
  BY <1>1, <1>3 DEF Moves
<1>5. None \notin Names /\ shared \in SUBSET Names
  BY ComputeAssumption DEF ComputeInv, TypeOK
<1> QED BY <1>1, <1>2, <1>3, <1>4, <1>5, CallInv

\* DeleteComputeResource is called.
LEMMA CallTerminateInv ==
    ASSUME ComputeInv, NEW r \in Requests, NEW u \in Requests, CallTerminate(r, u)
    PROVE  ComputeInv'
<1> DEFINE q == [Idle EXCEPT !.op = "terminate", !.uid = u, !.pc = "find"]
<1>1. /\ req[r].pc = "idle" /\ req' = [req EXCEPT ![r] = q] /\ Past(u)
      /\ UNCHANGED <<objects, caches, shared, faults>>
  BY DEF CallTerminate, Past
<1>2. q \in ReqRec
  BY IdleFacts, Zenon DEF ReqRec, Pcs
<1>3. q.pc = "find" /\ q.op = "terminate" /\ q.name = None /\ q.uid = u /\ q.res = "none"
  BY IdleFacts DEF ReqRec
<1> HIDE DEF q
<1>4. Moves(r, q.pc, q.op, q.name, q.ud, q.uid, q.res)
  BY <1>1, <1>3 DEF Moves
<1>5. None \notin Names /\ shared \in SUBSET Names
  BY ComputeAssumption DEF ComputeInv, TypeOK
<1> QED BY <1>1, <1>2, <1>3, <1>4, <1>5, CallInv

\* The Secret is created or overwritten.
LEMMA WriteSecretInv ==
    ASSUME ComputeInv, NEW r \in Requests, CreateSecret(r) \/ UpdateSecret(r)
    PROVE  ComputeInv'
<1> DEFINE n == req[r].name
<1>1. /\ TypeOK /\ req[r].pc \in {"secret", "secret_update"} /\ n \in Names
      /\ req[r].op = "allocate" /\ Running(r)
      /\ UNCHANGED <<vm, vmi, caches, shared>>
  BY DEF ComputeInv, Phase, CreateSecret, UpdateSecret, AllocatePcs, Running
<1>2. /\ vmi' \in [Names -> VmiObj \union {None}]
      /\ cVmi' \in SUBSET Names /\ opaque' \in SUBSET Names
      /\ UNCHANGED <<vm, cVm, shared>>
  BY <1>1 DEF TypeOK, caches
<1>3. ASSUME Finish(r, "err"), UNCHANGED secret, UNCHANGED faults \/ Charge("fail")
      PROVE  ComputeInv'
  <2>1. faults' \in 0..MaxFaults
    BY <1>1, <1>3, ChargeFacts DEF TypeOK
  <2> QED BY <1>1, <1>2, <1>3, <2>1, FinishInv
<1>4. CASE req[r].pc = "secret" /\ Go(r, "secret_update") /\ UNCHANGED <<secret, faults>>
  BY <1>1, <1>4, GoInv DEF Pcs, TypeOK
<1>5. ASSUME NEW out \in Outcomes, Charge(out),
             secret' = IF out = "fail" THEN secret ELSE [secret EXCEPT ![n] = r],
             IF out = "ok" THEN Go(r, "resolve") ELSE Finish(r, "err")
      PROVE  ComputeInv'
  <2>1. faults' \in 0..MaxFaults
    BY <1>1, <1>5, ChargeFacts
  <2>2. /\ secret' \in [Names -> Requests \union {None}]
        /\ \A m \in Names : secret[m] # None => secret'[m] # None
        /\ out = "ok" => secret'[n] # None
    BY <1>1, <1>5, ComputeAssumption DEF TypeOK
  <2>3. CASE out = "ok"
    BY <1>1, <1>5, <2>1, <2>2, <2>3, GoInv DEF Pcs
  <2>4. CASE out # "ok"
    <3>1. Upd(r, "done", req[r].op, None, "none", req[r].uid, "err")
      BY <1>1, <1>5, <2>4, FinishFacts
    <3>2. TypeOK'
      BY <1>1, <1>2, <2>1, <2>2, <3>1 DEF TypeOK, Upd
    <3>3. Moves(r, "done", req[r].op, None, "none", req[r].uid, "err")
      BY <1>1 DEF Moves
    <3>4. None \notin Names
      BY ComputeAssumption
    <3> QED BY <1>2, <2>2, <3>1, <3>2, <3>3, <3>4, RequestMovesInv
  <2> QED BY <2>3, <2>4
<1>6. CASE CreateSecret(r)
  BY <1>3, <1>4, <1>5, <1>6 DEF CreateSecret
<1>7. CASE UpdateSecret(r)
  BY <1>3, <1>5, <1>7 DEF UpdateSecret
<1> QED BY <1>6, <1>7

\* Interfaces are resolved, or not.
LEMMA ResolveInv ==
    ASSUME ComputeInv, NEW r \in Requests, Resolve(r)
    PROVE  ComputeInv'
<1>1. /\ TypeOK /\ req[r].pc = "resolve" /\ req[r].op = "allocate" /\ Running(r)
      /\ UNCHANGED <<objects, caches, shared, faults>>
  BY DEF ComputeInv, Phase, Resolve, AllocatePcs, Running
<1>2. CASE Finish(r, "err")
  BY <1>1, <1>2, FinishInv DEF TypeOK, objects, caches
<1>3. CASE Go(r, "vm")
  BY <1>1, <1>3, GoInv DEF TypeOK, objects, Pcs
<1> QED BY <1>2, <1>3 DEF Resolve

\* The wait for the VMI ends.
LEMMA WaitInv ==
    ASSUME ComputeInv, NEW r \in Requests, WaitForVmi(r) \/ Timeout(r)
    PROVE  ComputeInv'
<1>1. /\ TypeOK /\ req[r].pc = "wait" /\ req[r].op = "allocate" /\ Running(r)
      /\ UNCHANGED <<objects, caches, shared>>
  BY DEF ComputeInv, Phase, WaitForVmi, Timeout, AllocatePcs, Running
<1>2. faults' \in 0..MaxFaults
  BY <1>1, ChargeFacts DEF WaitForVmi, Timeout, TypeOK
<1>3. Finish(r, "ok") \/ Finish(r, "err")
  BY DEF WaitForVmi, Timeout, Converted
<1> QED BY <1>1, <1>2, <1>3, FinishInv DEF TypeOK, objects, caches

\* The lookup of the VM and of its VMI.
LEMMA FindInv ==
    ASSUME ComputeInv, NEW r \in Requests, FindVm(r) \/ FindVmi(r)
    PROVE  ComputeInv'
<1>1. /\ TypeOK /\ req[r].pc \in {"find", "find_vmi"} /\ Running(r)
      /\ req[r].op = "terminate" /\ req[r].res = "none"
      /\ UNCHANGED <<objects, caches>>
  BY DEF ComputeInv, Phase, FindVm, FindVmi, FoundPcs, TerminatePcs, Running
<1>2. ASSUME Finish(r, "err"), UNCHANGED shared, UNCHANGED faults \/ Charge("fail")
      PROVE  ComputeInv'
  <2>1. faults' \in 0..MaxFaults
    BY <1>1, <1>2, ChargeFacts DEF TypeOK
  <2> QED BY <1>1, <1>2, <2>1, FinishInv DEF TypeOK, objects, caches
<1>3. CASE req[r].pc = "find_vmi" /\ Go(r, "delete") /\ UNCHANGED <<shared, faults>>
  BY <1>1, <1>3, GoInv DEF TypeOK, objects, Pcs
<1>4. ASSUME NEW n \in Names, req[r].pc = "find", cVm[n] = req[r].uid,
             req' = [req EXCEPT ![r].name = n, ![r].pc = "find_vmi"],
             Claim(r, n), UNCHANGED faults
      PROVE  ComputeInv'
  <2> DEFINE q == [req[r] EXCEPT !.name = n, !.pc = "find_vmi"]
  <2>1. req \in [Requests -> ReqRec] /\ req[r] \in ReqRec
    BY <1>1 DEF TypeOK
  <2>2. q \in ReqRec
    BY <2>1, Zenon DEF ReqRec, Pcs
  <2>3. /\ q.pc = "find_vmi" /\ q.op = req[r].op /\ q.name = n /\ q.ud = req[r].ud
        /\ q.uid = req[r].uid /\ q.res = req[r].res
    BY <2>1 DEF ReqRec
  <2>4. req' = [req EXCEPT ![r] = q]
    BY <1>4, <2>1
  <2> HIDE DEF q
  <2>5. Upd(r, "find_vmi", req[r].op, n, req[r].ud, req[r].uid, "none")
    BY <1>1, <2>1, <2>2, <2>3, <2>4 DEF Upd
  <2>6. /\ shared' \in SUBSET Names /\ shared \subseteq shared'
        /\ \A p \in Requests \ {r} : Running(p) /\ req[p].name = n => n \in shared'
    BY <1>1, <1>4, ClaimFacts
  <2>7. TypeOK'
    BY <1>1, <1>4, <2>5, <2>6 DEF TypeOK, Upd, objects, caches
  <2>8. Moves(r, "find_vmi", req[r].op, n, req[r].ud, req[r].uid, "none")
    BY <1>1, <1>4 DEF Moves
  <2> QED BY <1>1, <1>4, <2>5, <2>6, <2>7, <2>8, RequestMovesInv DEF objects, caches
<1>5. CASE FindVm(r)
  BY <1>2, <1>4, <1>5 DEF FindVm, Matches, FoundName, NotFound
<1>6. CASE FindVmi(r)
  BY <1>2, <1>3, <1>6 DEF FindVmi
<1> QED BY <1>5, <1>6

\* The VM is created: its UID is new, and its name was free.
LEMMA VmCreatedInv ==
    ASSUME ComputeInv, NEW r \in Requests, req[r].pc = "vm", vm[req[r].name] = None,
           vm' = [vm EXCEPT ![req[r].name] =
                    [uid |-> r, ud |-> req[r].ud = "drive", del |-> FALSE]],
           Go(r, "wait") \/ Finish(r, "err"), faults' \in 0..MaxFaults,
           UNCHANGED <<vmi, secret, caches, shared>>
    PROVE  ComputeInv'
<1> USE DEF AllocatePcs, FoundPcs, TerminatePcs
<1>n. PICK n \in Names : n = req[r].name
  BY DEF ComputeInv, Phase
<1>0. /\ TypeOK /\ n \in Names /\ req[r].op = "allocate" /\ ~Past(r) /\ Running(r)
      /\ req[r].res = "none" /\ req[r].name = n
  BY <1>n DEF ComputeInv, Phase, Past, Running
<1>new. PICK new \in VmObj : /\ vm' = [vm EXCEPT ![n] = new] /\ new.uid = r
                             /\ ~new.del /\ (new.ud => req[r].ud # "none")
  <2>1. PICK b \in BOOLEAN : b = (req[r].ud = "drive")
    OBVIOUS
  <2> DEFINE new == [uid |-> r, ud |-> b, del |-> FALSE]
  <2>2. new \in VmObj
    BY Zenon DEF VmObj
  <2>3. vm' = [vm EXCEPT ![n] = new]
    BY <1>n, <2>1
  <2>4. new.uid = r /\ ~new.del /\ new.ud = b
    BY Zenon
  <2>5. b => req[r].ud # "none"
    BY <2>1
  <2> HIDE DEF new
  <2> QED BY <2>2, <2>3, <2>4, <2>5
<1>1. /\ new \in VmObj /\ new # None /\ new.uid = r /\ ~new.del
      /\ new.ud => req[r].ud # "none"
  BY <1>new, ComputeAssumption
<1>2. vm' = [vm EXCEPT ![n] = new] /\ vm[n] = None
  BY <1>n, <1>new
<1>3. /\ vm' \in [Names -> VmObj \union {None}] /\ vm'[n] = new
      /\ \A m \in Names \ {n} : vm'[m] = vm[m]
  <2>1. vm \in [Names -> VmObj \union {None}]
    BY <1>0 DEF TypeOK
  <2>2. new \in VmObj \union {None}
    BY <1>1
  <2> QED BY <1>0, <1>2, <2>1, <2>2
<1>4. \/ Upd(r, "wait", "allocate", n, req[r].ud, req[r].uid, "none")
      \/ Upd(r, "done", "allocate", None, "none", req[r].uid, "err")
  BY <1>0, GoFacts, FinishFacts DEF Pcs
<1>5. /\ req' \in [Requests -> ReqRec]
      /\ \A p \in Requests \ {r} : req'[p] = req[p]
      /\ req'[r].op = "allocate"
      /\ \/ req'[r].pc = "wait" /\ req'[r].name = n /\ req'[r].res = "none"
         \/ req'[r].pc = "done" /\ req'[r].name = None
  BY <1>4 DEF Upd
<1>6. UNCHANGED <<cVm, secret, shared>>
  BY DEF caches
<1>7. TypeOK'
  BY <1>0, <1>3, <1>5 DEF TypeOK, caches
<1>8. Past(r)' /\ \A p \in Requests : Past(p) => Past(p)' /\ p # r
  BY <1>0, <1>5 DEF Past
<1>9. Phase'
  BY <1>0, <1>5, <1>8 DEF ComputeInv, Phase
<1>10. \A u \in Requests \ {r} : /\ \A m : OnlyAt(u, m) => OnlyAt(u, m)'
                                 /\ Gone(u) => Gone(u)'
  BY <1>0, <1>1, <1>3 DEF OnlyAt, Gone
<1>11. OnlyAt(r, n)'
  BY <1>0, <1>3 DEF OnlyAt, ComputeInv, Origin
<1>12. Origin'
  <2>1. ASSUME NEW m \in Names, vm'[m] # None
        PROVE  (Past(vm[m].uid) /\ OnlyAt(vm[m].uid, m))'
    <3>1. CASE m = n
      BY <1>1, <1>3, <1>8, <1>11, <3>1
    <3>2. CASE m # n
      <4>1. vm'[m] = vm[m] /\ vm[m].uid \in Requests
        BY <1>0, <1>3, <2>1, <3>2 DEF TypeOK, VmObj
      <4>2. Past(vm[m].uid) /\ OnlyAt(vm[m].uid, m)
        BY <2>1, <4>1 DEF ComputeInv, Origin
      <4> QED BY <1>8, <1>10, <4>1, <4>2
    <3> QED BY <3>1, <3>2
  <2>2. ASSUME NEW m \in Names, cVm'[m] # None
        PROVE  (Past(cVm[m]) /\ OnlyAt(cVm[m], m))'
    <3>1. cVm[m] \in Requests /\ Past(cVm[m]) /\ OnlyAt(cVm[m], m)
      BY <1>0, <1>6, <2>2 DEF ComputeInv, Origin, TypeOK
    <3> QED BY <1>6, <1>8, <1>10, <3>1
  <2>3. ASSUME NEW p \in Requests, req'[p].pc \in FoundPcs
        PROVE  OnlyAt(req[p].uid, req[p].name)'
    <3>1. p # r /\ req'[p] = req[p]
      BY <1>5, <2>3
    <3>2. req[p].uid \in Requests /\ Past(req[p].uid) /\ OnlyAt(req[p].uid, req[p].name)
      BY <2>3, <3>1 DEF ComputeInv, Phase, Origin
    <3> QED BY <1>8, <1>10, <3>1, <3>2
  <2> QED BY <2>1, <2>2, <2>3 DEF Origin
<1>13. Deleted'
  <2>1. ASSUME NEW p \in Requests,
               \/ req'[p].pc = "delete_secret"
               \/ req'[p].op = "terminate" /\ req'[p].res = "ok"
        PROVE  Gone(req[p].uid)'
    <3>1. p # r /\ req'[p] = req[p]
      BY <1>5, <2>1
    <3>2. req[p].uid \in Requests /\ Past(req[p].uid) /\ Gone(req[p].uid)
      BY <2>1, <3>1 DEF ComputeInv, Phase, Deleted
    <3> QED BY <1>8, <1>10, <3>1, <3>2
  <2> QED BY <2>1 DEF Deleted
<1>14. Alone'
  BY <1>0, <1>5, <1>6, ComputeAssumption DEF ComputeInv, Alone, Running
<1>15. SecretKept'
  <2>1. \A p \in Requests \ {r} : req[p].pc = "delete_secret" /\ req[p].name = n
           => n \in shared
    BY <1>0 DEF ComputeInv, Alone, Running
  <2> QED BY <1>3, <1>5, <1>6, <2>1, ComputeAssumption DEF ComputeInv, SecretKept
<1>16. OnTarget'
  <2>1. /\ TerminatedTwice => TerminatedTwice'
        /\ \A u : Touched(u) => Touched(u)'
    BY <1>0, <1>5, <1>8, Stable
  <2>2. \A u, m : m \in Names /\ Live(m, u) => Live(m, u)'
    BY <1>3 DEF Live
  <2>3. \A m \in Names : (vm[m] # None /\ vm[m].del)' => vm'[m] = vm[m]
    BY <1>1, <1>3
  <2>4. \A p \in Requests : req'[p].pc \in FoundPcs
           => req'[p] = req[p] /\ req[p].name \in Names
    BY <1>5 DEF ComputeInv, Phase
  <2> QED BY <1>6, <2>1, <2>2, <2>3, <2>4 DEF ComputeInv, OnTarget
<1>17. LiveVmHasSecret'
  <2>1. n \notin shared /\ new.ud => secret[n] # None
    BY <1>0, <1>1 DEF ComputeInv, SecretKept
  <2> QED BY <1>3, <1>6, <2>1 DEF ComputeInv, LiveVmHasSecret
<1> QED BY <1>7, <1>9, <1>12, <1>13, <1>14, <1>15, <1>16, <1>17 DEF ComputeInv

\* The Create of the VM, with all its outcomes.
LEMMA CreateVmInv ==
    ASSUME ComputeInv, NEW r \in Requests, CreateVm(r)
    PROVE  ComputeInv'
<1>1. /\ TypeOK /\ req[r].pc = "vm" /\ req[r].op = "allocate" /\ Running(r)
      /\ UNCHANGED <<vmi, caches, shared>>
  BY DEF ComputeInv, Phase, CreateVm, AllocatePcs, Running
<1>2. faults' \in 0..MaxFaults
  BY <1>1, ChargeFacts DEF CreateVm, TypeOK
<1>3. CASE VmRefused(r) /\ UNCHANGED vm
  BY <1>1, <1>2, <1>3, FinishInv DEF VmRefused, TypeOK, caches
<1>4. CASE ~(VmRefused(r) /\ UNCHANGED vm)
  BY <1>1, <1>2, <1>4, VmCreatedInv DEF CreateVm
<1> QED BY <1>3, <1>4

\* The VM is marked for deletion.
LEMMA VmDeletedInv ==
    ASSUME ComputeInv, NEW r \in Requests, req[r].pc = "delete",
           vm[req[r].name] # None,
           vm' = [vm EXCEPT ![req[r].name].del = TRUE],
           Go(r, "delete_secret") \/ Finish(r, "err"), faults' \in 0..MaxFaults,
           UNCHANGED <<vmi, secret, caches, shared>>
    PROVE  ComputeInv'
<1> USE DEF AllocatePcs, FoundPcs, TerminatePcs
<1>n. PICK n \in Names : n = req[r].name
  BY DEF ComputeInv, Phase
<1>u. PICK u \in Requests : u = req[r].uid
  BY DEF ComputeInv, Phase
<1>0. /\ TypeOK /\ req[r].op = "terminate" /\ Past(u) /\ Running(r)
      /\ req[r].res = "none" /\ req[r].name = n /\ req[r].uid = u /\ vm[n] # None
  BY <1>n, <1>u DEF ComputeInv, Phase, Running
<1>1. vm \in [Names -> VmObj \union {None}] /\ vm[n] \in VmObj
  BY <1>0 DEF TypeOK
<1> DEFINE new == [vm[n] EXCEPT !.del = TRUE]
<1>2. new \in VmObj
  BY <1>1, Zenon DEF VmObj
<1>3. new.uid = vm[n].uid /\ new.ud = vm[n].ud /\ new.del
  BY <1>1 DEF VmObj
<1>4. vm' = [vm EXCEPT ![n] = new]
  BY <1>0, <1>1
<1>5. new # None
  BY <1>2, ComputeAssumption
<1> HIDE DEF new
<1>6. /\ vm' \in [Names -> VmObj \union {None}] /\ vm'[n] = new
      /\ \A m \in Names \ {n} : vm'[m] = vm[m]
  <2>1. new \in VmObj \union {None}
    BY <1>2
  <2> QED BY <1>1, <1>4, <2>1
<1>7. /\ req' \in [Requests -> ReqRec]
      /\ \A p \in Requests \ {r} : req'[p] = req[p]
      /\ req'[r].op = "terminate" /\ req'[r].uid = u
      /\ \/ req'[r].pc = "delete_secret" /\ req'[r].name = n /\ req'[r].res = "none"
         \/ req'[r].pc = "done" /\ req'[r].name = None /\ req'[r].res = "err"
  <2>1. \/ Upd(r, "delete_secret", req[r].op, n, req[r].ud, u, "none")
        \/ Upd(r, "done", req[r].op, None, "none", u, "err")
    BY <1>0, GoFacts, FinishFacts DEF Pcs
  <2> QED BY <1>0, <2>1 DEF Upd
<1>8. UNCHANGED <<cVm, secret, shared>> /\ None \notin Names
  BY ComputeAssumption DEF caches
<1>9. TypeOK'
  BY <1>0, <1>6, <1>7 DEF TypeOK, caches
<1>10. \A p \in Requests : Past(p) => Past(p)'
  BY <1>0, <1>7 DEF Past
<1>11. Phase'
  BY <1>0, <1>7, <1>10 DEF ComputeInv, Phase
<1>12. \A v, m : OnlyAt(v, m) => OnlyAt(v, m)'
  BY <1>0, <1>3, <1>6 DEF OnlyAt
<1>13. \A v : Gone(v) => Gone(v)'
  BY <1>0, <1>3, <1>6 DEF Gone
<1>14. Gone(u)'
  BY <1>0, <1>3, <1>6 DEF Gone, OnlyAt, ComputeInv, Origin
<1>15. Origin'
  <2>1. ASSUME NEW m \in Names, vm'[m] # None
        PROVE  (Past(vm[m].uid) /\ OnlyAt(vm[m].uid, m))'
    <3>1. vm[m] # None /\ vm'[m].uid = vm[m].uid /\ vm[m].uid \in Requests
      BY <1>0, <1>1, <1>3, <1>6, <2>1 DEF VmObj
    <3>2. Past(vm[m].uid) /\ OnlyAt(vm[m].uid, m)
      BY <3>1 DEF ComputeInv, Origin
    <3> QED BY <1>10, <1>12, <3>1, <3>2
  <2>2. ASSUME NEW m \in Names, cVm'[m] # None
        PROVE  (Past(cVm[m]) /\ OnlyAt(cVm[m], m))'
    <3>1. cVm[m] \in Requests /\ Past(cVm[m]) /\ OnlyAt(cVm[m], m)
      BY <1>0, <1>8, <2>2 DEF ComputeInv, Origin, TypeOK
    <3> QED BY <1>8, <1>10, <1>12, <3>1
  <2>3. ASSUME NEW p \in Requests, req'[p].pc \in FoundPcs
        PROVE  OnlyAt(req[p].uid, req[p].name)'
    <3>1. p # r /\ req'[p] = req[p]
      BY <1>7, <2>3
    <3>2. OnlyAt(req[p].uid, req[p].name)
      BY <2>3, <3>1 DEF ComputeInv, Origin
    <3> QED BY <1>12, <3>1, <3>2
  <2> QED BY <2>1, <2>2, <2>3 DEF Origin
<1>16. Deleted'
  BY <1>7, <1>13, <1>14 DEF ComputeInv, Deleted
<1>17. Alone'
  BY <1>0, <1>7, <1>8 DEF ComputeInv, Alone, Running
<1>18. SecretKept'
  BY <1>3, <1>6, <1>7, <1>8 DEF ComputeInv, SecretKept
<1>19. OnTarget'
  <2>1. /\ TerminatedTwice => TerminatedTwice'
        /\ \A v : Touched(v) => Touched(v)'
    <3>1. \A p \in Requests : req[p].op = "terminate" =>
            /\ req'[p].op = "terminate" /\ req'[p].uid = req[p].uid
            /\ req[p].pc \in {"delete_secret", "done"}
                 => req'[p].pc \in {"delete_secret", "done"}
      BY <1>0, <1>7
    <3> QED BY <1>10, <3>1, Stable
  <2>2. Touched(u)'
    BY <1>7 DEF Touched
  <2>3. SUFFICES ASSUME ~TerminatedTwice', ~TerminatedTwice
                 PROVE  OnTarget'
    BY <2>1 DEF OnTarget
  <2>4. vm[n].uid = u
    BY <1>0, <2>3 DEF ComputeInv, OnTarget, Live
  <2>5. \A v, m : m \in Names /\ Live(m, v) => Live(m, v)' \/ (m = n /\ v = u)
    BY <1>6, <2>4 DEF Live
  <2>6. ASSUME NEW m \in Names, (vm[m] # None /\ vm[m].del)'
        PROVE  Touched(vm[m].uid)'
    <3>1. CASE m = n
      BY <1>3, <1>6, <2>2, <2>4, <3>1
    <3>2. CASE m # n
      BY <1>6, <2>1, <2>3, <2>6, <3>2 DEF ComputeInv, OnTarget
    <3> QED BY <3>1, <3>2
  <2>7. ASSUME NEW m \in Names, cVm'[m] # None
        PROVE  (Touched(cVm[m]) \/ Live(m, cVm[m]))'
    BY <1>8, <2>1, <2>2, <2>3, <2>5, <2>7 DEF ComputeInv, OnTarget
  <2>8. ASSUME NEW p \in Requests, req'[p].pc \in FoundPcs
        PROVE  Live(req[p].name, req[p].uid)'
    <3>1. p # r /\ req'[p] = req[p] /\ req[p].name \in Names /\ req[p].op = "terminate"
      BY <1>7, <2>8 DEF ComputeInv, Phase
    <3>2. Live(req[p].name, req[p].uid)
      BY <2>3, <2>8, <3>1 DEF ComputeInv, OnTarget
    <3>3. req[p].uid # u
      BY <1>0, <2>3, <3>1 DEF TerminatedTwice
    <3> QED BY <2>5, <3>1, <3>2, <3>3
  <2> QED BY <2>6, <2>7, <2>8 DEF OnTarget
<1>20. LiveVmHasSecret'
  BY <1>3, <1>6, <1>8 DEF ComputeInv, LiveVmHasSecret
<1> QED BY <1>9, <1>11, <1>15, <1>16, <1>17, <1>18, <1>19, <1>20 DEF ComputeInv

\* The deletion of the VM, with all its outcomes.
LEMMA DeleteVmInv ==
    ASSUME ComputeInv, NEW r \in Requests, DeleteVm(r)
    PROVE  ComputeInv'
<1>1. /\ TypeOK /\ req[r].pc = "delete" /\ req[r].op = "terminate" /\ Running(r)
      /\ UNCHANGED <<vmi, secret, caches, shared>>
  BY DEF ComputeInv, Phase, DeleteVm, FoundPcs, TerminatePcs, Running
<1>2. faults' \in 0..MaxFaults
  BY <1>1, ChargeFacts DEF DeleteVm, TypeOK
<1>3. CASE Finish(r, "err") /\ UNCHANGED vm
  BY <1>1, <1>2, <1>3, FinishInv DEF TypeOK, caches
<1>4. CASE /\ vm[req[r].name] # None
           /\ vm' = [vm EXCEPT ![req[r].name].del = TRUE]
           /\ Go(r, "delete_secret") \/ Finish(r, "err")
  BY <1>1, <1>2, <1>4, VmDeletedInv
<1> QED BY <1>3, <1>4 DEF DeleteVm, Outcomes

\* The deletion of the Secret: the VM it belonged to is gone or going.
LEMMA DeleteSecretInv ==
    ASSUME ComputeInv, NEW r \in Requests, DeleteSecret(r)
    PROVE  ComputeInv'
<1> USE DEF FoundPcs, TerminatePcs
<1>n. PICK n \in Names : n = req[r].name
  BY DEF ComputeInv, Phase, DeleteSecret
<1>1. /\ TypeOK /\ req[r].pc = "delete_secret" /\ Running(r)
      /\ UNCHANGED <<vm, vmi, caches, shared>>
  BY DEF ComputeInv, DeleteSecret, Running
<1>2. PICK out \in Outcomes :
          /\ Charge(out)
          /\ secret' = IF out = "fail" THEN secret ELSE [secret EXCEPT ![n] = None]
          /\ Finish(r, IF out = "ok" THEN "ok" ELSE "err")
  BY <1>n DEF DeleteSecret
<1>3. PICK res \in {"ok", "err"} :
         Upd(r, "done", req[r].op, None, "none", req[r].uid, res)
  BY <1>1, <1>2, FinishFacts
<1>4. faults' \in 0..MaxFaults
  BY <1>1, <1>2, ChargeFacts
<1>5. /\ secret' \in [Names -> Requests \union {None}]
      /\ \A m \in Names \ {n} : secret'[m] = secret[m]
  BY <1>1, <1>2 DEF TypeOK
<1>6. TypeOK'
  BY <1>1, <1>3, <1>4, <1>5 DEF TypeOK, Upd, caches
<1>7. Moves(r, "done", req[r].op, None, "none", req[r].uid, res)
  BY <1>1 DEF Moves
<1>8. None \notin Names /\ UNCHANGED cVm
  BY <1>1, ComputeAssumption DEF caches
<1>9. (Phase /\ Origin /\ Deleted /\ Alone /\ OnTarget)'
  BY <1>1, <1>3, <1>7, <1>8, RequestMoves
<1>10. /\ \A p \in Requests \ {r} : req'[p] = req[p]
       /\ req'[r].pc = "done"
  BY <1>3 DEF Upd
<1>11. SecretKept'
  <2>1. \A p \in Requests \ {r} : Running(p) /\ req[p].name = n => n \in shared
    BY <1>n, <1>1 DEF ComputeInv, Alone
  <2>2. ASSUME NEW p \in Requests, req'[p].name \in Names \ shared,
               req'[p].pc \in {"resolve", "vm"}, req'[p].ud # "none"
        PROVE  secret'[req'[p].name] # None
    <3>1. p # r /\ req'[p] = req[p] /\ Running(p)
      BY <1>10, <2>2 DEF Running
    <3>2. req[p].name # n
      BY <2>1, <2>2, <3>1
    <3> QED BY <1>5, <2>2, <3>1, <3>2 DEF ComputeInv, SecretKept
  <2>3. ASSUME NEW p \in Requests, req'[p].name \in Names \ shared,
               req'[p].pc = "delete_secret", vm[req'[p].name] # None
        PROVE  vm[req'[p].name].del
    BY <1>10, <2>3 DEF ComputeInv, SecretKept
  <2> QED BY <1>1, <2>2, <2>3 DEF SecretKept
<1>12. LiveVmHasSecret'
  BY <1>n, <1>1, <1>5 DEF ComputeInv, SecretKept, LiveVmHasSecret
<1> QED BY <1>6, <1>9, <1>11, <1>12 DEF ComputeInv

(* KubeVirt starts, boots or loses an instance, its cache catches up, or   *)
(* the networks of a VM change.                                            *)
LEMMA InstanceInv ==
    ASSUME ComputeInv, vmi' \in [Names -> VmiObj \union {None}],
           cVmi' \in SUBSET Names, opaque' \in SUBSET Names, faults' \in 0..MaxFaults,
           UNCHANGED <<vm, secret, cVm, req, shared>>
    PROVE  ComputeInv'
<1>1. TypeOK'
  BY DEF ComputeInv, TypeOK
<1>2. (Phase /\ Origin /\ Deleted)'
  BY DEF ComputeInv, Phase, Origin, Deleted, Past, OnlyAt, Gone
<1>3. (Alone /\ SecretKept /\ LiveVmHasSecret)'
  BY DEF ComputeInv, Alone, SecretKept, LiveVmHasSecret, Running
<1>4. OnTarget'
  BY DEF ComputeInv, OnTarget, Touched, Live, TerminatedTwice
<1> QED BY <1>1, <1>2, <1>3, <1>4 DEF ComputeInv

\* KubeVirt's steps on one name.
LEMMA ClusterInv ==
    ASSUME ComputeInv, NEW n \in Names, Cluster(n)
    PROVE  ComputeInv'
<1>1. /\ TypeOK /\ vmi \in [Names -> VmiObj \union {None}]
      /\ cVmi \in SUBSET Names /\ opaque \in SUBSET Names
      /\ vm \in [Names -> VmObj \union {None}] /\ faults \in 0..MaxFaults
  BY DEF ComputeInv, TypeOK
<1>2. CASE StartVmi(n)
  <2>1. vm[n].uid \in Requests
    BY <1>1, <1>2 DEF StartVmi, VmObj
  <2>2. [vm |-> vm[n].uid, data |-> None] \in VmiObj \union {None}
    BY <2>1 DEF VmiObj
  <2>3. vmi' \in [Names -> VmiObj \union {None}]
    BY <1>1, <1>2, <2>2 DEF StartVmi
  <2> QED BY <1>1, <1>2, <2>3, InstanceInv DEF StartVmi, caches
<1>3. CASE Boot(n)
  <2>1. vmi[n] \in VmiObj /\ secret[n] \in Requests
    BY <1>1, <1>3 DEF Boot, TypeOK
  <2>2. [vmi[n] EXCEPT !.data = secret[n]] \in VmiObj \union {None}
    BY <2>1 DEF VmiObj
  <2>3. vmi' = [vmi EXCEPT ![n] = [vmi[n] EXCEPT !.data = secret[n]]]
    BY <1>1, <1>3 DEF Boot
  <2>4. vmi' \in [Names -> VmiObj \union {None}]
    BY <1>1, <2>2, <2>3
  <2> QED BY <1>1, <1>3, <2>4, InstanceInv DEF Boot, caches
<1>4. CASE LoseVmi(n)
  <2>1. vmi' \in [Names -> VmiObj \union {None}] /\ faults' \in 0..MaxFaults
    BY <1>1, <1>4, ChargeFacts DEF LoseVmi
  <2> QED BY <1>1, <1>4, <2>1, InstanceInv DEF LoseVmi, caches
<1>5. CASE FinalizeVm(n) /\ UNCHANGED vm
  <2>1. vmi' \in [Names -> VmiObj \union {None}]
    BY <1>1, <1>5 DEF FinalizeVm
  <2> QED BY <1>1, <1>5, <2>1, InstanceInv DEF FinalizeVm, caches
<1>6. CASE FinalizeVm(n) /\ vm' = [vm EXCEPT ![n] = None]
  <2>1. /\ vm[n] # None /\ vm[n].del /\ UNCHANGED <<secret, caches, req, shared, faults>>
        /\ vm'[n] = None /\ \A m \in Names \ {n} : vm'[m] = vm[m]
        /\ vm' \in [Names -> VmObj \union {None}]
    BY <1>1, <1>6 DEF FinalizeVm
  <2>2. vmi' \in [Names -> VmiObj \union {None}]
    BY <1>1, <1>6 DEF FinalizeVm
  <2>3. TypeOK'
    BY <1>1, <2>1, <2>2 DEF TypeOK, caches
  <2>4. (Phase /\ Alone)'
    BY <2>1 DEF ComputeInv, Phase, Past, Alone, Running
  <2>5. \A u, m : (OnlyAt(u, m) => OnlyAt(u, m)') /\ (Gone(u) => Gone(u)')
    BY <2>1 DEF OnlyAt, Gone
  <2>6. Origin'
    <3>1. \A u : Past(u) => Past(u)'
      BY <2>1 DEF Past
    <3> QED BY <2>1, <2>5, <3>1 DEF ComputeInv, Origin, caches
  <2>7. Deleted'
    BY <2>1, <2>5 DEF ComputeInv, Deleted
  <2>8. (SecretKept /\ LiveVmHasSecret)'
    BY <2>1 DEF ComputeInv, SecretKept, LiveVmHasSecret
  <2>9. OnTarget'
    <3>1. \A u, m : m \in Names /\ Live(m, u) => Live(m, u)'
      BY <2>1 DEF Live
    <3>2. /\ TerminatedTwice' = TerminatedTwice
          /\ \A u : Touched(u) => Touched(u)'
      BY <2>1 DEF Touched, TerminatedTwice
    <3>3. \A p \in Requests : req[p].pc \in FoundPcs => req[p].name \in Names
      BY DEF ComputeInv, Phase
    <3> QED BY <2>1, <3>1, <3>2, <3>3 DEF ComputeInv, OnTarget, caches
  <2> QED BY <2>3, <2>4, <2>6, <2>7, <2>8, <2>9 DEF ComputeInv
<1> QED BY <1>2, <1>3, <1>4, <1>5, <1>6 DEF Cluster, FinalizeVm

\* The cache of VMs as it is after it has caught up.
FreshVms == [n \in Names |-> IF vm[n] = None THEN None ELSE vm[n].uid]

\* A fresh cache satisfies what is said of the cache.
LEMMA FreshFacts ==
    ASSUME ComputeInv
    PROVE  /\ FreshVms \in [Names -> Requests \union {None}]
           /\ \A n \in Names : FreshVms[n] # None =>
                /\ Past(FreshVms[n]) /\ OnlyAt(FreshVms[n], n)
                /\ TerminatedTwice \/ Touched(FreshVms[n]) \/ Live(n, FreshVms[n])
<1>1. \A n \in Names : vm[n] # None => vm[n].uid \in Requests
  BY DEF ComputeInv, TypeOK, VmObj
<1>2. FreshVms \in [Names -> Requests \union {None}]
  BY <1>1 DEF FreshVms
<1>3. ASSUME NEW n \in Names, FreshVms[n] # None
      PROVE  /\ Past(FreshVms[n]) /\ OnlyAt(FreshVms[n], n)
             /\ TerminatedTwice \/ Touched(FreshVms[n]) \/ Live(n, FreshVms[n])
  <2>1. vm[n] # None /\ FreshVms[n] = vm[n].uid
    BY <1>3 DEF FreshVms
  <2>2. Past(vm[n].uid) /\ OnlyAt(vm[n].uid, n)
    BY <2>1 DEF ComputeInv, Origin
  <2>3. TerminatedTwice \/ Touched(vm[n].uid) \/ Live(n, vm[n].uid)
    BY <2>1 DEF ComputeInv, OnTarget, Live
  <2> QED BY <2>1, <2>2, <2>3
<1> QED BY <1>2, <1>3

\* The cache of VMs catches up.
LEMMA WatchVmsInv ==
    ASSUME ComputeInv, WatchVms
    PROVE  ComputeInv'
<1>1. UNCHANGED <<objects, cVmi, opaque, req, shared, faults>> /\ cVm' = FreshVms
  BY DEF WatchVms, FreshVms
<1>2. TypeOK'
  BY <1>1, FreshFacts DEF ComputeInv, TypeOK, objects
<1>3. (Phase /\ Deleted)'
  BY <1>1 DEF ComputeInv, Phase, Deleted, Past, Gone, objects
<1>4. (Alone /\ SecretKept /\ LiveVmHasSecret)'
  BY <1>1 DEF ComputeInv, Alone, SecretKept, LiveVmHasSecret, Running, objects
<1>5. \A u, n : /\ Past(u) => Past(u)'
                /\ OnlyAt(u, n) => OnlyAt(u, n)'
                /\ Live(n, u) => Live(n, u)'
                /\ Touched(u) => Touched(u)'
                /\ TerminatedTwice => TerminatedTwice'
  BY <1>1 DEF Past, OnlyAt, Live, Touched, TerminatedTwice, objects
<1>6. Origin'
  BY <1>1, <1>5, FreshFacts DEF ComputeInv, Origin, objects
<1>7. OnTarget'
  BY <1>1, <1>5, FreshFacts DEF ComputeInv, OnTarget, objects
<1> QED BY <1>2, <1>3, <1>4, <1>6, <1>7 DEF ComputeInv

\* A crash ends every call where it stands.
LEMMA CrashInv ==
    ASSUME ComputeInv, Crash
    PROVE  ComputeInv'
<1> USE DEF AllocatePcs, FoundPcs, TerminatePcs
<1>1. \A r \in Requests : req[r] \in ReqRec
  BY DEF ComputeInv, TypeOK
<1>2. req' = [r \in Requests |-> IF Running(r) THEN Ended(req[r], "crash") ELSE req[r]]
  BY DEF Crash
<1>3. /\ req' \in [Requests -> ReqRec]
      /\ \A r \in Requests :
           /\ req'[r].op = req[r].op /\ req'[r].uid = req[r].uid
           /\ \/ req'[r] = req[r] /\ req[r].pc \in {"idle", "done"}
              \/ req'[r].pc = "done" /\ req'[r].res = "crash" /\ req'[r].name = None
  BY <1>1, <1>2, EndedFacts DEF Running
<1>4. /\ UNCHANGED <<vm, vmi, secret, opaque, shared>> /\ cVm' = FreshVms
      /\ cVmi' \in SUBSET Names /\ None \notin Names
  BY ComputeAssumption DEF Crash, FreshVms, objects
<1>5. faults' \in 0..MaxFaults
  BY ChargeFacts DEF Crash, ComputeInv
<1>6. TypeOK'
  BY <1>3, <1>4, <1>5, FreshFacts DEF ComputeInv, TypeOK
<1>7. \A p \in Requests : Past(p) => Past(p)'
  BY <1>3 DEF Past
<1>8. /\ TerminatedTwice => TerminatedTwice'
      /\ \A u : Touched(u) => Touched(u)'
  BY <1>3, <1>7, Stable
<1>9. \A u, n : /\ OnlyAt(u, n) => OnlyAt(u, n)'
                /\ Gone(u) => Gone(u)'
                /\ Live(n, u) => Live(n, u)'
  BY <1>4 DEF OnlyAt, Gone, Live
<1>10. Phase'
  BY <1>3, <1>7 DEF ComputeInv, Phase
<1>11. Origin'
  <2>1. \A n \in Names : vm[n] # None => vm[n].uid \in Requests
    BY DEF ComputeInv, TypeOK, VmObj
  <2>2. \A n \in Names : FreshVms[n] # None => FreshVms[n] \in Requests
    BY FreshFacts
  <2>3. \A r \in Requests : req'[r].pc \notin FoundPcs
    BY <1>3
  <2> QED BY <1>4, <1>7, <1>9, <2>1, <2>2, <2>3, FreshFacts DEF ComputeInv, Origin
<1>12. Deleted'
  BY <1>3, <1>9 DEF ComputeInv, Deleted
<1>13. (Alone /\ SecretKept /\ LiveVmHasSecret)'
  BY <1>3, <1>4 DEF ComputeInv, Alone, SecretKept, LiveVmHasSecret, Running
<1>14. OnTarget'
  BY <1>3, <1>4, <1>8, <1>9, FreshFacts DEF ComputeInv, OnTarget
<1> QED BY <1>6, <1>10, <1>11, <1>12, <1>13, <1>14 DEF ComputeInv

\* Every step of the specification keeps the invariant.
LEMMA NextInv == ComputeInv /\ [Next]_vars => ComputeInv'
<1> SUFFICES ASSUME ComputeInv, [Next]_vars PROVE ComputeInv'
  OBVIOUS
<1>1. CASE UNCHANGED vars \/ WatchVmis
  BY <1>1, InstanceInv DEF vars, objects, caches, WatchVmis, ComputeInv, TypeOK
<1>2. CASE WatchVms \/ Crash
  BY <1>2, WatchVmsInv, CrashInv
<1>3. ASSUME NEW n \in Names, Cluster(n) PROVE ComputeInv'
  BY <1>3, ClusterInv
<1>4. ASSUME NEW r \in Requests, Call(r) PROVE ComputeInv'
  BY <1>4, CallAllocateInv, RejectInv, CallTerminateInv DEF Call
<1>5. ASSUME NEW r \in Requests, Step(r) PROVE ComputeInv'
  BY <1>5, WriteSecretInv, ResolveInv, CreateVmInv, WaitInv, FindInv, DeleteVmInv,
     DeleteSecretInv DEF Step
<1>6. ASSUME NEW n \in Names, NetworkShadowed(n) \/ NetworkRestored(n) PROVE ComputeInv'
  <2>1. faults' \in 0..MaxFaults /\ opaque' \in SUBSET Names
    BY <1>6, ChargeFacts DEF NetworkShadowed, NetworkRestored, ComputeInv, TypeOK
  <2>2. UNCHANGED <<objects, cVm, cVmi, req, shared>>
    BY <1>6 DEF NetworkShadowed, NetworkRestored
  <2> QED BY <2>1, <2>2, InstanceInv DEF objects, ComputeInv, TypeOK
<1> QED BY <1>1, <1>2, <1>3, <1>4, <1>5, <1>6 DEF Next

\* The invariant holds in every reachable state.
LEMMA InvAlways == Spec => []ComputeInv
BY InitInv, NextInv, PTL DEF Spec

-----------------------------------------------------------------------------
(* The theorems *)

(* Every reachable state of the compute manager is well typed.             *)
THEOREM ComputeTypeCorrect == Spec => []TypeOK
<1>1. ComputeInv => TypeOK
  BY DEF ComputeInv
<1> QED BY <1>1, InvAlways, PTL

(* A VM on whose name calls never overlapped has the Secret it boots from, *)
(* however AllocateComputeResource and DeleteComputeResource fail.         *)
THEOREM SecretsStay == Spec => []LiveVmHasSecret
<1>1. ComputeInv => LiveVmHasSecret
  BY DEF ComputeInv
<1> QED BY <1>1, InvAlways, PTL

(* A termination that succeeds has got rid of the VM with the id it was    *)
(* given, although it deletes by a name from a stale cache.                *)
THEOREM TerminationIsFinal == Spec => []TerminatedVmIsGone
<1>1. ComputeInv => TerminatedVmIsGone
  BY DEF ComputeInv, Deleted, Gone, TerminatedVmIsGone
<1> QED BY <1>1, InvAlways, PTL

\* A step of a request touches a live VM only by deleting its own.
LEMMA StepHitsOwn ==
    ASSUME ComputeInv, [Next]_vars, NEW r \in Requests, NEW n \in Names,
           req'[r] # req[r], ~TerminatedTwice,
           vm[n] # None, ~vm[n].del, vm'[n] # vm[n]
    PROVE  vm[n].uid = req[r].uid
<1>1. /\ req \in [Requests -> ReqRec] /\ vm \in [Names -> VmObj \union {None}]
  BY DEF ComputeInv, TypeOK
<1>2. PICK p \in Requests : CreateVm(p) \/ DeleteVm(p)
  BY DEF Next, vars, objects, WatchVms, WatchVmis, Crash, Call, CallAllocate, Reject,
     CallTerminate, Cluster, StartVmi, Boot, LoseVmi, FinalizeVm, Step, CreateSecret,
     UpdateSecret, Resolve, WaitForVmi, Timeout, FindVm, FindVmi, DeleteSecret,
     NetworkShadowed, NetworkRestored
<1>3. p = r
  BY <1>1, <1>2 DEF CreateVm, VmRefused, DeleteVm, Go, Finish
<1>4. CASE CreateVm(r)
  BY <1>1, <1>4 DEF CreateVm
<1>5. CASE DeleteVm(r)
  <2>1. req[r].name = n
    BY <1>1, <1>5 DEF DeleteVm
  <2>2. Live(req[r].name, req[r].uid)
    BY <1>5 DEF DeleteVm, ComputeInv, OnTarget, FoundPcs
  <2> QED BY <2>1, <2>2 DEF Live
<1> QED BY <1>2, <1>3, <1>4, <1>5

(* As long as no VM is terminated twice, a termination deletes the VM that *)
(* was meant and no other, although names are reused.                      *)
THEOREM TerminationsHitTheirOwn == Spec => TerminateHitsItsOwn
<1>1. ComputeInv /\ [Next]_vars =>
        [\A r \in Requests, n \in Names :
            /\ req'[r] # req[r] /\ ~TerminatedTwice
            /\ vm[n] # None /\ ~vm[n].del /\ vm'[n] # vm[n]
            => vm[n].uid = req[r].uid]_vars
  BY StepHitsOwn
<1> QED BY <1>1, InvAlways, PTL DEF Spec, TerminateHitsItsOwn

=============================================================================
